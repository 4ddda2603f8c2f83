----------------------------- MODULE PacketLink -----------------------------
(***************************************************************************)
(* What the sending half of the Controls processor promises to its         *)
(* callers, whatever threads, semaphores and DMA channels it is made of: a *)
(* bounded first-in first-out line.  A packet that was accepted goes onto  *)
(* the wire once, after those accepted before it, and none does until the  *)
(* host has come up for the first time.                                    *)
(***************************************************************************)
EXTENDS Naturals, Sequences

CONSTANTS Packets, Capacity   \* Capacity: a number of packets

VARIABLES
  line,   \* packets accepted and not yet on the wire to their last byte
  open    \* the host has been up

Init == line = <<>> /\ open = FALSE

Accept == /\ Len(line) < Capacity
          /\ Len(line') = Len(line) + 1     \* spares TLC the search for p
          /\ \E p \in Packets : line' = Append(line, p)
          /\ UNCHANGED open

Transmit == /\ open /\ line # <<>>
            /\ line' = Tail(line)
            /\ UNCHANGED open

Open == open' = TRUE /\ UNCHANGED line

Next == Accept \/ Transmit \/ Open
Spec == Init /\ [][Next]_<<line, open>>
=============================================================================
