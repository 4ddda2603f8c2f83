---------------------------- MODULE ConsoleLine ----------------------------
(***************************************************************************)
(* What the console's output promises to those who print: the texts that   *)
(* were accepted are printed once each, whole, in the order in which they  *)
(* were accepted; a text is refused, without a word, only when Capacity    *)
(* others wait; and the completion flag given with a text is 0 from its    *)
(* acceptance until it has been printed.                                   *)
(***************************************************************************)
EXTENDS Naturals, Sequences

CONSTANTS Texts, Flags, NoFlag, Capacity

VARIABLES
  line,    \* accepted and not yet printed to the last character
  last,    \* the text that was printed last
  done     \* the completion flags

Set(flags, f, v) == IF f = NoFlag THEN flags ELSE [flags EXCEPT ![f] = v]

Init == line = <<>> /\ last = <<>> /\ done \in [Flags -> {0, 1}]

Accept == /\ Len(line) < Capacity
         /\ \E t \in Texts, f \in Flags \union {NoFlag} :
              /\ line' = Append(line, [text |-> t, comp |-> f])
              /\ done' = Set(done, f, 0)
         /\ UNCHANGED last

Finish == /\ line # <<>>
          /\ last' = line[1].text
          /\ done' = Set(done, line[1].comp, 1)
          /\ line' = Tail(line)

Next == Accept \/ Finish
Spec == Init /\ [][Next]_<<line, last, done>>
=============================================================================
