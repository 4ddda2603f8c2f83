------------------------------ MODULE RecvFramer ------------------------------
(***************************************************************************)
(* How the Controls finds a frame among the bytes of the line: the receive *)
(* driver (PacketRecvDriver.c) from the hunt for the start bytes to the    *)
(* checksum, one byte at a time.                                           *)
(*                                                                         *)
(* The idle hook calls the driver over and over; a call goes through the   *)
(* cases of the switch from the one it stands at, falling through as long  *)
(* as there is a byte to read.  A byte may arrive between two tests of one *)
(* call: `at' is the case that the call under way has reached.  At 9600    *)
(* baud bytes are a millisecond apart and a call is much shorter, so that  *)
(* at most one byte arrives during a call (`during').  The USART holds one *)
(* byte (DR), which is read before the next comes, or else that one is     *)
(* lost.  From the command byte on the DMA takes the bytes out of DR.      *)
(*                                                                         *)
(* The buffer is always there to be had; ControlsPackets has the pool.     *)
(***************************************************************************)
EXTENDS Frames

VARIABLES
  toCtrl,    \* bytes on the line to the Controls
  DR,        \* the USART's data register: <<>> or one byte
  rdrv,      \* state_machine
  at,        \* the case the call under way stands at, OUT between calls
  during,    \* a byte has arrived since the call began
  bufbase,   \* the buffer as filled so far: length, command, data, checksum
  packet     \* what was handed to the receive thread

framerVars == <<toCtrl, DR, rdrv, at, during, bufbase, packet>>

RF_Reset(dr, state, pc, buf, pkt) ==
  dr = <<>> /\ state = "LOOKING_FOR_AB" /\ pc = "OUT" /\ buf = <<>> /\ pkt = None

RF_Init == toCtrl = <<>> /\ during = FALSE /\ RF_Reset(DR, rdrv, at, bufbase, packet)

(* Mutant: the DMA is set up for one byte too many.                        *)
DmaDone_OneMore == rdrv = "WAITCOMPLETE" /\ Len(bufbase) = bufbase[1] + 4

(* The DMA has stored length + 2 bytes after the length byte, or not yet.  *)
DmaDone == rdrv = "WAITCOMPLETE" /\ Len(bufbase) = bufbase[1] + 3
DmaActive == rdrv = "WAITCOMPLETE" /\ ~DmaDone

(* The next byte arrives.                                                  *)
Line_Byte ==
  /\ toCtrl # <<>> /\ ~during
  /\ IF DmaActive THEN bufbase' = Append(bufbase, Head(toCtrl)) /\ UNCHANGED DR
                  ELSE DR = <<>> /\ DR' = <<Head(toCtrl)>> /\ UNCHANGED bufbase
  /\ toCtrl' = Tail(toCtrl)
  /\ during' = (at # "OUT")
  /\ UNCHANGED <<rdrv, at, packet>>

(* A call begins; calls that would find nothing to do are left out.        *)
PacketRecvDriver_Process ==
  /\ at = "OUT" /\ packet = None
  /\ DR # <<>> \/ DmaDone
  /\ at' = rdrv
  /\ UNCHANGED <<toCtrl, DR, rdrv, during, bufbase, packet>>

(* A case that finds no byte returns ...                                   *)
Return ==
  /\ at \notin {"OUT", "WAITCOMPLETE"} /\ DR = <<>>
  /\ at' = "OUT" /\ during' = FALSE
  /\ UNCHANGED <<toCtrl, DR, rdrv, bufbase, packet>>

(* ... and one that finds a byte reads it and falls through.               *)
Case(state, next) ==
  /\ at = state /\ DR # <<>>
  /\ DR' = <<>>
  /\ at' = next
  /\ UNCHANGED <<toCtrl, during, packet>>

(* A byte that is not the first start byte leaves the state as it is, but  *)
(* the byte after it, if there already, is tested for the second.          *)
LookingForAB ==
  /\ Case("LOOKING_FOR_AB", "LOOKING_FOR_5F")
  /\ rdrv' = IF DR = <<AB>> THEN "LOOKING_FOR_5F" ELSE rdrv
  /\ UNCHANGED bufbase

(* Whatever the outcome, the byte after it, if there, is the number.       *)
LookingFor5F ==
  /\ Case("LOOKING_FOR_5F", "GET_SEQN")
  /\ rdrv' = IF DR = <<F5>> THEN "GET_SEQN" ELSE "LOOKING_FOR_AB"
  /\ UNCHANGED bufbase

GetSeqn ==
  /\ Case("GET_SEQN", "GET_LEN")
  /\ rdrv' = "GET_LEN"
  /\ UNCHANGED bufbase

GetLen ==
  /\ Case("GET_LEN", "WAIT_THEN_GO")
  /\ rdrv' = "WAIT_THEN_GO"
  /\ bufbase' = DR

(* The command byte is there: the DMA is started and takes it.             *)
WaitThenGo ==
  /\ Case("WAIT_THEN_GO", "WAITCOMPLETE")
  /\ rdrv' = "WAITCOMPLETE"
  /\ bufbase' = bufbase \o DR

(* The frame is there: good or not, the driver begins anew.                *)
Complete(isGood) ==
  /\ at = "WAITCOMPLETE"
  /\ at' = "OUT" /\ during' = FALSE
  /\ IF DmaDone
       THEN /\ packet' = IF isGood THEN SubSeq(bufbase, 2, bufbase[1] + 2) ELSE None
            /\ rdrv' = "LOOKING_FOR_AB"
            /\ bufbase' = <<>>
       ELSE UNCHANGED <<packet, rdrv, bufbase>>
  /\ UNCHANGED <<toCtrl, DR>>

Matches == bufbase[bufbase[1] + 3] = SumOf(SubSeq(bufbase, 1, bufbase[1] + 2))

(* Mutant: the checksum is not looked at.                                  *)
WaitComplete_Unchecked == Complete(TRUE)

(* Mutant: a bad checksum does not make the driver begin anew.             *)
WaitComplete_Stuck ==
  IF DmaDone /\ ~Matches
    THEN at = "WAITCOMPLETE" /\ at' = "OUT"
           /\ UNCHANGED <<toCtrl, DR, rdrv, during, bufbase, packet>>
    ELSE Complete(TRUE)

WaitComplete == Complete(Matches)

RecvDriver == \/ PacketRecvDriver_Process \/ Return
              \/ LookingForAB \/ LookingFor5F \/ GetSeqn \/ GetLen
              \/ WaitThenGo \/ WaitComplete
=============================================================================
