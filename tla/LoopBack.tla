------------------------------- MODULE LoopBack -------------------------------
(***************************************************************************)
(* A loop-back over the real line: the host's PC_dloop sends data in a     *)
(* frame (serial_send.c), the Controls' driver (RecvFramer) finds it, the  *)
(* receive thread sends the data back in a frame of its own, the host's    *)
(* Get_Input_Packet (SerialRecv) finds that one, and PC_dloop compares, or *)
(* gives up after 3 seconds.  Bytes may be lost, changed or added by noise *)
(* in both directions, and the Controls may be reset in the middle.        *)
(*                                                                         *)
(* Answers come within the 3 seconds or not at all; late ones are the      *)
(* business of HostComms, overflowing queues of ControlsPackets.           *)
(***************************************************************************)
EXTENDS RecvFramer, SerialRecv, FiniteSets

CONSTANTS
  DLOOP,       \* the command byte (HOSTCMD_DLOOP_OH, CDCAPI_DLOOP_FHOST: 25)
  Datas,       \* the data that the host sends, sequences of bytes
  Seqns,       \* sequence numbers: a counter modulo 256, here any of these
  Noises,      \* bound: the bytes that noise makes
  MaxFaults    \* bound: how often something goes wrong

(* PC_dloop sends at most 246 bytes of data; the Controls composes its     *)
(* answer in a buffer of 256.                                              *)
ASSUME LoopAssumption ==
  /\ DLOOP \in Bytes /\ Seqns \subseteq Bytes /\ Seqns # {}
  /\ \A d \in Datas : d \in Seq(Bytes) /\ d # <<>> /\ Len(d) + 6 <= BYTE
  /\ Noises \subseteq Bytes /\ MaxFaults \in Nat

VARIABLES
  host,      \* PC_dloop: between commands, or waiting for the response
  req,       \* the data it sent last
  \* For the properties only.
  faults,    \* how often something went wrong
  damage,    \* what went wrong since the data was sent: nothing, one byte
             \* after the length was changed, or more
  done       \* the last loop-back succeeded

hostVars == <<host, req>>
ghosts   == <<faults, damage, done>>
vars == <<framerVars, serialVars, hostVars, ghosts>>

Init ==
  /\ RF_Init /\ SR_Init
  /\ host = "IDLE" /\ req = <<>>
  /\ faults = 0 /\ damage = "NONE" /\ done = FALSE

-----------------------------------------------------------------------------
(* Both receivers are at the beginning of their hunt, the line is silent.  *)
InStep == /\ toCtrl = <<>> /\ DR = <<>> /\ rdrv = "LOOKING_FOR_AB" /\ at = "OUT"
          /\ toHost = <<>> /\ rx = "HUNT" /\ packet = None /\ published = None

(* PC_dloop and Serial_Send.  Between the frames of the host there are at  *)
(* least the milliseconds of an answer: the driver's call has returned.    *)
Dloop_Send ==
  /\ host = "IDLE" /\ toCtrl = <<>> /\ at = "OUT"
  /\ \E d \in Datas, seqn \in Seqns :
       req' = d /\ toCtrl' = HostFrame(seqn, DLOOP, d)
  /\ host' = "WAIT"
  /\ damage' = IF InStep THEN "NONE" ELSE "MORE"
  /\ done' = FALSE
  /\ UNCHANGED <<DR, rdrv, at, during, bufbase, packet, serialVars, faults>>

(* PacketRecv_Thread and the send half: a loop-back is sent back, any      *)
(* other command here is one that is not answered.                         *)
Controls_Answer ==
  /\ packet # None
  /\ packet' = None
  /\ \/ /\ Head(packet) = DLOOP
        /\ \E seqn \in Seqns :
             toHost' = toHost \o ControlsFrame(seqn, DLOOP, Tail(packet))
     \/ Head(packet) # DLOOP /\ UNCHANGED toHost
  /\ UNCHANGED <<toCtrl, DR, rdrv, at, during, bufbase, rx, dbuf, i, k, Lcsum, Tch,
                 published, hostVars, ghosts>>

(* The response is compared; with nobody waiting it is dumped.             *)
Response ==
  /\ published # None
  /\ published' = None
  /\ IF host = "WAIT" /\ Head(published) = DLOOP
       THEN host' = "IDLE" /\ done' = (Tail(published) = req)
       ELSE UNCHANGED <<host, done>>
  /\ UNCHANGED <<framerVars, toHost, rx, dbuf, i, k, Lcsum, Tch, req, faults,
                 damage>>

(* 3 seconds: whatever could still happen on the line has happened.        *)
Silent == /\ toCtrl = <<>> /\ DR = <<>> /\ at = "OUT" /\ ~DmaDone /\ packet = None
          /\ toHost = <<>> /\ rx = "HUNT" /\ published = None
Timeout ==
  /\ host = "WAIT" /\ Silent
  /\ host' = "IDLE"
  /\ UNCHANGED <<framerVars, serialVars, req, ghosts>>

-----------------------------------------------------------------------------
(* The faults.  A byte on its way is lost (an overrun of DR included), or  *)
(* changed, or one appears.                                                *)
Disturbed(line) ==
  {Tail(line)} \union {<<b>> \o Tail(line) : b \in Noises \ {Head(line)}}

(* The length byte is the fourth of a frame: these come after it.          *)
Changed(line, new) == Len(new) = Len(line) /\ Len(line) <= Len(req) + 2
Harm(line, new) == IF damage = "NONE" /\ Changed(line, new) THEN "BYTE" ELSE "MORE"

Noise ==
  \/ /\ toCtrl # <<>>
     /\ \E new \in Disturbed(toCtrl) :
          toCtrl' = new /\ damage' = Harm(toCtrl, new)
     /\ UNCHANGED toHost
  \/ /\ toHost # <<>>
     /\ \E new \in Disturbed(toHost) :
          toHost' = new /\ damage' = Harm(toHost, new)
     /\ UNCHANGED toCtrl
  \/ /\ \E b \in Noises : \/ toCtrl' = <<b>> \o toCtrl /\ UNCHANGED toHost
                          \/ toHost' = <<b>> \o toHost /\ UNCHANGED toCtrl
     /\ damage' = "MORE"

Line_Noise ==
  /\ faults < MaxFaults /\ faults' = faults + 1
  /\ Noise
  /\ UNCHANGED <<DR, rdrv, at, during, bufbase, packet, rx, dbuf, i, k, Lcsum, Tch,
                 published, hostVars, done>>

(* The Controls is reset: what it was sending stops in mid-frame.          *)
Controls_Reset ==
  /\ faults < MaxFaults /\ faults' = faults + 1
  /\ RF_Reset(DR', rdrv', at', bufbase', packet')
  /\ during' = FALSE
  /\ toHost' = <<>>
  /\ damage' = "MORE"
  /\ UNCHANGED <<toCtrl, rx, dbuf, i, k, Lcsum, Tch, published, hostVars, done>>

-----------------------------------------------------------------------------
Controls == RecvDriver /\ UNCHANGED <<serialVars, hostVars, ghosts>>
Line     == Line_Byte /\ UNCHANGED <<serialVars, hostVars, ghosts>>
Serial   == Get_Input_Packet /\ UNCHANGED <<framerVars, hostVars, ghosts>>
PC_dloop == Dloop_Send \/ Response \/ Timeout

Next == \/ Controls \/ Line \/ Serial \/ Controls_Answer
        \/ PC_dloop \/ Line_Noise \/ Controls_Reset
Spec == Init /\ [][Next]_vars

(* The idle hook calls the driver for ever, bytes arrive once sent, the    *)
(* threads of both sides run, and somebody on the host keeps asking.       *)
FairSpec == /\ Spec
            /\ WF_vars(Controls) /\ WF_vars(Line) /\ WF_vars(Serial)
            /\ WF_vars(Controls_Answer) /\ WF_vars(PC_dloop)

-----------------------------------------------------------------------------
(* Every variable has its type, and the DMA never stores more bytes than   *)
(* the length byte called for.                                             *)
TypeOK ==
  /\ toCtrl \in Seq(Bytes) /\ toHost \in Seq(Bytes)
  /\ DR \in {<<>>} \union {<<b>> : b \in Bytes}
  /\ rdrv \in {"LOOKING_FOR_AB", "LOOKING_FOR_5F", "GET_SEQN", "GET_LEN",
               "WAIT_THEN_GO", "WAITCOMPLETE"}
  /\ at \in {"OUT", "LOOKING_FOR_AB", "LOOKING_FOR_5F", "GET_SEQN", "GET_LEN",
             "WAIT_THEN_GO", "WAITCOMPLETE"}
  /\ during \in BOOLEAN
  /\ bufbase \in Seq(Bytes)
  /\ rdrv = "WAIT_THEN_GO" => Len(bufbase) = 1
  /\ rdrv = "WAITCOMPLETE" => Len(bufbase) \in 2 .. bufbase[1] + 3
  /\ packet \in Seq(Bytes) /\ published \in Seq(Bytes)
  /\ rx \in {"HUNT", "START2", "TAG", "LEN", "CMD", "DATA"}
  /\ dbuf \in [0 .. BYTE + 1 -> Bytes]
  /\ i \in 0 .. BYTE + 2 /\ k \in 0 .. BYTE /\ Lcsum \in Bytes /\ Tch \in Bytes
  /\ host \in {"IDLE", "WAIT"} /\ req \in Datas \union {<<>>}
  /\ faults \in 0 .. MaxFaults /\ damage \in {"NONE", "BYTE", "MORE"}
  /\ done \in BOOLEAN

(* A loop-back on a line that was in step and is not disturbed succeeds,   *)
(* wherever between the driver's tests each byte arrives; so the receivers *)
(* are in step again after it.                                             *)
CleanSucceeds ==
  [][ host = "WAIT" /\ host' = "IDLE" /\ damage = "NONE" => done' ]_vars

(* In a loop-back begun with both receivers in step, noise that changes    *)
(* one byte after the length of a frame is noticed: neither side takes the *)
(* frame for another one (PacketRecvDriver.c:198, serial_recv.c:222).      *)
(* Nothing is said of a changed length, of more than one change or of a    *)
(* lost byte: the host's receiver may publish a packet that lost one, see  *)
(* TrueMeansChecksum.                                                      *)
NothingForged ==
  damage # "MORE" => /\ packet \in {None, <<DLOOP>> \o req}
                     /\ published \in {None, <<DLOOP>> \o req}

(* Whatever noise and resets did to the receivers, which know no timeout   *)
(* on the Controls: loop-backs succeed again, provided that no start byte  *)
(* occurs in a frame after its first two, and that after a failure whoever *)
(* asks again lets the line fall silent first.  An operator who does not   *)
(* may compare every answer with the data of the next command for ever: a  *)
(* byte of noise that completes an old frame makes an answer too many.     *)
Recovers ==
  <>[][Dloop_Send => done \/ Silent]_vars => []<>done
=============================================================================
