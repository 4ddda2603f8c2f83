-------------------------- MODULE ControlsPackets --------------------------
(***************************************************************************)
(* The packet path of the Controls processor (STM32F405 under FreeRTOS):   *)
(* the pool of packet buffers (DataBuffer.c), the receive driver and the   *)
(* receive thread, the send thread and the send driver, and the monitor    *)
(* that decides whether the Linux host is up (monitor_host.c).             *)
(*                                                                         *)
(* Who runs when (main.c, FreeRTOSConfig.h).  The drivers and the monitor  *)
(* are called in a fixed order by the idle hook, at priority 0; the two    *)
(* packet threads run at priority 1 and are time-sliced against each       *)
(* other.  The threads block only on queues and on a semaphore that the    *)
(* idle hook or each other feed, so the idle hook takes a step only when   *)
(* both are blocked and loses the processor exactly at its own kernel      *)
(* calls: the variable `idle' is its program counter at those points.  The *)
(* two DMA channels and the host's wire interleave with everything.        *)
(*                                                                         *)
(* A frame is its command and a payload tag that stands for the data and   *)
(* for the reply computed from it; bytes are the business of RecvFramer.   *)
(***************************************************************************)
EXTENDS Naturals, Sequences, FiniteSets

CONSTANTS
  DBUF_NUMBUFS,   \* buffers in the pool (3 in DataBuffer.c)
  RQ_ELEMENTS,    \* slots of the receive thread's queue (3)
  SQ_ELEMENTS,    \* slots of the send thread's queue (5)
  SKIPCOUNT,      \* the monitor samples the pin on one call in so many (10)
  Commands,       \* the commands that the host sends
  Payloads,       \* tags that tell one request of the host from another
  Window,         \* how many requests the host leaves unanswered at a time
  Console         \* TRUE when the operator may type the `b8' debug command

ASSUME PoolAssumption == DBUF_NUMBUFS \in Nat \ {0}
ASSUME QueueAssumption == /\ RQ_ELEMENTS \in Nat \ {0}
                          /\ SQ_ELEMENTS \in Nat \ {0}
ASSUME RoomAssumption == DBUF_NUMBUFS <= RQ_ELEMENTS
ASSUME SkipAssumption == SKIPCOUNT \in Nat \ {0}
ASSUME HostAssumption == /\ Commands \subseteq {"GET", "DLOOP", "IMUP", "LOCAL"}
                         /\ Payloads \subseteq Nat \ {0}
                         /\ Window \in Nat
                         /\ Console \in BOOLEAN

(* A buffer is its address.  Null is the C null pointer; the four buffers  *)
(* after the pool are static ones that are never returned to it.           *)
Null      == 0
Bufs      == 1 .. DBUF_NUMBUFS
DloopBuf  == DBUF_NUMBUFS + 1
sendBuf1  == DBUF_NUMBUFS + 2
sendBuf2  == DBUF_NUMBUFS + 3
dbgbuffer == DBUF_NUMBUFS + 4
Addrs     == 1 .. DBUF_NUMBUFS + 4

(* Commands that the receive thread answers with a packet, and the others: *)
(* LOCAL is every command that it just carries out (ADCONFIG, SETGPIOS,    *)
(* DORESET, an unknown one).  GET is GET_ALLAD and GET_VALUE.              *)
Answered == {"GET", "DLOOP"}
Requests == [cmd : Commands \intersect Answered, data : Payloads]
              \union [cmd : Commands \ Answered, data : {0}]
Contents == [cmd : {"NONE", "GET", "DLOOP", "IMUP", "LOCAL", "ADCONFIG"},
             data : Payloads \union {0}]

(* An entry of the send queue: the packet, the buffer to return once it is *)
(* out (or Null), and -- for the properties only -- what the packet said   *)
(* when it was queued.                                                     *)
SendItems == [F1 : Addrs, F2 : Bufs \union {Null}, said : Contents]

VARIABLES
  IsAvail,                                   \* DataBuffer.c
  mem,                                       \* contents of the buffers
  idle,                                      \* where the idle hook stands
  rdrv, bufbase, TCIF5,                      \* PacketRecvDriver.c, its DMA
  RQ, rt, Dptr,                              \* PacketRecvThread.c
  SQ, st, QD, PacketDone,                    \* PacketSendThread.c
  sdrv, Trigger, paktptr, Aparm, TCIF6,      \* PacketSendDriver.c, its DMA
  mh, skipcount, has_IMUPpakt, Sent_ADreq,   \* monitor_host.c
  pin                                        \* COMMS_to_CTRL, host's output

poolVars == <<IsAvail, mem>>
rdrvVars == <<rdrv, bufbase, TCIF5>>
rtVars   == <<rt, Dptr>>
stVars   == <<st, QD>>
sdrvVars == <<sdrv, Trigger, paktptr, Aparm, TCIF6>>
mhVars   == <<mh, skipcount, has_IMUPpakt, Sent_ADreq>>
vars == <<poolVars, idle, rdrvVars, RQ, rtVars, SQ, stVars, PacketDone,
          sdrvVars, mhVars, pin>>

Init ==
  /\ IsAvail = [b \in Bufs |-> TRUE]
  /\ mem = [a \in Addrs |-> [cmd |-> "NONE", data |-> 0]]
  /\ idle = "CMDS"
  /\ rdrv = "GET_INPUT_BUFFER" /\ bufbase = Null /\ TCIF5 = 0
  /\ RQ = <<>> /\ rt = "RECEIVE" /\ Dptr = Null
  /\ SQ = <<>> /\ st = "RECEIVE" /\ PacketDone = 0
  /\ QD = [F1 |-> sendBuf1, F2 |-> Null, said |-> [cmd |-> "NONE", data |-> 0]]
  /\ sdrv = "WAIT_HOSTUP" /\ Trigger = 0
  /\ paktptr = Null /\ Aparm = Null /\ TCIF6 = 0
  /\ mh = "LOOK_FOR_0" /\ skipcount = 0
  /\ has_IMUPpakt = FALSE /\ Sent_ADreq = FALSE
  /\ pin \in {0, 1}

-----------------------------------------------------------------------------
(* The pool and the send queue, as their callers see them.                 *)

DataBuffer_Get(b) ==
  /\ IsAvail[b]
  /\ \A c \in Bufs : c < b => ~IsAvail[c]
  /\ IsAvail' = [IsAvail EXCEPT ![b] = FALSE]

DataBuffer_Return(b) == IsAvail' = [IsAvail EXCEPT ![b] = TRUE]

(* Mutant: the packet is queued in front of the others.                    *)
PacketSend_pakt_ToFront(cmd, dataptr, zero_or_retBuf) ==
  /\ mem' = [mem EXCEPT ![dataptr] = [cmd |-> cmd, data |-> @.data]]
  /\ SQ' = IF Len(SQ) < SQ_ELEMENTS
             THEN <<[F1 |-> dataptr, F2 |-> zero_or_retBuf,
                     said |-> [cmd |-> cmd, data |-> mem[dataptr].data]]>> \o SQ
             ELSE SQ

(* The command is written into the packet, then the packet is queued with  *)
(* a timeout of 0: when the queue is full nothing is queued, and the       *)
(* caller is not told.                                                     *)
PacketSend_pakt(cmd, dataptr, zero_or_retBuf) ==
  /\ mem' = [mem EXCEPT ![dataptr] = [cmd |-> cmd, data |-> @.data]]
  /\ SQ' = IF Len(SQ) < SQ_ELEMENTS
             THEN Append(SQ, [F1 |-> dataptr, F2 |-> zero_or_retBuf,
                              said |-> [cmd |-> cmd, data |-> mem[dataptr].data]])
             ELSE SQ

-----------------------------------------------------------------------------
(* The idle hook.  It runs only while both packet threads are blocked.     *)

RecvBlocked == rt = "RECEIVE" /\ RQ = <<>>
SendBlocked == \/ st = "RECEIVE" /\ SQ = <<>>
               \/ st = "TAKE" /\ PacketDone = 0
IdleRuns(at) == idle = at /\ RecvBlocked /\ SendBlocked

(* CMDS_Process: of the console commands, one sends a packet.              *)
Cmds_Nothing ==
  /\ IdleRuns("CMDS")
  /\ idle' = "SEND"
  /\ UNCHANGED <<poolVars, rdrvVars, RQ, rtVars, SQ, stVars, PacketDone,
                 sdrvVars, mhVars, pin>>

Cmds_SendADConfig ==
  /\ Console
  /\ IdleRuns("CMDS")
  /\ PacketSend_pakt("ADCONFIG", dbgbuffer, Null)
  /\ idle' = "SEND"
  /\ UNCHANGED <<IsAvail, rdrvVars, RQ, rtVars, stVars, PacketDone,
                 sdrvVars, mhVars, pin>>

MonitorHost_IsUp == mh = "STABLE_UP"

(* WAIT_HOSTUP falls through once the host is up, and never returns.       *)
ReadyToGo == \/ sdrv = "WAIT_THEN_GO"
             \/ sdrv = "WAIT_HOSTUP" /\ MonitorHost_IsUp

(* PacketSendDriver_Process, called before the driver was triggered or     *)
(* before the host is up, or while the transfer is under way.              *)
SendDriver_Wait ==
  /\ IdleRuns("SEND")
  /\ \/ sdrv = "WAIT_HOSTUP" /\ ~MonitorHost_IsUp /\ UNCHANGED sdrv
     \/ ReadyToGo /\ Trigger = 0 /\ sdrv' = "WAIT_THEN_GO"
     \/ sdrv = "WAITCOMPLETE" /\ TCIF6 = 0 /\ UNCHANGED sdrv
  /\ idle' = "RECV"
  /\ UNCHANGED <<poolVars, rdrvVars, RQ, rtVars, SQ, stVars, PacketDone,
                 Trigger, paktptr, Aparm, TCIF6, mhVars, pin>>

(* Mutant: the buffer is returned when its transfer starts.                *)
SendDriver_Start_ReturnsBuffer ==
  /\ IdleRuns("SEND")
  /\ ReadyToGo /\ Trigger = 1
  /\ Trigger' = 0
  /\ sdrv' = "WAITCOMPLETE"
  /\ IF Aparm # Null THEN DataBuffer_Return(Aparm) ELSE UNCHANGED IsAvail
  /\ idle' = "RECV"
  /\ UNCHANGED <<mem, rdrvVars, RQ, rtVars, SQ, stVars, PacketDone,
                 paktptr, Aparm, TCIF6, mhVars, pin>>

SendDriver_Start ==
  /\ IdleRuns("SEND")
  /\ ReadyToGo /\ Trigger = 1
  /\ Trigger' = 0
  /\ sdrv' = "WAITCOMPLETE"
  /\ idle' = "RECV"
  /\ UNCHANGED <<poolVars, rdrvVars, RQ, rtVars, SQ, stVars, PacketDone,
                 paktptr, Aparm, TCIF6, mhVars, pin>>

(* Mutant: the buffer is not returned.                                     *)
SendDriver_Complete_KeepsBuffer ==
  /\ IdleRuns("SEND")
  /\ sdrv = "WAITCOMPLETE" /\ TCIF6 = 1
  /\ TCIF6' = 0
  /\ sdrv' = "WAIT_THEN_GO"
  /\ PacketDone' = 1
  /\ idle' = "RECV"
  /\ UNCHANGED <<poolVars, rdrvVars, RQ, rtVars, SQ, stVars, Trigger, paktptr,
                 Aparm, mhVars, pin>>

(* The packet is out: its buffer, if it has one, is returned, and          *)
(* PacketSend_xfer_Done gives the semaphore.                               *)
SendDriver_Complete ==
  /\ IdleRuns("SEND")
  /\ sdrv = "WAITCOMPLETE" /\ TCIF6 = 1
  /\ TCIF6' = 0
  /\ sdrv' = "WAIT_THEN_GO"
  /\ IF Aparm # Null THEN DataBuffer_Return(Aparm) ELSE UNCHANGED IsAvail
  /\ PacketDone' = 1
  /\ idle' = "RECV"
  /\ UNCHANGED <<mem, rdrvVars, RQ, rtVars, SQ, stVars, Trigger, paktptr,
                 Aparm, mhVars, pin>>

(* PacketRecvDriver_Process.  LOOKING_FOR_AB stands for the five states    *)
(* that read a frame's header; in them a call may find nothing to read.    *)
RecvDriver_Wait ==
  /\ IdleRuns("RECV")
  /\ \/ rdrv = "GET_INPUT_BUFFER" /\ \A b \in Bufs : ~IsAvail[b]
     \/ rdrv = "LOOKING_FOR_AB"
     \/ rdrv = "WAITCOMPLETE" /\ TCIF5 = 0
  /\ idle' = "MONITOR"
  /\ UNCHANGED <<poolVars, rdrvVars, RQ, rtVars, SQ, stVars, PacketDone,
                 sdrvVars, mhVars, pin>>

(* Mutant: the null pointer of an empty pool is not noticed.               *)
RecvDriver_GetBuffer_Unchecked ==
  /\ IdleRuns("RECV")
  /\ rdrv = "GET_INPUT_BUFFER"
  /\ \/ \E b \in Bufs : DataBuffer_Get(b) /\ bufbase' = b
     \/ (\A b \in Bufs : ~IsAvail[b]) /\ bufbase' = Null /\ UNCHANGED IsAvail
  /\ rdrv' = "LOOKING_FOR_AB"
  /\ idle' = "MONITOR"
  /\ UNCHANGED <<mem, TCIF5, RQ, rtVars, SQ, stVars, PacketDone, sdrvVars,
                 mhVars, pin>>

RecvDriver_GetBuffer ==
  /\ IdleRuns("RECV")
  /\ rdrv = "GET_INPUT_BUFFER"
  /\ \E b \in Bufs : DataBuffer_Get(b) /\ bufbase' = b
  /\ rdrv' = "LOOKING_FOR_AB"
  /\ idle' = "MONITOR"
  /\ UNCHANGED <<mem, TCIF5, RQ, rtVars, SQ, stVars, PacketDone, sdrvVars,
                 mhVars, pin>>

(* The length byte was read: the DMA takes the rest of the frame.          *)
RecvDriver_Header ==
  /\ IdleRuns("RECV")
  /\ rdrv = "LOOKING_FOR_AB"
  /\ rdrv' = "WAITCOMPLETE"
  /\ idle' = "MONITOR"
  /\ UNCHANGED <<poolVars, bufbase, TCIF5, RQ, rtVars, SQ, stVars, PacketDone,
                 sdrvVars, mhVars, pin>>

(* The checksum matches: PacketRecv_Qsend, with a timeout of 0, hands the  *)
(* buffer to the receive thread, which preempts the idle hook inside the   *)
(* call -- before the driver leaves its state.                             *)
RecvDriver_Good ==
  /\ IdleRuns("RECV")
  /\ rdrv = "WAITCOMPLETE" /\ TCIF5 = 1
  /\ TCIF5' = 0
  /\ RQ' = IF Len(RQ) < RQ_ELEMENTS THEN Append(RQ, bufbase) ELSE RQ
  /\ idle' = "RECV_QSENT"
  /\ UNCHANGED <<poolVars, rdrv, bufbase, rtVars, SQ, stVars, PacketDone,
                 sdrvVars, mhVars, pin>>

RecvDriver_Rearm ==
  /\ IdleRuns("RECV_QSENT")
  /\ rdrv' = "GET_INPUT_BUFFER"
  /\ idle' = "MONITOR"
  /\ UNCHANGED <<poolVars, bufbase, TCIF5, RQ, rtVars, SQ, stVars, PacketDone,
                 sdrvVars, mhVars, pin>>

(* Noise on the line: the checksum does not match.                         *)
RecvDriver_Bad ==
  /\ IdleRuns("RECV")
  /\ rdrv = "WAITCOMPLETE" /\ TCIF5 = 1
  /\ TCIF5' = 0
  /\ DataBuffer_Return(bufbase)
  /\ rdrv' = "GET_INPUT_BUFFER"
  /\ idle' = "MONITOR"
  /\ UNCHANGED <<mem, bufbase, RQ, rtVars, SQ, stVars, PacketDone, sdrvVars,
                 mhVars, pin>>

(* MonitorHost_Process: most calls only count.                             *)
Monitor_Skip ==
  /\ IdleRuns("MONITOR")
  /\ skipcount + 1 < SKIPCOUNT
  /\ skipcount' = skipcount + 1
  /\ idle' = "CMDS"
  /\ UNCHANGED <<poolVars, rdrvVars, RQ, rtVars, SQ, stVars, PacketDone,
                 sdrvVars, mh, has_IMUPpakt, Sent_ADreq, pin>>

(* The state in which the pin's value leaves the monitor once the cases    *)
(* of the switch have fallen through into each other.                      *)
AfterPin ==
  CASE mh = "LOOK_FOR_0" /\ pin = 1  -> "LOOK_FOR_0"
    [] pin = 0                       -> "LOOK_FOR_1"
    [] mh = "LOOK_FOR_1" /\ pin = 1 -> "LOOK_FOR_IMUP_PAKT"
    [] OTHER                         -> mh

Monitor_Sampling ==
  /\ IdleRuns("MONITOR")
  /\ skipcount + 1 >= SKIPCOUNT
  /\ skipcount' = 0

(* No IMUP packet to answer yet, or the pin says the host is down.  Only   *)
(* the last two states forget an IMUP packet when the pin falls.           *)
Monitor_Pin ==
  /\ Monitor_Sampling
  /\ AfterPin \in {"LOOK_FOR_IMUP_PAKT", "STABLE_UP"} => ~has_IMUPpakt
  /\ mh' = AfterPin
  /\ has_IMUPpakt' = (has_IMUPpakt
                        /\ ~(mh \in {"LOOK_FOR_IMUP_PAKT", "STABLE_UP"} /\ pin = 0))
  /\ idle' = "CMDS"
  /\ UNCHANGED <<poolVars, rdrvVars, RQ, rtVars, SQ, stVars, PacketDone,
                 sdrvVars, Sent_ADreq, pin>>

(* Mutant: the IMUP packet is not forgotten once it is answered.           *)
Monitor_Up_KeepsImup ==
  /\ Monitor_Sampling
  /\ AfterPin \in {"LOOK_FOR_IMUP_PAKT", "STABLE_UP"} /\ has_IMUPpakt
  /\ mh' = "STABLE_UP"
  /\ PacketSend_pakt("IMUP", sendBuf1, Null)
  /\ idle' = "MONITOR_SENT"
  /\ UNCHANGED <<IsAvail, rdrvVars, RQ, rtVars, stVars, PacketDone, sdrvVars,
                 has_IMUPpakt, Sent_ADreq, pin>>

(* Mutant: the host is answered but not taken to be up.                    *)
Monitor_Up_StaysBehind ==
  /\ Monitor_Sampling
  /\ AfterPin \in {"LOOK_FOR_IMUP_PAKT", "STABLE_UP"} /\ has_IMUPpakt
  /\ has_IMUPpakt' = FALSE
  /\ mh' = AfterPin
  /\ PacketSend_pakt("IMUP", sendBuf1, Null)
  /\ idle' = "MONITOR_SENT"
  /\ UNCHANGED <<IsAvail, rdrvVars, RQ, rtVars, stVars, PacketDone, sdrvVars,
                 Sent_ADreq, pin>>

Monitor_Up ==
  /\ Monitor_Sampling
  /\ AfterPin \in {"LOOK_FOR_IMUP_PAKT", "STABLE_UP"} /\ has_IMUPpakt
  /\ has_IMUPpakt' = FALSE
  /\ mh' = "STABLE_UP"
  /\ PacketSend_pakt("IMUP", sendBuf1, Null)
  /\ idle' = "MONITOR_SENT"
  /\ UNCHANGED <<IsAvail, rdrvVars, RQ, rtVars, stVars, PacketDone, sdrvVars,
                 Sent_ADreq, pin>>

(* ... and once after a reset the A/D configuration is asked for.          *)
Monitor_ADreq ==
  /\ IdleRuns("MONITOR_SENT")
  /\ IF Sent_ADreq
       THEN UNCHANGED <<Sent_ADreq, mem, SQ>>
       ELSE Sent_ADreq' = TRUE /\ PacketSend_pakt("ADCONFIG", sendBuf2, Null)
  /\ idle' = "CMDS"
  /\ UNCHANGED <<IsAvail, rdrvVars, RQ, rtVars, stVars, PacketDone, sdrvVars,
                 mh, skipcount, has_IMUPpakt, pin>>

-----------------------------------------------------------------------------
(* PacketRecv_Thread.                                                      *)

Recv_Receive ==
  /\ rt = "RECEIVE" /\ RQ # <<>>
  /\ Dptr' = Head(RQ)
  /\ RQ' = Tail(RQ)
  /\ rt' = "SWITCH"
  /\ UNCHANGED <<poolVars, idle, rdrvVars, SQ, stVars, PacketDone, sdrvVars,
                 mhVars, pin>>

Recv_Imup ==
  /\ rt = "SWITCH" /\ mem[Dptr].cmd = "IMUP"
  /\ has_IMUPpakt' = TRUE
  /\ rt' = "RETURN"
  /\ UNCHANGED <<poolVars, idle, rdrvVars, RQ, Dptr, SQ, stVars, PacketDone,
                 sdrvVars, mh, skipcount, Sent_ADreq, pin>>

Recv_Local ==
  /\ rt = "SWITCH" /\ mem[Dptr].cmd \notin Answered \union {"IMUP"}
  /\ rt' = "RETURN"
  /\ UNCHANGED <<poolVars, idle, rdrvVars, RQ, Dptr, SQ, stVars, PacketDone,
                 sdrvVars, mhVars, pin>>

(* A loop-back request: its data is copied to the one static buffer, which *)
(* is sent; the send thread may run between the copy and the queueing.     *)
Recv_DloopCopy ==
  /\ rt = "SWITCH" /\ mem[Dptr].cmd = "DLOOP"
  /\ mem' = [mem EXCEPT ![DloopBuf] = [cmd |-> @.cmd, data |-> mem[Dptr].data]]
  /\ rt' = "DLOOP_SEND"
  /\ UNCHANGED <<IsAvail, idle, rdrvVars, RQ, Dptr, SQ, stVars, PacketDone,
                 sdrvVars, mhVars, pin>>

Recv_DloopSend ==
  /\ rt = "DLOOP_SEND"
  /\ PacketSend_pakt("DLOOP", DloopBuf, Null)
  /\ rt' = "RETURN"
  /\ UNCHANGED <<IsAvail, idle, rdrvVars, RQ, Dptr, stVars, PacketDone,
                 sdrvVars, mhVars, pin>>

(* Mutant: the thread goes on to return the buffer that it sent.           *)
Recv_Get_Returns ==
  /\ rt = "SWITCH" /\ mem[Dptr].cmd = "GET"
  /\ PacketSend_pakt("GET", Dptr, Dptr)
  /\ rt' = "RETURN"
  /\ UNCHANGED <<IsAvail, idle, rdrvVars, RQ, Dptr, stVars, PacketDone,
                 sdrvVars, mhVars, pin>>

(* A reading is written into the request's own buffer, which is sent and   *)
(* left for the send driver to return.                                     *)
Recv_Get ==
  /\ rt = "SWITCH" /\ mem[Dptr].cmd = "GET"
  /\ PacketSend_pakt("GET", Dptr, Dptr)
  /\ rt' = "RECEIVE"
  /\ UNCHANGED <<IsAvail, idle, rdrvVars, RQ, Dptr, stVars, PacketDone,
                 sdrvVars, mhVars, pin>>

Recv_Return ==
  /\ rt = "RETURN"
  /\ DataBuffer_Return(Dptr)
  /\ rt' = "RECEIVE"
  /\ UNCHANGED <<mem, idle, rdrvVars, RQ, Dptr, SQ, stVars, PacketDone,
                 sdrvVars, mhVars, pin>>

-----------------------------------------------------------------------------
(* PacketSend_Thread.                                                      *)

Send_Receive ==
  /\ st = "RECEIVE" /\ SQ # <<>>
  /\ QD' = Head(SQ)
  /\ SQ' = Tail(SQ)
  /\ st' = "GO"
  /\ UNCHANGED <<poolVars, idle, rdrvVars, RQ, rtVars, PacketDone, sdrvVars,
                 mhVars, pin>>

PacketSendDriver_Go ==
  /\ st = "GO"
  /\ Aparm' = QD.F2 /\ paktptr' = QD.F1 /\ Trigger' = 1
  /\ st' = "TAKE"
  /\ UNCHANGED <<poolVars, idle, rdrvVars, RQ, rtVars, SQ, QD, PacketDone,
                 sdrv, TCIF6, mhVars, pin>>

(* Mutant: the thread does not wait for the driver.                        *)
Send_Take_NoWait ==
  /\ st = "TAKE"
  /\ PacketDone' = 0
  /\ st' = "RECEIVE"
  /\ UNCHANGED <<poolVars, idle, rdrvVars, RQ, rtVars, SQ, QD, sdrvVars,
                 mhVars, pin>>

Send_Take ==
  /\ st = "TAKE" /\ PacketDone = 1
  /\ PacketDone' = 0
  /\ st' = "RECEIVE"
  /\ UNCHANGED <<poolVars, idle, rdrvVars, RQ, rtVars, SQ, QD, sdrvVars,
                 mhVars, pin>>

-----------------------------------------------------------------------------
(* The hardware and the host.                                              *)

(* What the host still waits for: replies to its requests that are not yet *)
(* on the wire to the last byte, and the reply to its IMUP packet.         *)
Sending == st # "RECEIVE" /\ PacketDone = 0 /\ TCIF6 = 0
Asks       == {i \in DOMAIN RQ : mem[RQ[i]].cmd \in Answered}
Replies    == {i \in DOMAIN SQ : SQ[i].said.cmd \in Answered}
InWork     == rt \in {"SWITCH", "DLOOP_SEND"} /\ mem[Dptr].cmd \in Answered
OnTheWire  == Sending /\ QD.said.cmd \in Answered
One(P)     == IF P THEN 1 ELSE 0
Unanswered == Cardinality(Asks) + Cardinality(Replies) + One(InWork) + One(OnTheWire)
ImupUnanswered ==
  \/ has_IMUPpakt
  \/ \E i \in DOMAIN RQ : mem[RQ[i]].cmd = "IMUP"
  \/ rt = "SWITCH" /\ mem[Dptr].cmd = "IMUP"
  \/ \E i \in DOMAIN SQ : SQ[i].F1 = sendBuf1
  \/ Sending /\ QD.F1 = sendBuf1

(* The receive DMA has stored the last byte of the frame f.  A transfer    *)
(* that the driver has already handed on is over: the stream is disabled.  *)
RxDma(f) ==
  /\ rdrv = "WAITCOMPLETE" /\ TCIF5 = 0 /\ idle # "RECV_QSENT"
  /\ f.cmd \in Answered => Unanswered < Window
  /\ f.cmd = "IMUP" => ~ImupUnanswered
  /\ mem' = [mem EXCEPT ![bufbase] = f]
  /\ TCIF5' = 1
  /\ UNCHANGED <<IsAvail, idle, rdrv, bufbase, RQ, rtVars, SQ, stVars,
                 PacketDone, sdrvVars, mhVars, pin>>

(* The send DMA has put the last byte of the packet on the wire.           *)
TxDma ==
  /\ sdrv = "WAITCOMPLETE" /\ TCIF6 = 0
  /\ TCIF6' = 1
  /\ UNCHANGED <<poolVars, idle, rdrvVars, RQ, rtVars, SQ, stVars, PacketDone,
                 sdrv, Trigger, paktptr, Aparm, mhVars, pin>>

HostPin ==
  /\ pin' = 1 - pin
  /\ UNCHANGED <<poolVars, idle, rdrvVars, RQ, rtVars, SQ, stVars, PacketDone,
                 sdrvVars, mhVars>>

-----------------------------------------------------------------------------
Idle == \/ Cmds_Nothing \/ Cmds_SendADConfig
        \/ SendDriver_Wait \/ SendDriver_Start \/ SendDriver_Complete
        \/ RecvDriver_Wait \/ RecvDriver_GetBuffer \/ RecvDriver_Header
        \/ RecvDriver_Good \/ RecvDriver_Rearm \/ RecvDriver_Bad
        \/ Monitor_Skip \/ Monitor_Pin \/ Monitor_Up \/ Monitor_ADreq
RecvThread == \/ Recv_Receive \/ Recv_Imup \/ Recv_Local \/ Recv_DloopCopy
              \/ Recv_DloopSend \/ Recv_Get \/ Recv_Return
SendThread == Send_Receive \/ PacketSendDriver_Go \/ Send_Take
Environment == (\E f \in Requests : RxDma(f)) \/ TxDma \/ HostPin

Next == Idle \/ RecvThread \/ SendThread \/ Environment
Spec == Init /\ [][Next]_vars

(* Fairness.  The idle hook is called in an endless loop and the threads   *)
(* are time-sliced, so each goes on as long as it can; a packet that was   *)
(* given to the send DMA goes out.  Nothing is assumed of the host and of  *)
(* the line to the Controls: what they must do, and do once, is a premise  *)
(* of the properties.                                                      *)
Fairness ==
  WF_vars(Idle) /\ WF_vars(RecvThread) /\ WF_vars(SendThread) /\ WF_vars(TxDma)
FairSpec == Spec /\ Fairness

-----------------------------------------------------------------------------
(* Every variable has its type.                                            *)
TypeOK ==
  /\ IsAvail \in [Bufs -> BOOLEAN]
  /\ mem \in [Addrs -> Contents]
  /\ idle \in {"CMDS", "SEND", "RECV", "RECV_QSENT", "MONITOR", "MONITOR_SENT"}
  /\ rdrv \in {"GET_INPUT_BUFFER", "LOOKING_FOR_AB", "WAITCOMPLETE"}
  /\ bufbase \in Bufs \union {Null} /\ TCIF5 \in {0, 1}
  /\ rdrv # "GET_INPUT_BUFFER" => bufbase # Null
  /\ RQ \in Seq(Bufs)
  /\ rt \in {"RECEIVE", "SWITCH", "DLOOP_SEND", "RETURN"}
  /\ Dptr \in Bufs \union {Null}
  /\ rt # "RECEIVE" => Dptr # Null
  /\ SQ \in Seq(SendItems)
  /\ st \in {"RECEIVE", "GO", "TAKE"} /\ QD \in SendItems
  /\ PacketDone \in {0, 1}
  /\ sdrv \in {"WAIT_HOSTUP", "WAIT_THEN_GO", "WAITCOMPLETE"}
  /\ Trigger \in {0, 1} /\ TCIF6 \in {0, 1}
  /\ paktptr \in Addrs \union {Null} /\ Aparm \in Bufs \union {Null}
  /\ mh \in {"LOOK_FOR_0", "LOOK_FOR_1", "LOOK_FOR_IMUP_PAKT", "STABLE_UP"}
  /\ skipcount \in 0 .. SKIPCOUNT
  /\ has_IMUPpakt \in BOOLEAN /\ Sent_ADreq \in BOOLEAN
  /\ pin \in {0, 1}

(* The places where a pool buffer can be.                                  *)
InPool(b)   == IsAvail[b]
InRecv(b)   == rdrv # "GET_INPUT_BUFFER" /\ idle # "RECV_QSENT" /\ bufbase = b
InRQ(b)     == \E i \in 1 .. Len(RQ) : RQ[i] = b
InThread(b) == rt # "RECEIVE" /\ Dptr = b
InSQ(b)     == \E i \in 1 .. Len(SQ) : SQ[i].F2 = b
InTx(b)     == st # "RECEIVE" /\ PacketDone = 0 /\ QD.F2 = b

(* No buffer is in two places at once, nor twice in a queue: the receive   *)
(* DMA never writes into a buffer that a thread reads or the send DMA      *)
(* sends (DataBuffer.c keeps one flag per buffer and checks nothing).      *)
Apart == \A b \in Bufs :
  /\ InPool(b) => ~(InRecv(b) \/ InRQ(b) \/ InThread(b) \/ InSQ(b) \/ InTx(b))
  /\ InRecv(b) => ~(InRQ(b) \/ InThread(b) \/ InSQ(b) \/ InTx(b))
  /\ InRQ(b) => ~(InThread(b) \/ InSQ(b) \/ InTx(b))
  /\ InThread(b) => ~(InSQ(b) \/ InTx(b))
  /\ InSQ(b) => ~InTx(b)
OnceInRQ == \A i, j \in 1 .. Len(RQ) : RQ[i] = RQ[j] => i = j
OnceInSQ == \A i, j \in 1 .. Len(SQ) :
              SQ[i].F2 = SQ[j].F2 /\ SQ[i].F2 # Null => i = j
OnePlace == Apart /\ OnceInRQ /\ OnceInSQ

(* The result of PacketRecv_Qsend is ignored, and may be: whenever the     *)
(* driver is about to queue a buffer, the receive queue has room for it.   *)
RQHasRoom == (rdrv = "WAITCOMPLETE" /\ idle # "RECV_QSENT") => Len(RQ) < RQ_ELEMENTS

(* The send thread and the send driver hand packets over one at a time:    *)
(* the driver is idle until triggered, works on what the thread gave it,   *)
(* and the semaphore is given once per packet.                             *)
Handover ==
  /\ Trigger + (IF sdrv = "WAITCOMPLETE" THEN 1 ELSE 0) + PacketDone
       = (IF st = "TAKE" THEN 1 ELSE 0)
  /\ (Trigger = 1 \/ sdrv = "WAITCOMPLETE") => paktptr = QD.F1 /\ Aparm = QD.F2
  /\ TCIF6 = 1 => sdrv = "WAITCOMPLETE"

(* What holds besides: the receive driver has not yet left the state in    *)
(* which it queued a buffer, and a packet with a buffer to return is in    *)
(* that buffer.                                                            *)
Phases ==
  /\ idle = "RECV_QSENT" => rdrv = "WAITCOMPLETE"
  /\ \A i \in 1 .. Len(SQ) : SQ[i].F2 # Null => SQ[i].F1 = SQ[i].F2
  /\ QD.F2 # Null => QD.F1 = QD.F2

(* A reply that travels in its request's buffer goes out as it was queued. *)
ReplyIntact ==
  /\ \A i \in 1 .. Len(SQ) : SQ[i].F2 # Null => mem[SQ[i].F1] = SQ[i].said
  /\ Sending /\ QD.F2 # Null => mem[QD.F1] = QD.said

(* So does a loop-back reply, although they all travel in DloopBuf -- as   *)
(* long as there is one at a time: with a Window of 2 this does not hold.  *)
DloopIntact ==
  /\ \A i \in 1 .. Len(SQ) : SQ[i].F1 = DloopBuf => mem[DloopBuf] = SQ[i].said
  /\ Sending /\ QD.F1 = DloopBuf => mem[DloopBuf] = QD.said

(* The inductive invariant behind the four invariants above.               *)
IInv == TypeOK /\ Handover /\ Phases /\ OnePlace /\ ReplyIntact

(* A buffer that is not in the pool is somewhere it can come back from.    *)
NoLeak == \A b \in Bufs : \/ InPool(b) \/ InRecv(b) \/ InRQ(b)
                          \/ InThread(b) \/ InSQ(b) \/ InTx(b)

(* No packet is dropped because the send queue is full: neither a reply,   *)
(* nor the two packets of the monitor, which never sends them again.       *)
NothingDropped ==
  [][ Recv_Get \/ Recv_DloopSend \/ Monitor_Up \/ (Monitor_ADreq /\ ~Sent_ADreq)
        => Len(SQ') = Len(SQ) + 1 ]_vars

(* Why neither happens, whatever the Window: when no loop-backs are asked  *)
(* for and no console command sends, the queue holds each buffer and each  *)
(* of the monitor's two packets once at most, and has a slot for each.     *)
Modest == /\ "DLOOP" \notin Commands /\ ~Console
          /\ DBUF_NUMBUFS + 2 <= SQ_ELEMENTS

Queued(a) == \E i \in 1 .. Len(SQ) : SQ[i].F1 = a
EachOnce ==
  /\ \A i, k \in 1 .. Len(SQ) : SQ[i].F1 = SQ[k].F1 => i = k
  /\ \A i \in 1 .. Len(SQ) : SQ[i].F1 \in Bufs \union {sendBuf1, sendBuf2}
  /\ \A i \in 1 .. Len(SQ) : SQ[i].F1 \in Bufs => SQ[i].F2 = SQ[i].F1
  /\ ~Sent_ADreq => ~Queued(sendBuf2)

NoLoops == rt # "DLOOP_SEND" /\ \A b \in Bufs : mem[b].cmd # "DLOOP"

(* The host sends one IMUP packet at a time: it is in one place until its  *)
(* answer has left the queue.                                              *)
IsImup(b) == mem[b].cmd = "IMUP"
InDma     == TCIF5 = 1 /\ IsImup(bufbase)
ImupInRQ  == \E i \in 1 .. Len(RQ) : IsImup(RQ[i])
InSwitch  == rt = "SWITCH" /\ IsImup(Dptr)
OneImup ==
  /\ TCIF5 = 1 => rdrv = "WAITCOMPLETE" /\ idle # "RECV_QSENT"
  /\ \A i, k \in 1 .. Len(RQ) : IsImup(RQ[i]) /\ IsImup(RQ[k]) => i = k
  /\ InDma => ~(ImupInRQ \/ InSwitch \/ has_IMUPpakt \/ Queued(sendBuf1))
  /\ ImupInRQ => ~(InSwitch \/ has_IMUPpakt \/ Queued(sendBuf1))
  /\ InSwitch => ~(has_IMUPpakt \/ Queued(sendBuf1))
  /\ has_IMUPpakt => ~Queued(sendBuf1)

RoomInv == EachOnce /\ NoLoops /\ OneImup

(* What keeps loop-backs intact when Window is 1 and, when it is Spare,    *)
(* the send queue short: the host waits for Window answers at most, one to *)
(* the request included that the DMA has just stored.                      *)
Stored == TCIF5 = 1 /\ mem[bufbase].cmd \in Answered
WindowKept ==
  /\ Unanswered + One(Stored) <= Window
  /\ TCIF5 = 1 => rdrv = "WAITCOMPLETE" /\ idle # "RECV_QSENT"
  /\ rt = "DLOOP_SEND" => mem[Dptr].cmd = "DLOOP"

(* What is in DloopBuf is a reply to a loop-back.                          *)
LoopReplies ==
  /\ \A i \in 1 .. Len(SQ) : SQ[i].F1 = DloopBuf => SQ[i].said.cmd = "DLOOP"
  /\ QD.F1 = DloopBuf => QD.said.cmd = "DLOOP"

(* With loop-backs the queue may hold DloopBuf more than once; then the    *)
(* Window bounds it: it has replies, and each of the monitor's packets     *)
(* once.                                                                   *)
Spare == ~Console /\ Window + 2 <= SQ_ELEMENTS
MonitorOnce ==
  /\ \A i \in 1 .. Len(SQ) :
       SQ[i].said.cmd \in Answered \/ SQ[i].F1 \in {sendBuf1, sendBuf2}
  /\ \A i, k \in 1 .. Len(SQ) :
       SQ[i].F1 = SQ[k].F1 /\ SQ[i].F1 \in {sendBuf1, sendBuf2} => i = k
  /\ ~Sent_ADreq => ~Queued(sendBuf2)

(* The send queue, its thread, the driver and the DMA together are the     *)
(* bounded first-in first-out line of PacketLink.                          *)
LineOf == (IF Sending THEN <<QD>> ELSE <<>>) \o SQ
Link == INSTANCE PacketLink WITH
          Packets <- SendItems, Capacity <- SQ_ELEMENTS + 1,
          line <- LineOf, open <- sdrv # "WAIT_HOSTUP"
ImplementsLink == Link!Spec

(* The host keeps its pin up, and the monitor has seen it rise.            *)
HostSteady == pin = 1 /\ mh \in {"LOOK_FOR_IMUP_PAKT", "STABLE_UP"}

(* The IMUP packet, which the daemon sends once after it has raised its    *)
(* pin (packet_recv.c:327), was received and checked.                      *)
ImupHeld == ImupInRQ \/ InSwitch \/ has_IMUPpakt

(* While the host is steady, and nothing but a want of buffers keeps its   *)
(* IMUP packet out, every buffer comes back to the pool or to the receive  *)
(* driver over and over (PacketRecvThread.c:115, :135).                    *)
NoBuffer == rdrv = "GET_INPUT_BUFFER"
BuffersComeBack ==
  <>[](HostSteady /\ (ImupHeld \/ mh = "STABLE_UP" \/ NoBuffer)) =>
    \A b \in Bufs : []<>(InPool(b) \/ InRecv(b))

(* A steady host whose IMUP packet has arrived is recognised and is told   *)
(* so, unless it lowers its pin meanwhile, whatever requests came before:  *)
(* the answer passes through the send queue with the replies to them, of   *)
(* which none was sent before (monitor_host.c:102-113).                    *)
HostComesUp ==
  HostSteady /\ ImupHeld ~>
    ~HostSteady \/ (mh = "STABLE_UP" /\ ~ImupUnanswered)
=============================================================================
