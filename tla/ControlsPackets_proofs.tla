----------------------- MODULE ControlsPackets_proofs -----------------------
EXTENDS ControlsPackets, FiniteSetTheorems, TLAPS

USE DEF vars, poolVars, rdrvVars, rtVars, stVars, sdrvVars, mhVars

(* Queueing a packet leaves the memory and the send queue well typed.      *)
LEMMA SendPaktType ==
  ASSUME TypeOK, NEW cmd \in {"GET", "DLOOP", "IMUP", "ADCONFIG"},
         NEW a \in Addrs, NEW ret \in Bufs \union {Null},
         PacketSend_pakt(cmd, a, ret)
  PROVE  mem' \in [Addrs -> Contents] /\ SQ' \in Seq(SendItems)
<1>1. mem[a] \in Contents
  BY DEF TypeOK
<1>2. [cmd |-> cmd, data |-> mem[a].data] \in Contents
  BY <1>1 DEF Contents
<1>3. mem' \in [Addrs -> Contents]
  BY <1>2 DEF TypeOK, PacketSend_pakt
<1>4. [F1 |-> a, F2 |-> ret, said |-> [cmd |-> cmd, data |-> mem[a].data]] \in SendItems
  BY <1>2 DEF SendItems
<1>5. SQ' \in Seq(SendItems)
  BY <1>4 DEF TypeOK, PacketSend_pakt
<1> QED BY <1>3, <1>5

(* Every step keeps the types.                                             *)
LEMMA TypeStep == TypeOK /\ [Next]_vars => TypeOK'
<1> SUFFICES ASSUME TypeOK, [Next]_vars PROVE TypeOK'
  OBVIOUS
<1> USE PoolAssumption, SkipAssumption DEF TypeOK
<1>a. /\ Bufs \subseteq Addrs /\ Null \notin Bufs
      /\ {DloopBuf, sendBuf1, sendBuf2, dbgbuffer} \subseteq Addrs
  BY DEF Bufs, Addrs, Null, DloopBuf, sendBuf1, sendBuf2, dbgbuffer
<1>1. CASE Cmds_Nothing \/ SendDriver_Wait \/ SendDriver_Start
             \/ RecvDriver_Wait \/ RecvDriver_Header \/ RecvDriver_Rearm
  BY <1>1 DEF Cmds_Nothing, SendDriver_Wait, SendDriver_Start, RecvDriver_Wait,
     RecvDriver_Header, RecvDriver_Rearm, IdleRuns
<1>2. CASE Cmds_SendADConfig
  <2>1. PacketSend_pakt("ADCONFIG", dbgbuffer, Null)
    BY <1>2 DEF Cmds_SendADConfig
  <2>2. mem' \in [Addrs -> Contents] /\ SQ' \in Seq(SendItems)
    BY <2>1, <1>a, SendPaktType
  <2> QED BY <2>2, <1>2 DEF Cmds_SendADConfig
<1>3. CASE SendDriver_Complete
  <2>1. IsAvail' \in [Bufs -> BOOLEAN]
    BY <1>3 DEF SendDriver_Complete, DataBuffer_Return
  <2> QED BY <2>1, <1>3 DEF SendDriver_Complete
<1>4. CASE RecvDriver_GetBuffer
  BY <1>4, <1>a DEF RecvDriver_GetBuffer, DataBuffer_Get
<1>5. CASE RecvDriver_Good
  <2>1. bufbase \in Bufs
    BY <1>5 DEF RecvDriver_Good
  <2>2. RQ' \in Seq(Bufs)
    BY <2>1, <1>5 DEF RecvDriver_Good
  <2> QED BY <2>2, <1>5 DEF RecvDriver_Good
<1>6. CASE RecvDriver_Bad
  <2>1. IsAvail' \in [Bufs -> BOOLEAN]
    BY <1>6 DEF RecvDriver_Bad, DataBuffer_Return
  <2> QED BY <2>1, <1>6 DEF RecvDriver_Bad
<1>7. CASE Monitor_Skip \/ Monitor_Pin
  <2>1. mh' \in {"LOOK_FOR_0", "LOOK_FOR_1", "LOOK_FOR_IMUP_PAKT", "STABLE_UP"}
    BY <1>7 DEF Monitor_Skip, Monitor_Pin, AfterPin
  <2>2. skipcount' \in 0 .. SKIPCOUNT /\ idle' = "CMDS"
    BY <1>7 DEF Monitor_Skip, Monitor_Pin, Monitor_Sampling
  <2>4. has_IMUPpakt' \in BOOLEAN
    BY <1>7, Zenon DEF Monitor_Skip, Monitor_Pin
  <2>3. UNCHANGED <<poolVars, rdrvVars, RQ, rtVars, SQ, stVars, PacketDone,
                    sdrvVars, Sent_ADreq, pin>>
    BY <1>7 DEF Monitor_Skip, Monitor_Pin
  <2> QED BY <2>1, <2>2, <2>3, <2>4
<1>8. CASE Monitor_Up
  <2>1. PacketSend_pakt("IMUP", sendBuf1, Null)
    BY <1>8 DEF Monitor_Up
  <2>2. mem' \in [Addrs -> Contents] /\ SQ' \in Seq(SendItems)
    BY <2>1, <1>a, SendPaktType
  <2>3. /\ UNCHANGED <<IsAvail, rdrvVars, RQ, rtVars, stVars, PacketDone,
                       sdrvVars, Sent_ADreq, pin>>
        /\ mh' = "STABLE_UP" /\ has_IMUPpakt' \in BOOLEAN
        /\ skipcount' = 0 /\ idle' = "MONITOR_SENT"
    BY <1>8 DEF Monitor_Up, Monitor_Sampling
  <2> QED BY <2>2, <2>3
<1>9. CASE Monitor_ADreq
  <2>1. CASE Sent_ADreq
    BY <2>1, <1>9 DEF Monitor_ADreq
  <2>2. CASE ~Sent_ADreq
    <3>1. PacketSend_pakt("ADCONFIG", sendBuf2, Null)
      BY <1>9, <2>2 DEF Monitor_ADreq
    <3>2. mem' \in [Addrs -> Contents] /\ SQ' \in Seq(SendItems)
      BY <3>1, <1>a, SendPaktType
    <3>3. /\ UNCHANGED <<IsAvail, rdrvVars, RQ, rtVars, stVars, PacketDone,
                         sdrvVars, mh, skipcount, has_IMUPpakt, pin>>
          /\ Sent_ADreq' \in BOOLEAN /\ idle' = "CMDS"
      BY <1>9, <2>2 DEF Monitor_ADreq
    <3> QED BY <3>2, <3>3
  <2> QED BY <2>1, <2>2
<1>10. CASE Recv_Receive
  BY <1>10, <1>a DEF Recv_Receive
<1>11. CASE Recv_Imup \/ Recv_Local
  <2>1. /\ UNCHANGED <<poolVars, idle, rdrvVars, RQ, Dptr, SQ, stVars,
                       PacketDone, sdrvVars, mh, skipcount, Sent_ADreq, pin>>
        /\ has_IMUPpakt' \in BOOLEAN /\ rt' = "RETURN" /\ rt = "SWITCH"
    BY <1>11 DEF Recv_Imup, Recv_Local
  <2> QED BY <2>1
<1>12. CASE Recv_DloopCopy
  <2>1. Dptr \in Addrs
    BY <1>12, <1>a DEF Recv_DloopCopy
  <2>2. [cmd |-> mem[DloopBuf].cmd, data |-> mem[Dptr].data] \in Contents
    BY <2>1, <1>a DEF Contents
  <2> QED BY <2>2, <1>12, <1>a DEF Recv_DloopCopy
<1>13. CASE Recv_DloopSend
  <2>1. PacketSend_pakt("DLOOP", DloopBuf, Null)
    BY <1>13 DEF Recv_DloopSend
  <2>2. mem' \in [Addrs -> Contents] /\ SQ' \in Seq(SendItems)
    BY <2>1, <1>a, SendPaktType
  <2> QED BY <2>2, <1>13 DEF Recv_DloopSend
<1>14. CASE Recv_Get
  <2>1. PacketSend_pakt("GET", Dptr, Dptr) /\ Dptr \in Bufs
    BY <1>14 DEF Recv_Get
  <2>2. mem' \in [Addrs -> Contents] /\ SQ' \in Seq(SendItems)
    BY <2>1, <1>a, SendPaktType
  <2> QED BY <2>2, <1>14 DEF Recv_Get
<1>15. CASE Recv_Return
  <2>1. IsAvail' \in [Bufs -> BOOLEAN]
    BY <1>15 DEF Recv_Return, DataBuffer_Return
  <2> QED BY <2>1, <1>15 DEF Recv_Return
<1>16. CASE Send_Receive
  <2>1. Head(SQ) \in SendItems /\ Tail(SQ) \in Seq(SendItems)
    BY <1>16 DEF Send_Receive
  <2> QED BY <2>1, <1>16 DEF Send_Receive
<1>17. CASE PacketSendDriver_Go \/ Send_Take
  BY <1>17 DEF PacketSendDriver_Go, Send_Take, SendItems
<1>18. ASSUME NEW f \in Requests, RxDma(f) PROVE TypeOK'
  <2>1. f \in Contents
    BY HostAssumption DEF Requests, Contents, Answered
  <2>2. mem' \in [Addrs -> Contents]
    BY <2>1, <1>18 DEF RxDma
  <2>3. UNCHANGED <<IsAvail, idle, rdrv, bufbase, RQ, rtVars, SQ, stVars,
                    PacketDone, sdrvVars, mhVars, pin>> /\ TCIF5' = 1
    BY <1>18 DEF RxDma
  <2> QED BY <2>2, <2>3
<1>19. CASE TxDma \/ HostPin
  BY <1>19 DEF TxDma, HostPin
<1>20. CASE UNCHANGED vars
  BY <1>20
<1> QED
  BY <1>1, <1>2, <1>3, <1>4, <1>5, <1>6, <1>7, <1>8, <1>9, <1>10, <1>11, <1>12,
     <1>13, <1>14, <1>15, <1>16, <1>17, <1>18, <1>19, <1>20
  DEF Next, Idle, RecvThread, SendThread, Environment

(* The initial states have the types.                                      *)
LEMMA TypeInit == Init => TypeOK
<1> SUFFICES ASSUME Init PROVE TypeOK
  OBVIOUS
<1>1. [cmd |-> "NONE", data |-> 0] \in Contents
  BY DEF Contents
<1>2. IsAvail \in [Bufs -> BOOLEAN] /\ mem \in [Addrs -> Contents]
  BY <1>1, Zenon DEF Init
<1>3. QD \in SendItems
  BY <1>1, PoolAssumption DEF Init, SendItems, Addrs, sendBuf1
<1>4. RQ \in Seq(Bufs) /\ SQ \in Seq(SendItems)
  BY DEF Init
<1>5. has_IMUPpakt \in BOOLEAN /\ Sent_ADreq \in BOOLEAN
  BY Zenon DEF Init
<1>6. skipcount \in 0 .. SKIPCOUNT
  BY SkipAssumption DEF Init
<1>7. /\ idle = "CMDS" /\ rdrv = "GET_INPUT_BUFFER" /\ bufbase = Null /\ TCIF5 = 0
      /\ rt = "RECEIVE" /\ Dptr = Null /\ st = "RECEIVE" /\ PacketDone = 0
      /\ sdrv = "WAIT_HOSTUP" /\ Trigger = 0 /\ paktptr = Null
      /\ Aparm = Null /\ TCIF6 = 0 /\ mh = "LOOK_FOR_0" /\ pin \in {0, 1}
  BY DEF Init
<1> QED BY <1>2, <1>3, <1>4, <1>5, <1>6, <1>7 DEF TypeOK

(* Every variable has its type, for every size of the pool and the queues  *)
(* and every behaviour of the host.                                        *)
THEOREM TypeCorrect == Spec => []TypeOK
  BY TypeInit, TypeStep, PTL DEF Spec

(* Every step keeps the hand-over between send thread and send driver.     *)
LEMMA HandoverStep == TypeOK /\ Handover /\ [Next]_vars => Handover'
<1> SUFFICES ASSUME TypeOK, Handover, [Next]_vars PROVE Handover'
  OBVIOUS
<1> USE DEF Handover
<1>1. /\ st \in {"RECEIVE", "GO", "TAKE"} /\ PacketDone \in {0, 1}
      /\ sdrv \in {"WAIT_HOSTUP", "WAIT_THEN_GO", "WAITCOMPLETE"}
      /\ Trigger \in {0, 1} /\ TCIF6 \in {0, 1}
  BY DEF TypeOK
<1>2. CASE UNCHANGED <<sdrvVars, stVars, PacketDone>>
  BY <1>2
<1>3. CASE SendDriver_Wait
  BY <1>1, <1>3 DEF SendDriver_Wait, ReadyToGo
<1>4. CASE SendDriver_Start
  BY <1>1, <1>4 DEF SendDriver_Start, ReadyToGo
<1>5. CASE SendDriver_Complete
  BY <1>1, <1>5 DEF SendDriver_Complete
<1>6. CASE SendThread
  BY <1>1, <1>6 DEF SendThread, Send_Receive, PacketSendDriver_Go, Send_Take
<1>7. CASE TxDma
  BY <1>1, <1>7 DEF TxDma
<1>8. [Next]_vars => \/ UNCHANGED <<sdrvVars, stVars, PacketDone>>
                     \/ SendDriver_Wait \/ SendDriver_Start \/ SendDriver_Complete
                     \/ SendThread \/ TxDma
  BY DEF Next, Idle, RecvThread, Environment, Cmds_Nothing, Cmds_SendADConfig,
     RecvDriver_Wait, RecvDriver_GetBuffer, RecvDriver_Header, RecvDriver_Good,
     RecvDriver_Rearm, RecvDriver_Bad, Monitor_Skip, Monitor_Pin, Monitor_Up,
     Monitor_ADreq, Recv_Receive, Recv_Imup, Recv_Local, Recv_DloopCopy,
     Recv_DloopSend, Recv_Get, Recv_Return, RxDma, HostPin
<1> QED BY <1>2, <1>3, <1>4, <1>5, <1>6, <1>7, <1>8

LEMMA ApartStays ==
  ASSUME Apart,
         \A b \in Bufs : /\ InPool(b)' => InPool(b)
                         /\ InRecv(b)' => InRecv(b)
                         /\ InRQ(b)' => InRQ(b)
                         /\ InThread(b)' => InThread(b)
                         /\ InSQ(b)' => InSQ(b)
                         /\ InTx(b)' => InTx(b)
  PROVE  Apart'
BY DEF Apart

(* Queueing a packet that returns no buffer.                               *)
LEMMA SendNull ==
  ASSUME TypeOK, OnceInSQ, NEW cmd, NEW a, PacketSend_pakt(cmd, a, Null)
  PROVE  OnceInSQ' /\ \A b \in Bufs : InSQ(b)' => InSQ(b)
<1>1. SQ' = SQ \/ \E it : it.F2 = Null /\ SQ' = Append(SQ, it)
  BY DEF PacketSend_pakt
<1>2. CASE SQ' = SQ
  BY <1>2 DEF OnceInSQ, InSQ
<1>3. ASSUME NEW it, it.F2 = Null, SQ' = Append(SQ, it)
      PROVE  OnceInSQ' /\ \A b \in Bufs : InSQ(b)' => InSQ(b)
  <2>1. /\ Len(SQ') = Len(SQ) + 1 /\ Len(SQ) \in Nat
        /\ \A i \in 1 .. Len(SQ) : SQ'[i] = SQ[i]
        /\ SQ'[Len(SQ) + 1] = it
    BY <1>3 DEF TypeOK
  <2>2. \A b \in Bufs : b # Null
    BY DEF Bufs, Null
  <2>3. OnceInSQ'
    BY <2>1, <1>3 DEF OnceInSQ
  <2>4. \A b \in Bufs : InSQ(b)' => InSQ(b)
    BY <2>1, <2>2, <1>3 DEF InSQ
  <2> QED BY <2>3, <2>4
<1> QED BY <1>1, <1>2, <1>3

(* The head of a queue without repetitions is not in its tail.             *)
LEMMA TailOfRQ ==
  ASSUME RQ \in Seq(Bufs), OnceInRQ, RQ # <<>>, RQ' = Tail(RQ)
  PROVE  /\ OnceInRQ'
         /\ \A b \in Bufs : InRQ(b)' => InRQ(b) /\ b # Head(RQ)
         /\ Head(RQ) \in Bufs /\ InRQ(Head(RQ))
<1>1. /\ Len(RQ) \in Nat \ {0} /\ Len(RQ') = Len(RQ) - 1
      /\ \A i \in 1 .. Len(RQ') : RQ'[i] = RQ[i + 1]
      /\ Head(RQ) = RQ[1]
  OBVIOUS
<1>2. OnceInRQ'
  BY <1>1 DEF OnceInRQ
<1>3. \A b \in Bufs : InRQ(b)' => InRQ(b) /\ b # Head(RQ)
  BY <1>1 DEF OnceInRQ, InRQ
<1>4. Head(RQ) \in Bufs /\ InRQ(Head(RQ))
  BY <1>1 DEF InRQ
<1> QED BY <1>2, <1>3, <1>4

LEMMA TailOfSQ ==
  ASSUME SQ \in Seq(SendItems), OnceInSQ, SQ # <<>>, SQ' = Tail(SQ)
  PROVE  /\ OnceInSQ'
         /\ \A b \in Bufs : InSQ(b)' => InSQ(b) /\ b # Head(SQ).F2
         /\ \A b \in Bufs : Head(SQ).F2 = b => InSQ(b)
<1>1. /\ Len(SQ) \in Nat \ {0} /\ Len(SQ') = Len(SQ) - 1
      /\ \A i \in 1 .. Len(SQ') : SQ'[i] = SQ[i + 1]
      /\ Head(SQ) = SQ[1]
  OBVIOUS
<1>2. OnceInSQ'
  BY <1>1 DEF OnceInSQ
<1>3. \A b \in Bufs : b # Null
  BY DEF Bufs, Null
<1>4. \A b \in Bufs : InSQ(b)' => InSQ(b) /\ b # Head(SQ).F2
  <2> SUFFICES ASSUME NEW b \in Bufs, NEW i \in 1 .. Len(SQ'), SQ'[i].F2 = b
               PROVE  InSQ(b) /\ b # Head(SQ).F2
    BY DEF InSQ
  <2>1. i + 1 \in 1 .. Len(SQ) /\ SQ[i + 1].F2 = b
    BY <1>1
  <2>2. b # SQ[1].F2
    BY <1>1, <1>3, <2>1 DEF OnceInSQ
  <2> QED BY <2>1, <2>2, <1>1 DEF InSQ
<1>5. \A b \in Bufs : Head(SQ).F2 = b => InSQ(b)
  BY <1>1 DEF InSQ
<1> QED BY <1>2, <1>4, <1>5

(* Appending a buffer that is not in the queue.                            *)
LEMMA AppendToRQ ==
  ASSUME RQ \in Seq(Bufs), OnceInRQ, NEW c \in Bufs, ~InRQ(c),
         RQ' = RQ \/ RQ' = Append(RQ, c)
  PROVE  OnceInRQ' /\ \A b \in Bufs : InRQ(b)' => InRQ(b) \/ b = c
<1>1. CASE RQ' = RQ
  BY <1>1 DEF OnceInRQ, InRQ
<1>2. CASE RQ' = Append(RQ, c)
  <2>1. /\ Len(RQ') = Len(RQ) + 1 /\ Len(RQ) \in Nat
        /\ \A i \in 1 .. Len(RQ) : RQ'[i] = RQ[i]
        /\ RQ'[Len(RQ) + 1] = c
    BY <1>2
  <2> QED BY <2>1 DEF OnceInRQ, InRQ
<1> QED BY <1>1, <1>2

LEMMA SendReturned ==
  ASSUME TypeOK, OnceInSQ, NEW c \in Bufs, ~InSQ(c), PacketSend_pakt("GET", c, c)
  PROVE  OnceInSQ' /\ \A b \in Bufs : InSQ(b)' => InSQ(b) \/ b = c
<1>1. SQ' = SQ \/ \E it : it.F2 = c /\ SQ' = Append(SQ, it)
  BY DEF PacketSend_pakt
<1>2. CASE SQ' = SQ
  BY <1>2 DEF OnceInSQ, InSQ
<1>3. ASSUME NEW it, it.F2 = c, SQ' = Append(SQ, it)
      PROVE  OnceInSQ' /\ \A b \in Bufs : InSQ(b)' => InSQ(b) \/ b = c
  <2>1. /\ Len(SQ') = Len(SQ) + 1 /\ Len(SQ) \in Nat
        /\ \A i \in 1 .. Len(SQ) : SQ'[i] = SQ[i]
        /\ SQ'[Len(SQ) + 1] = it
    BY <1>3 DEF TypeOK
  <2> QED BY <2>1, <1>3 DEF OnceInSQ, InSQ
<1> QED BY <1>1, <1>2, <1>3

(* Every step keeps each buffer in one place.  The steps that move one are *)
(* cases of their own; none of the others brings a buffer anywhere.        *)
LEMMA OnePlaceStep == IInv /\ [Next]_vars => OnePlace'
<1> SUFFICES ASSUME IInv, [Next]_vars PROVE OnePlace'
  OBVIOUS
<1> USE DEF IInv, OnePlace
<1>1. CASE Cmds_Nothing \/ SendDriver_Wait \/ SendDriver_Start
             \/ RecvDriver_Wait \/ RecvDriver_Header \/ RecvDriver_Rearm
             \/ Monitor_Skip \/ Monitor_Pin
  <2>1. UNCHANGED <<IsAvail, RQ, rt, Dptr, SQ, st, QD, PacketDone>>
    BY <1>1 DEF Cmds_Nothing, SendDriver_Wait, SendDriver_Start, RecvDriver_Wait,
       RecvDriver_Header, RecvDriver_Rearm, Monitor_Skip, Monitor_Pin
  <2>2. \A b \in Bufs : InRecv(b)' => InRecv(b)
    BY <1>1 DEF Cmds_Nothing, SendDriver_Wait, SendDriver_Start, RecvDriver_Wait,
       RecvDriver_Header, RecvDriver_Rearm, Monitor_Skip, Monitor_Pin, Monitor_Sampling,
       IdleRuns, InRecv
  <2>3. \A b \in Bufs : /\ InPool(b)' => InPool(b)
                        /\ InRQ(b)' => InRQ(b)
                        /\ InThread(b)' => InThread(b)
                        /\ InSQ(b)' => InSQ(b)
                        /\ InTx(b)' => InTx(b)
    BY <2>1 DEF InPool, InRQ, InThread, InSQ, InTx
  <2>4. Apart'
    BY <2>2, <2>3, ApartStays
  <2> QED BY <2>1, <2>4 DEF OnceInRQ, OnceInSQ
<1>2. CASE \/ Cmds_SendADConfig \/ Monitor_Up \/ (Monitor_ADreq /\ ~Sent_ADreq)
           \/ Recv_DloopSend
  <2>1. UNCHANGED <<IsAvail, rdrv, bufbase, RQ, Dptr, st, QD, PacketDone>>
    BY <1>2 DEF Cmds_SendADConfig, Monitor_Up, Monitor_ADreq, Recv_DloopSend
  <2>2. \E cmd, a : PacketSend_pakt(cmd, a, Null)
    BY <1>2 DEF Cmds_SendADConfig, Monitor_Up, Monitor_ADreq, Recv_DloopSend
  <2>3. OnceInSQ' /\ \A b \in Bufs : InSQ(b)' => InSQ(b)
    BY <2>2, SendNull
  <2>4. \A b \in Bufs : /\ InRecv(b)' => InRecv(b)
                        /\ InThread(b)' => InThread(b)
    BY <1>2, <2>1 DEF Cmds_SendADConfig, Monitor_Up, Monitor_ADreq, Monitor_Sampling,
       Recv_DloopSend, IdleRuns, InRecv, InThread
  <2>5. \A b \in Bufs : /\ InPool(b)' => InPool(b)
                        /\ InRQ(b)' => InRQ(b)
                        /\ InTx(b)' => InTx(b)
    BY <2>1 DEF InPool, InRQ, InTx
  <2>6. Apart'
    BY <2>3, <2>4, <2>5, ApartStays
  <2> QED BY <2>1, <2>3, <2>6 DEF OnceInRQ
<1>3. CASE \/ Monitor_ADreq /\ Sent_ADreq
           \/ Recv_Imup \/ Recv_Local \/ Recv_DloopCopy
           \/ PacketSendDriver_Go \/ Send_Take
           \/ TxDma \/ HostPin \/ (\E f \in Requests : RxDma(f)) \/ UNCHANGED vars
  <2>1. UNCHANGED <<IsAvail, rdrv, bufbase, RQ, Dptr, SQ, QD>>
    BY <1>3 DEF Monitor_ADreq, Recv_Imup, Recv_Local, Recv_DloopCopy,
       PacketSendDriver_Go, Send_Take, TxDma, HostPin, RxDma
  <2>2. \A b \in Bufs : /\ InRecv(b)' => InRecv(b)
                        /\ InThread(b)' => InThread(b)
                        /\ InTx(b)' => InTx(b)
    BY <1>3, <2>1 DEF Monitor_ADreq, Recv_Imup, Recv_Local, Recv_DloopCopy, IdleRuns,
       PacketSendDriver_Go, Send_Take, TxDma, HostPin, RxDma, InRecv, InThread, InTx
  <2>3. \A b \in Bufs : /\ InPool(b)' => InPool(b)
                        /\ InRQ(b)' => InRQ(b)
                        /\ InSQ(b)' => InSQ(b)
    BY <2>1 DEF InPool, InRQ, InSQ
  <2>4. Apart'
    BY <2>2, <2>3, ApartStays
  <2> QED BY <2>1, <2>4 DEF OnceInRQ, OnceInSQ
<1>4. CASE SendDriver_Complete
  <2>1. /\ UNCHANGED <<rdrv, bufbase, RQ, rt, Dptr, SQ>>
        /\ idle = "SEND" /\ idle' = "RECV" /\ PacketDone' = 1
        /\ Aparm # Null => IsAvail' = [IsAvail EXCEPT ![Aparm] = TRUE]
        /\ Aparm = Null => IsAvail' = IsAvail
    BY <1>4 DEF SendDriver_Complete, IdleRuns, DataBuffer_Return
  <2>2. st # "RECEIVE" /\ PacketDone = 0 /\ QD.F2 = Aparm
    BY <1>4 DEF SendDriver_Complete, Handover, TypeOK
  <2>3. \A b \in Bufs : /\ InPool(b)' => InPool(b) \/ InTx(b)
                        /\ ~InTx(b)'
    BY <2>1, <2>2 DEF TypeOK, InPool, InTx
  <2>4. \A b \in Bufs : /\ InRecv(b)' => InRecv(b)
                        /\ InRQ(b)' => InRQ(b)
                        /\ InThread(b)' => InThread(b)
                        /\ InSQ(b)' => InSQ(b)
    BY <2>1 DEF InRecv, InRQ, InThread, InSQ
  <2>5. Apart'
    BY <2>3, <2>4 DEF Apart
  <2> QED BY <2>1, <2>5 DEF OnceInRQ, OnceInSQ
<1>5. CASE RecvDriver_GetBuffer
  <2>1. PICK c \in Bufs : DataBuffer_Get(c) /\ bufbase' = c
    BY <1>5 DEF RecvDriver_GetBuffer
  <2>2. \A b \in Bufs : /\ InPool(b)' => InPool(b) /\ b # c
                        /\ InRecv(b)' => b = c
    BY <2>1 DEF DataBuffer_Get, TypeOK, InPool, InRecv
  <2>3. UNCHANGED <<RQ, rt, Dptr, SQ, st, QD, PacketDone>> /\ InPool(c)
    BY <1>5, <2>1 DEF RecvDriver_GetBuffer, DataBuffer_Get, InPool
  <2>4. \A b \in Bufs : /\ InRQ(b)' => InRQ(b)
                        /\ InThread(b)' => InThread(b)
                        /\ InSQ(b)' => InSQ(b)
                        /\ InTx(b)' => InTx(b)
    BY <2>3 DEF InRQ, InThread, InSQ, InTx
  <2>5. Apart'
    BY <2>2, <2>3, <2>4 DEF Apart
  <2> QED BY <2>3, <2>5 DEF OnceInRQ, OnceInSQ
<1>6. CASE RecvDriver_Good
  <2>1. /\ RQ' = RQ \/ RQ' = Append(RQ, bufbase)
        /\ idle' = "RECV_QSENT"
        /\ UNCHANGED <<IsAvail, rt, Dptr, SQ, st, QD, PacketDone>>
    BY <1>6 DEF RecvDriver_Good
  <2>2. bufbase \in Bufs /\ InRecv(bufbase)
    BY <1>6 DEF RecvDriver_Good, IdleRuns, TypeOK, InRecv
  <2>3. OnceInRQ' /\ \A b \in Bufs : InRQ(b)' => InRQ(b) \/ b = bufbase
    BY <2>1, <2>2, AppendToRQ DEF Apart, TypeOK
  <2>4. \A b \in Bufs : ~InRecv(b)'
    BY <2>1 DEF InRecv
  <2>5. \A b \in Bufs : /\ InPool(b)' => InPool(b)
                        /\ InThread(b)' => InThread(b)
                        /\ InSQ(b)' => InSQ(b)
                        /\ InTx(b)' => InTx(b)
    BY <2>1 DEF InPool, InThread, InSQ, InTx
  <2>6. Apart'
    BY <2>2, <2>3, <2>4, <2>5 DEF Apart
  <2> QED BY <2>1, <2>3, <2>6 DEF OnceInSQ
<1>7. CASE RecvDriver_Bad
  <2>1. /\ IsAvail' = [IsAvail EXCEPT ![bufbase] = TRUE]
        /\ rdrv' = "GET_INPUT_BUFFER"
        /\ UNCHANGED <<RQ, rt, Dptr, SQ, st, QD, PacketDone>>
    BY <1>7 DEF RecvDriver_Bad, DataBuffer_Return
  <2>2. bufbase \in Bufs /\ InRecv(bufbase)
    BY <1>7 DEF RecvDriver_Bad, IdleRuns, TypeOK, InRecv
  <2>3. \A b \in Bufs : /\ InPool(b)' => InPool(b) \/ b = bufbase
                        /\ ~InRecv(b)'
    BY <2>1 DEF TypeOK, InPool, InRecv
  <2>4. \A b \in Bufs : /\ InRQ(b)' => InRQ(b)
                        /\ InThread(b)' => InThread(b)
                        /\ InSQ(b)' => InSQ(b)
                        /\ InTx(b)' => InTx(b)
    BY <2>1 DEF InRQ, InThread, InSQ, InTx
  <2>5. Apart'
    BY <2>2, <2>3, <2>4 DEF Apart
  <2> QED BY <2>1, <2>5 DEF OnceInRQ, OnceInSQ
<1>8. CASE Recv_Receive
  <2>1. /\ rt = "RECEIVE" /\ RQ # <<>> /\ Dptr' = Head(RQ) /\ RQ' = Tail(RQ)
        /\ UNCHANGED <<IsAvail, idle, rdrv, bufbase, SQ, st, QD, PacketDone>>
    BY <1>8 DEF Recv_Receive
  <2>2. /\ OnceInRQ'
        /\ \A b \in Bufs : InRQ(b)' => InRQ(b) /\ b # Head(RQ)
        /\ Head(RQ) \in Bufs /\ InRQ(Head(RQ))
    BY <2>1, TailOfRQ DEF TypeOK
  <2>3. \A b \in Bufs : InThread(b)' => b = Head(RQ)
    BY <2>1 DEF InThread
  <2>4. \A b \in Bufs : /\ InPool(b)' => InPool(b)
                        /\ InRecv(b)' => InRecv(b)
                        /\ InSQ(b)' => InSQ(b)
                        /\ InTx(b)' => InTx(b)
    BY <2>1 DEF InPool, InRecv, InSQ, InTx
  <2>5. Apart'
    BY <2>2, <2>3, <2>4 DEF Apart
  <2> QED BY <2>1, <2>2, <2>5 DEF OnceInSQ
<1>9. CASE Recv_Get
  <2>1. /\ PacketSend_pakt("GET", Dptr, Dptr) /\ rt' = "RECEIVE"
        /\ UNCHANGED <<IsAvail, idle, rdrv, bufbase, RQ, st, QD, PacketDone>>
    BY <1>9 DEF Recv_Get
  <2>2. Dptr \in Bufs /\ InThread(Dptr)
    BY <1>9 DEF Recv_Get, TypeOK, InThread
  <2>3. OnceInSQ' /\ \A b \in Bufs : InSQ(b)' => InSQ(b) \/ b = Dptr
    BY <2>1, <2>2, SendReturned DEF Apart
  <2>4. \A b \in Bufs : ~InThread(b)'
    BY <2>1 DEF InThread
  <2>5. \A b \in Bufs : /\ InPool(b)' => InPool(b)
                        /\ InRecv(b)' => InRecv(b)
                        /\ InRQ(b)' => InRQ(b)
                        /\ InTx(b)' => InTx(b)
    BY <2>1 DEF InPool, InRecv, InRQ, InTx
  <2>6. Apart'
    BY <2>2, <2>3, <2>4, <2>5 DEF Apart
  <2> QED BY <2>1, <2>3, <2>6 DEF OnceInRQ
<1>10. CASE Recv_Return
  <2>1. /\ IsAvail' = [IsAvail EXCEPT ![Dptr] = TRUE] /\ rt' = "RECEIVE"
        /\ UNCHANGED <<idle, rdrv, bufbase, RQ, SQ, st, QD, PacketDone>>
    BY <1>10 DEF Recv_Return, DataBuffer_Return
  <2>2. Dptr \in Bufs /\ InThread(Dptr)
    BY <1>10 DEF Recv_Return, TypeOK, InThread
  <2>3. \A b \in Bufs : /\ InPool(b)' => InPool(b) \/ b = Dptr
                        /\ ~InThread(b)'
    BY <2>1 DEF TypeOK, InPool, InThread
  <2>4. \A b \in Bufs : /\ InRecv(b)' => InRecv(b)
                        /\ InRQ(b)' => InRQ(b)
                        /\ InSQ(b)' => InSQ(b)
                        /\ InTx(b)' => InTx(b)
    BY <2>1 DEF InRecv, InRQ, InSQ, InTx
  <2>5. Apart'
    BY <2>2, <2>3, <2>4 DEF Apart
  <2> QED BY <2>1, <2>5 DEF OnceInRQ, OnceInSQ
<1>11. CASE Send_Receive
  <2>1. /\ st = "RECEIVE" /\ SQ # <<>> /\ QD' = Head(SQ) /\ SQ' = Tail(SQ)
        /\ UNCHANGED <<IsAvail, idle, rdrv, bufbase, RQ, rt, Dptr>>
    BY <1>11 DEF Send_Receive
  <2>2. /\ OnceInSQ'
        /\ \A b \in Bufs : InSQ(b)' => InSQ(b) /\ b # Head(SQ).F2
        /\ \A b \in Bufs : Head(SQ).F2 = b => InSQ(b)
    BY <2>1, TailOfSQ DEF TypeOK
  <2>3. \A b \in Bufs : InTx(b)' => Head(SQ).F2 = b
    BY <2>1 DEF InTx
  <2>4. \A b \in Bufs : /\ InPool(b)' => InPool(b)
                        /\ InRecv(b)' => InRecv(b)
                        /\ InRQ(b)' => InRQ(b)
                        /\ InThread(b)' => InThread(b)
    BY <2>1 DEF InPool, InRecv, InRQ, InThread
  <2>5. Apart'
    BY <2>2, <2>3, <2>4 DEF Apart
  <2> QED BY <2>1, <2>2, <2>5 DEF OnceInRQ
<1> QED
  BY <1>1, <1>2, <1>3, <1>4, <1>5, <1>6, <1>7, <1>8, <1>9, <1>10, <1>11
  DEF Next, Idle, RecvThread, SendThread, Environment

(* What PacketSend_pakt does to the packets already queued: nothing, when  *)
(* the packet it writes is not one of theirs.                              *)
LEMMA SendKeeps ==
  ASSUME IInv, NEW cmd \in {"GET", "DLOOP", "IMUP", "ADCONFIG"},
         NEW a \in Addrs, NEW ret \in Bufs \union {Null},
         ret # Null => a = ret /\ InThread(ret),
         ret = Null => a \notin Bufs,
         PacketSend_pakt(cmd, a, ret),
         UNCHANGED <<st, QD, PacketDone, TCIF6>>
  PROVE  /\ \A i \in 1 .. Len(SQ') : SQ'[i].F2 # Null => SQ'[i].F1 = SQ'[i].F2
         /\ ReplyIntact'
<1> DEFINE it == [F1 |-> a, F2 |-> ret,
                  said |-> [cmd |-> cmd, data |-> mem[a].data]]
<1>1. /\ mem' = [mem EXCEPT ![a] = [cmd |-> cmd, data |-> mem[a].data]]
      /\ SQ' = SQ \/ SQ' = Append(SQ, it)
  BY DEF PacketSend_pakt
<1>2. mem'[a] = it.said /\ \A b \in Bufs : b # a => mem'[b] = mem[b]
  BY <1>1 DEF IInv, TypeOK, Addrs, Bufs
<1>3. /\ \A i \in 1 .. Len(SQ) : SQ[i].F2 # Null =>
           /\ SQ[i].F1 = SQ[i].F2 /\ SQ[i].F2 \in Bufs /\ SQ[i].F2 # a
           /\ mem[SQ[i].F1] = SQ[i].said
      /\ Len(SQ) \in Nat
  <2> SUFFICES ASSUME NEW i \in 1 .. Len(SQ), SQ[i].F2 # Null
               PROVE  /\ SQ[i].F1 = SQ[i].F2 /\ SQ[i].F2 \in Bufs /\ SQ[i].F2 # a
                      /\ mem[SQ[i].F1] = SQ[i].said
    BY DEF IInv, TypeOK
  <2>1. SQ[i] \in SendItems
    BY DEF IInv, TypeOK
  <2>2. SQ[i].F2 \in Bufs /\ InSQ(SQ[i].F2)
    BY <2>1 DEF SendItems, InSQ
  <2>3. SQ[i].F2 # a
    BY <2>2 DEF IInv, OnePlace, Apart
  <2> QED BY <2>2, <2>3 DEF IInv, Phases, ReplyIntact
<1>4. \A i \in 1 .. Len(SQ') : SQ'[i].F2 # Null =>
         SQ'[i].F1 = SQ'[i].F2 /\ mem'[SQ'[i].F1] = SQ'[i].said
  <2>1. CASE SQ' = SQ
    BY <2>1, <1>2, <1>3
  <2>2. CASE SQ' = Append(SQ, it)
    <3>1. /\ Len(SQ') = Len(SQ) + 1
          /\ \A i \in 1 .. Len(SQ) : SQ'[i] = SQ[i]
          /\ SQ'[Len(SQ) + 1] = it
      BY <2>2 DEF IInv, TypeOK
    <3> QED BY <3>1, <1>2, <1>3
  <2> QED BY <2>1, <2>2, <1>1
<1>5. Sending' /\ QD'.F2 # Null => mem'[QD'.F1] = QD'.said
  <2> SUFFICES ASSUME Sending, QD.F2 # Null PROVE mem'[QD.F1] = QD.said
    BY DEF Sending
  <2>1. QD.F2 \in Bufs /\ InTx(QD.F2)
    BY DEF IInv, TypeOK, SendItems, Sending, InTx
  <2>2. QD.F2 # a
    BY <2>1 DEF IInv, OnePlace, Apart
  <2> QED BY <2>1, <2>2, <1>2 DEF IInv, Phases, ReplyIntact
<1> QED BY <1>4, <1>5 DEF ReplyIntact

(* Every step keeps the queued replies and the one being sent as they were *)
(* queued.  Memory is written by PacketSend_pakt, by the copy of a         *)
(* loop-back request and by the receive DMA, which writes a buffer that is *)
(* with the receive driver and therefore neither queued nor being sent.    *)
LEMMA ReplyStep == IInv /\ [Next]_vars => Phases' /\ ReplyIntact'
<1> SUFFICES ASSUME IInv, [Next]_vars PROVE Phases' /\ ReplyIntact'
  OBVIOUS
<1> USE DEF IInv
<1>a. /\ {DloopBuf, sendBuf1, sendBuf2, dbgbuffer} \subseteq Addrs
      /\ {DloopBuf, sendBuf1, sendBuf2, dbgbuffer} \intersect Bufs = {}
      /\ Bufs \subseteq Addrs /\ Null \notin Bufs
  BY PoolAssumption DEF DloopBuf, sendBuf1, sendBuf2, dbgbuffer, Addrs, Bufs, Null
<1>b. \A i \in 1 .. Len(SQ) : SQ[i].F2 \in Bufs \union {Null}
  <2>1. \A i \in 1 .. Len(SQ) : SQ[i] \in SendItems
    BY DEF TypeOK
  <2> QED BY <2>1 DEF SendItems
<1>1. CASE UNCHANGED <<mem, SQ, QD>> /\ (Sending' => Sending)
           /\ (idle' = "RECV_QSENT" => rdrv' = "WAITCOMPLETE")
  <2>1. Phases'
    BY <1>1 DEF Phases
  <2>2. ASSUME NEW i \in 1 .. Len(SQ'), SQ'[i].F2 # Null
        PROVE  mem'[SQ'[i].F1] = SQ'[i].said
    BY <1>1, <2>2 DEF ReplyIntact
  <2>3. ASSUME Sending', QD'.F2 # Null
        PROVE  mem'[QD'.F1] = QD'.said
    <3>1. Sending /\ QD.F2 # Null
      BY <1>1, <2>3
    <3>2. mem[QD.F1] = QD.said
      BY <3>1 DEF ReplyIntact
    <3> QED BY <1>1, <3>2
  <2> QED BY <2>1, <2>2, <2>3 DEF ReplyIntact
<1>2. CASE Cmds_SendADConfig
  <2>1. /\ PacketSend_pakt("ADCONFIG", dbgbuffer, Null) /\ idle' = "SEND"
        /\ UNCHANGED <<st, QD, PacketDone, TCIF6>>
    BY <1>2 DEF Cmds_SendADConfig
  <2> QED BY <2>1, <1>a, SendKeeps DEF Phases
<1>3. CASE Monitor_Up
  <2>1. /\ PacketSend_pakt("IMUP", sendBuf1, Null) /\ idle' = "MONITOR_SENT"
        /\ UNCHANGED <<st, QD, PacketDone, TCIF6>>
    BY <1>3 DEF Monitor_Up
  <2> QED BY <2>1, <1>a, SendKeeps DEF Phases
<1>4. CASE Monitor_ADreq /\ ~Sent_ADreq
  <2>1. /\ PacketSend_pakt("ADCONFIG", sendBuf2, Null) /\ idle' = "CMDS"
        /\ UNCHANGED <<st, QD, PacketDone, TCIF6>>
    BY <1>4 DEF Monitor_ADreq
  <2> QED BY <2>1, <1>a, SendKeeps DEF Phases
<1>5. CASE Recv_DloopSend
  <2>1. /\ PacketSend_pakt("DLOOP", DloopBuf, Null)
        /\ UNCHANGED <<idle, rdrv, st, QD, PacketDone, TCIF6>>
    BY <1>5 DEF Recv_DloopSend
  <2> QED BY <2>1, <1>a, SendKeeps DEF Phases
<1>6. CASE Recv_Get
  <2>1. /\ PacketSend_pakt("GET", Dptr, Dptr)
        /\ UNCHANGED <<idle, rdrv, st, QD, PacketDone, TCIF6>>
    BY <1>6 DEF Recv_Get
  <2>2. Dptr \in Bufs /\ Dptr \in Addrs /\ Dptr # Null /\ InThread(Dptr)
    BY <1>6, <1>a DEF Recv_Get, TypeOK, InThread
  <2> QED BY <2>1, <2>2, SendKeeps DEF Phases
<1>7. ASSUME NEW a, NEW c, mem' = [mem EXCEPT ![a] = c], a \in Addrs,
             a \in Bufs => InRecv(a),
             UNCHANGED <<idle, rdrv, SQ, st, QD, PacketDone, TCIF6>>
      PROVE  Phases' /\ ReplyIntact'
  <2>1. \A b \in Bufs : b # a => mem'[b] = mem[b]
    BY <1>7, <1>a DEF TypeOK
  <2>2. ASSUME NEW i \in 1 .. Len(SQ), SQ[i].F2 # Null
        PROVE  mem'[SQ[i].F1] = SQ[i].said
    <3>1. SQ[i].F2 \in Bufs /\ InSQ(SQ[i].F2)
      BY <2>2, <1>b DEF InSQ
    <3>2. SQ[i].F2 # a
      BY <3>1, <1>7 DEF OnePlace, Apart
    <3> QED BY <3>1, <3>2, <2>1, <2>2 DEF Phases, ReplyIntact
  <2>3. ASSUME Sending, QD.F2 # Null
        PROVE  mem'[QD.F1] = QD.said
    <3>1. QD.F2 \in Bufs /\ InTx(QD.F2)
      BY <2>3 DEF TypeOK, SendItems, Sending, InTx
    <3>2. QD.F2 # a
      BY <3>1, <1>7 DEF OnePlace, Apart
    <3> QED BY <3>1, <3>2, <2>1, <2>3 DEF Phases, ReplyIntact
  <2> QED BY <1>7, <2>2, <2>3 DEF Phases, ReplyIntact, Sending
<1>8. CASE Recv_DloopCopy
  <2>1. /\ mem' = [mem EXCEPT ![DloopBuf] = [cmd |-> mem[DloopBuf].cmd,
                                             data |-> mem[Dptr].data]]
        /\ UNCHANGED <<idle, rdrv, SQ, st, QD, PacketDone, TCIF6>>
    BY <1>8 DEF Recv_DloopCopy
  <2> QED BY <2>1, <1>7, <1>a
<1>9. ASSUME NEW f \in Requests, RxDma(f) PROVE Phases' /\ ReplyIntact'
  <2>1. /\ mem' = [mem EXCEPT ![bufbase] = f]
        /\ UNCHANGED <<idle, rdrv, SQ, st, QD, PacketDone, TCIF6>>
        /\ rdrv = "WAITCOMPLETE" /\ idle # "RECV_QSENT"
    BY <1>9 DEF RxDma
  <2>2. bufbase \in Addrs /\ InRecv(bufbase)
    BY <2>1, <1>a DEF TypeOK, InRecv
  <2> QED BY <2>1, <2>2, <1>7
<1>10. CASE Send_Receive
  <2>1. /\ SQ # <<>> /\ QD' = Head(SQ) /\ SQ' = Tail(SQ)
        /\ UNCHANGED <<idle, rdrv, mem>>
    BY <1>10 DEF Send_Receive
  <2>2. /\ Len(SQ) \in Nat \ {0} /\ Len(SQ') = Len(SQ) - 1
        /\ \A i \in 1 .. Len(SQ') : SQ'[i] = SQ[i + 1]
        /\ QD' = SQ[1]
    BY <2>1 DEF TypeOK
  <2>3. 1 \in 1 .. Len(SQ)
    BY <2>2
  <2>4. Phases'
    <3>1. \A i \in 1 .. Len(SQ') : SQ'[i].F2 # Null => SQ'[i].F1 = SQ'[i].F2
      BY <2>2 DEF Phases
    <3>2. QD'.F2 # Null => QD'.F1 = QD'.F2
      BY <2>2, <2>3 DEF Phases
    <3> QED BY <2>1, <3>1, <3>2 DEF Phases
  <2>5. ASSUME NEW i \in 1 .. Len(SQ'), SQ'[i].F2 # Null
        PROVE  mem'[SQ'[i].F1] = SQ'[i].said
    <3>1. i + 1 \in 1 .. Len(SQ) /\ SQ'[i] = SQ[i + 1]
      BY <2>2
    <3>2. mem[SQ[i + 1].F1] = SQ[i + 1].said
      BY <3>1, <2>5 DEF ReplyIntact
    <3> QED BY <3>1, <3>2, <2>1
  <2>6. QD'.F2 # Null => mem'[QD'.F1] = QD'.said
    BY <2>1, <2>2, <2>3 DEF ReplyIntact
  <2> QED BY <2>4, <2>5, <2>6 DEF ReplyIntact
<1>11. [Next]_vars =>
         \/ UNCHANGED <<mem, SQ, QD>> /\ (Sending' => Sending)
              /\ (idle' = "RECV_QSENT" => rdrv' = "WAITCOMPLETE")
         \/ Cmds_SendADConfig \/ Monitor_Up \/ (Monitor_ADreq /\ ~Sent_ADreq)
         \/ Recv_DloopSend \/ Recv_Get \/ Recv_DloopCopy
         \/ (\E f \in Requests : RxDma(f)) \/ Send_Receive
  <2>1. CASE Cmds_Nothing \/ SendDriver_Wait \/ SendDriver_Start
               \/ RecvDriver_Wait \/ RecvDriver_GetBuffer \/ RecvDriver_Header
               \/ RecvDriver_Good \/ RecvDriver_Rearm \/ RecvDriver_Bad
               \/ Monitor_Skip \/ Monitor_Pin \/ (Monitor_ADreq /\ Sent_ADreq)
    BY <2>1 DEF Cmds_Nothing, SendDriver_Wait, SendDriver_Start, RecvDriver_Wait,
       RecvDriver_GetBuffer, RecvDriver_Header, RecvDriver_Good, RecvDriver_Rearm,
       RecvDriver_Bad, Monitor_Skip, Monitor_Pin, Monitor_Sampling, Monitor_ADreq,
       IdleRuns, Sending
  <2>2. CASE SendDriver_Complete
    BY <2>2 DEF SendDriver_Complete, IdleRuns, Sending
  <2>3. CASE Recv_Receive \/ Recv_Imup \/ Recv_Local \/ Recv_Return \/ TxDma
               \/ HostPin \/ UNCHANGED vars
    BY <2>3 DEF Recv_Receive, Recv_Imup, Recv_Local, Recv_Return, TxDma, HostPin,
       Sending, Phases
  <2>4. CASE PacketSendDriver_Go \/ Send_Take
    BY <2>4 DEF PacketSendDriver_Go, Send_Take, Sending, Phases
  <2> QED BY <2>1, <2>2, <2>3, <2>4 DEF Next, Idle, RecvThread, SendThread, Environment
<1> QED BY <1>1, <1>2, <1>3, <1>4, <1>5, <1>6, <1>8, <1>9, <1>10, <1>11

(* The inductive invariant holds from power-up on.                         *)
LEMMA Invariant == Spec => []IInv
<1>1. Init => IInv
  <2> SUFFICES ASSUME Init PROVE IInv
    OBVIOUS
  <2>1. Handover /\ Phases
    BY DEF Init, Handover, Phases
  <2>2. Apart
    BY DEF Init, Apart, InRecv, InRQ, InThread, InSQ, InTx
  <2>3. OnceInRQ /\ OnceInSQ
    BY DEF Init, OnceInRQ, OnceInSQ
  <2>4. ReplyIntact
    BY DEF Init, ReplyIntact, Sending
  <2> QED BY TypeInit, <2>1, <2>2, <2>3, <2>4 DEF IInv, OnePlace
<1>2. IInv /\ [Next]_vars => IInv'
  BY TypeStep, HandoverStep, OnePlaceStep, ReplyStep DEF IInv
<1>3. QED BY <1>1, <1>2, PTL DEF Spec

(* No pool buffer is ever in two places at once, nor twice in a queue.     *)
THEOREM OneOwner == Spec => []OnePlace
<1>1. IInv => OnePlace
  BY DEF IInv
<1>2. QED BY <1>1, Invariant, PTL

(* The send thread, the send driver and the semaphore stay in step: one    *)
(* packet at a time, and the driver works on the one it was given.         *)
THEOREM OneAtATime == Spec => []Handover
<1>1. IInv => Handover
  BY DEF IInv
<1>2. QED BY <1>1, Invariant, PTL

(* The reply to a reading is transmitted as it was queued.                 *)
THEOREM RepliesGoOutIntact == Spec => []ReplyIntact
<1>1. IInv => ReplyIntact
  BY DEF IInv
<1>2. QED BY <1>1, Invariant, PTL

(* The receive queue always has room for the buffer that the driver is     *)
(* filling: its entries are distinct, none is that buffer, and the pool    *)
(* has no more buffers than the queue has slots.                           *)
THEOREM RecvNeverDrops == Spec => []RQHasRoom
<1>1. ASSUME IInv, rdrv = "WAITCOMPLETE", idle # "RECV_QSENT"
      PROVE  Len(RQ) < RQ_ELEMENTS
  <2>1. /\ bufbase \in Bufs /\ InRecv(bufbase)
        /\ Len(RQ) \in Nat /\ RQ \in [1 .. Len(RQ) -> Bufs]
    BY <1>1 DEF IInv, TypeOK, InRecv
  <2>2. \A i \in 1 .. Len(RQ) : RQ[i] # bufbase
    BY <1>1, <2>1 DEF IInv, OnePlace, Apart, InRQ
  <2>3. RQ \in [1 .. Len(RQ) -> Bufs \ {bufbase}]
    BY <2>1, <2>2
  <2>4. /\ IsFiniteSet(1 .. Len(RQ)) /\ Cardinality(1 .. Len(RQ)) = Len(RQ)
        /\ IsFiniteSet(Bufs) /\ Cardinality(Bufs) = DBUF_NUMBUFS
    <3>1. \A n \in Nat : IsFiniteSet(1 .. n) /\ Cardinality(1 .. n) = n
      <4> TAKE n \in Nat
      <4>1. IsFiniteSet(1 .. n) /\ Cardinality(1 .. n) = IF 1 > n THEN 0 ELSE n - 1 + 1
        BY FS_Interval
      <4> QED BY <4>1
    <3> QED BY <3>1, <2>1, PoolAssumption DEF Bufs
  <2>5. /\ IsFiniteSet(Bufs \ {bufbase})
        /\ Cardinality(Bufs \ {bufbase}) = DBUF_NUMBUFS - 1
    BY <2>1, <2>4, FS_RemoveElement
  <2>6. ~(DBUF_NUMBUFS - 1 < Len(RQ))
    <3> SUFFICES ASSUME DBUF_NUMBUFS - 1 < Len(RQ) PROVE FALSE
      OBVIOUS
    <3>0. Cardinality(Bufs \ {bufbase}) < Cardinality(1 .. Len(RQ))
      BY <2>4, <2>5
    <3>1. \E i, j \in 1 .. Len(RQ) : i # j /\ RQ[i] = RQ[j]
      <4> DEFINE S == 1 .. Len(RQ)
                 T == Bufs \ {bufbase}
      <4>1. IsFiniteSet(S) /\ IsFiniteSet(T) /\ Cardinality(T) < Cardinality(S)
            /\ RQ \in [S -> T]
        BY <2>3, <2>4, <2>5, <3>0
      <4> HIDE DEF S, T
      <4>2. \E i, j \in S : i # j /\ RQ[i] = RQ[j]
        BY <4>1, FS_PigeonHole
      <4> QED BY <4>2 DEF S
    <3> QED BY <3>1, <1>1 DEF IInv, OnePlace, OnceInRQ
  <2> QED BY <2>1, <2>6, PoolAssumption, QueueAssumption, RoomAssumption
<1>2. IInv => RQHasRoom
  BY <1>1 DEF RQHasRoom
<1>3. QED BY <1>2, Invariant, PTL

(* Queueing a packet is accepting it, or dropping it when there is no room.*)
LEMMA AcceptOrDrop ==
  ASSUME TypeOK, NEW cmd \in {"GET", "DLOOP", "IMUP", "ADCONFIG"},
         NEW a \in Addrs, NEW ret \in Bufs \union {Null},
         PacketSend_pakt(cmd, a, ret),
         UNCHANGED <<QD, Sending, sdrv>>
  PROVE  Link!Accept \/ UNCHANGED <<LineOf, sdrv>>
<1>1. CASE SQ' = SQ
  BY <1>1 DEF LineOf
<1>2. CASE SQ' # SQ
  <2> DEFINE it == [F1 |-> a, F2 |-> ret,
                    said |-> [cmd |-> cmd, data |-> mem[a].data]]
  <2>1. Len(SQ) < SQ_ELEMENTS /\ SQ' = Append(SQ, it)
    BY <1>2 DEF PacketSend_pakt
  <2>2. it \in SendItems
    <3>1. mem[a] \in Contents
      BY DEF TypeOK
    <3>2. [cmd |-> cmd, data |-> mem[a].data] \in Contents
      BY <3>1 DEF Contents
    <3> QED BY <3>2 DEF SendItems
  <2> HIDE DEF it
  <2>3. SQ \in Seq(SendItems) /\ QD \in SendItems
    BY DEF TypeOK
  <2>4. LineOf' = Append(LineOf, it)
    <3>1. CASE Sending
      <4>1. LineOf = <<QD>> \o SQ /\ LineOf' = <<QD>> \o SQ'
        BY <3>1 DEF LineOf
      <4> QED BY <4>1, <2>1, <2>2, <2>3
    <3>2. CASE ~Sending
      <4>1. LineOf = <<>> \o SQ /\ LineOf' = <<>> \o SQ'
        BY <3>2 DEF LineOf
      <4> QED BY <4>1, <2>1, <2>2, <2>3
    <3> QED BY <3>1, <3>2
  <2>5. Len(LineOf) < SQ_ELEMENTS + 1
    BY <2>1, <2>3, QueueAssumption DEF LineOf
  <2>6. Len(LineOf') = Len(LineOf) + 1
    <3>1. LineOf \in Seq(SendItems)
      BY <2>3 DEF LineOf
    <3> QED BY <3>1, <2>2, <2>4
  <2> QED BY <2>2, <2>4, <2>5, <2>6 DEF Link!Accept
<1> QED BY <1>1, <1>2

(* Every step is a step of the line, or changes nothing of it.             *)
LEMMA LinkStep ==
  IInv /\ [Next]_vars => [Link!Next]_<<LineOf, sdrv # "WAIT_HOSTUP">>
<1> SUFFICES ASSUME IInv, [Next]_vars
             PROVE  Link!Next \/ UNCHANGED <<LineOf, sdrv # "WAIT_HOSTUP">>
  OBVIOUS
<1> USE DEF IInv
<1>a. SQ \in Seq(SendItems) /\ QD \in SendItems
  BY DEF TypeOK
<1>b. /\ {DloopBuf, sendBuf1, sendBuf2, dbgbuffer} \subseteq Addrs
      /\ Bufs \subseteq Addrs
  BY PoolAssumption DEF DloopBuf, sendBuf1, sendBuf2, dbgbuffer, Addrs, Bufs
<1>1. ASSUME UNCHANGED <<SQ, QD, Sending>>, sdrv # "WAIT_HOSTUP" => sdrv' # "WAIT_HOSTUP"
      PROVE  Link!Next \/ UNCHANGED <<LineOf, sdrv # "WAIT_HOSTUP">>
  <2>1. UNCHANGED LineOf
    BY <1>1 DEF LineOf
  <2> QED BY <1>1, <2>1 DEF Link!Next, Link!Open
<1>2. ASSUME NEW cmd \in {"GET", "DLOOP", "IMUP", "ADCONFIG"},
             NEW a \in Addrs, NEW ret \in Bufs \union {Null},
             PacketSend_pakt(cmd, a, ret),
             UNCHANGED <<QD, st, PacketDone, TCIF6, sdrv>>
      PROVE  Link!Next \/ UNCHANGED <<LineOf, sdrv # "WAIT_HOSTUP">>
  <2>1. UNCHANGED Sending
    BY <1>2 DEF Sending
  <2>2. Link!Accept \/ UNCHANGED <<LineOf, sdrv>>
    BY <1>2, <2>1, AcceptOrDrop
  <2> QED BY <2>2 DEF Link!Next
<1>3. CASE Cmds_SendADConfig
  BY <1>3, <1>2, <1>b DEF Cmds_SendADConfig
<1>4. CASE Monitor_Up
  BY <1>4, <1>2, <1>b DEF Monitor_Up
<1>5. CASE Monitor_ADreq /\ ~Sent_ADreq
  BY <1>5, <1>2, <1>b DEF Monitor_ADreq
<1>6. CASE Recv_DloopSend
  BY <1>6, <1>2, <1>b DEF Recv_DloopSend
<1>7. CASE Recv_Get
  <2>1. Dptr \in Bufs
    BY <1>7 DEF Recv_Get, TypeOK
  <2> QED BY <1>7, <2>1, <1>2, <1>b DEF Recv_Get
<1>8. CASE Send_Receive
  <2>1. ~Sending /\ Sending'
    BY <1>8 DEF Send_Receive, Sending, Handover, TypeOK
  <2>2. LineOf = <<>> \o SQ /\ LineOf' = <<Head(SQ)>> \o Tail(SQ) /\ SQ # <<>>
    BY <1>8, <2>1 DEF Send_Receive, LineOf
  <2>3. UNCHANGED LineOf
    BY <2>2, <1>a
  <2> QED BY <1>8, <2>3 DEF Send_Receive
<1>9. CASE TxDma
  <2>1. Sending /\ ~Sending'
    BY <1>9 DEF TxDma, Sending, Handover, TypeOK
  <2>2. LineOf = <<QD>> \o SQ /\ LineOf' = <<>> \o SQ
    BY <1>9, <2>1 DEF TxDma, LineOf
  <2>3. LineOf # <<>> /\ LineOf' = Tail(LineOf)
    BY <2>2, <1>a
  <2> QED BY <1>9, <2>3 DEF TxDma, Link!Next, Link!Transmit
<1>10. CASE PacketSendDriver_Go \/ Send_Take \/ SendDriver_Complete
  <2>1. UNCHANGED Sending
    BY <1>10 DEF PacketSendDriver_Go, Send_Take, SendDriver_Complete, IdleRuns,
       Sending, Handover, TypeOK
  <2> QED BY <1>10, <2>1, <1>1 DEF PacketSendDriver_Go, Send_Take, SendDriver_Complete
<1>11. CASE \/ Cmds_Nothing \/ SendDriver_Wait \/ SendDriver_Start
            \/ RecvDriver_Wait \/ RecvDriver_GetBuffer \/ RecvDriver_Header
            \/ RecvDriver_Good \/ RecvDriver_Rearm \/ RecvDriver_Bad
            \/ Monitor_Skip \/ Monitor_Pin \/ (Monitor_ADreq /\ Sent_ADreq)
  <2>1. UNCHANGED <<SQ, QD, st, PacketDone, TCIF6>>
        /\ (sdrv # "WAIT_HOSTUP" => sdrv' # "WAIT_HOSTUP")
    BY <1>11 DEF Cmds_Nothing, SendDriver_Wait, SendDriver_Start, RecvDriver_Wait,
       RecvDriver_GetBuffer, RecvDriver_Header, RecvDriver_Good, RecvDriver_Rearm,
       RecvDriver_Bad, Monitor_Skip, Monitor_Pin, Monitor_ADreq
  <2>2. UNCHANGED Sending
    BY <2>1 DEF Sending
  <2> QED BY <2>1, <2>2, <1>1
<1>12. CASE \/ Recv_Receive \/ Recv_Imup \/ Recv_Local \/ Recv_DloopCopy
            \/ Recv_Return \/ (\E f \in Requests : RxDma(f)) \/ HostPin
            \/ UNCHANGED vars
  <2>1. UNCHANGED <<SQ, QD, st, PacketDone, TCIF6, sdrv>>
    BY <1>12 DEF Recv_Receive, Recv_Imup, Recv_Local, Recv_DloopCopy, Recv_Return,
       RxDma, HostPin
  <2>2. UNCHANGED Sending
    BY <2>1 DEF Sending
  <2> QED BY <2>1, <2>2, <1>1
<1> QED BY <1>3, <1>4, <1>5, <1>6, <1>7, <1>8, <1>9, <1>10, <1>11, <1>12
        DEF Next, Idle, RecvThread, SendThread, Environment

(* The sending half of the Controls processor is a bounded first-in        *)
(* first-out line: see PacketLink.                                         *)
THEOREM SendsInOrder == Spec => ImplementsLink
<1>1. Init => Link!Init
  <2> SUFFICES ASSUME Init PROVE Link!Init
    OBVIOUS
  <2>1. ~Sending /\ SQ = <<>> /\ sdrv = "WAIT_HOSTUP"
    BY DEF Init, Sending
  <2>2. LineOf = <<>>
    BY <2>1 DEF LineOf
  <2> QED BY <2>1, <2>2 DEF Link!Init
<1>2. QED BY <1>1, LinkStep, Invariant, PTL DEF Spec, ImplementsLink, Link!Spec
=============================================================================
