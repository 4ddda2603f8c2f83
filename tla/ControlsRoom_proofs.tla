-------------------------- MODULE ControlsRoom_proofs --------------------------
(***************************************************************************)
(* Proofs that no buffer leaks and no packet is dropped, in two cases: the *)
(* host asks for no loop-backs, however many requests it leaves            *)
(* unanswered; or it asks for what it likes and leaves few enough          *)
(* unanswered.  And a proof that loop-backs go out intact when the host    *)
(* leaves one unanswered at a time.  They rest on the invariant IInv,      *)
(* proved in ControlsPackets_proofs.                                       *)
(***************************************************************************)
EXTENDS ControlsPackets_proofs

USE DEF vars, poolVars, rdrvVars, rtVars, stVars, sdrvVars, mhVars

(* The monitor's two buffers are outside the pool.                         *)
LEMMA Static ==
  /\ sendBuf1 \notin Bufs /\ sendBuf2 \notin Bufs /\ sendBuf1 # sendBuf2
  /\ sendBuf1 # DloopBuf /\ sendBuf2 # DloopBuf /\ DloopBuf \in Addrs
  /\ Null \notin Bufs /\ DloopBuf \notin Bufs
  /\ sendBuf1 \in Addrs /\ sendBuf2 \in Addrs /\ Bufs \subseteq Addrs
BY PoolAssumption DEF sendBuf1, sendBuf2, Bufs, Null, DloopBuf, Addrs

(* There is a slot for a packet that is not queued yet.                    *)
LEMMA RoomForOne ==
  ASSUME TypeOK, Modest, EachOnce, NEW a \in Bufs \union {sendBuf1, sendBuf2},
         ~Queued(a)
  PROVE  Len(SQ) < SQ_ELEMENTS
<1> DEFINE All == Bufs \union {sendBuf1, sendBuf2}
           T == All \ {a}
           S == 1 .. Len(SQ)
           f == [i \in S |-> SQ[i].F1]
<1>1. Len(SQ) \in Nat
  BY DEF TypeOK
<1>2. \A n \in Nat : IsFiniteSet(1 .. n) /\ Cardinality(1 .. n) = n
  <2> TAKE n \in Nat
  <2>1. IsFiniteSet(1 .. n) /\ Cardinality(1 .. n) = IF 1 > n THEN 0 ELSE n - 1 + 1
    BY FS_Interval
  <2> QED BY <2>1
<1>3. IsFiniteSet(S) /\ Cardinality(S) = Len(SQ)
  BY <1>1, <1>2
<1>4. IsFiniteSet(Bufs) /\ Cardinality(Bufs) = DBUF_NUMBUFS
  BY <1>2, PoolAssumption DEF Bufs
<1>5. /\ IsFiniteSet(Bufs \union {sendBuf1})
      /\ Cardinality(Bufs \union {sendBuf1}) = DBUF_NUMBUFS + 1
  BY <1>4, Static, FS_AddElement
<1>6. IsFiniteSet(All) /\ Cardinality(All) = DBUF_NUMBUFS + 2
  <2> DEFINE U == Bufs \union {sendBuf1}
  <2>1. sendBuf2 \notin U /\ All = U \union {sendBuf2}
    BY Static
  <2> HIDE DEF U
  <2>2. /\ IsFiniteSet(U \union {sendBuf2})
        /\ Cardinality(U \union {sendBuf2}) = Cardinality(U) + 1
    BY <1>5, <2>1, FS_AddElement DEF U
  <2> QED BY <1>5, <2>1, <2>2, PoolAssumption DEF U
<1>8. IsFiniteSet(T) /\ Cardinality(T) = DBUF_NUMBUFS + 1
  BY <1>6, FS_RemoveElement, PoolAssumption
<1>9. f \in [S -> T]
  BY DEF EachOnce, Queued
<1>10. \A i, k \in S : f[i] = f[k] => i = k
  BY DEF EachOnce
<1>11. ~(Cardinality(T) < Cardinality(S))
  <2> HIDE DEF S, T, f
  <2> QED BY <1>3, <1>8, <1>9, <1>10, FS_PigeonHole
<1> QED BY <1>1, <1>3, <1>8, <1>11, PoolAssumption, QueueAssumption DEF Modest

(* What queueing a packet does, whether or not there is room.              *)
LEMMA QueuedOrTossed ==
  ASSUME TypeOK, NEW cmd, NEW a, NEW ret, PacketSend_pakt(cmd, a, ret)
  PROVE  LET it == [F1 |-> a, F2 |-> ret,
                    said |-> [cmd |-> cmd, data |-> mem[a].data]]
         IN  /\ Len(SQ) \in Nat
             /\ \/ SQ' = SQ /\ ~(Len(SQ) < SQ_ELEMENTS)
                \/ /\ SQ' = Append(SQ, it) /\ Len(SQ) < SQ_ELEMENTS
                   /\ Len(SQ') = Len(SQ) + 1
                   /\ \A i \in 1 .. Len(SQ) : SQ'[i] = SQ[i]
                   /\ SQ'[Len(SQ) + 1] = it
<1> DEFINE it == [F1 |-> a, F2 |-> ret,
                  said |-> [cmd |-> cmd, data |-> mem[a].data]]
<1>1. SQ' = IF Len(SQ) < SQ_ELEMENTS THEN Append(SQ, it) ELSE SQ
  BY DEF PacketSend_pakt
<1> HIDE DEF it
<1>2. Len(SQ) \in Nat /\ SQ \in Seq(SendItems)
  BY DEF TypeOK
<1>3. CASE Len(SQ) < SQ_ELEMENTS
  BY <1>1, <1>2, <1>3 DEF it
<1>4. CASE ~(Len(SQ) < SQ_ELEMENTS)
  BY <1>1, <1>2, <1>4 DEF it
<1> QED BY <1>3, <1>4

(* It brings no packet into the queue but the one that is sent, and takes  *)
(* none out; and when there is room, the buffer to return goes with it.    *)
LEMMA SentStays ==
  ASSUME TypeOK, NEW cmd, NEW a, NEW ret, PacketSend_pakt(cmd, a, ret)
  PROVE  /\ \A c : Queued(c)' => Queued(c) \/ c = a
         /\ \A b \in Bufs : InSQ(b) => InSQ(b)'
         /\ Len(SQ) < SQ_ELEMENTS => \A b \in Bufs : b = ret => InSQ(b)'
<1> DEFINE it == [F1 |-> a, F2 |-> ret,
                  said |-> [cmd |-> cmd, data |-> mem[a].data]]
<1>1. it.F1 = a /\ it.F2 = ret
  OBVIOUS
<1>2. /\ Len(SQ) \in Nat
      /\ \/ SQ' = SQ /\ ~(Len(SQ) < SQ_ELEMENTS)
         \/ /\ Len(SQ') = Len(SQ) + 1
            /\ \A i \in 1 .. Len(SQ) : SQ'[i] = SQ[i]
            /\ SQ'[Len(SQ) + 1] = it
  BY QueuedOrTossed
<1> HIDE DEF it
<1> QED BY <1>1, <1>2 DEF Queued, InSQ

(* What queueing a packet does, when there is room.                        *)
LEMMA Accepted ==
  ASSUME TypeOK, Modest, EachOnce, NEW a \in Bufs \union {sendBuf1, sendBuf2},
         ~Queued(a), NEW cmd, NEW ret, PacketSend_pakt(cmd, a, ret)
  PROVE  /\ Len(SQ) \in Nat /\ Len(SQ') = Len(SQ) + 1
         /\ \A i \in 1 .. Len(SQ) : SQ'[i] = SQ[i]
         /\ SQ'[Len(SQ) + 1].F1 = a /\ SQ'[Len(SQ) + 1].F2 = ret
         /\ \A c : Queued(c)' <=> Queued(c) \/ c = a
<1>1. Len(SQ) < SQ_ELEMENTS
  BY RoomForOne
<1> DEFINE it == [F1 |-> a, F2 |-> ret,
                  said |-> [cmd |-> cmd, data |-> mem[a].data]]
<1>2. SQ' = Append(SQ, it)
  BY <1>1 DEF PacketSend_pakt
<1>3. it.F1 = a /\ it.F2 = ret
  OBVIOUS
<1> HIDE DEF it
<1>4. /\ Len(SQ) \in Nat /\ Len(SQ') = Len(SQ) + 1
      /\ \A i \in 1 .. Len(SQ) : SQ'[i] = SQ[i]
      /\ SQ'[Len(SQ) + 1] = it
  BY <1>2 DEF TypeOK
<1>5. \A c : Queued(c)' <=> Queued(c) \/ c = a
  BY <1>3, <1>4 DEF Queued
<1> QED BY <1>3, <1>4, <1>5

(* Queueing and taking packets keeps the queue without repetitions.        *)
LEMMA AcceptedOnce ==
  ASSUME TypeOK, Modest, EachOnce, NEW a \in Bufs \union {sendBuf1, sendBuf2},
         ~Queued(a), NEW cmd, NEW ret, PacketSend_pakt(cmd, a, ret),
         a \in Bufs => ret = a,
         ~Sent_ADreq' => ~Sent_ADreq /\ a # sendBuf2
  PROVE  EachOnce'
<1>1. /\ Len(SQ) \in Nat /\ Len(SQ') = Len(SQ) + 1
      /\ \A i \in 1 .. Len(SQ) : SQ'[i] = SQ[i]
      /\ SQ'[Len(SQ) + 1].F1 = a /\ SQ'[Len(SQ) + 1].F2 = ret
      /\ \A c : Queued(c)' <=> Queued(c) \/ c = a
  BY Accepted
<1>2. \A i \in 1 .. Len(SQ') : i \in 1 .. Len(SQ) \/ i = Len(SQ) + 1
  BY <1>1
<1>3. \A i \in 1 .. Len(SQ) : SQ[i].F1 # a
  BY DEF Queued
<1>4. \A i, k \in 1 .. Len(SQ') : SQ'[i].F1 = SQ'[k].F1 => i = k
  BY <1>1, <1>2, <1>3 DEF EachOnce
<1>5. \A i \in 1 .. Len(SQ') : SQ'[i].F1 \in Bufs \union {sendBuf1, sendBuf2}
  BY <1>1, <1>2 DEF EachOnce
<1>6. \A i \in 1 .. Len(SQ') : SQ'[i].F1 \in Bufs => SQ'[i].F2 = SQ'[i].F1
  BY <1>1, <1>2 DEF EachOnce
<1>7. ~Sent_ADreq' => ~Queued(sendBuf2)'
  BY <1>1 DEF EachOnce
<1> QED BY <1>4, <1>5, <1>6, <1>7 DEF EachOnce

(* A request in the receive thread's hands has no reply in the queue.      *)
LEMMA NotYetQueued ==
  ASSUME IInv, EachOnce, rt = "SWITCH"
  PROVE  Dptr \in Bufs /\ ~Queued(Dptr)
<1>1. Dptr \in Bufs
  BY DEF IInv, TypeOK
<1>2. ~InSQ(Dptr)
  BY <1>1 DEF IInv, OnePlace, Apart, InThread
<1> QED BY <1>1, <1>2 DEF EachOnce, Queued, InSQ

(* A packet that is sent keeps the command of every pool buffer.           *)
LEMMA PaktKeeps ==
  ASSUME TypeOK, NEW cmd, NEW a, NEW ret, PacketSend_pakt(cmd, a, ret),
         NEW b \in Bufs, b # a \/ mem[b].cmd = cmd
  PROVE  mem'[b].cmd = mem[b].cmd
<1>1. b \in Addrs
  BY Static
<1>2. mem' = [mem EXCEPT ![a] = [cmd |-> cmd, data |-> @.data]]
  BY DEF PacketSend_pakt
<1>3. DOMAIN mem = Addrs
  BY DEF TypeOK
<1> QED BY <1>1, <1>2, <1>3

(* What the steps can do to packets and requests when the invariant holds: *)
(* the actions that remain, besides those that touch neither.              *)
Untouched == UNCHANGED <<mem, RQ, rt, Dptr, SQ, has_IMUPpakt, Sent_ADreq>>
LEMMA Steps ==
  ASSUME IInv, ~Console, OneImup, [Next]_vars
  PROVE  \/ Untouched /\ TCIF5' = 0 
         \/ /\ Untouched
            /\ UNCHANGED <<TCIF5, bufbase>>
            /\ TCIF5 = 1 => rdrv' = "WAITCOMPLETE" /\ idle' # "RECV_QSENT"
         \/ RecvDriver_Good \/ Monitor_Pin \/ Monitor_Up
         \/ (Monitor_ADreq /\ ~Sent_ADreq)
         \/ Recv_Receive \/ Recv_Imup \/ Recv_Local \/ Recv_Get \/ Recv_Return
         \/ Recv_DloopCopy \/ Recv_DloopSend
         \/ Send_Receive \/ \E f \in Requests : RxDma(f)
<1>1. ~Cmds_SendADConfig
  BY DEF Cmds_SendADConfig
<1>4. CASE RecvDriver_GetBuffer \/ RecvDriver_Bad \/ RecvDriver_Rearm
  BY <1>4 DEF RecvDriver_GetBuffer, RecvDriver_Bad, RecvDriver_Rearm, IdleRuns,
     IInv, TypeOK, OneImup, Untouched
<1>5. CASE \/ Cmds_Nothing \/ SendDriver_Wait \/ SendDriver_Start
           \/ SendDriver_Complete \/ RecvDriver_Wait \/ RecvDriver_Header
           \/ Monitor_Skip \/ (Monitor_ADreq /\ Sent_ADreq)
  BY <1>5 DEF Cmds_Nothing, SendDriver_Wait, SendDriver_Start, SendDriver_Complete,
     RecvDriver_Wait, RecvDriver_Header, Monitor_Skip, Monitor_ADreq, OneImup, Untouched
<1>6. CASE PacketSendDriver_Go \/ Send_Take \/ TxDma \/ HostPin \/ UNCHANGED vars
  BY <1>6 DEF PacketSendDriver_Go, Send_Take, TxDma, HostPin, OneImup, Untouched
<1> QED
  BY <1>1, <1>4, <1>5, <1>6
  DEF Next, Idle, RecvThread, SendThread, Environment

(* Without loop-back requests the receive thread never answers one.        *)
LEMMA NoneAnswered ==
  ASSUME TypeOK, NoLoops
  PROVE  ~Recv_DloopCopy /\ ~Recv_DloopSend
BY DEF Recv_DloopCopy, Recv_DloopSend, NoLoops, TypeOK

(* No loop-back request turns up.                                          *)
LEMMA NoLoopsStep ==
  ASSUME IInv, Modest, NoLoops, OneImup, [Next]_vars
  PROVE  NoLoops'
<1> USE DEF NoLoops
<1>1. CASE Untouched
  BY <1>1 DEF Untouched
<1>2. CASE RecvDriver_Good \/ Monitor_Pin
  BY <1>2 DEF RecvDriver_Good, Monitor_Pin
<1>3. CASE Monitor_Up \/ (Monitor_ADreq /\ ~Sent_ADreq)
  <2>1. /\ rt' = rt
        /\ PacketSend_pakt("IMUP", sendBuf1, Null) \/ PacketSend_pakt("ADCONFIG", sendBuf2, Null)
    BY <1>3 DEF Monitor_Up, Monitor_ADreq
  <2>2. \A b \in Bufs : mem'[b].cmd = mem[b].cmd
    BY <2>1, Static, PaktKeeps DEF IInv
  <2> QED BY <2>1, <2>2
<1>4. CASE Recv_Receive \/ Recv_Imup \/ Recv_Local \/ Recv_Return \/ Send_Receive
  BY <1>4 DEF Recv_Receive, Recv_Imup, Recv_Local, Recv_Return, Send_Receive
<1>5. CASE Recv_Get
  <2>1. /\ rt' = "RECEIVE" /\ PacketSend_pakt("GET", Dptr, Dptr)
        /\ mem[Dptr].cmd = "GET"
    BY <1>5 DEF Recv_Get
  <2>2. \A b \in Bufs : mem'[b].cmd = mem[b].cmd
    BY <2>1, PaktKeeps DEF IInv
  <2> QED BY <2>1, <2>2
<1>6. ASSUME NEW f \in Requests, RxDma(f) PROVE NoLoops'
  <2>1. f.cmd \in Commands
    BY DEF Requests
  <2>2. f.cmd # "DLOOP"
    BY <2>1 DEF Modest
  <2>3. mem' = [mem EXCEPT ![bufbase] = f] /\ rt' = rt
    BY <1>6 DEF RxDma
  <2>4. DOMAIN mem = Addrs
    BY DEF IInv, TypeOK
  <2> QED BY <2>2, <2>3, <2>4, Static
<1>7. TypeOK /\ ~Console
  BY DEF IInv, Modest
<1>8. ~Recv_DloopCopy /\ ~Recv_DloopSend
  BY <1>7, NoneAnswered
<1> QED BY <1>1, <1>2, <1>3, <1>4, <1>5, <1>6, <1>7, <1>8, Steps

(* The queue keeps each packet once.                                       *)
LEMMA EachOnceStep ==
  ASSUME IInv, Modest, RoomInv, [Next]_vars
  PROVE  EachOnce'
<1> USE DEF RoomInv, IInv
<1>1. CASE UNCHANGED <<SQ, Sent_ADreq>>
  BY <1>1 DEF EachOnce, Queued
<1>2. CASE Monitor_Up
  <2>1. /\ PacketSend_pakt("IMUP", sendBuf1, Null) /\ has_IMUPpakt
        /\ UNCHANGED Sent_ADreq
    BY <1>2 DEF Monitor_Up
  <2>2. ~Queued(sendBuf1)
    BY <2>1 DEF OneImup
  <2> QED BY <2>1, <2>2, Static, AcceptedOnce
<1>3. CASE Monitor_ADreq /\ ~Sent_ADreq
  <2>1. PacketSend_pakt("ADCONFIG", sendBuf2, Null) /\ Sent_ADreq'
    BY <1>3 DEF Monitor_ADreq
  <2>2. ~Queued(sendBuf2)
    BY <1>3 DEF EachOnce
  <2> QED BY <2>1, <2>2, Static, AcceptedOnce
<1>4. CASE Recv_Get
  <2>1. rt = "SWITCH" /\ PacketSend_pakt("GET", Dptr, Dptr) /\ UNCHANGED Sent_ADreq
    BY <1>4 DEF Recv_Get
  <2>2. Dptr \in Bufs /\ ~Queued(Dptr)
    BY <2>1, NotYetQueued
  <2> QED BY <2>1, <2>2, Static, AcceptedOnce
<1>5. CASE Send_Receive
  <2>1. SQ # <<>> /\ SQ' = Tail(SQ) /\ UNCHANGED Sent_ADreq
    BY <1>5 DEF Send_Receive
  <2>2. /\ Len(SQ) \in Nat \ {0} /\ Len(SQ') = Len(SQ) - 1
        /\ \A i \in 1 .. Len(SQ') : SQ'[i] = SQ[i + 1] /\ i + 1 \in 1 .. Len(SQ)
    BY <2>1 DEF TypeOK
  <2>3. ASSUME NEW i \in 1 .. Len(SQ'), NEW k \in 1 .. Len(SQ'), SQ'[i].F1 = SQ'[k].F1
        PROVE  i = k
    <3>1. /\ i + 1 \in 1 .. Len(SQ) /\ k + 1 \in 1 .. Len(SQ)
          /\ SQ[i + 1].F1 = SQ[k + 1].F1
      BY <2>2, <2>3
    <3>2. i + 1 = k + 1
      BY <3>1 DEF EachOnce
    <3>3. i \in Nat /\ k \in Nat
      BY <2>2
    <3> QED BY <3>2, <3>3
  <2>4. \A i \in 1 .. Len(SQ') : SQ'[i].F1 \in Bufs \union {sendBuf1, sendBuf2}
    BY <2>2 DEF EachOnce
  <2>5. \A i \in 1 .. Len(SQ') : SQ'[i].F1 \in Bufs => SQ'[i].F2 = SQ'[i].F1
    BY <2>2 DEF EachOnce
  <2>6. ~Sent_ADreq' => ~Queued(sendBuf2)'
    <3>1. Queued(sendBuf2)' => Queued(sendBuf2)
      BY <2>2 DEF Queued
    <3>2. Sent_ADreq' = Sent_ADreq
      BY <2>1
    <3> QED BY <3>1, <3>2, Zenon DEF EachOnce
  <2> QED BY <2>3, <2>4, <2>5, <2>6 DEF EachOnce
<1>6. CASE \/ RecvDriver_Good \/ Monitor_Pin \/ Recv_Receive \/ Recv_Imup
           \/ Recv_Local \/ Recv_Return \/ \E f \in Requests : RxDma(f)
  <2>1. UNCHANGED <<SQ, Sent_ADreq>>
    BY <1>6 DEF RecvDriver_Good, Monitor_Pin, Recv_Receive, Recv_Imup,
       Recv_Local, Recv_Return, RxDma
  <2> QED BY <2>1, <1>1
<1>7. ~Console /\ ~Recv_DloopCopy /\ ~Recv_DloopSend
  BY NoneAnswered DEF Modest
<1> QED BY <1>1, <1>2, <1>3, <1>4, <1>5, <1>6, <1>7, Steps DEF Untouched

(* Taking a packet or a buffer from a queue brings nothing into it.        *)
LEMMA TailKeeps ==
  ASSUME NEW S, NEW q \in Seq(S), q # <<>>
  PROVE  /\ Len(q) \in Nat \ {0} /\ Len(Tail(q)) = Len(q) - 1 /\ Head(q) = q[1]
         /\ \A i \in 1 .. Len(Tail(q)) : Tail(q)[i] = q[i + 1] /\ i + 1 \in 1 .. Len(q)
OBVIOUS

(* The pieces of OneImup under steps that leave the pool buffers' commands *)
(* alone: what is in a place afterwards was there before.                  *)
LEMMA OneImupStays ==
  ASSUME OneImup, TCIF5' = 1 => rdrv' = "WAITCOMPLETE" /\ idle' # "RECV_QSENT",
         \A i, k \in 1 .. Len(RQ') : IsImup(RQ[i])' /\ IsImup(RQ[k])' => i = k,
         InDma' => InDma, ImupInRQ' => ImupInRQ, InSwitch' => InSwitch,
         has_IMUPpakt' => has_IMUPpakt, Queued(sendBuf1)' => Queued(sendBuf1)
  PROVE  OneImup'
BY Zenon DEF OneImup

(* The premises of OneImupStays about the pool buffers' places, for steps  *)
(* that leave the queue, the driver and the commands as they are.          *)
LEMMA PlacesStay ==
  ASSUME TypeOK, OneImup, \A b \in Bufs : mem'[b].cmd = mem[b].cmd,
         UNCHANGED <<RQ, Dptr, bufbase, TCIF5, rdrv>>,
         idle' = idle \/ idle' # "RECV_QSENT",
         rt' = rt \/ rt' # "SWITCH"
  PROVE  /\ InDma' => InDma
         /\ ImupInRQ' => ImupInRQ
         /\ InSwitch' => InSwitch
         /\ TCIF5' = 1 => rdrv' = "WAITCOMPLETE" /\ idle' # "RECV_QSENT"
         /\ \A i, k \in 1 .. Len(RQ') : IsImup(RQ[i])' /\ IsImup(RQ[k])' => i = k
<1>1. TCIF5 = 1 => rdrv = "WAITCOMPLETE" /\ idle # "RECV_QSENT"
  BY DEF OneImup
<1>2. InDma' => InDma
  BY <1>1 DEF TypeOK, InDma, IsImup
<1>3. \A i \in 1 .. Len(RQ) : RQ[i] \in Bufs
  BY DEF TypeOK
<1>4. ImupInRQ' => ImupInRQ
  BY <1>3 DEF ImupInRQ, IsImup
<1>5. InSwitch' => InSwitch
  BY DEF TypeOK, InSwitch, IsImup
<1>6. \A i, k \in 1 .. Len(RQ') : IsImup(RQ[i])' /\ IsImup(RQ[k])' => i = k
  BY <1>3 DEF OneImup, IsImup
<1> QED BY <1>1, <1>2, <1>4, <1>5, <1>6

(* The IMUP packet that the host sent is in one place.                     *)
LEMMA OneImupStep ==
  ASSUME IInv, ~Console, OneImup, [Next]_vars
  PROVE  OneImup'
<1> USE DEF IInv
<1>1. CASE Untouched /\ TCIF5' = 0
  BY <1>1 DEF Untouched, OneImup, InDma, ImupInRQ, InSwitch, IsImup, Queued
<1>2. CASE /\ Untouched
           /\ UNCHANGED <<TCIF5, bufbase>>
           /\ TCIF5 = 1 => rdrv' = "WAITCOMPLETE" /\ idle' # "RECV_QSENT"
  BY <1>2 DEF Untouched, OneImup, InDma, ImupInRQ, InSwitch, IsImup, Queued
<1>3. CASE RecvDriver_Good
  <2>1. /\ UNCHANGED <<mem, rt, Dptr, SQ, has_IMUPpakt>>
        /\ TCIF5 = 1 /\ TCIF5' = 0 /\ bufbase \in Bufs
        /\ RQ' = RQ \/ RQ' = Append(RQ, bufbase)
    BY <1>3 DEF RecvDriver_Good, TypeOK
  <2>2. CASE RQ' = RQ
    BY <2>1, <2>2 DEF OneImup, InDma, ImupInRQ, InSwitch, IsImup, Queued
  <2>3. CASE RQ' = Append(RQ, bufbase)
    <3>1. /\ Len(RQ) \in Nat /\ Len(RQ') = Len(RQ) + 1
          /\ \A i \in 1 .. Len(RQ) : RQ'[i] = RQ[i]
          /\ RQ'[Len(RQ) + 1] = bufbase
      BY <2>1, <2>3 DEF TypeOK
    <3>2. \A i \in 1 .. Len(RQ') : i \in 1 .. Len(RQ) \/ i = Len(RQ) + 1
      BY <3>1
    <3>3. \A b : IsImup(b)' <=> IsImup(b)
      BY <2>1 DEF IsImup
    <3>4. ImupInRQ' => ImupInRQ \/ InDma
      BY <2>1, <3>1, <3>2 DEF ImupInRQ, InDma, IsImup
    <3>5. ~InDma'
      BY <2>1 DEF InDma
    <3>6. \A i, k \in 1 .. Len(RQ') : IsImup(RQ'[i]) /\ IsImup(RQ'[k]) => i = k
      <4>1. CASE IsImup(bufbase)
        <5>1. \A i \in 1 .. Len(RQ) : ~IsImup(RQ[i])
          BY <4>1, <2>1 DEF OneImup, InDma, ImupInRQ
        <5> QED BY <5>1, <3>1, <3>2
      <4>2. CASE ~IsImup(bufbase)
        BY <4>2, <3>1, <3>2 DEF OneImup
      <4> QED BY <4>1, <4>2
    <3>7. (InSwitch' <=> InSwitch) /\ (Queued(sendBuf1)' <=> Queued(sendBuf1))
      BY <2>1 DEF InSwitch, Queued, IsImup
    <3>8. \A i, k \in 1 .. Len(RQ') : IsImup(RQ[i])' /\ IsImup(RQ[k])' => i = k
      BY <2>1, <3>6 DEF IsImup
    <3>9. has_IMUPpakt' = has_IMUPpakt /\ TCIF5' # 1
      BY <2>1
    <3> QED BY <3>4, <3>5, <3>7, <3>8, <3>9, Zenon DEF OneImup
  <2> QED BY <2>1, <2>2, <2>3
<1>4. CASE Monitor_Pin
  <2>1. /\ UNCHANGED <<mem, RQ, rt, Dptr, bufbase, TCIF5, rdrv, SQ>>
        /\ idle' = "CMDS"
    BY <1>4 DEF Monitor_Pin
  <2>2. has_IMUPpakt' => has_IMUPpakt
    BY <1>4, Zenon DEF Monitor_Pin
  <2>3. Queued(sendBuf1)' => Queued(sendBuf1)
    BY <2>1 DEF Queued
  <2> QED BY <2>1, <2>2, <2>3, PlacesStay, OneImupStays
<1>5. CASE Monitor_Up
  <2>1. /\ UNCHANGED <<RQ, rt, Dptr, bufbase, TCIF5, rdrv>>
        /\ idle' = "MONITOR_SENT" /\ PacketSend_pakt("IMUP", sendBuf1, Null)
    BY <1>5 DEF Monitor_Up
  <2>2. has_IMUPpakt /\ ~has_IMUPpakt'
    BY <1>5, Zenon DEF Monitor_Up
  <2>3. \A b \in Bufs : mem'[b].cmd = mem[b].cmd
    BY <2>1, Static, PaktKeeps
  <2>4. ~(InDma \/ ImupInRQ \/ InSwitch)
    BY <2>2, Zenon DEF OneImup
  <2>5. /\ InDma' => InDma
        /\ ImupInRQ' => ImupInRQ
        /\ InSwitch' => InSwitch
        /\ TCIF5' = 1 => rdrv' = "WAITCOMPLETE" /\ idle' # "RECV_QSENT"
        /\ \A i, k \in 1 .. Len(RQ') : IsImup(RQ[i])' /\ IsImup(RQ[k])' => i = k
    BY <2>1, <2>3, PlacesStay
  <2> QED BY <2>2, <2>4, <2>5, Zenon DEF OneImup
<1>6. CASE Monitor_ADreq /\ ~Sent_ADreq
  <2>1. /\ UNCHANGED <<RQ, rt, Dptr, bufbase, TCIF5, rdrv, has_IMUPpakt>>
        /\ idle' = "CMDS" /\ PacketSend_pakt("ADCONFIG", sendBuf2, Null)
    BY <1>6 DEF Monitor_ADreq
  <2>2. \A b \in Bufs : mem'[b].cmd = mem[b].cmd
    BY <2>1, Static, PaktKeeps
  <2>4. Queued(sendBuf1)' => Queued(sendBuf1)
    BY <2>1, Static, SentStays
  <2> QED BY <2>1, <2>2, <2>4, PlacesStay, OneImupStays
<1>7. CASE Recv_Receive
  <2>1. /\ UNCHANGED <<mem, bufbase, TCIF5, rdrv, idle, SQ, has_IMUPpakt>>
        /\ rt' = "SWITCH" /\ RQ # <<>> /\ Dptr' = Head(RQ) /\ RQ' = Tail(RQ)
    BY <1>7 DEF Recv_Receive
  <2>2. /\ Len(RQ) \in Nat \ {0} /\ Len(RQ') = Len(RQ) - 1 /\ Dptr' = RQ[1]
        /\ \A i \in 1 .. Len(RQ') : RQ'[i] = RQ[i + 1] /\ i + 1 \in 1 .. Len(RQ)
    BY <2>1, TailKeeps DEF TypeOK
  <2>3. mem' = mem /\ 1 \in 1 .. Len(RQ) /\ \A i \in 1 .. Len(RQ') : i + 1 # 1
    <3>1. \A i \in 1 .. Len(RQ') : i + 1 # 1
      OBVIOUS
    <3>2. 1 \in 1 .. Len(RQ)
      BY <2>2
    <3> QED BY <2>1, <3>1, <3>2
  <2>10. \A i, k \in 1 .. Len(RQ) : mem[RQ[i]].cmd = "IMUP" /\ mem[RQ[k]].cmd = "IMUP" => i = k
    BY DEF OneImup, IsImup
  <2>4. \A i, k \in 1 .. Len(RQ') : IsImup(RQ[i])' /\ IsImup(RQ[k])' => i = k
    <3> SUFFICES ASSUME NEW i \in 1 .. Len(RQ'), NEW k \in 1 .. Len(RQ'),
                        mem[RQ[i + 1]].cmd = "IMUP", mem[RQ[k + 1]].cmd = "IMUP"
                 PROVE  i = k
      BY <2>2, <2>3 DEF IsImup
    <3>1. i + 1 = k + 1
      BY <2>2, <2>10
    <3> QED BY <3>1
  <2>5. InSwitch' => ImupInRQ
    BY <2>2, <2>3 DEF InSwitch, ImupInRQ, IsImup
  <2>6. ImupInRQ' => ImupInRQ
    BY <2>2, <2>3 DEF ImupInRQ, IsImup
  <2>7. ~(ImupInRQ' /\ InSwitch')
    BY <2>2, <2>3, <2>10 DEF ImupInRQ, InSwitch, IsImup
  <2>8. (InDma' <=> InDma) /\ (Queued(sendBuf1)' <=> Queued(sendBuf1))
    BY <2>1 DEF InDma, Queued, IsImup
  <2>9. has_IMUPpakt' = has_IMUPpakt /\ TCIF5' = TCIF5 /\ rdrv' = rdrv /\ idle' = idle
    BY <2>1
  <2> QED BY <2>4, <2>5, <2>6, <2>7, <2>8, <2>9, Zenon DEF OneImup
<1>8. CASE Recv_Imup
  <2>1. /\ UNCHANGED <<mem, RQ, Dptr, bufbase, TCIF5, rdrv, idle, SQ>>
        /\ rt = "SWITCH" /\ rt' = "RETURN" /\ IsImup(Dptr)
    BY <1>8 DEF Recv_Imup, IsImup
  <2>2. InSwitch /\ ~InSwitch'
    BY <2>1 DEF InSwitch
  <2>3. /\ InDma' => InDma
        /\ ImupInRQ' => ImupInRQ
        /\ TCIF5' = 1 => rdrv' = "WAITCOMPLETE" /\ idle' # "RECV_QSENT"
        /\ \A i, k \in 1 .. Len(RQ') : IsImup(RQ[i])' /\ IsImup(RQ[k])' => i = k
    BY <2>1, PlacesStay
  <2>4. Queued(sendBuf1)' <=> Queued(sendBuf1)
    BY <2>1 DEF Queued
  <2> QED BY <2>2, <2>3, <2>4, Zenon DEF OneImup
<1>9. CASE Recv_Local \/ Recv_Return
  <2>1. /\ UNCHANGED <<mem, RQ, Dptr, bufbase, TCIF5, rdrv, idle, SQ, has_IMUPpakt>>
        /\ rt' # "SWITCH"
    BY <1>9 DEF Recv_Local, Recv_Return
  <2>2. Queued(sendBuf1)' => Queued(sendBuf1)
    BY <2>1 DEF Queued
  <2> QED BY <2>1, <2>2, PlacesStay, OneImupStays
<1>10. CASE Recv_Get
  <2>1. /\ UNCHANGED <<RQ, Dptr, bufbase, TCIF5, rdrv, idle, has_IMUPpakt>>
        /\ rt = "SWITCH" /\ rt' # "SWITCH"
        /\ PacketSend_pakt("GET", Dptr, Dptr) /\ mem[Dptr].cmd = "GET"
    BY <1>10 DEF Recv_Get
  <2>2. \A b \in Bufs : mem'[b].cmd = mem[b].cmd
    BY <2>1, PaktKeeps
  <2>3. Dptr \in Bufs
    BY <2>1 DEF TypeOK
  <2>4. Queued(sendBuf1)' => Queued(sendBuf1)
    BY <2>1, <2>3, Static, SentStays
  <2> QED BY <2>1, <2>2, <2>4, PlacesStay, OneImupStays
<1>11. CASE Send_Receive
  <2>1. /\ UNCHANGED <<mem, RQ, rt, Dptr, bufbase, TCIF5, rdrv, idle, has_IMUPpakt>>
        /\ SQ # <<>> /\ SQ' = Tail(SQ)
    BY <1>11 DEF Send_Receive
  <2>2. \A i \in 1 .. Len(SQ') : SQ'[i] = SQ[i + 1] /\ i + 1 \in 1 .. Len(SQ)
    BY <2>1, TailKeeps DEF TypeOK
  <2>3. Queued(sendBuf1)' => Queued(sendBuf1)
    BY <2>2 DEF Queued
  <2> QED BY <2>1, <2>3, PlacesStay, OneImupStays
<1>12. ASSUME NEW f \in Requests, RxDma(f) PROVE OneImup'
  <2>1. /\ rdrv = "WAITCOMPLETE" /\ TCIF5 = 0 /\ idle # "RECV_QSENT"
        /\ f.cmd = "IMUP" => ~ImupUnanswered
        /\ mem' = [mem EXCEPT ![bufbase] = f]
        /\ UNCHANGED <<RQ, rt, Dptr, bufbase, rdrv, idle, SQ, has_IMUPpakt>>
    BY <1>12 DEF RxDma
  <2>2. bufbase \in Bufs /\ InRecv(bufbase) /\ mem'[bufbase] = f
    BY <2>1, Static DEF TypeOK, InRecv
  <2>3. \A i \in 1 .. Len(RQ) : RQ[i] # bufbase /\ mem'[RQ[i]] = mem[RQ[i]]
    BY <2>1, <2>2 DEF OnePlace, Apart, InRQ
  <2>4. rt = "SWITCH" => Dptr # bufbase /\ mem'[Dptr] = mem[Dptr]
    BY <2>1, <2>2 DEF OnePlace, Apart, InThread
  <2>5. /\ ImupInRQ' <=> ImupInRQ
        /\ InSwitch' <=> InSwitch
        /\ Queued(sendBuf1)' <=> Queued(sendBuf1)
        /\ \A i, k \in 1 .. Len(RQ') : IsImup(RQ[i])' /\ IsImup(RQ[k])' => i = k
    BY <2>1, <2>3, <2>4 DEF ImupInRQ, InSwitch, Queued, IsImup, OneImup
  <2>6. InDma' => f.cmd = "IMUP"
    BY <2>1, <2>2 DEF InDma, IsImup
  <2>7. f.cmd = "IMUP" => ~(ImupInRQ \/ InSwitch \/ has_IMUPpakt \/ Queued(sendBuf1))
    BY <2>1 DEF ImupUnanswered, ImupInRQ, InSwitch, Queued, IsImup, TypeOK
  <2>8. /\ has_IMUPpakt' = has_IMUPpakt
        /\ rdrv' = "WAITCOMPLETE" /\ idle' # "RECV_QSENT"
    BY <2>1
  <2> QED BY <2>5, <2>6, <2>7, <2>8, Zenon DEF OneImup
<1>13. CASE Recv_DloopCopy
  <2>1. /\ UNCHANGED <<RQ, Dptr, bufbase, TCIF5, rdrv, idle, SQ, has_IMUPpakt>>
        /\ rt' # "SWITCH"
        /\ mem' = [mem EXCEPT ![DloopBuf] = [cmd |-> @.cmd, data |-> mem[Dptr].data]]
    BY <1>13 DEF Recv_DloopCopy
  <2>2. \A b \in Bufs : mem'[b].cmd = mem[b].cmd
    BY <2>1, Static DEF TypeOK
  <2>3. Queued(sendBuf1)' => Queued(sendBuf1)
    BY <2>1 DEF Queued
  <2> QED BY <2>1, <2>2, <2>3, PlacesStay, OneImupStays
<1>14. CASE Recv_DloopSend
  <2>1. /\ UNCHANGED <<RQ, Dptr, bufbase, TCIF5, rdrv, idle, has_IMUPpakt>>
        /\ rt' # "SWITCH" /\ PacketSend_pakt("DLOOP", DloopBuf, Null)
    BY <1>14 DEF Recv_DloopSend
  <2>2. \A b \in Bufs : mem'[b].cmd = mem[b].cmd
    BY <2>1, Static, PaktKeeps
  <2>3. Queued(sendBuf1)' => Queued(sendBuf1)
    BY <2>1, Static, SentStays
  <2> QED BY <2>1, <2>2, <2>3, PlacesStay, OneImupStays
<1> QED
  BY <1>1, <1>2, <1>3, <1>4, <1>5, <1>6, <1>7, <1>8, <1>9, <1>10, <1>11, <1>12,
     <1>13, <1>14, Steps

LEMMA RoomInvariant == Modest => (Spec => []RoomInv)
<1> SUFFICES ASSUME Modest PROVE Spec => []RoomInv
  OBVIOUS
<1>1. Init => RoomInv
  <2> SUFFICES ASSUME Init PROVE RoomInv
    OBVIOUS
  <2>1. /\ RQ = <<>> /\ SQ = <<>> /\ rt = "RECEIVE" /\ TCIF5 = 0 /\ ~has_IMUPpakt
        /\ \A a \in Addrs : mem[a].cmd = "NONE"
    BY DEF Init
  <2>2. EachOnce
    BY <2>1 DEF EachOnce, Queued
  <2>3. NoLoops
    BY <2>1, Static DEF NoLoops
  <2>4. OneImup
    BY <2>1 DEF OneImup, InDma, ImupInRQ, InSwitch
  <2> QED BY <2>2, <2>3, <2>4 DEF RoomInv
<1>2. IInv /\ RoomInv /\ [Next]_vars => RoomInv'
  BY EachOnceStep, NoLoopsStep, OneImupStep DEF RoomInv, Modest
<1> QED BY <1>1, <1>2, Invariant, PTL DEF Spec

-----------------------------------------------------------------------------
(* A step that takes no buffer away from where it is.                      *)
LEMMA LeakStays ==
  ASSUME NoLeak,
         \A b \in Bufs : \/ InPool(b)' \/ InRecv(b)' \/ InRQ(b)'
                         \/ InThread(b)' \/ InSQ(b)' \/ InTx(b)'
                         \/ /\ ~InPool(b) /\ ~InRecv(b) /\ ~InRQ(b)
                            /\ ~InThread(b) /\ ~InSQ(b) /\ ~InTx(b)
  PROVE  NoLeak'
BY DEF NoLeak

(* A step that leaves the pool, the queues and the threads alone.          *)
LEMMA StillThere ==
  ASSUME NoLeak, UNCHANGED <<IsAvail, RQ, rt, Dptr, SQ, st, QD, PacketDone>>,
         \A b \in Bufs : InRecv(b) => InRecv(b)'
  PROVE  NoLeak'
BY DEF NoLeak, InPool, InRQ, InThread, InSQ, InTx

(* A step whose reading finds room in the send queue leaves each buffer    *)
(* somewhere it can come back from.                                        *)
LEMMA NoLeakStep ==
  ASSUME IInv, RQHasRoom, Recv_Get => Len(SQ) < SQ_ELEMENTS, NoLeak, [Next]_vars
  PROVE  NoLeak'
<1> USE DEF IInv
<1>1. CASE \/ Cmds_Nothing \/ SendDriver_Wait \/ SendDriver_Start \/ RecvDriver_Wait
           \/ RecvDriver_Header \/ RecvDriver_Rearm \/ Monitor_Skip \/ Monitor_Pin
           \/ (Monitor_ADreq /\ Sent_ADreq)
  <2>1. UNCHANGED <<IsAvail, RQ, rt, Dptr, SQ, st, QD, PacketDone>>
    BY <1>1 DEF Cmds_Nothing, SendDriver_Wait, SendDriver_Start, RecvDriver_Wait,
       RecvDriver_Header, RecvDriver_Rearm, Monitor_Skip, Monitor_Pin, Monitor_ADreq
  <2>2. \A b \in Bufs : InRecv(b) => InRecv(b)'
    BY <1>1 DEF Cmds_Nothing, SendDriver_Wait, SendDriver_Start, RecvDriver_Wait,
       RecvDriver_Header, RecvDriver_Rearm, Monitor_Skip, Monitor_Pin, Monitor_ADreq,
       IdleRuns, InRecv
  <2> QED BY <2>1, <2>2, StillThere
<1>2. CASE (\E f \in Requests : RxDma(f)) \/ TxDma \/ HostPin \/ UNCHANGED vars
  <2>1. UNCHANGED <<IsAvail, RQ, rt, Dptr, SQ, st, QD, PacketDone, rdrv, idle, bufbase>>
    BY <1>2 DEF RxDma, TxDma, HostPin
  <2>2. \A b \in Bufs : InRecv(b) => InRecv(b)'
    BY <2>1 DEF InRecv
  <2> QED BY <2>1, <2>2, StillThere
<1>3. CASE Cmds_SendADConfig \/ Monitor_Up \/ (Monitor_ADreq /\ ~Sent_ADreq)
  <2>1. /\ UNCHANGED <<IsAvail, RQ, rt, Dptr, st, QD, PacketDone, rdrv, bufbase>>
        /\ idle' # "RECV_QSENT"
        /\ \E cmd, a : PacketSend_pakt(cmd, a, Null)
    BY <1>3 DEF Cmds_SendADConfig, Monitor_Up, Monitor_ADreq
  <2>2. \A b \in Bufs : InSQ(b) => InSQ(b)'
    BY <2>1, SentStays
  <2> QED BY <2>1, <2>2 DEF NoLeak, InPool, InRecv, InRQ, InThread, InTx
<1>4. CASE SendDriver_Complete
  <2>1. /\ sdrv = "WAITCOMPLETE" /\ idle = "SEND" /\ idle' = "RECV"
        /\ UNCHANGED <<RQ, rt, Dptr, SQ, rdrv, bufbase>>
        /\ IF Aparm # Null THEN DataBuffer_Return(Aparm) ELSE UNCHANGED IsAvail
    BY <1>4 DEF SendDriver_Complete, IdleRuns
  <2>2. Aparm = QD.F2
    BY <2>1 DEF Handover
  <2>3. \A b \in Bufs : InPool(b) \/ InTx(b) => InPool(b)'
    BY <2>1, <2>2, Static DEF TypeOK, DataBuffer_Return, InPool, InTx
  <2>4. \A b \in Bufs : /\ InRecv(b) => InRecv(b)'
                        /\ InRQ(b) => InRQ(b)'
                        /\ InThread(b) => InThread(b)'
                        /\ InSQ(b) => InSQ(b)'
    BY <2>1 DEF InRecv, InRQ, InThread, InSQ
  <2> QED BY <2>3, <2>4, LeakStays
<1>5. CASE RecvDriver_GetBuffer
  <2>1. /\ rdrv = "GET_INPUT_BUFFER" /\ rdrv' = "LOOKING_FOR_AB" /\ idle' = "MONITOR"
        /\ UNCHANGED <<RQ, rt, Dptr, SQ, st, QD, PacketDone>>
        /\ \E b \in Bufs : bufbase' = b /\ IsAvail' = [IsAvail EXCEPT ![b] = FALSE]
    BY <1>5 DEF RecvDriver_GetBuffer, DataBuffer_Get
  <2>2. \A b \in Bufs : InPool(b) => InPool(b)' \/ InRecv(b)'
    BY <2>1 DEF TypeOK, InPool, InRecv
  <2>3. \A b \in Bufs : /\ ~InRecv(b)
                        /\ InRQ(b) => InRQ(b)'
                        /\ InThread(b) => InThread(b)'
                        /\ InSQ(b) => InSQ(b)'
                        /\ InTx(b) => InTx(b)'
    BY <2>1 DEF InRecv, InRQ, InThread, InSQ, InTx
  <2> QED BY <2>2, <2>3, LeakStays
<1>6. CASE RecvDriver_Good
  <2>1. /\ rdrv = "WAITCOMPLETE" /\ idle = "RECV"
        /\ UNCHANGED <<IsAvail, rt, Dptr, SQ, st, QD, PacketDone>>
        /\ RQ' = IF Len(RQ) < RQ_ELEMENTS THEN Append(RQ, bufbase) ELSE RQ
    BY <1>6 DEF RecvDriver_Good, IdleRuns
  <2>2. RQ' = Append(RQ, bufbase)
    BY <2>1 DEF RQHasRoom
  <2>3. /\ Len(RQ) \in Nat /\ Len(RQ') = Len(RQ) + 1 /\ RQ'[Len(RQ) + 1] = bufbase
        /\ \A i \in 1 .. Len(RQ) : RQ'[i] = RQ[i]
    BY <2>2 DEF TypeOK
  <2>4. \A b \in Bufs : InRQ(b) \/ InRecv(b) => InRQ(b)'
    BY <2>3 DEF InRQ, InRecv
  <2>5. \A b \in Bufs : /\ InPool(b) => InPool(b)'
                        /\ InThread(b) => InThread(b)'
                        /\ InSQ(b) => InSQ(b)'
                        /\ InTx(b) => InTx(b)'
    BY <2>1 DEF InPool, InThread, InSQ, InTx
  <2> QED BY <2>4, <2>5, LeakStays
<1>7. CASE RecvDriver_Bad
  <2>1. /\ UNCHANGED <<RQ, rt, Dptr, SQ, st, QD, PacketDone>>
        /\ IsAvail' = [IsAvail EXCEPT ![bufbase] = TRUE]
    BY <1>7 DEF RecvDriver_Bad, DataBuffer_Return
  <2>2. \A b \in Bufs : InPool(b) \/ InRecv(b) => InPool(b)'
    BY <2>1 DEF TypeOK, InPool, InRecv
  <2>3. \A b \in Bufs : /\ InRQ(b) => InRQ(b)'
                        /\ InThread(b) => InThread(b)'
                        /\ InSQ(b) => InSQ(b)'
                        /\ InTx(b) => InTx(b)'
    BY <2>1 DEF InRQ, InThread, InSQ, InTx
  <2> QED BY <2>2, <2>3, LeakStays
<1>8. CASE Recv_Receive
  <2>1. /\ UNCHANGED <<IsAvail, idle, rdrv, bufbase, SQ, st, QD, PacketDone>>
        /\ rt = "RECEIVE" /\ rt' = "SWITCH" /\ RQ # <<>>
        /\ Dptr' = Head(RQ) /\ RQ' = Tail(RQ)
    BY <1>8 DEF Recv_Receive
  <2>2. /\ Len(RQ) \in Nat \ {0} /\ Len(RQ') = Len(RQ) - 1 /\ Dptr' = RQ[1]
        /\ \A i \in 1 .. Len(RQ') : RQ'[i] = RQ[i + 1]
    BY <2>1, TailKeeps DEF TypeOK
  <2>3. \A i \in 1 .. Len(RQ) : i = 1 \/ (i - 1 \in 1 .. Len(RQ') /\ RQ'[i - 1] = RQ[i])
    BY <2>2
  <2>4. \A b \in Bufs : InRQ(b) => InRQ(b)' \/ InThread(b)'
    BY <2>1, <2>2, <2>3 DEF InRQ, InThread
  <2>5. \A b \in Bufs : /\ ~InThread(b)
                        /\ InPool(b) => InPool(b)'
                        /\ InRecv(b) => InRecv(b)'
                        /\ InSQ(b) => InSQ(b)'
                        /\ InTx(b) => InTx(b)'
    BY <2>1 DEF InPool, InRecv, InThread, InSQ, InTx
  <2> QED BY <2>4, <2>5, LeakStays
<1>9. CASE Recv_Imup \/ Recv_Local
  <2>1. /\ UNCHANGED <<IsAvail, idle, rdrv, bufbase, RQ, Dptr, SQ, st, QD, PacketDone>>
        /\ rt' = "RETURN"
    BY <1>9 DEF Recv_Imup, Recv_Local
  <2> QED BY <2>1 DEF NoLeak, InPool, InRecv, InRQ, InThread, InSQ, InTx
<1>10. CASE Recv_Get
  <2>1. /\ UNCHANGED <<IsAvail, idle, rdrv, bufbase, RQ, Dptr, st, QD, PacketDone>>
        /\ rt = "SWITCH" /\ PacketSend_pakt("GET", Dptr, Dptr)
    BY <1>10 DEF Recv_Get
  <2>2. Len(SQ) < SQ_ELEMENTS
    BY <1>10
  <2>3. \A b \in Bufs : InSQ(b) \/ b = Dptr => InSQ(b)'
    BY <2>1, <2>2, SentStays
  <2> QED BY <2>1, <2>3 DEF NoLeak, InPool, InRecv, InRQ, InThread, InTx
<1>11. CASE Recv_Return
  <2>1. /\ UNCHANGED <<idle, rdrv, bufbase, RQ, Dptr, SQ, st, QD, PacketDone>>
        /\ IsAvail' = [IsAvail EXCEPT ![Dptr] = TRUE]
    BY <1>11 DEF Recv_Return, DataBuffer_Return
  <2>2. \A b \in Bufs : InPool(b) \/ InThread(b) => InPool(b)'
    BY <2>1 DEF TypeOK, InPool, InThread
  <2>3. \A b \in Bufs : /\ InRecv(b) => InRecv(b)'
                        /\ InRQ(b) => InRQ(b)'
                        /\ InSQ(b) => InSQ(b)'
                        /\ InTx(b) => InTx(b)'
    BY <2>1 DEF InRecv, InRQ, InSQ, InTx
  <2> QED BY <2>2, <2>3, LeakStays
<1>12. CASE Send_Receive
  <2>1. /\ UNCHANGED <<IsAvail, idle, rdrv, bufbase, RQ, rt, Dptr, PacketDone>>
        /\ st = "RECEIVE" /\ st' = "GO" /\ SQ # <<>>
        /\ QD' = Head(SQ) /\ SQ' = Tail(SQ)
    BY <1>12 DEF Send_Receive
  <2>2. /\ Len(SQ) \in Nat \ {0} /\ Len(SQ') = Len(SQ) - 1 /\ QD' = SQ[1]
        /\ \A i \in 1 .. Len(SQ') : SQ'[i] = SQ[i + 1]
    BY <2>1, TailKeeps DEF TypeOK
  <2>3. \A i \in 1 .. Len(SQ) : i = 1 \/ (i - 1 \in 1 .. Len(SQ') /\ SQ'[i - 1] = SQ[i])
    BY <2>2
  <2>4. PacketDone = 0
    BY <2>1 DEF Handover, TypeOK
  <2>5. \A b \in Bufs : InSQ(b) => InSQ(b)' \/ InTx(b)'
    BY <2>1, <2>2, <2>3, <2>4 DEF InSQ, InTx
  <2>6. \A b \in Bufs : /\ ~InTx(b)
                        /\ InPool(b) => InPool(b)'
                        /\ InRecv(b) => InRecv(b)'
                        /\ InRQ(b) => InRQ(b)'
                        /\ InThread(b) => InThread(b)'
    BY <2>1 DEF InPool, InRecv, InRQ, InThread, InTx
  <2> QED BY <2>5, <2>6, LeakStays
<1>13. CASE PacketSendDriver_Go \/ Send_Take
  <2>1. UNCHANGED <<IsAvail, idle, rdrv, bufbase, RQ, rt, Dptr, SQ, QD>>
    BY <1>13 DEF PacketSendDriver_Go, Send_Take
  <2>2. \A b \in Bufs : InTx(b) => InTx(b)'
    BY <1>13 DEF PacketSendDriver_Go, Send_Take, InTx
  <2> QED BY <2>1, <2>2 DEF NoLeak, InPool, InRecv, InRQ, InThread, InSQ
<1>14. CASE Recv_DloopCopy
  <2>1. /\ UNCHANGED <<IsAvail, idle, rdrv, bufbase, RQ, Dptr, SQ, st, QD, PacketDone>>
        /\ rt' # "RECEIVE"
    BY <1>14 DEF Recv_DloopCopy
  <2> QED BY <2>1 DEF NoLeak, InPool, InRecv, InRQ, InThread, InSQ, InTx
<1>15. CASE Recv_DloopSend
  <2>1. /\ UNCHANGED <<IsAvail, idle, rdrv, bufbase, RQ, Dptr, st, QD, PacketDone>>
        /\ rt' # "RECEIVE" /\ PacketSend_pakt("DLOOP", DloopBuf, Null)
    BY <1>15 DEF Recv_DloopSend
  <2>2. \A b \in Bufs : InSQ(b) => InSQ(b)'
    BY <2>1, SentStays
  <2> QED BY <2>1, <2>2 DEF NoLeak, InPool, InRecv, InRQ, InThread, InTx
<1> QED
  BY <1>1, <1>2, <1>3, <1>4, <1>5, <1>6, <1>7, <1>8, <1>9, <1>10, <1>11, <1>12,
     <1>13, <1>14, <1>15
  DEF Next, Idle, RecvThread, SendThread, Environment

(* A host that asks for no loop-backs and an operator who sends nothing    *)
(* cannot make a buffer leak, however many requests are unanswered, if the *)
(* send queue has two slots more than the pool has buffers -- and it has   *)
(* just that many (DataBuffer.c, PacketSendThread.c:108).                  *)
THEOREM NothingLeaks == Modest => (Spec => []NoLeak)
<1> SUFFICES ASSUME Modest PROVE Spec => []NoLeak
  OBVIOUS
<1>1. Init => NoLeak
  BY DEF Init, NoLeak, InPool
<1>2. ASSUME IInv, RoomInv, Recv_Get PROVE Len(SQ) < SQ_ELEMENTS
  <2>1. rt = "SWITCH" /\ EachOnce /\ TypeOK
    BY <1>2 DEF Recv_Get, RoomInv, IInv
  <2>2. Dptr \in Bufs /\ ~Queued(Dptr)
    BY <1>2, <2>1, NotYetQueued
  <2> QED BY <2>1, <2>2, RoomForOne
<1>3. IInv /\ RQHasRoom /\ RoomInv /\ NoLeak /\ [Next]_vars => NoLeak'
  BY <1>2, NoLeakStep
<1> QED BY <1>1, <1>3, Invariant, RecvNeverDrops, RoomInvariant, PTL DEF Spec

(* Nor is any reply or any packet of the monitor dropped, under the same   *)
(* conditions (monitor_host.c:107, PacketSendThread.c:108).                *)
THEOREM NothingIsDropped == Modest => (Spec => NothingDropped)
<1> SUFFICES ASSUME Modest PROVE Spec => NothingDropped
  OBVIOUS
<1>1. ASSUME IInv, RoomInv,
             Recv_Get \/ Recv_DloopSend \/ Monitor_Up \/ (Monitor_ADreq /\ ~Sent_ADreq)
      PROVE  Len(SQ') = Len(SQ) + 1
  <2> USE <1>1 DEF IInv, RoomInv
  <2>1. CASE Recv_Get
    <3>1. rt = "SWITCH" /\ PacketSend_pakt("GET", Dptr, Dptr)
      BY <2>1 DEF Recv_Get
    <3>2. Dptr \in Bufs /\ ~Queued(Dptr)
      BY <3>1, NotYetQueued
    <3> QED BY <3>1, <3>2, Accepted
  <2>2. CASE Recv_DloopSend
    BY <2>2 DEF Recv_DloopSend, NoLoops
  <2>3. CASE Monitor_Up
    <3>1. PacketSend_pakt("IMUP", sendBuf1, Null) /\ ~Queued(sendBuf1)
      BY <2>3, Zenon DEF Monitor_Up, OneImup
    <3> QED BY <3>1, Accepted
  <2>4. CASE Monitor_ADreq /\ ~Sent_ADreq
    <3>1. PacketSend_pakt("ADCONFIG", sendBuf2, Null) /\ ~Queued(sendBuf2)
      BY <2>4 DEF Monitor_ADreq, EachOnce
    <3> QED BY <3>1, Accepted
  <2> QED BY <1>1, <2>1, <2>2, <2>3, <2>4
<1>2. IInv /\ RoomInv /\ [Next]_vars =>
        [ Recv_Get \/ Recv_DloopSend \/ Monitor_Up \/ (Monitor_ADreq /\ ~Sent_ADreq)
            => Len(SQ') = Len(SQ) + 1 ]_vars
  BY <1>1
<1> QED BY <1>2, Invariant, RoomInvariant, PTL DEF Spec, NothingDropped

-----------------------------------------------------------------------------
(* Counting in queues.  Hits are the places of a queue whose entry is in   *)
(* G; they are finite, and a queue that grows or shrinks by one entry      *)
(* gains or loses one of them at most.                                     *)
Hits(q, G) == {i \in DOMAIN q : q[i] \in G}

LEMMA HitsFinite ==
  ASSUME NEW S, NEW q \in Seq(S), NEW G
  PROVE  IsFiniteSet(Hits(q, G)) /\ Cardinality(Hits(q, G)) \in Nat
<1>1. Len(q) \in Nat /\ DOMAIN q = 1 .. Len(q)
  OBVIOUS
<1>2. IsFiniteSet(1 .. Len(q))
  BY <1>1, FS_Interval
<1>3. Hits(q, G) \subseteq 1 .. Len(q)
  BY <1>1 DEF Hits
<1>4. IsFiniteSet(Hits(q, G))
  BY <1>2, <1>3, FS_Subset
<1> QED BY <1>4, FS_CardinalityType

LEMMA HitsAppend ==
  ASSUME NEW S, NEW q \in Seq(S), NEW G, NEW x \in S
  PROVE  Cardinality(Hits(Append(q, x), G)) =
           Cardinality(Hits(q, G)) + (IF x \in G THEN 1 ELSE 0)
<1>1. /\ Len(q) \in Nat /\ DOMAIN q = 1 .. Len(q)
      /\ DOMAIN Append(q, x) = 1 .. Len(q) + 1
      /\ \A i \in 1 .. Len(q) : Append(q, x)[i] = q[i]
      /\ Append(q, x)[Len(q) + 1] = x
  OBVIOUS
<1> DEFINE H == Hits(q, G)
           n == Len(q) + 1
<1>2. n \notin H
  BY <1>1 DEF Hits
<1>3. CASE x \in G
  <2>1. Hits(Append(q, x), G) = H \union {n}
    BY <1>1, <1>3 DEF Hits
  <2> QED BY <1>2, <1>3, <2>1, HitsFinite, FS_AddElement
<1>4. CASE x \notin G
  <2>1. Hits(Append(q, x), G) = H
    BY <1>1, <1>4 DEF Hits
  <2> QED BY <1>4, <2>1, HitsFinite
<1> QED BY <1>3, <1>4

LEMMA HitsTail ==
  ASSUME NEW S, NEW q \in Seq(S), NEW G, q # <<>>
  PROVE  Cardinality(Hits(q, G)) =
           Cardinality(Hits(Tail(q), G)) + (IF Head(q) \in G THEN 1 ELSE 0)
<1>1. /\ Len(q) \in Nat \ {0} /\ DOMAIN q = 1 .. Len(q) /\ Head(q) = q[1]
      /\ Tail(q) \in Seq(S) /\ DOMAIN Tail(q) = 1 .. Len(q) - 1
      /\ \A i \in 1 .. Len(q) - 1 : Tail(q)[i] = q[i + 1]
  OBVIOUS
<1> DEFINE H == Hits(q, G)
           T == Hits(Tail(q), G)
           R == H \ {1}
           f == [i \in T |-> i + 1]
<1>2. IsFiniteSet(T) /\ IsFiniteSet(H)
  BY <1>1, HitsFinite
<1>3. \A i \in T : i \in Nat /\ i + 1 \in R
  BY <1>1 DEF Hits
<1>4. \A k \in R : k - 1 \in T /\ k - 1 + 1 = k
  BY <1>1 DEF Hits
<1>5. f \in Bijection(T, R)
  <2> HIDE DEF T, R
  <2>1. f \in [T -> R]
    BY <1>3
  <2>2. \A i, k \in T : f[i] = f[k] => i = k
    BY <1>3
  <2>3. \A k \in R : \E i \in T : f[i] = k
    BY <1>4
  <2> QED BY <2>1, <2>2, <2>3 DEF Bijection, Injection, Surjection, IsInjective
<1>6. ExistsBijection(T, R)
  BY <1>5 DEF ExistsBijection
<1>7. Cardinality(R) = Cardinality(T) /\ IsFiniteSet(R)
  BY <1>2, <1>6, FS_Bijection
<1>8. 1 \in H <=> Head(q) \in G
  BY <1>1 DEF Hits
<1>9. Cardinality(R) = IF 1 \in H THEN Cardinality(H) - 1 ELSE Cardinality(H)
  BY <1>2, FS_RemoveElement
<1>10. Cardinality(H) \in Nat
  BY <1>2, FS_CardinalityType
<1> QED BY <1>7, <1>8, <1>9, <1>10

(* What the host still waits for, counted in the two queues.               *)
AskedBufs   == {b \in Bufs : mem[b].cmd \in Answered}
AnswerItems == {it \in SendItems : it.said.cmd \in Answered}

LEMMA CountedAsks ==
  ASSUME NEW q \in Seq(Bufs), NEW m
  PROVE  {i \in DOMAIN q : m[q[i]].cmd \in Answered} =
           Hits(q, {b \in Bufs : m[b].cmd \in Answered})
<1>1. \A i \in DOMAIN q : q[i] \in Bufs
  OBVIOUS
<1> QED BY <1>1 DEF Hits

LEMMA CountedReplies ==
  ASSUME NEW q \in Seq(SendItems)
  PROVE  {i \in DOMAIN q : q[i].said.cmd \in Answered} = Hits(q, AnswerItems)
<1>1. \A i \in DOMAIN q : q[i] \in SendItems
  OBVIOUS
<1> QED BY <1>1 DEF Hits, AnswerItems

LEMMA Counts ==
  ASSUME TypeOK
  PROVE  /\ Cardinality(Asks) \in Nat /\ Cardinality(Replies) \in Nat
         /\ IsFiniteSet(Asks) /\ IsFiniteSet(Replies)
<1>1. RQ \in Seq(Bufs) /\ SQ \in Seq(SendItems)
  BY DEF TypeOK
<1>2. Asks = Hits(RQ, AskedBufs)
  BY <1>1, CountedAsks DEF Asks, AskedBufs
<1>3. Replies = Hits(SQ, AnswerItems)
  BY <1>1, CountedReplies DEF Replies
<1> QED BY <1>1, <1>2, <1>3, HitsFinite

(* Requests are counted as they enter and leave the receive queue.         *)
LEMMA AsksGrow ==
  ASSUME TypeOK, NEW b \in Bufs, RQ' = Append(RQ, b), mem' = mem
  PROVE  Cardinality(Asks') = Cardinality(Asks) + One(mem[b].cmd \in Answered)
<1>1. RQ \in Seq(Bufs) /\ RQ' \in Seq(Bufs)
  BY DEF TypeOK
<1>2. Asks = Hits(RQ, AskedBufs) /\ Asks' = Hits(RQ', AskedBufs)
  <2>1. Asks = Hits(RQ, AskedBufs)
    BY <1>1, CountedAsks DEF Asks, AskedBufs
  <2>2. Asks' = {i \in DOMAIN RQ' : mem[RQ'[i]].cmd \in Answered}
    BY Zenon DEF Asks
  <2>3. {i \in DOMAIN RQ' : mem[RQ'[i]].cmd \in Answered} = Hits(RQ', AskedBufs)
    BY <1>1, CountedAsks DEF AskedBufs
  <2> QED BY <2>1, <2>2, <2>3
<1>3. b \in AskedBufs <=> mem[b].cmd \in Answered
  BY DEF AskedBufs
<1>4. Cardinality(Hits(RQ', AskedBufs)) =
        Cardinality(Hits(RQ, AskedBufs)) + (IF b \in AskedBufs THEN 1 ELSE 0)
  BY <1>1, HitsAppend
<1> QED BY <1>2, <1>3, <1>4 DEF One

LEMMA AsksShrink ==
  ASSUME TypeOK, RQ # <<>>, RQ' = Tail(RQ), mem' = mem
  PROVE  /\ Cardinality(Asks') \in Nat
         /\ Cardinality(Asks) =
              Cardinality(Asks') + One(mem[Head(RQ)].cmd \in Answered)
<1>1. RQ \in Seq(Bufs) /\ RQ' \in Seq(Bufs) /\ Head(RQ) \in Bufs
  BY DEF TypeOK
<1>2. Asks = Hits(RQ, AskedBufs) /\ Asks' = Hits(RQ', AskedBufs)
  <2>1. Asks = Hits(RQ, AskedBufs)
    BY <1>1, CountedAsks DEF Asks, AskedBufs
  <2>2. Asks' = {i \in DOMAIN RQ' : mem[RQ'[i]].cmd \in Answered}
    BY Zenon DEF Asks
  <2>3. {i \in DOMAIN RQ' : mem[RQ'[i]].cmd \in Answered} = Hits(RQ', AskedBufs)
    BY <1>1, CountedAsks DEF AskedBufs
  <2> QED BY <2>1, <2>2, <2>3
<1>3. Head(RQ) \in AskedBufs <=> mem[Head(RQ)].cmd \in Answered
  BY <1>1 DEF AskedBufs
<1>4. Cardinality(Hits(RQ, AskedBufs)) =
        Cardinality(Hits(RQ', AskedBufs)) + (IF Head(RQ) \in AskedBufs THEN 1 ELSE 0)
  BY <1>1, HitsTail
<1>5. Cardinality(Hits(RQ', AskedBufs)) \in Nat
  BY <1>1, HitsFinite
<1> QED BY <1>2, <1>3, <1>4, <1>5 DEF One

LEMMA AsksStay ==
  ASSUME TypeOK, RQ' = RQ,
         \A i \in 1 .. Len(RQ) : mem'[RQ[i]].cmd = mem[RQ[i]].cmd
  PROVE  Asks' = Asks
<1>1. DOMAIN RQ = 1 .. Len(RQ)
  BY DEF TypeOK
<1>2. \A i \in DOMAIN RQ : mem'[RQ[i]].cmd = mem[RQ[i]].cmd
  BY <1>1
<1> QED BY <1>2 DEF Asks

(* Replies are counted as they enter and leave the send queue.             *)
LEMMA RepliesGrow ==
  ASSUME TypeOK, TypeOK', NEW cmd, NEW a, NEW ret, PacketSend_pakt(cmd, a, ret)
  PROVE  \/ Cardinality(Replies') = Cardinality(Replies)
         \/ cmd \in Answered /\ Cardinality(Replies') = Cardinality(Replies) + 1
<1> DEFINE it == [F1 |-> a, F2 |-> ret,
                  said |-> [cmd |-> cmd, data |-> mem[a].data]]
<1>1. it.said.cmd = cmd
  OBVIOUS
<1>2. \/ SQ' = SQ
      \/ SQ' = Append(SQ, it) /\ SQ'[Len(SQ) + 1] = it /\ Len(SQ') = Len(SQ) + 1
  BY QueuedOrTossed, Zenon
<1> HIDE DEF it
<1>3. SQ \in Seq(SendItems) /\ SQ' \in Seq(SendItems) /\ Len(SQ) \in Nat
  BY DEF TypeOK
<1>4. Replies = Hits(SQ, AnswerItems) /\ Replies' = Hits(SQ', AnswerItems)
  BY <1>3, CountedReplies DEF Replies
<1>5. CASE SQ' = SQ
  BY <1>4, <1>5
<1>6. CASE /\ SQ' = Append(SQ, it) /\ SQ'[Len(SQ) + 1] = it
           /\ Len(SQ') = Len(SQ) + 1
  <2>1. it \in SendItems
    BY <1>3, <1>6
  <2>2. it \in AnswerItems <=> cmd \in Answered
    BY <1>1, <2>1 DEF AnswerItems
  <2>3. Cardinality(Hits(SQ', AnswerItems)) =
          Cardinality(Hits(SQ, AnswerItems)) + (IF it \in AnswerItems THEN 1 ELSE 0)
    BY <1>3, <1>6, <2>1, HitsAppend
  <2>4. Cardinality(Hits(SQ, AnswerItems)) \in Nat
    BY <1>3, HitsFinite
  <2> QED BY <1>4, <2>2, <2>3, <2>4
<1> QED BY <1>2, <1>5, <1>6

LEMMA RepliesShrink ==
  ASSUME TypeOK, SQ # <<>>, SQ' = Tail(SQ)
  PROVE  /\ Cardinality(Replies') \in Nat
         /\ Cardinality(Replies) =
              Cardinality(Replies') + One(Head(SQ).said.cmd \in Answered)
<1>1. SQ \in Seq(SendItems) /\ SQ' \in Seq(SendItems) /\ Head(SQ) \in SendItems
  BY DEF TypeOK
<1>2. Replies = Hits(SQ, AnswerItems) /\ Replies' = Hits(SQ', AnswerItems)
  BY <1>1, CountedReplies DEF Replies
<1>3. Head(SQ) \in AnswerItems <=> Head(SQ).said.cmd \in Answered
  BY <1>1 DEF AnswerItems
<1>4. Cardinality(Hits(SQ, AnswerItems)) =
        Cardinality(Hits(SQ', AnswerItems)) + (IF Head(SQ) \in AnswerItems THEN 1 ELSE 0)
  BY <1>1, HitsTail
<1>5. Cardinality(Hits(SQ', AnswerItems)) \in Nat
  BY <1>1, HitsFinite
<1> QED BY <1>2, <1>3, <1>4, <1>5 DEF One

-----------------------------------------------------------------------------
(* A step that brings nothing to count keeps the count.                    *)
LEMMA NoMore ==
  ASSUME TypeOK, TypeOK', WindowKept,
         Cardinality(Asks') = Cardinality(Asks),
         Cardinality(Replies') = Cardinality(Replies),
         InWork' => InWork, OnTheWire' => OnTheWire, Stored' => Stored
  PROVE  Unanswered' + One(Stored') <= Window
<1>1. Cardinality(Asks) \in Nat /\ Cardinality(Replies) \in Nat
  BY Counts
<1> QED BY <1>1, HostAssumption DEF WindowKept, Unanswered, One

(* What the steps can do to what is counted.                               *)
Quiet ==
  /\ UNCHANGED <<mem, RQ, SQ, QD>>
  /\ InWork' => InWork
  /\ Sending' => Sending
  /\ TCIF5' = 0 \/ UNCHANGED <<TCIF5, bufbase>>
  /\ TCIF5' = 1 => rdrv' = "WAITCOMPLETE" /\ idle' # "RECV_QSENT"
  /\ rt' = "DLOOP_SEND" => rt = "DLOOP_SEND" /\ Dptr' = Dptr
LEMMA QuietSteps ==
  ASSUME IInv, WindowKept, [Next]_vars
  PROVE  \/ Quiet
         \/ RecvDriver_Good \/ Cmds_SendADConfig \/ Monitor_Up
         \/ (Monitor_ADreq /\ ~Sent_ADreq)
         \/ Recv_Receive \/ Recv_DloopCopy \/ Recv_DloopSend \/ Recv_Get
         \/ Send_Receive \/ \E f \in Requests : RxDma(f)
<1>0. /\ TCIF5 \in {0, 1} /\ rt \in {"RECEIVE", "SWITCH", "DLOOP_SEND", "RETURN"}
      /\ TCIF5 = 1 => rdrv = "WAITCOMPLETE" /\ idle # "RECV_QSENT"
  BY DEF IInv, TypeOK, WindowKept
<1>1. CASE \/ RecvDriver_GetBuffer \/ RecvDriver_Bad \/ RecvDriver_Rearm
           \/ Cmds_Nothing \/ SendDriver_Wait \/ SendDriver_Start
           \/ SendDriver_Complete \/ RecvDriver_Wait \/ RecvDriver_Header
           \/ Monitor_Skip \/ Monitor_Pin \/ (Monitor_ADreq /\ Sent_ADreq)
  <2>1. UNCHANGED <<mem, RQ, SQ, QD, rt, Dptr>> /\ (Sending' => Sending)
    BY <1>1 DEF RecvDriver_GetBuffer, RecvDriver_Bad, RecvDriver_Rearm, Cmds_Nothing,
       SendDriver_Wait, SendDriver_Start, SendDriver_Complete, RecvDriver_Wait,
       RecvDriver_Header, Monitor_Skip, Monitor_Pin, Monitor_Sampling, Monitor_ADreq,
       Sending
  <2>2. /\ TCIF5' = 0 \/ UNCHANGED <<TCIF5, bufbase>>
        /\ TCIF5' = 1 => rdrv' = "WAITCOMPLETE" /\ idle' # "RECV_QSENT"
    BY <1>0, <1>1 DEF RecvDriver_GetBuffer, RecvDriver_Bad, RecvDriver_Rearm,
       Cmds_Nothing, SendDriver_Wait, SendDriver_Start, SendDriver_Complete,
       RecvDriver_Wait, RecvDriver_Header, Monitor_Skip, Monitor_Pin, Monitor_Sampling,
       Monitor_ADreq, IdleRuns
  <2>3. InWork' <=> InWork
    BY <2>1, Zenon DEF InWork
  <2> QED BY <2>1, <2>2, <2>3 DEF Quiet
<1>2. CASE \/ Recv_Imup \/ Recv_Local \/ Recv_Return \/ PacketSendDriver_Go
           \/ Send_Take \/ TxDma \/ HostPin \/ UNCHANGED vars
  <2>1. UNCHANGED <<mem, RQ, SQ, QD, Dptr>> /\ (Sending' => Sending)
    BY <1>2 DEF Recv_Imup, Recv_Local, Recv_Return, PacketSendDriver_Go, Send_Take,
       TxDma, HostPin, Sending
  <2>2. UNCHANGED <<TCIF5, bufbase, rdrv, idle>> /\ rt' \in {rt, "RETURN", "RECEIVE"}
    BY <1>2 DEF Recv_Imup, Recv_Local, Recv_Return, PacketSendDriver_Go, Send_Take,
       TxDma, HostPin
  <2>3. InWork' => InWork
    BY <2>1, <2>2 DEF InWork
  <2> QED BY <1>0, <2>1, <2>2, <2>3 DEF Quiet
<1> QED
  BY <1>1, <1>2 DEF Next, Idle, RecvThread, SendThread, Environment


(* The count is kept: a request moves from the DMA through queue and       *)
(* thread to a reply, in queue or under way, and none of these places      *)
(* gains what another has not lost.                                        *)
LEMMA WindowStep ==
  ASSUME IInv, IInv', WindowKept, [Next]_vars
  PROVE  WindowKept'
<1>a. TypeOK /\ TypeOK'
  BY DEF IInv
<1>b. /\ Cardinality(Asks) \in Nat /\ Cardinality(Replies) \in Nat
      /\ Unanswered + One(Stored) <= Window /\ Window \in Nat
      /\ TCIF5 = 1 => rdrv = "WAITCOMPLETE" /\ idle # "RECV_QSENT"
      /\ rt = "DLOOP_SEND" => mem[Dptr].cmd = "DLOOP"
  BY <1>a, Counts, HostAssumption DEF WindowKept
<1>c. Bufs \subseteq Addrs /\ DloopBuf \notin Bufs /\ RQ \in Seq(Bufs)
  BY <1>a, Static DEF TypeOK
<1>d. \A i \in 1 .. Len(RQ) : RQ[i] \in Bufs
  BY <1>c
<1>1. CASE Quiet
  <2>1. /\ UNCHANGED <<mem, RQ, SQ, QD>> /\ (InWork' => InWork) /\ (Sending' => Sending)
        /\ TCIF5' = 1 => rdrv' = "WAITCOMPLETE" /\ idle' # "RECV_QSENT"
        /\ rt' = "DLOOP_SEND" => rt = "DLOOP_SEND" /\ Dptr' = Dptr
    BY <1>1 DEF Quiet
  <2>2. Stored' => Stored
    BY <1>1 DEF Quiet, Stored
  <2>3. OnTheWire' => OnTheWire
    BY <2>1 DEF OnTheWire
  <2>4. Asks' = Asks /\ Replies' = Replies
    BY <2>1 DEF Asks, Replies
  <2>5. Unanswered' + One(Stored') <= Window
    BY <1>a, <2>1, <2>2, <2>3, <2>4, NoMore
  <2>6. rt' = "DLOOP_SEND" => mem'[Dptr'].cmd = "DLOOP"
    BY <1>b, <2>1
  <2> QED BY <2>1, <2>5, <2>6 DEF WindowKept
<1>2. CASE RecvDriver_Good
  <2>1. /\ UNCHANGED <<mem, SQ, QD, rt, Dptr>> /\ (Sending' <=> Sending)
        /\ TCIF5 = 1 /\ TCIF5' = 0 /\ bufbase \in Bufs
        /\ RQ' = RQ \/ RQ' = Append(RQ, bufbase)
    BY <1>2, <1>a DEF RecvDriver_Good, TypeOK, Sending
  <2>2. ~Stored' /\ (Stored <=> mem[bufbase].cmd \in Answered)
    BY <2>1 DEF Stored
  <2>3. (InWork' <=> InWork) /\ (OnTheWire' <=> OnTheWire)
    BY <2>1 DEF InWork, OnTheWire
  <2>4. Replies' = Replies
    BY <2>1 DEF Replies
  <2>5. \/ Cardinality(Asks') = Cardinality(Asks)
        \/ Cardinality(Asks') = Cardinality(Asks) + One(Stored)
    <3>1. CASE RQ' = RQ
      BY <2>1, <3>1 DEF Asks
    <3>2. CASE RQ' = Append(RQ, bufbase)
      BY <1>a, <2>1, <2>2, <3>2, AsksGrow DEF One
    <3> QED BY <2>1, <3>1, <3>2
  <2>6. Unanswered' + One(Stored') <= Window
    BY <1>b, <2>2, <2>3, <2>4, <2>5 DEF Unanswered, One
  <2> QED BY <1>b, <2>1, <2>6 DEF WindowKept
<1>3. CASE Cmds_SendADConfig \/ Monitor_Up \/ (Monitor_ADreq /\ ~Sent_ADreq)
  <2>1. PICK cmd \in {"IMUP", "ADCONFIG"}, a \in {sendBuf1, sendBuf2, dbgbuffer} :
          PacketSend_pakt(cmd, a, Null)
    BY <1>3 DEF Cmds_SendADConfig, Monitor_Up, Monitor_ADreq
  <2>2. /\ UNCHANGED <<RQ, QD, rt, Dptr, TCIF5, bufbase, rdrv>> /\ (Sending' <=> Sending)
        /\ idle' # "RECV_QSENT"
    BY <1>3 DEF Cmds_SendADConfig, Monitor_Up, Monitor_ADreq, Sending
  <2>3. a \notin Bufs
    BY <2>1, PoolAssumption DEF sendBuf1, sendBuf2, dbgbuffer, Bufs
  <2>4. \A b \in Bufs : mem'[b].cmd = mem[b].cmd
    BY <1>a, <2>1, <2>3, PaktKeeps
  <2>5. Cardinality(Replies') = Cardinality(Replies)
    BY <1>a, <2>1, RepliesGrow DEF Answered
  <2>6. Asks' = Asks
    BY <1>a, <1>d, <2>2, <2>4, AsksStay
  <2>7. (InWork' <=> InWork) /\ (OnTheWire' <=> OnTheWire) /\ (Stored' => Stored)
    <3>1. rt # "RECEIVE" => Dptr \in Bufs
      BY <1>a DEF TypeOK
    <3>2. TCIF5 = 1 => bufbase \in Bufs
      BY <1>a, <1>b DEF TypeOK
    <3> QED BY <2>2, <2>4, <3>1, <3>2 DEF InWork, OnTheWire, Stored
  <2>8. Unanswered' + One(Stored') <= Window
    BY <1>a, <2>5, <2>6, <2>7, NoMore
  <2>9. rt' = "DLOOP_SEND" => mem'[Dptr'].cmd = "DLOOP"
    BY <1>a, <1>b, <2>2, <2>4 DEF TypeOK
  <2> QED BY <1>b, <2>2, <2>8, <2>9 DEF WindowKept
<1>4. CASE Recv_Receive
  <2>1. /\ UNCHANGED <<mem, SQ, QD, TCIF5, bufbase, rdrv, idle>> /\ (Sending' <=> Sending)
        /\ rt = "RECEIVE" /\ rt' = "SWITCH" /\ RQ # <<>>
        /\ Dptr' = Head(RQ) /\ RQ' = Tail(RQ)
    BY <1>4 DEF Recv_Receive, Sending
  <2>2. Cardinality(Asks) = Cardinality(Asks') + One(mem[Head(RQ)].cmd \in Answered)
    BY <1>a, <2>1, AsksShrink
  <2>3. Cardinality(Asks') \in Nat
    BY <1>a, <2>1, AsksShrink
  <2>4. ~InWork /\ (InWork' <=> mem[Head(RQ)].cmd \in Answered)
    BY <2>1 DEF InWork
  <2>5. (OnTheWire' <=> OnTheWire) /\ (Stored' <=> Stored) /\ Replies' = Replies
    BY <2>1 DEF OnTheWire, Stored, Replies
  <2>6. Cardinality(Asks) = Cardinality(Asks') + One(InWork')
    BY <2>2, <2>4 DEF One
  <2>7. /\ One(InWork) = 0 /\ One(OnTheWire') = One(OnTheWire) /\ One(Stored') = One(Stored)
        /\ One(InWork') \in Nat /\ One(OnTheWire) \in Nat /\ One(Stored) \in Nat
    BY <2>4, <2>5 DEF One
  <2>8. Unanswered' + One(Stored') <= Window
    <3> HIDE DEF One
    <3> QED BY <1>b, <2>3, <2>5, <2>6, <2>7 DEF Unanswered
  <2> QED BY <1>b, <2>1, <2>8 DEF WindowKept
<1>5. CASE Recv_DloopCopy
  <2>1. /\ UNCHANGED <<RQ, SQ, QD, Dptr, TCIF5, bufbase, rdrv, idle>>
        /\ (Sending' <=> Sending)
        /\ rt = "SWITCH" /\ rt' = "DLOOP_SEND" /\ mem[Dptr].cmd = "DLOOP"
        /\ mem' = [mem EXCEPT ![DloopBuf] = [cmd |-> @.cmd, data |-> mem[Dptr].data]]
    BY <1>5 DEF Recv_DloopCopy, Sending
  <2>2. Dptr \in Bufs /\ (TCIF5 = 1 => bufbase \in Bufs)
    BY <1>a, <1>b, <2>1 DEF TypeOK
  <2>3. \A b \in Bufs : mem'[b].cmd = mem[b].cmd
    BY <1>a, <1>c, <2>1 DEF TypeOK
  <2>4. Asks' = Asks
    BY <1>a, <1>d, <2>1, <2>3, AsksStay
  <2>5. InWork
    BY <2>1 DEF InWork, Answered
  <2>6. Replies' = Replies /\ (OnTheWire' <=> OnTheWire) /\ (Stored' => Stored)
    BY <2>1, <2>2, <2>3 DEF Replies, OnTheWire, Stored
  <2>7. Unanswered' + One(Stored') <= Window
    BY <1>a, <2>4, <2>5, <2>6, NoMore
  <2> QED BY <1>b, <2>1, <2>2, <2>3, <2>7 DEF WindowKept
<1>6. CASE Recv_DloopSend \/ Recv_Get
  <2>1. PICK cmd \in {"DLOOP", "GET"}, a \in {DloopBuf, Dptr}, ret \in {Null, Dptr} :
          PacketSend_pakt(cmd, a, ret) /\ (a = DloopBuf \/ mem[Dptr].cmd = cmd)
    BY <1>6 DEF Recv_DloopSend, Recv_Get
  <2>2. /\ UNCHANGED <<RQ, QD, Dptr, TCIF5, bufbase, rdrv, idle>>
        /\ (Sending' <=> Sending) /\ rt \in {"SWITCH", "DLOOP_SEND"}
        /\ rt' \in {"RETURN", "RECEIVE"}
        /\ mem[Dptr].cmd \in Answered
    BY <1>6, <1>b DEF Recv_DloopSend, Recv_Get, Sending, Answered
  <2>3. Dptr \in Bufs /\ (TCIF5 = 1 => bufbase \in Bufs)
    BY <1>a, <1>b, <2>2 DEF TypeOK
  <2>4. \A b \in Bufs : mem'[b].cmd = mem[b].cmd
    BY <1>a, <1>c, <2>1, PaktKeeps
  <2>5. Asks' = Asks
    BY <1>a, <1>d, <2>2, <2>4, AsksStay
  <2>6. \/ Cardinality(Replies') = Cardinality(Replies)
        \/ Cardinality(Replies') = Cardinality(Replies) + 1
    BY <1>a, <2>1, RepliesGrow
  <2>7. InWork /\ ~InWork'
    BY <2>2 DEF InWork
  <2>8. (OnTheWire' <=> OnTheWire) /\ (Stored' <=> Stored)
    BY <2>2, <2>3, <2>4 DEF OnTheWire, Stored
  <2>9. /\ One(InWork) = 1 /\ One(InWork') = 0 /\ One(OnTheWire') = One(OnTheWire)
        /\ One(Stored') = One(Stored)
        /\ One(OnTheWire) \in Nat /\ One(Stored) \in Nat
    BY <2>7, <2>8 DEF One
  <2>10. Unanswered' + One(Stored') <= Window
    <3> HIDE DEF One
    <3> QED BY <1>b, <2>5, <2>6, <2>9 DEF Unanswered
  <2> QED BY <1>b, <2>2, <2>10 DEF WindowKept
<1>7. CASE Send_Receive
  <2>1. /\ UNCHANGED <<mem, RQ, rt, Dptr, TCIF5, bufbase, rdrv, idle>>
        /\ st = "RECEIVE" /\ st' = "GO" /\ UNCHANGED <<PacketDone, TCIF6>> /\ SQ # <<>>
        /\ QD' = Head(SQ) /\ SQ' = Tail(SQ)
    BY <1>7 DEF Send_Receive
  <2>2. Cardinality(Replies) =
          Cardinality(Replies') + One(Head(SQ).said.cmd \in Answered)
    BY <1>a, <2>1, RepliesShrink
  <2>3. Cardinality(Replies') \in Nat
    BY <1>a, <2>1, RepliesShrink
  <2>4. ~OnTheWire /\ (OnTheWire' => Head(SQ).said.cmd \in Answered)
    BY <2>1 DEF OnTheWire, Sending
  <2>5. (InWork' <=> InWork) /\ (Stored' <=> Stored) /\ Asks' = Asks
    BY <2>1 DEF InWork, Stored, Asks
  <2>6. Cardinality(Replies) >= Cardinality(Replies') + One(OnTheWire')
    BY <2>2, <2>3, <2>4 DEF One
  <2>7. /\ One(OnTheWire) = 0 /\ One(InWork') = One(InWork) /\ One(Stored') = One(Stored)
        /\ One(OnTheWire') \in Nat /\ One(InWork) \in Nat /\ One(Stored) \in Nat
    BY <2>4, <2>5 DEF One
  <2>8. Unanswered' + One(Stored') <= Window
    <3> HIDE DEF One
    <3> QED BY <1>b, <2>3, <2>5, <2>6, <2>7 DEF Unanswered
  <2> QED BY <1>b, <2>1, <2>8 DEF WindowKept
<1>8. ASSUME NEW f \in Requests, RxDma(f) PROVE WindowKept'
  <2>1. /\ rdrv = "WAITCOMPLETE" /\ TCIF5 = 0 /\ idle # "RECV_QSENT"
        /\ f.cmd \in Answered => Unanswered < Window
        /\ mem' = [mem EXCEPT ![bufbase] = f] /\ TCIF5' = 1
        /\ UNCHANGED <<RQ, SQ, QD, rt, Dptr, bufbase, rdrv, idle>>
        /\ (Sending' <=> Sending)
    BY <1>8 DEF RxDma, Sending
  <2>2. bufbase \in Bufs /\ InRecv(bufbase)
    BY <1>a, <2>1 DEF TypeOK, InRecv
  <2>3. mem'[bufbase] = f /\ \A b \in Bufs : b # bufbase => mem'[b] = mem[b]
    BY <1>a, <1>c, <2>1, <2>2 DEF TypeOK
  <2>4. \A i \in 1 .. Len(RQ) : RQ[i] # bufbase
    BY <2>2 DEF IInv, OnePlace, Apart, InRQ
  <2>5. rt # "RECEIVE" => Dptr \in Bufs /\ Dptr # bufbase
    BY <1>a, <2>2 DEF IInv, OnePlace, Apart, InThread, TypeOK
  <2>6. Asks' = Asks
    BY <1>a, <1>d, <2>1, <2>3, <2>4, AsksStay
  <2>7. (InWork' <=> InWork) /\ (OnTheWire' <=> OnTheWire) /\ Replies' = Replies
    BY <2>1, <2>3, <2>5 DEF InWork, OnTheWire, Replies
  <2>8. Unanswered' = Unanswered /\ Unanswered \in Nat
    BY <1>b, <2>6, <2>7 DEF Unanswered, One
  <2>9. ~Stored /\ (Stored' <=> f.cmd \in Answered)
    BY <2>1, <2>3 DEF Stored
  <2>10. Unanswered' + One(Stored') <= Window
    BY <1>b, <2>1, <2>8, <2>9 DEF One
  <2>11. rt' = "DLOOP_SEND" => mem'[Dptr'].cmd = "DLOOP"
    BY <1>b, <2>1, <2>3, <2>5
  <2> QED BY <2>1, <2>10, <2>11 DEF WindowKept
<1> QED BY <1>1, <1>2, <1>3, <1>4, <1>5, <1>6, <1>7, <1>8, QuietSteps

LEMMA WindowInvariant == Spec => []WindowKept
<1>1. Init => WindowKept
  <2> SUFFICES ASSUME Init PROVE WindowKept
    OBVIOUS
  <2>1. /\ RQ = <<>> /\ SQ = <<>> /\ rt = "RECEIVE" /\ st = "RECEIVE" /\ TCIF5 = 0
    BY DEF Init
  <2>2. Asks = {} /\ Replies = {}
    BY <2>1 DEF Asks, Replies
  <2>3. Cardinality(Asks) = 0 /\ Cardinality(Replies) = 0
    BY <2>2, FS_EmptySet
  <2>4. ~InWork /\ ~OnTheWire /\ ~Stored
    BY <2>1 DEF InWork, OnTheWire, Sending, Stored
  <2> QED BY <2>1, <2>3, <2>4, HostAssumption DEF WindowKept, Unanswered, One
<1>2. IInv /\ IInv' /\ WindowKept /\ [Next]_vars => WindowKept'
  BY WindowStep
<1> QED BY <1>1, <1>2, Invariant, PTL DEF Spec

-----------------------------------------------------------------------------
(* Every packet in DloopBuf answers a loop-back.                           *)
LEMMA LoopRepliesStep ==
  ASSUME IInv, LoopReplies, [Next]_vars
  PROVE  LoopReplies'
<1>a. TypeOK /\ Len(SQ) \in Nat
  BY DEF IInv, TypeOK
<1>b. /\ dbgbuffer # DloopBuf /\ sendBuf1 # DloopBuf /\ sendBuf2 # DloopBuf
      /\ \A b \in Bufs : b # DloopBuf
  BY Static, PoolAssumption DEF dbgbuffer, DloopBuf
<1>1. CASE UNCHANGED <<SQ, QD>>
  BY <1>1 DEF LoopReplies
<1>2. CASE \/ Cmds_SendADConfig \/ Monitor_Up \/ (Monitor_ADreq /\ ~Sent_ADreq)
           \/ Recv_DloopSend \/ Recv_Get
  <2>1. \E cmd, a, ret : PacketSend_pakt(cmd, a, ret) /\ (a = DloopBuf => cmd = "DLOOP")
    BY <1>2, <1>a, <1>b DEF Cmds_SendADConfig, Monitor_Up, Monitor_ADreq, Recv_DloopSend,
       Recv_Get, TypeOK
  <2>2. PICK cmd, a, ret : PacketSend_pakt(cmd, a, ret) /\ (a = DloopBuf => cmd = "DLOOP")
    BY <2>1
  <2>3. QD' = QD
    BY <1>2 DEF Cmds_SendADConfig, Monitor_Up, Monitor_ADreq, Recv_DloopSend, Recv_Get
  <2> DEFINE it == [F1 |-> a, F2 |-> ret,
                    said |-> [cmd |-> cmd, data |-> mem[a].data]]
  <2>4. it.F1 = a /\ it.said.cmd = cmd
    OBVIOUS
  <2>5. \/ SQ' = SQ
        \/ /\ Len(SQ') = Len(SQ) + 1 /\ SQ'[Len(SQ) + 1] = it
           /\ \A i \in 1 .. Len(SQ) : SQ'[i] = SQ[i]
    BY <1>a, <2>2, QueuedOrTossed, Zenon
  <2> HIDE DEF it
  <2> QED BY <1>a, <2>2, <2>3, <2>4, <2>5 DEF LoopReplies
<1>3. CASE Send_Receive
  <2>1. SQ # <<>> /\ SQ' = Tail(SQ) /\ QD' = Head(SQ) /\ SQ \in Seq(SendItems)
    BY <1>3, <1>a DEF Send_Receive, TypeOK
  <2>2. /\ Len(SQ) \in Nat \ {0} /\ Head(SQ) = SQ[1]
        /\ \A i \in 1 .. Len(SQ') : SQ'[i] = SQ[i + 1] /\ i + 1 \in 1 .. Len(SQ)
    BY <2>1, TailKeeps
  <2> QED BY <2>1, <2>2 DEF LoopReplies
<1>4. UNCHANGED <<SQ, QD>> \/ Send_Receive
        \/ Cmds_SendADConfig \/ Monitor_Up \/ (Monitor_ADreq /\ ~Sent_ADreq)
        \/ Recv_DloopSend \/ Recv_Get
  <2>1. CASE Idle \/ UNCHANGED vars
    BY <2>1 DEF Idle, Cmds_Nothing, SendDriver_Wait, SendDriver_Start, SendDriver_Complete,
       RecvDriver_Wait, RecvDriver_GetBuffer, RecvDriver_Header, RecvDriver_Good,
       RecvDriver_Rearm, RecvDriver_Bad, Monitor_Skip, Monitor_Pin, Monitor_ADreq
  <2>2. CASE RecvThread \/ SendThread \/ Environment
    BY <2>2 DEF RecvThread, SendThread, Environment, Recv_Receive, Recv_Imup, Recv_Local,
       Recv_DloopCopy, Recv_Return, PacketSendDriver_Go, Send_Take, RxDma, TxDma, HostPin
  <2> QED BY <2>1, <2>2 DEF Next
<1> QED BY <1>1, <1>2, <1>3, <1>4

(* With one answer due at most, a request in the thread's hands is the     *)
(* only thing that is counted.                                             *)
LEMMA OnlyOne ==
  ASSUME TypeOK, WindowKept, Window <= 1, LoopReplies
  PROVE  InWork => /\ \A i \in 1 .. Len(SQ) : SQ[i].F1 # DloopBuf
                   /\ ~(Sending /\ QD.F1 = DloopBuf)
<1> SUFFICES ASSUME InWork
             PROVE  /\ \A i \in 1 .. Len(SQ) : SQ[i].F1 # DloopBuf
                    /\ ~(Sending /\ QD.F1 = DloopBuf)
  OBVIOUS
<1>1. Cardinality(Asks) \in Nat /\ Cardinality(Replies) \in Nat /\ IsFiniteSet(Replies)
  BY Counts
<1>2. /\ Cardinality(Asks) + Cardinality(Replies) + One(InWork) + One(OnTheWire)
           + One(Stored) <= Window
      /\ Window \in Nat
  BY HostAssumption DEF WindowKept, Unanswered
<1>3. /\ One(InWork) \in Nat /\ One(OnTheWire) \in Nat /\ One(Stored) \in Nat
      /\ One(InWork) = 1
  BY DEF One
<1>4. Cardinality(Replies) = 0 /\ One(OnTheWire) = 0
  <2> DEFINE a == Cardinality(Asks)
             r == Cardinality(Replies)
             i == One(InWork)
             o == One(OnTheWire)
             s == One(Stored)
  <2>1. /\ a \in Nat /\ r \in Nat /\ i \in Nat /\ o \in Nat /\ s \in Nat
        /\ a + r + i + o + s <= Window /\ Window \in Nat /\ i = 1
    BY <1>1, <1>2, <1>3, Zenon
  <2> HIDE DEF a, r, i, o, s
  <2>2. r = 0 /\ o = 0
    BY <2>1
  <2> QED BY <2>2 DEF r, o
<1>5. Replies = {} /\ ~OnTheWire
  BY <1>1, <1>4, FS_EmptySet DEF One
<1>6. DOMAIN SQ = 1 .. Len(SQ)
  BY DEF TypeOK
<1> QED BY <1>5, <1>6 DEF Replies, OnTheWire, LoopReplies, Answered

(* Loop-back replies stay as they were queued.                             *)
LEMMA DloopStep ==
  ASSUME IInv, WindowKept, LoopReplies, Window <= 1, DloopIntact, [Next]_vars
  PROVE  DloopIntact'
<1>a. TypeOK /\ Len(SQ) \in Nat /\ DloopBuf \in Addrs /\ DloopBuf \notin Bufs
  BY Static DEF IInv, TypeOK
<1>b. dbgbuffer # DloopBuf /\ sendBuf1 # DloopBuf /\ sendBuf2 # DloopBuf
  BY PoolAssumption DEF dbgbuffer, DloopBuf, sendBuf1, sendBuf2
<1>c. DOMAIN mem = Addrs
  BY <1>a DEF TypeOK
<1>1. CASE UNCHANGED <<SQ, QD>> /\ (Sending' => Sending) /\ mem'[DloopBuf] = mem[DloopBuf]
  BY <1>1 DEF DloopIntact
<1>2. CASE \/ Cmds_SendADConfig \/ Monitor_Up \/ (Monitor_ADreq /\ ~Sent_ADreq)
           \/ Recv_Get
  <2>1. \E cmd, a, ret : PacketSend_pakt(cmd, a, ret) /\ a # DloopBuf
    BY <1>2, <1>a, <1>b DEF Cmds_SendADConfig, Monitor_Up, Monitor_ADreq, Recv_Get, TypeOK
  <2>2. PICK cmd, a, ret : PacketSend_pakt(cmd, a, ret) /\ a # DloopBuf
    BY <2>1
  <2>3. QD' = QD /\ (Sending' <=> Sending)
    BY <1>2 DEF Cmds_SendADConfig, Monitor_Up, Monitor_ADreq, Recv_Get, Sending
  <2> DEFINE it == [F1 |-> a, F2 |-> ret,
                    said |-> [cmd |-> cmd, data |-> mem[a].data]]
  <2>4. it.F1 # DloopBuf
    BY <2>2
  <2>5. \/ SQ' = SQ
        \/ /\ Len(SQ') = Len(SQ) + 1 /\ SQ'[Len(SQ) + 1] = it
           /\ \A i \in 1 .. Len(SQ) : SQ'[i] = SQ[i]
    BY <1>a, <2>2, QueuedOrTossed, Zenon
  <2>6. mem'[DloopBuf] = mem[DloopBuf]
    BY <1>a, <1>c, <2>2 DEF PacketSend_pakt
  <2> HIDE DEF it
  <2>7. \A i \in 1 .. Len(SQ') : SQ'[i].F1 = DloopBuf => i \in 1 .. Len(SQ) /\ SQ'[i] = SQ[i]
    BY <1>a, <2>4, <2>5
  <2> QED BY <2>3, <2>6, <2>7 DEF DloopIntact
<1>3. CASE Recv_DloopSend
  <2>1. /\ PacketSend_pakt("DLOOP", DloopBuf, Null) /\ QD' = QD /\ (Sending' <=> Sending)
        /\ rt = "DLOOP_SEND"
    BY <1>3 DEF Recv_DloopSend, Sending
  <2>2. InWork
    BY <2>1 DEF InWork, WindowKept, Answered
  <2>3. /\ \A i \in 1 .. Len(SQ) : SQ[i].F1 # DloopBuf
        /\ ~(Sending /\ QD.F1 = DloopBuf)
    BY <1>a, <2>2, OnlyOne
  <2> DEFINE it == [F1 |-> DloopBuf, F2 |-> Null,
                    said |-> [cmd |-> "DLOOP", data |-> mem[DloopBuf].data]]
  <2>4. mem'[DloopBuf] = it.said
    BY <1>a, <1>c, <2>1 DEF PacketSend_pakt
  <2>5. \/ SQ' = SQ
        \/ /\ Len(SQ') = Len(SQ) + 1 /\ SQ'[Len(SQ) + 1] = it
           /\ \A i \in 1 .. Len(SQ) : SQ'[i] = SQ[i]
    BY <1>a, <2>1, QueuedOrTossed, Zenon
  <2> HIDE DEF it
  <2>6. \A i \in 1 .. Len(SQ') : SQ'[i].F1 = DloopBuf => SQ'[i] = it
    BY <1>a, <2>3, <2>5
  <2> QED BY <2>1, <2>3, <2>4, <2>6 DEF DloopIntact
<1>4. CASE Recv_DloopCopy
  <2>1. /\ UNCHANGED <<SQ, QD>> /\ (Sending' <=> Sending)
        /\ rt = "SWITCH" /\ mem[Dptr].cmd = "DLOOP"
    BY <1>4 DEF Recv_DloopCopy, Sending
  <2>2. InWork
    BY <2>1 DEF InWork, Answered
  <2>3. /\ \A i \in 1 .. Len(SQ) : SQ[i].F1 # DloopBuf
        /\ ~(Sending /\ QD.F1 = DloopBuf)
    BY <1>a, <2>2, OnlyOne
  <2> QED BY <2>1, <2>3 DEF DloopIntact
<1>5. CASE Send_Receive
  <2>1. /\ SQ # <<>> /\ SQ' = Tail(SQ) /\ QD' = Head(SQ) /\ SQ \in Seq(SendItems)
        /\ mem' = mem
    BY <1>5, <1>a DEF Send_Receive, TypeOK
  <2>2. /\ Len(SQ) \in Nat \ {0} /\ Head(SQ) = SQ[1]
        /\ \A i \in 1 .. Len(SQ') : SQ'[i] = SQ[i + 1] /\ i + 1 \in 1 .. Len(SQ)
    BY <2>1, TailKeeps
  <2> QED BY <2>1, <2>2 DEF DloopIntact
<1>6. ASSUME NEW f \in Requests, RxDma(f) PROVE DloopIntact'
  <2>1. /\ UNCHANGED <<SQ, QD>> /\ (Sending' <=> Sending)
        /\ mem' = [mem EXCEPT ![bufbase] = f] /\ bufbase \in Bufs
    BY <1>6, <1>a DEF RxDma, Sending, TypeOK
  <2>2. mem'[DloopBuf] = mem[DloopBuf]
    BY <1>a, <1>c, <2>1
  <2> QED BY <2>1, <2>2, <1>1
<1>7. CASE Quiet
  BY <1>1, <1>7 DEF Quiet
<1>8. CASE RecvDriver_Good \/ Recv_Receive
  <2>1. UNCHANGED <<SQ, QD, mem>> /\ (Sending' => Sending)
    BY <1>8 DEF RecvDriver_Good, Recv_Receive, Sending
  <2> QED BY <2>1, <1>1
<1> QED
  BY <1>2, <1>3, <1>4, <1>5, <1>6, <1>7, <1>8, QuietSteps, Zenon

(* A loop-back goes out with the data of its request, although all travel  *)
(* in the one DloopBuf (PacketRecvThread.c:94), when the host leaves one   *)
(* request unanswered at a time -- whatever the console or the monitor     *)
(* send between, and however packets are tossed.                           *)
THEOREM LoopBacksGoOutIntact == Window <= 1 => (Spec => []DloopIntact)
<1> SUFFICES ASSUME Window <= 1 PROVE Spec => []DloopIntact
  OBVIOUS
<1>1. Init => LoopReplies /\ DloopIntact
  <2>1. Init => SQ = <<>> /\ QD.F1 = sendBuf1 /\ st = "RECEIVE"
    BY DEF Init
  <2> QED BY <2>1, Static DEF LoopReplies, DloopIntact, Sending
<1>2. IInv /\ LoopReplies /\ [Next]_vars => LoopReplies'
  BY LoopRepliesStep
<1>3. IInv /\ WindowKept /\ LoopReplies /\ DloopIntact /\ [Next]_vars => DloopIntact'
  BY DloopStep
<1> QED BY <1>1, <1>2, <1>3, Invariant, WindowInvariant, PTL DEF Spec

-----------------------------------------------------------------------------
(* The queue is no longer than its replies and the monitor's packets.      *)
Others == {i \in DOMAIN SQ : SQ[i].F1 \in {sendBuf1, sendBuf2}}
LEMMA QueueLength ==
  ASSUME TypeOK, MonitorOnce, NEW T, IsFiniteSet(T),
         \A i \in Others : SQ[i].F1 \in T
  PROVE  Len(SQ) <= Cardinality(Replies) + Cardinality(T)
<1> DEFINE f == [i \in Others |-> SQ[i].F1]
           S == 1 .. Len(SQ)
<1>1. Len(SQ) \in Nat /\ DOMAIN SQ = S
  BY DEF TypeOK
<1>2. IsFiniteSet(S) /\ Cardinality(S) = Len(SQ)
  <2>1. IsFiniteSet(S) /\ Cardinality(S) = IF 1 > Len(SQ) THEN 0 ELSE Len(SQ) - 1 + 1
    BY <1>1, FS_Interval
  <2> QED BY <1>1, <2>1
<1>3. IsFiniteSet(Others)
  BY <1>1, <1>2, FS_Subset DEF Others
<1>4. ~(Cardinality(T) < Cardinality(Others))
  <2>1. f \in [Others -> T]
    OBVIOUS
  <2>2. \A i, k \in Others : f[i] = f[k] => i = k
    BY <1>1 DEF MonitorOnce, Others
  <2> HIDE DEF f
  <2> QED BY <1>3, <2>1, <2>2, FS_PigeonHole
<1>5. IsFiniteSet(Replies) /\ Cardinality(Replies) \in Nat
  BY Counts
<1>6. /\ IsFiniteSet(Replies \union Others)
      /\ Cardinality(Replies \union Others) =
           Cardinality(Replies) + Cardinality(Others) - Cardinality(Replies \cap Others)
  BY <1>3, <1>5, FS_Union
<1>7. Cardinality(Replies \cap Others) \in Nat /\ Cardinality(Others) \in Nat
      /\ Cardinality(T) \in Nat
  <2>1. IsFiniteSet(Replies \cap Others)
    BY <1>5, FS_Intersection
  <2> QED BY <1>3, <2>1, FS_CardinalityType
<1>8. S \subseteq Replies \union Others
  BY <1>1 DEF MonitorOnce, Replies, Others
<1>9. Cardinality(S) <= Cardinality(Replies \union Others)
  BY <1>6, <1>8, FS_Subset
<1> QED BY <1>1, <1>2, <1>4, <1>5, <1>6, <1>7, <1>9

(* A packet of the monitor that is not queued finds room, and so does a    *)
(* reply: its request is counted, and is not in the queue yet.             *)
LEMMA RoomForMonitor ==
  ASSUME TypeOK, Spare, MonitorOnce, WindowKept,
         NEW a \in {sendBuf1, sendBuf2}, ~Queued(a)
  PROVE  Len(SQ) < SQ_ELEMENTS
<1> DEFINE T == {sendBuf1, sendBuf2} \ {a}
<1>1. PICK c : T = {c}
  BY Static
<1>2. IsFiniteSet(T) /\ Cardinality(T) = 1
  <2>1. IsFiniteSet({c}) /\ Cardinality({c}) = 1
    BY FS_Singleton
  <2> HIDE DEF T
  <2> QED BY <1>1, <2>1
<1>3. \A i \in Others : SQ[i].F1 \in T
  BY DEF Others, Queued, TypeOK
<1>4. Len(SQ) <= Cardinality(Replies) + 1
  <2> HIDE DEF T
  <2> QED BY <1>2, <1>3, QueueLength
<1>5. Cardinality(Replies) <= Window
  <2>1. \A n, r, i, o, s, w \in Nat : n + r + i + o + s <= w => r <= w
    OBVIOUS
  <2>2. One(InWork) \in Nat /\ One(OnTheWire) \in Nat /\ One(Stored) \in Nat
    BY DEF One
  <2>3. Cardinality(Asks) \in Nat /\ Cardinality(Replies) \in Nat
    BY Counts
  <2>4. /\ Cardinality(Asks) + Cardinality(Replies) + One(InWork) + One(OnTheWire)
             + One(Stored) <= Window
        /\ Window \in Nat
    BY HostAssumption DEF WindowKept, Unanswered
  <2> QED BY <2>1, <2>2, <2>3, <2>4, Zenon
<1>6. Len(SQ) \in Nat /\ Cardinality(Replies) \in Nat
  BY Counts DEF TypeOK
<1> QED BY <1>4, <1>5, <1>6, HostAssumption, QueueAssumption DEF Spare

LEMMA RoomForReply ==
  ASSUME TypeOK, Spare, MonitorOnce, WindowKept, InWork
  PROVE  Len(SQ) < SQ_ELEMENTS
<1> DEFINE T == {sendBuf1, sendBuf2}
<1>1. IsFiniteSet(T) /\ Cardinality(T) = 2
  <2>1. IsFiniteSet({sendBuf1}) /\ Cardinality({sendBuf1}) = 1 /\ sendBuf2 \notin {sendBuf1}
    BY FS_Singleton, Static
  <2>2. T = {sendBuf1} \union {sendBuf2}
    OBVIOUS
  <2> HIDE DEF T
  <2> QED BY <2>1, <2>2, FS_AddElement
<1>2. \A i \in Others : SQ[i].F1 \in T
  BY DEF Others
<1>3. Len(SQ) <= Cardinality(Replies) + 2
  <2> HIDE DEF T
  <2> QED BY <1>1, <1>2, QueueLength
<1>4. Cardinality(Replies) < Window
  <2>1. \A n, r, i, o, s, w \in Nat : n + r + i + o + s <= w /\ i = 1 => r < w
    OBVIOUS
  <2>2. /\ One(InWork) \in Nat /\ One(OnTheWire) \in Nat /\ One(Stored) \in Nat
        /\ One(InWork) = 1
    BY DEF One
  <2>3. Cardinality(Asks) \in Nat /\ Cardinality(Replies) \in Nat
    BY Counts
  <2>4. /\ Cardinality(Asks) + Cardinality(Replies) + One(InWork) + One(OnTheWire)
             + One(Stored) <= Window
        /\ Window \in Nat
    BY HostAssumption DEF WindowKept, Unanswered
  <2> QED BY <2>1, <2>2, <2>3, <2>4, Zenon
<1>5. Len(SQ) \in Nat /\ Cardinality(Replies) \in Nat
  BY Counts DEF TypeOK
<1> QED BY <1>3, <1>4, <1>5, HostAssumption, QueueAssumption DEF Spare

(* The monitor's packets are queued once each, and everything else in the  *)
(* queue is a reply.                                                       *)
LEMMA SentOnce ==
  ASSUME TypeOK, MonitorOnce, NEW cmd, NEW a, NEW ret, PacketSend_pakt(cmd, a, ret),
         a \in {sendBuf1, sendBuf2} => ~Queued(a),
         a \notin {sendBuf1, sendBuf2} => cmd \in Answered,
         ~Sent_ADreq' => ~Sent_ADreq /\ a # sendBuf2
  PROVE  MonitorOnce'
<1> DEFINE it == [F1 |-> a, F2 |-> ret,
                  said |-> [cmd |-> cmd, data |-> mem[a].data]]
<1>1. it.F1 = a /\ it.said.cmd = cmd
  OBVIOUS
<1>2. /\ Len(SQ) \in Nat
      /\ \/ SQ' = SQ
         \/ /\ Len(SQ') = Len(SQ) + 1 /\ SQ'[Len(SQ) + 1] = it
            /\ \A i \in 1 .. Len(SQ) : SQ'[i] = SQ[i]
  BY QueuedOrTossed, Zenon
<1> HIDE DEF it
<1>3. ~Sent_ADreq' => ~Queued(sendBuf2)'
  BY SentStays, Zenon DEF MonitorOnce
<1>4. CASE SQ' = SQ
  BY <1>3, <1>4 DEF MonitorOnce
<1>5. CASE /\ Len(SQ') = Len(SQ) + 1 /\ SQ'[Len(SQ) + 1] = it
           /\ \A i \in 1 .. Len(SQ) : SQ'[i] = SQ[i]
  <2>1. \A i \in 1 .. Len(SQ') : i \in 1 .. Len(SQ) \/ i = Len(SQ) + 1
    BY <1>2, <1>5
  <2>2. \A i \in 1 .. Len(SQ') :
          SQ'[i].said.cmd \in Answered \/ SQ'[i].F1 \in {sendBuf1, sendBuf2}
    BY <1>1, <1>5, <2>1 DEF MonitorOnce
  <2>3. a \in {sendBuf1, sendBuf2} => \A i \in 1 .. Len(SQ) : SQ[i].F1 # a
    BY DEF Queued
  <2>4. \A i, k \in 1 .. Len(SQ') :
          SQ'[i].F1 = SQ'[k].F1 /\ SQ'[i].F1 \in {sendBuf1, sendBuf2} => i = k
    BY <1>1, <1>5, <2>1, <2>3 DEF MonitorOnce
  <2> QED BY <1>3, <2>2, <2>4 DEF MonitorOnce
<1> QED BY <1>2, <1>4, <1>5

LEMMA MonitorOnceStep ==
  ASSUME IInv, ~Console, OneImup, WindowKept, MonitorOnce, [Next]_vars
  PROVE  MonitorOnce'
<1>a. TypeOK /\ Len(SQ) \in Nat
  BY DEF IInv, TypeOK
<1>1. CASE UNCHANGED <<SQ, Sent_ADreq>>
  BY <1>1 DEF MonitorOnce, Queued
<1>2. CASE Monitor_Up
  <2>1. /\ PacketSend_pakt("IMUP", sendBuf1, Null) /\ has_IMUPpakt
        /\ UNCHANGED Sent_ADreq
    BY <1>2 DEF Monitor_Up
  <2>2. ~Queued(sendBuf1)
    BY <2>1 DEF OneImup
  <2> QED BY <1>a, <2>1, <2>2, Static, SentOnce
<1>3. CASE Monitor_ADreq /\ ~Sent_ADreq
  <2>1. PacketSend_pakt("ADCONFIG", sendBuf2, Null) /\ Sent_ADreq'
    BY <1>3 DEF Monitor_ADreq
  <2>2. ~Queued(sendBuf2)
    BY <1>3 DEF MonitorOnce
  <2> QED BY <1>a, <2>1, <2>2, SentOnce
<1>4. CASE Recv_Get
  <2>1. PacketSend_pakt("GET", Dptr, Dptr) /\ UNCHANGED Sent_ADreq /\ Dptr \in Bufs
    BY <1>4, <1>a DEF Recv_Get, TypeOK
  <2>2. Dptr \notin {sendBuf1, sendBuf2} /\ "GET" \in Answered
    BY <2>1, Static DEF Answered
  <2> QED BY <1>a, <2>1, <2>2, SentOnce
<1>5. CASE Recv_DloopSend
  <2>1. PacketSend_pakt("DLOOP", DloopBuf, Null) /\ UNCHANGED Sent_ADreq
    BY <1>5 DEF Recv_DloopSend
  <2>2. DloopBuf \notin {sendBuf1, sendBuf2} /\ "DLOOP" \in Answered
    BY Static DEF Answered
  <2> QED BY <1>a, <2>1, <2>2, SentOnce
<1>6. CASE Send_Receive
  <2>1. SQ # <<>> /\ SQ' = Tail(SQ) /\ Sent_ADreq' = Sent_ADreq /\ SQ \in Seq(SendItems)
    BY <1>6, <1>a DEF Send_Receive, TypeOK
  <2>2. \A i \in 1 .. Len(SQ') : SQ'[i] = SQ[i + 1] /\ i + 1 \in 1 .. Len(SQ)
    BY <2>1, TailKeeps
  <2>3. Len(SQ') \in Nat
    BY <2>1
  <2>4. \A i \in 1 .. Len(SQ') :
          SQ'[i].said.cmd \in Answered \/ SQ'[i].F1 \in {sendBuf1, sendBuf2}
    BY <2>2 DEF MonitorOnce
  <2>5. ASSUME NEW i \in 1 .. Len(SQ'), NEW k \in 1 .. Len(SQ'),
               SQ'[i].F1 = SQ'[k].F1, SQ'[i].F1 \in {sendBuf1, sendBuf2}
        PROVE  i = k
    <3>1. i + 1 = k + 1
      BY <2>2, <2>5 DEF MonitorOnce
    <3> QED BY <2>3, <3>1
  <2>6. Queued(sendBuf2)' => Queued(sendBuf2)
    BY <2>2 DEF Queued
  <2>7. ~Sent_ADreq' => ~Queued(sendBuf2)'
    BY <2>1, <2>6, Zenon DEF MonitorOnce
  <2> QED BY <2>4, <2>5, <2>7 DEF MonitorOnce
<1>7. CASE \/ RecvDriver_Good \/ Monitor_Pin \/ Recv_Receive \/ Recv_Imup
           \/ Recv_Local \/ Recv_Return \/ Recv_DloopCopy
           \/ \E f \in Requests : RxDma(f)
  <2>1. UNCHANGED <<SQ, Sent_ADreq>>
    BY <1>7 DEF RecvDriver_Good, Monitor_Pin, Recv_Receive, Recv_Imup,
       Recv_Local, Recv_Return, Recv_DloopCopy, RxDma
  <2> QED BY <2>1, <1>1
<1> QED BY <1>1, <1>2, <1>3, <1>4, <1>5, <1>6, <1>7, Steps DEF Untouched

LEMMA SpareInvariant == Spare => (Spec => [](OneImup /\ MonitorOnce))
<1> SUFFICES ASSUME Spare PROVE Spec => [](OneImup /\ MonitorOnce)
  OBVIOUS
<1>1. Init => OneImup /\ MonitorOnce
  <2>1. Init => /\ RQ = <<>> /\ SQ = <<>> /\ rt = "RECEIVE" /\ TCIF5 = 0
                /\ ~has_IMUPpakt
    BY DEF Init
  <2> QED BY <2>1 DEF OneImup, InDma, ImupInRQ, InSwitch, MonitorOnce, Queued
<1>2. IInv /\ WindowKept /\ OneImup /\ MonitorOnce /\ [Next]_vars
        => OneImup' /\ MonitorOnce'
  BY OneImupStep, MonitorOnceStep DEF Spare
<1> QED BY <1>1, <1>2, Invariant, WindowInvariant, PTL DEF Spec

(* A reading or a loop-back being answered finds room in the queue.        *)
LEMMA AnswerFits ==
  ASSUME TypeOK, Spare, MonitorOnce, WindowKept, Recv_Get \/ Recv_DloopSend
  PROVE  Len(SQ) < SQ_ELEMENTS
<1>1. InWork
  BY DEF Recv_Get, Recv_DloopSend, InWork, WindowKept, Answered
<1> QED BY <1>1, RoomForReply

(* No buffer leaks when the host leaves two requests fewer unanswered than *)
(* the send queue has slots: three with the real five, loop-backs or not   *)
(* (PacketSendThread.c:108).                                               *)
THEOREM NothingLeaksWithRoom == Spare => (Spec => []NoLeak)
<1> SUFFICES ASSUME Spare PROVE Spec => []NoLeak
  OBVIOUS
<1>1. Init => NoLeak
  BY DEF Init, NoLeak, InPool
<1>2. IInv /\ RQHasRoom /\ WindowKept /\ MonitorOnce /\ NoLeak /\ [Next]_vars => NoLeak'
  BY AnswerFits, NoLeakStep DEF IInv
<1> QED BY <1>1, <1>2, Invariant, RecvNeverDrops, WindowInvariant, SpareInvariant, PTL
        DEF Spec

(* Nor is a reply, a loop-back or a packet of the monitor dropped.         *)
THEOREM NothingIsDroppedWithRoom == Spare => (Spec => NothingDropped)
<1> SUFFICES ASSUME Spare PROVE Spec => NothingDropped
  OBVIOUS
<1>1. ASSUME IInv, OneImup, MonitorOnce, WindowKept,
             Recv_Get \/ Recv_DloopSend \/ Monitor_Up \/ (Monitor_ADreq /\ ~Sent_ADreq)
      PROVE  Len(SQ') = Len(SQ) + 1
  <2>1. TypeOK
    BY <1>1 DEF IInv
  <2>2. CASE Recv_Get \/ Recv_DloopSend
    <3>1. Len(SQ) < SQ_ELEMENTS
      BY <1>1, <2>1, <2>2, AnswerFits
    <3>2. \E cmd, a, ret : PacketSend_pakt(cmd, a, ret)
      BY <2>2 DEF Recv_Get, Recv_DloopSend
    <3> QED BY <2>1, <3>1, <3>2, QueuedOrTossed, Zenon
  <2>3. CASE Monitor_Up
    <3>1. PacketSend_pakt("IMUP", sendBuf1, Null) /\ ~Queued(sendBuf1)
      BY <1>1, <2>3, Zenon DEF Monitor_Up, OneImup
    <3>2. Len(SQ) < SQ_ELEMENTS
      BY <1>1, <2>1, <3>1, RoomForMonitor
    <3> QED BY <2>1, <3>1, <3>2, QueuedOrTossed, Zenon
  <2>4. CASE Monitor_ADreq /\ ~Sent_ADreq
    <3>1. PacketSend_pakt("ADCONFIG", sendBuf2, Null) /\ ~Queued(sendBuf2)
      BY <1>1, <2>4 DEF Monitor_ADreq, MonitorOnce
    <3>2. Len(SQ) < SQ_ELEMENTS
      BY <1>1, <2>1, <3>1, RoomForMonitor
    <3> QED BY <2>1, <3>1, <3>2, QueuedOrTossed, Zenon
  <2> QED BY <1>1, <2>2, <2>3, <2>4
<1>2. IInv /\ OneImup /\ MonitorOnce /\ WindowKept /\ [Next]_vars =>
        [ Recv_Get \/ Recv_DloopSend \/ Monitor_Up \/ (Monitor_ADreq /\ ~Sent_ADreq)
            => Len(SQ') = Len(SQ) + 1 ]_vars
  BY <1>1
<1> QED BY <1>2, Invariant, WindowInvariant, SpareInvariant, PTL DEF Spec, NothingDropped
=============================================================================
