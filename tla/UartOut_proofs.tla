--------------------------- MODULE UartOut_proofs ---------------------------
(***************************************************************************)
(* Proofs about UartOut for a tick that prints only between the calls of   *)
(* the tasks, for any size of the queue and any jobs.                      *)
(***************************************************************************)
EXTENDS UartOut, TLAPS

USE DEF vars, queueVars

(* The slot at distance 0, and one step further, around the end.           *)
LEMMA Indexes ==
  ASSUME NEW i \in Slots, NEW k \in 0 .. SERO_SQENTRYS
  PROVE  /\ At(i, k) \in Slots
         /\ At(i, 0) = i
         /\ After(i) \in Slots
         /\ k < SERO_SQENTRYS => /\ After(At(i, k)) = At(i, k + 1)
                                 /\ At(After(i), k) = At(i, k + 1)
  BY SizeAssumption DEF Slots, At, After

(* The slots of the queue are different ones.                              *)
LEMMA Distinct ==
  ASSUME NEW i \in Slots, NEW k \in 1 .. SERO_SQENTRYS, NEW l \in 1 .. SERO_SQENTRYS,
         k # l
  PROVE  At(i, k - 1) # At(i, l - 1) /\ At(i, k - 1) \in Slots
  BY SizeAssumption DEF Slots, At

(* Initially nothing is queued and no call is under way.                   *)
LEMMA IInvInit == Init => IInv
<1> SUFFICES ASSUME Init PROVE IInv
  OBVIOUS
<1> USE SizeAssumption, TextAssumption DEF Init
<1>1. Zeroed \in SERI
  BY DEF Zeroed, SERI, Types
<1>2. TypeOK
  BY <1>1 DEF TypeOK, Slots
<1>3. Count = 0
  BY DEF Count
<1>4. CountRight
  BY <1>3 DEF CountRight, At
<1>5. Calls
  BY <1>3 DEF Calls, Sends, ActiveJob
<1>6. Waiting
  BY <1>3 DEF Waiting
<1> QED BY <1>2, <1>4, <1>5, <1>6 DEF IInv

(* Every step keeps the types.                                             *)
LEMMA TypeStep == ~Racing /\ IInv /\ [Next]_vars => TypeOK'
<1> SUFFICES ASSUME ~Racing, IInv, [Next]_vars PROVE TypeOK'
  OBVIOUS
<1> USE SizeAssumption, TextAssumption DEF IInv, TypeOK
<1>a. \A i \in Slots : After(i) \in Slots
  BY Indexes DEF Slots
<1>1. CASE UD_Send
  <2>1. ASSUME NEW j \in TaskJobs, Send_Test(j) PROVE TypeOK'
    BY <2>1, JobAssumption DEF Send_Test
  <2>2. CASE Send_Slot \/ Send_Load
    BY <2>2 DEF Send_Slot, Send_Load
  <2>3. CASE Send_Store
    BY <2>3 DEF Send_Store, Calls
  <2>4. CASE Send_Index
    BY <2>4, <1>a DEF Send_Index, Calls
  <2>5. CASE Send_Fill
    BY <2>5 DEF Send_Fill, SetFlag
  <2> QED BY <1>1, <2>1, <2>2, <2>3, <2>4, <2>5 DEF UD_Send
<1>2. ASSUME NEW j \in TickJobs, Tick(j) PROVE TypeOK'
  BY <1>2, <1>a, JobAssumption DEF Tick
<1>3. CASE UD_Process
  <2>a. Active \in SERI /\ Q_items[out_Qindex] \in SERI
    BY DEF Active
  <2>b. Piece \in Printed
    BY <2>a DEF Piece, SERI, Printed
  <2>1. CASE Process_GetJob
    <3>1. databuf' \in Values
      BY <2>1, <2>a DEF Process_GetJob, SERI
    <3>2. [Q_items[out_Qindex] EXCEPT !.sptr = BUF] \in SERI
      BY <2>a DEF SERI
    <3>3. Q_items' \in [Slots -> SERI]
      BY <2>1, <3>2 DEF Process_GetJob
    <3> QED BY <2>1, <3>1, <3>3 DEF Process_GetJob
  <2>2. CASE Process_Value
    <3>1. [Q_items[active_Qitem] EXCEPT !.otype = "STR", !.sptr = BUF] \in SERI
      BY DEF SERI, Types
    <3>2. Q_items' \in [Slots -> SERI]
      BY <2>2, <3>1 DEF Process_Value
    <3>3. text' \in Seq(Printed)
      BY <2>2, <2>b DEF Process_Value
    <3> QED BY <2>2, <3>2, <3>3 DEF Process_Value
  <2>3. CASE Process_Last
    <3>1. text' \in Seq(Printed)
      BY <2>3, <2>b DEF Process_Last
    <3> QED BY <2>3, <3>1 DEF Process_Last
  <2>4. CASE Process_Decrement
    BY <2>4 DEF Process_Decrement, Calls, ActiveJob, Count
  <2>5. CASE Process_Next
    BY <2>5, <1>a DEF Process_Next, SetFlag
  <2> QED BY <1>3, <2>1, <2>2, <2>3, <2>4, <2>5 DEF UD_Process
<1>4. CASE UNCHANGED vars
  BY <1>4
<1> QED BY <1>1, <1>2, <1>3, <1>4 DEF Next, UD_Tick

(* Every step keeps the two indexes as far apart as the count says.        *)
LEMMA CountStep == ~Racing /\ IInv /\ [Next]_vars => CountRight'
<1> SUFFICES ASSUME ~Racing, IInv, [Next]_vars PROVE CountRight'
  OBVIOUS
<1> USE SizeAssumption DEF IInv, TypeOK, CountRight
<1>c. Count \in 0 .. SERO_SQENTRYS
  BY DEF Count, Calls
<1>i. \A k \in 0 .. SERO_SQENTRYS - 1 :
        /\ After(At(out_Qindex, k)) = At(out_Qindex, k + 1)
        /\ At(After(out_Qindex), k) = At(out_Qindex, k + 1)
  BY Indexes
<1>1. CASE UD_Send
  <2>1. ASSUME NEW j \in TaskJobs, Send_Test(j) PROVE CountRight'
    BY <2>1 DEF Send_Test, Count, At
  <2>2. CASE Send_Slot \/ Send_Load \/ Send_Store
    BY <2>2 DEF Send_Slot, Send_Load, Send_Store, Count, Calls, At
  <2>3. CASE Send_Index
    <3>1. /\ num_Qitems - 1 \in 0 .. SERO_SQENTRYS - 1
          /\ inn_Qindex = At(out_Qindex, num_Qitems - 1)
          /\ inn_Qindex' = After(inn_Qindex)
      BY <2>3 DEF Send_Index, Count, Calls
    <3>2. inn_Qindex' = At(out_Qindex, (num_Qitems - 1) + 1)
      BY <3>1, <1>i
    <3> QED BY <2>3, <3>2 DEF Send_Index, Count, At
  <2>4. CASE Send_Fill
    BY <2>4 DEF Send_Fill, Count, Calls, At
  <2> QED BY <1>1, <2>1, <2>2, <2>3, <2>4 DEF UD_Send
<1>2. ASSUME NEW j \in TickJobs, Tick(j) PROVE CountRight'
  BY <1>2, <1>i DEF Tick, Count, At, After
<1>3. CASE UD_Process
  <2>1. CASE Process_GetJob \/ Process_Value \/ Process_Last \/ Process_Decrement
    BY <2>1 DEF Process_GetJob, Process_Value, Process_Last, Process_Decrement,
       Count, Calls, At
  <2>2. CASE Process_Next
    BY <2>2, <1>i DEF Process_Next, Count, Calls, At, After
  <2> QED BY <1>3, <2>1, <2>2 DEF UD_Process
<1>4. CASE UNCHANGED vars
  BY <1>4 DEF Count, At
<1> QED BY <1>1, <1>2, <1>3, <1>4 DEF Next, UD_Tick

(* Every step leaves what the tasks have seen true.                        *)
LEMMA CallsStep == ~Racing /\ IInv /\ [Next]_vars => Calls'
<1> SUFFICES ASSUME ~Racing, IInv, [Next]_vars PROVE Calls'
  OBVIOUS
<1> USE SizeAssumption DEF IInv, TypeOK, Calls, Sends, ActiveJob
<1>1. CASE UD_Send
  <2>1. ASSUME NEW j \in TaskJobs, Send_Test(j) PROVE Calls'
    BY <2>1 DEF Send_Test, Count
  <2>2. CASE Send_Slot \/ Send_Load \/ Send_Store
    BY <2>2 DEF Send_Slot, Send_Load, Send_Store, Count
  <2>3. CASE Send_Index
    BY <2>3 DEF Send_Index, Count, CountRight, At
  <2>4. CASE Send_Fill
    BY <2>4 DEF Send_Fill, Count
  <2> QED BY <1>1, <2>1, <2>2, <2>3, <2>4 DEF UD_Send
<1>2. ASSUME NEW j \in TickJobs, Tick(j) PROVE Calls'
  BY <1>2 DEF Tick, Count
<1>3. CASE UD_Process
  <2>1. CASE Process_GetJob \/ Process_Value
    BY <2>1 DEF Process_GetJob, Process_Value, Count
  <2>2. CASE Process_Last \/ Process_Decrement
    BY <2>2 DEF Process_Last, Process_Decrement, Count
  <2>3. CASE Process_Next
    BY <2>3 DEF Process_Next, Count
  <2> QED BY <1>3, <2>1, <2>2, <2>3 DEF UD_Process
<1>4. CASE UNCHANGED vars
  BY <1>4 DEF Count, At
<1> QED BY <1>1, <1>2, <1>3, <1>4 DEF Next, UD_Tick

(* Every step leaves the jobs that wait alone.                             *)
LEMMA WaitingStep == ~Racing /\ IInv /\ [Next]_vars => Waiting'
<1> SUFFICES ASSUME ~Racing, IInv, [Next]_vars PROVE Waiting'
  OBVIOUS
<1> USE SizeAssumption DEF IInv, TypeOK
<1> DEFINE Slot(k) == At(out_Qindex, k - 1)
<1>c. Count \in 0 .. SERO_SQENTRYS
  BY DEF Count, Calls
<1>i. ASSUME NEW k \in 1 .. SERO_SQENTRYS, NEW l \in 1 .. SERO_SQENTRYS, k # l
      PROVE  Slot(k) # Slot(l) /\ Slot(k) \in Slots
  BY <1>i, Distinct
<1>z. Slot(1) = out_Qindex
  BY Indexes
<1>1. ASSUME Count' = Count, UNCHANGED <<Q_items, out_Qindex>>, ActiveJob => ActiveJob'
      PROVE  Waiting'
  BY <1>1, <1>c DEF Waiting, At
<1>2. CASE Send_Fill
  <2>1. Count' = Count + 1 /\ lqitem = Slot(Count + 1) /\ job \in TaskJobs /\ Count + 1 <= SERO_SQENTRYS
    BY <1>2 DEF Send_Fill, Count, Calls, Sends
  <2>2. ASSUME NEW k \in 1 .. Count + 1
        PROVE  (k = 1 /\ ActiveJob) \/ Q_items'[Slot(k)] \in TaskJobs \union TickJobs
    <3>1. CASE k = Count + 1
      <4>1. Slot(k) \in Slots
        BY <2>1, <1>c, <3>1, Indexes DEF Slots, At
      <4>2. Q_items'[Slot(k)] = job
        BY <1>2, <2>1, <3>1, <4>1 DEF Send_Fill
      <4> QED BY <4>2, <2>1
    <3>2. CASE k \in 1 .. Count
      <4>0. k \in 1 .. SERO_SQENTRYS /\ Count + 1 \in 1 .. SERO_SQENTRYS /\ k # Count + 1
        BY <3>2, <2>1, <1>c
      <4>1. Slot(k) # lqitem
        BY <4>0, <2>1, <1>i
      <4>2. Q_items'[Slot(k)] = Q_items[Slot(k)]
        BY <1>2, <4>1, <1>i, <3>2, <2>1, <1>c DEF Send_Fill
      <4> QED BY <4>2, <3>2 DEF Waiting
    <3> QED BY <3>1, <3>2, <1>c
  <2>3. ActiveJob' = ActiveJob /\ out_Qindex' = out_Qindex
    BY <1>2 DEF Send_Fill, ActiveJob
  <2> QED BY <2>1, <2>2, <2>3, <1>c DEF Waiting, At
<1>3. ASSUME NEW j \in TickJobs, Tick(j) PROVE Waiting'
  <2>1. /\ Count' = Count + 1 /\ inn_Qindex = Slot(Count + 1) /\ Count + 1 <= SERO_SQENTRYS
        /\ Q_items' = [Q_items EXCEPT ![inn_Qindex] = j]
    BY <1>3, <1>c DEF Tick, Count, CountRight
  <2>2. ASSUME NEW k \in 1 .. Count + 1
        PROVE  (k = 1 /\ ActiveJob) \/ Q_items'[Slot(k)] \in TaskJobs \union TickJobs
    <3>1. CASE k = Count + 1
      BY <2>1, <3>1
    <3>2. CASE k \in 1 .. Count
      <4>0. k \in 1 .. SERO_SQENTRYS /\ Count + 1 \in 1 .. SERO_SQENTRYS /\ k # Count + 1
        BY <3>2, <2>1, <1>c
      <4>1. Slot(k) # inn_Qindex
        BY <4>0, <2>1, <1>i
      <4>2. Q_items'[Slot(k)] = Q_items[Slot(k)]
        BY <2>1, <4>1, <1>i, <3>2, <1>c
      <4> QED BY <4>2, <3>2 DEF Waiting
    <3> QED BY <3>1, <3>2, <1>c
  <2>3. ActiveJob' = ActiveJob /\ out_Qindex' = out_Qindex
    BY <1>3 DEF Tick, ActiveJob
  <2> QED BY <2>1, <2>2, <2>3, <1>c DEF Waiting, At
<1>4. CASE Process_GetJob \/ Process_Value
  <2>1. /\ Count' = Count /\ out_Qindex' = out_Qindex /\ ActiveJob'
        /\ \A i \in Slots : i # out_Qindex => Q_items'[i] = Q_items[i]
    BY <1>4 DEF Process_GetJob, Process_Value, Count, Calls, ActiveJob
  <2>2. ASSUME NEW k \in 2 .. Count
        PROVE  Q_items'[Slot(k)] \in TaskJobs \union TickJobs
    <3>1. Slot(k) \in Slots /\ Slot(k) # out_Qindex
      <4>1. k \in 1 .. SERO_SQENTRYS /\ 1 \in 1 .. SERO_SQENTRYS /\ k # 1
        BY <1>c
      <4> QED BY <4>1, <1>i, <1>z
    <3> QED BY <2>1, <3>1, <1>c DEF Waiting
  <2> QED BY <2>1, <2>2, <1>c DEF Waiting, At
<1>5. CASE Process_Next
  <2>1. Count' = Count - 1 /\ Count > 0 /\ out_Qindex' = After(out_Qindex) /\ Q_items' = Q_items
    BY <1>5 DEF Process_Next, Count, Calls, ActiveJob
  <2>2. ASSUME NEW k \in 1 .. Count - 1
        PROVE  At(After(out_Qindex), k - 1) = Slot(k + 1)
    <3>1. k - 1 \in 0 .. SERO_SQENTRYS - 1 /\ (k - 1) + 1 = (k + 1) - 1
      BY <1>c
    <3> QED BY <3>1, Indexes
  <2>3. ASSUME NEW k \in 1 .. Count - 1
        PROVE  Q_items'[At(After(out_Qindex), k - 1)] \in TaskJobs \union TickJobs
    <3>1. k + 1 \in 1 .. Count /\ k + 1 # 1
      BY <2>1, <1>c
    <3>2. Q_items[Slot(k + 1)] \in TaskJobs \union TickJobs
      BY <3>1 DEF Waiting
    <3> QED BY <3>2, <2>1, <2>2
  <2> QED BY <2>1, <2>3, <1>c DEF Waiting, At
<1>6. CASE \/ \E j \in TaskJobs : Send_Test(j)
           \/ Send_Slot \/ Send_Load \/ Send_Store \/ Send_Index
  <2>1. Count' = Count /\ UNCHANGED <<Q_items, out_Qindex>> /\ (ActiveJob => ActiveJob')
    BY <1>6 DEF Send_Test, Send_Slot, Send_Load, Send_Store, Send_Index, Count, Calls, ActiveJob
  <2> QED BY <2>1, <1>1
<1>7. CASE Process_Last \/ Process_Decrement \/ UNCHANGED vars
  <2>1. Count' = Count /\ UNCHANGED <<Q_items, out_Qindex>> /\ (ActiveJob => ActiveJob')
    BY <1>7 DEF Process_Last, Process_Decrement, Count, Calls, ActiveJob
  <2> QED BY <2>1, <1>1
<1> QED BY <1>2, <1>3, <1>4, <1>5, <1>6, <1>7 DEF Next, UD_Send, UD_Process, UD_Tick

(* The invariant, and the two properties that it contains.                 *)
LEMMA Invariant == ~Racing => (Spec => []IInv)
<1> SUFFICES ASSUME ~Racing PROVE Spec => []IInv
  OBVIOUS
<1>1. IInv /\ [Next]_vars => IInv'
  BY TypeStep, CountStep, CallsStep, WaitingStep DEF IInv
<1> QED BY <1>1, IInvInit, PTL DEF Spec

(* UD_Send and UD_Process keep every variable's type, for any size of the  *)
(* queue and any jobs, while the tick does not print inside their calls.   *)
THEOREM TypeCorrect == ~Racing => (Spec => []TypeOK)
<1>1. IInv => TypeOK
  BY DEF IInv
<1> QED BY <1>1, Invariant, PTL

(* serd_num_Qitems is the number of items between the two indexes, for any *)
(* size of the queue and any jobs, under the same assumption.              *)
THEOREM CountIsRight == ~Racing => (Spec => []CountRight)
<1>1. IInv => CountRight
  BY DEF IInv
<1> QED BY <1>1, Invariant, PTL

(* What the line of ConsoleLine is made of.                                *)
Entries == [text : Seq(Printed), comp : Flags \union {NoFlag}]

LEMMA LineType ==
  ASSUME IInv
  PROVE  /\ Count \in 0 .. SERO_SQENTRYS
         /\ LineOf \in Seq(Entries) /\ Len(LineOf) = Count
<1> USE DEF IInv, TypeOK
<1>1. Count \in 0 .. SERO_SQENTRYS
  BY SizeAssumption DEF Count, Calls
<1>2. ASSUME NEW k \in 1 .. Count PROVE LineOf[k] \in Entries
  <2>1. k \in 1 .. SERO_SQENTRYS /\ k - 1 \in 0 .. SERO_SQENTRYS
    BY <1>1, SizeAssumption
  <2> DEFINE item == Q_items[At(out_Qindex, k - 1)]
  <2>2. At(out_Qindex, k - 1) \in Slots
    BY <2>1, Indexes
  <2>3. item \in SERI
    BY <2>2
  <2>4. Active \in SERI
    BY DEF Active
  <2>5. RestActive \in Seq(Printed)
    <3>1. Piece \in Printed /\ databuf \in Printed
      BY <2>4 DEF Piece, SERI, Printed
    <3>2. <<>> \in Seq(Printed) /\ <<Piece>> \in Seq(Printed)
      BY <3>1
    <3>3. <<Piece, databuf>> \in Seq(Printed)
      BY <3>1
    <3> HIDE DEF TypeOK
    <3> QED BY <3>2, <3>3 DEF RestActive
  <2>6. ~(k = 1 /\ ActiveJob) => Rest(item) \in Seq(Printed)
    <3> SUFFICES ASSUME ~(k = 1 /\ ActiveJob) PROVE Rest(item) \in Seq(Printed)
      OBVIOUS
    <3>1. item \in TaskJobs \union TickJobs
      BY DEF Waiting
    <3>2. item.otype # "ONECHAR" => item.sptr \in Printed
      BY <2>3, <3>1, JobAssumption DEF SERI, Printed
    <3>3. item.otype \in Types /\ item.dval \in Printed
      BY <2>3 DEF SERI, Printed
    <3>4. \/ item.otype = "ONECHAR" /\ Rest(item) = <<item.dval>>
          \/ item.otype = "STR" /\ Rest(item) = <<item.sptr>>
          \/ item.otype = "NUM" /\ Rest(item) = <<item.sptr, item.dval>>
      BY <3>3 DEF Types, Rest
    <3>5. CASE item.otype = "ONECHAR"
      <4>1. Rest(item) = <<item.dval>>
        BY <3>4, <3>5
      <4> QED BY <4>1, <3>3
    <3>6. CASE item.otype = "STR"
      <4>1. Rest(item) = <<item.sptr>> /\ item.sptr \in Printed
        BY <3>2, <3>4, <3>6
      <4> QED BY <4>1
    <3>7. CASE item.otype = "NUM"
      <4>1. Rest(item) = <<item.sptr, item.dval>> /\ item.sptr \in Printed
        BY <3>2, <3>4, <3>7
      <4> QED BY <4>1, <3>3
    <3> QED BY <3>4, <3>5, <3>6, <3>7
  <2>7. text \o RestActive \in Seq(Printed)
    BY <2>5
  <2>8. LineOf[k] = [text |-> IF k = 1 /\ ActiveJob THEN text \o RestActive ELSE Rest(item),
                     comp |-> item.comp]
    BY DEF LineOf
  <2>9. item.comp \in Flags \union {NoFlag}
    BY <2>3 DEF SERI
  <2> HIDE DEF item
  <2> QED BY <2>6, <2>7, <2>8, <2>9 DEF Entries
<1>3. LineOf = [k \in 1 .. Count |-> LineOf[k]]
  BY DEF LineOf
<1>4. LineOf \in [1 .. Count -> Entries]
  BY <1>2, <1>3
<1>5. LineOf \in Seq(Entries) /\ Len(LineOf) = Count
  BY <1>1, <1>4
<1> QED BY <1>1, <1>5

(* A line whose entries are those of another, and one more or one less.    *)
LEMMA LongerLine ==
  ASSUME NEW E, NEW s \in Seq(E), NEW t \in Seq(E), Len(t) = Len(s) + 1,
         \A k \in 1 .. Len(s) : t[k] = s[k]
  PROVE  t = Append(s, t[Len(s) + 1])
<1> DEFINE u == Append(s, t[Len(s) + 1])
<1>1. t[Len(s) + 1] \in E
  OBVIOUS
<1>2. u \in Seq(E) /\ Len(u) = Len(t)
  BY <1>1
<1>3. \A k \in 1 .. Len(t) : t[k] = u[k]
  BY <1>1
<1> QED BY <1>2, <1>3

LEMMA ShorterLine ==
  ASSUME NEW E, NEW s \in Seq(E), NEW t \in Seq(E), Len(s) = Len(t) + 1,
         \A k \in 1 .. Len(t) : t[k] = s[k + 1]
  PROVE  t = Tail(s)
<1>1. Tail(s) \in Seq(E) /\ Len(Tail(s)) = Len(t)
  BY s # <<>>
<1>2. \A k \in 1 .. Len(t) : t[k] = Tail(s)[k]
  BY s # <<>>
<1> QED BY <1>1, <1>2

(* Lines with the same entries are the same.                               *)
LEMMA SameLine ==
  ASSUME IInv, IInv', Count' = Count, \A k \in 1 .. Count : LineOf'[k] = LineOf[k]
  PROVE  LineOf' = LineOf
<1>1. LineOf \in Seq(Entries) /\ Len(LineOf) = Count
  BY LineType
<1>2. (Count \in 0 .. SERO_SQENTRYS /\ LineOf \in Seq(Entries) /\ Len(LineOf) = Count)'
  BY LineType, PTL
<1>3. LineOf' \in Seq(Entries) /\ Len(LineOf') = Count
  BY <1>2
<1> QED BY <1>1, <1>3

(* A step that changes neither the number of the jobs, nor those that      *)
(* wait, nor what the active one prints in the end, is invisible.          *)
LEMMA Invisible ==
  ASSUME IInv, IInv', Count' = Count, out_Qindex' = out_Qindex,
         \A k \in 1 .. Count : Q_items'[At(out_Qindex, k - 1)].comp = Q_items[At(out_Qindex, k - 1)].comp,
         \A k \in 2 .. Count : Q_items'[At(out_Qindex, k - 1)] = Q_items[At(out_Qindex, k - 1)],
         Count > 0 => LineOf'[1].text = LineOf[1].text
  PROVE  LineOf' = LineOf
<1>1. ASSUME NEW k \in 1 .. Count PROVE LineOf'[k] = LineOf[k]
  <2>1. CASE k = 1
    <3>1. LineOf[1] = [text |-> LineOf[1].text, comp |-> Q_items[At(out_Qindex, 1 - 1)].comp]
      BY <2>1 DEF LineOf
    <3>2. LineOf'[1] = [text |-> LineOf'[1].text, comp |-> Q_items'[At(out_Qindex, 1 - 1)].comp]
      BY <2>1 DEF LineOf, At
    <3> QED BY <2>1, <3>1, <3>2, LineType
  <2>2. CASE k \in 2 .. Count
    BY <2>2 DEF LineOf, At
  <2> QED BY <2>1, <2>2, LineType
<1> QED BY <1>1, SameLine

(* A job that is put behind the others is a text accepted by the line.     *)
LEMMA Accepted ==
  ASSUME IInv, IInv', NEW j \in TaskJobs \union TickJobs,
         Count' = Count + 1, out_Qindex' = out_Qindex,
         Q_items' = [Q_items EXCEPT ![At(out_Qindex, Count)] = j],
         UNCHANGED <<active_Qitem, ostate, databuf, text, last, ActiveJob>>,
         SetFlag(j.comp, 0)
  PROVE  Line!Accept
<1> USE DEF IInv
<1>0. (Count \in 0 .. SERO_SQENTRYS /\ LineOf \in Seq(Entries) /\ Len(LineOf) = Count)'
  BY LineType, PTL
<1>1. /\ Count \in 0 .. SERO_SQENTRYS /\ Count + 1 \in 1 .. SERO_SQENTRYS
      /\ LineOf \in Seq(Entries) /\ Len(LineOf) = Count
      /\ LineOf' \in Seq(Entries) /\ Len(LineOf') = Count + 1
  BY <1>0, LineType, SizeAssumption
<1>2. ASSUME NEW k \in 1 .. Count
      PROVE  Q_items'[At(out_Qindex, k - 1)] = Q_items[At(out_Qindex, k - 1)]
  <2>1. /\ k \in 1 .. SERO_SQENTRYS /\ k # Count + 1 /\ (Count + 1) - 1 = Count
        /\ out_Qindex \in Slots /\ Q_items \in [Slots -> SERI]
    BY <1>1, SizeAssumption DEF TypeOK
  <2>2. At(out_Qindex, k - 1) # At(out_Qindex, (Count + 1) - 1) /\ At(out_Qindex, k - 1) \in Slots
    BY <1>1, <2>1, Distinct
  <2> QED BY <2>1, <2>2
<1>3. ASSUME NEW k \in 1 .. Count PROVE LineOf'[k] = LineOf[k]
  <2>1. k = 1 /\ ActiveJob => RestActive' = RestActive
    <3> SUFFICES ASSUME k = 1, ActiveJob PROVE RestActive' = RestActive
      OBVIOUS
    <3>1. At(out_Qindex, 1 - 1) = active_Qitem
      BY Indexes DEF Calls, TypeOK
    <3>2. Active' = Active
      BY <3>1, <1>2 DEF Active
    <3> QED BY <3>2 DEF RestActive, Piece
  <2>2. k \in 1 .. Count'
    BY <1>1
  <2> QED BY <2>1, <2>2, <1>2 DEF LineOf, At
<1>4. LineOf'[Count + 1] = [text |-> Rest(j), comp |-> j.comp]
  <2>1. ~(Count + 1 = 1 /\ ActiveJob')
    BY <1>1 DEF Calls
  <2>2. Q_items'[At(out_Qindex, (Count + 1) - 1)] = j
    BY <1>1, Indexes DEF TypeOK
  <2>3. Count + 1 \in 1 .. Count'
    BY <1>1
  <2> QED BY <2>1, <2>2, <2>3 DEF LineOf, At
<1>5. LineOf' = Append(LineOf, [text |-> Rest(j), comp |-> j.comp])
  BY <1>1, <1>3, <1>4, LongerLine
<1>6. j.comp \in Flags \union {NoFlag}
  BY JobAssumption DEF SERI
<1>7. done' = Line!Set(done, j.comp, 0)
  BY DEF SetFlag, Line!Set
<1>8. Rest(j) \in {Rest(i) : i \in TaskJobs \union TickJobs}
  OBVIOUS
<1>9. Len(LineOf) < SERO_SQENTRYS
  BY <1>1, SizeAssumption
<1> QED BY <1>5, <1>6, <1>7, <1>8, <1>9 DEF Line!Accept

(* The end of a job is the end of the first text of the line.              *)
LEMMA Finished ==
  ASSUME IInv, IInv', Process_Next
  PROVE  Line!Finish
<1> USE DEF IInv
<1>0. (Count \in 0 .. SERO_SQENTRYS /\ LineOf \in Seq(Entries) /\ Len(LineOf) = Count)'
  BY LineType, PTL
<1>1. /\ Count' = Count - 1 /\ Count \in 1 .. SERO_SQENTRYS
      /\ out_Qindex' = After(out_Qindex) /\ Q_items' = Q_items
      /\ active_Qitem = out_Qindex /\ out_Qindex \in Slots /\ ActiveJob
  BY LineType DEF Process_Next, Count, Calls, ActiveJob, TypeOK
<1>2. LineOf \in Seq(Entries) /\ Len(LineOf) = Count
  BY LineType
<1>3. LineOf' \in Seq(Entries) /\ Len(LineOf') = Count - 1
  BY <1>0, <1>1
<1>4. ASSUME NEW k \in 1 .. Count - 1 PROVE LineOf'[k] = LineOf[k + 1]
  <2>1. k - 1 \in 0 .. SERO_SQENTRYS - 1 /\ (k - 1) + 1 = (k + 1) - 1 /\ k + 1 # 1
        /\ k + 1 \in 1 .. Count /\ k \in 1 .. Count'
        /\ k - 1 \in 0 .. SERO_SQENTRYS /\ k - 1 < SERO_SQENTRYS
    BY <1>1, SizeAssumption
  <2>2. At(After(out_Qindex), k - 1) = At(out_Qindex, (k + 1) - 1)
    BY <2>1, <1>1, Indexes
  <2>3. ~ActiveJob'
    BY DEF Process_Next, ActiveJob, Calls
  <2>4. At(out_Qindex, k - 1)' = At(After(out_Qindex), k - 1)
    BY <1>1 DEF At
  <2> QED BY <2>1, <2>2, <2>3, <2>4, <1>1 DEF LineOf
<1>5. LineOf' = Tail(LineOf) /\ LineOf # <<>>
  BY <1>1, <1>2, <1>3, <1>4, ShorterLine
<1>6. LineOf[1].text = text /\ LineOf[1].comp = Active.comp
  <2>1. At(out_Qindex, 1 - 1) = out_Qindex
    BY <1>1, Indexes
  <2>2. RestActive = <<>>
    <3>1. ostate = "GETJOB"
      BY DEF Process_Next, Calls
    <3> QED BY <3>1 DEF RestActive
  <2>3. text \o <<>> = text
    BY DEF TypeOK
  <2>4. LineOf[1] = [text |-> text \o RestActive, comp |-> Active.comp]
    <3>1. 1 \in 1 .. Count
      BY <1>1
    <3> QED BY <2>1, <3>1, <1>1 DEF LineOf, Active
  <2> QED BY <2>2, <2>3, <2>4
<1>7. done' = Line!Set(done, LineOf[1].comp, 1)
  BY <1>6 DEF Process_Next, SetFlag, Line!Set
<1>8. last' = LineOf[1].text
  BY <1>6 DEF Process_Next
<1> QED BY <1>5, <1>7, <1>8 DEF Line!Finish

(* Taking a job up from the queue, and the characters before the last.     *)
LEMMA Progresses ==
  ASSUME IInv, IInv', Process_GetJob \/ Process_Value \/ Process_Last
  PROVE  LineOf' = LineOf
<1> USE DEF IInv
<1>1. /\ Count' = Count /\ Count \in 1 .. SERO_SQENTRYS /\ ActiveJob'
      /\ out_Qindex' = out_Qindex /\ active_Qitem' = out_Qindex /\ out_Qindex \in Slots
  BY LineType DEF Process_GetJob, Process_Value, Process_Last, Count, Calls,
     ActiveJob, TypeOK
<1> DEFINE item == Q_items[out_Qindex]
<1>2. item \in SERI /\ Q_items \in [Slots -> SERI] /\ At(out_Qindex, 1 - 1) = out_Qindex
  BY <1>1, Indexes DEF TypeOK
<1>3. /\ Q_items'[out_Qindex].comp = item.comp
      /\ \A i \in Slots : i # out_Qindex => Q_items'[i] = Q_items[i]
  BY <1>1, <1>2 DEF Process_GetJob, Process_Value, Process_Last, SERI, Calls, ActiveJob
<1>4. ASSUME NEW k \in 2 .. Count
      PROVE  Q_items'[At(out_Qindex, k - 1)] = Q_items[At(out_Qindex, k - 1)]
  <2>1. k \in 1 .. SERO_SQENTRYS /\ 1 \in 1 .. SERO_SQENTRYS /\ k # 1
    BY <1>1, SizeAssumption
  <2>2. At(out_Qindex, k - 1) # At(out_Qindex, 1 - 1) /\ At(out_Qindex, k - 1) \in Slots
    BY <2>1, <1>1, Distinct
  <2> QED BY <2>2, <1>2, <1>3
<1>5. LineOf'[1].text = text' \o RestActive'
  <2>1. 1 \in 1 .. Count'
    BY <1>1
  <2> QED BY <2>1, <1>1 DEF LineOf
<1>6. text' \o RestActive' = LineOf[1].text
  <2>1. CASE Process_GetJob
    <3>1. item \in TaskJobs \union TickJobs /\ ~ActiveJob
      <4>1. ~ActiveJob
        BY <2>1 DEF Process_GetJob, ActiveJob
      <4>2. 1 \in 1 .. Count
        BY <1>1
      <4> QED BY <4>1, <4>2, <1>2 DEF Waiting
    <3>2. LineOf[1].text = Rest(item)
      BY <3>1, <1>1, <1>2 DEF LineOf
    <3>3. item.sptr = BUF <=> item.otype = "ONECHAR"
      BY <3>1, JobAssumption
    <3>4. /\ text' = <<>> /\ ostate' = "DOCHARS"
          /\ databuf' = IF item.otype \in {"ONECHAR", "NUM"} THEN item.dval ELSE databuf
          /\ Q_items' = IF item.otype = "ONECHAR"
                          THEN [Q_items EXCEPT ![out_Qindex].sptr = BUF] ELSE Q_items
      BY <2>1 DEF Process_GetJob
    <3>5. RestActive' = Rest(item)
      <4>1. CASE item.otype = "ONECHAR"
        BY <4>1, <3>3, <3>4, <1>1, <1>2 DEF RestActive, Piece, Active, Rest, SERI
      <4>2. CASE item.otype = "STR"
        BY <4>2, <3>3, <3>4, <1>1, <1>2 DEF RestActive, Piece, Active, Rest, SERI
      <4>3. CASE item.otype = "NUM"
        BY <4>3, <3>3, <3>4, <1>1, <1>2 DEF RestActive, Piece, Active, Rest, SERI
      <4> QED BY <4>1, <4>2, <4>3, <1>2 DEF SERI, Types
    <3>6. (LineOf \in Seq(Entries) /\ Len(LineOf) = Count)
      BY LineType
    <3>7. LineOf[1] \in Entries
      BY <3>6, <1>1
    <3>8. Rest(item) \in Seq(Printed)
      BY <3>2, <3>7 DEF Entries
    <3> QED BY <3>2, <3>4, <3>5, <3>8
  <2>2. CASE Process_Value \/ Process_Last
    <3>1. LineOf[1].text = text \o RestActive /\ Active = item
      BY <2>2, <1>1, <1>2 DEF Process_Value, Process_Last, LineOf, ActiveJob, Calls, Active
    <3>2. text \in Seq(Printed) /\ Piece \in Printed /\ databuf \in Printed
      BY <3>1, <1>2 DEF TypeOK, Piece, SERI, Printed
    <3>3. text' = Append(text, Piece)
      BY <2>2 DEF Process_Value, Process_Last
    <3>4. CASE Process_Value
      <4>1. RestActive = <<Piece, databuf>>
        BY <3>4 DEF Process_Value, RestActive
      <4>2. /\ Q_items'[out_Qindex].otype = "STR" /\ Q_items'[out_Qindex].sptr = BUF
            /\ databuf' = databuf /\ ostate' = "DOCHARS"
        BY <3>4, <1>1, <1>2, <3>1 DEF Process_Value, SERI, Calls, ActiveJob
      <4>3. RestActive' = <<databuf>>
        BY <4>2, <1>1 DEF RestActive, Active, Piece
      <4>4. text \o <<Piece, databuf>> = Append(text, Piece) \o <<databuf>>
        BY <3>2
      <4> QED BY <3>1, <3>3, <4>1, <4>3, <4>4
    <3>5. CASE Process_Last
      <4>1. RestActive = <<Piece>>
        BY <3>5 DEF Process_Last, RestActive
      <4>2. RestActive' = <<>>
        <5>1. ostate' = "GETJOB"
          BY <3>5 DEF Process_Last
        <5> QED BY <5>1 DEF RestActive
      <4>3. text \o <<Piece>> = Append(text, Piece) \o <<>>
        BY <3>2
      <4> QED BY <3>1, <3>3, <4>1, <4>2, <4>3
    <3> QED BY <2>2, <3>4, <3>5
  <2> QED BY <2>1, <2>2
<1>7. ASSUME NEW k \in 1 .. Count
      PROVE  Q_items'[At(out_Qindex, k - 1)].comp = Q_items[At(out_Qindex, k - 1)].comp
  BY <1>2, <1>3, <1>4
<1> HIDE DEF item
<1> QED BY <1>1, <1>4, <1>5, <1>6, <1>7, Invisible

(* The other steps.                                                        *)
LEMMA Unseen ==
  ASSUME IInv, IInv', \/ \E j \in TaskJobs : Send_Test(j)
                     \/ Send_Slot \/ Send_Load \/ Send_Store \/ Send_Index
                     \/ Process_Decrement
  PROVE  LineOf' = LineOf
<1> USE DEF IInv
<1>1. /\ Count' = Count /\ ActiveJob' = ActiveJob
      /\ UNCHANGED <<out_Qindex, Q_items, active_Qitem, ostate, databuf, text>>
  <2>1. CASE (\E j \in TaskJobs : Send_Test(j)) \/ Send_Slot \/ Send_Load
    BY <2>1 DEF Send_Test, Send_Slot, Send_Load, Count, ActiveJob
  <2>2. CASE Send_Store \/ Send_Index \/ Process_Decrement
    BY <2>2 DEF Send_Store, Send_Index, Process_Decrement, Count, Calls, ActiveJob,
       TypeOK
  <2> QED BY <2>1, <2>2
<1>2. RestActive' = RestActive
  BY <1>1 DEF RestActive, Active, Piece
<1>3. Count > 0 => LineOf'[1].text = LineOf[1].text
  <2> SUFFICES ASSUME Count > 0 PROVE LineOf'[1].text = LineOf[1].text
    OBVIOUS
  <2>1. 1 \in 1 .. Count /\ 1 \in 1 .. Count'
    BY <1>1, LineType
  <2> QED BY <2>1, <1>1, <1>2 DEF LineOf, At
<1> QED BY <1>1, <1>3, Invisible

(* Every step is one of the line's, or none.                               *)
LEMMA LineStep ==
  ~Racing /\ IInv /\ IInv' /\ [Next]_vars => [Line!Next]_<<LineOf, last, done>>
<1> SUFFICES ASSUME ~Racing, IInv, IInv', [Next]_vars
             PROVE  Line!Next \/ UNCHANGED <<LineOf, last, done>>
  OBVIOUS
<1>1. CASE Send_Fill
  <2>1. /\ Count' = Count + 1 /\ lqitem = At(out_Qindex, Count) /\ job \in TaskJobs
        /\ ActiveJob' = ActiveJob
    BY <1>1 DEF IInv, TypeOK, Send_Fill, Count, Calls, Sends, ActiveJob
  <2> QED BY <1>1, <2>1, Accepted DEF Send_Fill, Line!Next
<1>2. ASSUME NEW j \in TickJobs, Tick(j) PROVE Line!Next
  <2>1. /\ Count' = Count + 1 /\ inn_Qindex = At(out_Qindex, Count)
        /\ ActiveJob' = ActiveJob
    BY <1>2 DEF IInv, TypeOK, Tick, Count, CountRight, ActiveJob
  <2>2. SetFlag(j.comp, 0)
    BY <1>2, JobAssumption DEF Tick, SetFlag
  <2> QED BY <1>2, <2>1, <2>2, Accepted DEF Tick, Line!Next
<1>3. CASE Process_Next
  BY <1>3, Finished DEF Line!Next
<1>4. CASE Process_GetJob \/ Process_Value \/ Process_Last
  BY <1>4, Progresses DEF Process_GetJob, Process_Value, Process_Last
<1>5. CASE \/ \E j \in TaskJobs : Send_Test(j)
           \/ Send_Slot \/ Send_Load \/ Send_Store \/ Send_Index
           \/ Process_Decrement
  BY <1>5, Unseen DEF Send_Test, Send_Slot, Send_Load, Send_Store, Send_Index,
     Process_Decrement
<1>6. CASE UNCHANGED vars
  BY <1>6 DEF LineOf, Count, At, ActiveJob, RestActive, Active, Piece
<1> QED BY <1>1, <1>2, <1>3, <1>4, <1>5, <1>6 DEF Next, UD_Send, UD_Process, UD_Tick

(* The circular queue, the buffer for values and the two state machines    *)
(* implement the line of ConsoleLine, for any size of the queue and any    *)
(* jobs, while the tick does not print inside the tasks' calls.            *)
THEOREM PrintsInOrder == ~Racing => (Spec => ImplementsLine)
<1> SUFFICES ASSUME ~Racing PROVE Spec => ImplementsLine
  OBVIOUS
<1>1. Init => Line!Init
  <2> SUFFICES ASSUME Init PROVE Line!Init
    OBVIOUS
  <2>1. LineOf \in Seq(Entries) /\ Len(LineOf) = Count /\ Count = 0
    BY IInvInit, LineType DEF Init, Count
  <2>2. LineOf = <<>>
    BY <2>1
  <2>3. done \in [Flags -> {0, 1}]
    BY DEF Init
  <2> QED BY <2>2, <2>3 DEF Init, Line!Init
<1>2. IInv /\ IInv' /\ [Next]_vars => [Line!Next]_<<LineOf, last, done>>
  BY LineStep
<1> QED BY <1>1, <1>2, Invariant, PTL DEF Spec, ImplementsLine, Line!Spec
=============================================================================
