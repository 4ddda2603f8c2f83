------------------------------ MODULE UartOut ------------------------------
(***************************************************************************)
(* The console's output on the Controls processor (Uart2_Outp.c): a        *)
(* circular queue of print jobs between those who print and the idle       *)
(* hook, which feeds the characters to USART1.                             *)
(*                                                                         *)
(* Those who print are the idle hook and the receive thread, which do not  *)
(* preempt each other inside this file (a thread gets the processor only   *)
(* at the idle hook's kernel calls), and the A/D state machine, which runs *)
(* in the tick interrupt and may print at any point of the other two.  A   *)
(* call of a task is therefore cut into its accesses to the shared         *)
(* variables, and a call from the tick is one step.                        *)
(*                                                                         *)
(* A string is one piece of text and so is a value in hex: of the          *)
(* characters of a piece only the last changes any state.                  *)
(***************************************************************************)
EXTENDS Naturals, Sequences

CONSTANTS
  SERO_SQENTRYS,  \* slots of the queue (100)
  Strings,        \* strings that are printed, by their addresses
  Values,         \* values that are printed
  BUF, NULL,      \* the address of serd_databuf, and address 0
  Flags, NoFlag,  \* completion flags, and the null pointer
  TaskJobs,       \* what the idle hook and the receive thread print
  TickJobs,       \* what the A/D state machine prints
  Racing          \* FALSE when the tick prints between the tasks' calls only

Types == {"ONECHAR", "STR", "NUM"}      \* NUM: a type from SERO_TYPE_32 on
SERI == [otype : Types, sptr : Strings \union {BUF, NULL}, dval : Values,
         comp : Flags \union {NoFlag}]
Zeroed == [otype |-> "STR", sptr |-> NULL, dval |-> 0, comp |-> NoFlag]
Printed == Strings \union {NULL} \union Values
Slots == 0 .. SERO_SQENTRYS - 1

ASSUME SizeAssumption == SERO_SQENTRYS \in Nat \ {0}
ASSUME TextAssumption == /\ BUF \notin Strings /\ NoFlag \notin Flags
                         /\ 0 \in Values
ASSUME JobAssumption ==
  /\ TaskJobs \subseteq SERI /\ TickJobs \subseteq SERI
  /\ \A j \in TaskJobs \union TickJobs : j.sptr = BUF <=> j.otype = "ONECHAR"
  /\ \A j \in TickJobs : j.comp = NoFlag
ASSUME RacingAssumption == Racing \in BOOLEAN

VARIABLES
  num_Qitems, inn_Qindex, out_Qindex, Q_items, active_Qitem, ostate, databuf,
  done,                     \* the completion flags
  pc, job, lqitem, reg,     \* the task that is inside a call, its locals
  hit,                      \* where the tick came into that call, or "NONE"
  text, last                \* printed of the active job; the last job's text

queueVars == <<num_Qitems, inn_Qindex, out_Qindex, Q_items, active_Qitem,
               ostate, databuf>>
vars == <<queueVars, done, pc, job, lqitem, reg, hit, text, last>>

Init ==
  /\ num_Qitems = 0 /\ inn_Qindex = 0 /\ out_Qindex = 0
  /\ Q_items = [i \in Slots |-> Zeroed]
  /\ active_Qitem = 0 /\ ostate = "GETJOB" /\ databuf = 0
  /\ done = [f \in Flags |-> 0]
  /\ pc = "IDLE" /\ job = Zeroed /\ lqitem = 0 /\ reg = 0 /\ hit = "NONE"
  /\ text = <<>> /\ last = <<>>

-----------------------------------------------------------------------------
(* Mutant: the index runs past the end of the array.                       *)
After_NoWrap(i) == i + 1

(* The slot after i in the circular queue.                                 *)
After(i) == IF i + 1 = SERO_SQENTRYS THEN 0 ELSE i + 1

SetFlag(f, v) == done' = IF f = NoFlag THEN done ELSE [done EXCEPT ![f] = v]

(* Mutant: the test of the queue's size is off by one.                     *)
Send_Test_TooMany(j) ==
  /\ pc = "IDLE"
  /\ num_Qitems # SERO_SQENTRYS + 1
  /\ pc' = "SLOT" /\ job' = j
  /\ UNCHANGED <<queueVars, done, lqitem, reg, hit, text, last>>

(* UD_Send, called by a task: tossed when the queue is full.               *)
Send_Test(j) ==
  /\ pc = "IDLE"
  /\ num_Qitems # SERO_SQENTRYS
  /\ pc' = "SLOT" /\ job' = j
  /\ UNCHANGED <<queueVars, done, lqitem, reg, hit, text, last>>

Send_Slot ==
  /\ pc = "SLOT"
  /\ lqitem' = inn_Qindex
  /\ pc' = "LOAD"
  /\ UNCHANGED <<queueVars, done, job, reg, hit, text, last>>

(* An increment is a load and a store.                                     *)
Send_Load ==
  /\ pc = "LOAD"
  /\ reg' = num_Qitems
  /\ pc' = "STORE"
  /\ UNCHANGED <<queueVars, done, job, lqitem, hit, text, last>>

Send_Store ==
  /\ pc = "STORE"
  /\ num_Qitems' = reg + 1
  /\ pc' = "INDEX"
  /\ UNCHANGED <<inn_Qindex, out_Qindex, Q_items, active_Qitem, ostate, databuf,
                 done, job, lqitem, reg, hit, text, last>>

(* The compiler may keep the index that was loaded for the slot's address, *)
(* or load it again.                                                       *)
Send_Index ==
  /\ pc = "INDEX"
  /\ \E i \in {lqitem, inn_Qindex} : inn_Qindex' = After(i)
  /\ pc' = "FILL"
  /\ UNCHANGED <<num_Qitems, out_Qindex, Q_items, active_Qitem, ostate, databuf,
                 done, job, lqitem, reg, hit, text, last>>

Send_Fill ==
  /\ pc = "FILL"
  /\ Q_items' = [Q_items EXCEPT ![lqitem] = job]
  /\ SetFlag(job.comp, 0)
  /\ pc' = "IDLE" /\ hit' = "NONE"
  /\ UNCHANGED <<num_Qitems, inn_Qindex, out_Qindex, active_Qitem, ostate,
                 databuf, job, lqitem, reg, text, last>>

(* UD_Send, called in the tick: nothing comes between its steps.  The      *)
(* calls are some microseconds long and the ticks a millisecond apart, so  *)
(* that a call of a task is interrupted at one point at most.              *)
Tick(j) ==
  /\ pc = "IDLE" \/ (Racing /\ hit \in {"NONE", pc})
  /\ hit' = IF pc = "IDLE" THEN "NONE" ELSE pc
  /\ num_Qitems # SERO_SQENTRYS
  /\ num_Qitems' = num_Qitems + 1
  /\ inn_Qindex' = After(inn_Qindex)
  /\ Q_items' = [Q_items EXCEPT ![inn_Qindex] = j]
  /\ UNCHANGED <<out_Qindex, active_Qitem, ostate, databuf, done, pc, job,
                 lqitem, reg, text, last>>

-----------------------------------------------------------------------------
(* UD_Process.                                                             *)

Active == Q_items[active_Qitem]
Piece == IF Active.sptr = BUF THEN databuf ELSE Active.sptr

Process_GetJob ==
  /\ pc = "IDLE" /\ ostate = "GETJOB"
  /\ num_Qitems # 0
  /\ active_Qitem' = out_Qindex
  /\ ostate' = "DOCHARS"
  /\ LET item == Q_items[out_Qindex]
     IN  /\ databuf' = IF item.otype \in {"ONECHAR", "NUM"} THEN item.dval ELSE databuf
         /\ Q_items' = IF item.otype = "ONECHAR"
                         THEN [Q_items EXCEPT ![out_Qindex].sptr = BUF] ELSE Q_items
  /\ text' = <<>>
  /\ UNCHANGED <<num_Qitems, inn_Qindex, out_Qindex, done, pc, job, lqitem, reg, hit,
                 last>>

(* The last character of the string of a job that has a value: the value   *)
(* follows, in the buffer, as if it were the string.                       *)
Process_Value ==
  /\ pc = "IDLE" /\ ostate = "DOCHARS" /\ Active.otype = "NUM"
  /\ text' = Append(text, Piece)
  /\ Q_items' = [Q_items EXCEPT ![active_Qitem].otype = "STR",
                                ![active_Qitem].sptr = BUF]
  /\ UNCHANGED <<num_Qitems, inn_Qindex, out_Qindex, active_Qitem, ostate,
                 databuf, done, pc, job, lqitem, reg, hit, last>>

(* Mutant: a value is printed without its string.                          *)
Process_Last_NoString ==
  /\ pc = "IDLE" /\ ostate = "DOCHARS"
  /\ text' = IF Active.otype = "NUM" THEN <<databuf>> ELSE Append(text, Piece)
  /\ ostate' = "GETJOB"
  /\ reg' = num_Qitems
  /\ pc' = "DECREMENT"
  /\ UNCHANGED <<num_Qitems, inn_Qindex, out_Qindex, Q_items, active_Qitem,
                 databuf, done, job, lqitem, hit, last>>

(* The last character of a job, and the load of the decrement.             *)
Process_Last ==
  /\ pc = "IDLE" /\ ostate = "DOCHARS" /\ Active.otype # "NUM"
  /\ text' = Append(text, Piece)
  /\ ostate' = "GETJOB"
  /\ reg' = num_Qitems
  /\ pc' = "DECREMENT"
  /\ UNCHANGED <<num_Qitems, inn_Qindex, out_Qindex, Q_items, active_Qitem,
                 databuf, done, job, lqitem, hit, last>>

Process_Decrement ==
  /\ pc = "DECREMENT"
  /\ num_Qitems' = reg - 1
  /\ pc' = "NEXT"
  /\ UNCHANGED <<inn_Qindex, out_Qindex, Q_items, active_Qitem, ostate, databuf,
                 done, job, lqitem, reg, hit, text, last>>

(* Mutant: the completion is not signalled.                                *)
Process_Next_Silent ==
  /\ pc = "NEXT"
  /\ out_Qindex' = After(out_Qindex)
  /\ last' = text
  /\ pc' = "IDLE" /\ hit' = "NONE"
  /\ UNCHANGED <<num_Qitems, inn_Qindex, Q_items, active_Qitem, ostate, databuf,
                 done, job, lqitem, reg, text>>

Process_Next ==
  /\ pc = "NEXT"
  /\ out_Qindex' = After(out_Qindex)
  /\ SetFlag(Active.comp, 1)
  /\ last' = text
  /\ pc' = "IDLE" /\ hit' = "NONE"
  /\ UNCHANGED <<num_Qitems, inn_Qindex, Q_items, active_Qitem, ostate, databuf,
                 job, lqitem, reg, text>>

UD_Send == \/ \E j \in TaskJobs : Send_Test(j)
           \/ Send_Slot \/ Send_Load \/ Send_Store \/ Send_Index \/ Send_Fill
UD_Process == \/ Process_GetJob \/ Process_Value \/ Process_Last
              \/ Process_Decrement \/ Process_Next
UD_Tick == \E j \in TickJobs : Tick(j)

Next == UD_Send \/ UD_Process \/ UD_Tick
Spec == Init /\ [][Next]_vars

(* The idle hook comes round for ever, the USART sends what it is given,   *)
(* and a call that was begun is finished.                                  *)
FairSpec ==
  /\ Spec
  /\ WF_vars(UD_Process)
  /\ WF_vars(Send_Slot \/ Send_Load \/ Send_Store \/ Send_Index \/ Send_Fill)

-----------------------------------------------------------------------------
(* Every variable has its type.                                            *)
TypeOK ==
  /\ num_Qitems \in 0 .. SERO_SQENTRYS
  /\ inn_Qindex \in Slots /\ out_Qindex \in Slots /\ active_Qitem \in Slots
  /\ Q_items \in [Slots -> SERI]
  /\ ostate \in {"GETJOB", "DOCHARS"} /\ databuf \in Values
  /\ done \in [Flags -> {0, 1}]
  /\ {pc, hit} \subseteq {"IDLE", "SLOT", "LOAD", "STORE", "INDEX", "FILL",
                         "DECREMENT", "NEXT", "NONE"}
  /\ job \in SERI /\ lqitem \in Slots /\ reg \in 0 .. SERO_SQENTRYS
  /\ text \in Seq(Printed) /\ last \in Seq(Printed)

(* Jobs in the queue, counting one whose call is not finished as not there *)
(* yet, and one that is being removed as still there.                      *)
Count == CASE pc \in {"INDEX", "FILL"} -> num_Qitems - 1
           [] pc = "NEXT" -> num_Qitems + 1
           [] OTHER -> num_Qitems

(* The slot at distance k after i.                                         *)
At(i, k) == IF i + k >= SERO_SQENTRYS THEN i + k - SERO_SQENTRYS ELSE i + k

(* The count says how far the two indexes are apart, although the three    *)
(* are kept separately, by producers and consumer.                         *)
CountRight ==
  inn_Qindex = At(out_Qindex, IF pc = "FILL" THEN Count + 1 ELSE Count)

(* What a task has seen inside a call still holds when it uses it.         *)
Sends == {"SLOT", "LOAD", "STORE", "INDEX", "FILL"}
ActiveJob == ostate = "DOCHARS" \/ pc \in {"DECREMENT", "NEXT"}
Calls ==
  /\ hit = "NONE"
  /\ pc \in Sends => job \in TaskJobs
  /\ pc \in {"SLOT", "LOAD", "STORE"} => num_Qitems # SERO_SQENTRYS
  /\ pc \in {"LOAD", "STORE", "INDEX"} => lqitem = inn_Qindex
  /\ pc = "FILL" => lqitem = At(out_Qindex, Count)
  /\ pc \in {"STORE", "DECREMENT"} => reg = num_Qitems
  /\ pc \in {"INDEX", "FILL"} => num_Qitems > 0
  /\ pc = "NEXT" => num_Qitems < SERO_SQENTRYS
  /\ pc \in {"DECREMENT", "NEXT"} => ostate = "GETJOB"
  /\ ActiveJob => Count > 0 /\ active_Qitem = out_Qindex

(* The jobs that wait are as they were given, sound to be printed.         *)
Waiting == \A k \in 1 .. Count :
  \/ k = 1 /\ ActiveJob
  \/ Q_items[At(out_Qindex, k - 1)] \in TaskJobs \union TickJobs

(* The inductive invariant, for a tick that prints between calls only.     *)
IInv == TypeOK /\ CountRight /\ Calls /\ Waiting

(* What is still to be printed of the job in a slot, and of all it prints. *)
Rest(item) == CASE item.otype = "ONECHAR" -> <<item.dval>>
                [] item.otype = "STR" -> <<item.sptr>>
                [] item.otype = "NUM" -> <<item.sptr, item.dval>>
RestActive == IF ostate = "GETJOB" THEN <<>>
              ELSE IF Active.otype = "NUM" THEN <<Piece, databuf>> ELSE <<Piece>>
LineOf == [k \in 1 .. Count |->
  LET item == Q_items[At(out_Qindex, k - 1)]
  IN  [text |-> IF k = 1 /\ ActiveJob THEN text \o RestActive ELSE Rest(item),
       comp |-> item.comp]]

(* Queue, buffer and state machine together are the line of ConsoleLine.   *)
Line == INSTANCE ConsoleLine WITH
          Texts <- {Rest(j) : j \in TaskJobs \union TickJobs},
          Capacity <- SERO_SQENTRYS, line <- LineOf
ImplementsLine == Line!Spec

(* A completion flag that was cleared when its job was accepted is set     *)
(* again.                                                                  *)
Completes == \A f \in Flags :
  (pc = "FILL" /\ job.comp = f) ~> (done[f] = 1)
=============================================================================
