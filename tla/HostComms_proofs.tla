-------------------------- MODULE HostComms_proofs --------------------------
(***************************************************************************)
(* Proofs about HostComms, for any users, programs, data and limits.       *)
(***************************************************************************)
EXTENDS HostComms, FiniteSetTheorems, SequenceTheorems, TLAPS

USE DEF vars, userVars, jobVars, lineVars

(* The users' side of the type invariant, and that of the packets.         *)
UsersOK ==
  /\ calm \in BOOLEAN
  /\ want \in [Users -> Commands \cup {"None"}]
  /\ gone \subseteq Queued
  /\ serving \in Users \cup {Nobody}
  /\ serving = Nobody <=> pc["Canned"] = "IDLE"
  /\ serving # Nobody => serving \in Queued
  /\ PacketHandler \in {"BOOT", "READY"}

JobsOK ==
  /\ pc \in [Requesters -> {"IDLE", "PARMS", "SEND", "WAIT"}]
  /\ cmd \in [Requesters -> Commands]
  /\ loops \in [Requesters -> 0 .. LOOPS]
  /\ j \in [Requesters -> 0 .. LOOPS] /\ looped \in [Requesters -> 0 .. LOOPS]
  /\ sent \in [Requesters -> Data]

PacketsOK ==
  /\ inbox \in [Requesters -> Seq(Messages)]
  /\ toSerial \in [Requesters -> Seq(Messages)]
  /\ line \in Seq(Messages)

LEMMA Types == TypeOK <=> UsersOK /\ JobsOK /\ PacketsOK
  BY DEF TypeOK, UsersOK, JobsOK, PacketsOK

LEMMA Constants ==
  /\ AnyData \in Data /\ LOOPS \in Nat \ {0} /\ Nobody \notin Users
  /\ "Canned" \in Requesters
<1>1. Data # {}
  BY DataAssumption, FS_EmptySet
<1> QED BY <1>1, DataAssumption, UsersAssumption DEF AnyData, Requesters

(* The first packet of a queue, and the rest.                              *)
LEMMA Rest ==
  ASSUME NEW S, NEW s \in Seq(S), s # <<>>
  PROVE  /\ Head(s) = s[1] /\ Head(s) \in S /\ Tail(s) \in Seq(S)
         /\ Len(s) \in Nat \ {0} /\ Len(Tail(s)) = Len(s) - 1
         /\ \A i \in 1 .. Len(Tail(s)) : Tail(s)[i] = s[i + 1]
  BY HeadTailProperties, EmptySeq

-----------------------------------------------------------------------------
(* The packets keep their type whatever is done with them.                 *)
LEMMA PacketsStep ==
  ASSUME JobsOK, PacketsOK, Next
  PROVE  PacketsOK'
<1> USE DEF PacketsOK, JobsOK
<1>1. CASE UNCHANGED <<inbox, toSerial, line>>
  BY <1>1
<1>2. CASE DumpOne /\ UNCHANGED <<toSerial, line>>
  <2>1. inbox["Canned"] # <<>> => Tail(inbox["Canned"]) \in Seq(Messages)
    BY Constants, Rest
  <2> QED BY <1>2, <2>1, Constants DEF DumpOne
<1>3. ASSUME NEW r \in Requesters, NEW n \in 1 .. LOOPS, Program_Start(r, n)
      PROVE  PacketsOK'
  BY <1>3, EmptySeq DEF Program_Start
<1>4. ASSUME NEW r \in Requesters, Send(r) PROVE PacketsOK'
  <2> DEFINE d == CHOOSE d \in Free(r) : TRUE
             m == [from |-> r, cmd |-> cmd[r], data |-> d]
  <2>1. d \in Data
    BY <1>4, Constants DEF Send, Free, Tags
  <2>2. m \in Messages
    BY <1>4, <2>1 DEF Send, Messages, Commands
  <2>3. toSerial' = [toSerial EXCEPT ![r] = Append(@, m)]
        /\ UNCHANGED <<inbox, line>>
    BY <1>4 DEF Send
  <2> HIDE DEF m
  <2> QED BY <2>2, <2>3
<1>5. ASSUME NEW r \in Requesters, Response(r), UNCHANGED <<toSerial, line>>
      PROVE  PacketsOK'
  BY <1>5, Rest DEF Response
<1>6. ASSUME NEW r \in Requesters, Serial_Send(r) PROVE PacketsOK'
  <2>1. /\ Head(toSerial[r]) \in Messages /\ Tail(toSerial[r]) \in Seq(Messages)
    BY <1>6, Rest DEF Serial_Send
  <2> QED BY <1>6, <2>1 DEF Serial_Send
<1>7. CASE Serial_Bad
  BY <1>7, Rest DEF Serial_Bad
<1>8. CASE ProcessPacket
  <2> DEFINE m == Head(line)
  <2>1. m \in Messages /\ Tail(line) \in Seq(Messages)
    BY <1>8, Rest DEF ProcessPacket
  <2>2. /\ line' = Tail(line) /\ toSerial' = toSerial
        /\ inbox' = [r \in Requesters |->
                       IF Subscribed(r, m) THEN Append(inbox[r], m) ELSE inbox[r]]
    BY <1>8 DEF ProcessPacket
  <2> HIDE DEF m
  <2> QED BY <2>1, <2>2
<1>9. ASSUME NEW r \in Requesters, Work(r) PROVE PacketsOK'
  BY <1>1, <1>5, <1>9
  DEF Work, Dloop_Same, Dloop_Differs, Readings, Timeout
<1>10. ASSUME NEW u \in Users, Ask(u, "Dloop") \/ Ask(u, "ADGetAll") \/ Ask(u, "Unknown")
                               \/ GiveUp(u) \/ Canned_Take(u)
       PROVE  PacketsOK'
  BY <1>1, <1>2, <1>10 DEF Ask, GiveUp, Canned_Take
<1>11. ASSUME Canned_Dump \/ PacketHandler_Boot \/ Canned_NotFound PROVE PacketsOK'
  BY <1>1, <1>2, <1>11 DEF Canned_Dump, PacketHandler_Boot, Canned_NotFound
<1>12. ASSUME NEW n \in 1 .. LOOPS, Get_InputParms(n) PROVE PacketsOK'
  BY <1>1, <1>12 DEF Get_InputParms
<1> QED
  BY <1>3, <1>4, <1>6, <1>7, <1>8, <1>9, <1>10, <1>11, <1>12
  DEF Next, Serial_Recv, Commands

-----------------------------------------------------------------------------
(* The users: who is served has asked, and is served while Canned_Packets  *)
(* is busy.                                                                *)
LEMMA FinishUsers ==
  ASSUME UsersOK, JobsOK, NEW r \in Requesters, pc[r] # "IDLE", Finish(r),
         UNCHANGED <<calm, PacketHandler>>
  PROVE  UsersOK'
<1> USE DEF UsersOK, JobsOK, Queued
<1>1. CASE r = "Canned"
  <2>1. serving \in Users /\ serving # Nobody
    BY <1>1
  <2>2. /\ want' = [want EXCEPT ![serving] = "None"]
        /\ gone' = gone \ {serving} /\ serving' = Nobody
        /\ pc' = [pc EXCEPT !["Canned"] = "IDLE"]
    BY <1>1 DEF Finish
  <2> QED BY <2>1, <2>2, Constants
<1>2. CASE r # "Canned"
  <2>1. UNCHANGED <<want, gone, serving>> /\ pc' = [pc EXCEPT ![r] = "IDLE"]
    BY <1>2 DEF Finish
  <2> QED BY <1>2, <2>1, Constants
<1> QED BY <1>1, <1>2

LEMMA WorkEnds ==
  ASSUME NEW r \in Requesters, Work(r)
  PROVE  /\ pc[r] = "WAIT" /\ UNCHANGED <<calm, PacketHandler, toSerial, line>>
         /\ \/ Finish(r)
            \/ /\ Dloop_Same(r) /\ j[r] + 1 < loops[r]
               /\ j' = [j EXCEPT ![r] = @ + 1] /\ pc' = [pc EXCEPT ![r] = "SEND"]
               /\ UNCHANGED <<want, gone, serving, cmd, loops, sent, looped>>
         /\ \/ inbox' = inbox
            \/ inbox[r] # <<>> /\ inbox' = [inbox EXCEPT ![r] = Tail(@)]
  BY DEF Work, Dloop_Same, Dloop_Differs, Readings, Timeout, Response

LEMMA UsersStep ==
  ASSUME UsersOK, JobsOK, Next
  PROVE  UsersOK'
<1> USE DEF UsersOK, Queued
<1>0. "Canned" \in Requesters /\ Nobody \notin Users
  BY Constants
<1>1. ASSUME UNCHANGED <<calm, want, gone, serving, PacketHandler>>,
             pc'["Canned"] = "IDLE" <=> pc["Canned"] = "IDLE"
      PROVE  UsersOK'
  BY <1>1
<1>2. ASSUME NEW r \in Requesters, pc[r] # "IDLE", NEW to \in {"SEND", "WAIT"},
             pc' = [pc EXCEPT ![r] = to]
      PROVE  pc'["Canned"] = "IDLE" <=> pc["Canned"] = "IDLE"
  BY <1>0, <1>2 DEF JobsOK
<1>3. ASSUME NEW u \in Users, NEW c \in Commands, Ask(u, c) PROVE UsersOK'
  <2>1. c # "None"
    BY DEF Commands
  <2>2. /\ want' = [want EXCEPT ![u] = c] /\ want[u] = "None"
        /\ UNCHANGED <<calm, gone, serving, PacketHandler, pc>>
    BY <1>3 DEF Ask
  <2> QED BY <2>1, <2>2
<1>4. ASSUME NEW u \in Users, GiveUp(u) PROVE UsersOK'
  BY <1>4 DEF GiveUp
<1>5. ASSUME NEW u \in Users, Canned_Take(u) PROVE UsersOK'
  <2>1. /\ u \in Queued /\ serving' = u /\ pc' = [pc EXCEPT !["Canned"] = "PARMS"]
        /\ UNCHANGED <<calm, want, gone, PacketHandler>>
    BY <1>5 DEF Canned_Take
  <2> QED BY <1>0, <2>1 DEF JobsOK
<1>6. CASE Canned_Dump
  BY <1>1, <1>6 DEF Canned_Dump
<1>7. CASE PacketHandler_Boot
  BY <1>7 DEF PacketHandler_Boot
<1>8. CASE Canned_NotFound
  BY <1>0, <1>8, FinishUsers DEF Canned_NotFound
<1>9. ASSUME NEW n \in 1 .. LOOPS, Get_InputParms(n) PROVE UsersOK'
  BY <1>0, <1>1, <1>2, <1>9 DEF Get_InputParms
<1>10. ASSUME NEW r \in Requesters, NEW n \in 1 .. LOOPS, Program_Start(r, n)
       PROVE  UsersOK'
  <2>1. /\ r # "Canned" /\ pc' = [pc EXCEPT ![r] = "SEND"]
        /\ UNCHANGED <<calm, want, gone, serving, PacketHandler>>
    BY <1>10 DEF Program_Start
  <2> QED BY <1>0, <1>1, <2>1 DEF JobsOK
<1>11. ASSUME NEW r \in Requesters, Send(r) PROVE UsersOK'
  BY <1>1, <1>2, <1>11 DEF Send
<1>12. ASSUME NEW r \in Requesters, Work(r) PROVE UsersOK'
  <2>1. pc[r] # "IDLE" /\ UNCHANGED <<calm, PacketHandler>>
    BY <1>12, WorkEnds
  <2>2. CASE Finish(r)
    BY <2>1, <2>2, FinishUsers
  <2>3. CASE ~Finish(r)
    <3>1. /\ pc' = [pc EXCEPT ![r] = "SEND"]
          /\ UNCHANGED <<calm, want, gone, serving, PacketHandler>>
      BY <1>12, <2>3, WorkEnds
    <3> QED BY <1>1, <1>2, <2>1, <3>1
  <2> QED BY <2>2, <2>3
<1>13. ASSUME NEW r \in Requesters, Serial_Send(r) PROVE UsersOK'
  BY <1>1, <1>13 DEF Serial_Send
<1>14. CASE Serial_Recv
  BY <1>1, <1>14 DEF Serial_Recv, Serial_Bad, ProcessPacket
<1> QED
  BY <1>3, <1>4, <1>5, <1>6, <1>7, <1>8, <1>9, <1>10, <1>11, <1>12, <1>13, <1>14
  DEF Next

-----------------------------------------------------------------------------
(* The jobs.  An answer that is counted is the only one awaited, and not   *)
(* counted yet.                                                            *)
LEMMA Answer ==
  ASSUME JobsOK, PacketsOK, line # <<>>, NEW r \in Requesters,
         Head(line).from = r, pc[r] = "WAIT", sent[r] = Head(line).data,
         Counted(r), OnTheWay(r)
  PROVE  1 \in AwaitedAt(line, r) /\ looped[r] = j[r] /\ j[r] < loops[r]
<1>1. Head(line) = line[1] /\ 1 \in 1 .. Len(line)
  BY Rest DEF PacketsOK
<1>2. 1 \in AwaitedAt(line, r)
  BY <1>1 DEF AwaitedAt
<1> QED BY <1>2 DEF OnTheWay, Counted

(* What a job does to itself it does not do to another.                    *)
JobSame(q) == /\ pc'[q] = pc[q] /\ cmd'[q] = cmd[q] /\ loops'[q] = loops[q]
              /\ j'[q] = j[q] /\ sent'[q] = sent[q] /\ looped'[q] = looped[q]

LEMMA CountedSame == ASSUME NEW q \in Requesters, Counted(q), JobSame(q)
                     PROVE  Counted(q)'
  BY DEF Counted, JobSame

LEMMA FinishJobs ==
  ASSUME JobsOK, NEW r \in Requesters, Finish(r)
  PROVE  /\ JobsOK'
         /\ pc'[r] = "IDLE" /\ j'[r] = 0 /\ looped'[r] = 0 /\ Counted(r)'
         /\ \A q \in Requesters \ {r} : JobSame(q)
<1> USE Constants DEF JobsOK, JobSame
<1>1. /\ pc' = [pc EXCEPT ![r] = "IDLE"] /\ loops' = [loops EXCEPT ![r] = 0]
      /\ j' = [j EXCEPT ![r] = 0] /\ looped' = [looped EXCEPT ![r] = 0]
      /\ sent' = [sent EXCEPT ![r] = AnyData]
      /\ cmd' = [cmd EXCEPT ![r] = "Dloop"] \/ cmd' = cmd
  BY DEF Finish
<1>2. "Dloop" \in Commands /\ 0 \in 0 .. LOOPS
  BY DEF Commands
<1>3. JobsOK'
  BY <1>1, <1>2
<1>4. pc'[r] = "IDLE" /\ j'[r] = 0 /\ looped'[r] = 0
  BY <1>1
<1>5. Counted(r)'
  BY <1>4 DEF Counted
<1> QED BY <1>1, <1>3, <1>4, <1>5

LEMMA JobsStep ==
  ASSUME UsersOK, JobsOK, PacketsOK, Next,
         \A r \in Requesters : Counted(r) /\ OnTheWay(r)
  PROVE  JobsOK' /\ \A r \in Requesters : Counted(r)'
<1> USE DEF JobsOK
<1>0. "Canned" \in Requesters /\ LOOPS \in Nat \ {0}
  BY Constants
<1>1. ASSUME UNCHANGED <<pc, cmd, loops, j, sent, looped>>
      PROVE  JobsOK' /\ \A r \in Requesters : Counted(r)'
  BY <1>1 DEF Counted
<1>2. ASSUME NEW r \in Requesters, Finish(r)
      PROVE  JobsOK' /\ \A q \in Requesters : Counted(q)'
  BY <1>2, FinishJobs, CountedSame
<1>3. ASSUME NEW u \in Users, Canned_Take(u)
      PROVE  JobsOK' /\ \A r \in Requesters : Counted(r)'
  <2>1. /\ pc["Canned"] = "IDLE" /\ pc' = [pc EXCEPT !["Canned"] = "PARMS"]
        /\ UNCHANGED <<cmd, loops, j, sent, looped>>
    BY <1>3 DEF Canned_Take
  <2>2. JobsOK'
    BY <1>0, <2>1
  <2> QED BY <1>0, <2>1, <2>2 DEF Counted
<1>4. ASSUME NEW n \in 1 .. LOOPS, Get_InputParms(n)
      PROVE  JobsOK' /\ \A r \in Requesters : Counted(r)'
  <2>1. /\ pc["Canned"] = "PARMS" /\ pc' = [pc EXCEPT !["Canned"] = "SEND"]
        /\ cmd' = [cmd EXCEPT !["Canned"] = want[serving]]
        /\ loops' = [loops EXCEPT !["Canned"] = n]
        /\ UNCHANGED <<j, sent, looped>>
    BY <1>4 DEF Get_InputParms
  <2>2. want[serving] \in Commands
    BY <2>1 DEF UsersOK, Queued
  <2>3. JobsOK'
    BY <1>0, <2>1, <2>2
  <2>4. Counted("Canned")'
    BY <1>0, <2>1 DEF Counted
  <2>5. \A q \in Requesters \ {"Canned"} : Counted(q)'
    BY <2>1, CountedSame DEF JobSame
  <2> QED BY <2>3, <2>4, <2>5
<1>5. ASSUME NEW r \in Requesters, NEW n \in 1 .. LOOPS, Program_Start(r, n)
      PROVE  JobsOK' /\ \A q \in Requesters : Counted(q)'
  <2>1. /\ pc[r] = "IDLE" /\ pc' = [pc EXCEPT ![r] = "SEND"]
        /\ loops' = [loops EXCEPT ![r] = n]
        /\ UNCHANGED <<cmd, j, sent, looped>>
    BY <1>5 DEF Program_Start
  <2>2. JobsOK'
    BY <1>0, <2>1
  <2>3. Counted(r)'
    BY <2>1 DEF Counted
  <2>4. \A q \in Requesters \ {r} : Counted(q)'
    BY <2>1, CountedSame DEF JobSame
  <2> QED BY <2>2, <2>3, <2>4
<1>6. ASSUME NEW r \in Requesters, Send(r)
      PROVE  JobsOK' /\ \A q \in Requesters : Counted(q)'
  <2> DEFINE d == CHOOSE d \in Free(r) : TRUE
  <2>1. d \in Data
    BY <1>6, Constants DEF Send, Free, Tags
  <2>2. /\ pc[r] = "SEND" /\ pc' = [pc EXCEPT ![r] = "WAIT"]
        /\ sent' = [sent EXCEPT ![r] = d]
        /\ UNCHANGED <<cmd, loops, j, looped>>
    BY <1>6 DEF Send
  <2> HIDE DEF d
  <2>3. JobsOK'
    BY <2>1, <2>2
  <2>4. Counted(r)'
    BY <2>2 DEF Counted
  <2>5. \A q \in Requesters \ {r} : Counted(q)'
    BY <2>2, CountedSame DEF JobSame
  <2> QED BY <2>3, <2>4, <2>5
<1>7. ASSUME NEW r \in Requesters, Work(r)
      PROVE  JobsOK' /\ \A q \in Requesters : Counted(q)'
  <2>1. CASE Finish(r)
    BY <1>2, <2>1
  <2>2. CASE ~Finish(r)
    <3>1. /\ pc[r] = "WAIT" /\ Dloop_Same(r) /\ j[r] + 1 < loops[r]
          /\ j' = [j EXCEPT ![r] = @ + 1] /\ pc' = [pc EXCEPT ![r] = "SEND"]
          /\ UNCHANGED <<cmd, loops, sent, looped>>
      BY <1>7, <2>2, WorkEnds
    <3>2. looped[r] = j[r] + 1
      <4>1. /\ inbox[r] # <<>> /\ Head(inbox[r]).from = r
            /\ Head(inbox[r]).data = sent[r] /\ cmd[r] = "Dloop"
        BY <3>1 DEF Dloop_Same, Response, Expected
      <4>2. Head(inbox[r]) = inbox[r][1] /\ 1 \in 1 .. Len(inbox[r])
        BY <4>1, Rest DEF PacketsOK
      <4>3. 1 \in AwaitedAt(inbox[r], r)
        BY <4>1, <4>2 DEF AwaitedAt
      <4> QED BY <3>1, <4>1, <4>3 DEF OnTheWay
    <3>3. j[r] + 1 \in 0 .. LOOPS
      <4>1. j[r] \in 0 .. LOOPS /\ loops[r] \in 0 .. LOOPS
        OBVIOUS
      <4> QED BY <1>0, <3>1, <4>1
    <3>4. JobsOK'
      BY <3>1, <3>3
    <3>5. Counted(r)'
      BY <3>1, <3>2 DEF Counted
    <3>6. \A q \in Requesters \ {r} : Counted(q)'
      BY <3>1, CountedSame DEF JobSame
    <3> QED BY <3>4, <3>5, <3>6
  <2> QED BY <2>1, <2>2
<1>8. CASE ProcessPacket
  <2> DEFINE m == Head(line)
             current == /\ m.cmd = "Dloop" /\ pc[m.from] = "WAIT"
                        /\ sent[m.from] = m.data
  <2>1. /\ line # <<>> /\ UNCHANGED <<pc, cmd, loops, j, sent>>
        /\ looped' = [looped EXCEPT ![m.from] = IF current THEN @ + 1 ELSE @]
    BY <1>8 DEF ProcessPacket
  <2>2. PICK r \in Requesters : r = m.from
    <3>1. m \in Messages
      BY <2>1, Rest DEF PacketsOK
    <3> QED BY <3>1 DEF Messages
  <2>3. current => looped[r] = j[r] /\ j[r] < loops[r] /\ pc[r] = "WAIT"
    BY <2>1, <2>2, Answer
  <2>4. looped' = [looped EXCEPT ![r] = IF current THEN @ + 1 ELSE @]
    BY <2>1, <2>2
  <2> HIDE DEF current, m
  <2>5. JobsOK'
    <3>1. looped[r] \in 0 .. LOOPS /\ loops[r] \in 0 .. LOOPS /\ j[r] \in 0 .. LOOPS
      OBVIOUS
    <3>2. current => looped[r] + 1 \in 0 .. LOOPS
      BY <1>0, <2>3, <3>1
    <3>3. looped' \in [Requesters -> 0 .. LOOPS]
      BY <2>4, <3>2
    <3> QED BY <2>1, <3>3
  <2>6. Counted(r)'
    <3>1. looped'[r] = looped[r] \/ pc[r] = "WAIT"
      BY <2>3, <2>4
    <3> QED BY <2>1, <3>1 DEF Counted
  <2>7. \A q \in Requesters \ {r} : Counted(q)'
    BY <2>1, <2>4, CountedSame DEF JobSame
  <2> QED BY <2>5, <2>6, <2>7
<1>9. CASE Canned_NotFound
  BY <1>0, <1>2, <1>9 DEF Canned_NotFound
<1>10. ASSUME \/ \E u \in Users : (\E c \in Commands : Ask(u, c)) \/ GiveUp(u)
              \/ Canned_Dump \/ PacketHandler_Boot \/ Serial_Bad
              \/ \E r \in Requesters : Serial_Send(r)
       PROVE  JobsOK' /\ \A r \in Requesters : Counted(r)'
  BY <1>1, <1>10
  DEF Ask, GiveUp, Canned_Dump, PacketHandler_Boot, Serial_Bad, Serial_Send
<1> QED
  BY <1>3, <1>4, <1>5, <1>6, <1>7, <1>8, <1>9, <1>10 DEF Next, Serial_Recv

-----------------------------------------------------------------------------
(* The packets on their way: where those from r with data d are.           *)
At(s, r, d) == {i \in 1 .. Len(s) : s[i].from = r /\ s[i].data = d}

LEMMA AtTail ==
  ASSUME NEW s \in Seq(Messages), s # <<>>, NEW r, NEW d
  PROVE  /\ \A i \in At(Tail(s), r, d) : \E k \in At(s, r, d) : Tail(s)[i] = s[k]
         /\ At(s, r, d) \subseteq {1} => At(Tail(s), r, d) = {}
         /\ (\A i, k \in At(s, r, d) : i = k) => (\A i, k \in At(Tail(s), r, d) : i = k)
         /\ 1 \in At(s, r, d) <=> Head(s).from = r /\ Head(s).data = d
<1>1. /\ Len(s) \in Nat \ {0} /\ Len(Tail(s)) = Len(s) - 1 /\ Head(s) = s[1]
      /\ \A i \in 1 .. Len(Tail(s)) : Tail(s)[i] = s[i + 1]
  BY Rest
<1>2. \A i \in At(Tail(s), r, d) :
        i \in Nat \ {0} /\ i + 1 \in At(s, r, d) /\ Tail(s)[i] = s[i + 1]
  BY <1>1 DEF At
<1>3. At(s, r, d) \subseteq {1} => At(Tail(s), r, d) = {}
  BY <1>2
<1>4. ASSUME \A i, k \in At(s, r, d) : i = k,
             NEW i \in At(Tail(s), r, d), NEW k \in At(Tail(s), r, d)
      PROVE  i = k
  <2>1. i + 1 = k + 1 /\ i \in Nat /\ k \in Nat
    BY <1>2, <1>4
  <2> QED BY <2>1
<1>5. 1 \in At(s, r, d) <=> Head(s).from = r /\ Head(s).data = d
  BY <1>1 DEF At
<1> QED BY <1>2, <1>3, <1>4, <1>5

LEMMA AtAppend ==
  ASSUME NEW s \in Seq(Messages), NEW m \in Messages, NEW r, NEW d
  PROVE  /\ \A i \in At(s, r, d) : Append(s, m)[i] = s[i]
         /\ ~(m.from = r /\ m.data = d) => At(Append(s, m), r, d) = At(s, r, d)
         /\ \E p : /\ Append(s, m)[p] = m
                   /\ At(Append(s, m), r, d) \subseteq At(s, r, d) \cup {p}
<1>1. /\ Len(s) \in Nat /\ Len(Append(s, m)) = Len(s) + 1
      /\ \A i \in 1 .. Len(s) : Append(s, m)[i] = s[i]
      /\ Append(s, m)[Len(s) + 1] = m
  BY AppendProperties
<1>2. 1 .. Len(s) + 1 = (1 .. Len(s)) \cup {Len(s) + 1} /\ Len(s) + 1 \notin 1 .. Len(s)
  BY <1>1
<1>3. \A i \in At(s, r, d) : Append(s, m)[i] = s[i]
  BY <1>1 DEF At
<1>4. ~(m.from = r /\ m.data = d) => At(Append(s, m), r, d) = At(s, r, d)
  BY <1>1, <1>2 DEF At
<1>5. At(Append(s, m), r, d) \subseteq At(s, r, d) \cup {Len(s) + 1}
  BY <1>1, <1>2 DEF At
<1> QED BY <1>1, <1>3, <1>4, <1>5

(* The invariant in these terms.                                           *)
CmdAt(s, r, d, c) == \A i \in At(s, r, d) : s[i].cmd = c

Way(r, ts, ln, ib, c, d, n, lp) ==
  /\ lp \in {n, n + 1}
  /\ CmdAt(ts, r, d, c) /\ CmdAt(ln, r, d, c) /\ CmdAt(ib, r, d, c)
  /\ lp # n => At(ts, r, d) = {} /\ At(ln, r, d) = {}
  /\ c = "Dloop" /\ lp = n => At(ib, r, d) = {}
  /\ At(ts, r, d) = {} \/ At(ln, r, d) = {}
  /\ \A i, k \in At(ts, r, d) : i = k
  /\ \A i, k \in At(ln, r, d) : i = k

LEMMA WayIs ==
  ASSUME NEW r
  PROVE  OnTheWay(r) <=>
           (pc[r] = "WAIT" =>
              Way(r, toSerial[r], line, inbox[r], cmd[r], sent[r], j[r], looped[r]))
  BY DEF OnTheWay, Way, CmdAt, At, AwaitedAt, AwaitedCmd

LEMMA WaySame ==
  ASSUME NEW q \in Requesters, OnTheWay(q), OwnPackets(q), JobSame(q),
         toSerial'[q] = toSerial[q], line' = line, inbox'[q] = inbox[q]
  PROVE  OnTheWay(q)' /\ OwnPackets(q)'
  BY DEF OnTheWay, AwaitedAt, AwaitedCmd, OwnPackets, JobSame

LEMMA NotWaiting ==
  ASSUME NEW q \in Requesters, OwnPackets(q), pc'[q] # "WAIT", toSerial'[q] = toSerial[q]
  PROVE  OnTheWay(q)' /\ OwnPackets(q)'
  BY DEF OnTheWay, OwnPackets

LEMMA WayIsNext ==
  ASSUME NEW r
  PROVE  OnTheWay(r)' <=>
           (pc'[r] = "WAIT" =>
              Way(r, toSerial'[r], line', inbox'[r], cmd'[r], sent'[r], j'[r], looped'[r]))
  BY DEF OnTheWay, Way, CmdAt, At, AwaitedAt, AwaitedCmd

(* A packet is queued: nothing with its data is on the way.                *)
LEMMA WayQueued ==
  ASSUME NEW ts \in Seq(Messages), NEW ln, NEW ib, NEW n \in Nat, NEW r, NEW c, NEW d,
         NEW m \in Messages, m.cmd = c,
         At(ts, r, d) = {}, At(ln, r, d) = {}, At(ib, r, d) = {}
  PROVE  Way(r, Append(ts, m), ln, ib, c, d, n, n)
<1>1. PICK p : /\ Append(ts, m)[p] = m
               /\ At(Append(ts, m), r, d) \subseteq At(ts, r, d) \cup {p}
  BY AtAppend
<1> QED BY <1>1 DEF Way, CmdAt

(* A packet is written to the line.                                        *)
LEMMA WayMoved ==
  ASSUME NEW ts \in Seq(Messages), NEW ln \in Seq(Messages), NEW ib, NEW r, NEW c, NEW d,
         NEW n, NEW lp, ts # <<>>, Way(r, ts, ln, ib, c, d, n, lp)
  PROVE  Way(r, Tail(ts), Append(ln, Head(ts)), ib, c, d, n, lp)
<1>1. PICK m \in Messages : m = Head(ts) /\ m = ts[1]
  BY Rest
<1>2. /\ \A i \in At(Tail(ts), r, d) : \E k \in At(ts, r, d) : Tail(ts)[i] = ts[k]
      /\ At(ts, r, d) \subseteq {1} => At(Tail(ts), r, d) = {}
      /\ (\A i, k \in At(ts, r, d) : i = k) => (\A i, k \in At(Tail(ts), r, d) : i = k)
  BY AtTail
<1>a. 1 \in At(ts, r, d) <=> m.from = r /\ m.data = d
  BY <1>1, AtTail
<1>3. PICK p : /\ \A i \in At(ln, r, d) : Append(ln, m)[i] = ln[i]
               /\ ~(m.from = r /\ m.data = d) =>
                    At(Append(ln, m), r, d) = At(ln, r, d)
               /\ Append(ln, m)[p] = m
               /\ At(Append(ln, m), r, d) \subseteq At(ln, r, d) \cup {p}
  BY AtAppend
<1>4. CmdAt(Tail(ts), r, d, c)
  BY <1>2 DEF Way, CmdAt
<1>5. CASE 1 \in At(ts, r, d)
  <2>1. At(ts, r, d) \subseteq {1} /\ At(ln, r, d) = {} /\ lp = n
    BY <1>5 DEF Way
  <2>2. At(Tail(ts), r, d) = {} /\ At(Append(ln, m), r, d) \subseteq {p}
    BY <1>2, <1>3, <2>1
  <2>3. m.cmd = c
    BY <1>1, <1>5 DEF Way, CmdAt
  <2>4. CmdAt(Append(ln, m), r, d, c)
    BY <1>3, <2>2, <2>3 DEF CmdAt
  <2>5. \A i, k \in At(Append(ln, m), r, d) : i = k
    BY <2>2
  <2>6. Way(r, Tail(ts), Append(ln, m), ib, c, d, n, lp)
    BY <1>4, <2>1, <2>2, <2>4, <2>5 DEF Way
  <2> QED BY <1>1, <2>6
<1>6. CASE 1 \notin At(ts, r, d)
  <2>1. At(Append(ln, m), r, d) = At(ln, r, d)
    BY <1>a, <1>3, <1>6
  <2>2. CmdAt(Append(ln, m), r, d, c)
    BY <1>3, <2>1 DEF Way, CmdAt
  <2>3. At(ts, r, d) = {} => At(Tail(ts), r, d) = {}
    BY <1>2
  <2>4. \A i, k \in At(Tail(ts), r, d) : i = k
    BY <1>2 DEF Way
  <2> QED BY <1>1, <1>4, <2>1, <2>2, <2>3, <2>4 DEF Way
<1> QED BY <1>5, <1>6

(* A packet of another requester is written to the line.                   *)
LEMMA WayOther ==
  ASSUME NEW ts, NEW ln \in Seq(Messages), NEW ib, NEW r, NEW c, NEW d, NEW n, NEW lp,
         NEW m \in Messages, Way(r, ts, ln, ib, c, d, n, lp)
  PROVE  m.from # r => Way(r, ts, Append(ln, m), ib, c, d, n, lp)
<1>1. PICK p : /\ \A i \in At(ln, r, d) : Append(ln, m)[i] = ln[i]
               /\ ~(m.from = r /\ m.data = d) =>
                    At(Append(ln, m), r, d) = At(ln, r, d)
               /\ Append(ln, m)[p] = m
               /\ At(Append(ln, m), r, d) \subseteq At(ln, r, d) \cup {p}
  BY AtAppend
<1>2. m.from # r => At(Append(ln, m), r, d) = At(ln, r, d)
  BY <1>1
<1>3. m.from # r => CmdAt(Append(ln, m), r, d, c)
  BY <1>1, <1>2 DEF Way, CmdAt
<1> QED BY <1>2, <1>3 DEF Way

(* The line loses its first packet.                                        *)
LEMMA WayLost ==
  ASSUME NEW ts, NEW ln \in Seq(Messages), NEW ib, NEW r, NEW c, NEW d, NEW n, NEW lp,
         ln # <<>>, Way(r, ts, ln, ib, c, d, n, lp)
  PROVE  Way(r, ts, Tail(ln), ib, c, d, n, lp)
<1>1. /\ \A i \in At(Tail(ln), r, d) : \E k \in At(ln, r, d) : Tail(ln)[i] = ln[k]
      /\ At(ln, r, d) \subseteq {1} => At(Tail(ln), r, d) = {}
      /\ (\A i, k \in At(ln, r, d) : i = k) => (\A i, k \in At(Tail(ln), r, d) : i = k)
  BY AtTail
<1>2. CmdAt(Tail(ln), r, d, c)
  BY <1>1 DEF Way, CmdAt
<1> QED BY <1>1, <1>2 DEF Way

(* The Controls answers it: if it is the one awaited it is counted, before *)
(* it can be in the requester's inbox.                                     *)
LEMMA WayAnswered ==
  ASSUME NEW ts, NEW ln \in Seq(Messages), NEW ib \in Seq(Messages), NEW r, NEW c, NEW d,
         NEW n \in Nat, NEW lp, NEW ib2, ln # <<>>, Way(r, ts, ln, ib, c, d, n, lp),
         ib2 \in {ib, Append(ib, Head(ln))}
  PROVE  Way(r, ts, Tail(ln), ib2, c, d, n,
             IF Head(ln).from = r /\ Head(ln).data = d /\ Head(ln).cmd = "Dloop"
               THEN lp + 1 ELSE lp)
<1>1. PICK m \in Messages : m = Head(ln) /\ m = ln[1]
  BY Rest
<1>2. Way(r, ts, Tail(ln), ib, c, d, n, lp)
  BY WayLost
<1>3. /\ 1 \in At(ln, r, d) <=> m.from = r /\ m.data = d
      /\ At(ln, r, d) \subseteq {1} => At(Tail(ln), r, d) = {}
  BY <1>1, AtTail
<1>4. PICK p : /\ \A i \in At(ib, r, d) : Append(ib, m)[i] = ib[i]
               /\ ~(m.from = r /\ m.data = d) =>
                    At(Append(ib, m), r, d) = At(ib, r, d)
               /\ Append(ib, m)[p] = m
               /\ At(Append(ib, m), r, d) \subseteq At(ib, r, d) \cup {p}
  BY AtAppend
<1>5. 1 \in At(ln, r, d) => m.cmd = c
  BY <1>1 DEF Way, CmdAt
<1>6. CmdAt(Append(ib, m), r, d, c)
  BY <1>3, <1>4, <1>5 DEF Way, CmdAt
<1>7. CmdAt(ib2, r, d, c)
  BY <1>1, <1>6 DEF Way
<1>8. CASE 1 \in At(ln, r, d)
  <2>1. At(ln, r, d) \subseteq {1} /\ At(ts, r, d) = {} /\ lp = n
    BY <1>8 DEF Way
  <2>2. At(Tail(ln), r, d) = {}
    BY <1>3, <2>1
  <2>3. CASE c = "Dloop"
    <3>1. Way(r, ts, Tail(ln), ib2, c, d, n, lp + 1)
      BY <1>2, <1>7, <2>1, <2>2 DEF Way
    <3> QED BY <1>1, <1>3, <1>5, <1>8, <2>3, <3>1
  <2>4. CASE c # "Dloop"
    <3>1. Way(r, ts, Tail(ln), ib2, c, d, n, lp)
      BY <1>2, <1>7, <2>4 DEF Way
    <3> QED BY <1>1, <1>3, <1>5, <1>8, <2>4, <3>1
  <2> QED BY <2>3, <2>4
<1>9. CASE 1 \notin At(ln, r, d)
  <2>1. At(ib2, r, d) = At(ib, r, d)
    BY <1>1, <1>3, <1>4, <1>9
  <2>2. Way(r, ts, Tail(ln), ib2, c, d, n, lp)
    BY <1>2, <1>7, <2>1 DEF Way
  <2> QED BY <1>1, <1>3, <1>9, <2>2
<1> QED BY <1>8, <1>9

-----------------------------------------------------------------------------
(* What is on its way stays right.                                         *)
LEMMA SendWay ==
  ASSUME JobsOK, PacketsOK, NEW r \in Requesters, Send(r),
         Counted(r), OwnPackets(r)
  PROVE  OnTheWay(r)' /\ OwnPackets(r)'
<1> USE DEF JobsOK, PacketsOK
<1>1. PICK d : d \in Free(r) /\ d = CHOOSE x \in Free(r) : TRUE
  BY DEF Send
<1>2. PICK m : m = [from |-> r, cmd |-> cmd[r], data |-> d]
  OBVIOUS
<1>3. /\ pc[r] = "SEND" /\ cmd[r] # "Unknown"
      /\ sent' = [sent EXCEPT ![r] = d]
      /\ toSerial' = [toSerial EXCEPT ![r] = Append(@, m)]
      /\ UNCHANGED <<cmd, loops, j, looped, inbox, line>>
  BY <1>1, <1>2 DEF Send
<1>4. d \in Data /\ \A x \in InFlight(r) : x.data # d
  BY <1>1, Constants DEF Free, Tags
<1>5. m \in Messages /\ m.from = r /\ m.cmd = cmd[r]
  BY <1>2, <1>3, <1>4 DEF Messages, Commands
<1>6. ASSUME NEW s \in {toSerial[r], line, inbox[r]} PROVE At(s, r, d) = {}
  <2> SUFFICES ASSUME NEW i \in At(s, r, d) PROVE FALSE
    OBVIOUS
  <2>1. s \in Seq(Messages)
    OBVIOUS
  <2>2. i \in DOMAIN s
    BY <2>1, LenProperties DEF At
  <2>3. s[i] \in ToSet(s)
    BY <2>2 DEF ToSet
  <2>4. s[i] \in InFlight(r)
    BY <2>3 DEF At, InFlight
  <2> QED BY <1>4, <2>4 DEF At
<1>7. looped[r] = j[r] /\ j[r] \in Nat
  BY <1>3, Constants DEF Counted
<1>8. Way(r, Append(toSerial[r], m), line, inbox[r], cmd[r], d, j[r], looped[r])
  BY <1>5, <1>6, <1>7, WayQueued
<1>9. OnTheWay(r)'
  BY <1>3, <1>8, WayIsNext
<1>10. OwnPackets(r)'
  <2>1. toSerial'[r] = Append(toSerial[r], m) /\ toSerial[r] \in Seq(Messages)
    BY <1>3
  <2>2. /\ Len(toSerial'[r]) = Len(toSerial[r]) + 1 /\ Len(toSerial[r]) \in Nat
        /\ \A i \in 1 .. Len(toSerial[r]) : toSerial'[r][i] = toSerial[r][i]
        /\ toSerial'[r][Len(toSerial[r]) + 1] = m
    BY <1>5, <2>1, AppendProperties
  <2>3. \A i \in 1 .. Len(toSerial'[r]) :
          i \in 1 .. Len(toSerial[r]) \/ i = Len(toSerial[r]) + 1
    BY <2>2
  <2>4. \A i \in 1 .. Len(toSerial'[r]) : toSerial'[r][i].from = r
    BY <1>5, <2>2, <2>3 DEF OwnPackets
  <2> QED BY <2>4 DEF OwnPackets
<1> QED BY <1>9, <1>10

LEMMA SerialSendWay ==
  ASSUME JobsOK, PacketsOK, NEW r \in Requesters, Serial_Send(r),
         \A q \in Requesters : OnTheWay(q) /\ OwnPackets(q)
  PROVE  \A q \in Requesters : OnTheWay(q)' /\ OwnPackets(q)'
<1> USE DEF JobsOK, PacketsOK
<1>1. /\ toSerial[r] # <<>> /\ line' = Append(line, Head(toSerial[r]))
      /\ toSerial' = [toSerial EXCEPT ![r] = Tail(@)]
      /\ UNCHANGED <<pc, cmd, loops, j, sent, looped, inbox>>
  BY DEF Serial_Send
<1>2. /\ Len(toSerial[r]) \in Nat \ {0} /\ Len(Tail(toSerial[r])) = Len(toSerial[r]) - 1
      /\ Head(toSerial[r]) = toSerial[r][1] /\ Head(toSerial[r]) \in Messages
      /\ \A i \in 1 .. Len(Tail(toSerial[r])) : Tail(toSerial[r])[i] = toSerial[r][i + 1]
  BY <1>1, Rest
<1>3. toSerial'[r] = Tail(toSerial[r]) /\ \A q \in Requesters \ {r} : toSerial'[q] = toSerial[q]
  BY <1>1
<1>4. Head(toSerial[r]).from = r
  BY <1>2 DEF OwnPackets
<1>5. \A i \in 1 .. Len(Tail(toSerial[r])) : i + 1 \in 1 .. Len(toSerial[r])
  BY <1>2
<1>6. OwnPackets(r)'
  BY <1>2, <1>3, <1>5 DEF OwnPackets
<1>7. OnTheWay(r)'
  <2>1. CASE pc[r] = "WAIT"
    <3>1. Way(r, toSerial[r], line, inbox[r], cmd[r], sent[r], j[r], looped[r])
      BY <2>1, WayIs
    <3>2. Way(r, Tail(toSerial[r]), Append(line, Head(toSerial[r])), inbox[r], cmd[r],
              sent[r], j[r], looped[r])
      BY <1>1, <3>1, WayMoved
    <3> QED BY <1>1, <1>3, <3>2, WayIsNext
  <2>2. CASE pc[r] # "WAIT"
    BY <1>1, <2>2 DEF OnTheWay
  <2> QED BY <2>1, <2>2
<1>8. ASSUME NEW q \in Requesters \ {r} PROVE OnTheWay(q)' /\ OwnPackets(q)'
  <2>1. OwnPackets(q)'
    BY <1>3 DEF OwnPackets
  <2>2. CASE pc[q] = "WAIT"
    <3>1. Way(q, toSerial[q], line, inbox[q], cmd[q], sent[q], j[q], looped[q])
      BY <2>2, WayIs
    <3>2. Way(q, toSerial[q], Append(line, Head(toSerial[r])), inbox[q], cmd[q],
              sent[q], j[q], looped[q])
      BY <1>2, <1>4, <3>1, WayOther
    <3>3. OnTheWay(q)'
      BY <1>1, <1>3, <3>2, WayIsNext
    <3> QED BY <2>1, <3>3
  <2>3. CASE pc[q] # "WAIT"
    BY <1>1, <2>1, <2>3 DEF OnTheWay
  <2> QED BY <2>2, <2>3
<1> QED BY <1>6, <1>7, <1>8

LEMMA SerialBadWay ==
  ASSUME JobsOK, PacketsOK, Serial_Bad,
         NEW q \in Requesters, OnTheWay(q), OwnPackets(q)
  PROVE  OnTheWay(q)' /\ OwnPackets(q)'
<1>1. /\ line # <<>> /\ line' = Tail(line)
      /\ UNCHANGED <<pc, cmd, loops, j, sent, looped, inbox, toSerial>>
  BY DEF Serial_Bad
<1>2. OwnPackets(q)'
  BY <1>1 DEF OwnPackets
<1>3. CASE pc[q] = "WAIT"
  <2>1. Way(q, toSerial[q], line, inbox[q], cmd[q], sent[q], j[q], looped[q])
    BY <1>3, WayIs
  <2>2. Way(q, toSerial[q], Tail(line), inbox[q], cmd[q], sent[q], j[q], looped[q])
    BY <1>1, <2>1, WayLost DEF PacketsOK
  <2> QED BY <1>1, <1>2, <2>2, WayIsNext
<1>4. CASE pc[q] # "WAIT"
  BY <1>1, <1>2, <1>4 DEF OnTheWay
<1> QED BY <1>3, <1>4

LEMMA ProcessPacketWay ==
  ASSUME JobsOK, PacketsOK, ProcessPacket,
         NEW q \in Requesters, OnTheWay(q), OwnPackets(q)
  PROVE  OnTheWay(q)' /\ OwnPackets(q)'
<1> USE DEF JobsOK, PacketsOK
<1>1. PICK m \in Messages : m = Head(line)
  BY Rest DEF ProcessPacket
<1>2. /\ line # <<>> /\ line' = Tail(line)
      /\ inbox' = [r \in Requesters |->
                     IF Subscribed(r, m) THEN Append(inbox[r], m) ELSE inbox[r]]
      /\ looped' = [looped EXCEPT ![m.from] =
                       IF /\ m.cmd = "Dloop" /\ pc[m.from] = "WAIT"
                          /\ sent[m.from] = m.data
                         THEN @ + 1 ELSE @]
      /\ UNCHANGED <<pc, cmd, loops, j, sent, toSerial>>
  BY <1>1 DEF ProcessPacket
<1>3. OwnPackets(q)'
  BY <1>2 DEF OwnPackets
<1>4. CASE pc[q] = "WAIT"
  <2>1. Way(q, toSerial[q], line, inbox[q], cmd[q], sent[q], j[q], looped[q])
    BY <1>4, WayIs
  <2>2. inbox'[q] \in {inbox[q], Append(inbox[q], m)}
    BY <1>2
  <2>3. j[q] \in Nat /\ inbox[q] \in Seq(Messages)
    BY Constants
  <2>4. Way(q, toSerial[q], Tail(line), inbox'[q], cmd[q], sent[q], j[q],
            IF m.from = q /\ m.data = sent[q] /\ m.cmd = "Dloop"
              THEN looped[q] + 1 ELSE looped[q])
    BY <1>1, <1>2, <2>1, <2>2, <2>3, WayAnswered
  <2>5. m.from \in Requesters
    BY DEF Messages
  <2>6. looped'[q] = IF m.from = q /\ m.data = sent[q] /\ m.cmd = "Dloop"
                       THEN looped[q] + 1 ELSE looped[q]
    BY <1>2, <1>4, <2>5
  <2> QED BY <1>2, <1>3, <2>4, <2>6, WayIsNext
<1>5. CASE pc[q] # "WAIT"
  BY <1>2, <1>3, <1>5 DEF OnTheWay
<1> QED BY <1>4, <1>5

LEMMA WayStep ==
  ASSUME JobsOK, PacketsOK, Next,
         \A r \in Requesters : Counted(r) /\ OnTheWay(r) /\ OwnPackets(r)
  PROVE  \A r \in Requesters : OnTheWay(r)' /\ OwnPackets(r)'
<1> USE DEF JobsOK, PacketsOK
<1>0. "Canned" \in Requesters
  BY Constants
<1>1. ASSUME NEW r \in Requesters, pc'[r] # "WAIT", UNCHANGED <<toSerial, line>>,
             \A q \in Requesters \ {r} : JobSame(q) /\ inbox'[q] = inbox[q]
      PROVE  \A q \in Requesters : OnTheWay(q)' /\ OwnPackets(q)'
  BY <1>1, NotWaiting, WaySame
<1>2. ASSUME UNCHANGED <<pc, cmd, loops, j, sent, looped, inbox, toSerial, line>>
      PROVE  \A q \in Requesters : OnTheWay(q)' /\ OwnPackets(q)'
  BY <1>2, WaySame DEF JobSame
<1>3. ASSUME DumpOne PROVE \A q \in Requesters \ {"Canned"} : inbox'[q] = inbox[q]
  BY <1>3 DEF DumpOne
<1>4. ASSUME Canned_Dump \/ \E u \in Users : Canned_Take(u)
      PROVE  \A q \in Requesters : OnTheWay(q)' /\ OwnPackets(q)'
  <2>1. /\ pc["Canned"] = "IDLE" /\ DumpOne
        /\ pc' = pc \/ pc' = [pc EXCEPT !["Canned"] = "PARMS"]
        /\ UNCHANGED <<cmd, loops, j, sent, looped, toSerial, line>>
    BY <1>4 DEF Canned_Dump, Canned_Take
  <2>2. pc'["Canned"] # "WAIT"
    BY <1>0, <2>1
  <2>3. \A q \in Requesters \ {"Canned"} : JobSame(q)
    BY <2>1 DEF JobSame
  <2> QED BY <1>0, <1>1, <1>3, <2>1, <2>2, <2>3
<1>5. ASSUME NEW n \in 1 .. LOOPS, Get_InputParms(n)
      PROVE  \A q \in Requesters : OnTheWay(q)' /\ OwnPackets(q)'
  <2>1. /\ pc' = [pc EXCEPT !["Canned"] = "SEND"]
        /\ cmd' = [cmd EXCEPT !["Canned"] = want[serving]]
        /\ loops' = [loops EXCEPT !["Canned"] = n]
        /\ UNCHANGED <<j, sent, looped, inbox, toSerial, line>>
    BY <1>5 DEF Get_InputParms
  <2>2. pc'["Canned"] # "WAIT"
    BY <1>0, <2>1
  <2>3. \A q \in Requesters \ {"Canned"} : JobSame(q) /\ inbox'[q] = inbox[q]
    BY <2>1 DEF JobSame
  <2> QED BY <1>0, <1>1, <2>1, <2>2, <2>3
<1>6. ASSUME NEW r \in Requesters, NEW n \in 1 .. LOOPS, Program_Start(r, n)
      PROVE  \A q \in Requesters : OnTheWay(q)' /\ OwnPackets(q)'
  <2>1. /\ pc' = [pc EXCEPT ![r] = "SEND"] /\ loops' = [loops EXCEPT ![r] = n]
        /\ inbox' = [inbox EXCEPT ![r] = <<>>]
        /\ UNCHANGED <<cmd, j, sent, looped, toSerial, line>>
    BY <1>6 DEF Program_Start
  <2>2. pc'[r] # "WAIT"
    BY <2>1
  <2>3. \A q \in Requesters \ {r} : JobSame(q) /\ inbox'[q] = inbox[q]
    BY <2>1 DEF JobSame
  <2> QED BY <1>1, <2>1, <2>2, <2>3
<1>7. ASSUME NEW r \in Requesters, Send(r)
      PROVE  \A q \in Requesters : OnTheWay(q)' /\ OwnPackets(q)'
  <2> DEFINE d == CHOOSE d \in Free(r) : TRUE
             m == [from |-> r, cmd |-> cmd[r], data |-> d]
  <2>1. /\ pc' = [pc EXCEPT ![r] = "WAIT"] /\ sent' = [sent EXCEPT ![r] = d]
        /\ toSerial' = [toSerial EXCEPT ![r] = Append(@, m)]
        /\ UNCHANGED <<cmd, loops, j, looped, inbox, line>>
    BY <1>7 DEF Send
  <2> HIDE DEF d, m
  <2>2. \A q \in Requesters \ {r} : JobSame(q) /\ toSerial'[q] = toSerial[q]
    BY <2>1 DEF JobSame
  <2>3. \A q \in Requesters \ {r} : OnTheWay(q)' /\ OwnPackets(q)'
    BY <2>1, <2>2, WaySame
  <2> QED BY <1>7, <2>3, SendWay
<1>8. ASSUME NEW r \in Requesters, Finish(r), UNCHANGED <<toSerial, line>>,
             \A q \in Requesters \ {r} : inbox'[q] = inbox[q]
      PROVE  \A q \in Requesters : OnTheWay(q)' /\ OwnPackets(q)'
  <2>1. pc'[r] # "WAIT" /\ \A q \in Requesters \ {r} : JobSame(q)
    BY <1>8, FinishJobs
  <2> QED BY <1>1, <1>8, <2>1
<1>9. ASSUME NEW r \in Requesters, Work(r)
      PROVE  \A q \in Requesters : OnTheWay(q)' /\ OwnPackets(q)'
  <2>1. UNCHANGED <<toSerial, line>> /\ \A q \in Requesters \ {r} : inbox'[q] = inbox[q]
    BY <1>9, WorkEnds
  <2>2. CASE Finish(r)
    BY <1>8, <2>1, <2>2
  <2>3. CASE ~Finish(r)
    <3>1. /\ j' = [j EXCEPT ![r] = @ + 1] /\ pc' = [pc EXCEPT ![r] = "SEND"]
          /\ UNCHANGED <<cmd, loops, sent, looped>>
      BY <1>9, <2>3, WorkEnds
    <3>2. pc'[r] # "WAIT" /\ \A q \in Requesters \ {r} : JobSame(q)
      BY <3>1 DEF JobSame
    <3> QED BY <1>1, <2>1, <3>2
  <2> QED BY <2>2, <2>3
<1>10. CASE Canned_NotFound
  BY <1>0, <1>8, <1>10 DEF Canned_NotFound
<1>11. ASSUME \/ \E u \in Users : (\E c \in Commands : Ask(u, c)) \/ GiveUp(u)
              \/ PacketHandler_Boot
       PROVE  \A q \in Requesters : OnTheWay(q)' /\ OwnPackets(q)'
  BY <1>2, <1>11 DEF Ask, GiveUp, PacketHandler_Boot
<1> QED
  BY <1>4, <1>5, <1>6, <1>7, <1>9, <1>10, <1>11, SerialSendWay, SerialBadWay,
     ProcessPacketWay
  DEF Next, Serial_Recv

-----------------------------------------------------------------------------
(* In calm: nothing is on the way, or the packet that Canned_Packets waits *)
(* for, alone.                                                             *)
Quiet == toSerial["Canned"] = <<>> /\ line = <<>> /\ inbox["Canned"] = <<>>

Alone(m) ==
  /\ m.from = "Canned" /\ m.data = sent["Canned"]
  /\ \/ toSerial["Canned"] = <<m>> /\ line = <<>> /\ inbox["Canned"] = <<>>
     \/ toSerial["Canned"] = <<>> /\ line = <<m>> /\ inbox["Canned"] = <<>>
     \/ toSerial["Canned"] = <<>> /\ line = <<>> /\ inbox["Canned"] = <<m>>

Programless ==
  \A r \in Requesters \ {"Canned"} : pc[r] = "IDLE" /\ toSerial[r] = <<>>

CalmState ==
  /\ Programless
  /\ \/ Quiet
     \/ pc["Canned"] = "WAIT" /\ \E m \in Messages : Alone(m)

LEMMA Elements ==
  ASSUME NEW s \in Seq(Messages)
  PROVE  /\ Len(s) \in Nat /\ (s # <<>> <=> Len(s) # 0)
         /\ \A i \in 1 .. Len(s) : s[i] \in ToSet(s) /\ s[i] \in Messages
         /\ Len(s) = 1 => s = <<s[1]>> /\ 1 \in 1 .. Len(s)
<1>1. Len(s) \in Nat /\ (s # <<>> <=> Len(s) # 0)
  BY EmptySeq
<1>2. \A i \in 1 .. Len(s) : s[i] \in ToSet(s) /\ s[i] \in Messages
  BY LenProperties DEF ToSet
<1> QED BY <1>1, <1>2

LEMMA CalmFrom ==
  ASSUME PacketsOK, calm, CalmLine, InStep, OwnPackets("Canned")
  PROVE  CalmState
<1> USE Constants DEF PacketsOK
<1> DEFINE ts == toSerial["Canned"]
           ib == inbox["Canned"]
<1>1. ts \in Seq(Messages) /\ line \in Seq(Messages) /\ ib \in Seq(Messages)
  OBVIOUS
<1>2. Len(ts) \in Nat /\ Len(line) \in Nat /\ Len(ib) \in Nat
      /\ Len(ts) + Len(line) + Len(ib) <= 1
  BY <1>1, Elements DEF InStep
<1>3. ASSUME NEW s \in {ts, line, ib}, Len(s) = 1
      PROVE  /\ s[1] \in Messages /\ s = <<s[1]>>
             /\ s[1].from = "Canned" /\ s[1].data = sent["Canned"]
             /\ pc["Canned"] = "WAIT"
  <2>1. s[1] \in ToSet(s) /\ s[1] \in Messages /\ s = <<s[1]>> /\ 1 \in 1 .. Len(s)
    BY <1>1, <1>3, Elements
  <2>2. s[1].from = "Canned"
    BY <2>1 DEF CalmLine, AllFrom, OwnPackets
  <2>3. s[1] \in InFlight("Canned")
    BY <2>1, <2>2 DEF InFlight
  <2> QED BY <2>1, <2>2, <2>3 DEF InStep
<1>4. Programless
  BY DEF CalmLine, Programless
<1>5. CASE Len(ts) = 0 /\ Len(line) = 0 /\ Len(ib) = 0
  <2>1. ts = <<>> /\ line = <<>>
    BY <1>1, <1>5, Elements
  <2>2. ib = <<>>
    BY <1>1, <1>5, Elements
  <2>3. Quiet
    BY <2>1, <2>2 DEF Quiet
  <2> QED BY <1>4, <2>3 DEF CalmState
<1>6. CASE Len(ts) = 1
  <2>1. Len(line) = 0 /\ Len(ib) = 0
    BY <1>2, <1>6
  <2>2. line = <<>> /\ ib = <<>>
    BY <1>1, <2>1, Elements
  <2> QED BY <1>3, <1>4, <1>6, <2>2 DEF CalmState, Alone
<1>7. CASE Len(line) = 1
  <2>1. Len(ts) = 0 /\ Len(ib) = 0
    BY <1>2, <1>7
  <2>2. ts = <<>> /\ ib = <<>>
    BY <1>1, <2>1, Elements
  <2> QED BY <1>3, <1>4, <1>7, <2>2 DEF CalmState, Alone
<1>8. CASE Len(ib) = 1
  <2>1. Len(ts) = 0 /\ Len(line) = 0
    BY <1>2, <1>8
  <2>2. ts = <<>> /\ line = <<>>
    BY <1>1, <2>1, Elements
  <2> QED BY <1>3, <1>4, <1>8, <2>2 DEF CalmState, Alone
<1>9. \A a, b, c \in Nat : a + b + c <= 1 =>
        (a = 0 /\ b = 0 /\ c = 0) \/ a = 1 \/ b = 1 \/ c = 1
  OBVIOUS
<1>10. \/ Len(ts) = 0 /\ Len(line) = 0 /\ Len(ib) = 0
       \/ Len(ts) = 1 \/ Len(line) = 1 \/ Len(ib) = 1
  BY <1>2, <1>9
<1> QED BY <1>5, <1>6, <1>7, <1>8, <1>10

LEMMA CalmTo ==
  ASSUME CalmState
  PROVE  CalmLine /\ InStep
<1>1. ToSet(<<>>) = {} /\ \A m : ToSet(<<m>>) = {m}
  BY DEF ToSet
<1>2. CASE Quiet
  <2>1. CalmLine
    BY <1>2 DEF CalmState, CalmLine, Programless, Quiet, AllFrom
  <2>2. InFlight("Canned") = {}
    BY <1>1, <1>2 DEF Quiet, InFlight
  <2>3. Len(toSerial["Canned"]) + Len(line) + Len(inbox["Canned"]) <= 1
    BY <1>2 DEF Quiet
  <2> QED BY <2>1, <2>2, <2>3 DEF InStep
<1>3. ASSUME NEW m \in Messages, Alone(m), pc["Canned"] = "WAIT"
      PROVE  CalmLine /\ InStep
  <2>1. AllFrom(line, "Canned") /\ AllFrom(inbox["Canned"], "Canned")
    BY <1>3 DEF Alone, AllFrom
  <2>2. CalmLine
    BY <2>1 DEF CalmState, CalmLine, Programless
  <2>3. InFlight("Canned") \subseteq {m}
    BY <1>1, <1>3 DEF Alone, InFlight
  <2>4. Len(<<m>>) = 1 /\ Len(<<>>) = 0
    OBVIOUS
  <2>5. Len(toSerial["Canned"]) + Len(line) + Len(inbox["Canned"]) <= 1
    <3>1. CASE toSerial["Canned"] = <<m>> /\ line = <<>> /\ inbox["Canned"] = <<>>
      BY <2>4, <3>1
    <3>2. CASE toSerial["Canned"] = <<>> /\ line = <<m>> /\ inbox["Canned"] = <<>>
      BY <2>4, <3>2
    <3>3. CASE toSerial["Canned"] = <<>> /\ line = <<>> /\ inbox["Canned"] = <<m>>
      BY <2>4, <3>3
    <3> QED BY <1>3, <3>1, <3>2, <3>3 DEF Alone
  <2> QED BY <1>3, <2>2, <2>3, <2>5 DEF InStep, Alone
<1> QED BY <1>2, <1>3 DEF CalmState

LEMMA Singles == ASSUME NEW m
                 PROVE  /\ Tail(<<m>>) = <<>> /\ Append(<<>>, m) = <<m>>
                        /\ <<m>> # <<>> /\ Head(<<m>>) = m /\ m \in ToSet(<<m>>)
<1>1. DOMAIN <<m>> = {1} /\ <<m>>[1] = m
  OBVIOUS
<1>2. m \in ToSet(<<m>>)
  BY <1>1 DEF ToSet
<1> QED BY <1>2

LEMMA CalmStep ==
  ASSUME JobsOK, PacketsOK, Next, calm, CalmState
  PROVE  CalmState'
<1> USE DEF JobsOK, PacketsOK
<1>0. "Canned" \in Requesters
  BY Constants
<1>1. pc["Canned"] # "WAIT" => Quiet
  BY DEF CalmState
<1>2. Programless
  BY DEF CalmState
<1>3. ASSUME Quiet, UNCHANGED <<inbox, toSerial, line>>,
             \A r \in Requesters \ {"Canned"} : pc'[r] = pc[r]
      PROVE  CalmState'
  BY <1>2, <1>3 DEF CalmState, Programless, Quiet
<1>4. CASE Canned_Dump
  BY <1>1, <1>4 DEF Canned_Dump, Quiet
<1>5. ASSUME NEW u \in Users, Canned_Take(u) PROVE CalmState'
  <2>1. /\ pc["Canned"] = "IDLE" /\ DumpOne /\ UNCHANGED <<toSerial, line>>
        /\ pc' = [pc EXCEPT !["Canned"] = "PARMS"]
    BY <1>5 DEF Canned_Take
  <2>2. inbox'["Canned"] = <<>>
    BY <1>0, <1>1, <2>1 DEF DumpOne, Quiet
  <2>3. Quiet'
    BY <1>1, <2>1, <2>2 DEF Quiet
  <2>4. Programless'
    BY <1>2, <2>1 DEF Programless
  <2> QED BY <2>3, <2>4 DEF CalmState
<1>6. ASSUME NEW n \in 1 .. LOOPS, Get_InputParms(n) PROVE CalmState'
  BY <1>1, <1>3, <1>6 DEF Get_InputParms
<1>7. ASSUME NEW r \in Requesters, NEW n \in 1 .. LOOPS, Program_Start(r, n)
      PROVE  CalmState'
  BY <1>7 DEF Program_Start
<1>8. ASSUME NEW r \in Requesters, Send(r) PROVE CalmState'
  <2>1. r = "Canned" /\ Quiet
    BY <1>1, <1>2, <1>8 DEF Send, Programless
  <2>2. PICK d : d \in Free(r) /\ d = CHOOSE x \in Free(r) : TRUE
    BY <1>8 DEF Send
  <2>3. PICK m : m = [from |-> r, cmd |-> cmd[r], data |-> d]
    OBVIOUS
  <2>4. /\ sent' = [sent EXCEPT ![r] = d] /\ cmd[r] # "Unknown"
        /\ toSerial' = [toSerial EXCEPT ![r] = Append(@, m)]
        /\ pc' = [pc EXCEPT ![r] = "WAIT"]
        /\ UNCHANGED <<inbox, line>>
    BY <1>8, <2>2, <2>3 DEF Send
  <2>5. d \in Data
    BY <2>2, Constants DEF Free, Tags
  <2>6. m \in Messages /\ m.from = "Canned" /\ m.data = d
    BY <1>0, <2>1, <2>3, <2>4, <2>5 DEF Messages, Commands
  <2>7. toSerial'["Canned"] = <<m>> /\ sent'["Canned"] = d /\ pc'["Canned"] = "WAIT"
    BY <1>0, <2>1, <2>4, Singles DEF Quiet
  <2>8. Alone(m)'
    BY <2>1, <2>4, <2>6, <2>7 DEF Alone, Quiet
  <2>9. Programless'
    BY <1>2, <2>1, <2>4 DEF Programless
  <2> QED BY <2>6, <2>7, <2>8, <2>9 DEF CalmState
<1>9. ASSUME NEW r \in Requesters, Work(r) PROVE CalmState'
  <2>1. pc[r] = "WAIT" /\ UNCHANGED <<toSerial, line>>
    BY <1>9, WorkEnds
  <2>2. r = "Canned"
    BY <1>2, <2>1 DEF Programless
  <2>3. \A q \in Requesters \ {"Canned"} : pc'[q] = pc[q]
    <3>1. Finish(r) \/ pc' = [pc EXCEPT ![r] = "SEND"]
      BY <1>9, WorkEnds
    <3> QED BY <2>2, <3>1, FinishJobs DEF JobSame
  <2>4. Quiet'
    <3>1. CASE Quiet
      <4>1. inbox[r] = <<>>
        BY <2>2, <3>1 DEF Quiet
      <4>2. inbox' = inbox
        BY <1>9, <4>1, WorkEnds
      <4> QED BY <2>1, <3>1, <4>2 DEF Quiet
    <3>2. ASSUME NEW m \in Messages, Alone(m) PROVE Quiet'
      <4>1. CASE inbox[r] = <<>>
        <5>1. Timeout(r)
          BY <1>9, <4>1 DEF Work, Dloop_Same, Dloop_Differs, Readings, Response
        <5>2. m \in InFlight(r)
          BY <2>2, <3>2, <4>1, Singles DEF Alone, InFlight
        <5> QED BY <2>2, <3>2, <5>1, <5>2 DEF Timeout, Alone
      <4>2. CASE inbox[r] # <<>>
        <5>1. inbox[r] = <<m>> /\ toSerial["Canned"] = <<>> /\ line = <<>>
          BY <2>2, <3>2, <4>2 DEF Alone
        <5>2. inbox' = [inbox EXCEPT ![r] = Tail(@)]
          BY <1>9, <4>2
          DEF Work, Dloop_Same, Dloop_Differs, Readings, Timeout, Response
        <5>3. inbox'["Canned"] = <<>>
          BY <2>2, <5>1, <5>2, Singles
        <5> QED BY <2>1, <5>1, <5>3 DEF Quiet
      <4> QED BY <4>1, <4>2
    <3> QED BY <3>1, <3>2 DEF CalmState
  <2>5. Programless'
    BY <1>2, <2>1, <2>3 DEF Programless
  <2> QED BY <2>4, <2>5 DEF CalmState
<1>10. CASE Canned_NotFound
  <2>1. pc["Canned"] = "SEND" /\ Finish("Canned") /\ UNCHANGED <<inbox, toSerial, line>>
    BY <1>10 DEF Canned_NotFound
  <2> QED BY <1>0, <1>1, <1>3, <2>1, FinishJobs DEF JobSame
<1>11. ASSUME UNCHANGED <<pc, sent, inbox, toSerial, line>> PROVE CalmState'
  BY <1>11 DEF CalmState, Programless, Quiet, Alone
<1>12. ASSUME \/ \E u \in Users : (\E c \in Commands : Ask(u, c)) \/ GiveUp(u)
              \/ PacketHandler_Boot
       PROVE  CalmState'
  BY <1>11, <1>12 DEF Ask, GiveUp, PacketHandler_Boot
<1>13. ASSUME NEW r \in Requesters, Serial_Send(r) PROVE CalmState'
  <2>1. /\ toSerial[r] # <<>> /\ line' = Append(line, Head(toSerial[r]))
        /\ toSerial' = [toSerial EXCEPT ![r] = Tail(@)]
        /\ UNCHANGED <<pc, sent, inbox>>
    BY <1>13 DEF Serial_Send
  <2>2. r = "Canned" /\ ~Quiet
    BY <1>2, <2>1 DEF Programless, Quiet
  <2>3. PICK m \in Messages : Alone(m) /\ pc["Canned"] = "WAIT"
    BY <2>2 DEF CalmState
  <2>4. toSerial["Canned"] = <<m>> /\ line = <<>> /\ inbox["Canned"] = <<>>
    BY <2>1, <2>2, <2>3 DEF Alone
  <2>5. toSerial'["Canned"] = <<>> /\ line' = <<m>> /\ inbox'["Canned"] = <<>>
    BY <1>0, <2>1, <2>2, <2>4, Singles
  <2>6. Alone(m)'
    BY <2>1, <2>3, <2>5 DEF Alone
  <2>7. Programless'
    BY <1>2, <2>1, <2>2 DEF Programless
  <2> QED BY <2>1, <2>3, <2>6, <2>7 DEF CalmState
<1>14. CASE Serial_Recv
  <2>1. line # <<>> /\ line' = Tail(line) /\ UNCHANGED <<pc, sent, toSerial>>
    BY <1>14 DEF Serial_Recv, Serial_Bad, ProcessPacket
  <2>2. PICK m \in Messages : Alone(m) /\ pc["Canned"] = "WAIT"
    BY <2>1 DEF CalmState, Quiet
  <2>3. toSerial["Canned"] = <<>> /\ line = <<m>> /\ inbox["Canned"] = <<>>
    BY <2>1, <2>2 DEF Alone
  <2>4. line' = <<>> /\ Head(line) = m
    BY <2>1, <2>3, Singles
  <2>5. Programless'
    BY <1>2, <2>1 DEF Programless
  <2>6. CASE inbox'["Canned"] = <<>>
    BY <2>1, <2>3, <2>4, <2>5, <2>6 DEF CalmState, Quiet
  <2>7. CASE inbox'["Canned"] # <<>>
    <3>1. ProcessPacket
      BY <1>14, <2>3, <2>7 DEF Serial_Recv, Serial_Bad
    <3>2. inbox'["Canned"] \in {inbox["Canned"], Append(inbox["Canned"], m)}
      BY <1>0, <2>4, <3>1 DEF ProcessPacket
    <3>3. inbox'["Canned"] = <<m>>
      BY <2>3, <2>7, <3>2, Singles
    <3>4. Alone(m)'
      BY <2>1, <2>2, <2>3, <2>4, <3>3 DEF Alone
    <3> QED BY <2>1, <2>2, <2>5, <3>4 DEF CalmState
  <2> QED BY <2>6, <2>7
<1> QED
  BY <1>4, <1>5, <1>6, <1>7, <1>8, <1>9, <1>10, <1>12, <1>13, <1>14 DEF Next

-----------------------------------------------------------------------------
(* Initially nobody has asked for anything.                                *)
LEMMA IInvInit == Init => IInv
<1> SUFFICES ASSUME Init PROVE IInv
  OBVIOUS
<1> USE Constants
<1>1. UsersOK
  <2>1. calm \in BOOLEAN
    BY DEF Init
  <2>2. want \in [Users -> Commands \cup {"None"}] /\ Queued = {}
    BY DEF Init, Queued
  <2> QED BY <2>1, <2>2 DEF Init, UsersOK
<1>2. JobsOK
  BY DEF Init, JobsOK, Commands
<1>3. PacketsOK
  BY EmptySeq DEF Init, PacketsOK
<1>4. CalmState
  BY DEF Init, CalmState, Programless, Quiet
<1>5. \A r \in Requesters : Counted(r) /\ OnTheWay(r) /\ OwnPackets(r)
  BY DEF Init, Counted, OnTheWay, OwnPackets
<1> QED BY <1>1, <1>2, <1>3, <1>4, <1>5, Types, CalmTo DEF IInv

LEMMA CalmConstant == Next => calm' = calm
  BY DEF Next, Ask, GiveUp, Canned_Take, Canned_Dump, PacketHandler_Boot,
         Canned_NotFound, Get_InputParms, Program_Start, Send, Work, Dloop_Same,
         Dloop_Differs, Readings, Timeout, Serial_Send, Serial_Recv, Serial_Bad,
         ProcessPacket

LEMMA CalmImplies == CalmState => CalmLine /\ InStep
  BY CalmTo

(* The invariant holds in every state.                                     *)
LEMMA Invariant == Spec => []IInv
<1>1. IInv /\ [Next]_vars => IInv'
  <2> SUFFICES ASSUME IInv, [Next]_vars PROVE IInv'
    OBVIOUS
  <2>1. UsersOK /\ JobsOK /\ PacketsOK
    BY Types DEF IInv
  <2>2. \A r \in Requesters : Counted(r) /\ OnTheWay(r) /\ OwnPackets(r)
    BY DEF IInv
  <2>3. CASE Next
    <3>1. UsersOK' /\ JobsOK' /\ PacketsOK'
      BY <2>1, <2>2, <2>3, UsersStep, JobsStep, PacketsStep
    <3>2. TypeOK'
      BY <3>1, Types, PTL
    <3>3. \A r \in Requesters : Counted(r)'
      BY <2>1, <2>2, <2>3, JobsStep
    <3>4. \A r \in Requesters : OnTheWay(r)' /\ OwnPackets(r)'
      BY <2>1, <2>2, <2>3, WayStep
    <3>5. CASE calm
      <4>1. CalmState
        BY <2>1, <2>2, <3>5, CalmFrom, Constants DEF IInv
      <4>2. CalmState'
        BY <2>1, <2>3, <3>5, <4>1, CalmStep
      <4>3. CalmLine' /\ InStep'
        BY <4>2, CalmImplies, PTL
      <4> QED BY <3>2, <3>3, <3>4, <4>3 DEF IInv
    <3>6. CASE ~calm
      <4>1. ~calm'
        BY <2>3, <3>6, CalmConstant
      <4>2. CalmLine' /\ InStep'
        BY <4>1 DEF CalmLine, InStep
      <4> QED BY <3>2, <3>3, <3>4, <4>2 DEF IInv
    <3> QED BY <3>5, <3>6
  <2>4. CASE UNCHANGED vars
    <3>1. TypeOK'
      BY <2>1, <2>4, Types DEF TypeOK, UsersOK, JobsOK, PacketsOK, Queued
    <3>2. CalmLine' /\ InStep'
      BY <2>4 DEF IInv, CalmLine, InStep, AllFrom, InFlight
    <3>3. \A r \in Requesters : Counted(r)' /\ OnTheWay(r)' /\ OwnPackets(r)'
      BY <2>2, <2>4, WaySame, CountedSame DEF JobSame
    <3> QED BY <3>1, <3>2, <3>3 DEF IInv
  <2> QED BY <2>3, <2>4
<1> QED BY IInvInit, <1>1, PTL DEF Spec

-----------------------------------------------------------------------------
(* Every variable keeps its type: no loop is counted past the last, and a  *)
(* user is being served exactly while Canned_Packets is busy               *)
(* (Canned_Packets.c:408-478).                                             *)
THEOREM TypeCorrect == Spec => []TypeOK
<1>1. IInv => TypeOK
  BY DEF IInv
<1> QED BY Invariant, <1>1, PTL

(* As long as answers come in time or not at all, and nobody else uses the *)
(* line, only the packet that is waited for is on the way, whatever is     *)
(* lost (Canned_Packets.c:99-120).                                        *)
THEOREM StaysInStep == Spec => []InStep
<1>1. IInv => InStep
  BY DEF IInv
<1> QED BY Invariant, <1>1, PTL

(* A Dloop command counts no more loops than were answered for it, however *)
(* late answers come and whoever else loops data (PC_dloop, 145-217).       *)
THEOREM NoFalseLoop == Spec => LoopsWereLooped
<1>1. IInv /\ [Next]_vars => [\A r \in Requesters : Dloop_Same(r) => j[r] < looped[r]]_vars
  <2> SUFFICES ASSUME IInv, NEW r \in Requesters, Dloop_Same(r)
               PROVE  j[r] < looped[r]
    OBVIOUS
  <2>1. UsersOK /\ JobsOK /\ PacketsOK
    BY Types DEF IInv
  <2>2. Counted(r) /\ OnTheWay(r)
    BY DEF IInv
  <2>3. /\ pc[r] = "WAIT" /\ inbox[r] # <<>> /\ cmd[r] = "Dloop"
        /\ Head(inbox[r]).from = r /\ Head(inbox[r]).data = sent[r]
    BY DEF Dloop_Same, Response, Expected
  <2>4. Head(inbox[r]) = inbox[r][1] /\ 1 \in 1 .. Len(inbox[r])
    BY <2>1, <2>3, Rest DEF PacketsOK
  <2>5. 1 \in AwaitedAt(inbox[r], r)
    BY <2>3, <2>4 DEF AwaitedAt
  <2>6. looped[r] = j[r] + 1
    BY <2>2, <2>3, <2>5 DEF OnTheWay
  <2>7. j[r] \in 0 .. LOOPS
    BY <2>1 DEF JobsOK
  <2> QED BY <2>6, <2>7, Constants
<1> QED BY Invariant, <1>1, PTL DEF Spec, LoopsWereLooped
=============================================================================
