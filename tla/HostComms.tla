----------------------------- MODULE HostComms -----------------------------
(***************************************************************************)
(* The host's daemon as its clients see it (Canned_Packets.c,              *)
(* serial_send.c, serial_recv.c, and of packet_recv.c the parsing of       *)
(* requests), with the programs of c_clients that by-pass its front.       *)
(*                                                                         *)
(* Users send requests to Canned_Packets and wait for the reply or close   *)
(* their socket.  Canned_Packets serves one request at a time; the         *)
(* programs Dloop and GetAD do the same work for themselves.  All three    *)
(* push packets to Serial_Send and wait up to 3 seconds for a publication  *)
(* of Serial_Recv.  Nothing in a packet says whose it is: a loop-back is   *)
(* compared with the data sent, a reading is taken as it comes.            *)
(*                                                                         *)
(* The serial line and the Controls processor are external: packets stay   *)
(* in order, and any may be lost or spoilt (a bad checksum) either way.    *)
(***************************************************************************)
EXTENDS Naturals, Sequences, FiniteSets, SequencesExt

CONSTANTS
  Users,     \* the users' sockets on the command channel
  Programs,  \* the programs of c_clients that may run: of "Dloop", "GetAD"
  Data,      \* tags that tell packets of Canned_Packets from one another
  LOOPS,     \* the most loops of a Dloop request
  HWM,       \* publications that may wait for a subscriber (ZeroMQ: 1000)
  Nobody     \* none of the users

ASSUME UsersAssumption == Nobody \notin Users
ASSUME ProgramsAssumption == Programs \subseteq {"Dloop", "GetAD"}
ASSUME DataAssumption == /\ LOOPS \in Nat \ {0} /\ HWM \in Nat \ {0}
                         /\ IsFiniteSet(Data) /\ Cardinality(Data) > HWM

Requesters == {"Canned"} \cup Programs

(* A bound: a program of c_clients has one packet on its way at a time.    *)
AnyData == CHOOSE d \in Data : TRUE
Tags == [r \in Requesters |-> IF r = "Canned" THEN Data ELSE {AnyData}]
Commands == {"Dloop", "ADGetAll", "Unknown"}
Messages == [from : Requesters, cmd : {"Dloop", "ADGetAll"}, data : Data]

(* What a requester's socket subscribes to: all, 25 or 30.                 *)
Topics == [Canned |-> {"Dloop", "ADGetAll"}, Dloop |-> {"Dloop"},
           GetAD |-> {"ADGetAll"}]

VARIABLES
  calm,      \* nobody starts the programs of c_clients, and an answer takes
             \* less than 3 seconds or never comes
  want,      \* the request of each user that is queued or being served
  gone,      \* users that have closed the socket their request came from
  serving,   \* the user whose request Canned_Packets works on
  PacketHandler,             \* "BOOT" for 2 seconds, then "READY"
  pc, cmd, loops, j, sent,   \* the requesters' threads
  inbox,                     \* publications that wait for each requester
  toSerial,                  \* packets that wait for Serial_Send, per pusher
  line,                      \* packets on the way to the Controls and back
  looped                     \* answers to a requester's Dloop command so far

userVars == <<want, gone>>
jobVars == <<cmd, loops, j, sent, looped>>
lineVars == <<toSerial, line>>
vars == <<calm, userVars, serving, PacketHandler, pc, jobVars, inbox, lineVars>>

Init ==
  /\ calm \in BOOLEAN
  /\ want = [u \in Users |-> "None"] /\ gone = {} /\ serving = Nobody
  /\ PacketHandler = "BOOT"
  /\ pc = [r \in Requesters |-> "IDLE"]
  /\ cmd = [r \in Requesters |-> IF r = "GetAD" THEN "ADGetAll" ELSE "Dloop"]
  /\ loops = [r \in Requesters |-> 0] /\ j = [r \in Requesters |-> 0]
  /\ sent = [r \in Requesters |-> AnyData]
  /\ inbox = [r \in Requesters |-> <<>>]
  /\ toSerial = [r \in Requesters |-> <<>>] /\ line = <<>>
  /\ looped = [r \in Requesters |-> 0]

-----------------------------------------------------------------------------
(* The users.  A reply to a socket that is closed is tossed by ZeroMQ, but *)
(* its request stays queued.                                               *)
Ask(u, c) ==
  /\ want[u] = "None"
  /\ want' = [want EXCEPT ![u] = c]
  /\ UNCHANGED <<calm, gone, serving, PacketHandler, pc, jobVars, inbox,
                 lineVars>>

GiveUp(u) ==
  /\ want[u] # "None" /\ u \notin gone
  /\ gone' = gone \cup {u}
  /\ UNCHANGED <<calm, want, serving, PacketHandler, pc, jobVars, inbox,
                 lineVars>>

-----------------------------------------------------------------------------
(* Canned_Packets waits for requests and for answers nobody waits for, of  *)
(* which it dumps one at a time.                                           *)
Queued == {u \in Users : want[u] # "None"}
DumpOne == inbox' = [inbox EXCEPT !["Canned"] = IF @ = <<>> THEN @ ELSE Tail(@)]

Canned_Dump ==
  /\ pc["Canned"] = "IDLE" /\ Queued = {} /\ inbox["Canned"] # <<>>
  /\ DumpOne
  /\ UNCHANGED <<calm, userVars, serving, PacketHandler, pc, jobVars,
                 lineVars>>

Canned_Take(u) ==
  /\ pc["Canned"] = "IDLE" /\ u \in Queued
  /\ DumpOne
  /\ serving' = u
  /\ pc' = [pc EXCEPT !["Canned"] = "PARMS"]
  /\ UNCHANGED <<calm, userVars, PacketHandler, jobVars, lineVars>>

(* Set_Comms_to_CTRL_pin, before the PacketHandler answers anything.       *)
PacketHandler_Boot ==
  /\ PacketHandler = "BOOT" /\ PacketHandler' = "READY"
  /\ UNCHANGED <<calm, userVars, serving, pc, jobVars, inbox, lineVars>>

(* Get_InputParms: the PacketHandler parses the request and writes the     *)
(* result to the memory of Canned_Packets, which is waiting.               *)
Get_InputParms(n) ==
  /\ pc["Canned"] = "PARMS" /\ PacketHandler = "READY"
  /\ cmd' = [cmd EXCEPT !["Canned"] = want[serving]]
  /\ loops' = [loops EXCEPT !["Canned"] = n]
  /\ pc' = [pc EXCEPT !["Canned"] = "SEND"]
  /\ UNCHANGED <<calm, userVars, serving, PacketHandler, j, sent, looped,
                 inbox, lineVars>>

(* A program of c_clients starts: it subscribes, and runs its command.     *)
Program_Start(r, n) ==
  /\ ~calm
  /\ r # "Canned" /\ pc[r] = "IDLE"
  /\ inbox' = [inbox EXCEPT ![r] = <<>>]
  /\ loops' = [loops EXCEPT ![r] = n]
  /\ pc' = [pc EXCEPT ![r] = "SEND"]
  /\ UNCHANGED <<calm, userVars, serving, PacketHandler, cmd, j, sent, looped,
                 lineVars>>

-----------------------------------------------------------------------------
(* What the requesters have in common: PC_dloop, PC_adgetall and           *)
(* Wait_On_Response.                                                       *)
InFlight(r) ==
  {m \in ToSet(toSerial[r]) \cup ToSet(line) \cup ToSet(inbox[r]) :
     m.from = r}

(* The data of a loop is random: it differs from all that is on its way;   *)
(* which it is does not matter.  (An idealisation: short data, of one byte *)
(* above all, may repeat, and a late answer then pass for the present one.)*)
Free(r) == Tags[r] \ {m.data : m \in InFlight(r)}

(* Mutant: the packet is sent twice, to be on the safe side.               *)
Send_Twice(r) ==
  /\ pc[r] = "SEND" /\ cmd[r] # "Unknown"
  /\ Free(r) # {}
  /\ LET d == CHOOSE d \in Free(r) : TRUE
         m == [from |-> r, cmd |-> cmd[r], data |-> d]
     IN  /\ sent' = [sent EXCEPT ![r] = d]
         /\ toSerial' = [toSerial EXCEPT ![r] = @ \o <<m, m>>]
  /\ pc' = [pc EXCEPT ![r] = "WAIT"]
  /\ UNCHANGED <<calm, userVars, serving, PacketHandler, cmd, loops, j,
                 looped, inbox, line>>

Send(r) ==
  /\ pc[r] = "SEND" /\ cmd[r] # "Unknown"
  /\ Free(r) # {}
  /\ LET d == CHOOSE d \in Free(r) : TRUE
         m == [from |-> r, cmd |-> cmd[r], data |-> d]
     IN  /\ sent' = [sent EXCEPT ![r] = d]
         /\ toSerial' = [toSerial EXCEPT ![r] = Append(@, m)]
  /\ pc' = [pc EXCEPT ![r] = "WAIT"]
  /\ UNCHANGED <<calm, userVars, serving, PacketHandler, cmd, loops, j,
                 looped, inbox, line>>

(* The command is over, and its variables with it; Canned_Packets replies  *)
(* to the user.                                                            *)
Finish(r) ==
  /\ pc' = [pc EXCEPT ![r] = "IDLE"]
  /\ loops' = [loops EXCEPT ![r] = 0] /\ j' = [j EXCEPT ![r] = 0]
  /\ looped' = [looped EXCEPT ![r] = 0] /\ sent' = [sent EXCEPT ![r] = AnyData]
  /\ IF r = "Canned"
       THEN /\ want' = [want EXCEPT ![serving] = "None"]
            /\ gone' = gone \ {serving} /\ serving' = Nobody
            /\ cmd' = [cmd EXCEPT ![r] = "Dloop"]
       ELSE UNCHANGED <<userVars, serving, cmd>>

Canned_NotFound ==
  /\ pc["Canned"] = "SEND" /\ cmd["Canned"] = "Unknown"
  /\ Finish("Canned")
  /\ UNCHANGED <<calm, PacketHandler, inbox, lineVars>>

(* Mutant: only the command byte is compared.                              *)
Expected_AnyData(r) == Head(inbox[r]).cmd = "Dloop"

Expected(r) == /\ Head(inbox[r]).cmd = "Dloop"
               /\ Head(inbox[r]).from = r /\ Head(inbox[r]).data = sent[r]

(* The next publication, whoever it was for.                               *)
Response(r) ==
  /\ pc[r] = "WAIT" /\ inbox[r] # <<>>
  /\ inbox' = [inbox EXCEPT ![r] = Tail(@)]

(* Mutant: one loop more than asked for.                                   *)
Dloop_Same_OneMore(r) ==
  /\ Response(r) /\ cmd[r] = "Dloop" /\ Expected(r)
  /\ IF j[r] < loops[r]
       THEN /\ j' = [j EXCEPT ![r] = @ + 1]
            /\ pc' = [pc EXCEPT ![r] = "SEND"]
            /\ UNCHANGED <<userVars, serving, cmd, loops, sent, looped>>
       ELSE Finish(r)
  /\ UNCHANGED <<calm, PacketHandler, lineVars>>

(* GOOD after the last loop.                                               *)
Dloop_Same(r) ==
  /\ Response(r) /\ cmd[r] = "Dloop" /\ Expected(r)
  /\ IF j[r] + 1 < loops[r]
       THEN /\ j' = [j EXCEPT ![r] = @ + 1]
            /\ pc' = [pc EXCEPT ![r] = "SEND"]
            /\ UNCHANGED <<userVars, serving, cmd, loops, sent, looped>>
       ELSE Finish(r)
  /\ UNCHANGED <<calm, PacketHandler, lineVars>>

(* "data mismatch".                                                        *)
Dloop_Differs(r) ==
  /\ Response(r) /\ cmd[r] = "Dloop" /\ ~ Expected(r)
  /\ Finish(r)
  /\ UNCHANGED <<calm, PacketHandler, lineVars>>

(* Whatever it is, its bytes are the readings.                             *)
Readings(r) ==
  /\ Response(r) /\ cmd[r] = "ADGetAll"
  /\ Finish(r)
  /\ UNCHANGED <<calm, PacketHandler, lineVars>>

(* Mutant: the packet is sent again for as long as it takes.               *)
Timeout_Resends(r) ==
  /\ pc[r] = "WAIT" /\ inbox[r] = <<>>
  /\ calm => \A m \in InFlight(r) : m.data # sent[r]
  /\ pc' = [pc EXCEPT ![r] = "SEND"]
  /\ UNCHANGED <<calm, userVars, serving, PacketHandler, jobVars, inbox,
                 lineVars>>

Timeout(r) ==
  /\ pc[r] = "WAIT" /\ inbox[r] = <<>>
  /\ calm => \A m \in InFlight(r) : m.data # sent[r]
  /\ Finish(r)
  /\ UNCHANGED <<calm, PacketHandler, inbox, lineVars>>

-----------------------------------------------------------------------------
(* The serial threads, the line and the Controls processor.                *)
Serial_Send(r) ==
  /\ toSerial[r] # <<>>
  /\ line' = Append(line, Head(toSerial[r]))
  /\ toSerial' = [toSerial EXCEPT ![r] = Tail(@)]
  /\ UNCHANGED <<calm, userVars, serving, PacketHandler, pc, jobVars, inbox>>

(* A packet is lost, or its checksum is bad at either end.                 *)
Serial_Bad ==
  /\ line # <<>> /\ line' = Tail(line)
  /\ UNCHANGED <<calm, userVars, serving, PacketHandler, pc, jobVars, inbox,
                 toSerial>>

(* The Controls answers, and ProcessPacket publishes the answer to the     *)
(* sockets that are there.                                                 *)
Subscribed(r, m) == /\ r = "Canned" \/ pc[r] # "IDLE"
                    /\ m.cmd \in Topics[r]
                    /\ Len(inbox[r]) < HWM

ProcessPacket ==
  /\ line # <<>> /\ line' = Tail(line)
  /\ LET m == Head(line)
         current == /\ m.cmd = "Dloop" /\ pc[m.from] = "WAIT"
                    /\ sent[m.from] = m.data
     IN  /\ inbox' = [r \in Requesters |->
                        IF Subscribed(r, m) THEN Append(inbox[r], m) ELSE inbox[r]]
         /\ looped' = [looped EXCEPT ![m.from] = IF current THEN @ + 1 ELSE @]
  /\ UNCHANGED <<calm, userVars, serving, PacketHandler, pc, cmd, loops, j,
                 sent, toSerial>>

-----------------------------------------------------------------------------
Serial_Recv == Serial_Bad \/ ProcessPacket
Work(r) == Dloop_Same(r) \/ Dloop_Differs(r) \/ Readings(r) \/ Timeout(r)

Next ==
  \/ \E u \in Users : \/ \E c \in Commands : Ask(u, c)
                     \/ GiveUp(u) \/ Canned_Take(u)
  \/ Canned_Dump \/ PacketHandler_Boot \/ Canned_NotFound
  \/ \E n \in 1 .. LOOPS : \/ Get_InputParms(n)
                          \/ \E r \in Requesters : Program_Start(r, n)
  \/ \E r \in Requesters : Send(r) \/ Work(r) \/ Serial_Send(r)
  \/ Serial_Recv

Spec == Init /\ [][Next]_vars

(* Every thread runs, and ZeroMQ queues the requests of different sockets  *)
(* fairly.  No user must ask and no program start; what the line loses is  *)
(* left open.                                                              *)
FairSpec ==
  /\ Spec
  /\ WF_vars(PacketHandler_Boot) /\ WF_vars(\E n \in 1 .. LOOPS : Get_InputParms(n))
  /\ WF_vars(Canned_Dump) /\ WF_vars(Canned_NotFound)
  /\ \A u \in Users : SF_vars(Canned_Take(u))
  /\ \A r \in Requesters : /\ WF_vars(Send(r)) /\ WF_vars(Work(r))
                          /\ WF_vars(Serial_Send(r))
  /\ WF_vars(Serial_Recv)

-----------------------------------------------------------------------------
(* Every variable has its type; no loop is counted past the last, and a    *)
(* user is being served exactly while Canned_Packets is busy.              *)
TypeOK ==
  /\ calm \in BOOLEAN
  /\ want \in [Users -> Commands \cup {"None"}]
  /\ gone \subseteq Queued
  /\ serving \in Users \cup {Nobody}
  /\ serving = Nobody <=> pc["Canned"] = "IDLE"
  /\ serving # Nobody => serving \in Queued
  /\ PacketHandler \in {"BOOT", "READY"}
  /\ pc \in [Requesters -> {"IDLE", "PARMS", "SEND", "WAIT"}]
  /\ cmd \in [Requesters -> Commands]
  /\ loops \in [Requesters -> 0 .. LOOPS]
  /\ j \in [Requesters -> 0 .. LOOPS] /\ looped \in [Requesters -> 0 .. LOOPS]
  /\ sent \in [Requesters -> Data]
  /\ inbox \in [Requesters -> Seq(Messages)]
  /\ toSerial \in [Requesters -> Seq(Messages)]
  /\ line \in Seq(Messages)

(* GOOD is never a matter of luck: however late the answers to earlier     *)
(* commands come and whoever else loops data, a Dloop command has counted  *)
(* no more loops than the Controls has answered for this very command      *)
(* (PC_dloop's comparison).                                                *)
LoopsWereLooped ==
  [][\A r \in Requesters : Dloop_Same(r) => j[r] < looped[r]]_vars

(* As long as answers come in time or not at all, and no other program     *)
(* uses the line, Canned_Packets and the line stay in step: when it waits, *)
(* the only packet of its own on the way is the one it waits for, and when *)
(* it does not, there is none, so that it never dumps or takes the answer  *)
(* to an earlier command.                                                  *)
InStep ==
  calm =>
    /\ \A m \in InFlight("Canned") : /\ pc["Canned"] = "WAIT"
                                    /\ m.data = sent["Canned"]
    /\ Len(toSerial["Canned"]) + Len(line) + Len(inbox["Canned"]) <= 1

(* The inductive invariant behind the three above.  A requester waits for  *)
(* the one packet with the data that it sent last, which is counted when   *)
(* the Controls answers it and not again.  In calm, nothing else is on the *)
(* way.                                                                    *)
AwaitedAt(s, r) == {i \in 1 .. Len(s) : s[i].from = r /\ s[i].data = sent[r]}
AwaitedCmd(s, r) == \A i \in AwaitedAt(s, r) : s[i].cmd = cmd[r]

Counted(r) ==
  /\ pc[r] \in {"IDLE", "PARMS"} => j[r] = 0 /\ looped[r] = 0
  /\ pc[r] \in {"SEND", "WAIT"} => j[r] < loops[r]
  /\ pc[r] = "SEND" => looped[r] = j[r]
  /\ pc[r] = "PARMS" => r = "Canned"

OnTheWay(r) == pc[r] = "WAIT" =>
  /\ looped[r] \in {j[r], j[r] + 1}
  /\ AwaitedCmd(toSerial[r], r) /\ AwaitedCmd(line, r) /\ AwaitedCmd(inbox[r], r)
  /\ looped[r] # j[r] => AwaitedAt(toSerial[r], r) = {} /\ AwaitedAt(line, r) = {}
  /\ cmd[r] = "Dloop" /\ looped[r] = j[r] => AwaitedAt(inbox[r], r) = {}
  /\ AwaitedAt(toSerial[r], r) = {} \/ AwaitedAt(line, r) = {}
  /\ \A i, k \in AwaitedAt(toSerial[r], r) : i = k
  /\ \A i, k \in AwaitedAt(line, r) : i = k

OwnPackets(r) == \A i \in 1 .. Len(toSerial[r]) : toSerial[r][i].from = r

AllFrom(s, r) == \A i \in 1 .. Len(s) : s[i].from = r

CalmLine == calm =>
  /\ \A r \in Requesters \ {"Canned"} : pc[r] = "IDLE" /\ toSerial[r] = <<>>
  /\ AllFrom(line, "Canned") /\ AllFrom(inbox["Canned"], "Canned")

IInv == /\ TypeOK /\ CalmLine /\ InStep
        /\ \A r \in Requesters : Counted(r) /\ OnTheWay(r) /\ OwnPackets(r)

(* Every user that does not close its socket gets a reply, although the    *)
(* PacketHandler sleeps at first, the line may lose every packet, answers  *)
(* may be late and other users and programs may be busy all the time.      *)
Answered == \A u \in Users : want[u] # "None" ~> (want[u] = "None" \/ u \in gone)

(* What Canned_Packets.c:440 says of its answers: those it does not wait   *)
(* for are dumped, so that one it takes is the answer to what it sent.     *)
DumpsUnexpected ==
  [][\A r \in Requesters : Response(r) => /\ Head(inbox[r]).from = r
                                          /\ Head(inbox[r]).data = sent[r]]_vars
=============================================================================
