------------------------------ MODULE Handshake ------------------------------
(***************************************************************************)
(* How the host's daemon (PacketHandler, packet_recv.c) and the Controls'  *)
(* monitor (monitor_host.c) find each other, and how the Controls gets its *)
(* A/D configuration, while either side may be restarted and packets may   *)
(* be lost at any time.                                                    *)
(*                                                                         *)
(* The daemon lowers its output pin, sleeps for two seconds, raises it and *)
(* sends one IMUP packet.  The Controls must see the pin low and then high *)
(* before it looks at an IMUP packet, because the pin keeps its value over *)
(* a reset and when the daemon is stopped.  It answers with imup2 and asks *)
(* for the configuration, once after a reset.                              *)
(*                                                                         *)
(* Packets are whole here: drivers and threads of the Controls are those   *)
(* of ControlsPackets, bytes those of LoopBack.                            *)
(***************************************************************************)
EXTENDS Naturals, Sequences

CONSTANT LINE   \* bound: packets under way in one direction

ASSUME LineAssumption == LINE \in Nat /\ LINE >= 3

VARIABLES
  daemon,          \* where PacketHandler stands
  pin,             \* COMMS_to_CTRL: output of the host, input of the Controls
  ControlsUP,      \* packet_recv.c
  fromSerial,      \* packets for PacketHandler
  toControls,      \* packets for the Controls
  mh, has_IMUPpakt, Sent_ADreq,   \* monitor_host.c
  config,          \* the A/D configuration of the Controls
  \* For the properties only.
  clean,           \* nothing went wrong since the daemon was started
  lowReset,        \* the Controls was reset during the two seconds
  asked,           \* the Controls asked this daemon for the configuration
  answers,         \* how often the Controls answered since it was started
  cycled           \* the pin was low at some time since the reset

hostVars     == <<daemon, pin, ControlsUP>>
controlsVars == <<mh, has_IMUPpakt, Sent_ADreq, config>>
ghosts       == <<clean, lowReset, asked, answers, cycled>>
vars == <<hostVars, fromSerial, toControls, controlsVars, ghosts>>

(* The Controls after a reset: MonitorHost_Init, the canned configuration. *)
ResetControls(m, has, sent, cfg) ==
  m = "LOOK_FOR_0" /\ has = FALSE /\ sent = FALSE /\ cfg = "CANNED"

Init ==
  /\ daemon = "DOWN" /\ pin \in {0, 1} /\ ControlsUP = FALSE
  /\ fromSerial = <<>> /\ toControls = <<>>
  /\ ResetControls(mh, has_IMUPpakt, Sent_ADreq, config)
  /\ clean = FALSE /\ lowReset = FALSE /\ asked = FALSE
  /\ answers = 0 /\ cycled = (pin = 0)

-----------------------------------------------------------------------------
(* The daemon.                                                             *)

(* cdc3 is started: the first half of Set_Comms_to_CTRL_pin.               *)
Host_Start ==
  /\ daemon = "DOWN"
  /\ daemon' = "LOW"
  /\ pin' = 0
  /\ ControlsUP' = FALSE
  /\ clean' = TRUE /\ lowReset' = FALSE /\ asked' = FALSE /\ answers' = 0
  /\ cycled' = TRUE
  /\ UNCHANGED <<fromSerial, toControls, controlsVars>>

(* Mutant: the two seconds are left out.                                   *)
Host_Raise_AtOnce ==
  /\ daemon = "LOW"
  /\ daemon' = "RAISED"
  /\ pin' = 1
  /\ UNCHANGED <<ControlsUP, fromSerial, toControls, controlsVars, ghosts>>

(* Mutant: the pin is left as it is.                                       *)
Host_Raise_Forgets ==
  /\ daemon = "LOW"
  /\ mh = "LOOK_FOR_1" /\ toControls = <<>>
  /\ daemon' = "RAISED"
  /\ UNCHANGED <<pin, ControlsUP, fromSerial, toControls, controlsVars, ghosts>>

(* The two seconds are over.  They are long enough for the monitor, which  *)
(* looks at the pin many times a second, to have seen it low -- unless the *)
(* Controls was reset meanwhile -- and for packets to arrive.              *)
Host_Raise ==
  /\ daemon = "LOW"
  /\ mh = "LOOK_FOR_1" \/ lowReset
  /\ toControls = <<>>
  /\ daemon' = "RAISED"
  /\ pin' = 1
  /\ clean' = (clean /\ mh = "LOOK_FOR_1")
  /\ UNCHANGED <<ControlsUP, fromSerial, toControls, controlsVars, lowReset,
                 asked, answers, cycled>>

send_IMUP ==
  /\ daemon = "RAISED"
  /\ toControls' = Append(toControls, "IMUP")
  /\ daemon' = "UP"
  /\ UNCHANGED <<pin, ControlsUP, fromSerial, controlsVars, ghosts>>

(* The loop of PacketHandler.                                              *)
PH_Receive(pakt) ==
  /\ daemon = "UP"
  /\ fromSerial # <<>> /\ Head(fromSerial) = pakt
  /\ fromSerial' = Tail(fromSerial)

(* Mutant: the request is taken and not answered.                          *)
PH_AnConfig_Ignores ==
  /\ PH_Receive("ANCONFIG")
  /\ UNCHANGED <<hostVars, toControls, controlsVars, ghosts>>

PH_AnConfig ==
  /\ PH_Receive("ANCONFIG")
  /\ Len(toControls) < LINE
  /\ toControls' = Append(toControls, "ADCONFIG")
  /\ UNCHANGED <<hostVars, controlsVars, ghosts>>

PH_Imup2 ==
  /\ PH_Receive("imup2")
  /\ ControlsUP' = TRUE
  /\ UNCHANGED <<daemon, pin, toControls, controlsVars, ghosts>>

(* kill -9: the pin stays, what the serial port holds may stay or not.     *)
Host_Stop ==
  /\ daemon # "DOWN"
  /\ daemon' = "DOWN"
  /\ fromSerial' \in {fromSerial, <<>>}
  /\ clean' = FALSE
  /\ UNCHANGED <<pin, ControlsUP, toControls, controlsVars, lowReset, asked,
                 answers, cycled>>

-----------------------------------------------------------------------------
(* The Controls.                                                           *)

(* PacketRecv_Thread, for the two packets of interest here.                *)
Recv_Imup ==
  /\ toControls # <<>> /\ Head(toControls) = "IMUP"
  /\ toControls' = Tail(toControls)
  /\ has_IMUPpakt' = TRUE
  /\ UNCHANGED <<hostVars, fromSerial, mh, Sent_ADreq, config, ghosts>>

Recv_ADConfig ==
  /\ toControls # <<>> /\ Head(toControls) = "ADCONFIG"
  /\ toControls' = Tail(toControls)
  /\ config' = "HOST"
  /\ UNCHANGED <<hostVars, fromSerial, mh, has_IMUPpakt, Sent_ADreq, ghosts>>

(* Mutant: the monitor trusts a pin that reads 1 after a reset.            *)
AfterPin_Trusting ==
  IF pin = 0 THEN "LOOK_FOR_1"
  ELSE IF mh \in {"LOOK_FOR_0", "LOOK_FOR_1"} THEN "LOOK_FOR_IMUP_PAKT" ELSE mh

(* The monitor's state after a look at the pin, falling through the cases. *)
AfterPin ==
  IF pin = 0 THEN "LOOK_FOR_1"
  ELSE IF mh = "LOOK_FOR_1" THEN "LOOK_FOR_IMUP_PAKT" ELSE mh

Looking == AfterPin \in {"LOOK_FOR_IMUP_PAKT", "STABLE_UP"}

(* Calls of MonitorHost_Process that change nothing are left out.          *)
Monitor_Pin ==
  /\ ~(Looking /\ has_IMUPpakt)
  /\ mh' = AfterPin
  /\ has_IMUPpakt' = (has_IMUPpakt
                        /\ ~(mh \in {"LOOK_FOR_IMUP_PAKT", "STABLE_UP"} /\ pin = 0))
  /\ <<mh, has_IMUPpakt>>' # <<mh, has_IMUPpakt>>
  /\ UNCHANGED <<hostVars, fromSerial, toControls, Sent_ADreq, config, ghosts>>

(* Packets that reach the serial port: with no daemon there they may stay  *)
(* in it or be lost.                                                       *)
ToHost(pakts) ==
  \/ Len(fromSerial) + Len(pakts) <= LINE /\ fromSerial' = fromSerial \o pakts
  \/ daemon = "DOWN" /\ UNCHANGED fromSerial

(* Mutant: the IMUP packet is not forgotten once it is answered.           *)
Monitor_Up_KeepsImup ==
  /\ Looking /\ has_IMUPpakt
  /\ mh' = "STABLE_UP"
  /\ ToHost(IF Sent_ADreq THEN <<"imup2">> ELSE <<"imup2", "ANCONFIG">>)
  /\ Sent_ADreq' = TRUE
  /\ asked' = (asked \/ ~Sent_ADreq)
  /\ answers' = IF answers < 3 THEN answers + 1 ELSE 3
  /\ UNCHANGED <<hostVars, toControls, has_IMUPpakt, config, clean, lowReset,
                 cycled>>

Monitor_Up ==
  /\ Looking /\ has_IMUPpakt
  /\ has_IMUPpakt' = FALSE
  /\ mh' = "STABLE_UP"
  /\ ToHost(IF Sent_ADreq THEN <<"imup2">> ELSE <<"imup2", "ANCONFIG">>)
  /\ Sent_ADreq' = TRUE
  /\ asked' = (asked \/ ~Sent_ADreq)
  /\ answers' = IF answers < 3 THEN answers + 1 ELSE 3
  /\ UNCHANGED <<hostVars, toControls, config, clean, lowReset, cycled>>

(* The operator's command b8 asks again, once the send driver sends: typed *)
(* by hand, it finds the line to the host empty.                           *)
Cmds_SendADConfig ==
  /\ Sent_ADreq
  /\ fromSerial = <<>>
  /\ ToHost(<<"ANCONFIG">>)
  /\ UNCHANGED <<hostVars, toControls, controlsVars, ghosts>>

(* A reset cuts off what is just being received or sent.                   *)
Controls_Reset ==
  /\ ResetControls(mh', has_IMUPpakt', Sent_ADreq', config')
  /\ toControls' \in {toControls, <<>>}
  /\ \E n \in 0 .. Len(fromSerial) : fromSerial' = SubSeq(fromSerial, 1, n)
  /\ clean' = (clean /\ daemon = "LOW" /\ fromSerial' = fromSerial)
  /\ lowReset' = (daemon = "LOW")
  /\ asked' = FALSE
  /\ cycled' = (pin = 0)
  /\ UNCHANGED <<hostVars, answers>>

(* A packet is spoilt on the line, finds no buffer, or a full send queue.  *)
Lose ==
  /\ \/ toControls # <<>> /\ toControls' = Tail(toControls) /\ UNCHANGED fromSerial
     \/ fromSerial # <<>> /\ fromSerial' = Tail(fromSerial) /\ UNCHANGED toControls
  /\ clean' = FALSE
  /\ UNCHANGED <<hostVars, controlsVars, lowReset, asked, answers, cycled>>

-----------------------------------------------------------------------------
PacketHandler == Host_Raise \/ send_IMUP \/ PH_AnConfig \/ PH_Imup2
RecvThread    == Recv_Imup \/ Recv_ADConfig
MonitorHost   == Monitor_Pin \/ Monitor_Up
Faults        == Host_Stop \/ Controls_Reset \/ Lose

Next == PacketHandler \/ RecvThread \/ MonitorHost \/ Faults
          \/ Host_Start \/ Cmds_SendADConfig
Spec == Init /\ [][Next]_vars

(* Both programs run: the daemon wakes up from its sleep and reads its     *)
(* queue, the Controls' thread its packets, the idle hook calls the        *)
(* monitor for ever.  Nobody must start the daemon, nothing must fail.     *)
FairSpec == /\ Spec /\ WF_vars(PacketHandler)
            /\ WF_vars(RecvThread) /\ WF_vars(MonitorHost)

-----------------------------------------------------------------------------
(* Every variable has its type, and a daemon past its two seconds shows    *)
(* itself on the pin (packet_recv.c:254).                                  *)
TypeOK ==
  /\ daemon \in {"DOWN", "LOW", "RAISED", "UP"} /\ pin \in {0, 1}
  /\ daemon \in {"RAISED", "UP"} => pin = 1
  /\ ControlsUP \in BOOLEAN
  /\ fromSerial \in Seq({"imup2", "ANCONFIG"}) /\ Len(fromSerial) <= LINE
  /\ toControls \in Seq({"IMUP", "ADCONFIG"}) /\ Len(toControls) <= LINE
  /\ mh \in {"LOOK_FOR_0", "LOOK_FOR_1", "LOOK_FOR_IMUP_PAKT", "STABLE_UP"}
  /\ has_IMUPpakt \in BOOLEAN /\ Sent_ADreq \in BOOLEAN
  /\ config \in {"CANNED", "HOST"}
  /\ clean \in BOOLEAN /\ lowReset \in BOOLEAN /\ asked \in BOOLEAN
  /\ answers \in 0 .. 3 /\ cycled \in BOOLEAN

(* The Controls is never taken in by a pin that kept its value: when it    *)
(* believes the host to be up, a daemon was started (or the pin was low)   *)
(* after the Controls' own last reset (monitor_host.c:71-80).              *)
NotFooled == mh = "STABLE_UP" => cycled

(* An IMUP packet of an earlier daemon, kept while the pin was low, may be *)
(* answered as if it were the present one's, but only one: a daemon that   *)
(* has not yet announced itself is answered at most once, and one that has *)
(* at most twice (monitor_host.c:102-113).                                 *)
OneStaleAnswer == answers <= (IF daemon \in {"LOW", "RAISED"} THEN 1 ELSE 2)

(* The inductive invariant behind the three above.  With the pin low       *)
(* nothing is answered; when it rises nothing is under way to the Controls *)
(* any more, so that what can be answered from then on is the IMUP packet  *)
(* that the monitor may have kept, and the one that is sent next.          *)
PinLow ==
  /\ daemon = "LOW" => pin = 0
  /\ daemon = "RAISED" => toControls = <<>>
  /\ pin = 0 => cycled /\ answers = 0
Since == mh # "LOOK_FOR_0" => cycled
ImupIn(line) == \E n \in 1 .. Len(line) : line[n] = "IMUP"
OnceIn(line) == \A m, n \in 1 .. Len(line) :
                  line[m] = "IMUP" /\ line[n] = "IMUP" => m = n
OneImup == pin = 1 => OnceIn(toControls)
Pending == (IF has_IMUPpakt THEN 1 ELSE 0) + (IF ImupIn(toControls) THEN 1 ELSE 0)
Answers == pin = 1 => answers + Pending <= (IF daemon = "RAISED" THEN 1 ELSE 2)
IInv == TypeOK /\ PinLow /\ Since /\ OneImup /\ Answers

(* Whenever nothing goes wrong any more after the start of a daemon, both  *)
(* sides come to know of each other for good -- whatever was going on, and *)
(* how often either was restarted, before.                                 *)
Connected == mh = "STABLE_UP" /\ ControlsUP
Completes == <>[]clean => <>[]Connected

(* ... and a Controls that asked this daemon for its configuration gets    *)
(* it.  (A Controls that asked an earlier one does not ask again.)         *)
Configured == <>[](clean /\ asked) => <>[](config = "HOST")
=============================================================================
