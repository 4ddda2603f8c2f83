-------------------------- MODULE Handshake_proofs --------------------------
(***************************************************************************)
(* Proofs about Handshake, for any bound on the packets under way: what    *)
(* daemon and monitor may believe of each other however often either is    *)
(* restarted and whatever is lost.                                         *)
(***************************************************************************)
EXTENDS Handshake, SequenceTheorems, TLAPS

USE DEF vars, hostVars, controlsVars, ghosts

ToCtrl == {"IMUP", "ADCONFIG"}
ToDaemon == {"imup2", "ANCONFIG"}

(* Both programs start with nothing under way.                             *)
LEMMA IInvInit == Init => IInv
<1> SUFFICES ASSUME Init PROVE IInv
  OBVIOUS
<1> USE LineAssumption DEF Init, ResetControls
<1>0. fromSerial = <<>> /\ toControls = <<>> /\ Len(toControls) = 0 /\ Len(fromSerial) = 0
  OBVIOUS
<1>1. TypeOK
  <2>1. /\ fromSerial \in Seq({"imup2", "ANCONFIG"}) /\ Len(fromSerial) <= LINE
        /\ toControls \in Seq({"IMUP", "ADCONFIG"}) /\ Len(toControls) <= LINE
    BY <1>0, EmptySeq
  <2>2. /\ ControlsUP \in BOOLEAN /\ has_IMUPpakt \in BOOLEAN /\ Sent_ADreq \in BOOLEAN
        /\ clean \in BOOLEAN /\ lowReset \in BOOLEAN /\ asked \in BOOLEAN
        /\ cycled \in BOOLEAN
    BY Zenon
  <2> QED BY <2>1, <2>2 DEF TypeOK
<1>2. ~ImupIn(toControls)
  BY <1>0 DEF ImupIn
<1>3. Answers
  BY <1>2 DEF Answers, Pending
<1>4. PinLow /\ Since /\ OneImup
  <2>1. pin = 0 => cycled
    BY Zenon
  <2> QED BY <1>0, <2>1 DEF PinLow, Since, OneImup, OnceIn
<1> QED BY <1>1, <1>3, <1>4 DEF IInv

(* Taking the first packet leaves packets, and no more of them.            *)
LEMMA Shorter ==
  ASSUME NEW S, NEW s \in Seq(S), s # <<>>
  PROVE  /\ Tail(s) \in Seq(S) /\ Len(Tail(s)) = Len(s) - 1 /\ Len(s) \in Nat \ {0}
         /\ \A n \in 1 .. Len(Tail(s)) : Tail(s)[n] = s[n + 1] /\ n + 1 \in 1 .. Len(s)
         /\ Head(s) = s[1]
  BY HeadTailProperties

(* Every step keeps the types.                                             *)
LEMMA TypeStep == IInv /\ [Next]_vars => TypeOK'
<1> SUFFICES ASSUME IInv, [Next]_vars PROVE TypeOK'
  OBVIOUS
<1> USE LineAssumption DEF IInv, TypeOK
<1>1. CASE Host_Start
  <2>1. /\ ControlsUP' \in BOOLEAN /\ clean' \in BOOLEAN /\ lowReset' \in BOOLEAN
        /\ asked' \in BOOLEAN /\ cycled' \in BOOLEAN
    BY <1>1, Zenon DEF Host_Start
  <2> QED BY <1>1, <2>1 DEF Host_Start
<1>2. CASE Host_Raise
  BY <1>2 DEF Host_Raise
<1>3. CASE send_IMUP
  <2>1. toControls' = <<"IMUP">>
    BY <1>3 DEF send_IMUP, PinLow
  <2>2. toControls' \in Seq(ToCtrl) /\ Len(toControls') = 1
    BY <2>1 DEF ToCtrl
  <2> QED BY <1>3, <2>2 DEF send_IMUP, ToCtrl
<1>4. CASE PH_AnConfig
  <2>1. /\ toControls' \in Seq(ToCtrl) /\ Len(toControls') = Len(toControls) + 1
        /\ fromSerial' \in Seq(ToDaemon) /\ Len(fromSerial') <= LINE
    BY <1>4, Shorter DEF PH_AnConfig, PH_Receive, ToCtrl, ToDaemon
  <2> QED BY <1>4, <2>1 DEF PH_AnConfig, PH_Receive, ToCtrl, ToDaemon
<1>5. CASE PH_Imup2
  <2>1. fromSerial' \in Seq(ToDaemon) /\ Len(fromSerial') <= LINE
    BY <1>5, Shorter DEF PH_Imup2, PH_Receive, ToDaemon
  <2> QED BY <1>5, <2>1 DEF PH_Imup2, PH_Receive, ToDaemon
<1>6. CASE Host_Stop
  <2>1. fromSerial' \in Seq(ToDaemon) /\ Len(fromSerial') <= LINE
    <3>1. fromSerial' = fromSerial \/ fromSerial' = <<>>
      BY <1>6 DEF Host_Stop
    <3>2. CASE fromSerial' = <<>>
      BY <3>2, EmptySeq
    <3> QED BY <3>1, <3>2 DEF ToDaemon
  <2> QED BY <1>6, <2>1 DEF Host_Stop, ToDaemon
<1>7. CASE Recv_Imup \/ Recv_ADConfig
  <2>1. toControls # <<>> /\ toControls' = Tail(toControls)
    BY <1>7, Zenon DEF Recv_Imup, Recv_ADConfig
  <2>2. toControls' \in Seq(ToCtrl) /\ Len(toControls') <= LINE
    BY <2>1, Shorter DEF ToCtrl
  <2>3. has_IMUPpakt' \in BOOLEAN /\ config' \in {"CANNED", "HOST"}
    BY <1>7, Zenon DEF Recv_Imup, Recv_ADConfig
  <2> QED BY <1>7, <2>2, <2>3 DEF Recv_Imup, Recv_ADConfig, ToCtrl
<1>8. CASE Monitor_Pin
  <2>1. mh' \in {"LOOK_FOR_0", "LOOK_FOR_1", "LOOK_FOR_IMUP_PAKT", "STABLE_UP"}
    BY <1>8 DEF Monitor_Pin, AfterPin
  <2>2. has_IMUPpakt' \in BOOLEAN
    BY <1>8, Zenon DEF Monitor_Pin
  <2> QED BY <1>8, <2>1, <2>2 DEF Monitor_Pin
<1>9. ASSUME NEW pakts \in Seq(ToDaemon), ToHost(pakts)
      PROVE  fromSerial' \in Seq(ToDaemon) /\ Len(fromSerial') <= LINE
  BY <1>9, ConcatProperties DEF ToHost, ToDaemon
<1>10. CASE Monitor_Up
  <2>1. /\ <<"imup2">> \in Seq(ToDaemon)
        /\ <<"imup2", "ANCONFIG">> \in Seq(ToDaemon)
    BY DEF ToDaemon
  <2>2. fromSerial' \in Seq(ToDaemon) /\ Len(fromSerial') <= LINE
    BY <1>9, <1>10, <2>1 DEF Monitor_Up
  <2>3. asked' \in BOOLEAN
    BY <1>10, Zenon DEF Monitor_Up
  <2>4. answers' \in 0 .. 3
    BY <1>10 DEF Monitor_Up
  <2> QED BY <1>10, <2>2, <2>3, <2>4 DEF Monitor_Up, ToDaemon
<1>11. CASE Cmds_SendADConfig
  <2>1. <<"ANCONFIG">> \in Seq(ToDaemon)
    BY DEF ToDaemon
  <2>2. fromSerial' \in Seq(ToDaemon) /\ Len(fromSerial') <= LINE
    BY <1>9, <1>11, <2>1 DEF Cmds_SendADConfig
  <2> QED BY <1>11, <2>2 DEF Cmds_SendADConfig, ToDaemon
<1>12. CASE Controls_Reset
  <2>1. PICK n \in 0 .. Len(fromSerial) : fromSerial' = SubSeq(fromSerial, 1, n)
    BY <1>12 DEF Controls_Reset
  <2>2. fromSerial' \in Seq(ToDaemon) /\ Len(fromSerial') = n
    BY <2>1, SubSeqProperties DEF ToDaemon
  <2>3. clean' \in BOOLEAN /\ lowReset' \in BOOLEAN /\ cycled' \in BOOLEAN
    BY <1>12, Zenon DEF Controls_Reset
  <2>4. toControls' \in Seq(ToCtrl) /\ Len(toControls') <= LINE
    <3>1. toControls' = toControls \/ toControls' = <<>>
      BY <1>12 DEF Controls_Reset
    <3>2. CASE toControls' = <<>>
      BY <3>2, EmptySeq
    <3> QED BY <3>1, <3>2 DEF ToCtrl
  <2>5. /\ has_IMUPpakt' \in BOOLEAN /\ Sent_ADreq' \in BOOLEAN /\ asked' \in BOOLEAN
        /\ mh' = "LOOK_FOR_0" /\ config' = "CANNED"
    BY <1>12, Zenon DEF Controls_Reset, ResetControls
  <2> QED BY <1>12, <2>2, <2>3, <2>4, <2>5 DEF Controls_Reset, ToDaemon, ToCtrl
<1>13. CASE Lose
  <2>1. toControls' \in Seq(ToCtrl) /\ Len(toControls') <= LINE
    BY <1>13, Shorter DEF Lose, ToCtrl
  <2>2. fromSerial' \in Seq(ToDaemon) /\ Len(fromSerial') <= LINE
    BY <1>13, Shorter DEF Lose, ToDaemon
  <2> QED BY <1>13, <2>1, <2>2 DEF Lose, ToCtrl, ToDaemon
<1>14. CASE UNCHANGED vars
  BY <1>14
<1> QED
  BY <1>1, <1>2, <1>3, <1>4, <1>5, <1>6, <1>7, <1>8, <1>10, <1>11, <1>12, <1>13, <1>14
  DEF Next, PacketHandler, RecvThread, MonitorHost, Faults

(* Every step keeps what holds while the pin is low, and what the monitor  *)
(* has seen since the reset.                                               *)
LEMMA PinStep == IInv /\ [Next]_vars => PinLow' /\ Since'
<1> SUFFICES ASSUME IInv, [Next]_vars PROVE PinLow' /\ Since'
  OBVIOUS
<1> USE LineAssumption DEF IInv, PinLow, Since
<1>0. pin \in {0, 1} /\ daemon \in {"DOWN", "LOW", "RAISED", "UP"}
        /\ (daemon \in {"RAISED", "UP"} => pin = 1)
  BY DEF TypeOK
<1>1. CASE Host_Start
  BY <1>1 DEF Host_Start
<1>2. CASE Host_Raise
  BY <1>2 DEF Host_Raise
<1>3. CASE send_IMUP
  BY <1>0, <1>3 DEF send_IMUP
<1>4. CASE PH_AnConfig \/ PH_Imup2
  BY <1>0, <1>4 DEF PH_AnConfig, PH_Imup2, PH_Receive
<1>5. CASE Host_Stop
  BY <1>5 DEF Host_Stop
<1>6. CASE Recv_Imup \/ Recv_ADConfig
  BY <1>6 DEF Recv_Imup, Recv_ADConfig
<1>7. CASE Monitor_Pin
  BY <1>0, <1>7 DEF Monitor_Pin, AfterPin
<1>8. CASE Monitor_Up
  BY <1>0, <1>8 DEF Monitor_Up, Looking, AfterPin
<1>9. CASE Cmds_SendADConfig
  BY <1>9 DEF Cmds_SendADConfig
<1>10. CASE Controls_Reset
  BY <1>10 DEF Controls_Reset, ResetControls
<1>11. CASE Lose
  BY <1>11 DEF Lose
<1>12. CASE UNCHANGED vars
  BY <1>12
<1> QED
  BY <1>1, <1>2, <1>3, <1>4, <1>5, <1>6, <1>7, <1>8, <1>9, <1>10, <1>11, <1>12
  DEF Next, PacketHandler, RecvThread, MonitorHost, Faults

(* A line with at most one IMUP packet: when the first packet is taken ... *)
LEMMA Taken ==
  ASSUME NEW s \in Seq(ToCtrl), s # <<>>
  PROVE  /\ ImupIn(Tail(s)) => ImupIn(s)
         /\ OnceIn(s) => OnceIn(Tail(s))
         /\ OnceIn(s) /\ Head(s) = "IMUP" => ImupIn(s) /\ ~ImupIn(Tail(s))
<1> USE Shorter
<1>1. ASSUME ImupIn(Tail(s)) PROVE ImupIn(s)
  <2>1. PICK n \in 1 .. Len(Tail(s)) : Tail(s)[n] = "IMUP"
    BY <1>1 DEF ImupIn
  <2>2. n + 1 \in 1 .. Len(s) /\ s[n + 1] = "IMUP"
    BY <2>1
  <2> QED BY <2>2 DEF ImupIn
<1>2. ASSUME OnceIn(s) PROVE OnceIn(Tail(s))
  <2> SUFFICES ASSUME NEW m \in 1 .. Len(Tail(s)), NEW n \in 1 .. Len(Tail(s)),
                      Tail(s)[m] = "IMUP", Tail(s)[n] = "IMUP"
               PROVE  m = n
    BY DEF OnceIn
  <2>1. /\ m + 1 \in 1 .. Len(s) /\ s[m + 1] = "IMUP"
        /\ n + 1 \in 1 .. Len(s) /\ s[n + 1] = "IMUP"
    OBVIOUS
  <2>2. m + 1 = n + 1
    BY <1>2, <2>1 DEF OnceIn
  <2> QED BY <2>2
<1>3. ASSUME OnceIn(s), Head(s) = "IMUP" PROVE ImupIn(s) /\ ~ImupIn(Tail(s))
  <2>1. 1 \in 1 .. Len(s) /\ s[1] = "IMUP"
    BY <1>3
  <2>2. ASSUME NEW n \in 1 .. Len(Tail(s)), Tail(s)[n] = "IMUP" PROVE FALSE
    <3>1. n + 1 \in 1 .. Len(s) /\ s[n + 1] = "IMUP"
      BY <2>2
    <3>2. n + 1 = 1
      BY <1>3, <2>1, <3>1 DEF OnceIn
    <3> QED BY <3>2
  <2> QED BY <2>1, <2>2 DEF ImupIn
<1> QED BY <1>1, <1>2, <1>3

(* ... and when a configuration is added.                                  *)
LEMMA Added ==
  ASSUME NEW s \in Seq(ToCtrl)
  PROVE  /\ ImupIn(Append(s, "ADCONFIG")) <=> ImupIn(s)
         /\ OnceIn(s) => OnceIn(Append(s, "ADCONFIG"))
<1> DEFINE t == Append(s, "ADCONFIG")
<1>1. /\ Len(s) \in Nat /\ Len(t) = Len(s) + 1
      /\ \A n \in 1 .. Len(s) : t[n] = s[n]
      /\ t[Len(t)] # "IMUP"
  BY DEF ToCtrl
<1>2. \A n \in 1 .. Len(t) : t[n] = "IMUP" => n \in 1 .. Len(s)
  BY <1>1
<1> HIDE DEF t
<1>3. 1 .. Len(s) \subseteq 1 .. Len(t)
  BY <1>1
<1>4. ImupIn(t) <=> ImupIn(s)
  BY <1>1, <1>2, <1>3, Zenon DEF ImupIn
<1>5. OnceIn(s) => OnceIn(t)
  BY <1>1, <1>2 DEF OnceIn
<1> QED BY <1>4, <1>5 DEF t

(* Every step keeps the count of what may still be answered.               *)
LEMMA CountStep == IInv /\ [Next]_vars => OneImup' /\ Answers'
<1> SUFFICES ASSUME IInv, [Next]_vars PROVE OneImup' /\ Answers'
  OBVIOUS
<1> USE DEF IInv, OneImup, Answers
<1>0. /\ pin \in {0, 1} /\ daemon \in {"DOWN", "LOW", "RAISED", "UP"}
      /\ (daemon \in {"RAISED", "UP"} => pin = 1)
      /\ toControls \in Seq(ToCtrl) /\ has_IMUPpakt \in BOOLEAN
      /\ answers \in 0 .. 3
  BY DEF TypeOK, ToCtrl
<1>a. ~ImupIn(<<>>) /\ OnceIn(<<>>)
  BY DEF ImupIn, OnceIn
<1>b. ASSUME toControls' = toControls, has_IMUPpakt' = has_IMUPpakt,
             answers' = answers, pin' = pin,
             daemon' = "RAISED" => daemon = "RAISED"
      PROVE  OneImup' /\ Answers'
  BY <1>0, <1>b DEF Pending
<1>c. ASSUME toControls # <<>>, toControls' = Tail(toControls),
             has_IMUPpakt' = has_IMUPpakt, answers' = answers, pin' = pin,
             daemon' = daemon
      PROVE  OneImup' /\ Answers'
  BY <1>0, <1>c, Taken DEF Pending
<1>1. CASE Host_Start
  BY <1>1 DEF Host_Start
<1>2. CASE Host_Raise
  BY <1>0, <1>2, <1>a DEF Host_Raise, PinLow, Pending
<1>3. CASE send_IMUP
  <2>1. toControls = <<>> /\ toControls' = <<"IMUP">> /\ daemon = "RAISED"
          /\ daemon' = "UP"
    BY <1>3 DEF send_IMUP, PinLow
  <2>2. OnceIn(toControls')
    BY <2>1 DEF OnceIn
  <2>3. answers' + Pending' <= answers + Pending + 1
    BY <1>0, <1>3, <1>a, <2>1 DEF send_IMUP, Pending
  <2> QED BY <1>0, <1>3, <2>1, <2>2, <2>3 DEF send_IMUP, Pending
<1>4. CASE PH_AnConfig
  <2>1. toControls' = Append(toControls, "ADCONFIG") /\ UNCHANGED <<daemon, pin,
          has_IMUPpakt, answers>>
    BY <1>4 DEF PH_AnConfig
  <2> QED BY <1>0, <2>1, Added DEF Pending
<1>5. CASE PH_Imup2
  BY <1>5, <1>b DEF PH_Imup2, PH_Receive
<1>6. CASE Host_Stop
  BY <1>6, <1>b DEF Host_Stop
<1>7. CASE Recv_Imup
  <2>1. OnceIn(toControls) => ImupIn(toControls) /\ ~ImupIn(toControls')
                                /\ OnceIn(toControls')
    BY <1>0, <1>7, Taken DEF Recv_Imup
  <2> QED BY <1>0, <1>7, <2>1 DEF Recv_Imup, Pending
<1>8. CASE Recv_ADConfig
  BY <1>8, <1>c DEF Recv_ADConfig
<1>9. CASE Monitor_Pin
  <2>1. /\ UNCHANGED <<toControls, answers, pin, daemon>>
        /\ has_IMUPpakt' => has_IMUPpakt
    BY <1>9, Zenon DEF Monitor_Pin
  <2> QED BY <1>0, <2>1 DEF Pending
<1>10. CASE Monitor_Up
  <2>1. /\ has_IMUPpakt /\ ~has_IMUPpakt'
        /\ toControls' = toControls /\ pin' = pin /\ daemon' = daemon
    BY <1>10, Zenon DEF Monitor_Up
  <2>2. answers' <= answers + 1 /\ answers' \in 0 .. 3
    BY <1>0, <1>10 DEF Monitor_Up
  <2>3. OneImup'
    BY <2>1
  <2>4. ASSUME pin = 1
        PROVE  answers' + Pending' <= (IF daemon = "RAISED" THEN 1 ELSE 2)
    <3>1. PICK c \in Nat : Pending = 1 + c /\ Pending' = c
      <4>1. CASE ImupIn(toControls)
        BY <2>1, <4>1, 1 \in Nat DEF Pending
      <4>2. CASE ~ImupIn(toControls)
        BY <2>1, <4>2, 0 \in Nat DEF Pending
      <4> QED BY <4>1, <4>2
    <3>2. answers + (1 + c) <= (IF daemon = "RAISED" THEN 1 ELSE 2)
      BY <2>4, <3>1
    <3>3. PICK a \in Nat, b \in Nat : a = answers /\ b = answers' /\ b <= a + 1
      BY <1>0, <2>2
    <3>4. b <= a + 1
      BY <3>3
    <3>5. CASE daemon = "RAISED"
      <4>1. a + (1 + c) <= 1
        BY <3>2, <3>3, <3>5
      <4>2. b + c <= 1
        BY <4>1, <3>4
      <4> QED BY <4>2, <3>1, <3>3, <3>5
    <3>6. CASE daemon # "RAISED"
      <4>1. a + (1 + c) <= 2
        BY <3>2, <3>3, <3>6
      <4>2. b + c <= 2
        BY <4>1, <3>4
      <4> QED BY <4>2, <3>1, <3>3, <3>6
    <3> QED BY <3>5, <3>6
  <2>5. Answers'
    BY <2>1, <2>4
  <2> QED BY <2>3, <2>5
<1>11. CASE Cmds_SendADConfig
  BY <1>11, <1>b DEF Cmds_SendADConfig
<1>12. CASE Controls_Reset
  <2>1. /\ has_IMUPpakt' = FALSE
        /\ toControls' = toControls \/ toControls' = <<>>
        /\ UNCHANGED <<answers, pin, daemon>>
    BY <1>12, Zenon DEF Controls_Reset, ResetControls
  <2> QED BY <1>0, <1>a, <2>1 DEF Pending
<1>13. CASE Lose
  <2>1. UNCHANGED <<answers, pin, daemon, has_IMUPpakt>>
    BY <1>13 DEF Lose
  <2>2. \/ toControls # <<>> /\ toControls' = Tail(toControls)
        \/ toControls' = toControls
    BY <1>13 DEF Lose
  <2> QED BY <1>b, <1>c, <2>1, <2>2
<1>14. CASE UNCHANGED vars
  BY <1>14, <1>b
<1> QED
  BY <1>1, <1>2, <1>3, <1>4, <1>5, <1>6, <1>7, <1>8, <1>9, <1>10, <1>11, <1>12, <1>13,
     <1>14
  DEF Next, PacketHandler, RecvThread, MonitorHost, Faults

(* The invariant holds in every state.                                     *)
LEMMA Invariant == Spec => []IInv
<1>1. IInv /\ [Next]_vars => IInv'
  BY TypeStep, PinStep, CountStep DEF IInv
<1> QED BY IInvInit, <1>1, PTL DEF Spec

(* Every variable keeps its type, and no more than LINE packets are under  *)
(* way in one direction.                                                   *)
THEOREM TypeCorrect == Spec => []TypeOK
<1>1. IInv => TypeOK
  BY DEF IInv
<1> QED BY Invariant, <1>1, PTL

(* The monitor never takes the host to be up on the strength of a pin that *)
(* kept its value over a reset (monitor_host.c:71-80).                     *)
THEOREM NeverFooled == Spec => []NotFooled
<1>1. IInv => NotFooled
  BY DEF IInv, Since, NotFooled
<1> QED BY Invariant, <1>1, PTL

(* No daemon is answered twice before it has sent its IMUP packet, nor     *)
(* three times after, whatever packets its predecessors left behind        *)
(* (monitor_host.c:102-113).                                               *)
THEOREM AtMostOneStale == Spec => []OneStaleAnswer
<1>1. ASSUME IInv PROVE OneStaleAnswer
  <2>1. /\ pin \in {0, 1} /\ answers \in 0 .. 3 /\ has_IMUPpakt \in BOOLEAN
        /\ daemon \in {"DOWN", "LOW", "RAISED", "UP"}
    BY <1>1 DEF IInv, TypeOK
  <2>2. CASE pin = 0
    BY <1>1, <2>1, <2>2 DEF IInv, PinLow, OneStaleAnswer
  <2>3. CASE pin = 1
    <3>1. Pending >= 0 /\ Pending \in Nat
      BY <2>1 DEF Pending
    <3>2. daemon # "LOW"
      BY <1>1, <2>3 DEF IInv, PinLow
    <3> QED BY <1>1, <2>1, <2>3, <3>1, <3>2 DEF IInv, Answers, OneStaleAnswer
  <2> QED BY <2>1, <2>2, <2>3
<1> QED BY Invariant, <1>1, PTL
=============================================================================
