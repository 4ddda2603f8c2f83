--------------------------- MODULE I2CMaster_proofs ---------------------------
(***************************************************************************)
(* Proofs about I2CMaster: for any number of channels, any times, any      *)
(* configurations and a bus that fails and recovers as it likes, what is   *)
(* stored, named and reported was measured where it says.                  *)
(***************************************************************************)
EXTENDS I2CMaster, WellFoundedInduction, TLAPS

USE DEF vars, masterVars, dataVars, rtVars

(* The readings that the tick writes.                                      *)
DataOK ==
  /\ applied \in [Chans -> Configs] /\ reading \in [Chans -> Readings]
  /\ CSVar \in [Signals -> Readings]
  /\ MeasuredHere /\ SignalsCurrent

(* What the tick decides by, and what belongs to the receive thread.       *)
ControlOK ==
  /\ SysTicks \in 0 .. TICKS - 1 /\ StartTime \in 0 .. TICKS - 1
  /\ StateMachine \in Waiting \union {"GETJOB", "FINISH_CLEANUP", "BUSY_WAIT2",
                                      "BUSY_WAIT3"}
  /\ CmdType \in {"RW", "WRITEONLY"} /\ Cleanup_Count \in 0 .. CLEANUPS
  /\ Readbuf \in 0 .. NUM_AD_CHANS /\ adc \in 0 .. NUM_AD_CHANS
  /\ ActiveChannel \in Chans /\ Nsamples \in 0 .. 2
  /\ FirstTime_Flag \in BOOLEAN /\ ConfigTrigger \in BOOLEAN
  /\ Conversion
ThreadOK ==
  /\ canned \in [Chans -> Configs] /\ reply \in [Chans -> Readings]
  /\ rt \in {"IDLE", "COPY", "TRIGGER", "READ", "SEND"}
  /\ cfg \in Configs /\ next \in Chans /\ bus \in {"GOOD", "FLAKY"}
  /\ ReplyConfigured

LEMMA Parts == IInv <=> ControlOK /\ DataOK /\ ThreadOK
  BY DEF IInv, TypeOK, ControlOK, DataOK, ThreadOK

-----------------------------------------------------------------------------
(* Arithmetic: the counters wrap.                                          *)
LEMMA Wraps == ASSUME NEW n \in Nat, NEW m \in Nat \ {0} PROVE n % m \in 0 .. m - 1
  OBVIOUS

LEMMA NextSlot == ASSUME NEW n \in Chans PROVE (n + 1) % NUM_AD_CHANS \in Chans
<1>1. n + 1 \in Nat
  BY ChansAssumption DEF Chans
<1> QED BY <1>1, Wraps, ChansAssumption DEF Chans

LEMMA Clock == TypeOK => Now \in 0 .. TICKS - 1
<1> SUFFICES ASSUME TypeOK PROVE (SysTicks + 1) % TICKS \in 0 .. TICKS - 1
  BY DEF Now
<1>1. TICKS \in Nat \ {0}
  BY TimesAssumption
<1>2. SysTicks + 1 \in Nat
  BY <1>1 DEF TypeOK
<1> QED BY <1>1, <1>2, Wraps

(* Some channels, but at least one, have a lowest.                         *)
LEMMA Lowest ==
  ASSUME NEW S, S \subseteq Chans, S # {}
  PROVE  \E d \in S : \A e \in S : d <= e
<1>1. S \subseteq Nat
  BY ChansAssumption DEF Chans
<1>2. PICK d \in S : \A e \in S : ~(<<e, d>> \in OpToRel(<, Nat))
  BY <1>1, NatLessThanWellFounded, WFMin
<1>3. ASSUME NEW e \in S PROVE d <= e
  <2>1. d \in Nat /\ e \in Nat
    BY <1>1
  <2>2. ~(<<e, d>> \in OpToRel(<, Nat))
    BY <1>2
  <2>3. ~(e < d)
    BY <2>1, <2>2 DEF OpToRel
  <2> QED BY <2>1, <2>3
<1> QED BY <1>3

(* The next channel is one of those configured.                            *)
LEMMA Chosen ==
  ASSUME NEW c, NEW S, S \subseteq Chans, S # {}
  PROVE  NextChannel(c, S) \in Chans
<1> DEFINE later == {d \in S : d > c}
           from == IF later # {} THEN later ELSE S
<1>1. from \subseteq Chans /\ from # {}
  OBVIOUS
<1> HIDE DEF from
<1>2. \E d \in from : \A e \in from : d <= e
  BY <1>1, Lowest
<1>3. (CHOOSE d \in from : \A e \in from : d <= e) \in from
  BY <1>2
<1> QED BY <1>1, <1>3 DEF NextChannel, from

-----------------------------------------------------------------------------
(* A new configuration: nothing is measured.                               *)
LEMMA Initialised ==
  ASSUME IInv, AtoD_Init
  PROVE  DataOK'
<1>1. Zero \in Readings
  BY ChansAssumption, ConfigAssumption DEF Zero, Readings
<1>2. /\ applied' \in [Chans -> Configs]
      /\ reading' = [c \in Chans |-> Zero] /\ CSVar' = [s \in Signals |-> Zero]
  BY DEF AtoD_Init, IInv, TypeOK
<1> QED BY <1>1, <1>2 DEF DataOK, MeasuredHere, SignalsCurrent

(* A sample of the active channel is stored: it is that of its own.        *)
LEMMA Stored ==
  ASSUME IInv, AtoD_Set_value(ActiveChannel, ActiveChannel)
  PROVE  DataOK'
<1> DEFINE c == ActiveChannel
           r == [chan |-> c, cfg |-> applied[c]]
           s == Name[applied[c]][c]
<1>1. /\ c \in Chans /\ applied \in [Chans -> Configs]
      /\ reading \in [Chans -> Readings] /\ CSVar \in [Signals -> Readings]
  BY DEF IInv, TypeOK
<1>2. applied[c] \in Configs /\ s \in Signals \union {NoSignal}
  BY <1>1, ConfigAssumption
<1>3. c \in 0 .. NUM_AD_CHANS
  BY <1>1, ChansAssumption DEF Chans
<1>4. r \in Readings
  BY <1>2, <1>3 DEF Readings
<1>5. /\ reading' = [reading EXCEPT ![c] = r]
      /\ CSVar' = IF s = NoSignal THEN CSVar ELSE [CSVar EXCEPT ![s] = r]
      /\ applied' = applied
  BY DEF AtoD_Set_value
<1> HIDE DEF c
<1>6. reading' \in [Chans -> Readings] /\ CSVar' \in [Signals -> Readings]
  BY <1>1, <1>2, <1>4, <1>5
<1>7. MeasuredHere'
  <2> SUFFICES ASSUME NEW d \in Chans, reading'[d] # Zero
               PROVE  reading'[d] = [chan |-> d, cfg |-> applied'[d]]
    BY DEF MeasuredHere
  <2>1. CASE d = c
    BY <2>1, <1>1, <1>5
  <2>2. CASE d # c
    BY <2>2, <1>1, <1>5 DEF IInv, MeasuredHere
  <2> QED BY <2>1, <2>2
<1>8. SignalsCurrent'
  <2> SUFFICES ASSUME NEW t \in Signals, CSVar'[t] # Zero
               PROVE  \E d \in Chans : /\ CSVar'[t] = [chan |-> d, cfg |-> applied'[d]]
                                       /\ Name[applied'[d]][d] = t
    BY DEF SignalsCurrent
  <2>1. CASE t = s
    <3>1. CSVar'[t] = r
      BY <2>1, <1>1, <1>2, <1>5, ConfigAssumption
    <3> QED BY <2>1, <3>1, <1>1, <1>5
  <2>2. CASE t # s
    <3>1. CSVar'[t] = CSVar[t]
      BY <2>2, <1>1, <1>2, <1>5
    <3> QED BY <3>1, <1>5 DEF IInv, SignalsCurrent
  <2> QED BY <2>1, <2>2
<1> QED BY <1>1, <1>5, <1>6, <1>7, <1>8 DEF DataOK

(* The end of a transaction whose sample, if it is stored, is that of the  *)
(* active channel.                                                         *)
LEMMA Finished ==
  ASSUME IInv, StateMachine \in Waiting, NEW buf, Finish(buf),
         CmdType = "RW" /\ Nsamples = 1 => buf = ActiveChannel
  PROVE  /\ DataOK'
         /\ StartTime' \in 0 .. TICKS - 1 /\ Nsamples' \in 0 .. 2
         /\ \/ StateMachine' = "SETTLE_WAIT" /\ Nsamples' = 1 /\ CmdType = "RW"
            \/ StateMachine' = "BUSY_WAIT2"
<1>1. Nsamples \in {0, 1}
  BY DEF IInv, Conversion
<1>2. StartTime' \in 0 .. TICKS - 1
  BY Clock DEF Finish, IInv
<1>3. /\ Nsamples' = IF CmdType = "RW" THEN Nsamples + 1 ELSE Nsamples
      /\ IF CmdType = "RW" /\ Nsamples' = 1
           THEN StateMachine' = "SETTLE_WAIT" ELSE StateMachine' = "BUSY_WAIT2"
  BY DEF Finish
<1>4. Nsamples' \in 0 .. 2
  BY <1>1, <1>3
<1>5. CASE CmdType = "RW" /\ Nsamples' # 1
  <2>1. Nsamples = 1
    BY <1>1, <1>3, <1>5
  <2>2. AtoD_Set_value(ActiveChannel, ActiveChannel)
    BY <2>1, <1>5, Zenon DEF Finish
  <2> QED BY <2>2, <1>2, <1>3, <1>4, <1>5, Stored
<1>6. CASE ~(CmdType = "RW" /\ Nsamples' # 1)
  <2>1. UNCHANGED dataVars
    BY <1>6, Zenon DEF Finish
  <2>2. DataOK'
    BY <2>1 DEF DataOK, IInv, TypeOK, MeasuredHere, SignalsCurrent
  <2> QED BY <2>2, <1>2, <1>3, <1>4
<1> QED BY <1>5, <1>6

-----------------------------------------------------------------------------
(* Initially nothing is measured.                                          *)
LEMMA IInvInit == Init => IInv
<1> SUFFICES ASSUME Init PROVE IInv
  OBVIOUS
<1> USE ChansAssumption, TimesAssumption, ConfigAssumption DEF Init
<1>1. Zero \in Readings /\ 0 \in Chans /\ NUM_AD_CHANS - 1 \in Chans
  BY DEF Zero, Readings, Chans
<1>2. FirstTime_Flag \in BOOLEAN /\ ConfigTrigger \in BOOLEAN
  BY Zenon
<1>3. TypeOK
  BY <1>1, <1>2 DEF TypeOK
<1>4. Conversion
  BY DEF Conversion, Waiting
<1>5. MeasuredHere /\ SignalsCurrent /\ ReplyConfigured
  BY DEF MeasuredHere, SignalsCurrent, ReplyConfigured
<1> QED BY <1>3, <1>4, <1>5 DEF IInv

-----------------------------------------------------------------------------
(* What a step of the tick leaves alone.                                   *)
LEMMA DataSame == DataOK /\ UNCHANGED dataVars => DataOK'
  BY DEF DataOK, MeasuredHere, SignalsCurrent

LEMMA ThreadSame == ThreadOK /\ UNCHANGED <<rtVars, bus>> => ThreadOK'
  BY DEF ThreadOK, ReplyConfigured

(* The tick: it decides by sound data, and stores sound data.              *)
LEMMA TickStep ==
  ASSUME IInv, I2C_1_master_Process
  PROVE  ControlOK' /\ DataOK' /\ UNCHANGED <<rtVars, bus>>
<1> USE ChansAssumption, TimesAssumption
<1>1. ControlOK /\ DataOK /\ ThreadOK
  BY Parts
<1>2. Now \in 0 .. TICKS - 1
  BY Clock DEF IInv
<1>3. ActiveChannel \in 0 .. NUM_AD_CHANS
  BY <1>1 DEF ControlOK, Chans
<1>4. ASSUME Cleanup, SysTicks' = Now, Cleanup_Count < CLEANUPS
      PROVE  ControlOK' /\ DataOK' /\ UNCHANGED <<rtVars, bus>>
  <2>1. Cleanup_Count' \in 0 .. CLEANUPS /\ StateMachine' = "FINISH_CLEANUP"
    BY <1>1, <1>4 DEF Cleanup, ControlOK
  <2>2. Conversion'
    BY <2>1 DEF Conversion, Waiting
  <2>3. ControlOK'
    BY <1>1, <1>2, <1>4, <2>1, <2>2 DEF Cleanup, ControlOK
  <2> QED BY <1>1, <1>4, <2>3, DataSame DEF Cleanup
<1>5. CASE Timeout
  <2>1. Cleanup_Count = 0
    BY <1>1, <1>5 DEF Timeout, TimedOut, Waiting, ControlOK, Conversion
  <2> QED BY <1>4, <1>5, <2>1 DEF Timeout
<1>6. CASE CleanupAgain
  BY <1>4, <1>6 DEF CleanupAgain, Called
<1>7. ASSUME Begin
      PROVE  /\ CmdType' \in {"RW", "WRITEONLY"} /\ FirstTime_Flag' \in BOOLEAN
             /\ StateMachine' \in {"SENDSTART", "START_COMPLETE", "WRITE_SLAVEADDR",
                                   "WRITE_SLAVEADDR_RW"}
             /\ StateMachine' = "WRITE_SLAVEADDR" => CmdType' = "WRITEONLY"
  <2>1. FirstTime_Flag' \in BOOLEAN
    BY <1>7, Zenon DEF Begin
  <2> QED BY <1>7, <2>1 DEF Begin, FallsThru
<1>8. CASE GetJob
  <2>1. ConfigTrigger' \in BOOLEAN
    BY <1>8, Zenon DEF GetJob
  <2>2. DataOK'
    <3>1. CASE ConfigTrigger
      BY <1>8, <3>1, Initialised DEF GetJob
    <3>2. CASE ~ConfigTrigger
      BY <1>1, <1>8, <3>2, DataSame DEF GetJob
    <3> QED BY <3>1, <3>2
  <2>3. ActiveChannel' \in Chans
    <3>1. /\ AtoD_Get_ConfiguredChannels(applied') \subseteq Chans
          /\ AtoD_Get_ConfiguredChannels(applied') # {}
      BY DEF AtoD_Get_ConfiguredChannels, Enabled, Chans
    <3> QED BY <1>8, <3>1, Chosen DEF GetJob
  <2>4. Begin /\ Nsamples' = 0 /\ StartTime' = Now /\ SysTicks' = Now
          /\ UNCHANGED <<Cleanup_Count, Readbuf, rtVars, adc, bus>>
          /\ StateMachine = "GETJOB"
    BY <1>8 DEF GetJob, Called
  <2>5. Conversion'
    BY <1>1, <1>7, <2>4 DEF Conversion, ControlOK, Waiting
  <2> QED BY <1>1, <1>2, <1>7, <2>1, <2>2, <2>3, <2>4, <2>5 DEF ControlOK, Waiting
<1>9. CASE GoAgain
  <2>1. Begin /\ SysTicks' = Now /\ StateMachine = "GO_AGAIN"
          /\ UNCHANGED <<StartTime, Cleanup_Count, Readbuf, ActiveChannel, Nsamples,
                         ConfigTrigger, dataVars, rtVars, adc, bus>>
    BY <1>9 DEF GoAgain, Called
  <2>2. Conversion'
    BY <1>1, <1>7, <2>1 DEF Conversion, ControlOK, Waiting
  <2> QED BY <1>1, <1>2, <1>7, <2>1, <2>2, DataSame DEF ControlOK, Waiting
<1>10. CASE Progress
  <2>1. /\ SysTicks' = Now
        /\ StateMachine \in {"SENDSTART", "START_COMPLETE", "WRITE_SLAVEADDR"}
        /\ StateMachine' \in {"SENDSTART", "START_COMPLETE", "WRITE_SLAVEADDR",
                              "WRITE_SLAVEADDR_RW", "DO_WRITEONLY"}
        /\ StateMachine' = "WRITE_SLAVEADDR" => CmdType = "WRITEONLY"
        /\ StateMachine' = "DO_WRITEONLY" => StateMachine = "WRITE_SLAVEADDR"
    BY <1>1, <1>10 DEF Progress, Called, FallsThru, AddrState, ControlOK, Conversion
  <2>2. UNCHANGED <<StartTime, CmdType, Cleanup_Count, Readbuf, ActiveChannel,
                    FirstTime_Flag, Nsamples, ConfigTrigger, dataVars, rtVars, adc, bus>>
    BY <1>10 DEF Progress
  <2>3. Conversion'
    BY <1>1, <2>1, <2>2 DEF Conversion, ControlOK, Waiting
  <2> QED BY <1>1, <1>2, <2>1, <2>2, <2>3, DataSame DEF ControlOK, Waiting
<1>11. CASE DoWriteOnly
  <2>1. /\ SysTicks' = Now /\ StateMachine = "DO_WRITEONLY"
        /\ StateMachine' \in {"DO_WRITEONLY", "WAIT_STOP"}
        /\ adc' \in {adc, ActiveChannel}
        /\ UNCHANGED <<StartTime, CmdType, Cleanup_Count, Readbuf, ActiveChannel,
                       FirstTime_Flag, Nsamples, ConfigTrigger, dataVars, rtVars, bus>>
    BY <1>11 DEF DoWriteOnly, Called, FallsThru
  <2>2. Conversion'
    BY <1>1, <2>1 DEF Conversion, ControlOK, Waiting
  <2> QED BY <1>1, <1>2, <1>3, <2>1, <2>2, DataSame DEF ControlOK, Waiting
<1>12. CASE ReadData
  <2>1. /\ SysTicks' = Now
        /\ StateMachine \in {"WRITE_SLAVEADDR_RW", "READ_THE_DATA"}
        /\ UNCHANGED <<CmdType, Cleanup_Count, ActiveChannel, FirstTime_Flag,
                       ConfigTrigger, rtVars, bus>>
    BY <1>12 DEF ReadData, Called
  <2>2. CASE ReadIt /\ Finish(adc)
    <3>1. /\ DataOK'
          /\ StartTime' \in 0 .. TICKS - 1 /\ Nsamples' \in 0 .. 2
          /\ \/ StateMachine' = "SETTLE_WAIT" /\ Nsamples' = 1 /\ CmdType = "RW"
             \/ StateMachine' = "BUSY_WAIT2"
      BY <1>1, <2>1, <2>2, Finished DEF ControlOK, Conversion, Waiting
    <3>2. Readbuf' = adc /\ adc' = ActiveChannel
      BY <2>2 DEF ReadIt
    <3>3. Conversion'
      BY <1>1, <2>1, <3>1, <3>2 DEF Conversion, ControlOK, Waiting
    <3> QED BY <1>1, <1>2, <1>3, <2>1, <3>1, <3>2, <3>3 DEF ControlOK, Waiting
  <2>3. CASE ReadIt /\ ~Finish(adc)
    <3>1. /\ StateMachine' = "WAIT_STOP" /\ Readbuf' = adc /\ adc' = ActiveChannel
          /\ UNCHANGED <<StartTime, Nsamples, dataVars>>
      BY <2>3, Zenon DEF ReadIt
    <3>2. Conversion'
      BY <1>1, <2>1, <3>1 DEF Conversion, ControlOK, Waiting
    <3> QED BY <1>1, <1>2, <1>3, <2>1, <3>1, <3>2, DataSame DEF ControlOK, Waiting
  <2>4. CASE ~ReadIt
    <3>1. /\ StateMachine' \in {"WRITE_SLAVEADDR_RW", "READ_THE_DATA"}
          /\ UNCHANGED <<StartTime, Readbuf, Nsamples, dataVars, adc>>
      BY <1>12, <2>4 DEF ReadData
    <3>2. Conversion'
      BY <1>1, <2>1, <3>1 DEF Conversion, ControlOK, Waiting
    <3> QED BY <1>1, <1>2, <2>1, <3>1, <3>2, DataSame DEF ControlOK, Waiting
  <2> QED BY <2>2, <2>3, <2>4
<1>13. CASE WaitStop
  <2>1. /\ SysTicks' = Now /\ StateMachine = "WAIT_STOP"
        /\ UNCHANGED <<CmdType, Cleanup_Count, Readbuf, ActiveChannel, FirstTime_Flag,
                       ConfigTrigger, rtVars, adc, bus>>
    BY <1>13 DEF WaitStop, Called
  <2>2. CASE Finish(Readbuf)
    <3>1. /\ DataOK'
          /\ StartTime' \in 0 .. TICKS - 1 /\ Nsamples' \in 0 .. 2
          /\ \/ StateMachine' = "SETTLE_WAIT" /\ Nsamples' = 1 /\ CmdType = "RW"
             \/ StateMachine' = "BUSY_WAIT2"
      BY <1>1, <2>1, <2>2, Finished DEF ControlOK, Conversion, Waiting
    <3>2. Conversion'
      BY <1>1, <2>1, <3>1 DEF Conversion, ControlOK, Waiting
    <3> QED BY <1>1, <1>2, <2>1, <3>1, <3>2 DEF ControlOK, Waiting
  <2>3. CASE ~Finish(Readbuf)
    <3>1. UNCHANGED <<StateMachine, StartTime, Nsamples, dataVars>>
      BY <1>13, <2>3, Zenon DEF WaitStop
    <3>2. Conversion'
      BY <1>1, <2>1, <3>1 DEF Conversion, ControlOK
    <3> QED BY <1>1, <1>2, <2>1, <3>1, <3>2, DataSame DEF ControlOK
  <2> QED BY <2>2, <2>3
<1>14. CASE Pause
  <2>1. /\ SysTicks' = Now
        /\ StartTime' \in {StartTime, Now}
        /\ \/ StateMachine = "SETTLE_WAIT" /\ StateMachine' \in {"SETTLE_WAIT", "GO_AGAIN"}
           \/ StateMachine \in {"BUSY_WAIT2", "BUSY_WAIT3"}
                /\ StateMachine' \in {StateMachine, "GETJOB"}
        /\ UNCHANGED <<CmdType, Cleanup_Count, Readbuf, ActiveChannel, FirstTime_Flag,
                       Nsamples, ConfigTrigger, dataVars, rtVars, adc, bus>>
    BY <1>14 DEF Pause, Called
  <2>2. Conversion'
    BY <1>1, <2>1 DEF Conversion, ControlOK, Waiting
  <2> QED BY <1>1, <1>2, <2>1, <2>2, DataSame DEF ControlOK, Waiting
<1>15. CASE FinishCleanup
  <2>1. /\ SysTicks' = Now
        /\ StateMachine' \in {"BUSY_WAIT3", "GETJOB"} /\ StartTime' \in {StartTime, Now}
        /\ Cleanup_Count' = 0 /\ ActiveChannel' = NUM_AD_CHANS - 1
        /\ UNCHANGED <<CmdType, Readbuf, Nsamples, ConfigTrigger, dataVars, rtVars,
                       adc, bus>>
    BY <1>15 DEF FinishCleanup, Called
  <2>2. FirstTime_Flag' \in BOOLEAN
    BY <1>15, Zenon DEF FinishCleanup
  <2>3. Conversion'
    BY <1>1, <2>1 DEF Conversion, ControlOK, Waiting
  <2>4. ActiveChannel' \in Chans
    BY <2>1 DEF Chans
  <2> QED BY <1>1, <1>2, <2>1, <2>2, <2>3, <2>4, DataSame DEF ControlOK
<1> QED
  BY <1>5, <1>6, <1>8, <1>9, <1>10, <1>11, <1>12, <1>13, <1>14, <1>15
  DEF I2C_1_master_Process

(* The receive thread touches neither the tick's state nor its data, and   *)
(* takes from them only what is enabled.                                   *)
LEMMA ThreadStep ==
  ASSUME IInv, RecvThread
  PROVE  ControlOK' /\ DataOK' /\ ThreadOK'
<1>1. ControlOK /\ DataOK /\ ThreadOK
  BY Parts
<1>2. UNCHANGED <<SysTicks, masterVars, dataVars, adc, bus>>
  BY DEF RecvThread, NewConfig, CopyConfig, I2C_1_master_NewConfig, GetAllReadings,
         GetReading, SendReadings
<1>3. DataOK'
  BY <1>1, <1>2, DataSame
<1>4. ConfigTrigger' \in BOOLEAN
  <2>1. ConfigTrigger' = ConfigTrigger \/ ConfigTrigger' = TRUE
    BY Zenon DEF RecvThread, NewConfig, CopyConfig, I2C_1_master_NewConfig,
                 GetAllReadings, GetReading, SendReadings
  <2> QED BY <1>1, <2>1, Zenon DEF ControlOK
<1>5. ControlOK'
  BY <1>1, <1>2, <1>4 DEF ControlOK, Conversion
<1>6. (next + 1) % NUM_AD_CHANS \in Chans
  BY <1>1, NextSlot DEF ThreadOK
<1>7. Default \in Configs /\ Zero \in Readings /\ 0 \in Chans
  BY ConfigAssumption, ChansAssumption DEF Zero, Readings, Chans
<1>8. /\ rt \in {"IDLE", "COPY", "TRIGGER", "READ", "SEND"}
      /\ cfg \in Configs /\ next \in Chans
      /\ canned \in [Chans -> Configs] /\ reply \in [Chans -> Readings]
      /\ bus' \in {"GOOD", "FLAKY"} /\ ReplyConfigured
  BY <1>1, <1>2 DEF ThreadOK
<1>9. ASSUME rt' \in {"IDLE", "COPY", "TRIGGER", "READ", "SEND"},
             cfg' \in Configs, next' \in Chans,
             canned' \in [Chans -> Configs], reply' = reply
      PROVE  ThreadOK'
  <2>1. ReplyConfigured'
    BY <1>8, <1>9 DEF ReplyConfigured
  <2> QED BY <1>8, <1>9, <2>1 DEF ThreadOK
<1>10. ASSUME rt' \in {"IDLE", "COPY", "TRIGGER", "READ", "SEND"},
              cfg' = cfg, canned' = canned, next' \in Chans,
              reply' \in [Chans -> Readings], ReplyConfigured'
       PROVE  ThreadOK'
  BY <1>8, <1>10 DEF ThreadOK
<1>11. ASSUME NEW k \in Configs, NewConfig(k) PROVE ThreadOK'
  <2>1. rt' = "COPY" /\ cfg' = k /\ next' = 0 /\ canned' = canned /\ reply' = reply
    BY <1>11, Zenon DEF NewConfig
  <2> QED BY <1>7, <1>8, <1>9, <2>1
<1>12. CASE CopyConfig
  <2>1. /\ rt' \in {"TRIGGER", "COPY"} /\ cfg' = cfg /\ reply' = reply
        /\ next' = (next + 1) % NUM_AD_CHANS
        /\ canned' = [canned EXCEPT ![next] = cfg]
    BY <1>12, Zenon DEF CopyConfig
  <2>2. canned' \in [Chans -> Configs]
    BY <1>8, <2>1
  <2>3. next' \in Chans
    BY <1>6, <2>1
  <2> QED BY <1>3, <1>5, <1>8, <1>9, <2>1, <2>2, <2>3
<1>13. CASE I2C_1_master_NewConfig
  <2>1. /\ rt' = "IDLE" /\ cfg' = Default /\ canned' = canned
        /\ next' = next /\ reply' = reply
    BY <1>13, Zenon DEF I2C_1_master_NewConfig
  <2> QED BY <1>3, <1>5, <1>7, <1>8, <1>9, <2>1
<1>14. CASE GetAllReadings
  <2>1. rt' = "READ" /\ next' = 0 /\ canned' = canned /\ cfg' = cfg /\ reply' = reply
    BY <1>14, Zenon DEF GetAllReadings
  <2> QED BY <1>3, <1>5, <1>7, <1>8, <1>9, <2>1
<1>15. CASE GetReading
  <2> DEFINE r == IF next \in Enabled(applied) THEN reading[next] ELSE Zero
  <2>1. /\ rt' \in {"SEND", "READ"} /\ canned' = canned /\ cfg' = cfg
        /\ next' = (next + 1) % NUM_AD_CHANS
        /\ reply' = [reply EXCEPT ![next] = r]
    BY <1>15, Zenon DEF GetReading
  <2>2. r \in Readings
    BY <1>1, <1>7, <1>8 DEF DataOK
  <2>3. r # Zero => next = r.chan /\ next \in Enbl[r.cfg]
    <3> SUFFICES ASSUME r # Zero PROVE next = r.chan /\ next \in Enbl[r.cfg]
      OBVIOUS
    <3>1. next \in Enabled(applied) /\ r = reading[next]
      OBVIOUS
    <3>2. r = [chan |-> next, cfg |-> applied[next]]
      BY <1>1, <1>8, <3>1 DEF DataOK, MeasuredHere
    <3>3. next \in Enbl[applied[next]]
      BY <3>1 DEF Enabled
    <3> QED BY <3>2, <3>3
  <2> HIDE DEF r
  <2>4. reply' \in [Chans -> Readings]
    BY <1>8, <2>1, <2>2
  <2>5. ReplyConfigured'
    BY <1>8, <2>1, <2>3 DEF ReplyConfigured
  <2>6. next' \in Chans
    BY <1>6, <2>1
  <2> QED BY <1>3, <1>5, <1>10, <2>1, <2>4, <2>5, <2>6
<1>16. CASE SendReadings
  <2>1. /\ rt' = "IDLE" /\ canned' = canned /\ cfg' = cfg /\ next' = next
        /\ reply' = [c \in Chans |-> Zero]
    BY <1>16, Zenon DEF SendReadings
  <2>2. reply' \in [Chans -> Readings] /\ ReplyConfigured'
    BY <1>7, <2>1 DEF ReplyConfigured
  <2> QED BY <1>3, <1>5, <1>8, <1>10, <2>1, <2>2
<1> QED
  BY <1>3, <1>5, <1>11, <1>12, <1>13, <1>14, <1>15, <1>16 DEF RecvThread

(* The invariant holds in every state.                                     *)
LEMMA Invariant == Spec => []IInv
<1>1. ASSUME IInv, [Next]_vars PROVE ControlOK' /\ DataOK' /\ ThreadOK'
  <2>1. ControlOK /\ DataOK /\ ThreadOK
    BY <1>1, Parts
  <2>2. CASE I2C_1_master_Process
    BY <1>1, <2>1, <2>2, TickStep, ThreadSame
  <2>3. CASE RecvThread
    BY <1>1, <2>3, ThreadStep
  <2>4. CASE BusChanges
    <3>1. bus' \in {"GOOD", "FLAKY"}
      BY <2>4 DEF BusChanges
    <3>2. UNCHANGED <<SysTicks, masterVars, ConfigTrigger, dataVars, rtVars, adc>>
      BY <2>4 DEF BusChanges
    <3>3. ControlOK'
      BY <2>1, <3>2 DEF ControlOK, Conversion
    <3>4. ThreadOK'
      BY <2>1, <3>1, <3>2 DEF ThreadOK, ReplyConfigured
    <3> QED BY <2>1, <3>2, <3>3, <3>4, DataSame
  <2>5. CASE UNCHANGED vars
    <3>1. ControlOK'
      BY <2>1, <2>5 DEF ControlOK, Conversion
    <3> QED BY <2>1, <2>5, <3>1, DataSame, ThreadSame
  <2> QED BY <1>1, <2>2, <2>3, <2>4, <2>5 DEF Next
<1>2. (IInv <=> ControlOK /\ DataOK /\ ThreadOK)'
  BY Parts, PTL
<1>3. IInv /\ [Next]_vars => IInv'
  BY <1>1, <1>2
<1> QED BY IInvInit, <1>3, PTL DEF Spec

(* Every variable keeps its type: the channel number stays in the table    *)
(* whatever is configured, the recoveries of the bus stay within bounds.   *)
THEOREM TypeCorrect == Spec => []TypeOK
<1>1. IInv => TypeOK
  BY DEF IInv
<1> QED BY Invariant, <1>1, PTL

(* A channel shows what was measured on it under the configuration in      *)
(* force (i2c_1_master.c:293-318).                                         *)
THEOREM MeasuredOnItsChannel == Spec => []MeasuredHere
<1>1. IInv => MeasuredHere
  BY DEF IInv
<1> QED BY Invariant, <1>1, PTL

(* A signal shows a channel that carries its name now (AtoDs.c:191-207).   *)
THEOREM SignalsAreCurrent == Spec => []SignalsCurrent
<1>1. IInv => SignalsCurrent
  BY DEF IInv
<1> QED BY Invariant, <1>1, PTL

(* A reply shows only channels that were configured (AtoDs.c:380-413).     *)
THEOREM RepliesConfigured == Spec => []ReplyConfigured
<1>1. IInv => ReplyConfigured
  BY DEF IInv
<1> QED BY Invariant, <1>1, PTL
=============================================================================
