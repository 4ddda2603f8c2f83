----------------------------- MODULE I2CMaster -----------------------------
(***************************************************************************)
(* The A/D sampling of the Controls processor: the state machine that the  *)
(* system tick drives (i2c_1_master.c), the configuration and the readings *)
(* of the channels (AtoDs.c), and the receive thread's two ways into them: *)
(* a new configuration and a request for all the readings.                 *)
(*                                                                         *)
(* The state machine runs in the tick interrupt, so that each of its calls *)
(* is one step, cases that fall through included, and it may fall between  *)
(* any two steps of the receive thread.  A reading is the channel that was *)
(* really measured and the configuration it was computed with.             *)
(*                                                                         *)
(* Left out: the console's debug command `ch', which sets the multiplexer  *)
(* by hand while the sampling goes on; GET_VALUE (get_value_cmd), which    *)
(* reads one channel or one signal as it stands and changes nothing, and   *)
(* does not ask whether the channel is configured; SETGPIOS, which touches *)
(* no variable of this module.                                             *)
(***************************************************************************)
EXTENDS Naturals, FiniteSets

CONSTANTS
  NUM_AD_CHANS,   \* channels behind the one converter (16)
  TIMEOUT_VAL,    \* ms that one transaction may take (60)
  SETTLE,         \* ms between the tossed sample and the kept one (35)
  PAUSE,          \* ms between two channels (47)
  LONG_PAUSE,     \* ms of rest for a bus that could not be recovered (8000)
  CLEANUPS,       \* attempts to recover the bus (50)
  TICKS,          \* the millisecond counter wraps here (2^32)
  Configs,        \* configurations, of the firmware and of the host
  Default,        \* the one compiled into the firmware
  Signals,        \* the signals that readings may be stored as (nine)
  Enbl,           \* per configuration, its enabled channels
  Name,           \* per configuration and channel, a signal or NoSignal
  NoSignal

Chans == 0 .. NUM_AD_CHANS - 1

ASSUME ChansAssumption == NUM_AD_CHANS \in Nat \ {0}
ASSUME TimesAssumption ==
  /\ {TIMEOUT_VAL, SETTLE, PAUSE, LONG_PAUSE, CLEANUPS, TICKS} \subseteq Nat \ {0}
  /\ SETTLE < TIMEOUT_VAL
  /\ {TIMEOUT_VAL, PAUSE, LONG_PAUSE} \subseteq 0 .. TICKS - 1
ASSUME ConfigAssumption ==
  /\ Default \in Configs /\ NoSignal \notin Signals
  /\ Enbl \in [Configs -> SUBSET Chans]
  /\ Name \in [Configs -> [Chans -> Signals \union {NoSignal}]]

(* What was measured: a channel, or NUM_AD_CHANS for none; and the         *)
(* configuration that it was computed with.  Zero is a cleared reading.    *)
Readings == [chan : 0 .. NUM_AD_CHANS, cfg : Configs]
Zero == [chan |-> NUM_AD_CHANS, cfg |-> Default]

VARIABLES
  SysTicks,                       \* timer.c
  StateMachine, StartTime, CmdType, Cleanup_Count, Readbuf, ActiveChannel,
  FirstTime_Flag, Nsamples, ConfigTrigger,             \* i2c_1_master.c
  canned, applied, reading, CSVar,                     \* AtoDs.c
  rt, cfg, next, reply,           \* the receive thread, inside AtoDs.c
  adc,           \* the channel whose conversion the converter holds
  bus            \* "GOOD" while the converter and the bus answer at once

masterVars == <<StateMachine, StartTime, CmdType, Cleanup_Count, Readbuf,
                ActiveChannel, FirstTime_Flag, Nsamples>>
dataVars == <<applied, reading, CSVar>>
rtVars == <<canned, rt, cfg, next, reply>>
vars == <<SysTicks, masterVars, ConfigTrigger, dataVars, rtVars, adc, bus>>

Init ==
  /\ SysTicks = 0 /\ StateMachine = "GETJOB" /\ StartTime = 0
  /\ CmdType = "RW" /\ Cleanup_Count = 0 /\ Readbuf = NUM_AD_CHANS
  /\ ActiveChannel = NUM_AD_CHANS - 1 /\ FirstTime_Flag = TRUE
  /\ Nsamples = 0 /\ ConfigTrigger = FALSE
  /\ canned = [c \in Chans |-> Default] /\ applied = canned
  /\ reading = [c \in Chans |-> Zero] /\ CSVar = [s \in Signals |-> Zero]
  /\ rt = "IDLE" /\ cfg = Default /\ next = 0 /\ reply = reading
  /\ adc = NUM_AD_CHANS /\ bus \in {"GOOD", "FLAKY"}

-----------------------------------------------------------------------------
(* AtoDs.c.  The fields of a channel are those of the configuration that   *)
(* they were copied from.                                                  *)

Enabled(a) == {c \in Chans : c \in Enbl[a[c]]}
AtoD_Get_ConfiguredChannels(a) == Enabled(a) \union {0}

(* Mutant: the signals are not cleared with the readings.                  *)
AtoD_Init_KeepsSignals ==
  /\ applied' = canned
  /\ reading' = [c \in Chans |-> Zero]
  /\ UNCHANGED CSVar

(* AD_DoConfig, and all that was measured before is forgotten.             *)
AtoD_Init ==
  /\ applied' = canned
  /\ reading' = [c \in Chans |-> Zero]
  /\ CSVar' = [s \in Signals |-> Zero]

AtoD_Set_value(c, chan) ==
  LET r == [chan |-> chan, cfg |-> applied[c]]
      s == Name[applied[c]][c]
  IN  /\ reading' = [reading EXCEPT ![c] = r]
      /\ CSVar' = IF s = NoSignal THEN CSVar ELSE [CSVar EXCEPT ![s] = r]
      /\ UNCHANGED applied

-----------------------------------------------------------------------------
(* The tick: the counter is incremented, then the state machine is called. *)

Now == (SysTicks + 1) % TICKS
GetSysDelta(from) == IF Now >= from THEN Now - from ELSE TICKS - from + Now

Waiting == {"SENDSTART", "START_COMPLETE", "WRITE_SLAVEADDR",
            "WRITE_SLAVEADDR_RW", "READ_THE_DATA", "WAIT_STOP",
            "DO_WRITEONLY", "SETTLE_WAIT", "GO_AGAIN"}
TimedOut == StateMachine \in Waiting /\ GetSysDelta(StartTime) >= TIMEOUT_VAL
Called(state) == StateMachine = state /\ ~TimedOut /\ SysTicks' = Now

(* A state that waits for a flag of the bus: a bus that answers at once    *)
(* gets the machine to `last', another may leave it in one of `stops'.     *)
FallsThru(stops, last) ==
  StateMachine' \in {last} \union (IF bus = "GOOD" THEN {} ELSE stops)

(* Mutant: the channel number does not wrap around.                        *)
NextChannel_NoWrap(c, configured) == c + 1

NextChannel(c, configured) ==
  LET later == {d \in configured : d > c}
      from == IF later # {} THEN later ELSE configured
  IN  CHOOSE d \in from : \A e \in from : d <= e

(* cleanup(): the bus is reset; the rest is done in the next call.         *)
Cleanup ==
  /\ Cleanup_Count' = Cleanup_Count + 1
  /\ StateMachine' = "FINISH_CLEANUP"
  /\ UNCHANGED <<StartTime, CmdType, Readbuf, ActiveChannel, FirstTime_Flag,
                 Nsamples, ConfigTrigger, dataVars, rtVars, adc, bus>>

Timeout == TimedOut /\ SysTicks' = Now /\ Cleanup

(* GO_AGAIN and the states it falls through into.  The first job after a   *)
(* restart is not a sample: it writes the sampling rate to the converter.  *)
Begin ==
  /\ CmdType' = IF FirstTime_Flag THEN "WRITEONLY" ELSE "RW"
  /\ FirstTime_Flag' = FALSE
  /\ FallsThru({"SENDSTART", "START_COMPLETE"},
               IF FirstTime_Flag THEN "WRITE_SLAVEADDR" ELSE "WRITE_SLAVEADDR_RW")

(* Mutant: a new configuration starts the channels over.                   *)
GetJob_StartsOver ==
  /\ Called("GETJOB")
  /\ IF ConfigTrigger THEN AtoD_Init ELSE UNCHANGED dataVars
  /\ ConfigTrigger' = FALSE
  /\ ActiveChannel' = IF ConfigTrigger THEN 0 ELSE
       NextChannel(ActiveChannel, AtoD_Get_ConfiguredChannels(applied'))
  /\ Nsamples' = 0 /\ StartTime' = Now
  /\ Begin
  /\ UNCHANGED <<Cleanup_Count, Readbuf, rtVars, adc, bus>>

(* set_next_channel: a new configuration is put in force here, between two *)
(* jobs, and nowhere else.                                                 *)
GetJob ==
  /\ Called("GETJOB")
  /\ IF ConfigTrigger THEN AtoD_Init ELSE UNCHANGED dataVars
  /\ ConfigTrigger' = FALSE
  /\ ActiveChannel' = NextChannel(ActiveChannel, AtoD_Get_ConfiguredChannels(applied'))
  /\ Nsamples' = 0 /\ StartTime' = Now
  /\ Begin
  /\ UNCHANGED <<Cleanup_Count, Readbuf, rtVars, adc, bus>>

GoAgain ==
  /\ Called("GO_AGAIN")
  /\ Begin
  /\ UNCHANGED <<StartTime, Cleanup_Count, Readbuf, ActiveChannel, Nsamples,
                 ConfigTrigger, dataVars, rtVars, adc, bus>>

AddrState == IF CmdType = "WRITEONLY" THEN "WRITE_SLAVEADDR" ELSE "WRITE_SLAVEADDR_RW"

(* Only the bus's flags decide how far these three states get.             *)
Progress ==
  /\ \/ Called("SENDSTART") /\ FallsThru({"SENDSTART", "START_COMPLETE"}, AddrState)
     \/ Called("START_COMPLETE") /\ FallsThru({"START_COMPLETE"}, AddrState)
     \/ Called("WRITE_SLAVEADDR") /\ FallsThru({"WRITE_SLAVEADDR"}, "DO_WRITEONLY")
  /\ UNCHANGED <<StartTime, CmdType, Cleanup_Count, Readbuf, ActiveChannel,
                 FirstTime_Flag, Nsamples, ConfigTrigger, dataVars,
                 rtVars, adc, bus>>

(* The STOP condition makes the converter start a conversion of the        *)
(* channel that is selected now.                                           *)
DoWriteOnly ==
  /\ Called("DO_WRITEONLY")
  /\ FallsThru({"DO_WRITEONLY"}, "WAIT_STOP")
  /\ adc' = IF StateMachine' = "WAIT_STOP" THEN ActiveChannel ELSE adc
  /\ UNCHANGED <<StartTime, CmdType, Cleanup_Count, Readbuf, ActiveChannel,
                 FirstTime_Flag, Nsamples, ConfigTrigger, dataVars,
                 rtVars, bus>>

(* Mutant: the first sample is stored as well.                             *)
Finish_KeepsFirst(buf) ==
  /\ StartTime' = Now
  /\ IF CmdType = "RW" THEN Nsamples' = Nsamples + 1 ELSE UNCHANGED Nsamples
  /\ IF CmdType = "RW" /\ Nsamples' = 1
       THEN StateMachine' = "SETTLE_WAIT" ELSE StateMachine' = "BUSY_WAIT2"
  /\ IF CmdType = "RW"
       THEN AtoD_Set_value(ActiveChannel, buf)
       ELSE UNCHANGED dataVars

(* The transaction is over: a first sample is tossed, a second one stored. *)
Finish(buf) ==
  /\ StartTime' = Now
  /\ IF CmdType = "RW" THEN Nsamples' = Nsamples + 1 ELSE UNCHANGED Nsamples
  /\ IF CmdType = "RW" /\ Nsamples' = 1
       THEN StateMachine' = "SETTLE_WAIT" ELSE StateMachine' = "BUSY_WAIT2"
  /\ IF CmdType = "RW" /\ Nsamples' # 1
       THEN AtoD_Set_value(ActiveChannel, buf)
       ELSE UNCHANGED dataVars

(* The two bytes are read, which yields the last conversion, and the STOP  *)
(* condition starts the next one.                                          *)
ReadIt ==
  /\ Readbuf' = adc
  /\ adc' = ActiveChannel
  /\ \/ Finish(adc)
     \/ /\ bus # "GOOD" /\ StateMachine' = "WAIT_STOP"
        /\ UNCHANGED <<StartTime, Nsamples, dataVars>>

ReadData ==
  /\ \/ /\ Called("WRITE_SLAVEADDR_RW") \/ Called("READ_THE_DATA")
        /\ ReadIt
     \/ /\ \/ Called("WRITE_SLAVEADDR_RW")
              /\ StateMachine' \in {"WRITE_SLAVEADDR_RW", "READ_THE_DATA"}
           \/ Called("READ_THE_DATA") /\ StateMachine' = "READ_THE_DATA"
        /\ bus # "GOOD"
        /\ UNCHANGED <<StartTime, Readbuf, Nsamples, dataVars, adc>>
  /\ UNCHANGED <<CmdType, Cleanup_Count, ActiveChannel, FirstTime_Flag,
                 ConfigTrigger, rtVars, bus>>

WaitStop ==
  /\ Called("WAIT_STOP")
  /\ \/ Finish(Readbuf)
     \/ bus # "GOOD" /\ UNCHANGED <<StateMachine, StartTime, Nsamples, dataVars>>
  /\ UNCHANGED <<CmdType, Cleanup_Count, Readbuf, ActiveChannel, FirstTime_Flag,
                 ConfigTrigger, rtVars, adc, bus>>

(* The three pauses.                                                       *)
Pause ==
  /\ \/ /\ Called("SETTLE_WAIT")
        /\ IF GetSysDelta(StartTime) < SETTLE
             THEN UNCHANGED <<StateMachine, StartTime>>
             ELSE StateMachine' = "GO_AGAIN" /\ StartTime' = Now
     \/ /\ \E p \in {<<"BUSY_WAIT2", PAUSE>>, <<"BUSY_WAIT3", LONG_PAUSE>>} :
             /\ Called(p[1])
             /\ StateMachine' = IF GetSysDelta(StartTime) < p[2] THEN p[1] ELSE "GETJOB"
        /\ UNCHANGED StartTime
  /\ UNCHANGED <<CmdType, Cleanup_Count, Readbuf, ActiveChannel, FirstTime_Flag,
                 Nsamples, ConfigTrigger, dataVars, rtVars, adc, bus>>

CleanupAgain ==
  /\ Called("FINISH_CLEANUP")
  /\ Cleanup_Count < CLEANUPS /\ bus # "GOOD"
  /\ Cleanup

(* Mutant: a restart of the sampling clears the trigger, as Init does.     *)
FinishCleanup_ClearsTrigger ==
  /\ Called("FINISH_CLEANUP")
  /\ IF Cleanup_Count = CLEANUPS
       THEN StateMachine' = "BUSY_WAIT3" /\ StartTime' = Now
       ELSE StateMachine' = "GETJOB" /\ UNCHANGED StartTime
  /\ Cleanup_Count' = 0
  /\ ActiveChannel' = NUM_AD_CHANS - 1
  /\ FirstTime_Flag' = TRUE /\ ConfigTrigger' = FALSE
  /\ UNCHANGED <<CmdType, Readbuf, Nsamples, dataVars, rtVars, adc, bus>>

(* The bus is idle again, or given up for a while.                         *)
FinishCleanup ==
  /\ Called("FINISH_CLEANUP")
  /\ IF Cleanup_Count = CLEANUPS
       THEN StateMachine' = "BUSY_WAIT3" /\ StartTime' = Now
       ELSE StateMachine' = "GETJOB" /\ UNCHANGED StartTime
  /\ Cleanup_Count' = 0
  /\ ActiveChannel' = NUM_AD_CHANS - 1
  /\ FirstTime_Flag' = TRUE
  /\ UNCHANGED <<CmdType, Readbuf, Nsamples, ConfigTrigger, dataVars, rtVars,
                 adc, bus>>

I2C_1_master_Process ==
  \/ Timeout \/ GetJob \/ GoAgain \/ Progress \/ DoWriteOnly \/ ReadData
  \/ WaitStop \/ Pause \/ CleanupAgain \/ FinishCleanup

-----------------------------------------------------------------------------
(* The receive thread: the configuration is copied from the packet, lowest *)
(* address first, then the state machine is told.                          *)

NewConfig(k) ==
  /\ rt = "IDLE"
  /\ rt' = "COPY" /\ cfg' = k /\ next' = 0
  /\ UNCHANGED <<SysTicks, masterVars, ConfigTrigger, dataVars, canned,
                 reply, adc, bus>>

CopyConfig ==
  /\ rt = "COPY"
  /\ canned' = [canned EXCEPT ![next] = cfg]
  /\ next' = (next + 1) % NUM_AD_CHANS
  /\ rt' = IF next' = 0 THEN "TRIGGER" ELSE "COPY"
  /\ UNCHANGED <<SysTicks, masterVars, ConfigTrigger, dataVars, cfg,
                 reply, adc, bus>>

I2C_1_master_NewConfig ==
  /\ rt = "TRIGGER"
  /\ ConfigTrigger' = TRUE
  /\ rt' = "IDLE" /\ cfg' = Default
  /\ UNCHANGED <<SysTicks, masterVars, dataVars, canned, next, reply,
                 adc, bus>>

(* AtoD_GetAllReadings, channel by channel.  Whether a channel is enabled  *)
(* and its reading are taken in one step: the tick comes between the two   *)
(* at most once and can then only clear the reading.                       *)
GetAllReadings ==
  /\ rt = "IDLE"
  /\ rt' = "READ" /\ next' = 0
  /\ UNCHANGED <<SysTicks, masterVars, ConfigTrigger, dataVars, canned,
                 cfg, reply, adc, bus>>

(* Mutant: whether the channel is enabled is not asked.                    *)
GetReading_Always ==
  /\ rt = "READ"
  /\ reply' = [reply EXCEPT ![next] = reading[next]]
  /\ next' = (next + 1) % NUM_AD_CHANS
  /\ rt' = IF next' = 0 THEN "SEND" ELSE "READ"
  /\ UNCHANGED <<SysTicks, masterVars, ConfigTrigger, dataVars, canned,
                 cfg, adc, bus>>

GetReading ==
  /\ rt = "READ"
  /\ reply' = [reply EXCEPT ![next] =
                 IF next \in Enabled(applied) THEN reading[next] ELSE Zero]
  /\ next' = (next + 1) % NUM_AD_CHANS
  /\ rt' = IF next' = 0 THEN "SEND" ELSE "READ"
  /\ UNCHANGED <<SysTicks, masterVars, ConfigTrigger, dataVars, canned,
                 cfg, adc, bus>>

SendReadings ==
  /\ rt = "SEND"
  /\ rt' = "IDLE" /\ reply' = [c \in Chans |-> Zero]
  /\ UNCHANGED <<SysTicks, masterVars, ConfigTrigger, dataVars, canned,
                 cfg, next, adc, bus>>

RecvThread == \/ \E k \in Configs : NewConfig(k)
              \/ CopyConfig \/ I2C_1_master_NewConfig
              \/ GetAllReadings \/ GetReading \/ SendReadings

(* The bus and the converter fail and recover as they like.                *)
BusChanges ==
  /\ bus' \in {"GOOD", "FLAKY"} \ {bus}
  /\ UNCHANGED <<SysTicks, masterVars, ConfigTrigger, dataVars, rtVars, adc>>

Next == I2C_1_master_Process \/ RecvThread \/ BusChanges
Spec == Init /\ [][Next]_vars

(* The tick never stops, and the receive thread finishes what it began.    *)
FairSpec == /\ Spec
            /\ WF_vars(I2C_1_master_Process)
            /\ WF_vars(CopyConfig \/ I2C_1_master_NewConfig \/ GetReading \/ SendReadings)

-----------------------------------------------------------------------------
(* Every variable has its type.                                            *)
TypeOK ==
  /\ SysTicks \in 0 .. TICKS - 1 /\ StartTime \in 0 .. TICKS - 1
  /\ StateMachine \in Waiting \union {"GETJOB", "FINISH_CLEANUP", "BUSY_WAIT2",
                                      "BUSY_WAIT3"}
  /\ CmdType \in {"RW", "WRITEONLY"} /\ Cleanup_Count \in 0 .. CLEANUPS
  /\ Readbuf \in 0 .. NUM_AD_CHANS /\ adc \in 0 .. NUM_AD_CHANS
  /\ ActiveChannel \in Chans /\ Nsamples \in 0 .. 2
  /\ FirstTime_Flag \in BOOLEAN /\ ConfigTrigger \in BOOLEAN
  /\ canned \in [Chans -> Configs] /\ applied \in [Chans -> Configs]
  /\ reading \in [Chans -> Readings] /\ reply \in [Chans -> Readings]
  /\ CSVar \in [Signals -> Readings]
  /\ rt \in {"IDLE", "COPY", "TRIGGER", "READ", "SEND"}
  /\ cfg \in Configs /\ next \in Chans /\ bus \in {"GOOD", "FLAKY"}

(* The multiplexer, the tossed sample, the recoveries of the bus and the   *)
(* changes of configuration never make a channel show what was measured on *)
(* another, nor what was computed with a configuration no longer in force. *)
MeasuredHere == \A c \in Chans :
  reading[c] # Zero => reading[c] = [chan |-> c, cfg |-> applied[c]]

(* A signal shows a measurement of a channel that carries its name now.    *)
SignalsCurrent == \A s \in Signals : CSVar[s] # Zero =>
  \E c \in Chans : /\ CSVar[s] = [chan |-> c, cfg |-> applied[c]]
                   /\ Name[applied[c]][c] = s

(* In a reply with all the readings, those of channels that were not       *)
(* configured are 0, channel 0 included, which is sampled even then; and   *)
(* the others were measured on their channel.                              *)
ReplyConfigured == \A c \in Chans :
  reply[c] # Zero => c = reply[c].chan /\ c \in Enbl[reply[c].cfg]

(* The inductive invariant behind the four above.  Once the first sample   *)
(* of a channel is tossed, the converter holds a conversion of that        *)
(* channel; if its STOP is still awaited, so does Readbuf after a second   *)
(* read.  Only a recovery of the bus is counted.                           *)
Conversion ==
  /\ StateMachine \in Waiting => Nsamples \in {0, 1}
  /\ StateMachine \in Waiting /\ Nsamples = 1 => adc = ActiveChannel
  /\ StateMachine = "WAIT_STOP" /\ CmdType = "RW" =>
       adc = ActiveChannel /\ (Nsamples = 1 => Readbuf = ActiveChannel)
  /\ StateMachine \in {"WRITE_SLAVEADDR", "DO_WRITEONLY"} => CmdType = "WRITEONLY"
  /\ StateMachine # "FINISH_CLEANUP" => Cleanup_Count = 0
IInv == TypeOK /\ Conversion /\ MeasuredHere /\ SignalsCurrent /\ ReplyConfigured

(* The configuration in force is one that the host sent, not the beginning *)
(* of one and the end of another.  This does not hold when one arrives     *)
(* while the trigger of an earlier one is still set; see ConfigLands.      *)
AppliedWhole == \E k \in Configs : applied = [c \in Chans |-> k]

(* Once no more configurations come, the last one is put in force, even if *)
(* the bus never works again.                                              *)
ConfigLands == <>[](rt \in {"IDLE", "READ", "SEND"}) => <>[](applied = canned)

(* While the bus works, every channel that stays configured is sampled     *)
(* over and over, whatever configurations come meanwhile.                  *)
Sampled(c) == StateMachine = "BUSY_WAIT2" /\ CmdType = "RW" /\ ActiveChannel = c
AllSampled ==
  <>[](bus = "GOOD") =>
    \A c \in Chans : <>[](c \in AtoD_Get_ConfiguredChannels(applied))
                       => []<>Sampled(c)
=============================================================================
