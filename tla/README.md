# Deans_Industrial: verification project

TLA+ modules, TLC configurations and TLAPS proofs for the software of the
Deans_Industrial controller: an STM32F405 ("Controls") that samples signals and
switches outputs, a Linux module ("host") that asks it for readings over a serial
line, and the programs on the host that ask for them.

Every module says in its header which files it models; `PROJECT.json` gives for every
definition the lines it stands for. All paths below are relative to `src/`.

    tlc -workers 2 -config packets_window.cfg ControlsPackets   # a run
    tlapm ControlsPackets_proofs.tla                            # the proofs

## 1. The system

    browser        Lua scripts, c_clients          host daemon (cdc3)                Controls (STM32F405, FreeRTOS)
    --------  ->  -----------------------  ->  ---------------------------  serial   -------------------------------
    luafcgid       ask for readings,           Canned_Packets               ------   receive driver -> receive thread
                   loop-backs, outputs         PacketHandler                 line    send thread -> send driver
                                               Serial_Send, Serial_Recv     + pin    A/D tick, console, host monitor

The host raises an output pin (`COMMS_to_CTRL`) and sends one IMUP packet when it is
up. From then on it sends requests, and the Controls answers some of them with a
packet. Nothing in a packet says which request it answers.

### Controls (`STM_Controls/src`)

| Part | State | Operations | Interacts with | Hard because | Correct when |
|---|---|---|---|---|---|
| Packet buffers (`DataBuffer.c`) | one flag for each of 3 buffers | get, return | everything below, by address | ownership moves with the address through drivers, DMA, two queues, two threads, and nothing checks it | a buffer is in one place; it comes back |
| Receive driver (`PacketRecvDriver.c`) | `State`, `bufbase`, a DMA stream | called by the idle hook: get a buffer, look for a header, wait for the DMA, queue the buffer | the pool, the receive thread's queue | polls in the idle hook; DMA runs beside it; a bad checksum re-uses the buffer | the DMA never writes into a buffer someone else has; the queue has room |
| Receive thread (`PacketRecvThread.c`) | the buffer in hand, `DloopBuf`, the queue of 3 | one request after the other | A/D data, send queue, monitor | replies travel in the request's buffer, or in one static one | a reply goes out as it was queued |
| Send thread and driver (`PacketSendThread.c`, `PacketSendDriver.c`) | the queue of 5, the semaphore, `Trigger`, `State` | queue without waiting; trigger; start and complete a transfer | the pool (returns buffers), all senders | two state machines at two priorities that share plain variables; a full queue tosses silently | accepted packets go out once, in order, none before the host is up |
| Host monitor (`monitor_host.c`) | `State`, skip counter, IMUP flag | samples the pin, looks for the IMUP packet, asks once for the A/D configuration | receive thread, send queue | handshake before which nothing is sent, over the same buffers | the handshake completes; requests are not lost |
| A/D sampling (`i2c_1_master.c`, `AtoDs.c`) | a state machine, a millisecond counter, channel data | runs in the tick interrupt; configuration and readings from the receive thread | receive thread, by shared tables | an interrupt beside a thread; a converter whose result is always one conversion old; a bus that hangs; a counter that wraps | a reading was measured on its channel under the configuration in force |
| Console output (`Uart2_Outp.c`) | a circular queue of 100 jobs, two indexes, a count | queue a job, feed the USART | idle hook, receive thread, tick | producers at three levels, load/modify/store on the count | accepted texts are printed once, whole, in order |
| Console input and commands (`Uart2_Inp.c`, `Cmds.c`) | the line of 21 characters, two state machines | edit, hand over a line, run a command, dump memory in paced rows | the output queue | one buffer shared by address, a completion word shared by all dumps | the line is not edited under the command; every line is answered |
| Utilities, timer, LTC2451 driver, vendored libraries | | | | | not modelled, see section 7 |

### Host (`Linux_Host`)

| Part | State | Operations | Interacts with | Hard because | Correct when |
|---|---|---|---|---|---|
| Command server (`LinuxComms/Canned_Packets.c`) | the request in work, its loops | take a request, parse it through the PacketHandler, send, wait at most 3 s, reply | users, PacketHandler, serial threads | late answers, answers to others, users that gave up, packets lost | GOOD means the loops were looped; users get replies |
| Serial threads (`serial_send.c`, `serial_recv.c`) | sequence numbers | frame and send; receive, check and publish | all that send or wait | a line that loses and spoils; publications that find nobody; character timeouts | a damaged frame is not published; lost bytes do not spoil later frames for ever |
| PacketHandler (`packet_recv.c`) | the Lua state | parse requests; answer the Controls' own packets; IMUP once | command server, Controls | writes to another thread's memory; a start-up of 2 s; a pin that outlives the daemon and a Controls that is reset by itself | after a restart of either side both know of each other |
| C clients, Lua clients (`c_clients`, `lua_clients`) | | by-pass the command server (Dloop, GetAD) or ask it | | two askers on one line | |
| luafcgid | pools of Lua states, per-script locks | runs the web pages' scripts | Lua clients | third-party, with threads | not modelled, see section 7 |

## 2. The modules

| Module | Models | Kind |
|---|---|---|
| `ControlsPackets` | the whole packet path of the Controls with the host monitor, and the host's wire and pin | implementation |
| `PacketLink` | what the sending half promises: a bounded FIFO line that opens when the host is up | abstract specification |
| `I2CMaster`, `MCI2CMaster` | the A/D tick and the receive thread's two ways into its data; two channels, two configurations, two signals for TLC | implementation |
| `UartOut`, `MCUartOut` | the console's output queue at the grain of accesses to shared variables; jobs for TLC | implementation |
| `ConsoleLine` | what it promises: a bounded FIFO of texts with completion flags | abstract specification |
| `Console` | line editor and commands above a `ConsoleLine` queue | implementation |
| `HostComms` | command server, C programs, serial threads, line and Controls at the level of messages | implementation |
| `Handshake` | the host's PacketHandler and the Controls' monitor, with restarts of both | composition of two components |
| `Frames` | the bytes of a frame and its checksum | operators |
| `RecvFramer` | the Controls' receive driver, byte by byte | implementation |
| `SerialRecv` | the host's receiver, byte by byte, with character timeouts | implementation |
| `LoopBack`, `MCLoopBack` | both receivers, the line and PC_dloop together, with noise and resets; two pieces of data for TLC | composition |
| `ControlsPackets_proofs`, `ControlsRoom_proofs`, `UartOut_proofs`, `I2CMaster_proofs`, `Console_proofs`, `HostComms_proofs`, `Handshake_proofs`, `LoopBack_proofs` | | theorems |

The modules divide the serial line between them by grain. `LoopBack` has its bytes and
knows of one packet at a time; `ControlsPackets` has whole packets, of which a damaged one is
one outcome, with all buffers and queues; `HostComms` has requests and answers, which may be late
or lost, between several programs; `Handshake` has the few packets that announce one side to the
other, and lets either side fail.

### ControlsPackets

*Grain.* `main.c` calls drivers and monitor from the FreeRTOS idle hook (priority 0);
the two packet threads run at priority 1. The idle hook therefore moves only when both
threads are blocked (`RecvBlocked`, `SendBlocked`), and it can lose the processor only
inside its own kernel calls. `idle` is its program counter at those points:
`RECV_QSENT` is the receive driver inside `xQueueSend`, `MONITOR_SENT` the monitor
between its calls. The threads interleave with each other freely (time slices), and the
two DMA channels (`RxDma`, `TxDma`) and the pin (`HostPin`) with everything.

*State.* The variables carry the names of the C variables (`IsAvail`, `bufbase`, `Dptr`,
`QD`, `Trigger`, `paktptr`, `Aparm`, `has_IMUPpakt`, `Sent_ADreq`, ...). `rdrv`, `sdrv`,
`mh` are the three `State` variables of the drivers and the monitor, `rt` and `st` the
threads' program counters. A buffer is its address; `mem` is what it holds: a command
and a payload tag. Queue entries carry, for the properties only, what the packet said
when it was queued (`said`).

*Correspondence.* One action per `case` of a driver and per stretch between kernel calls
of a thread: `RecvDriver_*` are the cases of `PacketRecvDriver_Process`, `SendDriver_*`
those of `PacketSendDriver_Process`, `Monitor_*` those of `Monitor_Host`, `Recv_*` and
`Send_*` the two thread functions. `PacketSend_pakt` is the non-blocking
queue call that every sender uses and that tosses without a word.

### I2CMaster

One call from the tick is one step, cases that fall through included: `FallsThru` says
where a call may stop, and a bus that is `GOOD` gets to the end. `adc` is the channel
whose conversion the converter holds; a read yields it and starts the next conversion.
A configuration is copied channel by channel (`CopyConfig`) by the receive thread into
`canned` and taken over by the tick (`AtoD_Init`, only in `GetJob`) into `applied`, so
that a tick may fall between any two channels. A reading is the pair *channel really
measured, configuration used*; the floating-point arithmetic is left out. The
millisecond counter wraps at `TICKS`.

### UartOut, ConsoleLine

`UD_Send` by a task is cut into test, slot, load, store, index and fill; a call from the
tick is one step, and comes in at one point of a task's call at most. `Racing = FALSE`
confines the tick to the points between calls. `LineOf` maps queue, buffer and state
machine to the abstract line, `Calls` and `Waiting` say what a task that is inside a call
has seen.

### Console

The three functions that the idle hook calls in turn, one step each, on a `line` which is
that of `ConsoleLine` with two kinds of texts. Two rigid variables select surroundings:
`patient`, an operator who types only when all is on the screen; `noisy`, the packet threads and
the monitor print as well, and the tick between the calls of `UD_Send`. `Others` is such a call as one step on
a perfect queue, which `UartOut` implements without `Racing` only: a tick inside a call can lose
a text from the count, whose completion may then never come (`uart_hang`), and the dump that waits for it
does not end. What the runs and theorems of `Console` say is said without such ticks.

### HostComms

A request is who it is from, its command and a tag for its random data. `pc`, `cmd`,
`loops`, `j`, `sent` are the locals of `Canned_Packets`/`PC_dloop`/`PC_adgetall` and of
the programs `Dloop` and `GetAD`; `inbox` is what a ZeroMQ subscriber has queued (up to
`HWM`), `toSerial` what each pusher has. `Serial_Bad` is every loss on the line.
`looped` counts, for the properties, the answers of the Controls to the command under
way. The rigid variable `calm` selects runs in which answers are late only by never
coming and no other program uses the line. The line and the Controls are external: in the
composition with `ControlsPackets` they would be its frames, whose order `PacketLink`
gives.

### Handshake

`daemon` is where `PacketHandler` stands: `LOW` is the two seconds' sleep with the pin low
(`Set_Comms_to_CTRL_pin`), `RAISED` the moment between raising the pin and sending the one IMUP
packet, `UP` the loop that answers. `mh` is the state of `Monitor_Host`. The daemon can be
stopped and started at any time (the service scripts do that; the pin keeps its value),
the Controls can be reset at any time, and either line may lose a packet. `MonitorHost` samples the
pin and finds what `RecvThread` left for it, so an IMUP packet of an earlier daemon may
still be there. The console's command that sends `ADCONFIG`'s request is an action
nobody must take.

### Frames, RecvFramer, SerialRecv, LoopBack

`RecvFramer` has one action per `case` of the receive driver up to the start of the DMA, and
`WaitComplete`. The cases fall through as long as the USART has a byte: `rdrv` is the state
that the next call begins with, `at` the case that the call under way has reached, and a byte may arrive
between any two of its tests, but only one per call: at 9600 baud a byte takes a
millisecond and a call some microseconds. `SerialRecv` has one action per read of
`Get_Input_Packet`; `CharTimeout` is three reads of 0.4 seconds that find nothing, and `dbuf` keeps what
earlier packets left there, because the code compares with it. `LoopBack` joins
the two by the receive thread's answer and by `PC_dloop`, with a budget of faults: a byte lost,
changed or added on either line, or the Controls reset in mid-frame.

## 3. The runs

Every property stands at the end of its module with a comment that says what it
means. `TypeOK` is the type invariant of each module.

| Run | Bounds | Shows |
|---|---|---|
| `packets_window` | 2 buffers, queues of 2 and 2, GET, DLOOP and IMUP requests with one payload, 2 unanswered, the console's `b8` packet, the pin sampled at every second call; 2.5 million states | However packets overflow and whatever the noise does: no buffer is in two places (`OnePlace`), thread, driver and semaphore stay in step (`Handover`), replies in request buffers go out as queued (`ReplyIntact`), and the sending half implements `PacketLink` (`ImplementsLink`) |
| `packets_live` | pool and receive queue at their real size 3, a send queue of 4, GET, LOCAL and IMUP requests, 2 unanswered; 0.4 million states | With two slots more than requests unanswered the send queue fills to the last slot and drops nothing: no buffer leaks (`NoLeak`), no reply and neither packet of the monitor is dropped (`NothingDropped`). Buffers come back while the host is steady and its IMUP packet is not lost (`BuffersComeBack`), and a steady host whose IMUP packet has arrived is recognised and answered (`HostComesUp`) |
| `packets_wedge` | the real sizes, a host that leaves up to 3 requests unanswered | A disagreement with a comment, section 5 |
| `i2c_sampling` | 2 channels, 2 configurations, 2 signals, times 1 to 4 ticks, a counter that wraps at 5, 2 attempts to recover the bus; 0.7 million states | What is stored (`MeasuredHere`), named (`SignalsCurrent`) and reported (`ReplyConfigured`) was measured on that channel under the configuration in force; the last configuration lands even on a dead bus (`ConfigLands`); on a working one every configured channel is sampled for ever (`AllSampled`) |
| `uart_line` | 3 slots, a string with a completion flag, a character, and a string with a value from the tick, between calls | The count is the distance of the indexes (`CountRight`), the queue implements `ConsoleLine` (`ImplementsLine`), a flag cleared is set again (`Completes`) |
| `uart_hang` | the same, the tick prints inside calls | Section 5 |
| `console` | a queue of 5, lines of 2 characters, dumps of 3 rows of 3 texts, commands of 2 texts | The line is not edited under a command (`LineStable`), an operator who waits gets paced dumps (`RowByRow`) without tossed texts (`RoomForAll`), every line is answered even if texts are tossed (`Answered`); the tick prints between calls of `UD_Send` only |
| `host_commands` | one user, the program Dloop, 2 tags, up to 2 loops, 1 waiting publication; 175 thousand states | GOOD counts only loops answered for this command (`LoopsWereLooped`), in calm surroundings server and line stay in step (`InStep`), users get replies (`Answered`) |
| `host_late` | one user, no program | Section 5 |
| `handshake` | 3 packets under way in each direction, faults without bound; 11 thousand states | The Controls does not take a pin that kept its value for a host (`NotFooled`); at most one stale IMUP packet is answered (`OneStaleAnswer`); once nothing fails any more both sides come to know of each other (`Completes`) and a Controls that asked for its configuration gets it (`Configured`) |
| `loop_back` | bytes below 8, start bytes 6 and 7, data of one and of two bytes, 2 faults anywhere; 0.9 million states | On a line in step and undisturbed a loop-back succeeds wherever the driver's tests fall between the bytes (`CleanSucceeds`); a frame with one byte changed after its length is never taken for another packet (`NothingForged`); whatever length a damaged byte names, the host's receiver stores nothing outside its buffer (`StaysInBuffer`); whatever noise and resets did to the receivers, loop-backs succeed again (`Recovers`) |
| `serial_short` | bytes below 32, 1 fault | Section 5 |

*Why the bounds are enough.* The pool and the two queues matter by being empty, full or
between, and by which of them is full first. `packets_window` makes the send queue the
short one (two requests and the console overflow it) with the pool at its smallest size that still
has one buffer in the receive driver and one elsewhere; `packets_live` gives it the least room with which nothing is dropped (with 3 slots
TLC finds a dropped reply and its lost buffer), and `packets_wedge` has the real sizes. Buffers are compared only for being the same, and the proofs below cover all
sizes. Two channels are a proper subset and its complement: a configuration enables the
one or the other, channel 0 is sampled for itself only when the host's configuration
leaves it out, and a copy of two channels can be torn. The times of `i2c_sampling` keep
the order of the real ones (`SETTLE` < `PAUSE` < `TIMEOUT_VAL` <= `LONG_PAUSE`) and the
counter wraps inside every wait. Three slots of the console's queue hold a job being printed, one
waiting and one being queued, and the indexes wrap at once. In `console`, the
queue has room for one row and not for two (the real one has room for five), so that pacing
matters from the second row on and an impatient operator or the other printers fill it. In `host_commands` a publication queue of one overflows, tags outnumber it,
and two loops have a first and a last. Two users (without programs) were run as well,
without the liveness property, with the same result; together with Dloop the liveness
check outgrows a run of some minutes.

In `handshake` the only bound is `LINE`: either line holds up to three packets, one more than can be
of use, and who would send more waits until one is read or lost; faults are not counted.
In `loop_back` a byte has eight values, of which six may occur inside a frame; both
pieces of data have sums that are no start byte, so that start bytes occur only where frames begin. Two faults are one that puts a
receiver out of step and one that comes while it is. With start bytes
inside frames `Recovers` does not hold: of "AB AB 5F" the driver takes the second AB for a
wrong second start byte and misses the frame, and where data repeat the line can be missed for ever.

*Surroundings.* `Window` bounds what a host leaves unanswered: the command server sends
one packet at a time and gives up after 3 seconds, each C program as well, so that small
numbers are ordinary and six take several programs or late answers. In `ControlsPackets`
a host may send its IMUP packet whenever the one before is dealt with, and need not: the daemon sends it once
per start (packet_recv.c:327), and each start lowers the pin. That this one packet came through is a premise
(`ImupHeld`) of the liveness properties; the starts, and what becomes of a lost one, are what `Handshake` is about.

## 4. Fairness

Safety runs use `Spec`, liveness runs `FairSpec`; each module states its fairness with
its reason.

* `ControlsPackets`: weak fairness of the idle hook and of each thread: FreeRTOS calls
  the hook in an endless loop whenever no thread is ready, and slices time between the
  two threads. Weak fairness of the send DMA: a packet that was given to it goes
  out. Nothing is assumed of the host and of the line to the Controls, which may send again or not, spoil or lose: what the host must do is a
  premise of the properties, that its pin stays up (`HostSteady`) and that the IMUP packet of its last start
  was received (`ImupHeld`) or waits for nothing but a buffer (`NoBuffer`). A lost IMUP packet leaves the Controls where it is until
  the daemon is started again, and refutes neither property.
* `I2CMaster`: the tick never stops and the receive thread finishes what it began. The
  bus is left free; that it works is a premise of `AllSampled` and not one of
  `ConfigLands`.
* `UartOut`: the idle hook comes round, a call begun is finished. Nobody must print, and
  the tick need not.
* `Console`: the three functions are called in turn for ever; strong fairness of the
  last character of a text (`UD_Finish`), because each call of `UD_Process` may or may
  not be the one that sends it, but texts are finite.
* `HostComms`: each thread runs (weak fairness), a user's request is taken eventually
  (strong fairness of `Canned_Take`, because ZeroMQ takes requests of its peers in turn
  and the server is not always idle). The line loses what it likes; a wait ends by an
  answer or after 3 seconds, both are `Work`.
* `Handshake`: the daemon, once started, wakes up and reads its queue, the Controls'
  thread reads its packets, the idle hook calls the monitor (all weakly fair). Nobody must
  start the daemon, and nothing must fail; that faults end is a premise of `Completes`.
* `LoopBack`: the driver is called for ever, bytes that were sent arrive, the host's receiver
  reads, the Controls answers, and somebody goes on asking (all weakly fair). `Recovers` has one premise, that after a failed
  command nobody asks again before the line is silent: a byte of noise can complete an old
  frame, the Controls then answers once too often, and who asks in haste is given each time the
  answer to the command before.

## 5. Disagreements between code and comments

Each is a run that must find a violation, with the quoted comment under `findings` in
`PROJECT.json`.

* `packets_wedge` (`BuffersComeBack`): readings requested before the handshake hold all
  buffers, replies wait for the host to be up, and the packet that would bring it up finds no
  buffer (PacketSendDriver.c:121). In the run's lasso the receive driver looks for a buffer for ever.
* `uart_hang` (`Completes`): the tick prints between load and store of the number of
  items; one job stays behind (Uart2_Outp.c:100).
* `host_late` (`DumpsUnexpected`): an answer that comes after its command's 3 seconds,
  during the next command's wait, is taken as that one's (Canned_Packets.c:117).
* `serial_short` (`TrueMeansChecksum`): the `continue` after a character timeout in the
  data is the inner loop's. The missing byte is counted, the checksum is stored as
  data and taken out of the sum again, and the sum is compared with what an earlier packet left in
  the buffer: a packet is published whose checksum was never received
  (serial_recv.c:206).

Three further properties are stated in the modules and known not to hold. They repeat the
shape of what is above and have no run of their own; each is found by adding
it to a cfg:

* `NoLeak` of `ControlsPackets` with the real sizes, `Window = 6` and the commands GET, DLOOP
  and IMUP: loop-backs fill the send queue, and a reply dropped by it takes its buffer with
  it (PacketSendThread.c:108 against PacketRecvThread.c:115). Without loop-backs, or with `Window`
  at least two below the slots of the send queue, it cannot happen, section 6; with five slots
  a `Window` of 4 is already too many for `NothingDropped`.
* `DloopIntact` of `ControlsPackets` with sizes 3, 3, 5, `Window = 2`, two payloads and
  the commands DLOOP and IMUP: loop-back replies share one buffer that is overwritten while
  queued (PacketRecvThread.c:94). A host that waits for each answer does not meet it, section 6.
* `AppliedWhole` of `I2CMaster` with a settling time longer than a copy: a configuration that
  arrives while an earlier one's trigger is still set may be taken half copied
  (AtoDs.c:375); the next job corrects it, which is `ConfigLands`.

Met while modelling, without a comment that says otherwise: the PacketHandler's answer to a loop-back
started by the Controls swaps length and command (packet_recv.c:149), but no
firmware here starts one; a Controls that is reset while the pin stays high stays in
`LOOK_FOR_0` until the daemon is started again; and a Controls whose one request for
the configuration, or the answer to it, was lost keeps the canned one until its own next reset.

A frame that was sent whole carries up to 246 bytes of loop-back data (the limit of `PC_dloop`), and the
Controls composes the answer, six bytes longer, in a `DloopBuf` of 256 (PacketRecvThread.c:52);
`LoopAssumption` has this as `Len(d) + 6 <= BYTE`. A length byte that noise changed to 254 or 255 makes the
Controls' DMA store 257 or 258 bytes in a buffer of 256 (DataBuffer.c:31), and more than 250 bytes of
loop-back data do not fit in `DloopBuf`. The models treat such frames as fitting: buffers have no length in
`ControlsPackets`, and `RecvFramer` stores as much as the length byte says. The host's receiver
stores at most `BYTE + 2` bytes whatever it is sent (`StaysInBuffer`), for which its buffer is large enough.

## 6. The proofs

TLAPS proves, for every value of the constants that satisfies the named assumptions
(at least one buffer and slot, a pool no larger than the receive queue, constants of
the right types):

`ControlsPackets_proofs`

| Theorem | States |
|---|---|
| `TypeCorrect` | `[]TypeOK` |
| `OneOwner` | `[]OnePlace` |
| `OneAtATime` | `[]Handover` |
| `RepliesGoOutIntact` | `[]ReplyIntact` |
| `RecvNeverDrops` | `[]RQHasRoom`: the receive queue has room whenever the driver queues a buffer |
| `SendsInOrder` | `Spec => ImplementsLink` |

`ControlsRoom_proofs`, each under `Modest`: the host asks for no loop-back, nobody uses the
console's `b8` command, and `DBUF_NUMBUFS + 2 <= SQ_ELEMENTS`, for which the real sizes 3
and 5 are just enough; the host may leave any number of requests unanswered

| Theorem | States |
|---|---|
| `NothingLeaks` | `[]NoLeak` |
| `NothingIsDropped` | `Spec => NothingDropped` |

and, under `Spare`, for a host that may ask for loop-backs: nobody uses `b8`, and
`Window + 2 <= SQ_ELEMENTS` (with the real 5 slots up to three requests unanswered)

| Theorem | States |
|---|---|
| `NothingLeaksWithRoom` | `[]NoLeak` |
| `NothingIsDroppedWithRoom` | `Spec => NothingDropped` |

and, under `Window <= 1`, with or without `b8`, whatever the sizes

| Theorem | States |
|---|---|
| `LoopBacksGoOutIntact` | `[]DloopIntact` |

`UartOut_proofs`, each under `~Racing` (the tick prints between the tasks' calls)

| Theorem | States |
|---|---|
| `TypeCorrect` | `[]TypeOK` |
| `CountIsRight` | `[]CountRight` |
| `PrintsInOrder` | `Spec => ImplementsLine` |

`I2CMaster_proofs`

| Theorem | States |
|---|---|
| `TypeCorrect` | `[]TypeOK` |
| `MeasuredOnItsChannel` | `[]MeasuredHere` |
| `SignalsAreCurrent` | `[]SignalsCurrent` |
| `RepliesConfigured` | `[]ReplyConfigured` |

`Console_proofs`

| Theorem | States |
|---|---|
| `TypeCorrect` | `[]TypeOK` |
| `LineIsStable` | `[]LineStable` |
| `RoomIsThere` | `[]RoomForAll`: for a queue that holds what one command prints at once and one row of a dump (`RoomAssumption`) |
| `DumpsRowByRow` | `Spec => RowByRow` |

`HostComms_proofs`, for any number of users, programs, tags and loops

| Theorem | States |
|---|---|
| `TypeCorrect` | `[]TypeOK` |
| `StaysInStep` | `[]InStep` |
| `NoFalseLoop` | `Spec => LoopsWereLooped` |

`Handshake_proofs`

| Theorem | States |
|---|---|
| `TypeCorrect` | `[]TypeOK` |
| `NeverFooled` | `[]NotFooled` |
| `AtMostOneStale` | `[]OneStaleAnswer` |

`LoopBack_proofs`, for bytes of any number of values, data of any length that the program
accepts, and any number of faults

| Theorem | States |
|---|---|
| `OneChangeIsSeen` | two packets of one length that differ in one byte have different checksums |
| `TypeCorrect` | `[]TypeOK` |
| `NeverForged` | `[]NothingForged` |
| `CleanLoopsSucceed` | `Spec => CleanSucceeds` |
| `ReceiverStaysInBuffer` | `[]StaysInBuffer` |

*The argument for the packet path.* None of the four invariants is inductive alone. A
buffer is returned by the driver from `Aparm`, so that `OnePlace` needs to know that
`Aparm` is the buffer of the packet in hand (`Handover`); while the receive thread runs
inside the driver's queue call the driver still points at the buffer (`Phases`); and
`ReplyIntact` needs that nobody writes into a buffer that is queued (`OnePlace`).
`IInv == TypeOK /\ Handover /\ Phases /\ OnePlace /\ ReplyIntact` is inductive: one lemma
per conjunct, one step per action, with lemmas for what `PacketSend_pakt`, `Tail` and
`Append` do to the places of buffers. `RecvNeverDrops` is a pigeonhole argument: the
queue holds distinct buffers other than the driver's, the pool has `DBUF_NUMBUFS`, and
`DBUF_NUMBUFS <= RQ_ELEMENTS`. The refinement maps `line` to the packet being sent
followed by the queue; `Send_Receive` moves one to the other and is invisible, `TxDma`
is `Transmit`, an accepting sender `Accept`, a dropping one a stutter.

*The argument for the send queue.* It never overflows because it holds no packet twice: each
buffer of the pool is in one place (`OnePlace`), the request for the configuration is queued once
(`Sent_ADreq`), and the monitor's answer to IMUP is queued once per IMUP packet, of which there is
one at a time, in the DMA, the receive queue, the thread, the monitor's flag or, as the answer, the send
queue (`OneImup`). That is `RoomInv`; a packet about to be queued is not in the queue, and
`DBUF_NUMBUFS + 2` distinct packets fit (`RoomForOne`). A loop-back's reply travels in a buffer that can
be queued any number of times, which is why `Modest` excludes it.

*The argument with loop-backs.* The host sends a request only while fewer than `Window` are
unanswered, so that the requests in the receive queue and in the thread, the replies in the send queue and
on the wire, and the request that the DMA has just stored are at most `Window` together. This is `WindowKept`;
it is inductive with what the driver and the thread can be doing meanwhile, and its lemmas say how `Tail`
and `Append` change the number of such packets in a queue. When the thread is about to queue a reply, that
reply is one of the `Window` and not yet in the queue; the monitor's two packets are in it once each
(`MonitorOnce`, with `OneImup` again): at most `Window + 1` slots are taken, and `Spare` leaves one.
The bound is tight: one request more and TLC finds a packet dropped. For `Window <= 1` the same
count says that while a loop-back's reply is queued or being sent there is no other request, so that nobody writes into
`DloopBuf` (`LoopReplies`: what is queued from `DloopBuf` is such a reply). `WindowKept`, `LoopReplies`
and `MonitorOnce` were checked with TLC before they were proved, on two and three
buffers with windows of one and two; they have no run of their own.

*The argument for the console's output.* `IInv == TypeOK /\ CountRight /\ Calls /\ Waiting`.
A task that is interrupted nowhere still needs, at each point of a call, what it saw
before: the slot, the loaded count, that the queue was not full (`Calls`); and the
refinement needs that slots between the indexes hold the jobs as given (`Waiting`). The
two facts about the circular queue, that an index at a distance is a slot and that two
distances are two slots, are the lemmas `Indexes` and `Distinct`. With `Racing` neither
the invariant nor the conclusion holds, as `uart_hang` shows.

*The argument for the A/D tick.* The converter's result is that of the conversion before, so
that `MeasuredHere` needs to know, at every state at which the tick may stop, which channel the
converter holds: `Conversion` says that it is the active one from the second sample on, and
that a result that was read and not yet stored is the active channel's. Which channel is active comes from the lowest
configured one upwards; that a lowest one exists is taken from the well-foundedness of the naturals. A torn
copy of a configuration is harmless to these four because the tick takes each channel's
entry with its name.

*The argument for the console.* `RowByRow` rests on `Rows`: while an operator who waits has a
dump under way, the queue holds at most one text that ends a row, and none when the
completion word is set. `RoomForAll` needs in addition that nobody else prints: then that
text is the last in the queue, and nothing is left when it is done (`Lengths`), so that a row always
finds the queue empty.

*The argument for the host.* `LoopsWereLooped` is about any surroundings: packets that carry a
requester's tag are its own (`OwnPackets`), each awaited packet is somewhere exactly once or
has been counted (`OnTheWay`), and a loop counted as good used one answer
(`Counted`). `InStep` is about calm ones: there the line holds nothing, or one
packet that is the awaited one (`CalmLine`), and every action keeps it so.

*The argument for the handshake.* What may still be answered is counted: the IMUP packet that
the monitor kept and the one under way to it (`Pending`). While the pin is low nothing is
answered and by the time it rises the line is empty, so that answers and pending packets
together are at most one before the daemon sends its own and two after (`Answers`).
`NotFooled` only needs that the monitor leaves `LOOK_FOR_0` by seeing a low pin (`Since`).

*The argument for the bytes.* The checksum is a sum by recursion over the length. That the recursive
function `SumOf` is what its equation says, for every length, needs an induction: it is made without the
library's induction theorem, on the set of lengths for which it holds, whose complement would have a least
element (`Induction`, from the well-foundedness of the naturals). Adding a byte modulo `BYTE` can be undone
(`Modulo`), so that two sums that differ in one term differ. Of the receivers `Typed` says, besides types, how
index, count and buffer go together in each state; that is all `TypeCorrect` and `ReceiverStaysInBuffer`
need, whatever noise does. The other two need to know where the frame is:
`Progress` says that, unless damage is more than one byte, nothing is under way
(`Quiet`), or the request is on its way to the Controls, as stored and as still to come (`ToControls`), or received
there (`AtControls`), or the response on its way (`ToHost`), or received (`AtHost`); each of the driver's cases and each of the host's
reads keeps it, the last byte of a frame by `OneChangeIsSeen`.

*Only model-checked:* the liveness properties (`BuffersComeBack`, `HostComesUp`,
`ConfigLands`, `AllSampled`, `Completes`, `Answered`, `Configured`, `Recovers`), which
the prover does not reach. Every other property that a passing run checks is a theorem.

## 7. What is not modelled

* The arithmetic of readings (`AtoD_Set_value`'s floating point, ratio-metric inputs
  that refer to channel 0), the text of commands and replies, GPIO and clock set-up.
* GET_VALUE's contents: `get_value_cmd` (PacketRecvThread.c:159) reads one channel or signal as it stands, changes
  nothing and does not ask whether the channel is configured, so that `ReplyConfigured` says nothing of it; what the
  stored values mean (`MeasuredHere`, `SignalsCurrent`) holds of what it reads. As a packet it is a GET of `ControlsPackets`.
* In `HostComms` the data of a loop differ from all data on the way. Those of one byte, which the program may be asked
  for, can repeat by chance, and a late answer then counts as the present one. A negative number of loops,
  which the program compares as an unsigned one (Canned_Packets.c:163), is left out.
* The console's debug command `ch`, which sets the multiplexer by hand under the
  sampling (Cmds.c:172): what `I2CMaster` says of readings is said of operation without it.
* `printf`'s ring of characters (Uart2_Outp.c:248).
* The comparison of sequence numbers, whose result the host drops, and the health
  checks of the back channels, which change no state.
* The bodies of the two byte-level receivers know nothing of buffers and queues, and
  `ControlsPackets` nothing of bytes; the two are not composed, because their
  product is out of TLC's reach.
* `AD_ltc2451.c`, which is excluded from the build; FreeRTOS, CMSIS, the peripheral
  library, start-up code and tiny_printf, which are vendored; of FreeRTOS the queue, the
  semaphore, the idle hook and the priorities are modelled from their use.
* The daemon's `fork` and serial port settings, the Lua tables of configurations, the
  Ubuntu image; of the service scripts only that they start and stop the daemon.
* luafcgid, a third-party FastCGI server that runs the web pages' scripts and knows nothing of the
  Controls.

The vendored parts are by far most of the repository's lines of C (register definitions
and drivers of the chip's manufacturer, FreeRTOS, CMSIS's mathematics), so that the
share of all lines that the modules stand for is small; of the repository's own
files those with state are modelled, with the exceptions above.

## 8. What could come next

1. Loop-backs with several requests unanswered: the reply queued last goes out with the data of its
   request (`DloopIntact` for the newest only), whatever the `Window`.
2. Bytes and packets in one specification: that `LoopBack`'s Controls, with the pool behind its driver,
   implements the requests and replies of `ControlsPackets`.
3. `UartOut` with the ring of characters behind `printf`.
