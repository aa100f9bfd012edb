# Verification of the caterpillar firmware

TLA+ models, TLC runs and TLAPS proofs for the firmware of the Moamoa caterpillar
robot: an nRF54L15 whose application core talks Bluetooth LE, drives a motor chain and
logs an IMU to on-chip RRAM, and whose FLPR coprocessor samples the IMU into a ring in
shared SRAM. Paths are those of the repository; the firmware's own code is in
`src/src/`, the coprocessor's in `src/flpr/`, the shared header in `src/common/`.

`PROJECT.json` lists the runs, the map from definitions to source lines, the hazards and
the findings. This file says what they mean.

## 1. The system

### Components

| Component | Source | State | Operations | What makes it correct |
|---|---|---|---|---|
| Session log | `src/src/imu/imu_log.c` | RRAM: meta block, directory of entries, one ring of 16-byte records. RAM: `total_abs`, `seq_next`, the current session, a staging ring, `log_lock` | append (pump), writer thread, start / stop / erase / mark detached, list / read, recovery at boot | a session's records are its own and in order; entries never overlap; a closed session stays closed; a reset loses a bounded tail; the list tells the truth; no call hangs |
| Sample ring | `src/common/imu_shared.h`, `src/flpr/src/main.c`, `src/src/imu/imu_pump.c` | `magic`, `imu_ok`, `head`, `tail`, `overrun`, the records; no lock | boot and announce (FLPR), publish (FLPR), drain (pump) | a lossy bounded queue: each published sample once, in order, whole; lost only when full; counted when lost |
| Sensor configuration | same block: `cfg_odr`, `cfg_content`, ..., `cfg_seq`, `cfg_applied`, `cfg_status` | | `session_imu_run_update` (three threads), `apply_config` (FLPR) | the sensor ends up as the last demand says |
| Settings store | `src/src/settings/settings_store.c` | a record in RAM, two flash slots, one delayed work item | load, set, persist | a power cut never invents a state, and loses only what was not yet saved |
| Session orchestration | `src/src/app/session.c` | `stream_active` | arbitration of the sampling demand and of the connection interval, disconnect | the sensor runs iff someone wants it; the interval suits the work |
| Command queue | `src/src/app/device_cmd.c` | a queue of 8 commands, one thread | submit, execute | commands execute once and in order |
| BLE control plane | `src/src/ble/ble_interface.c` | `cur_conn`, the GATT values, connection parameters | connect, disconnect, one handler per characteristic | an attached session ends with its connection, a detached one does not |
| BLE transport | `src/src/ble/ble_transport.c` | the live FIFO, the message queue, the preview's decimation and its adaptation, the dump request, credits | stream, adapt, dump, abort | the FIFO is never corrupted; a dump is complete and in order; the preview slows down for a reason and recovers |
| FLPR sampler and sensor driver | `src/flpr/src/main.c`, `src/flpr/src/driver_asm330lhh.c` | the sensor's registers, `drdy_sem` | init, configure, data-ready interrupt, wait, read | what it reports as applied is applied; data keeps flowing |
| Boot and health | `src/src/app/app.c`, `src/src/main.c` | last seen counters | boot order, a look every second | every loss is reported once; no starvation is silent |
| Motor chain | `src/src/drivers/*.c` | `cur_tap`, `period_ns`, `duty_pct`, the two enable pins | set, ramp, enable | the motor does what the host asked last, also after failures and a reset; a driven motor sees no voltage jump |
| Host tools | `src/scripts/*.py` | files and a resume offset | list, dump, resume, erase | a resumed dump continues where it stopped |

### How they interact

    sensor -> FLPR main loop -> [shared ring] -> pump (prio 4) -> imu_log_append -> stage
                   ^                                 |                                |
        cfg_seq/applied                       live FIFO, capture          writer (prio 6) -> RRAM
                   |                                 |                                |
      session_imu_run_update             tx thread (prio 9)        dump thread (prio 7) <- read
         ^        ^        ^                         \___________  ____________/
      BT RX   device_cmd  main: health                           BLE
       (coop)  (prio 10)  monitor (prio 0)

 * The BT RX thread runs the GATT handlers and the connection callbacks. It calls
   `imu_log_stop` itself on a disconnect; commands from the host go through the queue to
   the `device_cmd` thread.
 * Every flash write goes through the SoC flash driver synchronised with the radio: it
   blocks for a timeslot. Whatever the code does around a flash write is therefore open
   to interleaving, wherever no lock is held.
 * The two cores share only the SRAM block, with barriers and no lock.

### What is hard

Four threads of different priorities meet in `imu_log.c`, one of which (the pump) takes
no lock and two of which test `active` before they take it. Power may fail between any
two flash writes, and the RAM accounting is rebuilt from a directory that is refreshed
only now and then. The settings record is written from live RAM after a wait. The two
cores have no lock, wrapping counters, and a magic word that survives a warm reset. The
sampling demand and the preview's state are read and written by three threads without a
lock. The sensor's line wakes the coprocessor by an edge, which can be lost. The digipot
cannot be read back, and a write to it may fail after it took effect. `PROJECT.json`
lists these at their lines under `hazards`.

## 2. Modules

| Module | Models | State corresponds to |
|---|---|---|
| `ImuLog` | `imu_log.c`, all operations | one variable per static variable and per flash area; `pc`, `wpc` are where the threads are |
| `SessionCatalogue` | abstract: sessions with numbers and record counts, as `imu_log.h` promises them | |
| `ImuLogProofs` | theorems on `ImuLog` and its refinement of `SessionCatalogue` | |
| `MCImuLog` | instances of `ImuLog` | |
| `SampleQueue` | abstract: a bounded queue that loses only when full | |
| `SampleRing` | the ring of `imu_shared.h`, both sides | one variable per field; `fpc`, `ppc` are where the cores are |
| `SampleRingProofs` | theorems on `SampleRing` and its refinement of `SampleQueue` | |
| `MCSampleRing` | instances of `SampleRing` | |
| `SettingsStore` | `settings_store.c`, all operations | `slots`, `rec`, `loaded`; `work`, `wpc` are the work item |
| `SettingsStoreProofs` | theorems on `SettingsStore` | |
| `MCSettingsStore` | instances, with two firmwares of different ranges | |
| `Session` | `session.c`, `device_cmd.c`, the connection callbacks and log and sensor handlers of `ble_interface.c`, `apply_config`, and of `imu_log.c` what they see of it | `connected`, `queue`, the arbiter's wishes, the shared configuration; `pc`, `fpc` are where the threads and the FLPR are |
| `SessionProofs` | theorems on `Session` | |
| `MCSession` | instances of `Session` | |
| `Stream` | the live stream of `ble_transport.c`: pump side, TX thread, messages, subscription | the FIFO, `dropped`, the credits; `ppc`, `tpc` are where the pump and the TX thread are |
| `StreamProofs` | theorems on `Stream` | |
| `MCStream` | an instance of `Stream` | |
| `Dump` | the dump of `ble_transport.c` and the host that fetches with it (`caterpillar_gui.py`, `fleet.py`) | request, flag, credits and the chunks in the stack; `dpc` is where the dump thread is, `hpc` the host |
| `DumpProofs` | theorems on `Dump` | |
| `MCDump` | an instance of `Dump` | |
| `Motor` | `max5419.c`, `driver_pwm.c`, the enable pins, their boot in `app.c`, the motor's characteristics and the voltage command | `wiper`, `wave` and the pins are the hardware; `cur_tap`, `period_ns`, `duty_pct` what the drivers know of it |
| `MotorProofs` | theorems on `Motor`, and on `Sampler` beside it | |
| `MCMotor` | an instance of `Motor` | |
| `Sampler` | the FLPR's loop, the data-ready interrupt and the driver, the pump's drain, the health monitor of `app.c` | `running`, `routed`, `fresh` are the sensor; `fpc` is where the FLPR is; `age`, `moved`, `warned` are the monitor |
| `MCSampler` | an instance of `Sampler` | |
| `Pacing` | the decimation and its adaptation in `ble_transport.c`, `ble_conn_request_params`, and who calls them | `odr` is the shared block's rate; `cap`, `decim`, `learn` are the preview; `slow` the interval asked for; `tick`, `rx`, `pc`, `mon` are where pump, handler, command thread and monitor are |
| `PacingProofs` | theorems on `Pacing` | |
| `MCPacing` | an instance of `Pacing` with two settings | |

### ImuLog

A record is the tag `<<seq, k>>`: the k-th record accepted for session `seq`. The code
never sees the tags; they tell whose record a ring cell holds.

*Granularity.* An action ends at every flash call, lock, unlock and sleep, and at the two
places where a thread tests `active` outside the lock (`PumpEnters`, `WriterSees`).
Thread priorities are not modelled: the interleavings are a superset of those of the
scheduler. The counterexamples reported below were checked to be possible with the real
priorities (a flash call blocks whoever makes it; the pump preempts every thread but the
cooperative ones).

*Flash.* A data batch, an entry and a meta block are one write each. An entry is 32 bytes,
and what decides whether recovery takes it (its magic word, number, start and count) lies
in its first 16-byte RRAM word, so a write of one is atomic. The wipe writes the meta block
first: a wipe cut short is a blank meta block, which recovery wipes again, so `DirWipe` is
one action. A data write or a start's entry write may fail (`FlashMayFail`); reads and the
refresh of an existing entry do not fail. The flash device is ready.

A failed data write leaves a prefix of its batch in flash (all of it at most but the last
record), and the code goes on as if it had succeeded: the absolute records it left out are
`holes`, and the properties exempt those records and no others.

*Addresses.* The writer goes from the record counter to a place by `(total_abs %
REC_CAPACITY) * REC_SIZE` (`CellOf`); the reader by `(start * REC_SIZE + offset) %
DATA_CAPACITY`, in 32 bits (`AbsByte`, `ReadRecord`). That both come to the same cell is part
of `ListTruthful`. `DATA_CAPACITY`, 695648, is a multiple of the record's 16 bytes and does not
divide 2^32.

*Not in the model.* The wrap of absolute record numbers at 2^32; that of `stage_head` and
`stage_tail`, which index the stage modulo `STAGE_N` (`imu_log.c:242,464`): 1536 does not
divide 2^32, so that the slots jump once in 2^32 records, two months of logging at 833 Hz
without a reset; the read of flash in chunks
and in the spans before and after the ring's end (list and read hold the lock throughout
one call, so they are functions of the state: `Listed`, `ReadStart`, `ReadableCount`, and
`ReadRecord` record by record).

*History variables.* `top` is one past the highest absolute record ever written; it is
the physical truth that `total_abs` approximates. `holes` and `crashes` scope
properties to what they are about.

### SessionCatalogue

What a caller of `imu_log.h` may rely on, as a machine of three variables: the number of the
running session, for each session kept its count of records, and the resets so far. The refinement
(`Catalogue`, `CatalogueSpec` in `ImuLog`) shows the running session while its entry stands
in the directory and `active` says so (`Recording`), and of each session the count in RAM
while it runs and that of its entry otherwise (`Presented`). A reset is the abstract
`LosePower`, which shortens the running session alone and by at most `MaxLag` records, and
`resets` tells it from everything else: a stop may not shorten what it closes. A
late batch of the writer, a refresh, a flush, a drop and a failed write change nothing that
is shown.

### SampleRing and SampleQueue

An action is what one core does between two stores visible to the other, and stores are
seen in program order. The code's barriers give that for the record before `head` and the copy
before `tail` (`flpr/src/main.c:119`, `imu_pump.c:67,82`) and for the announcement after all it announces
(`flpr/src/main.c:76`). Between the clears of `head`, `tail` and the rest of the block
(`:48-52`) there is none: there the fields' `volatile` and an in-order core are assumed. A record is stored in two
halves and a copied record whose halves differ is the impossible sample `Torn`.
`CounterMod` is 2^32; the assumption `CounterMod % RingN = 0` is true of it and the ring's
2048 records, and needed: otherwise slots jump where the counters wrap. `QueueSpec` is the
refinement: the queue of `SampleQueue` with `buffer` the published samples not yet taken
and `clock` all samples accepted or lost. The block is, at first, that of a power-on,
unannounced, or of a warm reset, as the previous run left it: announced, with counters
anywhere and records pending. `misled` is history: the FLPR cleared the counters while the
pump was past its check of the magic word.

### SettingsStore

A CRC is the content it was computed over. `flash_write` waits for a timeslot and copies
the RAM record then: the copy itself is one step with respect to a set, and may be cut by
a power failure anywhere. A write that fails leaves a part of the record in the slot, or
nothing, as a cut does (`CutShort`). A restart may bring a firmware with other ranges. Old slots stay.
`past`, `durable`, `failing`, `exposed`, `unsaved` are history. `exposed` marks what may
lose even an undisturbed save: a save begun after one that failed or was disturbed by a
set, until the next good one; and, rarest, a power cut that tears a save so that what is
left fits the CRC that an earlier disturbed save left in the same slot, so that it passes
for a good record. The last takes four changes; the model had not marked it, and the proof of
`DurableUnlessExposed` failed at that step.

### Session

`Session` composes what `ImuLog` leaves open, who calls start, stop and erase, with the
arbiter that decides whether the sensor runs. Of the log it keeps `log_lock`, `active`
and `session_detached`. The command thread and the disconnect handler execute
the code of `imu_log_stop` each for itself.

*Threads.* `rx` is the BT RX thread (cooperative: it runs until it blocks), `main` the
health monitor, `cmd` the command thread. Here priorities matter: `session_imu_run_update`
takes no lock and does not block, so it is only ever interrupted by a thread that
outranks its own, and `CanRun` says so. Inside it every store to the shared block is a
step, because the FLPR is another core. The FLPR reads rate and content in either
order, the order in which C evaluates arguments being unspecified. A setting is a rate and a
content that belong together, so that a mixture of two settings is visible; the two full
scales behave as the rate does.

*History.* `kind` is the command that started the last session. `overlapped`: a
disconnect came while a command was queued or executing. `overtaken`:
the threads in the middle of an update during which another thread's ended. `outdated`:
the shared block may not hold the demand, because a thread so overtaken was the last to
store, or because a session was erased. An update that is interrupted only by a change
whose own update is still to come is not excused. `collided`: an increment of `cfg_seq`, a
load and a store, was lost to a preemption between the two.

*Not in the model.* A host's command for the motor is a command without effect
(`volt`, see `Motor`). The connection interval and the preview are in `Pacing`, the
failures of a transfer one by one in `Sampler`. What the flush of a stop waits for is in
`ImuLog`. A warm reset, with the previous run's magic word and configuration in the block:
it is in `SampleRing` alone, and `Session`, `Sampler` and `Pacing` begin at a power-on.

### Stream

A sample is its number. Which samples the decimation skips does not matter to what is
staged, so a call of the sink picks any few. The pump outranks the TX thread
and never blocks in the sink, so the TX thread moves only between two calls (`CanTx`); the
handlers outrank both and may come anywhere. `stream_dropped += n` and
`sfifo_tail = sfifo_tail + n` of the TX thread are a load and a store each. Of the
Bluetooth stack the model takes that it accepts a notification or refuses it, and calls
back once for each it has accepted. `stolen` and `raced` are history: where the code's own
races have happened.

### Dump

A unit of data is the pair of its session and its offset. The dump thread's steps are the
flag, each field of the request, the read, the credit and the send; the handler that
writes a request comes between any two of them. Chunks stay in the stack until they
arrive, in order. A disconnect discards them, and any number of their callbacks may come
or not. The host is the GUI's `dump` and `fleet.py`'s `collect`, which reassemble alike:
it may resume at any time, give up, dump another session and erase after a complete one.
A stop may still be flushing the newest session when the host reads the directory, as
`collect` waits 0.3 s and a flush up to about a second.

*Assumed.* A new connection is subscribed only after the dump thread has come to a wait
(`Blocked` in `Connects`): a scan and a connection take seconds, its retries at most one.
Sessions keep their start while they are dumped; the log under the dump is only the
counts of `Readable`.

### Motor

`TapOf` is the code's floating-point formula in integers: it gives the same tap for every
millivolt of the allowed range but 969 mV (135 for the code's 134), compared one by one. A
write to the digipot, retry included, succeeds, fails without effect or fails after it
moved the wiper. `pwm_apply` sets two channels and may fail before either. A write out of
range is refused without a trace and not an action. `Persists` is the work item of the
settings store: it saves what there is at any moment after a change, so that a reset may
come before it. A reset stops the PWM and releases the pins; the digipot keeps its wiper,
or loses power and starts at its own memory's tap. The pauses between taps and the
measurement of the rail after a ramp change no state. A `gpio_pin_configure` that fails at
boot (`driver_stbb1_apur.c:38`) is not modelled: the pin then stays as the reset left it.

### Sampler

Of a sample the model keeps that it is there and not read (`fresh`): that is the level of
the line, once routed. The sensor raises the line with a sample; a read lowers it; an
interrupt is an edge. A configuration may fail at each of its transfers, also between the
two control registers (`driver_asm330lhh.c:244-245`), so that the sensor may have been
switched although the configuration is reported as failed. The ring is a count and the configuration one bit, written and
announced in one step: `SampleRing` and `Session` take those apart. A second of the
monitor is one step, and seconds pass at any rate relative to the rest; its stall test is
therefore reached in more states than in the code, where a second holds many samples.
`missed` is history: an edge was lost since the sensor was last configured.

### Pacing

A setting is a rate and a preview cap. `learn` has what the adaptation keeps: the shift,
the count of quiet windows, the windows needed, and for the time of the last probe the
windows since, up to those it is remembered for. The count of quiet windows stops where the
code's byte goes on and wraps; it gets there only while the shift is 0, where it decides
nothing, and starts again with every back-off.

*Threads.* The handlers of the RX thread interrupt everyone; only the stop in a disconnect
blocks, between `DisconnectStops` and `DisconnectUpdates`, and with the lock held, so that no
start comes there. The main thread outranks the pump and that the command thread
(`CanRun`). The adaptation runs once a second in the pump: `TickReads` and `TickStores` are
what lies before and after an interruption, and the second stores only what it changed.
What the tick has loaded it keeps: between its uses of `stream_adapt`
(`ble_transport.c:214-215`) there is no call, barrier or volatile access. The command thread
and the monitor store the rate, compute a decimation and store it, in two steps for the same
reason.

*Boot.* Until the FLPR has announced itself `session_imu_run_update` returns at once and a
configuration is refused, whereas a subscription updates the decimation from whatever rate
the block has, 0 at a power-on. The monitor then reads the saved cap, stores it
(`MonitorCaps`) and updates (`MonitorComputes`, `MonitorStores`).

*History.* `overtaken`: the threads holding something they have read or computed while
another's change and update came. `outdated`: the cap or the decimation was last stored by
such a thread, or an erase changed what it depends on. `ended`, `misfit`: a disconnect ended
the session whose interval is still to be asked for, and the interval may therefore, or by an
erase or a reconnect, be the other one. All are set by the event, not by comparing the result.
Of the queue one command is kept; the order of several is in `Session`.

## 3. Properties and runs

| Run | Asks | Answer |
|---|---|---|
| `log_crash` | any interleaving of pump, writer, commands and disconnects, over a ring that wraps, with one reset or firmware update anywhere | all its properties hold, and the log implements `SessionCatalogue` |
| `log_live` | no reset, flash writes that fail, fair threads, a reader whose byte position wraps | the list is truthful but for the records a failed write left out, with exception (p); each start, stop and erase returns |
| `log_list_after_reset` | is the list truthful after a reset too? | no, finding 1 |
| `ring_queue` | is the two-core ring a bounded queue, across counter wraps and whatever a warm reset left in it, and live? | yes, but for a boot that meets the pump draining (exception i) |
| `settings_saves` | sets, torn and failing writes, restarts, other firmwares | nothing is invented or out of range; an undisturbed save stays; every change is saved |
| `settings_power_cut` | does a power cut only ever lose the newest change? | no, finding 2 |
| `session_host` | any three writes of a host over a connection that may end at any moment, with starts and sensor configurations that may fail | the sensor ends up as demanded, an attached session ends with its link, a detached one does not, with the exceptions below |
| `stream_flow` | pump, TX thread, messages, a subscriber who comes and goes, notifications refused, counters that wrap | the FIFO is bounded, packets are in order, every sample is delivered, staged or counted as dropped, and none waits for ever, with the exceptions below |
| `dump_host` | two dumps with a resume each, links that break, lost chunks and callbacks, a stop under way, an erase at the end | what the host has is the session without a hole, a cancelled dump stops at once, the dump thread always comes back to listen, with the exceptions below |
| `motor_chain` | writes to the motor, bus and PWM failures, a queue that fills, a reset anywhere | the motor and the saved settings end up as accepted last, and a driven motor sees no jump, with the exception below |
| `sampler_flow` | a demand that changes at any moment, failing transfers, a dead sensor, drops of the log and starts that clear their count | data flows or the host is told; drops are reported once; with the exceptions below |
| `pacing_link` | two settings, connections, subscriptions, starts, stops and erases at any moment, also before the monitor has seen the FLPR, drops in bursts | cap, decimation and interval suit the work when all is done, a slow-down has a reason, and the preview recovers, with the exceptions below |

**What the properties say.** `SurvivorsIntact`: any record of a listed session that no
later write physically replaced is in its cell, as that session's record at that place.
`ListTruthful`: all that the list promises is what reading returns, at the place that the
reader computes. `SessionsDisjoint`:
entries claim disjoint stretches, in the order the sessions started. `OnlyRunningOpen`: a
closed session is not reopened by a late refresh. `LossBounded`:
flash never holds more than `MaxLag` records that the directory does not count, so that
this is the most a reset loses. `DropJustified`: a session leaves the directory only by a
wipe, by a successor in its slot, or once its start is overwritten. `CatalogueSpec`: every
step is one of the abstract catalogue or shows nothing, so that no interleaving of threads
and resets changes a closed session's count, lets two run at once, or takes a number back.
`QueueSpec`,
`AllHanded`: the ring. `NothingInvented`, `DurableUnlessExposed`, `ChangesSaved`: the
settings. `AppliedIsCurrent`: when the FLPR has
acknowledged the last sequence number, the sensor has what the block says, and never a
mixture, although the block is read while it is written. `SensorFollowsUpdates`: when all
is quiet, the sensor has the host's setting if there is a session or a stream and is off if
not. `SettledSessionEndsWithLink` and `DetachedSurvives`: a disconnect ends attached
sessions and only those, where no command was pending at a disconnect. `StreamInOrder`, `LossReported`, `StreamFlows`: the stream; a packet holds newer samples
than all before it, none of which is overwritten while it is copied. `HostHasSession`: up
to the highest offset it has received, the host's buffer is the session's, unit by unit.
`EraseLosesNothing`: an erase after a complete dump erases nothing of that session that was
not dumped. `DumpListens`: a request is always picked up. `MotorFollowsHost`: at rest,
unless the last attempt failed, the wiper, both channels, the settings and what the status
reports agree with what was accepted last. `RampedUnderLoad`: while rail and driver are on,
no step moves the wiper by more than a tap, or two after a failure. `SamplesFlow`,
`NeverSilentlyStarved`: whoever keeps wanting data keeps getting it; without exception, or
the host is warned. `LossesTold`: the health monitor reports each drop once.
`LinkFitsWork`: with no command and no disconnect under way the preview has the cap that the
host set last, the decimation is that of the present setting and session, and the interval
wide exactly while a session runs; whatever a thread read before another changed it is
repaired by the update that follows the change. `BackOffJustified`: a tick
slows the preview down only for more than ten drops in its window. `Recovers`: once drops
end the preview gets back its full rate.

A module's `TypeOK` also has the bound that its callers rely on, as a named conjunct where
it has a name: the ring holds at most `IMU_RING_N` records (`RingBounded`), a setting is in
the running firmware's range (`AlwaysInRange`), a cancelled dump sends at most the chunk in
hand (`CancelPrompt`), at most `DUMP_CREDITS` notifications are in the stack
(`FlightBounded`), the wiper is within a tap of `cur_tap` and never above the safe
limit, the decimation is never 0 and the shift never leaves its range.

**Exceptions that the session properties name.** All are reachable in the model, and each
property fails without its hypothesis. (a) An update of the command or main thread during which another thread's ran
from start to end may store an old content over the new one: the sensor then
stays off, or on, until the next update (`outdated`). (b) An update preempted between load
and store of `cfg_seq` repeats a number the FLPR may have acknowledged: it then takes the
newest configuration for one it has applied (`collided`). (c) A disconnect during a start
may leave `session_detached` set for a closed session, or an attached session running; and
a start still queued at the disconnect is executed after it, since the handler does not
empty the queue: an attached session then runs without a connection, until a host comes
back, although "a session runs from start until stop (BLE) or BLE disconnect"
(`imu_log.h:23`) (`overlapped`). Windows (a) and (b) are a few instructions wide. Also
`outdated` is the erase of a running session: `imu_log_erase` stops it, but only the stop
command recomputes the demand (`device_cmd.c:50-51` against 65), so the sensor runs and
fills the ring until the next start, stop, subscription or disconnect, and the connection
stays slow.

**Exceptions that the transport's properties name**, likewise reachable and needed: (d)
`ble_transport_stream_enable` sets `sfifo_tail` to `sfifo_head` while the TX thread holds a
packet, and the TX thread then adds that packet's length: the tail passes the head, the
FIFO looks full to the pump, and the TX thread sends old samples without end (`stolen`; it
holds a packet for up to 500 ms when credits are short, so a client that unsubscribes and
subscribes again on a congested link may hit it). (e) The TX thread's update of
`stream_dropped` can lose one made by the pump, or the reset of a new subscription
(`raced`). (f) A chunk carries no session: what is left of an earlier request when the next dump
begins, chunks in the stack or a dump thread not yet back at its wait, is taken for its own
(`foreign`). (g) A request
refills the credits while chunks of the one before it are in the stack: more than two are
then in flight (`crowded`; the code's comment at `ble_transport.c:368` considers the
callbacks only). (h) The directory was read before the stop had flushed: the size is too
small and an erase after the dump loses the rest (`hasty`).

**Exceptions of the other runs**, likewise reachable and needed: (i) The pump trusts a
magic word that a warm reset left in SRAM; if the FLPR clears the counters while the pump
is between its check and its store of `tail`, the tail ends ahead of `head`, and every
sample is an overrun until the next boot (`misled`). (j) A digipot that fails at boot has
no known position, so its first write comes later and at once, perhaps with the motor
driven: the comment "the motor is still in coast then" (`max5419.c:141`) is not true of it.
A write that failed and took effect leaves `cur_tap` one tap behind the wiper, and a ramp
that ends where the code believes the wiper is writes nothing. While the last attempt to
set a frequency failed, the status reports it as if it ran. (k) An edge of the data-ready
line is lost when a read fails, or when it comes between the scratch read of a
configuration and the reset of the semaphore (`driver_asm330lhh.c:256-257`): the line then
stays high, no edge follows, and sampling stops until the next configuration, although the
comment there says "so the next edge fires"; the host is warned of a stall (`missed`). (l)
A start of a session clears the count of dropped samples under the monitor, and what it had
not reported stays unreported (`restarted`). (m) A new subscription resets `stream_dropped`
and not `adapt_last_dropped`: the difference wraps and the first window halves the preview
without a drop (`rearmed`). (n) An update of the decimation by the command thread or the monitor, or the monitor's
store of the saved cap, is overtaken by another thread's change and update and stores the
older value; and an erase of a running session leaves the decimation of logging
(`outdated`). (o) A host that returns to a detached session asks for the fast interval, under
which flash has to wait, and nobody asks for the wide one again; an erase leaves the wide
one; and a start whose session a disconnect ended at once asks for the wide one on a
connection that has come since (`misfit`). (p) From the 2^28th record since the directory was
wiped on, `start * REC_SIZE + offset` (`imu_log.c:564`) wraps at 2^32 and the reader looks in
another cell than the writer used: a dump has the right length and other records
(`Addressable`). The counter runs across sessions and resets, so that this takes some 90 hours
of logging at the default 833 Hz, half a day at 6.66 kHz.

`MaxLag` is `DIR_REFRESH_RECS + BATCH_RECS - 1` = 767 records, about 12 KB; the
header's "a crash loses at most the last ~8 KB" (`src/src/imu/imu_log.h:28`) counts the
refresh interval but not the batch that crosses it nor the one being written.

**Bounds.** `log_crash`: a ring of 3 records, 2 slots, up to 3 sessions between erases and
absolute positions up to 5, so that the ring is overwritten, a slot is reused, a
batch is clamped at the wrap, and a session may lie across it; stage and batch of 2, so
that a full stage, a partial batch and a drop occur; refresh every 3 records, the least
the assumption `BATCH_RECS < DIR_REFRESH_RECS` allows; one reset, so that everything
before it and everything after it is covered. `log_live` has any
write fail, without a reset (with both, `log_crash` would be too large; the
theorem `SurvivorsStayIntact` has both). Its batches are of one record, so that a write fails
whole; that one may leave a prefix is in the model, and only the theorems cover it. It is smaller because liveness is dearer, and still
wraps: records of 2 bytes in a ring of 2, positions up to 4, and a word of 6, which the
ring's 4 bytes do not divide, so that the newest record is beyond the word and the ones
before it are not. `ring_queue`: 2 slots, counters that wrap at 4, chunks of 1 and 6
samples: the ring fills, is drained in more than one chunk, and the counters wrap. `settings_saves`: 2
settings, 4 changes, 2 restarts, so that two consecutive saves can go wrong, a restart can
follow, and a torn write can meet the CRC of an older save. `session_host`: two settings, a queue of 2, 3 writes and a connection: enough
for a subscription, a start and a change of setting to overlap, for a start, a stop or
an erase to be pending at the disconnect, and for a full queue. The code never looks into
a setting, so the two are interchangeable (symmetry; no liveness is checked in this run).
`stream_flow`: a FIFO and packets of 2, counters at 7 of 8, 3 samples, 2 subscriptions, a
message: the counters wrap, the FIFO fills, packets are partial, and a subscription can
meet each step of the TX thread. `dump_host`: sessions of 3 units in chunks of 2, so that
the last is partial; one credit; 2 dumps, one resume each and 2 connections, so that a
request can meet each step of an earlier one. `motor_chain`: three voltages, of taps 249,
252 and 253, two frequencies, a queue of 2 and 5 writes, so that it fills during a ramp and
a ramp can be turned round; one reset, in whatever the writes left. `sampler_flow`: a ring
of one, a look at the configuration every second sample, warnings 2 rounds apart, four
changes of the demand (three after boot), so that each can meet every step of a configuration
under way. `pacing_link`: a limit of one drop and bursts of two, one halving, probes after 1 quiet
window and up to 2, counters that wrap at 3, so that the preview is slowed down, probed too
early and asked to wait, and a wrapped difference occurs; two caps at one rate, which the
decimation tells apart with a session and without, and another rate that the FLPR boots
with.
`MaxRec`, `MaxSeq`, `MaxDrop`, `MaxCrash`, `MaxSamples`, `MaxSets`, `MaxWrites`, `MaxLinks`,
`MaxSubs`, `MaxMsgs`, `MaxDumps`, `MaxResets`, `MaxConfigs`, `MaxDrops` and `MaxBurst` bound
counters that the code does not bound; nothing else reads them.

**Deadlock** is checked for the log, the stream, the sampler and the pacing. The ring's runs stop by design when the
sensor is dead (the FLPR parks) or the samples are used up, the settings' when nothing is
left to change, the session's when the host has made its writes and everything is at rest,
the dump's when the host has made its dumps, the motor's when its writes are made.

**Fairness.** `FairSpec` of `ImuLog`: every thread that can run eventually does. That is
what the scheduler gives, since the threads above sleep or block between their steps.
Strong fairness is used only where a thread waits for `log_lock`: Zephyr hands a mutex to a
waiter when it is unlocked, so a waiter cannot be passed over for ever. No fairness is
assumed of the host, the samples, a start, a reset. `SampleRing`: each core makes
progress. `SettingsStore`: the work queue runs a due item and a flash write ends, well or
not. `Session` states no fairness: its properties are about what is true at rest.
`Stream`: the pump ends its call, the TX thread runs in between (strong, since the pump
sleeps for milliseconds after each call), time passes; nothing of the stack, so a
notification may stay in it for ever. `Dump`: the dump thread alone, all of whose waits
but the one for a request have a timeout; nothing of the link or the host. `Sampler`: the
FLPR runs, a running sensor samples, the pump and the monitor wake from timed sleeps;
nothing of the demand, and no transfer has to succeed. `Pacing`: the adaptation, which the
pump runs as long as there is a stream, and the steps of the monitor once begun, since it
outranks the pump and does not block there; nothing of the handlers or of the commands.

**Mutants.** Each property of a passing run comes with a mutated definition, the way a
plausible slip of the code would change it, that violates it under the same run.

## 4. Proofs

Eight modules prove, for every value of the constants that satisfies the assumptions named
in the modules, every invariant, every step property and every refinement that a run checks. All follow the same plan: `Inductive` is `Spec => []IInv`, by one lemma per
part of `IInv` or group of variables, the cases being the actions; what the runs check
follows from `IInv`. Each `IInv` was checked by TLC on the runs' instances before it was proved.

**`ImuLogProofs`**, from `LogAssumption` (sizes are positive, and a batch is smaller than the
refresh interval: the code has 256 and 512), `AddressAssumption` (so are a record and a
word) and `FlashAssumption`:

| Theorem | States |
|---|---|
| `Inductive` | `Spec => []IInv` |
| `TypeCorrect` | `Spec => []TypeOK` |
| `SessionsStayDisjoint` | `Spec => []SessionsDisjoint` |
| `ClosedStaysClosed` | `Spec => []OnlyRunningOpen` |
| `AccountingStaysBounded` | `Spec => []AccountingBounded` |
| `PositionStaysBounded` | `Spec => []PositionBounded` |
| `LossStaysBounded` | `Spec => []LossBounded` |
| `SurvivorsStayIntact` | `Spec => []SurvivorsIntact` |
| `ListTruthfulUntilReset` | `Spec => [](crashes = 0 => ListTruthful)` |
| `DropsAreJustified` | `Spec => DropJustified` |
| `ImplementsCatalogue` | `Spec => CatalogueSpec` |

`IInv` is `TypeOK` and ten parts. Those that are not obvious:

 * `LockInv` ties `lock` to the program counters: only its owner is at a step that needs it.
 * `CurrentInv` keeps, while a session is opened, runs or is being closed, `total_abs =
   cur_start + cur_count` and the entry's count `last_dir_refresh`, which `cur_count` leads
   by less than the refresh interval except while a refresh is under way.
 * `ClosedInv`: the writer tests `active` before it takes `log_lock` (`imu_log.c:268`), so it
   may commit one more batch after a stop has closed the session. Those records are in no
   entry, although the comment of `writer_flush` promises that counts are final; the
   invariant says that nothing else is harmed. It is at most one batch, and
   since a batch is smaller than the refresh interval this never makes a refresh due, so `dir_refresh_current` never rewrites a slot that is no longer the
   session's. This is the one place where the relation of the two constants is needed: with a
   batch as large as the interval a closed session is reopened.
 * `TailInv` says how far flash and the write position are ahead of the directory,
   also when nothing runs, so that it survives a reset and the recovery after it.
 * `StageInv`, `StoredIntact` and `RunningIntact` say whose records the stage and the cells
   hold; `SurvivorsIntact` follows from the last two.

`ListTruthful` follows from them only while `top = total_abs + inflight`, that is until the
first reset: finding 1 is what happens afterwards. It also needs that the reader's place is
the writer's: `PlacesAgree` is the arithmetic, `((r * s) % (s * n)) \div s = r % n`, and
`ReaderFindsCell` applies it below the word's wrap. `DropJustified` is proved as a step
property under `IInv`.

`ImplementsCatalogue` goes step by step. Most steps leave what is shown alone
(`QuietSame`, `IdleSame`, `RefreshPresents`: a refresh writes the count that was shown from
RAM already). A commit while the session runs is `Store` (`CommitStores`), the closing of an
entry `End` (`CloseEnds`), a new entry `Begin` (`EntryBegins`: the session whose slot it
takes is `Kept` numbers older, by `SlotsDiffer`), an invalidation `Forget`, a blank
directory `Wipe`, and a reset, which alone counts as one (`CrashesStay`), `LosePower`
(`CrashLoses`, where `CurrentInv` bounds what the entry lacks). Late batches stutter because `ClosedInv` keeps them from every
entry. This refinement needs no exception: it holds across resets and failed writes, and
says nothing of contents, which is what `SurvivorsIntact` is for.

**The other seven:**

| Module | Theorem | States |
|---|---|---|
| `SampleRingProofs` | `TypeCorrect` | `Spec => []TypeOK`, with `RingBounded` |
| | `ImplementsQueue` | `Spec => QueueSpec` |
| `SettingsStoreProofs` | `TypeCorrect` | `Spec => []TypeOK`, with `AlwaysInRange` |
| | `NeverInvented` | `Spec => []NothingInvented` |
| | `UndisturbedSaveSurvives` | `Spec => []DurableUnlessExposed` |
| `SessionProofs` | `TypeCorrect` | `Spec => []TypeOK` |
| | `AcknowledgedIsCurrent` | `Spec => []AppliedIsCurrent` |
| | `ArbiterCorrect` | `Spec => []SensorFollowsUpdates` |
| | `SessionFollowsLink` | `Spec => []SettledSessionEndsWithLink` |
| | `DetachedOutlivesLink` | `Spec => DetachedSurvives` |
| `StreamProofs` | `TypeCorrect` | `Spec => []TypeOK` |
| | `AlwaysInOrder` | `Spec => []StreamInOrder` |
| | `LossesReported` | `Spec => []LossReported` |
| `DumpProofs` | `TypeCorrect` | `Spec => []TypeOK`, with `CancelPrompt` and `FlightBounded` |
| | `HostReassembles` | `Spec => []HostHasSession` |
| | `FlightStaysBounded` | `Spec => []FlightBounded` |
| | `EraseIsSafe` | `Spec => EraseLosesNothing` |
| `MotorProofs` | `TypeCorrect` | `Spec => []TypeOK` |
| | `MotorAlwaysFollows` | `Spec => []MotorFollowsHost` |
| | `AlwaysRamped` | `Spec => RampedUnderLoad` |
| | `HealthTypeCorrect` | `Sampler!Spec => []Sampler!TypeOK` |
| | `LossesAlwaysTold` | `Sampler!Spec => []Sampler!LossesTold` |
| `PacingProofs` | `TypeCorrect` | `Spec => []TypeOK` |
| | `LinkAlwaysFits` | `Spec => []LinkFitsWork` |
| | `BackOffsJustified` | `Spec => []BackOffJustified` |

Why the properties are not inductive as they stand, and what their `IInv` adds:

 * `SampleRing`. The bound on the ring is lost if what the pump holds in `phead` and `ptail`
   may be anything: `CountInv` says that the counters are those of the samples published and
   handed over, modulo their width, and that what the pump has read lies between them.
   `ContentInv` says that each published and pending record is whole in its slot, also the
   one whose halves are being written. `BootInv` is the handshake of the magic word, but for
   the boot named by `misled`. From `RingAssumption` the proof needs that the ring's size
   divides the counters' width (2048 and 2^32) and that the width is larger. In
   `ImplementsQueue` the initial states map to initial states; a publish is the queue's
   append or its drop, the pump's store of `tail` hands over the chunk, and all other steps
   stutter.
 * `SettingsStore`. `GenerationInv`: no record is ahead of the changes made, because each
   persist uses up at least one; `OrderInv`: a valid record lies in the slot its generation
   names, so that the next save goes to the other one; `ContentInv`: each CRC anywhere, in
   RAM or in a slot, is one of a content the settings had, also when what lies beside it is
   not; `DurableInv`: where the last undisturbed save is while the next is being written.
 * `Session`. `ThreadInv` says with which command a thread may be where. `HandshakeInv` and
   `AppliedInv` are the protocol of `cfg_seq`: as long as no thread has stored without
   announcing it and the number has not moved, what the FLPR has read so far, programmed or
   acknowledged is what the block holds. `FreshInv`: a thread that will be
   the last to store, and was not overtaken, has read what is demanded; `DemandInv`: where no
   update is still to come the block holds it. `LinkInv`: `session_detached` is set for a detached session
   and no other. Each but the first has the hypothesis of its exception of section 3.
 * `Stream`. `FifoInv` has the order of what lies between tail and head, that the packet in
   hand is the front of it, and that between `notify` and the store of the tail these
   samples are done with (`Done`); `PacketInv` what is true even after a theft. The counters
   wrap; `FifoN` divides their width. `LossReported` counts modulo that width, as
   `stream_dropped` does: its step lemmas are the laws of modular sums.
 * `Dump`. `DumpInv` says of the request, of what the thread has read of it, of what it has
   left to do and of every chunk in the stack that it continues what the host has:
   its offset is at most one the host will have reached when what is ahead of it has arrived
   (`Reaches`). A thread that lost its link is exempt since it will not send
   again (`Doomed`): it is cancelled, or waits for a credit nobody returns. This is where
   `Blocked` in `Connects` is needed. `CancelInv`: after the late chunk nothing is in hand;
   `FlightInv`: a credit is free, with the thread or in the stack; `HostInv`: what the host
   expects is what the log holds, unless it was hasty.
 * `Motor`. `AskedInv` follows the last accepted voltage through the queue into the ramp and
   the wiper; `WaveInv` says what period and duties both channels have in each phase of
   the boot and after. The arithmetic of taps and periods is proved for every millivolt of
   750 to 4200 and every frequency of 4 to 1000 Hz.
 * `Sampler`, instantiated beside `Motor` under the hypothesis `HealthSizes`, its
   `SamplerAssumption`. `Reported`: what was told and what the next round will tell never
   exceed what was lost, also after a start has set the count back below what the monitor
   remembers of it; until then the two differ by exactly the news.
 * `Pacing`. `StepInv` says which thread may be where. `FitInv` has four parts: `AskInv`, that
   a command past its start still asks for the interval that fits; `RateInv`, that the
   block's rate is the setting's once the monitor has been; `CapInv` and `DecimInv`, that
   what a thread holds to store is still right, or an update that repairs it is to come, or
   the thread is marked as overtaken; `DropsInv`: the difference of the two counters, modulo their width, is at most
   the drops since the last tick, so that it is not a wrapped one unless a reset made it.

*Assumptions on bounds.* `MaxSamples`, `MaxSets` and `MaxBurst` are only said to be natural
numbers, and `Registries` is typed: each has a default within its limits, as the generator
of `settings_gen.h` demands. Every theorem holds for any value of the other bounds.

**Only model-checked.** Liveness: `CommandsFinish`, `AllHanded`, `ChangesSaved`,
`StreamFlows`, `DumpListens`, `SamplesFlow`, `NeverSilentlyStarved`, `Recovers`; liveness
under fairness is beyond the proof system. What a
recursive or folded definition computes for every input; no theorem rests on it.

## 5. Findings

1. **After a reset in mid-session an older session may list another's records**
   (`log_list_after_reset`). `total_abs` is rebuilt from the directory, up to `MaxLag`
   records behind what is in flash. The ring floor is as much too low: the oldest session's
   first records may be gone and are listed still, until the position catches up.
2. **A set in mid-save weakens the next save** (`settings_power_cut`). The slot written
   fails its CRC; the next save overwrites the only good one, and a power cut there
   leaves none: all settings return to their defaults.

The exceptions named in section 3 are the other places where the code does not do what it,
or its documents, say.

## 6. Not modelled

The byte-level wire formats, the LED, the generator of `settings_gen.h`, the host's user
interface, the device tree and build files have no behaviour a model checker helps with.
The launch of the FLPR is a copy and a register write; its effect is the FLPR's boot.
The reads of the GATT server build a reply from the state at that moment; a long read does
so anew for each part, so that the parts may be of different moments. Advertising restarts
50 ms after a disconnect and is not retried when that fails. The wall clock, the robot's id
and the tier-2 log of messages are values without consequence for the rest.

## 7. Plan

Done: `ImuLog`, `SessionCatalogue`, `SampleRing`, `SampleQueue`,
`SettingsStore`, `Session`, `Stream`, `Dump`, `Motor`, `Sampler`, `Pacing`, and the proofs
of all their safety properties. Left, in order of importance:

1. An abstract dump (each unit once and in order) that the host of `Dump` implements.
2. The wrap of the record counter itself at 2^32, in the directory's comparisons.
3. `Dump` reading through `ImuLog` instead of a session that is an opaque sequence.
