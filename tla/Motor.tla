------------------------------- MODULE Motor -------------------------------
(***************************************************************************)
(* The motor chain: the digipot that sets the rail's voltage               *)
(* (src/src/drivers/max5419.c), the PWM (driver_pwm.c), the rail's and the *)
(* driver's enable pins, the boot that leaves them inactive                *)
(* (src/src/app/app.c), and the host's writes, inline in the RX thread but *)
(* for the voltage, which the command thread ramps (device_cmd.c).         *)
(*                                                                         *)
(* The digipot cannot be read: the code knows it by what it has written,   *)
(* and a write it takes for failed may have moved the wiper.               *)
(***************************************************************************)
EXTENDS Integers, Sequences

CONSTANTS
    Voltages,       \* the millivolts a host asks for
    Frequencies,    \* the frequencies a host asks for, in Hz
    PowerOnTap,     \* where the chip's own memory puts the wiper
    QueueDepth,     \* CMD_QUEUE_DEPTH
    MaxWrites,      \* bound: characteristics the host writes
    MaxResets       \* bound: resets

TapMax == 253             \* TAP_MAX
DefaultPeriod == 8849558  \* in ns, before a frequency is set
Unknown == -1             \* cur_tap before the first write
Channels == {0, 1}        \* IN1, IN2

ASSUME MotorAssumption ==
    /\ Voltages # {} /\ Voltages \subseteq 750 .. 4200
    /\ Frequencies # {} /\ Frequencies \subseteq 4 .. 1000
    /\ PowerOnTap \in 0 .. 255
    /\ QueueDepth \in Nat \ {0}

VARIABLES
    (* the hardware *)
    wiper,                 \* of the digipot
    rail_on, drv_awake,    \* the two enable pins
    wave,                  \* period and duty each channel runs with
    (* the drivers *)
    cur_tap, period_ns, duty_pct,
    (* settings, in RAM and as last saved *)
    setting, saved,
    (* threads *)
    queue,                 \* cmd_msgq, of voltages
    pc, mv,                \* boot and command thread; the voltage it sets
    (* history, read by no action of the code *)
    asked,                 \* the last voltage accepted from the host
    voltFailed,            \* the last attempt to set a voltage failed
    waveFailed,            \* the last attempt to set the waveform failed
    writes, resets

chain   == <<wiper, cur_tap, voltFailed>>
pins    == <<rail_on, drv_awake>>
pwm     == <<wave, period_ns, duty_pct, waveFailed>>
stored  == <<setting, saved>>
thread  == <<queue, pc, mv>>
bounds  == <<writes, resets>>
vars    == <<chain, pins, pwm, stored, thread, asked, bounds>>

-----------------------------------------------------------------------------
(* The tap for a voltage: 255 - (100 / (2V - 1) - 12.1) * 255 / 200,       *)
(* clamped to the wiper's range and rounded, in integers.                  *)
TapOf(v) ==
    LET den == 2 * v - 1000
        tap == (108371 * den - 51000000) \div (400 * den)
    IN  IF tap < 0 THEN 0 ELSE IF tap > TapMax THEN TapMax ELSE tap

PeriodOf(hz) == 1000000000 \div hz
FrequencyOf(ns) == 1000000000 \div ns

Apart(x, y) == IF x > y THEN x - y ELSE y - x

(* Mutant: the position is noted before the chip has acknowledged it.      *)
SetTap_Assumes(tap) ==
    /\ cur_tap' = tap
    /\ \/ wiper' = tap /\ voltFailed' = FALSE
       \/ wiper' \in {wiper, tap} /\ voltFailed' = TRUE

(* max5419_set_tap, its one retry included.                                *)
SetTap(tap) ==
    \/ wiper' = tap /\ cur_tap' = tap /\ voltFailed' = FALSE
    \/ wiper' \in {wiper, tap} /\ voltFailed' = TRUE /\ UNCHANGED cur_tap

(* pwm_apply: both channels, or up to the one that fails.                  *)
Apply(period, duty) ==
    /\ period_ns' = period /\ duty_pct' = duty
    /\ \E done \in {{}, {0}, Channels} :
         /\ wave' = [c \in Channels |->
                       IF c \in done THEN [period |-> period, duty |-> duty[c]]
                       ELSE wave[c]]
         /\ waveFailed' = (done # Channels)

-----------------------------------------------------------------------------
(* Boot. Every failure is logged, and boot goes on.                        *)

(* The persisted voltage, unless the digipot does not answer the probe.    *)
BootDigipot ==
    /\ pc = "digipot"
    /\ pc' = "waveform"
    /\ \/ SetTap(TapOf(setting.mv))
       \/ voltFailed' = TRUE /\ UNCHANGED <<wiper, cur_tap>>
    /\ UNCHANGED <<pins, pwm, stored, queue, mv, asked, bounds>>

(* Rail off, driver asleep; then the waveform in three calls.              *)
BootWaveform ==
    /\ pc = "waveform"
    /\ pc' = "duty"
    /\ rail_on' = FALSE /\ drv_awake' = FALSE
    /\ Apply(period_ns, duty_pct)
    /\ UNCHANGED <<chain, stored, queue, mv, asked, bounds>>

BootDuty ==
    /\ pc = "duty"
    /\ pc' = "frequency"
    /\ Apply(period_ns, [duty_pct EXCEPT ![0] = 50])
    /\ UNCHANGED <<chain, pins, stored, queue, mv, asked, bounds>>

BootFrequency ==
    /\ pc = "frequency"
    /\ pc' = "idle"
    /\ Apply(PeriodOf(setting.hz), duty_pct)
    /\ UNCHANGED <<chain, pins, stored, queue, mv, asked, bounds>>

-----------------------------------------------------------------------------
(* The host's writes, once Bluetooth is up.                                *)

Up == pc \in {"idle", "ramp"}
HostWrites == /\ Up /\ writes < MaxWrites
              /\ writes' = writes + 1
              /\ UNCHANGED resets

(* on_freq_write: the setting follows if every channel took it.            *)
FreqWrite(hz) ==
    /\ HostWrites
    /\ Apply(PeriodOf(hz), duty_pct)
    /\ setting' = IF waveFailed' THEN setting ELSE [setting EXCEPT !.hz = hz]
    /\ UNCHANGED <<chain, pins, saved, thread, asked>>

(* Mutant: a write that finds the queue full is acknowledged and lost.     *)
VoltWrite_AcksFull(v) ==
    /\ HostWrites
    /\ queue' = IF Len(queue) < QueueDepth THEN Append(queue, v) ELSE queue
    /\ asked' = v
    /\ UNCHANGED <<chain, pins, pwm, stored, pc, mv>>

(* on_volt_write: accepted into the queue, or refused when it is full.     *)
VoltWrite(v) ==
    /\ HostWrites
    /\ Len(queue) < QueueDepth
    /\ queue' = Append(queue, v) /\ asked' = v
    /\ UNCHANGED <<chain, pins, pwm, stored, pc, mv>>

RailWrite(on) ==
    /\ HostWrites
    /\ rail_on' = on
    /\ UNCHANGED <<chain, drv_awake, pwm, stored, thread, asked>>

DrvWrite(awake) ==
    /\ HostWrites
    /\ drv_awake' = awake
    /\ UNCHANGED <<chain, rail_on, pwm, stored, thread, asked>>

-----------------------------------------------------------------------------
(* The command thread.                                                     *)

CmdTakes ==
    /\ pc = "idle" /\ queue # <<>>
    /\ pc' = "ramp" /\ mv' = Head(queue) /\ queue' = Tail(queue)
    /\ UNCHANGED <<chain, pins, pwm, stored, asked, bounds>>

(* Mutant: the wiper goes where it is wanted at once.                      *)
NextTap_Jumps(tap) == tap

(* The first write after boot goes there at once, the others one tap at a  *)
(* time.                                                                   *)
NextTap(tap) == IF cur_tap = Unknown THEN tap
                ELSE IF tap > cur_tap THEN cur_tap + 1 ELSE cur_tap - 1

(* One step of ramp_to_tap; a failure ends the command.                    *)
RampSteps ==
    /\ pc = "ramp" /\ cur_tap # TapOf(mv)
    /\ SetTap(NextTap(TapOf(mv)))
    /\ pc' = IF voltFailed' THEN "idle" ELSE "ramp"
    /\ UNCHANGED <<pins, pwm, stored, queue, mv, asked, bounds>>

(* The ramp is complete: the voltage is kept as a setting.                 *)
RampEnds ==
    /\ pc = "ramp" /\ cur_tap = TapOf(mv)
    /\ setting' = [setting EXCEPT !.mv = mv]
    /\ voltFailed' = FALSE
    /\ pc' = "idle"
    /\ UNCHANGED <<wiper, cur_tap, pins, pwm, saved, queue, mv, asked, bounds>>

(* The store's work item; module SettingsStore has how it saves.           *)
Persists ==
    /\ Up /\ saved # setting
    /\ saved' = setting
    /\ UNCHANGED <<chain, pins, pwm, setting, thread, asked, bounds>>

(* A reset releases the pins, which pull-downs hold low, and stops the PWM. *)
(* The digipot keeps its wiper unless it loses power too.                  *)
Reset ==
    /\ resets < MaxResets
    /\ resets' = resets + 1
    /\ wiper' \in {wiper, PowerOnTap} /\ cur_tap' = Unknown
    /\ voltFailed' = FALSE /\ waveFailed' = FALSE
    /\ rail_on' = FALSE /\ drv_awake' = FALSE
    /\ wave' = [c \in Channels |-> [period |-> 0, duty |-> 0]]
    /\ period_ns' = DefaultPeriod /\ duty_pct' = [c \in Channels |-> 0]
    /\ setting' = saved /\ asked' = saved.mv
    /\ queue' = <<>> /\ pc' = "digipot" /\ mv' = 0
    /\ UNCHANGED <<saved, writes>>

-----------------------------------------------------------------------------
Init ==
    /\ wiper = PowerOnTap /\ cur_tap = Unknown
    /\ voltFailed = FALSE /\ waveFailed = FALSE
    /\ rail_on = FALSE /\ drv_awake = FALSE
    /\ wave = [c \in Channels |-> [period |-> 0, duty |-> 0]]
    /\ period_ns = DefaultPeriod /\ duty_pct = [c \in Channels |-> 0]
    /\ setting \in [mv : Voltages, hz : Frequencies] /\ saved = setting
    /\ asked = setting.mv
    /\ queue = <<>> /\ pc = "digipot" /\ mv = 0
    /\ writes = 0 /\ resets = 0

Boot == BootDigipot \/ BootWaveform \/ BootDuty \/ BootFrequency
Host == \/ \E hz \in Frequencies : FreqWrite(hz)
        \/ \E v \in Voltages : VoltWrite(v)
        \/ \E b \in BOOLEAN : RailWrite(b) \/ DrvWrite(b)
Cmd  == CmdTakes \/ RampSteps \/ RampEnds

Next == Boot \/ Host \/ Cmd \/ Persists \/ Reset

Spec == Init /\ [][Next]_vars

-----------------------------------------------------------------------------
(* Correctness.                                                            *)

(* Type correctness. Once a write has succeeded the wiper is at most one   *)
(* tap from where the code believes it, and never beyond TAP_MAX ("exceeds *)
(* safe limit", max5419.c).                                                *)
TypeOK ==
    /\ wiper \in 0 .. TapMax \union {PowerOnTap}
    /\ cur_tap \in 0 .. TapMax \union {Unknown}
    /\ cur_tap # Unknown => wiper <= TapMax /\ Apart(wiper, cur_tap) <= 1
    /\ rail_on \in BOOLEAN /\ drv_awake \in BOOLEAN
    /\ wave \in [Channels -> [period : Nat, duty : 0 .. 100]]
    /\ period_ns \in Nat \ {0} /\ duty_pct \in [Channels -> 0 .. 100]
    /\ setting \in [mv : Voltages, hz : Frequencies]
    /\ saved \in [mv : Voltages, hz : Frequencies]
    /\ queue \in Seq(Voltages) /\ Len(queue) <= QueueDepth
    /\ pc \in {"digipot", "waveform", "duty", "frequency", "idle", "ramp"}
    /\ mv \in Voltages \union {0} /\ asked \in Voltages
    /\ voltFailed \in BOOLEAN /\ waveFailed \in BOOLEAN

Driven == rail_on /\ drv_awake

(* A motor that is driven never sees the voltage jump: no write moves the  *)
(* wiper by more than one tap, or by two after a failed one ("a large      *)
(* instantaneous VDC step under motor load can collapse the rails and      *)
(* reset the MCU", max5419.c), whatever the host switches during a ramp.   *)
(* The exception is a digipot that failed at boot: its first write comes   *)
(* later, at once, and "the motor is still in coast then" is not true.     *)
RampedUnderLoad ==
    [][Driven /\ Driven' /\ cur_tap # Unknown => Apart(wiper', wiper) <= 2]_vars

(* Everything accepted is carried out.                                     *)
AtRest == pc = "idle" /\ queue = <<>>

(* At rest, unless the last attempt failed, the wiper is where the last    *)
(* accepted voltage puts it and that voltage is the setting; one tap off   *)
(* when an earlier write that failed had reached the chip, since a ramp to *)
(* where the code believes the wiper writes nothing.                       *)
VoltageFollows ==
    ~voltFailed => setting.mv = asked /\ Apart(wiper, TapOf(asked)) <= 1

(* Likewise both channels run with the persisted frequency and the duties  *)
(* of the boot, and the status reports that frequency.                     *)
WaveformFollows ==
    ~waveFailed =>
        /\ FrequencyOf(period_ns) = setting.hz
        /\ \A c \in Channels : wave[c] = [period |-> PeriodOf(setting.hz),
                                          duty |-> IF c = 0 THEN 50 ELSE 0]

(* After any mixture of writes, failures and resets the motor does what    *)
(* the host asked last, and a restart begins from there.                   *)
MotorFollowsHost == AtRest => VoltageFollows /\ WaveformFollows
=============================================================================
