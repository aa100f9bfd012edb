---------------------------- MODULE MotorProofs ----------------------------
(***************************************************************************)
(* The inductive invariant of Motor, and what follows from it: a driven    *)
(* motor sees no voltage jump, and follows the host's last request.  After *)
(* it, that of Sampler: the other half of what app.c boots and looks after.*)
(***************************************************************************)
EXTENDS Motor, SequenceTheorems, TLAPS

Booting == pc \notin {"idle", "ramp"}

(* The digipot is written first after a reset, and a ramp has a target.    *)
PhaseInv ==
    /\ pc = "digipot" => cur_tap = Unknown
    /\ pc = "ramp" => mv \in Voltages
    /\ Booting => queue = <<>>

(* The last voltage accepted is the newest in the queue, or the one being  *)
(* set, or in place unless its attempt failed.                             *)
AskedInv ==
    /\ queue # <<>> => asked = queue[Len(queue)]
    /\ queue = <<>> /\ pc = "ramp" => asked = mv
    /\ queue = <<>> /\ pc # "ramp" /\ (Booting \/ ~voltFailed) => setting.mv = asked
    /\ queue = <<>> /\ pc \notin {"ramp", "digipot"} /\ ~voltFailed
         => cur_tap = TapOf(asked)

(* Boot sets the duties once; from then on they stay.                      *)
BootDuties == [c \in Channels |-> IF c = 0 THEN 50 ELSE 0]

(* What both channels run with, unless the last attempt failed.            *)
WaveInv ==
    /\ pc \in {"digipot", "waveform", "duty"} => duty_pct = [c \in Channels |-> 0]
    /\ pc \in {"frequency", "idle", "ramp"} => duty_pct = BootDuties
    /\ ~Booting /\ ~waveFailed =>
         /\ period_ns = PeriodOf(setting.hz)
         /\ wave = [c \in Channels |-> [period |-> period_ns, duty |-> duty_pct[c]]]

IInv == TypeOK /\ PhaseInv /\ AskedInv /\ WaveInv

-----------------------------------------------------------------------------
(* The arithmetic of taps and periods.                                     *)

(* Every voltage of the host's range has a tap, the clamp's included.      *)
LEMMA TapOfBounds == ASSUME NEW v \in Voltages PROVE TapOf(v) \in 0 .. TapMax
<1> DEFINE den == 2 * v - 1000
           num == 108371 * den - 51000000
<1>1. v \in 750 .. 4200
  BY MotorAssumption, SMT
<1>2. num \in Int /\ 400 * den \in Nat \ {0}
  BY <1>1, SMT
<1> HIDE DEF num
<1>3. num \div (400 * den) \in Int
  BY <1>2, SMT
<1> QED
  BY <1>3, SMT DEF TapOf, TapMax, num

(* A frequency the host may ask for has a period that is not zero, and the *)
(* status reports the very frequency that was asked for.                   *)
LEMMA PeriodOfFrequency ==
  ASSUME NEW hz \in Frequencies
  PROVE  PeriodOf(hz) \in Nat \ {0} /\ FrequencyOf(PeriodOf(hz)) = hz
<1>1. hz \in 4 .. 1000
  BY MotorAssumption, SMT
<1> DEFINE p == 1000000000 \div hz
<1>2. /\ p \in Nat
      /\ hz * p <= 1000000000 /\ 1000000000 < hz * p + hz
  BY <1>1, SMT
<1>3. p >= 999999
  BY <1>1, <1>2, SMT
<1>4. 1000000000 \div p = hz
  BY <1>1, <1>2, <1>3, SMT
<1> QED
  BY <1>2, <1>3, <1>4, SMT DEF PeriodOf, FrequencyOf

(* Two taps at most one from a third are at most two apart.                *)
LEMMA ApartAdds ==
  ASSUME NEW x \in 0 .. TapMax, NEW y \in 0 .. TapMax, NEW z \in 0 .. TapMax,
         Apart(x, z) <= 1, Apart(y, z) <= 1
  PROVE  Apart(x, y) <= 2
  BY DEF Apart, TapMax

LEMMA DefaultIsPeriod == DefaultPeriod \in Nat \ {0}
  BY SMT DEF DefaultPeriod

(* A write to the digipot, failed or not, to anywhere before the first one *)
(* has succeeded and to a neighbouring tap from then on.                   *)
LEMMA SetTapMoves ==
  ASSUME TypeOK, NEW tap \in 0 .. TapMax, SetTap(tap),
         cur_tap = Unknown \/ Apart(tap, cur_tap) <= 1
  PROVE  /\ wiper' \in 0 .. TapMax \union {PowerOnTap}
         /\ cur_tap' \in 0 .. TapMax \union {Unknown}
         /\ cur_tap' # Unknown => wiper' <= TapMax /\ Apart(wiper', cur_tap') <= 1
         /\ voltFailed' \in BOOLEAN
         /\ ~voltFailed' => cur_tap' = tap
<1>1. CASE wiper' = tap /\ cur_tap' = tap /\ voltFailed' = FALSE
  <2>1. tap \in 0 .. TapMax /\ tap <= TapMax /\ Apart(tap, tap) <= 1
    BY DEF TapMax, Apart
  <2>2. voltFailed' \in BOOLEAN
    BY <1>1
  <2> QED
    BY <1>1, <2>1, <2>2
<1>2. CASE wiper' \in {wiper, tap} /\ voltFailed' = TRUE /\ cur_tap' = cur_tap
  <2>1. CASE cur_tap = Unknown
    BY <1>2, <2>1 DEF TypeOK
  <2>2. CASE cur_tap # Unknown
    <3>1. cur_tap \in 0 .. TapMax /\ Apart(tap, cur_tap) <= 1 /\ tap \in 0 .. TapMax
      BY <2>2 DEF TypeOK
    <3>2. Apart(tap, cur_tap) <= 1 => tap <= TapMax
      BY <3>1 DEF TapMax
    <3> QED
      BY <1>2, <2>2, <3>1, <3>2 DEF TypeOK
  <2> QED
    BY <2>1, <2>2
<1> QED
  BY <1>1, <1>2 DEF SetTap

(* Setting the waveform, failed or not.                                    *)
LEMMA ApplySets ==
  ASSUME TypeOK, NEW period \in Nat \ {0}, NEW duty \in [Channels -> 0 .. 100],
         Apply(period, duty)
  PROVE  /\ period_ns' = period /\ duty_pct' = duty
         /\ wave' \in [Channels -> [period : Nat, duty : 0 .. 100]]
         /\ waveFailed' \in BOOLEAN
         /\ ~waveFailed' =>
              wave' = [c \in Channels |-> [period |-> period, duty |-> duty[c]]]
<1>1. PICK done \in {{}, {0}, Channels} :
         /\ wave' = [c \in Channels |->
                       IF c \in done THEN [period |-> period, duty |-> duty[c]]
                       ELSE wave[c]]
         /\ waveFailed' = (done # Channels)
  BY DEF Apply
<1>2. wave \in [Channels -> [period : Nat, duty : 0 .. 100]]
  BY DEF TypeOK
<1>3. wave' \in [Channels -> [period : Nat, duty : 0 .. 100]]
  BY <1>1, <1>2
<1>4. ASSUME ~waveFailed'
      PROVE  wave' = [c \in Channels |-> [period |-> period, duty |-> duty[c]]]
  BY <1>1, <1>4
<1> QED
  BY <1>1, <1>3, <1>4 DEF Apply

(* The duties of the boot, before and after it has set them.               *)
LEMMA DutiesAreTyped ==
  /\ [c \in Channels |-> 0] \in [Channels -> 0 .. 100]
  /\ BootDuties \in [Channels -> 0 .. 100]
  /\ [[c \in Channels |-> 0] EXCEPT ![0] = 50] = BootDuties
  BY DEF Channels, BootDuties

(* A ramp's next tap.                                                      *)
LEMMA NextTapMoves ==
  ASSUME TypeOK, NEW tap \in 0 .. TapMax, cur_tap # tap
  PROVE  /\ NextTap(tap) \in 0 .. TapMax
         /\ cur_tap = Unknown \/ Apart(NextTap(tap), cur_tap) <= 1
  BY DEF TypeOK, NextTap, TapMax, Unknown, Apart

-----------------------------------------------------------------------------
(* The invariant.                                                          *)

LEMMA InitInv == Init => IInv
<1> SUFFICES ASSUME Init PROVE IInv
  OBVIOUS
<1>1. wiper \in 0 .. TapMax \union {PowerOnTap} /\ cur_tap = Unknown
  BY DEF Init
<1>2. wave \in [Channels -> [period : Nat, duty : 0 .. 100]]
  BY DEF Init
<1>3. setting \in [mv : Voltages, hz : Frequencies] /\ asked \in Voltages
  BY DEF Init
<1>4. queue \in Seq(Voltages) /\ Len(queue) <= QueueDepth
  <2>1. queue = <<>>
    BY DEF Init
  <2> QED
    BY <2>1, MotorAssumption
<1>5. TypeOK
  BY <1>1, <1>2, <1>3, <1>4, DutiesAreTyped, DefaultIsPeriod DEF Init, TypeOK
<1>6. PhaseInv /\ AskedInv /\ WaveInv
  BY DEF Init, PhaseInv, AskedInv, WaveInv, Booting
<1> QED
  BY <1>5, <1>6 DEF IInv

LEMMA NextInv == IInv /\ [Next]_vars => IInv'
<1> SUFFICES ASSUME IInv, [Next]_vars PROVE IInv'
  OBVIOUS
<1> USE DEF chain, pins, pwm, stored, thread, bounds
<1>1. TypeOK /\ PhaseInv /\ AskedInv /\ WaveInv
  BY DEF IInv
<1>2. setting.mv \in Voltages /\ setting.hz \in Frequencies
  BY <1>1 DEF TypeOK
<1>3. CASE BootDigipot
  <2>1. cur_tap = Unknown /\ queue = <<>> /\ setting.mv = asked
    BY <1>1, <1>3 DEF BootDigipot, PhaseInv, AskedInv, Booting
  <2>2. /\ wiper' \in 0 .. TapMax \union {PowerOnTap}
        /\ cur_tap' \in 0 .. TapMax \union {Unknown}
        /\ cur_tap' # Unknown => wiper' <= TapMax /\ Apart(wiper', cur_tap') <= 1
        /\ voltFailed' \in BOOLEAN
        /\ ~voltFailed' => cur_tap' = TapOf(setting.mv)
    <3>1. CASE SetTap(TapOf(setting.mv))
      BY <1>1, <1>2, <2>1, <3>1, TapOfBounds, SetTapMoves
    <3>2. CASE voltFailed' = TRUE /\ wiper' = wiper /\ cur_tap' = cur_tap
      BY <1>1, <3>2 DEF TypeOK
    <3> QED
      BY <1>3, <3>1, <3>2 DEF BootDigipot
  <2>3. TypeOK'
    BY <1>1, <1>3, <2>2 DEF BootDigipot, TypeOK
  <2>4. PhaseInv' /\ WaveInv'
    BY <1>1, <1>3, <2>1 DEF BootDigipot, PhaseInv, WaveInv, Booting
  <2>5. AskedInv'
    BY <1>3, <2>1, <2>2 DEF BootDigipot, AskedInv, Booting
  <2> QED
    BY <2>3, <2>4, <2>5 DEF IInv
<1>4. CASE BootWaveform
  <2>1. duty_pct = [c \in Channels |-> 0] /\ period_ns \in Nat \ {0}
    BY <1>1, <1>4 DEF BootWaveform, WaveInv, TypeOK
  <2>2. /\ period_ns' \in Nat \ {0} /\ duty_pct' = [c \in Channels |-> 0]
        /\ wave' \in [Channels -> [period : Nat, duty : 0 .. 100]]
        /\ waveFailed' \in BOOLEAN
    BY <1>1, <1>4, <2>1, DutiesAreTyped, ApplySets DEF BootWaveform
  <2>3. TypeOK'
    BY <1>1, <1>4, <2>2, DutiesAreTyped DEF BootWaveform, TypeOK
  <2>4. PhaseInv' /\ AskedInv' /\ WaveInv'
    BY <1>1, <1>4, <2>2 DEF BootWaveform, PhaseInv, AskedInv, WaveInv, Booting
  <2> QED
    BY <2>3, <2>4 DEF IInv
<1>5. CASE BootDuty
  <2>1. duty_pct = [c \in Channels |-> 0] /\ period_ns \in Nat \ {0}
    BY <1>1, <1>5 DEF BootDuty, WaveInv, TypeOK
  <2>2. /\ period_ns' \in Nat \ {0} /\ duty_pct' = BootDuties
        /\ wave' \in [Channels -> [period : Nat, duty : 0 .. 100]]
        /\ waveFailed' \in BOOLEAN
    BY <1>1, <1>5, <2>1, DutiesAreTyped, ApplySets DEF BootDuty
  <2>3. TypeOK'
    BY <1>1, <1>5, <2>2, DutiesAreTyped DEF BootDuty, TypeOK
  <2>4. PhaseInv' /\ AskedInv' /\ WaveInv'
    BY <1>1, <1>5, <2>2 DEF BootDuty, PhaseInv, AskedInv, WaveInv, Booting
  <2> QED
    BY <2>3, <2>4 DEF IInv
<1>6. CASE BootFrequency
  <2>1. duty_pct = BootDuties /\ PeriodOf(setting.hz) \in Nat \ {0}
    BY <1>1, <1>2, <1>6, PeriodOfFrequency DEF BootFrequency, WaveInv
  <2>2. /\ period_ns' = PeriodOf(setting.hz) /\ duty_pct' = BootDuties
        /\ wave' \in [Channels -> [period : Nat, duty : 0 .. 100]]
        /\ waveFailed' \in BOOLEAN
        /\ ~waveFailed' =>
             wave' = [c \in Channels |-> [period |-> period_ns', duty |-> duty_pct'[c]]]
    BY <1>1, <1>6, <2>1, DutiesAreTyped, ApplySets DEF BootFrequency
  <2>3. TypeOK'
    BY <1>1, <1>6, <2>1, <2>2, DutiesAreTyped DEF BootFrequency, TypeOK
  <2>4. PhaseInv' /\ AskedInv'
    BY <1>1, <1>6 DEF BootFrequency, PhaseInv, AskedInv, Booting
  <2>5. WaveInv'
    BY <1>6, <2>2 DEF BootFrequency, WaveInv, Booting
  <2> QED
    BY <2>3, <2>4, <2>5 DEF IInv
<1>7. ASSUME NEW hz \in Frequencies, FreqWrite(hz) PROVE IInv'
  <2>1. pc \in {"idle", "ramp"} /\ pc' = pc /\ duty_pct = BootDuties
    BY <1>1, <1>7 DEF FreqWrite, HostWrites, Up, WaveInv
  <2>2. PeriodOf(hz) \in Nat \ {0}
    BY PeriodOfFrequency
  <2>3. /\ period_ns' = PeriodOf(hz) /\ duty_pct' = BootDuties
        /\ wave' \in [Channels -> [period : Nat, duty : 0 .. 100]]
        /\ waveFailed' \in BOOLEAN
        /\ ~waveFailed' =>
             wave' = [c \in Channels |-> [period |-> period_ns', duty |-> duty_pct'[c]]]
    BY <1>1, <1>7, <2>1, <2>2, DutiesAreTyped, ApplySets DEF FreqWrite
  <2>4. /\ setting' \in [mv : Voltages, hz : Frequencies]
        /\ setting'.mv = setting.mv
        /\ ~waveFailed' => setting'.hz = hz
    BY <1>1, <1>7, <2>3 DEF FreqWrite, TypeOK
  <2>5. TypeOK'
    BY <1>1, <1>7, <2>2, <2>3, <2>4, DutiesAreTyped DEF FreqWrite, TypeOK
  <2>6. PhaseInv' /\ AskedInv'
    BY <1>1, <1>7, <2>1, <2>4 DEF FreqWrite, PhaseInv, AskedInv, Booting
  <2>7. WaveInv'
    BY <2>1, <2>3, <2>4 DEF WaveInv, Booting
  <2> QED
    BY <2>5, <2>6, <2>7 DEF IInv
<1>8. ASSUME NEW v \in Voltages, VoltWrite(v) PROVE IInv'
  <2>1. /\ queue' \in Seq(Voltages) /\ queue' # <<>>
        /\ Len(queue') = Len(queue) + 1 /\ queue'[Len(queue')] = v
    <3>1. queue \in Seq(Voltages) /\ queue' = Append(queue, v)
      BY <1>1, <1>8 DEF VoltWrite, TypeOK
    <3> QED
      BY <3>1
  <2>2. Len(queue') <= QueueDepth
    BY <1>1, <1>8, <2>1, MotorAssumption DEF VoltWrite, TypeOK
  <2>3. TypeOK'
    BY <1>1, <1>8, <2>1, <2>2 DEF VoltWrite, TypeOK
  <2>4. PhaseInv' /\ AskedInv' /\ WaveInv'
    BY <1>1, <1>8, <2>1
       DEF VoltWrite, HostWrites, Up, PhaseInv, AskedInv, WaveInv, Booting
  <2> QED
    BY <2>3, <2>4 DEF IInv
<1>9. ASSUME NEW b \in BOOLEAN, RailWrite(b) \/ DrvWrite(b) PROVE IInv'
  <2>1. TypeOK'
    <3>1. rail_on' \in BOOLEAN /\ drv_awake' \in BOOLEAN
      BY <1>1, <1>9 DEF RailWrite, DrvWrite, TypeOK
    <3>2. UNCHANGED <<chain, pwm, stored, thread, asked>>
      BY <1>9 DEF RailWrite, DrvWrite
    <3> QED
      BY <1>1, <3>1, <3>2 DEF TypeOK
  <2>2. PhaseInv' /\ AskedInv' /\ WaveInv'
    BY <1>1, <1>9 DEF RailWrite, DrvWrite, PhaseInv, AskedInv, WaveInv, Booting
  <2> QED
    BY <2>1, <2>2 DEF IInv
<1>10. CASE CmdTakes
  <2>1. /\ mv' \in Voltages /\ queue' \in Seq(Voltages)
        /\ Len(queue') <= QueueDepth
        /\ queue' = <<>> => mv' = queue[Len(queue)]
        /\ queue' # <<>> => queue'[Len(queue')] = queue[Len(queue)]
    <3>1. /\ queue \in Seq(Voltages) /\ queue # <<>> /\ Len(queue) <= QueueDepth
          /\ mv' = Head(queue) /\ queue' = Tail(queue)
      BY <1>1, <1>10 DEF CmdTakes, TypeOK
    <3>2. /\ Len(queue) \in Nat \ {0} /\ Head(queue) = queue[1]
          /\ Tail(queue) \in Seq(Voltages) /\ Len(Tail(queue)) = Len(queue) - 1
          /\ \A i \in 1 .. Len(Tail(queue)) : Tail(queue)[i] = queue[i + 1]
      BY <3>1, HeadTailProperties, EmptySeq
    <3>3. ASSUME queue' = <<>> PROVE mv' = queue[Len(queue)]
      BY <3>1, <3>2, <3>3
    <3>4. ASSUME queue' # <<>> PROVE queue'[Len(queue')] = queue[Len(queue)]
      <4>1. Len(queue') \in 1 .. Len(queue')
        BY <3>1, <3>2, <3>4, EmptySeq
      <4> QED
        BY <3>1, <3>2, <4>1
    <3> QED
      BY <3>1, <3>2, <3>3, <3>4, MotorAssumption
  <2>2. TypeOK'
    BY <1>1, <1>10, <2>1 DEF CmdTakes, TypeOK
  <2>3. PhaseInv' /\ AskedInv' /\ WaveInv'
    BY <1>1, <1>10, <2>1 DEF CmdTakes, PhaseInv, AskedInv, WaveInv, Booting
  <2> QED
    BY <2>2, <2>3 DEF IInv
<1>11. CASE RampSteps
  <2>1. mv \in Voltages /\ TapOf(mv) \in 0 .. TapMax
    BY <1>1, <1>11, TapOfBounds DEF RampSteps, PhaseInv
  <2>2. /\ NextTap(TapOf(mv)) \in 0 .. TapMax
        /\ cur_tap = Unknown \/ Apart(NextTap(TapOf(mv)), cur_tap) <= 1
    BY <1>1, <1>11, <2>1, NextTapMoves DEF RampSteps
  <2>3. /\ wiper' \in 0 .. TapMax \union {PowerOnTap}
        /\ cur_tap' \in 0 .. TapMax \union {Unknown}
        /\ cur_tap' # Unknown => wiper' <= TapMax /\ Apart(wiper', cur_tap') <= 1
        /\ voltFailed' \in BOOLEAN
    BY <1>1, <1>11, <2>2, SetTapMoves DEF RampSteps
  <2>4. TypeOK'
    BY <1>1, <1>11, <2>3 DEF RampSteps, TypeOK
  <2>5. PhaseInv' /\ AskedInv' /\ WaveInv'
    BY <1>1, <1>11, <2>1, <2>3 DEF RampSteps, PhaseInv, AskedInv, WaveInv, Booting
  <2> QED
    BY <2>4, <2>5 DEF IInv
<1>12. CASE RampEnds
  <2>1. mv \in Voltages /\ setting' \in [mv : Voltages, hz : Frequencies]
        /\ setting'.mv = mv /\ setting'.hz = setting.hz
    BY <1>1, <1>12 DEF RampEnds, PhaseInv, TypeOK
  <2>2. TypeOK'
    BY <1>1, <1>12, <2>1 DEF RampEnds, TypeOK
  <2>3. PhaseInv' /\ AskedInv' /\ WaveInv'
    BY <1>1, <1>12, <2>1 DEF RampEnds, PhaseInv, AskedInv, WaveInv, Booting
  <2> QED
    BY <2>2, <2>3 DEF IInv
<1>13. CASE Persists
  <2>1. TypeOK'
    BY <1>1, <1>13 DEF Persists, TypeOK
  <2>2. PhaseInv' /\ AskedInv' /\ WaveInv'
    BY <1>1, <1>13 DEF Persists, PhaseInv, AskedInv, WaveInv, Booting
  <2> QED
    BY <2>1, <2>2 DEF IInv
<1>14. CASE Reset
  <2>1. wiper' \in 0 .. TapMax \union {PowerOnTap} /\ cur_tap' = Unknown
    BY <1>1, <1>14 DEF Reset, TypeOK
  <2>2. wave' \in [Channels -> [period : Nat, duty : 0 .. 100]]
    BY <1>14 DEF Reset
  <2>3. setting' \in [mv : Voltages, hz : Frequencies] /\ asked' \in Voltages
        /\ saved' \in [mv : Voltages, hz : Frequencies]
    BY <1>1, <1>14 DEF Reset, TypeOK
  <2>4. queue' \in Seq(Voltages) /\ Len(queue') <= QueueDepth
    <3>1. queue' = <<>>
      BY <1>14 DEF Reset
    <3> QED
      BY <3>1, MotorAssumption
  <2>5. TypeOK'
    BY <1>14, <2>1, <2>2, <2>3, <2>4, DutiesAreTyped, DefaultIsPeriod
       DEF Reset, TypeOK
  <2>6. PhaseInv' /\ AskedInv' /\ WaveInv'
    BY <1>14, <2>1 DEF Reset, PhaseInv, AskedInv, WaveInv, Booting
  <2> QED
    BY <2>5, <2>6 DEF IInv
<1>15. CASE UNCHANGED vars
  <2>1. TypeOK'
    BY <1>1, <1>15 DEF vars, TypeOK
  <2>2. PhaseInv' /\ AskedInv' /\ WaveInv'
    BY <1>1, <1>15 DEF vars, PhaseInv, AskedInv, WaveInv, Booting
  <2> QED
    BY <2>1, <2>2 DEF IInv
<1> QED
  BY <1>3, <1>4, <1>5, <1>6, <1>7, <1>8, <1>9, <1>10, <1>11, <1>12, <1>13,
     <1>14, <1>15 DEF Next, Boot, Host, Cmd

-----------------------------------------------------------------------------
(* What every behaviour keeps, for every range of voltages and frequencies *)
(* the host may ask for, any queue, any failures and any number of resets. *)

THEOREM Inductive == Spec => []IInv
  BY InitInv, NextInv, PTL DEF Spec

(* max5419_set_tap never leaves the wiper beyond TAP_MAX or more than one  *)
(* tap from where ramp_to_tap believes it, after its first success.        *)
THEOREM TypeCorrect == Spec => []TypeOK
<1>1. IInv => TypeOK
  BY DEF IInv
<1> QED
  BY <1>1, Inductive, PTL

(* At rest the motor has what the host asked for last: what on_volt_write  *)
(* accepted and set_voltage completed is the setting and, up to one tap,   *)
(* the wiper; both channels have the frequency of on_freq_write.           *)
THEOREM MotorAlwaysFollows == Spec => []MotorFollowsHost
<1>1. IInv => MotorFollowsHost
  <2> SUFFICES ASSUME IInv, AtRest PROVE VoltageFollows /\ WaveformFollows
    BY DEF MotorFollowsHost
  <2>1. TypeOK /\ AskedInv /\ WaveInv /\ pc = "idle" /\ queue = <<>>
    BY DEF IInv, AtRest
  <2>2. VoltageFollows
    <3> SUFFICES ASSUME ~voltFailed
                 PROVE  setting.mv = asked /\ Apart(wiper, TapOf(asked)) <= 1
      BY DEF VoltageFollows
    <3>1. setting.mv = asked /\ cur_tap = TapOf(asked) /\ asked \in Voltages
      BY <2>1 DEF AskedInv, TypeOK
    <3>2. cur_tap # Unknown
      BY <3>1, TapOfBounds DEF Unknown, TapMax
    <3> QED
      BY <2>1, <3>1, <3>2 DEF TypeOK
  <2>3. WaveformFollows
    <3> SUFFICES ASSUME ~waveFailed
                 PROVE  /\ FrequencyOf(period_ns) = setting.hz
                        /\ \A c \in Channels :
                             wave[c] = [period |-> PeriodOf(setting.hz),
                                        duty |-> IF c = 0 THEN 50 ELSE 0]
      BY DEF WaveformFollows
    <3>1. /\ period_ns = PeriodOf(setting.hz) /\ duty_pct = BootDuties
          /\ wave = [c \in Channels |-> [period |-> period_ns, duty |-> duty_pct[c]]]
      BY <2>1 DEF WaveInv, Booting
    <3>2. FrequencyOf(period_ns) = setting.hz
      BY <2>1, <3>1, PeriodOfFrequency DEF TypeOK
    <3> QED
      BY <3>1, <3>2 DEF BootDuties
  <2> QED
    BY <2>2, <2>3
<1> QED
  BY <1>1, Inductive, PTL

(* ramp_to_tap moves the wiper of a driven motor by one tap at a time, by  *)
(* two after a write that failed, whatever is switched on during a ramp    *)
(* and wherever a reset finds it.                                          *)
THEOREM AlwaysRamped == Spec => RampedUnderLoad
<1>1. IInv /\ [Next]_vars =>
        [Driven /\ Driven' /\ cur_tap # Unknown => Apart(wiper', wiper) <= 2]_vars
  <2> SUFFICES ASSUME IInv, Next, Driven, Driven', cur_tap # Unknown
               PROVE  Apart(wiper', wiper) <= 2
    OBVIOUS
  <2>1. TypeOK /\ PhaseInv
    BY DEF IInv
  <2>2. /\ wiper \in 0 .. TapMax /\ cur_tap \in 0 .. TapMax
        /\ Apart(wiper, cur_tap) <= 1
    BY <2>1, MotorAssumption DEF TypeOK, TapMax
  <2>3. CASE RampSteps
    <3>1. TapOf(mv) \in 0 .. TapMax /\ cur_tap # TapOf(mv)
      BY <2>1, <2>3, TapOfBounds DEF RampSteps, PhaseInv
    <3>2. /\ NextTap(TapOf(mv)) \in 0 .. TapMax
          /\ Apart(NextTap(TapOf(mv)), cur_tap) <= 1
      BY <2>1, <3>1, NextTapMoves
    <3>3. wiper' \in {wiper, NextTap(TapOf(mv))}
      BY <2>3 DEF RampSteps, SetTap
    <3>4. wiper' \in 0 .. TapMax /\ Apart(wiper', cur_tap) <= 1
      BY <2>2, <3>2, <3>3
    <3> QED
      BY <2>2, <3>4, ApartAdds
  <2>4. CASE wiper' = wiper
    BY <2>2, <2>4 DEF Apart, TapMax
  <2>5. RampSteps \/ wiper' = wiper
    <3>1. ~Reset /\ ~BootDigipot
      BY <2>1 DEF Driven, Reset, BootDigipot, PhaseInv
    <3>2. CASE Boot
      BY <3>1, <3>2 DEF Boot, BootWaveform, BootDuty, BootFrequency, chain
    <3>3. CASE Host
      BY <3>3 DEF Host, FreqWrite, VoltWrite, RailWrite, DrvWrite, chain
    <3>4. CASE Cmd
      BY <3>4 DEF Cmd, CmdTakes, RampEnds, chain
    <3>5. CASE Persists
      BY <3>5 DEF Persists, chain
    <3> QED
      BY <3>1, <3>2, <3>3, <3>4, <3>5 DEF Next
  <2> QED
    BY <2>3, <2>4, <2>5
<1> QED
  BY <1>1, Inductive, PTL DEF Spec, RampedUnderLoad
-----------------------------------------------------------------------------
(* The same component's other half: the health monitor of app.c and what   *)
(* it watches.  Its variables are none of the motor's, so Sampler is       *)
(* instantiated beside it, under the names it declares.                    *)

CONSTANTS RingN, PollInterval, WarnEvery, MaxConfigs, MaxDrops

VARIABLES demand, magic, imu_ok, cfg, cfg_seq, cfg_applied, cfg_status,
          pending, overrun_news, running, routed, fresh,
          fpc, resume, drdy_sem, since_cfg_poll, want, fseq,
          announced, age, moved, warned, log_dropped, last_wdrop,
          missed, lost, told, restarted

Health == INSTANCE Sampler

(* What Sampler assumes of its sizes.                                      *)
HealthSizes == /\ RingN \in Nat \ {0}
               /\ PollInterval \in Nat \ {0}
               /\ WarnEvery \in Nat \ {0}

(* What the monitor has told, and what it will tell next, never exceeds    *)
(* what was lost; until a count is discarded it is exactly that.           *)
Reported ==
    /\ told <= lost
    /\ log_dropped > last_wdrop => told + (log_dropped - last_wdrop) <= lost
    /\ ~restarted => /\ last_wdrop <= log_dropped
                     /\ told + log_dropped = lost + last_wdrop

HealthInv == HealthSizes /\ Health!TypeOK /\ Reported

(* The arithmetic of a drop, and of a report.                              *)
LEMMA DropReported ==
  ASSUME NEW l \in Nat, NEW t \in Nat, NEW d \in Nat, NEW w \in Nat,
         NEW r \in BOOLEAN,
         t <= l, d > w => t + (d - w) <= l,
         ~r => w <= d /\ t + d = l + w
  PROVE  /\ t <= l + 1
         /\ d + 1 > w => t + (d + 1 - w) <= l + 1
         /\ ~r => w <= d + 1 /\ t + (d + 1) = l + 1 + w
  OBVIOUS

LEMMA NewsReported ==
  ASSUME NEW l \in Nat, NEW t \in Nat, NEW d \in Nat, NEW w \in Nat,
         NEW r \in BOOLEAN, NEW n,
         n = IF d > w THEN d - w ELSE 0,
         t <= l, d > w => t + (d - w) <= l,
         ~r => w <= d /\ t + d = l + w
  PROVE  /\ n \in Nat /\ t + n \in Nat
         /\ t + n <= l
         /\ ~r => t + n + d = l + d
  OBVIOUS

(* One group of variables moves, the others stay: type correctness.        *)
LEMMA HealthTyped == HealthSizes /\ Health!TypeOK /\ Health!Next => Health!TypeOK'
<1> SUFFICES ASSUME HealthSizes, Health!TypeOK, Health!Next PROVE Health!TypeOK'
  OBVIOUS
<1> USE DEF Health!TypeOK, Health!app, Health!shared, Health!ring, Health!sensor,
            Health!flpr, Health!monitor, Health!logged
<1>1. CASE Health!Samples
  BY <1>1 DEF Health!Samples
<1>2. ASSUME NEW ok \in BOOLEAN, Health!Boots(ok) PROVE Health!TypeOK'
  BY <1>2 DEF Health!Boots
<1>3. CASE Health!WaitTimesOut
  BY <1>3 DEF Health!WaitTimesOut, Health!Applies
<1>4. CASE Health!WaitTakes
  <2>1. since_cfg_poll' \in 0 .. PollInterval - 1
    BY <1>4 DEF Health!WaitTakes, HealthSizes
  <2>2. CASE since_cfg_poll' = 0
    BY <1>4, <2>1, <2>2 DEF Health!WaitTakes, Health!Applies
  <2>3. CASE since_cfg_poll' # 0
    BY <1>4, <2>1, <2>3 DEF Health!WaitTakes
  <2> QED
    BY <2>2, <2>3
<1>5. CASE Health!Reads
  <2>1. pending' \in 0 .. RingN
    BY <1>5 DEF Health!Reads, Health!RingFull, HealthSizes
  <2>2. overrun_news' \in BOOLEAN
    BY <1>5 DEF Health!Reads
  <2>3. /\ fpc' = "wait" /\ fresh' = FALSE
        /\ UNCHANGED <<demand, cfg, cfg_seq, magic, imu_ok, cfg_applied,
                       cfg_status, running, routed, resume, drdy_sem,
                       since_cfg_poll, want, fseq, announced, age, warned,
                       last_wdrop, told, moved, log_dropped, lost, restarted,
                       missed>>
    BY <1>5 DEF Health!Reads
  <2> QED
    BY <2>1, <2>2, <2>3
<1>6. CASE Health!ReadFails
  <2>1. missed' \in BOOLEAN
    <3>1. missed' = (missed \/ fresh)
      BY <1>6 DEF Health!ReadFails
    <3> QED
      BY <3>1, Zenon
  <2> QED
    BY <1>6, <2>1 DEF Health!ReadFails
<1>7. CASE Health!ConfigureFails
  BY <1>7 DEF Health!ConfigureFails
<1>8. CASE Health!SetsRate
  BY <1>8 DEF Health!SetsRate
<1>9. CASE Health!SetsRoute
  BY <1>9 DEF Health!SetsRoute
<1>10. ASSUME NEW ok \in BOOLEAN, Health!ScratchReads(ok) PROVE Health!TypeOK'
  BY <1>10 DEF Health!ScratchReads
<1>11. CASE Health!ResetsSem
  <2>1. missed' \in BOOLEAN
    <3>1. missed' = (fresh /\ routed)
      BY <1>11 DEF Health!ResetsSem
    <3> QED
      BY <3>1, Zenon
  <2>2. /\ fpc' = "ack" /\ drdy_sem' = FALSE /\ cfg_status' = 0
        /\ UNCHANGED <<demand, cfg, cfg_seq, magic, imu_ok, cfg_applied, pending,
                       overrun_news, running, routed, fresh, resume,
                       since_cfg_poll, want, fseq, announced, age, warned,
                       last_wdrop, told, moved, log_dropped, lost, restarted>>
    BY <1>11 DEF Health!ResetsSem
  <2> QED
    BY <2>1, <2>2
<1>12. CASE Health!Acks
  BY <1>12 DEF Health!Acks
<1>13. CASE Health!PumpDrains
  BY <1>13 DEF Health!PumpDrains, HealthSizes
<1>14. CASE Health!MonitorLooks
  <2>1. age' \in 0 .. WarnEvery
    BY <1>14 DEF Health!MonitorLooks, HealthSizes
  <2>2. cfg' \in BOOLEAN /\ cfg_seq' \in Nat
    BY <1>14 DEF Health!MonitorLooks, Health!Updates
  <2>3. told' \in Nat
    <3>1. Health!News \in Nat
      BY DEF Health!News
    <3> QED
      BY <1>14, <3>1 DEF Health!MonitorLooks
  <2>4. warned' \in BOOLEAN
    BY <1>14 DEF Health!MonitorLooks
  <2>5. announced' \in BOOLEAN /\ moved' \in BOOLEAN /\ overrun_news' \in BOOLEAN
    BY <1>14 DEF Health!MonitorLooks
  <2>6. last_wdrop' \in Nat
    BY <1>14 DEF Health!MonitorLooks
  <2>7. UNCHANGED <<demand, magic, imu_ok, cfg_applied, cfg_status, pending,
                    running, routed, fresh, fpc, resume, drdy_sem,
                    since_cfg_poll, want, fseq, log_dropped, lost, restarted,
                    missed>>
    BY <1>14 DEF Health!MonitorLooks
  <2> QED
    BY <2>1, <2>2, <2>3, <2>4, <2>5, <2>6, <2>7
<1>15. ASSUME NEW on \in BOOLEAN, Health!Demands(on) PROVE Health!TypeOK'
  BY <1>15 DEF Health!Demands, Health!Updates
<1>16. CASE Health!LogDrops
  BY <1>16 DEF Health!LogDrops
<1>17. CASE Health!LogStarts
  BY <1>17 DEF Health!LogStarts
<1> QED
  BY <1>1, <1>2, <1>3, <1>4, <1>5, <1>6, <1>7, <1>8, <1>9, <1>10, <1>11, <1>12,
     <1>13, <1>14, <1>15, <1>16, <1>17
  DEF Health!Next, Health!Flpr, Health!Configure, Health!App

(* A drop, a start and a round of the monitor move the counts; nothing     *)
(* else does.                                                              *)
LEMMA HealthReports ==
  HealthSizes /\ Health!TypeOK /\ Reported /\ Health!Next => Reported'
<1> SUFFICES ASSUME HealthSizes, Health!TypeOK, Reported, Health!Next
             PROVE  Reported'
  OBVIOUS
<1>1. /\ lost \in Nat /\ told \in Nat /\ log_dropped \in Nat /\ last_wdrop \in Nat
      /\ restarted \in BOOLEAN
  BY DEF Health!TypeOK
<1>2. CASE Health!LogDrops
  <2>1. /\ lost' = lost + 1 /\ log_dropped' = log_dropped + 1
        /\ UNCHANGED <<told, last_wdrop, restarted>>
    BY <1>2 DEF Health!LogDrops, Health!monitor
  <2> QED
    BY <1>1, <2>1, DropReported DEF Reported
<1>3. CASE Health!LogStarts
  <2>1. /\ log_dropped' = 0 /\ restarted' = TRUE
        /\ UNCHANGED <<lost, told, last_wdrop>>
    BY <1>3 DEF Health!LogStarts, Health!monitor
  <2> QED
    BY <1>1, <2>1 DEF Reported
<1>4. CASE Health!MonitorLooks
  <2>1. /\ told' = told + Health!News /\ last_wdrop' = log_dropped
        /\ UNCHANGED <<lost, log_dropped, restarted>>
    BY <1>4 DEF Health!MonitorLooks, Health!logged
  <2>2. /\ Health!News \in Nat /\ told + Health!News <= lost
        /\ ~restarted => told + Health!News + log_dropped = lost + log_dropped
    BY <1>1, NewsReported DEF Reported, Health!News
  <2> QED
    BY <1>1, <2>1, <2>2 DEF Reported
<1>5. \/ Health!LogDrops \/ Health!LogStarts \/ Health!MonitorLooks
      \/ UNCHANGED <<lost, told, log_dropped, last_wdrop, restarted>>
  BY DEF Health!Next, Health!Flpr, Health!Configure, Health!App, Health!Samples,
         Health!Boots, Health!WaitTimesOut, Health!WaitTakes, Health!Reads,
         Health!ReadFails, Health!ConfigureFails, Health!SetsRate,
         Health!SetsRoute, Health!ScratchReads, Health!ResetsSem, Health!Acks,
         Health!PumpDrains, Health!Demands, Health!monitor, Health!logged
<1> QED
  BY <1>2, <1>3, <1>4, <1>5 DEF Reported

(* The health monitor's inductive invariant.                               *)
THEOREM HealthInductive == HealthSizes /\ Health!Spec => []HealthInv
<1>1. HealthSizes /\ Health!Init => HealthInv
  <2> SUFFICES ASSUME HealthSizes, Health!Init PROVE HealthInv
    OBVIOUS
  <2>1. Health!TypeOK
    <3>1. 0 \in 0 .. RingN /\ 0 \in 0 .. PollInterval - 1 /\ 0 \in 0 .. WarnEvery
      BY DEF HealthSizes
    <3>2. {demand, magic, imu_ok, cfg, overrun_news, running, routed, fresh,
           drdy_sem, want, announced, moved, warned, missed, restarted}
             \subseteq BOOLEAN
      BY Zenon DEF Health!Init
    <3> QED
      BY <3>1, <3>2 DEF Health!Init, Health!TypeOK
  <2>2. Reported
    BY DEF Health!Init, Reported
  <2> QED
    BY <2>1, <2>2 DEF HealthInv
<1>2. HealthInv /\ [Health!Next]_(Health!vars) => HealthInv'
  <2> SUFFICES ASSUME HealthInv, [Health!Next]_(Health!vars) PROVE HealthInv'
    OBVIOUS
  <2>1. HealthSizes'
    BY DEF HealthInv, HealthSizes
  <2>2. CASE Health!Next
    BY <2>1, <2>2, HealthTyped, HealthReports DEF HealthInv
  <2>3. CASE UNCHANGED Health!vars
    BY <2>1, <2>3 DEF HealthInv, Reported, Health!TypeOK, Health!vars, Health!app,
       Health!shared, Health!ring, Health!sensor, Health!flpr, Health!monitor,
       Health!logged
  <2> QED
    BY <2>2, <2>3
<1> QED
  BY <1>1, <1>2, PTL DEF Health!Spec

(* Sampler's type correctness: the ring of the sampling loop never holds   *)
(* more than its size, and a configuration returns to the loop it left.    *)
THEOREM HealthTypeCorrect == HealthSizes /\ Health!Spec => []Health!TypeOK
<1>1. HealthInv => Health!TypeOK
  BY DEF HealthInv
<1> QED
  BY <1>1, HealthInductive, PTL

(* What app.c reports as dropped by the log was dropped, each once, and    *)
(* until a start discards a count nothing is left out but the newest,      *)
(* whatever order drops, rounds of the monitor and starts come in.         *)
THEOREM LossesAlwaysTold == HealthSizes /\ Health!Spec => []Health!LossesTold
<1>1. HealthInv => Health!LossesTold
  <2> SUFFICES ASSUME HealthInv PROVE Health!LossesTold
    OBVIOUS
  <2>1. /\ lost \in Nat /\ told \in Nat /\ log_dropped \in Nat
        /\ last_wdrop \in Nat
    BY DEF HealthInv, Health!TypeOK
  <2> QED
    BY <2>1 DEF HealthInv, Reported, Health!LossesTold
<1> QED
  BY <1>1, HealthInductive, PTL
=============================================================================
