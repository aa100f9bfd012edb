------------------------------ MODULE Sampler ------------------------------
(***************************************************************************)
(* Does data flow, and does anybody notice when it does not: the sampling  *)
(* loop of the FLPR (src/flpr/src/main.c), the data-ready interrupt and    *)
(* the sensor's driver (driver_asm330lhh.c), the pump that drains the ring *)
(* (src/src/imu/imu_pump.c) and the health monitor (src/src/app/app.c).    *)
(*                                                                         *)
(* The sensor raises its line with a new sample and holds it until the     *)
(* sample is read; the interrupt is on the rising edge. A line that stays  *)
(* high wakes nobody. Any bus transfer may fail.                           *)
(*                                                                         *)
(* The ring is a count here (module SampleRing has it), the configuration  *)
(* is on or off and changes at once (Session has its stores).              *)
(***************************************************************************)
EXTENDS Naturals

CONSTANTS
    RingN,          \* IMU_RING_N
    PollInterval,   \* CFG_POLL_INTERVAL, samples between looks at cfg_seq
    WarnEvery,      \* least seconds between two warnings
    MaxConfigs,     \* bound: changes of the demand
    MaxDrops        \* bound: samples the log drops

ASSUME SamplerAssumption ==
    /\ RingN \in Nat \ {0}
    /\ PollInterval \in Nat \ {0}
    /\ WarnEvery \in Nat \ {0}

VARIABLES
    (* the app core's demand and the shared block *)
    demand,                    \* session_imu_demand()
    magic, imu_ok,
    cfg, cfg_seq, cfg_applied, cfg_status,
    pending, overrun_news,     \* records in the ring; overrun # last_overrun
    (* the sensor *)
    running, routed,           \* sampling; data-ready routed to the line
    fresh,                     \* a sample not read yet: the line, if routed
    (* the FLPR *)
    fpc, resume,               \* where it is, and where a configuration returns to
    drdy_sem, since_cfg_poll,
    want, fseq,                \* what apply_config has read
    (* the health monitor *)
    announced, age,            \* age: seconds since last_warn, up to WarnEvery
    moved,                     \* drained # last_drained
    warned,                    \* the last round warned
    log_dropped, last_wdrop,
    (* history, read by no action of the code *)
    missed,                    \* an edge was lost since the last configuration
    lost, told,                \* samples the log has dropped, and those reported
    restarted                  \* a start discarded a count of drops

app     == <<demand, cfg, cfg_seq>>
shared  == <<magic, imu_ok, cfg_applied, cfg_status>>
ring    == <<pending, overrun_news>>
sensor  == <<running, routed, fresh>>
flpr    == <<fpc, resume, drdy_sem, since_cfg_poll, want, fseq>>
monitor == <<announced, age, warned, last_wdrop, told>>
logged  == <<log_dropped, lost, restarted>>
vars    == <<app, shared, ring, sensor, flpr, monitor, moved, logged, missed>>

-----------------------------------------------------------------------------
(* The sensor. A new sample makes an edge only where the line was low.     *)
Samples ==
    /\ running /\ ~fresh
    /\ fresh' = TRUE
    /\ drdy_sem' = (drdy_sem \/ routed)
    /\ UNCHANGED <<app, shared, ring, running, routed, fpc, resume,
                   since_cfg_poll, want, fseq, monitor, moved, logged, missed>>

-----------------------------------------------------------------------------
(* The FLPR's loop.                                                        *)

(* Boot, with the sensor off; one that does not answer parks the FLPR.     *)
Boots(ok) ==
    /\ fpc = "boot"
    /\ magic' = TRUE /\ imu_ok' = ok
    /\ cfg' = FALSE /\ cfg_seq' = 1 /\ cfg_applied' = 1
    /\ cfg_status' = IF ok THEN 0 ELSE 1
    /\ fpc' = IF ok THEN "wait" ELSE "parked"
    /\ UNCHANGED <<demand, ring, sensor, resume, drdy_sem,
                   since_cfg_poll, want, fseq, monitor, moved, logged, missed>>

Due == cfg_seq # cfg_applied

(* apply_config is entered and goes on at `back`, or goes on at once.      *)
Applies(back) ==
    IF Due THEN fpc' = "ctrl" /\ resume' = back /\ want' = cfg /\ fseq' = cfg_seq
           ELSE fpc' = back /\ UNCHANGED <<resume, want, fseq>>

(* Nothing for 100 ms: a pending configuration is applied.                 *)
WaitTimesOut ==
    /\ fpc = "wait" /\ ~drdy_sem /\ Due
    /\ Applies("wait")
    /\ UNCHANGED <<app, shared, ring, sensor, drdy_sem, since_cfg_poll,
                   monitor, moved, logged, missed>>

(* Mutant: after a look at the configuration the sample is not read.       *)
WaitTakes_SkipsRead ==
    /\ fpc = "wait" /\ drdy_sem
    /\ drdy_sem' = FALSE
    /\ since_cfg_poll' = (since_cfg_poll + 1) % PollInterval
    /\ IF since_cfg_poll' = 0 THEN Applies("wait")
       ELSE fpc' = "read" /\ UNCHANGED <<resume, want, fseq>>
    /\ UNCHANGED <<app, shared, ring, sensor, monitor, moved, logged, missed>>

(* A sample is ready; now and then the configuration is looked at first.   *)
WaitTakes ==
    /\ fpc = "wait" /\ drdy_sem
    /\ drdy_sem' = FALSE
    /\ since_cfg_poll' = (since_cfg_poll + 1) % PollInterval
    /\ IF since_cfg_poll' = 0 THEN Applies("read")
       ELSE fpc' = "read" /\ UNCHANGED <<resume, want, fseq>>
    /\ UNCHANGED <<app, shared, ring, sensor, monitor, moved, logged, missed>>

(* Mutant: a full ring is seen one record too late.                        *)
RingFull_Late == pending > RingN
RingFull == pending >= RingN

(* The sample is published, or counted as an overrun.                      *)
Reads ==
    /\ fpc = "read"
    /\ fpc' = "wait"
    /\ fresh' = FALSE
    /\ IF RingFull THEN overrun_news' = TRUE /\ UNCHANGED pending
                   ELSE pending' = pending + 1 /\ UNCHANGED overrun_news
    /\ UNCHANGED <<app, shared, running, routed, resume, drdy_sem,
                   since_cfg_poll, want, fseq, monitor, moved, logged, missed>>

(* The line stays as it is, and the loop goes on to wait for an edge.      *)
ReadFails ==
    /\ fpc = "read"
    /\ fpc' = "wait"
    /\ missed' = (missed \/ fresh)
    /\ UNCHANGED <<app, shared, ring, sensor, resume, drdy_sem,
                   since_cfg_poll, want, fseq, monitor, moved, logged>>

-----------------------------------------------------------------------------
(* drv_asm330lhh_configure: the control registers, the interrupt's route,  *)
(* a read that clears a latched sample, and the semaphore.                 *)

(* The second control register may fail with the first one written, the    *)
(* sensor then running or not.                                             *)
ConfigureFails ==
    /\ fpc \in {"ctrl", "int1"}
    /\ fpc' = "ack" /\ cfg_status' = 1
    /\ running' \in IF fpc = "ctrl" THEN {running, want} ELSE {running}
    /\ UNCHANGED <<app, magic, imu_ok, cfg_applied, ring, routed, fresh, resume,
                   drdy_sem, since_cfg_poll, want, fseq, monitor, moved,
                   logged, missed>>

SetsRate ==
    /\ fpc = "ctrl"
    /\ fpc' = "int1" /\ running' = want
    /\ UNCHANGED <<app, shared, ring, routed, fresh, resume, drdy_sem,
                   since_cfg_poll, want, fseq, monitor, moved, logged, missed>>

SetsRoute ==
    /\ fpc = "int1"
    /\ fpc' = "scratch" /\ routed' = want
    /\ drdy_sem' = (drdy_sem \/ (want /\ ~routed /\ fresh))
    /\ UNCHANGED <<app, shared, ring, running, fresh, resume, since_cfg_poll,
                   want, fseq, monitor, moved, logged, missed>>

(* Its result is ignored.                                                  *)
ScratchReads(ok) ==
    /\ fpc = "scratch"
    /\ fpc' = "reset" /\ fresh' = (fresh /\ ~ok)
    /\ UNCHANGED <<app, shared, ring, running, routed, resume, drdy_sem,
                   since_cfg_poll, want, fseq, monitor, moved, logged, missed>>

(* An edge since the scratch read is forgotten with the stale ones.        *)
ResetsSem ==
    /\ fpc = "reset"
    /\ fpc' = "ack" /\ drdy_sem' = FALSE /\ cfg_status' = 0
    /\ missed' = (fresh /\ routed)
    /\ UNCHANGED <<app, magic, imu_ok, cfg_applied, ring, sensor, resume,
                   since_cfg_poll, want, fseq, monitor, moved, logged>>

Acks ==
    /\ fpc = "ack"
    /\ fpc' = resume /\ cfg_applied' = fseq
    /\ resume' = "wait" /\ want' = FALSE /\ fseq' = 0
    /\ UNCHANGED <<app, magic, imu_ok, cfg_status, ring, sensor, drdy_sem,
                   since_cfg_poll, monitor, moved, logged, missed>>

-----------------------------------------------------------------------------
(* The app core.                                                           *)

PumpDrains ==
    /\ magic /\ imu_ok /\ pending > 0
    /\ pending' = 0 /\ moved' = TRUE
    /\ UNCHANGED <<app, shared, overrun_news, sensor, flpr, monitor, logged,
                   missed>>

(* session_imu_run_update: without an announced block nothing happens.     *)
Updates(on) ==
    IF magic THEN cfg' = on /\ cfg_seq' = cfg_seq + 1
             ELSE UNCHANGED <<cfg, cfg_seq>>

(* A stream or a session begins or ends, or its settings change.           *)
Demands(on) ==
    /\ cfg_seq < MaxConfigs
    /\ demand' = on
    /\ Updates(on)
    /\ UNCHANGED <<shared, ring, sensor, flpr, monitor, moved, logged, missed>>

(* The log's writer falls behind; a start of a session clears the count.   *)
LogDrops ==
    /\ demand /\ lost < MaxDrops
    /\ log_dropped' = log_dropped + 1 /\ lost' = lost + 1
    /\ UNCHANGED <<app, shared, ring, sensor, flpr, monitor, moved, restarted,
                   missed>>

LogStarts ==
    /\ log_dropped > 0
    /\ log_dropped' = 0 /\ restarted' = TRUE
    /\ UNCHANGED <<app, shared, ring, sensor, flpr, monitor, moved, lost,
                   missed>>

(* Mutant: the total is reported for the news.                             *)
News_Total == IF log_dropped > last_wdrop THEN log_dropped ELSE 0
News == IF log_dropped > last_wdrop THEN log_dropped - last_wdrop ELSE 0

(* Mutant: a sensor that is dead is reported once, at boot.                *)
Cause_Once == IF ~magic THEN TRUE ELSE imu_ok /\ ~moved /\ demand
Cause == ~magic \/ ~imu_ok \/ (~moved /\ demand)

(* A round of app_run's loop, every second.                                *)
MonitorLooks ==
    /\ announced' = magic
    /\ IF magic /\ ~announced THEN Updates(demand) ELSE UNCHANGED <<cfg, cfg_seq>>
    /\ overrun_news' = FALSE
    /\ told' = told + News /\ last_wdrop' = log_dropped
    /\ warned' = (age + 1 >= WarnEvery /\ Cause)
    /\ age' = IF warned' THEN 0 ELSE IF age < WarnEvery THEN age + 1 ELSE age
    /\ moved' = FALSE
    /\ UNCHANGED <<demand, shared, pending, sensor, flpr, logged, missed>>

-----------------------------------------------------------------------------
Init ==
    /\ demand = FALSE /\ magic = FALSE /\ imu_ok = FALSE
    /\ cfg = FALSE /\ cfg_seq = 0 /\ cfg_applied = 0 /\ cfg_status = 0
    /\ pending = 0 /\ overrun_news = FALSE
    /\ running = FALSE /\ routed = FALSE /\ fresh = FALSE
    /\ fpc = "boot" /\ resume = "wait" /\ drdy_sem = FALSE
    /\ since_cfg_poll = 0 /\ want = FALSE /\ fseq = 0
    /\ announced = FALSE /\ age = 0 /\ moved = FALSE /\ warned = FALSE
    /\ log_dropped = 0 /\ last_wdrop = 0
    /\ missed = FALSE /\ lost = 0 /\ told = 0 /\ restarted = FALSE

Configure == \/ ConfigureFails \/ SetsRate \/ SetsRoute
             \/ \E ok \in BOOLEAN : ScratchReads(ok)
             \/ ResetsSem \/ Acks
Flpr == \/ \E ok \in BOOLEAN : Boots(ok)
        \/ WaitTimesOut \/ WaitTakes \/ Reads \/ ReadFails \/ Configure
App  == \/ \E on \in BOOLEAN : Demands(on)
        \/ LogDrops \/ LogStarts

Next == Samples \/ Flpr \/ PumpDrains \/ MonitorLooks \/ App

Spec == Init /\ [][Next]_vars

(* The cores run, the sensor samples, the monitor wakes from a timed sleep. *)
FairSpec == /\ Spec
            /\ WF_vars(Samples) /\ WF_vars(Flpr)
            /\ WF_vars(PumpDrains) /\ WF_vars(MonitorLooks)

-----------------------------------------------------------------------------
(* Correctness.                                                            *)

(* Type correctness.                                                       *)
TypeOK ==
    /\ {demand, magic, imu_ok, cfg, overrun_news, running, routed, fresh,
        drdy_sem, want, announced, moved, warned, missed, restarted}
           \subseteq BOOLEAN
    /\ cfg_seq \in Nat /\ cfg_applied \in Nat /\ fseq \in Nat
    /\ cfg_status \in {0, 1}
    /\ pending \in 0 .. RingN
    /\ fpc \in {"boot", "parked", "wait", "read", "ctrl", "int1", "scratch",
                "reset", "ack"}
    /\ resume \in {"wait", "read"}
    /\ since_cfg_poll \in 0 .. PollInterval - 1
    /\ age \in 0 .. WarnEvery
    /\ log_dropped \in Nat /\ last_wdrop \in Nat /\ lost \in Nat /\ told \in Nat

(* Whoever wants data gets it again and again, whenever the demand came    *)
(* and however often it changed, unless the sensor is dead or could not be *)
(* configured, or an edge was lost: by a read that failed, or in the       *)
(* window between the scratch read and the reset of the semaphore. Then    *)
(* the line stays high, and nothing happens until the next configuration   *)
(* (driver_asm330lhh.c: "so the next edge fires").                         *)
SamplesFlow ==
    []<>(~demand \/ moved \/ missed \/ cfg_status # 0 \/ (magic /\ ~imu_ok))

(* Without exception: whoever wants data again and again gets it, or the   *)
(* host is told that there is none ("IMU pipeline problems become BLE      *)
(* messages", app.c).                                                      *)
NeverSilentlyStarved == []<>(~demand \/ moved \/ warned)

(* The drops reported are drops that happened, and until a start discards  *)
(* a count, all of them but the newest.                                    *)
LossesTold ==
    /\ told <= lost
    /\ ~restarted => lost - told = log_dropped - last_wdrop
=============================================================================
