------------------------------ MODULE Session ------------------------------
(***************************************************************************)
(* Who runs the sensor, and for how long: the GATT handlers and connection *)
(* callbacks (src/src/ble/ble_interface.c), the command queue              *)
(* (src/src/app/device_cmd.c), the session policy and sampling arbiter     *)
(* (src/src/app/session.c), and the configuration handshake with the FLPR  *)
(* through shared SRAM (src/flpr/src/main.c).  Of the log                  *)
(* (src/src/imu/imu_log.c) it keeps log_lock, `active` and                 *)
(* `session_detached`; module ImuLog has the rest.                         *)
(*                                                                         *)
(* Three threads of the app core: "rx", cooperative, runs handlers and     *)
(* callbacks; "main" announces the FLPR once; "cmd" executes the queue.    *)
(* One that is updating the configuration does not block, so only a thread *)
(* that outranks it can come in between; the FLPR is another core and may  *)
(* read between any two stores.                                            *)
(***************************************************************************)
EXTENDS Naturals, Sequences

CONSTANTS
    Configs,        \* the sampling settings a host may choose
    QueueDepth,     \* CMD_QUEUE_DEPTH
    HostCommands,   \* the commands the host sends
    MayFail,        \* whether a start or a sensor configuration may fail
    MaxWrites,      \* bound: characteristics the host writes
    MaxLinks        \* bound: connections

Commands == {"stop", "start", "detached", "erase", "volt"}

ASSUME SessionAssumption ==
    /\ Configs # {} /\ 0 \notin Configs
    /\ QueueDepth \in Nat \ {0}
    /\ HostCommands \subseteq Commands
    /\ MayFail \in BOOLEAN

VARIABLES
    connected,           \* cur_conn is set
    queue,               \* cmd_msgq
    pc, op,              \* where each thread is, and what "cmd" executes
    content, seqread,    \* session_imu_run_update's locals, by thread
    stream_active, setting, announced,
    (* of the log *)
    lock, active, session_detached,
    (* the shared block *)
    magic, cfg, cfg_seq, cfg_applied, cfg_status,
    (* the FLPR *)
    fpc, fseq, fgot,     \* fgot is what apply_config has read so far
    sensor,
    (* history, read by no action of the code *)
    kind,                \* the command that started the last session
    overlapped,          \* a disconnect came with a command pending
    overtaken,           \* threads in an update during which another ended
    outdated,            \* why the block may not hold the demand: "no",
                         \* "overtaken" or "erased"
    collided,            \* an increment of cfg_seq was lost
    writes, links        \* by the host so far

link    == <<connected, queue, writes, links>>
threads == <<pc, op>>
locals  == <<content, seqread>>
wishes  == <<stream_active, setting, announced>>
log     == <<lock, active, session_detached, kind>>
ack     == <<cfg_applied, cfg_status>>
block   == <<magic, cfg, cfg_seq, ack>>
flpr    == <<fpc, fseq, fgot, sensor>>
history == <<overlapped, overtaken, outdated, collided>>
vars    == <<link, threads, locals, wishes, log, block, flpr, history>>

-----------------------------------------------------------------------------
Threads  == {"rx", "main", "cmd"}
Updating == {"demand", "odr", "content", "load", "store"}
Starts   == {"start", "detached"}
Fields   == {"odr", "content"}

Busy(t) == pc[t] \in Updating

(* It has read the demand, and has stored or will store what follows.      *)
Between(t) == pc[t] \in Updating \ {"demand"}

(* No thread that outranks t is running.                                   *)
CanRun(t) == CASE t = "rx"   -> TRUE
               [] t = "main" -> ~Busy("rx")
               [] t = "cmd"  -> ~Busy("rx") /\ ~Busy("main")

Goto(t, step) == /\ pc' = [pc EXCEPT ![t] = step]
                 /\ op' = IF t = "cmd" /\ step = "idle" THEN "none" ELSE op

(* Programmed with a content of 0 the sensor is off, whatever the rate.    *)
Off == [odr |-> 0, content |-> 0]
Programmed(o, c) == IF c = 0 THEN Off ELSE [odr |-> o, content |-> c]
Mixed == [odr |-> 0, content |-> 1]    \* a configuration that failed halfway

(* session_imu_demand, and the configuration it calls for.                 *)
Demand == stream_active \/ active
Wanted == IF Demand THEN setting ELSE 0

-----------------------------------------------------------------------------
(* session_imu_run_update, by any thread.                                  *)

(* The demand is read; without an announced block there is nothing to do.  *)
UpdateReadsDemand(t) ==
    /\ pc[t] = "demand" /\ CanRun(t)
    /\ Goto(t, IF magic THEN "odr" ELSE "idle")
    /\ content' = [content EXCEPT ![t] = IF magic THEN Wanted ELSE 0]
    /\ UNCHANGED <<link, seqread, wishes, log, block, flpr, history>>

UpdateStoresOdr(t) ==
    /\ pc[t] = "odr" /\ CanRun(t)
    /\ Goto(t, "content")
    /\ cfg' = [cfg EXCEPT !.odr = setting]
    /\ UNCHANGED <<link, locals, wishes, log, magic, cfg_seq, ack, flpr,
                   history>>

UpdateStoresContent(t) ==
    /\ pc[t] = "content" /\ CanRun(t)
    /\ Goto(t, "load")
    /\ cfg' = [cfg EXCEPT !.content = content[t]]
    /\ UNCHANGED <<link, locals, wishes, log, magic, cfg_seq, ack, flpr,
                   history>>

(* `cfg_seq = cfg_seq + 1` is a load and a store.                          *)
UpdateLoadsSeq(t) ==
    /\ pc[t] = "load" /\ CanRun(t)
    /\ Goto(t, "store")
    /\ seqread' = [seqread EXCEPT ![t] = cfg_seq]
    /\ UNCHANGED <<link, content, wishes, log, block, flpr, history>>

UpdateStoresSeq(t) ==
    /\ pc[t] = "store" /\ CanRun(t)
    /\ Goto(t, "idle")
    /\ cfg_seq' = seqread[t] + 1
    /\ collided' = (collided \/ cfg_seq # seqread[t])
    /\ overtaken' = (overtaken \ {t}) \union {s \in Threads \ {t} : Between(s)}
    /\ outdated' = IF t \in overtaken /\ (cfg.content # Wanted \/ cfg.odr # setting)
                     THEN "overtaken" ELSE "no"
    /\ content' = [content EXCEPT ![t] = 0]
    /\ seqread' = [seqread EXCEPT ![t] = 0]
    /\ UNCHANGED <<link, wishes, log, magic, cfg, ack, flpr, overlapped>>

Update(t) == \/ UpdateReadsDemand(t) \/ UpdateStoresOdr(t)
             \/ UpdateStoresContent(t) \/ UpdateLoadsSeq(t)
             \/ UpdateStoresSeq(t)

(* The health monitor sees the FLPR for the first time.                    *)
MainAnnounces ==
    /\ magic /\ ~announced /\ CanRun("main")
    /\ announced' = TRUE
    /\ Goto("main", "demand")
    /\ UNCHANGED <<link, locals, stream_active, setting, log, block, flpr,
                   history>>

-----------------------------------------------------------------------------
(* The host, and the handlers it reaches.                                  *)

Writes == /\ writes < MaxWrites
          /\ writes' = writes + 1
          /\ UNCHANGED links

(* Advertising is restarted after the disconnect handler.                  *)
Connects ==
    /\ ~connected /\ pc["rx"] = "idle" /\ links < MaxLinks
    /\ connected' = TRUE /\ links' = links + 1
    /\ UNCHANGED <<queue, writes, threads, locals, wishes, log, block, flpr, history>>

(* stream_ccc_changed.                                                     *)
Subscribes(on) ==
    /\ Writes
    /\ connected /\ pc["rx"] = "idle"
    /\ stream_active' = on
    /\ Goto("rx", "demand")
    /\ UNCHANGED <<connected, queue, locals, setting, announced, log,
                   block, flpr, history>>

(* on_imucfg_write: refused until the FLPR is up.                          *)
Configures(c) ==
    /\ Writes
    /\ connected /\ pc["rx"] = "idle" /\ magic
    /\ setting' = c
    /\ Goto("rx", "demand")
    /\ UNCHANGED <<connected, queue, locals, stream_active, announced, log,
                   block, flpr, history>>

(* Mutant: one command too many is let in.                                 *)
QueueFull_Late == Len(queue) > QueueDepth
QueueFull == Len(queue) >= QueueDepth

(* on_logctl_write and on_volt_write: a start is refused while a session   *)
(* runs, anything while the queue is full.                                 *)
Submits(o) ==
    /\ Writes
    /\ connected /\ pc["rx"] = "idle"
    /\ ~(o \in Starts /\ active) /\ ~QueueFull
    /\ queue' = Append(queue, o)
    /\ UNCHANGED <<connected, threads, locals, wishes, log, block, flpr,
                   history>>

(* Mutant: a detached session is stopped as well.                          *)
DisconnectStops_Detached == active
DisconnectStops == active /\ ~session_detached

(* disconnected and session_on_disconnect, up to where they first block.   *)
Disconnects ==
    /\ connected /\ pc["rx"] = "idle"
    /\ connected' = FALSE
    /\ stream_active' = FALSE
    /\ Goto("rx", IF DisconnectStops THEN "flush" ELSE "demand")
    /\ overlapped' = (overlapped \/ queue # <<>> \/ pc["cmd"] # "idle")
    /\ UNCHANGED <<queue, writes, links, locals, setting, announced, log, block,
                   flpr, overtaken, outdated, collided>>

-----------------------------------------------------------------------------
(* imu_log_stop, by "cmd" or "rx", past its first check of `active`; it    *)
(* has then to wait for the flush and for log_lock.                        *)

(* Mutant: the log is stopped and nobody re-arbitrates.                    *)
AfterStop_NoUpdate(t) ==
    /\ Goto(t, IF t = "cmd" /\ op = "erase" THEN "erase"
               ELSE IF t = "cmd" THEN "idle" ELSE "demand")

(* An erase goes on to wipe; the others update the configuration.          *)
AfterStop(t) == Goto(t, IF t = "cmd" /\ op = "erase" THEN "erase" ELSE "demand")

(* Mutant: the flag outlives its session.                                  *)
StopDeactivates_KeepsFlag(t) ==
    /\ pc[t] = "flush" /\ CanRun(t) /\ lock = "free" /\ active
    /\ lock' = t
    /\ active' = FALSE
    /\ outdated' = IF t = "cmd" /\ op = "erase" THEN "erased" ELSE outdated
    /\ Goto(t, "close")
    /\ UNCHANGED <<link, locals, wishes, session_detached, kind, block,
                   flpr, overlapped, overtaken, collided>>

StopDeactivates(t) ==
    /\ pc[t] = "flush" /\ CanRun(t) /\ lock = "free" /\ active
    /\ lock' = t
    /\ active' = FALSE /\ session_detached' = FALSE
    /\ outdated' = IF t = "cmd" /\ op = "erase" THEN "erased" ELSE outdated
    /\ Goto(t, "close")
    /\ UNCHANGED <<link, locals, wishes, kind, block, flpr, overlapped,
                   overtaken, collided>>

StopFindsInactive(t) ==
    /\ pc[t] = "flush" /\ CanRun(t) /\ lock = "free" /\ ~active
    /\ AfterStop(t)
    /\ UNCHANGED <<link, locals, wishes, log, block, flpr, history>>

StopCloses(t) ==
    /\ pc[t] = "close" /\ CanRun(t)
    /\ lock' = "free"
    /\ AfterStop(t)
    /\ UNCHANGED <<link, locals, wishes, active, session_detached, kind,
                   block, flpr, history>>

-----------------------------------------------------------------------------
(* cmd_thread: one command after the other.                                *)

(* A stop or an erase finds `active` set or not before anything else.      *)
CmdTakes ==
    /\ pc["cmd"] = "idle" /\ CanRun("cmd") /\ queue # <<>>
    /\ op' = Head(queue)
    /\ queue' = Tail(queue)
    /\ pc' = [pc EXCEPT !["cmd"] =
                  IF op' \in {"stop", "erase"} /\ active THEN "flush"
                  ELSE IF op' = "stop" THEN "demand" ELSE op']
    /\ UNCHANGED <<connected, writes, links, locals, wishes, log, block, flpr, history>>

(* The digipot's ramp and the settling of the rail.                        *)
VoltSet ==
    /\ pc["cmd"] = "volt" /\ CanRun("cmd")
    /\ Goto("cmd", "idle")
    /\ UNCHANGED <<link, locals, wishes, log, block, flpr, history>>

StartBusy ==
    /\ pc["cmd"] \in Starts /\ CanRun("cmd") /\ lock = "free" /\ active
    /\ Goto("cmd", "idle")
    /\ UNCHANGED <<link, locals, wishes, log, block, flpr, history>>

(* imu_log_start holds log_lock over its flash write.                      *)
StartLocks ==
    /\ pc["cmd"] \in Starts /\ CanRun("cmd") /\ lock = "free" /\ ~active
    /\ lock' = "cmd"
    /\ Goto("cmd", "entry")
    /\ UNCHANGED <<link, locals, wishes, active, session_detached, kind,
                   block, flpr, history>>

StartRuns ==
    /\ pc["cmd"] = "entry" /\ CanRun("cmd")
    /\ lock' = "free" /\ active' = TRUE /\ kind' = op
    /\ Goto("cmd", IF op = "detached" THEN "mark" ELSE "demand")
    /\ UNCHANGED <<link, locals, wishes, session_detached, block, flpr,
                   history>>

StartFails ==
    /\ MayFail
    /\ pc["cmd"] = "entry" /\ CanRun("cmd")
    /\ lock' = "free"
    /\ Goto("cmd", "idle")
    /\ UNCHANGED <<link, locals, wishes, active, session_detached, kind,
                   block, flpr, history>>

MarkDetached ==
    /\ pc["cmd"] = "mark" /\ CanRun("cmd")
    /\ session_detached' = TRUE
    /\ Goto("cmd", "demand")
    /\ UNCHANGED <<link, locals, wishes, lock, active, kind, block, flpr,
                   history>>

(* imu_log_erase after its stop: the directory is wiped under log_lock.    *)
Erases ==
    /\ pc["cmd"] = "erase" /\ CanRun("cmd") /\ lock = "free"
    /\ Goto("cmd", "idle")
    /\ UNCHANGED <<link, locals, wishes, log, block, flpr, history>>

-----------------------------------------------------------------------------
(* The FLPR: boot with the sensor off, then apply_config between samples.  *)

(* A sensor that cannot be configured leaves the FLPR parked.              *)
FlprAnnounces(ok) ==
    /\ fpc = "boot"
    /\ ok \/ MayFail
    /\ fpc' = IF ok THEN "poll" ELSE "parked"
    /\ magic' = TRUE
    /\ cfg' = Off /\ cfg_seq' = 1 /\ cfg_applied' = 1
    /\ cfg_status' = IF ok THEN 0 ELSE 1
    /\ UNCHANGED <<link, threads, locals, wishes, log, fseq, fgot,
                   sensor, history>>

FlprSeesConfig ==
    /\ fpc = "poll" /\ cfg_seq # cfg_applied
    /\ fpc' = "read" /\ fseq' = cfg_seq
    /\ UNCHANGED <<link, threads, locals, wishes, log, block, fgot, sensor,
                   history>>

(* The arguments of drv_asm330lhh_configure, in either order.              *)
FlprReads(f) ==
    /\ fpc = "read" /\ f \notin DOMAIN fgot
    /\ fgot' = [g \in DOMAIN fgot \union {f} |-> IF g = f THEN cfg[f] ELSE fgot[g]]
    /\ UNCHANGED <<link, threads, locals, wishes, log, block, fpc, fseq,
                   sensor, history>>

(* drv_asm330lhh_configure writes three registers; the second or third may *)
(* fail and leave the sensor between two configurations.                   *)
FlprConfigures(ok) ==
    /\ fpc = "read" /\ DOMAIN fgot = Fields
    /\ ok \/ MayFail
    /\ fpc' = "ack"
    /\ sensor' = IF ok THEN Programmed(fgot.odr, fgot.content) ELSE Mixed
    /\ cfg_status' = IF ok THEN 0 ELSE 1
    /\ fgot' = <<>>
    /\ UNCHANGED <<link, threads, locals, wishes, log, magic, cfg, cfg_seq,
                   cfg_applied, fseq, history>>

(* Mutant: what is acknowledged is what cfg_seq is by now.                 *)
FlprAcks_Latest ==
    /\ fpc = "ack"
    /\ fpc' = "poll" /\ cfg_applied' = cfg_seq /\ fseq' = 0
    /\ UNCHANGED <<link, threads, locals, wishes, log, magic, cfg, cfg_seq,
                   cfg_status, fgot, sensor, history>>

FlprAcks ==
    /\ fpc = "ack"
    /\ fpc' = "poll" /\ cfg_applied' = fseq /\ fseq' = 0
    /\ UNCHANGED <<link, threads, locals, wishes, log, magic, cfg, cfg_seq,
                   cfg_status, fgot, sensor, history>>

-----------------------------------------------------------------------------
Init ==
    /\ connected = FALSE /\ queue = <<>> /\ writes = 0 /\ links = 0
    /\ pc = [t \in Threads |-> "idle"] /\ op = "none"
    /\ content = [t \in Threads |-> 0] /\ seqread = [t \in Threads |-> 0]
    /\ stream_active = FALSE /\ setting \in Configs /\ announced = FALSE
    /\ lock = "free" /\ active = FALSE /\ session_detached = FALSE
    /\ kind = "none"
    /\ magic = FALSE /\ cfg = Off /\ cfg_seq = 0 /\ cfg_applied = 0
    /\ cfg_status = 0
    /\ fpc = "boot" /\ fseq = 0 /\ fgot = <<>> /\ sensor = Off
    /\ overlapped = FALSE /\ overtaken = {} /\ outdated = "no" /\ collided = FALSE

Host == \/ Connects
        \/ \E on \in BOOLEAN : Subscribes(on)
        \/ \E c \in Configs : Configures(c)
        \/ \E o \in HostCommands : Submits(o)
Stop(t) == StopDeactivates(t) \/ StopFindsInactive(t) \/ StopCloses(t)
Rx   == Update("rx") \/ Stop("rx")
Main == MainAnnounces \/ Update("main")
Cmd  == \/ CmdTakes \/ VoltSet \/ StartBusy \/ StartLocks \/ StartRuns
        \/ StartFails \/ MarkDetached \/ Erases
        \/ Update("cmd") \/ Stop("cmd")
Flpr == \/ FlprSeesConfig \/ FlprAcks
        \/ \E f \in Fields : FlprReads(f)
        \/ \E ok \in BOOLEAN : FlprAnnounces(ok) \/ FlprConfigures(ok)

Next == Host \/ Disconnects \/ Rx \/ Main \/ Cmd \/ Flpr

Spec == Init /\ [][Next]_vars

-----------------------------------------------------------------------------
(* Correctness.                                                            *)

(* Type correctness; the queue never holds more than CMD_QUEUE_DEPTH.      *)
TypeOK ==
    /\ connected \in BOOLEAN /\ writes \in Nat /\ links \in Nat
    /\ queue \in Seq(Commands) /\ Len(queue) <= QueueDepth
    /\ pc \in [Threads -> Updating \union Commands
                             \union {"idle", "flush", "close", "entry", "mark"}]
    /\ op \in Commands \union {"none"}
    /\ content \in [Threads -> Configs \union {0}] /\ seqread \in [Threads -> Nat]
    /\ stream_active \in BOOLEAN /\ setting \in Configs /\ announced \in BOOLEAN
    /\ lock \in {"free"} \union Threads
    /\ active \in BOOLEAN /\ session_detached \in BOOLEAN
    /\ kind \in Starts \union {"none"}
    /\ magic \in BOOLEAN
    /\ cfg \in [odr : Configs \union {0}, content : Configs \union {0}]
    /\ cfg_seq \in Nat /\ cfg_applied \in Nat /\ cfg_status \in {0, 1}
    /\ fpc \in {"boot", "parked", "poll", "read", "ack"} /\ fseq \in Nat
    /\ overlapped \in BOOLEAN /\ collided \in BOOLEAN
    /\ overtaken \subseteq Threads /\ outdated \in {"no", "overtaken", "erased"}

(* Nobody is changing the shared block and the FLPR has nothing to apply.  *)
Agreed == /\ fpc = "poll" /\ cfg_applied = cfg_seq
          /\ \A t \in Threads : ~Busy(t)

(* When cfg_applied = cfg_seq the sensor has the configuration of the      *)
(* block and no mixture of two ("re-programs the sensor, then echoes the   *)
(* seq"), although the FLPR reads while the app writes.  The exception is  *)
(* an increment that was lost to a preemption between load and store.      *)
AppliedIsCurrent ==
    Agreed /\ cfg_status = 0 /\ ~collided
        => sensor = Programmed(cfg.odr, cfg.content)

(* Everything submitted is executed, and the block agreed on.              *)
AtRest == /\ magic /\ announced /\ Agreed /\ queue = <<>>
          /\ \A t \in Threads : pc[t] = "idle"

(* At rest the sensor runs with the settings of the host if a session or a *)
(* stream needs it, and is off otherwise, since whoever changes what is    *)
(* demanded updates the block later, in whatever order the threads come.   *)
(* The code has two ways to miss it, until its next update: an erase of a  *)
(* running session, and an update during which that of another thread ran  *)
(* from start to end, so that it stores an older demand over a newer one.  *)
SensorFollowsUpdates ==
    AtRest /\ cfg_status = 0 /\ outdated = "no" /\ ~collided
        => sensor = Programmed(setting, Wanted)

(* Once a disconnect is handled, only a detached session is running ("from *)
(* start until stop (BLE) or BLE disconnect", imu_log.h).                  *)
SessionEndsWithLink ==
    ~connected /\ pc["rx"] = "idle" /\ active => kind = "detached"

(* The same, where no disconnect came with a command queued or in progress *)
(* since boot.                                                             *)
SettledSessionEndsWithLink == ~overlapped => SessionEndsWithLink

(* A detached session ends by a command only ("survive BLE disconnect and  *)
(* keep logging untethered until an explicit stop", imu_log.h), where no   *)
(* disconnect came with a command queued or in progress.                   *)
DetachedSurvives ==
    [][active /\ ~active' /\ kind = "detached" /\ ~overlapped
         => lock' = "cmd" /\ op \in {"stop", "erase"}]_vars
=============================================================================
