------------------------------- MODULE Pacing ------------------------------
(***************************************************************************)
(* How much the link is asked to carry: the preview's decimation and its   *)
(* adaptation to drops (src/src/ble/ble_transport.c), and the connection   *)
(* interval (ble_conn_request_params in ble_interface.c), as the session   *)
(* policy (src/src/app/session.c) sets them when a log starts or ends, a   *)
(* host subscribes, configures, connects or leaves, and the health monitor *)
(* (src/src/app/app.c) sees the FLPR for the first time.                   *)
(*                                                                         *)
(* The RX thread outranks the main thread, that the pump, which runs the   *)
(* adaptation, and that the command thread, which executes starts and      *)
(* stops; all write the same variables without a lock. Of the command      *)
(* queue one command is kept.                                              *)
(***************************************************************************)
EXTENDS Naturals

CONSTANTS
    Settings,       \* rate and preview cap a host may set, in Hz
    DefaultHz,      \* the rate the FLPR boots with
    DropLimit,      \* 10, drops in a window that a stream may have
    MaxShift,       \* 4, halvings of the preview
    CalmStep,       \* 5, quiet windows before a probe, and the step of it
    CalmMax,        \* 30
    ProbeMemory,    \* 10, windows for which a probe is remembered
    DropMod,        \* 2^32, where stream_dropped wraps
    MaxBurst        \* bound: drops in a window

ASSUME PacingAssumption ==
    /\ Settings # {} /\ Settings \subseteq [hz : Nat, preview : Nat]
    /\ DefaultHz \in Nat /\ DropLimit \in Nat /\ MaxShift \in Nat /\ ProbeMemory \in Nat
    /\ CalmStep \in Nat \ {0} /\ CalmMax \in Nat \ {0}
    /\ DropMod \in Nat /\ MaxBurst \in Nat /\ MaxBurst < DropMod

VARIABLES
    (* the link and the session *)
    connected, slow,       \* slow: the link was last asked for the wide interval
    active, detached, streaming, setting,
    (* the preview *)
    odr, cap,              \* the rate of the shared block's cfg_odr, and
                           \* stream_preview_hz
    decim,                 \* stream_decim
    learn,                 \* stream_adapt, adapt_calm, adapt_calm_need, and
                           \* the windows since adapt_last_probe
    stream_dropped, adapt_last_dropped,
    (* threads *)
    tick,                  \* what the pump's tick has read and will store
    rx,                    \* "idle", or where a disconnect's handler is
    cmd, pc, local,        \* command, its step, and the decimation computed
    alive,                 \* the FLPR has put its magic word into the block
    mon, held,             \* the monitor's first look at it, its step, and
                           \* what it has read or computed
    (* history, read by no action of the code *)
    overtaken,             \* threads about to store what a change of another
                           \* thread has overtaken
    outdated,              \* "cap" and "decim", if one of them may be such
    ended,                 \* a disconnect ended the session being started
    misfit,                \* the interval may be the other one
    burst, rearmed         \* drops since the last tick or subscription; a reset
                           \* of stream_dropped alone since the last tick

link    == <<connected, slow, ended, misfit>>
session == <<active, detached, streaming, setting>>
sizes   == <<odr, cap, decim, overtaken, outdated>>
drops   == <<stream_dropped, adapt_last_dropped, burst, rearmed>>
thread  == <<cmd, pc, local>>
boot    == <<alive, mon, held>>
vars    == <<link, session, sizes, learn, drops, tick, rx, thread, boot>>

-----------------------------------------------------------------------------
(* The budget in samples per second, and the decimation that keeps it.     *)
Budget(logging, limit) ==
    LET most == IF logging THEN 500 ELSE 1300
    IN  IF limit # 0 /\ limit < most THEN limit ELSE most

(* Mutant: what does not fit a byte is not capped.                         *)
DecimFor_Uncapped(hz, limit, logging) ==
    LET target == Budget(logging, limit) IN (hz + target - 1) \div target

DecimFor(hz, limit, logging) ==
    LET target == Budget(logging, limit)
        d == (hz + target - 1) \div target
    IN  IF d > 255 THEN 255 ELSE IF d < 1 THEN 1 ELSE d

(* No adaptation; the last probe is long ago.                              *)
Fresh == [shift |-> 0, calm |-> 0, need |-> CalmStep, since |-> ProbeMemory]

(* The end of ble_transport_stream_update_decim.                           *)
UpdatesDecim(d) == decim' = d /\ learn' = Fresh

NoTick == [old |-> Fresh, new |-> Fresh, due |-> FALSE]

(* A thread that stores what it has read or computed before, and who those *)
(* are when something they have read changes.                              *)
Between(t) == IF t = "cmd" THEN pc = "store" ELSE mon \in {"cap", "store"}
Overtakes  == overtaken' = {t \in {"cmd", "main"} : Between(t)}

(* What a thread stores last is marked if it was overtaken.                *)
Marks(t, what) ==
    /\ outdated' = IF t \in overtaken THEN outdated \union {what} ELSE outdated \ {what}
    /\ overtaken' = overtaken \ {t}

-----------------------------------------------------------------------------
(* The RX thread. Nothing interrupts its handlers.                         *)

(* session_imu_run_update; without the FLPR it returns at once.            *)
HandlerUpdates(s, limit, logging) ==
    IF alive THEN /\ odr' = s.hz /\ UpdatesDecim(DecimFor(s.hz, limit, logging))
                  /\ outdated' = outdated \ {"decim"}
    ELSE UNCHANGED <<odr, decim, learn, outdated>>

(* `connected` asks for a fast link, whatever is running.                  *)
Connects ==
    /\ ~connected /\ rx = "idle"
    /\ connected' = TRUE /\ slow' = FALSE
    /\ misfit' = active
    /\ UNCHANGED <<ended, session, sizes, learn, drops, tick, rx, thread, boot>>

(* ble_transport_stream_enable, which updates the decimation, then         *)
(* session_set_stream_active.                                              *)
Subscribes ==
    /\ connected /\ rx = "idle"
    /\ streaming' = TRUE
    /\ stream_dropped' = 0
    /\ rearmed' = (rearmed \/ adapt_last_dropped # 0) /\ burst' = 0
    /\ LET hz == IF alive THEN setting.hz ELSE odr
       IN  odr' = hz /\ UpdatesDecim(DecimFor(hz, cap, active))
    /\ outdated' = outdated \ {"decim"}
    /\ UNCHANGED <<link, active, detached, setting, cap, overtaken,
                   adapt_last_dropped, tick, rx, thread, boot>>

Unsubscribes ==
    /\ connected /\ rx = "idle"
    /\ streaming' = FALSE
    /\ HandlerUpdates(setting, cap, active)
    /\ UNCHANGED <<link, active, detached, setting, cap, overtaken, drops, tick,
                   rx, thread, boot>>

(* on_imucfg_write: refused until the FLPR is up.                          *)
Configures(s) ==
    /\ connected /\ rx = "idle" /\ alive
    /\ setting' = s /\ cap' = s.preview
    /\ odr' = s.hz /\ UpdatesDecim(DecimFor(s.hz, s.preview, active))
    /\ outdated' = {} /\ Overtakes
    /\ UNCHANGED <<link, active, detached, streaming, drops, tick, rx, thread,
                   boot>>

(* The link goes, and the interval with it. An attached session is         *)
(* stopped, which blocks; otherwise the update follows at once.            *)
Disconnects ==
    /\ connected /\ rx = "idle"
    /\ connected' = FALSE /\ slow' = FALSE /\ misfit' = FALSE
    /\ streaming' = FALSE
    /\ IF active /\ ~detached
         THEN rx' = "stop" /\ UNCHANGED <<odr, decim, learn, outdated>>
         ELSE rx' = rx /\ HandlerUpdates(setting, cap, active)
    /\ UNCHANGED <<ended, active, detached, setting, cap, overtaken, drops, tick,
                   thread, boot>>

(* Mutant: the update comes before the stop.                               *)
DisconnectStops_Last ==
    /\ rx = "stop"
    /\ active' = FALSE /\ detached' = FALSE
    /\ ended' = (ended \/ (active /\ pc = "interval"))
    /\ HandlerUpdates(setting, cap, active)
    /\ rx' = "idle"
    /\ UNCHANGED <<connected, slow, misfit, streaming, setting, cap, overtaken,
                   drops, tick, thread, boot>>

(* imu_log_stop ends the session, whichever runs by then, and writes the   *)
(* directory with the lock held.                                           *)
DisconnectStops ==
    /\ rx = "stop"
    /\ active' = FALSE /\ detached' = FALSE
    /\ ended' = (ended \/ (active /\ pc = "interval"))
    /\ rx' = "update"
    /\ UNCHANGED <<connected, slow, misfit, streaming, setting, sizes, learn, drops,
                   tick, thread, boot>>

DisconnectUpdates ==
    /\ rx = "update"
    /\ HandlerUpdates(setting, cap, active) /\ Overtakes
    /\ rx' = "idle"
    /\ UNCHANGED <<link, session, cap, drops, tick, thread, boot>>

Submits(c) ==
    /\ connected /\ rx = "idle" /\ cmd = "none"
    /\ cmd' = c
    /\ UNCHANGED <<link, session, sizes, learn, drops, tick, rx, pc, local, boot>>

-----------------------------------------------------------------------------
(* The health monitor of the main thread, once, when it sees the FLPR.     *)

Announcing == mon \in {"cap", "compute", "store"}

FlprBoots ==
    /\ ~alive
    /\ alive' = TRUE /\ odr' = DefaultHz
    /\ UNCHANGED <<link, session, cap, decim, overtaken, outdated, learn, drops,
                   tick, rx, thread, mon, held>>

(* The saved cap is read ...                                               *)
MonitorAnnounces ==
    /\ mon = "boot" /\ alive
    /\ mon' = "cap" /\ held' = setting.preview
    /\ UNCHANGED <<link, session, sizes, learn, drops, tick, rx, thread, alive>>

(* ... and stored, with an update of the decimation, which the next        *)
(* replaces.                                                               *)
MonitorCaps ==
    /\ mon = "cap"
    /\ cap' = held
    /\ UpdatesDecim(DecimFor(odr, held, active))
    /\ Marks("main", "cap")
    /\ mon' = "compute"
    /\ UNCHANGED <<link, session, odr, drops, tick, rx, thread, alive, held>>

(* session_imu_run_update, as by the command thread below.                 *)
MonitorComputes ==
    /\ mon = "compute"
    /\ odr' = setting.hz
    /\ held' = DecimFor(setting.hz, cap, active)
    /\ mon' = "store"
    /\ UNCHANGED <<link, session, cap, decim, overtaken, outdated, learn, drops,
                   tick, rx, thread, alive>>

(* A command thread that was about to store is overtaken in turn.          *)
MonitorStores ==
    /\ mon = "store"
    /\ UpdatesDecim(held)
    /\ outdated' = IF "main" \in overtaken THEN outdated \union {"decim"}
                   ELSE outdated \ {"decim"}
    /\ overtaken' = {t \in {"cmd"} : Between(t)}
    /\ mon' = "done" /\ held' = 0
    /\ UNCHANGED <<link, session, odr, cap, drops, tick, rx, thread, alive>>

Monitor == MonitorCaps \/ MonitorComputes \/ MonitorStores

-----------------------------------------------------------------------------
(* The command thread, which the monitor and the pump's tick hold up.      *)

CanRun == tick = NoTick /\ ~Announcing
Starts == cmd \in {"start", "detached"}

(* imu_log_start is refused while a session runs, and fails when its first *)
(* directory entry cannot be written.                                      *)
CmdStartFails ==
    /\ Starts /\ pc = "idle" /\ CanRun
    /\ cmd' = "none"
    /\ UNCHANGED <<link, session, sizes, learn, drops, tick, rx, pc, local, boot>>

(* The lock may be held by a disconnect that ends a session.               *)
CmdStarts ==
    /\ Starts /\ pc = "idle" /\ CanRun /\ rx # "update"
    /\ ~active
    /\ active' = TRUE /\ detached' = (cmd = "detached")
    /\ pc' = "interval"
    /\ UNCHANGED <<link, streaming, setting, sizes, learn, drops, tick, rx, cmd,
                   local, boot>>

CmdStops ==
    /\ cmd = "stop" /\ pc = "idle" /\ CanRun
    /\ active' = FALSE /\ detached' = FALSE
    /\ pc' = "interval"
    /\ UNCHANGED <<link, streaming, setting, sizes, learn, drops, tick, rx, cmd,
                   local, boot>>

(* The erase of a running session ends it and changes nothing else.        *)
CmdErases ==
    /\ cmd = "erase" /\ pc = "idle" /\ CanRun
    /\ active' = FALSE /\ detached' = FALSE
    /\ outdated' = IF active THEN outdated \union {"decim"} ELSE outdated
    /\ misfit' = (misfit \/ (connected /\ active))
    /\ cmd' = "none"
    /\ UNCHANGED <<connected, slow, ended, streaming, setting, odr, cap, decim,
                   overtaken, learn, drops, tick, rx, pc, local, boot>>

(* session_on_log_started and session_on_log_stopped: the interval, if     *)
(* there is a link.                                                        *)
CmdAsks ==
    /\ pc = "interval" /\ CanRun
    /\ slow' = (IF connected THEN Starts ELSE slow)
    /\ misfit' = (connected /\ ended)
    /\ ended' = FALSE
    /\ pc' = "compute"
    /\ UNCHANGED <<connected, session, sizes, learn, drops, tick, rx, cmd, local,
                   boot>>

(* session_imu_run_update: it stores the rate and computes the decimation, *)
(* then stores that; a handler or the monitor may intervene.               *)
CmdComputes ==
    /\ pc = "compute" /\ CanRun
    /\ IF alive
         THEN /\ odr' = setting.hz /\ local' = DecimFor(setting.hz, cap, active)
              /\ pc' = "store" /\ UNCHANGED cmd
         ELSE pc' = "idle" /\ cmd' = "none" /\ UNCHANGED <<odr, local>>
    /\ UNCHANGED <<link, session, cap, decim, overtaken, outdated, learn, drops,
                   tick, rx, boot>>

CmdStores ==
    /\ pc = "store" /\ CanRun
    /\ UpdatesDecim(local)
    /\ Marks("cmd", "decim")
    /\ local' = 1 /\ pc' = "idle" /\ cmd' = "none"
    /\ UNCHANGED <<link, session, odr, cap, drops, tick, rx, boot>>

-----------------------------------------------------------------------------
(* The pump: samples the FIFO has no room for, and a tick every second, as *)
(* long as samples come, which takes the FLPR.                             *)

Drops ==
    /\ streaming /\ alive /\ CanRun /\ burst < MaxBurst
    /\ stream_dropped' = (stream_dropped + 1) % DropMod
    /\ burst' = burst + 1
    /\ UNCHANGED <<link, session, sizes, learn, adapt_last_dropped, rearmed, tick,
                   rx, thread, boot>>

AtMost(x, y) == IF x < y THEN x ELSE y

BackOff(l) ==
    [l EXCEPT !.shift = AtMost(@ + 1, MaxShift),
              !.need = IF l.since < ProbeMemory /\ @ < CalmMax THEN @ + CalmStep ELSE @,
              !.calm = 0]

(* Mutant: quiet windows are counted, and nothing is tried.                *)
Quiet_NoProbe(l) == [l EXCEPT !.calm = AtMost(@ + 1, l.need)]

(* One more quiet window; enough of them are followed by a probe. The      *)
(* count passes what is needed only while the shift is 0, and starts again *)
(* with every back-off: where the code's byte wraps, this one stops.       *)
Quiet(l) ==
    IF l.calm + 1 >= l.need /\ l.shift > 0
      THEN [l EXCEPT !.shift = @ - 1, !.since = 0, !.calm = 0]
      ELSE [l EXCEPT !.calm = AtMost(@ + 1, l.need)]

(* Mutant: any drop is one too many.                                       *)
Sustained_Any(n) == n > 0
Sustained(n) == n > DropLimit

(* stream_adapt_tick up to what it has to store. What it has loaded it     *)
(* keeps: there is no call, barrier or volatile access in between.         *)
TickReads ==
    /\ streaming /\ alive /\ CanRun
    /\ LET n == (stream_dropped + DropMod - adapt_last_dropped) % DropMod
           l == [learn EXCEPT !.since = AtMost(@ + 1, ProbeMemory)]
           new == IF Sustained(n) THEN BackOff(l)
                  ELSE IF n = 0 THEN Quiet(l) ELSE [l EXCEPT !.calm = 0]
       IN  /\ tick' = [old |-> l, new |-> new,
                       due |-> burst > DropLimit \/ rearmed]
           /\ learn' = l
    /\ adapt_last_dropped' = stream_dropped
    /\ burst' = 0 /\ rearmed' = FALSE
    /\ UNCHANGED <<link, session, sizes, stream_dropped, rx, thread, boot>>

(* It stores what it changed, whatever a handler has stored meanwhile.     *)
TickStores ==
    /\ tick # NoTick /\ ~Announcing
    /\ learn' = [f \in DOMAIN learn |->
                   IF tick.new[f] # tick.old[f] THEN tick.new[f] ELSE learn[f]]
    /\ tick' = NoTick
    /\ UNCHANGED <<link, session, sizes, drops, rx, thread, boot>>

-----------------------------------------------------------------------------
(* After power-on, with the settings loaded.                               *)
Init ==
    /\ connected = FALSE /\ slow = FALSE /\ ended = FALSE /\ misfit = FALSE
    /\ active = FALSE /\ detached = FALSE /\ streaming = FALSE
    /\ setting \in Settings
    /\ odr = 0 /\ cap = 0 /\ decim = 1 /\ learn = Fresh
    /\ overtaken = {} /\ outdated = {}
    /\ stream_dropped = 0 /\ adapt_last_dropped = 0
    /\ burst = 0 /\ rearmed = FALSE
    /\ tick = NoTick /\ rx = "idle"
    /\ cmd = "none" /\ pc = "idle" /\ local = 1
    /\ alive = FALSE /\ mon = "boot" /\ held = 0

Host == \/ Connects \/ Subscribes \/ Unsubscribes \/ Disconnects
        \/ \E s \in Settings : Configures(s)
        \/ \E c \in {"start", "detached", "stop", "erase"} : Submits(c)
Rx   == DisconnectStops \/ DisconnectUpdates
Main == FlprBoots \/ MonitorAnnounces \/ Monitor
Cmd  == \/ CmdStartFails \/ CmdStarts \/ CmdStops \/ CmdErases \/ CmdAsks
        \/ CmdComputes \/ CmdStores

Next == Host \/ Rx \/ Main \/ Cmd \/ Drops \/ TickReads \/ TickStores

Spec == Init /\ [][Next]_vars

(* The pump's calls end, and come again while there is a stream; what the  *)
(* monitor has begun it finishes, outranking the pump.                     *)
FairSpec == Spec /\ WF_vars(TickReads) /\ WF_vars(TickStores) /\ WF_vars(Monitor)

-----------------------------------------------------------------------------
(* Correctness.                                                            *)

(* Type correctness. The decimation is never 0, which the sink divides by, *)
(* and the shift stays in its range although three threads write it.       *)
TypeOK ==
    /\ {connected, slow, ended, misfit, active, detached, streaming, rearmed,
        alive} \subseteq BOOLEAN
    /\ setting \in Settings
    /\ odr \in Nat /\ cap \in Nat
    /\ decim \in 1 .. 255 /\ local \in 1 .. 255 /\ held \in Nat
    /\ mon = "store" => held \in 1 .. 255
    /\ overtaken \subseteq {"cmd", "main"} /\ outdated \subseteq {"cap", "decim"}
    /\ learn \in [shift : 0 .. MaxShift, calm : 0 .. CalmMax + CalmStep,
                  need : 1 .. CalmMax + CalmStep, since : 0 .. ProbeMemory]
    /\ stream_dropped \in 0 .. DropMod - 1
    /\ adapt_last_dropped \in 0 .. DropMod - 1
    /\ burst \in 0 .. MaxBurst
    /\ rx \in {"idle", "stop", "update"}
    /\ cmd \in {"none", "start", "detached", "stop", "erase"}
    /\ pc \in {"idle", "interval", "compute", "store"}
    /\ mon \in {"boot", "cap", "compute", "store", "done"}

(* When nothing is under way the preview has the cap of the settings and   *)
(* the decimation for them and for whether a session runs, and the link    *)
(* the interval that suits it ("Wide connection interval while logging",   *)
(* session.c), in whatever order the three threads that write them come:   *)
(* every change is followed by an update that repairs what was read before *)
(* it. The exceptions are events, not outcomes. An erase ends a session    *)
(* without either. A store may be overtaken: the thread has read what a    *)
(* host then configured, or a disconnect ended, and its update was made in *)
(* between. A session may be ended by a disconnect before the command      *)
(* thread has asked for its interval. And a host that comes back to a      *)
(* detached session asks for the fast link, under which flash has to wait. *)
LinkFitsWork ==
    cmd = "none" /\ rx = "idle" =>
        /\ mon = "done" =>
             /\ "cap" \notin outdated => cap = setting.preview
             /\ "decim" \notin outdated => decim = DecimFor(setting.hz, cap, active)
        /\ connected /\ ~misfit => slow = active

(* A tick slows the preview down only for drops beyond the limit ("On      *)
(* sustained FIFO drops the sink halves the preview rate"), but for the    *)
(* first window of a new subscription: that resets stream_dropped alone,   *)
(* and the difference wraps.                                               *)
BackOffJustified == tick.new.shift > tick.old.shift => tick.due

(* When nothing is dropped any more the preview comes back to its full     *)
(* rate ("probes back up"), however slowed down and whoever reconfigures.  *)
Recovers ==
    <>[][stream_dropped' = stream_dropped]_vars
        => <>[](~streaming \/ learn.shift = 0)
=============================================================================
