---------------------------- MODULE PacingProofs ----------------------------
(***************************************************************************)
(* The inductive invariant of Pacing: the decimation and the interval fit  *)
(* the work, and the preview is slowed down only for drops.                *)
(***************************************************************************)
EXTENDS Pacing, TLAPS

(* What the adaptation keeps, and what a tick has read and will store.     *)
Learned == [shift : 0 .. MaxShift, calm : 0 .. CalmMax + CalmStep,
            need : 1 .. CalmMax + CalmStep, since : 0 .. ProbeMemory]
Ticks == [old : Learned, new : Learned, due : BOOLEAN]

(* What a tick takes for the drops of its window.                          *)
Counted == (stream_dropped + DropMod - adapt_last_dropped) % DropMod

(* The command thread has a command while it is at work, the handler of a  *)
(* disconnect runs when there is no link, the monitor once the FLPR is up. *)
StepInv ==
    /\ tick \in Ticks
    /\ cmd = "none" => pc = "idle"
    /\ rx # "idle" => ~connected
    /\ mon # "boot" => alive

(* What the command thread is about to ask for is what it has started or   *)
(* stopped, but for a session that was ended in between; once it has       *)
(* asked, the interval suits the session.                                  *)
AskInv ==
    /\ pc = "interval" => /\ cmd \in {"start", "detached", "stop"}
                          /\ active = (Starts /\ ~ended)
    /\ ended => pc = "interval"
    /\ pc # "interval" /\ connected /\ ~misfit => slow = active

Right == DecimFor(setting.hz, cap, active)

(* What a thread has read, and is about to store, is still so unless it    *)
(* was overtaken: first the monitor's cap, then both decimations. What is  *)
(* stored is so unless it was marked. A disconnect that has ended a        *)
(* session and not yet updated suspends all of it.                         *)
RateInv == mon \in {"store", "done"} => odr = setting.hz
CapInv ==
    /\ mon = "cap" /\ "main" \notin overtaken => held = setting.preview
    /\ mon \in {"compute", "store", "done"} /\ "cap" \notin outdated
         => cap = setting.preview
DecimInv ==
    /\ mon = "store" /\ rx # "update" /\ "main" \notin overtaken => held = Right
    /\ mon = "done" /\ pc = "store" /\ rx # "update" /\ "cmd" \notin overtaken
         => local = Right
    /\ mon = "done" /\ pc = "idle" /\ rx # "update" /\ "decim" \notin outdated
         => decim = Right
FitInv == AskInv /\ RateInv /\ CapInv /\ DecimInv

(* Without a reset of one of the two counters they are never further apart *)
(* than drops have come since the last tick.                               *)
DropsInv == ~rearmed => Counted <= burst

IInv == TypeOK /\ StepInv /\ FitInv /\ DropsInv /\ BackOffJustified
-----------------------------------------------------------------------------
(* The arithmetic of counters that wrap.                                   *)

LEMMA DivMod ==
  ASSUME NEW m \in Nat \ {0}, NEW a \in Nat
  PROVE  a % m \in 0 .. m - 1 /\ a \div m \in Nat /\ a = m * (a \div m) + (a % m)
<1>1. a % m \in 0 .. m - 1
  OBVIOUS
<1>2. a \div m \in Nat
  OBVIOUS
<1>3. a = m * (a \div m) + (a % m)
  OBVIOUS
<1> QED
  BY <1>1, <1>2, <1>3

(* There is one remainder.                                                 *)
LEMMA ModIs ==
  ASSUME NEW m \in Nat \ {0}, NEW q \in Nat, NEW r \in 0 .. m - 1
  PROVE  (m * q + r) % m = r
<1> DEFINE a == m * q + r
           p == a \div m
           r0 == a % m
<1>1. a \in Nat /\ a = m * q + r
  OBVIOUS
<1> HIDE DEF a
<1>2. r0 \in 0 .. m - 1 /\ p \in Nat /\ a = m * p + r0
  BY <1>1, DivMod
<1> HIDE DEF p, r0
<1>3. m * (p - q) = r - r0 /\ m * (q - p) = r0 - r
  BY <1>1, <1>2
<1>4. m * (p - q) < m /\ m * (q - p) < m
  BY <1>2, <1>3
<1>5. p - q < 1 /\ q - p < 1
  BY <1>2, <1>4
<1>6. m * (p - q) = 0
  BY <1>2, <1>5
<1>7. r0 = r
  BY <1>2, <1>3, <1>6
<1> QED
  BY <1>7 DEF r0, a

LEMMA ModSmall ==
  ASSUME NEW m \in Nat \ {0}, NEW r \in 0 .. m - 1
  PROVE  r % m = r
<1>1. (m * 0 + r) % m = r
  BY ModIs
<1> QED
  BY <1>1

LEMMA Sizes ==
  /\ DropMod \in Nat \ {0} /\ MaxBurst \in Nat /\ MaxBurst < DropMod
  /\ DropLimit \in Nat /\ MaxShift \in Nat /\ ProbeMemory \in Nat
  /\ CalmStep \in Nat \ {0} /\ CalmMax \in Nat \ {0}
  BY PacingAssumption

(* The difference of two counters, of which the first may have wrapped.    *)
LEMMA DifferenceIs ==
  ASSUME NEW s \in 0 .. DropMod - 1, NEW a \in 0 .. DropMod - 1
  PROVE  (s + DropMod - a) % DropMod
           = IF s >= a THEN s - a ELSE s + DropMod - a
<1>1. DropMod \in Nat \ {0}
  BY Sizes
<1>2. CASE s >= a
  <2>1. s - a \in 0 .. DropMod - 1 /\ DropMod * 1 + (s - a) = s + DropMod - a
    BY <1>1, <1>2
  <2>2. (DropMod * 1 + (s - a)) % DropMod = s - a
    BY <1>1, <2>1, ModIs
  <2> QED
    BY <1>2, <2>1, <2>2
<1>3. CASE ~(s >= a)
  <2>1. s + DropMod - a \in 0 .. DropMod - 1
    BY <1>1, <1>3
  <2> QED
    BY <1>1, <1>3, <2>1, ModSmall
<1> QED
  BY <1>2, <1>3

LEMMA NextCounter ==
  ASSUME NEW s \in 0 .. DropMod - 1
  PROVE  (s + 1) % DropMod = IF s + 1 = DropMod THEN 0 ELSE s + 1
<1>1. DropMod \in Nat \ {0}
  BY Sizes
<1>2. CASE s + 1 = DropMod
  <2>1. 0 \in 0 .. DropMod - 1 /\ DropMod * 1 + 0 = s + 1
    BY <1>1, <1>2
  <2>2. (DropMod * 1 + 0) % DropMod = 0
    BY <1>1, <2>1, ModIs
  <2> QED
    BY <1>2, <2>1, <2>2
<1>3. CASE s + 1 # DropMod
  <2>1. s + 1 \in 0 .. DropMod - 1
    BY <1>1, <1>3
  <2> QED
    BY <1>1, <1>3, <2>1, ModSmall
<1> QED
  BY <1>2, <1>3

(* One more drop is one more in the difference, or makes it wrap to 0.     *)
LEMMA DropCounts ==
  ASSUME NEW s \in 0 .. DropMod - 1, NEW a \in 0 .. DropMod - 1
  PROVE  /\ (s + 1) % DropMod \in 0 .. DropMod - 1
         /\ (((s + 1) % DropMod) + DropMod - a) % DropMod
              <= ((s + DropMod - a) % DropMod) + 1
<1> DEFINE t == (s + 1) % DropMod
           c == (s + DropMod - a) % DropMod
           d == (t + DropMod - a) % DropMod
<1>1. DropMod \in Nat \ {0}
  BY Sizes
<1>2. t = IF s + 1 = DropMod THEN 0 ELSE s + 1
  BY NextCounter
<1>3. c = IF s >= a THEN s - a ELSE s + DropMod - a
  BY DifferenceIs
<1> HIDE DEF t, c
<1>4. t \in 0 .. DropMod - 1
  BY <1>1, <1>2
<1>5. d = IF t >= a THEN t - a ELSE t + DropMod - a
  BY <1>4, DifferenceIs
<1> HIDE DEF d
<1>6. d <= c + 1
  BY <1>1, <1>2, <1>3, <1>5
<1> QED
  BY <1>4, <1>6 DEF t, c, d

LEMMA DifferenceIsCounter ==
  ASSUME NEW s \in 0 .. DropMod - 1, NEW a \in 0 .. DropMod - 1
  PROVE  (s + DropMod - a) % DropMod \in 0 .. DropMod - 1
<1>1. (s + DropMod - a) % DropMod = IF s >= a THEN s - a ELSE s + DropMod - a
  BY DifferenceIs
<1> QED
  BY <1>1, Sizes

-----------------------------------------------------------------------------
(* The operators of the model.                                             *)

(* The sink never divides by 0, and what it divides by fits a byte.        *)
LEMMA DecimInRange ==
  ASSUME NEW hz \in Nat, NEW limit \in Nat, NEW logging \in BOOLEAN
  PROVE  DecimFor(hz, limit, logging) \in 1 .. 255
<1> DEFINE target == Budget(logging, limit)
           d == (hz + target - 1) \div target
<1>1. target \in Nat \ {0}
  BY DEF Budget
<1> HIDE DEF target
<1>2. hz + target - 1 \in Nat
  BY <1>1
<1>3. d \in Nat
  BY <1>1, <1>2, DivMod
<1> HIDE DEF d
<1>4. DecimFor(hz, limit, logging) = IF d > 255 THEN 255 ELSE IF d < 1 THEN 1 ELSE d
  BY DEF DecimFor, d, target
<1> QED
  BY <1>3, <1>4

(* Of any setting, and of the rate in force.                               *)
LEMMA SettingFields ==
  ASSUME NEW s \in Settings
  PROVE  s.hz \in Nat /\ s.preview \in Nat
<1>1. s \in [hz : Nat, preview : Nat]
  BY PacingAssumption
<1> QED
  BY <1>1

LEMMA FreshIsLearned == Fresh \in Learned /\ NoTick \in Ticks
  BY Sizes DEF Fresh, Learned, NoTick, Ticks

(* The fields of what the adaptation keeps, and back.                      *)
LEMMA LearnedFields ==
  ASSUME NEW l \in Learned
  PROVE  /\ l.shift \in 0 .. MaxShift /\ l.calm \in 0 .. CalmMax + CalmStep
         /\ l.need \in 1 .. CalmMax + CalmStep /\ l.since \in 0 .. ProbeMemory
         /\ DOMAIN l = {"shift", "calm", "need", "since"}
<1>1. /\ l.shift \in 0 .. MaxShift /\ l.calm \in 0 .. CalmMax + CalmStep
      /\ l.need \in 1 .. CalmMax + CalmStep /\ l.since \in 0 .. ProbeMemory
  BY DEF Learned
<1>2. DOMAIN l = {"shift", "calm", "need", "since"}
  BY DEF Learned
<1> QED
  BY <1>1, <1>2

LEMMA BackOffLearned == ASSUME NEW l \in Learned PROVE BackOff(l) \in Learned
<1>1. /\ AtMost(l.shift + 1, MaxShift) \in 0 .. MaxShift
      /\ 0 \in 0 .. CalmMax + CalmStep
  BY LearnedFields, Sizes DEF AtMost
<1>2. (IF l.since < ProbeMemory /\ l.need < CalmMax THEN l.need + CalmStep
       ELSE l.need) \in 1 .. CalmMax + CalmStep
  BY LearnedFields, Sizes
<1> QED
  BY <1>1, <1>2 DEF BackOff, Learned

LEMMA QuietLearned ==
  ASSUME NEW l \in Learned
  PROVE  Quiet(l) \in Learned /\ Quiet(l).shift <= l.shift
<1>1. CASE l.calm + 1 >= l.need /\ l.shift > 0
  <2>1. /\ l.shift - 1 \in 0 .. MaxShift /\ l.shift - 1 <= l.shift
        /\ 0 \in 0 .. ProbeMemory /\ 0 \in 0 .. CalmMax + CalmStep
    BY <1>1, LearnedFields, Sizes
  <2>2. Quiet(l) = [l EXCEPT !.shift = @ - 1, !.since = 0, !.calm = 0]
    BY <1>1 DEF Quiet
  <2>3. /\ l \in [shift : 0 .. MaxShift, calm : 0 .. CalmMax + CalmStep,
                  need : 1 .. CalmMax + CalmStep, since : 0 .. ProbeMemory]
        /\ 0 \in 0 .. CalmMax + CalmStep
    BY Sizes DEF Learned
  <2>4. Quiet(l) \in Learned
    BY <2>1, <2>2, <2>3 DEF Learned
  <2>5. Quiet(l).shift = l.shift - 1
    BY <2>2, <2>3
  <2> QED
    BY <2>1, <2>4, <2>5
<1>2. CASE ~(l.calm + 1 >= l.need /\ l.shift > 0)
  <2>1. AtMost(l.calm + 1, l.need) \in 0 .. CalmMax + CalmStep /\ l.shift <= l.shift
    BY LearnedFields, Sizes DEF AtMost
  <2>2. Quiet(l) = [l EXCEPT !.calm = AtMost(@ + 1, l.need)]
    BY <1>2 DEF Quiet
  <2> QED
    BY <2>1, <2>2 DEF Learned
<1> QED
  BY <1>1, <1>2

(* Whatever of a tick is stored over whatever a handler has stored.        *)
LEMMA StoredLearned ==
  ASSUME NEW l \in Learned, NEW o \in Learned, NEW n \in Learned
  PROVE  [f \in DOMAIN l |-> IF n[f] # o[f] THEN n[f] ELSE l[f]] \in Learned
<1> DEFINE Stored(f) == IF n[f] # o[f] THEN n[f] ELSE l[f]
           r == [f \in DOMAIN l |-> Stored(f)]
<1>1. DOMAIN l = {"shift", "calm", "need", "since"}
  BY LearnedFields
<1>2. /\ Stored("shift") \in 0 .. MaxShift /\ Stored("calm") \in 0 .. CalmMax + CalmStep
      /\ Stored("need") \in 1 .. CalmMax + CalmStep
      /\ Stored("since") \in 0 .. ProbeMemory
  <2>1. /\ l["shift"] \in 0 .. MaxShift /\ l["calm"] \in 0 .. CalmMax + CalmStep
        /\ l["need"] \in 1 .. CalmMax + CalmStep /\ l["since"] \in 0 .. ProbeMemory
    BY LearnedFields
  <2>2. /\ n["shift"] \in 0 .. MaxShift /\ n["calm"] \in 0 .. CalmMax + CalmStep
        /\ n["need"] \in 1 .. CalmMax + CalmStep /\ n["since"] \in 0 .. ProbeMemory
    BY LearnedFields
  <2> QED
    BY <2>1, <2>2
<1> HIDE DEF Stored
<1>3. r = [shift |-> Stored("shift"), calm |-> Stored("calm"),
           need |-> Stored("need"), since |-> Stored("since")]
  BY <1>1
<1>4. r \in Learned
  BY <1>2, <1>3 DEF Learned
<1> QED
  BY <1>4 DEF Stored

-----------------------------------------------------------------------------
(* TypeOK, by the groups of variables an action changes or leaves.         *)

LinkType == /\ connected \in BOOLEAN /\ slow \in BOOLEAN
            /\ ended \in BOOLEAN /\ misfit \in BOOLEAN
SessionType == /\ active \in BOOLEAN /\ detached \in BOOLEAN
               /\ streaming \in BOOLEAN /\ setting \in Settings
SizesType == /\ odr \in Nat /\ cap \in Nat /\ decim \in 1 .. 255
             /\ overtaken \subseteq {"cmd", "main"}
             /\ outdated \subseteq {"cap", "decim"}
LearnType == learn \in Learned
DropsType == /\ stream_dropped \in 0 .. DropMod - 1
             /\ adapt_last_dropped \in 0 .. DropMod - 1
             /\ burst \in 0 .. MaxBurst /\ rearmed \in BOOLEAN
ThreadType == /\ rx \in {"idle", "stop", "update"} /\ local \in 1 .. 255
              /\ cmd \in {"none", "start", "detached", "stop", "erase"}
              /\ pc \in {"idle", "interval", "compute", "store"}
BootType == /\ alive \in BOOLEAN /\ held \in Nat
            /\ mon \in {"boot", "cap", "compute", "store", "done"}
            /\ mon = "store" => held \in 1 .. 255
Types == /\ LinkType /\ SessionType /\ SizesType /\ LearnType /\ DropsType
         /\ ThreadType /\ BootType

LEMMA TypeParts == TypeOK <=> Types
  BY DEF TypeOK, Types, LinkType, SessionType, SizesType, LearnType, DropsType,
         ThreadType, BootType, Learned

LEMMA TypePartsNext == TypeOK' <=> Types'
  BY TypeParts, PTL

(* Who writes what.                                                        *)
Handles == \/ Unsubscribes \/ Disconnects \/ DisconnectUpdates
Configured == \E s \in Settings : Configures(s)
Submitted == \E c \in {"start", "detached", "stop", "erase"} : Submits(c)

LEMMA LinkMoves ==
  [Next]_vars => \/ Connects \/ Disconnects \/ DisconnectStops \/ CmdErases
                 \/ CmdAsks \/ UNCHANGED link
  BY DEF Next, Host, Rx, Main, Monitor, Cmd, vars, link, Subscribes, Unsubscribes,
         Configures, Submits, DisconnectUpdates, FlprBoots, MonitorAnnounces,
         MonitorCaps, MonitorComputes, MonitorStores, CmdStartFails, CmdStarts,
         CmdStops, CmdComputes, CmdStores, Drops, TickReads, TickStores

LEMMA SessionMoves ==
  [Next]_vars => \/ Subscribes \/ Unsubscribes \/ Disconnects \/ DisconnectStops
                 \/ Configured \/ CmdStarts \/ CmdStops \/ CmdErases
                 \/ UNCHANGED session
  BY DEF Next, Host, Rx, Main, Monitor, Cmd, vars, session, Configured, Connects,
         Submits, DisconnectUpdates, FlprBoots, MonitorAnnounces, MonitorCaps,
         MonitorComputes, MonitorStores, CmdStartFails, CmdAsks, CmdComputes,
         CmdStores, Drops, TickReads, TickStores

LEMMA SizesMoves ==
  [Next]_vars => \/ Subscribes \/ Handles \/ Configured \/ FlprBoots \/ Monitor
                 \/ CmdErases \/ CmdComputes \/ CmdStores \/ UNCHANGED sizes
  BY DEF Next, Host, Rx, Main, Cmd, vars, sizes, Handles, Configured, Connects,
         Submits, DisconnectStops, MonitorAnnounces, CmdStartFails, CmdStarts,
         CmdStops, CmdAsks, Drops, TickReads, TickStores

LEMMA LearnMoves ==
  [Next]_vars => \/ learn' = Fresh \/ TickReads \/ TickStores \/ UNCHANGED learn
  BY DEF Next, Host, Rx, Main, Monitor, Cmd, vars, UpdatesDecim, HandlerUpdates,
         Subscribes, Unsubscribes, Configures, Disconnects, DisconnectUpdates,
         FlprBoots, MonitorCaps, MonitorComputes, MonitorStores, CmdErases,
         CmdComputes, CmdStores, Connects, Submits, DisconnectStops,
         MonitorAnnounces, CmdStartFails, CmdStarts, CmdStops, CmdAsks, Drops

LEMMA DropsMoves ==
  [Next]_vars => Subscribes \/ Drops \/ TickReads \/ UNCHANGED drops
  BY DEF Next, Host, Rx, Main, Monitor, Cmd, vars, drops, Connects, Unsubscribes,
         Configures, Disconnects, Submits, DisconnectStops, DisconnectUpdates,
         FlprBoots, MonitorAnnounces, MonitorCaps, MonitorComputes, MonitorStores,
         CmdStartFails, CmdStarts, CmdStops, CmdErases, CmdAsks, CmdComputes,
         CmdStores, TickStores

LEMMA ThreadMoves ==
  [Next]_vars => \/ Disconnects \/ DisconnectStops \/ DisconnectUpdates
                 \/ Submitted \/ Cmd \/ UNCHANGED <<rx, thread>>
  BY DEF Next, Host, Rx, Main, Monitor, vars, thread, Submitted, Connects,
         Subscribes, Unsubscribes, Configures, FlprBoots, MonitorAnnounces,
         MonitorCaps, MonitorComputes, MonitorStores, Drops, TickReads, TickStores

LEMMA BootMoves ==
  [Next]_vars => FlprBoots \/ MonitorAnnounces \/ Monitor \/ UNCHANGED boot
  BY DEF Next, Host, Rx, Main, Cmd, vars, boot, Connects, Subscribes,
         Unsubscribes, Configures, Disconnects, Submits, DisconnectStops,
         DisconnectUpdates, CmdStartFails, CmdStarts, CmdStops, CmdErases,
         CmdAsks, CmdComputes, CmdStores, Drops, TickReads, TickStores

LEMMA TickMoves ==
  [Next]_vars => TickReads \/ TickStores \/ UNCHANGED tick
  BY DEF Next, Host, Rx, Main, Monitor, Cmd, vars, Connects, Subscribes,
         Unsubscribes, Configures, Disconnects, Submits, DisconnectStops,
         DisconnectUpdates, FlprBoots, MonitorAnnounces, MonitorCaps,
         MonitorComputes, MonitorStores, CmdStartFails, CmdStarts, CmdStops,
         CmdErases, CmdAsks, CmdComputes, CmdStores, Drops

-----------------------------------------------------------------------------
(* Each part of the invariant is kept by every step.                       *)

LEMMA LinkTypeNext == Types /\ [Next]_vars => LinkType'
<1> SUFFICES ASSUME Types, [Next]_vars PROVE LinkType'
  OBVIOUS
<1>0. LinkType /\ active \in BOOLEAN
  BY DEF Types, SessionType
<1>1. CASE Connects
  BY <1>0, <1>1 DEF Connects, LinkType
<1>2. CASE Disconnects
  BY <1>0, <1>2 DEF Disconnects, LinkType
<1>3. CASE DisconnectStops
  <2>1. (ended \/ (active /\ pc = "interval")) \in BOOLEAN
    OBVIOUS
  <2> QED
    BY <1>0, <1>3, <2>1 DEF DisconnectStops, LinkType
<1>4. CASE CmdErases
  BY <1>0, <1>4 DEF CmdErases, LinkType
<1>5. CASE CmdAsks
  <2>1. Starts \in BOOLEAN
    BY DEF Starts
  <2> QED
    BY <1>0, <1>5, <2>1 DEF CmdAsks, LinkType
<1>6. CASE UNCHANGED link
  BY <1>0, <1>6 DEF link, LinkType
<1> QED
  BY <1>1, <1>2, <1>3, <1>4, <1>5, <1>6, LinkMoves

LEMMA SessionTypeNext == Types /\ [Next]_vars => SessionType'
<1> SUFFICES ASSUME Types, [Next]_vars PROVE SessionType'
  OBVIOUS
<1> USE DEF Types, SessionType
<1>1. CASE Subscribes
  BY <1>1 DEF Subscribes
<1>2. CASE Unsubscribes
  BY <1>2 DEF Unsubscribes
<1>3. CASE Disconnects
  BY <1>3 DEF Disconnects
<1>4. CASE DisconnectStops
  BY <1>4 DEF DisconnectStops
<1>5. CASE Configured
  BY <1>5 DEF Configured, Configures
<1>6. CASE CmdStarts
  <2>1. (cmd = "detached") \in BOOLEAN
    OBVIOUS
  <2> QED
    BY <1>6, <2>1 DEF CmdStarts
<1>7. CASE CmdStops
  BY <1>7 DEF CmdStops
<1>8. CASE CmdErases
  BY <1>8 DEF CmdErases
<1>9. CASE UNCHANGED session
  BY <1>9 DEF session
<1> QED
  BY <1>1, <1>2, <1>3, <1>4, <1>5, <1>6, <1>7, <1>8, <1>9, SessionMoves

(* What a tick will store is what the adaptation may keep.                 *)
LEMMA TickReadsNext ==
  Types /\ TickReads =>
    /\ tick' \in Ticks /\ learn' \in Learned /\ tick'.old = learn'
    /\ tick'.due = (burst > DropLimit \/ rearmed)
    /\ ~Sustained(Counted) => tick'.new.shift <= tick'.old.shift
<1> SUFFICES ASSUME Types, TickReads
             PROVE  /\ tick' \in Ticks /\ learn' \in Learned /\ tick'.old = learn'
                    /\ tick'.due = (burst > DropLimit \/ rearmed)
                    /\ ~Sustained(Counted) => tick'.new.shift <= tick'.old.shift
  OBVIOUS
<1> DEFINE n == Counted
           l == [learn EXCEPT !.since = AtMost(@ + 1, ProbeMemory)]
           m == IF Sustained(n) THEN BackOff(l)
                ELSE IF n = 0 THEN Quiet(l) ELSE [l EXCEPT !.calm = 0]
           due == burst > DropLimit \/ rearmed
<1>1. /\ tick' = [old |-> l, new |-> m, due |-> due]
      /\ learn' = l
  BY DEF TickReads, Counted
<1>2. l \in Learned
  <2>1. learn \in Learned
    BY DEF Types, LearnType
  <2>2. AtMost(learn.since + 1, ProbeMemory) \in 0 .. ProbeMemory
    BY <2>1, LearnedFields, Sizes DEF AtMost
  <2> QED
    BY <2>1, <2>2 DEF Learned
<1> HIDE DEF l, n
<1>3. m \in Learned /\ (~Sustained(n) => m.shift <= l.shift)
  <2>1. BackOff(l) \in Learned /\ Quiet(l) \in Learned /\ Quiet(l).shift <= l.shift
    BY <1>2, BackOffLearned, QuietLearned
  <2>2. [l EXCEPT !.calm = 0] \in Learned
    BY <1>2, Sizes DEF Learned
  <2>3. [l EXCEPT !.calm = 0].shift <= l.shift
    BY <1>2, LearnedFields DEF Learned
  <2> QED
    BY <2>1, <2>2, <2>3
<1> HIDE DEF m
<1>4. due \in BOOLEAN
  BY DEF Types, DropsType
<1> HIDE DEF due
<1>5. tick' \in Ticks
  BY <1>1, <1>2, <1>3, <1>4 DEF Ticks
<1>6. tick'.old = learn' /\ tick'.due = due /\ tick'.new = m /\ tick'.old = l
  BY <1>1
<1> QED
  BY <1>1, <1>2, <1>3, <1>5, <1>6 DEF due, n

LEMMA LearnTypeNext == Types /\ StepInv /\ [Next]_vars => LearnType'
<1> SUFFICES ASSUME Types, StepInv, [Next]_vars PROVE LearnType'
  OBVIOUS
<1>1. CASE learn' = Fresh
  BY <1>1, FreshIsLearned DEF LearnType
<1>2. CASE TickReads
  BY <1>2, TickReadsNext DEF LearnType
<1>3. CASE TickStores
  <2>1. learn' = [f \in DOMAIN learn |->
                    IF tick.new[f] # tick.old[f] THEN tick.new[f] ELSE learn[f]]
    BY <1>3 DEF TickStores
  <2>2. tick.new \in Learned /\ tick.old \in Learned /\ learn \in Learned
    BY DEF StepInv, Ticks, Types, LearnType
  <2> QED
    BY <2>1, <2>2, StoredLearned DEF LearnType
<1>4. CASE UNCHANGED learn
  BY <1>4 DEF Types, LearnType
<1> QED
  BY <1>1, <1>2, <1>3, <1>4, LearnMoves

(* The decimations an update computes.                                     *)
LEMMA RightInRange ==
  Types => /\ DecimFor(setting.hz, cap, active) \in 1 .. 255
           /\ DecimFor(odr, cap, active) \in 1 .. 255
           /\ DecimFor(odr, held, active) \in 1 .. 255
           /\ setting.hz \in Nat /\ setting.preview \in Nat
<1> SUFFICES ASSUME Types
             PROVE  /\ DecimFor(setting.hz, cap, active) \in 1 .. 255
                    /\ DecimFor(odr, cap, active) \in 1 .. 255
                    /\ DecimFor(odr, held, active) \in 1 .. 255
                    /\ setting.hz \in Nat /\ setting.preview \in Nat
  OBVIOUS
<1>1. /\ odr \in Nat /\ cap \in Nat /\ held \in Nat /\ active \in BOOLEAN
      /\ setting \in Settings
  BY DEF Types, SessionType, SizesType, BootType
<1>2. setting.hz \in Nat /\ setting.preview \in Nat
  BY <1>1, SettingFields
<1>3. DecimFor(setting.hz, cap, active) \in 1 .. 255
  BY <1>1, <1>2, DecimInRange
<1>4. DecimFor(odr, cap, active) \in 1 .. 255 /\ DecimFor(odr, held, active) \in 1 .. 255
  BY <1>1, DecimInRange
<1> QED
  BY <1>2, <1>3, <1>4

LEMMA SizesTypeNext == Types /\ [Next]_vars => SizesType'
<1> SUFFICES ASSUME Types, [Next]_vars PROVE SizesType'
  OBVIOUS
<1>0. /\ SizesType /\ active \in BOOLEAN /\ held \in Nat
      /\ DecimFor(setting.hz, cap, active) \in 1 .. 255
      /\ DecimFor(odr, cap, active) \in 1 .. 255
      /\ DecimFor(odr, held, active) \in 1 .. 255
      /\ setting.hz \in Nat
  BY RightInRange DEF Types, SessionType, BootType
<1>1. CASE Subscribes
  BY <1>0, <1>1 DEF Subscribes, UpdatesDecim, SizesType
<1> DEFINE hz == setting.hz
<1>h. hz \in Nat /\ DecimFor(hz, cap, active) \in 1 .. 255
  BY <1>0
<1>s. overtaken \subseteq {"cmd", "main"} /\ outdated \subseteq {"cap", "decim"}
  BY <1>0 DEF SizesType
<1>n. odr \in Nat /\ cap \in Nat /\ decim \in 1 .. 255
  BY <1>0 DEF SizesType
<1>2. CASE Handles
  <2>1. /\ odr' = odr \/ odr' = hz
        /\ decim' = decim \/ decim' = DecimFor(hz, cap, active)
        /\ cap' = cap
    BY <1>2 DEF Handles, Unsubscribes, Disconnects, DisconnectUpdates,
                HandlerUpdates, UpdatesDecim
  <2>2. /\ outdated' = outdated \/ outdated' = outdated \ {"decim"}
        /\ overtaken' = overtaken \/ overtaken' = {t \in {"cmd", "main"} : Between(t)}
    BY <1>2 DEF Handles, Unsubscribes, Disconnects, DisconnectUpdates,
                HandlerUpdates, Overtakes
  <2> HIDE DEF hz
  <2>3. overtaken' \subseteq {"cmd", "main"} /\ outdated' \subseteq {"cap", "decim"}
    BY <1>s, <2>2
  <2>4. odr' \in Nat /\ cap' \in Nat /\ decim' \in 1 .. 255
    BY <1>h, <1>n, <2>1, Zenon
  <2> QED
    BY <2>3, <2>4 DEF SizesType
<1>3. CASE Configured
  <2>1. PICK s \in Settings : Configures(s)
    BY <1>3 DEF Configured
  <2>2. s.hz \in Nat /\ s.preview \in Nat
    BY SettingFields
  <2>3. odr' = s.hz /\ cap' = s.preview /\ decim' = DecimFor(s.hz, s.preview, active)
        /\ outdated' = {} /\ Overtakes
    BY <2>1 DEF Configures, UpdatesDecim
  <2>4. DecimFor(s.hz, s.preview, active) \in 1 .. 255
    BY <1>0, <2>2, DecimInRange
  <2>5. odr' \in Nat /\ cap' \in Nat /\ decim' \in 1 .. 255
    BY <2>2, <2>3, <2>4, Zenon
  <2> QED
    BY <2>3, <2>5 DEF Overtakes, SizesType
<1>4. CASE FlprBoots
  BY PacingAssumption, <1>0, <1>4 DEF FlprBoots, SizesType
<1>5. CASE Monitor
  <2>1. CASE MonitorCaps
    BY <1>0, <2>1 DEF MonitorCaps, UpdatesDecim, Marks, SizesType
  <2>2. CASE MonitorComputes
    <3>1. odr' = hz /\ UNCHANGED <<cap, decim, overtaken, outdated>>
      BY <2>2 DEF MonitorComputes
    <3> HIDE DEF hz
    <3> QED
      BY <1>s, <1>n, <1>h, <3>1 DEF SizesType
  <2>3. CASE MonitorStores
    <3>1. held \in 1 .. 255
      BY <2>3 DEF MonitorStores, Types, BootType
    <3> QED
      BY <1>0, <2>3, <3>1 DEF MonitorStores, UpdatesDecim, SizesType
  <2> QED
    BY <1>5, <2>1, <2>2, <2>3 DEF Monitor
<1>6. CASE CmdErases
  BY <1>0, <1>6 DEF CmdErases, SizesType
<1>7. CASE CmdComputes
  <2>1. /\ odr' = odr \/ odr' = hz
        /\ UNCHANGED <<cap, decim, overtaken, outdated>>
    BY <1>7 DEF CmdComputes
  <2> HIDE DEF hz
  <2>2. odr' \in Nat
    BY <1>h, <1>n, <2>1, Zenon
  <2> QED
    BY <1>s, <1>n, <2>1, <2>2 DEF SizesType
<1>8. CASE CmdStores
  BY <1>0, <1>8 DEF CmdStores, UpdatesDecim, Marks, SizesType, Types, ThreadType
<1>9. CASE UNCHANGED sizes
  BY <1>0, <1>9 DEF sizes, SizesType
<1> QED
  BY <1>1, <1>2, <1>3, <1>4, <1>5, <1>6, <1>7, <1>8, <1>9, SizesMoves

LEMMA BootTypeNext == Types /\ [Next]_vars => BootType'
<1> SUFFICES ASSUME Types, [Next]_vars PROVE BootType'
  OBVIOUS
<1>0. /\ BootType /\ setting.preview \in Nat
      /\ DecimFor(setting.hz, cap, active) \in 1 .. 255
  BY RightInRange DEF Types
<1>1. CASE FlprBoots
  BY <1>0, <1>1 DEF FlprBoots, BootType
<1>2. CASE MonitorAnnounces
  BY <1>0, <1>2 DEF MonitorAnnounces, BootType
<1>3. CASE Monitor
  BY <1>0, <1>3 DEF Monitor, MonitorCaps, MonitorComputes, MonitorStores, BootType
<1>4. CASE UNCHANGED boot
  BY <1>0, <1>4 DEF boot, BootType
<1> QED
  BY <1>1, <1>2, <1>3, <1>4, BootMoves

LEMMA DropsTypeNext == Types /\ [Next]_vars => DropsType'
<1> SUFFICES ASSUME Types, [Next]_vars PROVE DropsType'
  OBVIOUS
<1>0. DropsType
  BY DEF Types
<1>1. CASE Subscribes
  <2>1. /\ stream_dropped' = 0 /\ adapt_last_dropped' = adapt_last_dropped
        /\ burst' = 0 /\ rearmed' = (rearmed \/ adapt_last_dropped # 0)
    BY <1>1 DEF Subscribes
  <2> QED
    BY <1>0, <2>1, Sizes DEF DropsType
<1>2. CASE Drops
  <2>1. /\ stream_dropped' = (stream_dropped + 1) % DropMod
        /\ adapt_last_dropped' = adapt_last_dropped
        /\ burst' = burst + 1 /\ burst < MaxBurst /\ rearmed' = rearmed
    BY <1>2 DEF Drops
  <2>2. stream_dropped' \in 0 .. DropMod - 1
    BY <1>0, <2>1, DropCounts DEF DropsType
  <2> QED
    BY <1>0, <2>1, <2>2, Sizes DEF DropsType
<1>3. CASE TickReads
  <2>1. /\ stream_dropped' = stream_dropped /\ adapt_last_dropped' = stream_dropped
        /\ burst' = 0 /\ rearmed' = FALSE
    BY <1>3 DEF TickReads
  <2>2. /\ stream_dropped' \in 0 .. DropMod - 1
        /\ adapt_last_dropped' \in 0 .. DropMod - 1
    BY <1>0, <2>1 DEF DropsType
  <2>3. burst' \in 0 .. MaxBurst
    BY <2>1, Sizes
  <2>4. rearmed' \in BOOLEAN
    BY <2>1
  <2> QED
    BY <2>2, <2>3, <2>4 DEF DropsType
<1>4. CASE UNCHANGED drops
  BY <1>0, <1>4 DEF drops, DropsType
<1> QED
  BY <1>1, <1>2, <1>3, <1>4, DropsMoves

LEMMA ThreadTypeNext == Types /\ [Next]_vars => ThreadType'
<1> SUFFICES ASSUME Types, [Next]_vars PROVE ThreadType'
  OBVIOUS
<1>0. ThreadType
  BY DEF Types
<1>1. CASE Disconnects \/ DisconnectStops \/ DisconnectUpdates
  BY <1>0, <1>1 DEF Disconnects, DisconnectStops, DisconnectUpdates, thread, ThreadType
<1>2. CASE Submitted
  BY <1>0, <1>2 DEF Submitted, Submits, ThreadType
<1>3. CASE Cmd
  <2>1. CASE CmdComputes
    <3>1. DecimFor(setting.hz, cap, active) \in 1 .. 255
      BY RightInRange
    <3> QED
      BY <1>0, <2>1, <3>1 DEF CmdComputes, ThreadType
  <2>2. CASE CmdStartFails \/ CmdStarts \/ CmdStops
    BY <1>0, <2>2 DEF CmdStartFails, CmdStarts, CmdStops, ThreadType
  <2>3. CASE CmdErases \/ CmdAsks \/ CmdStores
    BY <1>0, <2>3 DEF CmdErases, CmdAsks, CmdStores, ThreadType
  <2> QED
    BY <1>3, <2>1, <2>2, <2>3 DEF Cmd
<1>4. CASE UNCHANGED <<rx, thread>>
  BY <1>0, <1>4 DEF thread, ThreadType
<1> QED
  BY <1>1, <1>2, <1>3, <1>4, ThreadMoves

LEMMA StepNext == Types /\ StepInv /\ [Next]_vars => StepInv'
<1> SUFFICES ASSUME Types, StepInv, [Next]_vars PROVE StepInv'
  OBVIOUS
<1>1. tick' \in Ticks
  <2>1. CASE TickReads
    BY <2>1, TickReadsNext
  <2>2. CASE TickStores
    BY <2>2, FreshIsLearned DEF TickStores
  <2>3. CASE UNCHANGED tick
    BY <2>3 DEF StepInv
  <2> QED
    BY <2>1, <2>2, <2>3, TickMoves
<1>2. cmd' = "none" => pc' = "idle"
  <2>1. CASE Submitted
    BY <2>1 DEF Submitted, Submits
  <2>2. CASE CmdStartFails \/ CmdStarts
    BY <2>2 DEF CmdStartFails, CmdStarts, Starts
  <2>3. CASE CmdStops \/ CmdErases \/ CmdStores
    BY <2>3 DEF CmdStops, CmdErases, CmdStores
  <2>4. CASE CmdAsks \/ CmdComputes
    BY <2>4 DEF CmdAsks, CmdComputes, StepInv
  <2>5. CASE Disconnects \/ DisconnectStops \/ DisconnectUpdates
    BY <2>5 DEF Disconnects, DisconnectStops, DisconnectUpdates, thread, StepInv
  <2>6. CASE UNCHANGED <<rx, thread>>
    BY <2>6 DEF thread, StepInv
  <2> QED
    BY <2>1, <2>2, <2>3, <2>4, <2>5, <2>6, ThreadMoves DEF Cmd
<1>3. rx' # "idle" => ~connected'
  <2>1. CASE Connects
    BY <2>1 DEF Connects
  <2>2. CASE Disconnects
    BY <2>2 DEF Disconnects
  <2>3. ASSUME ~Connects, ~Disconnects PROVE connected' = connected
    BY <2>3, LinkMoves DEF CmdErases, CmdAsks, DisconnectStops, link
  <2>4. ASSUME ~Disconnects, rx = "idle" PROVE rx' = "idle"
    BY <2>4, ThreadMoves DEF DisconnectStops, DisconnectUpdates, Submitted, Submits,
         Cmd, CmdStartFails, CmdStarts, CmdStops, CmdErases, CmdAsks, CmdComputes,
         CmdStores
  <2> QED
    BY <2>1, <2>2, <2>3, <2>4 DEF StepInv
<1>4. mon' # "boot" => alive'
  BY BootMoves DEF FlprBoots, MonitorAnnounces, Monitor, MonitorCaps,
                   MonitorComputes, MonitorStores, boot, StepInv
<1> QED
  BY <1>1, <1>2, <1>3, <1>4 DEF StepInv

(* The interval.                                                           *)
LEMMA AskNext == Types /\ StepInv /\ AskInv /\ [Next]_vars => AskInv'
<1> SUFFICES ASSUME Types, StepInv, AskInv, [Next]_vars PROVE AskInv'
  OBVIOUS
<1>0. LinkType /\ active \in BOOLEAN
  BY DEF Types, SessionType
<1>1. CASE Connects
  BY <1>0, <1>1 DEF Connects, session, thread, Starts, AskInv
<1>2. CASE Disconnects
  BY <1>2 DEF Disconnects, thread, Starts, AskInv
<1>3. CASE DisconnectStops
  (* The session that ends now is the one to be asked for, if one is.      *)
  <2>1. ~connected' /\ pc' = pc /\ cmd' = cmd /\ active' = FALSE
        /\ ended' = (ended \/ (active /\ pc = "interval"))
    BY <1>3 DEF DisconnectStops, thread, StepInv
  <2>2. pc = "interval" => active = (Starts /\ ~ended)
    BY DEF AskInv
  <2>3. pc' = "interval" => FALSE = (Starts' /\ ~ended')
    BY <2>1, <2>2 DEF Starts
  <2> QED
    BY <2>1, <2>3 DEF AskInv
<1>4. CASE CmdStartFails
  BY <1>4 DEF CmdStartFails, link, session, AskInv
<1>5. CASE CmdStarts
  BY <1>5 DEF CmdStarts, link, Starts, AskInv
<1>6. CASE CmdStops
  BY <1>6 DEF CmdStops, link, Starts, AskInv
<1>7. CASE CmdErases
  BY <1>0, <1>7 DEF CmdErases, LinkType, AskInv
<1>8. CASE CmdAsks
  BY <1>0, <1>8 DEF CmdAsks, session, LinkType, Starts, AskInv
<1>9. CASE CmdComputes \/ CmdStores
  BY <1>9 DEF CmdComputes, CmdStores, link, session, AskInv
<1>10. CASE Submitted
  BY <1>10 DEF Submitted, Submits, link, session, StepInv, AskInv
<1>11. ASSUME ~Connects, ~Disconnects, ~DisconnectStops, ~Cmd, ~Submitted
       PROVE  UNCHANGED <<connected, slow, ended, misfit, active, pc, cmd>>
  <2>1. UNCHANGED <<connected, slow, ended, misfit>>
    BY <1>11, LinkMoves DEF Cmd, link
  <2>2. active' = active
    BY <1>11, SessionMoves DEF Cmd, Subscribes, Unsubscribes, Configured,
                               Configures, session
  <2>3. pc' = pc /\ cmd' = cmd
    BY <1>11, ThreadMoves DEF DisconnectUpdates, thread
  <2> QED
    BY <2>1, <2>2, <2>3
<1>12. ASSUME UNCHANGED <<connected, slow, ended, misfit, active, pc, cmd>>
       PROVE  AskInv'
  BY <1>12 DEF AskInv, Starts
<1> QED
  BY <1>1, <1>2, <1>3, <1>4, <1>5, <1>6, <1>7, <1>8, <1>9, <1>10, <1>11, <1>12 DEF Cmd

(* What SizeInv is about, and the steps that leave it alone.               *)
watched == <<setting, odr, cap, decim, overtaken, outdated, active, mon, held, rx,
             pc, local>>
SizeInv == RateInv /\ CapInv /\ DecimInv

LEMMA Unwatched ==
  ASSUME \/ Connects \/ Submitted \/ CmdStartFails \/ Drops \/ TickReads
         \/ TickStores \/ UNCHANGED vars
  PROVE  UNCHANGED watched
  BY DEF watched, vars, link, session, sizes, thread, boot, Connects, Submitted,
         Submits, CmdStartFails, Drops, TickReads, TickStores

(* The handlers.                                                           *)
LEMMA HandlersKeep ==
  ASSUME StepInv, SizeInv,
         Subscribes \/ Handles \/ Configured \/ DisconnectStops
  PROVE  SizeInv'
<1> USE DEF SizeInv, RateInv, CapInv, DecimInv, Right
<1>1. CASE Subscribes
  BY <1>1 DEF Subscribes, UpdatesDecim, StepInv, thread, boot
<1>2. CASE Unsubscribes
  BY <1>2 DEF Unsubscribes, HandlerUpdates, UpdatesDecim, StepInv, thread, boot
<1>3. CASE Disconnects
  BY <1>3 DEF Disconnects, HandlerUpdates, UpdatesDecim, StepInv, thread, boot
<1>4. CASE DisconnectUpdates
  BY <1>4 DEF DisconnectUpdates, HandlerUpdates, UpdatesDecim, Overtakes, Between,
              StepInv, session, thread, boot
<1>5. CASE Configured
  BY <1>5 DEF Configured, Configures, UpdatesDecim, Overtakes, Between, thread, boot
<1>6. CASE DisconnectStops
  BY <1>6 DEF DisconnectStops, sizes, thread, boot
<1> QED
  BY <1>1, <1>2, <1>3, <1>4, <1>5, <1>6 DEF Handles

(* The main thread: between its steps only a handler can come.             *)
LEMMA MonitorKeeps ==
  ASSUME StepInv, SizeInv, FlprBoots \/ MonitorAnnounces \/ Monitor
  PROVE  SizeInv'
<1> USE DEF SizeInv, RateInv, CapInv, DecimInv, Right
<1>1. CASE FlprBoots
  BY <1>1 DEF FlprBoots, StepInv
<1>2. CASE MonitorAnnounces
  BY <1>2 DEF MonitorAnnounces, session, sizes
<1>3. CASE MonitorCaps
  BY <1>3 DEF MonitorCaps, Marks, session
<1>4. CASE MonitorComputes
  BY <1>4 DEF MonitorComputes, session
<1>5. CASE MonitorStores
  BY <1>5 DEF MonitorStores, UpdatesDecim, Between, session, thread
<1> QED
  BY <1>1, <1>2, <1>3, <1>4, <1>5 DEF Monitor

(* The command thread, while the monitor is not at work.                   *)
LEMMA CommandsKeep ==
  ASSUME Types, StepInv, SizeInv, Cmd
  PROVE  SizeInv'
<1> USE DEF SizeInv, RateInv, CapInv, DecimInv, Right, CanRun, Announcing
<1>0. active \in BOOLEAN
  BY DEF Types, SessionType
<1>1. CASE CmdStartFails
  BY <1>1, Unwatched DEF watched
<1>2. CASE CmdStarts
  BY <1>2 DEF CmdStarts, sizes, boot
<1>3. CASE CmdStops
  BY <1>3 DEF CmdStops, sizes, boot
<1>4. CASE CmdErases
  (* With no session to end the erase changes nothing the update reads.    *)
  BY <1>0, <1>4 DEF CmdErases, boot
<1>5. CASE CmdAsks
  BY <1>5 DEF CmdAsks, session, sizes, boot
<1>6. CASE CmdComputes
  BY <1>6 DEF CmdComputes, session, boot, StepInv
<1>7. CASE CmdStores
  BY <1>7 DEF CmdStores, UpdatesDecim, Marks, session, boot
<1> QED
  BY <1>1, <1>2, <1>3, <1>4, <1>5, <1>6, <1>7 DEF Cmd

LEMMA SizesNext == Types /\ StepInv /\ SizeInv /\ [Next]_vars => SizeInv'
<1> SUFFICES ASSUME Types, StepInv, SizeInv, [Next]_vars PROVE SizeInv'
  OBVIOUS
<1>1. CASE Subscribes \/ Handles \/ Configured \/ DisconnectStops
  BY <1>1, HandlersKeep
<1>2. CASE FlprBoots \/ MonitorAnnounces \/ Monitor
  BY <1>2, MonitorKeeps
<1>3. CASE Cmd
  BY <1>3, CommandsKeep
<1>4. CASE \/ Connects \/ Submitted \/ CmdStartFails \/ Drops \/ TickReads
           \/ TickStores \/ UNCHANGED vars
  <2>1. UNCHANGED watched
    BY <1>4, Unwatched
  <2> QED
    BY <2>1 DEF watched, SizeInv, RateInv, CapInv, DecimInv, Right
<1> QED
  BY <1>1, <1>2, <1>3, <1>4 DEF Next, Host, Rx, Main, Handles, Configured, Submitted

LEMMA DropsNext == Types /\ DropsInv /\ [Next]_vars => DropsInv'
<1> SUFFICES ASSUME Types, DropsInv, [Next]_vars, ~rearmed' PROVE Counted' <= burst'
  BY DEF DropsInv
<1>0. DropsType /\ DropsType'
  BY DropsTypeNext DEF Types
<1>1. CASE Subscribes
  <2>1. stream_dropped' = 0 /\ adapt_last_dropped' = 0 /\ burst' = 0
    BY <1>1 DEF Subscribes
  <2>2. Counted' = (0 + DropMod - 0) % DropMod
    BY <2>1 DEF Counted
  <2>3. 0 \in 0 .. DropMod - 1
    BY Sizes
  <2>4. Counted' = 0
    BY <2>2, <2>3, DifferenceIs
  <2> QED
    BY <1>0, <2>1, <2>4, Sizes DEF DropsType
<1>2. CASE Drops
  <2>1. /\ stream_dropped' = (stream_dropped + 1) % DropMod
        /\ adapt_last_dropped' = adapt_last_dropped
        /\ burst' = burst + 1 /\ rearmed' = rearmed
    BY <1>2 DEF Drops
  <2>2. Counted' <= Counted + 1
    BY <1>0, <2>1, DropCounts DEF DropsType, Counted
  <2>3. Counted <= burst /\ burst \in Nat
    BY <1>0, <2>1, Sizes DEF DropsInv, DropsType
  <2>4. Counted \in 0 .. DropMod - 1 /\ Counted' \in 0 .. DropMod - 1
    <3>1. Counted \in 0 .. DropMod - 1
      BY <1>0, DifferenceIsCounter DEF DropsType, Counted
    <3>2. /\ stream_dropped' \in 0 .. DropMod - 1
          /\ adapt_last_dropped' \in 0 .. DropMod - 1
      BY <1>0 DEF DropsType
    <3>3. Counted' \in 0 .. DropMod - 1
      BY <3>2, DifferenceIsCounter DEF Counted
    <3> QED
      BY <3>1, <3>3
  <2> QED
    BY <2>1, <2>2, <2>3, <2>4, Sizes
<1>3. CASE TickReads
  <2>1. adapt_last_dropped' = stream_dropped /\ stream_dropped' = stream_dropped
        /\ burst' = 0
    BY <1>3 DEF TickReads
  <2>2. Counted' = (stream_dropped + DropMod - stream_dropped) % DropMod
    BY <2>1 DEF Counted
  <2>3. Counted' = 0
    BY <1>0, <2>2, DifferenceIs DEF DropsType
  <2> QED
    BY <2>1, <2>3
<1>4. CASE UNCHANGED drops
  BY <1>4 DEF drops, DropsInv, Counted
<1> QED
  BY <1>1, <1>2, <1>3, <1>4, DropsMoves

LEMMA BackOffNext ==
  Types /\ StepInv /\ DropsInv /\ BackOffJustified /\ [Next]_vars => BackOffJustified'
<1> SUFFICES ASSUME Types, StepInv, DropsInv, BackOffJustified, [Next]_vars
             PROVE  BackOffJustified'
  OBVIOUS
<1>1. CASE TickReads
  <2>1. SUFFICES ASSUME tick'.new.shift > tick'.old.shift PROVE tick'.due
    BY DEF BackOffJustified
  <2>2. /\ tick'.due = (burst > DropLimit \/ rearmed)
        /\ ~Sustained(Counted) => tick'.new.shift <= tick'.old.shift
        /\ tick' \in Ticks
    BY <1>1, TickReadsNext
  <2>3. Sustained(Counted)
    <3>1. tick'.new \in Learned /\ tick'.old \in Learned
      BY <2>2 DEF Ticks
    <3>2. tick'.new.shift \in Nat /\ tick'.old.shift \in Nat
      BY <3>1, LearnedFields, Sizes
    <3> QED
      BY <2>1, <2>2, <3>2
  <2>4. Counted > DropLimit /\ Counted \in Nat /\ burst \in Nat
    <3>1. Counted \in 0 .. DropMod - 1
      BY DifferenceIsCounter DEF Types, DropsType, Counted
    <3>2. burst \in Nat
      BY Sizes DEF Types, DropsType
    <3> QED
      BY <2>3, <3>1, <3>2, Sizes DEF Sustained
  <2>5. ~rearmed => burst > DropLimit
    BY <2>4, Sizes DEF DropsInv
  <2> QED
    BY <2>2, <2>5
<1>2. CASE TickStores
  <2>1. tick' = NoTick
    BY <1>2 DEF TickStores
  <2>2. tick'.new.shift = 0 /\ tick'.old.shift = 0
    BY <2>1 DEF NoTick, Fresh
  <2> QED
    BY <2>2 DEF BackOffJustified
<1>3. CASE UNCHANGED tick
  BY <1>3 DEF BackOffJustified
<1> QED
  BY <1>1, <1>2, <1>3, TickMoves

-----------------------------------------------------------------------------
(* What every behaviour keeps.                                             *)

LEMMA InitInv == Init => IInv
<1> SUFFICES ASSUME Init PROVE IInv
  OBVIOUS
<1>1. Types
  <2>1. LearnType
    BY FreshIsLearned DEF Init, LearnType
  <2>2. DropsType
    <3>1. 0 \in 0 .. DropMod - 1 /\ 0 \in 0 .. MaxBurst /\ FALSE \in BOOLEAN
      BY Sizes
    <3> QED
      BY <3>1, Zenon DEF Init, DropsType
  <2>3. LinkType /\ SessionType /\ ThreadType
    <3>1. 1 \in 1 .. 255 /\ FALSE \in BOOLEAN
      OBVIOUS
    <3> QED
      BY <3>1, Zenon DEF Init, LinkType, SessionType, ThreadType
  <2>4. SizesType
    <3>1. /\ 0 \in Nat /\ 1 \in 1 .. 255
          /\ {} \subseteq {"cmd", "main"} /\ {} \subseteq {"cap", "decim"}
      OBVIOUS
    <3>2. odr = 0 /\ cap = 0 /\ decim = 1 /\ overtaken = {} /\ outdated = {}
      BY DEF Init
    <3> QED
      BY <3>1, <3>2 DEF SizesType
  <2>5. BootType
    BY DEF Init, BootType
  <2> QED
    BY <2>1, <2>2, <2>3, <2>4, <2>5 DEF Types
<1>3. StepInv
  BY FreshIsLearned DEF Init, StepInv
<1>4. FitInv
  BY DEF Init, FitInv, AskInv, RateInv, CapInv, DecimInv
<1>5. DropsInv
  <2>1. 0 \in 0 .. DropMod - 1 /\ Counted = (0 + DropMod - 0) % DropMod
    BY Sizes DEF Init, Counted
  <2>2. Counted = 0
    BY <2>1, DifferenceIs
  <2> QED
    BY <2>2 DEF Init, DropsInv
<1>6. BackOffJustified
  <2>1. tick.new.shift = 0 /\ tick.old.shift = 0
    BY DEF Init, NoTick, Fresh
  <2> QED
    BY <2>1 DEF BackOffJustified
<1> QED
  BY <1>1, <1>3, <1>4, <1>5, <1>6, TypeParts DEF IInv

LEMMA NextInv == IInv /\ [Next]_vars => IInv'
<1> SUFFICES ASSUME IInv, [Next]_vars PROVE IInv'
  OBVIOUS
<1>1. Types /\ StepInv /\ FitInv /\ DropsInv /\ BackOffJustified
  BY TypeParts DEF IInv
<1>2. Types'
  BY <1>1, LinkTypeNext, SessionTypeNext, SizesTypeNext, LearnTypeNext,
     DropsTypeNext, ThreadTypeNext, BootTypeNext DEF Types
<1>3. StepInv' /\ FitInv' /\ DropsInv' /\ BackOffJustified'
  BY <1>1, StepNext, AskNext, SizesNext, DropsNext, BackOffNext DEF FitInv, SizeInv
<1> QED
  BY <1>2, <1>3, TypePartsNext DEF IInv

(* The inductive invariant, for any settings a host may make, any limits   *)
(* of the adaptation and any width of the counters.                        *)
THEOREM Inductive == Spec => []IInv
  BY InitInv, NextInv, PTL DEF Spec

(* stream_decim is never 0, and stream_adapt never beyond its range,       *)
(* although stream_adapt_tick and three threads' updates write it.         *)
THEOREM TypeCorrect == Spec => []TypeOK
<1>1. IInv => TypeOK
  BY DEF IInv
<1> QED
  BY <1>1, Inductive, PTL

(* When nothing is under way stream_preview_hz and stream_decim are those  *)
(* of the settings and of the session, and the interval suits it, in       *)
(* whatever order handlers, monitor and command thread have come, but for  *)
(* the events `outdated` and `misfit` record.                              *)
THEOREM LinkAlwaysFits == Spec => []LinkFitsWork
<1>1. IInv => LinkFitsWork
  BY DEF IInv, StepInv, FitInv, AskInv, CapInv, DecimInv, Right, LinkFitsWork
<1> QED
  BY <1>1, Inductive, PTL

(* stream_adapt_tick halves the preview only after more drops in a window  *)
(* than its limit, wherever the counter wraps, but for the window after a  *)
(* new subscription.                                                       *)
THEOREM BackOffsJustified == Spec => []BackOffJustified
<1>1. IInv => BackOffJustified
  BY DEF IInv
<1> QED
  BY <1>1, Inductive, PTL
=============================================================================
