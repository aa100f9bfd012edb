--------------------------- MODULE SessionProofs ---------------------------
(***************************************************************************)
(* The inductive invariant of Session: the handshake with the FLPR, the    *)
(* arbitration of the sensor, and what a disconnect ends.                  *)
(***************************************************************************)
EXTENDS Session, SequenceTheorems, TLAPS

(* What each thread may be doing, and with which command.                  *)
ThreadInv ==
    /\ pc["rx"] \in Updating \union {"idle", "flush", "close"}
    /\ pc["main"] \in Updating \union {"idle"}
    /\ ~announced => pc["main"] = "idle"
    /\ pc["cmd"] \in Starts => op = pc["cmd"]
    /\ pc["cmd"] = "entry" => op \in Starts /\ ~active
    /\ pc["cmd"] = "mark" => op = "detached"
    /\ pc["cmd"] \in {"flush", "close"} => op \in {"stop", "erase"}
    /\ pc["rx"] \in {"flush", "close"} => ~connected

(* A thread that has stored into the block and has not yet announced it.   *)
Dirty(t) == pc[t] \in {"content", "load", "store"}

(* The FLPR boots once, before anybody stores into the block; its numbers  *)
(* are never ahead of cfg_seq, unless an increment was lost.               *)
HandshakeInv ==
    /\ magic <=> fpc # "boot"
    /\ announced => magic
    /\ \A t \in Threads : Dirty(t) \/ pc[t] = "odr" => magic
    /\ fpc = "boot" => sensor = Off /\ fseq = 0
    /\ fpc # "read" => fgot = <<>>
    /\ DOMAIN fgot \subseteq Fields
    /\ ~collided => cfg_applied <= cfg_seq /\ fseq <= cfg_seq

(* What the FLPR has read, programmed and acknowledged is what the block   *)
(* holds, as long as cfg_seq has not moved and no thread is storing.       *)
AppliedInv ==
    ~collided /\ (\A t \in Threads : ~Dirty(t)) =>
        /\ fpc = "read" /\ fseq = cfg_seq =>
             \A f \in DOMAIN fgot : fgot[f] = cfg[f]
        /\ fpc = "ack" /\ fseq = cfg_seq /\ cfg_status = 0 =>
             sensor = Programmed(cfg.odr, cfg.content)
        /\ fpc = "poll" /\ cfg_applied = cfg_seq /\ cfg_status = 0 =>
             sensor = Programmed(cfg.odr, cfg.content)

(* A thread that will yet update the configuration.                        *)
WillUpdate(t) ==
    \/ Busy(t)
    \/ pc[t] = "mark"
    \/ pc[t] \in {"flush", "close"} /\ ~(t = "cmd" /\ op = "erase")

(* A thread in an update that none has overtaken: if no other is to update *)
(* after it, it has read, and stored, what is demanded.                    *)
Fresh(t) ==
    /\ pc[t] \in {"odr", "content"} => content[t] = Wanted
    /\ pc[t] = "content" => cfg.odr = setting
    /\ pc[t] \in {"load", "store"} => cfg.content = Wanted /\ cfg.odr = setting

LastToUpdate(t) == /\ Between(t) /\ t \notin overtaken
                   /\ \A s \in Threads \ {t} : ~WillUpdate(s)

FreshInv == \A t \in Threads : LastToUpdate(t) => Fresh(t)

(* Where no update is to come the block holds what is demanded.            *)
DemandInv ==
    announced /\ outdated = "no" /\ (\A t \in Threads : ~WillUpdate(t)) =>
        cfg.content = Wanted /\ (cfg.odr = setting \/ cfg.content = 0)

(* Where no disconnect came with a command pending: none is pending until  *)
(* the next connection, session_detached is set for a detached session and *)
(* no other, and a disconnect stops every other.                           *)
LinkInv ==
    ~overlapped =>
        /\ ~connected => queue = <<>> /\ pc["cmd"] = "idle"
        /\ pc["cmd"] = "mark" => active /\ kind = "detached"
        /\ pc["cmd"] # "mark" =>
             (session_detached <=> active /\ kind = "detached")
        /\ pc["rx"] = "flush" /\ active => kind # "detached"
        /\ ~connected /\ active /\ pc["rx"] # "flush" => kind = "detached"

IInv == /\ TypeOK /\ ThreadInv /\ HandshakeInv /\ AppliedInv /\ FreshInv
        /\ DemandInv /\ LinkInv

-----------------------------------------------------------------------------
(* TypeOK, by the groups of variables an action changes or leaves.         *)

Places == Updating \union Commands \union {"idle", "flush", "close", "entry", "mark"}
ConfigOrOff == Configs \union {0}

LinkType == /\ connected \in BOOLEAN /\ writes \in Nat /\ links \in Nat
            /\ queue \in Seq(Commands) /\ Len(queue) <= QueueDepth
ThreadType == pc \in [Threads -> Places] /\ op \in Commands \union {"none"}
LocalType == content \in [Threads -> ConfigOrOff] /\ seqread \in [Threads -> Nat]
WishType == stream_active \in BOOLEAN /\ setting \in Configs /\ announced \in BOOLEAN
LogType == /\ lock \in {"free"} \union Threads
           /\ active \in BOOLEAN /\ session_detached \in BOOLEAN
           /\ kind \in Starts \union {"none"}
BlockType == /\ magic \in BOOLEAN
             /\ cfg \in [odr : ConfigOrOff, content : ConfigOrOff]
             /\ cfg_seq \in Nat /\ cfg_applied \in Nat /\ cfg_status \in {0, 1}
FlprType == fpc \in {"boot", "parked", "poll", "read", "ack"} /\ fseq \in Nat
HistoryType == /\ overlapped \in BOOLEAN /\ collided \in BOOLEAN
               /\ overtaken \subseteq Threads
               /\ outdated \in {"no", "overtaken", "erased"}
Types == /\ LinkType /\ ThreadType /\ LocalType /\ WishType /\ LogType
         /\ BlockType /\ FlprType /\ HistoryType

LEMMA TypeParts == TypeOK <=> Types
  BY DEF TypeOK, Types, LinkType, ThreadType, LocalType, WishType, LogType,
         BlockType, FlprType, HistoryType, Places, ConfigOrOff

LEMMA TypePartsNext == TypeOK' <=> Types'
  BY TypeParts, PTL

LEMMA TypesStay ==
  ASSUME Types
  PROVE  /\ UNCHANGED link => LinkType'
         /\ UNCHANGED threads => ThreadType'
         /\ UNCHANGED locals => LocalType'
         /\ UNCHANGED wishes => WishType'
         /\ UNCHANGED log => LogType'
         /\ UNCHANGED block => BlockType'
         /\ UNCHANGED flpr => FlprType'
         /\ UNCHANGED history => HistoryType'
<1>1. /\ UNCHANGED link => LinkType'
      /\ UNCHANGED threads => ThreadType'
      /\ UNCHANGED locals => LocalType'
      /\ UNCHANGED wishes => WishType'
  BY DEF Types, LinkType, ThreadType, LocalType, WishType, link, threads, locals, wishes
<1>2. /\ UNCHANGED log => LogType'
      /\ UNCHANGED flpr => FlprType'
      /\ UNCHANGED history => HistoryType'
  BY DEF Types, LogType, FlprType, HistoryType, log, flpr, history
<1>3. UNCHANGED block => BlockType'
  BY DEF Types, BlockType, block, ack
<1> QED
  BY <1>1, <1>2, <1>3

(* Goto moves one thread and leaves the others.                            *)
LEMMA GotoMoves ==
  ASSUME ThreadType, NEW t \in Threads, NEW step \in Places, Goto(t, step)
  PROVE  /\ ThreadType'
         /\ pc'[t] = step /\ \A s \in Threads : s # t => pc'[s] = pc[s]
         /\ t # "cmd" \/ step # "idle" => op' = op
  BY DEF Goto, ThreadType

LEMMA PlacesAre ==
  /\ {"idle", "flush", "close", "entry", "mark", "demand", "odr", "content", "load",
      "store", "erase"} \subseteq Places
  /\ Commands \subseteq Places
  BY DEF Places, Updating, Commands

LEMMA QueueFacts ==
  ASSUME LinkType
  PROVE  /\ Len(queue) \in Nat
         /\ queue # <<>> => /\ Head(queue) \in Commands /\ Tail(queue) \in Seq(Commands)
                            /\ Len(Tail(queue)) = Len(queue) - 1
         /\ \A o \in Commands : /\ Append(queue, o) \in Seq(Commands)
                                /\ Len(Append(queue, o)) = Len(queue) + 1
  BY HeadTailProperties, AppendProperties, LenProperties DEF LinkType

LEMMA UpdateTypes ==
  ASSUME Types, NEW t \in Threads, Update(t)
  PROVE  Types'
<1>1. CASE UpdateReadsDemand(t)
  <2>1. Wanted \in ConfigOrOff /\ 0 \in ConfigOrOff
    BY DEF Types, WishType, Wanted, ConfigOrOff
  <2>2. ThreadType'
    BY <1>1, GotoMoves, PlacesAre DEF UpdateReadsDemand, Types
  <2>3. LocalType'
    BY <1>1, <2>1 DEF UpdateReadsDemand, Types, LocalType
  <2> QED
    BY <1>1, <2>2, <2>3, TypesStay DEF UpdateReadsDemand, Types
<1>2. CASE UpdateStoresOdr(t)
  <2>1. ThreadType'
    BY <1>2, GotoMoves, PlacesAre DEF UpdateStoresOdr, Types
  <2>2. BlockType'
    BY <1>2 DEF UpdateStoresOdr, Types, BlockType, WishType, ConfigOrOff, ack
  <2> QED
    BY <1>2, <2>1, <2>2, TypesStay DEF UpdateStoresOdr, Types
<1>3. CASE UpdateStoresContent(t)
  <2>1. ThreadType'
    BY <1>3, GotoMoves, PlacesAre DEF UpdateStoresContent, Types
  <2>2. BlockType'
    BY <1>3 DEF UpdateStoresContent, Types, BlockType, LocalType, ack
  <2> QED
    BY <1>3, <2>1, <2>2, TypesStay DEF UpdateStoresContent, Types
<1>4. CASE UpdateLoadsSeq(t)
  <2>1. ThreadType'
    BY <1>4, GotoMoves, PlacesAre DEF UpdateLoadsSeq, Types
  <2>2. LocalType'
    BY <1>4 DEF UpdateLoadsSeq, Types, LocalType, BlockType
  <2> QED
    BY <1>4, <2>1, <2>2, TypesStay DEF UpdateLoadsSeq, Types
<1>5. CASE UpdateStoresSeq(t)
  <2>1. ThreadType'
    BY <1>5, GotoMoves, PlacesAre DEF UpdateStoresSeq, Types
  <2>2. LocalType'
    BY <1>5 DEF UpdateStoresSeq, Types, LocalType, ConfigOrOff
  <2>3. BlockType'
    BY <1>5 DEF UpdateStoresSeq, Types, BlockType, LocalType, ack
  <2>4. HistoryType'
    BY <1>5 DEF UpdateStoresSeq, Types, HistoryType
  <2> QED
    BY <1>5, <2>1, <2>2, <2>3, <2>4, TypesStay DEF UpdateStoresSeq, Types
<1> QED
  BY <1>1, <1>2, <1>3, <1>4, <1>5 DEF Update

LEMMA StopTypes ==
  ASSUME Types, NEW t \in Threads, Stop(t)
  PROVE  Types'
<1>1. AfterStop(t) => ThreadType'
  BY GotoMoves, PlacesAre DEF AfterStop, Types
<1>2. CASE StopDeactivates(t)
  <2>1. ThreadType'
    BY <1>2, GotoMoves, PlacesAre DEF StopDeactivates, Types
  <2>2. LogType' /\ HistoryType'
    BY <1>2 DEF StopDeactivates, Types, LogType, HistoryType
  <2> QED
    BY <1>2, <2>1, <2>2, TypesStay DEF StopDeactivates, Types
<1>3. CASE StopFindsInactive(t)
  BY <1>1, <1>3, TypesStay DEF StopFindsInactive, Types
<1>4. CASE StopCloses(t)
  <2>1. LogType'
    BY <1>4 DEF StopCloses, Types, LogType
  <2> QED
    BY <1>1, <1>4, <2>1, TypesStay DEF StopCloses, Types
<1> QED
  BY <1>2, <1>3, <1>4 DEF Stop

LEMMA HostTypes ==
  ASSUME Types, Host \/ Disconnects \/ MainAnnounces
  PROVE  Types'
<1>0. "rx" \in Threads /\ "main" \in Threads
  BY DEF Threads
<1>1. CASE Connects
  <2>1. LinkType'
    BY <1>1 DEF Connects, Types, LinkType
  <2> QED
    BY <1>1, <2>1, TypesStay DEF Connects, Types
<1>2. ASSUME NEW on \in BOOLEAN, Subscribes(on) PROVE Types'
  <2>1. ThreadType'
    BY <1>0, <1>2, GotoMoves, PlacesAre DEF Subscribes, Types
  <2>2. LinkType' /\ WishType'
    BY <1>2 DEF Subscribes, Writes, Types, LinkType, WishType
  <2> QED
    BY <1>2, <2>1, <2>2, TypesStay DEF Subscribes, Types
<1>3. ASSUME NEW c \in Configs, Configures(c) PROVE Types'
  <2>1. ThreadType'
    BY <1>0, <1>3, GotoMoves, PlacesAre DEF Configures, Types
  <2>2. LinkType' /\ WishType'
    BY <1>3 DEF Configures, Writes, Types, LinkType, WishType
  <2> QED
    BY <1>3, <2>1, <2>2, TypesStay DEF Configures, Types
<1>4. ASSUME NEW o \in HostCommands, Submits(o) PROVE Types'
  <2>1. o \in Commands
    BY SessionAssumption
  <2>2. /\ queue' \in Seq(Commands) /\ Len(queue') = Len(queue) + 1
        /\ Len(queue) \in Nat /\ Len(queue) < QueueDepth
    BY <1>4, <2>1, QueueFacts, SessionAssumption DEF Submits, QueueFull, Types
  <2>3. Len(queue') <= QueueDepth
    BY <2>2, SessionAssumption
  <2>4. LinkType'
    BY <1>4, <2>2, <2>3 DEF Submits, Writes, Types, LinkType
  <2> QED
    BY <1>4, <2>4, TypesStay DEF Submits, Types
<1>5. CASE Disconnects
  <2>1. ThreadType'
    BY <1>0, <1>5, GotoMoves, PlacesAre DEF Disconnects, Types
  <2>2. LinkType' /\ WishType' /\ HistoryType'
    BY <1>5 DEF Disconnects, Types, LinkType, WishType, HistoryType
  <2> QED
    BY <1>5, <2>1, <2>2, TypesStay DEF Disconnects, Types
<1>6. CASE MainAnnounces
  <2>1. ThreadType'
    BY <1>0, <1>6, GotoMoves, PlacesAre DEF MainAnnounces, Types
  <2>2. WishType'
    BY <1>6 DEF MainAnnounces, Types, WishType
  <2> QED
    BY <1>6, <2>1, <2>2, TypesStay DEF MainAnnounces, Types
<1> QED
  BY <1>1, <1>2, <1>3, <1>4, <1>5, <1>6 DEF Host

LEMMA CmdTypes ==
  ASSUME Types, ThreadInv, Cmd
  PROVE  Types'
<1>0. "cmd" \in Threads /\ Starts \subseteq Commands
  BY DEF Threads, Starts, Commands
<1>1. CASE CmdTakes
  <2>1. op' \in Commands /\ queue' \in Seq(Commands) /\ Len(queue') <= QueueDepth
    BY <1>1, QueueFacts, SessionAssumption DEF CmdTakes, Types, LinkType
  <2>2. LinkType'
    BY <1>1, <2>1 DEF CmdTakes, Types, LinkType
  <2>3. ThreadType'
    BY <1>1, <2>1, PlacesAre DEF CmdTakes, Types, ThreadType
  <2> QED
    BY <1>1, <2>2, <2>3, TypesStay DEF CmdTakes, Types
<1>2. CASE VoltSet
  BY <1>0, <1>2, GotoMoves, PlacesAre, TypesStay DEF VoltSet, Types
<1>3. CASE StartBusy
  BY <1>0, <1>3, GotoMoves, PlacesAre, TypesStay DEF StartBusy, Types
<1>4. CASE Erases
  BY <1>0, <1>4, GotoMoves, PlacesAre, TypesStay DEF Erases, Types
<1>5. CASE StartLocks
  <2>1. ThreadType'
    BY <1>0, <1>5, GotoMoves, PlacesAre DEF StartLocks, Types
  <2>2. LogType'
    BY <1>0, <1>5 DEF StartLocks, Types, LogType
  <2> QED
    BY <1>5, <2>1, <2>2, TypesStay DEF StartLocks, Types
<1>6. CASE StartRuns
  <2>1. ThreadType'
    BY <1>0, <1>6, GotoMoves, PlacesAre DEF StartRuns, Types
  <2>2. LogType'
    BY <1>6 DEF StartRuns, Types, LogType, ThreadInv
  <2> QED
    BY <1>6, <2>1, <2>2, TypesStay DEF StartRuns, Types
<1>7. CASE StartFails
  <2>1. ThreadType'
    BY <1>0, <1>7, GotoMoves, PlacesAre DEF StartFails, Types
  <2>2. LogType'
    BY <1>7 DEF StartFails, Types, LogType
  <2> QED
    BY <1>7, <2>1, <2>2, TypesStay DEF StartFails, Types
<1>8. CASE MarkDetached
  <2>1. ThreadType'
    BY <1>0, <1>8, GotoMoves, PlacesAre DEF MarkDetached, Types
  <2>2. LogType'
    BY <1>8 DEF MarkDetached, Types, LogType
  <2> QED
    BY <1>8, <2>1, <2>2, TypesStay DEF MarkDetached, Types
<1> QED
  BY <1>0, <1>1, <1>2, <1>3, <1>4, <1>5, <1>6, <1>7, <1>8, UpdateTypes, StopTypes
     DEF Cmd

LEMMA FlprTypes ==
  ASSUME Types, Flpr
  PROVE  Types'
<1>1. ASSUME NEW ok \in BOOLEAN, FlprAnnounces(ok) PROVE Types'
  <2>1. BlockType'
    BY <1>1 DEF FlprAnnounces, Types, BlockType, Off, ConfigOrOff
  <2>2. FlprType'
    BY <1>1 DEF FlprAnnounces, Types, FlprType
  <2> QED
    BY <1>1, <2>1, <2>2, TypesStay DEF FlprAnnounces, Types
<1>2. CASE FlprSeesConfig
  <2>1. FlprType'
    BY <1>2 DEF FlprSeesConfig, Types, FlprType, BlockType
  <2> QED
    BY <1>2, <2>1, TypesStay DEF FlprSeesConfig, Types
<1>3. ASSUME NEW f \in Fields, FlprReads(f) PROVE Types'
  <2>1. FlprType'
    BY <1>3 DEF FlprReads, Types, FlprType
  <2> QED
    BY <1>3, <2>1, TypesStay DEF FlprReads, Types
<1>4. ASSUME NEW ok \in BOOLEAN, FlprConfigures(ok) PROVE Types'
  <2>1. BlockType'
    BY <1>4 DEF FlprConfigures, Types, BlockType
  <2>2. FlprType'
    BY <1>4 DEF FlprConfigures, Types, FlprType
  <2> QED
    BY <1>4, <2>1, <2>2, TypesStay DEF FlprConfigures, Types
<1>5. CASE FlprAcks
  <2>1. BlockType' /\ FlprType'
    BY <1>5 DEF FlprAcks, Types, BlockType, FlprType
  <2> QED
    BY <1>5, <2>1, TypesStay DEF FlprAcks, Types
<1> QED
  BY <1>1, <1>2, <1>3, <1>4, <1>5 DEF Flpr

LEMMA TypeNext == IInv /\ [Next]_vars => TypeOK'
<1> SUFFICES ASSUME IInv, [Next]_vars PROVE Types'
  BY TypePartsNext
<1>1. Types /\ ThreadInv
  BY TypeParts DEF IInv
<1>2. CASE UNCHANGED vars
  BY <1>1, <1>2, TypesStay DEF vars, Types
<1>3. "rx" \in Threads /\ "main" \in Threads
  BY DEF Threads
<1> QED
  BY <1>1, <1>2, <1>3, UpdateTypes, StopTypes, HostTypes, CmdTypes, FlprTypes
     DEF Next, Rx, Main

-----------------------------------------------------------------------------
(* What the actions of a thread leave alone.                               *)

LEMMA UpdateKeeps ==
  ASSUME Types, NEW t \in Threads, Update(t)
  PROVE  /\ pc[t] \in Updating /\ pc'[t] \in Updating \union {"idle"}
         /\ \A s \in Threads : s # t => pc'[s] = pc[s]
         /\ t # "cmd" => op' = op
         /\ UNCHANGED <<link, wishes, log, magic, ack, flpr, overlapped>>
<1>1. CASE UpdateReadsDemand(t)
  BY <1>1, GotoMoves, PlacesAre
     DEF UpdateReadsDemand, Types, Updating, block, history
<1>2. CASE UpdateStoresOdr(t)
  BY <1>2, GotoMoves, PlacesAre DEF UpdateStoresOdr, Types, Updating, history
<1>3. CASE UpdateStoresContent(t)
  BY <1>3, GotoMoves, PlacesAre DEF UpdateStoresContent, Types, Updating, history
<1>4. CASE UpdateLoadsSeq(t)
  BY <1>4, GotoMoves, PlacesAre
     DEF UpdateLoadsSeq, Types, Updating, block, history
<1>5. CASE UpdateStoresSeq(t)
  BY <1>5, GotoMoves, PlacesAre DEF UpdateStoresSeq, Types, Updating
<1> QED
  BY <1>1, <1>2, <1>3, <1>4, <1>5 DEF Update

LEMMA StopKeeps ==
  ASSUME Types, NEW t \in Threads, Stop(t)
  PROVE  /\ pc[t] \in {"flush", "close"}
         /\ pc[t] = "close" =>
              /\ pc'[t] \in {"demand", "erase"} /\ active' = active
              /\ session_detached' = session_detached
         /\ pc[t] = "flush" => ~active'
         /\ pc[t] = "flush" /\ active =>
              /\ pc'[t] = "close" /\ ~session_detached'
              /\ lock' = t
              /\ outdated' = IF t = "cmd" /\ op = "erase" THEN "erased" ELSE outdated
         /\ pc[t] = "flush" /\ ~active =>
              /\ pc'[t] \in {"demand", "erase"}
              /\ session_detached' = session_detached
         /\ pc'[t] = "erase" => t = "cmd" /\ op = "erase"
         /\ pc[t] = "close" \/ ~active => outdated' = outdated
         /\ \A s \in Threads : s # t => pc'[s] = pc[s]
         /\ op' = op
         /\ UNCHANGED <<link, locals, wishes, kind, block, flpr, overlapped, overtaken,
                        collided>>
<1>1. ASSUME AfterStop(t)
      PROVE  /\ pc'[t] = IF t = "cmd" /\ op = "erase" THEN "erase" ELSE "demand"
             /\ \A s \in Threads : s # t => pc'[s] = pc[s]
             /\ op' = op
  BY <1>1, GotoMoves, PlacesAre DEF AfterStop, Types
<1>2. CASE StopDeactivates(t)
  BY <1>2, GotoMoves, PlacesAre DEF StopDeactivates, Types
<1>3. CASE StopFindsInactive(t)
  BY <1>1, <1>3 DEF StopFindsInactive, log, history
<1>4. CASE StopCloses(t)
  BY <1>1, <1>4 DEF StopCloses, history
<1> QED
  BY <1>2, <1>3, <1>4 DEF Stop

(* The command thread, but for its updates and stops.                      *)
LEMMA CmdKeeps ==
  ASSUME Types, CmdTakes \/ VoltSet \/ StartBusy \/ StartLocks \/ StartRuns
                  \/ StartFails \/ MarkDetached \/ Erases
  PROVE  /\ \A s \in Threads : s # "cmd" => pc'[s] = pc[s]
         /\ UNCHANGED <<connected, locals, wishes, block, flpr, history>>
<1>0. "cmd" \in Threads
  BY DEF Threads
<1>1. CASE CmdTakes
  BY <1>1 DEF CmdTakes, Types, ThreadType
<1>2. CASE VoltSet
  BY <1>0, <1>2, GotoMoves, PlacesAre DEF VoltSet, Types, link
<1>3. CASE StartBusy
  BY <1>0, <1>3, GotoMoves, PlacesAre DEF StartBusy, Types, link
<1>4. CASE StartLocks
  BY <1>0, <1>4, GotoMoves, PlacesAre DEF StartLocks, Types, link
<1>5. CASE StartRuns
  BY <1>0, <1>5, GotoMoves, PlacesAre DEF StartRuns, Types, link
<1>6. CASE StartFails
  BY <1>0, <1>6, GotoMoves, PlacesAre DEF StartFails, Types, link
<1>7. CASE MarkDetached
  BY <1>0, <1>7, GotoMoves, PlacesAre DEF MarkDetached, Types, link
<1>8. CASE Erases
  BY <1>0, <1>8, GotoMoves, PlacesAre DEF Erases, Types, link
<1> QED
  BY <1>1, <1>2, <1>3, <1>4, <1>5, <1>6, <1>7, <1>8

(* Where each of them goes.                                                *)
LEMMA CmdMoves ==
  ASSUME Types
  PROVE  /\ CmdTakes =>
              /\ pc["cmd"] = "idle" /\ queue # <<>> /\ op' \in Commands
              /\ pc'["cmd"] = IF op' \in {"stop", "erase"} /\ active THEN "flush"
                              ELSE IF op' = "stop" THEN "demand" ELSE op'
              /\ UNCHANGED log
         /\ VoltSet => /\ pc["cmd"] = "volt" /\ pc'["cmd"] = "idle"
                       /\ UNCHANGED <<link, log>>
         /\ StartBusy => /\ pc["cmd"] \in Starts /\ pc'["cmd"] = "idle"
                         /\ UNCHANGED <<link, log>>
         /\ StartLocks => /\ pc["cmd"] \in Starts /\ pc'["cmd"] = "entry"
                          /\ ~active /\ op' = op
                          /\ UNCHANGED <<link, active, session_detached, kind>>
         /\ StartRuns => /\ pc["cmd"] = "entry"
                         /\ pc'["cmd"] = IF op = "detached" THEN "mark" ELSE "demand"
                         /\ active' /\ kind' = op /\ op' = op
                         /\ UNCHANGED <<link, session_detached>>
         /\ StartFails => /\ pc["cmd"] = "entry" /\ pc'["cmd"] = "idle"
                          /\ UNCHANGED <<link, active, session_detached, kind>>
         /\ MarkDetached => /\ pc["cmd"] = "mark" /\ pc'["cmd"] = "demand"
                            /\ session_detached'
                            /\ UNCHANGED <<link, active, kind>>
         /\ Erases => /\ pc["cmd"] = "erase" /\ pc'["cmd"] = "idle"
                      /\ UNCHANGED <<link, log>>
<1>0. "cmd" \in Threads
  BY DEF Threads
<1>1. ASSUME CmdTakes
      PROVE  /\ pc["cmd"] = "idle" /\ queue # <<>> /\ op' \in Commands
             /\ pc'["cmd"] = IF op' \in {"stop", "erase"} /\ active THEN "flush"
                             ELSE IF op' = "stop" THEN "demand" ELSE op'
             /\ UNCHANGED log
  BY <1>0, <1>1, QueueFacts DEF CmdTakes, Types, ThreadType
<1>2. /\ VoltSet => /\ pc["cmd"] = "volt" /\ pc'["cmd"] = "idle"
                    /\ UNCHANGED <<link, log>>
      /\ StartBusy => /\ pc["cmd"] \in Starts /\ pc'["cmd"] = "idle"
                      /\ UNCHANGED <<link, log>>
      /\ Erases => /\ pc["cmd"] = "erase" /\ pc'["cmd"] = "idle"
                   /\ UNCHANGED <<link, log>>
  BY <1>0, GotoMoves, PlacesAre DEF VoltSet, StartBusy, Erases, Types
<1>3. /\ StartLocks => /\ pc["cmd"] \in Starts /\ pc'["cmd"] = "entry"
                       /\ ~active /\ op' = op
                       /\ UNCHANGED <<link, active, session_detached, kind>>
      /\ StartFails => /\ pc["cmd"] = "entry" /\ pc'["cmd"] = "idle"
                       /\ UNCHANGED <<link, active, session_detached, kind>>
  BY <1>0, GotoMoves, PlacesAre DEF StartLocks, StartFails, Types
<1>4. /\ StartRuns => /\ pc["cmd"] = "entry"
                      /\ pc'["cmd"] = IF op = "detached" THEN "mark" ELSE "demand"
                      /\ active' /\ kind' = op /\ op' = op
                      /\ UNCHANGED <<link, session_detached>>
      /\ MarkDetached => /\ pc["cmd"] = "mark" /\ pc'["cmd"] = "demand"
                         /\ session_detached'
                         /\ UNCHANGED <<link, active, kind>>
  BY <1>0, GotoMoves, PlacesAre DEF StartRuns, MarkDetached, Types
<1> QED
  BY <1>1, <1>2, <1>3, <1>4

(* A handler that ends in an update, and the announcement of main().       *)
LEMMA HandlerKeeps ==
  ASSUME Types
  PROVE  /\ Connects => /\ connected' /\ ~connected /\ pc["rx"] = "idle"
                        /\ UNCHANGED <<queue, threads, locals, wishes, log, block,
                                       flpr, history>>
         /\ \A on \in BOOLEAN : Subscribes(on) =>
              /\ connected /\ pc["rx"] = "idle" /\ pc'["rx"] = "demand" /\ op' = op
              /\ \A s \in Threads : s # "rx" => pc'[s] = pc[s]
              /\ UNCHANGED <<connected, queue, announced, locals, log, block, flpr, history>>
         /\ \A c \in Configs : Configures(c) =>
              /\ connected /\ pc["rx"] = "idle" /\ pc'["rx"] = "demand" /\ op' = op
              /\ \A s \in Threads : s # "rx" => pc'[s] = pc[s]
              /\ UNCHANGED <<connected, queue, announced, locals, log, block, flpr, history>>
         /\ \A o \in HostCommands : Submits(o) =>
              /\ connected
              /\ UNCHANGED <<connected, threads, locals, wishes, log, block, flpr, history>>
         /\ Disconnects =>
              /\ connected /\ ~connected' /\ pc["rx"] = "idle" /\ op' = op
              /\ pc'["rx"] = IF DisconnectStops THEN "flush" ELSE "demand"
              /\ \A s \in Threads : s # "rx" => pc'[s] = pc[s]
              /\ overlapped' = (overlapped \/ queue # <<>> \/ pc["cmd"] # "idle")
              /\ UNCHANGED <<queue, announced, locals, log, block, flpr,
                             overtaken, outdated, collided>>
         /\ MainAnnounces =>
              /\ magic /\ pc'["main"] = "demand" /\ op' = op
              /\ \A s \in Threads : s # "main" => pc'[s] = pc[s]
              /\ UNCHANGED <<link, stream_active, setting, locals, log, block, flpr,
                             history>>
<1>0. "rx" \in Threads /\ "main" \in Threads
  BY DEF Threads
<1>1. Connects => /\ connected' /\ ~connected /\ pc["rx"] = "idle"
                  /\ UNCHANGED <<queue, threads, locals, wishes, log, block,
                                 flpr, history>>
  BY DEF Connects
<1>2. ASSUME NEW on \in BOOLEAN, Subscribes(on)
      PROVE  /\ connected /\ pc["rx"] = "idle" /\ pc'["rx"] = "demand" /\ op' = op
             /\ \A s \in Threads : s # "rx" => pc'[s] = pc[s]
             /\ UNCHANGED <<connected, queue, announced, locals, log, block, flpr, history>>
  BY <1>0, <1>2, GotoMoves, PlacesAre DEF Subscribes, Types
<1>3. ASSUME NEW c \in Configs, Configures(c)
      PROVE  /\ connected /\ pc["rx"] = "idle" /\ pc'["rx"] = "demand" /\ op' = op
             /\ \A s \in Threads : s # "rx" => pc'[s] = pc[s]
             /\ UNCHANGED <<connected, queue, announced, locals, log, block, flpr, history>>
  BY <1>0, <1>3, GotoMoves, PlacesAre DEF Configures, Types
<1>4. \A o \in HostCommands : Submits(o) =>
        /\ connected
        /\ UNCHANGED <<connected, threads, locals, wishes, log, block, flpr, history>>
  BY DEF Submits
<1>5. ASSUME Disconnects
      PROVE  /\ connected /\ ~connected' /\ pc["rx"] = "idle" /\ op' = op
             /\ pc'["rx"] = IF DisconnectStops THEN "flush" ELSE "demand"
             /\ \A s \in Threads : s # "rx" => pc'[s] = pc[s]
             /\ overlapped' = (overlapped \/ queue # <<>> \/ pc["cmd"] # "idle")
             /\ UNCHANGED <<queue, announced, locals, log, block, flpr,
                            overtaken, outdated, collided>>
  BY <1>0, <1>5, GotoMoves, PlacesAre DEF Disconnects, Types
<1>6. ASSUME MainAnnounces
      PROVE  /\ magic /\ pc'["main"] = "demand" /\ op' = op
             /\ \A s \in Threads : s # "main" => pc'[s] = pc[s]
             /\ UNCHANGED <<link, stream_active, setting, locals, log, block, flpr,
                            history>>
  BY <1>0, <1>6, GotoMoves, PlacesAre DEF MainAnnounces, Types
<1> QED
  BY <1>1, <1>2, <1>3, <1>4, <1>5, <1>6

-----------------------------------------------------------------------------
CmdSteps == CmdTakes \/ VoltSet \/ StartBusy \/ StartLocks \/ StartRuns
              \/ StartFails \/ MarkDetached \/ Erases

LEMMA ThreadNext == IInv /\ [Next]_vars => ThreadInv'
<1> SUFFICES ASSUME IInv, [Next]_vars PROVE ThreadInv'
  OBVIOUS
<1>0. /\ Types /\ ThreadInv /\ Threads = {"rx", "main", "cmd"}
      /\ Updating = {"demand", "odr", "content", "load", "store"}
      /\ Starts = {"start", "detached"}
      /\ Commands = {"stop", "start", "detached", "erase", "volt"}
  BY TypeParts DEF IInv, Threads, Updating, Starts, Commands
<1>1. ASSUME NEW t \in Threads, Update(t) PROVE ThreadInv'
  <2>1. /\ pc'[t] \in Updating \union {"idle"}
        /\ \A s \in Threads : s # t => pc'[s] = pc[s]
        /\ t # "cmd" => op' = op
        /\ active' = active /\ connected' = connected /\ announced' = announced
        /\ pc[t] \in Updating
    BY <1>0, <1>1, UpdateKeeps DEF log, link, wishes
  <2> QED
    BY <1>0, <2>1 DEF ThreadInv
<1>2. ASSUME NEW t \in {"rx", "cmd"}, Stop(t) PROVE ThreadInv'
  <2>1. t \in Threads
    BY <1>0
  <2>2. /\ pc[t] \in {"flush", "close"}
        /\ pc'[t] \in {"demand", "erase", "close"}
        /\ pc'[t] = "erase" => t = "cmd" /\ op = "erase"
        /\ \A s \in Threads : s # t => pc'[s] = pc[s]
        /\ op' = op /\ connected' = connected /\ (active' => active)
        /\ announced' = announced
    BY <1>0, <1>2, <2>1, StopKeeps DEF link, wishes
  <2> QED
    BY <1>0, <2>2 DEF ThreadInv
<1>3. CASE CmdSteps
  <2>1. /\ \A s \in Threads : s # "cmd" => pc'[s] = pc[s]
        /\ connected' = connected /\ announced' = announced
    BY <1>0, <1>3, CmdKeeps DEF CmdSteps, wishes
  <2>2. /\ pc'["cmd"] \in Starts => op' = pc'["cmd"]
        /\ pc'["cmd"] = "entry" => op' \in Starts /\ ~active'
        /\ pc'["cmd"] = "mark" => op' = "detached"
        /\ pc'["cmd"] \in {"flush", "close"} => op' \in {"stop", "erase"}
    BY <1>0, <1>3, CmdMoves DEF CmdSteps, ThreadInv
  <2> QED
    BY <1>0, <2>1, <2>2 DEF ThreadInv
<1>4. CASE Connects
  BY <1>0, <1>4, HandlerKeeps DEF ThreadInv, threads, log, wishes
<1>5. ASSUME NEW on \in BOOLEAN, Subscribes(on) PROVE ThreadInv'
  BY <1>0, <1>5, HandlerKeeps DEF ThreadInv, log
<1>6. ASSUME NEW c \in Configs, Configures(c) PROVE ThreadInv'
  BY <1>0, <1>6, HandlerKeeps DEF ThreadInv, log
<1>7. ASSUME NEW o \in HostCommands, Submits(o) PROVE ThreadInv'
  BY <1>0, <1>7, HandlerKeeps DEF ThreadInv, threads, log, wishes
<1>8. CASE Disconnects
  BY <1>0, <1>8, HandlerKeeps DEF ThreadInv, log
<1>9. CASE MainAnnounces
  <2>1. announced'
    BY <1>9 DEF MainAnnounces
  <2> QED
    BY <1>0, <1>9, <2>1, HandlerKeeps DEF ThreadInv, log, link
<1>10. CASE Flpr
  <2>1. UNCHANGED <<link, threads, log, wishes>>
    BY <1>10 DEF Flpr, FlprAnnounces, FlprSeesConfig, FlprReads, FlprConfigures,
                 FlprAcks
  <2> QED
    BY <1>0, <2>1 DEF ThreadInv, link, threads, log, wishes
<1>11. CASE UNCHANGED vars
  BY <1>0, <1>11 DEF vars, ThreadInv, link, threads, log, wishes
<1> QED
  BY <1>0, <1>1, <1>2, <1>3, <1>4, <1>5, <1>6, <1>7, <1>8, <1>9, <1>10, <1>11
     DEF Next, Host, Rx, Main, Cmd, CmdSteps

-----------------------------------------------------------------------------
(* What an update stores into the block.                                   *)
LEMMA UpdateStores ==
  ASSUME Types, NEW t \in Threads, Update(t)
  PROVE  \/ /\ UNCHANGED <<cfg, cfg_seq, overtaken, outdated, collided>>
            /\ \/ pc[t] = "demand" /\ pc'[t] = "odr" /\ magic
                    /\ content'[t] = Wanted
               \/ pc[t] = "demand" /\ pc'[t] = "idle" /\ ~magic
               \/ pc[t] = "load" /\ pc'[t] = "store"
         \/ /\ UNCHANGED <<content, cfg_seq, overtaken, outdated, collided>>
            /\ pc[t] = "odr" /\ pc'[t] = "content" /\ cfg'.odr = setting
         \/ /\ UNCHANGED <<cfg_seq, overtaken, outdated, collided>>
            /\ pc[t] = "content" /\ pc'[t] = "load"
            /\ cfg'.odr = cfg.odr /\ cfg'.content = content[t]
         \/ /\ pc[t] = "store" /\ pc'[t] = "idle" /\ UNCHANGED cfg
            /\ collided' = (collided \/ cfg_seq # seqread[t])
            /\ cfg_seq' = seqread[t] + 1
            /\ overtaken' = (overtaken \ {t}) \union {s \in Threads \ {t} : Between(s)}
            /\ outdated' = IF t \in overtaken
                                /\ (cfg.content # Wanted \/ cfg.odr # setting)
                             THEN "overtaken" ELSE "no"
<1>0. /\ content \in [Threads -> ConfigOrOff]
      /\ cfg \in [odr : ConfigOrOff, content : ConfigOrOff]
  BY DEF Types, LocalType, BlockType
<1>1. UpdateReadsDemand(t) =>
        /\ UNCHANGED <<cfg, cfg_seq, overtaken, outdated, collided>>
        /\ pc[t] = "demand"
        /\ \/ pc'[t] = "odr" /\ magic /\ content'[t] = Wanted
           \/ pc'[t] = "idle" /\ ~magic
  BY <1>0, GotoMoves, PlacesAre DEF UpdateReadsDemand, Types, block, history
<1>2. UpdateLoadsSeq(t) =>
        /\ UNCHANGED <<cfg, cfg_seq, overtaken, outdated, collided>>
        /\ pc[t] = "load" /\ pc'[t] = "store"
  BY GotoMoves, PlacesAre DEF UpdateLoadsSeq, Types, block, history
<1>3. UpdateStoresOdr(t) =>
        /\ UNCHANGED <<content, cfg_seq, overtaken, outdated, collided>>
        /\ pc[t] = "odr" /\ pc'[t] = "content" /\ cfg'.odr = setting
  BY <1>0, GotoMoves, PlacesAre DEF UpdateStoresOdr, Types, locals, history
<1>4. UpdateStoresContent(t) =>
        /\ UNCHANGED <<cfg_seq, overtaken, outdated, collided>>
        /\ pc[t] = "content" /\ pc'[t] = "load"
        /\ cfg'.odr = cfg.odr /\ cfg'.content = content[t]
  BY <1>0, GotoMoves, PlacesAre DEF UpdateStoresContent, Types, history
<1>5. UpdateStoresSeq(t) =>
        /\ pc[t] = "store" /\ pc'[t] = "idle" /\ UNCHANGED cfg
        /\ collided' = (collided \/ cfg_seq # seqread[t])
        /\ cfg_seq' = seqread[t] + 1
        /\ overtaken' = (overtaken \ {t}) \union {s \in Threads \ {t} : Between(s)}
        /\ outdated' = IF t \in overtaken
                            /\ (cfg.content # Wanted \/ cfg.odr # setting)
                         THEN "overtaken" ELSE "no"
  BY GotoMoves, PlacesAre DEF UpdateStoresSeq, Types
<1> QED
  BY <1>1, <1>2, <1>3, <1>4, <1>5 DEF Update

(* Every step that is not one of an update or of the FLPR: it leaves the   *)
(* block and the FLPR alone, and moves a thread only where it is not       *)
(* updating.                                                               *)
Aside == \/ \E t \in {"rx", "cmd"} : Stop(t)
         \/ CmdSteps \/ Host \/ Disconnects \/ MainAnnounces

LEMMA AsideKeeps ==
  ASSUME IInv, Aside
  PROVE  /\ UNCHANGED <<block, flpr, locals, collided>>
         /\ announced' => announced \/ magic
         /\ \A t \in Threads : /\ Dirty(t) => Dirty(t)'
                               /\ Dirty(t)' => Dirty(t)
                               /\ pc'[t] = "odr" => pc[t] = "odr"
                               /\ pc'[t] = "demand" \/ pc[t] = pc'[t] \/ ~Busy(t)
<1>0. /\ Types /\ ThreadInv /\ Threads = {"rx", "main", "cmd"}
      /\ Updating = {"demand", "odr", "content", "load", "store"}
      /\ Starts = {"start", "detached"}
      /\ Commands = {"stop", "start", "detached", "erase", "volt"}
  BY TypeParts DEF IInv, Threads, Updating, Starts, Commands
<1>1. ASSUME NEW t \in {"rx", "cmd"}, Stop(t)
      PROVE  /\ UNCHANGED <<block, flpr, locals, collided, announced>>
             /\ \A s \in Threads : s # t => pc'[s] = pc[s]
             /\ pc[t] \in {"flush", "close"} /\ pc'[t] \in {"demand", "erase", "close"}
  <2>1. t \in Threads
    BY <1>0
  <2> QED
    BY <1>0, <1>1, <2>1, StopKeeps DEF wishes
<1>2. CASE CmdSteps
  <2>1. /\ UNCHANGED <<block, flpr, locals, collided, announced>>
        /\ \A s \in Threads : s # "cmd" => pc'[s] = pc[s]
    BY <1>0, <1>2, CmdKeeps DEF CmdSteps, wishes, history
  <2>2. /\ pc["cmd"] \notin Updating
        /\ pc'["cmd"] \notin {"odr", "content", "load", "store"}
    BY <1>0, <1>2, CmdMoves DEF CmdSteps
  <2> QED
    BY <1>0, <2>1, <2>2 DEF Dirty, Busy
<1>3. CASE Connects \/ \E o \in HostCommands : Submits(o)
  BY <1>0, <1>3, HandlerKeeps DEF Dirty, Busy, threads, wishes, history
<1>4. CASE \/ \E on \in BOOLEAN : Subscribes(on)
           \/ \E c \in Configs : Configures(c)
  BY <1>0, <1>4, HandlerKeeps DEF Dirty, Busy, history
<1>5. CASE Disconnects
  BY <1>0, <1>5, HandlerKeeps DEF Dirty, Busy
<1>6. CASE MainAnnounces
  <2>1. pc["main"] = "idle"
    BY <1>0, <1>6 DEF ThreadInv, MainAnnounces
  <2> QED
    BY <1>0, <1>6, <2>1, HandlerKeeps DEF Dirty, Busy, history
<1>7. CASE \E t \in {"rx", "cmd"} : Stop(t)
  BY <1>0, <1>1, <1>7 DEF Dirty, Busy
<1> QED
  BY <1>2, <1>3, <1>4, <1>5, <1>6, <1>7 DEF Aside, Host

LEMMA StepsAre ==
  [Next]_vars => \/ Aside \/ Flpr \/ UNCHANGED vars
                 \/ \E t \in Threads : Update(t)
  BY DEF Next, Rx, Main, Cmd, CmdSteps, Aside, Threads

LEMMA HandshakeNext == IInv /\ [Next]_vars => HandshakeInv'
<1> SUFFICES ASSUME IInv, [Next]_vars PROVE HandshakeInv'
  OBVIOUS
<1>0. /\ Types /\ HandshakeInv
      /\ cfg_seq \in Nat /\ cfg_applied \in Nat /\ fseq \in Nat
      /\ seqread \in [Threads -> Nat]
  BY TypeParts DEF IInv, Types, BlockType, FlprType, LocalType
<1>1. CASE Aside
  BY <1>0, <1>1, AsideKeeps DEF HandshakeInv, block, ack, flpr
<1>2. ASSUME NEW t \in Threads, Update(t) PROVE HandshakeInv'
  <2>1. /\ \A s \in Threads : s # t => pc'[s] = pc[s]
        /\ UNCHANGED <<magic, announced, cfg_applied, fpc, fseq, fgot, sensor>>
    BY <1>0, <1>2, UpdateKeeps DEF wishes, ack, flpr
  <2>2. \A s \in Threads : (Dirty(s) \/ pc[s] = "odr")' => magic
    BY <1>0, <1>2, <2>1, UpdateStores DEF HandshakeInv, Dirty
  <2>3. ~collided' => ~collided /\ cfg_seq' \in {cfg_seq, cfg_seq + 1}
    BY <1>0, <1>2, UpdateStores
  <2>4. ~collided' => cfg_applied <= cfg_seq' /\ fseq <= cfg_seq'
    BY <1>0, <2>3 DEF HandshakeInv
  <2> QED
    BY <1>0, <2>1, <2>2, <2>4 DEF HandshakeInv
<1>3. ASSUME NEW ok \in BOOLEAN, FlprAnnounces(ok) PROVE HandshakeInv'
  BY <1>0, <1>3 DEF FlprAnnounces, HandshakeInv, Dirty, threads, wishes, history
<1>4. CASE FlprSeesConfig
  BY <1>0, <1>4 DEF FlprSeesConfig, HandshakeInv, Dirty, threads, wishes, block, ack,
                    history
<1>5. ASSUME NEW f \in Fields, FlprReads(f) PROVE HandshakeInv'
  <2>1. DOMAIN fgot' \subseteq Fields
    BY <1>0, <1>5 DEF FlprReads, HandshakeInv
  <2> QED
    BY <1>0, <1>5, <2>1 DEF FlprReads, HandshakeInv, Dirty, threads, wishes, block, ack,
                            history
<1>6. ASSUME NEW ok \in BOOLEAN, FlprConfigures(ok) PROVE HandshakeInv'
  BY <1>0, <1>6 DEF FlprConfigures, HandshakeInv, Dirty, threads, wishes, history
<1>7. CASE FlprAcks
  BY <1>0, <1>7 DEF FlprAcks, HandshakeInv, Dirty, threads, wishes, history
<1>8. CASE UNCHANGED vars
  BY <1>0, <1>8 DEF vars, HandshakeInv, Dirty, threads, wishes, block, ack, flpr, history
<1> QED
  BY <1>1, <1>2, <1>3, <1>4, <1>5, <1>6, <1>7, <1>8, StepsAre DEF Flpr

LEMMA AppliedNext == IInv /\ [Next]_vars => AppliedInv'
<1> SUFFICES ASSUME IInv, [Next]_vars PROVE AppliedInv'
  OBVIOUS
<1>0. /\ Types /\ HandshakeInv /\ AppliedInv
      /\ cfg_seq \in Nat /\ cfg_applied \in Nat /\ fseq \in Nat
      /\ seqread \in [Threads -> Nat]
  BY TypeParts DEF IInv, Types, BlockType, FlprType, LocalType
<1> DEFINE Quiet == \A s \in Threads : ~Dirty(s)
<1>1. CASE Aside
  <2>1. Quiet' => Quiet
    BY <1>1, AsideKeeps
  <2>2. UNCHANGED <<cfg, cfg_seq, cfg_applied, cfg_status, fpc, fseq, fgot, sensor,
                    collided>>
    BY <1>1, AsideKeeps DEF block, ack, flpr
  <2> QED
    BY <1>0, <2>1, <2>2 DEF AppliedInv
<1>2. ASSUME NEW t \in Threads, Update(t) PROVE AppliedInv'
  <2>1. /\ \A s \in Threads : s # t => pc'[s] = pc[s]
        /\ UNCHANGED <<cfg_applied, cfg_status, fpc, fseq, fgot, sensor>>
    BY <1>0, <1>2, UpdateKeeps DEF ack, flpr
  <2>2. CASE pc'[t] \in {"content", "load", "store"}
    BY <2>2 DEF AppliedInv, Dirty
  <2>3. CASE pc[t] = "demand"
    <3>1. UNCHANGED <<cfg, cfg_seq, collided>>
      BY <1>0, <1>2, <2>3, UpdateStores
    <3>2. Quiet' => Quiet
      BY <2>1, <2>3 DEF Dirty
    <3> QED
      BY <1>0, <2>1, <3>1, <3>2 DEF AppliedInv
  <2>4. CASE pc[t] = "store"
    <3>1. ~collided' => cfg_seq' = cfg_seq + 1 /\ ~collided
      BY <1>0, <1>2, <2>4, UpdateStores
    <3>2. ~collided' => cfg_applied' # cfg_seq' /\ fseq' # cfg_seq'
      BY <1>0, <2>1, <3>1 DEF HandshakeInv
    <3> QED
      BY <3>2 DEF AppliedInv
  <2> QED
    BY <1>0, <1>2, <2>2, <2>3, <2>4, UpdateStores
<1>3. ASSUME NEW ok \in BOOLEAN, FlprAnnounces(ok) PROVE AppliedInv'
  <2>1. fpc' \in {"poll", "parked"} /\ cfg' = Off /\ sensor' = Off
    BY <1>0, <1>3 DEF FlprAnnounces, HandshakeInv
  <2>2. Programmed(cfg'.odr, cfg'.content) = Off
    BY <2>1 DEF Programmed, Off
  <2> QED
    BY <2>1, <2>2 DEF AppliedInv
<1>4. CASE FlprSeesConfig
  <2>1. fpc' = "read" /\ fgot' = <<>>
    BY <1>0, <1>4 DEF FlprSeesConfig, HandshakeInv
  <2> QED
    BY <2>1 DEF AppliedInv
<1>5. ASSUME NEW f \in Fields, FlprReads(f) PROVE AppliedInv'
  <2>1. /\ fpc = "read" /\ fpc' = "read"
        /\ fgot' = [g \in DOMAIN fgot \union {f} |-> IF g = f THEN cfg[f] ELSE fgot[g]]
        /\ UNCHANGED <<pc, cfg, cfg_seq, fseq, collided>>
    BY <1>5 DEF FlprReads, threads, block, history
  <2>2. Quiet' = Quiet
    BY <2>1 DEF Dirty
  <2>3. ASSUME ~collided, Quiet, fseq = cfg_seq, NEW g \in DOMAIN fgot'
        PROVE  fgot'[g] = cfg[g]
    <3>1. \A h \in DOMAIN fgot : fgot[h] = cfg[h]
      BY <1>0, <2>1, <2>3 DEF AppliedInv
    <3> QED
      BY <2>1, <2>3, <3>1
  <2> QED
    BY <2>1, <2>2, <2>3 DEF AppliedInv
<1>6. ASSUME NEW ok \in BOOLEAN, FlprConfigures(ok) PROVE AppliedInv'
  <2>1. /\ fpc = "read" /\ fpc' = "ack" /\ DOMAIN fgot = Fields
        /\ UNCHANGED <<pc, cfg, cfg_seq, fseq, collided>>
        /\ cfg_status' = 0 => sensor' = Programmed(fgot.odr, fgot.content)
    BY <1>6 DEF FlprConfigures, threads, history
  <2>2. Quiet' = Quiet
    BY <2>1 DEF Dirty
  <2>3. ASSUME ~collided, Quiet, fseq = cfg_seq
        PROVE  fgot.odr = cfg.odr /\ fgot.content = cfg.content
    BY <1>0, <2>1, <2>3 DEF AppliedInv, Fields
  <2> QED
    BY <2>1, <2>2, <2>3 DEF AppliedInv
<1>7. CASE FlprAcks
  <2>1. /\ fpc = "ack" /\ fpc' = "poll" /\ cfg_applied' = fseq
        /\ UNCHANGED <<pc, cfg, cfg_seq, cfg_status, sensor, collided>>
    BY <1>7 DEF FlprAcks, threads, history
  <2>2. Quiet' = Quiet
    BY <2>1 DEF Dirty
  <2> QED
    BY <1>0, <2>1, <2>2 DEF AppliedInv
<1>8. CASE UNCHANGED vars
  <2>1. Quiet' = Quiet
    BY <1>8 DEF vars, Dirty, threads
  <2> QED
    BY <1>0, <1>8, <2>1 DEF vars, AppliedInv, block, ack, flpr, history
<1> QED
  BY <1>1, <1>2, <1>3, <1>4, <1>5, <1>6, <1>7, <1>8, StepsAre DEF Flpr

-----------------------------------------------------------------------------
LEMMA FreshNext == IInv /\ [Next]_vars => FreshInv'
<1> SUFFICES ASSUME IInv, [Next]_vars, NEW t \in Threads, LastToUpdate(t)'
             PROVE  Fresh(t)'
  BY DEF FreshInv
<1>0. /\ Types /\ FreshInv /\ HandshakeInv /\ Threads = {"rx", "main", "cmd"}
      /\ Updating = {"demand", "odr", "content", "load", "store"}
      /\ Starts = {"start", "detached"}
      /\ Commands = {"stop", "start", "detached", "erase", "volt"}
  BY TypeParts DEF IInv, Threads, Updating, Starts, Commands
<1>m. pc'[t] \in {"odr", "content", "load", "store"} /\ t \notin overtaken'
  BY <1>0 DEF LastToUpdate, Between
<1>1. ASSUME UNCHANGED <<cfg, content, stream_active, active, setting>>, pc'[t] = pc[t],
             LastToUpdate(t)
      PROVE  Fresh(t)'
  BY <1>0, <1>1 DEF FreshInv, Fresh, Wanted, Demand
<1>2. CASE Update(t)
  <2>1. /\ \A s \in Threads : s # t => pc'[s] = pc[s]
        /\ t # "cmd" => op' = op
        /\ UNCHANGED <<stream_active, active, setting>>
    BY <1>0, <1>2, UpdateKeeps DEF wishes, log
  <2>2. \A s \in Threads \ {t} : ~WillUpdate(s)
    BY <1>0, <2>1 DEF LastToUpdate, WillUpdate, Busy
  <2>3. Wanted' = Wanted
    BY <2>1 DEF Wanted, Demand
  <2>4. CASE pc[t] = "demand"
    BY <1>0, <1>2, <1>m, <2>1, <2>3, <2>4, UpdateStores DEF Fresh
  <2>5. CASE pc[t] # "demand"
    <3>1. Fresh(t) /\ overtaken' = overtaken
      BY <1>0, <1>2, <1>m, <2>2, <2>5, UpdateStores
         DEF FreshInv, LastToUpdate, Between
    <3> QED
      BY <1>0, <1>2, <1>m, <2>1, <2>3, <2>5, <3>1, UpdateStores DEF Fresh
  <2> QED
    BY <2>4, <2>5
<1>3. ASSUME NEW u \in Threads, u # t, Update(u) PROVE FALSE
  <2>1. pc'[t] = pc[t] /\ pc'[u] \in Updating \union {"idle"}
    BY <1>0, <1>3, UpdateKeeps
  <2>2. pc'[u] = "idle"
    BY <1>3, <2>1 DEF LastToUpdate, WillUpdate, Busy
  <2>3. magic /\ Between(t)
    BY <1>0, <1>m, <2>1 DEF HandshakeInv, Dirty, Between
  <2>4. t \in overtaken'
    BY <1>0, <1>3, <2>2, <2>3, UpdateStores
  <2> QED
    BY <1>m, <2>4
<1>4. ASSUME NEW u \in {"rx", "cmd"}, Stop(u) PROVE FALSE
  <2>1. /\ pc'[u] \in {"demand", "close", "erase"}
        /\ pc'[u] \in {"close", "erase"} /\ ~WillUpdate(u)' => u = "cmd"
        /\ \A s \in Threads : s # u => pc'[s] = pc[s]
    BY <1>0, <1>4, StopKeeps DEF WillUpdate
  <2>2. u # t /\ ~WillUpdate(u)'
    BY <1>0, <1>m, <2>1 DEF LastToUpdate
  <2>3. u = "cmd"
    BY <1>0, <2>1, <2>2 DEF WillUpdate, Busy
  <2>4. ~Busy("rx") /\ ~Busy("main")
    BY <1>4, <2>3 DEF Stop, StopDeactivates, StopFindsInactive, StopCloses, CanRun
  <2> QED
    BY <1>0, <1>m, <2>1, <2>2, <2>3, <2>4 DEF Busy
<1>5. CASE CmdSteps
  <2>1. ~Busy("rx") /\ ~Busy("main")
    BY <1>5 DEF CmdSteps, CmdTakes, VoltSet, StartBusy, StartLocks, StartRuns,
                StartFails, MarkDetached, Erases, CanRun
  <2>2. \A s \in Threads : s # "cmd" => pc'[s] = pc[s]
    BY <1>0, <1>5, CmdKeeps DEF CmdSteps
  <2>3. pc'["cmd"] \notin {"odr", "content", "load", "store"}
    BY <1>0, <1>5, CmdMoves DEF CmdSteps
  <2> QED
    BY <1>0, <1>m, <2>1, <2>2, <2>3 DEF Busy
<1>6. CASE Connects \/ \E o \in HostCommands : Submits(o)
  <2>1. UNCHANGED <<cfg, content, stream_active, active, setting, pc, op, overtaken>>
    BY <1>0, <1>6, HandlerKeeps DEF threads, locals, wishes, log, block, history
  <2> QED
    BY <1>1, <2>1 DEF LastToUpdate, Between, WillUpdate, Busy
<1>7. CASE \/ \E on \in BOOLEAN : Subscribes(on)
           \/ \E c \in Configs : Configures(c)
           \/ Disconnects \/ MainAnnounces
  <2>1. pc'["rx"] \in {"demand", "flush"} \/ pc'["main"] = "demand"
    BY <1>0, <1>7, HandlerKeeps
  <2> QED
    BY <1>0, <1>m, <2>1 DEF LastToUpdate, WillUpdate, Busy
<1>8. ASSUME NEW ok \in BOOLEAN, FlprAnnounces(ok) PROVE FALSE
  <2>1. ~magic /\ pc' = pc
    BY <1>0, <1>8 DEF FlprAnnounces, HandshakeInv, threads
  <2> QED
    BY <1>0, <1>m, <2>1 DEF HandshakeInv, Dirty
<1>9. CASE \/ FlprSeesConfig \/ FlprAcks \/ \E f \in Fields : FlprReads(f)
           \/ \E ok \in BOOLEAN : FlprConfigures(ok)
  <2>1. UNCHANGED <<cfg, content, stream_active, active, setting, pc, op, overtaken>>
    BY <1>9 DEF FlprSeesConfig, FlprAcks, FlprReads, FlprConfigures, threads, locals,
                wishes, block, log, history
  <2> QED
    BY <1>1, <2>1 DEF LastToUpdate, Between, WillUpdate, Busy
<1>10. CASE UNCHANGED vars
  <2>1. UNCHANGED <<cfg, content, stream_active, active, setting, pc, op, overtaken>>
    BY <1>10 DEF vars, threads, locals, wishes, block, log, history
  <2> QED
    BY <1>1, <2>1 DEF LastToUpdate, Between, WillUpdate, Busy
<1> QED
  BY <1>0, <1>2, <1>3, <1>4, <1>5, <1>6, <1>7, <1>8, <1>9, <1>10, StepsAre
     DEF Aside, Host, Flpr

LEMMA DemandNext == IInv /\ [Next]_vars => DemandInv'
<1> SUFFICES ASSUME IInv, [Next]_vars PROVE DemandInv'
  OBVIOUS
<1> DEFINE Held == cfg.content = Wanted /\ (cfg.odr = setting \/ cfg.content = 0)
           NoneTo == \A s \in Threads : ~WillUpdate(s)
<1>0. /\ Types /\ ThreadInv /\ HandshakeInv /\ FreshInv
      /\ Threads = {"rx", "main", "cmd"}
      /\ Updating = {"demand", "odr", "content", "load", "store"}
      /\ Starts = {"start", "detached"}
      /\ Commands = {"stop", "start", "detached", "erase", "volt"}
      /\ announced /\ outdated = "no" /\ NoneTo => Held
  BY TypeParts DEF IInv, Threads, Updating, Starts, Commands, DemandInv
<1>1. ASSUME UNCHANGED <<cfg, stream_active, active, setting>> PROVE Held' = Held
  BY <1>1 DEF Wanted, Demand
<1>2. ASSUME NEW t \in Threads, Update(t) PROVE DemandInv'
  <2>1. /\ \A s \in Threads : s # t => pc'[s] = pc[s]
        /\ pc'[t] \in Updating \union {"idle"}
        /\ t # "cmd" => op' = op
        /\ UNCHANGED <<announced, stream_active, active, setting>>
    BY <1>0, <1>2, UpdateKeeps DEF wishes, log
  <2>2. CASE pc'[t] # "idle"
    BY <2>1, <2>2 DEF DemandInv, WillUpdate, Busy
  <2>3. CASE pc'[t] = "idle"
    <3>1. \/ ~magic
          \/ /\ UNCHANGED cfg /\ pc[t] = "store"
             /\ outdated' = IF t \in overtaken
                                 /\ (cfg.content # Wanted \/ cfg.odr # setting)
                              THEN "overtaken" ELSE "no"
      BY <1>0, <1>2, <2>3, UpdateStores
    <3>2. CASE ~magic
      BY <1>0, <2>1, <3>2 DEF HandshakeInv, DemandInv
    <3>3. CASE magic
      <4>1. Held' = Held
        BY <1>1, <2>1, <3>1, <3>3
      <4>2. ASSUME NoneTo', outdated' = "no" PROVE Held
        <5>1. CASE t \in overtaken
          BY <3>1, <3>3, <4>2, <5>1
        <5>2. CASE t \notin overtaken
          <6>1. LastToUpdate(t)
            BY <1>0, <2>1, <3>1, <3>3, <4>2, <5>2
               DEF LastToUpdate, Between, WillUpdate, Busy
          <6> QED
            BY <1>0, <3>1, <3>3, <6>1 DEF FreshInv, Fresh
        <5> QED
          BY <5>1, <5>2
      <4> QED
        BY <4>1, <4>2 DEF DemandInv
    <3> QED
      BY <3>1, <3>2, <3>3
  <2> QED
    BY <2>2, <2>3
<1>3. ASSUME NEW t \in {"rx", "cmd"}, Stop(t) PROVE DemandInv'
  <2>1. t \in Threads
    BY <1>0
  <2>2. /\ pc[t] \in {"flush", "close"} /\ pc'[t] \in {"demand", "close", "erase"}
        /\ pc'[t] = "close" /\ t = "cmd" /\ op = "erase" => outdated' = "erased"
        /\ pc'[t] = "erase" =>
             /\ active' = active /\ outdated' = outdated
             /\ t = "cmd" /\ op = "erase"
        /\ \A s \in Threads : s # t => pc'[s] = pc[s]
        /\ op' = op
        /\ UNCHANGED <<cfg, announced, stream_active, setting>>
    <3>1. Types'
      BY <1>0, <1>3, <2>1, StopTypes
    <3>2. active \in BOOLEAN /\ active' \in BOOLEAN
      BY <1>0, <3>1 DEF Types, LogType
    <3> QED
      BY <1>0, <1>3, <2>1, <3>2, StopKeeps DEF wishes, block
  <2>3. CASE pc'[t] = "demand"
    BY <1>0, <2>1, <2>3 DEF DemandInv, WillUpdate, Busy
  <2>4. CASE pc'[t] = "close"
    BY <1>0, <2>1, <2>2, <2>4 DEF DemandInv, WillUpdate
  <2>5. CASE pc'[t] = "erase"
    <3>1. Held' = Held
      BY <1>1, <2>2, <2>5
    <3>2. NoneTo' => NoneTo
      BY <1>0, <2>2, <2>5 DEF WillUpdate, Busy
    <3> QED
      BY <1>0, <2>2, <2>5, <3>1, <3>2 DEF DemandInv
  <2> QED
    BY <2>2, <2>3, <2>4, <2>5
<1>4. CASE CmdSteps
  <2>1. /\ \A s \in Threads : s # "cmd" => pc'[s] = pc[s]
        /\ UNCHANGED <<cfg, announced, stream_active, setting, outdated>>
    BY <1>0, <1>4, CmdKeeps DEF CmdSteps, wishes, block, history
  <2>2. CASE StartRuns \/ MarkDetached
    <3>1. pc'["cmd"] \in {"mark", "demand"}
      BY <1>0, <2>2, CmdMoves
    <3> QED
      BY <1>0, <3>1 DEF DemandInv, WillUpdate, Busy
  <2>3. CASE ~(StartRuns \/ MarkDetached)
    <3>1. /\ pc["cmd"] \in Commands \union {"idle", "entry"} /\ active' = active
      BY <1>0, <1>4, <2>3, CmdMoves DEF CmdSteps, log
    <3>2. Held' = Held
      BY <1>1, <2>1, <3>1
    <3>3. NoneTo' => NoneTo
      BY <1>0, <2>1, <3>1 DEF WillUpdate, Busy
    <3> QED
      BY <1>0, <2>1, <3>2, <3>3 DEF DemandInv
  <2> QED
    BY <2>2, <2>3
<1>5. ASSUME UNCHANGED <<cfg, wishes, active, pc, op, outdated>> PROVE DemandInv'
  <2>1. Held' = Held /\ NoneTo' = NoneTo /\ announced' = announced
    BY <1>1, <1>5 DEF wishes, WillUpdate, Busy
  <2> QED
    BY <1>0, <1>5, <2>1 DEF DemandInv
<1>6. CASE Connects \/ \E o \in HostCommands : Submits(o)
  BY <1>0, <1>5, <1>6, HandlerKeeps DEF threads, block, log, history
<1>7. CASE \/ \E on \in BOOLEAN : Subscribes(on)
           \/ \E c \in Configs : Configures(c)
           \/ Disconnects \/ MainAnnounces
  <2>1. pc'["rx"] \in {"demand", "flush"} \/ pc'["main"] = "demand"
    BY <1>0, <1>7, HandlerKeeps
  <2> QED
    BY <1>0, <2>1 DEF DemandInv, WillUpdate, Busy
<1>8. ASSUME NEW ok \in BOOLEAN, FlprAnnounces(ok) PROVE DemandInv'
  <2>1. ~announced /\ announced' = announced
    BY <1>0, <1>8 DEF FlprAnnounces, HandshakeInv, wishes
  <2> QED
    BY <2>1 DEF DemandInv
<1>9. CASE \/ FlprSeesConfig \/ FlprAcks \/ \E f \in Fields : FlprReads(f)
           \/ \E ok \in BOOLEAN : FlprConfigures(ok)
  <2>1. UNCHANGED <<cfg, wishes, active, pc, op, outdated>>
    BY <1>9 DEF FlprSeesConfig, FlprAcks, FlprReads, FlprConfigures, threads, block,
                log, history
  <2> QED
    BY <1>5, <2>1
<1>10. CASE UNCHANGED vars
  BY <1>5, <1>10 DEF vars, threads, block, log, history
<1> QED
  BY <1>0, <1>2, <1>3, <1>4, <1>6, <1>7, <1>8, <1>9, <1>10, StepsAre
     DEF Aside, Host, Flpr

LEMMA LinkNext == IInv /\ [Next]_vars => LinkInv'
<1> SUFFICES ASSUME IInv, [Next]_vars PROVE LinkInv'
  OBVIOUS
<1>0. /\ Types /\ ThreadInv /\ LinkInv /\ Threads = {"rx", "main", "cmd"}
      /\ Updating = {"demand", "odr", "content", "load", "store"}
      /\ Starts = {"start", "detached"}
      /\ Commands = {"stop", "start", "detached", "erase", "volt"}
      /\ active \in BOOLEAN /\ session_detached \in BOOLEAN
  BY TypeParts DEF IInv, Threads, Updating, Starts, Commands, Types, LogType
<1>1. ASSUME NEW t \in Threads, Update(t) PROVE LinkInv'
  <2>1. /\ \A s \in Threads : s # t => pc'[s] = pc[s]
        /\ pc[t] \in Updating /\ pc'[t] \in Updating \union {"idle"}
        /\ UNCHANGED <<connected, queue, active, session_detached, kind, overlapped>>
    BY <1>0, <1>1, UpdateKeeps DEF link, log
  <2> QED
    BY <1>0, <2>1 DEF LinkInv
<1>2. ASSUME NEW t \in {"rx", "cmd"}, Stop(t) PROVE LinkInv'
  <2>1. t \in Threads
    BY <1>0
  <2>2. /\ pc[t] \in {"flush", "close"} /\ pc'[t] \in {"demand", "close", "erase"}
        /\ pc[t] = "flush" => ~active'
        /\ pc[t] = "flush" /\ active => ~session_detached'
        /\ pc[t] = "flush" /\ ~active => session_detached' = session_detached
        /\ pc[t] = "close" => active' = active /\ session_detached' = session_detached
        /\ \A s \in Threads : s # t => pc'[s] = pc[s]
        /\ UNCHANGED <<connected, queue, kind, overlapped>>
    BY <1>0, <1>2, <2>1, StopKeeps DEF link
  <2>3. CASE t = "rx"
    BY <1>0, <2>2, <2>3 DEF LinkInv, ThreadInv
  <2>4. CASE t = "cmd"
    BY <1>0, <2>2, <2>4 DEF LinkInv, ThreadInv
  <2> QED
    BY <2>3, <2>4
<1>3. CASE CmdSteps
  <2>1. /\ pc'["rx"] = pc["rx"] /\ connected' = connected /\ overlapped' = overlapped
    BY <1>0, <1>3, CmdKeeps DEF CmdSteps, history
  <2>2. CASE StartRuns
    <3>1. /\ pc["cmd"] = "entry" /\ active' /\ kind' = op /\ op \in Starts /\ ~active
          /\ pc'["cmd"] = IF op = "detached" THEN "mark" ELSE "demand"
          /\ session_detached' = session_detached
      BY <1>0, <2>2, CmdMoves DEF ThreadInv
    <3> QED
      BY <1>0, <2>1, <3>1 DEF LinkInv, ThreadInv
  <2>3. CASE MarkDetached
    <3>1. /\ pc["cmd"] = "mark" /\ pc'["cmd"] = "demand" /\ session_detached'
          /\ active' = active /\ kind' = kind
      BY <1>0, <2>3, CmdMoves
    <3> QED
      BY <1>0, <2>1, <3>1 DEF LinkInv, ThreadInv
  <2>4. CASE ~(StartRuns \/ MarkDetached)
    <3>1. /\ pc["cmd"] # "idle" \/ queue # <<>>
          /\ pc["cmd"] # "mark" /\ pc'["cmd"] # "mark"
          /\ UNCHANGED <<active, session_detached, kind>>
      BY <1>0, <1>3, <2>4, CmdMoves DEF CmdSteps, log
    <3> QED
      BY <1>0, <2>1, <3>1 DEF LinkInv
  <2> QED
    BY <2>2, <2>3, <2>4
<1>4. CASE Connects
  BY <1>0, <1>4, HandlerKeeps DEF LinkInv, threads, log, history
<1>5. CASE \/ \E on \in BOOLEAN : Subscribes(on)
           \/ \E c \in Configs : Configures(c)
  BY <1>0, <1>5, HandlerKeeps DEF LinkInv, log, history
<1>6. CASE \E o \in HostCommands : Submits(o)
  BY <1>0, <1>6, HandlerKeeps DEF LinkInv, threads, log, history
<1>7. CASE Disconnects
  <2>1. /\ connected /\ ~connected' /\ pc["rx"] = "idle"
        /\ pc'["rx"] = IF active /\ ~session_detached THEN "flush" ELSE "demand"
        /\ pc'["cmd"] = pc["cmd"]
        /\ overlapped' = (overlapped \/ queue # <<>> \/ pc["cmd"] # "idle")
        /\ UNCHANGED <<queue, active, session_detached, kind>>
    BY <1>0, <1>7, HandlerKeeps DEF log, DisconnectStops
  <2> QED
    BY <1>0, <2>1 DEF LinkInv
<1>8. CASE MainAnnounces
  BY <1>0, <1>8, HandlerKeeps DEF LinkInv, link, log, history
<1>9. CASE Flpr
  <2>1. UNCHANGED <<link, threads, log, overlapped>>
    BY <1>9 DEF Flpr, FlprAnnounces, FlprSeesConfig, FlprReads, FlprConfigures,
                FlprAcks, history
  <2> QED
    BY <1>0, <2>1 DEF LinkInv, link, threads, log
<1>10. CASE UNCHANGED vars
  BY <1>0, <1>10 DEF vars, LinkInv, link, threads, log, history
<1> QED
  BY <1>0, <1>1, <1>2, <1>3, <1>4, <1>5, <1>6, <1>7, <1>8, <1>9, <1>10, StepsAre
     DEF Aside, Host

-----------------------------------------------------------------------------
LEMMA InitInv == Init => IInv
<1> SUFFICES ASSUME Init PROVE IInv
  OBVIOUS
<1>1. /\ \A t \in Threads : pc[t] = "idle" /\ "rx" \in Threads
      /\ pc["rx"] = "idle" /\ pc["main"] = "idle" /\ pc["cmd"] = "idle"
  BY DEF Init, Threads
<1>2. Types
  <2>1. LinkType
    <3>1. <<>> \in Seq(Commands)
      BY EmptySeq
    <3>2. Len(<<>>) = 0
      OBVIOUS
    <3>3. Len(queue) <= QueueDepth
      BY <3>2, SessionAssumption DEF Init
    <3> QED
      BY <3>1, <3>3 DEF Init, LinkType
  <2>2. ThreadType
    BY DEF Init, ThreadType, Places
  <2>3. LocalType /\ WishType /\ LogType /\ FlprType /\ HistoryType
    BY DEF Init, LocalType, WishType, LogType, FlprType, HistoryType, ConfigOrOff
  <2>4. BlockType
    BY DEF Init, BlockType, Off, ConfigOrOff
  <2> QED
    BY <2>1, <2>2, <2>3, <2>4 DEF Types
<1>3. ThreadInv
  BY <1>1 DEF Init, ThreadInv, Starts
<1>4. HandshakeInv
  BY <1>1 DEF Init, HandshakeInv, Dirty
<1>5. AppliedInv /\ FreshInv /\ DemandInv /\ LinkInv
  BY <1>1 DEF Init, AppliedInv, FreshInv, LastToUpdate, Between, Updating, DemandInv,
              LinkInv
<1> QED
  BY <1>2, <1>3, <1>4, <1>5, TypeParts DEF IInv

LEMMA NextInv == IInv /\ [Next]_vars => IInv'
  BY TypeNext, ThreadNext, HandshakeNext, AppliedNext, FreshNext, DemandNext,
     LinkNext DEF IInv

(* The inductive invariant, for any settings, any depth of the queue, any  *)
(* commands, and any number of writes and connections.                     *)
THEOREM Inductive == Spec => []IInv
  BY InitInv, NextInv, PTL DEF Spec

(* cmd_msgq never holds more than CMD_QUEUE_DEPTH commands, and every      *)
(* thread is where its own code can be.                                    *)
THEOREM TypeCorrect == Spec => []TypeOK
<1>1. IInv => TypeOK
  BY DEF IInv
<1> QED
  BY <1>1, Inductive, PTL

(* When apply_config of the FLPR has acknowledged cfg_seq, the sensor has  *)
(* the configuration of the block and no mixture of two, although the FLPR *)
(* reads the block while session_imu_run_update writes it; but for a lost  *)
(* increment.                                                              *)
THEOREM AcknowledgedIsCurrent == Spec => []AppliedIsCurrent
<1>1. IInv => AppliedIsCurrent
  BY DEF IInv, AppliedInv, AppliedIsCurrent, Agreed, Busy, Dirty, Updating
<1> QED
  BY <1>1, Inductive, PTL

(* At rest session_imu_run_update has the sensor running with the host's   *)
(* settings if and only if a session or a stream needs it, but for the two *)
(* ways `outdated` names.                                                  *)
THEOREM ArbiterCorrect == Spec => []SensorFollowsUpdates
<1>1. ASSUME IInv PROVE SensorFollowsUpdates
  <2> SUFFICES ASSUME AtRest, cfg_status = 0, outdated = "no", ~collided
               PROVE  sensor = Programmed(setting, Wanted)
    BY DEF SensorFollowsUpdates
  <2>1. \A t \in Threads : ~WillUpdate(t) /\ ~Dirty(t)
    BY DEF AtRest, WillUpdate, Dirty, Busy, Updating
  <2>2. sensor = Programmed(cfg.odr, cfg.content)
    BY <1>1, <2>1 DEF IInv, AppliedInv, AtRest, Agreed
  <2>3. cfg.content = Wanted /\ (cfg.odr = setting \/ cfg.content = 0)
    BY <1>1, <2>1 DEF IInv, DemandInv, AtRest
  <2> QED
    BY <2>2, <2>3 DEF Programmed
<1> QED
  BY <1>1, Inductive, PTL

(* Once session_on_disconnect is done only a detached session is running,  *)
(* where no disconnect came with a command queued or in progress.          *)
THEOREM SessionFollowsLink == Spec => []SettledSessionEndsWithLink
<1>1. IInv => SettledSessionEndsWithLink
  BY DEF IInv, LinkInv, SettledSessionEndsWithLink, SessionEndsWithLink
<1> QED
  BY <1>1, Inductive, PTL

(* A detached session ends by a stop or an erase of the host and nothing   *)
(* else, where no disconnect came with a command queued or in progress.    *)
THEOREM DetachedOutlivesLink == Spec => DetachedSurvives
<1>1. IInv /\ [Next]_vars =>
        [active /\ ~active' /\ kind = "detached" /\ ~overlapped
           => lock' = "cmd" /\ op \in {"stop", "erase"}]_vars
  <2> SUFFICES ASSUME IInv, [Next]_vars, active, ~active', kind = "detached",
                      ~overlapped
               PROVE  lock' = "cmd" /\ op \in {"stop", "erase"}
    OBVIOUS
  <2>0. /\ Types /\ ThreadInv /\ LinkInv /\ Threads = {"rx", "main", "cmd"}
    BY TypeParts DEF IInv, Threads
  <2>1. ASSUME NEW t \in {"rx", "cmd"}, Stop(t)
        PROVE  lock' = "cmd" /\ op \in {"stop", "erase"}
    <3>1. t \in Threads
      BY <2>0
    <3>2. pc[t] = "flush" /\ lock' = t
      BY <2>0, <2>1, <3>1, StopKeeps
    <3>3. t # "rx"
      BY <2>0, <3>2 DEF LinkInv
    <3> QED
      BY <2>0, <3>2, <3>3 DEF ThreadInv
  <2>2. \A t \in Threads : ~Update(t)
    BY <2>0, UpdateKeeps DEF log
  <2>3. ~CmdSteps
    BY <2>0, CmdMoves DEF CmdSteps, log
  <2>4. ~Host /\ ~Disconnects /\ ~MainAnnounces
    BY <2>0, HandlerKeeps DEF Host, log
  <2>5. ~Flpr
    BY DEF Flpr, FlprAnnounces, FlprSeesConfig, FlprReads, FlprConfigures, FlprAcks, log
  <2>6. ~UNCHANGED vars
    BY DEF vars, log
  <2> QED
    BY <2>1, <2>2, <2>3, <2>4, <2>5, <2>6, StepsAre DEF Aside
<1> QED
  BY <1>1, Inductive, PTL DEF Spec, DetachedSurvives
=============================================================================
