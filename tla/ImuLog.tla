------------------------------- MODULE ImuLog -------------------------------
(***************************************************************************)
(* The on-chip session log of src/src/imu/imu_log.c: a directory of        *)
(* MaxSessions entries and one shared ring of RecCapacity records in       *)
(* RRAM, written behind a RAM staging ring by a writer thread.             *)
(*                                                                         *)
(* Four threads touch it: the pump (imu_log_append, never blocks, takes no *)
(* lock), the writer, the command thread "cmd" (start / stop / erase) and  *)
(* the Bluetooth RX thread "rx" (stop on disconnect).  log_lock is the     *)
(* mutex of the last three.  Every flash call blocks for a radio           *)
(* timeslot, so an action ends at each flash call, at each lock and unlock *)
(* and at each sleep; between those points the code of one thread is one   *)
(* action.  Power may fail between any two actions.                        *)
(*                                                                         *)
(* A record is abstracted to the tag <<seq, k>>: the k-th record (from 0)  *)
(* accepted for session seq.  The code never sees these tags; they say     *)
(* whose record a ring cell holds, which is what a dump gets wrong or      *)
(* right.                                                                  *)
(***************************************************************************)
EXTENDS Integers, Sequences

CONSTANTS
    MaxSessions,     \* IMU_LOG_MAX_SESSIONS, directory slots
    RecCapacity,     \* REC_CAPACITY, records the flash ring holds
    StageN,          \* STAGE_N, records the RAM staging ring holds
    BatchRecs,       \* BATCH_RECS, most records of one flash write
    DirRefreshRecs,  \* DIR_REFRESH_RECS, records between two rec_count saves
    RecSize,         \* REC_SIZE, bytes of a record
    Word,            \* 2^32, of the reader's byte position
    FlashMayFail,    \* whether a flash write of data or of a new entry may fail
    MaxRec,          \* bound: absolute record index at which the pump stops
    MaxSeq,          \* bound: sessions started since the last erase
    MaxDrop,         \* bound: samples dropped on a full stage per session
    MaxCrash         \* bound: power failures and resets

ASSUME LogAssumption ==
    /\ MaxSessions \in Nat \ {0}
    /\ RecCapacity \in Nat \ {0}
    /\ StageN \in Nat \ {0}
    /\ BatchRecs \in Nat \ {0}
    /\ DirRefreshRecs \in Nat
    /\ BatchRecs < DirRefreshRecs

ASSUME AddressAssumption == RecSize \in Nat \ {0} /\ Word \in Nat \ {0}

ASSUME FlashAssumption == FlashMayFail \in BOOLEAN

VARIABLES
    (* flash *)
    meta,              \* the meta block: "blank", "ours" or "foreign" (not this firmware's)
    dir,               \* the session entries, by slot
    ring,              \* the tag of the record in each ring cell
    (* the log's static variables *)
    boot,              \* "off", "stamp" (imu_log_init is wiping), "up"
    total_abs, seq_next,
    active, session_detached,
    cur_seq, cur_start, cur_count, cur_slot, last_dir_refresh,
    stage,             \* stage[stage_tail .. stage_head - 1], oldest first
    log_dropped,
    (* the threads *)
    lock,              \* log_lock: "free" or its owner
    wpc,               \* where the writer is
    inflight,          \* records written to flash and not yet accounted
    pumping,           \* the pump is past imu_log_append's `active` check
    pc,                \* where "cmd" and "rx" are
    op,                \* the command "cmd" executes
    (* history, read by no action of the code *)
    top,               \* one past the highest absolute record ever written
    holes,             \* the absolute records that a failed write left out
    crashes            \* resets so far

flash    == <<meta, dir, ring>>
position == <<total_abs, seq_next>>
current  == <<cur_seq, cur_start, cur_slot>>
counts   == <<cur_count, last_dir_refresh>>
session  == <<active, session_detached, current, counts>>
staging  == <<stage, log_dropped>>
writer   == <<wpc, inflight>>
callers  == <<pc, op>>
history  == <<top, holes, crashes>>
vars == <<flash, boot, position, session, staging, lock, writer, pumping,
          callers, history>>

-----------------------------------------------------------------------------
Threads == {"cmd", "rx"}
Slots   == 0 .. MaxSessions - 1
Cells   == 0 .. RecCapacity - 1
Tags    == Nat \X Nat
NoRec   == <<0, 0>>      \* a cell no session wrote; sequence numbers start at 1
NoEntry == [valid |-> FALSE, seq |-> 0, start |-> 0, count |-> 0, open |-> FALSE]
Entries == [valid : BOOLEAN, seq : Nat, start : Nat, count : Nat, open : BOOLEAN]

Least(x, y) == IF x <= y THEN x ELSE y

SlotOf(seq) == (seq - 1) % MaxSessions
CellOf(abs) == abs % RecCapacity
EndOf(e)    == e.start + e.count
LiveSlots   == {i \in Slots : dir[i].valid}

(* Mutant: the floor trails by one record.                                 *)
RingFloor_Trails ==
    IF total_abs > RecCapacity THEN total_abs - RecCapacity - 1 ELSE 0

(* ring_floor: the oldest absolute record the code takes to be in the ring. *)
RingFloor == IF total_abs > RecCapacity THEN total_abs - RecCapacity ELSE 0

(* t returns from the call it is in. *)
Return(t) == /\ pc' = [pc EXCEPT ![t] = "idle"]
             /\ op' = IF t = "cmd" THEN "none" ELSE op

-----------------------------------------------------------------------------
(* The pump: imu_log_append.                                               *)

(* `if (!active) return`; a preempting stop may clear active afterwards.   *)
PumpEnters ==
    /\ boot = "up" /\ active /\ ~pumping
    /\ pumping' = TRUE
    /\ UNCHANGED <<flash, boot, position, session, staging, lock, writer,
                   callers, history>>

(* Mutant: the stage takes one record too many.                            *)
StageFull_Late == Len(stage) > StageN
StageFull == Len(stage) >= StageN

(* A sample is staged, or counted as dropped when the stage is full.       *)
PumpStages ==
    /\ pumping
    /\ IF StageFull
         THEN /\ log_dropped < MaxDrop
              /\ log_dropped' = log_dropped + 1
              /\ UNCHANGED stage
         ELSE /\ total_abs + Len(stage) < MaxRec
              /\ stage' = Append(stage, <<cur_seq, cur_count + Len(stage)>>)
              /\ UNCHANGED log_dropped
    /\ UNCHANGED <<flash, boot, position, session, lock, writer, pumping,
                   callers, history>>

PumpLeaves ==
    /\ pumping
    /\ pumping' = FALSE
    /\ UNCHANGED <<flash, boot, position, session, staging, lock, writer,
                   callers, history>>

-----------------------------------------------------------------------------
(* The writer thread.                                                      *)

(* `while (active && stage_head != stage_tail)`: both are read unlocked.   *)
WriterSees ==
    /\ wpc = "wait" /\ active /\ stage # <<>>
    /\ wpc' = "lock"
    /\ UNCHANGED <<flash, boot, position, session, staging, lock, inflight,
                   pumping, callers, history>>

(* Mutant: the batch is not clamped at the end of the ring.                *)
BatchLen_PastEnd == Least(Len(stage), BatchRecs)

(* What is staged, at most a batch, contiguous in the ring.                *)
BatchLen ==
    Least(Least(Len(stage), BatchRecs), RecCapacity - CellOf(total_abs))

(* The lock is taken and nothing is staged any more: back to waiting.      *)
WriterFindsNothing ==
    /\ wpc = "lock" /\ lock = "free" /\ stage = <<>>
    /\ wpc' = "wait"
    /\ UNCHANGED <<flash, boot, position, session, staging, lock, inflight,
                   pumping, callers, history>>

(* The batch goes to the ring in one flash_write clamped at the wrap, or   *)
(* only its first n records do when the write fails, which is logged; the  *)
(* batch is then accounted for like a good one.                            *)
WriterWrites ==
    /\ wpc = "lock" /\ lock = "free" /\ stage # <<>>
    /\ lock' = "writer" /\ wpc' = "commit" /\ inflight' = BatchLen
    /\ top' = IF total_abs + BatchLen > top THEN total_abs + BatchLen ELSE top
    /\ \E n \in 0 .. BatchLen :
         /\ n < BatchLen => FlashMayFail
         /\ ring' = [c \in Cells |->
                       IF c \in CellOf(total_abs) .. CellOf(total_abs) + n - 1
                         THEN stage[c - CellOf(total_abs) + 1] ELSE ring[c]]
         /\ holes' = (holes \ (total_abs .. total_abs + n - 1))
                       \union (total_abs + n .. total_abs + BatchLen - 1)
    /\ UNCHANGED <<meta, dir, boot, position, session, staging, pumping,
                   callers, crashes>>

(* Mutant: the refresh comes a record late.                                *)
RefreshDue_Late(count) == \/ count < last_dir_refresh
                          \/ count - last_dir_refresh > DirRefreshRecs

(* `cur_count - last_dir_refresh >= DIR_REFRESH_RECS` on uint32_t: a       *)
(* negative difference wraps to a huge one.                                *)
RefreshDue(count) == \/ count < last_dir_refresh
                     \/ count - last_dir_refresh >= DirRefreshRecs

(* stage_tail, total_abs and cur_count advance past the written batch.     *)
WriterCommits ==
    /\ wpc = "commit"
    /\ stage' = SubSeq(stage, inflight + 1, Len(stage))
    /\ total_abs' = total_abs + inflight
    /\ cur_count' = cur_count + inflight
    /\ inflight' = 0
    /\ IF RefreshDue(cur_count + inflight)
         THEN wpc' = "refresh" /\ UNCHANGED lock
         ELSE wpc' = "wait" /\ lock' = "free"
    /\ UNCHANGED <<flash, boot, seq_next, active, session_detached, current,
                   last_dir_refresh, log_dropped, pumping, callers, history>>

(* Mutant: the closed flag is not saved.                                   *)
DirRefreshCurrent_StaysOpen(closing) ==
    IF dir[cur_slot].valid
      THEN /\ dir' = [dir EXCEPT ![cur_slot].count = cur_count]
           /\ last_dir_refresh' = cur_count
      ELSE UNCHANGED <<dir, last_dir_refresh>>

(* Mutant: closing the entry saves the flag and not the count.             *)
DirRefreshCurrent_FlagOnly(closing) ==
    IF dir[cur_slot].valid
      THEN /\ dir' = [dir EXCEPT ![cur_slot].count = IF closing THEN @ ELSE cur_count,
                                 ![cur_slot].open = ~closing]
           /\ last_dir_refresh' = cur_count
      ELSE UNCHANGED <<dir, last_dir_refresh>>

(* dir_refresh_current: the count of the entry in cur_slot, if it holds a  *)
(* session at all, is saved.                                               *)
DirRefreshCurrent(closing) ==
    IF dir[cur_slot].valid
      THEN /\ dir' = [dir EXCEPT ![cur_slot].count = cur_count,
                                 ![cur_slot].open = ~closing]
           /\ last_dir_refresh' = cur_count
      ELSE UNCHANGED <<dir, last_dir_refresh>>

WriterRefreshes ==
    /\ wpc = "refresh"
    /\ DirRefreshCurrent(FALSE)
    /\ wpc' = "invalidate"
    /\ UNCHANGED <<meta, ring, boot, position, active, session_detached,
                   current, cur_count, staging, lock, inflight, pumping,
                   callers, history>>

(* Mutant: the running session is not exempt.                              *)
Consumed_Running(i) == dir[i].valid /\ dir[i].start < RingFloor

(* The entries invalidate_consumed drops: not the running session's, and   *)
(* begun below the floor.                                                  *)
Consumed(i) == /\ dir[i].valid
               /\ ~(active /\ i = cur_slot)
               /\ dir[i].start < RingFloor

WriterInvalidates(i) ==
    /\ wpc = "invalidate" /\ Consumed(i)
    /\ dir' = [dir EXCEPT ![i] = NoEntry]
    /\ UNCHANGED <<meta, ring, boot, position, session, staging, lock, writer,
                   pumping, callers, history>>

WriterFinishes ==
    /\ wpc = "invalidate" /\ \A i \in Slots : ~Consumed(i)
    /\ wpc' = "wait" /\ lock' = "free"
    /\ UNCHANGED <<flash, boot, position, session, staging, inflight, pumping,
                   callers, history>>

-----------------------------------------------------------------------------
(* imu_log_start, by the command thread.                                   *)

(* A running session refuses; otherwise the session's variables are set    *)
(* and the lock is kept over the entry's flash write.                      *)
StartRefused ==
    /\ boot = "up" /\ pc["cmd"] = "idle" /\ lock = "free" /\ active
    /\ UNCHANGED vars

StartOpens(o) ==
    /\ boot = "up" /\ pc["cmd"] = "idle" /\ lock = "free" /\ ~active
    /\ seq_next <= MaxSeq
    /\ lock' = "cmd" /\ op' = o
    /\ pc' = [pc EXCEPT !["cmd"] = "entry"]
    /\ cur_seq' = seq_next
    /\ seq_next' = seq_next + 1
    /\ cur_slot' = SlotOf(seq_next)
    /\ cur_start' = total_abs
    /\ cur_count' = 0
    /\ last_dir_refresh' = 0
    /\ stage' = <<>>
    /\ log_dropped' = 0
    /\ UNCHANGED <<flash, boot, total_abs, active, session_detached, writer,
                   pumping, history>>

NewEntry == [valid |-> TRUE, seq |-> cur_seq, start |-> cur_start,
             count |-> 0, open |-> TRUE]

(* The entry replaces whatever its slot held, and the session runs.        *)
StartWritesEntry ==
    /\ pc["cmd"] = "entry"
    /\ dir' = [dir EXCEPT ![cur_slot] = NewEntry]
    /\ active' = TRUE
    /\ lock' = "free"
    /\ IF op = "detached"
         THEN pc' = [pc EXCEPT !["cmd"] = "mark"] /\ UNCHANGED op
         ELSE Return("cmd")
    /\ UNCHANGED <<meta, ring, boot, position, session_detached, current,
                   counts, staging, writer, pumping, history>>

StartFails ==
    /\ FlashMayFail
    /\ pc["cmd"] = "entry"
    /\ lock' = "free"
    /\ Return("cmd")
    /\ UNCHANGED <<flash, boot, position, session, staging, writer, pumping,
                   history>>

(* imu_log_mark_detached: unlocked, after the start returned.              *)
MarkDetached ==
    /\ pc["cmd"] = "mark"
    /\ session_detached' = TRUE
    /\ Return("cmd")
    /\ UNCHANGED <<flash, boot, position, active, current, counts, staging,
                   lock, writer, pumping, history>>

-----------------------------------------------------------------------------
(* imu_log_stop, by either thread.                                         *)

(* The disconnect handler leaves a detached session alone.                 *)
StopCalled(t) ==
    /\ boot = "up" /\ pc[t] = "idle" /\ active
    /\ t = "rx" => ~session_detached
    /\ pc' = [pc EXCEPT ![t] = "flush"]
    /\ op' = IF t = "cmd" THEN "stop" ELSE op
    /\ UNCHANGED <<flash, boot, position, session, staging, lock, writer,
                   pumping, history>>

(* writer_flush ends when the stage is seen empty or after 200 sleeps, so  *)
(* it may end in any state.                                                *)
FlushEnds(t) ==
    /\ pc[t] = "flush"
    /\ pc' = [pc EXCEPT ![t] = "lock"]
    /\ UNCHANGED <<flash, boot, position, session, staging, lock, writer,
                   pumping, op, history>>

(* imu_log_stop returns: the thread goes on to the rest of an erase, or is *)
(* done.                                                                   *)
StopReturns(t) ==
    IF t = "cmd" /\ op = "erase"
      THEN pc' = [pc EXCEPT ![t] = "erase"] /\ UNCHANGED op
      ELSE Return(t)

(* Under the lock: the session stops being active, its entry is next.      *)
StopDeactivates(t) ==
    /\ pc[t] = "lock" /\ lock = "free" /\ active
    /\ lock' = t
    /\ active' = FALSE /\ session_detached' = FALSE
    /\ pc' = [pc EXCEPT ![t] = "close"]
    /\ UNCHANGED <<flash, boot, position, current, counts, staging, writer,
                   pumping, op, history>>

(* Mutant: the early return forgets to unlock.                             *)
StopFindsInactive_KeepsLock(t) ==
    /\ pc[t] = "lock" /\ lock = "free" /\ ~active
    /\ lock' = t
    /\ StopReturns(t)
    /\ UNCHANGED <<flash, boot, position, session, staging, writer, pumping,
                   history>>

(* The other thread stopped it first.                                      *)
StopFindsInactive(t) ==
    /\ pc[t] = "lock" /\ lock = "free" /\ ~active
    /\ StopReturns(t)
    /\ UNCHANGED <<flash, boot, position, session, staging, lock, writer,
                   pumping, history>>

StopCloses(t) ==
    /\ pc[t] = "close"
    /\ DirRefreshCurrent(TRUE)
    /\ lock' = "free"
    /\ StopReturns(t)
    /\ UNCHANGED <<meta, ring, boot, position, active, session_detached,
                   current, cur_count, staging, writer, pumping, history>>

-----------------------------------------------------------------------------
(* imu_log_erase, by the command thread: imu_log_stop, then the directory  *)
(* is wiped and stamped under the lock.                                    *)

EraseCalled ==
    /\ boot = "up" /\ pc["cmd"] = "idle"
    /\ op' = "erase"
    /\ pc' = [pc EXCEPT !["cmd"] = IF active THEN "flush" ELSE "erase"]
    /\ UNCHANGED <<flash, boot, position, session, staging, lock, writer,
                   pumping, history>>

(* dir_wipe_and_stamp's first write: meta block and entries become 0xFF.   *)
DirWipe == /\ meta' = "blank"
           /\ dir' = [i \in Slots |-> NoEntry]
           /\ UNCHANGED ring

(* Its second write, the meta block.  From here on no cell belongs to a    *)
(* session: the history starts afresh.                                     *)
DirStamp == /\ meta' = "ours"
            /\ ring' = [c \in Cells |-> NoRec]
            /\ top' = 0 /\ holes' = {}
            /\ UNCHANGED dir

EraseWipes ==
    /\ pc["cmd"] = "erase" /\ lock = "free"
    /\ lock' = "cmd"
    /\ pc' = [pc EXCEPT !["cmd"] = "stamp"]
    /\ DirWipe
    /\ UNCHANGED <<boot, position, session, staging, writer, pumping, op,
                   history>>

EraseStamps ==
    /\ pc["cmd"] = "stamp"
    /\ DirStamp
    /\ total_abs' = 0 /\ seq_next' = 1 /\ cur_count' = 0
    /\ lock' = "free"
    /\ Return("cmd")
    /\ UNCHANGED <<boot, active, session_detached, current, last_dir_refresh,
                   staging, writer, pumping, crashes>>

-----------------------------------------------------------------------------
(* Reset and imu_log_init.                                                 *)

(* Power fails or the device resets: RAM is lost, flash is kept.           *)
Crash ==
    /\ boot # "off" /\ crashes < MaxCrash
    /\ crashes' = crashes + 1
    /\ boot' = "off"
    /\ total_abs' = 0 /\ seq_next' = 1
    /\ active' = FALSE /\ session_detached' = FALSE
    /\ cur_seq' = 0 /\ cur_start' = 0 /\ cur_count' = 0 /\ cur_slot' = 0
    /\ last_dir_refresh' = 0
    /\ stage' = <<>> /\ log_dropped' = 0
    /\ lock' = "free" /\ wpc' = "wait" /\ inflight' = 0 /\ pumping' = FALSE
    /\ pc' = [t \in Threads |-> "idle"] /\ op' = "none"
    /\ UNCHANGED <<flash, top, holes>>

(* A DFU upload overwrites directory and ring; the new firmware's version  *)
(* word differs from any stamp left behind.                                *)
FirmwareUpdated ==
    /\ boot = "off" /\ meta # "foreign"
    /\ meta' = "foreign"
    /\ ring' = [c \in Cells |-> NoRec]
    /\ UNCHANGED <<dir, boot, position, session, staging, lock, writer,
                   pumping, callers, history>>

BootWipes ==
    /\ boot = "off" /\ meta # "ours"
    /\ boot' = "stamp"
    /\ DirWipe
    /\ UNCHANGED <<position, session, staging, lock, writer, pumping, callers,
                   history>>

BootStamps ==
    /\ boot = "stamp"
    /\ boot' = "up"
    /\ DirStamp
    /\ UNCHANGED <<position, session, staging, lock, writer, pumping, callers,
                   crashes>>

(* Mutant: each entry overwrites what the previous ones gave.              *)
IsMax_Last(x, S, low) == x \in S \/ (S = {} /\ x = low)

(* x is the maximum of S, or low when nothing in S exceeds low.            *)
IsMax(x, S, low) == /\ x \in S \union {low}
                    /\ low <= x
                    /\ \A y \in S : y <= x

(* total_abs and seq_next are rebuilt from the entries; sessions cut off   *)
(* by the reset are closed.                                                *)
BootRecovers ==
    /\ boot = "off" /\ meta = "ours"
    /\ boot' = "up"
    /\ \E x \in {EndOf(dir[i]) : i \in LiveSlots} \union {0} :
         /\ IsMax(x, {EndOf(dir[i]) : i \in LiveSlots}, 0)
         /\ total_abs' = x
    /\ \E x \in {dir[i].seq + 1 : i \in LiveSlots} \union {1} :
         /\ IsMax(x, {dir[i].seq + 1 : i \in LiveSlots}, 1)
         /\ seq_next' = x
    /\ dir' = [i \in Slots |-> [dir[i] EXCEPT !.open = FALSE]]
    /\ UNCHANGED <<meta, ring, session, staging, lock, writer, pumping,
                   callers, history>>

-----------------------------------------------------------------------------
Init ==
    /\ meta \in {"blank", "foreign"}
    /\ dir = [i \in Slots |-> NoEntry]
    /\ ring = [c \in Cells |-> NoRec]
    /\ boot = "off"
    /\ total_abs = 0 /\ seq_next = 1
    /\ active = FALSE /\ session_detached = FALSE
    /\ cur_seq = 0 /\ cur_start = 0 /\ cur_count = 0 /\ cur_slot = 0
    /\ last_dir_refresh = 0
    /\ stage = <<>> /\ log_dropped = 0
    /\ lock = "free" /\ wpc = "wait" /\ inflight = 0 /\ pumping = FALSE
    /\ pc = [t \in Threads |-> "idle"] /\ op = "none"
    /\ top = 0 /\ holes = {} /\ crashes = 0

Pump   == PumpEnters \/ PumpStages \/ PumpLeaves
Writer == \/ WriterSees \/ WriterFindsNothing \/ WriterWrites \/ WriterCommits
          \/ WriterRefreshes \/ WriterFinishes
          \/ \E i \in Slots : WriterInvalidates(i)
Stop(t) == \/ StopCalled(t) \/ FlushEnds(t) \/ StopDeactivates(t)
           \/ StopFindsInactive(t) \/ StopCloses(t)
Start  == \/ StartRefused \/ StartWritesEntry \/ StartFails \/ MarkDetached
          \/ \E o \in {"start", "detached"} : StartOpens(o)
Erase  == EraseCalled \/ EraseWipes \/ EraseStamps
Reset  == Crash \/ FirmwareUpdated \/ BootWipes \/ BootStamps \/ BootRecovers

Next == \/ Pump \/ Writer \/ Start \/ Erase \/ Reset
        \/ \E t \in Threads : Stop(t)

Spec == Init /\ [][Next]_vars

(* Zephyr schedules every ready thread at these priorities, flash calls    *)
(* and sleeps end, and k_mutex_unlock hands the mutex to a waiter, so a    *)
(* thread that waits for log_lock cannot be passed over for ever.          *)
FairSpec ==
    /\ Spec
    /\ WF_vars(PumpLeaves)
    /\ WF_vars(WriterSees)
    /\ SF_vars(WriterFindsNothing \/ WriterWrites)
    /\ WF_vars(\/ WriterCommits \/ WriterRefreshes \/ WriterFinishes
               \/ \E i \in Slots : WriterInvalidates(i))
    /\ WF_vars(StartWritesEntry \/ StartFails \/ MarkDetached)
    /\ SF_vars(EraseWipes)
    /\ WF_vars(EraseStamps)
    /\ WF_vars(BootWipes \/ BootStamps \/ BootRecovers)
    /\ \A t \in Threads :
         /\ WF_vars(FlushEnds(t) \/ StopCloses(t))
         /\ SF_vars(StopDeactivates(t) \/ StopFindsInactive(t))

-----------------------------------------------------------------------------
(* Correctness.                                                            *)

FlashOK ==
    /\ meta \in {"blank", "ours", "foreign"}
    /\ dir \in [Slots -> Entries]
    /\ ring \in [Cells -> Tags]
    /\ top \in Nat /\ holes \subseteq Nat /\ crashes \in Nat

LogOK ==
    /\ boot \in {"off", "stamp", "up"}
    /\ total_abs \in Nat /\ seq_next \in Nat \ {0}
    /\ active \in BOOLEAN /\ session_detached \in BOOLEAN
    /\ cur_seq \in Nat /\ cur_start \in Nat /\ cur_count \in Nat
    /\ cur_slot \in Slots /\ last_dir_refresh \in Nat

StageOK ==
    /\ stage \in Seq(Tags) /\ Len(stage) <= StageN
    /\ inflight \in 0 .. BatchRecs /\ inflight <= Len(stage)
    /\ log_dropped \in Nat

ThreadsOK ==
    /\ lock \in {"free", "writer"} \union Threads
    /\ wpc \in {"wait", "lock", "commit", "refresh", "invalidate"}
    /\ pumping \in BOOLEAN
    /\ pc \in [Threads -> {"idle", "entry", "mark", "flush", "lock", "close",
                            "erase", "stamp"}]
    /\ op \in {"none", "start", "detached", "stop", "erase"}

(* Type correctness; the staging ring never holds more than StageN records *)
(* (imu_log_append's head - tail test), and a batch never more than a      *)
(* write may hold.                                                         *)
TypeOK ==
    /\ FlashOK /\ LogOK /\ StageOK /\ ThreadsOK

(* The session whose entry is the running one: active, or being closed.    *)
Live == active \/ \E t \in Threads : pc[t] = "close"

(* What imu_log_session_list and imu_log_read_session take for the end of  *)
(* the session in slot i.                                                  *)
SeenEnd(i) ==
    dir[i].start + (IF active /\ i = cur_slot THEN cur_count ELSE dir[i].count)

(* Of every session in the directory, each record that no later write has  *)
(* physically replaced is in its cell: it is this session's, in order, and *)
(* not another's, whatever was interleaved, refused, cut off or recovered. *)
(* A failed write costs the records it left out and no others.             *)
SurvivorsIntact ==
    meta = "ours" =>
        \A i \in LiveSlots : \A a \in dir[i].start .. SeenEnd(i) - 1 :
            a \notin holes /\ a + RecCapacity >= top
                => ring[CellOf(a)] = <<dir[i].seq, a - dir[i].start>>

(* imu_log_session_list: the slots it lists, each with its clipped first   *)
(* record and the records it promises.                                     *)
Listed == {i \in LiveSlots : SeenEnd(i) > RingFloor}
ReadStart(i) == IF dir[i].start < RingFloor THEN RingFloor ELSE dir[i].start
ReadableCount(i) == SeenEnd(i) - ReadStart(i)

(* imu_log_read_session: the record it returns at the k-th place.  The     *)
(* writer finds a record's cell by its number; the reader by its byte      *)
(* position, in 32 bits and modulo the bytes of the ring, which do not     *)
(* divide 2^32.                                                            *)
DataCapacity == RecSize * RecCapacity
AbsByte(i, k) == (ReadStart(i) * RecSize + k * RecSize) % Word
ReadRecord(i, k) == ring[(AbsByte(i, k) % DataCapacity) \div RecSize]

(* The session's last byte position still fits a word.                     *)
Addressable(i) == SeenEnd(i) * RecSize <= Word

(* Every record the list promises for a session is that session's, and in  *)
(* order, when it is read ("so the GUI list stays truthful", imu_log.h),   *)
(* but for those that a failed write left out and for sessions beyond the  *)
(* reader's 32 bits.  Both calls hold log_lock.                            *)
ListTruthful ==
    lock = "free" /\ boot = "up" =>
        \A i \in Listed : \A k \in 0 .. ReadableCount(i) - 1 :
            Addressable(i) /\ ReadStart(i) + k \notin holes =>
            ReadRecord(i, k) = <<dir[i].seq, ReadStart(i) - dir[i].start + k>>

(* The sessions of the directory lie one after the other in the absolute   *)
(* record space, in the order they were started, across resets too: no     *)
(* record is counted for two of them.                                      *)
SessionsDisjoint ==
    meta = "ours" =>
        \A i, j \in LiveSlots :
            dir[i].seq < dir[j].seq => EndOf(dir[i]) <= dir[j].start

(* Once the log is up, an entry marked open is the running session's: a    *)
(* closed session is not reopened by a late directory refresh, and one cut *)
(* off by a reset does not stay open.                                      *)
OnlyRunningOpen ==
    boot = "up" =>
        \A i \in LiveSlots : dir[i].open =>
            /\ i = cur_slot /\ dir[i].seq = cur_seq
            /\ active \/ \E t \in Threads : pc[t] = "close"

(* The most accounting a reset can take from the running session: what a   *)
(* refresh that is one record short of due leaves, and one batch more.     *)
MaxLag == DirRefreshRecs + BatchRecs - 1

(* A running session keeps its directory entry, whatever is invalidated    *)
(* around it, and flash holds at most MaxLag records it does not count.    *)
AccountingBounded ==
    active => /\ dir[cur_slot].valid
              /\ dir[cur_slot].seq = cur_seq /\ dir[cur_slot].start = cur_start
              /\ cur_count + inflight <= dir[cur_slot].count + MaxLag

(* However often power fails, the write position is never more than MaxLag *)
(* records behind what flash holds: recovery loses a bounded tail.         *)
PositionBounded == boot = "up" => top <= total_abs + MaxLag

(* However often power fails, both losses are bounded: what the entry of   *)
(* the running session does not count yet, and what the write position     *)
(* has not reached yet ("Power loss mid-session loses at most the last    *)
(* ~8 KB", imu_log.h).                                                      *)
LossBounded == AccountingBounded /\ PositionBounded

(* How the session of slot i may leave the directory in one step.          *)
Justified(i) ==
    \/ dir'[i].valid /\ dir'[i].seq = dir[i].seq
    \/ meta' # "ours"
    \/ dir'[i].valid /\ dir'[i].seq > dir[i].seq /\ ~active
    \/ dir[i].start + RecCapacity < top /\ ~(active /\ i = cur_slot)

(* An entry leaves the directory only by a wipe, or because a newer        *)
(* session takes its slot, or because its first record is physically       *)
(* overwritten (invalidate_consumed); and never while it is the running    *)
(* session's.                                                              *)
DropJustified == [][\A i \in LiveSlots : Justified(i)]_vars

(* The catalogue the log presents: the session that runs, and of each      *)
(* session in the directory its records, the running one's counted in RAM. *)
Recording == IF Live THEN cur_seq ELSE 0
Named == IF meta = "ours" THEN {dir[i].seq : i \in LiveSlots} ELSE {}
Counted(i) == IF Live /\ i = cur_slot THEN cur_count ELSE dir[i].count
Presented == [s \in Named |-> Counted(SlotOf(s))]

Catalogue == INSTANCE SessionCatalogue
               WITH Kept <- MaxSessions, Batch <- BatchRecs, MaxLag <- MaxLag,
                    running <- Recording, stored <- Presented,
                    resets <- crashes

(* The log is such a catalogue ("so directory counts are final",           *)
(* imu_log.c): no late batch, refresh, second stop, invalidation or reset  *)
(* changes what a closed session holds, and a start drops a session only   *)
(* when MaxSessions newer ones were begun.                                 *)
CatalogueSpec == Catalogue!Spec

(* Every start, stop and erase returns, whoever holds the lock meanwhile.  *)
CommandsFinish == \A t \in Threads : pc[t] # "idle" ~> pc[t] = "idle"
=============================================================================
