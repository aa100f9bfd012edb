---------------------------- MODULE ImuLogProofs ----------------------------
(***************************************************************************)
(* The inductive invariant of ImuLog and the theorems it gives: what the   *)
(* log keeps, and that it is the catalogue of SessionCatalogue.            *)
(***************************************************************************)
EXTENDS ImuLog, TLAPS

(* Who holds log_lock is at a step that needs it, and only "cmd" starts.   *)
LockInv ==
    /\ lock = "writer" <=> wpc \in {"commit", "refresh", "invalidate"}
    /\ lock = "cmd" <=> pc["cmd"] \in {"entry", "close", "stamp"}
    /\ lock = "rx" <=> pc["rx"] = "close"
    /\ pc["rx"] \in {"idle", "flush", "lock", "close"}
    /\ inflight > 0 <=> wpc = "commit"
    /\ pc["cmd"] \in {"entry", "erase", "stamp"} => ~active
    /\ \A t \in Threads : pc[t] = "close" => ~active

(* Before the log is up the RAM state is the initial one.                  *)
BootInv ==
    /\ boot # "up" =>
         /\ lock = "free" /\ wpc = "wait" /\ ~active /\ ~pumping
         /\ \A t \in Threads : pc[t] = "idle"
         /\ total_abs = 0 /\ seq_next = 1 /\ cur_count = 0
         /\ last_dir_refresh = 0 /\ inflight = 0 /\ stage = <<>>
    /\ boot = "up" => meta = IF pc["cmd"] = "stamp" THEN "blank" ELSE "ours"
    /\ boot = "stamp" \/ pc["cmd"] = "stamp" => meta = "blank"
    /\ meta = "blank" => LiveSlots = {}

(* The entries are distinct, ordered and behind the write position.        *)
DirInv ==
    meta = "ours" =>
        /\ \A i \in LiveSlots : dir[i].seq > 0 /\ SlotOf(dir[i].seq) = i
        /\ SessionsDisjoint
        /\ boot = "up" => \A i \in LiveSlots :
             /\ dir[i].seq < seq_next
             /\ EndOf(dir[i]) <= total_abs
             /\ pc["cmd"] = "entry" => dir[i].seq < cur_seq

(* The session variables while a session is opened, runs or is closed.     *)
CurrentInv ==
    /\ Live \/ pc["cmd"] = "entry" =>
         /\ cur_seq > 0 /\ seq_next = cur_seq + 1
         /\ cur_slot = SlotOf(cur_seq)
         /\ total_abs = cur_start + cur_count
    /\ pc["cmd"] = "entry" => cur_count = 0 /\ last_dir_refresh = 0
    /\ Live =>
         /\ dir[cur_slot].valid
         /\ dir[cur_slot].seq = cur_seq /\ dir[cur_slot].start = cur_start
         /\ dir[cur_slot].count = last_dir_refresh
         /\ last_dir_refresh <= cur_count
         /\ cur_count <= last_dir_refresh + MaxLag
         /\ wpc # "refresh" => cur_count < last_dir_refresh + DirRefreshRecs

(* After a stop at most one late batch is written, too short to make a     *)
(* directory refresh due; after an erase there is nothing to refresh.      *)
ClosedInv ==
    boot = "up" /\ ~Live /\ LiveSlots # {} =>
        /\ wpc \in {"wait", "lock", "commit"}
        /\ last_dir_refresh <= cur_count
        /\ cur_count + inflight <= last_dir_refresh + BatchRecs
        /\ wpc = "lock" => cur_count = last_dir_refresh

(* x lies at most d past the last record the directory accounts for.       *)
Within(x, d) == x <= d \/ \E i \in LiveSlots : x <= EndOf(dir[i]) + d

(* How far flash and the write position are ahead of the directory.        *)
TailInv ==
    /\ boot = "up" => total_abs + inflight <= top /\ top <= total_abs + MaxLag
    /\ Live => top <= cur_start + last_dir_refresh + MaxLag
    /\ meta = "ours" => /\ Within(top, MaxLag)
                        /\ \A i \in LiveSlots : EndOf(dir[i]) <= top
    /\ boot = "up" /\ meta = "ours" /\ ~Live =>
         /\ Within(total_abs + inflight, BatchRecs)
         /\ wpc = "lock" => Within(total_abs, 0)
    /\ crashes = 0 => top = total_abs + inflight

OpenInv == OnlyRunningOpen

(* The staged records of a running session continue its written ones.      *)
StageInv ==
    active \/ pc["cmd"] = "entry" =>
        \A j \in 1 .. Len(stage) : stage[j] = <<cur_seq, cur_count + j - 1>>

(* The records of the sessions that are not running are in their cells.    *)
StoredIntact ==
    meta = "ours" =>
        \A i \in LiveSlots : ~(Live /\ i = cur_slot) =>
            \A a \in dir[i].start .. EndOf(dir[i]) - 1 :
                a \notin holes /\ a + RecCapacity >= top
                    => ring[CellOf(a)] = <<dir[i].seq, a - dir[i].start>>

(* The running session's records up to cur_count, and the batch in flight, *)
(* are in their cells.                                                     *)
RunningIntact ==
    Live =>
        /\ \A a \in cur_start .. total_abs - 1 :
             a \notin holes /\ a + RecCapacity >= top
                 => ring[CellOf(a)] = <<cur_seq, a - cur_start>>
        /\ \A d \in 0 .. inflight - 1 : total_abs + d \notin holes =>
             ring[CellOf(total_abs + d)] = stage[d + 1]

IInv == /\ TypeOK /\ LockInv /\ BootInv /\ DirInv /\ CurrentInv /\ ClosedInv
        /\ TailInv /\ OpenInv /\ StageInv /\ StoredIntact /\ RunningIntact

-----------------------------------------------------------------------------
(* What the modular arithmetic of slots and cells needs: the remainder and *)
(* the quotient recompose the number.                                      *)
LEMMA DivMod ==
  ASSUME NEW n \in Nat \ {0}, NEW a \in Nat
  PROVE  a % n \in 0 .. n - 1 /\ a \div n \in Nat /\ a = n * (a \div n) + (a % n)
<1>1. a % n \in 0 .. n - 1
  OBVIOUS
<1>2. a \div n \in Nat
  OBVIOUS
<1>3. a = n * (a \div n) + (a % n)
  OBVIOUS
<1> QED
  BY <1>1, <1>2, <1>3

LEMMA CellOfBounds == ASSUME NEW a \in Nat PROVE CellOf(a) \in Cells
  BY DivMod, LogAssumption DEF CellOf, Cells

LEMMA SlotOfBounds == ASSUME NEW s \in Nat \ {0} PROVE SlotOf(s) \in Slots
  BY s - 1 \in Nat, DivMod, LogAssumption DEF SlotOf, Slots

LEMMA Nums == /\ 0 \in Nat /\ 1 \in Nat \ {0} /\ 0 \in Slots
              /\ 0 \in 0 .. BatchRecs /\ 0 <= StageN
  BY LogAssumption DEF Slots

(* A batch fits in the stage, in one write and before the ring's end.      *)
LEMMA BatchLenBounds ==
  ASSUME TypeOK
  PROVE  /\ BatchLen \in 0 .. BatchRecs /\ BatchLen <= Len(stage)
         /\ CellOf(total_abs) + BatchLen <= RecCapacity
         /\ stage # <<>> => BatchLen > 0
<1>1. CellOf(total_abs) \in 0 .. RecCapacity - 1
  BY CellOfBounds DEF TypeOK, LogOK, Cells
<1>2. Len(stage) \in Nat /\ (stage # <<>> => Len(stage) > 0)
  BY DEF TypeOK, StageOK
<1> QED
  BY <1>1, <1>2, LogAssumption DEF BatchLen, Least

-----------------------------------------------------------------------------
LEMMA TypeInit == Init => TypeOK
<1> SUFFICES ASSUME Init PROVE TypeOK
  OBVIOUS
<1>1. FlashOK
  BY Nums DEF Init, FlashOK, NoEntry, Entries, NoRec, Tags
<1>2. LogOK
  BY Nums DEF Init, LogOK
<1>3. StageOK
  <2>1. stage = <<>> /\ log_dropped = 0 /\ inflight = 0
    BY DEF Init
  <2> QED
    BY <2>1, Nums DEF StageOK
<1>4. ThreadsOK
  BY DEF Init, ThreadsOK, Threads
<1> QED
  BY <1>1, <1>2, <1>3, <1>4 DEF TypeOK

LEMMA TypeNext == TypeOK /\ LockInv /\ [Next]_vars => TypeOK'
<1> SUFFICES ASSUME TypeOK, LockInv, [Next]_vars PROVE TypeOK'
  OBVIOUS
<1> USE DEF flash, position, current, counts, session, staging, writer,
      callers, history
<1>1. CASE PumpEnters
  <2>1. FlashOK' /\ LogOK' /\ StageOK'
    BY <1>1 DEF PumpEnters, TypeOK, FlashOK, LogOK, StageOK
  <2>2. ThreadsOK'
    BY <1>1 DEF PumpEnters, TypeOK, ThreadsOK, Threads
  <2> QED
    BY <2>1, <2>2 DEF TypeOK
<1>2. CASE PumpStages
  <2>1. FlashOK' /\ LogOK'
    BY <1>2 DEF PumpStages, TypeOK, FlashOK, LogOK
  <2>2. StageOK'
    <3>1. CASE Len(stage) >= StageN
      <4>1. stage' = stage /\ log_dropped' = log_dropped + 1 /\ inflight' = inflight
        BY <1>2, <3>1 DEF PumpStages, StageFull
      <4> QED
        BY <4>1 DEF TypeOK, StageOK
    <3>2. CASE ~(Len(stage) >= StageN)
      <4>1. /\ stage' = Append(stage, <<cur_seq, cur_count + Len(stage)>>)
            /\ log_dropped' = log_dropped /\ inflight' = inflight
        BY <1>2, <3>2 DEF PumpStages, StageFull
      <4>2. <<cur_seq, cur_count + Len(stage)>> \in Tags
        BY DEF TypeOK, LogOK, StageOK, Tags
      <4>3. stage' \in Seq(Tags) /\ Len(stage') = Len(stage) + 1
        BY <4>1, <4>2 DEF TypeOK, StageOK
      <4> QED
        BY <4>1, <4>3, <3>2, LogAssumption DEF TypeOK, StageOK
    <3> QED
      BY <3>1, <3>2
  <2>3. ThreadsOK'
    BY <1>2 DEF PumpStages, TypeOK, ThreadsOK, Threads
  <2> QED
    BY <2>1, <2>2, <2>3 DEF TypeOK
<1>3. CASE PumpLeaves
  <2>1. FlashOK' /\ LogOK' /\ StageOK'
    BY <1>3 DEF PumpLeaves, TypeOK, FlashOK, LogOK, StageOK
  <2>2. ThreadsOK'
    BY <1>3 DEF PumpLeaves, TypeOK, ThreadsOK, Threads
  <2> QED
    BY <2>1, <2>2 DEF TypeOK
<1>4. CASE WriterSees
  <2>1. FlashOK' /\ LogOK' /\ StageOK'
    BY <1>4 DEF WriterSees, TypeOK, FlashOK, LogOK, StageOK
  <2>2. ThreadsOK'
    BY <1>4 DEF WriterSees, TypeOK, ThreadsOK, Threads
  <2> QED
    BY <2>1, <2>2 DEF TypeOK
<1>5. CASE WriterFindsNothing
  <2>1. FlashOK' /\ LogOK' /\ StageOK'
    BY <1>5 DEF WriterFindsNothing, TypeOK, FlashOK, LogOK, StageOK
  <2>2. ThreadsOK'
    BY <1>5 DEF WriterFindsNothing, TypeOK, ThreadsOK, Threads
  <2> QED
    BY <2>1, <2>2 DEF TypeOK
<1>6. CASE WriterWrites
  <2>1. LogOK'
    BY <1>6 DEF WriterWrites, TypeOK, LogOK
  <2>2. FlashOK'
    <3>1. top' \in Nat
      <4>1. total_abs + BatchLen \in Nat
        BY BatchLenBounds DEF TypeOK, LogOK
      <4> QED
        BY <4>1, <1>6 DEF WriterWrites, TypeOK, FlashOK
    <3>2. PICK n \in 0 .. BatchLen :
            /\ ring' = [c \in Cells |->
                    IF c \in CellOf(total_abs) .. CellOf(total_abs) + n - 1
                      THEN stage[c - CellOf(total_abs) + 1] ELSE ring[c]]
            /\ holes' = (holes \ (total_abs .. total_abs + n - 1))
                          \union (total_abs + n .. total_abs + BatchLen - 1)
      BY <1>6 DEF WriterWrites
    <3>3. /\ BatchLen \in Nat /\ BatchLen <= Len(stage) /\ Len(stage) \in Nat
          /\ total_abs \in Nat /\ n \in Nat /\ n <= BatchLen
      BY BatchLenBounds, LogAssumption DEF TypeOK, StageOK, LogOK
    <3>4. holes' \subseteq Nat
      BY <3>2, <3>3 DEF TypeOK, FlashOK
    <3>5. ring' \in [Cells -> Tags]
      <4>1. ASSUME NEW c \in Cells,
                   c \in CellOf(total_abs) .. CellOf(total_abs) + n - 1
            PROVE  stage[c - CellOf(total_abs) + 1] \in Tags
        <5>1. c - CellOf(total_abs) + 1 \in 1 .. Len(stage)
          <6>1. CellOf(total_abs) \in 0 .. RecCapacity - 1
            BY CellOfBounds DEF TypeOK, LogOK, Cells
          <6> QED
            BY <4>1, <6>1, <3>3, LogAssumption
        <5> QED
          BY <5>1 DEF TypeOK, StageOK
      <4> QED
        BY <3>2, <4>1 DEF TypeOK, FlashOK
    <3> QED
      BY <3>1, <3>4, <3>5, <1>6 DEF WriterWrites, TypeOK, FlashOK
  <2>3. StageOK'
    <3>1. inflight' = BatchLen /\ stage' = stage /\ log_dropped' = log_dropped
      BY <1>6 DEF WriterWrites
    <3> QED
      BY <3>1, BatchLenBounds DEF TypeOK, StageOK
  <2>4. ThreadsOK'
    BY <1>6 DEF WriterWrites, TypeOK, ThreadsOK, Threads
  <2> QED
    BY <2>1, <2>2, <2>3, <2>4 DEF TypeOK
<1>7. CASE WriterCommits
  <2>1. FlashOK'
    BY <1>7 DEF WriterCommits, TypeOK, FlashOK
  <2>2. LogOK'
    <3>1. /\ total_abs' = total_abs + inflight
          /\ cur_count' = cur_count + inflight
      BY <1>7 DEF WriterCommits
    <3>2. total_abs' \in Nat /\ cur_count' \in Nat
      BY <3>1 DEF TypeOK, LogOK, StageOK
    <3> QED
      BY <3>2, <1>7 DEF WriterCommits, TypeOK, LogOK
  <2>3. StageOK'
    <3>1. /\ stage' = SubSeq(stage, inflight + 1, Len(stage))
          /\ inflight' = 0 /\ log_dropped' = log_dropped
      BY <1>7 DEF WriterCommits
    <3>2. stage' \in Seq(Tags) /\ Len(stage') = Len(stage) - inflight
      BY <3>1 DEF TypeOK, StageOK
    <3> QED
      BY <3>1, <3>2, LogAssumption DEF TypeOK, StageOK
  <2>4. ThreadsOK'
    BY <1>7 DEF WriterCommits, TypeOK, ThreadsOK, Threads
  <2> QED
    BY <2>1, <2>2, <2>3, <2>4 DEF TypeOK
<1>8. CASE WriterRefreshes
  <2>1. StageOK'
    BY <1>8 DEF WriterRefreshes, DirRefreshCurrent, TypeOK, StageOK
  <2>2. FlashOK'
    BY <1>8 DEF WriterRefreshes, DirRefreshCurrent, LogOK, Entries, TypeOK,
       FlashOK
  <2>3. LogOK'
    BY <1>8 DEF WriterRefreshes, DirRefreshCurrent, TypeOK, LogOK
  <2>4. ThreadsOK'
    BY <1>8 DEF WriterRefreshes, DirRefreshCurrent, TypeOK, ThreadsOK,
       Threads
  <2> QED
    BY <2>1, <2>2, <2>3, <2>4 DEF TypeOK
<1>9. ASSUME NEW i \in Slots, WriterInvalidates(i) PROVE TypeOK'
  <2>1. LogOK' /\ StageOK'
    BY <1>9 DEF WriterInvalidates, TypeOK, LogOK, StageOK
  <2>2. FlashOK'
    BY <1>9 DEF WriterInvalidates, Consumed, NoEntry, Entries, TypeOK,
       FlashOK
  <2>3. ThreadsOK'
    BY <1>9 DEF WriterInvalidates, TypeOK, ThreadsOK, Threads
  <2> QED
    BY <2>1, <2>2, <2>3 DEF TypeOK
<1>10. CASE WriterFinishes
  <2>1. FlashOK' /\ LogOK' /\ StageOK'
    BY <1>10 DEF WriterFinishes, TypeOK, FlashOK, LogOK, StageOK
  <2>2. ThreadsOK'
    BY <1>10 DEF WriterFinishes, TypeOK, ThreadsOK, Threads
  <2> QED
    BY <2>1, <2>2 DEF TypeOK
<1>11. CASE StartRefused
  <2>1. FlashOK' /\ LogOK' /\ StageOK'
    BY <1>11 DEF StartRefused, vars, TypeOK, FlashOK, LogOK, StageOK
  <2>2. ThreadsOK'
    BY <1>11 DEF StartRefused, vars, TypeOK, ThreadsOK, Threads
  <2> QED
    BY <2>1, <2>2 DEF TypeOK
<1>12. ASSUME NEW o \in {"start", "detached"}, StartOpens(o)
      PROVE  TypeOK'
  <2>1. FlashOK'
    BY <1>12 DEF StartOpens, TypeOK, FlashOK
  <2>2. LogOK'
    <3>1. SlotOf(seq_next) \in Slots
      BY SlotOfBounds DEF TypeOK, LogOK
    <3>2. seq_next \in Nat /\ seq_next + 1 \in Nat \ {0}
      BY DEF TypeOK, LogOK
    <3> QED
      BY <3>1, <3>2, Nums, <1>12 DEF StartOpens, TypeOK, LogOK
  <2>3. StageOK'
    <3>1. stage' = <<>> /\ log_dropped' = 0 /\ inflight' = inflight
      BY <1>12 DEF StartOpens
    <3>2. inflight = 0
      BY <1>12 DEF StartOpens, LockInv, TypeOK, StageOK
    <3> QED
      BY <3>1, <3>2, Nums DEF TypeOK, StageOK
  <2>4. ThreadsOK'
    BY <1>12 DEF StartOpens, TypeOK, ThreadsOK, Threads
  <2> QED
    BY <2>1, <2>2, <2>3, <2>4 DEF TypeOK
<1>13. CASE StartWritesEntry
  <2>1. LogOK' /\ StageOK'
    BY <1>13 DEF StartWritesEntry, Return, TypeOK, LogOK, StageOK
  <2>2. FlashOK'
    BY <1>13 DEF StartWritesEntry, Return, LogOK, NewEntry, Entries, TypeOK,
       FlashOK
  <2>3. ThreadsOK'
    BY <1>13 DEF StartWritesEntry, Return, TypeOK, ThreadsOK, Threads
  <2> QED
    BY <2>1, <2>2, <2>3 DEF TypeOK
<1>14. CASE StartFails
  <2>1. FlashOK' /\ LogOK' /\ StageOK'
    BY <1>14 DEF StartFails, Return, TypeOK, FlashOK, LogOK, StageOK
  <2>2. ThreadsOK'
    BY <1>14 DEF StartFails, Return, TypeOK, ThreadsOK, Threads
  <2> QED
    BY <2>1, <2>2 DEF TypeOK
<1>15. CASE MarkDetached
  <2>1. FlashOK' /\ LogOK' /\ StageOK'
    BY <1>15 DEF MarkDetached, Return, TypeOK, FlashOK, LogOK, StageOK
  <2>2. ThreadsOK'
    BY <1>15 DEF MarkDetached, Return, TypeOK, ThreadsOK, Threads
  <2> QED
    BY <2>1, <2>2 DEF TypeOK
<1>16. CASE EraseCalled
  <2>1. FlashOK' /\ LogOK' /\ StageOK'
    BY <1>16 DEF EraseCalled, TypeOK, FlashOK, LogOK, StageOK
  <2>2. ThreadsOK'
    BY <1>16 DEF EraseCalled, TypeOK, ThreadsOK, Threads
  <2> QED
    BY <2>1, <2>2 DEF TypeOK
<1>17. CASE EraseWipes
  <2>1. LogOK' /\ StageOK'
    BY <1>17 DEF EraseWipes, DirWipe, TypeOK, LogOK, StageOK
  <2>2. FlashOK'
    BY <1>17 DEF EraseWipes, DirWipe, NoEntry, Entries, TypeOK, FlashOK
  <2>3. ThreadsOK'
    BY <1>17 DEF EraseWipes, DirWipe, TypeOK, ThreadsOK, Threads
  <2> QED
    BY <2>1, <2>2, <2>3 DEF TypeOK
<1>18. CASE EraseStamps
  <2>1. StageOK'
    BY <1>18 DEF EraseStamps, DirStamp, Return, TypeOK, StageOK
  <2>2. FlashOK'
    BY <1>18, Nums DEF EraseStamps, DirStamp, Return, NoRec, Tags, TypeOK,
       FlashOK
  <2>3. LogOK'
    BY <1>18, Nums DEF EraseStamps, DirStamp, Return, TypeOK, LogOK
  <2>4. ThreadsOK'
    BY <1>18 DEF EraseStamps, DirStamp, Return, TypeOK, ThreadsOK, Threads
  <2> QED
    BY <2>1, <2>2, <2>3, <2>4 DEF TypeOK
<1>19. CASE Crash
  <2>1. FlashOK'
    BY <1>19 DEF Crash, TypeOK, FlashOK
  <2>2. LogOK'
    BY <1>19, Nums DEF Crash, TypeOK, LogOK
  <2>3. StageOK'
    <3>1. stage' = <<>> /\ log_dropped' = 0 /\ inflight' = 0
      BY <1>19 DEF Crash
    <3> QED
      BY <3>1, Nums DEF StageOK
  <2>4. ThreadsOK'
    BY <1>19 DEF Crash, TypeOK, ThreadsOK, Threads
  <2> QED
    BY <2>1, <2>2, <2>3, <2>4 DEF TypeOK
<1>20. CASE FirmwareUpdated
  <2>1. LogOK' /\ StageOK'
    BY <1>20 DEF FirmwareUpdated, TypeOK, LogOK, StageOK
  <2>2. FlashOK'
    BY <1>20 DEF FirmwareUpdated, NoRec, Tags, TypeOK, FlashOK
  <2>3. ThreadsOK'
    BY <1>20 DEF FirmwareUpdated, TypeOK, ThreadsOK, Threads
  <2> QED
    BY <2>1, <2>2, <2>3 DEF TypeOK
<1>21. CASE BootWipes
  <2>1. LogOK' /\ StageOK'
    BY <1>21 DEF BootWipes, DirWipe, TypeOK, LogOK, StageOK
  <2>2. FlashOK'
    BY <1>21 DEF BootWipes, DirWipe, NoEntry, Entries, TypeOK, FlashOK
  <2>3. ThreadsOK'
    BY <1>21 DEF BootWipes, DirWipe, TypeOK, ThreadsOK, Threads
  <2> QED
    BY <2>1, <2>2, <2>3 DEF TypeOK
<1>22. CASE BootStamps
  <2>1. LogOK' /\ StageOK'
    BY <1>22 DEF BootStamps, DirStamp, TypeOK, LogOK, StageOK
  <2>2. FlashOK'
    BY <1>22, Nums DEF BootStamps, DirStamp, NoRec, Tags, TypeOK, FlashOK
  <2>3. ThreadsOK'
    BY <1>22 DEF BootStamps, DirStamp, TypeOK, ThreadsOK, Threads
  <2> QED
    BY <2>1, <2>2, <2>3 DEF TypeOK
<1>23. CASE BootRecovers
  <2>1. StageOK'
    BY <1>23 DEF BootRecovers, TypeOK, StageOK
  <2>2. FlashOK'
    BY <1>23 DEF BootRecovers, Entries, TypeOK, FlashOK
  <2>3. LogOK'
    <3>1. \A i \in LiveSlots : EndOf(dir[i]) \in Nat /\ dir[i].seq + 1 \in Nat \ {0}
      BY DEF TypeOK, FlashOK, Entries, LiveSlots, EndOf
    <3>2. total_abs' \in Nat /\ seq_next' \in Nat \ {0}
      BY <1>23, <3>1 DEF BootRecovers
    <3> QED
      BY <3>2, <1>23 DEF BootRecovers, TypeOK, LogOK
  <2>4. ThreadsOK'
    BY <1>23 DEF BootRecovers, TypeOK, ThreadsOK, Threads
  <2> QED
    BY <2>1, <2>2, <2>3, <2>4 DEF TypeOK
<1>24. ASSUME NEW t \in Threads, StopCalled(t) PROVE TypeOK'
  <2>1. FlashOK' /\ LogOK' /\ StageOK'
    BY <1>24 DEF StopCalled, TypeOK, FlashOK, LogOK, StageOK
  <2>2. ThreadsOK'
    BY <1>24 DEF StopCalled, TypeOK, ThreadsOK, Threads
  <2> QED
    BY <2>1, <2>2 DEF TypeOK
<1>25. ASSUME NEW t \in Threads, FlushEnds(t) PROVE TypeOK'
  <2>1. FlashOK' /\ LogOK' /\ StageOK'
    BY <1>25 DEF FlushEnds, TypeOK, FlashOK, LogOK, StageOK
  <2>2. ThreadsOK'
    BY <1>25 DEF FlushEnds, TypeOK, ThreadsOK, Threads
  <2> QED
    BY <2>1, <2>2 DEF TypeOK
<1>26. ASSUME NEW t \in Threads, StopDeactivates(t) PROVE TypeOK'
  <2>1. FlashOK' /\ LogOK' /\ StageOK'
    BY <1>26 DEF StopDeactivates, TypeOK, FlashOK, LogOK, StageOK
  <2>2. ThreadsOK'
    BY <1>26 DEF StopDeactivates, TypeOK, ThreadsOK, Threads
  <2> QED
    BY <2>1, <2>2 DEF TypeOK
<1>27. ASSUME NEW t \in Threads, StopFindsInactive(t) PROVE TypeOK'
  <2>1. FlashOK' /\ LogOK' /\ StageOK'
    BY <1>27 DEF StopFindsInactive, StopReturns, Return, TypeOK, FlashOK,
       LogOK, StageOK
  <2>2. ThreadsOK'
    BY <1>27 DEF StopFindsInactive, StopReturns, Return, TypeOK, ThreadsOK,
       Threads
  <2> QED
    BY <2>1, <2>2 DEF TypeOK
<1>28. ASSUME NEW t \in Threads, StopCloses(t) PROVE TypeOK'
  <2>1. StageOK'
    BY <1>28 DEF StopCloses, DirRefreshCurrent, StopReturns, Return, TypeOK,
       StageOK
  <2>2. FlashOK'
    BY <1>28 DEF StopCloses, DirRefreshCurrent, StopReturns, Return, LogOK,
       Entries, TypeOK, FlashOK
  <2>3. LogOK'
    BY <1>28 DEF StopCloses, DirRefreshCurrent, StopReturns, Return, TypeOK,
       LogOK
  <2>4. ThreadsOK'
    BY <1>28 DEF StopCloses, DirRefreshCurrent, StopReturns, Return, TypeOK,
       ThreadsOK, Threads
  <2> QED
    BY <2>1, <2>2, <2>3, <2>4 DEF TypeOK
<1>29. CASE UNCHANGED vars
  BY <1>29 DEF vars, TypeOK, FlashOK, LogOK, StageOK, ThreadsOK
<1> QED
  BY <1>1, <1>2, <1>3, <1>4, <1>5, <1>6, <1>7, <1>8, <1>9, <1>10, <1>11,
     <1>12, <1>13, <1>14, <1>15, <1>16, <1>17, <1>18, <1>19, <1>20, <1>21,
     <1>22, <1>23, <1>24, <1>25, <1>26, <1>27, <1>28, <1>29 DEF Next, Pump,
     Writer, Start, Erase, Reset, Stop

-----------------------------------------------------------------------------
LEMMA LockInit == Init => LockInv
  BY DEF Init, LockInv, Threads

LEMMA LockNext == TypeOK /\ LockInv /\ [Next]_vars => LockInv'
<1> SUFFICES ASSUME TypeOK, LockInv, [Next]_vars PROVE LockInv'
  OBVIOUS
<1> USE DEF flash, position, current, counts, session, staging, writer,
      callers, history
<1>0. ThreadsOK /\ inflight \in Nat
  BY DEF TypeOK, StageOK
<1>1. CASE PumpEnters
  BY <1>1, <1>0 DEF PumpEnters, LockInv, ThreadsOK, Threads
<1>2. CASE PumpStages
  BY <1>2, <1>0 DEF PumpStages, LockInv, ThreadsOK, Threads
<1>3. CASE PumpLeaves
  BY <1>3, <1>0 DEF PumpLeaves, LockInv, ThreadsOK, Threads
<1>4. CASE WriterSees
  BY <1>4, <1>0 DEF WriterSees, LockInv, ThreadsOK, Threads
<1>5. CASE WriterFindsNothing
  BY <1>5, <1>0 DEF WriterFindsNothing, LockInv, ThreadsOK, Threads
<1>6. CASE WriterWrites
  <2>1. BatchLen > 0
    BY <1>6, BatchLenBounds DEF WriterWrites
  <2> QED
    BY <1>6, <1>0, <2>1 DEF WriterWrites, LockInv, ThreadsOK, Threads
<1>7. CASE WriterCommits
  BY <1>7, <1>0 DEF WriterCommits, LockInv, ThreadsOK, Threads
<1>8. CASE WriterRefreshes
  BY <1>8, <1>0 DEF WriterRefreshes, DirRefreshCurrent, LockInv, ThreadsOK,
     Threads
<1>9. ASSUME NEW i \in Slots, WriterInvalidates(i) PROVE LockInv'
  BY <1>9, <1>0 DEF WriterInvalidates, Consumed, LockInv, ThreadsOK, Threads
<1>10. CASE WriterFinishes
  BY <1>10, <1>0 DEF WriterFinishes, LockInv, ThreadsOK, Threads
<1>11. CASE StartRefused
  BY <1>11, <1>0 DEF StartRefused, vars, LockInv, ThreadsOK, Threads
<1>12. ASSUME NEW o \in {"start", "detached"}, StartOpens(o)
      PROVE  LockInv'
  BY <1>12, <1>0 DEF StartOpens, LockInv, ThreadsOK, Threads
<1>13. CASE StartWritesEntry
  BY <1>13, <1>0 DEF StartWritesEntry, Return, LockInv, ThreadsOK, Threads
<1>14. CASE StartFails
  BY <1>14, <1>0 DEF StartFails, Return, LockInv, ThreadsOK, Threads
<1>15. CASE MarkDetached
  BY <1>15, <1>0 DEF MarkDetached, Return, LockInv, ThreadsOK, Threads
<1>16. CASE EraseCalled
  BY <1>16, <1>0 DEF EraseCalled, LockInv, ThreadsOK, Threads
<1>17. CASE EraseWipes
  BY <1>17, <1>0 DEF EraseWipes, DirWipe, LockInv, ThreadsOK, Threads
<1>18. CASE EraseStamps
  BY <1>18, <1>0 DEF EraseStamps, DirStamp, Return, LockInv, ThreadsOK,
     Threads
<1>19. CASE Crash
  BY <1>19, <1>0 DEF Crash, LockInv, ThreadsOK, Threads
<1>20. CASE FirmwareUpdated
  BY <1>20, <1>0 DEF FirmwareUpdated, LockInv, ThreadsOK, Threads
<1>21. CASE BootWipes
  BY <1>21, <1>0 DEF BootWipes, DirWipe, LockInv, ThreadsOK, Threads
<1>22. CASE BootStamps
  BY <1>22, <1>0 DEF BootStamps, DirStamp, LockInv, ThreadsOK, Threads
<1>23. CASE BootRecovers
  BY <1>23, <1>0 DEF BootRecovers, LockInv, ThreadsOK, Threads
<1>24. ASSUME NEW t \in Threads, StopCalled(t) PROVE LockInv'
  BY <1>24, <1>0 DEF StopCalled, LockInv, ThreadsOK, Threads
<1>25. ASSUME NEW t \in Threads, FlushEnds(t) PROVE LockInv'
  BY <1>25, <1>0 DEF FlushEnds, LockInv, ThreadsOK, Threads
<1>26. ASSUME NEW t \in Threads, StopDeactivates(t) PROVE LockInv'
  BY <1>26, <1>0 DEF StopDeactivates, LockInv, ThreadsOK, Threads
<1>27. ASSUME NEW t \in Threads, StopFindsInactive(t) PROVE LockInv'
  BY <1>27, <1>0 DEF StopFindsInactive, StopReturns, Return, LockInv,
     ThreadsOK, Threads
<1>28. ASSUME NEW t \in Threads, StopCloses(t) PROVE LockInv'
  BY <1>28, <1>0 DEF StopCloses, DirRefreshCurrent, StopReturns, Return,
     LockInv, ThreadsOK, Threads
<1>29. CASE UNCHANGED vars
  BY <1>29 DEF vars, LockInv
<1> QED
  BY <1>1, <1>2, <1>3, <1>4, <1>5, <1>6, <1>7, <1>8, <1>9, <1>10, <1>11,
     <1>12, <1>13, <1>14, <1>15, <1>16, <1>17, <1>18, <1>19, <1>20, <1>21,
     <1>22, <1>23, <1>24, <1>25, <1>26, <1>27, <1>28, <1>29 DEF Next, Pump,
     Writer, Start, Erase, Reset, Stop

-----------------------------------------------------------------------------
LEMMA BootInit == Init => BootInv
  BY DEF Init, BootInv, LiveSlots, NoEntry, Threads

LEMMA BootNext == TypeOK /\ LockInv /\ BootInv /\ [Next]_vars => BootInv'
<1> SUFFICES ASSUME TypeOK, LockInv, BootInv, [Next]_vars PROVE BootInv'
  OBVIOUS
<1> USE DEF flash, position, current, counts, session, staging, writer,
      callers, history
<1>0. ThreadsOK
  BY DEF TypeOK
<1>1. CASE PumpEnters
  BY <1>1, <1>0 DEF PumpEnters, BootInv, LockInv, ThreadsOK, Threads,
     LiveSlots
<1>2. CASE PumpStages
  BY <1>2, <1>0 DEF PumpStages, BootInv, LockInv, ThreadsOK, Threads,
     LiveSlots
<1>3. CASE PumpLeaves
  BY <1>3, <1>0 DEF PumpLeaves, BootInv, LockInv, ThreadsOK, Threads,
     LiveSlots
<1>4. CASE WriterSees
  BY <1>4, <1>0 DEF WriterSees, BootInv, LockInv, ThreadsOK, Threads,
     LiveSlots
<1>5. CASE WriterFindsNothing
  BY <1>5, <1>0 DEF WriterFindsNothing, BootInv, LockInv, ThreadsOK,
     Threads, LiveSlots
<1>6. CASE WriterWrites
  BY <1>6, <1>0 DEF WriterWrites, BootInv, LockInv, ThreadsOK, Threads,
     LiveSlots
<1>7. CASE WriterCommits
  BY <1>7, <1>0 DEF WriterCommits, BootInv, LockInv, ThreadsOK, Threads,
     LiveSlots
<1>8. CASE WriterRefreshes
  BY <1>8, <1>0 DEF WriterRefreshes, DirRefreshCurrent, BootInv, LockInv,
     ThreadsOK, Threads, LiveSlots
<1>9. ASSUME NEW i \in Slots, WriterInvalidates(i) PROVE BootInv'
  BY <1>9, <1>0 DEF WriterInvalidates, Consumed, BootInv, LockInv,
     ThreadsOK, Threads, LiveSlots, NoEntry
<1>10. CASE WriterFinishes
  BY <1>10, <1>0 DEF WriterFinishes, BootInv, LockInv, ThreadsOK, Threads,
     LiveSlots
<1>11. CASE StartRefused
  BY <1>11, <1>0 DEF StartRefused, vars, BootInv, LockInv, ThreadsOK,
     Threads, LiveSlots
<1>12. ASSUME NEW o \in {"start", "detached"}, StartOpens(o)
      PROVE  BootInv'
  BY <1>12, <1>0 DEF StartOpens, BootInv, LockInv, ThreadsOK, Threads,
     LiveSlots
<1>13. CASE StartWritesEntry
  BY <1>13, <1>0 DEF StartWritesEntry, Return, BootInv, LockInv, ThreadsOK,
     Threads, LiveSlots
<1>14. CASE StartFails
  BY <1>14, <1>0 DEF StartFails, Return, BootInv, LockInv, ThreadsOK,
     Threads, LiveSlots
<1>15. CASE MarkDetached
  BY <1>15, <1>0 DEF MarkDetached, Return, BootInv, LockInv, ThreadsOK,
     Threads, LiveSlots
<1>16. CASE EraseCalled
  BY <1>16, <1>0 DEF EraseCalled, BootInv, LockInv, ThreadsOK, Threads,
     LiveSlots
<1>17. CASE EraseWipes
  BY <1>17, <1>0 DEF EraseWipes, DirWipe, BootInv, LockInv, ThreadsOK,
     Threads, LiveSlots, NoEntry
<1>18. CASE EraseStamps
  BY <1>18, <1>0 DEF EraseStamps, DirStamp, Return, BootInv, LockInv,
     ThreadsOK, Threads, LiveSlots
<1>19. CASE Crash
  BY <1>19, <1>0 DEF Crash, BootInv, LockInv, ThreadsOK, Threads, LiveSlots
<1>20. CASE FirmwareUpdated
  BY <1>20, <1>0 DEF FirmwareUpdated, BootInv, LockInv, ThreadsOK, Threads,
     LiveSlots
<1>21. CASE BootWipes
  BY <1>21, <1>0 DEF BootWipes, DirWipe, BootInv, LockInv, ThreadsOK,
     Threads, LiveSlots, NoEntry
<1>22. CASE BootStamps
  BY <1>22, <1>0 DEF BootStamps, DirStamp, BootInv, LockInv, ThreadsOK,
     Threads, LiveSlots
<1>23. CASE BootRecovers
  BY <1>23, <1>0 DEF BootRecovers, BootInv, LockInv, ThreadsOK, Threads,
     LiveSlots
<1>24. ASSUME NEW t \in Threads, StopCalled(t) PROVE BootInv'
  BY <1>24, <1>0 DEF StopCalled, BootInv, LockInv, ThreadsOK, Threads,
     LiveSlots
<1>25. ASSUME NEW t \in Threads, FlushEnds(t) PROVE BootInv'
  BY <1>25, <1>0 DEF FlushEnds, BootInv, LockInv, ThreadsOK, Threads,
     LiveSlots
<1>26. ASSUME NEW t \in Threads, StopDeactivates(t) PROVE BootInv'
  BY <1>26, <1>0 DEF StopDeactivates, BootInv, LockInv, ThreadsOK, Threads,
     LiveSlots
<1>27. ASSUME NEW t \in Threads, StopFindsInactive(t) PROVE BootInv'
  BY <1>27, <1>0 DEF StopFindsInactive, StopReturns, Return, BootInv,
     LockInv, ThreadsOK, Threads, LiveSlots
<1>28. ASSUME NEW t \in Threads, StopCloses(t) PROVE BootInv'
  BY <1>28, <1>0 DEF StopCloses, DirRefreshCurrent, StopReturns, Return,
     BootInv, LockInv, ThreadsOK, Threads, LiveSlots
<1>29. CASE UNCHANGED vars
  BY <1>29 DEF vars, BootInv, LiveSlots
<1> QED
  BY <1>1, <1>2, <1>3, <1>4, <1>5, <1>6, <1>7, <1>8, <1>9, <1>10, <1>11,
     <1>12, <1>13, <1>14, <1>15, <1>16, <1>17, <1>18, <1>19, <1>20, <1>21,
     <1>22, <1>23, <1>24, <1>25, <1>26, <1>27, <1>28, <1>29 DEF Next, Pump,
     Writer, Start, Erase, Reset, Stop

-----------------------------------------------------------------------------
LEMMA CurrentInit == Init => CurrentInv
  BY DEF Init, CurrentInv, Live, Threads

LEMMA CurrentNext ==
  TypeOK /\ LockInv /\ BootInv /\ CurrentInv /\ [Next]_vars => CurrentInv'
<1> SUFFICES ASSUME TypeOK, LockInv, BootInv, CurrentInv, [Next]_vars
             PROVE  CurrentInv'
  OBVIOUS
<1> USE DEF flash, position, current, counts, session, staging, writer,
      callers, history
<1>0. FlashOK /\ LogOK /\ StageOK /\ ThreadsOK
  BY DEF TypeOK
<1>1. CASE PumpEnters
  BY <1>1, <1>0 DEF PumpEnters, CurrentInv, Live, LockInv, BootInv,
     ThreadsOK, Threads
<1>2. CASE PumpStages
  BY <1>2, <1>0 DEF PumpStages, CurrentInv, Live, LockInv, BootInv,
     ThreadsOK, Threads
<1>3. CASE PumpLeaves
  BY <1>3, <1>0 DEF PumpLeaves, CurrentInv, Live, LockInv, BootInv,
     ThreadsOK, Threads
<1>4. CASE WriterSees
  BY <1>4, <1>0 DEF WriterSees, CurrentInv, Live, LockInv, BootInv,
     ThreadsOK, Threads
<1>5. CASE WriterFindsNothing
  BY <1>5, <1>0 DEF WriterFindsNothing, CurrentInv, Live, LockInv, BootInv,
     ThreadsOK, Threads
<1>6. CASE WriterWrites
  BY <1>6, <1>0 DEF WriterWrites, CurrentInv, Live, LockInv, BootInv,
     ThreadsOK, Threads
<1>7. CASE WriterCommits
  <2>1. /\ total_abs' = total_abs + inflight /\ cur_count' = cur_count + inflight
        /\ inflight \in 0 .. BatchRecs /\ wpc' \in {"wait", "refresh"}
        /\ wpc' = "wait" => ~RefreshDue(cur_count + inflight)
    BY <1>7, <1>0 DEF WriterCommits, StageOK
  <2>2. /\ Live' <=> Live
        /\ UNCHANGED <<pc, cur_seq, seq_next, cur_slot, cur_start, dir, last_dir_refresh>>
        /\ pc["cmd"] # "entry"
    BY <1>7, <1>0 DEF WriterCommits, Live, LockInv
  <2>3. ASSUME Live PROVE total_abs' = cur_start' + cur_count'
    BY <2>1, <2>2, <2>3, <1>0 DEF CurrentInv, LogOK
  <2>4. ASSUME Live
        PROVE  /\ last_dir_refresh' <= cur_count'
               /\ cur_count' <= last_dir_refresh' + MaxLag
               /\ wpc' # "refresh" => cur_count' < last_dir_refresh' + DirRefreshRecs
    <3>1. /\ last_dir_refresh <= cur_count
          /\ cur_count < last_dir_refresh + DirRefreshRecs
      BY <1>7, <2>4 DEF WriterCommits, CurrentInv
    <3> QED
      BY <3>1, <2>1, <2>2, <1>0, LogAssumption DEF LogOK, RefreshDue, MaxLag
  <2> QED
    BY <2>2, <2>3, <2>4 DEF CurrentInv
<1>8. CASE WriterRefreshes
  <2>1. /\ Live' <=> Live
        /\ UNCHANGED <<pc, cur_seq, seq_next, cur_slot, cur_start, cur_count, total_abs>>
        /\ pc["cmd"] # "entry"
    BY <1>8, <1>0 DEF WriterRefreshes, Live, LockInv
  <2>2. ASSUME Live
        PROVE  /\ dir' = [dir EXCEPT ![cur_slot].count = cur_count,
                                   ![cur_slot].open = TRUE]
               /\ last_dir_refresh' = cur_count
    BY <1>8, <2>2 DEF WriterRefreshes, DirRefreshCurrent, CurrentInv
  <2>3. ASSUME Live
        PROVE  /\ dir'[cur_slot].valid = dir[cur_slot].valid
               /\ dir'[cur_slot].seq = dir[cur_slot].seq
               /\ dir'[cur_slot].start = dir[cur_slot].start
               /\ dir'[cur_slot].count = cur_count
    BY <2>2, <2>3, <1>0 DEF FlashOK, LogOK, Entries
  <2>4. cur_count <= cur_count + MaxLag /\ cur_count < cur_count + DirRefreshRecs
    BY <1>0, LogAssumption DEF LogOK, MaxLag
  <2>5. cur_count <= cur_count
    BY <1>0 DEF LogOK
  <2> QED
    BY <2>1, <2>2, <2>3, <2>4, <2>5 DEF CurrentInv
<1>9. ASSUME NEW i \in Slots, WriterInvalidates(i) PROVE CurrentInv'
  BY <1>9, <1>0 DEF WriterInvalidates, Consumed, CurrentInv, Live, LockInv,
     BootInv, ThreadsOK, Threads
<1>10. CASE WriterFinishes
  BY <1>10, <1>0 DEF WriterFinishes, CurrentInv, Live, LockInv, BootInv,
     ThreadsOK, Threads
<1>11. CASE StartRefused
  BY <1>11, <1>0 DEF StartRefused, vars, CurrentInv, Live, LockInv, BootInv,
     ThreadsOK, Threads
<1>12. ASSUME NEW o \in {"start", "detached"}, StartOpens(o)
      PROVE  CurrentInv'
  <2>1. /\ cur_seq' = seq_next /\ seq_next' = seq_next + 1
        /\ cur_slot' = SlotOf(cur_seq') /\ cur_start' = total_abs
        /\ total_abs' = total_abs /\ cur_count' = 0 /\ last_dir_refresh' = 0
    BY <1>12 DEF StartOpens
  <2>2. ~Live'
    BY <1>12, <1>0 DEF StartOpens, Live, LockInv, ThreadsOK, Threads
  <2>3. cur_seq' > 0 /\ total_abs' = cur_start' + cur_count'
    BY <2>1, <1>0 DEF LogOK
  <2> QED
    BY <2>1, <2>2, <2>3 DEF CurrentInv
<1>13. CASE StartWritesEntry
  <2>1. /\ dir' = [dir EXCEPT ![cur_slot] = NewEntry]
        /\ UNCHANGED <<cur_seq, seq_next, cur_slot, cur_start, total_abs, cur_count, last_dir_refresh, wpc>>
        /\ pc'["cmd"] # "entry" /\ pc["cmd"] = "entry"
    BY <1>13, <1>0 DEF StartWritesEntry, Return, ThreadsOK, Threads
  <2>2. dir'[cur_slot] = NewEntry
    BY <2>1, <1>0 DEF FlashOK, LogOK
  <2>3. cur_count = 0 /\ last_dir_refresh = 0
    BY <2>1 DEF CurrentInv
  <2>4. 0 <= 0 /\ 0 <= 0 + MaxLag /\ 0 < 0 + DirRefreshRecs
    BY LogAssumption DEF MaxLag
  <2> QED
    BY <2>1, <2>2, <2>3, <2>4 DEF CurrentInv, NewEntry
<1>14. CASE StartFails
  BY <1>14, <1>0 DEF StartFails, Return, CurrentInv, Live, LockInv, BootInv,
     ThreadsOK, Threads
<1>15. CASE MarkDetached
  BY <1>15, <1>0 DEF MarkDetached, Return, CurrentInv, Live, LockInv,
     BootInv, ThreadsOK, Threads
<1>16. CASE EraseCalled
  BY <1>16, <1>0 DEF EraseCalled, CurrentInv, Live, LockInv, BootInv,
     ThreadsOK, Threads
<1>17. CASE EraseWipes
  BY <1>17, <1>0 DEF EraseWipes, DirWipe, CurrentInv, Live, LockInv,
     BootInv, ThreadsOK, Threads
<1>18. CASE EraseStamps
  BY <1>18, <1>0 DEF EraseStamps, DirStamp, Return, CurrentInv, Live,
     LockInv, BootInv, ThreadsOK, Threads
<1>19. CASE Crash
  BY <1>19, <1>0 DEF Crash, CurrentInv, Live, LockInv, BootInv, ThreadsOK,
     Threads
<1>20. CASE FirmwareUpdated
  BY <1>20, <1>0 DEF FirmwareUpdated, CurrentInv, Live, LockInv, BootInv,
     ThreadsOK, Threads
<1>21. CASE BootWipes
  BY <1>21, <1>0 DEF BootWipes, DirWipe, CurrentInv, Live, LockInv, BootInv,
     ThreadsOK, Threads
<1>22. CASE BootStamps
  BY <1>22, <1>0 DEF BootStamps, DirStamp, CurrentInv, Live, LockInv,
     BootInv, ThreadsOK, Threads
<1>23. CASE BootRecovers
  BY <1>23, <1>0 DEF BootRecovers, CurrentInv, Live, LockInv, BootInv,
     ThreadsOK, Threads
<1>24. ASSUME NEW t \in Threads, StopCalled(t) PROVE CurrentInv'
  BY <1>24, <1>0 DEF StopCalled, CurrentInv, Live, LockInv, BootInv,
     ThreadsOK, Threads
<1>25. ASSUME NEW t \in Threads, FlushEnds(t) PROVE CurrentInv'
  BY <1>25, <1>0 DEF FlushEnds, CurrentInv, Live, LockInv, BootInv,
     ThreadsOK, Threads
<1>26. ASSUME NEW t \in Threads, StopDeactivates(t) PROVE CurrentInv'
  BY <1>26, <1>0 DEF StopDeactivates, CurrentInv, Live, LockInv, BootInv,
     ThreadsOK, Threads
<1>27. ASSUME NEW t \in Threads, StopFindsInactive(t) PROVE CurrentInv'
  BY <1>27, <1>0 DEF StopFindsInactive, StopReturns, Return, CurrentInv,
     Live, LockInv, BootInv, ThreadsOK, Threads
<1>28. ASSUME NEW t \in Threads, StopCloses(t) PROVE CurrentInv'
  BY <1>28, <1>0 DEF StopCloses, StopReturns, Return, CurrentInv, Live,
     LockInv, BootInv, ThreadsOK, Threads
<1>29. CASE UNCHANGED vars
  BY <1>29 DEF vars, CurrentInv, Live
<1> QED
  BY <1>1, <1>2, <1>3, <1>4, <1>5, <1>6, <1>7, <1>8, <1>9, <1>10, <1>11,
     <1>12, <1>13, <1>14, <1>15, <1>16, <1>17, <1>18, <1>19, <1>20, <1>21,
     <1>22, <1>23, <1>24, <1>25, <1>26, <1>27, <1>28, <1>29 DEF Next, Pump,
     Writer, Start, Erase, Reset, Stop

-----------------------------------------------------------------------------
(* dir_refresh_current on the running session's entry: only its count and  *)
(* its open flag change, and it then ends at the write position.           *)
LEMMA RefreshedDir ==
  ASSUME TypeOK, CurrentInv, Live, NEW closing \in BOOLEAN,
         DirRefreshCurrent(closing)
  PROVE  /\ last_dir_refresh' = cur_count
         /\ LiveSlots' = LiveSlots
         /\ \A i \in Slots : /\ dir'[i].seq = dir[i].seq
                             /\ dir'[i].start = dir[i].start
                             /\ i # cur_slot => dir'[i] = dir[i]
         /\ dir'[cur_slot].count = cur_count
         /\ dir'[cur_slot].open = ~closing
         /\ EndOf(dir'[cur_slot]) = total_abs
<1>0. FlashOK /\ LogOK
  BY DEF TypeOK
<1>1. /\ dir' = [dir EXCEPT ![cur_slot].count = cur_count,
                            ![cur_slot].open = ~closing]
      /\ last_dir_refresh' = cur_count
  BY DEF DirRefreshCurrent, CurrentInv
<1>2. \A i \in Slots : /\ dir'[i].valid = dir[i].valid
                       /\ dir'[i].seq = dir[i].seq
                       /\ dir'[i].start = dir[i].start
                       /\ i # cur_slot => dir'[i] = dir[i]
  BY <1>0, <1>1 DEF FlashOK, LogOK, Entries
<1>3. dir'[cur_slot].count = cur_count /\ dir'[cur_slot].open = ~closing
  BY <1>0, <1>1 DEF FlashOK, LogOK, Entries
<1>4. EndOf(dir'[cur_slot]) = total_abs
  BY <1>0, <1>2, <1>3 DEF LogOK, EndOf, CurrentInv
<1> QED
  BY <1>1, <1>2, <1>3, <1>4 DEF LiveSlots

(* With a session running, all other sessions are older and end before it. *)
LEMMA OthersOlder ==
  ASSUME TypeOK, BootInv, DirInv, CurrentInv, Live, meta = "ours",
         NEW i \in LiveSlots, i # cur_slot
  PROVE  /\ dir[i].seq < cur_seq /\ EndOf(dir[i]) <= cur_start
         /\ dir[i].seq \in Nat /\ EndOf(dir[i]) \in Nat
<1>0. FlashOK /\ LogOK
  BY DEF TypeOK
<1>1. boot = "up" /\ cur_slot \in LiveSlots
  BY <1>0 DEF BootInv, Live, LogOK, CurrentInv, LiveSlots, Threads
<1>2. /\ dir[i].seq \in Nat /\ EndOf(dir[i]) \in Nat
      /\ dir[cur_slot].start = cur_start /\ dir[cur_slot].seq = cur_seq
  BY <1>0 DEF FlashOK, Entries, LiveSlots, EndOf, CurrentInv
<1>3. dir[i].seq < seq_next /\ SlotOf(dir[i].seq) = i
  BY <1>1 DEF DirInv
<1>4. seq_next = cur_seq + 1 /\ cur_slot = SlotOf(cur_seq)
  BY DEF CurrentInv
<1>5. dir[i].seq # cur_seq
  BY <1>3, <1>4
<1>6. dir[i].seq < cur_seq
  BY <1>0, <1>2, <1>3, <1>4, <1>5 DEF LogOK
<1>7. EndOf(dir[i]) <= cur_start
  BY <1>1, <1>2, <1>6 DEF DirInv, SessionsDisjoint
<1> QED
  BY <1>2, <1>6, <1>7

LEMMA DirInit == Init => DirInv
  BY DEF Init, DirInv

(* A refresh, by the writer or by a stop, keeps the directory in order.    *)
LEMMA RefreshKeepsDir ==
  ASSUME TypeOK, BootInv, DirInv, CurrentInv, Live, meta = "ours",
         NEW closing \in BOOLEAN, DirRefreshCurrent(closing),
         UNCHANGED <<meta, boot, total_abs, seq_next, cur_seq>>,
         pc'["cmd"] # "entry"
  PROVE  DirInv'
<1>0. FlashOK /\ LogOK /\ cur_slot \in LiveSlots
  BY DEF TypeOK, FlashOK, LogOK, CurrentInv, LiveSlots
<1>1. /\ LiveSlots' = LiveSlots
      /\ \A i \in LiveSlots : /\ dir'[i].seq = dir[i].seq
                              /\ dir'[i].start = dir[i].start
                              /\ i # cur_slot => EndOf(dir'[i]) = EndOf(dir[i])
      /\ EndOf(dir'[cur_slot]) = total_abs
  BY RefreshedDir DEF LiveSlots
<1>2. \A i \in LiveSlots : dir[i].seq > 0 /\ SlotOf(dir[i].seq) = i
  BY DEF DirInv
<1>3. boot = "up" => \A i \in LiveSlots : dir[i].seq < seq_next /\ EndOf(dir[i]) <= total_abs
  BY DEF DirInv
<1>4. total_abs <= total_abs
  BY <1>0 DEF LogOK
<1>5. \A i, j \in LiveSlots :
         dir'[i].seq < dir'[j].seq => EndOf(dir'[i]) <= dir'[j].start
  <2> SUFFICES ASSUME NEW i \in LiveSlots, NEW j \in LiveSlots,
                      dir[i].seq < dir[j].seq
               PROVE  EndOf(dir'[i]) <= dir[j].start
    BY <1>1
  <2>1. i # cur_slot
    <3> SUFFICES ASSUME i = cur_slot PROVE FALSE
      OBVIOUS
    <3>1. j # cur_slot /\ dir[i].seq = cur_seq
      BY <1>0 DEF CurrentInv, FlashOK, LogOK, Entries, LiveSlots
    <3> QED
      BY <3>1, OthersOlder, <1>0 DEF LogOK
  <2>2. EndOf(dir[i]) <= dir[j].start
    BY DEF DirInv, SessionsDisjoint
  <2> QED
    BY <2>1, <2>2, <1>1
<1> QED
  BY <1>1, <1>2, <1>3, <1>4, <1>5 DEF DirInv, SessionsDisjoint

LEMMA DirNext ==
  TypeOK /\ LockInv /\ BootInv /\ DirInv /\ CurrentInv /\ ClosedInv /\ [Next]_vars
    => DirInv'
<1> SUFFICES ASSUME TypeOK, LockInv, BootInv, DirInv, CurrentInv, ClosedInv,
                    [Next]_vars
             PROVE  DirInv'
  OBVIOUS
<1> USE DEF flash, position, current, counts, session, staging, writer,
      callers, history
<1>0. FlashOK /\ LogOK /\ StageOK /\ ThreadsOK
  BY DEF TypeOK
<1>1. CASE PumpEnters
  BY <1>1, <1>0 DEF PumpEnters, DirInv, SessionsDisjoint, LiveSlots, EndOf,
     ThreadsOK, Threads
<1>2. CASE PumpStages
  BY <1>2, <1>0 DEF PumpStages, DirInv, SessionsDisjoint, LiveSlots, EndOf,
     ThreadsOK, Threads
<1>3. CASE PumpLeaves
  BY <1>3, <1>0 DEF PumpLeaves, DirInv, SessionsDisjoint, LiveSlots, EndOf,
     ThreadsOK, Threads
<1>4. CASE WriterSees
  BY <1>4, <1>0 DEF WriterSees, DirInv, SessionsDisjoint, LiveSlots, EndOf,
     ThreadsOK, Threads
<1>5. CASE WriterFindsNothing
  BY <1>5, <1>0 DEF WriterFindsNothing, DirInv, SessionsDisjoint, LiveSlots,
     EndOf, ThreadsOK, Threads
<1>6. CASE WriterWrites
  BY <1>6, <1>0 DEF WriterWrites, DirInv, SessionsDisjoint, LiveSlots,
     EndOf, ThreadsOK, Threads
<1>7. CASE WriterCommits
  <2>1. UNCHANGED <<dir, meta, boot, seq_next, cur_seq, pc>>
    BY <1>7 DEF WriterCommits
  <2>2. total_abs <= total_abs' /\ total_abs' \in Nat
    BY <1>7, <1>0 DEF WriterCommits, LogOK, StageOK
  <2>3. \A i \in LiveSlots : EndOf(dir[i]) \in Nat
    BY <1>0 DEF FlashOK, Entries, LiveSlots, EndOf
  <2>4. \A i \in LiveSlots : EndOf(dir[i]) <= total_abs => EndOf(dir[i]) <= total_abs'
    BY <2>2, <2>3, <1>0 DEF LogOK
  <2> QED
    BY <2>1, <2>4 DEF DirInv, SessionsDisjoint, LiveSlots
<1>8. CASE WriterRefreshes
  <2>1. /\ UNCHANGED <<meta, boot, total_abs, seq_next, cur_seq, pc>>
        /\ DirRefreshCurrent(FALSE)
        /\ pc["cmd"] # "entry" /\ wpc = "refresh"
    BY <1>8, <1>0 DEF WriterRefreshes, LockInv
  <2>2. CASE Live /\ meta = "ours"
    BY <2>1, <2>2, RefreshKeepsDir
  <2>3. CASE meta # "ours"
    BY <2>1, <2>3 DEF DirInv
  <2>4. CASE ~Live
    <3>1. boot = "up"
      BY <1>8, <1>0 DEF WriterRefreshes, BootInv, LogOK
    <3>2. LiveSlots = {}
      BY <2>1, <2>4, <3>1 DEF ClosedInv
    <3>3. UNCHANGED dir
      BY <2>1, <3>2, <1>0 DEF DirRefreshCurrent, LiveSlots, LogOK
    <3> QED
      BY <2>1, <3>3 DEF DirInv, SessionsDisjoint, LiveSlots
  <2> QED
    BY <2>2, <2>3, <2>4
<1>9. ASSUME NEW i \in Slots, WriterInvalidates(i) PROVE DirInv'
  <2>1. /\ UNCHANGED <<meta, boot, total_abs, seq_next, cur_seq, pc>>
        /\ dir' = [dir EXCEPT ![i] = NoEntry]
    BY <1>9 DEF WriterInvalidates
  <2>2. /\ LiveSlots' \subseteq LiveSlots
        /\ \A j \in LiveSlots' : dir'[j] = dir[j]
    BY <2>1, <1>0 DEF FlashOK, LiveSlots, NoEntry
  <2> QED
    BY <2>1, <2>2 DEF DirInv, SessionsDisjoint
<1>10. CASE WriterFinishes
  BY <1>10, <1>0 DEF WriterFinishes, DirInv, SessionsDisjoint, LiveSlots,
     EndOf, ThreadsOK, Threads
<1>11. CASE StartRefused
  BY <1>11, <1>0 DEF StartRefused, vars, DirInv, SessionsDisjoint,
     LiveSlots, EndOf, ThreadsOK, Threads
<1>12. ASSUME NEW o \in {"start", "detached"}, StartOpens(o)
      PROVE  DirInv'
  <2>1. /\ UNCHANGED <<dir, meta, boot, total_abs>>
        /\ cur_seq' = seq_next /\ seq_next' = seq_next + 1 /\ boot = "up"
    BY <1>12 DEF StartOpens
  <2>2. \A i \in LiveSlots : dir[i].seq \in Nat
    BY <1>0 DEF FlashOK, Entries, LiveSlots
  <2>3. \A i \in LiveSlots : dir[i].seq < seq_next => dir[i].seq < seq_next'
    BY <2>1, <2>2, <1>0 DEF LogOK
  <2> QED
    BY <2>1, <2>3 DEF DirInv, SessionsDisjoint, LiveSlots
<1>13. CASE StartWritesEntry
  <2>1. /\ UNCHANGED <<meta, boot, total_abs, seq_next, cur_seq>>
        /\ dir' = [dir EXCEPT ![cur_slot] = NewEntry]
        /\ pc["cmd"] = "entry" /\ pc'["cmd"] # "entry" /\ boot = "up"
    BY <1>13, <1>0 DEF StartWritesEntry, Return, ThreadsOK, Threads, BootInv, LogOK
  <2>2. /\ cur_seq > 0 /\ seq_next = cur_seq + 1 /\ cur_slot = SlotOf(cur_seq)
        /\ total_abs = cur_start
    BY <2>1, <1>0 DEF CurrentInv, LogOK
  <2>3. /\ dir'[cur_slot] = NewEntry /\ EndOf(NewEntry) = cur_start
        /\ \A i \in LiveSlots' : i # cur_slot => i \in LiveSlots /\ dir'[i] = dir[i]
    BY <2>1, <1>0 DEF FlashOK, LogOK, LiveSlots, NewEntry, EndOf
  <2> SUFFICES ASSUME meta = "ours" PROVE DirInv'
    BY <2>1 DEF DirInv
  <2>4. \A i \in LiveSlots : /\ dir[i].seq < cur_seq /\ dir[i].seq > 0
                             /\ EndOf(dir[i]) <= cur_start
                             /\ SlotOf(dir[i].seq) = i /\ dir[i].seq < seq_next
    BY <2>1, <2>2 DEF DirInv
  <2>5. cur_seq < seq_next /\ cur_start <= cur_start
    BY <2>2, <1>0 DEF LogOK
  <2>6. \A i \in LiveSlots : ~(cur_seq < dir[i].seq)
    BY <2>4, <1>0 DEF FlashOK, LogOK, Entries, LiveSlots
  <2>7. ~(cur_seq < cur_seq)
    BY <1>0 DEF LogOK
  <2>8. \A i \in LiveSlots' :
           /\ dir'[i].seq > 0 /\ SlotOf(dir'[i].seq) = i
           /\ dir'[i].seq < seq_next /\ EndOf(dir'[i]) <= total_abs
    BY <2>2, <2>3, <2>4, <2>5 DEF NewEntry
  <2>9. \A i, j \in LiveSlots' :
           dir'[i].seq < dir'[j].seq => EndOf(dir'[i]) <= dir'[j].start
    <3> SUFFICES ASSUME NEW i \in LiveSlots', NEW j \in LiveSlots',
                        dir'[i].seq < dir'[j].seq
                 PROVE  EndOf(dir'[i]) <= dir'[j].start
      OBVIOUS
    <3>1. CASE i = cur_slot
      BY <3>1, <2>3, <2>6, <2>7 DEF NewEntry
    <3>2. CASE i # cur_slot /\ j = cur_slot
      BY <3>2, <2>3, <2>4 DEF NewEntry
    <3>3. CASE i # cur_slot /\ j # cur_slot
      BY <3>3, <2>3 DEF DirInv, SessionsDisjoint
    <3> QED
      BY <3>1, <3>2, <3>3
  <2> QED
    BY <2>1, <2>8, <2>9 DEF DirInv, SessionsDisjoint
<1>14. CASE StartFails
  BY <1>14, <1>0 DEF StartFails, Return, DirInv, SessionsDisjoint,
     LiveSlots, EndOf, ThreadsOK, Threads
<1>15. CASE MarkDetached
  BY <1>15, <1>0 DEF MarkDetached, Return, DirInv, SessionsDisjoint,
     LiveSlots, EndOf, ThreadsOK, Threads
<1>16. CASE EraseCalled
  BY <1>16, <1>0 DEF EraseCalled, DirInv, SessionsDisjoint, LiveSlots,
     EndOf, ThreadsOK, Threads
<1>17. CASE EraseWipes
  BY <1>17, <1>0 DEF EraseWipes, DirWipe, DirInv, SessionsDisjoint,
     LiveSlots, EndOf, ThreadsOK, Threads
<1>18. CASE EraseStamps
  BY <1>18, <1>0 DEF EraseStamps, DirStamp, Return, DirInv,
     SessionsDisjoint, LiveSlots, EndOf, ThreadsOK, Threads, BootInv
<1>19. CASE Crash
  BY <1>19, <1>0 DEF Crash, DirInv, SessionsDisjoint, LiveSlots, EndOf,
     ThreadsOK, Threads
<1>20. CASE FirmwareUpdated
  BY <1>20, <1>0 DEF FirmwareUpdated, DirInv, SessionsDisjoint, LiveSlots,
     EndOf, ThreadsOK, Threads
<1>21. CASE BootWipes
  BY <1>21, <1>0 DEF BootWipes, DirWipe, DirInv, SessionsDisjoint,
     LiveSlots, EndOf, ThreadsOK, Threads
<1>22. CASE BootStamps
  BY <1>22, <1>0 DEF BootStamps, DirStamp, DirInv, SessionsDisjoint,
     LiveSlots, EndOf, ThreadsOK, Threads, BootInv
<1>23. CASE BootRecovers
  <2>1. /\ boot' = "up" /\ meta' = meta /\ meta = "ours"
        /\ dir' = [i \in Slots |-> [dir[i] EXCEPT !.open = FALSE]]
        /\ \A y \in {EndOf(dir[i]) : i \in LiveSlots} : y <= total_abs'
        /\ \E x \in {dir[i].seq + 1 : i \in LiveSlots} \union {1} :
              /\ \A y \in {dir[i].seq + 1 : i \in LiveSlots} : y <= x
              /\ seq_next' = x
    BY <1>23 DEF BootRecovers, IsMax
  <2>2. /\ LiveSlots' = LiveSlots
        /\ \A i \in LiveSlots : /\ dir'[i].seq = dir[i].seq
                                /\ dir'[i].start = dir[i].start
                                /\ EndOf(dir'[i]) = EndOf(dir[i])
    BY <2>1, <1>0 DEF FlashOK, Entries, LiveSlots, EndOf
  <2>3. \A i \in LiveSlots : EndOf(dir[i]) <= total_abs'
    BY <2>1
  <2>4. \A i \in LiveSlots : dir[i].seq \in Nat
    BY <1>0 DEF FlashOK, Entries, LiveSlots
  <2>5. \A i \in LiveSlots : dir[i].seq + 1 <= seq_next' /\ seq_next' \in Nat
    BY <2>1, <2>4
  <2>6. \A i \in LiveSlots : dir[i].seq < seq_next'
    BY <2>4, <2>5
  <2>7. pc'["cmd"] # "entry"
    BY <1>23, <1>0 DEF BootRecovers, BootInv, Threads
  <2> QED
    BY <2>1, <2>2, <2>3, <2>6, <2>7 DEF DirInv, SessionsDisjoint
<1>24. ASSUME NEW t \in Threads, StopCalled(t) PROVE DirInv'
  BY <1>24, <1>0 DEF StopCalled, DirInv, SessionsDisjoint, LiveSlots, EndOf,
     ThreadsOK, Threads
<1>25. ASSUME NEW t \in Threads, FlushEnds(t) PROVE DirInv'
  BY <1>25, <1>0 DEF FlushEnds, DirInv, SessionsDisjoint, LiveSlots, EndOf,
     ThreadsOK, Threads
<1>26. ASSUME NEW t \in Threads, StopDeactivates(t) PROVE DirInv'
  BY <1>26, <1>0 DEF StopDeactivates, DirInv, SessionsDisjoint, LiveSlots,
     EndOf, ThreadsOK, Threads
<1>27. ASSUME NEW t \in Threads, StopFindsInactive(t) PROVE DirInv'
  BY <1>27, <1>0 DEF StopFindsInactive, StopReturns, Return, DirInv,
     SessionsDisjoint, LiveSlots, EndOf, ThreadsOK, Threads
<1>28. ASSUME NEW t \in Threads, StopCloses(t) PROVE DirInv'
  <2>1. /\ UNCHANGED <<meta, boot, total_abs, seq_next, cur_seq>>
        /\ DirRefreshCurrent(TRUE) /\ Live
        /\ pc'["cmd"] # "entry"
    BY <1>28, <1>0 DEF StopCloses, StopReturns, Return, Live, LockInv, ThreadsOK,
       Threads
  <2>2. CASE meta = "ours"
    BY <2>1, <2>2, RefreshKeepsDir
  <2>3. CASE meta # "ours"
    BY <2>1, <2>3 DEF DirInv
  <2> QED
    BY <2>2, <2>3
<1>29. CASE UNCHANGED vars
  BY <1>29 DEF vars, DirInv, SessionsDisjoint, LiveSlots, EndOf
<1> QED
  BY <1>1, <1>2, <1>3, <1>4, <1>5, <1>6, <1>7, <1>8, <1>9, <1>10, <1>11,
     <1>12, <1>13, <1>14, <1>15, <1>16, <1>17, <1>18, <1>19, <1>20, <1>21,
     <1>22, <1>23, <1>24, <1>25, <1>26, <1>27, <1>28, <1>29 DEF Next, Pump,
     Writer, Start, Erase, Reset, Stop

-----------------------------------------------------------------------------
LEMMA ClosedInit == Init => ClosedInv
  BY DEF Init, ClosedInv

LEMMA ClosedNext ==
  TypeOK /\ LockInv /\ BootInv /\ CurrentInv /\ ClosedInv /\ [Next]_vars
    => ClosedInv'
<1> SUFFICES ASSUME TypeOK, LockInv, BootInv, CurrentInv, ClosedInv,
                    [Next]_vars
             PROVE  ClosedInv'
  OBVIOUS
<1> USE DEF flash, position, current, counts, session, staging, writer,
      callers, history
<1>0. FlashOK /\ LogOK /\ StageOK /\ ThreadsOK
  BY DEF TypeOK
<1>1. CASE PumpEnters
  BY <1>1, <1>0 DEF PumpEnters, ClosedInv, Live, LiveSlots, ThreadsOK,
     Threads
<1>2. CASE PumpStages
  BY <1>2, <1>0 DEF PumpStages, ClosedInv, Live, LiveSlots, ThreadsOK,
     Threads
<1>3. CASE PumpLeaves
  BY <1>3, <1>0 DEF PumpLeaves, ClosedInv, Live, LiveSlots, ThreadsOK,
     Threads
<1>4. CASE WriterSees
  BY <1>4, <1>0 DEF WriterSees, ClosedInv, Live, LiveSlots, ThreadsOK,
     Threads
<1>5. CASE WriterFindsNothing
  BY <1>5, <1>0 DEF WriterFindsNothing, ClosedInv, Live, LiveSlots,
     ThreadsOK, Threads
<1>6. CASE WriterWrites
  <2>1. /\ UNCHANGED <<boot, dir, active, pc, cur_count, last_dir_refresh>>
        /\ wpc = "lock" /\ wpc' = "commit" /\ inflight' = BatchLen
    BY <1>6 DEF WriterWrites
  <2>2. cur_count = last_dir_refresh
           => cur_count + BatchLen <= last_dir_refresh + BatchRecs
    <3>1. BatchLen \in Nat /\ BatchLen <= BatchRecs
      BY BatchLenBounds, LogAssumption
    <3> QED
      BY <3>1, <1>0, LogAssumption DEF LogOK
  <2> QED
    BY <2>1, <2>2 DEF ClosedInv, Live, LiveSlots
<1>7. CASE WriterCommits
  <2>1. /\ UNCHANGED <<boot, dir, active, pc, last_dir_refresh>>
        /\ cur_count' = cur_count + inflight /\ inflight' = 0
        /\ ~RefreshDue(cur_count + inflight) => wpc' = "wait"
    BY <1>7 DEF WriterCommits
  <2>2. ASSUME last_dir_refresh <= cur_count,
               cur_count + inflight <= last_dir_refresh + BatchRecs
        PROVE  /\ ~RefreshDue(cur_count + inflight)
               /\ last_dir_refresh <= cur_count'
               /\ cur_count' + inflight' <= last_dir_refresh + BatchRecs
    BY <2>1, <2>2, <1>0, LogAssumption DEF LogOK, StageOK, RefreshDue
  <2> QED
    BY <2>1, <2>2 DEF ClosedInv, Live, LiveSlots
<1>8. CASE WriterRefreshes
  BY <1>8, <1>0 DEF WriterRefreshes, DirRefreshCurrent, ClosedInv, Live,
     LiveSlots, ThreadsOK, Threads, BootInv, LogOK
<1>9. ASSUME NEW i \in Slots, WriterInvalidates(i) PROVE ClosedInv'
  BY <1>9, <1>0 DEF WriterInvalidates, Consumed, ClosedInv, Live, LiveSlots,
     ThreadsOK, Threads, BootInv, LogOK
<1>10. CASE WriterFinishes
  BY <1>10, <1>0 DEF WriterFinishes, ClosedInv, Live, LiveSlots, ThreadsOK,
     Threads
<1>11. CASE StartRefused
  BY <1>11, <1>0 DEF StartRefused, vars, ClosedInv, Live, LiveSlots,
     ThreadsOK, Threads
<1>12. ASSUME NEW o \in {"start", "detached"}, StartOpens(o)
      PROVE  ClosedInv'
  <2>1. /\ cur_count' = 0 /\ last_dir_refresh' = 0
        /\ UNCHANGED <<wpc, inflight>> /\ lock = "free"
    BY <1>12 DEF StartOpens
  <2>2. inflight = 0 /\ wpc \in {"wait", "lock"}
    BY <2>1, <1>0 DEF LockInv, StageOK, ThreadsOK
  <2>3. 0 <= 0 /\ 0 + 0 <= 0 + BatchRecs
    BY LogAssumption
  <2> QED
    BY <2>1, <2>2, <2>3 DEF ClosedInv
<1>13. CASE StartWritesEntry
  BY <1>13, <1>0 DEF StartWritesEntry, Return, ClosedInv, Live, LiveSlots,
     ThreadsOK, Threads
<1>14. CASE StartFails
  BY <1>14, <1>0 DEF StartFails, Return, ClosedInv, Live, LiveSlots,
     ThreadsOK, Threads
<1>15. CASE MarkDetached
  BY <1>15, <1>0 DEF MarkDetached, Return, ClosedInv, Live, LiveSlots,
     ThreadsOK, Threads
<1>16. CASE EraseCalled
  BY <1>16, <1>0 DEF EraseCalled, ClosedInv, Live, LiveSlots, ThreadsOK,
     Threads
<1>17. CASE EraseWipes
  <2>1. LiveSlots' = {}
    BY <1>17 DEF EraseWipes, DirWipe, LiveSlots, NoEntry
  <2> QED
    BY <2>1 DEF ClosedInv
<1>18. CASE EraseStamps
  BY <1>18, <1>0 DEF EraseStamps, DirStamp, Return, ClosedInv, Live,
     LiveSlots, ThreadsOK, Threads, BootInv
<1>19. CASE Crash
  BY <1>19, <1>0 DEF Crash, ClosedInv, Live, LiveSlots, ThreadsOK, Threads
<1>20. CASE FirmwareUpdated
  BY <1>20, <1>0 DEF FirmwareUpdated, ClosedInv, Live, LiveSlots, ThreadsOK,
     Threads
<1>21. CASE BootWipes
  BY <1>21, <1>0 DEF BootWipes, DirWipe, ClosedInv, Live, LiveSlots,
     ThreadsOK, Threads
<1>22. CASE BootStamps
  BY <1>22, <1>0 DEF BootStamps, DirStamp, ClosedInv, Live, LiveSlots,
     ThreadsOK, Threads, BootInv
<1>23. CASE BootRecovers
  <2>1. UNCHANGED <<wpc, inflight, cur_count, last_dir_refresh>> /\ boot # "up"
    BY <1>23 DEF BootRecovers
  <2>2. wpc = "wait" /\ inflight = 0 /\ cur_count = 0 /\ last_dir_refresh = 0
    BY <2>1 DEF BootInv
  <2>3. 0 <= 0 /\ 0 + 0 <= 0 + BatchRecs
    BY LogAssumption
  <2> QED
    BY <2>1, <2>2, <2>3 DEF ClosedInv
<1>24. ASSUME NEW t \in Threads, StopCalled(t) PROVE ClosedInv'
  BY <1>24, <1>0 DEF StopCalled, ClosedInv, Live, LiveSlots, ThreadsOK,
     Threads
<1>25. ASSUME NEW t \in Threads, FlushEnds(t) PROVE ClosedInv'
  BY <1>25, <1>0 DEF FlushEnds, ClosedInv, Live, LiveSlots, ThreadsOK,
     Threads
<1>26. ASSUME NEW t \in Threads, StopDeactivates(t) PROVE ClosedInv'
  BY <1>26, <1>0 DEF StopDeactivates, ClosedInv, Live, LiveSlots, ThreadsOK,
     Threads
<1>27. ASSUME NEW t \in Threads, StopFindsInactive(t) PROVE ClosedInv'
  BY <1>27, <1>0 DEF StopFindsInactive, StopReturns, Return, ClosedInv,
     Live, LiveSlots, ThreadsOK, Threads
<1>28. ASSUME NEW t \in Threads, StopCloses(t) PROVE ClosedInv'
  <2>1. /\ last_dir_refresh' = cur_count /\ cur_count' = cur_count
        /\ UNCHANGED <<wpc, inflight>> /\ lock = t
    <3>1. DirRefreshCurrent(TRUE) /\ Live
      BY <1>28 DEF StopCloses, Live
    <3> QED
      BY <1>28, <3>1, RefreshedDir, <1>0 DEF StopCloses, LockInv, Threads
  <2>2. inflight = 0 /\ wpc \in {"wait", "lock"}
    BY <2>1, <1>0 DEF LockInv, StageOK, ThreadsOK, Threads
  <2>3. cur_count <= cur_count /\ cur_count + 0 <= cur_count + BatchRecs
    BY <1>0, LogAssumption DEF LogOK
  <2> QED
    BY <2>1, <2>2, <2>3 DEF ClosedInv
<1>29. CASE UNCHANGED vars
  BY <1>29 DEF vars, ClosedInv, Live, LiveSlots
<1> QED
  BY <1>1, <1>2, <1>3, <1>4, <1>5, <1>6, <1>7, <1>8, <1>9, <1>10, <1>11,
     <1>12, <1>13, <1>14, <1>15, <1>16, <1>17, <1>18, <1>19, <1>20, <1>21,
     <1>22, <1>23, <1>24, <1>25, <1>26, <1>27, <1>28, <1>29 DEF Next, Pump,
     Writer, Start, Erase, Reset, Stop

-----------------------------------------------------------------------------
LEMMA OpenInit == Init => OpenInv
  BY DEF Init, OpenInv, OnlyRunningOpen

LEMMA OpenNext ==
  TypeOK /\ LockInv /\ BootInv /\ CurrentInv /\ ClosedInv /\ OpenInv /\ [Next]_vars
    => OpenInv'
<1> SUFFICES ASSUME TypeOK, LockInv, BootInv, CurrentInv, ClosedInv, OpenInv,
                    [Next]_vars
             PROVE  OpenInv'
  OBVIOUS
<1> USE DEF flash, position, current, counts, session, staging, writer,
      callers, history
<1>0. FlashOK /\ LogOK /\ StageOK /\ ThreadsOK
  BY DEF TypeOK
<1>1. CASE PumpEnters
  BY <1>1, <1>0 DEF PumpEnters, OpenInv, OnlyRunningOpen, LiveSlots,
     ThreadsOK, Threads
<1>2. CASE PumpStages
  BY <1>2, <1>0 DEF PumpStages, OpenInv, OnlyRunningOpen, LiveSlots,
     ThreadsOK, Threads
<1>3. CASE PumpLeaves
  BY <1>3, <1>0 DEF PumpLeaves, OpenInv, OnlyRunningOpen, LiveSlots,
     ThreadsOK, Threads
<1>4. CASE WriterSees
  BY <1>4, <1>0 DEF WriterSees, OpenInv, OnlyRunningOpen, LiveSlots,
     ThreadsOK, Threads
<1>5. CASE WriterFindsNothing
  BY <1>5, <1>0 DEF WriterFindsNothing, OpenInv, OnlyRunningOpen, LiveSlots,
     ThreadsOK, Threads
<1>6. CASE WriterWrites
  BY <1>6, <1>0 DEF WriterWrites, OpenInv, OnlyRunningOpen, LiveSlots,
     ThreadsOK, Threads
<1>7. CASE WriterCommits
  BY <1>7, <1>0 DEF WriterCommits, OpenInv, OnlyRunningOpen, LiveSlots,
     ThreadsOK, Threads
<1>8. CASE WriterRefreshes
  <2>1. /\ UNCHANGED <<boot, active, pc, cur_slot, cur_seq>>
        /\ DirRefreshCurrent(FALSE) /\ wpc = "refresh"
    BY <1>8 DEF WriterRefreshes
  <2>2. CASE Live
    <3>1. /\ LiveSlots' = LiveSlots
          /\ \A i \in LiveSlots : /\ dir'[i].seq = dir[i].seq
                                  /\ i # cur_slot => dir'[i] = dir[i]
      BY <2>1, <2>2, RefreshedDir DEF LiveSlots
    <3> QED
      BY <2>1, <2>2, <3>1 DEF OpenInv, OnlyRunningOpen, Live, CurrentInv
  <2>3. CASE ~Live
    <3>1. LiveSlots = {} /\ UNCHANGED dir
      BY <2>1, <2>3, <1>0
         DEF ClosedInv, BootInv, DirRefreshCurrent, LiveSlots, LogOK
    <3> QED
      BY <3>1 DEF OpenInv, OnlyRunningOpen, LiveSlots
  <2> QED
    BY <2>2, <2>3
<1>9. ASSUME NEW i \in Slots, WriterInvalidates(i) PROVE OpenInv'
  <2>1. /\ UNCHANGED <<boot, active, pc, cur_slot, cur_seq>>
        /\ dir' = [dir EXCEPT ![i] = NoEntry]
    BY <1>9 DEF WriterInvalidates
  <2>2. /\ LiveSlots' \subseteq LiveSlots
        /\ \A j \in LiveSlots' : dir'[j] = dir[j]
    BY <2>1, <1>0 DEF FlashOK, LiveSlots, NoEntry
  <2> QED
    BY <2>1, <2>2 DEF OpenInv, OnlyRunningOpen
<1>10. CASE WriterFinishes
  BY <1>10, <1>0 DEF WriterFinishes, OpenInv, OnlyRunningOpen, LiveSlots,
     ThreadsOK, Threads
<1>11. CASE StartRefused
  BY <1>11, <1>0 DEF StartRefused, vars, OpenInv, OnlyRunningOpen,
     LiveSlots, ThreadsOK, Threads
<1>12. ASSUME NEW o \in {"start", "detached"}, StartOpens(o)
      PROVE  OpenInv'
  <2>1. UNCHANGED <<boot, dir>> /\ ~Live
    BY <1>12, <1>0 DEF StartOpens, Live, LockInv, ThreadsOK, Threads
  <2> QED
    BY <2>1 DEF OpenInv, OnlyRunningOpen, Live, LiveSlots
<1>13. CASE StartWritesEntry
  <2>1. /\ boot' = boot /\ active' = TRUE /\ UNCHANGED <<cur_slot, cur_seq>>
        /\ dir' = [dir EXCEPT ![cur_slot] = NewEntry] /\ ~Live
    BY <1>13, <1>0 DEF StartWritesEntry, Live, LockInv, ThreadsOK, Threads
  <2>2. /\ dir'[cur_slot] = NewEntry
        /\ \A i \in LiveSlots' : i # cur_slot => i \in LiveSlots /\ dir'[i] = dir[i]
    BY <2>1, <1>0 DEF FlashOK, LogOK, LiveSlots
  <2> QED
    BY <2>1, <2>2 DEF OpenInv, OnlyRunningOpen, Live, NewEntry
<1>14. CASE StartFails
  BY <1>14, <1>0 DEF StartFails, Return, OpenInv, OnlyRunningOpen,
     LiveSlots, ThreadsOK, Threads
<1>15. CASE MarkDetached
  BY <1>15, <1>0 DEF MarkDetached, Return, OpenInv, OnlyRunningOpen,
     LiveSlots, ThreadsOK, Threads
<1>16. CASE EraseCalled
  BY <1>16, <1>0 DEF EraseCalled, OpenInv, OnlyRunningOpen, LiveSlots,
     ThreadsOK, Threads
<1>17. CASE EraseWipes
  BY <1>17, <1>0 DEF EraseWipes, DirWipe, OpenInv, OnlyRunningOpen,
     LiveSlots, ThreadsOK, Threads, NoEntry
<1>18. CASE EraseStamps
  BY <1>18, <1>0 DEF EraseStamps, DirStamp, Return, OpenInv,
     OnlyRunningOpen, LiveSlots, ThreadsOK, Threads, BootInv
<1>19. CASE Crash
  BY <1>19, <1>0 DEF Crash, OpenInv, OnlyRunningOpen, LiveSlots, ThreadsOK,
     Threads
<1>20. CASE FirmwareUpdated
  BY <1>20, <1>0 DEF FirmwareUpdated, OpenInv, OnlyRunningOpen, LiveSlots,
     ThreadsOK, Threads
<1>21. CASE BootWipes
  BY <1>21, <1>0 DEF BootWipes, DirWipe, OpenInv, OnlyRunningOpen,
     LiveSlots, ThreadsOK, Threads
<1>22. CASE BootStamps
  BY <1>22, <1>0 DEF BootStamps, DirStamp, OpenInv, OnlyRunningOpen,
     LiveSlots, ThreadsOK, Threads, BootInv
<1>23. CASE BootRecovers
  <2>1. \A i \in LiveSlots' : ~dir'[i].open
    BY <1>23, <1>0 DEF BootRecovers, LiveSlots, FlashOK, Entries
  <2> QED
    BY <2>1 DEF OpenInv, OnlyRunningOpen
<1>24. ASSUME NEW t \in Threads, StopCalled(t) PROVE OpenInv'
  BY <1>24, <1>0 DEF StopCalled, OpenInv, OnlyRunningOpen, LiveSlots,
     ThreadsOK, Threads
<1>25. ASSUME NEW t \in Threads, FlushEnds(t) PROVE OpenInv'
  BY <1>25, <1>0 DEF FlushEnds, OpenInv, OnlyRunningOpen, LiveSlots,
     ThreadsOK, Threads
<1>26. ASSUME NEW t \in Threads, StopDeactivates(t) PROVE OpenInv'
  BY <1>26, <1>0 DEF StopDeactivates, OpenInv, OnlyRunningOpen, LiveSlots,
     ThreadsOK, Threads
<1>27. ASSUME NEW t \in Threads, StopFindsInactive(t) PROVE OpenInv'
  BY <1>27, <1>0 DEF StopFindsInactive, StopReturns, Return, OpenInv,
     OnlyRunningOpen, LiveSlots, ThreadsOK, Threads
<1>28. ASSUME NEW t \in Threads, StopCloses(t) PROVE OpenInv'
  <2>1. /\ UNCHANGED <<boot, active, cur_slot, cur_seq>>
        /\ DirRefreshCurrent(TRUE) /\ Live
    BY <1>28 DEF StopCloses, Live
  <2>2. /\ LiveSlots' = LiveSlots
        /\ \A i \in LiveSlots : i # cur_slot => dir'[i] = dir[i]
        /\ ~dir'[cur_slot].open
    BY <2>1, RefreshedDir DEF LiveSlots
  <2> QED
    BY <2>1, <2>2 DEF OpenInv, OnlyRunningOpen
<1>29. CASE UNCHANGED vars
  BY <1>29 DEF vars, OpenInv, OnlyRunningOpen, LiveSlots
<1> QED
  BY <1>1, <1>2, <1>3, <1>4, <1>5, <1>6, <1>7, <1>8, <1>9, <1>10, <1>11,
     <1>12, <1>13, <1>14, <1>15, <1>16, <1>17, <1>18, <1>19, <1>20, <1>21,
     <1>22, <1>23, <1>24, <1>25, <1>26, <1>27, <1>28, <1>29 DEF Next, Pump,
     Writer, Start, Erase, Reset, Stop

-----------------------------------------------------------------------------
LEMMA EndsAreNat ==
  ASSUME TypeOK
  PROVE  \A i \in LiveSlots : EndOf(dir[i]) \in Nat /\ i \in Slots
  BY DEF TypeOK, FlashOK, Entries, LiveSlots, EndOf

(* The running session's entry ends where its last refresh left it.        *)
LEMMA RunningEnd ==
  ASSUME TypeOK, CurrentInv, Live
  PROVE  cur_slot \in LiveSlots /\ EndOf(dir[cur_slot]) = cur_start + last_dir_refresh
  BY DEF TypeOK, LogOK, CurrentInv, LiveSlots, EndOf

LEMMA TailInit == Init => TailInv
<1> SUFFICES ASSUME Init PROVE TailInv
  OBVIOUS
<1>1. top = 0 /\ total_abs = 0 /\ inflight = 0 /\ boot = "off" /\ meta # "ours" /\ ~Live
  BY DEF Init, Live, Threads
<1>2. 0 = 0 + 0
  OBVIOUS
<1> QED
  BY <1>1, <1>2 DEF TailInv

(* A step that leaves the writer and all that TailInv measures alone.      *)
LEMMA TailSame ==
  ASSUME TailInv,
         UNCHANGED <<boot, total_abs, inflight, top, cur_start,
                     last_dir_refresh, meta, dir, crashes>>,
         Live' = Live, wpc' = "lock" => Live \/ wpc = "lock"
  PROVE  TailInv'
  BY DEF TailInv, Within, LiveSlots, EndOf, MaxLag

(* A directory refresh moves the accounted end up to the write position.   *)
LEMMA RefreshKeepsTail ==
  ASSUME TypeOK, CurrentInv, TailInv, Live, boot = "up", inflight = 0,
         DirInv', NEW closing \in BOOLEAN, DirRefreshCurrent(closing),
         UNCHANGED <<boot, total_abs, cur_start, meta, crashes, top, inflight>>,
         Live' => wpc' # "lock"
  PROVE  TailInv'
<1>0. FlashOK /\ LogOK /\ MaxLag \in Nat /\ BatchRecs \in Nat
  BY LogAssumption DEF TypeOK, MaxLag
<1>1. /\ last_dir_refresh' = cur_count /\ LiveSlots' = LiveSlots
      /\ cur_slot \in LiveSlots /\ EndOf(dir'[cur_slot]) = total_abs
      /\ total_abs = cur_start + cur_count
  BY RefreshedDir, RunningEnd DEF CurrentInv
<1>2. total_abs <= top /\ top <= total_abs + MaxLag
  BY <1>0 DEF TailInv, LogOK
<1>3. Within(top, MaxLag)'
  BY <1>1, <1>2 DEF Within, MaxLag
<1>4. total_abs + 0 <= total_abs + BatchRecs /\ total_abs <= total_abs + 0
      /\ total_abs + 0 <= top
  BY <1>0, <1>2 DEF LogOK
<1>5. Within(total_abs + inflight, BatchRecs)' /\ Within(total_abs, 0)'
  BY <1>1, <1>4 DEF Within
<1>6. meta = "ours" => \A i \in LiveSlots' : EndOf(dir'[i]) <= top
  <2>1. \A i \in LiveSlots : EndOf(dir'[i]) \in Nat
    BY <1>0, <1>1, RefreshedDir, EndsAreNat DEF LogOK
  <2>2. meta = "ours" => \A i \in LiveSlots' : EndOf(dir'[i]) <= total_abs
    BY DEF DirInv
  <2> QED
    BY <2>1, <2>2, <1>0, <1>1, <1>2 DEF LogOK, FlashOK
<1>7. crashes = 0 => top = total_abs + inflight
  BY DEF TailInv
<1> QED
  BY <1>1, <1>2, <1>3, <1>4, <1>5, <1>6, <1>7 DEF TailInv, MaxLag

LEMMA TailNext ==
  IInv /\ DirInv' /\ [Next]_vars => TailInv'
<1> SUFFICES ASSUME IInv, DirInv', [Next]_vars
             PROVE  TailInv'
  OBVIOUS
<1> USE DEF flash, position, current, counts, session, staging, writer,
      callers, history
<1>0. /\ TypeOK /\ LockInv /\ BootInv /\ DirInv /\ CurrentInv /\ ClosedInv /\ TailInv
      /\ FlashOK /\ LogOK /\ StageOK /\ ThreadsOK
  BY DEF IInv, TypeOK
<1>a. MaxLag \in Nat /\ BatchRecs \in Nat /\ BatchRecs <= MaxLag
  BY LogAssumption DEF MaxLag
<1>1. CASE PumpEnters
  <2>1. /\ UNCHANGED <<boot, total_abs, inflight, top, cur_start,
                       last_dir_refresh, meta, dir, crashes>>
        /\ Live' = Live /\ (wpc' = "lock" => Live \/ wpc = "lock")
    BY <1>1, <1>0 DEF PumpEnters, Live
  <2> QED
    BY <2>1, <1>0, TailSame
<1>2. CASE PumpStages
  <2>1. /\ UNCHANGED <<boot, total_abs, inflight, top, cur_start,
                       last_dir_refresh, meta, dir, crashes>>
        /\ Live' = Live /\ (wpc' = "lock" => Live \/ wpc = "lock")
    BY <1>2, <1>0 DEF PumpStages, Live
  <2> QED
    BY <2>1, <1>0, TailSame
<1>3. CASE PumpLeaves
  <2>1. /\ UNCHANGED <<boot, total_abs, inflight, top, cur_start,
                       last_dir_refresh, meta, dir, crashes>>
        /\ Live' = Live /\ (wpc' = "lock" => Live \/ wpc = "lock")
    BY <1>3, <1>0 DEF PumpLeaves, Live
  <2> QED
    BY <2>1, <1>0, TailSame
<1>4. CASE WriterSees
  <2>1. /\ UNCHANGED <<boot, total_abs, inflight, top, cur_start,
                       last_dir_refresh, meta, dir, crashes>>
        /\ Live' = Live /\ (wpc' = "lock" => Live \/ wpc = "lock")
    BY <1>4, <1>0 DEF WriterSees, Live
  <2> QED
    BY <2>1, <1>0, TailSame
<1>5. CASE WriterFindsNothing
  <2>1. /\ UNCHANGED <<boot, total_abs, inflight, top, cur_start,
                       last_dir_refresh, meta, dir, crashes>>
        /\ Live' = Live /\ (wpc' = "lock" => Live \/ wpc = "lock")
    BY <1>5, <1>0 DEF WriterFindsNothing, Live
  <2> QED
    BY <2>1, <1>0, TailSame
<1>6. CASE WriterWrites
  <2>1. /\ UNCHANGED <<boot, total_abs, cur_start, last_dir_refresh, meta, dir, active, pc, crashes>>
        /\ inflight' = BatchLen /\ wpc = "lock" /\ wpc' = "commit" /\ lock = "free"
        /\ top' = IF total_abs + BatchLen > top THEN total_abs + BatchLen ELSE top
    BY <1>6 DEF WriterWrites
  <2>2. /\ BatchLen \in Nat /\ BatchLen <= BatchRecs /\ boot = "up" /\ inflight = 0
        /\ Live' = Live
    BY <1>0, <2>1, BatchLenBounds DEF BootInv, LockInv, StageOK, Live
  <2>3. total_abs <= top /\ top <= total_abs + MaxLag
    BY <1>0, <2>2 DEF TailInv, LogOK
  <2>4. total_abs + BatchLen <= top' /\ top' <= total_abs + MaxLag /\ top <= top'
    BY <1>0, <1>a, <2>1, <2>2, <2>3 DEF FlashOK, LogOK
  <2>5. ASSUME Live PROVE top' <= cur_start + last_dir_refresh + MaxLag
    <3>1. /\ total_abs = cur_start + cur_count
          /\ cur_count < last_dir_refresh + DirRefreshRecs
          /\ top <= cur_start + last_dir_refresh + MaxLag
      BY <1>0, <2>1, <2>5 DEF CurrentInv, TailInv
    <3> QED
      BY <3>1, <1>0, <2>1, <2>2, LogAssumption DEF FlashOK, LogOK, MaxLag
  <2>6. ASSUME ~Live, meta = "ours"
        PROVE  Within(total_abs + BatchLen, BatchRecs) /\ Within(top', MaxLag)
    <3>1. Within(total_abs, 0) /\ Within(top, MaxLag)
      BY <1>0, <2>1, <2>2, <2>6 DEF TailInv
    <3>2. Within(total_abs + BatchLen, BatchRecs)
      BY <3>1, <2>2, <1>0, <1>a, EndsAreNat DEF Within, LogOK
    <3>3. Within(total_abs + BatchLen, MaxLag)
      BY <3>1, <2>2, <1>0, <1>a, EndsAreNat DEF Within, LogOK
    <3> QED
      BY <3>1, <3>2, <3>3, <2>1
  <2>7. ASSUME Live PROVE Within(top', MaxLag)
    BY <2>5, <2>7, <1>0, RunningEnd DEF Within
  <2>8. ASSUME meta = "ours", NEW i \in LiveSlots PROVE EndOf(dir[i]) <= top'
    <3>1. EndOf(dir[i]) <= top
      BY <1>0, <2>8 DEF TailInv
    <3> QED
      BY <3>1, <2>4, EndsAreNat, <1>0, <2>1, <2>2 DEF FlashOK, LogOK
  <2>9. crashes = 0 => top' = total_abs + BatchLen
    BY <1>0, <2>1, <2>2 DEF TailInv, LogOK, FlashOK
  <2> QED
    BY <2>1, <2>2, <2>4, <2>5, <2>6, <2>7, <2>8, <2>9
       DEF TailInv, Within, LiveSlots, MaxLag
<1>7. CASE WriterCommits
  <2>1. /\ UNCHANGED <<boot, cur_start, last_dir_refresh, meta, dir, active, pc, crashes, top>>
        /\ total_abs' = total_abs + inflight /\ inflight' = 0 /\ wpc' # "lock"
    BY <1>7 DEF WriterCommits
  <2>2. Live' = Live /\ total_abs' + inflight' = total_abs + inflight
    BY <1>0, <2>1 DEF Live, LogOK, StageOK
  <2>3. top <= total_abs + MaxLag => top <= total_abs' + MaxLag
    BY <1>0, <1>a, <2>1 DEF FlashOK, LogOK, StageOK
  <2> QED
    BY <1>0, <2>1, <2>2, <2>3 DEF TailInv, Within, LiveSlots, MaxLag
<1>8. CASE WriterRefreshes
  <2>1. /\ UNCHANGED <<boot, total_abs, cur_start, meta, active, pc, crashes, top, inflight>>
        /\ DirRefreshCurrent(FALSE) /\ wpc = "refresh" /\ wpc' # "lock" /\ Live' = Live
    BY <1>8 DEF WriterRefreshes, Live
  <2>2. boot = "up" /\ inflight = 0
    BY <1>0, <2>1 DEF BootInv, LockInv, LogOK, StageOK
  <2>3. CASE Live
    BY <1>0, <1>a, <2>1, <2>2, <2>3, RefreshKeepsTail DEF TailInv
  <2>4. CASE ~Live
    <3>1. LiveSlots = {}
      BY <1>0, <2>1, <2>2, <2>4 DEF ClosedInv
    <3>2. UNCHANGED <<dir, last_dir_refresh>>
      BY <1>0, <2>1, <3>1 DEF DirRefreshCurrent, LiveSlots, LogOK
    <3> QED
      BY <1>0, <2>1, <3>2, TailSame
  <2> QED
    BY <2>3, <2>4
<1>9. ASSUME NEW i \in Slots, WriterInvalidates(i) PROVE TailInv'
  <2>1. /\ UNCHANGED <<boot, total_abs, inflight, top, cur_start, cur_slot, last_dir_refresh,
                       meta, crashes, active, pc>>
        /\ dir' = [dir EXCEPT ![i] = NoEntry]
        /\ wpc = "invalidate" /\ wpc' = wpc /\ Live' = Live
        /\ dir[i].valid /\ ~(active /\ i = cur_slot)
    BY <1>9 DEF WriterInvalidates, Consumed, Live
  <2>2. boot = "up" /\ i \in LiveSlots
    BY <1>0, <2>1 DEF BootInv, LogOK, LiveSlots
  <2>3. Live /\ active /\ i # cur_slot
    BY <1>0, <2>1, <2>2 DEF ClosedInv, Live, LockInv, ThreadsOK, Threads
  <2>4. /\ \A j \in LiveSlots' : j \in LiveSlots /\ dir'[j] = dir[j]
        /\ cur_slot \in LiveSlots' /\ dir'[cur_slot] = dir[cur_slot]
    BY <1>0, <2>1, <2>3, RunningEnd DEF FlashOK, LiveSlots, NoEntry
  <2>5. top <= EndOf(dir'[cur_slot]) + MaxLag
    BY <1>0, <2>3, <2>4, RunningEnd DEF TailInv
  <2>6. Within(top, MaxLag)'
    BY <2>1, <2>4, <2>5 DEF Within, MaxLag
  <2>7. meta = "ours" => \A j \in LiveSlots' : EndOf(dir'[j]) <= top
    BY <1>0, <2>4 DEF TailInv
  <2> QED
    BY <1>0, <2>1, <2>3, <2>6, <2>7 DEF TailInv, MaxLag
<1>10. CASE WriterFinishes
  <2>1. /\ UNCHANGED <<boot, total_abs, inflight, top, cur_start,
                       last_dir_refresh, meta, dir, crashes>>
        /\ Live' = Live /\ (wpc' = "lock" => Live \/ wpc = "lock")
    BY <1>10, <1>0 DEF WriterFinishes, Live
  <2> QED
    BY <2>1, <1>0, TailSame
<1>11. CASE StartRefused
  <2>1. /\ UNCHANGED <<boot, total_abs, inflight, top, cur_start,
                       last_dir_refresh, meta, dir, crashes>>
        /\ Live' = Live /\ (wpc' = "lock" => Live \/ wpc = "lock")
    BY <1>11, <1>0 DEF StartRefused, Live, vars
  <2> QED
    BY <2>1, <1>0, TailSame
<1>12. ASSUME NEW o \in {"start", "detached"}, StartOpens(o)
      PROVE  TailInv'
  <2>1. ~Live' /\ ~Live /\ UNCHANGED <<boot, total_abs, inflight, top, meta, dir, wpc, crashes>>
    BY <1>12, <1>0 DEF StartOpens, Live, LockInv, ThreadsOK, Threads
  <2> QED
    BY <2>1, <1>0 DEF TailInv, Within, LiveSlots
<1>13. CASE StartWritesEntry
  <2>1. /\ UNCHANGED <<boot, total_abs, inflight, top, cur_start, cur_slot, last_dir_refresh,
                       meta, crashes, wpc>>
        /\ dir' = [dir EXCEPT ![cur_slot] = NewEntry]
        /\ pc["cmd"] = "entry" /\ active'
    BY <1>13 DEF StartWritesEntry
  <2>2. Live' /\ boot = "up" /\ total_abs = cur_start + cur_count
        /\ cur_count = 0 /\ last_dir_refresh = 0
    BY <1>0, <2>1 DEF Live, BootInv, CurrentInv, LogOK, Threads
  <2>3. cur_slot \in LiveSlots' /\ EndOf(dir'[cur_slot]) = total_abs
    BY <1>0, <2>1, <2>2 DEF FlashOK, LogOK, LiveSlots, NewEntry, EndOf
  <2>4. top <= total_abs + MaxLag /\ total_abs + inflight <= top
    BY <1>0, <2>2 DEF TailInv
  <2>5. Within(top, MaxLag)'
    BY <2>1, <2>3, <2>4 DEF Within, MaxLag
  <2>6. top <= cur_start + last_dir_refresh + MaxLag
    BY <1>0, <1>a, <2>2, <2>4 DEF LogOK, FlashOK
  <2>7. meta = "ours" => \A j \in LiveSlots' : EndOf(dir'[j]) <= top
    <3>1. \A j \in LiveSlots' : EndOf(dir'[j]) <= total_abs \/ meta # "ours"
      BY <1>0, <2>1, <2>2 DEF DirInv
    <3>2. \A j \in LiveSlots' : EndOf(dir'[j]) \in Nat
      BY <1>0, <2>1 DEF FlashOK, LogOK, LiveSlots, NewEntry, EndOf, Entries
    <3> QED
      BY <1>0, <3>1, <3>2, <2>4 DEF LogOK, FlashOK, StageOK
  <2>8. crashes = 0 => top = total_abs + inflight
    BY <1>0 DEF TailInv
  <2> QED
    BY <2>1, <2>2, <2>4, <2>5, <2>6, <2>7, <2>8 DEF TailInv, MaxLag
<1>14. CASE StartFails
  <2>1. /\ UNCHANGED <<boot, total_abs, inflight, top, cur_start,
                       last_dir_refresh, meta, dir, crashes>>
        /\ Live' = Live /\ (wpc' = "lock" => Live \/ wpc = "lock")
    BY <1>14, <1>0 DEF StartFails, Live, Return, ThreadsOK, Threads
  <2> QED
    BY <2>1, <1>0, TailSame
<1>15. CASE MarkDetached
  <2>1. /\ UNCHANGED <<boot, total_abs, inflight, top, cur_start,
                       last_dir_refresh, meta, dir, crashes>>
        /\ Live' = Live /\ (wpc' = "lock" => Live \/ wpc = "lock")
    BY <1>15, <1>0 DEF MarkDetached, Live, Return, ThreadsOK, Threads
  <2> QED
    BY <2>1, <1>0, TailSame
<1>16. CASE EraseCalled
  <2>1. /\ UNCHANGED <<boot, total_abs, inflight, top, cur_start,
                       last_dir_refresh, meta, dir, crashes>>
        /\ Live' = Live /\ (wpc' = "lock" => Live \/ wpc = "lock")
    BY <1>16, <1>0 DEF EraseCalled, Live, ThreadsOK, Threads
  <2> QED
    BY <2>1, <1>0, TailSame
<1>17. CASE EraseWipes
  <2>1. /\ UNCHANGED <<boot, total_abs, inflight, top, crashes>>
        /\ meta' = "blank" /\ ~Live'
    BY <1>17, <1>0 DEF EraseWipes, DirWipe, Live, LockInv, ThreadsOK, Threads
  <2> QED
    BY <1>0, <2>1 DEF TailInv, MaxLag
<1>18. CASE EraseStamps
  <2>1. /\ UNCHANGED <<inflight, active, crashes, wpc, dir>>
        /\ top' = 0 /\ total_abs' = 0 /\ pc["cmd"] = "stamp" /\ pc'["cmd"] = "idle"
    BY <1>18, <1>0 DEF EraseStamps, DirStamp, Return, ThreadsOK, Threads
  <2>2. inflight = 0 /\ ~Live' /\ LiveSlots' = {}
    BY <1>18, <1>0, <2>1 DEF EraseStamps, Return, LockInv, BootInv, LogOK, StageOK,
       Live, LiveSlots, ThreadsOK, Threads
  <2>3. 0 + 0 <= 0 /\ 0 <= 0 + MaxLag /\ 0 + 0 <= BatchRecs /\ 0 <= MaxLag /\ 0 <= 0 /\ 0 = 0 + 0
    BY <1>a
  <2> QED
    BY <2>1, <2>2, <2>3 DEF TailInv, Within, MaxLag
<1>19. CASE Crash
  <2>1. /\ UNCHANGED <<meta, dir, top>> /\ boot' = "off" /\ ~Live'
        /\ crashes' = crashes + 1
    BY <1>19 DEF Crash, Live, Threads
  <2>2. crashes' # 0
    BY <1>0, <2>1 DEF FlashOK
  <2> QED
    BY <1>0, <2>1, <2>2 DEF TailInv, Within, LiveSlots, MaxLag
<1>20. CASE FirmwareUpdated
  <2>1. /\ UNCHANGED <<total_abs, inflight, top, crashes, boot>>
        /\ meta' = "foreign" /\ boot = "off" /\ ~Live'
    BY <1>20, <1>0 DEF FirmwareUpdated, Live, BootInv, Threads
  <2> QED
    BY <1>0, <2>1 DEF TailInv
<1>21. CASE BootWipes
  <2>1. /\ UNCHANGED <<total_abs, inflight, top, crashes>>
        /\ meta' = "blank" /\ boot' = "stamp" /\ ~Live'
    BY <1>21, <1>0 DEF BootWipes, DirWipe, Live, BootInv, Threads
  <2> QED
    BY <1>0, <2>1 DEF TailInv
<1>22. CASE BootStamps
  <2>1. /\ UNCHANGED <<inflight, crashes, wpc, dir, total_abs>>
        /\ top' = 0 /\ ~Live'
    BY <1>22, <1>0 DEF BootStamps, DirStamp, Live, BootInv, Threads
  <2>2. inflight = 0 /\ total_abs = 0 /\ LiveSlots' = {}
    BY <1>22, <1>0, <2>1 DEF BootStamps, BootInv, LiveSlots
  <2>3. 0 + 0 <= 0 /\ 0 <= 0 + MaxLag /\ 0 + 0 <= BatchRecs /\ 0 <= MaxLag /\ 0 <= 0 /\ 0 = 0 + 0
    BY <1>a
  <2> QED
    BY <2>1, <2>2, <2>3 DEF TailInv, Within, MaxLag
<1>23. CASE BootRecovers
  <2>1. /\ UNCHANGED <<meta, inflight, top, crashes, wpc>>
        /\ boot = "off" /\ meta = "ours" /\ ~Live'
        /\ dir' = [i \in Slots |-> [dir[i] EXCEPT !.open = FALSE]]
    BY <1>23, <1>0 DEF BootRecovers, Live, BootInv, Threads
  <2>2. PICK x \in {EndOf(dir[i]) : i \in LiveSlots} \union {0} :
          /\ \A y \in {EndOf(dir[i]) : i \in LiveSlots} : y <= x
          /\ total_abs' = x
    BY <1>23 DEF BootRecovers, IsMax
  <2>3. /\ LiveSlots' = LiveSlots
        /\ \A i \in LiveSlots : EndOf(dir'[i]) = EndOf(dir[i])
    BY <2>1, <1>0 DEF FlashOK, Entries, LiveSlots, EndOf
  <2>4. inflight = 0 /\ total_abs = 0
    BY <1>0, <2>1 DEF BootInv
  <2>5. /\ Within(top, MaxLag) /\ \A i \in LiveSlots : EndOf(dir[i]) <= top
        /\ crashes = 0 => top = 0
    BY <1>0, <2>1, <2>4 DEF TailInv
  <2>6. x \in Nat /\ x <= top /\ x + 0 <= top /\ (top = 0 => top = x + 0)
    BY <1>0, <2>2, <2>5, EndsAreNat DEF FlashOK
  <2>7. top <= x + MaxLag
    <3>1. CASE top <= MaxLag
      BY <1>0, <1>a, <2>6, <3>1 DEF FlashOK
    <3>2. ASSUME NEW i \in LiveSlots, top <= EndOf(dir[i]) + MaxLag
          PROVE  top <= x + MaxLag
      <4>1. EndOf(dir[i]) <= x /\ EndOf(dir[i]) \in Nat
        BY <1>0, <2>2, EndsAreNat
      <4> QED
        BY <4>1, <1>0, <1>a, <2>6, <3>2 DEF FlashOK
    <3> QED
      BY <2>5, <3>1, <3>2 DEF Within
  <2>8. /\ x <= 0 \/ \E i \in LiveSlots : x <= EndOf(dir[i]) + 0
        /\ x + 0 <= BatchRecs
             \/ \E i \in LiveSlots : x + 0 <= EndOf(dir[i]) + BatchRecs
    <3>1. CASE x = 0
      BY <3>1, <1>a
    <3>2. ASSUME NEW i \in LiveSlots, x = EndOf(dir[i])
          PROVE  x <= EndOf(dir[i]) + 0 /\ x + 0 <= EndOf(dir[i]) + BatchRecs
      BY <2>6, <3>2, <1>a
    <3> QED
      BY <2>2, <3>1, <3>2
  <2> QED
    BY <2>1, <2>2, <2>3, <2>4, <2>5, <2>6, <2>7, <2>8
       DEF TailInv, Within, MaxLag
<1>24. ASSUME NEW t \in Threads, StopCalled(t) PROVE TailInv'
  <2>1. /\ UNCHANGED <<boot, total_abs, inflight, top, cur_start,
                       last_dir_refresh, meta, dir, crashes>>
        /\ Live' = Live /\ (wpc' = "lock" => Live \/ wpc = "lock")
    BY <1>24, <1>0 DEF StopCalled, Live, ThreadsOK, Threads
  <2> QED
    BY <2>1, <1>0, TailSame
<1>25. ASSUME NEW t \in Threads, FlushEnds(t) PROVE TailInv'
  <2>1. /\ UNCHANGED <<boot, total_abs, inflight, top, cur_start,
                       last_dir_refresh, meta, dir, crashes>>
        /\ Live' = Live /\ (wpc' = "lock" => Live \/ wpc = "lock")
    BY <1>25, <1>0 DEF FlushEnds, Live, ThreadsOK, Threads
  <2> QED
    BY <2>1, <1>0, TailSame
<1>26. ASSUME NEW t \in Threads, StopDeactivates(t) PROVE TailInv'
  <2>1. /\ UNCHANGED <<boot, total_abs, inflight, top, cur_start,
                       last_dir_refresh, meta, dir, crashes>>
        /\ Live' = Live /\ (wpc' = "lock" => Live \/ wpc = "lock")
    BY <1>26, <1>0 DEF StopDeactivates, Live, ThreadsOK, Threads
  <2> QED
    BY <2>1, <1>0, TailSame
<1>27. ASSUME NEW t \in Threads, StopFindsInactive(t) PROVE TailInv'
  <2>1. /\ UNCHANGED <<boot, total_abs, inflight, top, cur_start,
                       last_dir_refresh, meta, dir, crashes>>
        /\ Live' = Live /\ (wpc' = "lock" => Live \/ wpc = "lock")
    BY <1>27, <1>0 DEF StopFindsInactive, Live, StopReturns, Return, ThreadsOK, Threads
  <2> QED
    BY <2>1, <1>0, TailSame
<1>28. ASSUME NEW t \in Threads, StopCloses(t) PROVE TailInv'
  <2>1. /\ UNCHANGED <<boot, total_abs, cur_start, meta, active, crashes, top, inflight, wpc>>
        /\ DirRefreshCurrent(TRUE) /\ Live /\ lock = t /\ ~Live'
    BY <1>28, <1>0 DEF StopCloses, StopReturns, Return, Live, LockInv, ThreadsOK, Threads
  <2>2. boot = "up" /\ inflight = 0
    BY <1>0, <2>1 DEF BootInv, LockInv, LogOK, StageOK, Live, Threads
  <2> QED
    <3>1. UNCHANGED <<boot, total_abs, cur_start, meta, crashes, top, inflight>>
      BY <2>1
    <3> QED
      BY <1>0, <2>1, <2>2, <3>1, RefreshKeepsTail
<1>29. CASE UNCHANGED vars
  <2>1. /\ UNCHANGED <<boot, total_abs, inflight, top, cur_start,
                       last_dir_refresh, meta, dir, crashes>>
        /\ Live' = Live /\ (wpc' = "lock" => Live \/ wpc = "lock")
    BY <1>29 DEF vars, Live
  <2> QED
    BY <2>1, <1>0, TailSame
<1> QED
  BY <1>1, <1>2, <1>3, <1>4, <1>5, <1>6, <1>7, <1>8, <1>9, <1>10, <1>11,
     <1>12, <1>13, <1>14, <1>15, <1>16, <1>17, <1>18, <1>19, <1>20, <1>21,
     <1>22, <1>23, <1>24, <1>25, <1>26, <1>27, <1>28, <1>29 DEF Next, Pump,
     Writer, Start, Erase, Reset, Stop

-----------------------------------------------------------------------------
LEMMA StageInit == Init => StageInv
  BY DEF Init, StageInv, Threads

LEMMA StageNext ==
  TypeOK /\ LockInv /\ BootInv /\ StageInv /\ [Next]_vars => StageInv'
<1> SUFFICES ASSUME TypeOK, LockInv, BootInv, StageInv, [Next]_vars
             PROVE  StageInv'
  OBVIOUS
<1> USE DEF flash, position, current, counts, session, staging, writer,
      callers, history
<1>0. FlashOK /\ LogOK /\ StageOK /\ ThreadsOK
  BY DEF TypeOK
<1>1. CASE PumpEnters
  BY <1>1, <1>0 DEF PumpEnters, StageInv, ThreadsOK, Threads
<1>2. CASE PumpStages
  <2>1. UNCHANGED <<active, pc, cur_seq, cur_count>>
    BY <1>2 DEF PumpStages
  <2>2. CASE stage' = stage
    BY <2>1, <2>2 DEF StageInv
  <2>3. CASE stage' = Append(stage, <<cur_seq, cur_count + Len(stage)>>)
    <3>1. /\ Len(stage') = Len(stage) + 1 /\ Len(stage) \in Nat
          /\ stage'[Len(stage) + 1] = <<cur_seq, cur_count + Len(stage)>>
          /\ \A j \in 1 .. Len(stage) : stage'[j] = stage[j]
      BY <1>0, <2>3 DEF StageOK
    <3>2. cur_count + Len(stage) = cur_count + (Len(stage) + 1) - 1
      BY <1>0, <3>1 DEF LogOK
    <3>3. \A j \in 1 .. Len(stage') : j \in 1 .. Len(stage) \/ j = Len(stage) + 1
      BY <3>1
    <3> QED
      BY <2>1, <3>1, <3>2, <3>3 DEF StageInv
  <2> QED
    BY <1>2, <2>2, <2>3 DEF PumpStages
<1>3. CASE PumpLeaves
  BY <1>3, <1>0 DEF PumpLeaves, StageInv, ThreadsOK, Threads
<1>4. CASE WriterSees
  BY <1>4, <1>0 DEF WriterSees, StageInv, ThreadsOK, Threads
<1>5. CASE WriterFindsNothing
  BY <1>5, <1>0 DEF WriterFindsNothing, StageInv, ThreadsOK, Threads
<1>6. CASE WriterWrites
  BY <1>6, <1>0 DEF WriterWrites, StageInv, ThreadsOK, Threads
<1>7. CASE WriterCommits
  <2>1. /\ UNCHANGED <<active, pc, cur_seq>> /\ cur_count' = cur_count + inflight
        /\ stage' = SubSeq(stage, inflight + 1, Len(stage))
    BY <1>7 DEF WriterCommits
  <2>2. ASSUME NEW j \in 1 .. Len(stage')
        PROVE  /\ j + inflight \in 1 .. Len(stage)
               /\ stage'[j] = stage[j + inflight]
               /\ cur_count' + j - 1 = cur_count + (j + inflight) - 1
    BY <1>0, <2>1 DEF StageOK, LogOK
  <2> QED
    BY <2>1, <2>2 DEF StageInv
<1>8. CASE WriterRefreshes
  BY <1>8, <1>0 DEF WriterRefreshes, DirRefreshCurrent, StageInv, ThreadsOK,
     Threads
<1>9. ASSUME NEW i \in Slots, WriterInvalidates(i) PROVE StageInv'
  BY <1>9, <1>0 DEF WriterInvalidates, Consumed, StageInv, ThreadsOK,
     Threads
<1>10. CASE WriterFinishes
  BY <1>10, <1>0 DEF WriterFinishes, StageInv, ThreadsOK, Threads
<1>11. CASE StartRefused
  BY <1>11, <1>0 DEF StartRefused, vars, StageInv, ThreadsOK, Threads
<1>12. ASSUME NEW o \in {"start", "detached"}, StartOpens(o)
      PROVE  StageInv'
  <2>1. stage' = <<>>
    BY <1>12 DEF StartOpens
  <2> QED
    BY <2>1 DEF StageInv
<1>13. CASE StartWritesEntry
  BY <1>13, <1>0 DEF StartWritesEntry, Return, StageInv, ThreadsOK, Threads
<1>14. CASE StartFails
  BY <1>14, <1>0 DEF StartFails, Return, StageInv, ThreadsOK, Threads
<1>15. CASE MarkDetached
  BY <1>15, <1>0 DEF MarkDetached, Return, StageInv, ThreadsOK, Threads
<1>16. CASE EraseCalled
  BY <1>16, <1>0 DEF EraseCalled, StageInv, ThreadsOK, Threads
<1>17. CASE EraseWipes
  BY <1>17, <1>0 DEF EraseWipes, DirWipe, StageInv, ThreadsOK, Threads
<1>18. CASE EraseStamps
  BY <1>18, <1>0 DEF EraseStamps, DirStamp, Return, StageInv, ThreadsOK,
     Threads, LockInv
<1>19. CASE Crash
  BY <1>19, <1>0 DEF Crash, StageInv, ThreadsOK, Threads
<1>20. CASE FirmwareUpdated
  BY <1>20, <1>0 DEF FirmwareUpdated, StageInv, ThreadsOK, Threads
<1>21. CASE BootWipes
  BY <1>21, <1>0 DEF BootWipes, DirWipe, StageInv, ThreadsOK, Threads
<1>22. CASE BootStamps
  BY <1>22, <1>0 DEF BootStamps, DirStamp, StageInv, ThreadsOK, Threads
<1>23. CASE BootRecovers
  BY <1>23, <1>0 DEF BootRecovers, StageInv, ThreadsOK, Threads
<1>24. ASSUME NEW t \in Threads, StopCalled(t) PROVE StageInv'
  BY <1>24, <1>0 DEF StopCalled, StageInv, ThreadsOK, Threads
<1>25. ASSUME NEW t \in Threads, FlushEnds(t) PROVE StageInv'
  BY <1>25, <1>0 DEF FlushEnds, StageInv, ThreadsOK, Threads
<1>26. ASSUME NEW t \in Threads, StopDeactivates(t) PROVE StageInv'
  BY <1>26, <1>0 DEF StopDeactivates, StageInv, ThreadsOK, Threads
<1>27. ASSUME NEW t \in Threads, StopFindsInactive(t) PROVE StageInv'
  BY <1>27, <1>0 DEF StopFindsInactive, StopReturns, Return, StageInv,
     ThreadsOK, Threads
<1>28. ASSUME NEW t \in Threads, StopCloses(t) PROVE StageInv'
  BY <1>28, <1>0 DEF StopCloses, DirRefreshCurrent, StopReturns, Return,
     StageInv, ThreadsOK, Threads
<1>29. CASE UNCHANGED vars
  BY <1>29 DEF vars, StageInv
<1> QED
  BY <1>1, <1>2, <1>3, <1>4, <1>5, <1>6, <1>7, <1>8, <1>9, <1>10, <1>11,
     <1>12, <1>13, <1>14, <1>15, <1>16, <1>17, <1>18, <1>19, <1>20, <1>21,
     <1>22, <1>23, <1>24, <1>25, <1>26, <1>27, <1>28, <1>29 DEF Next, Pump,
     Writer, Start, Erase, Reset, Stop

-----------------------------------------------------------------------------
(* The addressing of the ring: records less than RecCapacity apart are in  *)
(* different cells, and a batch that stops at the wrap is contiguous.      *)
LEMMA RemaindersDiffer ==
  ASSUME NEW n \in Nat \ {0}, NEW a \in Nat, NEW b \in Nat, a < b, b - a < n
  PROVE  a % n # b % n
<1> DEFINE p == a \div n
           q == b \div n
           r == a % n
           u == b % n
<1>1. a = n * p + r /\ p \in Nat /\ r \in Nat
  BY DivMod
<1>2. b = n * q + u /\ q \in Nat /\ u \in Nat
  BY DivMod
<1> HIDE DEF p, q, r, u
<1> SUFFICES ASSUME r = u PROVE FALSE
  BY DEF r, u
<1>3. b - a = n * (q - p)
  BY <1>1, <1>2
<1>4. q - p > 0
  BY <1>1, <1>2, <1>3
<1>5. n * (q - p) >= n
  BY <1>1, <1>2, <1>4
<1> QED
  BY <1>3, <1>5

(* A remainder is found by recomposing the number.                         *)
LEMMA RemainderIs ==
  ASSUME NEW n \in Nat \ {0}, NEW q \in Nat, NEW r \in 0 .. n - 1
  PROVE  (n * q + r) % n = r
<1> DEFINE a == n * q + r
           p == a \div n
           u == a % n
<1>1. a \in Nat
  OBVIOUS
<1>2. a = n * p + u /\ p \in Nat /\ u \in 0 .. n - 1
  BY <1>1, DivMod
<1>3. n * p + u = n * q + r
  BY <1>2
<1> SUFFICES u = r
  OBVIOUS
<1> HIDE DEF p, u, a
<1>4. n * (q - p) = u - r /\ n * (p - q) = r - u
  BY <1>2, <1>3
<1>5. n * (q - p) < n /\ n * (p - q) < n
  BY <1>2, <1>4
<1>6. ~(q > p)
  <2> SUFFICES ASSUME q > p PROVE FALSE
    OBVIOUS
  <2>1. q - p >= 1 /\ q - p \in Nat
    BY <1>2
  <2>2. n * (q - p) >= n
    BY <2>1
  <2> QED
    BY <2>2, <1>2, <1>5
<1>7. ~(p > q)
  <2> SUFFICES ASSUME p > q PROVE FALSE
    OBVIOUS
  <2>1. p - q >= 1 /\ p - q \in Nat
    BY <1>2
  <2>2. n * (p - q) >= n
    BY <2>1, <1>2
  <2> QED
    BY <2>2, <1>2, <1>5
<1>8. p = q
  BY <1>2, <1>6, <1>7
<1> QED
  BY <1>2, <1>3, <1>8

(* Within one round of the ring places follow one another.                 *)
LEMMA RemaindersFollow ==
  ASSUME NEW n \in Nat \ {0}, NEW a \in Nat, NEW d \in Nat, (a % n) + d < n
  PROVE  (a + d) % n = (a % n) + d
<1> DEFINE q == a \div n
           r == a % n
<1>1. a = n * q + r /\ q \in Nat /\ r \in 0 .. n - 1
  BY DivMod
<1> HIDE DEF q, r
<1>2. r + d \in 0 .. n - 1 /\ a + d = n * q + (r + d)
  BY <1>1 DEF r
<1>3. (n * q + (r + d)) % n = r + d
  BY <1>1, <1>2, RemainderIs
<1> QED
  BY <1>2, <1>3 DEF r

(* A multiple is divided exactly.                                          *)
LEMMA QuotientIs ==
  ASSUME NEW n \in Nat \ {0}, NEW q \in Nat
  PROVE  (n * q) \div n = q
<1> DEFINE p == (n * q) \div n
<1>1. n * q \in Nat /\ (n * q + 0) % n = 0
  BY RemainderIs
<1>2. n * q = n * p + ((n * q) % n) /\ p \in Nat
  BY <1>1, DivMod
<1>3. n * q + 0 = n * q
  BY <1>1
<1> HIDE DEF p
<1>4. n * q = n * p
  BY <1>1, <1>2, <1>3
<1>5. n * (q - p) = 0 /\ n * (p - q) = 0
  BY <1>2, <1>4
<1>6. ~(q - p >= 1) /\ ~(p - q >= 1)
  <2>1. ASSUME NEW d \in Nat, d >= 1 PROVE n * d >= n
    BY <2>1
  <2> QED
    BY <2>1, <1>2, <1>5
<1> QED
  BY <1>2, <1>6 DEF p

(* The place of a record by its bytes is its place by its number.          *)
LEMMA PlacesAgree ==
  ASSUME NEW s \in Nat \ {0}, NEW n \in Nat \ {0}, NEW r \in Nat
  PROVE  ((r * s) % (s * n)) \div s = r % n
<1> DEFINE q == r \div n
           m == r % n
<1>1. r = n * q + m /\ q \in Nat /\ m \in 0 .. n - 1
  BY DivMod
<1> HIDE DEF q, m
<1>2. s * n \in Nat \ {0} /\ s * m \in Nat
  BY <1>1
<1>3. s * m < s * n
  <2>1. (n - m) * s > 0 /\ (n - m) * s = s * n - s * m
    BY <1>1
  <2> QED
    BY <2>1, <1>2
<1>4. r * s = (s * n) * q + s * m
  BY <1>1
<1>5. ((s * n) * q + s * m) % (s * n) = s * m
  <2>1. s * m \in 0 .. s * n - 1
    BY <1>1, <1>2, <1>3
  <2> QED
    BY <1>1, <1>2, <2>1, RemainderIs
<1>6. (s * m) \div s = m
  BY <1>1, QuotientIs
<1> QED
  BY <1>4, <1>5, <1>6 DEF m

(* Below the wrap of a word, the reader's byte position is in the cell     *)
(* where the writer put the record.                                        *)
LEMMA ReaderFindsCell ==
  ASSUME NEW i, NEW k \in Nat, ReadStart(i) \in Nat,
         (ReadStart(i) + k) * RecSize < Word
  PROVE  ReadRecord(i, k) = ring[CellOf(ReadStart(i) + k)]
<1> DEFINE r == ReadStart(i) + k
           x == r * RecSize
<1>1. r \in Nat /\ x \in Nat /\ x < Word
      /\ RecSize \in Nat \ {0} /\ Word \in Nat \ {0} /\ RecCapacity \in Nat \ {0}
  BY AddressAssumption, LogAssumption
<1>2. ReadStart(i) * RecSize + k * RecSize = x
  BY <1>1
<1> HIDE DEF r, x
<1>3. x % Word = x
  <2>1. Word * 0 + x = x /\ x \in 0 .. Word - 1
    BY <1>1
  <2>2. (Word * 0 + x) % Word = x
    BY <1>1, <2>1, RemainderIs
  <2> QED
    BY <2>1, <2>2
<1>4. (x % (RecSize * RecCapacity)) \div RecSize = r % RecCapacity
  BY <1>1, PlacesAgree DEF x
<1> QED
  BY <1>2, <1>3, <1>4 DEF ReadRecord, AbsByte, DataCapacity, CellOf, r

LEMMA CellsDiffer ==
  ASSUME NEW a \in Nat, NEW b \in Nat, a < b, b - a < RecCapacity
  PROVE  CellOf(a) # CellOf(b)
  BY RemaindersDiffer, LogAssumption DEF CellOf

(* Two sessions of one slot are MaxSessions apart.                         *)
LEMMA SlotsDiffer ==
  ASSUME NEW a \in Nat \ {0}, NEW b \in Nat, a < b, SlotOf(a) = SlotOf(b)
  PROVE  a + MaxSessions <= b
<1>1. a - 1 \in Nat /\ b - 1 \in Nat /\ a - 1 < b - 1
  OBVIOUS
<1>2. ~((b - 1) - (a - 1) < MaxSessions)
  BY <1>1, RemaindersDiffer, LogAssumption DEF SlotOf
<1> QED
  BY <1>2, LogAssumption

LEMMA CellsFollow ==
  ASSUME NEW a \in Nat, NEW d \in Nat, CellOf(a) + d < RecCapacity
  PROVE  CellOf(a + d) = CellOf(a) + d
  BY RemaindersFollow, LogAssumption DEF CellOf

(* A batch lands on the cells of its own records, and on no cell of a      *)
(* record that is not yet RecCapacity behind the batch's end.              *)
LEMMA BatchLands ==
  ASSUME TypeOK, NEW n \in 0 .. BatchLen,
         ring' = [c \in Cells |->
                    IF c \in CellOf(total_abs) .. CellOf(total_abs) + n - 1
                      THEN stage[c - CellOf(total_abs) + 1] ELSE ring[c]]
  PROVE  /\ \A d \in 0 .. n - 1 : ring'[CellOf(total_abs + d)] = stage[d + 1]
         /\ \A a \in Nat : a < total_abs /\ a + RecCapacity >= total_abs + BatchLen
               => ring'[CellOf(a)] = ring[CellOf(a)]
<1>1. /\ total_abs \in Nat /\ CellOf(total_abs) \in 0 .. RecCapacity - 1
      /\ BatchLen \in Nat /\ CellOf(total_abs) + BatchLen <= RecCapacity
      /\ RecCapacity \in Nat \ {0} /\ n \in Nat /\ n <= BatchLen
  BY BatchLenBounds, CellOfBounds, LogAssumption DEF TypeOK, LogOK, Cells
<1>2. ASSUME NEW d \in 0 .. n - 1
      PROVE  ring'[CellOf(total_abs + d)] = stage[d + 1]
  <2>1. CellOf(total_abs + d) = CellOf(total_abs) + d
    BY <1>1, CellsFollow
  <2>2. CellOf(total_abs) + d \in Cells
    BY <1>1 DEF Cells
  <2>3. CellOf(total_abs) + d \in CellOf(total_abs) .. CellOf(total_abs) + n - 1
    BY <1>1
  <2>4. (CellOf(total_abs) + d) - CellOf(total_abs) + 1 = d + 1
    BY <1>1
  <2>5. PICK x : x = CellOf(total_abs) + d
    OBVIOUS
  <2>6. /\ x \in Cells
        /\ x \in CellOf(total_abs) .. CellOf(total_abs) + n - 1
    BY <2>2, <2>3, <2>5, Zenon
  <2>7. x - CellOf(total_abs) + 1 = d + 1
    BY <2>4, <2>5, Zenon
  <2>8. ring'[x] = stage[x - CellOf(total_abs) + 1]
    BY <2>6, Zenon
  <2>9. ring'[x] = stage[d + 1]
    BY <2>7, <2>8, Zenon
  <2> QED
    BY <2>1, <2>5, <2>9, Zenon
<1>3. ASSUME NEW a \in Nat, a < total_abs,
             a + RecCapacity >= total_abs + BatchLen
      PROVE  ring'[CellOf(a)] = ring[CellOf(a)]
  <2>1. CellOf(a) \in Cells
    BY CellOfBounds
  <2>2. ASSUME CellOf(a) \in CellOf(total_abs) .. CellOf(total_abs) + n - 1
        PROVE  FALSE
    <3> DEFINE d == CellOf(a) - CellOf(total_abs)
    <3>1. d \in 0 .. n - 1 /\ CellOf(a) = CellOf(total_abs) + d
      BY <1>1, <2>1, <2>2 DEF Cells
    <3> HIDE DEF d
    <3>2. CellOf(total_abs + d) = CellOf(total_abs) + d
      BY <1>1, <3>1, CellsFollow
    <3>3. /\ total_abs + d \in Nat /\ a < total_abs + d
          /\ (total_abs + d) - a < RecCapacity
      BY <1>1, <1>3, <3>1
    <3> QED
      BY <3>1, <3>2, <3>3, CellsDiffer
  <2> QED
    BY <2>1, <2>2
<1> QED
  BY <1>2, <1>3

-----------------------------------------------------------------------------
Intact == StoredIntact /\ RunningIntact

LEMMA IntactInit == Init => Intact
<1> SUFFICES ASSUME Init PROVE Intact
  OBVIOUS
<1>1. ~Live /\ meta # "ours"
  BY DEF Init, Live, Threads
<1> QED
  BY <1>1 DEF Intact, StoredIntact, RunningIntact

(* A step that leaves flash, the running session and the batch alone.      *)
LEMMA IntactSame ==
  ASSUME Intact,
         UNCHANGED <<meta, dir, ring, top, holes, cur_slot, cur_seq,
                     cur_start, total_abs, inflight>>,
         Live' = Live,
         \A d \in 0 .. inflight - 1 : stage'[d + 1] = stage[d + 1]
  PROVE  Intact'
  BY DEF Intact, StoredIntact, RunningIntact, LiveSlots, EndOf, CellOf

LEMMA IntactNext == IInv /\ [Next]_vars => Intact'
<1> SUFFICES ASSUME IInv, [Next]_vars PROVE Intact'
  OBVIOUS
<1> USE DEF flash, position, current, counts, session, staging, writer,
      callers, history
<1>0. /\ TypeOK /\ LockInv /\ BootInv /\ DirInv /\ CurrentInv /\ ClosedInv /\ TailInv
      /\ StageInv /\ StoredIntact /\ RunningIntact /\ Intact
      /\ FlashOK /\ LogOK /\ StageOK /\ ThreadsOK
  BY DEF IInv, TypeOK, Intact
<1>1. CASE PumpEnters
  <2>1. /\ UNCHANGED <<meta, dir, ring, top, holes, cur_slot, cur_seq,
                       cur_start, total_abs, inflight, stage>>
        /\ Live' = Live
    BY <1>1, <1>0 DEF PumpEnters, Live
  <2> QED
    BY <2>1, <1>0, IntactSame
<1>2. CASE PumpStages
  <2>1. /\ UNCHANGED <<meta, dir, ring, top, holes, cur_slot, cur_seq,
                       cur_start, total_abs, inflight>>
        /\ Live' = Live
    BY <1>2 DEF PumpStages, Live
  <2>2. stage' = stage \/ stage' = Append(stage, <<cur_seq, cur_count + Len(stage)>>)
    BY <1>2 DEF PumpStages
  <2>3. \A d \in 0 .. inflight - 1 : stage'[d + 1] = stage[d + 1]
    BY <1>0, <2>2 DEF StageOK
  <2> QED
    BY <1>0, <2>1, <2>3, IntactSame
<1>3. CASE PumpLeaves
  <2>1. /\ UNCHANGED <<meta, dir, ring, top, holes, cur_slot, cur_seq,
                       cur_start, total_abs, inflight, stage>>
        /\ Live' = Live
    BY <1>3, <1>0 DEF PumpLeaves, Live
  <2> QED
    BY <2>1, <1>0, IntactSame
<1>4. CASE WriterSees
  <2>1. /\ UNCHANGED <<meta, dir, ring, top, holes, cur_slot, cur_seq,
                       cur_start, total_abs, inflight, stage>>
        /\ Live' = Live
    BY <1>4, <1>0 DEF WriterSees, Live
  <2> QED
    BY <2>1, <1>0, IntactSame
<1>5. CASE WriterFindsNothing
  <2>1. /\ UNCHANGED <<meta, dir, ring, top, holes, cur_slot, cur_seq,
                       cur_start, total_abs, inflight, stage>>
        /\ Live' = Live
    BY <1>5, <1>0 DEF WriterFindsNothing, Live
  <2> QED
    BY <2>1, <1>0, IntactSame
<1>6. CASE WriterWrites
  <2>1. /\ UNCHANGED <<meta, dir, cur_slot, cur_seq, cur_start, total_abs, active, pc, stage>>
        /\ inflight' = BatchLen /\ lock = "free"
        /\ top' = IF total_abs + BatchLen > top THEN total_abs + BatchLen ELSE top
    BY <1>6 DEF WriterWrites
  <2>2. Live' = Live /\ boot = "up"
    BY <1>6, <1>0, <2>1 DEF Live, WriterWrites, BootInv
  <2>3. PICK n \in 0 .. BatchLen :
          /\ ring' = [c \in Cells |->
                  IF c \in CellOf(total_abs) .. CellOf(total_abs) + n - 1
                    THEN stage[c - CellOf(total_abs) + 1] ELSE ring[c]]
          /\ holes' = (holes \ (total_abs .. total_abs + n - 1))
                        \union (total_abs + n .. total_abs + BatchLen - 1)
    BY <1>6 DEF WriterWrites
  <2>4. /\ BatchLen \in Nat /\ top \in Nat /\ total_abs \in Nat
        /\ RecCapacity \in Nat /\ n \in Nat /\ n <= BatchLen
    BY <1>0, BatchLenBounds, LogAssumption DEF FlashOK, LogOK
  <2>5. /\ \A d \in 0 .. n - 1 : ring'[CellOf(total_abs + d)] = stage[d + 1]
        /\ \A a \in Nat : a < total_abs /\ a + RecCapacity >= total_abs + BatchLen
             => ring'[CellOf(a)] = ring[CellOf(a)]
    BY <1>0, <2>3, BatchLands
  <2>6. ASSUME NEW a \in Nat, a < total_abs, a \notin holes',
               a + RecCapacity >= top'
        PROVE  /\ a \notin holes /\ a + RecCapacity >= top
               /\ ring'[CellOf(a)] = ring[CellOf(a)]
    <3>1. a + RecCapacity >= top /\ a + RecCapacity >= total_abs + BatchLen
      BY <2>1, <2>4, <2>6
    <3>2. a \notin holes
      BY <2>3, <2>4, <2>6
    <3> QED
      BY <2>5, <2>6, <3>1, <3>2
  <2>7. StoredIntact'
    <3> SUFFICES ASSUME meta = "ours", NEW i \in LiveSlots,
                        ~(Live /\ i = cur_slot),
                        NEW a \in dir[i].start .. EndOf(dir[i]) - 1,
                        a \notin holes', a + RecCapacity >= top'
                 PROVE  ring'[CellOf(a)] = <<dir[i].seq, a - dir[i].start>>
      BY <2>1, <2>2 DEF StoredIntact, LiveSlots, EndOf, CellOf
    <3>1. a \in Nat /\ a < total_abs
      <4>1. EndOf(dir[i]) <= total_abs /\ EndOf(dir[i]) \in Nat /\ dir[i].start \in Nat
        BY <1>0, <2>2, EndsAreNat DEF DirInv, FlashOK, Entries, LiveSlots
      <4> QED
        BY <4>1, <1>0 DEF LogOK
    <3> QED
      BY <1>0, <2>6, <3>1 DEF StoredIntact
  <2>8. RunningIntact'
    <3> SUFFICES ASSUME Live
                 PROVE  /\ \A a \in cur_start .. total_abs - 1 :
                             a \notin holes' /\ a + RecCapacity >= top'
                               => ring'[CellOf(a)] = <<cur_seq, a - cur_start>>
                        /\ \A d \in 0 .. BatchLen - 1 :
                             total_abs + d \notin holes' =>
                             ring'[CellOf(total_abs + d)] = stage[d + 1]
      BY <2>1, <2>2 DEF RunningIntact, CellOf
    <3>1. ASSUME NEW a \in cur_start .. total_abs - 1, a \notin holes',
                 a + RecCapacity >= top'
          PROVE  ring'[CellOf(a)] = <<cur_seq, a - cur_start>>
      <4>1. a \in Nat /\ a < total_abs
        BY <1>0 DEF LogOK
      <4> QED
        BY <1>0, <2>6, <3>1, <4>1 DEF RunningIntact
    <3>2. ASSUME NEW d \in 0 .. BatchLen - 1, total_abs + d \notin holes'
          PROVE  d \in 0 .. n - 1
      BY <2>3, <2>4, <3>2
    <3> QED
      BY <2>5, <3>1, <3>2
  <2> QED
    BY <2>7, <2>8 DEF Intact
<1>7. CASE WriterCommits
  <2>1. /\ UNCHANGED <<meta, dir, ring, top, holes, cur_slot, cur_seq, cur_start, active, pc>>
        /\ total_abs' = total_abs + inflight /\ inflight' = 0 /\ wpc = "commit"
    BY <1>7 DEF WriterCommits
  <2>2. Live' = Live /\ (Live => active)
    BY <1>0, <2>1 DEF Live, LockInv, ThreadsOK, Threads
  <2>3. StoredIntact'
    BY <1>0, <2>1, <2>2 DEF StoredIntact, LiveSlots, EndOf, CellOf
  <2>4. RunningIntact'
    <3> SUFFICES ASSUME Live, NEW a \in cur_start .. (total_abs + inflight) - 1,
                        a \notin holes, a + RecCapacity >= top
                 PROVE  ring[CellOf(a)] = <<cur_seq, a - cur_start>>
      BY <2>1, <2>2 DEF RunningIntact, CellOf
    <3>1. total_abs = cur_start + cur_count
      BY <1>0 DEF CurrentInv
    <3>2. CASE a < total_abs
      <4>1. a \in cur_start .. total_abs - 1
        BY <1>0, <3>2 DEF LogOK, StageOK
      <4> QED
        BY <1>0, <4>1 DEF RunningIntact
    <3>3. CASE a >= total_abs
      <4> DEFINE d == a - total_abs
      <4>1. /\ d \in 0 .. inflight - 1 /\ a = total_abs + d
            /\ d + 1 \in 1 .. Len(stage)
            /\ cur_count + (d + 1) - 1 = a - cur_start
        BY <1>0, <3>1, <3>3 DEF LogOK, StageOK
      <4> HIDE DEF d
      <4>2. stage[d + 1] = <<cur_seq, cur_count + (d + 1) - 1>>
        BY <1>0, <2>2, <4>1 DEF StageInv
      <4>3. ring[CellOf(total_abs + d)] = stage[d + 1]
        BY <1>0, <4>1 DEF RunningIntact
      <4> QED
        BY <4>1, <4>2, <4>3
    <3> QED
      BY <1>0, <3>2, <3>3 DEF LogOK, StageOK
  <2> QED
    BY <2>3, <2>4 DEF Intact
<1>8. CASE WriterRefreshes
  <2>1. /\ UNCHANGED <<meta, ring, top, holes, cur_slot, cur_seq, cur_start,
                       total_abs, inflight, stage, boot>>
        /\ Live' = Live /\ DirRefreshCurrent(FALSE) /\ wpc = "refresh"
    BY <1>8 DEF WriterRefreshes, Live
  <2>2. CASE Live
    <3>1. LiveSlots' = LiveSlots /\ \A i \in LiveSlots : i # cur_slot => dir'[i] = dir[i]
      BY <1>0, <2>1, <2>2, RefreshedDir DEF LiveSlots
    <3> QED
      BY <1>0, <2>1, <2>2, <3>1 DEF Intact, StoredIntact, RunningIntact, EndOf, CellOf
  <2>3. CASE ~Live
    <3>1. LiveSlots = {}
      BY <1>0, <2>1, <2>3 DEF ClosedInv, BootInv, LogOK
    <3>2. UNCHANGED dir
      BY <1>0, <2>1, <3>1 DEF DirRefreshCurrent, LiveSlots, LogOK
    <3> QED
      BY <1>0, <2>1, <3>2, IntactSame
  <2> QED
    BY <2>2, <2>3
<1>9. ASSUME NEW i \in Slots, WriterInvalidates(i) PROVE Intact'
  <2>1. /\ UNCHANGED <<meta, ring, top, holes, cur_slot, cur_seq, cur_start,
                       total_abs, inflight, stage>>
        /\ dir' = [dir EXCEPT ![i] = NoEntry] /\ Live' = Live
    BY <1>9 DEF WriterInvalidates, Live
  <2>2. \A j \in LiveSlots' : j \in LiveSlots /\ dir'[j] = dir[j]
    BY <1>0, <2>1 DEF FlashOK, LiveSlots, NoEntry
  <2> QED
    BY <1>0, <2>1, <2>2 DEF Intact, StoredIntact, RunningIntact, EndOf, CellOf
<1>10. CASE WriterFinishes
  <2>1. /\ UNCHANGED <<meta, dir, ring, top, holes, cur_slot, cur_seq,
                       cur_start, total_abs, inflight, stage>>
        /\ Live' = Live
    BY <1>10, <1>0 DEF WriterFinishes, Live
  <2> QED
    BY <2>1, <1>0, IntactSame
<1>11. CASE StartRefused
  <2>1. /\ UNCHANGED <<meta, dir, ring, top, holes, cur_slot, cur_seq,
                       cur_start, total_abs, inflight, stage>>
        /\ Live' = Live
    BY <1>11, <1>0 DEF StartRefused, Live, vars
  <2> QED
    BY <2>1, <1>0, IntactSame
<1>12. ASSUME NEW o \in {"start", "detached"}, StartOpens(o)
      PROVE  Intact'
  <2>1. UNCHANGED <<meta, dir, ring, top, holes>> /\ ~Live /\ ~Live'
    BY <1>12, <1>0 DEF StartOpens, Live, LockInv, ThreadsOK, Threads
  <2> QED
    BY <1>0, <2>1 DEF Intact, StoredIntact, RunningIntact, LiveSlots, EndOf, CellOf
<1>13. CASE StartWritesEntry
  <2>1. /\ UNCHANGED <<meta, ring, top, holes, cur_slot, cur_seq, cur_start,
                       total_abs, inflight, stage, cur_count>>
        /\ dir' = [dir EXCEPT ![cur_slot] = NewEntry] /\ ~Live /\ Live' /\ lock = "cmd"
        /\ pc["cmd"] = "entry"
    BY <1>13, <1>0 DEF StartWritesEntry, Live, LockInv, ThreadsOK, Threads
  <2>2. \A i \in LiveSlots' : i # cur_slot => i \in LiveSlots /\ dir'[i] = dir[i]
    BY <1>0, <2>1 DEF FlashOK, LogOK, LiveSlots
  <2>3. StoredIntact'
    BY <1>0, <2>1, <2>2 DEF StoredIntact, EndOf, CellOf
  <2>4. total_abs = cur_start /\ inflight = 0
    BY <1>0, <2>1 DEF CurrentInv, LockInv, StageOK, LogOK
  <2>5. cur_start .. cur_start - 1 = {} /\ 0 .. 0 - 1 = {}
    BY <1>0 DEF LogOK
  <2>6. RunningIntact'
    BY <2>1, <2>4, <2>5 DEF RunningIntact
  <2> QED
    BY <2>3, <2>6 DEF Intact
<1>14. CASE StartFails
  <2>1. /\ UNCHANGED <<meta, dir, ring, top, holes, cur_slot, cur_seq,
                       cur_start, total_abs, inflight, stage>>
        /\ Live' = Live
    BY <1>14, <1>0 DEF StartFails, Live, Return, ThreadsOK, Threads
  <2> QED
    BY <2>1, <1>0, IntactSame
<1>15. CASE MarkDetached
  <2>1. /\ UNCHANGED <<meta, dir, ring, top, holes, cur_slot, cur_seq,
                       cur_start, total_abs, inflight, stage>>
        /\ Live' = Live
    BY <1>15, <1>0 DEF MarkDetached, Live, Return, ThreadsOK, Threads
  <2> QED
    BY <2>1, <1>0, IntactSame
<1>16. CASE EraseCalled
  <2>1. /\ UNCHANGED <<meta, dir, ring, top, holes, cur_slot, cur_seq,
                       cur_start, total_abs, inflight, stage>>
        /\ Live' = Live
    BY <1>16, <1>0 DEF EraseCalled, Live, ThreadsOK, Threads
  <2> QED
    BY <2>1, <1>0, IntactSame
<1>17. CASE EraseWipes
  <2>1. meta' = "blank" /\ ~Live'
    BY <1>17, <1>0 DEF EraseWipes, DirWipe, Live, LockInv, ThreadsOK, Threads
  <2> QED
    BY <2>1 DEF Intact, StoredIntact, RunningIntact
<1>18. CASE EraseStamps
  <2>1. LiveSlots' = {} /\ ~Live'
    BY <1>18, <1>0 DEF EraseStamps, DirStamp, Return, Live, LockInv, BootInv,
       LiveSlots, ThreadsOK, Threads
  <2> QED
    BY <2>1 DEF Intact, StoredIntact, RunningIntact
<1>19. CASE Crash
  <2>1. UNCHANGED <<meta, dir, ring, top, holes>> /\ ~Live'
    BY <1>19 DEF Crash, Live, Threads
  <2>2. StoredIntact'
    <3> SUFFICES ASSUME meta = "ours", NEW i \in LiveSlots,
                        NEW a \in dir[i].start .. EndOf(dir[i]) - 1,
                        a \notin holes, a + RecCapacity >= top
                 PROVE  ring[CellOf(a)] = <<dir[i].seq, a - dir[i].start>>
      BY <2>1 DEF StoredIntact, LiveSlots, EndOf, CellOf
    <3>1. CASE Live /\ i = cur_slot
      <4>1. /\ dir[i].seq = cur_seq /\ dir[i].start = cur_start
            /\ EndOf(dir[i]) = cur_start + last_dir_refresh
            /\ last_dir_refresh <= cur_count /\ total_abs = cur_start + cur_count
        BY <1>0, <3>1, RunningEnd DEF CurrentInv
      <4>2. a \in cur_start .. total_abs - 1
        BY <1>0, <4>1 DEF LogOK
      <4> QED
        BY <1>0, <3>1, <4>1, <4>2 DEF RunningIntact
    <3>2. CASE ~(Live /\ i = cur_slot)
      BY <1>0, <3>2 DEF StoredIntact
    <3> QED
      BY <3>1, <3>2
  <2> QED
    BY <2>1, <2>2 DEF Intact, RunningIntact
<1>20. CASE FirmwareUpdated
  <2>1. meta' = "foreign" /\ ~Live'
    BY <1>20, <1>0 DEF FirmwareUpdated, Live, BootInv, Threads
  <2> QED
    BY <2>1 DEF Intact, StoredIntact, RunningIntact
<1>21. CASE BootWipes
  <2>1. meta' = "blank" /\ ~Live'
    BY <1>21, <1>0 DEF BootWipes, DirWipe, Live, BootInv, Threads
  <2> QED
    BY <2>1 DEF Intact, StoredIntact, RunningIntact
<1>22. CASE BootStamps
  <2>1. LiveSlots' = {} /\ ~Live'
    BY <1>22, <1>0 DEF BootStamps, DirStamp, Live, BootInv, LiveSlots, Threads
  <2> QED
    BY <2>1 DEF Intact, StoredIntact, RunningIntact
<1>23. CASE BootRecovers
  <2>1. /\ UNCHANGED <<meta, ring, top, holes>> /\ ~Live /\ ~Live'
        /\ dir' = [i \in Slots |-> [dir[i] EXCEPT !.open = FALSE]]
    BY <1>23, <1>0 DEF BootRecovers, Live, BootInv, Threads
  <2>2. /\ LiveSlots' = LiveSlots
        /\ \A i \in LiveSlots : /\ dir'[i].seq = dir[i].seq
                                /\ dir'[i].start = dir[i].start
                                /\ EndOf(dir'[i]) = EndOf(dir[i])
    BY <2>1, <1>0 DEF FlashOK, Entries, LiveSlots, EndOf
  <2> QED
    BY <1>0, <2>1, <2>2 DEF Intact, StoredIntact, RunningIntact, CellOf
<1>24. ASSUME NEW t \in Threads, StopCalled(t) PROVE Intact'
  <2>1. /\ UNCHANGED <<meta, dir, ring, top, holes, cur_slot, cur_seq,
                       cur_start, total_abs, inflight, stage>>
        /\ Live' = Live
    BY <1>24, <1>0 DEF StopCalled, Live, ThreadsOK, Threads
  <2> QED
    BY <2>1, <1>0, IntactSame
<1>25. ASSUME NEW t \in Threads, FlushEnds(t) PROVE Intact'
  <2>1. /\ UNCHANGED <<meta, dir, ring, top, holes, cur_slot, cur_seq,
                       cur_start, total_abs, inflight, stage>>
        /\ Live' = Live
    BY <1>25, <1>0 DEF FlushEnds, Live, ThreadsOK, Threads
  <2> QED
    BY <2>1, <1>0, IntactSame
<1>26. ASSUME NEW t \in Threads, StopDeactivates(t) PROVE Intact'
  <2>1. /\ UNCHANGED <<meta, dir, ring, top, holes, cur_slot, cur_seq,
                       cur_start, total_abs, inflight, stage>>
        /\ Live' = Live
    BY <1>26, <1>0 DEF StopDeactivates, Live, ThreadsOK, Threads
  <2> QED
    BY <2>1, <1>0, IntactSame
<1>27. ASSUME NEW t \in Threads, StopFindsInactive(t) PROVE Intact'
  <2>1. /\ UNCHANGED <<meta, dir, ring, top, holes, cur_slot, cur_seq,
                       cur_start, total_abs, inflight, stage>>
        /\ Live' = Live
    BY <1>27, <1>0 DEF StopFindsInactive, Live, StopReturns, Return, ThreadsOK, Threads
  <2> QED
    BY <2>1, <1>0, IntactSame
<1>28. ASSUME NEW t \in Threads, StopCloses(t) PROVE Intact'
  <2>1. /\ UNCHANGED <<meta, ring, top, holes, cur_slot, cur_seq, cur_start, total_abs>>
        /\ DirRefreshCurrent(TRUE) /\ Live /\ ~Live'
    BY <1>28, <1>0 DEF StopCloses, StopReturns, Return, Live, LockInv, ThreadsOK, Threads
  <2>2. /\ LiveSlots' = LiveSlots
        /\ \A i \in LiveSlots : i # cur_slot => dir'[i] = dir[i]
        /\ dir'[cur_slot].seq = cur_seq /\ dir'[cur_slot].start = cur_start
        /\ EndOf(dir'[cur_slot]) = total_abs
    BY <1>0, <2>1, RefreshedDir DEF LiveSlots, CurrentInv, LogOK
  <2>3. StoredIntact'
    <3> SUFFICES ASSUME meta = "ours", NEW i \in LiveSlots,
                        NEW a \in dir'[i].start .. EndOf(dir'[i]) - 1,
                        a \notin holes, a + RecCapacity >= top
                 PROVE  ring[CellOf(a)] = <<dir'[i].seq, a - dir'[i].start>>
      BY <2>1, <2>2 DEF StoredIntact, EndOf, CellOf
    <3>1. CASE i = cur_slot
      BY <1>0, <2>1, <2>2, <3>1 DEF RunningIntact
    <3>2. CASE i # cur_slot
      BY <1>0, <2>2, <3>2 DEF StoredIntact
    <3> QED
      BY <3>1, <3>2
  <2> QED
    BY <2>1, <2>3 DEF Intact, RunningIntact
<1>29. CASE UNCHANGED vars
  <2>1. /\ UNCHANGED <<meta, dir, ring, top, holes, cur_slot, cur_seq,
                       cur_start, total_abs, inflight, stage>>
        /\ Live' = Live
    BY <1>29, <1>0 DEF vars, Live
  <2> QED
    BY <2>1, <1>0, IntactSame
<1> QED
  BY <1>1, <1>2, <1>3, <1>4, <1>5, <1>6, <1>7, <1>8, <1>9, <1>10, <1>11,
     <1>12, <1>13, <1>14, <1>15, <1>16, <1>17, <1>18, <1>19, <1>20, <1>21,
     <1>22, <1>23, <1>24, <1>25, <1>26, <1>27, <1>28, <1>29 DEF Next, Pump,
     Writer, Start, Erase, Reset, Stop


-----------------------------------------------------------------------------
(* The invariant is inductive.                                             *)
THEOREM Inductive == Spec => []IInv
<1>1. Init => IInv
  BY TypeInit, LockInit, BootInit, DirInit, CurrentInit, ClosedInit, TailInit,
     OpenInit, StageInit, IntactInit DEF IInv, Intact
<1>2. IInv /\ [Next]_vars => IInv'
  <2> SUFFICES ASSUME IInv, [Next]_vars PROVE IInv'
    OBVIOUS
  <2>1. /\ TypeOK /\ LockInv /\ BootInv /\ DirInv /\ CurrentInv /\ ClosedInv
        /\ OpenInv /\ StageInv
    BY DEF IInv
  <2>2. TypeOK' /\ LockInv' /\ BootInv'
    BY <2>1, TypeNext, LockNext, BootNext
  <2>3. DirInv' /\ CurrentInv' /\ ClosedInv' /\ OpenInv' /\ StageInv'
    BY <2>1, DirNext, CurrentNext, ClosedNext, OpenNext, StageNext
  <2>4. TailInv' /\ Intact'
    BY <2>3, TailNext, IntactNext
  <2> QED
    BY <2>2, <2>3, <2>4 DEF IInv, Intact
<1> QED
  BY <1>1, <1>2, PTL DEF Spec

-----------------------------------------------------------------------------
(* What every behaviour of the log keeps, for every ring, stage and batch  *)
(* size, any number of sessions and any number of resets.                  *)

(* The staging ring never overruns and no write exceeds a batch, whatever  *)
(* imu_log_append, the writer, start, stop and erase interleave.           *)
THEOREM TypeCorrect == Spec => []TypeOK
<1>1. IInv => TypeOK
  BY DEF IInv
<1> QED
  BY <1>1, Inductive, PTL

(* The directory entries of imu_log_start, as later refreshed, recovered   *)
(* and closed, never claim a record twice.                                 *)
THEOREM SessionsStayDisjoint == Spec => []SessionsDisjoint
<1>1. IInv => SessionsDisjoint
  BY DEF IInv, DirInv, SessionsDisjoint
<1> QED
  BY <1>1, Inductive, PTL

(* A batch the writer commits after imu_log_stop closed the entry never    *)
(* makes dir_refresh_current reopen it, because BATCH_RECS is below        *)
(* DIR_REFRESH_RECS.                                                       *)
THEOREM ClosedStaysClosed == Spec => []OnlyRunningOpen
<1>1. IInv => OnlyRunningOpen
  BY DEF IInv, OpenInv
<1> QED
  BY <1>1, Inductive, PTL

(* Between two directory refreshes flash runs at most MaxLag records ahead *)
(* of the running session's entry, and that entry is never invalidated.    *)
THEOREM AccountingStaysBounded == Spec => []AccountingBounded
<1>1. IInv => AccountingBounded
  <2> SUFFICES ASSUME IInv, active PROVE AccountingBounded
    BY DEF AccountingBounded
  <2>1. /\ Live /\ TypeOK /\ LockInv /\ CurrentInv
        /\ LogOK /\ StageOK
    BY DEF IInv, Live, TypeOK
  <2>2. /\ dir[cur_slot].valid
        /\ dir[cur_slot].seq = cur_seq /\ dir[cur_slot].start = cur_start
        /\ dir[cur_slot].count = last_dir_refresh
    BY <2>1 DEF CurrentInv
  <2>3. CASE wpc = "refresh"
    <3>1. inflight = 0
      <4>1. ~(inflight > 0) /\ inflight \in Nat
        BY <2>1, <2>3, LogAssumption DEF LockInv, StageOK
      <4> QED
        BY <4>1
    <3>2. cur_count <= last_dir_refresh + MaxLag /\ cur_count \in Nat
      BY <2>1 DEF CurrentInv, LogOK
    <3>3. cur_count + inflight <= last_dir_refresh + MaxLag
      BY <3>1, <3>2
    <3> QED
      BY <2>2, <3>3 DEF AccountingBounded
  <2>4. CASE wpc # "refresh"
    <3>1. cur_count < last_dir_refresh + DirRefreshRecs
      BY <2>1, <2>4 DEF CurrentInv
    <3>2. /\ cur_count \in Nat /\ last_dir_refresh \in Nat
          /\ inflight \in 0 .. BatchRecs
      BY <2>1 DEF LogOK, StageOK
    <3>3. cur_count + inflight <= last_dir_refresh + MaxLag
      BY <3>1, <3>2, LogAssumption DEF MaxLag
    <3> QED
      BY <2>2, <3>3 DEF AccountingBounded
  <2> QED
    BY <2>3, <2>4
<1> QED
  BY <1>1, Inductive, PTL

(* imu_log_init puts the write position at most MaxLag records behind the  *)
(* last record in flash, after any number of resets.                       *)
THEOREM PositionStaysBounded == Spec => []PositionBounded
<1>1. IInv => PositionBounded
  BY DEF IInv, TailInv, PositionBounded
<1> QED
  BY <1>1, Inductive, PTL

(* What a reset can take is bounded: the accounting by the refresh of the  *)
(* directory (dir_entry_refresh), the position by what imu_log_init        *)
(* recovers from it.                                                       *)
THEOREM LossStaysBounded == Spec => []LossBounded
  BY AccountingStaysBounded, PositionStaysBounded, PTL DEF LossBounded

LEMMA IInvSurvivors == IInv => SurvivorsIntact
<1> SUFFICES ASSUME IInv, meta = "ours", NEW i \in LiveSlots,
                    NEW a \in dir[i].start .. SeenEnd(i) - 1,
                    a \notin holes, a + RecCapacity >= top
             PROVE  ring[CellOf(a)] = <<dir[i].seq, a - dir[i].start>>
  BY DEF SurvivorsIntact
<1>1. /\ FlashOK /\ LogOK /\ CurrentInv /\ StoredIntact /\ RunningIntact
  BY DEF IInv, TypeOK
<1>2. CASE Live /\ i = cur_slot
  <2>1. /\ dir[i].seq = cur_seq /\ dir[i].start = cur_start
        /\ dir[i].count = last_dir_refresh /\ last_dir_refresh <= cur_count
        /\ total_abs = cur_start + cur_count
    BY <1>1, <1>2 DEF CurrentInv
  <2>2. SeenEnd(i) = cur_start + cur_count \/ SeenEnd(i) = cur_start + last_dir_refresh
    BY <2>1 DEF SeenEnd
  <2>3. a \in cur_start .. total_abs - 1
    BY <1>1, <2>1, <2>2 DEF LogOK
  <2> QED
    BY <1>1, <1>2, <2>1, <2>3 DEF RunningIntact
<1>3. CASE ~(Live /\ i = cur_slot)
  <2>1. SeenEnd(i) = EndOf(dir[i])
    BY <1>3 DEF SeenEnd, EndOf, Live
  <2> QED
    BY <1>1, <1>3, <2>1 DEF StoredIntact
<1> QED
  BY <1>2, <1>3

(* No interleaving of sessions, refused starts, erases and resets lets the *)
(* writer store a record where another session's surviving record is.      *)
THEOREM SurvivorsStayIntact == Spec => []SurvivorsIntact
<1> QED
  BY IInvSurvivors, Inductive, PTL

(* Until the first reset, imu_log_session_list promises only records that  *)
(* imu_log_read_session then returns, each the right session's: the place  *)
(* it computes is the writer's as long as the session fits 32-bit bytes.   *)
THEOREM ListTruthfulUntilReset == Spec => [](crashes = 0 => ListTruthful)
<1>1. IInv => (crashes = 0 => ListTruthful)
  <2> SUFFICES ASSUME IInv, crashes = 0, lock = "free", boot = "up",
                      NEW i \in Listed, NEW k \in 0 .. ReadableCount(i) - 1,
                      Addressable(i), ReadStart(i) + k \notin holes
               PROVE  ReadRecord(i, k) = <<dir[i].seq, ReadStart(i) - dir[i].start + k>>
    BY DEF ListTruthful
  <2>1. /\ FlashOK /\ LogOK /\ StageOK /\ LockInv /\ BootInv /\ TailInv
        /\ SurvivorsIntact
    BY IInvSurvivors DEF IInv, TypeOK
  <2>2. meta = "ours" /\ inflight = 0
    <3>1. pc["cmd"] # "stamp" /\ ~(inflight > 0)
      BY <2>1 DEF LockInv
    <3>2. inflight \in Nat
      BY <2>1, LogAssumption DEF StageOK
    <3> QED
      BY <2>1, <3>1, <3>2 DEF BootInv
  <2>3. total_abs \in Nat /\ top = total_abs
    BY <2>1, <2>2 DEF TailInv, LogOK
  <2>4. i \in Slots /\ i \in LiveSlots
    BY DEF Listed, LiveSlots
  <2>5. dir[i].start \in Nat /\ dir[i].count \in Nat /\ cur_count \in Nat
    BY <2>1, <2>4 DEF FlashOK, Entries, LogOK
  <2>6. SeenEnd(i) \in Nat
    BY <2>5 DEF SeenEnd
  <2>7. RingFloor \in Nat /\ RingFloor + RecCapacity >= total_abs
    BY <2>3, LogAssumption DEF RingFloor
  <2>8. ReadStart(i) \in Nat /\ ReadStart(i) >= dir[i].start /\ ReadStart(i) >= RingFloor
    BY <2>5, <2>7 DEF ReadStart
  <2> DEFINE a == ReadStart(i) + k
  <2>9. /\ a \in dir[i].start .. SeenEnd(i) - 1
        /\ a + RecCapacity >= total_abs
        /\ a - dir[i].start = ReadStart(i) - dir[i].start + k
        /\ a \notin holes
    BY <2>3, <2>5, <2>6, <2>7, <2>8, LogAssumption DEF ReadableCount
  <2>10. ring[CellOf(a)] = <<dir[i].seq, a - dir[i].start>>
    <3> HIDE DEF a
    <3> QED
      BY <2>1, <2>2, <2>3, <2>4, <2>9 DEF SurvivorsIntact
  <2>11. a * RecSize < Word
    <3>1. a + 1 <= SeenEnd(i) /\ a \in Nat
      BY <2>5, <2>6, <2>9
    <3> HIDE DEF a
    <3>2. (a + 1) * RecSize <= SeenEnd(i) * RecSize
      <4>1. PICK e \in Nat : e = SeenEnd(i)
        BY <2>6
      <4>2. e - (a + 1) \in Nat /\ RecSize \in Nat \ {0}
        BY <3>1, <4>1, AddressAssumption
      <4>3. (e - (a + 1)) * RecSize \in Nat
        BY <4>2
      <4>4. (e - (a + 1)) * RecSize = e * RecSize - (a + 1) * RecSize
        BY <3>1, <4>1, <4>2
      <4>5. e * RecSize \in Nat /\ (a + 1) * RecSize \in Nat
        BY <3>1, <4>1, <4>2
      <4> QED
        BY <4>1, <4>3, <4>4, <4>5
    <3>3. (a + 1) * RecSize = a * RecSize + RecSize
      BY <3>1, AddressAssumption
    <3>4. PICK e \in Nat : e = SeenEnd(i)
      BY <2>6
    <3>5. e * RecSize <= Word /\ e * RecSize \in Nat /\ a * RecSize \in Nat
      BY <3>1, <3>4, AddressAssumption DEF Addressable
    <3> QED
      BY <3>2, <3>3, <3>4, <3>5, AddressAssumption
  <2>12. ReadRecord(i, k) = ring[CellOf(a)]
    BY <2>8, <2>11, ReaderFindsCell
  <2> QED
    BY <2>9, <2>10, <2>12
<1> QED
  BY <1>1, Inductive, PTL

-----------------------------------------------------------------------------
(* dir_refresh_current, running or late, drops no entry.                   *)
LEMMA RefreshDropsNothing ==
  ASSUME FlashOK, NEW closing \in BOOLEAN, DirRefreshCurrent(closing),
         NEW i \in LiveSlots
  PROVE  Justified(i)
  BY DEF FlashOK, Entries, LiveSlots, DirRefreshCurrent, Justified

LEMMA StepJustified ==
  ASSUME IInv, Next, NEW i \in LiveSlots
  PROVE  Justified(i)
<1> USE DEF flash, position, current, counts, session, staging, writer,
      callers, history
<1>0. /\ FlashOK /\ LogOK /\ LockInv /\ BootInv /\ DirInv /\ CurrentInv /\ TailInv
      /\ i \in Slots /\ dir[i].valid
  BY DEF IInv, TypeOK, LiveSlots
<1>1. CASE dir' = dir
  BY <1>0, <1>1 DEF Justified
<1>2. CASE WriterRefreshes
  <2>1. DirRefreshCurrent(FALSE)
    BY <1>2 DEF WriterRefreshes
  <2> QED
    BY <1>0, <2>1, RefreshDropsNothing
<1>3. CASE \E t \in Threads : StopCloses(t)
  <2>1. DirRefreshCurrent(TRUE)
    BY <1>3 DEF StopCloses
  <2> QED
    BY <1>0, <2>1, RefreshDropsNothing
<1>4. ASSUME NEW j \in Slots, WriterInvalidates(j)
      PROVE  Justified(i)
  <2>1. /\ wpc = "invalidate" /\ Consumed(j)
        /\ dir' = [dir EXCEPT ![j] = NoEntry]
    BY <1>4 DEF WriterInvalidates
  <2>2. CASE i # j
    BY <1>0, <2>1, <2>2 DEF Justified, FlashOK
  <2>3. CASE i = j
    <3>1. ~(active /\ i = cur_slot) /\ dir[i].start < RingFloor
      BY <2>1, <2>3 DEF Consumed
    <3>2. boot = "up"
      BY <1>0, <2>1 DEF BootInv
    <3>3. /\ total_abs + inflight <= top /\ inflight \in Nat /\ top \in Nat
          /\ total_abs \in Nat /\ dir[i].start \in Nat
      <4>1. inflight \in Nat
        BY LogAssumption DEF IInv, TypeOK, StageOK
      <4>2. top \in Nat /\ total_abs \in Nat /\ dir[i].start \in Nat
        BY <1>0 DEF FlashOK, LogOK, Entries
      <4>3. total_abs + inflight <= top
        BY <1>0, <3>2 DEF TailInv
      <4> QED
        BY <4>1, <4>2, <4>3
    <3>4. dir[i].start + RecCapacity < top
      BY <3>1, <3>3, LogAssumption DEF RingFloor
    <3> QED
      BY <3>1, <3>4 DEF Justified
  <2> QED
    BY <2>2, <2>3
<1>5. CASE StartWritesEntry
  <2>1. pc["cmd"] = "entry" /\ dir' = [dir EXCEPT ![cur_slot] = NewEntry]
    BY <1>5 DEF StartWritesEntry
  <2>2. CASE i # cur_slot
    BY <1>0, <2>1, <2>2 DEF Justified, FlashOK
  <2>3. CASE i = cur_slot
    <3>1. dir'[i] = NewEntry
      BY <1>0, <2>1, <2>3 DEF FlashOK, LogOK
    <3>2. meta = "ours" /\ boot = "up" /\ ~active
      BY <1>0, <2>1 DEF BootInv, LockInv, Threads
    <3>3. dir[i].seq < cur_seq
      BY <1>0, <2>1, <3>2 DEF DirInv
    <3>4. dir'[i].valid /\ dir'[i].seq = cur_seq
      BY <3>1 DEF NewEntry
    <3>5. dir'[i].seq > dir[i].seq
      <4>1. cur_seq \in Nat /\ dir[i].seq \in Nat
        BY <1>0 DEF FlashOK, LogOK, Entries
      <4> QED
        BY <3>3, <3>4, <4>1
    <3> QED
      BY <3>2, <3>4, <3>5 DEF Justified
  <2> QED
    BY <2>2, <2>3
<1>6. CASE EraseWipes
  BY <1>6 DEF EraseWipes, DirWipe, Justified
<1>7. CASE BootWipes
  BY <1>7 DEF BootWipes, DirWipe, Justified
<1>8. CASE BootRecovers
  <2>1. dir' = [j \in Slots |-> [dir[j] EXCEPT !.open = FALSE]]
    BY <1>8 DEF BootRecovers
  <2>2. dir'[i].valid = dir[i].valid /\ dir'[i].seq = dir[i].seq
    BY <1>0, <2>1 DEF FlashOK, Entries
  <2> QED
    BY <1>0, <2>2 DEF Justified
<1> QED
  <2>1. \/ dir' = dir \/ WriterRefreshes \/ StartWritesEntry \/ EraseWipes
        \/ BootWipes \/ BootRecovers \/ \E t \in Threads : StopCloses(t)
        \/ \E j \in Slots : WriterInvalidates(j)
    <3>1. CASE Pump
      BY <3>1 DEF Pump, PumpEnters, PumpStages, PumpLeaves
    <3>2. CASE Writer
      BY <3>2 DEF Writer, WriterSees, WriterFindsNothing, WriterWrites,
                  WriterCommits, WriterFinishes
    <3>3. CASE Start
      BY <3>3 DEF Start, StartRefused, StartOpens, StartFails, MarkDetached, vars
    <3>4. CASE Erase
      BY <3>4 DEF Erase, EraseCalled, EraseStamps, DirStamp
    <3>5. CASE Reset
      BY <3>5 DEF Reset, Crash, FirmwareUpdated, BootStamps, DirStamp
    <3>6. ASSUME NEW t \in Threads, Stop(t)
          PROVE  dir' = dir \/ StopCloses(t)
      BY <3>6 DEF Stop, StopCalled, FlushEnds, StopDeactivates, StopFindsInactive
    <3> QED
      BY <3>1, <3>2, <3>3, <3>4, <3>5, <3>6 DEF Next
  <2> QED
    BY <1>1, <1>2, <1>3, <1>4, <1>5, <1>6, <1>7, <1>8, <2>1

(* invalidate_consumed drops a session only once a physical write has      *)
(* replaced its first record, and never the running one; imu_log_start     *)
(* replaces a slot only by a newer session and never under a running one.  *)
THEOREM DropsAreJustified == Spec => DropJustified
<1>1. IInv /\ [Next]_vars => [\A i \in LiveSlots : Justified(i)]_vars
  BY StepJustified
<1> QED
  BY <1>1, Inductive, PTL DEF Spec, DropJustified

-----------------------------------------------------------------------------
(* The refinement of SessionCatalogue.                                     *)

(* A name in the directory determines its slot.                            *)
LEMMA NamesAndSlots ==
  ASSUME IInv
  PROVE  /\ \A s \in Named : /\ s \in Nat \ {0}
                             /\ SlotOf(s) \in LiveSlots
                             /\ dir[SlotOf(s)].seq = s
         /\ \A i \in LiveSlots : Counted(i) \in Nat
         /\ Live => cur_seq \in Named /\ SlotOf(cur_seq) = cur_slot
         /\ Live => boot = "up" /\ meta = "ours"
<1>1. /\ FlashOK /\ LogOK /\ LockInv /\ BootInv /\ DirInv /\ CurrentInv
  BY DEF IInv, TypeOK
<1>2. Live => boot = "up"
  BY <1>1 DEF BootInv, Live
<1>3. Live => meta = "ours"
  BY <1>1, <1>2 DEF BootInv, LockInv, Live, Threads
<1>4. \A s \in Named : /\ s \in Nat \ {0}
                       /\ SlotOf(s) \in LiveSlots
                       /\ dir[SlotOf(s)].seq = s
  <2> SUFFICES ASSUME NEW s \in Named
               PROVE  s \in Nat \ {0} /\ SlotOf(s) \in LiveSlots
                      /\ dir[SlotOf(s)].seq = s
    OBVIOUS
  <2>1. meta = "ours"
    BY DEF Named
  <2>2. PICK i \in LiveSlots : s = dir[i].seq
    BY <2>1 DEF Named
  <2>3. SlotOf(s) = i /\ dir[i].seq > 0
    BY <1>1, <2>1, <2>2 DEF DirInv
  <2>4. dir[i].seq \in Nat
    BY <1>1 DEF FlashOK, Entries, LiveSlots
  <2> QED
    BY <2>2, <2>3, <2>4
<1>5. \A i \in LiveSlots : Counted(i) \in Nat
  BY <1>1 DEF Counted, FlashOK, LogOK, Entries, LiveSlots
<1>6. Live => cur_slot \in LiveSlots /\ dir[cur_slot].seq = cur_seq
              /\ SlotOf(cur_seq) = cur_slot
  BY <1>1 DEF CurrentInv, LogOK, LiveSlots
<1>7. Live => cur_seq \in Named
  BY <1>3, <1>6 DEF Named
<1> QED
  BY <1>2, <1>3, <1>4, <1>5, <1>6, <1>7

(* A step that renames no session and recounts none is a stutter.          *)
LEMMA PresentedSame ==
  ASSUME IInv, Named' = Named, Recording' = Recording,
         \A i \in LiveSlots : Counted(i)' = Counted(i)
  PROVE  UNCHANGED Catalogue!shown
<1>1. \A s \in Named : Counted(SlotOf(s))' = Counted(SlotOf(s))
  BY NamesAndSlots DEF SlotOf
<1>2. Presented' = Presented
  BY <1>1 DEF Presented, SlotOf
<1> QED
  BY <1>2 DEF Catalogue!shown

(* Most steps touch neither flash's directory nor the session variables.   *)
LEMMA QuietSame ==
  ASSUME IInv, UNCHANGED <<meta, dir, cur_seq, cur_slot, cur_count>>,
         Live' = Live
  PROVE  UNCHANGED Catalogue!shown
<1>1. Named' = Named /\ Recording' = Recording
  BY DEF Named, LiveSlots, Recording
<1>2. \A i \in LiveSlots : Counted(i)' = Counted(i)
  BY DEF Counted
<1> QED
  BY <1>1, <1>2, PresentedSame

(* With no session running, only the directory matters, and an entry's     *)
(* open flag does not.                                                     *)
LEMMA IdleSame ==
  ASSUME IInv, ~Live, ~Live', Named' = Named,
         \A i \in LiveSlots : dir'[i].count = dir[i].count
  PROVE  UNCHANGED Catalogue!shown
<1>1. Recording' = Recording
  BY DEF Recording
<1>2. \A i \in LiveSlots : Counted(i)' = Counted(i)
  BY DEF Counted
<1> QED
  BY <1>1, <1>2, PresentedSame

(* dir_refresh_current of the running session saves a count that is        *)
(* already presented.                                                      *)
LEMMA RefreshPresents ==
  ASSUME IInv, Live, NEW closing \in BOOLEAN, DirRefreshCurrent(closing),
         UNCHANGED <<meta, cur_seq, cur_slot, cur_count>>
  PROVE  /\ Named' = Named
         /\ \A i \in LiveSlots : Counted(i)' = Counted(i)
<1>1. /\ LiveSlots' = LiveSlots
      /\ \A i \in Slots : /\ dir'[i].seq = dir[i].seq
                          /\ i # cur_slot => dir'[i] = dir[i]
      /\ dir'[cur_slot].count = cur_count
  BY RefreshedDir DEF IInv
<1>2. Named' = Named
  BY <1>1 DEF Named, LiveSlots
<1>3. \A i \in LiveSlots : Counted(i)' = Counted(i)
  BY <1>1 DEF Counted, LiveSlots
<1> QED
  BY <1>2, <1>3

(* The writer's commit of a batch of the running session is a Store.       *)
LEMMA CommitStores ==
  ASSUME IInv, Live, WriterCommits
  PROVE  Catalogue!Store
<1> DEFINE s == cur_seq
<1>1. /\ Recording = s /\ s # 0 /\ s \in Named /\ SlotOf(s) = cur_slot
      /\ \A r \in Named : SlotOf(r) \in LiveSlots /\ dir[SlotOf(r)].seq = r
      /\ cur_slot \in LiveSlots /\ Counted(cur_slot) \in Nat
  BY NamesAndSlots DEF Recording
<1>2. /\ inflight \in 1 .. BatchRecs /\ cur_count' = cur_count + inflight
      /\ UNCHANGED <<dir, meta, active, pc, cur_seq, cur_slot>>
  <2>1. wpc = "commit" /\ inflight \in 0 .. BatchRecs
    BY DEF WriterCommits, IInv, TypeOK, StageOK
  <2>2. inflight > 0
    BY <2>1 DEF IInv, LockInv
  <2> QED
    BY <2>1, <2>2, LogAssumption DEF WriterCommits, flash, current, callers
<1>3. Named' = Named /\ Live' /\ Recording' = Recording
  BY <1>2 DEF Named, LiveSlots, Live, Recording
<1>4. \A r \in Named : Counted(SlotOf(r))' =
                         IF r = s THEN Counted(cur_slot) + inflight
                                  ELSE Counted(SlotOf(r))
  <2> SUFFICES ASSUME NEW r \in Named
               PROVE  Counted(SlotOf(r))' =
                         IF r = s THEN Counted(cur_slot) + inflight
                                  ELSE Counted(SlotOf(r))
    OBVIOUS
  <2>1. CASE r = s
    BY <1>1, <1>2, <1>3, <2>1 DEF Counted, SlotOf
  <2>2. CASE r # s
    <3>1. SlotOf(r) # cur_slot
      BY <1>1, <2>2
    <3> QED
      BY <1>2, <1>3, <2>2, <3>1 DEF Counted, SlotOf
  <2> QED
    BY <2>1, <2>2
<1>5. Presented' = [r \in Named |-> IF r = s THEN Counted(cur_slot) + inflight
                                             ELSE Counted(SlotOf(r))]
  BY <1>3, <1>4 DEF Presented, SlotOf
<1>6. Presented' = [Presented EXCEPT ![s] = @ + inflight]
  BY <1>1, <1>5 DEF Presented
<1> QED
  BY <1>1, <1>2, <1>3, <1>6 DEF Catalogue!Store

(* imu_log_stop's last write ends the session with the count it had.       *)
LEMMA CloseEnds ==
  ASSUME IInv, NEW t \in Threads, StopCloses(t)
  PROVE  Catalogue!End
<1>1. /\ pc[t] = "close" /\ DirRefreshCurrent(TRUE)
      /\ UNCHANGED <<meta, cur_seq, cur_slot, cur_count, active>>
      /\ StopReturns(t)
  BY DEF StopCloses, current
<1>2. Live /\ Recording # 0
  BY <1>1, NamesAndSlots DEF Live, Recording
<1>3. /\ Named' = Named
      /\ \A i \in LiveSlots : Counted(i)' = Counted(i)
  BY <1>1, <1>2, RefreshPresents
<1>4. ~Live'
  BY <1>1 DEF Live, IInv, TypeOK, ThreadsOK, LockInv, StopReturns, Return, Threads
<1>5. \A s \in Named : Counted(SlotOf(s))' = Counted(SlotOf(s))
  BY <1>3, NamesAndSlots DEF SlotOf
<1>6. Presented' = Presented
  BY <1>3, <1>5 DEF Presented, SlotOf
<1> QED
  BY <1>2, <1>4, <1>6 DEF Catalogue!End, Recording

(* imu_log_start's entry begins a session, and the one whose slot it takes *)
(* was begun MaxSessions sessions earlier.                                 *)
LEMMA EntryBegins ==
  ASSUME IInv, StartWritesEntry
  PROVE  Catalogue!Begin
<1> DEFINE gone == IF dir[cur_slot].valid THEN {dir[cur_slot].seq} ELSE {}
<1>0. /\ FlashOK /\ LogOK /\ LockInv /\ BootInv /\ DirInv /\ CurrentInv
  BY DEF IInv, TypeOK
<1>1. /\ pc["cmd"] = "entry" /\ dir' = [dir EXCEPT ![cur_slot] = NewEntry]
      /\ active' = TRUE /\ UNCHANGED <<meta, cur_seq, cur_slot, cur_count>>
  BY DEF StartWritesEntry, current, counts
<1>2. /\ ~Live /\ Live' /\ meta = "ours" /\ boot = "up"
  BY <1>0, <1>1 DEF LockInv, BootInv, Live, Threads
<1>3. /\ cur_seq \in Nat \ {0} /\ cur_slot = SlotOf(cur_seq) /\ cur_count = 0
      /\ cur_slot \in Slots
  BY <1>0, <1>1 DEF CurrentInv, LogOK
<1>4. Recording = 0 /\ Recording' = cur_seq
  BY <1>1, <1>2 DEF Recording
<1>5. \A s \in Named : /\ s \in Nat \ {0} /\ SlotOf(s) \in LiveSlots
                       /\ dir[SlotOf(s)].seq = s /\ s < cur_seq
  BY <1>0, <1>1, <1>2, NamesAndSlots DEF DirInv
<1>6. gone \subseteq Named
  BY <1>2, <1>3 DEF Named, LiveSlots
<1>7. \A s \in gone : s + MaxSessions <= cur_seq
  <2>1. \A s \in gone : SlotOf(s) = cur_slot
    BY <1>0, <1>2, <1>3 DEF DirInv, LiveSlots
  <2> QED
    BY <2>1, <1>3, <1>5, <1>6, SlotsDiffer
<1>8. \A s \in Named \ gone : SlotOf(s) # cur_slot
  BY <1>5 DEF LiveSlots
<1>9. Named' = (Named \ gone) \union {cur_seq}
  <2>1. \A i \in Slots : dir'[i] = IF i = cur_slot THEN NewEntry ELSE dir[i]
    BY <1>0, <1>1 DEF FlashOK
  <2>2. NewEntry.valid /\ NewEntry.seq = cur_seq
    BY DEF NewEntry
  <2>3. Named' = {dir'[i].seq : i \in LiveSlots'} /\ Named = {dir[i].seq : i \in LiveSlots}
    BY <1>1, <1>2 DEF Named
  <2>4. \A i \in LiveSlots : i # cur_slot => dir[i].seq \notin gone
    BY <1>0, <1>2, <1>3 DEF DirInv, LiveSlots
  <2>5. ASSUME NEW s \in Named' PROVE s \in (Named \ gone) \union {cur_seq}
    <3>1. PICK i \in LiveSlots' : s = dir'[i].seq
      BY <2>3
    <3>2. CASE i = cur_slot
      BY <3>1, <3>2, <2>1, <2>2 DEF LiveSlots
    <3>3. CASE i # cur_slot
      <4>1. i \in LiveSlots /\ s = dir[i].seq
        BY <3>1, <3>3, <2>1 DEF LiveSlots
      <4> QED
        BY <4>1, <3>3, <2>3, <2>4
    <3> QED
      BY <3>2, <3>3
  <2>6. ASSUME NEW s \in Named \ gone PROVE s \in Named'
    <3>1. SlotOf(s) \in LiveSlots /\ SlotOf(s) # cur_slot /\ dir[SlotOf(s)].seq = s
      BY <1>5, <1>8
    <3>2. SlotOf(s) \in LiveSlots' /\ dir'[SlotOf(s)].seq = s
      BY <3>1, <2>1 DEF LiveSlots
    <3> QED
      BY <3>2, <2>3
  <2>7. cur_seq \in Named'
    <3>1. cur_slot \in LiveSlots' /\ dir'[cur_slot].seq = cur_seq
      BY <1>3, <2>1, <2>2 DEF LiveSlots
    <3> QED
      BY <3>1, <2>3
  <2> HIDE DEF gone
  <2> QED
    BY <2>5, <2>6, <2>7
<1>10. \A s \in Named' : Counted(SlotOf(s))' =
                           IF s = cur_seq THEN 0 ELSE Presented[s]
  <2> SUFFICES ASSUME NEW s \in Named'
               PROVE  Counted(SlotOf(s))' = IF s = cur_seq THEN 0 ELSE Presented[s]
    OBVIOUS
  <2>1. CASE s = cur_seq
    BY <2>1, <1>1, <1>2, <1>3 DEF Counted, SlotOf
  <2>2. CASE s # cur_seq
    <3>1. s \in Named \ gone
      BY <1>9, <2>2
    <3>2. SlotOf(s) # cur_slot /\ SlotOf(s) \in Slots
      BY <3>1, <1>5, <1>8 DEF LiveSlots
    <3>3. dir'[SlotOf(s)] = dir[SlotOf(s)]
      BY <3>2, <1>0, <1>1 DEF FlashOK
    <3>4. Counted(SlotOf(s))' = Counted(SlotOf(s))
      BY <3>2, <3>3, <1>1, <1>2 DEF Counted, SlotOf
    <3> QED
      BY <2>2, <3>1, <3>4 DEF Presented
  <2> QED
    BY <2>1, <2>2
<1>11. Presented' = [s \in (Named \ gone) \union {cur_seq} |->
                       IF s = cur_seq THEN 0 ELSE Presented[s]]
  BY <1>9, <1>10 DEF Presented, SlotOf
<1>12. DOMAIN Presented = Named
  BY DEF Presented
<1>13. gone \in SUBSET {s \in DOMAIN Presented : s + MaxSessions <= Recording'}
  BY <1>4, <1>6, <1>7, <1>12
<1> HIDE DEF gone
<1> QED
  BY <1>3, <1>4, <1>5, <1>11, <1>12, <1>13 DEF Catalogue!Begin

(* invalidate_consumed forgets one session, not the running one.           *)
LEMMA InvalidateForgets ==
  ASSUME IInv, NEW i \in Slots, WriterInvalidates(i)
  PROVE  Catalogue!Forget
<1> DEFINE s == dir[i].seq
<1>0. /\ FlashOK /\ LogOK /\ LockInv /\ BootInv /\ DirInv /\ CurrentInv
  BY DEF IInv, TypeOK
<1>1. /\ wpc = "invalidate" /\ dir[i].valid /\ ~(active /\ i = cur_slot)
      /\ dir' = [dir EXCEPT ![i] = NoEntry]
      /\ UNCHANGED <<meta, active, pc, cur_seq, cur_slot, cur_count>>
  BY DEF WriterInvalidates, Consumed, session, current, counts, callers
<1>2. /\ meta = "ours" /\ (Live <=> active)
  BY <1>0, <1>1 DEF LockInv, BootInv, Live, Threads
<1>3. Live' = Live /\ Recording' = Recording
  BY <1>1 DEF Live, Recording
<1>4. /\ s \in Named /\ SlotOf(s) = i /\ i \in LiveSlots /\ s \in Nat \ {0}
  BY <1>0, <1>1, <1>2, NamesAndSlots DEF Named, LiveSlots, DirInv
<1>5. s # Recording
  BY <1>1, <1>2, <1>4, NamesAndSlots DEF Recording
<1>6. \A j \in Slots : dir'[j] = IF j = i THEN NoEntry ELSE dir[j]
  BY <1>0, <1>1 DEF FlashOK
<1>7. LiveSlots' = LiveSlots \ {i}
  BY <1>6 DEF LiveSlots, NoEntry
<1>8. \A r \in Named : /\ SlotOf(r) \in LiveSlots /\ dir[SlotOf(r)].seq = r
                       /\ r # s => SlotOf(r) # i
  BY <1>4, NamesAndSlots
<1>9. Named' = Named \ {s}
  <2>1. /\ Named' = {dir'[j].seq : j \in LiveSlots \ {i}}
        /\ Named = {dir[j].seq : j \in LiveSlots}
    BY <1>1, <1>2, <1>7 DEF Named
  <2>2. \A j \in LiveSlots \ {i} : dir'[j].seq = dir[j].seq /\ dir[j].seq # s
    BY <1>0, <1>2, <1>4, <1>6 DEF LiveSlots, DirInv
  <2>3. \A r \in Named \ {s} : r \in Named'
    BY <1>6, <1>8, <2>1 DEF LiveSlots
  <2> QED
    BY <2>1, <2>2, <2>3
<1>10. \A r \in Named \ {s} : Counted(SlotOf(r))' = Counted(SlotOf(r))
  BY <1>1, <1>3, <1>6, <1>8 DEF Counted, SlotOf, LiveSlots
<1>11. Presented' = [r \in Named \ {s} |-> Presented[r]]
  BY <1>9, <1>10 DEF Presented, SlotOf
<1>12. DOMAIN Presented = Named
  BY DEF Presented
<1> HIDE DEF s
<1> QED
  BY <1>3, <1>4, <1>5, <1>11, <1>12 DEF Catalogue!Forget

(* An erase begun, or a firmware upload over the log, with no session      *)
(* running: all that was stored goes.                                      *)
LEMMA BlankWipes ==
  ASSUME IInv, ~Live, ~Live', Named' = {}
  PROVE  Catalogue!Wipe
<1>1. Recording = 0 /\ Recording' = 0
  BY DEF Recording
<1>2. Presented' = [s \in {} |-> 0]
  BY DEF Presented, SlotOf
<1> QED
  BY <1>1, <1>2 DEF Catalogue!Wipe, Catalogue!Nothing

(* A reset takes from the running session what its directory entry does    *)
(* not count yet, MaxLag records at most.                                  *)
LEMMA CrashLoses ==
  ASSUME IInv, Live, Crash
  PROVE  Catalogue!LosePower
<1> DEFINE s == cur_seq
           n == cur_count - last_dir_refresh
<1>0. /\ FlashOK /\ LogOK /\ CurrentInv
  BY DEF IInv, TypeOK
<1>1. /\ UNCHANGED <<meta, dir>> /\ active' = FALSE
      /\ pc' = [t \in Threads |-> "idle"] /\ crashes' = crashes + 1
  BY DEF Crash, flash
<1>2. ~Live' /\ Named' = Named /\ Recording' = 0
  BY <1>1 DEF Live, Named, LiveSlots, Recording
<1>3. /\ Recording = s /\ s # 0 /\ s \in Named /\ SlotOf(s) = cur_slot
      /\ \A r \in Named : SlotOf(r) \in LiveSlots /\ dir[SlotOf(r)].seq = r
  BY NamesAndSlots DEF Recording
<1>4. /\ dir[cur_slot].count = last_dir_refresh /\ Counted(cur_slot) = cur_count
      /\ cur_count \in Nat /\ last_dir_refresh \in Nat
      /\ last_dir_refresh <= cur_count /\ cur_count <= last_dir_refresh + MaxLag
  BY <1>0 DEF CurrentInv, LogOK, Counted
<1>5. n \in 0 .. MaxLag /\ n <= cur_count /\ last_dir_refresh = cur_count - n
  BY <1>4, LogAssumption DEF MaxLag
<1> HIDE DEF n
<1>6. \A r \in Named : Counted(SlotOf(r))' =
                         IF r = s THEN cur_count - n ELSE Counted(SlotOf(r))
  <2> SUFFICES ASSUME NEW r \in Named
               PROVE  Counted(SlotOf(r))' =
                         IF r = s THEN cur_count - n ELSE Counted(SlotOf(r))
    OBVIOUS
  <2>1. Counted(SlotOf(r))' = dir[SlotOf(r)].count
    BY <1>1, <1>2 DEF Counted, SlotOf
  <2>2. CASE r = s
    BY <1>3, <1>4, <1>5, <2>1, <2>2
  <2>3. CASE r # s
    <3>1. SlotOf(r) # cur_slot
      BY <1>3, <2>3
    <3> QED
      BY <2>1, <2>3, <3>1 DEF Counted
  <2> QED
    BY <2>2, <2>3
<1>7. Presented' = [r \in Named |-> IF r = s THEN cur_count - n
                                            ELSE Counted(SlotOf(r))]
  BY <1>2, <1>6 DEF Presented, SlotOf
<1>8. /\ Presented[s] = cur_count
      /\ Presented' = [Presented EXCEPT ![s] = @ - n]
  BY <1>3, <1>4, <1>7 DEF Presented
<1> QED
  BY <1>1, <1>2, <1>3, <1>5, <1>8 DEF Catalogue!LosePower

LEMMA IdleCrashLosesNothing ==
  ASSUME IInv, ~Live, Crash
  PROVE  Catalogue!LosePower
<1>1. /\ UNCHANGED <<meta, dir>> /\ active' = FALSE
      /\ pc' = [t \in Threads |-> "idle"] /\ crashes' = crashes + 1
  BY DEF Crash, flash
<1>2. ~Live' /\ Named' = Named
  BY <1>1 DEF Live, Named, LiveSlots
<1>3. UNCHANGED Catalogue!shown
  BY <1>1, <1>2, IdleSame
<1>4. Recording = 0 /\ Recording' = 0
  BY <1>2 DEF Recording
<1> QED
  BY <1>1, <1>3, <1>4 DEF Catalogue!LosePower, Catalogue!shown

(* Every other step is one of the catalogue's work, or unseen by it.       *)
LEMMA StepPresents ==
  ASSUME IInv, [Next]_vars, ~Crash
  PROVE  Catalogue!Work \/ UNCHANGED Catalogue!shown
<1> USE DEF flash, position, current, counts, session, staging, writer,
      callers, history
<1>0. /\ FlashOK /\ LogOK /\ ThreadsOK /\ LockInv /\ BootInv /\ DirInv
      /\ CurrentInv /\ ClosedInv
  BY DEF IInv, TypeOK
<1>1. CASE Pump
  <2>1. /\ UNCHANGED <<meta, dir, cur_seq, cur_slot, cur_count>>
        /\ Live' = Live
    BY <1>1 DEF Pump, PumpEnters, PumpStages, PumpLeaves, Live
  <2> QED
    BY <2>1, QuietSame
<1>2. CASE WriterSees \/ WriterFindsNothing \/ WriterWrites \/ WriterFinishes
  <2>1. /\ UNCHANGED <<meta, dir, cur_seq, cur_slot, cur_count>>
        /\ Live' = Live
    BY <1>2 DEF WriterSees, WriterFindsNothing, WriterWrites, WriterFinishes, Live
  <2> QED
    BY <2>1, QuietSame
<1>3. CASE WriterCommits
  <2>1. CASE Live
    BY <1>3, <2>1, CommitStores DEF Catalogue!Work
  <2>2. CASE ~Live
    <3>1. UNCHANGED <<meta, dir, active, pc>>
      BY <1>3 DEF WriterCommits
    <3>2. ~Live' /\ Named' = Named
      BY <3>1, <2>2 DEF Live, Named, LiveSlots
    <3> QED
      BY <2>2, <3>1, <3>2, IdleSame
  <2> QED
    BY <2>1, <2>2
<1>4. CASE WriterRefreshes
  <2>1. /\ UNCHANGED <<meta, active, pc, cur_seq, cur_slot, cur_count>>
        /\ DirRefreshCurrent(FALSE) /\ wpc = "refresh"
    BY <1>4 DEF WriterRefreshes
  <2>2. Live' = Live /\ Recording' = Recording
    BY <2>1 DEF Live, Recording
  <2>3. CASE Live
    <3>1. /\ Named' = Named
          /\ \A i \in LiveSlots : Counted(i)' = Counted(i)
      BY <2>1, <2>3, RefreshPresents
    <3> QED
      BY <2>2, <3>1, PresentedSame
  <2>4. CASE ~Live
    <3>1. boot = "up"
      BY <1>0, <2>1 DEF BootInv
    <3>2. LiveSlots = {} /\ ~dir[cur_slot].valid
      BY <1>0, <2>1, <2>4, <3>1 DEF ClosedInv, LogOK, LiveSlots
    <3>3. dir' = dir
      BY <2>1, <3>2 DEF DirRefreshCurrent
    <3> QED
      BY <2>1, <2>2, <3>3, QuietSame
  <2> QED
    BY <2>3, <2>4
<1>5. ASSUME NEW i \in Slots, WriterInvalidates(i)
      PROVE  Catalogue!Work
  BY <1>5, InvalidateForgets DEF Catalogue!Work
<1>6. CASE StartRefused \/ UNCHANGED vars
  <2>1. /\ UNCHANGED <<meta, dir, cur_seq, cur_slot, cur_count>>
        /\ Live' = Live
    BY <1>6 DEF StartRefused, vars, Live
  <2> QED
    BY <2>1, QuietSame
<1>7. ASSUME NEW o \in {"start", "detached"}, StartOpens(o)
      PROVE  UNCHANGED Catalogue!shown
  <2>1. /\ UNCHANGED <<meta, dir, active>> /\ ~active /\ lock = "free"
        /\ pc' = [pc EXCEPT !["cmd"] = "entry"]
    BY <1>7 DEF StartOpens
  <2>2. ~Live /\ ~Live' /\ Named' = Named
    BY <1>0, <2>1 DEF Live, LockInv, ThreadsOK, Threads, Named, LiveSlots
  <2> QED
    BY <2>1, <2>2, IdleSame
<1>8. CASE StartWritesEntry
  BY <1>8, EntryBegins DEF Catalogue!Work
<1>9. CASE StartFails \/ MarkDetached
  <2>1. /\ UNCHANGED <<meta, dir, cur_seq, cur_slot, cur_count, active>>
        /\ pc["cmd"] \in {"entry", "mark"} /\ pc' = [pc EXCEPT !["cmd"] = "idle"]
    BY <1>9 DEF StartFails, MarkDetached, Return
  <2>2. Live' = Live
    BY <1>0, <2>1 DEF Live, ThreadsOK, Threads
  <2> QED
    BY <2>1, <2>2, QuietSame
<1>10. CASE EraseCalled
  <2>1. /\ UNCHANGED <<meta, dir, cur_seq, cur_slot, cur_count, active>>
        /\ pc["cmd"] = "idle"
        /\ \E p \in {"flush", "erase"} : pc' = [pc EXCEPT !["cmd"] = p]
    BY <1>10 DEF EraseCalled
  <2>2. Live' = Live
    BY <1>0, <2>1 DEF Live, ThreadsOK, Threads
  <2> QED
    BY <2>1, <2>2, QuietSame
<1>11. CASE EraseWipes
  <2>1. /\ pc["cmd"] = "erase" /\ lock = "free" /\ meta' = "blank"
        /\ active' = active /\ pc' = [pc EXCEPT !["cmd"] = "stamp"]
    BY <1>11 DEF EraseWipes, DirWipe
  <2>2. ~Live /\ ~Live' /\ Named' = {}
    BY <1>0, <2>1 DEF Live, LockInv, ThreadsOK, Threads, Named
  <2> QED
    BY <2>2, BlankWipes DEF Catalogue!Work
<1>12. CASE EraseStamps
  <2>1. /\ pc["cmd"] = "stamp" /\ UNCHANGED <<dir, active>>
        /\ pc' = [pc EXCEPT !["cmd"] = "idle"]
    BY <1>12 DEF EraseStamps, DirStamp, Return
  <2>2. meta = "blank" /\ LiveSlots = {} /\ LiveSlots' = {}
    BY <1>0, <2>1 DEF BootInv, LiveSlots
  <2>3. ~Live /\ ~Live' /\ Named' = Named
    <3>1. ~active /\ lock = "cmd"
      BY <1>0, <2>1 DEF LockInv
    <3>2. ~Live /\ ~Live'
      BY <1>0, <2>1, <3>1 DEF Live, LockInv, ThreadsOK, Threads
    <3> QED
      BY <2>2, <3>2 DEF Named
  <2> QED
    BY <2>1, <2>3, IdleSame
<1>13. CASE FirmwareUpdated
  <2>1. boot = "off" /\ meta' = "foreign" /\ UNCHANGED <<active, pc>>
    BY <1>13 DEF FirmwareUpdated
  <2>2. ~Live /\ ~Live' /\ Named' = {}
    BY <1>0, <2>1 DEF BootInv, Live, Named
  <2> QED
    BY <2>2, BlankWipes DEF Catalogue!Work
<1>14. CASE BootWipes
  <2>1. boot = "off" /\ meta' = "blank" /\ UNCHANGED <<active, pc>>
    BY <1>14 DEF BootWipes, DirWipe
  <2>2. ~Live /\ ~Live' /\ Named' = {}
    BY <1>0, <2>1 DEF BootInv, Live, Named
  <2> QED
    BY <2>2, BlankWipes DEF Catalogue!Work
<1>15. CASE BootStamps
  <2>1. /\ boot = "stamp" /\ UNCHANGED <<dir, active, pc>>
    BY <1>15 DEF BootStamps, DirStamp
  <2>2. LiveSlots = {} /\ LiveSlots' = {} /\ ~Live /\ ~Live'
    BY <1>0, <2>1 DEF BootInv, LiveSlots, Live
  <2>3. Named' = Named
    BY <2>2 DEF Named
  <2> QED
    BY <2>1, <2>2, <2>3, IdleSame
<1>16. CASE BootRecovers
  <2>1. /\ boot = "off" /\ UNCHANGED <<meta, active, pc>>
        /\ dir' = [i \in Slots |-> [dir[i] EXCEPT !.open = FALSE]]
    BY <1>16 DEF BootRecovers
  <2>2. \A i \in Slots : /\ dir'[i].valid = dir[i].valid
                         /\ dir'[i].seq = dir[i].seq
                         /\ dir'[i].count = dir[i].count
    BY <1>0, <2>1 DEF FlashOK, Entries
  <2>3. LiveSlots' = LiveSlots
    BY <2>2 DEF LiveSlots
  <2>4. Named' = Named
    BY <2>1, <2>2, <2>3 DEF Named, LiveSlots
  <2>5. ~Live /\ ~Live'
    BY <1>0, <2>1 DEF BootInv, Live
  <2> QED
    BY <2>2, <2>4, <2>5, IdleSame DEF LiveSlots
<1>17. ASSUME NEW t \in Threads, StopCalled(t) \/ FlushEnds(t) \/ StopFindsInactive(t)
       PROVE  UNCHANGED Catalogue!shown
  <2>1. /\ UNCHANGED <<meta, dir, cur_seq, cur_slot, cur_count, active>>
        /\ pc[t] \in {"idle", "flush", "lock"}
        /\ \E p \in {"flush", "lock", "erase", "idle"} :
             pc' = [pc EXCEPT ![t] = p]
    BY <1>17 DEF StopCalled, FlushEnds, StopFindsInactive, StopReturns, Return
  <2>2. Live' = Live
    BY <1>0, <2>1 DEF Live, ThreadsOK
  <2> QED
    BY <2>1, <2>2, QuietSame
<1>18. ASSUME NEW t \in Threads, StopDeactivates(t)
       PROVE  UNCHANGED Catalogue!shown
  <2>1. /\ UNCHANGED <<meta, dir, cur_seq, cur_slot, cur_count>>
        /\ active /\ pc' = [pc EXCEPT ![t] = "close"]
    BY <1>18 DEF StopDeactivates
  <2>2. Live /\ Live'
    BY <1>0, <2>1 DEF Live, ThreadsOK
  <2> QED
    BY <2>1, <2>2, QuietSame
<1>19. ASSUME NEW t \in Threads, StopCloses(t)
       PROVE  Catalogue!Work
  BY <1>19, CloseEnds DEF Catalogue!Work
<1> QED
  BY <1>1, <1>2, <1>3, <1>4, <1>5, <1>6, <1>7, <1>8, <1>9, <1>10, <1>11,
     <1>12, <1>13, <1>14, <1>15, <1>16, <1>17, <1>18, <1>19 DEF Next,
     Writer, Start, Erase, Reset, Stop

(* Only a reset counts as one.                                             *)
LEMMA CrashesStay ==
  ASSUME [Next]_vars, ~Crash
  PROVE  UNCHANGED crashes
<1> USE DEF history
<1>1. CASE Pump \/ UNCHANGED vars
  BY <1>1 DEF Pump, PumpEnters, PumpStages, PumpLeaves, vars
<1>2. CASE Writer
  BY <1>2 DEF Writer, WriterSees, WriterFindsNothing, WriterWrites, WriterCommits,
     WriterRefreshes, WriterInvalidates, WriterFinishes
<1>3. CASE Start
  BY <1>3 DEF Start, StartRefused, StartOpens, StartWritesEntry, StartFails, MarkDetached,
     vars
<1>4. CASE Erase
  BY <1>4 DEF Erase, EraseCalled, EraseWipes, EraseStamps
<1>5. CASE Reset
  BY <1>5 DEF Reset, FirmwareUpdated, BootWipes, BootStamps, BootRecovers
<1>6. ASSUME NEW t \in Threads, Stop(t)
      PROVE  UNCHANGED crashes
  BY <1>6 DEF Stop, StopCalled, FlushEnds, StopFindsInactive, StopDeactivates, StopCloses
<1> QED
  BY <1>1, <1>2, <1>3, <1>4, <1>5, <1>6 DEF Next

(* The session log implements the catalogue of imu_log.h: what imu_log_stop *)
(* leaves in the directory is final, whatever the writer, a second stop,    *)
(* invalidate_consumed and a reset do around it.                            *)
THEOREM ImplementsCatalogue == Spec => CatalogueSpec
<1>1. Init => Catalogue!Init
  <2> SUFFICES ASSUME Init PROVE Catalogue!Init
    OBVIOUS
  <2>1. meta # "ours" /\ ~Live
    BY DEF Init, Live, Threads
  <2>2. Recording = 0 /\ Named = {}
    BY <2>1 DEF Recording, Named
  <2> QED
    BY <2>2 DEF Init, Catalogue!Init, Catalogue!Nothing, Presented
<1>2. IInv /\ [Next]_vars => [Catalogue!Next]_Catalogue!catalogue
  <2> SUFFICES ASSUME IInv, [Next]_vars
               PROVE  Catalogue!Next \/ UNCHANGED Catalogue!catalogue
    OBVIOUS
  <2>1. CASE Crash
    BY <2>1, CrashLoses, IdleCrashLosesNothing DEF Catalogue!Next
  <2>2. CASE ~Crash
    <3>1. UNCHANGED crashes
      BY <2>2, CrashesStay
    <3>2. Catalogue!Work \/ UNCHANGED Catalogue!shown
      BY <2>2, StepPresents
    <3> QED
      BY <3>1, <3>2 DEF Catalogue!Next, Catalogue!catalogue
  <2> QED
    BY <2>1, <2>2
<1> QED
  BY <1>1, <1>2, Inductive, PTL DEF Spec, CatalogueSpec, Catalogue!Spec
=============================================================================
