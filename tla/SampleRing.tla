---------------------------- MODULE SampleRing -----------------------------
(***************************************************************************)
(* The ring of raw samples in shared SRAM (src/common/imu_shared.h): one   *)
(* producer, the FLPR coprocessor (src/flpr/src/main.c), one consumer, the *)
(* app core's pump thread (src/src/imu/imu_pump.c), no lock.               *)
(*                                                                         *)
(* An action is what one core does between two stores the other core can   *)
(* see; the barriers of the code keep those stores in program order.  A    *)
(* record is stored in two parts, so that a torn one would be seen.  The   *)
(* 32-bit counters wrap at CounterMod.                                     *)
(***************************************************************************)
EXTENDS Naturals, Sequences

CONSTANTS
    RingN,          \* IMU_RING_N, records in the ring
    CounterMod,     \* 2^32, where head and tail wrap
    Chunk,          \* PUMP_CHUNK, most records copied before tail moves
    MaxSamples      \* bound: samples the FLPR takes

ASSUME RingAssumption ==
    /\ RingN \in Nat \ {0}
    /\ Chunk \in Nat \ {0}
    /\ CounterMod \in Nat
    /\ CounterMod > RingN
    /\ CounterMod % RingN = 0
    /\ MaxSamples \in Nat

VARIABLES
    (* the shared block *)
    magic,        \* magic = IMU_SHARED_MAGIC
    imu_ok, head, tail, overrun,
    ring,         \* the record of each slot, in two parts
    (* the FLPR *)
    fpc,          \* where main() is
    sampled,      \* samples read from the sensor
    (* the pump *)
    ppc,          \* where pump_thread() is
    phead, ptail, \* its copies of head and tail
    chunk,        \* the records copied so far
    (* history, read by no action of the code *)
    published,    \* samples published since the FLPR booted
    handed,       \* samples the pump took out of the ring since
    misled        \* the FLPR booted under a pump that was draining

block   == <<magic, imu_ok, head, tail, overrun, ring>>
flpr    == <<fpc, sampled>>
pump    == <<ppc, phead, ptail, chunk>>
history == <<published, handed, misled>>
vars    == <<block, flpr, pump, history>>

-----------------------------------------------------------------------------
Counters == 0 .. CounterMod - 1
Indices  == 0 .. RingN - 1
Record(x) == [first |-> x, rest |-> x]
Records  == [first : 0 .. MaxSamples, rest : 0 .. MaxSamples]
Torn     == MaxSamples + 1    \* what a record of two samples is taken for
SampleOf(r) == IF r.first = r.rest THEN r.first ELSE Torn

(* The difference of two 32-bit counters; a counter's slot.                *)
Ahead(x, y) == (x + CounterMod - y) % CounterMod
SlotOf(x) == x % RingN

(* The counter x, n records further on.                                    *)
Step(x, n) == (x + n) % CounterMod

-----------------------------------------------------------------------------
(* The FLPR: boot.                                                         *)

FlprHidesBlock ==
    /\ fpc = "boot"
    /\ magic' = FALSE
    /\ fpc' = "head"
    /\ UNCHANGED <<imu_ok, head, tail, overrun, ring, sampled, pump, history>>

FlprClearsHead ==
    /\ fpc = "head"
    /\ head' = 0
    /\ fpc' = "tail"
    /\ misled' = (ppc # "sleep")
    /\ UNCHANGED <<magic, imu_ok, tail, overrun, ring, sampled, pump, published,
                   handed>>

FlprClearsTail ==
    /\ fpc = "tail"
    /\ tail' = 0 /\ overrun' = 0
    /\ fpc' = "announce"
    /\ UNCHANGED <<magic, imu_ok, head, ring, sampled, pump, history>>

(* The sensor is initialised, well or not, and the block is announced.  A  *)
(* dead sensor parks the FLPR.                                             *)
FlprAnnounces(ok) ==
    /\ fpc = "announce"
    /\ imu_ok' = ok /\ magic' = TRUE
    /\ fpc' = IF ok THEN "wait" ELSE "parked"
    /\ UNCHANGED <<head, tail, overrun, ring, sampled, pump, history>>

(* The FLPR: one sample.                                                   *)

(* Mutant: one record too many is let in.                                  *)
RingFull_Late == Ahead(head, tail) > RingN
RingFull == Ahead(head, tail) >= RingN

(* The sample is read from the sensor; a full ring drops it.               *)
FlprSamples ==
    /\ fpc = "wait" /\ sampled < MaxSamples
    /\ sampled' = sampled + 1
    /\ IF RingFull
         THEN overrun' = Step(overrun, 1) /\ UNCHANGED fpc
         ELSE fpc' = "first" /\ UNCHANGED overrun
    /\ UNCHANGED <<magic, imu_ok, head, tail, ring, pump, history>>

(* Mutant: without the barrier, head may overtake the rest of the record.  *)
FlprStoresFirst_NoBarrier ==
    /\ fpc = "first"
    /\ ring' = [ring EXCEPT ![SlotOf(head)].first = sampled]
    /\ fpc' = "publish"
    /\ UNCHANGED <<magic, imu_ok, head, tail, overrun, sampled, pump, history>>

FlprStoresFirst ==
    /\ fpc = "first"
    /\ ring' = [ring EXCEPT ![SlotOf(head)].first = sampled]
    /\ fpc' = "rest"
    /\ UNCHANGED <<magic, imu_ok, head, tail, overrun, sampled, pump, history>>

FlprStoresRest ==
    /\ fpc = "rest"
    /\ ring' = [ring EXCEPT ![SlotOf(head)].rest = sampled]
    /\ fpc' = "publish"
    /\ UNCHANGED <<magic, imu_ok, head, tail, overrun, sampled, pump, history>>

FlprPublishes ==
    /\ fpc = "publish"
    /\ head' = Step(head, 1)
    /\ published' = Append(published, sampled)
    /\ fpc' = "wait"
    /\ UNCHANGED <<magic, imu_ok, tail, overrun, ring, sampled, pump, handed,
                   misled>>

-----------------------------------------------------------------------------
(* The pump, every 4 ms.                                                   *)

(* The block is trusted once it is announced with a live sensor; before    *)
(* the FLPR boots the announcement may be that of the run before.          *)
PumpChecks ==
    /\ ppc = "sleep" /\ magic /\ imu_ok
    /\ ppc' = "head"
    /\ UNCHANGED <<block, flpr, phead, ptail, chunk, history>>

PumpReadsHead ==
    /\ ppc = "head"
    /\ phead' = head
    /\ ppc' = "tail"
    /\ UNCHANGED <<block, flpr, ptail, chunk, history>>

(* Mutant: head and tail are compared by slot, so a full ring looks empty. *)
PumpReadsTail_BySlot ==
    /\ ppc = "tail"
    /\ ptail' = tail
    /\ ppc' = IF SlotOf(tail) = SlotOf(phead) THEN "sleep" ELSE "copy"
    /\ UNCHANGED <<block, flpr, phead, chunk, history>>

PumpReadsTail ==
    /\ ppc = "tail"
    /\ ptail' = tail
    /\ ppc' = IF tail = phead THEN "sleep" ELSE "copy"
    /\ UNCHANGED <<block, flpr, phead, chunk, history>>

(* MIN(head - tail, PUMP_CHUNK).                                           *)
ChunkLen == IF Ahead(phead, ptail) < Chunk THEN Ahead(phead, ptail) ELSE Chunk

PumpCopies ==
    /\ ppc = "copy" /\ Len(chunk) < ChunkLen
    /\ chunk' = Append(chunk, ring[SlotOf(ptail + Len(chunk))])
    /\ UNCHANGED <<block, flpr, ppc, phead, ptail, history>>

(* The whole chunk is copied: its slots are given back.                    *)
PumpFrees ==
    /\ ppc = "copy" /\ Len(chunk) = ChunkLen
    /\ ptail' = Step(ptail, ChunkLen)
    /\ tail' = ptail'
    /\ handed' = IF fpc \in {"boot", "head"} THEN handed
                 ELSE handed \o [i \in 1 .. Len(chunk) |-> SampleOf(chunk[i])]
    /\ chunk' = <<>>
    /\ ppc' = IF ptail' = phead THEN "sleep" ELSE "copy"
    /\ UNCHANGED <<magic, imu_ok, head, overrun, ring, flpr, phead, published,
                   misled>>

-----------------------------------------------------------------------------
(* A power-on leaves the block unannounced, with counters nobody reads     *)
(* before they are cleared.  A warm reset leaves it as the previous run    *)
(* had it, records pending or not.                                         *)
Init ==
    /\ magic \in BOOLEAN /\ imu_ok \in BOOLEAN
    /\ tail \in IF magic THEN Counters ELSE {0}
    /\ head \in IF magic THEN {(tail + k) % CounterMod : k \in 0 .. RingN}
                         ELSE {0}
    /\ overrun = 0
    /\ ring = [i \in Indices |-> Record(0)]
    /\ fpc = "boot" /\ sampled = 0
    /\ ppc = "sleep" /\ phead = 0 /\ ptail = 0 /\ chunk = <<>>
    /\ published = <<>> /\ handed = <<>> /\ misled = FALSE

Boot == \/ FlprHidesBlock \/ FlprClearsHead \/ FlprClearsTail
        \/ \E ok \in BOOLEAN : FlprAnnounces(ok)
Flpr == \/ FlprSamples \/ FlprStoresFirst \/ FlprStoresRest \/ FlprPublishes
Pump == \/ PumpChecks \/ PumpReadsHead \/ PumpReadsTail \/ PumpCopies
        \/ PumpFrees

Next == Boot \/ Flpr \/ Pump

Spec == Init /\ [][Next]_vars

(* Each core runs on its own; the pump outranks the app core's other       *)
(* preemptible threads and wakes from a timed sleep.                       *)
FairSpec == /\ Spec
            /\ WF_vars(Boot)
            /\ WF_vars(Flpr)
            /\ WF_vars(Pump)

-----------------------------------------------------------------------------
(* Correctness.                                                            *)

(* Once the FLPR has announced the block, the ring never holds more than   *)
(* RingN records ("if the ring is full (head - tail == N) the sample is    *)
(* dropped"): neither counter runs away from the other, and the pump never *)
(* meets a distance that is not one of real records. The exception is a    *)
(* warm reset that lets the pump drain the old records while the FLPR      *)
(* clears the counters: it may store a tail ahead of head.                 *)
RingBounded ==
    ~misled /\ fpc \in {"wait", "parked", "first", "rest", "publish"}
        => Ahead(head, tail) <= RingN

(* Type correctness, and the bound on the ring.                            *)
TypeOK ==
    /\ magic \in BOOLEAN /\ imu_ok \in BOOLEAN /\ misled \in BOOLEAN
    /\ head \in Counters /\ tail \in Counters /\ overrun \in Counters
    /\ ring \in [Indices -> Records]
    /\ fpc \in {"boot", "head", "tail", "announce", "wait", "parked",
                "first", "rest", "publish"}
    /\ sampled \in 0 .. MaxSamples
    /\ ppc \in {"sleep", "head", "tail", "copy"}
    /\ phead \in Counters /\ ptail \in Counters
    /\ chunk \in Seq(Records)
    /\ published \in Seq(0 .. MaxSamples) /\ handed \in Seq(0 .. Torn)
    /\ RingBounded

(* The samples accepted or lost: all taken but the one being stored.       *)
Settled == IF fpc \in {"first", "rest", "publish"} THEN sampled - 1 ELSE sampled

(* The ring is a bounded queue with loss at the full end only: the pump    *)
(* gets every published sample once, in order and never torn, and overrun  *)
(* counts exactly the others; with the same exception.                     *)
Queue == INSTANCE SampleQueue
           WITH Capacity <- RingN, LostMod <- CounterMod,
                clock <- Settled, lost <- overrun,
                buffer <- SubSeq(published, Len(handed) + 1, Len(published)),
                handed <- handed
QueueSpec == Queue!Init /\ [][misled \/ Queue!Next]_Queue!queue

(* Every published record reaches the pump: no record waits for the next   *)
(* one, at a wrap of the counters or anywhere else.                        *)
AllHanded ==
    \A k \in 1 .. MaxSamples :
        Len(published) >= k /\ ~misled ~> Len(handed) >= k
=============================================================================
