-------------------------- MODULE SampleRingProofs --------------------------
(***************************************************************************)
(* The inductive invariant of SampleRing, the bound on the ring, and the   *)
(* refinement of SampleQueue: the lock-free ring is a bounded queue.       *)
(***************************************************************************)
EXTENDS SampleRing, SequenceTheorems, TLAPS

(* The FLPR has cleared both counters and announced the block.             *)
Live == fpc \in {"wait", "parked", "first", "rest", "publish"}
Storing == fpc \in {"first", "rest", "publish"}

(* How many records have been published, and taken out of the ring.        *)
Published == Len(published)
Taken == Len(handed)

(* Until the counters are cleared nothing is counted; the pump waits for   *)
(* the announcement, and has no records in hand but while it copies.       *)
BootInv ==
    /\ fpc \in {"boot", "head", "tail", "announce"} =>
         published = <<>> /\ sampled = 0 /\ overrun = 0
           /\ (~misled => handed = <<>>)
    /\ fpc \in {"boot", "head"} => ~misled
    /\ fpc \in {"head", "tail", "announce"} => ~magic
    /\ ~misled /\ fpc \in {"tail", "announce"} =>
         /\ ppc = "sleep" /\ head = 0
         /\ fpc = "announce" => tail = 0
    /\ ppc # "copy" => chunk = <<>>
    /\ Storing => sampled > 0

(* The counters are those of the records published and handed over, and    *)
(* what the pump has read of them lies in between.                         *)
CountInv ==
    ~misled /\ Live =>
        /\ Taken <= Published /\ Published - Taken <= RingN
        /\ head = Published % CounterMod /\ tail = Taken % CounterMod
        /\ Storing => Published - Taken < RingN
        /\ ppc \in {"tail", "copy"} => Ahead(phead, tail) <= Published - Taken
        /\ ppc = "copy" => /\ ptail = tail /\ phead # tail
                           /\ Len(chunk) <= ChunkLen

(* Every record published and not yet handed over is whole in its slot, or *)
(* in the pump's hands; the one being stored is whole before head moves.   *)
ContentInv ==
    ~misled /\ Live =>
        /\ \A k \in Taken .. Published - 1 :
             ring[SlotOf(k)] = Record(published[k + 1])
        /\ \A i \in 1 .. Len(chunk) : chunk[i] = Record(published[Taken + i])
        /\ fpc = "rest" => ring[SlotOf(head)].first = sampled
        /\ fpc = "publish" => ring[SlotOf(head)] = Record(sampled)

IInv == TypeOK /\ BootInv /\ CountInv /\ ContentInv

-----------------------------------------------------------------------------
(* The arithmetic of counters that wrap.                                   *)

LEMMA DivMod ==
  ASSUME NEW n \in Nat \ {0}, NEW a \in Nat
  PROVE  a % n \in 0 .. n - 1 /\ a \div n \in Nat /\ a = n * (a \div n) + (a % n)
<1>1. a % n \in 0 .. n - 1
  OBVIOUS
<1>2. a \div n \in Nat
  OBVIOUS
<1>3. a = n * (a \div n) + (a % n)
  OBVIOUS
<1> QED
  BY <1>1, <1>2, <1>3

(* There is one remainder.                                                 *)
LEMMA ModIs ==
  ASSUME NEW n \in Nat \ {0}, NEW q \in Nat, NEW r \in 0 .. n - 1
  PROVE  (n * q + r) % n = r
<1> DEFINE a == n * q + r
           p == a \div n
           m == a % n
<1>1. a \in Nat /\ a = n * q + r
  OBVIOUS
<1> HIDE DEF a
<1>2. m \in 0 .. n - 1 /\ p \in Nat /\ a = n * p + m
  BY <1>1, DivMod
<1> HIDE DEF p, m
<1>3. n * (p - q) = r - m /\ n * (q - p) = m - r
  BY <1>1, <1>2
<1>4. n * (p - q) < n /\ n * (q - p) < n
  BY <1>2, <1>3
<1>5. p - q < 1 /\ q - p < 1
  BY <1>2, <1>4
<1>6. n * (p - q) = 0
  BY <1>2, <1>5
<1>7. m = r
  BY <1>2, <1>3, <1>6
<1> QED
  BY <1>7 DEF m, a

LEMMA ModSmall ==
  ASSUME NEW n \in Nat \ {0}, NEW r \in 0 .. n - 1
  PROVE  r % n = r
<1>1. (n * 0 + r) % n = r
  BY ModIs
<1> QED
  BY <1>1

(* Whole turns do not matter.                                              *)
LEMMA ModTurns ==
  ASSUME NEW n \in Nat \ {0}, NEW q \in Nat, NEW x \in Nat
  PROVE  (n * q + x) % n = x % n
<1> DEFINE p == x \div n
           r == x % n
<1>1. r \in 0 .. n - 1 /\ p \in Nat /\ x = n * p + r
  BY DivMod
<1> HIDE DEF p, r
<1>2. n * q + x = n * (q + p) + r
  BY <1>1
<1>3. (n * (q + p) + r) % n = r
  BY <1>1, ModIs
<1> QED
  BY <1>2, <1>3 DEF r

(* A counter's distance is a small number, whether one has wrapped or not. *)
LEMMA AheadCases ==
  ASSUME NEW x \in Counters, NEW y \in Counters
  PROVE  Ahead(x, y) = IF x >= y THEN x - y ELSE x + CounterMod - y
<1>1. CASE x >= y
  <2>1. (CounterMod * 1 + (x - y)) % CounterMod = x - y
    BY <1>1, ModIs, RingAssumption DEF Counters
  <2>2. CounterMod * 1 + (x - y) = x + CounterMod - y
    BY RingAssumption DEF Counters
  <2> QED
    BY <1>1, <2>1, <2>2 DEF Ahead
<1>2. CASE ~(x >= y)
  <2>1. x + CounterMod - y \in 0 .. CounterMod - 1
    BY <1>2, RingAssumption DEF Counters
  <2> QED
    BY <1>2, <2>1, ModSmall, RingAssumption DEF Ahead
<1> QED
  BY <1>1, <1>2

LEMMA AheadBounds ==
  ASSUME NEW x \in Counters, NEW y \in Counters
  PROVE  Ahead(x, y) \in 0 .. CounterMod - 1 /\ (Ahead(x, y) = 0 <=> x = y)
  BY AheadCases, RingAssumption DEF Counters

(* Ahead and Step undo each other.                                         *)
LEMMA StepAhead ==
  ASSUME NEW x \in Counters, NEW y \in Counters
  PROVE  Step(y, Ahead(x, y)) = x
<1>1. CASE x >= y
  <2>1. y + Ahead(x, y) = x
    BY <1>1, AheadCases, RingAssumption DEF Counters
  <2> QED
    BY <2>1, ModSmall, RingAssumption DEF Step, Counters
<1>2. CASE ~(x >= y)
  <2>1. y + Ahead(x, y) = CounterMod * 1 + x
    BY <1>2, AheadCases, RingAssumption DEF Counters
  <2>2. (CounterMod * 1 + x) % CounterMod = x
    BY ModIs, RingAssumption DEF Counters
  <2> QED
    BY <2>1, <2>2 DEF Step
<1> QED
  BY <1>1, <1>2

LEMMA StepOf ==
  ASSUME NEW a \in Nat, NEW n \in Nat
  PROVE  Step(a % CounterMod, n) = (a + n) % CounterMod
<1> DEFINE q == a \div CounterMod
           r == a % CounterMod
<1>1. r \in Nat /\ q \in Nat /\ a = CounterMod * q + r
  BY DivMod, RingAssumption
<1> HIDE DEF q, r
<1>2. a + n = CounterMod * q + (r + n)
  BY <1>1, RingAssumption
<1>3. (CounterMod * q + (r + n)) % CounterMod = (r + n) % CounterMod
  <2>1. r + n \in Nat /\ CounterMod \in Nat \ {0}
    BY <1>1, RingAssumption
  <2> QED
    BY <1>1, <2>1, ModTurns
<1> QED
  BY <1>2, <1>3 DEF Step, r

LEMMA StepBounds ==
  ASSUME NEW x \in Nat, NEW n \in Nat
  PROVE  Step(x, n) \in Counters
  BY DivMod, x + n \in Nat, RingAssumption DEF Step, Counters

LEMMA CounterBounds == ASSUME NEW a \in Nat PROVE a % CounterMod \in Counters
  BY DivMod, RingAssumption DEF Counters

(* The distance of two counters is that of the numbers they count.         *)
LEMMA AheadOf ==
  ASSUME NEW a \in Nat, NEW b \in Nat, b <= a, a - b < CounterMod
  PROVE  Ahead(a % CounterMod, b % CounterMod) = a - b
<1> DEFINE r == b % CounterMod
           s == a % CounterMod
<1>1. s = Step(r, a - b)
  <2>1. Step(r, a - b) = (b + (a - b)) % CounterMod
    BY StepOf
  <2> QED
    BY <2>1
<1>2. r \in Counters /\ s \in Counters
  BY CounterBounds
<1> HIDE DEF r, s
<1> DEFINE d == a - b
<1>3. d \in 0 .. CounterMod - 1
  BY RingAssumption
<1> HIDE DEF d
<1>4. CASE r + d < CounterMod
  <2>1. s = r + d
    BY <1>1, <1>2, <1>3, <1>4, ModSmall, RingAssumption DEF Step, Counters, d
  <2> QED
    BY <1>2, <1>3, <2>1, AheadCases, RingAssumption DEF Counters, r, s, d
<1>5. CASE ~(r + d < CounterMod)
  <2>1. (CounterMod * 1 + (r + d - CounterMod)) % CounterMod = r + d - CounterMod
    BY <1>2, <1>3, <1>5, ModIs, RingAssumption DEF Counters
  <2>2. CounterMod * 1 + (r + d - CounterMod) = r + d
    BY <1>2, <1>3, RingAssumption DEF Counters
  <2>3. s = r + d - CounterMod
    BY <1>1, <2>1, <2>2 DEF Step, d
  <2> QED
    BY <1>2, <1>3, <1>5, <2>3, AheadCases, RingAssumption DEF Counters, r, s, d
<1> QED
  BY <1>4, <1>5

(* A counter that wraps keeps to the slots, since RingN divides 2^32.      *)
LEMMA SlotOfCounter ==
  ASSUME NEW a \in Nat, NEW n \in Nat
  PROVE  SlotOf((a % CounterMod) + n) = SlotOf(a + n)
<1> DEFINE q == a \div CounterMod
           r == a % CounterMod
           k == CounterMod \div RingN
<1>1. r \in Nat /\ q \in Nat /\ a = CounterMod * q + r
  BY DivMod, RingAssumption
<1>2. k \in Nat /\ CounterMod = RingN * k
  BY DivMod, RingAssumption
<1> HIDE DEF q, r, k
<1>3. a + n = RingN * (k * q) + (r + n) /\ k * q \in Nat
  <2>1. CounterMod * q = RingN * (k * q) /\ k * q \in Nat
    BY <1>1, <1>2, RingAssumption
  <2> QED
    BY <1>1, <2>1, RingAssumption
<1>4. (RingN * (k * q) + (r + n)) % RingN = (r + n) % RingN
  <2>1. r + n \in Nat
    BY <1>1
  <2> QED
    BY <1>1, <1>3, <2>1, ModTurns, RingAssumption
<1> QED
  BY <1>3, <1>4 DEF SlotOf, r

LEMMA SlotBounds == ASSUME NEW a \in Nat PROVE SlotOf(a) \in Indices
  BY DivMod, RingAssumption DEF SlotOf, Indices

(* Records less than a ring apart are in different slots.                  *)
LEMMA SlotsDiffer ==
  ASSUME NEW a \in Nat, NEW b \in Nat, a < b, b - a < RingN
  PROVE  SlotOf(a) # SlotOf(b)
<1> DEFINE p == a \div RingN
           q == b \div RingN
<1>1. a = RingN * p + SlotOf(a) /\ p \in Nat /\ SlotOf(a) \in Nat
  BY DivMod, RingAssumption DEF SlotOf
<1>2. b = RingN * q + SlotOf(b) /\ q \in Nat /\ SlotOf(b) \in Nat
  BY DivMod, RingAssumption DEF SlotOf
<1> HIDE DEF p, q
<1> SUFFICES ASSUME SlotOf(a) = SlotOf(b) PROVE FALSE
  OBVIOUS
<1>3. b - a = RingN * (q - p)
  BY <1>1, <1>2, RingAssumption
<1>4. q - p > 0
  BY <1>1, <1>2, <1>3, RingAssumption
<1>5. RingN * (q - p) >= RingN
  BY <1>1, <1>2, <1>4, RingAssumption
<1> QED
  BY <1>3, <1>5, RingAssumption

-----------------------------------------------------------------------------
(* Types.                                                                  *)

LEMMA ChunkLenBounds ==
  ASSUME phead \in Counters, ptail \in Counters
  PROVE  /\ ChunkLen \in Nat /\ ChunkLen <= Ahead(phead, ptail)
         /\ phead # ptail => ChunkLen > 0
  BY AheadBounds, RingAssumption DEF ChunkLen

LEMMA SampleTypes ==
  /\ \A x \in 0 .. MaxSamples : Record(x) \in Records /\ SampleOf(Record(x)) = x
  /\ \A r \in Records : SampleOf(r) \in 0 .. Torn
  BY RingAssumption DEF Record, Records, SampleOf, Torn

(* What the pump hands over is a sequence of samples, torn or not.         *)
LEMMA HandedType ==
  ASSUME chunk \in Seq(Records)
  PROVE  /\ [i \in 1 .. Len(chunk) |-> SampleOf(chunk[i])] \in Seq(0 .. Torn)
         /\ Len([i \in 1 .. Len(chunk) |-> SampleOf(chunk[i])]) = Len(chunk)
<1>1. Len(chunk) \in Nat
  BY LenProperties
<1>2. \A i \in 1 .. Len(chunk) : SampleOf(chunk[i]) \in 0 .. Torn
  BY SampleTypes, ElementOfSeq
<1> QED
  BY <1>1, <1>2

LEMMA RingStays ==
  ASSUME TypeOK
  PROVE  /\ [ring EXCEPT ![SlotOf(head)].first = sampled] \in [Indices -> Records]
         /\ [ring EXCEPT ![SlotOf(head)].rest = sampled] \in [Indices -> Records]
<1>1. /\ SlotOf(head) \in Indices /\ sampled \in 0 .. MaxSamples
      /\ ring \in [Indices -> Records]
  BY SlotBounds DEF TypeOK, Counters
<1>2. /\ [ring[SlotOf(head)] EXCEPT !.first = sampled] \in Records
      /\ [ring[SlotOf(head)] EXCEPT !.rest = sampled] \in Records
  BY <1>1 DEF Records
<1> QED
  BY <1>1, <1>2

(* The state is well typed, but for the bound on the ring.                 *)
Typed ==
    /\ magic \in BOOLEAN /\ imu_ok \in BOOLEAN /\ misled \in BOOLEAN
    /\ head \in Counters /\ tail \in Counters /\ overrun \in Counters
    /\ ring \in [Indices -> Records]
    /\ fpc \in {"boot", "head", "tail", "announce", "wait", "parked",
                "first", "rest", "publish"}
    /\ sampled \in 0 .. MaxSamples
    /\ ppc \in {"sleep", "head", "tail", "copy"}
    /\ phead \in Counters /\ ptail \in Counters
    /\ chunk \in Seq(Records)
    /\ published \in Seq(0 .. MaxSamples) /\ handed \in Seq(0 .. Torn)

LEMMA TypedNext == TypeOK /\ [Next]_vars => Typed'
<1> SUFFICES ASSUME TypeOK, [Next]_vars PROVE Typed'
  OBVIOUS
<1> USE DEF block, flpr, pump, history
<1>0. Typed
  BY DEF TypeOK, Typed
<1>1. CASE Boot
  <2>1. 0 \in Counters
    BY RingAssumption DEF Counters
  <2>2. CASE FlprHidesBlock
    BY <1>0, <2>2 DEF FlprHidesBlock, Typed
  <2>3. CASE FlprClearsHead
    <3>1. misled' \in BOOLEAN
      BY <2>3 DEF FlprClearsHead
    <3> QED
      BY <1>0, <2>1, <2>3, <3>1 DEF FlprClearsHead, Typed
  <2>4. CASE FlprClearsTail
    BY <1>0, <2>1, <2>4 DEF FlprClearsTail, Typed
  <2>5. ASSUME NEW ok \in BOOLEAN, FlprAnnounces(ok) PROVE Typed'
    <3>1. imu_ok' \in BOOLEAN /\ magic' \in BOOLEAN
      BY <2>5 DEF FlprAnnounces
    <3> QED
      BY <1>0, <2>5, <3>1 DEF FlprAnnounces, Typed
  <2> QED
    BY <1>1, <2>2, <2>3, <2>4, <2>5 DEF Boot
<1>2. CASE FlprSamples
  <2>1. sampled' \in 0 .. MaxSamples /\ overrun' \in Counters
    <3>1. Step(overrun, 1) \in Counters
      <4>1. overrun \in Nat /\ 1 \in Nat
        BY <1>0 DEF Typed, Counters
      <4> QED
        BY <4>1, StepBounds
    <3>2. overrun' \in {overrun, Step(overrun, 1)}
      BY <1>2 DEF FlprSamples
    <3>3. sampled' \in 0 .. MaxSamples
      BY <1>0, <1>2, RingAssumption DEF FlprSamples, Typed
    <3> QED
      BY <1>0, <3>1, <3>2, <3>3 DEF Typed
  <2>2. fpc' \in {"wait", "first"}
    BY <1>2 DEF FlprSamples
  <2> QED
    BY <1>0, <1>2, <2>1, <2>2 DEF FlprSamples, Typed
<1>3. CASE FlprStoresFirst \/ FlprStoresRest
  <2>1. ring' \in [Indices -> Records]
    BY <1>3, RingStays DEF FlprStoresFirst, FlprStoresRest
  <2> QED
    BY <1>0, <1>3, <2>1 DEF FlprStoresFirst, FlprStoresRest, Typed
<1>4. CASE FlprPublishes
  <2>1. head' \in Counters /\ published' \in Seq(0 .. MaxSamples)
    <3>1. Step(head, 1) \in Counters
      <4>1. head \in Nat /\ 1 \in Nat
        BY <1>0 DEF Typed, Counters
      <4> QED
        BY <4>1, StepBounds
    <3>2. Append(published, sampled) \in Seq(0 .. MaxSamples)
      BY <1>0, AppendProperties DEF Typed
    <3> QED
      BY <1>4, <3>1, <3>2 DEF FlprPublishes
  <2> QED
    BY <1>0, <1>4, <2>1 DEF FlprPublishes, Typed
<1>5. CASE PumpChecks \/ PumpReadsHead \/ PumpReadsTail
  <2>1. ppc' \in {"head", "tail", "sleep", "copy"}
    BY <1>5 DEF PumpChecks, PumpReadsHead, PumpReadsTail
  <2> QED
    BY <1>0, <1>5, <2>1 DEF PumpChecks, PumpReadsHead, PumpReadsTail, Typed
<1>6. CASE PumpCopies
  <2>1. ptail + Len(chunk) \in Nat
    BY <1>0, LenProperties DEF Typed, Counters
  <2>2. chunk' \in Seq(Records)
    BY <1>0, <1>6, <2>1, SlotBounds, AppendProperties DEF PumpCopies, Typed
  <2> QED
    BY <1>0, <1>6, <2>2 DEF PumpCopies, Typed
<1>7. CASE PumpFrees
  <2>1. ptail' \in Counters /\ tail' \in Counters
    BY <1>0, <1>7, ChunkLenBounds, StepBounds DEF PumpFrees, Typed, Counters
  <2>2. handed' \in Seq(0 .. Torn)
    BY <1>0, <1>7, HandedType, ConcatProperties DEF PumpFrees, Typed
  <2>3. chunk' \in Seq(Records) /\ ppc' \in {"sleep", "copy"}
    BY <1>7, EmptySeq DEF PumpFrees
  <2> QED
    BY <1>0, <1>7, <2>1, <2>2, <2>3 DEF PumpFrees, Typed
<1>8. CASE UNCHANGED vars
  BY <1>0, <1>8 DEF vars, Typed
<1> QED
  BY <1>1, <1>2, <1>3, <1>4, <1>5, <1>6, <1>7, <1>8 DEF Next, Flpr, Pump

-----------------------------------------------------------------------------
LEMMA BootNext == IInv /\ [Next]_vars => BootInv'
<1> SUFFICES ASSUME IInv, [Next]_vars PROVE BootInv'
  OBVIOUS
<1> USE DEF block, flpr, pump, history, Storing
<1>0. TypeOK /\ BootInv
  BY DEF IInv
<1>1. CASE FlprHidesBlock
  BY <1>0, <1>1 DEF FlprHidesBlock, BootInv
<1>2. CASE FlprClearsHead
  <2>1. misled' <=> ppc # "sleep"
    BY <1>2 DEF FlprClearsHead
  <2> QED
    BY <1>0, <1>2, <2>1 DEF FlprClearsHead, BootInv
<1>3. CASE FlprClearsTail
  BY <1>0, <1>3 DEF FlprClearsTail, BootInv
<1>4. ASSUME NEW ok \in BOOLEAN, FlprAnnounces(ok) PROVE BootInv'
  BY <1>0, <1>4 DEF FlprAnnounces, BootInv
<1>5. CASE FlprSamples
  <2>1. sampled' > 0 /\ fpc' \in {"wait", "first"}
    BY <1>0, <1>5 DEF FlprSamples, TypeOK
  <2> QED
    BY <1>0, <1>5, <2>1 DEF FlprSamples, BootInv
<1>6. CASE FlprStoresFirst \/ FlprStoresRest \/ FlprPublishes
  BY <1>0, <1>6 DEF FlprStoresFirst, FlprStoresRest, FlprPublishes, BootInv
<1>7. CASE PumpChecks
  BY <1>0, <1>7 DEF PumpChecks, BootInv
<1>8. CASE PumpReadsHead \/ PumpReadsTail
  BY <1>0, <1>8 DEF PumpReadsHead, PumpReadsTail, BootInv
<1>9. CASE PumpCopies
  BY <1>0, <1>9 DEF PumpCopies, BootInv
<1>10. CASE PumpFrees
  <2>1. misled \/ fpc \notin {"tail", "announce"}
    BY <1>0, <1>10 DEF PumpFrees, BootInv
  <2>2. fpc \in {"boot", "head"} => handed' = handed
    BY <1>10 DEF PumpFrees
  <2> QED
    BY <1>0, <1>10, <2>1, <2>2 DEF PumpFrees, BootInv
<1>11. CASE UNCHANGED vars
  BY <1>0, <1>11 DEF vars, BootInv
<1> QED
  BY <1>1, <1>2, <1>3, <1>4, <1>5, <1>6, <1>7, <1>8, <1>9, <1>10, <1>11
     DEF Next, Boot, Flpr, Pump

-----------------------------------------------------------------------------
(* The counters.                                                           *)

LEMMA CountsAreNat == ASSUME TypeOK PROVE Published \in Nat /\ Taken \in Nat
  BY LenProperties DEF TypeOK, Published, Taken

(* The distance of the counters is the number of records in the ring.      *)
LEMMA AheadCounts ==
  ASSUME TypeOK, CountInv, ~misled, Live
  PROVE  Ahead(head, tail) = Published - Taken
<1>1. /\ Published \in Nat /\ Taken \in Nat /\ Taken <= Published
      /\ Published - Taken < CounterMod
      /\ head = Published % CounterMod /\ tail = Taken % CounterMod
  BY CountsAreNat, RingAssumption DEF CountInv
<1> QED
  BY <1>1, AheadOf

(* A step that leaves the counters, and what the pump knows of them.       *)
LEMMA CountSame ==
  ASSUME CountInv, UNCHANGED <<head, tail, phead, ptail, ppc, chunk, published,
                               handed, misled>>,
         Live' => Live, Storing' /\ ~misled => Storing \/ ~RingFull,
         TypeOK
  PROVE  CountInv'
<1> SUFFICES ASSUME ~misled, Live'
             PROVE  CountInv'
  BY DEF CountInv
<1>1. /\ Taken <= Published /\ Published - Taken <= RingN
      /\ head = Published % CounterMod /\ tail = Taken % CounterMod
      /\ Storing => Published - Taken < RingN
      /\ ppc \in {"tail", "copy"} => Ahead(phead, tail) <= Published - Taken
      /\ ppc = "copy" => /\ ptail = tail /\ phead # tail
                         /\ Len(chunk) <= ChunkLen
  BY DEF CountInv
<1>2. Published' = Published /\ Taken' = Taken /\ ChunkLen' = ChunkLen
      /\ Ahead(phead, tail)' = Ahead(phead, tail)
  BY DEF Published, Taken, ChunkLen, Ahead
<1>3. Storing' => Published - Taken < RingN
  <2>1. ~RingFull => Published - Taken < RingN
    <3>1. Ahead(head, tail) = Published - Taken /\ Published - Taken \in Int
      BY AheadCounts, CountsAreNat
    <3> QED
      BY <3>1, RingAssumption DEF RingFull
  <2> QED
    BY <1>1, <2>1
<1> QED
  BY <1>1, <1>2, <1>3 DEF CountInv

LEMMA CountNext == IInv /\ [Next]_vars => CountInv'
<1> SUFFICES ASSUME IInv, [Next]_vars PROVE CountInv'
  OBVIOUS
<1> USE DEF block, flpr, pump, history
<1>0. /\ TypeOK /\ BootInv /\ CountInv
      /\ Published \in Nat /\ Taken \in Nat
  BY CountsAreNat DEF IInv
<1>1. CASE FlprHidesBlock \/ FlprClearsHead \/ FlprClearsTail
  <2>1. ~Live'
    BY <1>1 DEF FlprHidesBlock, FlprClearsHead, FlprClearsTail, Live
  <2> QED
    BY <2>1 DEF CountInv
<1>2. ASSUME NEW ok \in BOOLEAN, FlprAnnounces(ok) PROVE CountInv'
  <2> SUFFICES ASSUME ~misled' PROVE CountInv'
    BY DEF CountInv
  <2>1. /\ published' = <<>> /\ handed' = <<>> /\ head' = 0 /\ tail' = 0
        /\ ppc' = "sleep" /\ ~Storing'
    BY <1>0, <1>2 DEF FlprAnnounces, BootInv, Storing
  <2>2. Published' = 0 /\ Taken' = 0
    BY <2>1 DEF Published, Taken
  <2>3. 0 % CounterMod = 0
    BY ModSmall, RingAssumption
  <2> QED
    BY <2>1, <2>2, <2>3, RingAssumption DEF CountInv
<1>3. CASE FlprSamples
  <2>1. Storing' => ~RingFull
    BY <1>3 DEF FlprSamples, Storing
  <2> QED
    BY <1>0, <1>3, <2>1, CountSame DEF FlprSamples, Live
<1>4. CASE FlprStoresFirst \/ FlprStoresRest
  BY <1>0, <1>4, CountSame DEF FlprStoresFirst, FlprStoresRest, Live, Storing
<1>5. CASE FlprPublishes
  <2> SUFFICES ASSUME ~misled' PROVE CountInv'
    BY DEF CountInv
  <2>1. /\ ~misled /\ Live /\ Storing /\ ~Storing'
    BY <1>5 DEF FlprPublishes, Live, Storing
  <2>2. Published' = Published + 1 /\ Taken' = Taken
    BY <1>0, <1>5, AppendProperties DEF FlprPublishes, Published, Taken, TypeOK
  <2>3. head' = (Published + 1) % CounterMod
    BY <1>0, <1>5, <2>1, StepOf DEF FlprPublishes, CountInv
  <2>4. /\ Taken <= Published /\ Published - Taken < RingN
        /\ tail = Taken % CounterMod
        /\ ppc \in {"tail", "copy"} => Ahead(phead, tail) <= Published - Taken
        /\ ppc = "copy" => /\ ptail = tail /\ phead # tail
                           /\ Len(chunk) <= ChunkLen
    BY <1>0, <2>1 DEF CountInv
  <2>5. UNCHANGED <<tail, phead, ptail, ppc, chunk>> /\ ChunkLen' = ChunkLen
        /\ Ahead(phead, tail)' = Ahead(phead, tail)
    BY <1>5 DEF FlprPublishes, ChunkLen, Ahead
  <2>6. Ahead(phead, tail) \in Int
    BY <1>0, AheadBounds DEF TypeOK
  <2> QED
    BY <1>0, <2>1, <2>2, <2>3, <2>4, <2>5, <2>6, RingAssumption DEF CountInv
<1>6. CASE PumpChecks \/ PumpReadsHead \/ PumpReadsTail
  <2> SUFFICES ASSUME ~misled', Live' PROVE CountInv'
    BY DEF CountInv
  <2>1. /\ ~misled /\ Live
        /\ UNCHANGED <<head, tail, chunk, published, handed, fpc>>
    BY <1>6 DEF PumpChecks, PumpReadsHead, PumpReadsTail, Live
  <2>2. Published' = Published /\ Taken' = Taken /\ (Storing' <=> Storing)
    BY <2>1 DEF Published, Taken, Storing
  <2>3. /\ Taken <= Published /\ Published - Taken <= RingN
        /\ head = Published % CounterMod /\ tail = Taken % CounterMod
        /\ Storing => Published - Taken < RingN
    BY <1>0, <2>1 DEF CountInv
  <2>4. ppc' \in {"tail", "copy"} => Ahead(phead', tail') <= Published - Taken
    <3>1. CASE PumpChecks
      BY <3>1 DEF PumpChecks
    <3>2. CASE PumpReadsHead
      BY <1>0, <2>1, <3>2, AheadCounts DEF PumpReadsHead
    <3>3. CASE PumpReadsTail
      BY <1>0, <2>1, <3>3 DEF PumpReadsTail, CountInv
    <3> QED
      BY <1>6, <3>1, <3>2, <3>3
  <2>5. ppc' = "copy" => /\ ptail' = tail' /\ phead' # tail'
                         /\ Len(chunk') <= ChunkLen'
    <3> SUFFICES ASSUME ppc' = "copy"
                 PROVE  /\ ptail' = tail' /\ phead' # tail'
                        /\ Len(chunk') <= ChunkLen'
      OBVIOUS
    <3>1. PumpReadsTail
      BY <1>6 DEF PumpChecks, PumpReadsHead
    <3>2. ptail' = tail' /\ phead' # tail' /\ chunk' = <<>>
      BY <1>0, <3>1 DEF PumpReadsTail, BootInv
    <3>3. phead' \in Counters /\ ptail' \in Counters
      BY <1>0, TypedNext DEF Typed
    <3>4. ChunkLen' \in Nat
      BY <3>3, AheadBounds, RingAssumption DEF ChunkLen
    <3> QED
      BY <3>2, <3>4
  <2> QED
    BY <2>1, <2>2, <2>3, <2>4, <2>5 DEF CountInv
<1>7. CASE PumpCopies
  <2> SUFFICES ASSUME ~misled', Live' PROVE CountInv'
    BY DEF CountInv
  <2>1. Len(chunk') = Len(chunk) + 1 /\ Len(chunk) \in Nat
    <3>1. chunk \in Seq(Records) /\ ring[SlotOf(ptail + Len(chunk))] \in Records
      <4>1. ptail + Len(chunk) \in Nat
        BY <1>0, LenProperties DEF TypeOK, Counters
      <4> QED
        BY <1>0, <4>1, SlotBounds DEF TypeOK
    <3> QED
      BY <1>7, <3>1, AppendProperties, LenProperties DEF PumpCopies
  <2>2. ChunkLen' = ChunkLen /\ ChunkLen \in Nat
    BY <1>0, <1>7, ChunkLenBounds DEF PumpCopies, ChunkLen, TypeOK
  <2>3. Len(chunk') <= ChunkLen'
    BY <1>7, <2>1, <2>2 DEF PumpCopies
  <2>4. /\ ~misled /\ Live /\ ppc = "copy"
        /\ UNCHANGED <<head, tail, phead, ptail, ppc, published, handed, fpc>>
    BY <1>7 DEF PumpCopies, Live
  <2>5. Published' = Published /\ Taken' = Taken /\ (Storing' <=> Storing)
        /\ Ahead(phead, tail)' = Ahead(phead, tail)
    BY <2>4 DEF Published, Taken, Storing, Ahead
  <2> QED
    BY <1>0, <2>3, <2>4, <2>5 DEF CountInv
<1>8. CASE PumpFrees
  <2> SUFFICES ASSUME ~misled', Live' PROVE CountInv'
    BY DEF CountInv
  <2> DEFINE n == ChunkLen
             a == Ahead(phead, tail)
  <2>1. /\ ~misled /\ Live /\ ppc = "copy" /\ Len(chunk) = n
        /\ UNCHANGED <<head, phead, published, fpc>>
    BY <1>8 DEF PumpFrees, Live
  <2>2. /\ Taken <= Published /\ Published - Taken <= RingN
        /\ head = Published % CounterMod /\ tail = Taken % CounterMod
        /\ Storing => Published - Taken < RingN
        /\ a <= Published - Taken /\ ptail = tail /\ phead # tail
    BY <1>0, <2>1 DEF CountInv
  <2>3. n \in Nat /\ n > 0 /\ n <= a /\ a \in Nat
    BY <1>0, <2>2, ChunkLenBounds, AheadBounds DEF TypeOK, Counters
  <2>4. Taken' = Taken + n /\ Published' = Published /\ (Storing' <=> Storing)
    <3>1. handed' = handed \o [i \in 1 .. Len(chunk) |-> SampleOf(chunk[i])]
      BY <1>8, <2>1 DEF PumpFrees, Live
    <3> QED
      BY <1>0, <2>1, <3>1, HandedType, ConcatProperties
         DEF Published, Taken, Storing, TypeOK
  <2>5. tail' = (Taken + n) % CounterMod /\ ptail' = tail'
    BY <1>0, <1>8, <2>2, <2>3, StepOf DEF PumpFrees
  <2>6. phead = (Taken + a) % CounterMod
    BY <1>0, <2>2, <2>3, StepAhead, StepOf DEF TypeOK
  <2>7. Ahead(phead', tail') = a - n
    <3>1. Ahead((Taken + a) % CounterMod, (Taken + n) % CounterMod) = a - n
      <4>1. /\ Taken + a \in Nat /\ Taken + n \in Nat /\ Taken + n <= Taken + a
            /\ (Taken + a) - (Taken + n) = a - n /\ a - n < CounterMod
        BY <1>0, <2>2, <2>3, RingAssumption
      <4> QED
        BY <4>1, AheadOf
    <3> QED
      BY <2>1, <2>5, <2>6, <3>1
  <2>8. ppc' = "copy" => ptail' = tail' /\ phead' # tail'
    BY <1>8, <2>1, <2>5 DEF PumpFrees
  <2>9. Len(chunk') <= ChunkLen'
    <3>1. chunk' = <<>> /\ phead' \in Counters /\ ptail' \in Counters
      BY <1>0, <1>8, TypedNext DEF PumpFrees, Typed
    <3>2. ChunkLen' \in Nat
      BY <3>1, AheadBounds, RingAssumption DEF ChunkLen
    <3> QED
      BY <3>1, <3>2
  <2> HIDE DEF n, a
  <2>10. /\ Taken + n <= Published /\ Published - (Taken + n) <= RingN
         /\ Storing => Published - (Taken + n) < RingN
         /\ a - n <= Published - (Taken + n)
    BY <1>0, <2>2, <2>3, RingAssumption DEF a
  <2> QED
    BY <2>1, <2>2, <2>4, <2>5, <2>7, <2>8, <2>9, <2>10 DEF CountInv
<1>9. CASE UNCHANGED vars
  BY <1>0, <1>9, CountSame DEF vars, Live, Storing
<1> QED
  BY <1>1, <1>2, <1>3, <1>4, <1>5, <1>6, <1>7, <1>8, <1>9
     DEF Next, Boot, Flpr, Pump

-----------------------------------------------------------------------------
(* The records.                                                            *)

(* A step that touches neither the ring nor what is in it.                 *)
LEMMA ContentSame ==
  ASSUME ContentInv,
         UNCHANGED <<ring, chunk, published, handed, misled, head>>,
         Live' => Live,
         fpc' \in {"rest", "publish"} => fpc' = fpc /\ sampled' = sampled
  PROVE  ContentInv'
  BY DEF ContentInv, Published, Taken

(* The slot that is written is none of those that hold a record.           *)
LEMMA WriteKeepsRecords ==
  ASSUME TypeOK, CountInv, ContentInv, ~misled, Storing,
         NEW k \in Taken .. Published - 1
  PROVE  SlotOf(head) \in Indices /\ SlotOf(k) # SlotOf(head) /\ SlotOf(k) \in Indices
<1>1. /\ Published \in Nat /\ Taken \in Nat /\ k \in Nat
      /\ Published - Taken < RingN /\ head = Published % CounterMod
  BY CountsAreNat DEF CountInv, Live, Storing
<1>2. SlotOf(head) = SlotOf(Published)
  <2>1. head + 0 = head /\ Published + 0 = Published
    BY <1>1 DEF TypeOK, Counters
  <2>2. SlotOf(head + 0) = SlotOf(Published + 0)
    BY <1>1, SlotOfCounter
  <2> QED
    BY <2>1, <2>2
<1>3. SlotOf(k) # SlotOf(Published)
  <2>1. k < Published /\ Published - k < RingN
    BY <1>1, RingAssumption
  <2> QED
    BY <1>1, <2>1, SlotsDiffer
<1> QED
  BY <1>1, <1>2, <1>3, SlotBounds

LEMMA ContentNext == IInv /\ [Next]_vars => ContentInv'
<1> SUFFICES ASSUME IInv, [Next]_vars PROVE ContentInv'
  OBVIOUS
<1> USE DEF block, flpr, pump, history
<1>0. /\ TypeOK /\ BootInv /\ CountInv /\ ContentInv
      /\ Published \in Nat /\ Taken \in Nat
  BY CountsAreNat DEF IInv
<1>1. CASE FlprHidesBlock \/ FlprClearsHead \/ FlprClearsTail
  <2>1. ~Live'
    BY <1>1 DEF FlprHidesBlock, FlprClearsHead, FlprClearsTail, Live
  <2> QED
    BY <2>1 DEF ContentInv
<1>2. ASSUME NEW ok \in BOOLEAN, FlprAnnounces(ok) PROVE ContentInv'
  <2> SUFFICES ASSUME ~misled' PROVE ContentInv'
    BY DEF ContentInv
  <2>1. /\ published' = <<>> /\ handed' = <<>> /\ chunk' = <<>>
        /\ fpc' \in {"wait", "parked"}
    BY <1>0, <1>2 DEF FlprAnnounces, BootInv
  <2>2. Published' = 0 /\ Taken' = 0 /\ Len(chunk') = 0
    BY <2>1 DEF Published, Taken
  <2> QED
    BY <2>1, <2>2 DEF ContentInv
<1>3. CASE FlprSamples
  <2>1. fpc' \in {"wait", "first"} /\ Live
    BY <1>3 DEF FlprSamples, Live
  <2> QED
    BY <1>0, <1>3, <2>1, ContentSame DEF FlprSamples
<1>4. CASE FlprStoresFirst \/ FlprStoresRest
  <2> SUFFICES ASSUME ~misled' PROVE ContentInv'
    BY DEF ContentInv
  <2>1. /\ ~misled /\ Live /\ Storing
        /\ UNCHANGED <<head, chunk, published, handed, sampled>>
    BY <1>4 DEF FlprStoresFirst, FlprStoresRest, Live, Storing
  <2>2. Published' = Published /\ Taken' = Taken
    BY <2>1 DEF Published, Taken
  <2>3. /\ \A k \in Taken .. Published - 1 :
             ring[SlotOf(k)] = Record(published[k + 1])
        /\ \A i \in 1 .. Len(chunk) : chunk[i] = Record(published[Taken + i])
        /\ fpc = "rest" => ring[SlotOf(head)].first = sampled
    BY <1>0, <2>1 DEF ContentInv
  <2>4. ASSUME NEW k \in Taken .. Published - 1
        PROVE  ring'[SlotOf(k)] = Record(published[k + 1])
    <3>1. SlotOf(k) # SlotOf(head) /\ SlotOf(k) \in Indices
      BY <1>0, <2>1, WriteKeepsRecords
    <3>2. ring'[SlotOf(k)] = ring[SlotOf(k)]
      BY <1>0, <1>4, <3>1 DEF FlprStoresFirst, FlprStoresRest, TypeOK
    <3> QED
      BY <2>3, <3>2
  <2>5. /\ SlotOf(head) \in Indices /\ ring \in [Indices -> Records]
        /\ SlotOf(head)' = SlotOf(head)
    BY <1>0, <2>1, SlotBounds DEF TypeOK, Counters, SlotOf
  <2>6. CASE FlprStoresFirst
    <3>1. fpc' = "rest" /\ ring'[SlotOf(head)].first = sampled
      BY <2>5, <2>6 DEF FlprStoresFirst, Records
    <3> QED
      BY <2>1, <2>2, <2>3, <2>4, <2>5, <3>1 DEF ContentInv
  <2>7. CASE FlprStoresRest
    <3>1. fpc' = "publish" /\ fpc = "rest"
      BY <2>7 DEF FlprStoresRest
    <3>2. ring'[SlotOf(head)] = Record(sampled)
      BY <2>3, <2>5, <2>7, <3>1 DEF FlprStoresRest, Records, Record
    <3> QED
      BY <2>1, <2>2, <2>3, <2>4, <2>5, <3>1, <3>2 DEF ContentInv
  <2> QED
    BY <1>4, <2>6, <2>7
<1>5. CASE FlprPublishes
  <2> SUFFICES ASSUME ~misled' PROVE ContentInv'
    BY DEF ContentInv
  <2>1. /\ ~misled /\ Live /\ Storing /\ fpc = "publish" /\ fpc' = "wait"
        /\ UNCHANGED <<ring, chunk, handed>>
        /\ published' = Append(published, sampled)
    BY <1>5 DEF FlprPublishes, Live, Storing
  <2>2. /\ Published' = Published + 1 /\ Taken' = Taken
        /\ \A k \in 1 .. Published : published'[k] = published[k]
        /\ published'[Published + 1] = sampled
    BY <1>0, <2>1, AppendProperties DEF Published, Taken, TypeOK
  <2>3. /\ \A k \in Taken .. Published - 1 :
             ring[SlotOf(k)] = Record(published[k + 1])
        /\ \A i \in 1 .. Len(chunk) : chunk[i] = Record(published[Taken + i])
        /\ ring[SlotOf(head)] = Record(sampled)
    BY <1>0, <2>1 DEF ContentInv
  <2>4. /\ ppc = "copy" => Len(chunk) <= Published - Taken
        /\ Len(chunk) \in Nat
        /\ ppc # "copy" => Len(chunk) = 0
    <3>1. Len(chunk) \in Nat /\ (chunk = <<>> => Len(chunk) = 0)
      BY <1>0, LenProperties DEF TypeOK
    <3>2. ppc = "copy" => /\ Len(chunk) <= ChunkLen /\ ptail = tail
                          /\ Ahead(phead, tail) <= Published - Taken
      BY <1>0, <2>1 DEF CountInv
    <3>3. ChunkLen \in Nat /\ ChunkLen <= Ahead(phead, ptail)
      BY <1>0, ChunkLenBounds DEF TypeOK
    <3>4. Ahead(phead, tail) \in Int
      BY <1>0, AheadBounds DEF TypeOK
    <3> QED
      BY <1>0, <3>1, <3>2, <3>3, <3>4 DEF BootInv
  <2>5. SlotOf(head) = SlotOf(Published)
    <3>1. head = Published % CounterMod
      BY <1>0, <2>1 DEF CountInv
    <3>2. SlotOf((Published % CounterMod) + 0) = SlotOf(Published + 0)
      BY <1>0, SlotOfCounter
    <3>3. head + 0 = head /\ Published + 0 = Published
      BY <1>0 DEF TypeOK, Counters
    <3> QED
      BY <3>1, <3>2, <3>3
  <2>6. ASSUME NEW k \in Taken .. Published
        PROVE  ring[SlotOf(k)] = Record(published'[k + 1])
    <3>1. CASE k = Published
      BY <2>2, <2>3, <2>5, <3>1
    <3>2. CASE k < Published
      <4>1. k \in Taken .. Published - 1 /\ k + 1 \in 1 .. Published
        BY <1>0, <3>2
      <4> QED
        BY <2>2, <2>3, <4>1
    <3> QED
      BY <1>0, <3>1, <3>2
  <2>7. ASSUME NEW i \in 1 .. Len(chunk)
        PROVE  chunk[i] = Record(published'[Taken + i])
    <3>1. Taken + i \in 1 .. Published
      BY <1>0, <2>4
    <3> QED
      BY <2>2, <2>3, <3>1
  <2>8. Taken' .. Published' - 1 = Taken .. Published
    BY <1>0, <2>2
  <2> QED
    BY <2>1, <2>2, <2>6, <2>7, <2>8 DEF ContentInv
<1>6. CASE PumpChecks \/ PumpReadsHead \/ PumpReadsTail
  BY <1>0, <1>6, ContentSame DEF PumpChecks, PumpReadsHead, PumpReadsTail, Live
<1>7. CASE PumpCopies
  <2> SUFFICES ASSUME ~misled', Live' PROVE ContentInv'
    BY DEF ContentInv
  <2> DEFINE n == Len(chunk)
             new == ring[SlotOf(ptail + n)]
  <2>1. /\ ~misled /\ Live /\ ppc = "copy" /\ n < ChunkLen
        /\ chunk' = Append(chunk, new)
        /\ UNCHANGED <<head, ring, published, handed, fpc, sampled>>
    BY <1>7 DEF PumpCopies, Live
  <2>2. Published' = Published /\ Taken' = Taken
    BY <2>1 DEF Published, Taken
  <2>3. /\ tail = Taken % CounterMod /\ ptail = tail
        /\ Ahead(phead, tail) <= Published - Taken
    BY <1>0, <2>1 DEF CountInv
  <2>4. n \in Nat /\ Taken + n \in Taken .. Published - 1
    <3>1. n \in Nat /\ ChunkLen \in Nat /\ ChunkLen <= Ahead(phead, ptail)
      BY <1>0, LenProperties, ChunkLenBounds DEF TypeOK
    <3>2. Ahead(phead, ptail) \in Int
      BY <1>0, AheadBounds DEF TypeOK
    <3> QED
      BY <1>0, <2>1, <2>3, <3>1, <3>2
  <2>5. SlotOf(ptail + n) = SlotOf(Taken + n)
    BY <1>0, <2>3, <2>4, SlotOfCounter
  <2>6. new = Record(published[Taken + n + 1])
    BY <1>0, <2>1, <2>4, <2>5 DEF ContentInv
  <2>7. /\ Len(chunk') = n + 1 /\ chunk'[n + 1] = new
        /\ \A i \in 1 .. n : chunk'[i] = chunk[i]
    <3>1. new \in Records /\ chunk \in Seq(Records)
      <4>1. ptail + n \in Nat
        BY <1>0, <2>4 DEF TypeOK, Counters
      <4> QED
        BY <1>0, <4>1, SlotBounds DEF TypeOK
    <3> HIDE DEF new
    <3> QED
      BY <2>1, <3>1, AppendProperties
  <2> HIDE DEF n, new
  <2>8. ASSUME NEW i \in 1 .. n + 1
        PROVE  chunk'[i] = Record(published[Taken + i])
    <3>1. CASE i = n + 1
      <4>1. Taken + i = Taken + n + 1
        BY <1>0, <2>4, <3>1
      <4> QED
        BY <2>6, <2>7, <3>1, <4>1
    <3>2. CASE i \in 1 .. n
      BY <1>0, <2>1, <2>7, <3>2 DEF ContentInv, n
    <3> QED
      BY <2>4, <3>1, <3>2
  <2> QED
    BY <1>0, <2>1, <2>2, <2>7, <2>8 DEF ContentInv, SlotOf
<1>8. CASE PumpFrees
  <2> SUFFICES ASSUME ~misled', Live' PROVE ContentInv'
    BY DEF ContentInv
  <2>1. /\ ~misled /\ Live /\ chunk' = <<>>
        /\ UNCHANGED <<head, ring, published, fpc, sampled>>
        /\ handed' = handed \o [i \in 1 .. Len(chunk) |-> SampleOf(chunk[i])]
    BY <1>8 DEF PumpFrees, Live
  <2>2. Published' = Published /\ Taken' \in Nat /\ Taken' >= Taken
    <3>1. Taken' = Taken + Len(chunk) /\ Len(chunk) \in Nat
      BY <1>0, <2>1, HandedType, ConcatProperties, LenProperties DEF Taken, TypeOK
    <3> QED
      BY <1>0, <2>1, <3>1 DEF Published
  <2>3. \A k \in Taken .. Published - 1 :
          ring[SlotOf(k)] = Record(published[k + 1])
    BY <1>0, <2>1 DEF ContentInv
  <2>4. \A k \in Taken' .. Published' - 1 : k \in Taken .. Published - 1
    BY <1>0, <2>2
  <2>5. Len(chunk') = 0
    BY <2>1
  <2> QED
    BY <1>0, <2>1, <2>2, <2>3, <2>4, <2>5 DEF ContentInv, SlotOf
<1>9. CASE UNCHANGED vars
  BY <1>0, <1>9, ContentSame DEF vars, Live
<1> QED
  BY <1>1, <1>2, <1>3, <1>4, <1>5, <1>6, <1>7, <1>8, <1>9
     DEF Next, Boot, Flpr, Pump

-----------------------------------------------------------------------------
LEMMA InitInv == Init => IInv
<1> SUFFICES ASSUME Init PROVE IInv
  OBVIOUS
<1>1. head \in Counters /\ tail \in Counters /\ 0 \in Counters
  <2>1. 0 \in Counters
    BY RingAssumption DEF Counters
  <2>2. tail \in Counters
    BY <2>1 DEF Init
  <2>3. head = 0 \/ \E k \in 0 .. RingN : head = (tail + k) % CounterMod
    BY DEF Init
  <2>4. ASSUME NEW k \in 0 .. RingN, head = (tail + k) % CounterMod
        PROVE  head \in Counters
    <3>1. tail + k \in Nat
      BY <2>2, RingAssumption DEF Counters
    <3> QED
      BY <2>4, <3>1, CounterBounds
  <2> QED
    BY <2>1, <2>2, <2>3, <2>4
<1>2. ring \in [Indices -> Records] /\ sampled \in 0 .. MaxSamples
  <2>1. 0 \in 0 .. MaxSamples
    BY RingAssumption
  <2> QED
    BY <2>1, SampleTypes DEF Init
<1>3. TypeOK
  BY <1>1, <1>2, EmptySeq DEF Init, TypeOK, RingBounded
<1>4. BootInv /\ CountInv /\ ContentInv
  BY DEF Init, BootInv, CountInv, ContentInv, Live, Storing
<1> QED
  BY <1>3, <1>4 DEF IInv

LEMMA NextInv == IInv /\ [Next]_vars => IInv'
<1> SUFFICES ASSUME IInv, [Next]_vars PROVE IInv'
  OBVIOUS
<1>1. Typed' /\ BootInv' /\ CountInv' /\ ContentInv'
  BY TypedNext, BootNext, CountNext, ContentNext DEF IInv
<1>2. RingBounded'
  <2> SUFFICES ASSUME ~misled', Live' PROVE Ahead(head', tail') <= RingN
    BY DEF RingBounded, Live, Ahead
  <2>1. /\ Published' \in Nat /\ Taken' \in Nat
        /\ Taken' <= Published' /\ Published' - Taken' <= RingN
        /\ head' = Published' % CounterMod /\ tail' = Taken' % CounterMod
    BY <1>1, LenProperties DEF CountInv, Typed, Published, Taken
  <2>2. Ahead(head', tail') = Published' - Taken'
    <3> DEFINE p == Published'
               t == Taken'
    <3>1. RingN < CounterMod /\ RingN \in Nat /\ CounterMod \in Nat
      BY RingAssumption
    <3> HIDE DEF p, t
    <3>2. p \in Nat /\ t \in Nat /\ t <= p /\ p - t <= RingN
      BY <2>1 DEF p, t
    <3>3. p - t < CounterMod
      BY <3>1, <3>2
    <3>4. Ahead(p % CounterMod, t % CounterMod) = p - t
      BY <3>2, <3>3, AheadOf
    <3> QED
      BY <2>1, <3>4 DEF p, t
  <2> QED
    BY <2>1, <2>2
<1> QED
  BY <1>1, <1>2 DEF IInv, TypeOK, Typed

(* The inductive invariant, for any ring, any chunk, any counter that the  *)
(* ring's size divides, and whatever a warm reset has left in the block.   *)
THEOREM Inductive == Spec => []IInv
  BY InitInv, NextInv, PTL DEF Spec

(* The ring of imu_shared.h never holds more than IMU_RING_N records, as   *)
(* far as main() of the FLPR can see it by head and tail.                  *)
THEOREM TypeCorrect == Spec => []TypeOK
<1>1. IInv => TypeOK
  BY DEF IInv
<1> QED
  BY <1>1, Inductive, PTL

-----------------------------------------------------------------------------
(* The refinement of SampleQueue.                                          *)

(* The queue's buffer: what is published and not yet handed over.          *)
Rest(p, t) == SubSeq(p, t + 1, Len(p))
Pending == Rest(published, Taken)

LEMMA RestProperties ==
  ASSUME NEW S, NEW p \in Seq(S), NEW t \in 0 .. Len(p)
  PROVE  /\ Rest(p, t) \in Seq(S) /\ Len(Rest(p, t)) = Len(p) - t
         /\ \A i \in 1 .. Len(p) - t : Rest(p, t)[i] = p[t + i]
<1> DEFINE m == t + 1
           n == Len(p)
<1>1. n \in Nat /\ t \in Nat /\ t <= n /\ m \in Nat
  BY LenProperties
<1>2. \A i \in m .. n : p[i] \in S
  <2> SUFFICES ASSUME NEW i \in m .. n PROVE p[i] \in S
    OBVIOUS
  <2>1. i \in 1 .. Len(p)
    BY <1>1
  <2> QED
    BY <2>1, ElementOfSeq
<1>3. n - m + 1 = n - t /\ \A i \in 1 .. n - t : m + i - 1 = t + i
  BY <1>1
<1>4. m <= n \/ n - t = 0
  BY <1>1
<1> HIDE DEF m, n
<1>5. /\ SubSeq(p, m, n) \in Seq(S)
      /\ Len(SubSeq(p, m, n)) = IF m <= n THEN n - m + 1 ELSE 0
      /\ \A i \in 1 .. n - m + 1 : SubSeq(p, m, n)[i] = p[m + i - 1]
  BY <1>1, <1>2, SubSeqProperties
<1>6. Len(SubSeq(p, m, n)) = n - t
  BY <1>3, <1>4, <1>5, <1>1 DEF m
<1> QED
  BY <1>3, <1>5, <1>6 DEF m, n, Rest

LEMMA RestOfAppend ==
  ASSUME NEW S, NEW p \in Seq(S), NEW t \in 0 .. Len(p), NEW e \in S
  PROVE  Rest(Append(p, e), t) = Append(Rest(p, t), e)
<1> DEFINE q == Append(p, e)
           a == Rest(q, t)
           b == Rest(p, t)
           c == Append(b, e)
<1>1. /\ Len(p) \in Nat /\ t \in Nat /\ t <= Len(p)
      /\ q \in Seq(S) /\ Len(q) = Len(p) + 1
      /\ \A i \in 1 .. Len(p) : q[i] = p[i]
      /\ q[Len(p) + 1] = e
  BY AppendProperties, LenProperties
<1> HIDE DEF q
<1>2. /\ b \in Seq(S) /\ Len(b) = Len(p) - t
      /\ \A i \in 1 .. Len(p) - t : b[i] = p[t + i]
  BY RestProperties
<1>3. t \in 0 .. Len(q)
  BY <1>1
<1>4. /\ a \in Seq(S) /\ Len(a) = Len(q) - t
      /\ \A i \in 1 .. Len(q) - t : a[i] = q[t + i]
  BY <1>1, <1>3, RestProperties
<1> HIDE DEF a, b
<1>5. /\ c \in Seq(S) /\ Len(c) = Len(b) + 1
      /\ \A i \in 1 .. Len(b) : c[i] = b[i]
      /\ c[Len(b) + 1] = e
  BY <1>2, AppendProperties
<1> HIDE DEF c
<1>6. ASSUME NEW i \in 1 .. Len(a) PROVE a[i] = c[i]
  <2>1. CASE i = Len(p) + 1 - t
    <3>1. t + i = Len(p) + 1 /\ i = Len(b) + 1
      BY <1>1, <1>2, <2>1
    <3> QED
      BY <1>1, <1>4, <1>5, <3>1
  <2>2. CASE i # Len(p) + 1 - t
    <3>0. i \in 1 .. Len(p) + 1 - t
      BY <1>1, <1>4
    <3>1. i \in 1 .. Len(p) - t /\ t + i \in 1 .. Len(p) /\ i \in 1 .. Len(q) - t
      BY <1>1, <2>2, <3>0
    <3> QED
      BY <1>1, <1>2, <1>4, <1>5, <3>1
  <2> QED
    BY <2>1, <2>2
<1>7. Len(a) = Len(c)
  BY <1>1, <1>2, <1>4, <1>5
<1>8. a = c
  BY <1>4, <1>5, <1>6, <1>7, SeqEqual
<1> QED
  BY <1>8 DEF a, b, c, q

LEMMA RestOfRest ==
  ASSUME NEW S, NEW p \in Seq(S), NEW t \in 0 .. Len(p), NEW n \in 0 .. Len(p) - t
  PROVE  Rest(p, t + n) = Rest(Rest(p, t), n)
<1> DEFINE b == Rest(p, t)
           a == Rest(p, t + n)
           c == Rest(b, n)
<1>1. Len(p) \in Nat /\ t \in Nat /\ n \in Nat /\ t + n \in 0 .. Len(p)
  BY LenProperties
<1>2. /\ b \in Seq(S) /\ Len(b) = Len(p) - t
      /\ \A i \in 1 .. Len(p) - t : b[i] = p[t + i]
  BY RestProperties
<1>3. /\ a \in Seq(S) /\ Len(a) = Len(p) - (t + n)
      /\ \A i \in 1 .. Len(p) - (t + n) : a[i] = p[t + n + i]
  BY <1>1, RestProperties
<1> HIDE DEF a, b
<1>4. n \in 0 .. Len(b)
  BY <1>2
<1>5. /\ c \in Seq(S) /\ Len(c) = Len(b) - n
      /\ \A i \in 1 .. Len(b) - n : c[i] = b[n + i]
  BY <1>2, <1>4, RestProperties
<1> HIDE DEF c
<1>6. ASSUME NEW i \in 1 .. Len(a) PROVE a[i] = c[i]
  <2>1. /\ i \in 1 .. Len(b) - n /\ n + i \in 1 .. Len(p) - t
        /\ t + (n + i) = t + n + i /\ i \in 1 .. Len(p) - (t + n)
    BY <1>1, <1>2, <1>3
  <2> QED
    BY <1>2, <1>3, <1>5, <2>1
<1>7. Len(a) = Len(c)
  BY <1>1, <1>2, <1>3, <1>5
<1>8. a = c
  BY <1>3, <1>5, <1>6, <1>7, SeqEqual
<1> QED
  BY <1>8 DEF a, b, c

LEMMA PendingIs ==
  ASSUME TypeOK, Taken <= Published
  PROVE  /\ published \in Seq(0 .. MaxSamples) /\ Taken \in 0 .. Len(published)
         /\ Pending \in Seq(0 .. MaxSamples) /\ Len(Pending) = Published - Taken
         /\ \A i \in 1 .. Published - Taken : Pending[i] = published[Taken + i]
<1>1. published \in Seq(0 .. MaxSamples) /\ Taken \in 0 .. Len(published)
  BY CountsAreNat DEF TypeOK, Published
<1> QED
  BY <1>1, RestProperties DEF Pending, Published

(* A record published is a sample accepted.                                *)
LEMMA PublishAccepts ==
  ASSUME IInv, FlprPublishes, ~misled
  PROVE  Queue!Accept
<1>1. /\ TypeOK /\ CountInv /\ Live /\ Storing /\ sampled > 0
      /\ Published \in Nat /\ Taken \in Nat
  BY CountsAreNat DEF IInv, FlprPublishes, Live, Storing, BootInv
<1>2. /\ Taken <= Published /\ Published - Taken < RingN
  BY <1>1 DEF CountInv
<1>3. /\ published \in Seq(0 .. MaxSamples) /\ Taken \in 0 .. Len(published)
      /\ Len(Pending) = Published - Taken
  BY <1>1, <1>2, PendingIs
<1>4. /\ published' = Append(published, sampled) /\ handed' = handed
      /\ overrun' = overrun /\ sampled' = sampled
      /\ fpc = "publish" /\ fpc' = "wait"
  BY DEF FlprPublishes, history
<1>5. sampled \in 0 .. MaxSamples
  BY <1>1 DEF TypeOK
<1>6. Pending' = Append(Pending, sampled)
  <2>1. Rest(Append(published, sampled), Taken) = Append(Pending, sampled)
    BY <1>3, <1>5, RestOfAppend DEF Pending
  <2> QED
    BY <1>4, <2>1 DEF Pending, Taken
<1>7. Settled' = sampled /\ Settled = sampled - 1
  BY <1>4 DEF Settled
<1>8. Settled' = Settled + 1
  BY <1>5, <1>7
<1> QED
  BY <1>2, <1>3, <1>4, <1>6, <1>7, <1>8 DEF Queue!Accept, Pending, Rest, Taken

(* A sample dropped is one lost at a full buffer.                          *)
LEMMA DropLoses ==
  ASSUME IInv, FlprSamples, RingFull, ~misled
  PROVE  Queue!Lose
<1>1. TypeOK /\ CountInv /\ Live /\ Published \in Nat /\ Taken \in Nat
  BY CountsAreNat DEF IInv, FlprSamples, Live
<1>2. Taken <= Published /\ Published - Taken <= RingN
  BY <1>1 DEF CountInv
<1>3. Ahead(head, tail) = Published - Taken
  BY <1>1, AheadCounts
<1>4. Len(Pending) = RingN
  <2>1. Len(Pending) = Published - Taken
    BY <1>1, <1>2, PendingIs
  <2> QED
    BY <1>1, <1>2, <1>3, <2>1, RingAssumption DEF RingFull
<1>5. /\ overrun' = Step(overrun, 1) /\ fpc = "wait" /\ fpc' = "wait"
      /\ sampled' = sampled + 1
      /\ published' = published /\ handed' = handed
  BY DEF FlprSamples, history
<1>6. Settled' = Settled + 1
  BY <1>5 DEF Settled
<1> QED
  BY <1>4, <1>5, <1>6 DEF Queue!Lose, Pending, Rest, Taken, Step

(* The chunk is the front of the buffer, and whole.                        *)
LEMMA FreeTakes ==
  ASSUME IInv, PumpFrees, ~misled, Live
  PROVE  Queue!Take
<1> DEFINE n == Len(chunk)
           out == [i \in 1 .. Len(chunk) |-> SampleOf(chunk[i])]
           front == SubSeq(Pending, 1, n)
<1>1. /\ TypeOK /\ CountInv /\ ContentInv /\ Published \in Nat /\ Taken \in Nat
      /\ ppc = "copy" /\ n = ChunkLen
      /\ phead \in Counters /\ ptail \in Counters
      /\ chunk \in Seq(Records)
  BY CountsAreNat DEF IInv, PumpFrees, TypeOK
<1>2. /\ Taken <= Published /\ ptail = tail /\ phead # tail
      /\ Ahead(phead, tail) <= Published - Taken
  BY <1>1 DEF CountInv
<1>3. n \in 1 .. Published - Taken
  <2>1. ChunkLen \in Nat /\ ChunkLen <= Ahead(phead, ptail) /\ ChunkLen > 0
    BY <1>1, <1>2, ChunkLenBounds
  <2>2. Ahead(phead, tail) \in Int
    BY <1>1, <1>2, AheadBounds
  <2> QED
    BY <1>1, <1>2, <2>1, <2>2
<1>4. /\ published \in Seq(0 .. MaxSamples) /\ Taken \in 0 .. Len(published)
      /\ Pending \in Seq(0 .. MaxSamples) /\ Len(Pending) = Published - Taken
      /\ \A i \in 1 .. Published - Taken : Pending[i] = published[Taken + i]
  BY <1>1, <1>2, PendingIs
<1>5. /\ handed' = handed \o out /\ published' = published
      /\ overrun' = overrun /\ fpc' = fpc /\ sampled' = sampled
  BY DEF PumpFrees, Live, flpr
<1>6. out \in Seq(0 .. Torn) /\ Len(out) = n
  BY <1>1, HandedType
<1>7. /\ front \in Seq(0 .. Torn) /\ Len(front) = n
      /\ \A i \in 1 .. n : front[i] = Pending[i]
  <2>1. \A i \in 1 .. n : Pending[i] \in 0 .. Torn
    <3> SUFFICES ASSUME NEW i \in 1 .. n PROVE Pending[i] \in 0 .. Torn
      OBVIOUS
    <3>1. i \in 1 .. Len(Pending)
      BY <1>1, <1>3, <1>4
    <3>2. Pending[i] \in 0 .. MaxSamples
      BY <1>4, <3>1, ElementOfSeq
    <3> QED
      BY <3>2, RingAssumption DEF Torn
  <2>2. n \in Nat /\ 1 <= n /\ n - 1 + 1 = n /\ \A i \in 1 .. n : 1 + i - 1 = i
    BY <1>1, <1>3
  <2> HIDE DEF n
  <2>3. /\ SubSeq(Pending, 1, n) \in Seq(0 .. Torn)
        /\ Len(SubSeq(Pending, 1, n)) = IF 1 <= n THEN n - 1 + 1 ELSE 0
        /\ \A i \in 1 .. n - 1 + 1 : SubSeq(Pending, 1, n)[i] = Pending[1 + i - 1]
    BY <2>1, <2>2, SubSeqProperties
  <2> QED
    BY <2>2, <2>3
<1>8. out = front
  <2>1. ASSUME NEW i \in 1 .. n PROVE out[i] = front[i]
    <3>1. chunk[i] = Record(published[Taken + i])
      BY <1>1 DEF ContentInv
    <3>2. i \in 1 .. Published - Taken /\ i \in 1 .. Len(Pending)
      BY <1>1, <1>3, <1>4
    <3>3. Pending[i] = published[Taken + i] /\ Pending[i] \in 0 .. MaxSamples
      BY <1>4, <3>2, ElementOfSeq
    <3>4. SampleOf(chunk[i]) = Pending[i]
      BY <3>1, <3>3, SampleTypes
    <3> QED
      BY <1>7, <3>4
  <2> HIDE DEF n, out, front
  <2>2. Len(out) = Len(front) /\ \A i \in 1 .. Len(out) : out[i] = front[i]
    BY <1>6, <1>7, <2>1
  <2> QED
    BY <1>6, <1>7, <2>2, SeqEqual
<1>9. Taken' = Taken + n
  BY <1>1, <1>5, <1>6, ConcatProperties DEF TypeOK, Taken
<1>10. Pending' = Rest(Pending, n)
  <2>1. n \in 0 .. Len(published) - Taken
    BY <1>3, <1>1, <1>4 DEF Published
  <2> HIDE DEF n
  <2>2. Rest(published, Taken + n) = Rest(Rest(published, Taken), n)
    BY <1>4, <2>1, RestOfRest
  <2> QED
    BY <1>5, <1>9, <2>2 DEF Pending
<1>11. Settled' = Settled
  BY <1>5 DEF Settled
<1> HIDE DEF n, out
<1>12. /\ n \in 1 .. Len(Pending) /\ handed' = handed \o SubSeq(Pending, 1, n)
       /\ Pending' = SubSeq(Pending, n + 1, Len(Pending))
  BY <1>3, <1>4, <1>5, <1>8, <1>10 DEF Rest
<1> QED
  BY <1>5, <1>11, <1>12 DEF Queue!Take, Pending, Rest, Taken

(* Every other step leaves the queue alone.                                *)
LEMMA OtherStepsStutter ==
  ASSUME IInv, ~misled,
         \/ Boot \/ (FlprSamples /\ ~RingFull) \/ FlprStoresFirst \/ FlprStoresRest
         \/ PumpChecks \/ PumpReadsHead \/ PumpReadsTail \/ PumpCopies
         \/ (PumpFrees /\ ~Live) \/ UNCHANGED vars
  PROVE  UNCHANGED <<Settled, overrun, Pending, handed>>
<1> USE DEF block, flpr, pump, history
<1>1. TypeOK /\ BootInv
  BY DEF IInv
<1>2. CASE Boot
  <2>1. UNCHANGED <<sampled, published, handed>>
    BY <1>2 DEF Boot, FlprHidesBlock, FlprClearsHead, FlprClearsTail, FlprAnnounces
  <2>2. ~Storing /\ ~Storing'
    BY <1>2 DEF Boot, FlprHidesBlock, FlprClearsHead, FlprClearsTail,
                FlprAnnounces, Storing
  <2>3. overrun' = overrun
    BY <1>1, <1>2 DEF Boot, FlprHidesBlock, FlprClearsHead, FlprClearsTail,
                      FlprAnnounces, BootInv
  <2> QED
    BY <2>1, <2>2, <2>3 DEF Settled, Storing, Pending, Rest, Taken
<1>3. CASE FlprSamples /\ ~RingFull
  <2>1. /\ fpc = "wait" /\ fpc' = "first" /\ sampled' = sampled + 1
        /\ UNCHANGED <<overrun, published, handed>>
    BY <1>3 DEF FlprSamples
  <2>2. Settled' = Settled
    BY <1>1, <2>1 DEF Settled, TypeOK
  <2> QED
    BY <2>1, <2>2 DEF Pending, Rest, Taken
<1>4. CASE FlprStoresFirst \/ FlprStoresRest
  <2>1. UNCHANGED <<sampled, overrun, published, handed>> /\ Storing /\ Storing'
    BY <1>4 DEF FlprStoresFirst, FlprStoresRest, Storing
  <2> QED
    BY <2>1 DEF Settled, Storing, Pending, Rest, Taken
<1>5. CASE \/ PumpChecks \/ PumpReadsHead \/ PumpReadsTail \/ PumpCopies
           \/ UNCHANGED vars
  <2>1. UNCHANGED <<fpc, sampled, overrun, published, handed>>
    BY <1>5 DEF PumpChecks, PumpReadsHead, PumpReadsTail, PumpCopies, vars
  <2> QED
    BY <2>1 DEF Settled, Pending, Rest, Taken
<1>6. CASE PumpFrees /\ ~Live
  <2>1. fpc \in {"boot", "head"}
    <3>1. ppc = "copy" /\ fpc \in {"boot", "head", "tail", "announce"}
      BY <1>1, <1>6 DEF PumpFrees, Live, TypeOK
    <3> QED
      BY <1>1, <3>1 DEF BootInv
  <2>2. UNCHANGED <<fpc, sampled, overrun, published, handed>>
    BY <1>6, <2>1 DEF PumpFrees
  <2> QED
    BY <2>2 DEF Settled, Pending, Rest, Taken
<1> QED
  BY <1>2, <1>3, <1>4, <1>5, <1>6

(* The lock-free ring of imu_shared.h between main() of the FLPR and       *)
(* pump_thread() is a bounded queue with loss at the full end only, but    *)
(* for a pump that was draining when the FLPR cleared the counters: every  *)
(* published sample is handed over once, in order and whole, and overrun   *)
(* counts exactly the samples met by a full ring.                          *)
THEOREM ImplementsQueue == Spec => QueueSpec
<1>1. Init => Queue!Init
  <2> SUFFICES ASSUME Init PROVE Queue!Init
    OBVIOUS
  <2>1. /\ published = <<>> /\ handed = <<>> /\ overrun = 0 /\ sampled = 0
        /\ fpc = "boot"
    BY DEF Init
  <2>2. SubSeq(<<>>, Len(<<>>) + 1, Len(<<>>)) = <<>>
    <3>1. Len(<<>>) = 0
      OBVIOUS
    <3> QED
      BY <3>1, SubSeqEmpty
  <2> QED
    BY <2>1, <2>2 DEF Queue!Init, Settled
<1>2. IInv /\ [Next]_vars => [misled \/ Queue!Next]_Queue!queue
  <2> SUFFICES ASSUME IInv, [Next]_vars, ~misled
               PROVE  Queue!Next \/ UNCHANGED <<Settled, overrun, Pending, handed>>
    BY DEF Queue!queue, Pending, Rest, Taken
  <2>1. CASE FlprPublishes
    BY <2>1, PublishAccepts DEF Queue!Next
  <2>2. CASE FlprSamples /\ RingFull
    BY <2>2, DropLoses DEF Queue!Next
  <2>3. CASE PumpFrees /\ Live
    BY <2>3, FreeTakes DEF Queue!Next
  <2>4. CASE \/ Boot \/ (FlprSamples /\ ~RingFull) \/ FlprStoresFirst \/ FlprStoresRest
             \/ PumpChecks \/ PumpReadsHead \/ PumpReadsTail \/ PumpCopies
             \/ (PumpFrees /\ ~Live) \/ UNCHANGED vars
    BY <2>4, OtherStepsStutter
  <2>5. \/ FlprPublishes \/ (FlprSamples /\ RingFull) \/ (PumpFrees /\ Live)
        \/ Boot \/ (FlprSamples /\ ~RingFull) \/ FlprStoresFirst \/ FlprStoresRest
        \/ PumpChecks \/ PumpReadsHead \/ PumpReadsTail \/ PumpCopies
        \/ (PumpFrees /\ ~Live) \/ UNCHANGED vars
    BY Zenon DEF Next, Flpr, Pump
  <2> QED
    BY <2>1, <2>2, <2>3, <2>4, <2>5, Zenon
<1> QED
  BY <1>1, <1>2, Inductive, PTL DEF Spec, QueueSpec
=============================================================================
