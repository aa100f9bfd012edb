------------------------ MODULE SettingsStoreProofs ------------------------
(***************************************************************************)
(* The inductive invariant of SettingsStore: what settings_store_init      *)
(* accepts was really stored, and the last undisturbed save is found.      *)
(***************************************************************************)
EXTENDS SettingsStore, TLAPS

(* A generation is used up by each persist, and each persist by a set: no  *)
(* record is ahead of the number of changes.                               *)
GenerationInv ==
    /\ sets \in 0 .. MaxSets
    /\ work = "idle" => rec.generation <= sets
    /\ work = "scheduled" => rec.generation < sets
    /\ \A s \in Slots : slots[s].generation <= sets
    /\ ~loaded => work = "idle" /\ wpc = "idle"

(* A CRC, in RAM or left in a slot by whatever write, is one of a content  *)
(* the settings have had.                                                  *)
ContentInv ==
    /\ loaded => rec.values \in past
    /\ rec.crc # <<>> => rec.crc[2] \in past
    /\ \A s \in Slots : slots[s].crc # <<>> => slots[s].crc[2] \in past

(* A valid record is in the slot of its generation, and none is newer than *)
(* the record in RAM.                                                      *)
OrderInv ==
    \A s \in Usable : /\ SlotOf(slots[s].generation) = s
                      /\ loaded => slots[s].generation <= rec.generation

(* The last undisturbed save is in the slot a restart chooses, and that is *)
(* not the slot being written.                                             *)
DurableInv ==
    /\ DurableUnlessExposed
    /\ wpc = "writing" /\ failing => exposed
    /\ loaded /\ ~exposed /\ ~failing /\ durable # Nothing =>
         IF wpc = "writing"
           THEN \E s \in Usable : /\ s # SlotOf(rec.generation)
                                  /\ slots[s].values = durable
           ELSE Usable # {} /\ rec.generation = slots[Chosen].generation

IInv == TypeOK /\ GenerationInv /\ ContentInv /\ OrderInv /\ DurableInv
-----------------------------------------------------------------------------
(* The operators of the model.                                             *)

(* Generations that follow each other go to different slots.              *)
LEMMA SlotsAlternate ==
  ASSUME NEW g \in Nat
  PROVE  SlotOf(g) \in Slots /\ SlotOf(g + 1) # SlotOf(g)
  BY DEF SlotOf, Slots

LEMMA RegistryRange ==
  ASSUME NEW R \in Registries, NEW i \in Ids
  PROVE  /\ R[i].min \in 0 .. MaxValue /\ R[i].max \in 0 .. MaxValue
         /\ R[i].def \in R[i].min .. R[i].max
<1>1. R[i] \in [def : 0 .. MaxValue, min : 0 .. MaxValue, max : 0 .. MaxValue]
  BY SettingsAssumption
<1>2. R[i].min <= R[i].def /\ R[i].def <= R[i].max
  BY SettingsAssumption
<1> QED
  BY <1>1, <1>2

LEMMA ClampInRange ==
  ASSUME NEW R \in Registries, NEW i \in Ids, NEW v \in Nat
  PROVE  /\ Clamp(v, R[i]) \in R[i].min .. R[i].max
         /\ Clamp(v, R[i]) \in 0 .. MaxValue
<1>1. /\ R[i].min \in 0 .. MaxValue /\ R[i].max \in 0 .. MaxValue
      /\ R[i].def \in R[i].min .. R[i].max
  BY RegistryRange
<1> QED
  BY <1>1, SettingsAssumption DEF Clamp

LEMMA InRangeInRange ==
  ASSUME NEW R \in Registries, NEW values \in Values
  PROVE  /\ InRange(values, R) \in Values
         /\ \A i \in Ids : InRange(values, R)[i] \in R[i].min .. R[i].max
<1>1. ASSUME NEW i \in Ids
      PROVE  /\ InRange(values, R)[i] \in R[i].min .. R[i].max
             /\ InRange(values, R)[i] \in 0 .. MaxValue
  <2>1. /\ R[i].min \in 0 .. MaxValue /\ R[i].max \in 0 .. MaxValue
        /\ R[i].def \in R[i].min .. R[i].max
    BY RegistryRange
  <2>2. values[i] \in 0 .. MaxValue
    BY DEF Values
  <2>3. InRange(values, R)[i] =
          IF values[i] < R[i].min \/ values[i] > R[i].max THEN R[i].def ELSE values[i]
    BY DEF InRange
  <2> QED
    BY <2>1, <2>2, <2>3, SettingsAssumption
<1>2. InRange(values, R) = [i \in Ids |-> InRange(values, R)[i]]
  BY DEF InRange
<1>3. InRange(values, R) \in Values
  BY <1>1, <1>2 DEF Values
<1> QED
  BY <1>1, <1>3

LEMMA DefaultsInRange ==
  ASSUME NEW R \in Registries
  PROVE  /\ Defaults(R) \in Recs /\ Defaults(R).generation = 0
         /\ Defaults(R).crc = <<>>
         /\ \A i \in Ids : Defaults(R).values[i] \in R[i].min .. R[i].max
<1>1. \A i \in Ids : /\ R[i].min \in 0 .. MaxValue /\ R[i].max \in 0 .. MaxValue
                     /\ R[i].def \in R[i].min .. R[i].max
  BY RegistryRange
<1>2. \A i \in Ids : R[i].def \in 0 .. MaxValue
  BY <1>1, SettingsAssumption
<1>3. [i \in Ids |-> R[i].def] \in Values
  BY <1>2 DEF Values
<1>4. 0 \in 0 .. MaxSets
  BY SettingsAssumption
<1> QED
  BY <1>1, <1>3, <1>4 DEF Defaults, Recs

(* What a record needs to be one of Recs.                                  *)
LEMMA RecordsAre ==
  /\ \A r \in Recs : /\ r.generation \in 0 .. MaxSets /\ r.values \in Values
                     /\ r.crc \in {<<>>} \union ((0 .. MaxSets) \X Values)
  /\ Blank \in Recs
<1>1. [i \in Ids |-> 0] \in Values /\ 0 \in 0 .. MaxSets
  BY SettingsAssumption DEF Values
<1> QED
  BY <1>1 DEF Recs, Blank

LEMMA TornIsRecord ==
  ASSUME NEW old \in Recs, NEW new \in Recs, NEW k \in 0 .. NumIds
  PROVE  Torn(old, new, k) \in Recs
<1>1. /\ old.values \in Values /\ new.values \in Values
      /\ old.crc \in {<<>>} \union ((0 .. MaxSets) \X Values)
      /\ new.generation \in 0 .. MaxSets
  BY RecordsAre
<1>2. [i \in Ids |-> IF i <= k THEN new.values[i] ELSE old.values[i]] \in Values
  BY <1>1 DEF Values
<1> QED
  BY <1>1, <1>2 DEF Torn, Recs

(* The record settings_store_init picks is a valid one.                    *)
LEMMA ChosenUsable == Usable # {} => Chosen \in Usable
  BY DEF Usable, Chosen, Slots

(* It is the newer of the two.                                             *)
LEMMA ChosenIsNewest ==
  \A s \in Slots :
    /\ s \in Usable
    /\ \A t \in Slots : slots[t].generation \in Nat
    /\ \A t \in Usable : t # s => slots[t].generation < slots[s].generation
    => Chosen = s
  BY DEF Usable, Chosen, Slots

LEMMA ChosenIsNewestNext ==
  (\A s \in Slots :
     /\ s \in Usable
     /\ \A t \in Slots : slots[t].generation \in Nat
     /\ \A t \in Usable : t # s => slots[t].generation < slots[s].generation
     => Chosen = s)'
  BY ChosenIsNewest, PTL

LEMMA ValidHasCrc ==
  ASSUME NEW r, Valid(r)
  PROVE  r.crc # <<>> /\ r.crc[2] = r.values
  BY DEF Valid, Crc

-----------------------------------------------------------------------------
(* Each action keeps the types, the ranges and the generations.            *)

(* The record as PersistStarts makes it.                                   *)
Persisted(r) ==
    LET next == [r EXCEPT !.generation = NextGeneration(r.generation)]
    IN  [next EXCEPT !.crc = Crc(next)]

LEMMA PersistedIs ==
  ASSUME NEW r \in Recs, r.generation < MaxSets
  PROVE  /\ Persisted(r) \in Recs /\ Valid(Persisted(r))
         /\ Persisted(r).generation = r.generation + 1
         /\ Persisted(r).values = r.values
         /\ Persisted(r).crc # <<>> /\ Persisted(r).crc[2] = r.values
<1>1. r.generation \in 0 .. MaxSets /\ r.values \in Values
  BY RecordsAre
<1>2. r.generation + 1 \in 0 .. MaxSets
  BY <1>1, SettingsAssumption
<1>3. /\ Persisted(r).generation = r.generation + 1
      /\ Persisted(r).values = r.values
      /\ Persisted(r).crc = <<r.generation + 1, r.values>>
      /\ Persisted(r) = [generation |-> r.generation + 1, values |-> r.values,
                         crc |-> <<r.generation + 1, r.values>>]
  <2> DEFINE next == [r EXCEPT !.generation = NextGeneration(r.generation)]
             crc == Crc(next)
  <2>1. next = [generation |-> r.generation + 1, values |-> r.values, crc |-> r.crc]
    BY DEF NextGeneration, Recs
  <2>2. crc = <<r.generation + 1, r.values>>
    BY <2>1 DEF Crc
  <2>3. Persisted(r) = [next EXCEPT !.crc = crc]
    BY DEF Persisted
  <2> HIDE DEF next, crc
  <2>4. Persisted(r) = [generation |-> r.generation + 1, values |-> r.values, crc |-> crc]
    BY <2>1, <2>3
  <2> QED
    BY <2>2, <2>4
<1>4. Persisted(r) \in Recs
  BY <1>1, <1>2, <1>3 DEF Recs
<1> QED
  BY <1>3, <1>4 DEF Valid, Crc

LEMMA TypeNext == IInv /\ [Next]_vars => TypeOK' /\ GenerationInv'
<1> SUFFICES ASSUME IInv, [Next]_vars PROVE TypeOK' /\ GenerationInv'
  OBVIOUS
<1> USE DEF store, ram, worker, history, counted, AlwaysInRange
<1>0. /\ TypeOK /\ GenerationInv
      /\ rec \in Recs /\ rec.generation \in 0 .. MaxSets /\ rec.values \in Values
      /\ \A s \in Slots : /\ slots[s] \in Recs /\ slots[s].values \in Values
                          /\ slots[s].generation \in 0 .. MaxSets
  BY RecordsAre DEF IInv, TypeOK
<1>1. CASE Load
  <2>1. CASE Usable = {}
    <3>1. rec' = Defaults(registry)
      BY <1>1, <2>1 DEF Load
    <3>2. /\ rec' \in Recs /\ rec'.generation = 0
          /\ \A i \in Ids : rec'.values[i] \in registry[i].min .. registry[i].max
      BY <1>0, <3>1, DefaultsInRange DEF TypeOK
    <3> QED
      BY <1>0, <1>1, <3>2 DEF Load, TypeOK, GenerationInv
  <2>2. CASE Usable # {}
    <3>1. Chosen \in Slots
      BY <2>2, ChosenUsable DEF Usable
    <3>2. rec' = [slots[Chosen] EXCEPT !.values = InRange(slots[Chosen].values, registry)]
      BY <1>1, <2>2 DEF Load
    <3> DEFINE c == slots[Chosen]
               v == InRange(slots[Chosen].values, registry)
    <3>3. /\ c \in Recs /\ v \in Values /\ c.generation <= sets
          /\ \A i \in Ids : v[i] \in registry[i].min .. registry[i].max
      BY <1>0, <3>1, InRangeInRange DEF TypeOK, GenerationInv
    <3>4. rec' = [c EXCEPT !.values = v]
      BY <3>2
    <3> HIDE DEF c, v
    <3>5. rec' \in Recs /\ rec'.values = v /\ rec'.generation = c.generation
      BY <3>3, <3>4 DEF Recs
    <3>6. \A i \in Ids : rec'.values[i] \in registry[i].min .. registry[i].max
      BY <3>3, <3>5
    <3>7. rec'.generation <= sets
      BY <3>3, <3>5
    <3> QED
      BY <1>0, <1>1, <3>5, <3>6, <3>7 DEF Load, TypeOK, GenerationInv
  <2> QED
    BY <2>1, <2>2
<1>2. ASSUME NEW i \in Ids, NEW v \in 0 .. MaxValue, Set(i, v)
      PROVE  TypeOK' /\ GenerationInv'
  <2> DEFINE w == Clamp(v, registry[i])
  <2>1. /\ rec' = [rec EXCEPT !.values[i] = w] /\ sets' = sets + 1
        /\ sets < MaxSets /\ work' = "scheduled" /\ loaded
        /\ UNCHANGED <<slots, registry, loaded, wpc>>
    BY <1>2 DEF Set, Scheduled
  <2>2. w \in registry[i].min .. registry[i].max /\ w \in 0 .. MaxValue
    BY <1>0, ClampInRange DEF TypeOK
  <2> HIDE DEF w
  <2>3. [rec.values EXCEPT ![i] = w] \in Values
    BY <1>0, <2>2 DEF Values
  <2>4. /\ rec' \in Recs /\ rec'.generation = rec.generation
        /\ rec'.values = [rec.values EXCEPT ![i] = w]
    BY <1>0, <2>1, <2>3 DEF Recs
  <2>5. \A j \in Ids : rec'.values[j] \in registry[j].min .. registry[j].max
    BY <1>0, <2>1, <2>2, <2>4 DEF TypeOK, Values
  <2>6. TypeOK'
    BY <1>0, <2>1, <2>4, <2>5 DEF TypeOK
  <2>7. rec.generation <= sets /\ sets \in 0 .. MaxSets
    BY <1>0 DEF TypeOK, GenerationInv
  <2>8. GenerationInv'
    BY <1>0, <2>1, <2>4, <2>7, SettingsAssumption DEF GenerationInv, TypeOK
  <2> QED
    BY <2>6, <2>8
<1>3. CASE PersistStarts
  <2>1. /\ rec' = Persisted(rec) /\ rec.generation < sets /\ loaded
        /\ work' = "idle" /\ wpc' = "writing" /\ sets \in 0 .. MaxSets
        /\ UNCHANGED <<slots, registry, loaded, sets>>
    BY <1>0, <1>3 DEF PersistStarts, Persisted, GenerationInv
  <2>2. rec.generation < MaxSets
    BY <1>0, <2>1, SettingsAssumption
  <2>3. /\ rec' \in Recs /\ rec'.generation = rec.generation + 1
        /\ rec'.values = rec.values
    BY <1>0, <2>1, <2>2, PersistedIs
  <2>4. rec'.generation <= sets
    BY <1>0, <2>1, <2>3
  <2> QED
    BY <1>0, <2>1, <2>3, <2>4 DEF TypeOK, GenerationInv
<1>4. CASE PersistWrites
  <2>1. SlotOf(rec.generation) \in Slots
    BY <1>0, SlotsAlternate
  <2>2. /\ slots' = [slots EXCEPT ![SlotOf(rec.generation)] = rec]
        /\ UNCHANGED <<registry, loaded, rec, work, sets>>
        /\ wpc' = "idle"
    BY <1>4 DEF PersistWrites
  <2>3. slots' \in [Slots -> Recs]
    BY <1>0, <2>2 DEF TypeOK
  <2>4. rec.generation <= sets
    BY <1>0 DEF GenerationInv, TypeOK
  <2>5. \A s \in Slots : slots'[s].generation <= sets
    BY <1>0, <2>2, <2>4 DEF TypeOK, GenerationInv
  <2> QED
    BY <1>0, <2>2, <2>3, <2>5 DEF TypeOK, GenerationInv
<1>c. ASSUME CutShort \/ UNCHANGED slots, sets' = sets
      PROVE  slots' \in [Slots -> Recs] /\ \A s \in Slots : slots'[s].generation <= sets
  <2>1. CASE UNCHANGED slots
    BY <1>0, <2>1 DEF TypeOK, GenerationInv
  <2>2. ASSUME NEW k \in 0 .. NumIds,
               slots' = [slots EXCEPT ![SlotOf(rec.generation)] =
                           Torn(slots[SlotOf(rec.generation)], rec, k)]
        PROVE  slots' \in [Slots -> Recs] /\ \A s \in Slots : slots'[s].generation <= sets
    <3> DEFINE q == SlotOf(rec.generation)
               left == Torn(slots[q], rec, k)
    <3>1. q \in Slots
      BY <1>0, SlotsAlternate
    <3>2. left \in Recs
      BY <1>0, <3>1, TornIsRecord
    <3>3. left.generation = rec.generation
      BY DEF Torn
    <3>4. rec.generation <= sets
      BY <1>0 DEF GenerationInv, TypeOK
    <3>5. slots' = [slots EXCEPT ![q] = left]
      BY <2>2
    <3> HIDE DEF q, left
    <3> QED
      BY <1>0, <3>1, <3>2, <3>3, <3>4, <3>5 DEF TypeOK, GenerationInv
  <2> QED
    BY <1>c, <2>1, <2>2 DEF CutShort
<1>5. CASE PersistFails
  <2>1. CutShort \/ UNCHANGED slots
    BY <1>5 DEF PersistFails
  <2>2. UNCHANGED <<registry, loaded, rec, work, sets>> /\ wpc' = "idle"
    BY <1>5 DEF PersistFails, ram, counted
  <2> QED
    BY <1>0, <1>c, <2>1, <2>2 DEF TypeOK, GenerationInv
<1>6. ASSUME NEW R \in Registries, Crash(R) PROVE TypeOK' /\ GenerationInv'
  <2>1. /\ loaded' = FALSE /\ rec' = Blank /\ work' = "idle" /\ wpc' = "idle"
        /\ registry' = R /\ sets' = sets
    BY <1>6 DEF Crash
  <2>2. slots' \in [Slots -> Recs] /\ \A s \in Slots : slots'[s].generation <= sets
    BY <1>6, <1>c, <2>1 DEF Crash
  <2>3. Blank \in Recs /\ Blank.generation = 0
    BY RecordsAre DEF Blank
  <2>4. TypeOK'
    BY <1>0, <2>1, <2>2, <2>3 DEF TypeOK
  <2>5. GenerationInv'
    BY <1>0, <2>1, <2>2, <2>3 DEF GenerationInv
  <2> QED
    BY <2>4, <2>5
<1>7. CASE UNCHANGED vars
  BY <1>0, <1>7 DEF vars, TypeOK, GenerationInv
<1> QED
  BY <1>1, <1>2, <1>3, <1>4, <1>5, <1>6, <1>7 DEF Next, Persist

-----------------------------------------------------------------------------
(* What each action does to the records, in one place.                     *)

LEMMA Basics ==
  ASSUME IInv
  PROVE  /\ rec \in Recs /\ rec.generation \in Nat /\ rec.values \in Values
         /\ \A s \in Slots : slots[s] \in Recs /\ slots[s].generation \in Nat
         /\ DOMAIN slots = Slots
         /\ SlotOf(rec.generation) \in Slots
         /\ registry \in Registries /\ sets \in 0 .. MaxSets
<1>1. rec \in Recs /\ \A s \in Slots : slots[s] \in Recs
  BY DEF IInv, TypeOK
<1>2. \A r \in Recs : r.generation \in Nat /\ r.values \in Values
  BY RecordsAre, SettingsAssumption
<1> QED
  BY <1>1, <1>2, SlotsAlternate DEF IInv, TypeOK, GenerationInv

LEMMA LoadReads ==
  ASSUME IInv, Load
  PROVE  /\ UNCHANGED <<slots, work, wpc, durable, failing, exposed>>
         /\ loaded' /\ past' = past \union {rec'.values}
         /\ Usable = {} => rec'.crc = <<>> /\ rec'.generation = 0
         /\ Usable # {} => /\ Chosen \in Usable /\ Chosen \in Slots
                           /\ rec'.crc = slots[Chosen].crc
                           /\ rec'.generation = slots[Chosen].generation
<1>1. CASE Usable = {}
  <2>1. rec' = Defaults(registry)
    BY <1>1 DEF Load
  <2> QED
    BY <1>1, <2>1 DEF Load, Defaults, store, worker
<1>2. CASE Usable # {}
  <2>1. Chosen \in Usable /\ Chosen \in Slots
    BY <1>2, ChosenUsable DEF Usable
  <2>2. slots[Chosen] \in Recs
    BY <2>1, Basics
  <2> DEFINE c == slots[Chosen]
             v == InRange(slots[Chosen].values, registry)
  <2>3. rec' = [c EXCEPT !.values = v]
    BY <1>2 DEF Load
  <2> HIDE DEF v
  <2>4. rec'.crc = slots[Chosen].crc /\ rec'.generation = slots[Chosen].generation
    BY <2>2, <2>3 DEF Recs
  <2> QED
    BY <1>2, <2>1, <2>4 DEF Load, store, worker
<1> QED
  BY <1>1, <1>2

LEMMA SetChanges ==
  ASSUME IInv, NEW i \in Ids, NEW v \in 0 .. MaxValue, Set(i, v)
  PROVE  /\ UNCHANGED <<slots, loaded, wpc, durable, failing, exposed>>
         /\ past' = past \union {rec'.values}
         /\ rec'.generation = rec.generation /\ rec'.crc = rec.crc
<1>1. rec \in Recs
  BY Basics
<1> DEFINE w == Clamp(v, registry[i])
<1>2. rec' = [rec EXCEPT !.values[i] = w]
  BY DEF Set
<1> HIDE DEF w
<1>3. rec'.generation = rec.generation /\ rec'.crc = rec.crc
  BY <1>1, <1>2 DEF Recs
<1> QED
  BY <1>3 DEF Set, store

LEMMA StartPersists ==
  ASSUME IInv, PersistStarts
  PROVE  /\ UNCHANGED <<slots, loaded, past, durable, failing>>
         /\ loaded /\ wpc = "idle" /\ wpc' = "writing"
         /\ exposed' = (exposed \/ failing)
         /\ rec'.generation = rec.generation + 1 /\ rec'.values = rec.values
         /\ rec'.crc # <<>> /\ rec'.crc[2] = rec.values
<1>1. rec \in Recs /\ rec.generation \in Nat /\ sets \in 0 .. MaxSets
  BY Basics
<1>2. /\ rec' = Persisted(rec) /\ rec.generation < sets /\ loaded
  BY DEF PersistStarts, Persisted, IInv, GenerationInv
<1>3. rec.generation < MaxSets
  BY <1>1, <1>2, SettingsAssumption
<1>4. /\ rec'.generation = rec.generation + 1 /\ rec'.values = rec.values
      /\ rec'.crc # <<>> /\ rec'.crc[2] = rec.values
  BY <1>1, <1>2, <1>3, PersistedIs
<1> QED
  BY <1>2, <1>4 DEF PersistStarts, store

(* One slot is written, the others are left.                               *)
LEMMA WriteStores ==
  ASSUME IInv, PersistWrites
  PROVE  /\ loaded /\ wpc = "writing" /\ wpc' = "idle"
         /\ UNCHANGED <<loaded, rec, past>>
         /\ slots'[SlotOf(rec.generation)] = rec
         /\ \A s \in Slots : s # SlotOf(rec.generation) => slots'[s] = slots[s]
  BY Basics DEF PersistWrites, ram, IInv, GenerationInv

LEMMA CutLeaves ==
  ASSUME IInv, CutShort
  PROVE  /\ slots'[SlotOf(rec.generation)].crc = slots[SlotOf(rec.generation)].crc
         /\ slots'[SlotOf(rec.generation)].generation = rec.generation
         /\ exposed' = (exposed \/ Valid(slots'[SlotOf(rec.generation)]))
         /\ \A s \in Slots : s # SlotOf(rec.generation) => slots'[s] = slots[s]
<1> DEFINE q == SlotOf(rec.generation)
<1>1. q \in Slots /\ DOMAIN slots = Slots /\ slots \in [Slots -> Recs]
  BY Basics DEF IInv, TypeOK
<1>2. PICK k \in 0 .. NumIds :
        /\ slots' = [slots EXCEPT ![q] = Torn(slots[q], rec, k)]
        /\ exposed' = (exposed \/ Valid(Torn(slots[q], rec, k)))
  BY DEF CutShort
<1>3. slots'[q] = Torn(slots[q], rec, k)
  BY <1>1, <1>2
<1>4. \A s \in Slots : s # q => slots'[s] = slots[s]
  BY <1>1, <1>2
<1>5. exposed' = (exposed \/ Valid(slots'[q]))
  BY <1>2, <1>3
<1>6. /\ Torn(slots[q], rec, k).crc = slots[q].crc
      /\ Torn(slots[q], rec, k).generation = rec.generation
  BY DEF Torn
<1> QED
  BY <1>3, <1>4, <1>5, <1>6

LEMMA FailLeaves ==
  ASSUME PersistFails
  PROVE  /\ loaded' = loaded /\ rec' = rec /\ wpc = "writing" /\ wpc' = "idle"
         /\ failing' /\ UNCHANGED <<past, durable>>
         /\ CutShort \/ UNCHANGED <<slots, exposed>>
  BY DEF PersistFails, ram

LEMMA CrashLeaves ==
  ASSUME IInv, NEW R \in Registries, Crash(R)
  PROVE  /\ loaded /\ ~loaded' /\ rec' = Blank /\ wpc' = "idle" /\ ~failing'
         /\ UNCHANGED <<past, durable>>
         /\ (wpc = "writing" /\ CutShort) \/ UNCHANGED <<slots, exposed>>
  BY DEF Crash

-----------------------------------------------------------------------------
LEMMA ContentNext == IInv /\ [Next]_vars => ContentInv'
<1> SUFFICES ASSUME IInv, [Next]_vars PROVE ContentInv'
  OBVIOUS
<1>0. ContentInv /\ SlotOf(rec.generation) \in Slots
  BY Basics DEF IInv
<1>1. CASE Load
  BY <1>0, <1>1, LoadReads DEF ContentInv
<1>2. ASSUME NEW i \in Ids, NEW v \in 0 .. MaxValue, Set(i, v) PROVE ContentInv'
  BY <1>0, <1>2, SetChanges DEF ContentInv
<1>3. CASE PersistStarts
  BY <1>0, <1>3, StartPersists DEF ContentInv
<1>4. CASE PersistWrites
  BY <1>0, <1>4, WriteStores DEF ContentInv
<1>5. CASE PersistFails
  BY <1>0, <1>5, FailLeaves, CutLeaves DEF ContentInv
<1>6. ASSUME NEW R \in Registries, Crash(R) PROVE ContentInv'
  <2>1. Blank.crc = <<>>
    BY DEF Blank
  <2> QED
    BY <1>0, <1>6, <2>1, CrashLeaves, CutLeaves DEF ContentInv
<1>7. CASE UNCHANGED vars
  BY <1>0, <1>7 DEF vars, store, ram, history, ContentInv
<1> QED
  BY <1>1, <1>2, <1>3, <1>4, <1>5, <1>6, <1>7 DEF Next, Persist

(* The chosen slot holds the newest of the valid records.                  *)
LEMMA ChosenIsMax ==
  ASSUME IInv
  PROVE  \A s \in Usable : slots[s].generation <= slots[Chosen].generation
<1>1. \A s \in Slots : slots[s].generation \in Nat
  BY Basics
<1> QED
  BY <1>1 DEF Usable, Chosen, Slots

LEMMA OrderNext == IInv /\ [Next]_vars => OrderInv'
<1> SUFFICES ASSUME IInv, [Next]_vars PROVE OrderInv'
  OBVIOUS
<1>0. /\ OrderInv /\ SlotOf(rec.generation) \in Slots /\ rec.generation \in Nat
      /\ \A s \in Slots : slots[s].generation \in Nat
  BY Basics DEF IInv
<1>1. CASE Load
  <2>1. slots' = slots /\ Usable' = Usable
    BY <1>1, LoadReads DEF Usable
  <2>2. \A s \in Usable : slots[s].generation <= rec'.generation
    BY <1>1, LoadReads, ChosenIsMax
  <2> QED
    BY <1>0, <2>1, <2>2 DEF OrderInv, SlotOf
<1>2. ASSUME NEW i \in Ids, NEW v \in 0 .. MaxValue, Set(i, v) PROVE OrderInv'
  BY <1>0, <1>2, SetChanges DEF OrderInv, Usable, SlotOf
<1>3. CASE PersistStarts
  <2>1. /\ slots' = slots /\ Usable' = Usable /\ loaded
        /\ rec'.generation = rec.generation + 1
    BY <1>3, StartPersists DEF Usable
  <2>2. \A s \in Usable : slots[s].generation <= rec'.generation
    BY <1>0, <2>1 DEF OrderInv, Usable
  <2> QED
    BY <1>0, <2>1, <2>2 DEF OrderInv, SlotOf
<1>4. CASE PersistWrites
  <2>1. /\ rec' = rec /\ loaded' = loaded
        /\ slots'[SlotOf(rec.generation)] = rec
        /\ \A s \in Slots : s # SlotOf(rec.generation) => slots'[s] = slots[s]
    BY <1>4, WriteStores
  <2>2. ASSUME NEW s \in Usable'
        PROVE  /\ SlotOf(slots'[s].generation) = s
               /\ loaded' => slots'[s].generation <= rec'.generation
    <3>1. CASE s = SlotOf(rec.generation)
      BY <1>0, <2>1, <3>1
    <3>2. CASE s # SlotOf(rec.generation)
      <4>1. s \in Usable /\ slots'[s] = slots[s]
        BY <2>1, <2>2, <3>2 DEF Usable
      <4> QED
        BY <1>0, <2>1, <4>1 DEF OrderInv
    <3> QED
      BY <3>1, <3>2
  <2> QED
    BY <2>2 DEF OrderInv, SlotOf
<1>c. ASSUME CutShort \/ UNCHANGED <<slots, exposed>>, NEW s \in Usable'
      PROVE  /\ SlotOf(slots'[s].generation) = s
             /\ loaded => slots'[s].generation <= rec.generation
  <2>1. s \in Slots /\ Valid(slots'[s])
    BY <1>c DEF Usable
  <2>2. CASE slots'[s] = slots[s]
    <3>1. s \in Usable
      BY <2>1, <2>2 DEF Usable
    <3> QED
      BY <1>0, <2>2, <3>1 DEF OrderInv
  <2>3. CASE slots'[s] # slots[s]
    <3>1. s = SlotOf(rec.generation) /\ slots'[s].generation = rec.generation
      BY <1>c, <2>1, <2>3, CutLeaves
    <3> QED
      BY <1>0, <3>1
  <2> QED
    BY <2>2, <2>3
<1>5. CASE PersistFails
  BY <1>5, <1>c, FailLeaves DEF OrderInv, SlotOf
<1>6. ASSUME NEW R \in Registries, Crash(R) PROVE OrderInv'
  BY <1>6, <1>c, CrashLeaves DEF OrderInv, SlotOf
<1>7. CASE UNCHANGED vars
  BY <1>0, <1>7 DEF vars, store, ram, OrderInv, Usable, SlotOf
<1> QED
  BY <1>1, <1>2, <1>3, <1>4, <1>5, <1>6, <1>7 DEF Next, Persist

(* The one record that is left untouched and valid is the one chosen.      *)
LEMMA OtherIsFound ==
  ASSUME IInv, [Next]_vars, NEW q \in Slots, ~Valid(slots'[q]),
         \A s \in Slots : s # q => slots'[s] = slots[s],
         NEW o \in Usable, o # q
  PROVE  Usable' # {} /\ slots'[Chosen'].values = slots[o].values
<1>1. \A t \in Slots : slots'[t].generation \in Nat
  <2>1. TypeOK'
    BY TypeNext
  <2> QED
    BY <2>1, RecordsAre DEF TypeOK
<1>2. o \in Slots /\ slots'[o] = slots[o] /\ o \in Usable'
  BY DEF Usable
<1>3. \A t \in Usable' : t = o
  BY <1>2 DEF Usable, Slots
<1>4. Chosen' = o
  BY <1>1, <1>2, <1>3, ChosenIsNewestNext DEF Slots
<1> QED
  BY <1>2, <1>4

LEMMA DurableNext == IInv /\ [Next]_vars => DurableInv'
<1> SUFFICES ASSUME IInv, [Next]_vars PROVE DurableInv'
  OBVIOUS
<1> DEFINE q == SlotOf(rec.generation)
           Ready == loaded /\ ~exposed /\ ~failing /\ durable # Nothing
           Aside == \E s \in Usable : s # q /\ slots[s].values = durable
           Front == Usable # {} /\ rec.generation = slots[Chosen].generation
<1>0. /\ GenerationInv /\ OrderInv /\ q \in Slots /\ rec.generation \in Nat
      /\ \A s \in Slots : slots[s].generation \in Nat
      /\ DurableUnlessExposed
      /\ wpc = "writing" /\ failing => exposed
      /\ Ready /\ wpc = "writing" => Aside
      /\ Ready /\ wpc # "writing" => Front
  BY Basics DEF IInv, DurableInv
<1>1. ASSUME slots' = slots, durable' = durable, exposed' = exposed
      PROVE  DurableUnlessExposed'
  BY <1>0, <1>1 DEF DurableUnlessExposed, FindsDurable, Usable, Chosen
<1>2. CASE Load
  <2>1. /\ UNCHANGED <<slots, wpc, durable, failing, exposed>> /\ wpc = "idle"
        /\ DurableUnlessExposed'
    BY <1>0, <1>1, <1>2, LoadReads DEF Load, GenerationInv
  <2>2. ASSUME ~exposed, durable # Nothing
        PROVE  Usable # {} /\ rec'.generation = slots[Chosen].generation
    BY <1>0, <1>2, <2>2, LoadReads DEF DurableUnlessExposed, FindsDurable
  <2>3. Usable' = Usable /\ Chosen' = Chosen
    BY <2>1 DEF Usable, Chosen
  <2> QED
    BY <2>1, <2>2, <2>3 DEF DurableInv, Nothing
<1>3. ASSUME NEW i \in Ids, NEW v \in 0 .. MaxValue, Set(i, v) PROVE DurableInv'
  <2>1. /\ UNCHANGED <<slots, loaded, wpc, durable, failing, exposed>>
        /\ rec'.generation = rec.generation /\ DurableUnlessExposed'
    BY <1>1, <1>3, SetChanges
  <2>2. Usable' = Usable /\ Chosen' = Chosen /\ q' = q
    BY <2>1 DEF Usable, Chosen, SlotOf
  <2> QED
    BY <1>0, <2>1, <2>2 DEF DurableInv, Nothing
<1>4. CASE PersistStarts
  <2>1. /\ UNCHANGED <<slots, loaded, durable, failing>>
        /\ loaded /\ wpc = "idle" /\ wpc' = "writing"
        /\ exposed' = (exposed \/ failing)
        /\ rec'.generation = rec.generation + 1
    BY <1>4, StartPersists
  <2>2. Usable' = Usable /\ Chosen' = Chosen
    BY <2>1 DEF Usable, Chosen
  <2>3. DurableUnlessExposed'
    BY <1>0, <2>1, <2>2 DEF DurableUnlessExposed, FindsDurable, Nothing
  <2>4. ASSUME ~exposed, ~failing, durable # Nothing
        PROVE  \E s \in Usable : s # q' /\ slots[s].values = durable
    <3>1. Usable # {} /\ rec.generation = slots[Chosen].generation
      BY <1>0, <2>1, <2>4
    <3>2. Chosen \in Usable /\ slots[Chosen].values = durable
      BY <1>0, <2>4, <3>1, ChosenUsable DEF DurableUnlessExposed, FindsDurable
    <3>3. Chosen = q
      BY <1>0, <3>1, <3>2 DEF OrderInv
    <3>4. q' = SlotOf(rec.generation + 1) /\ q' # q
      BY <1>0, <2>1, SlotsAlternate DEF SlotOf
    <3> QED
      BY <3>2, <3>3, <3>4
  <2> QED
    BY <2>1, <2>2, <2>3, <2>4 DEF DurableInv, Nothing
<1>5. CASE PersistWrites
  <2>1. /\ loaded /\ wpc = "writing" /\ wpc' = "idle" /\ UNCHANGED <<loaded, rec>>
        /\ slots'[q] = rec /\ \A s \in Slots : s # q => slots'[s] = slots[s]
    BY <1>5, WriteStores
  <2>2. CASE Valid(rec)
    <3>1. durable' = rec.values /\ ~failing' /\ ~exposed'
      BY <1>5, <2>2 DEF PersistWrites, Valid
    <3>2. q \in Usable'
      BY <1>0, <2>1, <2>2 DEF Usable
    <3>3. ASSUME NEW t \in Usable', t # q
          PROVE  slots'[t].generation < slots'[q].generation
      <4>1. t \in Usable /\ slots'[t] = slots[t]
        BY <2>1, <3>3 DEF Usable
      <4>2. SlotOf(slots[t].generation) = t /\ slots[t].generation <= rec.generation
        BY <1>0, <2>1, <4>1 DEF OrderInv
      <4>3. slots[t].generation # rec.generation
        BY <3>3, <4>2
      <4> QED
        BY <1>0, <2>1, <4>1, <4>2, <4>3 DEF Usable
    <3>4. \A t \in Slots : slots'[t].generation \in Nat
      BY <1>0, <2>1
    <3> HIDE DEF q
    <3>5. Chosen' = q
      BY <1>0, <3>2, <3>3, <3>4, ChosenIsNewestNext DEF Slots
    <3> QED
      BY <2>1, <3>1, <3>2, <3>5 DEF DurableInv, DurableUnlessExposed, FindsDurable
  <2>3. CASE ~Valid(rec)
    <3>1. failing' /\ durable' = durable /\ exposed' = exposed
      BY <1>5, <2>3 DEF PersistWrites, Valid
    <3>2. ASSUME ~exposed, durable # Nothing
          PROVE  Usable' # {} /\ slots'[Chosen'].values = durable
      <4>1. Aside
        BY <1>0, <2>1, <3>2
      <4>2. PICK o \in Usable : o # q /\ slots[o].values = durable
        BY <4>1
      <4> HIDE DEF q
      <4> QED
        BY <1>0, <2>1, <2>3, <4>2, OtherIsFound
    <3> QED
      BY <2>1, <3>1, <3>2 DEF DurableInv, DurableUnlessExposed, FindsDurable, Nothing
  <2> QED
    BY <2>2, <2>3
<1>c. ASSUME wpc = "writing", loaded, durable' = durable,
             CutShort \/ UNCHANGED <<slots, exposed>>
      PROVE  DurableUnlessExposed'
  <2>1. CASE UNCHANGED <<slots, exposed>>
    BY <1>1, <1>c, <2>1
  <2>2. CASE CutShort
    <3>1. /\ exposed' = (exposed \/ Valid(slots'[q]))
          /\ \A s \in Slots : s # q => slots'[s] = slots[s]
      BY <2>2, CutLeaves
    <3>2. ASSUME ~exposed', durable # Nothing
          PROVE  Usable' # {} /\ slots'[Chosen'].values = durable
      <4>1. Aside /\ ~Valid(slots'[q])
        BY <1>0, <1>c, <3>1, <3>2
      <4>2. PICK o \in Usable : o # q /\ slots[o].values = durable
        BY <4>1
      <4> HIDE DEF q
      <4> QED
        BY <1>0, <3>1, <4>1, <4>2, OtherIsFound
    <3> QED
      BY <1>c, <3>2 DEF DurableUnlessExposed, FindsDurable, Nothing
  <2> QED
    BY <1>c, <2>1, <2>2
<1>6. CASE PersistFails
  <2>1. loaded
    BY <1>0, <1>6, FailLeaves DEF GenerationInv
  <2> QED
    BY <1>6, <1>c, <2>1, FailLeaves DEF DurableInv
<1>7. ASSUME NEW R \in Registries, Crash(R) PROVE DurableInv'
  <2>1. DurableUnlessExposed'
    BY <1>1, <1>7, <1>c, CrashLeaves
  <2> QED
    BY <1>7, <2>1, CrashLeaves DEF DurableInv
<1>8. CASE UNCHANGED vars
  <2>1. UNCHANGED <<slots, loaded, rec, wpc, durable, failing, exposed>>
    BY <1>8 DEF vars, store, ram, worker, history
  <2>2. Usable' = Usable /\ Chosen' = Chosen /\ q' = q /\ DurableUnlessExposed'
    BY <1>1, <2>1 DEF Usable, Chosen, SlotOf
  <2> QED
    BY <1>0, <2>1, <2>2 DEF DurableInv, Nothing
<1> QED
  BY <1>2, <1>3, <1>4, <1>5, <1>6, <1>7, <1>8 DEF Next, Persist

-----------------------------------------------------------------------------
LEMMA InitInv == Init => IInv
<1> SUFFICES ASSUME Init PROVE IInv
  OBVIOUS
<1>1. Blank \in Recs /\ Blank.generation = 0 /\ Blank.crc = <<>> /\ ~Valid(Blank)
  BY RecordsAre DEF Blank, Valid, Crc
<1>2. Usable = {} /\ 0 \in 0 .. MaxSets
  BY <1>1, SettingsAssumption DEF Init, Usable
<1>3. TypeOK
  BY <1>1 DEF Init, TypeOK, AlwaysInRange
<1>4. GenerationInv /\ ContentInv
  BY <1>1, <1>2 DEF Init, GenerationInv, ContentInv
<1>5. OrderInv /\ DurableInv
  BY <1>2 DEF Init, OrderInv, DurableInv, DurableUnlessExposed, FindsDurable
<1> QED
  BY <1>3, <1>4, <1>5 DEF IInv

LEMMA NextInv == IInv /\ [Next]_vars => IInv'
  BY TypeNext, ContentNext, OrderNext, DurableNext DEF IInv

(* The inductive invariant, for any number of settings and of firmwares,   *)
(* whatever their ranges, and any number of sets and restarts.             *)
THEOREM Inductive == Spec => []IInv
  BY InitInv, NextInv, PTL DEF Spec

(* Whatever firmware stored the settings, settings_get never returns a     *)
(* value outside the range of the one that runs; no generation overtakes   *)
(* the number of changes.                                                  *)
THEOREM TypeCorrect == Spec => []TypeOK
<1>1. IInv => TypeOK
  BY DEF IInv
<1> QED
  BY <1>1, Inductive, PTL

(* settings_store_init never accepts a mixture: neither of a record that a *)
(* set changed while persist_work_fn waited for the flash, nor of one that *)
(* a power cut or a failing write left in the middle.                      *)
THEOREM NeverInvented == Spec => []NothingInvented
<1>1. IInv => NothingInvented
  BY ValidHasCrc DEF IInv, ContentInv, NothingInvented, Usable
<1> QED
  BY <1>1, Inductive, PTL

(* "A power cut mid-write can only lose the newest change": the save that  *)
(* last completed undisturbed is what settings_store_init finds, but for   *)
(* the ways `exposed` names.                                               *)
THEOREM UndisturbedSaveSurvives == Spec => []DurableUnlessExposed
<1>1. IInv => DurableUnlessExposed
  BY DEF IInv, DurableInv
<1> QED
  BY <1>1, Inductive, PTL
=============================================================================
