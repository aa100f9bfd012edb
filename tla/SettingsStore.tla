--------------------------- MODULE SettingsStore ---------------------------
(***************************************************************************)
(* The persistent settings of src/src/settings/settings_store.c: a record  *)
(* in RAM, two flash slots written in turn, and a persist work item on the *)
(* system work queue, delayed by 500 ms.                                   *)
(*                                                                         *)
(* settings_set may run in any thread.  The work item's flash_write waits  *)
(* for a radio timeslot and copies the RAM record only then, so a set may  *)
(* come between the CRC and the copy.  Power may fail at any time, also    *)
(* halfway through the copy.  A CRC is the content it was computed over.   *)
(***************************************************************************)
EXTENDS Naturals, Sequences

CONSTANTS
    NumIds,         \* SETTINGS_MAX_ID, setting ids are 1 .. NumIds
    MaxValue,       \* values are 0 .. MaxValue
    Registries,     \* SETTINGS_TABLE of each firmware that may be installed
    FlashMayFail,   \* whether a flash write may fail
    MaxSets,        \* bound: changes of a setting
    MaxCrash        \* bound: power failures

Ids    == 1 .. NumIds
Values == [Ids -> 0 .. MaxValue]

ASSUME SettingsAssumption ==
    /\ NumIds \in Nat /\ MaxValue \in Nat /\ MaxSets \in Nat
    /\ Registries \subseteq [Ids -> [def : 0 .. MaxValue, min : 0 .. MaxValue,
                                     max : 0 .. MaxValue]]
    /\ \A R \in Registries : \A i \in Ids :
         R[i].min <= R[i].def /\ R[i].def <= R[i].max

ASSUME FlashAssumption == FlashMayFail \in BOOLEAN

VARIABLES
    slots,      \* the two flash slots
    registry,   \* the running firmware's table
    loaded, rec,
    work,       \* the delayed work item: "idle" or "scheduled"
    wpc,        \* its handler: "idle" or "writing"
    (* history, read by no action of the code *)
    past,       \* every content the settings have had
    durable,    \* the content of the last save that completed undisturbed
    failing,    \* the last save was disturbed or failed
    exposed,    \* a save was started after such a one, or one cut short
                \* left a record that fits the CRC of one before
    unsaved,    \* a change was made that no such save has stored
    refused,    \* some flash write failed
    sets, crashes

store   == <<slots, registry>>
ram     == <<loaded, rec>>
worker  == <<work, wpc>>
history == <<past, durable, failing, exposed, unsaved, refused>>
counted == <<sets, crashes>>
vars    == <<store, ram, worker, history, counted>>

-----------------------------------------------------------------------------
Slots == {0, 1}
Nothing == [i \in Ids |-> MaxValue + 1]    \* no content at all
Blank == [generation |-> 0, values |-> [i \in Ids |-> 0], crc |-> <<>>]
Crc(r) == <<r.generation, r.values>>

(* Mutant: only the magic word is checked.                                 *)
Valid_MagicOnly(r) == r # Blank
Valid(r) == r.crc = Crc(r)

(* Mutant: the same slot every time.                                       *)
SlotOf_First(generation) == 0
SlotOf(generation) == generation % 2

NextGeneration(generation) == generation + 1

(* The slot settings_store_init picks, of those that hold a valid record.  *)
Usable == {s \in Slots : Valid(slots[s])}
Chosen == IF 0 \in Usable
             /\ (1 \notin Usable \/ slots[0].generation >= slots[1].generation)
            THEN 0 ELSE 1

Clamp(v, m) == IF v < m.min THEN m.min ELSE IF v > m.max THEN m.max ELSE v

(* Mutant: what an older firmware stored is taken as it is.                *)
InRange_Trusting(values, R) == values

(* A stored value outside the running firmware's range becomes the default. *)
InRange(values, R) ==
    [i \in Ids |-> IF values[i] < R[i].min \/ values[i] > R[i].max
                     THEN R[i].def ELSE values[i]]

Defaults(R) == [generation |-> 0, values |-> [i \in Ids |-> R[i].def], crc |-> <<>>]

-----------------------------------------------------------------------------
(* settings_store_init.                                                    *)
Load ==
    /\ ~loaded
    /\ loaded' = TRUE
    /\ rec' = IF Usable = {} THEN Defaults(registry)
              ELSE [slots[Chosen] EXCEPT
                      !.values = InRange(slots[Chosen].values, registry)]
    /\ past' = past \union {rec'.values}
    /\ UNCHANGED <<store, worker, durable, failing, exposed, unsaved, refused,
                   counted>>

(* Mutant: a save that is being written is not scheduled again.            *)
Scheduled_NotRunning == IF wpc = "writing" THEN work ELSE "scheduled"

(* k_work_schedule: no effect on an item already waiting, but a running    *)
(* one is scheduled again.                                                 *)
Scheduled == "scheduled"

(* settings_set of a new value; one that changes nothing returns early.    *)
Set(i, v) ==
    /\ loaded /\ sets < MaxSets
    /\ rec.values[i] # Clamp(v, registry[i])
    /\ rec' = [rec EXCEPT !.values[i] = Clamp(v, registry[i])]
    /\ work' = Scheduled
    /\ past' = past \union {rec'.values}
    /\ unsaved' = TRUE
    /\ sets' = sets + 1
    /\ UNCHANGED <<store, loaded, wpc, durable, failing, exposed, refused,
                   crashes>>

(* persist_work_fn up to its flash_write.                                  *)
PersistStarts ==
    /\ work = "scheduled" /\ wpc = "idle"
    /\ work' = "idle" /\ wpc' = "writing"
    /\ LET next == [rec EXCEPT !.generation = NextGeneration(rec.generation)]
       IN rec' = [next EXCEPT !.crc = Crc(next)]
    /\ exposed' = (exposed \/ failing)
    /\ UNCHANGED <<store, loaded, past, durable, failing, unsaved, refused,
                   counted>>

(* The timeslot comes: the record, as it now is, goes to its slot.         *)
PersistWrites ==
    /\ wpc = "writing"
    /\ wpc' = "idle"
    /\ slots' = [slots EXCEPT ![SlotOf(rec.generation)] = rec]
    /\ IF rec.crc = Crc(rec)
         THEN /\ durable' = rec.values
              /\ failing' = FALSE /\ exposed' = FALSE /\ unsaved' = FALSE
         ELSE /\ failing' = TRUE
              /\ UNCHANGED <<durable, exposed, unsaved>>
    /\ UNCHANGED <<registry, ram, work, past, refused, counted>>

(* What a slot holds after k of the record's values have been written: its *)
(* CRC is the old one.                                                     *)
Torn(old, new, k) ==
    [generation |-> new.generation,
     values |-> [i \in Ids |-> IF i <= k THEN new.values[i] ELSE old.values[i]],
     crc |-> old.crc]

(* A write that ends, by an error or for want of power, before the CRC.    *)
CutShort ==
    \E k \in 0 .. NumIds :
        LET s == SlotOf(rec.generation)
            left == Torn(slots[s], rec, k)
        IN  /\ slots' = [slots EXCEPT ![s] = left]
            /\ exposed' = (exposed \/ Valid(left))

(* The flash write fails, before it has begun or in the middle: it is      *)
(* logged.                                                                 *)
PersistFails ==
    /\ FlashMayFail /\ wpc = "writing"
    /\ wpc' = "idle"
    /\ CutShort \/ UNCHANGED <<slots, exposed>>
    /\ failing' = TRUE /\ refused' = TRUE
    /\ UNCHANGED <<registry, ram, work, past, durable, unsaved, counted>>

(* Power fails, or the device restarts with this or another firmware.      *)
Crash(R) ==
    /\ loaded /\ crashes < MaxCrash
    /\ crashes' = crashes + 1
    /\ loaded' = FALSE /\ rec' = Blank
    /\ work' = "idle" /\ wpc' = "idle"
    /\ registry' = R
    /\ (wpc = "writing" /\ CutShort) \/ UNCHANGED <<slots, exposed>>
    /\ failing' = FALSE /\ unsaved' = FALSE
    /\ UNCHANGED <<past, durable, refused, sets>>

-----------------------------------------------------------------------------
Init ==
    /\ slots = [s \in Slots |-> Blank]
    /\ registry \in Registries
    /\ loaded = FALSE /\ rec = Blank
    /\ work = "idle" /\ wpc = "idle"
    /\ past = {} /\ durable = Nothing
    /\ failing = FALSE /\ exposed = FALSE /\ unsaved = FALSE /\ refused = FALSE
    /\ sets = 0 /\ crashes = 0

Persist == PersistStarts \/ PersistWrites \/ PersistFails

Next == \/ Load
        \/ Persist
        \/ \E i \in Ids, v \in 0 .. MaxValue : Set(i, v)
        \/ \E R \in Registries : Crash(R)

Spec == Init /\ [][Next]_vars

(* The work queue runs a due item, and a timeslot is granted or the write  *)
(* given up; main() loads the settings.                                    *)
FairSpec == Spec /\ WF_vars(Load) /\ WF_vars(Persist)

-----------------------------------------------------------------------------
(* Correctness.                                                            *)

Recs == [generation : 0 .. MaxSets, values : Values,
         crc : {<<>>} \union ((0 .. MaxSets) \X Values)]

(* Whatever firmware stored it, and however it was restored, every value   *)
(* in use is in the running firmware's range.                              *)
AlwaysInRange ==
    loaded => \A i \in Ids : rec.values[i] \in registry[i].min .. registry[i].max

(* Type correctness, and the range of every setting in use.                *)
TypeOK ==
    /\ slots \in [Slots -> Recs] /\ registry \in Registries
    /\ loaded \in BOOLEAN /\ rec \in Recs
    /\ work \in {"idle", "scheduled"} /\ wpc \in {"idle", "writing"}
    /\ AlwaysInRange

(* A record that settings_store_init accepts is one the settings really    *)
(* were in: neither a power cut in mid-write nor a set in mid-save makes   *)
(* it accept a mixture.                                                    *)
NothingInvented == \A s \in Usable : slots[s].values \in past

(* settings_store_init would find the last undisturbed save.               *)
FindsDurable ==
    durable # Nothing => Usable # {} /\ slots[Chosen].values = durable

(* A save that completed undisturbed survives any later power cut, in any  *)
(* later save and of any later firmware, unless that save came after one   *)
(* that was disturbed by a set or that failed, or was cut so that a record *)
(* was left that fits the CRC an earlier save had left in the slot.        *)
DurableUnlessExposed == ~exposed => FindsDurable

(* "load picks the valid slot with the highest generation, so a power cut  *)
(* mid-write can only lose the newest change, never corrupt the store"     *)
(* (settings_store.c): with no write that fails.                           *)
PowerCutSafe == FindsDurable

(* Every change is saved in the end, a change made while a save is being   *)
(* written too, unless a flash write fails: that one is not retried.       *)
ChangesSaved == unsaved ~> (~unsaved \/ refused)
=============================================================================
