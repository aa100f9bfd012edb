-------------------------- MODULE SessionCatalogue --------------------------
(***************************************************************************)
(* What the session log of src/src/imu/imu_log.h promises its caller,      *)
(* with no directory, ring, writer thread or lock in sight: sessions bear  *)
(* ever higher numbers, one runs at a time, only the running one grows,    *)
(* and what a closed one holds is final.  A reset may shorten the session  *)
(* it cuts off, by MaxLag records at most, and no other.  A start drops    *)
(* none of the Kept - 1 sessions before it; a session may also go, whole,  *)
(* when its records are overwritten, and all go in an erase.               *)
(***************************************************************************)
EXTENDS Naturals

CONSTANTS
    Kept,      \* IMU_LOG_MAX_SESSIONS
    Batch,     \* BATCH_RECS
    MaxLag     \* most records a reset takes from the running session

VARIABLES
    running,   \* the number of the running session, 0 for none
    stored,    \* of each session kept, the records it holds
    resets     \* how often power has failed

shown == <<running, stored>>
catalogue == <<shown, resets>>

Nothing == [s \in {} |-> 0]

Init == running = 0 /\ stored = Nothing /\ resets = 0

Begin ==
    /\ running = 0 /\ running' # 0
    /\ \A s \in DOMAIN stored : s < running'
    /\ \E gone \in SUBSET {s \in DOMAIN stored : s + Kept <= running'} :
         stored' = [s \in (DOMAIN stored \ gone) \union {running'} |->
                      IF s = running' THEN 0 ELSE stored[s]]

Store ==
    /\ running # 0
    /\ \E n \in 1 .. Batch : stored' = [stored EXCEPT ![running] = @ + n]
    /\ UNCHANGED running

End == running # 0 /\ running' = 0 /\ UNCHANGED stored

(* A reset is the only thing that takes records from a session it leaves.  *)
LosePower ==
    /\ resets' = resets + 1 /\ running' = 0
    /\ \/ running = 0 /\ UNCHANGED stored
       \/ /\ running # 0
          /\ \E n \in 0 .. MaxLag :
               /\ n <= stored[running]
               /\ stored' = [stored EXCEPT ![running] = @ - n]

Forget ==
    /\ \E s \in DOMAIN stored \ {running} :
         stored' = [r \in DOMAIN stored \ {s} |-> stored[r]]
    /\ UNCHANGED running

Wipe == running = 0 /\ stored' = Nothing /\ UNCHANGED running

(* What the log does while it has power.                                   *)
Work == Begin \/ Store \/ End \/ Forget \/ Wipe

Next == (Work /\ UNCHANGED resets) \/ LosePower

Spec == Init /\ [][Next]_catalogue
=============================================================================
