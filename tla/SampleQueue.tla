---------------------------- MODULE SampleQueue ----------------------------
(***************************************************************************)
(* What the shared-SRAM ring of src/common/imu_shared.h promises: samples  *)
(* are numbered by the FLPR in the order it takes them; each is accepted   *)
(* into a buffer of Capacity records, or lost and counted, and lost only   *)
(* when the buffer is full; the app core takes accepted samples from the   *)
(* front, in order, each once and whole.                                   *)
(***************************************************************************)
EXTENDS Naturals, Sequences

CONSTANTS
    Capacity,    \* IMU_RING_N
    LostMod      \* 2^32, where the count of lost samples wraps

VARIABLES
    clock,     \* samples accepted or lost so far
    lost,      \* samples lost so far, modulo LostMod
    buffer,    \* samples accepted and not yet taken, oldest first
    handed     \* samples taken by the app core, oldest first

queue == <<clock, lost, buffer, handed>>

Init == clock = 0 /\ lost = 0 /\ buffer = <<>> /\ handed = <<>>

Accept ==
    /\ Len(buffer) < Capacity
    /\ clock' = clock + 1
    /\ buffer' = Append(buffer, clock')
    /\ UNCHANGED <<lost, handed>>

Lose ==
    /\ Len(buffer) = Capacity
    /\ clock' = clock + 1
    /\ lost' = (lost + 1) % LostMod
    /\ UNCHANGED <<buffer, handed>>

Take ==
    \E n \in 1 .. Len(buffer) :
        /\ handed' = handed \o SubSeq(buffer, 1, n)
        /\ buffer' = SubSeq(buffer, n + 1, Len(buffer))
        /\ UNCHANGED <<clock, lost>>

Next == Accept \/ Lose \/ Take

Spec == Init /\ [][Next]_queue
=============================================================================
