--------------------------- MODULE MCSettingsStore ---------------------------
(* A small instance of SettingsStore: two settings, and two firmwares whose *)
(* ranges differ.                                                           *)
EXTENDS SettingsStore

Wide   == [i \in 1 .. 2 |-> [def |-> 0, min |-> 0, max |-> 2]]
Narrow == [i \in 1 .. 2 |-> [def |-> 1, min |-> 1, max |-> i]]
MCRegistries == {Wide, Narrow}
=============================================================================
