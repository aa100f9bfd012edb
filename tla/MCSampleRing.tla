---------------------------- MODULE MCSampleRing ----------------------------
(* Small instances of SampleRing: the constants are given in the cfg files. *)
EXTENDS SampleRing
=============================================================================
