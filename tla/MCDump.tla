------------------------------- MODULE MCDump -------------------------------
(* Small instances of Dump: the constants are given in the cfg files.      *)
EXTENDS Dump
=============================================================================
