------------------------------ MODULE MCStream ------------------------------
(* Small instances of Stream: the constants are given in the cfg files.    *)
EXTENDS Stream
=============================================================================
