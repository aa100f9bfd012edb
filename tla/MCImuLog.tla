------------------------------ MODULE MCImuLog ------------------------------
(* Small instances of ImuLog: the constants are given in the cfg files.    *)
EXTENDS ImuLogProofs
=============================================================================
