----------------------------- MODULE MCSession -----------------------------
(* Small instances of Session: the constants are given in the cfg files.   *)
(* The code never looks into a setting, so settings are interchangeable.   *)
EXTENDS Session, TLC

ConfigSymmetry == Permutations(Configs)
=============================================================================
