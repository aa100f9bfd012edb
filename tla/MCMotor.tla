------------------------------ MODULE MCMotor ------------------------------
(* A small instance of Motor: the constants are given in the cfg file.     *)
EXTENDS Motor
=============================================================================
