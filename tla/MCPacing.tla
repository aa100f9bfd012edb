------------------------------ MODULE MCPacing -----------------------------
(* A small instance of Pacing: the constants are given in the cfg file.    *)
EXTENDS Pacing

\* The highest rate, without a cap and with one whose decimation is past a byte.
TwoCaps == {[hz |-> 6660, preview |-> 0], [hz |-> 6660, preview |-> 20]}
=============================================================================
