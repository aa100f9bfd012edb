----------------------------- MODULE MCSampler -----------------------------
(* A small instance of Sampler: the constants are given in the cfg file.   *)
EXTENDS Sampler
=============================================================================
