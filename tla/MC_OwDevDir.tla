---------------------------- MODULE MC_OwDevDir ----------------------------
(* Instantiation of OwDevDir for TLC: filetype arrays of up to three       *)
(* entries, one or two sub-directory names, aggregates of up to 2.         *)
EXTENDS OwDevDir

CONSTANTS g1, g2
=============================================================================
