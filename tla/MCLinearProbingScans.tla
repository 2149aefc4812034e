------------------------- MODULE MCLinearProbingScans -------------------------
(* The instances of MCLinearProbing with the history variable.              *)
EXTENDS LinearProbingScans, MCLinearProbing
============================================================================
