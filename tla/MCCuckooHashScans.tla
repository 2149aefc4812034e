-------------------------- MODULE MCCuckooHashScans --------------------------
(* The instances of MCCuckooHash with the history variable.                 *)
EXTENDS CuckooHashScans, MCCuckooHash
============================================================================
