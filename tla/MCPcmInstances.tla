--------------------------- MODULE MCPcmInstances ---------------------------
(* A small machine for TLC.                                                  *)
EXTENDS PcmInstances, TLC

CONSTANTS p1, p2, p3

pcm == [allow |-> FALSE, reset |-> FALSE, handlers |-> TRUE]
m == [pcm EXCEPT !.allow = TRUE]        \* pcm --multiple-instances
mr == [m EXCEPT !.reset = TRUE]         \* pcm --multiple-instances -reset
driver == [pcm EXCEPT !.handlers = FALSE]   \* the benchmarks with --pcm

Machine(a, b, c) == p1 :> a @@ p2 :> b @@ p3 :> c
MCMachines == {Machine(m, m, m), Machine(m, m, pcm), Machine(m, mr, driver)}
=============================================================================
