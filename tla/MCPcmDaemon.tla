----------------------------- MODULE MCPcmDaemon -----------------------------
(* Small instances of PcmDaemon for TLC.                                     *)
EXTENDS PcmDaemon

MCSubscriptions == {{"core", "memory", "qpi"}, {"memory"}}

\* A machine with several sockets, of a model that has all counters.
AllMetrics == UNION {Metrics[counters] : counters \in DOMAIN Metrics}
=============================================================================
