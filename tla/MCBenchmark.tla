----------------------------- MODULE MCBenchmark -----------------------------
(* A small instance of Benchmark for TLC.                                    *)
EXTENDS Benchmark, TLC

MCThreads == 0 .. 2
MCKeys == 0 .. 11
MCValues == 1 .. 12
NoWorkloads == {}   \* the drivers make them

\* Keys n - 1, the last one loaded, and n, which the file inserts, beside key 0.
MCSizes == {1, 4, 5, 8, 9}
MCTxnFiles == [n \in MCSizes |->
  {<<Look(n - 1), call, Look(0), Ins(n), Look(n)>> : call \in {Upd(0), Look(n \div 2)}}
    \cup {<<Ins(n), Look(n), Upd(n - 1), Look(n), Look(0), Ins(n + 1), Look(n + 1)>>}]
============================================================================
