------------------------------ MODULE Workload ------------------------------
(***************************************************************************)
(* Who calls an index, and with what: every thread works through its own    *)
(* list of calls, as the worker lambdas of test/hashtable_test.cpp and      *)
(* bench/benchmark.hpp work through their chunks of the input.              *)
(***************************************************************************)
EXTENDS Pairs

CONSTANTS Threads,    \* the worker threads
          NONE,       \* util/pair.h: what Get returns for an absent key
          Workloads   \* the lists of calls to choose from, one per thread

Calls == [op : {"Insert", "Update"}, key : Keys, value : Values]
           \cup [op : {"Delete", "Get"}, key : Keys]

Inserted(w, t) == {i \in DOMAIN w[t] : w[t][i].op = "Insert"}

(* No key is inserted twice: gen_input and ycsb number the keys they load. *)
FreshInserts(w) ==
  \A t, u \in Threads : \A i \in Inserted(w, t), j \in Inserted(w, u) :
     w[t][i].key = w[u][j].key => t = u /\ i = j

ASSUME WorkloadAssumption ==
  /\ NONE \notin Values
  /\ Workloads \subseteq [Threads -> Seq(Calls)]
  /\ \A w \in Workloads : FreshInserts(w)
============================================================================
