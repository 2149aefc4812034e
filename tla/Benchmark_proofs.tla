-------------------------- MODULE Benchmark_proofs --------------------------
(***************************************************************************)
(* That the drivers cut up their input as they should, whatever its size    *)
(* and however many threads work on it, and are given no wrong answer.      *)
(*                                                                         *)
(* First what the phases of each driver ask of its threads (Facts), then    *)
(* how far they have come with it and what that has made of the table       *)
(* (Underway), and what follows.                                            *)
(***************************************************************************)
EXTENDS Benchmark, FiniteSetTheorems, WellFoundedInduction, TLAPS

\* The calls that a driver may make; a position may lie beyond the keys.
AnyCall == [op : {"Insert", "Update"}, key : Nat, value : Nat \ {0}]
             \cup [op : {"Delete", "Get"}, key : Nat] \cup Calls
Ops == {"Insert", "Get", "Update", "Delete"}

\* The keys that may be in the table when a phase begins that inserts.
Before(p) == CASE mode = "mixed" /\ p = 2 -> 0 .. Warmup - 1
               [] mode = "ycsb" /\ p = 2 -> 0 .. num - 1
               [] mode = "utilization" \/ p < 2 -> {}
               [] OTHER -> Keys

\* The positions that the first phase of a driver loads.
Loaded == IF mode = "ycsb" THEN ChunkSize(num) * threads ELSE num
Share == ChunkSize(Len(txn))

Checks == mode \in {"hashtable_test", "microbench", "ycsb"}

\* What the jobs of a phase may be:
Typed(jobs) == DOMAIN jobs = Threads /\ \A t \in Threads : jobs[t] \in Seq(AnyCall)

\* no key is inserted twice,
Fresh(jobs, p) ==
  /\ FreshInserts(jobs)
  /\ \A t \in Threads : \A i \in Inserted(jobs, t) : jobs[t][i].key \in Keys \ Before(p)

\* no key is of two threads,
Split(jobs) ==
  /\ \A t \in Threads : \A i \in DOMAIN jobs[t] : jobs[t][i].key \in 0 .. num - 1
  /\ \A t, u \in Threads : t # u =>
       \A i \in DOMAIN jobs[t], j \in DOMAIN jobs[u] : jobs[t][i].key # jobs[u][j].key

\* every key that will be looked for is inserted,
Covers(jobs, n) ==
  \A k \in 0 .. n - 1 : \E t \in Threads : \E i \in DOMAIN jobs[t] : jobs[t][i].key = k
Loads(jobs) ==
  /\ \A t \in Threads : \A i \in DOMAIN jobs[t] :
       /\ jobs[t][i].op = "Insert" /\ jobs[t][i].value = jobs[t][i].key + 1
       /\ jobs[t][i].key \in 0 .. num - 1
  /\ Covers(jobs, Loaded)

\* nothing is inserted that the second phase inserts,
LoadsFew(jobs) == \A t \in Threads : \A i \in Inserted(jobs, t) : jobs[t][i].key \in Before(2)

\* the keys are looked up, or their values written again,
Looks(jobs) ==
  \A t \in Threads : \A i \in DOMAIN jobs[t] :
    /\ jobs[t][i].key \in 0 .. num - 1
    /\ \/ jobs[t][i].op = "Get"
       \/ jobs[t][i].op = "Update" /\ jobs[t][i].value = jobs[t][i].key + 1

\* they are deleted one after the other,
OneByOne(jobs) ==
  \A t \in Threads : \A i \in DOMAIN jobs[t] : t = 0 /\ jobs[t][i].key = i - 1 /\ i <= num
Deletes(jobs) ==
  OneByOne(jobs) /\ \A t \in Threads : \A i \in DOMAIN jobs[t] : jobs[t][i].op = "Delete"

\* and a thread of ycsb works through its share of the transactions.
Transacts(jobs) ==
  \A t \in Threads :
    /\ \A i \in DOMAIN jobs[t] : i \in 1 .. Share /\ Share * t + i \in DOMAIN txn
                                 /\ jobs[t][i] = txn[Share * t + i]
    /\ jobs[t] # <<>> => DOMAIN jobs[t] = 1 .. Share

\* What the threads are to do in phase p.
Facts(jobs, p) ==
  /\ Typed(jobs)
  /\ Fits => Fresh(jobs, p)
  /\ Fits /\ ~ (mode = "ycsb" /\ p = 2) => Split(jobs)
  /\ Checks /\ p = 1 => Loads(jobs)
  /\ mode \in {"mixed", "ycsb"} /\ p = 1 => LoadsFew(jobs)
  /\ (mode = "hashtable_test" /\ p = 2) \/ (mode = "microbench" /\ p \in 2 .. 3) => Looks(jobs)
  /\ mode = "microbench" /\ p = 4 => Deletes(jobs)
  /\ mode = "ycsb" /\ p = 2 => Transacts(jobs)

-----------------------------------------------------------------------------
(* Arithmetic.                                                             *)

LEMMA Times ==
  ASSUME NEW c \in Nat, NEW a \in Nat, NEW b \in Nat, a < b
  PROVE  /\ c * (a + 1) <= c * b /\ c * a \in Nat /\ c * b \in Nat
         /\ c * (a + 1) = c * a + c
OBVIOUS

LEMMA Quotient ==
  ASSUME NEW n \in Nat, NEW d \in Nat \ {0}
  PROVE  /\ n \div d \in Nat /\ n % d \in 0 .. d - 1
         /\ d * (n \div d) + (n % d) = n /\ d * (n \div d) <= n
         /\ n \div d <= n
OBVIOUS

\* A batch that comes before the last ends before it.
LEMMA Within ==
  ASSUME NEW b \in Nat, NEW e \in Nat, NEW n \in Nat, e < n, NEW r \in 0 .. b - 1
  PROVE  b * e + r \in 0 .. b * n - 1
<1>1. b * (e + 1) <= b * n /\ b * (e + 1) = b * e + b /\ b * e \in Nat /\ b * n \in Nat
  BY Times
<1> QED
  BY <1>1

\* A set of natural numbers that is not empty has a least one.
LEMMA LeastNumber ==
  ASSUME NEW S \in SUBSET Nat, S # {}
  PROVE  \E n \in S : \A m \in S : n <= m
<1>1. \E n \in S : \A m \in S : ~ (<<m, n>> \in OpToRel(<, Nat))
  BY WFMin, NatLessThanWellFounded
<1>2. \A m, n \in S : ~ (<<m, n>> \in OpToRel(<, Nat)) => n <= m
  BY DEF OpToRel
<1>3. QED
  BY <1>1, <1>2

\* Of equal chunks, whose is a position.
LEMMA ChunkOf ==
  ASSUME NEW c \in Nat, NEW n \in Nat, NEW k \in 0 .. c * n - 1
  PROVE  \E t \in 0 .. n - 1 : k \in c * t .. c * (t + 1) - 1
<1>1. c # 0 /\ n # 0
  OBVIOUS
<1>2. DEFINE t == k \div c
<1>3. t \in Nat /\ c * t + (k % c) = k /\ k % c \in 0 .. c - 1
  BY <1>1, Quotient
<1>4. t < n
  <2>1. SUFFICES ASSUME n <= t PROVE FALSE
    BY <1>3
  <2>2. c * n <= c * t
    BY <2>1, <1>3
  <2> QED
    BY <2>2, <1>3
<1>5. c * (t + 1) = c * t + c
  BY <1>3
<1>6. t \in 0 .. n - 1 /\ c * t \in Nat /\ c * (t + 1) \in Nat
  BY <1>3, <1>4
<1>7. k \in c * t .. c * (t + 1) - 1
  <2>1. \A m, x, y \in Int : m + y = k /\ y \in 0 .. c - 1 /\ x = m + c => k \in m .. x - 1
    OBVIOUS
  <2>2. c * t \in Int /\ c * (t + 1) \in Int /\ k % c \in Int
    BY <1>3, <1>6
  <2> HIDE DEF t
  <2> QED
    BY <2>1, <2>2, <1>3, <1>5
<1> HIDE DEF t
<1> QED
  BY <1>6, <1>7

-----------------------------------------------------------------------------
(* What is the same in every state of a driver.                            *)

DriverOK ==
  /\ mode \in Modes /\ num \in Sizes
  /\ threads \in 1 .. Cardinality(Threads)
  /\ mode \in {"insert_only", "microbench", "utilization"} => threads = 1
  /\ txn \in IF mode = "ycsb" THEN TxnFiles[num] ELSE {<<>>}

LEMMA Constants ==
  /\ Modes \subseteq Drivers
  /\ Cardinality(Threads) \in Nat /\ Threads \subseteq Nat /\ 0 \in Threads
  /\ Batch \in Nat \ {0} /\ Step \in Nat \ {0} /\ NumIter \in Nat \ {0}
  /\ UpdatePart \in Nat \ {0} /\ DeletePart \in Nat \ {0}
  /\ Sizes \subseteq Nat \ {0} /\ \A n \in Sizes : 0 .. n - 1 \subseteq Keys
  /\ Keys \subseteq Nat
  /\ NONE = 0 /\ 0 \notin Values
<1>1. Cardinality(Threads) \in Nat /\ Cardinality(Keys) \in Nat
  BY BenchmarkAssumption, FS_CardinalityType
<1>2. Sizes \subseteq Nat \ {0} /\ {Batch, Step, NumIter, UpdatePart, DeletePart} \subseteq Nat \ {0}
  BY BenchmarkAssumption
<1>3. \A n \in Sizes : 0 .. n - 1 \subseteq Keys
  <2>1. SUFFICES ASSUME NEW n \in Sizes PROVE 0 .. n - 1 \subseteq Keys
    OBVIOUS
  <2>2. n \in Nat /\ n <= Cardinality(Keys) /\ Keys = 0 .. Cardinality(Keys) - 1
    BY <1>2, BenchmarkAssumption
  <2> QED
    BY <2>2, <1>1
<1>4. Threads \subseteq Nat /\ 0 \in Threads
  <2>1. Threads = 0 .. Cardinality(Threads) - 1 /\ Threads # {}
    BY BenchmarkAssumption
  <2> QED
    BY <2>1, <1>1
<1>5. Keys \subseteq Nat
  <2>1. Keys = 0 .. Cardinality(Keys) - 1
    BY BenchmarkAssumption
  <2> QED
    BY <2>1, <1>1
<1>6. NONE = 0 /\ Modes \subseteq Drivers
  BY BenchmarkAssumption
<1> QED
  BY <1>1, <1>2, <1>3, <1>4, <1>5, <1>6, WorkloadAssumption

LEMMA DriverFacts ==
  ASSUME DriverOK
  PROVE  /\ num \in Nat \ {0} /\ 0 .. num - 1 \subseteq Keys
         /\ threads \in Nat \ {0} /\ Workers \subseteq Threads /\ 0 \in Workers
         /\ Workers = 0 .. threads - 1
         /\ mode \in Drivers
         /\ Warmup \in Nat /\ 2 * Warmup <= num
<1>1. num \in Nat \ {0} /\ 0 .. num - 1 \subseteq Keys /\ mode \in Drivers
  BY Constants DEF DriverOK
<1>2. threads \in Nat \ {0} /\ 0 \in Workers /\ Workers = 0 .. threads - 1
  BY Constants DEF DriverOK, Workers
<1>3. Threads = 0 .. Cardinality(Threads) - 1
  BY BenchmarkAssumption
<1>4. Workers \subseteq Threads
  BY <1>2, <1>3, Constants DEF DriverOK
<1>5. Warmup \in Nat /\ 2 * Warmup <= num
  BY <1>1, Quotient DEF Warmup
<1> QED
  BY <1>1, <1>2, <1>4, <1>5

LEMMA ChunkSizes ==
  ASSUME DriverOK, NEW total \in Nat
  PROVE  ChunkSize(total) \in Nat /\ ChunkSize(total) * threads <= total
<1>1. threads \in Nat \ {0}
  BY DriverFacts
<1>2. threads * ChunkSize(total) = ChunkSize(total) * threads /\ ChunkSize(total) \in Nat
  BY <1>1, Quotient DEF ChunkSize
<1> QED
  BY <1>1, <1>2, Quotient DEF ChunkSize

-----------------------------------------------------------------------------
(* Loops over ranges that do not overlap.                                  *)

\* Every call of the jobs is an op at a position of its own before total.
Looping(jobs, op, total) ==
  /\ DOMAIN jobs = Threads /\ \A t \in Threads : jobs[t] \in Seq(AnyCall)
  /\ \A t \in Threads : \A i \in DOMAIN jobs[t] :
       /\ jobs[t][i].op = op /\ jobs[t][i].key \in 0 .. total - 1
       /\ op \in {"Insert", "Update"} => jobs[t][i].value = jobs[t][i].key + 1
  /\ \A t, u \in Threads : \A i \in DOMAIN jobs[t], j \in DOMAIN jobs[u] :
       jobs[t][i].key = jobs[u][j].key => t = u /\ i = j

LEMMA CallAtFacts ==
  ASSUME NEW op \in Ops, NEW i \in Nat
  PROVE  /\ CallAt(op, i) \in AnyCall /\ CallAt(op, i).op = op /\ CallAt(op, i).key = i
         /\ op \in {"Insert", "Update"} => CallAt(op, i).value = i + 1
<1>1. i + 1 \in Nat \ {0}
  OBVIOUS
<1>2. CASE op = "Insert"
  BY <1>1, <1>2 DEF CallAt, Ins, AnyCall
<1>3. CASE op = "Get"
  BY <1>3 DEF CallAt, Look, AnyCall
<1>4. CASE op = "Update"
  BY <1>1, <1>4 DEF CallAt, Upd, AnyCall
<1>5. CASE op = "Delete"
  BY <1>5 DEF CallAt, Del, AnyCall
<1> QED
  BY <1>2, <1>3, <1>4, <1>5 DEF Ops

\* The job is op at every position of a range.
IsLoop(job, op, from, to) ==
  /\ job \in Seq(AnyCall) /\ DOMAIN job = 1 .. (to - from)
  /\ \A i \in DOMAIN job : /\ job[i].op = op /\ job[i].key = from + i - 1
                           /\ op \in {"Insert", "Update"} => job[i].value = job[i].key + 1

LEMMA LoopFacts ==
  ASSUME NEW op \in Ops, NEW from \in Nat, NEW to \in Nat, from <= to
  PROVE  IsLoop(Loop(op, from, to), op, from, to)
<1> DEFINE n == to - from
<1>1. n \in Nat
  OBVIOUS
<1>2. \A i \in 1 .. n : from + i - 1 \in Nat
  OBVIOUS
<1>3. Loop(op, from, to) = [i \in 1 .. n |-> CallAt(op, from + i - 1)]
  BY DEF Loop
<1>4. \A i \in 1 .. n : LET call == CallAt(op, from + i - 1) IN
        /\ call \in AnyCall /\ call.op = op /\ call.key = from + i - 1
        /\ op \in {"Insert", "Update"} => call.value = call.key + 1
  BY <1>2, CallAtFacts
<1> HIDE DEF n
<1>5. Loop(op, from, to) \in Seq(AnyCall)
  <2>1. \A i \in 1 .. n : CallAt(op, from + i - 1) \in AnyCall
    BY <1>4
  <2>2. Loop(op, from, to) \in [1 .. n -> AnyCall]
    BY <1>3, <2>1
  <2> QED
    BY <1>1, <2>2
<1> QED
  BY <1>3, <1>4, <1>5 DEF n, IsLoop

\* Ranges of positions for the threads.
Ranges(from, to, total) ==
  /\ from \in [Threads -> Nat] /\ to \in [Threads -> Nat]
  /\ \A t \in Threads : from[t] <= to[t] /\ to[t] <= total
  /\ \A t, u \in Threads : t # u => to[t] <= from[u] \/ to[u] <= from[t]

OnRanges(jobs, op, from, to) ==
  DOMAIN jobs = Threads /\ \A t \in Threads : IsLoop(jobs[t], op, from[t], to[t])

LEMMA LoopsFacts ==
  ASSUME NEW op \in Ops, NEW total \in Nat, NEW from, NEW to, NEW jobs,
         Ranges(from, to, total), OnRanges(jobs, op, from, to)
  PROVE  Looping(jobs, op, total)
<1>1. \A t \in Threads :
        /\ jobs[t] \in Seq(AnyCall) /\ DOMAIN jobs[t] = 1 .. (to[t] - from[t])
        /\ \A i \in DOMAIN jobs[t] :
             /\ jobs[t][i].op = op /\ jobs[t][i].key = from[t] + i - 1
             /\ op \in {"Insert", "Update"} => jobs[t][i].value = jobs[t][i].key + 1
  BY DEF IsLoop, OnRanges
<1>2. DOMAIN jobs = Threads /\ \A t \in Threads : jobs[t] \in Seq(AnyCall)
  BY <1>1 DEF OnRanges
<1>3. \A t \in Threads : \A i \in DOMAIN jobs[t] : jobs[t][i].key \in from[t] .. to[t] - 1
  BY SMTT(30), <1>1 DEF Ranges
<1>4. \A t \in Threads : \A i \in DOMAIN jobs[t] : jobs[t][i].key \in 0 .. total - 1
  BY <1>3 DEF Ranges
<1>5. \A t, u \in Threads : \A i \in DOMAIN jobs[t], j \in DOMAIN jobs[u] :
       jobs[t][i].key = jobs[u][j].key => t = u /\ i = j
  <2>1. SUFFICES ASSUME NEW t \in Threads, NEW u \in Threads,
                        NEW i \in DOMAIN jobs[t], NEW j \in DOMAIN jobs[u],
                        jobs[t][i].key = jobs[u][j].key
                 PROVE  t = u /\ i = j
    OBVIOUS
  <2>2. t = u
    BY <2>1, <1>3 DEF Ranges
  <2>3. /\ from[t] \in Nat /\ i \in 1 .. (to[t] - from[t]) /\ j \in 1 .. (to[t] - from[t])
        /\ jobs[t][i].key = from[t] + i - 1 /\ jobs[t][j].key = from[t] + j - 1
    <3>1. from[t] \in Nat /\ DOMAIN jobs[t] = 1 .. (to[t] - from[t])
      BY <1>1 DEF Ranges
    <3>2. i \in DOMAIN jobs[t] /\ j \in DOMAIN jobs[t]
      BY <2>1, <2>2
    <3> QED
      BY <1>1, <3>1, <3>2
  <2> QED
    BY <2>1, <2>2, <2>3
<1> QED
  BY <1>1, <1>2, <1>4, <1>5 DEF Looping

-----------------------------------------------------------------------------
(* The phases that are loops.                                              *)

LEMMA ChunksShape ==
  ASSUME DriverOK, NEW op \in Ops, NEW total \in Nat, NEW jobs,
         jobs = StartThreads([t \in Workers |-> Chunk(op, total, t)])
  PROVE  Looping(jobs, op, total) /\ Covers(jobs, ChunkSize(total) * threads)
<1> DEFINE c == ChunkSize(total)
           from == [t \in Threads |-> IF t \in Workers THEN c * t ELSE 0]
           to == [t \in Threads |-> IF t \in Workers THEN c * (t + 1) ELSE 0]
<1>1. /\ c \in Nat /\ c * threads <= total /\ threads \in Nat \ {0}
      /\ Workers = 0 .. threads - 1 /\ Workers \subseteq Threads /\ Threads \subseteq Nat
  BY ChunkSizes, DriverFacts, Constants
<1> HIDE DEF c
<1>2. \A t \in Workers : /\ c * t \in Nat /\ c * (t + 1) \in Nat /\ c * (t + 1) = c * t + c
                         /\ c * (t + 1) <= total
  <2>1. SUFFICES ASSUME NEW t \in Workers
                 PROVE  /\ c * t \in Nat /\ c * (t + 1) \in Nat /\ c * (t + 1) = c * t + c
                        /\ c * (t + 1) <= total
    OBVIOUS
  <2>2. t \in Nat /\ t < threads
    BY <1>1
  <2>3. c * (t + 1) <= c * threads /\ c * (t + 1) = c * t + c /\ c * t \in Nat /\ c * threads \in Nat
    BY <1>1, <2>2, Times
  <2> QED
    BY <1>1, <2>3
<1>3. from \in [Threads -> Nat] /\ to \in [Threads -> Nat]
  BY <1>2
<1>4. \A t \in Threads : from[t] <= to[t] /\ to[t] <= total
  BY <1>1, <1>2
<1>5. \A t, u \in Threads : t # u => to[t] <= from[u] \/ to[u] <= from[t]
  <2>1. SUFFICES ASSUME NEW t \in Threads, NEW u \in Threads, t < u
                 PROVE  to[t] <= from[u] \/ to[u] <= from[t]
    BY <1>1
  <2>2. CASE t \in Workers /\ u \in Workers
    <3>1. c * (t + 1) <= c * u
      BY <1>1, <2>1, <2>2, Times
    <3> QED
      BY <3>1, <2>2
  <2>3. CASE t \notin Workers
    BY <2>3, <1>3
  <2>4. CASE u \notin Workers
    BY <2>4, <1>3
  <2> QED
    BY <2>2, <2>3, <2>4
<1>6. DOMAIN jobs = Threads /\ \A t \in Threads : IsLoop(jobs[t], op, from[t], to[t])
  <2>1. \A t \in Workers : Chunk(op, total, t) = Loop(op, from[t], to[t])
    BY <1>1 DEF Chunk, c
  <2>2. Loop(op, 0, 0) = <<>>
    BY DEF Loop
  <2>3. \A t \in Threads \ Workers : Loop(op, from[t], to[t]) = <<>>
    BY <2>2
  <2>4. \A t \in Threads : (IF t \in Workers THEN [u \in Workers |-> Chunk(op, total, u)][t] ELSE <<>>)
                           = Loop(op, from[t], to[t])
    BY <2>1, <2>3
  <2> HIDE DEF from, to
  <2>5. \A t \in Threads : jobs[t] = Loop(op, from[t], to[t])
    BY <2>4 DEF StartThreads
  <2>6. \A t \in Threads : IsLoop(Loop(op, from[t], to[t]), op, from[t], to[t])
    BY <1>3, <1>4, LoopFacts
  <2> QED
    BY <2>5, <2>6 DEF StartThreads
<1>7. \A t \in Workers : from[t] = c * t /\ to[t] = c * (t + 1)
  BY <1>1
<1> HIDE DEF from, to
<1>8. /\ Looping(jobs, op, total)
      /\ \A t \in Threads : /\ DOMAIN jobs[t] = 1 .. (to[t] - from[t])
                            /\ \A i \in DOMAIN jobs[t] : jobs[t][i].key = from[t] + i - 1
  <2>1. Ranges(from, to, total) /\ OnRanges(jobs, op, from, to)
    BY <1>3, <1>4, <1>5, <1>6 DEF Ranges, OnRanges
  <2> QED
    BY <2>1, LoopsFacts DEF OnRanges, IsLoop
<1>9. ASSUME NEW k \in 0 .. c * threads - 1
      PROVE  \E t \in Threads : \E i \in DOMAIN jobs[t] : jobs[t][i].key = k
  <2>1. PICK t \in 0 .. threads - 1 : k \in c * t .. c * (t + 1) - 1
    BY <1>1, ChunkOf
  <2>2. t \in Workers /\ t \in Threads /\ k \in from[t] .. to[t] - 1
    BY <2>1, <1>1, <1>7
  <2>3. from[t] \in Nat /\ to[t] \in Nat
    BY <2>2, <1>3
  <2>4. k - from[t] + 1 \in 1 .. (to[t] - from[t]) /\ from[t] + (k - from[t] + 1) - 1 = k
    BY <2>2, <2>3
  <2> QED
    BY <2>2, <2>4, <1>8
<1> QED
  BY <1>8, <1>9 DEF Covers, c

LEMMA AllShape ==
  ASSUME DriverOK, NEW op \in Ops, NEW jobs,
         jobs = StartThreads([t \in Workers |-> ChunkAndRest(op, t)])
  PROVE  Looping(jobs, op, num) /\ Covers(jobs, num)
<1> DEFINE c == ChunkSize(num)
           from == [t \in Threads |-> IF t \in Workers THEN c * t ELSE 0]
           to == [t \in Threads |-> IF t \in Workers
                                    THEN IF t # threads - 1 THEN c * (t + 1) ELSE num ELSE 0]
<1>1. /\ num \in Nat /\ c \in Nat /\ c * threads <= num /\ threads \in Nat \ {0}
      /\ Workers = 0 .. threads - 1 /\ Workers \subseteq Threads /\ Threads \subseteq Nat
  BY ChunkSizes, DriverFacts, Constants
<1> HIDE DEF c
<1>2. \A t \in Workers : /\ c * t \in Nat /\ c * (t + 1) \in Nat /\ c * (t + 1) = c * t + c
                         /\ c * (t + 1) <= num
  <2>1. SUFFICES ASSUME NEW t \in Workers
                 PROVE  /\ c * t \in Nat /\ c * (t + 1) \in Nat /\ c * (t + 1) = c * t + c
                        /\ c * (t + 1) <= num
    OBVIOUS
  <2>2. t \in Nat /\ t < threads
    BY <1>1
  <2>3. c * (t + 1) <= c * threads /\ c * (t + 1) = c * t + c /\ c * t \in Nat /\ c * threads \in Nat
    BY <1>1, <2>2, Times
  <2> QED
    BY <1>1, <2>3
<1>3. from \in [Threads -> Nat] /\ to \in [Threads -> Nat]
  BY <1>1, <1>2
<1>4. \A t \in Threads : from[t] <= to[t] /\ to[t] <= num
  BY <1>1, <1>2
<1>5. \A t, u \in Threads : t # u => to[t] <= from[u] \/ to[u] <= from[t]
  <2>1. SUFFICES ASSUME NEW t \in Threads, NEW u \in Threads, t < u
                 PROVE  to[t] <= from[u] \/ to[u] <= from[t]
    BY <1>1
  <2>2. CASE t \in Workers /\ u \in Workers
    <3>1. c * (t + 1) <= c * u /\ t # threads - 1
      BY <1>1, <2>1, <2>2, Times
    <3> QED
      BY <3>1, <2>2
  <2>3. CASE t \notin Workers
    BY <2>3, <1>3
  <2>4. CASE u \notin Workers
    BY <2>4, <1>3
  <2> QED
    BY <2>2, <2>3, <2>4
<1>6. DOMAIN jobs = Threads /\ \A t \in Threads : IsLoop(jobs[t], op, from[t], to[t])
  <2>1. \A t \in Workers : ChunkAndRest(op, t) = Loop(op, from[t], to[t])
    BY <1>1 DEF ChunkAndRest, c
  <2>2. Loop(op, 0, 0) = <<>>
    BY DEF Loop
  <2>3. \A t \in Threads \ Workers : Loop(op, from[t], to[t]) = <<>>
    BY <2>2
  <2>4. \A t \in Threads : (IF t \in Workers THEN [u \in Workers |-> ChunkAndRest(op, u)][t] ELSE <<>>)
                           = Loop(op, from[t], to[t])
    BY <2>1, <2>3
  <2> HIDE DEF from, to
  <2>5. \A t \in Threads : jobs[t] = Loop(op, from[t], to[t])
    BY <2>4 DEF StartThreads
  <2>6. \A t \in Threads : IsLoop(Loop(op, from[t], to[t]), op, from[t], to[t])
    BY <1>3, <1>4, LoopFacts
  <2> QED
    BY <2>5, <2>6 DEF StartThreads
<1>7. \A t \in Workers : from[t] = c * t /\ to[t] = IF t # threads - 1 THEN c * (t + 1) ELSE num
  BY <1>1
<1> HIDE DEF from, to
<1>8. /\ Looping(jobs, op, num)
      /\ \A t \in Threads : /\ DOMAIN jobs[t] = 1 .. (to[t] - from[t])
                            /\ \A i \in DOMAIN jobs[t] : jobs[t][i].key = from[t] + i - 1
  <2>1. Ranges(from, to, num) /\ OnRanges(jobs, op, from, to)
    BY <1>3, <1>4, <1>5, <1>6 DEF Ranges, OnRanges
  <2>2. num \in Nat
    BY <1>1
  <2>3. Looping(jobs, op, num)
    BY <2>1, <2>2, LoopsFacts
  <2> QED
    BY <2>1, <2>3 DEF OnRanges, IsLoop
<1>9. ASSUME NEW k \in 0 .. num - 1
      PROVE  \E t \in Threads : \E i \in DOMAIN jobs[t] : jobs[t][i].key = k
  <2>1. PICK t \in Workers : k \in from[t] .. to[t] - 1
    <3>1. threads - 1 \in Workers /\ c * (threads - 1) \in Nat
      BY <1>1, <1>2
    <3>2. CASE k >= c * (threads - 1)
      BY <3>1, <3>2, <1>7
    <3>3. CASE k < c * (threads - 1)
      <4>1. k \in 0 .. c * (threads - 1) - 1 /\ threads - 1 \in Nat
        BY <3>1, <3>3, <1>1
      <4>2. PICK t \in 0 .. (threads - 1) - 1 : k \in c * t .. c * (t + 1) - 1
        BY <4>1, <1>1, ChunkOf
      <4>3. t \in Workers /\ t # threads - 1
        BY <1>1
      <4> QED
        BY <4>2, <4>3, <1>7
    <3> QED
      BY <3>1, <3>2, <3>3
  <2>2. t \in Threads /\ from[t] \in Nat /\ to[t] \in Nat
    BY <1>1, <1>3
  <2>3. k - from[t] + 1 \in 1 .. (to[t] - from[t]) /\ from[t] + (k - from[t] + 1) - 1 = k
    BY <2>1, <2>2
  <2> QED
    BY <2>2, <2>3, <1>8
<1> QED
  BY <1>8, <1>9 DEF Covers

LEMMA MainShape ==
  ASSUME DriverOK, NEW op \in Ops, NEW n \in Nat, NEW jobs, jobs = Main(Loop(op, 0, n))
  PROVE  /\ Looping(jobs, op, n) /\ Covers(jobs, n)
         /\ n <= num => OneByOne(jobs)
<1> DEFINE from == [t \in Threads |-> 0]
           to == [t \in Threads |-> IF t = 0 THEN n ELSE 0]
<1>1. from \in [Threads -> Nat] /\ to \in [Threads -> Nat] /\ 0 \in Threads
  BY Constants
<1>2. \A t \in Threads : from[t] <= to[t] /\ to[t] <= n
  OBVIOUS
<1>3. \A t, u \in Threads : t # u => to[t] <= from[u] \/ to[u] <= from[t]
  OBVIOUS
<1>4. DOMAIN jobs = Threads /\ \A t \in Threads : IsLoop(jobs[t], op, from[t], to[t])
  <2>1. Loop(op, 0, 0) = <<>>
    BY DEF Loop
  <2>2. \A t \in Threads : jobs[t] = Loop(op, from[t], to[t])
    BY <2>1 DEF Main
  <2> HIDE DEF from, to
  <2>3. \A t \in Threads : IsLoop(Loop(op, from[t], to[t]), op, from[t], to[t])
    BY <1>1, <1>2, LoopFacts
  <2> QED
    BY <2>2, <2>3 DEF Main
<1>5. \A t \in Threads : from[t] = 0 /\ to[t] = IF t = 0 THEN n ELSE 0
  OBVIOUS
<1> HIDE DEF from, to
<1>6. /\ Looping(jobs, op, n)
      /\ \A t \in Threads : /\ DOMAIN jobs[t] = 1 .. (to[t] - from[t])
                            /\ \A i \in DOMAIN jobs[t] : jobs[t][i].key = from[t] + i - 1
  <2>1. Ranges(from, to, n) /\ OnRanges(jobs, op, from, to)
    BY <1>1, <1>2, <1>3, <1>4 DEF Ranges, OnRanges
  <2> QED
    BY <2>1, LoopsFacts DEF OnRanges, IsLoop
<1>8. \A k \in 0 .. n - 1 : k + 1 \in DOMAIN jobs[0] /\ jobs[0][k + 1].key = k
  <2>1. from[0] = 0 /\ to[0] = n /\ DOMAIN jobs[0] = 1 .. n
    BY <1>1, <1>5, <1>6
  <2> QED
    BY <1>1, <1>6, <2>1
<1>9. n <= num => OneByOne(jobs)
  <2>1. SUFFICES ASSUME n <= num, NEW t \in Threads, NEW i \in DOMAIN jobs[t]
                 PROVE  t = 0 /\ jobs[t][i].key = i - 1 /\ i <= num
    BY DEF OneByOne
  <2> QED
    BY <2>1, <1>1, <1>5, <1>6, DriverFacts
<1> QED
  BY <1>1, <1>6, <1>8, <1>9 DEF Covers

-----------------------------------------------------------------------------
(* The second phase of mixed().                                            *)

Earlier(draws, j) == {k \in 1 .. j - 1 : (draws[k] = "Insert") = (draws[j] = "Insert")}
From(t, draws, j) == ChunkSize(Warmup) * t + Batch * Cardinality(Earlier(draws, j))
                       + (IF draws[j] = "Insert" THEN Warmup ELSE 0)

\* A batch has as many of its kind before it as it may, and more than those of them.
LEMMA EarlierFacts ==
  ASSUME NEW draws, NEW j \in Nat \ {0}
  PROVE  /\ Cardinality(Earlier(draws, j)) \in 0 .. j - 1
         /\ \A i \in 1 .. j - 1 : (draws[i] = "Insert") = (draws[j] = "Insert")
              => Cardinality(Earlier(draws, i)) < Cardinality(Earlier(draws, j))
<1>1. j - 1 \in Nat
  OBVIOUS
<1>2. IsFiniteSet(1 .. j - 1) /\ Cardinality(1 .. j - 1) = j - 1
  BY <1>1, FS_Interval
<1>3. Earlier(draws, j) \subseteq 1 .. j - 1
  BY DEF Earlier
<1>4. /\ IsFiniteSet(Earlier(draws, j)) /\ Cardinality(Earlier(draws, j)) \in Nat
      /\ Cardinality(Earlier(draws, j)) <= j - 1
  BY <1>2, <1>3, FS_Subset, FS_CardinalityType
<1>5. ASSUME NEW i \in 1 .. j - 1, (draws[i] = "Insert") = (draws[j] = "Insert")
      PROVE  Cardinality(Earlier(draws, i)) < Cardinality(Earlier(draws, j))
  <2>1. Earlier(draws, i) \subseteq Earlier(draws, j) /\ i \in Earlier(draws, j) /\ i \notin Earlier(draws, i)
    BY <1>5 DEF Earlier
  <2>2. Earlier(draws, i) # Earlier(draws, j)
    BY <2>1
  <2>3. /\ Cardinality(Earlier(draws, i)) <= Cardinality(Earlier(draws, j))
        /\ Cardinality(Earlier(draws, i)) \in Nat
        /\ Cardinality(Earlier(draws, i)) = Cardinality(Earlier(draws, j))
             => Earlier(draws, i) = Earlier(draws, j)
    BY <1>4, <2>1, FS_Subset, FS_CardinalityType
  <2> QED
    BY <1>4, <2>2, <2>3
<1> QED
  BY <1>4, <1>5

\* Which batch a call is of, and which of the batch.
LEMMA BatchOf ==
  ASSUME NEW b \in Nat \ {0}, NEW m \in Nat, NEW i \in 1 .. b * m
  PROVE  /\ (i - 1) \div b + 1 \in 1 .. m /\ (i - 1) % b \in 0 .. b - 1
         /\ b * ((i - 1) \div b) + ((i - 1) % b) = i - 1
<1>1. i - 1 \in Nat
  OBVIOUS
<1> DEFINE q == (i - 1) \div b
<1>2. q \in Nat /\ (i - 1) % b \in 0 .. b - 1 /\ b * q + ((i - 1) % b) = i - 1
  BY <1>1, Quotient
<1>3. q < m
  <2>1. SUFFICES ASSUME m <= q PROVE FALSE
    BY <1>2
  <2>2. b * m <= b * q /\ b * m \in Nat /\ b * q \in Nat
    BY <2>1, <1>2
  <2> QED
    BY <1>2, <2>2
<1> QED
  BY <1>2, <1>3

LEMMA MixedFacts ==
  ASSUME DriverOK, NEW t \in Workers, NEW draws \in Draws,
         NEW i \in 1 .. Batch * Turns
  PROVE  LET j == (i - 1) \div Batch + 1
             e == Cardinality(Earlier(draws, j))
             call == MixedJob(t, draws)[i] IN
         /\ j \in 1 .. Turns /\ draws[j] \in Ops /\ e \in 0 .. j - 1
         /\ call \in AnyCall /\ call.op = draws[j]
         /\ call.key = ChunkSize(Warmup) * t + (Batch * e + ((i - 1) % Batch))
                         + (IF draws[j] = "Insert" THEN Warmup ELSE 0)
         /\ (i - 1) % Batch \in 0 .. Batch - 1
<1> DEFINE j == (i - 1) \div Batch + 1
           e == Cardinality(Earlier(draws, j))
<1>1. /\ Batch \in Nat \ {0} /\ threads \in Nat \ {0} /\ Warmup \in Nat /\ t \in Nat
      /\ ChunkSize(Warmup) \in Nat
  BY Constants, DriverFacts, ChunkSizes
<1>2. Turns \in Nat
  <2>1. ChunkSize(Warmup) + Batch - 1 \in Nat
    BY <1>1
  <2> QED
    BY <2>1, <1>1, Quotient DEF Turns
<1>3. j \in 1 .. Turns /\ (i - 1) % Batch \in 0 .. Batch - 1
  BY <1>1, <1>2, BatchOf
<1>4. draws[j] \in Ops
  BY <1>3 DEF Draws, Ops
<1>5. e \in 0 .. j - 1
  BY <1>3, EarlierFacts
<1>6. MixedJob(t, draws)[i] = CallAt(draws[j], From(t, draws, j) + ((i - 1) % Batch))
  BY DEF MixedJob, From, Earlier
<1>7. From(t, draws, j) + ((i - 1) % Batch) =
        ChunkSize(Warmup) * t + (Batch * e + ((i - 1) % Batch))
                         + (IF draws[j] = "Insert" THEN Warmup ELSE 0)
  <2>1. ChunkSize(Warmup) * t \in Nat /\ Batch * e \in Nat
    BY <1>1, <1>5
  <2> HIDE DEF j
  <2> QED
    BY <2>1, <1>1, <1>3 DEF From
<1>8. From(t, draws, j) + ((i - 1) % Batch) \in Nat
  <2>1. ChunkSize(Warmup) * t \in Nat /\ Batch * e \in Nat
    BY <1>1, <1>5
  <2> HIDE DEF j, e
  <2> QED
    BY <2>1, <1>1, <1>3, <1>7
<1> HIDE DEF j, e
<1>9. /\ MixedJob(t, draws)[i] \in AnyCall /\ MixedJob(t, draws)[i].op = draws[j]
      /\ MixedJob(t, draws)[i].key = From(t, draws, j) + ((i - 1) % Batch)
  BY <1>4, <1>6, <1>8, CallAtFacts
<1> QED
  BY <1>3, <1>4, <1>5, <1>7, <1>9 DEF j, e

LEMMA Euclid ==
  ASSUME NEW b \in Nat \ {0}, NEW x \in Nat, NEW y \in Nat,
         NEW r \in 0 .. b - 1, NEW s \in 0 .. b - 1, b * x + r = b * y + s
  PROVE  x = y /\ r = s
<1>1. ~ x < y
  <2>1. SUFFICES ASSUME x < y PROVE FALSE
    OBVIOUS
  <2>2. b * (x + 1) <= b * y /\ b * (x + 1) = b * x + b /\ b * x \in Nat /\ b * y \in Nat
    BY <2>1, Times
  <2> QED
    BY <2>2
<1>2. ~ y < x
  <2>1. SUFFICES ASSUME y < x PROVE FALSE
    OBVIOUS
  <2>2. b * (y + 1) <= b * x /\ b * (y + 1) = b * y + b /\ b * x \in Nat /\ b * y \in Nat
    BY <2>1, Times
  <2> QED
    BY <2>2
<1>3. x = y
  BY <1>1, <1>2
<1> QED
  BY <1>3

LEMMA WholeTurns ==
  ASSUME DriverOK, ChunkSize(Warmup) % Batch = 0
  PROVE  Turns \in Nat /\ Batch * Turns = ChunkSize(Warmup)
<1> DEFINE c == ChunkSize(Warmup)
           q == c \div Batch
<1>1. Batch \in Nat \ {0} /\ c \in Nat
  BY Constants, DriverFacts, ChunkSizes
<1>2. q \in Nat /\ Batch * q = c
  <2> HIDE DEF c
  <2>1. q \in Nat /\ Batch * q + (c % Batch) = c
    BY <1>1, Quotient
  <2>2. c % Batch = 0
    BY DEF c
  <2>3. Batch * q \in Nat
    BY <2>1, <1>1
  <2> QED
    BY <2>1, <2>2, <2>3
<1>3. Turns = (c + Batch - 1) \div Batch
  BY DEF Turns
<1> HIDE DEF q, c
<1>4. c + Batch - 1 \in Nat
  BY <1>1
<1>5. /\ Turns \in Nat /\ (c + Batch - 1) % Batch \in 0 .. Batch - 1
      /\ Batch * Turns + ((c + Batch - 1) % Batch) = c + Batch - 1
  BY <1>1, <1>3, <1>4, Quotient
<1>6. Batch - 1 \in 0 .. Batch - 1
  BY <1>1
<1>7. Batch * Turns + ((c + Batch - 1) % Batch) = Batch * q + (Batch - 1)
  BY <1>1, <1>2, <1>5
<1>8. Turns = q
  BY <1>1, <1>2, <1>5, <1>6, <1>7, Euclid
<1> QED
  BY <1>2, <1>8 DEF c

\* Where the position of a call is in the chunk of its thread.
Offset(draws, i) == Batch * Cardinality(Earlier(draws, (i - 1) \div Batch + 1)) + ((i - 1) % Batch)

LEMMA OffsetFacts ==
  ASSUME DriverOK, ChunkSize(Warmup) % Batch = 0, NEW t \in Workers, NEW draws \in Draws,
         NEW i \in 1 .. Batch * Turns
  PROVE  /\ Offset(draws, i) \in 0 .. ChunkSize(Warmup) - 1
         /\ MixedJob(t, draws)[i].key = ChunkSize(Warmup) * t + Offset(draws, i)
              + (IF MixedJob(t, draws)[i].op = "Insert" THEN Warmup ELSE 0)
         /\ \A l \in 1 .. Batch * Turns :
              /\ MixedJob(t, draws)[i].op = "Insert" /\ MixedJob(t, draws)[l].op = "Insert"
              /\ Offset(draws, i) = Offset(draws, l)
              => i = l
<1> DEFINE J(x) == (x - 1) \div Batch + 1
           E(x) == Cardinality(Earlier(draws, J(x)))
           R(x) == (x - 1) % Batch
<1>1. Batch \in Nat \ {0} /\ Turns \in Nat /\ Batch * Turns = ChunkSize(Warmup)
  BY Constants, WholeTurns
<1>2. \A x \in 1 .. Batch * Turns :
        /\ J(x) \in 1 .. Turns /\ R(x) \in 0 .. Batch - 1
        /\ Batch * (J(x) - 1) + R(x) = x - 1
  <2>1. SUFFICES ASSUME NEW x \in 1 .. Batch * Turns
        PROVE  /\ J(x) \in 1 .. Turns /\ R(x) \in 0 .. Batch - 1
               /\ Batch * (J(x) - 1) + R(x) = x - 1
    OBVIOUS
  <2>2. /\ (x - 1) \div Batch + 1 \in 1 .. Turns /\ (x - 1) % Batch \in 0 .. Batch - 1
         /\ Batch * ((x - 1) \div Batch) + ((x - 1) % Batch) = x - 1
    BY <1>1, BatchOf
  <2>3. (x - 1) \div Batch = J(x) - 1
    BY <2>2, <1>1
  <2> QED
    BY <2>2, <2>3
<1>3. \A x \in 1 .. Batch * Turns :
        LET call == MixedJob(t, draws)[x] IN
         /\ E(x) \in 0 .. J(x) - 1 /\ call.op = draws[J(x)]
         /\ call.key = ChunkSize(Warmup) * t + (Batch * E(x) + R(x))
                         + (IF draws[J(x)] = "Insert" THEN Warmup ELSE 0)
  BY MixedFacts
<1>4. \A x \in 1 .. Batch * Turns : Offset(draws, x) = Batch * E(x) + R(x)
  BY DEF Offset
<1>5. \A x, y \in 1 .. Batch * Turns :
        J(x) < J(y) /\ draws[J(x)] = "Insert" /\ draws[J(y)] = "Insert" => E(x) < E(y)
  <2>1. SUFFICES ASSUME NEW x \in 1 .. Batch * Turns, NEW y \in 1 .. Batch * Turns,
                        J(x) < J(y), draws[J(x)] = "Insert", draws[J(y)] = "Insert"
                 PROVE  E(x) < E(y)
    OBVIOUS
  <2>2. J(x) \in 1 .. J(y) - 1 /\ J(y) \in Nat \ {0}
    BY <2>1, <1>1, <1>2
  <2> HIDE DEF J
  <2> QED
    BY <2>1, <2>2, EarlierFacts
<1> HIDE DEF J, E, R
<1>6. Offset(draws, i) \in 0 .. ChunkSize(Warmup) - 1
  <2>1. E(i) \in Nat /\ E(i) < Turns /\ R(i) \in 0 .. Batch - 1
    BY <1>1, <1>2, <1>3
  <2>2. Batch * E(i) + R(i) \in 0 .. Batch * Turns - 1
    BY <2>1, <1>1, Within
  <2>3. Offset(draws, i) = Batch * E(i) + R(i)
    BY <1>4
  <2> QED
    BY <1>1, <2>2, <2>3
<1>7. MixedJob(t, draws)[i].key = ChunkSize(Warmup) * t + Offset(draws, i)
              + (IF MixedJob(t, draws)[i].op = "Insert" THEN Warmup ELSE 0)
  BY <1>3, <1>4
<1>8. ASSUME NEW l \in 1 .. Batch * Turns,
             MixedJob(t, draws)[i].op = "Insert", MixedJob(t, draws)[l].op = "Insert",
             Offset(draws, i) = Offset(draws, l)
      PROVE  i = l
  <2>1. /\ E(i) \in Nat /\ E(l) \in Nat /\ R(i) \in 0 .. Batch - 1 /\ R(l) \in 0 .. Batch - 1
        /\ J(i) \in 1 .. Turns /\ J(l) \in 1 .. Turns
    BY <1>2, <1>3, <1>1
  <2>2. Batch * E(i) + R(i) = Batch * E(l) + R(l)
    <3>1. Offset(draws, i) = Batch * E(i) + R(i) /\ Offset(draws, l) = Batch * E(l) + R(l)
      BY <1>4
    <3> QED
      BY <3>1, <1>8
  <2>3. E(i) = E(l) /\ R(i) = R(l)
    <3>1. \A x, y \in Nat : \A r, s \in 0 .. Batch - 1 :
            Batch * x + r = Batch * y + s => x = y /\ r = s
      BY <1>1, Euclid
    <3> QED
      BY <3>1, <2>1, <2>2
  <2>4. draws[J(i)] = "Insert" /\ draws[J(l)] = "Insert"
    BY <1>3, <1>8
  <2>5. J(i) = J(l)
    BY <1>1, <1>5, <2>1, <2>3, <2>4
  <2>6. Batch * (J(i) - 1) + R(i) = i - 1 /\ Batch * (J(i) - 1) + R(i) = l - 1
    BY <1>2, <2>3, <2>5
  <2>7. Batch * Turns \in Nat
    BY <1>1
  <2> QED
    BY <2>6, <2>7
<1> QED
  BY <1>6, <1>7, <1>8

LEMMA MixedShape ==
  ASSUME DriverOK, mode = "mixed", NEW draws \in [Workers -> Draws], NEW jobs,
         jobs = StartThreads([t \in Workers |-> MixedJob(t, draws[t])])
  PROVE  Facts(jobs, 2)
<1> DEFINE c == ChunkSize(Warmup)
           O(t, i) == Offset(draws[t], i)
           In(t, i) == jobs[t][i].op = "Insert"
<1>1. /\ Batch \in Nat \ {0} /\ threads \in Nat \ {0} /\ Warmup \in Nat
      /\ c \in Nat /\ c * threads <= Warmup /\ 2 * Warmup <= num /\ num \in Nat
      /\ Workers = 0 .. threads - 1 /\ Workers \subseteq Threads
      /\ 0 .. num - 1 \subseteq Keys
  BY Constants, DriverFacts, ChunkSizes
<1>2. Turns \in Nat /\ Batch * Turns \in Nat
  <2>1. c + Batch - 1 \in Nat
    BY <1>1
  <2>2. Turns \in Nat
    BY <2>1, <1>1, Quotient DEF Turns
  <2> QED
    BY <2>2, <1>1
<1>3. /\ DOMAIN jobs = Threads /\ \A t \in Workers : jobs[t] = MixedJob(t, draws[t])
      /\ \A t \in Threads \ Workers : jobs[t] = <<>>
  BY <1>1 DEF StartThreads
<1>4. \A t \in Workers : jobs[t] \in Seq(AnyCall) /\ DOMAIN jobs[t] = 1 .. Batch * Turns
  <2>1. SUFFICES ASSUME NEW t \in Workers
                 PROVE  jobs[t] \in Seq(AnyCall) /\ DOMAIN jobs[t] = 1 .. Batch * Turns
    OBVIOUS
  <2>2. \A i \in 1 .. Batch * Turns : MixedJob(t, draws[t])[i] \in AnyCall
    BY MixedFacts
  <2>3. /\ MixedJob(t, draws[t]) = [i \in 1 .. Batch * Turns |-> MixedJob(t, draws[t])[i]]
        /\ DOMAIN MixedJob(t, draws[t]) = 1 .. Batch * Turns
    BY DEF MixedJob
  <2> QED
    BY <1>2, <1>3, <2>2, <2>3
<1>5. \A t \in Threads : jobs[t] \in Seq(AnyCall)
  <2>1. <<>> \in Seq(AnyCall)
    OBVIOUS
  <2> QED
    BY <1>3, <1>4, <2>1
<1>6. \A t \in Threads : \A i \in DOMAIN jobs[t] : t \in Workers
  BY <1>3
<1>7. ASSUME Fits
      PROVE  Fresh(jobs, 2) /\ Split(jobs)
  <2>1. ChunkSize(Warmup) % Batch = 0
    BY <1>7 DEF Fits
  <2>2. \A t \in Workers : \A i \in DOMAIN jobs[t] :
          /\ O(t, i) \in 0 .. c - 1
          /\ jobs[t][i].key = c * t + O(t, i) + (IF In(t, i) THEN Warmup ELSE 0)
          /\ \A l \in DOMAIN jobs[t] : In(t, i) /\ In(t, l) /\ O(t, i) = O(t, l) => i = l
    <3>1. SUFFICES ASSUME NEW t \in Workers
                   PROVE  \A i \in DOMAIN jobs[t] :
          /\ O(t, i) \in 0 .. c - 1
          /\ jobs[t][i].key = c * t + O(t, i) + (IF In(t, i) THEN Warmup ELSE 0)
          /\ \A l \in DOMAIN jobs[t] : In(t, i) /\ In(t, l) /\ O(t, i) = O(t, l) => i = l
      OBVIOUS
    <3>2. draws[t] \in Draws /\ DOMAIN jobs[t] = 1 .. Batch * Turns /\ jobs[t] = MixedJob(t, draws[t])
      BY <1>3, <1>4
    <3> DEFINE job == MixedJob(t, draws[t])
    <3>3. \A i \in 1 .. Batch * Turns :
            /\ Offset(draws[t], i) \in 0 .. ChunkSize(Warmup) - 1
            /\ job[i].key = ChunkSize(Warmup) * t + Offset(draws[t], i)
                             + (IF job[i].op = "Insert" THEN Warmup ELSE 0)
            /\ \A l \in 1 .. Batch * Turns :
                 job[i].op = "Insert" /\ job[l].op = "Insert"
                   /\ Offset(draws[t], i) = Offset(draws[t], l) => i = l
      BY <2>1, <3>2, OffsetFacts
    <3> HIDE DEF job
    <3>4. jobs[t] = job
      BY <3>2 DEF job
    <3> QED
      BY <3>2, <3>3, <3>4 DEF c, O
  <2> HIDE DEF c, O
  <2>3. \A t \in Workers : \A i \in DOMAIN jobs[t] : c * t + O(t, i) \in 0 .. Warmup - 1
    <3>1. SUFFICES ASSUME NEW t \in Workers, NEW i \in DOMAIN jobs[t]
                   PROVE  c * t + O(t, i) \in 0 .. Warmup - 1
      OBVIOUS
    <3>2. t \in Nat /\ t < threads /\ threads \in Nat /\ c \in Nat /\ O(t, i) \in 0 .. c - 1
      BY <1>1, <2>2
    <3>3. c * t + O(t, i) \in 0 .. c * threads - 1
      BY <3>2, Within
    <3> QED
      BY <3>3, <1>1
  <2>4. \A t \in Workers : \A i \in DOMAIN jobs[t] :
          /\ jobs[t][i].key \in 0 .. num - 1
          /\ In(t, i) = (jobs[t][i].key >= Warmup)
    <3>1. SUFFICES ASSUME NEW t \in Workers, NEW i \in DOMAIN jobs[t]
                   PROVE  /\ jobs[t][i].key \in 0 .. num - 1
                          /\ In(t, i) = (jobs[t][i].key >= Warmup)
      OBVIOUS
    <3>2. c * t + O(t, i) \in 0 .. Warmup - 1
      BY <2>3
    <3>3. jobs[t][i].key = (c * t + O(t, i)) + (IF In(t, i) THEN Warmup ELSE 0)
      BY <2>2
    <3>4. \A x \in 0 .. Warmup - 1 : /\ x \in 0 .. num - 1 /\ ~ x >= Warmup
                                     /\ x + Warmup \in 0 .. num - 1 /\ x + Warmup >= Warmup
                                     /\ x + 0 = x
      BY <1>1
    <3>5. PICK x \in 0 .. Warmup - 1 : x = c * t + O(t, i)
      BY <3>2
    <3>6. CASE In(t, i)
      BY <3>3, <3>4, <3>5, <3>6
    <3>7. CASE ~ In(t, i)
      BY <3>3, <3>4, <3>5, <3>7
    <3> QED
      BY <3>6, <3>7
  <2>5. \A t, u \in Workers : \A i \in DOMAIN jobs[t], j \in DOMAIN jobs[u] :
          jobs[t][i].key = jobs[u][j].key => t = u /\ O(t, i) = O(u, j) /\ In(t, i) = In(u, j)
    <3>1. SUFFICES ASSUME NEW t \in Workers, NEW u \in Workers,
                          NEW i \in DOMAIN jobs[t], NEW j \in DOMAIN jobs[u],
                          jobs[t][i].key = jobs[u][j].key
                   PROVE  t = u /\ O(t, i) = O(u, j) /\ In(t, i) = In(u, j)
      OBVIOUS
    <3>2. In(t, i) = In(u, j)
      BY <3>1, <2>4
    <3>3. /\ c * t + O(t, i) \in 0 .. Warmup - 1 /\ c * u + O(u, j) \in 0 .. Warmup - 1
          /\ jobs[t][i].key = (c * t + O(t, i)) + (IF In(t, i) THEN Warmup ELSE 0)
          /\ jobs[u][j].key = (c * u + O(u, j)) + (IF In(u, j) THEN Warmup ELSE 0)
      BY <2>2, <2>3
    <3>4. c * t + O(t, i) = c * u + O(u, j)
      <4>1. \A x, y, z \in Int : x + z = y + z => x = y
        OBVIOUS
      <4>2. PICK x \in 0 .. Warmup - 1 : x = c * t + O(t, i)
        BY <3>3
      <4>3. PICK y \in 0 .. Warmup - 1 : y = c * u + O(u, j)
        BY <3>3
      <4> DEFINE shift == IF In(t, i) THEN Warmup ELSE 0
      <4>4. PICK z \in Int : z = shift
        <5>1. Warmup \in Int
          BY <1>1
        <5>2. shift \in Int
          BY <5>1
        <5> QED
          BY <5>2
      <4>5. x + z = y + z
        BY <3>1, <3>2, <3>3, <4>2, <4>3, <4>4
      <4>6. x = y
        BY <4>1, <4>5
      <4> QED
        BY <4>2, <4>3, <4>6
    <3>5. c \in Nat \ {0} /\ t \in Nat /\ u \in Nat /\ O(t, i) \in 0 .. c - 1 /\ O(u, j) \in 0 .. c - 1
      BY <1>1, <2>2
    <3> QED
      BY <3>2, <3>4, <3>5, Euclid
  <2>6. FreshInserts(jobs)
    BY <1>6, <2>2, <2>5 DEF FreshInserts, Inserted
  <2>7. \A t \in Threads : \A i \in Inserted(jobs, t) : jobs[t][i].key \in Keys \ (0 .. Warmup - 1)
    BY <1>1, <1>6, <2>4 DEF Inserted
  <2>8. Before(2) = 0 .. Warmup - 1
    BY DEF Before
  <2>9. Fresh(jobs, 2)
    BY <2>6, <2>7, <2>8 DEF Fresh
  <2>10. Split(jobs)
    BY <1>6, <2>4, <2>5 DEF Split
  <2> QED
    BY <2>9, <2>10
<1> QED
  BY <1>3, <1>5, <1>7 DEF Facts, Checks, Typed

-----------------------------------------------------------------------------
(* The transactions of ycsb.                                               *)

LEMMA TxnFacts ==
  ASSUME DriverOK, mode = "ycsb"
  PROVE  /\ txn \in Seq(Calls) /\ Len(txn) \in Nat /\ DOMAIN txn = 1 .. Len(txn)
         /\ \A i \in DOMAIN txn :
              /\ txn[i] \in Calls /\ txn[i].op # "Delete" /\ txn[i].key \in Keys
              /\ (txn[i].op = "Insert") =
                   (txn[i].key >= num /\ \A j \in 1 .. i - 1 : txn[j].key # txn[i].key)
<1>1. num \in Sizes /\ txn \in TxnFiles[num]
  BY DEF DriverOK
<1>2. /\ txn \in Seq(Calls)
      /\ \A i \in DOMAIN txn :
           /\ txn[i].op # "Delete"
           /\ (txn[i].op = "Insert") =
                (txn[i].key >= num /\ \A j \in 1 .. i - 1 : txn[j].key # txn[i].key)
  BY <1>1, BenchmarkAssumption
<1>3. \A i \in DOMAIN txn : txn[i] \in Calls
  BY <1>2
<1>4. \A call \in Calls : call.key \in Keys
  BY DEF Calls
<1> QED
  BY <1>2, <1>3, <1>4

LEMMA TxnShape ==
  ASSUME DriverOK, mode = "ycsb", NEW jobs,
         jobs = StartThreads([t \in Workers |-> Chunk("Transaction", Len(txn), t)])
  PROVE  Facts(jobs, 2)
<1> DEFINE P(t, i) == Share * t + i
<1>1. /\ Share \in Nat /\ Share * threads <= Len(txn) /\ threads \in Nat \ {0}
      /\ Workers = 0 .. threads - 1 /\ Workers \subseteq Threads /\ num \in Nat
      /\ Len(txn) \in Nat /\ DOMAIN txn = 1 .. Len(txn)
  BY ChunkSizes, DriverFacts, TxnFacts DEF Share
<1>2. \A t \in Workers : \A i \in 1 .. Share : Share * t \in Nat /\ Share * t + i \in DOMAIN txn
  <2>1. SUFFICES ASSUME NEW t \in Workers, NEW i \in 1 .. Share
                 PROVE  Share * t \in Nat /\ Share * t + i \in DOMAIN txn
    OBVIOUS
  <2>2. t \in Nat /\ t < threads /\ i - 1 \in 0 .. Share - 1 /\ Share * t \in Nat /\ threads \in Nat
    BY <1>1
  <2>3. Share * t + (i - 1) \in 0 .. Share * threads - 1
    BY <2>2, <1>1, Within
  <2>4. Share * threads \in Int
    BY <1>1
  <2> QED
    BY <2>2, <2>3, <2>4, <1>1
<1>3. /\ DOMAIN jobs = Threads /\ \A t \in Threads \ Workers : jobs[t] = <<>>
      /\ \A t \in Workers : jobs[t] = Loop("Transaction", Share * t, Share * (t + 1))
  BY <1>1 DEF StartThreads, Chunk, Share
<1>4. \A t \in Workers : jobs[t] = [i \in 1 .. Share |-> txn[Share * t + i]]
  <2>1. SUFFICES ASSUME NEW t \in Workers PROVE jobs[t] = [i \in 1 .. Share |-> txn[Share * t + i]]
    OBVIOUS
  <2>2. Share * (t + 1) - Share * t = Share /\ Share * t \in Nat
    <3>1. t \in Nat /\ t < t + 1 /\ t + 1 \in Nat
      BY <1>1
    <3>2. Share * (t + 1) = Share * t + Share /\ Share * t \in Nat
      BY <3>1, <1>1, Times
    <3> QED
      BY <3>2, <1>1
  <2>3. \A i : CallAt("Transaction", i) = txn[i + 1]
    BY DEF CallAt
  <2>4. jobs[t] = [i \in 1 .. Share |-> CallAt("Transaction", Share * t + i - 1)]
    BY <1>3, <2>2 DEF Loop
  <2>5. \A i \in 1 .. Share : (Share * t + i - 1) + 1 = Share * t + i
    BY <2>2, <1>1
  <2>6. \A i \in 1 .. Share : CallAt("Transaction", Share * t + i - 1) = txn[Share * t + i]
    BY <2>3, <2>5
  <2> QED
    BY <2>4, <2>6
<1>5. \A t \in Threads : \A i \in DOMAIN jobs[t] :
        t \in Workers /\ i \in 1 .. Share /\ P(t, i) \in DOMAIN txn /\ jobs[t][i] = txn[P(t, i)]
  <2>1. \A t \in Workers : jobs[t] = [i \in 1 .. Share |-> txn[P(t, i)]]
    BY <1>4
  <2>2. \A t \in Workers : \A i \in 1 .. Share : P(t, i) \in DOMAIN txn
    BY <1>2
  <2>3. \A t \in Threads : \A i \in DOMAIN jobs[t] : t \in Workers
    BY <1>3
  <2> HIDE DEF P
  <2>4. ASSUME NEW t \in Threads, NEW i \in DOMAIN jobs[t]
        PROVE  t \in Workers /\ i \in 1 .. Share /\ P(t, i) \in DOMAIN txn /\ jobs[t][i] = txn[P(t, i)]
    <3>1. t \in Workers
      BY <2>3, <2>4
    <3>2. jobs[t] = [x \in 1 .. Share |-> txn[P(t, x)]]
      BY <2>1, <3>1
    <3>3. i \in 1 .. Share
      BY <2>4, <3>2
    <3> QED
      BY <2>2, <3>1, <3>2, <3>3
  <2> QED
    BY <2>4
<1>6. \A t \in Threads : jobs[t] \in Seq(AnyCall)
  <2>1. <<>> \in Seq(AnyCall) /\ Calls \subseteq AnyCall
    BY DEF AnyCall
  <2>2. \A t \in Workers : \A i \in 1 .. Share : txn[P(t, i)] \in AnyCall
    BY <1>2, <2>1, TxnFacts
  <2>3. \A t \in Workers : jobs[t] = [i \in 1 .. Share |-> txn[P(t, i)]]
    BY <1>4
  <2> HIDE DEF P
  <2>4. \A t \in Workers : jobs[t] \in [1 .. Share -> AnyCall]
    BY <2>2, <2>3
  <2>5. Share \in Nat
    BY <1>1
  <2>6. \A t \in Workers : jobs[t] \in Seq(AnyCall)
    BY <2>4, <2>5
  <2> QED
    BY <1>3, <2>1, <2>6
<1>7. \A t \in Threads : jobs[t] # <<>> => DOMAIN jobs[t] = 1 .. Share
  BY <1>3, <1>4
<1>8. FreshInserts(jobs)
  <2>1. SUFFICES ASSUME NEW t \in Threads, NEW u \in Threads,
                        NEW i \in Inserted(jobs, t), NEW j \in Inserted(jobs, u),
                        jobs[t][i].key = jobs[u][j].key
                 PROVE  t = u /\ i = j
    BY DEF FreshInserts
  <2>2. /\ t \in Workers /\ u \in Workers /\ i \in 1 .. Share /\ j \in 1 .. Share
        /\ P(t, i) \in DOMAIN txn /\ P(u, j) \in DOMAIN txn
        /\ jobs[t][i] = txn[P(t, i)] /\ jobs[u][j] = txn[P(u, j)]
        /\ jobs[t][i].op = "Insert" /\ jobs[u][j].op = "Insert"
    BY <1>5 DEF Inserted
  <2>3. P(t, i) = P(u, j)
    <3>1. \A a, b \in DOMAIN txn : txn[a].op = "Insert" /\ txn[b].op = "Insert" /\ txn[a].key = txn[b].key
                                   => ~ a < b
      <4>1. \A a, b \in DOMAIN txn : a < b => a \in 1 .. b - 1
        BY <1>1
      <4> QED
        BY <4>1, TxnFacts
    <3> HIDE DEF P
    <3>2. ~ P(t, i) < P(u, j) /\ ~ P(u, j) < P(t, i)
      BY <2>1, <2>2, <3>1
    <3> QED
      BY <2>2, <3>2, <1>1
  <2>4. /\ Share \in Nat \ {0} /\ t \in Nat /\ u \in Nat
        /\ i - 1 \in 0 .. Share - 1 /\ j - 1 \in 0 .. Share - 1 /\ i \in Nat /\ j \in Nat
    <3> HIDE DEF P
    <3> QED
      BY <2>2, <1>1
  <2>5. Share * t + (i - 1) = Share * u + (j - 1)
    <3>1. \A a, b, x, y \in Int : a + x = b + y => a + (x - 1) = b + (y - 1)
      OBVIOUS
    <3>2. Share * t \in Int /\ Share * u \in Int
      BY <2>4
    <3> QED
      BY <2>3, <2>4, <3>1, <3>2
  <2>6. t = u /\ i - 1 = j - 1
    BY <2>4, <2>5, Euclid
  <2> QED
    BY <2>4, <2>6
<1>9. \A t \in Threads : \A i \in Inserted(jobs, t) : jobs[t][i].key \in Keys \ (0 .. num - 1)
  <2>1. \A t \in Threads : \A i \in Inserted(jobs, t) : i \in DOMAIN jobs[t] /\ jobs[t][i].op = "Insert"
    BY DEF Inserted
  <2>2. \A a \in DOMAIN txn : txn[a].op = "Insert" => txn[a].key \in Keys \ (0 .. num - 1)
    BY <1>1, TxnFacts
  <2> HIDE DEF P
  <2> QED
    BY <1>5, <2>1, <2>2
<1>10. Before(2) = 0 .. num - 1
  BY DEF Before
<1>11. DOMAIN jobs = Threads
  BY <1>3
<1>12. \A t \in Threads :
         /\ \A i \in DOMAIN jobs[t] : i \in 1 .. Share /\ Share * t + i \in DOMAIN txn
                                      /\ jobs[t][i] = txn[Share * t + i]
         /\ jobs[t] # <<>> => DOMAIN jobs[t] = 1 .. Share
  BY <1>5, <1>7
<1>13. Typed(jobs) /\ Transacts(jobs)
  BY <1>6, <1>11, <1>12 DEF Typed, Transacts
<1>14. Fresh(jobs, 2)
  BY <1>8, <1>9, <1>10 DEF Fresh
<1> QED
  BY <1>13, <1>14 DEF Facts, Checks

-----------------------------------------------------------------------------
(* The phases of each driver.                                              *)

LEMMA FromLooping ==
  ASSUME DriverOK, NEW p \in Nat, NEW op \in Ops, NEW total \in Nat, NEW jobs,
         Looping(jobs, op, total),
         Fits => total <= num,
         op = "Insert" => Before(p) = {},
         Checks /\ p = 1 => op = "Insert" /\ total <= num /\ Covers(jobs, Loaded),
         mode \in {"mixed", "ycsb"} /\ p = 1 => 0 .. total - 1 \subseteq Before(2),
         (mode = "hashtable_test" /\ p = 2) \/ (mode = "microbench" /\ p \in 2 .. 3)
           => op \in {"Get", "Update"} /\ total <= num,
         mode = "microbench" /\ p = 4 => op = "Delete" /\ OneByOne(jobs),
         ~ (mode = "ycsb" /\ p = 2)
  PROVE  Facts(jobs, p)
<1>1. Typed(jobs)
  BY DEF Looping, Typed
<1>2. num \in Nat /\ 0 .. num - 1 \subseteq Keys
  BY DriverFacts
<1>3. \A t \in Threads : \A i \in DOMAIN jobs[t] :
        /\ jobs[t][i].op = op /\ jobs[t][i].key \in 0 .. total - 1
        /\ op \in {"Insert", "Update"} => jobs[t][i].value = jobs[t][i].key + 1
  BY DEF Looping
<1>4. \A t, u \in Threads : \A i \in DOMAIN jobs[t], j \in DOMAIN jobs[u] :
       jobs[t][i].key = jobs[u][j].key => t = u /\ i = j
  BY DEF Looping
<1>5. total <= num => \A t \in Threads : \A i \in DOMAIN jobs[t] : jobs[t][i].key \in 0 .. num - 1
  BY <1>2, <1>3
<1>6. ASSUME Fits PROVE Fresh(jobs, p) /\ Split(jobs)
  <2>1. FreshInserts(jobs)
    BY <1>4 DEF FreshInserts, Inserted
  <2>2. \A t \in Threads : \A i \in DOMAIN jobs[t] : jobs[t][i].key \in 0 .. num - 1
    BY <1>5, <1>6
  <2>3. \A t \in Threads : \A i \in Inserted(jobs, t) : jobs[t][i].key \in Keys \ Before(p)
    BY <1>2, <1>3, <2>2 DEF Inserted
  <2>4. Split(jobs)
    BY <1>4, <2>2 DEF Split
  <2> QED
    BY <2>1, <2>3, <2>4 DEF Fresh
<1>7. ASSUME Checks, p = 1 PROVE Loads(jobs)
  BY <1>3, <1>5, <1>7 DEF Loads
<1>8. ASSUME mode \in {"mixed", "ycsb"}, p = 1 PROVE LoadsFew(jobs)
  BY <1>3, <1>8 DEF LoadsFew, Inserted
<1>9. ASSUME (mode = "hashtable_test" /\ p = 2) \/ (mode = "microbench" /\ p \in 2 .. 3)
      PROVE  Looks(jobs)
  BY <1>3, <1>5, <1>9 DEF Looks
<1>10. ASSUME mode = "microbench", p = 4 PROVE Deletes(jobs)
  BY <1>3, <1>10 DEF Deletes
<1> QED
  BY <1>1, <1>6, <1>7, <1>8, <1>9, <1>10 DEF Facts

\* The first phase loads the table.
LEMMA FromLoading ==
  ASSUME DriverOK, NEW total \in Nat, NEW jobs, Looping(jobs, "Insert", total),
         total <= num, Checks => Covers(jobs, Loaded), mode = "mixed" => total <= Warmup
  PROVE  Facts(jobs, 1)
<1>1. "Insert" \in Ops
  BY DEF Ops
<1>2. Before(1) = {}
  <2>1. 1 # 2 /\ 1 < 2
    OBVIOUS
  <2> QED
    BY <2>1 DEF Before
<1>3. mode = "mixed" => 0 .. total - 1 \subseteq Before(2)
  BY DriverFacts DEF Before
<1>4. mode = "ycsb" => 0 .. total - 1 \subseteq Before(2)
  BY DriverFacts DEF Before
<1>5. mode \in {"mixed", "ycsb"} => 0 .. total - 1 \subseteq Before(2)
  BY <1>3, <1>4
<1>6. 1 # 2 /\ 1 \notin 2 .. 3 /\ 1 # 4
  OBVIOUS
<1> QED
  BY <1>1, <1>2, <1>5, <1>6, FromLooping

LEMMA PhaseFacts ==
  ASSUME DriverOK, NEW p \in 1 .. Len(Phases), NEW jobs \in Phases[p]
  PROVE  Facts(jobs, p)
<1> DEFINE chunks(op, total) == {StartThreads([t \in Workers |-> Chunk(op, total, t)])}
           all(op) == {StartThreads([t \in Workers |-> ChunkAndRest(op, t)])}
           mixed == {StartThreads([t \in Workers |-> MixedJob(t, draws[t])]) : draws \in [Workers -> Draws]}
           main(op, n) == {Main(Loop(op, 0, n))}
<1>1. /\ num \in Nat \ {0} /\ threads \in Nat \ {0} /\ Warmup \in Nat /\ 2 * Warmup <= num
      /\ mode \in Drivers
      /\ Step \in Nat \ {0} /\ NumIter \in Nat \ {0}
      /\ UpdatePart \in Nat \ {0} /\ DeletePart \in Nat \ {0}
      /\ {"Insert", "Get", "Update", "Delete"} = Ops
  BY DriverFacts, Constants DEF Ops
<1>2. CASE mode = "hashtable_test"
  <2>1. Phases = <<all("Insert"), all("Get")>>
    BY <1>2 DEF Phases
  <2> HIDE DEF all
  <2>2. p \in 1 .. 2 /\ Phases[1] = all("Insert") /\ Phases[2] = all("Get")
    BY <2>1
  <2>3. CASE p = 1
    <3>1. Looping(jobs, "Insert", num) /\ Covers(jobs, num)
      BY <1>1, <2>2, <2>3, AllShape DEF all
    <3>2. Loaded = num
      BY <1>2 DEF Loaded
    <3> QED
      BY <1>1, <1>2, <2>3, <3>1, <3>2, FromLoading
  <2>4. CASE p = 2
    <3>1. Looping(jobs, "Get", num)
      BY <1>1, <2>2, <2>4, AllShape DEF all
    <3> QED
      BY <1>1, <1>2, <2>4, <3>1, FromLooping
  <2> QED
    BY <2>2, <2>3, <2>4
<1>3. CASE mode = "latency"
  <2>1. Phases = <<chunks("Insert", num)>>
    BY <1>3 DEF Phases
  <2> HIDE DEF chunks
  <2>2. p = 1 /\ Phases[1] = chunks("Insert", num)
    BY <2>1
  <2>3. Looping(jobs, "Insert", num)
    BY <1>1, <2>2, ChunksShape DEF chunks
  <2>4. ~ Checks
    BY <1>3 DEF Checks
  <2> QED
    BY <1>1, <1>3, <2>2, <2>3, <2>4, FromLoading
<1>4. CASE mode = "mixed"
  <2>1. Phases = <<main("Insert", Warmup), mixed>>
    BY <1>4 DEF Phases
  <2> HIDE DEF main, mixed
  <2>2. p \in 1 .. 2 /\ Phases[1] = main("Insert", Warmup) /\ Phases[2] = mixed
    BY <2>1
  <2>3. CASE p = 1
    <3>1. Looping(jobs, "Insert", Warmup)
      BY <1>1, <2>2, <2>3, MainShape DEF main
    <3>2. ~ Checks /\ Warmup <= num
      BY <1>1, <1>4 DEF Checks
    <3> QED
      BY <1>1, <1>4, <2>3, <3>1, <3>2, FromLoading
  <2>4. CASE p = 2
    BY <1>4, <2>2, <2>4, MixedShape DEF mixed
  <2> QED
    BY <2>2, <2>3, <2>4
<1>5. CASE mode = "insert_only"
  <2>1. Phases = <<main("Insert", num)>>
    BY <1>5 DEF Phases
  <2> HIDE DEF main
  <2>2. p = 1 /\ Phases[1] = main("Insert", num)
    BY <2>1
  <2>3. Looping(jobs, "Insert", num)
    BY <1>1, <2>2, MainShape DEF main
  <2>4. ~ Checks
    BY <1>5 DEF Checks
  <2> QED
    BY <1>1, <1>5, <2>2, <2>3, <2>4, FromLoading
<1>6. CASE mode = "microbench"
  <2> DEFINE u == num \div UpdatePart
             d == num \div DeletePart
  <2>1. Phases = <<main("Insert", num), main("Get", num), main("Update", u), main("Delete", d)>>
    BY <1>6 DEF Phases
  <2>2. u \in Nat /\ u <= num /\ d \in Nat /\ d <= num
    BY <1>1, Quotient
  <2> HIDE DEF main, u, d
  <2>3. /\ p \in 1 .. 4 /\ Phases[1] = main("Insert", num) /\ Phases[2] = main("Get", num)
        /\ Phases[3] = main("Update", u) /\ Phases[4] = main("Delete", d)
    BY <2>1
  <2>4. CASE p = 1
    <3>1. Looping(jobs, "Insert", num) /\ Covers(jobs, num)
      BY <1>1, <2>3, <2>4, MainShape DEF main
    <3>2. Loaded = num
      BY <1>6 DEF Loaded
    <3> QED
      BY <1>1, <1>6, <2>4, <3>1, <3>2, FromLoading
  <2>5. CASE p = 2
    <3>1. Looping(jobs, "Get", num)
      BY <1>1, <2>3, <2>5, MainShape DEF main
    <3> QED
      BY <1>1, <1>6, <2>5, <3>1, FromLooping
  <2>6. CASE p = 3
    <3>1. Looping(jobs, "Update", u)
      BY <1>1, <2>2, <2>3, <2>6, MainShape DEF main
    <3> QED
      BY <1>1, <1>6, <2>2, <2>6, <3>1, FromLooping
  <2>7. CASE p = 4
    <3>1. Looping(jobs, "Delete", d) /\ OneByOne(jobs)
      BY <1>1, <2>2, <2>3, <2>7, MainShape DEF main
    <3>2. ~ (Checks /\ p = 1) /\ p \notin 2 .. 3 /\ p # 2 /\ mode # "ycsb" /\ mode # "mixed" /\ p \in Nat
      BY <1>6, <2>7
    <3>3. "Delete" \in Ops /\ d \in Nat /\ d <= num
      BY <1>1, <2>2
    <3> QED
      BY <3>1, <3>2, <3>3, FromLooping
  <2> QED
    BY <2>3, <2>4, <2>5, <2>6, <2>7
<1>7. CASE mode = "utilization"
  <2>1. Phases = [i \in 1 .. NumIter |-> main("Insert", Step * i)]
    BY <1>7 DEF Phases
  <2>2. p \in 1 .. NumIter
    BY <1>1, <2>1
  <2>3. jobs = Main(Loop("Insert", 0, Step * p))
    BY <2>1, <2>2
  <2>4. Step * p \in Nat /\ Step * p <= Step * NumIter
    <3>1. p - 1 \in Nat /\ p - 1 < NumIter /\ (p - 1) + 1 = p
      BY <1>1, <2>2
    <3>2. Step * ((p - 1) + 1) <= Step * NumIter
      BY <1>1, <3>1, Times
    <3> QED
      BY <1>1, <2>2, <3>1, <3>2
  <2>5. Looping(jobs, "Insert", Step * p)
    BY <1>1, <2>3, <2>4, MainShape
  <2>6. Fits => Step * p <= num
    <3>1. Step * NumIter \in Nat /\ num \in Nat
      BY <1>1
    <3> QED
      BY <1>7, <2>4, <3>1 DEF Fits
  <2>7. Before(p) = {} /\ ~ Checks
    BY <1>7 DEF Before, Checks
  <2>8. p \in Nat
    BY <1>1, <2>2
  <2> QED
    BY <1>1, <1>7, <2>4, <2>5, <2>6, <2>7, <2>8, FromLooping
<1>8. CASE mode = "ycsb"
  <2>1. Phases = <<chunks("Insert", num), chunks("Transaction", Len(txn))>>
    BY <1>8 DEF Phases
  <2> HIDE DEF chunks
  <2>2. p \in 1 .. 2 /\ Phases[1] = chunks("Insert", num) /\ Phases[2] = chunks("Transaction", Len(txn))
    BY <2>1
  <2>3. CASE p = 1
    <3>1. Looping(jobs, "Insert", num) /\ Covers(jobs, ChunkSize(num) * threads)
      BY <1>1, <2>2, <2>3, ChunksShape DEF chunks
    <3>2. Loaded = ChunkSize(num) * threads
      BY <1>8 DEF Loaded
    <3>3. Covers(jobs, Loaded)
      BY <3>1, <3>2
    <3>4. mode # "mixed" /\ num <= num
      BY <1>1, <1>8
    <3> QED
      BY <1>1, <2>3, <3>1, <3>3, <3>4, FromLoading
  <2>4. CASE p = 2
    BY <1>8, <2>2, <2>4, TxnShape DEF chunks
  <2> QED
    BY <2>2, <2>3, <2>4
<1> QED
  BY <1>1, <1>2, <1>3, <1>4, <1>5, <1>6, <1>7, <1>8 DEF Drivers

LEMMA PhaseCount ==
  ASSUME DriverOK
  PROVE  /\ Len(Phases) \in Nat
         /\ mode \in {"hashtable_test", "ycsb"} => Len(Phases) = 2
         /\ mode = "microbench" => Len(Phases) = 4
<1>1. mode \in Drivers /\ NumIter \in Nat
  BY DriverFacts, Constants
<1>2. CASE mode = "hashtable_test"
  BY <1>2 DEF Phases
<1>3. CASE mode = "latency"
  BY <1>3 DEF Phases
<1>4. CASE mode = "mixed"
  BY <1>4 DEF Phases
<1>5. CASE mode = "insert_only"
  BY <1>5 DEF Phases
<1>6. CASE mode = "microbench"
  BY <1>6 DEF Phases
<1>7. CASE mode = "utilization"
  BY <1>1, <1>7 DEF Phases
<1>8. CASE mode = "ycsb"
  BY <1>8 DEF Phases
<1> QED
  BY <1>1, <1>2, <1>3, <1>4, <1>5, <1>6, <1>7, <1>8 DEF Drivers

-----------------------------------------------------------------------------
(* How far the threads have come, and what that has made of the table.     *)

\* Thread t has made the first at[t] of its calls.
Left(jobs, at) ==
  /\ at \in [Threads -> Nat] /\ DOMAIN todo = Threads
  /\ \A t \in Threads : /\ todo[t] \in Seq(AnyCall) /\ at[t] + Len(todo[t]) = Len(jobs[t])
                        /\ \A i \in DOMAIN todo[t] : todo[t][i] = jobs[t][at[t] + i]

\* A key is in the table because it was when the phase began, or a call inserted it.
Only(jobs, at) ==
  \A k \in Keys : table[k] # NONE =>
    \/ k \in Before(phase)
    \/ \E t \in Threads : \E i \in 1 .. at[t] : jobs[t][i].op = "Insert" /\ jobs[t][i].key = k

\* The keys that will be looked for are there.
Kept(jobs, at) ==
  /\ Checks /\ phase = 1 =>
       \A t \in Threads : \A i \in 1 .. at[t] : table[jobs[t][i].key] = jobs[t][i].key + 1
  /\ (mode = "hashtable_test" /\ phase = 2) \/ (mode = "microbench" /\ phase \in 2 .. 3) =>
       \A k \in 0 .. num - 1 : table[k] = k + 1
  /\ mode = "microbench" /\ phase = 4 => \A k \in at[0] .. num - 1 : table[k] = k + 1
  /\ mode = "ycsb" /\ phase = 2 =>
       /\ \A k \in 0 .. Loaded - 1 : table[k] # NONE
       /\ \A t \in Threads : \A i \in 1 .. at[t] :
            jobs[t][i].op = "Insert" => table[jobs[t][i].key] # NONE

Progress(jobs, at) == /\ Facts(jobs, phase) /\ Left(jobs, at)
                      /\ phase = 0 => \A t \in Threads : jobs[t] = <<>>
                      /\ Only(jobs, at) /\ Kept(jobs, at)

Underway ==
  /\ DriverOK /\ phase \in Nat /\ DOMAIN table = Keys /\ DOMAIN ret = Threads
  /\ mode \in {"hashtable_test", "ycsb"} => phase <= 2
  /\ mode = "microbench" => phase <= 4
  /\ OnlyTheRestIsMissed
  /\ \E jobs, at : Progress(jobs, at)

\* What does not change with the phases.
LEMMA Same ==
  ASSUME UNCHANGED driver
  PROVE  /\ DriverOK' = DriverOK /\ Fits' = Fits /\ Checks' = Checks
         /\ Loaded' = Loaded /\ Share' = Share
         /\ \A p : Before(p)' = Before(p)
         /\ \A jobs, p : Facts(jobs, p)' = Facts(jobs, p)
<1>1. mode' = mode /\ num' = num /\ threads' = threads /\ txn' = txn
  BY DEF driver
<1>2. DriverOK' = DriverOK
  BY <1>1 DEF DriverOK
<1>3. \A n : ChunkSize(n)' = ChunkSize(n)
  BY <1>1 DEF ChunkSize
<1>4. Warmup' = Warmup /\ Loaded' = Loaded /\ Share' = Share /\ Checks' = Checks
  BY <1>1 DEF ChunkSize, Warmup, Loaded, Share, Checks
<1>5. Fits' = Fits
  BY <1>1 DEF ChunkSize, Warmup, Fits
<1>6. \A p : Before(p)' = Before(p)
  BY <1>1, <1>4 DEF Before
<1>7. ASSUME NEW jobs, NEW p PROVE Facts(jobs, p)' = Facts(jobs, p)
  <2>1. Fresh(jobs, p)' = Fresh(jobs, p)
    BY <1>6 DEF Fresh
  <2>2. Split(jobs)' = Split(jobs) /\ Looks(jobs)' = Looks(jobs) /\ Deletes(jobs)' = Deletes(jobs)
    BY <1>1 DEF Split, Looks, Deletes, OneByOne
  <2>3. Loads(jobs)' = Loads(jobs)
    BY <1>1, <1>4 DEF Loads
  <2>4. LoadsFew(jobs)' = LoadsFew(jobs)
    BY <1>6 DEF LoadsFew
  <2>5. Transacts(jobs)' = Transacts(jobs)
    BY <1>1, <1>4 DEF Transacts
  <2> QED
    BY <1>1, <1>4, <1>5, <2>1, <2>2, <2>3, <2>4, <2>5 DEF Facts
<1> QED
  BY <1>2, <1>4, <1>5, <1>6, <1>7

-----------------------------------------------------------------------------
(* One call.                                                               *)

LEMMA ListStep ==
  ASSUME NEW jobs, NEW at, Left(jobs, at), Typed(jobs), NEW t \in Threads, todo[t] # <<>>,
         todo' = [todo EXCEPT ![t] = Tail(@)]
  PROVE  /\ at[t] + 1 \in DOMAIN jobs[t] /\ Head(todo[t]) = jobs[t][at[t] + 1]
         /\ jobs[t][at[t] + 1] \in AnyCall
         /\ Left(jobs, [at EXCEPT ![t] = @ + 1])'
<1> DEFINE at1 == [at EXCEPT ![t] = @ + 1]
<1>1. /\ todo[t] \in Seq(AnyCall) /\ Len(todo[t]) \in Nat \ {0}
      /\ jobs[t] \in Seq(AnyCall) /\ Len(jobs[t]) \in Nat /\ DOMAIN jobs[t] = 1 .. Len(jobs[t])
      /\ at[t] \in Nat /\ at[t] + Len(todo[t]) = Len(jobs[t])
      /\ \A i \in 1 .. Len(todo[t]) : todo[t][i] = jobs[t][at[t] + i]
  BY DEF Left, Typed
<1>2. at[t] + 1 \in DOMAIN jobs[t] /\ Head(todo[t]) = jobs[t][at[t] + 1]
  BY <1>1
<1>3. /\ Tail(todo[t]) \in Seq(AnyCall) /\ Len(Tail(todo[t])) = Len(todo[t]) - 1
      /\ \A i \in 1 .. Len(todo[t]) - 1 : Tail(todo[t])[i] = todo[t][i + 1]
  BY <1>1
<1>4. /\ at1 \in [Threads -> Nat] /\ at1[t] = at[t] + 1
      /\ \A u \in Threads : u # t => at1[u] = at[u]
  BY <1>1 DEF Left
<1>5. DOMAIN todo' = Threads /\ todo'[t] = Tail(todo[t]) /\ \A u \in Threads : u # t => todo'[u] = todo[u]
  BY DEF Left
<1>6. /\ todo'[t] \in Seq(AnyCall) /\ at1[t] + Len(todo'[t]) = Len(jobs[t])
      /\ \A i \in DOMAIN todo'[t] : todo'[t][i] = jobs[t][at1[t] + i]
  <2>1. DOMAIN Tail(todo[t]) = 1 .. Len(todo[t]) - 1
    BY <1>1, <1>3
  <2>2. \A i \in 1 .. Len(todo[t]) - 1 :
          /\ i + 1 \in 1 .. Len(todo[t]) /\ at[t] + (i + 1) = (at[t] + 1) + i
    BY <1>1
  <2>3. \A i \in 1 .. Len(todo[t]) - 1 : Tail(todo[t])[i] = jobs[t][(at[t] + 1) + i]
    BY <1>1, <1>3, <2>2
  <2> HIDE DEF at1
  <2>4. \A i \in DOMAIN todo'[t] : todo'[t][i] = jobs[t][at1[t] + i]
    BY <1>4, <1>5, <2>1, <2>3
  <2>5. at1[t] + Len(todo'[t]) = Len(jobs[t])
    BY <1>1, <1>3, <1>4, <1>5
  <2> QED
    BY <1>3, <1>5, <2>4, <2>5
<1>7. \A u \in Threads : u # t =>
        /\ todo'[u] \in Seq(AnyCall) /\ at1[u] + Len(todo'[u]) = Len(jobs[u])
        /\ \A i \in DOMAIN todo'[u] : todo'[u][i] = jobs[u][at1[u] + i]
  BY <1>4, <1>5 DEF Left
<1> HIDE DEF at1
<1>8. Left(jobs, at1)'
  BY <1>4, <1>5, <1>6, <1>7 DEF Left
<1> QED
  BY <1>1, <1>2, <1>8 DEF at1

\* What call does to the table, and its answer.
Effect(call, answer) ==
  /\ DOMAIN table' = Keys
  /\ \A k \in Keys : k # call.key => table'[k] = table[k]
  /\ \/ /\ call.op = "Insert"
        /\ call.key \in Keys => table'[call.key] = call.value
     \/ /\ call.op = "Update" /\ answer = (table[call.key] # NONE)
        /\ call.key \in Keys =>
             table'[call.key] = IF table[call.key] # NONE THEN call.value ELSE NONE
     \/ /\ call.op = "Delete" /\ answer = (table[call.key] # NONE)
        /\ call.key \in Keys => table'[call.key] = NONE
     \/ /\ call.op = "Get" /\ answer = table[call.key]
        /\ call.key \in Keys => table'[call.key] = table[call.key]

LEMMA CallStep ==
  ASSUME NEW t \in Threads, Call(t), DOMAIN table = Keys, DOMAIN ret = Threads
  PROVE  /\ todo[t] # <<>> /\ todo' = [todo EXCEPT ![t] = Tail(@)]
         /\ DOMAIN ret' = Threads /\ Effect(Head(todo[t]), ret'[t])
         /\ UNCHANGED <<driver, phase>>
         /\ missed' = IF Wrong(Head(todo[t]), ret'[t])
                      THEN missed \cup {[thread |-> t, key |-> Head(todo[t]).key]} ELSE missed
<1> DEFINE call == Head(todo[t])
<1>1. /\ UNCHANGED <<driver, phase>>
      /\ missed' = IF Wrong(Head(todo[t]), ret'[t])
                   THEN missed \cup {[thread |-> t, key |-> Head(todo[t]).key]} ELSE missed
      /\ Insert(t) \/ Update(t) \/ Delete(t) \/ Get(t)
  BY DEF Call
<1>2. ASSUME NEW op, Calling(t, op), NEW r, Return(t, r)
      PROVE  /\ todo[t] # <<>> /\ call.op = op /\ todo' = [todo EXCEPT ![t] = Tail(@)]
             /\ DOMAIN ret' = Threads /\ ret'[t] = r
  BY <1>2 DEF Calling, Return
<1>3. CASE Insert(t)
  <2>1. Calling(t, "Insert") /\ Return(t, NONE) /\ table' = [table EXCEPT ![call.key] = call.value]
    BY <1>3 DEF Insert
  <2> HIDE DEF call
  <2>2. /\ DOMAIN table' = Keys /\ \A k \in Keys : k # call.key => table'[k] = table[k]
        /\ call.key \in Keys => table'[call.key] = call.value
    BY <2>1
  <2> QED
    BY <1>1, <1>2, <2>1, <2>2 DEF Effect, call
<1>4. CASE Update(t)
  <2>1. /\ Calling(t, "Update") /\ Return(t, table[call.key] # NONE)
        /\ table' = IF table[call.key] # NONE THEN [table EXCEPT ![call.key] = call.value] ELSE table
    BY <1>4 DEF Update, Found
  <2>2. /\ todo[t] # <<>> /\ call.op = "Update" /\ todo' = [todo EXCEPT ![t] = Tail(@)]
        /\ DOMAIN ret' = Threads /\ ret'[t] = (table[call.key] # NONE)
    BY <2>1 DEF Calling, Return
  <2> HIDE DEF call
  <2>3. /\ DOMAIN table' = Keys /\ \A k \in Keys : k # call.key => table'[k] = table[k]
        /\ call.key \in Keys =>
             table'[call.key] = IF table[call.key] # NONE THEN call.value ELSE NONE
    BY <2>1
  <2>4. Effect(call, ret'[t])
    BY <2>2, <2>3, Zenon DEF Effect
  <2> QED
    BY <1>1, <2>2, <2>4 DEF call
<1>5. CASE Delete(t)
  <2>1. /\ Calling(t, "Delete") /\ Return(t, table[call.key] # NONE)
        /\ table' = [table EXCEPT ![call.key] = NONE]
    BY <1>5 DEF Delete, Found
  <2>2. /\ todo[t] # <<>> /\ call.op = "Delete" /\ todo' = [todo EXCEPT ![t] = Tail(@)]
        /\ DOMAIN ret' = Threads /\ ret'[t] = (table[call.key] # NONE)
    BY <2>1 DEF Calling, Return
  <2> HIDE DEF call
  <2>3. /\ DOMAIN table' = Keys /\ \A k \in Keys : k # call.key => table'[k] = table[k]
        /\ call.key \in Keys => table'[call.key] = NONE
    BY <2>1
  <2>4. Effect(call, ret'[t])
    BY <2>2, <2>3, Zenon DEF Effect
  <2> QED
    BY <1>1, <2>2, <2>4 DEF call
<1>6. CASE Get(t)
  <2>1. Calling(t, "Get") /\ Return(t, table[call.key]) /\ table' = table
    BY <1>6 DEF Get
  <2> HIDE DEF call
  <2> QED
    BY <1>1, <1>2, <2>1 DEF Effect, call
<1> QED
  BY <1>1, <1>3, <1>4, <1>5, <1>6

LEMMA OnlyStep ==
  ASSUME NEW jobs, NEW at, Progress(jobs, at), NEW t \in Threads,
         at[t] + 1 \in DOMAIN jobs[t], NEW answer, Effect(jobs[t][at[t] + 1], answer),
         UNCHANGED <<driver, phase>>
  PROVE  Only(jobs, [at EXCEPT ![t] = @ + 1])'
<1> DEFINE at1 == [at EXCEPT ![t] = @ + 1]
           call == jobs[t][at[t] + 1]
<1>1. /\ at \in [Threads -> Nat] /\ at1 \in [Threads -> Nat] /\ at1[t] = at[t] + 1
      /\ \A u \in Threads : at[u] <= at1[u]
  BY DEF Progress, Left
<1>2. at[t] + 1 \in 1 .. at1[t] /\ \A u \in Threads : \A i \in 1 .. at[u] : i \in 1 .. at1[u]
  <2> HIDE DEF at1
  <2> QED
    BY <1>1
<1>3. Before(phase)' = Before(phase)
  <2>1. UNCHANGED driver /\ phase' = phase
    OBVIOUS
  <2>2. \A p : Before(p)' = Before(p)
    BY <2>1, Same
  <2> QED
    BY <2>1, <2>2 DEF Before
<1> HIDE DEF at1
<1>4. ASSUME NEW k \in Keys, table'[k] # NONE
      PROVE  \/ k \in Before(phase)
             \/ \E u \in Threads : \E i \in 1 .. at1[u] : jobs[u][i].op = "Insert" /\ jobs[u][i].key = k
  <2>1. CASE table[k] # NONE
    BY <2>1, <1>2 DEF Progress, Only
  <2>2. CASE table[k] = NONE
    <3>1. call.op = "Insert" /\ call.key = k
      BY <2>2, <1>4 DEF Effect
    <3> QED
      BY <3>1, <1>2
  <2> QED
    BY <2>1, <2>2
<1>5. Only(jobs, at1)'
  BY <1>3, <1>4 DEF Only
<1> QED
  BY <1>5 DEF at1

\* What the call finds in a phase whose answers are looked at.
LEMMA KeptStep ==
  ASSUME DriverOK, NEW jobs, NEW at, Progress(jobs, at), NEW t \in Threads,
         at[t] + 1 \in DOMAIN jobs[t], NEW answer, Effect(jobs[t][at[t] + 1], answer),
         UNCHANGED <<driver, phase>>
  PROVE  Kept(jobs, [at EXCEPT ![t] = @ + 1])'
<1> DEFINE at1 == [at EXCEPT ![t] = @ + 1]
           n == at[t] + 1
           call == jobs[t][n]
<1>1. /\ at \in [Threads -> Nat] /\ at1 \in [Threads -> Nat] /\ at1[t] = n
      /\ \A u \in Threads : u # t => at1[u] = at[u]
      /\ n \in Nat \ {0} /\ n - 1 = at[t]
  <2>1. at \in [Threads -> Nat]
    BY DEF Progress, Left
  <2>2. at[t] \in Nat
    BY <2>1
  <2> QED
    BY <2>1, <2>2
<1>2. \A u \in Threads : \A i \in 1 .. at1[u] : i \in 1 .. at[u] \/ (u = t /\ i = n)
  <2> HIDE DEF at1
  <2> QED
    BY <1>1
<1>3. /\ num \in Nat /\ 0 .. num - 1 \subseteq Keys /\ NONE = 0
      /\ 0 .. Loaded - 1 \subseteq 0 .. num - 1 /\ 0 \notin Values
  <2>1. ChunkSize(num) * threads <= num /\ ChunkSize(num) * threads \in Nat /\ num \in Nat
    <3>1. num \in Nat /\ threads \in Nat
      BY DriverFacts
    <3>2. ChunkSize(num) \in Nat /\ ChunkSize(num) * threads <= num
      BY <3>1, ChunkSizes
    <3>3. \A a, b \in Nat : a * b \in Nat
      OBVIOUS
    <3> QED
      BY <3>1, <3>2, <3>3
  <2>2. Loaded \in Nat /\ Loaded <= num
    BY <2>1 DEF Loaded
  <2> QED
    BY <2>1, <2>2, DriverFacts, Constants
<1>4. \A k \in Keys : k # call.key => table'[k] = table[k]
  BY DEF Effect
<1>5. mode' = mode /\ num' = num /\ phase' = phase /\ Loaded' = Loaded /\ Checks' = Checks
  BY Same DEF driver
<1>6. n \in DOMAIN jobs[t]
  OBVIOUS
<1> HIDE DEF at1, n
<1>7. ASSUME Checks, phase = 1
      PROVE  \A u \in Threads : \A i \in 1 .. at1[u] : table'[jobs[u][i].key] = jobs[u][i].key + 1
  <2>1. \A u \in Threads : \A i \in DOMAIN jobs[u] :
          /\ jobs[u][i].op = "Insert" /\ jobs[u][i].value = jobs[u][i].key + 1
          /\ jobs[u][i].key \in Keys
    BY <1>3, <1>7 DEF Progress, Facts, Loads
  <2>2. table'[call.key] = call.key + 1
    BY <2>1, <1>6 DEF Effect, n
  <2>3. \A u \in Threads : \A i \in 1 .. at[u] :
          i \in DOMAIN jobs[u] /\ table[jobs[u][i].key] = jobs[u][i].key + 1
    <3>1. \A u \in Threads : DOMAIN jobs[u] = 1 .. Len(jobs[u]) /\ at[u] <= Len(jobs[u]) /\ Len(jobs[u]) \in Nat
      BY SMTT(30), <1>1 DEF Progress, Left, Facts, Typed
    <3>2. \A u \in Threads : \A i \in 1 .. at[u] : i \in DOMAIN jobs[u]
      BY <3>1, <1>1
    <3> QED
      BY <3>2, <1>7 DEF Progress, Kept
  <2>4. SUFFICES ASSUME NEW u \in Threads, NEW i \in 1 .. at1[u]
                 PROVE  table'[jobs[u][i].key] = jobs[u][i].key + 1
    OBVIOUS
  <2>5. CASE i \in 1 .. at[u]
    BY <2>1, <2>2, <2>3, <2>5, <1>4
  <2>6. CASE u = t /\ i = n
    BY <2>2, <2>6
  <2> QED
    BY <2>5, <2>6, <1>2
<1>8. ASSUME (mode = "hashtable_test" /\ phase = 2) \/ (mode = "microbench" /\ phase \in 2 .. 3)
      PROVE  \A k \in 0 .. num - 1 : table'[k] = k + 1
  <2>1. \/ call.op = "Get"
        \/ call.op = "Update" /\ call.value = call.key + 1
    BY <1>6, <1>8 DEF Progress, Facts, Looks
  <2>2. \A k \in 0 .. num - 1 : table[k] = k + 1 /\ k + 1 # NONE /\ k \in Keys
    BY <1>3, <1>8 DEF Progress, Kept
  <2>3. ASSUME NEW k \in 0 .. num - 1, k = call.key PROVE table'[k] = k + 1
    BY <2>1, <2>2, <2>3 DEF Effect, n
  <2> QED
    BY <2>2, <2>3, <1>4
<1>9. ASSUME mode = "microbench", phase = 4
      PROVE  \A k \in at1[0] .. num - 1 : table'[k] = k + 1
  <2>1. t = 0 /\ call.key = n - 1
    BY <1>6, <1>9 DEF Progress, Facts, Deletes, OneByOne
  <2>2. \A k \in at[0] .. num - 1 : table[k] = k + 1
    BY <1>9 DEF Progress, Kept
  <2>3. SUFFICES ASSUME NEW k \in at1[0] .. num - 1 PROVE table'[k] = k + 1
    OBVIOUS
  <2>4. k \in at[0] .. num - 1 /\ k # call.key /\ k \in 0 .. num - 1
    BY <2>1, <1>1, <1>3
  <2> QED
    BY <2>2, <2>4, <1>3, <1>4
<1>10. ASSUME mode = "ycsb", phase = 2
       PROVE  /\ \A k \in 0 .. Loaded - 1 : table'[k] # NONE
              /\ \A u \in Threads : \A i \in 1 .. at1[u] :
                   jobs[u][i].op = "Insert" => table'[jobs[u][i].key] # NONE
  <2>1. \A u \in Threads : \A i \in DOMAIN jobs[u] :
          /\ jobs[u][i].key \in Keys /\ jobs[u][i].op # "Delete"
          /\ jobs[u][i].op \in {"Insert", "Update"} => jobs[u][i].value # NONE
    <3>1. \A u \in Threads : \A i \in DOMAIN jobs[u] : \E j \in DOMAIN txn : jobs[u][i] = txn[j]
      BY <1>10 DEF Progress, Facts, Transacts
    <3>2. \A j \in DOMAIN txn : txn[j] \in Calls /\ txn[j].key \in Keys /\ txn[j].op # "Delete"
      BY <1>10, TxnFacts
    <3>3. \A call_ \in Calls : call_.op \in {"Insert", "Update"} => call_.value # NONE
      BY <1>3 DEF Calls
    <3> QED
      BY <3>1, <3>2, <3>3
  <2>2. \A k \in Keys : table[k] # NONE => table'[k] # NONE
    BY <2>1, <1>4, <1>6 DEF Effect, n
  <2>3. call.op = "Insert" => table'[call.key] # NONE
    BY <2>1, <1>6 DEF Effect, n
  <2>4. \A u \in Threads : \A i \in 1 .. at[u] : i \in DOMAIN jobs[u]
    <3>1. \A u \in Threads : DOMAIN jobs[u] = 1 .. Len(jobs[u]) /\ at[u] <= Len(jobs[u]) /\ Len(jobs[u]) \in Nat
      BY SMTT(30), <1>1 DEF Progress, Left, Facts, Typed
    <3> QED
      BY <3>1, <1>1
  <2>5. /\ \A k \in 0 .. Loaded - 1 : table[k] # NONE
        /\ \A u \in Threads : \A i \in 1 .. at[u] :
             jobs[u][i].op = "Insert" => table[jobs[u][i].key] # NONE
    BY <1>10 DEF Progress, Kept
  <2>6. \A k \in 0 .. Loaded - 1 : table'[k] # NONE
    BY <2>2, <2>5, <1>3
  <2>7. ASSUME NEW u \in Threads, NEW i \in 1 .. at1[u], jobs[u][i].op = "Insert"
        PROVE  table'[jobs[u][i].key] # NONE
    <3>1. CASE i \in 1 .. at[u]
      BY <2>1, <2>2, <2>4, <2>5, <2>7, <3>1
    <3>2. CASE u = t /\ i = n
      BY <2>3, <2>7, <3>2 DEF n
    <3> QED
      BY <1>2, <3>1, <3>2
  <2> QED
    BY <2>6, <2>7
<1>11. Kept(jobs, at1)'
  BY <1>5, <1>7, <1>8, <1>9, <1>10 DEF Kept
<1> QED
  BY <1>11 DEF at1

\* Only ycsb is given a wrong answer, and only where it may be.
LEMMA AnswerStep ==
  ASSUME Underway, NEW jobs, NEW at, Progress(jobs, at), NEW t \in Threads,
         at[t] + 1 \in DOMAIN jobs[t], NEW answer, Effect(jobs[t][at[t] + 1], answer),
         Wrong(jobs[t][at[t] + 1], answer)
  PROVE  LET key == jobs[t][at[t] + 1].key IN
         /\ mode = "ycsb"
         /\ \/ key \in ChunkSize(num) * threads .. num - 1
            \/ \E i \in DOMAIN txn :
                 /\ txn[i].op = "Insert" /\ txn[i].key = key
                 /\ (i - 1) \div Share # t
<1> DEFINE n == at[t] + 1
           call == jobs[t][n]
<1>1. /\ at[t] \in Nat /\ n \in Nat \ {0} /\ n - 1 = at[t]
      /\ DOMAIN jobs[t] = 1 .. Len(jobs[t]) /\ Len(jobs[t]) \in Nat
  <2>1. at \in [Threads -> Nat] /\ jobs[t] \in Seq(AnyCall)
    BY DEF Progress, Left, Facts, Typed
  <2> QED
    BY <2>1
<1>2. /\ DriverOK /\ phase \in Nat
      /\ mode \in {"hashtable_test", "ycsb"} => phase <= 2
      /\ mode = "microbench" => phase <= 4
  BY DEF Underway
<1>3. phase # 0
  <2>1. SUFFICES ASSUME phase = 0 PROVE FALSE
    OBVIOUS
  <2>2. jobs[t] = <<>>
    BY <2>1 DEF Progress
  <2> QED
    BY <2>2
<1>4. num \in Nat /\ 0 .. num - 1 \subseteq Keys /\ NONE = 0 /\ 0 \notin Values /\ threads \in Nat
  BY <1>2, DriverFacts, Constants
<1>5. n \in DOMAIN jobs[t]
  OBVIOUS
<1> HIDE DEF n
<1>6. Checks
  BY DEF Wrong, Checks, n
<1>7. phase # 1
  <2>1. SUFFICES ASSUME phase = 1 PROVE FALSE
    OBVIOUS
  <2>2. call.op = "Insert"
    BY <1>5, <1>6, <2>1 DEF Progress, Facts, Loads
  <2> QED
    BY <1>6, <2>2 DEF Wrong, Checks, n
<1>8. CASE mode \in {"hashtable_test", "microbench"}
  <2>1. CASE mode = "hashtable_test" \/ phase # 4
    <3>1. (mode = "hashtable_test" /\ phase = 2) \/ (mode = "microbench" /\ phase \in 2 .. 3)
      BY <1>2, <1>3, <1>7, <1>8, <2>1
    <3>2. call.key \in 0 .. num - 1 /\ call.op \in {"Get", "Update"}
      BY <1>5, <3>1 DEF Progress, Facts, Looks
    <3>3. table[call.key] = call.key + 1 /\ call.key + 1 # NONE
      BY <1>4, <3>1, <3>2 DEF Progress, Kept
    <3>4. ~ Wrong(call, answer)
      BY <1>8, <3>2, <3>3 DEF Effect, Wrong, n
    <3> QED
      BY <3>4 DEF n
  <2>2. CASE mode = "microbench" /\ phase = 4
    <3>1. t = 0 /\ call.key = n - 1 /\ n <= num /\ call.op = "Delete"
      BY <1>5, <2>2 DEF Progress, Facts, Deletes, OneByOne
    <3> HIDE DEF call
    <3>2. at[0] = at[t] /\ call.key = at[t] /\ at[t] <= num - 1
      BY <3>1, <1>1, <1>4
    <3>3. call.key \in at[0] .. num - 1 /\ call.key + 1 \in Nat \ {0}
      BY <3>2, <1>1, <1>4
    <3>4. table[call.key] = call.key + 1 /\ call.key + 1 # NONE
      <4>1. \A k \in at[0] .. num - 1 : table[k] = k + 1
        BY <2>2 DEF Progress, Kept
      <4> QED
        BY <4>1, <3>3, <1>4
    <3>5. ~ Wrong(call, answer)
      BY <1>8, <3>1, <3>4 DEF Effect, Wrong, n, call
    <3> QED
      BY <3>5 DEF n, call
  <2> QED
    BY <1>8, <2>1, <2>2
<1>9. CASE mode = "ycsb"
  <2>1. phase = 2
    BY <1>2, <1>3, <1>7, <1>9
  <2>2. call.op = "Get" /\ table[call.key] = NONE
    BY <1>4, <1>9 DEF Wrong, Effect, n
  <2>3. /\ Share \in Nat /\ Len(txn) \in Nat /\ DOMAIN txn = 1 .. Len(txn) /\ t \in Nat
    BY <1>2, <1>9, TxnFacts, ChunkSizes, Constants DEF Share
  <2> DEFINE P(i) == Share * t + i
  <2>4. \A i \in DOMAIN jobs[t] : i \in 1 .. Share /\ P(i) \in DOMAIN txn /\ jobs[t][i] = txn[P(i)]
    BY <1>9, <2>1 DEF Progress, Facts, Transacts
  <2>5. DOMAIN jobs[t] = 1 .. Share
    <3>1. jobs[t] # <<>>
      BY <1>5
    <3> QED
      BY <1>9, <2>1, <3>1 DEF Progress, Facts, Transacts
  <2>6. call.key \in Nat
    <3>1. call.key \in Keys
      BY <1>2, <1>5, <1>9, <2>4, TxnFacts
    <3> QED
      BY <3>1, Constants
  <2>7. CASE call.key < num
    <3>1. call.key \notin 0 .. Loaded - 1
      BY <1>9, <2>1, <2>2 DEF Progress, Kept
    <3>2. Loaded = ChunkSize(num) * threads /\ Loaded \in Nat
      <4>1. ChunkSize(num) \in Nat
        BY <1>2, <1>4, ChunkSizes
      <4>2. \A a, b \in Nat : a * b \in Nat
        OBVIOUS
      <4> QED
        BY <1>4, <1>9, <4>1, <4>2 DEF Loaded
    <3>3. call.key \in ChunkSize(num) * threads .. num - 1
      BY <1>4, <2>6, <2>7, <3>1, <3>2
    <3> QED
      BY <1>9, <3>3 DEF n
  <2>8. CASE call.key >= num
    <3> DEFINE Same_ == {j \in DOMAIN txn : txn[j].key = call.key}
    <3>1. Same_ \in SUBSET Nat /\ P(n) \in Same_
      BY <1>5, <2>3, <2>4
    <3>2. PICK j \in Same_ : \A l \in Same_ : j <= l
      BY <3>1, LeastNumber
    <3>3. j \in DOMAIN txn /\ txn[j].key = call.key
      OBVIOUS
    <3>4. txn[j].op = "Insert"
      <4>1. \A l \in 1 .. j - 1 : txn[l].key # txn[j].key
        <5>1. \A l \in 1 .. j - 1 : l \in DOMAIN txn /\ ~ j <= l
          BY <2>3, <3>3
        <5> QED
          BY <3>2, <3>3, <5>1
      <4> QED
        BY <1>2, <1>9, <2>8, <3>3, <4>1, TxnFacts
    <3>5. (j - 1) \div Share # t
      <4>1. SUFFICES ASSUME (j - 1) \div Share = t PROVE FALSE
        OBVIOUS
      <4> DEFINE x == (j - 1) % Share
      <4>2. Share \in Nat \ {0} /\ j - 1 \in Nat
        BY <1>5, <2>3, <2>5, <3>3
      <4>3. Share * t + x = j - 1 /\ x \in 0 .. Share - 1
        BY <4>1, <4>2, Quotient
      <4> HIDE DEF x
      <4>4. P(x + 1) = j /\ x + 1 \in DOMAIN jobs[t] /\ x + 1 \in Nat
        <5>1. \A m, y \in Int : m + y = j - 1 => m + (y + 1) = j
          BY <2>3, <3>3
        <5>2. Share * t \in Int
          BY <2>3
        <5> QED
          BY <2>3, <2>5, <4>3, <5>1, <5>2
      <4>5. P(x + 1) <= P(n)
        BY <3>1, <3>2, <4>4
      <4>6. x + 1 <= n
        <5>1. \A m, y, z \in Int : m + y <= m + z => y <= z
          OBVIOUS
        <5>2. Share * t \in Int /\ n \in Int /\ x + 1 \in Int
          BY <1>1, <2>3, <4>4
        <5> QED
          BY <4>5, <5>1, <5>2
      <4>7. jobs[t][x + 1] = txn[j]
        BY <2>4, <4>4
      <4> HIDE DEF P
      <4>8. x + 1 # n
        BY <2>2, <3>4, <4>7
      <4>9. x + 1 \in 1 .. at[t]
        BY <1>1, <4>3, <4>6, <4>8
      <4>10. table[jobs[t][x + 1].key] # NONE
        BY <1>9, <2>1, <3>4, <4>7, <4>9 DEF Progress, Kept
      <4> QED
        BY <2>2, <3>3, <4>7, <4>10
    <3> QED
      BY <1>9, <3>3, <3>4, <3>5 DEF n
  <2> QED
    BY <1>4, <2>6, <2>7, <2>8
<1> QED
  BY <1>6, <1>8, <1>9 DEF Checks

-----------------------------------------------------------------------------
(* The invariant.                                                          *)

\* The drivers begin with an empty table and nothing to do.
LEMMA InitUnderway ==
  ASSUME BInit
  PROVE  Underway
<1> DEFINE jobs == [t \in Threads |-> <<>>]
           at == [t \in Threads |-> 0]
<1>1. DriverOK /\ phase = 0 /\ missed = {} /\ DOMAIN table = Keys /\ DOMAIN ret = Threads
  BY DEF BInit, DriverOK
<1>2. \A t \in Threads : jobs[t] = <<>> /\ DOMAIN jobs[t] = {} /\ Inserted(jobs, t) = {}
  BY DEF Inserted
<1>3. DOMAIN jobs = Threads /\ <<>> \in Seq(AnyCall) /\ at \in [Threads -> Nat]
  OBVIOUS
<1>4. todo = jobs
  BY DEF BInit
<1>5. \A t \in Threads : at[t] = 0 /\ Len(jobs[t]) = 0
  OBVIOUS
<1> HIDE DEF jobs, at
<1>6. Facts(jobs, 0)
  <2>1. Typed(jobs)
    BY <1>2, <1>3 DEF Typed
  <2>2. Fresh(jobs, 0)
    BY <1>2 DEF Fresh, FreshInserts
  <2>3. Split(jobs)
    BY <1>2 DEF Split
  <2> QED
    BY <2>1, <2>2, <2>3 DEF Facts
<1>7. Left(jobs, at)
  <2>1. \A t \in Threads : todo[t] = <<>> /\ todo[t] \in Seq(AnyCall) /\ Len(todo[t]) = 0 /\ DOMAIN todo[t] = {}
    BY <1>2, <1>3, <1>4, <1>5
  <2>2. \A t \in Threads : at[t] + Len(todo[t]) = Len(jobs[t])
    BY <1>5, <2>1
  <2> QED
    BY <1>3, <1>4, <2>1, <2>2 DEF Left
<1>8. Only(jobs, at)
  BY DEF BInit, Only
<1>9. Kept(jobs, at)
  BY <1>1 DEF Kept
<1>10. Progress(jobs, at)
  BY <1>1, <1>2, <1>6, <1>7, <1>8, <1>9 DEF Progress
<1>11. OnlyTheRestIsMissed
  BY <1>1 DEF OnlyTheRestIsMissed
<1> QED
  BY <1>1, <1>10, <1>11 DEF Underway

LEMMA MissedStep ==
  ASSUME Underway, UNCHANGED driver, NEW m,
         missed' = missed \cup {m} \/ missed' = missed,
         missed' # missed =>
           /\ mode = "ycsb"
           /\ \/ m.key \in ChunkSize(num) * threads .. num - 1
              \/ \E i \in DOMAIN txn :
                   /\ txn[i].op = "Insert" /\ txn[i].key = m.key
                   /\ (i - 1) \div Share # m.thread
  PROVE  OnlyTheRestIsMissed'
<1>1. mode' = mode /\ num' = num /\ threads' = threads /\ txn' = txn
  BY DEF driver
<1>2. Share' = Share /\ ChunkSize(num)' = ChunkSize(num) /\ ChunkSize(Len(txn))' = Share
  BY <1>1 DEF Share, ChunkSize
<1> DEFINE Rest(x) == x.key \in ChunkSize(num) * threads .. num - 1
           Other(x) == \E i \in DOMAIN txn :
                   /\ txn[i].op = "Insert" /\ txn[i].key = x.key
                   /\ (i - 1) \div Share # x.thread
<1>3. \A x \in missed : mode = "ycsb" /\ (Rest(x) \/ Other(x))
  BY DEF Underway, OnlyTheRestIsMissed, Share
<1>4. missed' # missed => mode = "ycsb" /\ (Rest(m) \/ Other(m))
  OBVIOUS
<1> HIDE DEF Rest, Other
<1>5. \A x \in missed' : mode = "ycsb" /\ (Rest(x) \/ Other(x))
  BY <1>3, <1>4
<1> QED
  BY <1>1, <1>2, <1>5 DEF Rest, Other, OnlyTheRestIsMissed

LEMMA CallUnderway ==
  ASSUME Underway, NEW t \in Threads, Call(t)
  PROVE  Underway'
<1> PICK jobs, at : Progress(jobs, at)
  BY DEF Underway
<1> DEFINE call == jobs[t][at[t] + 1]
           at1 == [at EXCEPT ![t] = @ + 1]
           m == [thread |-> t, key |-> Head(todo[t]).key]
<1>1. /\ todo[t] # <<>> /\ todo' = [todo EXCEPT ![t] = Tail(@)]
      /\ DOMAIN ret' = Threads /\ Effect(Head(todo[t]), ret'[t])
      /\ UNCHANGED <<driver, phase>>
      /\ missed' = IF Wrong(Head(todo[t]), ret'[t]) THEN missed \cup {m} ELSE missed
  BY CallStep DEF Underway
<1>2. at[t] + 1 \in DOMAIN jobs[t] /\ Head(todo[t]) = call /\ Left(jobs, at1)'
  <2>1. Left(jobs, at) /\ Typed(jobs)
    BY DEF Progress, Facts
  <2>2. todo[t] # <<>> /\ todo' = [todo EXCEPT ![t] = Tail(@)]
    BY <1>1
  <2> QED
    BY <2>1, <2>2, ListStep
<1>3. Effect(call, ret'[t])
  BY <1>1, <1>2
<1> HIDE DEF at1
<1>4. Only(jobs, at1)'
  BY <1>1, <1>2, <1>3, OnlyStep DEF at1
<1>5. Kept(jobs, at1)'
  BY <1>1, <1>2, <1>3, KeptStep DEF at1, Underway
<1>6. /\ DriverOK' = DriverOK /\ mode' = mode /\ phase' = phase
      /\ \A x, q : Facts(x, q)' = Facts(x, q)
  BY <1>1, Same DEF driver
<1>7. Facts(jobs, phase)'
  <2>1. Facts(jobs, phase)
    BY DEF Progress
  <2> QED
    BY <1>1, <1>6, <2>1 DEF Facts, Typed
<1>8. Progress(jobs, at1)'
  BY <1>2, <1>4, <1>5, <1>6, <1>7 DEF Progress
<1>9. OnlyTheRestIsMissed'
  <2>1. m.key = call.key /\ m.thread = t
    BY <1>2
  <2>2. Wrong(call, ret'[t]) =>
           /\ mode = "ycsb"
           /\ \/ call.key \in ChunkSize(num) * threads .. num - 1
              \/ \E i \in DOMAIN txn :
                   /\ txn[i].op = "Insert" /\ txn[i].key = call.key
                   /\ (i - 1) \div Share # t
    BY <1>2, <1>3, AnswerStep
  <2> HIDE DEF m
  <2>3. Wrong(call, ret'[t]) =>
           /\ mode = "ycsb"
           /\ \/ m.key \in ChunkSize(num) * threads .. num - 1
              \/ \E i \in DOMAIN txn :
                   /\ txn[i].op = "Insert" /\ txn[i].key = m.key
                   /\ (i - 1) \div Share # m.thread
    BY <2>1, <2>2
  <2>4. missed' # missed => Wrong(call, ret'[t])
    BY <1>1, <1>2
  <2>5. missed' = missed \cup {m} \/ missed' = missed
    BY <1>1
  <2> QED
    BY <1>1, <2>3, <2>4, <2>5, MissedStep
<1>10. DOMAIN table' = Keys
  BY <1>3 DEF Effect
<1> QED
  BY <1>1, <1>6, <1>8, <1>9, <1>10 DEF Underway

\* The next phase begins where the last has ended.
LEMMA PhaseUnderway ==
  ASSUME Underway, StartPhase
  PROVE  Underway'
<1> PICK jobs, at : Progress(jobs, at)
  BY DEF Underway
<1> PICK next : next = todo'
  OBVIOUS
<1> DEFINE at1 == [t \in Threads |-> 0]
<1>1. /\ \A t \in Threads : todo[t] = <<>>
      /\ phase < Len(Phases) /\ phase' = phase + 1 /\ next \in Phases[phase + 1]
      /\ table' = IF mode = "utilization" THEN [k \in Keys |-> NONE] ELSE table
      /\ UNCHANGED <<ret, driver, missed>>
  BY DEF StartPhase, Joined
<1>2. /\ DriverOK /\ phase \in Nat /\ Len(Phases) \in Nat
      /\ mode \in {"hashtable_test", "ycsb"} => Len(Phases) = 2
      /\ mode = "microbench" => Len(Phases) = 4
      /\ DOMAIN table = Keys /\ DOMAIN ret = Threads
  BY PhaseCount DEF Underway
<1>3. phase + 1 \in 1 .. Len(Phases)
  BY <1>1, <1>2
<1>4. Facts(next, phase + 1)
  BY <1>1, <1>2, <1>3, PhaseFacts
<1>5. /\ DriverOK' = DriverOK /\ mode' = mode /\ num' = num /\ Loaded' = Loaded /\ Checks' = Checks
      /\ \A p : Before(p)' = Before(p) /\ \A x, q : Facts(x, q)' = Facts(x, q)
  BY <1>1, Same DEF driver
<1>6. \A t \in Threads : /\ DOMAIN jobs[t] = 1 .. Len(jobs[t]) /\ at[t] = Len(jobs[t])
                         /\ at[t] \in Nat
  <2>1. SUFFICES ASSUME NEW t \in Threads
                 PROVE  /\ DOMAIN jobs[t] = 1 .. Len(jobs[t]) /\ at[t] = Len(jobs[t]) /\ at[t] \in Nat
    OBVIOUS
  <2>2. /\ jobs[t] \in Seq(AnyCall) /\ at \in [Threads -> Nat]
        /\ at[t] + Len(todo[t]) = Len(jobs[t])
    BY DEF Progress, Facts, Typed, Left
  <2>3. Len(todo[t]) = 0 /\ at[t] \in Nat
    BY <1>1, <2>2
  <2> QED
    BY <2>2, <2>3
<1>7. \A t \in Threads : 1 .. at[t] = DOMAIN jobs[t]
  BY <1>6
<1>8. Left(next, at1)'
  <2>1. DOMAIN next = Threads /\ \A t \in Threads : next[t] \in Seq(AnyCall)
    BY <1>4 DEF Facts, Typed
  <2>2. \A t \in Threads : 0 + Len(next[t]) = Len(next[t]) /\ \A i \in DOMAIN next[t] : 0 + i = i
    BY <2>1
  <2>3. at1 \in [Threads -> Nat] /\ \A t \in Threads : at1[t] = 0
    OBVIOUS
  <2> HIDE DEF at1
  <2>4. \A t \in Threads : at1[t] + Len(next[t]) = Len(next[t]) /\ \A i \in DOMAIN next[t] : next[t][i] = next[t][at1[t] + i]
    BY <2>2, <2>3
  <2>5. next = todo' /\ DOMAIN todo' = Threads
    BY <2>1
  <2>6. \A t \in Threads : /\ todo'[t] \in Seq(AnyCall) /\ at1[t] + Len(todo'[t]) = Len(next[t])
                          /\ \A i \in DOMAIN todo'[t] : todo'[t][i] = next[t][at1[t] + i]
    BY <2>1, <2>4, <2>5
  <2> QED
    BY <2>3, <2>5, <2>6 DEF Left
<1>9. \A k \in Keys : table'[k] # NONE => k \in Before(phase + 1)
  <2>1. SUFFICES ASSUME NEW k \in Keys, table'[k] # NONE PROVE k \in Before(phase + 1)
    OBVIOUS
  <2>2. mode # "utilization" /\ table[k] # NONE
    BY <1>1, <2>1
  <2>3. CASE phase = 0
    <3>1. k \in Before(0) \/ \E t \in Threads : \E i \in 1 .. at[t] : jobs[t][i].op = "Insert"
      BY <2>2, <2>3 DEF Progress, Only
    <3>2. Before(0) = {}
      <4>1. 0 # 2 /\ 0 < 2
        OBVIOUS
      <4> QED
        BY <4>1 DEF Before
    <3>3. \A t \in Threads : DOMAIN jobs[t] = {}
      BY <2>3 DEF Progress
    <3> QED
      BY <1>7, <3>1, <3>2, <3>3
  <2>4. CASE phase # 0 /\ ~ (mode \in {"mixed", "ycsb"} /\ phase = 1)
    <3>1. phase + 1 # 2 \/ mode \notin {"mixed", "ycsb"}
      BY <1>2, <2>4
    <3>2. ~ phase + 1 < 2
      BY <1>2, <2>4
    <3>3. Before(phase + 1) = Keys
      BY <2>2, <3>1, <3>2 DEF Before
    <3> QED
      BY <3>3
  <2>5. CASE mode \in {"mixed", "ycsb"} /\ phase = 1
    <3>1. Before(1) = {}
      <4>1. 1 # 2 /\ 1 < 2
        OBVIOUS
      <4> QED
        BY <4>1 DEF Before
    <3>2. \E t \in Threads : \E i \in DOMAIN jobs[t] : jobs[t][i].op = "Insert" /\ jobs[t][i].key = k
      BY <2>2, <2>5, <3>1, <1>7 DEF Progress, Only
    <3>3. LoadsFew(jobs)
      BY <2>5 DEF Progress, Facts
    <3>4. phase + 1 = 2
      BY <2>5
    <3> QED
      BY <3>2, <3>3, <3>4 DEF LoadsFew, Inserted
  <2> QED
    BY <2>3, <2>4, <2>5
<1>10. Only(next, at1)'
  BY <1>1, <1>5, <1>9 DEF Only
<1>11. ASSUME Checks, phase = 1 PROVE \A k \in 0 .. Loaded - 1 : table[k] = k + 1
  <2>1. /\ \A t \in Threads : \A i \in DOMAIN jobs[t] : table[jobs[t][i].key] = jobs[t][i].key + 1
        /\ Covers(jobs, Loaded)
    BY <1>7, <1>11 DEF Progress, Facts, Loads, Kept
  <2> QED
    BY <2>1 DEF Covers
<1>12. mode = "microbench" /\ phase \in 1 .. 3 => \A k \in 0 .. num - 1 : table[k] = k + 1
  <2>1. CASE phase = 1
    BY <1>11, <2>1 DEF Checks, Loaded
  <2>2. CASE phase \in 2 .. 3
    BY <2>2 DEF Progress, Kept
  <2> QED
    BY <2>1, <2>2
<1>13. Kept(next, at1)'
  <2>1. \A t \in Threads : 1 .. at1[t] = {}
    OBVIOUS
  <2>2. 0 \in Threads /\ at1[0] = 0
    BY Constants
  <2> HIDE DEF at1
  <2>3. ASSUME (mode = "hashtable_test" /\ phase' = 2) \/ (mode = "microbench" /\ phase' \in 2 .. 3)
        PROVE  \A k \in 0 .. num - 1 : table'[k] = k + 1
    <3>1. table' = table
      BY <1>1, <2>3
    <3>2. CASE mode = "hashtable_test" /\ phase' = 2
      <4>1. phase = 1
        BY <1>1, <1>2, <3>2
      <4> QED
        BY <1>11, <3>1, <3>2, <4>1 DEF Checks, Loaded
    <3>3. CASE mode = "microbench" /\ phase' \in 2 .. 3
      <4>1. phase \in 1 .. 3
        BY <1>1, <1>2, <3>3
      <4> QED
        BY <1>12, <3>1, <3>3, <4>1
    <3> QED
      BY <2>3, <3>2, <3>3
  <2>4. ASSUME mode = "microbench", phase' = 4
        PROVE  \A k \in at1[0] .. num - 1 : table'[k] = k + 1
    <3>1. table' = table /\ phase \in 1 .. 3
      BY <1>1, <1>2, <2>4
    <3> QED
      BY <1>12, <2>2, <2>4, <3>1
  <2>5. ASSUME mode = "ycsb", phase' = 2
        PROVE  \A k \in 0 .. Loaded - 1 : table'[k] # NONE
    <3>1. table' = table /\ phase = 1
      BY <1>1, <1>2, <2>5
    <3>2. \A k \in 0 .. Loaded - 1 : table[k] = k + 1
      BY <1>11, <2>5, <3>1 DEF Checks
    <3>3. NONE = 0 /\ \A k \in 0 .. Loaded - 1 : k + 1 # 0
      BY Constants
    <3> QED
      BY <3>1, <3>2, <3>3
  <2> QED
    BY <1>5, <2>1, <2>3, <2>4, <2>5 DEF Kept
<1>14. Progress(next, at1)'
  <2>1. Facts(next, phase)'
    <3> PICK p : p = phase + 1
      OBVIOUS
    <3>1. Facts(next, p) /\ phase' = p
      BY <1>1, <1>4
    <3>2. Facts(next, p)'
      BY <3>1, <1>5
    <3> QED
      BY <3>1, <3>2 DEF Facts
  <2>2. phase' # 0
    BY <1>1, <1>2
  <2> QED
    BY <1>8, <1>10, <1>13, <2>1, <2>2 DEF Progress
<1>15. OnlyTheRestIsMissed'
  BY <1>1, MissedStep
<1>16. DOMAIN table' = Keys /\ DOMAIN ret' = Threads /\ phase' \in Nat
  BY <1>1, <1>2
<1>17. /\ mode \in {"hashtable_test", "ycsb"} => phase' <= 2
       /\ mode = "microbench" => phase' <= 4
  BY <1>1, <1>2
<1>18. (\E x, y : Progress(x, y))'
  BY <1>14
<1> QED
  BY <1>2, <1>5, <1>15, <1>16, <1>17, <1>18 DEF Underway

LEMMA UnderwayStep ==
  ASSUME Underway, [BNext]_bvars
  PROVE  Underway'
<1>1. CASE StartPhase
  BY <1>1, PhaseUnderway
<1>2. CASE \E t \in Threads : Call(t)
  BY <1>2, CallUnderway
<1>3. CASE UNCHANGED bvars
  <2>1. UNCHANGED driver /\ UNCHANGED <<todo, table, ret, phase, missed>>
    BY <1>3 DEF bvars, driver
  <2>2. PICK jobs, at : Progress(jobs, at)
    BY DEF Underway
  <2>3. /\ DriverOK' = DriverOK /\ Loaded' = Loaded /\ Checks' = Checks /\ mode' = mode /\ num' = num
        /\ \A p : Before(p)' = Before(p) /\ \A x, q : Facts(x, q)' = Facts(x, q)
    BY <2>1, Same DEF driver
  <2>4. PICK p : p = phase
    OBVIOUS
  <2>5. Facts(jobs, p) /\ phase' = p
    BY <2>1, <2>2, <2>4 DEF Progress
  <2>6. Facts(jobs, p)'
    BY <2>3, <2>5
  <2>7. Facts(jobs, phase)'
    BY <2>5, <2>6 DEF Facts
  <2>8. Left(jobs, at)'
    BY <2>1, <2>2 DEF Progress, Left
  <2>9. Only(jobs, at)' /\ Kept(jobs, at)'
    BY <2>1, <2>2, <2>3 DEF Progress, Only, Kept
  <2>10. Progress(jobs, at)'
    BY <2>1, <2>2, <2>7, <2>8, <2>9 DEF Progress
  <2>11. OnlyTheRestIsMissed'
    BY <2>1, MissedStep
  <2> QED
    BY <2>1, <2>3, <2>10, <2>11 DEF Underway
<1> QED
  BY <1>1, <1>2, <1>3 DEF BNext

LEMMA UnderwayInvariant == BSpec => []Underway
<1>1. BInit => Underway
  BY InitUnderway
<1>2. Underway /\ [BNext]_bvars => Underway'
  BY UnderwayStep
<1> QED
  BY <1>1, <1>2, PTL DEF BSpec

\* What is left of the jobs has the properties of the jobs.
LEMMA LeftShares ==
  ASSUME Underway
  PROVE  ThreadsShareNothing
<1>1. SUFFICES ASSUME Fits PROVE ThreadsShareNothing
  BY DEF ThreadsShareNothing
<1> PICK jobs, at : Progress(jobs, at)
  BY DEF Underway
<1>2. /\ Fresh(jobs, phase) /\ Typed(jobs) /\ Left(jobs, at) /\ Only(jobs, at)
      /\ ~ (mode = "ycsb" /\ phase = 2) => Split(jobs)
  BY <1>1 DEF Progress, Facts
<1>3. \A t \in Threads : /\ at[t] \in Nat
                         /\ \A i \in DOMAIN todo[t] :
                              /\ todo[t][i] = jobs[t][at[t] + i] /\ i \in Nat \ {0}
                              /\ at[t] + i \in DOMAIN jobs[t]
  <2>1. SUFFICES ASSUME NEW t \in Threads, NEW i \in DOMAIN todo[t]
                 PROVE  /\ todo[t][i] = jobs[t][at[t] + i] /\ i \in Nat \ {0}
                        /\ at[t] + i \in DOMAIN jobs[t]
    BY <1>2 DEF Left
  <2>2. /\ todo[t] \in Seq(AnyCall) /\ jobs[t] \in Seq(AnyCall) /\ at[t] \in Nat
        /\ at[t] + Len(todo[t]) = Len(jobs[t]) /\ todo[t][i] = jobs[t][at[t] + i]
    BY <1>2 DEF Left, Typed
  <2>3. /\ DOMAIN todo[t] = 1 .. Len(todo[t]) /\ Len(todo[t]) \in Nat
        /\ DOMAIN jobs[t] = 1 .. Len(jobs[t])
    BY <2>2
  <2>4. i \in Nat \ {0} /\ i <= Len(todo[t])
    BY <2>3
  <2>5. at[t] + i \in 1 .. Len(jobs[t])
    BY <2>2, <2>3, <2>4
  <2> QED
    BY <2>2, <2>3, <2>4, <2>5
<1>4. \A t \in Threads : \A i \in Inserted(todo, t) :
        i \in DOMAIN todo[t] /\ at[t] + i \in Inserted(jobs, t)
  BY <1>3 DEF Inserted
<1>5. FreshInserts(todo)
  <2>1. SUFFICES ASSUME NEW t \in Threads, NEW u \in Threads,
                        NEW i \in Inserted(todo, t), NEW j \in Inserted(todo, u),
                        todo[t][i].key = todo[u][j].key
                 PROVE  t = u /\ i = j
    BY DEF FreshInserts
  <2>2. t = u /\ at[t] + i = at[u] + j
    BY <1>2, <1>3, <1>4, <2>1 DEF Fresh, FreshInserts
  <2>3. at[t] \in Nat /\ i \in Nat /\ j \in Nat
    BY <1>3, <1>4
  <2> QED
    BY <2>2, <2>3
<1>6. \A t \in Threads : \A i \in Inserted(todo, t) : table[todo[t][i].key] = NONE
  <2>1. SUFFICES ASSUME NEW t \in Threads, NEW i \in Inserted(todo, t), table[todo[t][i].key] # NONE
                 PROVE  FALSE
    OBVIOUS
  <2>2. at[t] + i \in Inserted(jobs, t) /\ jobs[t][at[t] + i] = todo[t][i]
    BY <1>3, <1>4
  <2>3. todo[t][i].key \in Keys \ Before(phase)
    BY <1>2, <2>2 DEF Fresh
  <2> PICK u \in Threads :
        \E j \in 1 .. at[u] : jobs[u][j].op = "Insert" /\ jobs[u][j].key = todo[t][i].key
    BY <1>2, <2>1, <2>3 DEF Only
  <2>4. PICK j \in 1 .. at[u] : jobs[u][j].op = "Insert" /\ jobs[u][j].key = todo[t][i].key
    OBVIOUS
  <2>5. j \in Inserted(jobs, u)
    <3>1. /\ jobs[u] \in Seq(AnyCall) /\ todo[u] \in Seq(AnyCall) /\ at[u] \in Nat
          /\ at[u] + Len(todo[u]) = Len(jobs[u])
      BY <1>2 DEF Typed, Left
    <3>2. /\ DOMAIN jobs[u] = 1 .. Len(jobs[u]) /\ Len(jobs[u]) \in Nat /\ Len(todo[u]) \in Nat
          /\ j \in 1 .. at[u]
      BY <3>1, <2>4
    <3>3. j \in DOMAIN jobs[u]
      BY <3>1, <3>2
    <3> QED
      BY <2>4, <3>3 DEF Inserted
  <2>6. t = u /\ at[t] + i = j
    <3>1. \A v, w \in Threads : \A x \in Inserted(jobs, v), y \in Inserted(jobs, w) :
            jobs[v][x].key = jobs[w][y].key => v = w /\ x = y
      BY <1>2 DEF Fresh, FreshInserts
    <3> DEFINE x == at[t] + i
    <3>2. x \in Inserted(jobs, t) /\ jobs[t][x].key = jobs[u][j].key
      BY <2>2, <2>4
    <3> HIDE DEF x
    <3>3. t = u /\ x = j
      BY <2>5, <3>1, <3>2
    <3> QED
      BY <3>3 DEF x
  <2>7. at[t] \in Nat /\ i \in Nat \ {0}
    BY <1>3, <1>4
  <2> QED
    BY <2>6, <2>7
<1>7. ASSUME ~ (mode = "ycsb" /\ phase = 2)
      PROVE  /\ \A t, u \in Threads : t # u => Positions(t) \cap Positions(u) = {}
             /\ \A t \in Threads : Positions(t) \subseteq 0 .. num - 1
  <2>1. Split(jobs)
    BY <1>2, <1>7
  <2>2. \A t \in Threads : \A k \in Positions(t) : \E i \in DOMAIN jobs[t] : k = jobs[t][i].key
    BY <1>3 DEF Positions
  <2> QED
    BY <2>1, <2>2 DEF Split
<1> QED
  BY <1>5, <1>6, <1>7 DEF ThreadsShareNothing

\* Whatever the size of the input and the number of threads, a driver that fits its
\* input inserts no key twice, and no two threads work on one key but in the
\* transactions of ycsb (benchmark.hpp:63-65, :118-147).
THEOREM DriversShareNothing == BSpec => []ThreadsShareNothing
<1>1. Underway => ThreadsShareNothing
  BY LeftShares
<1> QED
  BY <1>1, UnderwayInvariant, PTL

\* The test and microbench find every key they look for, and ycsb misses none but of
\* what the division left over or another thread inserts (benchmark.hpp:404-408,
\* :445-458; hashtable_test.cpp:77-83).
THEOREM DriversMissOnlyTheRest == BSpec => []OnlyTheRestIsMissed
<1>1. Underway => OnlyTheRestIsMissed
  BY DEF Underway
<1> QED
  BY <1>1, UnderwayInvariant, PTL
=============================================================================
