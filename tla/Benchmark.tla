------------------------------ MODULE Benchmark ------------------------------
(***************************************************************************)
(* The drivers: test/hashtable_test.cpp and the five benchmarks of          *)
(* bench/benchmark.hpp. Each cuts the positions of its input into one range *)
(* for every thread, lets the threads work, joins them and goes on to its   *)
(* next phase. The table under them is the map HashTable with atomic calls. *)
(*                                                                         *)
(* Input position i holds the key i and the value i + 1 (gen_input numbers  *)
(* both; the shuffle after it only renames positions). A position from num  *)
(* on lies beyond the array: it stands for whatever is read there.          *)
(***************************************************************************)
EXTENDS HashTable, FiniteSets

CONSTANTS Modes,      \* the drivers to run
          Sizes,      \* choices for numData, init_num
          TxnFiles,   \* the transactions that YCSB makes for so many loaded keys
          Batch,      \* the 1000 calls between two draws of mixed()
          Step,       \* the 1000 pairs by which utilization() grows
          NumIter,    \* how often it does
          UpdatePart, \* the 30 and the 20 by which microbench() divides
          DeletePart

Drivers == {"hashtable_test", "latency", "mixed", "insert_only",
            "microbench", "utilization", "ycsb"}

ASSUME BenchmarkAssumption ==
  /\ Modes \subseteq Drivers
  /\ IsFiniteSet(Threads) /\ Threads = 0 .. Cardinality(Threads) - 1 /\ Threads # {}
  /\ Sizes \cup {Batch, Step, NumIter, UpdatePart, DeletePart} \subseteq Nat \ {0}
  /\ \A n \in Sizes : \A file \in TxnFiles[n] :
       /\ file \in Seq(Calls)
       /\ \A i \in DOMAIN file :
            /\ file[i].op # "Delete"
            /\ (file[i].op = "Insert") =
                 (file[i].key >= n /\ \A j \in 1 .. i - 1 : file[j].key # file[i].key)
  /\ IsFiniteSet(Keys) /\ Keys = 0 .. Cardinality(Keys) - 1
  /\ \A n \in Sizes : n <= Cardinality(Keys)
  /\ NONE = 0 /\ \A k \in Keys : k + 1 \in Values

VARIABLES mode,     \* the driver
          num,      \* the length of its input
          threads,  \* num_threads
          txn,      \* the transactions of ycsb: run_kv and ops
          phase,    \* how many phases have been started
          missed    \* the checked calls that gave the wrong answer
driver == <<mode, num, threads, txn>>
bvars == <<todo, table, ret, mode, num, threads, txn, phase, missed>>

Ins(i) == [op |-> "Insert", key |-> i, value |-> i + 1]
Upd(i) == [op |-> "Update", key |-> i, value |-> i + 1]
Del(i) == [op |-> "Delete", key |-> i]
Look(i) == [op |-> "Get", key |-> i]

(* ycsb_exec, second half: "Transaction" is what ops[i] says.               *)
CallAt(op, i) == CASE op = "Insert" -> Ins(i) [] op = "Get" -> Look(i)
                   [] op = "Update" -> Upd(i) [] op = "Delete" -> Del(i)
                   [] op = "Transaction" -> txn[i + 1]

\* for(i = from; i < to; i++) op(i)
Loop(op, from, to) == [j \in 1 .. (to - from) |-> CallAt(op, from + j - 1)]

\* start_threads: worker t gets jobs[t]. What main does itself is listed under 0.
Workers == 0 .. threads - 1
StartThreads(jobs) == [t \in Threads |-> IF t \in Workers THEN jobs[t] ELSE <<>>]
Main(job) == [t \in Threads |-> IF t = 0 THEN job ELSE <<>>]

(* [from, to) of a thread: only hashtable_test.cpp gives the last thread    *)
(* what the division leaves.                                                *)
ChunkSize_Ceil(total) == (total + threads - 1) \div threads
ChunkSize(total) == total \div threads
Chunk(op, total, t) == Loop(op, ChunkSize(total) * t, ChunkSize(total) * (t + 1))
ChunkAndRest(op, t) ==
  Loop(op, ChunkSize(num) * t, IF t # threads - 1 THEN ChunkSize(num) * (t + 1) ELSE num)

(* mixed(): a batch of one kind after the other, each where the last of its *)
(* kind ended; only insertions have an index of their own.                  *)
Warmup == num \div 2
Turns == (ChunkSize(Warmup) + Batch - 1) \div Batch
Draws == [1 .. Turns -> {"Insert", "Get", "Update", "Delete"}]
MixedJob(t, draws) ==
  LET Earlier(j) == Cardinality({k \in 1 .. j - 1 : (draws[k] = "Insert") = (draws[j] = "Insert")})
      From(j) == ChunkSize(Warmup) * t + Batch * Earlier(j)
                   + (IF draws[j] = "Insert" THEN Warmup ELSE 0)
  IN [c \in 1 .. Batch * Turns |->
        LET j == (c - 1) \div Batch + 1 IN CallAt(draws[j], From(j) + ((c - 1) % Batch))]

(* What the threads do in phase p of a driver; before its first phase, and  *)
(* before every phase of utilization(), the table is a new one.             *)
Phases ==
  LET chunks(op, total) == {StartThreads([t \in Workers |-> Chunk(op, total, t)])}
      all(op) == {StartThreads([t \in Workers |-> ChunkAndRest(op, t)])}
      mixed == {StartThreads([t \in Workers |-> MixedJob(t, draws[t])]) : draws \in [Workers -> Draws]}
      main(op, n) == {Main(Loop(op, 0, n))} IN
  CASE mode = "hashtable_test" -> <<all("Insert"), all("Get")>>
    [] mode = "latency" -> <<chunks("Insert", num)>>
    [] mode = "mixed" -> <<main("Insert", Warmup), mixed>>
    [] mode = "insert_only" -> <<main("Insert", num)>>
    [] mode = "microbench" -> <<main("Insert", num), main("Get", num),
                                main("Update", num \div UpdatePart), main("Delete", num \div DeletePart)>>
    [] mode = "utilization" -> [i \in 1 .. NumIter |-> main("Insert", Step * i)]
    [] mode = "ycsb" -> <<chunks("Insert", num), chunks("Transaction", Len(txn))>>

TypeOK == /\ mode \in Modes /\ num \in Sizes /\ threads - 1 \in Threads
          /\ phase \in 0 .. Len(Phases) /\ todo \in [Threads -> Seq(Calls)]
          /\ missed \subseteq [thread : Threads, key : Keys]

BInit == /\ mode \in Modes
         /\ num \in Sizes
         /\ threads \in 1 .. Cardinality(Threads)
         /\ mode \in {"insert_only", "microbench", "utilization"} => threads = 1
         /\ txn \in IF mode = "ycsb" THEN TxnFiles[num] ELSE {<<>>}
         /\ phase = 0 /\ missed = {}
         /\ todo = [t \in Threads |-> <<>>]
         /\ table = [k \in Keys |-> NONE]
         /\ ret = [t \in Threads |-> NONE]

Joined_FirstOnly == todo[0] = <<>>
Joined == \A t \in Threads : todo[t] = <<>>

(* All threads have been joined, and main starts the next phase.            *)
StartPhase == /\ Joined /\ phase < Len(Phases)
              /\ phase' = phase + 1
              /\ todo' \in Phases[phase + 1]
              /\ table' = IF mode = "utilization" THEN [k \in Keys |-> NONE] ELSE table
              /\ UNCHANGED <<ret, driver, missed>>

(* What the driver says of an answer: the test counts a wrong value as a    *)
(* failed search, microbench asserts, ycsb_exec prints "not found"; the     *)
(* other drivers do not look.                                               *)
Wrong(call, answer) ==
  CASE mode = "ycsb" -> call.op = "Get" /\ answer = 0
    [] mode \in {"hashtable_test", "microbench"} ->
         \/ call.op = "Get" /\ answer # call.key + 1
         \/ call.op \in {"Update", "Delete"} /\ ~answer
    [] OTHER -> FALSE

Aborted == mode = "microbench" /\ missed # {}

Call(t) == /\ ~Aborted
           /\ Insert(t) \/ Update(t) \/ Delete(t) \/ Get(t)
           /\ missed' = IF Wrong(Head(todo[t]), ret'[t])
                        THEN missed \cup {[thread |-> t, key |-> Head(todo[t]).key]} ELSE missed
           /\ UNCHANGED <<driver, phase>>

BNext == StartPhase \/ \E t \in Threads : Call(t)
BSpec == BInit /\ [][BNext]_bvars
-----------------------------------------------------------------------------
(* The parameters for which a driver keeps to its input: mixed() counts in  *)
(* whole batches, utilization() asks for Step * NumIter pairs.              *)
Fits == /\ mode = "mixed" => ChunkSize(Warmup) % Batch = 0
        /\ mode = "utilization" => num >= Step * NumIter

Positions(t) == {todo[t][i].key : i \in DOMAIN todo[t]}

(* A driver that fits its input reads nothing beyond it, inserts no key     *)
(* twice, which every index relies on, and, but for the transactions of     *)
(* ycsb, has no two threads at one key (benchmark.hpp:63-65, :118-147).     *)
ThreadsShareNothing ==
  Fits =>
    /\ FreshInserts(todo)
    /\ \A t \in Threads : \A i \in Inserted(todo, t) : table[todo[t][i].key] = NONE
    /\ ~(mode = "ycsb" /\ phase = 2) =>
         /\ \A t, u \in Threads : t # u => Positions(t) \cap Positions(u) = {}
         /\ \A t \in Threads : Positions(t) \subseteq 0 .. num - 1

(* No answer that a driver looks at is wrong, but for "not found" of a key  *)
(* that was left over when init_num was cut into chunks, or that only       *)
(* another thread's transactions, or those left over, insert                *)
(* (benchmark.hpp:404-408, :445-458; hashtable_test.cpp:77-83).             *)
OnlyTheRestIsMissed ==
  \A m \in missed :
    /\ mode = "ycsb"
    /\ \/ m.key \in ChunkSize(num) * threads .. num - 1
       \/ \E i \in DOMAIN txn :
            /\ txn[i].op = "Insert" /\ txn[i].key = m.key
            /\ (i - 1) \div ChunkSize(Len(txn)) # m.thread
==============================================================================
