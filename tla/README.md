# hash_bench in TLA+

Specifications of the hash tables in `src/index/`, of what they promise the
programs in `src/bench/` and `src/test/`, of those programs, and of the processes
that share the processor counters through `src/pcm/`, model-checked with TLC and,
where listed below, proved with TLAPS. The reference is the source; a line number
refers to `src/index/linear_probing.h` in `LinearProbing*`, to
`src/index/cuckoo_hash.h` in `Cuckoo*`, to the file named with it in `Benchmark`
and `Pcm*`, and elsewhere to `src/index/extendible_hash.h`, unless it says
otherwise.

## The system

hash_bench measures hash tables that keep all pairs in memory. A driver creates
one table, cuts an array of pairs into chunks, starts threads that insert their
chunks, joins them, and starts threads that update, delete and look up. The
threads share nothing but the table.

| part | source | state | operations |
|---|---|---|---|
| interface | `index/interface.h` | none | `Insert`, `Update`, `Delete`, `Get`, `Utilization`, `Capacity` |
| extendible table | `index/extendible_hash.h` | pointer `dir` to a directory (`depth`, array of segments, counter `sema`); segments (`local_depth`, slots, shared mutex) | the interface; `Segment::Split`; doubling of the directory; redirection of its cells |
| directory counter | `Directory` in the same file | `sema` | `suspend`, `lock`, `unlock` |
| linear probing table | `index/linear_probing.h` | array `dict`, `capacity`, `size`, array of stripe mutexes, `resizing_lock` | the interface; `resize` |
| cuckoo table | `index/cuckoo_hash.h` | `table`, `old_tab`, capacities, stripe mutexes, `resizing_lock` | the interface; `find_path`, `execute_path`, `resize` |
| pairs | `util/pair.h` | none | `INVALID`, `NONE`, `gen_input` |
| threads | `util/config.h` | none | pinning and starting the workers |
| hash functions | `util/hash.h` | none | five functions |
| drivers | `bench/benchmark.h(pp)` | chunks and batches | load, run and mixed phases |
| generators | `bench/*_generator.h`, `bench/*_distribution.h`, `bench/utils.h` | a counter or a random state | keys, values, ranks |
| tests | `test/*.cpp` | counters of failed searches | insert in parallel, join, look everything up |
| counter monitor, instances | `pcm/cpucounters.cpp`, `utils.cpp`, `pcm.cpp` | the cores' registers, two named semaphores | `program`, `resetPMU`, `cleanup`, signal and exit handlers |
| counter monitor, daemon | `pcm/daemon/` | a shared memory segment | collect and publish; read and print |
| counter monitor, the rest | `pcm/` | hardware registers | tables of events, tools, printing |

How they interact: with `--pcm` a driver is one instance of the counter monitor,
among other processes of the machine, and measures its own phases with it. A table is called by all threads at once and never calls
back. Inside the extendible table an operation takes the mutex of one segment
with `try_lock`, and starts again when it fails; an insertion that finds the
segment full keeps that mutex, splits the segment, and then goes through the
directory counter, either to double the directory (alone) or to redirect cells
(beside other splitters). Lookups take no part in the directory counter: they
wait while it is negative, but read the cells unprotected.

What is hard, and what correct means:

* **extendible table**. A lookup reads a cell, and locks what it found there a
  step later. Splits store one cell at a time while others read and store
  cells of the same array. The directory is replaced under threads that hold
  its address. A segment's lock is kept over all of it, and without `INPLACE`
  for ever. Correct: calls are atomic on a map; no key is routed back to a
  segment it has left; the copy of a directory misses no store; no reachable
  segment stays locked; every retry loop ends; the statistics count every
  segment and key once.
* **directory counter**. One word counts holders, says that it is closed, and
  counts the holders that have left since. Correct: a suspender ends up alone
  and for good; it does end up alone.
* **linear probing table**. The slot, the stripe and even the mutex array are
  read before the stripe is locked, and `resize` replaces all three. Correct: a
  key inserted and not deleted is found; no two threads work in one slot.
* **cuckoo table**. A path is found without locks and executed later; two
  places of a key are probed one after the other; readers fall back to the
  previous table. Correct: a displacement keeps every key reachable; no key is
  in two places when nobody is at work; `resize` loses no pair.
* **drivers**. Arithmetic on the bounds of chunks, batches and phases. Correct: no
  two threads work at one position and none beyond the array; no key is
  inserted twice; an answer that the driver looks at is right.
* **instances of the counter monitor**. Processes that come, go, are interrupted
  and killed share registers, a lock and a count, which outlive them. Correct: the
  registers stay programmed while somebody measures and are given back when the
  last one leaves; nobody waits for ever.
* **daemon and client**. The segment is read while it is stored to, and outlives
  daemons. Correct: what is printed is of one collection, or nearly; a difference
  is taken over the interval it is divided by.

`PROJECT.json` lists each hazard at its line with the properties that catch it.

## The modules

```
Pairs           the keys and values there are
Workload        who calls an index, with what calls
  HashTable     abstract: a map with atomic calls
  ExtendibleHash          the extendible table, implements HashTable
    MCExtendibleHash      its instances for TLC
    ExtendibleHash_proofs its directory, and the map while splits stay apart, for all constants
  ScannedMap    abstract: a map whose answers were right at some moment of the call
  LinearProbing           the linear probing table and its resize
    LinearProbingScans    with a history variable, implements ScannedMap
      LinearProbing_proofs  its types, mutexes, keys and size, and the map until a resize
    MCLinearProbing, MCLinearProbingScans   their instances for TLC
  MovingMap     abstract: ScannedMap, but a call may miss a key that is being moved
CuckooPath      find_path, execute_path, insert4resize as operators on tables
  CuckooFilling         a table that one thread fills and empties
    CuckooFilling_proofs  what the operators return, for all tables, and its invariants
    MCCuckooFilling       its instance for TLC
  CuckooHash            the concurrent cuckoo table and its resize, implements HashTable
    CuckooHashScans       with a history variable, implements MovingMap
    MCCuckooHash, MCCuckooHashScans   their instances for TLC
    CuckooHash_proofs     its types, locks and keys, the map until a resize, and resizes
Benchmark       the drivers on top of HashTable
  MCBenchmark           its instance for TLC
  Benchmark_proofs      its two invariants, for all inputs, threads and draws
PcmInstances    the processes that use the counter monitor
  MCPcmInstances        its instance for TLC
  PcmInstances_proofs   its three invariants, for all processes, cores and options
PcmDaemon       the sensor daemon and its clients
  MCPcmDaemon           its instance for TLC
  PcmDaemon_proofs      its two invariants, for all clients, collections and segments
Gate            abstract: many inside, or one alone
  Directory     suspend/lock/unlock, one access a step, implements Gate
    Directory_proofs      its invariants and the refinement, for all threads
```

### HashTable and Workload

`todo[t]` is the list of calls thread `t` has still to make, `ret[t]` what its
latest call returned, `table` the map. The four actions are the four virtual
functions of `Hash<Key_t>`. `Workloads` is the set of lists of calls an instance
starts from; `FreshInserts` says that no key is inserted twice (`Insert` itself never
looks whether the key is there). That the drivers keep to it is the property
`ThreadsShareNothing` of `Benchmark`.

### Gate and Directory

`Directory` has the three loops of lines 58-85 with one load or one
compare-and-swap a step; `val[t]` is the local variable `val`. Threads call as
they please, except that one who locked must unlock. `Gate` is what the loops
are for. The refinement maps `inside` to the threads between the return of
`lock` and the successful compare-and-swap of `unlock`, `closer` to the thread
whose `suspend` has won, `alone` to its being past the wait. It holds, so
`ExtendibleHash` may take `lock`, `unlock` and the two halves of `suspend` as
single steps.

### ExtendibleHash

| variable | code |
|---|---|
| `dir`, `ndirs` | the pointer `dir`; directories allocated so far |
| `depth`, `sema`, `entry` | a directory's fields `depth`, `sema`, `_` |
| `local_depth`, `slots`, `nsegs` | a segment's fields; its array as the set of its valid pairs |
| `writer`, `readers` | who holds a segment's `shared_mutex` |
| `pc` | where in the function a thread is |
| `target`, `s`, `held`, `val` | the local variables `target` and `s`; the directory it has locked or is suspending, or `_dir`; `val` of `suspend` |
| `stores` | the cells of the redirection loop still to be written |

A step is one access to memory that another thread may change at the time. In
particular the load of `dir` with the cell it indexes is one step and the
`try_lock` another; the load of `dir` that compares depths and the `suspend`
called through it are two; every cell of a redirection is a step of its own;
filling the new directory and storing its address are two. What happens under a
segment's exclusive lock (`Put`, `Update`, `Delete`, `Split`) is one step each:
only holders of the lock look at those slots. `Get` is one too: it holds the
lock shared, and writers are kept out.

| actions | lines |
|---|---|
| `AwaitDirectory`, `ReadTarget`, `LockTarget`, `TryLockFails`, `CheckTarget` | label `RETRY` of all four operations (202-222, 381-403, 467-489, 550-575) |
| `Put` | the probe loops of `Insert` (224-278) |
| `Update`, `Delete`, `Get` | the probe loops of the others (405-453, 491-539, 577-624) |
| `Split` | `Segment::Split` (113-191) and its call (287) |
| `ReadDirectory`, `Suspend`, `Drain`, `DoubleDirectory`, `Publish` | doubling (289-311) |
| `LockDirectory`, `StoreEntry`, `UnlockDirectory`, `FinishSplit` | redirection (317-359) |
| `Walk`, `Capacity`, `Occupied` | `Capacity` (656-664), `Utilization` (627-651) |

A load of `dir` and of the cell it indexes is one step although it is two: the
cells of a directory that has been replaced never change again, so reading one
after the replacement is reading it just before.

Lines 203-204, 217-218 and 291-292 name `dir` twice, with nothing between the two
that would make a compiler load it again; `dir` is a plain pointer. GCC 12 with
the `-O3` of the Makefile loads it once in each of them and goes on in a register, and so do
`ReadTarget`, `CheckTarget` and `ReadDirectory`. A build that loaded it twice might use an
index of the old depth in the new directory, or suspend another directory than it has
compared with; this is not modelled.

What is abstracted:

* A segment is a set of pairs with at most `kNumSlot` members. Which reusable
  slot an insertion meets first is a choice. With distinct keys the order of
  the slots has no other effect.
* `Hash` is any function into `0..2^HashBits-1`; the code has 64 bits.
* `Pow2` is the constant function with `Pow2Assumption` (a recursive operator
  would put the module out of the proof system's reach).
* The null test of lines 206-209 never fires: the cells of a directory are
  filled before its address is published.
* Memory is not reused; the code frees neither segments nor directories while
  threads run. Loads and stores are sequentially consistent.
* The second probe under the macro `S_HASH` is left out. Neither the Makefile
  nor the scripts define it.
* Both variants of `INPLACE` are modelled. The Makefile builds without it.

Outside the model by assumption: a directory of depth 0 (the default
constructor builds one, nobody calls it) would shift a 64-bit word by 64; more
keys with one hash value than a segment has slots would split until the bits
run out.

Bounds, all of them in guards: `MaxSegs` (in `Split`), `MaxDirs` (in
`DoubleDirectory`), `HashBits` (in `Split`). The workloads are finite. Each
instance has more segments and directories than its calls can use, so no guard
ever holds a thread up; the runs that check deadlock would say so. `Terminated`
is the stutter after the last call, and lets deadlock stay checked.

### LinearProbing, LinearProbingScans and ScannedMap

| variable | code |
|---|---|
| `dict`, `capacity`, `mutex`, `size`, `resizing_lock` | the fields; `dict` and `mutex` as indices, array number *n* having the mutexes number *n* |
| `array` | the arrays allocated so far, each a function from slot numbers; `INVALID` is an empty slot |
| `writer`, `readers` | who holds a `shared_mutex` |
| `i`, `slot`, `lock`, `size_` | the local variables `i` (also that of `resize`), `slot` or `loc`, `lock`, `_size` |
| `from` | the value of `dict` when the thread got its lock |

| actions | lines |
|---|---|
| `AwaitResize`, `TestSize` | 82-88 |
| `PickSlot`, `LockSlot`, `Exhausted` | the search loops (90-92, 150-152, 181-183, 212-214) and their ends |
| `LookHit`, `GetHit`, `InsertMiss`, `LookMiss` | the comparison with the slot and the way to the next one |
| `Put`, `Count` | 96-102, 107-113 |
| `Update`, `Delete` | 155-162, 186-193 |
| `TryResize`, `EndResize` | 123, 128 |
| `LockAll`, `Allocate`, `CopySlot`, `SetMutex`, `SetCapacity`, `SetDict`, `UnlockAll` | `resize` (254-293), `getLocation` (229-251) |
| `Occupied`, `Table` | what `Utilization` counts; what a `Get` that runs alone would return |

`PickSlot` reads `capacity` and `mutex` in one step. `resize` stores `mutex`
first, so the combinations a thread can see by two loads (both old, new mutexes
with the old capacity, both new) are those it can see by one. `nlocks` is the
operator that the field is computed by: only the resizer reads the field.

What is abstracted:

* A slot is written in one step, key and value together, and compared in one.
* A deleted mutex goes on working: a thread that waits for a mutex of the old
  array gets it in the end. This is the kindest outcome of the undefined ones.
* The array beyond its end reads as anything, and a store there is lost.
* While a thread holds its lock, the build may keep `dict` in a register or load
  it again (`Kept`); `capacity` is loaded again. The spinning loops load again
  in every turn, as GCC 12 compiles them with `-O3`.
* `Hash` is any function to the naturals. `FindAnyway` only prints.
* The 16-byte and string variants of the key type differ in how keys are
  compared, not in control.

The calls of this table are not atomic on a map: a `Get` looks at one slot after
another, and may return what was true of its key at some moment of the call, not
of the table as a whole at one moment. `ScannedMap` says that, with `seen`, the
values the key of a thread's call has had since the call began.
`LinearProbingScans` adds `seen` as a history variable and maps its states to
`ScannedMap`; an insertion takes effect when its pair is in the slot and is
counted in `size` only afterwards.

Bounds: `MaxCapacity` and `MaxTables`, both in the guard of `Allocate`. Every
instance has room for more resizes than its calls can cause.

### CuckooPath, CuckooFilling, CuckooHash, CuckooHashScans and MovingMap

`CuckooPath` has the three functions as operators on a table that nobody else
works on: the walk from a slot to the other place of its key, and so on
(`Walk`); the part of it up to the first free slot (`find_path`); the table
after every key of a path has moved on (`execute_path`); and one pair put into a
new table (`insert4resize`). `IsPath` is what a path is for, and the reference
the first is checked against. `CuckooFilling` is the table that `resize` fills
(`filled`, of `size` slots): `FillInit`, `Fill` and `Remove`.

`CuckooHash` takes `find_path` and `execute_path` apart.

| variable | code |
|---|---|
| `table`, `capacity`, `mutex`, `old_tab`, `old_cap`, `resizing_lock` | the fields; tables and mutex arrays as indices, `old_tab` 0 before the first resize |
| `array` | the tables allocated so far; `INVALID` is an empty slot |
| `writer`, `readers` | who holds a `shared_mutex` |
| `exited` | the process has ended, by `exit(1)` or a division by zero |
| `places`, `n`, `lock`, `from` | `f_idx` and `s_idx`; which of them is looked at; the mutex; the value of `table` under it |
| `old` | what `Get` saw of `resizing_lock` (lines 585, 609) |
| `path1`, `path`, `hash` | `path1`, and `path2` or the one that is chosen; `f_hash` or `s_hash` in `find_path` |
| `i` | the loop counters |

| actions | lines |
|---|---|
| `AwaitResize`, `PickPlaces`, `BeginGet`, `PickPlace`, `DivideByZero` | the beginnings of the four operations |
| `Aim`, `LockPlace`, `LookHit`, `GetHit`, `LookOn`, `LookMiss`, `ReadNothing` | the mutex of a place, and what is in it |
| `Put`, `Update`, `Delete` | the stores under it |
| `TryCuckoo` | 131-133 |
| `BeginPath`, `TestKey`, `HashFirst`, `HashSecond`, `PushSlot` | `find_path` (372-408), a read of a key a step |
| `ChoosePath` | 187-197, 238-246 |
| `LockPath`, `PathLocked`, `CheckEntry`, `Checked` | `lock_path`, the comparison of the keys, the release of `resizing_lock` (199-227) |
| `MoveEntry`, `PutFirst` | `execute_path` (462-470) |
| `SaveCapacity` to `EndResize` | `resize` (640-692) |

What is abstracted: as for linear probing, a slot is written in one step, and a
deleted mutex goes on working. A slot beyond the end of a table reads as
anything. `Garbage` is what `old_cap` may hold before the first resize, as no
constructor sets it; `old_tab` is 0 then, where the code has an arbitrary
address. `Grown` is `capacity * kResizingFactor` as a function; `MCGrown` rounds
it down as the code does. The bounds are in the guard of `Grow` (`MaxCapacity`
and `MaxTables`); a resize that comes to them stops the instance (`AtBound`), as
several may follow one another when a key has two equal hash values.

A `Get` may miss a key that is moved from its second place to its first while
it looks, and so may `Update` and `Delete`. `MovingMap` says what remains:
nothing that is inserted is lost; what reports to have found, changed or
deleted a pair did so; a miss is excused only by a move of that key during the
call, or by a `Get` that began while another thread held `resizing_lock` (which
looks into the old table): run `cuckoo_displacing`. Where nothing is moved
meanwhile this is `HashTable`.

Two things are coarser than the code, both about calls that a resize overlaps:

* `Reinsert`, one call of `insert4resize` (252-325), is one step. An insertion that waited
  for a mutex of before the last resize may store to the new table in its midst.
* `LookHit` and `Put` use the table that was read when the place was looked at. Lines
  98-100 may load `table` again for the store, as `Kept` of `LinearProbing` has it for `dict`.

Nothing is claimed of such calls: `SlotsGuarded` says `mutex = 1`, and the properties
of pairs are checked, and proved, until the first resize or where no two calls overlap.

### Benchmark

Every driver is a list of phases (`Phases`), a phase the calls each thread makes
(`todo`), an action `Call` the atomic call of `HashTable` with what the driver
makes of the answer, `StartPhase` the moment at which `main` has joined all
threads (`hashtable_test.cpp` 94, `config.h` 163-165). `mode` is the driver, `num`
the length of its input, `missed` the calls that `Wrong` finds fault with: a
failed search of `hashtable_test.cpp` (76-85), a failed assertion of
`microbench` (`benchmark.hpp` 203-227), after which the process ends, and the
"not found" of `ycsb_exec` (454).

| definition | code |
|---|---|
| `ChunkAndRest` | `hashtable_test.cpp` 87-101 |
| `Chunk` | `latency` 62-81, `ycsb_exec` 372-398 and 441-461 |
| `Warmup`, `Turns`, `Draws`, `MixedJob` | `mixed` 110-152: `Draws` for `rand()` |
| `CallAt`, `TxnFiles` | `ycsb_load` 318-361 and `ycsb_exec` 441-461: what a file may hold |
| `Phases` | also `utilization` 39-47, a new table for each size, and `microbench` 182-228 |

The 1000, 100, 30 and 20 of the code are the constants `Batch` and `Step`, `NumIter`,
`UpdatePart` and `DeletePart`. Position *i* holds key *i*: the shuffle of the input
only renames positions. String keys are drawn at random (`pair.h` 48-55); they are
taken to come out different. Measuring, and reading the workload from files, is
left out.

### PcmInstances

| variable | code |
|---|---|
| `lock` | `PCM_INSTANCE_LOCK_SEMAPHORE_NAME`, as who has taken it |
| `count` | the value of `PCM_NUM_INSTANCES_SEMAPHORE_NAME` |
| `pmu` | the cores whose event select registers are not zero |
| `handles`, `canUsePerf` | perf events that are open; whether Linux perf is used |
| `option` | `--multiple-instances`, `-reset`; whether the program installs handlers |
| `proc[p].mutex` | `processIntanceMutex`, the lock of those that do not allow other instances |
| `proc[p].sem`, `programmed` | `numInstancesSemaphore # NULL`, `programmed_pmu` |

| actions | lines |
|---|---|
| `GetInstance`, `Constructed` | `cpucounters.cpp` 240-249, 1381-1474 |
| `Prepare` | `pcm.cpp` 1218-1229 |
| `LockToProgram`, `Join`, `RefusePerf`, `BeFirst` | `program()`, `cpucounters.cpp` 1612-1753 |
| `CheckCore`, `ProgramCore`, `PerfFails` | 2378-2425, 1863-2040, a core a step |
| `Cleanup`, `CleanupPMU`, `FreeRMID` | 2594-2606, 2668-2744, 2475-2506, 2542-2574 |
| `Exit`, `Signal`, `Kill` | `utils.cpp` 33-51, 149-161; a signal that is not handled |

A process has one thread. A signal handler runs in place of what it interrupts and
ends in `_exit`, so it is a jump that keeps the lock and the mutex as they are.
`Kill` is possible in every state. `Prepare` is one step, although `-reset` zeroes the
registers core by core before `allowMultipleInstances` is called; what a resetter does to
those that measure is excluded from the properties (`Meddled`). The benchmark driver is an `option` without
handlers, for which `Exit` cleans nothing up (`bench/benchmark.h` 25-36).

Left out: what the registers count; the uncore; that `MSR` may be empty, which
refuses everybody; `isBlocked()`, under which a signal only returns; custom
events, which switch `allow_multiple_instances` off again (no tool combines
them); `EACCES` on a semaphore, which is retried every second. `freeRMID` takes
away the RMIDs of every instance on the machine, whoever calls it (2548-2570); RMIDs
are not modelled, and no property is about them.

### PcmDaemon

A counter is represented by the number of the collection (`polls`) it was read in,
a published difference by the two it is taken between (`Span`). `segments` are
all that were ever created, `key` is the one `shmget` finds.

| actions | lines of `daemon/daemon/daemon.cpp` |
|---|---|
| `Attach`, `Clear`, `UpdateBefore` | `setupSharedMemory` 317-354, the constructor 35-58 |
| `Stamp`, `Update`, `GetCore`, `GetMemory`, `GetQPI`, `Swap` | `getPCMCounters` 369-400 and what it calls |
| `Stop`, `Crash` | `cleanup` 669-689; a signal that is not handled |
| `Start`, `Notice`, `Take`, `Printed` | `daemon/client/client.cpp` 32-40, 47-84; `client/main.cpp` 35-356 |

A client prints from the segment itself: between `Take` and `Printed` the daemon may
store what it likes. It prints five metrics (`Metrics`): the core counters, the bandwidth of
the memory (`memory`) and its `energy`, `outgoing` and `incoming` traffic. `Available` are
those that the machine can measure; a subscription is to `core`, `memory` or `qpi`. `elapsed`
is the time that the bandwidth was divided by.

* `GetMemory` stores the bandwidth. The energy, and the flag that tells whether there is any, are
  stored to a copy of this part of the segment (526-532).
* `GetQPI` stores the outgoing traffic. Incoming traffic, where it is available, is stored to
  the same fields first (624-632) and overwritten: every model of processor with counters
  for incoming traffic has those for outgoing (`cpucounters.h` 1055-1075). Nothing is
  stored to the links and the total of the incoming.

So `NothingOlderIsPrinted` is about what is published, which excepts these two
(`NeverStored`): a client prints them from what `memset` left in the segment,
however many collections are made. Without the exception TLC finds the property
violated by either, for a subscription to memory or to QPI counters alone.

The stores of one collection to one metric are one step; a client may meet them half done,
which is again two collections mixed. That it may, between the two stores to the
links of the outgoing, print incoming traffic for outgoing is left out.
`collectionTimeBefore_` is set by nobody before the first collection (`Unset`).

## The runs

| run | module, constants | shows |
|---|---|---|
| `directory` | `Directory`, 3 threads | `sema` counts what it should, a suspender is alone, it does get there, `Gate` is implemented |
| `cascade` | 3 threads, 3 hash bits, one slot a segment, no `INPLACE` | two doublings on one side of the directory, two splits with up to two cells a side on the other, lookups, an update and a deletion between: all invariants of locks, counter and directory; the table refines `HashTable`; with fair threads every call returns |
| `cascade_inplace` | the same with `INPLACE` | the re-check of lines 217-222 is needed and enough; segments come unlocked; insertions overwrite what splits left; refinement; every call returns |
| `probing` | 3 threads, 4 slots, 2 stripes, no resize; or 1 thread, 4 slots doubled to 8 and 16 | insertions that cross from the last stripe to the first beside an update, a deletion and lookups: mutual exclusion at a slot; an update, a deletion or a failing lookup before, between and after two resizes: no pair is lost or doubled; `ScannedMap` is implemented |
| `racing` | 3 threads, 2 slots, one per stripe | insertions, lookups, updates and deletions beside a resize, and beside a second one decided on the old size: mutual exclusion before the first resize; `size` never too small; no pair doubled; every call returns |
| `loading` | 2 threads that insert | a violation: an inserted key is not found |
| `cuckoo_filling` | 5 slots, 9 keys | every table that insertions and deletions lead to: paths are paths, nothing is lost, a table is given up only when the keys fit in no arrangement, or when a walk is cut off; the threshold is 4, less than the table has slots, as it is in the code |
| `cuckoo_displacing` | 3 threads, 8 slots, 4 stripes | two searches for a path, one beside the other's displacement, through common slots; or an update, a deletion and lookups of the keys of a path while they are moved: exclusion, nothing lost or doubled, `MovingMap` implemented |
| `cuckoo_growing` | 1 thread, 5 slots growing to 8; or 3 threads, fair, 5 slots growing to 6 | resizes, one of them by way of a table that turns out too small: no pair lost or out of place; two displacements, or a displacement and a resize, at a time: every call returns, unless the process ends |
| `benchmark` | inputs of 1, 4, 5, 8, 9 pairs, up to 3 threads, batches of 2 | all seven drivers: nobody reads beyond the input or at another thread's positions, no key is inserted twice, where the sizes fit; no answer is wrong but those about the rest of a division and about keys another thread inserts |
| `pcm_instances` | 3 processes, 2 cores, with and without perf, 3 machines | the registers stay while somebody measures, and are given back; one client at a time with perf; every process gets on |
| `pcm_daemon` | 2 clients, 4 collections, 2 segments, both modes | what is published is printed as two collections mixed at worst; differences and their times belong together |

Why the bounds are enough to be interesting: three threads are a suspender, a
redirector and a bystander; three hash bits allow a depth two above a local
depth, the least at which a redirection has several cells a side and the
alignment of line 345 matters; two directories may be replaced, so a thread may
hold an address that is two directories old. One slot a segment makes nearly
every insertion split. Two are needed for slots to be shared by keys of
different prefixes.

Each property of a passing run has a mutant, a small bug in one definition
(`X_Something` next to `X` in the modules), that makes the run fail.

In the linear probing table two slots are the least that can be full beside a
waiting thread; three threads are a resizer, one that comes late to
`resizing_lock` or to a mutex, and a bystander; three arrays allow a resize that
was decided on the array before the last. Keys are their own hash values, some
congruent modulo every capacity, one at the last slot.

In `Benchmark` 9 pairs in batches of 2 leave rests, and fit, for each number of
threads; the transaction files read a key that is loaded last, one that another
thread inserts, and one that is inserted by the transactions left over. In
`PcmInstances` three processes are one that measures, one that comes or goes
meanwhile and one that was killed; two cores can be half programmed. The machines
are three instances that allow others; two of them beside one that does not; and
one beside a `-reset` and a benchmark driver. In `PcmDaemon` four collections
suffice for a client that is two behind and for three in a row; two segments for a
daemon that is stopped and one that starts anew. `MaxPolls` and `MaxSegments` are
its bounds, in the guards of `Stamp` and `Attach`. Deadlock is not checked in
these three: a driver, and every process, may have ended, and a client of a segment
without a daemon waits.

### The findings

`loading` is checked as a run; the others were met while modelling and are why
properties say what they say.

**Splits inside splits** (extendible table). `lock()` admits any number of redirecting threads, on the understanding that
they work on different segments. That is not so when the depth is at least two
above the local depth. Thread A splits a segment with four cells and stores
`s[1]` to the third. Before it stores the fourth, B inserts through the third
cell into `s[1]`, fills it, splits it, takes the directory lock too, and stores
its own right half to the fourth cell. A then stores `s[1]` there.

* Without `INPLACE`, `s[1]` is by now B's old segment, left locked for ever
  (line 281 promises to release a lock before splitting; the code relies on
  every cell being redirected). All calls with a key of that cell spin for
  ever.
* With `INPLACE`, keys of that cell are routed back to `s[1]`, whose
  `local_depth` is one higher. Its probe loops take their pairs for left-overs
  of the split and overwrite them. All calls return, and the search phase of
  `test/hashtable_test.cpp` counts a failed search at line 80.

It needs a segment to fill while a store loop runs, so a bigger `kNumSlot` makes
it unlikely but not impossible. The passing runs therefore use calls in which no
other thread fills a new half of a split with a gap of two or more while it is
being stored; `RoutesOnlyDeepen`, `ReachableIsUnlockedLater` and
`ImplementsMap` hold for these only.

**A lock that is picked too early** (linear probing table). `Insert` computes
its slot from `capacity` and the address of its mutex from `mutex` (lines 91-92),
waits for the mutex, and checks neither again. If `resize` runs meanwhile, the
thread goes on with the old slot number in the new array, under a mutex that
nobody else will ever take. Another insertion picks the same slot under the new
mutex; both find it empty, and the second store overwrites the first pair. Both
calls return, and one key is lost: in run `loading` the search phase of
`test/hashtable_test.cpp` counts it at line 80. `Get`, `Update` and `Delete` are
exposed in the same way. So `ImplementsScans` is checked where no resize runs
beside another call, and `GuardedUntilResized` says `mutex = 1`.

**The same in the cuckoo table.** `Insert` takes its places from `capacity`
and its mutex from `mutex` before it has the lock: the same story, for two
places. `SlotsGuarded` therefore says `mutex = 1`.

**A search beside a displacement** (cuckoo table). `Insert` gives
`resizing_lock` back when the mutexes of its path are locked and its keys are
checked (line 227), and then moves the keys. The next search may meet a slot in
between two of its reads of the key: `f_idx` is computed from one key, `s_idx`
from another, and when neither is the slot, the process ends (line 395). Nothing
is wrong with the table; the comment there says "something terribly wrong".

**A deletion beside a search** (cuckoo table). `find_path` stores the key of a slot
when it pushes the slot (lines 369-389) and reads it anew when it comes to test
it. A slot that it stores as free may be filled by another thread's displacement, be
followed to the other place of its new key, and be emptied by a `Delete`; the path
may even meet it again, free. Every check of lines 210-226 compares with what was
stored, and passes; `execute_path` then moves a key along a step that was another
key's, into a slot that is neither of its places. No call finds it again. TLC
finds this with five slots, three threads and six insertions beside one deletion:
`MovedPathIsPath` and `PairsInPlace` are no invariants of the code, even before the
first resize. The instances of the runs are smaller than that. What does hold for
every instance is proved: `FreshPathIsPath`, `FreshPairsInPlace` and `FreshKeysOnce`
exclude a `Delete` that takes effect while another thread holds `resizing_lock`
(`DeletesApart`). `mixed()` draws a batch for each thread (`benchmark.hpp` 129-151), so one
thread may insert while another deletes: the condition does not hold of this driver,
and it may meet the failure. The other drivers and the tests delete nothing beside insertions.

**A lookup beside a displacement** (cuckoo table). For `Get`, `resizing_lock`
means that the pairs are in the old table. An insertion that looks for a path
sets it too. Before the first resize there is no old table, and its capacity is
whatever the memory held; afterwards it is a stale one. A thread need not find what
it has inserted itself.

**Drivers.** Unless 1000 divides the chunk, the last batch of `mixed` enters the
next thread's chunk and, where it inserts, inserts the pairs that thread inserts
too; the last thread's goes past the end of the array. With the 50 million pairs of
`run.sh` that is so for 16 and for 32 threads. `utilization` needs 100000 pairs
whatever it is given. `Fits` says where the sizes fit. In `latency`, `mixed` and YCSB
the pairs that the division leaves over are never inserted, and YCSB prints "not
found" for them; for a key that the transactions of another thread insert, too.
With `-DDEBUG`, which the Makefile sets, `clear_cache` does nothing; the build for
micro benchmarks accepts 0 threads and divides by it.

**Instances of the counter monitor.** What the properties of `PcmInstances` leave
out, the code does:

* a process that is interrupted between `allowMultipleInstances` and `program`
  has no semaphore yet, takes itself for the last instance (2677) and zeroes the
  registers of those that measure;
* one that allows no others checks and programs the registers under a mutex of its
  own process, so two may find them free; `-reset` zeroes them under everybody;
* one that `program` refused has been counted out there, and is counted out
  again on its way out: a second client of perf may be let in beside the first;
* a signal that arrives while its process holds the lock makes it wait for itself,
  and a kill leaves the lock taken, for good; a kill also leaves the count too high,
  so that nobody is ever the last, and the next one measures what nobody may
  have programmed;
* a benchmark driver with `--pcm` installs no handlers and never calls `cleanup`:
  without perf the registers stay programmed, and the next run of it ends with
  "Error opening PCM" and status 0.

**Daemon.** The first difference of a daemon divides by a time that was never set
(`collectionTimeBefore_`), and takes the uncore's counters against those of a state
that was never read. In mode `absolute` the states are not swapped, but their times
are. `getPCMMemory` stores the energy of the memory to a copy (526), and
`getPCMQPI` the incoming traffic as outgoing (624): a client prints both ("Mem Energy p/Sock", "QPI in. Total",
`client/main.cpp` 268-275, 293-299, 307-321, 349), from what `memset` left in the segment. A client of a segment that its
daemon has removed waits for ever for a stamp.

### Fairness

`FairSpec` of `ExtendibleHash` is weak fairness of each thread: the operating
system schedules every worker again and again. No lock is assumed fair.
`EveryCallReturns` holds nevertheless: a `try_lock` that fails sends its thread
round the loop, and the work lists are finite, so that those who win run out.
`FairSpec` of `LinearProbing` is the same: weak fairness of each thread. A thread
that waits for a mutex may be overtaken again and again, but only by calls, and
these run out; `TestSize` sends insertions to `resize` before the array is so
full that they would search for ever.
`FairSpec` of `CuckooHash` too: a search that finds its path changed starts again,
and each time another call has made progress.
`FairSpec` of `Directory` asks the same of a thread inside a call, and that who
locked the directory will unlock it (lines 336 and 354 follow the stores without
a branch); calls as such are not forced. `SuspendEnds` starts at the successful
compare-and-swap: before it, threads that lock and unlock without end could make
`suspend` retry for ever.
`FairSpec` of `PcmInstances` is weak fairness of each process inside `program`, on
its way out of a refusal and in `cleanup`. Nobody is forced to start or to end a
measurement, and no signal or kill is forced. A process that waits for the
semaphore may be overtaken only by processes that each take it twice.
`Benchmark` and `PcmDaemon` state safety only.

## What is proved

`Directory_proofs`, for any finite set of threads: `SemaCounts` and `Alone` are
invariants, and `Spec => ImplementsGate`. `TypeOK`, `SemaCounts` and `Alone`
together are inductive. The argument: `sema` is negative exactly while some
thread has closed the directory, so a compare-and-swap from a value that is not
negative finds it open, and the count of the threads inside is right; a closer
that found `val` threads inside sees `-val-1` only when all have left.

`ExtendibleHash_proofs`, for any finite set of threads, any keys, workloads,
hash function, hash width, segment size and bounds, with and without `INPLACE`:
`TypeOK`, `SemaCountsHolders`, `HeldDirectoryIsCurrent`, `DoublingIsAlone`,
`StoresInBounds` are invariants and `PublishOnlyDeepens` holds of every step.
The assumptions are `Pow2Assumption`, `ConstantAssumption` and
`WorkloadAssumption`. The inductive invariant `IInv` has eight parts; the
properties need one another's strengthenings:

* `Allocated`: an index into the directory array stays inside the array and finds
  a segment. Without it no type can be shown.
* `Locked`: who splits a segment holds its lock exclusively, so the segment's
  local depth is nobody else's to change.
* `Depths`: a segment is no deeper than the directories that lead to it; it is
  less deep than the current one when a thread goes on to redirect cells, and as
  deep when it goes on to double. The comparison of line 291 is made before
  `lock` or `suspend`, and this says why it is still good afterwards.
* `Counted`: `sema` of the current directory against the threads that store,
  and that a directory which has been replaced is negative for good, so that a
  thread which comes back to it with an old address is turned away.
* `HeldDirectoryIsCurrent` follows along with `Counted`: to publish a directory a
  thread must have drained the old one.
* `Pending`: the cells a thread has still to store, in bounds and with the
  halves of its own split. That they are in bounds is arithmetic
  (`CellsBound`): `x - x % 2^n` plus less than `2^n` stays below a multiple of
  `2^n`.
* `Copied`: the unpublished directory is the copy of what the current one is now,
  not of what it was.

The arithmetic is in front. `Pow2` is known by its first value
and its step; that exponents add up would be an induction, and is proved from a
smallest counterexample instead, which the library's theorem that strict
inclusion of finite sets is well founded provides (`Smallest`).

Then, in the same module and under the same assumptions on the constants,
`LockedTargetIsCurrent`, `ReachableIsUnlockedLater`, `RoutesOnlyDeepen` and
`ImplementsMap` hold of every behaviour in which the splits stay apart
(`[]SplitsApart`). `SplitsApart` says that no thread redirects cells to a
segment whose own cells another thread is redirecting. The finding "Splits
inside splits" breaks exactly this, and with it all four, so none of them is a
theorem without it. `OneInserterTableIsAMap` shows that the condition is met
when one thread inserts beside any number that update, delete and look up; then
the four hold without a condition on behaviours. TLC finds `SplitsApart` to be an
invariant of both `cascade` instances, where two threads insert. The invariant
`MInv` is about where each key will be led once the stores under way are done
(`Heads`: `Half(t, k)` while thread `t` has still to redirect the cell of `k`, the
directory's answer otherwise):

* `Redirecting`: a cell that is still to be redirected leads to the segment that
  is split, and will lead each of its keys to that key's half. That `CellsOf`
  computes the cells of exactly those keys is arithmetic (`CellsOfKeys`).
* `Blocks`: a destination has all the keys of one prefix, as long as the depth the
  segment will have when its split is done (`DepthToBe`, for `INPLACE` raises it
  last), or none. An insertion may take for a left-over only what is not of its
  segment's prefix, so it destroys no pair that somebody will look for there.
* `Unborn`: what a split has allocated nobody else knows before it is in the
  directory. `Halves`: it is two segments.
* `Current`, `Locking`, `Reading`: the segment a thread has checked stays its key's;
  a locked segment is worked on, or nobody is led to it (`Orphaned`), and it has
  no readers. `Abandoned`: without `INPLACE` no key stays with what was split.
* `AsDeep`: the segment of a thread about to publish is as deep as the directory.
* `Copies`: until a key has been redirected, its segment and its half of it hold the
  same pairs of it. This is why a `Get` may be served by either.
* `Single`, `Absent`: a key has one pair at most, and none before its insertion,
  which relies on keys being inserted once (`FreshInserts`).

Each of the calls is then one action of `HashTable` (`MapStep`), at `Put`, `Update`,
`Delete` and `Get`, and every other step a stutter (`PairsStep`).

`WalkCountsOnce` holds under the same condition, and without it for one thread that
inserts. `MInv` cannot show it, for it is about the cells that some key leads to, and
`Capacity()` and `Utilization()` walk over all of them. The invariant `CInv` says of
every cell where it will lead (`Leads`):

* `CellBlocks`: a segment has one aligned block of cells, `2^(depth - DepthToBe)` of
  them, or none. A new directory doubles each block; a redirection makes two of one, and
  does so at once, since `Leads` counts what is still to be stored.
* `StoresApart`: a cell is stored to by one thread, once. `FreshCells`: what a split
  has allocated has no cell before its redirections are computed. That these
  are the cells of the right half (`INPLACE`) or of all the segment, each once, is
  arithmetic (`CellsOfTarget`).
* `SlotsFinite`: the pairs of a segment are finite in number, so they can be counted.

While nobody splits, the depths are the final ones, so the step of the walk is the length of the block
it is in, and it meets the first cell of every block and no other (`WalkMeets`). What
the recursive function of the walk computes is shown by a smallest
counterexample, counted from the end of the directory (`WalkLemma`). A segment has
one first cell, and a key is met in the one whose block it is routed to, hence both equalities are
bijections (`CapacityCounts`, `OccupiedCounts`). TLC found `CInv` an invariant of both
`cascade` instances before it was proved.

`LinearProbing_proofs`, for any set of threads, keys, hash function, stripe size,
threshold and bounds: `TypeOK` and `GuardedUntilResized` are invariants. The
assumptions are `ProbingAssumption` and `WorkloadAssumption`. `IInv` has seven
parts:

* `Striped`: while the first mutexes are in place a thread's lock is the stripe of
  its slot, and its slot is that of its key and `i`. `InsertMiss` goes on to
  another slot under the same lock, so this is arithmetic (`SameStripe`): a next
  slot that is no multiple of `locksize` is neither the first of the array nor of
  a stripe. It fails once `capacity` changes under a thread at work, and that is
  the finding of run `loading`.
* `Held`, `Exclusion`: a thread at a slot has its lock in the mode its operation
  asked for, and the modes exclude each other.
* `AllHeld`: how many mutexes `resize` has, and that while it copies it has all.
  There are `capacity / locksize + 1` of them, and the stripe of every slot is
  among them (`Stripe`).
* `ResizeIsAlone`: `resizing_lock` admits one thread, so what it has computed from
  `capacity` and the arrays is still so at its next step.
* `Sized`: `dict` has `capacity` slots, except between the stores of lines 283 and
  284, and the array to come has the slots it will need. `CopySlot` reads only
  slots that exist because of this, which `Typed` needs to know what it copies.

The same module has `CountedOnce` and `SizeBoundsPairs`, whatever becomes of the
mutexes: a slot is written by one step, so the race of run `loading` loses pairs
but doubles none. `KeysInv` says that no array has a key twice (`Once`); that what
`resize` has still to copy is not in the new array yet (`CopiedOnce`), and that
nobody works on that array before it is `dict` (`Newest`). It needs a history that
the code does not keep, the set of the keys inserted so far, which the invariant
quantifies (`Entered`): it grows by a key with every pair stored, is as large as `size`
and the insertions about to count together, contains every key in every array,
and no key of an insertion to come.

And it has the refinement, `ImplementsScans`, as long as the first mutexes stay.
`ScanInv` says of each thread:

* `Aimed`: an insertion that is about to write has found its slot free, the others have
  found their key. It stays so, since the mutex guards the slot (`Guarded`).
* `Recalled`: `seen` has what the table has for the key of a call under way. It is the
  answer that a call gives at once.
* `Passed`: a search has passed only slots without its key, unless `seen` has `NONE`. A slot
  that did not have the key gets it by an insertion only (`SeenAway`), before which
  the key was missing. So a call that has gone all the way round and found nothing (it
  has met every slot, `Reached`) answers what was true during the call, though the key may
  be there by now, in a slot it has passed.

Each step is then a step of `ScannedMap`, at `Put`, `Update`, `Delete`, `GetHit` and
`Exhausted`, or none (`StepMapped`). The condition `mutex = 1` is about behaviours;
`RoomyTableIsAMap` needs none, for a table that is made with room for all keys
(`Roomy`), since the size that `Insert` tests is that of the keys inserted (`Entered`).

`CuckooFilling_proofs` begins with the operators, for any keys, hash functions, threshold
and table: a walk that revisits no free slot before its end visits no slot twice
(`WalkLemma`: the other place of the other place of a key is the slot it came from, so
a walk that came back would have come from its own beginning), hence what `find_path`
returns is a path (`PathLemma`); executing a path keeps every key in one of its
places, loses none and adds one (`ExecuteLemma`); so does `insert4resize`
(`InsertLemma`). Inductions over the path are by smallest counterexample
(`LeastNumber`). They are then invariants of a table that is
filled and emptied: `EachInItsPlace`, `FoundPathIsPath`, and `AddsOrRemovesOne` of
every step. The assumption is `PathAssumption`, with `FillingAssumption`.

`GivenUpWhenFullOrCutOff` is the converse: a table is given up only when no arrangement of its
keys has room for one more, or when a walk is cut off by the threshold (`CutOff`), having met
`kCuckooThreshold` different slots, all taken. It has no hypothesis on the threshold: in the code
this is 512, and every table has more slots. A walk of more steps than the table has slots
comes back to one of them (the pigeonhole principle, `Periodic`), so the slots it has
visited are all taken, and each of their keys has both its places among them (`Stuck`).
With the visited slots of the walks from both places of the new key that is one key too many
for these slots, wherever they are put (`Arranged`, `FullLemma`). A walk that is given up for its length without being `CutOff` has met
a slot twice before the threshold, and comes round within it (`ComesRound`, `NoEnds`), so the
argument is the same as for one that was followed to its end.

`CuckooHash_proofs`, for any set of threads, keys, hash functions, growth, stripe
size, threshold and bounds (`CuckooAssumption`, `PathAssumption`,
`WorkloadAssumption`): `TypeOK`, `OneHolder` and `SlotsGuarded` are invariants.
`IInv` has eight parts:

* `Striped`, `Held`, `Exclusion`: as for linear probing, with two places.
* `PathHeld`: from the moment all mutexes of a path are locked until its keys are
  moved, each slot of it has its mutex held, through a failed check as well as
  a good one. The set of mutexes is computed from `mutex` again at each of them,
  so this holds for the first mutexes only.
* `AllHeld`: how many mutexes `resize` has, and that it keeps all of them through
  every table it tries.
* `OneHolder`: `resizing_lock` against the sixteen steps it covers.
* `Sized`: `table` has `capacity` slots, but for the time between line 658 and the
  allocation; `old_tab` has `old_cap`. `Reinsert` needs it to know what it reads, and
  for `insert4resize` to return a table of the same slots (`InsertType`).

The same module has `MovedPathIsPath`, `PairsInPlace` and `MovedOrOnce` until the first
resize begins to fill a table (`Fresh`), of behaviours in which no `Delete` takes effect
while another thread searches for a path or resizes (`[][DeletesApart]_vars`). The finding
"A deletion beside a search" is why none of them is a theorem without the second
condition, the finding "The same in the cuckoo table" why not without the first.
`WithoutDeletes` shows that workloads without a `Delete` meet the second. On top of `IInv`:

* `Stale`: an entry of a path that is out of date at a slot which is taken, and to which
  no path under way will bring another key. It stays so, because only one thread at a
  time searches, and those that still move paths hold the mutexes of them (`SlotsGuarded`).
  So one of the checks of lines 210-226 will fail, whatever the rest of the path is.
* `Searching`: every entry of a path that is searched is out of date in this sense, or
  leads to the next one; the last is right or out of date. `find_path` reads a key three
  times for one entry, so this is shown read by read (`Begun`, `Seen`, `Linked`).
* `OnItsWay`: a path that is moved visits no slot twice, and every key up to the one
  that is being copied is still where it was. All entries passed the checks, so each
  leads to the next; two visits to a slot would go on alike, up to the end of the
  path, which is free and no slot before it is.
* `Aimed`: a thread has the places of its key, and what an insertion has found free is
  free. `Unused`: no key to come is in the table. `KeysOnce` is `MovedOrOnce`.

TLC found this an invariant of an instance with three threads (487904 states) before it
was proved.

Under the same two conditions the table is the promised map, `MovingMap`
(`ImplementsMoving`, with the history `seen` of `CuckooHashScans`). `FirstTableSteps` says
it of each step that ends before the first resize, `FirstTableIsAMap` of behaviours
without a resize (`[]Fresh`), `UndeletedTableIsAMap` of those whose workloads have
no `Delete`. On top of the above, `RInv`:

* `Twins`: while a key is in two slots they hold one pair, so it does not matter which of
  them `Table` looks at (`TableNow`), and an `Update` of the one would be lost in the other.
  That there is none is `Sole`: who moves the key has the mutexes of both.
* `Recalled`: what the table has for the key of a call is among what the call has seen.
* `Probed`: a call that has gone on to the second place has seen its key missing, or moved,
  or the key is not in the first place. A key gets into a place by `Put` and `PutFirst`, before
  which it was missing (`Unused`), or by `MoveEntry`, which the history records
  (`SeenAway`). This is where the promise has to allow for moved keys.

`TableStep` says which steps change the map, and how: `MoveEntry`, which overwrites a slot,
does not, since the key it overwrites is in the next slot of the path by then (`AtEntry`).
`StepPromised` then takes the steps one by one. TLC found `RInv` an invariant of the
instance of run `cuckoo_displacing` (440775 states) before it was proved.

After the first resize the same three hold where no two calls overlap (`OneAtATimeKeeps`),
and so does `ResizedHoldsAll` (`OneAtATimeResizesAll`), through any number of resizes and
deletions. The finding "The same in the cuckoo table" is why calls may not overlap there. The
condition, `[]OneAtATime`, lets any number of threads take turns; `OneCallerIsRight` has none
on behaviours, for workloads of which only one thread has calls. The invariant `SInv` says

* `Counts`: there is one table `d` that counts, the one in use, except that it is the old one
  while a new one is filled, and the one before the first move while keys are moved. Every
  key in it is in one of its places, once, and no key to come is in it.
* `Knows`: what the thread at work has found in `d`. A search has come along the walk of
  `CuckooPath` (`Came`), so the reads of `find_path`, taken one by one, return the path that
  the operator returns, and `PathLemma` says that it is one (`Leading`). Keys that have been moved are
  in the next slot of the path, all others where they were (`Moving`), so that the last
  store makes the table that `ExecuteLemma` speaks of. A table being filled has the pairs of the slots
  that have been copied (`Refilled`), by `InsertLemma`; when a table turns out too small, the
  next begins with the first slot of `d` again, which is unchanged.

TLC found `SInv` an invariant of the one-thread instance of run `cuckoo_growing`
(2060 states) before it was proved.

`PcmInstances_proofs`, for any set of processes, finite or not, any number of cores and
any command lines (`InstancesAssumption`): `PmuLastsWhileMeasured`, `OnePerfClient` and
`PmuIsGivenBack`. They share `IInv`: what a process knows at each point (`Knows`), that one
that allows others works only while it holds the lock (`Locking`), and that `count` is
never above the number of those that believe to be counted, which is finite, and is 1
while the first of them checks and programs (`Counting`). None of the three follows
from it; each has an invariant of its own on top:

* `GivenBackInv` gives a reason why a set register will be cleared: somebody is counted,
  and so will be the last; or one that does not allow others has programmed it; or
  the one that clears has not come to this core. A step takes a reason away only when it
  gives another. It holds until a process is killed or exits without handlers.
* `PerfInv`: `count` is the size of the set of those counted in and not refused, which
  has one element at most. A refused process that is counted out again ends it.
* `LastInv` says what the registers are by the point its holder has come to when the lock
  is held, and that all are set or none is, as anybody is counted or nobody, when it is
  free. It survives a holder that is killed or waits for itself, since nobody
  enters any more then. It needs that `count` is exact, which it is while nobody meddles.

`PcmDaemon_proofs`, for any set of clients and any bounds (`DaemonAssumption`):
`NothingOlderIsPrinted` and `SpansAreTheLastInterval`, with daemons that stop or are
killed between any two stores. Both are about what is published: the energy of the memory and
incoming traffic are excepted, which are printed without ever having been stored. Neither property is inductive. `IInv` says

* `NoneLater`: nothing published, and no stamp noticed, is of a later collection than the
  latest. What a daemon finds in the segment of another is then not later than its own
  first collection, which is why both properties begin with the second.
* `UpToDate`: of which collection each part of the daemon's segment is, by how far the
  daemon has come with storing them (`Latest`).
* `Measured`: since when the states, the uncore states and the time have been
  measured, which three different places of the code swap (`Since`).

The rest follows from there: a client's stamp is at most the latest (`PrintedIsRecent`),
and a difference is published right after it has been measured (`IntervalsStep`).

`Benchmark_proofs`, for any inputs, thread counts, batches, draws and transaction files
(`BenchmarkAssumption`, `WorkloadAssumption`): `ThreadsShareNothing` and
`OnlyTheRestIsMissed`, for all seven drivers. What a phase gives its threads to do is
computed first (`Facts`, shown for every phase of every driver by `PhaseFacts`):

* The chunks of the division are disjoint and leave `total % threads` (`ChunkOf`,
  `ChunksShape`, `AllShape`).
* In `mixed()` the offset of a call counts the batches of its kind drawn before it.
  These are fewer than all, so a thread that makes whole batches (`Fits`) stays inside its
  chunk, insertions in the upper half of the input, the others in the lower
  (`OffsetFacts`, `MixedShape`, with Euclidean division in `Euclid` and `WholeTurns`).
* A transaction file inserts a key once, so no two threads insert one (`TxnShape`).

The invariant `Underway` says that there is such a list of jobs, and for every thread how far
it has come, so that `todo` is the rest of it (`Left`), the table has no pairs but
those loaded and those inserted so far (`Only`), and it has all that will be looked for
(`Kept`). Neither property is inductive alone: that `table` has `NONE` for a key to be
inserted follows from `Only`, that a search does not fail from `Kept`. That a wrong answer of
`ycsb` is about another thread's insertion takes the earliest transaction of the key, which must
be an insertion (`AnswerStep`). TLC found `Underway` an invariant of
the instance of run `benchmark` (6883 states) before it was proved.

Only model-checked, on the instances above:

* `ImplementsScans` after a resize: the instances have one thread there; beside other
  calls it does not hold, for the reason run `loading` shows.
* `ImplementsMoving` after the first resize: beside other calls it does not hold then,
  for the reason run `loading` shows.
* `MovedPathIsPath`, `PairsInPlace`, `MovedOrOnce` and `ResizedHoldsAll` after the first resize
  where calls overlap: it depends on who waits for a mutex during a resize, as above.
* `EveryCallReturns`, `SuspendEnds`, `EveryInstanceGetsOn`: liveness is out of the proof system's reach.

## What is not modelled, and why

* Printing (`FindAnyway`, reports), timers, pinning: no effect on the tables.
* The key generator, its arithmetic and its distributions (`bench/utils.h`,
  `bench/*_generator.h`, `bench/*_distribution.h`): used by `test/key_test.cpp` alone,
  which does not compile (it names the class template `benchmark_t` without its
  argument and defines `clear_cache` a second time). The arithmetic is modulo
  powers of two up to 2^64 and, for the distributions, floating-point: beyond
  TLC.
* Most of `src/pcm`, which is nine tenths of the repository's lines: vendored Intel
  code that reads and writes registers by number for each processor model, sums
  and prints what it read, and has drivers for Windows and macOS that are not built
  here. What it has of shared state and concurrency are the instances, the daemon
  and its clients; those are modelled. `CounterWidthExtender` (`width_extender.h`), a
  thread that reads 32-bit counters often enough to see each overflow, is not:
  what it promises is a matter of seconds and memory traffic. The share of the lines
  that the models stand for is small for this reason.
* Weak memory: TLC and TLAPS see sequentially consistent steps. `dir`, `capacity`
  and the cells are plain variables in the code, so races on them are formally
  undefined; the models take a load to return some value that was stored.

## The plan

Done: the three tables, the directory counter and their proofs as listed above; the
drivers and their proofs; the instances of the counter monitor; its daemon and clients.
Next, in this order:

1. The linear probing table across resizes, for workloads in which no other call is
   under way while one resizes.
2. The cuckoo table as a map after a resize, under the condition of `OneAtATimeKeeps`.
