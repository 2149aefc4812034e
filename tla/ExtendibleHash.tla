--------------------------- MODULE ExtendibleHash ---------------------------
(***************************************************************************)
(* The concurrent extendible hash table of index/extendible_hash.h: any    *)
(* number of threads calling Insert, Update, Delete and Get.               *)
(*                                                                         *)
(* A thread's step is one access to memory another thread may change: a     *)
(* load of the pointer `dir` with the directory cell it indexes, one        *)
(* compare-and-swap on a directory's `sema`, one try_lock of a segment, one *)
(* store to a directory cell.  What a thread does under a segment's         *)
(* exclusive lock, or to memory it alone knows, is one step.                *)
(*                                                                         *)
(* A segment is the set of the pairs its slots hold (INVALID slots are not  *)
(* in it), with at most kNumSlot of them: the order in which the probe loop *)
(* meets the slots is left out.  Pow2 is the function n |-> 2^n.            *)
(***************************************************************************)
EXTENDS Workload, FiniteSets

CONSTANTS Nobody,     \* no thread: the writer of a mutex nobody holds
          HashBits,   \* bits of a hash value: 64 in the code
          Hash,       \* hash_funcs[0] with f_seed
          Pow2,       \* powers of two, up to HashBits
          InitDepth,  \* log2 of the number of segments to start with
          kNumSlot,   \* slots in a segment: 1024 in the code
          INPLACE,    \* whether the macro INPLACE is defined
          MaxSegs,    \* bound: segments ever allocated
          MaxDirs     \* bound: directories ever allocated

ASSUME Pow2Assumption ==
  /\ HashBits \in Nat
  /\ Pow2 \in [0..HashBits -> Nat]
  /\ Pow2[0] = 1
  /\ \A n \in 0..(HashBits-1) : Pow2[n+1] = 2 * Pow2[n]

ASSUME ConstantAssumption ==
  /\ IsFiniteSet(Threads) /\ Nobody \notin Threads
  /\ Hash \in [Keys -> 0..(Pow2[HashBits]-1)]
  /\ InitDepth \in 1..HashBits   \* at 0, line 203 would shift 64 bits by 64
  /\ kNumSlot \in Nat \ {0}
  /\ INPLACE \in BOOLEAN
  /\ MaxSegs \in Nat /\ MaxDirs \in Nat
  /\ Pow2[InitDepth] <= MaxSegs /\ 1 <= MaxDirs

NULL == 0
Segs == 1..MaxSegs
Dirs == 1..MaxDirs
Index == 0..(Pow2[HashBits]-1)

VARIABLES
  dir,          \* the pointer to the current directory
  depth, sema,  \* the fields of every directory allocated so far
  entry,        \* its array _ of segments, NULL beyond its capacity
  ndirs,
  local_depth,  \* the fields of every segment allocated so far
  slots,        \* its array _ of pairs, as a set
  writer,       \* who holds its mutex exclusively, or Nobody
  readers,      \* who holds its mutex shared
  nsegs,
  todo, ret,    \* the calls a thread has to make; what its latest returned
  pc,           \* the next step of a thread
  target,       \* its local variable target
  s,            \* its local variable s, the result of Split
  held,         \* the directory it has locked or is suspending (or _dir)
  val,          \* suspend()'s local variable val
  stores        \* the directory cells it still has to write, and with what

dirVars == <<dir, depth, sema, entry, ndirs>>
segVars == <<local_depth, slots, nsegs>>
mutexVars == <<writer, readers>>
callVars == <<todo, ret>>
splitVars == <<s, held, val, stores>>
vars == <<dirVars, segVars, mutexVars, callVars, pc, target, splitVars>>

-----------------------------------------------------------------------------
Pair == [key : Keys, value : Values]

\* f_hash >> (8*sizeof(f_hash) - d)
Prefix(k, d) == Hash[k] \div Pow2[HashBits - d]

Bit_OffByOne(k, d) == Prefix(k, d) % 2

\* the bit Split() tells the two halves apart by
Bit(k, d) == Prefix(k, d + 1) % 2

Call(t) == Head(todo[t])
Calling(t, name) == todo[t] # <<>> /\ Call(t).op = name
Key(t) == Call(t).key

\* dir->_[f_hash >> (64 - dir->depth)]
Route(k) == entry[dir][Prefix(k, depth[dir])]

\* the pairs a slot of seg holds that an insertion of k may not overwrite
Own(seg, k) ==
  {p \in slots[seg] : Prefix(p.key, local_depth[seg]) = Prefix(k, local_depth[seg])}

\* what an insertion of k into seg overwrites: an INVALID slot, or a pair that
\* an INPLACE split left behind; the probe order decides which it meets first
Reusable(seg, k) ==
  {dead \in SUBSET (slots[seg] \ Own(seg, k)) :
      IF dead = {} THEN Cardinality(slots[seg]) < kNumSlot ELSE Cardinality(dead) = 1}

Matching(seg, k) == {p \in slots[seg] : p.key = k}

Goto(t, step) == pc' = [pc EXCEPT ![t] = step]
Lock(t, seg) == writer' = [writer EXCEPT ![seg] = t] /\ UNCHANGED readers

\* target->mutex.unlock(), which Get uses too on the lock it took shared
Unlock(t, seg) ==
  /\ writer' = [writer EXCEPT ![seg] = IF @ = t THEN Nobody ELSE @]
  /\ readers' = [readers EXCEPT ![seg] = @ \ {t}]

Return(t, r) == /\ ret' = [ret EXCEPT ![t] = r]
                /\ todo' = [todo EXCEPT ![t] = Tail(@)]
                /\ Goto(t, "retry")

-----------------------------------------------------------------------------
Init ==
  /\ todo \in Workloads
  /\ dir = 1 /\ ndirs = 1
  /\ depth = [d \in Dirs |-> IF d = 1 THEN InitDepth ELSE 0]
  /\ sema = [d \in Dirs |-> 0]
  /\ entry = [d \in Dirs |-> [i \in Index |->
                IF d = 1 /\ i < Pow2[InitDepth] THEN i + 1 ELSE NULL]]
  /\ nsegs = Pow2[InitDepth]
  /\ local_depth = [g \in Segs |-> IF g <= Pow2[InitDepth] THEN InitDepth ELSE 0]
  /\ slots = [g \in Segs |-> {}]
  /\ writer = [g \in Segs |-> Nobody]
  /\ readers = [g \in Segs |-> {}]
  /\ ret = [t \in Threads |-> NONE]
  /\ pc = [t \in Threads |-> "retry"]
  /\ target = [t \in Threads |-> NULL]
  /\ s = [t \in Threads |-> <<NULL, NULL>>]
  /\ held = [t \in Threads |-> NULL]
  /\ val = [t \in Threads |-> 0]
  /\ stores = [t \in Threads |-> <<>>]

-----------------------------------------------------------------------------
(* Finding the segment of a key: the label RETRY of the four operations.   *)

\* while(dir->sema < 0); Insert has no such loop
AwaitDirectory(t) ==
  /\ pc[t] = "retry" /\ todo[t] # <<>> /\ ~ Calling(t, "Insert")
  /\ sema[dir] >= 0
  /\ Goto(t, "read")
  /\ UNCHANGED <<dirVars, segVars, mutexVars, callVars, target, splitVars>>

ReadTarget(t) ==
  /\ pc[t] = "read" \/ (pc[t] = "retry" /\ Calling(t, "Insert"))
  /\ target' = [target EXCEPT ![t] = Route(Key(t))]
  /\ Goto(t, "try_lock")
  /\ UNCHANGED <<dirVars, segVars, mutexVars, callVars, splitVars>>

LockTarget(t) ==
  /\ pc[t] = "try_lock"
  /\ writer[target[t]] = Nobody
  /\ IF Calling(t, "Get")
     THEN /\ readers' = [readers EXCEPT ![target[t]] = @ \cup {t}]
          /\ UNCHANGED writer
     ELSE readers[target[t]] = {} /\ Lock(t, target[t])
  /\ Goto(t, "check")
  /\ UNCHANGED <<dirVars, segVars, callVars, target, splitVars>>

TryLockFails(t) ==
  /\ pc[t] = "try_lock"
  /\ writer[target[t]] # Nobody \/ (~ Calling(t, "Get") /\ readers[target[t]] # {})
  /\ Goto(t, "retry")
  /\ UNCHANGED <<dirVars, segVars, mutexVars, callVars, target, splitVars>>

CheckTarget_Skipped(t) ==
  /\ pc[t] = "check"
  /\ Goto(t, "scan")
  /\ UNCHANGED <<dirVars, segVars, mutexVars, callVars, target, splitVars>>

\* a split may have replaced target before it was locked
CheckTarget(t) ==
  /\ pc[t] = "check"
  /\ IF target[t] = Route(Key(t))
     THEN Goto(t, "scan") /\ UNCHANGED mutexVars
     ELSE Goto(t, "retry") /\ Unlock(t, target[t])
  /\ UNCHANGED <<dirVars, segVars, callVars, target, splitVars>>

-----------------------------------------------------------------------------
(* The probe loop and what follows it, under the lock of the segment.      *)

Put(t) ==
  LET seg == target[t] k == Key(t) IN
  /\ pc[t] = "scan" /\ Calling(t, "Insert")
  /\ Cardinality(Own(seg, k)) < kNumSlot
  /\ \E dead \in Reusable(seg, k) :
       slots' = [slots EXCEPT ![seg] =
                   (@ \ dead) \cup {[key |-> k, value |-> Call(t).value]}]
  /\ Unlock(t, seg)
  /\ Return(t, NONE)
  /\ UNCHANGED <<dirVars, local_depth, nsegs, target, splitVars>>

Update(t) ==
  LET seg == target[t] k == Key(t) IN
  /\ pc[t] = "scan" /\ Calling(t, "Update")
  /\ slots' = [slots EXCEPT ![seg] =
                 IF Matching(seg, k) = {} THEN @
                 ELSE (@ \ Matching(seg, k)) \cup {[key |-> k, value |-> Call(t).value]}]
  /\ Unlock(t, seg)
  /\ Return(t, Matching(seg, k) # {})
  /\ UNCHANGED <<dirVars, local_depth, nsegs, target, splitVars>>

Delete(t) ==
  LET seg == target[t] k == Key(t) IN
  /\ pc[t] = "scan" /\ Calling(t, "Delete")
  /\ slots' = [slots EXCEPT ![seg] = @ \ Matching(seg, k)]
  /\ Unlock(t, seg)
  /\ Return(t, Matching(seg, k) # {})
  /\ UNCHANGED <<dirVars, local_depth, nsegs, target, splitVars>>

Get(t) ==
  LET found == Matching(target[t], Key(t)) IN
  /\ pc[t] = "scan" /\ Calling(t, "Get")
  /\ Unlock(t, target[t])
  /\ IF found = {} THEN Return(t, NONE)
                   ELSE \E p \in found : Return(t, p.value)
  /\ UNCHANGED <<dirVars, segVars, target, splitVars>>

-----------------------------------------------------------------------------
(* Splitting a full segment.  target stays locked: an INPLACE split keeps it *)
(* as the left half and unlocks it in the end, the other one abandons it,    *)
(* locked, to the threads that may still have its address.                   *)

Split(t) ==
  LET seg == target[t]
      left == IF INPLACE THEN seg ELSE nsegs + 1
      right == IF INPLACE THEN nsegs + 1 ELSE nsegs + 2
      half(b) == {p \in slots[seg] : Bit(p.key, local_depth[seg]) = b} IN
  /\ pc[t] = "scan" /\ Calling(t, "Insert")
  /\ Cardinality(Own(seg, Key(t))) >= kNumSlot
  /\ right <= MaxSegs /\ local_depth[seg] < HashBits
  /\ s' = [s EXCEPT ![t] = <<left, right>>]
  /\ nsegs' = right
  /\ slots' = [g \in Segs |-> CASE g = right -> half(1)
                                [] g = left /\ ~ INPLACE -> half(0)
                                [] OTHER -> slots[g]]
  /\ local_depth' = [g \in Segs |-> IF g = right \/ (g = left /\ ~ INPLACE)
                                    THEN local_depth[seg] + 1 ELSE local_depth[g]]
  /\ Goto(t, "dir_retry")
  /\ UNCHANGED <<dirVars, mutexVars, callVars, target, held, val, stores>>

\* target_local_depth: the depth target had when it was locked
target_local_depth(t) == local_depth[target[t]]

\* The label DIR_RETRY.  One load of `dir` serves the comparison and the
\* call of suspend(), so the directory may be an old one by then.
ReadDirectory(t) ==
  /\ pc[t] = "dir_retry"
  /\ IF target_local_depth(t) = depth[dir]
     THEN Goto(t, "suspend") /\ held' = [held EXCEPT ![t] = dir]
     ELSE Goto(t, "lock_dir") /\ UNCHANGED held
  /\ UNCHANGED <<dirVars, segVars, mutexVars, callVars, target, s, val, stores>>

Suspend_Unchecked(t) ==
  /\ pc[t] = "suspend"
  /\ val' = [val EXCEPT ![t] = sema[held[t]]]
  /\ sema' = [sema EXCEPT ![held[t]] = -1]
  /\ Goto(t, "drain")
  /\ UNCHANGED <<dir, depth, entry, ndirs, segVars, mutexVars, callVars, target, s, held, stores>>

Suspend(t) ==
  /\ pc[t] = "suspend"
  /\ IF sema[held[t]] >= 0
     THEN /\ val' = [val EXCEPT ![t] = sema[held[t]]]
          /\ sema' = [sema EXCEPT ![held[t]] = -1]
          /\ Goto(t, "drain")
          /\ UNCHANGED held
     ELSE /\ Goto(t, "dir_retry")
          /\ held' = [held EXCEPT ![t] = NULL]
          /\ UNCHANGED <<sema, val>>
  /\ UNCHANGED <<dir, depth, entry, ndirs, segVars, mutexVars, callVars, target, s, stores>>

Drain_Skipped(t) ==
  /\ pc[t] = "drain"
  /\ Goto(t, "double")
  /\ UNCHANGED <<dirVars, segVars, mutexVars, callVars, target, splitVars>>

\* while(val && sema != wait)
Drain(t) ==
  /\ pc[t] = "drain"
  /\ val[t] = 0 \/ sema[held[t]] = 0 - val[t] - 1
  /\ Goto(t, "double")
  /\ UNCHANGED <<dirVars, segVars, mutexVars, callVars, target, splitVars>>

Doubled_Swapped(t) ==
  LET x == Prefix(Key(t), depth[dir]) IN
  [i \in Index |-> IF i \div 2 = x THEN s[t][2 - (i % 2)]
                   ELSE IF i < 2 * Pow2[depth[dir]] THEN entry[dir][i \div 2] ELSE NULL]

\* the cells of _dir, copied from the suspended directory
Doubled(t) ==
  LET x == Prefix(Key(t), depth[dir]) IN
  [i \in Index |-> IF i \div 2 = x THEN s[t][1 + (i % 2)]
                   ELSE IF i < 2 * Pow2[depth[dir]] THEN entry[dir][i \div 2] ELSE NULL]

DoubleDirectory(t) ==
  LET new == ndirs + 1 IN
  /\ pc[t] = "double"
  /\ new <= MaxDirs
  /\ ndirs' = new
  /\ depth' = [depth EXCEPT ![new] = depth[dir] + 1]
  /\ sema' = [sema EXCEPT ![new] = 0]
  /\ entry' = [entry EXCEPT ![new] = Doubled(t)]
  /\ held' = [held EXCEPT ![t] = new]
  /\ Goto(t, "publish")
  /\ UNCHANGED <<dir, segVars, mutexVars, callVars, target, s, val, stores>>

AfterSplit_KeepingLock(t) == Goto(t, "retry")

AfterSplit(t) == Goto(t, IF INPLACE THEN "finish" ELSE "retry")

\* dir = _dir
Publish(t) ==
  /\ pc[t] = "publish"
  /\ dir' = held[t]
  /\ held' = [held EXCEPT ![t] = NULL]
  /\ AfterSplit(t)
  /\ UNCHANGED <<depth, sema, entry, ndirs, segVars, mutexVars, callVars, target, s, val, stores>>

-----------------------------------------------------------------------------
(* A split that fits the directory: the cells of target are redirected.    *)

CellsOf_RightOnly(t) ==
  LET x == Prefix(Key(t), depth[dir])
      stride == Pow2[depth[dir] - target_local_depth(t)]
      half == stride \div 2 IN
  [i \in 1..half |-> <<x - (x % stride) + half + i - 1, s[t][2]>>]

\* the cells in the order the code stores them, the right half's first; when the
\* stride is 2 the code tells x even from x odd, which comes to the same cells
CellsOf(t) ==
  LET x == Prefix(Key(t), depth[dir])
      stride == Pow2[depth[dir] - target_local_depth(t)]
      loc == x - (x % stride)
      half == stride \div 2
      cells(from, seg) == [i \in 1..half |-> <<from + i - 1, seg>>] IN
  cells(loc + half, s[t][2]) \o (IF INPLACE THEN <<>> ELSE cells(loc, s[t][1]))

LockDirectory_Unchecked(t) ==
  /\ pc[t] = "lock_dir"
  /\ sema' = [sema EXCEPT ![dir] = @ + 1]
  /\ held' = [held EXCEPT ![t] = dir]
  /\ stores' = [stores EXCEPT ![t] = CellsOf(t)]
  /\ Goto(t, "store")
  /\ UNCHANGED <<dir, depth, entry, ndirs, segVars, mutexVars, callVars, target, s, val>>

LockDirectory(t) ==
  /\ pc[t] = "lock_dir"
  /\ sema[dir] > -1
  /\ sema' = [sema EXCEPT ![dir] = @ + 1]
  /\ held' = [held EXCEPT ![t] = dir]
  /\ stores' = [stores EXCEPT ![t] = CellsOf(t)]
  /\ Goto(t, "store")
  /\ UNCHANGED <<dir, depth, entry, ndirs, segVars, mutexVars, callVars, target, s, val>>

StoreEntry(t) ==
  /\ pc[t] = "store" /\ stores[t] # <<>>
  /\ entry' = [entry EXCEPT ![dir][Head(stores[t])[1]] = Head(stores[t])[2]]
  /\ stores' = [stores EXCEPT ![t] = Tail(@)]
  /\ UNCHANGED <<dir, depth, sema, ndirs, segVars, mutexVars, callVars, pc, target, s, held, val>>

UnlockDirectory_Forgotten(t) ==
  /\ pc[t] = "store" /\ stores[t] = <<>>
  /\ held' = [held EXCEPT ![t] = NULL]
  /\ AfterSplit(t)
  /\ UNCHANGED <<dirVars, segVars, mutexVars, callVars, target, s, val, stores>>

UnlockDirectory(t) ==
  /\ pc[t] = "store" /\ stores[t] = <<>>
  /\ sema' = [sema EXCEPT ![dir] = @ - 1]
  /\ held' = [held EXCEPT ![t] = NULL]
  /\ AfterSplit(t)
  /\ UNCHANGED <<dir, depth, entry, ndirs, segVars, mutexVars, callVars, target, s, val, stores>>

FinishSplit_SameDepth(t) ==
  /\ pc[t] = "finish"
  /\ Unlock(t, target[t])
  /\ Goto(t, "retry")
  /\ UNCHANGED <<dirVars, segVars, callVars, target, splitVars>>

\* INPLACE only: s[0]->local_depth++, then its lock is released
FinishSplit(t) ==
  /\ pc[t] = "finish"
  /\ local_depth' = [local_depth EXCEPT ![target[t]] = @ + 1]
  /\ Unlock(t, target[t])
  /\ Goto(t, "retry")
  /\ UNCHANGED <<dirVars, slots, nsegs, callVars, target, splitVars>>

-----------------------------------------------------------------------------
Step(t) ==
  \/ AwaitDirectory(t) \/ ReadTarget(t) \/ LockTarget(t) \/ TryLockFails(t)
  \/ CheckTarget(t)
  \/ Put(t) \/ Update(t) \/ Delete(t) \/ Get(t)
  \/ Split(t) \/ ReadDirectory(t)
  \/ Suspend(t) \/ Drain(t) \/ DoubleDirectory(t) \/ Publish(t)
  \/ LockDirectory(t) \/ StoreEntry(t) \/ UnlockDirectory(t) \/ FinishSplit(t)

Terminated == /\ \A t \in Threads : todo[t] = <<>>
              /\ UNCHANGED vars

Next == (\E t \in Threads : Step(t)) \/ Terminated

Spec == Init /\ [][Next]_vars
FairSpec == Spec /\ \A t \in Threads : WF_vars(Step(t))

-----------------------------------------------------------------------------
(* Capacity() and Utilization(), which the drivers call between two rounds  *)
(* of threads: both walk the directory from segment to segment.            *)

\* walk[i]: the cells the loop reads from cell i on, with the segment in each
Walk ==
  LET walk[i \in Nat] ==
        IF i >= Pow2[depth[dir]] THEN {}
        ELSE {<<i, entry[dir][i]>>}
               \cup walk[i + Pow2[depth[dir] - local_depth[entry[dir][i]]]]
  IN walk[0]

Capacity == Cardinality(Walk) * kNumSlot

\* Utilization's sum: the pairs whose prefix is the one of the cell
Occupied ==
  UNION {{<<cell, p>> : p \in {p \in slots[cell[2]] :
            Prefix(p.key, local_depth[cell[2]])
              = cell[1] \div Pow2[depth[dir] - local_depth[cell[2]]]}} : cell \in Walk}

\* the map a caller sees: what a Get that ran alone would return for each key
Table ==
  [k \in Keys |-> IF Matching(Route(k), k) = {} THEN NONE
                  ELSE (CHOOSE p \in Matching(Route(k), k) : TRUE).value]

-----------------------------------------------------------------------------
(* The properties.                                                         *)

Splitting == {"dir_retry", "suspend", "drain", "double", "publish", "lock_dir",
              "store", "finish"}

\* The variables keep their types.
TypeOK ==
  /\ dir \in Dirs /\ ndirs \in Dirs
  /\ depth \in [Dirs -> 0..HashBits]
  /\ sema \in [Dirs -> Int]
  /\ entry \in [Dirs -> [Index -> Segs \cup {NULL}]]
  /\ local_depth \in [Segs -> 0..HashBits]
  /\ slots \in [Segs -> SUBSET Pair]
  /\ writer \in [Segs -> Threads \cup {Nobody}]
  /\ readers \in [Segs -> SUBSET Threads]
  /\ nsegs \in Segs
  /\ pc \in [Threads -> {"retry", "read", "try_lock", "check", "scan"} \cup Splitting]
  /\ target \in [Threads -> Segs \cup {NULL}]
  /\ s \in [Threads -> (Segs \cup {NULL}) \X (Segs \cup {NULL})]
  /\ held \in [Threads -> Dirs \cup {NULL}]
  /\ val \in [Threads -> Nat]
  /\ stores \in [Threads -> Seq(Index \X Segs)]
  /\ todo \in [Threads -> Seq(Calls)]
  /\ ret \in [Threads -> Values \cup {NONE} \cup BOOLEAN]

\* The threads that hold directory d by lock(): they store to its cells.
Storing(d) == {t \in Threads : pc[t] = "store" /\ held[t] = d}

\* The threads that suspended d and have not published its successor.
Doubling(d) == {t \in Threads :
                  \/ pc[t] \in {"drain", "double"} /\ held[t] = d
                  \/ pc[t] = "publish" /\ d = dir}

\* What `sema` says (Directory::lock, unlock, suspend): while it is not
\* negative it counts the threads that store to the directory; a thread that
\* suspended it reads off it how many of those it found are still there.
SemaCountsHolders ==
  /\ \A d \in Dirs : sema[d] >= 0 => sema[d] = Cardinality(Storing(d))
  /\ \A t \in Threads : pc[t] = "drain" =>
        sema[held[t]] = Cardinality(Storing(held[t])) - val[t] - 1

\* A thread that locked or suspended a directory works on the current one: the
\* pointer `dir`, which lines 297-335 load again and again, has not moved.
HeldDirectoryIsCurrent ==
  \A t \in Threads : pc[t] \in {"store", "drain", "double"} => held[t] = dir

\* While the cells of a directory are copied into its successor nobody stores
\* to them, so no redirection is lost when the successor is published.
DoublingIsAlone ==
  \A t \in Threads : pc[t] \in {"double", "publish"} =>
     Storing(dir) = {} /\ Doubling(dir) = {t}

\* A redirection stays within the array of the directory it was computed for
\* (line 347: loc+stride/2+i).
StoresInBounds ==
  \A t \in Threads : pc[t] = "store" =>
     \A i \in DOMAIN stores[t] : stores[t][i][1] < Pow2[depth[dir]]

\* A directory only ever gives way to one that is a bit deeper and routes every
\* key as it did, but for the keys of the segment that was split (lines 296-311).
PublishOnlyDeepens ==
  [][dir' # dir =>
       /\ depth[dir'] = depth[dir] + 1
       /\ \E t \in Threads : pc[t] = "publish" /\ \A k \in Keys :
            entry[dir'][Prefix(k, depth[dir'])] =
              IF Prefix(k, depth[dir]) = Prefix(Key(t), depth[dir])
              THEN s[t][1 + Bit(k, depth[dir])] ELSE Route(k)]_vars

\* No key is ever routed back to a segment that has been split: what a store
\* to a directory cell (lines 323-352) or a new directory changes is the
\* segment of a key for one that tells one more bit of the key's hash.
RoutesOnlyDeepen ==
  [][\A k \in Keys : Route(k)' # Route(k) =>
        local_depth[Route(k)'] = local_depth[Route(k)] + 1]_vars

\* Once the check of lines 217-222 has passed, the segment a thread has locked
\* stays the one its key is routed to until the probe loop is done.
LockedTargetIsCurrent ==
  \A t \in Threads : pc[t] = "scan" => target[t] = Route(Key(t))

\* A segment that can be reached is not locked for ever: whoever holds its lock
\* is at work on it and will unlock it, or redirect the cells that lead to it.
ReachableIsUnlockedLater ==
  \A k \in Keys : writer[Route(k)] # Nobody =>
     LET t == writer[Route(k)] IN
     /\ target[t] = Route(k)
     /\ pc[t] \in {"check", "scan"} \cup Splitting

\* Between two rounds of threads Capacity() counts every segment of the
\* directory once, and Utilization() every key that Get would find, once.
WalkCountsOnce ==
  (\A t \in Threads : pc[t] \notin Splitting) =>
     /\ Capacity = kNumSlot * Cardinality({entry[dir][i] : i \in 0..(Pow2[depth[dir]]-1)})
     /\ Cardinality(Occupied) = Cardinality({k \in Keys : Table[k] # NONE})

\* Every thread gets through its calls: no retry loop goes on for ever.
EveryCallReturns == <>(\A t \in Threads : todo[t] = <<>>)

\* The table is a map whose calls are atomic: they take effect in Put, Update,
\* Delete and Get, and a split changes no value and no answer.
Map == INSTANCE HashTable WITH table <- Table
ImplementsMap == Map!Spec
============================================================================
