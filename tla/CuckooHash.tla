----------------------------- MODULE CuckooHash -----------------------------
(***************************************************************************)
(* The cuckoo table of index/cuckoo_hash.h: a key is in one of two slots,   *)
(* an insertion that finds both taken moves other keys along a path, and    *)
(* a table in which there is no path is replaced by a bigger one.           *)
(*                                                                         *)
(* A step reads or writes what other threads may change at the time: the    *)
(* fields of the table, a mutex, the key of one slot.  The path is searched *)
(* without any lock, while others finish their calls or move their paths.   *)
(*                                                                         *)
(* resize() deletes the old mutexes although threads may wait for them, and *)
(* a thread that has the new capacity but the old mutexes may lock one      *)
(* beyond their end; here these go on, and work, as mutexes.  A slot beyond *)
(* the end of a table reads as anything.                                    *)
(***************************************************************************)
EXTENDS Workload, CuckooPath, FiniteSets

CONSTANTS Nobody,       \* no thread
          InitCapacity,
          locksize,            \* slots a mutex guards: 256 in the code
          kMaxGrows,           \* tables resize() tries in turn: 128 in the code
          Grown,        \* what capacity * kResizingFactor is for a capacity
          Garbage,      \* what old_cap may be before the first resize
          MaxCapacity,  \* bound: the largest capacity
          MaxTables     \* bound: tables ever allocated

ASSUME CuckooAssumption ==
  /\ Nobody \notin Threads
  /\ MaxCapacity \in Nat /\ InitCapacity \in 1..MaxCapacity /\ MaxTables \in Nat \ {0}
  /\ locksize \in Nat \ {0} /\ kMaxGrows \in Nat \ {0}
  /\ Grown \in [1..MaxCapacity -> Nat \ {0}]
  /\ Garbage \subseteq 0..MaxCapacity

Locks == (1..MaxTables) \X (0..MaxCapacity)

VARIABLES
  capacity, table, mutex,   \* the fields that resize() replaces
  old_cap, old_tab,         \* the ones it had before; old_tab is 0 before the first resize
  resizing_lock,
  array,                    \* the tables allocated so far; table is an index
  writer, readers,          \* who holds a mutex exclusively, who shared
  exited,                   \* exit(1), or a division by zero
  todo, ret,
  pc,                       \* the next step of a thread
  places,                   \* its f_idx and s_idx
  n,                        \* which of the two it is at
  old,                      \* a Get: whether it saw resizing_lock set
  lock,                     \* the mutex it wants or has
  from,                     \* the table its slot was found in
  hash,                     \* the first hash value of a key of its path
  path1, path,              \* the paths from its two places; the one it takes
  i                         \* its loop counters

fieldVars == <<capacity, table, mutex, old_cap, old_tab>>
mutexVars == <<writer, readers>>
callVars == <<todo, ret>>
probeVars == <<places, n, old, lock, from>>
pathVars == <<hash, path1, path>>
vars == <<fieldVars, resizing_lock, array, mutexVars, exited, callVars, pc,
          probeVars, pathVars, i>>

Call(t) == Head(todo[t])
Calling(t, name) == todo[t] # <<>> /\ Call(t).op = name
Key(t) == Call(t).key

Goto(t, step) == pc' = [pc EXCEPT ![t] = step]
Return(t, r) == /\ ret' = [ret EXCEPT ![t] = r]
                /\ todo' = [todo EXCEPT ![t] = Tail(@)]
                /\ Goto(t, "retry")

Exclusive(t, l) == /\ writer[l] = Nobody /\ readers[l] = {}
                   /\ writer' = [writer EXCEPT ![l] = t]
                   /\ UNCHANGED readers
Shared(t, l) == /\ writer[l] = Nobody
                /\ readers' = [readers EXCEPT ![l] = @ \cup {t}]
                /\ UNCHANGED writer
\* every mutex t has
Release(t) == /\ writer' = [l \in Locks |-> IF writer[l] = t THEN Nobody ELSE writer[l]]
              /\ readers' = [l \in Locks |-> readers[l] \ {t}]

nlocks(cap) == cap \div locksize + 1

\* what slot x of the table number d may read as
Read(d, x) == IF d # 0 /\ x \in DOMAIN array[d] THEN {array[d][x]} ELSE Pair \cup {INVALID}

Init ==
  /\ todo \in Workloads
  /\ capacity = InitCapacity /\ table = 1 /\ mutex = 1
  /\ old_cap \in Garbage /\ old_tab = 0
  /\ resizing_lock = 0
  /\ array = <<Empty(InitCapacity)>>
  /\ writer = [l \in Locks |-> Nobody]
  /\ readers = [l \in Locks |-> {}]
  /\ exited = FALSE
  /\ ret = [t \in Threads |-> NONE]
  /\ pc = [t \in Threads |-> "retry"]
  /\ places = [t \in Threads |-> <<0, 0>>]
  /\ n = [t \in Threads |-> 1]
  /\ old = [t \in Threads |-> FALSE]
  /\ lock = [t \in Threads |-> <<1, 0>>]
  /\ from = [t \in Threads |-> 1]
  /\ hash = [t \in Threads |-> 0]
  /\ path1 = [t \in Threads |-> <<>>]
  /\ path = [t \in Threads |-> <<>>]
  /\ i = [t \in Threads |-> 0]

-----------------------------------------------------------------------------
(* Looking at the two places, the same in the four operations.              *)

\* Insert, Update, Delete: while(resizing_lock)
AwaitResize(t) ==
  /\ pc[t] = "retry" /\ todo[t] # <<>> /\ ~ Calling(t, "Get") /\ resizing_lock = 0
  /\ Goto(t, "pick")
  /\ UNCHANGED <<fieldVars, resizing_lock, array, mutexVars, exited, callVars,
                 probeVars, pathVars, i>>

PickPlaces(t) ==
  /\ pc[t] = "pick" /\ ~ Calling(t, "Get")
  /\ places' = [places EXCEPT ![t] = <<f_idx(Key(t), capacity), s_idx(Key(t), capacity)>>]
  /\ n' = [n EXCEPT ![t] = 1]
  /\ Goto(t, "aim")
  /\ UNCHANGED <<fieldVars, resizing_lock, array, mutexVars, exited, callVars,
                 old, lock, from, pathVars, i>>

\* Get does not wait, but looks into the old table
BeginGet(t) ==
  /\ pc[t] = "retry" /\ Calling(t, "Get")
  /\ old' = [old EXCEPT ![t] = resizing_lock # 0]
  /\ n' = [n EXCEPT ![t] = 1]
  /\ Goto(t, "pick")
  /\ UNCHANGED <<fieldVars, resizing_lock, array, mutexVars, exited, callVars,
                 places, lock, from, pathVars, i>>

PickPlace(t) ==
  LET cap == IF old[t] THEN old_cap ELSE capacity IN
  /\ pc[t] = "pick" /\ Calling(t, "Get") /\ cap # 0
  /\ places' = [places EXCEPT ![t][n[t]] = IF n[t] = 1 THEN f_idx(Key(t), cap)
                                                       ELSE s_idx(Key(t), cap)]
  /\ Goto(t, "aim")
  /\ UNCHANGED <<fieldVars, resizing_lock, array, mutexVars, exited, callVars,
                 n, old, lock, from, pathVars, i>>

DivideByZero(t) ==
  /\ pc[t] = "pick" /\ Calling(t, "Get") /\ old[t] /\ old_cap = 0
  /\ exited' = TRUE
  /\ UNCHANGED <<fieldVars, resizing_lock, array, mutexVars, callVars, pc,
                 probeVars, pathVars, i>>

Aim_ByIndex(t) ==
  /\ pc[t] = "aim"
  /\ lock' = [lock EXCEPT ![t] = <<mutex, places[t][n[t]] % locksize>>]
  /\ Goto(t, "lock")
  /\ UNCHANGED <<fieldVars, resizing_lock, array, mutexVars, exited, callVars,
                 places, n, old, from, pathVars, i>>

\* the mutex is chosen, and waited for in the next step
Aim(t) ==
  /\ pc[t] = "aim"
  /\ lock' = [lock EXCEPT ![t] = <<mutex, places[t][n[t]] \div locksize>>]
  /\ Goto(t, "lock")
  /\ UNCHANGED <<fieldVars, resizing_lock, array, mutexVars, exited, callVars,
                 places, n, old, from, pathVars, i>>

LockPlace(t) ==
  /\ pc[t] = "lock"
  /\ IF Calling(t, "Get") THEN Shared(t, lock[t]) ELSE Exclusive(t, lock[t])
  /\ Goto(t, "look")
  /\ UNCHANGED <<fieldVars, resizing_lock, array, exited, callVars, probeVars, pathVars, i>>

Slot(t) == places[t][n[t]]
TableOf(t) == IF Calling(t, "Get") /\ old[t] THEN old_tab ELSE table
Wanted(t, p) == IF Calling(t, "Insert") THEN p = INVALID ELSE Holds(p, Key(t))

\* before the first resize there is no old table to look into
ReadNothing(t) ==
  /\ pc[t] = "look" /\ TableOf(t) = 0
  /\ exited' = TRUE
  /\ UNCHANGED <<fieldVars, resizing_lock, array, mutexVars, callVars, pc,
                 probeVars, pathVars, i>>

LookHit(t) ==
  /\ pc[t] = "look" /\ ~ Calling(t, "Get")
  /\ \E p \in Read(table, Slot(t)) : Wanted(t, p)
  /\ from' = [from EXCEPT ![t] = table]
  /\ Goto(t, "write")
  /\ UNCHANGED <<fieldVars, resizing_lock, array, mutexVars, exited, callVars,
                 places, n, old, lock, pathVars, i>>

GetHit(t) ==
  /\ pc[t] = "look" /\ Calling(t, "Get")
  /\ \E p \in Read(TableOf(t), Slot(t)) : Wanted(t, p) /\ Return(t, p.value)
  /\ Release(t)
  /\ UNCHANGED <<fieldVars, resizing_lock, array, exited, probeVars, pathVars, i>>

\* on to the second place
LookOn(t) ==
  /\ pc[t] = "look" /\ n[t] = 1
  /\ \E p \in Read(TableOf(t), Slot(t)) : ~ Wanted(t, p)
  /\ n' = [n EXCEPT ![t] = 2]
  /\ Release(t)
  /\ Goto(t, IF Calling(t, "Get") THEN "pick" ELSE "aim")
  /\ UNCHANGED <<fieldVars, resizing_lock, array, exited, callVars,
                 places, old, lock, from, pathVars, i>>

\* in neither place
LookMiss_Unlocked(t) ==
  /\ pc[t] = "look" /\ n[t] = 2
  /\ \E p \in Read(TableOf(t), Slot(t)) : ~ Wanted(t, p)
  /\ CASE Calling(t, "Insert") -> Goto(t, "path") /\ UNCHANGED callVars
       [] Calling(t, "Get")    -> Return(t, NONE)
       [] OTHER                -> Return(t, FALSE)
  /\ n' = [n EXCEPT ![t] = 1]
  /\ Release(t)
  /\ UNCHANGED <<fieldVars, resizing_lock, array, exited,
                 places, old, lock, from, pathVars, i>>

LookMiss(t) ==
  /\ pc[t] = "look" /\ n[t] = 2
  /\ \E p \in Read(TableOf(t), Slot(t)) : ~ Wanted(t, p)
  /\ CASE Calling(t, "Insert") -> Goto(t, "cas") /\ UNCHANGED callVars
       [] Calling(t, "Get")    -> Return(t, NONE)
       [] OTHER                -> Return(t, FALSE)
  /\ Release(t)
  /\ UNCHANGED <<fieldVars, resizing_lock, array, exited, probeVars, pathVars, i>>

Put(t) ==
  /\ pc[t] = "write" /\ Calling(t, "Insert")
  /\ array' = [array EXCEPT ![from[t]][Slot(t)] = [key |-> Key(t), value |-> Call(t).value]]
  /\ Release(t) /\ Return(t, NONE)
  /\ UNCHANGED <<fieldVars, resizing_lock, exited, probeVars, pathVars, i>>

Update(t) ==
  /\ pc[t] = "write" /\ Calling(t, "Update")
  /\ array' = [array EXCEPT ![from[t]][Slot(t)] =
                 IF @ = INVALID THEN @ ELSE [@ EXCEPT !.value = Call(t).value]]
  /\ Release(t) /\ Return(t, TRUE)
  /\ UNCHANGED <<fieldVars, resizing_lock, exited, probeVars, pathVars, i>>

Delete(t) ==
  /\ pc[t] = "write" /\ Calling(t, "Delete")
  /\ array' = [array EXCEPT ![from[t]][Slot(t)] = INVALID]
  /\ Release(t) /\ Return(t, TRUE)
  /\ UNCHANGED <<fieldVars, resizing_lock, exited, probeVars, pathVars, i>>

-----------------------------------------------------------------------------
(* The search for a path: each key is read without a lock, four times.      *)

searchFrame == <<fieldVars, array, mutexVars, callVars, probeVars>>

TryCuckoo(t) ==
  /\ pc[t] = "cas"
  /\ IF resizing_lock = 0 THEN resizing_lock' = 1 /\ n' = [n EXCEPT ![t] = 1] /\ Goto(t, "path")
                          ELSE UNCHANGED <<resizing_lock, n>> /\ Goto(t, "retry")
  /\ UNCHANGED <<fieldVars, array, mutexVars, exited, callVars,
                 places, old, lock, from, pathVars, i>>

\* the key slot x of the current table may read as
ReadKey(x) == {KeyOf(p) : p \in Read(table, x)}

Entry(x, k) == [slot |-> x, key |-> k]
Cur(t) == path[t][Len(path[t])].slot

BeginPath(t) ==
  /\ pc[t] = "path"
  /\ \E k \in ReadKey(Slot(t)) : path' = [path EXCEPT ![t] = <<Entry(Slot(t), k)>>]
  /\ Goto(t, "test")
  /\ UNCHANGED <<searchFrame, resizing_lock, exited, hash, path1, i>>

\* t has the path p from its place n
PathDone(t, p) ==
  IF n[t] = 1
  THEN /\ path1' = [path1 EXCEPT ![t] = p] /\ path' = [path EXCEPT ![t] = <<>>]
       /\ n' = [n EXCEPT ![t] = 2] /\ Goto(t, "path")
  ELSE /\ path' = [path EXCEPT ![t] = p] /\ Goto(t, "choose")
       /\ UNCHANGED <<n, path1>>

TestKey(t) ==
  /\ pc[t] = "test"
  /\ \E k \in ReadKey(Cur(t)) :
       IF k = INVALID THEN PathDone(t, path[t])
                      ELSE Goto(t, "hash1") /\ UNCHANGED <<n, path1, path>>
  /\ UNCHANGED <<fieldVars, resizing_lock, array, mutexVars, exited, callVars,
                 places, old, lock, from, hash, i>>

HashFirst(t) ==
  /\ pc[t] = "hash1"
  /\ \E k \in ReadKey(Cur(t)) : hash' = [hash EXCEPT ![t] = f_idx(k, capacity)]
  /\ Goto(t, "hash2")
  /\ UNCHANGED <<searchFrame, resizing_lock, exited, path1, path, i>>

\* ... or the slot is neither place of the key: "something terribly wrong"
HashSecond(t) ==
  /\ pc[t] = "hash2"
  /\ \E k \in ReadKey(Cur(t)) :
       LET s == s_idx(k, capacity) IN
       \/ /\ hash[t] = Cur(t)
          /\ hash' = [hash EXCEPT ![t] = s] /\ Goto(t, "push") /\ UNCHANGED exited
       \/ /\ hash[t] # Cur(t) /\ s = Cur(t)
          /\ Goto(t, "push") /\ UNCHANGED <<hash, exited>>
       \/ /\ hash[t] # Cur(t) /\ s # Cur(t)
          /\ exited' = TRUE /\ UNCHANGED <<hash, pc>>
  /\ UNCHANGED <<searchFrame, resizing_lock, path1, path, i>>

PushSlot_TooFar(t) ==
  /\ pc[t] = "push"
  /\ \E k \in ReadKey(hash[t]) :
       IF Len(path[t]) <= kCuckooThreshold
       THEN /\ path' = [path EXCEPT ![t] = Append(@, Entry(hash[t], k))]
            /\ Goto(t, "test") /\ UNCHANGED <<n, path1>>
       ELSE PathDone(t, <<>>)
  /\ UNCHANGED <<fieldVars, resizing_lock, array, mutexVars, exited, callVars,
                 places, old, lock, from, hash, i>>

PushSlot(t) ==
  /\ pc[t] = "push"
  /\ \E k \in ReadKey(hash[t]) :
       IF Len(path[t]) < kCuckooThreshold
       THEN /\ path' = [path EXCEPT ![t] = Append(@, Entry(hash[t], k))]
            /\ Goto(t, "test") /\ UNCHANGED <<n, path1>>
       ELSE PathDone(t, <<>>)
  /\ UNCHANGED <<fieldVars, resizing_lock, array, mutexVars, exited, callVars,
                 places, old, lock, from, hash, i>>

ChoosePath(t) ==
  LET p1 == path1[t]
      p2 == path[t]
      second == \/ p1 = <<>>
                \/ p2 # <<>> /\ (Len(p2) < Len(p1) \/ p1[1].key = INVALID)
  IN
  /\ pc[t] = "choose"
  /\ IF p1 = <<>> /\ p2 = <<>>
     THEN Goto(t, "save_cap") /\ UNCHANGED path
     ELSE path' = [path EXCEPT ![t] = IF second THEN p2 ELSE p1] /\ Goto(t, "lock_path")
  /\ path1' = [path1 EXCEPT ![t] = <<>>] /\ hash' = [hash EXCEPT ![t] = 0]   \* done with
  /\ i' = [i EXCEPT ![t] = 1]
  /\ UNCHANGED <<searchFrame, resizing_lock, exited>>

-----------------------------------------------------------------------------
(* Moving the keys of a path.                                              *)

\* the mutexes of a path, from the smallest to the largest, each once
ToLock(t) == {<<mutex, path[t][j].slot \div locksize>> : j \in DOMAIN path[t]}

LockPath(t) ==
  /\ pc[t] = "lock_path"
  /\ \E l \in ToLock(t) :
       /\ writer[l] # t
       /\ \A m \in ToLock(t) : writer[m] = t \/ l[2] <= m[2]
       /\ Exclusive(t, l)
  /\ UNCHANGED <<fieldVars, resizing_lock, array, exited, callVars, pc, probeVars, pathVars, i>>

PathLocked(t) ==
  /\ pc[t] = "lock_path" /\ \A l \in ToLock(t) : writer[l] = t
  /\ Goto(t, "check")
  /\ UNCHANGED <<searchFrame, resizing_lock, exited, pathVars, i>>

CheckEntry_FirstOnly(t) ==
  /\ pc[t] = "check"
  /\ \E k \in ReadKey(path[t][i[t]].slot) :
       IF k # path[t][i[t]].key
       THEN /\ Release(t) /\ n' = [n EXCEPT ![t] = 1] /\ Goto(t, "path")
            /\ UNCHANGED <<resizing_lock, i>>
       ELSE /\ resizing_lock' = 0 /\ i' = [i EXCEPT ![t] = Len(path[t])] /\ Goto(t, "move")
            /\ UNCHANGED <<mutexVars, n>>
  /\ UNCHANGED <<fieldVars, array, exited, callVars, places, old, lock, from, pathVars>>

CheckEntry_Again(t) ==
  /\ pc[t] = "check" /\ i[t] <= Len(path[t])
  /\ \E k \in ReadKey(path[t][i[t]].slot) :
       i' = [i EXCEPT ![t] = IF k # path[t][@].key THEN 1 ELSE @ + 1]
  /\ UNCHANGED <<searchFrame, pc, resizing_lock, exited, pathVars>>

\* a slot whose key has changed since: goto PATH_RETRY
CheckEntry(t) ==
  /\ pc[t] = "check" /\ i[t] <= Len(path[t])
  /\ \E k \in ReadKey(path[t][i[t]].slot) :
       IF k # path[t][i[t]].key
       THEN /\ Release(t) /\ n' = [n EXCEPT ![t] = 1] /\ Goto(t, "path")
            /\ UNCHANGED i
       ELSE /\ i' = [i EXCEPT ![t] = @ + 1]
            /\ UNCHANGED <<mutexVars, n, pc>>
  /\ UNCHANGED <<fieldVars, resizing_lock, array, exited, callVars, places, old, lock, from, pathVars>>

\* resizing_lock is given back before the keys are moved
Checked(t) ==
  /\ pc[t] = "check" /\ i[t] > Len(path[t])
  /\ resizing_lock' = 0
  /\ i' = [i EXCEPT ![t] = Len(path[t])]
  /\ Goto(t, "move")
  /\ UNCHANGED <<searchFrame, exited, pathVars>>

MoveEntry_Forward(t) ==
  /\ pc[t] = "move" /\ i[t] > 1
  /\ \E p \in Read(table, path[t][Len(path[t]) - i[t] + 1].slot) :
       array' = [array EXCEPT ![table][path[t][Len(path[t]) - i[t] + 2].slot] = p]
  /\ i' = [i EXCEPT ![t] = @ - 1]
  /\ UNCHANGED <<fieldVars, resizing_lock, mutexVars, exited, callVars, pc, probeVars, pathVars>>

\* one turn of the loop of execute_path, from the end of the path to its beginning
MoveEntry(t) ==
  /\ pc[t] = "move" /\ i[t] > 1
  /\ \E p \in Read(table, path[t][i[t]-1].slot) :
       array' = [array EXCEPT ![table][path[t][i[t]].slot] = p]
  /\ i' = [i EXCEPT ![t] = @ - 1]
  /\ UNCHANGED <<fieldVars, resizing_lock, mutexVars, exited, callVars, pc, probeVars, pathVars>>

PutFirst_AtEnd(t) ==
  /\ pc[t] = "move" /\ i[t] = 1
  /\ array' = [array EXCEPT ![table][path[t][Len(path[t])].slot] = [key |-> Key(t), value |-> Call(t).value]]
  /\ Release(t) /\ Return(t, NONE)
  /\ path' = [path EXCEPT ![t] = <<>>] /\ i' = [i EXCEPT ![t] = 0]
  /\ UNCHANGED <<fieldVars, resizing_lock, exited, probeVars, hash, path1>>

PutFirst(t) ==
  /\ pc[t] = "move" /\ i[t] = 1
  /\ array' = [array EXCEPT ![table][path[t][1].slot] = [key |-> Key(t), value |-> Call(t).value]]
  /\ Release(t) /\ Return(t, NONE)
  /\ path' = [path EXCEPT ![t] = <<>>] /\ i' = [i EXCEPT ![t] = 0]   \* done with
  /\ UNCHANGED <<fieldVars, resizing_lock, exited, probeVars, hash, path1>>

-----------------------------------------------------------------------------
(* Resizing.                                                               *)

resizeFrame == <<mutexVars, exited, callVars, probeVars, pathVars>>

SaveCapacity(t) ==
  /\ pc[t] = "save_cap"
  /\ old_cap' = capacity /\ Goto(t, "save_tab")
  /\ UNCHANGED <<capacity, table, mutex, old_tab, resizing_lock, array, resizeFrame, i>>

SaveTable(t) ==
  /\ pc[t] = "save_tab"
  /\ old_tab' = table /\ i' = [i EXCEPT ![t] = 0] /\ Goto(t, "lock_all")
  /\ UNCHANGED <<capacity, table, mutex, old_cap, resizing_lock, array, resizeFrame>>

LockAll(t) ==
  /\ pc[t] = "lock_all" /\ i[t] < nlocks(old_cap)
  /\ Exclusive(t, <<mutex, i[t]>>)
  /\ i' = [i EXCEPT ![t] = @ + 1]
  /\ UNCHANGED <<fieldVars, resizing_lock, array, exited, callVars, pc, probeVars, pathVars>>

\* how many tables t's resize has allocated
Tried == Len(array) - old_tab

Grow(t) ==
  /\ \/ pc[t] = "lock_all" /\ i[t] >= nlocks(old_cap)
     \/ pc[t] = "grow"
  /\ Len(array) < MaxTables /\ Grown[capacity] <= MaxCapacity
  /\ capacity' = Grown[capacity] /\ Goto(t, "allocate")
  /\ UNCHANGED <<table, mutex, old_cap, old_tab, resizing_lock, array, resizeFrame, i>>

Allocate(t) ==
  /\ pc[t] = "allocate"
  /\ array' = Append(array, Empty(capacity)) /\ table' = Len(array')
  /\ i' = [i EXCEPT ![t] = 0] /\ Goto(t, "refill")
  /\ UNCHANGED <<capacity, mutex, old_cap, old_tab, resizing_lock, resizeFrame>>

Reinsert_SameSlot(t) ==
  /\ pc[t] = "refill" /\ i[t] < old_cap
  /\ array' = [array EXCEPT ![table][i[t]] = array[old_tab][i[t]]]
  /\ i' = [i EXCEPT ![t] = @ + 1]
  /\ UNCHANGED <<fieldVars, resizing_lock, resizeFrame, pc>>

Reinsert_FirstPlace(t) ==
  LET p == array[old_tab][i[t]]
      tab == [array[table] EXCEPT ![f_idx(p.key, capacity)] = p]
  IN
  /\ pc[t] = "refill" /\ i[t] < old_cap
  /\ array' = IF p = INVALID THEN array ELSE [array EXCEPT ![table] = tab]
  /\ i' = [i EXCEPT ![t] = @ + 1]
  /\ UNCHANGED <<fieldVars, resizing_lock, resizeFrame, pc>>

\* the pair of one old slot; when it finds no place the table is given up
Reinsert(t) ==
  LET p == array[old_tab][i[t]]
      tabs == IF p = INVALID THEN <<array[table]>> ELSE insert4resize(array[table], capacity, p)
  IN
  /\ pc[t] = "refill" /\ i[t] < old_cap
  /\ IF tabs # <<>>
     THEN /\ array' = [array EXCEPT ![table] = tabs[1]]
          /\ i' = [i EXCEPT ![t] = @ + 1] /\ UNCHANGED <<pc, exited>>
     ELSE IF Tried < kMaxGrows
     THEN Goto(t, "grow") /\ UNCHANGED <<array, i, exited>>
     ELSE exited' = TRUE /\ UNCHANGED <<array, i, pc>>
  /\ UNCHANGED <<fieldVars, resizing_lock, mutexVars, callVars, probeVars, pathVars>>

UnlockAll(t) ==
  /\ pc[t] = "refill" /\ i[t] >= old_cap
  /\ Release(t) /\ Goto(t, "set_mutex")
  /\ UNCHANGED <<fieldVars, resizing_lock, array, exited, callVars, probeVars, pathVars, i>>

\* the mutexes of the new table
SetMutex(t) ==
  /\ pc[t] = "set_mutex"
  /\ mutex' = table /\ Goto(t, "end")
  /\ UNCHANGED <<capacity, table, old_cap, old_tab, resizing_lock, array, resizeFrame, i>>

EndResize(t) ==
  /\ pc[t] = "end"
  /\ resizing_lock' = 0 /\ Goto(t, "retry")
  /\ UNCHANGED <<fieldVars, array, resizeFrame, i>>

-----------------------------------------------------------------------------
Look(t) ==
  \/ AwaitResize(t) \/ PickPlaces(t) \/ BeginGet(t) \/ PickPlace(t) \/ DivideByZero(t)
  \/ Aim(t) \/ LockPlace(t) \/ ReadNothing(t) \/ LookHit(t) \/ GetHit(t) \/ LookOn(t) \/ LookMiss(t)
  \/ Put(t) \/ Update(t) \/ Delete(t)
Displace(t) ==
  \/ TryCuckoo(t) \/ BeginPath(t) \/ TestKey(t) \/ HashFirst(t) \/ HashSecond(t) \/ PushSlot(t)
  \/ ChoosePath(t) \/ LockPath(t) \/ PathLocked(t) \/ CheckEntry(t) \/ Checked(t)
  \/ MoveEntry(t) \/ PutFirst(t)
Resize(t) ==
  \/ SaveCapacity(t) \/ SaveTable(t) \/ LockAll(t) \/ Grow(t) \/ Allocate(t) \/ Reinsert(t)
  \/ UnlockAll(t) \/ SetMutex(t) \/ EndResize(t)

Step(t) == ~ exited /\ (Look(t) \/ Displace(t) \/ Resize(t))

Done == \A t \in Threads : todo[t] = <<>>
\* a resize that would go beyond the bounds
AtBound == \E t \in Threads : pc[t] \in {"lock_all", "grow"}
                               /\ (Len(array) = MaxTables \/ Grown[capacity] > MaxCapacity)
Terminated == (Done \/ exited \/ AtBound) /\ UNCHANGED vars

Next == (\E t \in Threads : Step(t)) \/ Terminated

Spec == Init /\ [][Next]_vars
FairSpec == Spec /\ \A t \in Threads : WF_vars(Step(t))

-----------------------------------------------------------------------------
(* What is in the table, and who may touch it.                             *)

\* the steps of a search for a path, and of a resize
Holding == {"path", "test", "hash1", "hash2", "push", "choose", "lock_path", "check",
            "save_cap", "save_tab", "lock_all", "grow", "allocate", "refill", "set_mutex", "end"}
Steps == Holding \cup {"retry", "pick", "aim", "lock", "look", "write", "cas", "move"}

Holder(t) == pc[t] \in Holding
Refilling == \E t \in Threads : pc[t] \in {"grow", "allocate", "refill"}

\* The slots of the tables a thread is reading or writing under its mutexes.  A resize
\* holds those of the old capacity: a slot beyond it is guarded by nobody meanwhile.
Using(t) ==
  CASE pc[t] = "look" -> {<<TableOf(t), Slot(t)>>}
    [] pc[t] = "write" -> {<<from[t], Slot(t)>>}
    [] pc[t] \in {"check", "move"} -> {<<table, path[t][j].slot>> : j \in DOMAIN path[t]}
    [] pc[t] \in {"grow", "allocate", "refill"} -> {table, old_tab} \X (0..(old_cap-1))
    [] OTHER -> {}
Reading(t) == pc[t] = "look" /\ Calling(t, "Get")

\* the slots Utilization() counts
Occupied == {x \in DOMAIN array[table] : array[table][x] # INVALID}

\* where a lookup that is alone finds the key k, and what it returns
Found(k) ==
  IF Refilling THEN {x \in Places(k, old_cap) : Holds(array[old_tab][x], k)}
               ELSE {x \in Places(k, capacity) : Holds(array[table][x], k)}
Table == [k \in Keys |->
            IF Found(k) = {} THEN NONE
            ELSE array[IF Refilling THEN old_tab ELSE table][CHOOSE x \in Found(k) : TRUE].value]

-----------------------------------------------------------------------------
Entries == [slot : 0..(MaxCapacity-1), key : Keys \cup {INVALID}]

TypeOK ==
  /\ capacity \in 1..MaxCapacity /\ table \in 1..Len(array) /\ mutex \in 1..Len(array)
  /\ old_cap \in 0..MaxCapacity /\ old_tab \in 0..Len(array)
  /\ resizing_lock \in {0, 1} /\ exited \in BOOLEAN
  /\ Len(array) <= MaxTables /\ DOMAIN array = 1..Len(array)
  /\ \A d \in DOMAIN array : \E cap \in 1..MaxCapacity : array[d] \in Tables(cap)
  /\ writer \in [Locks -> Threads \cup {Nobody}] /\ readers \in [Locks -> SUBSET Threads]
  /\ todo \in [Threads -> Seq(Calls)] /\ ret \in [Threads -> Values \cup {NONE} \cup BOOLEAN]
  /\ pc \in [Threads -> Steps]
  /\ places \in [Threads -> [{1, 2} -> 0..(MaxCapacity-1)]]
  /\ n \in [Threads -> {1, 2}] /\ old \in [Threads -> BOOLEAN]
  /\ lock \in [Threads -> Locks] /\ from \in [Threads -> 1..Len(array)]
  /\ hash \in [Threads -> 0..(MaxCapacity-1)] /\ i \in [Threads -> Nat]
  /\ path1 \in [Threads -> Seq(Entries)] /\ path \in [Threads -> Seq(Entries)]
  /\ \A t \in Threads : Len(path1[t]) <= kCuckooThreshold /\ Len(path[t]) <= kCuckooThreshold

\* Insert, lines 131-133 and 227: while a thread searches for a path or resizes no
\* other one does, although the lock is given back before the keys are moved.
OneHolder ==
  /\ \A t, u \in Threads : Holder(t) /\ Holder(u) => t = u
  /\ resizing_lock = 1 <=> \E t \in Threads : Holder(t)

\* Until the mutexes are replaced, nobody uses a slot that another one writes: the
\* slots of a path that is moved, a slot that is looked at, the tables of a resize.
SlotsGuarded ==
  mutex = 1 => \A t, u \in Threads :
    t # u /\ ~ (Reading(t) /\ Reading(u)) => Using(t) \cap Using(u) = {}

\* A path that is about to be moved is one (Insert, lines 210-226): every key on it
\* goes to its other place, no slot comes twice, and the last one is free.  It was put
\* together without locks while others changed the table.  Beside a Delete the checks
\* may pass a path that is none (FreshPathIsPath says when they do not).
MovedPathIsPath ==
  \A t \in Threads : pc[t] = "move" /\ i[t] = Len(path[t]) =>
     IsPath(array[table], capacity, [j \in DOMAIN path[t] |-> path[t][j].slot])

\* No pair is where a lookup does not look, whatever is moved to where; not so where a
\* path is moved that is none, nor when a mutex is picked before a resize.
PairsInPlace == ~ Refilling => InPlace(array[table], capacity)

\* A key is in two slots only while it is moved from the one to the other.
MovedOrOnce ==
  ~ Refilling => \A x, y \in Occupied :
    x # y /\ array[table][x].key = array[table][y].key
    => \E t \in Threads : \E l \in DOMAIN path[t] :
          pc[t] = "move" /\ l = i[t] /\ l < Len(path[t])
          /\ {path[t][l].slot, path[t][l+1].slot} = {x, y}

\* resize(), lines 664-680: when it gives the old mutexes back, the new table has every
\* pair of the old one and no other.
ResizedHoldsAll ==
  \A t \in Threads : pc[t] = "refill" /\ i[t] >= old_cap =>
    PairsOf(array[table]) = PairsOf(array[old_tab])

\* Every loop of Insert, and every wait for a mutex or for resizing_lock, comes to an
\* end, unless the process does.
EveryCallReturns == <>(Done \/ exited)

=============================================================================
