--------------------------- MODULE LinearProbing ---------------------------
(***************************************************************************)
(* The linear probing table of index/linear_probing.h: one array of slots,  *)
(* a mutex for every locksize slots of it, and an array of twice the        *)
(* capacity, with mutexes of its own, when it has filled up.                *)
(*                                                                         *)
(* A step reads or writes what other threads may change at the time: the    *)
(* fields of the table, a mutex, one slot.  resize() replaces the three     *)
(* fields one by one, with all mutexes held: the old ones.                  *)
(*                                                                         *)
(* resize() deletes the old mutexes although threads may wait for them or   *)
(* have their address; here a deleted mutex goes on working as one.  A slot  *)
(* beyond the end of an array reads as anything.                            *)
(***************************************************************************)
EXTENDS Workload, FiniteSets

CONSTANTS Nobody,       \* no thread
          INVALID,      \* an empty slot
          Hash,         \* the function h
          InitCapacity,
          locksize,            \* slots a mutex guards: 256 in the code
          kResizingThreshold,  \* in percent: 95 in the code
          MaxCapacity,  \* bound: the largest capacity
          MaxTables     \* bound: arrays ever allocated

ASSUME ProbingAssumption ==
  /\ Nobody \notin Threads
  /\ INVALID \notin [key : Keys, value : Values]
  /\ Hash \in [Keys -> Nat]
  /\ InitCapacity \in 1..MaxCapacity /\ locksize \in Nat \ {0}
  /\ kResizingThreshold \in 0..100
  /\ MaxCapacity \in Nat /\ MaxTables \in Nat \ {0}

Pair == [key : Keys, value : Values]
Locks == (1..MaxTables) \X (0..MaxCapacity)

VARIABLES
  dict, capacity, mutex,  \* the fields that resize() replaces
  size, resizing_lock,    \* the other fields
  array,                  \* the arrays allocated so far; dict is an index
  writer, readers,        \* who holds a mutex exclusively, who shared
  todo, ret,
  pc,                     \* the next step of a thread
  i, slot, lock,          \* its locals; resize() has an i of its own
  from,                   \* the array that dict was when it locked the slot
  size_                   \* its local _size

fieldVars == <<dict, capacity, mutex, resizing_lock>>
mutexVars == <<writer, readers>>
callVars == <<todo, ret>>
localVars == <<i, slot, lock, from, size_>>
vars == <<fieldVars, size, array, mutexVars, callVars, pc, localVars>>

Call(t) == Head(todo[t])
Calling(t, name) == todo[t] # <<>> /\ Call(t).op = name
Key(t) == Call(t).key

Goto(t, step) == pc' = [pc EXCEPT ![t] = step]
Return(t, r) == /\ ret' = [ret EXCEPT ![t] = r]
                /\ todo' = [todo EXCEPT ![t] = Tail(@)]
                /\ Goto(t, "retry")

Exclusive(t, l) == /\ writer[l] = Nobody /\ readers[l] = {}
                   /\ writer' = [writer EXCEPT ![l] = t]
                   /\ UNCHANGED readers
Shared(t, l) == /\ writer[l] = Nobody
                /\ readers' = [readers EXCEPT ![l] = @ \cup {t}]
                /\ UNCHANGED writer
Unlock(t, l) == /\ writer' = [writer EXCEPT ![l] = IF @ = t THEN Nobody ELSE @]
                /\ readers' = [readers EXCEPT ![l] = @ \ {t}]

nlocks(cap) == cap \div locksize + 1

Empty(cap) == [x \in 0..(cap-1) |-> INVALID]

Init ==
  /\ todo \in Workloads
  /\ dict = 1 /\ mutex = 1 /\ capacity = InitCapacity
  /\ size = 0 /\ resizing_lock = 0
  /\ array = <<Empty(InitCapacity)>>
  /\ writer = [l \in Locks |-> Nobody]
  /\ readers = [l \in Locks |-> {}]
  /\ ret = [t \in Threads |-> NONE]
  /\ pc = [t \in Threads |-> "retry"]
  /\ i = [t \in Threads |-> 0]
  /\ slot = [t \in Threads |-> 0]
  /\ lock = [t \in Threads |-> <<1, 0>>]
  /\ from = [t \in Threads |-> 1]
  /\ size_ = [t \in Threads |-> 0]

-----------------------------------------------------------------------------
(* The search for a slot, the same in the four operations.                 *)

\* while(resizing_lock)
AwaitResize(t) ==
  /\ pc[t] = "retry" /\ todo[t] # <<>> /\ resizing_lock = 0
  /\ i' = [i EXCEPT ![t] = 0]
  /\ Goto(t, IF Calling(t, "Insert") THEN "test" ELSE "pick")
  /\ UNCHANGED <<fieldVars, size, array, mutexVars, callVars, slot, lock, from, size_>>

TestSize_AnyRoom(t) ==
  /\ pc[t] = "test"
  /\ Goto(t, IF size <= capacity THEN "pick" ELSE "cas")
  /\ UNCHANGED <<fieldVars, size, array, mutexVars, callVars, localVars>>

\* Insert only: a table that is full enough is resized first
TestSize(t) ==
  /\ pc[t] = "test"
  /\ Goto(t, IF 100 * size < capacity * kResizingThreshold THEN "pick" ELSE "cas")
  /\ UNCHANGED <<fieldVars, size, array, mutexVars, callVars, localVars>>

PickSlot_ByIndex(t) ==
  /\ pc[t] = "pick" /\ i[t] < capacity
  /\ slot' = [slot EXCEPT ![t] = (Hash[Key(t)] + i[t]) % capacity]
  /\ lock' = [lock EXCEPT ![t] = <<mutex, slot'[t] % locksize>>]
  /\ Goto(t, "lock")
  /\ UNCHANGED <<fieldVars, size, array, mutexVars, callVars, i, from, size_>>

PickSlot(t) ==
  /\ pc[t] = "pick" /\ i[t] < capacity
  /\ slot' = [slot EXCEPT ![t] = (Hash[Key(t)] + i[t]) % capacity]
  /\ lock' = [lock EXCEPT ![t] = <<mutex, slot'[t] \div locksize>>]
  /\ Goto(t, "lock")
  /\ UNCHANGED <<fieldVars, size, array, mutexVars, callVars, i, from, size_>>

\* the whole table has been searched
Exhausted(t) ==
  /\ pc[t] = "pick" /\ i[t] >= capacity
  /\ CASE Calling(t, "Insert") -> Goto(t, "retry") /\ UNCHANGED callVars
       [] Calling(t, "Get")    -> Return(t, NONE)
       [] OTHER                -> Return(t, FALSE)
  /\ UNCHANGED <<fieldVars, size, array, mutexVars, localVars>>

LockSlot(t) ==
  /\ pc[t] = "lock"
  /\ IF Calling(t, "Get") THEN Shared(t, lock[t]) ELSE Exclusive(t, lock[t])
  /\ from' = [from EXCEPT ![t] = dict]
  /\ Goto(t, "look")
  /\ UNCHANGED <<fieldVars, size, array, callVars, i, slot, lock, size_>>

\* the array t works on: a build may keep dict while it holds the lock or load it again
Kept(t) == {from[t], dict}

\* what the slot of t may read as
Read(t) ==
  UNION {IF slot[t] \in DOMAIN array[d] THEN {array[d][slot[t]]} ELSE Pair \cup {INVALID} :
           d \in Kept(t)}

Holds(p, k) == p # INVALID /\ p.key = k

\* Insert has found an empty slot, Update or Delete the one of its key
LookHit(t) ==
  /\ pc[t] = "look" /\ ~ Calling(t, "Get")
  /\ \E p \in Read(t) : IF Calling(t, "Insert") THEN p = INVALID ELSE Holds(p, Key(t))
  /\ Goto(t, "write")
  /\ UNCHANGED <<fieldVars, size, array, mutexVars, callVars, localVars>>

GetHit(t) ==
  /\ pc[t] = "look" /\ Calling(t, "Get")
  /\ \E p \in Read(t) : Holds(p, Key(t)) /\ Return(t, p.value)
  /\ Unlock(t, lock[t])
  /\ UNCHANGED <<fieldVars, size, array, localVars>>

\* Insert goes on to the next slot under the same lock while it can
InsertMiss_KeepingLock(t) ==
  LET next == (Hash[Key(t)] + i[t] + 1) % capacity IN
  /\ pc[t] = "look" /\ Calling(t, "Insert")
  /\ \E p \in Read(t) : p # INVALID
  /\ i' = [i EXCEPT ![t] = @ + 1]
  /\ slot' = [slot EXCEPT ![t] = next]
  /\ IF i[t] + 1 < capacity
     THEN UNCHANGED <<pc, mutexVars>>
     ELSE Goto(t, "pick") /\ Unlock(t, lock[t])
  /\ UNCHANGED <<fieldVars, size, array, callVars, lock, from, size_>>

InsertMiss(t) ==
  LET next == (Hash[Key(t)] + i[t] + 1) % capacity IN
  /\ pc[t] = "look" /\ Calling(t, "Insert")
  /\ \E p \in Read(t) : p # INVALID
  /\ i' = [i EXCEPT ![t] = @ + 1]
  /\ slot' = [slot EXCEPT ![t] = next]
  /\ IF i[t] + 1 < capacity /\ next % locksize # 0
     THEN UNCHANGED <<pc, mutexVars>>
     ELSE Goto(t, "pick") /\ Unlock(t, lock[t])
  /\ UNCHANGED <<fieldVars, size, array, callVars, lock, from, size_>>

LookMiss(t) ==
  /\ pc[t] = "look" /\ ~ Calling(t, "Insert")
  /\ \E p \in Read(t) : ~ Holds(p, Key(t))
  /\ i' = [i EXCEPT ![t] = @ + 1]
  /\ Unlock(t, lock[t])
  /\ Goto(t, "pick")
  /\ UNCHANGED <<fieldVars, size, array, callVars, slot, lock, from, size_>>

-----------------------------------------------------------------------------
(* What an operation does to the slot it has found.                        *)

Put_WithoutValue(t) ==
  /\ pc[t] = "write" /\ Calling(t, "Insert")
  /\ \E d \in Kept(t) :
       array' = [array EXCEPT ![d][slot[t]] = [key |-> Key(t), value |-> NONE]]
  /\ size_' = [size_ EXCEPT ![t] = size]
  /\ Goto(t, "count")
  /\ UNCHANGED <<fieldVars, size, mutexVars, callVars, i, slot, lock, from>>

\* the pair goes into the slot, and _size is loaded
Put(t) ==
  /\ pc[t] = "write" /\ Calling(t, "Insert")
  /\ \E d \in Kept(t) :
       array' = [array EXCEPT ![d][slot[t]] = [key |-> Key(t), value |-> Call(t).value]]
  /\ size_' = [size_ EXCEPT ![t] = size]
  /\ Goto(t, "count")
  /\ UNCHANGED <<fieldVars, size, mutexVars, callVars, i, slot, lock, from>>

Count_Blind(t) ==
  /\ pc[t] = "count"
  /\ size' = size_[t] + 1
  /\ Unlock(t, lock[t]) /\ Return(t, NONE)
  /\ UNCHANGED <<fieldVars, array, localVars>>

\* one turn of the loop around the compare-and-swap on size
Count(t) ==
  /\ pc[t] = "count"
  /\ IF size = size_[t]
     THEN /\ size' = size + 1
          /\ Unlock(t, lock[t]) /\ Return(t, NONE)
          /\ UNCHANGED size_
     ELSE /\ size_' = [size_ EXCEPT ![t] = size]
          /\ UNCHANGED <<size, mutexVars, callVars, pc>>
  /\ UNCHANGED <<fieldVars, array, i, slot, lock, from>>

Update(t) ==
  /\ pc[t] = "write" /\ Calling(t, "Update")
  /\ \E d \in Kept(t) :
       array' = [array EXCEPT ![d][slot[t]] =
                   IF @ = INVALID THEN @ ELSE [@ EXCEPT !.value = Call(t).value]]
  /\ Unlock(t, lock[t]) /\ Return(t, TRUE)
  /\ UNCHANGED <<fieldVars, size, localVars>>

Delete(t) ==
  /\ pc[t] = "write" /\ Calling(t, "Delete")
  /\ \E d \in Kept(t) : array' = [array EXCEPT ![d][slot[t]] = INVALID]
  /\ Unlock(t, lock[t]) /\ Return(t, TRUE)
  /\ UNCHANGED <<fieldVars, size, localVars>>

-----------------------------------------------------------------------------
(* Resizing.                                                               *)

TryResize_OffByOne(t) ==
  /\ pc[t] = "cas"
  /\ IF resizing_lock = 0 THEN resizing_lock' = 1 /\ Goto(t, "lock_all")
                          ELSE UNCHANGED resizing_lock /\ Goto(t, "retry")
  /\ i' = [i EXCEPT ![t] = 1]
  /\ UNCHANGED <<dict, capacity, mutex, size, array, mutexVars, callVars, slot, lock, from, size_>>

TryResize(t) ==
  /\ pc[t] = "cas"
  /\ IF resizing_lock = 0 THEN resizing_lock' = 1 /\ Goto(t, "lock_all")
                          ELSE UNCHANGED resizing_lock /\ Goto(t, "retry")
  /\ i' = [i EXCEPT ![t] = 0]
  /\ UNCHANGED <<dict, capacity, mutex, size, array, mutexVars, callVars, slot, lock, from, size_>>

LockAll(t) ==
  /\ pc[t] = "lock_all" /\ i[t] < nlocks(capacity)
  /\ Exclusive(t, <<mutex, i[t]>>)
  /\ i' = [i EXCEPT ![t] = @ + 1]
  /\ UNCHANGED <<fieldVars, size, array, callVars, pc, slot, lock, from, size_>>

Allocate_Regrown(t) ==
  /\ pc[t] = "lock_all" /\ i[t] >= nlocks(capacity)
  /\ Len(array) < MaxTables /\ 2 * capacity <= MaxCapacity
  /\ array' = Append(array, [x \in 0..(2 * capacity - 1) |->
                              IF x < capacity THEN array[dict][x] ELSE INVALID])
  /\ i' = [i EXCEPT ![t] = 0]
  /\ Goto(t, "copy")
  /\ UNCHANGED <<fieldVars, size, mutexVars, callVars, slot, lock, from, size_>>

\* the new array and its mutexes, which nobody else knows of before SetMutex
Allocate(t) ==
  /\ pc[t] = "lock_all" /\ i[t] >= nlocks(capacity)
  /\ Len(array) < MaxTables /\ 2 * capacity <= MaxCapacity
  /\ array' = Append(array, Empty(2 * capacity))
  /\ i' = [i EXCEPT ![t] = 0]
  /\ Goto(t, "copy")
  /\ UNCHANGED <<fieldVars, size, mutexVars, callVars, slot, lock, from, size_>>

\* the first free slot of the array d from that of hash value h on
getLocation(h, cap, d) ==
  LET free == {n \in 0..(cap-1) : d[(h + n) % cap] = INVALID}
  IN  IF free = {} THEN -1 ELSE (h + CHOOSE n \in free : \A m \in free : n <= m) % cap

CopySlot_Unprobed(t) ==
  LET p == array[dict][i[t]]
      loc == Hash[p.key] % (2 * capacity)
  IN
  /\ pc[t] = "copy" /\ i[t] < capacity
  /\ array' = IF p = INVALID THEN array ELSE [array EXCEPT ![Len(array)][loc] = p]
  /\ i' = [i EXCEPT ![t] = @ + 1]
  /\ UNCHANGED <<fieldVars, size, mutexVars, callVars, pc, slot, lock, from, size_>>

CopySlot(t) ==
  LET p == array[dict][i[t]]
      loc == getLocation(Hash[p.key], 2 * capacity, array[Len(array)])
  IN
  /\ pc[t] = "copy" /\ i[t] < capacity
  /\ array' = IF p = INVALID THEN array ELSE [array EXCEPT ![Len(array)][loc] = p]
  /\ i' = [i EXCEPT ![t] = @ + 1]
  /\ UNCHANGED <<fieldVars, size, mutexVars, callVars, pc, slot, lock, from, size_>>

SetMutex(t) ==
  /\ pc[t] = "copy" /\ i[t] >= capacity
  /\ mutex' = Len(array) /\ Goto(t, "set_capacity")
  /\ UNCHANGED <<dict, capacity, resizing_lock, size, array, mutexVars, callVars, localVars>>

SetCapacity(t) ==
  /\ pc[t] = "set_capacity"
  /\ capacity' = 2 * capacity /\ Goto(t, "set_dict")
  /\ UNCHANGED <<dict, mutex, resizing_lock, size, array, mutexVars, callVars, localVars>>

SetDict(t) ==
  /\ pc[t] = "set_dict"
  /\ dict' = Len(array) /\ i' = [i EXCEPT ![t] = 0] /\ Goto(t, "unlock_all")
  /\ UNCHANGED <<capacity, mutex, resizing_lock, size, array, mutexVars, callVars, slot, lock, from, size_>>

\* the locks of the array before the new one, in order
UnlockAll(t) ==
  /\ pc[t] = "unlock_all" /\ i[t] < nlocks(capacity \div 2)
  /\ Unlock(t, <<mutex - 1, i[t]>>)
  /\ i' = [i EXCEPT ![t] = @ + 1]
  /\ UNCHANGED <<fieldVars, size, array, callVars, pc, slot, lock, from, size_>>

EndResize(t) ==
  /\ pc[t] = "unlock_all" /\ i[t] >= nlocks(capacity \div 2)
  /\ resizing_lock' = 0 /\ Goto(t, "retry")
  /\ UNCHANGED <<dict, capacity, mutex, size, array, mutexVars, callVars, localVars>>

-----------------------------------------------------------------------------
Step(t) ==
  \/ AwaitResize(t) \/ TestSize(t) \/ PickSlot(t) \/ Exhausted(t) \/ LockSlot(t)
  \/ LookHit(t) \/ GetHit(t) \/ InsertMiss(t) \/ LookMiss(t)
  \/ Put(t) \/ Count(t) \/ Update(t) \/ Delete(t)
  \/ TryResize(t) \/ LockAll(t) \/ Allocate(t) \/ CopySlot(t)
  \/ SetMutex(t) \/ SetCapacity(t) \/ SetDict(t) \/ UnlockAll(t) \/ EndResize(t)

Terminated == /\ \A t \in Threads : todo[t] = <<>>
              /\ UNCHANGED vars

Next == (\E t \in Threads : Step(t)) \/ Terminated

Spec == Init /\ [][Next]_vars
FairSpec == Spec /\ \A t \in Threads : WF_vars(Step(t))

-----------------------------------------------------------------------------
\* the slots Utilization() counts
Occupied == {x \in DOMAIN array[dict] : array[dict][x] # INVALID}

\* what a Get that ran alone would return for each key
Table ==
  [k \in Keys |-> LET found == {x \in DOMAIN array[dict] : Holds(array[dict][x], k)}
                  IN  IF found = {} THEN NONE
                      ELSE array[dict][CHOOSE x \in found : TRUE].value]

-----------------------------------------------------------------------------
(* The properties.                                                         *)

Searching == {"look", "write", "count"}

\* The variables keep their types.
TypeOK ==
  /\ dict \in 1..Len(array) /\ mutex \in 1..Len(array) /\ Len(array) <= MaxTables
  /\ capacity \in 1..MaxCapacity /\ size \in Nat /\ resizing_lock \in {0, 1}
  /\ DOMAIN array = 1..Len(array)
  /\ \A d \in DOMAIN array : \E cap \in 1..MaxCapacity :
       array[d] \in [0..(cap-1) -> Pair \cup {INVALID}]
  /\ writer \in [Locks -> Threads \cup {Nobody}]
  /\ readers \in [Locks -> SUBSET Threads]
  /\ pc \in [Threads -> {"retry", "test", "pick", "lock", "cas", "lock_all", "copy",
                         "set_capacity", "set_dict", "unlock_all"} \cup Searching]
  /\ i \in [Threads -> Nat] /\ slot \in [Threads -> Nat] /\ size_ \in [Threads -> Nat]
  /\ lock \in [Threads -> Locks] /\ from \in [Threads -> 1..Len(array)]
  /\ todo \in [Threads -> Seq(Calls)]
  /\ ret \in [Threads -> Values \cup {NONE} \cup BOOLEAN]

\* Until resize() puts new mutexes in the place of those a thread may have waited
\* for, no two threads are at one slot, but for Gets, and when the slots are
\* copied nobody is at any.
GuardedUntilResized ==
  mutex = 1 =>
    \A t, u \in Threads : t # u /\ pc[t] \in Searching =>
      /\ pc[u] \in Searching /\ slot[t] = slot[u] => Calling(t, "Get") /\ Calling(u, "Get")
      /\ pc[u] # "copy"

\* `size`, which decides when to resize, never counts fewer pairs than there are,
\* so that an insertion that passes the test of line 88 finds a slot in the end.
SizeBoundsPairs ==
  Cardinality(Occupied) <= size + Cardinality({t \in Threads : pc[t] = "count"})

\* Every key is in one slot at most: Utilization() counts what Get would find.
CountedOnce == Cardinality(Occupied) = Cardinality({k \in Keys : Table[k] # NONE})

\* What test/hashtable_test.cpp counts as failed searches: once the threads
\* that inserted every key have been joined, a key that Get does not find.
NoFailedSearch ==
  (\A t \in Threads : todo[t] = <<>>) => \A k \in Keys : Table[k] # NONE

\* Every thread gets through its calls: no wait and no retry goes on for ever.
EveryCallReturns == <>(\A t \in Threads : todo[t] = <<>>)
============================================================================
