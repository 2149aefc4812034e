-------------------------- MODULE CuckooHash_proofs --------------------------
(***************************************************************************)
(* For any number of threads, keys, slots and stripes: the types of         *)
(* CuckooHash, that one thread at a time searches for a path or resizes,    *)
(* that the mutexes guard the slots until they are replaced, and that until *)
(* then a path that is moved is one and the table is MovingMap              *)
(* (ImplementsMoving, of CuckooHashScans).                                  *)
(*                                                                         *)
(* What the mutexes guard needs what a thread's lock has to do with its     *)
(* slot (Striped), that it holds the lock (Held), that it holds those of a  *)
(* path it is about to move (PathHeld) and all of them when it fills a new  *)
(* table (AllHeld).  The types of the tables need that a table is as long   *)
(* as the capacity that goes with it (Sized), and for that resize() is      *)
(* alone (OneHolder).                                                       *)
(*                                                                         *)
(* What the paths need is in Calm: that an entry a search has recorded is  *)
(* right, or wrong for good, so that the checks of lines 210-226 find it.  *)
(* What the promise needs is in RInv: that no call has passed its key by   *)
(* without having seen it missing, or moved.                               *)
(*                                                                         *)
(* After a resize all of this is gone, but not for calls that do not overlap*)
(* (OneAtATime).  SInv says that there is one table that counts, which is  *)
(* the old one while a new one is filled and the one before the first move *)
(* while keys are moved, and what the thread at work knows of it.          *)
(***************************************************************************)
EXTENDS CuckooHashScans, CuckooFilling_proofs

-----------------------------------------------------------------------------
(* The inductive invariant.                                                *)

Arrays == UNION {Tables(cap) : cap \in 1..MaxCapacity}

\* The steps of an insertion that has found its places taken, and of nothing else.
Making == Holding \cup {"cas", "move"}

\* TypeOK, and that the tables form a sequence; a thread on its way has a call.
Typed ==
  /\ TypeOK
  /\ array \in Seq(Arrays)
  /\ \A t \in Threads : /\ pc[t] # "retry" => todo[t] # <<>>
                        /\ pc[t] \in Making => Calling(t, "Insert")
                        /\ pc[t] = "write" => ~ Calling(t, "Get")

\* The table of a capacity is as long as it says.
Sized ==
  /\ (\A t \in Threads : pc[t] # "allocate") => DOMAIN array[table] = 0..(capacity-1)
  /\ \A t \in Threads :
       /\ pc[t] \in {"save_tab", "lock_all"} => old_cap = capacity
       /\ pc[t] = "lock_all" => old_tab = table
       /\ pc[t] \in {"grow", "allocate", "refill"} =>
            old_tab # 0 /\ old_cap # 0 /\ DOMAIN array[old_tab] = 0..(old_cap-1)
       /\ pc[t] \in {"grow", "refill", "set_mutex"} => table >= 2
       /\ pc[t] = "allocate" => Len(array) < MaxTables

\* The mutex a thread waits for or has at a slot is that of the slot.
Striped ==
  mutex = 1 => \A t \in Threads : pc[t] \in {"lock", "look", "write"} =>
                 lock[t] = <<1, Slot(t) \div locksize>>

\* A thread at a slot holds its mutex, as its operation asked for it.
Held ==
  \A t \in Threads : pc[t] \in {"look", "write"} =>
    /\ Calling(t, "Get") => t \in readers[lock[t]]
    /\ ~ Calling(t, "Get") => writer[lock[t]] = t

\* A mutex held exclusively has no readers.
Exclusion == \A l \in Locks : writer[l] # Nobody => readers[l] = {}

\* The mutexes of a path whose keys are compared and moved.
PathHeld ==
  mutex = 1 => \A t \in Threads : pc[t] \in {"check", "move"} =>
    \A j \in DOMAIN path[t] : writer[<<1, path[t][j].slot \div locksize>>] = t

\* The mutexes that resize() has taken so far, and later all of them.
AllHeld ==
  mutex = 1 => \A t \in Threads : \A k \in 0..MaxCapacity :
    \/ pc[t] = "lock_all" /\ k < i[t]
    \/ pc[t] \in {"grow", "allocate", "refill"} /\ k < nlocks(old_cap)
    => writer[<<1, k>>] = t

IInv == /\ Typed /\ OneHolder /\ Sized
        /\ Striped /\ Held /\ Exclusion /\ PathHeld /\ AllHeld

-----------------------------------------------------------------------------
(* The constants, and what a call is made of.                              *)

\* What the assumptions say of the bounds.
LEMMA Bounds ==
  /\ MaxCapacity \in Nat /\ InitCapacity \in 1..MaxCapacity /\ MaxTables \in Nat /\ MaxTables >= 1
  /\ locksize \in Nat /\ locksize >= 1 /\ Nobody \notin Threads
  /\ kCuckooThreshold \in Nat /\ kCuckooThreshold >= 1 /\ INVALID \notin Keys
  /\ INVALID \notin Pair
BY CuckooAssumption, PathAssumption DEF Pair

\* The call a thread has begun, its key and what remains.
LEMMA CallType ==
  ASSUME Typed, NEW t \in Threads, todo[t] # <<>>
  PROVE  /\ Call(t) \in Calls /\ Key(t) \in Keys /\ Tail(todo[t]) \in Seq(Calls)
         /\ Calling(t, "Insert") \/ Calling(t, "Update") => Call(t).value \in Values
<1>1. todo[t] \in Seq(Calls)
  BY DEF Typed, TypeOK
<1>2. Head(todo[t]) \in Calls /\ Tail(todo[t]) \in Seq(Calls)
  BY <1>1
<1>3. Key(t) \in Keys
  BY <1>2 DEF Call, Key, Calls
<1> QED
  BY <1>2, <1>3 DEF Call, Key, Calls, Calling

\* The places of a key are slots of any table.
LEMMA PlacesBelow ==
  ASSUME NEW k \in Keys \cup {INVALID}, NEW cap \in 1..MaxCapacity
  PROVE  f_idx(k, cap) \in 0..(MaxCapacity-1) /\ s_idx(k, cap) \in 0..(MaxCapacity-1)
<1>1. cap \in Nat /\ cap >= 1 /\ cap <= MaxCapacity
  BY Bounds
<1>2. f_idx(k, cap) \in 0..(cap-1) /\ s_idx(k, cap) \in 0..(cap-1)
  BY <1>1, PlacesType DEF Slots
<1> QED
  BY <1>1, <1>2, Bounds

\* A slot has a stripe, and one below a capacity one of the mutexes of that capacity.
LEMMA Stripe ==
  ASSUME NEW cap \in 0..MaxCapacity, NEW x \in Nat, x <= cap
  PROVE  /\ x \div locksize \in 0..MaxCapacity /\ x \div locksize < nlocks(cap)
         /\ nlocks(cap) \in Nat /\ nlocks(cap) <= MaxCapacity + 1
<1>1. cap \in Nat /\ cap <= MaxCapacity
  BY Bounds
<1>2. x \div locksize <= cap \div locksize /\ cap \div locksize <= cap
  BY <1>1, Bounds, DivMonotonic
<1>3. x \div locksize \in Nat /\ cap \div locksize \in Nat
  BY <1>1, Bounds, Euclid
<1> QED
  BY <1>1, <1>2, <1>3, Bounds DEF nlocks

\* Nothing about a thread changes but by its own steps.
LEMMA Others ==
  ASSUME TypeOK, NEW t \in Threads, Step(t), NEW u \in Threads, u # t
  PROVE  /\ pc'[u] = pc[u] /\ todo'[u] = todo[u] /\ i'[u] = i[u] /\ path'[u] = path[u]
         /\ places'[u] = places[u] /\ n'[u] = n[u] /\ old'[u] = old[u]
         /\ lock'[u] = lock[u] /\ from'[u] = from[u]
         /\ hash'[u] = hash[u] /\ path1'[u] = path1[u]
<1> USE DEF TypeOK, Goto, Return, callVars, probeVars, pathVars, searchFrame, resizeFrame, PathDone
<1>1. CASE AwaitResize(t) \/ PickPlaces(t) \/ BeginGet(t) \/ PickPlace(t) \/ DivideByZero(t)
  BY <1>1 DEF AwaitResize, PickPlaces, BeginGet, PickPlace, DivideByZero
<1>2. CASE Aim(t) \/ LockPlace(t) \/ ReadNothing(t) \/ LookHit(t) \/ GetHit(t)
  BY <1>2 DEF Aim, LockPlace, ReadNothing, LookHit, GetHit
<1>3. CASE LookOn(t) \/ LookMiss(t) \/ Put(t) \/ Update(t) \/ Delete(t)
  BY <1>3 DEF LookOn, LookMiss, Put, Update, Delete
<1>9. ASSUME NEW p, PathDone(t, p)
      PROVE  /\ pc'[u] = pc[u] /\ path'[u] = path[u] /\ n'[u] = n[u] /\ path1'[u] = path1[u]
  <2>1. u \in DOMAIN pc /\ u \in DOMAIN path /\ u \in DOMAIN n /\ u \in DOMAIN path1
    OBVIOUS
  <2> HIDE DEF TypeOK
  <2>2. CASE n[t] = 1
    BY <1>9, <2>1, <2>2
  <2>3. CASE n[t] # 1
    BY <1>9, <2>1, <2>3
  <2> QED
    BY <2>2, <2>3
<1> HIDE DEF PathDone
<1>4. CASE TryCuckoo(t) \/ BeginPath(t) \/ TestKey(t) \/ HashFirst(t) \/ HashSecond(t)
  BY <1>4, <1>9 DEF TryCuckoo, BeginPath, TestKey, HashFirst, HashSecond
<1>5. CASE PushSlot(t) \/ ChoosePath(t) \/ LockPath(t) \/ PathLocked(t) \/ CheckEntry(t)
  <2>1. CASE PushSlot(t)
    BY <1>9, <2>1 DEF PushSlot
  <2>2. CASE ChoosePath(t)
    BY <2>2 DEF ChoosePath
  <2>3. CASE LockPath(t) \/ PathLocked(t)
    BY <2>3 DEF LockPath, PathLocked
  <2>4. CASE CheckEntry(t)
    BY <2>4 DEF CheckEntry
  <2> QED
    BY <1>5, <2>1, <2>2, <2>3, <2>4
<1>6. CASE Checked(t) \/ MoveEntry(t) \/ PutFirst(t) \/ SaveCapacity(t) \/ SaveTable(t)
  BY <1>6 DEF Checked, MoveEntry, PutFirst, SaveCapacity, SaveTable
<1>7. CASE LockAll(t) \/ Grow(t) \/ Allocate(t) \/ Reinsert(t)
  BY <1>7 DEF LockAll, Grow, Allocate, Reinsert
<1>8. CASE UnlockAll(t) \/ SetMutex(t) \/ EndResize(t)
  BY <1>8 DEF UnlockAll, SetMutex, EndResize
<1> QED
  BY <1>1, <1>2, <1>3, <1>4, <1>5, <1>6, <1>7, <1>8 DEF Step, Look, Displace, Resize

\* Which steps change what the threads share.
LEMMA Frames ==
  ASSUME NEW t \in Threads, Step(t)
  PROVE  /\ Grow(t) \/ capacity' = capacity
         /\ Allocate(t) \/ table' = table
         /\ SetMutex(t) \/ mutex' = mutex
         /\ SaveCapacity(t) \/ old_cap' = old_cap
         /\ SaveTable(t) \/ old_tab' = old_tab
         /\ TryCuckoo(t) \/ Checked(t) \/ EndResize(t) \/ resizing_lock' = resizing_lock
         /\ \/ Put(t) \/ Update(t) \/ Delete(t) \/ MoveEntry(t) \/ PutFirst(t)
            \/ Allocate(t) \/ Reinsert(t) \/ array' = array
<1> USE DEF fieldVars, searchFrame
<1>1. CASE AwaitResize(t) \/ PickPlaces(t) \/ BeginGet(t) \/ PickPlace(t) \/ DivideByZero(t)
  BY <1>1 DEF AwaitResize, PickPlaces, BeginGet, PickPlace, DivideByZero
<1>2. CASE Aim(t) \/ LockPlace(t) \/ ReadNothing(t) \/ LookHit(t) \/ GetHit(t)
  BY <1>2 DEF Aim, LockPlace, ReadNothing, LookHit, GetHit
<1>3. CASE LookOn(t) \/ LookMiss(t) \/ Put(t) \/ Update(t) \/ Delete(t)
  BY <1>3 DEF LookOn, LookMiss, Put, Update, Delete
<1>4. CASE TryCuckoo(t) \/ BeginPath(t) \/ TestKey(t) \/ HashFirst(t) \/ HashSecond(t)
  BY <1>4 DEF TryCuckoo, BeginPath, TestKey, HashFirst, HashSecond
<1>5. CASE PushSlot(t) \/ ChoosePath(t) \/ LockPath(t) \/ PathLocked(t) \/ CheckEntry(t)
  BY <1>5 DEF PushSlot, ChoosePath, LockPath, PathLocked, CheckEntry
<1>6. CASE Checked(t) \/ MoveEntry(t) \/ PutFirst(t) \/ SaveCapacity(t) \/ SaveTable(t)
  BY <1>6 DEF Checked, MoveEntry, PutFirst, SaveCapacity, SaveTable
<1>7. CASE LockAll(t) \/ Grow(t) \/ Allocate(t) \/ Reinsert(t)
  BY <1>7 DEF LockAll, Grow, Allocate, Reinsert
<1>8. CASE UnlockAll(t) \/ SetMutex(t) \/ EndResize(t)
  BY <1>8 DEF UnlockAll, SetMutex, EndResize
<1> QED
  BY <1>1, <1>2, <1>3, <1>4, <1>5, <1>6, <1>7, <1>8 DEF Step, Look, Displace, Resize

\* A step locks or unlocks one mutex at most, but for what is unlocked all at once.
LEMMA MutexFrame ==
  ASSUME NEW t \in Threads, Step(t)
  PROVE  \/ UNCHANGED mutexVars
         \/ \E l : Exclusive(t, l) \/ Shared(t, l)
         \/ Release(t)
<1> USE DEF searchFrame, resizeFrame
<1>1. CASE AwaitResize(t) \/ PickPlaces(t) \/ BeginGet(t) \/ PickPlace(t) \/ DivideByZero(t)
  BY <1>1 DEF AwaitResize, PickPlaces, BeginGet, PickPlace, DivideByZero
<1>2. CASE Aim(t) \/ LockPlace(t) \/ ReadNothing(t) \/ LookHit(t) \/ GetHit(t)
  BY <1>2 DEF Aim, LockPlace, ReadNothing, LookHit, GetHit
<1>3. CASE LookOn(t) \/ LookMiss(t) \/ Put(t) \/ Update(t) \/ Delete(t)
  BY <1>3 DEF LookOn, LookMiss, Put, Update, Delete
<1>4. CASE TryCuckoo(t) \/ BeginPath(t) \/ TestKey(t) \/ HashFirst(t) \/ HashSecond(t)
  BY <1>4 DEF TryCuckoo, BeginPath, TestKey, HashFirst, HashSecond
<1>5. CASE PushSlot(t) \/ ChoosePath(t) \/ LockPath(t) \/ PathLocked(t) \/ CheckEntry(t)
  BY <1>5 DEF PushSlot, ChoosePath, LockPath, PathLocked, CheckEntry
<1>6. CASE Checked(t) \/ MoveEntry(t) \/ PutFirst(t) \/ SaveCapacity(t) \/ SaveTable(t)
  BY <1>6 DEF Checked, MoveEntry, PutFirst, SaveCapacity, SaveTable
<1>7. CASE LockAll(t) \/ Grow(t) \/ Allocate(t) \/ Reinsert(t)
  BY <1>7 DEF LockAll, Grow, Allocate, Reinsert
<1>8. CASE UnlockAll(t) \/ SetMutex(t) \/ EndResize(t)
  BY <1>8 DEF UnlockAll, SetMutex, EndResize
<1> QED
  BY <1>1, <1>2, <1>3, <1>4, <1>5, <1>6, <1>7, <1>8 DEF Step, Look, Displace, Resize

-----------------------------------------------------------------------------
(* The types.                                                              *)

\* A table, and what is in its slots.
LEMMA ArrayType ==
  ASSUME NEW a \in Seq(Arrays)
  PROVE  /\ Len(a) \in Nat /\ DOMAIN a = 1..Len(a)
         /\ \A d \in 1..Len(a) :
              /\ \E cap \in 1..MaxCapacity : a[d] \in Tables(cap)
              /\ \A x \in DOMAIN a[d] : a[d][x] \in Pair \cup {INVALID}
              /\ \A cap \in Nat : DOMAIN a[d] = 0..(cap-1) => a[d] \in Tables(cap)
<1>1. Len(a) \in Nat /\ DOMAIN a = 1..Len(a)
  OBVIOUS
<1>2. ASSUME NEW d \in 1..Len(a)
      PROVE  /\ \E cap \in 1..MaxCapacity : a[d] \in Tables(cap)
             /\ \A x \in DOMAIN a[d] : a[d][x] \in Pair \cup {INVALID}
             /\ \A cap \in Nat : DOMAIN a[d] = 0..(cap-1) => a[d] \in Tables(cap)
  <2>1. a[d] \in Arrays
    OBVIOUS
  <2>2. PICK cap \in 1..MaxCapacity : a[d] \in Tables(cap)
    BY <2>1 DEF Arrays
  <2>3. \A x \in DOMAIN a[d] : a[d][x] \in Pair \cup {INVALID}
    BY <2>2 DEF Tables
  <2>4. a[d] = [x \in DOMAIN a[d] |-> a[d][x]]
    BY <2>2 DEF Tables
  <2>5. ASSUME NEW b \in Nat, DOMAIN a[d] = 0..(b-1) PROVE a[d] \in Tables(b)
    BY <2>3, <2>4, <2>5 DEF Tables
  <2> QED
    BY <2>2, <2>3, <2>5
<1> QED
  BY <1>1, <1>2

\* Putting another table of the same slots in the place of one.
LEMMA ReplaceType ==
  ASSUME array \in Seq(Arrays), NEW d \in 1..Len(array), NEW tab \in Arrays,
         DOMAIN tab = DOMAIN array[d],
         array' = [array EXCEPT ![d] = tab]
  PROVE  /\ array' \in Seq(Arrays) /\ Len(array') = Len(array)
         /\ \A e \in 1..Len(array) : DOMAIN array'[e] = DOMAIN array[e]
<1>1. array' \in Seq(Arrays) /\ Len(array') = Len(array)
  OBVIOUS
<1>2. ASSUME NEW e \in 1..Len(array) PROVE DOMAIN array'[e] = DOMAIN array[e]
  <2>1. CASE e = d
    <3>1. array'[d] = tab
      OBVIOUS
    <3> QED
      BY <2>1, <3>1
  <2>2. CASE e # d
    BY <2>2
  <2> QED
    BY <2>1, <2>2
<1> QED
  BY <1>1, <1>2

\* Storing a pair to a slot, be it there or not, leaves a table of the same slots.
LEMMA StoreType ==
  ASSUME array \in Seq(Arrays), NEW d \in 1..Len(array), NEW x, NEW p,
         x \in DOMAIN array[d] => p \in Pair \cup {INVALID},
         array' = [array EXCEPT ![d] = [array[d] EXCEPT ![x] = p]]
  PROVE  /\ array' \in Seq(Arrays) /\ Len(array') = Len(array)
         /\ \A e \in 1..Len(array) : DOMAIN array'[e] = DOMAIN array[e]
<1>1. PICK cap \in 1..MaxCapacity : array[d] \in Tables(cap)
  BY ArrayType
<1> DEFINE tab == [array[d] EXCEPT ![x] = p]
<1>2. tab \in Tables(cap) /\ DOMAIN tab = DOMAIN array[d]
  BY <1>1 DEF Tables
<1>3. tab \in Arrays
  BY <1>2 DEF Arrays
<1>4. array' = [array EXCEPT ![d] = tab]
  OBVIOUS
<1> HIDE DEF tab
<1> QED
  BY <1>2, <1>3, <1>4, ReplaceType

\* What a slot may read as, inside the table or beyond it.
LEMMA ReadType ==
  ASSUME Typed, NEW d \in 0..Len(array), NEW x, NEW p \in Read(d, x)
  PROVE  p \in Pair \cup {INVALID} /\ KeyOf(p) \in Keys \cup {INVALID}
<1>1. p \in Pair \cup {INVALID}
  <2>1. CASE d # 0 /\ x \in DOMAIN array[d]
    <3>1. d \in 1..Len(array)
      BY <2>1 DEF Typed
    <3> QED
      BY <2>1, <3>1, ArrayType DEF Typed, Read
  <2>2. CASE ~ (d # 0 /\ x \in DOMAIN array[d])
    BY <2>2 DEF Read
  <2> QED
    BY <2>1, <2>2
<1> QED
  BY <1>1 DEF KeyOf, Pair

\* The key a slot may read as.
LEMMA ReadKeyType ==
  ASSUME Typed, NEW x, NEW k \in ReadKey(x)
  PROVE  k \in Keys \cup {INVALID}
<1>1. table \in 0..Len(array)
  BY ArrayType DEF Typed, TypeOK
<1> QED
  BY <1>1, ReadType DEF ReadKey

\* The pair an insertion puts into the table.
LEMMA PairType ==
  ASSUME Typed, NEW t \in Threads, Calling(t, "Insert")
  PROVE  [key |-> Key(t), value |-> Call(t).value] \in Pair
<1>1. Key(t) \in Keys /\ Call(t).value \in Values
  BY CallType DEF Calling
<1> QED
  BY <1>1 DEF Pair

\* Only resize() replaces the table; none of the tables is lost or changes its size.
LEMMA ArrayStep ==
  ASSUME IInv, NEW t \in Threads, Step(t)
  PROVE  /\ array' \in Seq(Arrays) /\ Len(array') \in Nat
         /\ Len(array) <= Len(array') /\ Len(array') <= MaxTables
         /\ \A d \in 1..Len(array) : DOMAIN array'[d] = DOMAIN array[d]
         /\ Allocate(t) \/ Len(array') = Len(array)
<1> Typed /\ TypeOK /\ array \in Seq(Arrays)
  BY DEF IInv, Typed
<1> Len(array) \in Nat /\ Len(array) <= MaxTables
  BY ArrayType DEF TypeOK
<1> table \in 1..Len(array) /\ from[t] \in 1..Len(array)
  BY DEF TypeOK
<1>1. ASSUME NEW d \in 1..Len(array), NEW x, NEW p,
             x \in DOMAIN array[d] => p \in Pair \cup {INVALID},
             array' = [array EXCEPT ![d] = [array[d] EXCEPT ![x] = p]]
      PROVE  /\ array' \in Seq(Arrays) /\ Len(array') = Len(array)
             /\ \A e \in 1..Len(array) : DOMAIN array'[e] = DOMAIN array[e]
             /\ Len(array) <= Len(array') /\ Len(array') <= MaxTables
  <2>1. /\ array' \in Seq(Arrays) /\ Len(array') = Len(array)
        /\ \A e \in 1..Len(array) : DOMAIN array'[e] = DOMAIN array[e]
    BY <1>1, StoreType
  <2> QED
    BY <2>1
<1>2. CASE Put(t)
  <2> DEFINE p == [key |-> Key(t), value |-> Call(t).value]
  <2>1. p \in Pair
    BY <1>2, PairType DEF Put
  <2>2. array' = [array EXCEPT ![from[t]] = [array[from[t]] EXCEPT ![Slot(t)] = p]]
    BY <1>2 DEF Put
  <2> HIDE DEF p
  <2> QED
    BY <1>1, <2>1, <2>2
<1>3. CASE Update(t)
  <2> DEFINE now == array[from[t]][Slot(t)]
             p == IF now = INVALID THEN now ELSE [now EXCEPT !.value = Call(t).value]
  <2>1. Slot(t) \in DOMAIN array[from[t]] => p \in Pair \cup {INVALID}
    <3>1. Call(t).value \in Values
      BY <1>3, CallType DEF Update, Calling
    <3>2. Slot(t) \in DOMAIN array[from[t]] => now \in Pair \cup {INVALID}
      BY ArrayType
    <3> QED
      BY <3>1, <3>2 DEF Pair
  <2>2. array' = [array EXCEPT ![from[t]] = [array[from[t]] EXCEPT ![Slot(t)] = p]]
    BY <1>3 DEF Update
  <2> HIDE DEF p
  <2> QED
    BY <1>1, <2>1, <2>2
<1>4. CASE Delete(t)
  <2>1. array' = [array EXCEPT ![from[t]] = [array[from[t]] EXCEPT ![Slot(t)] = INVALID]]
    BY <1>4 DEF Delete
  <2> QED
    BY <1>1, <2>1
<1>5. CASE MoveEntry(t)
  <2>1. PICK p \in Read(table, path[t][i[t]-1].slot) :
           array' = [array EXCEPT ![table][path[t][i[t]].slot] = p]
    BY <1>5 DEF MoveEntry
  <2>2. p \in Pair \cup {INVALID}
    BY ReadType
  <2> DEFINE x == path[t][i[t]].slot
  <2>3. array' = [array EXCEPT ![table] = [array[table] EXCEPT ![x] = p]]
    BY <2>1
  <2> HIDE DEF x
  <2> QED
    BY <1>1, <2>2, <2>3
<1>6. CASE PutFirst(t)
  <2> DEFINE p == [key |-> Key(t), value |-> Call(t).value]
             x == path[t][1].slot
  <2>1. p \in Pair
    BY <1>6, PairType DEF PutFirst, Typed, Making
  <2>2. array' = [array EXCEPT ![table] = [array[table] EXCEPT ![x] = p]]
    BY <1>6 DEF PutFirst
  <2> HIDE DEF p, x
  <2> QED
    BY <1>1, <2>1, <2>2
<1>7. CASE Reinsert(t)
  <2> DEFINE p == array[old_tab][i[t]]
             tabs == IF p = INVALID THEN <<array[table]>>
                     ELSE insert4resize(array[table], capacity, p)
  <2>1. CASE array' = array
    BY <2>1
  <2>2. CASE p = INVALID /\ tabs # <<>>
    <3>1. array' = [array EXCEPT ![table] = array[table]]
      BY <1>7, <2>2 DEF Reinsert
    <3>2. array' = array
      BY <3>1
    <3> QED
      BY <2>1, <3>2
  <2>3. CASE p # INVALID /\ tabs # <<>>
    <3>1. capacity \in Nat /\ capacity >= 1 /\ capacity \in 1..MaxCapacity
      BY Bounds DEF TypeOK
    <3>2. pc[t] = "refill" /\ i[t] < old_cap /\ i[t] \in Nat /\ old_cap \in Nat
      BY <1>7, Bounds DEF Reinsert, TypeOK
    <3>3. \A u \in Threads : pc[u] # "allocate"
      BY <3>2 DEF IInv, OneHolder, Holder, Holding
    <3>4. array[table] \in Tables(capacity) /\ DOMAIN array[table] = 0..(capacity-1)
      BY <3>1, <3>3, ArrayType DEF IInv, Sized
    <3>5. p \in Pair
      <4>1. old_tab # 0 /\ DOMAIN array[old_tab] = 0..(old_cap-1)
        BY <3>2 DEF IInv, Sized
      <4>2. old_tab \in 1..Len(array) /\ i[t] \in DOMAIN array[old_tab]
        BY <3>2, <4>1 DEF TypeOK
      <4> QED
        BY <2>3, <4>2, ArrayType
    <3> DEFINE tab == insert4resize(array[table], capacity, p)[1]
    <3>6. insert4resize(array[table], capacity, p) # <<>>
      BY <2>3
    <3> HIDE DEF p
    <3>7. tab \in Tables(capacity)
      BY <3>1, <3>4, <3>5, <3>6, InsertType
    <3>8. tab \in Arrays /\ DOMAIN tab = DOMAIN array[table]
      BY <3>1, <3>4, <3>7 DEF Arrays, Tables
    <3>9. array' = [array EXCEPT ![table] = tab]
      BY <1>7, <2>3 DEF Reinsert, p
    <3> HIDE DEF tab
    <3>10. /\ array' \in Seq(Arrays) /\ Len(array') = Len(array)
           /\ \A e \in 1..Len(array) : DOMAIN array'[e] = DOMAIN array[e]
      BY <3>8, <3>9, ReplaceType
    <3> QED
      BY <3>10
  <2>4. CASE tabs = <<>>
    <3>1. array' = array
      BY <1>7, <2>4 DEF Reinsert
    <3> QED
      BY <2>1, <3>1
  <2> QED
    BY <2>1, <2>2, <2>3, <2>4
<1>8. CASE Allocate(t)
  <2>1. Empty(capacity) \in Arrays
    <3>1. capacity \in 1..MaxCapacity
      BY DEF TypeOK
    <3>2. Empty(capacity) \in Tables(capacity)
      BY DEF Empty, Tables
    <3> QED
      BY <3>1, <3>2 DEF Arrays
  <2>2. array' = Append(array, Empty(capacity))
    BY <1>8 DEF Allocate
  <2>3. /\ array' \in Seq(Arrays) /\ Len(array') = Len(array) + 1
        /\ \A d \in 1..Len(array) : array'[d] = array[d]
    BY <2>1, <2>2, AppendProperties
  <2>4. Len(array) < MaxTables
    BY <1>8 DEF Allocate, IInv, Sized
  <2> QED
    BY <1>8, <2>2, <2>3, <2>4, Bounds
<1>9. CASE array' = array
  BY <1>9
<1> QED
  BY ZenonT(60), <1>2, <1>3, <1>4, <1>5, <1>6, <1>7, <1>8, <1>9, Frames

\* The fields of the table keep their types.
LEMMA FieldsStep ==
  ASSUME IInv, NEW t \in Threads, Step(t)
  PROVE  /\ table' \in 1..Len(array') /\ mutex' \in 1..Len(array')
         /\ capacity' \in 1..MaxCapacity /\ old_cap' \in 0..MaxCapacity
         /\ old_tab' \in 0..Len(array') /\ resizing_lock' \in {0, 1} /\ exited' \in BOOLEAN
<1> Typed /\ TypeOK
  BY DEF IInv, Typed
<1> /\ Len(array) \in Nat /\ Len(array') \in Nat /\ Len(array) <= Len(array')
    /\ MaxCapacity \in Nat /\ Len(array) >= 1
  BY ArrayStep, ArrayType, Bounds DEF Typed, TypeOK
<1>1. table' \in 1..Len(array')
  <2>1. CASE Allocate(t)
    BY <2>1 DEF Allocate
  <2>2. CASE table' = table
    BY <2>2 DEF TypeOK
  <2> QED
    BY <2>1, <2>2, Frames
<1>2. mutex' \in 1..Len(array')
  <2>1. CASE SetMutex(t)
    BY <2>1 DEF SetMutex, TypeOK
  <2>2. CASE mutex' = mutex
    BY <2>2 DEF TypeOK
  <2> QED
    BY <2>1, <2>2, Frames
<1>3. capacity' \in 1..MaxCapacity
  <2>1. CASE Grow(t)
    <3>1. capacity' = Grown[capacity] /\ Grown[capacity] <= MaxCapacity
      BY <2>1 DEF Grow
    <3>2. Grown[capacity] \in Nat \ {0}
      BY CuckooAssumption DEF TypeOK
    <3> QED
      BY <3>1, <3>2
  <2>2. CASE capacity' = capacity
    BY <2>2 DEF TypeOK
  <2> QED
    BY <2>1, <2>2, Frames
<1>4. old_cap' \in 0..MaxCapacity
  <2>1. CASE SaveCapacity(t)
    BY <2>1 DEF SaveCapacity, TypeOK
  <2>2. CASE old_cap' = old_cap
    BY <2>2 DEF TypeOK
  <2> QED
    BY <2>1, <2>2, Frames
<1>5. old_tab' \in 0..Len(array')
  <2>1. CASE SaveTable(t)
    BY <2>1 DEF SaveTable, TypeOK
  <2>2. CASE old_tab' = old_tab
    BY <2>2 DEF TypeOK
  <2> QED
    BY <2>1, <2>2, Frames
<1>6. resizing_lock' \in {0, 1}
  BY Frames DEF TryCuckoo, Checked, EndResize, TypeOK
<1>7. exited' = exited \/ exited' = TRUE
  <2> USE DEF searchFrame, resizeFrame
  <2>1. CASE AwaitResize(t) \/ PickPlaces(t) \/ BeginGet(t) \/ PickPlace(t) \/ DivideByZero(t)
    BY <2>1 DEF AwaitResize, PickPlaces, BeginGet, PickPlace, DivideByZero
  <2>2. CASE Aim(t) \/ LockPlace(t) \/ ReadNothing(t) \/ LookHit(t) \/ GetHit(t)
    BY <2>2 DEF Aim, LockPlace, ReadNothing, LookHit, GetHit
  <2>3. CASE LookOn(t) \/ LookMiss(t) \/ Put(t) \/ Update(t) \/ Delete(t)
    BY <2>3 DEF LookOn, LookMiss, Put, Update, Delete
  <2>4. CASE TryCuckoo(t) \/ BeginPath(t) \/ TestKey(t) \/ HashFirst(t) \/ HashSecond(t)
    BY <2>4 DEF TryCuckoo, BeginPath, TestKey, HashFirst, HashSecond
  <2>5. CASE PushSlot(t) \/ ChoosePath(t) \/ LockPath(t) \/ PathLocked(t) \/ CheckEntry(t)
    BY <2>5 DEF PushSlot, ChoosePath, LockPath, PathLocked, CheckEntry
  <2>6. CASE Checked(t) \/ MoveEntry(t) \/ PutFirst(t) \/ SaveCapacity(t) \/ SaveTable(t)
    BY <2>6 DEF Checked, MoveEntry, PutFirst, SaveCapacity, SaveTable
  <2>7. CASE LockAll(t) \/ Grow(t) \/ Allocate(t) \/ Reinsert(t)
    BY <2>7 DEF LockAll, Grow, Allocate, Reinsert
  <2>8. CASE UnlockAll(t) \/ SetMutex(t) \/ EndResize(t)
    BY <2>8 DEF UnlockAll, SetMutex, EndResize
  <2> QED
    BY <2>1, <2>2, <2>3, <2>4, <2>5, <2>6, <2>7, <2>8 DEF Step, Look, Displace, Resize
<1>8. exited' \in BOOLEAN
  BY <1>7 DEF TypeOK
<1> QED
  BY <1>1, <1>2, <1>3, <1>4, <1>5, <1>6, <1>8

\* The mutexes keep their types.
LEMMA MutexesStep ==
  ASSUME IInv, NEW t \in Threads, Step(t)
  PROVE  /\ writer' \in [Locks -> Threads \cup {Nobody}]
         /\ readers' \in [Locks -> SUBSET Threads]
<1> TypeOK
  BY DEF IInv, Typed
<1>1. CASE UNCHANGED mutexVars
  BY <1>1 DEF mutexVars, TypeOK
<1>2. ASSUME NEW l, Exclusive(t, l)
      PROVE  /\ writer' \in [Locks -> Threads \cup {Nobody}]
             /\ readers' \in [Locks -> SUBSET Threads]
  BY <1>2 DEF TypeOK, Exclusive
<1>3. ASSUME NEW l, Shared(t, l)
      PROVE  /\ writer' \in [Locks -> Threads \cup {Nobody}]
             /\ readers' \in [Locks -> SUBSET Threads]
  BY <1>3 DEF TypeOK, Shared
<1>4. CASE Release(t)
  BY <1>4 DEF TypeOK, Release
<1> QED
  BY <1>1, <1>2, <1>3, <1>4, MutexFrame

\* The places of a thread keep their types.
LEMMA PlacesStep ==
  ASSUME IInv, NEW t \in Threads, Step(t)
  PROVE  /\ places' \in [Threads -> [{1, 2} -> 0..(MaxCapacity-1)]]
         /\ n' \in [Threads -> {1, 2}] /\ old' \in [Threads -> BOOLEAN]
         /\ lock' \in [Threads -> Locks] /\ from' \in [Threads -> 1..Len(array')]
<1> Typed /\ TypeOK
  BY DEF IInv, Typed
<1> /\ places \in [Threads -> [{1, 2} -> 0..(MaxCapacity-1)]]
    /\ n \in [Threads -> {1, 2}] /\ old \in [Threads -> BOOLEAN] /\ lock \in [Threads -> Locks]
  BY DEF TypeOK
<1>1. from \in [Threads -> 1..Len(array')] /\ table \in 1..Len(array')
  <2>1. 1..Len(array) \subseteq 1..Len(array')
    BY ArrayStep, ArrayType DEF Typed
  <2> QED
    BY <2>1 DEF TypeOK
<1>2. CASE UNCHANGED probeVars
  BY <1>1, <1>2 DEF probeVars
<1>3. CASE PickPlaces(t)
  <2> DEFINE pl == <<f_idx(Key(t), capacity), s_idx(Key(t), capacity)>>
  <2>1. Key(t) \in Keys \cup {INVALID} /\ capacity \in 1..MaxCapacity
    BY <1>3, CallType DEF PickPlaces, Typed, TypeOK
  <2>2. pl \in [{1, 2} -> 0..(MaxCapacity-1)]
    <3> DEFINE f == f_idx(Key(t), capacity)
               s == s_idx(Key(t), capacity)
    <3>1. f \in 0..(MaxCapacity-1) /\ s \in 0..(MaxCapacity-1)
      BY <2>1, PlacesBelow
    <3> HIDE DEF f, s
    <3>2. {1, 2} = 1..2 /\ <<f, s>> \in [1..2 -> 0..(MaxCapacity-1)]
      BY <3>1
    <3> QED
      BY <3>2 DEF f, s
  <2>3. /\ places' = [places EXCEPT ![t] = pl] /\ n' = [n EXCEPT ![t] = 1]
        /\ UNCHANGED <<old, lock, from>>
    BY <1>3 DEF PickPlaces
  <2> HIDE DEF pl
  <2> QED
    BY <1>1, <2>2, <2>3
<1>4. CASE BeginGet(t)
  BY <1>1, <1>4 DEF BeginGet
<1>5. CASE PickPlace(t)
  <2> DEFINE cap == IF old[t] THEN old_cap ELSE capacity
             x == IF n[t] = 1 THEN f_idx(Key(t), cap) ELSE s_idx(Key(t), cap)
  <2>1. Key(t) \in Keys \cup {INVALID} /\ cap \in 1..MaxCapacity
    <3>1. todo[t] # <<>> /\ cap # 0
      BY <1>5 DEF PickPlace, Typed
    <3>2. cap \in 0..MaxCapacity
      BY Bounds DEF TypeOK
    <3>3. Key(t) \in Keys
      BY <3>1, CallType
    <3> HIDE DEF cap
    <3> QED
      BY <3>1, <3>2, <3>3, Bounds
  <2>2. x \in 0..(MaxCapacity-1)
    BY <2>1, PlacesBelow
  <2>3. places' = [places EXCEPT ![t] = [places[t] EXCEPT ![n[t]] = x]] /\ UNCHANGED <<n, old, lock, from>>
    BY <1>5 DEF PickPlace
  <2> HIDE DEF x
  <2> QED
    BY <1>1, <2>2, <2>3
<1>6. CASE Aim(t)
  <2>1. places[t][n[t]] \in 0..(MaxCapacity-1)
    OBVIOUS
  <2>2. places[t][n[t]] \div locksize \in 0..MaxCapacity
    BY <2>1, Bounds, Stripe
  <2>3. mutex \in 1..MaxTables
    BY Bounds, ArrayType DEF Typed, TypeOK
  <2>4. <<mutex, places[t][n[t]] \div locksize>> \in Locks
    BY <2>2, <2>3 DEF Locks
  <2> QED
    BY <1>1, <1>6, <2>4 DEF Aim
<1>7. CASE LookHit(t)
  BY <1>1, <1>7 DEF LookHit
<1>8. CASE \E m \in {1, 2} : n' = [n EXCEPT ![t] = m] /\ UNCHANGED <<places, old, lock, from>>
  BY <1>1, <1>8
<1>9. CASE n' = n /\ UNCHANGED <<places, old, lock, from>>
  BY <1>1, <1>9
<1>10. CASE LookOn(t) \/ TryCuckoo(t) \/ CheckEntry(t)
  BY <1>8, <1>9, <1>10 DEF LookOn, TryCuckoo, CheckEntry
<1>11. CASE TestKey(t) \/ PushSlot(t)
  BY <1>8, <1>9, <1>11 DEF TestKey, PushSlot, PathDone
<1>12. CASE \/ AwaitResize(t) \/ DivideByZero(t) \/ LockPlace(t) \/ ReadNothing(t) \/ GetHit(t)
            \/ LookMiss(t) \/ Put(t) \/ Update(t) \/ Delete(t)
  BY <1>2, <1>12 DEF AwaitResize, DivideByZero, LockPlace, ReadNothing, GetHit, LookMiss, Put,
     Update, Delete
<1>13. CASE \/ BeginPath(t) \/ HashFirst(t) \/ HashSecond(t) \/ ChoosePath(t) \/ LockPath(t)
            \/ PathLocked(t) \/ Checked(t) \/ MoveEntry(t) \/ PutFirst(t)
  BY <1>2, <1>13 DEF BeginPath, HashFirst, HashSecond, ChoosePath, LockPath, PathLocked, Checked,
     MoveEntry, PutFirst, searchFrame
<1>14. CASE \/ SaveCapacity(t) \/ SaveTable(t) \/ LockAll(t) \/ Grow(t) \/ Allocate(t)
            \/ Reinsert(t) \/ UnlockAll(t) \/ SetMutex(t) \/ EndResize(t)
  BY <1>2, <1>14 DEF SaveCapacity, SaveTable, LockAll, Grow, Allocate, Reinsert, UnlockAll,
     SetMutex, EndResize, resizeFrame
<1> QED
  BY <1>3, <1>4, <1>5, <1>6, <1>7, <1>10, <1>11, <1>12, <1>13, <1>14
     DEF Step, Look, Displace, Resize

\* An entry of a path is a slot with a key it may have.
LEMMA EntryType ==
  ASSUME NEW x \in 0..(MaxCapacity-1), NEW k \in Keys \cup {INVALID}
  PROVE  Entry(x, k) \in Entries
BY DEF Entry, Entries

\* The counters of a thread keep their types.
LEMMA CountersStep ==
  ASSUME IInv, NEW t \in Threads, Step(t)
  PROVE  i' \in [Threads -> Nat]
<1> Typed /\ TypeOK
  BY DEF IInv, Typed
<1>1. i \in [Threads -> Nat] /\ Len(path[t]) \in Nat
  BY SMTT(30) DEF TypeOK
<1>2. CASE i' = i
  BY <1>1, <1>2
<1>3. CASE \E m \in Nat : i' = [i EXCEPT ![t] = m]
  BY <1>1, <1>3
<1>4. CASE CheckEntry(t) \/ Checked(t) \/ MoveEntry(t) \/ ChoosePath(t)
  <2>1. CASE CheckEntry(t)
    <3>1. i' = i \/ i' = [i EXCEPT ![t] = i[t] + 1]
      BY <2>1 DEF CheckEntry
    <3> QED
      BY <1>1, <3>1
  <2>2. CASE Checked(t)
    BY <1>1, <1>3, <2>2 DEF Checked
  <2>3. CASE MoveEntry(t)
    <3>1. i' = [i EXCEPT ![t] = i[t] - 1] /\ i[t] > 1
      BY <2>3 DEF MoveEntry
    <3> QED
      BY <1>1, <3>1
  <2>4. CASE ChoosePath(t)
    BY <1>3, <2>4 DEF ChoosePath
  <2> QED
    BY <1>4, <2>1, <2>2, <2>3, <2>4
<1>5. CASE PutFirst(t) \/ SaveTable(t) \/ Allocate(t)
  BY <1>3, <1>5 DEF PutFirst, SaveTable, Allocate
<1>6. CASE LockAll(t) \/ Reinsert(t)
  <2>1. i' = i \/ i' = [i EXCEPT ![t] = i[t] + 1]
    BY <1>6 DEF LockAll, Reinsert
  <2> QED
    BY <1>1, <2>1
<1>7. CASE AwaitResize(t) \/ PickPlaces(t) \/ BeginGet(t) \/ PickPlace(t) \/ DivideByZero(t)
  BY <1>2, <1>7 DEF AwaitResize, PickPlaces, BeginGet, PickPlace, DivideByZero
<1>8. CASE Aim(t) \/ LockPlace(t) \/ ReadNothing(t) \/ LookHit(t) \/ GetHit(t)
  BY <1>2, <1>8 DEF Aim, LockPlace, ReadNothing, LookHit, GetHit
<1>9. CASE LookOn(t) \/ LookMiss(t) \/ Put(t) \/ Update(t) \/ Delete(t)
  BY <1>2, <1>9 DEF LookOn, LookMiss, Put, Update, Delete
<1>10. CASE TryCuckoo(t) \/ BeginPath(t) \/ TestKey(t) \/ HashFirst(t) \/ HashSecond(t)
  BY <1>2, <1>10 DEF TryCuckoo, BeginPath, TestKey, HashFirst, HashSecond
<1>11. CASE PushSlot(t) \/ LockPath(t) \/ PathLocked(t) \/ SaveCapacity(t) \/ Grow(t)
  BY <1>2, <1>11 DEF PushSlot, LockPath, PathLocked, SaveCapacity, Grow
<1>12. CASE UnlockAll(t) \/ SetMutex(t) \/ EndResize(t)
  BY <1>2, <1>12 DEF UnlockAll, SetMutex, EndResize
<1> QED
  BY <1>4, <1>5, <1>6, <1>7, <1>8, <1>9, <1>10, <1>11, <1>12 DEF Step, Look, Displace, Resize

\* The paths of a thread keep their types, and do not grow beyond the threshold.
LEMMA PathsStep ==
  ASSUME IInv, NEW t \in Threads, Step(t)
  PROVE  /\ hash' \in [Threads -> 0..(MaxCapacity-1)]
         /\ path1' \in [Threads -> Seq(Entries)] /\ path' \in [Threads -> Seq(Entries)]
         /\ \A u \in Threads : /\ Len(path1'[u]) <= kCuckooThreshold
                               /\ Len(path'[u]) <= kCuckooThreshold
<1> DEFINE Short(p) == p \in [Threads -> Seq(Entries)]
                       /\ \A u \in Threads : Len(p[u]) <= kCuckooThreshold
<1> Typed /\ TypeOK
  BY DEF IInv, Typed
<1>1. hash \in [Threads -> 0..(MaxCapacity-1)] /\ Short(path1) /\ Short(path)
  BY DEF TypeOK
<1>2. capacity \in 1..MaxCapacity /\ places[t][n[t]] \in 0..(MaxCapacity-1)
  <2>1. n[t] \in {1, 2} /\ places[t] \in [{1, 2} -> 0..(MaxCapacity-1)]
    BY DEF TypeOK
  <2>2. capacity \in 1..MaxCapacity
    BY DEF TypeOK
  <2> QED
    BY <2>1, <2>2
<1>3. ASSUME NEW p, Short(p), NEW e \in Seq(Entries), Len(e) <= kCuckooThreshold,
             NEW q, q = [p EXCEPT ![t] = e]
      PROVE  Short(q)
  BY <1>3
<1>4. <<>> \in Seq(Entries) /\ Len(<<>>) <= kCuckooThreshold
  BY Bounds
<1>5. ASSUME NEW x \in 0..(MaxCapacity-1), hash' = [hash EXCEPT ![t] = x]
      PROVE  hash' \in [Threads -> 0..(MaxCapacity-1)]
  BY <1>1, <1>5
<1>6. ASSUME NEW e \in Seq(Entries), Len(e) <= kCuckooThreshold, PathDone(t, e)
      PROVE  Short(path1') /\ Short(path')
  <2>1. CASE n[t] = 1
    <3>1. path1' = [path1 EXCEPT ![t] = e] /\ path' = [path EXCEPT ![t] = <<>>]
      BY <1>6, <2>1 DEF PathDone
    <3> HIDE DEF Short
    <3>2. Short(path1')
      BY <1>1, <1>3, <1>6, <3>1
    <3>3. Short(path')
      BY <1>1, <1>3, <1>4, <3>1
    <3> QED
      BY <3>2, <3>3
  <2>2. CASE n[t] # 1
    <3>1. path1' = path1 /\ path' = [path EXCEPT ![t] = e]
      BY <1>6, <2>2 DEF PathDone
    <3> HIDE DEF Short
    <3> QED
      BY <1>1, <1>3, <1>6, <3>1
  <2> QED
    BY <2>1, <2>2
<1> HIDE DEF Short
<1> SUFFICES hash' \in [Threads -> 0..(MaxCapacity-1)] /\ Short(path1') /\ Short(path')
  BY DEF Short
<1>7. CASE UNCHANGED pathVars
  BY <1>1, <1>7 DEF pathVars
<1>8. path[t] \in Seq(Entries) /\ Len(path[t]) <= kCuckooThreshold
      /\ path1[t] \in Seq(Entries) /\ Len(path1[t]) <= kCuckooThreshold
  BY <1>1 DEF Short
<1>9. CASE BeginPath(t)
  <2>1. PICK k \in ReadKey(Slot(t)) : path' = [path EXCEPT ![t] = <<Entry(Slot(t), k)>>]
    BY <1>9 DEF BeginPath
  <2>2. Entry(Slot(t), k) \in Entries
    BY <1>2, EntryType, ReadKeyType DEF Slot
  <2> DEFINE e == <<Entry(Slot(t), k)>>
  <2>3. e \in Seq(Entries) /\ Len(e) <= kCuckooThreshold
    BY <2>2, Bounds
  <2> HIDE DEF e
  <2>4. Short(path')
    BY <1>1, <1>3, <2>1, <2>3 DEF e
  <2> QED
    BY <1>1, <1>9, <2>4 DEF BeginPath
<1>10. CASE TestKey(t)
  <2>1. PathDone(t, path[t]) \/ UNCHANGED <<path1, path>>
    BY <1>10 DEF TestKey
  <2>2. hash' = hash
    BY <1>10 DEF TestKey
  <2> QED
    BY <1>1, <1>6, <1>8, <2>1, <2>2
<1>11. CASE HashFirst(t)
  <2>1. PICK k \in ReadKey(Cur(t)) : hash' = [hash EXCEPT ![t] = f_idx(k, capacity)]
    BY <1>11 DEF HashFirst
  <2>2. f_idx(k, capacity) \in 0..(MaxCapacity-1)
    BY <1>2, ReadKeyType, PlacesBelow
  <2> QED
    BY <1>1, <1>5, <1>11, <2>1, <2>2 DEF HashFirst
<1>12. CASE HashSecond(t)
  <2>1. PICK k \in ReadKey(Cur(t)) :
          hash' = hash \/ hash' = [hash EXCEPT ![t] = s_idx(k, capacity)]
    BY <1>12 DEF HashSecond
  <2>2. s_idx(k, capacity) \in 0..(MaxCapacity-1)
    BY <1>2, ReadKeyType, PlacesBelow
  <2> QED
    BY <1>1, <1>5, <1>12, <2>1, <2>2 DEF HashSecond
<1>13. CASE PushSlot(t)
  <2>1. PICK k \in ReadKey(hash[t]) :
          IF Len(path[t]) < kCuckooThreshold
          THEN path' = [path EXCEPT ![t] = Append(path[t], Entry(hash[t], k))] /\ path1' = path1
          ELSE PathDone(t, <<>>)
    BY <1>13 DEF PushSlot
  <2>2. hash' = hash
    BY <1>13 DEF PushSlot
  <2>3. CASE Len(path[t]) < kCuckooThreshold
    <3> DEFINE e == Append(path[t], Entry(hash[t], k))
    <3>1. Entry(hash[t], k) \in Entries
      BY <1>1, EntryType, ReadKeyType
    <3>2. e \in Seq(Entries) /\ Len(e) = Len(path[t]) + 1
      BY <1>8, <3>1, AppendProperties
    <3>3. Len(e) <= kCuckooThreshold
      BY <1>8, <2>3, <3>2, Bounds
    <3>4. path' = [path EXCEPT ![t] = e] /\ path1' = path1
      BY <2>1, <2>3
    <3> HIDE DEF e
    <3> QED
      BY <1>1, <1>3, <2>2, <3>2, <3>3, <3>4
  <2>4. CASE ~ (Len(path[t]) < kCuckooThreshold)
    BY <1>1, <1>4, <1>6, <2>1, <2>2, <2>4
  <2> QED
    BY <2>3, <2>4
<1>14. CASE ChoosePath(t)
  <2>1. /\ hash' = [hash EXCEPT ![t] = 0] /\ path1' = [path1 EXCEPT ![t] = <<>>]
        /\ \/ path' = path
           \/ path' = [path EXCEPT ![t] = path1[t]]
           \/ path' = [path EXCEPT ![t] = path[t]]
    BY <1>14 DEF ChoosePath
  <2>2. 0 \in 0..(MaxCapacity-1)
    BY Bounds
  <2>3. Short(path')
    BY <1>1, <1>3, <1>8, <2>1
  <2>4. Short(path1')
    BY <1>1, <1>3, <1>4, <2>1
  <2> QED
    BY <1>5, <2>1, <2>2, <2>3, <2>4
<1>15. CASE PutFirst(t)
  <2>1. path' = [path EXCEPT ![t] = <<>>] /\ UNCHANGED <<hash, path1>>
    BY <1>15 DEF PutFirst
  <2> QED
    BY <1>1, <1>3, <1>4, <2>1
<1>16. CASE AwaitResize(t) \/ PickPlaces(t) \/ BeginGet(t) \/ PickPlace(t) \/ DivideByZero(t)
  BY <1>7, <1>16 DEF AwaitResize, PickPlaces, BeginGet, PickPlace, DivideByZero
<1>17. CASE Aim(t) \/ LockPlace(t) \/ ReadNothing(t) \/ LookHit(t) \/ GetHit(t)
  BY <1>7, <1>17 DEF Aim, LockPlace, ReadNothing, LookHit, GetHit
<1>18. CASE LookOn(t) \/ LookMiss(t) \/ Put(t) \/ Update(t) \/ Delete(t) \/ TryCuckoo(t)
  BY <1>7, <1>18 DEF LookOn, LookMiss, Put, Update, Delete, TryCuckoo
<1>19. CASE LockPath(t) \/ PathLocked(t) \/ CheckEntry(t) \/ Checked(t) \/ MoveEntry(t)
  BY <1>7, <1>19 DEF LockPath, PathLocked, CheckEntry, Checked, MoveEntry
<1>20. CASE \/ SaveCapacity(t) \/ SaveTable(t) \/ LockAll(t) \/ Grow(t) \/ Allocate(t)
            \/ Reinsert(t) \/ UnlockAll(t) \/ SetMutex(t) \/ EndResize(t)
  BY <1>7, <1>20 DEF SaveCapacity, SaveTable, LockAll, Grow, Allocate, Reinsert, UnlockAll,
     SetMutex, EndResize, resizeFrame
<1> QED
  BY <1>9, <1>10, <1>11, <1>12, <1>13, <1>14, <1>15, <1>16, <1>17, <1>18, <1>19, <1>20
     DEF Step, Look, Displace, Resize

\* A thread goes from a step to a step.
LEMMA GotoType ==
  ASSUME TypeOK, NEW t \in Threads, NEW step \in Steps, Goto(t, step)
  PROVE  pc' \in [Threads -> Steps]
BY DEF TypeOK, Goto

\* A call that returns leaves the rest of the calls and an answer.
LEMMA ReturnType ==
  ASSUME Typed, NEW t \in Threads, todo[t] # <<>>,
         NEW r \in Values \cup {NONE} \cup BOOLEAN, Return(t, r)
  PROVE  /\ todo' \in [Threads -> Seq(Calls)]
         /\ ret' \in [Threads -> Values \cup {NONE} \cup BOOLEAN]
         /\ pc' \in [Threads -> Steps]
<1>1. todo' \in [Threads -> Seq(Calls)]
  BY CallType DEF Typed, TypeOK, Return
<1>2. ret' \in [Threads -> Values \cup {NONE} \cup BOOLEAN]
  BY DEF Typed, TypeOK, Return
<1>3. pc' \in [Threads -> Steps]
  BY GotoType DEF Typed, Return, Steps
<1> QED
  BY <1>1, <1>2, <1>3

\* Every thread goes from step to step, with the rest of its calls and an answer.
LEMMA CallsStep ==
  ASSUME IInv, NEW t \in Threads, Step(t)
  PROVE  /\ pc' \in [Threads -> Steps] /\ todo' \in [Threads -> Seq(Calls)]
         /\ ret' \in [Threads -> Values \cup {NONE} \cup BOOLEAN]
<1> Typed /\ TypeOK /\ pc \in [Threads -> Steps]
  BY DEF IInv, Typed, TypeOK
<1>1. CASE \E step \in Steps : Goto(t, step) /\ UNCHANGED callVars
  BY <1>1, GotoType DEF callVars, TypeOK
<1>2. CASE UNCHANGED <<callVars, pc>>
  BY <1>2 DEF callVars, TypeOK
<1>3. CASE todo[t] # <<>> /\ \E r \in Values \cup {NONE} \cup BOOLEAN : Return(t, r)
  BY <1>3, ReturnType
<1>4. CASE AwaitResize(t) \/ PickPlaces(t) \/ BeginGet(t) \/ PickPlace(t)
  BY <1>1, <1>4 DEF AwaitResize, PickPlaces, BeginGet, PickPlace, Steps
<1>5. CASE DivideByZero(t) \/ ReadNothing(t)
  BY <1>2, <1>5 DEF DivideByZero, ReadNothing
<1>6. CASE Aim(t) \/ LockPlace(t) \/ LookHit(t) \/ LookOn(t)
  BY <1>1, <1>6 DEF Aim, LockPlace, LookHit, LookOn, Steps
<1>7. CASE GetHit(t)
  <2>1. PICK p \in Read(TableOf(t), Slot(t)) : Wanted(t, p) /\ Return(t, p.value)
    BY <1>7 DEF GetHit
  <2>2. p # INVALID /\ todo[t] # <<>>
    BY <1>7, <2>1 DEF GetHit, Wanted, Holds, Calling
  <2>3. TableOf(t) \in 0..Len(array)
    BY ArrayType DEF TableOf, Typed, TypeOK
  <2>4. p.value \in Values
    BY <2>2, <2>3, ReadType DEF Pair
  <2> QED
    BY <1>3, <2>1, <2>2, <2>4
<1>8. CASE LookMiss(t)
  <2>1. \/ Goto(t, "cas") /\ UNCHANGED callVars
        \/ Return(t, NONE) \/ Return(t, FALSE)
    BY <1>8 DEF LookMiss
  <2>2. todo[t] # <<>> /\ "cas" \in Steps
    BY <1>8 DEF LookMiss, Typed, Steps
  <2> QED
    BY <1>1, <1>3, <2>1, <2>2
<1>9. CASE Put(t) \/ Update(t) \/ Delete(t)
  BY <1>3, <1>9 DEF Put, Update, Delete, Calling
<1>10. CASE TryCuckoo(t) \/ BeginPath(t) \/ TestKey(t)
  BY <1>1, <1>10 DEF TryCuckoo, BeginPath, TestKey, PathDone, searchFrame, Steps, Holding, callVars
<1>11. CASE HashFirst(t) \/ HashSecond(t)
  BY <1>1, <1>2, <1>11 DEF HashFirst, HashSecond, searchFrame, Steps, Holding, callVars
<1>12. CASE PushSlot(t) \/ ChoosePath(t)
  BY <1>1, <1>12 DEF PushSlot, ChoosePath, PathDone, searchFrame, Steps, Holding, callVars
<1>13. CASE LockPath(t) \/ PathLocked(t) \/ Checked(t) \/ MoveEntry(t)
  BY <1>1, <1>2, <1>13 DEF LockPath, PathLocked, Checked, MoveEntry, searchFrame, Steps, Holding, callVars
<1>14. CASE CheckEntry(t)
  BY <1>1, <1>2, <1>14 DEF CheckEntry, Steps, Holding, callVars
<1>15. CASE PutFirst(t)
  BY <1>3, <1>15 DEF PutFirst, Typed
<1>16. CASE SaveCapacity(t) \/ SaveTable(t) \/ LockAll(t) \/ Grow(t) \/ Allocate(t)
  BY <1>1, <1>2, <1>16 DEF SaveCapacity, SaveTable, LockAll, Grow, Allocate, resizeFrame, Steps,
     Holding, callVars
<1>17. CASE Reinsert(t)
  BY <1>1, <1>2, <1>17 DEF Reinsert, Steps, Holding, callVars
<1>18. CASE UnlockAll(t) \/ SetMutex(t) \/ EndResize(t)
  BY <1>1, <1>18 DEF UnlockAll, SetMutex, EndResize, resizeFrame, Steps, Holding, callVars
<1> QED
  BY <1>4, <1>5, <1>6, <1>7, <1>8, <1>9, <1>10, <1>11, <1>12, <1>13, <1>14, <1>15, <1>16, <1>17,
     <1>18 DEF Step, Look, Displace, Resize

\* A thread keeps its call while it is on its way, and only an insertion makes room.
LEMMA BusyStep ==
  ASSUME IInv, NEW t \in Threads, Step(t), NEW u \in Threads
  PROVE  /\ pc'[u] # "retry" => todo'[u] # <<>> /\ todo'[u] = todo[u]
         /\ pc'[u] \in Making => Calling(u, "Insert")'
         /\ pc'[u] = "write" => ~ Calling(u, "Get")'
<1> Typed /\ TypeOK
  BY DEF IInv, Typed
<1>1. CASE u # t
  <2>1. pc'[u] = pc[u] /\ todo'[u] = todo[u]
    BY <1>1, Others
  <2> QED
    BY <2>1 DEF Typed, Calling, Call, Making, Holding
<1>2. CASE u = t
  <2>1. CASE pc'[t] = "retry"
    BY <1>2, <2>1 DEF Making, Holding
  <2>2. CASE /\ todo'[t] = todo[t] /\ todo[t] # <<>>
             /\ pc'[t] \in Making => Calling(t, "Insert")
             /\ pc'[t] = "write" => ~ Calling(t, "Get")
    BY <1>2, <2>2 DEF Calling, Call
  <2>3. CASE pc[t] # "retry" /\ UNCHANGED callVars /\ pc'[t] \notin Making \cup {"write"}
    BY <2>2, <2>3 DEF Typed, callVars
  <2>4. CASE pc[t] \in Making /\ UNCHANGED callVars /\ pc'[t] # "write"
    BY <2>2, <2>4 DEF Typed, callVars, Making, Holding
  <2> USE DEF Goto, Return, TypeOK
  <2>5. CASE AwaitResize(t) \/ BeginGet(t)
    BY <2>2, <2>5 DEF AwaitResize, BeginGet, Making, Holding, Calling, callVars
  <2>6. CASE PickPlaces(t) \/ PickPlace(t) \/ DivideByZero(t) \/ Aim(t) \/ LockPlace(t)
    BY ZenonT(30), <2>3, <2>6 DEF PickPlaces, PickPlace, DivideByZero, Aim, LockPlace, Making, Holding
  <2>7. CASE ReadNothing(t) \/ LookOn(t)
    BY <2>3, <2>7 DEF ReadNothing, LookOn, Making, Holding
  <2>8. CASE LookHit(t)
    BY <2>2, <2>8 DEF LookHit, Typed, Making, Holding, callVars
  <2>9. CASE GetHit(t) \/ Put(t) \/ Update(t) \/ Delete(t) \/ PutFirst(t)
    BY <2>1, <2>9 DEF GetHit, Put, Update, Delete, PutFirst
  <2>10. CASE LookMiss(t)
    BY <2>1, <2>2, <2>10 DEF LookMiss, Calling, callVars
  <2>11. CASE TryCuckoo(t) \/ BeginPath(t) \/ TestKey(t)
    BY <2>4, <2>11 DEF TryCuckoo, BeginPath, TestKey, PathDone, searchFrame, Making, Holding
  <2>12. CASE HashFirst(t) \/ HashSecond(t)
    BY <2>4, <2>12 DEF HashFirst, HashSecond, searchFrame, Making, Holding
  <2>13. CASE PushSlot(t) \/ ChoosePath(t)
    BY ZenonT(30), <2>4, <2>13 DEF PushSlot, ChoosePath, PathDone, searchFrame, Making, Holding
  <2>14. CASE LockPath(t) \/ PathLocked(t) \/ Checked(t) \/ MoveEntry(t)
    BY <2>4, <2>14 DEF LockPath, PathLocked, Checked, MoveEntry, searchFrame, Making, Holding
  <2>15. CASE CheckEntry(t)
    BY <2>4, <2>15 DEF CheckEntry, Making, Holding
  <2>16. CASE SaveCapacity(t) \/ SaveTable(t) \/ LockAll(t) \/ Grow(t) \/ Allocate(t)
    BY <2>4, <2>16 DEF SaveCapacity, SaveTable, LockAll, Grow, Allocate, resizeFrame, Making, Holding
  <2>17. CASE Reinsert(t)
    BY <2>4, <2>17 DEF Reinsert, Making, Holding
  <2>18. CASE UnlockAll(t) \/ SetMutex(t) \/ EndResize(t)
    BY <2>4, <2>18 DEF UnlockAll, SetMutex, EndResize, resizeFrame, Making, Holding
  <2> QED
    BY <2>5, <2>6, <2>7, <2>8, <2>9, <2>10, <2>11, <2>12, <2>13, <2>14, <2>15, <2>16, <2>17, <2>18
       DEF Step, Look, Displace, Resize
<1> QED
  BY <1>1, <1>2

\* Types are kept.
LEMMA TypedStep ==
  ASSUME IInv, NEW t \in Threads, Step(t)
  PROVE  Typed'
<1>1. array' \in Seq(Arrays) /\ Len(array') <= MaxTables
  BY ArrayStep
<1>2. /\ DOMAIN array' = 1..Len(array')
      /\ \A d \in DOMAIN array' : \E cap \in 1..MaxCapacity : array'[d] \in Tables(cap)
  BY <1>1, ArrayType
<1>3. TypeOK'
  BY <1>1, <1>2, FieldsStep, MutexesStep, PlacesStep, CountersStep, PathsStep, CallsStep DEF TypeOK
<1> QED
  BY <1>1, <1>3, BusyStep DEF Typed

-----------------------------------------------------------------------------
(* Who searches or resizes.                                                *)

\* Only three steps begin or end holding resizing_lock.
LEMMA HoldFrame ==
  ASSUME TypeOK, NEW t \in Threads, Step(t)
  PROVE  TryCuckoo(t) \/ Checked(t) \/ EndResize(t) \/ (pc'[t] \in Holding <=> pc[t] \in Holding)
<1> USE DEF Goto, Return, TypeOK, Holding
<1>1. CASE AwaitResize(t) \/ PickPlaces(t) \/ BeginGet(t) \/ PickPlace(t) \/ DivideByZero(t)
  BY ZenonT(30), <1>1 DEF AwaitResize, PickPlaces, BeginGet, PickPlace, DivideByZero
<1>2. CASE Aim(t) \/ LockPlace(t) \/ ReadNothing(t) \/ LookHit(t) \/ GetHit(t)
  BY ZenonT(30), <1>2 DEF Aim, LockPlace, ReadNothing, LookHit, GetHit
<1>3. CASE LookOn(t) \/ LookMiss(t) \/ Put(t) \/ Update(t) \/ Delete(t)
  <2>1. CASE LookOn(t)
    BY <2>1 DEF LookOn
  <2>2. CASE LookMiss(t)
    BY <2>2 DEF LookMiss
  <2>3. CASE Put(t)
    BY <2>3 DEF Put
  <2>4. CASE Update(t) \/ Delete(t)
    BY <2>4 DEF Update, Delete
  <2> QED
    BY <1>3, <2>1, <2>2, <2>3, <2>4
<1>4. CASE BeginPath(t) \/ TestKey(t) \/ HashFirst(t) \/ HashSecond(t)
  BY <1>4 DEF BeginPath, TestKey, HashFirst, HashSecond, PathDone
<1>5. CASE PushSlot(t) \/ ChoosePath(t)
  BY SMTT(30), <1>5 DEF PushSlot, ChoosePath, PathDone
<1>6. CASE LockPath(t) \/ PathLocked(t) \/ CheckEntry(t)
  BY <1>6 DEF LockPath, PathLocked, CheckEntry
<1>7. CASE MoveEntry(t) \/ PutFirst(t) \/ SaveCapacity(t) \/ SaveTable(t)
  BY SMTT(30), <1>7 DEF MoveEntry, PutFirst, SaveCapacity, SaveTable
<1>8. CASE LockAll(t) \/ Grow(t) \/ Allocate(t) \/ Reinsert(t)
  BY <1>8 DEF LockAll, Grow, Allocate, Reinsert
<1>9. CASE UnlockAll(t) \/ SetMutex(t)
  BY <1>9 DEF UnlockAll, SetMutex
<1> QED
  BY <1>1, <1>2, <1>3, <1>4, <1>5, <1>6, <1>7, <1>8, <1>9 DEF Step, Look, Displace, Resize

\* resizing_lock is kept by who searches or resizes.
LEMMA HolderStep ==
  ASSUME IInv, NEW t \in Threads, Step(t)
  PROVE  OneHolder'
<1> TypeOK /\ OneHolder
  BY DEF IInv, Typed
<1>1. \A u \in Threads : u # t => pc'[u] = pc[u]
  BY Others
<1>2. CASE TryCuckoo(t)
  <2>1. CASE resizing_lock = 0
    <3>1. \A u \in Threads : ~ Holder(u)
      BY <2>1 DEF OneHolder
    <3>2. resizing_lock' = 1 /\ pc'[t] = "path"
      BY <1>2, <2>1 DEF TryCuckoo, Goto, TypeOK
    <3> QED
      BY <1>1, <3>1, <3>2 DEF OneHolder, Holder, Holding
  <2>2. CASE resizing_lock # 0
    <3>1. pc[t] = "cas" /\ pc'[t] = "retry" /\ resizing_lock' = resizing_lock
      BY <1>2, <2>2 DEF TryCuckoo, Goto, TypeOK
    <3> QED
      BY <1>1, <3>1 DEF OneHolder, Holder, Holding
  <2> QED
    BY <2>1, <2>2
<1>3. CASE Checked(t) \/ EndResize(t)
  <2>1. pc[t] \in {"check", "end"} /\ pc'[t] \in {"move", "retry"} /\ resizing_lock' = 0
    BY <1>3 DEF Checked, EndResize, Goto, TypeOK
  <2>2. \A u \in Threads : u # t => ~ Holder(u)
    BY <2>1 DEF OneHolder, Holder, Holding
  <2>3. \A u \in Threads : pc'[u] \notin Holding
    BY <1>1, <2>1, <2>2 DEF Holder, Holding
  <2> QED
    BY <2>1, <2>3 DEF OneHolder, Holder
<1>4. CASE ~ TryCuckoo(t) /\ ~ Checked(t) /\ ~ EndResize(t)
  <2>1. \A u \in Threads : pc'[u] \in Holding <=> pc[u] \in Holding
    BY <1>1, <1>4, HoldFrame
  <2>2. resizing_lock' = resizing_lock
    BY <1>4, Frames
  <2> QED
    BY <2>1, <2>2 DEF OneHolder, Holder
<1> QED
  BY <1>2, <1>3, <1>4

\* The steps of a resize for which Sized says something.
Tracked == {"save_tab", "lock_all", "grow", "allocate", "refill", "set_mutex"}

\* Only a resize goes to them.
LEMMA ResizeFrame ==
  ASSUME TypeOK, NEW t \in Threads, Step(t)
  PROVE  \/ SaveCapacity(t) \/ SaveTable(t) \/ Grow(t) \/ Allocate(t) \/ Reinsert(t) \/ UnlockAll(t)
         \/ (pc'[t] \in Tracked => pc'[t] = pc[t]) /\ pc[t] # "allocate"
<1> USE DEF Goto, Return, TypeOK, Tracked
<1>1. CASE AwaitResize(t) \/ PickPlaces(t) \/ BeginGet(t) \/ PickPlace(t) \/ DivideByZero(t)
  BY <1>1 DEF AwaitResize, PickPlaces, BeginGet, PickPlace, DivideByZero
<1>2. CASE Aim(t) \/ LockPlace(t) \/ ReadNothing(t) \/ LookHit(t) \/ GetHit(t)
  BY <1>2 DEF Aim, LockPlace, ReadNothing, LookHit, GetHit
<1>3. CASE LookOn(t) \/ LookMiss(t) \/ Put(t) \/ Update(t) \/ Delete(t)
  BY <1>3 DEF LookOn, LookMiss, Put, Update, Delete
<1>4. CASE TryCuckoo(t) \/ BeginPath(t) \/ TestKey(t) \/ HashFirst(t) \/ HashSecond(t)
  BY SMTT(30), <1>4 DEF TryCuckoo, BeginPath, TestKey, HashFirst, HashSecond, PathDone
<1>5. CASE PushSlot(t)
  BY <1>5 DEF PushSlot, PathDone
<1>9. CASE ChoosePath(t)
  BY <1>9 DEF ChoosePath
<1>6. CASE LockPath(t) \/ PathLocked(t) \/ CheckEntry(t)
  BY <1>6 DEF LockPath, PathLocked, CheckEntry
<1>7. CASE Checked(t) \/ MoveEntry(t) \/ PutFirst(t)
  BY <1>7 DEF Checked, MoveEntry, PutFirst
<1>8. CASE LockAll(t) \/ SetMutex(t) \/ EndResize(t)
  BY <1>8 DEF LockAll, SetMutex, EndResize
<1> QED
  BY <1>1, <1>2, <1>3, <1>4, <1>5, <1>6, <1>7, <1>8, <1>9 DEF Step, Look, Displace, Resize

\* The tables are as long as the code takes them to be.
LEMMA SizedStep ==
  ASSUME IInv, NEW t \in Threads, Step(t)
  PROVE  Sized'
<1> Typed /\ TypeOK /\ Sized /\ OneHolder
  BY DEF IInv, Typed
<1>1. \A u \in Threads : u # t => pc'[u] = pc[u]
  BY Others
<1>2. /\ Len(array) \in Nat /\ table \in 1..Len(array) /\ old_tab \in 0..Len(array)
      /\ capacity \in 1..MaxCapacity /\ capacity # 0
      /\ \A d \in 1..Len(array) : DOMAIN array'[d] = DOMAIN array[d]
  <2>1. capacity \in 1..MaxCapacity /\ capacity # 0
    BY Bounds DEF TypeOK
  <2> QED
    BY <2>1, ArrayType, ArrayStep DEF Typed, TypeOK
<1>3. ASSUME pc[t] \in Holding
      PROVE \A u \in Threads : u # t => pc[u] \notin Holding /\ pc'[u] \notin Holding
  BY <1>1, <1>3 DEF OneHolder, Holder
<1>4. CASE SaveCapacity(t)
  <2>1. /\ pc[t] = "save_cap" /\ pc'[t] = "save_tab" /\ old_cap' = capacity
        /\ UNCHANGED <<array, table, capacity, old_tab>>
    BY <1>4 DEF SaveCapacity, Goto, TypeOK
  <2>2. \A u \in Threads : u # t => pc'[u] \notin Holding /\ pc[u] \notin Holding
    BY <1>3, <2>1 DEF Holding
  <2> QED
    BY <2>1, <2>2 DEF Sized, Holding
<1>5. CASE SaveTable(t)
  <2>1. /\ pc[t] = "save_tab" /\ pc'[t] = "lock_all" /\ old_tab' = table
        /\ UNCHANGED <<array, table, capacity, old_cap>>
    BY <1>5 DEF SaveTable, Goto, TypeOK
  <2>2. \A u \in Threads : u # t => pc'[u] \notin Holding /\ pc[u] \notin Holding
    BY <1>3, <2>1 DEF Holding
  <2> QED
    BY <2>1, <2>2 DEF Sized, Holding
<1>6. CASE Grow(t)
  <2>1. /\ pc[t] \in {"lock_all", "grow"} /\ pc'[t] = "allocate" /\ Len(array) < MaxTables
        /\ UNCHANGED <<array, table, old_tab, old_cap>>
    BY <1>6 DEF Grow, Goto, TypeOK
  <2>2. \A u \in Threads : u # t => pc'[u] \notin Holding /\ pc[u] \notin Holding
    BY <1>3, <2>1 DEF Holding
  <2>3. old_tab # 0 /\ old_cap # 0 /\ DOMAIN array[old_tab] = 0..(old_cap-1)
    <3>1. CASE pc[t] = "grow"
      BY <3>1 DEF Sized
    <3>2. CASE pc[t] = "lock_all"
      <4>1. \A u \in Threads : pc[u] # "allocate"
        BY <2>2, <3>2 DEF Holding
      <4>2. old_tab = table /\ old_cap = capacity /\ DOMAIN array[table] = 0..(capacity-1)
        BY <3>2, <4>1 DEF Sized
      <4> QED
        BY <1>2, <4>2
    <3> QED
      BY <2>1, <3>1, <3>2
  <2> QED
    BY <2>1, <2>2, <2>3 DEF Sized, Holding
<1>7. CASE Allocate(t)
  <2>1. /\ pc[t] = "allocate" /\ pc'[t] = "refill" /\ array' = Append(array, Empty(capacity))
        /\ table' = Len(array') /\ UNCHANGED <<capacity, old_tab, old_cap>>
    BY <1>7 DEF Allocate, Goto, TypeOK
  <2>2. \A u \in Threads : u # t => pc'[u] \notin Holding /\ pc[u] \notin Holding
    BY <1>3, <2>1 DEF Holding
  <2>3. Len(array') = Len(array) + 1 /\ array'[Len(array) + 1] = Empty(capacity)
    <3>1. Empty(capacity) \in Arrays
      BY <1>2 DEF Empty, Arrays, Tables
    <3> QED
      BY <2>1, <3>1, AppendProperties DEF Typed
  <2>4. table' >= 2 /\ DOMAIN array'[table'] = 0..(capacity-1)
    BY <1>2, <2>1, <2>3 DEF Empty
  <2>5. old_tab # 0 /\ old_cap # 0 /\ DOMAIN array'[old_tab] = 0..(old_cap-1)
    BY <1>2, <2>1 DEF Sized
  <2> QED
    BY <2>1, <2>2, <2>4, <2>5 DEF Sized, Holding
<1>8. CASE Reinsert(t) \/ UnlockAll(t)
  <2>1. /\ pc[t] = "refill" /\ pc'[t] \in {"refill", "grow", "set_mutex"}
        /\ UNCHANGED <<table, capacity, old_tab, old_cap>>
    BY <1>8 DEF Reinsert, UnlockAll, Goto, TypeOK, fieldVars
  <2>2. \A u \in Threads : u # t => pc'[u] \notin Holding /\ pc[u] \notin Holding
    BY <1>3, <2>1 DEF Holding
  <2>3. /\ DOMAIN array[table] = 0..(capacity-1)
        /\ old_tab # 0 /\ old_cap # 0 /\ DOMAIN array[old_tab] = 0..(old_cap-1) /\ table >= 2
    BY <2>1, <2>2 DEF Sized, Holding
  <2>4. DOMAIN array'[table] = DOMAIN array[table] /\ DOMAIN array'[old_tab] = DOMAIN array[old_tab]
    BY <1>2, <2>3
  <2> QED
    BY <2>1, <2>2, <2>3, <2>4 DEF Sized, Holding
<1>9. CASE /\ ~ SaveCapacity(t) /\ ~ SaveTable(t) /\ ~ Grow(t) /\ ~ Allocate(t)
           /\ ~ Reinsert(t) /\ ~ UnlockAll(t)
  <2>1. /\ UNCHANGED <<capacity, table, old_cap, old_tab>> /\ Len(array') = Len(array)
    BY <1>9, Frames, ArrayStep
  <2>2. \A u \in Threads : /\ pc'[u] \in Tracked => pc'[u] = pc[u]
                           /\ pc[u] = "allocate" => pc'[u] = "allocate"
    BY <1>1, <1>9, ResizeFrame
  <2>3. DOMAIN array'[table] = DOMAIN array[table]
        /\ (old_tab # 0 => DOMAIN array'[old_tab] = DOMAIN array[old_tab])
    BY <1>2
  <2> QED
    BY <2>1, <2>2, <2>3 DEF Sized, Tracked
<1> QED
  BY <1>4, <1>5, <1>6, <1>7, <1>8, <1>9

-----------------------------------------------------------------------------
(* The mutexes.                                                            *)

\* The first mutexes do not come back.
LEMMA FirstMutexes ==
  ASSUME IInv, NEW t \in Threads, Step(t), mutex' = 1
  PROVE  mutex = 1
<1>1. CASE SetMutex(t)
  <2>1. pc[t] = "set_mutex" /\ mutex' = table
    BY <1>1 DEF SetMutex
  <2>2. table >= 2
    BY <2>1 DEF IInv, Sized
  <2> QED
    BY <2>1, <2>2
<1> QED
  BY <1>1, Frames

\* How a thread gets to a slot, and how it stays there.
LEMMA AtSlot ==
  ASSUME IInv, NEW t \in Threads, Step(t), pc'[t] \in {"lock", "look", "write"}
  PROVE  \/ Aim(t) /\ pc'[t] = "lock"
         \/ LockPlace(t) /\ pc[t] = "lock" /\ UNCHANGED <<todo, places, n, lock>>
         \/ /\ pc[t] \in {"look", "write"} /\ pc'[t] # "lock"
            /\ UNCHANGED <<todo, places, n, lock, mutexVars>>
<1> TypeOK
  BY DEF IInv, Typed
<1> USE DEF Goto, Return, TypeOK, callVars, probeVars
<1>1. CASE AwaitResize(t) \/ PickPlaces(t) \/ BeginGet(t) \/ PickPlace(t) \/ DivideByZero(t)
  BY <1>1 DEF AwaitResize, PickPlaces, BeginGet, PickPlace, DivideByZero
<1>2. CASE Aim(t) \/ LockPlace(t) \/ ReadNothing(t) \/ LookHit(t) \/ GetHit(t)
  BY <1>2 DEF Aim, LockPlace, ReadNothing, LookHit, GetHit
<1>3. CASE LookOn(t) \/ LookMiss(t) \/ Put(t) \/ Update(t) \/ Delete(t)
  BY <1>3 DEF LookOn, LookMiss, Put, Update, Delete
<1>4. CASE TryCuckoo(t) \/ BeginPath(t) \/ TestKey(t) \/ HashFirst(t) \/ HashSecond(t)
  BY <1>4 DEF TryCuckoo, BeginPath, TestKey, HashFirst, HashSecond, PathDone
<1>5. CASE PushSlot(t)
  BY <1>5 DEF PushSlot, PathDone
<1>6. CASE ChoosePath(t)
  BY <1>6 DEF ChoosePath
<1>7. CASE LockPath(t) \/ PathLocked(t) \/ CheckEntry(t)
  BY <1>7 DEF LockPath, PathLocked, CheckEntry
<1>8. CASE Checked(t) \/ MoveEntry(t) \/ PutFirst(t)
  BY <1>8 DEF Checked, MoveEntry, PutFirst
<1>9. CASE SaveCapacity(t) \/ SaveTable(t) \/ LockAll(t) \/ Grow(t)
  BY <1>9 DEF SaveCapacity, SaveTable, LockAll, Grow
<1>10. CASE Allocate(t) \/ Reinsert(t) \/ UnlockAll(t)
  BY <1>10 DEF Allocate, Reinsert, UnlockAll
<1>11. CASE SetMutex(t) \/ EndResize(t)
  BY <1>11 DEF SetMutex, EndResize
<1> QED
  BY <1>1, <1>2, <1>3, <1>4, <1>5, <1>6, <1>7, <1>8, <1>9, <1>10, <1>11
     DEF Step, Look, Displace, Resize

\* How a thread gets to moving its path or filling a table, and how it goes on.
LEMMA AtPath ==
  ASSUME IInv, NEW t \in Threads, Step(t)
  PROVE  /\ pc'[t] \in {"check", "move"} =>
              \/ PathLocked(t)
              \/ pc[t] \in {"check", "move"} /\ UNCHANGED <<path, mutexVars>>
         /\ pc'[t] \in {"lock_all", "grow", "allocate", "refill"} =>
              SaveTable(t) \/ LockAll(t) \/ Grow(t) \/ Allocate(t) \/ Reinsert(t)
<1> TypeOK
  BY DEF IInv, Typed
<1> USE DEF Goto, Return, TypeOK, pathVars, searchFrame
<1>1. CASE AwaitResize(t) \/ PickPlaces(t) \/ BeginGet(t) \/ PickPlace(t) \/ DivideByZero(t)
  BY <1>1 DEF AwaitResize, PickPlaces, BeginGet, PickPlace, DivideByZero
<1>2. CASE Aim(t) \/ LockPlace(t) \/ ReadNothing(t) \/ LookHit(t) \/ GetHit(t)
  BY <1>2 DEF Aim, LockPlace, ReadNothing, LookHit, GetHit
<1>3. CASE LookOn(t) \/ LookMiss(t) \/ Put(t) \/ Update(t) \/ Delete(t)
  BY <1>3 DEF LookOn, LookMiss, Put, Update, Delete
<1>4. CASE TryCuckoo(t) \/ BeginPath(t) \/ TestKey(t) \/ HashFirst(t) \/ HashSecond(t)
  BY <1>4 DEF TryCuckoo, BeginPath, TestKey, HashFirst, HashSecond, PathDone
<1>5. CASE PushSlot(t)
  BY <1>5 DEF PushSlot, PathDone
<1>6. CASE ChoosePath(t)
  BY <1>6 DEF ChoosePath
<1>7. CASE LockPath(t)
  BY <1>7 DEF LockPath
<1>8. CASE CheckEntry(t)
  BY <1>8 DEF CheckEntry
<1>9. CASE Checked(t) \/ MoveEntry(t) \/ PutFirst(t) \/ SaveCapacity(t)
  BY <1>9 DEF Checked, MoveEntry, PutFirst, SaveCapacity
<1>10. CASE UnlockAll(t) \/ SetMutex(t) \/ EndResize(t)
  BY <1>10 DEF UnlockAll, SetMutex, EndResize
<1>11. CASE PathLocked(t) \/ SaveTable(t) \/ LockAll(t) \/ Grow(t) \/ Allocate(t) \/ Reinsert(t)
  BY <1>11 DEF PathLocked, SaveTable, LockAll, Grow, Allocate, Reinsert
<1> QED
  BY <1>1, <1>2, <1>3, <1>4, <1>5, <1>6, <1>7, <1>8, <1>9, <1>10, <1>11
     DEF Step, Look, Displace, Resize

\* The mutex of a thread stays that of its slot.
LEMMA StripedStep ==
  ASSUME IInv, NEW t \in Threads, Step(t)
  PROVE  Striped'
<1> TypeOK /\ Striped
  BY DEF IInv, Typed
<1> SUFFICES ASSUME mutex' = 1, NEW u \in Threads, pc'[u] \in {"lock", "look", "write"}
             PROVE  lock'[u] = <<1, places'[u][n'[u]] \div locksize>>
  BY DEF Striped, Slot
<1>1. mutex = 1
  BY FirstMutexes
<1>2. CASE u # t
  <2>1. pc'[u] = pc[u] /\ places'[u] = places[u] /\ n'[u] = n[u] /\ lock'[u] = lock[u]
    BY <1>2, Others
  <2> QED
    BY <1>1, <2>1 DEF Striped, Slot
<1>3. CASE u = t
  <2>1. CASE Aim(t)
    BY <1>1, <1>3, <2>1 DEF Aim, TypeOK
  <2>2. CASE pc[t] \in {"lock", "look", "write"} /\ UNCHANGED <<places, n, lock>>
    BY <1>1, <1>3, <2>2 DEF Striped, Slot
  <2> QED
    BY <1>3, <2>1, <2>2, AtSlot
<1> QED
  BY <1>2, <1>3

\* Nobody takes a mutex from a thread but itself.
LEMMA OwnersStay ==
  ASSUME TypeOK, NEW t \in Threads, Step(t), NEW u \in Threads, u # t, NEW l \in Locks
  PROVE  /\ writer[l] = u => writer'[l] = u
         /\ u \in readers[l] => u \in readers'[l]
<1> u # Nobody
  BY Bounds
<1>1. CASE UNCHANGED mutexVars
  BY <1>1 DEF mutexVars
<1>2. ASSUME NEW m, Exclusive(t, m)
      PROVE  /\ writer[l] = u => writer'[l] = u
             /\ u \in readers[l] => u \in readers'[l]
  BY <1>2 DEF Exclusive, TypeOK
<1>3. ASSUME NEW m, Shared(t, m)
      PROVE  /\ writer[l] = u => writer'[l] = u
             /\ u \in readers[l] => u \in readers'[l]
  BY <1>3 DEF Shared, TypeOK
<1>4. CASE Release(t)
  BY <1>4 DEF Release, TypeOK
<1> QED
  BY <1>1, <1>2, <1>3, <1>4, MutexFrame

\* A thread at a slot goes on holding its mutex.
LEMMA HeldStep ==
  ASSUME IInv, NEW t \in Threads, Step(t)
  PROVE  Held'
<1> TypeOK /\ Held
  BY DEF IInv, Typed
<1> SUFFICES ASSUME NEW u \in Threads, pc'[u] \in {"look", "write"}
             PROVE  /\ Calling(u, "Get")' => u \in readers'[lock'[u]]
                    /\ ~ Calling(u, "Get")' => writer'[lock'[u]] = u
  BY DEF Held
<1>1. CASE u # t
  <2>1. pc'[u] = pc[u] /\ Calling(u, "Get")' = Calling(u, "Get") /\ lock'[u] = lock[u]
    BY <1>1, Others DEF Calling, Call
  <2>2. lock[u] \in Locks
    BY DEF TypeOK
  <2> QED
    BY <1>1, <2>1, <2>2, OwnersStay DEF Held
<1>2. CASE u = t
  <2>1. CASE LockPlace(t) /\ UNCHANGED <<todo, lock>>
    <3>1. lock[t] \in Locks /\ Calling(t, "Get")' = Calling(t, "Get")
      BY <2>1 DEF TypeOK, Calling, Call
    <3>2. CASE Calling(t, "Get")
      <4>1. readers' = [readers EXCEPT ![lock[t]] = @ \cup {t}]
        BY <2>1, <3>2 DEF LockPlace, Shared
      <4> QED
        BY <1>2, <2>1, <3>1, <3>2, <4>1 DEF TypeOK
    <3>3. CASE ~ Calling(t, "Get")
      <4>1. writer' = [writer EXCEPT ![lock[t]] = t]
        BY <2>1, <3>3 DEF LockPlace, Exclusive
      <4> QED
        BY <1>2, <2>1, <3>1, <3>3, <4>1 DEF TypeOK
    <3> QED
      BY <3>2, <3>3
  <2>2. CASE pc[t] \in {"look", "write"} /\ UNCHANGED <<todo, lock, mutexVars>>
    BY <1>2, <2>2 DEF Held, Calling, Call, mutexVars
  <2> QED
    BY <1>2, <2>1, <2>2, AtSlot
<1> QED
  BY <1>1, <1>2

\* A mutex is locked exclusively or shared.
LEMMA ExclusionStep ==
  ASSUME IInv, NEW t \in Threads, Step(t)
  PROVE  Exclusion'
<1> TypeOK /\ Exclusion
  BY DEF IInv, Typed
<1> SUFFICES ASSUME NEW l \in Locks, writer'[l] # Nobody PROVE readers'[l] = {}
  BY DEF Exclusion
<1>1. CASE UNCHANGED mutexVars
  BY <1>1 DEF mutexVars, Exclusion
<1>2. ASSUME NEW m, Exclusive(t, m) PROVE readers'[l] = {}
  BY <1>2 DEF Exclusive, Exclusion, TypeOK
<1>3. ASSUME NEW m, Shared(t, m) PROVE readers'[l] = {}
  BY <1>3 DEF Shared, Exclusion, TypeOK
<1>4. CASE Release(t)
  <2>1. writer[l] # Nobody /\ readers'[l] = readers[l] \ {t}
    BY <1>4 DEF Release
  <2> QED
    BY <2>1 DEF Exclusion
<1> QED
  BY <1>1, <1>2, <1>3, <1>4, MutexFrame

\* The mutex of a slot of a path is one there is.
LEMMA PathSlot ==
  ASSUME TypeOK, NEW u \in Threads, NEW j \in DOMAIN path[u]
  PROVE  <<1, path[u][j].slot \div locksize>> \in Locks
<1>1. path[u] \in Seq(Entries)
  BY DEF TypeOK
<1>2. path[u][j] \in Entries
  BY <1>1
<1>3. path[u][j].slot \in Nat /\ path[u][j].slot <= MaxCapacity
  BY <1>2, Bounds DEF Entries
<1>4. MaxCapacity \in 0..MaxCapacity
  BY Bounds
<1>5. path[u][j].slot \div locksize \in 0..MaxCapacity
  BY <1>3, <1>4, Stripe
<1> QED
  BY <1>5, Bounds DEF Locks

\* A thread that moves a path goes on holding the mutexes of its slots.
LEMMA PathHeldStep ==
  ASSUME IInv, NEW t \in Threads, Step(t)
  PROVE  PathHeld'
<1> TypeOK /\ PathHeld
  BY DEF IInv, Typed
<1> SUFFICES ASSUME mutex' = 1, NEW u \in Threads, pc'[u] \in {"check", "move"},
                    NEW j \in DOMAIN path'[u]
             PROVE  writer'[<<1, path'[u][j].slot \div locksize>>] = u
  BY DEF PathHeld
<1>1. mutex = 1
  BY FirstMutexes
<1>2. CASE u # t
  <2>1. pc'[u] = pc[u] /\ path'[u] = path[u]
    BY <1>2, Others
  <2>2. writer[<<1, path[u][j].slot \div locksize>>] = u
    BY <1>1, <2>1 DEF PathHeld
  <2> QED
    BY <1>2, <2>1, <2>2, PathSlot, OwnersStay
<1>3. CASE u = t
  <2>1. CASE PathLocked(t)
    <3>1. /\ path' = path /\ writer' = writer
          /\ \A l \in ToLock(t) : writer[l] = t
      BY <2>1 DEF PathLocked, searchFrame, mutexVars, pathVars
    <3>2. <<1, path[t][j].slot \div locksize>> \in ToLock(t)
      BY <1>1, <1>3, <3>1 DEF ToLock
    <3> QED
      BY <1>3, <3>1, <3>2
  <2>2. CASE pc[t] \in {"check", "move"} /\ UNCHANGED <<path, mutexVars>>
    BY <1>1, <1>3, <2>2 DEF PathHeld, mutexVars
  <2> QED
    BY <1>3, <2>1, <2>2, AtPath
<1> QED
  BY <1>2, <1>3

\* resize() goes on holding the mutexes it has taken.
LEMMA AllHeldStep ==
  ASSUME IInv, NEW t \in Threads, Step(t)
  PROVE  AllHeld'
<1> Typed /\ TypeOK /\ AllHeld /\ OneHolder
  BY DEF IInv, Typed
<1> SUFFICES ASSUME mutex' = 1, NEW u \in Threads, NEW k \in 0..MaxCapacity,
                    \/ pc'[u] = "lock_all" /\ k < i'[u]
                    \/ pc'[u] \in {"grow", "allocate", "refill"} /\ k < nlocks(old_cap')
             PROVE  writer'[<<1, k>>] = u
  BY DEF AllHeld, nlocks
<1>1. mutex = 1
  BY FirstMutexes
<1>2. <<1, k>> \in Locks
  BY Bounds DEF Locks
<1>3. CASE u # t
  <2>1. pc'[u] = pc[u] /\ i'[u] = i[u]
    BY <1>3, Others
  <2>2. old_cap' = old_cap
    <3>1. ~ SaveCapacity(t)
      BY <1>3, <2>1 DEF SaveCapacity, OneHolder, Holder, Holding
    <3> QED
      BY <3>1, Frames
  <2>3. writer[<<1, k>>] = u
    BY <1>1, <2>1, <2>2 DEF AllHeld
  <2> QED
    BY <1>2, <1>3, <2>3, OwnersStay
<1>4. CASE u = t
  <2>1. CASE SaveTable(t)
    BY <1>4, <2>1 DEF SaveTable, Goto, TypeOK
  <2>2. CASE LockAll(t)
    <3>1. /\ pc[t] = "lock_all" /\ pc'[t] = "lock_all" /\ i'[t] = i[t] + 1 /\ i[t] \in Nat
          /\ writer' = [writer EXCEPT ![<<1, i[t]>>] = t]
      BY <1>1, <2>2 DEF LockAll, Exclusive, TypeOK
    <3>2. k = i[t] \/ k < i[t]
      BY <1>4, <3>1
    <3>3. CASE k = i[t]
      BY <1>2, <1>4, <3>1, <3>3 DEF TypeOK
    <3>4. CASE k < i[t]
      <4>1. writer[<<1, k>>] = t
        BY <1>1, <3>1, <3>4 DEF AllHeld
      <4> QED
        BY <1>2, <1>4, <3>1, <4>1 DEF TypeOK
    <3> QED
      BY <3>2, <3>3, <3>4
  <2>3. CASE Grow(t)
    <3>1. /\ pc'[t] = "allocate" /\ writer' = writer /\ old_cap' = old_cap
          /\ pc[t] = "grow" \/ (pc[t] = "lock_all" /\ i[t] >= nlocks(old_cap))
      BY <2>3 DEF Grow, Goto, TypeOK, resizeFrame, mutexVars
    <3>2. k < nlocks(old_cap)
      BY <1>4, <3>1
    <3>3. CASE pc[t] = "grow"
      BY <1>1, <1>4, <3>1, <3>2, <3>3 DEF AllHeld
    <3>4. CASE pc[t] = "lock_all" /\ i[t] >= nlocks(old_cap)
      <4>1. nlocks(old_cap) \in Nat
        <5>1. old_cap \in 0..MaxCapacity /\ 0 \in Nat /\ 0 <= old_cap
          BY Bounds DEF TypeOK
        <5> QED
          BY <5>1, Stripe
      <4>2. k \in Nat /\ i[t] \in Nat
        BY DEF TypeOK
      <4>3. k < i[t]
        BY <3>2, <3>4, <4>1, <4>2
      <4> QED
        BY <1>1, <1>4, <3>1, <3>4, <4>3 DEF AllHeld
    <3> QED
      BY <3>1, <3>3, <3>4
  <2>4. CASE Allocate(t) \/ Reinsert(t)
    <3>1. /\ pc[t] \in {"allocate", "refill"} /\ writer' = writer /\ old_cap' = old_cap
          /\ pc'[t] \in {"refill", "grow"}
      BY <2>4 DEF Allocate, Reinsert, Goto, TypeOK, resizeFrame, mutexVars, fieldVars
    <3> QED
      BY <1>1, <1>4, <3>1 DEF AllHeld
  <2> QED
    BY <1>4, <2>1, <2>2, <2>3, <2>4, AtPath
<1> QED
  BY <1>3, <1>4

-----------------------------------------------------------------------------
(* The theorems.                                                           *)

\* It holds to begin with.
LEMMA InitIInv == Init => IInv
<1> SUFFICES ASSUME Init PROVE IInv
  OBVIOUS
<1>1. /\ InitCapacity \in 1..MaxCapacity /\ Empty(InitCapacity) \in Arrays
      /\ Empty(InitCapacity) \in Tables(InitCapacity)
      /\ DOMAIN Empty(InitCapacity) = 0..(InitCapacity-1)
  <2>1. Empty(InitCapacity) \in Tables(InitCapacity) /\ DOMAIN Empty(InitCapacity) = 0..(InitCapacity-1)
    BY DEF Empty, Tables
  <2> QED
    BY <2>1, Bounds DEF Arrays
<1>2. /\ array = <<Empty(InitCapacity)>> /\ pc = [t \in Threads |-> "retry"]
      /\ capacity = InitCapacity /\ resizing_lock = 0 /\ table = 1
  BY DEF Init
<1>3. /\ array \in Seq(Arrays) /\ Len(array) = 1 /\ DOMAIN array = {1}
      /\ array[1] = Empty(InitCapacity)
  BY <1>1, <1>2
<1>4. TypeOK
  <2>1. <<1, 0>> \in Locks
    BY Bounds DEF Locks
  <2>2. lock \in [Threads -> Locks] /\ from \in [Threads -> 1..Len(array)]
    BY <1>3, <2>1 DEF Init
  <2>3. todo \in [Threads -> Seq(Calls)]
    BY WorkloadAssumption DEF Init
  <2>4. /\ DOMAIN array = 1..Len(array)
        /\ \A d \in DOMAIN array : \E cap \in 1..MaxCapacity : array[d] \in Tables(cap)
    BY <1>1, <1>3
  <2>5. /\ table \in 1..Len(array) /\ mutex \in 1..Len(array) /\ Len(array) <= MaxTables
        /\ capacity \in 1..MaxCapacity /\ resizing_lock \in {0, 1} /\ exited \in BOOLEAN
        /\ old_tab \in 0..Len(array)
    <3>1. table = 1 /\ mutex = 1 /\ exited = FALSE /\ old_tab = 0
      BY DEF Init
    <3>2. 1 \in 1..Len(array) /\ 0 \in 0..Len(array) /\ Len(array) <= MaxTables
      BY <1>3, Bounds
    <3> QED
      BY <1>1, <1>2, <3>1, <3>2
  <2>6. old_cap \in 0..MaxCapacity
    BY CuckooAssumption DEF Init
  <2>7. /\ writer \in [Locks -> Threads \cup {Nobody}] /\ readers \in [Locks -> SUBSET Threads]
        /\ ret \in [Threads -> Values \cup {NONE} \cup BOOLEAN]
        /\ n \in [Threads -> {1, 2}] /\ old \in [Threads -> BOOLEAN] /\ i \in [Threads -> Nat]
    BY DEF Init
  <2>8. 0 \in 0..(MaxCapacity-1)
    BY Bounds
  <2>9. /\ places \in [Threads -> [{1, 2} -> 0..(MaxCapacity-1)]]
        /\ hash \in [Threads -> 0..(MaxCapacity-1)]
    <3>1. <<0, 0>> \in [{1, 2} -> 0..(MaxCapacity-1)]
      BY <2>8
    <3> QED
      BY <2>8, <3>1 DEF Init
  <2>10. /\ path1 \in [Threads -> Seq(Entries)] /\ path \in [Threads -> Seq(Entries)]
         /\ \A t \in Threads : Len(path1[t]) <= kCuckooThreshold /\ Len(path[t]) <= kCuckooThreshold
    <3>1. <<>> \in Seq(Entries) /\ Len(<<>>) <= kCuckooThreshold
      BY Bounds
    <3> QED
      BY <3>1 DEF Init
  <2>11. pc \in [Threads -> Steps]
    BY <1>2 DEF Steps
  <2> QED
    BY <2>2, <2>3, <2>4, <2>5, <2>6, <2>7, <2>9, <2>10, <2>11 DEF TypeOK
<1>5. Typed
  BY <1>2, <1>3, <1>4 DEF Typed, Making, Holding
<1>6. Sized
  BY <1>1, <1>2, <1>3 DEF Sized
<1>7. OneHolder /\ Striped /\ Held /\ PathHeld /\ AllHeld
  BY <1>2 DEF OneHolder, Holder, Holding, Striped, Held, PathHeld, AllHeld
<1>8. Exclusion
  BY DEF Exclusion, Init
<1> QED
  BY <1>5, <1>6, <1>7, <1>8 DEF IInv

\* The invariant is inductive.
LEMMA NextIInv == IInv /\ [Next]_vars => IInv'
<1> SUFFICES ASSUME IInv, [Next]_vars PROVE IInv'
  OBVIOUS
<1>1. CASE UNCHANGED vars
  <2> USE <1>1 DEF vars, fieldVars, mutexVars, callVars, probeVars, pathVars
  <2>1. Typed'
    BY DEF IInv, Typed, TypeOK, Calling, Call
  <2>2. OneHolder' /\ Sized' /\ Exclusion'
    BY DEF IInv, OneHolder, Holder, Sized, Exclusion
  <2>3. Striped' /\ Held' /\ PathHeld' /\ AllHeld'
    BY DEF IInv, Striped, Slot, Held, PathHeld, AllHeld, Calling, Call, nlocks
  <2> QED
    BY <2>1, <2>2, <2>3 DEF IInv
<1>2. ASSUME NEW t \in Threads, Step(t) PROVE IInv'
  BY <1>2, TypedStep, HolderStep, SizedStep, StripedStep, HeldStep, ExclusionStep, PathHeldStep,
     AllHeldStep DEF IInv
<1> QED
  BY <1>1, <1>2 DEF Next, Terminated

\* So it is an invariant.
LEMMA Inductive == Spec => []IInv
BY InitIInv, NextIInv, PTL DEF Spec

\* Every variable keeps its type, through searches, displacements and resizes: no
\* path is longer than the threshold, no table or mutex is used that does not exist,
\* though slots beyond the end of one may be.
THEOREM TypesAreKept == Spec => []TypeOK
<1>1. IInv => TypeOK
  BY DEF IInv, Typed
<1> QED
  BY <1>1, Inductive, PTL

\* Insert searches and resizes under resizing_lock (lines 131-133, 225-228): never
\* two threads at a time, though the lock is given back in three different places.
THEOREM SearchesAlone == Spec => []OneHolder
<1>1. IInv => OneHolder
  BY DEF IInv
<1> QED
  BY <1>1, Inductive, PTL

\* What a thread uses, it has locked.
LEMMA Guarded ==
  ASSUME IInv, mutex = 1, NEW t \in Threads, NEW e \in Using(t)
  PROVE  /\ <<1, e[2] \div locksize>> \in Locks
         /\ \/ writer[<<1, e[2] \div locksize>>] = t
            \/ Reading(t) /\ t \in readers[<<1, e[2] \div locksize>>]
<1> TypeOK /\ Striped /\ Held /\ PathHeld /\ AllHeld
  BY DEF IInv, Typed
<1>1. CASE pc[t] = "look"
  <2>1. e[2] = Slot(t)
    BY <1>1 DEF Using
  <2>2. lock[t] \in Locks /\ lock[t] = <<1, e[2] \div locksize>>
    BY <1>1, <2>1 DEF Striped, TypeOK
  <2>3. IF Calling(t, "Get") THEN t \in readers[lock[t]] ELSE writer[lock[t]] = t
    BY <1>1 DEF Held
  <2> QED
    BY <1>1, <2>2, <2>3 DEF Reading
<1>2. CASE pc[t] = "write"
  <2>1. e[2] = Slot(t) /\ ~ Calling(t, "Get")
    BY <1>2 DEF Using, IInv, Typed
  <2>2. lock[t] \in Locks /\ lock[t] = <<1, e[2] \div locksize>>
    BY <1>2, <2>1 DEF Striped, TypeOK
  <2>3. writer[lock[t]] = t
    BY <1>2, <2>1 DEF Held
  <2> QED
    BY <2>2, <2>3
<1>3. CASE pc[t] \in {"check", "move"}
  <2>1. PICK j \in DOMAIN path[t] : e = <<table, path[t][j].slot>>
    BY <1>3 DEF Using
  <2>2. writer[<<1, path[t][j].slot \div locksize>>] = t
    BY <1>3 DEF PathHeld
  <2> QED
    BY <2>1, <2>2, PathSlot
<1>4. CASE pc[t] \in {"grow", "allocate", "refill"}
  <2>1. e[2] \in 0..(old_cap-1) /\ old_cap \in 0..MaxCapacity
    BY <1>4 DEF Using, TypeOK
  <2>2. e[2] \in Nat /\ e[2] <= old_cap
    BY <2>1, Bounds
  <2>3. e[2] \div locksize \in 0..MaxCapacity /\ e[2] \div locksize < nlocks(old_cap)
    BY <2>1, <2>2, Stripe
  <2> QED
    BY <1>4, <2>3, Bounds DEF AllHeld, Locks
<1>5. CASE pc[t] \notin {"look", "write", "check", "move", "grow", "allocate", "refill"}
  BY <1>5 DEF Using
<1> QED
  BY <1>1, <1>2, <1>3, <1>4, <1>5

\* What the mutexes guard, of any state the invariant holds in.
LEMMA Apart ==
  ASSUME IInv
  PROVE  SlotsGuarded
<1> SUFFICES ASSUME mutex = 1, NEW t \in Threads, NEW u \in Threads, t # u,
                    ~ (Reading(t) /\ Reading(u)), NEW e \in Using(t), e \in Using(u)
             PROVE  FALSE
  BY DEF SlotsGuarded
<1> DEFINE l == <<1, e[2] \div locksize>>
<1>1. l \in Locks /\ (writer[l] = t \/ (Reading(t) /\ t \in readers[l]))
  BY Guarded
<1>2. writer[l] = u \/ (Reading(u) /\ u \in readers[l])
  BY Guarded
<1>3. writer[l] # Nobody => readers[l] = {}
  BY <1>1 DEF IInv, Exclusion
<1>4. t # Nobody /\ u # Nobody
  BY Bounds
<1> HIDE DEF l
<1> QED
  BY <1>1, <1>2, <1>3, <1>4

\* Until the mutexes are replaced, two threads use one slot only to read it: at its
\* place (lines 91-127), on a path (153-221), or in a table that is refilled (437-523).
THEOREM MutexesGuardSlots == Spec => []SlotsGuarded
<1>1. IInv => SlotsGuarded
  BY Apart
<1> QED
  BY <1>1, Inductive, PTL

-----------------------------------------------------------------------------
(* The first table.  What find_path has found of a path stays right, or is *)
(* found out of date by execute_path, as long as no key is deleted under   *)
(* it.  Beside a Delete it does not, and after a resize the mutexes no     *)
(* longer go with the slots.                                               *)

\* Nobody has begun to replace the first table.
Fresh == table = 1 /\ \A t \in Threads : pc[t] # "allocate"

\* The table in use is the one allocated last.
Newest == table = Len(array)

KeyAt(x) == KeyOf(array[table][x])

\* A path still has to bring a key to slot x.
Awaits(x) == \E t \in Threads : \E j \in DOMAIN path[t] :
               pc[t] = "move" /\ j <= i[t] /\ path[t][j].slot = x

\* The key in slot x stays there until another path is moved.
Settled(x) == KeyAt(x) # INVALID /\ ~ Awaits(x)

\* An entry of a path is out of date, and stays so ...
Stale(e) == Settled(e.slot) /\ KeyAt(e.slot) # e.key
\* ... or is right, if it is not.
Seen(e) == Stale(e) \/ KeyAt(e.slot) = e.key

NextSlot(e) == Other(e.key, e.slot, capacity)

Inside(p) == \A j \in DOMAIN p : p[j].slot \in Slots(capacity)

\* Every entry of the path p leads to the next one, but for those that are out of date.
Linked(p) == \A j \in 1..(Len(p)-1) :
               Stale(p[j]) \/ (p[j].key # INVALID /\ p[j+1].slot = NextSlot(p[j]))

\* t has come along p from a place of its key ...
Begun(t, p) == /\ p # <<>> /\ p[1].slot \in Places(Key(t), capacity)
               /\ Inside(p) /\ Linked(p)
\* ... to a free slot, unless there is no p.
Whole(t, p) == p # <<>> => Begun(t, p) /\ p[Len(p)].key = INVALID

Last(t) == path[t][Len(path[t])]

Walking == {"test", "hash1", "hash2", "push"}
Looking == Walking \cup {"path", "choose"}

\* What a search has found so far.
Searching(t) ==
  /\ pc[t] \in Looking => Whole(t, path1[t])
  /\ pc[t] \notin Looking => path1[t] = <<>>
  /\ pc[t] \in Walking => Begun(t, path[t]) /\ Seen(Last(t))
  /\ pc[t] \in {"hash1", "hash2", "push"} => KeyAt(Last(t).slot) # INVALID
  /\ pc[t] \in {"hash2", "push"} => hash[t] \in Slots(capacity)
  /\ pc[t] = "hash2" => Stale(Last(t)) \/ hash[t] = f_idx(Last(t).key, capacity)
  /\ pc[t] = "push" => Stale(Last(t)) \/ (Last(t).key # INVALID /\ hash[t] = NextSlot(Last(t)))
  /\ pc[t] \in {"choose", "lock_path", "check"} => Whole(t, path[t])
  /\ pc[t] \in {"lock_path", "check"} => path[t] # <<>>
  /\ pc[t] = "lock_path" => i[t] = 1
  /\ pc[t] = "check" =>
       /\ i[t] >= 1
       /\ \A j \in DOMAIN path[t] : j < i[t] => KeyAt(path[t][j].slot) = path[t][j].key

\* A path whose keys t moves, and how far it has come.
OnItsWay(t) ==
  LET p == path[t] IN
  /\ p # <<>> /\ p[1].slot \in Places(Key(t), capacity) /\ Inside(p)
  /\ \A j, l \in DOMAIN p : p[j].slot = p[l].slot => j = l
  /\ \A j \in 1..(Len(p)-1) : /\ p[j].key \in Keys /\ p[j].slot \in Places(p[j].key, capacity)
                              /\ p[j+1].slot = NextSlot(p[j])
  /\ p[Len(p)].key = INVALID
  /\ i[t] \in 1..Len(p)
  /\ \A j \in 1..Len(p) : KeyAt(p[j].slot) = IF j <= i[t] THEN p[j].key ELSE p[j-1].key

\* A thread that has chosen its places still has them, and an insertion its free slot.
Aimed(t) ==
  /\ pc[t] \notin {"retry", "pick"} /\ ~ Calling(t, "Get") =>
       places[t] = <<f_idx(Key(t), capacity), s_idx(Key(t), capacity)>>
  /\ pc[t] = "write" /\ Calling(t, "Insert") => KeyAt(Slot(t)) = INVALID

Calm == /\ InPlace(array[table], capacity)
        /\ \A t \in Threads : Aimed(t) /\ Searching(t) /\ (pc[t] = "move" => OnItsWay(t))

\* No key that is still to be inserted is in the table, or to be inserted twice.
Unused == /\ FreshInserts(todo)
          /\ \A t \in Threads : \A m \in Inserted(todo, t) :
               \A x \in Slots(capacity) : KeyAt(x) # todo[t][m].key

\* The thread that moves a path has just copied a key from one of the slots to the other.
Copying(x, y) ==
  \E t \in Threads : \E l \in DOMAIN path[t] :
     pc[t] = "move" /\ l = i[t] /\ l < Len(path[t])
     /\ {path[t][l].slot, path[t][l+1].slot} = {x, y}

\* MovedOrOnce.
KeysOnce == \A x, y \in Slots(capacity) :
              x # y /\ KeyAt(x) # INVALID /\ KeyAt(x) = KeyAt(y) => Copying(x, y)

FInv == Newest /\ (Fresh => Calm /\ Unused /\ KeysOnce)

\* No Delete takes effect while a thread searches for a path or resizes.
DeletesApart == \A t \in Threads : Delete(t) => resizing_lock = 0

\* No thread has a Delete to come.
DeletesNothing(w) == \A t \in Threads : \A m \in DOMAIN w[t] : w[t][m].op # "Delete"

-----------------------------------------------------------------------------
\* What is known before a step of t, and of the step.
Ongoing(t) == /\ IInv /\ Newest /\ Fresh /\ Calm
              /\ Step(t) /\ Fresh' /\ (Delete(t) => resizing_lock = 0)

\* The table in use stays the one allocated last.
LEMMA NewestStep ==
  ASSUME IInv, Newest, NEW t \in Threads, Step(t)
  PROVE  Newest'
<1>1. CASE Allocate(t)
  BY <1>1 DEF Allocate, Newest
<1>2. CASE ~ Allocate(t)
  BY <1>2, Frames, ArrayStep DEF Newest
<1> QED
  BY <1>1, <1>2

\* How a resize begins to fill a table.
LEMMA Allocating ==
  ASSUME TypeOK, NEW t \in Threads, Step(t)
  PROVE  /\ pc[t] = "allocate" => Allocate(t)
         /\ Grow(t) => pc'[t] = "allocate"
<1>1. pc[t] = "allocate" => Allocate(t)
  BY DEF Step, Look, Displace, Resize, AwaitResize, PickPlaces, BeginGet, PickPlace, DivideByZero,
         Aim, LockPlace, ReadNothing, LookHit, GetHit, LookOn, LookMiss, Put, Update, Delete,
         TryCuckoo, BeginPath, TestKey, HashFirst, HashSecond, PushSlot, ChoosePath, LockPath,
         PathLocked, CheckEntry, Checked, MoveEntry, PutFirst, SaveCapacity, SaveTable, LockAll,
         Grow, Reinsert, UnlockAll, SetMutex, EndResize
<1>2. Grow(t) => pc'[t] = "allocate"
  BY DEF Grow, Goto, TypeOK
<1> QED
  BY <1>1, <1>2

\* While the first table is fresh.
LEMMA FreshTable ==
  ASSUME IInv, Newest, Fresh
  PROVE  /\ table = 1 /\ mutex = 1 /\ array[table] \in Tables(capacity)
         /\ DOMAIN array[table] = Slots(capacity)
         /\ capacity \in Nat /\ capacity >= 1 /\ capacity <= MaxCapacity
         /\ \A t \in Threads : from[t] = 1 /\ pc[t] \notin {"grow", "allocate", "refill", "set_mutex"}
<1> TypeOK /\ Sized /\ array \in Seq(Arrays)
  BY DEF IInv, Typed
<1>1. table = 1 /\ Len(array) = 1 /\ mutex = 1 /\ \A t \in Threads : from[t] = 1
  BY DEF Fresh, Newest, TypeOK
<1>2. DOMAIN array[table] = 0..(capacity-1)
  BY DEF Sized, Fresh
<1>3. capacity \in Nat /\ capacity >= 1 /\ capacity <= MaxCapacity
  BY Bounds DEF TypeOK
<1>4. array[table] \in Tables(capacity)
  <2>1. table \in 1..Len(array)
    BY <1>1
  <2> QED
    BY <1>2, <1>3, <2>1, ArrayType
<1>5. \A t \in Threads : pc[t] \notin {"grow", "allocate", "refill", "set_mutex"}
  BY <1>1 DEF Sized, Fresh
<1> QED
  BY <1>1, <1>2, <1>3, <1>4, <1>5 DEF Slots

\* A table that is fresh after a step was so before.
LEMMA FreshBefore ==
  ASSUME IInv, Newest, NEW t \in Threads, Step(t), Fresh'
  PROVE  /\ Fresh /\ ~ Allocate(t) /\ ~ Grow(t) /\ ~ Reinsert(t)
         /\ table' = table /\ capacity' = capacity /\ mutex' = mutex
<1> TypeOK /\ Sized /\ array \in Seq(Arrays)
  BY DEF IInv, Typed
<1>1. ~ Allocate(t)
  <2>1. Allocate(t) => table' = Len(array) + 1 /\ Len(array) \in Nat
    BY ArrayType DEF Allocate
  <2>2. Len(array) >= 1
    BY ArrayType DEF TypeOK
  <2> QED
    BY <2>1, <2>2 DEF Fresh
<1>2. table' = table /\ table = 1
  BY <1>1, Frames DEF Fresh
<1>3. ~ Grow(t)
  BY Allocating DEF Fresh
<1>4. Fresh
  <2>1. \A u \in Threads : u # t => pc[u] = pc'[u]
    BY Others
  <2> QED
    BY <1>1, <1>2, <2>1, Allocating DEF Fresh
<1>5. ~ Reinsert(t) /\ ~ SetMutex(t)
  BY <1>4, FreshTable DEF Reinsert, SetMutex
<1> QED
  BY <1>1, <1>2, <1>3, <1>4, <1>5, Frames

\* How a thread gets to moving its path.
LEMMA AtMove ==
  ASSUME TypeOK, NEW t \in Threads, Step(t), pc'[t] = "move"
  PROVE  Checked(t) \/ MoveEntry(t)
<1> USE DEF Goto, Return, TypeOK
<1>1. CASE AwaitResize(t) \/ PickPlaces(t) \/ BeginGet(t) \/ PickPlace(t) \/ DivideByZero(t)
  BY <1>1 DEF AwaitResize, PickPlaces, BeginGet, PickPlace, DivideByZero
<1>2. CASE Aim(t) \/ LockPlace(t) \/ ReadNothing(t) \/ LookHit(t) \/ GetHit(t)
  BY <1>2 DEF Aim, LockPlace, ReadNothing, LookHit, GetHit
<1>3. CASE LookOn(t) \/ LookMiss(t) \/ Put(t) \/ Update(t) \/ Delete(t)
  BY <1>3 DEF LookOn, LookMiss, Put, Update, Delete
<1>4. CASE TryCuckoo(t) \/ BeginPath(t) \/ TestKey(t) \/ HashFirst(t) \/ HashSecond(t)
  BY <1>4 DEF TryCuckoo, BeginPath, TestKey, HashFirst, HashSecond, PathDone
<1>5. CASE PushSlot(t)
  BY <1>5 DEF PushSlot, PathDone
<1>6. CASE ChoosePath(t) \/ LockPath(t) \/ PathLocked(t) \/ CheckEntry(t) \/ PutFirst(t)
  BY SMTT(30), <1>6 DEF ChoosePath, LockPath, PathLocked, CheckEntry, PutFirst
<1>7. CASE SaveCapacity(t) \/ SaveTable(t) \/ LockAll(t) \/ Grow(t) \/ Allocate(t) \/ Reinsert(t)
  BY <1>7 DEF SaveCapacity, SaveTable, LockAll, Grow, Allocate, Reinsert
<1>8. CASE UnlockAll(t) \/ SetMutex(t) \/ EndResize(t)
  BY <1>8 DEF UnlockAll, SetMutex, EndResize
<1> QED
  BY <1>1, <1>2, <1>3, <1>4, <1>5, <1>6, <1>7, <1>8 DEF Step, Look, Displace, Resize

\* The keys in the table are keys.
LEMMA KeyAtType ==
  ASSUME IInv, Newest, Fresh, NEW x \in Slots(capacity)
  PROVE  /\ array[table][x] \in Pair \cup {INVALID}
         /\ KeyAt(x) \in Keys \cup {INVALID}
         /\ KeyAt(x) = INVALID <=> array[table][x] = INVALID
         /\ array[table][x] # INVALID => KeyAt(x) = array[table][x].key
         /\ ReadKey(x) = {KeyAt(x)} /\ Read(table, x) = {array[table][x]}
<1>1. array[table] \in Tables(capacity) /\ DOMAIN array[table] = Slots(capacity) /\ table = 1
  BY FreshTable
<1>2. array[table][x] \in Pair \cup {INVALID}
  BY <1>1 DEF Tables, Slots
<1>3. Read(table, x) = {array[table][x]}
  BY <1>1 DEF Read
<1> QED
  BY <1>2, <1>3, Bounds DEF KeyAt, KeyOf, Pair, ReadKey

\* The places of a call that has chosen them are slots of the table.
LEMMA AimedInside ==
  ASSUME IInv, Newest, Fresh, NEW t \in Threads, Aimed(t), pc[t] \notin {"retry", "pick"}
  PROVE  /\ Key(t) \in Keys /\ Places(Key(t), capacity) \subseteq Slots(capacity)
         /\ ~ Calling(t, "Get") => Slot(t) \in Places(Key(t), capacity)
<1> TypeOK /\ Typed
  BY DEF IInv, Typed
<1>1. Key(t) \in Keys
  BY CallType DEF Typed
<1>2. Places(Key(t), capacity) \subseteq Slots(capacity)
  BY <1>1, FreshTable, PlacesType DEF Places
<1>3. ASSUME ~ Calling(t, "Get") PROVE Slot(t) \in Places(Key(t), capacity)
  <2>1. places[t] = <<f_idx(Key(t), capacity), s_idx(Key(t), capacity)>> /\ n[t] \in {1, 2}
    BY <1>3 DEF Aimed, TypeOK
  <2> QED
    BY <2>1 DEF Slot, Places
<1> QED
  BY <1>1, <1>2, <1>3

\* What a thread writes to the fresh table.
LEMMA Writes ==
  ASSUME NEW t \in Threads, Ongoing(t), NEW x \in Slots(capacity)
  PROVE  /\ Put(t) => KeyAt(x)' = IF x = Slot(t) THEN Key(t) ELSE KeyAt(x)
         /\ Delete(t) => KeyAt(x)' = IF x = Slot(t) THEN INVALID ELSE KeyAt(x)
         /\ MoveEntry(t) => KeyAt(x)' = IF x = path[t][i[t]].slot
                                         THEN KeyAt(path[t][i[t]-1].slot) ELSE KeyAt(x)
         /\ PutFirst(t) => KeyAt(x)' = IF x = path[t][1].slot THEN Key(t) ELSE KeyAt(x)
         /\ Put(t) \/ Delete(t) \/ MoveEntry(t) \/ PutFirst(t) \/ KeyAt(x)' = KeyAt(x)
<1> IInv /\ Typed /\ TypeOK /\ Newest /\ Fresh /\ Calm /\ Step(t) /\ Fresh'
  BY DEF Ongoing, IInv, Typed
<1>1. array \in Seq(Arrays) /\ Len(array) = 1 /\ table = 1 /\ table' = 1 /\ from[t] = 1
  BY FreshTable, FreshBefore DEF Typed, Newest
<1>2. x \in DOMAIN array[1] /\ 1 \in DOMAIN array
  BY <1>1, FreshTable
<1>3. Key(t) # INVALID \/ todo[t] = <<>>
  BY CallType, Bounds
<1>4. ASSUME NEW y, NEW p, array' = [array EXCEPT ![1][y] = p]
      PROVE  KeyAt(x)' = IF x = y THEN KeyOf(p) ELSE KeyAt(x)
  BY <1>1, <1>2, <1>4 DEF KeyAt
<1>5. Put(t) \/ PutFirst(t) => KeyOf([key |-> Key(t), value |-> Call(t).value]) = Key(t)
  <2>1. Put(t) \/ PutFirst(t) => [key |-> Key(t), value |-> Call(t).value] \in Pair
    BY PairType DEF Put, PutFirst, Typed, Making
  <2> QED
    BY <2>1, Bounds DEF KeyOf
<1>6. CASE Put(t)
  <2>1. array' = [array EXCEPT ![1][Slot(t)] = [key |-> Key(t), value |-> Call(t).value]]
    BY <1>1, <1>6 DEF Put
  <2>2. ~ Delete(t) /\ ~ MoveEntry(t) /\ ~ PutFirst(t)
    BY <1>6 DEF Put, Delete, MoveEntry, PutFirst, Calling
  <2> QED
    BY <1>4, <1>5, <1>6, <2>1, <2>2
<1>7. CASE Delete(t)
  <2>1. array' = [array EXCEPT ![1][Slot(t)] = INVALID]
    BY <1>1, <1>7 DEF Delete
  <2>2. ~ Put(t) /\ ~ MoveEntry(t) /\ ~ PutFirst(t) /\ KeyOf(INVALID) = INVALID
    BY <1>7 DEF Put, Delete, MoveEntry, PutFirst, Calling, KeyOf
  <2> QED
    BY <1>4, <1>7, <2>1, <2>2
<1>8. CASE MoveEntry(t)
  <2>1. path[t][i[t]-1].slot \in Slots(capacity)
    <3>1. OnItsWay(t) /\ i[t] > 1 /\ path[t] \in Seq(Entries)
      BY <1>8 DEF MoveEntry, Calm, TypeOK
    <3>2. i[t] - 1 \in DOMAIN path[t]
      BY <3>1 DEF OnItsWay
    <3> QED
      BY <3>1, <3>2 DEF OnItsWay, Inside
  <2>2. PICK p \in Read(table, path[t][i[t]-1].slot) : array' = [array EXCEPT ![1][path[t][i[t]].slot] = p]
    BY <1>1, <1>8 DEF MoveEntry
  <2>3. KeyOf(p) = KeyAt(path[t][i[t]-1].slot)
    BY <2>1, <2>2, KeyAtType DEF KeyAt
  <2>4. ~ Put(t) /\ ~ Delete(t) /\ ~ PutFirst(t)
    BY <1>8 DEF Put, Delete, MoveEntry, PutFirst
  <2> QED
    BY <1>4, <1>8, <2>2, <2>3, <2>4
<1>9. CASE PutFirst(t)
  <2>1. array' = [array EXCEPT ![1][path[t][1].slot] = [key |-> Key(t), value |-> Call(t).value]]
    BY <1>1, <1>9 DEF PutFirst
  <2>2. ~ Put(t) /\ ~ MoveEntry(t) /\ ~ Delete(t)
    BY <1>9 DEF Put, Delete, MoveEntry, PutFirst
  <2> QED
    BY <1>4, <1>5, <1>9, <2>1, <2>2
<1>10. CASE Update(t)
  <2> DEFINE now == array[1][Slot(t)]
             p == IF now = INVALID THEN now ELSE [now EXCEPT !.value = Call(t).value]
  <2>1. array' = [array EXCEPT ![1][Slot(t)] = p]
    BY <1>1, <1>10 DEF Update
  <2>2. x = Slot(t) => KeyOf(p) = KeyAt(x)
    <3>1. x = Slot(t) => now \in Pair \cup {INVALID}
      BY <1>1, KeyAtType
    <3>2. Call(t).value \in Values
      BY <1>10, CallType DEF Update, Calling
    <3>3. now \in Pair => p \in Pair /\ p.key = now.key
      BY <3>2, Bounds DEF Pair
    <3>4. x = Slot(t) => KeyAt(x) = KeyOf(now)
      BY <1>1 DEF KeyAt
    <3> HIDE DEF now
    <3>5. now \in Pair \cup {INVALID} => KeyOf(p) = KeyOf(now)
      BY <3>3, Bounds DEF KeyOf
    <3> QED
      BY <3>1, <3>4, <3>5
  <2>3. ~ Put(t) /\ ~ MoveEntry(t) /\ ~ Delete(t) /\ ~ PutFirst(t)
    BY <1>10 DEF Put, Delete, MoveEntry, PutFirst, Update, Calling
  <2> HIDE DEF p
  <2> QED
    BY <1>4, <2>1, <2>2, <2>3
<1>11. CASE array' = array
  <2>1. ~ Put(t) /\ ~ Delete(t) /\ ~ MoveEntry(t) /\ ~ PutFirst(t) => KeyAt(x)' = KeyAt(x)
    BY <1>1, <1>11 DEF KeyAt
  <2> QED
    BY <1>6, <1>7, <1>8, <1>9, <2>1
<1> QED
  BY <1>6, <1>7, <1>8, <1>9, <1>10, <1>11, Frames, FreshBefore

\* The slot a thread writes is one it uses.
LEMMA WritesItsOwn ==
  ASSUME NEW t \in Threads, Ongoing(t), NEW x \in Slots(capacity), KeyAt(x)' # KeyAt(x)
  PROVE  <<table, x>> \in Using(t) /\ pc[t] \in {"write", "move"}
<1> IInv /\ Typed /\ TypeOK /\ Newest /\ Fresh /\ Calm
  BY DEF Ongoing, IInv, Typed
<1>1. table = 1 /\ from[t] = 1
  BY FreshTable
<1>2. CASE Put(t) \/ Delete(t)
  <2>1. pc[t] = "write" /\ x = Slot(t)
    BY <1>2, Writes DEF Put, Delete
  <2> QED
    BY <1>1, <2>1 DEF Using
<1>3. CASE MoveEntry(t) \/ PutFirst(t)
  <2>1. pc[t] = "move" /\ OnItsWay(t) /\ path[t] \in Seq(Entries)
    BY <1>3 DEF MoveEntry, PutFirst, Calm, TypeOK
  <2>2. 1 \in DOMAIN path[t] /\ i[t] \in DOMAIN path[t]
    BY <2>1 DEF OnItsWay
  <2>3. \E j \in DOMAIN path[t] : x = path[t][j].slot
    BY <1>3, <2>2, Writes
  <2> QED
    BY <2>1, <2>3 DEF Using
<1> QED
  BY <1>2, <1>3, Writes

\* What others write is not in a slot that a thread is writing to or has a path through.
LEMMA Undisturbed ==
  ASSUME NEW t \in Threads, Ongoing(t), NEW u \in Threads, u # t, ~ Reading(u),
         NEW x \in Slots(capacity), <<table, x>> \in Using(u)
  PROVE  KeyAt(x)' = KeyAt(x)
<1> IInv /\ Newest /\ Fresh
  BY DEF Ongoing
<1>1. mutex = 1
  BY FreshTable
<1> QED
  BY <1>1, WritesItsOwn, Apart DEF SlotsGuarded

\* A slot a path still brings a key to is one it uses.
LEMMA AwaitsUsing ==
  ASSUME NEW x, Awaits(x)
  PROVE  \E u \in Threads : /\ pc[u] = "move" /\ <<table, x>> \in Using(u)
                            /\ \E j \in DOMAIN path[u] : j <= i[u] /\ path[u][j].slot = x
BY DEF Awaits, Using

\* While a thread searches, the key of a slot changes once at most, and then stays: what
\* fills a free slot or moves on is not moved again before the search is over.
LEMMA Settling ==
  ASSUME NEW t \in Threads, Ongoing(t), NEW h \in Threads, Holder(h), Holder(h)',
         NEW x \in Slots(capacity)
  PROVE  /\ KeyAt(x)' = KeyAt(x) \/ Settled(x)'
         /\ Settled(x) => Settled(x)' /\ KeyAt(x)' = KeyAt(x)
         /\ KeyAt(x) # INVALID => KeyAt(x)' # INVALID
<1> IInv /\ Typed /\ TypeOK /\ Newest /\ Fresh /\ Calm /\ Step(t) /\ OneHolder /\ Fresh'
  BY DEF Ongoing, IInv, Typed
<1> table = 1 /\ table' = 1 /\ mutex = 1
  BY FreshTable, FreshBefore
<1>1. ~ Delete(t)
  <2>1. resizing_lock # 0
    BY DEF OneHolder
  <2> QED
    BY <2>1 DEF Ongoing
<1>2. ~ Checked(t)
  <2>1. Checked(t) => Holder(t) /\ ~ Holder(t)'
    BY DEF Checked, Goto, TypeOK, Holder, Holding
  <2> QED
    BY <2>1 DEF OneHolder
<1>3. ASSUME NEW u \in Threads, NEW j \in DOMAIN path'[u],
             pc'[u] = "move", j <= i'[u], path'[u][j].slot = x
      PROVE  /\ pc[u] = "move" /\ j \in DOMAIN path[u] /\ path[u][j].slot = x /\ j <= i[u]
             /\ u = t => MoveEntry(t) /\ j <= i[t] - 1
  <2>1. CASE u # t
    BY <1>3, <2>1, Others
  <2>2. CASE u = t
    <3>1. MoveEntry(t)
      BY <1>2, <1>3, <2>2, AtMove
    <3>2. /\ pc[t] = "move" /\ path' = path /\ i'[t] = i[t] - 1 /\ i[t] \in Nat
          /\ path[t] \in Seq(Entries)
      BY <3>1 DEF MoveEntry, pathVars, TypeOK
    <3> QED
      BY <1>3, <2>2, <3>1, <3>2
  <2> QED
    BY <2>1, <2>2
<1>4. Awaits(x)' => Awaits(x)
  <2>1. Awaits(x)' => \E u \in Threads : \E j \in DOMAIN path'[u] :
                        pc'[u] = "move" /\ j <= i'[u] /\ path'[u][j].slot = x
    BY DEF Awaits
  <2> QED
    BY <1>3, <2>1 DEF Awaits
<1>5. CASE KeyAt(x)' = KeyAt(x)
  BY <1>4, <1>5 DEF Settled
<1>6. CASE KeyAt(x)' # KeyAt(x)
  <2>1. <<table, x>> \in Using(t) /\ pc[t] \in {"write", "move"}
    BY <1>6, WritesItsOwn
  <2>2. ASSUME NEW u \in Threads, u # t, pc[u] = "move", <<table, x>> \in Using(u) PROVE FALSE
    BY <2>1, <2>2, Apart DEF SlotsGuarded, Reading
  <2>3. CASE Put(t)
    <3>1. pc[t] = "write" /\ Calling(t, "Insert") /\ x = Slot(t) /\ KeyAt(x)' = Key(t)
      BY <1>6, <2>3, Writes DEF Put
    <3>2. KeyAt(x) = INVALID /\ Key(t) # INVALID
      BY <3>1, AimedInside, Bounds DEF Calm, Aimed
    <3>3. ~ Awaits(x)
      BY <2>2, <3>1, AwaitsUsing
    <3> QED
      BY <1>4, <3>1, <3>2, <3>3 DEF Settled
  <2>4. CASE MoveEntry(t) \/ PutFirst(t)
    <3>1. pc[t] = "move" /\ OnItsWay(t) /\ path[t] \in Seq(Entries)
      BY <2>4 DEF MoveEntry, PutFirst, Calm, TypeOK
    <3>2. /\ Len(path[t]) \in Nat /\ DOMAIN path[t] = 1..Len(path[t]) /\ i[t] \in 1..Len(path[t])
          /\ 1 \in DOMAIN path[t]
      BY <3>1 DEF OnItsWay
    <3>3. x = path[t][i[t]].slot
      BY <1>6, <2>4, Writes DEF PutFirst
    <3>4. Awaits(x)
      BY <3>1, <3>2, <3>3 DEF Awaits
    <3>5. KeyAt(x)' # INVALID
      <4>1. CASE MoveEntry(t)
        <5>1. i[t] > 1 /\ i[t]-1 \in 1..(Len(path[t])-1) /\ i[t]-1 <= i[t] /\ i[t]-1 \in 1..Len(path[t])
          BY <3>2, <4>1 DEF MoveEntry
        <5>2. KeyAt(path[t][i[t]-1].slot) = path[t][i[t]-1].key /\ path[t][i[t]-1].key \in Keys
          BY <3>1, <5>1 DEF OnItsWay
        <5> QED
          BY <3>3, <4>1, <5>2, Writes, Bounds
      <4>2. CASE PutFirst(t)
        <5>1. KeyAt(x)' = Key(t)
          BY <1>6, <4>2, Writes
        <5> QED
          BY <3>1, <5>1, AimedInside, Bounds DEF Calm
      <4> QED
        BY <2>4, <4>1, <4>2
    <3>6. ~ Awaits(x)'
      <4> SUFFICES ASSUME NEW u \in Threads, NEW j \in DOMAIN path'[u],
                          pc'[u] = "move", j <= i'[u], path'[u][j].slot = x
                   PROVE  FALSE
        BY DEF Awaits
      <4>1. /\ pc[u] = "move" /\ j \in DOMAIN path[u] /\ path[u][j].slot = x
            /\ u = t => j <= i[t] - 1
        BY <1>3
      <4>2. u = t
        BY <2>2, <4>1 DEF Using
      <4>3. j = i[t]
        BY <3>1, <3>2, <3>3, <4>1, <4>2 DEF OnItsWay
      <4> QED
        BY <3>2, <4>1, <4>2, <4>3
    <3> QED
      BY <3>4, <3>5, <3>6 DEF Settled
  <2> QED
    BY <1>1, <1>6, <2>3, <2>4, Writes
<1> QED
  BY <1>5, <1>6

\* What a search has seen of an entry stays so.
LEMMA EntryStays ==
  ASSUME NEW t \in Threads, Ongoing(t), NEW h \in Threads, Holder(h), Holder(h)',
         NEW e, e.slot \in Slots(capacity)
  PROVE  (Stale(e) => Stale(e)') /\ (Seen(e) => Seen(e)')
<1>1. /\ KeyAt(e.slot)' = KeyAt(e.slot) \/ Settled(e.slot)'
      /\ Settled(e.slot) => Settled(e.slot)' /\ KeyAt(e.slot)' = KeyAt(e.slot)
  BY Settling
<1> QED
  BY <1>1 DEF Stale, Seen

\* ... and of a path, for the thread u that searches.
LEMMA PathStays ==
  ASSUME NEW t \in Threads, Ongoing(t), NEW u \in Threads, Holder(u), Holder(u)',
         todo'[u] = todo[u], NEW p \in Seq(Entries)
  PROVE  /\ Begun(u, p) => Begun(u, p)'
         /\ Whole(u, p) => Whole(u, p)'
<1> IInv /\ Newest /\ Fresh /\ Step(t) /\ Fresh'
  BY DEF Ongoing
<1>1. capacity' = capacity
  BY FreshBefore
<1>2. Key(u)' = Key(u)
  BY DEF Key, Call
<1>3. Inside(p) => Inside(p)'
  BY <1>1 DEF Inside
<1>4. ASSUME Inside(p), Linked(p) PROVE Linked(p)'
  <2> SUFFICES ASSUME NEW j \in 1..(Len(p)-1)
               PROVE  Stale(p[j])' \/ (p[j].key # INVALID /\ p[j+1].slot = NextSlot(p[j])')
    BY DEF Linked
  <2>1. Stale(p[j]) \/ (p[j].key # INVALID /\ p[j+1].slot = NextSlot(p[j]))
    BY <1>4 DEF Linked
  <2>2. PICK e : e = p[j]
    OBVIOUS
  <2>3. e.slot \in Slots(capacity)
    BY <1>4, <2>2 DEF Inside
  <2>4. Stale(e) => Stale(e)'
    BY <2>3, EntryStays
  <2>5. NextSlot(e)' = NextSlot(e)
    BY <1>1 DEF NextSlot
  <2> QED
    BY <2>1, <2>2, <2>4, <2>5
<1>5. Begun(u, p) => Begun(u, p)'
  BY <1>1, <1>2, <1>3, <1>4 DEF Begun
<1> QED
  BY <1>5 DEF Whole

\* A step of another thread leaves a search what it has found.
LEMMA SearchOthers ==
  ASSUME NEW t \in Threads, Ongoing(t), NEW u \in Threads, u # t
  PROVE  Searching(u)'
<1> IInv /\ Typed /\ TypeOK /\ Newest /\ Fresh /\ Calm /\ Step(t) /\ OneHolder /\ Fresh'
  BY DEF Ongoing, IInv, Typed
<1> Searching(u)
  BY DEF Calm
<1>1. /\ pc'[u] = pc[u] /\ todo'[u] = todo[u] /\ i'[u] = i[u] /\ path'[u] = path[u]
      /\ hash'[u] = hash[u] /\ path1'[u] = path1[u] /\ table' = table /\ capacity' = capacity
  BY Others, FreshBefore
<1>2. CASE ~ Holder(u)
  BY <1>1, <1>2 DEF Holder, Holding, Searching, Looking, Walking
<1>3. CASE Holder(u)
  <2>1. Holder(u)'
    BY <1>1, <1>3 DEF Holder
  <2>2. PICK p1, p, e : p1 = path1[u] /\ p = path[u] /\ e = Last(u)
    OBVIOUS
  <2>3. p1 \in Seq(Entries) /\ p \in Seq(Entries) /\ e = p[Len(p)]
    BY <2>2 DEF TypeOK, Last
  <2>4. /\ Begun(u, p) => Begun(u, p)'
        /\ Whole(u, p) => Whole(u, p)'
        /\ Whole(u, p1) => Whole(u, p1)'
    BY <1>1, <1>3, <2>1, <2>3, PathStays
  <2>5. path1'[u] = p1 /\ path'[u] = p /\ Last(u)' = e
    BY <1>1, <2>2, <2>3 DEF Last
  <2>6. ASSUME Begun(u, p)
        PROVE  /\ Seen(e) => Seen(e)'
               /\ Stale(e) => Stale(e)'
               /\ KeyAt(e.slot) # INVALID => KeyAt(e.slot)' # INVALID
               /\ NextSlot(e)' = NextSlot(e)
    <3>1. e.slot \in Slots(capacity)
      BY <2>3, <2>6 DEF Begun, Inside
    <3> QED
      BY <1>1, <1>3, <2>1, <3>1, EntryStays, Settling DEF NextSlot
  <2>7. ASSUME pc[u] = "check", NEW j \in DOMAIN p, Whole(u, p)
        PROVE  KeyAt(p[j].slot)' = KeyAt(p[j].slot)
    <3>1. p[j].slot \in Slots(capacity)
      BY <2>3, <2>7 DEF Whole, Begun, Inside
    <3>2. <<table, p[j].slot>> \in Using(u)
      BY <2>2, <2>7 DEF Using
    <3> QED
      BY <2>7, <3>1, <3>2, Undisturbed DEF Reading
  <2>8. pc[u] \in Walking => Begun(u, p) /\ Seen(e)
    BY <2>2 DEF Searching
  <2>9. Searching(u)' <=>
          /\ pc[u] \in Looking => Whole(u, p1)'
          /\ pc[u] \notin Looking => p1 = <<>>
          /\ pc[u] \in Walking => Begun(u, p)' /\ Seen(e)'
          /\ pc[u] \in {"hash1", "hash2", "push"} => KeyAt(e.slot)' # INVALID
          /\ pc[u] \in {"hash2", "push"} => hash[u] \in Slots(capacity)
          /\ pc[u] = "hash2" => Stale(e)' \/ hash[u] = f_idx(e.key, capacity)
          /\ pc[u] = "push" => Stale(e)' \/ (e.key # INVALID /\ hash[u] = NextSlot(e)')
          /\ pc[u] \in {"choose", "lock_path", "check"} => Whole(u, p)'
          /\ pc[u] \in {"lock_path", "check"} => p # <<>>
          /\ pc[u] = "lock_path" => i[u] = 1
          /\ pc[u] = "check" =>
               /\ i[u] >= 1
               /\ \A j \in DOMAIN p : j < i[u] => KeyAt(p[j].slot)' = p[j].key
    BY <1>1, <2>5 DEF Searching
  <2>10. pc[u] \in {"hash1", "hash2", "push"} => pc[u] \in Walking
    BY DEF Walking
  <2>11. pc[u] = "check" =>
               /\ i[u] >= 1
               /\ \A j \in DOMAIN p : j < i[u] => KeyAt(p[j].slot)' = p[j].key
    BY <2>2, <2>7 DEF Searching
  <2> QED
    BY <2>2, <2>4, <2>6, <2>8, <2>9, <2>10, <2>11 DEF Searching
<1> QED
  BY <1>2, <1>3

\* Away from a search there is nothing of one to know.
LEMMA SearchElsewhere ==
  ASSUME NEW t \in Threads, Ongoing(t), pc[t] \notin Looking \cup {"lock_path", "check", "cas"}
  PROVE  Searching(t)'
<1> IInv /\ TypeOK /\ Calm /\ Step(t)
  BY DEF Ongoing, IInv, Typed
<1>1. path1[t] = <<>>
  BY DEF Calm, Searching
<1>2. /\ path1'[t] = path1[t]
      /\ pc'[t] \notin Looking \cup {"lock_path", "check"}
  <2> USE DEF Goto, Return, TypeOK, Looking, Walking, callVars, probeVars, pathVars, searchFrame, resizeFrame
  <2>1. CASE AwaitResize(t) \/ PickPlaces(t) \/ BeginGet(t) \/ PickPlace(t) \/ DivideByZero(t)
    BY <2>1 DEF AwaitResize, PickPlaces, BeginGet, PickPlace, DivideByZero
  <2>2. CASE Aim(t) \/ LockPlace(t) \/ ReadNothing(t) \/ LookHit(t) \/ GetHit(t)
    BY SMTT(30), <2>2 DEF Aim, LockPlace, ReadNothing, LookHit, GetHit
  <2>3. CASE LookOn(t) \/ LookMiss(t) \/ Put(t) \/ Update(t) \/ Delete(t)
    BY SMTT(30), <2>3 DEF LookOn, LookMiss, Put, Update, Delete
  <2>4. CASE MoveEntry(t) \/ PutFirst(t) \/ SaveCapacity(t) \/ SaveTable(t)
    BY SMTT(30), <2>4 DEF MoveEntry, PutFirst, SaveCapacity, SaveTable
  <2>5. CASE LockAll(t) \/ Grow(t) \/ Allocate(t) \/ Reinsert(t)
    BY <2>5 DEF LockAll, Grow, Allocate, Reinsert
  <2>6. CASE UnlockAll(t) \/ SetMutex(t) \/ EndResize(t)
    BY <2>6 DEF UnlockAll, SetMutex, EndResize
  <2>7. ~ (TryCuckoo(t) \/ BeginPath(t) \/ TestKey(t) \/ HashFirst(t) \/ HashSecond(t) \/ PushSlot(t)
           \/ ChoosePath(t) \/ LockPath(t) \/ PathLocked(t) \/ CheckEntry(t) \/ Checked(t))
    BY DEF TryCuckoo, BeginPath, TestKey, HashFirst, HashSecond, PushSlot, ChoosePath, LockPath,
           PathLocked, CheckEntry, Checked
  <2> QED
    BY <2>1, <2>2, <2>3, <2>4, <2>5, <2>6, <2>7 DEF Step, Look, Displace, Resize
<1> QED
  BY <1>1, <1>2 DEF Searching, Looking, Walking

\* The steps of a search, and where they begin.
LEMMA SearchSteps ==
  ASSUME NEW t \in Threads, Ongoing(t), pc[t] \in Looking \cup {"lock_path", "check", "cas"}
  PROVE  /\ pc[t] = "cas" => TryCuckoo(t)
         /\ pc[t] = "path" => BeginPath(t)
         /\ pc[t] = "test" => TestKey(t)
         /\ pc[t] = "hash1" => HashFirst(t)
         /\ pc[t] = "hash2" => HashSecond(t)
         /\ pc[t] = "push" => PushSlot(t)
         /\ pc[t] = "choose" => ChoosePath(t)
         /\ pc[t] = "lock_path" => LockPath(t) \/ PathLocked(t)
         /\ pc[t] = "check" => CheckEntry(t) \/ Checked(t)
         /\ todo'[t] = todo[t] /\ capacity' = capacity /\ table' = table
         /\ \A x \in Slots(capacity) : KeyAt(x)' = KeyAt(x)
         /\ pc[t] # "cas" => Holder(t) /\ ~ Calling(t, "Get") /\ todo[t] # <<>>
<1> IInv /\ TypeOK /\ Typed /\ Newest /\ Step(t) /\ Fresh'
  BY DEF Ongoing, IInv, Typed
<1> USE DEF Looking, Walking
<1>1. \/ TryCuckoo(t) \/ BeginPath(t) \/ TestKey(t) \/ HashFirst(t) \/ HashSecond(t) \/ PushSlot(t)
      \/ ChoosePath(t) \/ LockPath(t) \/ PathLocked(t) \/ CheckEntry(t) \/ Checked(t)
  BY DEF Step, Look, Displace, Resize, AwaitResize, PickPlaces, BeginGet, PickPlace, DivideByZero,
         Aim, LockPlace, ReadNothing, LookHit, GetHit, LookOn, LookMiss, Put, Update, Delete,
         MoveEntry, PutFirst, SaveCapacity, SaveTable, LockAll,
         Grow, Allocate, Reinsert, UnlockAll, SetMutex, EndResize
<1>2. /\ pc[t] = "cas" => TryCuckoo(t)
      /\ pc[t] = "path" => BeginPath(t)
      /\ pc[t] = "test" => TestKey(t)
      /\ pc[t] = "hash1" => HashFirst(t)
      /\ pc[t] = "hash2" => HashSecond(t)
      /\ pc[t] = "push" => PushSlot(t)
      /\ pc[t] = "choose" => ChoosePath(t)
      /\ pc[t] = "lock_path" => LockPath(t) \/ PathLocked(t)
      /\ pc[t] = "check" => CheckEntry(t) \/ Checked(t)
  BY <1>1 DEF TryCuckoo, BeginPath, TestKey, HashFirst, HashSecond, PushSlot, ChoosePath, LockPath,
         PathLocked, CheckEntry, Checked
<1>3. todo'[t] = todo[t]
  BY <1>1 DEF TryCuckoo, BeginPath, TestKey, HashFirst, HashSecond, PushSlot, ChoosePath, LockPath,
         PathLocked, CheckEntry, Checked, callVars, searchFrame
<1>4. ~ Put(t) /\ ~ Delete(t) /\ ~ MoveEntry(t) /\ ~ PutFirst(t)
  BY DEF Put, Delete, MoveEntry, PutFirst
<1>5. capacity' = capacity /\ table' = table
  BY FreshBefore
<1>6. \A x \in Slots(capacity) : KeyAt(x)' = KeyAt(x)
  BY <1>4, Writes
<1>7. pc[t] # "cas" => Holder(t) /\ ~ Calling(t, "Get") /\ todo[t] # <<>>
  BY DEF Holder, Holding, Typed, Making, Calling
<1> QED
  BY <1>2, <1>3, <1>5, <1>6, <1>7

\* What the search of t has found stays true while it goes on.
LEMMA SearchKeeps ==
  ASSUME NEW t \in Threads, Ongoing(t), pc[t] \in Looking \cup {"lock_path", "check"},
         Holder(t)', NEW p \in Seq(Entries)
  PROVE  /\ Begun(t, p) => Begun(t, p)'
         /\ Whole(t, p) => Whole(t, p)'
<1>1. pc[t] # "cas" /\ pc[t] \in Looking \cup {"lock_path", "check", "cas"}
  BY DEF Looking, Walking
<1>2. Holder(t) /\ todo'[t] = todo[t]
  BY <1>1, SearchSteps
<1> QED
  BY <1>2, PathStays

\* An entry whose slot is taken is out of date when its key is not the one there.
LEMMA SeenOrStale ==
  ASSUME NEW e, Seen(e), KeyAt(e.slot) # e.key
  PROVE  Stale(e)
BY DEF Seen

\* The way of t so far ends at an entry with a slot of the table.
LEMMA WayOf ==
  ASSUME NEW t \in Threads, Ongoing(t), pc[t] \in Walking
  PROVE  /\ path[t] \in Seq(Entries) /\ path1[t] \in Seq(Entries) /\ Begun(t, path[t])
         /\ Len(path[t]) \in Nat /\ Len(path[t]) >= 1 /\ DOMAIN path[t] = 1..Len(path[t])
         /\ Last(t).slot \in Slots(capacity) /\ Last(t).key \in Keys \cup {INVALID}
         /\ Cur(t) = Last(t).slot /\ ReadKey(Cur(t)) = {KeyAt(Last(t).slot)}
         /\ KeyAt(Last(t).slot) \in Keys \cup {INVALID}
         /\ KeyAt(Last(t).slot) \in Keys => f_idx(KeyAt(Last(t).slot), capacity) \in Slots(capacity)
         /\ KeyAt(Last(t).slot) \in Keys => s_idx(KeyAt(Last(t).slot), capacity) \in Slots(capacity)
<1> IInv /\ TypeOK /\ Newest /\ Fresh /\ Calm
  BY DEF Ongoing, IInv, Typed
<1>1. path[t] \in Seq(Entries) /\ path1[t] \in Seq(Entries) /\ Begun(t, path[t])
  BY DEF TypeOK, Calm, Searching
<1>2. Len(path[t]) \in Nat /\ Len(path[t]) >= 1 /\ DOMAIN path[t] = 1..Len(path[t])
  BY <1>1 DEF Begun
<1>3. Last(t).slot \in Slots(capacity) /\ Last(t).key \in Keys \cup {INVALID}
  <2>1. Len(path[t]) \in DOMAIN path[t]
    BY <1>2
  <2>2. Last(t) \in Entries
    BY <1>1, <2>1 DEF Last
  <2> QED
    BY <1>1, <2>1, <2>2 DEF Begun, Inside, Last, Entries
<1>4. Cur(t) = Last(t).slot
  BY DEF Cur, Last
<1>5. ReadKey(Cur(t)) = {KeyAt(Last(t).slot)} /\ KeyAt(Last(t).slot) \in Keys \cup {INVALID}
  BY <1>3, <1>4, KeyAtType
<1>6. capacity \in Nat /\ capacity >= 1
  BY FreshTable
<1> QED
  BY <1>1, <1>2, <1>3, <1>4, <1>5, <1>6, PlacesType

\* A search begins at a place of its key.
LEMMA SearchBegins ==
  ASSUME NEW t \in Threads, Ongoing(t), pc[t] = "path"
  PROVE  Searching(t)'
<1> IInv /\ TypeOK /\ Newest /\ Fresh /\ Calm
  BY DEF Ongoing, IInv, Typed
<1> pc[t] \in Looking \cup {"lock_path", "check"} /\ pc[t] # "cas"
  BY DEF Looking
<1>1. PICK k \in ReadKey(Slot(t)) : path' = [path EXCEPT ![t] = <<Entry(Slot(t), k)>>]
  BY SearchSteps DEF BeginPath
<1>2. pc'[t] = "test" /\ path1'[t] = path1[t]
  BY SearchSteps DEF BeginPath, Goto, TypeOK
<1>3. Slot(t) \in Places(Key(t), capacity) /\ Slot(t) \in Slots(capacity)
  BY SearchSteps, AimedInside DEF Calm
<1>4. k = KeyAt(Slot(t))
  BY <1>1, <1>3, KeyAtType
<1>5. PICK x : x = Slot(t)
  OBVIOUS
<1>6. path'[t] = <<[slot |-> x, key |-> k]>>
  BY <1>1, <1>5 DEF Entry, TypeOK
<1>7. Last(t)' = [slot |-> x, key |-> k]
  BY <1>6 DEF Last
<1>8. Begun(t, path[t])'
  <2>1. Key(t)' = Key(t) /\ capacity' = capacity
    BY SearchSteps DEF Key, Call
  <2>2. x \in Places(Key(t)', capacity') /\ x \in Slots(capacity')
    BY <1>3, <1>5, <2>1
  <2>3. Inside(path[t])' /\ Linked(path[t])'
    BY <1>6, <2>2 DEF Inside, Linked
  <2> QED
    BY <1>6, <2>2, <2>3 DEF Begun
<1>9. Seen(Last(t))'
  <2>1. KeyAt(x)' = k
    BY <1>3, <1>4, <1>5, SearchSteps
  <2> QED
    BY <1>7, <2>1 DEF Seen
<1>10. Whole(t, path1[t])'
  <2>1. PICK p : p = path1[t]
    OBVIOUS
  <2>2. p \in Seq(Entries) /\ Whole(t, p)
    BY <2>1 DEF TypeOK, Calm, Searching, Looking
  <2>3. Whole(t, p)'
    BY <1>2, <2>2, SearchKeeps DEF Holder, Holding
  <2> QED
    BY <1>2, <2>1, <2>3
<1> QED
  BY <1>2, <1>8, <1>9, <1>10 DEF Searching, Looking, Walking

\* It ends at a free slot, for it has never been another: nothing is deleted meanwhile.
LEMMA SearchTests ==
  ASSUME NEW t \in Threads, Ongoing(t), pc[t] = "test"
  PROVE  Searching(t)'
<1> IInv /\ TypeOK /\ Newest /\ Fresh /\ Calm
  BY DEF Ongoing, IInv, Typed
<1> pc[t] \in Looking \cup {"lock_path", "check"} /\ pc[t] # "cas" /\ pc[t] \in Walking
  BY DEF Looking, Walking
<1>1. PICK p, p1, e : p = path[t] /\ p1 = path1[t] /\ e = Last(t)
  OBVIOUS
<1>2. p \in Seq(Entries) /\ p1 \in Seq(Entries) /\ Begun(t, p) /\ Whole(t, p1) /\ Seen(e)
      /\ e = p[Len(p)] /\ e.slot \in Slots(capacity)
  BY <1>1, WayOf DEF Calm, Searching, Last
<1>3. KeyAt(e.slot)' = KeyAt(e.slot)
  BY <1>2, SearchSteps
<1>4. IF KeyAt(e.slot) = INVALID THEN PathDone(t, p)
      ELSE Goto(t, "hash1") /\ UNCHANGED <<n, path1, path>>
  BY <1>1, WayOf, SearchSteps DEF TestKey
<1>5. CASE KeyAt(e.slot) # INVALID
  <2>1. pc'[t] = "hash1" /\ path'[t] = p /\ path1'[t] = p1 /\ Last(t)' = e
    BY <1>1, <1>2, <1>4, <1>5 DEF Goto, TypeOK, Last
  <2>2. Begun(t, p)' /\ Whole(t, p1)' /\ Seen(e)'
    BY <1>2, <2>1, SearchKeeps, EntryStays DEF Holder, Holding
  <2> QED
    BY <1>3, <1>5, <2>1, <2>2 DEF Searching, Looking, Walking
<1>6. CASE KeyAt(e.slot) = INVALID
  <2>1. e.key = INVALID
    BY <1>2, <1>6 DEF Seen, Stale, Settled
  <2>2. Whole(t, p)
    BY <1>2, <2>1 DEF Whole
  <2>3. CASE n[t] = 1
    <3>1. pc'[t] = "path" /\ path1'[t] = p
      BY <1>4, <1>6, <2>3 DEF PathDone, Goto, TypeOK
    <3>2. Whole(t, p)'
      BY <1>2, <2>2, <3>1, SearchKeeps DEF Holder, Holding
    <3> QED
      BY <3>1, <3>2 DEF Searching, Looking, Walking
  <2>4. CASE n[t] # 1
    <3>1. pc'[t] = "choose" /\ path1'[t] = p1 /\ path'[t] = p
      BY <1>1, <1>4, <1>6, <2>4 DEF PathDone, Goto, TypeOK
    <3>2. Whole(t, p)' /\ Whole(t, p1)'
      BY <1>2, <2>2, <3>1, SearchKeeps DEF Holder, Holding
    <3> QED
      BY <3>1, <3>2 DEF Searching, Looking, Walking
  <2> QED
    BY <2>3, <2>4
<1> QED
  BY <1>5, <1>6

\* Line 373: the first place of the key the search has met.
LEMMA SearchHashesFirst ==
  ASSUME NEW t \in Threads, Ongoing(t), pc[t] = "hash1"
  PROVE  Searching(t)'
<1> IInv /\ TypeOK /\ Newest /\ Fresh /\ Calm
  BY DEF Ongoing, IInv, Typed
<1> pc[t] \in Looking \cup {"lock_path", "check"} /\ pc[t] # "cas" /\ pc[t] \in Walking
  BY DEF Looking, Walking
<1>1. PICK p, p1, e : p = path[t] /\ p1 = path1[t] /\ e = Last(t)
  OBVIOUS
<1>2. p \in Seq(Entries) /\ p1 \in Seq(Entries) /\ Begun(t, p) /\ Whole(t, p1) /\ Seen(e)
      /\ e = p[Len(p)] /\ e.slot \in Slots(capacity) /\ KeyAt(e.slot) # INVALID
  BY <1>1, WayOf DEF Calm, Searching, Last
<1>3. KeyAt(e.slot)' = KeyAt(e.slot) /\ capacity' = capacity
  BY <1>2, SearchSteps
<1>4. /\ pc'[t] = "hash2" /\ path'[t] = p /\ path1'[t] = p1 /\ Last(t)' = e
      /\ hash'[t] = f_idx(KeyAt(e.slot), capacity) /\ hash'[t] \in Slots(capacity)
  <2>1. HashFirst(t) /\ ReadKey(Cur(t)) = {KeyAt(e.slot)}
        /\ f_idx(KeyAt(e.slot), capacity) \in Slots(capacity)
    BY <1>1, <1>2, WayOf, SearchSteps
  <2> QED
    BY <1>1, <1>2, <2>1 DEF HashFirst, Goto, TypeOK, Last
<1>5. Begun(t, p)' /\ Whole(t, p1)' /\ Seen(e)' /\ (Stale(e) => Stale(e)')
  BY <1>2, <1>4, SearchKeeps, EntryStays DEF Holder, Holding
<1>6. Stale(e) \/ KeyAt(e.slot) = e.key
  BY <1>2, SeenOrStale
<1> QED
  BY <1>2, <1>3, <1>4, <1>5, <1>6 DEF Searching, Looking, Walking

\* Line 375: its other place, if it is in the first one.
LEMMA SearchHashesSecond ==
  ASSUME NEW t \in Threads, Ongoing(t), pc[t] = "hash2"
  PROVE  Searching(t)'
<1> IInv /\ TypeOK /\ Newest /\ Fresh /\ Calm
  BY DEF Ongoing, IInv, Typed
<1> pc[t] \in Looking \cup {"lock_path", "check"} /\ pc[t] # "cas" /\ pc[t] \in Walking
  BY DEF Looking, Walking
<1>1. PICK p, p1, e : p = path[t] /\ p1 = path1[t] /\ e = Last(t)
  OBVIOUS
<1>2. p \in Seq(Entries) /\ p1 \in Seq(Entries) /\ Begun(t, p) /\ Whole(t, p1) /\ Seen(e)
      /\ e = p[Len(p)] /\ e.slot \in Slots(capacity) /\ KeyAt(e.slot) # INVALID
      /\ hash[t] \in Slots(capacity) /\ (Stale(e) \/ hash[t] = f_idx(e.key, capacity))
  BY <1>1, WayOf DEF Calm, Searching, Last
<1>3. KeyAt(e.slot)' = KeyAt(e.slot) /\ capacity' = capacity
  BY <1>2, SearchSteps
<1> DEFINE s == s_idx(KeyAt(e.slot), capacity)
<1>4. /\ path'[t] = p /\ path1'[t] = p1 /\ Last(t)' = e
      /\ \/ hash[t] = e.slot /\ hash'[t] = s /\ pc'[t] = "push"
         \/ hash[t] # e.slot /\ s = e.slot /\ hash'[t] = hash[t] /\ pc'[t] = "push"
         \/ hash'[t] = hash[t] /\ pc'[t] = "hash2"
      /\ s \in Slots(capacity)
  <2>1. HashSecond(t) /\ ReadKey(Cur(t)) = {KeyAt(e.slot)} /\ Cur(t) = e.slot
        /\ s \in Slots(capacity)
    BY <1>1, <1>2, WayOf, SearchSteps
  <2> HIDE DEF s
  <2>2. path'[t] = p /\ path1'[t] = p1
    BY <1>1, <2>1 DEF HashSecond
  <2>3. \/ hash[t] = e.slot /\ hash'[t] = s_idx(KeyAt(e.slot), capacity) /\ pc'[t] = "push"
        \/ hash[t] # e.slot /\ s_idx(KeyAt(e.slot), capacity) = e.slot /\ hash'[t] = hash[t] /\ pc'[t] = "push"
        \/ hash'[t] = hash[t] /\ pc'[t] = "hash2"
    BY SMTT(30), <2>1 DEF HashSecond, Goto, TypeOK
  <2> QED
    BY <1>2, <2>1, <2>2, <2>3 DEF s, Last
<1>5. pc'[t] \in {"push", "hash2"}
  BY <1>4
<1>6. Begun(t, p)' /\ Whole(t, p1)' /\ Seen(e)' /\ (Stale(e) => Stale(e)')
  BY <1>2, <1>5, SearchKeeps, EntryStays DEF Holder, Holding
<1>7. Stale(e) \/ (KeyAt(e.slot) = e.key /\ hash[t] = f_idx(e.key, capacity))
  BY <1>2, SeenOrStale
<1>8. NextSlot(e)' = NextSlot(e)
  BY <1>3 DEF NextSlot
<1>9. pc'[t] = "push" => Stale(e) \/ (e.key # INVALID /\ hash'[t] = NextSlot(e))
  BY <1>2, <1>4, <1>7 DEF NextSlot, Other
<1>10. hash'[t] \in Slots(capacity)
  BY <1>2, <1>4
<1>11. pc'[t] = "hash2" => hash'[t] = hash[t]
  BY <1>4
<1>12. path'[t] = p /\ path1'[t] = p1 /\ Last(t)' = e
  BY <1>4
<1> HIDE DEF s
<1> QED
  BY <1>2, <1>3, <1>5, <1>6, <1>7, <1>8, <1>9, <1>10, <1>11, <1>12 DEF Searching, Looking, Walking

\* The path goes on where the key read from its last slot belongs to.
LEMMA SearchPushes ==
  ASSUME NEW t \in Threads, Ongoing(t), pc[t] = "push"
  PROVE  Searching(t)'
<1> IInv /\ TypeOK /\ Newest /\ Fresh /\ Calm
  BY DEF Ongoing, IInv, Typed
<1> pc[t] \in Looking \cup {"lock_path", "check"} /\ pc[t] # "cas" /\ pc[t] \in Walking
  BY DEF Looking, Walking
<1>1. PICK p, p1, e, x : p = path[t] /\ p1 = path1[t] /\ e = Last(t) /\ x = hash[t]
  OBVIOUS
<1>2. p \in Seq(Entries) /\ p1 \in Seq(Entries) /\ Begun(t, p) /\ Whole(t, p1)
      /\ e = p[Len(p)] /\ e.slot \in Slots(capacity) /\ Len(p) \in Nat /\ Len(p) >= 1
      /\ x \in Slots(capacity) /\ (Stale(e) \/ (e.key # INVALID /\ x = NextSlot(e)))
  BY <1>1, WayOf DEF Calm, Searching, Last
<1>3. KeyAt(x)' = KeyAt(x) /\ capacity' = capacity
  BY <1>2, SearchSteps
<1>4. PICK k : k = KeyAt(x)
  OBVIOUS
<1>5. IF Len(p) < kCuckooThreshold
      THEN /\ path' = [path EXCEPT ![t] = Append(@, Entry(x, k))]
           /\ Goto(t, "test") /\ UNCHANGED <<n, path1>>
      ELSE PathDone(t, <<>>)
  <2>1. PushSlot(t) /\ ReadKey(x) = {k}
    BY <1>2, <1>4, KeyAtType, SearchSteps
  <2> QED
    BY <1>1, <2>1 DEF PushSlot
<1>6. CASE Len(p) < kCuckooThreshold
  <2>1. PICK a : a = [slot |-> x, key |-> k]
    OBVIOUS
  <2>2. PICK q : q = Append(p, a)
    OBVIOUS
  <2>3. /\ path'[t] = q /\ path1'[t] = p1 /\ pc'[t] = "test"
    BY <1>1, <1>5, <1>6, <2>1, <2>2 DEF Goto, TypeOK, Entry
  <2>4. Len(q) = Len(p) + 1 /\ q[Len(q)] = a /\ \A j \in 1..Len(p) : q[j] = p[j]
    BY <1>2, <2>2
  <2>5. Last(t)' = a
    BY <2>3, <2>4 DEF Last
  <2>6. Begun(t, p)' /\ Whole(t, p1)' /\ (Stale(e) => Stale(e)')
    BY <1>2, <2>3, SearchKeeps, EntryStays DEF Holder, Holding
  <2>7. Seen(a)'
    BY <1>3, <1>4, <2>1 DEF Seen
  <2>8. DOMAIN q = 1..Len(q) /\ DOMAIN p = 1..Len(p)
    BY <1>2, <2>2
  <2>9. Inside(q)'
    BY <1>2, <1>3, <2>1, <2>4, <2>6, <2>8 DEF Inside, Begun
  <2>10. Linked(q)'
    <3> SUFFICES ASSUME NEW j \in 1..(Len(q)-1)
                 PROVE  Stale(q[j])' \/ (q[j].key # INVALID /\ q[j+1].slot = NextSlot(q[j])')
      BY DEF Linked
    <3>1. CASE j = Len(p)
      <4>1. q[j] = e /\ q[j+1].slot = x
        BY <1>2, <2>1, <2>4, <3>1
      <4>2. NextSlot(e)' = NextSlot(e)
        BY <1>3 DEF NextSlot
      <4> QED
        BY <1>2, <2>6, <4>1, <4>2
    <3>2. CASE j # Len(p)
      <4>1. j \in 1..(Len(p)-1)
        BY <1>2, <2>4, <3>2
      <4>2. q[j] = p[j] /\ q[j+1] = p[j+1]
        BY <1>2, <2>4, <4>1
      <4>3. Stale(p[j])' \/ (p[j].key # INVALID /\ p[j+1].slot = NextSlot(p[j])')
        BY <2>6, <4>1 DEF Begun, Linked
      <4> QED
        BY <4>2, <4>3
    <3> QED
      BY <3>1, <3>2
  <2>11. Begun(t, q)'
    BY <1>2, <2>2, <2>4, <2>6, <2>9, <2>10 DEF Begun
  <2> QED
    BY <2>3, <2>5, <2>6, <2>7, <2>11 DEF Searching, Looking, Walking
<1>7. CASE ~ (Len(p) < kCuckooThreshold)
  <2>1. CASE n[t] = 1
    <3>1. pc'[t] = "path" /\ path1'[t] = <<>>
      BY <1>5, <1>7, <2>1 DEF PathDone, Goto, TypeOK
    <3> QED
      BY <3>1 DEF Searching, Looking, Walking, Whole
  <2>2. CASE n[t] # 1
    <3>1. pc'[t] = "choose" /\ path1'[t] = p1 /\ path'[t] = <<>>
      BY <1>1, <1>5, <1>7, <2>2 DEF PathDone, Goto, TypeOK
    <3>2. Whole(t, p1)'
      BY <1>2, <3>1, SearchKeeps DEF Holder, Holding
    <3> QED
      BY <3>1, <3>2 DEF Searching, Looking, Walking, Whole
  <2> QED
    BY <2>1, <2>2
<1> QED
  BY <1>6, <1>7

\* Lines 178-185: a path leads from a place to a free slot, or there is none.
LEMMA SearchChooses ==
  ASSUME NEW t \in Threads, Ongoing(t), pc[t] = "choose"
  PROVE  Searching(t)'
<1> IInv /\ TypeOK /\ Newest /\ Fresh /\ Calm
  BY DEF Ongoing, IInv, Typed
<1> pc[t] \in Looking \cup {"lock_path", "check"} /\ pc[t] # "cas"
  BY DEF Looking
<1>1. PICK p, p1 : p = path[t] /\ p1 = path1[t]
  OBVIOUS
<1>2. p \in Seq(Entries) /\ p1 \in Seq(Entries) /\ Whole(t, p) /\ Whole(t, p1)
  BY <1>1 DEF Calm, Searching, Looking, TypeOK
<1>3. ChoosePath(t)
  BY SearchSteps
<1>4. path1'[t] = <<>> /\ i'[t] = 1
  BY <1>3 DEF ChoosePath, TypeOK
<1>5. CASE p = <<>> /\ p1 = <<>>
  <2>1. pc'[t] = "save_cap"
    BY <1>1, <1>3, <1>5 DEF ChoosePath, Goto, TypeOK
  <2> QED
    BY <1>4, <2>1 DEF Searching, Looking, Walking
<1>6. CASE ~ (p = <<>> /\ p1 = <<>>)
  <2>1. pc'[t] = "lock_path" /\ path'[t] \in {p, p1} /\ path'[t] # <<>>
    BY SMTT(30), <1>1, <1>3, <1>6 DEF ChoosePath, Goto, TypeOK
  <2>2. Whole(t, p)' /\ Whole(t, p1)'
    BY <1>2, <2>1, SearchKeeps DEF Holder, Holding
  <2>3. Whole(t, path[t])'
    BY <2>1, <2>2
  <2> QED
    BY <1>4, <2>1, <2>3 DEF Searching, Looking, Walking
<1> QED
  BY <1>5, <1>6

\* The keys of the path are compared with those in the table, one by one.
LEMMA SearchChecks ==
  ASSUME NEW t \in Threads, Ongoing(t), pc[t] \in {"lock_path", "check"}
  PROVE  Searching(t)'
<1> IInv /\ TypeOK /\ Newest /\ Fresh /\ Calm
  BY DEF Ongoing, IInv, Typed
<1> pc[t] \in Looking \cup {"lock_path", "check"} /\ pc[t] # "cas" /\ pc[t] \notin Looking
  BY DEF Looking, Walking
<1>1. PICK p : p = path[t]
  OBVIOUS
<1>2. p \in Seq(Entries) /\ Whole(t, p) /\ p # <<>> /\ path1[t] = <<>> /\ i[t] \in Nat
  BY <1>1 DEF Calm, Searching, TypeOK
<1>3. ASSUME NEW j \in DOMAIN p
      PROVE  p[j].slot \in Slots(capacity) /\ KeyAt(p[j].slot)' = KeyAt(p[j].slot)
  BY <1>2, SearchSteps DEF Whole, Begun, Inside
<1>4. CASE pc[t] = "lock_path"
  <2>1. /\ pc'[t] \in {"lock_path", "check"} /\ path'[t] = p /\ path1'[t] = <<>>
        /\ i'[t] = 1
    BY SMTT(30), <1>1, <1>2, <1>4, SearchSteps DEF LockPath, PathLocked, Goto, TypeOK, pathVars, Calm, Searching
  <2>2. Whole(t, p)'
    BY <1>2, <2>1, SearchKeeps DEF Holder, Holding
  <2>3. \A j \in DOMAIN p : ~ (j < 1)
    BY <1>2
  <2> QED
    BY <1>2, <2>1, <2>2, <2>3 DEF Searching, Looking, Walking
<1>5. CASE CheckEntry(t)
  <2>1. pc[t] = "check" /\ i[t] <= Len(p) /\ i[t] >= 1 /\ path'[t] = p /\ path1'[t] = <<>>
    BY <1>1, <1>2, <1>5 DEF CheckEntry, pathVars, Calm, Searching
  <2>2. i[t] \in DOMAIN p
    BY <1>2, <2>1
  <2>3. ReadKey(p[i[t]].slot) = {KeyAt(p[i[t]].slot)}
    BY <1>3, <2>2, KeyAtType
  <2>4. CASE KeyAt(p[i[t]].slot) # p[i[t]].key
    <3>1. pc'[t] = "path"
      BY <1>1, <1>5, <2>3, <2>4 DEF CheckEntry, Goto, TypeOK
    <3> QED
      BY <2>1, <3>1 DEF Searching, Looking, Walking, Whole
  <2>5. CASE KeyAt(p[i[t]].slot) = p[i[t]].key
    <3>1. pc'[t] = "check" /\ i'[t] = i[t] + 1
      BY <1>1, <1>5, <2>1, <2>3, <2>5 DEF CheckEntry, TypeOK
    <3>2. Whole(t, p)'
      BY <1>2, <3>1, SearchKeeps DEF Holder, Holding
    <3>3. \A j \in DOMAIN p : j < i[t] + 1 => KeyAt(p[j].slot) = p[j].key
      <4>1. \A j \in DOMAIN p : j < i[t] => KeyAt(p[j].slot) = p[j].key
        BY <1>1, <2>1 DEF Calm, Searching
      <4>2. \A j \in DOMAIN p : j < i[t] + 1 => j < i[t] \/ j = i[t]
        BY <1>2
      <4> QED
        BY <2>5, <4>1, <4>2
    <3>4. \A j \in DOMAIN p : j < i'[t] => KeyAt(p[j].slot)' = p[j].key
      BY <1>3, <3>1, <3>3
    <3>5. i'[t] >= 1
      BY <2>1, <3>1, <1>2
    <3> QED
      BY <1>2, <2>1, <3>1, <3>2, <3>4, <3>5 DEF Searching, Looking, Walking
  <2> QED
    BY <2>4, <2>5
<1>6. CASE Checked(t)
  <2>1. pc'[t] = "move" /\ path1'[t] = <<>>
    BY <1>2, <1>6 DEF Checked, Goto, TypeOK, pathVars
  <2> QED
    BY <2>1 DEF Searching, Looking, Walking
<1> QED
  BY <1>4, <1>5, <1>6, SearchSteps

\* Every step keeps what a search has found.
LEMMA SearchStep ==
  ASSUME NEW t \in Threads, Ongoing(t), NEW u \in Threads
  PROVE  Searching(u)'
<1>1. CASE pc[t] = "cas"
  <2>1. TryCuckoo(t)
    BY <1>1, SearchSteps
  <2>2. pc'[t] \in {"path", "retry"} /\ path1'[t] = <<>>
    BY <1>1, <2>1 DEF TryCuckoo, Goto, TypeOK, Ongoing, IInv, Typed, pathVars, Calm, Searching, Looking, Walking
  <2>3. Searching(t)'
    BY <2>2 DEF Searching, Looking, Walking, Whole
  <2> QED
    BY <2>3, SearchOthers
<1>2. CASE pc[t] \in Looking \cup {"lock_path", "check"}
  <2>1. Searching(t)'
    BY <1>2, SearchBegins, SearchTests, SearchHashesFirst, SearchHashesSecond, SearchPushes,
       SearchChooses, SearchChecks DEF Looking, Walking
  <2> QED
    BY <2>1, SearchOthers
<1> QED
  BY <1>1, <1>2, SearchElsewhere, SearchOthers

\* When all its keys have been compared, nothing of a path is out of date: it leads every
\* key to its other place and ends at a free slot.  A slot it came to twice would lead on
\* to the same slots, and the free one would not be the first.
LEMMA PathFound ==
  ASSUME NEW t \in Threads, Ongoing(t), Checked(t), NEW p, p = path[t]
  PROVE  /\ p \in Seq(Entries) /\ p # <<>> /\ Len(p) \in Nat /\ DOMAIN p = 1..Len(p) /\ Len(p) >= 1
         /\ p[1].slot \in Places(Key(t), capacity) /\ Inside(p)
         /\ \A j \in 1..Len(p) : KeyAt(p[j].slot) = p[j].key
         /\ \A j \in 1..(Len(p)-1) : /\ p[j].key \in Keys /\ p[j].slot \in Places(p[j].key, capacity)
                                     /\ p[j+1].slot = NextSlot(p[j])
         /\ p[Len(p)].key = INVALID
         /\ \A j, l \in DOMAIN p : p[j].slot = p[l].slot => j = l
<1> IInv /\ TypeOK /\ Newest /\ Fresh /\ Calm
  BY DEF Ongoing, IInv, Typed
<1> pc[t] = "check" /\ i[t] > Len(p) /\ i[t] \in Nat
  BY DEF Checked, TypeOK
<1>1. p \in Seq(Entries) /\ Whole(t, p) /\ p # <<>>
      /\ \A j \in DOMAIN p : j < i[t] => KeyAt(p[j].slot) = p[j].key
  BY DEF Calm, Searching, TypeOK
<1>2. Len(p) \in Nat /\ DOMAIN p = 1..Len(p) /\ Len(p) >= 1
  BY <1>1
<1>3. p[1].slot \in Places(Key(t), capacity) /\ Inside(p) /\ Linked(p) /\ p[Len(p)].key = INVALID
  BY <1>1 DEF Whole, Begun
<1>4. \A j \in 1..Len(p) : KeyAt(p[j].slot) = p[j].key
  BY <1>1, <1>2
<1>5. ASSUME NEW j \in 1..(Len(p)-1)
      PROVE  /\ p[j].key \in Keys /\ p[j].slot \in Places(p[j].key, capacity)
             /\ p[j+1].slot = NextSlot(p[j])
  <2>1. j \in 1..Len(p)
    BY <1>2
  <2>2. KeyAt(p[j].slot) = p[j].key /\ p[j].slot \in Slots(capacity)
    BY <1>2, <1>3, <1>4, <2>1 DEF Inside
  <2>3. p[j].key # INVALID /\ p[j+1].slot = NextSlot(p[j])
    BY <1>3, <2>2 DEF Linked, Stale
  <2>4. array[table][p[j].slot] # INVALID /\ KeyAt(p[j].slot) = array[table][p[j].slot].key
        /\ KeyAt(p[j].slot) \in Keys
    BY <2>2, <2>3, KeyAtType
  <2>5. p[j].slot \in Places(KeyAt(p[j].slot), capacity)
    BY <2>2, <2>4 DEF Calm, InPlace, Slots
  <2> QED
    BY <2>2, <2>3, <2>4, <2>5
<1>6. ASSUME NEW a \in DOMAIN p, NEW b \in DOMAIN p, a < b, p[a].slot = p[b].slot PROVE FALSE
  <2> DEFINE S == {m \in Nat : b + m <= Len(p) => p[a+m].slot = p[b+m].slot}
  <2>1. 0 \in S
    BY <1>2, <1>6
  <2>2. ASSUME NEW m \in S PROVE m + 1 \in S
    <3>1. SUFFICES ASSUME b + (m+1) <= Len(p) PROVE p[a+(m+1)].slot = p[b+(m+1)].slot
      BY <1>2, <1>6
    <3>2. p[a+m].slot = p[b+m].slot
      BY <1>2, <3>1
    <3>3. a+m \in 1..(Len(p)-1) /\ b+m \in 1..(Len(p)-1) /\ a+m \in 1..Len(p) /\ b+m \in 1..Len(p)
      <4>1. a \in Nat /\ b \in Nat /\ a >= 1 /\ b >= 1 /\ m \in Nat
        BY <1>2
      <4> HIDE DEF S
      <4> QED
        BY SMTT(30), <1>2, <1>6, <3>1, <4>1
    <3>4. p[a+m].key = p[b+m].key
      BY <1>4, <3>2, <3>3
    <3>5. p[(a+m)+1].slot = NextSlot(p[a+m]) /\ p[(b+m)+1].slot = NextSlot(p[b+m])
      BY <1>5, <3>3
    <3>6. p[(a+m)+1].slot = p[(b+m)+1].slot
      BY <3>2, <3>4, <3>5 DEF NextSlot
    <3>7. (a+m)+1 = a+(m+1) /\ (b+m)+1 = b+(m+1)
      BY <1>2
    <3> QED
      BY <3>6, <3>7
  <2>3. S = Nat
    <3>1. S \in SUBSET Nat
      OBVIOUS
    <3> HIDE DEF S
    <3> QED
      BY <2>1, <2>2, <3>1, Induction
  <2>4. Len(p) - b \in S
    <3>1. Len(p) - b \in Nat
      BY <1>2
    <3> HIDE DEF S
    <3> QED
      BY <2>3, <3>1
  <2>5. p[a+(Len(p)-b)].slot = p[Len(p)].slot
    BY <1>2, <2>4
  <2>6. a + (Len(p)-b) \in 1..(Len(p)-1) /\ a + (Len(p)-b) \in 1..Len(p) /\ Len(p) \in 1..Len(p)
    BY SMTT(30), <1>2, <1>6
  <2>7. p[a+(Len(p)-b)].key \in Keys
    BY <1>5, <2>6
  <2>8. p[a+(Len(p)-b)].key = p[Len(p)].key
    BY <1>4, <2>5, <2>6
  <2> QED
    BY <1>3, <2>7, <2>8, Bounds
<1>7. ASSUME NEW j \in DOMAIN p, NEW l \in DOMAIN p, p[j].slot = p[l].slot PROVE j = l
  <2>1. j < l \/ l < j \/ j = l
    BY <1>2
  <2> QED
    BY <1>6, <1>7, <2>1
<1> QED
  BY <1>1, <1>2, <1>3, <1>4, <1>5, <1>7

\* A path that is moved is as far as its thread has come.
LEMMA MoversStep ==
  ASSUME NEW t \in Threads, Ongoing(t), NEW u \in Threads, pc'[u] = "move"
  PROVE  OnItsWay(u)'
<1> IInv /\ TypeOK /\ Newest /\ Fresh /\ Calm /\ Step(t) /\ Fresh'
  BY DEF Ongoing, IInv, Typed
<1>1. PICK p : p = path[u]
  OBVIOUS
<1>2. p \in Seq(Entries) /\ Len(p) \in Nat /\ DOMAIN p = 1..Len(p) /\ i[u] \in Nat
  <2>1. path[u] \in Seq(Entries) /\ i[u] \in Nat
    BY DEF TypeOK
  <2> QED
    BY <1>1, <2>1
<1>3. capacity' = capacity /\ table' = table
  BY FreshBefore
<1> DEFINE Way(k) ==
      /\ p # <<>> /\ p[1].slot \in Places(k, capacity) /\ Inside(p)
      /\ \A j, l \in DOMAIN p : p[j].slot = p[l].slot => j = l
      /\ \A j \in 1..(Len(p)-1) : /\ p[j].key \in Keys /\ p[j].slot \in Places(p[j].key, capacity)
                                  /\ p[j+1].slot = NextSlot(p[j])
      /\ p[Len(p)].key = INVALID
<1>4. ASSUME Way(Key(u)), path'[u] = p, todo'[u] = todo[u], i'[u] \in 1..Len(p),
             \A j \in 1..Len(p) : KeyAt(p[j].slot)' = IF j <= i'[u] THEN p[j].key ELSE p[j-1].key
      PROVE  OnItsWay(u)'
  <2>1. Key(u)' = Key(u)
    BY <1>4 DEF Key, Call
  <2>2. Inside(p)' /\ \A j \in 1..(Len(p)-1) : NextSlot(p[j])' = NextSlot(p[j])
    BY <1>3, <1>4 DEF Inside, NextSlot
  <2> QED
    BY <1>3, <1>4, <2>1, <2>2 DEF OnItsWay
<1>5. pc[u] = "move" =>
        /\ Way(Key(u)) /\ i[u] \in 1..Len(p)
        /\ \A j \in 1..Len(p) : KeyAt(p[j].slot) = IF j <= i[u] THEN p[j].key ELSE p[j-1].key
  BY <1>1 DEF Calm, OnItsWay
<1>6. CASE u # t
  <2>1. pc[u] = "move" /\ path'[u] = p /\ todo'[u] = todo[u] /\ i'[u] = i[u]
    BY <1>1, <1>6, Others
  <2>2. ASSUME NEW j \in 1..Len(p) PROVE KeyAt(p[j].slot)' = KeyAt(p[j].slot)
    <3>1. p[j].slot \in Slots(capacity)
      BY <1>2, <1>5, <2>1 DEF Inside
    <3>2. <<table, p[j].slot>> \in Using(u)
      BY <1>1, <1>2, <2>1 DEF Using
    <3> QED
      BY <1>6, <2>1, <3>1, <3>2, Undisturbed DEF Reading
  <2> QED
    BY <1>4, <1>5, <2>1, <2>2
<1>7. CASE u = t /\ Checked(t)
  <2>1. Way(Key(u)) /\ \A j \in 1..Len(p) : KeyAt(p[j].slot) = p[j].key
    <3>1. p = path[t] /\ Checked(t)
      BY <1>1, <1>7
    <3>2. /\ p # <<>> /\ p[1].slot \in Places(Key(t), capacity) /\ Inside(p)
          /\ \A j \in 1..Len(p) : KeyAt(p[j].slot) = p[j].key
          /\ \A j \in 1..(Len(p)-1) : /\ p[j].key \in Keys /\ p[j].slot \in Places(p[j].key, capacity)
                                      /\ p[j+1].slot = NextSlot(p[j])
          /\ p[Len(p)].key = INVALID
          /\ \A j, l \in DOMAIN p : p[j].slot = p[l].slot => j = l
      BY ZenonT(30), <3>1, PathFound
    <3> QED
      BY <1>7, <3>2
  <2>2. path'[u] = p /\ todo'[u] = todo[u] /\ i'[u] = Len(p)
    BY <1>1, <1>7 DEF Checked, pathVars, searchFrame, callVars, TypeOK
  <2>3. ASSUME NEW j \in 1..Len(p) PROVE KeyAt(p[j].slot)' = KeyAt(p[j].slot)
    <3>1. p[j].slot \in Slots(capacity)
      BY <1>2, <2>1 DEF Inside
    <3>2. pc[t] = "check"
      BY <1>7 DEF Checked
    <3> QED
      BY <3>1, <3>2, SearchSteps
  <2>4. Len(p) \in 1..Len(p)
    BY <1>2, <2>1
  <2> QED
    BY <1>2, <1>4, <2>1, <2>2, <2>3, <2>4
<1>8. CASE u = t /\ MoveEntry(t)
  <2>1. pc[u] = "move" /\ i[u] > 1
    BY <1>8 DEF MoveEntry
  <2>2. path'[u] = p /\ todo'[u] = todo[u] /\ i'[u] = i[u] - 1
    BY <1>1, <1>8 DEF MoveEntry, pathVars, callVars, TypeOK
  <2>3. i[u] \in 1..Len(p) /\ i[u]-1 \in 1..Len(p)
    BY <1>2, <1>5, <2>1
  <2>4. ASSUME NEW j \in 1..Len(p)
        PROVE  KeyAt(p[j].slot)' = IF j <= i[u] - 1 THEN p[j].key ELSE p[j-1].key
    <3>1. p[j].slot \in Slots(capacity)
      BY <1>2, <1>5, <2>1 DEF Inside
    <3>2. KeyAt(p[j].slot)' = IF p[j].slot = p[i[u]].slot THEN KeyAt(p[i[u]-1].slot) ELSE KeyAt(p[j].slot)
      BY <1>1, <1>8, <3>1, Writes
    <3>3. p[j].slot = p[i[u]].slot => j = i[u]
      BY <1>2, <1>5, <2>1, <2>3
    <3>4. KeyAt(p[i[u]-1].slot) = p[i[u]-1].key
      BY <1>5, <2>1, <2>3
    <3>5. CASE j = i[u]
      BY <2>3, <3>2, <3>4, <3>5
    <3>6. CASE j # i[u]
      <4>1. KeyAt(p[j].slot)' = KeyAt(p[j].slot)
        BY <3>2, <3>3, <3>6
      <4>2. j <= i[u] <=> j <= i[u] - 1
        BY <2>3, <3>6
      <4> QED
        BY <1>5, <2>1, <4>1, <4>2
    <3> QED
      BY <3>5, <3>6
  <2> HIDE DEF Way
  <2> QED
    BY <1>4, <1>5, <2>1, <2>2, <2>3, <2>4
<1> QED
  BY <1>6, <1>7, <1>8, AtMove

\* Where the places of a call come from, and how its thread gets to writing.
LEMMA AtPlaces ==
  ASSUME TypeOK, NEW t \in Threads, Step(t)
  PROVE  /\ pc'[t] \notin {"retry", "pick"} =>
              \/ PickPlaces(t) \/ PickPlace(t)
              \/ pc[t] \notin {"retry", "pick"} /\ places'[t] = places[t] /\ todo'[t] = todo[t]
         /\ pc'[t] = "write" => LookHit(t)
<1> USE DEF Goto, Return, TypeOK, callVars, probeVars, searchFrame, resizeFrame
<1>1. CASE AwaitResize(t) \/ BeginGet(t) \/ DivideByZero(t) \/ Aim(t) \/ LockPlace(t)
  BY <1>1 DEF AwaitResize, BeginGet, DivideByZero, Aim, LockPlace
<1>2. CASE PickPlaces(t) \/ PickPlace(t) \/ ReadNothing(t) \/ LookHit(t) \/ GetHit(t)
  BY <1>2 DEF PickPlaces, PickPlace, ReadNothing, LookHit, GetHit
<1>3. CASE LookOn(t) \/ LookMiss(t) \/ Put(t) \/ Update(t) \/ Delete(t)
  BY <1>3 DEF LookOn, LookMiss, Put, Update, Delete
<1>4. CASE TryCuckoo(t) \/ BeginPath(t) \/ HashFirst(t) \/ HashSecond(t)
  BY <1>4 DEF TryCuckoo, BeginPath, HashFirst, HashSecond
<1>5. CASE TestKey(t)
  BY <1>5 DEF TestKey, PathDone
<1>6. CASE PushSlot(t)
  BY <1>6 DEF PushSlot, PathDone
<1>7. CASE ChoosePath(t) \/ LockPath(t) \/ PathLocked(t) \/ CheckEntry(t)
  BY SMTT(30), <1>7 DEF ChoosePath, LockPath, PathLocked, CheckEntry
<1>8. CASE Checked(t) \/ MoveEntry(t) \/ PutFirst(t)
  BY <1>8 DEF Checked, MoveEntry, PutFirst
<1>9. CASE SaveCapacity(t) \/ SaveTable(t) \/ LockAll(t) \/ Grow(t)
  BY <1>9 DEF SaveCapacity, SaveTable, LockAll, Grow
<1>10. CASE Allocate(t) \/ Reinsert(t) \/ UnlockAll(t)
  BY <1>10 DEF Allocate, Reinsert, UnlockAll
<1>11. CASE SetMutex(t) \/ EndResize(t)
  BY <1>11 DEF SetMutex, EndResize
<1> QED
  BY <1>1, <1>2, <1>3, <1>4, <1>5, <1>6, <1>7, <1>8, <1>9, <1>10, <1>11
     DEF Step, Look, Displace, Resize

\* The places of a call stay its own, and the free slot of an insertion free.
LEMMA AimedStep ==
  ASSUME NEW t \in Threads, Ongoing(t), NEW u \in Threads
  PROVE  Aimed(u)'
<1> IInv /\ Typed /\ TypeOK /\ Newest /\ Fresh /\ Calm /\ Step(t) /\ Fresh'
  BY DEF Ongoing, IInv, Typed
<1>1. capacity' = capacity /\ table' = table /\ table = 1 /\ from[u] = 1
  BY FreshBefore, FreshTable
<1>2. CASE u # t
  <2>1. /\ pc'[u] = pc[u] /\ todo'[u] = todo[u] /\ places'[u] = places[u] /\ n'[u] = n[u]
    BY <1>2, Others
  <2>2. PICK x : x = Slot(u)
    OBVIOUS
  <2>3. Slot(u)' = x /\ Key(u)' = Key(u) /\ \A c : Calling(u, c)' = Calling(u, c)
    BY <2>1, <2>2 DEF Slot, Key, Call, Calling
  <2>4. ASSUME pc[u] = "write", Calling(u, "Insert") PROVE KeyAt(x)' = INVALID
    <3>1. KeyAt(x) = INVALID
      BY <2>2, <2>4 DEF Calm, Aimed
    <3>2. x \in Slots(capacity)
      BY <2>2, <2>4, AimedInside DEF Calm, Calling
    <3>3. <<table, x>> \in Using(u)
      BY <1>1, <2>2, <2>4 DEF Using
    <3> QED
      BY <1>2, <2>4, <3>1, <3>2, <3>3, Undisturbed DEF Reading
  <2>5. pc[u] \notin {"retry", "pick"} /\ ~ Calling(u, "Get") =>
          places[u] = <<f_idx(Key(u), capacity), s_idx(Key(u), capacity)>>
    BY DEF Calm, Aimed
  <2> QED
    BY <1>1, <2>1, <2>3, <2>4, <2>5 DEF Aimed
<1>3. CASE u = t
  <2>1. ASSUME pc'[t] \notin {"retry", "pick"}, ~ Calling(t, "Get")'
        PROVE  places'[t] = <<f_idx(Key(t)', capacity'), s_idx(Key(t)', capacity')>>
    <3>1. CASE PickPlaces(t)
      BY <1>1, <3>1 DEF PickPlaces, callVars, Key, Call, TypeOK
    <3>2. ~ PickPlace(t)
      BY <2>1 DEF PickPlace, callVars, Calling, Call
    <3>3. CASE pc[t] \notin {"retry", "pick"} /\ places'[t] = places[t] /\ todo'[t] = todo[t]
      BY <1>1, <2>1, <3>3 DEF Calm, Aimed, Calling, Call, Key
    <3> QED
      BY <2>1, <3>1, <3>2, <3>3, AtPlaces
  <2>2. ASSUME pc'[t] = "write", Calling(t, "Insert")'
        PROVE  KeyAt(Slot(t))' = INVALID
    <3>1. LookHit(t)
      BY <2>2, AtPlaces
    <3>2. pc[t] = "look" /\ Calling(t, "Insert") /\ ~ Calling(t, "Get") /\ array' = array
          /\ Slot(t)' = Slot(t)
      BY <2>2, <3>1 DEF LookHit, callVars, Calling, Call, Slot
    <3>3. Slot(t) \in Slots(capacity)
      BY <3>2, AimedInside DEF Calm
    <3>4. INVALID \in Read(table, Slot(t))
      BY <3>1, <3>2 DEF LookHit, Wanted
    <3>5. array[table][Slot(t)] = INVALID
      BY <3>3, <3>4, KeyAtType
    <3> QED
      BY <1>1, <3>2, <3>5 DEF KeyAt, KeyOf
  <2> QED
    BY <1>3, <2>1, <2>2 DEF Aimed
<1> QED
  BY <1>2, <1>3

\* The keys of a table that are in their places.
LEMMA InPlaceKeys ==
  ASSUME NEW cap \in Nat, NEW d \in Tables(cap)
  PROVE  InPlace(d, cap) <=> \A x \in Slots(cap) : KeyOf(d[x]) # INVALID => x \in Places(KeyOf(d[x]), cap)
<1>1. ASSUME NEW x \in Slots(cap)
      PROVE  (KeyOf(d[x]) = INVALID <=> d[x] = INVALID) /\ (d[x] # INVALID => KeyOf(d[x]) = d[x].key)
  <2>1. d[x] \in Pair \cup {INVALID}
    BY DEF Tables, Slots
  <2> QED
    BY <2>1, Bounds DEF KeyOf, Pair
<1> QED
  BY <1>1 DEF InPlace, Slots

\* Every key goes to one of its places.
LEMMA InPlaceStep ==
  ASSUME NEW t \in Threads, Ongoing(t)
  PROVE  InPlace(array[table], capacity)'
<1> IInv /\ Typed /\ TypeOK /\ Newest /\ Fresh /\ Calm /\ Step(t) /\ Fresh'
  BY DEF Ongoing, IInv, Typed
<1>1. capacity' = capacity /\ table' = 1 /\ table = 1 /\ capacity \in Nat
      /\ array[1] \in Tables(capacity) /\ DOMAIN array[1] = Slots(capacity)
  BY FreshBefore, FreshTable
<1>2. array'[1] \in Tables(capacity)
  <2>1. array' \in Seq(Arrays) /\ 1 \in 1..Len(array') /\ DOMAIN array'[1] = 0..(capacity-1)
    BY <1>1, ArrayStep, ArrayType DEF Newest, Slots
  <2> QED
    BY <1>1, <2>1, ArrayType
<1>3. ASSUME NEW x \in Slots(capacity), KeyAt(x)' # INVALID PROVE x \in Places(KeyAt(x)', capacity)
  <2>1. KeyAt(x) # INVALID => x \in Places(KeyAt(x), capacity)
    BY <1>1, InPlaceKeys DEF Calm, KeyAt
  <2>2. CASE KeyAt(x)' = KeyAt(x)
    BY <1>3, <2>1, <2>2
  <2>3. CASE Put(t) /\ x = Slot(t)
    <3>1. KeyAt(x)' = Key(t) /\ pc[t] = "write" /\ ~ Calling(t, "Get")
      BY <2>3, Writes DEF Put, Calling
    <3> QED
      BY <2>3, <3>1, AimedInside DEF Calm
  <2>4. CASE MoveEntry(t) /\ x = path[t][i[t]].slot
    <3>1. OnItsWay(t) /\ path[t] \in Seq(Entries) /\ i[t] > 1
      BY <2>4 DEF MoveEntry, Calm, TypeOK
    <3>2. i[t]-1 \in 1..(Len(path[t])-1) /\ i[t]-1 \in 1..Len(path[t]) /\ i[t]-1 <= i[t]
          /\ (i[t]-1)+1 = i[t]
      BY <3>1 DEF OnItsWay
    <3>3. /\ KeyAt(path[t][i[t]-1].slot) = path[t][i[t]-1].key
          /\ path[t][(i[t]-1)+1].slot = NextSlot(path[t][i[t]-1])
      BY <3>1, <3>2 DEF OnItsWay
    <3>4. KeyAt(x)' = path[t][i[t]-1].key
      BY <2>4, <3>3, Writes
    <3> QED
      BY <2>4, <3>2, <3>3, <3>4 DEF NextSlot, Other, Places
  <2>5. CASE PutFirst(t) /\ x = path[t][1].slot
    <3>1. KeyAt(x)' = Key(t) /\ OnItsWay(t)
      BY <2>5, Writes DEF PutFirst, Calm
    <3> QED
      BY <2>5, <3>1 DEF OnItsWay
  <2> QED
    BY <1>3, <2>2, <2>3, <2>4, <2>5, Writes
<1>4. \A x \in Slots(capacity) : KeyOf(array'[1][x]) # INVALID => x \in Places(KeyOf(array'[1][x]), capacity)
  BY <1>1, <1>3 DEF KeyAt
<1>5. InPlace(array'[1], capacity)
  BY <1>1, <1>2, <1>4, InPlaceKeys
<1> QED
  BY <1>1, <1>5

\* A step keeps every key in its places, and what the threads have found.
LEMMA CalmStep ==
  ASSUME NEW t \in Threads, Ongoing(t)
  PROVE  Calm'
BY InPlaceStep, AimedStep, SearchStep, MoversStep DEF Calm

\* A thread that moves a path goes on with it.
LEMMA FromMove ==
  ASSUME NEW t \in Threads, Step(t), pc[t] = "move"
  PROVE  MoveEntry(t) \/ PutFirst(t)
BY DEF Step, Look, Displace, Resize, AwaitResize, PickPlaces, BeginGet, PickPlace, DivideByZero,
       Aim, LockPlace, ReadNothing, LookHit, GetHit, LookOn, LookMiss, Put, Update, Delete,
       TryCuckoo, BeginPath, TestKey, HashFirst, HashSecond, PushSlot, ChoosePath, LockPath,
       PathLocked, CheckEntry, Checked, SaveCapacity, SaveTable, LockAll,
       Grow, Allocate, Reinsert, UnlockAll, SetMutex, EndResize

\* A call returns, and is the first one no more, or the calls stay as they are.
LEMMA CallsShrink ==
  ASSUME Typed, NEW t \in Threads, Step(t)
  PROVE  /\ todo' = todo \/ (todo[t] # <<>> /\ todo' = [todo EXCEPT ![t] = Tail(@)])
         /\ Put(t) \/ PutFirst(t) => /\ todo[t] # <<>> /\ todo' = [todo EXCEPT ![t] = Tail(@)]
                                     /\ Calling(t, "Insert")
<1> USE DEF Return, callVars, searchFrame, resizeFrame, Calling
<1>1. CASE AwaitResize(t) \/ PickPlaces(t) \/ BeginGet(t) \/ PickPlace(t) \/ DivideByZero(t)
  BY <1>1 DEF AwaitResize, PickPlaces, BeginGet, PickPlace, DivideByZero, Put, PutFirst
<1>2. CASE Aim(t) \/ LockPlace(t) \/ ReadNothing(t) \/ LookHit(t) \/ GetHit(t)
  BY <1>2 DEF Aim, LockPlace, ReadNothing, LookHit, GetHit, Put, PutFirst
<1>3. CASE LookOn(t) \/ LookMiss(t)
  BY <1>3 DEF LookOn, LookMiss, Typed, Put, PutFirst
<1>4. CASE Put(t) \/ Update(t) \/ Delete(t)
  BY <1>4 DEF Put, Update, Delete, PutFirst, Call
<1>5. CASE TryCuckoo(t) \/ BeginPath(t) \/ TestKey(t) \/ HashFirst(t) \/ HashSecond(t)
  BY <1>5 DEF TryCuckoo, BeginPath, TestKey, HashFirst, HashSecond, Put, PutFirst
<1>6. CASE PushSlot(t) \/ ChoosePath(t) \/ LockPath(t) \/ PathLocked(t) \/ CheckEntry(t)
  BY <1>6 DEF PushSlot, ChoosePath, LockPath, PathLocked, CheckEntry, Put, PutFirst
<1>7. CASE Checked(t) \/ MoveEntry(t) \/ SaveCapacity(t) \/ SaveTable(t)
  BY <1>7 DEF Checked, MoveEntry, SaveCapacity, SaveTable, Put, PutFirst
<1>8. CASE PutFirst(t)
  BY <1>8 DEF PutFirst, Typed, Making
<1>9. CASE LockAll(t) \/ Grow(t) \/ Allocate(t) \/ Reinsert(t)
  BY <1>9 DEF LockAll, Grow, Allocate, Reinsert, Put, PutFirst
<1>10. CASE UnlockAll(t) \/ SetMutex(t) \/ EndResize(t)
  BY <1>10 DEF UnlockAll, SetMutex, EndResize, Put, PutFirst
<1> QED
  BY <1>1, <1>2, <1>3, <1>4, <1>5, <1>6, <1>7, <1>8, <1>9, <1>10 DEF Step, Look, Displace, Resize

\* An insertion to come has been one before, the next one if a call returns.
LEMMA InsertedBefore ==
  ASSUME Typed, NEW t \in Threads, Step(t), NEW u \in Threads, NEW j \in Inserted(todo', u)
  PROVE  \E m \in Inserted(todo, u) :
           /\ todo[u][m] = todo'[u][j] /\ j \in Nat /\ j >= 1
           /\ m = IF todo'[u] = todo[u] THEN j ELSE j + 1
           /\ u = t /\ (Put(t) \/ PutFirst(t)) => m = j + 1
<1>1. todo \in [Threads -> Seq(Calls)] /\ todo[u] \in Seq(Calls)
  BY DEF Typed, TypeOK
<1>2. CASE todo'[u] = todo[u]
  <2>1. j \in Inserted(todo, u) /\ j \in Nat /\ j >= 1
    BY <1>1, <1>2 DEF Inserted
  <2>2. ~ (u = t /\ (Put(t) \/ PutFirst(t)))
    <3>1. u = t /\ (Put(t) \/ PutFirst(t)) => todo'[u] = Tail(todo[u]) /\ todo[u] # <<>>
      BY <1>1, CallsShrink
    <3>2. todo[u] # <<>> => Tail(todo[u]) # todo[u]
      <4>1. todo[u] # <<>> => Len(Tail(todo[u])) # Len(todo[u])
        BY <1>1
      <4> QED
        BY <4>1
    <3> QED
      BY <1>2, <3>1, <3>2
  <2> QED
    BY <1>2, <2>1, <2>2
<1>3. CASE todo'[u] # todo[u]
  <2>1. u = t /\ todo[u] # <<>> /\ todo'[u] = Tail(todo[u])
    BY <1>1, <1>3, CallsShrink
  <2>2. j \in 1..Len(Tail(todo[u])) /\ Tail(todo[u])[j].op = "Insert"
    BY <1>1, <2>1 DEF Inserted
  <2>3. j + 1 \in 1..Len(todo[u]) /\ Tail(todo[u])[j] = todo[u][j + 1] /\ j \in Nat /\ j >= 1
    BY <1>1, <2>1, <2>2
  <2>4. j + 1 \in Inserted(todo, u)
    BY <1>1, <2>2, <2>3 DEF Inserted
  <2> QED
    BY <1>3, <2>1, <2>3, <2>4
<1> QED
  BY <1>2, <1>3

\* The key of an insertion that is being done is the first of those to come.
LEMMA InsertedNow ==
  ASSUME Typed, NEW t \in Threads, Calling(t, "Insert")
  PROVE  1 \in Inserted(todo, t) /\ Key(t) = todo[t][1].key
<1>1. todo[t] \in Seq(Calls) /\ todo[t] # <<>> /\ Head(todo[t]).op = "Insert"
  BY DEF Typed, TypeOK, Calling, Call
<1> QED
  BY <1>1 DEF Inserted, Key, Call

\* No key comes to be inserted twice, or while it is in the table.
LEMMA UnusedStep ==
  ASSUME NEW t \in Threads, Ongoing(t), Unused
  PROVE  Unused'
<1> IInv /\ Typed /\ TypeOK /\ Newest /\ Fresh /\ Calm /\ Step(t) /\ Fresh'
  BY DEF Ongoing, IInv, Typed
<1>1. capacity' = capacity
  BY FreshBefore
<1>2. ASSUME NEW u \in Threads, NEW w \in Threads,
             NEW x \in Inserted(todo', u), NEW y \in Inserted(todo', w),
             todo'[u][x].key = todo'[w][y].key
      PROVE  u = w /\ x = y
  <2>1. PICK m \in Inserted(todo, u) :
          /\ todo[u][m] = todo'[u][x] /\ x \in Nat
          /\ m = IF todo'[u] = todo[u] THEN x ELSE x + 1
    BY InsertedBefore
  <2>2. PICK l \in Inserted(todo, w) :
          /\ todo[w][l] = todo'[w][y] /\ y \in Nat
          /\ l = IF todo'[w] = todo[w] THEN y ELSE y + 1
    BY InsertedBefore
  <2>3. u = w /\ m = l
    BY <1>2, <2>1, <2>2 DEF Unused, FreshInserts
  <2> QED
    BY <2>1, <2>2, <2>3
<1>3. ASSUME NEW u \in Threads, NEW j \in Inserted(todo', u), NEW x \in Slots(capacity)
      PROVE  KeyAt(x)' # todo'[u][j].key
  <2>1. PICK m \in Inserted(todo, u) :
           /\ todo[u][m] = todo'[u][j] /\ j \in Nat /\ j >= 1
           /\ u = t /\ (Put(t) \/ PutFirst(t)) => m = j + 1
    BY InsertedBefore
  <2>2. \A y \in Slots(capacity) : KeyAt(y) # todo'[u][j].key
    BY <2>1 DEF Unused
  <2>3. todo'[u][j].key # INVALID
    <3>1. todo[u] \in Seq(Calls) /\ m \in DOMAIN todo[u]
      BY DEF Typed, TypeOK, Inserted
    <3>2. todo[u][m] \in Calls
      BY <3>1
    <3>3. todo[u][m].key \in Keys
      BY <3>2 DEF Calls
    <3> QED
      BY <2>1, <3>3, Bounds
  <2>4. CASE (Put(t) \/ PutFirst(t)) /\ KeyAt(x)' = Key(t)
    <3>1. 1 \in Inserted(todo, t) /\ Key(t) = todo[t][1].key
      BY <2>4, CallsShrink, InsertedNow
    <3>2. todo'[u][j].key # Key(t)
      <4> SUFFICES ASSUME todo[u][m].key = todo[t][1].key PROVE FALSE
        BY <2>1, <3>1
      <4>1. u = t /\ m = 1
        BY <3>1 DEF Unused, FreshInserts
      <4> QED
        BY <2>1, <2>4, <4>1
    <3> QED
      BY <2>4, <3>2
  <2>5. CASE MoveEntry(t) /\ KeyAt(x)' = KeyAt(path[t][i[t]-1].slot)
    <3>1. OnItsWay(t) /\ path[t] \in Seq(Entries) /\ i[t] > 1
      BY <2>5 DEF MoveEntry, Calm, TypeOK
    <3>2. i[t]-1 \in DOMAIN path[t]
      BY <3>1 DEF OnItsWay
    <3>3. path[t][i[t]-1].slot \in Slots(capacity)
      BY <3>1, <3>2 DEF OnItsWay, Inside
    <3> QED
      BY <2>2, <2>5, <3>3
  <2>6. CASE KeyAt(x)' = KeyAt(x)
    BY <2>2, <2>6
  <2>7. CASE KeyAt(x)' = INVALID
    BY <2>3, <2>7
  <2> QED
    BY <2>4, <2>5, <2>6, <2>7, Writes
<1>4. FreshInserts(todo)'
  BY <1>2 DEF FreshInserts
<1> QED
  BY <1>1, <1>3, <1>4 DEF Unused

\* A copy that another thread is making goes on.
LEMMA CopyingStays ==
  ASSUME NEW t \in Threads, Ongoing(t), NEW x, NEW y,
         NEW u \in Threads, u # t, NEW l \in DOMAIN path[u],
         pc[u] = "move", l = i[u], l < Len(path[u]),
         {path[u][l].slot, path[u][l+1].slot} = {x, y}
  PROVE  Copying(x, y)'
<1>1. pc'[u] = pc[u] /\ path'[u] = path[u] /\ i'[u] = i[u]
  BY Others DEF Ongoing, IInv, Typed
<1> QED
  BY <1>1 DEF Copying

\* A key is copied from a slot to the next one of a path, and then overwritten there.
LEMMA OnceStep ==
  ASSUME NEW t \in Threads, Ongoing(t), Unused, KeysOnce
  PROVE  KeysOnce'
<1> IInv /\ Typed /\ TypeOK /\ Newest /\ Fresh /\ Calm /\ Step(t) /\ Fresh'
  BY DEF Ongoing, IInv, Typed
<1>1. capacity' = capacity /\ table = 1 /\ mutex = 1
  BY FreshBefore, FreshTable
<1> SUFFICES ASSUME NEW x \in Slots(capacity), NEW y \in Slots(capacity),
                    x # y, KeyAt(x)' # INVALID, KeyAt(x)' = KeyAt(y)'
             PROVE  Copying(x, y)'
  BY <1>1 DEF KeysOnce
<1>2. ASSUME KeyAt(x)' = KeyAt(x), KeyAt(y)' = KeyAt(y)
      PROVE  \E u \in Threads : \E l \in DOMAIN path[u] :
               /\ pc[u] = "move" /\ l = i[u] /\ l < Len(path[u])
               /\ {path[u][l].slot, path[u][l+1].slot} = {x, y}
  <2>1. KeyAt(x) # INVALID /\ KeyAt(x) = KeyAt(y)
    BY <1>2
  <2>2. Copying(x, y)
    BY <2>1 DEF KeysOnce
  <2> QED
    BY <2>2 DEF Copying
<1>3. ASSUME KeyAt(x)' = KeyAt(x), KeyAt(y)' = KeyAt(y), pc[t] # "move"
      PROVE  Copying(x, y)'
  BY <1>2, <1>3, CopyingStays
<1>4. CASE ~ MoveEntry(t) /\ ~ PutFirst(t)
  <2>1. pc[t] # "move"
    BY <1>4, FromMove
  <2>2. CASE Put(t)
    <3>1. pc[t] = "write" /\ Calling(t, "Insert") /\ 1 \in Inserted(todo, t) /\ Key(t) = todo[t][1].key
      BY <2>2, InsertedNow DEF Put
    <3>2. \A z \in Slots(capacity) : KeyAt(z) # Key(t)
      BY <3>1 DEF Unused
    <3>3. x # Slot(t) /\ y # Slot(t)
      BY <2>2, <3>2, Writes
    <3> QED
      BY <1>3, <2>1, <2>2, <3>3, Writes
  <2>3. CASE Delete(t)
    <3>1. x # Slot(t) /\ y # Slot(t)
      BY <2>3, Writes
    <3> QED
      BY <1>3, <2>1, <2>3, <3>1, Writes
  <2>4. CASE ~ Put(t) /\ ~ Delete(t)
    BY <1>3, <1>4, <2>1, <2>4, Writes
  <2> QED
    BY <2>2, <2>3, <2>4
<1>5. CASE PutFirst(t)
  <2>1. pc[t] = "move" /\ i[t] = 1 /\ OnItsWay(t) /\ path[t] \in Seq(Entries)
    BY <1>5 DEF PutFirst, Calm, TypeOK
  <2>2. 1 \in Inserted(todo, t) /\ Key(t) = todo[t][1].key
    BY <1>5, CallsShrink, InsertedNow
  <2>3. \A z \in Slots(capacity) : KeyAt(z) # Key(t)
    BY <2>2 DEF Unused
  <2>4. x # path[t][1].slot /\ y # path[t][1].slot
    BY <1>5, <2>3, Writes
  <2>5. KeyAt(x)' = KeyAt(x) /\ KeyAt(y)' = KeyAt(y)
    BY <1>5, <2>4, Writes
  <2>6. PICK u \in Threads : \E l \in DOMAIN path[u] :
               /\ pc[u] = "move" /\ l = i[u] /\ l < Len(path[u])
               /\ {path[u][l].slot, path[u][l+1].slot} = {x, y}
    BY <1>2, <2>5
  <2>7. u # t
    BY <2>1, <2>4, <2>6
  <2> QED
    BY <2>6, <2>7, CopyingStays
<1>6. CASE MoveEntry(t)
  <2>1. pc[t] = "move" /\ i[t] > 1 /\ OnItsWay(t) /\ path[t] \in Seq(Entries)
        /\ path'[t] = path[t] /\ pc'[t] = "move" /\ i'[t] = i[t] - 1
    BY <1>6 DEF MoveEntry, Calm, TypeOK, pathVars
  <2>2. PICK p : p = path[t]
    OBVIOUS
  <2>3. PICK l : l = i[t]
    OBVIOUS
  <2>4. /\ p \in Seq(Entries) /\ Len(p) \in Nat /\ DOMAIN p = 1..Len(p)
        /\ l \in 1..Len(p) /\ l > 1 /\ l-1 \in 1..Len(p) /\ l-1 \in Nat /\ (l-1)+1 = l
        /\ l-1 < Len(p)
    BY <2>1, <2>2, <2>3 DEF OnItsWay
  <2>5. \A j, m \in 1..Len(p) : p[j].slot = p[m].slot => j = m
    BY <2>1, <2>2, <2>4 DEF OnItsWay
  <2>6. PICK to, fro : to = p[l].slot /\ fro = p[l-1].slot
    OBVIOUS
  <2>7. to \in Slots(capacity) /\ fro \in Slots(capacity) /\ to # fro
    <3>1. Inside(p)
      BY <2>1, <2>2 DEF OnItsWay
    <3>2. p[l].slot \in Slots(capacity) /\ p[l-1].slot \in Slots(capacity)
      BY <2>4, <3>1 DEF Inside
    <3>3. p[l].slot # p[l-1].slot
      BY <2>4, <2>5
    <3> QED
      BY <2>6, <3>2, <3>3
  <2>8. \A z \in Slots(capacity) : KeyAt(z)' = IF z = to THEN KeyAt(fro) ELSE KeyAt(z)
    BY <1>6, <2>2, <2>3, <2>6, Writes
  <2>9. {fro, to} = {x, y} => Copying(x, y)'
    <3> SUFFICES ASSUME {fro, to} = {x, y} PROVE Copying(x, y)'
      OBVIOUS
    <3>1. path'[t] = p /\ pc'[t] = "move" /\ i'[t] = l-1 /\ l-1 \in DOMAIN p
      BY <2>1, <2>2, <2>3, <2>4
    <3>2. {p[l-1].slot, p[(l-1)+1].slot} = {x, y}
      BY <2>4, <2>6
    <3> QED
      BY <2>4, <3>1, <3>2 DEF Copying
  <2>10. ASSUME NEW z \in Slots(capacity), z # to, z # fro, KeyAt(z) = KeyAt(fro), KeyAt(fro) # INVALID
         PROVE  FALSE
    <3>1. PICK u \in Threads : \E m \in DOMAIN path[u] :
               /\ pc[u] = "move" /\ m = i[u] /\ m < Len(path[u])
               /\ {path[u][m].slot, path[u][m+1].slot} = {z, fro}
      BY <2>7, <2>10 DEF KeysOnce, Copying
    <3>2. path[u] \in Seq(Entries)
      BY DEF TypeOK
    <3>3. CASE u = t
      <4>1. l + 1 \in 1..Len(p) /\ {p[l].slot, p[l+1].slot} = {z, fro}
        <5>1. PICK m \in DOMAIN p : m = l /\ m < Len(p) /\ {p[m].slot, p[m+1].slot} = {z, fro}
          BY <2>2, <2>3, <3>1, <3>3
        <5>2. Len(p) \in Nat /\ l \in 1..Len(p) /\ l < Len(p)
          BY <2>4, <5>1
        <5>3. l + 1 \in 1..Len(p)
          BY <5>2
        <5> QED
          BY <5>1, <5>3
      <4>2. p[l+1].slot # p[l-1].slot /\ p[l].slot # p[l-1].slot
        BY <2>4, <2>5, <4>1
      <4> QED
        BY <2>6, <4>1, <4>2
    <3>4. CASE u # t
      <4>1. \E m \in DOMAIN path[u] : path[u][m].slot = fro
        <5>1. PICK m \in DOMAIN path[u] :
                 /\ m < Len(path[u])
                 /\ {path[u][m].slot, path[u][m+1].slot} = {z, fro}
          BY <3>1
        <5>2. m + 1 \in DOMAIN path[u]
          BY <3>2, <5>1
        <5> QED
          BY <5>1, <5>2
      <4>2. <<table, fro>> \in Using(u)
        BY <3>1, <4>1 DEF Using
      <4>3. <<table, fro>> \in Using(t)
        BY <2>1, <2>2, <2>4, <2>6 DEF Using
      <4> QED
        BY <1>1, <2>1, <3>4, <4>2, <4>3, Apart DEF SlotsGuarded, Reading
    <3> QED
      BY <3>3, <3>4
  <2>11. CASE x = to
    <3>1. y = fro
      BY <2>8, <2>10, <2>11
    <3> QED
      BY <2>9, <2>11, <3>1
  <2>12. CASE y = to
    <3>1. x = fro
      BY <2>8, <2>10, <2>12
    <3> QED
      BY <2>9, <2>12, <3>1
  <2>13. CASE x # to /\ y # to
    <3>1. KeyAt(x)' = KeyAt(x) /\ KeyAt(y)' = KeyAt(y)
      BY <2>8, <2>13
    <3>2. PICK u \in Threads : \E m \in DOMAIN path[u] :
               /\ pc[u] = "move" /\ m = i[u] /\ m < Len(path[u])
               /\ {path[u][m].slot, path[u][m+1].slot} = {x, y}
      BY <1>2, <3>1
    <3>3. u # t
      BY <2>2, <2>3, <2>6, <2>13, <3>2
    <3> QED
      BY <3>2, <3>3, CopyingStays
  <2> QED
    BY <2>11, <2>12, <2>13
<1> QED
  BY <1>4, <1>5, <1>6

\* Before the first step.
LEMMA InitFInv == Init => FInv
<1> SUFFICES ASSUME Init PROVE FInv
  OBVIOUS
<1>1. table = 1 /\ array = <<Empty(capacity)>> /\ capacity = InitCapacity /\ capacity \in Nat /\ capacity >= 1
  BY Bounds DEF Init
<1>2. /\ array[table] = Empty(capacity) /\ DOMAIN array[table] = Slots(capacity)
      /\ \A x \in Slots(capacity) : array[table][x] = INVALID
  BY <1>1 DEF Empty, Slots
<1>3. \A x \in Slots(capacity) : KeyAt(x) = INVALID
  BY <1>2 DEF KeyAt, KeyOf
<1>4. InPlace(array[table], capacity)
  BY <1>2 DEF InPlace, Slots
<1>5. ASSUME NEW t \in Threads
      PROVE  Aimed(t) /\ Searching(t) /\ pc[t] # "move"
  BY DEF Init, Aimed, Searching, Looking, Walking
<1>6. Unused
  <2>1. FreshInserts(todo)
    BY WorkloadAssumption DEF Init
  <2>2. ASSUME NEW t \in Threads, NEW m \in Inserted(todo, t)
        PROVE  todo[t][m].key # INVALID
    <3>1. todo[t] \in Seq(Calls) /\ m \in DOMAIN todo[t]
      BY WorkloadAssumption DEF Init, Inserted
    <3>2. todo[t][m] \in Calls
      BY <3>1
    <3> QED
      BY <3>2, Bounds DEF Calls
  <2> QED
    BY <1>3, <2>1, <2>2 DEF Unused
<1>7. KeysOnce
  BY <1>3 DEF KeysOnce
<1> QED
  BY <1>1, <1>4, <1>5, <1>6, <1>7 DEF FInv, Newest, Calm

\* Every step keeps it, if no Delete takes effect under a search.
LEMMA FStep ==
  ASSUME IInv, FInv, [Next]_vars, [DeletesApart]_vars
  PROVE  FInv'
<1>1. CASE UNCHANGED vars
  <2>1. Newest' = Newest /\ Fresh' = Fresh
    BY <1>1 DEF vars, fieldVars, Newest, Fresh
  <2>2. Calm' = Calm
    BY <1>1 DEF vars, fieldVars, callVars, probeVars, pathVars, Calm, Aimed, Calling, Call, Key, Slot,
         Searching, Whole, Begun, Linked, Stale, Seen, Settled, Awaits, Last, Inside, NextSlot, OnItsWay, KeyAt
  <2>3. Unused' = Unused /\ KeysOnce' = KeysOnce
    BY <1>1 DEF vars, fieldVars, callVars, probeVars, pathVars, Unused, KeysOnce, Copying, KeyAt
  <2> QED
    BY <2>1, <2>2, <2>3 DEF FInv
<1>2. CASE ~ UNCHANGED vars
  <2>1. PICK t \in Threads : Step(t)
    BY <1>2 DEF Next, Terminated
  <2>2. Delete(t) => resizing_lock = 0
    BY <1>2 DEF DeletesApart
  <2>3. Newest'
    BY <2>1, NewestStep DEF FInv
  <2>4. ASSUME Fresh' PROVE Calm' /\ Unused' /\ KeysOnce'
    <3>1. Ongoing(t) /\ Unused /\ KeysOnce
      BY <2>1, <2>2, <2>4, FreshBefore DEF FInv, Ongoing
    <3> QED
      BY <3>1, CalmStep, UnusedStep, OnceStep
  <2> QED
    BY <2>3, <2>4 DEF FInv
<1> QED
  BY <1>1, <1>2

\* The inductive invariant of the first table.
THEOREM FirstTable == Spec /\ [][DeletesApart]_vars => []FInv
<1>1. IInv /\ FInv /\ [Next]_vars /\ [DeletesApart]_vars => FInv'
  BY FStep
<1> QED
  BY <1>1, InitFInv, Inductive, PTL DEF Spec

\* What execute_path begins with.
LEMMA AtTheMove == IInv /\ FInv => (Fresh => MovedPathIsPath)
<1> SUFFICES ASSUME IInv, Newest, Fresh, Calm, NEW t \in Threads, pc[t] = "move", i[t] = Len(path[t])
             PROVE  IsPath(array[table], capacity, [j \in DOMAIN path[t] |-> path[t][j].slot])
  BY DEF FInv, MovedPathIsPath
<1> TypeOK
  BY DEF IInv, Typed
<1>0. PICK p : p = path[t]
  OBVIOUS
<1>1. p \in Seq(Entries) /\ OnItsWay(t) /\ p # <<>> /\ Len(p) \in Nat /\ Len(p) >= 1 /\ DOMAIN p = 1..Len(p)
  <2>1. p \in Seq(Entries) /\ OnItsWay(t) /\ p # <<>>
    BY <1>0 DEF TypeOK, Calm, OnItsWay
  <2> QED
    BY <2>1
<1>2. PICK way : way = [j \in DOMAIN p |-> p[j].slot]
  OBVIOUS
<1>3. /\ way \in Seq(0..(MaxCapacity-1)) /\ Len(way) = Len(p) /\ DOMAIN way = 1..Len(p)
      /\ \A j \in 1..Len(p) : way[j] = p[j].slot
  <2>1. \A j \in 1..Len(p) : p[j].slot \in 0..(MaxCapacity-1)
    <3>1. \A j \in 1..Len(p) : p[j] \in Entries
      BY <1>1
    <3> QED
      BY <3>1 DEF Entries
  <2> QED
    BY <1>1, <1>2, <2>1
<1>4. \A j \in 1..Len(p) : p[j].slot \in Slots(capacity) /\ KeyOf(array[table][p[j].slot]) = p[j].key
  BY <1>0, <1>1 DEF OnItsWay, Inside, KeyAt
<1>5. ASSUME NEW x \in Slots(capacity)
      PROVE  (KeyOf(array[table][x]) = INVALID <=> array[table][x] = INVALID)
             /\ (array[table][x] # INVALID => KeyOf(array[table][x]) = array[table][x].key)
  <2>1. array[table][x] \in Pair \cup {INVALID}
    BY FreshTable DEF Tables, Slots
  <2> QED
    BY <2>1, Bounds DEF KeyOf, Pair
<1>6. ASSUME NEW j \in 1..(Len(way)-1), array[table][way[j]] # INVALID
      PROVE  way[j+1] = Follow(array[table], way[j], capacity)
  <2>1. j \in 1..(Len(p)-1) /\ j \in 1..Len(p) /\ j+1 \in 1..Len(p)
    BY <1>1, <1>3
  <2>2. array[table][way[j]].key = p[j].key
    BY <1>3, <1>4, <1>5, <1>6, <2>1
  <2>3. p[j+1].slot = NextSlot(p[j])
    BY <1>0, <1>1, <2>1 DEF OnItsWay
  <2> QED
    <3>1. way[j] = p[j].slot /\ way[j+1] = p[j+1].slot
      BY <1>3, <2>1
    <3>2. Follow(array[table], way[j], capacity) = Other(p[j].key, p[j].slot, capacity)
      BY <1>6, <2>2, <3>1 DEF Follow
    <3> QED
      BY <2>3, <3>1, <3>2 DEF NextSlot
<1>7. array[table][way[Len(way)]] = INVALID
  BY <1>0, <1>1, <1>3, <1>4, <1>5 DEF OnItsWay
<1>8. \A j, l \in DOMAIN way : way[j] = way[l] => j = l
  BY <1>0, <1>1, <1>3 DEF OnItsWay
<1>9. way # <<>> /\ \A j \in DOMAIN way : way[j] \in 0..(capacity-1)
  BY <1>1, <1>3, <1>4 DEF Slots
<1>10. IsPath(array[table], capacity, way)
  BY <1>6, <1>7, <1>8, <1>9 DEF IsPath
<1> QED
  BY <1>0, <1>2, <1>10

\* What the threads have found keeps the pairs in their places, and once.
LEMMA OnceMoved == IInv /\ FInv => (Fresh => PairsInPlace /\ MovedOrOnce)
<1> SUFFICES ASSUME IInv, Newest, Fresh, Calm, KeysOnce
             PROVE  PairsInPlace /\ MovedOrOnce
  BY DEF FInv
<1>1. PairsInPlace
  BY DEF PairsInPlace, Calm
<1>2. ASSUME NEW x \in Occupied, NEW y \in Occupied, x # y, array[table][x].key = array[table][y].key
      PROVE  Copying(x, y)
  <2>1. x \in Slots(capacity) /\ y \in Slots(capacity)
    BY FreshTable DEF Occupied
  <2>2. array[table][x] \in Pair /\ array[table][y] \in Pair
    BY <2>1, FreshTable DEF Occupied, Tables, Slots
  <2>3. array[table][x].key \in Keys
    BY <2>2 DEF Pair
  <2>4. KeyAt(x) # INVALID /\ KeyAt(x) = KeyAt(y)
    BY <1>2, <2>2, <2>3, Bounds DEF KeyAt, KeyOf
  <2> QED
    BY <1>2, <2>1, <2>4 DEF KeysOnce
<1> QED
  BY <1>1, <1>2 DEF MovedOrOnce, Copying

\* Insert, lines 201-226: find_path put the path together without a lock, but until the
\* first resize what execute_path is about to move is a path from a place of the key to
\* a free slot, if no Delete takes effect while a thread searches.
THEOREM FreshPathIsPath == Spec /\ [][DeletesApart]_vars => [](Fresh => MovedPathIsPath)
BY FirstTable, Inductive, AtTheMove, PTL

\* Then no key is ever in a slot where a lookup does not look (lines 299-330).
THEOREM FreshPairsInPlace == Spec /\ [][DeletesApart]_vars => [](Fresh => PairsInPlace)
BY FirstTable, Inductive, OnceMoved, PTL

\* Nor is one in two slots, but while it is moved from the one to the other (lines
\* 405-432), although Insert never looks whether its key is there.
THEOREM FreshKeysOnce == Spec /\ [][DeletesApart]_vars => [](Fresh => MovedOrOnce)
BY FirstTable, Inductive, OnceMoved, PTL

\* A list of calls without a Delete never has one.
LEMMA NothingIsDeleted ==
  ASSUME \A w \in Workloads : DeletesNothing(w)
  PROVE  Spec => [][DeletesApart]_vars
<1>1. Init => DeletesNothing(todo)
  BY DEF Init
<1>2. IInv /\ DeletesNothing(todo) /\ [Next]_vars => DeletesNothing(todo)'
  <2> SUFFICES ASSUME IInv, DeletesNothing(todo), [Next]_vars, todo' # todo
               PROVE  DeletesNothing(todo')
    BY DEF DeletesNothing
  <2>1. PICK t \in Threads : Step(t)
    BY DEF Next, Terminated, vars, callVars
  <2>2. /\ todo \in [Threads -> Seq(Calls)] /\ todo[t] # <<>>
        /\ todo' = [todo EXCEPT ![t] = Tail(@)]
    BY <2>1, CallsShrink DEF IInv, Typed, TypeOK
  <2> SUFFICES ASSUME NEW u \in Threads, NEW m \in DOMAIN todo'[u] PROVE todo'[u][m].op # "Delete"
    BY DEF DeletesNothing
  <2>3. CASE u = t
    <3>1. todo[t] \in Seq(Calls) /\ todo'[t] = Tail(todo[t])
      BY <2>2
    <3>2. m \in 1..Len(Tail(todo[t])) /\ m + 1 \in DOMAIN todo[t] /\ Tail(todo[t])[m] = todo[t][m+1]
      BY <2>2, <2>3, <3>1
    <3> QED
      BY <2>3, <3>1, <3>2 DEF DeletesNothing
  <2>4. CASE u # t
    BY <2>2, <2>4 DEF DeletesNothing
  <2> QED
    BY <2>3, <2>4
<1>3. IInv /\ DeletesNothing(todo) => DeletesApart
  <2> SUFFICES ASSUME IInv, DeletesNothing(todo), NEW t \in Threads, Delete(t) PROVE FALSE
    BY DEF DeletesApart
  <2>1. todo[t] \in Seq(Calls) /\ todo[t] # <<>> /\ Head(todo[t]).op = "Delete"
    BY DEF Delete, Calling, Call, IInv, Typed, TypeOK
  <2>2. 1 \in DOMAIN todo[t] /\ Head(todo[t]) = todo[t][1]
    BY <2>1
  <2> QED
    BY <2>1, <2>2 DEF DeletesNothing
<1>4. Spec => []DeletesNothing(todo)
  BY <1>1, <1>2, Inductive, PTL DEF Spec
<1> QED
  BY <1>3, <1>4, Inductive, PTL DEF Spec

\* Where the threads only insert, update and look up, as the first phases of the tests
\* and of the benchmark do, all this holds of every run until the first resize.
THEOREM WithoutDeletes ==
  ASSUME \A w \in Workloads : DeletesNothing(w)
  PROVE  Spec => [](Fresh => MovedPathIsPath /\ PairsInPlace /\ MovedOrOnce)
BY NothingIsDeleted, FreshPathIsPath, FreshPairsInPlace, FreshKeysOnce, PTL

-----------------------------------------------------------------------------
(* The table as a map.  A key is found in every slot that has it (Twins),   *)
(* and what the table says of the key of a call has been seen by the call   *)
(* (Recalled).  A call looks at one place after the other, and the key may  *)
(* be moved past it meanwhile: then it has seen this (Probed).              *)

\* Two slots with one key have one pair.
Twins == \A x, y \in Slots(capacity) :
           KeyAt(x) # INVALID /\ KeyAt(x) = KeyAt(y) => array[table][x] = array[table][y]

\* A Get that looks into the table before the last.
Blind(t) == Calling(t, "Get") /\ old[t]

\* What is known of the value of a key since the call of it has begun.
Recalled(t) ==
  /\ pc[t] = "retry" /\ Calling(t, "Get") => seen[t] = {}
  /\ pc[t] # "retry" => seen[t] # {}
  /\ seen[t] # {} => /\ todo[t] # <<>> /\ Table[Key(t)] \in seen[t]
                     /\ Blind(t) => seen[t] = Values \cup {NONE}

\* t is between its places, or at one of them.
AtPlace(t) == pc[t] \in {"aim", "lock", "look"}

\* A call that looks for its key has not overlooked it at its first place, unless
\* it was missing, or moved; one that has found it still has.
Probed(t) ==
  /\ AtPlace(t) /\ Calling(t, "Get") /\ ~ Blind(t) =>
       Slot(t) = IF n[t] = 1 THEN f_idx(Key(t), capacity) ELSE s_idx(Key(t), capacity)
  /\ (AtPlace(t) \/ (pc[t] = "pick" /\ Calling(t, "Get"))) /\ n[t] = 2
     /\ ~ Calling(t, "Insert") /\ ~ Blind(t) =>
       NONE \in seen[t] \/ KeyAt(f_idx(Key(t), capacity)) # Key(t)
  /\ pc[t] = "write" /\ ~ Calling(t, "Insert") => KeyAt(Slot(t)) = Key(t)

RInv == /\ Twins /\ seen \in [Threads -> SUBSET (Values \cup {NONE})]
        /\ \A t \in Threads : Recalled(t) /\ Probed(t)

-----------------------------------------------------------------------------
\* What is known before a step of t, with what the calls have seen.
Going(t) == Ongoing(t) /\ Unused /\ KeysOnce /\ RInv

\* Which slot tells the value of a key.
LEMMA LookedUp ==
  ASSUME NEW cap \in Nat, cap >= 1, NEW d \in Tables(cap), InPlace(d, cap), NEW k \in Keys,
         \A x, y \in Slots(cap) : KeyOf(d[x]) # INVALID /\ KeyOf(d[x]) = KeyOf(d[y]) => d[x] = d[y],
         NEW F, \A x : x \in F <=> x \in Places(k, cap) /\ Holds(d[x], k)
  PROVE  /\ \A x \in Slots(cap) : KeyOf(d[x]) = k => F # {} /\ d[CHOOSE y \in F : TRUE] = d[x]
         /\ (\A x \in Slots(cap) : KeyOf(d[x]) # k) => F = {}
<1>1. Places(k, cap) \subseteq Slots(cap)
  BY PlacesType DEF Places
<1>2. ASSUME NEW x \in Slots(cap)
      PROVE  Holds(d[x], k) <=> KeyOf(d[x]) = k
  <2>1. d[x] \in Pair \cup {INVALID}
    BY DEF Tables, Slots
  <2> QED
    BY <2>1, Bounds DEF Holds, KeyOf
<1>3. ASSUME NEW x \in Slots(cap), KeyOf(d[x]) = k
      PROVE  F # {} /\ d[CHOOSE y \in F : TRUE] = d[x]
  <2>1. x \in Places(k, cap)
    BY <1>3, Bounds, InPlaceKeys
  <2>2. x \in F
    BY <1>2, <1>3, <2>1
  <2>3. (CHOOSE y \in F : TRUE) \in F
    BY <2>2
  <2>4. PICK y \in F : y = CHOOSE z \in F : TRUE
    BY <2>3
  <2>5. y \in Slots(cap) /\ KeyOf(d[y]) = k
    BY <1>1, <1>2
  <2>6. d[x] = d[y]
    BY <1>3, <2>5, Bounds
  <2> QED
    BY <2>2, <2>4, <2>6
<1>4. (\A x \in Slots(cap) : KeyOf(d[x]) # k) => F = {}
  BY <1>1, <1>2
<1> QED
  BY <1>3, <1>4

\* What a step stores, pair by pair.
LEMMA Stores ==
  ASSUME NEW t \in Threads, Ongoing(t), NEW x \in Slots(capacity)
  PROVE  /\ Put(t) => array'[table'][x] = IF x = Slot(t) THEN [key |-> Key(t), value |-> Call(t).value]
                                           ELSE array[table][x]
         /\ Update(t) => array'[table'][x] = IF x # Slot(t) \/ array[table][x] = INVALID THEN array[table][x]
                                              ELSE [array[table][x] EXCEPT !.value = Call(t).value]
         /\ Delete(t) => array'[table'][x] = IF x = Slot(t) THEN INVALID ELSE array[table][x]
         /\ MoveEntry(t) => array'[table'][x] = IF x = path[t][i[t]].slot
                                                 THEN array[table][path[t][i[t]-1].slot]
                                                 ELSE array[table][x]
         /\ PutFirst(t) => array'[table'][x] = IF x = path[t][1].slot
                                                THEN [key |-> Key(t), value |-> Call(t).value]
                                                ELSE array[table][x]
         /\ \/ Put(t) \/ Update(t) \/ Delete(t) \/ MoveEntry(t) \/ PutFirst(t)
            \/ array' = array
<1> IInv /\ Typed /\ TypeOK /\ Newest /\ Fresh /\ Calm /\ Step(t) /\ Fresh'
  BY DEF Ongoing, IInv, Typed
<1>1. array \in Seq(Arrays) /\ Len(array) = 1 /\ table = 1 /\ table' = 1 /\ from[t] = 1
  BY FreshTable, FreshBefore DEF Typed, Newest
<1>2. x \in DOMAIN array[1] /\ 1 \in DOMAIN array
  BY <1>1, FreshTable
<1>3. ASSUME NEW y, NEW p, array' = [array EXCEPT ![1][y] = p]
      PROVE  array'[table'][x] = IF x = y THEN p ELSE array[table][x]
  BY <1>1, <1>2, <1>3
<1>4. Put(t) => array' = [array EXCEPT ![1][Slot(t)] = [key |-> Key(t), value |-> Call(t).value]]
  BY <1>1 DEF Put
<1>5. Delete(t) => array' = [array EXCEPT ![1][Slot(t)] = INVALID]
  BY <1>1 DEF Delete
<1>6. PutFirst(t) => array' = [array EXCEPT ![1][path[t][1].slot] = [key |-> Key(t), value |-> Call(t).value]]
  BY <1>1 DEF PutFirst
<1>7. ASSUME MoveEntry(t)
      PROVE  array' = [array EXCEPT ![1][path[t][i[t]].slot] = array[table][path[t][i[t]-1].slot]]
  <2>1. path[t][i[t]-1].slot \in Slots(capacity)
    <3>1. OnItsWay(t) /\ i[t] > 1 /\ path[t] \in Seq(Entries)
      BY <1>7 DEF MoveEntry, Calm, TypeOK
    <3>2. i[t] - 1 \in DOMAIN path[t]
      BY <3>1 DEF OnItsWay
    <3> QED
      BY <3>1, <3>2 DEF OnItsWay, Inside
  <2>2. Read(table, path[t][i[t]-1].slot) = {array[table][path[t][i[t]-1].slot]}
    BY <2>1, KeyAtType
  <2> QED
    BY <1>1, <1>7, <2>2 DEF MoveEntry
<1>8. ASSUME Update(t)
      PROVE  array' = [array EXCEPT ![1][Slot(t)] = IF array[1][Slot(t)] = INVALID THEN array[1][Slot(t)]
                                                    ELSE [array[1][Slot(t)] EXCEPT !.value = Call(t).value]]
  BY <1>1, <1>8 DEF Update
<1>9. /\ Put(t) => array'[table'][x] = IF x = Slot(t) THEN [key |-> Key(t), value |-> Call(t).value]
                                        ELSE array[table][x]
      /\ Delete(t) => array'[table'][x] = IF x = Slot(t) THEN INVALID ELSE array[table][x]
      /\ PutFirst(t) => array'[table'][x] = IF x = path[t][1].slot
                                             THEN [key |-> Key(t), value |-> Call(t).value]
                                             ELSE array[table][x]
  BY <1>3, <1>4, <1>5, <1>6
<1>10. MoveEntry(t) => array'[table'][x] = IF x = path[t][i[t]].slot
                                            THEN array[table][path[t][i[t]-1].slot]
                                            ELSE array[table][x]
  BY <1>3, <1>7
<1>11. Update(t) => array'[table'][x] = IF x # Slot(t) \/ array[table][x] = INVALID THEN array[table][x]
                                         ELSE [array[table][x] EXCEPT !.value = Call(t).value]
  <2> SUFFICES ASSUME Update(t)
               PROVE  array'[table'][x] = IF x # Slot(t) \/ array[table][x] = INVALID THEN array[table][x]
                                           ELSE [array[table][x] EXCEPT !.value = Call(t).value]
    OBVIOUS
  <2>1. PICK p : p = IF array[1][Slot(t)] = INVALID THEN array[1][Slot(t)]
                     ELSE [array[1][Slot(t)] EXCEPT !.value = Call(t).value]
    OBVIOUS
  <2>2. array' = [array EXCEPT ![1][Slot(t)] = p]
    BY <1>8, <2>1
  <2>3. array'[table'][x] = IF x = Slot(t) THEN p ELSE array[table][x]
    BY <1>3, <2>2
  <2> QED
    BY <1>1, <2>1, <2>3
<1> QED
  BY <1>9, <1>10, <1>11, Frames, FreshBefore

\* Which key a step leaves in a slot: that of its pair.
LEMMA KeyAfter ==
  ASSUME NEW t \in Threads, Ongoing(t), NEW x \in Slots(capacity)
  PROVE  KeyAt(x)' = KeyOf(array'[table'][x])
BY DEF KeyAt

\* Who is about to write to the slot of a key is at the only one.
LEMMA Sole ==
  ASSUME NEW t \in Threads, Going(t), pc[t] = "write", KeyAt(Slot(t)) # INVALID,
         Slot(t) \in Slots(capacity), NEW y \in Slots(capacity), KeyAt(y) = KeyAt(Slot(t))
  PROVE  y = Slot(t)
<1> SUFFICES ASSUME y # Slot(t) PROVE FALSE
  OBVIOUS
<1> IInv /\ TypeOK /\ Newest /\ Fresh /\ KeysOnce
  BY DEF Going, Ongoing, IInv, Typed
<1>1. Copying(Slot(t), y)
  BY DEF KeysOnce
<1>2. PICK u \in Threads : \E l \in DOMAIN path[u] :
         /\ pc[u] = "move" /\ l < Len(path[u])
         /\ {path[u][l].slot, path[u][l+1].slot} = {Slot(t), y}
  BY <1>1 DEF Copying
<1>3. PICK l \in DOMAIN path[u] : pc[u] = "move" /\ l < Len(path[u])
                                  /\ {path[u][l].slot, path[u][l+1].slot} = {Slot(t), y}
  BY <1>2
<1>4. l + 1 \in DOMAIN path[u] /\ u # t
  <2>1. path[u] \in Seq(Entries)
    BY DEF TypeOK
  <2>2. l + 1 \in DOMAIN path[u]
    BY <1>3, <2>1
  <2> QED
    BY <1>3, <2>2
<1>5. <<table, Slot(t)>> \in Using(u)
  <2>1. \E j \in DOMAIN path[u] : Slot(t) = path[u][j].slot
    BY <1>3, <1>4
  <2>2. Using(u) = {<<table, path[u][j].slot>> : j \in DOMAIN path[u]}
    BY <1>3 DEF Using
  <2> QED
    BY <2>1, <2>2
<1>6. <<table, Slot(t)>> \in Using(t)
  BY FreshTable DEF Using
<1>7. ~ Reading(t) /\ mutex = 1
  BY FreshTable DEF Reading
<1> QED
  BY <1>4, <1>5, <1>6, <1>7, Apart DEF SlotsGuarded

\* The slot a thread writes to, and what it holds.
LEMMA AtWrite ==
  ASSUME NEW t \in Threads, Going(t), pc[t] = "write"
  PROVE  /\ Slot(t) \in Slots(capacity) /\ Key(t) \in Keys
         /\ ~ Calling(t, "Get") /\ todo[t] # <<>>
         /\ Calling(t, "Insert") => /\ KeyAt(Slot(t)) = INVALID
                                    /\ \A y \in Slots(capacity) : KeyAt(y) # Key(t)
         /\ ~ Calling(t, "Insert") => /\ KeyAt(Slot(t)) = Key(t)
                                      /\ \A y \in Slots(capacity) : KeyAt(y) = Key(t) => y = Slot(t)
<1> IInv /\ Typed /\ TypeOK /\ Newest /\ Fresh /\ Calm /\ RInv
  BY DEF Going, Ongoing, IInv, Typed
<1>1. ~ Calling(t, "Get") /\ todo[t] # <<>>
  BY DEF Typed
<1>2. Slot(t) \in Slots(capacity) /\ Key(t) \in Keys
  BY <1>1, AimedInside DEF Calm
<1>3. Calling(t, "Insert") => KeyAt(Slot(t)) = INVALID /\ \A y \in Slots(capacity) : KeyAt(y) # Key(t)
  <2>1. Calling(t, "Insert") => 1 \in Inserted(todo, t) /\ Key(t) = todo[t][1].key
    BY InsertedNow
  <2> QED
    BY <2>1 DEF Calm, Aimed, Going, Unused
<1>4. ~ Calling(t, "Insert") => KeyAt(Slot(t)) = Key(t)
  BY DEF RInv, Probed
<1> QED
  BY <1>1, <1>2, <1>3, <1>4, Sole, Bounds

\* A thread that moves the keys of a path, at its entry i.
LEMMA AtEntry ==
  ASSUME NEW t \in Threads, Going(t), pc[t] = "move", NEW to, to = path[t][i[t]].slot
  PROVE  /\ Key(t) \in Keys /\ Calling(t, "Insert") /\ i[t] \in Nat /\ i[t] >= 1
         /\ to \in Slots(capacity) /\ \A y \in Slots(capacity) : KeyAt(y) # Key(t)
         /\ KeyAt(to) # INVALID =>
              \E y \in Slots(capacity) : /\ y # to /\ KeyAt(y) = KeyAt(to)
                                         /\ array[table][y] = array[table][to]
         /\ i[t] > 1 => /\ path[t][i[t]-1].slot \in Slots(capacity) /\ path[t][i[t]-1].slot # to
                        /\ KeyAt(path[t][i[t]-1].slot) \in Keys
<1> IInv /\ Typed /\ TypeOK /\ Newest /\ Fresh /\ Calm /\ RInv
  BY DEF Going, Ongoing, IInv, Typed
<1>1. OnItsWay(t)
  BY DEF Calm
<1>2. PICK p, l : p = path[t] /\ l = i[t]
  OBVIOUS
<1>3. p \in Seq(Entries) /\ Len(p) \in Nat /\ DOMAIN p = 1..Len(p) /\ l \in 1..Len(p)
      /\ Inside(p) /\ (\A j, m \in DOMAIN p : p[j].slot = p[m].slot => j = m)
      /\ (\A j \in 1..(Len(p)-1) : p[j].key \in Keys)
      /\ p[Len(p)].key = INVALID
      /\ \A j \in 1..Len(p) : KeyAt(p[j].slot) = IF j <= l THEN p[j].key ELSE p[j-1].key
  <2>1. p \in Seq(Entries)
    BY <1>2 DEF TypeOK
  <2>2. Len(p) \in Nat /\ DOMAIN p = 1..Len(p)
    BY <2>1
  <2> QED
    BY <1>1, <1>2, <2>1, <2>2 DEF OnItsWay
<1>4. Calling(t, "Insert") /\ Key(t) \in Keys
  BY CallType DEF Typed, Making, Calling
<1>5. 1 \in Inserted(todo, t) /\ Key(t) = todo[t][1].key
  BY <1>4, InsertedNow
<1>6. \A y \in Slots(capacity) : KeyAt(y) # Key(t)
  BY <1>5 DEF Going, Unused
<1>7. to \in Slots(capacity) /\ l \in Nat /\ l >= 1 /\ to = p[l].slot
  BY <1>2, <1>3 DEF Inside
<1>8. ASSUME KeyAt(to) # INVALID
      PROVE  \E y \in Slots(capacity) : /\ y # to /\ KeyAt(y) = KeyAt(to)
                                        /\ array[table][y] = array[table][to]
  <2>1. l < Len(p)
    BY <1>3, <1>7, <1>8
  <2>2. l + 1 \in 1..Len(p) /\ l + 1 > l /\ (l + 1) - 1 = l /\ l + 1 # l
    BY <1>3, <2>1
  <2>3. p[l+1].slot # to /\ p[l+1].slot \in Slots(capacity)
    BY <1>3, <1>7, <2>2 DEF Inside
  <2>4. KeyAt(p[l+1].slot) = KeyAt(to)
    BY <1>3, <1>7, <2>2
  <2> QED
    BY <1>7, <1>8, <2>3, <2>4 DEF RInv, Twins
<1>9. ASSUME l > 1
      PROVE  p[l-1].slot \in Slots(capacity) /\ p[l-1].slot # to /\ KeyAt(p[l-1].slot) \in Keys
  <2>1. l - 1 \in 1..(Len(p)-1) /\ l - 1 \in 1..Len(p) /\ l - 1 <= l /\ l - 1 # l
    BY <1>3, <1>9
  <2> QED
    BY <1>3, <1>7, <2>1 DEF Inside
<1> QED
  BY <1>2, <1>4, <1>6, <1>7, <1>8, <1>9

\* The invariants hold after the step, and of the table too.
LEMMA After ==
  ASSUME NEW t \in Threads, Going(t)
  PROVE  /\ IInv' /\ Newest' /\ Fresh' /\ Calm' /\ Unused' /\ KeysOnce'
         /\ table = 1 /\ table' = 1 /\ capacity' = capacity /\ capacity \in Nat /\ capacity >= 1
         /\ array[1] \in Tables(capacity) /\ array'[1] \in Tables(capacity)
<1> Ongoing(t) /\ IInv /\ Newest /\ Fresh /\ Step(t) /\ Fresh'
  BY DEF Going, Ongoing
<1>1. IInv'
  BY NextIInv DEF Next
<1>2. Newest'
  BY NewestStep
<1>3. Calm' /\ Unused' /\ KeysOnce'
  BY CalmStep, UnusedStep, OnceStep DEF Going
<1>4. table = 1 /\ table' = 1 /\ capacity' = capacity /\ capacity \in Nat /\ capacity >= 1
      /\ array[1] \in Tables(capacity) /\ DOMAIN array[1] = Slots(capacity) /\ Len(array) = 1
  BY FreshBefore, FreshTable DEF Newest
<1>5. array'[1] \in Tables(capacity)
  <2>1. array' \in Seq(Arrays) /\ 1 \in 1..Len(array') /\ DOMAIN array'[1] = 0..(capacity-1)
    BY <1>4, ArrayStep DEF Slots
  <2> QED
    BY <1>4, <2>1, ArrayType
<1> QED
  BY <1>1, <1>2, <1>3, <1>4, <1>5

\* Two slots with one key keep one pair.
LEMMA TwinsStep ==
  ASSUME NEW t \in Threads, Going(t)
  PROVE  Twins'
<1> Ongoing(t) /\ RInv /\ IInv /\ Newest /\ Fresh
  BY DEF Going, Ongoing
<1> SUFFICES ASSUME NEW x \in Slots(capacity), NEW y \in Slots(capacity), x # y,
                    KeyAt(x)' # INVALID, KeyAt(x)' = KeyAt(y)'
             PROVE  array'[table'][x] = array'[table'][y]
  BY After DEF Twins
<1>1. CASE Put(t)
  <2>1. /\ pc[t] = "write" /\ Calling(t, "Insert")
    BY <1>1 DEF Put
  <2>2. \A z \in Slots(capacity) : KeyAt(z) # Key(t)
    BY <2>1, AtWrite
  <2>3. x # Slot(t) /\ y # Slot(t)
    BY <1>1, <2>2, Writes
  <2> QED
    <3>1. KeyAt(x)' = KeyAt(x) /\ KeyAt(y)' = KeyAt(y)
      BY <1>1, <2>3, Writes
    <3>2. array'[table'][x] = array[table][x] /\ array'[table'][y] = array[table][y]
      BY <1>1, <2>3, Stores
    <3> QED
      BY <3>1, <3>2 DEF RInv, Twins
<1>2. CASE Update(t)
  <2>1. pc[t] = "write" /\ ~ Calling(t, "Insert")
    BY <1>2 DEF Update, Calling
  <2>2. \A z \in Slots(capacity) : KeyAt(z)' = KeyAt(z)
    BY <1>2, Writes DEF Put, Delete, MoveEntry, PutFirst, Update, Calling
  <2>3. x # Slot(t) /\ y # Slot(t)
    BY <2>1, <2>2, AtWrite
  <2> QED
    <3>1. array'[table'][x] = array[table][x] /\ array'[table'][y] = array[table][y]
      BY <1>2, <2>3, Stores
    <3> QED
      BY <2>2, <3>1 DEF RInv, Twins
<1>3. CASE Delete(t)
  <2>1. x # Slot(t) /\ y # Slot(t)
    BY <1>3, Writes
  <2> QED
    <3>1. KeyAt(x)' = KeyAt(x) /\ KeyAt(y)' = KeyAt(y)
      BY <1>3, <2>1, Writes
    <3>2. array'[table'][x] = array[table][x] /\ array'[table'][y] = array[table][y]
      BY <1>3, <2>1, Stores
    <3> QED
      BY <3>1, <3>2 DEF RInv, Twins
<1>4. CASE MoveEntry(t)
  <2>1. PICK to : to = path[t][i[t]].slot
    OBVIOUS
  <2>2. PICK fro : fro = path[t][i[t]-1].slot
    OBVIOUS
  <2>3. pc[t] = "move" /\ i[t] > 1 /\ fro \in Slots(capacity)
    BY <1>4, <2>1, <2>2, AtEntry DEF MoveEntry
  <2>4. \A z \in Slots(capacity) :
          /\ KeyAt(z)' = IF z = to THEN KeyAt(fro) ELSE KeyAt(z)
          /\ array'[table'][z] = IF z = to THEN array[table][fro] ELSE array[table][z]
    <3>1. \A z \in Slots(capacity) : KeyAt(z)' = IF z = to THEN KeyAt(fro) ELSE KeyAt(z)
      BY <1>4, <2>1, <2>2, Writes
    <3>2. \A z \in Slots(capacity) : array'[table'][z] = IF z = to THEN array[table][fro] ELSE array[table][z]
      BY <1>4, <2>1, <2>2, Stores
    <3> QED
      BY <3>1, <3>2
  <2> QED
    BY <2>3, <2>4 DEF RInv, Twins
<1>5. CASE PutFirst(t)
  <2>1. pc[t] = "move" /\ i[t] = 1
    BY <1>5 DEF PutFirst
  <2>2. \A z \in Slots(capacity) : KeyAt(z) # Key(t)
    BY <2>1, AtEntry
  <2>3. x # path[t][1].slot /\ y # path[t][1].slot
    BY <1>5, <2>2, Writes
  <2> QED
    <3>1. KeyAt(x)' = KeyAt(x) /\ KeyAt(y)' = KeyAt(y)
      BY <1>5, <2>3, Writes
    <3>2. array'[table'][x] = array[table][x] /\ array'[table'][y] = array[table][y]
      BY <1>5, <2>3, Stores
    <3> QED
      BY <3>1, <3>2 DEF RInv, Twins
<1>6. CASE array' = array
  BY <1>6, After DEF RInv, Twins, KeyAt
<1> QED
  BY <1>1, <1>2, <1>3, <1>4, <1>5, <1>6, Stores

\* The value of a key is in every slot that has it.
LEMMA TableNow ==
  ASSUME NEW t \in Threads, Going(t), NEW k \in Keys
  PROVE  /\ \A x \in Slots(capacity) : KeyAt(x) = k => Table[k] = array[table][x].value
         /\ (\A x \in Slots(capacity) : KeyAt(x) # k) => Table[k] = NONE
<1> RInv /\ Calm /\ IInv /\ Newest /\ Fresh
  BY DEF Going, Ongoing
<1>1. ~ Refilling
  BY FreshTable DEF Refilling
<1>2. PICK F : F = {x \in Places(k, capacity) : Holds(array[table][x], k)}
  OBVIOUS
<1>3. Found(k) = F
  BY <1>1, <1>2 DEF Found
<1>4. Table[k] = IF F = {} THEN NONE ELSE array[table][CHOOSE x \in F : TRUE].value
  BY <1>1, <1>3 DEF Table
<1>5. /\ \A x \in Slots(capacity) : KeyAt(x) = k => F # {} /\ array[table][CHOOSE y \in F : TRUE] = array[table][x]
      /\ (\A x \in Slots(capacity) : KeyAt(x) # k) => F = {}
  <2>1. InPlace(array[table], capacity) /\ array[table] \in Tables(capacity) /\ capacity \in Nat /\ capacity >= 1
    BY FreshTable DEF Calm
  <2>2. \A x, y \in Slots(capacity) : KeyOf(array[table][x]) # INVALID /\ KeyOf(array[table][x]) = KeyOf(array[table][y])
                                      => array[table][x] = array[table][y]
    BY DEF RInv, Twins, KeyAt
  <2>3. PICK d : d = array[table]
    OBVIOUS
  <2>4. /\ \A x \in Slots(capacity) : KeyOf(d[x]) = k => F # {} /\ d[CHOOSE y \in F : TRUE] = d[x]
        /\ (\A x \in Slots(capacity) : KeyOf(d[x]) # k) => F = {}
    <3>1. \A x : x \in F <=> x \in Places(k, capacity) /\ Holds(d[x], k)
      BY <1>2, <2>3
    <3>2. d \in Tables(capacity) /\ InPlace(d, capacity)
          /\ \A x, y \in Slots(capacity) : KeyOf(d[x]) # INVALID /\ KeyOf(d[x]) = KeyOf(d[y]) => d[x] = d[y]
      BY <2>1, <2>2, <2>3
    <3> QED
      BY <2>1, <3>1, <3>2, LookedUp
  <2> QED
    BY <2>3, <2>4 DEF KeyAt
<1> QED
  BY <1>4, <1>5

\* The same after the step.
LEMMA TableNext ==
  ASSUME NEW t \in Threads, Going(t), NEW k \in Keys
  PROVE  /\ \A x \in Slots(capacity) : KeyAt(x)' = k => Table'[k] = array'[table'][x].value
         /\ (\A x \in Slots(capacity) : KeyAt(x)' # k) => Table'[k] = NONE
<1> IInv' /\ Newest' /\ Fresh' /\ Calm' /\ Twins'
  BY After, TwinsStep
<1>1. ~ Refilling'
  BY After, FreshBefore, FreshTable, Allocating DEF Refilling, Going, Ongoing, IInv, Sized, Fresh
<1>2. PICK F : F = {x \in Places(k, capacity') : Holds(array'[table'][x], k)}
  OBVIOUS
<1>3. Found(k)' = F
  BY <1>1, <1>2 DEF Found
<1>4. Table'[k] = IF F = {} THEN NONE ELSE array'[table'][CHOOSE x \in F : TRUE].value
  BY <1>1, <1>3 DEF Table
<1>5. /\ \A x \in Slots(capacity) : KeyAt(x)' = k => F # {} /\ array'[table'][CHOOSE y \in F : TRUE] = array'[table'][x]
      /\ (\A x \in Slots(capacity) : KeyAt(x)' # k) => F = {}
  <2>1. InPlace(array'[table'], capacity) /\ array'[table'] \in Tables(capacity) /\ capacity \in Nat /\ capacity >= 1
    BY After DEF Calm
  <2>2. \A x, y \in Slots(capacity) : KeyOf(array'[table'][x]) # INVALID /\ KeyOf(array'[table'][x]) = KeyOf(array'[table'][y])
                                      => array'[table'][x] = array'[table'][y]
    BY After DEF Twins, KeyAt
  <2>3. F = {x \in Places(k, capacity) : Holds(array'[table'][x], k)}
    BY <1>2, After
  <2>4. PICK d : d = array'[table']
    OBVIOUS
  <2>5. /\ \A x \in Slots(capacity) : KeyOf(d[x]) = k => F # {} /\ d[CHOOSE y \in F : TRUE] = d[x]
        /\ (\A x \in Slots(capacity) : KeyOf(d[x]) # k) => F = {}
    <3>1. \A x : x \in F <=> x \in Places(k, capacity) /\ Holds(d[x], k)
      BY <2>3, <2>4
    <3>2. d \in Tables(capacity) /\ InPlace(d, capacity)
          /\ \A x, y \in Slots(capacity) : KeyOf(d[x]) # INVALID /\ KeyOf(d[x]) = KeyOf(d[y]) => d[x] = d[y]
      BY <2>1, <2>2, <2>4
    <3> QED
      BY ZenonT(30), <2>1, <3>1, <3>2, LookedUp
  <2> QED
    BY <2>4, <2>5 DEF KeyAt
<1> QED
  BY <1>4, <1>5

\* Each key has a value or none, and what an insertion is for has none.
LEMMA TableType ==
  ASSUME NEW t \in Threads, Going(t)
  PROVE  Table \in [Keys -> Values \cup {NONE}] /\ Table' \in [Keys -> Values \cup {NONE}]
<1> Ongoing(t) /\ IInv /\ Newest /\ Fresh
  BY DEF Going, Ongoing
<1>1. ASSUME NEW k \in Keys, NEW d \in Tables(capacity), NEW x \in Slots(capacity), KeyOf(d[x]) = k
      PROVE  d[x].value \in Values
  <2>1. d[x] \in Pair \cup {INVALID}
    BY DEF Tables, Slots
  <2> QED
    BY <1>1, <2>1, Bounds DEF KeyOf, Pair
<1>2. ASSUME NEW k \in Keys PROVE Table[k] \in Values \cup {NONE}
  BY <1>1, After, TableNow DEF KeyAt
<1>3. ASSUME NEW k \in Keys PROVE Table'[k] \in Values \cup {NONE}
  BY <1>1, After, TableNext DEF KeyAt
<1>4. /\ Table = [k \in Keys |-> Table[k]]
      /\ Table' = [k \in Keys |-> Table'[k]]
  BY DEF Table
<1> QED
  BY <1>2, <1>3, <1>4

\* A key that is in the same slots as before, with the same pairs, has the same value.
LEMMA SameValue ==
  ASSUME NEW t \in Threads, Going(t), NEW k \in Keys,
         \A x \in Slots(capacity) : KeyAt(x) = k =>
            \E y \in Slots(capacity) : KeyAt(y)' = k /\ array'[table'][y] = array[table][x],
         \A x \in Slots(capacity) : KeyAt(x)' = k => \E y \in Slots(capacity) : KeyAt(y) = k
  PROVE  Table'[k] = Table[k]
<1>1. CASE \E x \in Slots(capacity) : KeyAt(x) = k
  <2>1. PICK x \in Slots(capacity) : KeyAt(x) = k
    BY <1>1
  <2>2. PICK y \in Slots(capacity) : KeyAt(y)' = k /\ array'[table'][y] = array[table][x]
    BY <2>1
  <2> QED
    BY <2>1, <2>2, TableNow, TableNext
<1>2. CASE \A x \in Slots(capacity) : KeyAt(x) # k
  BY <1>2, TableNow, TableNext
<1> QED
  BY <1>1, <1>2

\* An insertion gives its key a value, an update another and a deletion none; nothing
\* else changes the map, not even a key that is moved.
LEMMA TableStep ==
  ASSUME NEW t \in Threads, Going(t)
  PROVE  /\ Put(t) \/ PutFirst(t) => /\ Table[Key(t)] = NONE
                                     /\ Table' = [Table EXCEPT ![Key(t)] = Call(t).value]
         /\ Update(t) => /\ Table[Key(t)] # NONE
                         /\ Table' = [Table EXCEPT ![Key(t)] = Call(t).value]
         /\ Delete(t) => /\ Table[Key(t)] # NONE
                         /\ Table' = [Table EXCEPT ![Key(t)] = NONE]
         /\ Put(t) \/ PutFirst(t) \/ Update(t) \/ Delete(t) \/ Table' = Table
<1> Ongoing(t) /\ RInv /\ IInv /\ Newest /\ Fresh /\ Typed
  BY DEF Going, Ongoing, IInv
<1> Table \in [Keys -> Values \cup {NONE}] /\ Table' \in [Keys -> Values \cup {NONE}]
  BY TableType
<1>1. ASSUME NEW v, Key(t) \in Keys, Table'[Key(t)] = v, \A k \in Keys : k # Key(t) => Table'[k] = Table[k]
      PROVE  Table' = [Table EXCEPT ![Key(t)] = v]
  BY <1>1
<1>2. ASSUME NEW x \in Slots(capacity), NEW k \in Keys, Key(t) \in Keys, k # Key(t),
             KeyAt(x) = Key(t) \/ KeyAt(x) = INVALID
                \/ \E y \in Slots(capacity) : /\ y # x /\ KeyAt(y) = KeyAt(x) /\ array[table][y] = array[table][x],
             KeyAt(x)' = Key(t) \/ KeyAt(x)' = INVALID,
             \A y \in Slots(capacity) : y # x => KeyAt(y)' = KeyAt(y) /\ array'[table'][y] = array[table][y]
      PROVE  Table'[k] = Table[k]
  BY <1>2, SameValue, Bounds
<1>3. CASE Put(t)
  <2>1. pc[t] = "write" /\ Calling(t, "Insert") /\ ~ Update(t) /\ ~ Delete(t)
    BY <1>3 DEF Put, Update, Delete, Calling
  <2>9. PICK at : at = Slot(t)
    OBVIOUS
  <2>2. /\ at \in Slots(capacity) /\ Key(t) \in Keys /\ KeyAt(at) = INVALID
        /\ \A y \in Slots(capacity) : KeyAt(y) # Key(t)
    BY <2>1, <2>9, AtWrite
  <2>3. Table[Key(t)] = NONE
    BY <2>2, TableNow
  <2>4. KeyAt(at)' = Key(t) /\ array'[table'][at] = [key |-> Key(t), value |-> Call(t).value]
    BY <1>3, <2>2, <2>9, Writes, Stores
  <2>5. Table'[Key(t)] = Call(t).value
    BY <2>2, <2>4, TableNext
  <2>6. \A y \in Slots(capacity) : y # at => KeyAt(y)' = KeyAt(y)
    BY <1>3, <2>9, Writes
  <2>7. \A y \in Slots(capacity) : y # at => array'[table'][y] = array[table][y]
    BY <1>3, <2>9, Stores
  <2>8. \A k \in Keys : k # Key(t) => Table'[k] = Table[k]
    BY <1>2, <2>2, <2>4, <2>6, <2>7
  <2> QED
    BY <1>1, <1>3, <2>1, <2>2, <2>3, <2>5, <2>8
<1>4. CASE PutFirst(t)
  <2>1. pc[t] = "move" /\ i[t] = 1 /\ ~ Update(t) /\ ~ Delete(t)
    BY <1>4 DEF PutFirst, Update, Delete
  <2>2. PICK to : to = path[t][i[t]].slot
    OBVIOUS
  <2>3. /\ to \in Slots(capacity) /\ Key(t) \in Keys /\ to = path[t][1].slot
        /\ \A y \in Slots(capacity) : KeyAt(y) # Key(t)
        /\ KeyAt(to) # INVALID =>
              \E y \in Slots(capacity) : /\ y # to /\ KeyAt(y) = KeyAt(to)
                                         /\ array[table][y] = array[table][to]
    BY <2>1, <2>2, AtEntry
  <2>4. Table[Key(t)] = NONE
    BY <2>3, TableNow
  <2>5. KeyAt(to)' = Key(t) /\ array'[table'][to] = [key |-> Key(t), value |-> Call(t).value]
    BY <1>4, <2>3, Writes, Stores
  <2>6. Table'[Key(t)] = Call(t).value
    BY <2>3, <2>5, TableNext
  <2>7. \A y \in Slots(capacity) : y # to => KeyAt(y)' = KeyAt(y)
    BY <1>4, <2>3, Writes
  <2>8. \A y \in Slots(capacity) : y # to => array'[table'][y] = array[table][y]
    BY <1>4, <2>3, Stores
  <2>9. \A k \in Keys : k # Key(t) => Table'[k] = Table[k]
    BY <1>2, <2>3, <2>5, <2>7, <2>8
  <2> QED
    BY <1>1, <1>4, <2>1, <2>3, <2>4, <2>6, <2>9
<1>5. CASE Update(t)
  <2>1. pc[t] = "write" /\ ~ Calling(t, "Insert") /\ Calling(t, "Update")
        /\ ~ Put(t) /\ ~ PutFirst(t) /\ ~ Delete(t) /\ ~ MoveEntry(t)
    BY <1>5 DEF Update, Calling, Put, PutFirst, Delete, MoveEntry
  <2>2. Slot(t) \in Slots(capacity) /\ Key(t) \in Keys /\ KeyAt(Slot(t)) = Key(t)
    BY <2>1, AtWrite
  <2>3. \A y \in Slots(capacity) : KeyAt(y)' = KeyAt(y)
    BY <2>1, Writes
  <2>4. array[table][Slot(t)] \in Pair
    BY <2>2, KeyAtType, Bounds
  <2>5. array'[table'][Slot(t)] = [array[table][Slot(t)] EXCEPT !.value = Call(t).value]
    BY <1>5, <2>2, <2>4, Stores, Bounds
  <2>6. array'[table'][Slot(t)].value = Call(t).value /\ array[table][Slot(t)].value \in Values
    BY <2>4, <2>5 DEF Pair
  <2>7. Table'[Key(t)] = Call(t).value /\ Table[Key(t)] # NONE
    BY <2>2, <2>3, <2>6, TableNow, TableNext, WorkloadAssumption
  <2>8. \A y \in Slots(capacity) : y # Slot(t) => array'[table'][y] = array[table][y]
    BY <1>5, Stores
  <2>9. \A k \in Keys : k # Key(t) => Table'[k] = Table[k]
    BY <1>2, <2>2, <2>3, <2>8
  <2> QED
    BY <1>1, <1>5, <2>1, <2>2, <2>7, <2>9
<1>6. CASE Delete(t)
  <2>1. pc[t] = "write" /\ ~ Calling(t, "Insert") /\ ~ Put(t) /\ ~ PutFirst(t) /\ ~ Update(t)
    BY <1>6 DEF Update, Calling, Put, PutFirst, Delete
  <2>2. /\ Slot(t) \in Slots(capacity) /\ Key(t) \in Keys /\ KeyAt(Slot(t)) = Key(t)
        /\ \A y \in Slots(capacity) : KeyAt(y) = Key(t) => y = Slot(t)
    BY <2>1, AtWrite
  <2>3. \A y \in Slots(capacity) : KeyAt(y)' = IF y = Slot(t) THEN INVALID ELSE KeyAt(y)
    BY <1>6, Writes
  <2>4. array[table][Slot(t)] \in Pair
    BY <2>2, KeyAtType, Bounds
  <2>5. Table[Key(t)] # NONE
    BY <2>2, <2>4, TableNow, WorkloadAssumption DEF Pair
  <2>6. Table'[Key(t)] = NONE
    BY <2>2, <2>3, TableNext, Bounds
  <2>7. \A y \in Slots(capacity) : y # Slot(t) => array'[table'][y] = array[table][y]
    BY <1>6, Stores
  <2>8. \A k \in Keys : k # Key(t) => Table'[k] = Table[k]
    BY <1>2, <2>2, <2>3, <2>7
  <2> QED
    BY <1>1, <1>6, <2>1, <2>2, <2>5, <2>6, <2>8
<1>7. CASE MoveEntry(t)
  <2>1. pc[t] = "move" /\ i[t] > 1 /\ ~ Put(t) /\ ~ PutFirst(t) /\ ~ Update(t) /\ ~ Delete(t)
    BY <1>7 DEF MoveEntry, Put, PutFirst, Update, Delete
  <2>2. PICK to, fro : to = path[t][i[t]].slot /\ fro = path[t][i[t]-1].slot
    OBVIOUS
  <2>3. /\ to \in Slots(capacity) /\ fro \in Slots(capacity) /\ fro # to
        /\ KeyAt(to) # INVALID =>
              \E y \in Slots(capacity) : /\ y # to /\ KeyAt(y) = KeyAt(to)
                                         /\ array[table][y] = array[table][to]
    BY <2>1, <2>2, AtEntry
  <2>4. \A y \in Slots(capacity) : KeyAt(y)' = IF y = to THEN KeyAt(fro) ELSE KeyAt(y)
    BY <1>7, <2>2, Writes
  <2>5. \A y \in Slots(capacity) : y # to => array'[table'][y] = array[table][y]
    BY <1>7, <2>2, Stores
  <2>6. ASSUME NEW k \in Keys PROVE Table'[k] = Table[k]
    <3>1. ASSUME NEW x \in Slots(capacity), KeyAt(x) = k
          PROVE  \E y \in Slots(capacity) : KeyAt(y)' = k /\ array'[table'][y] = array[table][x]
      BY <2>3, <2>4, <2>5, <3>1, Bounds
    <3>2. ASSUME NEW x \in Slots(capacity), KeyAt(x)' = k
          PROVE  \E y \in Slots(capacity) : KeyAt(y) = k
      BY <2>3, <2>4, <3>2
    <3> QED
      BY <3>1, <3>2, SameValue
  <2> QED
    BY <2>1, <2>6
<1>8. CASE array' = array /\ ~ Put(t) /\ ~ PutFirst(t) /\ ~ Update(t) /\ ~ Delete(t)
  <2>1. \A x \in Slots(capacity) : KeyAt(x)' = KeyAt(x) /\ array'[table'][x] = array[table][x]
    BY <1>8, After DEF KeyAt
  <2>2. \A k \in Keys : Table'[k] = Table[k]
    BY <2>1, SameValue
  <2> QED
    BY <1>8, <2>2
<1>9. \/ Put(t) \/ Update(t) \/ Delete(t) \/ MoveEntry(t) \/ PutFirst(t) \/ array' = array
  BY Frames, FreshBefore DEF Ongoing
<1> QED
  BY <1>3, <1>4, <1>5, <1>6, <1>7, <1>8, <1>9

\* How a call begins.
LEMMA FromRetry ==
  ASSUME NEW t \in Threads, Step(t), pc[t] = "retry"
  PROVE  /\ AwaitResize(t) \/ BeginGet(t)
         /\ todo' = todo /\ ret' = ret /\ array' = array /\ todo[t] # <<>>
<1>1. AwaitResize(t) \/ BeginGet(t)
  BY DEF Step, Look, Displace, Resize, PickPlaces, PickPlace, DivideByZero, Aim, LockPlace,
         ReadNothing, LookHit, GetHit, LookOn, LookMiss, Put, Update, Delete,
         TryCuckoo, BeginPath, TestKey, HashFirst, HashSecond, PushSlot, ChoosePath, LockPath,
         PathLocked, CheckEntry, Checked, MoveEntry, PutFirst, SaveCapacity, SaveTable, LockAll,
         Grow, Allocate, Reinsert, UnlockAll, SetMutex, EndResize
<1> QED
  BY <1>1 DEF AwaitResize, BeginGet, callVars, Calling

\* What a call knows at its places.
LEMMA Probes ==
  ASSUME TypeOK, NEW t \in Threads, Step(t)
  PROVE  /\ AtPlace(t)' => \/ PickPlaces(t) \/ PickPlace(t) \/ LookOn(t)
                           \/ AtPlace(t) /\ UNCHANGED <<places, n, old, todo, array>>
         /\ pc'[t] = "pick" => \/ AwaitResize(t) \/ BeginGet(t) \/ LookOn(t)
                               \/ pc[t] = "pick" /\ UNCHANGED <<places, n, old, todo, array>>
         /\ pc'[t] = "write" => LookHit(t)
         /\ BeginGet(t) \/ old' = old
         /\ AwaitResize(t) => pc'[t] = "pick"
         /\ BeginGet(t) => pc'[t] = "pick"
<1> USE DEF TypeOK, Goto, Return, callVars, probeVars, searchFrame, resizeFrame, AtPlace
<1>1. CASE AwaitResize(t) \/ PickPlaces(t) \/ BeginGet(t) \/ PickPlace(t) \/ DivideByZero(t)
  BY <1>1 DEF AwaitResize, PickPlaces, BeginGet, PickPlace, DivideByZero
<1>2. CASE Aim(t) \/ LockPlace(t) \/ ReadNothing(t) \/ LookHit(t) \/ GetHit(t)
  BY <1>2 DEF Aim, LockPlace, ReadNothing, LookHit, GetHit, AwaitResize, BeginGet
<1>3. CASE LookOn(t) \/ LookMiss(t) \/ Put(t) \/ Update(t) \/ Delete(t)
  BY <1>3 DEF LookOn, LookMiss, Put, Update, Delete, AwaitResize, BeginGet
<1>4. CASE TryCuckoo(t) \/ BeginPath(t) \/ HashFirst(t) \/ HashSecond(t)
  BY <1>4 DEF TryCuckoo, BeginPath, HashFirst, HashSecond, AwaitResize, BeginGet
<1>5. CASE TestKey(t) \/ PushSlot(t)
  BY <1>5 DEF TestKey, PushSlot, PathDone, AwaitResize, BeginGet
<1>6. CASE ChoosePath(t) \/ LockPath(t) \/ PathLocked(t) \/ CheckEntry(t)
  BY SMTT(30), <1>6 DEF ChoosePath, LockPath, PathLocked, CheckEntry, AwaitResize, BeginGet
<1>7. CASE Checked(t) \/ MoveEntry(t) \/ PutFirst(t) \/ SaveCapacity(t) \/ SaveTable(t)
  BY <1>7 DEF Checked, MoveEntry, PutFirst, SaveCapacity, SaveTable, AwaitResize, BeginGet
<1>8. CASE LockAll(t) \/ Grow(t) \/ Allocate(t) \/ Reinsert(t)
  BY <1>8 DEF LockAll, Grow, Allocate, Reinsert, AwaitResize, BeginGet
<1>9. CASE UnlockAll(t) \/ SetMutex(t) \/ EndResize(t)
  BY <1>9 DEF UnlockAll, SetMutex, EndResize, AwaitResize, BeginGet
<1> QED
  BY <1>1, <1>2, <1>3, <1>4, <1>5, <1>6, <1>7, <1>8, <1>9 DEF Step, Look, Displace, Resize

\* What returns, and what starts again without having returned.
LEMMA Returns ==
  ASSUME Typed, NEW t \in Threads, Step(t)
  PROVE  /\ \/ Put(t) \/ PutFirst(t) \/ Update(t) \/ Delete(t) \/ GetHit(t)
            \/ LookMiss(t) /\ ~ Calling(t, "Insert")
            \/ UNCHANGED <<todo, ret>>
         /\ pc'[t] = "retry" /\ UNCHANGED todo => Calling(t, "Insert")
<1> TypeOK /\ (pc[t] \in Making => Calling(t, "Insert")) /\ (pc[t] # "retry" => todo[t] # <<>>)
  BY DEF Typed
<1> /\ todo \in [Threads -> Seq(Calls)]
    /\ todo[t] # <<>> => Tail(todo[t]) # todo[t]
  <2>1. todo[t] \in Seq(Calls)
    BY DEF TypeOK
  <2>2. todo[t] # <<>> => Len(Tail(todo[t])) # Len(todo[t])
    BY <2>1
  <2> QED
    BY <2>2 DEF TypeOK
<1> pc \in [Threads -> Steps]
  BY DEF TypeOK
<1> USE DEF Goto, Return, callVars, probeVars, searchFrame, resizeFrame, Making, Holding
<1>1. CASE AwaitResize(t) \/ PickPlaces(t) \/ BeginGet(t) \/ PickPlace(t) \/ DivideByZero(t)
  BY <1>1 DEF AwaitResize, PickPlaces, BeginGet, PickPlace, DivideByZero
<1>2. CASE Aim(t) \/ LockPlace(t) \/ ReadNothing(t) \/ LookHit(t) \/ GetHit(t)
  BY <1>2 DEF Aim, LockPlace, ReadNothing, LookHit, GetHit
<1>3. CASE LookOn(t)
  BY <1>3 DEF LookOn
<1>10. CASE LookMiss(t)
  <2>1. CASE Calling(t, "Insert")
    <3>1. UNCHANGED callVars
      BY <1>10, <2>1 DEF LookMiss, Calling
    <3> QED
      BY <2>1, <3>1
  <2>2. CASE ~ Calling(t, "Insert")
    <3>1. todo' = [todo EXCEPT ![t] = Tail(@)]
      BY <1>10, <2>2 DEF LookMiss
    <3>2. todo[t] # <<>>
      BY <1>10 DEF LookMiss
    <3>3. todo'[t] # todo[t]
      BY <3>1, <3>2
    <3> QED
      BY <1>10, <2>2, <3>3
  <2> QED
    BY <2>1, <2>2
<1>11. CASE Put(t) \/ Update(t) \/ Delete(t)
  BY <1>11 DEF Put, Update, Delete
<1>4. CASE TryCuckoo(t) \/ BeginPath(t) \/ HashFirst(t) \/ HashSecond(t)
  BY <1>4 DEF TryCuckoo, BeginPath, HashFirst, HashSecond
<1>5. CASE TestKey(t) \/ PushSlot(t)
  BY <1>5 DEF TestKey, PushSlot, PathDone
<1>6. CASE ChoosePath(t) \/ LockPath(t) \/ PathLocked(t) \/ CheckEntry(t)
  BY <1>6 DEF ChoosePath, LockPath, PathLocked, CheckEntry
<1>7. CASE Checked(t) \/ MoveEntry(t) \/ PutFirst(t) \/ SaveCapacity(t) \/ SaveTable(t)
  BY <1>7 DEF Checked, MoveEntry, PutFirst, SaveCapacity, SaveTable
<1>8. CASE LockAll(t) \/ Grow(t) \/ Allocate(t) \/ Reinsert(t)
  BY <1>8 DEF LockAll, Grow, Allocate, Reinsert
<1>9. CASE UnlockAll(t) \/ SetMutex(t) \/ EndResize(t)
  BY <1>9 DEF UnlockAll, SetMutex, EndResize
<1> QED
  BY <1>1, <1>2, <1>3, <1>4, <1>5, <1>6, <1>7, <1>8, <1>9, <1>10, <1>11 DEF Step, Look, Displace, Resize

\* Which key a step moves.
LEMMA WhatMoves ==
  ASSUME NEW t \in Threads, Going(t)
  PROVE  /\ ~ MoveEntry(t) => Moved = {}
         /\ MoveEntry(t) => /\ KeyAt(path[t][i[t]-1].slot) \in Keys
                            /\ Moved = {KeyAt(path[t][i[t]-1].slot)}
<1> Ongoing(t) /\ Step(t) /\ TypeOK /\ IInv /\ Newest /\ Fresh
  BY DEF Going, Ongoing, IInv, Typed
<1>1. ASSUME NEW u \in Threads, pc[u] = "move", i[u] > 1, i'[u] # i[u]
      PROVE  u = t /\ MoveEntry(t)
  <2>1. u = t
    BY <1>1, Others
  <2>2. MoveEntry(t) \/ PutFirst(t)
    BY <1>1, <2>1, FromMove
  <2> QED
    BY <1>1, <2>1, <2>2 DEF PutFirst
<1>2. ASSUME MoveEntry(t)
      PROVE  /\ KeyAt(path[t][i[t]-1].slot) \in Keys
             /\ Moved = {KeyAt(path[t][i[t]-1].slot)}
  <2>1. PICK to, fro : to = path[t][i[t]].slot /\ fro = path[t][i[t]-1].slot
    OBVIOUS
  <2>2. /\ pc[t] = "move" /\ i[t] > 1 /\ i'[t] # i[t]
        /\ to \in Slots(capacity) /\ fro \in Slots(capacity) /\ KeyAt(fro) \in Keys
    BY <1>2, <2>1, AtEntry DEF MoveEntry, TypeOK
  <2>3. array'[table][to] = array[table][fro]
    <3>1. table' = table
      BY After
    <3>2. array'[table'][to] = array[table][fro]
      BY <1>2, <2>1, <2>2, Stores
    <3> QED
      BY <3>1, <3>2
  <2>4. \A k \in Keys : Holds(array'[table][to], k) <=> k = KeyAt(fro)
    BY <2>2, <2>3, Bounds DEF Holds, KeyAt, KeyOf
  <2>5. \A k \in Keys : k \in Moved <=> Holds(array'[table][to], k)
    BY <1>1, <2>1, <2>2 DEF Moved
  <2> QED
    BY <2>1, <2>2, <2>4, <2>5 DEF Moved
<1>3. ~ MoveEntry(t) => Moved = {}
  BY <1>1 DEF Moved
<1> QED
  BY <1>2, <1>3

\* What a call has seen after the step.
LEMMA SeenNext ==
  ASSUME NEW t \in Threads, Going(t), Remember, NEW u \in Threads
  PROVE  /\ todo'[u] # todo[u] => seen'[u] = {}
         /\ seen[u] # {} => /\ Key(u) \in Keys /\ todo[u] # <<>> /\ Table[Key(u)] \in seen[u]
                            /\ old'[u] = old[u]
         /\ todo'[u] = todo[u] /\ seen[u] # {} =>
              seen'[u] = IF Blind(u) THEN seen[u]
                         ELSE seen[u] \cup {Table'[Key(u)]} \cup (IF Key(u) \in Moved THEN {NONE} ELSE {})
         /\ seen[u] = {} =>
              \/ pc'[u] = "retry" /\ seen'[u] = {}
              \/ /\ u = t /\ pc'[u] = "pick" /\ (AwaitResize(t) \/ BeginGet(t)) /\ ~ MoveEntry(t)
                 /\ Key(u) \in Keys /\ todo[u] # <<>> /\ todo'[u] = todo[u]
                 /\ seen'[u] = IF Calling(u, "Get") /\ old'[u] THEN Values \cup {NONE}
                               ELSE {Table'[Key(u)]}
<1> Ongoing(t) /\ Step(t) /\ Typed /\ TypeOK /\ IInv /\ Newest /\ Fresh /\ RInv /\ Recalled(u)
  BY DEF Going, Ongoing, IInv, Typed, RInv
<1>1. seen'[u] = IF todo'[u] # todo[u] \/ (seen[u] = {} /\ pc'[u] \notin {"pick"}) THEN {}
                 ELSE IF Calling(u, "Get") /\ old'[u] THEN Values \cup {NONE}
                 ELSE seen[u] \cup {Table'[Key(u)]} \cup (IF Key(u) \in Moved THEN {NONE} ELSE {})
  BY DEF Remember
<1>2. ASSUME seen[u] # {}
      PROVE  /\ Key(u) \in Keys /\ todo[u] # <<>> /\ Table[Key(u)] \in seen[u]
             /\ old'[u] = old[u]
  <2>1. todo[u] # <<>> /\ Key(u) \in Keys /\ Table[Key(u)] \in seen[u]
    BY <1>2, CallType DEF Recalled
  <2>2. CASE u # t
    BY <2>1, <2>2, Others
  <2>3. CASE u = t
    <3>1. ~ BeginGet(t)
      BY <1>2, <2>3 DEF Recalled, BeginGet
    <3> QED
      BY <2>1, <2>3, <3>1, Probes
  <2> QED
    BY <2>2, <2>3
<1>3. ASSUME todo'[u] = todo[u], seen[u] # {}
      PROVE  seen'[u] = IF Blind(u) THEN seen[u]
                        ELSE seen[u] \cup {Table'[Key(u)]} \cup (IF Key(u) \in Moved THEN {NONE} ELSE {})
  <2>1. CASE Blind(u)
    <3>1. seen[u] = Values \cup {NONE}
      BY <1>3, <2>1 DEF Recalled
    <3> QED
      BY <1>1, <1>2, <1>3, <2>1, <3>1 DEF Blind
  <2>2. CASE ~ Blind(u)
    BY <1>1, <1>2, <1>3, <2>2 DEF Blind
  <2> QED
    BY <2>1, <2>2
<1>4. ASSUME seen[u] = {}
      PROVE  \/ pc'[u] = "retry" /\ seen'[u] = {}
             \/ /\ u = t /\ pc'[u] = "pick" /\ (AwaitResize(t) \/ BeginGet(t)) /\ ~ MoveEntry(t)
                /\ Key(u) \in Keys /\ todo[u] # <<>> /\ todo'[u] = todo[u]
                /\ seen'[u] = IF Calling(u, "Get") /\ old'[u] THEN Values \cup {NONE}
                              ELSE {Table'[Key(u)]}
  <2>1. pc[u] = "retry"
    BY <1>4 DEF Recalled
  <2>2. CASE u # t
    <3>1. pc'[u] = "retry"
      BY <2>1, <2>2, Others
    <3> QED
      BY <1>1, <1>4, <3>1
  <2>3. CASE u = t
    <3>1. /\ AwaitResize(t) \/ BeginGet(t)
          /\ todo'[u] = todo[u] /\ todo[u] # <<>>
      BY <2>1, <2>3, FromRetry
    <3>2. pc'[u] = "pick"
      BY <2>3, <3>1, Probes
    <3>3. ~ MoveEntry(t) /\ Moved = {}
      BY <2>1, <2>3, WhatMoves DEF MoveEntry
    <3>4. Key(u) \in Keys
      BY <3>1, CallType
    <3> QED
      BY <1>1, <1>4, <2>3, <3>1, <3>2, <3>3, <3>4
  <2> QED
    BY <2>2, <2>3
<1> QED
  BY <1>1, <1>2, <1>3, <1>4

\* What a call has seen is kept up.
LEMMA RecalledStep ==
  ASSUME NEW t \in Threads, Going(t), Remember, NEW u \in Threads
  PROVE  Recalled(u)' /\ seen'[u] \in SUBSET (Values \cup {NONE})
<1> Ongoing(t) /\ Step(t) /\ Typed /\ TypeOK /\ IInv /\ RInv /\ Recalled(u)
  BY DEF Going, Ongoing, IInv, Typed, RInv
<1> seen[u] \in SUBSET (Values \cup {NONE}) /\ Table' \in [Keys -> Values \cup {NONE}]
  BY TableType DEF RInv
<1>1. CASE todo'[u] # todo[u]
  <2>1. pc'[u] = "retry" /\ seen'[u] = {}
    BY <1>1, BusyStep, SeenNext
  <2> QED
    BY <2>1 DEF Recalled
<1>2. CASE todo'[u] = todo[u] /\ seen[u] = {}
  <2>1. CASE pc'[u] = "retry" /\ seen'[u] = {}
    BY <2>1 DEF Recalled
  <2>2. CASE /\ pc'[u] = "pick" /\ Key(u) \in Keys /\ todo[u] # <<>>
             /\ seen'[u] = IF Calling(u, "Get") /\ old'[u] THEN Values \cup {NONE}
                           ELSE {Table'[Key(u)]}
    <3>1. Key(u)' = Key(u) /\ Calling(u, "Get")' = Calling(u, "Get") /\ todo'[u] # <<>>
      BY <1>2, <2>2 DEF Key, Call, Calling
    <3>2. Table'[Key(u)] \in Values \cup {NONE}
      BY <2>2
    <3>3. Table'[Key(u)'] \in seen'[u] /\ seen'[u] \in SUBSET (Values \cup {NONE})
      BY <2>2, <3>1, <3>2
    <3>4. Blind(u)' => seen'[u] = Values \cup {NONE}
      BY <2>2, <3>1 DEF Blind
    <3> QED
      BY <2>2, <3>1, <3>3, <3>4 DEF Recalled
  <2> QED
    BY <1>2, <2>1, <2>2, SeenNext
<1>3. CASE todo'[u] = todo[u] /\ seen[u] # {}
  <2>1. /\ Key(u) \in Keys /\ todo[u] # <<>> /\ Table[Key(u)] \in seen[u] /\ old'[u] = old[u]
        /\ seen'[u] = IF Blind(u) THEN seen[u]
                      ELSE seen[u] \cup {Table'[Key(u)]} \cup (IF Key(u) \in Moved THEN {NONE} ELSE {})
    BY <1>3, SeenNext
  <2>2. Key(u)' = Key(u) /\ Calling(u, "Get")' = Calling(u, "Get") /\ todo'[u] # <<>>
    BY <1>3, <2>1 DEF Key, Call, Calling
  <2>3. Blind(u)' = Blind(u)
    BY <2>1, <2>2 DEF Blind
  <2>4. Blind(u) => seen[u] = Values \cup {NONE}
    BY <1>3 DEF Recalled
  <2>5. Table'[Key(u)] \in Values \cup {NONE}
    BY <2>1
  <2>6. Table'[Key(u)'] \in seen'[u] /\ seen'[u] \in SUBSET (Values \cup {NONE}) /\ seen'[u] # {}
    BY <2>1, <2>2, <2>4, <2>5
  <2>7. ~ (pc'[u] = "retry" /\ Calling(u, "Get"))
    <3> SUFFICES ASSUME pc'[u] = "retry", Calling(u, "Get") PROVE FALSE
      OBVIOUS
    <3>1. u = t
      BY <1>3, Others DEF Recalled
    <3>2. todo' = todo
      <4>1. \A s \in Threads : todo'[s] = todo[s]
        BY <1>3, <3>1, Others
      <4>2. todo \in [Threads -> Seq(Calls)]
        BY DEF TypeOK
      <4>3. todo' \in [Threads -> Seq(Calls)]
        BY CallsStep
      <4> QED
        BY <4>1, <4>2, <4>3
    <3>3. Calling(t, "Insert")
      BY <3>1, <3>2, Returns
    <3> QED
      BY <3>1, <3>3 DEF Calling
  <2> QED
    BY <2>1, <2>2, <2>3, <2>4, <2>6, <2>7 DEF Recalled
<1> QED
  BY <1>1, <1>2, <1>3

\* A slot that does not have the key of a call gets it only if the call sees it missing.
LEMMA SeenAway ==
  ASSUME NEW t \in Threads, Going(t), Remember, NEW u \in Threads, pc[u] # "retry",
         todo'[u] = todo[u], ~ Blind(u), NEW x \in Slots(capacity),
         NONE \in seen[u] \/ KeyAt(x) # Key(u)
  PROVE  NONE \in seen'[u] \/ KeyAt(x)' # Key(u)
<1> Ongoing(t) /\ Step(t) /\ Typed /\ TypeOK /\ IInv /\ RInv /\ Recalled(u)
  BY DEF Going, Ongoing, IInv, Typed, RInv
<1>1. seen[u] # {}
  BY DEF Recalled
<1>2. /\ Key(u) \in Keys /\ Table[Key(u)] \in seen[u]
      /\ seen'[u] = seen[u] \cup {Table'[Key(u)]} \cup (IF Key(u) \in Moved THEN {NONE} ELSE {})
  BY <1>1, SeenNext
<1> SUFFICES ASSUME KeyAt(x) # Key(u), KeyAt(x)' = Key(u) PROVE NONE \in seen'[u]
  BY <1>2
<1>3. CASE Put(t) \/ PutFirst(t)
  <2>1. Key(t) = Key(u)
    BY <1>3, Writes
  <2>2. Table[Key(t)] = NONE
    BY <1>3, TableStep
  <2> QED
    BY <1>2, <2>1, <2>2
<1>4. CASE Delete(t)
  BY <1>2, <1>4, Writes, Bounds
<1>5. CASE MoveEntry(t)
  <2>1. Key(u) = KeyAt(path[t][i[t]-1].slot)
    BY <1>5, Writes
  <2>2. Key(u) \in Moved
    BY <1>5, <2>1, WhatMoves
  <2> QED
    BY <1>2, <2>2
<1> QED
  BY <1>3, <1>4, <1>5, Writes

\* Where a call looks first.
LEMMA FirstPlace ==
  ASSUME NEW t \in Threads, Going(t), NEW u \in Threads, todo[u] # <<>>
  PROVE  /\ f_idx(Key(u), capacity) \in Slots(capacity) /\ s_idx(Key(u), capacity) \in Slots(capacity)
         /\ Key(u) \in Keys
<1>1. IInv /\ Typed /\ capacity \in Nat /\ capacity >= 1
  BY After DEF Going, Ongoing, IInv
<1>2. Key(u) \in Keys
  BY <1>1, CallType
<1> QED
  BY <1>1, <1>2, PlacesType

\* What t has looked at, it has seen.
LEMMA LookedAt ==
  ASSUME NEW t \in Threads, Going(t), pc[t] = "look", ~ Blind(t)
  PROVE  /\ Slot(t) = (IF n[t] = 1 THEN f_idx(Key(t), capacity) ELSE s_idx(Key(t), capacity))
         /\ Slot(t) \in Slots(capacity) /\ TableOf(t) = table /\ Key(t) \in Keys /\ todo[t] # <<>>
         /\ Read(table, Slot(t)) = {array[table][Slot(t)]}
         /\ Holds(array[table][Slot(t)], Key(t)) <=> KeyAt(Slot(t)) = Key(t)
<1> Ongoing(t) /\ IInv /\ Typed /\ TypeOK /\ Newest /\ Fresh /\ Calm /\ RInv /\ Probed(t) /\ Aimed(t)
  BY DEF Going, Ongoing, IInv, Typed, RInv, Calm
<1>1. todo[t] # <<>>
  BY DEF Typed
<1>2. n[t] \in {1, 2}
  BY DEF TypeOK
<1>3. Slot(t) = IF n[t] = 1 THEN f_idx(Key(t), capacity) ELSE s_idx(Key(t), capacity)
  <2>1. CASE Calling(t, "Get")
    BY <2>1 DEF Probed, AtPlace
  <2>2. CASE ~ Calling(t, "Get")
    <3>1. places[t] = <<f_idx(Key(t), capacity), s_idx(Key(t), capacity)>>
      BY <2>2 DEF Aimed
    <3> QED
      BY <1>2, <3>1 DEF Slot
  <2> QED
    BY <2>1, <2>2
<1>4. Slot(t) \in Slots(capacity) /\ Key(t) \in Keys
  BY <1>1, <1>3, FirstPlace
<1>5. TableOf(t) = table
  BY DEF TableOf, Blind
<1>6. PICK at : at = Slot(t)
  OBVIOUS
<1>7. /\ array[table][at] \in Pair \cup {INVALID} /\ Read(table, at) = {array[table][at]}
      /\ KeyAt(at) = KeyOf(array[table][at])
  BY <1>4, <1>6, KeyAtType DEF KeyAt
<1>8. Holds(array[table][at], Key(t)) <=> KeyAt(at) = Key(t)
  BY <1>4, <1>7, Bounds DEF Holds, KeyOf
<1> QED
  BY <1>1, <1>3, <1>4, <1>5, <1>6, <1>7, <1>8

\* Nobody overlooks its key.
LEMMA ProbedStep ==
  ASSUME NEW t \in Threads, Going(t), Remember, NEW u \in Threads
  PROVE  Probed(u)'
<1> Ongoing(t) /\ Step(t) /\ Typed /\ TypeOK /\ IInv /\ Newest /\ Fresh /\ Calm /\ RInv /\ Probed(u)
  BY DEF Going, Ongoing, IInv, Typed, RInv
<1> SUFFICES ASSUME pc'[u] # "retry" PROVE Probed(u)'
  BY DEF Probed, AtPlace
<1>1. todo'[u] # <<>> /\ todo'[u] = todo[u] /\ capacity' = capacity
  BY BusyStep, After
<1>2. /\ Key(u)' = Key(u) /\ Calling(u, "Get")' = Calling(u, "Get")
      /\ Calling(u, "Insert")' = Calling(u, "Insert")
  BY <1>1 DEF Key, Call, Calling
<1>3. /\ f_idx(Key(u), capacity) \in Slots(capacity) /\ s_idx(Key(u), capacity) \in Slots(capacity)
      /\ Key(u) \in Keys
  BY <1>1, FirstPlace
<1>4. (f_idx(Key(u), capacity))' = f_idx(Key(u), capacity)
      /\ (s_idx(Key(u), capacity))' = s_idx(Key(u), capacity)
  BY <1>1, <1>2 DEF f_idx, s_idx
<1> DEFINE First == f_idx(Key(u), capacity)
           Aims == AtPlace(u) /\ Calling(u, "Get") /\ ~ Blind(u)
                     => Slot(u) = IF n[u] = 1 THEN f_idx(Key(u), capacity) ELSE s_idx(Key(u), capacity)
           Passed == (AtPlace(u) \/ (pc[u] = "pick" /\ Calling(u, "Get"))) /\ n[u] = 2
                       /\ ~ Calling(u, "Insert") /\ ~ Blind(u)
                     => NONE \in seen[u] \/ KeyAt(First) # Key(u)
           Has == pc[u] = "write" /\ ~ Calling(u, "Insert") => KeyAt(Slot(u)) = Key(u)
<1>5. Aims /\ Passed /\ Has
  BY DEF Probed
<1>6. ASSUME Aims', Passed', Has' PROVE Probed(u)'
  BY <1>6 DEF Probed
<1>7. ASSUME pc[u] # "retry", ~ Blind(u), NONE \in seen[u] \/ KeyAt(First) # Key(u)
      PROVE  NONE \in seen'[u] \/ (KeyAt(First) # Key(u))'
  <2>1. NONE \in seen'[u] \/ KeyAt(First)' # Key(u)
    <3>1. PICK x : x = First
      OBVIOUS
    <3>2. NONE \in seen'[u] \/ KeyAt(x)' # Key(u)
      BY <1>1, <1>3, <1>7, <3>1, SeenAway
    <3>3. KeyAt(First)' = KeyAt(x)'
      BY <1>4, <3>1 DEF KeyAt
    <3> QED
      BY <3>2, <3>3
  <2> QED
    BY <1>2, <2>1
<1>8. CASE u # t
  <2>1. pc'[u] = pc[u] /\ places'[u] = places[u] /\ n'[u] = n[u] /\ old'[u] = old[u] /\ from'[u] = from[u]
    BY <1>8, Others
  <2>2. AtPlace(u)' = AtPlace(u) /\ Blind(u)' = Blind(u) /\ Slot(u)' = Slot(u)
    BY <1>2, <2>1 DEF AtPlace, Blind, Slot
  <2>3. Aims'
    BY <1>2, <1>4, <1>5, <2>1, <2>2
  <2>4. Passed'
    BY <1>2, <1>5, <1>7, <2>1, <2>2
  <2>5. Has'
    <3> SUFFICES ASSUME pc[u] = "write", ~ Calling(u, "Insert") PROVE KeyAt(Slot(u))' = Key(u)
      BY <1>2, <2>1
    <3>1. PICK at : at = Slot(u)
      OBVIOUS
    <3>2. at \in Slots(capacity)
      <4>1. ~ Calling(u, "Get")
        BY DEF Typed
      <4> QED
        BY <3>1, <4>1, AimedInside DEF Calm
    <3>3. <<table, at>> \in Using(u) /\ ~ Reading(u)
      BY <3>1, FreshTable DEF Using, Reading
    <3>4. KeyAt(at)' = KeyAt(at)
      BY <1>8, <3>2, <3>3, Undisturbed
    <3>5. KeyAt(at) = Key(u) /\ KeyAt(Slot(u))' = KeyAt(at)'
      BY <1>5, <2>2, <3>1 DEF KeyAt
    <3> QED
      BY <3>4, <3>5
  <2> QED
    BY <1>6, <2>3, <2>4, <2>5
<1>9. CASE u = t
  <2>1. Aims'
    <3> SUFFICES ASSUME AtPlace(t)', Calling(t, "Get"), ~ Blind(t)'
                 PROVE  Slot(t)' = IF n'[t] = 1 THEN f_idx(Key(t), capacity) ELSE s_idx(Key(t), capacity)
      BY <1>2, <1>4, <1>9
    <3>1. CASE PickPlace(t)
      <4>1. /\ ~ old[t] /\ n' = n /\ n[t] \in {1, 2} /\ places \in [Threads -> [{1, 2} -> 0..(MaxCapacity-1)]]
            /\ places' = [places EXCEPT ![t][n[t]] =
                 IF n[t] = 1 THEN f_idx(Key(t), IF old[t] THEN old_cap ELSE capacity)
                             ELSE s_idx(Key(t), IF old[t] THEN old_cap ELSE capacity)]
        BY <1>2, <1>9, <3>1 DEF PickPlace, Blind, TypeOK
      <4> QED
        BY <4>1 DEF Slot
    <3>2. CASE AtPlace(t) /\ UNCHANGED <<places, n, old, todo, array>>
      BY <1>2, <1>5, <1>9, <3>2 DEF Blind, Slot
    <3>3. ~ PickPlaces(t) /\ ~ LookOn(t)
      BY DEF PickPlaces, LookOn, AtPlace, Goto, TypeOK
    <3> QED
      BY <3>1, <3>2, <3>3, Probes
  <2>2. Passed'
    <3> SUFFICES ASSUME AtPlace(t)' \/ pc'[t] = "pick", n'[t] = 2, ~ Calling(t, "Insert"), ~ Blind(t)',
                        pc'[t] = "pick" => Calling(t, "Get")
                 PROVE  NONE \in seen'[t] \/ (KeyAt(First) # Key(u))'
      BY <1>2, <1>9 DEF AtPlace
    <3>1. ~ PickPlaces(t) /\ ~ BeginGet(t) /\ ~ AwaitResize(t)
      <4>1. ~ PickPlaces(t) /\ ~ BeginGet(t)
        BY DEF PickPlaces, BeginGet, TypeOK
      <4>2. ~ AwaitResize(t)
        BY Probes DEF AwaitResize
      <4> QED
        BY <4>1, <4>2
    <3>2. ~ Blind(t)
      BY <1>2, <1>9, <3>1, Probes DEF Blind
    <3>3. CASE PickPlace(t)
      <4>1. pc[t] = "pick" /\ Calling(t, "Get") /\ n[t] = 2
        BY <3>3 DEF PickPlace
      <4> QED
        BY <1>5, <1>7, <1>9, <3>2, <4>1
    <3>4. CASE (AtPlace(t) \/ (pc[t] = "pick" /\ pc'[t] = "pick")) /\ UNCHANGED <<places, n, old, todo, array>>
      <4>1. n[t] = 2 /\ pc[t] # "retry" /\ (AtPlace(t) \/ (pc[t] = "pick" /\ Calling(t, "Get")))
        BY <3>4 DEF AtPlace
      <4> QED
        BY <1>5, <1>7, <1>9, <3>2, <4>1
    <3>5. CASE LookOn(t)
      <4>1. /\ pc[t] = "look" /\ n[t] = 1 /\ array' = array
            /\ \E p \in Read(TableOf(t), Slot(t)) : ~ Wanted(t, p)
        BY <3>5 DEF LookOn
      <4>2. ~ Holds(array[table][Slot(t)], Key(t))
        BY <3>2, <4>1, LookedAt DEF Wanted
      <4>3. KeyAt(First) # Key(u)
        BY <1>9, <3>2, <4>1, <4>2, LookedAt
      <4> QED
        BY <1>7, <1>9, <3>2, <4>1, <4>3
    <3>6. CASE AtPlace(t)'
      BY <3>1, <3>3, <3>4, <3>5, <3>6, Probes
    <3>7. CASE pc'[t] = "pick"
      BY <3>1, <3>3, <3>4, <3>5, <3>7, Probes
    <3> QED
      BY <3>6, <3>7
  <2>3. Has'
    <3> SUFFICES ASSUME pc'[t] = "write", ~ Calling(t, "Insert") PROVE KeyAt(Slot(t))' = Key(t)
      BY <1>2, <1>9
    <3>1. LookHit(t)
      BY Probes
    <3>2. /\ pc[t] = "look" /\ ~ Calling(t, "Get") /\ places' = places /\ n' = n /\ array' = array
          /\ \E p \in Read(table, Slot(t)) : Wanted(t, p)
      BY <3>1 DEF LookHit
    <3>3. ~ Blind(t)
      BY <3>2 DEF Blind
    <3>4. KeyAt(Slot(t)) = Key(t)
      BY <3>2, <3>3, LookedAt DEF Wanted
    <3>5. Slot(t)' = Slot(t) /\ table' = table
      BY <3>2, After DEF Slot
    <3>6. KeyAt(Slot(t))' = KeyAt(Slot(t))
      BY <3>2, <3>5 DEF KeyAt
    <3> QED
      BY <3>4, <3>6
  <2> QED
    BY <1>6, <1>9, <2>1, <2>2, <2>3
<1> QED
  BY <1>8, <1>9

\* A step that changes nothing is not remembered.
LEMMA Rests ==
  ASSUME Fresh, RInv, UNCHANGED vars, Remember
  PROVE  seen' = seen
<1>1. Table' = Table
  BY DEF vars, fieldVars, Table, Found, Refilling
<1>2. todo' = todo /\ pc' = pc /\ old' = old /\ i' = i
  BY DEF vars, callVars, probeVars
<1>3. Moved = {}
  BY <1>2 DEF Moved
<1>4. ASSUME NEW u \in Threads PROVE seen'[u] = seen[u]
  <2> Recalled(u)
    BY DEF RInv
  <2>1. seen'[u] = IF todo'[u] # todo[u] \/ (seen[u] = {} /\ pc'[u] \notin {"pick"}) THEN {}
                   ELSE IF Calling(u, "Get") /\ old'[u] THEN Values \cup {NONE}
                   ELSE seen[u] \cup {Table'[Key(u)]} \cup (IF Key(u) \in Moved THEN {NONE} ELSE {})
    BY DEF Remember
  <2>2. CASE seen[u] = {}
    BY <1>2, <2>1, <2>2 DEF Recalled
  <2>3. CASE seen[u] # {}
    BY <1>1, <1>2, <1>3, <2>1, <2>3 DEF Recalled, Blind
  <2> QED
    BY <2>2, <2>3
<1>5. seen' = [u \in Threads |-> seen'[u]]
  BY DEF Remember
<1> QED
  BY <1>4, <1>5 DEF RInv

\* Nobody has called yet.
LEMMA InitRInv == SInit => RInv
<1> SUFFICES ASSUME SInit PROVE RInv
  OBVIOUS
<1> Init
  BY DEF SInit
<1>1. Twins
  <2>1. \A x \in Slots(capacity) : KeyAt(x) = INVALID
    BY DEF Init, KeyAt, KeyOf, Empty, Slots
  <2> QED
    BY <2>1 DEF Twins
<1>2. seen \in [Threads -> SUBSET (Values \cup {NONE})]
  BY DEF SInit
<1>3. ASSUME NEW t \in Threads PROVE Recalled(t) /\ Probed(t)
  <2>1. pc[t] = "retry" /\ seen[t] = {}
    BY DEF SInit, Init
  <2> QED
    BY <2>1 DEF Recalled, Probed, AtPlace
<1> QED
  BY <1>1, <1>2, <1>3 DEF RInv

\* What a step with its memory is.
LEMMA SStep ==
  ASSUME IInv, FInv, Fresh, Fresh', RInv, [SNext]_<<vars, seen>>, [DeletesApart]_vars
  PROVE  \/ UNCHANGED <<vars, seen>>
         \/ Remember /\ \E t \in Threads : Going(t)
<1>1. CASE UNCHANGED vars
  BY <1>1, Rests DEF SNext
<1>2. CASE ~ UNCHANGED vars
  <2>1. Remember /\ Next
    BY <1>2 DEF SNext
  <2>2. PICK t \in Threads : Step(t)
    BY <1>2, <2>1 DEF Next, Terminated
  <2>3. Delete(t) => resizing_lock = 0
    BY <1>2 DEF DeletesApart
  <2>4. Going(t)
    BY <2>2, <2>3 DEF Going, Ongoing, FInv
  <2> QED
    BY <2>1, <2>4
<1> QED
  BY <1>1, <1>2

\* All this is kept.
LEMMA RStep ==
  ASSUME IInv, FInv, Fresh, Fresh', RInv, [SNext]_<<vars, seen>>, [DeletesApart]_vars
  PROVE  RInv'
<1>1. CASE UNCHANGED <<vars, seen>>
  <2>1. Twins' = Twins
    BY <1>1 DEF vars, fieldVars, Twins, KeyAt
  <2>2. Table' = Table
    BY <1>1 DEF vars, fieldVars, Table, Found, Refilling
  <2>3. ASSUME NEW t \in Threads PROVE Recalled(t)' /\ Probed(t)'
    <3>1. Recalled(t) /\ Probed(t)
      BY DEF RInv
    <3>2. Recalled(t)'
      BY <1>1, <2>2, <3>1 DEF vars, callVars, probeVars, Recalled, Blind, Calling, Key, Call
    <3>3. Probed(t)'
      BY <1>1, <3>1 DEF vars, fieldVars, callVars, probeVars, Probed, AtPlace, Blind, Calling, Key, Call,
                        Slot, KeyAt, f_idx, s_idx
    <3> QED
      BY <3>2, <3>3
  <2> QED
    BY <1>1, <2>1, <2>3 DEF RInv
<1>2. ASSUME Remember, NEW t \in Threads, Going(t)
      PROVE  RInv'
  <2>1. Twins'
    BY <1>2, TwinsStep
  <2>2. \A u \in Threads : Recalled(u)' /\ Probed(u)' /\ seen'[u] \in SUBSET (Values \cup {NONE})
    BY <1>2, RecalledStep, ProbedStep
  <2>3. seen' = [u \in Threads |-> seen'[u]]
    BY <1>2 DEF Remember
  <2>4. seen' \in [Threads -> SUBSET (Values \cup {NONE})]
    BY <2>2, <2>3
  <2> QED
    BY <2>1, <2>2, <2>4 DEF RInv
<1> QED
  BY <1>1, <1>2, SStep

\* Where the map stays as it is and no key moves, no call under way sees anything new.
LEMMA SeenStill ==
  ASSUME NEW t \in Threads, Going(t), Remember, ~ MoveEntry(t), Table' = Table,
         NEW u \in Threads, todo'[u] = todo[u], u # t \/ seen[u] # {}
  PROVE  seen'[u] = seen[u]
<1> Ongoing(t) /\ Step(t) /\ TypeOK /\ IInv /\ RInv /\ Recalled(u)
  BY DEF Going, Ongoing, IInv, Typed, RInv
<1>1. Moved = {}
  BY WhatMoves
<1>2. CASE seen[u] = {}
  BY <1>2, SeenNext
<1>3. CASE seen[u] # {}
  <2>1. /\ Table[Key(u)] \in seen[u]
        /\ seen'[u] = IF Blind(u) THEN seen[u]
                      ELSE seen[u] \cup {Table'[Key(u)]} \cup (IF Key(u) \in Moved THEN {NONE} ELSE {})
    BY <1>3, SeenNext
  <2>2. Key(u) \notin Moved /\ Table'[Key(u)] = Table[Key(u)]
    BY <1>1
  <2> QED
    BY <2>1, <2>2
<1> QED
  BY <1>2, <1>3

\* The calls under way see that t's gives its key the value x.
LEMMA SeenSet ==
  ASSUME NEW t \in Threads, Going(t), Remember, ~ MoveEntry(t), Key(t) \in Keys,
         NEW x \in Values \cup {NONE}, Table' = [Table EXCEPT ![Key(t)] = x], todo'[t] # todo[t]
  PROVE  seen' = [u \in Threads |->
                    IF u = t THEN {}
                    ELSE IF seen[u] # {} /\ Key(u) = Key(t) THEN seen[u] \cup {x}
                    ELSE seen[u]]
<1> Ongoing(t) /\ Step(t) /\ TypeOK /\ IInv /\ RInv
  BY DEF Going, Ongoing, IInv, Typed
<1>1. Moved = {} /\ Table \in [Keys -> Values \cup {NONE}]
  BY WhatMoves, TableType
<1>2. ASSUME NEW u \in Threads
      PROVE  seen'[u] = IF u = t THEN {}
                        ELSE IF seen[u] # {} /\ Key(u) = Key(t) THEN seen[u] \cup {x}
                        ELSE seen[u]
  <2> Recalled(u)
    BY DEF RInv
  <2>1. CASE u = t
    BY <2>1, SeenNext
  <2>2. CASE u # t /\ seen[u] = {}
    BY <2>2, SeenNext
  <2>3. CASE u # t /\ seen[u] # {}
    <3>1. todo'[u] = todo[u]
      BY <2>3, Others
    <3>2. /\ Key(u) \in Keys /\ Table[Key(u)] \in seen[u]
          /\ seen'[u] = IF Blind(u) THEN seen[u]
                        ELSE seen[u] \cup {Table'[Key(u)]} \cup (IF Key(u) \in Moved THEN {NONE} ELSE {})
      BY <2>3, <3>1, SeenNext
    <3>3. Key(u) \notin Moved
      BY <1>1
    <3>4. Table'[Key(u)] = IF Key(u) = Key(t) THEN x ELSE Table[Key(u)]
      BY <1>1, <3>2
    <3>5. Blind(u) => x \in seen[u]
      BY <2>3 DEF Recalled
    <3> QED
      BY <2>3, <3>2, <3>3, <3>4, <3>5
  <2> QED
    BY <2>1, <2>2, <2>3
<1>3. seen' = [u \in Threads |-> seen'[u]]
  BY DEF Remember
<1> QED
  BY <1>2, <1>3

\* A call that answers without a change has seen its answer.
LEMMA SeenAnswer ==
  ASSUME NEW t \in Threads, Going(t), pc[t] = "look"
  PROVE  /\ seen[t] # {} /\ todo[t] # <<>>
         /\ \A p \in Read(TableOf(t), Slot(t)) : Calling(t, "Get") /\ Wanted(t, p) => p.value \in seen[t]
         /\ n[t] = 2 /\ ~ Calling(t, "Insert") /\ (\E p \in Read(TableOf(t), Slot(t)) : ~ Wanted(t, p))
              => NONE \in seen[t]
<1> Ongoing(t) /\ Step(t) /\ Typed /\ TypeOK /\ IInv /\ Newest /\ Fresh /\ Calm
      /\ RInv /\ Recalled(t) /\ Probed(t)
  BY DEF Going, Ongoing, IInv, Typed, RInv
<1>1. seen[t] # {} /\ todo[t] # <<>> /\ Table[Key(t)] \in seen[t]
  BY DEF Recalled
<1>2. CASE Blind(t)
  <2>1. seen[t] = Values \cup {NONE} /\ Calling(t, "Get")
    BY <1>1, <1>2 DEF Recalled, Blind
  <2>2. ASSUME NEW p \in Read(TableOf(t), Slot(t)), Wanted(t, p)
        PROVE  p.value \in Values
    <3>1. TableOf(t) \in 0..Len(array)
      BY DEF TableOf, TypeOK
    <3>2. p \in Pair /\ ~ Calling(t, "Insert")
      BY <2>1, <2>2, <3>1, ReadType DEF Wanted, Holds, Calling
    <3> QED
      BY <3>2 DEF Pair
  <2> QED
    BY <1>1, <2>1, <2>2
<1>3. CASE ~ Blind(t)
  <2>1. /\ Slot(t) = (IF n[t] = 1 THEN f_idx(Key(t), capacity) ELSE s_idx(Key(t), capacity))
        /\ Slot(t) \in Slots(capacity) /\ TableOf(t) = table /\ Key(t) \in Keys
        /\ Read(table, Slot(t)) = {array[table][Slot(t)]}
        /\ Holds(array[table][Slot(t)], Key(t)) <=> KeyAt(Slot(t)) = Key(t)
    BY <1>3, LookedAt
  <2>2. ASSUME NEW p \in Read(TableOf(t), Slot(t)), Calling(t, "Get"), Wanted(t, p)
        PROVE  p.value \in seen[t]
    <3>1. p = array[table][Slot(t)] /\ KeyAt(Slot(t)) = Key(t)
      BY <2>1, <2>2 DEF Wanted, Calling
    <3>2. Table[Key(t)] = p.value
      BY <2>1, <3>1, TableNow
    <3> QED
      BY <1>1, <3>2
  <2>3. ASSUME n[t] = 2, ~ Calling(t, "Insert"), NEW p \in Read(TableOf(t), Slot(t)), ~ Wanted(t, p)
        PROVE  NONE \in seen[t]
    <3>1. KeyAt(s_idx(Key(t), capacity)) # Key(t)
      BY <2>1, <2>3 DEF Wanted
    <3>2. NONE \in seen[t] \/ KeyAt(f_idx(Key(t), capacity)) # Key(t)
      BY <1>3, <2>3 DEF Probed, AtPlace
    <3>3. SUFFICES ASSUME KeyAt(f_idx(Key(t), capacity)) # Key(t) PROVE NONE \in seen[t]
      BY <3>2
    <3>4. ASSUME NEW x \in Slots(capacity) PROVE KeyAt(x) # Key(t)
      <4>1. InPlace(array[table], capacity) /\ array[table] \in Tables(capacity) /\ capacity \in Nat
        BY FreshTable DEF Calm
      <4>2. KeyAt(x) # INVALID => x \in Places(KeyAt(x), capacity)
        BY <4>1, InPlaceKeys DEF KeyAt
      <4> QED
        BY <2>1, <3>1, <3>3, <4>2, Bounds DEF Places
    <3>5. Table[Key(t)] = NONE
      BY <2>1, <3>4, TableNow
    <3> QED
      BY <1>1, <3>5
  <2> QED
    BY <1>1, <2>2, <2>3
<1> QED
  BY <1>2, <1>3

\* A call that begins.
LEMMA BeginsPromised ==
  ASSUME NEW t \in Threads, Going(t), Remember, seen[t] = {}
  PROVE  Promise!Begin(t) \/ Promise!BeginBlind(t) \/ (seen' = seen /\ UNCHANGED <<todo, Table, ret>>)
<1> Ongoing(t) /\ Step(t) /\ Typed /\ TypeOK /\ IInv /\ RInv /\ Recalled(t)
  BY DEF Going, Ongoing, IInv, Typed, RInv
<1>1. pc[t] = "retry"
  BY DEF Recalled
<1>2. (AwaitResize(t) \/ BeginGet(t)) /\ todo' = todo /\ ret' = ret /\ array' = array /\ todo[t] # <<>>
  BY <1>1, FromRetry
<1>3. pc'[t] = "pick"
  BY <1>2, Probes
<1>4. ~ MoveEntry(t) /\ ~ Put(t) /\ ~ PutFirst(t) /\ ~ Update(t) /\ ~ Delete(t)
  BY <1>1 DEF MoveEntry, Put, PutFirst, Update, Delete
<1>5. Table' = Table
  BY <1>4, TableStep
<1>6. seen' = [seen EXCEPT ![t] = IF Calling(t, "Get") /\ old'[t] THEN Values \cup {NONE}
                                  ELSE {Table[Key(t)]}]
  <2>1. seen'[t] = IF Calling(t, "Get") /\ old'[t] THEN Values \cup {NONE} ELSE {Table[Key(t)]}
    BY <1>3, <1>5, SeenNext
  <2>2. \A u \in Threads : u # t => seen'[u] = seen[u]
    BY <1>2, <1>4, <1>5, SeenStill
  <2>3. seen' = [u \in Threads |-> seen'[u]]
    BY DEF Remember
  <2> QED
    BY <2>1, <2>2, <2>3 DEF RInv
<1>7. CASE Calling(t, "Get") /\ old'[t]
  BY <1>2, <1>5, <1>6, <1>7 DEF Promise!BeginBlind, Promise!Call, Calling, Call
<1>8. CASE ~ (Calling(t, "Get") /\ old'[t])
  BY <1>2, <1>5, <1>6, <1>8 DEF Promise!Begin, Promise!Call, Key, Call
<1> QED
  BY <1>7, <1>8

\* Each step of the table is one of the promised map, or none.
LEMMA StepPromised ==
  ASSUME NEW t \in Threads, Going(t), Remember, Fresh'
  PROVE  Promise!MovingNext \/ (seen' = seen /\ UNCHANGED <<todo, Table, ret>>)
<1> Ongoing(t) /\ Step(t) /\ Typed /\ TypeOK /\ IInv /\ RInv /\ Recalled(t)
  BY DEF Going, Ongoing, IInv, Typed, RInv
<1> USE DEF Promise!MovingNext, Promise!Next
<1> seen' = [u \in Threads |-> seen'[u]] /\ seen = [u \in Threads |-> seen[u]]
  BY DEF Remember, RInv
<1>1. CASE seen[t] = {}
  BY <1>1, BeginsPromised
<1>2. ASSUME seen[t] # {}
      PROVE  /\ todo[t] # <<>> /\ Key(t) \in Keys /\ Call(t) \in Calls
             /\ todo \in [Threads -> Seq(Calls)] /\ Tail(todo[t]) # todo[t]
             /\ \A name : Promise!Under(t, name) <=> Calling(t, name)
             /\ Calling(t, "Insert") \/ Calling(t, "Update") => Call(t).value \in Values
  <2>1. todo[t] # <<>> /\ todo[t] \in Seq(Calls)
    BY <1>2 DEF Recalled, TypeOK
  <2>2. Len(Tail(todo[t])) # Len(todo[t])
    BY <2>1
  <2>3. \A name : Promise!Under(t, name) <=> Calling(t, name)
    BY <1>2, <2>1 DEF Promise!Under, Promise!Call, Calling, Call
  <2> QED
    BY <2>1, <2>2, <2>3, CallType DEF TypeOK
<1>3. ASSUME NEW r, Return(t, r) PROVE Promise!Return(t, r)
  BY <1>3 DEF Return, Promise!Return
<1>4. ASSUME NEW r, Return(t, r), seen[t] # {}, NEW x \in Values \cup {NONE}, ~ MoveEntry(t),
             Table' = [Table EXCEPT ![Key(t)] = x]
      PROVE  Promise!Set(t, x) /\ Promise!Return(t, r)
  <2>1. todo'[t] # todo[t]
    BY <1>2, <1>4 DEF Return
  <2>2. seen' = [u \in Threads |->
                   IF u = t THEN {}
                   ELSE IF seen[u] # {} /\ Key(u) = Key(t) THEN seen[u] \cup {x}
                   ELSE seen[u]]
    BY <1>2, <1>4, <2>1, SeenSet
  <2> QED
    BY <1>3, <1>4, <2>2 DEF Promise!Set, Promise!Call, Key, Call
<1>5. ASSUME NEW r, Return(t, r), seen[t] # {}, ~ MoveEntry(t), Table' = Table
      PROVE  Promise!Answer(t, r)
  <2>1. todo'[t] # todo[t]
    BY <1>2, <1>5 DEF Return
  <2>2. seen'[t] = {}
    BY <2>1, SeenNext
  <2>3. \A u \in Threads : u # t => seen'[u] = seen[u]
    <3>1. \A u \in Threads : u # t => todo'[u] = todo[u]
      BY Others
    <3> QED
      BY <1>5, <3>1, SeenStill
  <2>4. seen' = [seen EXCEPT ![t] = {}]
    BY <2>2, <2>3
  <2> QED
    BY <1>3, <1>5, <2>4 DEF Promise!Answer
<1>6. CASE seen[t] # {} /\ (Put(t) \/ PutFirst(t))
  <2>1. Calling(t, "Insert") /\ ~ MoveEntry(t)
    BY <1>6, CallsShrink DEF Put, PutFirst, MoveEntry
  <2>2. Return(t, NONE)
    BY <1>6 DEF Put, PutFirst
  <2>3. Table' = [Table EXCEPT ![Key(t)] = Call(t).value]
    BY <1>6, TableStep
  <2>4. Promise!Set(t, Call(t).value) /\ Promise!Return(t, NONE)
    BY <1>2, <1>4, <1>6, <2>1, <2>2, <2>3
  <2>5. Promise!Insert(t)
    BY <1>2, <1>6, <2>1, <2>4 DEF Promise!Insert, Promise!Call, Call
  <2> QED
    BY <2>5
<1>7. CASE seen[t] # {} /\ Update(t)
  <2>1. Calling(t, "Update") /\ ~ MoveEntry(t) /\ Return(t, TRUE)
    BY <1>7 DEF Update, MoveEntry
  <2>2. Table' = [Table EXCEPT ![Key(t)] = Call(t).value] /\ Table[Key(t)] # NONE
    BY <1>7, TableStep
  <2>3. Promise!Set(t, Call(t).value) /\ Promise!Return(t, TRUE)
    BY <1>2, <1>4, <1>7, <2>1, <2>2
  <2>4. Promise!Update(t)
    BY <1>2, <1>7, <2>1, <2>2, <2>3 DEF Promise!Update, Promise!Call, Call, Key
  <2> QED
    BY <2>4
<1>8. CASE seen[t] # {} /\ Delete(t)
  <2>1. Calling(t, "Delete") /\ ~ MoveEntry(t) /\ Return(t, TRUE)
    BY <1>8 DEF Delete, MoveEntry
  <2>2. Table' = [Table EXCEPT ![Key(t)] = NONE] /\ Table[Key(t)] # NONE
    BY <1>8, TableStep
  <2>3. Promise!Set(t, NONE) /\ Promise!Return(t, TRUE)
    BY <1>4, <1>8, <2>1, <2>2
  <2>4. Promise!Delete(t)
    BY <1>2, <1>8, <2>1, <2>2, <2>3 DEF Promise!Delete, Promise!Call, Call, Key
  <2> QED
    BY <2>4
<1>9. CASE seen[t] # {} /\ MoveEntry(t)
  <2>1. PICK k \in Keys : Moved = {k}
    BY <1>9, WhatMoves
  <2>2. Table' = Table
    <3>1. ~ (Put(t) \/ PutFirst(t) \/ Update(t) \/ Delete(t))
      BY <1>9 DEF MoveEntry, Put, PutFirst, Update, Delete
    <3> QED
      BY <3>1, TableStep
  <2>3. todo' = todo /\ ret' = ret
    BY <1>9 DEF MoveEntry, callVars
  <2>4. ASSUME NEW u \in Threads
        PROVE  seen'[u] = IF seen[u] # {} /\ Key(u) = k THEN seen[u] \cup {NONE} ELSE seen[u]
    <3> Recalled(u)
      BY DEF RInv
    <3>1. CASE seen[u] = {}
      BY <1>9, <3>1, SeenNext
    <3>2. CASE seen[u] # {}
      <4>1. /\ Table[Key(u)] \in seen[u]
            /\ seen'[u] = IF Blind(u) THEN seen[u]
                          ELSE seen[u] \cup {Table'[Key(u)]} \cup (IF Key(u) \in Moved THEN {NONE} ELSE {})
        BY <2>3, <3>2, SeenNext
      <4>2. Blind(u) => NONE \in seen[u]
        BY <3>2 DEF Recalled
      <4>3. Key(u) \in Moved <=> Key(u) = k
        BY <2>1
      <4>4. Table'[Key(u)] = Table[Key(u)]
        BY <2>2
      <4> QED
        BY <3>2, <4>1, <4>2, <4>3, <4>4
    <3> QED
      BY <3>1, <3>2
  <2>5. seen' = [u \in Threads |-> IF seen[u] # {} /\ Key(u) = k THEN seen[u] \cup {NONE} ELSE seen[u]]
    BY <2>4
  <2>6. Promise!Move(k)
    BY <2>2, <2>3, <2>5 DEF Promise!Move, Promise!Call, Key, Call
  <2> QED
    BY <2>6
<1>10. CASE seen[t] # {} /\ GetHit(t)
  <2>1. /\ pc[t] = "look" /\ Calling(t, "Get") /\ array' = array
        /\ \E p \in Read(TableOf(t), Slot(t)) : Wanted(t, p) /\ Return(t, p.value)
    BY <1>10 DEF GetHit
  <2>2. PICK p \in Read(TableOf(t), Slot(t)) : Wanted(t, p) /\ Return(t, p.value)
    BY <2>1
  <2>3. p.value \in seen[t]
    BY <2>1, <2>2, SeenAnswer
  <2>4. ~ MoveEntry(t) /\ Table' = Table
    BY <2>1, TableStep DEF MoveEntry, Put, PutFirst, Update, Delete
  <2>5. Promise!Answer(t, p.value)
    BY <1>5, <1>10, <2>2, <2>4
  <2>6. Promise!Get(t)
    BY <1>2, <1>10, <2>1, <2>3, <2>5 DEF Promise!Get
  <2> QED
    BY <2>6
<1>11. CASE seen[t] # {} /\ LookMiss(t) /\ ~ Calling(t, "Insert")
  <2>1. /\ pc[t] = "look" /\ n[t] = 2 /\ \E p \in Read(TableOf(t), Slot(t)) : ~ Wanted(t, p)
        /\ Return(t, IF Calling(t, "Get") THEN NONE ELSE FALSE)
    <3>1. CASE Calling(t, "Get")
      BY <1>11, <3>1 DEF LookMiss
    <3>2. CASE ~ Calling(t, "Get")
      BY <1>11, <3>2 DEF LookMiss
    <3> QED
      BY <3>1, <3>2
  <2>2. NONE \in seen[t]
    BY <1>11, <2>1, SeenAnswer
  <2>3. ~ MoveEntry(t) /\ Table' = Table
    BY <2>1, TableStep DEF MoveEntry, Put, PutFirst, Update, Delete
  <2>4. Promise!Answer(t, IF Calling(t, "Get") THEN NONE ELSE FALSE)
    BY <1>5, <1>11, <2>1, <2>3
  <2>5. Calling(t, "Get") \/ Calling(t, "Update") \/ Calling(t, "Delete")
    BY <1>2, <1>11 DEF Calls, Calling
  <2>6. CASE Calling(t, "Get")
    <3>1. Promise!Get(t)
      BY <1>2, <1>11, <2>2, <2>4, <2>6 DEF Promise!Get
    <3> QED
      BY <3>1
  <2>7. CASE ~ Calling(t, "Get")
    <3>1. Promise!Update(t) \/ Promise!Delete(t)
      BY <1>2, <1>11, <2>2, <2>4, <2>5, <2>7 DEF Promise!Update, Promise!Delete
    <3> QED
      BY <3>1
  <2> QED
    BY <2>6, <2>7
<1>12. CASE /\ seen[t] # {} /\ ~ MoveEntry(t) /\ UNCHANGED <<todo, ret>>
            /\ ~ (Put(t) \/ PutFirst(t) \/ Update(t) \/ Delete(t))
  <2>1. Table' = Table
    BY <1>12, TableStep
  <2>2. \A u \in Threads : seen'[u] = seen[u]
    BY <1>12, <2>1, SeenStill
  <2> QED
    BY <1>12, <2>1, <2>2
<1> QED
  BY <1>1, <1>6, <1>7, <1>8, <1>9, <1>10, <1>11, <1>12, Returns

\* An empty table is an empty map, and nobody has called yet.
LEMMA InitPromised == SInit => Promise!Init
<1> SUFFICES ASSUME SInit PROVE Promise!Init
  OBVIOUS
<1> Init
  BY DEF SInit
<1>1. ~ Refilling
  BY DEF Init, Refilling
<1>2. ASSUME NEW k \in Keys PROVE Table[k] = NONE
  <2>1. \A x \in Places(k, capacity) : array[table][x] = INVALID
    <3>1. InitCapacity \in Nat /\ InitCapacity >= 1 /\ capacity = InitCapacity
      BY Bounds DEF Init
    <3>2. Places(k, capacity) \subseteq Slots(capacity)
      BY <3>1, PlacesType DEF Places
    <3> QED
      BY <3>1, <3>2 DEF Init, Empty, Slots
  <2>2. Found(k) = {}
    BY <1>1, <2>1 DEF Found, Holds
  <2> QED
    BY <2>2 DEF Table
<1>3. Table = [k \in Keys |-> NONE]
  BY <1>2 DEF Table
<1> QED
  BY <1>3 DEF Init, SInit, Promise!Init

\* A table that is the first after the step was so before.
LEMMA FreshEarlier ==
  ASSUME IInv, FInv, [SNext]_<<vars, seen>>, Fresh'
  PROVE  Fresh
<1>1. CASE UNCHANGED vars
  BY <1>1 DEF vars, fieldVars, Fresh
<1>2. CASE ~ UNCHANGED vars
  <2>1. PICK t \in Threads : Step(t)
    BY <1>2 DEF SNext, Next, Terminated
  <2> QED
    BY <2>1, FreshBefore DEF FInv
<1> QED
  BY <1>1, <1>2

\* Stuttering included.
LEMMA Simulates ==
  ASSUME IInv, FInv, Fresh, Fresh', RInv, [SNext]_<<vars, seen>>, [DeletesApart]_vars
  PROVE  [Promise!MovingNext]_(Promise!vars)
<1>1. CASE UNCHANGED <<vars, seen>>
  <2>1. Table' = Table
    BY <1>1 DEF vars, fieldVars, Table, Found, Refilling
  <2> QED
    BY <1>1, <2>1 DEF vars, callVars, Promise!vars
<1>2. CASE Remember /\ \E t \in Threads : Going(t)
  BY <1>2, StepPromised DEF Promise!vars
<1> QED
  BY <1>1, <1>2, SStep

\* The history is only added.
LEMMA Remembered == SSpec => Spec
<1>1. SInit => Init
  BY DEF SInit
<1>2. [SNext]_<<vars, seen>> => [Next]_vars
  BY DEF SNext
<1> QED
  BY <1>1, <1>2, PTL DEF SSpec, Spec

\* Insert, Update, Get and Delete (cuckoo_hash.h, lines 100-402) up to the first resize:
\* whatever threads do at a time, and however keys are moved meanwhile, each step of the
\* table is one of the promised map, if no Delete takes effect while a thread searches.
THEOREM FirstTableSteps ==
  SSpec /\ [][DeletesApart]_vars
  => Promise!Init /\ [][Fresh' => Promise!MovingNext]_(Promise!vars)
<1>1. IInv /\ FInv /\ (Fresh => RInv) /\ [SNext]_<<vars, seen>> /\ [DeletesApart]_vars
      => (Fresh => RInv)'
  BY RStep, FreshEarlier
<1>2. IInv /\ FInv /\ (Fresh => RInv) /\ [SNext]_<<vars, seen>> /\ [DeletesApart]_vars
      => [Fresh' => Promise!MovingNext]_(Promise!vars)
  BY Simulates, FreshEarlier
<1>3. SInit => (Fresh => RInv)
  BY InitRInv
<1>4. SSpec /\ [][DeletesApart]_vars => [](Fresh => RInv)
  BY <1>1, <1>3, Remembered, Inductive, FirstTable, PTL DEF SSpec
<1> QED
  BY <1>2, <1>4, InitPromised, Remembered, Inductive, FirstTable, PTL DEF SSpec

\* So a table that is never replaced is the promised map, and
THEOREM FirstTableIsAMap == SSpec /\ [][DeletesApart]_vars /\ []Fresh => ImplementsMoving
<1>1. [Fresh' => Promise!MovingNext]_(Promise!vars) /\ Fresh' => [Promise!MovingNext]_(Promise!vars)
  OBVIOUS
<1> QED
  BY <1>1, FirstTableSteps, PTL DEF ImplementsMoving, Promise!MovingSpec

\* where nothing is deleted nothing else is asked of a behaviour.
THEOREM UndeletedTableIsAMap ==
  ASSUME \A w \in Workloads : DeletesNothing(w)
  PROVE  SSpec /\ []Fresh => ImplementsMoving
BY NothingIsDeleted, Remembered, FirstTableIsAMap, PTL

-----------------------------------------------------------------------------
(* Calls that do not overlap, through any number of resizes.               *)

\* No two calls overlap.
OneAtATime == \A t, u \in Threads : pc[t] # "retry" /\ pc[u] # "retry" => t = u

\* The steps in which a new table is filled; the old one is what counts.
Filling == {"grow", "allocate", "refill"}

\* The capacity of the table that counts.
Cap == IF Refilling THEN old_cap ELSE capacity

\* The steps of a call that has chosen its places, before a resize.
Placed == Looking \cup {"aim", "lock", "look", "write", "cas", "lock_path", "check", "move"}

\* The slots of a path.
SlotsOf(p) == [j \in DOMAIN p |-> p[j].slot]

\* The table d can make room for the key of t's call along p, unless there is no p.
Leading(d, t, p) ==
  p # <<>> => IsPath(d, capacity, SlotsOf(p)) /\ p[1].slot \in Places(Key(t), capacity)

\* A search has come along the walk from its place, without having met a free slot before
\* the last one.
Came(d, t) ==
  LET at == Walk(d, capacity, Slot(t)) IN
  /\ Len(path[t]) \in 1..kCuckooThreshold
  /\ \A j \in 1..Len(path[t]) : path[t][j].slot = at[j-1]
  /\ \A j \in 1..(Len(path[t])-1) : d[at[j-1]] # INVALID

\* From the end of its path to i, t has moved the keys of d.
Moving(d, t) ==
  LET p == SlotsOf(path[t]) IN
  /\ path[t] # <<>> /\ Leading(d, t, path[t]) /\ i[t] \in 1..Len(path[t])
  /\ \A j \in (i[t]+1)..Len(path[t]) : array[table][p[j]] = d[p[j-1]]
  /\ \A x \in Slots(capacity) :
       (\A j \in (i[t]+1)..Len(path[t]) : x # p[j]) => array[table][x] = d[x]

\* The new table has the pairs of the slots of d before i.
Refilled(d, t) ==
  /\ old_tab # table /\ i[t] \in 0..old_cap /\ Sound(array[table], capacity)
  /\ PairsOf(array[table]) = {d[x] : x \in 0..(i[t]-1)} \ {INVALID}

\* What a thread knows of d.
Knows(d, t) ==
  /\ Calling(t, "Insert") /\ pc[t] \in Placed =>
       places[t] = <<f_idx(Key(t), capacity), s_idx(Key(t), capacity)>>
  /\ pc[t] = "write" => from[t] = table /\ (Calling(t, "Insert") => d[Slot(t)] = INVALID)
  /\ pc[t] \in Walking => Came(d, t)
  /\ pc[t] \in {"hash1", "hash2", "push"} => d[Cur(t)] # INVALID
  /\ pc[t] = "hash2" => hash[t] = f_idx(d[Cur(t)].key, capacity)
  /\ pc[t] = "push" => hash[t] = Follow(d, Cur(t), capacity)
  /\ pc[t] \in Looking /\ n[t] = 2 => Leading(d, t, path1[t])
  /\ pc[t] = "choose" => n[t] = 2
  /\ pc[t] \in {"choose", "lock_path", "check"} => Leading(d, t, path[t])
  /\ pc[t] \in {"lock_path", "check"} => path[t] # <<>>
  /\ pc[t] = "move" => Moving(d, t)
  /\ pc[t] = "refill" => Refilled(d, t)

\* d is the table that counts, and the one in use when it is not being changed.
Counts(d) ==
  /\ Sound(d, Cap)
  /\ \A t \in Threads : \A m \in Inserted(todo, t) : todo[t][m].key \notin KeysOf(d)
  /\ (\A t \in Threads : pc[t] \notin {"move"} \cup Filling) => array[table] = d
  /\ \A t \in Threads : pc[t] \in Filling => array[old_tab] = d

\* One table counts, and every thread knows what its step needs of it.
SInv == Newest /\ FreshInserts(todo) /\ \E d : Counts(d) /\ \A t \in Threads : Knows(d, t)

\* A thread that does nothing knows nothing.
LEMMA IdleKnows == ASSUME NEW d, NEW t, pc[t] = "retry" PROVE Knows(d, t)
BY DEF Knows, Placed, Walking, Looking

\* Nor after a step that ends its call.
LEMMA IdleWillKnow == ASSUME NEW d, NEW t, pc'[t] = "retry" PROVE Knows(d, t)'
BY DEF Knows, Placed, Walking, Looking

\* t alone is at work on the table d.
Working(d, t) ==
  /\ IInv /\ Newest /\ FreshInserts(todo) /\ Counts(d) /\ Knows(d, t) /\ Step(t)
  /\ \A u \in Threads : u # t => pc[u] = "retry" /\ pc'[u] = "retry"

\* If calls do not overlap, before a step and after it, the others do nothing.
LEMMA AloneAtWork ==
  ASSUME IInv, OneAtATime, OneAtATime', NEW t \in Threads, Step(t), NEW u \in Threads, u # t
  PROVE  pc[u] = "retry" /\ pc'[u] = "retry"
<1> TypeOK
  BY DEF IInv, Typed
<1>1. pc'[u] = pc[u]
  BY Others
<1>2. pc[t] = "retry" => pc'[t] = "pick"
  BY DEF Step, Look, Displace, Resize, AwaitResize, PickPlaces, BeginGet, PickPlace, DivideByZero,
         Aim, LockPlace, ReadNothing, LookHit, GetHit, LookOn, LookMiss, Put, Update, Delete,
         TryCuckoo, BeginPath, TestKey, HashFirst, HashSecond, PushSlot, ChoosePath, LockPath,
         PathLocked, CheckEntry, Checked, MoveEntry, PutFirst, SaveCapacity, SaveTable, LockAll,
         Grow, Allocate, Reinsert, UnlockAll, SetMutex, EndResize, Goto, TypeOK
<1>3. CASE pc[t] = "retry"
  BY <1>1, <1>2, <1>3 DEF OneAtATime
<1>4. CASE pc[t] # "retry"
  BY <1>1, <1>4 DEF OneAtATime
<1> QED
  BY <1>3, <1>4

\* What there is before a step.
LEMMA AtWork ==
  ASSUME NEW d, NEW t \in Threads, Working(d, t)
  PROVE  /\ TypeOK /\ capacity \in Nat /\ capacity >= 1 /\ capacity \in 1..MaxCapacity
         /\ table \in 1..Len(array) /\ table = Len(array) /\ Len(array) \in Nat
         /\ Cap \in Nat /\ Cap >= 1 /\ Sound(d, Cap)
         /\ d \in Tables(Cap) /\ DOMAIN d = Slots(Cap)
         /\ \A x \in Slots(Cap) : d[x] \in Pair \cup {INVALID} /\ (d[x] # INVALID => d[x].key \in Keys)
         /\ pc[t] \notin {"move"} \cup Filling => array[table] = d
         /\ pc[t] \notin Filling => Cap = capacity
         /\ pc[t] \in Filling =>
              /\ Cap = old_cap /\ array[old_tab] = d /\ old_tab \in 1..Len(array)
         /\ pc[t] \notin {"allocate"} => DOMAIN array[table] = Slots(capacity)
<1> TypeOK /\ Sized /\ array \in Seq(Arrays) /\ Newest /\ Counts(d)
  BY DEF Working, IInv, Typed
<1>1. capacity \in Nat /\ capacity >= 1 /\ capacity \in 1..MaxCapacity
  BY Bounds DEF TypeOK
<1>2. table \in 1..Len(array) /\ table = Len(array) /\ Len(array) \in Nat
  BY ArrayType DEF TypeOK, Newest
<1>3. Refilling <=> pc[t] \in Filling
  BY DEF Refilling, Filling, Working
<1>4. pc[t] \in Filling => old_cap \in Nat /\ old_cap >= 1 /\ old_tab \in 1..Len(array)
  <2>1. pc[t] \in Filling => old_tab # 0 /\ old_cap # 0
    BY DEF Sized, Filling
  <2>2. old_cap \in 0..MaxCapacity /\ old_tab \in 0..Len(array) /\ Len(array) \in Nat
    BY <1>2 DEF TypeOK
  <2> QED
    BY <2>1, <2>2, Bounds
<1>5. Cap \in Nat /\ Cap >= 1
  BY <1>1, <1>3, <1>4 DEF Cap
<1>6. Sound(d, Cap) /\ d \in Tables(Cap)
  BY DEF Counts, Sound
<1>7. DOMAIN d = Slots(Cap) /\ \A x \in Slots(Cap) : d[x] \in Pair \cup {INVALID}
  BY <1>6 DEF Tables, Slots
<1>8. \A x \in Slots(Cap) : d[x] # INVALID => d[x].key \in Keys
  BY <1>7 DEF Pair
<1>9. pc[t] \notin {"move"} \cup Filling => array[table] = d
  <2> SUFFICES ASSUME pc[t] \notin {"move"} \cup Filling PROVE array[table] = d
    OBVIOUS
  <2>1. \A u \in Threads : pc[u] \notin {"move"} \cup Filling
    BY DEF Working, Filling
  <2> QED
    BY <2>1 DEF Counts
<1>10. pc[t] \notin Filling => Cap = capacity
  BY <1>3 DEF Cap
<1>11. pc[t] \in Filling => Cap = old_cap /\ array[old_tab] = d
  BY <1>3 DEF Cap, Counts
<1>12. pc[t] \notin {"allocate"} => DOMAIN array[table] = Slots(capacity)
  <2> SUFFICES ASSUME pc[t] # "allocate" PROVE DOMAIN array[table] = Slots(capacity)
    OBVIOUS
  <2>1. \A u \in Threads : pc[u] # "allocate"
    BY DEF Working
  <2> QED
    BY <2>1 DEF Sized, Slots
<1> QED
  BY <1>1, <1>2, <1>4, <1>5, <1>6, <1>7, <1>8, <1>9, <1>10, <1>11, <1>12

\* No key comes to be inserted twice.
LEMMA FreshInsertsStep ==
  ASSUME Typed, FreshInserts(todo), NEW t \in Threads, Step(t)
  PROVE  FreshInserts(todo')
<1> SUFFICES ASSUME NEW u \in Threads, NEW w \in Threads,
                    NEW x \in Inserted(todo', u), NEW y \in Inserted(todo', w),
                    todo'[u][x].key = todo'[w][y].key
             PROVE  u = w /\ x = y
  BY DEF FreshInserts
<1>1. PICK m \in Inserted(todo, u) :
        /\ todo[u][m] = todo'[u][x] /\ x \in Nat
        /\ m = IF todo'[u] = todo[u] THEN x ELSE x + 1
  BY InsertedBefore
<1>2. PICK l \in Inserted(todo, w) :
        /\ todo[w][l] = todo'[w][y] /\ y \in Nat
        /\ l = IF todo'[w] = todo[w] THEN y ELSE y + 1
  BY InsertedBefore
<1>3. u = w /\ m = l
  BY <1>1, <1>2 DEF FreshInserts
<1> QED
  BY <1>1, <1>2, <1>3

\* What becomes of the table that counts, if it stays what it is.
LEMMA CountsStill ==
  ASSUME NEW d, NEW t \in Threads, Working(d, t), ~ Put(t), ~ PutFirst(t),
         NEW e, KeysOf(e) \subseteq KeysOf(d), Sound(e, Cap'),
         pc'[t] \notin {"move"} \cup Filling => array'[table'] = e,
         pc'[t] \in Filling => array'[old_tab'] = e
  PROVE  Counts(e)'
<1> Typed
  BY DEF Working, IInv
<1>1. ASSUME NEW u \in Threads, NEW j \in Inserted(todo', u)
      PROVE  todo'[u][j].key \notin KeysOf(e)
  <2>1. PICK m \in Inserted(todo, u) : todo[u][m] = todo'[u][j]
    BY InsertedBefore DEF Working
  <2>2. todo[u][m].key \notin KeysOf(d)
    BY DEF Working, Counts
  <2> QED
    BY <2>1, <2>2
<1>2. \A u \in Threads : pc'[u] \in Filling => u = t
  BY DEF Working, Filling
<1>3. (\A u \in Threads : pc'[u] \notin {"move"} \cup Filling) => array'[table'] = e
  OBVIOUS
<1> QED
  BY <1>1, <1>2, <1>3 DEF Counts

\* ... not by a step that changes no table.
LEMMA StaysAsIs ==
  ASSUME NEW d, NEW t \in Threads, Working(d, t), ~ Put(t), ~ PutFirst(t),
         pc[t] \notin {"move"} \cup Filling, pc'[t] \notin Filling,
         array' = array, table' = table, capacity' = capacity
  PROVE  Counts(d)'
<1>1. array[table] = d /\ Cap = capacity /\ Sound(d, capacity)
  BY AtWork
<1>2. ~ Refilling'
  BY DEF Refilling, Filling, Working
<1>3. Cap' = capacity
  BY <1>2 DEF Cap
<1> QED
  BY <1>1, <1>3, CountsStill

\* A call that looks at its places, one after the other.
LEMMA LookKnows ==
  ASSUME NEW d, NEW t \in Threads, Working(d, t),
         pc[t] \in {"retry", "pick", "aim", "lock", "look", "cas"}
  PROVE  Counts(d)' /\ Knows(d, t)'
<1> Typed /\ TypeOK /\ Step(t) /\ Knows(d, t) /\ pc[t] \notin {"move"} \cup Filling
  BY DEF Working, IInv, Typed, Filling
<1>1. array[table] = d /\ table \in Nat /\ DOMAIN d = Slots(capacity) /\ capacity \in Nat /\ capacity >= 1
      /\ table # 0 /\ DOMAIN array[table] = Slots(capacity)
  BY AtWork DEF Filling
<1>2. /\ array' = array /\ table' = table /\ capacity' = capacity
      /\ pc'[t] \in {"retry", "pick", "aim", "lock", "look", "write", "cas", "path"}
      /\ pc'[t] # "retry" => todo' = todo
      /\ AwaitResize(t) \/ PickPlaces(t) \/ BeginGet(t) \/ PickPlace(t) \/ DivideByZero(t)
         \/ Aim(t) \/ LockPlace(t) \/ ReadNothing(t) \/ LookHit(t) \/ GetHit(t) \/ LookOn(t)
         \/ LookMiss(t) \/ TryCuckoo(t)
  <2> USE DEF Goto, Return, TypeOK, fieldVars, callVars
  <2>1. CASE AwaitResize(t) \/ PickPlaces(t) \/ BeginGet(t) \/ PickPlace(t) \/ DivideByZero(t)
    BY <2>1 DEF AwaitResize, PickPlaces, BeginGet, PickPlace, DivideByZero
  <2>2. CASE Aim(t) \/ LockPlace(t) \/ ReadNothing(t) \/ LookHit(t) \/ GetHit(t)
    BY <2>2 DEF Aim, LockPlace, ReadNothing, LookHit, GetHit
  <2>3. CASE LookOn(t) \/ LookMiss(t) \/ TryCuckoo(t)
    BY <2>3 DEF LookOn, LookMiss, TryCuckoo
  <2> QED
    BY <2>1, <2>2, <2>3 DEF Step, Look, Displace, Resize, Put, Update, Delete,
         BeginPath, TestKey, HashFirst, HashSecond, PushSlot, ChoosePath, LockPath,
         PathLocked, CheckEntry, Checked, MoveEntry, PutFirst, SaveCapacity, SaveTable, LockAll,
         Grow, Allocate, Reinsert, UnlockAll, SetMutex, EndResize
<1>3. Counts(d)'
  <2>1. pc'[t] \notin Filling /\ ~ Put(t) /\ ~ PutFirst(t)
    BY <1>2 DEF Filling, Put, PutFirst
  <2> QED
    BY <1>2, <2>1, StaysAsIs
<1>4. pc'[t] \in Placed /\ Calling(t, "Insert") =>
        places'[t] = <<f_idx(Key(t), capacity), s_idx(Key(t), capacity)>>
  <2>1. CASE PickPlaces(t)
    BY <2>1 DEF PickPlaces, TypeOK
  <2>2. CASE AwaitResize(t) \/ BeginGet(t) \/ PickPlace(t) \/ DivideByZero(t)
    BY <2>2 DEF AwaitResize, BeginGet, PickPlace, DivideByZero, Calling, Goto, TypeOK, Placed, Looking, Walking
  <2>3. CASE Aim(t) \/ LockPlace(t) \/ ReadNothing(t) \/ LookHit(t) \/ GetHit(t)
    BY <2>3 DEF Aim, LockPlace, ReadNothing, LookHit, GetHit, Knows, Placed, probeVars
  <2>4. CASE LookOn(t) \/ LookMiss(t) \/ TryCuckoo(t)
    BY <2>4 DEF LookOn, LookMiss, TryCuckoo, Knows, Placed, probeVars
  <2> QED
    BY <1>2, <2>1, <2>2, <2>3, <2>4
<1>5. pc'[t] = "write" => from'[t] = table /\ (Calling(t, "Insert") => d[Slot(t)] = INVALID)
                           /\ places' = places /\ n' = n
  <2> SUFFICES ASSUME pc'[t] = "write" PROVE from'[t] = table /\ (Calling(t, "Insert") => d[Slot(t)] = INVALID)
                           /\ places' = places /\ n' = n
    OBVIOUS
  <2>1. LookHit(t)
    <3> USE DEF Goto, Return, TypeOK
    <3>1. ~ (AwaitResize(t) \/ PickPlaces(t) \/ BeginGet(t) \/ PickPlace(t) \/ DivideByZero(t))
      BY DEF AwaitResize, PickPlaces, BeginGet, PickPlace, DivideByZero
    <3>2. ~ (Aim(t) \/ LockPlace(t) \/ ReadNothing(t) \/ GetHit(t))
      BY DEF Aim, LockPlace, ReadNothing, GetHit
    <3>3. ~ (LookOn(t) \/ LookMiss(t) \/ TryCuckoo(t))
      BY DEF LookOn, LookMiss, TryCuckoo
    <3> QED
      BY <1>2, <3>1, <3>2, <3>3
  <2>2. from'[t] = table /\ places' = places /\ n' = n /\ pc[t] = "look"
    BY <2>1 DEF LookHit, TypeOK
  <2>3. ASSUME Calling(t, "Insert") PROVE d[Slot(t)] = INVALID
    <3>1. places[t] = <<f_idx(Key(t), capacity), s_idx(Key(t), capacity)>> /\ Key(t) \in Keys
      BY <2>2, <2>3, CallType DEF Knows, Placed, Calling
    <3>2. f_idx(Key(t), capacity) \in Slots(capacity) /\ s_idx(Key(t), capacity) \in Slots(capacity)
      BY <1>1, <3>1, PlacesType
    <3>3. n[t] \in {1, 2}
      BY DEF TypeOK
    <3>4. Slot(t) \in Slots(capacity)
      BY <3>1, <3>2, <3>3 DEF Slot
    <3>5. Read(table, Slot(t)) = {d[Slot(t)]}
      BY <1>1, <3>4 DEF Read
    <3> QED
      BY <2>1, <2>3, <3>5 DEF LookHit, Wanted
  <2> QED
    BY <2>2, <2>3
<1>6. pc'[t] = "path" => n'[t] = 1
  <2>1. CASE TryCuckoo(t)
    BY <2>1 DEF TryCuckoo, TypeOK, Goto
  <2>2. CASE LookOn(t) \/ LookMiss(t)
    BY <2>2 DEF LookOn, LookMiss, TypeOK, Goto, Return
  <2> USE DEF Goto, Return, TypeOK
  <2>3. CASE AwaitResize(t) \/ PickPlaces(t) \/ BeginGet(t) \/ PickPlace(t) \/ DivideByZero(t)
    BY <2>3 DEF AwaitResize, PickPlaces, BeginGet, PickPlace, DivideByZero
  <2>4. CASE Aim(t) \/ LockPlace(t) \/ ReadNothing(t) \/ LookHit(t) \/ GetHit(t)
    BY <2>4 DEF Aim, LockPlace, ReadNothing, LookHit, GetHit
  <2> QED
    BY <1>2, <2>1, <2>2, <2>3, <2>4
<1>7. Knows(d, t)'
  <2>1. CASE pc'[t] = "retry"
    BY <2>1, IdleWillKnow
  <2>2. CASE pc'[t] # "retry"
    <3>1. todo' = todo /\ capacity' = capacity /\ table' = table
      BY <1>2, <2>2
    <3>2. Calling(t, "Insert")' = Calling(t, "Insert") /\ Key(t)' = Key(t)
      BY <3>1 DEF Calling, Key, Call
    <3>3. (Calling(t, "Insert") /\ pc[t] \in Placed =>
             places[t] = <<f_idx(Key(t), capacity), s_idx(Key(t), capacity)>>)'
      BY <1>4, <3>1, <3>2
    <3>4. (pc[t] = "write" => from[t] = table /\ (Calling(t, "Insert") => d[Slot(t)] = INVALID))'
      BY <1>5, <3>1, <3>2 DEF Slot
    <3> QED
      BY <1>2, <1>6, <3>3, <3>4 DEF Knows, Walking, Looking
  <2> QED
    BY <2>1, <2>2
<1> QED
  BY <1>3, <1>7

\* Where a search has come to.
LEMMA AtCur ==
  ASSUME NEW d, NEW t \in Threads, Working(d, t), pc[t] \in Looking
  PROVE  /\ Calling(t, "Insert") /\ Key(t) \in Keys
         /\ capacity \in Nat /\ capacity >= 1 /\ d \in Tables(capacity)
         /\ Slot(t) \in Slots(capacity) /\ Slot(t) \in Places(Key(t), capacity)
         /\ path[t] \in Seq(Entries) /\ Len(path[t]) \in Nat
         /\ \A x \in Slots(capacity) : ReadKey(x) = {KeyOf(d[x])} /\ d[x] \in Pair \cup {INVALID}
         /\ pc[t] \in Walking =>
              /\ Len(path[t]) >= 1 /\ Len(path[t]) <= kCuckooThreshold
              /\ Cur(t) = Walk(d, capacity, Slot(t))[Len(path[t])-1] /\ Cur(t) \in Slots(capacity)
<1> Typed /\ TypeOK /\ Knows(d, t)
  BY DEF Working, IInv, Typed
<1> pc[t] \in Placed /\ pc[t] \in Making /\ pc[t] \notin {"move", "allocate"} \cup Filling
  BY DEF Placed, Making, Holding, Looking, Walking, Filling
<1>1. /\ capacity \in Nat /\ capacity >= 1 /\ array[table] = d /\ d \in Tables(capacity)
      /\ DOMAIN d = Slots(capacity) /\ table # 0
      /\ \A x \in Slots(capacity) : d[x] \in Pair \cup {INVALID}
  BY AtWork
<1>2. Calling(t, "Insert") /\ Key(t) \in Keys
  BY CallType DEF Typed, Calling
<1>3. places[t] = <<f_idx(Key(t), capacity), s_idx(Key(t), capacity)>> /\ n[t] \in {1, 2}
  BY <1>2 DEF Knows, TypeOK
<1>4. f_idx(Key(t), capacity) \in Slots(capacity) /\ s_idx(Key(t), capacity) \in Slots(capacity)
  BY <1>1, <1>2, PlacesType
<1>5. Slot(t) \in Slots(capacity) /\ Slot(t) \in Places(Key(t), capacity)
  BY <1>3, <1>4 DEF Slot, Places
<1>6. path[t] \in Seq(Entries) /\ Len(path[t]) \in Nat
  BY DEF TypeOK
<1>7. ASSUME NEW x \in Slots(capacity) PROVE ReadKey(x) = {KeyOf(d[x])}
  BY <1>1 DEF ReadKey, Read
<1>8. ASSUME pc[t] \in Walking
      PROVE  /\ Len(path[t]) >= 1 /\ Len(path[t]) <= kCuckooThreshold
             /\ Cur(t) = Walk(d, capacity, Slot(t))[Len(path[t])-1] /\ Cur(t) \in Slots(capacity)
  <2>1. Came(d, t) /\ Len(path[t]) \in 1..kCuckooThreshold /\ kCuckooThreshold \in Nat
    BY <1>8, Bounds DEF Knows, Came
  <2>2. Cur(t) = Walk(d, capacity, Slot(t))[Len(path[t])-1]
    BY <2>1 DEF Came, Cur
  <2>3. Len(path[t])-1 \in 0..kCuckooThreshold
    BY <2>1
  <2>4. Walk(d, capacity, Slot(t)) \in [0..kCuckooThreshold -> Slots(capacity)]
    BY <1>1, <1>5, WalkLemma
  <2> QED
    BY <2>1, <2>2, <2>3, <2>4
<1> QED
  BY <1>1, <1>2, <1>5, <1>6, <1>7, <1>8

\* A walk that has come to a free slot is the path that find_path returns.
LEMMA FoundLeads ==
  ASSUME NEW d, NEW t \in Threads, Working(d, t), pc[t] = "test", d[Cur(t)] = INVALID
  PROVE  Leading(d, t, path[t])
<1> DEFINE at == Walk(d, capacity, Slot(t))
           K == kCuckooThreshold
           L == Len(path[t])
           ends == Ends(d, at)
<1> pc[t] \in Walking /\ pc[t] \in Looking
  BY DEF Walking, Looking
<1>1. /\ capacity \in Nat /\ capacity >= 1 /\ d \in Tables(capacity)
      /\ Slot(t) \in Slots(capacity) /\ Slot(t) \in Places(Key(t), capacity)
      /\ L \in Nat /\ L >= 1 /\ L <= K /\ Cur(t) = at[L-1] /\ K \in Nat
      /\ path[t] \in Seq(Entries)
  BY AtCur, Bounds
<1>2. /\ \A j \in 1..L : path[t][j].slot = at[j-1]
      /\ \A j \in 1..(L-1) : d[at[j-1]] # INVALID
  BY DEF Working, Knows, Came
<1> HIDE DEF at
<1>3. L-1 \in ends
  BY <1>1 DEF Ends
<1>4. ASSUME NEW m \in ends PROVE L-1 <= m
  <2>1. m \in 0..(K-1) /\ d[at[m]] = INVALID
    BY DEF Ends
  <2>2. m < L-1 => (m+1) \in 1..(L-1) /\ (m+1)-1 = m
    BY <1>1, <2>1
  <2> QED
    BY <1>1, <1>2, <2>1, <2>2
<1>5. (CHOOSE m \in ends : \A l \in ends : m <= l) = L-1
  <2>1. \A m, l \in ends : m \in Int /\ (m <= l /\ l <= m => m = l)
    BY <1>1 DEF Ends
  <2> HIDE DEF ends
  <2> QED
    BY <1>3, <1>4, <2>1
<1>6. find_path(d, capacity, Slot(t)) = [j \in 1..L |-> at[j-1]]
  <2>1. find_path(d, capacity, Slot(t)) =
          [j \in 1..((CHOOSE m \in ends : \A l \in ends : m <= l)+1) |-> at[j-1]]
    BY <1>3 DEF find_path, at
  <2>2. (L-1)+1 = L
    BY <1>1
  <2> HIDE DEF ends
  <2> QED
    BY <1>5, <2>1, <2>2
<1>7. SlotsOf(path[t]) = [j \in 1..L |-> at[j-1]]
  <2>1. DOMAIN path[t] = 1..L
    BY <1>1
  <2> QED
    BY <1>2, <2>1 DEF SlotsOf
<1>8. find_path(d, capacity, Slot(t)) # <<>>
  <2>1. 1 \in DOMAIN find_path(d, capacity, Slot(t))
    BY <1>1, <1>6
  <2> QED
    BY <2>1
<1>9. IsPath(d, capacity, SlotsOf(path[t]))
  <2>1. /\ capacity \in Nat /\ capacity >= 1
        /\ d \in Tables(capacity) /\ Slot(t) \in Slots(capacity)
    BY <1>1
  <2>2. IsPath(d, capacity, find_path(d, capacity, Slot(t)))
    BY <2>1, <1>8, PathLemma
  <2>3. SlotsOf(path[t]) = find_path(d, capacity, Slot(t))
    BY <1>6, <1>7, Zenon
  <2> QED
    BY <2>2, <2>3, Zenon
<1>10. path[t][1].slot = Slot(t)
  <2>1. at[0] = Slot(t)
    BY <1>1, WalkLemma DEF at
  <2> QED
    BY <1>1, <1>2, <2>1
<1> QED
  BY <1>1, <1>9, <1>10 DEF Leading

\* What every step of a search leaves as it is.
LEMMA SearchFrame ==
  ASSUME NEW d, NEW t \in Threads, Working(d, t), pc[t] \in Looking
  PROVE  /\ array' = array /\ table' = table /\ capacity' = capacity
         /\ todo' = todo /\ places' = places
         /\ pc'[t] \in Looking \cup {"lock_path", "save_cap"}
         /\ pc[t] = "path" => BeginPath(t)
         /\ pc[t] = "test" => TestKey(t)
         /\ pc[t] = "hash1" => HashFirst(t)
         /\ pc[t] = "hash2" => HashSecond(t)
         /\ pc[t] = "push" => PushSlot(t)
         /\ pc[t] = "choose" => ChoosePath(t)
         /\ Counts(d)'
         /\ \A p : Leading(d, t, p)' = Leading(d, t, p)
         /\ Calling(t, "Insert")' = Calling(t, "Insert") /\ Key(t)' = Key(t)
         /\ pc'[t] \in Placed => (places[t] = <<f_idx(Key(t), capacity), s_idx(Key(t), capacity)>>)'
<1> TypeOK /\ Step(t) /\ Knows(d, t)
  BY DEF Working, IInv, Typed
<1>1. /\ pc[t] = "path" => BeginPath(t)
      /\ pc[t] = "test" => TestKey(t)
      /\ pc[t] = "hash1" => HashFirst(t)
      /\ pc[t] = "hash2" => HashSecond(t)
      /\ pc[t] = "push" => PushSlot(t)
      /\ pc[t] = "choose" => ChoosePath(t)
  BY DEF Step, Look, Displace, Resize, AwaitResize, PickPlaces, BeginGet, PickPlace, DivideByZero,
       Aim, LockPlace, ReadNothing, LookHit, GetHit, LookOn, LookMiss, Put, Update, Delete,
       TryCuckoo, BeginPath, TestKey, HashFirst, HashSecond, PushSlot, ChoosePath, LockPath,
       PathLocked, CheckEntry, Checked, MoveEntry, PutFirst, SaveCapacity, SaveTable, LockAll,
       Grow, Allocate, Reinsert, UnlockAll, SetMutex, EndResize
<1>2. /\ array' = array /\ table' = table /\ capacity' = capacity /\ todo' = todo /\ places' = places
      /\ pc'[t] \in Looking \cup {"lock_path", "save_cap"}
  <2> USE DEF Goto, TypeOK, fieldVars, callVars, probeVars, searchFrame
  <2>1. CASE BeginPath(t) \/ HashFirst(t) \/ HashSecond(t)
    BY <2>1 DEF BeginPath, HashFirst, HashSecond, Looking, Walking
  <2>2. CASE TestKey(t)
    BY <2>2 DEF TestKey, PathDone, Looking, Walking
  <2>3. CASE PushSlot(t)
    BY <2>3 DEF PushSlot, PathDone, Looking, Walking
  <2>4. CASE ChoosePath(t)
    BY <2>4 DEF ChoosePath
  <2> QED
    BY <1>1, <2>1, <2>2, <2>3, <2>4 DEF Looking, Walking
<1>3. Counts(d)'
  <2>1. pc[t] \notin {"move"} \cup Filling /\ pc'[t] \notin Filling
    BY <1>2 DEF Looking, Walking, Filling
  <2>2. ~ Put(t) /\ ~ PutFirst(t)
    BY DEF Put, PutFirst, Looking, Walking
  <2> QED
    BY <1>2, <2>1, <2>2, StaysAsIs
<1>4. Calling(t, "Insert")' = Calling(t, "Insert") /\ Key(t)' = Key(t)
  BY <1>2 DEF Calling, Key, Call
<1>5. \A p : Leading(d, t, p)' = Leading(d, t, p)
  BY <1>2, <1>4 DEF Leading
<1>6. (places[t] = <<f_idx(Key(t), capacity), s_idx(Key(t), capacity)>>)'
  BY <1>2, <1>4, AtCur DEF Knows, Placed
<1> QED
  BY <1>1, <1>2, <1>3, <1>4, <1>5, <1>6

\* A search from both places of a key, one after the other.
LEMMA SearchKnows ==
  ASSUME NEW d, NEW t \in Threads, Working(d, t), pc[t] \in Looking
  PROVE  Counts(d)' /\ Knows(d, t)'
<1> DEFINE at == Walk(d, capacity, Slot(t))
           L == Len(path[t])
<1> TypeOK /\ Knows(d, t)
  BY DEF Working, IInv, Typed
<1>1. /\ table' = table /\ capacity' = capacity /\ places' = places
      /\ Calling(t, "Insert") /\ Key(t)' = Key(t)
      /\ \A p : Leading(d, t, p)' = Leading(d, t, p)
      /\ pc'[t] \in Placed => (places[t] = <<f_idx(Key(t), capacity), s_idx(Key(t), capacity)>>)'
  BY SearchFrame, AtCur
<1>2. /\ capacity \in Nat /\ capacity >= 1 /\ d \in Tables(capacity)
      /\ Slot(t) \in Slots(capacity)
      /\ path[t] \in Seq(Entries) /\ L \in Nat
      /\ \A x \in Slots(capacity) : ReadKey(x) = {KeyOf(d[x])} /\ (KeyOf(d[x]) = INVALID <=> d[x] = INVALID)
                                    /\ (d[x] # INVALID => KeyOf(d[x]) = d[x].key)
      /\ pc[t] \in Walking =>
           /\ L >= 1 /\ L <= kCuckooThreshold
           /\ Cur(t) = at[L-1] /\ Cur(t) \in Slots(capacity)
           /\ ReadKey(Cur(t)) = {KeyOf(d[Cur(t)])}
  <2>1. \A x \in Slots(capacity) : (KeyOf(d[x]) = INVALID <=> d[x] = INVALID)
                                    /\ (d[x] # INVALID => KeyOf(d[x]) = d[x].key)
    BY AtCur, Bounds DEF KeyOf, Pair
  <2> QED
    BY <2>1, AtCur
<1>3. kCuckooThreshold \in Nat /\ kCuckooThreshold >= 1
  BY Bounds
<1>4. CASE pc[t] = "path"
  <2>1. BeginPath(t)
    BY <1>4, SearchFrame
  <2>2. PICK k : path'[t] = <<Entry(Slot(t), k)>>
    BY <2>1 DEF BeginPath, TypeOK
  <2>3. pc'[t] = "test" /\ n' = n /\ path1' = path1
    BY <2>1 DEF BeginPath, Goto, TypeOK, searchFrame, probeVars
  <2>4. Slot(t)' = Slot(t)
    BY <1>1, <2>3 DEF Slot
  <2>5. Came(d, t)'
    <3>1. at[0] = Slot(t)
      BY <1>2, WalkLemma
    <3>2. Len(path'[t]) = 1 /\ path'[t][1].slot = Slot(t)
      BY <2>2 DEF Entry
    <3> QED
      BY <1>1, <1>3, <2>4, <3>1, <3>2 DEF Came
  <2>6. n[t] = 2 => Leading(d, t, path1[t])
    BY <1>4 DEF Knows, Looking
  <2> QED
    BY <1>1, <2>3, <2>5, <2>6, SearchFrame DEF Knows, Walking, Looking, Placed
<1>5. ASSUME NEW p, Leading(d, t, p), PathDone(t, p), pc[t] \in Walking PROVE Knows(d, t)'
  <2>1. n[t] \in {1, 2}
    BY DEF TypeOK
  <2>2. CASE n[t] = 1
    <3>1. path1'[t] = p /\ n'[t] = 2 /\ pc'[t] = "path"
      BY <1>5, <2>2 DEF PathDone, Goto, TypeOK
    <3>2. Leading(d, t, path1[t])'
      BY <1>1, <1>5, <3>1
    <3> QED
      BY <1>1, <3>1, <3>2 DEF Knows, Walking, Looking, Placed
  <2>3. CASE n[t] = 2
    <3>1. path'[t] = p /\ n' = n /\ path1' = path1 /\ pc'[t] = "choose"
      BY <1>5, <2>3 DEF PathDone, Goto, TypeOK
    <3>2. Leading(d, t, path[t])'
      BY <1>1, <1>5, <3>1
    <3>3. Leading(d, t, path1[t])
      BY <1>5, <2>3 DEF Knows, Looking
    <3>4. Leading(d, t, path1[t])'
      BY <1>1, <3>1, <3>3
    <3> QED
      BY <1>1, <2>3, <3>1, <3>2, <3>4 DEF Knows, Walking, Looking, Placed
  <2> QED
    BY <2>1, <2>2, <2>3
<1>6. ASSUME pc[t] \in Walking, pc'[t] \in Walking, path' = path, n' = n, path1' = path1
      PROVE  /\ Came(d, t)' /\ Cur(t)' = Cur(t)
             /\ (pc[t] \in Looking /\ n[t] = 2 => Leading(d, t, path1[t]))'
  <2>1. Slot(t)' = Slot(t) /\ Cur(t)' = Cur(t)
    BY <1>1, <1>6 DEF Slot, Cur
  <2>2. Came(d, t)'
    BY <1>1, <1>6, <2>1 DEF Came, Knows
  <2>3. n[t] = 2 => Leading(d, t, path1[t])
    BY <1>6 DEF Knows, Looking
  <2> QED
    BY <1>1, <1>6, <2>1, <2>2, <2>3
<1>7. CASE pc[t] = "test"
  <2>1. TestKey(t) /\ pc[t] \in Walking
    BY <1>7, SearchFrame DEF Walking
  <2>2. CASE d[Cur(t)] = INVALID
    <3>1. PathDone(t, path[t])
      BY <1>2, <2>1, <2>2 DEF TestKey
    <3> QED
      BY <1>5, <1>7, <2>1, <2>2, <3>1, FoundLeads, SearchFrame
  <2>3. CASE d[Cur(t)] # INVALID
    <3>1. pc'[t] = "hash1" /\ n' = n /\ path1' = path1 /\ path' = path
      BY <1>2, <2>1, <2>3 DEF TestKey, Goto, TypeOK
    <3> QED
      BY <1>1, <1>6, <2>1, <2>3, <3>1, SearchFrame DEF Knows, Walking, Looking, Placed
  <2> QED
    BY <2>2, <2>3
<1>8. CASE pc[t] = "hash1"
  <2>1. HashFirst(t) /\ pc[t] \in Walking /\ d[Cur(t)] # INVALID
    BY <1>8, SearchFrame DEF Walking, Knows
  <2>2. hash'[t] = f_idx(d[Cur(t)].key, capacity)
    <3>1. ReadKey(Cur(t)) = {d[Cur(t)].key}
      BY <1>2, <2>1
    <3>2. \E k \in ReadKey(Cur(t)) : hash' = [hash EXCEPT ![t] = f_idx(k, capacity)]
      BY <2>1 DEF HashFirst
    <3>3. hash' = [hash EXCEPT ![t] = f_idx(d[Cur(t)].key, capacity)]
      BY <3>1, <3>2
    <3>4. t \in DOMAIN hash
      BY DEF TypeOK
    <3> QED
      BY <3>3, <3>4
  <2>3. pc'[t] = "hash2" /\ n' = n /\ path1' = path1 /\ path' = path
    BY <2>1 DEF HashFirst, Goto, TypeOK, searchFrame, probeVars
  <2> QED
    BY <1>1, <1>6, <2>1, <2>2, <2>3, SearchFrame DEF Knows, Walking, Looking, Placed
<1>9. CASE pc[t] = "hash2"
  <2>1. /\ HashSecond(t) /\ pc[t] \in Walking /\ d[Cur(t)] # INVALID
        /\ hash[t] = f_idx(d[Cur(t)].key, capacity)
    BY <1>9, SearchFrame DEF Walking, Knows
  <2>2. n' = n /\ path1' = path1 /\ path' = path
    BY <2>1 DEF HashSecond, searchFrame, probeVars
  <2>3. \/ pc'[t] = "hash2" /\ hash'[t] = hash[t]
        \/ pc'[t] = "push" /\ hash'[t] = Follow(d, Cur(t), capacity)
    <3>1. ReadKey(Cur(t)) = {d[Cur(t)].key}
      BY <1>2, <2>1
    <3>2. t \in DOMAIN pc /\ t \in DOMAIN hash /\ pc[t] = "hash2"
      BY <1>9 DEF TypeOK
    <3> DEFINE s == s_idx(d[Cur(t)].key, capacity)
    <3>3. \/ hash[t] = Cur(t) /\ hash' = [hash EXCEPT ![t] = s] /\ pc' = [pc EXCEPT ![t] = "push"]
          \/ hash[t] # Cur(t) /\ hash' = hash /\ pc' = [pc EXCEPT ![t] = "push"]
          \/ hash' = hash /\ pc' = pc
      BY <2>1, <3>1 DEF HashSecond, Goto
    <3>4. Follow(d, Cur(t), capacity) = IF hash[t] = Cur(t) THEN s ELSE hash[t]
      BY <2>1 DEF Follow, Other
    <3> QED
      BY <3>2, <3>3, <3>4
  <2> QED
    BY <1>1, <1>6, <2>1, <2>2, <2>3, SearchFrame DEF Knows, Walking, Looking, Placed
<1>10. CASE pc[t] = "push"
  <2>1. /\ PushSlot(t) /\ pc[t] \in Walking /\ d[Cur(t)] # INVALID
        /\ hash[t] = Follow(d, Cur(t), capacity)
    BY <1>10, SearchFrame DEF Walking, Knows
  <2>2. CASE L < kCuckooThreshold
    <3>1. PICK k : path'[t] = Append(path[t], Entry(hash[t], k))
      <4>1. \E k : path' = [path EXCEPT ![t] = Append(path[t], Entry(hash[t], k))]
        BY <2>1, <2>2 DEF PushSlot
      <4>2. t \in DOMAIN path
        BY DEF TypeOK
      <4> QED
        BY <4>1, <4>2
    <3>2. pc'[t] = "test" /\ n' = n /\ path1' = path1
      BY <2>1, <2>2 DEF PushSlot, Goto, TypeOK
    <3>3. Slot(t)' = Slot(t)
      BY <1>1, <3>2 DEF Slot
    <3>4. L \in 1..kCuckooThreshold /\ at[L] = Follow(d, at[L-1], capacity)
      <4>1. L \in 1..kCuckooThreshold
        BY <1>2, <1>3, <2>1, <2>2
      <4> QED
        BY <1>2, <4>1, WalkLemma
    <3>5. /\ Len(path'[t]) = L+1 /\ path'[t][L+1].slot = at[L]
          /\ \A j \in 1..L : path'[t][j] = path[t][j]
      BY <1>2, <2>1, <3>1, <3>4 DEF Entry
    <3>6. Came(d, t)'
      <4> HIDE DEF at
      <4>1. L+1 \in 1..kCuckooThreshold
        BY <1>2, <1>3, <2>2
      <4>2. ASSUME NEW j \in 1..(L+1) PROVE path'[t][j].slot = at[j-1]
        <5>1. CASE j = L+1
          BY <1>2, <3>5, <5>1
        <5>2. CASE j \in 1..L
          BY <2>1, <3>5, <5>2 DEF Knows, Came, at
        <5> QED
          BY <1>2, <5>1, <5>2
      <4>3. ASSUME NEW j \in 1..L PROVE d[at[j-1]] # INVALID
        <5>1. CASE j = L
          BY <1>2, <2>1, <5>1
        <5>2. CASE j \in 1..(L-1)
          BY <2>1, <5>2 DEF Knows, Came, at
        <5> QED
          BY <1>2, <5>1, <5>2
      <4>4. (L+1)-1 = L
        BY <1>2
      <4> QED
        BY <1>1, <3>3, <3>5, <4>1, <4>2, <4>3, <4>4 DEF Came, at
    <3>7. n[t] = 2 => Leading(d, t, path1[t])
      BY <1>10 DEF Knows, Looking, Walking
    <3> QED
      BY <1>1, <3>2, <3>6, <3>7, SearchFrame DEF Knows, Walking, Looking, Placed
  <2>3. CASE ~ (L < kCuckooThreshold)
    <3>1. PathDone(t, <<>>)
      BY <2>1, <2>3 DEF PushSlot
    <3>2. Leading(d, t, <<>>)
      BY DEF Leading
    <3> QED
      BY <1>5, <2>1, <3>1, <3>2, SearchFrame
  <2> QED
    BY <2>2, <2>3
<1>11. CASE pc[t] = "choose"
  <2>1. ChoosePath(t) /\ Leading(d, t, path1[t]) /\ Leading(d, t, path[t])
    BY <1>11, SearchFrame DEF Knows, Looking
  <2>2. \/ pc'[t] = "save_cap"
        \/ pc'[t] = "lock_path" /\ path'[t] # <<>> /\ path'[t] \in {path1[t], path[t]}
    <3>1. t \in DOMAIN pc /\ t \in DOMAIN path
      BY DEF TypeOK
    <3>2. CASE path1[t] = <<>> /\ path[t] = <<>>
      BY <2>1, <3>1, <3>2 DEF ChoosePath, Goto
    <3>3. CASE ~ (path1[t] = <<>> /\ path[t] = <<>>)
      <4>1. /\ pc' = [pc EXCEPT ![t] = "lock_path"]
            /\ path' = [path EXCEPT ![t] =
                 IF \/ path1[t] = <<>>
                    \/ path[t] # <<>> /\ (Len(path[t]) < Len(path1[t]) \/ path1[t][1].key = INVALID)
                 THEN path[t] ELSE path1[t]]
        BY <2>1, <3>3 DEF ChoosePath, Goto
      <4> QED
        BY <3>1, <3>3, <4>1
    <3> QED
      BY <3>2, <3>3
  <2>3. path'[t] \in {path1[t], path[t]} => Leading(d, t, path[t])'
    BY <1>1, <2>1
  <2> QED
    BY <1>1, <2>2, <2>3, SearchFrame DEF Knows, Walking, Looking, Placed
<1> QED
  BY <1>4, <1>7, <1>8, <1>9, <1>10, <1>11, SearchFrame DEF Looking, Walking

\* The keys of a table are those of its pairs.
LEMMA KeysOfPairs ==
  ASSUME NEW d, NEW e, PairsOf(e) \subseteq PairsOf(d)
  PROVE  KeysOf(e) \subseteq KeysOf(d)
BY DEF PairsOf, KeysOf

\* What becomes of the table that counts, if a pair comes into it.
LEMMA CountsOneMore ==
  ASSUME NEW d, NEW t \in Threads, Working(d, t), Put(t) \/ PutFirst(t),
         NEW pair \in Pair, pair.key = Key(t),
         NEW e, Sound(e, capacity), PairsOf(e) = PairsOf(d) \cup {pair}, array'[table] = e
  PROVE  Counts(e)' /\ Knows(e, t)'
<1> Typed /\ TypeOK /\ FreshInserts(todo) /\ Counts(d) /\ Step(t)
  BY DEF Working, IInv, Typed
<1>1. pc'[t] = "retry" /\ table' = table /\ capacity' = capacity /\ Calling(t, "Insert")
  BY CallsShrink DEF Put, PutFirst, Return, Goto, TypeOK, fieldVars
<1>2. ~ Refilling' /\ \A u \in Threads : pc'[u] \notin {"move"} \cup Filling
  BY <1>1 DEF Working, Refilling, Filling
<1>3. 1 \in Inserted(todo, t) /\ Key(t) = todo[t][1].key
  BY <1>1, InsertedNow
<1>4. \A k \in KeysOf(e) : k \in KeysOf(d) \/ k = pair.key
  BY DEF PairsOf, KeysOf
<1>5. ASSUME NEW u \in Threads, NEW j \in Inserted(todo', u)
      PROVE  todo'[u][j].key \notin KeysOf(e)
  <2>1. PICK m \in Inserted(todo, u) : /\ todo[u][m] = todo'[u][j] /\ j \in Nat /\ j >= 1
                                       /\ u = t => m = j + 1
    BY InsertedBefore
  <2>2. todo[u][m].key \notin KeysOf(d)
    BY DEF Counts
  <2>3. todo[u][m].key # Key(t)
    <3>1. SUFFICES ASSUME todo[u][m].key = todo[t][1].key PROVE FALSE
      BY <1>3
    <3>2. u = t /\ m = 1
      BY <1>3, <3>1 DEF FreshInserts
    <3> QED
      BY <2>1, <3>2
  <2> QED
    BY <1>4, <2>1, <2>2, <2>3
<1>6. Cap' = capacity
  BY <1>1, <1>2 DEF Cap
<1>7. Counts(e)'
  BY <1>1, <1>2, <1>5, <1>6 DEF Counts
<1> QED
  BY <1>1, <1>7, IdleWillKnow

\* A call that writes to the slot it has found.
LEMMA WriteKnows ==
  ASSUME NEW d, NEW t \in Threads, Working(d, t), pc[t] = "write"
  PROVE  \E e : Counts(e)' /\ Knows(e, t)'
<1> Typed /\ TypeOK /\ Step(t) /\ Knows(d, t) /\ Counts(d)
  BY DEF Working, IInv, Typed
<1>1. /\ capacity \in Nat /\ capacity >= 1 /\ array[table] = d /\ d \in Tables(capacity)
      /\ DOMAIN d = Slots(capacity) /\ table \in 1..Len(array) /\ Sound(d, capacity) /\ Cap = capacity
      /\ \A x \in Slots(capacity) : d[x] \in Pair \cup {INVALID}
  BY AtWork DEF Filling
<1>2. Put(t) \/ Update(t) \/ Delete(t)
  BY DEF Step, Look, Displace, Resize, AwaitResize, PickPlaces, BeginGet, PickPlace, DivideByZero,
       Aim, LockPlace, ReadNothing, LookHit, GetHit, LookOn, LookMiss,
       TryCuckoo, BeginPath, TestKey, HashFirst, HashSecond, PushSlot, ChoosePath, LockPath,
       PathLocked, CheckEntry, Checked, MoveEntry, PutFirst, SaveCapacity, SaveTable, LockAll,
       Grow, Allocate, Reinsert, UnlockAll, SetMutex, EndResize
<1>3. from[t] = table /\ table \in DOMAIN array
  BY <1>1 DEF Knows, TypeOK
<1>4. PICK e : e = array'[table]
  OBVIOUS
<1>5. CASE Put(t)
  <2>1. Calling(t, "Insert") /\ todo[t] # <<>>
    BY <1>5 DEF Put, Calling
  <2>2. PICK pair \in Pair : pair = [key |-> Key(t), value |-> Call(t).value]
    BY <2>1, PairType
  <2>3. Key(t) \in Keys /\ pair.key = Key(t) /\ pair.key \notin KeysOf(d)
    BY <2>1, <2>2, CallType, InsertedNow DEF Counts
  <2>4. places[t] = <<f_idx(Key(t), capacity), s_idx(Key(t), capacity)>> /\ n[t] \in {1, 2}
    BY <2>1 DEF Knows, Placed, TypeOK
  <2>5. Slot(t) \in Places(Key(t), capacity) /\ d[Slot(t)] = INVALID /\ Slot(t) \in Slots(capacity)
    <3>1. Slot(t) \in Places(Key(t), capacity) /\ d[Slot(t)] = INVALID
      BY <2>1, <2>4 DEF Slot, Places, Knows
    <3> QED
      BY <1>1, <2>3, <3>1, PlacesType DEF Places
  <2>6. e = [d EXCEPT ![Slot(t)] = pair]
    <3>1. array' = [array EXCEPT ![table][Slot(t)] = pair]
      BY <1>3, <1>5, <2>2 DEF Put
    <3> QED
      BY <1>1, <1>3, <1>4, <3>1
  <2>7. e \in Tables(capacity) /\ e[Slot(t)] = pair /\ \A y \in Slots(capacity) : y # Slot(t) => e[y] = d[y]
    BY <1>1, <2>5, <2>6 DEF Tables, Slots
  <2>8. Sound(e, capacity) /\ PairsOf(e) = PairsOf(d) \cup {pair}
    BY <1>1, <2>3, <2>5, <2>7, PlaceLemma
  <2> QED
    BY <1>4, <1>5, <2>3, <2>8, CountsOneMore
<1>6. CASE Update(t) \/ Delete(t)
  <2>1. /\ pc'[t] = "retry" /\ table' = table /\ capacity' = capacity /\ ~ Put(t) /\ ~ PutFirst(t)
    BY <1>6 DEF Update, Delete, Return, Goto, TypeOK, fieldVars, Put, PutFirst, Calling
  <2>2. /\ e \in Tables(capacity) /\ DOMAIN e = Slots(capacity)
        /\ \A x \in Slots(capacity) : e[x] # INVALID => d[x] # INVALID /\ e[x].key = d[x].key
    <3>1. CASE Update(t)
      <4>1. Call(t).value \in Values
        BY <3>1, CallType DEF Update, Calling
      <4>2. array' = [array EXCEPT ![table][Slot(t)] =
                        IF @ = INVALID THEN @ ELSE [@ EXCEPT !.value = Call(t).value]]
        BY <1>3, <3>1 DEF Update
      <4>3. e = [d EXCEPT ![Slot(t)] = IF @ = INVALID THEN @ ELSE [@ EXCEPT !.value = Call(t).value]]
        BY <1>1, <1>3, <1>4, <4>2
      <4>4. ASSUME NEW x \in Slots(capacity)
            PROVE  /\ e[x] \in Pair \cup {INVALID}
                   /\ e[x] # INVALID => d[x] # INVALID /\ e[x].key = d[x].key
        <5>1. CASE x = Slot(t) /\ d[x] # INVALID
          <6>1. e[x] = [d[x] EXCEPT !.value = Call(t).value] /\ d[x] \in Pair
            BY <1>1, <4>3, <5>1
          <6> QED
            BY <4>1, <5>1, <6>1 DEF Pair
        <5>2. CASE ~ (x = Slot(t) /\ d[x] # INVALID)
          BY <1>1, <4>3, <5>2
        <5> QED
          BY <5>1, <5>2
      <4>5. DOMAIN e = Slots(capacity) /\ e = [x \in Slots(capacity) |-> e[x]]
        BY <1>1, <4>3
      <4> QED
        BY <4>4, <4>5 DEF Tables, Slots
    <3>2. CASE Delete(t)
      <4>1. array' = [array EXCEPT ![table][Slot(t)] = INVALID]
        BY <1>3, <3>2 DEF Delete
      <4>2. e = [d EXCEPT ![Slot(t)] = INVALID]
        BY <1>1, <1>3, <1>4, <4>1
      <4> QED
        BY <1>1, <4>2 DEF Tables, Slots
    <3> QED
      BY <1>6, <3>1, <3>2
  <2>3. Sound(e, capacity)
    BY <1>1, <2>2 DEF Sound, InPlace, Once, Slots
  <2>4. KeysOf(e) \subseteq KeysOf(d)
    BY <1>1, <2>2 DEF KeysOf
  <2>5. Cap' = capacity
    <3>1. ~ Refilling'
      BY <2>1 DEF Refilling, Working
    <3> QED
      BY <2>1, <3>1 DEF Cap
  <2>6. Counts(e)'
    BY <1>4, <2>1, <2>3, <2>4, <2>5, CountsStill DEF Filling
  <2> QED
    BY <2>1, <2>6, IdleWillKnow
<1> QED
  BY <1>2, <1>5, <1>6

\* A path that is locked and compared with the table.
LEMMA CheckKnows ==
  ASSUME NEW d, NEW t \in Threads, Working(d, t), pc[t] \in {"lock_path", "check"}
  PROVE  Counts(d)' /\ Knows(d, t)'
<1> Typed /\ TypeOK /\ Step(t) /\ Knows(d, t) /\ Counts(d)
  BY DEF Working, IInv, Typed
<1>1. LockPath(t) \/ PathLocked(t) \/ CheckEntry(t) \/ Checked(t)
  BY DEF Step, Look, Displace, Resize, AwaitResize, PickPlaces, BeginGet, PickPlace, DivideByZero,
       Aim, LockPlace, ReadNothing, LookHit, GetHit, LookOn, LookMiss, Put, Update, Delete,
       TryCuckoo, BeginPath, TestKey, HashFirst, HashSecond, PushSlot, ChoosePath,
       MoveEntry, PutFirst, SaveCapacity, SaveTable, LockAll,
       Grow, Allocate, Reinsert, UnlockAll, SetMutex, EndResize
<1>2. /\ array' = array /\ table' = table /\ capacity' = capacity /\ todo' = todo
      /\ places' = places /\ path' = path
      /\ \/ pc'[t] \in {"lock_path", "check"}
         \/ pc'[t] = "path" /\ n'[t] = 1
         \/ pc'[t] = "move" /\ i'[t] = Len(path[t])
  <2> USE DEF Goto, TypeOK, fieldVars, callVars, probeVars, pathVars, searchFrame
  <2>1. CASE LockPath(t) \/ PathLocked(t)
    BY <2>1 DEF LockPath, PathLocked
  <2>2. CASE CheckEntry(t)
    BY <2>2 DEF CheckEntry
  <2>3. CASE Checked(t)
    BY <2>3 DEF Checked
  <2> QED
    BY <1>1, <2>1, <2>2, <2>3
<1>3. /\ array[table] = d /\ \A x \in Slots(capacity) : array'[table'][x] = d[x]
  BY <1>2, AtWork DEF Filling
<1>4. /\ Leading(d, t, path[t]) /\ path[t] # <<>> /\ path[t] \in Seq(Entries)
      /\ Calling(t, "Insert") => places[t] = <<f_idx(Key(t), capacity), s_idx(Key(t), capacity)>>
  BY DEF Knows, Placed, TypeOK
<1>5. Len(path[t]) \in Nat /\ Len(path[t]) >= 1
  BY <1>4
<1>6. /\ Calling(t, "Insert")' = Calling(t, "Insert") /\ Key(t)' = Key(t)
      /\ Leading(d, t, path[t])'
  BY <1>2, <1>4 DEF Calling, Key, Call, Leading
<1>7. Counts(d)'
  <2>1. pc[t] \notin {"move"} \cup Filling /\ pc'[t] \notin Filling /\ ~ Put(t) /\ ~ PutFirst(t)
    BY <1>2 DEF Filling, Put, PutFirst
  <2> QED
    BY <1>2, <2>1, StaysAsIs
<1>8. pc'[t] = "move" => Moving(d, t)'
  <2>1. SUFFICES ASSUME pc'[t] = "move" PROVE Moving(d, t)'
    OBVIOUS
  <2>2. i'[t] = Len(path[t]) /\ i'[t] \in 1..Len(path[t])
    BY <1>2, <1>5, <2>1
  <2>3. (i'[t]+1)..Len(path[t]) = {}
    BY <1>5, <2>2
  <2> QED
    BY <1>2, <1>3, <1>4, <1>6, <2>2, <2>3 DEF Moving
<1>9. Knows(d, t)'
  BY <1>2, <1>4, <1>6, <1>8 DEF Knows, Looking, Walking
<1> QED
  BY <1>7, <1>9

\* The path a thread moves, and how far the table has come.
LEMMA OnTheMove ==
  ASSUME TypeOK, NEW d, NEW t \in Threads, Moving(d, t), NEW p, p = SlotsOf(path[t])
  PROVE  /\ p \in Seq(Slots(capacity)) /\ IsPath(d, capacity, p) /\ p[1] \in Places(Key(t), capacity)
         /\ Len(p) = Len(path[t]) /\ Len(p) \in Nat /\ DOMAIN p = 1..Len(p)
         /\ \A j \in 1..Len(p) : p[j] = path[t][j].slot /\ p[j] \in Slots(capacity)
         /\ i[t] \in 1..Len(p)
         /\ \A j \in (i[t]+1)..Len(p) : array[table][p[j]] = d[p[j-1]]
         /\ \A x \in Slots(capacity) : (\A j \in (i[t]+1)..Len(p) : x # p[j]) => array[table][x] = d[x]
         /\ \A j \in 1..i[t] : array[table][p[j]] = d[p[j]]
<1>1. path[t] \in Seq(Entries) /\ path[t] # <<>> /\ Leading(d, t, path[t]) /\ i[t] \in 1..Len(path[t])
  BY DEF TypeOK, Moving
<1>2. Len(path[t]) \in Nat /\ DOMAIN path[t] = 1..Len(path[t]) /\ Len(path[t]) >= 1
  BY <1>1
<1>3. DOMAIN p = 1..Len(path[t]) /\ \A j \in 1..Len(path[t]) : p[j] = path[t][j].slot
  BY <1>2 DEF SlotsOf
<1>4. IsPath(d, capacity, p) /\ p[1] \in Places(Key(t), capacity)
  BY <1>1, <1>2, <1>3 DEF Leading
<1>5. \A j \in 1..Len(path[t]) : p[j] \in Slots(capacity)
  BY <1>3, <1>4 DEF IsPath, Slots
<1>6. p \in Seq(Slots(capacity)) /\ Len(p) = Len(path[t])
  <2>1. p = [j \in 1..Len(path[t]) |-> p[j]]
    BY <1>2, <1>3 DEF SlotsOf
  <2>2. PICK L \in Nat : L = Len(path[t])
    BY <1>2
  <2>3. p \in [1..L -> Slots(capacity)]
    BY <1>5, <2>1, <2>2
  <2> QED
    BY <2>2, <2>3
<1>7. /\ \A j \in (i[t]+1)..Len(p) : array[table][p[j]] = d[p[j-1]]
      /\ \A x \in Slots(capacity) : (\A j \in (i[t]+1)..Len(p) : x # p[j]) => array[table][x] = d[x]
  BY <1>6 DEF Moving
<1>8. ASSUME NEW j \in 1..i[t] PROVE array[table][p[j]] = d[p[j]]
  <2>1. j \in 1..Len(p) /\ j \in DOMAIN p /\ p[j] \in Slots(capacity)
    BY <1>1, <1>2, <1>3, <1>5, <1>6
  <2>2. ASSUME NEW l \in (i[t]+1)..Len(p) PROVE p[j] # p[l]
    <3>1. l \in DOMAIN p /\ l # j
      BY <1>1, <1>2, <1>3, <1>6, <2>1
    <3> QED
      BY <1>4, <2>1, <3>1 DEF IsPath
  <2> QED
    BY <1>7, <2>1, <2>2
<1> QED
  BY <1>1, <1>2, <1>3, <1>4, <1>5, <1>6, <1>7, <1>8

\* Key after key goes to the next slot of the path.
LEMMA MoveKnows ==
  ASSUME NEW d, NEW t \in Threads, Working(d, t), MoveEntry(t)
  PROVE  Counts(d)' /\ Knows(d, t)'
<1> Typed /\ TypeOK /\ Step(t) /\ Knows(d, t) /\ Counts(d)
  BY DEF Working, IInv, Typed
<1>1. /\ pc[t] = "move" /\ i[t] > 1 /\ pc' = pc /\ table' = table /\ capacity' = capacity /\ todo' = todo
      /\ places' = places /\ path' = path /\ i'[t] = i[t] - 1
  BY DEF MoveEntry, fieldVars, callVars, probeVars, pathVars, TypeOK
<1>2. /\ capacity \in Nat /\ Cap = capacity /\ Sound(d, capacity) /\ table \in 1..Len(array)
      /\ DOMAIN array[table] = Slots(capacity) /\ table # 0 /\ table \in DOMAIN array
  <2>1. table \in DOMAIN array /\ table # 0
    BY DEF TypeOK
  <2> QED
    BY <1>1, <2>1, AtWork DEF Filling
<1>3. PICK p : p = SlotsOf(path[t])
  OBVIOUS
<1>4. /\ p \in Seq(Slots(capacity)) /\ IsPath(d, capacity, p)
      /\ Len(p) = Len(path[t]) /\ Len(p) \in Nat /\ DOMAIN p = 1..Len(p)
      /\ \A j \in 1..Len(p) : p[j] = path[t][j].slot /\ p[j] \in Slots(capacity)
      /\ i[t] \in 1..Len(p)
      /\ \A j \in (i[t]+1)..Len(p) : array[table][p[j]] = d[p[j-1]]
      /\ \A x \in Slots(capacity) : (\A j \in (i[t]+1)..Len(p) : x # p[j]) => array[table][x] = d[x]
      /\ \A j \in 1..i[t] : array[table][p[j]] = d[p[j]]
  <2>1. Moving(d, t)
    BY <1>1 DEF Knows
  <2> QED
    BY <1>3, <2>1, OnTheMove
<1>5. PICK m \in 1..Len(p) : m = i[t]
  BY <1>4
<1>6. m-1 \in 1..Len(p) /\ m-1 \in 1..m /\ m > 1 /\ (m-1)+1 = m /\ m \in 1..Len(p)
  BY <1>1, <1>4, <1>5
<1>7. array' = [array EXCEPT ![table][p[m]] = d[p[m-1]]]
  <2>1. Read(table, path[t][m-1].slot) = {array[table][path[t][m-1].slot]}
    BY <1>2, <1>4, <1>6 DEF Read
  <2>2. path[t][m-1].slot = p[m-1] /\ path[t][m].slot = p[m] /\ array[table][p[m-1]] = d[p[m-1]]
    BY <1>4, <1>5, <1>6
  <2>3. PICK v \in Read(table, path[t][i[t]-1].slot) :
          array' = [array EXCEPT ![table][path[t][i[t]].slot] = v]
    BY DEF MoveEntry
  <2>4. v = d[p[m-1]]
    BY <1>5, <2>1, <2>2, <2>3
  <2>5. path[t][i[t]].slot = p[m]
    BY <1>5, <2>2
  <2> QED
    BY Zenon, <2>3, <2>4, <2>5
<1>8. \A x \in Slots(capacity) : array'[table][x] = IF x = p[m] THEN d[p[m-1]] ELSE array[table][x]
  BY <1>2, <1>7
<1>9. ASSUME NEW j \in m..Len(p) PROVE array'[table][p[j]] = d[p[j-1]]
  <2>1. j \in 1..Len(p) /\ p[j] \in Slots(capacity) /\ j \in DOMAIN p /\ m \in DOMAIN p
    BY <1>4, <1>6
  <2>2. CASE j = m
    BY <1>8, <2>1, <2>2
  <2>3. CASE j # m
    <3>1. j \in (m+1)..Len(p)
      BY <1>4, <1>6, <2>3
    <3>2. p[j] # p[m]
      BY <1>4, <2>1, <2>3 DEF IsPath
    <3> QED
      BY <1>4, <1>5, <1>8, <2>1, <3>1, <3>2
  <2> QED
    BY <2>2, <2>3
<1>10. ASSUME NEW x \in Slots(capacity), \A j \in m..Len(p) : x # p[j] PROVE array'[table][x] = d[x]
  <2>1. x # p[m] /\ \A j \in (m+1)..Len(p) : x # p[j]
    BY <1>4, <1>6, <1>10
  <2> QED
    BY <1>4, <1>5, <1>8, <2>1
<1>11. Moving(d, t)'
  <2>1. i'[t] = m-1 /\ i'[t]+1 = m /\ i'[t] \in 1..Len(path'[t]) /\ Len(path'[t]) = Len(p)
    BY <1>1, <1>4, <1>5, <1>6
  <2>2. path'[t] # <<>> /\ Leading(d, t, path[t])' /\ SlotsOf(path'[t]) = p
    BY <1>1, <1>3 DEF Moving, Knows, Leading, Key, Call
  <2> QED
    BY <1>1, <1>9, <1>10, <2>1, <2>2 DEF Moving
<1>12. Knows(d, t)'
  <2>1. Calling(t, "Insert")' = Calling(t, "Insert") /\ Key(t)' = Key(t)
    BY <1>1 DEF Calling, Key, Call
  <2> QED
    BY <1>1, <1>11, <2>1 DEF Knows, Looking, Walking, Placed
<1>13. Counts(d)'
  <2>1. ~ Refilling' /\ ~ Put(t) /\ ~ PutFirst(t)
    BY <1>1 DEF Refilling, Working, Put, PutFirst
  <2>2. Cap' = capacity
    BY <1>1, <2>1 DEF Cap
  <2>3. KeysOf(d) \subseteq KeysOf(d)
    OBVIOUS
  <2> QED
    BY <1>1, <1>2, <2>1, <2>2, <2>3, CountsStill DEF Filling
<1> QED
  BY <1>12, <1>13

\* At last the pair comes to the first slot of the path.
LEMMA PutFirstKnows ==
  ASSUME NEW d, NEW t \in Threads, Working(d, t), PutFirst(t)
  PROVE  \E e : Counts(e)' /\ Knows(e, t)'
<1> Typed /\ TypeOK /\ Step(t) /\ Knows(d, t) /\ Counts(d)
  BY DEF Working, IInv, Typed
<1>1. pc[t] = "move" /\ i[t] = 1 /\ Calling(t, "Insert") /\ todo[t] # <<>>
  BY CallsShrink DEF PutFirst
<1>2. /\ capacity \in Nat /\ capacity >= 1 /\ Cap = capacity /\ Sound(d, capacity) /\ table \in 1..Len(array)
      /\ DOMAIN array[table] = Slots(capacity) /\ table \in DOMAIN array
  <2>1. table \in DOMAIN array /\ table # 0
    BY DEF TypeOK
  <2> QED
    BY <1>1, <2>1, AtWork DEF Filling
<1>3. PICK p : p = SlotsOf(path[t])
  OBVIOUS
<1>4. /\ p \in Seq(Slots(capacity)) /\ IsPath(d, capacity, p) /\ p[1] \in Places(Key(t), capacity)
      /\ Len(p) = Len(path[t]) /\ Len(p) \in Nat /\ DOMAIN p = 1..Len(p)
      /\ \A j \in 1..Len(p) : p[j] = path[t][j].slot /\ p[j] \in Slots(capacity)
      /\ i[t] \in 1..Len(p)
      /\ \A j \in 2..Len(p) : array[table][p[j]] = d[p[j-1]]
      /\ \A x \in Slots(capacity) : (\A j \in 2..Len(p) : x # p[j]) => array[table][x] = d[x]
  <2>1. i[t]+1 = 2 /\ Moving(d, t)
    BY <1>1 DEF Knows
  <2>2. /\ p \in Seq(Slots(capacity)) /\ IsPath(d, capacity, p) /\ p[1] \in Places(Key(t), capacity)
        /\ Len(p) = Len(path[t]) /\ Len(p) \in Nat /\ DOMAIN p = 1..Len(p)
        /\ \A j \in 1..Len(p) : p[j] = path[t][j].slot /\ p[j] \in Slots(capacity)
        /\ i[t] \in 1..Len(p)
        /\ \A j \in (i[t]+1)..Len(p) : array[table][p[j]] = d[p[j-1]]
        /\ \A x \in Slots(capacity) : (\A j \in (i[t]+1)..Len(p) : x # p[j]) => array[table][x] = d[x]
    BY <1>3, <2>1, OnTheMove
  <2> QED
    BY <2>1, <2>2
<1>5. PICK pair \in Pair : pair = [key |-> Key(t), value |-> Call(t).value]
  BY <1>1, PairType
<1>6. pair.key = Key(t) /\ pair.key \notin KeysOf(d)
  BY <1>1, <1>5, InsertedNow DEF Counts
<1>7. PICK e : e = array'[table]
  OBVIOUS
<1>8. e = [array[table] EXCEPT ![p[1]] = pair]
  <2>1. array' = [array EXCEPT ![table][p[1]] = pair]
    <3>1. path[t][1].slot = p[1]
      BY <1>1, <1>4
    <3> QED
      BY <1>5, <3>1 DEF PutFirst
  <2> QED
    BY <1>2, <1>7, <2>1
<1>9. DOMAIN e = Slots(capacity) /\ \A x \in Slots(capacity) : e[x] = IF x = p[1] THEN pair ELSE array[table][x]
  BY <1>2, <1>8
<1>10. PICK f : f = execute_path(d, p, pair)
  OBVIOUS
<1>11. /\ DOMAIN f = Slots(capacity) /\ f[p[1]] = pair
       /\ \A j \in 2..Len(p) : f[p[j]] = d[p[j-1]]
       /\ \A x \in Slots(capacity) : (\A j \in 1..Len(p) : x # p[j]) => f[x] = d[x]
  <2>1. d \in Tables(capacity) /\ capacity \in Nat /\ capacity >= 1
    BY <1>2 DEF Sound
  <2>2. p \in Seq(Slots(capacity)) /\ IsPath(d, capacity, p)
    BY <1>4
  <2> QED
    BY <1>10, <2>1, <2>2, MovedLemma
<1>12. ASSUME NEW x \in Slots(capacity) PROVE e[x] = f[x]
  <2>1. CASE x = p[1]
    BY <1>9, <1>11, <2>1
  <2>2. CASE x # p[1] /\ \E j \in 2..Len(p) : x = p[j]
    BY <1>4, <1>9, <1>11, <2>2
  <2>3. CASE x # p[1] /\ ~ \E j \in 2..Len(p) : x = p[j]
    <3>1. \A j \in 1..Len(p) : j = 1 \/ j \in 2..Len(p)
      BY <1>4
    <3> QED
      BY <1>4, <1>9, <1>11, <2>3, <3>1
  <2> QED
    BY <2>1, <2>2, <2>3
<1>13. e = f
  <2>1. e = [x \in DOMAIN e |-> e[x]]
    BY <1>8
  <2>2. f = [x \in DOMAIN f |-> f[x]]
    BY <1>10 DEF execute_path
  <2> QED
    BY <1>9, <1>11, <1>12, <2>1, <2>2
<1>14. Sound(e, capacity) /\ PairsOf(e) = PairsOf(d) \cup {pair}
  BY <1>2, <1>4, <1>6, <1>10, <1>13, ExecuteLemma
<1> QED
  BY <1>6, <1>7, <1>14, CountsOneMore

\* Until a new table is filled the old one stays what it is.
LEMMA ResizeKnows ==
  ASSUME NEW d, NEW t \in Threads, Working(d, t),
         pc[t] \in {"save_cap", "save_tab", "lock_all", "set_mutex", "end"}
  PROVE  Counts(d)' /\ Knows(d, t)'
<1> Typed /\ TypeOK /\ Step(t) /\ Counts(d) /\ Sized
  BY DEF Working, IInv, Typed
<1> USE DEF Goto, TypeOK, fieldVars, resizeFrame
<1>1. SaveCapacity(t) \/ SaveTable(t) \/ LockAll(t) \/ Grow(t) \/ SetMutex(t) \/ EndResize(t)
  BY DEF Step, Look, Displace, Resize, AwaitResize, PickPlaces, BeginGet, PickPlace, DivideByZero,
       Aim, LockPlace, ReadNothing, LookHit, GetHit, LookOn, LookMiss, Put, Update, Delete,
       TryCuckoo, BeginPath, TestKey, HashFirst, HashSecond, PushSlot, ChoosePath, LockPath,
       PathLocked, CheckEntry, Checked, MoveEntry, PutFirst,
       Allocate, Reinsert, UnlockAll
<1>2. CASE ~ Grow(t)
  <2>1. /\ array' = array /\ table' = table /\ capacity' = capacity
        /\ pc'[t] \in {"save_tab", "lock_all", "set_mutex", "end", "retry"}
    BY <1>1, <1>2 DEF SaveCapacity, SaveTable, LockAll, SetMutex, EndResize
  <2>2. pc[t] \notin {"move"} \cup Filling /\ pc'[t] \notin Filling /\ ~ Put(t) /\ ~ PutFirst(t)
    BY <2>1 DEF Filling, Put, PutFirst
  <2>3. Counts(d)'
    BY <2>1, <2>2, StaysAsIs
  <2> QED
    BY <2>1, <2>3 DEF Knows, Placed, Looking, Walking
<1>3. CASE Grow(t)
  <2>1. /\ array' = array /\ old_tab' = old_tab /\ old_cap' = old_cap
        /\ pc[t] = "lock_all" /\ pc'[t] = "allocate"
    BY <1>3 DEF Grow
  <2>2. old_cap = capacity /\ old_tab = table
    BY <2>1 DEF Sized
  <2>3. array[table] = d /\ Sound(d, capacity)
    <3>1. pc[t] \notin {"move"} \cup Filling
      BY <2>1 DEF Filling
    <3>2. array[table] = d /\ Cap = capacity /\ Sound(d, Cap)
      BY <3>1, AtWork
    <3> QED
      BY <3>2, Zenon
  <2>4. ~ Put(t) /\ ~ PutFirst(t) /\ Refilling'
    BY <2>1 DEF Put, PutFirst, Refilling
  <2>5. Cap' = capacity
    BY <2>1, <2>2, <2>4 DEF Cap
  <2>6. Counts(d)'
    BY <2>1, <2>2, <2>3, <2>4, <2>5, CountsStill DEF Filling
  <2> QED
    BY <2>1, <2>6 DEF Knows, Placed, Looking, Walking
<1> QED
  BY <1>2, <1>3

\* The table of a resize begins without a pair.
LEMMA AllocateKnows ==
  ASSUME NEW d, NEW t \in Threads, Working(d, t), pc[t] \in {"grow", "allocate"}
  PROVE  Counts(d)' /\ Knows(d, t)'
<1> Typed /\ TypeOK /\ Step(t) /\ Counts(d)
  BY DEF Working, IInv, Typed
<1>1. /\ Cap = old_cap /\ old_cap \in Nat /\ Sound(d, old_cap) /\ array[old_tab] = d
      /\ old_tab \in 1..Len(array) /\ Len(array) \in Nat /\ capacity \in Nat /\ capacity >= 1
  BY AtWork DEF Filling
<1>2. Grow(t) \/ Allocate(t)
  BY DEF Step, Look, Displace, Resize, AwaitResize, PickPlaces, BeginGet, PickPlace, DivideByZero,
       Aim, LockPlace, ReadNothing, LookHit, GetHit, LookOn, LookMiss, Put, Update, Delete,
       TryCuckoo, BeginPath, TestKey, HashFirst, HashSecond, PushSlot, ChoosePath, LockPath,
       PathLocked, CheckEntry, Checked, MoveEntry, PutFirst, SaveCapacity, SaveTable, LockAll,
       Reinsert, UnlockAll, SetMutex, EndResize
<1>3. /\ old_tab' = old_tab /\ old_cap' = old_cap
      /\ \/ pc'[t] = "allocate" /\ array' = array
         \/ /\ pc'[t] = "refill" /\ array' = Append(array, Empty(capacity)) /\ capacity' = capacity
            /\ table' = Len(array') /\ i'[t] = 0
  BY <1>2 DEF Grow, Allocate, Goto, TypeOK
<1>4. array'[old_tab] = d
  <2>1. array \in Seq(Arrays)
    BY DEF Typed
  <2>2. Append(array, Empty(capacity))[old_tab] = array[old_tab]
    BY <1>1, <2>1
  <2> QED
    BY <1>1, <1>3, <2>2
<1>5. Counts(d)'
  <2>1. ~ Put(t) /\ ~ PutFirst(t) /\ Refilling'
    BY <1>3 DEF Put, PutFirst, Refilling
  <2>2. Cap' = old_cap
    BY <1>3, <2>1 DEF Cap
  <2> QED
    BY <1>1, <1>3, <1>4, <2>1, <2>2, CountsStill DEF Filling
<1>6. pc'[t] = "refill" => Refilled(d, t)'
  <2>1. SUFFICES ASSUME pc'[t] = "refill" PROVE Refilled(d, t)'
    OBVIOUS
  <2>2. array' = Append(array, Empty(capacity)) /\ capacity' = capacity /\ table' = Len(array') /\ i'[t] = 0
    BY <1>3, <2>1
  <2>3. array'[table'] = Empty(capacity) /\ table' # old_tab
    <3>1. array \in Seq(Arrays)
      BY DEF Typed
    <3> QED
      BY <1>1, <2>2, <3>1
  <2>4. Sound(Empty(capacity), capacity) /\ PairsOf(Empty(capacity)) = {}
    BY DEF Sound, Empty, Tables, InPlace, Once, PairsOf
  <2>5. {d[x] : x \in 0..(0-1)} \ {INVALID} = {}
    OBVIOUS
  <2> QED
    BY <1>1, <1>3, <2>2, <2>3, <2>4, <2>5 DEF Refilled
<1> QED
  BY <1>3, <1>5, <1>6 DEF Knows, Placed, Looking, Walking

\* The pair of a slot of the old table comes into the new one.
LEMMA ReinsertKnows ==
  ASSUME NEW d, NEW t \in Threads, Working(d, t), Reinsert(t)
  PROVE  Counts(d)' /\ Knows(d, t)'
<1> Typed /\ TypeOK /\ Step(t) /\ Counts(d) /\ Knows(d, t) /\ array \in Seq(Arrays)
  BY DEF Working, IInv, Typed
<1>1. /\ pc[t] = "refill" /\ i[t] < old_cap
      /\ table' = table /\ capacity' = capacity /\ old_cap' = old_cap /\ old_tab' = old_tab
  BY DEF Reinsert, fieldVars
<1>2. /\ Cap = old_cap /\ old_cap \in Nat /\ Sound(d, old_cap) /\ array[old_tab] = d
      /\ old_tab \in 1..Len(array) /\ table \in 1..Len(array) /\ capacity \in Nat /\ capacity >= 1
      /\ DOMAIN d = Slots(old_cap)
  BY <1>1, AtWork DEF Filling
<1>3. Refilled(d, t) /\ i[t] \in Slots(old_cap) /\ i[t] \in Nat
  <2>1. Refilled(d, t) /\ i[t] \in Nat
    BY <1>1 DEF Knows, TypeOK
  <2> QED
    BY <1>1, <1>2, <2>1 DEF Slots
<1>4. PICK new : new = array[table]
  OBVIOUS
<1>5. PICK p : p = d[i[t]]
  OBVIOUS
<1>6. /\ old_tab # table /\ Sound(new, capacity) /\ p \in Pair \cup {INVALID}
      /\ PairsOf(new) = {d[x] : x \in 0..(i[t]-1)} \ {INVALID}
  <2>1. p \in Pair \cup {INVALID}
    BY <1>2, <1>3, <1>5 DEF Sound, Tables, Slots
  <2> QED
    BY <1>3, <1>4, <2>1 DEF Refilled
<1>7. PICK tabs : tabs = IF p = INVALID THEN <<new>> ELSE insert4resize(new, capacity, p)
  OBVIOUS
<1>8. IF tabs # <<>> THEN /\ array' = [array EXCEPT ![table] = tabs[1]]
                          /\ i'[t] = i[t] + 1 /\ pc'[t] = "refill"
                     ELSE /\ array' = array /\ i'[t] = i[t] /\ pc'[t] \in {"grow", "refill"}
  <2>1. tabs = IF array[old_tab][i[t]] = INVALID THEN <<array[table]>>
               ELSE insert4resize(array[table], capacity, array[old_tab][i[t]])
    BY <1>2, <1>4, <1>5, <1>7
  <2> QED
    BY <1>1, <2>1 DEF Reinsert, Goto, TypeOK
<1>9. array'[old_tab] = d
  BY <1>2, <1>6, <1>8
<1>10. Counts(d)'
  <2>1. ~ Put(t) /\ ~ PutFirst(t) /\ Refilling' /\ pc'[t] \in Filling
    BY <1>1, <1>8 DEF Put, PutFirst, Refilling, Filling
  <2>2. Cap' = old_cap
    BY <1>1, <2>1 DEF Cap
  <2>3. KeysOf(d) \subseteq KeysOf(d)
    OBVIOUS
  <2> QED
    BY <1>1, <1>2, <1>9, <2>1, <2>2, <2>3, CountsStill
<1>11. ASSUME pc'[t] = "refill" PROVE Refilled(d, t)'
  <2>1. CASE tabs = <<>>
    <3>1. array' = array /\ i'[t] = i[t]
      BY <1>8, <2>1
    <3> QED
      BY <1>1, <1>3, <3>1 DEF Refilled
  <2>2. CASE tabs # <<>>
    <3>1. array'[table] = tabs[1] /\ i'[t] = i[t] + 1
      <4>1. table \in DOMAIN array
        BY <1>2
      <4> QED
        BY <1>8, <2>2, <4>1
    <3>2. i[t] + 1 \in 0..old_cap /\ (i[t]+1)-1 = i[t]
      BY <1>1, <1>2, <1>3
    <3>3. {d[x] : x \in 0..i[t]} = {d[x] : x \in 0..(i[t]-1)} \cup {p}
      <4>1. \A x : x \in 0..i[t] <=> x \in 0..(i[t]-1) \/ x = i[t]
        BY <1>3
      <4> QED
        BY <1>5, <4>1
    <3>4. Sound(tabs[1], capacity) /\ PairsOf(tabs[1]) = {d[x] : x \in 0..i[t]} \ {INVALID}
      <4>1. CASE p = INVALID
        BY <1>6, <1>7, <3>3, <4>1
      <4>2. CASE p # INVALID
        <5>1. p \in Pair
          BY <1>6, <4>2
        <5>2. p.key \notin KeysOf(new)
          <6>1. SUFFICES ASSUME p.key \in KeysOf(new) PROVE FALSE
            OBVIOUS
          <6>2. PICK q \in PairsOf(new) : q.key = p.key
            BY <6>1 DEF KeysOf, PairsOf
          <6>3. PICK x \in 0..(i[t]-1) : q = d[x] /\ q # INVALID
            BY <1>6, <6>2
          <6>4. x \in Slots(old_cap) /\ x # i[t]
            BY <1>1, <1>2, <1>3 DEF Slots
          <6> QED
            BY <1>2, <1>3, <1>5, <4>2, <6>2, <6>3, <6>4 DEF Sound, Once
        <5>3. tabs = insert4resize(new, capacity, p)
          BY <1>7, <4>2
        <5>4. Sound(tabs[1], capacity) /\ PairsOf(tabs[1]) = PairsOf(new) \cup {p}
          <6>1. capacity \in Nat /\ capacity >= 1 /\ Sound(new, capacity)
            BY <1>2, <1>6
          <6>2. insert4resize(new, capacity, p) # <<>>
            BY <2>2, <5>3
          <6> QED
            BY <5>1, <5>2, <5>3, <6>1, <6>2, InsertLemma
        <5> QED
          BY <1>6, <3>3, <4>2, <5>4
      <4> QED
        BY <4>1, <4>2
    <3> QED
      BY <1>1, <1>6, <3>1, <3>2, <3>4 DEF Refilled
  <2> QED
    BY <2>1, <2>2
<1> QED
  BY <1>8, <1>10, <1>11 DEF Knows, Placed, Looking, Walking

\* A table that has been filled has every pair of the old one.
LEMMA HasAll ==
  ASSUME NEW d, NEW t \in Threads, DOMAIN d = Slots(old_cap), old_cap \in Nat, i[t] >= old_cap, Refilled(d, t)
  PROVE  PairsOf(array[table]) = PairsOf(d)
<1>1. i[t] = old_cap
  BY DEF Refilled
<1> QED
  BY <1>1 DEF Refilled, PairsOf, Slots

\* The table that counts is replaced by the new one.
LEMMA UnlockKnows ==
  ASSUME NEW d, NEW t \in Threads, Working(d, t), UnlockAll(t)
  PROVE  \E e : Counts(e)' /\ Knows(e, t)'
<1> Typed /\ TypeOK /\ Step(t) /\ Counts(d) /\ Knows(d, t)
  BY DEF Working, IInv, Typed
<1>1. /\ pc[t] = "refill" /\ i[t] >= old_cap /\ pc'[t] = "set_mutex"
      /\ table' = table /\ capacity' = capacity /\ array' = array
  BY DEF UnlockAll, fieldVars, Goto, TypeOK
<1>2. old_cap \in Nat /\ DOMAIN d = Slots(old_cap) /\ Refilled(d, t)
  BY <1>1, AtWork DEF Filling, Knows
<1>3. PICK e : e = array[table]
  OBVIOUS
<1>4. Sound(e, capacity) /\ PairsOf(e) = PairsOf(d)
  BY <1>1, <1>2, <1>3, HasAll DEF Refilled
<1>5. KeysOf(e) \subseteq KeysOf(d)
  BY <1>4, KeysOfPairs
<1>6. Cap' = capacity /\ ~ Put(t) /\ ~ PutFirst(t)
  <2>1. ~ Refilling'
    BY <1>1 DEF Refilling, Working
  <2> QED
    BY <1>1, <2>1 DEF Cap, Put, PutFirst
<1>7. Counts(e)'
  BY <1>1, <1>3, <1>4, <1>5, <1>6, CountsStill DEF Filling
<1>8. Knows(e, t)'
  BY <1>1 DEF Knows, Placed, Looking, Walking
<1> QED
  BY <1>7, <1>8

\* Every step of a call that is alone leaves a table that counts.
LEMMA WorkKnows ==
  ASSUME NEW d, NEW t \in Threads, Working(d, t)
  PROVE  \E e : Counts(e)' /\ Knows(e, t)'
<1>1. pc[t] \in Steps
  BY DEF Working, IInv, Typed, TypeOK
<1>2. CASE pc[t] \in {"retry", "pick", "aim", "lock", "look", "cas"}
  BY <1>2, LookKnows
<1>3. CASE pc[t] \in Looking
  BY <1>3, SearchKnows
<1>4. CASE pc[t] = "write"
  BY <1>4, WriteKnows
<1>5. CASE pc[t] \in {"lock_path", "check"}
  BY <1>5, CheckKnows
<1>6. CASE pc[t] = "move"
  <2>1. MoveEntry(t) \/ PutFirst(t)
    BY <1>6, FromMove DEF Working
  <2> QED
    BY <2>1, MoveKnows, PutFirstKnows
<1>7. CASE pc[t] \in {"save_cap", "save_tab", "lock_all", "set_mutex", "end"}
  BY <1>7, ResizeKnows
<1>8. CASE pc[t] \in {"grow", "allocate"}
  BY <1>8, AllocateKnows
<1>9. CASE pc[t] = "refill"
  <2>1. Reinsert(t) \/ UnlockAll(t)
    BY <1>9 DEF Working, Step, Look, Displace, Resize, AwaitResize, PickPlaces, BeginGet, PickPlace, DivideByZero,
         Aim, LockPlace, ReadNothing, LookHit, GetHit, LookOn, LookMiss, Put, Update, Delete,
         TryCuckoo, BeginPath, TestKey, HashFirst, HashSecond, PushSlot, ChoosePath, LockPath,
         PathLocked, CheckEntry, Checked, MoveEntry, PutFirst, SaveCapacity, SaveTable, LockAll,
         Grow, Allocate, SetMutex, EndResize
  <2> QED
    BY <2>1, ReinsertKnows, UnlockKnows
<1> QED
  BY <1>1, <1>2, <1>3, <1>4, <1>5, <1>6, <1>7, <1>8, <1>9 DEF Steps, Holding, Looking, Walking

\* The first table is empty, and it counts.
LEMMA InitSInv == Init => SInv
<1> SUFFICES ASSUME Init PROVE SInv
  OBVIOUS
<1>1. PICK d : d = Empty(InitCapacity)
  OBVIOUS
<1>2. table = 1 /\ array = <<d>> /\ capacity = InitCapacity /\ array[table] = d
      /\ \A t \in Threads : pc[t] = "retry"
  BY <1>1 DEF Init
<1>3. Sound(d, InitCapacity) /\ KeysOf(d) = {}
  BY <1>1 DEF Sound, Empty, Tables, InPlace, Once, KeysOf
<1>4. Cap = InitCapacity
  BY <1>2 DEF Cap, Refilling
<1>5. Counts(d)
  BY <1>2, <1>3, <1>4 DEF Counts, Filling
<1>6. \A t \in Threads : Knows(d, t)
  BY <1>2, IdleKnows
<1>7. Newest
  BY <1>2 DEF Newest
<1>8. FreshInserts(todo)
  BY WorkloadAssumption DEF Init
<1> QED
  BY <1>5, <1>6, <1>7, <1>8 DEF SInv

\* A step of the only thread at work.
LEMMA OneStep ==
  ASSUME IInv, SInv, OneAtATime, OneAtATime', [Next]_vars
  PROVE  SInv'
<1>1. CASE UNCHANGED vars
  <2>1. Newest' = Newest /\ todo' = todo
    BY <1>1 DEF vars, fieldVars, callVars, Newest
  <2>2. ASSUME NEW d PROVE Counts(d)' = Counts(d)
    BY <1>1 DEF vars, fieldVars, callVars, Counts, Cap, Refilling
  <2>3. ASSUME NEW d, NEW t \in Threads PROVE Knows(d, t)' = Knows(d, t)
    BY <1>1 DEF vars, fieldVars, callVars, probeVars, pathVars, Knows, Calling, Call, Key, Slot, Came,
         Cur, Leading, Moving, Refilled
  <2> QED
    BY <2>1, <2>2, <2>3 DEF SInv
<1>2. CASE ~ UNCHANGED vars
  <2>1. PICK t \in Threads : Step(t)
    BY <1>2 DEF Next, Terminated
  <2>2. PICK d : Counts(d) /\ \A u \in Threads : Knows(d, u)
    BY DEF SInv
  <2>3. Working(d, t)
    BY <2>1, <2>2, AloneAtWork DEF Working, SInv
  <2>4. PICK e : Counts(e)' /\ Knows(e, t)'
    BY <2>3, WorkKnows
  <2>5. \A u \in Threads : Knows(e, u)'
    BY <2>3, <2>4, IdleWillKnow DEF Working
  <2>6. Newest'
    BY <2>1, NewestStep DEF SInv
  <2>7. FreshInserts(todo')
    BY <2>1, FreshInsertsStep DEF SInv, IInv
  <2> QED
    BY <2>4, <2>5, <2>6, <2>7 DEF SInv
<1> QED
  BY <1>1, <1>2

\* The inductive invariant of calls that do not overlap.
LEMMA OneByOne == Spec /\ []OneAtATime => []SInv
<1>1. IInv /\ SInv /\ OneAtATime /\ OneAtATime' /\ [Next]_vars => SInv'
  BY OneStep
<1> QED
  BY <1>1, InitSInv, Inductive, PTL DEF Spec

\* What the table is, while no new one is filled: the one that counts, or on the way.
LEMMA TheTable ==
  ASSUME IInv, SInv, ~ Refilling
  PROVE  /\ TypeOK /\ capacity \in Nat /\ capacity >= 1 /\ DOMAIN array[table] = Slots(capacity)
         /\ \E d : /\ Sound(d, capacity) /\ d \in Tables(capacity) /\ DOMAIN d = Slots(capacity)
                   /\ \/ array[table] = d /\ \A t \in Threads : pc[t] # "move"
                      \/ \E t \in Threads : pc[t] = "move"
                   /\ \A t \in Threads : pc[t] = "move" => Moving(d, t)
<1> TypeOK /\ Sized
  BY DEF IInv, Typed
<1>1. PICK d : Counts(d) /\ \A t \in Threads : Knows(d, t)
  BY DEF SInv
<1>2. Sound(d, capacity) /\ d \in Tables(capacity)
  BY <1>1 DEF Counts, Cap, Sound
<1>3. DOMAIN d = Slots(capacity)
  BY <1>2 DEF Tables, Slots
<1>4. \A t \in Threads : pc[t] = "move" => Moving(d, t)
  BY <1>1 DEF Knows
<1>5. (\A t \in Threads : pc[t] # "move") => array[table] = d
  BY <1>1 DEF Counts, Refilling, Filling
<1>6. capacity \in Nat /\ capacity >= 1
  BY Bounds DEF TypeOK
<1>7. DOMAIN array[table] = Slots(capacity)
  BY DEF Sized, Refilling, Slots
<1> QED
  BY <1>2, <1>3, <1>4, <1>5, <1>6, <1>7

\* Where the pair of a slot was before the move, and that no two come from one slot but for
\* the copy just made.
LEMMA CameFrom ==
  ASSUME TypeOK, NEW d, Sound(d, capacity), capacity \in Nat, capacity >= 1,
         NEW t \in Threads, Moving(d, t), NEW p, p = SlotsOf(path[t]),
         NEW x \in Slots(capacity), array[table][x] # INVALID
  PROVE  \/ array[table][x] = d[x] /\ \A j \in (i[t]+1)..Len(p) : x # p[j]
         \/ \E j \in (i[t]+1)..Len(p) :
              /\ x = p[j] /\ array[table][x] = d[p[j-1]] /\ j-1 \in 1..(Len(p)-1) /\ p[j-1] \in Slots(capacity)
              /\ x \in Places(array[table][x].key, capacity)
<1>1. /\ IsPath(d, capacity, p) /\ Len(p) \in Nat /\ DOMAIN p = 1..Len(p)
      /\ \A j \in 1..Len(p) : p[j] \in Slots(capacity)
      /\ i[t] \in 1..Len(p)
      /\ \A j \in (i[t]+1)..Len(p) : array[table][p[j]] = d[p[j-1]]
      /\ (\A j \in (i[t]+1)..Len(p) : x # p[j]) => array[table][x] = d[x]
  BY OnTheMove
<1>2. CASE \A j \in (i[t]+1)..Len(p) : x # p[j]
  BY <1>1, <1>2
<1>3. CASE \E j \in (i[t]+1)..Len(p) : x = p[j]
  <2>1. PICK j \in (i[t]+1)..Len(p) : x = p[j]
    BY <1>3
  <2>2. j-1 \in 1..(Len(p)-1) /\ j-1 \in 1..Len(p) /\ (j-1)+1 = j
    BY <1>1, <2>1
  <2>3. array[table][x] = d[p[j-1]] /\ p[j-1] \in Slots(capacity)
    BY <1>1, <2>1, <2>2
  <2>4. x = Follow(d, p[j-1], capacity)
    BY <1>1, <2>1, <2>2, <2>3 DEF IsPath
  <2>5. x \in Places(array[table][x].key, capacity)
    BY <2>3, <2>4, FollowType DEF Sound
  <2> QED
    BY <2>1, <2>2, <2>3, <2>5
<1> QED
  BY <1>2, <1>3

\* What is moved is a path, its keys stay in their places, and none comes twice.
LEMMA OneAtATimeMoves == IInv /\ SInv => MovedPathIsPath /\ PairsInPlace /\ MovedOrOnce
<1> SUFFICES ASSUME IInv, SInv PROVE MovedPathIsPath /\ PairsInPlace /\ MovedOrOnce
  OBVIOUS
<1> TypeOK
  BY DEF IInv, Typed
<1>1. MovedPathIsPath
  <2> SUFFICES ASSUME NEW t \in Threads, pc[t] = "move", i[t] = Len(path[t])
               PROVE  IsPath(array[table], capacity, SlotsOf(path[t]))
    BY DEF MovedPathIsPath, SlotsOf
  <2>1. PICK d : Moving(d, t)
    BY DEF SInv, Knows
  <2>2. PICK p : p = SlotsOf(path[t])
    OBVIOUS
  <2>3. /\ IsPath(d, capacity, p) /\ Len(p) = Len(path[t]) /\ Len(p) \in Nat /\ DOMAIN p = 1..Len(p)
        /\ \A j \in 1..i[t] : array[table][p[j]] = d[p[j]]
    BY <2>1, <2>2, OnTheMove
  <2>4. p # <<>> /\ \A j \in 1..Len(p) : array[table][p[j]] = d[p[j]]
    BY <2>3 DEF IsPath
  <2>5. Len(p) \in 1..Len(p)
    BY <2>1, <2>3 DEF Moving
  <2>6. ASSUME NEW j \in 1..(Len(p)-1), array[table][p[j]] # INVALID
        PROVE  p[j+1] = Follow(array[table], p[j], capacity)
    <3>1. j \in 1..Len(p)
      BY <2>3
    <3>2. p[j+1] = Follow(d, p[j], capacity)
      BY <2>3, <2>4, <2>6, <3>1 DEF IsPath
    <3> QED
      BY <2>4, <3>1, <3>2 DEF Follow
  <2> QED
    BY <2>2, <2>3, <2>4, <2>5, <2>6 DEF IsPath
<1>2. PairsInPlace
  <2> SUFFICES ASSUME ~ Refilling, NEW x \in Slots(capacity), array[table][x] # INVALID
               PROVE  x \in Places(array[table][x].key, capacity)
    BY DEF PairsInPlace, InPlace, Slots
  <2>1. capacity \in Nat /\ capacity >= 1
    BY TheTable
  <2>2. PICK d : /\ Sound(d, capacity)
                 /\ \/ array[table] = d
                    \/ \E t \in Threads : pc[t] = "move"
                 /\ \A t \in Threads : pc[t] = "move" => Moving(d, t)
    BY TheTable
  <2>3. d[x] # INVALID => x \in Places(d[x].key, capacity)
    BY <2>2 DEF Sound, InPlace, Slots
  <2>4. CASE \E t \in Threads : pc[t] = "move"
    <3>1. PICK t \in Threads : Moving(d, t)
      BY <2>2, <2>4
    <3>2. PICK p : p = SlotsOf(path[t])
      OBVIOUS
    <3> QED
      BY <2>1, <2>2, <2>3, <3>1, <3>2, CameFrom
  <2> QED
    BY <2>2, <2>3, <2>4
<1>3. MovedOrOnce
  <2> SUFFICES ASSUME ~ Refilling, NEW x \in Occupied, NEW y \in Occupied, x # y,
                      array[table][x].key = array[table][y].key
               PROVE  Copying(x, y)
    BY DEF MovedOrOnce, Copying
  <2>1. capacity \in Nat /\ capacity >= 1 /\ x \in Slots(capacity) /\ y \in Slots(capacity)
        /\ array[table][x] # INVALID /\ array[table][y] # INVALID
    BY TheTable DEF Occupied
  <2>2. PICK d : /\ Sound(d, capacity) /\ DOMAIN d = Slots(capacity)
                 /\ \/ array[table] = d
                    \/ \E t \in Threads : pc[t] = "move"
                 /\ \A t \in Threads : pc[t] = "move" => Moving(d, t)
    BY TheTable
  <2>3. \A a, b \in Slots(capacity) : d[a] # INVALID /\ d[b] # INVALID /\ d[a].key = d[b].key => a = b
    BY <2>2 DEF Sound, Once
  <2>4. CASE array[table] = d
    BY <2>1, <2>3, <2>4
  <2>5. CASE \E t \in Threads : pc[t] = "move"
    <3>1. PICK t \in Threads : pc[t] = "move" /\ Moving(d, t)
      BY <2>2, <2>5
    <3>2. PICK p : p = SlotsOf(path[t])
      OBVIOUS
    <3>3. /\ IsPath(d, capacity, p) /\ Len(p) = Len(path[t]) /\ Len(p) \in Nat /\ DOMAIN p = 1..Len(p)
          /\ \A j \in 1..Len(p) : p[j] = path[t][j].slot /\ p[j] \in Slots(capacity)
          /\ i[t] \in 1..Len(p)
      BY <3>1, <3>2, OnTheMove
    <3>4. ASSUME NEW a \in Slots(capacity), NEW b \in Slots(capacity), a # b,
                 array[table][b] # INVALID,
                 array[table][a] = d[a],
                 NEW j \in (i[t]+1)..Len(p), b = p[j], j-1 \in 1..(Len(p)-1), p[j-1] = a,
                 \A l \in (i[t]+1)..Len(p) : a # p[l]
          PROVE  Copying(a, b)
      <4>1. j - 1 = i[t] /\ i[t] < Len(p) /\ i[t]+1 = j /\ i[t] \in DOMAIN path[t]
        <5>1. ~ (j-1 \in (i[t]+1)..Len(p))
          BY <3>4
        <5>2. DOMAIN path[t] = 1..Len(path[t])
          BY DEF TypeOK
        <5> QED
          BY <3>3, <3>4, <5>1, <5>2
      <4>2. path[t][i[t]].slot = a /\ path[t][i[t]+1].slot = b
        BY <3>3, <3>4, <4>1
      <4> QED
        BY <3>1, <3>3, <4>1, <4>2 DEF Copying
    <3>5. \A a, b \in Slots(capacity) : Copying(a, b) => Copying(b, a)
      BY DEF Copying
    <3>6. \/ array[table][x] = d[x] /\ \A j \in (i[t]+1)..Len(p) : x # p[j]
          \/ \E j \in (i[t]+1)..Len(p) :
               x = p[j] /\ array[table][x] = d[p[j-1]] /\ j-1 \in 1..(Len(p)-1) /\ p[j-1] \in Slots(capacity)
      BY <2>1, <2>2, <3>1, <3>2, CameFrom
    <3>7. \/ array[table][y] = d[y] /\ \A j \in (i[t]+1)..Len(p) : y # p[j]
          \/ \E j \in (i[t]+1)..Len(p) :
               y = p[j] /\ array[table][y] = d[p[j-1]] /\ j-1 \in 1..(Len(p)-1) /\ p[j-1] \in Slots(capacity)
      BY <2>1, <2>2, <3>1, <3>2, CameFrom
    <3>8. CASE /\ array[table][x] = d[x] /\ \A j \in (i[t]+1)..Len(p) : x # p[j]
               /\ array[table][y] = d[y] /\ \A j \in (i[t]+1)..Len(p) : y # p[j]
      BY <2>1, <2>3, <3>8
    <3>9. CASE /\ array[table][x] = d[x] /\ \A j \in (i[t]+1)..Len(p) : x # p[j]
               /\ \E j \in (i[t]+1)..Len(p) :
                    y = p[j] /\ array[table][y] = d[p[j-1]] /\ j-1 \in 1..(Len(p)-1) /\ p[j-1] \in Slots(capacity)
      <4>1. PICK j \in (i[t]+1)..Len(p) :
                    y = p[j] /\ array[table][y] = d[p[j-1]] /\ j-1 \in 1..(Len(p)-1) /\ p[j-1] \in Slots(capacity)
        BY <3>9
      <4>2. p[j-1] = x
        BY <2>1, <2>3, <3>9, <4>1
      <4> QED
        BY <2>1, <3>4, <3>9, <4>1, <4>2
    <3>10. CASE /\ array[table][y] = d[y] /\ \A j \in (i[t]+1)..Len(p) : y # p[j]
                /\ \E j \in (i[t]+1)..Len(p) :
                     x = p[j] /\ array[table][x] = d[p[j-1]] /\ j-1 \in 1..(Len(p)-1) /\ p[j-1] \in Slots(capacity)
      <4>1. PICK j \in (i[t]+1)..Len(p) :
                    x = p[j] /\ array[table][x] = d[p[j-1]] /\ j-1 \in 1..(Len(p)-1) /\ p[j-1] \in Slots(capacity)
        BY <3>10
      <4>2. p[j-1] = y
        BY <2>1, <2>3, <3>10, <4>1
      <4> QED
        BY <2>1, <3>4, <3>5, <3>10, <4>1, <4>2
    <3>11. CASE /\ \E j \in (i[t]+1)..Len(p) :
                     x = p[j] /\ array[table][x] = d[p[j-1]] /\ j-1 \in 1..(Len(p)-1) /\ p[j-1] \in Slots(capacity)
                /\ \E j \in (i[t]+1)..Len(p) :
                     y = p[j] /\ array[table][y] = d[p[j-1]] /\ j-1 \in 1..(Len(p)-1) /\ p[j-1] \in Slots(capacity)
      <4>1. PICK j \in (i[t]+1)..Len(p) :
                    x = p[j] /\ array[table][x] = d[p[j-1]] /\ j-1 \in 1..(Len(p)-1) /\ p[j-1] \in Slots(capacity)
        BY <3>11
      <4>2. PICK l \in (i[t]+1)..Len(p) :
                    y = p[l] /\ array[table][y] = d[p[l-1]] /\ l-1 \in 1..(Len(p)-1) /\ p[l-1] \in Slots(capacity)
        BY <3>11
      <4>3. p[j-1] = p[l-1]
        BY <2>1, <2>3, <4>1, <4>2
      <4>4. j-1 \in DOMAIN p /\ l-1 \in DOMAIN p
        BY <3>3, <4>1, <4>2
      <4>5. j-1 = l-1
        BY <3>3, <4>3, <4>4 DEF IsPath
      <4>6. j = l
        BY <3>3, <4>5
      <4> QED
        BY <4>1, <4>2, <4>6
    <3> QED
      BY <3>6, <3>7, <3>8, <3>9, <3>10, <3>11
  <2> QED
    BY <2>2, <2>4, <2>5
<1> QED
  BY <1>1, <1>2, <1>3

\* The table a resize has filled.
LEMMA OneAtATimeResizes == IInv /\ SInv => ResizedHoldsAll
<1> SUFFICES ASSUME IInv, SInv, NEW t \in Threads, pc[t] = "refill", i[t] >= old_cap
             PROVE  PairsOf(array[table]) = PairsOf(array[old_tab])
  BY DEF ResizedHoldsAll
<1> TypeOK
  BY DEF IInv, Typed
<1>1. PICK d : Counts(d) /\ Knows(d, t)
  BY DEF SInv
<1>2. array[old_tab] = d /\ Refilled(d, t)
  BY <1>1 DEF Counts, Knows, Filling
<1>3. DOMAIN array[old_tab] = Slots(old_cap)
  BY DEF IInv, Sized, Slots
<1>4. old_cap \in Nat
  BY Bounds DEF TypeOK
<1> QED
  BY <1>2, <1>3, <1>4, HasAll

\* Where no two calls overlap, through any number of resizes: when resize() gives the old
\* mutexes back, the new table has every pair of the old one and no other (lines 664-680).
THEOREM OneAtATimeResizesAll == Spec /\ []OneAtATime => []ResizedHoldsAll
BY OneByOne, Inductive, OneAtATimeResizes, PTL

\* Then every path that is moved is one, no pair is where a lookup does not look, and no key
\* comes twice but while it is moved, in the tables after a resize as in the first one, and
\* whatever is deleted.
THEOREM OneAtATimeKeeps == Spec /\ []OneAtATime => [](MovedPathIsPath /\ PairsInPlace /\ MovedOrOnce)
BY OneByOne, Inductive, OneAtATimeMoves, PTL

\* Only one thread has calls.
OneCaller(w) == \A t, u \in Threads : w[t] # <<>> /\ w[u] # <<>> => t = u

\* With one caller no two calls overlap.
THEOREM OneCallerIsRight ==
  ASSUME \A w \in Workloads : OneCaller(w)
  PROVE  Spec => [](ResizedHoldsAll /\ MovedPathIsPath /\ PairsInPlace /\ MovedOrOnce)
<1>1. Init => OneCaller(todo)
  BY DEF Init
<1>2. IInv /\ OneCaller(todo) /\ [Next]_vars => OneCaller(todo)'
  <2> SUFFICES ASSUME IInv, OneCaller(todo), [Next]_vars, todo' # todo
               PROVE  OneCaller(todo')
    BY DEF OneCaller
  <2>1. PICK t \in Threads : Step(t)
    BY DEF Next, Terminated, vars, callVars
  <2>2. /\ todo \in [Threads -> Seq(Calls)] /\ todo[t] # <<>>
        /\ todo' = [todo EXCEPT ![t] = Tail(@)]
    BY <2>1, CallsShrink DEF IInv, Typed, TypeOK
  <2>3. \A u \in Threads : todo'[u] # <<>> => todo[u] # <<>>
    BY <2>2
  <2> QED
    BY <2>3 DEF OneCaller
<1>3. IInv /\ OneCaller(todo) => OneAtATime
  BY DEF IInv, Typed, OneCaller, OneAtATime
<1>4. Spec => []OneCaller(todo)
  BY <1>1, <1>2, Inductive, PTL DEF Spec
<1>5. Spec => []OneAtATime
  BY <1>3, <1>4, Inductive, PTL
<1> QED
  BY <1>5, OneAtATimeResizesAll, OneAtATimeKeeps, PTL
==============================================================================
