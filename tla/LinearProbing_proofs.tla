------------------------ MODULE LinearProbing_proofs ------------------------
(***************************************************************************)
(* For any number of threads, keys, slots, stripes and resizes: the types   *)
(* of LinearProbing, and that its mutexes guard its slots until they are    *)
(* replaced.  The second needs what a thread's lock has to do with its slot *)
(* (Striped), that it holds the lock (Held), and how far resize() has come   *)
(* with taking all of them (AllHeld).  The types of the arrays need the     *)
(* length of the array that is about to become dict (Sized), and that only  *)
(* one thread resizes at a time (ResizeIsAlone).                            *)
(*                                                                         *)
(* Then, whatever becomes of the mutexes, that no key gets into a second    *)
(* slot and that the size is not behind.  This rests on keys that are        *)
(* inserted once, and needs a history: the set of the keys that have been   *)
(* (Entered), which grows with every pair that is stored, and of which      *)
(* resize() has copied the ones in front of i (CopiedOnce).                 *)
(*                                                                         *)
(* Last, that the table is a map as long as its first mutexes stay.  A call  *)
(* that answers does so by what its thread found in one slot, so this needs  *)
(* what a search has passed (Passed), what a write is aimed at (Aimed), and  *)
(* that the history of a call has what the table has for its key now         *)
(* (Recalled).  A table with room for all keys keeps its first mutexes.      *)
(***************************************************************************)
EXTENDS LinearProbingScans, SequenceTheorems, FiniteSetTheorems, TLAPS

-----------------------------------------------------------------------------
(* Division.                                                               *)

\* What division and remainder are.
LEMMA Euclid ==
  ASSUME NEW x \in Nat, NEW p \in Nat, p >= 1
  PROVE  x \div p \in Nat /\ x % p \in 0..(p-1) /\ x = (p * (x \div p)) + (x % p)
<1>1. x \div p \in Nat
  <2>1. x \div p \in Int /\ x \div p >= 0
    OBVIOUS
  <2>2. QED
    BY <2>1
<1>2. x % p \in 0..(p-1)
  OBVIOUS
<1>3. x = (p * (x \div p)) + (x % p)
  OBVIOUS
<1>4. QED
  BY <1>1, <1>2, <1>3

\* They are the only such numbers.
LEMMA Quotient ==
  ASSUME NEW p \in Nat, p >= 1, NEW b \in Nat, NEW r \in 0..(p-1)
  PROVE  ((p * b) + r) \div p = b
<1> DEFINE x == (p * b) + r
           a == x \div p
<1>1. p * b \in Nat /\ x \in Nat
  OBVIOUS
<1>2. a \in Nat /\ x % p \in 0..(p-1) /\ x = (p * a) + (x % p)
  <2> HIDE DEF x
  <2>1. QED
    BY <1>1, Euclid
<1>3. \A m, n \in Nat : m >= n + 1 => p * m >= (p * n) + p
  OBVIOUS
<1>4. ~ (a >= b + 1)
  <2>1. p * a \in Nat
    BY <1>2
  <2> HIDE DEF a
  <2>2. QED
    BY <1>1, <1>2, <1>3, <2>1
<1>5. ~ (b >= a + 1)
  <2>1. p * a \in Nat
    BY <1>2
  <2> HIDE DEF a
  <2>2. QED
    BY <1>1, <1>2, <1>3, <2>1
<1>6. QED
  BY <1>2, <1>4, <1>5

\* So the remainder is what is left.
LEMMA Remainder ==
  ASSUME NEW p \in Nat, p >= 1, NEW b \in Nat, NEW r \in 0..(p-1)
  PROVE  ((p * b) + r) % p = r
<1> DEFINE x == (p * b) + r
<1>1. p * b \in Nat /\ x \in Nat
  OBVIOUS
<1>2. x \div p = b
  BY Quotient
<1>3. x = (p * (x \div p)) + (x % p) /\ x % p \in 0..(p-1)
  <2> HIDE DEF x
  <2>1. QED
    BY <1>1, Euclid
<1>4. x = (p * b) + (x % p)
  <2> HIDE DEF x
  <2>1. QED
    BY <1>2, <1>3
<1>5. QED
  <2> DEFINE m == p * b
             y == x % p
  <2>1. m \in Nat /\ y \in 0..(p-1) /\ m + r = m + y
    BY <1>1, <1>3, <1>4
  <2> HIDE DEF m, y
  <2>2. y = r
    BY <2>1
  <2>3. QED
    BY <2>2 DEF y

\* Division keeps the order.
LEMMA DivMonotonic ==
  ASSUME NEW x \in Nat, NEW y \in Nat, NEW p \in Nat, p >= 1, x <= y
  PROVE  x \div p <= y \div p /\ y \div p <= y
<1>1. PICK a \in Nat, r \in 0..(p-1) : a = x \div p /\ x = (p * a) + r
  BY Euclid
<1>2. PICK b \in Nat, q \in 0..(p-1) : b = y \div p /\ y = (p * b) + q
  BY Euclid
<1>3. \A m, n \in Nat : m >= n + 1 => p * m >= (p * n) + p
  OBVIOUS
<1>4. p * a \in Nat /\ p * b \in Nat /\ p * b >= b
  OBVIOUS
<1>5. ~ (a >= b + 1)
  BY <1>1, <1>2, <1>3, <1>4
<1>6. QED
  BY <1>1, <1>2, <1>4, <1>5

\* The remainder of the next number is the next one, or zero.
LEMMA NextRemainder ==
  ASSUME NEW x \in Nat, NEW p \in Nat, p >= 1
  PROVE  /\ (x % p) + 1 < p => (x + 1) % p = (x % p) + 1 /\ (x + 1) \div p = x \div p
         /\ (x % p) + 1 >= p => (x + 1) % p = 0
<1>1. PICK a \in Nat, r \in 0..(p-1) : a = x \div p /\ r = x % p /\ x = (p * a) + r
  BY Euclid
<1>2. CASE r + 1 < p
  <2>1. r + 1 \in 0..(p-1) /\ p * a \in Nat /\ x + 1 = (p * a) + (r + 1)
    BY <1>1, <1>2
  <2>2. ((p * a) + (r + 1)) % p = r + 1 /\ ((p * a) + (r + 1)) \div p = a
    BY <2>1, Quotient, Remainder
  <2>3. (x + 1) % p = r + 1 /\ (x + 1) \div p = a
    BY <2>1, <2>2
  <2>4. QED
    BY <1>1, <1>2, <2>3
<1>3. CASE r + 1 >= p
  <2>1. a + 1 \in Nat /\ p * a \in Nat /\ p * (a + 1) = (p * a) + p /\ r + 1 = p
    BY <1>1, <1>3
  <2>2. x + 1 = (p * (a + 1)) + 0 /\ 0 \in 0..(p-1)
    BY <1>1, <2>1
  <2>3. ((p * (a + 1)) + 0) % p = 0
    BY <2>1, <2>2, Remainder
  <2>4. (x + 1) % p = 0
    BY <2>2, <2>3
  <2>5. QED
    BY <1>1, <1>3, <2>4
<1>4. QED
  BY <1>1, <1>2, <1>3


-----------------------------------------------------------------------------
(* The inductive invariant.                                                *)

Arrays == UNION {[0..(cap-1) -> Pair \cup {INVALID}] : cap \in 1..MaxCapacity}

Steps == {"retry", "test", "pick", "lock", "cas", "lock_all", "copy", "set_capacity",
          "set_dict", "unlock_all"} \cup Searching

\* The steps of resize().
Resizing == {"lock_all", "copy", "set_capacity", "set_dict", "unlock_all"}

\* TypeOK, and that the arrays form a sequence; a thread on its way has a call.
Typed ==
  /\ TypeOK
  /\ array \in Seq(Arrays)
  /\ \A t \in Threads : pc[t] # "retry" => todo[t] # <<>>

\* resizing_lock admits one thread to resize().
ResizeIsAlone ==
  \A t \in Threads : pc[t] \in Resizing =>
    /\ resizing_lock = 1
    /\ \A u \in Threads : pc[u] \in Resizing => u = t

\* How far the arrays reach, while they are replaced and otherwise.
Sized ==
  /\ (\A t \in Threads : pc[t] # "set_dict") => DOMAIN array[dict] = 0..(capacity-1)
  /\ \A t \in Threads :
       /\ pc[t] \in {"copy", "set_capacity"} =>
            2 * capacity <= MaxCapacity /\ DOMAIN array[Len(array)] = 0..((2 * capacity) - 1)
       /\ pc[t] = "set_dict" => DOMAIN array[Len(array)] = 0..(capacity-1)
       /\ pc[t] = "copy" => Len(array) >= 2
       /\ pc[t] \in {"set_capacity", "set_dict", "unlock_all"} => mutex >= 2

\* The lock of a thread is that of its slot, and its slot that of its key and i.
Striped ==
  mutex = 1 => \A t \in Threads : pc[t] \in {"lock"} \cup Searching =>
    /\ slot[t] = (Hash[Key(t)] + i[t]) % capacity
    /\ lock[t] = <<1, slot[t] \div locksize>>

\* A thread at a slot holds its lock, as its operation asked for it.
Held ==
  \A t \in Threads : pc[t] \in Searching =>
    /\ Calling(t, "Get") => t \in readers[lock[t]]
    /\ ~ Calling(t, "Get") => writer[lock[t]] = t

\* A mutex held exclusively has no readers.
Exclusion == \A l \in Locks : writer[l] # Nobody => readers[l] = {}

\* The mutexes that resize() has taken so far, and later all of them.
AllHeld ==
  mutex = 1 => \A t \in Threads : \A n \in 0..MaxCapacity :
    \/ pc[t] = "lock_all" /\ n < i[t]
    \/ pc[t] = "copy" /\ n < nlocks(capacity)
    => writer[<<1, n>>] = t

IInv == /\ Typed /\ ResizeIsAlone /\ Sized
        /\ Striped /\ Held /\ Exclusion /\ AllHeld

-----------------------------------------------------------------------------
(* The constants, and what a call is made of.                              *)

\* What the assumption says of the bounds.
LEMMA Bounds ==
  /\ MaxCapacity \in Nat /\ InitCapacity \in 1..MaxCapacity /\ MaxTables \in Nat /\ MaxTables >= 1
  /\ locksize \in Nat /\ locksize >= 1 /\ Nobody \notin Threads
  /\ kResizingThreshold \in Nat
BY ProbingAssumption

\* The call a thread has begun, its key and what remains.
LEMMA CallType ==
  ASSUME Typed, NEW t \in Threads, todo[t] # <<>>
  PROVE  /\ Call(t) \in Calls /\ Key(t) \in Keys /\ Hash[Key(t)] \in Nat
         /\ Tail(todo[t]) \in Seq(Calls)
         /\ Calling(t, "Insert") \/ Calling(t, "Update") => Call(t).value \in Values
<1>1. todo[t] \in Seq(Calls)
  BY DEF Typed, TypeOK
<1>2. Head(todo[t]) \in Calls /\ Tail(todo[t]) \in Seq(Calls)
  BY <1>1
<1>3. Key(t) \in Keys
  BY <1>2 DEF Call, Key, Calls
<1>4. Hash[Key(t)] \in Nat
  BY <1>3, ProbingAssumption
<1>5. QED
  BY <1>2, <1>3, <1>4 DEF Call, Key, Calls, Calling

\* A slot below the capacity has a stripe among those that resize() locks.
LEMMA Stripe ==
  ASSUME Typed, NEW n \in Nat, n < capacity
  PROVE  /\ n \div locksize \in 0..MaxCapacity /\ n \div locksize < nlocks(capacity)
         /\ nlocks(capacity) \in Nat /\ nlocks(capacity) <= MaxCapacity + 1
         /\ capacity \in Nat /\ capacity <= MaxCapacity
<1>1. capacity \in Nat /\ capacity <= MaxCapacity /\ n <= capacity
  BY Bounds DEF Typed, TypeOK
<1>2. n \div locksize <= capacity \div locksize /\ capacity \div locksize <= capacity
  BY <1>1, Bounds, DivMonotonic
<1>3. n \div locksize \in Nat /\ capacity \div locksize \in Nat
  BY <1>1, Bounds, Euclid
<1>4. QED
  BY <1>1, <1>2, <1>3, Bounds DEF nlocks

\* Where InsertMiss goes on without a new lock, the next slot has the same stripe.
LEMMA SameStripe ==
  ASSUME NEW x \in Nat, NEW cap \in Nat, cap >= 1, ((x + 1) % cap) % locksize # 0
  PROVE  ((x + 1) % cap) \div locksize = (x % cap) \div locksize
<1>1. locksize \in Nat /\ locksize >= 1 /\ x % cap \in Nat
  BY Bounds, Euclid
<1>2. (0 % locksize) = 0
  BY <1>1, Remainder, 0 \in 0..(locksize-1), (locksize * 0) + 0 = 0
<1>3. (x + 1) % cap = (x % cap) + 1
  <2>1. /\ (x % cap) + 1 < cap => (x + 1) % cap = (x % cap) + 1
        /\ (x % cap) + 1 >= cap => (x + 1) % cap = 0
    BY NextRemainder
  <2>2. (x + 1) % cap # 0
    <3>1. SUFFICES ASSUME (x + 1) % cap = 0 PROVE ((x + 1) % cap) % locksize = 0
      OBVIOUS
    <3>2. QED
      BY <1>2, <3>1
  <2>3. (x % cap) + 1 < cap \/ (x % cap) + 1 >= cap
    BY <1>1
  <2>4. QED
    BY <2>1, <2>2, <2>3
<1>4. (((x % cap) + 1) % locksize) # 0
  BY <1>3
<1>5. PICK s \in Nat : s = x % cap
  BY <1>1
<1>6. (s + 1) \div locksize = s \div locksize
  <2>1. /\ (s % locksize) + 1 < locksize => (s + 1) \div locksize = s \div locksize
        /\ (s % locksize) + 1 >= locksize => (s + 1) % locksize = 0
    BY <1>1, NextRemainder
  <2>2. (s % locksize) + 1 < locksize \/ (s % locksize) + 1 >= locksize
    <3>1. s % locksize \in Nat
      BY <1>1, Euclid
    <3>2. QED
      BY <1>1, <3>1
  <2>3. QED
    BY <1>4, <1>5, <2>1, <2>2
<1>7. QED
  BY <1>3, <1>5, <1>6

\* Nothing about a thread changes but by its own steps.
LEMMA Others ==
  ASSUME TypeOK, NEW t \in Threads, Step(t), NEW u \in Threads, u # t
  PROVE  /\ pc'[u] = pc[u] /\ todo'[u] = todo[u] /\ i'[u] = i[u]
         /\ slot'[u] = slot[u] /\ lock'[u] = lock[u] /\ from'[u] = from[u]
<1> USE DEF TypeOK, Goto, Return, callVars, localVars
<1>1. CASE AwaitResize(t) \/ TestSize(t) \/ PickSlot(t)
  BY <1>1 DEF AwaitResize, TestSize, PickSlot
<1>2. CASE Exhausted(t) \/ LockSlot(t) \/ LookHit(t)
  BY <1>2 DEF Exhausted, LockSlot, LookHit
<1>3. CASE GetHit(t) \/ InsertMiss(t) \/ LookMiss(t)
  BY <1>3 DEF GetHit, InsertMiss, LookMiss
<1>4. CASE Put(t) \/ Count(t)
  BY <1>4 DEF Put, Count
<1>5. CASE Update(t) \/ Delete(t)
  BY <1>5 DEF Update, Delete
<1>6. CASE TryResize(t) \/ LockAll(t) \/ Allocate(t) \/ CopySlot(t) \/ SetMutex(t)
  BY <1>6 DEF TryResize, LockAll, Allocate, CopySlot, SetMutex
<1>7. CASE SetCapacity(t) \/ SetDict(t) \/ UnlockAll(t) \/ EndResize(t)
  BY <1>7 DEF SetCapacity, SetDict, UnlockAll, EndResize
<1>8. QED
  BY <1>1, <1>2, <1>3, <1>4, <1>5, <1>6, <1>7 DEF Step

-----------------------------------------------------------------------------
(* The types.                                                              *)

\* An array, and what is in its slots.
LEMMA ArrayType ==
  ASSUME NEW a \in Seq(Arrays)
  PROVE  /\ Len(a) \in Nat /\ DOMAIN a = 1..Len(a)
         /\ \A d \in 1..Len(a) :
              /\ \E cap \in 1..MaxCapacity : a[d] \in [0..(cap-1) -> Pair \cup {INVALID}]
              /\ \A x \in DOMAIN a[d] : a[d][x] \in Pair \cup {INVALID}
<1>1. Len(a) \in Nat /\ DOMAIN a = 1..Len(a)
  OBVIOUS
<1>2. ASSUME NEW d \in 1..Len(a)
      PROVE  /\ \E cap \in 1..MaxCapacity : a[d] \in [0..(cap-1) -> Pair \cup {INVALID}]
             /\ \A x \in DOMAIN a[d] : a[d][x] \in Pair \cup {INVALID}
  <2>1. a[d] \in Arrays
    OBVIOUS
  <2>2. PICK cap \in 1..MaxCapacity : a[d] \in [0..(cap-1) -> Pair \cup {INVALID}]
    BY <2>1 DEF Arrays
  <2>3. QED
    BY <2>2
<1>3. QED
  BY <1>1, <1>2

\* Storing a pair to a slot, be it there or not, leaves an array of the same size.
LEMMA StoreType ==
  ASSUME array \in Seq(Arrays), NEW d \in 1..Len(array), NEW x, NEW p,
         x \in DOMAIN array[d] => p \in Pair \cup {INVALID},
         array' = [array EXCEPT ![d] = [array[d] EXCEPT ![x] = p]]
  PROVE  /\ array' \in Seq(Arrays) /\ Len(array') = Len(array)
         /\ \A e \in 1..Len(array) : DOMAIN array'[e] = DOMAIN array[e]
<1>1. PICK cap \in 1..MaxCapacity : array[d] \in [0..(cap-1) -> Pair \cup {INVALID}]
  BY ArrayType
<1>2. [array[d] EXCEPT ![x] = p] \in [0..(cap-1) -> Pair \cup {INVALID}]
  BY <1>1
<1>3. [array[d] EXCEPT ![x] = p] \in Arrays
  BY <1>2 DEF Arrays
<1>4. array' \in Seq(Arrays) /\ Len(array') = Len(array)
  BY <1>3
<1>5. ASSUME NEW e \in 1..Len(array) PROVE DOMAIN array'[e] = DOMAIN array[e]
  <2>1. CASE e = d
    <3>1. array'[d] = [array[d] EXCEPT ![x] = p]
      OBVIOUS
    <3>2. QED
      BY <2>1, <3>1
  <2>2. CASE e # d
    BY <2>2
  <2>3. QED
    BY <2>1, <2>2
<1>6. QED
  BY <1>4, <1>5

\* A thread goes from a step to a step.
LEMMA GotoType ==
  ASSUME TypeOK, NEW t \in Threads, NEW step \in Steps, Goto(t, step)
  PROVE  pc' \in [Threads -> Steps]
BY DEF TypeOK, Goto, Steps

\* The mutexes keep their types when one is locked or unlocked.
LEMMA MutexType ==
  ASSUME TypeOK, NEW t \in Threads, NEW l, Exclusive(t, l) \/ Shared(t, l) \/ Unlock(t, l)
  PROVE  /\ writer' \in [Locks -> Threads \cup {Nobody}]
         /\ readers' \in [Locks -> SUBSET Threads]
<1>1. CASE Exclusive(t, l)
  BY <1>1 DEF TypeOK, Exclusive
<1>2. CASE Shared(t, l)
  BY <1>2 DEF TypeOK, Shared
<1>3. CASE Unlock(t, l)
  <2>1. writer' \in [Locks -> Threads \cup {Nobody}]
    BY <1>3 DEF TypeOK, Unlock
  <2>2. readers' \in [Locks -> SUBSET Threads]
    BY <1>3 DEF TypeOK, Unlock
  <2>3. QED
    BY <2>1, <2>2
<1>4. QED
  BY <1>1, <1>2, <1>3

\* A call that returns leaves the rest of the calls and an answer.
LEMMA ReturnType ==
  ASSUME Typed, NEW t \in Threads, todo[t] # <<>>,
         NEW r \in Values \cup {NONE} \cup BOOLEAN, Return(t, r)
  PROVE  /\ todo' \in [Threads -> Seq(Calls)]
         /\ ret' \in [Threads -> Values \cup {NONE} \cup BOOLEAN]
         /\ pc' \in [Threads -> Steps] /\ pc'[t] = "retry"
<1>1. todo' \in [Threads -> Seq(Calls)]
  BY CallType DEF Typed, TypeOK, Return
<1>2. ret' \in [Threads -> Values \cup {NONE} \cup BOOLEAN]
  BY DEF Typed, TypeOK, Return
<1>3. pc' \in [Threads -> Steps]
  BY GotoType DEF Typed, Return, Steps
<1>4. pc'[t] = "retry"
  BY DEF Typed, TypeOK, Return, Goto
<1>5. QED
  BY <1>1, <1>2, <1>3, <1>4

\* A thread under way keeps its call until it returns.
LEMMA BusyStep ==
  ASSUME Typed, NEW t \in Threads, Step(t), NEW u \in Threads, pc'[u] # "retry"
  PROVE  todo'[u] # <<>> /\ (pc[u] # "retry" => todo'[u] = todo[u])
<1> TypeOK
  BY DEF Typed
<1>1. CASE u # t
  BY <1>1, Others DEF Typed
<1>2. CASE u = t
  <2> USE <1>2 DEF TypeOK, Goto, Return, callVars
  <2>1. CASE AwaitResize(t)
    BY <2>1 DEF AwaitResize
  <2>2. CASE TestSize(t) \/ PickSlot(t) \/ LockSlot(t) \/ LookHit(t)
    BY <2>2 DEF Typed, TestSize, PickSlot, LockSlot, LookHit
  <2>3. CASE Exhausted(t) \/ GetHit(t) \/ Update(t) \/ Delete(t)
    BY <2>3 DEF Typed, Exhausted, GetHit, Update, Delete
  <2>4. CASE InsertMiss(t) \/ LookMiss(t) \/ Put(t)
    BY <2>4 DEF Typed, InsertMiss, LookMiss, Put
  <2>5. CASE Count(t)
    BY <2>5 DEF Typed, Count
  <2>6. CASE TryResize(t) \/ LockAll(t) \/ Allocate(t) \/ CopySlot(t) \/ SetMutex(t)
    BY <2>6 DEF Typed, TryResize, LockAll, Allocate, CopySlot, SetMutex
  <2>7. CASE SetCapacity(t) \/ SetDict(t) \/ UnlockAll(t) \/ EndResize(t)
    BY <2>7 DEF Typed, SetCapacity, SetDict, UnlockAll, EndResize
  <2>8. QED
    BY <2>1, <2>2, <2>3, <2>4, <2>5, <2>6, <2>7 DEF Step
<1>3. QED
  BY <1>1, <1>2

\* Which steps change what the threads share.
LEMMA Frames ==
  ASSUME NEW t \in Threads, Step(t)
  PROVE  /\ SetDict(t) \/ dict' = dict
         /\ SetCapacity(t) \/ capacity' = capacity
         /\ SetMutex(t) \/ mutex' = mutex
         /\ TryResize(t) \/ EndResize(t) \/ resizing_lock' = resizing_lock
         /\ Count(t) \/ size' = size
         /\ Put(t) \/ Update(t) \/ Delete(t) \/ Allocate(t) \/ CopySlot(t) \/ array' = array
<1> USE DEF fieldVars
<1>1. CASE AwaitResize(t) \/ TestSize(t) \/ PickSlot(t) \/ Exhausted(t) \/ LockSlot(t) \/ LookHit(t)
  BY <1>1 DEF AwaitResize, TestSize, PickSlot, Exhausted, LockSlot, LookHit
<1>2. CASE GetHit(t) \/ InsertMiss(t) \/ LookMiss(t) \/ Put(t) \/ Count(t) \/ Update(t) \/ Delete(t)
  BY <1>2 DEF GetHit, InsertMiss, LookMiss, Put, Count, Update, Delete
<1>3. CASE TryResize(t) \/ LockAll(t) \/ Allocate(t) \/ CopySlot(t) \/ SetMutex(t)
  BY <1>3 DEF TryResize, LockAll, Allocate, CopySlot, SetMutex
<1>4. CASE SetCapacity(t) \/ SetDict(t) \/ UnlockAll(t) \/ EndResize(t)
  BY <1>4 DEF SetCapacity, SetDict, UnlockAll, EndResize
<1>5. QED
  BY <1>1, <1>2, <1>3, <1>4 DEF Step

\* Only resize() replaces what it replaces; its arrays are never shorter.
LEMMA ArrayStep ==
  ASSUME IInv, NEW t \in Threads, Step(t)
  PROVE  /\ array' \in Seq(Arrays) /\ Len(array') \in Nat
         /\ Len(array) <= Len(array') /\ Len(array') <= MaxTables
         /\ \A d \in 1..Len(array) : DOMAIN array'[d] = DOMAIN array[d]
         /\ Allocate(t) \/ Len(array') = Len(array)
<1> Typed /\ TypeOK /\ array \in Seq(Arrays)
  BY DEF IInv, Typed
<1> Len(array) \in Nat /\ Len(array) <= MaxTables
  BY ArrayType DEF TypeOK
<1> dict \in 1..Len(array) /\ from[t] \in 1..Len(array)
  BY DEF TypeOK
<1>1. ASSUME NEW d \in 1..Len(array), NEW x, NEW p,
             x \in DOMAIN array[d] => p \in Pair \cup {INVALID},
             array' = [array EXCEPT ![d] = [array[d] EXCEPT ![x] = p]]
      PROVE  /\ array' \in Seq(Arrays) /\ Len(array') = Len(array)
             /\ \A e \in 1..Len(array) : DOMAIN array'[e] = DOMAIN array[e]
             /\ Len(array) <= Len(array') /\ Len(array') <= MaxTables
  <2>1. /\ array' \in Seq(Arrays) /\ Len(array') = Len(array)
        /\ \A e \in 1..Len(array) : DOMAIN array'[e] = DOMAIN array[e]
    BY <1>1, StoreType
  <2>2. QED
    BY <2>1
<1>2. CASE Put(t)
  <2>1. [key |-> Key(t), value |-> Call(t).value] \in Pair
    <3>1. todo[t] # <<>>
      BY <1>2 DEF Put, Calling
    <3>2. QED
      BY <1>2, <3>1, CallType DEF Put, Pair
  <2>2. PICK d \in Kept(t) :
          array' = [array EXCEPT ![d] = [array[d] EXCEPT
                      ![slot[t]] = [key |-> Key(t), value |-> Call(t).value]]]
    BY <1>2 DEF Put
  <2>3. d \in 1..Len(array)
    BY <2>2 DEF Kept
  <2>4. QED
    BY <1>1, <2>1, <2>2, <2>3
<1>3. CASE Update(t)
  <2> DEFINE changed(p) == IF p = INVALID THEN p ELSE [p EXCEPT !.value = Call(t).value]
  <2>1. PICK d \in Kept(t) :
          array' = [array EXCEPT ![d] = [array[d] EXCEPT ![slot[t]] = changed(array[d][slot[t]])]]
    BY <1>3 DEF Update
  <2>2. d \in 1..Len(array)
    BY <2>1 DEF Kept
  <2>3. slot[t] \in DOMAIN array[d] => changed(array[d][slot[t]]) \in Pair \cup {INVALID}
    <3>1. Call(t).value \in Values
      BY <1>3, CallType DEF Update, Calling
    <3>2. slot[t] \in DOMAIN array[d] => array[d][slot[t]] \in Pair \cup {INVALID}
      BY <2>2, ArrayType
    <3>3. QED
      BY <3>1, <3>2 DEF Pair
  <2> HIDE DEF changed
  <2>4. QED
    BY <1>1, <2>1, <2>2, <2>3
<1>4. CASE Delete(t)
  <2>1. PICK d \in Kept(t) : array' = [array EXCEPT ![d] = [array[d] EXCEPT ![slot[t]] = INVALID]]
    BY <1>4 DEF Delete
  <2>2. d \in 1..Len(array)
    BY <2>1 DEF Kept
  <2>3. QED
    BY <1>1, <2>1, <2>2
<1>5. CASE CopySlot(t)
  <2> DEFINE p == array[dict][i[t]]
             loc == getLocation(Hash[p.key], 2 * capacity, array[Len(array)])
  <2>1. CASE p = INVALID
    BY <1>5, <2>1 DEF CopySlot
  <2>2. CASE p # INVALID
    <3>1. array' = [array EXCEPT ![Len(array)] = [array[Len(array)] EXCEPT ![loc] = p]]
      BY <1>5, <2>2 DEF CopySlot
    <3>2. p \in Pair \cup {INVALID}
      <4>1. i[t] \in DOMAIN array[dict]
        <5>1. \A u \in Threads : pc[u] # "set_dict"
          BY <1>5 DEF CopySlot, IInv, ResizeIsAlone, Resizing
        <5>2. DOMAIN array[dict] = 0..(capacity-1)
          BY <5>1 DEF IInv, Sized
        <5>3. i[t] \in Nat /\ i[t] < capacity /\ capacity \in Nat
          BY <1>5, Bounds DEF CopySlot, TypeOK
        <5>4. QED
          BY <5>2, <5>3
      <4>2. QED
        BY <4>1, ArrayType
    <3>3. Len(array) \in 1..Len(array)
      OBVIOUS
    <3> HIDE DEF p, loc
    <3>4. QED
      BY <1>1, <3>1, <3>2, <3>3
  <2>3. QED
    BY <2>1, <2>2
<1>6. CASE Allocate(t)
  <2>1. Empty(2 * capacity) \in Arrays
    <3>1. 2 * capacity \in 1..MaxCapacity
      BY <1>6, Bounds DEF Allocate, TypeOK
    <3>2. Empty(2 * capacity) \in [0..((2 * capacity)-1) -> Pair \cup {INVALID}]
      BY DEF Empty
    <3>3. QED
      BY <3>1, <3>2 DEF Arrays
  <2>2. array' = Append(array, Empty(2 * capacity)) /\ Len(array) < MaxTables
    BY <1>6 DEF Allocate
  <2>3. /\ array' \in Seq(Arrays) /\ Len(array') = Len(array) + 1
        /\ \A d \in 1..Len(array) : array'[d] = array[d]
    BY <2>1, <2>2, AppendProperties
  <2>4. QED
    BY <1>6, <2>2, <2>3, Bounds
<1>7. CASE array' = array
  BY <1>7
<1>8. QED
  BY ZenonT(60), <1>1, <1>2, <1>3, <1>4, <1>5, <1>6, <1>7, Frames DEF Put, Update, Delete, CopySlot

\* The fields of the table keep their types.
LEMMA FieldsStep ==
  ASSUME IInv, NEW t \in Threads, Step(t)
  PROVE  /\ dict' \in 1..Len(array') /\ mutex' \in 1..Len(array')
         /\ capacity' \in 1..MaxCapacity /\ size' \in Nat /\ resizing_lock' \in {0, 1}
<1> Typed /\ TypeOK
  BY DEF IInv, Typed
<1> /\ Len(array) \in Nat /\ Len(array') \in Nat /\ Len(array) <= Len(array')
    /\ MaxCapacity \in Nat /\ Len(array) >= 1
  BY ArrayStep, ArrayType, Bounds DEF Typed, TypeOK
<1>1. dict' \in 1..Len(array')
  <2>1. CASE SetDict(t)
    BY <2>1 DEF SetDict
  <2>2. CASE dict' = dict
    BY <2>2 DEF TypeOK
  <2>3. QED
    BY <2>1, <2>2, Frames
<1>2. mutex' \in 1..Len(array')
  <2>1. CASE SetMutex(t)
    BY <2>1 DEF SetMutex
  <2>2. CASE mutex' = mutex
    BY <2>2 DEF TypeOK
  <2>3. QED
    BY <2>1, <2>2, Frames
<1>3. capacity' \in 1..MaxCapacity
  <2>1. CASE SetCapacity(t)
    <3>1. pc[t] = "set_capacity" /\ capacity' = 2 * capacity
      BY <2>1 DEF SetCapacity
    <3>2. 2 * capacity <= MaxCapacity
      BY <3>1 DEF IInv, Sized
    <3>3. capacity \in 1..MaxCapacity
      BY DEF TypeOK
    <3>4. QED
      BY <3>1, <3>2, <3>3
  <2>2. CASE capacity' = capacity
    BY <2>2 DEF TypeOK
  <2>3. QED
    BY <2>1, <2>2, Frames
<1>4. size' \in Nat
  <2>1. size \in Nat
    BY DEF TypeOK
  <2>2. CASE Count(t)
    BY <2>1, <2>2 DEF Count
  <2>3. QED
    BY <2>1, <2>2, Frames
<1>5. resizing_lock' \in {0, 1}
  BY Frames DEF TryResize, EndResize, TypeOK
<1>6. QED
  BY <1>1, <1>2, <1>3, <1>4, <1>5

\* A step locks or unlocks one mutex at most.
LEMMA MutexFrame ==
  ASSUME NEW t \in Threads, Step(t)
  PROVE  \/ UNCHANGED mutexVars
         \/ \E l : Exclusive(t, l) \/ Shared(t, l) \/ Unlock(t, l)
<1>1. CASE AwaitResize(t) \/ TestSize(t) \/ PickSlot(t) \/ Exhausted(t) \/ LookHit(t) \/ Put(t)
  BY <1>1 DEF AwaitResize, TestSize, PickSlot, Exhausted, LookHit, Put
<1>2. CASE LockSlot(t) \/ GetHit(t) \/ InsertMiss(t) \/ LookMiss(t)
  BY <1>2 DEF LockSlot, GetHit, InsertMiss, LookMiss
<1>3. CASE Count(t) \/ Update(t) \/ Delete(t)
  BY <1>3 DEF Count, Update, Delete
<1>4. CASE TryResize(t) \/ LockAll(t) \/ Allocate(t) \/ CopySlot(t) \/ SetMutex(t)
  BY <1>4 DEF TryResize, LockAll, Allocate, CopySlot, SetMutex
<1>5. CASE SetCapacity(t) \/ SetDict(t) \/ UnlockAll(t) \/ EndResize(t)
  BY <1>5 DEF SetCapacity, SetDict, UnlockAll, EndResize
<1>6. QED
  BY <1>1, <1>2, <1>3, <1>4, <1>5 DEF Step

\* The mutexes keep their types.
LEMMA MutexesStep ==
  ASSUME IInv, NEW t \in Threads, Step(t)
  PROVE  /\ writer' \in [Locks -> Threads \cup {Nobody}]
         /\ readers' \in [Locks -> SUBSET Threads]
<1> TypeOK
  BY DEF IInv, Typed
<1>1. CASE UNCHANGED mutexVars
  BY <1>1 DEF mutexVars, TypeOK
<1>2. QED
  BY <1>1, MutexFrame, MutexType

\* The locals of a thread keep their types.
LEMMA LocalsStep ==
  ASSUME IInv, NEW t \in Threads, Step(t)
  PROVE  /\ i' \in [Threads -> Nat] /\ slot' \in [Threads -> Nat] /\ size_' \in [Threads -> Nat]
         /\ lock' \in [Threads -> Locks] /\ from' \in [Threads -> 1..Len(array')]
<1> Typed /\ TypeOK
  BY DEF IInv, Typed
<1> /\ i \in [Threads -> Nat] /\ slot \in [Threads -> Nat] /\ size_ \in [Threads -> Nat]
    /\ lock \in [Threads -> Locks] /\ size \in Nat
  BY DEF TypeOK
<1>1. from \in [Threads -> 1..Len(array')] /\ dict \in 1..Len(array')
  <2>1. 1..Len(array) \subseteq 1..Len(array')
    BY ArrayStep, ArrayType DEF Typed
  <2>2. QED
    BY <2>1 DEF TypeOK
<1>2. capacity \in Nat /\ capacity >= 1
  BY Bounds DEF TypeOK
<1> USE DEF localVars
<1>3. CASE AwaitResize(t) \/ TryResize(t) \/ LockAll(t) \/ Allocate(t) \/ CopySlot(t) \/ SetDict(t)
           \/ UnlockAll(t) \/ LookMiss(t)
  <2>1. \/ i' = [i EXCEPT ![t] = 0]
        \/ i' = [i EXCEPT ![t] = i[t] + 1]
    BY <1>3 DEF AwaitResize, TryResize, LockAll, Allocate, CopySlot, SetDict, UnlockAll, LookMiss
  <2>2. i' \in [Threads -> Nat]
    BY <2>1
  <2>3. UNCHANGED <<slot, lock, from, size_>>
    BY <1>3 DEF AwaitResize, TryResize, LockAll, Allocate, CopySlot, SetDict, UnlockAll, LookMiss
  <2>4. QED
    BY <1>1, <2>2, <2>3
<1>4. CASE TestSize(t) \/ Exhausted(t) \/ LookHit(t) \/ GetHit(t) \/ Update(t) \/ Delete(t)
           \/ SetMutex(t) \/ SetCapacity(t) \/ EndResize(t)
  BY <1>1, <1>4 DEF TestSize, Exhausted, LookHit, GetHit, Update, Delete, SetMutex,
     SetCapacity, EndResize
<1>5. CASE PickSlot(t)
  <2>1. Hash[Key(t)] + i[t] \in Nat
    <3>1. todo[t] # <<>>
      BY <1>5 DEF PickSlot, Typed
    <3>2. QED
      BY <3>1, CallType
  <2>2. PICK n \in Nat : n < capacity /\ n = (Hash[Key(t)] + i[t]) % capacity
    <3>1. \A x \in Nat : x % capacity \in 0..(capacity-1)
      BY <1>2, Euclid
    <3>2. QED
      BY <1>2, <2>1, <3>1
  <2>3. n \div locksize \in 0..MaxCapacity
    BY <2>2, Stripe
  <2>4. mutex \in 1..MaxTables
    BY Bounds, ArrayType DEF Typed, TypeOK
  <2>5. <<mutex, n \div locksize>> \in Locks
    BY <2>3, <2>4 DEF Locks
  <2>6. slot' = [slot EXCEPT ![t] = n] /\ lock' = [lock EXCEPT ![t] = <<mutex, n \div locksize>>]
    BY <1>5, <2>2 DEF PickSlot
  <2>7. UNCHANGED <<i, from, size_>>
    BY <1>5 DEF PickSlot
  <2>8. QED
    BY <1>1, <2>2, <2>5, <2>6, <2>7
<1>6. CASE LockSlot(t)
  BY <1>1, <1>6 DEF LockSlot
<1>7. CASE InsertMiss(t)
  <2>1. Hash[Key(t)] + i[t] + 1 \in Nat
    BY <1>7, CallType DEF InsertMiss, Calling
  <2>2. PICK n \in Nat : n = (Hash[Key(t)] + i[t] + 1) % capacity
    <3>1. \A x \in Nat : x % capacity \in 0..(capacity-1)
      BY <1>2, Euclid
    <3>2. QED
      BY <1>2, <2>1, <3>1
  <2>3. slot' = [slot EXCEPT ![t] = n] /\ i' = [i EXCEPT ![t] = i[t] + 1]
        /\ UNCHANGED <<lock, from, size_>>
    BY <1>7, <2>2 DEF InsertMiss
  <2>4. QED
    BY <1>1, <2>2, <2>3
<1>8. CASE Put(t) \/ Count(t)
  BY <1>1, <1>8 DEF Put, Count
<1>9. QED
  BY <1>3, <1>4, <1>5, <1>6, <1>7, <1>8 DEF Step

\* Every thread goes from step to step, with the rest of its calls and an answer.
LEMMA CallsStep ==
  ASSUME IInv, NEW t \in Threads, Step(t)
  PROVE  /\ pc' \in [Threads -> Steps] /\ todo' \in [Threads -> Seq(Calls)]
         /\ ret' \in [Threads -> Values \cup {NONE} \cup BOOLEAN]
<1> Typed /\ TypeOK /\ pc \in [Threads -> Steps]
  BY DEF IInv, Typed, TypeOK, Steps
<1>1. CASE \E step \in Steps : Goto(t, step) /\ UNCHANGED callVars
  BY <1>1, GotoType DEF callVars, TypeOK
<1>2. CASE UNCHANGED <<callVars, pc>>
  BY <1>2 DEF callVars, TypeOK
<1>3. CASE todo[t] # <<>> /\ \E r \in Values \cup {NONE} \cup BOOLEAN : Return(t, r)
  BY <1>3, ReturnType
<1>4. CASE AwaitResize(t) \/ TestSize(t) \/ PickSlot(t) \/ LockSlot(t) \/ LookHit(t)
  BY <1>1, <1>4 DEF AwaitResize, TestSize, PickSlot, LockSlot, LookHit, Steps, Searching
<1>5. CASE Exhausted(t)
  BY <1>1, <1>3, <1>5 DEF Exhausted, Typed, Steps
<1>6. CASE GetHit(t)
  <2>1. PICK p \in Read(t) : p # INVALID /\ Return(t, p.value)
    BY <1>6 DEF GetHit, Holds
  <2>2. p \in Pair \cup {INVALID}
    <3>1. PICK d \in Kept(t) :
            p \in IF slot[t] \in DOMAIN array[d] THEN {array[d][slot[t]]} ELSE Pair \cup {INVALID}
      BY DEF Read
    <3>2. d \in 1..Len(array)
      BY DEF Kept, TypeOK
    <3>3. QED
      BY <3>1, <3>2, ArrayType DEF Typed
  <2>3. p.value \in Values
    BY <2>1, <2>2 DEF Pair
  <2>4. QED
    BY <1>3, <1>6, <2>1, <2>3 DEF GetHit, Calling
<1>7. CASE InsertMiss(t) \/ LookMiss(t)
  BY <1>1, <1>2, <1>7 DEF InsertMiss, LookMiss, Steps, callVars
<1>8. CASE Put(t) \/ Count(t) \/ Update(t) \/ Delete(t)
  <2>1. CASE Put(t)
    BY <1>1, <2>1 DEF Put, Steps, Searching
  <2>2. CASE Count(t)
    BY <1>2, <1>3, <2>2 DEF Count, Typed, callVars
  <2>3. CASE Update(t) \/ Delete(t)
    BY <1>3, <2>3 DEF Update, Delete, Typed
  <2>4. QED
    BY <1>8, <2>1, <2>2, <2>3
<1>9. CASE TryResize(t) \/ LockAll(t) \/ Allocate(t) \/ CopySlot(t) \/ SetMutex(t)
  BY <1>1, <1>2, <1>9 DEF TryResize, LockAll, Allocate, CopySlot, SetMutex, Steps, callVars
<1>10. CASE SetCapacity(t) \/ SetDict(t) \/ UnlockAll(t) \/ EndResize(t)
  BY <1>1, <1>2, <1>10 DEF SetCapacity, SetDict, UnlockAll, EndResize, Steps, callVars
<1>11. QED
  BY <1>4, <1>5, <1>6, <1>7, <1>8, <1>9, <1>10 DEF Step

\* Types are kept.
LEMMA TypedStep ==
  ASSUME IInv, NEW t \in Threads, Step(t)
  PROVE  Typed'
<1>1. array' \in Seq(Arrays) /\ Len(array') <= MaxTables
  BY ArrayStep
<1>2. /\ DOMAIN array' = 1..Len(array')
      /\ \A d \in DOMAIN array' : \E cap \in 1..MaxCapacity :
           array'[d] \in [0..(cap-1) -> Pair \cup {INVALID}]
  BY <1>1, ArrayType
<1>3. TypeOK'
  BY <1>1, <1>2, FieldsStep, MutexesStep, LocalsStep, CallsStep DEF TypeOK, Steps
<1>4. QED
  BY <1>1, <1>3, BusyStep DEF Typed, IInv

-----------------------------------------------------------------------------
(* Resizing.                                                               *)

\* resizing_lock is kept by who resizes.
LEMMA AloneStep ==
  ASSUME IInv, NEW t \in Threads, Step(t)
  PROVE  ResizeIsAlone'
<1> TypeOK /\ ResizeIsAlone
  BY DEF IInv, Typed
<1>1. \A u \in Threads : u # t => pc'[u] = pc[u]
  BY Others
<1>2. CASE TryResize(t)
  <2>1. CASE resizing_lock = 0
    <3>1. \A u \in Threads : pc[u] \notin Resizing
      BY <2>1 DEF ResizeIsAlone
    <3>2. resizing_lock' = 1
      BY <1>2, <2>1 DEF TryResize
    <3>3. QED
      BY <1>1, <3>1, <3>2 DEF ResizeIsAlone
  <2>2. CASE resizing_lock # 0
    <3>1. pc'[t] = "retry" /\ resizing_lock' = resizing_lock
      BY <1>2, <2>2 DEF TryResize, Goto, TypeOK
    <3>2. QED
      BY <1>1, <3>1 DEF ResizeIsAlone, Resizing
  <2>3. QED
    BY <2>1, <2>2
<1>3. CASE EndResize(t)
  <2>1. pc[t] \in Resizing /\ pc'[t] = "retry"
    BY <1>3 DEF EndResize, Resizing, Goto, TypeOK
  <2>2. QED
    BY <1>1, <2>1 DEF ResizeIsAlone, Resizing
<1>4. CASE ~ TryResize(t) /\ ~ EndResize(t)
  <2>1. pc'[t] \in Resizing => pc[t] \in Resizing
    <3> USE DEF Goto, Return, Resizing, TypeOK
    <3>1. CASE AwaitResize(t) \/ TestSize(t) \/ PickSlot(t) \/ LockSlot(t) \/ LookHit(t)
      BY <3>1 DEF AwaitResize, TestSize, PickSlot, LockSlot, LookHit
    <3>2. CASE Exhausted(t) \/ GetHit(t) \/ InsertMiss(t) \/ LookMiss(t)
      BY <3>2 DEF Exhausted, GetHit, InsertMiss, LookMiss
    <3>3. CASE Put(t) \/ Count(t) \/ Update(t) \/ Delete(t)
      BY <3>3 DEF Put, Count, Update, Delete
    <3>4. CASE \/ LockAll(t) \/ Allocate(t) \/ CopySlot(t) \/ SetMutex(t) \/ SetCapacity(t)
               \/ SetDict(t) \/ UnlockAll(t)
      BY <3>4 DEF LockAll, Allocate, CopySlot, SetMutex, SetCapacity, SetDict, UnlockAll
    <3>5. QED
      BY <1>4, <3>1, <3>2, <3>3, <3>4 DEF Step
  <2>2. resizing_lock' = resizing_lock
    BY <1>4, Frames
  <2>3. QED
    BY <1>1, <2>1, <2>2 DEF ResizeIsAlone
<1>5. QED
  BY <1>2, <1>3, <1>4

\* Which steps lead on within resize(), beyond the locking.
LEMMA ResizeFrame ==
  ASSUME TypeOK, NEW t \in Threads, Step(t)
  PROVE  \/ Allocate(t) \/ SetMutex(t) \/ SetCapacity(t) \/ SetDict(t)
         \/ /\ pc'[t] \in {"copy", "set_capacity", "set_dict", "unlock_all"} => pc'[t] = pc[t]
            /\ pc[t] # "set_dict"
<1> USE DEF Goto, Return, TypeOK
<1>1. CASE AwaitResize(t) \/ TestSize(t) \/ PickSlot(t) \/ LockSlot(t) \/ LookHit(t)
  BY <1>1 DEF AwaitResize, TestSize, PickSlot, LockSlot, LookHit
<1>2. CASE Exhausted(t) \/ GetHit(t) \/ InsertMiss(t) \/ LookMiss(t)
  BY <1>2 DEF Exhausted, GetHit, InsertMiss, LookMiss
<1>3. CASE Put(t) \/ Count(t) \/ Update(t) \/ Delete(t)
  BY <1>3 DEF Put, Count, Update, Delete
<1>4. CASE TryResize(t) \/ LockAll(t) \/ CopySlot(t) \/ UnlockAll(t) \/ EndResize(t)
  BY <1>4 DEF TryResize, LockAll, CopySlot, UnlockAll, EndResize
<1>5. QED
  BY <1>1, <1>2, <1>3, <1>4 DEF Step

\* The arrays are as long as the code takes them to be.
LEMMA SizedStep ==
  ASSUME IInv, NEW t \in Threads, Step(t)
  PROVE  Sized'
<1> Typed /\ TypeOK /\ Sized /\ ResizeIsAlone
  BY DEF IInv, Typed
<1>1. \A u \in Threads : u # t => pc'[u] = pc[u]
  BY Others
<1>2. /\ Len(array) \in Nat /\ Len(array) >= 1 /\ dict \in 1..Len(array)
      /\ capacity \in Nat /\ Len(array) \in 1..Len(array)
      /\ \A d \in 1..Len(array) : DOMAIN array'[d] = DOMAIN array[d]
  <2>1. Len(array) \in Nat /\ dict \in 1..Len(array)
    BY ArrayType DEF Typed, TypeOK
  <2>2. capacity \in Nat
    BY Bounds DEF TypeOK
  <2>3. QED
    BY <2>1, <2>2, ArrayStep
<1>3. ASSUME pc[t] \in Resizing PROVE \A u \in Threads : u # t => pc'[u] \notin Resizing
  BY <1>1, <1>3 DEF ResizeIsAlone
<1>4. CASE Allocate(t)
  <2>1. Empty(2 * capacity) \in Arrays
    <3>1. 2 * capacity \in 1..MaxCapacity
      BY <1>4, Bounds DEF Allocate, TypeOK
    <3>2. Empty(2 * capacity) \in [0..((2 * capacity)-1) -> Pair \cup {INVALID}]
      BY DEF Empty
    <3>3. QED
      BY <3>1, <3>2 DEF Arrays
  <2>2. Len(array') = Len(array) + 1 /\ array'[Len(array) + 1] = Empty(2 * capacity)
    BY <1>4, <2>1, AppendProperties DEF Allocate, Typed
  <2>3. DOMAIN array'[Len(array')] = 0..((2 * capacity) - 1)
    BY <2>2 DEF Empty
  <2>4. /\ dict' = dict /\ capacity' = capacity /\ pc[t] = "lock_all" /\ pc'[t] = "copy"
        /\ 2 * capacity <= MaxCapacity
    BY <1>4 DEF Allocate, fieldVars, Goto, TypeOK
  <2>5. \A u \in Threads : u # t => pc'[u] \notin Resizing /\ pc[u] \notin Resizing
    BY <1>1, <1>3, <2>4 DEF Resizing
  <2>6. DOMAIN array'[dict'] = 0..(capacity'-1)
    BY <1>2, <2>4, <2>5 DEF Sized, Resizing
  <2>7. QED
    BY <1>2, <2>2, <2>3, <2>4, <2>5, <2>6 DEF Sized, Resizing
<1>5. CASE SetMutex(t)
  <2>1. /\ dict' = dict /\ capacity' = capacity /\ pc[t] = "copy" /\ pc'[t] = "set_capacity"
        /\ array' = array /\ mutex' = Len(array)
    BY <1>5 DEF SetMutex, Goto, TypeOK
  <2>2. \A u \in Threads : u # t => pc'[u] \notin Resizing /\ pc[u] \notin Resizing
    BY <1>1, <1>3, <2>1 DEF Resizing
  <2>3. QED
    BY <2>1, <2>2 DEF Sized, Resizing
<1>6. CASE SetCapacity(t)
  <2>1. /\ dict' = dict /\ capacity' = 2 * capacity /\ pc[t] = "set_capacity"
        /\ pc'[t] = "set_dict" /\ array' = array /\ mutex' = mutex
    BY <1>6 DEF SetCapacity, Goto, TypeOK
  <2>2. \A u \in Threads : u # t => pc'[u] \notin Resizing /\ pc[u] \notin Resizing
    BY <1>1, <1>3, <2>1 DEF Resizing
  <2>3. QED
    BY <2>1, <2>2 DEF Sized, Resizing
<1>7. CASE SetDict(t)
  <2>1. /\ dict' = Len(array) /\ capacity' = capacity /\ pc[t] = "set_dict"
        /\ pc'[t] = "unlock_all" /\ array' = array /\ mutex' = mutex
    BY <1>7 DEF SetDict, Goto, TypeOK
  <2>2. \A u \in Threads : u # t => pc'[u] \notin Resizing /\ pc[u] \notin Resizing
    BY <1>1, <1>3, <2>1 DEF Resizing
  <2>3. QED
    BY <2>1, <2>2 DEF Sized, Resizing
<1>8. CASE ~ Allocate(t) /\ ~ SetMutex(t) /\ ~ SetCapacity(t) /\ ~ SetDict(t)
  <2>1. /\ dict' = dict /\ capacity' = capacity /\ mutex' = mutex /\ Len(array') = Len(array)
    BY <1>8, Frames, ArrayStep
  <2>2. /\ pc'[t] \in {"copy", "set_capacity", "set_dict", "unlock_all"} => pc'[t] = pc[t]
        /\ pc[t] # "set_dict"
    BY <1>8, ResizeFrame
  <2>3. \A u \in Threads :
          /\ pc'[u] \in {"copy", "set_capacity", "set_dict", "unlock_all"} => pc'[u] = pc[u]
          /\ pc[u] = "set_dict" => pc'[u] = "set_dict"
    BY <1>1, <2>2
  <2>4. DOMAIN array'[dict] = DOMAIN array[dict]
        /\ DOMAIN array'[Len(array)] = DOMAIN array[Len(array)]
    BY <1>2
  <2>5. QED
    BY <2>1, <2>3, <2>4 DEF Sized
<1>9. QED
  BY <1>4, <1>5, <1>6, <1>7, <1>8

-----------------------------------------------------------------------------
(* The mutexes.                                                            *)

\* The first mutexes and the first capacity go together, and do not come back.
LEMMA FirstMutexes ==
  ASSUME IInv, NEW t \in Threads, Step(t), mutex' = 1
  PROVE  mutex = 1 /\ capacity' = capacity
<1>1. mutex = 1
  <2>1. CASE SetMutex(t)
    <3>1. Len(array) \in Nat /\ Len(array) >= 2
      BY <2>1, ArrayType DEF SetMutex, IInv, Typed, Sized
    <3>2. mutex' = Len(array)
      BY <2>1 DEF SetMutex
    <3>3. Len(array) = 1
      BY <3>2
    <3>4. QED
      BY <3>1, <3>3
  <2>2. QED
    BY <2>1, Frames
<1>2. capacity' = capacity
  <2>1. CASE SetCapacity(t)
    BY <1>1, <2>1 DEF SetCapacity, IInv, Sized
  <2>2. QED
    BY <2>1, Frames
<1>3. QED
  BY <1>1, <1>2

\* How a thread gets to a slot, and how it stays there.
LEMMA AtSlot ==
  ASSUME IInv, NEW t \in Threads, Step(t), pc'[t] \in {"lock"} \cup Searching
  PROVE  \/ PickSlot(t) /\ pc'[t] = "lock"
         \/ LockSlot(t) /\ pc[t] = "lock" /\ UNCHANGED <<todo, i, slot, lock>>
         \/ InsertMiss(t) /\ pc[t] = "look" /\ UNCHANGED <<pc, todo, lock, mutexVars>>
         \/ pc[t] \in Searching /\ pc'[t] # "lock" /\ UNCHANGED <<todo, i, slot, lock, mutexVars>>
<1> TypeOK
  BY DEF IInv, Typed
<1> USE DEF Goto, Return, TypeOK, Searching, callVars, localVars, mutexVars
<1>1. CASE PickSlot(t)
  BY <1>1 DEF PickSlot
<1>2. CASE LockSlot(t)
  BY <1>2 DEF LockSlot
<1>3. CASE InsertMiss(t)
  BY <1>3 DEF InsertMiss
<1>4. CASE LookHit(t) \/ Put(t)
  BY <1>4 DEF LookHit, Put
<1>5. CASE Count(t)
  BY <1>5 DEF Count
<1>6. CASE AwaitResize(t) \/ TestSize(t) \/ Exhausted(t) \/ GetHit(t) \/ LookMiss(t)
  BY <1>6 DEF AwaitResize, TestSize, Exhausted, GetHit, LookMiss
<1>7. CASE Update(t) \/ Delete(t)
  BY <1>7 DEF Update, Delete
<1>8. CASE TryResize(t) \/ LockAll(t) \/ Allocate(t) \/ CopySlot(t) \/ SetMutex(t)
  BY SMTT(60), <1>8 DEF TryResize, LockAll, Allocate, CopySlot, SetMutex
<1>9. CASE SetCapacity(t) \/ SetDict(t) \/ UnlockAll(t) \/ EndResize(t)
  BY <1>9 DEF SetCapacity, SetDict, UnlockAll, EndResize
<1>10. QED
  BY <1>1, <1>2, <1>3, <1>4, <1>5, <1>6, <1>7, <1>8, <1>9 DEF Step

\* The lock of a thread stays that of its slot.
LEMMA StripedStep ==
  ASSUME IInv, NEW t \in Threads, Step(t)
  PROVE  Striped'
<1> Typed /\ TypeOK /\ Striped
  BY DEF IInv, Typed
<1> SUFFICES ASSUME mutex' = 1, NEW u \in Threads, pc'[u] \in {"lock"} \cup Searching
             PROVE  /\ slot'[u] = (Hash[Key(u)'] + i'[u]) % capacity'
                    /\ lock'[u] = <<1, slot'[u] \div locksize>>
  BY DEF Striped
<1>1. mutex = 1 /\ capacity' = capacity
  BY FirstMutexes
<1>2. CASE u # t
  <2>1. pc'[u] = pc[u] /\ Key(u)' = Key(u) /\ i'[u] = i[u] /\ slot'[u] = slot[u] /\ lock'[u] = lock[u]
    BY <1>2, Others DEF Key, Call
  <2>2. QED
    BY <1>1, <2>1 DEF Striped
<1>3. CASE u = t
  <2>1. CASE PickSlot(t)
    <3>1. Key(t)' = Key(t) /\ i' = i
      BY <2>1 DEF PickSlot, callVars, Key, Call
    <3>2. slot'[t] = (Hash[Key(t)] + i[t]) % capacity /\ lock'[t] = <<1, slot'[t] \div locksize>>
      BY <1>1, <2>1 DEF PickSlot, TypeOK
    <3>3. QED
      BY <1>1, <1>3, <3>1, <3>2
  <2>2. CASE pc[t] \in {"lock"} \cup Searching /\ UNCHANGED <<todo, i, slot, lock>>
    BY <1>1, <1>3, <2>2 DEF Striped, Key, Call
  <2>3. CASE InsertMiss(t) /\ pc[t] = "look" /\ UNCHANGED <<pc, todo, lock, mutexVars>>
    <3> DEFINE x == Hash[Key(t)] + i[t]
    <3>1. x \in Nat /\ i[t] \in Nat /\ Hash[Key(t)] \in Nat
      <4>1. todo[t] # <<>>
        BY <2>3 DEF Typed
      <4>2. i[t] \in Nat /\ Hash[Key(t)] \in Nat
        BY <4>1, CallType DEF TypeOK
      <4>3. QED
        BY <4>2
    <3>2. /\ slot'[t] = (Hash[Key(t)] + i[t] + 1) % capacity /\ i'[t] = i[t] + 1
          /\ ((Hash[Key(t)] + i[t] + 1) % capacity) % locksize # 0
      BY <2>3 DEF InsertMiss, Goto, TypeOK
    <3>3. slot[t] = x % capacity /\ lock[t] = <<1, slot[t] \div locksize>>
      BY <1>1, <2>3 DEF Striped, Searching
    <3>4. capacity \in Nat /\ capacity >= 1
      BY Bounds DEF TypeOK
    <3>5. Hash[Key(t)] + i[t] + 1 = x + 1 /\ Hash[Key(t)] + (i[t] + 1) = x + 1
      BY <3>1
    <3> HIDE DEF x
    <3>6. ((x + 1) % capacity) \div locksize = (x % capacity) \div locksize
      BY <3>1, <3>2, <3>4, <3>5, SameStripe
    <3>7. slot'[t] \div locksize = slot[t] \div locksize
      BY <3>2, <3>3, <3>5, <3>6
    <3>8. lock'[t] = lock[t] /\ Key(t)' = Key(t)
      BY <2>3 DEF Key, Call
    <3>9. QED
      BY <1>1, <1>3, <3>2, <3>3, <3>5, <3>7, <3>8
  <2>4. QED
    BY <1>3, <2>1, <2>2, <2>3, AtSlot
<1>4. QED
  BY <1>2, <1>3

\* Nobody takes a mutex from a thread but itself.
LEMMA OwnersStay ==
  ASSUME TypeOK, NEW t \in Threads, Step(t), NEW u \in Threads, u # t, NEW l \in Locks
  PROVE  /\ writer[l] = u => writer'[l] = u
         /\ u \in readers[l] => u \in readers'[l]
<1> u # Nobody
  BY Bounds
<1>1. CASE UNCHANGED mutexVars
  BY <1>1 DEF mutexVars
<1>2. ASSUME NEW m, Exclusive(t, m)
      PROVE  /\ writer[l] = u => writer'[l] = u
             /\ u \in readers[l] => u \in readers'[l]
  BY <1>2 DEF Exclusive, TypeOK
<1>3. ASSUME NEW m, Shared(t, m)
      PROVE  /\ writer[l] = u => writer'[l] = u
             /\ u \in readers[l] => u \in readers'[l]
  BY <1>3 DEF Shared, TypeOK
<1>4. ASSUME NEW m, Unlock(t, m)
      PROVE  /\ writer[l] = u => writer'[l] = u
             /\ u \in readers[l] => u \in readers'[l]
  BY <1>4 DEF Unlock, TypeOK
<1>5. QED
  BY <1>1, <1>2, <1>3, <1>4, MutexFrame

\* A thread at a slot goes on holding its lock.
LEMMA HeldStep ==
  ASSUME IInv, NEW t \in Threads, Step(t)
  PROVE  Held'
<1> TypeOK /\ Held
  BY DEF IInv, Typed
<1> SUFFICES ASSUME NEW u \in Threads, pc'[u] \in Searching
             PROVE  /\ Calling(u, "Get")' => u \in readers'[lock'[u]]
                    /\ ~ Calling(u, "Get")' => writer'[lock'[u]] = u
  BY DEF Held
<1>1. CASE u # t
  <2>1. pc'[u] = pc[u] /\ Calling(u, "Get")' = Calling(u, "Get") /\ lock'[u] = lock[u]
    BY <1>1, Others DEF Calling, Call
  <2>2. lock[u] \in Locks
    BY DEF TypeOK
  <2>3. QED
    BY <1>1, <2>1, <2>2, OwnersStay DEF Held
<1>2. CASE u = t
  <2>1. CASE LockSlot(t) /\ UNCHANGED <<todo, lock>>
    <3>1. lock[t] \in Locks /\ Calling(t, "Get")' = Calling(t, "Get")
      BY <2>1 DEF TypeOK, Calling, Call
    <3>2. CASE Calling(t, "Get")
      <4>1. readers' = [readers EXCEPT ![lock[t]] = @ \cup {t}]
        BY <2>1, <3>2 DEF LockSlot, Shared
      <4>2. QED
        BY <1>2, <2>1, <3>1, <3>2, <4>1 DEF TypeOK
    <3>3. CASE ~ Calling(t, "Get")
      <4>1. writer' = [writer EXCEPT ![lock[t]] = t]
        BY <2>1, <3>3 DEF LockSlot, Exclusive
      <4>2. QED
        BY <1>2, <2>1, <3>1, <3>3, <4>1 DEF TypeOK
    <3>4. QED
      BY <3>2, <3>3
  <2>2. CASE pc[t] \in Searching /\ UNCHANGED <<todo, lock, mutexVars>>
    BY <1>2, <2>2 DEF Held, Calling, Call, mutexVars
  <2>3. QED
    BY <1>2, <2>1, <2>2, AtSlot DEF Searching
<1>3. QED
  BY <1>1, <1>2

\* A mutex is locked exclusively or shared.
LEMMA ExclusionStep ==
  ASSUME IInv, NEW t \in Threads, Step(t)
  PROVE  Exclusion'
<1> TypeOK /\ Exclusion
  BY DEF IInv, Typed
<1> SUFFICES ASSUME NEW l \in Locks, writer'[l] # Nobody PROVE readers'[l] = {}
  BY DEF Exclusion
<1>1. CASE UNCHANGED mutexVars
  BY <1>1 DEF mutexVars, Exclusion
<1>2. ASSUME NEW m, Exclusive(t, m) PROVE readers'[l] = {}
  BY <1>2 DEF Exclusive, Exclusion, TypeOK
<1>3. ASSUME NEW m, Shared(t, m) PROVE readers'[l] = {}
  BY <1>3 DEF Shared, Exclusion, TypeOK
<1>4. ASSUME NEW m, Unlock(t, m) PROVE readers'[l] = {}
  <2>1. writer[l] # Nobody
    BY <1>4 DEF Unlock, TypeOK
  <2>2. readers[l] = {}
    BY <2>1 DEF Exclusion
  <2>3. QED
    BY <1>4, <2>2 DEF Unlock, TypeOK
<1>5. QED
  BY <1>1, <1>2, <1>3, <1>4, MutexFrame

\* resize() goes on holding the mutexes it has taken.
LEMMA AllHeldStep ==
  ASSUME IInv, NEW t \in Threads, Step(t)
  PROVE  AllHeld'
<1> Typed /\ TypeOK /\ AllHeld
  BY DEF IInv, Typed
<1> SUFFICES ASSUME mutex' = 1, NEW u \in Threads, NEW n \in 0..MaxCapacity,
                    \/ pc'[u] = "lock_all" /\ n < i'[u]
                    \/ pc'[u] = "copy" /\ n < nlocks(capacity')
             PROVE  writer'[<<1, n>>] = u
  BY DEF AllHeld, nlocks
<1>1. mutex = 1 /\ capacity' = capacity
  BY FirstMutexes
<1>2. <<1, n>> \in Locks
  BY Bounds DEF Locks
<1>3. CASE u # t
  <2>1. pc'[u] = pc[u] /\ i'[u] = i[u]
    BY <1>3, Others
  <2>2. writer[<<1, n>>] = u
    BY <1>1, <2>1 DEF AllHeld
  <2>3. QED
    BY <1>2, <1>3, <2>2, OwnersStay
<1>4. CASE u = t
  <2>1. TryResize(t) \/ LockAll(t) \/ Allocate(t) \/ CopySlot(t)
    <3> USE DEF Goto, Return, TypeOK
    <3>1. CASE AwaitResize(t) \/ TestSize(t) \/ PickSlot(t) \/ LockSlot(t) \/ LookHit(t)
      BY <1>4, <3>1 DEF AwaitResize, TestSize, PickSlot, LockSlot, LookHit
    <3>2. CASE Exhausted(t) \/ GetHit(t) \/ InsertMiss(t) \/ LookMiss(t)
      BY <1>4, <3>2 DEF Exhausted, GetHit, InsertMiss, LookMiss
    <3>3. CASE Put(t) \/ Count(t) \/ Update(t) \/ Delete(t)
      BY <1>4, <3>3 DEF Put, Count, Update, Delete
    <3>4. CASE SetMutex(t) \/ SetCapacity(t) \/ SetDict(t) \/ UnlockAll(t) \/ EndResize(t)
      BY <1>4, <3>4 DEF SetMutex, SetCapacity, SetDict, UnlockAll, EndResize
    <3>5. QED
      BY <3>1, <3>2, <3>3, <3>4 DEF Step
  <2>2. CASE TryResize(t)
    BY <1>4, <2>2 DEF TryResize, Goto, TypeOK
  <2>3. CASE LockAll(t)
    <3>1. /\ pc[t] = "lock_all" /\ pc'[t] = "lock_all" /\ i'[t] = i[t] + 1 /\ i[t] \in Nat
          /\ writer' = [writer EXCEPT ![<<1, i[t]>>] = t]
      BY <1>1, <2>3 DEF LockAll, Exclusive, TypeOK
    <3>2. n = i[t] \/ n < i[t]
      BY <1>4, <3>1
    <3>3. CASE n = i[t]
      BY <1>2, <1>4, <3>1, <3>3 DEF TypeOK
    <3>4. CASE n < i[t]
      <4>1. writer[<<1, n>>] = t
        BY <1>1, <3>1, <3>4 DEF AllHeld
      <4>2. QED
        BY <1>2, <1>4, <3>1, <4>1 DEF TypeOK
    <3>5. QED
      BY <3>2, <3>3, <3>4
  <2>4. CASE Allocate(t)
    <3>1. /\ pc[t] = "lock_all" /\ pc'[t] = "copy" /\ i[t] >= nlocks(capacity)
          /\ i[t] \in Nat /\ writer' = writer
      BY <2>4 DEF Allocate, Goto, mutexVars, TypeOK
    <3>2. nlocks(capacity) \in Nat
      <4>1. capacity \in Nat /\ 0 < capacity
        BY Bounds DEF TypeOK
      <4>2. QED
        BY <4>1, Stripe
    <3>3. n < i[t]
      BY <1>1, <1>4, <3>1, <3>2
    <3>4. QED
      BY <1>1, <1>4, <3>1, <3>3 DEF AllHeld
  <2>5. CASE CopySlot(t)
    <3>1. pc[t] = "copy" /\ pc'[t] = "copy" /\ writer' = writer
      BY <2>5 DEF CopySlot, mutexVars, TypeOK
    <3>2. QED
      BY <1>1, <1>4, <3>1 DEF AllHeld
  <2>6. QED
    BY <2>1, <2>2, <2>3, <2>4, <2>5
<1>5. QED
  BY <1>3, <1>4

-----------------------------------------------------------------------------
(* The invariant holds.                                                    *)

\* It holds to begin with.
LEMMA InitIInv == Init => IInv
<1> SUFFICES ASSUME Init PROVE IInv
  OBVIOUS
<1>1. /\ InitCapacity \in 1..MaxCapacity /\ Empty(InitCapacity) \in Arrays
      /\ Empty(InitCapacity) \in [0..(InitCapacity-1) -> Pair \cup {INVALID}]
      /\ DOMAIN Empty(InitCapacity) = 0..(InitCapacity-1)
  <2>1. Empty(InitCapacity) \in [0..(InitCapacity-1) -> Pair \cup {INVALID}]
    BY DEF Empty
  <2>2. QED
    BY <2>1, Bounds DEF Arrays
<1>2. array = <<Empty(InitCapacity)>> /\ pc = [t \in Threads |-> "retry"] /\ capacity = InitCapacity
  BY DEF Init
<1>3. /\ array \in Seq(Arrays) /\ Len(array) = 1 /\ DOMAIN array = {1}
      /\ array[1] = Empty(InitCapacity)
  BY <1>1, <1>2
<1>4. TypeOK
  <2>1. <<1, 0>> \in Locks
    BY Bounds DEF Locks
  <2>2. lock \in [Threads -> Locks] /\ from \in [Threads -> 1..Len(array)]
    BY <1>3, <2>1 DEF Init
  <2>3. todo \in [Threads -> Seq(Calls)]
    BY WorkloadAssumption DEF Init
  <2>4. /\ DOMAIN array = 1..Len(array)
        /\ \A d \in DOMAIN array : \E cap \in 1..MaxCapacity :
             array[d] \in [0..(cap-1) -> Pair \cup {INVALID}]
    BY <1>1, <1>3
  <2>5. /\ dict \in 1..Len(array) /\ mutex \in 1..Len(array) /\ Len(array) <= MaxTables
        /\ capacity \in 1..MaxCapacity /\ size \in Nat /\ resizing_lock \in {0, 1}
    BY <1>1, <1>3, Bounds DEF Init
  <2>6. /\ writer \in [Locks -> Threads \cup {Nobody}] /\ readers \in [Locks -> SUBSET Threads]
        /\ i \in [Threads -> Nat] /\ slot \in [Threads -> Nat] /\ size_ \in [Threads -> Nat]
        /\ ret \in [Threads -> Values \cup {NONE} \cup BOOLEAN]
    BY DEF Init
  <2>7. QED
    BY <1>2, <2>2, <2>3, <2>4, <2>5, <2>6 DEF TypeOK
<1>5. Typed
  BY <1>2, <1>3, <1>4 DEF Typed
<1>6. Sized
  BY <1>1, <1>2, <1>3 DEF Sized, Init
<1>7. ResizeIsAlone /\ Striped /\ Held /\ AllHeld
  BY <1>2 DEF ResizeIsAlone, Striped, Held, AllHeld, Resizing, Searching
<1>8. Exclusion
  BY DEF Exclusion, Init
<1>9. QED
  BY <1>5, <1>6, <1>7, <1>8 DEF IInv

\* The invariant is inductive.
LEMMA NextIInv == IInv /\ [Next]_vars => IInv'
<1> SUFFICES ASSUME IInv, [Next]_vars PROVE IInv'
  OBVIOUS
<1>1. CASE UNCHANGED vars
  <2> USE <1>1 DEF vars, fieldVars, mutexVars, callVars, localVars
  <2>1. Typed'
    BY DEF IInv, Typed, TypeOK
  <2>2. ResizeIsAlone' /\ Sized' /\ Exclusion'
    BY DEF IInv, ResizeIsAlone, Sized, Exclusion
  <2>3. Striped' /\ Held' /\ AllHeld'
    BY DEF IInv, Striped, Held, AllHeld, Key, Calling, Call, nlocks
  <2>4. QED
    BY <2>1, <2>2, <2>3 DEF IInv
<1>2. ASSUME NEW t \in Threads, Step(t) PROVE IInv'
  BY <1>2, TypedStep, AloneStep, SizedStep, StripedStep, HeldStep, ExclusionStep, AllHeldStep
     DEF IInv
<1>3. QED
  BY <1>1, <1>2 DEF Next, Terminated

\* So it is an invariant.
LEMMA Inductive == Spec => []IInv
BY InitIInv, NextIInv, PTL DEF Spec

-----------------------------------------------------------------------------
(* Where the keys are.                                                     *)

\* The key k is in slot x of the array number d.
At(d, x, k) == d \in 1..Len(array) /\ x \in DOMAIN array[d] /\ Holds(array[d][x], k)

\* No array has a key twice.
Once ==
  \A d \in 1..Len(array) : \A x, y \in DOMAIN array[d] : \A k \in Keys :
    At(d, x, k) /\ At(d, y, k) => x = y

\* What resize() has still to copy is not in the new array yet.
CopiedOnce ==
  \A t \in Threads : pc[t] = "copy" =>
    \A k \in Keys : \A x \in DOMAIN array[dict], y \in DOMAIN array[Len(array)] :
      x >= i[t] /\ At(dict, x, k) => ~ At(Len(array), y, k)

\* Nobody works on the array to come before it is dict.
Newest ==
  /\ \A t \in Threads : from[t] <= dict
  /\ \A t \in Threads : pc[t] \in {"copy", "set_capacity", "set_dict"} => dict < Len(array)

\* The insertions that have stored their pair and not yet counted it.
Counting == {t \in Threads : pc[t] = "count"}

\* K are the keys that have been inserted: no other key is in any array, and no
\* insertion to come has one of them.
Entered(K) ==
  /\ IsFiniteSet(K) /\ IsFiniteSet(Counting)
  /\ Cardinality(K) = size + Cardinality(Counting)
  /\ \A d \in 1..Len(array) : \A x \in DOMAIN array[d] :
       array[d][x] # INVALID => array[d][x].key \in K
  /\ \A t \in Threads : \A j \in Inserted(todo, t) :
       todo[t][j].key \in K => j = 1 /\ pc[t] = "count"

KeysInv == Once /\ CopiedOnce /\ Newest /\ FreshInserts(todo) /\ \E K \in SUBSET Keys : Entered(K)

\* What is in a slot is a pair of a key and a value.
LEMMA SlotType ==
  ASSUME Typed, NEW d \in 1..Len(array), NEW x \in DOMAIN array[d], array[d][x] # INVALID
  PROVE  /\ array[d][x] \in Pair /\ array[d][x].key \in Keys /\ array[d][x].value \in Values
         /\ At(d, x, array[d][x].key)
<1>1. array[d][x] \in Pair \cup {INVALID}
  BY ArrayType DEF Typed
<1>2. QED
  BY <1>1 DEF Pair, At, Holds

\* Storing p to a slot changes nothing else.
LEMMA StoreAt ==
  ASSUME Typed, NEW d \in 1..Len(array), NEW x, NEW p, NEW k, NEW e, NEW y,
         array' = [array EXCEPT ![d] = [array[d] EXCEPT ![x] = p]], At(e, y, k)'
  PROVE  At(e, y, k) \/ (e = d /\ y = x /\ Holds(p, k) /\ x \in DOMAIN array[d])
<1>1. array \in Seq(Arrays) /\ DOMAIN array = 1..Len(array) /\ Len(array) \in Nat
  BY ArrayType DEF Typed
<1>2. Len(array') = Len(array) /\ DOMAIN array'[e] = DOMAIN array[e] /\ e \in 1..Len(array)
  <2>1. Len(array') = Len(array)
    BY <1>1
  <2>2. e \in 1..Len(array)
    BY <2>1 DEF At
  <2>3. DOMAIN array'[e] = DOMAIN array[e]
    BY <1>1, <2>2
  <2>4. QED
    BY <2>1, <2>2, <2>3
<1>3. CASE e # d
  <2>1. array'[e] = array[e]
    BY <1>1, <1>2, <1>3
  <2>2. QED
    BY <1>2, <2>1 DEF At
<1>4. CASE e = d
  <2>1. array'[d] = [array[d] EXCEPT ![x] = p]
    BY <1>1
  <2>2. y \in DOMAIN array[d] /\ Holds(array'[d][y], k)
    BY <1>2, <1>4 DEF At
  <2>3. CASE y = x
    BY <1>4, <2>1, <2>2, <2>3
  <2>4. CASE y # x
    <3>1. array'[d][y] = array[d][y]
      BY <2>1, <2>2, <2>4
    <3>2. QED
      BY <1>2, <1>4, <2>2, <3>1 DEF At
  <2>5. QED
    BY <2>3, <2>4
<1>5. QED
  BY <1>3, <1>4

\* Where a key comes to be in a slot: from the call of an insertion, or from the
\* slot that is copied.
LEMMA SlotStep ==
  ASSUME IInv, NEW t \in Threads, Step(t), NEW d, NEW x, NEW k \in Keys, At(d, x, k)'
  PROVE  \/ At(d, x, k)
         \/ Put(t) /\ d \in Kept(t) /\ x = slot[t] /\ k = Key(t)
         \/ /\ CopySlot(t) /\ d = Len(array) /\ At(dict, i[t], k)
            /\ x = getLocation(Hash[k], 2 * capacity, array[d])
<1> Typed /\ TypeOK /\ Len(array) \in Nat /\ dict \in 1..Len(array) /\ from[t] \in 1..Len(array)
  BY ArrayType DEF IInv, Typed, TypeOK
<1> \A e \in Kept(t) : e \in 1..Len(array)
  BY DEF Kept
<1>0. ASSUME NEW e \in 1..Len(array), NEW y, NEW q,
             array' = [array EXCEPT ![e] = [array[e] EXCEPT ![y] = q]]
      PROVE  At(d, x, k) \/ (d = e /\ x = y /\ Holds(q, k) /\ y \in DOMAIN array[e])
  BY <1>0, StoreAt
<1>1. CASE array' = array
  BY <1>1 DEF At
<1>2. CASE Put(t)
  <2> DEFINE p == [key |-> Key(t), value |-> Call(t).value]
  <2>1. PICK e \in Kept(t) : array' = [array EXCEPT ![e] = [array[e] EXCEPT ![slot[t]] = p]]
    BY <1>2 DEF Put
  <2>2. At(d, x, k) \/ (d = e /\ x = slot[t] /\ Holds(p, k))
    <3> HIDE DEF p
    <3>1. QED
      BY <1>0, <2>1
  <2>3. QED
    BY <1>2, <2>2 DEF Holds
<1>3. CASE Update(t)
  <2> DEFINE p(e) == IF array[e][slot[t]] = INVALID THEN array[e][slot[t]]
                     ELSE [array[e][slot[t]] EXCEPT !.value = Call(t).value]
  <2>1. PICK e \in Kept(t) : array' = [array EXCEPT ![e] = [array[e] EXCEPT ![slot[t]] = p(e)]]
    BY <1>3 DEF Update
  <2>2. At(d, x, k) \/ (d = e /\ x = slot[t] /\ Holds(p(e), k) /\ slot[t] \in DOMAIN array[e])
    <3> HIDE DEF p
    <3>1. QED
      BY <1>0, <2>1
  <2>3. ASSUME d = e, x = slot[t], Holds(p(e), k), slot[t] \in DOMAIN array[e] PROVE At(d, x, k)
    <3>1. CASE array[e][slot[t]] = INVALID
      BY <2>3, <3>1 DEF Holds
    <3>2. CASE array[e][slot[t]] # INVALID
      <4>1. array[e][slot[t]] \in Pair
        BY <2>3, <3>2, SlotType
      <4>2. p(e).key = array[e][slot[t]].key
        BY <3>2, <4>1 DEF Pair
      <4>3. QED
        BY <2>3, <3>2, <4>2 DEF Holds, At
    <3>3. QED
      BY <3>1, <3>2
  <2>4. QED
    BY <2>2, <2>3
<1>4. CASE Delete(t)
  <2>1. PICK e \in Kept(t) : array' = [array EXCEPT ![e] = [array[e] EXCEPT ![slot[t]] = INVALID]]
    BY <1>4 DEF Delete
  <2>2. At(d, x, k) \/ Holds(INVALID, k)
    BY <1>0, <2>1
  <2>3. QED
    BY <2>2 DEF Holds
<1>5. CASE Allocate(t)
  <2>1. array' = Append(array, Empty(2 * capacity)) /\ array \in Seq(Arrays)
    BY <1>5 DEF Allocate, Typed
  <2>2. Len(array') = Len(array) + 1 /\ d \in 1..(Len(array) + 1)
    BY <2>1 DEF At
  <2>3. CASE d = Len(array) + 1
    <3>1. array'[d] = Empty(2 * capacity)
      BY <2>1, <2>3
    <3>2. QED
      BY <3>1 DEF At, Holds, Empty
  <2>4. CASE d # Len(array) + 1
    <3>1. d \in 1..Len(array) /\ array'[d] = array[d]
      BY <2>1, <2>2, <2>4
    <3>2. QED
      BY <3>1 DEF At
  <2>5. QED
    BY <2>3, <2>4
<1>6. CASE CopySlot(t) /\ array' # array
  <2> DEFINE p == array[dict][i[t]]
             loc == getLocation(Hash[p.key], 2 * capacity, array[Len(array)])
  <2>1. PICK L \in 1..Len(array) : L = Len(array)
    OBVIOUS
  <2>2. p # INVALID /\ array' = [array EXCEPT ![L] = [array[L] EXCEPT ![loc] = p]]
    BY <1>6, <2>1 DEF CopySlot
  <2>3. At(d, x, k) \/ (d = L /\ x = loc /\ Holds(p, k))
    <3> HIDE DEF p, loc
    <3>1. QED
      BY <1>0, <2>1, <2>2
  <2>4. i[t] \in DOMAIN array[dict]
    <3>1. /\ pc[t] = "copy" /\ i[t] < capacity /\ i[t] \in Nat /\ capacity \in Nat
      BY <1>6, Bounds DEF CopySlot, TypeOK
    <3>2. \A u \in Threads : pc[u] # "set_dict"
      BY <3>1 DEF IInv, ResizeIsAlone, Resizing
    <3>3. DOMAIN array[dict] = 0..(capacity-1)
      BY <3>2 DEF IInv, Sized
    <3>4. QED
      BY <3>1, <3>3
  <2>5. ASSUME d = L, x = loc, Holds(p, k)
        PROVE  At(dict, i[t], k) /\ x = getLocation(Hash[k], 2 * capacity, array[d])
    <3>1. At(dict, i[t], k)
      BY <2>4, <2>5 DEF At
    <3>2. p.key = k
      BY <2>5 DEF Holds
    <3>3. QED
      BY <2>1, <2>5, <3>1, <3>2
  <2>6. QED
    BY <1>6, <2>1, <2>3, <2>5
<1>7. QED
  BY <1>1, <1>2, <1>3, <1>4, <1>5, <1>6, Frames

\* The calls a thread has still to make only get fewer.
LEMMA CallsLeft ==
  ASSUME Typed, NEW t \in Threads, Step(t)
  PROVE  todo' = todo \/ (todo[t] # <<>> /\ todo' = [todo EXCEPT ![t] = Tail(@)])
<1> USE DEF Return, callVars
<1>1. CASE AwaitResize(t) \/ TestSize(t) \/ PickSlot(t) \/ LockSlot(t) \/ LookHit(t)
  BY <1>1 DEF AwaitResize, TestSize, PickSlot, LockSlot, LookHit
<1>2. CASE Exhausted(t) \/ GetHit(t) \/ InsertMiss(t) \/ LookMiss(t)
  BY <1>2 DEF Exhausted, GetHit, InsertMiss, LookMiss, Typed
<1>3. CASE Put(t) \/ Count(t) \/ Update(t) \/ Delete(t)
  BY <1>3 DEF Put, Count, Update, Delete, Typed
<1>4. CASE TryResize(t) \/ LockAll(t) \/ Allocate(t) \/ CopySlot(t) \/ SetMutex(t)
  BY <1>4 DEF TryResize, LockAll, Allocate, CopySlot, SetMutex
<1>5. CASE SetCapacity(t) \/ SetDict(t) \/ UnlockAll(t) \/ EndResize(t)
  BY <1>5 DEF SetCapacity, SetDict, UnlockAll, EndResize
<1>6. QED
  BY <1>1, <1>2, <1>3, <1>4, <1>5 DEF Step

\* So an insertion to come has been one all along, at its place or the one after it.
LEMMA InsertedBefore ==
  ASSUME Typed, NEW t \in Threads, Step(t), NEW u \in Threads, NEW j \in Inserted(todo', u)
  PROVE  \/ todo'[u] = todo[u] /\ j \in Inserted(todo, u)
         \/ /\ u = t /\ todo' # todo /\ j \in Nat /\ j >= 1
            /\ j + 1 \in Inserted(todo, u) /\ todo'[u][j] = todo[u][j + 1]
<1> TypeOK
  BY DEF Typed
<1>1. CASE todo'[u] = todo[u]
  BY <1>1 DEF Inserted
<1>2. CASE todo'[u] # todo[u]
  <2>1. u = t /\ todo[t] # <<>> /\ todo'[t] = Tail(todo[t]) /\ todo[t] \in Seq(Calls) /\ todo' # todo
    BY <1>2, CallsLeft DEF TypeOK
  <2>2. j \in 1..Len(Tail(todo[t])) /\ Tail(todo[t])[j].op = "Insert"
    BY <2>1 DEF Inserted
  <2>3. j + 1 \in 1..Len(todo[t]) /\ Tail(todo[t])[j] = todo[t][j + 1] /\ j \in Nat /\ j >= 1
    BY <2>1, <2>2
  <2>4. QED
    BY <2>1, <2>2, <2>3 DEF Inserted
<1>3. QED
  BY <1>1, <1>2

\* No key comes to be inserted twice.
LEMMA FreshStep ==
  ASSUME Typed, FreshInserts(todo), NEW t \in Threads, Step(t)
  PROVE  FreshInserts(todo')
<1> SUFFICES ASSUME NEW u \in Threads, NEW w \in Threads,
                    NEW x \in Inserted(todo', u), NEW y \in Inserted(todo', w),
                    todo'[u][x].key = todo'[w][y].key
             PROVE  u = w /\ x = y
  BY DEF FreshInserts
<1>1. ASSUME NEW r \in Threads, NEW n \in Inserted(todo', r)
      PROVE  \E m \in Inserted(todo, r) :
               /\ todo[r][m] = todo'[r][n] /\ n \in Nat
               /\ m = IF todo'[r] = todo[r] THEN n ELSE n + 1
  <2>1. CASE todo'[r] = todo[r]
    <3>1. todo[r] \in Seq(Calls)
      BY DEF Typed, TypeOK
    <3>2. n \in Inserted(todo, r) /\ n \in 1..Len(todo[r])
      BY <2>1, <3>1 DEF Inserted
    <3>3. QED
      BY <2>1, <3>2
  <2>2. CASE todo'[r] # todo[r]
    BY <2>2, InsertedBefore
  <2>3. QED
    BY <2>1, <2>2
<1>2. PICK m \in Inserted(todo, u) :
        /\ todo[u][m] = todo'[u][x] /\ x \in Nat
        /\ m = IF todo'[u] = todo[u] THEN x ELSE x + 1
  BY <1>1
<1>3. PICK n \in Inserted(todo, w) :
        /\ todo[w][n] = todo'[w][y] /\ y \in Nat
        /\ n = IF todo'[w] = todo[w] THEN y ELSE y + 1
  BY <1>1
<1>4. todo[u][m].key = todo[w][n].key
  BY <1>2, <1>3
<1>5. u = w /\ m = n
  BY <1>4 DEF FreshInserts
<1>6. QED
  BY <1>2, <1>3, <1>5

\* dict is the newest array but for one that is being filled.
LEMMA NewestStep ==
  ASSUME IInv, Newest, NEW t \in Threads, Step(t)
  PROVE  Newest'
<1> Typed /\ TypeOK /\ ResizeIsAlone /\ Len(array) \in Nat /\ dict \in 1..Len(array)
  BY ArrayType DEF IInv, Typed, TypeOK
<1>1. Len(array') \in Nat /\ Len(array) <= Len(array')
  BY ArrayStep
<1>2. dict' \in Nat /\ dict <= dict' /\ (SetDict(t) => dict' = Len(array) /\ pc'[t] = "unlock_all" /\ pc[t] = "set_dict")
  BY Frames DEF SetDict, Goto, TypeOK
<1>3. from'[t] = from[t] \/ from'[t] = dict
  <2> USE DEF localVars
  <2>1. CASE AwaitResize(t) \/ TestSize(t) \/ PickSlot(t) \/ LockSlot(t) \/ LookHit(t)
    BY <2>1 DEF AwaitResize, TestSize, PickSlot, LockSlot, LookHit, TypeOK
  <2>2. CASE Exhausted(t) \/ GetHit(t) \/ InsertMiss(t) \/ LookMiss(t)
    BY <2>2 DEF Exhausted, GetHit, InsertMiss, LookMiss
  <2>3. CASE Put(t) \/ Count(t) \/ Update(t) \/ Delete(t)
    BY <2>3 DEF Put, Count, Update, Delete
  <2>4. CASE TryResize(t) \/ LockAll(t) \/ Allocate(t) \/ CopySlot(t) \/ SetMutex(t)
    BY <2>4 DEF TryResize, LockAll, Allocate, CopySlot, SetMutex
  <2>5. CASE SetCapacity(t) \/ SetDict(t) \/ UnlockAll(t) \/ EndResize(t)
    BY <2>5 DEF SetCapacity, SetDict, UnlockAll, EndResize
  <2>6. QED
    BY <2>1, <2>2, <2>3, <2>4, <2>5 DEF Step
<1>4. ASSUME NEW u \in Threads PROVE from'[u] <= dict'
  <2>1. from'[u] = from[u] \/ from'[u] = dict
    BY <1>3, Others
  <2>2. from[u] \in 1..Len(array) /\ from[u] <= dict
    BY DEF Newest, TypeOK
  <2>3. QED
    BY <1>2, <2>1, <2>2
<1>5. ASSUME NEW u \in Threads, pc'[u] \in {"copy", "set_capacity", "set_dict"}
      PROVE  dict' < Len(array')
  <2>1. CASE u # t
    <3>1. pc[u] = pc'[u]
      BY <2>1, Others
    <3>2. ~ SetDict(t)
      BY <1>2, <1>5, <2>1, <3>1 DEF ResizeIsAlone, Resizing
    <3>3. dict' = dict /\ dict < Len(array)
      BY <1>5, <3>1, <3>2, Frames DEF Newest
    <3>4. QED
      BY <1>1, <3>3
  <2>2. CASE u = t
    <3>1. CASE Allocate(t)
      <4>1. array' = Append(array, Empty(2 * capacity)) /\ array \in Seq(Arrays) /\ dict' = dict
        BY <3>1 DEF Allocate, Typed, fieldVars
      <4>2. Len(array') = Len(array) + 1
        BY <4>1
      <4>3. QED
        BY <4>1, <4>2
    <3>2. CASE ~ Allocate(t)
      <4>1. ~ SetDict(t)
        BY <1>2, <1>5, <2>2
      <4>2. pc[t] \in {"copy", "set_capacity", "set_dict"}
        BY <1>5, <2>2, <3>2, <4>1, ResizeFrame DEF SetMutex, SetCapacity
      <4>3. dict' = dict /\ dict < Len(array)
        BY <4>1, <4>2, Frames DEF Newest
      <4>4. QED
        BY <1>1, <4>3
    <3>3. QED
      BY <3>1, <3>2
  <2>3. QED
    BY <2>1, <2>2
<1>6. QED
  BY <1>4, <1>5 DEF Newest

\* A key that is about to be inserted is nowhere yet.
LEMMA NotYetIn ==
  ASSUME IInv, NEW K, Entered(K), NEW t \in Threads, Put(t)
  PROVE  /\ Key(t) \in Keys /\ Key(t) \notin K /\ 1 \in Inserted(todo, t) /\ todo[t][1].key = Key(t)
         /\ \A d, x : ~ At(d, x, Key(t))
<1>1. pc[t] = "write" /\ todo[t] # <<>> /\ Call(t).op = "Insert" /\ todo[t] \in Seq(Calls)
  BY DEF Put, Calling, IInv, Typed, TypeOK
<1>2. 1 \in Inserted(todo, t) /\ todo[t][1].key = Key(t)
  BY <1>1 DEF Inserted, Call, Key
<1>3. Key(t) \notin K
  BY <1>1, <1>2 DEF Entered
<1>4. ASSUME NEW d, NEW x, At(d, x, Key(t)) PROVE FALSE
  BY <1>3, <1>4 DEF At, Holds, Entered
<1>5. Key(t) \in Keys
  BY <1>1, CallType DEF IInv
<1>6. QED
  BY <1>2, <1>3, <1>4, <1>5

\* Which threads copy, and from which slot on.
LEMMA CopyingStep ==
  ASSUME IInv, NEW t \in Threads, Step(t), NEW u \in Threads, pc'[u] = "copy"
  PROVE  \/ u = t /\ Allocate(t)
         \/ /\ pc[u] = "copy" /\ i[u] \in Nat /\ i'[u] \in Nat /\ i[u] <= i'[u]
            /\ CopySlot(t) => u = t /\ i'[u] = i[u] + 1
            /\ dict' = dict /\ Len(array') = Len(array)
<1> Typed /\ TypeOK /\ ResizeIsAlone
  BY DEF IInv, Typed
<1>1. CASE u # t
  <2>1. pc[u] = "copy" /\ i'[u] = i[u] /\ i[u] \in Nat
    BY <1>1, Others DEF TypeOK
  <2>2. ~ SetDict(t) /\ ~ Allocate(t) /\ ~ CopySlot(t)
    BY <1>1, <2>1 DEF ResizeIsAlone, Resizing, SetDict, Allocate, CopySlot
  <2>3. QED
    BY <2>1, <2>2, Frames, ArrayStep
<1>2. CASE u = t
  <2>1. CASE Allocate(t)
    BY <1>2, <2>1
  <2>2. CASE CopySlot(t)
    <3>1. pc[t] = "copy" /\ i'[t] = i[t] + 1 /\ i[t] \in Nat /\ ~ Allocate(t) /\ ~ SetDict(t)
      BY <2>2 DEF CopySlot, TypeOK, Allocate, SetDict
    <3>2. QED
      BY <1>2, <3>1, Frames, ArrayStep
  <2>3. CASE ~ Allocate(t) /\ ~ CopySlot(t)
    <3> USE DEF Goto, Return, TypeOK
    <3>1. CASE AwaitResize(t) \/ TestSize(t) \/ PickSlot(t) \/ LockSlot(t) \/ LookHit(t)
      BY <1>2, <3>1 DEF AwaitResize, TestSize, PickSlot, LockSlot, LookHit
    <3>2. CASE Exhausted(t) \/ GetHit(t) \/ InsertMiss(t) \/ LookMiss(t)
      BY <1>2, <3>2 DEF Exhausted, GetHit, InsertMiss, LookMiss
    <3>3. CASE Put(t) \/ Count(t) \/ Update(t) \/ Delete(t)
      BY <1>2, <3>3 DEF Put, Count, Update, Delete
    <3>4. CASE TryResize(t) \/ LockAll(t) \/ SetMutex(t)
      BY <1>2, <3>4 DEF TryResize, LockAll, SetMutex
    <3>5. CASE SetCapacity(t) \/ SetDict(t) \/ UnlockAll(t) \/ EndResize(t)
      BY <1>2, <3>5 DEF SetCapacity, SetDict, UnlockAll, EndResize
    <3>6. QED
      BY <2>3, <3>1, <3>2, <3>3, <3>4, <3>5 DEF Step
  <2>4. QED
    BY <2>1, <2>2, <2>3
<1>3. QED
  BY <1>1, <1>2

\* resize() goes on finding nothing of what it has to copy in the new array.
LEMMA CopiedOnceStep ==
  ASSUME IInv, NEW K, Entered(K), Once, CopiedOnce, Newest, NEW t \in Threads, Step(t)
  PROVE  CopiedOnce'
<1> Typed /\ TypeOK /\ ResizeIsAlone /\ Len(array) \in Nat /\ dict \in 1..Len(array)
  BY ArrayType DEF IInv, Typed, TypeOK
<1> SUFFICES ASSUME NEW u \in Threads, pc'[u] = "copy", NEW k \in Keys, NEW x, NEW y,
                    x \in DOMAIN array'[dict'], x >= i'[u], At(dict, x, k)', At(Len(array), y, k)'
             PROVE  FALSE
  BY DEF CopiedOnce
<1>1. CASE u = t /\ Allocate(t)
  <2>1. array' = Append(array, Empty(2 * capacity)) /\ array \in Seq(Arrays)
    BY <1>1 DEF Allocate, Typed
  <2>2. array'[Len(array')] = Empty(2 * capacity)
    BY <2>1
  <2>3. QED
    BY <2>2 DEF At, Holds, Empty
<1>2. CASE /\ pc[u] = "copy" /\ i[u] \in Nat /\ i'[u] \in Nat /\ i[u] <= i'[u]
           /\ CopySlot(t) => u = t /\ i'[u] = i[u] + 1
           /\ dict' = dict /\ Len(array') = Len(array)
  <2>1. /\ dict < Len(array) /\ from[t] \in Nat /\ from[t] <= dict /\ dict \in Nat
    <3>1. from[t] \in 1..Len(array)
      BY DEF TypeOK
    <3>2. QED
      BY <1>2, <3>1 DEF Newest
  <2>2. At(dict, x, k) \/ (Put(t) /\ k = Key(t))
    BY <1>2, <2>1, SlotStep
  <2>3. At(Len(array), y, k) \/ (CopySlot(t) /\ At(dict, i[t], k))
    BY <1>2, <2>1, SlotStep DEF Kept
  <2>4. x \in Int
    <3>1. PICK cap \in 1..MaxCapacity : array[dict] \in [0..(cap-1) -> Pair \cup {INVALID}]
      BY ArrayType DEF Typed
    <3>2. x \in DOMAIN array[dict]
      BY <1>2, ArrayStep
    <3>3. QED
      BY <3>1, <3>2
  <2>5. CASE At(dict, x, k) /\ At(Len(array), y, k)
    <3>1. x >= i[u]
      BY <1>2, <2>4
    <3>2. x \in DOMAIN array[dict] /\ y \in DOMAIN array[Len(array)]
      BY <2>5 DEF At
    <3>3. QED
      BY <1>2, <2>5, <3>1, <3>2 DEF CopiedOnce
  <2>6. CASE At(dict, x, k) /\ CopySlot(t) /\ At(dict, i[t], k)
    <3>1. x = i[t]
      BY <2>6 DEF Once, At
    <3>2. QED
      BY <1>2, <2>6, <3>1
  <2>7. CASE Put(t) /\ k = Key(t)
    <3>1. ~ CopySlot(t)
      BY <2>7 DEF Put, CopySlot
    <3>2. QED
      BY <2>3, <2>7, <3>1, NotYetIn
  <2>8. QED
    BY <2>2, <2>3, <2>5, <2>6, <2>7
<1>3. QED
  BY <1>1, <1>2, CopyingStep

\* No key comes to be twice in an array.
LEMMA OnceStep ==
  ASSUME IInv, NEW K, Entered(K), Once, CopiedOnce, Newest, NEW t \in Threads, Step(t)
  PROVE  Once'
<1> Typed /\ TypeOK /\ Len(array) \in Nat /\ dict \in 1..Len(array)
  BY ArrayType DEF IInv, Typed, TypeOK
<1> SUFFICES ASSUME NEW d, NEW x, NEW y, NEW k \in Keys, At(d, x, k)', At(d, y, k)'
             PROVE  x = y
  BY DEF Once
<1>1. CASE Put(t)
  <2>1. ~ CopySlot(t)
    BY <1>1 DEF Put, CopySlot
  <2>2. CASE k = Key(t)
    BY <1>1, <2>1, <2>2, SlotStep, NotYetIn
  <2>3. CASE k # Key(t)
    <3>1. At(d, x, k) /\ At(d, y, k)
      BY <2>1, <2>3, SlotStep
    <3>2. QED
      BY <3>1 DEF Once, At
  <2>4. QED
    BY <2>2, <2>3
<1>2. CASE CopySlot(t)
  <2>1. ~ Put(t)
    BY <1>2 DEF Put, CopySlot
  <2>2. ASSUME NEW z, At(dict, i[t], k), At(Len(array), z, k) PROVE FALSE
    <3>1. pc[t] = "copy" /\ i[t] \in Nat /\ i[t] >= i[t]
      BY <1>2 DEF CopySlot, TypeOK
    <3>2. i[t] \in DOMAIN array[dict] /\ z \in DOMAIN array[Len(array)]
      BY <2>2 DEF At
    <3>3. QED
      BY <2>2, <3>1, <3>2 DEF CopiedOnce
  <2>3. \/ At(d, x, k)
        \/ d = Len(array) /\ At(dict, i[t], k) /\ x = getLocation(Hash[k], 2 * capacity, array[d])
    BY <2>1, SlotStep
  <2>4. \/ At(d, y, k)
        \/ d = Len(array) /\ At(dict, i[t], k) /\ y = getLocation(Hash[k], 2 * capacity, array[d])
    BY <2>1, SlotStep
  <2>5. CASE At(d, x, k) /\ At(d, y, k)
    BY <2>5 DEF Once, At
  <2>6. QED
    BY <2>2, <2>3, <2>4, <2>5
<1>3. CASE ~ Put(t) /\ ~ CopySlot(t)
  <2>1. At(d, x, k) /\ At(d, y, k)
    BY <1>3, SlotStep
  <2>2. QED
    BY <2>1 DEF Once, At
<1>4. QED
  BY <1>1, <1>2, <1>3

\* Who counts, and when the size grows.
LEMMA CountingStep ==
  ASSUME Typed, NEW t \in Threads, Step(t)
  PROVE  \/ Put(t) /\ Counting' = Counting \cup {t} /\ t \notin Counting /\ size' = size
         \/ /\ Count(t) /\ Counting' = Counting \ {t} /\ t \in Counting /\ size' = size + 1
            /\ todo' # todo
         \/ ~ Put(t) /\ Counting' = Counting /\ size' = size
<1> TypeOK
  BY DEF Typed
<1>1. \A u \in Threads : u # t => pc'[u] = pc[u]
  BY Others
<1>2. CASE Put(t)
  <2>1. pc[t] = "write" /\ pc'[t] = "count" /\ size' = size
    BY <1>2 DEF Put, Goto, TypeOK
  <2>2. QED
    BY <1>1, <1>2, <2>1 DEF Counting
<1>3. CASE Count(t) /\ size = size_[t]
  <2>1. pc[t] = "count" /\ pc'[t] = "retry" /\ size' = size + 1
    BY <1>3 DEF Count, Return, Goto, TypeOK
  <2>2. todo' # todo
    <3>1. todo[t] \in Seq(Calls) /\ todo[t] # <<>> /\ todo'[t] = Tail(todo[t])
      BY <1>3, <2>1 DEF Typed, TypeOK, Count, Return
    <3>2. Len(Tail(todo[t])) # Len(todo[t])
      BY <3>1
    <3>3. QED
      BY <3>1, <3>2
  <2>3. QED
    BY <1>1, <1>3, <2>1, <2>2 DEF Counting
<1>4. CASE ~ Put(t) /\ ~ (Count(t) /\ size = size_[t])
  <2>1. (pc'[t] = "count" <=> pc[t] = "count") /\ size' = size
    <3> USE DEF Goto, Return, TypeOK
    <3>1. CASE AwaitResize(t) \/ TestSize(t) \/ PickSlot(t) \/ LockSlot(t) \/ LookHit(t)
      BY <3>1 DEF AwaitResize, TestSize, PickSlot, LockSlot, LookHit
    <3>2. CASE Exhausted(t) \/ GetHit(t) \/ InsertMiss(t) \/ LookMiss(t)
      BY <3>2 DEF Exhausted, GetHit, InsertMiss, LookMiss
    <3>3. CASE Count(t) /\ size # size_[t]
      BY <3>3 DEF Count
    <3>4. CASE Update(t) \/ Delete(t)
      BY <3>4 DEF Update, Delete
    <3>5. CASE TryResize(t) \/ LockAll(t) \/ Allocate(t) \/ CopySlot(t) \/ SetMutex(t)
      BY <3>5 DEF TryResize, LockAll, Allocate, CopySlot, SetMutex
    <3>6. CASE SetCapacity(t) \/ SetDict(t) \/ UnlockAll(t) \/ EndResize(t)
      BY <3>6 DEF SetCapacity, SetDict, UnlockAll, EndResize
    <3>7. QED
      BY <1>4, <3>1, <3>2, <3>3, <3>4, <3>5, <3>6 DEF Step
  <2>2. QED
    BY <1>1, <1>4, <2>1 DEF Counting
<1>5. QED
  BY <1>2, <1>3, <1>4

\* The keys inserted so far grow by that of an insertion that stores its pair.
LEMMA EnteredStep ==
  ASSUME IInv, FreshInserts(todo), NEW K \in SUBSET Keys, Entered(K), NEW t \in Threads, Step(t)
  PROVE  \E L \in SUBSET Keys : Entered(L)'
<1> Typed /\ TypeOK /\ size \in Nat
  BY DEF IInv, Typed, TypeOK
<1> DEFINE L == IF Put(t) THEN K \cup {Key(t)} ELSE K
<1>1. /\ IsFiniteSet(K) /\ IsFiniteSet(Counting) /\ Cardinality(K) = size + Cardinality(Counting)
      /\ Cardinality(K) \in Nat /\ Cardinality(Counting) \in Nat
  BY FS_CardinalityType DEF Entered
<1>2. Put(t) => Key(t) \in Keys /\ Key(t) \notin K
  BY NotYetIn
<1>3. /\ IsFiniteSet(L) /\ IsFiniteSet(Counting') /\ L \in SUBSET Keys
      /\ Cardinality(L) = size' + Cardinality(Counting')
  <2>1. CASE Put(t) /\ Counting' = Counting \cup {t} /\ t \notin Counting /\ size' = size
    <3>1. IsFiniteSet(Counting \cup {t}) /\ Cardinality(Counting \cup {t}) = Cardinality(Counting) + 1
      BY <1>1, <2>1, FS_AddElement
    <3>2. IsFiniteSet(K \cup {Key(t)}) /\ Cardinality(K \cup {Key(t)}) = Cardinality(K) + 1
      BY <1>1, <1>2, <2>1, FS_AddElement
    <3>3. QED
      BY <1>1, <1>2, <2>1, <3>1, <3>2
  <2>2. CASE Count(t) /\ Counting' = Counting \ {t} /\ t \in Counting /\ size' = size + 1
    <3>1. IsFiniteSet(Counting \ {t}) /\ Cardinality(Counting \ {t}) = Cardinality(Counting) - 1
      BY <1>1, <2>2, FS_RemoveElement
    <3>2. ~ Put(t)
      BY <2>2 DEF Put, Count
    <3>3. QED
      BY <1>1, <2>2, <3>1, <3>2
  <2>3. CASE ~ Put(t) /\ Counting' = Counting /\ size' = size
    BY <1>1, <2>3
  <2>4. QED
    BY <2>1, <2>2, <2>3, CountingStep
<1>4. ASSUME NEW d \in 1..Len(array'), NEW x \in DOMAIN array'[d], array'[d][x] # INVALID
      PROVE  array'[d][x].key \in L
  <2>1. PICK k \in Keys : k = array'[d][x].key
    <3>1. array'[d][x] \in Pair \cup {INVALID}
      BY <1>4, ArrayStep, ArrayType
    <3>2. QED
      BY <1>4, <3>1 DEF Pair
  <2>2. At(d, x, k)'
    BY <1>4, <2>1 DEF At, Holds
  <2>3. \/ \E y : At(d, y, k)
        \/ Put(t) /\ k = Key(t)
        \/ At(dict, i[t], k)
    BY <2>2, SlotStep
  <2>4. QED
    BY <2>1, <2>3 DEF At, Holds, Entered
<1>5. ASSUME NEW u \in Threads, NEW j \in Inserted(todo', u), todo'[u][j].key \in L
      PROVE  j = 1 /\ pc'[u] = "count"
  <2>1. CASE todo'[u] = todo[u] /\ j \in Inserted(todo, u)
    <3>1. CASE todo[u][j].key \in K
      <4>1. j = 1 /\ pc[u] = "count"
        BY <2>1, <3>1 DEF Entered
      <4>2. CASE u # t
        BY <4>1, <4>2, Others
      <4>3. CASE u = t
        <5>1. t \in Counting /\ ~ Put(t)
          BY <4>1, <4>3 DEF Counting, Put
        <5>2. todo' # todo => todo'[t] # todo[t]
          <6>1. /\ todo[t] \in Seq(Calls)
                /\ todo' # todo => todo[t] # <<>> /\ todo'[t] = Tail(todo[t])
            BY CallsLeft DEF TypeOK
          <6>2. todo[t] # <<>> => Len(Tail(todo[t])) # Len(todo[t])
            BY <6>1
          <6>3. QED
            BY <6>1, <6>2
        <5>3. t \in Counting'
          BY <2>1, <4>3, <5>1, <5>2, CountingStep
        <5>4. QED
          BY <4>1, <4>3, <5>3 DEF Counting
      <4>4. QED
        BY <4>2, <4>3
    <3>2. CASE todo[u][j].key \notin K
      <4>1. Put(t) /\ todo[u][j].key = Key(t)
        BY <1>5, <2>1, <3>2
      <4>2. 1 \in Inserted(todo, t) /\ todo[t][1].key = Key(t)
        BY <4>1, NotYetIn
      <4>3. u = t /\ j = 1
        BY <2>1, <4>1, <4>2 DEF FreshInserts
      <4>4. pc'[t] = "count"
        BY <4>1 DEF Put, Goto, TypeOK
      <4>5. QED
        BY <4>3, <4>4
    <3>3. QED
      BY <3>1, <3>2
  <2>2. CASE /\ u = t /\ todo' # todo /\ j \in Nat /\ j >= 1
             /\ j + 1 \in Inserted(todo, u) /\ todo'[u][j] = todo[u][j + 1]
    <3>1. ~ Put(t)
      BY <2>2 DEF Put, callVars
    <3>2. todo[u][j + 1].key \in K
      BY <1>5, <2>2, <3>1
    <3>3. j + 1 = 1
      BY <2>2, <3>2 DEF Entered
    <3>4. QED
      BY <2>2, <3>3
  <2>3. QED
    BY <2>1, <2>2, InsertedBefore
<1>6. PICK M \in SUBSET Keys : M = L
  BY <1>3
<1> HIDE DEF L
<1>7. Entered(M)'
  BY <1>3, <1>4, <1>5, <1>6 DEF Entered
<1>8. QED
  BY <1>7

\* Where the keys are to begin with.
LEMMA InitKeysInv == Init => KeysInv
<1> SUFFICES ASSUME Init PROVE KeysInv
  OBVIOUS
<1>1. IInv /\ Typed /\ TypeOK
  BY InitIInv DEF IInv, Typed
<1>2. array = <<Empty(InitCapacity)>> /\ pc = [t \in Threads |-> "retry"] /\ size = 0
  BY DEF Init
<1>3. Len(array) = 1 /\ array[1] = Empty(InitCapacity)
  BY <1>2
<1>4. \A d \in 1..Len(array) : \A x \in DOMAIN array[d] : array[d][x] = INVALID
  <2>1. \A x \in DOMAIN Empty(InitCapacity) : Empty(InitCapacity)[x] = INVALID
    BY DEF Empty
  <2>2. \A d \in 1..Len(array) : d = 1
    BY <1>3
  <2>3. QED
    BY <1>3, <2>1, <2>2
<1>5. \A d, x, k : ~ At(d, x, k)
  BY <1>4 DEF At, Holds
<1>6. Once /\ CopiedOnce
  BY <1>5 DEF Once, CopiedOnce
<1>7. Newest
  BY <1>2 DEF Init, Newest
<1>8. FreshInserts(todo)
  BY WorkloadAssumption DEF Init
<1>9. Entered({})
  <2>1. Counting = {}
    BY <1>2 DEF Counting
  <2>2. QED
    BY <1>2, <1>4, <2>1, FS_EmptySet DEF Entered
<1>10. QED
  BY <1>6, <1>7, <1>8, <1>9 DEF KeysInv

\* And ever after.
LEMMA NextKeysInv == IInv /\ KeysInv /\ [Next]_vars => KeysInv'
<1> SUFFICES ASSUME IInv, KeysInv, [Next]_vars PROVE KeysInv'
  OBVIOUS
<1> Once /\ CopiedOnce /\ Newest /\ FreshInserts(todo)
  BY DEF KeysInv
<1>1. PICK K \in SUBSET Keys : Entered(K)
  BY DEF KeysInv
<1>2. CASE UNCHANGED vars
  <2> USE <1>2 DEF vars, fieldVars, mutexVars, callVars, localVars
  <2>1. Once' /\ CopiedOnce'
    BY DEF Once, CopiedOnce, At
  <2>2. Newest' /\ FreshInserts(todo')
    BY DEF Newest
  <2>3. Entered(K)'
    BY <1>1 DEF Entered, Counting
  <2>4. QED
    BY <2>1, <2>2, <2>3 DEF KeysInv
<1>3. ASSUME NEW t \in Threads, Step(t) PROVE KeysInv'
  <2>1. Once' /\ CopiedOnce'
    BY <1>1, <1>3, OnceStep, CopiedOnceStep
  <2>2. Newest'
    BY <1>3, NewestStep
  <2>3. FreshInserts(todo')
    BY <1>3, FreshStep DEF IInv
  <2>4. \E L \in SUBSET Keys : Entered(L)'
    BY <1>1, <1>3, EnteredStep
  <2>5. QED
    BY <2>1, <2>2, <2>3, <2>4 DEF KeysInv
<1>4. QED
  BY <1>2, <1>3 DEF Next, Terminated

\* So this too is an invariant.
LEMMA KeysInductive == Spec => []KeysInv
<1>1. Init => KeysInv
  BY InitKeysInv
<1>2. IInv /\ KeysInv /\ [Next]_vars => KeysInv'
  BY NextKeysInv
<1>3. QED
  BY <1>1, <1>2, Inductive, PTL DEF Spec

\* The slots that are counted, and the keys in them, one by one.
LEMMA OneSlotPerKey ==
  ASSUME IInv, KeysInv
  PROVE  LET found == {array[dict][x].key : x \in Occupied} IN
         /\ IsFiniteSet(Occupied) /\ IsFiniteSet(found)
         /\ Cardinality(found) = Cardinality(Occupied)
         /\ found \subseteq Keys /\ \A k \in found : Table[k] \in Values
         /\ \A k \in Keys \ found : Table[k] = NONE
<1> DEFINE found == {array[dict][x].key : x \in Occupied}
           f == [x \in Occupied |-> array[dict][x].key]
<1> Typed /\ Once /\ dict \in 1..Len(array)
  BY DEF IInv, Typed, TypeOK, KeysInv
<1>1. ASSUME NEW x \in Occupied
      PROVE  /\ x \in DOMAIN array[dict] /\ array[dict][x].key \in Keys /\ array[dict][x].value \in Values
             /\ At(dict, x, array[dict][x].key)
  BY SlotType DEF Occupied
<1>2. IsFiniteSet(Occupied)
  <2>1. PICK cap \in 1..MaxCapacity : array[dict] \in [0..(cap-1) -> Pair \cup {INVALID}]
    BY ArrayType DEF Typed
  <2>2. Occupied \in SUBSET (0..(cap-1)) /\ cap - 1 \in Int
    BY <2>1, Bounds DEF Occupied
  <2>3. IsFiniteSet(0..(cap-1))
    BY <2>2, FS_Interval
  <2>4. QED
    BY <2>2, <2>3, FS_Subset
<1>3. f \in Bijection(Occupied, found)
  <2>1. f \in [Occupied -> found] /\ \A k \in found : \E x \in Occupied : f[x] = k
    OBVIOUS
  <2>2. ASSUME NEW x \in Occupied, NEW y \in Occupied, f[x] = f[y] PROVE x = y
    BY <1>1, <2>2 DEF Once
  <2>3. QED
    BY <2>1, <2>2 DEF Bijection, Injection, Surjection, IsInjective
<1>4. IsFiniteSet(found) /\ Cardinality(found) = Cardinality(Occupied)
  BY <1>2, <1>3, FS_Bijection DEF ExistsBijection
<1>5. ASSUME NEW k \in Keys
      PROVE  LET at == {x \in DOMAIN array[dict] : Holds(array[dict][x], k)}
             IN  /\ Table[k] = IF at = {} THEN NONE ELSE array[dict][CHOOSE x \in at : TRUE].value
                 /\ \A x \in at : x \in Occupied /\ array[dict][x].key = k
                 /\ \A x \in Occupied : array[dict][x].key = k => x \in at
  BY DEF Table, Holds, Occupied
<1>6. ASSUME NEW k \in found PROVE Table[k] \in Values
  <2> DEFINE at == {x \in DOMAIN array[dict] : Holds(array[dict][x], k)}
  <2>1. k \in Keys
    BY <1>1
  <2>2. at # {} /\ Table[k] = array[dict][CHOOSE x \in at : TRUE].value /\ \A x \in at : x \in Occupied
    BY <1>5, <2>1
  <2> HIDE DEF at
  <2>3. (CHOOSE x \in at : TRUE) \in Occupied
    BY <2>2
  <2>4. QED
    BY <1>1, <2>2, <2>3
<1>7. ASSUME NEW k \in Keys \ found PROVE Table[k] = NONE
  <2>1. \A x \in Occupied : array[dict][x].key # k
    BY <1>7
  <2>2. QED
    BY ZenonT(30), <1>5, <2>1
<1>8. QED
  BY <1>1, <1>2, <1>4, <1>6, <1>7

\* No two threads at one slot, but to read.
LEMMA Guarded == IInv => GuardedUntilResized
<1> SUFFICES ASSUME IInv, mutex = 1, NEW t \in Threads, NEW u \in Threads, t # u,
                    pc[t] \in Searching
             PROVE  /\ pc[u] \in Searching /\ slot[t] = slot[u] =>
                          Calling(t, "Get") /\ Calling(u, "Get")
                    /\ pc[u] # "copy"
  BY DEF GuardedUntilResized
<1> /\ Typed /\ TypeOK /\ Striped /\ Held /\ Exclusion /\ AllHeld
    /\ t # Nobody /\ u # Nobody /\ lock[t] \in Locks /\ lock[u] \in Locks
  BY Bounds DEF IInv, Typed, TypeOK
<1>1. lock[t] = <<1, slot[t] \div locksize>>
  BY DEF Striped
<1>2. ASSUME writer[lock[t]] = u PROVE FALSE
  <2>1. readers[lock[t]] = {}
    BY <1>2 DEF Exclusion
  <2>2. QED
    BY <1>2, <2>1 DEF Held
<1>3. ASSUME pc[u] \in Searching, slot[t] = slot[u]
      PROVE  Calling(t, "Get") /\ Calling(u, "Get")
  <2>1. lock[u] = lock[t]
    BY <1>1, <1>3 DEF Striped
  <2>2. Calling(u, "Get")
    BY <1>2, <1>3, <2>1 DEF Held
  <2>3. u \in readers[lock[t]]
    BY <1>3, <2>1, <2>2 DEF Held
  <2>4. QED
    BY <2>2, <2>3 DEF Held, Exclusion
<1>4. ASSUME pc[u] = "copy" PROVE FALSE
  <2>1. slot[t] \in Nat /\ slot[t] < capacity
    <3>1. todo[t] # <<>>
      BY DEF Typed, Searching
    <3>2. Hash[Key(t)] + i[t] \in Nat /\ capacity \in Nat /\ capacity >= 1
      <4>1. Hash[Key(t)] \in Nat /\ i[t] \in Nat
        BY <3>1, CallType DEF TypeOK
      <4>2. capacity \in Nat /\ capacity >= 1
        BY Bounds DEF TypeOK
      <4>3. QED
        BY <4>1, <4>2
    <3>3. \A x \in Nat : x % capacity \in 0..(capacity-1)
      BY <3>2, Euclid
    <3>4. slot[t] = (Hash[Key(t)] + i[t]) % capacity
      BY DEF Striped
    <3>5. QED
      BY <3>2, <3>3, <3>4
  <2>2. slot[t] \div locksize \in 0..MaxCapacity /\ slot[t] \div locksize < nlocks(capacity)
    BY <2>1, Stripe
  <2>3. writer[lock[t]] = u
    BY <1>1, <1>4, <2>2 DEF AllHeld
  <2>4. QED
    BY <1>2, <2>3
<1>5. QED
  BY <1>3, <1>4

-----------------------------------------------------------------------------
(* What a call has seen, and where it is in its search.                    *)

\* A key is about to go to a slot that is free, or what is written to has its key.
Aimed(t) ==
  pc[t] = "write" => IF Calling(t, "Insert") THEN array[dict][slot[t]] = INVALID
                                             ELSE At(dict, slot[t], Key(t))

\* What the table has for the key of a call is among what the call has seen.
Recalled(t) ==
  /\ pc[t] = "count" => seen[t] = {}
  /\ pc[t] \notin {"retry", "count"} => seen[t] # {}
  /\ seen[t] # {} => todo[t] # <<>> /\ Table[Key(t)] \in seen[t]

\* A call that looks for its key has not passed it by, unless it was missing then.
Passed(t) ==
  pc[t] \in {"test", "pick", "lock", "look"} /\ ~ Calling(t, "Insert") =>
    \A j \in 0..(i[t]-1) :
      NONE \in seen[t] \/ ~ At(dict, (Hash[Key(t)] + j) % capacity, Key(t))

\* Until the mutexes are replaced.
ScanInv ==
  mutex = 1 =>
    /\ dict = 1 /\ seen \in [Threads -> SUBSET (Values \cup {NONE})]
    /\ \A t \in Threads : Aimed(t) /\ Recalled(t) /\ Passed(t)

\* What is known before a step of t, and of the step.
Ongoing(t) == IInv /\ KeysInv /\ ScanInv /\ Step(t) /\ mutex' = 1

\* The steps from a slot's being free for a hash value on reach every slot.
LEMMA Reached ==
  ASSUME NEW h \in Nat, NEW cap \in Nat, cap >= 1, NEW x \in 0..(cap-1)
  PROVE  \E j \in 0..(cap-1) : (h + j) % cap = x
<1>1. PICK q \in Nat, r \in 0..(cap-1) : h = (cap * q) + r
  BY Euclid
<1>2. CASE x >= r
  <2>1. x - r \in 0..(cap-1) /\ cap * q \in Nat
    BY <1>2
  <2>2. h + (x - r) = (cap * q) + x
    BY <1>1, <2>1
  <2>3. ((cap * q) + x) % cap = x
    BY Remainder
  <2> QED
    BY <2>1, <2>2, <2>3
<1>3. CASE x < r
  <2>1. (cap - r) + x \in 0..(cap-1) /\ cap * q \in Nat /\ q + 1 \in Nat
        /\ cap * (q + 1) = (cap * q) + cap
    BY <1>3
  <2>2. h + ((cap - r) + x) = (cap * (q + 1)) + x
    BY <1>1, <2>1
  <2>3. ((cap * (q + 1)) + x) % cap = x
    BY <2>1, Remainder
  <2> QED
    BY <2>1, <2>2, <2>3
<1> QED
  BY <1>2, <1>3

\* The fields before and after a step.
LEMMA Firsts ==
  ASSUME NEW t \in Threads, Ongoing(t)
  PROVE  /\ mutex = 1 /\ dict = 1 /\ dict' = 1 /\ capacity' = capacity
         /\ capacity \in Nat /\ capacity >= 1 /\ IInv' /\ KeysInv'
         /\ DOMAIN array[1] = 0..(capacity-1) /\ DOMAIN array'[1] = 0..(capacity-1)
         /\ array \in Seq(Arrays) /\ Len(array) \in Nat /\ 1 \in DOMAIN array
         /\ \A u \in Threads : Kept(u) = {1} /\ pc[u] \notin {"set_capacity", "set_dict", "unlock_all"}
<1> /\ IInv /\ Typed /\ TypeOK /\ Sized /\ KeysInv /\ Newest /\ Step(t) /\ ScanInv
  BY DEF Ongoing, IInv, Typed, KeysInv
<1>1. mutex = 1 /\ capacity' = capacity /\ dict = 1
  BY FirstMutexes DEF Ongoing, ScanInv
<1>2. capacity \in Nat /\ capacity >= 1
  BY Bounds DEF TypeOK
<1>3. IInv' /\ KeysInv'
  BY NextIInv, NextKeysInv DEF Next
<1>4. \A u \in Threads : pc[u] \notin {"set_capacity", "set_dict", "unlock_all"}
  BY <1>1 DEF Sized
<1>5. dict' = 1
  BY <1>1, <1>4, Frames DEF SetDict
<1>6. \A u \in Threads : pc'[u] # "set_dict"
  <2>1. \A u \in Threads : pc'[u] = "set_dict" => mutex' >= 2
    BY <1>3 DEF IInv, Sized
  <2> QED
    BY <2>1 DEF Ongoing
<1>7. DOMAIN array[1] = 0..(capacity-1) /\ DOMAIN array'[1] = 0..(capacity-1)
  BY <1>1, <1>3, <1>4, <1>5, <1>6 DEF IInv, Sized
<1>8. array \in Seq(Arrays) /\ Len(array) \in Nat /\ 1 \in DOMAIN array
  BY <1>1, ArrayType DEF Typed, TypeOK
<1>9. \A u \in Threads : Kept(u) = {1}
  <2> SUFFICES ASSUME NEW u \in Threads PROVE from[u] = 1
    BY <1>1 DEF Kept
  <2>1. from[u] \in 1..Len(array) /\ from[u] <= 1
    BY <1>1 DEF TypeOK, Newest
  <2> QED
    BY <1>8, <2>1
<1> QED
  BY <1>1, <1>2, <1>3, <1>4, <1>5, <1>7, <1>8, <1>9

\* A thread at a slot has one that exists.
LEMMA AtASlot ==
  ASSUME NEW t \in Threads, Ongoing(t), NEW u \in Threads, pc[u] \in Searching
  PROVE  /\ slot[u] = (Hash[Key(u)] + i[u]) % capacity /\ slot[u] \in 0..(capacity-1)
         /\ Key(u) \in Keys /\ Hash[Key(u)] \in Nat /\ i[u] \in Nat /\ todo[u] # <<>>
         /\ Read(u) = {array[1][slot[u]]}
<1> /\ IInv /\ Typed /\ TypeOK /\ Striped
  BY DEF Ongoing, IInv, Typed
<1>1. todo[u] # <<>> /\ mutex = 1
  BY Firsts DEF Typed, Searching
<1>2. Key(u) \in Keys /\ Hash[Key(u)] \in Nat /\ i[u] \in Nat
  BY <1>1, CallType DEF TypeOK
<1>3. slot[u] = (Hash[Key(u)] + i[u]) % capacity
  BY <1>1 DEF Striped
<1>4. slot[u] \in 0..(capacity-1)
  <2>1. Hash[Key(u)] + i[u] \in Nat
    BY <1>2
  <2> QED
    BY <1>3, <2>1, Firsts, Euclid
<1>5. Read(u) = {array[1][slot[u]]}
  BY <1>4, Firsts DEF Read
<1> QED
  BY <1>1, <1>2, <1>3, <1>4, <1>5

-----------------------------------------------------------------------------
(* The table by its slots.                                                 *)

\* The value of a key that is in one place at most.
LEMMA ValueOf ==
  ASSUME NEW S, NEW d, NEW k, NEW F, \A x : x \in F <=> x \in S /\ Holds(d[x], k),
         \A x, y \in S : Holds(d[x], k) /\ Holds(d[y], k) => x = y
  PROVE  /\ \A x \in S : Holds(d[x], k) => F # {} /\ d[CHOOSE y \in F : TRUE] = d[x]
         /\ (\A x \in S : ~ Holds(d[x], k)) => F = {}
<1>1. ASSUME NEW x \in S, Holds(d[x], k)
      PROVE  F # {} /\ d[CHOOSE y \in F : TRUE] = d[x]
  <2>1. x \in F
    BY <1>1
  <2>2. (CHOOSE y \in F : TRUE) \in F
    BY <2>1
  <2>3. (CHOOSE y \in F : TRUE) = x
    BY <1>1, <2>2
  <2> QED
    BY <2>1, <2>3
<1> QED
  BY <1>1

\* What the table has for a key is in the slot of the key.
LEMMA TableNow ==
  ASSUME NEW t \in Threads, Ongoing(t), NEW k \in Keys
  PROVE  /\ \A x \in 0..(capacity-1) : Holds(array[1][x], k) => Table[k] = array[1][x].value
         /\ (\A x \in 0..(capacity-1) : ~ Holds(array[1][x], k)) => Table[k] = NONE
<1> dict = 1 /\ Once /\ DOMAIN array[1] = 0..(capacity-1) /\ 1 \in 1..Len(array)
  BY Firsts DEF Ongoing, KeysInv, IInv, Typed, TypeOK
<1>1. \A x, y \in 0..(capacity-1) : Holds(array[1][x], k) /\ Holds(array[1][y], k) => x = y
  BY DEF Once, At
<1> DEFINE F == {x \in DOMAIN array[dict] : Holds(array[dict][x], k)}
<1>2. \A x : x \in F <=> x \in 0..(capacity-1) /\ Holds(array[1][x], k)
  OBVIOUS
<1>3. Table[k] = IF F = {} THEN NONE ELSE array[dict][CHOOSE x \in F : TRUE].value
  BY DEF Table
<1> HIDE DEF F
<1>4. /\ \A x \in 0..(capacity-1) : Holds(array[1][x], k) => F # {} /\ array[1][CHOOSE y \in F : TRUE] = array[1][x]
      /\ (\A x \in 0..(capacity-1) : ~ Holds(array[1][x], k)) => F = {}
  <2>1. PICK S, d : S = 0..(capacity-1) /\ d = array[1]
    OBVIOUS
  <2>2. \A x : x \in F <=> x \in S /\ Holds(d[x], k)
    BY <1>2, <2>1
  <2>3. \A x, y \in S : Holds(d[x], k) /\ Holds(d[y], k) => x = y
    BY <1>1, <2>1
  <2>4. /\ \A x \in S : Holds(d[x], k) => F # {} /\ d[CHOOSE y \in F : TRUE] = d[x]
        /\ (\A x \in S : ~ Holds(d[x], k)) => F = {}
    BY <2>2, <2>3, ValueOf
  <2> QED
    BY <2>1, <2>4
<1> QED
  BY <1>3, <1>4

\* The same after the step.
LEMMA TableNext ==
  ASSUME NEW t \in Threads, Ongoing(t), NEW k \in Keys
  PROVE  /\ \A x \in 0..(capacity-1) : Holds(array'[1][x], k) => Table'[k] = array'[1][x].value
         /\ (\A x \in 0..(capacity-1) : ~ Holds(array'[1][x], k)) => Table'[k] = NONE
<1> dict' = 1 /\ Once' /\ DOMAIN array'[1] = 0..(capacity-1) /\ 1 \in 1..Len(array')
  BY Firsts DEF KeysInv, IInv, Typed, TypeOK
<1>1. \A x, y \in 0..(capacity-1) : Holds(array'[1][x], k) /\ Holds(array'[1][y], k) => x = y
  BY DEF Once, At
<1> DEFINE F == {x \in DOMAIN array'[dict'] : Holds(array'[dict'][x], k)}
<1>2. \A x : x \in F <=> x \in 0..(capacity-1) /\ Holds(array'[1][x], k)
  OBVIOUS
<1>3. Table'[k] = IF F = {} THEN NONE ELSE array'[dict'][CHOOSE x \in F : TRUE].value
  BY DEF Table
<1> HIDE DEF F
<1>4. /\ \A x \in 0..(capacity-1) : Holds(array'[1][x], k) => F # {} /\ array'[1][CHOOSE y \in F : TRUE] = array'[1][x]
      /\ (\A x \in 0..(capacity-1) : ~ Holds(array'[1][x], k)) => F = {}
  <2>1. PICK S, d : S = 0..(capacity-1) /\ d = array'[1]
    OBVIOUS
  <2>2. \A x : x \in F <=> x \in S /\ Holds(d[x], k)
    BY <1>2, <2>1
  <2>3. \A x, y \in S : Holds(d[x], k) /\ Holds(d[y], k) => x = y
    BY <1>1, <2>1
  <2>4. /\ \A x \in S : Holds(d[x], k) => F # {} /\ d[CHOOSE y \in F : TRUE] = d[x]
        /\ (\A x \in S : ~ Holds(d[x], k)) => F = {}
    BY <2>2, <2>3, ValueOf
  <2> QED
    BY <2>1, <2>4
<1> QED
  BY <1>3, <1>4

\* What is in a slot.
LEMMA InSlot ==
  ASSUME NEW t \in Threads, Ongoing(t), NEW x \in 0..(capacity-1)
  PROVE  /\ array[1][x] \in Pair \cup {INVALID} /\ array'[1][x] \in Pair \cup {INVALID}
         /\ INVALID \notin Pair
         /\ \A k \in Keys : Holds(array[1][x], k) => array[1][x].value \in Values
         /\ \A k \in Keys : Holds(array'[1][x], k) => array'[1][x].value \in Values
<1>1. array \in Seq(Arrays) /\ array' \in Seq(Arrays) /\ 1 \in 1..Len(array) /\ 1 \in 1..Len(array')
      /\ x \in DOMAIN array[1] /\ x \in DOMAIN array'[1]
  BY Firsts DEF Ongoing, IInv, Typed, TypeOK
<1>2. INVALID \notin Pair
  BY ProbingAssumption DEF Pair
<1>3. array[1][x] \in Pair \cup {INVALID} /\ array'[1][x] \in Pair \cup {INVALID}
  BY <1>1, ArrayType
<1> QED
  BY <1>2, <1>3 DEF Holds, Pair

\* The table has a value or none for a key.
LEMMA TableType ==
  ASSUME NEW t \in Threads, Ongoing(t)
  PROVE  Table \in [Keys -> Values \cup {NONE}] /\ Table' \in [Keys -> Values \cup {NONE}]
<1>1. ASSUME NEW k \in Keys PROVE Table[k] \in Values \cup {NONE}
  BY TableNow, InSlot
<1>2. ASSUME NEW k \in Keys PROVE Table'[k] \in Values \cup {NONE}
  BY TableNext, InSlot
<1>3. /\ Table = [k \in Keys |-> Table[k]]
      /\ Table' = [k \in Keys |-> Table'[k]]
  BY DEF Table
<1> QED
  BY <1>1, <1>2, <1>3

\* A thread that is about to write has aimed well.
LEMMA AtWrite ==
  ASSUME NEW t \in Threads, Ongoing(t), pc[t] = "write"
  PROVE  /\ slot[t] \in 0..(capacity-1) /\ Key(t) \in Keys
         /\ Calling(t, "Insert") => array[1][slot[t]] = INVALID
         /\ ~ Calling(t, "Insert") => Holds(array[1][slot[t]], Key(t))
<1> ScanInv /\ mutex = 1 /\ dict = 1
  BY Firsts DEF Ongoing
<1>1. Aimed(t)
  BY DEF ScanInv
<1> QED
  BY <1>1, AtASlot DEF Aimed, At, Searching

\* What a step stores in the first array.
LEMMA Stores ==
  ASSUME NEW t \in Threads, Ongoing(t)
  PROVE  /\ Put(t) => array'[1] = [array[1] EXCEPT ![slot[t]] = [key |-> Key(t), value |-> Call(t).value]]
         /\ Update(t) => array'[1] = [array[1] EXCEPT ![slot[t]] = [@ EXCEPT !.value = Call(t).value]]
         /\ Delete(t) => array'[1] = [array[1] EXCEPT ![slot[t]] = INVALID]
         /\ Put(t) \/ Update(t) \/ Delete(t) \/ array'[1] = array[1]
<1> /\ Step(t) /\ array \in Seq(Arrays) /\ Len(array) \in Nat /\ 1 \in DOMAIN array /\ Kept(t) = {1}
    /\ DOMAIN array = 1..Len(array) /\ IInv /\ Typed
  BY Firsts DEF Ongoing, IInv
<1>1. Put(t) => array'[1] = [array[1] EXCEPT ![slot[t]] = [key |-> Key(t), value |-> Call(t).value]]
  BY DEF Put
<1>2. ASSUME Update(t)
      PROVE  array'[1] = [array[1] EXCEPT ![slot[t]] = [@ EXCEPT !.value = Call(t).value]]
  <2>1. pc[t] = "write" /\ ~ Calling(t, "Insert")
    BY <1>2 DEF Update, Calling
  <2>2. array[1][slot[t]] # INVALID
    BY <2>1, AtWrite DEF Holds
  <2>3. array' = [array EXCEPT ![1] = [array[1] EXCEPT ![slot[t]] =
                    IF array[1][slot[t]] = INVALID THEN array[1][slot[t]]
                    ELSE [array[1][slot[t]] EXCEPT !.value = Call(t).value]]]
    BY <1>2 DEF Update
  <2> QED
    BY <2>2, <2>3
<1>3. Delete(t) => array'[1] = [array[1] EXCEPT ![slot[t]] = INVALID]
  BY DEF Delete
<1>4. Allocate(t) => array'[1] = array[1]
  BY DEF Allocate
<1>5. ASSUME CopySlot(t) PROVE array'[1] = array[1]
  <2>1. Len(array) # 1
    BY <1>5 DEF CopySlot, IInv, Sized
  <2>2. CASE array' = array
    BY <2>2
  <2>3. CASE array' # array
    <3> DEFINE p == array[dict][i[t]]
               loc == getLocation(Hash[p.key], 2 * capacity, array[Len(array)])
    <3>1. array' = [array EXCEPT ![Len(array)] = [array[Len(array)] EXCEPT ![loc] = p]]
      BY <1>5, <2>3 DEF CopySlot
    <3> HIDE DEF p, loc
    <3> QED
      BY <2>1, <3>1
  <2> QED
    BY <2>2, <2>3
<1> QED
  BY <1>1, <1>2, <1>3, <1>4, <1>5, Frames

\* The same for one slot, and what it is to the key of the call.
LEMMA Writes ==
  ASSUME NEW t \in Threads, Ongoing(t)
  PROVE  /\ Put(t) \/ Update(t) \/ Delete(t) =>
              /\ pc[t] = "write" /\ slot[t] \in 0..(capacity-1) /\ Key(t) \in Keys
              /\ \A x \in 0..(capacity-1) : x # slot[t] => array'[1][x] = array[1][x]
         /\ Put(t) => /\ array[1][slot[t]] = INVALID
                      /\ array'[1][slot[t]] = [key |-> Key(t), value |-> Call(t).value]
                      /\ \A x \in 0..(capacity-1) : ~ Holds(array[1][x], Key(t))
         /\ Update(t) => /\ Holds(array[1][slot[t]], Key(t)) /\ Holds(array'[1][slot[t]], Key(t))
                         /\ array'[1][slot[t]].value = Call(t).value
         /\ Delete(t) => Holds(array[1][slot[t]], Key(t)) /\ array'[1][slot[t]] = INVALID
<1> DOMAIN array[1] = 0..(capacity-1) /\ IInv /\ KeysInv /\ 1 \in 1..Len(array)
  BY Firsts DEF Ongoing, IInv, Typed, TypeOK
<1>1. Put(t) => pc[t] = "write" /\ Calling(t, "Insert")
  BY DEF Put
<1>2. Update(t) \/ Delete(t) => pc[t] = "write" /\ ~ Calling(t, "Insert")
  BY DEF Update, Delete, Calling
<1>3. Put(t) \/ Update(t) \/ Delete(t) => slot[t] \in 0..(capacity-1) /\ Key(t) \in Keys
  BY <1>1, <1>2, AtWrite
<1>4. ASSUME Put(t), NEW x \in 0..(capacity-1) PROVE ~ Holds(array[1][x], Key(t))
  <2>1. PICK K \in SUBSET Keys : Entered(K)
    BY DEF KeysInv
  <2>2. \A d, y : ~ At(d, y, Key(t))
    BY <1>4, <2>1, NotYetIn
  <2> QED
    BY <2>2 DEF At
<1>5. ASSUME Update(t)
      PROVE  Holds(array'[1][slot[t]], Key(t)) /\ array'[1][slot[t]].value = Call(t).value
  <2>1. Holds(array[1][slot[t]], Key(t)) /\ slot[t] \in 0..(capacity-1)
    BY <1>2, <1>5, AtWrite
  <2>2. array[1][slot[t]] \in Pair
    BY <2>1, InSlot DEF Holds
  <2>3. array'[1][slot[t]] = [array[1][slot[t]] EXCEPT !.value = Call(t).value]
    BY <1>5, <2>1, Stores
  <2>4. array'[1][slot[t]].key = Key(t) /\ array'[1][slot[t]].value = Call(t).value
    BY <2>1, <2>2, <2>3 DEF Pair, Holds
  <2>5. array'[1][slot[t]] # INVALID
    <3>1. Call(t).value \in Values
      BY <1>5, CallType, AtASlot, <1>2 DEF Update, IInv, Searching
    <3>2. array'[1][slot[t]] \in Pair
      BY <2>2, <2>3, <3>1 DEF Pair
    <3> QED
      BY <2>1, <3>2, InSlot
  <2> QED
    BY <2>4, <2>5 DEF Holds
<1>6. ASSUME Put(t) \/ Update(t) \/ Delete(t), NEW x \in 0..(capacity-1), x # slot[t]
      PROVE  array'[1][x] = array[1][x]
  BY ZenonT(30), <1>6, Stores
<1>7. /\ Put(t) => array'[1][slot[t]] = [key |-> Key(t), value |-> Call(t).value]
      /\ Delete(t) => array'[1][slot[t]] = INVALID
  BY <1>3, Stores
<1> QED
  BY <1>1, <1>2, <1>3, <1>4, <1>5, <1>6, <1>7, AtWrite

\* A key whose slot is left alone has the value it had.
LEMMA SameValue ==
  ASSUME NEW t \in Threads, Ongoing(t), NEW k \in Keys,
         \A x \in 0..(capacity-1) : Holds(array[1][x], k) \/ Holds(array'[1][x], k) => array'[1][x] = array[1][x]
  PROVE  Table'[k] = Table[k]
<1>1. CASE \E x \in 0..(capacity-1) : Holds(array[1][x], k)
  <2>1. PICK x \in 0..(capacity-1) : Holds(array[1][x], k)
    BY <1>1
  <2>2. array'[1][x] = array[1][x] /\ Holds(array'[1][x], k)
    BY <2>1
  <2> QED
    BY <2>1, <2>2, TableNow, TableNext
<1>2. CASE \A x \in 0..(capacity-1) : ~ Holds(array[1][x], k)
  <2>1. \A x \in 0..(capacity-1) : ~ Holds(array'[1][x], k)
    BY <1>2
  <2> QED
    BY <1>2, <2>1, TableNow, TableNext
<1> QED
  BY <1>1, <1>2

\* An insertion gives its key a value, an update another and a deletion none; no
\* other step changes the map.
LEMMA TableStep ==
  ASSUME NEW t \in Threads, Ongoing(t)
  PROVE  /\ Put(t) => /\ Table[Key(t)] = NONE
                      /\ Table' = [Table EXCEPT ![Key(t)] = Call(t).value]
         /\ Update(t) => /\ Table[Key(t)] # NONE
                         /\ Table' = [Table EXCEPT ![Key(t)] = Call(t).value]
         /\ Delete(t) => /\ Table[Key(t)] # NONE
                         /\ Table' = [Table EXCEPT ![Key(t)] = NONE]
         /\ Put(t) \/ Update(t) \/ Delete(t) \/ Table' = Table
<1> Table \in [Keys -> Values \cup {NONE}] /\ Table' \in [Keys -> Values \cup {NONE}]
  BY TableType
<1>1. ASSUME NEW v, Key(t) \in Keys, Table'[Key(t)] = v, \A k \in Keys : k # Key(t) => Table'[k] = Table[k]
      PROVE  Table' = [Table EXCEPT ![Key(t)] = v]
  BY <1>1
<1>2. ASSUME Put(t) \/ Update(t) \/ Delete(t), NEW k \in Keys, k # Key(t)
      PROVE  Table'[k] = Table[k]
  <2>1. \A x \in 0..(capacity-1) : x # slot[t] => array'[1][x] = array[1][x]
    BY <1>2, Writes
  <2>2. ~ Holds(array[1][slot[t]], k) /\ ~ Holds(array'[1][slot[t]], k)
    <3>1. CASE Put(t)
      <4>1. array[1][slot[t]] = INVALID /\ array'[1][slot[t]] = [key |-> Key(t), value |-> Call(t).value]
        BY <3>1, Writes
      <4> QED
        BY <1>2, <4>1 DEF Holds
    <3>2. CASE Update(t)
      <4>1. Holds(array[1][slot[t]], Key(t)) /\ Holds(array'[1][slot[t]], Key(t))
        BY <3>2, Writes
      <4> QED
        BY <1>2, <4>1 DEF Holds
    <3>3. CASE Delete(t)
      <4>1. Holds(array[1][slot[t]], Key(t)) /\ array'[1][slot[t]] = INVALID
        BY <3>3, Writes
      <4> QED
        BY <1>2, <4>1 DEF Holds
    <3> QED
      BY <1>2, <3>1, <3>2, <3>3
  <2> QED
    BY <2>1, <2>2, SameValue
<1>3. CASE Put(t)
  <2>1. Table[Key(t)] = NONE
    BY <1>3, Writes, TableNow
  <2>2. Holds(array'[1][slot[t]], Key(t)) /\ array'[1][slot[t]].value = Call(t).value
    <3>1. array'[1][slot[t]] = [key |-> Key(t), value |-> Call(t).value]
      BY <1>3, Writes
    <3>2. [key |-> Key(t), value |-> Call(t).value] \in Pair
      BY <1>3, Writes, CallType, AtASlot DEF Put, Pair, Ongoing, IInv, Searching
    <3>3. INVALID \notin Pair
      BY ProbingAssumption DEF Pair
    <3> QED
      BY <3>1, <3>2, <3>3 DEF Holds
  <2>3. Table'[Key(t)] = Call(t).value
    BY <1>3, <2>2, Writes, TableNext
  <2> QED
    BY <1>1, <1>2, <1>3, <2>1, <2>3, Writes DEF Put, Update, Delete, Calling
<1>4. CASE Update(t)
  <2>1. Table[Key(t)] = array[1][slot[t]].value /\ array[1][slot[t]].value \in Values
    BY <1>4, Writes, TableNow, InSlot
  <2>2. Table'[Key(t)] = Call(t).value
    BY <1>4, Writes, TableNext
  <2>3. Table[Key(t)] # NONE
    BY <2>1, WorkloadAssumption
  <2>4. Table' = [Table EXCEPT ![Key(t)] = Call(t).value]
    BY <1>1, <1>2, <1>4, <2>2, Writes
  <2>5. ~ Put(t) /\ ~ Delete(t)
    BY <1>4 DEF Put, Update, Delete, Calling
  <2> QED
    BY <1>4, <2>3, <2>4, <2>5
<1>5. CASE Delete(t)
  <2>1. Table[Key(t)] = array[1][slot[t]].value /\ array[1][slot[t]].value \in Values
    BY <1>5, Writes, TableNow, InSlot
  <2>2. \A x \in 0..(capacity-1) : ~ Holds(array'[1][x], Key(t))
    <3>1. \A x \in 0..(capacity-1) : x # slot[t] => ~ Holds(array[1][x], Key(t))
      BY <1>5, Writes, Firsts DEF KeysInv, Once, At, Ongoing, IInv, Typed, TypeOK
    <3>2. array'[1][slot[t]] = INVALID /\ \A x \in 0..(capacity-1) : x # slot[t] => array'[1][x] = array[1][x]
      BY <1>5, Writes
    <3> QED
      BY <3>1, <3>2 DEF Holds
  <2>3. Table'[Key(t)] = NONE
    BY <1>5, <2>2, Writes, TableNext
  <2> QED
    BY <1>1, <1>2, <1>5, <2>1, <2>3, Writes, WorkloadAssumption DEF Put, Update, Delete, Calling
<1>6. CASE array'[1] = array[1] /\ ~ Put(t) /\ ~ Update(t) /\ ~ Delete(t)
  <2>1. \A k \in Keys : Table'[k] = Table[k]
    BY <1>6, SameValue
  <2> QED
    BY <1>6, <2>1
<1> QED
  BY <1>3, <1>4, <1>5, <1>6, Stores

-----------------------------------------------------------------------------
(* What a call sees.                                                       *)

\* The steps at which a call takes effect, or answers that there is nothing to change.
Answering(t) == \/ Put(t) \/ Update(t) \/ Delete(t) \/ GetHit(t)
                \/ Exhausted(t) /\ ~ Calling(t, "Insert")

\* What a thread has been told: an insertion that is about to count its pair is over.
Told(t) == IF pc[t] = "count" THEN NONE ELSE ret[t]

\* Which steps those are, and that the others leave the calls and their answers.
LEMMA Answers ==
  ASSUME NEW t \in Threads, Ongoing(t)
  PROVE  /\ Answering(t) => /\ pc[t] \in {"pick", "look", "write"} /\ todo[t] # <<>>
                            /\ Pending(t) = todo[t] /\ Pending(t)' = Tail(todo[t])
                            /\ Tail(todo[t]) # todo[t] /\ pc'[t] \in {"count", "retry"}
         /\ ~ Answering(t) => Pending(t)' = Pending(t) /\ Told(t)' = Told(t)
         /\ ~ Answering(t) /\ pc[t] # "count" => todo' = todo /\ pc'[t] # "count"
         /\ pc[t] = "retry" => AwaitResize(t) /\ todo[t] # <<>> /\ pc'[t] \in {"test", "pick"}
         /\ pc[t] = "count" => Count(t) /\ pc'[t] \in {"count", "retry"}
<1> /\ Step(t) /\ TypeOK /\ (pc[t] # "retry" => todo[t] # <<>>)
    /\ pc \in [Threads -> Steps] /\ todo \in [Threads -> Seq(Calls)]
    /\ ret \in [Threads -> Values \cup {NONE} \cup BOOLEAN]
  BY DEF Ongoing, IInv, Typed, TypeOK, Steps
<1>1. ASSUME todo[t] # <<>> PROVE Tail(todo[t]) # todo[t]
  <2>1. Len(Tail(todo[t])) # Len(todo[t])
    BY <1>1
  <2> QED
    BY <2>1
<1>2. CASE Put(t) \/ Update(t) \/ Delete(t) \/ GetHit(t)
  <2>1. Answering(t) /\ pc[t] \in {"look", "write"}
    BY <1>2 DEF Answering, Put, Update, Delete, GetHit
  <2>2. CASE Put(t)
    <3>1. pc'[t] = "count" /\ todo' = todo
      BY <2>2 DEF Put, Goto, callVars
    <3> QED
      BY <1>1, <2>1, <3>1 DEF Pending
  <2>3. CASE Update(t) \/ Delete(t) \/ GetHit(t)
    <3>1. pc'[t] = "retry" /\ todo'[t] = Tail(todo[t])
      BY <2>3 DEF Update, Delete, GetHit, Return, Goto
    <3> QED
      BY <1>1, <2>1, <3>1 DEF Pending
  <2> QED
    BY <1>2, <2>2, <2>3
<1>3. CASE Exhausted(t) /\ ~ Calling(t, "Insert")
  <2>1. Answering(t) /\ pc[t] = "pick"
    BY <1>3 DEF Answering, Exhausted
  <2>2. pc'[t] = "retry" /\ todo'[t] = Tail(todo[t])
    BY <1>3 DEF Exhausted, Return, Goto
  <2> QED
    BY <1>1, <2>1, <2>2 DEF Pending
<1>4. CASE Count(t)
  <2>1. pc[t] = "count" /\ todo[t] # <<>> /\ ~ Answering(t)
    BY <1>4 DEF Count, Answering, Put, Update, Delete, GetHit, Exhausted
  <2>2. \/ UNCHANGED <<todo, ret, pc>>
        \/ pc'[t] = "retry" /\ todo'[t] = Tail(todo[t]) /\ ret'[t] = NONE
    BY <1>4 DEF Count, Return, Goto, callVars
  <2> QED
    BY <1>4, <2>1, <2>2 DEF Pending, Told
<1>5. ASSUME pc[t] # "count", pc'[t] # "count", todo' = todo, ret' = ret, ~ Answering(t)
      PROVE  Pending(t)' = Pending(t) /\ Told(t)' = Told(t)
  BY <1>5 DEF Pending, Told
<1>6. CASE AwaitResize(t)
  <2>1. pc[t] = "retry" /\ ~ Answering(t)
    BY <1>6 DEF AwaitResize, Answering, Put, Update, Delete, GetHit, Exhausted
  <2>2. pc'[t] \in {"test", "pick"} /\ todo' = todo /\ ret' = ret /\ todo[t] # <<>>
    BY <1>6 DEF AwaitResize, Goto, callVars
  <2> QED
    BY <1>5, <1>6, <2>1, <2>2
<1>7. CASE ~ Answering(t) /\ ~ Count(t) /\ ~ AwaitResize(t)
  <2>1. pc[t] \notin {"retry", "count"} /\ pc'[t] # "count" /\ todo' = todo /\ ret' = ret
    <3>1. CASE TestSize(t) \/ PickSlot(t) \/ LockSlot(t) \/ LookHit(t)
      BY <3>1 DEF TestSize, PickSlot, LockSlot, LookHit, Goto, callVars
    <3>4. CASE Exhausted(t)
      <4>1. Calling(t, "Insert") /\ ~ Calling(t, "Get")
        BY <1>7, <3>4 DEF Answering, Calling
      <4>2. pc[t] = "pick" /\ Goto(t, "retry") /\ UNCHANGED callVars
        BY <3>4, <4>1 DEF Exhausted
      <4> QED
        BY <4>2 DEF Goto, callVars
    <3>2. CASE InsertMiss(t) \/ LookMiss(t) \/ TryResize(t) \/ LockAll(t)
      BY <3>2 DEF InsertMiss, LookMiss, TryResize, LockAll, Goto, callVars
    <3>3. CASE Allocate(t) \/ CopySlot(t) \/ SetMutex(t) \/ SetCapacity(t) \/ SetDict(t)
               \/ UnlockAll(t) \/ EndResize(t)
      BY <3>3 DEF Allocate, CopySlot, SetMutex, SetCapacity, SetDict, UnlockAll, EndResize, Goto, callVars
    <3> QED
      BY <1>7, <3>1, <3>2, <3>3, <3>4 DEF Step, Answering
  <2> QED
    BY <1>5, <1>7, <2>1
<1> QED
  BY <1>2, <1>3, <1>4, <1>6, <1>7 DEF Answering

\* What a call has seen after the step.
LEMMA SeenNext ==
  ASSUME NEW t \in Threads, Ongoing(t), Remember, NEW u \in Threads
  PROVE  /\ u = t /\ Answering(t) => seen'[u] = {}
         /\ seen[u] # {} => /\ todo[u] # <<>> /\ Key(u) \in Keys /\ Table[Key(u)] \in seen[u]
                            /\ pc[u] # "count"
         /\ seen[u] # {} /\ ~ (u = t /\ Answering(t)) =>
              /\ todo'[u] = todo[u] /\ pc'[u] # "count"
              /\ seen'[u] = seen[u] \cup {Table'[Key(u)]}
         /\ seen[u] = {} =>
              \/ seen'[u] = {} /\ pc'[u] \in {"retry", "count"}
              \/ /\ u = t /\ AwaitResize(t) /\ todo'[u] = todo[u] /\ todo[u] # <<>> /\ Key(u) \in Keys
                 /\ pc'[u] \in {"test", "pick"} /\ seen'[u] = {Table'[Key(u)]}
<1> /\ Step(t) /\ Typed /\ TypeOK /\ ScanInv /\ mutex = 1
  BY Firsts DEF Ongoing, IInv, Typed
<1> Recalled(u)
  BY DEF ScanInv
<1>1. seen'[u] = IF Pending(u)' # Pending(u) \/ (seen[u] = {} /\ pc'[u] \in {"retry", "count"})
                 THEN {} ELSE seen[u] \cup {Table'[Key(u)]}
  BY DEF Remember, Pending
<1>2. CASE u = t /\ Answering(t)
  <2>1. seen'[u] = {} /\ pc'[u] \in {"retry", "count"}
    BY <1>1, <1>2, Answers
  <2> QED
    BY <1>2, <2>1, Answers, CallType DEF Recalled
<1>3. CASE u # t
  <2>1. pc'[u] = pc[u] /\ todo'[u] = todo[u]
    BY <1>3, Others
  <2>2. Pending(u)' = Pending(u)
    BY <2>1 DEF Pending
  <2> QED
    BY <1>1, <1>3, <2>1, <2>2, CallType DEF Recalled
<1>4. CASE u = t /\ ~ Answering(t)
  <2>1. Pending(u)' = Pending(u)
    BY <1>4, Answers
  <2>2. CASE seen[u] # {}
    <3>1. pc[u] # "count"
      BY <2>2 DEF Recalled
    <3> QED
      BY <1>1, <1>4, <2>1, <2>2, <3>1, Answers, CallType DEF Recalled
  <2>3. CASE seen[u] = {} /\ pc[u] = "count"
    BY <1>1, <1>4, <2>1, <2>3, Answers
  <2>4. CASE seen[u] = {} /\ pc[u] = "retry"
    <3>1. AwaitResize(t) /\ todo[t] # <<>> /\ pc'[t] \in {"test", "pick"} /\ todo' = todo
      BY <1>4, <2>4, Answers
    <3> QED
      BY <1>1, <1>4, <2>1, <2>4, <3>1, CallType
  <2> QED
    BY <2>2, <2>3, <2>4 DEF Recalled
<1> QED
  BY <1>2, <1>3, <1>4

\* What a call has seen is kept up.
LEMMA RecalledStep ==
  ASSUME NEW t \in Threads, Ongoing(t), Remember, NEW u \in Threads
  PROVE  Recalled(u)' /\ seen'[u] \in SUBSET (Values \cup {NONE})
<1> ScanInv /\ mutex = 1
  BY Firsts DEF Ongoing
<1> /\ Recalled(u) /\ seen[u] \in SUBSET (Values \cup {NONE})
    /\ Table' \in [Keys -> Values \cup {NONE}]
  BY TableType DEF ScanInv
<1>1. ASSUME todo'[u] = todo[u] PROVE Key(u)' = Key(u)
  BY <1>1 DEF Key, Call
<1>2. CASE u = t /\ Answering(t)
  <2>1. seen'[u] = {} /\ pc'[u] \in {"retry", "count"}
    BY <1>2, SeenNext, Answers
  <2> QED
    BY <2>1 DEF Recalled
<1>3. CASE seen[u] # {} /\ ~ (u = t /\ Answering(t))
  <2>1. /\ Key(u) \in Keys /\ todo'[u] = todo[u] /\ todo[u] # <<>> /\ pc'[u] # "count"
        /\ seen'[u] = seen[u] \cup {Table'[Key(u)]}
    BY <1>3, SeenNext
  <2>2. Table'[Key(u)'] \in seen'[u] /\ Table'[Key(u)] \in Values \cup {NONE}
    BY <1>1, <2>1
  <2> QED
    BY <1>3, <2>1, <2>2 DEF Recalled
<1>4. CASE seen[u] = {}
  <2>1. CASE seen'[u] = {} /\ pc'[u] \in {"retry", "count"}
    BY <2>1 DEF Recalled
  <2>2. CASE /\ todo'[u] = todo[u] /\ todo[u] # <<>> /\ Key(u) \in Keys
             /\ pc'[u] \in {"test", "pick"} /\ seen'[u] = {Table'[Key(u)]}
    <3>1. Table'[Key(u)'] \in seen'[u] /\ Table'[Key(u)] \in Values \cup {NONE}
      BY <1>1, <2>2
    <3> QED
      BY <2>2, <3>1 DEF Recalled
  <2> QED
    BY <1>4, <2>1, <2>2, SeenNext
<1> QED
  BY <1>2, <1>3, <1>4

\* A slot that does not have the key of a call gets it only if the call sees it missing.
LEMMA SeenAway ==
  ASSUME NEW t \in Threads, Ongoing(t), Remember, NEW u \in Threads, seen[u] # {},
         ~ (u = t /\ Answering(t)), NEW x \in 0..(capacity-1),
         NONE \in seen[u] \/ ~ Holds(array[1][x], Key(u))
  PROVE  NONE \in seen'[u] \/ ~ Holds(array'[1][x], Key(u))
<1>1. /\ Key(u) \in Keys /\ Table[Key(u)] \in seen[u] /\ seen'[u] = seen[u] \cup {Table'[Key(u)]}
  BY SeenNext
<1> SUFFICES ASSUME ~ Holds(array[1][x], Key(u)), Holds(array'[1][x], Key(u))
             PROVE  NONE \in seen[u]
  BY <1>1
<1>2. CASE Put(t)
  <2>1. x = slot[t] /\ array'[1][x] = [key |-> Key(t), value |-> Call(t).value]
    BY <1>2, Writes
  <2>2. Key(t) = Key(u)
    BY <2>1 DEF Holds
  <2>3. Table[Key(t)] = NONE
    BY <1>2, TableStep
  <2> QED
    BY <1>1, <2>2, <2>3
<1>3. CASE Update(t)
  <2>1. x = slot[t] /\ Holds(array[1][x], Key(t)) /\ Holds(array'[1][x], Key(t))
    BY <1>3, Writes
  <2> QED
    BY <2>1 DEF Holds
<1>4. CASE Delete(t)
  <2>1. x = slot[t] /\ array'[1][x] = INVALID
    BY <1>4, Writes
  <2> QED
    BY <2>1 DEF Holds
<1>5. CASE array'[1] = array[1]
  BY <1>5
<1> QED
  BY <1>2, <1>3, <1>4, <1>5, Stores

\* How a thread gets on with its search.
LEMMA Searches ==
  ASSUME NEW t \in Threads, Ongoing(t)
  PROVE  /\ pc'[t] = "write" => LookHit(t)
         /\ pc'[t] \in {"test", "pick", "lock", "look"} /\ ~ Calling(t, "Insert") =>
              \/ AwaitResize(t) /\ i'[t] = 0
              \/ LookMiss(t) /\ i'[t] = i[t] + 1
              \/ pc[t] \in {"test", "pick", "lock"} /\ i'[t] = i[t]
<1> Step(t) /\ pc \in [Threads -> Steps] /\ i \in [Threads -> Nat]
  BY DEF Ongoing, IInv, Typed, TypeOK, Steps
<1>1. CASE AwaitResize(t) \/ TestSize(t) \/ PickSlot(t) \/ LockSlot(t) \/ LookHit(t)
  BY <1>1 DEF AwaitResize, TestSize, PickSlot, LockSlot, LookHit, Goto, localVars
<1>2. CASE Answering(t) \/ pc[t] = "count"
  <2>1. pc'[t] \in {"count", "retry"}
    BY <1>2, Answers
  <2> QED
    BY <2>1
<1>3. CASE Exhausted(t) /\ Calling(t, "Insert")
  <2>1. ~ Calling(t, "Get")
    BY <1>3 DEF Calling
  <2>2. pc'[t] = "retry"
    BY <1>3, <2>1 DEF Exhausted, Goto
  <2> QED
    BY <2>2
<1>4. CASE InsertMiss(t)
  <2>1. Calling(t, "Insert") /\ pc[t] = "look" /\ pc'[t] \in {"look", "pick"}
    BY <1>4 DEF InsertMiss, Goto
  <2> QED
    BY <2>1
<1>5. CASE LookMiss(t)
  BY <1>5 DEF LookMiss, Goto
<1>6. CASE TryResize(t) \/ LockAll(t) \/ Allocate(t) \/ CopySlot(t)
  BY <1>6 DEF TryResize, LockAll, Allocate, CopySlot, Goto
<1>7. CASE SetMutex(t) \/ SetCapacity(t) \/ SetDict(t) \/ UnlockAll(t) \/ EndResize(t)
  BY <1>7 DEF SetMutex, SetCapacity, SetDict, UnlockAll, EndResize, Goto
<1> QED
  BY <1>1, <1>2, <1>3, <1>4, <1>5, <1>6, <1>7 DEF Step, Answering, Count

\* Nobody writes where another thread is about to.
LEMMA AimedStep ==
  ASSUME NEW t \in Threads, Ongoing(t), NEW u \in Threads
  PROVE  Aimed(u)'
<1> /\ Step(t) /\ IInv /\ Typed /\ TypeOK /\ ScanInv /\ mutex = 1 /\ dict = 1 /\ dict' = 1
    /\ DOMAIN array'[1] = 0..(capacity-1)
  BY Firsts DEF Ongoing, IInv, Typed
<1> 1 \in 1..Len(array')
  BY Firsts DEF IInv, Typed, TypeOK
<1> SUFFICES ASSUME pc'[u] = "write"
             PROVE  IF Calling(u, "Insert")' THEN array'[1][slot'[u]] = INVALID
                    ELSE slot'[u] \in 0..(capacity-1) /\ Holds(array'[1][slot'[u]], Key(u)')
  BY DEF Aimed, At
<1>1. CASE u = t
  <2>1. LookHit(t)
    BY <1>1, Searches
  <2>2. /\ pc[t] = "look" /\ array' = array /\ todo' = todo /\ slot' = slot
        /\ \E p \in Read(t) : IF Calling(t, "Insert") THEN p = INVALID ELSE Holds(p, Key(t))
    BY <2>1 DEF LookHit, callVars, localVars
  <2>3. Read(t) = {array[1][slot[t]]} /\ slot[t] \in 0..(capacity-1)
    BY <2>2, AtASlot DEF Searching
  <2>4. Calling(t, "Insert")' = Calling(t, "Insert") /\ Key(t)' = Key(t)
    BY <2>2 DEF Calling, Key, Call
  <2>5. IF Calling(t, "Insert") THEN array'[1][slot'[t]] = INVALID ELSE Holds(array'[1][slot'[t]], Key(t))
    BY <2>2, <2>3
  <2> QED
    BY <1>1, <2>2, <2>3, <2>4, <2>5 DEF At
<1>2. CASE u # t
  <2>1. pc[u] = "write" /\ slot'[u] = slot[u] /\ todo'[u] = todo[u]
    BY <1>2, Others
  <2>2. Calling(u, "Insert")' = Calling(u, "Insert") /\ Key(u)' = Key(u)
    BY <2>1 DEF Calling, Key, Call
  <2>3. /\ slot[u] \in 0..(capacity-1)
        /\ Calling(u, "Insert") => array[1][slot[u]] = INVALID
        /\ ~ Calling(u, "Insert") => Holds(array[1][slot[u]], Key(u))
    <3>1. Aimed(u)
      BY DEF ScanInv
    <3> QED
      BY <2>1, <3>1, AtASlot DEF Aimed, At, Searching
  <2>4. array'[1][slot[u]] = array[1][slot[u]]
    <3>1. CASE Put(t) \/ Update(t) \/ Delete(t)
      <4>1. pc[t] = "write" /\ ~ Calling(t, "Get")
        BY <3>1 DEF Put, Update, Delete, Calling
      <4>2. slot[u] # slot[t]
        BY <1>2, <2>1, <4>1, Guarded DEF GuardedUntilResized, Searching
      <4> QED
        BY <2>3, <3>1, <4>2, Writes
    <3>2. CASE array'[1] = array[1]
      BY <3>2
    <3> QED
      BY <3>1, <3>2, Stores
  <2> QED
    BY <2>1, <2>2, <2>3, <2>4 DEF At
<1> QED
  BY <1>1, <1>2

\* Nobody passes its key by.
LEMMA PassedStep ==
  ASSUME NEW t \in Threads, Ongoing(t), Remember, NEW u \in Threads
  PROVE  Passed(u)'
<1> /\ Step(t) /\ IInv /\ Typed /\ TypeOK /\ ScanInv /\ mutex = 1 /\ dict = 1 /\ dict' = 1
    /\ DOMAIN array[1] = 0..(capacity-1) /\ DOMAIN array'[1] = 0..(capacity-1)
    /\ capacity' = capacity /\ capacity \in Nat /\ capacity >= 1
  BY Firsts DEF Ongoing, IInv, Typed
<1> 1 \in 1..Len(array') /\ 1 \in 1..Len(array)
  BY Firsts DEF IInv, Typed, TypeOK
<1> Passed(u) /\ Recalled(u)
  BY DEF ScanInv
<1> SUFFICES ASSUME pc'[u] \in {"test", "pick", "lock", "look"}, ~ Calling(u, "Insert")',
                    NEW j \in 0..(i'[u]-1)
             PROVE  NONE \in seen'[u] \/ ~ Holds(array'[1][(Hash[Key(u)'] + j) % capacity], Key(u)')
  BY DEF Passed, At
<1>1. ~ (u = t /\ Answering(t)) /\ todo'[u] = todo[u] /\ todo[u] # <<>>
  <2>1. CASE u = t
    <3>1. ~ Answering(t) /\ pc[t] # "count"
      BY <2>1, Answers
    <3> QED
      BY <2>1, <3>1, Answers DEF Typed
  <2>2. CASE u # t
    BY <2>2, Others DEF Typed
  <2> QED
    BY <2>1, <2>2
<1>2. /\ Calling(u, "Insert")' = Calling(u, "Insert") /\ Key(u)' = Key(u)
      /\ Key(u) \in Keys /\ Hash[Key(u)] \in Nat /\ i[u] \in Nat /\ i'[u] \in Nat
  <2>1. i'[u] \in Nat
    BY LocalsStep
  <2> QED
    BY <1>1, <2>1, CallType DEF Calling, Key, Call, TypeOK
<1>3. PICK x : x = (Hash[Key(u)] + j) % capacity
  OBVIOUS
<1>4. x \in 0..(capacity-1)
  <2>1. Hash[Key(u)] + j \in Nat
    BY <1>2
  <2> QED
    BY <1>3, <2>1, Euclid
<1> SUFFICES NONE \in seen'[u] \/ ~ Holds(array'[1][x], Key(u))
  BY <1>2, <1>3
<1>5. ASSUME seen[u] # {}, NONE \in seen[u] \/ ~ Holds(array[1][x], Key(u))
      PROVE  NONE \in seen'[u] \/ ~ Holds(array'[1][x], Key(u))
  BY <1>1, <1>4, <1>5, SeenAway
<1>6. ASSUME pc[u] \in {"test", "pick", "lock", "look"}, j \in 0..(i[u]-1)
      PROVE  NONE \in seen'[u] \/ ~ Holds(array'[1][x], Key(u))
  <2>1. seen[u] # {}
    BY <1>6 DEF Recalled
  <2>2. NONE \in seen[u] \/ ~ At(1, x, Key(u))
    BY <1>2, <1>3, <1>6 DEF Passed
  <2> QED
    BY <1>4, <1>5, <2>1, <2>2 DEF At
<1>7. CASE u # t
  BY <1>6, <1>7, Others
<1>8. CASE u = t /\ AwaitResize(t) /\ i'[t] = 0
  BY <1>8
<1>9. CASE u = t /\ LookMiss(t) /\ i'[t] = i[t] + 1
  <2>1. pc[t] = "look" /\ \E p \in Read(t) : ~ Holds(p, Key(t))
    BY <1>9 DEF LookMiss
  <2>2. CASE j \in 0..(i[t]-1)
    BY <1>6, <1>9, <2>1, <2>2
  <2>3. CASE j = i[t]
    <3>1. Read(t) = {array[1][slot[t]]} /\ slot[t] = x
      BY <1>3, <1>9, <2>1, <2>3, AtASlot DEF Searching
    <3>2. seen[u] # {}
      BY <1>9, <2>1 DEF Recalled
    <3> QED
      BY <1>5, <1>9, <2>1, <3>1, <3>2
  <2> QED
    BY <1>2, <1>9, <2>2, <2>3
<1>10. CASE u = t /\ pc[t] \in {"test", "pick", "lock"} /\ i'[t] = i[t]
  BY <1>6, <1>10
<1> QED
  BY <1>2, <1>7, <1>8, <1>9, <1>10, Searches

\* A step that changes nothing is not remembered.
LEMMA Rests ==
  ASSUME mutex = 1, ScanInv, UNCHANGED vars, Remember
  PROVE  seen' = seen
<1>1. Table' = Table
  BY DEF vars, fieldVars, Table
<1>2. todo' = todo /\ pc' = pc
  BY DEF vars, callVars
<1>3. ASSUME NEW u \in Threads PROVE seen'[u] = seen[u]
  <2> Recalled(u)
    BY DEF ScanInv
  <2>1. seen'[u] = IF Pending(u)' # Pending(u) \/ (seen[u] = {} /\ pc'[u] \in {"retry", "count"})
                   THEN {} ELSE seen[u] \cup {Table'[Key(u)]}
    BY DEF Remember, Pending
  <2>2. Pending(u)' = Pending(u)
    BY <1>2 DEF Pending
  <2>3. CASE seen[u] = {}
    BY <1>2, <2>1, <2>2, <2>3 DEF Recalled
  <2>4. CASE seen[u] # {}
    BY <1>1, <1>2, <2>1, <2>2, <2>4 DEF Recalled
  <2> QED
    BY <2>3, <2>4
<1>4. seen' = [u \in Threads |-> seen'[u]]
  BY DEF Remember
<1> QED
  BY <1>3, <1>4 DEF ScanInv

\* Nothing has been called yet.
LEMMA InitScanInv == SInit => ScanInv
<1> SUFFICES ASSUME SInit PROVE ScanInv
  OBVIOUS
<1>1. dict = 1 /\ seen \in [Threads -> SUBSET (Values \cup {NONE})]
  BY DEF SInit, Init
<1>2. ASSUME NEW t \in Threads PROVE Aimed(t) /\ Recalled(t) /\ Passed(t)
  <2>1. pc[t] = "retry" /\ seen[t] = {}
    BY DEF SInit, Init
  <2> QED
    BY <2>1 DEF Aimed, Recalled, Passed
<1> QED
  BY <1>1, <1>2 DEF ScanInv

\* What a step with its memory is, as long as the first mutexes stay.
LEMMA SStep ==
  ASSUME IInv, KeysInv, ScanInv, mutex' = 1, [SNext]_<<vars, seen>>
  PROVE  \/ UNCHANGED <<vars, seen>>
         \/ Remember /\ \E t \in Threads : Ongoing(t)
<1>1. CASE UNCHANGED vars
  <2>1. mutex = 1
    BY <1>1 DEF vars, fieldVars
  <2> QED
    BY <1>1, <2>1, Rests DEF SNext
<1>2. CASE ~ UNCHANGED vars
  <2>1. Remember /\ Next
    BY <1>2 DEF SNext, vars
  <2>2. PICK t \in Threads : Step(t)
    BY <1>2, <2>1 DEF Next, Terminated
  <2> QED
    BY <2>1, <2>2 DEF Ongoing
<1> QED
  BY <1>1, <1>2

\* Every step keeps what is known of calls and searches.
LEMMA NextScanInv ==
  ASSUME IInv, KeysInv, ScanInv, [SNext]_<<vars, seen>>
  PROVE  ScanInv'
<1> SUFFICES ASSUME mutex' = 1 PROVE ScanInv'
  BY DEF ScanInv
<1>1. CASE UNCHANGED <<vars, seen>>
  <2>1. Table' = Table
    BY <1>1 DEF vars, fieldVars, Table
  <2>2. /\ mutex' = mutex /\ dict' = dict /\ array' = array /\ todo' = todo /\ pc' = pc /\ i' = i
        /\ slot' = slot /\ seen' = seen /\ capacity' = capacity
    BY <1>1 DEF vars, fieldVars, callVars, localVars
  <2>3. ASSUME NEW t \in Threads PROVE Aimed(t)' /\ Recalled(t)' /\ Passed(t)'
    <3>1. Aimed(t) /\ Recalled(t) /\ Passed(t)
      BY <2>2 DEF ScanInv
    <3>2. Aimed(t)'
      BY <2>2, <3>1 DEF Aimed, Calling, Key, Call, At
    <3>3. Recalled(t)'
      BY <2>1, <2>2, <3>1 DEF Recalled, Key, Call
    <3>4. Passed(t)'
      BY <2>2, <3>1 DEF Passed, Calling, Key, Call, At
    <3> QED
      BY <3>2, <3>3, <3>4
  <2> QED
    BY <2>2, <2>3 DEF ScanInv
<1>2. ASSUME Remember, NEW t \in Threads, Ongoing(t)
      PROVE  ScanInv'
  <2>1. dict' = 1
    BY <1>2, Firsts
  <2>2. \A u \in Threads : /\ Aimed(u)' /\ Recalled(u)' /\ Passed(u)'
                           /\ seen'[u] \in SUBSET (Values \cup {NONE})
    BY <1>2, AimedStep, RecalledStep, PassedStep
  <2>3. seen' = [u \in Threads |-> seen'[u]]
    BY <1>2 DEF Remember
  <2>4. seen' \in [Threads -> SUBSET (Values \cup {NONE})]
    BY <2>2, <2>3
  <2> QED
    BY <2>1, <2>2, <2>4 DEF ScanInv
<1> QED
  BY <1>1, <1>2, SStep

-----------------------------------------------------------------------------
(* The table is a map.                                                     *)

\* A step answers its own thread only.
LEMMA AnswersOne ==
  ASSUME NEW t \in Threads, Step(t), NEW u \in Threads, u # t, ret \in [Threads -> Values \cup {NONE} \cup BOOLEAN]
  PROVE  ret'[u] = ret[u]
<1>1. ASSUME NEW r, Return(t, r) PROVE ret'[u] = ret[u]
  BY <1>1 DEF Return
<1>2. CASE AwaitResize(t) \/ TestSize(t) \/ PickSlot(t) \/ LockSlot(t) \/ LookHit(t) \/ InsertMiss(t)
  BY <1>2 DEF AwaitResize, TestSize, PickSlot, LockSlot, LookHit, InsertMiss, callVars
<1>3. CASE Exhausted(t)
  <2>1. UNCHANGED callVars \/ Return(t, NONE) \/ Return(t, FALSE)
    BY <1>3 DEF Exhausted
  <2> QED
    BY <1>1, <2>1 DEF callVars
<1>4. CASE GetHit(t)
  BY <1>1, <1>4 DEF GetHit
<1>5. CASE LookMiss(t) \/ Put(t) \/ TryResize(t) \/ LockAll(t) \/ Allocate(t)
  BY <1>5 DEF LookMiss, Put, TryResize, LockAll, Allocate, callVars
<1>6. CASE Count(t)
  BY <1>1, <1>6 DEF Count, callVars
<1>7. CASE Update(t) \/ Delete(t)
  BY <1>1, <1>7 DEF Update, Delete
<1>8. CASE CopySlot(t) \/ SetMutex(t) \/ SetCapacity(t) \/ SetDict(t) \/ UnlockAll(t) \/ EndResize(t)
  BY <1>8 DEF CopySlot, SetMutex, SetCapacity, SetDict, UnlockAll, EndResize, callVars
<1> QED
  BY <1>2, <1>3, <1>4, <1>5, <1>6, <1>7, <1>8 DEF Step

\* What the other threads have still to call, and have been told, stays.
LEMMA OthersPending ==
  ASSUME NEW t \in Threads, Ongoing(t), NEW u \in Threads, u # t
  PROVE  Pending(u)' = Pending(u) /\ Told(u)' = Told(u)
<1>1. /\ TypeOK /\ Step(t) /\ ret \in [Threads -> Values \cup {NONE} \cup BOOLEAN]
  BY DEF Ongoing, IInv, Typed, TypeOK
<1>2. pc'[u] = pc[u] /\ todo'[u] = todo[u] /\ ret'[u] = ret[u]
  BY <1>1, Others, AnswersOne
<1> QED
  BY <1>2 DEF Pending, Told

\* An answer of the table is one of the map, with the same call to follow.
LEMMA AnswerMapped ==
  ASSUME NEW t \in Threads, Ongoing(t), Answering(t), NEW r, Told(t)' = r
  PROVE  Map!Return(t, r)
<1>1. Pending(t)' = Tail(Pending(t)) /\ \A u \in Threads : u # t => Pending(u)' = Pending(u) /\ Told(u)' = Told(u)
  BY Answers, OthersPending
<1>2. [u \in Threads |-> Pending(u)]' = [[u \in Threads |-> Pending(u)] EXCEPT ![t] = Tail(@)]
  BY <1>1
<1>3. [u \in Threads |-> Told(u)]' = [[u \in Threads |-> Told(u)] EXCEPT ![t] = r]
  BY <1>1
<1> QED
  BY <1>2, <1>3 DEF Map!Return, Told

\* A step that is no answer leaves the map's calls and answers.
LEMMA NoAnswerMapped ==
  ASSUME NEW t \in Threads, Ongoing(t), ~ Answering(t)
  PROVE  /\ [u \in Threads |-> Pending(u)]' = [u \in Threads |-> Pending(u)]
         /\ [u \in Threads |-> IF pc[u] = "count" THEN NONE ELSE ret[u]]' =
              [u \in Threads |-> IF pc[u] = "count" THEN NONE ELSE ret[u]]
<1>1. \A u \in Threads : Pending(u)' = Pending(u) /\ Told(u)' = Told(u)
  BY Answers, OthersPending
<1> QED
  BY <1>1 DEF Told

\* Where the map stays as it is, no call under way sees anything new.
LEMMA SeenStill ==
  ASSUME NEW t \in Threads, Ongoing(t), Remember, Table' = Table,
         NEW u \in Threads, u # t \/ (seen[u] # {} /\ ~ Answering(t))
  PROVE  seen'[u] = seen[u]
<1>1. CASE seen[u] = {}
  BY <1>1, SeenNext
<1>2. CASE seen[u] # {}
  <2>1. seen'[u] = seen[u] \cup {Table'[Key(u)]} /\ Table[Key(u)] \in seen[u]
    BY <1>2, SeenNext
  <2> QED
    BY <2>1
<1> QED
  BY <1>1, <1>2

\* The call that the map is asked is the thread's.
LEMMA SameCall ==
  ASSUME NEW t \in Threads, pc[t] # "count"
  PROVE  Map!Call(t) = Call(t)
BY DEF Map!Call, Call, Pending

\* The calls under way see that t's gives its key the value x.
LEMMA SetMapped ==
  ASSUME NEW t \in Threads, Ongoing(t), Remember, Answering(t), NEW x \in Values \cup {NONE},
         Key(t) \in Keys, Table' = [Table EXCEPT ![Key(t)] = x]
  PROVE  Map!Set(t, x)
<1>1. Table \in [Keys -> Values \cup {NONE}]
  BY TableType
<1>2. Map!Call(t).key = Key(t)
  BY Answers, SameCall DEF Key
<1>3. ASSUME NEW u \in Threads
      PROVE  seen'[u] = IF u = t THEN {}
                        ELSE IF seen[u] # {} /\ Map!Call(u).key = Map!Call(t).key THEN seen[u] \cup {x}
                        ELSE seen[u]
  <2>1. CASE u = t
    BY <2>1, SeenNext
  <2>2. CASE u # t /\ seen[u] = {}
    BY <2>2, SeenNext
  <2>3. CASE u # t /\ seen[u] # {}
    <3>1. /\ Key(u) \in Keys /\ Table[Key(u)] \in seen[u] /\ pc[u] # "count"
          /\ seen'[u] = seen[u] \cup {Table'[Key(u)]}
      BY <2>3, SeenNext
    <3>2. Map!Call(u).key = Key(u)
      BY <3>1, SameCall DEF Key
    <3>3. Table'[Key(u)] = IF Key(u) = Key(t) THEN x ELSE Table[Key(u)]
      BY <1>1, <3>1
    <3> QED
      BY <1>2, <2>3, <3>1, <3>2, <3>3
  <2> QED
    BY <2>1, <2>2, <2>3
<1>4. seen' = [u \in Threads |-> seen'[u]]
  BY DEF Remember
<1>5. seen' = [u \in Threads |->
                 IF u = t THEN {}
                 ELSE IF seen[u] # {} /\ Map!Call(u).key = Map!Call(t).key THEN seen[u] \cup {x}
                 ELSE seen[u]]
  BY <1>3, <1>4
<1> QED
  BY <1>2, <1>5 DEF Map!Set

\* A call that answers without a change.
LEMMA StillMapped ==
  ASSUME NEW t \in Threads, Ongoing(t), Remember, Answering(t), Table' = Table,
         NEW r, Told(t)' = r
  PROVE  Map!Answer(t, r)
<1>1. seen'[t] = {} /\ \A u \in Threads : u # t => seen'[u] = seen[u]
  <2>1. seen'[t] = {}
    BY SeenNext
  <2>2. \A u \in Threads : u # t => seen'[u] = seen[u]
    BY SeenStill
  <2> QED
    BY <2>1, <2>2
<1>2. seen' = [u \in Threads |-> seen'[u]] /\ seen = [u \in Threads |-> seen[u]]
  BY Firsts DEF Remember, ScanInv, Ongoing
<1>3. seen' = [seen EXCEPT ![t] = {}]
  BY <1>1, <1>2
<1> QED
  BY <1>3, AnswerMapped DEF Map!Answer

\* What a call that answers without a change has seen.
LEMMA SeenAnswer ==
  ASSUME NEW t \in Threads, Ongoing(t)
  PROVE  /\ Answering(t) => seen[t] # {} /\ Key(t) \in Keys
         /\ GetHit(t) => \E p \in Pair : p.value \in seen[t] /\ ret'[t] = p.value
         /\ Exhausted(t) /\ ~ Calling(t, "Insert") => NONE \in seen[t]
<1> /\ IInv /\ Typed /\ TypeOK /\ ScanInv /\ mutex = 1 /\ dict = 1 /\ Step(t)
    /\ capacity \in Nat /\ capacity >= 1 /\ DOMAIN array[1] = 0..(capacity-1)
    /\ ret \in [Threads -> Values \cup {NONE} \cup BOOLEAN] /\ 1 \in 1..Len(array)
  BY Firsts DEF Ongoing, IInv, Typed, TypeOK
<1> Recalled(t) /\ Passed(t)
  BY DEF ScanInv
<1>1. ASSUME pc[t] \notin {"retry", "count"}
      PROVE  seen[t] # {} /\ todo[t] # <<>> /\ Key(t) \in Keys /\ Table[Key(t)] \in seen[t]
  BY <1>1, CallType DEF Recalled
<1>2. Answering(t) => seen[t] # {} /\ Key(t) \in Keys
  BY <1>1, Answers
<1>3. ASSUME GetHit(t)
      PROVE  \E p \in Pair : p.value \in seen[t] /\ ret'[t] = p.value
  <2>1. pc[t] = "look" /\ \E p \in Read(t) : Holds(p, Key(t)) /\ ret'[t] = p.value
    BY <1>3 DEF GetHit, Return
  <2>2. Read(t) = {array[1][slot[t]]} /\ slot[t] \in 0..(capacity-1)
    BY <2>1, AtASlot DEF Searching
  <2>3. PICK p : p = array[1][slot[t]] /\ Holds(p, Key(t)) /\ ret'[t] = p.value
    BY <2>1, <2>2
  <2>4. p \in Pair
    BY <2>2, <2>3, InSlot DEF Holds
  <2>5. Table[Key(t)] = p.value
    BY <1>1, <2>1, <2>2, <2>3, TableNow
  <2> QED
    BY <1>1, <2>1, <2>3, <2>4, <2>5
<1>4. ASSUME Exhausted(t), ~ Calling(t, "Insert") PROVE NONE \in seen[t]
  <2>1. pc[t] = "pick" /\ i[t] >= capacity /\ i[t] \in Nat
    BY <1>4 DEF Exhausted, TypeOK
  <2>2. SUFFICES ASSUME NONE \notin seen[t] PROVE FALSE
    OBVIOUS
  <2>3. ASSUME NEW x \in 0..(capacity-1) PROVE ~ Holds(array[1][x], Key(t))
    <3>1. Hash[Key(t)] \in Nat
      BY <1>1, <2>1, CallType
    <3>2. PICK j \in 0..(capacity-1) : (Hash[Key(t)] + j) % capacity = x
      BY <3>1, Reached
    <3>3. j \in 0..(i[t]-1)
      BY <2>1
    <3>4. ~ At(1, x, Key(t))
      BY <1>4, <2>1, <2>2, <3>2, <3>3 DEF Passed
    <3> QED
      BY <3>4 DEF At
  <2>4. Table[Key(t)] = NONE
    BY <1>1, <2>1, <2>3, TableNow
  <2> QED
    BY <1>1, <2>1, <2>2, <2>4
<1> QED
  BY <1>2, <1>3, <1>4

\* Each step of the table is one of the map, or none.
LEMMA StepMapped ==
  ASSUME NEW t \in Threads, Ongoing(t), Remember
  PROVE  [Map!Next]_(Map!vars)
<1> /\ Step(t) /\ IInv /\ Typed /\ TypeOK /\ ScanInv /\ mutex = 1
    /\ ret \in [Threads -> Values \cup {NONE} \cup BOOLEAN]
  BY Firsts DEF Ongoing, IInv, Typed, TypeOK
<1> Recalled(t) /\ seen' = [u \in Threads |-> seen'[u]] /\ seen = [u \in Threads |-> seen[u]]
  BY DEF ScanInv, Remember
<1>1. ASSUME Answering(t)
      PROVE  /\ seen[t] # {} /\ Key(t) \in Keys /\ Map!Call(t) = Call(t) /\ todo[t] # <<>>
             /\ Call(t) \in Calls
             /\ \A name : Map!Under(t, name) <=> Calling(t, name)
             /\ Calling(t, "Insert") \/ Calling(t, "Update") => Call(t).value \in Values
  <2>1. pc[t] # "count" /\ todo[t] # <<>>
    BY <1>1, Answers
  <2>2. seen[t] # {} /\ Key(t) \in Keys /\ Map!Call(t) = Call(t)
    BY <1>1, <2>1, SeenAnswer, SameCall
  <2> QED
    BY <2>1, <2>2, CallType DEF Map!Under, Calling
<1>2. CASE Put(t)
  <2>1. Answering(t) /\ Calling(t, "Insert") /\ Told(t)' = NONE
    <3>1. pc'[t] = "count"
      BY <1>2 DEF Put, Goto, TypeOK
    <3> QED
      BY <1>2, <3>1 DEF Put, Answering, Told
  <2>2. Table' = [Table EXCEPT ![Key(t)] = Call(t).value]
    BY <1>2, TableStep
  <2>3. Map!Set(t, Call(t).value) /\ Map!Return(t, NONE)
    BY <1>1, <2>1, <2>2, SetMapped, AnswerMapped
  <2>4. Map!Insert(t)
    BY <1>1, <2>1, <2>3 DEF Map!Insert
  <2> QED
    BY <2>4 DEF Map!Next
<1>3. CASE Update(t)
  <2>1. Answering(t) /\ Calling(t, "Update") /\ Told(t)' = TRUE
    <3>1. pc'[t] = "retry" /\ ret'[t] = TRUE
      BY <1>3 DEF Update, Return, Goto, TypeOK
    <3> QED
      BY <1>3, <3>1 DEF Update, Answering, Told
  <2>2. Table' = [Table EXCEPT ![Key(t)] = Call(t).value] /\ Table[Key(t)] # NONE
    BY <1>3, TableStep
  <2>3. Map!Set(t, Call(t).value) /\ Map!Return(t, TRUE)
    BY <1>1, <2>1, <2>2, SetMapped, AnswerMapped
  <2>4. Map!Update(t)
    BY <1>1, <2>1, <2>2, <2>3 DEF Map!Update, Key
  <2> QED
    BY <2>4 DEF Map!Next
<1>4. CASE Delete(t)
  <2>1. Answering(t) /\ Calling(t, "Delete") /\ Told(t)' = TRUE
    <3>1. pc'[t] = "retry" /\ ret'[t] = TRUE
      BY <1>4 DEF Delete, Return, Goto, TypeOK
    <3> QED
      BY <1>4, <3>1 DEF Delete, Answering, Told
  <2>2. Table' = [Table EXCEPT ![Key(t)] = NONE] /\ Table[Key(t)] # NONE
    BY <1>4, TableStep
  <2>3. Map!Set(t, NONE) /\ Map!Return(t, TRUE)
    BY <1>1, <2>1, <2>2, SetMapped, AnswerMapped
  <2>4. Map!Delete(t)
    BY <1>1, <2>1, <2>2, <2>3 DEF Map!Delete, Key
  <2> QED
    BY <2>4 DEF Map!Next
<1>5. CASE GetHit(t)
  <2>1. Answering(t) /\ Calling(t, "Get") /\ pc'[t] = "retry"
        /\ ~ Put(t) /\ ~ Update(t) /\ ~ Delete(t)
    BY <1>5 DEF GetHit, Return, Goto, TypeOK, Answering, Put, Update, Delete
  <2>2. PICK p \in Pair : p.value \in seen[t] /\ ret'[t] = p.value
    BY <1>5, SeenAnswer
  <2>3. Told(t)' = p.value /\ Table' = Table
    BY <2>1, <2>2, TableStep DEF Told
  <2>4. Map!Answer(t, p.value)
    BY <2>1, <2>3, StillMapped
  <2>5. Map!Get(t)
    BY <1>1, <2>1, <2>2, <2>4 DEF Map!Get
  <2> QED
    BY <2>5 DEF Map!Next
<1>6. CASE Exhausted(t) /\ ~ Calling(t, "Insert")
  <2>1. Answering(t) /\ pc'[t] = "retry" /\ ~ Put(t) /\ ~ Update(t) /\ ~ Delete(t)
    BY <1>6 DEF Exhausted, Return, Goto, TypeOK, Answering, Put, Update, Delete
  <2>2. NONE \in seen[t] /\ Table' = Table
    BY <1>6, <2>1, SeenAnswer, TableStep
  <2>3. CASE Calling(t, "Get")
    <3>1. ret'[t] = NONE
      BY <1>6, <2>3 DEF Exhausted, Return
    <3>2. Map!Answer(t, NONE)
      BY <2>1, <2>2, <3>1, StillMapped DEF Told
    <3>3. Map!Get(t)
      BY <1>1, <2>1, <2>2, <2>3, <3>2 DEF Map!Get
    <3> QED
      BY <3>3 DEF Map!Next
  <2>4. CASE ~ Calling(t, "Get")
    <3>1. ret'[t] = FALSE
      BY <1>6, <2>4 DEF Exhausted, Return
    <3>2. Map!Answer(t, FALSE)
      BY <2>1, <2>2, <3>1, StillMapped DEF Told
    <3>3. Calling(t, "Update") \/ Calling(t, "Delete")
      BY <1>1, <1>6, <2>1, <2>4 DEF Calls, Calling
    <3>4. Map!Update(t) \/ Map!Delete(t)
      BY <1>1, <2>1, <2>2, <3>2, <3>3 DEF Map!Update, Map!Delete
    <3> QED
      BY <3>4 DEF Map!Next
  <2> QED
    BY <2>3, <2>4
<1>7. CASE ~ Answering(t)
  <2>1. Table' = Table
    BY <1>7, TableStep DEF Answering
  <2>2. CASE seen[t] # {} \/ seen'[t] = {}
    <3>1. \A u \in Threads : seen'[u] = seen[u]
      BY <1>7, <2>1, <2>2, SeenStill
    <3>2. seen' = seen
      BY <3>1
    <3> QED
      BY <1>7, <2>1, <3>2, NoAnswerMapped DEF Map!vars
  <2>3. CASE seen[t] = {} /\ seen'[t] # {}
    <3>1. todo[t] # <<>> /\ pc[t] # "count" /\ seen'[t] = {Table[Key(t)]}
      BY <2>1, <2>3, SeenNext DEF AwaitResize
    <3>2. \A u \in Threads : u # t => seen'[u] = seen[u]
      BY <2>1, SeenStill
    <3>3. seen' = [seen EXCEPT ![t] = {Table[Key(t)]}]
      BY <3>1, <3>2
    <3>4. Map!Call(t) = Call(t) /\ Pending(t) = todo[t]
      BY <3>1, SameCall DEF Pending
    <3>5. Map!Begin(t)
      BY <1>7, <2>1, <2>3, <3>1, <3>3, <3>4, NoAnswerMapped DEF Map!Begin, Key
    <3> QED
      BY <3>5 DEF Map!Next
  <2> QED
    BY <2>2, <2>3
<1> QED
  BY <1>2, <1>3, <1>4, <1>5, <1>6, <1>7 DEF Answering

\* An empty table is an empty map, and nobody has called yet.
LEMMA InitMapped == SInit => Map!Init
<1> SUFFICES ASSUME SInit PROVE Map!Init
  OBVIOUS
<1> Init
  BY DEF SInit
<1>1. ASSUME NEW k \in Keys PROVE Table[k] = NONE
  <2>1. dict = 1 /\ array[1] = Empty(InitCapacity)
    BY DEF Init
  <2>2. \A x \in DOMAIN array[dict] : ~ Holds(array[dict][x], k)
    BY <2>1 DEF Holds, Empty
  <2> QED
    BY <2>2 DEF Table
<1>2. Table = [k \in Keys |-> NONE]
  BY <1>1 DEF Table
<1>3. todo \in [Threads -> Seq(Calls)] /\ \A t \in Threads : Pending(t) = todo[t] /\ pc[t] = "retry"
  BY WorkloadAssumption DEF Init, Pending
<1>4. [t \in Threads |-> Pending(t)] = todo
  BY <1>3
<1> QED
  BY <1>2, <1>3, <1>4 DEF Init, SInit, Map!Init

\* Stuttering included.
LEMMA Simulated ==
  ASSUME IInv, KeysInv, ScanInv, mutex' = 1, [SNext]_<<vars, seen>>
  PROVE  [Map!Next]_(Map!vars)
<1>1. CASE UNCHANGED <<vars, seen>>
  <2>1. Table' = Table
    BY <1>1 DEF vars, fieldVars, Table
  <2>2. todo' = todo /\ ret' = ret /\ pc' = pc /\ seen' = seen
    BY <1>1 DEF vars, callVars
  <2>3. \A t \in Threads : Pending(t)' = Pending(t)
    BY <2>2 DEF Pending
  <2> QED
    BY <2>1, <2>2, <2>3 DEF Map!vars
<1>2. CASE Remember /\ \E t \in Threads : Ongoing(t)
  BY <1>2, StepMapped
<1> QED
  BY <1>1, <1>2, SStep

\* The history is only added.
LEMMA Remembered == SSpec => Spec
<1>1. SInit => Init
  BY DEF SInit
<1>2. [SNext]_<<vars, seen>> => [Next]_vars
  BY DEF SNext
<1> QED
  BY <1>1, <1>2, PTL DEF SSpec, Spec

-----------------------------------------------------------------------------
(* A table with room for all keys.                                         *)

\* The table has room for all keys, by the test of line 88.
Roomy == IsFiniteSet(Keys) /\ 100 * Cardinality(Keys) < InitCapacity * kResizingThreshold

\* No thread resizes.
Unresized == /\ mutex = 1 /\ capacity = InitCapacity
             /\ \A t \in Threads : pc[t] # "cas" /\ pc[t] \notin Resizing

\* The size, which counts the keys that have been inserted, stays below the threshold.
LEMMA UnresizedStep ==
  ASSUME Roomy, IInv, KeysInv, Unresized, [Next]_vars
  PROVE  Unresized'
<1>1. CASE UNCHANGED vars
  BY <1>1 DEF vars, fieldVars, Unresized
<1>2. ASSUME NEW t \in Threads, Step(t) PROVE Unresized'
  <2> /\ TypeOK /\ Typed /\ pc[t] # "cas" /\ pc[t] \notin Resizing /\ size \in Nat
    BY DEF IInv, Typed, TypeOK, Unresized
  <2>1. 100 * size < capacity * kResizingThreshold
    <3>1. PICK K \in SUBSET Keys : Entered(K)
      BY DEF KeysInv
    <3>2. Cardinality(K) <= Cardinality(Keys) /\ Cardinality(Keys) \in Nat
      BY FS_Subset, FS_CardinalityType DEF Roomy
    <3>3. Cardinality(Counting) \in Nat /\ Cardinality(K) \in Nat
          /\ Cardinality(K) = size + Cardinality(Counting)
      BY <3>1, FS_CardinalityType DEF Entered
    <3>4. size <= Cardinality(Keys)
      BY <3>2, <3>3
    <3>5. capacity = InitCapacity /\ InitCapacity * kResizingThreshold \in Nat
      BY Bounds DEF Unresized
    <3> QED
      BY <3>2, <3>4, <3>5 DEF Roomy
  <2>2. /\ ~ SetMutex(t) /\ ~ SetCapacity(t) /\ ~ TryResize(t) /\ ~ LockAll(t) /\ ~ Allocate(t)
        /\ ~ CopySlot(t) /\ ~ SetDict(t) /\ ~ UnlockAll(t) /\ ~ EndResize(t)
    BY DEF SetMutex, SetCapacity, TryResize, LockAll, Allocate, CopySlot, SetDict, UnlockAll,
           EndResize, Resizing
  <2>3. pc'[t] # "cas" /\ pc'[t] \notin Resizing
    <3> pc \in [Threads -> Steps]
      BY DEF TypeOK, Steps
    <3> USE DEF Goto, Return, Resizing, callVars
    <3>1. CASE AwaitResize(t) \/ PickSlot(t) \/ LockSlot(t) \/ LookHit(t) \/ GetHit(t)
      BY <3>1 DEF AwaitResize, PickSlot, LockSlot, LookHit, GetHit
    <3>2. CASE TestSize(t)
      BY <2>1, <3>2 DEF TestSize
    <3>3. CASE Exhausted(t)
      <4>1. pc'[t] = "retry"
        BY <3>3 DEF Exhausted
      <4> QED
        BY <4>1
    <3>4. CASE InsertMiss(t) \/ LookMiss(t) \/ Put(t)
      BY <3>4 DEF InsertMiss, LookMiss, Put
    <3>5. CASE Count(t) \/ Update(t) \/ Delete(t)
      BY <3>5 DEF Count, Update, Delete
    <3> QED
      BY <1>2, <2>2, <3>1, <3>2, <3>3, <3>4, <3>5 DEF Step
  <2>4. \A u \in Threads : u # t => pc'[u] = pc[u]
    BY <1>2, Others
  <2>5. mutex' = mutex /\ capacity' = capacity
    BY <1>2, <2>2, Frames
  <2> QED
    BY <2>3, <2>4, <2>5 DEF Unresized
<1> QED
  BY <1>1, <1>2 DEF Next, Terminated

-----------------------------------------------------------------------------
(* The theorems.                                                           *)

\* Every variable keeps its type, through any number of resizes: no mutex and no
\* array is used that does not exist, though slots beyond the end may be.
THEOREM TypesAreKept == Spec => []TypeOK
<1>1. IInv => TypeOK
  BY DEF IInv, Typed
<1>2. QED
  BY <1>1, Inductive, PTL

\* Two threads are never in the same slot, unless to read, and nobody is in any
\* while they are copied (lines 91-119, 256-279), as long as the first mutexes stay.
THEOREM MutexesGuardSlots == Spec => []GuardedUntilResized
BY Guarded, Inductive, PTL

\* No key is ever in two slots (lines 91-119, 256-279), so that Utilization() counts
\* the keys that Get finds, before, while and after the table is resized.
THEOREM NoPairIsCountedTwice == Spec => []CountedOnce
<1>1. IInv /\ KeysInv => CountedOnce
  <2> SUFFICES ASSUME IInv, KeysInv PROVE CountedOnce
    OBVIOUS
  <2> DEFINE found == {array[dict][x].key : x \in Occupied}
  <2>1. {k \in Keys : Table[k] # NONE} = found
    BY OneSlotPerKey, WorkloadAssumption
  <2>2. QED
    BY <2>1, OneSlotPerKey DEF CountedOnce
<1>2. QED
  BY <1>1, Inductive, KeysInductive, PTL

\* The size by which Insert decides to resize (line 88) is never behind the pairs in the
\* table by more than the insertions that are just about to count theirs.
THEOREM SizeIsNotBehind == Spec => []SizeBoundsPairs
<1>1. IInv /\ KeysInv => SizeBoundsPairs
  <2> SUFFICES ASSUME IInv, KeysInv PROVE SizeBoundsPairs
    OBVIOUS
  <2> DEFINE found == {array[dict][x].key : x \in Occupied}
  <2>1. PICK K \in SUBSET Keys : Entered(K)
    BY DEF KeysInv
  <2>2. found \in SUBSET K
    BY <2>1 DEF Entered, Occupied, IInv, Typed, TypeOK
  <2>3. Cardinality(found) <= Cardinality(K) /\ Cardinality(found) = Cardinality(Occupied)
    BY <2>1, <2>2, FS_Subset, OneSlotPerKey DEF Entered
  <2>4. Cardinality(K) = size + Cardinality({t \in Threads : pc[t] = "count"})
    BY <2>1 DEF Entered, Counting
  <2>5. QED
    BY <2>3, <2>4 DEF SizeBoundsPairs
<1>2. QED
  BY <1>1, Inductive, KeysInductive, PTL

\* Insert, Update, Delete and Get (lines 75-227) until resize() puts other mutexes in the
\* place of the first (line 280): whatever threads do at a time, each step of the
\* table is one of the map, or changes nothing in it.
THEOREM FirstMutexesSteps ==
  SSpec => Map!Init /\ [][mutex' = 1 => Map!Next]_(Map!vars)
<1>1. IInv /\ KeysInv /\ ScanInv /\ [SNext]_<<vars, seen>> => ScanInv'
  BY NextScanInv
<1>2. IInv /\ KeysInv /\ ScanInv /\ [SNext]_<<vars, seen>> => [mutex' = 1 => Map!Next]_(Map!vars)
  BY Simulated
<1>3. SSpec => []ScanInv
  BY <1>1, InitScanInv, Remembered, Inductive, KeysInductive, PTL DEF SSpec
<1> QED
  BY <1>2, <1>3, InitMapped, Remembered, Inductive, KeysInductive, PTL DEF SSpec

\* So a table whose mutexes are never replaced is the map: insertions, updates and
\* deletions take effect at one moment, and every answer was right during its call.
THEOREM FirstMutexesMakeAMap == SSpec /\ [](mutex = 1) => ImplementsScans
<1>1. [mutex' = 1 => Map!Next]_(Map!vars) /\ mutex' = 1 => [Map!Next]_(Map!vars)
  OBVIOUS
<1>2. (mutex = 1)' <=> mutex' = 1
  OBVIOUS
<1> QED
  BY <1>1, <1>2, FirstMutexesSteps, PTL DEF ImplementsScans, Map!Spec

\* A table that was made with room for all keys is never resized (line 88).
THEOREM RoomyIsNotResized == ASSUME Roomy PROVE Spec => [](mutex = 1 /\ capacity = InitCapacity)
<1>1. Init => Unresized
  BY DEF Init, Unresized, Resizing
<1>2. IInv /\ KeysInv /\ Unresized /\ [Next]_vars => Unresized'
  BY UnresizedStep
<1>3. Unresized => mutex = 1 /\ capacity = InitCapacity
  BY DEF Unresized
<1> QED
  BY <1>1, <1>2, <1>3, Inductive, KeysInductive, PTL DEF Spec

\* Such a table is the map, without anything else being asked of a behaviour.
THEOREM RoomyTableIsAMap == ASSUME Roomy PROVE SSpec => ImplementsScans
<1>1. SSpec => [](mutex = 1)
  BY Remembered, RoomyIsNotResized, PTL
<1> QED
  BY <1>1, FirstMutexesMakeAMap, PTL
=============================================================================
