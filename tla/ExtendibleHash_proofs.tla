----------------------- MODULE ExtendibleHash_proofs -----------------------
(***************************************************************************)
(* For any number of threads, keys, hash bits and slots, with INPLACE or    *)
(* without, and for any workload: the safety properties of ExtendibleHash   *)
(* that are about the directory.                                           *)
(*                                                                         *)
(* None of them is inductive.  `sema` counts the threads that store to the  *)
(* current directory only if nobody else suspends it meanwhile, which needs *)
(* `sema` to be negative while one thread does (Counted).  The cells a      *)
(* redirection stores to are in bounds only if the segment is less deep     *)
(* than the directory (Depths), which needs the segment to be locked while  *)
(* its depth is read (Locked), and everything needs a directory to be full  *)
(* as far as it reaches (Allocated).                                       *)
(*                                                                         *)
(* Then, that the table is a map whose calls are atomic (ImplementsMap),    *)
(* keys are only ever led deeper (RoutesOnlyDeepen), what a thread has      *)
(* locked and checked stays its key's segment (LockedTargetIsCurrent), and  *)
(* no segment that can be reached stays locked (ReachableIsUnlockedLater).  *)
(*                                                                         *)
(* None of this holds of every behaviour: a thread may split the new half   *)
(* of a split whose cells are still being stored, and the two then store to *)
(* the same cells.  It is shown for the behaviours in which that does not   *)
(* happen (SplitsApart), whatever the threads, keys, calls, hash function   *)
(* and sizes; and of every behaviour with one thread that inserts.          *)
(*                                                                         *)
(* The invariant MInv speaks of where each key will be led once the stores  *)
(* under way are done (Heads): these destinations partition the keys by     *)
(* prefix (Blocks), the segment a key is led to now holds the same pairs of *)
(* it as its destination (Copies), and what a split has allocated nobody    *)
(* else knows (Unborn).                                                     *)
(*                                                                         *)
(* Last, that Capacity() and Utilization() count everything once            *)
(* (WalkCountsOnce).  They walk over cells, also over those no key leads    *)
(* to, of which MInv says nothing: CInv says that the cells of the          *)
(* directory, too, are partitioned into aligned blocks, one for each        *)
(* segment they lead to (CellBlocks).                                       *)
(***************************************************************************)
EXTENDS ExtendibleHash, FiniteSetTheorems, WellFoundedInduction, SequenceTheorems,
        TLAPS

-----------------------------------------------------------------------------
(* Division.                                                               *)

\* What division and remainder are.
LEMMA Euclid ==
  ASSUME NEW x \in Nat, NEW p \in Nat, p >= 1
  PROVE  x \div p \in Nat /\ x % p \in 0..(p-1) /\ x = (p * (x \div p)) + (x % p)
<1>1. x \div p \in Nat
  <2>1. x \div p \in Int /\ x \div p >= 0
    OBVIOUS
  <2>2. QED
    BY <2>1
<1>2. x % p \in 0..(p-1)
  OBVIOUS
<1>3. x = (p * (x \div p)) + (x % p)
  OBVIOUS
<1>4. QED
  BY <1>1, <1>2, <1>3

\* They are the only such numbers.
LEMMA Quotient ==
  ASSUME NEW p \in Nat, p >= 1, NEW b \in Nat, NEW r \in 0..(p-1)
  PROVE  ((p * b) + r) \div p = b
<1> DEFINE x == (p * b) + r
           a == x \div p
<1>1. p * b \in Nat /\ x \in Nat
  OBVIOUS
<1>2. a \in Nat /\ x % p \in 0..(p-1) /\ x = (p * a) + (x % p)
  <2> HIDE DEF x
  <2>1. QED
    BY <1>1, Euclid
<1>3. \A m, n \in Nat : m >= n + 1 => p * m >= (p * n) + p
  OBVIOUS
<1>4. ~ (a >= b + 1)
  <2>1. p * a \in Nat
    BY <1>2
  <2> HIDE DEF a
  <2>2. QED
    BY <1>1, <1>2, <1>3, <2>1
<1>5. ~ (b >= a + 1)
  <2>1. p * a \in Nat
    BY <1>2
  <2> HIDE DEF a
  <2>2. QED
    BY <1>1, <1>2, <1>3, <2>1
<1>6. QED
  BY <1>2, <1>4, <1>5


-----------------------------------------------------------------------------
(* The arithmetic: powers of two, hash prefixes, and the cells of a         *)
(* directory a split redirects.  Pow2 is known by its first value and its   *)
(* step only.  What would be an induction over exponents is here an         *)
(* argument about a smallest counterexample.                                *)

\* Dividing by p and then by two is dividing by 2p.
LEMMA HalfOfQuotient ==
  ASSUME NEW x \in Nat, NEW p \in Nat, p >= 1
  PROVE  (x \div p) \div 2 = x \div (2 * p)
<1>1. PICK a \in Nat, r \in 0..(p-1) : a = x \div p /\ x = (p * a) + r
  BY Euclid
<1>2. PICK b \in Nat, c \in 0..1 : b = a \div 2 /\ a = (2 * b) + c
  BY Euclid
<1>3. (p * c) + r \in 0..((2 * p) - 1)
  BY <1>1, <1>2
<1>4. x = ((2 * p) * b) + ((p * c) + r)
  <2>1. p * a = (p * (2 * b)) + (p * c)
    BY <1>2
  <2>2. p * (2 * b) = (2 * p) * b
    OBVIOUS
  <2>3. p * (2 * b) \in Nat /\ p * c \in Nat
    BY <1>2
  <2>4. QED
    BY <1>1, <2>1, <2>2, <2>3
<1>5. 2 * p \in Nat /\ 2 * p >= 1
  OBVIOUS
<1>6. x \div (2 * p) = b
  BY <1>3, <1>4, <1>5, Quotient
<1>7. QED
  BY <1>1, <1>2, <1>6

\* A number below a product, divided by one factor, is below the other.
LEMMA DivBound ==
  ASSUME NEW x \in Nat, NEW p \in Nat, NEW q \in Nat, p >= 1, x < q * p
  PROVE  x \div p \in Nat /\ x \div p < q
<1>1. x \div p < q
  OBVIOUS
<1>2. QED
  BY <1>1, Euclid

\* Rounding down to a multiple of st stays st below any multiple above.
LEMMA Aligned ==
  ASSUME NEW x \in Nat, NEW st \in Nat, NEW q \in Nat, st >= 1, x < q * st
  PROVE  x - (x % st) \in Nat /\ x - (x % st) + st <= q * st
<1>1. x \div st \in Nat /\ x \div st < q
  BY DivBound
<1>2. x - (x % st) = st * (x \div st)
  BY Euclid
<1>3. \A a \in Nat : a < q => st * a + st <= q * st
  OBVIOUS
<1>4. st * (x \div st) \in Nat
  BY <1>1, <1>2, Euclid
<1>5. QED
  BY <1>1, <1>2, <1>3, <1>4

-----------------------------------------------------------------------------
(* Powers of two.                                                          *)

USE Pow2Assumption

\* Each power of two is twice the one before.
LEMMA NextPower == ASSUME NEW n \in 0..HashBits, n # 0
                   PROVE n-1 \in 0..HashBits /\ Pow2[n] = 2 * Pow2[n-1]
<1>1. n-1 \in 0..(HashBits-1)
  OBVIOUS
<1>2. QED
  BY <1>1

\* A set of numbers with an upper bound has a smallest member: of the intervals
\* 0..x with x in it, one has none of the others inside.
LEMMA Smallest ==
  ASSUME NEW n \in Nat, NEW T \in SUBSET (0..n), T # {}
  PROVE  \E x \in T : \A y \in T : x <= y
<1> DEFINE S == 0..n
           F == {0..x : x \in T}
<1>1. F \subseteq FiniteSubsetsOf(S) /\ F # {}
  <2>1. IsFiniteSet(S)
    BY FS_Interval
  <2>2. \A x \in T : (0..x) \subseteq S
    OBVIOUS
  <2>3. \A x \in T : IsFiniteSet(0..x)
    BY FS_Interval
  <2>4. \A x \in T : 0..x \in FiniteSubsetsOf(S)
    <3> HIDE DEF S
    <3>1. QED
      BY <2>2, <2>3 DEF FiniteSubsetsOf
  <2>5. QED
    BY <2>4
<1>2. PICK m \in F : \A l \in F : ~ (<<l, m>> \in StrictSubsetOrdering(S))
  <2> HIDE DEF F, S
  <2>1. QED
    BY <1>1, FS_StrictSubsetOrderingWellFounded, WFMin
<1>3. PICK x \in T : m = 0..x
  OBVIOUS
<1>4. ASSUME NEW y \in T, ~ (x <= y) PROVE FALSE
  <2>1. (0..y) \subseteq (0..x) /\ (0..y) # (0..x)
    BY <1>4
  <2>2. (0..y) \in F
    OBVIOUS
  <2>3. <<0..y, 0..x>> \in StrictSubsetOrdering(S)
    BY <2>1, <1>1, <1>3, <2>2 DEF StrictSubsetOrdering, FiniteSubsetsOf
  <2>4. QED
    BY <1>2, <1>3, <2>2, <2>3
<1>5. QED
  BY <1>4

\* Powers of two are positive: a smallest exponent at which they are not is not 0,
\* and the power before it is not positive either.
LEMMA Pow2Positive == \A n \in 0..HashBits : Pow2[n] \in Nat /\ Pow2[n] >= 1
<1> DEFINE T == {n \in 0..HashBits : Pow2[n] < 1}
<1>1. ASSUME T # {} PROVE FALSE
  <2>1. PICK n \in T : \A y \in T : n <= y
    <3>1. HashBits \in Nat /\ T \in SUBSET (0..HashBits)
      OBVIOUS
    <3> HIDE DEF T
    <3>2. QED
      BY <1>1, <3>1, Smallest
  <2>2. n # 0
    OBVIOUS
  <2>3. n-1 \in 0..HashBits /\ Pow2[n] = 2 * Pow2[n-1]
    BY <2>2, NextPower
  <2>4. n-1 \notin T
    BY <2>1, <2>2
  <2>5. QED
    BY <2>3, <2>4
<1>2. ASSUME NEW n \in 0..HashBits PROVE Pow2[n] \in Nat /\ Pow2[n] >= 1
  <2>1. Pow2[n] \in Nat /\ n \notin T
    BY <1>1
  <2>2. QED
    BY <2>1
<1>3. QED
  BY <1>2

\* Exponents add up, by the same argument.
LEMMA Pow2Product ==
  ASSUME NEW a \in 0..HashBits, NEW b \in 0..HashBits, a + b <= HashBits
  PROVE  Pow2[a + b] = Pow2[a] * Pow2[b]
<1> DEFINE T == {n \in 0..(HashBits - a) : Pow2[a + n] # Pow2[a] * Pow2[n]}
<1>1. ASSUME T # {} PROVE FALSE
  <2>1. PICK n \in T : \A y \in T : n <= y
    <3>1. HashBits - a \in Nat /\ T \in SUBSET (0..(HashBits-a))
      OBVIOUS
    <3> HIDE DEF T
    <3>2. QED
      BY <1>1, <3>1, Smallest
  <2>2. n # 0
    OBVIOUS
  <2>3. /\ n-1 \in 0..HashBits /\ Pow2[n] = 2 * Pow2[n-1]
        /\ a+n-1 \in 0..HashBits /\ Pow2[a+n] = 2 * Pow2[a+n-1]
    BY <2>2, NextPower
  <2>4. Pow2[a+n-1] = Pow2[a] * Pow2[n-1]
    BY <2>1, <2>2, <2>3
  <2>5. \A x, y \in Nat : 2 * (x * y) = x * (2 * y)
    OBVIOUS
  <2>6. Pow2[a] \in Nat /\ Pow2[n-1] \in Nat
    BY <2>3
  <2>7. QED
    BY <2>3, <2>4, <2>5, <2>6
<1>2. b \notin T
  BY <1>1
<1>3. QED
  BY <1>2

\* A directory is no longer than the number of hash values.
LEMMA Pow2Monotonic ==
  ASSUME NEW d \in 0..HashBits
  PROVE  Pow2[d] \in Nat /\ Pow2[HashBits] \in Nat /\ Pow2[d] <= Pow2[HashBits]
<1>1. HashBits - d \in 0..HashBits /\ d + (HashBits - d) = HashBits
  OBVIOUS
<1>2. Pow2[HashBits] = Pow2[d] * Pow2[HashBits - d]
  BY <1>1, Pow2Product
<1>3. \A a, b \in Nat : b >= 1 => a <= a * b
  OBVIOUS
<1>4. QED
  BY <1>1, <1>2, <1>3, Pow2Positive

-----------------------------------------------------------------------------
(* Prefixes of a hash value, and cells of a directory.                     *)

\* The first d bits of a hash value are a number below 2^d.
LEMMA PrefixBound ==
  ASSUME NEW k \in Keys, NEW d \in 0..HashBits
  PROVE  Prefix(k, d) \in Nat /\ Prefix(k, d) < Pow2[d]
<1>1. Pow2[d + (HashBits - d)] = Pow2[d] * Pow2[HashBits - d]
  BY Pow2Product
<1>2. d + (HashBits - d) = HashBits /\ HashBits - d \in 0..HashBits
  OBVIOUS
<1>3. Hash[k] \in Nat /\ Hash[k] < Pow2[HashBits] /\ Pow2[HashBits] \in Nat
  BY ConstantAssumption
<1>4. Pow2[HashBits - d] \in Nat /\ Pow2[HashBits - d] >= 1 /\ Pow2[d] \in Nat
  BY <1>2, Pow2Positive
<1>5. QED
  BY <1>1, <1>2, <1>3, <1>4, DivBound DEF Prefix

\* A longer prefix without its last bit is the shorter one.
LEMMA PrefixHalf ==
  ASSUME NEW k \in Keys, NEW d \in 0..HashBits, d + 1 <= HashBits
  PROVE  Prefix(k, d + 1) \div 2 = Prefix(k, d)
<1> DEFINE n == HashBits - d
<1>1. n \in 0..HashBits /\ n # 0 /\ n - 1 = HashBits - (d + 1)
  OBVIOUS
<1>2. n - 1 \in 0..HashBits /\ Pow2[n] = 2 * Pow2[n - 1]
  BY <1>1, NextPower
<1>3. Pow2[n - 1] \in Nat /\ Pow2[n - 1] >= 1
  BY <1>2, Pow2Positive
<1>4. Hash[k] \in Nat
  BY ConstantAssumption
<1>5. (Hash[k] \div Pow2[n - 1]) \div 2 = Hash[k] \div (2 * Pow2[n - 1])
  BY <1>3, <1>4, HalfOfQuotient
<1>6. QED
  BY <1>1, <1>2, <1>5 DEF Prefix

\* The cells a redirection stores to lie in the array of the directory.
LEMMA CellsBound ==
  ASSUME NEW k \in Keys, NEW D \in 0..HashBits, NEW l \in 0..HashBits, l < D,
         NEW i \in Nat, i < Pow2[D - l]
  PROVE  LET x == Prefix(k, D)
             loc == x - (x % Pow2[D - l])
         IN  loc + i \in Index /\ loc + i < Pow2[D]
<1>1. PICK x \in Nat : x = Prefix(k, D) /\ x < Pow2[D]
  BY PrefixBound
<1>2. D - l \in 0..HashBits /\ l + (D - l) = D
  OBVIOUS
<1>3. PICK st \in Nat : st = Pow2[D - l] /\ st >= 1
  BY <1>2, Pow2Positive
<1>4. PICK q \in Nat : q = Pow2[l] /\ Pow2[D] = q * st
  <2>1. Pow2[l + (D - l)] = Pow2[l] * Pow2[D - l]
    BY <1>2, Pow2Product
  <2>2. QED
    BY <1>2, <1>3, <2>1, Pow2Positive
<1>5. PICK loc \in Nat : loc = x - (x % st) /\ loc + st <= Pow2[D]
  <2>1. x - (x % st) \in Nat /\ x - (x % st) + st <= q * st
    BY <1>1, <1>3, <1>4, Aligned
  <2>2. QED
    BY <1>4, <2>1
<1>6. Pow2[D] \in Nat /\ Pow2[HashBits] \in Nat /\ Pow2[D] <= Pow2[HashBits]
  BY Pow2Monotonic
<1>7. loc + i \in Nat /\ loc + i < Pow2[D]
  <2>1. i < st
    BY <1>3
  <2>2. QED
    BY <1>5, <1>6, <2>1
<1>8. loc + i \in Index
  BY <1>6, <1>7 DEF Index
<1>9. QED
  BY <1>1, <1>3, <1>5, <1>7, <1>8

HIDE Pow2Assumption

-----------------------------------------------------------------------------
(* The inductive invariant.                                                *)

\* The threads that have suspended a directory and not yet published its successor.
Doublers == {t \in Threads : pc[t] \in {"drain", "double", "publish"}}
\* The threads that have locked a directory by lock().
Storers == {t \in Threads : pc[t] = "store"}

\* Only directories and segments that exist are used: a directory is filled with
\* segments as far as it reaches, and a thread has what its step works on.
Allocated ==
  /\ dir \in 1..ndirs
  /\ \A d \in 1..ndirs : \A i \in Index : i < Pow2[depth[d]] => entry[d][i] \in 1..nsegs
  /\ \A t \in Threads :
       /\ pc[t] # "retry" => todo[t] # <<>>
       /\ pc[t] \in {"try_lock", "check", "scan"} \cup Splitting => target[t] \in 1..nsegs
       /\ pc[t] \in Splitting => s[t][1] \in 1..nsegs /\ s[t][2] \in 1..nsegs
       /\ pc[t] \in {"suspend", "drain", "double", "publish", "store"} => held[t] \in 1..ndirs

\* A thread past LockTarget holds its segment's lock, unless it only reads.
Locked ==
  \A t \in Threads :
    pc[t] \in Splitting \/ (pc[t] \in {"check", "scan"} /\ ~ Calling(t, "Get"))
      => writer[target[t]] = t

\* How the depths of what a thread works on compare to the current directory's.
\* A thread goes to lock_dir only with a segment that is less deep than the
\* directory, and to suspend only with one that is as deep; neither changes while
\* it holds the segment's lock and the directory.
DepthsOf(t) ==
  /\ pc[t] \in {"try_lock", "check", "scan"} \cup Splitting =>
       local_depth[target[t]] <= depth[dir]
  /\ pc[t] \in Splitting =>
       /\ local_depth[target[t]] < HashBits
       /\ \A i \in {1, 2} : \/ local_depth[s[t][i]] <= depth[dir]
                            \/ local_depth[s[t][i]] <= local_depth[target[t]] + 1
  /\ pc[t] \in {"lock_dir", "store", "finish"} => local_depth[target[t]] < depth[dir]
  /\ pc[t] \in {"suspend", "drain", "double"} => depth[held[t]] = local_depth[target[t]]
  /\ pc[t] = "publish" => depth[held[t]] = depth[dir] + 1

\* No segment is deeper than a directory that leads to it, or than the current one.
Depths ==
  /\ \A d \in 1..ndirs : \A i \in Index : i < Pow2[depth[d]] =>
        local_depth[entry[d][i]] <= depth[d] \/ local_depth[entry[d][i]] <= depth[dir]
  /\ \A t \in Threads : DepthsOf(t)

\* What `sema` says of the current directory, which is the one all the threads
\* work on: how many store to it while it is open, how many have left since it was
\* suspended.  A directory that was replaced is never open to anybody again.
Counted ==
  /\ \A t, u \in Doublers : t = u
  /\ Doublers = {} => sema[dir] = Cardinality(Storers)
  /\ \A t \in Threads :
       /\ pc[t] = "drain" => /\ Cardinality(Storers) <= val[t]
                             /\ sema[dir] = Cardinality(Storers) - val[t] - 1
       /\ pc[t] \in {"double", "publish"} => Storers = {} /\ sema[dir] < 0
       /\ pc[t] = "publish" => held[t] # dir /\ sema[held[t]] = 0
       /\ pc[t] = "suspend" => held[t] = dir \/ sema[held[t]] < 0
  /\ \A d \in Dirs : d # dir => sema[d] <= 0

\* What a thread still has to store lies in the array and is one of its halves.
Pending ==
  \A t \in Threads : pc[t] = "store" =>
     \A i \in DOMAIN stores[t] : /\ stores[t][i][1] < Pow2[depth[dir]]
                                 /\ stores[t][i][2] \in {s[t][1], s[t][2]}

\* A directory that is about to be published still is the copy of the current one.
Copied == \A t \in Threads : pc[t] = "publish" => entry[held[t]] = Doubled(t)

\* The inductive invariant.
IInv == /\ TypeOK /\ Allocated /\ Locked /\ Depths /\ Counted
        /\ HeldDirectoryIsCurrent /\ Pending /\ Copied

-----------------------------------------------------------------------------
(* What the invariant says of a call, a segment and a directory.           *)

\* The key of a call is a key.
LEMMA CallType ==
  ASSUME TypeOK, NEW t \in Threads, todo[t] # <<>>
  PROVE  /\ Call(t) \in Calls /\ Key(t) \in Keys /\ Tail(todo[t]) \in Seq(Calls)
         /\ Calling(t, "Insert") \/ Calling(t, "Update") => Call(t).value \in Values
<1>1. todo[t] \in Seq(Calls)
  BY DEF TypeOK
<1>2. Head(todo[t]) \in Calls /\ Tail(todo[t]) \in Seq(Calls)
  BY <1>1
<1>3. QED
  BY <1>2 DEF Call, Key, Calls, Calling

\* A key is routed to a segment that exists and is no deeper than the directory.
LEMMA RouteType ==
  ASSUME IInv, NEW k \in Keys
  PROVE  /\ Prefix(k, depth[dir]) \in Index /\ Prefix(k, depth[dir]) < Pow2[depth[dir]]
         /\ Route(k) \in 1..nsegs /\ Route(k) \in Segs
         /\ local_depth[Route(k)] <= depth[dir]
<1>1. dir \in 1..ndirs /\ ndirs \in 1..MaxDirs /\ nsegs \in 1..MaxSegs
  BY DEF IInv, TypeOK, Allocated, Dirs, Segs
<1>2. depth[dir] \in 0..HashBits
  BY <1>1, ConstantAssumption DEF IInv, TypeOK, Dirs
<1>3. Prefix(k, depth[dir]) \in Nat /\ Prefix(k, depth[dir]) < Pow2[depth[dir]]
  BY <1>2, PrefixBound
<1>4. Prefix(k, depth[dir]) \in Index
  BY <1>2, <1>3, Pow2Monotonic DEF Index
<1>5. Route(k) \in 1..nsegs
  BY <1>1, <1>3, <1>4 DEF IInv, Allocated, Route
<1>6. local_depth[Route(k)] <= depth[dir]
  BY <1>1, <1>3, <1>4 DEF IInv, Depths, DepthsOf, Route
<1>7. QED
  BY <1>1, <1>3, <1>4, <1>5, <1>6, ConstantAssumption DEF Segs

\* The number of bits is a number.
LEMMA HashBitsNat == HashBits \in Nat
BY Pow2Assumption

\* What has been allocated is within the bounds.
LEMMA Bounds ==
  ASSUME TypeOK
  PROVE  /\ nsegs \in Nat /\ 1..nsegs \subseteq Segs
         /\ ndirs \in Nat /\ 1..ndirs \subseteq Dirs
         /\ Segs \subseteq Nat \ {0} /\ Dirs \subseteq Nat \ {0}
<1>1. nsegs \in 1..MaxSegs /\ ndirs \in 1..MaxDirs
  BY DEF TypeOK, Segs, Dirs
<1>2. QED
  BY <1>1, ConstantAssumption DEF Segs, Dirs

\* A thread past ReadTarget has a segment.
LEMMA TargetType ==
  ASSUME TypeOK, Allocated, NEW t \in Threads,
         pc[t] \in {"try_lock", "check", "scan"} \cup Splitting
  PROVE  /\ target[t] \in 1..nsegs /\ target[t] \in Segs
         /\ local_depth[target[t]] \in 0..HashBits
<1>1. target[t] \in 1..nsegs
  BY DEF Allocated
<1>2. target[t] \in Segs
  BY <1>1, Bounds
<1>3. QED
  BY <1>1, <1>2 DEF TypeOK

\* A thread that works on a directory has one.
LEMMA HeldType ==
  ASSUME TypeOK, Allocated, NEW t \in Threads,
         pc[t] \in {"suspend", "drain", "double", "publish", "store"}
  PROVE  /\ held[t] \in 1..ndirs /\ held[t] \in Dirs
         /\ depth[held[t]] \in 0..HashBits /\ sema[held[t]] \in Int
<1>1. held[t] \in 1..ndirs
  BY DEF Allocated
<1>2. held[t] \in Dirs
  BY <1>1, Bounds
<1>3. QED
  BY <1>1, <1>2 DEF TypeOK

\* The next cell a thread has to store.
LEMMA FirstStore ==
  ASSUME TypeOK, NEW t \in Threads, stores[t] # <<>>
  PROVE  /\ stores[t] \in Seq(Index \X Segs) /\ 1 \in DOMAIN stores[t]
         /\ Head(stores[t]) = stores[t][1] /\ Head(stores[t]) \in Index \X Segs
         /\ Tail(stores[t]) \in Seq(Index \X Segs)
         /\ \A i \in DOMAIN Tail(stores[t]) :
               i + 1 \in DOMAIN stores[t] /\ Tail(stores[t])[i] = stores[t][i + 1]
<1>1. stores[t] \in Seq(Index \X Segs)
  BY DEF TypeOK
<1>2. Len(stores[t]) \in Nat /\ Len(stores[t]) >= 1
  BY <1>1
<1>3. QED
  BY <1>1, <1>2

-----------------------------------------------------------------------------
(* The types.                                                              *)

\* The steps of a thread.
Steps == {"retry", "read", "try_lock", "check", "scan"} \cup Splitting

\* A thread goes from a step to a step.
LEMMA GotoType ==
  ASSUME TypeOK, NEW t \in Threads, NEW step \in Steps, Goto(t, step)
  PROVE  pc' \in [Threads -> Steps]
BY DEF TypeOK, Goto, Steps

\* The mutexes keep their types when one is unlocked.
LEMMA UnlockType ==
  ASSUME TypeOK, NEW t \in Threads, NEW seg, Unlock(t, seg)
  PROVE  /\ writer' \in [Segs -> Threads \cup {Nobody}]
         /\ readers' \in [Segs -> SUBSET Threads]
<1>1. writer' \in [Segs -> Threads \cup {Nobody}]
  BY DEF TypeOK, Unlock
<1>2. readers' \in [Segs -> SUBSET Threads]
  BY DEF TypeOK, Unlock
<1>3. QED
  BY <1>1, <1>2

\* A call that returns leaves the rest of the calls and an answer.
LEMMA ReturnType ==
  ASSUME TypeOK, NEW t \in Threads, todo[t] # <<>>,
         NEW r \in Values \cup {NONE} \cup BOOLEAN, Return(t, r)
  PROVE  /\ todo' \in [Threads -> Seq(Calls)]
         /\ ret' \in [Threads -> Values \cup {NONE} \cup BOOLEAN]
         /\ pc' \in [Threads -> Steps]
<1>1. todo' \in [Threads -> Seq(Calls)]
  BY CallType DEF TypeOK, Return
<1>2. ret' \in [Threads -> Values \cup {NONE} \cup BOOLEAN]
  BY DEF TypeOK, Return
<1>3. pc' \in [Threads -> Steps]
  BY GotoType DEF Return, Steps
<1>4. QED
  BY <1>1, <1>2, <1>3

\* The next directory is filled with segments, as far as it reaches.
LEMMA DoubledType ==
  ASSUME IInv, NEW t \in Threads, pc[t] = "double"
  PROVE  /\ Doubled(t) \in [Index -> Segs \cup {NULL}]
         /\ depth[dir] + 1 \in 0..HashBits
         /\ \A i \in Index : i < Pow2[depth[dir] + 1] =>
               \/ Doubled(t)[i] = s[t][1]
               \/ Doubled(t)[i] = s[t][2]
               \/ /\ i \div 2 \in Index /\ i \div 2 < Pow2[depth[dir]]
                  /\ Doubled(t)[i] = entry[dir][i \div 2]
<1>1. /\ depth[dir] \in 0..HashBits /\ depth[dir] + 1 \in 0..HashBits
      /\ dir \in Dirs /\ s[t][1] \in Segs /\ s[t][2] \in Segs
  <2>1. held[t] = dir /\ depth[held[t]] = local_depth[target[t]]
    BY DEF IInv, HeldDirectoryIsCurrent, Depths, DepthsOf
  <2>2. local_depth[target[t]] < HashBits /\ s[t][1] \in 1..nsegs /\ s[t][2] \in 1..nsegs
    BY DEF IInv, Depths, DepthsOf, Allocated, Splitting
  <2>3. QED
    BY <2>1, <2>2, HeldType, Bounds, HashBitsNat DEF IInv
<1>2. /\ Pow2[depth[dir]] \in Nat /\ Pow2[HashBits] \in Nat
      /\ Pow2[depth[dir]] <= Pow2[HashBits]
      /\ Pow2[depth[dir] + 1] = 2 * Pow2[depth[dir]]
  <2>1. (depth[dir] + 1) - 1 = depth[dir] /\ depth[dir] + 1 # 0
    BY <1>1
  <2>2. QED
    BY <1>1, <2>1, Pow2Monotonic, NextPower
<1>3. ASSUME NEW i \in Index
      PROVE  /\ i \in Nat /\ i \div 2 \in Index
             /\ s[t][1 + (i % 2)] \in {s[t][1], s[t][2]}
             /\ i < 2 * Pow2[depth[dir]] => i \div 2 < Pow2[depth[dir]]
  <2>1. i \in Nat /\ i < Pow2[HashBits]
    BY <1>2 DEF Index
  <2>2. i \div 2 \in Nat /\ i \div 2 <= i /\ i % 2 \in {0, 1}
    BY <2>1
  <2>3. i \div 2 \in Index
    BY <1>2, <2>1, <2>2 DEF Index
  <2>4. i < 2 * Pow2[depth[dir]] => i \div 2 < Pow2[depth[dir]]
    BY <1>2, <2>1
  <2>5. 1 + (i % 2) \in {1, 2}
    BY <2>2
  <2>6. QED
    BY <2>1, <2>3, <2>4, <2>5
<1>4. entry[dir] \in [Index -> Segs \cup {NULL}]
  BY <1>1 DEF IInv, TypeOK
<1>5. Doubled(t) \in [Index -> Segs \cup {NULL}]
  BY <1>1, <1>3, <1>4 DEF Doubled
<1>6. ASSUME NEW i \in Index, i < Pow2[depth[dir] + 1]
      PROVE  \/ Doubled(t)[i] = s[t][1]
             \/ Doubled(t)[i] = s[t][2]
             \/ /\ i \div 2 \in Index /\ i \div 2 < Pow2[depth[dir]]
                /\ Doubled(t)[i] = entry[dir][i \div 2]
  BY <1>2, <1>3, <1>6 DEF Doubled
<1>7. QED
  BY <1>1, <1>5, <1>6

\* The cells that are redirected lie in the directory and get one of the halves.
LEMMA CellsOfType ==
  ASSUME IInv, NEW t \in Threads, pc[t] = "lock_dir"
  PROVE  /\ CellsOf(t) \in Seq(Index \X Segs)
         /\ \A i \in DOMAIN CellsOf(t) : /\ CellsOf(t)[i][1] < Pow2[depth[dir]]
                                         /\ CellsOf(t)[i][2] \in {s[t][1], s[t][2]}
<1> DEFINE D == depth[dir]
           l == target_local_depth(t)
           x == Prefix(Key(t), D)
           loc == x - (x % Pow2[D - l])
           half == Pow2[D - l] \div 2
           cells(from, seg) == [i \in 1..half |-> <<from + i - 1, seg>>]
           right == cells(loc + half, s[t][2])
           left == cells(loc, s[t][1])
<1>1. /\ D \in 0..HashBits /\ l \in 0..HashBits /\ l < D
  <2>1. dir \in Dirs
    BY DEF IInv, TypeOK
  <2>2. l < D
    BY DEF IInv, Depths, DepthsOf, target_local_depth
  <2>3. QED
    BY <2>1, <2>2, TargetType DEF IInv, TypeOK, Splitting, target_local_depth
<1>2. Key(t) \in Keys
  BY CallType DEF IInv, Allocated
<1>3. Pow2[D - l] \in Nat /\ half \in Nat /\ half + half <= Pow2[D - l]
  <2>1. D - l \in 0..HashBits
    BY <1>1, HashBitsNat
  <2>2. Pow2[D - l] \in Nat
    BY <2>1, Pow2Positive
  <2>3. QED
    BY <2>2
<1>4. loc \in Int
  <2>1. x \in Nat
    BY <1>1, <1>2, PrefixBound
  <2>2. D - l \in 0..HashBits
    BY <1>1, HashBitsNat
  <2>3. QED
    BY <1>3, <2>1, <2>2, Pow2Positive, Euclid
<1>5. ASSUME NEW i \in 1..half
      PROVE  /\ loc + i - 1 \in Index /\ loc + i - 1 < Pow2[D]
             /\ loc + half + i - 1 \in Index /\ loc + half + i - 1 < Pow2[D]
  <2>1. /\ i - 1 \in Nat /\ i - 1 < Pow2[D - l]
        /\ half + i - 1 \in Nat /\ half + i - 1 < Pow2[D - l]
    <3> HIDE DEF half, D, l
    <3>1. QED
      BY <1>3
  <2>2. /\ loc + (i - 1) \in Index /\ loc + (i - 1) < Pow2[D]
        /\ loc + (half + i - 1) \in Index /\ loc + (half + i - 1) < Pow2[D]
    <3> HIDE DEF half, D, l
    <3>1. QED
      BY <1>1, <1>2, <2>1, CellsBound
  <2>3. /\ loc + i - 1 = loc + (i - 1)
        /\ loc + half + i - 1 = loc + (half + i - 1)
    <3> HIDE DEF half, loc
    <3>1. QED
      BY <1>3, <1>4
  <2>4. QED
    BY <2>2, <2>3
<1>6. s[t][1] \in Segs /\ s[t][2] \in Segs
  BY Bounds DEF IInv, Allocated, Splitting
<1>7. /\ right \in Seq(Index \X Segs) /\ Len(right) = half
      /\ left \in Seq(Index \X Segs) /\ Len(left) = half
      /\ \A i \in 1..half : /\ right[i][1] < Pow2[D] /\ right[i][2] = s[t][2]
                            /\ left[i][1] < Pow2[D] /\ left[i][2] = s[t][1]
  <2> HIDE DEF half, loc, D, l
  <2>1. QED
    BY <1>3, <1>5, <1>6
<1>8. CellsOf(t) = right \o (IF INPLACE THEN <<>> ELSE left)
  BY DEF CellsOf
<1>9. QED
  <2> HIDE DEF right, left, half, D
  <2>1. CASE INPLACE
    <3>1. CellsOf(t) = right
      BY <1>7, <1>8, <2>1
    <3>2. QED
      BY <1>3, <1>7, <3>1 DEF D
  <2>2. CASE ~ INPLACE
    <3>1. CellsOf(t) = right \o left
      BY <1>7, <1>8, <2>2
    <3>2. CellsOf(t) \in Seq(Index \X Segs) /\ Len(CellsOf(t)) = half + half
      BY ZenonT(60), <1>7, <3>1, ConcatProperties
    <3>3. ASSUME NEW i \in 1..(half + half)
          PROVE  \/ i \in 1..half /\ CellsOf(t)[i] = right[i]
                 \/ i - half \in 1..half /\ CellsOf(t)[i] = left[i - half]
      <4>1. CellsOf(t)[i] = IF i <= half THEN right[i] ELSE left[i - half]
        BY <1>7, <3>1, ConcatProperties
      <4>2. QED
        BY <1>3, <4>1
    <3>4. DOMAIN CellsOf(t) = 1..(half + half)
      BY <3>2
    <3>5. ASSUME NEW i \in 1..(half + half)
          PROVE  /\ CellsOf(t)[i][1] < Pow2[D]
                 /\ CellsOf(t)[i][2] \in {s[t][1], s[t][2]}
      BY <1>7, <3>3
    <3>6. QED
      BY <3>2, <3>4, <3>5 DEF D
  <2>3. QED
    BY <2>1, <2>2

\* Every step keeps the types.
LEMMA TypeStep ==
  ASSUME IInv, NEW t \in Threads, Step(t)
  PROVE  TypeOK'
<1> TypeOK /\ Allocated /\ Depths
  BY DEF IInv
<1> USE DEF TypeOK
<1>1. CASE AwaitDirectory(t) \/ ReadTarget(t) \/ LockTarget(t) \/ TryLockFails(t)
  <2>1. pc' \in [Threads -> Steps]
    BY <1>1, GotoType DEF AwaitDirectory, ReadTarget, LockTarget, TryLockFails, Steps
  <2>2. target' \in [Threads -> Segs \cup {NULL}]
    <3>1. CASE ReadTarget(t)
      <4>1. Route(Key(t)) \in Segs
        <5>1. todo[t] # <<>>
          BY <3>1 DEF Allocated, ReadTarget, Calling
        <5>2. QED
          BY <5>1, CallType, RouteType
      <4>2. QED
        BY <3>1, <4>1 DEF ReadTarget
    <3>2. QED
      BY <1>1, <3>1 DEF AwaitDirectory, LockTarget, TryLockFails
  <2>3. /\ writer' \in [Segs -> Threads \cup {Nobody}]
        /\ readers' \in [Segs -> SUBSET Threads]
    <3>1. CASE LockTarget(t) /\ Calling(t, "Get")
      <4>1. readers' = [readers EXCEPT ![target[t]] = @ \cup {t}] /\ writer' = writer
        BY <3>1 DEF LockTarget
      <4>2. readers' \in [Segs -> SUBSET Threads]
        BY <4>1
      <4>3. QED
        BY <4>1, <4>2
    <3>2. CASE LockTarget(t) /\ ~ Calling(t, "Get")
      BY <3>2 DEF LockTarget, Lock
    <3>3. QED
      BY <1>1, <3>1, <3>2 DEF AwaitDirectory, ReadTarget, TryLockFails, mutexVars
  <2>4. UNCHANGED <<dirVars, segVars, callVars, splitVars>>
    BY <1>1 DEF AwaitDirectory, ReadTarget, LockTarget, TryLockFails
  <2>5. QED
    BY <2>1, <2>2, <2>3, <2>4 DEF dirVars, segVars, callVars, splitVars, Steps
<1>2. CASE CheckTarget(t)
  <2>1. pc' \in [Threads -> Steps]
    BY <1>2, GotoType DEF CheckTarget, Steps
  <2>2. /\ writer' \in [Segs -> Threads \cup {Nobody}]
        /\ readers' \in [Segs -> SUBSET Threads]
    BY <1>2, UnlockType DEF CheckTarget, mutexVars
  <2>3. QED
    BY <1>2, <2>1, <2>2 DEF CheckTarget, dirVars, segVars, callVars, splitVars, Steps
<1>3. CASE Put(t) \/ Update(t) \/ Delete(t) \/ Get(t)
  <2>1. todo[t] # <<>> /\ Unlock(t, target[t]) /\ pc[t] = "scan"
    BY <1>3 DEF Put, Update, Delete, Get, Calling
  <2>2. target[t] \in Segs
    BY <2>1, TargetType
  <2>3. UNCHANGED <<dirVars, local_depth, nsegs, target, splitVars>>
    BY <1>3 DEF Put, Update, Delete, Get, segVars
  <2>4. \E r \in Values \cup {NONE} \cup BOOLEAN : Return(t, r)
    <3>1. CASE Put(t)
      BY <3>1 DEF Put
    <3>2. CASE Update(t) \/ Delete(t)
      <4>1. (Matching(target[t], Key(t)) # {}) \in BOOLEAN
        OBVIOUS
      <4>2. QED
        BY <3>2, <4>1 DEF Update, Delete
    <3>3. CASE Get(t)
      <4>1. \A p \in Matching(target[t], Key(t)) : p.value \in Values
        BY <2>2 DEF Matching, Pair
      <4>2. QED
        BY <3>3, <4>1 DEF Get
    <3>4. QED
      BY <1>3, <3>1, <3>2, <3>3
  <2>5. slots' \in [Segs -> SUBSET Pair]
    <3>1. CASE Put(t) \/ Update(t)
      <4>1. [key |-> Key(t), value |-> Call(t).value] \in Pair
        BY <3>1, <2>1, CallType DEF Put, Update, Pair
      <4>2. slots[target[t]] \in SUBSET Pair
        BY <2>2
      <4>3. CASE Put(t)
        <5>1. PICK dead : slots' = [slots EXCEPT ![target[t]] =
                      (@ \ dead) \cup {[key |-> Key(t), value |-> Call(t).value]}]
          BY <4>3 DEF Put
        <5>2. (slots[target[t]] \ dead) \cup {[key |-> Key(t), value |-> Call(t).value]}
                \in SUBSET Pair
          BY <4>1, <4>2
        <5>3. QED
          BY <5>1, <5>2
      <4>4. CASE Update(t)
        BY <4>1, <4>2, <4>4 DEF Update
      <4>5. QED
        BY <3>1, <4>3, <4>4
    <3>2. CASE Delete(t)
      BY <3>2, <2>2 DEF Delete
    <3>3. CASE Get(t)
      BY <3>3 DEF Get, segVars
    <3>4. QED
      BY <1>3, <3>1, <3>2, <3>3
  <2>6. QED
    BY <2>1, <2>3, <2>4, <2>5, UnlockType, ReturnType DEF dirVars, splitVars, Steps
<1>4. CASE Split(t)
  <2>1. /\ pc[t] = "scan" /\ target[t] \in Segs
        /\ local_depth[target[t]] \in 0..HashBits /\ local_depth[target[t]] < HashBits
    BY <1>4, TargetType DEF Split
  <2>2. /\ nsegs' \in Segs
        /\ s' \in [Threads -> (Segs \cup {NULL}) \X (Segs \cup {NULL})]
    <3>1. nsegs \in Nat /\ \A n \in Nat : n >= 1 /\ n <= MaxSegs => n \in Segs
      BY Bounds, ConstantAssumption DEF Segs
    <3>2. CASE INPLACE
      <4>1. nsegs' = nsegs + 1 /\ nsegs + 1 <= MaxSegs
        BY <1>4, <3>2 DEF Split
      <4>2. nsegs + 1 \in Segs
        BY <3>1, <4>1
      <4>3. s' = [s EXCEPT ![t] = <<target[t], nsegs + 1>>]
        BY <1>4, <3>2 DEF Split
      <4>4. QED
        BY <2>1, <4>1, <4>2, <4>3
    <3>3. CASE ~ INPLACE
      <4>1. nsegs' = nsegs + 2 /\ nsegs + 2 <= MaxSegs
        BY <1>4, <3>3 DEF Split
      <4>2. nsegs + 1 \in Segs /\ nsegs + 2 \in Segs
        BY <3>1, <4>1, ConstantAssumption
      <4>3. s' = [s EXCEPT ![t] = <<nsegs + 1, nsegs + 2>>]
        BY <1>4, <3>3 DEF Split
      <4>4. QED
        BY <4>1, <4>2, <4>3
    <3>4. QED
      BY <3>2, <3>3
  <2>3. slots' \in [Segs -> SUBSET Pair]
    <3>1. \A b : {p \in slots[target[t]] : Bit(p.key, local_depth[target[t]]) = b} \in SUBSET Pair
      BY <2>1
    <3>2. QED
      BY <1>4, <3>1 DEF Split
  <2>4. local_depth' \in [Segs -> 0..HashBits]
    <3>1. local_depth[target[t]] + 1 \in 0..HashBits
      BY <2>1, HashBitsNat
    <3>2. QED
      BY <1>4, <3>1 DEF Split
  <2>5. pc' \in [Threads -> Steps]
    BY <1>4, GotoType DEF Split, Steps, Splitting
  <2>6. QED
    BY <1>4, <2>2, <2>3, <2>4, <2>5 DEF Split, dirVars, mutexVars, callVars, Steps
<1>5. CASE ReadDirectory(t) \/ Suspend(t) \/ Drain(t)
  <2>1. pc' \in [Threads -> Steps]
    BY <1>5, GotoType DEF ReadDirectory, Suspend, Drain, Steps, Splitting
  <2>2. held' \in [Threads -> Dirs \cup {NULL}]
    BY <1>5 DEF ReadDirectory, Suspend, Drain, splitVars
  <2>3. val' \in [Threads -> Nat] /\ sema' \in [Dirs -> Int]
    <3>1. CASE Suspend(t)
      <4>1. held[t] \in Dirs /\ (sema[held[t]] >= 0 => sema[held[t]] \in Nat)
        BY SMTT(60), <3>1, HeldType DEF Suspend
      <4>2. CASE sema[held[t]] >= 0
        <5>1. val' = [val EXCEPT ![t] = sema[held[t]]] /\ sema' = [sema EXCEPT ![held[t]] = -1]
          BY <3>1, <4>2 DEF Suspend
        <5>2. sema[held[t]] \in Nat
          BY <4>1, <4>2
        <5>3. val' \in [Threads -> Nat]
          BY <5>1, <5>2
        <5>4. sema' \in [Dirs -> Int]
          <6>1. sema' = [sema EXCEPT ![held[t]] = -1] /\ -1 \in Int /\ sema \in [Dirs -> Int]
            BY <5>1
          <6>2. QED
            BY <6>1
        <5>5. QED
          BY <5>3, <5>4
      <4>3. CASE ~ (sema[held[t]] >= 0)
        BY <3>1, <4>3 DEF Suspend
      <4>4. QED
        BY <4>2, <4>3
    <3>2. QED
      BY <1>5, <3>1 DEF ReadDirectory, Drain, dirVars, splitVars
  <2>4. UNCHANGED <<dir, depth, entry, ndirs, segVars, mutexVars, callVars, target, s, stores>>
    BY <1>5 DEF ReadDirectory, Suspend, Drain, dirVars, splitVars
  <2>5. QED
    BY <2>1, <2>2, <2>3, <2>4 DEF segVars, mutexVars, callVars, Steps
<1>6. CASE DoubleDirectory(t)
  <2>1. ndirs + 1 \in Dirs /\ ndirs' = ndirs + 1
    BY <1>6, ConstantAssumption DEF DoubleDirectory, Dirs
  <2>2. depth' \in [Dirs -> 0..HashBits]
    <3>1. depth[dir] + 1 \in 0..HashBits
      BY <1>6, DoubledType DEF DoubleDirectory
    <3>2. QED
      BY <1>6, <3>1 DEF DoubleDirectory
  <2>3. sema' \in [Dirs -> Int] /\ held' \in [Threads -> Dirs \cup {NULL}]
    <3>1. PICK n \in Dirs : /\ sema' = [sema EXCEPT ![n] = 0]
                             /\ held' = [held EXCEPT ![t] = n]
      BY <1>6, <2>1 DEF DoubleDirectory
    <3>2. sema \in [Dirs -> Int] /\ held \in [Threads -> Dirs \cup {NULL}]
      OBVIOUS
    <3>3. QED
      BY <3>1, <3>2
  <2>4. Doubled(t) \in [Index -> Segs \cup {NULL}]
    BY <1>6, DoubledType DEF DoubleDirectory
  <2>5. entry' \in [Dirs -> [Index -> Segs \cup {NULL}]]
    BY <1>6, <2>4 DEF DoubleDirectory
  <2>6. pc' \in [Threads -> Steps]
    BY <1>6, GotoType DEF DoubleDirectory, Steps, Splitting
  <2>7. QED
    BY <1>6, <2>1, <2>2, <2>3, <2>5, <2>6 DEF DoubleDirectory, segVars, mutexVars, callVars, Steps
<1>7. CASE Publish(t) \/ UnlockDirectory(t)
  <2>1. pc' \in [Threads -> Steps]
    BY <1>7, GotoType DEF Publish, UnlockDirectory, AfterSplit, Steps, Splitting
  <2>2. dir' \in Dirs
    BY <1>7, HeldType DEF Publish, UnlockDirectory
  <2>3. held' \in [Threads -> Dirs \cup {NULL}] /\ sema' \in [Dirs -> Int]
    <3>1. CASE Publish(t)
      BY <3>1 DEF Publish
    <3>2. CASE UnlockDirectory(t)
      BY <3>2 DEF UnlockDirectory
    <3>3. QED
      BY <1>7, <3>1, <3>2
  <2>4. UNCHANGED <<depth, entry, ndirs, segVars, mutexVars, callVars, target, s, val, stores>>
    BY <1>7 DEF Publish, UnlockDirectory
  <2>5. QED
    BY <2>1, <2>2, <2>3, <2>4 DEF segVars, mutexVars, callVars, Steps
<1>8. CASE LockDirectory(t)
  <2>1. pc' \in [Threads -> Steps]
    BY <1>8, GotoType DEF LockDirectory, Steps, Splitting
  <2>2. CellsOf(t) \in Seq(Index \X Segs)
    BY <1>8, CellsOfType DEF LockDirectory
  <2>3. stores' \in [Threads -> Seq(Index \X Segs)]
    BY <1>8, <2>2 DEF LockDirectory
  <2>4. sema' \in [Dirs -> Int] /\ held' \in [Threads -> Dirs \cup {NULL}]
    BY <1>8 DEF LockDirectory
  <2>5. QED
    BY <1>8, <2>1, <2>3, <2>4 DEF LockDirectory, segVars, mutexVars, callVars, Steps
<1>9. CASE StoreEntry(t)
  <2>1. stores[t] \in Seq(Index \X Segs) /\ stores[t] # <<>>
    BY <1>9 DEF StoreEntry
  <2>2. Head(stores[t]) \in Index \X Segs /\ Tail(stores[t]) \in Seq(Index \X Segs)
    BY <2>1
  <2>3. entry' \in [Dirs -> [Index -> Segs \cup {NULL}]]
    BY <1>9, <2>2 DEF StoreEntry
  <2>4. stores' \in [Threads -> Seq(Index \X Segs)]
    BY <1>9, <2>2 DEF StoreEntry
  <2>5. QED
    BY <1>9, <2>3, <2>4 DEF StoreEntry, segVars, mutexVars, callVars
<1>10. CASE FinishSplit(t)
  <2>1. pc' \in [Threads -> Steps]
    BY <1>10, GotoType DEF FinishSplit, Steps
  <2>2. local_depth' \in [Segs -> 0..HashBits]
    <3>1. /\ target[t] \in Segs /\ local_depth[target[t]] \in 0..HashBits
          /\ local_depth[target[t]] < HashBits
      BY <1>10, TargetType DEF FinishSplit, Depths, DepthsOf, Splitting
    <3>2. local_depth[target[t]] + 1 \in 0..HashBits
      BY <3>1, HashBitsNat
    <3>3. QED
      BY <1>10, <3>2 DEF FinishSplit
  <2>3. QED
    BY <1>10, <2>1, <2>2, UnlockType DEF FinishSplit, dirVars, callVars, splitVars, Steps
<1>11. QED
  BY <1>1, <1>2, <1>3, <1>4, <1>5, <1>6, <1>7, <1>8, <1>9, <1>10 DEF Step

-----------------------------------------------------------------------------
(* What exists.                                                            *)

\* A step of a thread leaves the other threads where they are.
LEMMA Others ==
  ASSUME TypeOK, NEW t \in Threads, Step(t), NEW u \in Threads, u # t
  PROVE  /\ pc'[u] = pc[u] /\ todo'[u] = todo[u] /\ target'[u] = target[u]
         /\ s'[u] = s[u] /\ held'[u] = held[u] /\ val'[u] = val[u] /\ stores'[u] = stores[u]
<1> USE DEF TypeOK, Goto, Return, callVars, splitVars
<1>1. CASE AwaitDirectory(t) \/ ReadTarget(t) \/ LockTarget(t) \/ TryLockFails(t) \/ CheckTarget(t)
  BY <1>1 DEF AwaitDirectory, ReadTarget, LockTarget, TryLockFails, CheckTarget
<1>2. CASE Put(t)
  BY <1>2 DEF Put
<1>3. CASE Update(t)
  BY <1>3 DEF Update
<1>4. CASE Delete(t) \/ Get(t)
  BY <1>4 DEF Delete, Get
<1>5. CASE Split(t)
  BY <1>5 DEF Split
<1>6. CASE ReadDirectory(t) \/ Suspend(t) \/ Drain(t)
  BY <1>6 DEF ReadDirectory, Suspend, Drain
<1>7. CASE DoubleDirectory(t) \/ Publish(t)
  BY <1>7 DEF DoubleDirectory, Publish, AfterSplit
<1>8. CASE LockDirectory(t) \/ StoreEntry(t) \/ UnlockDirectory(t) \/ FinishSplit(t)
  BY <1>8 DEF LockDirectory, StoreEntry, UnlockDirectory, FinishSplit, AfterSplit
<1>9. QED
  BY <1>1, <1>2, <1>3, <1>4, <1>5, <1>6, <1>7, <1>8 DEF Step

\* Which steps change the directories.
LEMMA DirectoryFrame ==
  ASSUME NEW t \in Threads, Step(t)
  PROVE  /\ DoubleDirectory(t) \/ (ndirs' = ndirs /\ depth' = depth)
         /\ DoubleDirectory(t) \/ StoreEntry(t) \/ entry' = entry
         /\ Publish(t) \/ dir' = dir
BY DEF Step, AwaitDirectory, ReadTarget, LockTarget, TryLockFails, CheckTarget, Put, Update,
   Delete, Get, Split, ReadDirectory, Suspend, Drain, DoubleDirectory, Publish,
   LockDirectory, StoreEntry, UnlockDirectory, FinishSplit, dirVars

\* Which steps change the segments.
LEMMA SegmentFrame ==
  ASSUME NEW t \in Threads, Step(t)
  PROVE  /\ Split(t) \/ nsegs' = nsegs
         /\ Split(t) \/ FinishSplit(t) \/ local_depth' = local_depth
BY DEF Step, AwaitDirectory, ReadTarget, LockTarget, TryLockFails, CheckTarget, Put, Update,
   Delete, Get, Split, ReadDirectory, Suspend, Drain, DoubleDirectory, Publish,
   LockDirectory, StoreEntry, UnlockDirectory, FinishSplit, segVars

\* Nothing is ever freed.
LEMMA Grows ==
  ASSUME TypeOK, NEW t \in Threads, Step(t)
  PROVE  /\ nsegs \in Nat /\ nsegs' \in Nat /\ nsegs <= nsegs'
         /\ ndirs \in Nat /\ ndirs' \in Nat /\ ndirs <= ndirs'
         /\ 1..nsegs \subseteq 1..nsegs' /\ 1..ndirs \subseteq 1..ndirs'
<1>1. nsegs \in Nat /\ ndirs \in Nat
  BY Bounds
<1>2. nsegs' \in Nat /\ nsegs <= nsegs'
  BY <1>1, SegmentFrame DEF Split
<1>3. ndirs' \in Nat /\ ndirs <= ndirs'
  BY <1>1, DirectoryFrame DEF DoubleDirectory
<1>4. QED
  BY <1>1, <1>2, <1>3

\* Every step uses only what exists.
LEMMA AllocatedStep ==
  ASSUME IInv, TypeOK', NEW t \in Threads, Step(t)
  PROVE  Allocated'
<1> TypeOK /\ Allocated /\ Depths /\ HeldDirectoryIsCurrent /\ Pending
  BY DEF IInv
<1>1. dir' \in 1..ndirs'
  <2>1. CASE Publish(t)
    BY <2>1, HeldType, Grows DEF Publish
  <2>2. CASE ~ Publish(t)
    BY <2>2, DirectoryFrame, Grows DEF Allocated
  <2>3. QED
    BY <2>1, <2>2
<1>2. ASSUME NEW d \in 1..ndirs', NEW i \in Index, i < Pow2[depth'[d]]
      PROVE  entry'[d][i] \in 1..nsegs'
  <2>1. CASE DoubleDirectory(t)
    <3>1. /\ pc[t] = "double" /\ ndirs' = ndirs + 1 /\ nsegs' = nsegs
          /\ depth' = [depth EXCEPT ![ndirs + 1] = depth[dir] + 1]
          /\ entry' = [entry EXCEPT ![ndirs + 1] = Doubled(t)]
      BY <2>1 DEF DoubleDirectory, segVars
    <3>2. ndirs + 1 \in Dirs /\ d \in Dirs
      <4>1. ndirs \in Nat /\ ndirs + 1 \in 1..MaxDirs
        BY <3>1, Bounds DEF TypeOK, Dirs
      <4>2. QED
        BY <3>1, <4>1, ConstantAssumption DEF Dirs
    <3>3. CASE d = ndirs + 1
      <4>1. depth'[d] = depth[dir] + 1 /\ entry'[d] = Doubled(t)
        BY <3>1, <3>2, <3>3 DEF TypeOK
      <4>2. s[t][1] \in 1..nsegs /\ s[t][2] \in 1..nsegs /\ dir \in 1..ndirs
        BY <3>1 DEF Allocated, Splitting
      <4>3. QED
        BY <1>2, <3>1, <4>1, <4>2, DoubledType DEF Allocated
    <3>4. CASE d # ndirs + 1
      <4>1. d \in 1..ndirs
        BY <3>1, <3>4, Bounds
      <4>2. depth'[d] = depth[d] /\ entry'[d] = entry[d]
        BY <3>1, <3>2, <3>4 DEF TypeOK
      <4>3. QED
        BY <1>2, <3>1, <4>1, <4>2 DEF Allocated
    <3>5. QED
      BY <3>3, <3>4
  <2>2. CASE StoreEntry(t)
    <3>1. /\ pc[t] = "store" /\ stores[t] # <<>> /\ nsegs' = nsegs /\ ndirs' = ndirs
          /\ depth' = depth
          /\ entry' = [entry EXCEPT ![dir][Head(stores[t])[1]] = Head(stores[t])[2]]
      BY <2>2 DEF StoreEntry, segVars
    <3>2. Head(stores[t])[2] \in 1..nsegs
      <4>1. 1 \in DOMAIN stores[t] /\ Head(stores[t]) = stores[t][1]
        BY <3>1, FirstStore
      <4>2. QED
        BY <3>1, <4>1 DEF Pending, Allocated, Splitting
    <3>3. d \in 1..ndirs /\ d \in Dirs
      BY <3>1, Bounds
    <3>4. entry[d][i] \in 1..nsegs
      BY <1>2, <3>1, <3>3 DEF Allocated
    <3>5. entry'[d][i] = entry[d][i] \/ entry'[d][i] = Head(stores[t])[2]
      BY <3>1, <3>3 DEF TypeOK
    <3>6. QED
      BY <3>1, <3>2, <3>4, <3>5
  <2>3. CASE ~ DoubleDirectory(t) /\ ~ StoreEntry(t)
    BY <1>2, <2>3, DirectoryFrame, Grows DEF Allocated
  <2>4. QED
    BY <2>1, <2>2, <2>3
<1>3. ASSUME NEW u \in Threads
      PROVE  /\ pc'[u] # "retry" => todo'[u] # <<>>
             /\ pc'[u] \in {"try_lock", "check", "scan"} \cup Splitting => target'[u] \in 1..nsegs'
             /\ pc'[u] \in Splitting => s'[u][1] \in 1..nsegs' /\ s'[u][2] \in 1..nsegs'
             /\ pc'[u] \in {"suspend", "drain", "double", "publish", "store"} => held'[u] \in 1..ndirs'
  <2>1. CASE u # t
    BY <2>1, Others, Grows DEF Allocated
  <2>2. CASE u = t
    <3> USE DEF Goto, Return, Splitting, callVars, splitVars
    <3> USE <2>2
    <3>1. CASE AwaitDirectory(t)
      BY <3>1 DEF AwaitDirectory, TypeOK
    <3>2. CASE ReadTarget(t)
      <4>1. todo[t] # <<>>
        BY <3>2 DEF ReadTarget, Calling, Allocated
      <4>2. Route(Key(t)) \in 1..nsegs
        BY <4>1, CallType, RouteType
      <4>3. QED
        BY <3>2, <4>1, <4>2, Grows DEF ReadTarget, TypeOK
    <3>3. CASE LockTarget(t) \/ TryLockFails(t) \/ CheckTarget(t)
      BY ZenonT(60), <3>3, Grows DEF LockTarget, TryLockFails, CheckTarget, TypeOK, Allocated
    <3>4. CASE Put(t) \/ Update(t) \/ Delete(t) \/ Get(t)
      <4>1. pc'[t] = "retry"
        BY <3>4 DEF Put, Update, Delete, Get, TypeOK
      <4>2. QED
        BY <4>1
    <3>5. CASE Split(t)
      <4>1. pc'[t] = "dir_retry" /\ pc[t] = "scan" /\ todo'[t] = todo[t] /\ target'[t] = target[t]
        BY <3>5 DEF Split, TypeOK
      <4>2. target[t] \in 1..nsegs
        BY <4>1, TargetType
      <4>3. s'[t][1] \in 1..nsegs' /\ s'[t][2] \in 1..nsegs'
        <5>1. CASE INPLACE
          <6>1. s'[t] = <<target[t], nsegs + 1>> /\ nsegs' = nsegs + 1
            BY <3>5, <5>1 DEF Split, TypeOK
          <6>2. QED
            BY <6>1, <4>2, Bounds
        <5>2. CASE ~ INPLACE
          <6>1. s'[t] = <<nsegs + 1, nsegs + 2>> /\ nsegs' = nsegs + 2
            BY <3>5, <5>2 DEF Split, TypeOK
          <6>2. QED
            BY <6>1, Bounds
        <5>3. QED
          BY <5>1, <5>2
      <4>4. QED
        BY <4>1, <4>2, <4>3, Grows DEF Allocated
    <3>6. CASE ReadDirectory(t) \/ Suspend(t) \/ Drain(t)
      <4>1. CASE ReadDirectory(t)
        <5>1. /\ pc[t] = "dir_retry" /\ todo'[t] = todo[t] /\ target'[t] = target[t] /\ s'[t] = s[t]
              /\ pc'[t] = "lock_dir" \/ (pc'[t] = "suspend" /\ held'[t] = dir)
          BY <4>1 DEF ReadDirectory, TypeOK
        <5>2. QED
          BY <5>1, Grows DEF Allocated
      <4>2. CASE Suspend(t)
        <5>1. /\ pc[t] = "suspend" /\ todo'[t] = todo[t] /\ target'[t] = target[t] /\ s'[t] = s[t]
              /\ pc'[t] = "dir_retry" \/ (pc'[t] = "drain" /\ held'[t] = held[t])
          BY <4>2 DEF Suspend, TypeOK
        <5>2. QED
          BY <5>1, Grows DEF Allocated
      <4>3. CASE Drain(t)
        BY <4>3, Grows DEF Drain, TypeOK, Allocated
      <4>4. QED
        BY <3>6, <4>1, <4>2, <4>3
    <3>7. CASE DoubleDirectory(t)
      <4>1. /\ pc[t] = "double" /\ pc'[t] = "publish" /\ todo'[t] = todo[t]
            /\ target'[t] = target[t] /\ s'[t] = s[t]
            /\ held'[t] = ndirs + 1 /\ ndirs' = ndirs + 1
        BY <3>7 DEF DoubleDirectory, TypeOK
      <4>2. held'[t] \in 1..ndirs'
        BY <4>1, Grows
      <4>3. QED
        BY <4>1, <4>2, Grows DEF Allocated
    <3>8. CASE Publish(t) \/ UnlockDirectory(t) \/ FinishSplit(t)
      BY ZenonT(60), <3>8, Grows DEF Publish, UnlockDirectory, FinishSplit, AfterSplit, TypeOK, Allocated
    <3>9. CASE LockDirectory(t) \/ StoreEntry(t)
      BY <3>9, Grows DEF LockDirectory, StoreEntry, TypeOK, Allocated
    <3>10. QED
      BY <3>1, <3>2, <3>3, <3>4, <3>5, <3>6, <3>7, <3>8, <3>9 DEF Step
  <2>3. QED
    BY <2>1, <2>2
<1>4. QED
  BY <1>1, <1>2, <1>3 DEF Allocated

-----------------------------------------------------------------------------
(* The locks of segments.                                                  *)

\* A step of a thread takes no lock from another.
LEMMA LocksOfOthers ==
  ASSUME TypeOK, NEW t \in Threads, Step(t), NEW u \in Threads, u # t,
         NEW seg \in Segs, writer[seg] = u
  PROVE  writer'[seg] = u
<1> u # Nobody
  BY ConstantAssumption
<1> USE DEF TypeOK, Unlock, Lock, mutexVars
<1>1. CASE LockTarget(t)
  BY <1>1 DEF LockTarget
<1>2. CASE CheckTarget(t)
  BY <1>2 DEF CheckTarget
<1>3. CASE Put(t) \/ Update(t) \/ Delete(t) \/ Get(t)
  BY <1>3 DEF Put, Update, Delete, Get
<1>4. CASE FinishSplit(t)
  BY <1>4 DEF FinishSplit
<1>5. CASE AwaitDirectory(t) \/ ReadTarget(t) \/ TryLockFails(t) \/ Split(t) \/ ReadDirectory(t)
           \/ Suspend(t) \/ Drain(t) \/ DoubleDirectory(t) \/ Publish(t)
           \/ LockDirectory(t) \/ StoreEntry(t) \/ UnlockDirectory(t)
  BY <1>5 DEF AwaitDirectory, ReadTarget, TryLockFails, Split, ReadDirectory, Suspend, Drain,
     DoubleDirectory, Publish, LockDirectory, StoreEntry, UnlockDirectory
<1>6. QED
  BY <1>1, <1>2, <1>3, <1>4, <1>5 DEF Step

\* Every step keeps the locks where the code believes them.
LEMMA LockedStep ==
  ASSUME IInv, TypeOK', NEW t \in Threads, Step(t)
  PROVE  Locked'
<1> TypeOK /\ Allocated /\ Locked
  BY DEF IInv
<1>1. ASSUME NEW u \in Threads,
             pc'[u] \in Splitting \/ (pc'[u] \in {"check", "scan"} /\ ~ Calling(u, "Get")')
      PROVE  writer'[target'[u]] = u
  <2>1. CASE u # t
    <3>1. pc[u] \in Splitting \/ (pc[u] \in {"check", "scan"} /\ ~ Calling(u, "Get"))
      BY <1>1, <2>1, Others DEF Calling, Call
    <3>2. writer[target[u]] = u /\ target[u] \in Segs /\ target'[u] = target[u]
      BY <2>1, <3>1, Others, TargetType DEF Locked
    <3>3. QED
      BY <2>1, <3>2, LocksOfOthers
  <2>2. CASE u = t
    <3> USE DEF Goto, Return, Splitting, callVars, splitVars
    <3> USE <2>2
    <3>1. CASE LockTarget(t)
      <4>1. target[t] \in Segs
        BY <3>1, TargetType DEF LockTarget
      <4>2. ~ Calling(t, "Get")
        BY <1>1, <3>1 DEF LockTarget, TypeOK, Calling, Call
      <4>3. QED
        BY <3>1, <4>1, <4>2 DEF LockTarget, Lock, TypeOK
    <3>2. CASE \/ CheckTarget(t) \/ Split(t) \/ ReadDirectory(t) \/ Suspend(t) \/ Drain(t)
               \/ DoubleDirectory(t) \/ Publish(t) \/ LockDirectory(t) \/ StoreEntry(t)
               \/ UnlockDirectory(t)
      <4>1. pc[t] \in Splitting \/ (pc[t] \in {"check", "scan"} /\ ~ Calling(t, "Get"))
        <5>1. CASE CheckTarget(t)
          BY <1>1, <5>1 DEF CheckTarget, TypeOK, Calling, Call
        <5>2. CASE ~ CheckTarget(t)
          BY <3>2, <5>2 DEF Split, ReadDirectory, Suspend, Drain, DoubleDirectory,
             Publish, LockDirectory, StoreEntry, UnlockDirectory, Calling
        <5>3. QED
          BY <5>1, <5>2
      <4>2. target' = target /\ writer' = writer
        <5>1. CASE CheckTarget(t)
          BY <1>1, <5>1 DEF CheckTarget, TypeOK, mutexVars
        <5>2. CASE ~ CheckTarget(t)
          BY <3>2, <5>2 DEF Split, ReadDirectory, Suspend, Drain, DoubleDirectory,
             Publish, LockDirectory, StoreEntry, UnlockDirectory, mutexVars
        <5>3. QED
          BY <5>1, <5>2
      <4>3. QED
        BY <4>1, <4>2 DEF Locked
    <3>3. CASE \/ AwaitDirectory(t) \/ ReadTarget(t) \/ TryLockFails(t)
               \/ Put(t) \/ Update(t) \/ Delete(t) \/ Get(t) \/ FinishSplit(t)
      <4>1. pc'[t] \in {"read", "try_lock", "retry"}
        BY <3>3 DEF AwaitDirectory, ReadTarget, TryLockFails, Put, Update, Delete, Get,
           FinishSplit, TypeOK
      <4>2. QED
        BY <1>1, <4>1
    <3>4. QED
      BY <3>1, <3>2, <3>3 DEF Step
  <2>3. QED
    BY <2>1, <2>2
<1>2. QED
  BY <1>1 DEF Locked

-----------------------------------------------------------------------------
(* The depths of directories and segments.                                 *)

\* The current directory only gets deeper, and no other changes its depth.
LEMMA DepthGrows ==
  ASSUME IInv, NEW t \in Threads, Step(t)
  PROVE  /\ dir \in Dirs /\ depth[dir] \in Nat /\ depth'[dir'] \in Nat
         /\ depth[dir] <= depth'[dir']
         /\ \A d \in 1..ndirs : d \in Dirs /\ depth[d] \in 0..HashBits /\ depth'[d] = depth[d]
<1> TypeOK /\ Allocated /\ Depths
  BY DEF IInv
<1>1. \A d \in 1..ndirs : d \in Dirs /\ depth[d] \in 0..HashBits /\ depth'[d] = depth[d]
  <2>1. \A d \in 1..ndirs : d \in Dirs /\ depth[d] \in 0..HashBits /\ d # ndirs + 1
    <3>1. ndirs \in Nat /\ 1..ndirs \subseteq Dirs /\ depth \in [Dirs -> 0..HashBits]
      BY Bounds DEF TypeOK
    <3>2. \A d \in 1..ndirs : d # ndirs + 1
      BY <3>1
    <3>3. QED
      BY <3>1, <3>2
  <2>2. CASE DoubleDirectory(t)
    BY <2>1, <2>2 DEF DoubleDirectory, TypeOK
  <2>3. CASE ~ DoubleDirectory(t)
    BY <2>1, <2>3, DirectoryFrame
  <2>4. QED
    BY <2>2, <2>3, <2>1
<1>2. dir \in 1..ndirs
  BY DEF Allocated
<1>3. CASE Publish(t)
  <2>1. dir' = held[t] /\ held[t] \in 1..ndirs /\ depth[held[t]] = depth[dir] + 1
    BY <1>3, HeldType DEF Publish, Depths, DepthsOf
  <2>2. QED
    BY <1>1, <1>2, <2>1
<1>4. CASE ~ Publish(t)
  BY <1>1, <1>2, <1>4, DirectoryFrame
<1>5. QED
  BY <1>1, <1>2, <1>3, <1>4

\* A segment that exists changes its depth only when an INPLACE split of it ends,
\* and then not beyond the directory's.
LEMMA LocalDepthGrows ==
  ASSUME IInv, NEW t \in Threads, Step(t), NEW g \in 1..nsegs
  PROVE  /\ g \in Segs /\ local_depth[g] \in 0..HashBits
         /\ \/ local_depth'[g] = local_depth[g]
            \/ /\ FinishSplit(t) /\ g = target[t]
               /\ local_depth'[g] = local_depth[g] + 1
               /\ local_depth'[g] <= depth[dir]
<1> TypeOK /\ Allocated /\ Depths
  BY DEF IInv
<1>1. g \in Segs /\ local_depth[g] \in 0..HashBits
  BY Bounds DEF TypeOK
<1>2. CASE Split(t)
  <2>1. g # nsegs + 1 /\ g # nsegs + 2
    BY Bounds
  <2>2. QED
    BY <1>1, <1>2, <2>1 DEF Split, TypeOK
<1>3. CASE FinishSplit(t)
  <2>1. /\ local_depth' = [local_depth EXCEPT ![target[t]] = @ + 1]
        /\ local_depth[target[t]] < depth[dir] /\ target[t] \in Segs
        /\ local_depth[target[t]] \in 0..HashBits
    BY <1>3, TargetType DEF FinishSplit, Depths, DepthsOf, Splitting
  <2>2. depth[dir] \in Nat
    BY DepthGrows
  <2>3. CASE g = target[t]
    <3>1. local_depth'[g] = local_depth[g] + 1
      BY <1>1, <2>1, <2>3 DEF TypeOK
    <3>2. QED
      BY <1>1, <1>3, <2>1, <2>2, <2>3, <3>1
  <2>4. CASE g # target[t]
    BY <1>1, <2>1, <2>4 DEF TypeOK
  <2>5. QED
    BY <2>3, <2>4
<1>4. CASE ~ Split(t) /\ ~ FinishSplit(t)
  BY <1>1, <1>4, SegmentFrame
<1>5. QED
  BY <1>1, <1>2, <1>3, <1>4

\* What is no deeper than the directory, or than some bound, stays so.
LEMMA BoundStays ==
  ASSUME IInv, NEW t \in Threads, Step(t), NEW g \in 1..nsegs, NEW n \in Nat,
         local_depth[g] <= n \/ local_depth[g] <= depth[dir]
  PROVE  local_depth'[g] <= n \/ local_depth'[g] <= depth'[dir']
<1>1. /\ depth[dir] \in Nat /\ depth'[dir'] \in Nat /\ depth[dir] <= depth'[dir']
      /\ local_depth[g] \in Nat
  BY DepthGrows, LocalDepthGrows, HashBitsNat
<1>2. CASE local_depth'[g] = local_depth[g]
  BY <1>1, <1>2
<1>3. CASE local_depth'[g] = local_depth[g] + 1 /\ local_depth'[g] <= depth[dir]
  BY <1>1, <1>3
<1>4. QED
  BY <1>2, <1>3, LocalDepthGrows

\* The segment a thread is splitting keeps its depth while others take steps.
LEMMA SplitDepthStays ==
  ASSUME IInv, NEW t \in Threads, Step(t), NEW u \in Threads, u # t, pc[u] \in Splitting
  PROVE  local_depth'[target[u]] = local_depth[target[u]]
<1> TypeOK /\ Allocated /\ Locked
  BY DEF IInv
<1>1. target[u] \in 1..nsegs /\ writer[target[u]] = u
  BY TargetType DEF Locked
<1>2. ASSUME FinishSplit(t), target[u] = target[t] PROVE FALSE
  <2>1. writer[target[t]] = t
    BY <1>2 DEF FinishSplit, Locked, Splitting
  <2>2. QED
    BY <1>1, <1>2, <2>1
<1>3. QED
  BY <1>1, <1>2, LocalDepthGrows

\* The segments of a directory are no deeper than it, or than its successors.
LEMMA EntryDepths ==
  ASSUME IInv, TypeOK', NEW t \in Threads, Step(t),
         NEW d \in 1..ndirs', NEW i \in Index, i < Pow2[depth'[d]]
  PROVE  local_depth'[entry'[d][i]] <= depth'[d] \/ local_depth'[entry'[d][i]] <= depth'[dir']
<1> TypeOK /\ Allocated /\ Depths /\ HeldDirectoryIsCurrent /\ Pending
  BY DEF IInv
<1> DEFINE Bounded(g, n) == local_depth[g] <= n \/ local_depth[g] <= depth[dir]
<1>1. d \in Dirs /\ depth'[d] \in Nat
  <2>1. ndirs' \in Nat /\ 1..ndirs' \subseteq Dirs
    BY ConstantAssumption DEF TypeOK, Dirs
  <2>2. d \in Dirs /\ depth'[d] \in 0..HashBits
    BY <2>1 DEF TypeOK
  <2>3. QED
    BY <2>2, HashBitsNat
<1>2. CASE DoubleDirectory(t)
  <2>1. /\ pc[t] = "double" /\ ndirs' = ndirs + 1 /\ nsegs' = nsegs
        /\ depth' = [depth EXCEPT ![ndirs + 1] = depth[dir] + 1]
        /\ entry' = [entry EXCEPT ![ndirs + 1] = Doubled(t)]
    BY <1>2 DEF DoubleDirectory, segVars
  <2>2. CASE d = ndirs + 1
    <3>1. depth'[d] = depth[dir] + 1 /\ entry'[d] = Doubled(t)
      BY <1>1, <2>1, <2>2 DEF TypeOK
    <3>2. dir \in 1..ndirs /\ s[t][1] \in 1..nsegs /\ s[t][2] \in 1..nsegs
      BY <2>1 DEF Allocated, Splitting
    <3>3. depth[dir] \in Nat /\ local_depth[target[t]] = depth[dir]
      <4>1. held[t] = dir
        BY <2>1 DEF HeldDirectoryIsCurrent
      <4>2. QED
        BY <2>1, <4>1, DepthGrows DEF Depths, DepthsOf
    <3>4. Bounded(s[t][1], depth[dir] + 1) /\ Bounded(s[t][2], depth[dir] + 1)
      BY <2>1, <3>3 DEF Depths, DepthsOf, Splitting
    <3>5. ASSUME NEW j \in Index, j < Pow2[depth[dir]]
          PROVE  entry[dir][j] \in 1..nsegs /\ Bounded(entry[dir][j], depth[dir] + 1)
      BY <3>2, <3>3, <3>5 DEF Allocated, Depths, DepthsOf
    <3>6. Doubled(t)[i] \in 1..nsegs /\ Bounded(Doubled(t)[i], depth[dir] + 1)
      BY <2>1, <3>1, <3>2, <3>4, <3>5, DoubledType
    <3>7. QED
      BY <3>1, <3>3, <3>6, BoundStays
  <2>3. CASE d # ndirs + 1
    <3>1. d \in 1..ndirs
      BY <2>1, <2>3, Bounds
    <3>2. depth'[d] = depth[d] /\ entry'[d] = entry[d]
      BY <1>1, <2>1, <2>3 DEF TypeOK
    <3>3. entry[d][i] \in 1..nsegs /\ Bounded(entry[d][i], depth[d])
      BY <3>1, <3>2 DEF Allocated, Depths, DepthsOf
    <3>4. QED
      BY <1>1, <3>2, <3>3, BoundStays
  <2>4. QED
    BY <2>2, <2>3
<1>3. CASE ~ DoubleDirectory(t)
  <2>1. d \in 1..ndirs /\ depth'[d] = depth[d]
    BY <1>3, DirectoryFrame
  <2>2. entry[d][i] \in 1..nsegs /\ Bounded(entry[d][i], depth[d])
    BY <2>1 DEF Allocated, Depths, DepthsOf
  <2>3. CASE entry'[d][i] = entry[d][i]
    BY <1>1, <2>1, <2>2, <2>3, BoundStays
  <2>4. CASE entry'[d][i] # entry[d][i]
    <3>1. /\ pc[t] = "store" /\ stores[t] # <<>>
          /\ entry' = [entry EXCEPT ![dir][Head(stores[t])[1]] = Head(stores[t])[2]]
      BY <1>3, <2>4, DirectoryFrame DEF StoreEntry
    <3>2. entry'[d][i] = Head(stores[t])[2]
      BY <1>1, <2>4, <3>1 DEF TypeOK
    <3>3. Head(stores[t])[2] \in {s[t][1], s[t][2]}
      <4>1. 1 \in DOMAIN stores[t] /\ Head(stores[t]) = stores[t][1]
        BY <3>1, FirstStore
      <4>2. QED
        BY <3>1, <4>1 DEF Pending
    <3>4. s[t][1] \in 1..nsegs /\ s[t][2] \in 1..nsegs
      BY <3>1 DEF Allocated, Splitting
    <3>5. Bounded(s[t][1], depth[d]) /\ Bounded(s[t][2], depth[d])
      <4>1. local_depth[target[t]] < depth[dir]
        BY <3>1 DEF Depths, DepthsOf
      <4>2. local_depth[target[t]] \in Nat /\ depth[dir] \in Nat
        BY <3>1, TargetType, DepthGrows DEF Splitting
      <4>3. local_depth[s[t][1]] \in Nat /\ local_depth[s[t][2]] \in Nat
        BY <3>4, LocalDepthGrows
      <4>4. QED
        BY <3>1, <4>1, <4>2, <4>3 DEF Depths, DepthsOf, Splitting
    <3>6. QED
      BY <1>1, <2>1, <3>2, <3>3, <3>4, <3>5, BoundStays
  <2>5. QED
    BY <2>3, <2>4
<1>4. QED
  BY <1>2, <1>3

\* The step of another thread keeps them.
LEMMA DepthsOfOthers ==
  ASSUME IInv, TypeOK', NEW t \in Threads, Step(t), NEW u \in Threads, u # t
  PROVE  DepthsOf(u)'
<1> TypeOK /\ Allocated /\ Depths /\ Counted
  BY DEF IInv
<1>1. /\ pc'[u] = pc[u] /\ target'[u] = target[u] /\ s'[u] = s[u] /\ held'[u] = held[u]
  BY Others
<1>2. DepthsOf(u)
  BY DEF Depths, DepthsOf
<1>3. /\ depth[dir] \in Nat /\ depth'[dir'] \in Nat /\ depth[dir] <= depth'[dir']
  BY DepthGrows
<1>4. ASSUME pc[u] \in {"try_lock", "check", "scan"} \cup Splitting
      PROVE  local_depth'[target[u]] <= depth'[dir']
  <2>1. target[u] \in 1..nsegs /\ local_depth[target[u]] <= depth[dir]
    BY <1>2, <1>4, TargetType DEF DepthsOf
  <2>2. QED
    BY <1>3, <2>1, BoundStays
<1>5. ASSUME pc[u] \in Splitting
      PROVE  /\ local_depth'[target[u]] = local_depth[target[u]]
             /\ local_depth'[target[u]] < HashBits
             /\ \A i \in {1, 2} : \/ local_depth'[s[u][i]] <= depth'[dir']
                                  \/ local_depth'[s[u][i]] <= local_depth'[target[u]] + 1
  <2>1. local_depth'[target[u]] = local_depth[target[u]]
    BY <1>5, SplitDepthStays
  <2>2. local_depth[target[u]] + 1 \in Nat
    BY <1>5, TargetType, HashBitsNat
  <2>3. s[u][1] \in 1..nsegs /\ s[u][2] \in 1..nsegs
    BY <1>5 DEF Allocated
  <2>4. QED
    BY <1>2, <1>5, <2>1, <2>2, <2>3, BoundStays DEF DepthsOf
<1>6. ASSUME pc[u] \in {"lock_dir", "store", "finish"}
      PROVE  local_depth'[target[u]] < depth'[dir']
  <2>1. local_depth[target[u]] \in Nat /\ local_depth'[target[u]] = local_depth[target[u]]
    BY <1>5, <1>6, TargetType, HashBitsNat DEF Splitting
  <2>2. QED
    BY <1>2, <1>3, <1>6, <2>1 DEF DepthsOf
<1>7. ASSUME pc[u] \in {"suspend", "drain", "double"}
      PROVE  depth'[held[u]] = local_depth'[target[u]]
  BY <1>2, <1>5, <1>7, HeldType, DepthGrows DEF DepthsOf, Splitting
<1>8. ASSUME pc[u] = "publish"
      PROVE  depth'[held[u]] = depth'[dir'] + 1
  <2>1. ~ Publish(t)
    BY <1>8 DEF Publish, Counted, Doublers
  <2>2. dir' = dir /\ dir \in 1..ndirs
    BY <2>1, DirectoryFrame DEF Allocated
  <2>3. QED
    BY <1>2, <1>8, <2>2, HeldType, DepthGrows DEF DepthsOf
<1>9. QED
  BY <1>1, <1>4, <1>5, <1>6, <1>7, <1>8 DEF DepthsOf

\* Its own steps keep them.
LEMMA DepthsOfStep ==
  ASSUME IInv, TypeOK', NEW t \in Threads, Step(t)
  PROVE  DepthsOf(t)'
<1> TypeOK /\ Allocated /\ Depths /\ HeldDirectoryIsCurrent
  BY DEF IInv
<1> USE DEF Goto, Return, Splitting, callVars, splitVars
<1>1. DepthsOf(t)
  BY DEF Depths, DepthsOf
<1>2. CASE \/ AwaitDirectory(t) \/ TryLockFails(t) \/ Put(t) \/ Update(t) \/ Delete(t) \/ Get(t)
           \/ FinishSplit(t)
  <2>1. pc'[t] \in {"retry", "read"}
    BY <1>2 DEF AwaitDirectory, TryLockFails, Put, Update, Delete, Get, FinishSplit, TypeOK
  <2>2. QED
    BY <2>1 DEF DepthsOf
<1>3. CASE ReadTarget(t)
  <2>1. todo[t] # <<>>
    BY <1>3 DEF ReadTarget, Calling, Allocated
  <2>2. local_depth[Route(Key(t))] <= depth[dir]
    BY <2>1, CallType, RouteType
  <2>3. /\ pc'[t] = "try_lock" /\ target'[t] = Route(Key(t))
        /\ local_depth' = local_depth /\ depth' = depth /\ dir' = dir
    BY <1>3 DEF ReadTarget, TypeOK, dirVars, segVars
  <2>4. QED
    BY <2>2, <2>3 DEF DepthsOf
<1>4. CASE LockTarget(t) \/ CheckTarget(t)
  <2>1. /\ pc[t] \in {"try_lock", "check"} /\ pc'[t] \in {"retry", "check", "scan"}
        /\ target' = target /\ local_depth' = local_depth /\ depth' = depth /\ dir' = dir
    BY <1>4 DEF LockTarget, CheckTarget, TypeOK, dirVars, segVars
  <2>2. QED
    BY <1>1, <2>1 DEF DepthsOf
<1>5. CASE Split(t)
  <2>1. /\ pc[t] = "scan" /\ pc'[t] = "dir_retry" /\ target'[t] = target[t]
        /\ depth' = depth /\ dir' = dir /\ local_depth[target[t]] < HashBits
    BY <1>5 DEF Split, TypeOK, dirVars
  <2>2. /\ target[t] \in 1..nsegs /\ target[t] \in Segs /\ local_depth[target[t]] \in Nat
        /\ nsegs \in Nat
    BY <2>1, TargetType, HashBitsNat, Bounds
  <2>3. local_depth'[target[t]] = local_depth[target[t]]
    BY <2>1, <2>2, LocalDepthGrows DEF FinishSplit
  <2>4. ASSUME NEW i \in {1, 2}
        PROVE  local_depth'[s'[t][i]] <= local_depth[target[t]] + 1
    <3>1. CASE INPLACE
      <4>1. s'[t] = <<target[t], nsegs + 1>> /\ nsegs' = nsegs + 1
        BY <1>5, <3>1 DEF Split, TypeOK
      <4>2. nsegs + 1 \in Segs
        BY <4>1 DEF TypeOK
      <4>3. local_depth'[nsegs + 1] = local_depth[target[t]] + 1
        BY <1>5, <3>1, <4>2 DEF Split
      <4>4. QED
        BY <2>2, <2>3, <4>1, <4>3
    <3>2. CASE ~ INPLACE
      <4>1. s'[t] = <<nsegs + 1, nsegs + 2>> /\ nsegs' = nsegs + 2
        BY <1>5, <3>2 DEF Split, TypeOK
      <4>2. nsegs + 1 \in Segs /\ nsegs + 2 \in Segs
        <5>1. nsegs + 2 \in 1..MaxSegs
          BY <4>1 DEF TypeOK, Segs
        <5>2. QED
          BY <2>2, <5>1, ConstantAssumption DEF Segs
      <4>3. /\ local_depth'[nsegs + 1] = local_depth[target[t]] + 1
            /\ local_depth'[nsegs + 2] = local_depth[target[t]] + 1
        BY <1>5, <3>2, <4>2 DEF Split
      <4>4. QED
        BY <2>2, <4>1, <4>3
    <3>3. QED
      BY <3>1, <3>2
  <2>5. QED
    BY <1>1, <2>1, <2>3, <2>4 DEF DepthsOf
<1>6. CASE ReadDirectory(t)
  <2>1. /\ pc[t] = "dir_retry" /\ target' = target /\ s' = s /\ local_depth' = local_depth
        /\ depth' = depth /\ dir' = dir
        /\ \/ /\ pc'[t] = "suspend" /\ held'[t] = dir /\ local_depth[target[t]] = depth[dir]
           \/ pc'[t] = "lock_dir" /\ local_depth[target[t]] # depth[dir]
    BY <1>6 DEF ReadDirectory, TypeOK, dirVars, segVars, target_local_depth
  <2>2. local_depth[target[t]] \in Nat /\ depth[dir] \in Nat
    BY <2>1, TargetType, DepthGrows, HashBitsNat
  <2>3. QED
    BY <1>1, <2>1, <2>2 DEF DepthsOf
<1>7. CASE Suspend(t) \/ Drain(t)
  <2>1. /\ pc[t] \in {"suspend", "drain"} /\ target' = target /\ s' = s
        /\ local_depth' = local_depth /\ depth' = depth /\ dir' = dir
        /\ \/ pc'[t] \in {"drain", "double"} /\ held'[t] = held[t]
           \/ pc'[t] = "dir_retry"
    BY <1>7 DEF Suspend, Drain, TypeOK, dirVars, segVars
  <2>2. QED
    BY <1>1, <2>1 DEF DepthsOf
<1>8. CASE DoubleDirectory(t)
  <2>1. /\ pc[t] = "double" /\ pc'[t] = "publish" /\ target' = target /\ s' = s
        /\ local_depth' = local_depth /\ dir' = dir
        /\ held'[t] = ndirs + 1 /\ ndirs' = ndirs + 1
        /\ depth' = [depth EXCEPT ![ndirs + 1] = depth[dir] + 1]
    BY <1>8 DEF DoubleDirectory, TypeOK, segVars
  <2>2. ndirs + 1 \in Dirs /\ depth'[dir] = depth[dir]
    BY <2>1, DepthGrows DEF TypeOK, Allocated
  <2>3. depth'[ndirs + 1] = depth[dir] + 1
    BY <2>1, <2>2 DEF TypeOK
  <2>4. QED
    BY <1>1, <2>1, <2>2, <2>3 DEF DepthsOf
<1>9. CASE Publish(t)
  <2>1. /\ pc[t] = "publish" /\ pc'[t] \in {"finish", "retry"} /\ target' = target /\ s' = s
        /\ local_depth' = local_depth /\ dir' = held[t] /\ depth' = depth
    BY <1>9 DEF Publish, AfterSplit, TypeOK, segVars
  <2>2. /\ depth'[dir'] = depth[dir] + 1 /\ depth[dir] \in Nat
        /\ local_depth[target[t]] \in Nat /\ local_depth[target[t]] <= depth[dir]
        /\ local_depth[s[t][1]] \in Nat /\ local_depth[s[t][2]] \in Nat
    BY SMTT(60), <1>1, <2>1, TargetType, DepthGrows, LocalDepthGrows, HashBitsNat DEF DepthsOf, Allocated
  <2>3. QED
    BY <1>1, <2>1, <2>2 DEF DepthsOf
<1>10. CASE LockDirectory(t) \/ StoreEntry(t) \/ UnlockDirectory(t)
  <2>1. /\ pc[t] \in {"lock_dir", "store"} /\ pc'[t] \in {"store", "finish", "retry"}
        /\ target' = target /\ s' = s /\ local_depth' = local_depth /\ dir' = dir /\ depth' = depth
    BY <1>10 DEF LockDirectory, StoreEntry, UnlockDirectory, AfterSplit, TypeOK, segVars
  <2>2. QED
    BY <1>1, <2>1 DEF DepthsOf
<1>11. QED
  BY <1>2, <1>3, <1>4, <1>5, <1>6, <1>7, <1>8, <1>9, <1>10 DEF Step

\* Every step keeps the order of the depths.
LEMMA DepthsStep ==
  ASSUME IInv, TypeOK', NEW t \in Threads, Step(t)
  PROVE  Depths'
<1>1. \A u \in Threads : DepthsOf(u)'
  BY DepthsOfOthers, DepthsOfStep
<1>2. QED
  BY <1>1, EntryDepths DEF Depths, DepthsOf

-----------------------------------------------------------------------------
(* The counter of the directory.                                           *)

\* The threads that store can be counted.
LEMMA StorersFinite == IsFiniteSet(Storers) /\ Cardinality(Storers) \in Nat
<1>1. IsFiniteSet(Storers)
  BY FS_Subset, ConstantAssumption DEF Storers
<1>2. QED
  BY <1>1, FS_CardinalityType

\* While somebody doubles the directory its sema is negative.
LEMMA ClosedIsNegative ==
  ASSUME TypeOK, Counted, sema[dir] >= 0
  PROVE  Doublers = {} /\ sema[dir] = Cardinality(Storers)
<1>1. sema[dir] \in Int
  BY DEF TypeOK
<1>2. ASSUME NEW u \in Doublers PROVE FALSE
  <2>1. CASE pc[u] = "drain"
    <3>1. /\ Cardinality(Storers) <= val[u] /\ val[u] \in Nat
          /\ sema[dir] = Cardinality(Storers) - val[u] - 1
      BY <1>2, <2>1 DEF Counted, Doublers, TypeOK
    <3>2. QED
      BY <1>1, <3>1, StorersFinite
  <2>2. CASE pc[u] \in {"double", "publish"}
    BY <1>1, <1>2, <2>2 DEF Counted, Doublers
  <2>3. QED
    BY <1>2, <2>1, <2>2 DEF Doublers
<1>3. QED
  BY <1>2 DEF Counted

\* What a step that has nothing to do with the counter keeps.
Quiet ==
  /\ sema' = sema /\ dir' = dir /\ Storers' = Storers /\ Doublers' = Doublers
  /\ \A u \in Threads :
       /\ pc'[u] \in {"drain", "double", "publish"} =>
             pc'[u] = pc[u] /\ held'[u] = held[u] /\ val'[u] = val[u]
       /\ pc'[u] = "suspend" => held'[u] = dir \/ (pc[u] = "suspend" /\ held'[u] = held[u])
       /\ pc'[u] = "store" => pc[u] = "store" /\ held'[u] = held[u]

\* A quiet step keeps the count.
LEMMA QuietStep ==
  ASSUME IInv, Quiet
  PROVE  Counted' /\ HeldDirectoryIsCurrent'
<1>1. Counted'
  BY DEF Quiet, IInv, Counted
<1>2. HeldDirectoryIsCurrent'
  BY DEF Quiet, IInv, HeldDirectoryIsCurrent
<1>3. QED
  BY <1>1, <1>2

\* Most steps are quiet.
LEMMA QuietActions ==
  ASSUME IInv, NEW t \in Threads, Step(t),
         ~ Drain(t), ~ DoubleDirectory(t), ~ Publish(t),
         ~ LockDirectory(t), ~ UnlockDirectory(t),
         ~ (Suspend(t) /\ sema[held[t]] >= 0)
  PROVE  Quiet
<1> TypeOK
  BY DEF IInv
<1> USE DEF Goto, Return, callVars, splitVars, dirVars
<1>1. sema' = sema /\ dir' = dir /\ val' = val
  BY DEF Step, AwaitDirectory, ReadTarget, LockTarget, TryLockFails, CheckTarget, Put, Update,
     Delete, Get, Split, ReadDirectory, Suspend, StoreEntry, FinishSplit
<1>2. /\ pc[t] \notin {"drain", "double", "publish"} /\ pc'[t] \notin {"drain", "double", "publish"}
      /\ pc[t] = "store" <=> pc'[t] = "store"
      /\ pc'[t] = "store" => held'[t] = held[t]
      /\ pc'[t] = "suspend" => held'[t] = dir
  <2>1. CASE AwaitDirectory(t) \/ ReadTarget(t) \/ LockTarget(t) \/ TryLockFails(t)
    BY <2>1 DEF AwaitDirectory, ReadTarget, LockTarget, TryLockFails, TypeOK
  <2>2. CASE CheckTarget(t) \/ Split(t) \/ FinishSplit(t)
    BY <2>2 DEF CheckTarget, Split, FinishSplit, TypeOK
  <2>3. CASE Put(t) \/ Update(t) \/ Delete(t) \/ Get(t)
    BY <2>3 DEF Put, Update, Delete, Get, TypeOK
  <2>4. CASE ReadDirectory(t) \/ StoreEntry(t)
    BY <2>4 DEF ReadDirectory, StoreEntry, TypeOK
  <2>5. CASE Suspend(t)
    BY <2>5 DEF Suspend, TypeOK
  <2>6. QED
    BY <2>1, <2>2, <2>3, <2>4, <2>5 DEF Step
<1>3. \A u \in Threads : u # t => pc'[u] = pc[u] /\ held'[u] = held[u]
  BY Others
<1>4. Storers' = Storers /\ Doublers' = Doublers
  BY <1>2, <1>3 DEF Storers, Doublers
<1>5. QED
  BY <1>1, <1>2, <1>3, <1>4 DEF Quiet

\* Suspending finds the directory open, so nobody else has suspended it, and reads
\* off `sema` how many threads are storing.
LEMMA SuspendStep ==
  ASSUME IInv, NEW t \in Threads, Suspend(t), sema[held[t]] >= 0
  PROVE  Counted' /\ HeldDirectoryIsCurrent'
<1> TypeOK /\ Counted /\ HeldDirectoryIsCurrent
  BY DEF IInv
<1>1. /\ pc[t] = "suspend" /\ pc' = [pc EXCEPT ![t] = "drain"] /\ held' = held /\ dir' = dir
      /\ val' = [val EXCEPT ![t] = sema[held[t]]] /\ sema' = [sema EXCEPT ![held[t]] = -1]
  BY DEF Suspend, Goto
<1>2. held[t] = dir /\ dir \in Dirs
  <2>1. sema[held[t]] \in Int
    BY <1>1, HeldType DEF IInv
  <2>2. QED
    BY <1>1, <2>1 DEF Counted, TypeOK
<1>3. Doublers = {} /\ sema[dir] = Cardinality(Storers)
  BY <1>2, ClosedIsNegative
<1>4. Storers' = Storers /\ Doublers' = {t}
  BY <1>1, <1>3 DEF Storers, Doublers, TypeOK
<1>5. sema'[dir] = -1 /\ val'[t] = Cardinality(Storers)
  BY <1>1, <1>2, <1>3 DEF TypeOK
<1>6. \A u \in Threads : u # t => pc'[u] = pc[u] /\ pc[u] \notin {"drain", "double", "publish"}
  BY <1>1, <1>3 DEF Doublers, TypeOK
<1>7. \A d \in Dirs : d # dir => sema'[d] = sema[d]
  BY <1>1, <1>2 DEF TypeOK
<1>8. ASSUME NEW u \in Threads
      PROVE  /\ pc'[u] = "drain" => /\ Cardinality(Storers') <= val'[u]
                                   /\ sema'[dir] = Cardinality(Storers') - val'[u] - 1
             /\ pc'[u] \notin {"double", "publish"}
             /\ pc'[u] = "suspend" => held[u] = dir \/ sema'[held[u]] < 0
  <2>1. CASE u = t
    BY <1>1, <1>4, <1>5, <2>1, StorersFinite DEF TypeOK
  <2>2. CASE u # t
    <3>1. pc'[u] = pc[u] /\ pc[u] \notin {"drain", "double", "publish"}
      BY <1>6, <2>2
    <3>2. ASSUME pc[u] = "suspend", held[u] # dir PROVE sema'[held[u]] < 0
      BY <1>7, <3>2, HeldType DEF IInv, Counted
    <3>3. QED
      BY <3>1, <3>2
  <2>3. QED
    BY <2>1, <2>2
<1>9. Counted'
  BY <1>1, <1>4, <1>7, <1>8 DEF Counted
<1>10. HeldDirectoryIsCurrent'
  BY <1>1, <1>2, <1>6 DEF HeldDirectoryIsCurrent, TypeOK
<1>11. QED
  BY <1>9, <1>10

\* When the wait of suspend() is over nobody is storing.
LEMMA DrainStep ==
  ASSUME IInv, NEW t \in Threads, Drain(t)
  PROVE  Counted' /\ HeldDirectoryIsCurrent'
<1> TypeOK /\ Counted /\ HeldDirectoryIsCurrent
  BY DEF IInv
<1>1. /\ pc[t] = "drain" /\ pc' = [pc EXCEPT ![t] = "double"]
      /\ held' = held /\ val' = val /\ dir' = dir /\ sema' = sema
      /\ val[t] = 0 \/ sema[held[t]] = 0 - val[t] - 1
  BY DEF Drain, Goto, dirVars, splitVars
<1>2. /\ held[t] = dir /\ Cardinality(Storers) <= val[t] /\ val[t] \in Nat
      /\ sema[dir] = Cardinality(Storers) - val[t] - 1
  BY <1>1 DEF HeldDirectoryIsCurrent, Counted, TypeOK
<1>3. Cardinality(Storers) = 0 /\ sema[dir] < 0
  BY <1>1, <1>2, StorersFinite
<1>4. Storers = {}
  BY <1>3, StorersFinite, FS_EmptySet
<1>5. Storers' = Storers /\ Doublers' = Doublers
  BY <1>1 DEF Storers, Doublers, TypeOK
<1>6. \A u \in Threads : u # t => pc'[u] = pc[u]
  BY <1>1 DEF TypeOK
<1>7. Counted'
  BY <1>1, <1>3, <1>4, <1>5, <1>6 DEF Counted, TypeOK
<1>8. HeldDirectoryIsCurrent'
  BY <1>1, <1>2, <1>6 DEF HeldDirectoryIsCurrent
<1>9. QED
  BY <1>7, <1>8

\* The next directory starts open, but nobody knows it yet.
LEMMA DoubleStep ==
  ASSUME IInv, NEW t \in Threads, DoubleDirectory(t)
  PROVE  Counted' /\ HeldDirectoryIsCurrent'
<1> TypeOK /\ Allocated /\ Counted /\ HeldDirectoryIsCurrent
  BY DEF IInv
<1>1. /\ pc[t] = "double" /\ pc' = [pc EXCEPT ![t] = "publish"]
      /\ held' = [held EXCEPT ![t] = ndirs + 1] /\ val' = val /\ dir' = dir
      /\ sema' = [sema EXCEPT ![ndirs + 1] = 0] /\ ndirs + 1 <= MaxDirs
  BY DEF DoubleDirectory, Goto
<1>2. /\ ndirs \in Nat /\ dir \in 1..ndirs /\ dir \in Dirs /\ ndirs + 1 \in Dirs
      /\ \A d \in 1..ndirs : d # ndirs + 1
  BY <1>1, Bounds, ConstantAssumption DEF Allocated, Dirs
<1>3. sema'[dir] = sema[dir] /\ sema'[ndirs + 1] = 0
  BY <1>1, <1>2 DEF TypeOK
<1>4. Storers = {} /\ sema[dir] < 0 /\ Doublers = {t}
  BY <1>1 DEF Counted, Doublers
<1>5. Storers' = Storers /\ Doublers' = Doublers
  BY <1>1 DEF Storers, Doublers, TypeOK
<1>6. \A u \in Threads : u # t =>
         pc'[u] = pc[u] /\ held'[u] = held[u] /\ pc[u] \notin {"drain", "double", "publish"}
  BY <1>1, <1>4 DEF Doublers, TypeOK
<1>7. ASSUME NEW d \in Dirs, d # dir PROVE sema'[d] <= 0
  BY <1>1, <1>7 DEF TypeOK, Counted
<1>8. ASSUME NEW u \in Threads, pc'[u] = "suspend"
      PROVE  held'[u] = dir \/ sema'[held'[u]] < 0
  <2>1. u # t /\ pc[u] = "suspend" /\ held'[u] = held[u]
    BY <1>1, <1>6, <1>8 DEF TypeOK
  <2>2. held[u] \in Dirs /\ held[u] # ndirs + 1
    BY <1>2, <2>1, HeldType
  <2>3. QED
    BY <1>1, <2>1, <2>2 DEF Counted, TypeOK
<1>9. Counted'
  <2>1. pc'[t] = "publish" /\ held'[t] = ndirs + 1
    BY <1>1 DEF TypeOK
  <2>2. QED
    BY <1>1, <1>2, <1>3, <1>4, <1>5, <1>6, <1>7, <1>8, <2>1 DEF Counted
<1>10. HeldDirectoryIsCurrent'
  BY <1>1, <1>6 DEF HeldDirectoryIsCurrent, TypeOK
<1>11. QED
  BY <1>9, <1>10

\* Publishing leaves the old directory suspended for ever, and the new one open.
LEMMA PublishStep ==
  ASSUME IInv, NEW t \in Threads, Publish(t)
  PROVE  Counted' /\ HeldDirectoryIsCurrent'
<1> TypeOK /\ Allocated /\ Counted /\ HeldDirectoryIsCurrent
  BY DEF IInv
<1>1. /\ pc[t] = "publish" /\ dir' = held[t] /\ held' = [held EXCEPT ![t] = NULL]
      /\ sema' = sema /\ pc'[t] \in {"finish", "retry"}
      /\ \A u \in Threads : u # t => pc'[u] = pc[u] /\ held'[u] = held[u]
  BY DEF Publish, AfterSplit, Goto, TypeOK
<1>2. /\ Storers = {} /\ sema[dir] < 0 /\ Doublers = {t}
      /\ held[t] # dir /\ sema[held[t]] = 0
  BY <1>1 DEF Counted, Doublers
<1>3. Storers' = {} /\ Doublers' = {}
  BY <1>1, <1>2 DEF Storers, Doublers
<1>4. sema'[dir'] = Cardinality(Storers')
  BY <1>1, <1>2, <1>3, FS_EmptySet
<1>5. ASSUME NEW u \in Threads
      PROVE  /\ pc'[u] \notin {"store", "drain", "double", "publish"}
             /\ pc'[u] = "suspend" => sema'[held'[u]] < 0
  BY <1>1, <1>2, <1>3 DEF Counted, Storers, Doublers
<1>6. ASSUME NEW d \in Dirs, d # dir' PROVE sema'[d] <= 0
  <2>1. sema[dir] \in Int
    BY DEF TypeOK
  <2>2. QED
    BY <1>1, <1>2, <1>6, <2>1 DEF Counted
<1>7. Counted'
  BY <1>3, <1>4, <1>5, <1>6 DEF Counted
<1>8. HeldDirectoryIsCurrent'
  BY <1>5 DEF HeldDirectoryIsCurrent
<1>9. QED
  BY <1>7, <1>8

\* Locking finds the directory open and adds one to those who store.
LEMMA LockStep ==
  ASSUME IInv, NEW t \in Threads, LockDirectory(t)
  PROVE  Counted' /\ HeldDirectoryIsCurrent'
<1> TypeOK /\ Allocated /\ Counted /\ HeldDirectoryIsCurrent
  BY DEF IInv
<1>1. /\ pc[t] = "lock_dir" /\ pc' = [pc EXCEPT ![t] = "store"] /\ sema[dir] > -1
      /\ held' = [held EXCEPT ![t] = dir] /\ val' = val /\ dir' = dir
      /\ sema' = [sema EXCEPT ![dir] = @ + 1]
  BY DEF LockDirectory, Goto
<1>2. dir \in Dirs /\ sema[dir] \in Int
  BY DEF TypeOK
<1>3. Doublers = {} /\ sema[dir] = Cardinality(Storers)
  BY <1>1, <1>2, ClosedIsNegative
<1>4. Storers' = Storers \cup {t} /\ t \notin Storers /\ Doublers' = {}
  BY <1>1, <1>3 DEF Storers, Doublers, TypeOK
<1>5. Cardinality(Storers') = Cardinality(Storers) + 1
  BY <1>4, StorersFinite, FS_AddElement
<1>6. sema'[dir] = Cardinality(Storers') /\ \A d \in Dirs : d # dir => sema'[d] = sema[d]
  BY <1>1, <1>2, <1>3, <1>5 DEF TypeOK
<1>7. ASSUME NEW u \in Threads
      PROVE  /\ pc'[u] \notin {"drain", "double", "publish"}
             /\ pc'[u] = "suspend" => held'[u] = dir \/ sema'[held'[u]] < 0
             /\ pc'[u] = "store" => held'[u] = dir
  <2>1. CASE u = t
    BY <1>1, <2>1 DEF TypeOK
  <2>2. CASE u # t
    <3>1. pc'[u] = pc[u] /\ held'[u] = held[u] /\ pc[u] \notin {"drain", "double", "publish"}
      BY <1>1, <1>3, <2>2 DEF TypeOK, Doublers
    <3>2. ASSUME pc[u] = "suspend", held[u] # dir PROVE sema'[held[u]] < 0
      BY <1>6, <3>2, HeldType DEF Counted
    <3>3. QED
      BY <3>1, <3>2 DEF HeldDirectoryIsCurrent
  <2>3. QED
    BY <2>1, <2>2
<1>8. Counted'
  BY <1>1, <1>4, <1>6, <1>7 DEF Counted
<1>9. HeldDirectoryIsCurrent'
  BY <1>1, <1>7 DEF HeldDirectoryIsCurrent
<1>10. QED
  BY <1>8, <1>9

\* Unlocking takes one off, whether the directory is open or suspended.
LEMMA UnlockStep ==
  ASSUME IInv, NEW t \in Threads, UnlockDirectory(t)
  PROVE  Counted' /\ HeldDirectoryIsCurrent'
<1> TypeOK /\ Allocated /\ Counted /\ HeldDirectoryIsCurrent
  BY DEF IInv
<1>1. /\ pc[t] = "store" /\ pc'[t] \in {"finish", "retry"} /\ val' = val /\ dir' = dir
      /\ \A u \in Threads : u # t => pc'[u] = pc[u] /\ held'[u] = held[u]
      /\ sema' = [sema EXCEPT ![dir] = @ - 1]
  BY DEF UnlockDirectory, AfterSplit, Goto, TypeOK
<1>2. dir \in Dirs /\ sema[dir] \in Int
  BY DEF TypeOK
<1>3. Storers' = Storers \ {t} /\ t \in Storers /\ Doublers' = Doublers
  BY <1>1 DEF Storers, Doublers
<1>4. Cardinality(Storers') = Cardinality(Storers) - 1 /\ Cardinality(Storers) >= 1
  <2>1. Cardinality(Storers') = Cardinality(Storers) - 1
    BY <1>3, StorersFinite, FS_RemoveElement
  <2>2. IsFiniteSet(Storers') /\ Cardinality(Storers') \in Nat
    BY <1>3, StorersFinite, FS_Subset, FS_CardinalityType
  <2>3. QED
    BY <2>1, <2>2, StorersFinite
<1>5. sema'[dir] = sema[dir] - 1 /\ \A d \in Dirs : d # dir => sema'[d] = sema[d]
  BY <1>1, <1>2 DEF TypeOK
<1>6. Doublers' = {} => sema'[dir] = Cardinality(Storers')
  BY <1>2, <1>3, <1>4, <1>5 DEF Counted
<1>7. ASSUME NEW u \in Threads
      PROVE  /\ pc'[u] = "drain" => /\ Cardinality(Storers') <= val[u]
                                   /\ sema'[dir] = Cardinality(Storers') - val[u] - 1
             /\ pc'[u] \notin {"double", "publish"}
             /\ pc'[u] = "suspend" => held'[u] = dir \/ sema'[held'[u]] < 0
             /\ pc'[u] \in {"store", "drain"} => held'[u] = dir
  <2>1. CASE u = t
    BY <1>1, <2>1
  <2>2. CASE u # t
    <3>1. pc'[u] = pc[u] /\ held'[u] = held[u] /\ pc[u] \notin {"double", "publish"}
      BY <1>1, <1>3, <2>2 DEF Counted
    <3>2. ASSUME pc[u] = "drain"
          PROVE  /\ Cardinality(Storers') <= val[u]
                 /\ sema'[dir] = Cardinality(Storers') - val[u] - 1
      <4>1. /\ Cardinality(Storers) <= val[u] /\ val[u] \in Nat
            /\ sema[dir] = Cardinality(Storers) - val[u] - 1
        BY <3>2 DEF Counted, TypeOK
      <4>2. QED
        BY <1>4, <1>5, <4>1, StorersFinite
    <3>3. ASSUME pc[u] = "suspend", held[u] # dir PROVE sema'[held[u]] < 0
      BY <1>5, <3>3, HeldType DEF Counted
    <3>4. QED
      BY <3>1, <3>2, <3>3 DEF HeldDirectoryIsCurrent
  <2>3. QED
    BY <2>1, <2>2
<1>8. Counted'
  BY <1>1, <1>3, <1>5, <1>6, <1>7 DEF Counted
<1>9. HeldDirectoryIsCurrent'
  BY <1>1, <1>7 DEF HeldDirectoryIsCurrent
<1>10. QED
  BY <1>8, <1>9

\* Every step keeps the count, and the threads on the current directory.
LEMMA CountedStep ==
  ASSUME IInv, NEW t \in Threads, Step(t)
  PROVE  Counted' /\ HeldDirectoryIsCurrent'
BY QuietStep, QuietActions, SuspendStep, DrainStep, DoubleStep, PublishStep, LockStep, UnlockStep

-----------------------------------------------------------------------------
(* The redirections.                                                       *)

\* Every step keeps the redirections inside the directory they are for: it does
\* not change while somebody stores to it.
LEMMA PendingStep ==
  ASSUME IInv, TypeOK', NEW t \in Threads, Step(t)
  PROVE  Pending'
<1> TypeOK /\ Allocated /\ Pending /\ Depths /\ Counted
  BY DEF IInv
<1>1. ASSUME NEW u \in Threads, pc'[u] = "store", NEW i \in DOMAIN stores'[u]
      PROVE  /\ stores'[u][i][1] < Pow2[depth'[dir']]
             /\ stores'[u][i][2] \in {s'[u][1], s'[u][2]}
  <2>1. CASE LockDirectory(t) /\ u = t
    <3>1. stores'[t] = CellsOf(t) /\ s' = s /\ depth' = depth /\ dir' = dir /\ pc[t] = "lock_dir"
      BY <2>1 DEF LockDirectory, TypeOK
    <3>2. QED
      BY <1>1, <2>1, <3>1, CellsOfType
  <2>2. CASE ~ (LockDirectory(t) /\ u = t)
    <3>1. pc[u] = "store" /\ s'[u] = s[u]
      <4>1. CASE u = t
        BY <1>1, <2>2, <4>1 DEF Step, AwaitDirectory, ReadTarget, LockTarget, TryLockFails,
           CheckTarget, Put, Update, Delete, Get, Split, ReadDirectory, Suspend, Drain,
           DoubleDirectory, Publish, StoreEntry, UnlockDirectory, FinishSplit, AfterSplit,
           Goto, Return, TypeOK
      <4>2. CASE u # t
        BY <1>1, <4>2, Others
      <4>3. QED
        BY <4>1, <4>2
    <3>2. dir' = dir /\ dir \in 1..ndirs /\ depth'[dir] = depth[dir]
      <4>1. ~ Publish(t)
        BY <3>1 DEF Publish, Counted, Storers
      <4>2. QED
        BY <4>1, DirectoryFrame, DepthGrows DEF Allocated
    <3>3. \E j \in DOMAIN stores[u] : stores'[u][i] = stores[u][j]
      <4>1. CASE StoreEntry(t) /\ u = t
        <5>1. stores'[t] = Tail(stores[t]) /\ stores[t] # <<>>
          BY <4>1 DEF StoreEntry, TypeOK
        <5>2. QED
          BY <1>1, <4>1, <5>1, FirstStore
      <4>2. CASE stores'[u] = stores[u]
        BY <1>1, <4>2
      <4>3. CASE u = t /\ ~ StoreEntry(t)
        <5>1. UnlockDirectory(t)
          BY <3>1, <4>3 DEF Step, AwaitDirectory, ReadTarget, LockTarget, TryLockFails,
             CheckTarget, Put, Update, Delete, Get, Split, ReadDirectory, Suspend, Drain,
             DoubleDirectory, Publish, LockDirectory, FinishSplit
        <5>2. QED
          BY <4>2, <5>1 DEF UnlockDirectory
      <4>4. QED
        BY <4>1, <4>2, <4>3, Others
    <3>4. QED
      BY <3>1, <3>2, <3>3 DEF Pending
  <2>3. QED
    BY <2>1, <2>2
<1>2. QED
  BY <1>1 DEF Pending

-----------------------------------------------------------------------------
(* The copy of the directory.                                              *)

\* Every step keeps the copy: nobody stores to the directory or replaces it while
\* its copy waits to be published.
LEMMA CopiedStep ==
  ASSUME IInv, NEW t \in Threads, Step(t)
  PROVE  Copied'
<1> TypeOK /\ Allocated /\ Counted /\ Copied
  BY DEF IInv
<1>1. ASSUME NEW u \in Threads, pc'[u] = "publish", u # t
      PROVE  entry'[held'[u]] = Doubled(u)'
  <2>1. /\ pc[u] = "publish" /\ held'[u] = held[u] /\ s'[u] = s[u] /\ todo'[u] = todo[u]
    BY <1>1, Others
  <2>2. ~ DoubleDirectory(t) /\ ~ Publish(t)
    BY <1>1, <2>1 DEF DoubleDirectory, Publish, Counted, Doublers
  <2>3. ~ StoreEntry(t)
    BY <2>1 DEF StoreEntry, Counted, Storers
  <2>4. dir' = dir /\ depth' = depth /\ entry' = entry
    BY <2>2, <2>3, DirectoryFrame
  <2>5. Doubled(u)' = Doubled(u)
    BY <2>1, <2>4 DEF Doubled, Key, Call
  <2>6. QED
    BY <2>1, <2>4, <2>5 DEF Copied
<1>2. ASSUME pc'[t] = "publish"
      PROVE  entry'[held'[t]] = Doubled(t)'
  <2>1. DoubleDirectory(t)
    BY <1>2 DEF Step, AwaitDirectory, ReadTarget, LockTarget, TryLockFails,
       CheckTarget, Put, Update, Delete, Get, Split, ReadDirectory, Suspend, Drain,
       Publish, LockDirectory, StoreEntry, UnlockDirectory, FinishSplit, AfterSplit,
       Goto, Return, TypeOK
  <2>2. /\ held' = [held EXCEPT ![t] = ndirs + 1] /\ dir' = dir /\ s' = s /\ todo' = todo
        /\ entry' = [entry EXCEPT ![ndirs + 1] = Doubled(t)] /\ ndirs + 1 <= MaxDirs
        /\ depth' = [depth EXCEPT ![ndirs + 1] = depth[dir] + 1]
    BY <2>1 DEF DoubleDirectory, callVars
  <2>3. ndirs + 1 \in Dirs /\ dir \in Dirs /\ dir # ndirs + 1
    BY <2>2, Bounds, ConstantAssumption DEF Allocated, Dirs
  <2>4. depth'[dir] = depth[dir] /\ entry'[dir] = entry[dir]
    BY <2>2, <2>3 DEF TypeOK
  <2>5. Doubled(t)' = Doubled(t)
    BY <2>2, <2>4 DEF Doubled, Key, Call
  <2>6. QED
    BY <2>2, <2>3, <2>5 DEF TypeOK
<1>3. QED
  BY <1>1, <1>2 DEF Copied

-----------------------------------------------------------------------------
(* What the directory makes sure of.                                       *)

\* The table starts in a state of the invariant.
LEMMA InitIInv == Init => IInv
<1> SUFFICES ASSUME Init PROVE IInv
  OBVIOUS
<1>1. /\ Pow2[InitDepth] \in Nat /\ Pow2[InitDepth] >= 1 /\ Pow2[InitDepth] \in Segs
      /\ InitDepth \in 0..HashBits /\ 1 \in Dirs /\ 0 \in 0..HashBits
  <2>1. InitDepth \in 0..HashBits /\ 0 \in 0..HashBits
    BY ConstantAssumption, HashBitsNat
  <2>2. Pow2[InitDepth] \in Nat /\ Pow2[InitDepth] >= 1
    BY <2>1, Pow2Positive
  <2>3. QED
    BY <2>1, <2>2, ConstantAssumption DEF Segs, Dirs
<1>2. /\ dir = 1 /\ ndirs = 1 /\ nsegs = Pow2[InitDepth] /\ depth[1] = InitDepth
      /\ sema = [d \in Dirs |-> 0] /\ pc = [t \in Threads |-> "retry"]
      /\ depth = [d \in Dirs |-> IF d = 1 THEN InitDepth ELSE 0]
      /\ entry = [d \in Dirs |-> [i \in Index |->
                     IF d = 1 /\ i < Pow2[InitDepth] THEN i + 1 ELSE NULL]]
      /\ local_depth = [g \in Segs |-> IF g <= Pow2[InitDepth] THEN InitDepth ELSE 0]
  BY <1>1 DEF Init
<1>3. ASSUME NEW i \in Index, i < Pow2[InitDepth]
      PROVE  i + 1 \in 1..nsegs /\ i + 1 \in Segs
  <2>1. i \in Nat
    BY DEF Index
  <2>2. i + 1 \in 1..nsegs
    BY <1>1, <1>2, <1>3, <2>1
  <2>3. QED
    BY <1>1, <1>2, <2>2, ConstantAssumption DEF Segs
<1>4. TypeOK
  <2>1. /\ depth \in [Dirs -> 0..HashBits] /\ sema \in [Dirs -> Int]
        /\ local_depth \in [Segs -> 0..HashBits]
    BY <1>1, <1>2
  <2>2. entry \in [Dirs -> [Index -> Segs \cup {NULL}]]
    BY <1>2, <1>3
  <2>3. todo \in [Threads -> Seq(Calls)]
    BY WorkloadAssumption DEF Init
  <2>4. stores \in [Threads -> Seq(Index \X Segs)]
    BY DEF Init
  <2>5. QED
    BY <1>1, <1>2, <2>1, <2>2, <2>3, <2>4 DEF Init, TypeOK
<1>5. Allocated
  BY <1>1, <1>2, <1>3 DEF Allocated, Splitting
<1>6. Locked
  BY <1>2 DEF Locked, Splitting
<1>7. Depths
  <2>1. ASSUME NEW i \in Index, i < Pow2[InitDepth]
        PROVE  local_depth[entry[1][i]] = InitDepth
    <3>1. i \in Nat /\ entry[1][i] = i + 1
      BY <1>1, <1>2, <2>1 DEF Index
    <3>2. i + 1 <= Pow2[InitDepth]
      BY <1>1, <2>1, <3>1
    <3>3. QED
      BY <1>2, <1>3, <2>1, <3>1, <3>2
  <2>2. QED
    BY <1>1, <1>2, <2>1 DEF Depths, DepthsOf, Splitting
<1>8. Counted
  <2>1. Doublers = {} /\ Storers = {}
    BY <1>2 DEF Doublers, Storers
  <2>2. Cardinality(Storers) = 0
    BY <2>1, FS_EmptySet
  <2>3. QED
    BY <1>1, <1>2, <2>1, <2>2 DEF Counted
<1>9. HeldDirectoryIsCurrent /\ Pending /\ Copied
  BY <1>2 DEF HeldDirectoryIsCurrent, Pending, Copied
<1>10. QED
  BY <1>4, <1>5, <1>6, <1>7, <1>8, <1>9 DEF IInv

\* The invariant is inductive.
LEMMA NextIInv == IInv /\ [Next]_vars => IInv'
<1> SUFFICES ASSUME IInv, [Next]_vars PROVE IInv'
  OBVIOUS
<1>1. CASE UNCHANGED vars
  <2>1. TypeOK'
    BY <1>1 DEF IInv, TypeOK, vars, dirVars, segVars, mutexVars, callVars, splitVars
  <2>2. Allocated' /\ Locked' /\ Depths'
    BY <1>1 DEF IInv, Allocated, Locked, Depths, DepthsOf, Calling, Call,
       vars, dirVars, segVars, mutexVars, callVars, splitVars
  <2>3. Storers' = Storers /\ Doublers' = Doublers
    BY <1>1 DEF Storers, Doublers, vars
  <2>4. Counted' /\ HeldDirectoryIsCurrent' /\ Pending' /\ Copied'
    BY <1>1, <2>3 DEF IInv, Counted, HeldDirectoryIsCurrent, Pending, Copied,
       Doubled, Key, Call, vars, dirVars, callVars, splitVars
  <2>5. QED
    BY <2>1, <2>2, <2>4 DEF IInv
<1>2. ASSUME NEW t \in Threads, Step(t) PROVE IInv'
  BY <1>2, TypeStep, AllocatedStep, LockedStep, DepthsStep, CountedStep, PendingStep,
     CopiedStep DEF IInv
<1>3. QED
  BY <1>1, <1>2 DEF Next, Terminated

\* So it is an invariant.
LEMMA Inductive == Spec => []IInv
BY InitIInv, NextIInv, PTL DEF Spec

\* Every variable keeps its type, for any number of threads, keys and hash bits.
THEOREM TypesAreKept == Spec => []TypeOK
<1>1. IInv => TypeOK
  BY DEF IInv
<1>2. QED
  BY <1>1, Inductive, PTL

\* A thread that locked or suspended a directory works on the current one
\* (Insert, lines 291-352).
THEOREM WorkIsOnTheCurrentDirectory == Spec => []HeldDirectoryIsCurrent
<1>1. IInv => HeldDirectoryIsCurrent
  BY DEF IInv
<1>2. QED
  BY <1>1, Inductive, PTL

\* `sema` counts the threads that store to a directory (Directory, lines 58-85).
THEOREM CounterIsRight == Spec => []SemaCountsHolders
<1>1. IInv => SemaCountsHolders
  <2> SUFFICES ASSUME IInv PROVE SemaCountsHolders
    OBVIOUS
  <2> TypeOK /\ Counted /\ HeldDirectoryIsCurrent
    BY DEF IInv
  <2>1. Storing(dir) = Storers /\ \A d \in Dirs : d # dir => Storing(d) = {}
    BY DEF Storing, Storers, HeldDirectoryIsCurrent
  <2>2. ASSUME NEW d \in Dirs, sema[d] >= 0 PROVE sema[d] = Cardinality(Storing(d))
    <3>1. CASE d = dir
      BY <2>1, <2>2, <3>1, ClosedIsNegative
    <3>2. CASE d # dir
      <4>1. sema[d] = 0
        BY <2>2, <3>2 DEF Counted, TypeOK
      <4>2. QED
        BY <2>1, <3>2, <4>1, FS_EmptySet
    <3>3. QED
      BY <3>1, <3>2
  <2>3. ASSUME NEW t \in Threads, pc[t] = "drain"
        PROVE  sema[held[t]] = Cardinality(Storing(held[t])) - val[t] - 1
    BY <2>1, <2>3 DEF Counted, HeldDirectoryIsCurrent
  <2>4. QED
    BY <2>2, <2>3 DEF SemaCountsHolders
<1>2. QED
  BY <1>1, Inductive, PTL

\* Nobody stores to a directory while it is copied (lines 295-311), so no
\* redirection is lost.
THEOREM CopyingIsAlone == Spec => []DoublingIsAlone
<1>1. IInv => DoublingIsAlone
  <2> SUFFICES ASSUME IInv, NEW t \in Threads, pc[t] \in {"double", "publish"}
               PROVE  Storing(dir) = {} /\ Doubling(dir) = {t}
    BY DEF DoublingIsAlone
  <2> Counted /\ HeldDirectoryIsCurrent
    BY DEF IInv
  <2>1. Storers = {} /\ Doublers = {t}
    BY DEF Counted, Doublers
  <2>2. Storing(dir) = {}
    BY <2>1 DEF Storing, Storers
  <2>3. t \in Doubling(dir)
    BY DEF Doubling, HeldDirectoryIsCurrent
  <2>4. QED
    BY <2>1, <2>2, <2>3 DEF Doubling, Doublers
<1>2. QED
  BY <1>1, Inductive, PTL

\* What `dir = _dir` publishes (line 311) routes every key as the directory it
\* replaces did, but the keys of the segment that was split.
THEOREM NewDirectoryKeepsRoutes == Spec => PublishOnlyDeepens
<1> DEFINE Deepens ==
             dir' # dir =>
               /\ depth[dir'] = depth[dir] + 1
               /\ \E t \in Threads : pc[t] = "publish" /\ \A k \in Keys :
                    entry[dir'][Prefix(k, depth[dir'])] =
                      IF Prefix(k, depth[dir]) = Prefix(Key(t), depth[dir])
                      THEN s[t][1 + Bit(k, depth[dir])] ELSE Route(k)
<1>1. IInv /\ [Next]_vars => Deepens
  <2> SUFFICES ASSUME IInv, [Next]_vars, dir' # dir
               PROVE  /\ depth[dir'] = depth[dir] + 1
                      /\ \E t \in Threads : pc[t] = "publish" /\ \A k \in Keys :
                           entry[dir'][Prefix(k, depth[dir'])] =
                             IF Prefix(k, depth[dir]) = Prefix(Key(t), depth[dir])
                             THEN s[t][1 + Bit(k, depth[dir])] ELSE Route(k)
    OBVIOUS
  <2> TypeOK /\ Allocated /\ Depths /\ Copied
    BY DEF IInv
  <2>1. PICK t \in Threads : Publish(t)
    BY DirectoryFrame DEF Next, Terminated, vars, dirVars
  <2>2. /\ pc[t] = "publish" /\ dir' = held[t] /\ entry[held[t]] = Doubled(t)
        /\ depth[held[t]] = depth[dir] + 1
    BY <2>1 DEF Publish, Copied, Depths, DepthsOf
  <2>3. depth[dir] \in 0..HashBits /\ depth[dir] + 1 \in 0..HashBits /\ depth[dir] \in Nat
    <3>1. dir \in Dirs /\ depth[held[t]] \in 0..HashBits
      BY <2>2, HeldType DEF TypeOK
    <3>2. depth[dir] \in 0..HashBits
      BY <3>1 DEF TypeOK
    <3>3. QED
      BY <2>2, <3>1, <3>2, HashBitsNat
  <2>4. ASSUME NEW k \in Keys
        PROVE  Doubled(t)[Prefix(k, depth[dir] + 1)] =
                 IF Prefix(k, depth[dir]) = Prefix(Key(t), depth[dir])
                 THEN s[t][1 + Bit(k, depth[dir])] ELSE Route(k)
    <3> DEFINE i == Prefix(k, depth[dir] + 1)
    <3>1. i \div 2 = Prefix(k, depth[dir]) /\ i % 2 = Bit(k, depth[dir])
      <4>1. depth[dir] + 1 <= HashBits
        BY <2>3, HashBitsNat
      <4>2. QED
        BY <2>3, <4>1, PrefixHalf DEF Bit
    <3>2. i \in Nat /\ i < Pow2[depth[dir] + 1] /\ i \in Index
      BY <2>3, PrefixBound, Pow2Monotonic DEF Index
    <3>3. Pow2[depth[dir] + 1] = 2 * Pow2[depth[dir]]
      <4>1. (depth[dir] + 1) - 1 = depth[dir] /\ depth[dir] + 1 # 0
        BY <2>3
      <4>2. QED
        BY <2>3, <4>1, NextPower
    <3>4. Doubled(t)[i] = IF i \div 2 = Prefix(Key(t), depth[dir]) THEN s[t][1 + (i % 2)]
                          ELSE entry[dir][i \div 2]
      <4> HIDE DEF i
      <4>1. QED
        BY <3>2, <3>3 DEF Doubled
    <3>5. QED
      BY <3>1, <3>4 DEF Route
  <2>5. QED
    BY <2>2, <2>4
<1>2. QED
  BY <1>1, Inductive, PTL DEF Spec, PublishOnlyDeepens

\* No redirection leaves the array of the directory (lines 322-352), whatever the
\* directory became between the comparison of line 293 and lock().
THEOREM RedirectionsAreInBounds == Spec => []StoresInBounds
<1>1. IInv => StoresInBounds
  BY DEF IInv, Pending, StoresInBounds
<1>2. QED
  BY <1>1, Inductive, PTL

-----------------------------------------------------------------------------
(* When splits stay apart.                                                 *)

\* No thread redirects cells to a segment whose own cells another thread is
\* redirecting: the code takes this for granted when it lets any number of
\* threads through Directory::lock (lines 72-79).
SplitsApart ==
  \A t, u \in Threads : t # u /\ pc[t] = "store" /\ pc[u] = "store" =>
     \A i \in DOMAIN stores[t] : stores[t][i][2] # target[u]

-----------------------------------------------------------------------------
(* Prefixes of prefixes.                                                   *)

\* Dividing twice is dividing by the product.
LEMMA DivDiv ==
  ASSUME NEW x \in Nat, NEW p \in Nat, NEW q \in Nat, p >= 1, q >= 1
  PROVE  (x \div p) \div q = x \div (p * q)
<1>1. PICK a \in Nat, r \in 0..(p-1) : a = x \div p /\ x = (p * a) + r
  BY Euclid
<1>2. PICK b \in Nat, c \in 0..(q-1) : b = a \div q /\ a = (q * b) + c
  BY Euclid
<1>3. c \in Nat /\ r \in Nat /\ c + 1 <= q /\ r + 1 <= p /\ p * c \in Nat
  BY <1>1, <1>2
<1>4. p * (c + 1) <= p * q /\ p * (c + 1) = (p * c) + p /\ p * q \in Nat /\ p * q >= 1
  <2>1. \A m, n \in Nat : m <= n => p * m <= p * n
    OBVIOUS
  <2>2. p * (c + 1) <= p * q
    BY <1>3, <2>1
  <2>3. QED
    BY <1>3, <2>2
<1>5. (p * c) + r \in 0..((p * q) - 1)
  <2> DEFINE m == p * c
             n == p * q
  <2>1. m \in Nat /\ n \in Nat /\ m + p <= n
    BY <1>3, <1>4
  <2> HIDE DEF m, n
  <2>2. m + r \in 0..(n - 1)
    BY <1>3, <2>1
  <2>3. QED
    BY <2>2 DEF m, n
<1>6. x = ((p * q) * b) + ((p * c) + r)
  <2>1. p * a = (p * (q * b)) + (p * c)
    BY <1>2
  <2>2. p * (q * b) = (p * q) * b
    OBVIOUS
  <2>3. p * (q * b) \in Nat
    BY <1>2
  <2>4. QED
    BY <1>1, <1>3, <2>1, <2>2, <2>3
<1>7. x \div (p * q) = b
  BY <1>4, <1>5, <1>6, Quotient
<1>8. QED
  BY <1>1, <1>2, <1>7

\* A prefix without its last bits is the shorter prefix.
LEMMA PrefixOfPrefix ==
  ASSUME NEW k \in Keys, NEW D \in 0..HashBits, NEW l \in 0..D
  PROVE  Prefix(k, D) \div Pow2[D - l] = Prefix(k, l)
<1>1. /\ l \in 0..HashBits /\ HashBits - D \in 0..HashBits /\ D - l \in 0..HashBits
      /\ (HashBits - D) + (D - l) = HashBits - l /\ (HashBits - D) + (D - l) <= HashBits
  BY HashBitsNat
<1>2. Pow2[HashBits - l] = Pow2[HashBits - D] * Pow2[D - l]
  BY <1>1, Pow2Product
<1>3. /\ Pow2[HashBits - D] \in Nat /\ Pow2[HashBits - D] >= 1
      /\ Pow2[D - l] \in Nat /\ Pow2[D - l] >= 1
  BY <1>1, Pow2Positive
<1>4. Hash[k] \in Nat
  BY ConstantAssumption
<1>5. QED
  BY <1>2, <1>3, <1>4, DivDiv DEF Prefix

\* One more bit of a prefix.
LEMMA PrefixBit ==
  ASSUME NEW k \in Keys, NEW l \in 0..HashBits, l < HashBits
  PROVE  /\ Prefix(k, l) \in Nat /\ Bit(k, l) \in {0, 1}
         /\ Prefix(k, l + 1) = (2 * Prefix(k, l)) + Bit(k, l)
<1>1. l + 1 \in 0..HashBits /\ l + 1 <= HashBits
  BY HashBitsNat
<1>2. PICK x \in Nat : x = Prefix(k, l + 1)
  BY <1>1, PrefixBound
<1>3. Prefix(k, l) = x \div 2 /\ Bit(k, l) = x % 2
  BY <1>1, <1>2, PrefixHalf DEF Bit
<1>4. x \div 2 \in Nat /\ x % 2 \in {0, 1} /\ x = (2 * (x \div 2)) + (x % 2)
  BY <1>2
<1>5. QED
  BY <1>2, <1>3, <1>4

\* Two keys agree on one more bit when they agree on that bit.
LEMMA MoreBits ==
  ASSUME NEW j \in Keys, NEW k \in Keys, NEW l \in 0..HashBits, l < HashBits
  PROVE  Prefix(j, l + 1) = Prefix(k, l + 1)
           <=> Prefix(j, l) = Prefix(k, l) /\ Bit(j, l) = Bit(k, l)
<1>1. PICK a \in Nat, b \in {0, 1} : a = Prefix(j, l) /\ b = Bit(j, l) /\ Prefix(j, l + 1) = (2 * a) + b
  BY PrefixBit
<1>2. PICK c \in Nat, d \in {0, 1} : c = Prefix(k, l) /\ d = Bit(k, l) /\ Prefix(k, l + 1) = (2 * c) + d
  BY PrefixBit
<1>3. QED
  BY <1>1, <1>2

-----------------------------------------------------------------------------
\* The half of the segment t splits that key k belongs to.
Half(t, k) == s[t][1 + Bit(k, local_depth[target[t]])]

\* The cells a split redirects are those of the segment that belong to a new
\* half of it, each once: all of them, or INPLACE those of the right half.
LEMMA CellsOfTarget ==
  ASSUME IInv, NEW t \in Threads, pc[t] = "lock_dir"
  PROVE  LET l == local_depth[target[t]]
             half == Pow2[depth[dir] - (l + 1)]
             a == Prefix(Key(t), l)
             cs == CellsOf(t)
         IN  /\ a \in Nat /\ half \in Nat /\ half >= 1
             /\ Pow2[depth[dir] - l] = 2 * half
             /\ \A i, j \in DOMAIN cs : cs[i][1] = cs[j][1] => i = j
             /\ \A c \in Nat : \A g :
                  (\E i \in DOMAIN cs : cs[i][1] = c /\ cs[i][2] = g) <=>
                      \/ c \div half = (2 * a) + 1 /\ g = s[t][2]
                      \/ ~ INPLACE /\ c \div half = 2 * a /\ g = s[t][1]
<1> DEFINE D == depth[dir]
           l == target_local_depth(t)
           x == Prefix(Key(t), D)
           loc == x - (x % Pow2[D - l])
           half == Pow2[D - l] \div 2
           cells(from, seg) == [i \in 1..half |-> <<from + i - 1, seg>>]
           right == cells(loc + half, s[t][2])
           left == cells(loc, s[t][1])
<1>1. /\ D \in 0..HashBits /\ l \in 0..HashBits /\ l < D /\ l < HashBits /\ l \in 0..D
      /\ l + 1 \in 0..HashBits /\ l + 1 \in 0..D /\ D - (l + 1) = (D - l) - 1
  <2>1. dir \in Dirs
    BY DEF IInv, TypeOK
  <2>2. l < D
    BY DEF IInv, Depths, DepthsOf, target_local_depth
  <2>3. D \in 0..HashBits /\ l \in 0..HashBits
    BY <2>1, TargetType DEF IInv, TypeOK, Splitting, target_local_depth
  <2> HIDE DEF D, l
  <2>4. QED
    BY <2>2, <2>3, HashBitsNat
<1>2. Key(t) \in Keys
  BY CallType DEF IInv, Allocated
<1>3. /\ half \in Nat /\ half >= 1 /\ Pow2[D - l] = 2 * half
      /\ half = Pow2[D - (l + 1)]
  <2> HIDE DEF D, l
  <2>1. D - l \in 0..HashBits /\ D - l # 0 /\ (D - l) - 1 \in 0..HashBits
    BY <1>1, HashBitsNat
  <2>2. PICK h \in Nat : h = Pow2[(D - l) - 1] /\ h >= 1
    BY <2>1, Pow2Positive
  <2>3. Pow2[D - l] = 2 * h
    BY <2>1, <2>2, NextPower
  <2>4. (2 * h) \div 2 = h
    BY <2>2
  <2>5. QED
    BY <1>1, <2>2, <2>3, <2>4
<1>4. PICK a \in Nat : /\ a = Prefix(Key(t), l)
                       /\ loc = half * (2 * a)
                       /\ loc + half = half * ((2 * a) + 1)
                       /\ loc \in Nat
  <2> HIDE DEF D, l, half
  <2>1. PICK y \in Nat : y = x
    BY <1>1, <1>2, PrefixBound
  <2>2. PICK st \in Nat : st = Pow2[D - l] /\ st >= 1 /\ st = 2 * half
    BY <1>3
  <2>3. PICK b \in Nat, r \in 0..(st-1) : b = y \div st /\ r = y % st /\ y = (st * b) + r
    <3>1. y \div st \in Nat /\ y % st \in 0..(st-1) /\ y = (st * (y \div st)) + (y % st)
      BY <2>1, <2>2, Euclid
    <3>2. QED
      BY <3>1, Zenon
  <2>4. b = Prefix(Key(t), l)
    BY <1>1, <1>2, <2>1, <2>2, <2>3, PrefixOfPrefix
  <2>5. loc = st * b
    <3>1. st * b \in Nat
      <4>1. \A m, n \in Nat : m * n \in Nat
        OBVIOUS
      <4>2. QED
        BY <4>1
    <3>2. y - r = st * b
      BY <2>3, <3>1
    <3>3. QED
      BY <2>1, <2>2, <2>3, <3>2
  <2>6. st * b = half * (2 * b) /\ half * ((2 * b) + 1) = (half * (2 * b)) + half /\ half * (2 * b) \in Nat
    <3>1. \A m, n \in Nat : /\ (2 * m) * n = m * (2 * n) /\ m * (2 * n) \in Nat
                          /\ m * ((2 * n) + 1) = (m * (2 * n)) + m
      OBVIOUS
    <3>2. QED
      BY <1>3, <2>2, <3>1
  <2>7. QED
    BY <2>3, <2>4, <2>5, <2>6
<1>5. PICK A \in Nat : A = loc
  BY <1>4
<1>6. ASSUME NEW y \in Nat
      PROVE  /\ y \div half = (2 * a) + 1 <=> \E i \in 1..half : A + half + i - 1 = y
             /\ y \div half = 2 * a <=> \E i \in 1..half : A + i - 1 = y
  <2> HIDE DEF D, l, half, loc
  <2>0. PICK h \in Nat : h = half /\ h >= 1
    BY <1>3
  <2>1. PICK r \in 0..(h-1), q \in Nat :
          h = half /\ h >= 1 /\ q = y \div h /\ y = (h * q) + r
    <3>1. y \div half \in Nat /\ y % half \in 0..(half-1) /\ y = (half * (y \div half)) + (y % half)
      BY ZenonT(30), <1>3, Euclid
    <3>2. QED
      BY <2>0, <3>1
  <2>2. A = h * (2 * a) /\ A + h = h * ((2 * a) + 1) /\ 2 * a \in Nat /\ (2 * a) + 1 \in Nat
    BY <1>4, <1>5, <2>1
  <2>3. ASSUME NEW i \in 1..h, NEW m \in Nat, NEW B \in Nat, B = h * m, B + i - 1 = y
        PROVE  q = m
    <3>1. i - 1 \in 0..(h-1) /\ B + i - 1 = B + (i - 1)
      BY <2>1
    <3>2. y = (h * m) + (i - 1)
      BY <2>3, <3>1
    <3>3. y \div h = m
      BY ZenonT(30), <2>1, <3>1, <3>2, Quotient
    <3>4. QED
      BY <2>1, <3>3
  <2>4. ASSUME NEW B \in Nat, B = h * q PROVE r + 1 \in 1..h /\ B + (r + 1) - 1 = y
    BY <2>1, <2>4
  <2>5. A + h \in Nat
    OBVIOUS
  <2>6. QED
    <3>1. q = (2 * a) + 1 <=> \E i \in 1..h : A + h + i - 1 = y
      BY <2>2, <2>3, <2>4, <2>5
    <3>2. q = 2 * a <=> \E i \in 1..h : A + i - 1 = y
      BY <2>2, <2>3, <2>4
    <3>3. QED
      BY <2>1, <3>1, <3>2
<1>7. s[t][1] \in Segs /\ s[t][2] \in Segs
  BY Bounds DEF IInv, Allocated, Splitting
<1>8. CellsOf(t) = right \o (IF INPLACE THEN <<>> ELSE left)
  BY DEF CellsOf
<1>9. /\ CellsOf(t) \in Seq(Index \X Segs)
      /\ Len(CellsOf(t)) = IF INPLACE THEN half ELSE half + half
      /\ \A i \in 1..half : CellsOf(t)[i] = <<A + half + i - 1, s[t][2]>>
      /\ ~ INPLACE => \A i \in 1..half : CellsOf(t)[half + i] = <<A + i - 1, s[t][1]>>
  <2> CellsOf(t) \in Seq(Index \X Segs)
    BY CellsOfType
  <2>1. /\ right \in Seq(Nat \X Segs) /\ Len(right) = half
        /\ left \in Seq(Nat \X Segs) /\ Len(left) = half
        /\ \A i \in 1..half : /\ right[i] = <<A + half + i - 1, s[t][2]>>
                              /\ left[i] = <<A + i - 1, s[t][1]>>
    <3>1. \A i \in 1..half : A + half + i - 1 \in Nat /\ A + i - 1 \in Nat
      <4> HIDE DEF half
      <4>1. QED
        BY <1>3
    <3> HIDE DEF half, loc, D, l
    <3>2. loc = A
      BY <1>5
    <3>3. /\ right = [i \in 1..half |-> <<A + half + i - 1, s[t][2]>>]
          /\ left = [i \in 1..half |-> <<A + i - 1, s[t][1]>>]
      BY <3>2 DEF right, left
    <3>4. /\ [i \in 1..half |-> <<A + half + i - 1, s[t][2]>>] \in [1..half -> Nat \X Segs]
          /\ [i \in 1..half |-> <<A + i - 1, s[t][1]>>] \in [1..half -> Nat \X Segs]
      BY <1>7, <3>1, Zenon
    <3> HIDE DEF right, left
    <3>5. /\ DOMAIN right = 1..half /\ DOMAIN left = 1..half
          /\ \A i \in 1..half : /\ right[i] = <<A + half + i - 1, s[t][2]>>
                                /\ left[i] = <<A + i - 1, s[t][1]>>
      BY <3>3
    <3>6. right \in Seq(Nat \X Segs) /\ left \in Seq(Nat \X Segs)
      <4>1. right \in [1..half -> Nat \X Segs] /\ left \in [1..half -> Nat \X Segs]
        BY <3>3, <3>4, Zenon
      <4>2. \A S : \A n \in Nat : [1..n -> S] \subseteq Seq(S)
        BY SeqDef
      <4>3. half \in Nat
        BY <1>3
      <4>4. [1..half -> Nat \X Segs] \subseteq Seq(Nat \X Segs)
        BY <4>2, <4>3, Zenon
      <4>5. QED
        BY <4>1, <4>4, Zenon
    <3>7. Len(right) = half /\ Len(left) = half
      BY <1>3, <3>5, <3>6
    <3>8. QED
      BY <3>5, <3>6, <3>7
  <2> HIDE DEF right, left, half, D
  <2>2. CASE INPLACE
    <3>1. CellsOf(t) = right
      BY <2>1, <1>8, <2>2
    <3>2. QED
      BY <2>1, <3>1, <2>2
  <2>3. CASE ~ INPLACE
    <3>1. CellsOf(t) = right \o left
      BY <2>1, <1>8, <2>3
    <3>2. Len(CellsOf(t)) = half + half
      BY ZenonT(60), <2>1, <3>1, ConcatProperties
    <3>3. ASSUME NEW i \in 1..(half + half)
          PROVE  CellsOf(t)[i] = IF i <= half THEN right[i] ELSE left[i - half]
      <4>1. /\ right \in Seq(Nat \X Segs) /\ Len(right) = half
            /\ left \in Seq(Nat \X Segs) /\ Len(left) = half
        BY <2>1
      <4>2. QED
        BY SMTT(30), <3>1, <4>1, ConcatProperties
    <3>4. ASSUME NEW i \in 1..half
          PROVE  /\ i \in 1..(half + half) /\ i <= half
                 /\ half + i \in 1..(half + half) /\ ~ (half + i <= half) /\ (half + i) - half = i
      BY <1>3
    <3>5. \A i \in 1..half : CellsOf(t)[i] = right[i] /\ CellsOf(t)[half + i] = left[i]
      BY <3>3, <3>4
    <3>6. QED
      BY <2>1, <2>3, <3>2, <3>5
  <2>4. QED
    BY <2>2, <2>3
<1>10. ASSUME NEW i \in DOMAIN CellsOf(t)
       PROVE  \/ i \in 1..half /\ CellsOf(t)[i] = <<A + half + i - 1, s[t][2]>>
              \/ /\ ~ INPLACE
                 /\ i \in (half+1)..(half+half) /\ i - half \in 1..half
                 /\ CellsOf(t)[i] = <<A + (i - half) - 1, s[t][1]>>
  <2> HIDE DEF half
  <2>1. i \in 1..Len(CellsOf(t))
    BY <1>9
  <2>2. CASE i \in 1..half
    BY <1>9, <2>2
  <2>3. CASE i \notin 1..half
    <3>1. ~ INPLACE /\ i \in (half+1)..(half+half) /\ i - half \in 1..half /\ half + (i - half) = i
      BY SMTT(30), <1>3, <1>9, <2>1, <2>3
    <3>2. QED
      BY <1>9, <3>1
  <2>4. QED
    BY <2>2, <2>3
<1>11. ASSUME NEW i \in DOMAIN CellsOf(t), NEW j \in DOMAIN CellsOf(t),
              CellsOf(t)[i][1] = CellsOf(t)[j][1]
       PROVE  i = j
  <2> HIDE DEF half
  <2>1. /\ CellsOf(t)[i][1] = IF i \in 1..half THEN A + half + i - 1 ELSE A + (i - half) - 1
        /\ CellsOf(t)[j][1] = IF j \in 1..half THEN A + half + j - 1 ELSE A + (j - half) - 1
        /\ i \in 1..half \/ i \in (half+1)..(half+half)
        /\ j \in 1..half \/ j \in (half+1)..(half+half)
    <3>1. \A m \in (half+1)..(half+half) : m \notin 1..half
      BY <1>3
    <3>2. QED
      BY <1>10, <3>1
  <2>2. PICK h \in Nat : h = half
    BY <1>3
  <2>3. i \in Int /\ j \in Int /\ \A m \in (h+1)..(h+h) : m \notin 1..h
    BY <2>1, <2>2
  <2>4. (IF i \in 1..h THEN A + h + i - 1 ELSE A + (i - h) - 1)
          = (IF j \in 1..h THEN A + h + j - 1 ELSE A + (j - h) - 1)
    BY <1>11, <2>1, <2>2, Zenon
  <2>5. i \in 1..h \/ i \in (h+1)..(h+h)
    BY <2>1, <2>2
  <2>6. j \in 1..h \/ j \in (h+1)..(h+h)
    BY <2>1, <2>2
  <2>7. QED
    BY <2>3, <2>4, <2>5, <2>6
<1>12. ASSUME NEW c \in Nat, NEW g
       PROVE  (\E i \in DOMAIN CellsOf(t) : CellsOf(t)[i][1] = c /\ CellsOf(t)[i][2] = g) <=>
                 \/ c \div half = (2 * a) + 1 /\ g = s[t][2]
                 \/ ~ INPLACE /\ c \div half = 2 * a /\ g = s[t][1]
  <2>1. DOMAIN CellsOf(t) = 1..(IF INPLACE THEN half ELSE half + half)
    BY <1>9
  <2> HIDE DEF half, D, l
  <2>2. ASSUME NEW i \in DOMAIN CellsOf(t), CellsOf(t)[i][1] = c, CellsOf(t)[i][2] = g
        PROVE  \/ c \div half = (2 * a) + 1 /\ g = s[t][2]
               \/ ~ INPLACE /\ c \div half = 2 * a /\ g = s[t][1]
    <3>1. CASE i \in 1..half /\ CellsOf(t)[i] = <<A + half + i - 1, s[t][2]>>
      BY <1>6, <2>2, <3>1
    <3>2. CASE /\ ~ INPLACE
               /\ i \in (half+1)..(half+half) /\ i - half \in 1..half
               /\ CellsOf(t)[i] = <<A + (i - half) - 1, s[t][1]>>
      BY <1>6, <2>2, <3>2
    <3>3. QED
      BY <1>10, <3>1, <3>2
  <2>3. ASSUME c \div half = (2 * a) + 1, g = s[t][2]
        PROVE  \E i \in DOMAIN CellsOf(t) : CellsOf(t)[i][1] = c /\ CellsOf(t)[i][2] = g
    <3>1. PICK i \in 1..half : A + half + i - 1 = c
      BY <1>6, <2>3
    <3>2. i \in DOMAIN CellsOf(t)
      BY <1>3, <2>1
    <3>3. CellsOf(t)[i] = <<A + half + i - 1, s[t][2]>>
      BY <1>9
    <3>4. CellsOf(t)[i] = <<c, g>>
      BY <2>3, <3>1, <3>3
    <3>5. QED
      BY <3>2, <3>4
  <2>4. ASSUME ~ INPLACE, c \div half = 2 * a, g = s[t][1]
        PROVE  \E i \in DOMAIN CellsOf(t) : CellsOf(t)[i][1] = c /\ CellsOf(t)[i][2] = g
    <3>1. PICK i \in 1..half : A + i - 1 = c
      BY <1>6, <2>4
    <3>2. half + i \in DOMAIN CellsOf(t)
      BY <1>3, <2>1, <2>4
    <3>3. CellsOf(t)[half + i] = <<A + i - 1, s[t][1]>>
      BY <1>9, <2>4
    <3>4. CellsOf(t)[half + i] = <<c, g>>
      BY <2>4, <3>1, <3>3
    <3>5. QED
      BY <3>2, <3>4
  <2>5. QED
    BY <2>2, <2>3, <2>4
<1>13. l = local_depth[target[t]]
  BY DEF target_local_depth
<1>14. QED
  <2> HIDE DEF half, D, l
  <2>1. /\ a = Prefix(Key(t), local_depth[target[t]]) /\ D = depth[dir]
        /\ half = Pow2[depth[dir] - (local_depth[target[t]] + 1)]
        /\ Pow2[depth[dir] - local_depth[target[t]]] = 2 * half
    BY <1>3, <1>4, <1>13 DEF D
  <2>2. QED
    BY <1>3, <1>11, <1>12, <2>1

\* The segment of a key's cell is split at the bit the key's prefix goes on with.
LEMMA CellsOfKeys ==
  ASSUME IInv, NEW t \in Threads, pc[t] = "lock_dir"
  PROVE  LET l == local_depth[target[t]]
             cs == CellsOf(t)
             Moved(k) == /\ Prefix(k, l) = Prefix(Key(t), l)
                         /\ INPLACE => Bit(k, l) = 1
         IN  /\ \A i, j \in DOMAIN cs : cs[i][1] = cs[j][1] => i = j
             /\ \A i \in DOMAIN cs, k \in Keys : cs[i][1] = Prefix(k, depth[dir]) =>
                   Moved(k) /\ cs[i][2] = Half(t, k)
             /\ \A k \in Keys : Moved(k) =>
                   \E i \in DOMAIN cs : cs[i][1] = Prefix(k, depth[dir])
<1> DEFINE D == depth[dir]
           l == local_depth[target[t]]
           cs == CellsOf(t)
           half == Pow2[D - (l + 1)]
           a == Prefix(Key(t), l)
<1>1. D \in 0..HashBits /\ l \in 0..HashBits /\ l < HashBits /\ l + 1 \in 0..D
  <2>1. dir \in Dirs
    BY DEF IInv, TypeOK
  <2>2. l < D
    BY DEF IInv, Depths, DepthsOf
  <2>3. D \in 0..HashBits /\ l \in 0..HashBits
    BY <2>1, TargetType DEF IInv, TypeOK, Splitting
  <2> HIDE DEF D, l
  <2>4. QED
    BY <2>2, <2>3, HashBitsNat
<1>2. /\ a \in Nat
      /\ \A i, j \in DOMAIN cs : cs[i][1] = cs[j][1] => i = j
      /\ \A c \in Nat : \A g :
           (\E i \in DOMAIN cs : cs[i][1] = c /\ cs[i][2] = g) <=>
               \/ c \div half = (2 * a) + 1 /\ g = s[t][2]
               \/ ~ INPLACE /\ c \div half = 2 * a /\ g = s[t][1]
  BY CellsOfTarget
<1>3. \A k \in Keys : Half(t, k) = s[t][1 + Bit(k, l)]
  BY DEF Half
<1> HIDE DEF D, l, cs, half, a
<1>4. ASSUME NEW k \in Keys
      PROVE  /\ Prefix(k, D) \in Nat /\ Bit(k, l) \in {0, 1}
             /\ Prefix(k, D) \div half = (2 * a) + 1 <=> Prefix(k, l) = a /\ Bit(k, l) = 1
             /\ Prefix(k, D) \div half = 2 * a <=> Prefix(k, l) = a /\ Bit(k, l) = 0
  <2>1. Prefix(k, D) \in Nat
    BY <1>1, PrefixBound
  <2>2. Prefix(k, D) \div half = Prefix(k, l + 1)
    BY <1>1, PrefixOfPrefix DEF half
  <2>3. PICK b \in Nat, e \in {0, 1} :
          b = Prefix(k, l) /\ e = Bit(k, l) /\ Prefix(k, l + 1) = (2 * b) + e
    BY <1>1, PrefixBit
  <2>4. QED
    BY <1>2, <2>1, <2>2, <2>3
<1>5. ASSUME NEW i \in DOMAIN cs, NEW k \in Keys, cs[i][1] = Prefix(k, D)
      PROVE  /\ Prefix(k, l) = a /\ (INPLACE => Bit(k, l) = 1)
             /\ cs[i][2] = s[t][1 + Bit(k, l)]
  <2>1. PICK y, g : y = Prefix(k, D) /\ g = cs[i][2]
    OBVIOUS
  <2>2. y \in Nat /\ \E j \in DOMAIN cs : cs[j][1] = y /\ cs[j][2] = g
    BY <1>4, <1>5, <2>1
  <2>3. \/ y \div half = (2 * a) + 1 /\ g = s[t][2]
        \/ ~ INPLACE /\ y \div half = 2 * a /\ g = s[t][1]
    BY <1>2, <2>2
  <2>4. QED
    BY <1>4, <2>1, <2>3
<1>6. ASSUME NEW k \in Keys, Prefix(k, l) = a, INPLACE => Bit(k, l) = 1
      PROVE  \E i \in DOMAIN cs : cs[i][1] = Prefix(k, D)
  <2>1. PICK y \in Nat : y = Prefix(k, D)
    BY <1>4
  <2>2. \/ y \div half = (2 * a) + 1
        \/ ~ INPLACE /\ y \div half = 2 * a
    BY <1>4, <1>6, <2>1
  <2>3. \E g : \E i \in DOMAIN cs : cs[i][1] = y /\ cs[i][2] = g
    <3>1. CASE y \div half = (2 * a) + 1
      <4>1. PICK g : g = s[t][2]
        OBVIOUS
      <4>2. \E i \in DOMAIN cs : cs[i][1] = y /\ cs[i][2] = g
        BY <1>2, <3>1, <4>1
      <4>3. QED
        BY <4>2
    <3>2. CASE ~ INPLACE /\ y \div half = 2 * a
      <4>1. PICK g : g = s[t][1]
        OBVIOUS
      <4>2. \E i \in DOMAIN cs : cs[i][1] = y /\ cs[i][2] = g
        BY <1>2, <3>2, <4>1
      <4>3. QED
        BY <4>2
    <3>3. QED
      BY <2>2, <3>1, <3>2
  <2>4. QED
    BY <2>1, <2>3
<1>7. QED
  BY <1>2, <1>3, <1>5, <1>6 DEF D, l, cs, a

-----------------------------------------------------------------------------
(* The inductive invariant.                                                *)

\* The steps of a split before it becomes visible to the other threads.
Preparing == {"dir_retry", "suspend", "drain", "double", "publish", "lock_dir"}

\* The keys whose cell t still has to redirect.
Redirects(t) ==
  {k \in Keys : pc[t] = "store" /\
     \E i \in DOMAIN stores[t] : stores[t][i][1] = Prefix(k, depth[dir])}

\* The segments t has allocated for the split it is at.
NewHalves(t) == {s[t][2]} \cup (IF INPLACE THEN {} ELSE {s[t][1]})

\* The segment key k is routed to once all the redirections under way are done is g.
Heads(k, g) == \/ \E t \in Threads : k \in Redirects(t) /\ g = Half(t, k)
               \/ Route(k) = g /\ \A t \in Threads : k \notin Redirects(t)

\* The depth a segment has once the INPLACE split of it that is under way is done.
DepthToBe(g) ==
  IF INPLACE /\ \E t \in Threads : pc[t] \in {"store", "finish"} /\ target[t] = g
  THEN local_depth[g] + 1 ELSE local_depth[g]

\* A redirection that is still to be done is of a key of the thread's segment to
\* that key's half of it, which no thread is done splitting.
Redirecting ==
  \A t \in Threads : pc[t] = "store" =>
     /\ \A i, j \in DOMAIN stores[t] : stores[t][i][1] = stores[t][j][1] => i = j
     /\ \A k \in Redirects(t) :
          /\ Route(k) = target[t] /\ Half(t, k) \in NewHalves(t)
          /\ local_depth[Half(t, k)] = local_depth[target[t]] + 1
          /\ \A i \in DOMAIN stores[t] : stores[t][i][1] = Prefix(k, depth[dir]) =>
                stores[t][i][2] = Half(t, k)
          /\ \A u \in Threads : pc[u] \in {"store", "finish"} => Half(t, k) # target[u]

\* The halves of a segment are two; INPLACE the left one is the segment itself.
Halves ==
  \A t \in Threads : pc[t] \in Splitting =>
     s[t][1] # s[t][2] /\ (INPLACE => s[t][1] = target[t])

\* What a split allocated is known to its thread only until it is routed to.
Unborn ==
  \A t \in Threads : pc[t] \in Preparing => \A h \in NewHalves(t) :
     /\ local_depth[h] = local_depth[target[t]] + 1
     /\ \A k \in Keys : ~ Heads(k, h) /\ Route(k) # h
     /\ \A u \in Threads :
          /\ pc[u] \notin {"retry", "read"} => target[u] # h
          /\ u # t /\ pc[u] \in Preparing => h \notin NewHalves(u)

\* The segment a thread works on is the one its key is routed to.
Current ==
  \A t \in Threads : pc[t] \in {"scan"} \cup Preparing => target[t] = Route(Key(t))

\* A segment is the destination of all the keys of one prefix, or of none.
Blocks ==
  \A g \in Segs : \A k \in Keys : Heads(k, g) =>
    \A l \in Keys : Heads(l, g) <=> Prefix(l, DepthToBe(g)) = Prefix(k, DepthToBe(g))

Busy(t, g) == target[t] = g /\ pc[t] \in {"check", "scan"} \cup Splitting

\* Nobody is led to g any more.
Orphaned(g) ==
  /\ \A k \in Keys : Route(k) # g /\ ~ Heads(k, g)
  /\ \A u \in Threads : pc[u] \in Preparing => g \notin NewHalves(u)

\* A locked segment has no readers, and its owner is at work on it unless it is
\* one that nobody is led to any more.
Locking ==
  \A g \in Segs : writer[g] # Nobody =>
    readers[g] = {} /\ g <= nsegs /\ (Busy(writer[g], g) \/ Orphaned(g))

\* A Get past LockTarget has its segment locked shared.
Reading ==
  \A t \in Threads : pc[t] \in {"check", "scan"} /\ Calling(t, "Get") =>
     t \in readers[target[t]]

\* Without INPLACE, no key stays with the segment that was split.
Abandoned ==
  ~ INPLACE => \A t \in Threads :
    pc[t] # "finish" /\ (pc[t] = "store" => \A k \in Keys : ~ Heads(k, target[t]))

\* The pairs of k in the segment that is split and in k's half of it are the same,
\* until k's cell has been redirected.
Copies ==
  \A t \in Threads : \A k \in Keys : pc[t] \in Preparing \/ k \in Redirects(t) =>
     Matching(Half(t, k), k) = Matching(target[t], k)

\* A segment that a new directory splits is as deep as the directory it replaces.
AsDeep == \A t \in Threads : pc[t] = "publish" => local_depth[target[t]] = depth[dir]

\* What the table's structure needs, of all of the above.
Structure ==
  /\ Redirecting /\ Halves /\ Unborn /\ Current /\ Blocks
  /\ Locking /\ Reading /\ Abandoned /\ AsDeep

\* The thread's lock of its segment excludes everybody else.
Exclusive(t) == pc[t] \in Splitting \/ (pc[t] = "scan" /\ ~ Calling(t, "Get"))

-----------------------------------------------------------------------------
(* What the invariant says of a state.                                     *)

\* Two threads do not work on one segment, unless both only read.
LEMMA Conflict ==
  ASSUME IInv, NEW t \in Threads, NEW u \in Threads, t # u, Exclusive(t),
         \/ Exclusive(u)
         \/ pc[u] = "scan" /\ Locking /\ Reading
  PROVE  target[t] # target[u]
<1> TypeOK /\ Locked
  BY DEF IInv
<1>1. writer[target[t]] = t /\ target[t] \in Segs /\ t # Nobody
  BY TargetType, ConstantAssumption DEF IInv, Exclusive, Locked
<1>2. CASE Exclusive(u)
  BY <1>1, <1>2 DEF Exclusive, Locked
<1>3. CASE ~ Exclusive(u)
  <2>1. u \in readers[target[u]] /\ Locking
    BY <1>3 DEF Exclusive, Reading
  <2>2. QED
    BY <1>1, <2>1 DEF Locking
<1>4. QED
  BY <1>2, <1>3

\* A thread that redirects has its segment for itself.
LEMMA RedirectsType ==
  ASSUME NEW t \in Threads, NEW k \in Redirects(t)
  PROVE  pc[t] = "store" /\ Exclusive(t) /\ k \in Keys
BY DEF Redirects, Exclusive, Splitting

\* A key has one destination.
LEMMA OneDestination ==
  ASSUME IInv, Redirecting, NEW k \in Keys, NEW g, NEW h, Heads(k, g), Heads(k, h)
  PROVE  g = h
<1>1. \A t, u \in Threads : k \in Redirects(t) /\ k \in Redirects(u) => t = u
  BY RedirectsType, Conflict DEF Redirecting
<1>2. QED
  BY <1>1 DEF Heads

\* A key that is routed to the segment of a thread which does not redirect it is
\* redirected by nobody.
LEMMA Settled ==
  ASSUME IInv, Redirecting, Locking, Reading, NEW t \in Threads, NEW k \in Keys,
         Exclusive(t) \/ pc[t] = "scan", Route(k) = target[t], k \notin Redirects(t)
  PROVE  Heads(k, target[t]) /\ \A u \in Threads : k \notin Redirects(u)
<1>1. ASSUME NEW u \in Threads, k \in Redirects(u) PROVE FALSE
  <2>1. pc[u] = "store" /\ Exclusive(u) /\ Route(k) = target[u] /\ u # t
    BY <1>1, RedirectsType DEF Redirecting
  <2>2. QED
    BY <2>1, Conflict
<1>2. QED
  BY <1>1 DEF Heads

\* The segment of a thread that has not begun to redirect has the depth it will keep.
LEMMA OwnDepth ==
  ASSUME IInv, Locking, Reading, NEW t \in Threads, Exclusive(t) \/ pc[t] = "scan",
         pc[t] \notin {"store", "finish"}
  PROVE  DepthToBe(target[t]) = local_depth[target[t]]
<1>1. ASSUME NEW u \in Threads, pc[u] \in {"store", "finish"}, target[u] = target[t]
      PROVE  FALSE
  <2>1. Exclusive(u) /\ u # t
    BY <1>1 DEF Exclusive, Splitting
  <2>2. QED
    BY <1>1, <2>1, Conflict
<1>2. QED
  BY <1>1 DEF DepthToBe

\* The halves of a segment are segments, and each key has one of them.
LEMMA HalfType ==
  ASSUME IInv, NEW t \in Threads, pc[t] \in Splitting, NEW k \in Keys
  PROVE  /\ local_depth[target[t]] \in 0..HashBits /\ local_depth[target[t]] < HashBits
         /\ Bit(k, local_depth[target[t]]) \in {0, 1}
         /\ \/ Bit(k, local_depth[target[t]]) = 0 /\ Half(t, k) = s[t][1]
            \/ Bit(k, local_depth[target[t]]) = 1 /\ Half(t, k) = s[t][2]
         /\ s[t][1] \in 1..nsegs /\ s[t][2] \in 1..nsegs
         /\ s[t][1] \in Segs /\ s[t][2] \in Segs
         /\ Half(t, k) \in 1..nsegs /\ Half(t, k) \in Segs /\ NewHalves(t) \subseteq 1..nsegs
<1> TypeOK /\ Allocated /\ Depths
  BY DEF IInv
<1>1. local_depth[target[t]] \in 0..HashBits /\ local_depth[target[t]] < HashBits
  BY TargetType DEF Depths, DepthsOf
<1>2. Bit(k, local_depth[target[t]]) \in {0, 1}
  BY <1>1, PrefixBit
<1>3. s[t][1] \in 1..nsegs /\ s[t][2] \in 1..nsegs /\ 1..nsegs \subseteq Segs
  BY Bounds DEF Allocated
<1>4. Half(t, k) = s[t][1 + Bit(k, local_depth[target[t]])]
  BY DEF Half
<1>5. \/ Bit(k, local_depth[target[t]]) = 0 /\ Half(t, k) = s[t][1]
      \/ Bit(k, local_depth[target[t]]) = 1 /\ Half(t, k) = s[t][2]
  BY <1>2, <1>4
<1>6. QED
  BY <1>1, <1>2, <1>3, <1>5 DEF NewHalves

-----------------------------------------------------------------------------
(* What a step does.                                                       *)

\* How a thread gets to where it is.
LEMMA Course ==
  ASSUME TypeOK, NEW t \in Threads, Step(t)
  PROVE  /\ pc'[t] = "scan" => CheckTarget(t)
         /\ pc'[t] \in Preparing => Split(t) \/ pc[t] \in Preparing
         /\ pc'[t] = "publish" => DoubleDirectory(t)
         /\ pc'[t] = "store" => LockDirectory(t) \/ StoreEntry(t)
         /\ pc'[t] = "finish" => Publish(t) \/ UnlockDirectory(t)
         /\ pc'[t] \in Splitting => Split(t) \/ pc[t] \in Splitting
         /\ pc[t] \in Splitting => \/ pc'[t] \in Splitting
                                   \/ ~ INPLACE /\ (Publish(t) \/ UnlockDirectory(t))
                                   \/ FinishSplit(t)
         /\ pc[t] = "store" => StoreEntry(t) \/ UnlockDirectory(t)
         /\ pc[t] = "finish" => FinishSplit(t)
<1> USE DEF TypeOK, Goto, Return, AfterSplit, Splitting, Preparing
<1>1. CASE AwaitDirectory(t) \/ ReadTarget(t) \/ LockTarget(t) \/ TryLockFails(t) \/ CheckTarget(t)
  BY <1>1 DEF AwaitDirectory, ReadTarget, LockTarget, TryLockFails, CheckTarget
<1>2. CASE Put(t) \/ Update(t) \/ Delete(t) \/ Get(t)
  BY <1>2 DEF Put, Update, Delete, Get
<1>3. CASE Split(t) \/ ReadDirectory(t) \/ Suspend(t) \/ Drain(t)
  BY SMTT(30), <1>3 DEF Split, ReadDirectory, Suspend, Drain
<1>4. CASE DoubleDirectory(t) \/ Publish(t)
  BY <1>4 DEF DoubleDirectory, Publish
<1>5. CASE LockDirectory(t) \/ StoreEntry(t) \/ UnlockDirectory(t) \/ FinishSplit(t)
  BY SMTT(30), <1>5 DEF LockDirectory, StoreEntry, UnlockDirectory, FinishSplit
<1>6. QED
  BY <1>1, <1>2, <1>3, <1>4, <1>5 DEF Step

\* What a splitting thread works on stays as it is until its split is done.
LEMMA SplitStays ==
  ASSUME IInv, NEW t \in Threads, Step(t), NEW u \in Threads, pc[u] \in Splitting,
         u # t \/ ~ FinishSplit(t)
  PROVE  /\ s'[u] = s[u] /\ target'[u] = target[u] /\ todo'[u] = todo[u]
         /\ local_depth'[target[u]] = local_depth[target[u]]
         /\ NewHalves(u)' = NewHalves(u) /\ \A k \in Keys : Half(u, k)' = Half(u, k)
         /\ Key(u)' = Key(u) /\ Key(u) \in Keys
<1> TypeOK
  BY DEF IInv
<1>1. s'[u] = s[u] /\ target'[u] = target[u] /\ todo'[u] = todo[u]
  <2>1. CASE u = t
    BY <2>1 DEF Step, AwaitDirectory, ReadTarget, LockTarget, TryLockFails, CheckTarget, Put,
       Update, Delete, Get, Split, ReadDirectory, Suspend, Drain, DoubleDirectory, Publish,
       LockDirectory, StoreEntry, UnlockDirectory, FinishSplit, Splitting, callVars, splitVars
  <2>2. CASE u # t
    BY <2>2, Others
  <2>3. QED
    BY <2>1, <2>2
<1>2. local_depth'[target[u]] = local_depth[target[u]]
  <2>1. CASE u = t
    <3>1. ~ Split(t) /\ ~ FinishSplit(t)
      BY <2>1 DEF Split, Splitting
    <3>2. QED
      BY <3>1, SegmentFrame
  <2>2. CASE u # t
    BY <2>2, SplitDepthStays
  <2>3. QED
    BY <2>1, <2>2
<1>3. NewHalves(u)' = NewHalves(u) /\ \A k \in Keys : Half(u, k)' = Half(u, k)
  BY <1>1, <1>2 DEF NewHalves, Half, Bit, Prefix
<1>4. Key(u)' = Key(u)
  BY <1>1 DEF Key, Call
<1>5. Key(u) \in Keys
  BY CallType DEF IInv, Allocated, Splitting
<1>6. QED
  BY <1>1, <1>2, <1>3, <1>4, <1>5

\* Nobody redirects while a directory is published.
LEMMA PublishIsAlone ==
  ASSUME IInv, NEW t \in Threads, pc[t] = "publish"
  PROVE  /\ \A u \in Threads : pc[u] # "store" /\ Redirects(u) = {}
         /\ \A k \in Keys : \A g : Heads(k, g) <=> Route(k) = g
<1>1. \A u \in Threads : pc[u] # "store"
  BY DEF IInv, Counted, Storers
<1>2. \A u \in Threads : Redirects(u) = {}
  BY <1>1 DEF Redirects
<1>3. QED
  BY <1>1, <1>2 DEF Heads

\* What the arithmetic says of the cells a split redirects: they are those of the
\* keys of the segment that belong to a new half.
LEMMA NewRedirects ==
  ASSUME IInv, NEW t \in Threads, LockDirectory(t), NEW k \in Keys
  PROVE  k \in Redirects(t)' <=>
            /\ Prefix(k, local_depth[target[t]]) = Prefix(Key(t), local_depth[target[t]])
            /\ INPLACE => Bit(k, local_depth[target[t]]) = 1
<1>1. /\ pc[t] = "lock_dir" /\ pc'[t] = "store" /\ stores'[t] = CellsOf(t)
      /\ dir' = dir /\ depth' = depth
  BY DEF LockDirectory, Goto, IInv, TypeOK
<1>2. k \in Redirects(t)' <=>
         \E i \in DOMAIN CellsOf(t) : CellsOf(t)[i][1] = Prefix(k, depth[dir])
  BY <1>1 DEF Redirects, Prefix
<1>3. QED
  BY <1>1, <1>2, CellsOfKeys

\* Which keys a thread redirects changes with its own stores only.
LEMMA RedirectsStep ==
  ASSUME IInv, Redirecting, NEW t \in Threads, Step(t), NEW u \in Threads, NEW k \in Keys,
         ~ (LockDirectory(t) /\ u = t)
  PROVE  k \in Redirects(u)' <=>
            /\ k \in Redirects(u)
            /\ StoreEntry(t) /\ u = t => Head(stores[t])[1] # Prefix(k, depth[dir])
<1> TypeOK /\ Allocated
  BY DEF IInv
<1>1. CASE pc[u] # "store" /\ pc'[u] # "store"
  BY <1>1 DEF Redirects
<1>2. CASE pc[u] # "store" /\ pc'[u] = "store"
  <2>1. u # t
    BY <1>2, Course DEF StoreEntry
  <2>2. QED
    BY <1>2, <2>1, Others
<1>3. CASE pc[u] = "store"
  <2>1. ~ Publish(t)
    BY <1>3, PublishIsAlone DEF Publish
  <2>2. /\ dir' = dir /\ depth'[dir] = depth[dir]
        /\ \A x \in Keys : Prefix(x, depth[dir])' = Prefix(x, depth[dir])
    BY <2>1, DirectoryFrame, DepthGrows DEF Allocated, Prefix
  <2>3. CASE u # t
    BY <2>2, <2>3, Others DEF Redirects
  <2>4. CASE u = t /\ UnlockDirectory(t)
    <3>1. stores[t] = <<>> /\ pc'[t] # "store"
      BY <2>4 DEF UnlockDirectory, AfterSplit, Goto, TypeOK
    <3>2. k \notin Redirects(t) /\ k \notin Redirects(t)'
      BY <3>1 DEF Redirects
    <3>3. QED
      BY <2>4, <3>2
  <2>5. CASE u = t /\ StoreEntry(t)
    <3>1. /\ stores'[t] = Tail(stores[t]) /\ pc'[t] = "store" /\ pc[t] = "store"
          /\ stores[t] # <<>>
      BY <2>5 DEF StoreEntry, TypeOK
    <3>2. \A i, j \in DOMAIN stores[t] : stores[t][i][1] = stores[t][j][1] => i = j
      BY <3>1 DEF Redirecting
    <3>3. k \in Redirects(t)' <=>
             \E i \in DOMAIN Tail(stores[t]) : Tail(stores[t])[i][1] = Prefix(k, depth[dir])
      BY <2>2, <3>1 DEF Redirects, Prefix
    <3>4. k \in Redirects(t) <=>
             \E i \in DOMAIN stores[t] : stores[t][i][1] = Prefix(k, depth[dir])
      BY <3>1 DEF Redirects
    <3>5. /\ 1 \in DOMAIN stores[t] /\ Head(stores[t]) = stores[t][1]
          /\ \A i \in DOMAIN Tail(stores[t]) :
                i + 1 \in DOMAIN stores[t] /\ i + 1 # 1 /\ Tail(stores[t])[i] = stores[t][i + 1]
          /\ \A j \in DOMAIN stores[t] : j # 1 =>
                \E i \in DOMAIN Tail(stores[t]) : Tail(stores[t])[i] = stores[t][j]
      <4>1. stores[t] \in Seq(Index \X Segs)
        BY DEF TypeOK
      <4>2. \A j \in DOMAIN stores[t] : j # 1 =>
               j - 1 \in DOMAIN Tail(stores[t]) /\ Tail(stores[t])[j - 1] = stores[t][j]
        BY <3>1, <4>1
      <4>3. \A i \in DOMAIN Tail(stores[t]) : i \in Nat /\ i # 0
        BY <3>1, <4>1
      <4>4. \A i \in DOMAIN Tail(stores[t]) : i + 1 # 1
        BY <4>3
      <4>5. /\ 1 \in DOMAIN stores[t] /\ Head(stores[t]) = stores[t][1]
            /\ \A i \in DOMAIN Tail(stores[t]) :
                  i + 1 \in DOMAIN stores[t] /\ Tail(stores[t])[i] = stores[t][i + 1]
        BY <3>1, FirstStore
      <4>6. QED
        BY <4>2, <4>4, <4>5, Zenon
    <3> DEFINE S == stores[t]
               T == Tail(stores[t])
               y == Prefix(k, depth[dir])
    <3>6. (\E i \in DOMAIN T : T[i][1] = y) <=> (\E i \in DOMAIN S : S[i][1] = y) /\ S[1][1] # y
      <4>1. ASSUME NEW i \in DOMAIN T, T[i][1] = y
            PROVE  (\E j \in DOMAIN S : S[j][1] = y) /\ S[1][1] # y
        <5>1. i + 1 \in DOMAIN S /\ i + 1 # 1 /\ S[i + 1][1] = y /\ 1 \in DOMAIN S
          BY <3>5, <4>1
        <5>2. QED
          BY <3>2, <5>1
      <4>2. ASSUME NEW j \in DOMAIN S, S[j][1] = y, S[1][1] # y
            PROVE  \E i \in DOMAIN T : T[i][1] = y
        <5>1. j # 1
          BY <4>2
        <5>2. QED
          BY <3>5, <4>2, <5>1
      <4>3. QED
        BY <4>1, <4>2
    <3>7. QED
      BY <2>5, <3>3, <3>4, <3>5, <3>6
  <2>6. QED
    BY <1>3, <2>3, <2>4, <2>5, Course
<1>4. QED
  BY <1>1, <1>2, <1>3

\* The keys of the segment that is split are those of its prefix.
LEMMA KeysOfTarget ==
  ASSUME IInv, Structure, NEW t \in Threads, Exclusive(t), pc[t] \in {"scan"} \cup Preparing
  PROVE  \A k \in Keys : Heads(k, target[t]) <=>
           Prefix(k, local_depth[target[t]]) = Prefix(Key(t), local_depth[target[t]])
<1> Redirecting /\ Locking /\ Reading /\ Current /\ Blocks
  BY DEF Structure
<1>1. Key(t) \in Keys /\ Route(Key(t)) = target[t] /\ target[t] \in Segs
  BY CallType, TargetType DEF IInv, Allocated, Current, Preparing, Splitting
<1>2. pc[t] \notin {"store", "finish"} /\ \A k : k \notin Redirects(t)
  BY DEF Preparing, Redirects
<1>3. Heads(Key(t), target[t])
  BY <1>1, <1>2, Settled
<1>4. DepthToBe(target[t]) = local_depth[target[t]]
  BY <1>2, OwnDepth
<1>5. QED
  BY <1>1, <1>3, <1>4 DEF Blocks

\* What a new directory, or a store to a cell, does to where keys are routed.
LEMMA RouteStep ==
  ASSUME IInv, Structure, NEW t \in Threads, Step(t), NEW k \in Keys
  PROVE  /\ Publish(t) => Route(k)' = IF Route(k) = target[t] THEN Half(t, k) ELSE Route(k)
         /\ StoreEntry(t) =>
              IF Head(stores[t])[1] = Prefix(k, depth[dir])
              THEN k \in Redirects(t) /\ Route(k)' = Half(t, k)
              ELSE Route(k)' = Route(k)
         /\ ~ Publish(t) /\ ~ StoreEntry(t) => Route(k)' = Route(k)
<1> TypeOK /\ Allocated /\ Depths /\ Copied
  BY DEF IInv
<1>1. CASE Publish(t)
  <2>1. /\ pc[t] = "publish" /\ dir' = held[t] /\ entry[held[t]] = Doubled(t)
        /\ depth[held[t]] = depth[dir] + 1 /\ entry' = entry /\ depth' = depth
    BY <1>1 DEF Publish, Copied, Depths, DepthsOf
  <2>2. depth[dir] \in 0..HashBits /\ depth[dir] + 1 \in 0..HashBits /\ depth[dir] \in Nat
    <3>1. dir \in Dirs /\ depth[held[t]] \in 0..HashBits
      BY <2>1, HeldType DEF TypeOK
    <3>2. depth[dir] \in 0..HashBits
      BY <3>1 DEF TypeOK
    <3>3. QED
      BY <2>1, <3>1, <3>2, HashBitsNat
  <2>3. Doubled(t)[Prefix(k, depth[dir] + 1)] =
                 IF Prefix(k, depth[dir]) = Prefix(Key(t), depth[dir])
                 THEN s[t][1 + Bit(k, depth[dir])] ELSE Route(k)
    <3> DEFINE i == Prefix(k, depth[dir] + 1)
    <3>1. i \div 2 = Prefix(k, depth[dir]) /\ i % 2 = Bit(k, depth[dir])
      <4>1. depth[dir] + 1 <= HashBits
        BY <2>2, HashBitsNat
      <4>2. QED
        BY <2>2, <4>1, PrefixHalf DEF Bit
    <3>2. i \in Nat /\ i < Pow2[depth[dir] + 1] /\ i \in Index
      BY <2>2, PrefixBound, Pow2Monotonic DEF Index
    <3>3. Pow2[depth[dir] + 1] = 2 * Pow2[depth[dir]]
      <4>1. (depth[dir] + 1) - 1 = depth[dir] /\ depth[dir] + 1 # 0
        BY <2>2
      <4>2. QED
        BY <2>2, <4>1, NextPower
    <3>4. Doubled(t)[i] = IF i \div 2 = Prefix(Key(t), depth[dir]) THEN s[t][1 + (i % 2)]
                          ELSE entry[dir][i \div 2]
      <4> HIDE DEF i
      <4>1. QED
        BY <3>2, <3>3 DEF Doubled
    <3>5. QED
      BY <3>1, <3>4 DEF Route
  <2>4. Route(k)' = Doubled(t)[Prefix(k, depth[dir] + 1)]
    BY <2>1 DEF Route, Prefix
  <2>5. local_depth[target[t]] = depth[dir] /\ Exclusive(t) /\ pc[t] \in Preparing
    BY <2>1 DEF Structure, AsDeep, Exclusive, Splitting, Preparing
  <2>6. Prefix(k, depth[dir]) = Prefix(Key(t), depth[dir]) <=> Route(k) = target[t]
    BY <2>1, <2>5, KeysOfTarget, PublishIsAlone
  <2>7. ~ StoreEntry(t)
    BY <2>1 DEF StoreEntry
  <2>8. QED
    BY <1>1, <2>3, <2>4, <2>5, <2>6, <2>7 DEF Half
<1>2. CASE StoreEntry(t)
  <2>1. /\ pc[t] = "store" /\ stores[t] # <<>> /\ dir' = dir /\ depth' = depth
        /\ entry' = [entry EXCEPT ![dir][Head(stores[t])[1]] = Head(stores[t])[2]]
    BY <1>2 DEF StoreEntry
  <2>2. 1 \in DOMAIN stores[t] /\ Head(stores[t]) = stores[t][1] /\ Head(stores[t]) \in Index \X Segs
    BY <2>1, FirstStore
  <2>3. dir \in Dirs /\ entry \in [Dirs -> [Index -> Segs \cup {NULL}]]
        /\ Prefix(k, depth[dir]) \in Index
    BY RouteType DEF TypeOK
  <2>4. CASE Head(stores[t])[1] = Prefix(k, depth[dir])
    <3>1. k \in Redirects(t)
      BY <2>1, <2>2, <2>4 DEF Redirects
    <3>2. Head(stores[t])[2] = Half(t, k)
      BY <2>1, <2>2, <2>4, <3>1 DEF Structure, Redirecting
    <3>3. Route(k)' = Head(stores[t])[2]
      BY <2>1, <2>3, <2>4 DEF Route, Prefix
    <3>4. QED
      BY <1>2, <2>1, <2>4, <3>1, <3>2, <3>3 DEF Publish
  <2>5. CASE Head(stores[t])[1] # Prefix(k, depth[dir])
    <3>1. Route(k)' = Route(k)
      BY <2>1, <2>2, <2>3, <2>5 DEF Route, Prefix
    <3>2. QED
      BY <1>2, <2>1, <2>5, <3>1 DEF Publish
  <2>6. QED
    BY <2>4, <2>5
<1>3. CASE ~ Publish(t) /\ ~ StoreEntry(t)
  <2>1. dir' = dir /\ depth'[dir] = depth[dir]
    BY <1>3, DirectoryFrame, DepthGrows DEF Allocated
  <2>2. entry'[dir] = entry[dir]
    <3>1. dir # ndirs + 1 /\ dir \in Dirs
      BY Bounds DEF Allocated
    <3>2. QED
      BY <1>3, <3>1, DirectoryFrame DEF DoubleDirectory, TypeOK
  <2>3. QED
    BY <1>3, <2>1, <2>2 DEF Route, Prefix
<1>4. QED
  BY <1>1, <1>2, <1>3

\* A split becomes visible to the other threads in one of two steps.
Divides(t) == LockDirectory(t) \/ Publish(t)

\* The keys of the segment that is split head for their halves from then on; no
\* other step changes where a key heads for.
LEMMA HeadsStep ==
  ASSUME IInv, Structure, SplitsApart', NEW t \in Threads, Step(t), NEW k \in Keys
  PROVE  /\ Divides(t) =>
              /\ Heads(k, target[t]) => Route(k) = target[t]
              /\ \A g : Heads(k, g)' <=>
                   IF Heads(k, target[t]) THEN g = Half(t, k) ELSE Heads(k, g)
         /\ ~ Divides(t) => \A g : Heads(k, g)' <=> Heads(k, g)
<1> TypeOK
  BY DEF IInv
<1> Redirecting /\ Locking /\ Reading
  BY DEF Structure
<1>1. CASE Publish(t)
  <2>1. pc[t] = "publish" /\ pc'[t] # "store" /\ ~ StoreEntry(t) /\ ~ LockDirectory(t)
    BY <1>1 DEF Publish, AfterSplit, Goto, TypeOK, StoreEntry, LockDirectory
  <2>2. \A u \in Threads : k \notin Redirects(u) /\ k \notin Redirects(u)'
    BY <2>1, PublishIsAlone, RedirectsStep
  <2>3. \A g : (Heads(k, g) <=> Route(k) = g) /\ (Heads(k, g)' <=> Route(k)' = g)
    BY <2>2 DEF Heads
  <2>4. Route(k)' = IF Route(k) = target[t] THEN Half(t, k) ELSE Route(k)
    BY <1>1, RouteStep
  <2>5. QED
    BY <1>1, <2>3, <2>4 DEF Divides
<1>2. CASE LockDirectory(t)
  <2>1. /\ pc[t] = "lock_dir" /\ pc'[t] = "store" /\ stores'[t] = CellsOf(t) /\ target' = target
        /\ ~ StoreEntry(t) /\ ~ Publish(t) /\ ~ FinishSplit(t)
    BY <1>2 DEF LockDirectory, Goto, TypeOK, StoreEntry, Publish, FinishSplit
  <2>2. Exclusive(t) /\ pc[t] \in Preparing /\ pc[t] \in Splitting
    BY <2>1 DEF Exclusive, Preparing, Splitting
  <2>3. Half(t, k)' = Half(t, k)
    BY <2>1, <2>2, SplitStays
  <2>4. Route(k)' = Route(k)
    BY <2>1, RouteStep
  <2>5. \A u \in Threads : u # t => (k \in Redirects(u)' <=> k \in Redirects(u))
                                      /\ (k \in Redirects(u) => Half(u, k)' = Half(u, k))
    BY RedirectsStep, SplitStays, RedirectsType DEF Splitting
  <2>6. k \notin Redirects(t)
    BY <2>1 DEF Redirects
  <2>7. ASSUME NEW u \in Threads, k \in Redirects(u) PROVE Half(u, k) # target[t]
    <3>1. u # t /\ pc[u] = "store"
      BY <2>6, <2>7, RedirectsType
    <3>2. PICK i \in DOMAIN stores[u] : stores[u][i][1] = Prefix(k, depth[dir])
      BY <2>7 DEF Redirects
    <3>3. stores[u][i][2] = Half(u, k)
      BY <2>7, <3>1, <3>2 DEF Redirecting
    <3>4. stores'[u] = stores[u] /\ pc'[u] = "store"
      BY <3>1, Others
    <3>5. stores'[u][i][2] # target'[t]
      BY <2>1, <3>1, <3>2, <3>4 DEF SplitsApart
    <3>6. QED
      BY <2>1, <3>3, <3>4, <3>5
  <2>8. Heads(k, target[t]) => Route(k) = target[t] /\ \A u \in Threads : k \notin Redirects(u)
    BY <2>7 DEF Heads
  <2>9. Heads(k, target[t]) <=>
           Prefix(k, local_depth[target[t]]) = Prefix(Key(t), local_depth[target[t]])
    BY <2>2, KeysOfTarget
  <2>10. k \in Redirects(t)' <=>
            Heads(k, target[t]) /\ (INPLACE => Bit(k, local_depth[target[t]]) = 1)
    BY <1>2, <2>9, NewRedirects
  <2>11. CASE Heads(k, target[t]) /\ k \in Redirects(t)'
    <3>1. \A g : Heads(k, g)' <=> g = Half(t, k)
      BY <2>3, <2>5, <2>8, <2>11 DEF Heads
    <3>2. QED
      BY <1>2, <2>8, <2>11, <3>1 DEF Divides
  <2>12. CASE Heads(k, target[t]) /\ k \notin Redirects(t)'
    <3>1. \A u \in Threads : k \notin Redirects(u)'
      BY <2>5, <2>8, <2>12
    <3>2. \A g : Heads(k, g)' <=> target[t] = g
      BY <2>4, <2>8, <2>12, <3>1 DEF Heads
    <3>3. Half(t, k) = target[t]
      BY <2>2, <2>10, <2>12, HalfType DEF Structure, Halves
    <3>4. QED
      BY <1>2, <2>8, <2>12, <3>2, <3>3 DEF Divides
  <2>13. CASE ~ Heads(k, target[t])
    <3>1. \A u \in Threads : k \in Redirects(u)' <=> k \in Redirects(u)
      BY <2>5, <2>6, <2>10, <2>13
    <3>2. \A g : Heads(k, g)' <=> Heads(k, g)
      BY <2>4, <2>5, <2>6, <3>1 DEF Heads
    <3>3. QED
      BY <1>2, <2>13, <3>2 DEF Divides
  <2>14. QED
    BY <2>11, <2>12, <2>13
<1>3. CASE StoreEntry(t)
  <2>1. ~ Divides(t) /\ ~ FinishSplit(t) /\ pc[t] = "store"
    BY <1>3 DEF Divides, StoreEntry, LockDirectory, Publish, FinishSplit
  <2>2. \A u \in Threads : k \in Redirects(u) => Half(u, k)' = Half(u, k)
    BY <2>1, SplitStays, RedirectsType DEF Splitting
  <2>3. \A u \in Threads : k \in Redirects(u)' <=>
           k \in Redirects(u) /\ (u = t => Head(stores[t])[1] # Prefix(k, depth[dir]))
    BY <1>3, <2>1, RedirectsStep DEF Divides
  <2>4. CASE Head(stores[t])[1] = Prefix(k, depth[dir])
    <3>1. k \in Redirects(t) /\ Route(k)' = Half(t, k)
      BY <1>3, <2>4, RouteStep
    <3>2. \A u \in Threads : k \in Redirects(u) => u = t
      BY <3>1, RedirectsType, Conflict DEF Redirecting
    <3>3. \A u \in Threads : k \notin Redirects(u)'
      BY <2>3, <2>4, <3>2
    <3>4. \A g : Heads(k, g)' <=> Route(k)' = g
      BY <3>3 DEF Heads
    <3>5. \A g : Heads(k, g) <=> Half(t, k) = g
      BY <3>1, <3>2 DEF Heads
    <3>6. QED
      BY <2>1, <3>1, <3>4, <3>5
  <2>5. CASE Head(stores[t])[1] # Prefix(k, depth[dir])
    <3>1. Route(k)' = Route(k)
      BY <1>3, <2>5, RouteStep
    <3>2. \A u \in Threads : k \in Redirects(u)' <=> k \in Redirects(u)
      BY <2>3, <2>5
    <3>3. QED
      BY <2>1, <2>2, <3>1, <3>2 DEF Heads
  <2>6. QED
    BY <2>4, <2>5
<1>4. CASE ~ Divides(t) /\ ~ StoreEntry(t)
  <2>1. Route(k)' = Route(k)
    BY <1>4, RouteStep DEF Divides
  <2>2. \A u \in Threads : k \in Redirects(u)' <=> k \in Redirects(u)
    BY <1>4, RedirectsStep DEF Divides
  <2>3. \A u \in Threads : k \in Redirects(u) => Half(u, k)' = Half(u, k)
    <3>1. ASSUME NEW u \in Threads, k \in Redirects(u) PROVE pc[u] \in Splitting /\ (u # t \/ ~ FinishSplit(t))
      BY <3>1, RedirectsType DEF Splitting, FinishSplit
    <3>2. QED
      BY <3>1, SplitStays
  <2>4. QED
    BY <1>4, <2>1, <2>2, <2>3 DEF Heads
<1>5. QED
  BY <1>1, <1>2, <1>3, <1>4 DEF Divides

\* The depth a segment will have changes when an INPLACE split of it becomes visible.
LEMMA DepthToBeStep ==
  ASSUME IInv, Structure, NEW t \in Threads, Step(t), NEW g \in 1..nsegs
  PROVE  DepthToBe(g)' = IF Divides(t) /\ INPLACE /\ g = target[t]
                         THEN local_depth[g] + 1 ELSE DepthToBe(g)
<1> TypeOK
  BY DEF IInv
<1> Locking /\ Reading
  BY DEF Structure
<1> DEFINE Halving(u) == pc[u] \in {"store", "finish"} /\ target[u] = g
<1>1. \A u \in Threads : u # t => Halving(u)' = Halving(u)
  BY Others
<1>2. CASE Divides(t)
  <2>1. /\ pc[t] \in {"lock_dir", "publish"} /\ ~ Split(t) /\ ~ FinishSplit(t)
        /\ target' = target /\ (INPLACE => pc'[t] \in {"store", "finish"})
    BY <1>2 DEF Divides, LockDirectory, Publish, Split, FinishSplit, AfterSplit, Goto, TypeOK
  <2>2. local_depth' = local_depth
    BY <2>1, SegmentFrame
  <2>3. CASE g = target[t]
    <3>1. DepthToBe(g) = local_depth[g]
      BY <2>1, <2>3, OwnDepth DEF Exclusive, Splitting
    <3>2. INPLACE => DepthToBe(g)' = local_depth[g] + 1
      BY <2>1, <2>2, <2>3 DEF DepthToBe
    <3>3. ~ INPLACE => DepthToBe(g)' = local_depth[g]
      BY <2>2 DEF DepthToBe
    <3>4. QED
      BY <1>2, <2>3, <3>1, <3>2, <3>3
  <2>4. CASE g # target[t]
    <3>1. \A u \in Threads : Halving(u)' <=> Halving(u)
      BY <1>1, <2>1, <2>4
    <3>2. QED
      BY <2>2, <2>4, <3>1 DEF DepthToBe
  <2>5. QED
    BY <2>3, <2>4
<1>3. CASE FinishSplit(t)
  <2>1. pc[t] = "finish" /\ pc'[t] = "retry" /\ target' = target /\ ~ Divides(t)
    BY <1>3 DEF FinishSplit, Goto, TypeOK, Divides, LockDirectory, Publish
  <2>2. CASE g = target[t]
    <3>1. \A u \in Threads : u # t => ~ Halving(u)
      BY <2>1, <2>2, Conflict DEF Exclusive, Splitting
    <3>2. \A u \in Threads : ~ Halving(u)'
      BY <1>1, <2>1, <3>1
    <3>3. DepthToBe(g)' = local_depth'[g]
      BY <3>2 DEF DepthToBe
    <3>4. local_depth'[g] = local_depth[g] + 1 /\ g \in Segs
      BY <1>3, <2>2, Bounds DEF FinishSplit, TypeOK
    <3>5. INPLACE => DepthToBe(g) = local_depth[g] + 1
      BY <2>1, <2>2 DEF DepthToBe
    <3>6. INPLACE
      BY <2>1 DEF Structure, Abandoned
    <3>7. QED
      BY <2>1, <3>3, <3>4, <3>5, <3>6
  <2>3. CASE g # target[t]
    <3>1. \A u \in Threads : Halving(u)' <=> Halving(u)
      BY <1>1, <2>1, <2>3
    <3>2. local_depth'[g] = local_depth[g]
      BY <2>3, LocalDepthGrows
    <3>3. QED
      BY <2>1, <3>1, <3>2 DEF DepthToBe
  <2>4. QED
    BY <2>2, <2>3
<1>4. CASE ~ Divides(t) /\ ~ FinishSplit(t)
  <2>1. local_depth'[g] = local_depth[g]
    BY <1>4, LocalDepthGrows
  <2>2. INPLACE => (Halving(t)' <=> Halving(t))
    <3>1. pc[t] \in {"store", "finish"} => pc[t] = "store" /\ target'[t] = target[t]
      BY <1>4, Course, SplitStays DEF Splitting
    <3>2. INPLACE /\ pc[t] = "store" => pc'[t] \in {"store", "finish"}
      BY Course DEF StoreEntry, UnlockDirectory, AfterSplit, Goto, TypeOK
    <3>3. pc'[t] \in {"store", "finish"} => pc[t] = "store"
      BY <1>4, Course DEF Divides, StoreEntry, UnlockDirectory
    <3>4. QED
      BY <3>1, <3>2, <3>3
  <2>3. INPLACE => \A u \in Threads : Halving(u)' <=> Halving(u)
    BY <1>1, <2>2
  <2>4. QED
    BY <1>4, <2>1, <2>3 DEF DepthToBe
<1>5. QED
  BY <1>2, <1>3, <1>4

\* A key heads for a segment that exists.
LEMMA HeadsType ==
  ASSUME IInv, NEW k \in Keys, NEW g, Heads(k, g)
  PROVE  g \in 1..nsegs /\ g \in Segs
<1>1. ASSUME NEW u \in Threads, k \in Redirects(u)
      PROVE  Half(u, k) \in 1..nsegs /\ Half(u, k) \in Segs
  BY <1>1, RedirectsType, HalfType DEF Splitting
<1>2. QED
  BY <1>1, RouteType DEF Heads

\* The half of a segment that a key belongs to is new or the segment itself.
LEMMA NewOrOwn ==
  ASSUME IInv, Halves, NEW t \in Threads, pc[t] \in Splitting, NEW k \in Keys
  PROVE  Half(t, k) \in NewHalves(t) \/ (INPLACE /\ Half(t, k) = target[t])
BY HalfType DEF Halves, NewHalves

\* How a thread keeps its segment and its call.
LEMMA TargetKept ==
  ASSUME TypeOK, NEW t \in Threads, Step(t)
  PROVE  /\ pc'[t] \notin {"retry", "read"} =>
              ReadTarget(t) \/ (pc[t] \notin {"retry", "read"} /\ target'[t] = target[t])
         /\ pc'[t] \in {"scan"} \cup Preparing =>
              /\ pc[t] \in {"check", "scan"} \cup Preparing
              /\ target'[t] = target[t] /\ todo'[t] = todo[t] /\ Key(t)' = Key(t)
<1> USE DEF TypeOK, Goto, Return, AfterSplit, Preparing, callVars, Key, Call
<1>1. CASE AwaitDirectory(t) \/ ReadTarget(t) \/ LockTarget(t) \/ TryLockFails(t) \/ CheckTarget(t)
  BY <1>1 DEF AwaitDirectory, ReadTarget, LockTarget, TryLockFails, CheckTarget
<1>2. CASE Put(t) \/ Update(t) \/ Delete(t) \/ Get(t)
  BY <1>2 DEF Put, Update, Delete, Get
<1>3. CASE Split(t) \/ ReadDirectory(t) \/ Suspend(t) \/ Drain(t)
  BY <1>3 DEF Split, ReadDirectory, Suspend, Drain
<1>4. CASE DoubleDirectory(t) \/ Publish(t)
  BY <1>4 DEF DoubleDirectory, Publish
<1>5. CASE LockDirectory(t) \/ StoreEntry(t) \/ UnlockDirectory(t) \/ FinishSplit(t)
  BY <1>5 DEF LockDirectory, StoreEntry, UnlockDirectory, FinishSplit
<1>6. QED
  BY <1>1, <1>2, <1>3, <1>4, <1>5 DEF Step

\* The redirections of a thread stay right while it and others store.
LEMMA RedirectionKept ==
  ASSUME IInv, Structure, SplitsApart', NEW t \in Threads, Step(t), NEW u \in Threads,
         pc'[u] = "store", ~ (LockDirectory(t) /\ u = t)
  PROVE  /\ pc[u] = "store" /\ depth'[dir'] = depth[dir]
         /\ \/ stores'[u] = stores[u] /\ (u = t => ~ StoreEntry(t))
            \/ u = t /\ StoreEntry(t) /\ stores'[u] = Tail(stores[u]) /\ stores[u] # <<>>
<1> TypeOK /\ Allocated
  BY DEF IInv
<1>1. pc[u] = "store"
  BY Course, Others DEF StoreEntry
<1>2. ~ Publish(t)
  BY <1>1, PublishIsAlone DEF Publish
<1>3. depth'[dir'] = depth[dir]
  BY <1>2, DirectoryFrame, DepthGrows DEF Allocated
<1>4. CASE u = t
  <2>1. StoreEntry(t)
    BY <1>4, Course
  <2>2. QED
    BY <1>1, <1>3, <1>4, <2>1 DEF StoreEntry, TypeOK
<1>5. CASE u # t
  BY <1>1, <1>3, <1>5, Others
<1>6. QED
  BY <1>4, <1>5

\* Every step keeps the redirections right.
LEMMA RedirectingStep ==
  ASSUME IInv, Structure, SplitsApart', NEW t \in Threads, Step(t)
  PROVE  Redirecting'
<1> TypeOK
  BY DEF IInv
<1> Redirecting /\ Locking /\ Reading /\ Unborn /\ Halves
  BY DEF Structure
<1> DEFINE Right(u, k) ==
             /\ Route(k) = target[u] /\ Half(u, k) \in NewHalves(u)
             /\ local_depth[Half(u, k)] = local_depth[target[u]] + 1
             /\ \A i \in DOMAIN stores[u] : stores[u][i][1] = Prefix(k, depth[dir]) =>
                   stores[u][i][2] = Half(u, k)
             /\ \A v \in Threads : pc[v] \in {"store", "finish"} => Half(u, k) # target[v]
           Apart(u) == \A i, j \in DOMAIN stores[u] : stores[u][i][1] = stores[u][j][1] => i = j
<1>1. ASSUME LockDirectory(t)
      PROVE  Apart(t)' /\ \A k \in Redirects(t)' : Right(t, k)'
  <2>1. /\ pc[t] = "lock_dir" /\ pc'[t] = "store" /\ stores'[t] = CellsOf(t) /\ target' = target
        /\ depth' = depth /\ dir' = dir /\ ~ StoreEntry(t) /\ ~ Publish(t) /\ ~ FinishSplit(t)
        /\ local_depth' = local_depth /\ Divides(t)
    BY <1>1 DEF LockDirectory, Goto, TypeOK, StoreEntry, Publish, FinishSplit, segVars, Divides
  <2>2. Exclusive(t) /\ pc[t] \in Preparing /\ pc[t] \in Splitting
    BY <2>1 DEF Exclusive, Preparing, Splitting
  <2>3. Apart(t)'
    BY <2>1, CellsOfKeys
  <2>4. ASSUME NEW k \in Redirects(t)' PROVE Right(t, k)'
    <3>1. k \in Keys
      BY <2>4 DEF Redirects
    <3>2. /\ Prefix(k, local_depth[target[t]]) = Prefix(Key(t), local_depth[target[t]])
          /\ INPLACE => Bit(k, local_depth[target[t]]) = 1
      BY <1>1, <2>4, <3>1, NewRedirects
    <3>3. Route(k) = target[t] /\ Route(k)' = Route(k)
      BY <2>1, <2>2, <3>1, <3>2, KeysOfTarget, HeadsStep, RouteStep
    <3>4. Half(t, k)' = Half(t, k) /\ NewHalves(t)' = NewHalves(t)
      BY <2>1, <2>2, <3>1, SplitStays
    <3>5. Half(t, k) \in NewHalves(t)
      BY <2>2, <3>1, <3>2, HalfType DEF NewHalves
    <3>6. local_depth[Half(t, k)] = local_depth[target[t]] + 1
      BY <2>2, <3>5 DEF Unborn
    <3>7. \A i \in DOMAIN stores'[t] : stores'[t][i][1] = Prefix(k, depth[dir]) =>
             stores'[t][i][2] = Half(t, k)
      BY <2>1, <3>1, CellsOfKeys
    <3>8. ASSUME NEW v \in Threads, pc'[v] \in {"store", "finish"} PROVE Half(t, k) # target[v]
      <4>1. pc[v] \notin {"retry", "read"}
        BY <2>1, <3>8, Others
      <4>2. QED
        BY <2>2, <3>5, <4>1 DEF Unborn
    <3>9. Prefix(k, depth[dir])' = Prefix(k, depth[dir])
      BY <2>1 DEF Prefix
    <3>10. QED
      BY <2>1, <3>3, <3>4, <3>5, <3>6, <3>7, <3>8, <3>9
  <2>5. QED
    BY <2>3, <2>4
<1>2. ASSUME NEW u \in Threads, pc'[u] = "store", ~ (LockDirectory(t) /\ u = t)
      PROVE  Apart(u)'
  <2>1. Apart(u)
    BY <1>2, RedirectionKept DEF Redirecting
  <2>2. CASE stores'[u] = stores[u]
    BY <2>1, <2>2
  <2>3. CASE stores'[u] = Tail(stores[u]) /\ stores[u] # <<>>
    <3> DEFINE T == Tail(stores[u])
    <3>1. /\ \A i \in DOMAIN T : i + 1 \in DOMAIN stores[u] /\ T[i] = stores[u][i + 1]
          /\ \A i, j \in DOMAIN T : i + 1 = j + 1 => i = j
      <4>1. \A i \in DOMAIN T : i \in Int
        BY <2>3 DEF TypeOK
      <4> HIDE DEF T
      <4>2. \A i, j \in DOMAIN T : i + 1 = j + 1 => i = j
        BY <4>1
      <4>3. QED
        BY <2>3, <4>2, FirstStore DEF T
    <3> HIDE DEF T
    <3>2. \A i, j \in DOMAIN T : T[i][1] = T[j][1] => i = j
      BY <2>1, <3>1
    <3>3. QED
      BY <2>3, <3>2 DEF T
  <2>4. QED
    BY <1>2, <2>2, <2>3, RedirectionKept
<1>3. ASSUME NEW u \in Threads, pc'[u] = "store", ~ (LockDirectory(t) /\ u = t),
             NEW k \in Redirects(u)'
      PROVE  Right(u, k)'
  <2>1. k \in Keys /\ k \in Redirects(u)
    <3>1. k \in Keys
      BY <1>3 DEF Redirects
    <3>2. QED
      BY <1>3, <3>1, RedirectsStep
  <2>2. /\ pc[u] = "store" /\ depth'[dir'] = depth[dir] /\ pc[u] \in Splitting /\ Exclusive(u)
        /\ u # t \/ ~ FinishSplit(t)
    BY <1>3, RedirectionKept DEF Splitting, Exclusive, FinishSplit
  <2>3. Right(u, k)
    BY <2>1, <2>2 DEF Redirecting
  <2>4. /\ Half(u, k)' = Half(u, k) /\ NewHalves(u)' = NewHalves(u) /\ target'[u] = target[u]
        /\ local_depth'[target[u]] = local_depth[target[u]]
    BY <2>1, <2>2, SplitStays
  <2>5. Route(k)' = Route(k)
    <3>1. ~ Publish(t)
      BY <2>2, PublishIsAlone DEF Publish
    <3>2. ASSUME StoreEntry(t), Head(stores[t])[1] = Prefix(k, depth[dir]) PROVE FALSE
      <4>1. k \in Redirects(t)
        BY <2>1, <3>2, RouteStep
      <4>2. t = u
        BY <2>1, <4>1, RedirectsType, Conflict DEF Redirecting
      <4>3. QED
        BY <1>3, <2>1, <3>2, <4>2, RedirectsStep
    <3>3. QED
      BY <2>1, <3>1, <3>2, RouteStep
  <2>6. local_depth'[Half(u, k)] = local_depth[Half(u, k)]
    <3>1. Half(u, k) \in 1..nsegs
      BY <2>1, <2>2, HalfType
    <3>2. ~ (FinishSplit(t) /\ Half(u, k) = target[t])
      BY <2>3 DEF FinishSplit
    <3>3. QED
      BY <3>1, <3>2, LocalDepthGrows
  <2>7. \A i \in DOMAIN stores'[u] : stores'[u][i][1] = Prefix(k, depth[dir]) =>
           stores'[u][i][2] = Half(u, k)
    <3>1. CASE stores'[u] = stores[u]
      BY <2>3, <3>1
    <3>2. CASE stores'[u] = Tail(stores[u]) /\ stores[u] # <<>>
      BY <2>3, <3>2, FirstStore
    <3>3. QED
      BY <1>3, <3>1, <3>2, RedirectionKept
  <2>8. ASSUME NEW v \in Threads, pc'[v] \in {"store", "finish"} PROVE Half(u, k) # target'[v]
    <3>1. CASE v # t
      BY <2>3, <2>8, <3>1, Others
    <3>2. CASE v = t /\ LockDirectory(t)
      <4>1. PICK i \in DOMAIN stores'[u] : stores'[u][i][1] = Prefix(k, depth'[dir'])
        BY <1>3 DEF Redirects, Prefix
      <4>2. stores'[u][i][2] = Half(u, k)
        BY <2>2, <2>7, <4>1
      <4>3. pc'[t] = "store" /\ u # t
        BY <1>3, <3>2 DEF LockDirectory, Goto, TypeOK
      <4>4. stores'[u][i][2] # target'[t]
        BY <1>3, <4>1, <4>3 DEF SplitsApart
      <4>5. QED
        BY <3>2, <4>2, <4>4
    <3>3. CASE v = t /\ ~ LockDirectory(t)
      <4>1. ~ Publish(t)
        BY <2>2, PublishIsAlone DEF Publish
      <4>2. pc[t] = "store" /\ ~ FinishSplit(t)
        BY <2>8, <3>3, <4>1, Course DEF StoreEntry, UnlockDirectory, FinishSplit
      <4>3. target'[t] = target[t]
        BY <4>2, SplitStays DEF Splitting
      <4>4. QED
        BY <2>3, <3>3, <4>2, <4>3
    <3>4. QED
      BY <3>1, <3>2, <3>3
  <2>9. Prefix(k, depth[dir])' = Prefix(k, depth[dir])
    BY <2>2 DEF Prefix
  <2>10. QED
    BY <2>3, <2>4, <2>5, <2>6, <2>7, <2>8, <2>9
<1>4. QED
  <2>1. \A u \in Threads : pc'[u] = "store" => Apart(u)' /\ \A k \in Redirects(u)' : Right(u, k)'
    <3> HIDE DEF Apart, Right
    <3>1. ASSUME NEW u \in Threads, pc'[u] = "store"
          PROVE  Apart(u)' /\ \A k \in Redirects(u)' : Right(u, k)'
      BY <1>1, <1>2, <1>3, <3>1
    <3>2. QED
      BY <3>1
  <2>2. QED
    BY <2>1 DEF Redirecting

\* What a split allocates is new.
LEMMA SplitStep ==
  ASSUME IInv, NEW t \in Threads, Split(t)
  PROVE  /\ target' = target /\ target[t] \in 1..nsegs /\ pc[t] = "scan" /\ Exclusive(t)
         /\ local_depth'[target[t]] = local_depth[target[t]]
         /\ s'[t][1] # s'[t][2] /\ (INPLACE => s'[t][1] = target[t])
         /\ \A h \in NewHalves(t)' : /\ h \notin 1..nsegs /\ h \in Segs
                                     /\ local_depth'[h] = local_depth[target[t]] + 1
<1> TypeOK /\ Allocated
  BY DEF IInv
<1>1. /\ pc[t] = "scan" /\ Calling(t, "Insert") /\ target' = target
      /\ target[t] \in 1..nsegs /\ target[t] \in Segs /\ nsegs \in Nat
  BY TargetType, Bounds DEF Split
<1>2. Exclusive(t)
  BY <1>1 DEF Exclusive, Calling
<1> DEFINE left == IF INPLACE THEN target[t] ELSE nsegs + 1
           right == IF INPLACE THEN nsegs + 1 ELSE nsegs + 2
<1>2a. /\ right <= MaxSegs
       /\ s' = [s EXCEPT ![t] = <<left, right>>]
       /\ local_depth' = [g \in Segs |-> IF g = right \/ (g = left /\ ~ INPLACE)
                                         THEN local_depth[target[t]] + 1 ELSE local_depth[g]]
  BY DEF Split
<1>3. /\ left = (IF INPLACE THEN target[t] ELSE nsegs + 1)
      /\ right = (IF INPLACE THEN nsegs + 1 ELSE nsegs + 2)
      /\ right <= MaxSegs
      /\ s' = [s EXCEPT ![t] = <<left, right>>]
      /\ local_depth' = [g \in Segs |-> IF g = right \/ (g = left /\ ~ INPLACE)
                                        THEN local_depth[target[t]] + 1 ELSE local_depth[g]]
  BY <1>2a
<1> HIDE DEF left, right
<1>4. s'[t] = <<left, right>>
  BY <1>3 DEF TypeOK
<1>5. NewHalves(t)' = {right} \cup (IF INPLACE THEN {} ELSE {left})
  BY <1>4 DEF NewHalves
<1>6. /\ right \in Segs /\ right \notin 1..nsegs /\ left # right
      /\ ~ INPLACE => left \in Segs /\ left \notin 1..nsegs
  BY <1>1, <1>3, ConstantAssumption DEF Segs
<1>7. local_depth'[target[t]] = local_depth[target[t]]
  BY <1>1, <1>3, <1>6
<1>8. \A h \in NewHalves(t)' : h \notin 1..nsegs /\ h \in Segs
                               /\ local_depth'[h] = local_depth[target[t]] + 1
  BY <1>3, <1>5, <1>6
<1>9. s'[t][1] # s'[t][2] /\ (INPLACE => s'[t][1] = target[t])
  BY <1>3, <1>4, <1>6
<1>10. QED
  BY <1>1, <1>2, <1>7, <1>8, <1>9

\* A thread that prepares a split and does not begin one keeps its halves.
LEMMA PreparingKept ==
  ASSUME IInv, NEW t \in Threads, Step(t), NEW u \in Threads, pc'[u] \in Preparing,
         ~ (Split(t) /\ u = t)
  PROVE  /\ pc[u] \in Preparing /\ pc[u] \in Splitting /\ Exclusive(u)
         /\ u # t \/ (~ FinishSplit(t) /\ ~ Divides(t))
<1> TypeOK
  BY DEF IInv
<1>1. pc[u] \in Preparing
  BY Course, Others
<1>2. u = t => ~ FinishSplit(t) /\ ~ Divides(t)
  BY <1>1 DEF FinishSplit, Divides, LockDirectory, Publish, AfterSplit, Goto, TypeOK, Preparing
<1>3. QED
  BY <1>1, <1>2 DEF Preparing, Splitting, Exclusive

\* Every step keeps the halves of a split two.
LEMMA HalvesStep ==
  ASSUME IInv, Halves, NEW t \in Threads, Step(t)
  PROVE  Halves'
<1> TypeOK
  BY DEF IInv
<1>1. ASSUME NEW u \in Threads, pc'[u] \in Splitting
      PROVE  s'[u][1] # s'[u][2] /\ (INPLACE => s'[u][1] = target'[u])
  <2>1. CASE u = t /\ Split(t)
    BY <2>1, SplitStep
  <2>2. CASE ~ (u = t /\ Split(t))
    <3>1. pc[u] \in Splitting
      BY <1>1, <2>2, Course, Others
    <3>2. u # t \/ ~ FinishSplit(t)
      BY <1>1 DEF FinishSplit, Goto, TypeOK, Splitting
    <3>3. QED
      BY <3>1, <3>2, SplitStays DEF Halves
  <2>3. QED
    BY <2>1, <2>2
<1>2. QED
  BY <1>1 DEF Halves

\* Every step keeps what a split allocated unknown to the other threads.
LEMMA UnbornStep ==
  ASSUME IInv, Structure, SplitsApart', NEW t \in Threads, Step(t)
  PROVE  Unborn'
<1> TypeOK /\ Allocated
  BY DEF IInv
<1> Redirecting /\ Unborn /\ Halves
  BY DEF Structure
<1>1. ASSUME NEW u \in Threads, pc'[u] \in Preparing, NEW h \in NewHalves(u)'
      PROVE  /\ local_depth'[h] = local_depth'[target'[u]] + 1
             /\ \A k \in Keys : ~ Heads(k, h)' /\ Route(k)' # h
             /\ \A v \in Threads :
                  /\ pc'[v] \notin {"retry", "read"} => target'[v] # h
                  /\ v # u /\ pc'[v] \in Preparing => h \notin NewHalves(v)'
  <2>1. CASE u = t /\ Split(t)
    <3>1. h \notin 1..nsegs /\ local_depth'[h] = local_depth'[target'[u]] + 1
      BY <1>1, <2>1, SplitStep
    <3>2. ~ Divides(t) /\ ~ Publish(t) /\ ~ StoreEntry(t) /\ ~ FinishSplit(t)
      BY <2>1 DEF Split, Divides, LockDirectory, Publish, StoreEntry, FinishSplit
    <3>3. \A k \in Keys : ~ Heads(k, h)' /\ Route(k)' # h
      BY <3>1, <3>2, HeadsStep, HeadsType, RouteStep, RouteType
    <3>4. ASSUME NEW v \in Threads, pc'[v] \notin {"retry", "read"} PROVE target'[v] # h
      <4>1. pc[v] \notin {"retry", "read"}
        BY <2>1, <3>4, Others DEF Split
      <4>2. target[v] \in 1..nsegs /\ target'[v] = target[v]
        BY <2>1, <4>1, TargetType, SplitStep DEF TypeOK
      <4>3. QED
        BY <3>1, <4>2
    <3>5. ASSUME NEW v \in Threads, v # u, pc'[v] \in Preparing PROVE h \notin NewHalves(v)'
      <4>1. pc[v] \in Splitting
        BY <2>1, <3>5, PreparingKept
      <4>2. NewHalves(v)' \subseteq 1..nsegs
        <5>1. NewHalves(v)' = NewHalves(v)
          BY <3>2, <4>1, SplitStays
        <5>2. s[v][1] \in 1..nsegs /\ s[v][2] \in 1..nsegs
          BY <4>1 DEF Allocated
        <5>3. QED
          BY <5>1, <5>2 DEF NewHalves
      <4>3. QED
        BY <3>1, <4>2
    <3>6. QED
      BY <3>1, <3>3, <3>4, <3>5
  <2>2. CASE ~ (u = t /\ Split(t))
    <3>1. /\ pc[u] \in Preparing /\ pc[u] \in Splitting
          /\ u # t \/ (~ FinishSplit(t) /\ ~ Divides(t))
      BY <1>1, <2>2, PreparingKept
    <3>2. /\ h \in NewHalves(u) /\ target'[u] = target[u]
          /\ local_depth'[target[u]] = local_depth[target[u]]
      BY <1>1, <3>1, SplitStays
    <3>3. /\ local_depth[h] = local_depth[target[u]] + 1
          /\ \A k \in Keys : ~ Heads(k, h) /\ Route(k) # h
          /\ \A v \in Threads :
               /\ pc[v] \notin {"retry", "read"} => target[v] # h
               /\ v # u /\ pc[v] \in Preparing => h \notin NewHalves(v)
      BY <3>1, <3>2 DEF Unborn
    <3>4. h \in 1..nsegs
      BY <3>1, <3>2 DEF NewHalves, Allocated
    <3>5. local_depth'[h] = local_depth[h]
      <4>1. ~ (FinishSplit(t) /\ h = target[t])
        BY <3>3 DEF FinishSplit
      <4>2. QED
        BY <3>4, <4>1, LocalDepthGrows
    <3>6. ASSUME NEW k \in Keys PROVE ~ Heads(k, h)' /\ Route(k)' # h
      <4>1. CASE Divides(t)
        <5>1. /\ u # t /\ pc[t] \in Preparing /\ pc[t] \in Splitting
              /\ pc[t] \notin {"retry", "read"} /\ ~ StoreEntry(t)
          BY <3>1, <4>1 DEF Divides, LockDirectory, Publish, Preparing, Splitting, StoreEntry
        <5>2. Half(t, k) # h
          BY <3>3, <5>1, NewOrOwn
        <5>3. ~ Heads(k, h)'
          BY <3>3, <4>1, <5>2, HeadsStep
        <5>4. Route(k)' # h
          BY <3>3, <5>1, <5>2, RouteStep
        <5>5. QED
          BY <5>3, <5>4
      <4>2. CASE ~ Divides(t)
        <5>1. ~ Heads(k, h)'
          BY <3>3, <4>2, HeadsStep
        <5>2. k \in Redirects(t) => Half(t, k) # h
          BY <3>3 DEF Heads
        <5>3. Route(k)' # h
          BY <3>3, <4>2, <5>2, RouteStep DEF Divides
        <5>4. QED
          BY <5>1, <5>3
      <4>3. QED
        BY <4>1, <4>2
    <3>7. ASSUME NEW v \in Threads, pc'[v] \notin {"retry", "read"} PROVE target'[v] # h
      <4>1. CASE v = t /\ ReadTarget(t)
        <5>1. target'[t] = Route(Key(t)) /\ todo[t] # <<>>
          BY <4>1 DEF ReadTarget, TypeOK, Allocated, Calling
        <5>2. Key(t) \in Keys
          BY <5>1, CallType
        <5>3. QED
          BY <3>3, <4>1, <5>1, <5>2
      <4>2. CASE ~ (v = t /\ ReadTarget(t))
        BY <3>3, <3>7, <4>2, TargetKept, Others
      <4>3. QED
        BY <4>1, <4>2
    <3>8. ASSUME NEW v \in Threads, v # u, pc'[v] \in Preparing PROVE h \notin NewHalves(v)'
      <4>1. CASE v = t /\ Split(t)
        BY <3>4, <4>1, SplitStep
      <4>2. CASE ~ (v = t /\ Split(t))
        <5>1. pc[v] \in Preparing /\ pc[v] \in Splitting /\ (v # t \/ ~ FinishSplit(t))
          BY <3>8, <4>2, PreparingKept
        <5>2. NewHalves(v)' = NewHalves(v)
          BY <5>1, SplitStays
        <5>3. QED
          BY <3>3, <3>8, <5>1, <5>2
      <4>3. QED
        BY <4>1, <4>2
    <3>9. QED
      BY <3>2, <3>3, <3>5, <3>6, <3>7, <3>8
  <2>3. QED
    BY <2>1, <2>2
<1>2. QED
  BY <1>1 DEF Unborn

\* Every step leaves a thread at work on the segment its key is routed to.
LEMMA CurrentStep ==
  ASSUME IInv, Structure, NEW t \in Threads, Step(t)
  PROVE  Current'
<1> TypeOK
  BY DEF IInv
<1> Redirecting /\ Locking /\ Reading /\ Current
  BY DEF Structure
<1>1. ASSUME NEW u \in Threads, pc'[u] \in {"scan"} \cup Preparing
      PROVE  target'[u] = Route(Key(u))'
  <2>1. /\ pc[u] \in {"check", "scan"} \cup Preparing
        /\ target'[u] = target[u] /\ Key(u)' = Key(u)
    <3>1. CASE u = t
      BY <1>1, <3>1, TargetKept
    <3>2. CASE u # t
      BY <1>1, <3>2, Others DEF Key, Call
    <3>3. QED
      BY <3>1, <3>2
  <2>2. Key(u) \in Keys
    BY <2>1, CallType DEF IInv, Allocated, Preparing
  <2>5. target[u] = Route(Key(u))
    <3>1. CASE u = t /\ CheckTarget(t)
      BY <1>1, <3>1 DEF CheckTarget, Goto, TypeOK, Preparing
    <3>2. CASE ~ (u = t /\ CheckTarget(t))
      <4>1. pc[u] \in {"scan"} \cup Preparing
        <5>1. CASE u = t
          BY <1>1, <3>2, <5>1, Course DEF Split
        <5>2. CASE u # t
          BY <1>1, <5>2, Others
        <5>3. QED
          BY <5>1, <5>2
      <4>2. QED
        BY <4>1 DEF Current
    <3>3. QED
      BY <3>1, <3>2
  <2>6. PICK k \in Keys : k = Key(u) /\ k = Key(u)'
    BY <2>1, <2>2
  <2>7. Route(k)' = Route(k)
    <3>1. CASE u = t
      <4>1. ~ Publish(t) /\ ~ StoreEntry(t)
        BY <1>1, <3>1 DEF Publish, StoreEntry, AfterSplit, Goto, TypeOK, Preparing
      <4>2. QED
        BY <4>1, RouteStep
    <3>2. CASE u # t
      <4>1. pc[u] = "scan" \/ Exclusive(u)
        BY <1>1, <3>2, Others DEF Exclusive, Preparing, Splitting
      <4>2. ASSUME Publish(t) \/ StoreEntry(t) PROVE Route(k) # target[t]
        <5>1. Exclusive(t)
          BY <4>2 DEF Publish, StoreEntry, Exclusive, Splitting
        <5>2. QED
          BY <2>5, <2>6, <3>2, <4>1, <5>1, Conflict
      <4>3. k \in Redirects(t) => Route(k) = target[t]
        BY RedirectsType DEF Redirecting
      <4>4. QED
        BY <4>2, <4>3, RouteStep
    <3>3. QED
      BY <3>1, <3>2
  <2>8. Route(Key(u))' = Route(k)'
    BY <2>6 DEF Route, Prefix
  <2>9. QED
    BY <2>1, <2>5, <2>6, <2>7, <2>8
<1>2. QED
  BY <1>1 DEF Current

\* A segment that is split: which keys each half is the destination of afterwards.
LEMMA DividedKeys ==
  ASSUME IInv, Structure, SplitsApart', NEW t \in Threads, Step(t), Divides(t),
         NEW k \in Keys, Heads(k, target[t]), NEW g, g = Half(t, k)
  PROVE  \A l : l = local_depth[target[t]] =>
           /\ DepthToBe(g)' = l + 1
           /\ \A j \in Keys : Heads(j, g)' <=> Prefix(j, l + 1) = Prefix(k, l + 1)
<1> Redirecting /\ Unborn /\ Halves
  BY DEF Structure
<1> TAKE l
<1> HAVE l = local_depth[target[t]]
<1>1. /\ pc[t] \in Preparing /\ pc[t] \in Splitting /\ Exclusive(t)
      /\ pc[t] \notin {"retry", "read"}
  BY DEF Divides, LockDirectory, Publish, Preparing, Splitting, Exclusive
<1>2. /\ g \in 1..nsegs /\ l \in 0..HashBits /\ l < HashBits
  BY <1>1, HalfType
<1>3. g \in NewHalves(t) \/ (INPLACE /\ g = target[t])
  BY <1>1, NewOrOwn
<1>4. DepthToBe(g)' = l + 1
  <2>1. CASE g \in NewHalves(t)
    <3>1. g # target[t] /\ local_depth[g] = l + 1
      BY <1>1, <2>1 DEF Unborn
    <3>2. ASSUME NEW u \in Threads, pc[u] \in {"store", "finish"} PROVE target[u] # g
      <4>1. pc[u] \notin {"retry", "read"}
        BY <3>2
      <4>2. QED
        BY <1>1, <2>1, <4>1 DEF Unborn
    <3>3. DepthToBe(g) = local_depth[g]
      BY <3>2 DEF DepthToBe
    <3>4. QED
      BY <1>2, <3>1, <3>3, DepthToBeStep
  <2>2. CASE g \notin NewHalves(t)
    <3>1. INPLACE /\ g = target[t]
      BY <1>3, <2>2
    <3>2. DepthToBe(g)' = local_depth[g] + 1
      BY <1>2, <3>1, DepthToBeStep
    <3>3. QED
      BY <3>1, <3>2
  <2>3. QED
    BY <2>1, <2>2
<1>5. ASSUME NEW j \in Keys
      PROVE  Heads(j, g)' <=> Prefix(j, l + 1) = Prefix(k, l + 1)
  <2>1. /\ Heads(j, target[t]) <=> Prefix(j, l) = Prefix(k, l)
        /\ Prefix(j, l + 1) = Prefix(k, l + 1) <=>
             Prefix(j, l) = Prefix(k, l) /\ Bit(j, l) = Bit(k, l)
    <3>1. /\ Heads(j, target[t]) <=> Prefix(j, l) = Prefix(Key(t), l)
          /\ Prefix(k, l) = Prefix(Key(t), l)
      BY <1>1, KeysOfTarget
    <3>2. QED
      BY <1>2, <3>1, MoreBits
  <2>2. CASE Heads(j, target[t])
    <3>1. Heads(j, g)' <=> g = Half(t, j)
      BY <2>2, HeadsStep
    <3>2. s[t][1] # s[t][2]
      BY <1>1 DEF Halves
    <3>3. Half(t, j) = g <=> Bit(j, l) = Bit(k, l)
      <4>1. \/ Bit(j, l) = 0 /\ Half(t, j) = s[t][1]
            \/ Bit(j, l) = 1 /\ Half(t, j) = s[t][2]
        BY <1>1, HalfType
      <4>2. \/ Bit(k, l) = 0 /\ g = s[t][1]
            \/ Bit(k, l) = 1 /\ g = s[t][2]
        BY <1>1, HalfType
      <4>3. QED
        BY <3>2, <4>1, <4>2
    <3>4. QED
      BY <2>1, <2>2, <3>1, <3>3
  <2>3. CASE ~ Heads(j, target[t])
    <3>1. Heads(j, g)' <=> Heads(j, g)
      BY <2>3, HeadsStep
    <3>2. ~ Heads(j, g)
      BY <1>1, <1>3, <2>3 DEF Unborn
    <3>3. QED
      BY <2>1, <2>3, <3>1, <3>2
  <2>4. QED
    BY <2>2, <2>3
<1>6. QED
  BY <1>2, <1>4, <1>5

\* Every step leaves the keys of a segment those of one prefix.
LEMMA BlocksStep ==
  ASSUME IInv, IInv', Structure, SplitsApart', NEW t \in Threads, Step(t)
  PROVE  Blocks'
<1> TypeOK
  BY DEF IInv
<1> Redirecting /\ Unborn /\ Halves /\ Blocks
  BY DEF Structure
<1>1. ASSUME NEW g \in Segs, NEW k \in Keys, Heads(k, g)'
      PROVE  \A j \in Keys : Heads(j, g)' <=>
               Prefix(j, DepthToBe(g)') = Prefix(k, DepthToBe(g)')
  <2>1. CASE Divides(t) /\ Heads(k, target[t])
    <3>1. g = Half(t, k)
      BY <1>1, <2>1, HeadsStep
    <3>2. PICK n : n = DepthToBe(g)'
      OBVIOUS
    <3>3. n = local_depth[target[t]] + 1
          /\ \A j \in Keys : Heads(j, g)' <=> Prefix(j, n) = Prefix(k, n)
      BY <2>1, <3>1, <3>2, DividedKeys
    <3>4. QED
      BY <3>2, <3>3
  <2>2. CASE ~ (Divides(t) /\ Heads(k, target[t]))
    <3>1. Heads(k, g)
      BY <1>1, <2>2, HeadsStep
    <3>2. g \in 1..nsegs
      BY <3>1, HeadsType
    <3>3. ~ (Divides(t) /\ g = target[t])
      BY <2>2, <3>1
    <3>4. DepthToBe(g)' = DepthToBe(g)
      BY <3>2, <3>3, DepthToBeStep
    <3>5. ASSUME NEW j \in Keys PROVE Heads(j, g)' <=> Heads(j, g)
      <4>1. CASE Divides(t) /\ Heads(j, target[t])
        <5>1. pc[t] \in Preparing /\ pc[t] \in Splitting
          BY <4>1 DEF Divides, LockDirectory, Publish, Preparing, Splitting
        <5>2. g # target[t] /\ g \notin NewHalves(t)
          BY <3>1, <3>3, <4>1, <5>1 DEF Unborn
        <5>3. g # Half(t, j)
          BY <5>1, <5>2, NewOrOwn
        <5>4. ~ Heads(j, g)
          BY <4>1, <5>2, OneDestination
        <5>5. QED
          BY <4>1, <5>3, <5>4, HeadsStep
      <4>2. CASE ~ (Divides(t) /\ Heads(j, target[t]))
        BY <4>2, HeadsStep
      <4>3. QED
        BY <4>1, <4>2
    <3>6. QED
      BY <3>1, <3>4, <3>5 DEF Blocks
  <2>3. QED
    BY <2>1, <2>2
<1>2. ASSUME NEW g \in Segs, NEW k \in Keys, Heads(k, g)'
      PROVE  \A j \in Keys : Heads(j, g)' <=>
               Prefix(j, DepthToBe(g))' = Prefix(k, DepthToBe(g))'
  BY <1>1, <1>2 DEF Prefix
<1>3. QED
  BY <1>2 DEF Blocks

\* What a step does to the locks.
LEMMA LocksStep ==
  ASSUME TypeOK, NEW t \in Threads, Step(t), NEW g \in Segs, writer'[g] # Nobody
  PROVE  \/ writer'[g] = writer[g] /\ readers'[g] \subseteq readers[g]
         \/ /\ writer'[g] = t /\ target[t] = g /\ target'[t] = g /\ readers'[g] = {}
            /\ pc[t] = "try_lock" /\ pc'[t] = "check"
<1> USE DEF TypeOK, Unlock, Lock, mutexVars
<1>1. CASE LockTarget(t)
  BY <1>1 DEF LockTarget, Goto
<1>2. CASE CheckTarget(t)
  BY <1>2 DEF CheckTarget
<1>3. CASE Put(t) \/ Update(t)
  BY <1>3 DEF Put, Update
<1>4. CASE Delete(t) \/ Get(t)
  BY <1>4 DEF Delete, Get
<1>5. CASE FinishSplit(t)
  BY <1>5 DEF FinishSplit
<1>6. CASE AwaitDirectory(t) \/ ReadTarget(t) \/ TryLockFails(t) \/ Split(t) \/ ReadDirectory(t)
           \/ Suspend(t) \/ Drain(t) \/ DoubleDirectory(t) \/ Publish(t)
           \/ LockDirectory(t) \/ StoreEntry(t) \/ UnlockDirectory(t)
  BY <1>6 DEF AwaitDirectory, ReadTarget, TryLockFails, Split, ReadDirectory, Suspend, Drain,
     DoubleDirectory, Publish, LockDirectory, StoreEntry, UnlockDirectory
<1>7. QED
  BY <1>1, <1>2, <1>3, <1>4, <1>5, <1>6 DEF Step

\* A thread that stops to work on its segment has unlocked it, unless a split
\* without INPLACE is done.
LEMMA LeavesUnlocked ==
  ASSUME TypeOK, NEW t \in Threads, Step(t), NEW g \in Segs, Busy(t, g), writer'[g] = t
  PROVE  Busy(t, g)' \/ (~ INPLACE /\ (Publish(t) \/ UnlockDirectory(t)))
<1> t # Nobody
  BY ConstantAssumption
<1> USE DEF TypeOK, Unlock, Goto, Return, AfterSplit, Busy, Splitting
<1>1. CASE AwaitDirectory(t) \/ ReadTarget(t) \/ LockTarget(t) \/ TryLockFails(t)
  BY <1>1 DEF AwaitDirectory, ReadTarget, LockTarget, TryLockFails
<1>2. CASE CheckTarget(t)
  BY <1>2 DEF CheckTarget
<1>3. CASE Put(t) \/ Update(t)
  BY <1>3 DEF Put, Update
<1>4. CASE Delete(t) \/ Get(t)
  BY <1>4 DEF Delete, Get
<1>5. CASE Split(t) \/ ReadDirectory(t) \/ Suspend(t) \/ Drain(t)
  BY <1>5 DEF Split, ReadDirectory, Suspend, Drain
<1>6. CASE DoubleDirectory(t) \/ Publish(t)
  BY <1>6 DEF DoubleDirectory, Publish
<1>7. CASE LockDirectory(t) \/ StoreEntry(t) \/ UnlockDirectory(t) \/ FinishSplit(t)
  BY <1>7 DEF LockDirectory, StoreEntry, UnlockDirectory, FinishSplit
<1>8. QED
  BY <1>1, <1>2, <1>3, <1>4, <1>5, <1>6, <1>7 DEF Step

\* A segment that nobody is led to stays so.
LEMMA OrphansStay ==
  ASSUME IInv, Structure, SplitsApart', NEW t \in Threads, Step(t),
         NEW g \in 1..nsegs, Orphaned(g)
  PROVE  Orphaned(g)'
<1> TypeOK
  BY DEF IInv
<1> Redirecting /\ Halves
  BY DEF Structure
<1>1. ASSUME NEW k \in Keys PROVE Route(k)' # g /\ ~ Heads(k, g)'
  <2>1. CASE Divides(t)
    <3>1. pc[t] \in Preparing /\ pc[t] \in Splitting /\ ~ StoreEntry(t)
      BY <2>1 DEF Divides, LockDirectory, Publish, Preparing, Splitting, StoreEntry
    <3>2. Half(t, k) = g => g = target[t]
      BY <3>1, NewOrOwn DEF Orphaned
    <3>3. Route(k)' # g
      BY <3>1, <3>2, RouteStep DEF Orphaned
    <3>4. ~ Heads(k, g)'
      BY <2>1, <3>2, HeadsStep DEF Orphaned
    <3>5. QED
      BY <3>3, <3>4
  <2>2. CASE ~ Divides(t)
    <3>1. k \in Redirects(t) => Half(t, k) # g
      BY DEF Orphaned, Heads
    <3>2. Route(k)' # g
      BY <2>2, <3>1, RouteStep DEF Orphaned, Divides
    <3>3. ~ Heads(k, g)'
      BY <2>2, HeadsStep DEF Orphaned
    <3>4. QED
      BY <3>2, <3>3
  <2>3. QED
    BY <2>1, <2>2
<1>2. ASSUME NEW u \in Threads, pc'[u] \in Preparing PROVE g \notin NewHalves(u)'
  <2>1. CASE u = t /\ Split(t)
    BY <2>1, SplitStep
  <2>2. CASE ~ (u = t /\ Split(t))
    <3>1. pc[u] \in Preparing /\ pc[u] \in Splitting /\ (u # t \/ ~ FinishSplit(t))
      BY <1>2, <2>2, PreparingKept
    <3>2. NewHalves(u)' = NewHalves(u)
      BY <3>1, SplitStays
    <3>3. QED
      BY <3>1, <3>2 DEF Orphaned
  <2>3. QED
    BY <2>1, <2>2
<1>3. QED
  BY <1>1, <1>2 DEF Orphaned

\* A segment that a split without INPLACE leaves locked is one nobody is led to.
LEMMA Orphaning ==
  ASSUME IInv, Structure, SplitsApart', NEW t \in Threads, Step(t),
         ~ INPLACE, Publish(t) \/ UnlockDirectory(t), NEW g, g = target[t]
  PROVE  Orphaned(g)'
<1> TypeOK
  BY DEF IInv
<1> Redirecting /\ Halves /\ Unborn /\ Abandoned /\ Locking /\ Reading
  BY DEF Structure
<1>1. /\ pc[t] \in {"publish", "store"} /\ pc[t] \in Splitting /\ Exclusive(t)
      /\ target'[t] = target[t] /\ pc'[t] = "retry"
  BY DEF Publish, UnlockDirectory, Splitting, Exclusive, AfterSplit, Goto, TypeOK
<1>2. ASSUME NEW k \in Keys PROVE Route(k)' # g /\ ~ Heads(k, g)'
  <2>1. CASE Publish(t)
    <3>1. Half(t, k) # target[t]
      <4>1. Half(t, k) \in NewHalves(t)
        BY <1>1, NewOrOwn
      <4>2. pc[t] \in Preparing /\ pc[t] \notin {"retry", "read"}
        BY <2>1 DEF Publish, Preparing
      <4>3. QED
        BY <4>1, <4>2 DEF Unborn
    <3>2. Divides(t)
      BY <2>1 DEF Divides
    <3>3. QED
      BY <2>1, <3>1, <3>2, RouteStep, HeadsStep
  <2>2. CASE UnlockDirectory(t)
    <3>1. ~ Divides(t) /\ ~ Publish(t) /\ ~ StoreEntry(t) /\ pc[t] = "store" /\ stores[t] = <<>>
      BY <2>2 DEF UnlockDirectory, Divides, LockDirectory, Publish, StoreEntry
    <3>2. ~ Heads(k, target[t])
      BY <3>1 DEF Abandoned
    <3>3. k \notin Redirects(t)
      BY <3>1 DEF Redirects
    <3>4. Route(k) # target[t]
      BY <1>1, <3>2, <3>3, Settled
    <3>5. QED
      BY <3>1, <3>2, <3>4, RouteStep, HeadsStep
  <2>3. QED
    BY <2>1, <2>2
<1>3. ASSUME NEW u \in Threads, pc'[u] \in Preparing PROVE g \notin NewHalves(u)'
  <2>1. pc[t] \notin {"retry", "read"} /\ u # t
    BY <1>1, <1>3 DEF Preparing
  <2>2. pc[u] \in Preparing /\ pc[u] \in Splitting
    BY <1>3, <2>1, PreparingKept
  <2>3. NewHalves(u)' = NewHalves(u)
    BY <2>1, <2>2, SplitStays
  <2>4. QED
    BY <2>1, <2>2, <2>3 DEF Unborn
<1>4. QED
  BY <1>1, <1>2, <1>3 DEF Orphaned

\* Every step keeps what a lock means.
LEMMA LockingStep ==
  ASSUME IInv, IInv', Structure, SplitsApart', NEW t \in Threads, Step(t)
  PROVE  Locking'
<1> TypeOK /\ Allocated
  BY DEF IInv
<1> Locking
  BY DEF Structure
<1>1. ASSUME NEW g \in Segs, writer'[g] # Nobody
      PROVE  readers'[g] = {} /\ g <= nsegs' /\ (Busy(writer[g], g)' \/ Orphaned(g)')
  <2>1. CASE writer'[g] = writer[g] /\ readers'[g] \subseteq readers[g]
    <3>1. readers[g] = {} /\ g <= nsegs /\ (Busy(writer[g], g) \/ Orphaned(g))
      BY <1>1, <2>1 DEF Locking
    <3>2. g \in 1..nsegs /\ g <= nsegs'
      <4>1. g \in Nat /\ g # 0 /\ nsegs \in Nat /\ nsegs' \in Nat /\ nsegs <= nsegs'
        BY Grows, Bounds
      <4>2. QED
        BY <3>1, <4>1
    <3>3. PICK w \in Threads : w = writer[g] /\ w = writer'[g]
      BY <1>1, <2>1 DEF TypeOK
    <3>4. CASE Orphaned(g)
      BY <2>1, <3>1, <3>2, <3>4, OrphansStay
    <3>5. CASE Busy(w, g)
      <4>1. Busy(w, g)' \/ Orphaned(g)'
        <5>1. CASE w # t
          BY <3>5, <5>1, Others DEF Busy
        <5>2. CASE w = t
          <6>1. target[t] = g
            BY <3>5, <5>2 DEF Busy
          <6>2. QED
            BY <3>3, <3>5, <5>2, <6>1, LeavesUnlocked, Orphaning
        <5>3. QED
          BY <5>1, <5>2
      <4>2. Busy(w, g)' => Busy(writer[g], g)'
        BY <3>3 DEF Busy
      <4>3. QED
        BY <2>1, <3>1, <3>2, <4>1, <4>2
    <3>6. QED
      BY <3>1, <3>3, <3>4, <3>5
  <2>2. CASE /\ writer'[g] = t /\ target[t] = g /\ target'[t] = g /\ readers'[g] = {}
             /\ pc[t] = "try_lock" /\ pc'[t] = "check"
    <3>1. g \in 1..nsegs /\ nsegs \in Nat /\ nsegs' \in Nat /\ nsegs <= nsegs'
      BY <2>2, Grows, TargetType
    <3>2. g <= nsegs'
      BY <3>1
    <3>3. Busy(writer[g], g)'
      BY <2>2 DEF Busy
    <3>4. QED
      BY <2>2, <3>2, <3>3
  <2>3. QED
    BY <1>1, <2>1, <2>2, LocksStep
<1>2. QED
  BY <1>1 DEF Locking

\* A step of a thread takes no shared lock from another.
LEMMA ReadersOfOthers ==
  ASSUME TypeOK, NEW t \in Threads, Step(t), NEW u \in Threads, u # t,
         NEW seg \in Segs, u \in readers[seg]
  PROVE  u \in readers'[seg]
<1> USE DEF Unlock, Lock, mutexVars
<1> DOMAIN readers = Segs
  BY DEF TypeOK
<1>1. CASE LockTarget(t)
  <2>1. readers' = readers \/ readers' = [readers EXCEPT ![target[t]] = @ \cup {t}]
    BY <1>1 DEF LockTarget
  <2>2. readers'[seg] = readers[seg] \/ readers'[seg] = readers[seg] \cup {t}
    BY <2>1
  <2>3. QED
    BY <2>2
<1>2. CASE CheckTarget(t)
  <2>1. readers' = readers \/ readers' = [readers EXCEPT ![target[t]] = @ \ {t}]
    BY <1>2 DEF CheckTarget
  <2>2. readers'[seg] = readers[seg] \/ readers'[seg] = readers[seg] \ {t}
    BY <2>1
  <2>3. QED
    BY <2>2
<1>3. CASE Put(t) \/ Update(t) \/ Delete(t) \/ Get(t)
  <2>1. readers' = [readers EXCEPT ![target[t]] = @ \ {t}]
    BY <1>3 DEF Put, Update, Delete, Get
  <2>2. readers'[seg] = readers[seg] \/ readers'[seg] = readers[seg] \ {t}
    BY <2>1
  <2>3. QED
    BY <2>2
<1>4. CASE FinishSplit(t)
  BY <1>4 DEF FinishSplit
<1>5. CASE AwaitDirectory(t) \/ ReadTarget(t) \/ TryLockFails(t) \/ Split(t) \/ ReadDirectory(t)
           \/ Suspend(t) \/ Drain(t) \/ DoubleDirectory(t) \/ Publish(t)
           \/ LockDirectory(t) \/ StoreEntry(t) \/ UnlockDirectory(t)
  BY <1>5 DEF AwaitDirectory, ReadTarget, TryLockFails, Split, ReadDirectory, Suspend, Drain,
     DoubleDirectory, Publish, LockDirectory, StoreEntry, UnlockDirectory
<1>6. QED
  BY <1>1, <1>2, <1>3, <1>4, <1>5 DEF Step

\* Every step leaves the readers their locks.
LEMMA ReadingStep ==
  ASSUME IInv, Reading, NEW t \in Threads, Step(t)
  PROVE  Reading'
<1> TypeOK
  BY DEF IInv
<1>1. ASSUME NEW u \in Threads, u # t, pc'[u] \in {"check", "scan"}, Calling(u, "Get")'
      PROVE  u \in readers'[target'[u]]
  <2>1. /\ pc[u] \in {"check", "scan"} /\ Calling(u, "Get") /\ target'[u] = target[u]
    BY <1>1, Others DEF Calling, Call
  <2>2. u \in readers[target[u]] /\ target[u] \in Segs
    BY <2>1, TargetType DEF Reading, IInv
  <2>3. u \in readers'[target[u]]
    BY <1>1, <2>2, ReadersOfOthers
  <2>4. QED
    BY <2>1, <2>3
<1>2. ASSUME pc'[t] \in {"check", "scan"}, Calling(t, "Get")'
      PROVE  t \in readers'[target'[t]]
  <2>1. LockTarget(t) \/ (CheckTarget(t) /\ pc'[t] = "scan")
    BY <1>2 DEF Step, AwaitDirectory, ReadTarget, TryLockFails, CheckTarget,
       Put, Update, Delete, Get, Split, ReadDirectory, Suspend, Drain, DoubleDirectory, Publish,
       LockDirectory, StoreEntry, UnlockDirectory, FinishSplit, AfterSplit, Return, Goto, TypeOK
  <2>2. CASE LockTarget(t)
    <3>1. target[t] \in Segs /\ Calling(t, "Get")
      BY <1>2, <2>2, TargetType DEF IInv, LockTarget, Calling, Call, callVars
    <3>2. QED
      BY <2>2, <3>1 DEF LockTarget, TypeOK
  <2>3. CASE CheckTarget(t) /\ pc'[t] = "scan"
    <3>1. /\ pc[t] = "check" /\ Calling(t, "Get") /\ target' = target /\ readers' = readers
      BY <1>2, <2>3 DEF CheckTarget, Calling, Call, callVars, Goto, TypeOK, mutexVars
    <3>2. QED
      BY <3>1 DEF Reading
  <2>4. QED
    BY <2>1, <2>2, <2>3
<1>3. QED
  BY <1>1, <1>2 DEF Reading

\* Every step leaves a segment that was split without INPLACE without keys.
LEMMA AbandonedStep ==
  ASSUME IInv, Structure, SplitsApart', NEW t \in Threads, Step(t)
  PROVE  Abandoned'
<1> SUFFICES ASSUME ~ INPLACE, NEW u \in Threads
             PROVE  /\ pc'[u] # "finish"
                    /\ pc'[u] = "store" => \A k \in Keys : ~ Heads(k, target[u])'
  BY DEF Abandoned
<1> TypeOK
  BY DEF IInv
<1> Abandoned /\ Unborn /\ Halves
  BY DEF Structure
<1>1. pc'[u] # "finish"
  BY ZenonT(30), Course, Others DEF Publish, UnlockDirectory, AfterSplit, Goto, TypeOK, Abandoned
<1>2. ASSUME pc'[u] = "store", NEW k \in Keys PROVE ~ Heads(k, target[u])'
  <2>1. CASE u = t /\ LockDirectory(t)
    <3>1. /\ pc[t] \in Preparing /\ pc[t] \in Splitting /\ pc[t] \notin {"retry", "read"}
          /\ target' = target /\ Divides(t)
      BY <2>1 DEF LockDirectory, Preparing, Splitting, Divides
    <3>2. Half(t, k) # target[t]
      BY <3>1, NewOrOwn DEF Unborn
    <3>3. ~ Heads(k, target[t])'
      <4>1. \A g : Heads(k, g)' <=> IF Heads(k, target[t]) THEN g = Half(t, k) ELSE Heads(k, g)
        BY <3>1, HeadsStep
      <4>2. PICK g : g = target[t] /\ g = target'[t]
        BY <3>1
      <4>3. ~ Heads(k, g)'
        BY <3>2, <4>1, <4>2
      <4>4. QED
        BY <4>2, <4>3 DEF Heads
    <3>4. QED
      BY <2>1, <3>3
  <2>2. CASE ~ (u = t /\ LockDirectory(t))
    <3>1. pc[u] = "store" /\ pc[u] \in Splitting /\ (u # t \/ ~ FinishSplit(t))
          /\ pc[u] \notin {"retry", "read"}
      BY <1>2, <2>2, RedirectionKept DEF FinishSplit, Splitting
    <3>2. PICK g : g = target[u] /\ g = target'[u]
      BY <3>1, SplitStays
    <3>3. ~ Heads(k, g)
      BY <3>1, <3>2 DEF Abandoned
    <3>4. ~ Heads(k, g)'
      <4>1. CASE Divides(t)
        <5>1. pc[t] \in Preparing /\ pc[t] \in Splitting
          BY <4>1 DEF Divides, LockDirectory, Publish, Preparing, Splitting
        <5>2. Half(t, k) \in NewHalves(t)
          BY <5>1, NewOrOwn
        <5>3. Half(t, k) # g
          BY ZenonT(30), <3>1, <3>2, <5>1, <5>2 DEF Unborn
        <5>4. QED
          BY <3>3, <4>1, <5>3, HeadsStep
      <4>2. CASE ~ Divides(t)
        BY <3>3, <4>2, HeadsStep
      <4>3. QED
        BY <4>1, <4>2
    <3>5. QED
      BY <3>2, <3>4 DEF Heads
  <2>3. QED
    BY <2>1, <2>2
<1>3. QED
  BY <1>1, <1>2

\* Every step leaves a segment that a new directory splits as deep as the old one.
LEMMA AsDeepStep ==
  ASSUME IInv, AsDeep, NEW t \in Threads, Step(t)
  PROVE  AsDeep'
<1> TypeOK /\ Allocated /\ Depths /\ Counted /\ HeldDirectoryIsCurrent
  BY DEF IInv
<1>1. ASSUME NEW u \in Threads, pc'[u] = "publish"
      PROVE  local_depth'[target'[u]] = depth'[dir']
  <2>1. pc[u] \in Splitting /\ (u # t \/ ~ FinishSplit(t)) /\ pc[u] \in {"double", "publish"}
        /\ (u = t => pc[u] = "double")
    BY <1>1, Course, Others DEF DoubleDirectory, FinishSplit, Splitting
  <2>2. target'[u] = target[u] /\ local_depth'[target[u]] = local_depth[target[u]]
    BY <2>1, SplitStays
  <2>3. ~ Publish(t)
    BY <1>1, <2>1, Others DEF Publish, Counted, Doublers
  <2>4. depth'[dir'] = depth[dir]
    BY <2>3, DirectoryFrame, DepthGrows DEF Allocated
  <2>5. local_depth[target[u]] = depth[dir]
    <3>1. CASE pc[u] = "publish"
      BY <3>1 DEF AsDeep
    <3>2. CASE pc[u] = "double"
      BY <3>2 DEF HeldDirectoryIsCurrent, Depths, DepthsOf
    <3>3. QED
      BY <2>1, <3>1, <3>2
  <2>6. QED
    BY <2>2, <2>4, <2>5
<1>2. QED
  BY <1>1 DEF AsDeep

-----------------------------------------------------------------------------
(* The pairs.                                                              *)

\* The pairs a Get of k that ran alone would find.
PairsOf(k) == Matching(Route(k), k)

\* The steps that write to a segment others can reach.
Writes(t) == Put(t) \/ Update(t) \/ Delete(t)

\* A key has one pair at most.
Single == \A k \in Keys : \A p, q \in PairsOf(k) : p = q

\* A key that is still to be inserted has none.
Absent ==
  /\ FreshInserts(todo)
  /\ \A t \in Threads : \A j \in Inserted(todo, t) : PairsOf(todo[t][j].key) = {}

\* What is to be shown of the pairs, and of all there is.
Contents == Copies /\ Single /\ Absent
MInv == Structure /\ Contents

\* Which steps change the pairs of a segment.
LEMMA SlotsStep ==
  ASSUME IInv, NEW t \in Threads, Step(t), NEW g \in 1..nsegs
  PROVE  \/ slots'[g] = slots[g]
         \/ Writes(t) /\ g = target[t]
<1> TypeOK
  BY DEF IInv
<1> g \in Segs
  BY Bounds
<1>1. CASE Put(t)
  BY <1>1 DEF Put, Writes, TypeOK
<1>2. CASE Update(t)
  BY <1>2 DEF Update, Writes, TypeOK
<1>3. CASE Delete(t)
  BY <1>3 DEF Delete, Writes, TypeOK
<1>4. CASE Split(t)
  <2>1. g # nsegs + 1 /\ g # nsegs + 2
    BY Bounds
  <2>2. QED
    BY <1>4, <2>1 DEF Split
<1>5. CASE ~ Put(t) /\ ~ Update(t) /\ ~ Delete(t) /\ ~ Split(t)
  BY <1>5 DEF Step, AwaitDirectory, ReadTarget, LockTarget, TryLockFails, CheckTarget, Get,
     ReadDirectory, Suspend, Drain, DoubleDirectory, Publish, LockDirectory, StoreEntry,
     UnlockDirectory, FinishSplit, segVars
<1>6. QED
  BY <1>1, <1>2, <1>3, <1>4, <1>5

\* A thread that writes has its segment for itself.
LEMMA WriterType ==
  ASSUME IInv, Structure, NEW t \in Threads, Writes(t)
  PROVE  /\ pc[t] = "scan" /\ Exclusive(t) /\ Key(t) \in Keys /\ target[t] \in Segs
         /\ target[t] \in 1..nsegs /\ Route(Key(t)) = target[t] /\ Call(t) \in Calls
         /\ \A k \in Keys : Route(k) = target[t] => Heads(k, target[t])
         /\ ~ Split(t) /\ ~ Publish(t) /\ ~ StoreEntry(t) /\ ~ LockDirectory(t) /\ ~ FinishSplit(t)
<1> TypeOK /\ Allocated
  BY DEF IInv
<1> Redirecting /\ Locking /\ Reading /\ Current
  BY DEF Structure
<1>1. /\ pc[t] = "scan" /\ todo[t] # <<>> /\ ~ Calling(t, "Get")
      /\ ~ Publish(t) /\ ~ StoreEntry(t) /\ ~ LockDirectory(t) /\ ~ FinishSplit(t)
  BY DEF Writes, Put, Update, Delete, Calling, Publish, StoreEntry, LockDirectory, FinishSplit
<1>2. ~ Split(t)
  BY DEF Writes, Put, Update, Delete, Split, Goto, Return, Calling, TypeOK
<1>3. Exclusive(t) /\ \A k : k \notin Redirects(t)
  BY <1>1 DEF Exclusive, Redirects
<1>4. \A k \in Keys : Route(k) = target[t] => Heads(k, target[t])
  BY <1>3, Settled
<1>5. QED
  BY <1>1, <1>2, <1>3, <1>4, CallType, TargetType DEF Current

\* What a write leaves of a key's pairs that is not its own: an insertion overwrites
\* only pairs whose keys have left the segment.
LEMMA TouchedPairs ==
  ASSUME IInv, Structure, NEW t \in Threads, Writes(t),
         NEW g, g = target[t], NEW k \in Keys, k # Key(t), Heads(k, g)
  PROVE  Matching(g, k)' = Matching(g, k)
<1> TypeOK
  BY DEF IInv
<1> Locking /\ Reading /\ Blocks
  BY DEF Structure
<1>1. /\ Exclusive(t) /\ pc[t] = "scan" /\ Key(t) \in Keys /\ g \in Segs /\ Heads(Key(t), g)
  BY WriterType
<1>2. DepthToBe(g) = local_depth[g]
  BY <1>1, OwnDepth
<1>3. Prefix(k, local_depth[g]) = Prefix(Key(t), local_depth[g])
  BY <1>1, <1>2 DEF Blocks
<1>4. CASE Put(t)
  <2>0. PICK dead \in Reusable(g, Key(t)) :
          \E p : p.key = Key(t) /\ slots' = [slots EXCEPT ![g] = (@ \ dead) \cup {p}]
    BY <1>4 DEF Put
  <2>1. PICK p : p.key = Key(t) /\ slots' = [slots EXCEPT ![g] = (@ \ dead) \cup {p}]
    BY <2>0
  <2>2. slots'[g] = (slots[g] \ dead) \cup {p}
    BY <1>1, <2>1 DEF TypeOK
  <2>3. \A q \in dead : q \notin Own(g, Key(t)) /\ q \in slots[g]
    BY DEF Reusable
  <2>4. \A q \in dead : q.key # k
    BY <1>3, <2>3 DEF Own
  <2>5. \A q : q \in slots'[g] /\ q.key = k <=> q \in slots[g] /\ q.key = k
    BY <2>1, <2>2, <2>4
  <2>6. QED
    BY <2>5 DEF Matching
<1>5. CASE Update(t)
  <2> DEFINE p == [key |-> Key(t), value |-> Call(t).value]
  <2>1. p.key = Key(t)
    OBVIOUS
  <2>2. \/ slots' = [slots EXCEPT ![g] = (@ \ Matching(g, Key(t))) \cup {p}]
        \/ slots' = [slots EXCEPT ![g] = @]
    BY <1>5 DEF Update
  <2> HIDE DEF p
  <2>3. \/ slots'[g] = (slots[g] \ Matching(g, Key(t))) \cup {p}
        \/ slots'[g] = slots[g]
    BY <1>1, <2>2 DEF TypeOK
  <2>4. \A q : q \in slots'[g] /\ q.key = k <=> q \in slots[g] /\ q.key = k
    BY <2>1, <2>3 DEF Matching
  <2>5. QED
    BY <2>4 DEF Matching
<1>6. CASE Delete(t)
  <2>1. slots'[g] = slots[g] \ Matching(g, Key(t))
    BY <1>1, <1>6 DEF Delete, TypeOK
  <2>2. \A q : q \in slots'[g] /\ q.key = k <=> q \in slots[g] /\ q.key = k
    BY <2>1 DEF Matching
  <2>3. QED
    BY <2>2 DEF Matching
<1>7. QED
  BY <1>4, <1>5, <1>6 DEF Writes

\* What a write leaves of the pairs of its own key.
LEMMA OwnPairs ==
  ASSUME IInv, Structure, NEW t \in Threads, Step(t), Writes(t), NEW k, k = Key(t)
  PROVE  /\ Put(t) => \A p \in PairsOf(k)' :
              p \in PairsOf(k) \/ p = [key |-> k, value |-> Call(t).value]
         /\ Put(t) => [key |-> k, value |-> Call(t).value] \in PairsOf(k)'
         /\ Update(t) => PairsOf(k)' = IF PairsOf(k) = {} THEN {}
                                       ELSE {[key |-> k, value |-> Call(t).value]}
         /\ Delete(t) => PairsOf(k)' = {}
<1> TypeOK
  BY DEF IInv
<1>1. k \in Keys /\ target[t] \in Segs /\ Route(k) = target[t] /\ Route(k)' = Route(k)
  BY WriterType, RouteStep
<1>2. PICK g \in Segs : g = Route(k) /\ g = Route(k)' /\ g = target[t]
  BY <1>1
<1>3. PairsOf(k) = Matching(g, k) /\ PairsOf(k)' = Matching(g, k)'
  BY <1>2 DEF PairsOf, Matching
<1>4. PICK new : new = [key |-> k, value |-> Call(t).value] /\ new.key = k
  <2> DEFINE n == [key |-> k, value |-> Call(t).value]
  <2>1. n.key = k
    OBVIOUS
  <2>2. QED
    BY <2>1, Zenon
<1>5. ASSUME Put(t) PROVE new \in Matching(g, k)' /\ \A p \in Matching(g, k)' : p \in Matching(g, k) \/ p = new
  <2>1. PICK dead : slots' = [slots EXCEPT ![g] = (@ \ dead) \cup {new}]
    BY <1>2, <1>4, <1>5 DEF Put
  <2>2. slots'[g] = (slots[g] \ dead) \cup {new}
    BY <2>1 DEF TypeOK
  <2>3. QED
    BY <1>4, <2>2 DEF Matching
<1>6. ASSUME Update(t)
      PROVE  Matching(g, k)' = IF Matching(g, k) = {} THEN {} ELSE {new}
  <2>1. CASE Matching(g, k) = {}
    <3>1. slots' = [slots EXCEPT ![g] = @]
      BY <1>2, <1>6, <2>1 DEF Update
    <3>2. slots'[g] = slots[g]
      BY <3>1 DEF TypeOK
    <3>3. QED
      BY <2>1, <3>2 DEF Matching
  <2>2. CASE Matching(g, k) # {}
    <3>1. slots' = [slots EXCEPT ![g] = (@ \ Matching(g, k)) \cup {new}]
      BY <1>2, <1>4, <1>6, <2>2 DEF Update
    <3>2. slots'[g] = (slots[g] \ Matching(g, k)) \cup {new}
      BY <3>1 DEF TypeOK
    <3>3. \A p : p \in slots'[g] /\ p.key = k <=> p = new
      BY <1>4, <3>2 DEF Matching
    <3>4. QED
      BY <2>2, <3>3 DEF Matching
  <2>3. QED
    BY <2>1, <2>2
<1>7. ASSUME Delete(t) PROVE Matching(g, k)' = {}
  <2>1. slots' = [slots EXCEPT ![g] = @ \ Matching(g, k)]
    BY <1>2, <1>7 DEF Delete
  <2>2. slots'[g] = slots[g] \ Matching(g, k)
    BY <2>1 DEF TypeOK
  <2>3. QED
    BY <2>2 DEF Matching
<1>8. QED
  BY <1>3, <1>4, <1>5, <1>6, <1>7

\* No other step changes what a Get would find, and a write only of its own key.
LEMMA PairsStep ==
  ASSUME IInv, Structure, Copies, NEW t \in Threads, Step(t), NEW k \in Keys,
         ~ (Writes(t) /\ k = Key(t))
  PROVE  PairsOf(k)' = PairsOf(k)
<1> TypeOK
  BY DEF IInv
<1> Redirecting
  BY DEF Structure
<1>1. Route(k) \in 1..nsegs /\ Route(k) \in Segs
  BY RouteType
<1>2. PICK g \in 1..nsegs : g = Route(k)
  BY <1>1
<1>3. CASE Route(k)' # Route(k)
  <2>1. /\ Publish(t) \/ (StoreEntry(t) /\ Route(k) = target[t])
        /\ Route(k)' = Half(t, k) /\ Matching(Half(t, k), k) = Matching(target[t], k)
    <3>1. CASE Publish(t)
      <4>1. Route(k) = target[t] /\ Route(k)' = Half(t, k)
        BY <1>3, <3>1, RouteStep
      <4>2. pc[t] \in Preparing
        BY <3>1 DEF Publish, Preparing
      <4>3. QED
        BY <3>1, <4>1, <4>2 DEF Copies
    <3>2. CASE StoreEntry(t)
      <4>1. k \in Redirects(t) /\ Route(k)' = Half(t, k)
        BY <1>3, <3>2, RouteStep
      <4>2. Route(k) = target[t]
        BY <4>1, RedirectsType DEF Redirecting
      <4>3. QED
        BY <3>2, <4>1, <4>2 DEF Copies
    <3>3. QED
      BY <1>3, <3>1, <3>2, RouteStep
  <2>2. Route(k) = target[t]
    <3>1. Publish(t) => Route(k) = target[t]
      BY <1>3, RouteStep
    <3>2. QED
      BY <2>1, <3>1
  <2>3. PICK h : h = Half(t, k) /\ h = Route(k)'
    BY <2>1
  <2>4. slots' = slots
    BY <2>1 DEF Publish, StoreEntry, segVars
  <2>5. PairsOf(k)' = Matching(h, k)'
    BY <2>3 DEF PairsOf, Matching
  <2>6. Matching(h, k)' = Matching(h, k)
    BY <2>4 DEF Matching
  <2>7. QED
    BY <2>1, <2>2, <2>3, <2>5, <2>6 DEF PairsOf
<1>4. CASE Route(k)' = Route(k)
  <2>1. PairsOf(k) = Matching(g, k) /\ PairsOf(k)' = Matching(g, k)'
    BY <1>2, <1>4 DEF PairsOf, Matching
  <2>2. Matching(g, k)' = Matching(g, k)
    <3>1. CASE slots'[g] = slots[g]
      BY <3>1 DEF Matching
    <3>2. CASE Writes(t) /\ g = target[t]
      <4>1. Heads(k, g) /\ k # Key(t)
        BY <1>2, <3>2, WriterType
      <4>2. QED
        BY <3>2, <4>1, TouchedPairs
    <3>3. QED
      BY <3>1, <3>2, SlotsStep
  <2>3. QED
    BY <2>1, <2>2
<1>5. QED
  BY <1>3, <1>4

\* A split sorts the pairs by the next bit of their keys.
LEMMA SplitCopies ==
  ASSUME IInv, IInv', Structure, NEW t \in Threads, Step(t), Split(t), NEW k \in Keys
  PROVE  (Matching(Half(t, k), k) = Matching(target[t], k))'
<1> TypeOK
  BY DEF IInv
<1>1. /\ target' = target /\ target[t] \in 1..nsegs /\ target[t] \in Segs
      /\ local_depth'[target[t]] = local_depth[target[t]] /\ nsegs \in Nat
      /\ 1..nsegs \subseteq Segs /\ s'[t][1] # s'[t][2]
      /\ \A h \in NewHalves(t)' : h \in Segs /\ h \notin 1..nsegs
  BY SplitStep, Bounds
<1>2. PICK T \in Segs : T = target[t] /\ T = target'[t]
  BY <1>1
<1> DEFINE left == IF INPLACE THEN T ELSE nsegs + 1
           right == IF INPLACE THEN nsegs + 1 ELSE nsegs + 2
           half0 == {p \in slots[T] : Bit(p.key, local_depth[T]) = 0}
           half1 == {p \in slots[T] : Bit(p.key, local_depth[T]) = 1}
<1>2a. /\ INPLACE => left = T
       /\ half0 = {p \in slots[T] : Bit(p.key, local_depth[T]) = 0}
       /\ half1 = {p \in slots[T] : Bit(p.key, local_depth[T]) = 1}
  OBVIOUS
<1>3. /\ left \in Nat /\ right \in Nat
      /\ s'[t] = <<left, right>>
      /\ slots' = [g \in Segs |-> CASE g = right -> half1
                                    [] g = left /\ ~ INPLACE -> half0
                                    [] OTHER -> slots[g]]
  <2>1. left \in Nat /\ right \in Nat
    BY <1>1, Bounds
  <2>2. /\ s' = [s EXCEPT ![t] = <<left, right>>]
        /\ slots' = [g \in Segs |-> CASE g = right -> half1
                                      [] g = left /\ ~ INPLACE -> half0
                                      [] OTHER -> slots[g]]
    BY <1>2 DEF Split
  <2>3. s'[t] = <<left, right>>
    BY <2>2 DEF TypeOK
  <2>4. QED
    BY <2>1, <2>2, <2>3
<1>3a. right = (IF INPLACE THEN nsegs + 1 ELSE nsegs + 2) /\ left = (IF INPLACE THEN T ELSE nsegs + 1)
  OBVIOUS
<1> HIDE DEF left, right, half0, half1
<1>4. pc'[t] \in Splitting
  BY DEF Split, Goto, TypeOK, Splitting
<1>5. PICK h : h = Half(t, k)'
  OBVIOUS
<1>6. PICK l : l = local_depth[T] /\ l = local_depth'[T]
  BY <1>1, <1>2
<1>7. Bit(k, l) \in {0, 1} /\ h = s'[t][1 + Bit(k, l)]
  <2>1. l \in 0..HashBits /\ l < HashBits
    BY <1>2, <1>6, HashBitsNat DEF Split, TypeOK
  <2>2. Bit(k, l) \in {0, 1}
    BY <2>1, PrefixBit
  <2>3. h = s'[t][1 + Bit(k, local_depth'[target'[t]])]
    BY <1>5 DEF Half, Bit, Prefix
  <2>4. QED
    BY <1>2, <1>6, <2>2, <2>3
<1>8. T \in 1..nsegs /\ T # right /\ (~ INPLACE => T # left) /\ slots'[T] = slots[T]
      /\ right \in Segs /\ (~ INPLACE => left \in Segs) /\ left # right
  <2>1. right \in NewHalves(t)' /\ (~ INPLACE => left \in NewHalves(t)')
    BY <1>3, <1>3a DEF NewHalves
  <2>2. T \in 1..nsegs /\ T # right /\ (~ INPLACE => T # left) /\ right \in Segs
        /\ (~ INPLACE => left \in Segs) /\ left # right
    BY <1>1, <1>2, <1>3, <1>3a, <2>1
  <2>3. QED
    BY <1>3, <2>2
<1>9. \A p : p \in slots'[h] /\ p.key = k <=> p \in slots[T] /\ p.key = k
  <2>1. CASE Bit(k, l) = 1
    <3>1. h = right /\ slots'[h] = half1
      BY <1>3, <1>7, <1>8, <2>1
    <3>2. QED
      BY <1>2a, <1>6, <2>1, <3>1
  <2>2. CASE Bit(k, l) = 0 /\ ~ INPLACE
    <3>1. h = left /\ slots'[h] = half0
      BY <1>3, <1>7, <1>8, <2>2
    <3>2. QED
      BY <1>2a, <1>6, <2>2, <3>1
  <2>3. CASE Bit(k, l) = 0 /\ INPLACE
    <3>1. h = T
      BY <1>2a, <1>3, <1>7, <2>3
    <3>2. QED
      BY <1>8, <3>1
  <2>4. QED
    BY <1>7, <2>1, <2>2, <2>3
<1>10. Matching(h, k)' = Matching(T, k)'
  BY <1>8, <1>9 DEF Matching
<1>11. QED
  BY <1>2, <1>5, <1>10 DEF Matching

\* Every step keeps the halves of a segment copies of it.
LEMMA CopiesStep ==
  ASSUME IInv, IInv', Structure, Copies, NEW t \in Threads, Step(t)
  PROVE  Copies'
<1> TypeOK
  BY DEF IInv
<1> Redirecting /\ Unborn /\ Halves /\ Current
  BY DEF Structure
<1>1. ASSUME NEW u \in Threads, NEW k \in Keys, pc'[u] \in Preparing \/ k \in Redirects(u)'
      PROVE  (Matching(Half(u, k), k) = Matching(target[u], k))'
  <2>1. CASE u = t /\ Split(t)
    BY <2>1, SplitCopies
  <2>2. CASE ~ (u = t /\ Split(t))
    <3>1. /\ pc[u] \in Preparing \/ k \in Redirects(u)
          /\ pc[u] \in Splitting /\ Exclusive(u) /\ (u # t \/ ~ FinishSplit(t))
      <4>1. CASE pc'[u] \in Preparing
        BY <2>2, <4>1, PreparingKept
      <4>2. CASE pc'[u] \notin Preparing /\ ~ (u = t /\ LockDirectory(t))
        <5>1. k \in Redirects(u)
          BY <1>1, <4>2, RedirectsStep
        <5>2. QED
          BY <5>1, RedirectsType DEF Splitting, FinishSplit
      <4>3. CASE u = t /\ LockDirectory(t)
        BY <4>3 DEF LockDirectory, Preparing, Splitting, Exclusive, FinishSplit
      <4>4. QED
        BY <4>1, <4>2, <4>3
    <3>2. PICK h, T : h = Half(u, k) /\ h = Half(u, k)' /\ T = target[u] /\ T = target'[u]
      BY <3>1, SplitStays
    <3>3. Matching(h, k) = Matching(T, k)
      BY <3>1, <3>2 DEF Copies
    <3>4. h \in 1..nsegs /\ T \in 1..nsegs
      <4>1. k \in Keys
        OBVIOUS
      <4>2. Half(u, k) \in 1..nsegs
        BY <3>1, HalfType
      <4>3. target[u] \in 1..nsegs
        BY <3>1, TargetType DEF IInv
      <4>4. QED
        BY <3>2, <4>2, <4>3
    <3>5. Matching(T, k)' = Matching(T, k)
      <4>1. ~ (Writes(t) /\ T = target[t])
        <5>1. Writes(t) => u # t /\ Exclusive(t)
          BY <3>1, WriterType DEF Splitting
        <5>2. QED
          BY <3>1, <3>2, <5>1, Conflict
      <4>2. slots'[T] = slots[T]
        BY <3>4, <4>1, SlotsStep
      <4>3. QED
        BY <4>2 DEF Matching
    <3>6. Matching(h, k)' = Matching(h, k)
      <4>1. CASE slots'[h] = slots[h]
        BY <4>1 DEF Matching
      <4>2. CASE Writes(t) /\ h = target[t]
        <5>1. u # t /\ Exclusive(t) /\ pc[t] = "scan" /\ Route(Key(t)) = target[t]
          BY <3>1, <4>2, WriterType DEF Splitting
        <5>2. h # T
          BY <3>1, <3>2, <4>2, <5>1, Conflict
        <5>3. h \in NewHalves(u)
          BY <3>1, <3>2, <5>2, NewOrOwn
        <5>4. k \in Redirects(u)
          <6>1. pc[t] \notin {"retry", "read"}
            BY <5>1
          <6>2. pc[u] \notin Preparing
            BY <4>2, <5>3, <6>1 DEF Unborn
          <6>3. QED
            BY <3>1, <6>2
        <5>5. Heads(k, h)
          BY <3>2, <5>4 DEF Heads
        <5>6. Route(k) = T
          BY <3>2, <5>4, RedirectsType DEF Redirecting
        <5>7. k # Key(t)
          BY <4>2, <5>1, <5>2, <5>6
        <5>8. QED
          BY <4>2, <5>5, <5>7, TouchedPairs
      <4>3. QED
        BY <3>4, <4>1, <4>2, SlotsStep
    <3>7. Matching(h, k)' = Matching(T, k)'
      BY <3>3, <3>5, <3>6
    <3>8. QED
      BY <3>2, <3>7 DEF Matching
  <2>3. QED
    BY <2>1, <2>2
<1>2. QED
  BY <1>1 DEF Copies


-----------------------------------------------------------------------------
(* The calls still to be made.                                             *)

\* A call ends with the step in which it takes effect, and with no other.
LEMMA CallsLeft ==
  ASSUME TypeOK, NEW t \in Threads, Step(t)
  PROVE  IF Writes(t) \/ Get(t) THEN todo' = [todo EXCEPT ![t] = Tail(@)]
                                ELSE todo' = todo /\ ret' = ret
<1>1. CASE Writes(t) \/ Get(t)
  BY <1>1 DEF Writes, Put, Update, Delete, Get, Return
<1>2. CASE ~ Writes(t) /\ ~ Get(t)
  BY <1>2 DEF Step, Writes, AwaitDirectory, ReadTarget, LockTarget, TryLockFails, CheckTarget,
     Split, ReadDirectory, Suspend, Drain, DoubleDirectory, Publish, LockDirectory, StoreEntry,
     UnlockDirectory, FinishSplit, callVars
<1>3. QED
  BY <1>1, <1>2

\* So an insertion to come has been one all along, at its place or the one after it.
LEMMA InsertedBefore ==
  ASSUME IInv, NEW t \in Threads, Step(t), NEW u \in Threads, NEW j \in Inserted(todo', u)
  PROVE  /\ j \in Nat /\ j >= 1
         /\ \/ todo'[u] = todo[u] /\ j \in Inserted(todo, u)
            \/ /\ u = t /\ todo'[u] # todo[u] /\ (Writes(t) \/ Get(t))
               /\ j + 1 \in Inserted(todo, u) /\ todo'[u][j] = todo[u][j + 1]
<1> TypeOK
  BY DEF IInv
<1>1. CASE todo'[u] = todo[u]
  <2>1. j \in 1..Len(todo[u])
    BY <1>1 DEF Inserted, TypeOK
  <2>2. QED
    BY <1>1, <2>1 DEF Inserted, TypeOK
<1>2. CASE todo'[u] # todo[u]
  <2>1. Writes(t) \/ Get(t)
    BY <1>2, CallsLeft
  <2>2. todo[t] # <<>>
    BY <2>1 DEF Writes, Put, Update, Delete, Get, Calling
  <2>3. u = t /\ todo'[t] = Tail(todo[t]) /\ todo[t] \in Seq(Calls)
    BY <1>2, <2>1, CallsLeft DEF TypeOK
  <2>4. j \in 1..Len(Tail(todo[t])) /\ Tail(todo[t])[j].op = "Insert"
    BY <2>2, <2>3 DEF Inserted
  <2>5. j + 1 \in 1..Len(todo[t]) /\ Tail(todo[t])[j] = todo[t][j + 1] /\ j \in Nat /\ j >= 1
    BY <2>2, <2>3, <2>4
  <2>6. QED
    BY <1>2, <2>1, <2>3, <2>4, <2>5 DEF Inserted
<1>3. QED
  BY <1>1, <1>2

\* No key comes to be inserted twice.
LEMMA FreshStep ==
  ASSUME IInv, FreshInserts(todo), NEW t \in Threads, Step(t)
  PROVE  FreshInserts(todo')
<1> SUFFICES ASSUME NEW u \in Threads, NEW w \in Threads,
                    NEW x \in Inserted(todo', u), NEW y \in Inserted(todo', w),
                    todo'[u][x].key = todo'[w][y].key
             PROVE  u = w /\ x = y
  BY DEF FreshInserts
<1>1. ASSUME NEW r \in Threads, NEW n \in Inserted(todo', r)
      PROVE  \E m \in Inserted(todo, r) :
               /\ todo[r][m] = todo'[r][n] /\ n \in Nat
               /\ m = IF todo'[r] = todo[r] THEN n ELSE n + 1
  BY InsertedBefore
<1>2. PICK m \in Inserted(todo, u) :
        /\ todo[u][m] = todo'[u][x] /\ x \in Nat
        /\ m = IF todo'[u] = todo[u] THEN x ELSE x + 1
  BY <1>1
<1>3. PICK n \in Inserted(todo, w) :
        /\ todo[w][n] = todo'[w][y] /\ y \in Nat
        /\ n = IF todo'[w] = todo[w] THEN y ELSE y + 1
  BY <1>1
<1>4. todo[u][m].key = todo[w][n].key
  BY <1>2, <1>3
<1>5. u = w /\ m = n
  BY <1>4 DEF FreshInserts
<1>6. QED
  BY <1>2, <1>3, <1>5

\* An insertion that is under way is the first of those to come.
LEMMA FirstIsInserted ==
  ASSUME IInv, NEW t \in Threads, Put(t)
  PROVE  /\ 1 \in Inserted(todo, t) /\ todo[t][1] = Call(t) /\ todo[t][1].key = Key(t)
         /\ todo[t] # <<>> /\ todo[t] \in Seq(Calls)
<1>1. todo[t] # <<>> /\ todo[t] \in Seq(Calls) /\ Head(todo[t]).op = "Insert"
  BY DEF Put, Calling, Call, IInv, TypeOK
<1>2. 1 \in DOMAIN todo[t] /\ Head(todo[t]) = todo[t][1]
  BY <1>1
<1>3. QED
  BY <1>1, <1>2 DEF Inserted, Call, Key

\* Every step keeps the keys that are still to be inserted absent.
LEMMA AbsentStep ==
  ASSUME IInv, Structure, Contents, NEW t \in Threads, Step(t)
  PROVE  Absent'
<1> FreshInserts(todo) /\ Absent /\ Copies
  BY DEF Contents, Absent
<1>1. ASSUME NEW u \in Threads, NEW j \in Inserted(todo', u)
      PROVE  (PairsOf(todo[u][j].key) = {})'
  <2>1. PICK i \in Inserted(todo, u) :
          /\ todo'[u][j] = todo[u][i]
          /\ i = j \/ (u = t /\ i = j + 1 /\ i # 1)
          /\ i = 1 /\ u = t => ~ Put(t)
    <3>1. CASE todo'[u] = todo[u]
      <4>1. u = t => ~ Put(t)
        <5>1. ASSUME u = t, Put(t) PROVE FALSE
          <6>1. todo'[t] = Tail(todo[t]) /\ todo[t] # <<>> /\ todo[t] \in Seq(Calls)
            BY <5>1, CallsLeft, FirstIsInserted DEF IInv, TypeOK, Writes
          <6>2. Len(Tail(todo[t])) # Len(todo[t])
            BY <6>1
          <6>3. QED
            BY <3>1, <5>1, <6>1, <6>2
        <5>2. QED
          BY <5>1
      <4>2. QED
        BY <3>1, <4>1, InsertedBefore
    <3>2. CASE todo'[u] # todo[u]
      <4>1. j \in Nat /\ j >= 1 /\ u = t /\ j + 1 \in Inserted(todo, u) /\ todo'[u][j] = todo[u][j + 1]
        BY <3>2, InsertedBefore
      <4>2. QED
        BY <4>1
    <3>3. QED
      BY <3>1, <3>2
  <2>2. PICK k : k = todo[u][i].key /\ k = todo'[u][j].key
    BY <2>1
  <2>3. k \in Keys
    <3>1. todo[u] \in Seq(Calls) /\ i \in 1..Len(todo[u]) /\ todo[u][i].op = "Insert"
      BY DEF IInv, TypeOK, Inserted
    <3>2. todo[u][i] \in Calls
      BY <3>1
    <3>3. QED
      BY <2>2, <3>1, <3>2 DEF Calls
  <2>4. PairsOf(k) = {}
    BY <2>2 DEF Absent
  <2>5. PairsOf(k)' = {}
    <3>1. CASE ~ (Writes(t) /\ k = Key(t))
      BY <2>3, <2>4, <3>1, PairsStep
    <3>2. CASE Writes(t) /\ k = Key(t)
      <4>1. ~ Put(t)
        <5>1. ASSUME Put(t) PROVE FALSE
          <6>1. 1 \in Inserted(todo, t) /\ todo[t][1].key = k
            BY <3>2, <5>1, FirstIsInserted
          <6>2. \A m \in Inserted(todo, t) : todo[u][i].key = todo[t][m].key => u = t /\ i = m
            BY Zenon DEF FreshInserts
          <6>2a. u = t /\ i = 1
            BY <2>2, <6>1, <6>2
          <6>3. QED
            BY <2>1, <5>1, <6>2a
        <5>2. QED
          BY <5>1
      <4>2. QED
        BY <2>4, <3>2, <4>1, OwnPairs DEF Writes
    <3>3. QED
      BY <3>1, <3>2
  <2>6. QED
    BY <2>2, <2>5 DEF PairsOf, Matching
<1>2. FreshInserts(todo)'
  BY FreshStep DEF FreshInserts, Inserted
<1>3. QED
  BY <1>1, <1>2 DEF Absent, Inserted

\* Every step leaves a key one pair at most.
LEMMA SingleStep ==
  ASSUME IInv, Structure, Contents, NEW t \in Threads, Step(t)
  PROVE  Single'
<1> Absent /\ Copies /\ Single
  BY DEF Contents
<1>1. ASSUME NEW k \in Keys PROVE \A p, q \in PairsOf(k)' : p = q
  <2>1. CASE ~ (Writes(t) /\ k = Key(t))
    BY <2>1, PairsStep DEF Single
  <2>2. CASE Put(t) /\ k = Key(t)
    <3>1. PairsOf(k) = {}
      BY <2>2, FirstIsInserted DEF Absent
    <3>2. \A p \in PairsOf(k)' : p \in PairsOf(k) \/ p = [key |-> k, value |-> Call(t).value]
      BY <2>2, OwnPairs DEF Writes
    <3>3. QED
      BY <3>1, <3>2
  <2>3. CASE Update(t) /\ k = Key(t)
    <3>1. PairsOf(k)' = IF PairsOf(k) = {} THEN {} ELSE {[key |-> k, value |-> Call(t).value]}
      BY <2>3, OwnPairs DEF Writes
    <3>2. QED
      BY <3>1
  <2>4. CASE Delete(t) /\ k = Key(t)
    BY <2>4, OwnPairs DEF Writes
  <2>5. QED
    BY <2>1, <2>2, <2>3, <2>4 DEF Writes
<1>2. QED
  BY <1>1 DEF Single

-----------------------------------------------------------------------------
(* The invariant.                                                          *)

\* The table starts in a state of the invariant: the keys of a prefix have a
\* segment of their own, and it is empty.
LEMMA InitMInv == Init => MInv
<1> SUFFICES ASSUME Init PROVE MInv
  OBVIOUS
<1>1. /\ dir = 1 /\ nsegs = Pow2[InitDepth] /\ pc = [t \in Threads |-> "retry"]
      /\ depth = [d \in Dirs |-> IF d = 1 THEN InitDepth ELSE 0]
      /\ entry = [d \in Dirs |-> [i \in Index |->
                     IF d = 1 /\ i < Pow2[InitDepth] THEN i + 1 ELSE NULL]]
      /\ local_depth = [g \in Segs |-> IF g <= Pow2[InitDepth] THEN InitDepth ELSE 0]
      /\ slots = [g \in Segs |-> {}] /\ writer = [g \in Segs |-> Nobody] /\ todo \in Workloads
  BY DEF Init
<1>2. InitDepth \in 0..HashBits /\ Pow2[InitDepth] \in Nat /\ 1 \in Dirs /\ Pow2[InitDepth] <= MaxSegs
  <2>1. InitDepth \in 0..HashBits
    BY ConstantAssumption, HashBitsNat
  <2>2. QED
    BY <2>1, Pow2Positive, ConstantAssumption DEF Dirs
<1>3. ASSUME NEW k \in Keys
      PROVE  /\ Prefix(k, InitDepth) \in Nat
             /\ Route(k) = Prefix(k, InitDepth) + 1
             /\ Route(k) \in Segs /\ local_depth[Route(k)] = InitDepth
  <2>1. depth[dir] = InitDepth
    BY <1>1, <1>2
  <2>2. PICK x \in Nat : x = Prefix(k, InitDepth) /\ x < Pow2[InitDepth] /\ x \in Index
    BY <1>2, PrefixBound, Pow2Monotonic DEF Index
  <2>3. entry[dir][x] = x + 1
    BY <1>1, <1>2, <2>2
  <2>4. x + 1 \in Segs /\ x + 1 <= Pow2[InitDepth]
    BY <1>2, <2>2, ConstantAssumption DEF Segs
  <2>5. local_depth[x + 1] = InitDepth
    BY <1>1, <2>4
  <2>6. QED
    BY <2>1, <2>2, <2>3, <2>4, <2>5 DEF Route
<1>4. \A t \in Threads : pc[t] = "retry" /\ Redirects(t) = {}
  BY <1>1 DEF Redirects
<1>5. \A k \in Keys : \A g : Heads(k, g) <=> Route(k) = g
  BY <1>4 DEF Heads
<1>6. \A g : DepthToBe(g) = local_depth[g]
  BY <1>4 DEF DepthToBe
<1>7. Blocks
  <2> SUFFICES ASSUME NEW g \in Segs, NEW k \in Keys, Heads(k, g), NEW l \in Keys
               PROVE  Heads(l, g) <=> Prefix(l, DepthToBe(g)) = Prefix(k, DepthToBe(g))
    BY DEF Blocks
  <2>1. DepthToBe(g) = InitDepth /\ Route(k) = g
    BY <1>3, <1>5, <1>6
  <2>2. Heads(l, g) <=> Prefix(l, InitDepth) + 1 = Prefix(k, InitDepth) + 1
    BY <1>3, <1>5, <2>1
  <2>3. PICK x, y \in Nat : x = Prefix(l, InitDepth) /\ y = Prefix(k, InitDepth)
    BY <1>3
  <2>4. QED
    BY <2>1, <2>2, <2>3
<1>8. Structure
  BY <1>1, <1>4, <1>7 DEF Structure, Redirecting, Halves, Unborn, Current, Locking, Reading,
     Abandoned, AsDeep, Splitting, Preparing
<1>9. \A k \in Keys : PairsOf(k) = {}
  <2>1. \A g \in Segs : slots[g] = {}
    BY <1>1
  <2> SUFFICES ASSUME NEW k \in Keys PROVE PairsOf(k) = {}
    BY Zenon
  <2>2. slots[Route(k)] = {}
    BY <1>3, <2>1
  <2>3. QED
    BY <2>2 DEF PairsOf, Matching
<1>10. FreshInserts(todo) /\ todo \in [Threads -> Seq(Calls)]
  BY <1>1, WorkloadAssumption
<1>11. \A t \in Threads : \A j \in Inserted(todo, t) : todo[t][j].key \in Keys
  <2> SUFFICES ASSUME NEW t \in Threads, NEW j \in Inserted(todo, t) PROVE todo[t][j].key \in Keys
    OBVIOUS
  <2>1. todo[t] \in Seq(Calls)
    BY <1>10
  <2>2. todo[t][j] \in Calls /\ todo[t][j].op = "Insert"
    BY <2>1 DEF Inserted
  <2>3. QED
    BY <2>2 DEF Calls
<1>12. Contents
  BY <1>1, <1>4, <1>9, <1>10, <1>11 DEF Contents, Copies, Single, Absent, Preparing
<1>13. QED
  BY <1>8, <1>12 DEF MInv

\* Every step keeps it, as long as the splits stay apart.
LEMMA StepMInv ==
  ASSUME IInv, IInv', MInv, SplitsApart', NEW t \in Threads, Step(t)
  PROVE  MInv'
<1> Structure /\ Contents
  BY DEF MInv
<1>1. Structure'
  <2>1. Halves' /\ AsDeep'
    BY HalvesStep, AsDeepStep DEF Structure
  <2>2. Redirecting' /\ Unborn'
    BY RedirectingStep, UnbornStep
  <2>3. Current' /\ Blocks'
    BY CurrentStep, BlocksStep
  <2>4. Locking' /\ Abandoned'
    BY LockingStep, AbandonedStep
  <2>5. Reading'
    BY ReadingStep DEF Structure
  <2>6. QED
    BY <2>1, <2>2, <2>3, <2>4, <2>5 DEF Structure
<1>2. Contents'
  BY CopiesStep, SingleStep, AbsentStep DEF Contents
<1>3. QED
  BY <1>1, <1>2 DEF MInv

LEMMA NextMInv == MInv /\ IInv /\ IInv' /\ SplitsApart' /\ [Next]_vars => MInv'
<1> SUFFICES ASSUME MInv, IInv, IInv', SplitsApart', [Next]_vars PROVE MInv'
  OBVIOUS
<1>1. CASE UNCHANGED vars
  <2>1. /\ dir' = dir /\ depth' = depth /\ entry' = entry /\ local_depth' = local_depth
        /\ slots' = slots /\ todo' = todo /\ readers' = readers /\ pc' = pc /\ target' = target
        /\ s' = s /\ stores' = stores
    BY <1>1 DEF vars, dirVars, segVars, mutexVars, callVars, splitVars
  <2>2. /\ \A k \in Keys : Route(k)' = Route(k)
        /\ \A t \in Threads : NewHalves(t)' = NewHalves(t) /\ Key(t)' = Key(t)
        /\ \A t \in Threads, k \in Keys : Half(t, k)' = Half(t, k)
    BY <2>1 DEF Route, Half, NewHalves, Key, Call, Bit, Prefix
  <2>3. \A t \in Threads : Redirects(t)' = Redirects(t)
    BY <2>1 DEF Redirects, Prefix
  <2>4. \A k \in Keys : \A g : Heads(k, g)' <=> Heads(k, g)
    BY <2>2, <2>3 DEF Heads
  <2>5. \A g : DepthToBe(g)' = DepthToBe(g)
    BY <2>1 DEF DepthToBe
  <2>6. \A k \in Keys : \A g : Matching(g, k)' = Matching(g, k)
    BY <2>1 DEF Matching
  <2>7. Redirecting'
    <3>1. \A t \in Threads : \A k \in Redirects(t) : k \in Keys
      BY DEF Redirects
    <3>2. \A t \in Threads, k \in Keys : local_depth'[Half(t, k)'] = local_depth[Half(t, k)]
      BY <2>1, <2>2
    <3>3. \A k : Prefix(k, depth[dir])' = Prefix(k, depth[dir])
      BY <2>1 DEF Prefix
    <3>4. Redirecting
      BY DEF MInv, Structure
    <3>5. QED
      BY <2>1, <2>2, <2>3, <3>1, <3>2, <3>3, <3>4 DEF Redirecting
  <2>8. Halves' /\ AsDeep' /\ Reading'
    BY <2>1 DEF MInv, Structure, Halves, AsDeep, Reading, Calling, Call
  <2>9. Current'
    <3>1. \A t \in Threads : pc[t] = "scan" \/ pc[t] \in Preparing => Route(Key(t))' = Route(Key(t))
      BY <2>1 DEF Route, Key, Call, Prefix
    <3>2. QED
      BY <2>1, <3>1 DEF MInv, Structure, Current
  <2>10. Unborn'
    BY <2>1, <2>2, <2>4 DEF MInv, Structure, Unborn
  <2>11. Blocks'
    BY <2>4, <2>5 DEF MInv, Structure, Blocks, Prefix
  <2>12. Abandoned'
    <3>1. \A t \in Threads, k \in Keys : Heads(k, target[t])' <=> Heads(k, target[t])
      BY <2>1, <2>4 DEF Heads, Redirects, Half, Route, Bit, Prefix
    <3>2. QED
      BY <2>1, <3>1 DEF MInv, Structure, Abandoned
  <2>13. Locking'
    BY <1>1 DEF MInv, Structure, Locking, Orphaned, Busy, Heads, Redirects, Half, NewHalves,
       Bit, Prefix, Route, vars, dirVars, segVars, mutexVars, callVars, splitVars
  <2>14. Copies'
    <3>1. \A t \in Threads, k \in Keys : /\ Matching(Half(t, k), k)' = Matching(Half(t, k), k)
                                         /\ Matching(target[t], k)' = Matching(target[t], k)
      BY <2>1 DEF Matching, Half, Bit, Prefix
    <3>2. QED
      BY <2>1, <2>3, <3>1 DEF MInv, Contents, Copies
  <2>15. Single' /\ Absent'
    <3>1. \A k : PairsOf(k)' = PairsOf(k)
      BY <2>1 DEF PairsOf, Matching, Route, Prefix
    <3>2. Single'
      BY <3>1 DEF MInv, Contents, Single
    <3>3. \A t : Inserted(todo', t) = Inserted(todo, t)
      BY <2>1
    <3>4. FreshInserts(todo') /\ \A t \in Threads : \A j \in Inserted(todo, t) : PairsOf(todo[t][j].key) = {}
      BY <2>1 DEF MInv, Contents, Absent
    <3>5. ASSUME NEW t, NEW j PROVE PairsOf(todo[t][j].key)' = PairsOf(todo[t][j].key)
      BY <2>1 DEF PairsOf, Matching, Route, Prefix
    <3>6. Absent'
      BY <3>3, <3>4, <3>5 DEF Absent
    <3>7. QED
      BY <3>2, <3>6
  <2>16. QED
    BY <2>7, <2>8, <2>9, <2>10, <2>11, <2>12, <2>13, <2>14, <2>15 DEF MInv, Structure, Contents
<1>2. ASSUME NEW t \in Threads, Step(t) PROVE MInv'
  BY <1>2, StepMInv
<1>3. QED
  BY <1>1, <1>2 DEF Next, Terminated

\* So it is an invariant of every behaviour in which they do.
LEMMA InductiveMInv == Spec /\ []SplitsApart => []MInv
BY InitMInv, NextMInv, Inductive, PTL DEF Spec

-----------------------------------------------------------------------------
(* What the map a caller sees has to do with the pairs.                    *)

\* The value of a key that has these pairs.
ValueIn(M) == IF M = {} THEN NONE ELSE (CHOOSE p \in M : TRUE).value

LEMMA TableIs == Table = [k \in Keys |-> ValueIn(PairsOf(k))]
BY Zenon DEF Table, ValueIn, PairsOf

LEMMA TableWillBe == Table' = [k \in Keys |-> ValueIn(PairsOf(k)')]
BY Zenon DEF Table, ValueIn, PairsOf, Matching, Route, Prefix

\* The value of a key that has one pair, or none.
LEMMA ValueOf ==
  ASSUME NEW M, \A p, q \in M : p = q, \A p \in M : p.value \in Values
  PROVE  /\ \A p \in M : ValueIn(M) = p.value
         /\ M = {} => ValueIn(M) = NONE
         /\ M # {} => ValueIn(M) # NONE
<1>1. ASSUME NEW p \in M PROVE ValueIn(M) = p.value /\ p.value # NONE
  <2>1. M # {} /\ (CHOOSE q \in M : TRUE) \in M
    BY Zenon
  <2>2. (CHOOSE q \in M : TRUE) = p
    BY <2>1, Zenon
  <2>3. ValueIn(M) = (CHOOSE q \in M : TRUE).value
    BY <2>1, Zenon DEF ValueIn
  <2>4. ValueIn(M) = p.value
    BY <2>2, <2>3, Zenon
  <2>5. QED
    BY <2>4, WorkloadAssumption
<1>2. M = {} => ValueIn(M) = NONE
  BY Zenon DEF ValueIn
<1>3. M # {} => \E p : p \in M
  OBVIOUS
<1>4. QED
  BY <1>1, <1>2, <1>3

\* The pairs of a key are pairs.
LEMMA PairsType ==
  ASSUME IInv, NEW k \in Keys
  PROVE  \A p \in PairsOf(k) : p.value \in Values
<1>1. slots[Route(k)] \in SUBSET Pair
  BY RouteType DEF IInv, TypeOK
<1>2. \A p \in PairsOf(k) : p \in Pair
  BY <1>1 DEF PairsOf, Matching
<1>3. QED
  BY <1>2 DEF Pair

\* What the map says of a key.
LEMMA TableOf ==
  ASSUME IInv, Single, NEW k \in Keys
  PROVE  /\ Table[k] = ValueIn(PairsOf(k))
         /\ \A p \in PairsOf(k) : Table[k] = p.value
         /\ PairsOf(k) = {} <=> Table[k] = NONE
<1>1. Table[k] = ValueIn(PairsOf(k))
  BY TableIs
<1>2. PICK M : M = PairsOf(k)
  OBVIOUS
<1>3. (\A p, q \in M : p = q) /\ \A p \in M : p.value \in Values
  BY <1>2, PairsType DEF Single
<1>4. QED
  BY <1>1, <1>2, <1>3, ValueOf

\* What a write makes of the map.
LEMMA TableStep ==
  ASSUME IInv, MInv, NEW t \in Threads, Step(t), Writes(t),
         NEW key, key = Key(t)
  PROVE  Table' = [Table EXCEPT ![key] = ValueIn(PairsOf(key)')]
<1> Structure /\ Copies
  BY DEF MInv, Contents
<1>1. key \in Keys
  BY WriterType
<1>2. ASSUME NEW k \in Keys PROVE ValueIn(PairsOf(k)') = IF k = key THEN ValueIn(PairsOf(key)') ELSE Table[k]
  <2>1. CASE k = key
    BY <2>1
  <2>2. CASE k # key
    <3>1. PairsOf(k)' = PairsOf(k)
      BY <2>2, PairsStep
    <3>2. QED
      BY <2>2, <3>1, TableIs
  <2>3. QED
    BY <2>1, <2>2
<1>3. Table' = [k \in Keys |-> IF k = key THEN ValueIn(PairsOf(key)') ELSE Table[k]]
  BY <1>2, TableWillBe
<1>4. Table = [k \in Keys |-> Table[k]]
  BY TableIs
<1>5. QED
  BY <1>1, <1>3, <1>4

\* Every step is a call of the map, or leaves the map and all answers as they are.
LEMMA MapStep ==
  ASSUME IInv, MInv, NEW t \in Threads, Step(t)
  PROVE  Map!Next \/ UNCHANGED Map!vars
<1> TypeOK
  BY DEF IInv
<1> Structure /\ Copies /\ Single /\ Absent /\ Current
  BY DEF MInv, Contents, Structure
<1>1. CASE ~ Writes(t)
  <2>1. Table' = Table
    <3>1. \A k \in Keys : PairsOf(k)' = PairsOf(k)
      BY <1>1, PairsStep
    <3>2. QED
      BY <3>1, TableIs, TableWillBe
  <2>2. CASE ~ Get(t)
    <3>1. todo' = todo /\ ret' = ret
      BY <1>1, <2>2, CallsLeft
    <3>2. QED
      BY <2>1, <3>1 DEF Map!vars
  <2>3. CASE Get(t)
    <3>1. pc[t] = "scan" /\ Calling(t, "Get") /\ todo[t] # <<>>
      BY <2>3 DEF Get, Calling
    <3>2. PICK k \in Keys : k = Key(t) /\ k = Head(todo[t]).key
      BY <3>1, CallType DEF Key, Call
    <3>3. Matching(target[t], k) = PairsOf(k)
      BY <3>1, <3>2 DEF Current, PairsOf
    <3>4. Return(t, Table[k])
      <4>1. CASE PairsOf(k) = {}
        BY <2>3, <3>2, <3>3, <4>1, TableOf DEF Get
      <4>2. CASE PairsOf(k) # {}
        <5>1. PICK p \in PairsOf(k) : Return(t, p.value)
          BY <2>3, <3>2, <3>3, <4>2 DEF Get
        <5>2. QED
          BY <5>1, TableOf
      <4>3. QED
        BY <4>1, <4>2
    <3>5. Map!Get(t)
      BY <2>1, <3>1, <3>2, <3>4 DEF Map!Get, Map!Calling, Map!Return, Calling, Call, Return
    <3>6. QED
      BY <3>5 DEF Map!Next
  <2>4. QED
    BY <2>2, <2>3
<1>2. CASE Writes(t)
  <2>1. todo[t] # <<>>
    BY <1>2 DEF Writes, Put, Update, Delete, Calling
  <2>2. PICK k \in Keys : k = Key(t) /\ k = Head(todo[t]).key
    BY <2>1, CallType DEF Key, Call
  <2>3. Matching(target[t], k) = PairsOf(k)
    BY <1>2, <2>2, WriterType DEF PairsOf
  <2>4. Table' = [Table EXCEPT ![k] = ValueIn(PairsOf(k)')]
    BY <1>2, <2>2, TableStep
  <2>5. PICK new : new = [key |-> k, value |-> Call(t).value] /\ new.value = Head(todo[t]).value
    <3>1. [key |-> k, value |-> Call(t).value].value = Head(todo[t]).value
      BY DEF Call
    <3>2. QED
      BY <3>1, Zenon
  <2>6. ValueIn({}) = NONE /\ \A p : p.value \in Values => ValueIn({p}) = p.value
    <3>1. ValueIn({}) = NONE
      BY Zenon DEF ValueIn
    <3>2. ASSUME NEW p, p.value \in Values PROVE ValueIn({p}) = p.value
      <4>1. PICK M : M = {p}
        OBVIOUS
      <4>2. QED
        BY <3>2, <4>1, ValueOf
    <3>3. QED
      BY <3>1, <3>2
  <2>7. CASE Put(t)
    <3>1. Calling(t, "Insert") /\ Return(t, NONE)
      BY <2>7 DEF Put
    <3>2. PairsOf(k) = {}
      BY <2>2, <2>7, FirstIsInserted DEF Absent
    <3>3. PairsOf(k)' = {new}
      <4>1. new \in PairsOf(k)' /\ \A p \in PairsOf(k)' : p \in PairsOf(k) \/ p = new
        BY <1>2, <2>2, <2>5, <2>7, OwnPairs
      <4>2. QED
        BY <3>2, <4>1
    <3>4. Call(t).value \in Values
      BY <2>1, <3>1, CallType
    <3>5. ValueIn(PairsOf(k)') = Head(todo[t]).value
      BY <2>5, <2>6, <3>3, <3>4 DEF Call
    <3>6. Map!Insert(t)
      BY <2>2, <2>4, <3>1, <3>5 DEF Map!Insert, Map!Calling, Map!Return, Calling, Call, Return
    <3>7. QED
      BY <3>6 DEF Map!Next
  <2>8. CASE Update(t)
    <3>1. Calling(t, "Update") /\ Return(t, PairsOf(k) # {})
      BY <2>2, <2>3, <2>8 DEF Update
    <3>2. Map!Found(t) <=> PairsOf(k) # {}
      BY <2>2, TableOf DEF Map!Found
    <3>3. PairsOf(k)' = IF PairsOf(k) = {} THEN {} ELSE {new}
      BY <1>2, <2>2, <2>5, <2>8, OwnPairs
    <3>4. Call(t).value \in Values
      BY <2>1, <3>1, CallType
    <3>5. Table' = IF Map!Found(t) THEN [Table EXCEPT ![k] = Head(todo[t]).value] ELSE Table
      <4>1. CASE PairsOf(k) = {}
        <5>1. ValueIn(PairsOf(k)') = Table[k]
          BY <2>6, <3>3, <4>1, TableOf
        <5>2. QED
          BY <2>4, <3>2, <4>1, <5>1, TableIs
      <4>2. CASE PairsOf(k) # {}
        <5>1. ValueIn(PairsOf(k)') = Head(todo[t]).value
          BY <2>5, <2>6, <3>3, <3>4, <4>2 DEF Call
        <5>2. QED
          BY <2>4, <3>2, <4>2, <5>1
      <4>3. QED
        BY <4>1, <4>2
    <3>6. Map!Update(t)
      <4>1. ret' = [ret EXCEPT ![t] = Map!Found(t)]
        <5>1. (PairsOf(k) # {}) = Map!Found(t)
          BY <3>2, TableOf DEF Map!Found
        <5>2. QED
          BY <3>1, <5>1, Zenon DEF Return
      <4>2. todo' = [todo EXCEPT ![t] = Tail(@)]
        BY <3>1 DEF Return
      <4>3. QED
        BY <2>2, <3>1, <3>5, <4>1, <4>2, Zenon DEF Map!Update, Map!Calling, Map!Return, Calling, Call
    <3>7. QED
      BY <3>6 DEF Map!Next
  <2>9. CASE Delete(t)
    <3>1. Calling(t, "Delete") /\ Return(t, PairsOf(k) # {})
      BY <2>2, <2>3, <2>9 DEF Delete
    <3>2. Map!Found(t) <=> PairsOf(k) # {}
      BY <2>2, TableOf DEF Map!Found
    <3>3. ValueIn(PairsOf(k)') = NONE
      BY <1>2, <2>2, <2>6, <2>9, OwnPairs
    <3>4. Map!Delete(t)
      <4>1. ret' = [ret EXCEPT ![t] = Map!Found(t)]
        <5>1. (PairsOf(k) # {}) = Map!Found(t)
          BY <3>2, TableOf DEF Map!Found
        <5>2. QED
          BY <3>1, <5>1, Zenon DEF Return
      <4>2. todo' = [todo EXCEPT ![t] = Tail(@)]
        BY <3>1 DEF Return
      <4>3. Table' = [Table EXCEPT ![Head(todo[t]).key] = NONE]
        BY <2>2, <2>4, <3>3
      <4>4. QED
        BY <3>1, <4>1, <4>2, <4>3, Zenon DEF Map!Delete, Map!Calling, Map!Return, Calling, Call
    <3>5. QED
      BY <3>4 DEF Map!Next
  <2>10. QED
    BY <1>2, <2>7, <2>8, <2>9 DEF Writes
<1>3. QED
  BY <1>1, <1>2

-----------------------------------------------------------------------------
(* The theorems.                                                           *)

\* As long as the splits stay apart, the segment a thread has locked and checked
\* (lines 211-222) stays the one its key is routed to until the probe loop is done.
THEOREM CheckedTargetStays == Spec /\ []SplitsApart => []LockedTargetIsCurrent
<1>1. MInv => LockedTargetIsCurrent
  BY DEF MInv, Structure, Current, LockedTargetIsCurrent
<1>2. QED
  BY <1>1, InductiveMInv, PTL

\* As long as the splits stay apart, a locked segment that a key is routed to is
\* locked by a thread that is at work on it: the segment that a split abandons,
\* locked for ever without INPLACE (lines 311-358), nobody is led to.
THEOREM LocksAreGivenBack == Spec /\ []SplitsApart => []ReachableIsUnlockedLater
<1>1. IInv /\ MInv => ReachableIsUnlockedLater
  <2> SUFFICES ASSUME IInv, MInv, NEW k \in Keys, writer[Route(k)] # Nobody
               PROVE  Busy(writer[Route(k)], Route(k))
    BY DEF ReachableIsUnlockedLater, Busy
  <2>1. Route(k) \in Segs /\ ~ Orphaned(Route(k))
    BY RouteType DEF Orphaned
  <2>2. QED
    BY <2>1 DEF MInv, Structure, Locking
<1>2. QED
  BY <1>1, Inductive, InductiveMInv, PTL

\* As long as the splits stay apart, the stores to the cells of a directory (lines
\* 323-352) and a new directory (line 311) lead keys one bit deeper, never back.
THEOREM RoutesDeepen == Spec /\ []SplitsApart => RoutesOnlyDeepen
<1> DEFINE Deepen == \A k \in Keys : Route(k)' # Route(k) =>
                        local_depth[Route(k)'] = local_depth[Route(k)] + 1
<1>1. IInv /\ MInv /\ [Next]_vars => [Deepen]_vars
  <2> SUFFICES ASSUME IInv, MInv, NEW t \in Threads, Step(t), NEW k \in Keys, Route(k)' # Route(k)
               PROVE  local_depth[Route(k)'] = local_depth[Route(k)] + 1
    BY DEF Next, Terminated
  <2> Structure
    BY DEF MInv
  <2> Redirecting /\ Unborn /\ Halves
    BY DEF Structure
  <2>1. CASE Publish(t)
    <3>1. /\ pc[t] \in Preparing /\ pc[t] \in Splitting
          /\ Route(k) = target[t] /\ Route(k)' = Half(t, k)
      BY <2>1, RouteStep DEF Publish, Preparing, Splitting
    <3>2. Half(t, k) \in NewHalves(t)
      BY <3>1, NewOrOwn
    <3>3. QED
      BY <3>1, <3>2 DEF Unborn
  <2>2. CASE StoreEntry(t)
    <3>1. k \in Redirects(t) /\ Route(k)' = Half(t, k)
      BY <2>2, RouteStep
    <3>2. QED
      BY <3>1, RedirectsType DEF Redirecting
  <2>3. QED
    BY <2>1, <2>2, RouteStep
<1>2. QED
  BY <1>1, Inductive, InductiveMInv, PTL DEF Spec, RoutesOnlyDeepen

\* As long as the splits stay apart, the table is a map whose calls take effect in
\* Put, Update, Delete and Get (lines 194-247, 371-624); no split changes a value
\* or an answer.
THEOREM TableIsAMap == Spec /\ []SplitsApart => ImplementsMap
<1>1. Init => Map!Init
  <2> SUFFICES ASSUME Init PROVE Map!Init
    OBVIOUS
  <2>1. IInv /\ MInv
    BY InitIInv, InitMInv
  <2>2. ASSUME NEW k \in Keys PROVE Table[k] = NONE
    <3>1. slots[Route(k)] = {}
      BY <2>1, RouteType DEF Init
    <3>2. PairsOf(k) = {}
      BY <3>1 DEF PairsOf, Matching
    <3>3. QED
      BY <2>1, <3>2, TableOf DEF MInv, Contents
  <2>3. Table = [k \in Keys |-> NONE]
    BY <2>2, TableIs
  <2>4. QED
    BY <2>3 DEF Init, Map!Init
<1>2. IInv /\ MInv /\ [Next]_vars => [Map!Next]_(Map!vars)
  <2> SUFFICES ASSUME IInv, MInv, [Next]_vars PROVE Map!Next \/ UNCHANGED Map!vars
    OBVIOUS
  <2>1. CASE UNCHANGED vars
    <3>1. Table' = Table
      BY <2>1 DEF Table, Matching, Route, Prefix, vars, dirVars, segVars
    <3>2. QED
      BY <2>1, <3>1 DEF Map!vars, vars, callVars
  <2>2. QED
    BY <2>1, MapStep DEF Next, Terminated
<1>3. QED
  BY <1>1, <1>2, Inductive, InductiveMInv, PTL DEF Spec, ImplementsMap, Map!Spec

-----------------------------------------------------------------------------
(* The cells of the directory, those included that no key leads to: what   *)
(* Capacity and Utilization walk over.                                     *)

Cells == {c \in Index : c < Pow2[depth[dir]]}

\* t still has to store segment g to cell c.
WillStore(t, c, g) ==
  pc[t] = "store" /\ \E i \in DOMAIN stores[t] : stores[t][i][1] = c /\ stores[t][i][2] = g

\* The segment in cell c once all the redirections under way are done is g.
Leads(c, g) ==
  \/ \E t \in Threads : WillStore(t, c, g)
  \/ entry[dir][c] = g /\ \A t \in Threads : \A h \in Segs : ~ WillStore(t, c, h)

\* How many cells lead to segment g.
Stride(g) == Pow2[depth[dir] - DepthToBe(g)]

\* A cell is stored to by one thread, once.
StoresApart ==
  \A t, u \in Threads : \A c \in Cells : \A g, h \in Segs :
    WillStore(t, c, g) /\ WillStore(u, c, h) => t = u /\ g = h

\* A segment is the destination of the cells of one aligned block, or of none.
CellBlocks ==
  \A g \in Segs : \A c \in Cells : Leads(c, g) =>
    \A e \in Cells : Leads(e, g) <=> e \div Stride(g) = c \div Stride(g)

\* No cell leads to what a split has allocated before the split becomes visible.
FreshCells ==
  \A t \in Threads : pc[t] \in Preparing =>
    \A h \in NewHalves(t) : \A c \in Cells : ~ Leads(c, h)

SlotsFinite == \A g \in Segs : IsFiniteSet(slots[g])

CInv == StoresApart /\ CellBlocks /\ FreshCells /\ SlotsFinite

\* What a thread has to store is a cell and a segment of its split.
LEMMA WillStoreType ==
  ASSUME IInv, NEW t \in Threads, NEW c, NEW g, WillStore(t, c, g)
  PROVE  /\ pc[t] = "store" /\ c \in Cells
         /\ g \in 1..nsegs /\ g \in Segs /\ g \in {s[t][1], s[t][2]}
<1> TypeOK /\ Allocated /\ Pending
  BY DEF IInv
<1>1. PICK i \in DOMAIN stores[t] : stores[t][i][1] = c /\ stores[t][i][2] = g
  BY DEF WillStore
<1>2. pc[t] = "store"
  BY DEF WillStore
<1>3. c < Pow2[depth[dir]] /\ g \in {s[t][1], s[t][2]}
  BY <1>1, <1>2 DEF Pending
<1>4. stores[t][i] \in Index \X Segs
  <2>1. stores[t] \in Seq(Index \X Segs)
    BY DEF TypeOK
  <2>2. QED
    BY <1>1, <2>1
<1>5. g \in 1..nsegs
  BY <1>2, <1>3 DEF Allocated, Splitting
<1>6. QED
  BY <1>1, <1>2, <1>3, <1>4, <1>5 DEF Cells

\* A cell is a number and holds a segment that is no deeper than the directory.
LEMMA CellType ==
  ASSUME IInv, NEW c \in Cells
  PROVE  /\ c \in Nat /\ c \in Index /\ c < Pow2[depth[dir]] /\ depth[dir] \in 0..HashBits
         /\ entry[dir][c] \in 1..nsegs /\ entry[dir][c] \in Segs
         /\ local_depth[entry[dir][c]] <= depth[dir]
<1> TypeOK /\ Allocated /\ Depths
  BY DEF IInv
<1>1. dir \in 1..ndirs /\ dir \in Dirs /\ depth[dir] \in 0..HashBits
  BY DEF TypeOK, Allocated
<1>2. c \in Index /\ c < Pow2[depth[dir]]
  BY DEF Cells
<1>3. c \in Nat
  <2>1. Pow2[HashBits] \in Nat
    BY HashBitsNat, Pow2Positive
  <2>2. QED
    BY <1>2, <2>1 DEF Index
<1>4. entry[dir][c] \in 1..nsegs
  BY <1>1, <1>2 DEF Allocated
<1>5. local_depth[entry[dir][c]] <= depth[dir]
  BY <1>1, <1>2 DEF Depths
<1>6. QED
  BY <1>1, <1>2, <1>3, <1>4, <1>5, Bounds

\* No cell leads to a segment that is, or is becoming, deeper than the directory.
LEMMA LeadsType ==
  ASSUME IInv, NEW c \in Cells, NEW g, Leads(c, g)
  PROVE  g \in 1..nsegs /\ g \in Segs /\ DepthToBe(g) \in 0..depth[dir]
<1> TypeOK /\ Allocated /\ Depths
  BY DEF IInv
<1>1. depth[dir] \in 0..HashBits
  BY CellType
<1>2. g \in 1..nsegs /\ g \in Segs
  BY WillStoreType, CellType DEF Leads
<1>3. local_depth[g] \in 0..HashBits /\ local_depth[g] <= depth[dir]
  <2>1. CASE entry[dir][c] = g
    BY <1>2, <2>1, CellType DEF TypeOK
  <2>2. ASSUME NEW t \in Threads, WillStore(t, c, g) PROVE local_depth[g] <= depth[dir]
    <3>1. pc[t] = "store" /\ g \in {s[t][1], s[t][2]}
      BY <2>2, WillStoreType
    <3>2. /\ local_depth[target[t]] < depth[dir] /\ local_depth[target[t]] \in 0..HashBits
          /\ local_depth[g] <= depth[dir] \/ local_depth[g] <= local_depth[target[t]] + 1
      BY <3>1, TargetType DEF Depths, DepthsOf, Splitting
    <3>3. QED
      BY <1>1, <1>2, <3>2, HashBitsNat DEF TypeOK
  <2>3. QED
    BY <1>2, <2>1, <2>2 DEF Leads, TypeOK
<1>4. ASSUME NEW t \in Threads, pc[t] \in {"store", "finish"}, target[t] = g
      PROVE  local_depth[g] < depth[dir]
  BY <1>4 DEF Depths, DepthsOf
<1>5. CASE INPLACE /\ \E t \in Threads : pc[t] \in {"store", "finish"} /\ target[t] = g
  BY <1>1, <1>2, <1>3, <1>4, <1>5, HashBitsNat DEF DepthToBe
<1>6. CASE ~ (INPLACE /\ \E t \in Threads : pc[t] \in {"store", "finish"} /\ target[t] = g)
  BY <1>1, <1>2, <1>3, <1>6, HashBitsNat DEF DepthToBe
<1>7. QED
  BY <1>5, <1>6

\* A cell leads to one segment.
LEMMA OneLead ==
  ASSUME IInv, StoresApart, NEW c \in Cells, NEW g, NEW h, Leads(c, g), Leads(c, h)
  PROVE  g = h
<1>1. g \in Segs /\ h \in Segs
  BY LeadsType
<1>2. QED
  BY <1>1 DEF Leads, StoresApart

\* What a thread has to store changes with its own steps only.
LEMMA WillStoreStep ==
  ASSUME IInv, NEW t \in Threads, Step(t), NEW u \in Threads, NEW c, NEW g
  PROVE  /\ u # t \/ (~ LockDirectory(t) /\ ~ StoreEntry(t))
              => (WillStore(u, c, g)' <=> WillStore(u, c, g))
         /\ LockDirectory(t) /\ u = t =>
              /\ ~ WillStore(t, c, g)
              /\ WillStore(t, c, g)' <=>
                   \E i \in DOMAIN CellsOf(t) : CellsOf(t)[i][1] = c /\ CellsOf(t)[i][2] = g
<1> TypeOK
  BY DEF IInv
<1>1. CASE u # t
  BY <1>1, Others DEF WillStore
<1>2. CASE u = t /\ LockDirectory(t)
  BY <1>2 DEF LockDirectory, WillStore, Goto, TypeOK
<1>3. CASE u = t /\ ~ LockDirectory(t) /\ ~ StoreEntry(t)
  <2>1. pc'[t] # "store"
    BY <1>3, Course
  <2>2. pc[t] = "store" => stores[t] = <<>>
    BY <1>3, Course DEF UnlockDirectory
  <2>3. ~ WillStore(t, c, g) /\ ~ WillStore(t, c, g)'
    BY <2>1, <2>2 DEF WillStore
  <2>4. QED
    BY <1>3, <2>3
<1>4. QED
  BY <1>1, <1>2, <1>3

\* A store takes the first off what the thread has to store.
LEMMA StoreLeaves ==
  ASSUME IInv, Redirecting, NEW t \in Threads, StoreEntry(t), NEW c, NEW g
  PROVE  /\ WillStore(t, Head(stores[t])[1], Head(stores[t])[2])
         /\ WillStore(t, c, g)' <=> WillStore(t, c, g) /\ c # Head(stores[t])[1]
<1> TypeOK
  BY DEF IInv
<1> DEFINE S == stores[t]
           T == Tail(stores[t])
<1>1. pc[t] = "store" /\ S # <<>> /\ stores'[t] = T /\ pc'[t] = "store"
  BY DEF StoreEntry, TypeOK
<1>2. \A i, j \in DOMAIN S : S[i][1] = S[j][1] => i = j
  BY <1>1 DEF Redirecting
<1>3. S \in Seq(Index \X Segs)
  BY DEF TypeOK
<1>4. /\ 1 \in DOMAIN S /\ Head(S) = S[1]
      /\ \A i \in DOMAIN T : i + 1 \in DOMAIN S /\ T[i] = S[i + 1]
  BY <1>1, FirstStore
<1>5. \A i \in DOMAIN T : i + 1 # 1
  <2>1. \A i \in DOMAIN T : i \in Nat /\ i # 0
    BY <1>1, <1>3
  <2>2. QED
    BY <2>1
<1>6. \A j \in DOMAIN S : j # 1 => j - 1 \in DOMAIN T /\ T[j - 1] = S[j]
  BY <1>1, <1>3
<1> HIDE DEF S, T
<1>7. ASSUME NEW i \in DOMAIN T, T[i][1] = c, T[i][2] = g
      PROVE  (\E j \in DOMAIN S : S[j][1] = c /\ S[j][2] = g) /\ c # S[1][1]
  <2>1. PICK j \in DOMAIN S : j # 1 /\ T[i] = S[j]
    BY <1>4, <1>5
  <2>2. QED
    BY <1>2, <1>4, <1>7, <2>1
<1>8. ASSUME NEW j \in DOMAIN S, S[j][1] = c, S[j][2] = g, c # S[1][1]
      PROVE  \E i \in DOMAIN T : T[i][1] = c /\ T[i][2] = g
  <2>1. j # 1
    BY <1>8
  <2>2. QED
    BY <1>6, <1>8, <2>1
<1>9. (\E i \in DOMAIN T : T[i][1] = c /\ T[i][2] = g)
        <=> (\E j \in DOMAIN S : S[j][1] = c /\ S[j][2] = g) /\ c # S[1][1]
  BY <1>7, <1>8
<1>10. WillStore(t, c, g)' <=> \E i \in DOMAIN T : T[i][1] = c /\ T[i][2] = g
  BY <1>1 DEF WillStore
<1>11. WillStore(t, c, g) <=> \E j \in DOMAIN S : S[j][1] = c /\ S[j][2] = g
  BY <1>1 DEF WillStore, S
<1>12. WillStore(t, Head(S)[1], Head(S)[2])
  BY <1>1, <1>4 DEF WillStore, S
<1>13. QED
  BY <1>4, <1>9, <1>10, <1>11, <1>12 DEF S

\* The cells of the segment that is split are those of its prefix.
LEMMA CellsOfSegment ==
  ASSUME IInv, Structure, CellBlocks, NEW t \in Threads, pc[t] \in Preparing
  PROVE  LET l == local_depth[target[t]] IN
         /\ l \in 0..depth[dir] /\ l < HashBits /\ depth[dir] \in 0..HashBits
         /\ target[t] \in Segs /\ target[t] \in 1..nsegs
         /\ \A c \in Cells : Leads(c, target[t]) <=>
              c \div Pow2[depth[dir] - l] = Prefix(Key(t), l)
<1> DEFINE l == local_depth[target[t]]
           x == Prefix(Key(t), depth[dir])
<1> TypeOK /\ Allocated /\ Depths
  BY DEF IInv
<1> Redirecting /\ Locking /\ Reading /\ Current
  BY DEF Structure
<1>1. pc[t] \in Splitting /\ pc[t] \notin {"store", "finish"} /\ Exclusive(t)
  BY DEF Preparing, Splitting, Exclusive
<1>2. Key(t) \in Keys /\ Route(Key(t)) = target[t] /\ target[t] \in Segs /\ target[t] \in 1..nsegs
  BY <1>1, CallType, TargetType DEF Allocated, Current, Preparing, Splitting
<1>3. depth[dir] \in 0..HashBits /\ l \in 0..HashBits /\ l < HashBits /\ l \in 0..depth[dir]
  <2>1. l <= depth[dir] /\ l < HashBits /\ l \in 0..HashBits
    BY <1>1, TargetType DEF Depths, DepthsOf
  <2>2. depth[dir] \in 0..HashBits
    BY DEF TypeOK
  <2>3. QED
    BY <2>1, <2>2, HashBitsNat
<1>4. x \in Cells /\ entry[dir][x] = target[t]
  BY <1>2, RouteType DEF Cells, Route
<1>5. \A u \in Threads : \A h : ~ WillStore(u, x, h)
  <2>1. \A u \in Threads : Key(t) \notin Redirects(u)
    <3>1. Key(t) \notin Redirects(t)
      BY <1>1 DEF Redirects
    <3>2. QED
      BY <1>1, <1>2, <3>1, Settled
  <2>2. QED
    BY <1>2, <2>1 DEF Redirects, WillStore
<1>6. Leads(x, target[t])
  BY <1>4, <1>5 DEF Leads
<1>7. Stride(target[t]) = Pow2[depth[dir] - l]
  BY <1>1, OwnDepth DEF Stride
<1>8. x \div Pow2[depth[dir] - l] = Prefix(Key(t), l)
  BY <1>2, <1>3, PrefixOfPrefix
<1>9. \A c \in Cells : Leads(c, target[t]) <=> c \div Pow2[depth[dir] - l] = Prefix(Key(t), l)
  BY <1>2, <1>4, <1>6, <1>7, <1>8 DEF CellBlocks
<1>10. QED
  BY <1>2, <1>3, <1>9

\* What halving a number says of it.
LEMMA HalvedBlock ==
  ASSUME NEW m \in Nat, NEW a \in Nat
  PROVE  /\ m % 2 \in {0, 1}
         /\ m \div 2 = a <=> m = 2 * a \/ m = (2 * a) + 1
         /\ m = 2 * a => m % 2 = 0
         /\ m = (2 * a) + 1 => m % 2 = 1
OBVIOUS

\* When a split within the directory begins, the cells of the segment head for the
\* halves; no other cell changes where it leads to, and no other thread stores to
\* one of these.
LEMMA LockLeads ==
  ASSUME IInv, Structure, CellBlocks, SplitsApart', NEW t \in Threads,
         Step(t), LockDirectory(t), NEW c \in Cells, NEW g
  PROVE  LET half == Pow2[depth[dir] - (local_depth[target[t]] + 1)] IN
         /\ Leads(c, g)' <=> IF Leads(c, target[t]) THEN g = s[t][1 + ((c \div half) % 2)]
                             ELSE Leads(c, g)
         /\ WillStore(t, c, g)' => \A u \in Threads : \A h : ~ WillStore(u, c, h)
<1> DEFINE l == local_depth[target[t]]
           half == Pow2[depth[dir] - (l + 1)]
           a == Prefix(Key(t), l)
           m == c \div half
<1> TypeOK
  BY DEF IInv
<1>1. /\ pc[t] = "lock_dir" /\ pc'[t] = "store" /\ target' = target /\ s' = s
      /\ dir' = dir /\ entry' = entry /\ ~ StoreEntry(t)
  BY DEF LockDirectory, Goto, TypeOK, StoreEntry
<1>2. pc[t] \in Preparing /\ pc[t] \in Splitting
  BY <1>1 DEF Preparing, Splitting
<1>3. /\ a \in Nat /\ half \in Nat /\ half >= 1 /\ Pow2[depth[dir] - l] = 2 * half
      /\ \A e \in Nat : \A h :
           (\E i \in DOMAIN CellsOf(t) : CellsOf(t)[i][1] = e /\ CellsOf(t)[i][2] = h) <=>
              \/ e \div half = (2 * a) + 1 /\ h = s[t][2]
              \/ ~ INPLACE /\ e \div half = 2 * a /\ h = s[t][1]
  BY <1>1, CellsOfTarget
<1>4. /\ target[t] \in Segs
      /\ \A e \in Cells : Leads(e, target[t]) <=> e \div Pow2[depth[dir] - l] = a
  BY <1>2, CellsOfSegment
<1>5. s[t][1] # s[t][2] /\ (INPLACE => s[t][1] = target[t])
  BY <1>2 DEF Structure, Halves
<1>6. c \in Nat
  BY CellType
<1> HIDE DEF l, half, a
<1>7. m \in Nat /\ (Leads(c, target[t]) <=> m = 2 * a \/ m = (2 * a) + 1)
  <2>1. m \in Nat
    BY <1>3, <1>6, Euclid
  <2>2. m \div 2 = c \div (2 * half)
    BY <1>3, <1>6, HalfOfQuotient
  <2>3. Leads(c, target[t]) <=> m \div 2 = a
    BY <1>3, <1>4, <2>2
  <2> HIDE DEF m
  <2>4. QED
    BY <1>3, <2>1, <2>3, HalvedBlock
<1>8. \A h : WillStore(t, c, h)' <=> \/ m = (2 * a) + 1 /\ h = s[t][2]
                                     \/ ~ INPLACE /\ m = 2 * a /\ h = s[t][1]
  BY <1>3, <1>6, WillStoreStep
<1>9. ASSUME NEW u \in Threads, u # t, NEW h
      PROVE  /\ WillStore(u, c, h)' <=> WillStore(u, c, h)
             /\ WillStore(u, c, h) => h # target[t]
  <2>1. WillStore(u, c, h)' <=> WillStore(u, c, h)
    BY <1>9, WillStoreStep
  <2>2. WillStore(u, c, h)' => h # target'[t]
    BY <1>1, <1>9 DEF WillStore, SplitsApart
  <2>3. QED
    BY <1>1, <2>1, <2>2
<1>10. \A h : ~ WillStore(t, c, h)
  BY WillStoreStep
<1>11. Leads(c, target[t]) => entry[dir][c] = target[t] /\ \A u \in Threads : \A h : ~ WillStore(u, c, h)
  <2>1. \A u \in Threads : ~ WillStore(u, c, target[t])
    BY <1>9, <1>10
  <2>2. \A u \in Threads : \A h : WillStore(u, c, h) => h \in Segs
    BY WillStoreType
  <2>3. QED
    BY <2>1, <2>2 DEF Leads
<1> HIDE DEF m
<1>12. CASE m = (2 * a) + 1
  <2>1. Leads(c, target[t]) /\ m % 2 = 1
    BY <1>3, <1>7, <1>12, HalvedBlock
  <2>2. \A h : WillStore(t, c, h)' <=> h = s[t][2]
    BY <1>3, <1>8, <1>12
  <2>3. \A u \in Threads : \A h : u # t => ~ WillStore(u, c, h)'
    BY <1>9, <1>11, <2>1
  <2>4. s[t][2] \in Segs
    BY <1>2, Bounds DEF IInv, Allocated
  <2>5. Leads(c, g)' <=> g = s[t][2]
    BY <2>2, <2>3, <2>4 DEF Leads
  <2>6. Leads(c, g)' <=> g = s[t][1 + (m % 2)]
    BY <2>1, <2>5
  <2>7. QED
    BY <1>11, <2>1, <2>6 DEF m, half, l
<1>13. CASE m = 2 * a
  <2>1. Leads(c, target[t]) /\ m % 2 = 0
    BY <1>3, <1>7, <1>13, HalvedBlock
  <2>2. \A h : WillStore(t, c, h)' <=> ~ INPLACE /\ h = s[t][1]
    BY <1>3, <1>8, <1>13
  <2>3. \A u \in Threads : \A h : u # t => ~ WillStore(u, c, h)'
    BY <1>9, <1>11, <2>1
  <2>4. s[t][1] \in Segs
    BY <1>2, Bounds DEF IInv, Allocated
  <2>5. CASE INPLACE
    <3>1. \A u \in Threads : \A h : ~ WillStore(u, c, h)'
      BY <2>2, <2>3, <2>5
    <3>2. Leads(c, g)' <=> g = target[t]
      BY <1>1, <1>11, <2>1, <3>1 DEF Leads
    <3>3. QED
      BY <1>5, <1>11, <2>1, <2>5, <3>2 DEF m, half, l
  <2>6. CASE ~ INPLACE
    <3>1. Leads(c, g)' <=> g = s[t][1]
      BY <2>2, <2>3, <2>4, <2>6 DEF Leads
    <3>2. Leads(c, g)' <=> g = s[t][1 + (m % 2)]
      BY <2>1, <3>1
    <3>3. QED
      BY <1>11, <2>1, <3>2 DEF m, half, l
  <2>7. QED
    BY <2>5, <2>6
<1>14. CASE m # 2 * a /\ m # (2 * a) + 1
  <2>1. ~ Leads(c, target[t])
    BY <1>7, <1>14
  <2>2. \A h : ~ WillStore(t, c, h)'
    BY <1>8, <1>14
  <2>3. \A u \in Threads : \A h : WillStore(u, c, h)' <=> WillStore(u, c, h)
    BY <1>9, <1>10, <2>2
  <2>4. Leads(c, g)' <=> Leads(c, g)
    BY <1>1, <2>3 DEF Leads
  <2>5. QED
    BY <2>1, <2>2, <2>4
<1>15. QED
  BY <1>12, <1>13, <1>14

\* The first powers of two.
LEMMA SmallPowers == Pow2[0] = 1 /\ (HashBits >= 1 => Pow2[1] = 2)
<1>1. Pow2[0] = 1
  BY Pow2Assumption
<1>2. ASSUME HashBits >= 1 PROVE Pow2[1] = 2
  <2>1. 1 \in 0..HashBits /\ 1 # 0 /\ 1 - 1 = 0
    BY <1>2, HashBitsNat
  <2>2. Pow2[1] = 2 * Pow2[0]
    BY <2>1, NextPower
  <2>3. QED
    BY <1>1, <2>2
<1>3. QED
  BY <1>1, <1>2

\* When a new directory is published, its two cells of the split segment lead to the
\* halves, and its other cells where the cell they are copied from led to.
LEMMA PublishLeads ==
  ASSUME IInv, Structure, CellBlocks, NEW t \in Threads, Step(t), Publish(t),
         NEW c \in Cells', NEW g
  PROVE  /\ c \in Nat /\ c \div 2 \in Cells
         /\ Leads(c, g)' <=> IF Leads(c \div 2, target[t]) THEN g = s[t][1 + (c % 2)]
                             ELSE Leads(c \div 2, g)
<1> DEFINE D == depth[dir]
<1> TypeOK /\ Allocated /\ Depths /\ Copied
  BY DEF IInv
<1>1. /\ pc[t] = "publish" /\ pc'[t] # "store" /\ dir' = held[t] /\ entry' = entry /\ depth' = depth
      /\ entry[held[t]] = Doubled(t) /\ depth[held[t]] = D + 1 /\ ~ StoreEntry(t) /\ ~ LockDirectory(t)
  BY DEF Publish, Copied, Depths, DepthsOf, AfterSplit, Goto, StoreEntry, LockDirectory
<1>2. pc[t] \in Preparing
  BY <1>1 DEF Preparing
<1>3. D \in 0..HashBits /\ D + 1 \in 0..HashBits /\ Pow2[D + 1] = 2 * Pow2[D] /\ Pow2[D] \in Nat
  <2>1. D \in 0..HashBits /\ D + 1 \in 0..HashBits
    BY <1>1, <1>2, HeldType, CellsOfSegment
  <2>2. (D + 1) - 1 = D /\ D + 1 # 0
    BY <2>1
  <2>3. QED
    BY <2>1, <2>2, NextPower, Pow2Positive
<1>4. c \in Index /\ c < Pow2[D + 1]
  BY <1>1 DEF Cells
<1>5. c \in Nat
  <2>1. Pow2[HashBits] \in Nat
    BY HashBitsNat, Pow2Positive
  <2>2. QED
    BY <1>4, <2>1 DEF Index
<1>6. c \div 2 \in Nat /\ c \div 2 < Pow2[D] /\ c < 2 * Pow2[D]
  <2>1. PICK n \in Nat : n = Pow2[D]
    BY <1>3
  <2>2. c < 2 * n
    BY <1>3, <1>4, <2>1
  <2>3. QED
    BY <1>5, <2>1, <2>2
<1>7. c \div 2 \in Cells
  <2>1. Pow2[HashBits] \in Nat /\ Pow2[D] <= Pow2[HashBits]
    BY <1>3, Pow2Monotonic
  <2>2. QED
    BY <1>3, <1>6, <2>1 DEF Cells, Index
<1>8. local_depth[target[t]] = D /\ Pow2[D - D] = 1
  <2>1. D - D = 0
    BY <1>3
  <2>2. QED
    BY <1>1, <2>1, SmallPowers DEF Structure, AsDeep
<1>9. Leads(c \div 2, target[t]) <=> c \div 2 = Prefix(Key(t), D)
  <2>1. PICK y \in Nat : y = c \div 2
    BY <1>6
  <2>2. y \div 1 = y
    BY <2>1
  <2>3. Leads(y, target[t]) <=> y \div 1 = Prefix(Key(t), D)
    BY <1>2, <1>7, <1>8, <2>1, CellsOfSegment
  <2>4. QED
    BY <2>1, <2>2, <2>3
<1>10. \A u \in Threads : pc[u] # "store" /\ pc'[u] # "store"
  <2>1. \A u \in Threads : pc[u] # "store"
    BY <1>1, PublishIsAlone
  <2>2. QED
    BY <1>1, <2>1, Others
<1>11. Leads(c \div 2, g) <=> entry[dir][c \div 2] = g
  BY <1>10 DEF Leads, WillStore
<1>12. Leads(c, g)' <=> Doubled(t)[c] = g
  BY <1>1, <1>10 DEF Leads, WillStore
<1>13. Doubled(t)[c] = IF c \div 2 = Prefix(Key(t), D) THEN s[t][1 + (c % 2)]
                       ELSE entry[dir][c \div 2]
  BY <1>4, <1>6 DEF Doubled
<1>14. QED
  BY <1>5, <1>7, <1>9, <1>11, <1>12, <1>13

\* The cell of the old directory that a cell of the new one stands for.
Old(c) == c \div Pow2[depth'[dir'] - depth[dir]]

\* How far the directory reaches after a split becomes visible.
LEMMA DividesDepth ==
  ASSUME IInv, Structure, CellBlocks, NEW t \in Threads, Step(t), Divides(t)
  PROVE  LET l == local_depth[target[t]]
             D == depth[dir]
             E == depth'[dir']
         IN  /\ pc[t] \in Preparing /\ target[t] \in Segs /\ target[t] \in 1..nsegs
             /\ D \in 0..HashBits /\ E \in 0..HashBits /\ D <= E
             /\ l \in 0..D /\ l < HashBits /\ l + 1 \in 0..E
             /\ \/ Publish(t) /\ E = D + 1 /\ l = D
                \/ LockDirectory(t) /\ ~ Publish(t) /\ E = D /\ l < D
<1> TypeOK /\ Allocated /\ Depths
  BY DEF IInv
<1>1. pc[t] \in Preparing
  BY DEF Divides, LockDirectory, Publish, Preparing
<1>2. /\ local_depth[target[t]] \in 0..depth[dir] /\ local_depth[target[t]] < HashBits
      /\ depth[dir] \in 0..HashBits /\ target[t] \in Segs /\ target[t] \in 1..nsegs
  BY <1>1, CellsOfSegment
<1>3. CASE Publish(t)
  <2>1. /\ pc[t] = "publish" /\ dir' = held[t] /\ depth' = depth /\ held[t] \in Dirs
        /\ depth[held[t]] = depth[dir] + 1 /\ local_depth[target[t]] = depth[dir]
        /\ depth[held[t]] \in 0..HashBits
    BY <1>3, HeldType DEF Publish, Depths, DepthsOf, Structure, AsDeep
  <2>2. QED
    BY <1>1, <1>2, <1>3, <2>1, HashBitsNat
<1>4. CASE LockDirectory(t)
  <2>1. pc[t] = "lock_dir" /\ dir' = dir /\ depth' = depth /\ local_depth[target[t]] < depth[dir]
        /\ ~ Publish(t)
    BY <1>4 DEF LockDirectory, Depths, DepthsOf, Publish
  <2>2. QED
    BY <1>1, <1>2, <1>4, <2>1, HashBitsNat
<1>5. QED
  BY <1>3, <1>4 DEF Divides

\* Where a cell leads to changes when a split becomes visible: the cells of the
\* segment are led to its halves then.
LEMMA DividedLeads ==
  ASSUME IInv, Structure, CellBlocks, SplitsApart', NEW t \in Threads, Step(t), Divides(t),
         NEW c \in Cells', NEW g
  PROVE  LET half == Pow2[depth'[dir'] - (local_depth[target[t]] + 1)] IN
         /\ c \in Nat /\ Old(c) \in Cells
         /\ Leads(c, g)' <=> IF Leads(Old(c), target[t])
                             THEN g = s[t][1 + ((c \div half) % 2)]
                             ELSE Leads(Old(c), g)
<1> DEFINE l == local_depth[target[t]]
           D == depth[dir]
           E == depth'[dir']
<1>0. Pow2[0] = 1 /\ \A x \in Nat : x \div 1 = x
  BY SmallPowers
<1>1. CASE Publish(t) /\ E = D + 1 /\ l = D /\ D \in 0..HashBits /\ E \in 0..HashBits
  <2>1. E - D = 1 /\ E - (l + 1) = 0 /\ HashBits >= 1
    BY <1>1, HashBitsNat
  <2>2. Pow2[E - D] = 2 /\ Pow2[E - (l + 1)] = 1
    BY <2>1, SmallPowers
  <2>3. /\ c \in Nat /\ c \div 2 \in Cells
        /\ Leads(c, g)' <=> IF Leads(c \div 2, target[t]) THEN g = s[t][1 + (c % 2)]
                            ELSE Leads(c \div 2, g)
    BY <1>1, PublishLeads
  <2>4. Old(c) = c \div 2 /\ c \div Pow2[E - (l + 1)] = c
    BY <1>0, <2>2, <2>3 DEF Old
  <2> HIDE DEF l, D, E
  <2>5. QED
    BY <2>3, <2>4 DEF l, D, E
<1>2. CASE LockDirectory(t) /\ E = D /\ D \in 0..HashBits
  <2>1. dir' = dir /\ depth' = depth
    BY <1>2 DEF LockDirectory
  <2>2. Cells' = Cells
    BY <2>1 DEF Cells
  <2>3. c \in Cells /\ c \in Nat
    BY <2>2, CellType
  <2>4. E - D = 0
    BY <1>2
  <2>5. Old(c) = c
    BY <1>0, <2>3, <2>4 DEF Old
  <2>6. Leads(c, g)' <=> IF Leads(c, target[t])
                         THEN g = s[t][1 + ((c \div Pow2[depth[dir] - (local_depth[target[t]] + 1)]) % 2)]
                         ELSE Leads(c, g)
    BY <1>2, <2>3, LockLeads
  <2>7. QED
    BY <1>2, <2>3, <2>5, <2>6
<1>3. QED
  BY <1>1, <1>2, DividesDepth

\* No other step changes where a cell leads to.
LEMMA LeadsStay ==
  ASSUME IInv, Structure, StoresApart, NEW t \in Threads, Step(t), ~ Divides(t)
  PROVE  /\ depth'[dir'] = depth[dir] /\ Cells' = Cells
         /\ \A c \in Cells : \A g : Leads(c, g)' <=> Leads(c, g)
<1> TypeOK /\ Allocated
  BY DEF IInv
<1> Redirecting
  BY DEF Structure
<1>1. ~ Publish(t) /\ ~ LockDirectory(t)
  BY DEF Divides
<1>2. dir' = dir /\ depth'[dir] = depth[dir] /\ dir \in Dirs
  BY <1>1, DirectoryFrame, DepthGrows DEF Allocated
<1>3. Cells' = Cells
  BY <1>2 DEF Cells
<1>4. CASE ~ StoreEntry(t)
  <2>1. \A u \in Threads : \A c, g : WillStore(u, c, g)' <=> WillStore(u, c, g)
    BY <1>1, <1>4, WillStoreStep
  <2>2. entry'[dir] = entry[dir]
    <3>1. dir # ndirs + 1
      BY Bounds DEF Allocated
    <3>2. QED
      BY <1>2, <1>4, <3>1, DirectoryFrame DEF DoubleDirectory, TypeOK
  <2>3. QED
    BY <1>2, <1>3, <2>1, <2>2 DEF Leads
<1>5. CASE StoreEntry(t)
  <2>1. PICK d, h : d = Head(stores[t])[1] /\ h = Head(stores[t])[2]
    OBVIOUS
  <2>2. WillStore(t, d, h) /\ \A c, g : WillStore(t, c, g)' <=> WillStore(t, c, g) /\ c # d
    BY <1>5, <2>1, StoreLeaves
  <2>3. d \in Cells /\ d \in Index /\ h \in Segs
    BY <2>2, WillStoreType, CellType
  <2>4. /\ entry'[dir][d] = h
        /\ \A c \in Cells : c # d => entry'[dir][c] = entry[dir][c]
    <3>1. entry' = [entry EXCEPT ![dir][d] = h]
      BY <1>5, <2>1 DEF StoreEntry
    <3>2. entry \in [Dirs -> [Index -> Segs \cup {NULL}]]
      BY DEF TypeOK
    <3>3. QED
      BY <1>2, <2>3, <3>1, <3>2 DEF Cells
  <2>5. \A u \in Threads : \A c, g : u # t => (WillStore(u, c, g)' <=> WillStore(u, c, g))
    BY WillStoreStep
  <2>6. ASSUME NEW u \in Threads, NEW g, WillStore(u, d, g) PROVE u = t /\ g = h
    <3>1. g \in Segs
      BY <2>6, WillStoreType
    <3>2. QED
      BY <2>2, <2>3, <2>6, <3>1 DEF StoresApart
  <2>7. ASSUME NEW c \in Cells, NEW g PROVE Leads(c, g)' <=> Leads(c, g)
    <3>1. CASE c = d
      <4>1. \A u \in Threads : \A x : ~ WillStore(u, c, x)'
        BY <2>2, <2>5, <2>6, <3>1
      <4>2. Leads(c, g)' <=> h = g
        BY <1>2, <2>4, <3>1, <4>1 DEF Leads
      <4>3. Leads(c, g) <=> h = g
        BY <2>2, <2>3, <2>6, <3>1 DEF Leads
      <4>4. QED
        BY <4>2, <4>3
    <3>2. CASE c # d
      <4>1. \A u \in Threads : \A x : WillStore(u, c, x)' <=> WillStore(u, c, x)
        BY <2>2, <2>5, <3>2
      <4>2. QED
        BY <1>2, <2>4, <3>2, <4>1 DEF Leads
    <3>3. QED
      BY <3>1, <3>2
  <2>8. QED
    BY <1>2, <1>3, <2>7
<1>6. QED
  BY <1>4, <1>5

\* Every step keeps the stores to a cell apart.
LEMMA StoresApartStep ==
  ASSUME IInv, Structure, CInv, SplitsApart', NEW t \in Threads, Step(t)
  PROVE  StoresApart'
<1> Redirecting /\ CellBlocks /\ StoresApart
  BY DEF Structure, CInv
<1>1. ASSUME NEW u \in Threads, NEW c, NEW g, ~ (LockDirectory(t) /\ u = t), WillStore(u, c, g)'
      PROVE  WillStore(u, c, g) /\ c \in Cells /\ g \in Segs
  <2>1. WillStore(u, c, g)
    BY <1>1, WillStoreStep, StoreLeaves
  <2>2. QED
    BY <2>1, WillStoreType
<1>2. ASSUME LockDirectory(t), NEW c \in Cells', NEW g, NEW h, WillStore(t, c, g)'
      PROVE  /\ WillStore(t, c, h)' => g = h
             /\ \A u \in Threads : u # t => ~ WillStore(u, c, h)'
  <2>1. Cells' = Cells
    BY <1>2 DEF LockDirectory, Cells
  <2>2. \A u \in Threads : u # t => ~ WillStore(u, c, h)'
    BY <1>2, <2>1, LockLeads, WillStoreStep
  <2>3. \A i, j \in DOMAIN CellsOf(t) : CellsOf(t)[i][1] = CellsOf(t)[j][1] => i = j
    BY <1>2, CellsOfTarget DEF LockDirectory
  <2>4. \A x : WillStore(t, c, x)' <=>
          \E i \in DOMAIN CellsOf(t) : CellsOf(t)[i][1] = c /\ CellsOf(t)[i][2] = x
    BY <1>2, WillStoreStep
  <2>5. WillStore(t, c, h)' => g = h
    BY <1>2, <2>3, <2>4
  <2>6. QED
    BY <2>2, <2>5
<1>3. ASSUME NEW u \in Threads, NEW v \in Threads, NEW c \in Cells', NEW g \in Segs, NEW h \in Segs,
             WillStore(u, c, g)', WillStore(v, c, h)'
      PROVE  u = v /\ g = h
  <2>1. CASE LockDirectory(t) /\ (u = t \/ v = t)
    BY <1>2, <1>3, <2>1
  <2>2. CASE ~ (LockDirectory(t) /\ (u = t \/ v = t))
    BY <1>1, <1>3, <2>2 DEF StoresApart
  <2>3. QED
    BY <2>1, <2>2
<1>4. QED
  BY <1>3 DEF StoresApart

\* Every step keeps what a split has allocated unreachable until it becomes visible.
LEMMA FreshCellsStep ==
  ASSUME IInv, Structure, CInv, SplitsApart', NEW t \in Threads, Step(t)
  PROVE  FreshCells'
<1> TypeOK /\ Allocated
  BY DEF IInv
<1> Unborn /\ Halves /\ StoresApart /\ CellBlocks /\ FreshCells
  BY DEF Structure, CInv
<1> SUFFICES ASSUME NEW u \in Threads, pc'[u] \in Preparing, NEW h \in NewHalves(u)',
                    NEW c \in Cells', Leads(c, h)'
             PROVE  FALSE
  BY DEF FreshCells
<1>1. CASE u = t /\ Split(t)
  <2>1. h \notin 1..nsegs
    BY <1>1, SplitStep
  <2>2. ~ Divides(t)
    BY <1>1 DEF Split, Divides, LockDirectory, Publish
  <2>3. c \in Cells /\ Leads(c, h)
    BY <2>2, LeadsStay
  <2>4. QED
    BY <2>1, <2>3, LeadsType
<1>2. CASE ~ (u = t /\ Split(t))
  <2>1. /\ pc[u] \in Preparing /\ pc[u] \in Splitting
        /\ u # t \/ (~ FinishSplit(t) /\ ~ Divides(t))
    BY <1>2, PreparingKept
  <2>2. h \in NewHalves(u)
    BY <2>1, SplitStays
  <2>3. CASE ~ Divides(t)
    <3>1. c \in Cells /\ Leads(c, h)
      BY <2>3, LeadsStay
    <3>2. QED
      BY <2>1, <2>2, <3>1 DEF FreshCells
  <2>4. CASE Divides(t)
    <3>1. u # t /\ pc[t] \in Preparing /\ pc[t] \in Splitting /\ pc[t] \notin {"retry", "read"}
      BY <2>1, <2>4, DividesDepth DEF Preparing, Splitting
    <3>2. h # target[t] /\ h \notin NewHalves(t)
      BY <2>1, <2>2, <3>1 DEF Unborn
    <3>3. h # s[t][1] /\ h # s[t][2]
      BY <3>1, <3>2 DEF NewHalves, Halves
    <3>4. PICK half : half = Pow2[depth'[dir'] - (local_depth[target[t]] + 1)]
      OBVIOUS
    <3>5. /\ c \in Nat /\ Old(c) \in Cells
          /\ Leads(c, h)' <=> IF Leads(Old(c), target[t]) THEN h = s[t][1 + ((c \div half) % 2)]
                              ELSE Leads(Old(c), h)
      BY <2>4, <3>4, DividedLeads
    <3>6. ~ Leads(Old(c), h)
      BY <2>1, <2>2, <3>5 DEF FreshCells
    <3>7. h = s[t][1 + ((c \div half) % 2)]
      BY <3>5, <3>6
    <3>8. (c \div half) % 2 \in {0, 1}
      <4>1. half \in Nat /\ half >= 1
        <5>1. depth'[dir'] - (local_depth[target[t]] + 1) \in 0..HashBits
          BY <2>4, DividesDepth, HashBitsNat
        <5>2. QED
          BY <3>4, <5>1, Pow2Positive
      <4>2. c \div half \in Nat
        BY <3>5, <4>1, Euclid
      <4>3. QED
        BY <4>2, HalvedBlock
    <3>9. QED
      BY <3>3, <3>7, <3>8
  <2>5. QED
    BY <2>3, <2>4
<1>3. QED
  BY <1>1, <1>2

\* A cell and the one of the old directory it stands for have the same prefixes.
LEMMA OldQuotient ==
  ASSUME NEW D \in 0..HashBits, NEW E \in 0..HashBits, D <= E, NEW n \in 0..D, NEW c \in Nat
  PROVE  (c \div Pow2[E - D]) \div Pow2[D - n] = c \div Pow2[E - n]
<1>1. /\ E - D \in 0..HashBits /\ D - n \in 0..HashBits
      /\ (E - D) + (D - n) = E - n /\ (E - D) + (D - n) <= HashBits
  BY HashBitsNat
<1>2. Pow2[E - n] = Pow2[E - D] * Pow2[D - n]
  BY <1>1, Pow2Product
<1>3. /\ Pow2[E - D] \in Nat /\ Pow2[E - D] >= 1 /\ Pow2[D - n] \in Nat /\ Pow2[D - n] >= 1
  BY <1>1, Pow2Positive
<1>4. QED
  BY <1>2, <1>3, DivDiv

\* Two numbers are the same when their halves and their last bits are.
LEMMA SameHalves ==
  ASSUME NEW m \in Nat, NEW n \in Nat
  PROVE  m = n <=> m \div 2 = n \div 2 /\ m % 2 = n % 2
OBVIOUS

\* Every step keeps the cells of a segment an aligned block.
LEMMA CellBlocksStep ==
  ASSUME IInv, Structure, CInv, SplitsApart', NEW t \in Threads, Step(t)
  PROVE  CellBlocks'
<1> TypeOK /\ Allocated
  BY DEF IInv
<1> Unborn /\ Halves /\ StoresApart /\ CellBlocks /\ FreshCells
  BY DEF Structure, CInv
<1> SUFFICES ASSUME NEW g \in Segs, NEW c \in Cells', Leads(c, g)', NEW e \in Cells'
             PROVE  Leads(e, g)' <=> e \div Stride(g)' = c \div Stride(g)'
  BY DEF CellBlocks
<1>1. CASE ~ Divides(t)
  <2>1. /\ depth'[dir'] = depth[dir] /\ c \in Cells /\ e \in Cells
        /\ Leads(c, g) /\ (Leads(e, g)' <=> Leads(e, g))
    BY <1>1, LeadsStay
  <2>2. g \in 1..nsegs
    BY <2>1, LeadsType
  <2>3. DepthToBe(g)' = DepthToBe(g)
    BY <1>1, <2>2, DepthToBeStep
  <2>4. Stride(g)' = Stride(g)
    BY <2>1, <2>3 DEF Stride
  <2>5. QED
    BY <2>1, <2>4 DEF CellBlocks
<1>2. CASE Divides(t)
  <2> DEFINE l == local_depth[target[t]]
             D == depth[dir]
             E == depth'[dir']
             half == Pow2[E - (l + 1)]
             a == Prefix(Key(t), l)
             Ours(x) == Leads(Old(x), target[t])
             bit(x) == (x \div half) % 2
  <2>1. /\ pc[t] \in Preparing /\ target[t] \in Segs /\ target[t] \in 1..nsegs
        /\ D \in 0..HashBits /\ E \in 0..HashBits /\ D <= E
        /\ l \in 0..D /\ l \in 0..HashBits /\ l + 1 \in 0..E /\ l + 1 <= HashBits
    BY <1>2, DividesDepth, HashBitsNat
  <2>2. pc[t] \in Splitting /\ pc[t] \notin {"retry", "read"}
    BY <2>1 DEF Preparing, Splitting
  <2>3. s[t][1] # s[t][2] /\ (INPLACE => s[t][1] = target[t])
    BY <2>2 DEF Halves
  <2>4. \A x \in Cells' : /\ x \in Nat /\ Old(x) \in Cells
                          /\ Leads(x, g)' <=> IF Ours(x) THEN g = s[t][1 + bit(x)]
                                              ELSE Leads(Old(x), g)
    BY <1>2, DividedLeads
  <2>5. half \in Nat /\ half >= 1 /\ Pow2[E - l] = 2 * half
    <3> HIDE DEF l, E, D
    <3>1. E - l \in 0..HashBits /\ E - l # 0 /\ (E - l) - 1 = E - (l + 1) /\ E - (l + 1) \in 0..HashBits
      BY <2>1, HashBitsNat
    <3>2. Pow2[E - l] = 2 * Pow2[E - (l + 1)]
      BY <3>1, NextPower
    <3>3. Pow2[E - (l + 1)] \in Nat /\ Pow2[E - (l + 1)] >= 1
      BY <3>1, Pow2Positive
    <3>4. QED
      BY <3>2, <3>3
  <2>6. \A x \in Cells' : \A n \in 0..D : Old(x) \div Pow2[D - n] = x \div Pow2[E - n]
    BY <2>1, <2>4, OldQuotient DEF Old
  <2>7. DepthToBe(g)' = IF INPLACE /\ g = target[t] THEN l + 1 ELSE DepthToBe(g)
    <3>1. g \in 1..nsegs
      <4>1. CASE Ours(c)
        <5>1. g = s[t][1 + bit(c)]
          BY <2>4, <4>1
        <5>2. c \div half \in Nat
          BY <2>4, <2>5, Euclid
        <5>3. bit(c) \in {0, 1}
          BY <5>2, HalvedBlock
        <5>4. s[t][1] \in 1..nsegs /\ s[t][2] \in 1..nsegs
          BY <2>2 DEF Allocated
        <5>5. CASE bit(c) = 0
          <6>1. g = s[t][1]
            BY <5>1, <5>5
          <6>2. QED
            BY <5>4, <6>1
        <5>6. CASE bit(c) = 1
          <6>1. g = s[t][2]
            BY <5>1, <5>6
          <6>2. QED
            BY <5>4, <6>1
        <5>7. QED
          BY <5>3, <5>5, <5>6
      <4>2. CASE ~ Ours(c)
        BY <2>4, <4>2, LeadsType
      <4>3. QED
        BY <4>1, <4>2
    <3>2. QED
      BY <1>2, <3>1, DepthToBeStep
  <2>8. Stride(g)' = Pow2[E - DepthToBe(g)']
    BY DEF Stride
  <2>9. \A x \in Cells' : Ours(x) <=> (x \div half) \div 2 = a
    <3> SUFFICES ASSUME NEW x \in Cells' PROVE Ours(x) <=> (x \div half) \div 2 = a
      OBVIOUS
    <3>1. Ours(x) <=> Old(x) \div Pow2[D - l] = a
      BY <2>1, <2>4, CellsOfSegment
    <3>2. Old(x) \div Pow2[D - l] = x \div (2 * half)
      BY <2>1, <2>5, <2>6
    <3>3. (x \div half) \div 2 = x \div (2 * half)
      BY <2>4, <2>5, HalfOfQuotient
    <3>4. QED
      BY <3>1, <3>2, <3>3
  <2>10. \A x \in Cells' : x \div half \in Nat /\ bit(x) \in {0, 1}
    BY <2>4, <2>5, Euclid, HalvedBlock
  <2>11. \A h \in NewHalves(t) :
           /\ local_depth[h] = l + 1 /\ DepthToBe(h) = local_depth[h] /\ h # target[t]
           /\ \A x \in Cells : ~ Leads(x, h)
    <3>1. \A h \in NewHalves(t) :
            /\ local_depth[h] = l + 1
            /\ \A u \in Threads : pc[u] \notin {"retry", "read"} => target[u] # h
      BY <2>1 DEF Unborn
    <3>2. \A h \in NewHalves(t) : DepthToBe(h) = local_depth[h]
      BY <3>1 DEF DepthToBe
    <3>3. QED
      BY <2>1, <2>2, <3>1, <3>2 DEF FreshCells
  <2>12. \A i \in {1, 2} : s[t][i] \in NewHalves(t) \/ (INPLACE /\ i = 1 /\ s[t][i] = target[t])
    BY <2>3 DEF NewHalves
  <2> HIDE DEF l, D, E, half, a, bit
  <2>13. CASE Ours(c)
    <3>1. g = s[t][1 + bit(c)]
      BY <2>4, <2>13
    <3>2. g \in NewHalves(t) \/ (INPLACE /\ g = target[t])
      BY <2>10, <2>12, <3>1
    <3>3. DepthToBe(g)' = l + 1
      BY <2>7, <2>11, <3>2
    <3>4. Stride(g)' = half
      BY <2>8, <3>3 DEF half
    <3>5. Leads(e, g)' <=> Ours(e) /\ bit(e) = bit(c)
      <4>1. CASE Ours(e)
        <5>1. Leads(e, g)' <=> s[t][1 + bit(c)] = s[t][1 + bit(e)]
          BY <2>4, <3>1, <4>1
        <5>2. QED
          BY <2>3, <2>10, <4>1, <5>1
      <4>2. CASE ~ Ours(e)
        <5>1. ~ Leads(Old(e), g)
          BY <2>4, <2>11, <3>2, <4>2
        <5>2. QED
          BY <2>4, <4>2, <5>1
      <4>3. QED
        BY <4>1, <4>2
    <3>6. Ours(e) <=> (e \div half) \div 2 = (c \div half) \div 2
      BY <2>9, <2>13
    <3>7. e \div half = c \div half <=>
             (e \div half) \div 2 = (c \div half) \div 2 /\ bit(e) = bit(c)
      BY <2>10, SameHalves DEF bit
    <3>8. QED
      BY <3>4, <3>5, <3>6, <3>7
  <2>14. CASE ~ Ours(c)
    <3>1. Leads(Old(c), g)
      BY <2>4, <2>14
    <3>2. g # target[t] /\ g \notin NewHalves(t) /\ DepthToBe(g) \in 0..D
      BY <2>4, <2>11, <2>14, <3>1, LeadsType DEF D
    <3>3. g # s[t][1] /\ g # s[t][2]
      BY <2>12, <3>2
    <3>4. Leads(e, g)' <=> Leads(Old(e), g)
      <4>1. CASE Ours(e)
        <5>1. ~ Leads(Old(e), g)
          BY <2>4, <3>2, <4>1, OneLead
        <5>2. g # s[t][1 + bit(e)]
          BY <2>10, <3>3
        <5>3. QED
          BY <2>4, <4>1, <5>1, <5>2
      <4>2. CASE ~ Ours(e)
        BY <2>4, <4>2
      <4>3. QED
        BY <4>1, <4>2
    <3>5. DepthToBe(g)' = DepthToBe(g)
      BY <2>7, <3>2
    <3>6. Stride(g)' = Pow2[E - DepthToBe(g)] /\ Stride(g) = Pow2[D - DepthToBe(g)]
      BY <2>8, <3>5 DEF Stride, D
    <3>7. /\ Old(c) \div Stride(g) = c \div Stride(g)'
          /\ Old(e) \div Stride(g) = e \div Stride(g)'
      BY <2>6, <3>2, <3>6
    <3>8. Leads(Old(e), g) <=> Old(e) \div Stride(g) = Old(c) \div Stride(g)
      BY <2>4, <3>1 DEF CellBlocks
    <3>9. QED
      BY <3>4, <3>7, <3>8
  <2>15. QED
    BY <2>13, <2>14
<1>3. QED
  BY <1>1, <1>2

\* Every step keeps the pairs of a segment finite in number.
LEMMA SlotsFiniteStep ==
  ASSUME IInv, SlotsFinite, NEW t \in Threads, Step(t)
  PROVE  SlotsFinite'
<1> TypeOK
  BY DEF IInv
<1>1. \A g \in Segs : IsFiniteSet(slots[g]) /\ slots \in [Segs -> SUBSET Pair]
  BY DEF SlotsFinite, TypeOK
<1>2. \A S, T : IsFiniteSet(S) /\ T \subseteq S => IsFiniteSet(T)
  BY FS_Subset
<1>3. \A S, T, x : IsFiniteSet(S) => IsFiniteSet((S \ T) \cup {x})
  <2>1. \A S, x : IsFiniteSet(S) => IsFiniteSet(S \cup {x})
    BY FS_AddElement
  <2>2. \A S, T : S \ T \subseteq S
    OBVIOUS
  <2>3. QED
    BY <1>2, <2>1, <2>2
<1> SUFFICES ASSUME NEW g \in Segs PROVE IsFiniteSet(slots'[g])
  BY DEF SlotsFinite
<1>4. CASE Put(t)
  <2>1. PICK dead, p : slots' = [slots EXCEPT ![target[t]] = (@ \ dead) \cup {p}]
    BY <1>4 DEF Put
  <2>2. slots'[g] = slots[g] \/ slots'[g] = (slots[g] \ dead) \cup {p}
    BY <1>1, <2>1
  <2>3. IsFiniteSet((slots[g] \ dead) \cup {p})
    BY <1>1, <1>3, Zenon
  <2>4. QED
    BY <1>1, <2>2, <2>3, Zenon
<1>5. CASE Update(t)
  <2>1. PICK p : slots' = [slots EXCEPT ![target[t]] =
                             IF Matching(target[t], Key(t)) = {} THEN @
                             ELSE (@ \ Matching(target[t], Key(t))) \cup {p}]
    BY <1>5 DEF Update
  <2>2. \/ slots'[g] = slots[g]
        \/ slots'[g] = (slots[g] \ Matching(target[t], Key(t))) \cup {p}
    BY <1>1, <2>1
  <2>3. IsFiniteSet((slots[g] \ Matching(target[t], Key(t))) \cup {p})
    BY <1>1, <1>3, Zenon
  <2>4. QED
    BY <1>1, <2>2, <2>3, Zenon
<1>6. CASE Delete(t)
  <2>1. slots'[g] \subseteq slots[g]
    BY <1>1, <1>6 DEF Delete
  <2>2. QED
    BY <1>1, <1>2, <2>1
<1>7. CASE Split(t)
  <2>1. target[t] \in Segs
    BY <1>7, TargetType DEF IInv, Split
  <2>2. slots'[g] = slots[g] \/ slots'[g] \subseteq slots[target[t]]
    BY <1>7 DEF Split
  <2>3. QED
    BY <1>1, <1>2, <2>1, <2>2
<1>8. CASE ~ Put(t) /\ ~ Update(t) /\ ~ Delete(t) /\ ~ Split(t)
  <2>1. slots' = slots
    BY <1>8 DEF Step, AwaitDirectory, ReadTarget, LockTarget, TryLockFails, CheckTarget, Get,
       ReadDirectory, Suspend, Drain, DoubleDirectory, Publish, LockDirectory, StoreEntry,
       UnlockDirectory, FinishSplit, segVars
  <2>2. QED
    BY <1>1, <2>1
<1>9. QED
  BY <1>4, <1>5, <1>6, <1>7, <1>8

\* At the start every cell has a segment of its own.
LEMMA InitCInv == Init => CInv
<1> SUFFICES ASSUME Init PROVE CInv
  OBVIOUS
<1>1. /\ dir = 1 /\ pc = [t \in Threads |-> "retry"]
      /\ depth = [d \in Dirs |-> IF d = 1 THEN InitDepth ELSE 0]
      /\ entry = [d \in Dirs |-> [i \in Index |->
                     IF d = 1 /\ i < Pow2[InitDepth] THEN i + 1 ELSE NULL]]
      /\ local_depth = [g \in Segs |-> IF g <= Pow2[InitDepth] THEN InitDepth ELSE 0]
      /\ slots = [g \in Segs |-> {}]
  BY DEF Init
<1>2. 1 \in Dirs /\ InitDepth \in Nat
  BY ConstantAssumption, HashBitsNat DEF Dirs
<1>3. IInv
  BY InitIInv
<1>4. \A t \in Threads : \A c, g : ~ WillStore(t, c, g)
  BY <1>1 DEF WillStore
<1>5. \A c, g : Leads(c, g) <=> entry[dir][c] = g
  BY <1>4 DEF Leads
<1>6. \A c \in Cells : c \in Nat /\ entry[dir][c] = c + 1
  <2>1. \A c \in Cells : c \in Nat /\ c \in Index /\ c < Pow2[InitDepth]
    BY <1>1, <1>2, <1>3, CellType
  <2>2. QED
    BY <1>1, <1>2, <2>1
<1>7. \A g \in Segs : g <= Pow2[InitDepth] => Stride(g) = 1
  <2>1. \A g \in Segs : g <= Pow2[InitDepth] => DepthToBe(g) = InitDepth
    BY <1>1 DEF DepthToBe
  <2>2. InitDepth - InitDepth = 0 /\ depth[dir] = InitDepth
    BY <1>1, <1>2
  <2>3. QED
    BY <2>1, <2>2, SmallPowers DEF Stride
<1>8. CellBlocks
  <2> SUFFICES ASSUME NEW g \in Segs, NEW c \in Cells, Leads(c, g), NEW e \in Cells
               PROVE  Leads(e, g) <=> e \div Stride(g) = c \div Stride(g)
    BY DEF CellBlocks
  <2>1. g = c + 1 /\ (Leads(e, g) <=> e + 1 = g) /\ c \in Nat /\ e \in Nat
    BY <1>5, <1>6
  <2>2. c < Pow2[InitDepth]
    BY <1>1, <1>2, <1>3, CellType
  <2>3. Pow2[InitDepth] \in Nat
    BY ConstantAssumption, HashBitsNat, Pow2Positive
  <2>4. Stride(g) = 1
    BY <1>7, <2>1, <2>2, <2>3
  <2>5. e \div 1 = e /\ c \div 1 = c
    BY <2>1
  <2>6. QED
    BY <2>1, <2>4, <2>5
<1>9. StoresApart /\ FreshCells /\ SlotsFinite
  <2>1. IsFiniteSet({})
    BY FS_EmptySet
  <2>2. QED
    BY <1>1, <1>4, <2>1 DEF StoresApart, FreshCells, SlotsFinite, Preparing
<1>10. QED
  BY <1>8, <1>9 DEF CInv

\* The invariant of the cells is one of the behaviours in which splits stay apart.
LEMMA NextCInv == CInv /\ IInv /\ Structure /\ SplitsApart' /\ [Next]_vars => CInv'
<1> SUFFICES ASSUME CInv, IInv, Structure, SplitsApart', [Next]_vars PROVE CInv'
  OBVIOUS
<1>1. CASE UNCHANGED vars
  <2>1. /\ dir' = dir /\ depth' = depth /\ entry' = entry /\ local_depth' = local_depth
        /\ slots' = slots /\ pc' = pc /\ target' = target /\ s' = s /\ stores' = stores
    BY <1>1 DEF vars, dirVars, segVars, splitVars
  <2>2. Cells' = Cells /\ \A t, c, g : WillStore(t, c, g)' <=> WillStore(t, c, g)
    BY <2>1 DEF Cells, WillStore
  <2>3. \A c, g : Leads(c, g)' <=> Leads(c, g)
    BY <2>1, <2>2 DEF Leads
  <2>4. \A g : Stride(g)' = Stride(g)
    BY <2>1 DEF Stride, DepthToBe
  <2>5. \A t : NewHalves(t)' = NewHalves(t)
    BY <2>1 DEF NewHalves
  <2>6. StoresApart' /\ SlotsFinite'
    BY <2>1, <2>2 DEF CInv, StoresApart, SlotsFinite
  <2>7. FreshCells'
    BY <2>1, <2>2, <2>3, <2>5 DEF CInv, FreshCells
  <2>8. CellBlocks'
    BY <2>2, <2>3, <2>4 DEF CInv, CellBlocks
  <2>9. QED
    BY <2>6, <2>7, <2>8 DEF CInv
<1>2. ASSUME NEW t \in Threads, Step(t) PROVE CInv'
  BY <1>2, StoresApartStep, CellBlocksStep, FreshCellsStep, SlotsFiniteStep DEF CInv
<1>3. QED
  BY <1>1, <1>2 DEF Next, Terminated

LEMMA InductiveCInv == Spec /\ []SplitsApart => []CInv
<1>1. MInv => Structure
  BY DEF MInv
<1>2. QED
  BY <1>1, InitCInv, NextCInv, Inductive, InductiveMInv, PTL DEF Spec

\* A set onto which a finite set is mapped is finite, and as large if no two of its
\* members are mapped to one.
LEMMA Mapped ==
  ASSUME NEW S, NEW T, IsFiniteSet(S), NEW f \in [S -> T], \A y \in T : \E x \in S : f[x] = y
  PROVE  /\ IsFiniteSet(T)
         /\ (\A x, y \in S : f[x] = f[y] => x = y) => Cardinality(T) = Cardinality(S)
<1>1. f \in Surjection(S, T)
  BY DEF Surjection
<1>2. IsFiniteSet(T)
  BY <1>1, FS_Surjection
<1>3. ASSUME \A x, y \in S : f[x] = f[y] => x = y PROVE Cardinality(T) = Cardinality(S)
  <2>1. f \in Bijection(S, T)
    BY <1>1, <1>3 DEF Bijection, Injection, IsInjective
  <2>2. QED
    BY <2>1, FS_Bijection DEF ExistsBijection
<1>4. QED
  BY <1>2, <1>3

\* What the recursive definition of the walk over the directory says of it.
LEMMA WalkLemma ==
  ASSUME IInv
  PROVE  \E w :
           /\ Walk = w[0]
           /\ \A i \in Nat : w[i] =
                IF i >= Pow2[depth[dir]] THEN {}
                ELSE {<<i, entry[dir][i]>>}
                       \cup w[i + Pow2[depth[dir] - local_depth[entry[dir][i]]]]
<1> DEFINE N == Pow2[depth[dir]]
           Next1(i) == i + Pow2[depth[dir] - local_depth[entry[dir][i]]]
           F(f, i) == IF i >= N THEN {} ELSE {<<i, entry[dir][i]>>} \cup f[Next1(i)]
           IsWalk(f, m) == DOMAIN f = Nat /\ f = [i \in Nat |-> f[i]]
                           /\ \A i \in Nat : i + m >= N => f[i] = F(f, i)
           S == {m \in 0..N : ~ \E f : IsWalk(f, m)}
<1>1. /\ N \in Nat
      /\ \A i \in Nat : i < N => Next1(i) \in Nat /\ Next1(i) > i
  <2>1. depth[dir] \in 0..HashBits /\ N \in Nat /\ Pow2[HashBits] \in Nat /\ N <= Pow2[HashBits]
    <3>1. depth[dir] \in 0..HashBits
      BY DEF IInv, TypeOK
    <3>2. QED
      BY <3>1, Pow2Monotonic
  <2>2. ASSUME NEW i \in Nat, i < N PROVE Next1(i) \in Nat /\ Next1(i) > i
    <3>1. i \in Cells
      BY <2>1, <2>2 DEF Cells, Index
    <3>2. entry[dir][i] \in Segs /\ local_depth[entry[dir][i]] <= depth[dir]
      BY <3>1, CellType
    <3>3. local_depth[entry[dir][i]] \in 0..HashBits
      BY <3>2 DEF IInv, TypeOK
    <3>4. depth[dir] - local_depth[entry[dir][i]] \in 0..HashBits
      BY <2>1, <3>2, <3>3, HashBitsNat
    <3>5. PICK n \in Nat : n = Pow2[depth[dir] - local_depth[entry[dir][i]]] /\ n >= 1
      BY <3>4, Pow2Positive
    <3>6. QED
      BY <2>2, <3>5
  <2>3. QED
    BY <2>1, <2>2
<1> HIDE DEF N, Next1, F, IsWalk
<1>2. S = {}
  <2>1. SUFFICES ASSUME S # {} PROVE FALSE
    OBVIOUS
  <2>2. PICK m \in S : \A n \in S : m <= n
    BY <1>1, <2>1, Smallest
  <2>3. CASE m = 0
    <3> DEFINE g == [i \in Nat |-> {}]
    <3>1. \A i \in Nat : i + 0 >= N => g[i] = F(g, i)
      BY <1>1 DEF F
    <3>2. IsWalk(g, 0)
      BY <3>1 DEF IsWalk
    <3>3. QED
      BY <2>2, <2>3, <3>2
  <2>4. CASE m # 0
    <3>1. m \in 1..N /\ m - 1 \in 0..N /\ m - 1 \notin S
      BY <1>1, <2>2, <2>4
    <3>2. PICK f : IsWalk(f, m - 1)
      BY <3>1
    <3>3. PICK j \in Nat : j = N - m /\ j < N
      BY <1>1, <3>1
    <3> DEFINE g == [i \in Nat |-> IF i = j THEN F(f, j) ELSE f[i]]
    <3>4. ASSUME NEW i \in Nat, i + m >= N PROVE g[i] = F(g, i)
      <4>1. g[i] = F(f, i)
        <5>1. CASE i = j
          BY <5>1
        <5>2. CASE i # j
          <6>1. i + (m - 1) >= N
            BY <1>1, <3>1, <3>3, <3>4, <5>2
          <6>2. QED
            BY <3>2, <5>2, <6>1 DEF IsWalk
        <5>3. QED
          BY <5>1, <5>2
      <4>2. i < N => Next1(i) \in Nat /\ g[Next1(i)] = f[Next1(i)]
        <5>1. i >= j
          BY <1>1, <3>1, <3>3, <3>4
        <5>2. i < N => Next1(i) \in Nat /\ Next1(i) # j
          BY <1>1, <3>3, <5>1
        <5>3. QED
          BY <5>2
      <4>3. i >= N \/ i < N
        BY <1>1
      <4> HIDE DEF g
      <4>4. F(g, i) = F(f, i)
        BY <4>2, <4>3 DEF F
      <4>5. QED
        BY <4>1, <4>4
    <3>5. IsWalk(g, m)
      BY <3>4 DEF IsWalk
    <3>6. QED
      BY <2>2, <3>5
  <2>5. QED
    BY <2>3, <2>4
<1>3. PICK f : IsWalk(f, N)
  <2>1. N \in 0..N /\ N \notin S
    BY <1>1, <1>2
  <2>2. QED
    BY <2>1
<1>4. \A i \in Nat : f[i] = F(f, i)
  <2>1. \A i \in Nat : i + N >= N
    BY <1>1
  <2>2. QED
    BY <1>3, <2>1 DEF IsWalk
<1>5. f = [i \in Nat |-> F(f, i)]
  <2> DEFINE h == [i \in Nat |-> F(f, i)]
             k == [i \in Nat |-> f[i]]
  <2>1. \A i \in Nat : k[i] = h[i]
    BY <1>4
  <2>2. f = k
    BY <1>3 DEF IsWalk
  <2>3. k = h
    BY <2>1
  <2>4. QED
    BY <2>2, <2>3
<1> DEFINE w == CHOOSE v : v = [i \in Nat |-> F(v, i)]
<1>6. w = [i \in Nat |-> F(w, i)]
  BY <1>5
<1>7. Walk = w[0]
  BY DEF Walk, F, N, Next1
<1> HIDE DEF w
<1>8. \A i \in Nat : w[i] = F(w, i)
  BY <1>6
<1>9. QED
  BY <1>7, <1>8 DEF F, N, Next1

\* How far the walk goes on from a cell, and the cells it meets.
Gap(c) == Pow2[depth[dir] - local_depth[entry[dir][c]]]
Starts == {c \in Cells : c % Gap(c) = 0}

\* While no split is under way the cells of each segment are an aligned block.
LEMMA QuietCells ==
  ASSUME IInv, CInv, \A t \in Threads : pc[t] \notin Splitting
  PROVE  /\ Pow2[depth[dir]] \in Nat /\ Cells = 0..(Pow2[depth[dir]] - 1)
         /\ \A c \in Cells :
              /\ c \in Nat /\ Gap(c) \in Nat /\ Gap(c) >= 1
              /\ (Gap(c) * (c \div Gap(c))) + Gap(c) <= Pow2[depth[dir]]
              /\ \A e \in Cells : /\ entry[dir][e] = entry[dir][c] <=> e \div Gap(c) = c \div Gap(c)
                                  /\ entry[dir][e] = entry[dir][c] => Gap(e) = Gap(c)
<1> DEFINE D == depth[dir]
           N == Pow2[D]
<1>1. D \in 0..HashBits /\ N \in Nat /\ Pow2[HashBits] \in Nat /\ N <= Pow2[HashBits]
  <2>1. D \in 0..HashBits
    BY DEF IInv, TypeOK
  <2>2. QED
    BY <2>1, Pow2Monotonic
<1>2. Cells = 0..(N - 1)
  <2> HIDE DEF D
  <2>1. Cells = {c \in Index : c < N}
    BY DEF Cells, D
  <2>2. QED
    BY <1>1, <2>1 DEF Index
<1>3. \A c, g : Leads(c, g) <=> entry[dir][c] = g
  BY DEF Leads, WillStore, Splitting
<1>4. \A g \in Segs : DepthToBe(g) = local_depth[g]
  BY DEF DepthToBe, Splitting
<1>5. ASSUME NEW c \in Cells
      PROVE  /\ c \in Nat /\ Gap(c) \in Nat /\ Gap(c) >= 1
             /\ (Gap(c) * (c \div Gap(c))) + Gap(c) <= N
             /\ \A e \in Cells : entry[dir][e] = entry[dir][c] <=> e \div Gap(c) = c \div Gap(c)
  <2> DEFINE g == entry[dir][c]
             l == local_depth[g]
  <2>1. c \in Nat /\ c < N /\ g \in Segs /\ l <= D
    BY CellType
  <2>2. l \in 0..HashBits /\ D - l \in 0..HashBits /\ l + (D - l) = D
    <3>1. l \in 0..HashBits
      BY <2>1 DEF IInv, TypeOK
    <3>2. QED
      BY <1>1, <2>1, <3>1, HashBitsNat
  <2>3. Gap(c) = Pow2[D - l] /\ Gap(c) \in Nat /\ Gap(c) >= 1
    BY <2>2, Pow2Positive DEF Gap
  <2>4. PICK q \in Nat : N = q * Gap(c)
    <3>1. Pow2[l + (D - l)] = Pow2[l] * Pow2[D - l] /\ Pow2[l] \in Nat
      BY <1>1, <2>2, Pow2Product, Pow2Positive
    <3>2. QED
      BY <2>2, <2>3, <3>1
  <2>5. (Gap(c) * (c \div Gap(c))) + Gap(c) <= N
    <3>1. c - (c % Gap(c)) + Gap(c) <= N
      BY <2>1, <2>3, <2>4, Aligned
    <3>2. PICK st \in Nat : st = Gap(c) /\ st >= 1
      BY <2>3
    <3>3. PICK m \in Nat, r \in Nat : m = st * (c \div st) /\ r = c % st /\ c = m + r
      <4>1. c \div st \in Nat /\ c % st \in 0..(st-1) /\ c = (st * (c \div st)) + (c % st)
        BY <2>1, <3>2, Euclid
      <4>2. \A m, n \in Nat : m * n \in Nat
        OBVIOUS
      <4>3. st * (c \div st) \in Nat
        BY <3>2, <4>1, <4>2
      <4>4. QED
        BY <4>1, <4>3
    <3>4. (c - r) + st <= N /\ c - r = m
      BY <3>1, <3>2, <3>3
    <3>5. QED
      BY <3>2, <3>3, <3>4
  <2>6. Stride(g) = Gap(c) /\ Leads(c, g)
    BY <1>3, <1>4, <2>1 DEF Stride, Gap
  <2>7. \A e \in Cells : entry[dir][e] = g <=> e \div Gap(c) = c \div Gap(c)
    BY <1>3, <2>1, <2>6 DEF CInv, CellBlocks
  <2>8. QED
    BY <2>1, <2>3, <2>5, <2>7
<1>6. \A c, e : entry[dir][e] = entry[dir][c] => Gap(e) = Gap(c)
  BY DEF Gap
<1>7. QED
  BY <1>1, <1>2, <1>5, <1>6

\* A multiple of p, and the numbers up to the next one.
LEMMA NextMultiple ==
  ASSUME NEW i \in Nat, NEW p \in Nat, p >= 1, i % p = 0
  PROVE  /\ i = p * (i \div p)
         /\ \A r \in 0..(p-1) : (i + r) \div p = i \div p
         /\ (i + p) \div p # i \div p
<1>1. PICK q \in Nat : q = i \div p /\ i = p * q
  <2>1. i \div p \in Nat /\ i = (p * (i \div p)) + (i % p)
    BY Euclid
  <2>2. p * (i \div p) \in Nat
    BY <2>1
  <2>3. QED
    BY <2>1, <2>2
<1>2. \A r \in 0..(p-1) : (i + r) \div p = q
  BY <1>1, Quotient
<1>3. (i + p) \div p = q + 1
  <2>1. p * (q + 1) = (p * q) + p /\ 0 \in 0..(p-1) /\ p * (q + 1) \in Nat
    OBVIOUS
  <2>2. ((p * (q + 1)) + 0) \div p = q + 1
    BY Quotient
  <2>3. (p * (q + 1)) + 0 = i + p
    BY <1>1, <2>1
  <2>4. QED
    BY <2>2, <2>3
<1>4. QED
  BY <1>1, <1>2, <1>3

\* A number that is no multiple of p is not the first one with its quotient.
LEMMA NotFirst ==
  ASSUME NEW j \in Nat, NEW p \in Nat, p >= 1, j % p # 0
  PROVE  j - 1 \in Nat /\ (j - 1) \div p = j \div p
<1>1. PICK q \in Nat, r \in 0..(p-1) : q = j \div p /\ r = j % p /\ j = (p * q) + r
  BY Euclid
<1>2. r - 1 \in 0..(p-1) /\ p * q \in Nat
  BY <1>1
<1>3. j - 1 = (p * q) + (r - 1) /\ j - 1 \in Nat
  BY <1>1, <1>2
<1>4. ((p * q) + (r - 1)) \div p = q
  BY <1>2, Quotient
<1>5. QED
  BY <1>1, <1>3, <1>4

\* Each block of cells has one start, which holds the same segment.
LEMMA OneStart ==
  ASSUME IInv, CInv, \A t \in Threads : pc[t] \notin Splitting
  PROVE  /\ \A c, e \in Starts : entry[dir][c] = entry[dir][e] => c = e
         /\ \A c \in Cells : \E e \in Starts : /\ entry[dir][e] = entry[dir][c]
                                               /\ Gap(e) = Gap(c) /\ e \div Gap(c) = c \div Gap(c)
<1>1. ASSUME NEW c \in Starts, NEW e \in Starts, entry[dir][c] = entry[dir][e] PROVE c = e
  <2>1. /\ c \in Cells /\ e \in Cells /\ c \in Nat /\ e \in Nat
        /\ Gap(c) \in Nat /\ Gap(c) >= 1 /\ Gap(e) = Gap(c)
        /\ e \div Gap(c) = c \div Gap(c)
    BY <1>1, QuietCells DEF Starts
  <2>2. c % Gap(c) = 0 /\ e % Gap(c) = 0
    BY <2>1 DEF Starts
  <2>3. c = Gap(c) * (c \div Gap(c)) /\ e = Gap(c) * (e \div Gap(c))
    BY <2>1, <2>2, NextMultiple
  <2>4. QED
    BY <2>1, <2>3
<1>2. ASSUME NEW c \in Cells
      PROVE  \E e \in Starts : /\ entry[dir][e] = entry[dir][c]
                               /\ Gap(e) = Gap(c) /\ e \div Gap(c) = c \div Gap(c)
  <2>1. c \in Nat /\ Cells = 0..(Pow2[depth[dir]] - 1) /\ Pow2[depth[dir]] \in Nat
    BY QuietCells
  <2>2. PICK p \in Nat : p = Gap(c) /\ p >= 1
    BY QuietCells
  <2>3. PICK q \in Nat, r \in 0..(p-1) : q = c \div p /\ c = (p * q) + r
    <3>1. c \div p \in Nat /\ c % p \in 0..(p-1) /\ c = (p * (c \div p)) + (c % p)
      BY <2>1, <2>2, Euclid
    <3>2. QED
      BY <3>1, Zenon
  <2>4. PICK e \in Nat : e = p * q
    <3>1. \A m, n \in Nat : m * n \in Nat
      OBVIOUS
    <3>2. QED
      BY <2>2, <2>3, <3>1
  <2>5. e <= c /\ e \in Cells
    <3>1. c = e + r /\ r \in Nat
      BY <2>2, <2>3, <2>4
    <3>2. PICK n \in Nat : n = Pow2[depth[dir]] /\ c \in 0..(n - 1)
      BY <2>1
    <3>3. e <= c /\ e \in 0..(n - 1)
      BY <2>1, <2>4, <3>1, <3>2
    <3>4. QED
      BY <2>1, <3>2, <3>3
  <2>6. e \div p = q /\ e % p = 0
    <3>1. 0 \in 0..(p-1) /\ (p * q) + 0 = e
      BY <2>2, <2>4
    <3>2. e \div p = q
      BY <2>2, <2>3, <3>1, Quotient
    <3>3. e = (p * (e \div p)) + (e % p) /\ e % p \in 0..(p-1)
      BY <2>2, <2>4, Euclid
    <3>4. PICK r0 \in Nat : r0 = e % p /\ e = e + r0
      BY <2>2, <2>4, <3>2, <3>3
    <3>5. QED
      BY <2>4, <3>2, <3>4
  <2>7. entry[dir][e] = entry[dir][c] /\ Gap(e) = Gap(c)
    BY <2>2, <2>3, <2>5, <2>6, QuietCells
  <2>8. e \in Starts
    BY <2>2, <2>5, <2>6, <2>7 DEF Starts
  <2>9. QED
    BY <2>2, <2>3, <2>6, <2>7, <2>8
<1>3. QED
  BY <1>1, <1>2

\* The walk meets the first cell of every segment, and no other.
LEMMA WalkMeets ==
  ASSUME IInv, CInv, \A t \in Threads : pc[t] \notin Splitting
  PROVE  Walk = {<<c, entry[dir][c]>> : c \in Starts}
<1> DEFINE N == Pow2[depth[dir]]
           From(i) == {<<c, entry[dir][c]>> : c \in {e \in Starts : e >= i}}
           Right(w, i) == w[i] = From(i)
<1>1. /\ N \in Nat /\ Cells = 0..(N - 1)
      /\ \A c \in Cells :
           /\ c \in Nat /\ Gap(c) \in Nat /\ Gap(c) >= 1
           /\ (Gap(c) * (c \div Gap(c))) + Gap(c) <= N
           /\ \A e \in Cells : /\ entry[dir][e] = entry[dir][c] <=> e \div Gap(c) = c \div Gap(c)
                               /\ entry[dir][e] = entry[dir][c] => Gap(e) = Gap(c)
  BY QuietCells
<1>2. PICK w : /\ Walk = w[0]
               /\ \A i \in Nat : w[i] = IF i >= N THEN {}
                                        ELSE {<<i, entry[dir][i]>>} \cup w[i + Gap(i)]
  BY WalkLemma DEF Gap
<1>3. N >= 1
  BY Pow2Positive DEF IInv, TypeOK
<1>3a. N \in Nat /\ Cells = 0..(N - 1)
  BY <1>1
<1> HIDE DEF N, From, Right
<1>4. ASSUME NEW i \in Starts
      PROVE  LET j == i + Gap(i) IN
             /\ i \in Nat /\ i < N /\ j \in Nat /\ j > i /\ j <= N
             /\ \A c \in Starts : c > i => c >= j
             /\ j < N => j \in Starts
  <2>1. i \in Cells /\ i \in Nat /\ i < N /\ i % Gap(i) = 0
    BY <1>1 DEF Starts
  <2>2. PICK p \in Nat : p = Gap(i) /\ p >= 1
    BY <1>1, <2>1
  <2>3. /\ i = p * (i \div p) /\ (i + p) \div p # i \div p
        /\ \A r \in 0..(p-1) : (i + r) \div p = i \div p
    BY <2>1, <2>2, NextMultiple
  <2>4. (p * (i \div p)) + p <= N
    BY <1>1, <2>1, <2>2
  <2>5. i + p <= N
    BY <2>3, <2>4
  <2>6. \A c \in Cells : c >= i /\ c < i + p => c \div p = i \div p /\ entry[dir][c] = entry[dir][i]
    <3> SUFFICES ASSUME NEW c \in Cells, c >= i, c < i + p
                 PROVE  c \div p = i \div p /\ entry[dir][c] = entry[dir][i]
      OBVIOUS
    <3>1. c \in Nat /\ c - i \in 0..(p-1) /\ i + (c - i) = c
      BY <1>1, <2>1, <2>2
    <3>2. c \div p = i \div p
      BY <2>3, <3>1
    <3>3. QED
      BY <1>1, <2>1, <2>2, <3>2
  <2>7. ASSUME NEW c \in Starts, c > i PROVE c >= i + p
    <3>1. c \in Cells /\ c \in Nat
      BY <1>1 DEF Starts
    <3>2. CASE c < i + p
      <4>1. entry[dir][c] = entry[dir][i]
        BY <2>1, <2>6, <2>7, <3>1, <3>2
      <4>2. c = i
        BY <4>1, OneStart
      <4>3. QED
        BY <2>1, <2>7, <4>2
    <3>3. QED
      BY <2>1, <2>2, <3>1, <3>2
  <2>8. ASSUME i + p < N PROVE i + p \in Starts
    <3>1. PICK j \in Nat : j = i + p /\ j \in Cells
      BY <1>1, <2>1, <2>2, <2>8
    <3>2. PICK q \in Nat : q = Gap(j) /\ q >= 1
      BY <1>1, <3>1
    <3>3. CASE j % q = 0
      BY <3>1, <3>2, <3>3 DEF Starts
    <3>4. CASE j % q # 0
      <4>1. j - 1 \in Nat /\ (j - 1) \div q = j \div q
        BY <3>2, <3>4, NotFirst
      <4>2. j - 1 \in Cells /\ j - 1 >= i /\ j - 1 < i + p
        BY <1>3a, <2>1, <2>2, <2>8, <3>1, <4>1
      <4>3. entry[dir][j - 1] = entry[dir][j]
        BY <1>1, <3>1, <3>2, <4>1, <4>2
      <4>4. entry[dir][j - 1] = entry[dir][i]
        BY <2>6, <4>2
      <4>5. j \div p = i \div p
        <5>1. entry[dir][j] = entry[dir][i]
          BY <4>3, <4>4, Zenon
        <5>2. j \in Cells /\ i \in Cells
          BY <2>1, <3>1
        <5>3. j \div Gap(i) = i \div Gap(i)
          BY <1>1, <5>1, <5>2, Zenon
        <5>4. QED
          BY <2>2, <5>3, Zenon
      <4>6. QED
        BY <2>3, <3>1, <4>5
    <3>5. QED
      BY <3>3, <3>4
  <2>9. QED
    BY <2>1, <2>2, <2>5, <2>7, <2>8
<1> DEFINE Bad == {n \in 0..N : (n = 0 \/ N - n \in Starts) /\ ~ Right(w, N - n)}
<1>5. Bad = {}
  <2>1. SUFFICES ASSUME Bad # {} PROVE FALSE
    OBVIOUS
  <2>2. PICK n \in Bad : \A m \in Bad : n <= m
    <3>1. Bad \in SUBSET (0..N)
      OBVIOUS
    <3> HIDE DEF Bad
    <3>2. QED
      BY <1>1, <2>1, <3>1, Smallest
  <2>3. PICK i \in Nat : i = N - n /\ i <= N /\ n = N - i /\ n \in 0..N
    BY <1>3a
  <2>4. (i = N \/ i \in Starts) /\ w[i] # From(i)
    <3>1. (n = 0 \/ i \in Starts) /\ ~ Right(w, i)
      BY <2>2, <2>3
    <3>2. n = 0 => i = N
      BY <1>3a, <2>3
    <3>3. QED
      BY <3>1, <3>2 DEF Right
  <2>5. CASE i = N
    <3>1. w[i] = {}
      <4>1. i \in Nat /\ i >= N
        BY <1>3a, <2>5
      <4>2. QED
        BY <1>2, <4>1
    <3>2. \A c \in Starts : c < N /\ c \in Nat
      BY <1>4
    <3>3. From(i) = {}
      <4>1. \A c \in Starts : ~ (c >= i)
        BY <1>3a, <2>5, <3>2
      <4>2. QED
        BY <4>1 DEF From
    <3>4. QED
      BY <2>4, <3>1, <3>3
  <2>6. CASE i # N
    <3>1. i \in Starts
      BY <2>4, <2>6
    <3>2. PICK j \in Nat : /\ j = i + Gap(i) /\ i < N /\ j > i /\ j <= N
                           /\ \A c \in Starts : c > i => c >= j
                           /\ j < N => j \in Starts
      BY <1>4, <3>1
    <3>3. w[j] = From(j)
      <4>1. N - j \in 0..N /\ N - (N - j) = j /\ N - j < n
        BY <1>3a, <2>3, <3>2
      <4>2. N - j \notin Bad
        <5>1. N - j \in Nat /\ n \in Nat /\ ~ (n <= N - j)
          BY <1>3a, <2>3, <4>1
        <5>2. QED
          BY <2>2, <5>1
      <4>3. N - j = 0 \/ j \in Starts
        BY <1>3a, <3>2
      <4>4. Right(w, N - (N - j))
        BY <4>1, <4>2, <4>3
      <4>5. QED
        BY <4>1, <4>4 DEF Right
    <3>4. w[i] = {<<i, entry[dir][i]>>} \cup From(j)
      <4>1. ~ (i >= N)
        BY <1>3a, <3>2
      <4>2. QED
        BY <1>2, <3>2, <3>3, <4>1
    <3>5. {e \in Starts : e >= i} = {i} \cup {e \in Starts : e >= j}
      <4>1. \A e \in Starts : e \in Nat
        BY <1>4
      <4>2. \A e \in Starts : e >= i <=> e = i \/ e >= j
        <5> SUFFICES ASSUME NEW e \in Starts PROVE e >= i <=> e = i \/ e >= j
          OBVIOUS
        <5>1. e \in Nat /\ (e > i => e >= j)
          BY <3>2, <4>1
        <5>2. QED
          BY <3>2, <5>1
      <4>3. QED
        BY <3>1, <4>2
    <3>6. From(i) = {<<i, entry[dir][i]>>} \cup From(j)
      BY <3>5, Zenon DEF From
    <3>7. QED
      BY <2>4, <3>4, <3>6
  <2>7. QED
    BY <2>5, <2>6
<1>6. 0 \in Starts
  <2>1. 0 \in Cells
    BY <1>1, <1>3
  <2>2. PICK p \in Nat : p = Gap(0) /\ p >= 1
    BY <1>1, <2>1
  <2>3. 0 % p = 0
    BY <2>2
  <2>4. QED
    BY <2>1, <2>2, <2>3 DEF Starts
<1>7. w[0] = From(0)
  <2>1. N \in 0..N /\ N - N = 0
    BY <1>3a
  <2>2. Right(w, N - N)
    BY <1>5, <1>6, <2>1
  <2>3. QED
    BY <2>1, <2>2 DEF Right
<1>8. {e \in Starts : e >= 0} = Starts
  <2>1. \A e \in Starts : e \in Nat
    BY <1>4
  <2>2. QED
    BY <2>1
<1>9. QED
  BY <1>2, <1>7, <1>8 DEF From

\* The walk counts every segment of the directory once.
LEMMA CapacityCounts ==
  ASSUME IInv, CInv, \A t \in Threads : pc[t] \notin Splitting
  PROVE  Capacity = kNumSlot * Cardinality({entry[dir][i] : i \in 0..(Pow2[depth[dir]]-1)})
<1> DEFINE T == {entry[dir][i] : i \in 0..(Pow2[depth[dir]]-1)}
           f == [x \in Walk |-> x[2]]
<1>1. Walk = {<<c, entry[dir][c]>> : c \in Starts}
  BY WalkMeets
<1>2. Cells = 0..(Pow2[depth[dir]] - 1) /\ Pow2[depth[dir]] \in Nat
  BY QuietCells
<1>3. T = {entry[dir][c] : c \in Cells}
  BY <1>2
<1>4. IsFiniteSet(Walk)
  <2>1. IsFiniteSet(Cells)
    BY <1>2, FS_Interval
  <2>2. IsFiniteSet(Starts)
    BY <2>1, FS_Subset DEF Starts
  <2> DEFINE g == [c \in Starts |-> <<c, entry[dir][c]>>]
  <2>3. g \in [Starts -> Walk] /\ \A y \in Walk : \E c \in Starts : g[c] = y
    BY <1>1
  <2> HIDE DEF g
  <2>4. QED
    BY <2>2, <2>3, Mapped
<1>5. f \in [Walk -> T]
  <2>1. \A c \in Starts : c \in Cells
    BY DEF Starts
  <2> HIDE DEF T
  <2>1a. \A c \in Starts : entry[dir][c] \in T
    BY <1>3, <2>1
  <2>1b. \A x \in Walk : x[2] \in T
    BY <1>1, <2>1a
  <2>2. QED
    BY <2>1b
<1>6. \A y \in T : \E x \in Walk : f[x] = y
  <2> SUFFICES ASSUME NEW c \in Cells PROVE \E x \in Walk : f[x] = entry[dir][c]
    BY <1>3
  <2>1. PICK e \in Starts : entry[dir][e] = entry[dir][c]
    BY OneStart
  <2>2. <<e, entry[dir][e]>> \in Walk
    BY <1>1
  <2>3. QED
    BY <2>1, <2>2
<1>7. \A x, y \in Walk : f[x] = f[y] => x = y
  <2> SUFFICES ASSUME NEW c \in Starts, NEW e \in Starts, entry[dir][c] = entry[dir][e]
               PROVE  <<c, entry[dir][c]>> = <<e, entry[dir][e]>>
    BY <1>1
  <2>1. QED
    BY OneStart
<1> HIDE DEF T, f
<1>8. IsFiniteSet(T) /\ Cardinality(T) = Cardinality(Walk)
  BY <1>4, <1>5, <1>6, <1>7, Mapped
<1>9. PICK n \in Nat : n = Cardinality(T)
  BY <1>8, FS_CardinalityType
<1>10. Capacity = n * kNumSlot /\ kNumSlot \in Nat
  BY <1>8, <1>9, ConstantAssumption DEF Capacity
<1>11. Capacity = kNumSlot * Cardinality(T)
  BY <1>9, <1>10
<1>12. QED
  BY <1>11 DEF T

\* What the walk meets of the pairs: those whose key is led to their segment.
LEMMA OccupiedIs ==
  ASSUME IInv, CInv, \A t \in Threads : pc[t] \notin Splitting
  PROVE  /\ \A x \in Occupied : \E c \in Starts : \E k \in Keys : \E p \in PairsOf(k) :
              x = <<<<c, entry[dir][c]>>, p>> /\ p.key = k /\ Route(k) = entry[dir][c]
         /\ \A k \in Keys : \A p \in PairsOf(k) : \E x \in Occupied : x[2] = p /\ p.key = k
<1> TypeOK
  BY DEF IInv
<1>1. Walk = {<<c, entry[dir][c]>> : c \in Starts}
  BY WalkMeets
<1>2. ASSUME NEW x
      PROVE  x \in Occupied <=>
               \E c \in Starts : \E p \in slots[entry[dir][c]] :
                  /\ x = <<<<c, entry[dir][c]>>, p>>
                  /\ Prefix(p.key, local_depth[entry[dir][c]]) = c \div Gap(c)
  BY <1>1 DEF Occupied, Gap
<1>3. ASSUME NEW k \in Keys, NEW c \in Cells
      PROVE  LET r == Prefix(k, depth[dir]) IN
             /\ r \in Cells /\ Route(k) = entry[dir][r]
             /\ Prefix(k, local_depth[entry[dir][c]]) = r \div Gap(c)
  <2> DEFINE r == Prefix(k, depth[dir])
             l == local_depth[entry[dir][c]]
  <2>1. r \in Cells /\ Route(k) = entry[dir][r]
    BY RouteType DEF Cells, Route
  <2>2. depth[dir] \in 0..HashBits /\ l \in 0..depth[dir]
    BY CellType, HashBitsNat DEF TypeOK
  <2>3. r \div Pow2[depth[dir] - l] = Prefix(k, l)
    BY <2>2, PrefixOfPrefix
  <2>4. QED
    BY <2>1, <2>3 DEF Gap
<1>4. ASSUME NEW x \in Occupied
      PROVE  \E c \in Starts : \E k \in Keys : \E p \in PairsOf(k) :
               x = <<<<c, entry[dir][c]>>, p>> /\ p.key = k /\ Route(k) = entry[dir][c]
  <2>0. PICK c \in Starts : \E p \in slots[entry[dir][c]] :
          /\ x = <<<<c, entry[dir][c]>>, p>>
          /\ Prefix(p.key, local_depth[entry[dir][c]]) = c \div Gap(c)
    BY <1>2
  <2>1. PICK p \in slots[entry[dir][c]] :
          /\ x = <<<<c, entry[dir][c]>>, p>>
          /\ Prefix(p.key, local_depth[entry[dir][c]]) = c \div Gap(c)
    BY <2>0
  <2>2. c \in Cells /\ entry[dir][c] \in Segs
    BY CellType DEF Starts
  <2>3. PICK k \in Keys : k = p.key
    BY <2>2 DEF TypeOK, Pair
  <2>4. Route(k) = entry[dir][c]
    <3>1. PICK r \in Cells : /\ Route(k) = entry[dir][r]
                             /\ Prefix(k, local_depth[entry[dir][c]]) = r \div Gap(c)
      BY <1>3, <2>2
    <3>2. r \div Gap(c) = c \div Gap(c)
      BY <2>1, <2>3, <3>1, Zenon
    <3>3. entry[dir][r] = entry[dir][c]
      BY <2>2, <3>2, QuietCells
    <3>4. QED
      BY <3>1, <3>3
  <2>5. p \in PairsOf(k)
    BY <2>1, <2>3, <2>4 DEF PairsOf, Matching
  <2>6. QED
    BY <2>1, <2>3, <2>4, <2>5
<1>5. ASSUME NEW k \in Keys, NEW p \in PairsOf(k)
      PROVE  \E x \in Occupied : x[2] = p /\ p.key = k
  <2>1. p \in slots[Route(k)] /\ p.key = k
    BY DEF PairsOf, Matching
  <2>2. PICK r \in Cells : r = Prefix(k, depth[dir]) /\ Route(k) = entry[dir][r]
    BY RouteType DEF Cells, Route
  <2>3. PICK c \in Starts : /\ entry[dir][c] = entry[dir][r]
                            /\ Gap(c) = Gap(r) /\ c \div Gap(r) = r \div Gap(r)
    BY OneStart
  <2>4. Prefix(k, local_depth[entry[dir][c]]) = c \div Gap(c)
    <3>1. c \in Cells
      BY DEF Starts
    <3>2. Prefix(k, local_depth[entry[dir][c]]) = r \div Gap(c)
      BY <1>3, <2>2, <3>1
    <3>3. QED
      BY <2>3, <3>2, Zenon
  <2>5. <<<<c, entry[dir][c]>>, p>> \in Occupied
    BY <1>2, <2>1, <2>2, <2>3, <2>4
  <2>6. QED
    BY <2>1, <2>5
<1>6. QED
  BY <1>4, <1>5

\* The walk counts every key that Get would find once.
LEMMA OccupiedCounts ==
  ASSUME IInv, CInv, Single, \A t \in Threads : pc[t] \notin Splitting
  PROVE  Cardinality(Occupied) = Cardinality({k \in Keys : Table[k] # NONE})
<1> DEFINE T == {k \in Keys : Table[k] # NONE}
           f == [x \in Occupied |-> x[2].key]
<1> TypeOK
  BY DEF IInv
<1>1. \A k \in Keys : k \in T <=> PairsOf(k) # {}
  BY TableOf
<1>2. f \in [Occupied -> T]
  <2>1. ASSUME NEW x \in Occupied PROVE x[2].key \in T
    <3>1. PICK c \in Starts, k \in Keys : \E p \in PairsOf(k) :
            x = <<<<c, entry[dir][c]>>, p>> /\ p.key = k
      BY OccupiedIs
    <3>2. PICK p \in PairsOf(k) : x = <<<<c, entry[dir][c]>>, p>> /\ p.key = k
      BY <3>1
    <3>3. x[2] = p /\ k \in T
      BY <1>1, <3>2
    <3>4. QED
      BY <3>2, <3>3
  <2>2. QED
    BY <2>1
<1>3. \A k \in T : \E x \in Occupied : f[x] = k
  <2> SUFFICES ASSUME NEW k \in T PROVE \E x \in Occupied : x[2].key = k
    OBVIOUS
  <2>1. PICK p \in PairsOf(k) : TRUE
    BY <1>1
  <2>2. PICK x \in Occupied : x[2] = p /\ p.key = k
    BY OccupiedIs
  <2>3. QED
    BY <2>2
<1>4. ASSUME NEW x \in Occupied, NEW y \in Occupied, f[x] = f[y] PROVE x = y
  <2>1. PICK c \in Starts, k \in Keys : \E p \in PairsOf(k) :
          x = <<<<c, entry[dir][c]>>, p>> /\ p.key = k /\ Route(k) = entry[dir][c]
    BY OccupiedIs
  <2>2. PICK p \in PairsOf(k) :
          x = <<<<c, entry[dir][c]>>, p>> /\ p.key = k /\ Route(k) = entry[dir][c]
    BY <2>1
  <2>3. PICK e \in Starts, j \in Keys : \E q \in PairsOf(j) :
          y = <<<<e, entry[dir][e]>>, q>> /\ q.key = j /\ Route(j) = entry[dir][e]
    BY OccupiedIs
  <2>4. PICK q \in PairsOf(j) :
          y = <<<<e, entry[dir][e]>>, q>> /\ q.key = j /\ Route(j) = entry[dir][e]
    BY <2>3
  <2>5. x[2] = p /\ y[2] = q
    BY <2>2, <2>4
  <2>6. j = k
    BY <1>4, <2>2, <2>4, <2>5
  <2>7. p = q
    BY <2>6 DEF Single
  <2>8. entry[dir][c] = entry[dir][e]
    BY <2>2, <2>4, <2>6, Zenon
  <2>9. c = e
    BY <2>8, OneStart
  <2>10. QED
    BY <2>2, <2>4, <2>7, <2>9, Zenon
<1>5. IsFiniteSet(T)
  <2> DEFINE P == UNION {slots[g] : g \in Segs}
             Q == {p \in P : p \in PairsOf(p.key) /\ p.key \in Keys}
             h == [p \in Q |-> p.key]
  <2>1. IsFiniteSet(P)
    <3>1. IsFiniteSet(Segs)
      BY ConstantAssumption, FS_Interval DEF Segs
    <3> DEFINE R == {slots[g] : g \in Segs}
               a == [g \in Segs |-> slots[g]]
    <3>2. a \in [Segs -> R] /\ \A y \in R : \E g \in Segs : a[g] = y
      OBVIOUS
    <3>3. \A y \in R : IsFiniteSet(y)
      BY DEF CInv, SlotsFinite
    <3> HIDE DEF R, a
    <3>4. IsFiniteSet(R)
      BY <3>1, <3>2, Mapped
    <3>5. IsFiniteSet(UNION R)
      BY <3>3, <3>4, FS_UNION
    <3>6. QED
      BY <3>5 DEF R
  <2>2. IsFiniteSet(Q)
    BY <2>1, FS_Subset
  <2>3. \A p \in Q : p.key \in T
    BY <1>1
  <2>4. ASSUME NEW k \in T PROVE \E p \in Q : p.key = k
    <3>1. PICK p \in PairsOf(k) : TRUE
      BY <1>1
    <3>2. p \in slots[Route(k)] /\ p.key = k /\ Route(k) \in Segs
      BY RouteType DEF PairsOf, Matching
    <3>3. QED
      BY <3>1, <3>2
  <2> HIDE DEF Q, T
  <2>5. h \in [Q -> T] /\ \A k \in T : \E p \in Q : h[p] = k
    BY <2>3, <2>4
  <2>6. QED
    BY <2>2, <2>5, Mapped
<1> HIDE DEF T, f
<1>6. IsFiniteSet(Occupied)
  <2>1. f \in Injection(Occupied, T)
    BY <1>2, <1>4 DEF Injection, IsInjective
  <2>2. QED
    BY <1>5, <2>1, FS_Injection
<1>7. Cardinality(T) = Cardinality(Occupied)
  BY <1>2, <1>3, <1>4, <1>6, Mapped
<1>8. QED
  BY <1>7 DEF T

\* Between two rounds of threads Capacity() counts every segment once, and
\* Utilization() every key that Get would find, once.
THEOREM WalksCountOnce == Spec /\ []SplitsApart => []WalkCountsOnce
<1>1. IInv /\ MInv /\ CInv => WalkCountsOnce
  <2> SUFFICES ASSUME IInv, MInv, CInv, \A t \in Threads : pc[t] \notin Splitting
               PROVE  /\ Capacity = kNumSlot * Cardinality({entry[dir][i] : i \in 0..(Pow2[depth[dir]]-1)})
                      /\ Cardinality(Occupied) = Cardinality({k \in Keys : Table[k] # NONE})
    BY DEF WalkCountsOnce
  <2>1. Single
    BY DEF MInv, Contents
  <2>2. QED
    BY <2>1, CapacityCounts, OccupiedCounts
<1>2. QED
  BY <1>1, Inductive, InductiveMInv, InductiveCInv, PTL

-----------------------------------------------------------------------------
(* One thread that inserts, beside any number that update, delete and look  *)
(* up, keeps the splits apart.                                              *)

OneInserts(calls) ==
  \A t, u \in Threads : Inserted(calls, t) # {} /\ Inserted(calls, u) # {} => t = u

\* Only an insertion splits.
SplitterInserts ==
  \A t \in Threads : pc[t] \in Splitting => todo[t] # <<>> /\ Calling(t, "Insert")

LEMMA OneInsertsStep ==
  ASSUME IInv, SplitterInserts, OneInserts(todo), NEW t \in Threads, Step(t)
  PROVE  SplitterInserts' /\ OneInserts(todo)'
<1> TypeOK
  BY DEF IInv
<1>1. ASSUME NEW u \in Threads, pc'[u] \in Splitting
      PROVE  todo'[u] = todo[u] /\ Calling(u, "Insert") /\ todo[u] # <<>>
  <2>1. CASE u = t /\ Split(t)
    BY <2>1 DEF Split, Calling, callVars
  <2>2. CASE ~ (u = t /\ Split(t))
    <3>1. pc[u] \in Splitting /\ (u # t \/ ~ FinishSplit(t))
      <4>1. CASE u = t
        BY <1>1, <2>2, <4>1, Course DEF FinishSplit, Goto, TypeOK, Splitting
      <4>2. CASE u # t
        BY <1>1, <4>2, Others
      <4>3. QED
        BY <4>1, <4>2
    <3>2. QED
      BY <3>1, SplitStays DEF SplitterInserts
  <2>3. QED
    BY <2>1, <2>2
<1>2. SplitterInserts'
  BY <1>1 DEF SplitterInserts, Calling, Call
<1>3. OneInserts(todo)'
  <2>1. \A u \in Threads : Inserted(todo', u) # {} => Inserted(todo, u) # {}
    BY InsertedBefore
  <2>2. QED
    BY <2>1 DEF OneInserts, Inserted
<1>4. QED
  BY <1>2, <1>3

LEMMA OneInserterSplitsApart ==
  ASSUME \A w \in Workloads : OneInserts(w)
  PROVE  Spec => []SplitsApart
<1> DEFINE Inv == SplitterInserts /\ OneInserts(todo)
<1>1. Init => Inv
  BY DEF Init, SplitterInserts, Splitting
<1>2. IInv /\ Inv /\ [Next]_vars => Inv'
  <2> SUFFICES ASSUME IInv, Inv, [Next]_vars PROVE Inv'
    OBVIOUS
  <2>1. CASE UNCHANGED vars
    BY <2>1 DEF SplitterInserts, OneInserts, Inserted, Calling, Call, vars, callVars
  <2>2. QED
    BY <2>1, OneInsertsStep DEF Next, Terminated
<1>3. IInv /\ Inv => SplitsApart
  <2> SUFFICES ASSUME IInv, Inv, NEW t \in Threads, NEW u \in Threads, t # u,
                      pc[t] = "store", pc[u] = "store"
               PROVE  FALSE
    BY DEF SplitsApart
  <2>1. ASSUME NEW r \in {t, u} PROVE Inserted(todo, r) # {}
    <3>1. todo[r] \in Seq(Calls) /\ todo[r] # <<>> /\ Head(todo[r]).op = "Insert"
      BY <2>1 DEF IInv, TypeOK, SplitterInserts, Splitting, Calling, Call
    <3>2. 1 \in DOMAIN todo[r] /\ todo[r][1] = Head(todo[r])
      BY <3>1
    <3>3. 1 \in Inserted(todo, r)
      BY <3>1, <3>2 DEF Inserted
    <3>4. QED
      BY <3>3
  <2>2. QED
    BY <2>1 DEF OneInserts
<1>4. QED
  BY <1>1, <1>2, <1>3, Inductive, PTL DEF Spec

\* One inserting thread beside any number of others: the table is a map whose
\* calls are atomic, without a condition on what happens.
THEOREM OneInserterTableIsAMap ==
  ASSUME \A w \in Workloads : OneInserts(w)
  PROVE  Spec => ImplementsMap /\ RoutesOnlyDeepen /\ []ReachableIsUnlockedLater
BY OneInserterSplitsApart, TableIsAMap, RoutesDeepen, LocksAreGivenBack, PTL

\* The same of every behaviour in which one thread inserts.
THEOREM OneInserterWalksCountOnce ==
  ASSUME \A w \in Workloads : OneInserts(w)
  PROVE  Spec => []WalkCountsOnce
BY OneInserterSplitsApart, WalksCountOnce, PTL
=============================================================================
