------------------------ MODULE CuckooFilling_proofs ------------------------
(***************************************************************************)
(* That find_path finds paths, that moving keys along them loses none, and  *)
(* that a table filled with insert4resize loses no pair and hides none.     *)
(*                                                                         *)
(* A walk goes from slot to slot by what is in them, so that one that comes *)
(* back to a slot goes round for ever: up to the first free slot no slot    *)
(* can come twice (PathLemma).  Along a path without repetitions every slot *)
(* gets what the one before it had (ExecuteLemma), hence an insertion keeps *)
(* every pair in a place of its key, each key once (InsertLemma).           *)
(*                                                                         *)
(* A walk that finds no free slot and is not cut off comes back to a slot:  *)
(* it has met a set of slots that it cannot leave (NoPathLemma); the keys   *)
(* in them have nowhere else to go, so that one key more has no room        *)
(* (FullLemma).                                                             *)
(***************************************************************************)
EXTENDS CuckooFilling, FiniteSetTheorems, FunctionTheorems, WellFoundedInduction,
        SequenceTheorems, TLAPS

-----------------------------------------------------------------------------
(* Division.                                                               *)

\* What division and remainder are.
LEMMA Euclid ==
  ASSUME NEW x \in Nat, NEW p \in Nat, p >= 1
  PROVE  x \div p \in Nat /\ x % p \in 0..(p-1) /\ x = (p * (x \div p)) + (x % p)
<1>1. x \div p \in Nat
  <2>1. x \div p \in Int /\ x \div p >= 0
    OBVIOUS
  <2>2. QED
    BY <2>1
<1>2. x % p \in 0..(p-1)
  OBVIOUS
<1>3. x = (p * (x \div p)) + (x % p)
  OBVIOUS
<1>4. QED
  BY <1>1, <1>2, <1>3

\* Division keeps the order.
LEMMA DivMonotonic ==
  ASSUME NEW x \in Nat, NEW y \in Nat, NEW p \in Nat, p >= 1, x <= y
  PROVE  x \div p <= y \div p /\ y \div p <= y
<1>1. PICK a \in Nat, r \in 0..(p-1) : a = x \div p /\ x = (p * a) + r
  BY Euclid
<1>2. PICK b \in Nat, q \in 0..(p-1) : b = y \div p /\ y = (p * b) + q
  BY Euclid
<1>3. \A m, n \in Nat : m >= n + 1 => p * m >= (p * n) + p
  OBVIOUS
<1>4. p * a \in Nat /\ p * b \in Nat /\ p * b >= b
  OBVIOUS
<1>5. ~ (a >= b + 1)
  BY <1>1, <1>2, <1>3, <1>4
<1>6. QED
  BY <1>1, <1>2, <1>4, <1>5


Slots(cap) == 0..(cap-1)

\* A key has its two places in any table.
LEMMA PlacesType ==
  ASSUME NEW k \in Keys \cup {INVALID}, NEW cap \in Nat, cap >= 1
  PROVE  f_idx(k, cap) \in Slots(cap) /\ s_idx(k, cap) \in Slots(cap)
<1>1. FHash[k] \in Nat /\ SHash[k] \in Nat
  BY PathAssumption
<1>2. QED
  BY <1>1, Euclid DEF f_idx, s_idx, Slots

LEMMA FollowType ==
  ASSUME NEW cap \in Nat, cap >= 1, NEW d \in Tables(cap), NEW x \in Slots(cap)
  PROVE  /\ Follow(d, x, cap) \in Slots(cap)
         /\ d[x] # INVALID => Follow(d, x, cap) \in Places(d[x].key, cap)
<1>1. d[x] # INVALID => d[x].key \in Keys
  BY DEF Tables, Slots, Pair
<1>2. QED
  BY <1>1, PlacesType DEF Follow, Other, Places

\* A set of natural numbers that is not empty has a least one.
LEMMA LeastNumber ==
  ASSUME NEW S \in SUBSET Nat, S # {}
  PROVE  \E n \in S : \A m \in S : n <= m
<1>1. \E n \in S : \A m \in S : ~ (<<m, n>> \in OpToRel(<, Nat))
  BY WFMin, NatLessThanWellFounded
<1>2. \A m, n \in S : ~ (<<m, n>> \in OpToRel(<, Nat)) => n <= m
  BY DEF OpToRel
<1>3. QED
  BY <1>1, <1>2

\* What holds of 0, and of a number whenever it holds of the one before, holds of all.
LEMMA Induction ==
  ASSUME NEW S \in SUBSET Nat, 0 \in S, \A n \in S : n + 1 \in S
  PROVE  S = Nat
<1>1. SUFFICES ASSUME Nat \ S # {} PROVE FALSE
  OBVIOUS
<1>2. PICK n \in Nat \ S : \A m \in Nat \ S : n <= m
  BY <1>1, LeastNumber
<1>3. n - 1 \in S
  BY <1>2
<1>4. QED
  BY <1>2, <1>3

\* The recursive definition of a walk is one.
LEMMA WalkLemma ==
  ASSUME NEW cap \in Nat, cap >= 1, NEW d \in Tables(cap), NEW target \in Slots(cap)
  PROVE  LET at == Walk(d, cap, target) IN
         /\ at \in [0..kCuckooThreshold -> Slots(cap)]
         /\ at[0] = target
         /\ \A n \in 1..kCuckooThreshold : at[n] = Follow(d, at[n-1], cap)
<1> DEFINE K == kCuckooThreshold
           F(f, n) == IF n = 0 THEN target ELSE Follow(d, f[n-1], cap)
           IsWalk(f, n) == f = [m \in 0..n |-> F(f, m)]
           S == {n \in Nat : n <= K /\ ~ \E f : IsWalk(f, n)}
<1>1. K \in Nat
  BY PathAssumption
<1> HIDE DEF F, IsWalk
<1>2. S = {}
  <2>1. SUFFICES ASSUME S # {} PROVE FALSE
    OBVIOUS
  <2>2. PICK n \in S : \A m \in S : n <= m
    BY <2>1, LeastNumber
  <2>3. CASE n = 0
    <3> DEFINE g == [m \in 0..0 |-> target]
    <3>1. g = [m \in 0..0 |-> F(g, m)]
      BY DEF F
    <3>2. IsWalk(g, 0)
      BY <3>1 DEF IsWalk
    <3> QED
      BY <2>2, <2>3, <3>2
  <2>4. CASE n # 0
    <3>1. n - 1 \in Nat /\ n - 1 <= K /\ n - 1 \notin S
      BY <1>1, <2>2, <2>4
    <3>2. PICK f : IsWalk(f, n - 1)
      BY <3>1
    <3> DEFINE g == [m \in 0..n |-> IF m = n THEN Follow(d, f[n-1], cap) ELSE f[m]]
    <3>3. ASSUME NEW m \in 0..n PROVE g[m] = F(g, m)
      <4>1. CASE m = n
        <5>1. n - 1 \in 0..n /\ n - 1 # n
          BY <2>4, <3>1
        <5>2. g[n-1] = f[n-1] /\ g[m] = Follow(d, f[n-1], cap)
          BY <4>1, <5>1
        <5>3. F(g, m) = Follow(d, g[n-1], cap)
          BY <2>4, <4>1 DEF F
        <5> QED
          BY <5>2, <5>3
      <4>2. CASE m = 0
        BY <2>4, <3>1, <3>2, <4>2 DEF F, IsWalk
      <4>3. CASE m # n /\ m # 0
        <5>1. m \in 0..(n-1) /\ m - 1 \in 0..n /\ m - 1 # n
          BY <3>1, <4>3
        <5>2. f[m] = Follow(d, f[m-1], cap)
          BY <3>2, <4>3, <5>1 DEF F, IsWalk
        <5>3. g[m] = f[m] /\ g[m-1] = f[m-1]
          BY <4>3, <5>1
        <5> QED
          BY <4>3, <5>2, <5>3 DEF F
      <4> QED
        BY <4>1, <4>2, <4>3
    <3>4. g = [m \in 0..n |-> F(g, m)]
      <4> DEFINE h == [m \in 0..n |-> F(g, m)]
      <4>1. \A m \in 0..n : g[m] = h[m]
        BY <3>3
      <4> QED
        BY <4>1
    <3>5. IsWalk(g, n)
      BY <3>4 DEF IsWalk
    <3> QED
      BY <2>2, <3>5
  <2> QED
    BY <2>3, <2>4
<1>3. PICK f : IsWalk(f, K)
  <2>1. K \notin S
    BY <1>2
  <2> QED
    BY <1>1, <2>1
<1> DEFINE at == Walk(d, cap, target)
<1>4. IsWalk(at, K)
  BY <1>3 DEF Walk, IsWalk, F
<1>5. at = [n \in 0..K |-> F(at, n)]
  BY <1>4 DEF IsWalk
<1> HIDE DEF at
<1>6. at[0] = target /\ \A n \in 1..K : at[n] = Follow(d, at[n-1], cap)
  BY <1>1, <1>5 DEF F
<1> DEFINE T == {n \in Nat : n <= K /\ at[n] \notin Slots(cap)}
<1>7. T = {}
  <2>1. SUFFICES ASSUME T # {} PROVE FALSE
    OBVIOUS
  <2>2. PICK n \in T : \A m \in T : n <= m
    BY <2>1, LeastNumber
  <2>3. n \in 1..K /\ n - 1 \in Nat
    BY <1>1, <1>6, <2>2
  <2>4. at[n-1] \in Slots(cap)
    BY <1>1, <2>2, <2>3
  <2>5. at[n] \in Slots(cap)
    BY <1>6, <2>3, <2>4, FollowType
  <2> QED
    BY <2>2, <2>5
<1>8. at \in [0..K -> Slots(cap)]
  <2>1. \A n \in 0..K : at[n] \in Slots(cap)
    BY <1>1, <1>7
  <2> QED
    BY <1>5, <2>1
<1> QED
  BY <1>6, <1>8 DEF at

\* A walk that comes to a slot again goes on as it did the first time.
LEMMA Periodic ==
  ASSUME NEW cap \in Nat, cap >= 1, NEW d \in Tables(cap), NEW target \in Slots(cap),
         NEW a \in Nat, NEW b \in Nat, b <= kCuckooThreshold, a < b,
         Walk(d, cap, target)[a] = Walk(d, cap, target)[b]
  PROVE  LET at == Walk(d, cap, target) IN
         \A m \in Nat : b + m <= kCuckooThreshold => at[a+m] = at[b+m]
<1> DEFINE K == kCuckooThreshold
           at == Walk(d, cap, target)
           S == {m \in Nat : b + m <= K => at[a+m] = at[b+m]}
<1>1. K \in Nat /\ \A n \in 1..K : at[n] = Follow(d, at[n-1], cap)
  BY PathAssumption, WalkLemma
<1>2. 0 \in S
  OBVIOUS
<1> HIDE DEF at
<1>3. ASSUME NEW m \in S PROVE m + 1 \in S
  <2>1. SUFFICES ASSUME b + m + 1 <= K PROVE at[a+(m+1)] = at[b+(m+1)]
    OBVIOUS
  <2>2. at[a+m] = at[b+m]
    BY <1>1, <2>1
  <2>3. a + (m+1) \in 1..K /\ b + (m+1) \in 1..K
    BY <1>1, <2>1
  <2>4. (a + (m+1)) - 1 = a + m /\ (b + (m+1)) - 1 = b + m
    OBVIOUS
  <2> QED
    BY <1>1, <2>2, <2>3, <2>4
<1>4. S = Nat
  <2> HIDE DEF S
  <2>1. S \in SUBSET Nat
    BY DEF S
  <2> QED
    BY <1>2, <1>3, <2>1, Induction
<1>5. \A m \in Nat : b + m <= K => at[a+m] = at[b+m]
  BY <1>4
<1> QED
  BY <1>5 DEF at

-----------------------------------------------------------------------------
\* What find_path returns is nothing, or a path from its target.  A walk that comes to a
\* slot again goes on as it did the first time: no free slot would have been its first.
LEMMA PathLemma ==
  ASSUME NEW cap \in Nat, cap >= 1, NEW d \in Tables(cap), NEW target \in Slots(cap),
         find_path(d, cap, target) # <<>>
  PROVE  LET path == find_path(d, cap, target) IN
         /\ path \in Seq(Slots(cap)) /\ Len(path) <= kCuckooThreshold
         /\ path[1] = target /\ IsPath(d, cap, path)
<1> DEFINE K == kCuckooThreshold
           at == Walk(d, cap, target)
           ends == Ends(d, at)
           last == CHOOSE n \in ends : \A m \in ends : n <= m
           path == [j \in 1..(last+1) |-> at[j-1]]
<1>1. K \in Nat
  BY PathAssumption
<1>2. at \in [0..K -> Slots(cap)] /\ at[0] = target
      /\ \A n \in 1..K : at[n] = Follow(d, at[n-1], cap)
  BY WalkLemma
<1>3. ends # {} /\ find_path(d, cap, target) = path
  BY DEF find_path
<1> HIDE DEF at
<1>4. ends \in SUBSET Nat /\ \A n \in ends : n < K /\ d[at[n]] = INVALID
  BY <1>1 DEF Ends
<1>5. last \in ends /\ \A m \in ends : last <= m
  BY <1>3, <1>4, LeastNumber
<1> HIDE DEF last
<1>6. last \in Nat /\ last < K /\ d[at[last]] = INVALID
  BY <1>4, <1>5
<1>7. \A m \in 0..(last-1) : d[at[m]] # INVALID
  <2>1. TAKE m \in 0..(last-1)
  <2>2. m \notin ends /\ m \in 0..(K-1)
    BY <1>1, <1>5, <1>6
  <2> QED
    BY <2>2 DEF Ends
<1>8. ASSUME NEW a \in 0..last, NEW b \in 0..last, a < b, at[a] = at[b] PROVE FALSE
  <2>4. \A m \in Nat : b + m <= K => at[a+m] = at[b+m]
    <3>1. a \in Nat /\ b \in Nat /\ b <= K
      BY <1>1, <1>6
    <3> QED
      BY <1>8, <3>1, Periodic DEF at
  <2>5. at[a+(last-b)] = at[last]
    <3>1. last - b \in Nat /\ b + (last - b) = last
      BY <1>6
    <3> QED
      BY <1>1, <1>6, <2>4, <3>1
  <2>6. a + (last - b) \in 0..(last-1)
    BY <1>6, <1>8
  <2> QED
    BY <1>6, <1>7, <2>5, <2>6
<1>9. path \in [1..(last+1) -> Slots(cap)] /\ last + 1 \in Nat
  BY <1>1, <1>2, <1>6
<1>10. path \in Seq(Slots(cap)) /\ Len(path) = last + 1 /\ DOMAIN path = 1..(last+1)
  <2> HIDE DEF path
  <2>1. path \in Seq(Slots(cap))
    BY <1>9, SeqDef
  <2> QED
    BY <1>9, <2>1, LenProperties
<1>11. \A j, l \in 1..(last+1) : path[j] = path[l] => j = l
  <2>1. SUFFICES ASSUME NEW j \in 1..(last+1), NEW l \in 1..(last+1), at[j-1] = at[l-1], j # l
                 PROVE  FALSE
    BY Zenon
  <2>2. j - 1 \in 0..last /\ l - 1 \in 0..last /\ (j - 1 < l - 1 \/ l - 1 < j - 1)
    BY <1>6, <2>1
  <2> QED
    BY <1>8, <2>1, <2>2
<1>12. \A j \in 1..last : path[j+1] = Follow(d, path[j], cap)
  <2>1. TAKE j \in 1..last
  <2>2. path[j] = at[j-1] /\ path[j+1] = at[j]
    BY <1>6
  <2>3. j \in 1..K
    BY <1>1, <1>6
  <2> QED
    BY <1>2, <2>2, <2>3
<1>13. path[1] = target /\ path[last+1] = at[last]
  BY <1>2, <1>6
<1>14. path # <<>>
  BY <1>6, <1>10
<1>15. IsPath(d, cap, path)
  <2> HIDE DEF path
  <2>1. \A j \in DOMAIN path : path[j] \in 0..(cap-1)
    BY <1>9, <1>10 DEF Slots
  <2>2. d[path[Len(path)]] = INVALID
    BY <1>6, <1>10, <1>13
  <2>3. Len(path) - 1 = last
    BY <1>6, <1>10
  <2> QED
    BY <1>10, <1>11, <1>12, <1>14, <2>1, <2>2, <2>3 DEF IsPath
<1> HIDE DEF path
<1> QED
  BY <1>1, <1>3, <1>6, <1>10, <1>13, <1>15

-----------------------------------------------------------------------------
\* What the slots have after the keys of a path have moved on.
LEMMA MovedLemma ==
  ASSUME NEW cap \in Nat, cap >= 1, NEW d \in Tables(cap), NEW pair,
         NEW path \in Seq(Slots(cap)), IsPath(d, cap, path)
  PROVE  LET e == execute_path(d, path, pair) IN
         /\ Len(path) \in Nat \ {0} /\ DOMAIN e = Slots(cap)
         /\ e[path[1]] = pair
         /\ \A j \in 2..Len(path) : e[path[j]] = d[path[j-1]]
         /\ \A x \in Slots(cap) : (\A j \in 1..Len(path) : x # path[j]) => e[x] = d[x]
<1> DEFINE e == execute_path(d, path, pair)
<1>1. DOMAIN d = Slots(cap)
  BY DEF Tables, Slots
<1>2. Len(path) \in Nat \ {0} /\ DOMAIN path = 1..Len(path)
      /\ \A j \in 1..Len(path) : path[j] \in Slots(cap)
  BY LenProperties, EmptySeq DEF IsPath
<1>3. \A j, l \in 1..Len(path) : path[j] = path[l] => j = l
  BY <1>2 DEF IsPath
<1>4. DOMAIN e = Slots(cap) /\ e[path[1]] = pair
  BY <1>1, <1>2 DEF execute_path
<1>5. ASSUME NEW j \in 2..Len(path) PROVE e[path[j]] = d[path[j-1]]
  <2>1. path[j] # path[1] /\ path[j] \in Slots(cap)
    BY <1>2, <1>3
  <2>2. (CHOOSE l \in 2..Len(path) : path[l] = path[j]) = j
    BY <1>2, <1>3
  <2> QED
    BY <1>1, <2>1, <2>2 DEF execute_path
<1>6. ASSUME NEW x \in Slots(cap), \A j \in 1..Len(path) : x # path[j] PROVE e[x] = d[x]
  <2>1. x # path[1] /\ ~ \E j \in 2..Len(path) : path[j] = x
    BY <1>2, <1>6
  <2> QED
    BY <1>1, <2>1 DEF execute_path
<1> HIDE DEF e
<1>7. QED
  BY <1>2, <1>4, <1>5, <1>6 DEF e

\* The tables an insertion keeps: of pairs in their places, each key once.
Sound(d, cap) == d \in Tables(cap) /\ InPlace(d, cap) /\ Once(d)

\* Moving the keys of a path adds the pair and loses nothing.
LEMMA ExecuteLemma ==
  ASSUME NEW cap \in Nat, cap >= 1, NEW d, Sound(d, cap),
         NEW pair \in Pair, pair.key \notin KeysOf(d),
         NEW path \in Seq(Slots(cap)), IsPath(d, cap, path),
         path[1] \in Places(pair.key, cap)
  PROVE  LET e == execute_path(d, path, pair) IN
         Sound(e, cap) /\ PairsOf(e) = PairsOf(d) \cup {pair}
<1> DEFINE e == execute_path(d, path, pair)
           L == Len(path)
<1>1. d \in Tables(cap) /\ DOMAIN d = Slots(cap)
  BY DEF Sound, Tables, Slots
<1>2. /\ L \in Nat \ {0} /\ DOMAIN e = Slots(cap) /\ e[path[1]] = pair
      /\ \A j \in 2..L : e[path[j]] = d[path[j-1]]
      /\ \A x \in Slots(cap) : (\A j \in 1..L : x # path[j]) => e[x] = d[x]
  BY <1>1, MovedLemma
<1> HIDE DEF e
<1>3. DOMAIN path = 1..L /\ \A j \in 1..L : path[j] \in Slots(cap)
  BY LenProperties
<1>4. /\ \A j, l \in 1..L : path[j] = path[l] => j = l
      /\ d[path[L]] = INVALID
      /\ \A j \in 1..(L-1) : d[path[j]] # INVALID => path[j+1] = Follow(d, path[j], cap)
  BY <1>3 DEF IsPath
<1>5. INVALID \notin Pair /\ pair # INVALID
  BY PathAssumption DEF Pair
\* where the pair of a slot was before
<1>6. ASSUME NEW x \in Slots(cap), x # path[1]
      PROVE  \E y \in Slots(cap) :
               /\ e[x] = d[y]
               /\ \/ y = x /\ \A j \in 1..L : x # path[j]
                  \/ \E j \in 2..L : x = path[j] /\ y = path[j-1]
  <2>1. CASE \E j \in 2..L : x = path[j]
    <3>1. PICK j \in 2..L : x = path[j]
      BY <2>1
    <3>2. j - 1 \in 1..L
      BY <1>2
    <3> QED
      BY <1>2, <1>3, <3>1, <3>2
  <2>2. CASE ~ \E j \in 2..L : x = path[j]
    <3>1. \A j \in 1..L : x # path[j]
      BY <1>2, <1>6, <2>2
    <3> QED
      BY <1>2, <3>1
  <2> QED
    BY <2>1, <2>2
<1>7. path[1] \in Slots(cap)
  BY <1>2, <1>3
<1>8. ASSUME NEW x \in Slots(cap)
      PROVE  e[x] \in Pair \cup {INVALID} /\ (e[x] # INVALID => x \in Places(e[x].key, cap))
  <2>1. CASE x = path[1]
    BY <1>2, <2>1
  <2>2. CASE x # path[1]
    <3>1. PICK y \in Slots(cap) :
               /\ e[x] = d[y]
               /\ \/ y = x /\ \A j \in 1..L : x # path[j]
                  \/ \E j \in 2..L : x = path[j] /\ y = path[j-1]
      BY <1>6, <2>2
    <3>2. d[y] \in Pair \cup {INVALID} /\ (d[y] # INVALID => y \in Places(d[y].key, cap))
      BY DEF Sound, Tables, InPlace, Slots
    <3>3. CASE y = x
      BY <3>1, <3>2, <3>3
    <3>4. CASE \E j \in 2..L : x = path[j] /\ y = path[j-1]
      <4>1. PICK j \in 2..L : x = path[j] /\ y = path[j-1]
        BY <3>4
      <4>2. j - 1 \in 1..(L-1) /\ (j - 1) + 1 = j
        BY <1>2
      <4>3. d[y] # INVALID => x = Follow(d, y, cap)
        BY <1>4, <4>1, <4>2
      <4> QED
        BY <1>1, <3>1, <3>2, <4>3, FollowType
    <3> QED
      BY <3>1, <3>3, <3>4
  <2> QED
    BY <2>1, <2>2
<1>9. e \in Tables(cap) /\ InPlace(e, cap)
  <2>1. e = [x \in Slots(cap) |-> e[x]]
    BY <1>1 DEF e, execute_path
  <2> QED
    BY <1>2, <1>8, <2>1 DEF Tables, InPlace, Slots
\* a pair moved is one that was there, so that it is not the new one
<1>10. ASSUME NEW y \in Slots(cap), d[y] # INVALID PROVE d[y].key \in KeysOf(d)
  BY <1>1, <1>10 DEF KeysOf
<1>11. Once(e)
  <2>1. SUFFICES ASSUME NEW x \in Slots(cap), NEW y \in Slots(cap), e[x] # INVALID, e[y] # INVALID,
                        x # y, x # path[1]
                 PROVE  e[x].key # e[y].key
    BY <1>2 DEF Once
  <2>2. PICK v \in Slots(cap) :
               /\ e[x] = d[v]
               /\ \/ v = x /\ \A j \in 1..L : x # path[j]
                  \/ \E j \in 2..L : x = path[j] /\ v = path[j-1]
    BY <1>6, <2>1
  <2>3. CASE y = path[1]
    BY <1>2, <1>10, <2>1, <2>2, <2>3
  <2>4. CASE y # path[1]
    <3>1. PICK w \in Slots(cap) :
               /\ e[y] = d[w]
               /\ \/ w = y /\ \A j \in 1..L : y # path[j]
                  \/ \E j \in 2..L : y = path[j] /\ w = path[j-1]
      BY <1>6, <2>4
    <3>2. \A j \in 2..L : j - 1 \in 1..L /\ j \in 1..L
      BY <1>2
    <3>3. v # w
      <4>1. ASSUME NEW j \in 2..L, NEW l \in 2..L, j - 1 = l - 1 PROVE j = l
        BY <4>1
      <4> QED
        BY <1>4, <2>1, <2>2, <3>1, <3>2, <4>1
    <3> QED
      BY <1>1, <2>1, <2>2, <3>1, <3>3 DEF Sound, Once
  <2> QED
    BY <2>3, <2>4
<1>12. PairsOf(e) \subseteq PairsOf(d) \cup {pair}
  <2>1. SUFFICES ASSUME NEW x \in Slots(cap), e[x] # INVALID, x # path[1] PROVE e[x] \in PairsOf(d)
    BY <1>2 DEF PairsOf
  <2>2. PICK y \in Slots(cap) : e[x] = d[y]
    BY <1>6, <2>1
  <2> QED
    BY <1>1, <2>1, <2>2 DEF PairsOf
<1>13. PairsOf(d) \cup {pair} \subseteq PairsOf(e)
  <2>1. pair \in PairsOf(e)
    BY <1>2, <1>5, <1>7 DEF PairsOf
  <2>2. ASSUME NEW x \in Slots(cap), d[x] # INVALID PROVE d[x] \in PairsOf(e)
    <3>1. CASE \E j \in 1..L : x = path[j]
      <4>1. PICK j \in 1..L : x = path[j]
        BY <3>1
      <4>2. j # L
        BY <1>4, <2>2, <4>1
      <4>3. j + 1 \in 2..L /\ (j + 1) - 1 = j /\ j + 1 \in 1..L
        BY <1>2, <4>2
      <4>4. e[path[j+1]] = d[x] /\ path[j+1] \in Slots(cap)
        BY <1>2, <1>3, <4>1, <4>3
      <4> QED
        BY <1>2, <2>2, <4>4 DEF PairsOf
    <3>2. CASE \A j \in 1..L : x # path[j]
      BY <1>2, <2>2, <3>2 DEF PairsOf
    <3> QED
      BY <3>1, <3>2
  <2> QED
    BY <1>1, <2>1, <2>2 DEF PairsOf
<1> QED
  BY <1>9, <1>11, <1>12, <1>13 DEF Sound, e

\* A pair put into a free place of its key is added, and nothing else changes.
LEMMA PlaceLemma ==
  ASSUME NEW cap \in Nat, cap >= 1, NEW d, Sound(d, cap),
         NEW pair \in Pair, pair.key \notin KeysOf(d),
         NEW x \in Places(pair.key, cap), d[x] = INVALID,
         NEW e \in Tables(cap), e[x] = pair, \A y \in Slots(cap) : y # x => e[y] = d[y]
  PROVE  Sound(e, cap) /\ PairsOf(e) = PairsOf(d) \cup {pair}
<1>1. d \in Tables(cap) /\ DOMAIN d = Slots(cap)
  BY DEF Sound, Tables, Slots
<1>2. pair.key \in Keys /\ x \in Slots(cap)
  BY PlacesType DEF Pair, Places
<1>3. e \in Tables(cap) /\ DOMAIN e = Slots(cap) /\ e[x] = pair
      /\ \A y \in Slots(cap) : y # x => e[y] = d[y]
  BY DEF Tables, Slots
<1>4. pair # INVALID
  BY PathAssumption DEF Pair
<1>5. ASSUME NEW y \in Slots(cap), d[y] # INVALID PROVE d[y].key \in KeysOf(d)
  BY <1>1, <1>5 DEF KeysOf
<1>6. InPlace(e, cap)
  BY <1>1, <1>2, <1>3 DEF Sound, InPlace, Slots
<1>7. Once(e)
  BY <1>1, <1>2, <1>3, <1>5 DEF Sound, Once
<1>8. PairsOf(e) = PairsOf(d) \cup {pair}
  BY <1>1, <1>2, <1>3, <1>4 DEF PairsOf
<1> QED
  BY <1>3, <1>6, <1>7, <1>8 DEF Sound

\* An insertion adds its pair or fails: a pair moved stays where a lookup finds it.
LEMMA InsertLemma ==
  ASSUME NEW cap \in Nat, cap >= 1, NEW d, Sound(d, cap),
         NEW pair \in Pair, pair.key \notin KeysOf(d),
         insert4resize(d, cap, pair) # <<>>
  PROVE  LET e == insert4resize(d, cap, pair)[1] IN
         Sound(e, cap) /\ PairsOf(e) = PairsOf(d) \cup {pair}
<1> DEFINE f == f_idx(pair.key, cap)
           s == s_idx(pair.key, cap)
           path1 == find_path(d, cap, f)
           path2 == find_path(d, cap, s)
           Added(e) == Sound(e, cap) /\ PairsOf(e) = PairsOf(d) \cup {pair}
<1>1. /\ d \in Tables(cap) /\ f \in Slots(cap) /\ s \in Slots(cap)
      /\ f \in Places(pair.key, cap) /\ s \in Places(pair.key, cap)
  <2>1. pair.key \in Keys
    BY DEF Pair
  <2> QED
    BY <2>1, PlacesType DEF Sound, Places
<1>2. d[f] = INVALID => Added([d EXCEPT ![f] = pair])
  <2> DEFINE e == [d EXCEPT ![f] = pair]
  <2> HIDE DEF f, e
  <2>1. e \in Tables(cap) /\ e[f] = pair /\ \A y \in Slots(cap) : y # f => e[y] = d[y]
    BY <1>1 DEF e, Tables, Slots
  <2>2. d[f] = INVALID => Added(e)
    BY <1>1, <2>1, PlaceLemma
  <2> QED
    BY <2>2 DEF e
<1>3. d[s] = INVALID => Added([d EXCEPT ![s] = pair])
  <2> DEFINE e == [d EXCEPT ![s] = pair]
  <2> HIDE DEF s, e
  <2>1. e \in Tables(cap) /\ e[s] = pair /\ \A y \in Slots(cap) : y # s => e[y] = d[y]
    BY <1>1 DEF e, Tables, Slots
  <2>2. d[s] = INVALID => Added(e)
    BY <1>1, <2>1, PlaceLemma
  <2> QED
    BY <2>2 DEF e
<1>4. path1 # <<>> => Added(execute_path(d, path1, pair))
  BY <1>1, PathLemma, ExecuteLemma
<1>5. path2 # <<>> => Added(execute_path(d, path2, pair))
  BY <1>1, PathLemma, ExecuteLemma
<1> HIDE DEF f, s, path1, path2, Added
<1>6. insert4resize(d, cap, pair) =
        IF d[f] = INVALID THEN <<[d EXCEPT ![f] = pair]>>
        ELSE IF d[s] = INVALID THEN <<[d EXCEPT ![s] = pair]>>
        ELSE IF path1 = <<>> /\ path2 = <<>> THEN <<>>
        ELSE <<execute_path(d, IF path2 = <<>> \/ (path1 # <<>> /\ Len(path1) < Len(path2))
                               THEN path1 ELSE path2, pair)>>
  BY DEF insert4resize, f, s, path1, path2
<1>7. Added(insert4resize(d, cap, pair)[1])
  <2>1. CASE d[f] = INVALID
    BY <1>2, <1>6, <2>1
  <2>2. CASE d[f] # INVALID /\ d[s] = INVALID
    BY <1>3, <1>6, <2>2
  <2> DEFINE first == path2 = <<>> \/ (path1 # <<>> /\ Len(path1) < Len(path2))
  <2>3. CASE d[f] # INVALID /\ d[s] # INVALID /\ first
    <3>1. insert4resize(d, cap, pair) = <<execute_path(d, path1, pair)>> /\ path1 # <<>>
      BY <1>6, <2>3
    <3> QED
      BY <1>4, <3>1
  <2>4. CASE d[f] # INVALID /\ d[s] # INVALID /\ ~ first
    <3>1. insert4resize(d, cap, pair) = <<execute_path(d, path2, pair)>> /\ path2 # <<>>
      BY <1>6, <2>4
    <3> QED
      BY <1>5, <3>1
  <2> QED
    BY <2>1, <2>2, <2>3, <2>4
<1> QED
  BY <1>7 DEF Added

-----------------------------------------------------------------------------
(* When there is no path.                                                  *)

\* Slots, all taken, whose keys have no place elsewhere.
Stuck(d, cap, V) ==
  V \subseteq Slots(cap) /\ \A x \in V : d[x] # INVALID /\ Follow(d, x, cap) \in V

\* A walk of as many steps as are allowed that comes to a slot again.
ComesRound(d, cap, target) ==
  LET at == Walk(d, cap, target)
  IN  \E a, b \in 0..(kCuckooThreshold-1) : a < b /\ at[a] = at[b]

\* A walk that meets no free slot.
LEMMA NoEnds ==
  ASSUME NEW cap \in Nat, cap >= 1, NEW d \in Tables(cap), NEW target \in Slots(cap),
         find_path(d, cap, target) = <<>>
  PROVE  Ends(d, Walk(d, cap, target)) = {}
<1> DEFINE at == Walk(d, cap, target)
<1>1. SUFFICES ASSUME Ends(d, at) # {} PROVE FALSE
  OBVIOUS
<1> DEFINE ends == Ends(d, at)
           last == CHOOSE n \in ends : \A m \in ends : n <= m
           path == [j \in 1..(last+1) |-> at[j-1]]
<1>2. path = <<>>
  BY <1>1 DEF find_path
<1>3. ends \in SUBSET Nat
  BY DEF Ends
<1>4. last \in ends
  BY <1>1, <1>3, LeastNumber
<1>5. last \in Nat
  BY <1>3, <1>4
<1>6. 1 \in DOMAIN path
  <2> HIDE DEF last
  <2> QED
    BY <1>5
<1> HIDE DEF path
<1> QED
  BY <1>2, <1>6

\* If it comes to a slot again, it has met all the slots that its target leads to.
LEMMA NoPathLemma ==
  ASSUME NEW cap \in Nat, cap >= 1, NEW d \in Tables(cap), NEW target \in Slots(cap),
         ComesRound(d, cap, target), find_path(d, cap, target) = <<>>
  PROVE  \E V : target \in V /\ Stuck(d, cap, V)
<1> DEFINE K == kCuckooThreshold
           at == Walk(d, cap, target)
           V == {at[n] : n \in 0..(K-1)}
<1>1. K \in Nat \ {0}
  BY PathAssumption
<1>2. at \in [0..K -> Slots(cap)] /\ at[0] = target
      /\ \A n \in 1..K : at[n] = Follow(d, at[n-1], cap)
  BY WalkLemma
<1>3. Ends(d, at) = {}
  BY NoEnds
<1> HIDE DEF at
<1>4. \A n \in 0..(K-1) : d[at[n]] # INVALID
  BY <1>3 DEF Ends
<1>5. V \subseteq Slots(cap) /\ target \in V
  BY <1>1, <1>2
<1>6. at[K] \in V
  <2>1. PICK a \in 0..(K-1), b \in 0..(K-1) : a < b /\ at[a] = at[b]
    BY DEF ComesRound, at
  <2>2. a \in Nat /\ b \in Nat /\ b <= K /\ K - b \in Nat /\ b + (K - b) = K
        /\ a + (K - b) \in 0..(K-1)
    BY <1>1, <2>1
  <2>3. \A m \in Nat : b + m <= K => at[a+m] = at[b+m]
    BY <2>1, <2>2, Periodic DEF at
  <2>4. at[a + (K - b)] = at[b + (K - b)]
    BY <1>1, <2>2, <2>3
  <2> QED
    BY <2>2, <2>4
<1>7. ASSUME NEW x \in V PROVE d[x] # INVALID /\ Follow(d, x, cap) \in V
  <2>1. PICK n \in 0..(K-1) : x = at[n]
    OBVIOUS
  <2>2. n + 1 \in 1..K /\ (n + 1) - 1 = n
    BY <1>1
  <2>3. at[n+1] = Follow(d, x, cap)
    BY <1>2, <2>1, <2>2
  <2>4. n + 1 \in 0..(K-1) \/ n + 1 = K
    BY <1>1
  <2> QED
    BY <1>4, <1>6, <2>1, <2>3, <2>4
<1> HIDE DEF V
<1> QED
  BY <1>5, <1>7 DEF Stuck

\* An arrangement of the keys K in a table of cap slots.
Arranged(at, K, cap) ==
  /\ at \in [K -> Slots(cap)] /\ \A k \in K : at[k] \in Places(k, cap)
  /\ \A k, l \in K : at[k] = at[l] => k = l

\* The keys of stuck slots take all of these slots in any arrangement, which leaves none
\* for another key with both places there.
LEMMA FullLemma ==
  ASSUME NEW cap \in Nat, cap >= 1, NEW d, Sound(d, cap), NEW k \in Keys, k \notin KeysOf(d),
         NEW V, Stuck(d, cap, V), Places(k, cap) \subseteq V,
         NEW at, Arranged(at, KeysOf(d) \cup {k}, cap)
  PROVE  FALSE
<1> DEFINE g == [x \in V |-> at[d[x].key]]
<1>1. d \in Tables(cap) /\ DOMAIN d = Slots(cap) /\ InPlace(d, cap) /\ Once(d)
  BY DEF Sound, Tables, Slots
<1>2. \A x \in V : /\ x \in Slots(cap) /\ d[x] # INVALID /\ d[x].key \in KeysOf(d)
                   /\ x \in Places(d[x].key, cap) /\ Other(d[x].key, x, cap) \in V
  BY <1>1 DEF Stuck, KeysOf, InPlace, Slots, Follow
<1>3. ASSUME NEW x \in V PROVE at[d[x].key] \in V
  <2>1. at[d[x].key] \in Places(d[x].key, cap)
    BY <1>2 DEF Arranged
  <2>2. Places(d[x].key, cap) \subseteq {x, Other(d[x].key, x, cap)}
    BY <1>2 DEF Places, Other
  <2> QED
    BY <1>2, <2>1, <2>2
<1>4. \A x, y \in V : at[d[x].key] = at[d[y].key] => x = y
  <2>1. \A x, y \in V : at[d[x].key] = at[d[y].key] => d[x].key = d[y].key
    BY <1>2 DEF Arranged
  <2> QED
    BY <1>1, <1>2, <2>1 DEF Once
<1>5. g \in [V -> V] /\ \A x, y \in V : g[x] = g[y] => x = y
  BY <1>3, <1>4
<1>6. IsFiniteSet(V)
  <2>1. IsFiniteSet(Slots(cap))
    BY FS_Interval DEF Slots
  <2> QED
    BY <2>1, FS_Subset DEF Stuck
<1>7. at[k] \in V
  BY DEF Arranged
<1>8. g \in Surjection(V, V)
  <2> HIDE DEF g
  <2>1. g \in Injection(V, V)
    BY <1>5, Fun_IsInj
  <2> QED
    BY <1>6, <2>1, FS_Injection
<1>9. PICK x \in V : g[x] = at[k]
  <2> HIDE DEF g
  <2> QED
    BY <1>7, <1>8, Fun_SurjectionProperties
<1>10. at[d[x].key] = at[k]
  BY <1>9
<1> QED
  BY <1>2, <1>10 DEF Arranged

\* Whatever is in the table, an insertion leaves a table of the same slots.
LEMMA InsertType ==
  ASSUME NEW cap \in Nat, cap >= 1, NEW d \in Tables(cap), NEW pair \in Pair,
         insert4resize(d, cap, pair) # <<>>
  PROVE  insert4resize(d, cap, pair)[1] \in Tables(cap)
<1> DEFINE f == f_idx(pair.key, cap)
           s == s_idx(pair.key, cap)
           path1 == find_path(d, cap, f)
           path2 == find_path(d, cap, s)
<1>1. f \in Slots(cap) /\ s \in Slots(cap)
  <2>1. pair.key \in Keys
    BY DEF Pair
  <2> QED
    BY <2>1, PlacesType
<1>2. ASSUME NEW target \in Slots(cap), find_path(d, cap, target) # <<>>
      PROVE  execute_path(d, find_path(d, cap, target), pair) \in Tables(cap)
  <2> DEFINE path == find_path(d, cap, target)
             e == execute_path(d, path, pair)
  <2>1. path \in Seq(Slots(cap)) /\ IsPath(d, cap, path)
    BY <1>2, PathLemma
  <2> HIDE DEF path
  <2>2. /\ Len(path) \in Nat \ {0} /\ DOMAIN e = Slots(cap) /\ e[path[1]] = pair
        /\ \A j \in 2..Len(path) : e[path[j]] = d[path[j-1]]
        /\ \A x \in Slots(cap) : (\A j \in 1..Len(path) : x # path[j]) => e[x] = d[x]
    BY <2>1, MovedLemma
  <2>3. \A j \in 1..Len(path) : path[j] \in Slots(cap)
    BY <2>1, LenProperties
  <2>4. DOMAIN d = Slots(cap)
    BY DEF Tables, Slots
  <2>5. e = [x \in Slots(cap) |-> e[x]]
    BY <2>4 DEF execute_path
  <2> HIDE DEF e
  <2>6. ASSUME NEW x \in Slots(cap) PROVE e[x] \in Pair \cup {INVALID}
    <3>1. \A y \in Slots(cap) : d[y] \in Pair \cup {INVALID}
      BY DEF Tables, Slots
    <3>2. CASE \E j \in 1..Len(path) : x = path[j]
      <4>1. PICK j \in 1..Len(path) : x = path[j]
        BY <3>2
      <4>2. CASE j = 1
        BY <2>2, <4>1, <4>2
      <4>3. CASE j # 1
        <5>1. j \in 2..Len(path) /\ j - 1 \in 1..Len(path)
          BY <2>2, <4>3
        <5> QED
          BY <2>2, <2>3, <3>1, <4>1, <5>1
      <4> QED
        BY <4>2, <4>3
    <3>3. CASE \A j \in 1..Len(path) : x # path[j]
      BY <2>2, <3>1, <3>3
    <3> QED
      BY <3>2, <3>3
  <2>7. e \in Tables(cap)
    BY <2>5, <2>6 DEF Tables, Slots
  <2> QED
    BY <2>7 DEF e, path
<1>3. path1 # <<>> => execute_path(d, path1, pair) \in Tables(cap)
  BY <1>1, <1>2
<1>4. path2 # <<>> => execute_path(d, path2, pair) \in Tables(cap)
  BY <1>1, <1>2
<1>5. [d EXCEPT ![f] = pair] \in Tables(cap) /\ [d EXCEPT ![s] = pair] \in Tables(cap)
  BY <1>1 DEF Tables, Slots
<1> HIDE DEF f, s, path1, path2
<1>6. insert4resize(d, cap, pair) =
        IF d[f] = INVALID THEN <<[d EXCEPT ![f] = pair]>>
        ELSE IF d[s] = INVALID THEN <<[d EXCEPT ![s] = pair]>>
        ELSE IF path1 = <<>> /\ path2 = <<>> THEN <<>>
        ELSE <<execute_path(d, IF path2 = <<>> \/ (path1 # <<>> /\ Len(path1) < Len(path2))
                               THEN path1 ELSE path2, pair)>>
  BY DEF insert4resize, f, s, path1, path2
<1>7. CASE d[f] = INVALID
  BY <1>5, <1>6, <1>7
<1>8. CASE d[f] # INVALID /\ d[s] = INVALID
  BY <1>5, <1>6, <1>8
<1> DEFINE first == path2 = <<>> \/ (path1 # <<>> /\ Len(path1) < Len(path2))
<1>9. CASE d[f] # INVALID /\ d[s] # INVALID /\ first
  <2>1. insert4resize(d, cap, pair) = <<execute_path(d, path1, pair)>> /\ path1 # <<>>
    BY <1>6, <1>9
  <2> QED
    BY <1>3, <2>1
<1>10. CASE d[f] # INVALID /\ d[s] # INVALID /\ ~ first
  <2>1. insert4resize(d, cap, pair) = <<execute_path(d, path2, pair)>> /\ path2 # <<>>
    BY <1>6, <1>10
  <2> QED
    BY <1>4, <2>1
<1> QED
  BY <1>7, <1>8, <1>9, <1>10

-----------------------------------------------------------------------------
(* The table that resize() fills.                                          *)

\* The inductive invariant of FillSpec.
TableSound == Sound(filled, size)

LEMMA InitSound == FillInit => TableSound
<1>1. SUFFICES ASSUME FillInit PROVE TableSound
  OBVIOUS
<1>2. filled = [x \in Slots(size) |-> INVALID]
  BY <1>1 DEF FillInit, Empty, Slots
<1> QED
  BY <1>2 DEF TableSound, Sound, Tables, InPlace, Once, Slots

LEMMA FillStep ==
  ASSUME Sound(filled, size), NEW p \in Pair, Fill(p)
  PROVE  Sound(filled', size) /\ PairsOf(filled') = PairsOf(filled) \cup {p}
<1>1. size \in Nat /\ size >= 1
  BY FillingAssumption
<1> QED
  BY <1>1, InsertLemma DEF Fill

LEMMA DeleteStep ==
  ASSUME Sound(filled, size), NEW x \in Slots(size), Remove(x)
  PROVE  /\ Sound(filled', size)
         /\ \E p \in Pair : PairsOf(filled') = PairsOf(filled) \ {p}
<1>1. filled \in Tables(size) /\ DOMAIN filled = Slots(size)
  BY DEF Sound, Tables, Slots
<1>2. /\ filled' \in Tables(size) /\ DOMAIN filled' = Slots(size)
      /\ filled'[x] = INVALID /\ \A y \in Slots(size) : y # x => filled'[y] = filled[y]
  BY <1>1 DEF Remove, Tables, Slots
<1>3. filled[x] \in Pair
  BY <1>1 DEF Remove, Tables, Slots
<1>4. Sound(filled', size)
  BY <1>1, <1>2 DEF Sound, InPlace, Once, Slots
<1>5. \A y \in Slots(size) : y # x /\ filled[y] # INVALID => filled[y] # filled[x]
  BY <1>1, <1>3 DEF Sound, Once, Remove
<1>6. PairsOf(filled') = PairsOf(filled) \ {filled[x]}
  BY <1>1, <1>2, <1>5 DEF PairsOf
<1> QED
  BY <1>3, <1>4, <1>6

LEMMA FillingStep ==
  ASSUME TableSound, [FillNext]_filled
  PROVE  TableSound'
<1>1. CASE \E p \in Pair : Fill(p)
  BY <1>1, FillStep DEF TableSound
<1>2. CASE \E x \in 0..(size-1) : Remove(x)
  BY <1>2, DeleteStep DEF Slots, TableSound
<1>3. CASE UNCHANGED filled
  BY <1>3 DEF TableSound, Sound, InPlace, Once, Tables
<1> QED
  BY <1>1, <1>2, <1>3 DEF FillNext

\* In any table, of any capacity and with any hash functions, that insert4resize fills and
\* deletions thin out, every pair is in a place of its key, and its key in no other slot.
THEOREM FilledInPlace == FillSpec => []EachInItsPlace
<1>1. FillSpec => []TableSound
  BY InitSound, FillingStep, PTL DEF FillSpec
<1>2. TableSound => EachInItsPlace
  BY DEF TableSound, Sound, EachInItsPlace
<1> QED
  BY <1>1, <1>2, PTL

\* Whatever find_path returns is a path that frees its target, whatever the threshold:
\* it goes through no slot twice and ends in a free one.
THEOREM FoundPaths == FillSpec => []FoundPathIsPath
<1>1. TableSound => FoundPathIsPath
  <2>1. size \in Nat /\ size >= 1
    BY FillingAssumption
  <2> QED
    BY <2>1, PathLemma DEF TableSound, Sound, FoundPathIsPath, Slots
<1>2. FillSpec => []TableSound
  BY InitSound, FillingStep, PTL DEF FillSpec
<1> QED
  BY <1>1, <1>2, PTL

\* An insertion adds its pair and a deletion takes one away; no other pair is lost, added
\* or changed, however many keys are moved.
THEOREM FillsOneByOne == FillSpec => AddsOrRemovesOne
<1>1. TableSound /\ [FillNext]_filled
      => [\/ \E p \in Pair : PairsOf(filled') = PairsOf(filled) \cup {p}
          \/ \E p \in Pair : PairsOf(filled') = PairsOf(filled) \ {p}]_filled
  BY FillStep, DeleteStep DEF TableSound, FillNext, Slots
<1>2. FillSpec => []TableSound
  BY InitSound, FillingStep, PTL DEF FillSpec
<1> QED
  BY <1>1, <1>2, PTL DEF FillSpec, AddsOrRemovesOne

\* A table is given up only when it is full for the key, or when a path from a place of the
\* key goes through kCuckooThreshold taken slots, none twice, before it could come to a free
\* one: otherwise following one path from either place misses nothing (cuckoo_hash.h:304-310,
\* 371-408, 664-681).
THEOREM GivenUpWhenFullOrCutOff == FillSpec => []GivesUpWhenFullOrCutOff
<1>1. ASSUME TableSound PROVE GivesUpWhenFullOrCutOff
  <2>1. SUFFICES ASSUME NEW p \in Pair, p.key \notin KeysOf(filled),
                        insert4resize(filled, size, p) = <<>>, Fits(KeysOf(filled) \cup {p.key}),
                        ~ \E target \in Places(p.key, size) : CutOff(target)
                 PROVE  FALSE
    BY DEF GivesUpWhenFullOrCutOff
  <2> DEFINE f == f_idx(p.key, size)
             s == s_idx(p.key, size)
  <2>2. /\ size \in Nat /\ size >= 1 /\ filled \in Tables(size) /\ p.key \in Keys
        /\ kCuckooThreshold \in Nat
    BY <1>1, FillingAssumption, PathAssumption DEF TableSound, Sound, Pair
  <2>3. f \in Slots(size) /\ s \in Slots(size)
    BY <2>2, PlacesType
  <2>4. find_path(filled, size, f) = <<>> /\ find_path(filled, size, s) = <<>>
    BY <2>1 DEF insert4resize
  <2>5. ~ CutOff(f) /\ ~ CutOff(s)
    BY <2>1 DEF Places
  <2> HIDE DEF f, s
  <2>6. ASSUME NEW target \in Slots(size), find_path(filled, size, target) = <<>>, ~ CutOff(target)
        PROVE  ComesRound(filled, size, target)
    <3> DEFINE at == Walk(filled, size, target)
    <3>1. Ends(filled, at) = {}
      BY <2>2, <2>6, NoEnds
    <3>2. PICK m \in 0..(kCuckooThreshold-1), n \in 0..(kCuckooThreshold-1) : at[m] = at[n] /\ m # n
      BY <2>6, <3>1 DEF CutOff
    <3> HIDE DEF at
    <3>3. m < n \/ n < m
      BY <2>2, <3>2
    <3> QED
      BY <3>2, <3>3 DEF ComesRound, at
  <2>7. PICK V : f \in V /\ Stuck(filled, size, V)
    BY <2>2, <2>3, <2>4, <2>5, <2>6, NoPathLemma
  <2>8. PICK W : s \in W /\ Stuck(filled, size, W)
    BY <2>2, <2>3, <2>4, <2>5, <2>6, NoPathLemma
  <2>9. Stuck(filled, size, V \cup W) /\ Places(p.key, size) \subseteq V \cup W
    BY <2>7, <2>8 DEF Stuck, Places, f, s
  <2>10. PICK at : Arranged(at, KeysOf(filled) \cup {p.key}, size)
    BY <2>1 DEF Fits, Arranged, Slots
  <2> QED
    BY <1>1, <2>1, <2>2, <2>9, <2>10, FullLemma DEF TableSound
<1>2. FillSpec => []TableSound
  BY InitSound, FillingStep, PTL DEF FillSpec
<1> QED
  BY <1>1, <1>2, PTL
=============================================================================
