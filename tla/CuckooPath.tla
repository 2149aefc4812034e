----------------------------- MODULE CuckooPath -----------------------------
(***************************************************************************)
(* How the cuckoo table of index/cuckoo_hash.h makes room: a key may be in  *)
(* two slots; when both are taken, a path of slots leads from one of them   *)
(* to a free slot, and every key on it moves on to its other place.         *)
(*                                                                         *)
(* This is find_path, execute_path and insert4resize on a table nobody else *)
(* works on; CuckooHash takes the first two step by step.                   *)
(***************************************************************************)
EXTENDS Pairs

CONSTANTS INVALID,            \* an empty slot, and the key it reads as
          FHash, SHash,       \* hash_funcs[0] and hash_funcs[1]
          kCuckooThreshold    \* slots a path may go through: 512 in the code

ASSUME PathAssumption ==
  /\ INVALID \notin Keys /\ INVALID \notin [key : Keys, value : Values]
  /\ FHash \in [Keys \cup {INVALID} -> Nat] /\ SHash \in [Keys \cup {INVALID} -> Nat]
  /\ kCuckooThreshold \in Nat \ {0}

Pair == [key : Keys, value : Values]
Tables(cap) == [0..(cap-1) -> Pair \cup {INVALID}]

KeyOf(p) == IF p = INVALID THEN INVALID ELSE p.key
Holds(p, k) == p # INVALID /\ p.key = k

f_idx(k, cap) == FHash[k] % cap
s_idx(k, cap) == SHash[k] % cap
Places(k, cap) == {f_idx(k, cap), s_idx(k, cap)}

\* where the key k of slot x goes when it has to leave
Other(k, x, cap) == IF f_idx(k, cap) = x THEN s_idx(k, cap) ELSE f_idx(k, cap)

Empty(cap) == [x \in 0..(cap-1) |-> INVALID]

\* every pair of the table d is where a lookup finds it
InPlace(d, cap) == \A x \in 0..(cap-1) : d[x] # INVALID => x \in Places(d[x].key, cap)

\* the pairs in the table d, and their keys
PairsOf(d) == {d[x] : x \in DOMAIN d} \ {INVALID}
KeysOf(d) == {d[x].key : x \in {y \in DOMAIN d : d[y] # INVALID}}

\* no key is in two slots
Once(d) == \A x, y \in DOMAIN d : d[x] # INVALID /\ d[y] # INVALID /\ x # y => d[x].key # d[y].key

-----------------------------------------------------------------------------
\* the slot a search goes on to from slot x
Follow(d, x, cap) == IF d[x] = INVALID THEN x ELSE Other(d[x].key, x, cap)

\* the slots met on the way from target
Walk(d, cap, target) ==
  LET at[n \in 0..kCuckooThreshold] == IF n = 0 THEN target ELSE Follow(d, at[n-1], cap)
  IN  at

\* the steps of a walk after which it is at a free slot
Ends(d, at) == {n \in 0..(kCuckooThreshold-1) : d[at[n]] = INVALID}

find_path_TooFar(d, cap, target) ==
  LET at == Walk(d, cap, target)
      ends == Ends(d, at)
  IN  IF ends = {} THEN <<>>
      ELSE LET last == CHOOSE n \in ends : \A m \in ends : n >= m
           IN  [j \in 1..(last+1) |-> at[j-1]]

\* the walk up to the first free slot, or nothing if it is too long
find_path(d, cap, target) ==
  LET at == Walk(d, cap, target)
      ends == Ends(d, at)
  IN  IF ends = {} THEN <<>>
      ELSE LET last == CHOOSE n \in ends : \A m \in ends : n <= m
           IN  [j \in 1..(last+1) |-> at[j-1]]

\* a sequence of slots by which the table d can make room at its first; there may be
\* nothing to move in one of them
IsPath(d, cap, path) ==
  /\ path # <<>> /\ \A j \in DOMAIN path : path[j] \in 0..(cap-1)
  /\ \A j, l \in DOMAIN path : path[j] = path[l] => j = l
  /\ d[path[Len(path)]] = INVALID
  /\ \A j \in 1..(Len(path)-1) : d[path[j]] # INVALID => path[j+1] = Follow(d, path[j], cap)

execute_path_Last(d, path, pair) ==
  [x \in DOMAIN d |->
     IF x = path[Len(path)] THEN pair
     ELSE IF \E j \in 2..Len(path) : path[j] = x
          THEN d[path[(CHOOSE j \in 2..Len(path) : path[j] = x) - 1]]
          ELSE d[x]]

\* every slot of the path takes what the one before it had, the first one the pair
execute_path(d, path, pair) ==
  [x \in DOMAIN d |->
     IF x = path[1] THEN pair
     ELSE IF \E j \in 2..Len(path) : path[j] = x
          THEN d[path[(CHOOSE j \in 2..Len(path) : path[j] = x) - 1]]
          ELSE d[x]]

insert4resize_OnePath(d, cap, pair) ==
  LET f == f_idx(pair.key, cap)
      s == s_idx(pair.key, cap)
      path1 == find_path(d, cap, f)
  IN  IF d[f] = INVALID THEN <<[d EXCEPT ![f] = pair]>>
      ELSE IF d[s] = INVALID THEN <<[d EXCEPT ![s] = pair]>>
      ELSE IF path1 = <<>> THEN <<>>
      ELSE <<execute_path(d, path1, pair)>>

\* the table with the pair in it, or nothing when there is no room for it
insert4resize(d, cap, pair) ==
  LET f == f_idx(pair.key, cap)
      s == s_idx(pair.key, cap)
      path1 == find_path(d, cap, f)
      path2 == find_path(d, cap, s)
  IN  IF d[f] = INVALID THEN <<[d EXCEPT ![f] = pair]>>
      ELSE IF d[s] = INVALID THEN <<[d EXCEPT ![s] = pair]>>
      ELSE IF path1 = <<>> /\ path2 = <<>> THEN <<>>
      ELSE <<execute_path(d, IF path2 = <<>> \/ (path1 # <<>> /\ Len(path1) < Len(path2))
                             THEN path1 ELSE path2, pair)>>

=============================================================================
