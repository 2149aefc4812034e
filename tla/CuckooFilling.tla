---------------------------- MODULE CuckooFilling ----------------------------
(***************************************************************************)
(* The table of a cuckoo hash while one thread works on it alone: resize()  *)
(* fills it pair by pair with insert4resize; pairs may also be deleted, as  *)
(* they are between two resizes.                                            *)
(***************************************************************************)
EXTENDS CuckooPath, FiniteSets

CONSTANT size      \* capacity, of the table that is filled
ASSUME FillingAssumption == size \in Nat \ {0}

VARIABLE filled    \* the table (the names capacity and table are those of CuckooHash)

FillInit == filled = Empty(size)

Fill(p) == /\ p.key \notin KeysOf(filled)
           /\ insert4resize(filled, size, p) # <<>>
           /\ filled' = insert4resize(filled, size, p)[1]

Remove(x) == /\ filled[x] # INVALID
             /\ filled' = [filled EXCEPT ![x] = INVALID]

FillNext == (\E p \in Pair : Fill(p)) \/ (\E x \in 0..(size-1) : Remove(x))

FillSpec == FillInit /\ [][FillNext]_filled

-----------------------------------------------------------------------------
\* find_path returns a path by which its target can be freed, or nothing.
FoundPathIsPath ==
  \A x \in 0..(size-1) : LET path == find_path(filled, size, x) IN
     path # <<>> => path[1] = x /\ IsPath(filled, size, path)

\* A pair is where a lookup looks, and its key in no other slot.
EachInItsPlace == filled \in Tables(size) /\ InPlace(filled, size) /\ Once(filled)

\* An arrangement of the keys K: a slot of its own for each.
Fits(K) == \E at \in [K -> 0..(size-1)] :
             /\ \A k \in K : at[k] \in Places(k, size)
             /\ \A k, l \in K : at[k] = at[l] => k = l

\* The walk from target was cut off: it met kCuckooThreshold slots, all taken, none twice.
CutOff(target) ==
  LET at == Walk(filled, size, target)
  IN  /\ Ends(filled, at) = {}
      /\ \A m, n \in 0..(kCuckooThreshold-1) : at[m] = at[n] => m = n

\* resize() gives up a table only if no arrangement of the keys would have had room for
\* one more, or if a path from one of the two places of that key goes on for longer than
\* kCuckooThreshold slots: otherwise one path from either place misses nothing, although
\* keys have been placed, moved and deleted in any order (resize, lines 664-681;
\* find_path, lines 374-405).
GivesUpWhenFullOrCutOff ==
  \A p \in Pair : p.key \notin KeysOf(filled) /\ insert4resize(filled, size, p) = <<>>
                    => \/ ~ Fits(KeysOf(filled) \cup {p.key})
                       \/ \E target \in Places(p.key, size) : CutOff(target)

\* An insertion adds its pair, whatever it moves; nothing else is lost, added or changed.
AddsOrRemovesOne ==
  [][\/ \E p \in Pair : PairsOf(filled') = PairsOf(filled) \cup {p}
     \/ \E p \in Pair : PairsOf(filled') = PairsOf(filled) \ {p}]_filled
============================================================================
