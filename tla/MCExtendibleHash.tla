-------------------------- MODULE MCExtendibleHash --------------------------
(* Small instances of ExtendibleHash for TLC.  Key 1 + h has the hash h.    *)
EXTENDS ExtendibleHash, TLC

CONSTANTS a, b, c,   \* the threads
          v, w       \* two values

MCHash == [k \in Keys |-> k - 1]
MCPow2 == <<1, 2, 4, 8, 16>>
MCPowers == [n \in 0..HashBits |-> MCPow2[n + 1]]

Ins(k) == [op |-> "Insert", key |-> k, value |-> v]
Upd(k) == [op |-> "Update", key |-> k, value |-> w]
Del(k) == [op |-> "Delete", key |-> k]
Look(k) == [op |-> "Get", key |-> k]

\* Three hash bits: a's calls double the directory twice, b splits the other
\* half meanwhile, so that a finds b at work when it suspends the directory and
\* b may have two cells a side to redirect.  c only works on the keys there.
Cascade ==
  {a :> <<Ins(1), Ins(2)>> @@ b :> <<Ins(5), Ins(7)>> @@ c :> calls :
     calls \in {<<Upd(1), Look(5)>>, <<Look(7), Del(7)>>}}
============================================================================
