--------------------------- MODULE MCLinearProbing ---------------------------
(* Small instances of LinearProbing for TLC.                                *)
EXTENDS LinearProbing, TLC

CONSTANTS a, b, c,   \* the threads
          v, w       \* two values

MCHash == [k \in Keys |-> k]

Ins(k) == [op |-> "Insert", key |-> k, value |-> v]
Upd(k) == [op |-> "Update", key |-> k, value |-> w]
Del(k) == [op |-> "Delete", key |-> k]
Look(k) == [op |-> "Get", key |-> k]

\* Keys 3 and 7 have the last slot, whose successor is the first, that of key 0.
Probes ==
  {a :> <<Ins(3), Ins(0)>> @@ b :> <<Ins(7), Del(3)>> @@ c :> calls :
     calls \in {<<Upd(3), Look(7)>>, <<Look(0), Del(7)>>}}

\* One thread, whose insertions double the array twice, with more calls before
\* and after it; keys 0, 8 and 16 meet in every array of up to 8 slots.
GrowingInserts == <<Ins(0), Ins(8), Ins(16), Ins(5), Ins(1), Ins(4), Ins(2), Ins(9), Ins(3)>>
Growing ==
  {a :> Append(SubSeq(GrowingInserts, 1, n), call) \o SubSeq(GrowingInserts, n + 1, 9)
          \o <<Look(8), Look(5), last>> @@ b :> <<>> @@ c :> <<>> :
     n \in {0, 4, 5, 8, 9}, call \in {Upd(8), Del(8), Look(1)},
     last \in {Upd(0), Upd(7), Del(1), Del(7)}}

ProbesGrowing == Probes \cup Growing

\* Two threads that both may find the array full; c looks for what they insert.
Racing ==
  {a :> <<Ins(0), Ins(1)>> @@ b :> <<Ins(2)>> @@ c :> <<call>> :
     call \in {Ins(5), Look(0), Upd(1), Del(1)}}

\* Insertions only, as in the first phase of test/hashtable_test.cpp.
Loading == {a :> <<Ins(0)>> @@ b :> <<Ins(2), Ins(3), Ins(4)>>}
============================================================================
