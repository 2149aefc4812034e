---------------------------- MODULE MCCuckooHash ----------------------------
(* Small instances of CuckooHash for TLC.  A key is written as its two      *)
(* hash values: in a table of 5 slots 12 may be in slot 1 or 2, 16 only in 1.*)
EXTENDS CuckooHash, TLC

CONSTANTS a, b, c,   \* the threads
          v, w       \* two values

MCFirst == [k \in Keys \cup {INVALID} |-> IF k = INVALID THEN 0 ELSE (k \div 10) % 10]
MCSecond == [k \in Keys \cup {INVALID} |-> IF k = INVALID THEN 0 ELSE k % 10]

\* capacity * kResizingFactor, rounded down: a table of fewer than 5 slots stays
\* as it is
MCGrown == [cap \in 1..MaxCapacity |-> (cap * 6) \div 5]

Ins(k) == [op |-> "Insert", key |-> k, value |-> v]
Upd(k) == [op |-> "Update", key |-> k, value |-> w]
Del(k) == [op |-> "Delete", key |-> k]
Seek(k) == [op |-> "Get", key |-> k]

\* Keys 24 and 20 each need a path; both may start from slot 2, and go by slot 3 to 5.
Displacing ==
  {a :> <<Ins(35), Ins(32), Ins(24)>> @@ b :> <<Ins(1), Ins(17), Ins(20)>> @@ c :> <<Ins(44)>>}

\* While a moves key 1 and then perhaps key 12, others look for them.
Disturbed ==
  {a :> <<Ins(1), Ins(0)>> @@ b :> <<Ins(12), Ins(11)>> @@ c :> calls :
     calls \in {<<Upd(1), Del(12)>>, <<Seek(1), Upd(12)>>}}

\* One thread.  Key 5 finds no path in 5 slots, and keys 0 and 6 are both in slot 0
\* of 6 slots, so that a table of 7 follows; there key 59 needs a bigger table again.
Growing ==
  {a :> <<Ins(0), Ins(6), first, Ins(5), middle, Ins(22), Ins(59), last, Seek(5), Seek(6), Seek(22)>>
     @@ b :> <<>> @@ c :> <<>> :
     first \in {Upd(6), Del(0)}, middle \in {Seek(0), Del(0)}, last \in {Upd(6), Del(5), Upd(9), Del(9)}}

\* Two threads need a path or a bigger table at the same time.
Crossing == {a :> <<Ins(1), Ins(0)>> @@ b :> <<Ins(34), Ins(33)>> @@ c :> <<Upd(1), Del(34)>>,
             a :> <<Ins(0), Ins(5)>> @@ b :> <<Ins(14), Upd(14)>> @@ c :> <<Del(5)>>}

DisplacingDisturbed == Displacing \cup Disturbed
GrowingCrossing == Growing \cup Crossing
============================================================================
