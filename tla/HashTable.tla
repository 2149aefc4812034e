----------------------------- MODULE HashTable -----------------------------
(***************************************************************************)
(* What every index of the repository promises its callers, through the    *)
(* interface Hash<Key_t> of index/interface.h: a map from keys to values   *)
(* whose operations are atomic.                                            *)
(*                                                                         *)
(* The index modules implement this one: each of their steps is one of the *)
(* four calls below, taken at the step where the call takes effect, or     *)
(* leaves the map and every returned value as they are.                    *)
(***************************************************************************)
EXTENDS Workload

VARIABLES todo,    \* the calls a thread has still to make
          table,   \* the map: the value of each key, NONE when absent
          ret      \* what a thread's latest call returned
vars == <<todo, table, ret>>

Init == /\ todo \in Workloads
        /\ table = [k \in Keys |-> NONE]
        /\ ret = [t \in Threads |-> NONE]

Return(t, r) == /\ ret' = [ret EXCEPT ![t] = r]
                /\ todo' = [todo EXCEPT ![t] = Tail(@)]

Calling(t, name) == todo[t] # <<>> /\ Head(todo[t]).op = name

Found(t) == table[Head(todo[t]).key] # NONE

Insert(t) == /\ Calling(t, "Insert")
             /\ table' = [table EXCEPT ![Head(todo[t]).key] = Head(todo[t]).value]
             /\ Return(t, NONE)

Update(t) == /\ Calling(t, "Update")
             /\ table' = IF Found(t)
                         THEN [table EXCEPT ![Head(todo[t]).key] = Head(todo[t]).value]
                         ELSE table
             /\ Return(t, Found(t))

Delete(t) == /\ Calling(t, "Delete")
             /\ table' = [table EXCEPT ![Head(todo[t]).key] = NONE]
             /\ Return(t, Found(t))

Get(t) == /\ Calling(t, "Get")
          /\ Return(t, table[Head(todo[t]).key])
          /\ UNCHANGED table

Next == \E t \in Threads : Insert(t) \/ Update(t) \/ Delete(t) \/ Get(t)

Spec == Init /\ [][Next]_vars
============================================================================
