----------------------------- MODULE ScannedMap -----------------------------
(***************************************************************************)
(* What an index promises whose calls go through the places a key may be in *)
(* one by one, each under a lock of its own: a map.  A call that changes it *)
(* does so at one moment; a call that finds nothing to change, and a Get,   *)
(* answer with what the map held for their key at some moment between their *)
(* beginning and their return, which need not be the last.                  *)
(***************************************************************************)
EXTENDS Workload

VARIABLES todo,    \* the calls a thread has still to make
          table,   \* the map: the value of each key, NONE when absent
          ret,     \* what a thread's latest call returned
          seen     \* what the key of its call has had since the call began
vars == <<todo, table, ret, seen>>

Init == /\ todo \in Workloads
        /\ table = [k \in Keys |-> NONE]
        /\ ret = [t \in Threads |-> NONE]
        /\ seen = [t \in Threads |-> {}]

Call(t) == Head(todo[t])
Under(t, name) == seen[t] # {} /\ Call(t).op = name

Begin(t) == /\ todo[t] # <<>> /\ seen[t] = {}
            /\ seen' = [seen EXCEPT ![t] = {table[Call(t).key]}]
            /\ UNCHANGED <<todo, table, ret>>

Return(t, r) == /\ ret' = [ret EXCEPT ![t] = r]
                /\ todo' = [todo EXCEPT ![t] = Tail(@)]

\* t's call gives its key the value x, and others that are looking may see it
Set(t, x) ==
  /\ table' = [table EXCEPT ![Call(t).key] = x]
  /\ seen' = [u \in Threads |->
                IF u = t THEN {}
                ELSE IF seen[u] # {} /\ Call(u).key = Call(t).key THEN seen[u] \cup {x}
                ELSE seen[u]]

Answer(t, r) == /\ Return(t, r)
                /\ seen' = [seen EXCEPT ![t] = {}]
                /\ UNCHANGED table

Insert(t) == Under(t, "Insert") /\ Set(t, Call(t).value) /\ Return(t, NONE)

Update(t) == /\ Under(t, "Update")
             /\ \/ table[Call(t).key] # NONE /\ Set(t, Call(t).value) /\ Return(t, TRUE)
                \/ NONE \in seen[t] /\ Answer(t, FALSE)

Delete(t) == /\ Under(t, "Delete")
             /\ \/ table[Call(t).key] # NONE /\ Set(t, NONE) /\ Return(t, TRUE)
                \/ NONE \in seen[t] /\ Answer(t, FALSE)

Get(t) == Under(t, "Get") /\ \E r \in seen[t] : Answer(t, r)

Next == \E t \in Threads : Begin(t) \/ Insert(t) \/ Update(t) \/ Delete(t) \/ Get(t)

Spec == Init /\ [][Next]_vars
============================================================================
