-------------------------- MODULE LinearProbingScans --------------------------
(***************************************************************************)
(* LinearProbing with a history variable: what the key of a thread's call   *)
(* has had since the call began, by which its answer is judged.             *)
(***************************************************************************)
EXTENDS LinearProbing

VARIABLE seen

\* a call takes effect when its pair is in the slot, and is counted afterwards
Pending(t) == IF pc[t] = "count" THEN Tail(todo[t]) ELSE todo[t]

SInit == Init /\ seen = [t \in Threads |-> {}]

Remember ==
  seen' = [t \in Threads |->
             IF Pending(t)' # Pending(t) \/ (seen[t] = {} /\ pc'[t] \in {"retry", "count"})
             THEN {} ELSE seen[t] \cup {Table'[Key(t)]}]

SNext == Next /\ Remember
SSpec == SInit /\ [][SNext]_<<vars, seen>>

Map == INSTANCE ScannedMap WITH
         table <- Table, todo <- [t \in Threads |-> Pending(t)],
         ret <- [t \in Threads |-> IF pc[t] = "count" THEN NONE ELSE ret[t]]
\* The table is a map: insertions, updates and deletions take effect at one
\* moment, and every answer was right at some moment of its call.
ImplementsScans == Map!Spec
============================================================================
