--------------------------- MODULE CuckooHashScans ---------------------------
(***************************************************************************)
(* CuckooHash with a history variable: what the key of a thread's call may  *)
(* have looked like since the call began, by which its answer is judged.    *)
(***************************************************************************)
EXTENDS CuckooHash

VARIABLE seen

SInit == Init /\ seen = [t \in Threads |-> {}]

\* the keys that a step copies to their other place
Moved == {k \in Keys : \E t \in Threads :
            /\ pc[t] = "move" /\ i[t] > 1 /\ i'[t] # i[t]
            /\ Holds(array'[table][path[t][i[t]].slot], k)}

Remember ==
  seen' = [t \in Threads |->
             IF todo'[t] # todo[t] \/ (seen[t] = {} /\ pc'[t] \notin {"pick"}) THEN {}
             ELSE IF Calling(t, "Get") /\ old'[t] THEN Values \cup {NONE}
             ELSE seen[t] \cup {Table'[Key(t)]} \cup (IF Key(t) \in Moved THEN {NONE} ELSE {})]

SNext == Next /\ Remember
SSpec == SInit /\ [][SNext]_<<vars, seen>>

Promise == INSTANCE MovingMap WITH table <- Table
\* Insertions, updates and deletions take effect at one moment, once; an answer was
\* right at some moment of its call, unless it misses a key that was moved meanwhile,
\* or a Get began while another thread was making room.
ImplementsMoving == Promise!MovingSpec
============================================================================
