------------------------------ MODULE MovingMap ------------------------------
(***************************************************************************)
(* What is left of ScannedMap's promise when an index moves keys about: a   *)
(* call may also miss a key that was moved while the call was looking, and  *)
(* a Get that began during an insertion that makes room answers anything.   *)
(* What changes the map, and what reports to have changed it, is as before. *)
(***************************************************************************)
EXTENDS ScannedMap

\* the key k is moved to another place
Move(k) == /\ seen' = [t \in Threads |-> IF seen[t] # {} /\ Call(t).key = k
                                         THEN seen[t] \cup {NONE} ELSE seen[t]]
           /\ UNCHANGED <<todo, table, ret>>

BeginBlind(t) == /\ todo[t] # <<>> /\ seen[t] = {} /\ Call(t).op = "Get"
                 /\ seen' = [seen EXCEPT ![t] = Values \cup {NONE}]
                 /\ UNCHANGED <<todo, table, ret>>

MovingNext == Next \/ (\E k \in Keys : Move(k)) \/ (\E t \in Threads : BeginBlind(t))

MovingSpec == Init /\ [][MovingNext]_vars
============================================================================
