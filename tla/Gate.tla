-------------------------------- MODULE Gate --------------------------------
(***************************************************************************)
(* What the `sema` of a directory is for: any number of threads may be      *)
(* inside at once to store to different cells, until one thread closes the  *)
(* gate.  From then on nobody enters, and the closer proceeds, alone, when  *)
(* all who were inside have left.  A directory's gate is never opened again: *)
(* the closer replaces the directory.                                       *)
(***************************************************************************)
CONSTANTS Threads, Nobody

VARIABLES inside,   \* the threads that hold the directory
          closer,   \* the thread that closed the gate, or Nobody
          alone     \* whether the closer has gone past the wait
vars == <<inside, closer, alone>>

Init == inside = {} /\ closer = Nobody /\ alone = FALSE

Enter(t) == /\ closer = Nobody
            /\ inside' = inside \cup {t}
            /\ UNCHANGED <<closer, alone>>

Leave(t) == /\ t \in inside
            /\ inside' = inside \ {t}
            /\ UNCHANGED <<closer, alone>>

Close(t) == /\ closer = Nobody /\ t \notin inside
            /\ closer' = t
            /\ UNCHANGED <<inside, alone>>

Proceed == /\ closer # Nobody /\ inside = {}
           /\ alone' = TRUE
           /\ UNCHANGED <<inside, closer>>

Next == Proceed \/ \E t \in Threads : Enter(t) \/ Leave(t) \/ Close(t)

Spec == Init /\ [][Next]_vars
============================================================================
