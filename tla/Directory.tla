------------------------------ MODULE Directory ------------------------------
(***************************************************************************)
(* The word `sema` of struct Directory (index/extendible_hash.h, lines      *)
(* 58-85), one load or one compare-and-swap a step: suspend(), lock() and   *)
(* unlock() called by any number of threads on one directory.  A thread     *)
(* that lock() or suspend() turned away may call again.  Counters that      *)
(* ExtendibleHash changes in one step are shown here to be safe to change   *)
(* in the steps of the code.                                                *)
(***************************************************************************)
EXTENDS Integers, FiniteSets

CONSTANTS Threads, Nobody

ASSUME ThreadsAssumption == IsFiniteSet(Threads) /\ Nobody \notin Threads

VARIABLES sema,   \* the field of the directory
          pc,     \* the next step of a thread
          val     \* its local variable val
vars == <<sema, pc, val>>

Goto(t, step) == pc' = [pc EXCEPT ![t] = step]
Load(t) == val' = [val EXCEPT ![t] = sema] /\ UNCHANGED sema

Init == /\ sema = 0
        /\ pc = [t \in Threads |-> "out"]
        /\ val = [t \in Threads |-> 0]

-----------------------------------------------------------------------------
CallLock(t) == /\ pc[t] = "out"
               /\ Load(t) /\ Goto(t, "lock")

CasLock_Reopening(t) ==
  /\ pc[t] = "lock"
  /\ \/ /\ sema = val[t]
        /\ Goto(t, "inside") /\ sema' = val[t] + 1 /\ UNCHANGED val
     \/ /\ sema # val[t]
        /\ Load(t) /\ UNCHANGED pc

\* one turn of lock()'s loop, or its return of false
CasLock(t) ==
  /\ pc[t] = "lock"
  /\ \/ /\ val[t] <= -1
        /\ Goto(t, "out") /\ UNCHANGED <<sema, val>>
     \/ /\ val[t] > -1 /\ sema = val[t]
        /\ Goto(t, "inside") /\ sema' = val[t] + 1 /\ UNCHANGED val
     \/ /\ val[t] > -1 /\ sema # val[t]
        /\ Load(t) /\ UNCHANGED pc

CallUnlock(t) == /\ pc[t] = "inside"
                 /\ Load(t) /\ Goto(t, "unlock")

CasUnlock_Blind(t) ==
  /\ pc[t] = "unlock"
  /\ Goto(t, "out") /\ sema' = val[t] - 1 /\ UNCHANGED val

CasUnlock(t) ==
  /\ pc[t] = "unlock"
  /\ \/ /\ sema = val[t]
        /\ Goto(t, "out") /\ sema' = val[t] - 1 /\ UNCHANGED val
     \/ /\ sema # val[t]
        /\ Load(t) /\ UNCHANGED pc

CallSuspend(t) == /\ pc[t] = "out"
                  /\ Load(t) /\ Goto(t, "suspend")

CasSuspend(t) ==
  /\ pc[t] = "suspend"
  /\ \/ /\ val[t] < 0
        /\ Goto(t, "out") /\ UNCHANGED <<sema, val>>
     \/ /\ val[t] >= 0 /\ sema = val[t]
        /\ Goto(t, "wait") /\ sema' = -1 /\ UNCHANGED val
     \/ /\ val[t] >= 0 /\ sema # val[t]
        /\ Load(t) /\ UNCHANGED pc

Wait_ForAny(t) ==
  /\ pc[t] = "wait"
  /\ val[t] = 0 \/ sema < -1
  /\ Goto(t, "alone") /\ UNCHANGED <<sema, val>>

Wait_OffByOne(t) ==
  /\ pc[t] = "wait"
  /\ val[t] = 0 \/ sema = 0 - val[t]
  /\ Goto(t, "alone") /\ UNCHANGED <<sema, val>>

\* while(val && sema != wait)
Wait(t) ==
  /\ pc[t] = "wait"
  /\ val[t] = 0 \/ sema = 0 - val[t] - 1
  /\ Goto(t, "alone") /\ UNCHANGED <<sema, val>>

Step(t) == \/ CallLock(t) \/ CasLock(t) \/ CallUnlock(t) \/ CasUnlock(t)
           \/ CallSuspend(t) \/ CasSuspend(t) \/ Wait(t)

Next == \E t \in Threads : Step(t)

Spec == Init /\ [][Next]_vars

\* A thread in the middle of a call gets on with it; whether it calls at all is
\* up to its program, but who has locked the directory unlocks it (line 336).
Fairness == \A t \in Threads :
              WF_vars(CasLock(t) \/ CallUnlock(t) \/ CasUnlock(t) \/ CasSuspend(t) \/ Wait(t))
FairSpec == Spec /\ Fairness

-----------------------------------------------------------------------------
Inside == {t \in Threads : pc[t] \in {"inside", "unlock"}}
Closers == {t \in Threads : pc[t] \in {"wait", "alone"}}

\* The types; only suspend() needs val to be a natural number, past its loop.
TypeOK == /\ sema \in Int
          /\ pc \in [Threads -> {"out", "lock", "inside", "unlock", "suspend",
                                 "wait", "alone"}]
          /\ val \in [Threads -> Int]

\* sema counts the threads inside until a thread closes the directory, and from
\* then on, from -1 downwards, those of them that have left.
SemaCounts ==
  /\ \A t, u \in Closers : t = u
  /\ Closers = {} => sema = Cardinality(Inside)
  /\ \A t \in Closers : /\ Cardinality(Inside) <= val[t]
                        /\ sema = Cardinality(Inside) - val[t] - 1

\* A thread that suspend() has let through is alone with the directory, for good
\* (the copy loop of lines 301-310 relies on it).
Alone == \A t \in Threads : pc[t] = "alone" => Inside = {} /\ Closers = {t}

\* suspend() comes to an end once its compare-and-swap has succeeded: the threads
\* inside leave, and nobody else gets in (before that, others may lock and unlock
\* the directory for ever between its load and its compare-and-swap).
SuspendEnds == \A t \in Threads : pc[t] = "wait" ~> pc[t] = "alone"

GateOf == INSTANCE Gate WITH
            inside <- Inside,
            closer <- IF Closers = {} THEN Nobody ELSE CHOOSE t \in Closers : TRUE,
            alone <- \E t \in Threads : pc[t] = "alone"
\* The three calls keep the promise of Gate.
ImplementsGate == GateOf!Spec
============================================================================
