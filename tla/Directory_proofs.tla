-------------------------- MODULE Directory_proofs --------------------------
(***************************************************************************)
(* For any finite set of threads: sema counts what it should, a thread that *)
(* suspend() has let through is alone with the directory, and the three     *)
(* calls implement Gate.                                                    *)
(*                                                                         *)
(* TypeOK, SemaCounts and Alone together are inductive.  The heart of it is *)
(* that sema is negative exactly while some thread has closed the directory *)
(* (ClosedIsNegative), so that a compare-and-swap from a value that is not  *)
(* negative finds it open.                                                  *)
(***************************************************************************)
EXTENDS Directory, FiniteSetTheorems, TLAPS

IInv == TypeOK /\ SemaCounts /\ Alone

USE ThreadsAssumption

-----------------------------------------------------------------------------
(* Counting the threads inside.                                            *)

\* The threads inside a directory can be counted.
LEMMA InsideFinite == IsFiniteSet(Inside) /\ Cardinality(Inside) \in Nat
<1>1. IsFiniteSet(Inside)
  BY FS_Subset DEF Inside
<1>2. QED
  BY <1>1, FS_CardinalityType

\* A directory that some thread closed has a negative sema, and only such a one.
LEMMA ClosedIsNegative == TypeOK /\ SemaCounts => (sema < 0 <=> Closers # {})
<1> SUFFICES ASSUME TypeOK, SemaCounts PROVE sema < 0 <=> Closers # {}
  OBVIOUS
<1> USE InsideFinite
<1>1. CASE Closers = {}
  BY <1>1 DEF SemaCounts, TypeOK
<1>2. CASE Closers # {}
  <2>1. PICK t \in Closers : TRUE
    BY <1>2
  <2>2. t \in Threads /\ val[t] \in Int
    BY <2>1 DEF Closers, TypeOK
  <2>3. QED
    BY <1>2, <2>1, <2>2 DEF SemaCounts, TypeOK
<1>3. QED
  BY <1>1, <1>2

\* A step that lets nobody in or out, closes nothing and keeps sema keeps the count.
LEMMA Unmoved ==
  ASSUME SemaCounts, Alone, sema' = sema, Inside' = Inside, Closers' = Closers,
         \A u \in Closers : val'[u] = val[u],
         \A u \in Threads : pc'[u] = "alone" => pc[u] = "alone"
  PROVE  SemaCounts' /\ Alone'
BY DEF SemaCounts, Alone

-----------------------------------------------------------------------------
(* Every step of a thread keeps the invariant.                             *)

\* The types are kept by every step.
LEMMA TypeStep == TypeOK /\ [Next]_vars => TypeOK'
<1> SUFFICES ASSUME TypeOK, [Next]_vars PROVE TypeOK'
  OBVIOUS
<1>1. CASE UNCHANGED vars
  BY <1>1 DEF vars, TypeOK
<1>2. ASSUME NEW t \in Threads, Step(t) PROVE TypeOK'
  BY <1>2 DEF Step, CallLock, CasLock, CallUnlock, CasUnlock, CallSuspend, CasSuspend,
     Wait, Load, Goto, TypeOK
<1>3. QED
  BY <1>1, <1>2 DEF Next

\* The count is kept by lock(): it enters only an open directory.
LEMMA LockStep ==
  ASSUME IInv, TypeOK', NEW t \in Threads, CallLock(t) \/ CasLock(t)
  PROVE  SemaCounts' /\ Alone'
<1> USE InsideFinite
<1>1. CASE pc'[t] = "inside" /\ CasLock(t)
  <2>1. sema = val[t] /\ val[t] > -1 /\ sema' = sema + 1 /\ pc[t] = "lock"
        /\ pc' = [pc EXCEPT ![t] = "inside"] /\ val' = val
    BY <1>1 DEF CasLock, Goto, Load, IInv, TypeOK
  <2>2. Closers = {}
    BY <2>1, ClosedIsNegative DEF IInv, TypeOK
  <2>3. Closers' = {}
    BY <2>1, <2>2 DEF Closers, IInv, TypeOK
  <2>4. Inside' = Inside \cup {t} /\ t \notin Inside
    BY <2>1 DEF Inside, IInv, TypeOK
  <2>5. Cardinality(Inside') = Cardinality(Inside) + 1
    BY <2>4, FS_AddElement
  <2>6. sema' = Cardinality(Inside')
    BY <2>1, <2>2, <2>5 DEF IInv, SemaCounts
  <2>7. \A u \in Threads : pc'[u] # "alone"
    BY <2>3 DEF Closers
  <2>8. QED
    BY <2>3, <2>6, <2>7 DEF SemaCounts, Alone
<1>2. CASE ~ (pc'[t] = "inside" /\ CasLock(t))
  <2>1. /\ sema' = sema /\ pc[t] \in {"out", "lock"} /\ pc'[t] \in {"out", "lock"}
        /\ \A u \in Threads \ {t} : pc'[u] = pc[u] /\ val'[u] = val[u]
    BY <1>2 DEF CallLock, CasLock, Goto, Load, IInv, TypeOK
  <2>2. Inside' = Inside /\ Closers' = Closers
    BY <2>1 DEF Inside, Closers
  <2>3. \A u \in Closers : val'[u] = val[u]
    BY <2>1 DEF Closers
  <2>4. QED
    BY <2>1, <2>2, <2>3, Unmoved DEF IInv
<1>3. QED
  BY <1>1, <1>2

\* The count is kept by unlock(): one thread less inside, one less in sema.
LEMMA UnlockStep ==
  ASSUME IInv, TypeOK', NEW t \in Threads, CallUnlock(t) \/ CasUnlock(t)
  PROVE  SemaCounts' /\ Alone'
<1> USE InsideFinite
<1>1. CASE CasUnlock(t) /\ sema = val[t]
  <2>1. /\ pc[t] = "unlock" /\ sema' = sema - 1 /\ val' = val
        /\ pc' = [pc EXCEPT ![t] = "out"]
    BY <1>1 DEF CasUnlock, Goto
  <2>2. Closers' = Closers
    BY <2>1 DEF Closers, IInv, TypeOK
  <2>3. Inside' = Inside \ {t} /\ t \in Inside
    BY <2>1 DEF Inside, IInv, TypeOK
  <2>4. Cardinality(Inside') = Cardinality(Inside) - 1
    BY <2>3, FS_RemoveElement
  <2>5. ASSUME Closers' = {} PROVE sema' = Cardinality(Inside')
    BY <2>1, <2>2, <2>4, <2>5 DEF IInv, SemaCounts, TypeOK
  <2>6. ASSUME NEW u \in Closers'
        PROVE  Cardinality(Inside') <= val'[u] /\ sema' = Cardinality(Inside') - val'[u] - 1
    <3>1. u \in Closers /\ val[u] \in Int /\ val'[u] = val[u]
      BY <2>1, <2>2, <2>6 DEF Closers, IInv, TypeOK
    <3>2. QED
      BY <2>1, <2>4, <3>1 DEF IInv, SemaCounts, TypeOK
  <2>7. SemaCounts'
    BY <2>2, <2>5, <2>6 DEF IInv, SemaCounts
  <2>8. ASSUME NEW u \in Threads, pc'[u] = "alone" PROVE FALSE
    <3>1. pc[u] = "alone"
      BY <2>1, <2>8 DEF IInv, TypeOK
    <3>2. QED
      BY <2>3, <3>1 DEF IInv, Alone
  <2>9. QED
    BY <2>7, <2>8 DEF Alone
<1>2. CASE ~ (CasUnlock(t) /\ sema = val[t])
  <2>1. /\ sema' = sema /\ pc[t] \in {"inside", "unlock"} /\ pc'[t] = "unlock"
        /\ \A u \in Threads \ {t} : pc'[u] = pc[u] /\ val'[u] = val[u]
    BY <1>2 DEF CallUnlock, CasUnlock, Goto, Load, IInv, TypeOK
  <2>2. Inside' = Inside /\ Closers' = Closers
    BY <2>1 DEF Inside, Closers
  <2>3. \A u \in Closers : val'[u] = val[u]
    BY <2>1 DEF Closers
  <2>4. QED
    BY <2>1, <2>2, <2>3, Unmoved DEF IInv
<1>3. QED
  BY <1>1, <1>2

\* The count is kept by suspend(): it closes an open directory, and remembers in
\* val how many threads were inside.
LEMMA SuspendStep ==
  ASSUME IInv, TypeOK', NEW t \in Threads, CallSuspend(t) \/ CasSuspend(t)
  PROVE  SemaCounts' /\ Alone'
<1> USE InsideFinite
<1>1. CASE pc'[t] = "wait" /\ CasSuspend(t)
  <2>1. /\ sema = val[t] /\ val[t] >= 0 /\ sema' = -1 /\ pc[t] = "suspend"
        /\ pc' = [pc EXCEPT ![t] = "wait"] /\ val' = val
    BY <1>1 DEF CasSuspend, Goto, Load, IInv, TypeOK
  <2>2. Closers = {}
    BY <2>1, ClosedIsNegative DEF IInv, TypeOK
  <2>3. Closers' = {t}
    BY <2>1, <2>2 DEF Closers, IInv, TypeOK
  <2>4. Inside' = Inside
    BY <2>1 DEF Inside, IInv, TypeOK
  <2>5. sema = Cardinality(Inside)
    BY <2>2 DEF IInv, SemaCounts
  <2>6. SemaCounts'
    <3>1. Cardinality(Inside') = val'[t] /\ sema' = Cardinality(Inside') - val'[t] - 1
      BY <2>1, <2>4, <2>5
    <3>2. \A u \in Closers' : u = t
      BY <2>3
    <3>3. Cardinality(Inside') <= val'[t] /\ Closers' # {}
      BY <2>3, <2>4, <3>1
    <3>4. QED
      BY <3>1, <3>2, <3>3 DEF SemaCounts
  <2>7. \A u \in Threads : pc'[u] # "alone"
    BY <2>1, <2>2 DEF Closers, IInv, TypeOK
  <2>8. QED
    BY <2>6, <2>7 DEF Alone
<1>2. CASE ~ (pc'[t] = "wait" /\ CasSuspend(t))
  <2>1. /\ sema' = sema /\ pc[t] \in {"out", "suspend"} /\ pc'[t] \in {"out", "suspend"}
        /\ \A u \in Threads \ {t} : pc'[u] = pc[u] /\ val'[u] = val[u]
    BY <1>2 DEF CallSuspend, CasSuspend, Goto, Load, IInv, TypeOK
  <2>2. Inside' = Inside /\ Closers' = Closers
    BY <2>1 DEF Inside, Closers
  <2>3. \A u \in Closers : val'[u] = val[u]
    BY <2>1 DEF Closers
  <2>4. QED
    BY <2>1, <2>2, <2>3, Unmoved DEF IInv
<1>3. QED
  BY <1>1, <1>2

\* A wait that has ended found nobody inside.
LEMMA WaitStep ==
  ASSUME IInv, NEW t \in Threads, Wait(t)
  PROVE  SemaCounts' /\ Alone' /\ Inside = {}
<1> USE InsideFinite
<1>1. /\ sema' = sema /\ val' = val /\ pc[t] = "wait"
      /\ pc' = [pc EXCEPT ![t] = "alone"]
      /\ val[t] = 0 \/ sema = 0 - val[t] - 1
  BY DEF Wait, Goto
<1>2. t \in Closers /\ val[t] \in Int
  BY <1>1 DEF Closers, IInv, TypeOK
<1>3. Cardinality(Inside) = 0
  BY <1>1, <1>2 DEF IInv, SemaCounts
<1>4. Inside = {}
  BY <1>3, FS_EmptySet
<1>5. Inside' = Inside /\ Closers' = Closers
  BY <1>1 DEF Inside, Closers, IInv, TypeOK
<1>6. Closers = {t}
  BY <1>2 DEF IInv, SemaCounts
<1>7. SemaCounts'
  BY <1>1, <1>5 DEF IInv, SemaCounts
<1>8. Alone'
  BY <1>4, <1>5, <1>6 DEF Alone, Closers
<1>9. QED
  BY <1>4, <1>7, <1>8

\* The invariant holds at first and is kept by every step.
LEMMA Inductive == (Init => IInv) /\ (IInv /\ [Next]_vars => IInv')
<1>1. Init => IInv
  <2> SUFFICES ASSUME Init PROVE IInv
    OBVIOUS
  <2>1. Inside = {} /\ Closers = {}
    BY DEF Init, Inside, Closers
  <2>2. Cardinality(Inside) = 0
    BY <2>1, FS_EmptySet
  <2>3. QED
    BY <2>1, <2>2 DEF Init, IInv, TypeOK, SemaCounts, Alone
<1>2. ASSUME IInv, [Next]_vars PROVE IInv'
  <2>1. TypeOK'
    BY <1>2, TypeStep DEF IInv
  <2>2. CASE UNCHANGED vars
    BY <1>2, <2>2 DEF IInv, vars, TypeOK, SemaCounts, Alone, Inside, Closers
  <2>3. ASSUME NEW t \in Threads, Step(t) PROVE SemaCounts' /\ Alone'
    BY <1>2, <2>1, <2>3, LockStep, UnlockStep, SuspendStep, WaitStep DEF Step
  <2>4. QED
    BY <1>2, <2>1, <2>2, <2>3 DEF Next, IInv
<1>3. QED
  BY <1>1, <1>2

-----------------------------------------------------------------------------
\* sema counts the threads that have locked the directory, and those that have
\* left it since it was suspended, whatever the threads do and however many.
THEOREM SemaIsRight == Spec => [](TypeOK /\ SemaCounts)
<1>1. Spec => []IInv
  BY Inductive, PTL DEF Spec
<1>2. IInv => TypeOK /\ SemaCounts
  BY DEF IInv
<1>3. QED
  BY <1>1, <1>2, PTL

\* A thread that suspend() has let through is alone with the directory for good.
THEOREM SuspenderIsAlone == Spec => []Alone
<1>1. Spec => []IInv
  BY Inductive, PTL DEF Spec
<1>2. IInv => Alone
  BY DEF IInv
<1>3. QED
  BY <1>1, <1>2, PTL

-----------------------------------------------------------------------------
(* The three calls implement Gate.                                         *)

closerOf == IF Closers = {} THEN Nobody ELSE CHOOSE t \in Closers : TRUE
aloneNow == \E t \in Threads : pc[t] = "alone"

\* While a directory is open its closer is Nobody; then it is the one closer.
LEMMA CloserOf ==
  SemaCounts => /\ Closers = {} <=> closerOf = Nobody
                /\ \A t \in Closers : closerOf = t
<1> SUFFICES ASSUME SemaCounts
             PROVE  /\ Closers = {} <=> closerOf = Nobody
                    /\ \A t \in Closers : closerOf = t
  OBVIOUS
<1>1. \A t \in Closers : closerOf = t /\ t # Nobody
  BY DEF SemaCounts, closerOf, Closers
<1>2. QED
  BY <1>1 DEF closerOf

\* Each step of a thread is a step of Gate, or changes nothing Gate speaks of.
LEMMA GateStep ==
  ASSUME IInv, IInv', NEW t \in Threads, Step(t)
  PROVE  [GateOf!Next]_(GateOf!vars)
<1> DEFINE Same == Inside' = Inside /\ closerOf' = closerOf /\ aloneNow' = aloneNow
<1>0. ASSUME Same PROVE [GateOf!Next]_(GateOf!vars)
  BY <1>0 DEF GateOf!vars, closerOf, aloneNow
<1> DEFINE Within(S) == /\ pc[t] \in S /\ pc'[t] \in S
                        /\ \A u \in Threads \ {t} : pc'[u] = pc[u]
<1>1. ASSUME Within({"out", "lock", "suspend"}) \/ Within({"inside", "unlock"})
      PROVE  [GateOf!Next]_(GateOf!vars)
  <2>1. Inside' = Inside
    BY <1>1 DEF Inside
  <2>2. Closers' = Closers
    BY <1>1 DEF Closers
  <2>3. aloneNow' = aloneNow
    BY <1>1 DEF aloneNow
  <2>4. QED
    BY <1>0, <2>1, <2>2, <2>3 DEF closerOf
<1>2. CASE CallLock(t) \/ CallUnlock(t) \/ CallSuspend(t)
  <2>1. CASE CallUnlock(t)
    <3>1. Within({"inside", "unlock"})
      BY <2>1 DEF CallUnlock, Goto, IInv, TypeOK
    <3>2. QED
      BY <1>1, <3>1
  <2>2. CASE CallLock(t) \/ CallSuspend(t)
    <3>1. Within({"out", "lock", "suspend"})
      BY <2>2 DEF CallLock, CallSuspend, Goto, IInv, TypeOK
    <3>2. QED
      BY <1>1, <3>1
  <2>3. QED
    BY <1>2, <2>1, <2>2
<1>3. CASE CasLock(t)
  <2>1. CASE pc'[t] # "inside"
    <3>1. Within({"out", "lock", "suspend"})
      BY <1>3, <2>1 DEF CasLock, Load, Goto, IInv, TypeOK
    <3>2. QED
      BY <1>1, <3>1
  <2>2. CASE pc'[t] = "inside"
    <3>1. /\ pc[t] = "lock" /\ pc' = [pc EXCEPT ![t] = "inside"]
          /\ val[t] > -1 /\ sema = val[t]
      BY <1>3, <2>2 DEF CasLock, Load, Goto, IInv, TypeOK
    <3>2. Closers = {} /\ Closers' = {}
      BY <3>1, ClosedIsNegative DEF IInv, TypeOK, Closers
    <3>3. Inside' = Inside \cup {t}
      BY <3>1 DEF Inside, IInv, TypeOK
    <3>4. aloneNow' = aloneNow
      BY <3>2 DEF aloneNow, Closers
    <3>5. GateOf!Enter(t)
      BY <3>2, <3>3, <3>4 DEF GateOf!Enter, aloneNow
    <3>6. QED
      BY <3>5 DEF GateOf!Next
  <2>3. QED
    BY <2>1, <2>2
<1>4. CASE CasUnlock(t)
  <2>1. CASE pc'[t] # "out"
    <3>1. Within({"inside", "unlock"})
      BY <1>4, <2>1 DEF CasUnlock, Load, Goto, IInv, TypeOK
    <3>2. QED
      BY <1>1, <3>1
  <2>2. CASE pc'[t] = "out"
    <3>1. pc[t] = "unlock" /\ pc' = [pc EXCEPT ![t] = "out"]
      BY <1>4, <2>2 DEF CasUnlock, Load, Goto, IInv, TypeOK
    <3>2. Inside' = Inside \ {t} /\ t \in Inside
      BY <3>1 DEF Inside, IInv, TypeOK
    <3>3. Closers' = Closers
      BY <3>1 DEF Closers, IInv, TypeOK
    <3>4. aloneNow' = aloneNow
      BY <3>1 DEF aloneNow, IInv, TypeOK
    <3>5. GateOf!Leave(t)
      BY <3>2, <3>3, <3>4 DEF GateOf!Leave, aloneNow
    <3>6. QED
      BY <3>5 DEF GateOf!Next
  <2>3. QED
    BY <2>1, <2>2
<1>5. CASE CasSuspend(t)
  <2>1. CASE pc'[t] # "wait"
    <3>1. Within({"out", "lock", "suspend"})
      BY <1>5, <2>1 DEF CasSuspend, Load, Goto, IInv, TypeOK
    <3>2. QED
      BY <1>1, <3>1
  <2>2. CASE pc'[t] = "wait"
    <3>1. /\ pc[t] = "suspend" /\ pc' = [pc EXCEPT ![t] = "wait"]
          /\ val[t] >= 0 /\ sema = val[t]
      BY <1>5, <2>2 DEF CasSuspend, Load, Goto, IInv, TypeOK
    <3>2. Closers = {} /\ t \in Closers'
      BY <3>1, ClosedIsNegative DEF IInv, TypeOK, Closers
    <3>3. Inside' = Inside /\ t \notin Inside
      BY <3>1 DEF Inside, IInv, TypeOK
    <3>4. closerOf = Nobody
      BY <3>2 DEF closerOf
    <3>5. closerOf' = t
      BY <3>2 DEF closerOf, IInv, SemaCounts
    <3>6. aloneNow' = aloneNow
      BY <3>1 DEF aloneNow, IInv, TypeOK
    <3>7. GateOf!Close(t)
      BY <3>3, <3>4, <3>5, <3>6 DEF GateOf!Close, aloneNow, closerOf
    <3>8. QED
      BY <3>7 DEF GateOf!Next
  <2>3. QED
    BY <2>1, <2>2
<1>6. CASE Wait(t)
  <2>1. pc[t] = "wait" /\ pc' = [pc EXCEPT ![t] = "alone"]
    BY <1>6 DEF Wait, Goto
  <2>2. Inside = {}
    BY <1>6, WaitStep
  <2>3. Inside' = Inside /\ Closers' = Closers
    BY <2>1 DEF Inside, Closers, IInv, TypeOK
  <2>4. Closers # {}
    BY <2>1 DEF Closers
  <2>5. closerOf # Nobody /\ closerOf' = closerOf
    BY <2>3, <2>4, CloserOf DEF IInv, closerOf
  <2>6. aloneNow'
    BY <2>1 DEF aloneNow, IInv, TypeOK
  <2>7. GateOf!Proceed
    BY <2>2, <2>3, <2>5, <2>6 DEF GateOf!Proceed, closerOf, aloneNow
  <2>8. QED
    BY <2>7 DEF GateOf!Next
<1>7. QED
  BY <1>2, <1>3, <1>4, <1>5, <1>6 DEF Step

\* suspend(), lock() and unlock() keep the promise of Gate for any threads.
THEOREM DirectoryIsAGate == Spec => ImplementsGate
<1>1. Init => GateOf!Init
  BY DEF Init, GateOf!Init, Inside, Closers
<1>2. IInv /\ IInv' /\ [Next]_vars => [GateOf!Next]_(GateOf!vars)
  <2> SUFFICES ASSUME IInv, IInv', [Next]_vars PROVE [GateOf!Next]_(GateOf!vars)
    OBVIOUS
  <2>1. CASE UNCHANGED vars
    BY <2>1 DEF vars, GateOf!vars, Inside, Closers
  <2>2. QED
    BY <2>1, GateStep DEF Next
<1>3. QED
  BY <1>1, <1>2, Inductive, PTL DEF Spec, ImplementsGate, GateOf!Spec
============================================================================
