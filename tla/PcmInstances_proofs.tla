------------------------ MODULE PcmInstances_proofs ------------------------
(***************************************************************************)
(* The three invariants of PcmInstances, for any set of processes, any      *)
(* number of cores and any command lines.                                   *)
(*                                                                         *)
(* What they have in common (IInv): what a process knows at each point      *)
(* (Knows), that those that allow others work only while they hold the lock *)
(* (Locking), and that no more are counted than believe they are, of which  *)
(* there are finitely many, and one only while the first one checks and     *)
(* programs (Counting). On it each property has an invariant of its own:    *)
(* GivenBackInv says why a register that is set will be cleared, PerfInv    *)
(* that one is counted and not refused, LastInv how the registers follow    *)
(* the count step by step of the one that holds the lock.                   *)
(***************************************************************************)
EXTENDS PcmInstances, FiniteSetTheorems, TLAPS

State == [pc : pcs, core : Cores, mutex : BOOLEAN, allow : BOOLEAN, sem : BOOLEAN,
          programmed : BOOLEAN, refused : BOOLEAN, cleaned : BOOLEAN]

TypeOK == /\ lock \in Procs \cup {Free}
          /\ count \in Nat
          /\ pmu \in [Cores -> BOOLEAN]
          /\ handles \subseteq Procs
          /\ canUsePerf \in BOOLEAN
          /\ option \in [Procs -> Option]
          /\ proc \in [Procs -> State]

Early == {"start", "constructing", "made"}
Before == Early \cup {"ready", "locked"}
After == {"zeroing", "freeing", "gone", "killed"}
Holding == {"locked", "checking", "programming", "zeroing", "freeing"}

(* What a process knows at each point of the program.                       *)
Knows(p) ==
  /\ proc[p].pc \in Before => /\ ~proc[p].sem /\ ~proc[p].programmed
                              /\ ~proc[p].refused /\ ~proc[p].cleaned
  /\ proc[p].pc \in Early => ~proc[p].allow
  /\ proc[p].pc \in {"checking", "programming", "measuring"}
       => proc[p].sem = proc[p].allow /\ ~proc[p].refused
  /\ At(p, "checking") => ~proc[p].programmed /\ ~canUsePerf
  /\ At(p, "programming") => proc[p].programmed
  /\ At(p, "zeroing") /\ ~proc[p].allow => proc[p].programmed
  /\ proc[p].pc \in {"zeroing", "freeing"} => proc[p].cleaned
  /\ proc[p].cleaned => proc[p].pc \in After
  /\ At(p, "gone") /\ option[p].handlers => proc[p].cleaned

(* The lock: those that allow others work only while they hold it, and who  *)
(* holds it is at work, or was interrupted or killed there.                 *)
Locking ==
  /\ \A p \in Procs : proc[p].allow /\ proc[p].pc \in Holding => lock = p
  /\ lock # Free => /\ proc[lock].allow
                    /\ proc[lock].pc \in Holding \cup {"cleanup", "killed"}

(* Those that have counted themselves in and not out, as they see it.       *)
Counted == {q \in Procs : proc[q].allow /\ proc[q].sem /\ ~proc[q].cleaned}

Counting ==
  /\ IsFiniteSet(Counted) /\ count <= Cardinality(Counted)
  /\ \A p \in Procs : proc[p].allow /\ proc[p].pc \in {"checking", "programming"} => count = 1

IInv == TypeOK /\ (\A p \in Procs : Knows(p)) /\ Locking /\ Counting
-----------------------------------------------------------------------------
(* Why a register that is set will be cleared: there is one who was counted  *)
(* and will be the last, or one that does not allow others has programmed    *)
(* and not cleaned up yet, or the last one has not come to this core.        *)
CountedForIt == /\ count > 0
                /\ \A p \in Procs : ~(proc[p].allow /\ At(p, "checking"))
Owns(q, c) == /\ ~proc[q].allow /\ proc[q].programmed
              /\ proc[q].pc \notin {"freeing", "gone"}
              /\ At(q, "zeroing") => proc[q].core <= c
Clears(q, c) == proc[q].allow /\ At(q, "zeroing") /\ proc[q].core <= c
Answered(c) == CountedForIt \/ \E q \in Procs : Owns(q, c) \/ Clears(q, c)

Broken == \E q \in Procs : At(q, "killed") \/ (At(q, "gone") /\ ~option[q].handlers)
GivenBackInv ==
  /\ canUsePerf => \A c \in Cores : ~pmu[c]
  /\ ~Broken => \A c \in Cores : pmu[c] => Answered(c)

(* With perf: the one that is counted and was not refused.                   *)
Live == {q \in Counted : ~proc[q].refused}
CountedTwice == \E q \in Procs : proc[q].refused /\ proc[q].cleaned
PerfInv ==
  canUsePerf /\ ~CountedTwice => \/ Live = {} /\ count = 0
                                 \/ count = 1 /\ \E q \in Procs : Live = {q}

(* Without perf: the registers follow the count.                             *)
AllSet == \A c \in Cores : pmu[c]
NoneSet == \A c \in Cores : ~pmu[c]
SetWhileCounted == (Counted # {} => AllSet) /\ (Counted = {} => NoneSet)
Follows(pc, core) ==
  /\ pc \in {"locked", "freeing"} => SetWhileCounted
  /\ pc = "checking" => Counted = {lock} /\ NoneSet
  /\ pc = "programming" => Counted = {lock} /\ \A c \in Cores : c < core => pmu[c]
  /\ pc = "zeroing" => Counted = {} /\ \A c \in Cores : c < core => ~pmu[c]
  /\ pc \in {"cleanup", "killed"} => Counted \subseteq {lock} \/ AllSet
LastInv ==
  ~canUsePerf /\ (\A q \in Procs : ~Meddled(q))
    => /\ count = Cardinality(Counted)
       /\ lock = Free => SetWhileCounted
       /\ lock # Free => Follows(proc[lock].pc, proc[lock].core)
-----------------------------------------------------------------------------
Act(p) == GetInstance(p) \/ Step(p) \/ PerfFails(p) \/ Exit(p) \/ Signal(p) \/ Kill(p)

(* What a step of p leaves of what the processes know.                      *)
LEMMA BecomesStep ==
  ASSUME TypeOK, NEW p \in Procs, NEW s, Becomes(p, s)
  PROVE  /\ proc'[p] = s /\ (s \in State => proc' \in [Procs -> State])
         /\ \A q \in Procs : q # p => proc'[q] = proc[q]
BY DEF Becomes, TypeOK

LEMMA OthersStay ==
  ASSUME TypeOK, NEW p \in Procs, Act(p)
  PROVE  /\ \A q \in Procs : q # p => proc'[q] = proc[q]
         /\ option' = option /\ canUsePerf' = canUsePerf
<1>1. CASE GetInstance(p)
  BY <1>1, BecomesStep DEF GetInstance, fixed
<1>2. CASE Constructed(p)
  BY <1>2, BecomesStep DEF Constructed, fixed
<1>3. CASE Prepare(p)
  BY <1>3, BecomesStep DEF Prepare, fixed
<1>4. CASE LockToProgram(p)
  BY <1>4, BecomesStep DEF LockToProgram, fixed
<1>5. CASE Join(p)
  BY <1>5, BecomesStep DEF Join, fixed
<1>6. CASE RefusePerf(p)
  BY <1>6, BecomesStep DEF RefusePerf, Refuse, fixed
<1>7. CASE BeFirst(p)
  BY <1>7, BecomesStep DEF BeFirst, fixed
<1>8. CASE CheckCore(p)
  BY <1>8, BecomesStep DEF CheckCore, Refuse, fixed
<1>9. CASE ProgramCore(p)
  BY <1>9, BecomesStep DEF ProgramCore, fixed
<1>10. CASE PerfFails(p)
  BY <1>10, BecomesStep DEF PerfFails, Refuse, fixed
<1>11. CASE Exit(p)
  BY <1>11, BecomesStep DEF Exit, Die, fixed
<1>12. CASE Signal(p)
  BY <1>12, BecomesStep DEF Signal, fixed
<1>13. CASE Kill(p)
  BY <1>13, BecomesStep DEF Kill, fixed
<1>14. CASE Cleanup(p)
  BY <1>14, BecomesStep DEF Cleanup, fixed
<1>15. CASE CleanupPMU(p)
  BY <1>15, BecomesStep DEF CleanupPMU, fixed
<1>16. CASE FreeRMID(p)
  BY <1>16, BecomesStep DEF FreeRMID, Die, fixed
<1>17. QED
  BY <1>1, <1>2, <1>3, <1>4, <1>5, <1>6, <1>7, <1>8, <1>9, <1>10, <1>11, <1>12, <1>13, <1>14, <1>15, <1>16 DEF Act, Step

LEMMA TypeStep ==
  ASSUME TypeOK, NEW p \in Procs, Act(p)
  PROVE  TypeOK'
<1> USE InstancesAssumption
<1>0. /\ proc \in [Procs -> State] /\ proc[p] \in State
      /\ option[p].allow \in BOOLEAN /\ canUsePerf \in BOOLEAN /\ 1 \in Cores
      /\ proc[p].core < NumCores => proc[p].core + 1 \in Cores
  BY DEF TypeOK, Option, State, Cores
<1>1. CASE GetInstance(p)
  <2>1. [proc[p] EXCEPT !.pc = "constructing", !.mutex = TRUE] \in State
    BY <1>0 DEF State, pcs
  <2>2. proc' \in [Procs -> State]
    BY <1>0, <1>1, <2>1, BecomesStep DEF GetInstance
  <2>3. QED
    BY <1>1, <2>2 DEF GetInstance, TypeOK, fixed
<1>2. CASE Constructed(p)
  <2>1. [proc[p] EXCEPT !.pc = "made", !.mutex = FALSE] \in State
    BY <1>0 DEF State, pcs
  <2>2. proc' \in [Procs -> State]
    BY <1>0, <1>2, <2>1, BecomesStep DEF Constructed
  <2>3. QED
    BY <1>2, <2>2 DEF Constructed, TypeOK, fixed
<1>3. CASE Prepare(p)
  <2>1. [proc[p] EXCEPT !.pc = "ready", !.allow = option[p].allow] \in State
    BY <1>0 DEF State, pcs
  <2>2. proc' \in [Procs -> State]
    BY <1>0, <1>3, <2>1, BecomesStep DEF Prepare
  <2>3. QED
    BY <1>3, <2>2 DEF Prepare, TypeOK, fixed, resetPMU
<1>4. CASE LockToProgram(p)
  <2>1. [proc[p] EXCEPT !.pc = "locked", !.mutex = ~proc[p].allow] \in State
    BY <1>0 DEF State, pcs
  <2>2. proc' \in [Procs -> State]
    BY <1>0, <1>4, <2>1, BecomesStep DEF LockToProgram
  <2>3. QED
    BY <1>4, <2>2 DEF LockToProgram, TypeOK, fixed, TakeLock
<1>5. CASE Join(p)
  <2>1. [proc[p] EXCEPT !.pc = "measuring", !.sem = TRUE] \in State
    BY <1>0 DEF State, pcs
  <2>2. proc' \in [Procs -> State]
    BY <1>0, <1>5, <2>1, BecomesStep DEF Join
  <2>3. QED
    BY <1>5, <2>2 DEF Join, TypeOK, fixed, GiveLock
<1>6. CASE RefusePerf(p)
  <2>1. [proc[p] EXCEPT !.pc = "refused", !.refused = TRUE, !.core = 1,
               !.mutex = FALSE, !.sem = proc[p].allow] \in State
    BY <1>0 DEF State, pcs
  <2>2. proc' \in [Procs -> State]
    BY <1>0, <1>6, <2>1, BecomesStep DEF RefusePerf, Refuse
  <2>3. QED
    BY <1>6, <2>2 DEF RefusePerf, TypeOK, fixed, Refuse, GiveLock
<1>7. CASE BeFirst(p)
  <2>1. [proc[p] EXCEPT !.pc = IF canUsePerf THEN "programming" ELSE "checking",
               !.sem = proc[p].allow, !.programmed = canUsePerf] \in State
    BY <1>0 DEF State, pcs
  <2>2. proc' \in [Procs -> State]
    BY <1>0, <1>7, <2>1, BecomesStep DEF BeFirst
  <2>3. QED
    BY <1>7, <2>2 DEF BeFirst, TypeOK, fixed
<1>8. CASE CheckCore(p)
  <2>1. [proc[p] EXCEPT !.pc = "refused", !.refused = TRUE, !.core = 1,
               !.mutex = FALSE, !.sem = proc[p].allow] \in State
    BY <1>0 DEF State, pcs
  <2>2. proc[p].core < NumCores => [proc[p] EXCEPT !.core = proc[p].core + 1] \in State
    BY <1>0 DEF State, pcs
  <2>3. [proc[p] EXCEPT !.pc = "programming", !.programmed = TRUE, !.core = 1] \in State
    BY <1>0 DEF State, pcs
  <2>4. proc' \in [Procs -> State]
    BY <1>0, <1>8, <2>1, <2>2, <2>3, BecomesStep DEF CheckCore, Refuse
  <2>5. QED
    BY <1>8, <2>4 DEF CheckCore, TypeOK, fixed, Refuse, GiveLock, CountOut, Cores
<1>9. CASE ProgramCore(p)
  <2>1. proc[p].core < NumCores => [proc[p] EXCEPT !.core = proc[p].core + 1] \in State
    BY <1>0 DEF State, pcs
  <2>2. [proc[p] EXCEPT !.pc = "measuring", !.core = 1, !.mutex = FALSE] \in State
    BY <1>0 DEF State, pcs
  <2>3. proc' \in [Procs -> State]
    BY <1>0, <1>9, <2>1, <2>2, BecomesStep DEF ProgramCore
  <2>4. QED
    BY <1>9, <2>3 DEF ProgramCore, TypeOK, fixed, GiveLock, Cores
<1>10. CASE PerfFails(p)
  <2>1. [proc[p] EXCEPT !.pc = "refused", !.refused = TRUE, !.core = 1,
               !.mutex = FALSE, !.sem = proc[p].allow] \in State
    BY <1>0 DEF State, pcs
  <2>2. proc' \in [Procs -> State]
    BY <1>0, <1>10, <2>1, BecomesStep DEF PerfFails, Refuse
  <2>3. QED
    BY <1>10, <2>2 DEF PerfFails, TypeOK, fixed, Refuse, GiveLock, CountOut
<1>11. CASE Exit(p)
  <2>1. [proc[p] EXCEPT !.pc = "cleanup"] \in State
    BY <1>0 DEF State, pcs
  <2>2. [proc[p] EXCEPT !.pc = "gone"] \in State
    BY <1>0 DEF State, pcs
  <2>3. proc' \in [Procs -> State]
    BY <1>0, <1>11, <2>1, <2>2, BecomesStep DEF Exit, Die
  <2>4. QED
    BY <1>11, <2>3 DEF Exit, TypeOK, fixed, Die
<1>12. CASE Signal(p)
  <2>1. [proc[p] EXCEPT !.pc = "cleanup", !.core = 1] \in State
    BY <1>0 DEF State, pcs
  <2>2. proc' \in [Procs -> State]
    BY <1>0, <1>12, <2>1, BecomesStep DEF Signal
  <2>3. QED
    BY <1>12, <2>2 DEF Signal, TypeOK, fixed
<1>13. CASE Kill(p)
  <2>1. [proc[p] EXCEPT !.pc = "killed", !.core = 1] \in State
    BY <1>0 DEF State, pcs
  <2>2. proc' \in [Procs -> State]
    BY <1>0, <1>13, <2>1, BecomesStep DEF Kill
  <2>3. QED
    BY <1>13, <2>2 DEF Kill, TypeOK, fixed
<1>14. CASE Cleanup(p)
  <2>1. [proc[p] EXCEPT !.pc = IF IsLast(p) THEN "zeroing" ELSE "freeing",
               !.mutex = ~proc[p].allow, !.cleaned = TRUE, !.core = 1] \in State
    BY <1>0 DEF State, pcs
  <2>2. proc' \in [Procs -> State]
    BY <1>0, <1>14, <2>1, BecomesStep DEF Cleanup
  <2>3. QED
    BY <1>14, <2>2 DEF Cleanup, TypeOK, fixed, CountOut, TakeLock
<1>15. CASE CleanupPMU(p)
  <2>1. proc[p].core < NumCores => [proc[p] EXCEPT !.core = proc[p].core + 1] \in State
    BY <1>0 DEF State, pcs
  <2>2. [proc[p] EXCEPT !.pc = "freeing", !.core = 1] \in State
    BY <1>0 DEF State, pcs
  <2>3. proc' \in [Procs -> State]
    BY <1>0, <1>15, <2>1, <2>2, BecomesStep DEF CleanupPMU
  <2>4. QED
    BY <1>15, <2>3 DEF CleanupPMU, TypeOK, fixed, Cores
<1>16. CASE FreeRMID(p)
  <2>1. [proc[p] EXCEPT !.pc = "gone"] \in State
    BY <1>0 DEF State, pcs
  <2>2. proc' \in [Procs -> State]
    BY <1>0, <1>16, <2>1, BecomesStep DEF FreeRMID, Die
  <2>3. QED
    BY <1>16, <2>2 DEF FreeRMID, TypeOK, fixed, Die, GiveLock
<1>17. QED
  BY <1>1, <1>2, <1>3, <1>4, <1>5, <1>6, <1>7, <1>8, <1>9, <1>10, <1>11, <1>12, <1>13, <1>14, <1>15, <1>16 DEF Act, Step

LEMMA KnowsStep ==
  ASSUME TypeOK, NEW p \in Procs, Act(p), \A q \in Procs : Knows(q)
  PROVE  \A q \in Procs : Knows(q)'
<1>0. /\ \A q \in Procs : q # p => Knows(q)'
      /\ option' = option /\ canUsePerf' = canUsePerf
      /\ Knows(p) /\ proc[p] \in State
  BY OthersStay DEF Knows, At, TypeOK
<1> SUFFICES Knows(p)'
  BY <1>0
<1>1. CASE GetInstance(p)
  <2>1. proc'[p] = [proc[p] EXCEPT !.pc = "constructing", !.mutex = TRUE]
    BY <1>1, BecomesStep DEF GetInstance
  <2>2. QED
    BY <1>0, <1>1, <2>1 DEF GetInstance, Knows, At, State, Before, Early, After, Others, IsLast
<1>2. CASE Constructed(p)
  <2>1. proc'[p] = [proc[p] EXCEPT !.pc = "made", !.mutex = FALSE]
    BY <1>2, BecomesStep DEF Constructed
  <2>2. QED
    BY <1>0, <1>2, <2>1 DEF Constructed, Knows, At, State, Before, Early, After, Others, IsLast
<1>3. CASE Prepare(p)
  <2>1. proc'[p] = [proc[p] EXCEPT !.pc = "ready", !.allow = option[p].allow]
    BY <1>3, BecomesStep DEF Prepare
  <2>2. QED
    BY <1>0, <1>3, <2>1 DEF Prepare, Knows, At, State, Before, Early, After, Others, IsLast
<1>4. CASE LockToProgram(p)
  <2>1. proc'[p] = [proc[p] EXCEPT !.pc = "locked", !.mutex = ~proc[p].allow]
    BY <1>4, BecomesStep DEF LockToProgram
  <2>2. QED
    BY <1>0, <1>4, <2>1 DEF LockToProgram, Knows, At, State, Before, Early, After, Others, IsLast
<1>5. CASE Join(p)
  <2>1. proc'[p] = [proc[p] EXCEPT !.pc = "measuring", !.sem = TRUE]
    BY <1>5, BecomesStep DEF Join
  <2>2. QED
    BY <1>0, <1>5, <2>1 DEF Join, Knows, At, State, Before, Early, After, Others, IsLast
<1>6. CASE RefusePerf(p)
  <2>1. proc'[p] = [proc[p] EXCEPT !.pc = "refused", !.refused = TRUE, !.core = 1,
               !.mutex = FALSE, !.sem = proc[p].allow]
    BY <1>6, BecomesStep DEF RefusePerf, Refuse
  <2>2. QED
    BY <1>0, <1>6, <2>1 DEF RefusePerf, Refuse, Knows, At, State, Before, Early, After, Others, IsLast
<1>7. CASE BeFirst(p)
  <2>1. proc'[p] = [proc[p] EXCEPT !.pc = IF canUsePerf THEN "programming" ELSE "checking",
               !.sem = proc[p].allow, !.programmed = canUsePerf]
    BY <1>7, BecomesStep DEF BeFirst
  <2>2. QED
    BY <1>0, <1>7, <2>1 DEF BeFirst, Knows, At, State, Before, Early, After, Others, IsLast
<1>8. CASE CheckCore(p)
  <2>1. CASE pmu[proc[p].core]
    <3>1. proc'[p] = [proc[p] EXCEPT !.pc = "refused", !.refused = TRUE, !.core = 1,
               !.mutex = FALSE, !.sem = proc[p].allow]
      BY <1>8, <2>1, BecomesStep DEF CheckCore, Refuse
    <3>2. QED
      BY <1>0, <1>8, <2>1, <3>1 DEF CheckCore, Refuse, Knows, At, State, Before, Early, After, Others, IsLast
  <2>2. CASE ~pmu[proc[p].core] /\ proc[p].core < NumCores
    <3>1. proc'[p] = [proc[p] EXCEPT !.core = proc[p].core + 1]
      BY <1>8, <2>2, BecomesStep DEF CheckCore, Refuse
    <3>2. QED
      BY <1>0, <1>8, <2>2, <3>1 DEF CheckCore, Refuse, Knows, At, State, Before, Early, After, Others, IsLast
  <2>3. CASE ~pmu[proc[p].core] /\ ~(proc[p].core < NumCores)
    <3>1. proc'[p] = [proc[p] EXCEPT !.pc = "programming", !.programmed = TRUE, !.core = 1]
      BY <1>8, <2>3, BecomesStep DEF CheckCore, Refuse
    <3>2. QED
      BY <1>0, <1>8, <2>3, <3>1 DEF CheckCore, Refuse, Knows, At, State, Before, Early, After, Others, IsLast
  <2>4. QED
    BY <1>8, <2>1, <2>2, <2>3 DEF CheckCore
<1>9. CASE ProgramCore(p)
  <2>1. CASE proc[p].core < NumCores
    <3>1. proc'[p] = [proc[p] EXCEPT !.core = proc[p].core + 1]
      BY <1>9, <2>1, BecomesStep DEF ProgramCore
    <3>2. QED
      BY <1>0, <1>9, <2>1, <3>1 DEF ProgramCore, Knows, At, State, Before, Early, After, Others, IsLast
  <2>2. CASE ~(proc[p].core < NumCores)
    <3>1. proc'[p] = [proc[p] EXCEPT !.pc = "measuring", !.core = 1, !.mutex = FALSE]
      BY <1>9, <2>2, BecomesStep DEF ProgramCore
    <3>2. QED
      BY <1>0, <1>9, <2>2, <3>1 DEF ProgramCore, Knows, At, State, Before, Early, After, Others, IsLast
  <2>3. QED
    BY <1>9, <2>1, <2>2 DEF ProgramCore
<1>10. CASE PerfFails(p)
  <2>1. proc'[p] = [proc[p] EXCEPT !.pc = "refused", !.refused = TRUE, !.core = 1,
               !.mutex = FALSE, !.sem = proc[p].allow]
    BY <1>10, BecomesStep DEF PerfFails, Refuse
  <2>2. QED
    BY <1>0, <1>10, <2>1 DEF PerfFails, Refuse, Knows, At, State, Before, Early, After, Others, IsLast
<1>11. CASE Exit(p)
  <2>1. CASE option[p].handlers
    <3>1. proc'[p] = [proc[p] EXCEPT !.pc = "cleanup"]
      BY <1>11, <2>1, BecomesStep DEF Exit, Die
    <3>2. QED
      BY <1>0, <1>11, <2>1, <3>1 DEF Exit, Die, Knows, At, State, Before, Early, After, Others, IsLast
  <2>2. CASE ~option[p].handlers
    <3>1. proc'[p] = [proc[p] EXCEPT !.pc = "gone"]
      BY <1>11, <2>2, BecomesStep DEF Exit, Die
    <3>2. QED
      BY <1>0, <1>11, <2>2, <3>1 DEF Exit, Die, Knows, At, State, Before, Early, After, Others, IsLast
  <2>3. QED
    BY <1>11, <2>1, <2>2 DEF Exit
<1>12. CASE Signal(p)
  <2>1. proc'[p] = [proc[p] EXCEPT !.pc = "cleanup", !.core = 1]
    BY <1>12, BecomesStep DEF Signal
  <2>2. QED
    BY <1>0, <1>12, <2>1 DEF Signal, Knows, At, State, Before, Early, After, Others, IsLast
<1>13. CASE Kill(p)
  <2>1. proc'[p] = [proc[p] EXCEPT !.pc = "killed", !.core = 1]
    BY <1>13, BecomesStep DEF Kill
  <2>2. QED
    BY <1>0, <1>13, <2>1 DEF Kill, Knows, At, State, Before, Early, After, Others, IsLast
<1>14. CASE Cleanup(p)
  <2>1. proc'[p] = [proc[p] EXCEPT !.pc = IF IsLast(p) THEN "zeroing" ELSE "freeing",
               !.mutex = ~proc[p].allow, !.cleaned = TRUE, !.core = 1]
    BY <1>14, BecomesStep DEF Cleanup
  <2>2. QED
    BY <1>0, <1>14, <2>1 DEF Cleanup, Knows, At, State, Before, Early, After, Others, IsLast
<1>15. CASE CleanupPMU(p)
  <2>1. CASE proc[p].core < NumCores
    <3>1. proc'[p] = [proc[p] EXCEPT !.core = proc[p].core + 1]
      BY <1>15, <2>1, BecomesStep DEF CleanupPMU
    <3>2. QED
      BY <1>0, <1>15, <2>1, <3>1 DEF CleanupPMU, Knows, At, State, Before, Early, After, Others, IsLast
  <2>2. CASE ~(proc[p].core < NumCores)
    <3>1. proc'[p] = [proc[p] EXCEPT !.pc = "freeing", !.core = 1]
      BY <1>15, <2>2, BecomesStep DEF CleanupPMU
    <3>2. QED
      BY <1>0, <1>15, <2>2, <3>1 DEF CleanupPMU, Knows, At, State, Before, Early, After, Others, IsLast
  <2>3. QED
    BY <1>15, <2>1, <2>2 DEF CleanupPMU
<1>16. CASE FreeRMID(p)
  <2>1. proc'[p] = [proc[p] EXCEPT !.pc = "gone"]
    BY <1>16, BecomesStep DEF FreeRMID, Die
  <2>2. QED
    BY <1>0, <1>16, <2>1 DEF FreeRMID, Die, Knows, At, State, Before, Early, After, Others, IsLast
<1>17. QED
  BY <1>0, <1>1, <1>2, <1>3, <1>4, <1>5, <1>6, <1>7, <1>8, <1>9, <1>10, <1>11, <1>12, <1>13, <1>14, <1>15, <1>16 DEF Act, Step

Holds(q) == proc[q].allow /\ proc[q].pc \in Holding
Keeps(q) == proc[q].allow /\ proc[q].pc \in Holding \cup {"cleanup", "killed"}

LEMMA LockStep ==
  ASSUME TypeOK, NEW p \in Procs, Act(p), \A q \in Procs : Knows(q), Locking
  PROVE  \/ lock' = lock /\ (Holds(p)' => lock = p) /\ (lock = p => Keeps(p)')
         \/ lock = Free /\ lock' = p /\ Holds(p)' /\ (Cleanup(p) \/ LockToProgram(p))
         \/ lock = p /\ lock' = Free /\ ~Holds(p)'
<1>0. /\ \A q \in Procs : q # p => proc'[q] = proc[q]
      /\ Knows(p) /\ proc[p] \in State /\ Free \notin Procs /\ lock \in Procs \cup {Free}
      /\ proc[p].allow /\ proc[p].pc \in Holding => lock = p
      /\ lock = p => proc[p].allow /\ proc[p].pc \in Holding \cup {"cleanup", "killed"}
  BY OthersStay, InstancesAssumption DEF TypeOK, Locking
<1>1. CASE GetInstance(p)
  <2>1. proc'[p] = [proc[p] EXCEPT !.pc = "constructing", !.mutex = TRUE]
    BY <1>1, BecomesStep DEF GetInstance
  <2>2. QED
    BY <1>0, <1>1, <2>1 DEF GetInstance, Holds, Keeps, Knows, At, State, Before, Early, Holding, CanLock
<1>2. CASE Constructed(p)
  <2>1. proc'[p] = [proc[p] EXCEPT !.pc = "made", !.mutex = FALSE]
    BY <1>2, BecomesStep DEF Constructed
  <2>2. QED
    BY <1>0, <1>2, <2>1 DEF Constructed, Holds, Keeps, Knows, At, State, Before, Early, Holding, CanLock
<1>3. CASE Prepare(p)
  <2>1. proc'[p] = [proc[p] EXCEPT !.pc = "ready", !.allow = option[p].allow]
    BY <1>3, BecomesStep DEF Prepare
  <2>2. QED
    BY <1>0, <1>3, <2>1 DEF Prepare, Holds, Keeps, Knows, At, State, Before, Early, Holding, CanLock
<1>4. CASE LockToProgram(p)
  <2>1. proc'[p] = [proc[p] EXCEPT !.pc = "locked", !.mutex = ~proc[p].allow]
    BY <1>4, BecomesStep DEF LockToProgram
  <2>2. QED
    BY <1>0, <1>4, <2>1 DEF LockToProgram, TakeLock, Holds, Keeps, Knows, At, State, Before, Early, Holding, CanLock
<1>5. CASE Join(p)
  <2>1. proc'[p] = [proc[p] EXCEPT !.pc = "measuring", !.sem = TRUE]
    BY <1>5, BecomesStep DEF Join
  <2>2. QED
    BY <1>0, <1>5, <2>1 DEF Join, GiveLock, Holds, Keeps, Knows, At, State, Before, Early, Holding, CanLock
<1>6. CASE RefusePerf(p)
  <2>1. proc'[p] = [proc[p] EXCEPT !.pc = "refused", !.refused = TRUE, !.core = 1,
               !.mutex = FALSE, !.sem = proc[p].allow]
    BY <1>6, BecomesStep DEF RefusePerf, Refuse
  <2>2. QED
    BY <1>0, <1>6, <2>1 DEF RefusePerf, Refuse, GiveLock, Holds, Keeps, Knows, At, State, Before, Early, Holding, CanLock
<1>7. CASE BeFirst(p)
  <2>1. proc'[p] = [proc[p] EXCEPT !.pc = IF canUsePerf THEN "programming" ELSE "checking",
               !.sem = proc[p].allow, !.programmed = canUsePerf]
    BY <1>7, BecomesStep DEF BeFirst
  <2>2. QED
    BY <1>0, <1>7, <2>1 DEF BeFirst, Holds, Keeps, Knows, At, State, Before, Early, Holding, CanLock
<1>8. CASE CheckCore(p)
  <2>1. CASE pmu[proc[p].core]
    <3>1. proc'[p] = [proc[p] EXCEPT !.pc = "refused", !.refused = TRUE, !.core = 1,
               !.mutex = FALSE, !.sem = proc[p].allow]
      BY <1>8, <2>1, BecomesStep DEF CheckCore, Refuse
    <3>2. QED
      BY <1>0, <1>8, <2>1, <3>1 DEF CheckCore, Refuse, GiveLock, Holds, Keeps, Knows, At, State, Before, Early, Holding, CanLock
  <2>2. CASE ~pmu[proc[p].core] /\ proc[p].core < NumCores
    <3>1. proc'[p] = [proc[p] EXCEPT !.core = proc[p].core + 1]
      BY <1>8, <2>2, BecomesStep DEF CheckCore, Refuse
    <3>2. QED
      BY <1>0, <1>8, <2>2, <3>1 DEF CheckCore, Refuse, GiveLock, Holds, Keeps, Knows, At, State, Before, Early, Holding, CanLock
  <2>3. CASE ~pmu[proc[p].core] /\ ~(proc[p].core < NumCores)
    <3>1. proc'[p] = [proc[p] EXCEPT !.pc = "programming", !.programmed = TRUE, !.core = 1]
      BY <1>8, <2>3, BecomesStep DEF CheckCore, Refuse
    <3>2. QED
      BY <1>0, <1>8, <2>3, <3>1 DEF CheckCore, Refuse, GiveLock, Holds, Keeps, Knows, At, State, Before, Early, Holding, CanLock
  <2>4. QED
    BY <1>8, <2>1, <2>2, <2>3 DEF CheckCore
<1>9. CASE ProgramCore(p)
  <2>1. CASE proc[p].core < NumCores
    <3>1. proc'[p] = [proc[p] EXCEPT !.core = proc[p].core + 1]
      BY <1>9, <2>1, BecomesStep DEF ProgramCore
    <3>2. QED
      BY <1>0, <1>9, <2>1, <3>1 DEF ProgramCore, GiveLock, Holds, Keeps, Knows, At, State, Before, Early, Holding, CanLock
  <2>2. CASE ~(proc[p].core < NumCores)
    <3>1. proc'[p] = [proc[p] EXCEPT !.pc = "measuring", !.core = 1, !.mutex = FALSE]
      BY <1>9, <2>2, BecomesStep DEF ProgramCore
    <3>2. QED
      BY <1>0, <1>9, <2>2, <3>1 DEF ProgramCore, GiveLock, Holds, Keeps, Knows, At, State, Before, Early, Holding, CanLock
  <2>3. QED
    BY <1>9, <2>1, <2>2 DEF ProgramCore
<1>10. CASE PerfFails(p)
  <2>1. proc'[p] = [proc[p] EXCEPT !.pc = "refused", !.refused = TRUE, !.core = 1,
               !.mutex = FALSE, !.sem = proc[p].allow]
    BY <1>10, BecomesStep DEF PerfFails, Refuse
  <2>2. QED
    BY <1>0, <1>10, <2>1 DEF PerfFails, Refuse, GiveLock, Holds, Keeps, Knows, At, State, Before, Early, Holding, CanLock
<1>11. CASE Exit(p)
  <2>1. CASE option[p].handlers
    <3>1. proc'[p] = [proc[p] EXCEPT !.pc = "cleanup"]
      BY <1>11, <2>1, BecomesStep DEF Exit, Die
    <3>2. QED
      BY <1>0, <1>11, <2>1, <3>1 DEF Exit, Die, Holds, Keeps, Knows, At, State, Before, Early, Holding, CanLock
  <2>2. CASE ~option[p].handlers
    <3>1. proc'[p] = [proc[p] EXCEPT !.pc = "gone"]
      BY <1>11, <2>2, BecomesStep DEF Exit, Die
    <3>2. QED
      BY <1>0, <1>11, <2>2, <3>1 DEF Exit, Die, Holds, Keeps, Knows, At, State, Before, Early, Holding, CanLock
  <2>3. QED
    BY <1>11, <2>1, <2>2 DEF Exit
<1>12. CASE Signal(p)
  <2>1. proc'[p] = [proc[p] EXCEPT !.pc = "cleanup", !.core = 1]
    BY <1>12, BecomesStep DEF Signal
  <2>2. QED
    BY <1>0, <1>12, <2>1 DEF Signal, Holds, Keeps, Knows, At, State, Before, Early, Holding, CanLock
<1>13. CASE Kill(p)
  <2>1. proc'[p] = [proc[p] EXCEPT !.pc = "killed", !.core = 1]
    BY <1>13, BecomesStep DEF Kill
  <2>2. QED
    BY <1>0, <1>13, <2>1 DEF Kill, Holds, Keeps, Knows, At, State, Before, Early, Holding, CanLock
<1>14. CASE Cleanup(p)
  <2>1. proc'[p] = [proc[p] EXCEPT !.pc = IF IsLast(p) THEN "zeroing" ELSE "freeing",
               !.mutex = ~proc[p].allow, !.cleaned = TRUE, !.core = 1]
    BY <1>14, BecomesStep DEF Cleanup
  <2>2. QED
    BY <1>0, <1>14, <2>1 DEF Cleanup, TakeLock, Holds, Keeps, Knows, At, State, Before, Early, Holding, CanLock
<1>15. CASE CleanupPMU(p)
  <2>1. CASE proc[p].core < NumCores
    <3>1. proc'[p] = [proc[p] EXCEPT !.core = proc[p].core + 1]
      BY <1>15, <2>1, BecomesStep DEF CleanupPMU
    <3>2. QED
      BY <1>0, <1>15, <2>1, <3>1 DEF CleanupPMU, Holds, Keeps, Knows, At, State, Before, Early, Holding, CanLock
  <2>2. CASE ~(proc[p].core < NumCores)
    <3>1. proc'[p] = [proc[p] EXCEPT !.pc = "freeing", !.core = 1]
      BY <1>15, <2>2, BecomesStep DEF CleanupPMU
    <3>2. QED
      BY <1>0, <1>15, <2>2, <3>1 DEF CleanupPMU, Holds, Keeps, Knows, At, State, Before, Early, Holding, CanLock
  <2>3. QED
    BY <1>15, <2>1, <2>2 DEF CleanupPMU
<1>16. CASE FreeRMID(p)
  <2>1. proc'[p] = [proc[p] EXCEPT !.pc = "gone"]
    BY <1>16, BecomesStep DEF FreeRMID, Die
  <2>2. QED
    BY <1>0, <1>16, <2>1 DEF FreeRMID, Die, GiveLock, Holds, Keeps, Knows, At, State, Before, Early, Holding, CanLock
<1>17. QED
  BY <1>0, <1>1, <1>2, <1>3, <1>4, <1>5, <1>6, <1>7, <1>8, <1>9, <1>10, <1>11, <1>12, <1>13, <1>14, <1>15, <1>16 DEF Act, Step

LEMMA LockingStep ==
  ASSUME TypeOK, NEW p \in Procs, Act(p), \A q \in Procs : Knows(q), Locking
  PROVE  Locking'
<1>0. /\ \A q \in Procs : q # p => proc'[q] = proc[q]
      /\ Free \notin Procs /\ lock \in Procs \cup {Free}
  BY OthersStay, InstancesAssumption DEF TypeOK
<1>1. CASE lock' = lock /\ (Holds(p)' => lock = p) /\ (lock = p => Keeps(p)')
  BY <1>0, <1>1 DEF Locking, Holds, Keeps
<1>2. CASE lock = Free /\ lock' = p /\ Holds(p)'
  BY <1>0, <1>2 DEF Locking, Holds, Keeps
<1>3. CASE lock = p /\ lock' = Free /\ ~Holds(p)'
  BY <1>0, <1>3 DEF Locking, Holds, Keeps
<1>4. QED
  BY <1>1, <1>2, <1>3, LockStep

(* Who counts in and out does so while nobody else holds the lock.          *)
Enters(p) == proc[p].allow /\ (Join(p) \/ RefusePerf(p) \/ BeFirst(p))
Leaves(p) == Cleanup(p) /\ p \in Counted

LEMMA CountsAtWork ==
  ASSUME TypeOK, NEW p \in Procs, Enters(p) \/ Leaves(p)
  PROVE  proc'[p].pc \notin {"cleanup", "killed"}
<1>0. proc[p] \in State
  BY DEF TypeOK
<1>1. CASE Cleanup(p)
  <2>1. proc'[p] = [proc[p] EXCEPT !.pc = IF IsLast(p) THEN "zeroing" ELSE "freeing",
             !.mutex = ~proc[p].allow, !.cleaned = TRUE, !.core = 1]
    BY <1>1, BecomesStep DEF Cleanup
  <2>2. QED
    BY <1>0, <2>1 DEF State
<1>2. CASE Join(p)
  <2>1. proc'[p] = [proc[p] EXCEPT !.pc = "measuring", !.sem = TRUE]
    BY <1>2, BecomesStep DEF Join
  <2>2. QED
    BY <1>0, <2>1 DEF State
<1>3. CASE RefusePerf(p)
  <2>1. proc'[p] = [proc[p] EXCEPT !.pc = "refused", !.refused = TRUE, !.core = 1,
             !.mutex = FALSE, !.sem = proc[p].allow]
    BY <1>3, BecomesStep DEF RefusePerf, Refuse
  <2>2. QED
    BY <1>0, <2>1 DEF State
<1>4. CASE BeFirst(p)
  <2>1. proc'[p] = [proc[p] EXCEPT !.pc = IF canUsePerf THEN "programming" ELSE "checking",
             !.sem = proc[p].allow, !.programmed = canUsePerf]
    BY <1>4, BecomesStep DEF BeFirst
  <2>2. QED
    BY <1>0, <2>1 DEF State
<1>5. QED
  BY <1>1, <1>2, <1>3, <1>4 DEF Enters, Leaves

LEMMA CountedStep ==
  ASSUME TypeOK, NEW p \in Procs, Act(p), Knows(p)
  PROVE  /\ Enters(p) => p \notin Counted /\ Counted' = Counted \cup {p}
         /\ Leaves(p) => Counted' = Counted \ {p}
         /\ ~Enters(p) /\ ~Leaves(p) => Counted' = Counted
<1> DEFINE Was == proc[p].allow /\ proc[p].sem /\ ~proc[p].cleaned
           Is == proc'[p].allow /\ proc'[p].sem /\ ~proc'[p].cleaned
<1>0. /\ \A q \in Procs : q # p => proc'[q] = proc[q]
      /\ Knows(p) /\ proc[p] \in State
      /\ option' = option /\ canUsePerf' = canUsePerf
  BY OthersStay DEF TypeOK
<1> SUFFICES /\ Enters(p) => ~Was /\ Is
             /\ Leaves(p) => ~Is
             /\ ~Enters(p) /\ ~Leaves(p) => (Is <=> Was)
  BY <1>0 DEF Counted, Leaves
<1>a. /\ Leaves(p) => Was /\ At(p, "cleanup")
      /\ Enters(p) => At(p, "locked") /\ proc[p].allow
      /\ Cleanup(p) => (Leaves(p) <=> Was)
      /\ BeFirst(p) => (Enters(p) <=> proc[p].allow)
      /\ Join(p) \/ RefusePerf(p) => Enters(p)
  BY DEF Leaves, Counted, Enters, Cleanup, Join, RefusePerf, BeFirst, Others
<1>1. CASE GetInstance(p)
  <2>1. proc'[p] = [proc[p] EXCEPT !.pc = "constructing", !.mutex = TRUE]
    BY <1>1, BecomesStep DEF GetInstance
  <2>2. QED
    BY <1>0, <1>1, <2>1, <1>a, CountsAtWork DEF GetInstance, Knows, At, State, Before, Early, After, Others
<1>2. CASE Constructed(p)
  <2>1. proc'[p] = [proc[p] EXCEPT !.pc = "made", !.mutex = FALSE]
    BY <1>2, BecomesStep DEF Constructed
  <2>2. QED
    BY <1>0, <1>2, <2>1, <1>a, CountsAtWork DEF Constructed, Knows, At, State, Before, Early, After, Others
<1>3. CASE Prepare(p)
  <2>1. proc'[p] = [proc[p] EXCEPT !.pc = "ready", !.allow = option[p].allow]
    BY <1>3, BecomesStep DEF Prepare
  <2>2. QED
    BY <1>0, <1>3, <2>1, <1>a, CountsAtWork DEF Prepare, Knows, At, State, Before, Early, After, Others
<1>4. CASE LockToProgram(p)
  <2>1. proc'[p] = [proc[p] EXCEPT !.pc = "locked", !.mutex = ~proc[p].allow]
    BY <1>4, BecomesStep DEF LockToProgram
  <2>2. QED
    BY <1>0, <1>4, <2>1, <1>a, CountsAtWork DEF LockToProgram, Knows, At, State, Before, Early, After, Others
<1>5. CASE Join(p)
  <2>1. proc'[p] = [proc[p] EXCEPT !.pc = "measuring", !.sem = TRUE]
    BY <1>5, BecomesStep DEF Join
  <2>2. QED
    BY <1>0, <1>5, <2>1, <1>a, CountsAtWork DEF Join, Knows, At, State, Before, Early, After, Others
<1>6. CASE RefusePerf(p)
  <2>1. proc'[p] = [proc[p] EXCEPT !.pc = "refused", !.refused = TRUE, !.core = 1,
               !.mutex = FALSE, !.sem = proc[p].allow]
    BY <1>6, BecomesStep DEF RefusePerf, Refuse
  <2>2. QED
    BY <1>0, <1>6, <2>1, <1>a, CountsAtWork DEF RefusePerf, Refuse, Knows, At, State, Before, Early, After, Others
<1>7. CASE BeFirst(p)
  <2>1. proc'[p] = [proc[p] EXCEPT !.pc = IF canUsePerf THEN "programming" ELSE "checking",
               !.sem = proc[p].allow, !.programmed = canUsePerf]
    BY <1>7, BecomesStep DEF BeFirst
  <2>2. QED
    BY <1>0, <1>7, <2>1, <1>a, CountsAtWork DEF BeFirst, Knows, At, State, Before, Early, After, Others
<1>8. CASE CheckCore(p)
  <2>1. CASE pmu[proc[p].core]
    <3>1. proc'[p] = [proc[p] EXCEPT !.pc = "refused", !.refused = TRUE, !.core = 1,
               !.mutex = FALSE, !.sem = proc[p].allow]
      BY <1>8, <2>1, BecomesStep DEF CheckCore, Refuse
    <3>2. QED
      BY <1>0, <1>8, <2>1, <3>1, <1>a, CountsAtWork DEF CheckCore, Refuse, Knows, At, State, Before, Early, After, Others
  <2>2. CASE ~pmu[proc[p].core] /\ proc[p].core < NumCores
    <3>1. proc'[p] = [proc[p] EXCEPT !.core = proc[p].core + 1]
      BY <1>8, <2>2, BecomesStep DEF CheckCore, Refuse
    <3>2. QED
      BY <1>0, <1>8, <2>2, <3>1, <1>a, CountsAtWork DEF CheckCore, Refuse, Knows, At, State, Before, Early, After, Others
  <2>3. CASE ~pmu[proc[p].core] /\ ~(proc[p].core < NumCores)
    <3>1. proc'[p] = [proc[p] EXCEPT !.pc = "programming", !.programmed = TRUE, !.core = 1]
      BY <1>8, <2>3, BecomesStep DEF CheckCore, Refuse
    <3>2. QED
      BY <1>0, <1>8, <2>3, <3>1, <1>a, CountsAtWork DEF CheckCore, Refuse, Knows, At, State, Before, Early, After, Others
  <2>4. QED
    BY <1>8, <2>1, <2>2, <2>3 DEF CheckCore
<1>9. CASE ProgramCore(p)
  <2>1. CASE proc[p].core < NumCores
    <3>1. proc'[p] = [proc[p] EXCEPT !.core = proc[p].core + 1]
      BY <1>9, <2>1, BecomesStep DEF ProgramCore
    <3>2. QED
      BY <1>0, <1>9, <2>1, <3>1, <1>a, CountsAtWork DEF ProgramCore, Knows, At, State, Before, Early, After, Others
  <2>2. CASE ~(proc[p].core < NumCores)
    <3>1. proc'[p] = [proc[p] EXCEPT !.pc = "measuring", !.core = 1, !.mutex = FALSE]
      BY <1>9, <2>2, BecomesStep DEF ProgramCore
    <3>2. QED
      BY <1>0, <1>9, <2>2, <3>1, <1>a, CountsAtWork DEF ProgramCore, Knows, At, State, Before, Early, After, Others
  <2>3. QED
    BY <1>9, <2>1, <2>2 DEF ProgramCore
<1>10. CASE PerfFails(p)
  <2>1. proc'[p] = [proc[p] EXCEPT !.pc = "refused", !.refused = TRUE, !.core = 1,
               !.mutex = FALSE, !.sem = proc[p].allow]
    BY <1>10, BecomesStep DEF PerfFails, Refuse
  <2>2. QED
    BY <1>0, <1>10, <2>1, <1>a, CountsAtWork DEF PerfFails, Refuse, Knows, At, State, Before, Early, After, Others
<1>11. CASE Exit(p)
  <2>1. CASE option[p].handlers
    <3>1. proc'[p] = [proc[p] EXCEPT !.pc = "cleanup"]
      BY <1>11, <2>1, BecomesStep DEF Exit, Die
    <3>2. QED
      BY <1>0, <1>11, <2>1, <3>1, <1>a, CountsAtWork DEF Exit, Die, Knows, At, State, Before, Early, After, Others
  <2>2. CASE ~option[p].handlers
    <3>1. proc'[p] = [proc[p] EXCEPT !.pc = "gone"]
      BY <1>11, <2>2, BecomesStep DEF Exit, Die
    <3>2. QED
      BY <1>0, <1>11, <2>2, <3>1, <1>a, CountsAtWork DEF Exit, Die, Knows, At, State, Before, Early, After, Others
  <2>3. QED
    BY <1>11, <2>1, <2>2 DEF Exit
<1>12. CASE Signal(p)
  <2>1. proc'[p] = [proc[p] EXCEPT !.pc = "cleanup", !.core = 1]
    BY <1>12, BecomesStep DEF Signal
  <2>2. QED
    BY <1>0, <1>12, <2>1, <1>a, CountsAtWork DEF Signal, Knows, At, State, Before, Early, After, Others
<1>13. CASE Kill(p)
  <2>1. proc'[p] = [proc[p] EXCEPT !.pc = "killed", !.core = 1]
    BY <1>13, BecomesStep DEF Kill
  <2>2. QED
    BY <1>0, <1>13, <2>1, <1>a, CountsAtWork DEF Kill, Knows, At, State, Before, Early, After, Others
<1>14. CASE Cleanup(p)
  <2>1. proc'[p] = [proc[p] EXCEPT !.pc = IF IsLast(p) THEN "zeroing" ELSE "freeing",
               !.mutex = ~proc[p].allow, !.cleaned = TRUE, !.core = 1]
    BY <1>14, BecomesStep DEF Cleanup
  <2>2. QED
    BY <1>0, <1>14, <2>1, <1>a, CountsAtWork DEF Cleanup, Knows, At, State, Before, Early, After, Others
<1>15. CASE CleanupPMU(p)
  <2>1. CASE proc[p].core < NumCores
    <3>1. proc'[p] = [proc[p] EXCEPT !.core = proc[p].core + 1]
      BY <1>15, <2>1, BecomesStep DEF CleanupPMU
    <3>2. QED
      BY <1>0, <1>15, <2>1, <3>1, <1>a, CountsAtWork DEF CleanupPMU, Knows, At, State, Before, Early, After, Others
  <2>2. CASE ~(proc[p].core < NumCores)
    <3>1. proc'[p] = [proc[p] EXCEPT !.pc = "freeing", !.core = 1]
      BY <1>15, <2>2, BecomesStep DEF CleanupPMU
    <3>2. QED
      BY <1>0, <1>15, <2>2, <3>1, <1>a, CountsAtWork DEF CleanupPMU, Knows, At, State, Before, Early, After, Others
  <2>3. QED
    BY <1>15, <2>1, <2>2 DEF CleanupPMU
<1>16. CASE FreeRMID(p)
  <2>1. proc'[p] = [proc[p] EXCEPT !.pc = "gone"]
    BY <1>16, BecomesStep DEF FreeRMID, Die
  <2>2. QED
    BY <1>0, <1>16, <2>1, <1>a, CountsAtWork DEF FreeRMID, Die, Knows, At, State, Before, Early, After, Others
<1>17. QED
  BY <1>0, <1>1, <1>2, <1>3, <1>4, <1>5, <1>6, <1>7, <1>8, <1>9, <1>10, <1>11, <1>12, <1>13, <1>14, <1>15, <1>16 DEF Act, Step

LEMMA CountStep ==
  ASSUME TypeOK, NEW p \in Procs, Act(p), Knows(p), Locking, Counting
  PROVE  /\ count' <= count \/ (Enters(p) /\ count' = count + 1)
         /\ Leaves(p) => count' = IF count > 0 THEN count - 1 ELSE 0
         /\ lock # Free /\ lock # p => count' = count /\ Counted' = Counted
         /\ proc'[p].allow /\ proc'[p].pc \in {"checking", "programming"} => count' = 1
<1>0. /\ Knows(p) /\ proc[p] \in State /\ count \in Nat
      /\ proc[p].allow /\ proc[p].pc \in Holding => lock = p
      /\ proc[p].allow /\ proc[p].pc \in {"checking", "programming"} => count = 1
      /\ ~Enters(p) /\ ~Leaves(p) => Counted' = Counted
  BY CountedStep DEF TypeOK, Locking, Counting
<1>a. /\ Leaves(p) => /\ proc[p].allow /\ proc[p].sem /\ ~proc[p].cleaned
                      /\ At(p, "cleanup") /\ lock = Free
      /\ Enters(p) => At(p, "locked") /\ proc[p].allow
      /\ Cleanup(p) /\ ~Leaves(p) => ~proc[p].allow \/ ~proc[p].sem \/ proc[p].cleaned
      /\ BeFirst(p) => (Enters(p) <=> proc[p].allow)
      /\ Join(p) \/ RefusePerf(p) => Enters(p)
  BY DEF Leaves, Counted, Enters, Cleanup, CanLock, Join, RefusePerf, BeFirst, Others
<1>1. CASE GetInstance(p)
  <2>1. proc'[p] = [proc[p] EXCEPT !.pc = "constructing", !.mutex = TRUE]
    BY <1>1, BecomesStep DEF GetInstance
  <2>2. QED
    BY <1>0, <1>1, <2>1, <1>a, CountsAtWork DEF GetInstance, Knows, At, State, Before, Early, Holding, Others, CanLock
<1>2. CASE Constructed(p)
  <2>1. proc'[p] = [proc[p] EXCEPT !.pc = "made", !.mutex = FALSE]
    BY <1>2, BecomesStep DEF Constructed
  <2>2. QED
    BY <1>0, <1>2, <2>1, <1>a, CountsAtWork DEF Constructed, Knows, At, State, Before, Early, Holding, Others, CanLock
<1>3. CASE Prepare(p)
  <2>1. proc'[p] = [proc[p] EXCEPT !.pc = "ready", !.allow = option[p].allow]
    BY <1>3, BecomesStep DEF Prepare
  <2>2. QED
    BY <1>0, <1>3, <2>1, <1>a, CountsAtWork DEF Prepare, Knows, At, State, Before, Early, Holding, Others, CanLock
<1>4. CASE LockToProgram(p)
  <2>1. proc'[p] = [proc[p] EXCEPT !.pc = "locked", !.mutex = ~proc[p].allow]
    BY <1>4, BecomesStep DEF LockToProgram
  <2>2. QED
    BY <1>0, <1>4, <2>1, <1>a, CountsAtWork DEF LockToProgram, Knows, At, State, Before, Early, Holding, Others, CanLock
<1>5. CASE Join(p)
  <2>1. proc'[p] = [proc[p] EXCEPT !.pc = "measuring", !.sem = TRUE]
    BY <1>5, BecomesStep DEF Join
  <2>2. QED
    BY <1>0, <1>5, <2>1, <1>a, CountsAtWork DEF Join, Knows, At, State, Before, Early, Holding, Others, CanLock
<1>6. CASE RefusePerf(p)
  <2>1. proc'[p] = [proc[p] EXCEPT !.pc = "refused", !.refused = TRUE, !.core = 1,
               !.mutex = FALSE, !.sem = proc[p].allow]
    BY <1>6, BecomesStep DEF RefusePerf, Refuse
  <2>2. QED
    BY <1>0, <1>6, <2>1, <1>a, CountsAtWork DEF RefusePerf, Refuse, Knows, At, State, Before, Early, Holding, Others, CanLock
<1>7. CASE BeFirst(p)
  <2>1. proc'[p] = [proc[p] EXCEPT !.pc = IF canUsePerf THEN "programming" ELSE "checking",
               !.sem = proc[p].allow, !.programmed = canUsePerf]
    BY <1>7, BecomesStep DEF BeFirst
  <2>2. QED
    BY <1>0, <1>7, <2>1, <1>a, CountsAtWork DEF BeFirst, Knows, At, State, Before, Early, Holding, Others, CanLock
<1>8. CASE CheckCore(p)
  <2>1. CASE pmu[proc[p].core]
    <3>1. proc'[p] = [proc[p] EXCEPT !.pc = "refused", !.refused = TRUE, !.core = 1,
               !.mutex = FALSE, !.sem = proc[p].allow]
      BY <1>8, <2>1, BecomesStep DEF CheckCore, Refuse
    <3>2. QED
      BY <1>0, <1>8, <2>1, <3>1, <1>a, CountsAtWork DEF CheckCore, Refuse, CountOut, Knows, At, State, Before, Early, Holding, Others, CanLock
  <2>2. CASE ~pmu[proc[p].core] /\ proc[p].core < NumCores
    <3>1. proc'[p] = [proc[p] EXCEPT !.core = proc[p].core + 1]
      BY <1>8, <2>2, BecomesStep DEF CheckCore, Refuse
    <3>2. QED
      BY <1>0, <1>8, <2>2, <3>1, <1>a, CountsAtWork DEF CheckCore, Refuse, CountOut, Knows, At, State, Before, Early, Holding, Others, CanLock
  <2>3. CASE ~pmu[proc[p].core] /\ ~(proc[p].core < NumCores)
    <3>1. proc'[p] = [proc[p] EXCEPT !.pc = "programming", !.programmed = TRUE, !.core = 1]
      BY <1>8, <2>3, BecomesStep DEF CheckCore, Refuse
    <3>2. QED
      BY <1>0, <1>8, <2>3, <3>1, <1>a, CountsAtWork DEF CheckCore, Refuse, CountOut, Knows, At, State, Before, Early, Holding, Others, CanLock
  <2>4. QED
    BY <1>8, <2>1, <2>2, <2>3 DEF CheckCore
<1>9. CASE ProgramCore(p)
  <2>1. CASE proc[p].core < NumCores
    <3>1. proc'[p] = [proc[p] EXCEPT !.core = proc[p].core + 1]
      BY <1>9, <2>1, BecomesStep DEF ProgramCore
    <3>2. QED
      BY <1>0, <1>9, <2>1, <3>1, <1>a, CountsAtWork DEF ProgramCore, Knows, At, State, Before, Early, Holding, Others, CanLock
  <2>2. CASE ~(proc[p].core < NumCores)
    <3>1. proc'[p] = [proc[p] EXCEPT !.pc = "measuring", !.core = 1, !.mutex = FALSE]
      BY <1>9, <2>2, BecomesStep DEF ProgramCore
    <3>2. QED
      BY <1>0, <1>9, <2>2, <3>1, <1>a, CountsAtWork DEF ProgramCore, Knows, At, State, Before, Early, Holding, Others, CanLock
  <2>3. QED
    BY <1>9, <2>1, <2>2 DEF ProgramCore
<1>10. CASE PerfFails(p)
  <2>1. proc'[p] = [proc[p] EXCEPT !.pc = "refused", !.refused = TRUE, !.core = 1,
               !.mutex = FALSE, !.sem = proc[p].allow]
    BY <1>10, BecomesStep DEF PerfFails, Refuse
  <2>2. QED
    BY <1>0, <1>10, <2>1, <1>a, CountsAtWork DEF PerfFails, Refuse, CountOut, Knows, At, State, Before, Early, Holding, Others, CanLock
<1>11. CASE Exit(p)
  <2>1. CASE option[p].handlers
    <3>1. proc'[p] = [proc[p] EXCEPT !.pc = "cleanup"]
      BY <1>11, <2>1, BecomesStep DEF Exit, Die
    <3>2. QED
      BY <1>0, <1>11, <2>1, <3>1, <1>a, CountsAtWork DEF Exit, Die, Knows, At, State, Before, Early, Holding, Others, CanLock
  <2>2. CASE ~option[p].handlers
    <3>1. proc'[p] = [proc[p] EXCEPT !.pc = "gone"]
      BY <1>11, <2>2, BecomesStep DEF Exit, Die
    <3>2. QED
      BY <1>0, <1>11, <2>2, <3>1, <1>a, CountsAtWork DEF Exit, Die, Knows, At, State, Before, Early, Holding, Others, CanLock
  <2>3. QED
    BY <1>11, <2>1, <2>2 DEF Exit
<1>12. CASE Signal(p)
  <2>1. proc'[p] = [proc[p] EXCEPT !.pc = "cleanup", !.core = 1]
    BY <1>12, BecomesStep DEF Signal
  <2>2. QED
    BY <1>0, <1>12, <2>1, <1>a, CountsAtWork DEF Signal, Knows, At, State, Before, Early, Holding, Others, CanLock
<1>13. CASE Kill(p)
  <2>1. proc'[p] = [proc[p] EXCEPT !.pc = "killed", !.core = 1]
    BY <1>13, BecomesStep DEF Kill
  <2>2. proc'[p].pc = "killed"
    BY <1>0, <2>1 DEF State
  <2>3. ~Enters(p) /\ ~Leaves(p)
    BY <2>2, CountsAtWork
  <2>4. QED
    BY <1>0, <1>13, <2>2, <2>3 DEF Kill
<1>14. CASE Cleanup(p)
  <2>1. proc'[p] = [proc[p] EXCEPT !.pc = IF IsLast(p) THEN "zeroing" ELSE "freeing",
               !.mutex = ~proc[p].allow, !.cleaned = TRUE, !.core = 1]
    BY <1>14, BecomesStep DEF Cleanup
  <2>2. QED
    BY <1>0, <1>14, <2>1, <1>a, CountsAtWork DEF Cleanup, CountOut, Knows, At, State, Before, Early, Holding, Others, CanLock
<1>15. CASE CleanupPMU(p)
  <2>1. CASE proc[p].core < NumCores
    <3>1. proc'[p] = [proc[p] EXCEPT !.core = proc[p].core + 1]
      BY <1>15, <2>1, BecomesStep DEF CleanupPMU
    <3>2. QED
      BY <1>0, <1>15, <2>1, <3>1, <1>a, CountsAtWork DEF CleanupPMU, Knows, At, State, Before, Early, Holding, Others, CanLock
  <2>2. CASE ~(proc[p].core < NumCores)
    <3>1. proc'[p] = [proc[p] EXCEPT !.pc = "freeing", !.core = 1]
      BY <1>15, <2>2, BecomesStep DEF CleanupPMU
    <3>2. QED
      BY <1>0, <1>15, <2>2, <3>1, <1>a, CountsAtWork DEF CleanupPMU, Knows, At, State, Before, Early, Holding, Others, CanLock
  <2>3. QED
    BY <1>15, <2>1, <2>2 DEF CleanupPMU
<1>16. CASE FreeRMID(p)
  <2>1. proc'[p] = [proc[p] EXCEPT !.pc = "gone"]
    BY <1>16, BecomesStep DEF FreeRMID, Die
  <2>2. QED
    BY <1>0, <1>16, <2>1, <1>a, CountsAtWork DEF FreeRMID, Die, Knows, At, State, Before, Early, Holding, Others, CanLock
<1>17. QED
  BY <1>0, <1>1, <1>2, <1>3, <1>4, <1>5, <1>6, <1>7, <1>8, <1>9, <1>10, <1>11, <1>12, <1>13, <1>14, <1>15, <1>16 DEF Act, Step

LEMMA CountingStep ==
  ASSUME TypeOK, NEW p \in Procs, Act(p), Knows(p), Locking, Counting
  PROVE  Counting'
<1> DEFINE Counts(q) == proc[q].allow /\ proc[q].pc \in {"checking", "programming"}
<1>1. count \in Nat /\ count' \in Nat /\ IsFiniteSet(Counted) /\ Cardinality(Counted) \in Nat
  BY TypeStep, FS_CardinalityType DEF TypeOK, Counting
<1>2. IsFiniteSet(Counted') /\ count' <= Cardinality(Counted')
  <2>1. CASE Enters(p)
    <3>1. IsFiniteSet(Counted') /\ Cardinality(Counted') = Cardinality(Counted) + 1
      BY <1>1, <2>1, CountedStep, FS_AddElement
    <3>2. QED
      BY <1>1, <2>1, <3>1, CountStep DEF Counting
  <2>2. CASE Leaves(p)
    <3>1. /\ IsFiniteSet(Counted') /\ Cardinality(Counted') = Cardinality(Counted) - 1
          /\ Cardinality(Counted') \in Nat
      BY <1>1, <2>2, CountedStep, FS_RemoveElement, FS_CardinalityType DEF Leaves
    <3>2. QED
      BY <1>1, <2>2, <3>1, CountStep DEF Counting
  <2>3. CASE ~Enters(p) /\ ~Leaves(p)
    BY <1>1, <2>3, CountedStep, CountStep DEF Counting
  <2>4. QED
    BY <2>1, <2>2, <2>3
<1>3. \A q \in Procs : Counts(q)' => count' = 1
  <2> SUFFICES ASSUME NEW q \in Procs, q # p, Counts(q)'
               PROVE  count' = 1
    BY CountStep
  <2>1. Counts(q)
    BY OthersStay
  <2>2. lock = q /\ count = 1
    BY <2>1 DEF Locking, Counting, Holding
  <2>3. QED
    BY <2>2, CountStep, InstancesAssumption
<1>4. QED
  BY <1>2, <1>3 DEF Counting

(* What p cannot forget, and which of its steps touch what.                 *)
LEMMA OwnStep ==
  ASSUME TypeOK, NEW p \in Procs, Act(p), Knows(p)
  PROVE  /\ proc[p].pc \notin {"gone", "killed"}
         /\ proc[p].refused => proc'[p].refused
         /\ proc[p].programmed => proc'[p].programmed
         /\ proc[p].cleaned => proc'[p].cleaned /\ proc'[p].sem = proc[p].sem
         /\ proc[p].pc \notin Early => /\ proc'[p].allow = proc[p].allow
                                       /\ proc'[p].pc \notin Early
         /\ proc'[p].pc = "checking" /\ proc'[p].allow
              => (At(p, "checking") /\ proc[p].allow) \/ count = 0
         /\ \/ count' = count \/ Enters(p) \/ Leaves(p)
            \/ proc[p].allow /\ (CheckCore(p) \/ PerfFails(p))
         /\ \/ proc'[p].refused = proc[p].refused
            \/ RefusePerf(p) \/ CheckCore(p) \/ PerfFails(p)
<1>0. /\ Knows(p) /\ proc[p] \in State /\ canUsePerf \in BOOLEAN /\ count \in Nat
  BY DEF TypeOK
<1>a. /\ BeFirst(p) => (Enters(p) <=> proc[p].allow)
      /\ Join(p) \/ RefusePerf(p) => Enters(p)
      /\ Cleanup(p) /\ ~Leaves(p) => ~proc[p].allow \/ ~proc[p].sem \/ proc[p].cleaned
  BY DEF Enters, Leaves, Counted, Join, RefusePerf, Others
<1>1. CASE GetInstance(p)
  <2>1. proc'[p] = [proc[p] EXCEPT !.pc = "constructing", !.mutex = TRUE]
    BY <1>1, BecomesStep DEF GetInstance
  <2>2. QED
    BY <1>0, <1>1, <2>1, <1>a DEF GetInstance, Knows, At, State, Before, Early, After, Others
<1>2. CASE Constructed(p)
  <2>1. proc'[p] = [proc[p] EXCEPT !.pc = "made", !.mutex = FALSE]
    BY <1>2, BecomesStep DEF Constructed
  <2>2. QED
    BY <1>0, <1>2, <2>1, <1>a DEF Constructed, Knows, At, State, Before, Early, After, Others
<1>3. CASE Prepare(p)
  <2>1. proc'[p] = [proc[p] EXCEPT !.pc = "ready", !.allow = option[p].allow]
    BY <1>3, BecomesStep DEF Prepare
  <2>2. QED
    BY <1>0, <1>3, <2>1, <1>a DEF Prepare, Knows, At, State, Before, Early, After, Others
<1>4. CASE LockToProgram(p)
  <2>1. proc'[p] = [proc[p] EXCEPT !.pc = "locked", !.mutex = ~proc[p].allow]
    BY <1>4, BecomesStep DEF LockToProgram
  <2>2. QED
    BY <1>0, <1>4, <2>1, <1>a DEF LockToProgram, Knows, At, State, Before, Early, After, Others
<1>5. CASE Join(p)
  <2>1. proc'[p] = [proc[p] EXCEPT !.pc = "measuring", !.sem = TRUE]
    BY <1>5, BecomesStep DEF Join
  <2>2. QED
    BY <1>0, <1>5, <2>1, <1>a DEF Join, Knows, At, State, Before, Early, After, Others
<1>6. CASE RefusePerf(p)
  <2>1. proc'[p] = [proc[p] EXCEPT !.pc = "refused", !.refused = TRUE, !.core = 1,
               !.mutex = FALSE, !.sem = proc[p].allow]
    BY <1>6, BecomesStep DEF RefusePerf, Refuse
  <2>2. QED
    BY <1>0, <1>6, <2>1, <1>a DEF RefusePerf, Refuse, Knows, At, State, Before, Early, After, Others
<1>7. CASE BeFirst(p)
  <2>1. proc'[p] = [proc[p] EXCEPT !.pc = IF canUsePerf THEN "programming" ELSE "checking",
               !.sem = proc[p].allow, !.programmed = canUsePerf]
    BY <1>7, BecomesStep DEF BeFirst
  <2>2. QED
    BY <1>0, <1>7, <2>1, <1>a DEF BeFirst, Knows, At, State, Before, Early, After, Others
<1>8. CASE CheckCore(p)
  <2>1. CASE pmu[proc[p].core]
    <3>1. proc'[p] = [proc[p] EXCEPT !.pc = "refused", !.refused = TRUE, !.core = 1,
               !.mutex = FALSE, !.sem = proc[p].allow]
      BY <1>8, <2>1, BecomesStep DEF CheckCore, Refuse
    <3>2. QED
      BY <1>0, <1>8, <2>1, <3>1, <1>a DEF CheckCore, Refuse, CountOut, Knows, At, State, Before, Early, After, Others
  <2>2. CASE ~pmu[proc[p].core] /\ proc[p].core < NumCores
    <3>1. proc'[p] = [proc[p] EXCEPT !.core = proc[p].core + 1]
      BY <1>8, <2>2, BecomesStep DEF CheckCore, Refuse
    <3>2. QED
      BY <1>0, <1>8, <2>2, <3>1, <1>a DEF CheckCore, Refuse, CountOut, Knows, At, State, Before, Early, After, Others
  <2>3. CASE ~pmu[proc[p].core] /\ ~(proc[p].core < NumCores)
    <3>1. proc'[p] = [proc[p] EXCEPT !.pc = "programming", !.programmed = TRUE, !.core = 1]
      BY <1>8, <2>3, BecomesStep DEF CheckCore, Refuse
    <3>2. QED
      BY <1>0, <1>8, <2>3, <3>1, <1>a DEF CheckCore, Refuse, CountOut, Knows, At, State, Before, Early, After, Others
  <2>4. QED
    BY <1>8, <2>1, <2>2, <2>3 DEF CheckCore
<1>9. CASE ProgramCore(p)
  <2>1. CASE proc[p].core < NumCores
    <3>1. proc'[p] = [proc[p] EXCEPT !.core = proc[p].core + 1]
      BY <1>9, <2>1, BecomesStep DEF ProgramCore
    <3>2. QED
      BY <1>0, <1>9, <2>1, <3>1, <1>a DEF ProgramCore, Knows, At, State, Before, Early, After, Others
  <2>2. CASE ~(proc[p].core < NumCores)
    <3>1. proc'[p] = [proc[p] EXCEPT !.pc = "measuring", !.core = 1, !.mutex = FALSE]
      BY <1>9, <2>2, BecomesStep DEF ProgramCore
    <3>2. QED
      BY <1>0, <1>9, <2>2, <3>1, <1>a DEF ProgramCore, Knows, At, State, Before, Early, After, Others
  <2>3. QED
    BY <1>9, <2>1, <2>2 DEF ProgramCore
<1>10. CASE PerfFails(p)
  <2>1. proc'[p] = [proc[p] EXCEPT !.pc = "refused", !.refused = TRUE, !.core = 1,
               !.mutex = FALSE, !.sem = proc[p].allow]
    BY <1>10, BecomesStep DEF PerfFails, Refuse
  <2>2. QED
    BY <1>0, <1>10, <2>1, <1>a DEF PerfFails, Refuse, CountOut, Knows, At, State, Before, Early, After, Others
<1>11. CASE Exit(p)
  <2>1. CASE option[p].handlers
    <3>1. proc'[p] = [proc[p] EXCEPT !.pc = "cleanup"]
      BY <1>11, <2>1, BecomesStep DEF Exit, Die
    <3>2. QED
      BY <1>0, <1>11, <2>1, <3>1, <1>a DEF Exit, Die, Knows, At, State, Before, Early, After, Others
  <2>2. CASE ~option[p].handlers
    <3>1. proc'[p] = [proc[p] EXCEPT !.pc = "gone"]
      BY <1>11, <2>2, BecomesStep DEF Exit, Die
    <3>2. QED
      BY <1>0, <1>11, <2>2, <3>1, <1>a DEF Exit, Die, Knows, At, State, Before, Early, After, Others
  <2>3. QED
    BY <1>11, <2>1, <2>2 DEF Exit
<1>12. CASE Signal(p)
  <2>1. proc'[p] = [proc[p] EXCEPT !.pc = "cleanup", !.core = 1]
    BY <1>12, BecomesStep DEF Signal
  <2>2. QED
    BY <1>0, <1>12, <2>1, <1>a DEF Signal, Knows, At, State, Before, Early, After, Others
<1>13. CASE Kill(p)
  <2>1. proc'[p] = [proc[p] EXCEPT !.pc = "killed", !.core = 1]
    BY <1>13, BecomesStep DEF Kill
  <2>2. QED
    BY <1>0, <1>13, <2>1, <1>a DEF Kill, Knows, At, State, Before, Early, After, Others
<1>14. CASE Cleanup(p)
  <2>1. proc'[p] = [proc[p] EXCEPT !.pc = IF IsLast(p) THEN "zeroing" ELSE "freeing",
               !.mutex = ~proc[p].allow, !.cleaned = TRUE, !.core = 1]
    BY <1>14, BecomesStep DEF Cleanup
  <2>2. QED
    BY <1>0, <1>14, <2>1, <1>a DEF Cleanup, CountOut, Knows, At, State, Before, Early, After, Others
<1>15. CASE CleanupPMU(p)
  <2>1. CASE proc[p].core < NumCores
    <3>1. proc'[p] = [proc[p] EXCEPT !.core = proc[p].core + 1]
      BY <1>15, <2>1, BecomesStep DEF CleanupPMU
    <3>2. QED
      BY <1>0, <1>15, <2>1, <3>1, <1>a DEF CleanupPMU, Knows, At, State, Before, Early, After, Others
  <2>2. CASE ~(proc[p].core < NumCores)
    <3>1. proc'[p] = [proc[p] EXCEPT !.pc = "freeing", !.core = 1]
      BY <1>15, <2>2, BecomesStep DEF CleanupPMU
    <3>2. QED
      BY <1>0, <1>15, <2>2, <3>1, <1>a DEF CleanupPMU, Knows, At, State, Before, Early, After, Others
  <2>3. QED
    BY <1>15, <2>1, <2>2 DEF CleanupPMU
<1>16. CASE FreeRMID(p)
  <2>1. proc'[p] = [proc[p] EXCEPT !.pc = "gone"]
    BY <1>16, BecomesStep DEF FreeRMID, Die
  <2>2. QED
    BY <1>0, <1>16, <2>1, <1>a DEF FreeRMID, Die, Knows, At, State, Before, Early, After, Others
<1>17. QED
  BY <1>0, <1>1, <1>2, <1>3, <1>4, <1>5, <1>6, <1>7, <1>8, <1>9, <1>10, <1>11, <1>12, <1>13, <1>14, <1>15, <1>16 DEF Act, Step

LEMMA RegistersStep ==
  ASSUME NEW p \in Procs, Act(p)
  PROVE  \/ pmu' = pmu \/ CleanupPMU(p) \/ ProgramCore(p)
         \/ Prepare(p) /\ option[p].reset /\ pmu' = [c \in Cores |-> FALSE]
<1>1. CASE GetInstance(p)
  BY <1>1 DEF GetInstance, resetPMU
<1>2. CASE Constructed(p)
  BY <1>2 DEF Constructed, resetPMU
<1>3. CASE Prepare(p)
  BY <1>3 DEF Prepare, resetPMU
<1>4. CASE LockToProgram(p)
  BY <1>4 DEF LockToProgram, resetPMU
<1>5. CASE Join(p)
  BY <1>5 DEF Join, resetPMU
<1>6. CASE RefusePerf(p)
  BY <1>6 DEF RefusePerf, resetPMU
<1>7. CASE BeFirst(p)
  BY <1>7 DEF BeFirst, resetPMU
<1>8. CASE CheckCore(p)
  BY <1>8 DEF CheckCore, resetPMU
<1>9. CASE ProgramCore(p)
  BY <1>9 DEF ProgramCore, resetPMU
<1>10. CASE PerfFails(p)
  BY <1>10 DEF PerfFails, resetPMU
<1>11. CASE Exit(p)
  BY <1>11 DEF Exit, resetPMU
<1>12. CASE Signal(p)
  BY <1>12 DEF Signal, resetPMU
<1>13. CASE Kill(p)
  BY <1>13 DEF Kill, resetPMU
<1>14. CASE Cleanup(p)
  BY <1>14 DEF Cleanup, resetPMU
<1>15. CASE CleanupPMU(p)
  BY <1>15 DEF CleanupPMU, resetPMU
<1>16. CASE FreeRMID(p)
  BY <1>16 DEF FreeRMID, resetPMU
<1>17. QED
  BY <1>1, <1>2, <1>3, <1>4, <1>5, <1>6, <1>7, <1>8, <1>9, <1>10, <1>11, <1>12, <1>13, <1>14, <1>15, <1>16 DEF Act, Step

LEMMA InvStep ==
  ASSUME IInv, [Next]_vars
  PROVE  IInv'
<1>1. CASE UNCHANGED vars
  BY <1>1 DEF vars, IInv, TypeOK, Knows, Locking, Counting, Counted, At
<1>2. ASSUME NEW p \in Procs, Act(p) PROVE IInv'
  BY <1>2, TypeStep, KnowsStep, LockingStep, CountingStep DEF IInv
<1>3. QED
  BY <1>1, <1>2 DEF Next, Act

LEMMA InvInit == Init => IInv
<1> SUFFICES ASSUME Init PROVE IInv
  OBVIOUS
<1> USE InstancesAssumption
<1>0. 1 \in Cores
  BY DEF Cores
<1>1. \A p \in Procs :
        proc[p] = [pc |-> "start", core |-> 1, mutex |-> FALSE, allow |-> FALSE, sem |-> FALSE,
                   programmed |-> FALSE, refused |-> FALSE, cleaned |-> FALSE]
  BY DEF Init
<1>2. TypeOK
  BY <1>0 DEF Init, TypeOK, State, pcs
<1>3. \A p \in Procs : Knows(p)
  BY <1>1 DEF Knows, At
<1>4. Locking
  BY <1>1 DEF Locking, Holding, Init
<1>5. Counted = {}
  BY <1>1 DEF Counted
<1>6. Counting
  BY <1>1, <1>5, FS_EmptySet DEF Counting, Init
<1>7. QED
  BY <1>2, <1>3, <1>4, <1>6 DEF IInv

\* The invariant of the processes, the lock and the count.
THEOREM InstancesInvariant == Spec => []IInv
<1>1. IInv /\ [Next]_vars => IInv'
  BY InvStep
<1>2. QED
  BY <1>1, InvInit, PTL DEF Spec
-----------------------------------------------------------------------------
LEMMA LiveStep ==
  ASSUME IInv, NEW p \in Procs, Act(p), canUsePerf, ~CountedTwice'
  PROVE  /\ ~CountedTwice
         /\ BeFirst(p) /\ proc[p].allow => Live' = Live \cup {p} /\ count = 0 /\ count' = 1
         /\ PerfFails(p) /\ proc[p].allow
              => p \in Live /\ Live' = Live \ {p} /\ count = 1 /\ count' = 0
         /\ Leaves(p) => /\ p \in Live /\ Live' = Live \ {p}
                         /\ count' = IF count > 0 THEN count - 1 ELSE 0
         /\ \/ BeFirst(p) /\ proc[p].allow
            \/ PerfFails(p) /\ proc[p].allow
            \/ Leaves(p)
            \/ Live' = Live /\ count' = count
<1> DEFINE Lives == p \in Counted /\ ~proc[p].refused
           LivesOn == p \in Counted' /\ ~proc'[p].refused
<1>0. /\ TypeOK /\ Knows(p) /\ count \in Nat
      /\ \A q \in Procs : q # p => proc'[q] = proc[q]
      /\ \A q \in Procs : q # p => (q \in Counted' <=> q \in Counted)
  BY OthersStay DEF IInv, TypeOK, Counted
<1>1. ~CountedTwice
  BY <1>0, OwnStep DEF CountedTwice
<1>2. \A q \in Procs : q # p => (q \in Live' <=> q \in Live)
  BY <1>0 DEF Live
<1>3. (p \in Live <=> Lives) /\ (p \in Live' <=> LivesOn)
  BY DEF Live, Counted
<1>4. Live \subseteq Procs /\ Live' \subseteq Procs
  BY DEF Live, Counted
<1>5. CASE BeFirst(p) /\ proc[p].allow
  <2>1. proc'[p] = [proc[p] EXCEPT !.pc = IF canUsePerf THEN "programming" ELSE "checking",
               !.sem = proc[p].allow, !.programmed = canUsePerf]
    BY <1>0, <1>5, BecomesStep DEF BeFirst
  <2>2. Lives = FALSE /\ LivesOn
    BY <1>0, <1>5, <2>1, CountedStep DEF Enters, BeFirst, Knows, At, Before, TypeOK, State
  <2>3. count = 0 /\ count' = 1
    BY <1>0, <1>5 DEF BeFirst, Others
  <2>4. ~Leaves(p) /\ ~PerfFails(p)
    BY <1>5 DEF Leaves, BeFirst, PerfFails, Cleanup, At
  <2>5. QED
    BY <1>1, <1>2, <1>3, <1>4, <1>5, <2>2, <2>3, <2>4
<1>6. CASE PerfFails(p) /\ proc[p].allow
  <2>1. ~BeFirst(p) /\ ~Leaves(p) /\ ~Enters(p)
    BY <1>6 DEF Leaves, BeFirst, PerfFails, Cleanup, At, Enters, Join, RefusePerf
  <2>2. count = 1 /\ count' = 0
    BY <1>0, <1>6 DEF IInv, Counting, PerfFails, CountOut, At, Knows
  <2>3. Lives /\ proc'[p].refused
    <3>1. proc'[p] = [proc[p] EXCEPT !.pc = "refused", !.refused = TRUE, !.core = 1,
               !.mutex = FALSE, !.sem = proc[p].allow]
      BY <1>0, <1>6, BecomesStep DEF PerfFails, Refuse
    <3>2. QED
      BY <1>0, <1>6, <3>1 DEF PerfFails, Knows, At, After, TypeOK, State, Counted
  <2>4. QED
    BY <1>1, <1>2, <1>3, <1>4, <1>6, <2>1, <2>2, <2>3
<1>7. CASE Leaves(p)
  <2>1. proc'[p].cleaned /\ Lives
    <3>1. proc'[p] = [proc[p] EXCEPT !.pc = IF IsLast(p) THEN "zeroing" ELSE "freeing",
               !.mutex = ~proc[p].allow, !.cleaned = TRUE, !.core = 1]
      BY <1>0, <1>7, BecomesStep DEF Leaves, Cleanup
    <3>2. proc'[p].cleaned /\ proc'[p].refused = proc[p].refused
      BY <1>0, <3>1 DEF TypeOK, State
    <3>3. QED
      BY <1>7, <3>2 DEF CountedTwice, Leaves
  <2>2. ~LivesOn
    BY <1>7, <1>0, CountedStep
  <2>3. ~BeFirst(p) /\ ~PerfFails(p)
    BY <1>7 DEF Leaves, BeFirst, PerfFails, Cleanup, At
  <2>4. count' = IF count > 0 THEN count - 1 ELSE 0
    BY <1>7, CountStep DEF IInv
  <2>5. QED
    BY <1>1, <1>2, <1>3, <1>4, <1>7, <2>1, <2>2, <2>3, <2>4
<1>8. CASE ~(BeFirst(p) /\ proc[p].allow) /\ ~(PerfFails(p) /\ proc[p].allow) /\ ~Leaves(p)
  <2>1. ~CheckCore(p) /\ ~Join(p)
    BY <1>0 DEF CheckCore, Join, Knows
  <2>2. CASE RefusePerf(p)
    <3>1. Enters(p) /\ count' = count
      BY <1>0, <2>2 DEF Enters, RefusePerf, Others
    <3>2. p \notin Counted /\ proc'[p].refused
      <4>1. proc'[p] = [proc[p] EXCEPT !.pc = "refused", !.refused = TRUE, !.core = 1,
               !.mutex = FALSE, !.sem = proc[p].allow]
        BY <1>0, <2>2, BecomesStep DEF RefusePerf, Refuse
      <4>2. QED
        BY <1>0, <3>1, <4>1, CountedStep DEF TypeOK, State
    <3>3. QED
      BY <1>1, <1>2, <1>3, <1>4, <1>8, <3>1, <3>2
  <2>3. CASE ~RefusePerf(p)
    <3>1. ~Enters(p)
      BY <1>8, <2>1, <2>3 DEF Enters
    <3>2. Counted' = Counted
      BY <1>0, <1>8, <3>1, CountedStep
    <3>3. count' = count
      BY <1>0, <1>8, <2>1, <3>1, OwnStep
    <3>4. proc'[p].refused = proc[p].refused \/ PerfFails(p)
      BY <1>0, <2>1, <2>3, OwnStep
    <3>5. PerfFails(p) => p \notin Counted
      BY <1>8 DEF Counted
    <3>6. QED
      BY <1>1, <1>2, <1>3, <1>4, <1>8, <3>2, <3>3, <3>4, <3>5
  <2>4. QED
    BY <2>2, <2>3
<1>9. QED
  BY <1>5, <1>6, <1>7, <1>8

LEMMA PerfStep ==
  ASSUME IInv, PerfInv, [Next]_vars
  PROVE  PerfInv'
<1>1. CASE UNCHANGED vars
  BY <1>1 DEF vars, PerfInv, CountedTwice, Live, Counted
<1>2. ASSUME NEW p \in Procs, Act(p) PROVE PerfInv'
  <2> SUFFICES ASSUME canUsePerf', ~CountedTwice'
               PROVE  (Live' = {} /\ count' = 0) \/ (count' = 1 /\ \E q \in Procs : Live' = {q})
    BY DEF PerfInv
  <2>1. canUsePerf
    BY <1>2, OthersStay DEF IInv
  <2>2. \/ Live = {} /\ count = 0
        \/ count = 1 /\ \E q \in Procs : Live = {q}
    BY <1>2, <2>1, LiveStep DEF PerfInv
  <2>3. CASE BeFirst(p) /\ proc[p].allow
    BY <1>2, <2>1, <2>2, <2>3, LiveStep
  <2>4. CASE PerfFails(p) /\ proc[p].allow
    BY <1>2, <2>1, <2>2, <2>4, LiveStep
  <2>5. CASE Leaves(p)
    BY <1>2, <2>1, <2>2, <2>5, LiveStep
  <2>6. CASE Live' = Live /\ count' = count
    BY <2>2, <2>6
  <2>7. QED
    BY <1>2, <2>1, <2>3, <2>4, <2>5, <2>6, LiveStep
<1>3. QED
  BY <1>1, <1>2 DEF Next, Act

\* At most one instance at a time measures with perf, unless one that was
\* refused has been counted out a second time (cpucounters.cpp:1718-1730).
THEOREM OneMeasuresWithPerf == Spec => []OnePerfClient
<1>1. Init => PerfInv
  <2> SUFFICES ASSUME Init PROVE Live = {} /\ count = 0
    BY DEF PerfInv
  <2>1. \A q \in Procs : ~proc[q].allow
    BY DEF Init
  <2>2. QED
    BY <2>1 DEF Init, Live, Counted
<1>2. IInv /\ PerfInv /\ [Next]_vars => PerfInv'
  BY PerfStep
<1>3. IInv /\ PerfInv => OnePerfClient
  <2> SUFFICES ASSUME IInv, PerfInv, canUsePerf, ~CountedTwice
               PROVE  ~(Cardinality({p \in handles : Measures(p)}) > 1)
    BY DEF OnePerfClient, CountedTwice
  <2> DEFINE Clients == {p \in handles : Measures(p)}
  <2>1. \A p \in Clients : p \in Live
    BY DEF IInv, TypeOK, Knows, Measures, At, After, Live, Counted
  <2>2. Clients = {} \/ \E q \in Procs : Clients = {q}
    <3>1. CASE Live = {}
      BY <2>1, <3>1
    <3>2. ASSUME NEW q \in Procs, Live = {q} PROVE Clients = {} \/ Clients = {q}
      BY <2>1, <3>2
    <3>3. QED
      BY <3>1, <3>2 DEF PerfInv
  <2>3. ~(Cardinality(Clients) > 1)
    <3> HIDE DEF Clients
    <3>1. Cardinality({}) = 0 /\ \A q \in Procs : Cardinality({q}) = 1
      BY FS_EmptySet, FS_Singleton
    <3>2. QED
      BY <2>2, <3>1
  <2>4. QED
    BY <2>3
<1>4. QED
  BY <1>1, <1>2, <1>3, InstancesInvariant, PTL DEF Spec
-----------------------------------------------------------------------------
LEMMA BrokenStays ==
  ASSUME IInv, NEW p \in Procs, Act(p), Broken
  PROVE  Broken'
<1>1. PICK q \in Procs : At(q, "killed") \/ (At(q, "gone") /\ ~option[q].handlers)
  BY DEF Broken
<1>2. q # p
  BY <1>1, OwnStep DEF IInv, At
<1>3. QED
  BY <1>1, <1>2, OthersStay DEF IInv, Broken, At

\* With perf nobody writes the registers, but to clear them.
LEMMA NoneSetStays ==
  ASSUME IInv, NEW p \in Procs, Act(p), canUsePerf, NoneSet
  PROVE  NoneSet'
<1>1. CASE Prepare(p) /\ pmu' = [c \in Cores |-> FALSE]
  BY <1>1 DEF NoneSet
<1>2. CASE CleanupPMU(p) \/ ProgramCore(p)
  BY <1>2 DEF CleanupPMU, ProgramCore, NoneSet
<1>3. QED
  BY <1>1, <1>2, RegistersStep DEF NoneSet

LEMMA OwnsStays ==
  ASSUME IInv, NEW p \in Procs, Act(p), ~canUsePerf, ~Broken', NEW c \in Cores, pmu'[c],
         NEW q \in Procs, Owns(q, c) \/ Clears(q, c)
  PROVE  Owns(q, c)' \/ Clears(q, c)'
<1>0. /\ TypeOK /\ Knows(p) /\ proc[p] \in State
  BY DEF IInv, TypeOK
<1>1. CASE q # p
  BY <1>0, <1>1, OthersStay DEF Owns, Clears, At
<1>2. CASE q = p /\ CleanupPMU(p)
  <2>1. c # proc[p].core /\ proc[p].core <= c
    BY <1>0, <1>2 DEF CleanupPMU, TypeOK, Owns, Clears
  <2>2. proc[p].core < NumCores
    BY <1>0, <2>1, InstancesAssumption DEF State, Cores
  <2>3. proc'[p] = [proc[p] EXCEPT !.core = proc[p].core + 1]
    BY <1>0, <1>2, <2>2, BecomesStep DEF CleanupPMU
  <2>4. QED
    BY <1>0, <1>2, <2>1, <2>3 DEF Owns, Clears, At, State, Cores
<1>3. CASE q = p /\ Kill(p)
  <2>1. proc'[p] = [proc[p] EXCEPT !.pc = "killed", !.core = 1]
    BY <1>0, <1>3, BecomesStep DEF Kill
  <2>2. QED
    BY <1>0, <2>1 DEF Broken, At, State
<1>4. CASE q = p /\ Exit(p)
  <2>1. CASE option[p].handlers
    <3>1. proc'[p] = [proc[p] EXCEPT !.pc = "cleanup"]
      BY <1>0, <1>4, <2>1, BecomesStep DEF Exit
    <3>2. QED
      BY <1>0, <1>4, <3>1 DEF Exit, Owns, Clears, At, State
  <2>2. CASE ~option[p].handlers
    <3>1. proc'[p] = [proc[p] EXCEPT !.pc = "gone"]
      BY <1>0, <1>4, <2>2, BecomesStep DEF Exit, Die
    <3>2. proc'[p].pc = "gone" /\ ~option'[p].handlers
      BY <1>0, <1>4, <2>2, <3>1, OthersStay DEF State
    <3>3. QED
      BY <3>2 DEF Broken, At
  <2>3. QED
    BY <2>1, <2>2
<1>5. CASE q = p /\ Cleanup(p)
  <2>1. proc'[p] = [proc[p] EXCEPT !.pc = IF IsLast(p) THEN "zeroing" ELSE "freeing",
               !.mutex = ~proc[p].allow, !.cleaned = TRUE, !.core = 1]
    BY <1>0, <1>5, BecomesStep DEF Cleanup
  <2>2. ~proc[p].allow /\ proc[p].programmed /\ IsLast(p)
    BY <1>5 DEF Cleanup, Owns, Clears, At, IsLast
  <2>3. QED
    BY <1>0, <1>5, <2>1, <2>2 DEF Owns, At, State, Cores
<1>6. CASE q = p /\ Signal(p)
  <2>1. proc'[p] = [proc[p] EXCEPT !.pc = "cleanup", !.core = 1]
    BY <1>0, <1>6, BecomesStep DEF Signal
  <2>2. QED
    BY <1>0, <1>6, <2>1 DEF Signal, Owns, Clears, At, State
<1>7. CASE q = p /\ ProgramCore(p)
  <2>1. proc'[p].pc \in {"programming", "measuring"}
    <3>1. CASE proc[p].core < NumCores
      <4>1. proc'[p] = [proc[p] EXCEPT !.core = proc[p].core + 1]
        BY <1>0, <1>7, <3>1, BecomesStep DEF ProgramCore
      <4>2. QED
        BY <1>0, <1>7, <4>1 DEF ProgramCore, At, State
    <3>2. CASE ~(proc[p].core < NumCores)
      <4>1. proc'[p] = [proc[p] EXCEPT !.pc = "measuring", !.core = 1, !.mutex = FALSE]
        BY <1>0, <1>7, <3>2, BecomesStep DEF ProgramCore
      <4>2. QED
        BY <1>0, <4>1 DEF State
    <3>3. QED
      BY <3>1, <3>2
  <2>2. Owns(p, c) /\ proc[p].pc \notin Early
    BY <1>7 DEF ProgramCore, At, Owns, Clears, Early
  <2>3. proc'[p].programmed /\ ~proc'[p].allow
    BY <1>0, <2>2, OwnStep DEF Owns
  <2>4. QED
    BY <1>7, <2>1, <2>3 DEF Owns, At
<1>8. CASE /\ q = p /\ ~CleanupPMU(p) /\ ~Kill(p) /\ ~Exit(p) /\ ~Cleanup(p)
           /\ ~Signal(p) /\ ~ProgramCore(p)
  <2>1. ~PerfFails(p)
    BY DEF PerfFails
  <2>2. proc[p].pc \in Before \cup {"checking", "freeing"}
    BY <1>8, <2>1 DEF Act, Step, GetInstance, Constructed, Prepare, LockToProgram, Join,
         RefusePerf, BeFirst, CheckCore, FreeRMID, At, Before, Early
  <2>3. QED
    BY <1>0, <1>8, <2>2 DEF Knows, Owns, Clears, At, Before, Early
<1>9. QED
  BY <1>1, <1>2, <1>3, <1>4, <1>5, <1>6, <1>7, <1>8

LEMMA CountedForItStays ==
  ASSUME IInv, NEW p \in Procs, Act(p), ~canUsePerf, NEW c \in Cores, CountedForIt
  PROVE  CountedForIt' \/ Clears(p, c)'
<1>0. /\ TypeOK /\ Knows(p) /\ proc[p] \in State /\ count \in Nat /\ count' \in Nat
  BY TypeStep DEF IInv, TypeOK
<1>1. \A q \in Procs : ~(proc'[q].allow /\ proc'[q].pc = "checking")
  <2>1. \A q \in Procs : q # p => ~(proc'[q].allow /\ proc'[q].pc = "checking")
    BY <1>0, OthersStay DEF CountedForIt, At
  <2>2. ~(proc'[p].allow /\ proc'[p].pc = "checking")
    BY <1>0, OwnStep DEF CountedForIt
  <2>3. QED
    BY <2>1, <2>2
<1>2. CASE count' > 0
  BY <1>1, <1>2 DEF CountedForIt, At
<1>3. CASE ~(count' > 0)
  <2>1. ~Enters(p)
    BY <1>0, <1>3 DEF CountedForIt, Enters, Join, RefusePerf, BeFirst
  <2>2. Leaves(p)
    BY <1>0, <1>3, <2>1, OwnStep DEF CountedForIt, CheckCore, PerfFails
  <2>3. count = 1 /\ proc[p].allow
    BY <1>0, <1>3, <2>2, CountStep DEF CountedForIt, IInv, Leaves, Counted
  <2>4. proc'[p] = [proc[p] EXCEPT !.pc = IF IsLast(p) THEN "zeroing" ELSE "freeing",
               !.mutex = ~proc[p].allow, !.cleaned = TRUE, !.core = 1]
    BY <1>0, <2>2, BecomesStep DEF Leaves, Cleanup
  <2>5. IsLast(p)
    BY <2>3 DEF IsLast
  <2>6. QED
    BY <1>0, <2>3, <2>4, <2>5 DEF Clears, At, State, Cores
<1>4. QED
  BY <1>2, <1>3

\* A register that is set newly has an answer.
LEMMA SetIsAnswered ==
  ASSUME IInv, NEW p \in Procs, ProgramCore(p), ~canUsePerf, NEW c \in Cores
  PROVE  CountedForIt' \/ Owns(p, c)'
<1>0. /\ TypeOK /\ Knows(p) /\ proc[p] \in State /\ Act(p)
  BY DEF IInv, TypeOK, Act, Step
<1>1. /\ proc'[p].pc \in {"programming", "measuring"}
      /\ proc'[p].allow = proc[p].allow /\ proc'[p].programmed
  <2>1. CASE proc[p].core < NumCores
    <3>1. proc'[p] = [proc[p] EXCEPT !.core = proc[p].core + 1]
      BY <1>0, <2>1, BecomesStep DEF ProgramCore
    <3>2. QED
      BY <1>0, <3>1 DEF ProgramCore, At, State, Knows
  <2>2. CASE ~(proc[p].core < NumCores)
    <3>1. proc'[p] = [proc[p] EXCEPT !.pc = "measuring", !.core = 1, !.mutex = FALSE]
      BY <1>0, <2>2, BecomesStep DEF ProgramCore
    <3>2. QED
      BY <1>0, <3>1 DEF ProgramCore, At, State, Knows
  <2>3. QED
    BY <2>1, <2>2
<1>2. CASE proc[p].allow
  <2>1. count' = 1 /\ lock = p
    BY <1>0, <1>2 DEF IInv, Counting, Locking, Holding, ProgramCore, At
  <2>2. \A q \in Procs : proc'[q].pc = "checking" => ~proc'[q].allow
    BY <1>0, <1>1, <2>1, OthersStay DEF IInv, Locking, Holding
  <2>3. QED
    BY <2>1, <2>2 DEF CountedForIt, At
<1>3. CASE ~proc[p].allow
  BY <1>1, <1>3 DEF Owns, At
<1>4. QED
  BY <1>2, <1>3

LEMMA GivenBackStep ==
  ASSUME IInv, GivenBackInv, [Next]_vars
  PROVE  GivenBackInv'
<1>1. CASE UNCHANGED vars
  BY <1>1 DEF vars, GivenBackInv, Broken, Answered, CountedForIt, Owns, Clears, At
<1>2. ASSUME NEW p \in Procs, Act(p) PROVE GivenBackInv'
  <2>1. canUsePerf' = canUsePerf
    BY <1>2, OthersStay DEF IInv
  <2>2. CASE canUsePerf
    <3>1. NoneSet'
      BY <1>2, <2>2, NoneSetStays DEF GivenBackInv, NoneSet
    <3>2. QED
      BY <3>1, <2>1, <2>2 DEF GivenBackInv, NoneSet
  <2>3. CASE ~canUsePerf
    <3> SUFFICES ASSUME ~Broken', NEW c \in Cores, pmu'[c]
                 PROVE  Answered(c)'
      BY <2>1, <2>3 DEF GivenBackInv
    <3>1. CASE pmu[c]
      <4>1. Answered(c)
        BY <1>2, <3>1, BrokenStays DEF GivenBackInv
      <4>2. CASE CountedForIt
        BY <1>2, <2>3, <4>2, CountedForItStays DEF Answered
      <4>3. ASSUME NEW q \in Procs, Owns(q, c) \/ Clears(q, c) PROVE Answered(c)'
        BY <1>2, <2>3, <4>3, OwnsStays DEF Answered
      <4>4. QED
        BY <4>1, <4>2, <4>3 DEF Answered
    <3>2. CASE ~pmu[c]
      <4>1. ~CleanupPMU(p) /\ ~(pmu' = [d \in Cores |-> FALSE])
        BY <2>3, <3>2 DEF CleanupPMU, IInv, TypeOK
      <4>2. ProgramCore(p)
        BY <1>2, <3>2, <4>1, RegistersStep
      <4>3. QED
        BY <2>3, <4>2, SetIsAnswered DEF Answered
    <3>3. QED
      BY <3>1, <3>2
  <2>4. QED
    BY <2>2, <2>3
<1>3. QED
  BY <1>1, <1>2 DEF Next, Act

\* When all that came have gone, on their own or by a signal, the registers
\* are as they were found and nobody is counted, unless one installed no
\* handlers (cpucounters.cpp:2594-2743).
THEOREM TheLastOneGivesBack == Spec => []PmuIsGivenBack
<1>1. Init => GivenBackInv
  BY DEF Init, GivenBackInv
<1>2. IInv /\ GivenBackInv /\ [Next]_vars => GivenBackInv'
  BY GivenBackStep
<1>3. IInv /\ GivenBackInv => PmuIsGivenBack
  <2> SUFFICES ASSUME IInv, GivenBackInv,
                      \A p \in Procs : At(p, "start") \/ (At(p, "gone") /\ option[p].handlers)
               PROVE  count = 0 /\ \A c \in Cores : ~pmu[c]
    BY DEF PmuIsGivenBack
  <2>1. \A p \in Procs : proc[p].cleaned \/ (~proc[p].sem /\ ~proc[p].programmed)
    BY DEF IInv, Knows, At, Before, Early
  <2>2. Counted = {}
    BY <2>1 DEF Counted
  <2>3. count = 0
    BY <2>2, FS_EmptySet DEF IInv, Counting, TypeOK
  <2>4. ~Broken
    BY DEF Broken, At
  <2>5. \A p \in Procs, c \in Cores : ~Owns(p, c) /\ ~Clears(p, c)
    BY DEF Owns, Clears, At, IInv, Knows, Before, Early
  <2>6. QED
    BY <2>3, <2>4, <2>5 DEF GivenBackInv, Answered, CountedForIt
<1>4. QED
  BY <1>1, <1>2, <1>3, InstancesInvariant, PTL DEF Spec
-----------------------------------------------------------------------------
Nobody == \A q \in Procs : ~Meddled(q)

LEMMA MeddledStays ==
  ASSUME IInv, NEW p \in Procs, Act(p), Nobody'
  PROVE  Nobody
<1>1. SUFFICES ASSUME NEW q \in Procs, Meddled(q)
               PROVE  Meddled(q)'
  BY DEF Nobody
<1>2. /\ TypeOK /\ Knows(p) /\ option' = option
      /\ \A r \in Procs : r # p => proc'[r] = proc[r]
  BY OthersStay DEF IInv
<1>3. CASE q # p
  BY <1>1, <1>2, <1>3 DEF Meddled
<1>4. CASE q = p
  <2>1. proc[p].programmed \/ proc[p].cleaned \/ proc[p].allow => proc[p].pc \notin Early
    BY <1>2 DEF Knows, Before, Early
  <2>2. QED
    BY <1>1, <1>2, <1>4, <2>1, OwnStep DEF Meddled, Early
<1>5. QED
  BY <1>3, <1>4

\* Nobody but the holder of the lock writes the registers.
LEMMA RegistersStay ==
  ASSUME IInv, NEW p \in Procs, Act(p), Nobody', lock # p
  PROVE  pmu' = pmu
<1>0. /\ TypeOK /\ Knows(p) /\ proc[p] \in State /\ Nobody /\ option' = option
  BY OthersStay, MeddledStays DEF IInv, TypeOK
<1>1. ~ProgramCore(p) /\ ~CleanupPMU(p)
  BY <1>0 DEF ProgramCore, CleanupPMU, IInv, Locking, Holding, Knows, At, Nobody, Meddled
<1>2. ASSUME Prepare(p) PROVE ~option[p].reset
  <2>1. proc'[p] = [proc[p] EXCEPT !.pc = "ready", !.allow = option[p].allow]
    BY <1>0, <1>2, BecomesStep DEF Prepare
  <2>2. proc'[p].pc = "ready"
    BY <1>0, <2>1 DEF State
  <2>3. QED
    BY <1>0, <2>2 DEF Nobody, Meddled
<1>3. QED
  BY <1>1, <1>2, RegistersStep

\* While somebody else has the lock nothing the invariant speaks of changes.
LEMMA LastElsewhere ==
  ASSUME IInv, LastInv, NEW p \in Procs, Act(p), ~canUsePerf, Nobody', lock # Free, lock # p
  PROVE  /\ lock' = lock /\ Counted' = Counted /\ count' = count /\ pmu' = pmu
         /\ proc'[lock] = proc[lock]
<1>1. lock' = lock /\ lock \in Procs
  BY LockStep DEF IInv, TypeOK
<1>2. Counted' = Counted /\ count' = count
  BY CountStep DEF IInv
<1>3. QED
  BY <1>1, <1>2, RegistersStay, OthersStay DEF IInv

LEMMA CountedIs ==
  ASSUME IInv, count = Cardinality(Counted)
  PROVE  /\ count = 0 <=> Counted = {}
         /\ \A p \in Counted : count = 1 <=> Counted = {p}
<1>1. IsFiniteSet(Counted)
  BY DEF IInv, Counting
<1>2. count = 0 <=> Counted = {}
  BY <1>1, FS_EmptySet
<1>3. ASSUME NEW p \in Counted PROVE count = 1 <=> Counted = {p}
  <2>1. /\ IsFiniteSet(Counted \ {p}) /\ Cardinality(Counted \ {p}) = Cardinality(Counted) - 1
    BY <1>1, FS_RemoveElement
  <2>2. Cardinality(Counted \ {p}) = 0 <=> Counted \ {p} = {}
    BY <2>1, FS_EmptySet
  <2>3. Cardinality(Counted) \in Nat
    BY <1>1, FS_CardinalityType
  <2>4. QED
    BY <2>1, <2>2, <2>3
<1>4. QED
  BY <1>2, <1>3

LEMMA CardinalityStep ==
  ASSUME IInv, NEW p \in Procs, Act(p), count = Cardinality(Counted)
  PROVE  /\ Enters(p) => Cardinality(Counted') = count + 1
         /\ Leaves(p) => count' = Cardinality(Counted')
<1>1. IsFiniteSet(Counted) /\ count \in Nat
  BY DEF IInv, Counting, TypeOK
<1>2. ASSUME Enters(p) PROVE Cardinality(Counted') = count + 1
  BY <1>1, <1>2, CountedStep, FS_AddElement DEF IInv
<1>3. ASSUME Leaves(p) PROVE count' = Cardinality(Counted')
  <2>1. p \in Counted /\ Counted' = Counted \ {p}
    BY <1>3, CountedStep DEF IInv, Leaves
  <2>2. Cardinality(Counted \ {p}) = Cardinality(Counted) - 1 /\ Cardinality(Counted \ {p}) \in Nat
    BY <1>1, <2>1, FS_RemoveElement, FS_CardinalityType
  <2>3. count' = IF count > 0 THEN count - 1 ELSE 0
    BY <1>3, CountStep DEF IInv
  <2>4. count > 0 /\ Cardinality(Counted \ {p}) = count - 1
    BY <1>1, <2>2
  <2>5. QED
    BY <2>1, <2>3, <2>4
<1>4. QED
  BY <1>2, <1>3

\* From a free lock: it is taken to program or to clean up, or nothing moves.
LEMMA LastFromFree ==
  ASSUME IInv, LastInv, NEW p \in Procs, Act(p), ~canUsePerf, Nobody', lock = Free
  PROVE  LastInv'
<1>0. /\ TypeOK /\ Knows(p) /\ Nobody /\ proc[p] \in State /\ lock # p /\ canUsePerf' = canUsePerf
      /\ count = Cardinality(Counted) /\ SetWhileCounted /\ pmu' = pmu /\ count \in Nat
  BY MeddledStays, OthersStay, RegistersStay, InstancesAssumption DEF IInv, TypeOK, LastInv, Nobody
<1>1. ~Enters(p) /\ ~(proc[p].allow /\ (CheckCore(p) \/ PerfFails(p)))
  BY <1>0 DEF IInv, Locking, Holding, Enters, Join, RefusePerf, BeFirst, CheckCore, PerfFails, At
<1>2. CASE Leaves(p)
  <2>1. p \in Counted /\ Counted' = Counted \ {p} /\ count' = Cardinality(Counted')
    BY <1>0, <1>2, CountedStep, CardinalityStep DEF Leaves
  <2>2. proc'[p] = [proc[p] EXCEPT !.pc = IF IsLast(p) THEN "zeroing" ELSE "freeing",
               !.mutex = ~proc[p].allow, !.cleaned = TRUE, !.core = 1]
    BY <1>0, <1>2, BecomesStep DEF Leaves, Cleanup
  <2>3. /\ proc'[p].pc = IF IsLast(p) THEN "zeroing" ELSE "freeing"
        /\ proc'[p].core = 1
    BY <1>0, <2>2 DEF State
  <2>4. lock' = p
    BY <1>2, <2>1 DEF Leaves, Cleanup, TakeLock, Counted
  <2>5. IsLast(p) <=> Counted = {p}
    BY <1>0, <2>1, CountedIs DEF IsLast, Counted
  <2>6. AllSet
    BY <1>0, <2>1 DEF SetWhileCounted
  <2>7. Follows(proc[lock].pc, proc[lock].core)'
    <3>1. CASE IsLast(p)
      BY <2>1, <2>3, <2>4, <2>5, <3>1 DEF Follows, Cores
    <3>2. CASE ~IsLast(p)
      BY <1>0, <2>1, <2>3, <2>4, <2>5, <2>6, <3>2 DEF Follows, SetWhileCounted, AllSet
    <3>3. QED
      BY <3>1, <3>2
  <2>8. QED
    BY <1>0, <2>1, <2>4, <2>7, InstancesAssumption DEF LastInv
<1>3. CASE ~Leaves(p)
  <2>1. Counted' = Counted /\ count' = count
    BY <1>0, <1>1, <1>3, CountedStep, OwnStep
  <2>2. SetWhileCounted'
    BY <1>0, <2>1 DEF SetWhileCounted, AllSet, NoneSet
  <2>3. CASE lock' = Free
    BY <1>0, <2>1, <2>2, <2>3 DEF LastInv
  <2>4. CASE lock' # Free
    <3>1. lock' = p /\ Holds(p)' /\ (Cleanup(p) \/ LockToProgram(p))
      BY <1>0, <2>4, LockStep DEF IInv
    <3>2. ~Cleanup(p)
      <4>1. SUFFICES ASSUME Cleanup(p) PROVE FALSE
        OBVIOUS
      <4>2. proc'[p] = [proc[p] EXCEPT !.pc = IF IsLast(p) THEN "zeroing" ELSE "freeing",
               !.mutex = ~proc[p].allow, !.cleaned = TRUE, !.core = 1]
        BY <1>0, <4>1, BecomesStep DEF Cleanup
      <4>3. proc[p].allow /\ proc'[p].allow /\ proc'[p].cleaned /\ proc'[p].sem = proc[p].sem
        BY <1>0, <3>1, <4>2 DEF State, Holds
      <4>4. proc[p].sem /\ ~proc[p].cleaned
        BY <1>0, <4>1, <4>3 DEF Nobody, Meddled, Cleanup, At, Knows, After
      <4>5. QED
        BY <1>3, <4>1, <4>3, <4>4 DEF Leaves, Counted
    <3>3. proc'[p].pc = "locked"
      <4>1. proc'[p] = [proc[p] EXCEPT !.pc = "locked", !.mutex = ~proc[p].allow]
        BY <1>0, <3>1, <3>2, BecomesStep DEF LockToProgram
      <4>2. QED
        BY <1>0, <4>1 DEF State
    <3>4. QED
      BY <1>0, <2>1, <2>2, <2>4, <3>1, <3>3 DEF LastInv, Follows
  <2>5. QED
    BY <2>3, <2>4
<1>4. QED
  BY <1>2, <1>3

\* The holder of the lock sets the registers when it is the first that is
\* counted, and clears them when it was the last.
LEMMA LastHolding ==
  ASSUME IInv, LastInv, NEW p \in Procs, Act(p), ~canUsePerf, Nobody', lock = p
  PROVE  LastInv'
<1>0. /\ TypeOK /\ Knows(p) /\ Nobody /\ proc[p] \in State /\ lock # Free /\ canUsePerf' = canUsePerf
      /\ count = Cardinality(Counted) /\ count \in Nat /\ Follows(proc[p].pc, proc[p].core)
      /\ proc[p].allow /\ proc[p].pc \in Holding \cup {"cleanup", "killed"} /\ NumCores \in Nat
  BY MeddledStays, OthersStay, InstancesAssumption
  DEF IInv, TypeOK, LastInv, Nobody, Locking
<1>1. ~Leaves(p) /\ ~RefusePerf(p) /\ ~PerfFails(p) /\ ~Cleanup(p)
  BY <1>0 DEF Leaves, Cleanup, CanLock, RefusePerf, PerfFails
<1>2. /\ ~Enters(p) => Counted' = Counted
      /\ Enters(p) => Counted' = Counted \cup {p} /\ Cardinality(Counted') = count + 1
  BY <1>0, <1>1, CountedStep, CardinalityStep
<1>3. /\ Counted = {} <=> count = 0
  BY <1>0, CountedIs
<1>4. CASE Join(p)
  <2>1. /\ Counted' = Counted \cup {p} /\ count' = Cardinality(Counted')
        /\ lock' = Free /\ pmu' = pmu
    BY <1>0, <1>2, <1>4 DEF Enters, Join, GiveLock
  <2>2. AllSet
    BY <1>0, <1>3, <1>4 DEF Join, Others, At, Follows, SetWhileCounted
  <2>3. QED
    BY <2>1, <2>2 DEF LastInv, SetWhileCounted, AllSet
<1>5. CASE BeFirst(p)
  <2>1. proc'[p] = [proc[p] EXCEPT !.pc = IF canUsePerf THEN "programming" ELSE "checking",
               !.sem = proc[p].allow, !.programmed = canUsePerf]
    BY <1>0, <1>5, BecomesStep DEF BeFirst
  <2>2. proc'[p].pc = "checking"
    BY <1>0, <2>1 DEF State
  <2>3. count = 0 /\ count' = 1 /\ lock' = p /\ pmu' = pmu
    BY <1>0, <1>5 DEF BeFirst, Others
  <2>4. Counted = {} /\ Counted' = {p} /\ Cardinality(Counted') = 1
    BY <1>0, <1>2, <1>3, <1>5, <2>3 DEF Enters
  <2>5. NoneSet
    BY <1>0, <1>5, <2>4 DEF BeFirst, At, Follows, SetWhileCounted
  <2>6. QED
    BY <1>0, <2>2, <2>3, <2>4, <2>5 DEF LastInv, Follows, NoneSet
<1>6. CASE CheckCore(p)
  <2>1. Counted = {p} /\ NoneSet
    BY <1>0, <1>6 DEF CheckCore, At, Follows
  <2>2. ~pmu[proc[p].core]
    BY <1>0, <2>1 DEF NoneSet, State
  <2>3. count' = count /\ lock' = p /\ pmu' = pmu /\ ~Enters(p)
    BY <1>0, <1>6, <2>2 DEF CheckCore, Enters, Join, RefusePerf, BeFirst, At
  <2>4. /\ proc'[p].pc \in {"checking", "programming"}
        /\ proc'[p].pc = "programming" => proc'[p].core = 1
    <3>1. CASE proc[p].core < NumCores
      <4>1. proc'[p] = [proc[p] EXCEPT !.core = proc[p].core + 1]
        BY <1>0, <1>6, <2>2, <3>1, BecomesStep DEF CheckCore
      <4>2. QED
        BY <1>0, <1>6, <4>1 DEF CheckCore, At, State
    <3>2. CASE ~(proc[p].core < NumCores)
      <4>1. proc'[p] = [proc[p] EXCEPT !.pc = "programming", !.programmed = TRUE, !.core = 1]
        BY <1>0, <1>6, <2>2, <3>2, BecomesStep DEF CheckCore
      <4>2. QED
        BY <1>0, <4>1 DEF State
    <3>3. QED
      BY <3>1, <3>2
  <2>5. \A c \in Cores : ~(c < 1)
    BY DEF Cores
  <2>6. QED
    BY <1>0, <1>2, <2>1, <2>3, <2>4, <2>5 DEF LastInv, Follows, NoneSet
<1>7. CASE ProgramCore(p)
  <2>1. /\ Counted = {p} /\ \A c \in Cores : c < proc[p].core => pmu[c]
        /\ ~Enters(p) /\ count' = count /\ pmu' = [pmu EXCEPT ![proc[p].core] = TRUE]
    BY <1>0, <1>7 DEF ProgramCore, At, Follows, Enters, Join, RefusePerf, BeFirst
  <2>2. \A c \in Cores : c < proc[p].core + 1 => pmu'[c]
    BY <1>0, <2>1 DEF TypeOK, State, Cores
  <2>3. CASE proc[p].core < NumCores
    <3>1. proc'[p] = [proc[p] EXCEPT !.core = proc[p].core + 1]
      BY <1>0, <1>7, <2>3, BecomesStep DEF ProgramCore
    <3>2. proc'[p].pc = "programming" /\ proc'[p].core = proc[p].core + 1
      BY <1>0, <1>7, <3>1 DEF ProgramCore, At, State
    <3>3. lock' = p
      BY <1>0, <1>7, <2>3 DEF ProgramCore
    <3>4. QED
      BY <1>0, <1>2, <2>1, <2>2, <3>2, <3>3 DEF LastInv, Follows
  <2>4. CASE ~(proc[p].core < NumCores)
    <3>1. lock' = Free
      BY <1>0, <1>7, <2>4 DEF ProgramCore, GiveLock
    <3>2. AllSet'
      BY <1>0, <2>2, <2>4 DEF AllSet, State, Cores
    <3>3. QED
      BY <1>0, <1>2, <2>1, <3>1, <3>2 DEF LastInv, SetWhileCounted
  <2>5. QED
    BY <2>3, <2>4
<1>8. CASE Signal(p) \/ Kill(p)
  <2>1. proc'[p].pc \in {"cleanup", "killed"}
    <3>1. CASE Signal(p)
      <4>1. proc'[p] = [proc[p] EXCEPT !.pc = "cleanup", !.core = 1]
        BY <1>0, <3>1, BecomesStep DEF Signal
      <4>2. QED
        BY <1>0, <4>1 DEF State
    <3>2. CASE Kill(p)
      <4>1. proc'[p] = [proc[p] EXCEPT !.pc = "killed", !.core = 1]
        BY <1>0, <3>2, BecomesStep DEF Kill
      <4>2. QED
        BY <1>0, <4>1 DEF State
    <3>3. QED
      BY <1>8, <3>1, <3>2
  <2>2. ~Enters(p)
    BY <1>0, <2>1, CountsAtWork
  <2>3. count' = count /\ lock' = p /\ pmu' = pmu
    BY <1>0, <1>8 DEF Signal, Kill
  <2>4. Counted \subseteq {p} \/ AllSet
    BY <1>0 DEF Follows, Holding, SetWhileCounted
  <2>5. QED
    BY <1>0, <1>2, <2>1, <2>2, <2>3, <2>4 DEF LastInv, Follows, AllSet
<1>9. CASE CleanupPMU(p)
  <2>1. /\ Counted = {} /\ \A c \in Cores : c < proc[p].core => ~pmu[c]
        /\ ~Enters(p) /\ count' = count /\ pmu' = [pmu EXCEPT ![proc[p].core] = FALSE] /\ lock' = p
    BY <1>0, <1>9 DEF CleanupPMU, At, Follows, Enters, Join, RefusePerf, BeFirst
  <2>2. \A c \in Cores : c < proc[p].core + 1 => ~pmu'[c]
    BY <1>0, <2>1 DEF TypeOK, State, Cores
  <2>3. CASE proc[p].core < NumCores
    <3>1. proc'[p] = [proc[p] EXCEPT !.core = proc[p].core + 1]
      BY <1>0, <1>9, <2>3, BecomesStep DEF CleanupPMU
    <3>2. proc'[p].pc = "zeroing" /\ proc'[p].core = proc[p].core + 1
      BY <1>0, <1>9, <3>1 DEF CleanupPMU, At, State
    <3>3. QED
      BY <1>0, <1>2, <2>1, <2>2, <3>2 DEF LastInv, Follows
  <2>4. CASE ~(proc[p].core < NumCores)
    <3>1. proc'[p] = [proc[p] EXCEPT !.pc = "freeing", !.core = 1]
      BY <1>0, <1>9, <2>4, BecomesStep DEF CleanupPMU
    <3>2. proc'[p].pc = "freeing"
      BY <1>0, <3>1 DEF State
    <3>3. NoneSet'
      BY <1>0, <2>2, <2>4 DEF NoneSet, State, Cores
    <3>4. QED
      BY <1>0, <1>2, <2>1, <3>2, <3>3 DEF LastInv, Follows, SetWhileCounted
  <2>5. QED
    BY <2>3, <2>4
<1>10. CASE FreeRMID(p)
  <2>1. ~Enters(p) /\ count' = count /\ lock' = Free /\ pmu' = pmu /\ SetWhileCounted
    BY <1>0, <1>10 DEF FreeRMID, GiveLock, At, Follows, Enters, Join, RefusePerf, BeFirst
  <2>2. QED
    BY <1>0, <1>2, <2>1 DEF LastInv, SetWhileCounted, AllSet, NoneSet
<1>11. QED
  <2>1. ~GetInstance(p) /\ ~Constructed(p) /\ ~Prepare(p) /\ ~LockToProgram(p) /\ ~Exit(p)
    BY <1>0 DEF GetInstance, Constructed, Prepare, LockToProgram, Exit, At, Holding
  <2>2. QED
    BY <1>1, <1>4, <1>5, <1>6, <1>7, <1>8, <1>9, <1>10, <2>1 DEF Act, Step

LEMMA LastStep ==
  ASSUME IInv, LastInv, [Next]_vars
  PROVE  LastInv'
<1>1. CASE UNCHANGED vars
  BY <1>1 DEF vars, LastInv, Counted, SetWhileCounted, AllSet, NoneSet, Follows, Meddled
<1>2. ASSUME NEW p \in Procs, Act(p) PROVE LastInv'
  <2> SUFFICES ASSUME ~canUsePerf', Nobody'
               PROVE  LastInv'
    BY DEF LastInv, Nobody
  <2>1. ~canUsePerf /\ canUsePerf' = canUsePerf
    BY <1>2, OthersStay DEF IInv
  <2>2. CASE lock # Free /\ lock # p
    <3>1. /\ lock' = lock /\ Counted' = Counted /\ count' = count /\ pmu' = pmu
          /\ proc'[lock] = proc[lock]
      BY <1>2, <2>1, <2>2, LastElsewhere
    <3>2. /\ count = Cardinality(Counted) /\ Follows(proc[lock].pc, proc[lock].core)
      BY <1>2, <2>1, <2>2, MeddledStays DEF LastInv, Nobody
    <3>3. QED
      BY <2>2, <3>1, <3>2 DEF LastInv, Follows, SetWhileCounted, AllSet, NoneSet
  <2>3. QED
    BY <1>2, <2>1, <2>2, LastFromFree, LastHolding
<1>3. QED
  BY <1>1, <1>2 DEF Next, Act

\* While an instance that allows others is measuring, all cores stay
\* programmed, whoever comes, goes or is killed meanwhile, unless one of the
\* others meddled (cpucounters.cpp:1650-1751, :2594-2606, :2677).
THEOREM RegistersLastWhileMeasured == Spec => []PmuLastsWhileMeasured
<1>1. Init => LastInv
  <2> SUFFICES ASSUME Init
               PROVE  count = Cardinality(Counted) /\ lock = Free /\ SetWhileCounted
    BY DEF LastInv
  <2>1. Counted = {}
    BY DEF Init, Counted
  <2>2. QED
    BY <2>1, FS_EmptySet DEF Init, SetWhileCounted, NoneSet
<1>2. IInv /\ LastInv /\ [Next]_vars => LastInv'
  BY LastStep
<1>3. IInv /\ LastInv => PmuLastsWhileMeasured
  <2> SUFFICES ASSUME IInv, LastInv, ~canUsePerf, NEW p \in Procs, Measures(p), Nobody
               PROVE  AllSet
    BY DEF PmuLastsWhileMeasured, AllSet, Nobody
  <2>1. p \in Counted
    BY DEF IInv, TypeOK, Knows, Measures, At, After, Counted
  <2>2. CASE lock = Free
    BY <2>1, <2>2 DEF LastInv, Nobody, SetWhileCounted
  <2>3. CASE lock # Free
    <3>1. /\ Follows(proc[lock].pc, proc[lock].core)
          /\ proc[lock].pc \in Holding \cup {"cleanup", "killed"}
      BY <2>3 DEF LastInv, Nobody, IInv, Locking
    <3>2. lock # p
      BY <3>1 DEF Measures, At, Holding
    <3>3. QED
      BY <2>1, <3>1, <3>2 DEF Follows, Holding, SetWhileCounted
  <2>4. QED
    BY <2>2, <2>3
<1>4. QED
  BY <1>1, <1>2, <1>3, InstancesInvariant, PTL DEF Spec
=============================================================================
