---------------------------- MODULE PcmInstances ----------------------------
(***************************************************************************)
(* The processes of one machine that use the processor counter monitor      *)
(* (pcm/cpucounters.cpp, pcm/utils.cpp): the tool pcm, with or without      *)
(* --multiple-instances and -reset, and the benchmark driver with --pcm.    *)
(* They share the registers of the cores, a semaphore that is a lock, and   *)
(* one that counts the instances. Both semaphores outlive the processes.    *)
(*                                                                         *)
(* A process has one thread: a signal handler runs in place of what it      *)
(* interrupts, and never returns to it. Every process may read and write    *)
(* the registers (MSR is not empty), and none is blocked on a child.        *)
(***************************************************************************)
EXTENDS Naturals, FiniteSets

CONSTANTS Procs,
          NumCores,
          Machines,  \* what runs on a machine: an Option for each process
          Free       \* no process

Option == [allow : BOOLEAN, reset : BOOLEAN, handlers : BOOLEAN]

ASSUME InstancesAssumption ==
  /\ NumCores \in Nat \ {0}
  /\ Machines \subseteq [Procs -> Option]
  /\ Free \notin Procs

Cores == 1 .. NumCores

VARIABLES lock,       \* who has taken PCM_INSTANCE_LOCK_SEMAPHORE_NAME
          count,      \* the value of PCM_NUM_INSTANCES_SEMAPHORE_NAME
          pmu,        \* the cores whose event select registers are set
          handles,    \* the processes that have perf events open
          canUsePerf, \* built with, and run on, Linux perf
          option,     \* the command line of each process
          proc        \* what each process knows
vars == <<lock, count, pmu, handles, canUsePerf, option, proc>>
fixed == <<canUsePerf, option>>

pcs == {"start", "constructing", "made", "ready", "locked", "checking", "programming",
        "measuring", "refused", "cleanup", "zeroing", "freeing", "gone", "killed"}

Init == /\ lock = Free /\ count = 0
        /\ pmu = [c \in Cores |-> FALSE]
        /\ handles = {}
        /\ canUsePerf \in BOOLEAN
        /\ option \in Machines
        /\ proc = [p \in Procs |->
                     [pc |-> "start", core |-> 1,
                      mutex |-> FALSE,      \* processIntanceMutex
                      allow |-> FALSE,      \* allow_multiple_instances
                      sem |-> FALSE,        \* numInstancesSemaphore is open
                      programmed |-> FALSE, \* programmed_pmu
                      refused |-> FALSE,    \* program() has returned an error
                      cleaned |-> FALSE]]   \* cleanup() has been called

At(p, pc) == proc[p].pc = pc
Becomes(p, state) == proc' = [proc EXCEPT ![p] = state]

\* InstanceLock: the semaphore for those that allow others, else the own mutex.
CanLock(p) == IF proc[p].allow THEN lock = Free ELSE ~proc[p].mutex
TakeLock(p) == lock' = IF proc[p].allow THEN p ELSE lock
GiveLock_Counted(p) == lock' = IF proc[p].allow /\ proc[p].sem THEN Free ELSE lock
GiveLock(p) == lock' = IF proc[p].allow THEN Free ELSE lock

(* decrementInstanceSemaphore(): what becomes of count, and the answer.     *)
CountOut(p) == count' = IF proc[p].allow /\ proc[p].sem /\ count > 0 THEN count - 1 ELSE count
IsLast_Always(p) == IF proc[p].allow THEN TRUE ELSE proc[p].programmed
IsLast_TooLate(p) == IF proc[p].allow THEN ~proc[p].sem \/ count = 0 ELSE proc[p].programmed
IsLast(p) == IF proc[p].allow THEN ~proc[p].sem \/ count = 1 ELSE proc[p].programmed

-----------------------------------------------------------------------------
(* getInstance(): the constructor, under the mutex of the process.          *)
GetInstance(p) == /\ At(p, "start")
                  /\ Becomes(p, [proc[p] EXCEPT !.pc = "constructing", !.mutex = TRUE])
                  /\ UNCHANGED <<lock, count, pmu, handles, fixed>>

Constructed(p) == /\ At(p, "constructing")
                  /\ Becomes(p, [proc[p] EXCEPT !.pc = "made", !.mutex = FALSE])
                  /\ UNCHANGED <<lock, count, pmu, handles, fixed>>

resetPMU == [c \in Cores |-> FALSE]

(* What the command line asks for before program().                         *)
Prepare(p) == /\ At(p, "made")
              /\ pmu' = IF option[p].reset THEN resetPMU ELSE pmu
              /\ Becomes(p, [proc[p] EXCEPT !.pc = "ready", !.allow = option[p].allow])
              /\ UNCHANGED <<lock, count, handles, fixed>>

LockToProgram(p) == /\ At(p, "ready") /\ CanLock(p) /\ TakeLock(p)
                    /\ Becomes(p, [proc[p] EXCEPT !.pc = "locked", !.mutex = ~proc[p].allow])
                    /\ UNCHANGED <<count, pmu, handles, fixed>>

Refuse(p) == /\ Becomes(p, [proc[p] EXCEPT !.pc = "refused", !.refused = TRUE, !.core = 1,
                                     !.mutex = FALSE, !.sem = proc[p].allow])
             /\ GiveLock(p)

(* program() counts the instance in. Where others have been counted it       *)
(* measures along with what they have programmed, but not with perf, where  *)
(* the events belong to one process; the first goes on to the registers.    *)
Others_BesidesOne(p) == proc[p].allow /\ count > 1
Others(p) == proc[p].allow /\ count > 0

Join(p) == /\ At(p, "locked") /\ Others(p) /\ ~canUsePerf
           /\ count' = count + 1
           /\ Becomes(p, [proc[p] EXCEPT !.pc = "measuring", !.sem = TRUE])
           /\ GiveLock(p)
           /\ UNCHANGED <<pmu, handles, fixed>>

RefusePerf(p) == /\ At(p, "locked") /\ Others(p) /\ canUsePerf
                 /\ count' = (count + 1) - 1
                 /\ Refuse(p)
                 /\ UNCHANGED <<pmu, handles, fixed>>

BeFirst(p) == /\ At(p, "locked") /\ ~Others(p)
              /\ count' = IF proc[p].allow THEN count + 1 ELSE count
              /\ Becomes(p, [proc[p] EXCEPT !.pc = IF canUsePerf THEN "programming" ELSE "checking",
                                          !.sem = proc[p].allow, !.programmed = canUsePerf])
              /\ UNCHANGED <<lock, pmu, handles, fixed>>

(* PMUinUse(), core by core.                                                *)
CheckCore(p) ==
  LET c == proc[p].core IN
  /\ At(p, "checking")
  /\ \/ pmu[c] /\ CountOut(p) /\ Refuse(p)
     \/ /\ ~pmu[c]
        /\ IF c < NumCores
           THEN Becomes(p, [proc[p] EXCEPT !.core = c + 1])
           ELSE Becomes(p, [proc[p] EXCEPT !.pc = "programming", !.programmed = TRUE, !.core = 1])
        /\ UNCHANGED <<lock, count>>
  /\ UNCHANGED <<pmu, handles, fixed>>

ProgramCore(p) ==
  LET c == proc[p].core IN
  /\ At(p, "programming")
  /\ IF canUsePerf THEN handles' = handles \cup {p} /\ pmu' = pmu
                   ELSE pmu' = [pmu EXCEPT ![c] = TRUE] /\ handles' = handles
  /\ IF c < NumCores
     THEN Becomes(p, [proc[p] EXCEPT !.core = c + 1]) /\ UNCHANGED lock
     ELSE /\ Becomes(p, [proc[p] EXCEPT !.pc = "measuring", !.core = 1, !.mutex = FALSE])
          /\ GiveLock(p)
  /\ UNCHANGED <<count, fixed>>

(* perf_event_open fails; what has been opened before stays open.           *)
PerfFails(p) == /\ At(p, "programming") /\ canUsePerf
                /\ CountOut(p) /\ Refuse(p)
                /\ UNCHANGED <<pmu, handles, fixed>>

-----------------------------------------------------------------------------
Die(p) == Becomes(p, [proc[p] EXCEPT !.pc = "gone"]) /\ handles' = handles \ {p}

(* exit(), whose handler is exit_cleanup; the driver installs none.         *)
Exit(p) == /\ At(p, "measuring") \/ At(p, "refused")
           /\ IF option[p].handlers
              THEN Becomes(p, [proc[p] EXCEPT !.pc = "cleanup"]) /\ UNCHANGED handles
              ELSE Die(p)
           /\ UNCHANGED <<lock, count, pmu, fixed>>

(* sigINT_handler, at any point of the program.                             *)
Signal(p) == /\ option[p].handlers
             /\ proc[p].pc \notin {"cleanup", "zeroing", "freeing", "gone", "killed"}
             /\ Becomes(p, [proc[p] EXCEPT !.pc = "cleanup", !.core = 1])
             /\ UNCHANGED <<lock, count, pmu, handles, fixed>>

(* A signal that is not handled, a second one among them: exit_cleanup has  *)
(* restored the default handlers.                                           *)
Kill(p) == /\ ~At(p, "gone") /\ ~At(p, "killed")
           /\ Becomes(p, [proc[p] EXCEPT !.pc = "killed", !.core = 1])
           /\ handles' = handles \ {p}
           /\ UNCHANGED <<lock, count, pmu, fixed>>

(* cleanup(), which waits for the lock whatever it has interrupted.         *)
Cleanup(p) == /\ At(p, "cleanup") /\ CanLock(p) /\ TakeLock(p)
              /\ CountOut(p)
              /\ Becomes(p, [proc[p] EXCEPT !.pc = IF IsLast(p) THEN "zeroing" ELSE "freeing",
                                         !.mutex = ~proc[p].allow, !.cleaned = TRUE, !.core = 1])
              /\ UNCHANGED <<pmu, handles, fixed>>

CleanupPMU(p) ==
  LET c == proc[p].core IN
  /\ At(p, "zeroing")
  /\ IF canUsePerf THEN handles' = handles \ {p} /\ pmu' = pmu
                   ELSE pmu' = [pmu EXCEPT ![c] = FALSE] /\ handles' = handles
  /\ IF c < NumCores THEN Becomes(p, [proc[p] EXCEPT !.core = c + 1])
                     ELSE Becomes(p, [proc[p] EXCEPT !.pc = "freeing", !.core = 1])
  /\ UNCHANGED <<lock, count, fixed>>

FreeRMID(p) == /\ At(p, "freeing")
               /\ GiveLock(p) /\ Die(p)
               /\ UNCHANGED <<count, pmu, fixed>>

Step(p) == \/ Constructed(p) \/ Prepare(p) \/ LockToProgram(p) \/ Join(p) \/ RefusePerf(p)
           \/ BeFirst(p) \/ CheckCore(p) \/ ProgramCore(p) \/ (At(p, "refused") /\ Exit(p))
           \/ Cleanup(p) \/ CleanupPMU(p) \/ FreeRMID(p)

Next == \E p \in Procs : \/ GetInstance(p) \/ Step(p) \/ PerfFails(p)
                         \/ Exit(p) \/ Signal(p) \/ Kill(p)

Spec == Init /\ [][Next]_vars
FairSpec == Spec /\ \A p \in Procs : WF_vars(Step(p))
-----------------------------------------------------------------------------
Measures(p) == proc[p].allow /\ At(p, "measuring")

(* While an instance that allows others is measuring, all cores stay        *)
(* programmed, whoever comes, goes or is killed meanwhile, unless one of    *)
(* the others meddled: it did not allow others itself and programmed, or    *)
(* reset the registers, or cleaned up although program() had not counted it *)
(* in: a signal before, or while, it waits for the lock                     *)
(* (cpucounters.cpp:1650-1751, :2594-2606, :2677).                          *)
Meddled(q) == \/ ~proc[q].allow /\ proc[q].programmed
              \/ option[q].reset /\ proc[q].pc \notin {"start", "constructing", "made"}
              \/ proc[q].allow /\ proc[q].cleaned /\ ~proc[q].sem
PmuLastsWhileMeasured ==
  ~canUsePerf /\ (\E p \in Procs : Measures(p)) /\ (\E c \in Cores : ~pmu[c])
    => \E q \in Procs : Meddled(q)

(* At most one instance at a time measures with perf, unless one that was   *)
(* refused has been counted out a second time (cpucounters.cpp:1718-1730).  *)
OnePerfClient ==
  canUsePerf /\ Cardinality({p \in handles : Measures(p)}) > 1
    => \E q \in Procs : proc[q].refused /\ proc[q].cleaned

(* When all that came have gone, on their own or by a signal, the registers *)
(* are as they were found and nobody is counted: the last one sees to that, *)
(* unless it installed no handlers (cpucounters.cpp:2594-2743).             *)
PmuIsGivenBack ==
  (\A p \in Procs : \/ At(p, "start")
                    \/ At(p, "gone") /\ option[p].handlers)
    => count = 0 /\ \A c \in Cores : ~pmu[c]

(* A process that has begun gets to measure or ends, and one that cleans up *)
(* ends, unless the lock is lost: its owner was killed, or was interrupted  *)
(* while it held the lock and now waits for itself (cpucounters.cpp:177,    *)
(* utils.cpp:33-51).                                                        *)
LockIsLost(p) == \/ lock # Free /\ (At(lock, "killed") \/ At(lock, "cleanup"))
                 \/ At(p, "cleanup") /\ proc[p].mutex
EveryInstanceGetsOn ==
  \A p \in Procs : ~At(p, "start") /\ ~At(p, "measuring")
                    ~> proc[p].pc \in {"measuring", "gone", "killed"} \/ LockIsLost(p)
=============================================================================
