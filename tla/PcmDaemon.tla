------------------------------ MODULE PcmDaemon ------------------------------
(***************************************************************************)
(* The sensor daemon (pcm/daemon/daemon/daemon.cpp) and its clients         *)
(* (pcm/daemon/client), which share one System V segment and nothing else:  *)
(* no lock, and no sign of when what a client reads is complete.            *)
(*                                                                         *)
(* A value that is read or published is the number of the collection that   *)
(* it was read in; lastUpdateTsc is the number of the latest.               *)
(***************************************************************************)
EXTENDS Naturals, Sequences

CONSTANTS Clients,
          Modes,          \* a subset of {"difference", "absolute"}
          Subscriptions,  \* which counters -c may ask for
          Available,      \* the metrics that the machine can measure
          MaxPolls,       \* bound on the collections of all daemons together
          MaxSegments     \* bound on the segments that are ever created

\* What a subscription is to: a client prints each of these from a part of its own.
Metrics == [core |-> {"core"}, memory |-> {"memory", "energy"}, qpi |-> {"outgoing", "incoming"}]

ASSUME DaemonAssumption ==
  /\ Modes \subseteq {"difference", "absolute"}
  /\ Subscriptions \subseteq (SUBSET DOMAIN Metrics) \ {{}}
  /\ Available \subseteq UNION {Metrics[counters] : counters \in DOMAIN Metrics}
  /\ MaxPolls \in Nat /\ MaxSegments \in Nat

None == 0                  \* no segment, and what memset leaves in one
Unset == "uninitialized"   \* collectionTimeBefore_ of a new daemon

VARIABLES mode, subscribers,  \* the options of the daemon
          segments,           \* the shared memory, each with its contents
          key,                \* the segment that shmget finds, or None
          polls,              \* collections so far
          daemon,             \* the daemon: its pc, its segment, its states
          client              \* each client: its pc, its segment, lastUpdatedClientTsc_
vars == <<mode, subscribers, segments, key, polls, daemon, client>>

Span(from, to) == [from |-> from, to |-> to]
Cleared == [stamp |-> None, core |-> Span(None, None),
            memory |-> Span(None, None), elapsed |-> Span(None, None), energy |-> Span(None, None),
            outgoing |-> Span(None, None), incoming |-> Span(None, None)]

Down == [pc |-> "down"]
NewDaemon(seg) == [pc |-> "attached", seg |-> seg, born |-> polls,
                   states |-> Span(None, None),   \* systemStates..., socketStates..., coreStates...
                   uncore |-> Span(None, None),   \* serverUncorePowerStates...
                   time |-> Span(Unset, Unset)]   \* collectionTime...

Init == /\ mode \in Modes /\ subscribers \in Subscriptions
        /\ segments = <<>> /\ key = None /\ polls = 0
        /\ daemon = Down
        /\ client = [c \in Clients |-> [pc |-> "detached", seg |-> None, last |-> None]]

options == <<mode, subscribers>>
Goto(pc) == daemon' = [daemon EXCEPT !.pc = pc]
shared == segments[daemon.seg]
Store(contents) == segments' = [segments EXCEPT ![daemon.seg] = contents]

-----------------------------------------------------------------------------
(* setupSharedMemory(): a segment that another daemon has left is used      *)
(* again, and cleared only after it has been attached.                      *)
Attach == /\ daemon = Down /\ polls < MaxPolls
          /\ IF key # None THEN UNCHANGED <<segments, key>>
             ELSE /\ Len(segments) < MaxSegments
                  /\ segments' = Append(segments, Cleared) /\ key' = Len(segments) + 1
          /\ daemon' = NewDaemon(key')
          /\ UNCHANGED <<options, polls, client>>

Clear == /\ daemon.pc = "attached"
         /\ Store(Cleared)
         /\ Goto("cleared")
         /\ UNCHANGED <<options, key, polls, client>>

(* The constructor ends with updatePCMState of the states "before", which   *)
(* stores the time as the one "after".                                      *)
UpdateBefore == /\ daemon.pc = "cleared"
                /\ daemon' = [daemon EXCEPT !.pc = "sleeping", !.states = Span(polls, None),
                                            !.time = Span(Unset, polls)]
                /\ UNCHANGED <<options, segments, key, polls, client>>

(* getPCMCounters(), one part of the segment after the other.               *)
Stamp == /\ daemon.pc = "sleeping" /\ polls < MaxPolls
         /\ polls' = polls + 1
         /\ Store([shared EXCEPT !.stamp = polls'])
         /\ Goto("stamped")
         /\ UNCHANGED <<options, key, client>>

Update == /\ daemon.pc = "stamped"
          /\ daemon' = [daemon EXCEPT !.pc = "core", !.states.to = polls, !.time.to = polls]
          /\ UNCHANGED <<options, segments, key, polls, client>>

GetCore_IntoACopy == /\ daemon.pc = "core"
                     /\ Goto("memory")
                     /\ UNCHANGED <<options, segments, key, polls, client>>

GetCore == /\ daemon.pc = "core"
           /\ Store(IF "core" \in subscribers THEN [shared EXCEPT !.core = daemon.states] ELSE shared)
           /\ Goto("memory")
           /\ UNCHANGED <<options, key, polls, client>>

(* The bandwidth reaches the segment. The energy of the memory and the flag *)
(* that tells of it are stored to a copy of this part of it (526-532).      *)
GetMemory ==
  LET uncore == Span(daemon.uncore.from, polls) IN
  /\ daemon.pc = "memory"
  /\ IF "memory" \in subscribers
     THEN /\ Store([shared EXCEPT !.memory = uncore, !.elapsed = daemon.time])
          /\ daemon' = [daemon EXCEPT !.pc = "qpi", !.uncore = uncore]
     ELSE Store(shared) /\ Goto("qpi")
  /\ UNCHANGED <<options, key, polls, client>>

(* Incoming traffic, where it is available, is stored to the links of the   *)
(* outgoing (624-633), and outgoing traffic over that, where it is: nothing *)
(* is ever stored to the links of the incoming, which are summed up.        *)
GetQPI == /\ daemon.pc = "qpi"
          /\ Store(IF "qpi" \in subscribers /\ Metrics.qpi \cap Available # {}
                   THEN [shared EXCEPT !.outgoing = daemon.states] ELSE shared)
          /\ Goto("swapping")
          /\ UNCHANGED <<options, key, polls, client>>

Swapped(span) == Span(span.to, span.from)
swapPCMBeforeAfterState_NotUncore(d) == [d EXCEPT !.states = Swapped(@)]
swapPCMBeforeAfterState(d) == [d EXCEPT !.states = Swapped(@), !.uncore = Swapped(@)]

Swap == LET swapped == [daemon EXCEPT !.pc = "sleeping", !.time = Swapped(@)] IN
        /\ daemon.pc = "swapping"
        /\ daemon' = IF mode = "difference" THEN swapPCMBeforeAfterState(swapped) ELSE swapped
        /\ UNCHANGED <<options, segments, key, polls, client>>

(* exit_cleanup calls Daemon::cleanup: nobody finds the segment any more,   *)
(* those that have it attached keep it.                                     *)
Stop == /\ daemon # Down
        /\ daemon' = Down /\ key' = None
        /\ UNCHANGED <<options, segments, polls, client>>

Crash == /\ daemon # Down
         /\ daemon' = Down
         /\ UNCHANGED <<options, segments, key, polls, client>>

-----------------------------------------------------------------------------
StampFor(c) == segments[client[c].seg].stamp

\* The constructor of Client; it throws where there is no segment.
Start(c) == /\ client[c].pc = "detached" /\ key # None
            /\ client' = [client EXCEPT ![c] = [pc |-> "polling", seg |-> key, last |-> segments[key].stamp]]
            /\ UNCHANGED <<options, segments, key, polls, daemon>>

(* read(): countersHaveUpdated() and the next line load the stamp anew.     *)
Notice(c) == /\ client[c].pc = "polling" /\ client[c].last # StampFor(c)
             /\ client' = [client EXCEPT ![c].pc = "updated"]
             /\ UNCHANGED <<options, segments, key, polls, daemon>>

Take(c) == /\ client[c].pc = "updated"
           /\ client' = [client EXCEPT ![c] = [@ EXCEPT !.pc = "printing", !.last = StampFor(c)]]
           /\ UNCHANGED <<options, segments, key, polls, daemon>>

\* main() prints from the segment itself, whatever is stored there meanwhile.
Printed(c) == /\ client[c].pc = "printing"
              /\ client' = [client EXCEPT ![c].pc = "polling"]
              /\ UNCHANGED <<options, segments, key, polls, daemon>>

Poll == Stamp \/ Update \/ GetCore \/ GetMemory \/ GetQPI \/ Swap
Next == \/ Attach \/ Clear \/ UpdateBefore \/ Poll \/ Stop \/ Crash
        \/ \E c \in Clients : Start(c) \/ Notice(c) \/ Take(c) \/ Printed(c)
Spec == Init /\ [][Next]_vars
-----------------------------------------------------------------------------
(* The collections that the running daemon has made before this one.        *)
Before(poll) == daemon # Down /\ daemon.born < poll - 1

\* What a client that reads the daemon's segment should print.
Subscribed == Available \cap UNION {Metrics[counters] : counters \in subscribers}
\* Two metrics of these the daemon measures and never publishes (daemon.cpp:526, :624).
NeverStored == {"energy", "incoming"}
Published == Subscribed \ NeverStored

\* The client has found a stamp of the running daemon, other than its first, and prints now.
Printing(c) == client[c].pc = "printing" /\ Before(client[c].last) /\ client[c].seg = daemon.seg
IsRecent(c, part) == segments[client[c].seg][part].to >= client[c].last - 1

(* A client prints a mixture of two collections at worst: every metric that *)
(* is subscribed to, the energy of the memory and incoming traffic apart,   *)
(* comes from the collection whose stamp the client took, from the one      *)
(* before it, or from a later one, unless the daemon has just been started  *)
(* (daemon.cpp:371-392, client.cpp:54-79).                                  *)
NothingOlderIsPrinted == \A c \in Clients : Printing(c) => \A part \in Published : IsRecent(c, part)

(* In mode "difference", from the second collection of a daemon on, what is *)
(* published is the difference of two collections in a row, and the time    *)
(* that the bandwidth is divided by lies between the same two               *)
(* (daemon.cpp:392-425, :524). Energy and incoming traffic are not          *)
(* published.                                                               *)
SpansAreTheLastInterval ==
  mode = "difference" /\ daemon # Down =>
    LET seg == segments[daemon.seg] IN
    /\ \A span \in {seg.core, seg.memory, seg.outgoing} :
         span.to # None /\ Before(span.to) => span.from = span.to - 1
    /\ Before(seg.memory.to) => seg.elapsed = seg.memory
=============================================================================
