-------------------------- MODULE PcmDaemon_proofs --------------------------
(***************************************************************************)
(* What the clients of the sensor daemon print, for any number of clients,  *)
(* collections and segments, with daemons that stop or are killed anywhere. *)
(* Both properties are about a daemon's second collection and later ones:   *)
(* what is in its segment by then is its own, whoever had the segment       *)
(* before, since no collection has a later number than polls (NoneLater).   *)
(***************************************************************************)
EXTENDS PcmDaemon, TLAPS

-----------------------------------------------------------------------------
(* The inductive invariant.                                                *)

Spans == [from : Nat, to : Nat]
Times == [from : Nat \cup {Unset}, to : Nat \cup {Unset}]
Segments == [stamp : Nat, core : Spans, memory : Spans, elapsed : Times, energy : Spans,
             outgoing : Spans, incoming : Spans]

Collecting == {"stamped", "core", "memory", "qpi", "swapping"}
Daemons == [pc : {"attached", "cleared", "sleeping"} \cup Collecting, seg : Nat, born : Nat,
            states : Spans, uncore : Spans, time : Times]
ClientStates == [pc : {"detached", "polling", "updated", "printing"}, seg : Nat, last : Nat]

TypeOK ==
  /\ mode \in Modes /\ subscribers \in Subscriptions
  /\ segments \in Seq(Segments) /\ key \in 0..Len(segments) /\ polls \in Nat
  /\ daemon # Down => daemon \in Daemons /\ daemon.seg \in 1..Len(segments) /\ daemon.born <= polls
  /\ client \in [Clients -> ClientStates]
  /\ \A c \in Clients : client[c].pc # "detached" => client[c].seg \in 1..Len(segments)

\* The parts of a segment that the daemon stores to.
Parts == {"core", "memory", "outgoing"}

\* Nothing has been published, or noticed, that was not collected.
NoneLater ==
  /\ \A n \in 1..Len(segments) :
       /\ segments[n].stamp <= polls
       /\ \A part \in Parts : segments[n][part].to <= polls
  /\ \A c \in Clients : client[c].last <= polls

\* The daemon has collected nothing before it sleeps, and something after it has.
Counted == /\ daemon.pc \in {"attached", "cleared"} => daemon.born = polls
           /\ daemon.pc \in Collecting => daemon.born < polls

\* The latest collection of which a part is in the segment.
Latest(part) ==
  IF \/ daemon.pc \in {"sleeping", "swapping"}
     \/ part = "core" /\ daemon.pc \in {"memory", "qpi"}
     \/ part = "memory" /\ daemon.pc = "qpi"
  THEN polls ELSE polls - 1
UpToDate ==
  \A part \in Published :
    daemon.born < Latest(part) => segments[daemon.seg][part].to = Latest(part)

\* The collection from which the next differences are taken.
Since == IF daemon.pc = "sleeping" THEN polls ELSE polls - 1
Measured ==
  /\ daemon.pc \in Collecting \ {"stamped"} => daemon.states.to = polls /\ daemon.time.to = polls
  /\ daemon.pc \in {"qpi", "swapping"} /\ "memory" \in subscribers => daemon.uncore.to = polls
  /\ daemon.born < Since => daemon.time.from = Since
  /\ mode = "difference" /\ daemon.pc \in Collecting \cup {"sleeping"} =>
       /\ daemon.states.from = Since
       /\ "memory" \in subscribers /\ daemon.born < Since => daemon.uncore.from = Since

\* What SpansAreTheLastInterval says of one segment.
Intervals(seg) ==
  mode = "difference" =>
    /\ \A span \in {seg.core, seg.memory, seg.outgoing} :
         daemon.born < span.to - 1 => span.from = span.to - 1
    /\ daemon.born < seg.memory.to - 1 => seg.elapsed = seg.memory

Progress ==
  daemon # Down => Counted /\ UpToDate /\ Measured /\ Intervals(segments[daemon.seg])

IInv == TypeOK /\ NoneLater /\ Progress

-----------------------------------------------------------------------------
(* The types.                                                              *)

\* What it is to store a value in a segment.
LEMMA StoreAt ==
  ASSUME NEW S, NEW f \in Seq(S), NEW k \in 1..Len(f), NEW x \in S, NEW g, g = [f EXCEPT ![k] = x]
  PROVE  g \in Seq(S) /\ Len(g) = Len(f) /\ g[k] = x /\ \A j \in 1..Len(f) : j # k => g[j] = f[j]
OBVIOUS


\* What the daemon stores is in its own segment.
LEMMA Stores ==
  ASSUME TypeOK, daemon # Down, NEW new \in Segments, Store(new)
  PROVE  /\ segments' \in Seq(Segments) /\ Len(segments') = Len(segments)
         /\ segments'[daemon.seg] = new
         /\ \A n \in 1..Len(segments) : n # daemon.seg => segments'[n] = segments[n]
<1>1. segments \in Seq(Segments) /\ daemon.seg \in 1..Len(segments)
  BY DEF TypeOK
<1> QED
  BY <1>1, StoreAt DEF Store

\* Between its start and its end a daemon works on one segment.
AtWork == Clear \/ UpdateBefore \/ Poll

\* What it stores at each step.
Stored ==
  CASE daemon.pc = "attached" -> Cleared
    [] daemon.pc = "sleeping" -> [shared EXCEPT !.stamp = polls']
    [] daemon.pc = "core" /\ "core" \in subscribers -> [shared EXCEPT !.core = daemon.states]
    [] daemon.pc = "memory" /\ "memory" \in subscribers ->
         [shared EXCEPT !.memory = Span(daemon.uncore.from, polls), !.elapsed = daemon.time]
    [] daemon.pc = "qpi" /\ "qpi" \in subscribers /\ Metrics.qpi \cap Available # {} ->
         [shared EXCEPT !.outgoing = daemon.states]
    [] OTHER -> shared

\* What it works with.
LEMMA Working ==
  ASSUME TypeOK, AtWork
  PROVE  /\ daemon # Down /\ daemon \in Daemons /\ daemon.seg \in 1..Len(segments)
         /\ shared \in Segments /\ polls \in Nat /\ polls' \in Nat /\ daemon.born <= polls
         /\ daemon.states \in Spans /\ daemon.uncore \in Spans /\ daemon.time \in Times
         /\ polls' = IF daemon.pc = "sleeping" THEN polls + 1 ELSE polls
         /\ key' = key /\ client' = client /\ mode' = mode /\ subscribers' = subscribers
<1> USE DEF AtWork, Clear, UpdateBefore, Poll, Stamp, Update, GetCore, GetMemory, GetQPI, Swap, options
<1>1. daemon # Down
  BY DEF Down
<1>2. daemon \in Daemons /\ daemon.seg \in 1..Len(segments) /\ segments \in Seq(Segments)
      /\ polls \in Nat /\ daemon.born <= polls
  BY <1>1 DEF TypeOK
<1>3. shared \in Segments
  BY <1>2 DEF shared
<1>4. daemon.states \in Spans /\ daemon.uncore \in Spans /\ daemon.time \in Times
  BY <1>2 DEF Daemons
<1>5. polls' = IF daemon.pc = "sleeping" THEN polls + 1 ELSE polls
  OBVIOUS
<1> QED
  BY <1>1, <1>2, <1>3, <1>4, <1>5

\* Where it stores that.
LEMMA Storing ==
  ASSUME TypeOK, AtWork
  PROVE  /\ segments' \in Seq(Segments) /\ Len(segments') = Len(segments)
         /\ segments'[daemon.seg] = Stored /\ Stored \in Segments
         /\ \A n \in 1..Len(segments) : n # daemon.seg => segments'[n] = segments[n]
<1>1. Stored \in Segments
  <2>1. \A from, to \in Nat : Span(from, to) \in Spans /\ Span(from, to) \in Times
    BY DEF Span, Spans, Times
  <2>2. Cleared \in Segments
    BY <2>1 DEF Cleared, Segments, None
  <2>3. Span(daemon.uncore.from, polls) \in Spans
    BY <2>1, Working DEF Spans
  <2>4. /\ [shared EXCEPT !.stamp = polls'] \in Segments
        /\ [shared EXCEPT !.core = daemon.states] \in Segments
        /\ [shared EXCEPT !.outgoing = daemon.states] \in Segments
    BY Working DEF Segments
  <2>5. [shared EXCEPT !.memory = Span(daemon.uncore.from, polls), !.elapsed = daemon.time] \in Segments
    BY <2>3, Working DEF Segments
  <2> QED
    BY <2>2, <2>4, <2>5, Working DEF Stored
<1>2. Store(Stored) \/ (UNCHANGED segments /\ Stored = shared)
  <2> USE DEF Clear, UpdateBefore, Stamp, Update, GetCore, GetMemory, GetQPI, Swap, Stored, Store
  <2>1. CASE Clear
    BY <2>1
  <2>2. CASE UpdateBefore \/ Update \/ Swap
    BY <2>2
  <2>3. CASE Stamp
    BY <2>3
  <2>4. CASE GetCore
    BY <2>4
  <2>5. CASE GetMemory
    BY <2>5
  <2>6. CASE GetQPI
    BY <2>6
  <2> QED
    BY <2>1, <2>2, <2>3, <2>4, <2>5, <2>6 DEF AtWork, Poll
<1>3. CASE Store(Stored)
  BY <1>1, <1>3, Working, Stores
<1>4. CASE UNCHANGED segments /\ Stored = shared
  BY <1>1, <1>4 DEF TypeOK, shared
<1> QED
  BY <1>2, <1>3, <1>4

\* The step after each.
After ==
  [attached |-> "cleared", cleared |-> "sleeping", sleeping |-> "stamped", stamped |-> "core",
   core |-> "memory", memory |-> "qpi", qpi |-> "swapping", swapping |-> "sleeping"]

\* What becomes of what it works with.
LEMMA Turning ==
  ASSUME TypeOK, AtWork
  PROVE  /\ daemon' # Down /\ daemon' \in Daemons
         /\ daemon'.seg = daemon.seg /\ daemon'.born = daemon.born
         /\ daemon'.pc = After[daemon.pc]
         /\ daemon.pc \notin {"cleared", "stamped", "swapping"} =>
              daemon'.states = daemon.states /\ daemon'.time = daemon.time
         /\ ~ (daemon.pc = "memory" /\ "memory" \in subscribers) /\ daemon.pc # "swapping" =>
              daemon'.uncore = daemon.uncore
         /\ daemon.pc = "cleared" => daemon'.states.from = polls
         /\ daemon.pc = "stamped" => /\ daemon'.states = [daemon.states EXCEPT !.to = polls]
                                     /\ daemon'.time = [daemon.time EXCEPT !.to = polls]
         /\ daemon.pc = "memory" /\ "memory" \in subscribers =>
              daemon'.uncore = Span(daemon.uncore.from, polls)
         /\ daemon.pc = "swapping" => daemon'.time = Swapped(daemon.time)
         /\ daemon.pc = "swapping" /\ mode = "difference" =>
              daemon'.states = Swapped(daemon.states) /\ daemon'.uncore = Swapped(daemon.uncore)
<1> /\ daemon # Down /\ daemon \in Daemons /\ polls \in Nat
    /\ daemon.states \in Spans /\ daemon.uncore \in Spans /\ daemon.time \in Times
  BY Working
<1>1. ASSUME NEW from \in Nat \cup {Unset}, NEW to \in Nat \cup {Unset} PROVE Span(from, to) \in Times
  BY DEF Span, Times
<1>2. ASSUME NEW from \in Nat, NEW to \in Nat PROVE Span(from, to) \in Spans
  BY DEF Span, Spans
<1>3. daemon.pc \in {"attached", "cleared", "sleeping", "stamped", "core", "memory", "qpi", "swapping"}
  BY DEF Daemons, Collecting
<1>4. daemon' \in Daemons
  <2> daemon.pc \in {"attached", "cleared", "sleeping", "stamped", "core", "memory", "qpi", "swapping"}
    BY <1>3
  <2>1. CASE Clear \/ Stamp \/ GetCore \/ GetQPI
    BY <2>1 DEF Clear, Stamp, GetCore, GetQPI, Goto, Daemons, Collecting
  <2>2. CASE UpdateBefore
    <3>1. Span(polls, None) \in Spans /\ Span(Unset, polls) \in Times
      BY <1>1, <1>2 DEF None
    <3> QED
      BY <2>2, <3>1 DEF UpdateBefore, Daemons
  <2>3. CASE Update
    <3>1. [daemon.states EXCEPT !.to = polls] \in Spans /\ [daemon.time EXCEPT !.to = polls] \in Times
      BY DEF Spans, Times
    <3> QED
      BY <2>3, <3>1 DEF Update, Daemons, Collecting
  <2>4. CASE GetMemory
    <3>1. Span(daemon.uncore.from, polls) \in Spans
      BY <1>2 DEF Spans
    <3> QED
      BY <2>4, <3>1 DEF GetMemory, Goto, Daemons, Collecting
  <2>5. CASE Swap
    <3>1. Swapped(daemon.states) \in Spans /\ Swapped(daemon.uncore) \in Spans /\ Swapped(daemon.time) \in Times
      BY <1>1, <1>2 DEF Swapped, Spans, Times
    <3> QED
      BY <2>5, <3>1 DEF Swap, swapPCMBeforeAfterState, Daemons
  <2> QED
    BY <2>1, <2>2, <2>3, <2>4, <2>5 DEF AtWork, Poll
<1>5. daemon'.seg = daemon.seg /\ daemon'.born = daemon.born /\ daemon'.pc = After[daemon.pc]
  <2> USE DEF Daemons, Goto, After
  <2>1. CASE Clear \/ Stamp \/ GetCore \/ GetQPI
    BY <2>1 DEF Clear, Stamp, GetCore, GetQPI
  <2>2. CASE UpdateBefore
    BY <2>2 DEF UpdateBefore
  <2>3. CASE Update
    BY <2>3 DEF Update
  <2>4. CASE GetMemory
    <3>1. CASE "memory" \in subscribers
      <4>1. \E uncore : daemon' = [daemon EXCEPT !.pc = "qpi", !.uncore = uncore]
        BY <2>4, <3>1 DEF GetMemory
      <4>2. daemon.pc = "memory"
        BY <2>4 DEF GetMemory
      <4> QED
        BY <4>1, <4>2
    <3>2. CASE "memory" \notin subscribers
      BY <2>4, <3>2 DEF GetMemory
    <3> QED
      BY <3>1, <3>2
  <2>5. CASE Swap
    BY <2>5 DEF Swap, swapPCMBeforeAfterState
  <2> QED
    BY <2>1, <2>2, <2>3, <2>4, <2>5 DEF AtWork, Poll
<1>6. daemon.pc \notin {"cleared", "stamped", "swapping"} =>
        daemon'.states = daemon.states /\ daemon'.time = daemon.time
  BY DEF AtWork, Poll, Clear, UpdateBefore, Stamp, Update, GetCore, GetMemory, GetQPI, Swap, Goto, Daemons
<1>7. ~ (daemon.pc = "memory" /\ "memory" \in subscribers) /\ daemon.pc # "swapping" =>
        daemon'.uncore = daemon.uncore
  BY DEF AtWork, Poll, Clear, UpdateBefore, Stamp, Update, GetCore, GetMemory, GetQPI, Swap, Goto, Daemons
<1>8. daemon.pc = "cleared" => daemon'.states.from = polls
  <2> SUFFICES ASSUME daemon.pc = "cleared" PROVE daemon'.states.from = polls
    OBVIOUS
  <2>1. UpdateBefore
    BY DEF AtWork, Poll, Clear, Stamp, Update, GetCore, GetMemory, GetQPI, Swap
  <2> QED
    BY <2>1 DEF UpdateBefore, Span, Daemons
<1>9. daemon.pc = "stamped" => /\ daemon'.states = [daemon.states EXCEPT !.to = polls]
                               /\ daemon'.time = [daemon.time EXCEPT !.to = polls]
  <2> SUFFICES ASSUME daemon.pc = "stamped"
               PROVE  /\ daemon'.states = [daemon.states EXCEPT !.to = polls]
                      /\ daemon'.time = [daemon.time EXCEPT !.to = polls]
    OBVIOUS
  <2>1. Update
    BY DEF AtWork, Poll, Clear, UpdateBefore, Stamp, GetCore, GetMemory, GetQPI, Swap
  <2> QED
    BY <2>1 DEF Update, Daemons
<1>10. daemon.pc = "memory" /\ "memory" \in subscribers =>
         daemon'.uncore = Span(daemon.uncore.from, polls)
  <2> SUFFICES ASSUME daemon.pc = "memory", "memory" \in subscribers
               PROVE  daemon'.uncore = Span(daemon.uncore.from, polls)
    OBVIOUS
  <2>1. GetMemory
    BY DEF AtWork, Poll, Clear, UpdateBefore, Stamp, Update, GetCore, GetQPI, Swap
  <2> QED
    BY <2>1 DEF GetMemory, Daemons
<1>11. daemon.pc = "swapping" =>
         /\ daemon'.time = Swapped(daemon.time)
         /\ mode = "difference" => /\ daemon'.states = Swapped(daemon.states)
                                   /\ daemon'.uncore = Swapped(daemon.uncore)
  <2> SUFFICES ASSUME daemon.pc = "swapping"
               PROVE  /\ daemon'.time = Swapped(daemon.time)
                      /\ mode = "difference" => /\ daemon'.states = Swapped(daemon.states)
                                                /\ daemon'.uncore = Swapped(daemon.uncore)
    OBVIOUS
  <2>1. Swap
    BY DEF AtWork, Poll, Clear, UpdateBefore, Stamp, Update, GetCore, GetMemory, GetQPI
  <2> QED
    BY <2>1 DEF Swap, swapPCMBeforeAfterState, Daemons
<1>12. daemon' # Down
  BY <1>3, <1>5 DEF Down, After
<1> QED
  BY <1>4, <1>5, <1>6, <1>7, <1>8, <1>9, <1>10, <1>11, <1>12

\* What the other steps leave alone.
LEMMA Resting ==
  ASSUME TypeOK, [Next]_vars, ~ AtWork
  PROVE  /\ mode' = mode /\ subscribers' = subscribers /\ polls' = polls
         /\ Len(segments') \in Nat /\ Len(segments) <= Len(segments') /\ segments' \in Seq(Segments)
         /\ \A n \in 1..Len(segments) : segments'[n] = segments[n]
         /\ \A n \in 1..Len(segments') : n > Len(segments) => segments'[n] = Cleared
         /\ \/ daemon' = daemon
            \/ daemon' = Down
            \/ daemon' = NewDaemon(key') /\ key' \in 1..Len(segments')
         /\ key' \in 0..Len(segments')
<1> /\ segments \in Seq(Segments) /\ key \in 0..Len(segments)
  BY DEF TypeOK
<1>1. Cleared \in Segments
  BY DEF Cleared, Segments, Span, Spans, Times, None
<1>2. CASE Attach
  <2>1. CASE key # None
    BY <1>2, <2>1 DEF Attach, options, None
  <2>2. CASE key = None
    <3>1. segments' = Append(segments, Cleared) /\ key' = Len(segments) + 1
      BY <1>2, <2>2 DEF Attach
    <3> QED
      BY <1>1, <1>2, <3>1 DEF Attach, options
  <2> QED
    BY <2>1, <2>2
<1>3. CASE Stop \/ Crash
  BY <1>3 DEF Stop, Crash, options, None
<1>4. CASE UNCHANGED vars \/ \E c \in Clients : Start(c) \/ Notice(c) \/ Take(c) \/ Printed(c)
  <2>1. UNCHANGED <<mode, subscribers, segments, key, polls, daemon>>
    BY <1>4 DEF vars, Start, Notice, Take, Printed, options
  <2> QED
    BY <2>1
<1> QED
  BY <1>2, <1>3, <1>4 DEF Next, AtWork

-----------------------------------------------------------------------------
(* The invariant holds.                                                    *)

\* Every step keeps the types.
LEMMA TypesStep == TypeOK /\ [Next]_vars => TypeOK'
<1> SUFFICES ASSUME TypeOK, [Next]_vars PROVE TypeOK'
  OBVIOUS
<1> segments \in Seq(Segments) /\ Len(segments) \in Nat /\ polls \in Nat
  BY DEF TypeOK
<1>1. /\ mode' = mode /\ subscribers' = subscribers /\ polls' \in Nat /\ polls <= polls'
      /\ segments' \in Seq(Segments) /\ key' \in 0..Len(segments')
      /\ Len(segments) <= Len(segments') /\ Len(segments') \in Nat
  BY Working, Storing, Resting DEF TypeOK
<1>2. daemon' # Down =>
        daemon' \in Daemons /\ daemon'.seg \in 1..Len(segments') /\ daemon'.born <= polls'
  <2>1. CASE AtWork
    <3>1. daemon.born \in Nat /\ daemon.born <= polls
      BY <2>1, Working DEF Daemons
    <3>2. daemon.seg \in 1..Len(segments) /\ Len(segments') = Len(segments)
      BY <2>1, Working, Storing
    <3> QED
      BY <1>1, <2>1, <3>1, <3>2, Turning
  <2>2. CASE ~ AtWork
    <3>1. ASSUME key' \in 1..Len(segments')
          PROVE  NewDaemon(key') \in Daemons /\ NewDaemon(key').seg = key' /\ NewDaemon(key').born = polls
      BY <3>1 DEF NewDaemon, Daemons, Span, Spans, Times, None
    <3> QED
      BY <1>1, <2>2, <3>1, Resting DEF TypeOK
  <2> QED
    BY <2>1, <2>2
<1>3. /\ client' \in [Clients -> ClientStates]
      /\ \A c \in Clients : client'[c].pc # "detached" => client'[c].seg \in 1..Len(segments')
  <2> client \in [Clients -> ClientStates] /\ key \in 0..Len(segments)
    BY DEF TypeOK
  <2>1. CASE UNCHANGED client
    BY <1>1, <2>1 DEF TypeOK
  <2>2. ASSUME NEW c \in Clients, Start(c) \/ Notice(c) \/ Take(c) \/ Printed(c)
        PROVE  /\ client' \in [Clients -> ClientStates]
               /\ \A e \in Clients : client'[e].pc # "detached" => client'[e].seg \in 1..Len(segments')
    <3> DEFINE new == client'[c]
    <3>1. segments' = segments
      BY <2>2 DEF Start, Notice, Take, Printed
    <3>2. \A n \in 1..Len(segments) : segments[n] \in Segments /\ segments[n].stamp \in Nat
      <4>1. \A n \in 1..Len(segments) : segments[n] \in Segments
        OBVIOUS
      <4> QED
        BY <4>1 DEF Segments
    <3>3. new \in ClientStates /\ new.seg \in 1..Len(segments) /\ client' = [client EXCEPT ![c] = new]
      <4>1. CASE Start(c)
        BY <3>2, <4>1 DEF Start, None, ClientStates
      <4>2. CASE Notice(c) \/ Printed(c)
        BY <4>2 DEF Notice, Printed, ClientStates, TypeOK
      <4>3. CASE Take(c)
        BY <3>2, <4>3 DEF Take, StampFor, ClientStates, TypeOK
      <4> QED
        BY <2>2, <4>1, <4>2, <4>3
    <3> QED
      BY <3>1, <3>3 DEF TypeOK
  <2>3. UNCHANGED client \/ \E c \in Clients : Start(c) \/ Notice(c) \/ Take(c) \/ Printed(c)
    BY Working DEF Next, AtWork, Attach, Stop, Crash, vars
  <2> QED
    BY <2>1, <2>2, <2>3
<1> QED
  BY <1>1, <1>2, <1>3 DEF TypeOK

\* Nobody publishes or notices what was not collected.
LEMMA NoneLaterStep == TypeOK /\ NoneLater /\ Progress /\ [Next]_vars => NoneLater'
<1> SUFFICES ASSUME TypeOK, NoneLater, Progress, [Next]_vars PROVE NoneLater'
  OBVIOUS
<1> /\ segments \in Seq(Segments) /\ Len(segments) \in Nat /\ polls \in Nat
    /\ segments' \in Seq(Segments) /\ Len(segments') \in Nat /\ polls' \in Nat
    /\ client \in [Clients -> ClientStates]
  BY TypesStep DEF TypeOK
<1> DEFINE Old(seg) == /\ seg.stamp <= polls'
                       /\ seg.core.to <= polls' /\ seg.memory.to <= polls' /\ seg.outgoing.to <= polls'
<1>1. polls <= polls'
  BY Working, Resting
<1>2. \A n \in 1..Len(segments) : Old(segments[n])
  <2> TAKE n \in 1..Len(segments)
  <2>1. segments[n] \in Segments
    OBVIOUS
  <2>2. /\ segments[n].stamp \in Nat /\ segments[n].core.to \in Nat
        /\ segments[n].memory.to \in Nat /\ segments[n].outgoing.to \in Nat
    BY <2>1 DEF Segments, Spans
  <2> QED
    BY SMTT(30), <1>1, <2>2 DEF NoneLater, Parts
<1>3. \A n \in 1..Len(segments') : Old(segments'[n])
  <2>1. Old(Cleared)
    BY DEF Cleared, Span, None
  <2>2. CASE AtWork
    <3> daemon.seg \in 1..Len(segments) /\ daemon.states \in Spans
      BY <2>2, Working
    <3>1. Old(shared) /\ shared \in Segments
      BY <1>2, <2>2, Working DEF shared
    <3>2. daemon.pc \in {"core", "qpi"} => daemon.states.to <= polls'
      BY <1>1, <2>2, Working DEF Progress, Measured, Collecting
    <3>3. Old(Stored)
      <4>1. daemon.pc \in {"core", "qpi"} => /\ Old([shared EXCEPT !.core = daemon.states])
                                             /\ Old([shared EXCEPT !.outgoing = daemon.states])
        BY <3>1, <3>2 DEF Segments
      <4>2. Old([shared EXCEPT !.stamp = polls'])
        BY <3>1 DEF Segments
      <4>3. Old([shared EXCEPT !.memory = Span(daemon.uncore.from, polls), !.elapsed = daemon.time])
        BY <1>1, <3>1 DEF Segments, Span
      <4> QED
        BY <2>1, <3>1, <4>1, <4>2, <4>3 DEF Stored
    <3> QED
      BY <1>2, <2>2, <3>3, Storing
  <2>3. CASE ~ AtWork
    BY <1>2, <2>1, <2>3, Resting
  <2> QED
    BY <2>2, <2>3
<1>4. \A c \in Clients : client'[c].last <= polls'
  <2> TAKE c \in Clients
  <2>1. client[c].last <= polls'
    BY <1>1 DEF NoneLater, TypeOK, ClientStates
  <2>2. CASE client'[c].last = client[c].last
    BY <2>1, <2>2
  <2>3. CASE Start(c)
    BY <1>2, <2>3 DEF Start, TypeOK, None
  <2>4. CASE Take(c)
    BY <1>2, <2>4 DEF Take, StampFor, TypeOK, ClientStates
  <2>5. client'[c].last = client[c].last \/ Start(c) \/ Take(c)
    <3>1. CASE UNCHANGED client
      BY <3>1
    <3>2. ASSUME NEW e \in Clients, Start(e) \/ Notice(e) \/ Take(e) \/ Printed(e)
          PROVE  client'[c].last = client[c].last \/ Start(c) \/ Take(c)
      <4> client[e] \in ClientStates
        OBVIOUS
      <4>1. CASE Start(e)
        BY <4>1 DEF Start
      <4>2. CASE Take(e)
        BY <4>2 DEF Take
      <4>3. CASE Notice(e) \/ Printed(e)
        BY <4>3 DEF Notice, Printed, ClientStates
      <4> QED
        BY <3>2, <4>1, <4>2, <4>3
    <3> QED
      BY <3>1, <3>2, Working DEF Next, AtWork, Attach, Stop, Crash, vars
  <2> QED
    BY <2>2, <2>3, <2>4, <2>5
<1>5. \A n \in 1..Len(segments') : \A part \in Parts : segments'[n][part].to <= polls'
  <2> SUFFICES ASSUME NEW n \in 1..Len(segments'), NEW part \in Parts
               PROVE  segments'[n][part].to <= polls'
    OBVIOUS
  <2>1. part = "core" \/ part = "memory" \/ part = "outgoing"
    BY DEF Parts
  <2> QED
    BY <1>3, <2>1
<1> QED
  BY <1>3, <1>4, <1>5 DEF NoneLater

\* Each metric that is published is a part of its own, of one subscription.
LEMMA PublishedParts ==
  ASSUME TypeOK, NEW part \in Published
  PROVE  /\ part \in Parts /\ (IF part = "outgoing" THEN "qpi" ELSE part) \in subscribers
         /\ part = "outgoing" => Metrics.qpi \cap Available # {}
<1>1. PICK counters \in subscribers : part \in Metrics[counters] /\ part \in Available
  <2>1. part \in UNION {Metrics[counters] : counters \in subscribers} /\ part \in Available
    BY DEF Published, Subscribed
  <2>2. PICK metrics \in {Metrics[counters] : counters \in subscribers} : part \in metrics
    BY <2>1
  <2> QED
    BY <2>1, <2>2
<1>2. counters \in {"core", "memory", "qpi"}
  BY <1>1, DaemonAssumption DEF TypeOK, Metrics
<1>3. part \notin {"energy", "incoming"}
  BY DEF Published, NeverStored
<1> QED
  BY <1>1, <1>2, <1>3 DEF Metrics, Parts

\* What is in the daemon's segment once it has taken a step.
LEMMA UpToDateStep ==
  ASSUME TypeOK, Progress, AtWork
  PROVE  UpToDate'
<1> /\ polls \in Nat /\ daemon.born \in Nat /\ daemon.born <= polls /\ shared \in Segments
    /\ daemon.pc \in {"attached", "cleared", "sleeping"} \cup Collecting
    /\ Counted /\ UpToDate /\ Measured /\ daemon # Down
    /\ polls' = IF daemon.pc = "sleeping" THEN polls + 1 ELSE polls
  BY Working DEF Progress, Daemons
<1> /\ daemon'.born = daemon.born /\ daemon'.pc = After[daemon.pc] /\ segments'[daemon'.seg] = Stored
  BY Turning, Storing
<1> SUFFICES ASSUME NEW part \in Published, daemon.born < Latest(part)'
             PROVE  Stored[part].to = Latest(part)'
  BY Working DEF UpToDate, Published, Subscribed
<1> DEFINE At == IF part = "outgoing" THEN "qpi" ELSE part
<1>1. /\ part \in Parts /\ At \in subscribers
      /\ part = "outgoing" => Metrics.qpi \cap Available # {}
  BY PublishedParts
<1>a. \/ part = "core" /\ At = "core"
      \/ part = "memory" /\ At = "memory"
      \/ part = "outgoing" /\ At = "qpi"
  BY <1>1 DEF Parts
<1> HIDE DEF At
<1>2. daemon.born < Latest(part) => shared[part].to = Latest(part)
  BY DEF UpToDate, shared
<1>3. daemon.pc \notin {"attached", "cleared"}
  BY DEF Counted, Latest, After
<1>4. CASE daemon.pc \in {"sleeping", "stamped", "swapping"}
  <2>1. Latest(part)' = Latest(part) /\ Stored[part] = shared[part]
    BY <1>a, <1>4 DEF Latest, After, Stored, Segments
  <2> QED
    BY <1>2, <2>1
<1>5. CASE daemon.pc \in {"core", "memory", "qpi"} /\ daemon.pc # At
  <2>a. Latest(part)' = Latest(part)
    BY <1>a, <1>5 DEF Latest, After
  <2>1. Latest(part)' = Latest(part) /\ Stored[part] = shared[part]
    <3>1. CASE daemon.pc = "core"
      BY <1>a, <1>5, <2>a, <3>1 DEF Stored, Segments
    <3>2. CASE daemon.pc = "memory"
      BY <1>a, <1>5, <2>a, <3>2 DEF Stored, Segments
    <3>3. CASE daemon.pc = "qpi"
      BY <1>a, <1>5, <2>a, <3>3 DEF Stored, Segments
    <3> QED
      BY <1>5, <3>1, <3>2, <3>3
  <2> QED
    BY <1>2, <2>1
<1>6. CASE daemon.pc = At
  <2>1. Latest(part)' = polls
    BY <1>a, <1>6 DEF Latest, After
  <2>2. CASE part = "core"
    BY <1>a, <1>1, <1>6, <2>1, <2>2 DEF Stored, Segments, Measured, Collecting
  <2>3. CASE part = "memory"
    <3>1. Stored = [shared EXCEPT !.memory = Span(daemon.uncore.from, polls), !.elapsed = daemon.time]
      BY <1>a, <1>1, <1>6, <2>3 DEF Stored
    <3>2. Stored.memory.to = polls
      BY <3>1 DEF Segments, Span
    <3> QED
      BY <2>1, <2>3, <3>2
  <2>4. CASE part = "outgoing"
    BY <1>a, <1>1, <1>6, <2>1, <2>4 DEF Stored, Segments, Measured, Collecting
  <2> QED
    BY <1>a, <2>2, <2>3, <2>4
<1> QED
  BY <1>a, <1>3, <1>4, <1>5, <1>6 DEF Collecting

\* What it has measured, and from when on.
LEMMA MeasuredStep ==
  ASSUME TypeOK, Progress, AtWork
  PROVE  Counted' /\ Measured'
<1> /\ polls \in Nat /\ daemon.born \in Nat /\ daemon.born <= polls
    /\ daemon.pc \in {"attached", "cleared", "sleeping"} \cup Collecting
    /\ daemon.states \in Spans /\ daemon.uncore \in Spans /\ daemon.time \in Times
    /\ Counted /\ Measured /\ mode' = mode /\ subscribers' = subscribers
    /\ polls' = IF daemon.pc = "sleeping" THEN polls + 1 ELSE polls
  BY Working DEF Progress, Daemons
<1> daemon'.born = daemon.born /\ daemon'.pc = After[daemon.pc]
  BY Turning
<1>1. Counted'
  BY DEF Counted, After, Collecting
<1>2. (daemon.pc \in Collecting \ {"stamped"} => daemon.states.to = polls /\ daemon.time.to = polls)'
  <2>1. daemon'.pc \in Collecting \ {"stamped"} =>
          daemon.pc \in {"stamped", "core", "memory", "qpi"} /\ polls' = polls
    BY DEF After, Collecting
  <2>2. daemon.pc = "stamped" => daemon'.states.to = polls /\ daemon'.time.to = polls
    BY Turning DEF Spans, Times
  <2> QED
    BY <2>1, <2>2, Turning DEF Measured, Collecting
<1>3. (daemon.pc \in {"qpi", "swapping"} /\ "memory" \in subscribers => daemon.uncore.to = polls)'
  BY Turning DEF After, Collecting, Measured, Span
<1>4. Since' = IF daemon.pc \in {"cleared", "sleeping", "swapping"} THEN polls ELSE polls - 1
  BY DEF Since, After, Collecting
<1>5. (daemon.born < Since => daemon.time.from = Since)'
  <2> SUFFICES ASSUME daemon.born < Since' PROVE daemon'.time.from = Since'
    OBVIOUS
  <2>1. daemon.pc \notin {"attached", "cleared"}
    BY <1>4 DEF Counted
  <2>2. daemon.pc = "stamped" => daemon'.time.from = daemon.time.from
    BY Turning DEF Times
  <2>3. daemon.pc = "swapping" => daemon'.time.from = daemon.time.to
    BY Turning DEF Swapped, Span
  <2> QED
    BY <1>4, <2>1, <2>2, <2>3, Turning DEF Measured, Since, Collecting
<1>6. (mode = "difference" /\ daemon.pc \in Collecting \cup {"sleeping"} => daemon.states.from = Since)'
  <2> SUFFICES ASSUME mode = "difference" PROVE daemon'.pc \in Collecting \cup {"sleeping"} => daemon'.states.from = Since'
    OBVIOUS
  <2>1. daemon.pc = "stamped" => daemon'.states.from = daemon.states.from
    BY Turning DEF Spans
  <2>2. daemon.pc = "swapping" => daemon'.states.from = daemon.states.to
    BY Turning DEF Swapped, Span
  <2> QED
    BY <1>4, <2>1, <2>2, Turning DEF Measured, Since, Collecting, After
<1>7. (mode = "difference" /\ "memory" \in subscribers /\ daemon.born < Since =>
         daemon.uncore.from = Since)'
  <2> SUFFICES ASSUME mode = "difference", "memory" \in subscribers, daemon.born < Since'
               PROVE  daemon'.uncore.from = Since'
    OBVIOUS
  <2>1. daemon.pc \notin {"attached", "cleared"}
    BY <1>4 DEF Counted
  <2>2. daemon.pc = "memory" => daemon'.uncore.from = daemon.uncore.from
    BY Turning DEF Span
  <2>3. daemon.pc = "swapping" => daemon'.uncore.from = daemon.uncore.to
    BY Turning DEF Swapped, Span
  <2> QED
    BY <1>4, <2>1, <2>2, <2>3, Turning DEF Measured, Since, Collecting
<1> QED
  BY <1>1, <1>2, <1>3, <1>5, <1>6, <1>7 DEF Measured

\* What the daemon's segment has of differences.
LEMMA IntervalsStep ==
  ASSUME TypeOK, Progress, AtWork
  PROVE  Intervals(segments[daemon.seg])'
<1> /\ polls \in Nat /\ daemon.born \in Nat /\ shared \in Segments
    /\ daemon.pc \in {"attached", "cleared", "sleeping"} \cup Collecting
    /\ daemon.states \in Spans /\ daemon.uncore \in Spans /\ daemon.time \in Times
    /\ Measured /\ Intervals(shared)
  BY Working DEF Progress, Daemons, shared
<1> DEFINE Good(seg) ==
      /\ \A span \in {seg.core, seg.memory, seg.outgoing} :
           daemon.born < span.to - 1 => span.from = span.to - 1
      /\ daemon.born < seg.memory.to - 1 => seg.elapsed = seg.memory
<1> SUFFICES ASSUME mode = "difference" PROVE Good(Stored)
  BY Working, Turning, Storing DEF Intervals
<1>1. Good(shared)
  BY DEF Intervals
<1>2. CASE daemon.pc = "attached"
  <2>1. Stored = Cleared
    BY <1>2 DEF Stored
  <2>2. Good(Cleared)
    BY DEF Cleared, Span, None
  <2> QED
    BY <2>1, <2>2
<1>3. CASE daemon.pc = "sleeping"
  BY <1>1, <1>3 DEF Stored, Segments
<1>4. CASE daemon.pc = "core" /\ "core" \in subscribers
  <2>1. daemon.states.to = polls /\ daemon.states.from = polls - 1
    BY <1>4 DEF Measured, Since, Collecting
  <2> QED
    BY <1>1, <1>4, <2>1 DEF Stored, Segments
<1>5. CASE daemon.pc = "qpi" /\ "qpi" \in subscribers /\ Metrics.qpi \cap Available # {}
  <2>1. daemon.states.to = polls /\ daemon.states.from = polls - 1
    BY <1>5 DEF Measured, Since, Collecting
  <2> QED
    BY <1>1, <1>5, <2>1 DEF Stored, Segments
<1>6. CASE daemon.pc = "memory" /\ "memory" \in subscribers
  <2> DEFINE memory == Span(daemon.uncore.from, polls)
  <2>1. /\ daemon.time.to = polls
        /\ daemon.born < polls - 1 => daemon.uncore.from = polls - 1 /\ daemon.time.from = polls - 1
    BY <1>6 DEF Measured, Since, Collecting
  <2>2. memory.to = polls /\ memory.from = daemon.uncore.from
    BY DEF Span
  <2>3. daemon.born < polls - 1 => daemon.time = memory
    BY <2>1, <2>2 DEF Span, Times
  <2>4. Stored = [shared EXCEPT !.memory = memory, !.elapsed = daemon.time]
    BY <1>6 DEF Stored
  <2>5. Stored.memory = memory /\ Stored.elapsed = daemon.time
        /\ Stored.core = shared.core /\ Stored.outgoing = shared.outgoing
    BY <2>4 DEF Segments
  <2> QED
    BY <1>1, <2>1, <2>2, <2>3, <2>5
<1>7. CASE Stored = shared
  BY <1>1, <1>7
<1>8. \/ daemon.pc = "attached"
      \/ daemon.pc = "sleeping"
      \/ daemon.pc = "core" /\ "core" \in subscribers
      \/ daemon.pc = "qpi" /\ "qpi" \in subscribers /\ Metrics.qpi \cap Available # {}
      \/ daemon.pc = "memory" /\ "memory" \in subscribers
      \/ Stored = shared
  BY DEF Stored
<1> QED
  BY <1>2, <1>3, <1>4, <1>5, <1>6, <1>7, <1>8

\* Every step keeps what is known of the running daemon.
LEMMA ProgressStep == TypeOK /\ NoneLater /\ Progress /\ [Next]_vars => Progress'
<1> SUFFICES ASSUME TypeOK, NoneLater, Progress, [Next]_vars, daemon' # Down
             PROVE  (Counted /\ UpToDate /\ Measured /\ Intervals(segments[daemon.seg]))'
  BY DEF Progress
<1>1. CASE AtWork
  BY <1>1, UpToDateStep, MeasuredStep, IntervalsStep
<1>2. CASE ~ AtWork /\ daemon' = daemon
  <2>1. segments'[daemon.seg] = segments[daemon.seg]
    BY <1>2, Resting DEF TypeOK
  <2>2. Counted /\ UpToDate /\ Measured /\ Intervals(segments[daemon.seg])
    BY <1>2 DEF Progress
  <2>3. polls' = polls /\ mode' = mode /\ subscribers' = subscribers
    BY <1>2, Resting
  <2> QED
    BY <1>2, <2>1, <2>2, <2>3 DEF Counted, UpToDate, Published, Subscribed, Latest, Measured, Since, Intervals
<1>3. CASE ~ AtWork /\ daemon' = NewDaemon(key') /\ key' \in 1..Len(segments')
  <2>1. daemon'.pc = "attached" /\ daemon'.born = polls' /\ daemon'.seg = key'
    BY <1>3, Resting DEF NewDaemon
  <2>2. segments'[key'] \in Segments /\ polls' \in Nat
    BY <1>3, TypesStep DEF TypeOK
  <2>3. /\ segments'[key'].core.to <= polls' /\ segments'[key'].memory.to <= polls'
        /\ segments'[key'].outgoing.to <= polls'
    BY <1>3, NoneLaterStep DEF NoneLater, Parts
  <2>4. (Counted /\ UpToDate /\ Measured)'
    <3>1. Counted'
      BY <2>1, <2>2 DEF Counted, Collecting
    <3>2. UpToDate'
      <4>1. \A part : Latest(part)' = polls' - 1
        BY <2>1 DEF Latest
      <4> QED
        BY <2>1, <2>2, <4>1 DEF UpToDate
    <3>3. Measured'
      <4>1. ~ (daemon.born < Since)'
        BY <2>1, <2>2 DEF Since
      <4>2. daemon'.pc \notin Collecting \cup {"sleeping", "qpi", "swapping"}
        BY <2>1 DEF Collecting
      <4> QED
        BY <4>1, <4>2 DEF Measured
    <3> QED
      BY <3>1, <3>2, <3>3
  <2>5. /\ segments'[key'].core.to \in Nat /\ segments'[key'].memory.to \in Nat
        /\ segments'[key'].outgoing.to \in Nat
    BY <2>2 DEF Segments, Spans
  <2>6. Intervals(segments[daemon.seg])'
    BY <2>1, <2>2, <2>3, <2>5 DEF Intervals
  <2> QED
    BY <2>4, <2>6
<1> QED
  BY <1>1, <1>2, <1>3, Resting

\* At first there is neither a segment nor a daemon.
LEMMA InitIInv == Init => IInv
<1> SUFFICES ASSUME Init PROVE IInv
  OBVIOUS
<1>1. TypeOK
  BY DEF Init, TypeOK, ClientStates, None
<1>2. NoneLater
  BY DEF Init, NoneLater, None
<1> QED
  BY <1>1, <1>2 DEF IInv, Init, Progress

\* So it is an invariant.
LEMMA Inductive == Spec => []IInv
<1>1. IInv /\ [Next]_vars => IInv'
  BY TypesStep, NoneLaterStep, ProgressStep DEF IInv
<1> QED
  BY <1>1, InitIInv, PTL DEF Spec

-----------------------------------------------------------------------------
(* The theorems.                                                           *)

\* Daemons attach to segments that exist, clients to ones that were there when they came, and
\* every part of a segment has the number of a collection (daemon.cpp:317-354).
THEOREM TypesAreKept == Spec => []TypeOK
BY Inductive, PTL DEF IInv

\* From the second collection of a daemon on, what is printed of the metrics that it publishes,
\* all that are subscribed to but the energy of the memory and incoming traffic, is of the
\* collection that the client has noticed, of the one before it, or of a later one, though
\* nothing keeps the daemon from storing meanwhile (daemon.cpp:371-392, client.cpp:54-79).
THEOREM PrintedIsRecent == Spec => []NothingOlderIsPrinted
<1>1. IInv => NothingOlderIsPrinted
  <2> SUFFICES ASSUME IInv, NEW c \in Clients, Before(client[c].last), client[c].seg = daemon.seg,
                      NEW part \in Published
               PROVE  segments[client[c].seg][part].to >= client[c].last - 1
    BY DEF NothingOlderIsPrinted, Printing, IsRecent
  <2>1. daemon # Down /\ daemon.born < client[c].last - 1 /\ client[c].last <= polls
    BY DEF Before, IInv, NoneLater
  <2>2. daemon.born \in Nat /\ client[c].last \in Nat /\ polls \in Nat
    BY <2>1 DEF IInv, TypeOK, Daemons, ClientStates
  <2>3. Latest(part) \in {polls - 1, polls}
    BY DEF Latest
  <2>4. segments[daemon.seg][part].to = Latest(part)
    BY <2>1, <2>2, <2>3 DEF IInv, Progress, UpToDate
  <2> QED
    BY <2>1, <2>2, <2>3, <2>4
<1> QED
  BY <1>1, Inductive, PTL

\* Published differences are those of two collections in a row, and bandwidths are divided by
\* the time between the same two (daemon.cpp:392-425, :524).
THEOREM DifferencesAreOfOneInterval == Spec => []SpansAreTheLastInterval
<1>1. IInv => SpansAreTheLastInterval
  BY DEF IInv, Progress, Intervals, SpansAreTheLastInterval, Before
<1> QED
  BY <1>1, Inductive, PTL
=============================================================================
