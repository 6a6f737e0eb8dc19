----------------------- MODULE ReadOnlyCommandsProofs -----------------------
(***************************************************************************)
(* What the commands that change nothing tell is true, for any counters,   *)
(* memories, power model, limit, services, policies, host, snapshot and    *)
(* number of other commands.                                               *)
(*                                                                         *)
(* Each command has an inductive invariant of its own, and a step of one   *)
(* leaves the variables of the others as they are.                         *)
(*                                                                         *)
(* observe: the heartbeats collected and those published differ by the one *)
(* that is in hand, and the difference of two counters, which saturates,   *)
(* is never more than the whole it is a share of.                          *)
(*                                                                         *)
(* economize: the snapshot tells what was the case, or that it does not    *)
(* know, and no guard lets through what it does not know; so what reaches  *)
(* the driver was found idle, and a snapshot that knows less is stopped by *)
(* the same guard or the same policy.                                      *)
(*                                                                         *)
(* preflight: a plan has at most two changes.  An accepted ceiling lies    *)
(* between the recorded floor and the ceiling that is live, and so in the  *)
(* range of the hardware, where the kernel takes it as it is.              *)
(*                                                                         *)
(* lifecycle-status: whatever a command does in the store, the archive     *)
(* only grows, by the active snapshot under its own capture time, and what *)
(* is kept stays kept (StoreInductive).  So a snapshot can move only from  *)
(* the place that is looked at first to the one that is looked at last,    *)
(* and when the archive is listed it holds every snapshot that was not     *)
(* found active.                                                           *)
(***************************************************************************)
EXTENDS ReadOnlyCommands, RecoveryStoreProofs, SequenceTheorems

-------------------------------------------------------------------------------
(* observe-service-local *)

\* A saturating difference over the whole is a percentage.
LEMMA BusyShare ==
  ASSUME NEW total \in Nat \ {0}, NEW idle \in Nat
  PROVE  (saturating_sub(total, idle) * 100) \div total \in 0..100
BY DEF saturating_sub

\* The CPU's, however its counters went between the two readings.
LEMMA CpuInRange ==
  ASSUME NEW first \in Counters, NEW second \in Counters
  PROVE  cpu_utilization(first, second) \in (0..100) \union {None}
<1> DEFINE total == saturating_sub(second.total, first.total)
           idle == saturating_sub(second.idle, first.idle)
<1>1. total \in Nat /\ idle \in Nat
  BY ObserveServiceAssumption DEF saturating_sub
<1>2. ASSUME total # 0
      PROVE  (saturating_sub(total, idle) * 100) \div total \in 0..100
  <2> HIDE DEF total, idle
  <2> QED
    BY <1>1, <1>2, BusyShare, Zenon
<1> QED
  BY <1>2 DEF cpu_utilization, Busy

\* The memory's, whatever /proc/meminfo says or leaves out.
LEMMA MemoryInRange ==
  ASSUME NEW m \in Memories
  PROVE  memory_utilization(m.total, m.available) \in (0..100) \union {None}
<1> DEFINE total == m.total
           available == m.available
<1>1. {total, available} \subseteq Nat \union {None}
  BY ObserveServiceAssumption
<1>2. ASSUME total # None, available # None, total # 0
      PROVE  (saturating_sub(total, available) * 100) \div total \in 0..100
  <2>1. total \in Nat \ {0} /\ available \in Nat
    BY <1>1, <1>2
  <2> HIDE DEF total, available
  <2> QED
    BY <2>1, BusyShare, Zenon
<1> QED
  BY <1>2 DEF memory_utilization

LEMMA ShareOf ==
  ASSUME NEW percent \in 0..100, NEW whole \in Nat
  PROVE  whole * percent \in 0..(100 * whole)
OBVIOUS

\* Of percentages the model makes a power in its own range.
LEMMA WattsInRange ==
  ASSUME NEW cpu \in 0..100, NEW memory \in 0..100
  PROVE  estimate_watts(PowerModel, cpu, memory)
           \in (100 * PowerModel.baseline)..
               (100 * (PowerModel.baseline + PowerModel.cpu + PowerModel.memory))
<1>1. clamp(cpu, 0, 100) = cpu /\ clamp(memory, 0, 100) = memory
  BY DEF clamp
<1>2. /\ PowerModel.cpu * cpu \in 0..(100 * PowerModel.cpu)
      /\ PowerModel.memory * memory \in 0..(100 * PowerModel.memory)
  BY ObserveServiceAssumption, ShareOf
<1> DEFINE c == PowerModel.cpu * cpu
           m == PowerModel.memory * memory
<1> HIDE DEF c, m
<1>3. c \in 0..(100 * PowerModel.cpu) /\ m \in 0..(100 * PowerModel.memory)
  BY <1>2 DEF c, m
<1>4. 100 * PowerModel.baseline + c + m
        \in (100 * PowerModel.baseline)..
            (100 * (PowerModel.baseline + PowerModel.cpu + PowerModel.memory))
  BY <1>3, ObserveServiceAssumption
<1> QED
  BY <1>1, <1>4 DEF estimate_watts, c, m

\* The heartbeat that a cycle collects.
LEMMA CollectSane ==
  ASSUME Collect, sample \in Counters \union {None}
  PROVE  HeartbeatIsSane'
<1>1. PICK second \in Counters \union {None}, m \in Memories :
        LET cpu == IF None \in {sample, second} THEN None ELSE cpu_utilization(sample, second)
            mem == memory_utilization(m.total, m.available)
        IN heartbeat' = [sequence |-> completed + 1, cpu |-> cpu, memory |-> mem,
                         power |-> read_best(PowerModel, cpu, mem)]
  BY DEF Collect
<1> DEFINE cpu == IF None \in {sample, second} THEN None ELSE cpu_utilization(sample, second)
           mem == memory_utilization(m.total, m.available)
           power == read_best(PowerModel, cpu, mem)
<1>2. cpu \in (0..100) \union {None}
  BY CpuInRange
<1>3. mem \in (0..100) \union {None}
  BY MemoryInRange
<1>4. heartbeat'.cpu = cpu /\ heartbeat'.memory = mem /\ heartbeat'.power = power
  BY <1>1
<1> HIDE DEF cpu, mem
<1>5. CASE None \in {cpu, mem}
  BY <1>2, <1>3, <1>4, <1>5 DEF HeartbeatIsSane, read_best
<1>6. CASE None \notin {cpu, mem}
  <2>1. power = estimate_watts(PowerModel, cpu, mem)
    BY <1>6 DEF read_best
  <2>2. power \in (100 * PowerModel.baseline)..
                  (100 * (PowerModel.baseline + PowerModel.cpu + PowerModel.memory))
    BY <1>2, <1>3, <1>6, <2>1, WattsInRange
  <2>3. power # None
    BY <2>2, ObserveServiceAssumption
  <2> QED
    BY <1>2, <1>3, <1>4, <1>6, <2>2, <2>3 DEF HeartbeatIsSane
<1> QED
  BY <1>5, <1>6

LEMMA ObserveStarts == ObserveInit => ObserveInductive
<1> SUFFICES ASSUME ObserveInit PROVE ObserveInductive
  OBVIOUS
<1>1. HeartbeatIsSane
  BY DEF ObserveInit, HeartbeatIsSane
<1>2. beat = "idle" /\ beat \in Beats /\ stopping = FALSE
  BY DEF ObserveInit, Beats
<1> QED
  BY <1>1, <1>2 DEF ObserveInit, ObserveInductive, InStep, Limited, RoomLeft

\* Every step of the loop, and what may go wrong with it.
LEMMA ObserveKeeps ==
  ASSUME ObserveInductive,
         BeginObserve \/ ObserveStep \/ ObserveFails \/ StopRequested
  PROVE  ObserveInductive'
<1> USE ObserveServiceAssumption DEF ObserveInductive, InStep, Limited, RoomLeft, Beats, Beat
<1>1. CASE BeginObserve
  BY <1>1 DEF BeginObserve, HeartbeatIsSane
<1>2. CASE Top
  BY <1>2 DEF Top, HeartbeatIsSane
<1>3. CASE ReadFirst
  BY <1>3 DEF ReadFirst, HeartbeatIsSane
<1>4. CASE Collect
  <2>1. HeartbeatIsSane'
    BY <1>4, CollectSane
  <2> QED
    BY <1>4, <2>1 DEF Collect
<1>5. CASE Publish
  BY <1>5 DEF Publish, LimitMet, HeartbeatIsSane
<1>6. CASE Wait
  BY <1>6 DEF Wait, HeartbeatIsSane
<1>7. CASE ObserveFails
  BY <1>7 DEF ObserveFails, HeartbeatIsSane
<1>8. CASE StopRequested
  BY <1>8 DEF StopRequested, HeartbeatIsSane
<1> QED
  BY <1>1, <1>2, <1>3, <1>4, <1>5, <1>6, <1>7, <1>8 DEF ObserveStep

LEMMA ObserveCounts == ObserveInductive => SummaryCounts
BY ObserveServiceAssumption
DEF ObserveInductive, InStep, Limited, RoomLeft, SummaryCounts, Beats

-------------------------------------------------------------------------------
(* economize-local *)

\* A judgement that allows had an action, and no guard that blocks or defers.
LEMMA AllowedNotStopped ==
  ASSUME NEW question, NEW view, Judgement(question, view).authorization = "Allow"
  PROVE  /\ candidate_action(question.intent) # None
         /\ \A g \in question.guards :
              verdict(g, view, candidate_action(question.intent), clock)
                \notin {"Block", "Defer"}
BY NoneIsNoAnswer DEF Judgement, evaluate, Stopped

\* A service that no guard of an action stops at is known to be idle.
LEMMA NobodyActive ==
  ASSUME NEW view, NEW time, NEW action, NEW guards \in {AllGuards, LocalGuards},
         \A g \in guards : verdict(g, view, action, time) \notin {"Block", "Defer"},
         \/ action.kind = "SetRest"
         \/ action.kind = "Shutdown" /\ guards = AllGuards
  PROVE  \A s \in view.protected : IsKnownIdle(view, s)
<1>1. CASE action.kind = "SetRest"
  <2>1. RestActivity(view, action, time) \notin {"Block", "Defer"}
    BY DEF AllGuards, LocalGuards, verdict
  <2> QED
    BY <1>1, <2>1 DEF RestActivity, NotIdle
<1>2. CASE action.kind = "Shutdown" /\ guards = AllGuards
  <2>1. ActiveService(view, action, time) \notin {"Block", "Defer"}
    BY <1>2 DEF AllGuards, verdict
  <2> QED
    BY <1>2, <2>1 DEF ActiveService, NotIdle
<1> QED
  BY <1>1, <1>2

LEMMA NobodyLoggedIn ==
  ASSUME NEW view, NEW time, NEW action, NEW guards \in {AllGuards, LocalGuards},
         \A g \in guards : verdict(g, view, action, time) \notin {"Block", "Defer"},
         action.kind = "Shutdown"
  PROVE  view.ssh.known /\ view.ssh.value = 0
<1>1. SshSession(view, action, time) # "Block"
  BY DEF AllGuards, LocalGuards, verdict
<1> QED
  BY <1>1 DEF SshSession

LEMMA CountedLately ==
  ASSUME NEW view, NEW time, NEW action,
         \A g \in AllGuards : verdict(g, view, action, time) \notin {"Block", "Defer"},
         action.risk = "Disruptive"
  PROVE  IsFresh(view.ssh, time)
<1>1. Freshness(view, action, time) # "Block"
  BY DEF AllGuards, verdict
<1> QED
  BY <1>1 DEF Freshness

\* What the driver got spares whoever uses the host.
LEMMA EvaluationSpares == EvaluateInductive => SparesProtected
<1> SUFFICES ASSUME EvaluateInductive, evaluating = "executed"
             PROVE  /\ \/ recorded.kind = "SetRest"
                       \/ recorded.kind = "Shutdown" /\ asked.guards = AllGuards
                       => \A s \in snapshot.protected : truth.services[s] = "Idle"
                    /\ recorded.kind = "Shutdown" =>
                         /\ truth.sessions = 0
                         /\ asked.guards = AllGuards =>
                              snapshot.ssh.at \in (clock - MaxObservationAge)..clock
  BY DEF SparesProtected
<1>1. /\ asked \in Questions
      /\ Judgement(asked, snapshot).authorization = "Allow"
      /\ recorded = candidate_action(asked.intent)
  BY DEF EvaluateInductive, Judged
<1>2. \A g \in asked.guards :
        verdict(g, snapshot, recorded, clock) \notin {"Block", "Defer"}
  BY <1>1, AllowedNotStopped
<1>3. asked.guards \in {AllGuards, LocalGuards}
  BY <1>1 DEF Questions
<1>4. recorded # None
  BY <1>1, AllowedNotStopped
<1>5. ASSUME \/ recorded.kind = "SetRest"
             \/ recorded.kind = "Shutdown" /\ asked.guards = AllGuards
      PROVE  \A s \in snapshot.protected : truth.services[s] = "Idle"
  <2>1. \A s \in snapshot.protected : IsKnownIdle(snapshot, s)
    BY <1>2, <1>3, <1>5, NobodyActive
  <2> QED
    BY <2>1 DEF EvaluateInductive, TellsTruth, IsKnownIdle
<1>6. ASSUME recorded.kind = "Shutdown"
      PROVE  truth.sessions = 0
  <2>1. snapshot.ssh.known /\ snapshot.ssh.value = 0
    BY <1>2, <1>3, <1>6, NobodyLoggedIn
  <2> QED
    BY <2>1 DEF EvaluateInductive, TellsTruth
<1>7. ASSUME recorded.kind = "Shutdown", asked.guards = AllGuards
      PROVE  snapshot.ssh.at \in (clock - MaxObservationAge)..clock
  <2>1. recorded.risk = "Disruptive"
    BY <1>1, <1>4, <1>7 DEF candidate_action, Action, Questions, Intents
  <2>2. IsFresh(snapshot.ssh, clock)
    BY <1>2, <1>7, <2>1, CountedLately
  <2>3. snapshot.ssh.at \in Nat
    BY DEF EvaluateInductive, SnapshotTyped, Observation
  <2> QED
    BY <2>2, <2>3, RestEvaluationAssumption DEF IsFresh, EvaluateInductive
<1> QED
  BY <1>5, <1>6, <1>7

\* A view that shows no service as idle, and no session count, that another does not show.
KnowsLess(less, view) ==
  /\ less.protected = view.protected
  /\ less.mode = view.mode /\ less.reachable = view.reachable
  /\ less.ssh.at = view.ssh.at
  /\ less.ssh.known => less.ssh = view.ssh
  /\ \A s \in view.protected : IsKnownIdle(less, s) => IsKnownIdle(view, s)

\* To forget one thing is to know less.
LEMMA ForgettingKnowsLess ==
  ASSUME SnapshotTyped, NEW less \in Forgetting(snapshot)
  PROVE  KnowsLess(less, snapshot)
<1>1. CASE less = [snapshot EXCEPT !.ssh = Unknown(snapshot.ssh.at)]
  BY <1>1 DEF SnapshotTyped, KnowsLess, IsKnownIdle, Unknown
<1>2. ASSUME NEW s \in DOMAIN snapshot.services,
             less = [snapshot EXCEPT
                       !.services = [t \in DOMAIN snapshot.services \ {s} |->
                                       snapshot.services[t]]]
      PROVE  KnowsLess(less, snapshot)
  BY <1>2 DEF SnapshotTyped, KnowsLess, IsKnownIdle
<1>3. ASSUME NEW s \in DOMAIN snapshot.services,
             less = [snapshot EXCEPT !.services[s] = Unknown(clock)]
      PROVE  KnowsLess(less, snapshot)
  <2>1. less.services = [snapshot.services EXCEPT ![s] = Unknown(clock)]
    BY <1>3 DEF SnapshotTyped
  <2>2. less = [snapshot EXCEPT !.services = less.services]
    BY <1>3, <2>1 DEF SnapshotTyped
  <2>3. \A t \in DOMAIN less.services : less.services[t].known => less.services[t] = snapshot.services[t]
    BY <2>1 DEF Unknown
  <2>4. DOMAIN less.services = DOMAIN snapshot.services
    BY <2>1
  <2> QED
    BY <2>2, <2>3, <2>4 DEF SnapshotTyped, KnowsLess, IsKnownIdle
<1> QED
  BY <1>1, <1>2, <1>3 DEF Forgetting

\* A guard that stops an action on what is known stops it on less.
LEMMA LessIsStopped ==
  ASSUME NEW view, NEW less, KnowsLess(less, view), NEW action, NEW time,
         NEW guards \in {AllGuards, LocalGuards}, Stopped(guards, view, action, time)
  PROVE  Stopped(guards, less, action, time)
<1>1. PICK g \in guards : verdict(g, view, action, time) \in {"Block", "Defer"}
  BY DEF Stopped
<1>2. NotIdle(view) \subseteq NotIdle(less)
  BY DEF KnowsLess, NotIdle
<1>3. CASE g = "RestActivity"
  <2>1. action.kind = "SetRest" /\ NotIdle(view) # {}
    BY <1>1, <1>3 DEF verdict, RestActivity
  <2>2. RestActivity(less, action, time) \in {"Block", "Defer"}
    BY <1>2, <2>1 DEF RestActivity
  <2> QED
    BY <1>3, <2>2 DEF Stopped, verdict
<1>4. CASE g = "ActiveService"
  <2>1. action.kind = "Shutdown" /\ NotIdle(view) # {}
    BY <1>1, <1>4 DEF verdict, ActiveService
  <2>2. ActiveService(less, action, time) = "Block"
    BY <1>2, <2>1 DEF ActiveService
  <2> QED
    BY <1>4, <2>2 DEF Stopped, verdict
<1>5. CASE g = "SshSession"
  <2>1. action.kind = "Shutdown" /\ ~(view.ssh.known /\ view.ssh.value = 0)
    BY <1>1, <1>5 DEF verdict, SshSession
  <2>2. SshSession(less, action, time) = "Block"
    BY <2>1 DEF SshSession, KnowsLess
  <2> QED
    BY <1>5, <2>2 DEF Stopped, verdict
<1>6. CASE g = "Freshness"
  <2>1. Freshness(view, action, time) = "Block"
    BY <1>1, <1>6 DEF verdict, Freshness
  <2>2. \A o \in {"mode", "reachable", "ssh"} : less[o].at = view[o].at
    BY DEF KnowsLess
  <2>3. Freshness(less, action, time) = "Block"
    BY <2>1, <2>2 DEF Freshness, IsFresh
  <2> QED
    BY <1>6, <2>3 DEF Stopped, verdict
<1> QED
  BY <1>1, <1>3, <1>4, <1>5, <1>6 DEF AllGuards, LocalGuards

\* Less is not allowed either.
LEMMA EvaluationIgnores == EvaluateInductive => IgnorancePermitsNothing
<1> SUFFICES ASSUME EvaluateInductive, evaluating = "refused", NEW less \in Forgetting(snapshot)
             PROVE  Judgement(asked, less).authorization # "Allow"
  BY DEF IgnorancePermitsNothing
<1> DEFINE action == candidate_action(asked.intent)
<1>1. asked \in Questions /\ Judgement(asked, snapshot).authorization # "Allow"
  BY DEF EvaluateInductive, Judged
<1>2. asked.guards \in {AllGuards, LocalGuards}
  BY <1>1 DEF Questions
<1>3. KnowsLess(less, snapshot)
  BY ForgettingKnowsLess DEF EvaluateInductive
<1>4. Stopped(asked.guards, snapshot, action, clock)
        => Stopped(asked.guards, less, action, clock)
  BY <1>2, <1>3, LessIsStopped
<1> QED
  BY <1>1, <1>4, NoneIsNoAnswer DEF Judgement, evaluate

LEMMA EvaluateStarts == EvaluateInit => EvaluateInductive
<1> SUFFICES ASSUME EvaluateInit PROVE EvaluateInductive
  OBVIOUS
<1>1. SnapshotTyped
  BY DEF EvaluateInit, SnapshotTyped, Nothing, Unknown, Observation
<1> QED
  BY <1>1 DEF EvaluateInit, EvaluateInductive, TellsTruth, Judged, Services

\* What may be observed, known or not.
LEMMA KnownObservation ==
  ASSUME NEW values, NEW value \in values, NEW at \in Nat
  PROVE  Known(value, at) \in Observation(values) /\ Known(value, at).value = value
BY DEF Known, Observation

LEMMA UnknownObservation ==
  ASSUME NEW values, NEW at \in Nat
  PROVE  Unknown(at) \in Observation(values) /\ Unknown(at).known = FALSE
<1>1. Unknown(at) \in [known : {FALSE}, value : {None}, at : Nat]
  BY DEF Unknown
<1> QED
  BY <1>1 DEF Unknown, Observation

\* The looks at the sessions and at the services.
LEMMA SessionsKeep ==
  ASSUME EvaluateInductive, LookAtSessions
  PROVE  EvaluateInductive'
<1>1. PICK n \in 0..1 : \E seen \in {Known(n, clock), Unknown(clock)} :
        /\ truth' = [truth EXCEPT !.sessions = n]
        /\ snapshot' = [snapshot EXCEPT !.ssh = seen]
  BY DEF LookAtSessions
<1> PICK seen \in {Known(n, clock), Unknown(clock)} :
        /\ truth' = [truth EXCEPT !.sessions = n]
        /\ snapshot' = [snapshot EXCEPT !.ssh = seen]
  BY <1>1
<1>2. clock \in Nat
  BY DEF EvaluateInductive
<1>3. seen \in Observation(0..1) /\ (seen.known => seen.value = n)
  <2>1. CASE seen = Known(n, clock)
    BY <1>2, <2>1, KnownObservation
  <2>2. CASE seen = Unknown(clock)
    BY <1>2, <2>2, UnknownObservation
  <2> QED
    BY <2>1, <2>2
<1>4. SnapshotTyped'
  BY <1>3 DEF EvaluateInductive, SnapshotTyped
<1> QED
  BY <1>3, <1>4 DEF LookAtSessions, EvaluateInductive, SnapshotTyped, TellsTruth, Judged

LEMMA ServicesKeep ==
  ASSUME EvaluateInductive, LookAtServices
  PROVE  EvaluateInductive'
<1>1. PICK activity \in [Services -> {"Idle", "Active"}], looked \in SUBSET Services :
        \E told \in SUBSET looked :
          /\ truth' = [truth EXCEPT !.services = activity]
          /\ snapshot' = [snapshot EXCEPT !.services =
               [s \in looked |-> IF s \in told THEN Known(activity[s], clock)
                                 ELSE Unknown(clock)]]
  BY DEF LookAtServices
<1>2. /\ DOMAIN snapshot'.services = looked /\ DOMAIN snapshot' = DOMAIN snapshot
      /\ snapshot'.ssh = snapshot.ssh /\ snapshot'.protected = snapshot.protected
  BY <1>1 DEF EvaluateInductive, SnapshotTyped
<1>3. \A s \in looked : snapshot'.services[s] \in {Known(activity[s], clock), Unknown(clock)}
  BY <1>1 DEF EvaluateInductive, SnapshotTyped
<1>4. ASSUME NEW s \in looked
      PROVE  /\ snapshot'.services[s] \in Observation({"Idle", "Active"})
             /\ snapshot'.services[s].known => snapshot'.services[s].value = activity[s]
  <2> DEFINE told == snapshot'.services[s]
             state == activity[s]
  <2>1. state \in {"Idle", "Active"} /\ clock \in Nat
    BY DEF EvaluateInductive
  <2>2. told \in {Known(state, clock), Unknown(clock)}
    BY <1>3
  <2>3. told \in Observation({"Idle", "Active"}) /\ (told.known => told.value = state)
    <3> HIDE DEF told, state
    <3>1. CASE told = Known(state, clock)
      BY <2>1, <3>1, KnownObservation
    <3>2. CASE told = Unknown(clock)
      BY <2>1, <3>2, UnknownObservation
    <3> QED
      BY <2>2, <3>1, <3>2
  <2> QED
    BY <2>3
<1>5. SnapshotTyped'
  BY <1>2, <1>4 DEF EvaluateInductive, SnapshotTyped
<1>6. /\ truth'.services = activity /\ truth'.sessions = truth.sessions
      /\ truth' \in [sessions : 0..1, services : [Services -> {"Idle", "Active"}]]
  BY <1>1 DEF EvaluateInductive
<1> QED
  BY <1>2, <1>4, <1>5, <1>6 DEF LookAtServices, EvaluateInductive, TellsTruth, Judged

\* Every step of an evaluation, and of the clock.
LEMMA EvaluateKeeps ==
  ASSUME EvaluateInductive, BeginEvaluate \/ EvaluateStep \/ Tick \/ ClockSetBack
  PROVE  EvaluateInductive'
<1> USE RestEvaluationAssumption DEF EvaluateInductive
<1>1. CASE BeginEvaluate
  BY <1>1 DEF BeginEvaluate, SnapshotTyped, TellsTruth, Judged
<1>2. CASE LookAtMode
  BY <1>2 DEF LookAtMode, SnapshotTyped, TellsTruth, Judged
<1>3. CASE LookAtSessions
  BY <1>3, SessionsKeep
<1>4. CASE LookAtServices
  BY <1>4, ServicesKeep
<1>5. CASE Judge
  <2>1. /\ asked' \in Questions /\ UNCHANGED <<clock, snapshot, truth>>
        /\ evaluating' \in {"executed", "refused"}
        /\ evaluating' = "executed" =>
             /\ Judgement(asked', snapshot).authorization = "Allow"
             /\ recorded' = Judgement(asked', snapshot).candidate
        /\ evaluating' = "refused" => Judgement(asked', snapshot).authorization # "Allow"
    BY <1>5 DEF Judge
  <2>2. Judgement(asked', snapshot).candidate = candidate_action(asked'.intent)
    BY DEF Judgement, evaluate
  <2>3. Judgement(asked, snapshot)' = Judgement(asked', snapshot)
    BY <2>1 DEF Judgement
  <2> QED
    BY <1>5, <2>1, <2>2, <2>3 DEF Judge, SnapshotTyped, TellsTruth, Judged
<1>6. CASE Tick \/ ClockSetBack
  BY <1>6 DEF Tick, ClockSetBack, Evaluating, SnapshotTyped, TellsTruth, Judged
<1> QED
  BY <1>1, <1>2, <1>3, <1>4, <1>5, <1>6 DEF EvaluateStep

-------------------------------------------------------------------------------
(* preflight-rest-local *)

\* A frequency is rounded by no more than half a megahertz.
LEMMA Rounds ==
  ASSUME NEW f \in Nat
  PROVE  /\ RoundedMHz(f, 1) \in Nat
         /\ 2 * f < 2 * RoundedMHz(f, 1) + MHz
         /\ RoundedMHz(f, 100) \in Nat
         /\ 2 * f < 200 * RoundedMHz(f, 100) + 100 * MHz
BY RestPlanningAssumption DEF RoundedMHz

LEMMA RoundedIsWhole ==
  ASSUME NEW f \in Nat, NEW parts \in {1, 100}
  PROVE  \E j \in Nat : RoundedMHz(f, parts) = j * MHz
<1> DEFINE j == (2 * f + parts * MHz) \div (2 * parts * MHz)
<1>1. j \in Nat
  BY RestPlanningAssumption
<1> QED
  BY <1>1 DEF RoundedMHz

LEMMA WholeAbove ==
  ASSUME NEW k \in Nat, NEW j \in Nat, NEW unit \in Nat \ {0},
         2 * (k * unit) < 2 * (j * unit) + unit
  PROVE  k * unit <= j * unit
<1>1. CASE k <= j
  BY <1>1
<1>2. CASE j + 1 <= k
  <2>1. (j + 1) * unit <= k * unit
    BY <1>2
  <2>2. (j + 1) * unit = j * unit + unit
    OBVIOUS
  <2> DEFINE ju == j * unit
             ku == k * unit
  <2>3. ju \in Int /\ ku \in Int
    OBVIOUS
  <2> HIDE DEF ju, ku
  <2>4. ju + unit <= ku /\ 2 * ku < 2 * ju + unit
    BY <2>1, <2>2 DEF ju, ku
  <2>5. FALSE
    BY <2>3, <2>4
  <2> QED
    BY <2>5
<1> QED
  BY <1>1, <1>2

\* The ceiling of REST is a number, and not below a floor of whole megahertz.
LEMMA TargetIs ==
  ASSUME NEW hwMin \in Nat, NEW hwMax \in Nat
  PROVE  /\ RestTarget(hwMin, hwMax) \in Nat
         /\ hwMin % MHz = 0 => hwMin <= RestTarget(hwMin, hwMax)
<1> USE RestPlanningAssumption
<1> DEFINE target == RestTarget(hwMin, hwMax)
           share == hwMax * RestPercent
<1>1. share \in Nat
  OBVIOUS
<1>2. /\ target \in Nat
      /\ \E j \in Nat : target = j * MHz
      /\ 2 * hwMin < 2 * target + MHz
  <2>1. CASE share <= hwMin * 100
    <3>1. target = RoundedMHz(hwMin, 1)
      BY <2>1 DEF RestTarget
    <3>2. RoundedMHz(hwMin, 1) \in Nat /\ 2 * hwMin < 2 * RoundedMHz(hwMin, 1) + MHz
      BY Rounds
    <3>3. \E j \in Nat : RoundedMHz(hwMin, 1) = j * MHz
      BY RoundedIsWhole
    <3> HIDE DEF target
    <3> QED
      BY <3>1, <3>2, <3>3
  <2>2. CASE ~(share <= hwMin * 100)
    <3>1. target = RoundedMHz(share, 100)
      BY <2>2 DEF RestTarget
    <3> HIDE DEF target, share
    <3>2. RoundedMHz(share, 100) \in Nat
            /\ 2 * share < 200 * RoundedMHz(share, 100) + 100 * MHz
      BY <1>1, Rounds
    <3>3. \E j \in Nat : RoundedMHz(share, 100) = j * MHz
      BY <1>1, RoundedIsWhole
    <3>4. 2 * hwMin < 2 * target + MHz
      BY <1>1, <2>2, <3>1, <3>2
    <3> QED
      BY <3>1, <3>2, <3>3, <3>4
  <2> QED
    BY <2>1, <2>2
<1>3. ASSUME hwMin % MHz = 0 PROVE hwMin <= target
  <2> HIDE DEF target
  <2>1. PICK k \in Nat : hwMin = k * MHz
    BY <1>3
  <2>2. PICK j \in Nat : target = j * MHz
    BY <1>2
  <2>3. 2 * (k * MHz) < 2 * (j * MHz) + MHz
    BY <1>2, <2>1, <2>2
  <2> QED
    BY <2>1, <2>2, <2>3, WholeAbove
<1> QED
  BY <1>2, <1>3

\* What the concatenation of at most two changes is.
LEMMA ShortConcat ==
  ASSUME NEW a, NEW b
  PROVE  /\ <<a>> \o <<b>> = <<a, b>>
         /\ <<a>> \o <<>> = <<a>>
         /\ <<>> \o <<b>> = <<b>>
         /\ <<>> \o <<>> = <<>>
<1> DEFINE S == {a, b}
           x == <<a>>
           y == <<b>>
           z == <<a, b>>
           xy == x \o y
<1>1. x \in Seq(S) /\ y \in Seq(S) /\ z \in Seq(S) /\ Len(x) = 1 /\ Len(y) = 1 /\ Len(z) = 2
      /\ x[1] = a /\ y[1] = b /\ z[1] = a /\ z[2] = b
  OBVIOUS
<1>2. <<>> \in Seq(S)
  OBVIOUS
<1>3. x \o <<>> = x /\ <<>> \o y = y /\ <<>> \o <<>> = <<>>
  <2> HIDE DEF S, x, y
  <2> QED
    BY <1>1, <1>2, ConcatEmptySeq, Zenon
<1> HIDE DEF S, x, y, z
<1>4. /\ xy \in Seq(S) /\ Len(xy) = Len(x) + Len(y)
      /\ \A i \in 1 .. Len(x) + Len(y) : xy[i] = IF i <= Len(x) THEN x[i] ELSE y[i - Len(x)]
  BY <1>1, ConcatProperties, Zenon
<1> HIDE DEF xy
<1>5. Len(xy) = 2 /\ xy[1] = x[1] /\ xy[2] = y[1]
  BY <1>1, <1>4
<1>6. xy = z
  BY <1>1, <1>4, <1>5, SeqEqual
<1> QED
  BY <1>3, <1>6 DEF x, y, z, xy

\* A plan that is not Blocked: what is known of the host, and the changes it has.
LEMMA PlanShape ==
  ASSUME caps \in Probes, plan(caps).status # "Blocked"
  PROVE  LET changes == plan(caps).changes
             target == RestTarget(caps.hwMin, caps.hwMax)
         IN  /\ caps.cpufreq /\ caps.governor # None /\ RestGovernor \in caps.governors
             /\ {caps.hwMin, caps.hwMax, caps.max} \subseteq Nat /\ caps.hwMin <= caps.hwMax
             /\ plan(caps).status = IF changes = <<>> THEN "NoChanges" ELSE "Ready"
             /\ \A i \in DOMAIN changes :
                  \/ changes[i] = Change("governor", caps.governor, RestGovernor)
                  \/ changes[i] = Change("max", caps.max, target) /\ caps.max > target
             /\ caps.governor # RestGovernor =>
                  \E i \in DOMAIN changes : changes[i].file = "governor"
             /\ caps.max > target => \E i \in DOMAIN changes : changes[i].file = "max"
<1> DEFINE target == RestTarget(caps.hwMin, caps.hwMax)
           g == Change("governor", caps.governor, RestGovernor)
           m == Change("max", caps.max, target)
           G == plan_governor(caps)
           F == plan_frequency(caps)
<1>1. /\ plan(caps).status = Status(plan(caps).blockers, plan(caps).changes)
      /\ plan(caps).changes = G.changes \o F.changes
      /\ plan(caps).blockers = {} => G.blockers = {} /\ F.blockers = {} /\ caps.cpufreq
  BY DEF plan
<1>2. plan(caps).blockers = {}
  BY <1>1 DEF Status
<1>3. /\ caps.governor # None /\ RestGovernor \in caps.governors
      /\ G.changes = IF caps.governor = RestGovernor THEN <<>> ELSE <<g>>
  BY <1>1, <1>2 DEF plan_governor
<1>4. /\ None \notin {caps.hwMin, caps.hwMax, caps.max} /\ ~(caps.hwMin > caps.hwMax)
      /\ F.changes = IF caps.max > target THEN <<m>> ELSE <<>>
  BY <1>1, <1>2 DEF plan_frequency, PlanCeiling
<1>5. {caps.hwMin, caps.hwMax, caps.max} \subseteq Nat /\ caps.hwMin <= caps.hwMax
  BY <1>4, RestPreflightAssumption
<1> HIDE DEF G, F
<1>6. plan(caps).changes \in {<<>>, <<g>>, <<m>>, <<g, m>>}
        /\ (caps.governor # RestGovernor => plan(caps).changes \in {<<g>>, <<g, m>>})
        /\ (caps.governor = RestGovernor => plan(caps).changes \in {<<>>, <<m>>})
        /\ (caps.max > target => plan(caps).changes \in {<<m>>, <<g, m>>})
        /\ (~(caps.max > target) => plan(caps).changes \in {<<>>, <<g>>})
  <2> HIDE DEF g, m, target
  <2>1. CASE caps.governor = RestGovernor /\ caps.max > target
    <3>1. G.changes = <<>> /\ F.changes = <<m>>
      BY <1>3, <1>4, <2>1
    <3>2. <<>> \o <<m>> = <<m>>
      BY ShortConcat
    <3>3. plan(caps).changes = <<m>>
      BY <1>1, <3>1, <3>2
    <3> QED
      BY <2>1, <3>3
  <2>2. CASE caps.governor = RestGovernor /\ ~(caps.max > target)
    <3>1. G.changes = <<>> /\ F.changes = <<>>
      BY <1>3, <1>4, <2>2
    <3>2. <<>> \o <<>> = <<>>
      BY ShortConcat
    <3>3. plan(caps).changes = <<>>
      BY <1>1, <3>1, <3>2
    <3> QED
      BY <2>2, <3>3
  <2>3. CASE caps.governor # RestGovernor /\ caps.max > target
    <3>1. G.changes = <<g>> /\ F.changes = <<m>>
      BY <1>3, <1>4, <2>3
    <3>2. <<g>> \o <<m>> = <<g, m>>
      BY ShortConcat
    <3>3. plan(caps).changes = <<g, m>>
      BY <1>1, <3>1, <3>2
    <3> QED
      BY <2>3, <3>3
  <2>4. CASE caps.governor # RestGovernor /\ ~(caps.max > target)
    <3>1. G.changes = <<g>> /\ F.changes = <<>>
      BY <1>3, <1>4, <2>4
    <3>2. <<g>> \o <<>> = <<g>>
      BY ShortConcat
    <3>3. plan(caps).changes = <<g>>
      BY <1>1, <3>1, <3>2
    <3> QED
      BY <2>4, <3>3
  <2> QED
    BY <2>1, <2>2, <2>3, <2>4
<1>7. plan(caps).status = IF plan(caps).changes = <<>> THEN "NoChanges" ELSE "Ready"
  BY <1>1, <1>2 DEF Status
<1> DEFINE changes == plan(caps).changes
<1>8. \A i \in DOMAIN changes :
        \/ changes[i] = g
        \/ changes[i] = m /\ caps.max > target
  <2> HIDE DEF g, m, target, changes
  <2>1. CASE caps.max > target
    <3>1. CASE changes = <<m>>
      <4>1. DOMAIN changes = {1} /\ changes[1] = m
        BY <3>1
      <4> QED
        BY <2>1, <4>1
    <3>2. CASE changes = <<g, m>>
      <4>1. DOMAIN changes = {1, 2} /\ changes[1] = g /\ changes[2] = m
        BY <3>2
      <4> QED
        BY <2>1, <4>1
    <3> QED
      BY <1>6, <2>1, <3>1, <3>2 DEF changes
  <2>2. CASE ~(caps.max > target)
    <3>1. changes \in {<<>>, <<g>>}
      BY <1>6, <2>2 DEF changes
    <3> QED
      BY <3>1
  <2> QED
    BY <2>1, <2>2
<1>9. caps.governor # RestGovernor => \E i \in DOMAIN changes : changes[i].file = "governor"
  <2>1. g.file = "governor"
    BY DEF Change
  <2> HIDE DEF g, m, target, changes
  <2>2. ASSUME caps.governor # RestGovernor
        PROVE  changes[1] = g /\ 1 \in DOMAIN changes
    BY <1>6, <2>2 DEF changes
  <2> QED
    BY <2>1, <2>2
<1>10. caps.max > target => \E i \in DOMAIN changes : changes[i].file = "max"
  <2>1. m.file = "max"
    BY DEF Change
  <2> HIDE DEF g, m, target, changes
  <2>2. ASSUME caps.max > target
        PROVE  \E i \in DOMAIN changes : changes[i] = m
    <3>1. CASE changes = <<m>>
      BY <3>1
    <3>2. CASE changes = <<g, m>>
      <4>1. changes[2] = m /\ 2 \in DOMAIN changes
        BY <3>2
      <4> QED
        BY <4>1
    <3> QED
      BY <1>6, <2>2, <3>1, <3>2 DEF changes
  <2> QED
    BY <2>1, <2>2
<1> QED
  BY <1>1, <1>2, <1>3, <1>5, <1>7, <1>8, <1>9, <1>10

\* What a snapshot tells of the host it was captured of.
LEMMA RecordIsOf ==
  ASSUME caps \in Probes, record \in Captured(caps), record # None
  PROVE  /\ {caps.min, caps.max} \subseteq Nat /\ caps.min <= caps.max
         /\ record.host["min"] \in Nat /\ caps.min <= record.host["min"]
<1> DEFINE live == Live(caps)
<1>1. /\ \A f \in Files : live[f] # None
      /\ \E host \in Drifted(live), at \in Clock : record = capture(host, at)
  BY DEF Captured
<1>2. PICK host \in Drifted(live), at \in Clock : record = capture(host, at)
  BY <1>1
<1>3. record.host = host
  BY <1>2 DEF capture
<1>4. live["min"] = caps.min /\ live["max"] = caps.max /\ DOMAIN live = Files
  BY DEF Live, Files
<1>5. caps.min # None /\ caps.max # None
  BY <1>1, <1>4 DEF Files
<1>6. {caps.min, caps.max} \subseteq Nat /\ caps.min <= caps.max
  BY <1>5, RestPreflightAssumption
<1> HIDE DEF live
<1>7. host["min"] \in {live["min"], live["max"], live["max"] + MHz}
  BY <1>2, <1>4 DEF Drifted, Files
<1>8. host["min"] \in Nat /\ caps.min <= host["min"]
  BY <1>4, <1>6, <1>7, RestPlanningAssumption
<1> QED
  BY <1>3, <1>6, <1>8

\* Planning for a host at rest asks for nothing.
LEMMA PlanNothing ==
  ASSUME NEW q, q.cpufreq, q.governor = RestGovernor, RestGovernor \in q.governors,
         {q.hwMin, q.hwMax, q.max} \subseteq Nat, q.hwMin <= q.hwMax,
         ~(q.max > RestTarget(q.hwMin, q.hwMax))
  PROVE  plan(q).status = "NoChanges"
<1>1. plan_governor(q) = [blockers |-> {}, changes |-> <<>>]
  BY RestPreflightAssumption DEF plan_governor
<1>2. plan_frequency(q) = [blockers |-> {}, changes |-> <<>>]
  <2>1. None \notin {q.hwMin, q.hwMax, q.max}
    BY RestPreflightAssumption
  <2>2. ~(q.hwMin > q.hwMax)
    OBVIOUS
  <2>3. PlanCeiling(q.max, RestTarget(q.hwMin, q.hwMax)) = <<>>
    BY DEF PlanCeiling
  <2> QED
    BY <2>1, <2>2, <2>3 DEF plan_frequency
<1>3. <<>> \o <<>> = <<>>
  BY ShortConcat
<1>4. plan(q).blockers = {} /\ plan(q).changes = <<>>
  BY <1>1, <1>2, <1>3 DEF plan
<1> QED
  BY <1>4 DEF plan, Status

\* A plan that is refused: the host is not as it was recorded, or there is no room.
LEMMA RefusedFor ==
  ASSUME caps \in Probes, record \in Captured(caps), record # None,
         plan(caps).status # "Blocked", ~AcceptsPlan(plan(caps).changes, record)
  PROVE  HostDrifted \/ NoRoom
<1> DEFINE target == RestTarget(caps.hwMin, caps.hwMax)
           changes == plan(caps).changes
           floor == record.host["min"]
<1>1. /\ {caps.hwMin, caps.hwMax, caps.max} \subseteq Nat
      /\ \A i \in DOMAIN changes :
           \/ changes[i] = Change("governor", caps.governor, RestGovernor)
           \/ changes[i] = Change("max", caps.max, target) /\ caps.max > target
  BY PlanShape
<1>2. target \in Nat /\ (caps.hwMin % MHz = 0 => caps.hwMin <= target)
  BY <1>1, TargetIs
<1>3. floor \in Nat
  BY RecordIsOf
<1>4. Live(caps)["governor"] = caps.governor /\ Live(caps)["max"] = caps.max
  BY DEF Live, Files
<1>5. PICK i \in DOMAIN changes : ~ (/\ validate_plan(changes[i], record)
                                     /\ verify_original_matches_plan(changes[i], record))
  BY DEF AcceptsPlan
<1> DEFINE c == changes[i]
<1> HIDE DEF target, changes, c, floor
<1>6. CASE c = Change("governor", caps.governor, RestGovernor)
  <2>1. c.file = "governor" /\ c.target = RestGovernor /\ c.current = caps.governor
    BY <1>6 DEF Change
  <2>2. ~Matches("governor", caps.governor, record.host["governor"])
    BY <1>5, <2>1 DEF c, validate_plan, verify_original_matches_plan
  <2> QED
    BY <1>4, <2>2 DEF Files, HostDrifted
<1>7. CASE c = Change("max", caps.max, target) /\ caps.max > target
  <2>1. c.file = "max" /\ c.target = target /\ c.current = caps.max
    BY <1>7 DEF Change
  <2>2. CASE ~verify_original_matches_plan(c, record)
    <3>1. ~Matches("max", caps.max, record.host["max"])
      BY <2>1, <2>2 DEF verify_original_matches_plan
    <3> QED
      BY <1>4, <3>1 DEF Files, HostDrifted
  <2>3. CASE ~validate_plan(c, record)
    <3>1. target < floor
      BY <1>1, <1>2, <1>3, <1>7, <2>1, <2>3 DEF validate_plan, floor
    <3>2. floor > caps.hwMin \/ caps.hwMin % MHz # 0
      BY <1>1, <1>2, <1>3, <3>1
    <3> QED
      BY <3>1, <3>2 DEF target, floor, NoRoom
  <2> QED
    BY <1>5, <2>2, <2>3 DEF c
<1>8. \/ c = Change("governor", caps.governor, RestGovernor)
      \/ c = Change("max", caps.max, target) /\ caps.max > target
  BY <1>1, <1>5 DEF c
<1> QED
  BY <1>6, <1>7, <1>8

\* An accepted ceiling lies in the range of the hardware: the kernel takes it as it is.
LEMMA AcceptedIsTaken ==
  ASSUME caps \in Probes, record \in Captured(caps), record # None,
         plan(caps).status # "Blocked", AcceptsPlan(plan(caps).changes, record),
         NEW i \in DOMAIN plan(caps).changes
  PROVE  LET c == plan(caps).changes[i]
         IN  /\ c.file \in {"governor", "max"}
             /\ c.file = "governor" => c.target = RestGovernor
             /\ c.file = "max" => c.target = RestTarget(caps.hwMin, caps.hwMax)
             /\ Written(c) = c.target
             /\ Matches(c.file, Written(c), c.target)
<1> DEFINE target == RestTarget(caps.hwMin, caps.hwMax)
           changes == plan(caps).changes
           floor == record.host["min"]
           c == changes[i]
<1>1. /\ {caps.hwMin, caps.hwMax, caps.max} \subseteq Nat
      /\ \/ c = Change("governor", caps.governor, RestGovernor)
         \/ c = Change("max", caps.max, target) /\ caps.max > target
  BY PlanShape
<1>2. target \in Nat
  BY <1>1, TargetIs
<1>3. floor \in Nat /\ caps.min \in Nat /\ caps.min <= floor
  BY RecordIsOf
<1>4. caps.hwMin <= caps.min /\ caps.max <= caps.hwMax
  BY <1>1, <1>3, RestPreflightAssumption
<1>5. validate_plan(c, record)
  BY DEF AcceptsPlan
<1> HIDE DEF target, changes, c
<1>6. CASE c = Change("governor", caps.governor, RestGovernor)
  <2>1. c.file = "governor" /\ c.target = RestGovernor
    BY <1>6 DEF Change
  <2>2. Written(c) = c.target
    BY <2>1 DEF Written
  <2> QED
    BY <2>1, <2>2 DEF c, changes, Matches
<1>7. CASE c = Change("max", caps.max, target) /\ caps.max > target
  <2>1. c.file = "max" /\ c.target = target
    BY <1>7 DEF Change
  <2>2. floor <= target
    BY <1>5, <2>1 DEF validate_plan
  <2>3. caps.hwMin <= target /\ target <= caps.hwMax
    BY <1>1, <1>2, <1>3, <1>4, <1>7, <2>2
  <2>4. Clamped(target) = target
    BY <1>1, <1>2, <2>3 DEF Clamped
  <2>5. Written(c) = target
    BY <2>1, <2>4 DEF Written
  <2>6. Matches("max", target, target)
    BY <1>2, RestPlanningAssumption DEF Matches, approximately_equal
  <2> QED
    BY <2>1, <2>5, <2>6 DEF c, changes, target
<1> QED
  BY <1>1, <1>6, <1>7

\* After the changes of an accepted plan there is nothing more to ask for.
LEMMA AcceptedIsEnough ==
  ASSUME caps \in Probes, record \in Captured(caps), record # None,
         plan(caps).status # "Blocked", AcceptsPlan(plan(caps).changes, record)
  PROVE  plan(AfterWriting(plan(caps).changes)).status = "NoChanges"
<1> DEFINE target == RestTarget(caps.hwMin, caps.hwMax)
           changes == plan(caps).changes
           all == {changes[i] : i \in DOMAIN changes}
           has(file) == \E i \in DOMAIN changes : changes[i].file = file
           q == AfterWriting(changes)
           the(file) == CHOOSE c \in all : c.file = file
           governor == IF has("governor") THEN Written(the("governor")) ELSE caps.governor
           max == IF has("max") THEN Written(the("max")) ELSE caps.max
<1>1. /\ caps.cpufreq /\ RestGovernor \in caps.governors
      /\ {caps.hwMin, caps.hwMax, caps.max} \subseteq Nat /\ caps.hwMin <= caps.hwMax
      /\ caps.governor # RestGovernor => has("governor")
      /\ caps.max > target => has("max")
  BY PlanShape
<1>2. target \in Nat
  BY <1>1, TargetIs
<1>3. DOMAIN caps = {"cpufreq", "writable", "governors", "governor", "hwMin", "hwMax",
                     "min", "max"}
  BY RestPreflightAssumption
<1>4. q = [caps EXCEPT !.governor = governor, !.max = max]
  BY DEF AfterWriting
<1>5. \A c \in all : /\ c.file = "governor" => Written(c) = RestGovernor
                     /\ c.file = "max" => Written(c) = target
  BY AcceptedIsTaken
<1> HIDE DEF q, target, changes, all
<1>6. governor = RestGovernor
  <2>1. CASE has("governor")
    <3>1. \E c \in all : c.file = "governor"
      BY <2>1 DEF all
    <3>2. the("governor") \in all /\ the("governor").file = "governor"
      BY <3>1
    <3> QED
      BY <1>5, <2>1, <3>2
  <2> QED
    BY <1>1, <2>1
<1>7. max \in Nat /\ ~(max > target)
  <2>1. CASE has("max")
    <3>1. \E c \in all : c.file = "max"
      BY <2>1 DEF all
    <3>2. the("max") \in all /\ the("max").file = "max"
      BY <3>1
    <3>3. max = target
      BY <1>5, <2>1, <3>2
    <3> QED
      BY <1>2, <3>3
  <2>2. CASE ~has("max")
    BY <1>1, <1>2, <2>2
  <2> QED
    BY <2>1, <2>2
<1> HIDE DEF governor, max
<1>8. /\ q.governor = governor /\ q.max = max
      /\ q.cpufreq = caps.cpufreq /\ q.governors = caps.governors
      /\ q.hwMin = caps.hwMin /\ q.hwMax = caps.hwMax
  BY <1>3, <1>4
<1>9. plan(q).status = "NoChanges"
  BY <1>1, <1>6, <1>7, <1>8, PlanNothing DEF target
<1> QED
  BY <1>9 DEF q, changes

\* What the checks found is all that an apply asks for.
LEMMA PreflightShows ==
  ASSUME PreflightInductive
  PROVE  ReadyMeansApplies
<1> SUFFICES ASSUME checking = "reported", is_ready,
                    NEW told \in BOOLEAN, NEW allowed \in Allowances
             PROVE  LET outcome == ApplyOutcome(told, allowed)
                    IN  \/ outcome = "satisfied"
                        \/ /\ outcome = "applied"
                           /\ plan(AfterWriting(plan(caps).changes)).status = "NoChanges"
                        \/ outcome = "refused" /\ (HostDrifted \/ NoRoom)
                        \/ outcome = "not permitted" /\ caps.writable
                        \/ outcome = "not told" /\ ~told
  BY DEF ReadyMeansApplies
<1>1. /\ caps \in Probes /\ record \in Captured(caps)
      /\ record # None /\ is_fresh(record, now)
      /\ evaluate_rest_plan(plan(caps), caps.writable)
  BY DEF PreflightInductive, is_ready
<1>2. CASE ~told
  <2>1. ApplyOutcome(told, allowed) = "not told"
    BY <1>2 DEF ApplyOutcome
  <2> QED
    BY <1>2, <2>1
<1>3. CASE told /\ plan(caps).status = "NoChanges"
  <2>1. ApplyOutcome(told, allowed) = "satisfied"
    BY <1>1, <1>3 DEF ApplyOutcome
  <2> QED
    BY <2>1
<1>4. CASE told /\ plan(caps).status = "Ready" /\ caps.writable
  <2>1. CASE ~AcceptsPlan(plan(caps).changes, record)
    <3>1. ApplyOutcome(told, allowed) = "refused"
      BY <1>1, <1>4, <2>1 DEF ApplyOutcome
    <3> QED
      BY <1>1, <1>4, <2>1, <3>1, RefusedFor
  <2>2. CASE /\ AcceptsPlan(plan(caps).changes, record)
             /\ \E i \in DOMAIN plan(caps).changes : plan(caps).changes[i].file \notin allowed
    <3>1. ApplyOutcome(told, allowed) = "not permitted"
      BY <1>1, <1>4, <2>2 DEF ApplyOutcome
    <3> QED
      BY <1>4, <3>1
  <2>3. CASE /\ AcceptsPlan(plan(caps).changes, record)
             /\ ~\E i \in DOMAIN plan(caps).changes : plan(caps).changes[i].file \notin allowed
    <3>1. \A i \in DOMAIN plan(caps).changes :
            Matches(plan(caps).changes[i].file, Written(plan(caps).changes[i]),
                    plan(caps).changes[i].target)
      BY <1>1, <1>4, <2>3, AcceptedIsTaken
    <3>2. ApplyOutcome(told, allowed) = "applied"
      BY <1>1, <1>4, <2>3, <3>1 DEF ApplyOutcome
    <3>3. plan(AfterWriting(plan(caps).changes)).status = "NoChanges"
      BY <1>1, <1>4, <2>3, AcceptedIsEnough
    <3> QED
      BY <3>2, <3>3
  <2> QED
    BY <2>1, <2>2, <2>3
<1> QED
  BY <1>1, <1>2, <1>3, <1>4 DEF evaluate_rest_plan

LEMMA PreflightStarts ==
  ASSUME PreflightInit
  PROVE  PreflightInductive
BY DEF PreflightInit, PreflightInductive

LEMMA PreflightKeeps ==
  ASSUME PreflightInductive, BeginPreflight \/ PreflightStep
  PROVE  PreflightInductive'
<1>1. CASE BeginPreflight
  BY <1>1 DEF BeginPreflight, PreflightInductive
<1>2. CASE CheckHost
  <2>1. /\ checking = "host" /\ checking' = "snapshot"
        /\ UNCHANGED <<caps, record, now>>
    BY <1>2 DEF CheckHost, Records
  <2> QED
    BY <2>1 DEF PreflightInductive
<1>3. CASE CheckSnapshot
  <2>1. /\ checking = "snapshot" /\ checking' = "plan"
        /\ UNCHANGED <<caps, record, now>>
        /\ "Recovery snapshot" \notin blocked' => record # None /\ is_fresh(record, now)
    BY <1>3 DEF CheckSnapshot, Records
  <2> QED
    BY <2>1 DEF PreflightInductive
<1>4. CASE CheckPlan
  <2>1. /\ checking = "plan" /\ checking' = "audit"
        /\ UNCHANGED <<caps, record, now>>
        /\ blocked \subseteq blocked'
        /\ "REST plan" \notin blocked' => evaluate_rest_plan(plan(caps), caps.writable)
    BY <1>4 DEF CheckPlan, Records
  <2> QED
    BY <2>1 DEF PreflightInductive
<1>5. CASE CheckAudit
  <2>1. /\ checking = "audit" /\ checking' = "reported"
        /\ UNCHANGED <<caps, record, now>>
        /\ blocked \subseteq blocked'
    BY <1>5 DEF CheckAudit
  <2> QED
    BY <2>1 DEF PreflightInductive
<1> QED
  BY <1>1, <1>2, <1>3, <1>4, <1>5 DEF PreflightStep

-------------------------------------------------------------------------------
(* lifecycle-status-local *)

\* What a step of another command does to the archive: nothing, or one more entry.
ArchiveGrows ==
  \/ \A t \in Times : archive'[t] = archive[t]
  \/ \E t \in Times :
       /\ archive[t] = None
       /\ active \in Snapshots /\ active.at = t
       /\ archive' = [archive EXCEPT ![t] = active]

\* The archive grows only by the active snapshot, under its capture time: what a command
\* writes is in no archive.
LEMMA OthersGrowArchive ==
  ASSUME StoreInductive, ~clashed, OthersStore
  PROVE  ArchiveGrows
<1> USE DEF StoreInductive, At, GoTo, Fail, files, disk
<1> PICK c \in Commands :
      \/ \E s \in Snapshots : BeginSave(c, s)
      \/ BeginRetire(c) \/ Return(c)
      \/ StoreStep(c) \/ StoreFault(c) \/ StoreDies(c)
  BY DEF OthersStore
<1>1. CASE Link(c)
  <2>1. held[c] \in Snapshots /\ held[c].at \in Times
    BY <1>1 DEF Link, HasSnapshot, RetiringAt, SavingAt, Times
  <2>2. archive[held[c].at] = None /\ active = held[c]
    BY <1>1 DEF Link, MayLink, FreeMeansActive
  <2> QED
    BY <1>1, <2>1, <2>2 DEF Link, ArchiveGrows
<1>2. CASE WriteAll(c) \/ WriteShort(c)
  <2>1. At(c, "write")
    BY <1>2 DEF WriteAll, WriteShort
  <2>2. \A t \in Times : writers[t] # c
    BY <2>1 DEF WritesItsFile
  <2>3. PICK text : Fill(c, text)
    BY <1>2 DEF WriteAll, WriteShort
  <2> QED
    BY <2>2, <2>3 DEF Fill, ArchiveGrows
<1>3. CASE SaveStep(c) /\ ~WriteAll(c)
  BY <1>3 DEF ArchiveGrows, SaveStep, MakeRoot, ChmodRoot, Create, CreateRefused, Sync, Withdraw,
      WithdrawRefused
<1>4. CASE LoadStep(c)
  BY <1>4 DEF ArchiveGrows, LoadStep, Load, LoadRefused
<1>5. CASE RetireStep(c) /\ ~Link(c)
  BY <1>5 DEF ArchiveGrows, RetireStep, Reload, ReloadRefused, MakeArchive, ChmodArchive,
      LinkRefused, SyncArchive, RemoveActive, RemoveRefused, SyncRoot
<1>6. CASE ~StoreStep(c) /\ ~WriteShort(c)
  BY <1>6 DEF ArchiveGrows, BeginSave, BeginRetire, Return, StoreFault, StoreDies,
      SyncFails, CallFails
<1> QED
  BY <1>1, <1>2, <1>3, <1>4, <1>5, <1>6 DEF StoreStep

\* A save that succeeded stays one, and a clash that was stays one.
LEMMA OthersRemember ==
  ASSUME OthersStore
  PROVE  saved \subseteq saved' /\ (clashed => clashed')
<1> USE DEF Fail, past
<1> PICK c \in Commands :
      \/ \E s \in Snapshots : BeginSave(c, s)
      \/ BeginRetire(c) \/ Return(c)
      \/ StoreStep(c) \/ StoreFault(c) \/ StoreDies(c)
  BY DEF OthersStore
<1>1. CASE SaveStep(c)
  <2>1. CASE Withdraw(c)
    <3>1. clashed' = (clashed \/ OthersRely(c)) /\ saved' = saved
      BY <2>1 DEF Withdraw
    <3> QED
      BY <3>1
  <2>2. CASE Sync(c)
    BY <2>2 DEF Sync
  <2>3. CASE ~Withdraw(c) /\ ~Sync(c)
    <3>1. UNCHANGED <<saved, clashed>>
      BY <1>1, <2>3 DEF SaveStep, MakeRoot, ChmodRoot, Create, CreateRefused, WriteAll, Fill,
          WithdrawRefused
    <3> QED
      BY <3>1
  <2> QED
    BY <2>1, <2>2, <2>3
<1>2. CASE LoadStep(c)
  BY <1>2 DEF LoadStep, Load, LoadRefused
<1>3. CASE RetireStep(c)
  BY <1>3 DEF RetireStep, Reload, ReloadRefused, MakeArchive, ChmodArchive, Link,
      LinkRefused, SyncArchive, RemoveActive, RemoveRefused, SyncRoot
<1>4. CASE ~StoreStep(c)
  BY <1>4 DEF BeginSave, BeginRetire, Return, StoreFault, StoreDies, WriteShort, Fill,
      SyncFails, CallFails
<1> QED
  BY <1>1, <1>2, <1>3, <1>4 DEF StoreStep

\* The store's own invariant survives them, as it does every step of the store.
LEMMA OthersKeepStore ==
  ASSUME StoreInductive, OthersStore
  PROVE  StoreInductive'
BY StoreStepKeeps DEF OthersStore, StoreNext

\* Nobody comes to store before there is a state directory, and that directory stays.
LEMMA OthersKeepRooted ==
  ASSUME StoreInductive, Rooted, OthersStore
  PROVE  Rooted'
<1> USE DEF StoreInductive, StoreTypeOK, At, GoTo, Fail, files, disk, Rooted, StoreSteps,
           SavingAt, RetiringAt, Directory
<1> PICK c \in Commands :
      \/ \E s \in Snapshots : BeginSave(c, s)
      \/ BeginRetire(c) \/ Return(c)
      \/ StoreStep(c) \/ StoreFault(c) \/ StoreDies(c)
  BY DEF OthersStore
<1>1. CASE (\E s \in Snapshots : BeginSave(c, s)) \/ BeginRetire(c) \/ Return(c)
  BY <1>1 DEF BeginSave, BeginRetire, Return
<1>2. CASE WriteAll(c) \/ WriteShort(c)
  <2>1. rootDir # "absent"
    BY <1>2 DEF WriteAll, WriteShort
  <2>2. UNCHANGED rootDir
    BY <1>2 DEF WriteAll, WriteShort, Fill
  <2> QED
    BY <2>1, <2>2
<1>3. CASE SaveStep(c) /\ ~WriteAll(c)
  <2>1. CASE MakeRoot(c) \/ ChmodRoot(c) \/ Create(c) \/ CreateRefused(c)
    BY <2>1 DEF MakeRoot, ChmodRoot, Create, CreateRefused
  <2>2. CASE Sync(c)
    <3>1. rootDir # "absent" /\ UNCHANGED rootDir
      BY <2>2 DEF Sync
    <3> QED
      BY <3>1
  <2>3. CASE Withdraw(c) \/ WithdrawRefused(c)
    BY <2>3 DEF Withdraw, WithdrawRefused
  <2> QED
    BY <1>3, <2>1, <2>2, <2>3 DEF SaveStep
<1>4. CASE LoadStep(c)
  BY <1>4 DEF LoadStep, Load, LoadRefused, Loadable
<1>5. CASE RetireStep(c)
  BY <1>5 DEF RetireStep, Reload, ReloadRefused, Loadable, MakeArchive, ChmodArchive,
      Link, LinkRefused, SyncArchive, RemoveActive, RemoveRefused, SyncRoot
<1>6. CASE (StoreFault(c) /\ ~WriteShort(c)) \/ StoreDies(c)
  BY <1>6 DEF StoreFault, StoreDies, SyncFails, CallFails
<1> QED
  BY <1>1, <1>2, <1>3, <1>4, <1>5, <1>6 DEF StoreStep, StoreFault

\* A step of another command.
LEMMA OthersKeep ==
  ASSUME StatusInductive, OthersStore
  PROVE  StatusInductive'
<1> USE RecoveryStoreAssumption
<1>1. ArchiveGrows /\ saved \subseteq saved' /\ ~clashed
  BY OthersGrowArchive, OthersRemember DEF StatusInductive, OthersStore
<1>2. StoreInductive'
  BY OthersKeepStore DEF StatusInductive
<1>3. Rooted'
  BY OthersKeepRooted DEF StatusInductive
<1>4. archive \in [Times -> Texts \union {None}]
  BY DEF StatusInductive, StoreInductive, StoreTypeOK
<1>5. ArchiveReadable'
  BY <1>1, <1>4 DEF StatusInductive, ArchiveReadable, ArchiveGrows, Entries, Consistent
<1>6. UNCHANGED statusVars
  BY DEF OthersStore
<1>7. Ahead'
  <2>1. \A s \in before : s # None
    BY DEF StatusInductive, StoreInductive, StoreTypeOK
  <2>2. ASSUME NEW s \in before, NEW t \in Times, archive[t] = s
        PROVE  archive'[t] = s
    BY <1>1, <1>4, <2>1, <2>2 DEF ArchiveGrows
  <2> QED
    BY <1>1, <1>6, <2>2 DEF StatusInductive, Ahead, Inspecting, statusVars
<1>8. before' \subseteq saved'
  BY <1>1, <1>6 DEF StatusInductive, statusVars
<1> QED
  BY <1>1, <1>2, <1>3, <1>5, <1>6, <1>7, <1>8
  DEF StatusInductive, StatusMissesNothing, Inspecting, statusVars

\* The steps of the inspection read, and change nothing in the store.
LEMMA StoreUnmoved ==
  ASSUME StoreInductive, Rooted, ArchiveReadable, UNCHANGED storeVars
  PROVE  StoreInductive' /\ Rooted' /\ ArchiveReadable'
<1>1. StoreInductive'
  BY StutterKeeps
<1> QED
  BY <1>1 DEF storeVars, files, disk, past, Rooted, ArchiveReadable, Entries, Consistent

\* A step of the inspection.
LEMMA StatusKeeps ==
  ASSUME StatusInductive, BeginStatus \/ LookAtRoot \/ StatusStep
  PROVE  StatusInductive'
<1> USE RecoveryStoreAssumption
<1> USE DEF Inspecting, On, Inspections
<1>1. UNCHANGED storeVars
  BY DEF BeginStatus, LookAtRoot, StatusStep, LookAtActive, LoadActive, CountArchive
<1>2. StoreInductive' /\ Rooted' /\ ArchiveReadable'
  BY <1>1, StoreUnmoved DEF StatusInductive
<1>3. saved \subseteq Snapshots /\ (~clashed => \A s \in saved : IsKept(s))
  BY DEF StatusInductive, StoreInductive, StoreTypeOK, Kept
<1>4. saved' = saved /\ UNCHANGED <<archive, active, clashed>>
  BY <1>1 DEF storeVars, files, past
<1>5. CASE BeginStatus
  BY <1>2, <1>4, <1>5 DEF StatusInductive, BeginStatus, Ahead, StatusMissesNothing
<1>6. CASE LookAtRoot
  <2>1. ~clashed /\ rootDir = "absent" => before = {}
    BY <1>3 DEF StatusInductive, Rooted, IsKept
  <2> QED
    BY <1>2, <1>4, <1>6, <2>1 DEF StatusInductive, LookAtRoot, Ahead, StatusMissesNothing
<1>7. CASE LookAtActive
  <2>1. ~clashed /\ active = None => \A s \in before : \E t \in Times : archive[t] = s
    BY <1>3 DEF StatusInductive, IsKept
  <2> QED
    BY <1>2, <1>4, <1>7, <2>1 DEF StatusInductive, LookAtActive, Ahead, StatusMissesNothing
<1>8. CASE LoadActive
  <2>1. ~clashed => \A s \in before : s = active \/ \E t \in Times : archive[t] = s
    BY <1>3 DEF StatusInductive, IsKept
  <2>2. Loadable => active \in Snapshots
    BY DEF Loadable
  <2> QED
    BY <1>2, <1>4, <1>8, <2>1, <2>2
    DEF StatusInductive, LoadActive, Ahead, StatusMissesNothing
<1>9. CASE CountArchive
  <2>1. ~clashed => \A s \in before : s \in Archived \/ s = found
    BY <1>3, <1>9 DEF StatusInductive, CountArchive, Ahead, Archived, Entries
  <2>2. (\A t \in Entries : Consistent(t)) => Archived \subseteq Snapshots
    BY DEF Archived, Consistent
  <2> QED
    BY <1>2, <1>4, <1>9, <2>1, <2>2
    DEF StatusInductive, CountArchive, Ahead, StatusMissesNothing
<1> QED
  BY <1>5, <1>6, <1>7, <1>8, <1>9 DEF StatusStep

LEMMA StatusStarts ==
  ASSUME StoreInit, ArchiveReadable, StatusInit
  PROVE  StatusInductive
<1>1. StoreInductive
  BY StoreInitInductive
<1>2. Rooted
  BY DEF StoreInit, Rooted, SavingAt, RetiringAt
<1> QED
  BY <1>1, <1>2 DEF StatusInit, StatusInductive, Inspections, Inspecting, Ahead,
     StatusMissesNothing

LEMMA StatusStutters ==
  ASSUME StatusInductive, UNCHANGED <<storeVars, statusVars>>
  PROVE  StatusInductive'
<1>1. StoreInductive' /\ Rooted' /\ ArchiveReadable'
  BY StoreUnmoved DEF StatusInductive
<1> QED
  BY <1>1 DEF StatusInductive, statusVars, storeVars, files, past, Inspecting, Ahead,
     StatusMissesNothing

-------------------------------------------------------------------------------
(* The commands together *)

LEMMA ObserveStutters ==
  ASSUME ObserveInductive, UNCHANGED observeVars
  PROVE  ObserveInductive'
BY DEF observeVars, ObserveInductive, InStep, Limited, RoomLeft, HeartbeatIsSane

LEMMA EvaluateStutters ==
  ASSUME EvaluateInductive, UNCHANGED evaluateVars
  PROVE  EvaluateInductive'
<1>1. UNCHANGED <<clock, asked, snapshot, truth, evaluating, recorded>>
  BY DEF evaluateVars
<1>2. Judgement(asked, snapshot)' = Judgement(asked, snapshot)
  BY <1>1 DEF Judgement
<1> QED
  BY <1>1, <1>2 DEF EvaluateInductive, SnapshotTyped, TellsTruth, Judged

LEMMA PreflightStutters ==
  ASSUME PreflightInductive, UNCHANGED preflightVars
  PROVE  PreflightInductive'
BY DEF preflightVars, PreflightInductive

\* What each step of Next is to each of the commands.
LEMMA OneAtATime ==
  ASSUME [Next]_vars
  PROVE  /\ \/ BeginObserve \/ ObserveStep \/ ObserveFails \/ StopRequested
            \/ UNCHANGED observeVars
         /\ \/ BeginEvaluate \/ EvaluateStep \/ Tick \/ ClockSetBack
            \/ UNCHANGED evaluateVars
         /\ BeginPreflight \/ PreflightStep \/ UNCHANGED preflightVars
         /\ StatusNext \/ UNCHANGED <<storeVars, statusVars>>
<1>1. CASE UNCHANGED vars
  BY <1>1 DEF vars
<1>2. CASE Next
  BY <1>2 DEF Next, Observe, ObserveDisturbed, Economize, TimePasses, Preflight,
     LifecycleStatusLocal
<1> QED
  BY <1>1, <1>2

(***************************************************************************)
(* The inductive invariants of the four commands hold in every state.      *)
(***************************************************************************)
THEOREM ReadOnlyIsInductive ==
  Spec => [](ObserveInductive /\ EvaluateInductive /\ PreflightInductive /\ StatusInductive)
<1>1. Init => ObserveInductive /\ EvaluateInductive /\ PreflightInductive /\ StatusInductive
  BY ObserveStarts, EvaluateStarts, PreflightStarts, StatusStarts DEF Init
<1>2. /\ ObserveInductive /\ EvaluateInductive /\ PreflightInductive /\ StatusInductive
      /\ [Next]_vars
      => (/\ ObserveInductive /\ EvaluateInductive
          /\ PreflightInductive /\ StatusInductive)'
  <2> SUFFICES ASSUME ObserveInductive, EvaluateInductive, PreflightInductive,
                      StatusInductive, [Next]_vars
               PROVE  /\ ObserveInductive' /\ EvaluateInductive'
                      /\ PreflightInductive' /\ StatusInductive'
    OBVIOUS
  <2>1. ObserveInductive'
    BY OneAtATime, ObserveKeeps, ObserveStutters
  <2>2. EvaluateInductive'
    BY OneAtATime, EvaluateKeeps, EvaluateStutters
  <2>3. PreflightInductive'
    BY OneAtATime, PreflightKeeps, PreflightStutters
  <2>4. StatusInductive'
    BY OneAtATime, OthersKeep, StatusKeeps, StatusStutters DEF StatusNext
  <2> QED
    BY <2>1, <2>2, <2>3, <2>4
<1> QED
  BY <1>1, <1>2, PTL DEF Spec

(***************************************************************************)
(* A run of the observer that ends well has published what it reports, no  *)
(* more than was asked for, and fewer only when a stop was requested, after *)
(* which no cycle begins (service.rs:126-145).                             *)
(***************************************************************************)
THEOREM SummaryAlwaysCounts == Spec => []SummaryCounts
BY ObserveCounts, ReadOnlyIsInductive, PTL

(***************************************************************************)
(* A heartbeat tells percentages, or nothing, and a power in the range of  *)
(* the model, whatever the kernel's counters do (state/linux.rs:63-69;     *)
(* energy/generic.rs:29-39).                                               *)
(***************************************************************************)
THEOREM HeartbeatAlwaysSane == Spec => []HeartbeatIsSane
<1>1. ObserveInductive => HeartbeatIsSane
  BY DEF ObserveInductive
<1> QED
  BY <1>1, ReadOnlyIsInductive, PTL

(***************************************************************************)
(* What reaches the driver spares whoever uses the host, for any services, *)
(* policy and age of the observations (guards/rest_activity.rs,            *)
(* guards/active_service.rs, guards/ssh_session.rs).                       *)
(***************************************************************************)
THEOREM ProtectedAlwaysSpared == Spec => []SparesProtected
BY EvaluationSpares, ReadOnlyIsInductive, PTL

(***************************************************************************)
(* No snapshot that is refused would be let through if it knew less.       *)
(***************************************************************************)
THEOREM IgnoranceNeverPermits == Spec => []IgnorancePermitsNothing
BY EvaluationIgnores, ReadOnlyIsInductive, PTL

(***************************************************************************)
(* What a preflight reports ready, an apply does, once, or one of the four *)
(* things that a preflight does not look at stands against it: the host    *)
(* has drifted, the floor leaves no room, a file with a write bit may not  *)
(* be written, the sinks refuse the intent.  On any host and with any      *)
(* snapshot of it (main.rs:140-194, 256-282; rest_plan.rs:137-146).        *)
(***************************************************************************)
THEOREM ReadyAlwaysApplies == Spec => []ReadyMeansApplies
BY PreflightShows, ReadOnlyIsInductive, PTL

(***************************************************************************)
(* Every archive file is readable under its own capture time, whatever     *)
(* the order in which the commands link, but for a failed save that has    *)
(* removed the file of another (original_power.rs:155-161, 274-284).       *)
(***************************************************************************)
THEOREM ArchiveStaysReadable == Spec => []ArchiveReadable
<1>1. StatusInductive => ArchiveReadable
  BY DEF StatusInductive
<1> QED
  BY <1>1, ReadOnlyIsInductive, PTL

(***************************************************************************)
(* A status that is reported accounts for every snapshot whose save had    *)
(* succeeded when it began, unless a failed save has removed the file of   *)
(* another command (original_power.rs:155-161, 166-208).                   *)
(***************************************************************************)
THEOREM StatusNeverMisses == Spec => []StatusMissesNothing
<1>1. StatusInductive => StatusMissesNothing
  BY DEF StatusInductive
<1> QED
  BY <1>1, ReadOnlyIsInductive, PTL
===============================================================================
