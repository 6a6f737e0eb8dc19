----------------------------- MODULE RestEvaluation ---------------------------
(***************************************************************************)
(* How the Rust engine judges an intent: the action it comes to, what the  *)
(* guards say of the action and of what was observed, and whether the      *)
(* authority policy grants it (engine.rs, guards/, authority/).            *)
(*                                                                         *)
(* An observation is known or not, and was made at a time; a value that is *)
(* unknown and one that is unavailable are the same to every guard.  The   *)
(* services are numbered in the order in which a guard looks at them.      *)
(***************************************************************************)
EXTENDS RestCommands, Integers, FiniteSets

CONSTANTS
  NumServices,           \* how many services may be protected
  MaxObservationAge,     \* max_age of the FreshnessGuard
  Policies,              \* the authority policies
  MaxTime                \* bound on the clock

ASSUME RestEvaluationAssumption ==
  NumServices \in Nat /\ MaxObservationAge \in Nat /\ MaxTime \in Nat

ASSUME NoneIsNoAnswer == None # "Allow"

VARIABLES
  clock,        \* the time of the clock, which may be set back
  asked,        \* the intent, the guards and the policy, None before
  snapshot,     \* the NodeSnapshot as far as it is collected
  truth,        \* history: what was the case when it was collected
  evaluating,   \* how far the evaluation is
  recorded      \* what the DryRunDriver has recorded, None before

evaluateVars == <<clock, asked, snapshot, truth, evaluating, recorded>>

Services == 1..NumServices

Known(value, at) == [known |-> TRUE, value |-> value, at |-> at]
Unknown(at) == [known |-> FALSE, value |-> None, at |-> at]

\* Observation::is_fresh
IsFresh(observation, now) ==
  observation.at <= now /\ now - observation.at <= MaxObservationAge

-------------------------------------------------------------------------------
(* The action *)

Intents == {"Available", "Economize", "Release", "Maintenance", "ForAService"}

Action(kind, risk) == [kind |-> kind, risk |-> risk]

\* candidate_action: none for a service, and none for maintenance.
candidate_action(intent) ==
  CASE intent = "Available" -> Action("SetActive", "Recoverable")
    [] intent = "Economize" -> Action("SetRest", "Recoverable")
    [] intent = "Release"   -> Action("Shutdown", "Disruptive")
    [] OTHER                -> None

capability_for(action) ==
  IF action.kind = "Shutdown" THEN "ShutdownNode" ELSE "OptimizePower"

-------------------------------------------------------------------------------
(* The guards *)

\* A snapshot holds no entry for a service that was not observed.
IsKnownIdle(view, s) ==
  /\ s \in DOMAIN view.services
  /\ view.services[s].known
  /\ view.services[s].value = "Idle"

IsKnownActive(view, s) ==
  /\ s \in DOMAIN view.services
  /\ view.services[s].known
  /\ view.services[s].value = "Active"

\* Mutant: only the services that were observed are looked at.
NotIdleOfObserved(view) ==
  {s \in view.protected \intersect DOMAIN view.services : ~IsKnownIdle(view, s)}

\* An empty observation map is not evidence that a service is idle.
NotIdle(view) == {s \in view.protected : ~IsKnownIdle(view, s)}

First(services) == CHOOSE s \in services : \A t \in services : s <= t

\* RestActivityGuard: the first service that is not idle decides between the two refusals.
RestActivity(view, action, now) ==
  IF action.kind # "SetRest" \/ NotIdle(view) = {} THEN "Allow"
  ELSE IF IsKnownActive(view, First(NotIdle(view))) THEN "Defer"
  ELSE "Block"

\* ActiveServiceGuard
ActiveService(view, action, now) ==
  IF action.kind # "Shutdown" \/ NotIdle(view) = {} THEN "Allow" ELSE "Block"

\* SshSessionGuard
SshSession(view, action, now) ==
  IF action.kind # "Shutdown" \/ (view.ssh.known /\ view.ssh.value = 0)
    THEN "Allow" ELSE "Block"

\* FreshnessGuard: the three observations that a destructive action rests on.
Freshness(view, action, now) ==
  IF \/ action.risk = "Recoverable"
     \/ \A o \in {"mode", "reachable", "ssh"} : IsFresh(view[o], now)
    THEN "Allow" ELSE "Block"

AllGuards == {"RestActivity", "ActiveService", "SshSession", "Freshness"}

\* The guards of economize-local.
LocalGuards == {"RestActivity", "SshSession"}

verdict(guard, view, action, now) ==
  CASE guard = "RestActivity"  -> RestActivity(view, action, now)
    [] guard = "ActiveService" -> ActiveService(view, action, now)
    [] guard = "SshSession"    -> SshSession(view, action, now)
    [] guard = "Freshness"     -> Freshness(view, action, now)

-------------------------------------------------------------------------------
(* The authority *)

Policy(granted, stepUp) == [granted |-> granted, stepUp |-> stepUp]
observe_only == Policy({"Observe"}, {})
optimization_only == Policy({"Observe", "OptimizePower"}, {})

\* PolicyAuthorityGate::authorize
authorize(policy, capability) ==
  IF capability \notin policy.granted THEN "Deny"
  ELSE IF capability \in policy.stepUp THEN "Challenge"
  ELSE "Allow"

-------------------------------------------------------------------------------
(* The engine *)

\* Mutant: a guard that defers does not stop the action.
StoppedByBlock(guards, view, action, now) ==
  \E g \in guards : verdict(g, view, action, now) = "Block"

Stopped(guards, view, action, now) ==
  \E g \in guards : verdict(g, view, action, now) \in {"Block", "Defer"}

\* evaluate: the authorization, or None when there is no action or a guard stops it.
evaluate(guards, policy, intent, view, now) ==
  LET action == candidate_action(intent)
  IN [candidate |-> action,
      authorization |->
        IF action = None THEN None
        ELSE IF Stopped(guards, view, action, now) THEN None
        ELSE authorize(policy, capability_for(action))]

-------------------------------------------------------------------------------
(* The steps of an evaluation: three looks at the host, then the judgement *)

Nothing == [mode |-> Unknown(0), reachable |-> Unknown(0), ssh |-> Unknown(0),
            protected |-> {}, services |-> <<>>]

EvaluateInit ==
  /\ clock = 0
  /\ asked = None
  /\ snapshot = Nothing
  /\ truth = [sessions |-> 0, services |-> [s \in Services |-> "Idle"]]
  /\ evaluating = "idle"
  /\ recorded = None

BeginEvaluate ==
  /\ evaluating = "idle"
  /\ evaluating' = "mode"
  /\ UNCHANGED <<clock, asked, snapshot, truth, recorded>>

LookAtMode ==
  /\ evaluating = "mode"
  /\ evaluating' = "ssh"
  /\ \E protected \in SUBSET Services :
       snapshot' = [snapshot EXCEPT !.mode = Known("Active", clock),
                                    !.reachable = Known(TRUE, clock),
                                    !.protected = protected]
  /\ UNCHANGED <<clock, asked, truth, recorded>>

\* The sessions are counted or not; the local collector never counts them.
LookAtSessions ==
  /\ evaluating = "ssh"
  /\ evaluating' = "services"
  /\ \E n \in 0..1 : \E seen \in {Known(n, clock), Unknown(clock)} :
       /\ truth' = [truth EXCEPT !.sessions = n]
       /\ snapshot' = [snapshot EXCEPT !.ssh = seen]
  /\ UNCHANGED <<clock, asked, recorded>>

\* Of some services the activity is told, of some that it is not known, of some nothing.
LookAtServices ==
  /\ evaluating = "services"
  /\ evaluating' = "judging"
  /\ \E activity \in [Services -> {"Idle", "Active"}], looked \in SUBSET Services :
       \E told \in SUBSET looked :
         /\ truth' = [truth EXCEPT !.services = activity]
         /\ snapshot' = [snapshot EXCEPT !.services =
              [s \in looked |-> IF s \in told THEN Known(activity[s], clock) ELSE Unknown(clock)]]
  /\ UNCHANGED <<clock, asked, recorded>>

Questions == [intent : Intents, guards : {AllGuards, LocalGuards}, policy : Policies]

Judgement(question, view) ==
  evaluate(question.guards, question.policy, question.intent, view, clock)

\* The question is asked of the snapshot as it is; only what is authorized without a
\* challenge reaches the driver, which records it.
Judge ==
  /\ evaluating = "judging"
  /\ asked' \in Questions
  /\ LET judged == Judgement(asked', snapshot)
     IN \/ /\ judged.authorization = "Allow"
           /\ evaluating' = "executed" /\ recorded' = judged.candidate
        \/ /\ judged.authorization # "Allow"
           /\ evaluating' = "refused" /\ UNCHANGED recorded
  /\ UNCHANGED <<clock, snapshot, truth>>

Evaluating == evaluating \in {"mode", "ssh", "services", "judging"}

Tick ==
  /\ Evaluating /\ clock < MaxTime
  /\ clock' = clock + 1
  /\ UNCHANGED <<asked, snapshot, truth, evaluating, recorded>>

ClockSetBack ==
  /\ Evaluating /\ clock > 0
  /\ clock' = 0
  /\ UNCHANGED <<asked, snapshot, truth, evaluating, recorded>>

EvaluateStep == LookAtMode \/ LookAtSessions \/ LookAtServices \/ Judge

-------------------------------------------------------------------------------
(* Properties *)

(***************************************************************************)
(* What reaches the driver spares whoever uses the host.  No protected     *)
(* service was active when the host was looked at, neither one that the    *)
(* snapshot tells nothing of nor one it cannot tell of                     *)
(* (guards/rest_activity.rs, guards/active_service.rs); and when a         *)
(* shutdown was let through nobody was logged in, as counted neither too   *)
(* long ago nor, after the clock was set back, in the future               *)
(* (guards/ssh_session.rs, guards/freshness.rs, core/observation.rs:58-64).*)
(* A shutdown that the local guards alone let through is the exception:    *)
(* they have no guard for it, and no policy of the local command grants it.*)
(***************************************************************************)
SparesProtected ==
  evaluating = "executed" =>
    /\ \/ recorded.kind = "SetRest"
       \/ recorded.kind = "Shutdown" /\ asked.guards = AllGuards
       => \A s \in snapshot.protected : truth.services[s] = "Idle"
    /\ recorded.kind = "Shutdown" =>
         /\ truth.sessions = 0
         /\ asked.guards = AllGuards =>
              snapshot.ssh.at \in (clock - MaxObservationAge)..clock

\* What the snapshot would be if one thing less were known.
Forgetting(view) ==
  {[view EXCEPT !.ssh = Unknown(view.ssh.at)]}
  \union {[view EXCEPT !.services = [t \in DOMAIN view.services \ {s} |-> view.services[t]]] :
            s \in DOMAIN view.services}
  \union {[view EXCEPT !.services[s] = Unknown(clock)] : s \in DOMAIN view.services}

(***************************************************************************)
(* Not knowing never helps: a snapshot that is refused is also refused     *)
(* when any one of its observations is lost or was not made.               *)
(***************************************************************************)
IgnorancePermitsNothing ==
  evaluating = "refused" =>
    \A view \in Forgetting(snapshot) : Judgement(asked, view).authorization # "Allow"

-------------------------------------------------------------------------------
(* The inductive invariant behind it *)

\* What the snapshot tells was the case when the host was looked at.
TellsTruth ==
  /\ evaluating \in {"services", "judging", "executed", "refused"} /\ snapshot.ssh.known =>
       snapshot.ssh.value = truth.sessions
  /\ evaluating \in {"judging", "executed", "refused"} =>
       \A s \in DOMAIN snapshot.services :
         snapshot.services[s].known => snapshot.services[s].value = truth.services[s]

\* An evaluation that is over came to its end by its judgement.
Judged ==
  /\ evaluating \in {"executed", "refused"} => asked \in Questions
  /\ evaluating = "executed" =>
       /\ Judgement(asked, snapshot).authorization = "Allow"
       /\ recorded = candidate_action(asked.intent)
  /\ evaluating = "refused" => Judgement(asked, snapshot).authorization # "Allow"

\* What may be told of an observation.
Observation(values) ==
  [known : {TRUE}, value : values, at : Nat] \union [known : {FALSE}, value : {None}, at : Nat]

SnapshotTyped ==
  /\ DOMAIN snapshot = {"mode", "reachable", "ssh", "protected", "services"}
  /\ snapshot.ssh \in Observation(0..1)
  /\ snapshot.protected \subseteq Services
  /\ DOMAIN snapshot.services \subseteq Services
  /\ \A s \in DOMAIN snapshot.services :
       snapshot.services[s] \in Observation({"Idle", "Active"})

EvaluateInductive ==
  /\ clock \in Nat
  /\ evaluating \in {"idle", "mode", "ssh", "services", "judging", "executed", "refused"}
  /\ SnapshotTyped
  /\ truth \in [sessions : 0..1, services : [Services -> {"Idle", "Active"}]]
  /\ TellsTruth
  /\ Judged
===============================================================================
