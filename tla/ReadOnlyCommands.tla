--------------------------- MODULE ReadOnlyCommands ---------------------------
(***************************************************************************)
(* The commands of the Rust engine that change nothing (main.rs): a        *)
(* process is started with one of them and takes its steps.                *)
(*                                                                         *)
(* observe-service-local is ObserveService, preflight-rest-local is        *)
(* RestPreflight, lifecycle-status-local is LifecycleStatus, during which  *)
(* other commands are at work in the recovery store, and economize-local   *)
(* is RestEvaluation, where the intents, guards and policies are all that  *)
(* the crate offers and not only those of the command.                     *)
(*                                                                         *)
(* Each command's properties stand in its own module.                      *)
(***************************************************************************)
EXTENDS ObserveService, RestEvaluation, RestPreflight, LifecycleStatus

CONSTANT Questioned    \* the commands that may be given

VARIABLE command       \* the command that was given

vars == <<observeVars, evaluateVars, preflightVars, storeVars, statusVars, command>>

Init ==
  /\ command \in Questioned
  /\ ObserveInit /\ EvaluateInit /\ PreflightInit
  /\ StoreInit /\ ArchiveReadable /\ StatusInit
  /\ command # "status" => rootDir = "absent"

Observe ==
  /\ command = "observe"
  /\ BeginObserve \/ ObserveStep
  /\ UNCHANGED <<evaluateVars, preflightVars, storeVars, statusVars, command>>

ObserveDisturbed ==
  /\ command = "observe"
  /\ ObserveFails \/ StopRequested
  /\ UNCHANGED <<evaluateVars, preflightVars, storeVars, statusVars, command>>

Economize ==
  /\ command = "economize"
  /\ BeginEvaluate \/ EvaluateStep
  /\ UNCHANGED <<observeVars, preflightVars, storeVars, statusVars, command>>

TimePasses ==
  /\ command = "economize"
  /\ Tick \/ ClockSetBack
  /\ UNCHANGED <<observeVars, preflightVars, storeVars, statusVars, command>>

Preflight ==
  /\ command = "preflight"
  /\ BeginPreflight \/ PreflightStep
  /\ UNCHANGED <<observeVars, evaluateVars, storeVars, statusVars, command>>

LifecycleStatusLocal ==
  /\ command = "status"
  /\ StatusNext
  /\ UNCHANGED <<observeVars, evaluateVars, preflightVars, command>>

Next ==
  \/ Observe \/ ObserveDisturbed
  \/ Economize \/ TimePasses
  \/ Preflight
  \/ LifecycleStatusLocal

\* The thread of the observer goes on: it is never waiting for anybody but the clock.
Fairness == WF_vars(Observe)

Spec == Init /\ [][Next]_vars /\ Fairness

===============================================================================
