----------------------------- MODULE ObserveService ---------------------------
(***************************************************************************)
(* observe-service-local of the Rust engine: the loop that collects a      *)
(* snapshot of the host, publishes it as a heartbeat and waits             *)
(* (service.rs), with the collector's two readings of the CPU counters     *)
(* (state/linux.rs) and the estimate of the power they stand for.          *)
(***************************************************************************)
EXTENDS EnergyEstimates

CONSTANTS
  Limits,        \* the values of --max-cycles, None if it was not given
  Counters,      \* what the kernel's CPU counters may say
  Memories,      \* what /proc/meminfo may say: [total, available]
  PowerModel,    \* the LinearPowerModel of the local host
  MaxCycles      \* bound on the cycles of a run, more than any of the limits

ASSUME ObserveServiceAssumption ==
  /\ Limits \subseteq (Nat \ {0}) \union {None}
  /\ None \notin Int
  /\ \A c \in Counters : c.total \in Nat /\ c.idle \in Nat
  /\ \A m \in Memories : {m.total, m.available} \subseteq Nat \union {None}
  /\ {PowerModel.baseline, PowerModel.cpu, PowerModel.memory} \subseteq Nat
  /\ MaxCycles \in Nat
  /\ \A l \in Limits \ {None} : l < MaxCycles

VARIABLES
  limit,        \* maximum_cycles
  beat,         \* how far the loop is
  sample,       \* the first reading of the CPU counters, None when there is none
  heartbeat,    \* the last heartbeat collected
  completed,    \* completed_cycles
  published,    \* the heartbeats that were published
  stopping,     \* whether a stop was requested
  last          \* history: how many heartbeats may be published once it was, None before

observeVars == <<limit, beat, sample, heartbeat, completed, published, stopping, last>>

Beats == {"idle", "top", "sampling", "sampled", "publishing", "waiting", "ended", "failed"}

ObserveInit ==
  /\ limit = None
  /\ beat = "idle"
  /\ sample = None /\ heartbeat = None
  /\ completed = 0 /\ published = 0
  /\ stopping = FALSE /\ last = None

Beat(b) == beat' = b

\* ObserverConfig::from_arguments
BeginObserve ==
  /\ beat = "idle"
  /\ Beat("top")
  /\ limit' \in Limits
  /\ UNCHANGED <<sample, heartbeat, completed, published, stopping, last>>

\* Mutant: a stop is only looked at after a heartbeat.
TopUnlooked ==
  /\ beat = "top"
  /\ completed < MaxCycles
  /\ Beat("sampling")
  /\ UNCHANGED <<limit, sample, heartbeat, completed, published, stopping, last>>

\* The head of the loop.
Top ==
  /\ beat = "top"
  /\ \/ stopping /\ Beat("ended")
     \/ ~stopping /\ completed < MaxCycles /\ Beat("sampling")
  /\ UNCHANGED <<limit, sample, heartbeat, completed, published, stopping, last>>

\* The first reading of /proc/stat, which may not be there.
ReadFirst ==
  /\ beat = "sampling"
  /\ Beat("sampled")
  /\ sample' \in Counters \union {None}
  /\ UNCHANGED <<limit, heartbeat, completed, published, stopping, last>>

\* The second one and the rest of the snapshot: what cannot be read is left out.
Collect ==
  /\ beat = "sampled"
  /\ Beat("publishing")
  /\ \E second \in Counters \union {None}, m \in Memories :
       LET cpu == IF None \in {sample, second} THEN None ELSE cpu_utilization(sample, second)
           mem == memory_utilization(m.total, m.available)
       IN heartbeat' = [sequence |-> completed + 1, cpu |-> cpu, memory |-> mem,
                        power |-> read_best(PowerModel, cpu, mem)]
  /\ sample' = None
  /\ completed' = completed + 1
  /\ UNCHANGED <<limit, published, stopping, last>>

\* Mutant: the limit is only looked at before the first cycle.
LimitForgotten == limit # None /\ completed = 0

LimitMet == limit # None /\ completed = limit

Publish ==
  /\ beat = "publishing"
  /\ Beat(IF LimitMet \/ stopping THEN "ended" ELSE "waiting")
  /\ published' = published + 1
  /\ UNCHANGED <<limit, sample, heartbeat, completed, stopping, last>>

Wait == beat = "waiting" /\ Beat("top")
        /\ UNCHANGED <<limit, sample, heartbeat, completed, published, stopping, last>>

\* An error of collect or publish ends the run.
ObserveFails ==
  /\ beat \in {"sampled", "publishing"}
  /\ Beat("failed")
  /\ sample' = None
  /\ UNCHANGED <<limit, heartbeat, completed, published, stopping, last>>

StopRequested ==
  /\ beat \notin {"idle", "ended", "failed"} /\ ~stopping
  /\ stopping' = TRUE
  /\ last' = IF beat \in {"top", "waiting"} THEN published ELSE published + 1
  /\ UNCHANGED <<limit, beat, sample, heartbeat, completed, published>>

ObserveStep == Top \/ ReadFirst \/ Collect \/ Publish \/ Wait

-------------------------------------------------------------------------------
(* Properties *)

(***************************************************************************)
(* A run that ends well has published every cycle it reports, no more than *)
(* it was asked for, and fewer only when a stop was requested.  A request  *)
(* lets the cycle under way publish its heartbeat, and no other begins:    *)
(* between two cycles it is the end (service.rs:126-145).                  *)
(***************************************************************************)
SummaryCounts ==
  /\ limit # None => published <= limit
  /\ beat = "ended" => published = completed /\ (stopping \/ published = limit)
  /\ beat = "failed" => published \in {completed, completed - 1}
  /\ stopping => published <= last

(***************************************************************************)
(* Whatever the kernel's counters do between the two readings, going       *)
(* backwards included, a heartbeat tells a percentage or nothing, and a    *)
(* power within the model's range exactly when it tells both percentages   *)
(* (state/linux.rs:63-69, 118; energy/generic.rs:29-39).                   *)
(***************************************************************************)
HeartbeatIsSane ==
  heartbeat # None =>
    /\ {heartbeat.cpu, heartbeat.memory} \subseteq (0..100) \union {None}
    /\ heartbeat.power = None <=> None \in {heartbeat.cpu, heartbeat.memory}
    /\ heartbeat.power # None =>
         heartbeat.power \in (100 * PowerModel.baseline)..
                             (100 * (PowerModel.baseline + PowerModel.cpu + PowerModel.memory))

(***************************************************************************)
(* A run with --max-cycles ends, and so does one that is asked to stop,    *)
(* however long it waits between cycles.                                   *)
(***************************************************************************)
BoundedRunEnds ==
  ((beat = "top" /\ limit # None) \/ stopping) ~> (beat \in {"ended", "failed"})

-------------------------------------------------------------------------------
(* The inductive invariant behind it *)

\* The heartbeats collected and those published differ by the one that is in hand.
InStep ==
  /\ beat \in {"idle", "top", "sampling", "sampled", "waiting", "ended"} => published = completed
  /\ beat = "publishing" => published = completed - 1
  /\ beat = "failed" => published \in {completed, completed - 1}

\* The loop goes on only below the limit.
Limited ==
  limit # None =>
    /\ limit \in Nat
    /\ completed <= limit
    /\ beat \in {"top", "sampling", "sampled", "waiting"} => completed < limit

\* A stop that was requested leaves room for the cycle under way and for no other.
RoomLeft ==
  stopping =>
    /\ last \in Nat
    /\ published <= last
    /\ beat \in {"sampling", "sampled", "publishing"} => published + 1 <= last

ObserveInductive ==
  /\ beat \in Beats /\ stopping \in BOOLEAN
  /\ limit \in Limits \union {None}
  /\ sample \in Counters \union {None}
  /\ completed \in Nat /\ published \in Nat
  /\ beat = "idle" => limit = None /\ completed = 0 /\ ~stopping
  /\ InStep /\ Limited /\ RoomLeft
  /\ beat = "ended" => stopping \/ published = limit
  /\ HeartbeatIsSane
===============================================================================
