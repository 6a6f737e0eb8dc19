------------------------------ MODULE RestPreflight ---------------------------
(***************************************************************************)
(* preflight-rest-local of the Rust engine: the checks that tell an        *)
(* operator whether apply-rest would work, without doing anything          *)
(* (main.rs, preflight/mod.rs), and what that apply would then come to.    *)
(*                                                                         *)
(* The capabilities are what LinuxPowerProbe read, None where it could     *)
(* not.  "writable" is control_writable: the governor's file has a write   *)
(* bit.  Whose it is, whether the kernel takes the write, and the file of  *)
(* the ceiling are not looked at, and a sink is inspected, not used; so    *)
(* what the apply is let do is an input of its own.                        *)
(***************************************************************************)
EXTENDS RestPlanning

CONSTANTS
  Probes,       \* the capabilities that may be probed
  Clock,        \* the times of a snapshot and of the preflight
  AuditSinks    \* the local file, the collector to forward to and the one with receipts

ASSUME RestPreflightAssumption ==
  /\ Clock \subseteq Nat
  /\ None \notin Nat /\ RestGovernor # None
  /\ \A p \in Probes :
       /\ DOMAIN p = {"cpufreq", "writable", "governors", "governor", "hwMin", "hwMax",
                      "min", "max"}
       /\ {p.cpufreq, p.writable} \subseteq BOOLEAN
       /\ {p.hwMin, p.hwMax, p.min, p.max} \subseteq Nat \union {None}
       /\ None \notin {p.hwMin, p.min} => p.hwMin <= p.min
       /\ None \notin {p.min, p.max} => p.min <= p.max
       /\ None \notin {p.max, p.hwMax} => p.max <= p.hwMax

VARIABLES
  caps,          \* what is probed of the host
  record,        \* the recovery snapshot, None if it is not there or not a private file
  now,           \* the time of the preflight
  checking,      \* how far the preflight is
  blocked        \* the checks that were recorded as Blocked

preflightVars == <<caps, record, now, checking, blocked>>

\* The files as they were probed.
Live(p) == [f \in Files |->
              IF f = "governor" THEN p.governor ELSE IF f = "min" THEN p.min ELSE p.max]

\* The files as they may have been before somebody changed one of them, or as they were
\* read while somebody moved both limits.
Drifted(host) ==
  {host, [host EXCEPT !["governor"] = RestGovernor], [host EXCEPT !["max"] = @ - 1],
         [host EXCEPT !["max"] = @ + MHz], [host EXCEPT !["min"] = host["max"]],
         [host EXCEPT !["min"] = host["max"] + MHz]}

\* The snapshots that may have been captured of a host.
Captured(p) ==
  IF \E f \in Files : Live(p)[f] = None THEN {None}
  ELSE {capture(host, at) : host \in Drifted(Live(p)), at \in Clock} \union {None}

PreflightInit ==
  /\ caps = None /\ record = None /\ now = 0
  /\ checking = "idle"
  /\ blocked = {}

\* On a host that is as a snapshot recorded it, or changed since, or was never saved.
BeginPreflight ==
  /\ checking = "idle"
  /\ checking' = "host"
  /\ caps' \in Probes /\ now' \in Clock
  /\ record' \in Captured(caps')
  /\ UNCHANGED blocked

\* DeploymentPreflightReport::record
Records(check, isReady, next) ==
  /\ blocked' = IF isReady THEN blocked ELSE blocked \union {check}
  /\ checking' = next
  /\ UNCHANGED <<caps, record, now>>

\* verify_expected_host: the name is the expected one, another, or cannot be read.
CheckHost ==
  /\ checking = "host"
  /\ \E observed \in {"expected", "other", ""} :
       Records("Host identity", observed # "" /\ observed = "expected", "snapshot")

CheckSnapshot ==
  /\ checking = "snapshot"
  /\ Records("Recovery snapshot", record # None /\ is_fresh(record, now), "plan")

\* Mutant: whether the files can be written is left to the apply.
rest_plan_unchecked(p, writable) == p.status # "Blocked"

evaluate_rest_plan(p, writable) ==
  p.status = "NoChanges" \/ (p.status = "Ready" /\ writable)

CheckPlan ==
  /\ checking = "plan"
  /\ Records("REST plan", evaluate_rest_plan(plan(caps), caps.writable), "audit")

\* Each sink is inspected; one that is not configured is ready.
CheckAudit ==
  /\ checking = "audit"
  /\ \E refusing \in SUBSET AuditSinks :
       /\ blocked' = blocked \union refusing
       /\ checking' = "reported"
  /\ UNCHANGED <<caps, record, now>>

is_ready == blocked = {}

PreflightStep == CheckHost \/ CheckSnapshot \/ CheckPlan \/ CheckAudit

-------------------------------------------------------------------------------
(* The apply that follows, when nothing changes in between *)

\* What the kernel makes of a limit outside the hardware's range.
Clamped(f) ==
  IF f < caps.hwMin THEN caps.hwMin ELSE IF f > caps.hwMax THEN caps.hwMax ELSE f

Written(change) == IF change.file = "governor" THEN change.target ELSE Clamped(change.target)

\* The capabilities after the changes of a plan were written.
AfterWriting(changes) ==
  LET of(file, else) ==
        IF \E i \in DOMAIN changes : changes[i].file = file
          THEN Written(CHOOSE c \in {changes[i] : i \in DOMAIN changes} : c.file = file)
          ELSE else
  IN [caps EXCEPT !.governor = of("governor", @), !.max = of("max", @)]

\* The files that the apply may be let write: none without a write bit, which sysfs
\* asks of every user, but perhaps not those with one.
Allowances == {files \in SUBSET Files : "governor" \in files => caps.writable}

\* What the apply comes to on the host when the sinks take its intent or not (told), and
\* when it is let write some of the files (allowed).
ApplyOutcome(told, allowed) ==
  LET p == plan(caps)
  IN IF ~told THEN "not told"
     ELSE IF record = None THEN "no snapshot"
     ELSE IF ~is_fresh(record, now) THEN "stale snapshot"
     ELSE IF p.status = "Blocked" THEN "blocked"
     ELSE IF p.status = "NoChanges" THEN "satisfied"
     ELSE IF ~AcceptsPlan(p.changes, record) THEN "refused"
     ELSE IF \E i \in DOMAIN p.changes : p.changes[i].file \notin allowed THEN "not permitted"
     ELSE IF \E i \in DOMAIN p.changes :
               ~Matches(p.changes[i].file, Written(p.changes[i]), p.changes[i].target)
            THEN "not verified"
     ELSE "applied"

-------------------------------------------------------------------------------
(* Properties *)

\* The host is no longer as the snapshot recorded it.
HostDrifted == \E f \in Files : ~Matches(f, Live(caps)[f], record.host[f])

\* The recorded floor, above that of the hardware or with a fraction of a megahertz, does
\* not leave room for the ceiling of REST.
NoRoom ==
  /\ RestTarget(caps.hwMin, caps.hwMax) < record.host["min"]
  /\ record.host["min"] > caps.hwMin \/ caps.hwMin % MHz # 0

(***************************************************************************)
(* What the preflight reports ready, apply-rest does when it follows at    *)
(* once, but for four things that the preflight does not look at: the      *)
(* host has drifted from the snapshot, the recorded floor leaves no room   *)
(* (main.rs:140-194; linux_rest.rs:237-303), a file may not be written     *)
(* although the governor's has a write bit (linux_power.rs:42-45), or the  *)
(* sinks, which were only inspected, refuse the intent (main.rs:260-264).  *)
(* An apply that may not write is not one that the preflight found         *)
(* without a write bit.  And it is done once: whatever the kernel makes of *)
(* the fractions of a megahertz, planning anew asks for nothing more       *)
(* (rest_plan.rs:137-146).                                                 *)
(***************************************************************************)
ReadyMeansApplies ==
  checking = "reported" /\ is_ready =>
    \A told \in BOOLEAN : \A allowed \in Allowances :
      LET outcome == ApplyOutcome(told, allowed)
      IN  \/ outcome = "satisfied"
          \/ /\ outcome = "applied"
             /\ plan(AfterWriting(plan(caps).changes)).status = "NoChanges"
          \/ outcome = "refused" /\ (HostDrifted \/ NoRoom)
          \/ outcome = "not permitted" /\ caps.writable
          \/ outcome = "not told" /\ ~told

-------------------------------------------------------------------------------
(* The inductive invariant behind it *)

\* A check that is behind and was not recorded as Blocked found what it looks for.
PreflightInductive ==
  /\ checking \in {"idle", "host", "snapshot", "plan", "audit", "reported"}
  /\ checking # "idle" => caps \in Probes /\ record \in Captured(caps)
  /\ checking \in {"plan", "audit", "reported"} /\ "Recovery snapshot" \notin blocked =>
       record # None /\ is_fresh(record, now)
  /\ checking \in {"audit", "reported"} /\ "REST plan" \notin blocked =>
       evaluate_rest_plan(plan(caps), caps.writable)

===============================================================================
