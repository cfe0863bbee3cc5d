--------------------------- MODULE TerminalReason ---------------------------
(***************************************************************************)
(* Why an execution ended, as its summary tells it: the first event of the *)
(* runner and coordination journals that stops the lifecycle, else what    *)
(* the closure left open.  `events' holds, in journal time, the events     *)
(* that can carry a reason: failed phases, interruptions, lease events and *)
(* breached safety checks.                                                 *)
(***************************************************************************)
EXTENDS Naturals, Sequences

Causes == {"OPERATOR_ABORT", "LEASE_LOST", "SAFETY_DEADLINE"}

Phases ==
  {"LEASE_ACQUISITION", "PROVISIONING", "READINESS", "TRIALS", "PROBE_FREEZE", "CLEANUP",
   "LEASE_FINALIZATION", "SUMMARY"}

LeaseEvents == {"ACQUISITION_FAILED", "LOST", "RELEASED", "RECOVERY_REQUIRED", "RELEASE_FAILED", "STATE_UNVERIFIED"}

Boundaries == {"ACTIVE_TIME", "TOTAL_TIME"}

Failed(phase) == <<"phase", phase>>
Interrupted(cause) == <<"interrupted", cause>>
Lease(event) == <<"lease", event>>
Breached(boundary) == <<"safety", boundary>>

Events ==
  ({"phase"} \X Phases) \cup ({"interrupted"} \X Causes) \cup ({"lease"} \X LeaseEvents)
    \cup ({"safety"} \X Boundaries)

Kinds == {"RUN", "VARIANT_VALIDATION", "TRANSPORT_PROBE"}

Incomplete(kind) ==
  CASE kind = "RUN" -> "TRIAL_INCOMPLETE"
    [] kind = "VARIANT_VALIDATION" -> "VALIDATION_INCOMPLETE"
    [] OTHER -> "PROBE_INCOMPLETE"

\* The reason an event gives a run or a probe; "none" for the others.
stoppingReason(kind, e) ==
  CASE e[1] = "interrupted" -> e[2]
    [] e = Failed("LEASE_ACQUISITION") \/ e = Lease("ACQUISITION_FAILED") -> "LEASE_ACQUISITION_FAILED"
    [] e = Failed("PROVISIONING") -> "PROVISIONING_FAILED"
    [] e = Failed("READINESS") \/ e = Failed("TRIALS") -> Incomplete(kind)
    [] e = Failed("PROBE_FREEZE") /\ kind # "RUN" -> "EVIDENCE_FINALIZATION_FAILED"
    [] e = Lease("LOST") -> "LEASE_LOST"
    [] OTHER -> "none"

\* A validation also ends with what its later phases and checks say.
causeOf(e) ==
  CASE e = Failed("CLEANUP") -> "CLEANUP_INCOMPLETE"
    [] e = Failed("SUMMARY") -> "EVIDENCE_FINALIZATION_FAILED"
    [] e = Failed("LEASE_FINALIZATION") \/ e = Lease("STATE_UNVERIFIED") -> "LEASE_STATE_UNVERIFIED"
    [] e = Lease("RELEASE_FAILED") -> "LEASE_RELEASE_FAILED"
    [] e = Breached("ACTIVE_TIME") -> "SAFETY_DEADLINE"
    [] e = Breached("TOTAL_TIME") -> "SAFETY_LIMIT_EXCEEDED"
    [] OTHER -> stoppingReason("VARIANT_VALIDATION", e)

FINALIZATION_REASONS == {"LEASE_RELEASE_FAILED", "LEASE_STATE_UNVERIFIED"}

\* reasons.find((reason) => reason !== undefined) ?? otherwise
First(reasons, otherwise) ==
  LET given == {i \in DOMAIN reasons : reasons[i] # "none"}
  IN  IF given = {} THEN otherwise ELSE reasons[CHOOSE i \in given : \A j \in given : i <= j]

closureCauseOf(cleanup, audit, otherwise) ==
  IF cleanup # "succeeded" THEN "CLEANUP_INCOMPLETE"
  ELSE IF audit # "clean" THEN "LEAK_AUDIT_NOT_CLEAN"
  ELSE otherwise

\* deriveRunTerminalReason and deriveProbeTerminalReason: `frozen' is whether
\* every declared trial, or the probe, has its result.
deriveTerminalReason(kind, events, frozen, cleanup, audit) ==
  LET stopping == [i \in DOMAIN events |-> stoppingReason(kind, events[i])]
      summaryFailed == \E i \in DOMAIN events : events[i] = Failed("SUMMARY")
  IN  First(stopping,
            IF ~ frozen THEN Incomplete(kind)
            ELSE closureCauseOf(cleanup, audit,
                                IF summaryFailed THEN "EVIDENCE_FINALIZATION_FAILED" ELSE "COMPLETED"))

\* The last event that settles the lease.
finalLeaseStatus(events) ==
  LET settling == {i \in DOMAIN events : events[i][1] = "lease" /\ events[i][2] \notin {"ACQUISITION_FAILED", "LOST"}}
      last == events[CHOOSE i \in settling : \A j \in settling : j <= i]
  IN  IF settling = {} THEN "unverified"
      ELSE IF last = Lease("RELEASED") THEN "released"
      ELSE IF last = Lease("RECOVERY_REQUIRED") THEN "recovery_required"
      ELSE "unverified"

leaseCauseOf(status) ==
  CASE status = "released" -> "COMPLETED"
    [] status = "recovery_required" -> "LEASE_RELEASE_FAILED"
    [] OTHER -> "LEASE_STATE_UNVERIFIED"

deriveValidationTerminalReason(events, cleanup, audit) ==
  LET causes == [i \in DOMAIN events |-> causeOf(events[i])]
      execution == [i \in DOMAIN events |-> IF causes[i] \in FINALIZATION_REASONS THEN "none" ELSE causes[i]]
      finalization == [i \in DOMAIN events |-> IF causes[i] \in FINALIZATION_REASONS THEN causes[i] ELSE "none"]
  IN  First(execution,
            closureCauseOf(cleanup, audit,
                           First(finalization, leaseCauseOf(finalLeaseStatus(events)))))
=============================================================================
