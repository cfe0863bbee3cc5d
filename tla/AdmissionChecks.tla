-------------------------- MODULE AdmissionChecks --------------------------
(***************************************************************************)
(* The admission checks that judge one reading each (admission/): given    *)
(* what was read, whether the check passes, and which rejection class it   *)
(* ends the attempt with.  The order in which they run, and the checks     *)
(* that read the repository, are in Admission.                             *)
(*                                                                         *)
(* A reading is a record of just the facts its check tells apart.  A       *)
(* failed read has ok = FALSE.  Accounts, regions and identifiers are      *)
(* strings; an empty string stands for text that is empty or untrimmed.    *)
(***************************************************************************)
EXTENDS TransportScope

CONSTANTS
  MAX_SAFE,             \* the largest amount a safe integer holds
  SAFETY_REGION,
  VERDICT_CHANGING_RULES,
  FunctionsOf           \* execution kind -> functions its plan deploys

passed == [passed |-> TRUE, class |-> "none", reasons |-> {}]
failed(class, reasons) == [passed |-> FALSE, class |-> class, reasons |-> reasons]
failedWithAll(class, reasons, whenEmpty) ==
  failed(class, IF reasons = {} THEN {whenEmpty} ELSE reasons)
verdictOf(class, reasons) == IF reasons = {} THEN passed ELSE failed(class, reasons)
Reason(holds, code) == IF holds THEN {} ELSE {code}

-----------------------------------------------------------------------------
(* A2: the environment input file and where it places the coordination. *)

placementVerdict(env) ==
  LET arns == {env.table, env.stack}
  IN IF \E a \in arns : a.account # env.allowlisted THEN failed("ACCOUNT", {"COORDINATION_NOT_IN_ACCOUNT"})
     ELSE verdictOf("REGION", Reason(\A a \in arns : a.region = SAFETY_REGION, "COORDINATION_NOT_IN_REGION"))

assessEnvironmentInput(env) ==
  IF ~env.ok \/ env.form = "not_json" THEN failed("ACCOUNT", {"ENVIRONMENT_INPUT_UNREADABLE"})
  ELSE IF env.form = "invalid" THEN failed("ACCOUNT", {"ENVIRONMENT_INPUT_INVALID"})
  ELSE placementVerdict(env)

-----------------------------------------------------------------------------
(* A3 and A4: the payment, the approved decision and the target. *)

isAdmissibleAmount(amount) == amount > 0 /\ amount <= MAX_SAFE

amountReasons(amount) ==
  CASE amount <= 0 -> {"AMOUNT_NOT_POSITIVE_INTEGER"}
    [] amount > MAX_SAFE -> {"AMOUNT_UNSAFE"}
    [] OTHER -> {}

equalAmountReasons(captured, approved) ==
  Reason(isAdmissibleAmount(captured) /\ isAdmissibleAmount(approved) => captured = approved,
         "AMOUNTS_UNEQUAL")

currencyReasons(p, d) ==
  Reason(p = "BRL" /\ d = "BRL", "CURRENCY_NOT_BRL") \cup Reason(p = d, "CURRENCY_MISMATCH")

validateFinancialInput(f) ==
  Reason(f.payment.typed /\ f.decision.typed, "FINANCIAL_RECORD_TYPE_INVALID")
    \cup Reason(f.payment.closed /\ f.decision.closed, "FINANCIAL_RECORD_MEMBER_UNKNOWN")
    \cup amountReasons(f.payment.amount) \cup amountReasons(f.decision.amount)
    \cup equalAmountReasons(f.payment.amount, f.decision.amount)
    \cup currencyReasons(f.payment.currency, f.decision.currency)
    \cup Reason(f.decision.decision = "APPROVED", "DECISION_NOT_APPROVED")
    \cup Reason(f.payment.payment_id = f.decision.payment_id, "PAYMENT_ID_MISMATCH")

assessFinancialInput(f) ==
  IF ~f.objects THEN failed("FINANCIAL_INPUT", {"FINANCIAL_RECORD_NOT_OBJECT"})
  ELSE verdictOf("FINANCIAL_INPUT", validateFinancialInput(f))

\* A validation names one of the two variants, every other kind names none.
targetIsValid(kind, variant) ==
  IF kind = "VARIANT_VALIDATION" THEN variant \in {"conventional", "durable"}
  ELSE variant = Absent

assessIdentityInput(f, kind, variant) ==
  verdictOf("IDENTITY",
    Reason("" \notin {f.payment.payment_id, f.decision.refund_request_id, f.decision.payment_id},
           "IDENTIFIER_EMPTY")
      \cup Reason(targetIsValid(kind, variant), "EXECUTION_VARIANT_INVALID"))

-----------------------------------------------------------------------------
(* A6 and A7: the tools, the account and the caller. *)

supportedNodeVersion(v) == v.major = 24 /\ v.minor >= 12

toolReasons(t) ==
  IF ~t.ok THEN {"TOOLCHAIN_UNREADABLE"}
  ELSE Reason(supportedNodeVersion(t.node), "NODE_VERSION_UNSUPPORTED")
         \cup Reason(t.esbuild, "ESBUILD_UNAVAILABLE")
         \cup Reason(t.consistent, "DEPENDENCY_TREE_INCONSISTENT")

\* One unreserved execution for each function the plan deploys.
concurrencyReasons(c, required) ==
  IF ~c.ok THEN {"ACCOUNT_SETTINGS_UNREADABLE"}
  ELSE Reason(c.unreserved >= required, "UNRESERVED_CONCURRENCY_LOW")

USABLE_BOOTSTRAP_STATUSES ==
  {"CREATE_COMPLETE", "UPDATE_COMPLETE", "UPDATE_ROLLBACK_COMPLETE", "IMPORT_COMPLETE",
   "IMPORT_ROLLBACK_COMPLETE"}

bootstrapReasons(b) ==
  IF ~b.ok THEN {"BOOTSTRAP_UNREADABLE"}
  ELSE Reason(b.status \in USABLE_BOOTSTRAP_STATUSES, "BOOTSTRAP_MISSING")

assessCapabilities(r, kind) ==
  verdictOf("SAFETY", toolReasons(r.toolchain) \cup concurrencyReasons(r.concurrency, FunctionsOf[kind])
                        \cup bootstrapReasons(r.bootstrap))

assessCallerIdentity(caller, allowlisted) ==
  IF ~caller.ok THEN failed("ACCOUNT", {"CALLER_IDENTITY_UNREADABLE"})
  ELSE IF caller.account # allowlisted THEN failed("ACCOUNT", {"ACCOUNT_NOT_ALLOWLISTED"})
  ELSE verdictOf("REGION", Reason(caller.region = SAFETY_REGION, "REGION_NOT_ALLOWED"))

-----------------------------------------------------------------------------
(* A8: the coordination table and the lease. *)

COORDINATION_SCHEMA_VERSION == 1

tableReasons(table) ==
  IF ~table.ok THEN {"COORDINATION_TABLE_UNREADABLE"}
  ELSE Reason(table.arn_as_declared /\ table.status = "ACTIVE" /\ table.keys_as_expected
                /\ table.deletion_protection /\ table.ttl = "DISABLED",
              "COORDINATION_TABLE_INVALID")

assessCoordination(table, lease, env) ==
  LET configuration ==
        Reason(env.schema_version = COORDINATION_SCHEMA_VERSION, "COORDINATION_SCHEMA_VERSION_MISMATCH")
          \cup tableReasons(table)
          \cup Reason(lease # "unreadable", "LEASE_UNREADABLE")
  IN IF configuration # {} THEN failed("COORDINATION_CONFIGURATION", configuration)
     ELSE verdictOf("SAFETY", Reason(lease \in {"absent", "RELEASED"}, "CONFLICTING_LEASE"))

-----------------------------------------------------------------------------
(* A9: the golden suite of the oracle. *)

\* The rules that a passing golden case of the oracle declares it reaches.
ruleCoverage(run) ==
  (UNION {c.rules : c \in {d \in run.case_declarations : d.passed /\ d.oracle_file}})
    \cap VERDICT_CHANGING_RULES

countReasons(report) ==
  Reason(report.tests >= report.minimum, "TOO_FEW_GOLDEN_TESTS")
    \cup Reason(report.unfinished = 0, "GOLDEN_TESTS_UNFINISHED")

assessOracleAttestation(run) ==
  IF ~run.ok THEN failed("SAFETY", {"ORACLE_NOT_FINAL"})
  ELSE verdictOf("SAFETY",
         Reason(run.exit_code = 0, "GOLDEN_SUITE_EXIT")
           \cup (IF run.report_readable THEN countReasons(run.report) ELSE {"GOLDEN_REPORT_UNREADABLE"})
           \cup Reason(VERDICT_CHANGING_RULES \subseteq
                         (IF run.report_readable THEN ruleCoverage(run) ELSE {}), "RULE_UNCOVERED"))

-----------------------------------------------------------------------------
(* A10, A11 and A14: the selected probe, the identities and the cost. *)

\* `probe' is the selected package as it is read: usable or not, the
\* identities it verifies to, and its scope snapshot.
selectionReasons(selection, probe) ==
  Reason(/\ selection.transport_probe_id = probe.transport_probe_id
         /\ selection.original_package_index = probe.original_package_index
         /\ selection.amendment_head = probe.amendment_head, "SELECTION_MISMATCH")

selectedProbeVerdict(selection, probe) ==
  verdictOf("QUALIFICATION",
    selectionReasons(selection, probe)
      \cup Reason(probe.usable, "PROBE_NOT_USABLE")
      \cup Reason(probe.snapshot # Absent, "SELECTED_SCOPE_SNAPSHOT_MISSING"))

assessQualification(kind, selection, probe) ==
  IF kind = "TRANSPORT_PROBE" THEN verdictOf("QUALIFICATION", Reason(selection = Absent, "QUALIFICATION_NOT_ALLOWED"))
  ELSE IF selection = Absent THEN failed("QUALIFICATION", {"QUALIFICATION_NOT_SELECTED"})
  ELSE IF probe = Absent THEN failed("QUALIFICATION", {"PROBE_PACKAGE_UNREADABLE"})
  ELSE selectedProbeVerdict(selection, probe)

\* A run declares its four trials, a validation two, a probe none.
declaredTrials(kind) ==
  CASE kind = "RUN" -> 4 [] kind = "VARIANT_VALIDATION" -> 2 [] OTHER -> 0

\* `ids' are the identifiers the source draws: the attempt's own, the
\* execution's and one for each trial; each is valid and none repeats.
declareExecution(kind, selected, ids) ==
  IF kind # "TRANSPORT_PROBE" /\ ~selected THEN failed("IDENTITY", {"EXECUTION_QUALIFICATION_MISSING"})
  ELSE LET drawn == SubSeq(ids, 1, 2 + declaredTrials(kind))
       IN verdictOf("IDENTITY", Reason("" \notin {drawn[i] : i \in DOMAIN drawn}, "EXECUTION_ID_INVALID")
                      \cup Reason(\A i, j \in DOMAIN drawn : i # j => drawn[i] # drawn[j],
                                  "EXECUTION_ID_COLLISION"))

assessEstimatedCost(cost) ==
  IF ~cost.ok THEN failedWithAll("SAFETY", cost.reasons, "COST_NOT_ESTIMATED")
  ELSE verdictOf("SAFETY", Reason(cost.estimated <= cost.ceiling, "ESTIMATED_COST_ABOVE_CEILING"))
=============================================================================
