---------------------------- MODULE MCAdmission ----------------------------
(***************************************************************************)
(* Admission and provisioning on a project of nine paths and three         *)
(* packages.  Two functions are deployed: the transport's (caller.ts, its  *)
(* client.ts and the package sdk) and another one (other.ts, helper.ts and *)
(* the package tool) that is not in the scope.                             *)
(***************************************************************************)
EXTENDS Provisioning, SequencesExt

Policy == TRANSPORT_SCOPE_POLICY_PATH
Lock == PACKAGE_LOCK_PATH

AllPaths == {Policy, Lock, "caller.ts", "client.ts", "other.ts", "helper.ts", "infra.ts", "local.ts", "lib.ts"}
OutsidePaths == {"lib.ts"}
IgnoredPaths == {"local.ts"}
AllPackages == {"sdk", "dep", "tool"}
Contents == 1..5
Roots == [p \in AllPaths |-> IF p \in {"caller.ts", "client.ts"} THEN {"transport"} ELSE {}]
EntryPoints == {"caller.ts", "other.ts"}

Imports == [x \in AllPaths \X Contents |->
  CASE x[1] = "caller.ts" -> {"client.ts", "sdk"} \cup
         (CASE x[2] = 3 -> {"local.ts"} [] x[2] = 4 -> {"lib.ts"} [] x[2] = 5 -> {"tool"} [] OTHER -> {})
    [] x[1] = "other.ts" -> {"tool"} \cup (IF x[2] = 2 THEN {"helper.ts"} ELSE {})
    [] OTHER -> {}]

Projection(id, type, paths) ==
  [projection_id |-> id, resource_type |-> type, selector |-> "caller", property_paths |-> paths]
Projections ==
  {Projection("function", "AWS::Lambda::Function",
              {<<"Timeout">>, <<"Role">>, <<"Environment">>, <<"DeadLetterConfig">>,
               <<"ReservedConcurrentExecutions">>}),
   Projection("grant", "AWS::IAM::Policy", {<<"PolicyDocument">>}),
   Projection("mapping", "AWS::Lambda::EventSourceMapping", {<<"FunctionName">>})}
PolicyWith(projections) ==
  [entry_points |-> {"caller.ts"}, source_roots |-> {"transport"}, dependencies |-> {"dep"},
   configuration_projections |-> projections, runtime_properties |-> {"target"}]
Policies == <<PolicyWith(Projections), Absent,
              PolicyWith(Projections \cup {Projection("function", "AWS::IAM::Role", {<<"Path">>})}),
              [PolicyWith(Projections) EXCEPT !.source_roots = {"transport", "none"}],
              [PolicyWith(Projections) EXCEPT !.runtime_properties = {"target", "none"}]>>

LockWith(vSdk, vDep, vTool, dev) ==
  [p \in AllPackages |-> [name |-> p, integrity |-> "i", dev |-> p = dev,
     version |-> CASE p = "sdk" -> vSdk [] p = "dep" -> vDep [] p = "tool" -> vTool]]
Locks == <<LockWith(1, 1, 1, "tool"), LockWith(2, 1, 1, "tool"), LockWith(1, 1, 2, "tool"), Absent,
           LockWith(1, Absent, 1, "tool")>>

-----------------------------------------------------------------------------
(* The templates: what the infrastructure code gives each execution. *)

Piece(form, kept, varying) == [form |-> form, kept |-> kept, varying |-> varying]
Plain(s) == <<Piece("plain", s, "")>>
Number(s) == <<Piece("number", s, "")>>

\* The value with these leaves: every prefix of a path is an array or an object.
Value(leaves) ==
  LET paths == {x[1] : x \in leaves}
      nodes == UNION {{SubSeq(p, 1, n) : n \in 0..Len(p)} : p \in paths}
  IN [p \in nodes |->
        IF p \in paths THEN (CHOOSE x \in leaves : x[1] = p)[2]
        ELSE <<Piece(IF p \o <<"0">> \in nodes THEN "array" ELSE "object", "", "")>>]

\* A logical id ends in a hash of the stack's name; a version's also in one of
\* the function's code and configuration.
LogicalId(name, execution, hash) == <<Piece("plain", name, execution), Piece("plain", hash, "")>>
Resource(rank, type, path, id, leaves) ==
  [rank |-> rank, identity |-> IF path = <<>> THEN type ELSE path[1] \o "/" \o path[2],
   type |-> type, construct_path |-> path, logical_id |-> id, properties |-> Value(leaves)]

Executions == {"e1", "p1"}
Kind == [e1 |-> "run", p1 |-> "probe"]
InfraContents == 1..12

\* 2, 7, 10 and 12 change the scoped configuration; 4 and 5 lose the function;
\* 3 and 8 change what is not in the scope, 6, 9 and 11 what is not compared.
Template(content, execution) ==
  LET id(name) == LogicalId(name, execution, "")
      version == LogicalId("Version", execution, IF content = 8 THEN "hash2" ELSE "hash1")
      is(n, changed, usual) == IF content = n THEN changed ELSE usual
  IN {Resource(1, "AWS::Lambda::Function",
        CASE content = 4 -> <<>> [] content = 5 -> <<"other", "function">> [] OTHER -> <<"caller", "function">>,
        id("Function"),
        {<<<<"Timeout">>, is(2, Number("4"), Number("3"))>>,
         <<<<"MemorySize">>, is(8, Number("256"), Number("128"))>>,
         <<<<"Role", "Fn::GetAtt", "0">>, id("Role")>>, <<<<"Role", "Fn::GetAtt", "1">>, Plain("Arn")>>,
         <<<<"Environment", "Region", "Ref">>, Plain("AWS::Region")>>,
         <<<<"Environment", "Table">>, <<Piece("prefix", "", execution),
                                         Piece("plain", is(10, "audit", "ledger"), "")>> >>,
         <<<<"Environment", "Scope">>, <<Piece("uuid", "", is(11, "fixed", execution))>> >>,
         <<<<"Environment", "Tags">>, Plain(is(9, "tag", Kind[execution]))>>,
         <<<<"DeadLetterConfig", "TargetArn">>, <<Piece("arn", is(6, "other", "queue"), "")>> >>}
        \cup is(12, {<<<<"ReservedConcurrentExecutions">>, Number("1")>>}, {})),
      Resource(2, "AWS::Lambda::EventSourceMapping", <<"caller", "mapping">>, id("Mapping"),
        {<<<<"FunctionName", "Ref">>, version>>}),
      Resource(3, "AWS::IAM::Policy", <<"caller", "policy">>, id("Policy"),
        {<<<<"PolicyDocument", "0", "Fn::GetAtt", "0">>, is(7, id("Table"), id("Queue"))>>,
         <<<<"PolicyDocument", "0", "Fn::GetAtt", "1">>, Plain("Arn")>>}),
      Resource(4, "AWS::IAM::Role", <<"caller", "role">>, id("Role"),
        {<<<<"RoleName">>, <<Piece("prefix", "", execution), Piece("plain", "role", "")>> >>}),
      Resource(5, "AWS::DynamoDB::Table", <<"core", "table">>, id("Table"),
        {<<<<"BillingMode">>, is(3, Plain("PROVISIONED"), Plain("PAY_PER_REQUEST"))>>}),
      Resource(6, "AWS::SQS::Queue", <<"core", "queue">>, id("Queue"),
        {<<<<"QueueName">>, <<Piece("stack", Kind[execution], execution)>> >>}),
      Resource(7, "AWS::Lambda::Version", <<"provider", "version">>, version,
        {<<<<"FunctionName", "Ref">>, id("Function")>>})}
Templates == [x \in InfraContents \X Executions |-> Template(x[1], x[2])]

Runtime == [target |-> "node24"]
Timing == [timeout |-> 3]
Rules == {"settlement"}
Functions == [RUN |-> 2, VARIANT_VALIDATION |-> 1, TRANSPORT_PROBE |-> 1]

-----------------------------------------------------------------------------
(* The probe that is selected. *)

Tree1 == [p \in AllPaths |-> IF p \in {"helper.ts", "local.ts"} THEN 0 ELSE 1]
Versions1 == [p \in AllPackages |-> 1]

SnapshotOf(tree, packages, execution) ==
  LET next(rc, i) == IF rc.at = "compute" THEN rc
                     ELSE recomputeScopeSnapshot(rc, tree, tree, packages, <<>>).value
      read == FoldLeft(next, NewRecomputation, [i \in 1..25 |-> i])
  IN computeScopeSnapshot(read, TemplateOf[<<tree[INFRA_PATH], execution>>]).value

GoodProbe == [transport_probe_id |-> "p1", original_package_index |-> "index", amendment_head |-> "head",
              usable |-> TRUE, snapshot |-> SnapshotOf(Tree1, Versions1, "p1"),
              tree |-> Tree1, packages |-> Versions1, assembly |-> SynthOf(Tree1, Versions1, "p1")]
GoodSelection == [transport_probe_id |-> "p1", original_package_index |-> "index", amendment_head |-> "head"]

-----------------------------------------------------------------------------
(* The readings. *)

Place == [account |-> "acct", region |-> "us-east-1"]
Good == [environment |-> [ok |-> TRUE, form |-> "valid", table |-> Place, stack |-> Place,
                          allowlisted |-> "acct", schema_version |-> 1],
         financial |-> [objects |-> TRUE,
                        payment |-> [typed |-> TRUE, closed |-> TRUE, amount |-> 3, currency |-> "BRL",
                                     payment_id |-> "pay"],
                        decision |-> [typed |-> TRUE, closed |-> TRUE, amount |-> 3, currency |-> "BRL",
                                      decision |-> "APPROVED", payment_id |-> "pay",
                                      refund_request_id |-> "refund"]],
         toolchain |-> [ok |-> TRUE, node |-> [major |-> 24, minor |-> 12], esbuild |-> TRUE,
                        consistent |-> TRUE],
         concurrency |-> [ok |-> TRUE, unreserved |-> 2],
         bootstrap |-> [ok |-> TRUE, status |-> "UPDATE_ROLLBACK_COMPLETE"],
         caller |-> [ok |-> TRUE, account |-> "acct", region |-> "us-east-1"],
         table |-> [ok |-> TRUE, arn_as_declared |-> TRUE, status |-> "ACTIVE", keys_as_expected |-> TRUE,
                    deletion_protection |-> TRUE, ttl |-> "DISABLED"],
         lease |-> "RELEASED",
         golden |-> [ok |-> TRUE, exit_code |-> 0, report_readable |-> TRUE,
                     report |-> [tests |-> 1, minimum |-> 1, unfinished |-> 0],
                     case_declarations |-> {[passed |-> TRUE, oracle_file |-> TRUE, rules |-> Rules]}],
         ids |-> <<"a1", "e1", "t1", "t2", "t3", "t4">>,
         cost |-> [ok |-> TRUE, reasons |-> {}, estimated |-> 2, ceiling |-> 2]]

\* Each reading spoiled in one way: no run or probe may be admitted on it.
BadReadings ==
  {[Good EXCEPT !.environment.ok = FALSE], [Good EXCEPT !.environment.form = "invalid"],
   [Good EXCEPT !.environment.stack.account = "other"], [Good EXCEPT !.environment.table.region = "eu-west-1"],
   [Good EXCEPT !.environment.schema_version = 2],
   [Good EXCEPT !.financial.objects = FALSE], [Good EXCEPT !.financial.payment.amount = 0],
   [Good EXCEPT !.financial.decision.amount = MAX_SAFE + 1], [Good EXCEPT !.financial.decision.amount = 2],
   [Good EXCEPT !.financial.payment.currency = "USD"], [Good EXCEPT !.financial.decision.decision = "DENIED"],
   [Good EXCEPT !.financial.payment.payment_id = "other"], [Good EXCEPT !.financial.payment.closed = FALSE],
   [Good EXCEPT !.financial.decision.refund_request_id = ""],
   [Good EXCEPT !.toolchain.ok = FALSE], [Good EXCEPT !.toolchain.node.minor = 11],
   [Good EXCEPT !.toolchain.consistent = FALSE], [Good EXCEPT !.concurrency.ok = FALSE],
   [Good EXCEPT !.concurrency.unreserved = 0], [Good EXCEPT !.bootstrap.ok = FALSE],
   [Good EXCEPT !.bootstrap.status = "ROLLBACK_COMPLETE"],
   [Good EXCEPT !.caller.ok = FALSE], [Good EXCEPT !.caller.account = "other"],
   [Good EXCEPT !.caller.region = "eu-west-1"],
   [Good EXCEPT !.table.ok = FALSE], [Good EXCEPT !.table.ttl = "ENABLED"], [Good EXCEPT !.lease = "HELD"],
   [Good EXCEPT !.lease = "unreadable"], [Good EXCEPT !.golden.ok = FALSE],
   [Good EXCEPT !.golden.exit_code = 1], [Good EXCEPT !.golden.report_readable = FALSE],
   [Good EXCEPT !.golden.report.unfinished = 1], [Good EXCEPT !.golden.report.tests = 0],
   [Good EXCEPT !.golden.case_declarations = {}], [Good EXCEPT !.ids[2] = ""], [Good EXCEPT !.ids[2] = "a1"],
   [Good EXCEPT !.cost.ok = FALSE], [Good EXCEPT !.cost.estimated = 3]}

-----------------------------------------------------------------------------
(* The worlds. *)

World == [kind |-> "RUN", variant |-> Absent, selection |-> GoodSelection, probe |-> GoodProbe,
          readings |-> Good, head |-> Tree1, work |-> Tree1, installed |-> Versions1, inProgress |-> FALSE,
          edits |-> {}, editable |-> {}, maxChanges |-> 0, maxFaults |-> 0, maxFrozenEdits |-> 0]
Validation == [World EXCEPT !.kind = "VARIANT_VALIDATION", !.variant = "durable"]
Probe == [World EXCEPT !.kind = "TRANSPORT_PROBE", !.selection = Absent, !.probe = Absent]

\* The same tree committed and in the work tree.
At(tree, packages) == [World EXCEPT !.head = [p \in AllPaths |-> IF p = "local.ts" THEN 0 ELSE tree[p]],
                                    !.work = tree, !.installed = packages]
With(path, content) == [Tree1 EXCEPT ![path] = content]
Installed(p, version) == [Versions1 EXCEPT ![p] = version]

Requests ==
  {World, Validation, Probe, [Validation EXCEPT !.variant = Absent], [World EXCEPT !.variant = "durable"],
   [Probe EXCEPT !.selection = GoodSelection], [World EXCEPT !.selection = Absent],
   [World EXCEPT !.probe = Absent], [World EXCEPT !.probe.usable = FALSE],
   [World EXCEPT !.probe.snapshot = Absent], [World EXCEPT !.probe.amendment_head = "later"]}

Repositories ==
  {At(With(x[1], x[2]), Versions1) : x \in AllPaths \X {0, 2, 3, 4, 5}}
    \cup {At(With("infra.ts", n), Versions1) : n \in 6..12}
    \cup {At(Tree1, Installed(p, v)) : p \in AllPackages, v \in {2, Absent}}
    \cup {At(With(Lock, 2), Installed("sdk", 2)), At(With(Lock, 3), Installed("tool", 2)),
          At([Tree1 EXCEPT !["caller.ts"] = 3, !["local.ts"] = 1], Versions1),
          [World EXCEPT !.inProgress = TRUE], [World EXCEPT !.work["client.ts"] = 2],
          [World EXCEPT !.head["infra.ts"] = 2], [World EXCEPT !.head[Lock] = 0],
          [World EXCEPT !.head = [p \in AllPaths |-> 0]],
          [At([Tree1 EXCEPT !["other.ts"] = 2, !["helper.ts"] = 1], Versions1) EXCEPT !.head["helper.ts"] = 0]}

Edited == [World EXCEPT !.maxChanges = 3]
Moving ==
  {[Edited EXCEPT !.editable = {"client.ts", "infra.ts"}, !.edits = {1, 2}],
   [Edited EXCEPT !.editable = {Lock, "sdk", "tool"}, !.edits = {1, 2, 3}],
   [Edited EXCEPT !.editable = {"other.ts", "helper.ts"}, !.edits = {0, 2}],
   [Edited EXCEPT !.kind = "TRANSPORT_PROBE", !.selection = Absent, !.probe = Absent,
                  !.editable = {Policy, "caller.ts", "local.ts"}, !.edits = {0, 1, 3}]}

Faulty == {[World EXCEPT !.maxFaults = 2],
           [At(With("client.ts", 2), Versions1) EXCEPT !.maxFaults = 1],
           [At(With(Policy, 2), Versions1) EXCEPT !.maxFaults = 1],
           [World EXCEPT !.maxFrozenEdits = 3],
           [World EXCEPT !.maxFrozenEdits = 1, !.maxFaults = 1]}

AllWorlds == Requests \cup Repositories \cup Moving \cup Faulty
               \cup {[World EXCEPT !.readings = r] : r \in BadReadings}
=============================================================================
