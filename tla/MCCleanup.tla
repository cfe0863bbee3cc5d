------------------------------ MODULE MCCleanup ------------------------------
(* Instances of Cleanup: the kinds of resource an account may hold. *)
EXTENDS Cleanup, TLC

CONSTANTS r1, r2, e, m1, m2

Base == [ours |-> TRUE, baseline |-> FALSE, member |-> TRUE, named |-> TRUE, tags |-> "run",
         stacked |-> TRUE, retained |-> FALSE, expected |-> TRUE, late |-> TRUE]

\* The resources of a run: a tagged or an untaggable member of the stack,
\* one the stack retains, a role of it that the manifest does not name, an
\* unrecorded one with the run's tags, a log group without them; and a
\* neighbour's and a baseline resource.
Kinds ==
  {Base,
   [Base EXCEPT !.tags = "untaggable", !.retained = TRUE],
   [Base EXCEPT !.tags = "ids", !.retained = TRUE],
   [Base EXCEPT !.member = FALSE, !.named = FALSE, !.retained = TRUE],
   [Base EXCEPT !.member = FALSE, !.stacked = FALSE],
   [Base EXCEPT !.member = FALSE, !.stacked = FALSE, !.tags = "other"],
   [Base EXCEPT !.ours = FALSE, !.member = FALSE, !.stacked = FALSE, !.tags = "other"],
   [Base EXCEPT !.ours = FALSE, !.baseline = TRUE, !.member = FALSE, !.stacked = FALSE,
                !.tags = "other", !.expected = FALSE, !.late = FALSE]}

Quiet == [recorded |-> TRUE, profiles |-> {<< >>}, work |-> {}, messages |-> {}, held |-> {}, fallible |-> {}, events |-> 0]

\* Deletion: one resource of any kind beside one that its stack retains.
Deletion ==
  [Quiet EXCEPT !.profiles = {p \in [{r1, r2} -> Kinds] : p[r2] = [Base EXCEPT !.tags = "ids", !.retained = TRUE]},
                !.fallible = {9}]

\* The audit and the freeze: one resource of any kind that comes and goes, and
\* a member of the stack whose deletion may fail as well.
Audit == [Quiet EXCEPT !.profiles = [{r1} -> Kinds], !.fallible = {10, 12}, !.events = 2]
StuckAudit == [Audit EXCEPT !.profiles = [{r1} -> {Base}], !.fallible = {9, 10, 12}]

\* The work to stop and the dead letters, with a stack that may stay.  (Step 5
\* treats a barrier like an execution, and the audit sees the latter.)
Work ==
  [Quiet EXCEPT !.work = {e}, !.messages = {m1, m2}, !.held = {m1}, !.fallible = {5, 7, 8, 9}, !.events = 1]

\* The evidence steps and the consumers.
Evidence == [Quiet EXCEPT !.fallible = {1, 2, 3, 4, 10}]

\* Provisioning recorded no stack: nothing was deployed, or what was cannot be
\* described.
Unrecorded == [Quiet EXCEPT !.recorded = FALSE, !.profiles = [{r1} -> Kinds], !.fallible = {9}, !.events = 1]

MCSettings == [deletion |-> Deletion, audit |-> Audit, stuck |-> StuckAudit, work |-> Work, evidence |-> Evidence,
               unrecorded |-> Unrecorded]
=============================================================================
