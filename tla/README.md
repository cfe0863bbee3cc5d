# Study 1: a formal model of the refund experiment

These modules model the code of `src/study-1` in TLA+. The program compares two
ways of processing a refund request whose provider call ends ambiguously: the
provider commits the refund, then withholds its answer until the caller has
timed out. One variant relies on SQS redelivery (conventional), the other on
the retries of a durable function (durable). Around the two callers stand the
provider with its treatment barrier, a controller that releases the barrier
once it sees the timeout, and an operator command that acquires a lease,
deploys, runs the trials, observes them until they settle, collects the
evidence, cleans up and writes a summary.

Nearly everything that can go wrong here goes wrong between two steps of
different actors, or at a write whose answer was lost. The models keep all of
that control and abstract the data: an attempt, an event, a resource or a
message is a member of a small set.

## 1. Inventory

| Part (`src/study-1/src/...`) | State it owns | What makes it hard | Status |
|---|---|---|---|
| `attempt-lifecycle` | none: decisions about dispatch, outcome, effect knowledge and terminality | exhaustion counted at two levels | whole |
| `provider-client` | phase of one attempt, its journal entries | deadline against answer; writes that fail on either side of the dispatch | partly: the caller's path |
| `conventional-variant` | request state, orphan attempts, the SQS message | crash between dispatch and accounting, redelivery, throttles | partly: without environment and composition |
| `durable-variant` | the same request state under steps and executions | two nested retry loops, re-run steps, execution timeout | partly: without environment and composition |
| `refund-provider` | ledger, treatment item, provider journal | commit condition against a moving treatment; a 15 s safety release racing the signal | partly: without warm-up, environment and body shape |
| `treatment-controller` | controller journal, signal on the treatment item | stream retries; events in any order with the commit | partly: without record parsing |
| `event-journal` | sequence of a writer, JSONL files | ambiguous appends, reserved sequence numbers, torn lines, power loss | partly: without event construction |
| `coordination-lease` | the lease item, sessions, heartbeat loop | lost answers that land late, staleness, recovery | whole |
| `settlement`, `trial-execution`, `evidence-collection` | samples, window, evidence buffer, trial report | the trial goes on while it is read | `settlement` whole, the others partly: without telemetry and the call of the probe |
| `evidence-ingestion`, `treatment-fidelity`, `trial-oracle` | none: decisions over frozen files | evidence that is lost, doubled, torn or late must not decide | `treatment-fidelity` whole, the others partly: without schemas and texts |
| `evidence-package` | index, checkpoints, amendments | two operators, one package; damage | partly: without listings, redaction and schemas |
| `transport-qualification` | none: scope, drift, probe verdict, usability | what is the same transport, and what only looks different | partly: without digest formats and record shapes |
| `admission` | preflight journal, package draft | fifteen checks over a repository that moves | partly: without the command lines |
| `deployment-assembly` | deploy copy, stack, resource manifest | a copy of files that change; a deploy that fails half way | partly: from the frozen assembly on |
| `cleanup` | journal of twelve steps, audit passes, closure | partial failure, re-run after recovery, resources of others | partly: receive sweep of step 8 and paging by contract |
| `execution-lifecycle`, `safety` | phases P1 to P9, gate, phase journal, summary, amendments | interruption at every await; two views of one execution | `safety` whole, the other partly: without plans |
| `operator-cli` | exit code, closure of a package | derived from memory, the summary from files | partly: exit verdict, package closure and amending commands |
| `study-comparison`, `variant-validation` | none: terminal reasons, eligibility, comparison | order of precedence | partly: terminal reasons only |
| `durable-store` | none: outcomes of conditional writes | applied, refused, failed or unknown | partly: outcomes only |
| `transport-probe-caller`, `record-contract`, `trial-message`, `billing-amendment`, `infra`, `tools` | none | data formats, declarative stacks, scripts | not modelled |

How they interact: the callers, the provider and the controller share one
DynamoDB table (attempts, request state, ledger, treatment item, journals).
Every conditional write has four outcomes: applied, condition failed,
definitively failed, or ambiguous (it landed, will land, or never does). The
controller reads the callers' journals through the stream; cleanup writes the
treatment item as well. The runner drives lease, trial and cleanup and keeps a
journal of its own, from which the summary is derived. Before it stands
admission, which reads the repository, synthesizes what will be deployed and
freezes both in a package; behind it stands the same package, whose files are
judged by the oracle and amended by operators for as long as it is kept.

"Whole" means that every operation that changes state, or every decision, is in a
module; "partly" names what is missing. `PROJECT.json` uses the same two words
(`modelled`, `partly`).

The hazards in `PROJECT.json` name, for each of these places, the line where it
bites and the properties that watch it.

## 2. Modules

| Module | Models | Composition |
|---|---|---|
| `AttemptLifecycle` | pure decisions of `attempt-lifecycle` | used by `RefundCaller` |
| `ProviderContract` | what a caller may expect of the provider: nothing, one commit and an answer, a lost answer, a late commit | abstract specification |
| `RefundCaller` | one refund caller: orphan reconciliation, registration, phases, dispatch, deadline race, request-state transaction; the queue that holds its message | shared by both variants |
| `ConventionalVariant` | SQS delivery, throttles, deletion and redrive around `RefundCaller` | `EXTENDS RefundCaller` |
| `DurableVariant` | durable executions, step attempts and their delays around `RefundCaller` | `EXTENDS RefundCaller` |
| `TreatmentItem` | the shared treatment record and its writes | used by the next two |
| `RefundProvider` | provider handler: plan, commit, barrier, journal, answer | |
| `TreatmentController` | decision and signal on a timeout event | |
| `TreatmentProtocol` | release of the barrier by cleanup; provider, controller and cleanup over one item; implements `ProviderContract` | composes the three above |
| `JournalContract` | a journal without gaps, as its users rely on it | abstract specification |
| `JournalWriter` | queue, reservation, retries and lost answers of one writer | implements `JournalContract` |
| `AppendOnlyFile` | the JSONL file: tail check, write, flush, finalization | |
| `CoordinationLease` | lease item, sessions, heartbeats, finalization, recovery | |
| `Settlement` | activity of a sample, window, recheck, deadline | used by `TrialExecution` |
| `TrialExecution` | one trial, from its preconditions to its freeze | |
| `Cleanup` | fold of the step records, ownership judgement, the twelve steps, the audit, closure and re-run | |
| `TerminalReason` | terminal reason and lease status of a summary | used by `ExecutionRunner` |
| `ExecutionRunner` | the runner P1 to P9 with its gate, workloads, monitoring, summary and exit code | |
| `EvidenceIngestion` | reading, scoping, duplicates, sequence density, digests; gates G2, G3, G8 | pure |
| `TreatmentFidelity` | the six conditions of a treated trial; gates G4a, G4b | `EXTENDS EvidenceIngestion` |
| `TrialOracle` | all nine gates, business rules, verdict | extends it, `AttemptLifecycle` and `Settlement` |
| `LateEvidence` | routing and joining of late records, reassessment | `EXTENDS TrialOracle` |
| `TransportProbe` | verdict of a transport probe and its reassessment | `EXTENDS LateEvidence` |
| `TrialWorld` | what the writers leave in a package when nothing is lost, for a given course of events | environment of the next |
| `TrialEvaluation` | collection, damage, freeze, late records, reassessment of one trial or probe | composes the six above |
| `LateCapture` | collection page by page, freeze of each trial, second reading of every source before the teardown | |
| `EvidencePackage` | index, checkpoints, amendment chain, eligibility, effective state | pure |
| `PackageAmendments` | a package from its last lines to its last amendment, with two operators and accidents | `EXTENDS EvidencePackage` |
| `TransportScope` | policy, closure of sources and packages, projected configuration, drift | pure |
| `AdmissionChecks` | the checks of one reading | `EXTENDS TransportScope` |
| `Admission` | the checks A1 to A15 in order, journal, rejection, draft, and a repository that moves | `EXTENDS AdmissionChecks` |
| `Provisioning` | copy, deploy, re-verification, read-back, targets | `EXTENDS Admission` |
| `VariantProofs` | proofs about both callers (section 6) | extends both variants |
| `TreatmentProtocolProofs`, `JournalWriterProofs`, `AppendOnlyFileProofs`, `CoordinationLeaseProofs`, `CleanupProofs`, `ExecutionRunnerProofs` | proofs (section 6) | each extends the module it is about |
| `AdmissionProofs` | proofs about admission and provisioning (section 6) | `EXTENDS Provisioning` |
| `MC*` | instances for TLC | |

`PROJECT.json` maps every definition to its lines. Definitions keep the names
of the code where there is one (`nextEffectKnowledge`, `decideBarrierStep`,
`judgeOwnership` as `Decision`, ...). A definition marked "Faulty variant" or
"Mutant" stands before the one it distorts; no specification uses it. It shows
that a property would notice that bug.

### How state and actions correspond to the code

*Callers.* `RefundCaller` has one step per await of the handler: reading the
request state, folding in an orphan, registering the attempt, writing
`DISPATCHED`, sending, the race of answer and deadline, the timeout event, the
outcome, the request-state transaction. A crash may follow any of them. In the
caller model an ambiguous write has landed at once or never will; a commit that
lands after its answer was given up is the provider's `LateCommit`, and writes
that land late are modelled in `JournalWriter` and `CoordinationLease`.

*Provider, controller, cleanup release.* Every read of the treatment item and
every conditional write is a step; what was read is kept in the local state of
the reader and may be stale. Journal appends are taken by `JournalContract`.

*Journal writer.* Appends queue behind one another; a reservation blocks the
queue until its transaction settles. A store write is answered as applied,
existing, failed or ambiguous. `LateWrite` lets an ambiguous one land later.

*File.* A file is a sequence of lines, each whole or torn, with the flushed
part and the flushed directory entry kept apart. Power loss keeps a prefix at
least as long as the flushed part, may lose the mode, and takes the whole file when
the directory entry was not flushed. `creationCut` is history: a task created the
file and failed or died before its directory flush.

*Lease.* The clock is finer than a timer (`TicksPerMs`, the nanoseconds of a
millisecond): the delay of a beat is rounded up to whole milliseconds. `heartbeat_at` stands
for `acquired_at` too while the version is 1 and is kept only while the item is HELD. One recovery at a time acts for a package.
Someone outside the study may delete the item, once. Items that cannot be
decoded are left out.

*Trial.* One monotone clock starts at the publication. What the trial does
between two reads happens at once before the next read, and the time passes at
the steps listed in `Tick`; nothing reads the clock in between. Samples before
the last active one are dropped because the judgement never looks behind it.
The approximate queue counters may show anything. The callers and the provider
appear as events that may come at any time; a setup step is confirmed or refused, and
the freeze is what the executor reports of it. What they do in detail is in the
variants, in `RefundProvider`, and in `LateCapture`, `TrialEvaluation` and
`PackageAmendments`, which write the frozen files.

*Cleanup.* A step is atomic except for the two passes of the audit. Its
surfaces are reduced to the tag index, the stack listing and the native
listings, which are asked for recorded or deterministic names and prefixes only; each
may fail by itself, tags may be unreadable, a port may throw and a deletion's answer
may be lost. A stack that provisioning could not record is found by its name
and judged by its tags; it has no direct deletion, so it ends as `DELETE_FAILED`. A
step 9 whose stack port throws fails there, wherever the stack's deletion has got to
(`AbandonDeletion`). A recovery reads the journal of the original package. The variable `setting` is rigid:
it chooses which resources, work and failures an instance looks at, so that six
instances share one run. `removed`, `caused`, `witness` and `leftover` (what of the
execution, the stack included, the deletion left without a word) are history.

*Evaluation.* A JSON value is a function from its members to their values, a
line is readable and conforming or not, a digest is the content. `TrialWorld`
is the only place where something is made up: from the fate of each attempt it
writes down what caller, provider, controller and runner journal for it, as the
models of these parts do. `TrialEvaluation` damages one place of it (an event,
a file, a digest, a line, a duplicate), freezes the trial, lets the runner write
on and late records arrive in any number, and reassesses. The oracle sees the
files only; the properties compare its verdict with the world. A trial or probe whose
evaluation was refused has no frozen result and is reassessed all the same; a package
whose resource manifest cannot be read is refused for a probe. A Durable execution
without a start is malformed and never mapped (`durable-sdk-mapping.ts:55`), so the
branch of the window for one cannot be reached.

*Collection.* `LateCapture` follows what an execution reads: each trial is sent,
stamped, collected in pages and frozen; then the journals of the execution are
exported; then cleanup step 1 reads every source of every frozen trial again and
keeps what the frozen copies lack. A source is a partition of the store, the dead
letter queue or the listing of Durable executions. Writers go on until the end, and
any read, file or index may fail. Of the store it is assumed that pages come in the
order of the sort key, that the listing comes in the order of the starts, and that
a receive returns all visible messages. That a repeated collection follows a recheck
is in `TrialExecution`, and that the capture is skipped with the monitoring is in
`ExecutionRunner`.

*Package.* Bytes are an identity and the record they parse to. The identity of
a journal is its sequence of lines, so the digest of a prefix is the prefix. A
writer of an amendment reads, builds and writes its files in separate steps and
may die between them; directories are numbered as the code numbers them. What an
operator finds out (late evidence, a recovery, a bill) is chosen freely. Damage
changes, removes or adds a stored file, and happens after the finalization; a
whole amendment directory does not vanish. `resources`, `lease` and `done` are
history or the world outside.

*Admission.* The committed tree, the work tree and the installed packages are
three variables that people change between any two reads. A content is a number;
constant functions say what it imports, locks, declares or synthesizes to. The
checks that judge one reading are operators; those that read the repository or
write files are steps of their own, and each git call, the synthesis and every write
may fail. A template is a set of resources whose properties are trees of leaves; a
leaf is a sequence of pieces: plain text, or a stack name, prefix, UUID or ARN, each
with the part that `normalizeCfnValue` keeps and the part it replaces. References are
resolved to the construct they name, as in the code: a `Ref` or `Fn::GetAtt` is, a
logical id inside the text of an `Fn::Sub` is not. Templates that cannot be parsed and
numbers that are not finite are left out, and a selector is membership of a path
segment. `SameConfiguration` and `Transport` are the independent definitions of
"the same" that the scope comparison is held against.

*Provisioning.* Each file of the frozen assembly is copied in its own step.
Files of it may be changed, added or removed in between, and so may the record of its
inventory; the directory of the copy may be there already. A content stands for bytes
and mode. The deploy ends with or without a stack, complete or
not, whatever it reports; every reading behind it may fail.

*Runner.* Units, provisioning, cleanup and lease finalization are taken by
their outcomes. The gate question, the file write and the send of a unit are
separate steps. The order of the journal is the real order. `admitted` is
rigid, as `setting` is: it says which kind of execution runs and which journal
may stop. Two clock readings in `mayStartTrial` equal one with a `Tick` before
it. `aborted` is history.

## 3. What was chosen, and why

First comes what the study claims: the two callers and what they may say of the
refund, with the provider as a contract (modelled, checked, proved); then the
treatment protocol, and that it keeps that contract; then the journals all of
them rely on; then lease, trial, cleanup and the runner; then the decisions over
what was recorded, against a reference that knows what happened; and last the
two ends of an execution, admission with provisioning and the stored package.
The proofs follow the same order: the callers, the protocol that keeps the contract
they rely on, the journal writer and its file, the lease, cleanup, the runner, and
admission with provisioning.

## 4. Runs

`tlc -workers 2 -config <cfg> <module>` for each row. Times are those of two
cores.

| Run | Module, configuration | What it shows | States |
|---|---|---|---|
| `variants` | `MCVariants` | One message under either variant: crashes, throttles, lost deletions and ambiguous writes, and in the durable one step retries, re-run steps and execution timeouts, three attempts. What the request state says of the refund agrees with the ledger; a deleted message leaves no call unaccounted; a timeout is reported only with its event. | 2.7 M, 2 min |
| `treatment` | `TreatmentProtocol` | Two provider calls, the controller and cleanup over one treatment item: the targeted answer is held until the signal or a safety release; the signal was caused by the timeout of the owner. The composition implements `ProviderContract`. | 1.7 M, 2 min |
| `lease` | `CoordinationLease` | Whoever may publish holds the stored lease; staleness is measured from a heartbeat the store has, and is noticed within a millisecond of the boundary. | 1.9 M, 2 min |
| `trial` | `TrialExecution` | A settled trial was quiet for the whole window, was not interrupted, and its buffer holds what it did. | 3.6 M, 1 min |
| `cleanup` | `MCCleanup` | Nothing of others is removed; a cleanup that succeeded has accounted for everything; a failure is superseded once its resource is gone; a clean closure saw two passes without anything of the execution; only captured messages are deleted. | 2.6 M, 2 min |
| `runner` | `ExecutionRunner` | A `COMPLETED` summary and a released lease are deserved, and exit code 0 agrees with the summary. | 8.8 M, 2 min |
| `evaluation` | `MCTrialEvaluation` | No single damage of the evidence makes oracle or probe verdict decide against what happened; whole evidence is decided; fidelity is verified only for a delivered treatment; when all late records are in, no untrue verdict stands; a reassessment reproduces what was frozen. Whatever a source of a frozen trial held at the cutoff is in the frozen copy or in the late stream, and is evidence of one trial, once. | 320 k, 1 min |
| `admission` | `MCAdmission` | What is admitted is a committed tree whose transport is the one the probe qualified, unless the repository moved; A13 refuses drift only; a manifest is there only with a whole package; what is deployed is what was admitted; the runner gets targets only from a complete deployment. | 127 k, 2 min |
| `admission_one_tree` | `MCAdmission`, `MCAdmissionOneTree.cfg` | Expected violation, section 7. | |
| `records` | `MCRecords` | The package is eligible exactly when it is whole and was amended by one operator after another; a usable probe has earned it; a closure that proves resources gone is right. A journal writer implements `JournalContract`; a record reported as appended is a line of the file after any restart or power loss, as long as no creation of the file was cut short, and no line mixes two. | 186 k, 2 min |
| `append_directory` | `AppendOnlyFile` | Expected violation, section 7. | |
| `progress` | `MCProgress` | Every execution ends; a held provider call ends; a trial message leaves its source queue. | 461 k, 3 min |

`variants`, `evaluation`, `records` and `progress` hold two or three parts that share no
state. A rigid variable (`part`, `variant`) says which of them a behaviour is about. They
are one run each because they ask one question of several parts: is the caller's
knowledge sound, does what is on record stay true, does a verdict rest on all that was
there to read, and does what must happen happen.

### Bounds, and why they are enough

- *Callers.* The queue redrives after two receives and the durable step has two
  attempts, as in the code; one re-run of a step is allowed. Three attempts are
  enough for an orphan to be followed by a call that succeeds, times out or is
  ambiguous itself; `progress` has two.
- *Treatment.* Two attempts, so that one can own the treatment while the other
  plans from a stale read; `MaxTries` bounds the retries of the stream and of
  the polls. `MAX_RELEASE_ATTEMPTS` is 1 with two attempts and 2 in `progress`
  with one attempt (the code has 3): a second try adds nothing but another
  stale read, which another actor's step gives as well.
- *Journal.* Four events, two definitive retries as in the code's policy, two
  callers waiting: a reservation, a queued append behind it, a lost answer and a
  retry can happen together.
- *File.* Three records: one before, one torn, one behind it (two in
  `append_directory`).
- *Package.* Two operators, journals of two lines, up to three amendments begun
  and one accident, in seven worlds that differ in what the probe found, how its
  execution closed, which kinds of amendment are made and which journals grow
  while the indexes are written. Two amendments of one parent make a fork, three a chain
  with a middle; a second accident can only spoil more.
- *Lease.* Two executions, one lost write in flight, two ticks to the millisecond,
  interval 1 ms, boundary 2 ms, four ticks: a beat that is confirmed late but before
  the boundary, one that is brought forward to it, a rest of half a millisecond that
  is rounded up, and a stale session. The code's ratio is 10; only the remainder
  before the boundary matters.
- *Trial.* Poll 2, window 4, deadline 8, clock to 9, one event in each journal:
  three samples fill a window, a late wake-up crosses the deadline, and there is
  room for a restart of the window. No dead letter appears before
  `RedriveDelay` (3).
- *Evaluation.* Nineteen trials and six probes: both scenarios, one or two attempts
  with every ending, each behaviour of the barrier, an attempt for another refund, a
  caller that claims more than it knows, an identity used before. One damage
  (`MaxFaults`): it is what a gate must notice by itself, and two damages in
  several files can imitate evidence that no reader could tell from true one.
- *Collection.* Two trials, pages of one item, two items in the one source that a
  behaviour writes to, one fault, two receive rounds (the code has 10): an item can
  come before, between and behind the pages of either trial, and a queue can use its
  rounds up.
- *Admission.* Nine paths and three packages, of which the transport uses four
  and two; twelve versions of the infrastructure code, each with one change that is
  in the scope, outside it, or not compared; some 120 worlds: every request, each
  reading spoiled in each way its check tells apart, each path and package changed,
  a repository without a commit, three changes of the repository at any moment, two
  failing operations, three changes of the frozen assembly, and one of each together.
  Failures are combined with a drifted source or policy once each, so that a
  rejection can fail as well.
- *Cleanup.* One run and one recovery. `MCCleanup` has six settings: deletion
  (two resources, one of any kind), audit (one resource of any kind, two outside
  events), a stuck audit (one member of a stack whose deletion may fail too), work (an execution, two
  dead letters of which the package holds one, one event), evidence, and a stack that was never recorded (with
  one resource of any kind). Each names the steps that may fail;
  failing steps of different settings are not combined. Barriers are treated by
  step 5 as executions are and are left empty.
- *Runner.* A run of two trials, a validation whose lease journal may stop, and
  a probe whose runner or unit journal may stop. Limits of two ticks for active and
  total time, a monitoring window of one, three ticks in all: each deadline can pass
  before, during and after every phase, and a window can complete before it. The files of a closure may
  fail to be written. `progress` has a run of
  one trial under the same limits.

`CHECK_DEADLOCK FALSE` stands where the system may end: trials, cleanups,
owners, journals, packages, admissions and provider calls are finite. The
variants and the runner stutter explicitly when they are done, so a deadlock
would be reported.

### Fairness

- `progress`, the message: weak fairness of receive, redrive, the consumer's steps and
  the completion or failure of a delivery. SQS delivers a visible message
  again, and a Lambda invocation goes on or is killed.
- `progress`, the held call: weak fairness of the passing of the deadline and of
  the record of an external release; strong fairness of a poll, and of a
  transition that is applied or refused. The provider loop polls every few
  hundred milliseconds until its own deadline, and a table that is written again
  and again does not fail every time. Nothing is assumed of controller and cleanup.
- `progress`, the execution: weak fairness of the runner's own steps, of time, and
  of the report of a loss by the heartbeat loop. Nothing is assumed of the lease,
  which may stay uncertain for ever: the active-time limit ends the wait.

### Stated but not in a run

Some properties are stated in the modules without being listed in a
configuration, to keep the runs to what matters most. TLC confirms them when
they are added to the configuration of their module. Most are proved (section 6):
`AtMostOneOrphan`, `DispatchBoundary`, `ExhaustedIsLast` (durable: `ExhaustedLayersAreLast`), `SucceededHasEffect` and
`KnowledgeNeverRetreats` of the callers; `OnlyOwnerIsHeld`, `RedecisionNeverSignals`,
`ReleaseIsFinal` and `TreatmentMovesForward` of the treatment; `DenseSequence`,
`NeverOwnConflict` and `ReportsAreTrue` of the journal; `FinalizedIsFrozen` of the
file; `NeverStolen` and `ReleasedIsEstablished` of the lease;
`InducedByCleanup` of cleanup; and `TypeOK` of callers,
treatment, journal, file, lease and runner. Only model-checked are `AnsweredIsJournaled` and
`ControllerRecordsHold` of the treatment, `LateIsLast` and `PublishedIsFrozen` of the
trial, `InterruptionsAgree`, `CutIsLast` and `AbortIsEmergency` of the runner, and
the other type invariants.

## 5. Exceptions stated in the properties

- `PublisherHoldsLease` excepts a finalization in flight (heartbeats are
  stopped, nothing publishes any more) and an item that was deleted from
  outside.
- `EstablishedWasQuiet` excepts a window that starts at a sample whose journals
  were not read (section 7, `UnreadIsActive`).
- `NothingIsLost` speaks of trials that were frozen, and of a listing of Durable
  executions that was: what was not is not read again (section 7).
- `AttributedOnce` presumes that every trial was frozen with its listing (section 7).
- `AdmittedIsQualified`, `OnlyDriftIsRefused` and `AdmittedIsCommitted` presume that
  nobody touched the repository after check A5 read its state (section 7,
  `AdmissionSeesOneTree`); sources that git ignores and no scoped function imports,
  and files outside the repository, are not part of the claim. `AdmittedIsQualified`
  does not compare names and tags inside a projected value, nor which ARN, UUID or
  prefix a text holds: the code takes them for the execution's own.
- `AppendedSurvives` excepts a file whose creation was cut short before its directory
  flush (section 7, `AppendedIsDurable`).
- `ExitAgreesWithSummary` speaks of runs and probes whose results are all frozen and
  whose journals lost no event. A validation is excepted: its summary names the total
  time limit once that is recorded, and its command exits 0 all the same.

## 6. Proofs

`tlapm <module>` checks the proofs of a module. Every theorem holds for every
value of the constants that satisfies the assumptions named in the modules: any
attempts, owners, events, records, resources, executions and repositories, any
limits and delays. Each is an invariant, an action property or a refinement of `Spec`, and rests on one inductive
invariant per component; each action has a lemma that says it preserves the
invariant. The properties of section 4 that no row below names are only
model-checked (end of this section). A leaf that cites `Zenon` is one that needs no
arithmetic; the first-order prover is much faster on it than the SMT translation.

### Callers: `VariantProofs`

| Theorem (`Conventional...` and `Durable...`) | States |
|---|---|
| `...TypeCorrect` | the type invariant |
| `...KnowledgeSound` | what the request state says of the refund is what the provider did |
| `...AtMostOneOrphan` | there are never two unaccounted attempts |
| `...DispatchBoundary` | the provider acts only on attempts durably marked `DISPATCHED` |
| `...TimedOutIsDurable` | a reported timeout has its journal event |
| `...DeletedAccountsForAll` | a message is deleted only when every call that may have reached the provider is accounted for |
| `...SucceededHasEffect` | a request recorded as `SUCCEEDED` has a ledger transaction of an accounted attempt |
| `...KnowledgeNeverRetreats` | no step makes the recorded knowledge weaker or drops an accounted attempt |
| `...ExhaustedIsLast` | no delivery, and no step retry, follows `RETRIES_EXHAUSTED` |

`KnowledgeSound` alone is not inductive. The write of the request state folds
outcome classes into the knowledge; a class is right only because something
settled it: an answer, a rejection, or the durable `NOT_DISPATCHED` of an attempt
that never reached the transport. So the invariant of a caller, `CallerInv`,
says in addition that

- a recorded or held resolution is *backed* by such a fact (`OutcomeInv`,
  `AttemptInv`), and a definite knowledge rests on attempts that are all
  *settled*, which no later step of the provider can change (`KnowledgeInv`);
- nothing is sent before the phase is durable (`BoundaryInv`), and the provider
  keeps its contract (`ProviderInv`);
- at most one registered attempt is missing from the request state
  (`OrphanInv`), and what an invocation read and is about to write from is
  current (`ReadInv`): one message, one invocation at a time, and the version
  condition.

Each step of an invocation and of the provider preserves it; that part is shared.
The variants add what starts and ends an invocation (delivery, crash, throttle,
redrive; step attempts, timeouts, re-runs), and how their layers nest:
`DeliveryInv` and `LayerInv` say that an invocation runs only while its message
is in flight (and its execution runs), that a deleted message has no orphan, and
that `RETRIES_EXHAUSTED` is decided on the last receive and step attempt only.
Only that orphans come one at a time makes the fold provable: with a single
class, `foldEffectKnowledge` is one step of the table (`FoldOne`), and no
induction over sequences is needed.

### Treatment: `TreatmentProtocolProofs`

| Theorem | States |
|---|---|
| `ProtocolTargetedResponseIsHeld` | the call that consumed the treatment answers only after the item is released |
| `ProtocolSignalIsCausal` | a signalled item was signalled by the recorded timeout of the attempt whose commit it holds |
| `ProtocolImplementsContract` | the composition implements `ProviderContract`, which the callers' proofs take for the provider |
| `ProtocolTreatmentMovesForward`, `ProtocolReleaseIsFinal` | three writers move the item along its state machine only; a reported safety release is never undone |
| `ProtocolOnlyOwnerIsHeld`, `ProtocolRedecisionNeverSignals`, `ProtocolTypeCorrect` | nobody else is held; a second decision does not signal again; types |

`ProtocolInv` relates the item to the ledger and the timeouts (`ItemInv`), each
call to both (`CallInv`: what is committed at which step, who is held, what the
transport has seen), the controller to its stream (`ControllerInv`) and the
release to the item (`ReleaseInv`). What makes it inductive is that everything a
call knows of the item is stable: `Moves` lists the steps of the item, every
conditional write is one of them (`ItemStep`), and the conjuncts about the other
calls survive each. The refinement follows step by step from the same invariant;
only the fairness-free contract is claimed.

### Journal and file: `JournalWriterProofs`, `AppendOnlyFileProofs`

| Theorem | States |
|---|---|
| `WriterImplementsJournal` | a writer with its queue, reservations, retries and lost answers implements `JournalContract` |
| `WriterDenseSequence`, `WriterReportsAreTrue`, `WriterNeverOwnConflict` | stored sequences have no gap; what a client was told stays true, late writes included; a writer never collides with itself |
| `FileNeverMerged` | no line of the file mixes two records, over any crashes and torn writes |
| `FileAppendedSurvives` | a record reported as appended survives every crash and power loss, also one that takes unflushed directory entries, unless a creation of the file was cut short |
| `FileFinalizedIsFrozen` | a finalized file never changes |

`WriterInv` says that at most one entry is in hand and has the next sequence
(`ClientInv`), so that the only write in doubt is the one behind the last stored
one (`DenseInv`). The writer's constants are restricted by `ConstantsOK`
(the null event is no event, the bounds are numbers). `FileInv` follows the line
of a record from the write through the flush (`TaskInv`, `DurableInv`); that a
torn tail cannot merge with the next record is because `CheckTail` decides the
leading newline after the last crash. `EntryInv` adds that whatever is reported as
appended lies behind a flushed directory entry unless `creationCut`; without that
exception the property is refuted (`append_directory`, section 7).

### Lease: `CoordinationLeaseProofs`

| Theorem | States |
|---|---|
| `LeasePublisherHoldsLease`, `LeaseOnePublisher` | whoever may publish holds the stored lease, and so no two do |
| `LeaseBoundary` | the boundary a holder counts to is never later than the one the store gives, and an uncertain holder beats again within a millisecond of it |
| `LeaseNeverStolen` | the lease passes on only from a released item or none |
| `LeaseReleasedIsEstablished`, `LeaseTypeCorrect` | a reported release was written; types |

`LeaseInv` is a conjunction over the owners. The heart of it is `LateInv`: an
owner with an acquisition in flight does not hold the item and is not its own
holder in memory, it has one such write at most, and its final writes are issued
after its last beat. With `VersionInv` (a beat that can still land was issued
after the last confirmation) a late write can neither make a second holder nor
turn a boundary back. `HolderInv` excepts an item that was deleted from outside,
as the property does. That the rounded delay falls within a millisecond of the
boundary is arithmetic (`DivisionFacts`, `DelayFacts`) for any number of ticks to the
millisecond. A write of one owner preserves the conjuncts of every
other (`OtherOwner`), so each action is proved for its own owner.

### Cleanup: `CleanupProofs`

| Theorem | States |
|---|---|
| `CleanupOnlyOwnIsRemoved` | in any account, over any number of recoveries, nothing of others is removed |
| `CleanupSucceededAccountsForAll` | a cleanup reported as succeeded names all that the deletion left |
| `CleanupCleanIsAbsent` | a clean closure had two passes over an account without anything of the execution |
| `CleanupCapturedBeforeDeleted` | while the queues exist, a message outside the package is in its queue |
| `CleanupFailuresAreSuperseded`, `CleanupInducedByCleanup` | a deletion that succeeds supersedes earlier failures; only transitions cleanup caused are recorded as induced |

`CleanupInv` ties the journal of steps to the account: a recorded success of the
deletion is true of the latest deletion, in memory and in the journal
(`DeletionInv`), only messages of the snapshots count as captured
(`MessageInv`), an empty pass was made over an account without anything of the
execution (`AuditInv`), and once the stack is gone only those of its members are left
that it retains (`Retaining` in `AccountInv`).
`RecordInv` adds what the fold of the records knows of failures and transitions.
`AccountAssumption` is what the ownership judgement presumes of an account:
a resource of the execution is not in the baseline listing that was made before it
existed, and one of another is in the baseline or lacks the tags of this
execution, and is no member of its stack; the stack is not one of its resources. A stranger that wears the tags cannot be
told apart by any reader.

### Admission and provisioning: `AdmissionProofs`

| Theorem | States |
|---|---|
| `AdmissionManifestIsLast` | a package with a manifest is whole, whatever write fails and wherever the process dies |
| `AdmissionIsCommitted` | manifest, bundled sources, template and lockfile of an admitted execution are one commit, unless the repository moved |
| `ProvisioningDeploysAdmitted` | a deployed and re-verified stack holds the admitted assembly, whatever happens to its files meanwhile |
| `ProvisioningTargetsAreEarned` | the runner gets targets only from a deploy that succeeded, with every reading and event behind them |

`AttemptInv` counts the checks that are recorded at each step and says all of
them passed (`CheckInv`), what the attempt read is what is there unless the
repository moved (`SourceInv`), and the draft is written up to a known file of
its order (`DraftInv`). `ProvisionInv` says that a copy that passed its
comparison is the admitted one (`CopyInv`), that what was described is the stack
(`DeployInv`), and that without a recorded reason every event so far is
journaled (`EventInv`, `TargetInv`). `TrackedAssumption` keeps infrastructure code
and lockfile inside the repository; the theorems take `AbsentOK`: the null value is
no record, sequence or function.

### Runner: `ExecutionRunnerProofs`

| Theorem | States |
|---|---|
| `RunnerCompletedIsTrue` | a `COMPLETED` summary cites a frozen, clean closure and, while no journal lost an event, an execution whose every unit was handed over, monitored in full and not aborted |
| `RunnerReleasedIsProvable` | a lease that was held and not lost is released only when the files prove the closure |
| `RunnerExitAgreesWithSummary` | exit code 0, derived from memory, never meets a summary, derived from files, that is not `COMPLETED` |
| `RunnerTypes` | the type invariant |

The summary is a function of the journal, the exit code one of the memory, so the
invariant has to say in both directions how the two agree. `CleanInv`: when no
journal lost an event and no event stops the execution, everything before this
step went well (used for `CompletedIsTrue`). `LoggedInv`: an event that stops the
execution has its cause in memory (used for the exit code). `GateInv` and
`ClosureInv` say what is latched at which step and what a closure rests on;
`SummaryInv` holds once the summary is written. The terminal reason is the first
of a sequence (`Array.find`); instead of an induction over the journal the proof
takes the least position (`FirstPosition`, from the well-foundedness of `<`) and
needs only which events can give a reason (`ReasonOfEvent`, `DerivedReason`).
Hence there are no bounds on units, events or journals. `RunnerAssumption` says a probe
has one unit and the limits are ordered.

### Only model-checked

- *Liveness*: `MessageLeavesSource`, `HeldCallEnds`, `EveryExecutionEnds`. The
  prover handles neither fairness nor `ENABLED`.
- *Verdicts over evidence*: `VerdictIsTrue`, `CleanEvidenceDecides`, `FidelityIsTrue`,
  `LateStatusIsTrue`, `FrozenIsReproduced`. They compare folds over the
  files of a trial with the world that wrote them; what such a fold computes for
  every input needs an induction over data, which is out of the prover's reach.
- *The package*: `EligibleExactlyWhenWhole`, `UsableIsEarned`, `ProvenGoneIsTrue`
  fold the chain of amendments, and *admission's scope*: `AdmittedIsQualified` and
  `OnlyDriftIsRefused` compare closures of imports, both for the same reason.
- *Trial and collection*: `EstablishedIsCollected`, `EstablishedWasQuiet`,
  `NothingIsLost`, `AttributedOnce`. The first two rest on what the loop of
  `evaluateSettlement` computes for every sequence of samples, the others on a plan
  that is folded over the trials (`lateCapturePlan`) and on readings that are unions
  of any number of pages. Both are inductions over data again.

## 7. Statements the code does not keep

Two of them are runs of their own:

- `AdmissionSeesOneTree` (`admission_one_tree`). "They must see one tree: ... In
  production that holds because admission runs at a clean HEAD"
  (`transport-qualification/scope/scope-recomputation.ts:49-52`). Check A5 reads the
  state of the repository once; synthesis and scope recomputation read it again
  later. A commit or an edit in between makes the manifest name one commit while the
  assembly holds another tree's code.
- `AppendedIsDurable` (`append_directory`). "every byte is written and flushed to stable
  storage" (`event-journal/append-only-file.ts:7`). When the append that created the
  file fails or dies before the directory flush, the next one finds the file there,
  skips the directory flush and answers `appended`; a power loss may take the file.

The others are stated in their modules and are refuted by TLC when they are
added to the configuration of the module:

| Property | Module | Statement | What happens |
|---|---|---|---|
| `NoCommitAfterArmedRelease` | `TreatmentProtocol` | "Releasing from `ARMED` too keeps a late provider call from committing after cleanup started" (`control-barrier-release.ts:8-9`) | a call whose targeted commit fails on the moved treatment plans again as untargeted and commits |
| `NeverForgetsACall` | `ConventionalVariant` | "effect knowledge never forgets a call that may have reached the provider" (`orphan-attempts.ts:4-6`) | a crash after dispatch on the last delivery; nobody folds the attempt in |
| `RefusedHoldsNothing` | `CoordinationLease` | "Any other item, or none, means it did not land." (`lease-acquisition.ts:8`) | the put lands after the read that resolved it |
| `RecoveryNeverDegrades` | `CoordinationLease` | "recovery repairs a closure, it never degrades it" (`operational-recovery.ts:252-254`) | a second recovery looks at the original closure only and finds the next holder |
| `UnreadIsActive` | `TrialExecution` | "the round counts as CORRELATED_JOURNAL_ACTIVITY" (`settlement-reading.ts:10-13`) | the first sample has no previous watermark to exceed |
| `AppliedIsRecorded` | `Cleanup` | "records every transition step 5 applied, in any run" (`execution-quiescing.ts:56`) | step 6 succeeded in the original run and is skipped in the recovery |
| `UncapturedStays` | `Cleanup` | "a message that never reached the evidence package stays in the queue" (`dlq-cleanup.ts:2-4`) | step 9 deletes the queue with the stack |
| `NothingPublishedAfterInterruption` | `ExecutionRunner` | "after it no trial starts, nothing is published" (`execution-gate.ts:4-5`) | the send follows an awaited file write after the gate was asked |
| `SeverestWins` | `ExecutionRunner` | "the most severe wins, in this order" (`execution-exit.ts:2-3`) | a refused lease with an abort during the acquisition exits as incomplete |
| `SummaryFailureShows` | `ExecutionRunner` | "and last a failed summary phase" (`run-terminal-reason.ts:6-7`) | the summary is written before its phase ends |
| `PrimaryIsFirst` | `ExecutionRunner` | "The first specific causal condition that prevents clean completion remains primary" (`run-terminal-reason.ts:2-3`) | an abort during a provisioning that then fails is not journaled |
| `RecordedOnce` | `ExecutionRunner` | "Records, once, an interruption no unit recorded" (`execution-runner.ts:436`) | a unit journals it, fails to freeze, and the runner journals it again |

All of them are narrow: each takes a crash, a lost answer, an interruption or an
edit at one particular moment.

Consequences that no statement of the code contradicts, or that a comment passes
over, but that its users should know:

- Two operators who amend a package at the same time fork its chain, and an
  operator whose process dies while writing leaves a torn directory. Both make the
  package ineligible for good: later amendments are refused, nothing removes a
  directory. `EligibleExactlyWhenWhole` says so.
- Check A5 asks git, so a file git ignores is invisible to it; only the scope
  recomputation notices one, when a scoped function imports it.
- Check A6 (`npm ls`) compares installed packages with ranges; check A13 compares
  installed versions with the lockfile, but only for packages of the transport.
- The window of a trial in the listing of Durable executions ends where the next
  trial's begins (`late-record-capture.ts:223-235`). When the index of that later
  trial was not frozen, the window is open and takes its executions too; when the
  listing itself was not frozen (`durable-executions.json` is missing), nothing says
  what is new in it and it is not read again. `AttributedOnce` and `NothingIsLost`
  state these conditions.
- A trial is sent first and stamped with `published_at` afterwards
  (`trial-publication.ts`), so an execution may start before the stamp that opens
  its own window.

## 8. Not modelled

Formats, schemas, canonical JSON, parsing of messages and environments,
decimal arithmetic over the billing export, logging, command-line arguments and
output, the CDK stacks and the build tools have no state to check; the timeouts,
retry counts and visibility times that the stacks fix appear as constants.
Wall-clock steps, records that cannot be decoded and the paging of AWS listings
other than those of `LateCapture` are left out, and so are telemetry and the mapping of SDK values
(`evidence-collection`), the child processes behind admission and deployment, and
the handler of the probe caller, which makes one call through the client that
`RefundCaller` models. `study-comparison` and `variant-validation` aggregate frozen
results; of them only the terminal reasons are modelled, because these depend on
the order of an execution's events. There is no model of two executions from
admission to closure at once: the lease is what they share, and
`CoordinationLease` has two of them.
