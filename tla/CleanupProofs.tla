---------------------------- MODULE CleanupProofs ----------------------------
(***************************************************************************)
(* Cleanup and its recoveries, in any account and over any number of       *)
(* recoveries: it removes no resource of someone else, deletes only        *)
(* messages that the package holds, accounts for what it leaves, and       *)
(* closes clean only over an account without the execution's resources.    *)
(***************************************************************************)
EXTENDS Cleanup, TLAPS

Worlds == [stack : {"present", "deleting", "gone"}, there : SUBSET DOMAIN profile, consuming : BOOLEAN,
           busy : SUBSET Settings[setting].work, dlq : SUBSET Messages, lettered : SUBSET Messages]

Runs == [mode : {"NORMAL", "EMERGENCY"}, at : 1 .. Finished, original : BOOLEAN, writing : BOOLEAN, count : Nat]

\* A stack that is gone took with it what it does not retain.
Retaining(w) == w.stack = "gone" => \A r \in w.there : profile[r].stacked => profile[r].retained

\* The account, and what of it a cleanup knows.
AccountInv ==
  /\ setting \in DOMAIN Settings /\ profile \in Settings[setting].profiles /\ provisioned \in BOOLEAN
  /\ world \in Worlds /\ Retaining(world)

\* A run is at a step that it must execute; the first one starts from nothing.
RunInv ==
  /\ run \in Runs
  /\ mem.status \in [Steps -> StepStatuses] /\ journal.status \in [Steps -> StepStatuses]
  /\ run.at < Finished => mustRunStep(cleanupStepOrder(run.mode)[run.at], succeededSteps(mem))
  /\ run.count = 0 => run.at = Finished /\ journal = EmptyFold

\* A record that the deletion succeeded is true of the latest deletion, in the
\* memory of the run and in the journal; a run knows what the journal knows of it.
DeletionInv ==
  /\ mem.status[9] = "succeeded" => leftover = {}
  /\ journal.status[9] = "succeeded" => leftover = {}
  /\ run.at < Finished /\ journal.status[9] = "succeeded" => mem.status[9] = "succeeded"

\* Only messages of the snapshots are recorded as captured, and only those leave
\* their queue while it exists.
Held == Settings[setting].held
MessageInv ==
  /\ identifiersOf(mem, "CAPTURED") \subseteq Held /\ identifiersOf(journal, "CAPTURED") \subseteq Held
  /\ CapturedBeforeDeleted

\* A pass that found nothing was made over an account without the execution's.
FoundNothing(pass) == pass.ok /\ pass.owned = {} /\ pass.ambiguous = {}
AuditInv ==
  /\ passes = << >> \/ \E pass : passes = << pass >> /\ (FoundNothing(pass) => ~ witness)
  /\ audit = "clean" => ~ witness
  /\ run.at <= 10 => audit = "inconclusive"
  /\ closure # "none" => run.at = Finished
  /\ closure = "clean" => audit = "clean"

CleanupInv == AccountInv /\ RunInv /\ DeletionInv /\ MessageInv /\ AuditInv /\ OnlyOwnIsRemoved

-----------------------------------------------------------------------------
(* The order of the steps. *)

\* A set of positions has a first one.
LEMMA FirstPosition ==
  ASSUME NEW M, M \subseteq 1 .. 12, M # {}
  PROVE  \E j \in M : \A i \in M : j <= i
<1>1. \A i \in M : i \in 1 .. 12
  BY Zenon
<1>2. (\E k \in M : k <= 4) \/ ((\A i \in M : i > 4) /\ \E k \in M : k <= 8) \/ (\A i \in M : i > 8)
  BY <1>1
<1>3. CASE \E k \in M : k <= 4
  <2>1. PICK k \in M : k = 1 \/ k = 2 \/ k = 3 \/ k = 4
    BY <1>1, <1>3
  <2> QED
    BY <1>1, <2>1
<1>4. CASE (\A i \in M : i > 4) /\ \E k \in M : k <= 8
  <2>1. PICK k \in M : k = 5 \/ k = 6 \/ k = 7 \/ k = 8
    BY <1>1, <1>4
  <2>2. \A i \in M : i \in 5 .. 12
    BY <1>1, <1>4
  <2> QED
    BY <2>1, <2>2
<1>5. CASE \A i \in M : i > 8
  <2>0. PICK m \in M : TRUE
    BY Zenon
  <2>1. PICK k \in M : k = 9 \/ k = 10 \/ k = 11 \/ k = 12
    <3>1. m \in 1 .. 12 /\ m > 8
      BY <1>1, <1>5, <2>0, Zenon
    <3> QED
      BY <2>0, <3>1
  <2>2. \A i \in M : i \in 9 .. 12
    BY <1>1, <1>5
  <2> QED
    BY <2>1, <2>2
<1> QED
  BY <1>2, <1>3, <1>4, <1>5, Zenon

\* Both orders agree from the fourth step on.
LEMMA OrderFacts ==
  ASSUME NEW mode, NEW k \in 1 .. 12
  PROVE  /\ cleanupStepOrder(mode)[k] \in Steps
         /\ k >= 4 => cleanupStepOrder(mode)[k] = k
         /\ k < 4 => cleanupStepOrder(mode)[k] \in {1, 2, 3}
<1>1. k = 1 \/ k = 2 \/ k = 3 \/ k = 4 \/ k = 5 \/ k = 6 \/ k = 7 \/ k = 8 \/ k = 9 \/ k = 10 \/ k = 11 \/ k = 12
  OBVIOUS
<1>2. CASE mode = "NORMAL"
  BY <1>1, <1>2 DEF cleanupStepOrder, Steps
<1>3. CASE mode # "NORMAL"
  BY <1>1, <1>3 DEF cleanupStepOrder, Steps
<1> QED
  BY <1>2, <1>3, Zenon

\* The next step is one the run must execute.
LEMMA NextStepFacts ==
  ASSUME NEW mode, NEW k \in 1 .. 12, NEW fold
  PROVE  /\ NextStep(mode, k, fold) \in k .. 12
         /\ mustRunStep(cleanupStepOrder(mode)[NextStep(mode, k, fold)], succeededSteps(fold))
<1> DEFINE Must(j) == mustRunStep(cleanupStepOrder(mode)[j], succeededSteps(fold))
           M == {j \in k .. 12 : Must(j)}
<1>1. Must(12)
  <2>1. cleanupStepOrder(mode)[12] = 12
    BY OrderFacts
  <2> QED
    BY <2>1, Zenon DEF mustRunStep
<1>2. M \subseteq 1 .. 12 /\ M # {}
  BY <1>1
<1>3. PICK j \in M : \A i \in M : j <= i
  BY <1>2, FirstPosition, Zenon
<1>4. j \in k .. 12 /\ Must(j) /\ \A i \in k .. j - 1 : ~ Must(i)
  BY <1>3
<1> HIDE DEF Must
<1>5. NextStep(mode, k, fold) = CHOOSE n \in k .. 12 : Must(n) /\ \A i \in k .. n - 1 : ~ Must(i)
  BY Zenon DEF NextStep, Must
<1>6. NextStep(mode, k, fold) \in k .. 12 /\ Must(NextStep(mode, k, fold))
  BY <1>4, <1>5, Zenon
<1> QED
  BY <1>6, Zenon DEF Must
-----------------------------------------------------------------------------
(* What a step records. *)

\* The fold f after a step on a fold: its status, and its items.
Folded(f, fold, step, items, status) ==
  /\ f.status \in [Steps -> StepStatuses] /\ f.status[step] = status
  /\ \A s \in Steps \ {step} : f.status[s] = fold.status[s]
  /\ f.items \subseteq fold.items \cup items

\* That is what foldCleanupActions computes.
LEMMA FoldFacts ==
  ASSUME NEW fold, NEW step \in Steps, NEW items, NEW status, fold.status \in [Steps -> StepStatuses],
         status \in StepStatuses
  PROVE  Folded(foldCleanupActions(fold, step, items, status), fold, step, items, status)
<1> DEFINE f == foldCleanupActions(fold, step, items, status)
<1>1. f.status = [fold.status EXCEPT ![step] = status] /\ f.items = fold.items \cup (items \cap Items)
  BY Zenon DEF foldCleanupActions
<1> HIDE DEF f
<1>2. Folded(f, fold, step, items, status)
  BY <1>1, Zenon DEF Folded
<1> QED
  BY <1>2, Zenon DEF f

\* Of the messages, a step records only those of its own items as captured.
CapturedOf(f, fold, items, H) ==
  /\ f.items \subseteq fold.items \cup items /\ identifiersOf(fold, "CAPTURED") \subseteq H
  /\ \A i \in items : i.action = "CAPTURED" => i.id \in H

\* So a fold's captured messages are those of H when the items' are.
LEMMA FoldCaptured ==
  ASSUME NEW f, NEW fold, NEW items, NEW H, CapturedOf(f, fold, items, H)
  PROVE  identifiersOf(f, "CAPTURED") \subseteq H
BY Zenon DEF identifiersOf, CapturedOf

\* recordStep: memory, journal and position after a step but the last.
Recorded(step, items, status) ==
  /\ mem'.status \in [Steps -> StepStatuses] /\ mem'.status[step] = status
  /\ \A s \in Steps \ {step} : mem'.status[s] = mem.status[s]
  /\ mem'.items \subseteq mem.items \cup items
  /\ journal'.status \in [Steps -> StepStatuses]
  /\ journal'.status[step] \in {status, "started", journal.status[step]}
  /\ \A s \in Steps \ {step} : journal'.status[s] = journal.status[s]
  /\ journal'.items \subseteq journal.items \cup items

\* The journal takes the step, a part of it or nothing.
LEMMA JournalFacts ==
  ASSUME NEW step \in Steps, NEW items, NEW status \in StepStatuses, NEW j \in JournalsAfter(step, items, status),
         journal.status \in [Steps -> StepStatuses]
  PROVE  /\ j[1].status \in [Steps -> StepStatuses]
         /\ j[1].status[step] \in {status, "started", journal.status[step]}
         /\ \A s \in Steps \ {step} : j[1].status[s] = journal.status[s]
         /\ j[1].items \subseteq journal.items \cup items
         /\ j[2] \in BOOLEAN
<1> DEFINE whole == foldCleanupActions(journal, step, items, status)
           Cut(kept) == foldCleanupActions(journal, step, kept, "started")
           cuts == {Cut(kept) : kept \in SUBSET items}
<1>1. \/ j = << journal, FALSE >> \/ j = << whole, TRUE >>
      \/ j \in {whole, journal} \X {FALSE} \/ j \in cuts \X {FALSE}
  <2>1. JournalsAfter(step, items, status) \subseteq
          {<< journal, FALSE >>, << whole, TRUE >>} \cup ({whole, journal} \X {FALSE}) \cup (cuts \X {FALSE})
    <3> HIDE DEF whole, cuts
    <3>1. JournalsAfter(step, items, status) =
            IF ~ run.writing THEN {<< journal, FALSE >>}
            ELSE {<< whole, TRUE >>}
                   \cup (IF ~ MayFail(step) THEN {} ELSE ({whole, journal} \X {FALSE}) \cup (cuts \X {FALSE}))
      BY Zenon DEF JournalsAfter, whole, cuts
    <3> QED
      BY <3>1, Zenon
  <2> HIDE DEF whole, cuts
  <2> QED
    BY <2>1, Zenon
<1>2. Folded(whole, journal, step, items, status)
  BY FoldFacts, Zenon
<1>3. \A f \in cuts : Folded(f, journal, step, items, "started")
  <2>1. SUFFICES ASSUME NEW kept \in SUBSET items
                 PROVE  Folded(Cut(kept), journal, step, items, "started")
    BY Zenon
  <2>2. Folded(Cut(kept), journal, step, kept, "started")
    BY FoldFacts, Zenon DEF StepStatuses
  <2> HIDE DEF Cut
  <2> QED
    BY <2>2, Zenon DEF Folded
<1> HIDE DEF whole, cuts
<1>4. j[1] \in {journal, whole} \cup cuts /\ j[2] \in BOOLEAN
  <2>1. CASE j = << journal, FALSE >> \/ j = << whole, TRUE >>
    <3>2. ASSUME NEW f, NEW b \in BOOLEAN
          PROVE  << f, b >>[1] = f /\ << f, b >>[2] \in BOOLEAN
      BY Zenon
    <3>1. j[1] \in {journal, whole}
      BY <2>1, <3>2, Zenon
    <3>3. j[2] \in BOOLEAN
      BY <2>1, <3>2, Zenon
    <3> QED
      BY <3>1, <3>3, Zenon
  <2>2. ASSUME NEW S, j \in S \X {FALSE}
        PROVE  j[1] \in S /\ j[2] \in BOOLEAN
    BY <2>2, Zenon
  <2> QED
    BY <1>1, <2>1, <2>2, Zenon
<1>5. CASE j[1] = journal
  BY <1>4, <1>5, Zenon
<1>6. CASE j[1] = whole
  BY <1>2, <1>4, <1>6, Zenon DEF Folded
<1>7. CASE j[1] \in cuts
  BY <1>3, <1>4, <1>7, Zenon DEF Folded
<1> QED
  BY <1>4, <1>5, <1>6, <1>7, Zenon

\* The run after a step that is not the last (recordStep).
LEMMA RecordedFacts ==
  ASSUME CleanupInv, NEW step \in Steps, step # 12, At(step), NEW items, NEW status \in StepStatuses,
         recordStep(step, items, status)
  PROVE  /\ Recorded(step, items, status)
         /\ run' \in Runs /\ run'.mode = run.mode /\ run'.count = run.count /\ run'.original = run.original
         /\ run.at \in 1 .. 11 /\ run'.at \in run.at + 1 .. 12 /\ run.count # 0
         /\ mustRunStep(cleanupStepOrder(run'.mode)[run'.at], succeededSteps(mem'))
<1>1. /\ run \in Runs /\ run.at < Finished /\ cleanupStepOrder(run.mode)[run.at] = step
      /\ mem.status \in [Steps -> StepStatuses] /\ journal.status \in [Steps -> StepStatuses]
  BY Zenon DEF CleanupInv, RunInv, At
<1>2. run.at \in 1 .. 12
  BY <1>1 DEF Runs, Finished
<1>3. run.at \in 1 .. 11
  BY <1>1, <1>2, OrderFacts
<1>4. mem' = foldCleanupActions(mem, step, items, status)
  BY Zenon DEF recordStep
<1>5. PICK j \in JournalsAfter(step, items, status) :
        journal' = j[1] /\ run' = [run EXCEPT !.at = NextStep(run.mode, run.at + 1, mem'), !.writing = j[2]]
  BY Zenon DEF recordStep
<1> DEFINE next == NextStep(run.mode, run.at + 1, mem')
<1>6. next \in run.at + 1 .. 12 /\ mustRunStep(cleanupStepOrder(run.mode)[next], succeededSteps(mem'))
  <2>1. run.at + 1 \in 1 .. 12
    BY <1>3
  <2> QED
    BY <2>1, NextStepFacts, Zenon
<1> HIDE DEF next
<1>7. next \in 1 .. Finished
  BY <1>3, <1>6 DEF Finished
<1>8. /\ j[1].status \in [Steps -> StepStatuses]
      /\ j[1].status[step] \in {status, "started", journal.status[step]}
      /\ \A s \in Steps \ {step} : j[1].status[s] = journal.status[s]
      /\ j[1].items \subseteq journal.items \cup items
      /\ j[2] \in BOOLEAN
  BY <1>1, JournalFacts, Zenon
<1>9. run' = [run EXCEPT !.at = next, !.writing = j[2]]
  BY <1>5, Zenon DEF next
<1>10. /\ run' \in Runs /\ run'.mode = run.mode /\ run'.count = run.count /\ run'.original = run.original
       /\ run'.at = next
  BY <1>1, <1>7, <1>8, <1>9, Zenon DEF Runs
<1>11. Folded(mem', mem, step, items, status)
  BY <1>1, <1>4, FoldFacts, Zenon
<1>12. Recorded(step, items, status)
  BY <1>5, <1>8, <1>11, Zenon DEF Recorded, Folded
<1>13. run.count # 0
  BY <1>1 DEF CleanupInv, RunInv, Finished
<1> QED
  BY <1>3, <1>6, <1>10, <1>12, <1>13, Zenon
-----------------------------------------------------------------------------
(* What the surfaces tell, and whose a resource is. *)

\* The decision kept is one that a sighting supports (judgeOwnership).
LEMMA JudgedFacts ==
  ASSUME NEW D, D \subseteq Decisions, D # {}
  PROVE  judgeOwnership(D) \in D
<1>1. \A d \in D : evidenceRank(d) \in {0, 1, 2, 3}
  BY Zenon DEF evidenceRank
<1>2. \E d \in D : \A other \in D : evidenceRank(d) <= evidenceRank(other)
  <2>1. CASE \E d \in D : evidenceRank(d) = 0
    BY <1>1, <2>1
  <2>2. CASE (\A d \in D : evidenceRank(d) # 0) /\ \E d \in D : evidenceRank(d) = 1
    BY <1>1, <2>2
  <2>3. CASE (\A d \in D : evidenceRank(d) \notin {0, 1}) /\ \E d \in D : evidenceRank(d) = 2
    BY <1>1, <2>3
  <2>4. CASE \A d \in D : evidenceRank(d) \notin {0, 1, 2}
    BY <1>1, <2>4
  <2> QED
    BY <2>1, <2>2, <2>3, <2>4, Zenon
<1> QED
  BY <1>2, Zenon DEF judgeOwnership

\* What one sighting supports, of a resource of the account.
LEMMA SightingFacts ==
  ASSUME NEW surface, NEW r, NEW unread
  PROVE  LET d == proveOwnership(SightingOn(surface, r, unread), provisioned, recorded_stack_id)
         IN  /\ d \in Decisions
             /\ d = "excluded_baseline" => profile[r].baseline
             /\ d \in DirectlyDeletable => ~ profile[r].baseline /\ profile[r].tags \in {"run", "ids"}
<1> DEFINE s == SightingOn(surface, r, unread)
           d == proveOwnership(s, provisioned, recorded_stack_id)
<1>1. s.baseline = profile[r].baseline /\ s.tags \in {"unknown", profile[r].tags}
  BY Zenon DEF SightingOn
<1> HIDE DEF s
<1>2. d \in Decisions /\ (d = "excluded_baseline" => s.baseline)
  BY Zenon DEF proveOwnership, Decisions, Owned, DirectlyDeletable
<1>3. d \in DirectlyDeletable => ~ s.baseline /\ s.tags \in {"run", "ids"}
  BY Zenon DEF proveOwnership, DirectlyDeletable, carriesRunSpecificTags, unrecordedOwnership
<1> HIDE DEF d
<1>4. /\ d \in Decisions /\ (d = "excluded_baseline" => profile[r].baseline)
      /\ (d \in DirectlyDeletable => ~ profile[r].baseline /\ profile[r].tags \in {"run", "ids"})
  BY <1>1, <1>2, <1>3, Zenon
<1> QED
  BY <1>4, Zenon DEF d, s

\* So too the decision on a resource that a surface showed.
LEMMA DecisionFacts ==
  ASSUME NEW w, NEW failed, NEW unread, NEW r \in sweepSurfaces(w, failed, unread)
  PROVE  LET d == Decision(w, r, failed, unread)
         IN  /\ d \in Decisions
             /\ d = "excluded_baseline" => profile[r].baseline
             /\ d \in DirectlyDeletable => ~ profile[r].baseline /\ profile[r].tags \in {"run", "ids"}
<1> DEFINE seen == SeenOn(w, r, failed, unread)
           Of(surface) == proveOwnership(SightingOn(surface, r, unread), provisioned, recorded_stack_id)
           D == {Of(surface) : surface \in seen}
           d == Decision(w, r, failed, unread)
<1>1. seen # {}
  BY Zenon DEF sweepSurfaces
<1>2. \A surface \in seen :
        /\ Of(surface) \in Decisions
        /\ (Of(surface) = "excluded_baseline" => profile[r].baseline)
        /\ (Of(surface) \in DirectlyDeletable => ~ profile[r].baseline /\ profile[r].tags \in {"run", "ids"})
  BY SightingFacts, Zenon
<1> HIDE DEF Of, seen
<1>3. D \subseteq Decisions /\ D # {}
  BY <1>1, <1>2, Zenon
<1>4. d = judgeOwnership(D)
  BY Zenon DEF Decision, Of, seen
<1>5. d \in D
  BY <1>3, <1>4, JudgedFacts, Zenon
<1>6. PICK surface \in seen : d = Of(surface)
  BY <1>5, Zenon
<1> HIDE DEF d
<1>7. /\ d \in Decisions /\ (d = "excluded_baseline" => profile[r].baseline)
      /\ (d \in DirectlyDeletable => ~ profile[r].baseline /\ profile[r].tags \in {"run", "ids"})
  BY <1>2, <1>6, Zenon
<1> QED
  BY <1>7, Zenon DEF d

\* What the account says of its resources (AccountAssumption).
LEMMA ProfileFacts ==
  ASSUME AccountInv, NEW r \in DOMAIN profile
  PROVE  IF profile[r].ours
         THEN /\ ~ profile[r].baseline
              /\ \/ profile[r].named \/ profile[r].tags \in {"run", "ids"}
                 \/ profile[r].stacked /\ (recorded_stack_id \/ ~ profile[r].retained)
         ELSE ~ profile[r].stacked /\ (profile[r].baseline \/ profile[r].tags \notin {"run", "ids"})
BY AccountAssumption, Zenon DEF AccountInv, recorded_stack_id

\* When every query was answered, nothing of ours that is there went unseen.
LEMMA AllIsSeen ==
  ASSUME AccountInv, NEW w, w.there \subseteq DOMAIN profile, Retaining(w), NEW failed, NEW unread,
         queriesAnswered(w, failed, unread)
  PROVE  failed = {} /\ \A r \in w.there : profile[r].ours => r \in sweepSurfaces(w, failed, unread)
<1>1. failed = {} /\ ~ \E r \in unread : Lists(w, "tag_index", r)
  BY Zenon DEF queriesAnswered
<1>2. ASSUME NEW r \in w.there, profile[r].ours
      PROVE  SeenOn(w, r, failed, unread) # {}
  <2>1. \/ profile[r].named \/ profile[r].tags \in {"run", "ids"}
        \/ profile[r].stacked /\ (recorded_stack_id \/ ~ profile[r].retained)
    BY <1>2, ProfileFacts, Zenon
  <2>2. CASE profile[r].named
    <3>1. Lists(w, "native", r)
      BY <2>2 DEF Lists
    <3> QED
      BY <1>1, <3>1 DEF SeenOn, Surfaces
  <2>3. CASE profile[r].tags \in {"run", "ids"}
    <3>1. Lists(w, "tag_index", r)
      BY <2>3 DEF Lists
    <3>2. r \notin unread
      BY <1>1, <3>1, Zenon
    <3> QED
      BY <1>1, <3>1, <3>2 DEF SeenOn, Surfaces
  <2>4. CASE profile[r].stacked /\ (recorded_stack_id \/ ~ profile[r].retained)
    <3>1. w.stack = "gone" => recorded_stack_id /\ profile[r].retained
      BY <2>4, Zenon DEF Retaining
    <3>2. Lists(w, "stack", r)
      BY <2>4, <3>1 DEF Lists
    <3> QED
      BY <1>1, <3>2 DEF SeenOn, Surfaces
  <2> QED
    BY <2>1, <2>2, <2>3, <2>4, Zenon
<1> QED
  BY <1>1, <1>2, Zenon DEF sweepSurfaces
-----------------------------------------------------------------------------
(* What every step keeps. *)

\* Of the ids of its items, a step records as captured those of the snapshots.
CapturesHeld(items) == \A i \in items : i.action = "CAPTURED" => i.id \in Held

\* The run, the deletion's record and the captured messages, after a step other
\* than the deletion and the freeze.
LEMMA StepKeeps ==
  ASSUME CleanupInv, NEW step \in Steps \ {9, 12}, At(step), NEW items, NEW status \in StepStatuses,
         recordStep(step, items, status), CapturesHeld(items),
         UNCHANGED << setting, profile, provisioned, leftover >>
  PROVE  /\ RunInv' /\ DeletionInv'
         /\ identifiersOf(mem, "CAPTURED")' \subseteq Held' /\ identifiersOf(journal, "CAPTURED")' \subseteq Held'
<1>1. /\ Recorded(step, items, status)
      /\ run' \in Runs /\ run'.count = run.count /\ run.count # 0
      /\ run.at \in 1 .. 11 /\ run'.at \in run.at + 1 .. 12
      /\ mustRunStep(cleanupStepOrder(run'.mode)[run'.at], succeededSteps(mem'))
  BY RecordedFacts, Zenon
<1>2. RunInv'
  BY <1>1, Zenon DEF RunInv, Recorded
<1>3. DeletionInv'
  <2>1. mem'.status[9] = mem.status[9] /\ journal'.status[9] = journal.status[9]
    BY <1>1 DEF Recorded, Steps
  <2>2. DeletionInv /\ run.at < Finished
    BY <1>1 DEF CleanupInv, Finished
  <2> QED
    BY <2>1, <2>2, Zenon DEF DeletionInv
<1>4. identifiersOf(mem', "CAPTURED") \subseteq Held /\ identifiersOf(journal', "CAPTURED") \subseteq Held
  <2>1. CapturedOf(mem', mem, items, Held) /\ CapturedOf(journal', journal, items, Held)
    BY <1>1, Zenon DEF Recorded, CapturesHeld, CleanupInv, MessageInv, CapturedOf
  <2> QED
    BY <2>1, FoldCaptured, Zenon
<1>5. Held' = Held
  BY Zenon DEF Held
<1> QED
  BY <1>2, <1>3, <1>4, <1>5, Zenon DEF identifiersOf

\* The audit's account, after a step other than the audit and the freeze.
LEMMA AuditKept ==
  ASSUME CleanupInv, run.at \in 1 .. 11, run'.at \in run.at + 1 .. 12, UNCHANGED << passes, audit, closure, witness >>
  PROVE  AuditInv'
<1>1. run.at < Finished /\ (run'.at <= 10 => run.at <= 10)
  BY DEF Finished
<1>2. closure = "none"
  BY <1>1 DEF CleanupInv, AuditInv
<1> QED
  BY <1>1, <1>2, Zenon DEF CleanupInv, AuditInv, FoundNothing

\* A step that leaves the account and the audit alone.
LEMMA PlainStep ==
  ASSUME CleanupInv, NEW step \in Steps \ {9, 10, 12}, At(step), NEW items, NEW status \in StepStatuses,
         recordStep(step, items, status), CapturesHeld(items),
         world' \in Worlds, world'.stack = world.stack, world'.there = world.there,
         world'.lettered = world.lettered, world.dlq \ world'.dlq \subseteq Held,
         UNCHANGED << setting, profile, provisioned, passes, audit, closure, removed, witness, leftover >>
  PROVE  CleanupInv'
<1>1. /\ RunInv' /\ DeletionInv'
      /\ identifiersOf(mem, "CAPTURED")' \subseteq Held' /\ identifiersOf(journal, "CAPTURED")' \subseteq Held'
  BY StepKeeps, Zenon
<1>2. AuditInv'
  BY RecordedFacts, AuditKept, Zenon
<1>3. AccountInv'
  BY Zenon DEF CleanupInv, AccountInv, Worlds, Retaining
<1>4. CapturedBeforeDeleted'
  BY Zenon DEF CleanupInv, MessageInv, CapturedBeforeDeleted, Held
<1>5. OnlyOwnIsRemoved'
  BY Zenon DEF CleanupInv, OnlyOwnIsRemoved
<1> QED
  BY <1>1, <1>2, <1>3, <1>4, <1>5, Zenon DEF CleanupInv, MessageInv

\* outcomeFromFailures
LEMMA OutcomeFacts ==
  ASSUME NEW failed \in BOOLEAN
  PROVE  /\ outcomeFromFailures(failed) \in StepStatuses
         /\ outcomeFromFailures(failed) = "succeeded" => ~ failed
BY Zenon DEF outcomeFromFailures, StepStatuses
-----------------------------------------------------------------------------
(* The steps before the deletion. *)

\* Steps 1, 2 and 4.
LEMMA EvidencePreserves ==
  ASSUME CleanupInv, EvidenceStep
  PROVE  CleanupInv'
<1>1. PICK step \in {1, 2, 4}, status \in {"succeeded", "failed", "skipped"} :
        At(step) /\ recordStep(step, {}, status)
  BY Zenon DEF EvidenceStep
<1>2. UNCHANGED << setting, profile, provisioned, world, passes, audit, closure, removed, witness, leftover >>
  BY Zenon DEF EvidenceStep, ghosts
<1>3. step \in Steps \ {9, 10, 12} /\ status \in StepStatuses /\ CapturesHeld({})
  BY DEF Steps, StepStatuses, CapturesHeld
<1>4. world' \in Worlds
  BY <1>2, Zenon DEF CleanupInv, AccountInv
<1> QED
  BY <1>1, <1>2, <1>3, <1>4, PlainStep, Zenon

\* Step 3.
LEMMA DisablePreserves ==
  ASSUME CleanupInv, disableConsumers
  PROVE  CleanupInv'
<1>1. PICK failed \in BOOLEAN, consuming \in BOOLEAN :
        /\ world' = [world EXCEPT !.consuming = consuming]
        /\ recordStep(3, {}, outcomeFromFailures(failed))
  BY Zenon DEF disableConsumers
<1>2. /\ UNCHANGED << setting, profile, provisioned, passes, audit, closure, removed, witness, leftover >>
      /\ At(3)
  BY Zenon DEF disableConsumers, ghosts
<1>3. 3 \in Steps \ {9, 10, 12} /\ outcomeFromFailures(failed) \in StepStatuses /\ CapturesHeld({})
  BY OutcomeFacts DEF Steps, CapturesHeld
<1>4. /\ world' \in Worlds /\ world'.stack = world.stack /\ world'.there = world.there
      /\ world'.lettered = world.lettered /\ world'.dlq = world.dlq
  BY <1>1, Zenon DEF CleanupInv, AccountInv, Worlds, Retaining
<1> QED
  BY <1>1, <1>2, <1>3, <1>4, PlainStep, Zenon

\* Step 5.
LEMMA ReleasePreserves ==
  ASSUME CleanupInv, releaseBarriersAndStopExecutions
  PROVE  CleanupInv'
<1>1. PICK done \in SUBSET world.busy : \E lost \in SUBSET (world.busy \ done) : \E failed \in BOOLEAN :
        /\ world' = [world EXCEPT !.busy = @ \ (done \cup lost)]
        /\ recordStep(5, {Item("APPLIED", x) : x \in done}, outcomeFromFailures(failed))
  BY Zenon DEF releaseBarriersAndStopExecutions
<1>2. PICK lost \in SUBSET (world.busy \ done), failed \in BOOLEAN :
        /\ world' = [world EXCEPT !.busy = @ \ (done \cup lost)]
        /\ recordStep(5, {Item("APPLIED", x) : x \in done}, outcomeFromFailures(failed))
  BY <1>1, Zenon
<1>3. /\ UNCHANGED << setting, profile, provisioned, passes, audit, closure, removed, witness, leftover >>
      /\ At(5)
  BY Zenon DEF releaseBarriersAndStopExecutions
<1>4. 5 \in Steps \ {9, 10, 12} /\ outcomeFromFailures(failed) \in StepStatuses
  BY OutcomeFacts DEF Steps
<1>5. CapturesHeld({Item("APPLIED", x) : x \in done})
  BY DEF CapturesHeld, Item
<1>6. /\ world' \in Worlds /\ world'.stack = world.stack /\ world'.there = world.there
      /\ world'.lettered = world.lettered /\ world'.dlq = world.dlq
  BY <1>2, Zenon DEF CleanupInv, AccountInv, Worlds, Retaining
<1> QED
  BY <1>2, <1>3, <1>4, <1>5, <1>6, PlainStep, Zenon

\* Step 6.
LEMMA InducedPreserves ==
  ASSUME CleanupInv, recordInducedTransitions
  PROVE  CleanupInv'
<1> DEFINE X == identifiersOf(mem, "APPLIED") \ identifiersOf(mem, "INDUCED")
           items == {Item("INDUCED", x) : x \in X}
<1>1. /\ UNCHANGED << setting, profile, provisioned, world, passes, audit, closure, removed, witness, leftover >>
      /\ At(6) /\ recordStep(6, items, "succeeded")
  BY Zenon DEF recordInducedTransitions, ghosts
<1> HIDE DEF X
<1>2. 6 \in Steps \ {9, 10, 12} /\ "succeeded" \in StepStatuses /\ CapturesHeld(items)
  BY DEF Steps, StepStatuses, CapturesHeld, Item
<1>3. world' \in Worlds
  BY <1>1, Zenon DEF CleanupInv, AccountInv
<1> HIDE DEF items
<1> QED
  BY <1>1, <1>2, <1>3, PlainStep, Zenon

\* Step 7: it captures messages of the snapshots.
LEMMA CapturePreserves ==
  ASSUME CleanupInv, captureDlqEvidence
  PROVE  CleanupInv'
<1>1. PICK read \in SUBSET Held, failed \in BOOLEAN :
        recordStep(7, {Item("CAPTURED", m) : m \in read}, outcomeFromFailures(failed))
  BY Zenon DEF captureDlqEvidence, Held
<1>2. /\ UNCHANGED << setting, profile, provisioned, world, passes, audit, closure, removed, witness, leftover >>
      /\ At(7)
  BY Zenon DEF captureDlqEvidence, ghosts
<1>3. 7 \in Steps \ {9, 10, 12} /\ outcomeFromFailures(failed) \in StepStatuses
  BY OutcomeFacts DEF Steps
<1>4. CapturesHeld({Item("CAPTURED", m) : m \in read})
  BY DEF CapturesHeld, Item
<1>5. world' \in Worlds
  BY <1>2, Zenon DEF CleanupInv, AccountInv
<1> QED
  BY <1>1, <1>2, <1>3, <1>4, <1>5, PlainStep, Zenon

\* Step 8: what it deletes was captured before.
LEMMA DeleteMessagesPreserves ==
  ASSUME CleanupInv, deleteCapturedDlqMessages
  PROVE  CleanupInv'
<1> DEFINE pending == pendingDlqMessages(mem)
<1>1. PICK gone, told, absent :
        /\ gone \in SUBSET (pending \cap world.dlq)
        /\ world' = [world EXCEPT !.dlq = @ \ gone]
        /\ recordStep(8, {Item("SETTLED", m) : m \in told \cup absent},
                      outcomeFromFailures(pending # told \cup absent))
  BY Zenon DEF deleteCapturedDlqMessages
<1>2. /\ UNCHANGED << setting, profile, provisioned, passes, audit, closure, removed, witness, leftover >>
      /\ At(8)
  BY Zenon DEF deleteCapturedDlqMessages, ghosts
<1>3. 8 \in Steps \ {9, 10, 12} /\ outcomeFromFailures(pending # told \cup absent) \in StepStatuses
  BY DEF Steps, outcomeFromFailures, StepStatuses
<1>4. CapturesHeld({Item("SETTLED", m) : m \in told \cup absent})
  BY DEF CapturesHeld, Item
<1>5. pending \subseteq Held
  BY Zenon DEF pendingDlqMessages, CleanupInv, MessageInv
<1> HIDE DEF pending
<1>6. /\ world' \in Worlds /\ world'.stack = world.stack /\ world'.there = world.there
      /\ world'.lettered = world.lettered /\ world.dlq \ world'.dlq \subseteq Held
  BY <1>1, <1>5, Zenon DEF CleanupInv, AccountInv, Worlds, Retaining
<1> QED
  BY <1>1, <1>2, <1>3, <1>4, <1>6, PlainStep, Zenon
-----------------------------------------------------------------------------
(* The deletion. *)

\* The account without the stack: only the execution's resources went with it.
LEMMA WithoutStackFacts ==
  ASSUME AccountInv
  PROVE  /\ WithoutStack(world) \in Worlds /\ WithoutStack(world).stack = "gone"
         /\ WithoutStack(world).there \subseteq world.there
         /\ Others(world.there \ WithoutStack(world).there) = {} /\ Retaining(WithoutStack(world))
<1> DEFINE w == WithoutStack(world)
<1>1. /\ w \in Worlds /\ w.stack = "gone"
      /\ w.there = {r \in world.there : ~ profile[r].stacked \/ profile[r].retained}
  BY Zenon DEF AccountInv, WithoutStack, Worlds
<1> HIDE DEF w
<1>2. world.there \subseteq DOMAIN profile
  BY Zenon DEF AccountInv, Worlds, Retaining
<1>3. \A r \in world.there \ w.there : profile[r].stacked
  BY <1>1, Zenon
<1>4. \A r \in world.there \ w.there : profile[r].ours
  BY <1>2, <1>3, ProfileFacts, Zenon
<1>5. Others(world.there \ w.there) = {}
  BY <1>4, Zenon DEF Others
<1>6. Retaining(w)
  BY <1>1, Zenon DEF Retaining
<1> QED
  BY <1>1, <1>5, <1>6, Zenon DEF w

\* A deletion that is not seen through leaves the account as it was (StackStays).
LEMMA StaysFacts ==
  ASSUME AccountInv, NEW w \in StackStays
  PROVE  /\ w \in Worlds /\ w.there = world.there /\ Retaining(w)
         /\ w.stack # "gone" => world.stack # "gone"
         /\ w.dlq = world.dlq /\ w.lettered = world.lettered
<1> DEFINE deleting == [world EXCEPT !.stack = "deleting"]
<1>1. world \in Worlds /\ Retaining(world)
  BY Zenon DEF AccountInv
<1>2. w = world \/ (w = deleting /\ world.stack # "gone")
  BY Zenon DEF StackStays
<1>3. /\ deleting \in Worlds /\ deleting.there = world.there /\ deleting.dlq = world.dlq
      /\ deleting.lettered = world.lettered /\ deleting.stack = "deleting"
  BY <1>1, Zenon DEF Worlds
<1> HIDE DEF deleting
<1>4. CASE w = world
  BY <1>1, <1>4, Zenon
<1>5. CASE w = deleting /\ world.stack # "gone"
  BY <1>3, <1>5 DEF Retaining
<1> QED
  BY <1>2, <1>4, <1>5, Zenon

\* The account, and the items recorded, however the stack's deletion ends.
StackEnds(items, w) ==
  /\ w \in Worlds /\ w.there \subseteq world.there /\ Retaining(w)
  /\ Others(world.there \ w.there) = {}
  /\ w.stack # "gone" => world.stack # "gone" /\ w.dlq = world.dlq /\ w.lettered = world.lettered
  /\ \A i \in items : i.action \in {"ALREADY_ABSENT", "DELETED", "DELETE_FAILED"}
  /\ recorded_stack_id => \E i \in items : i.id = Stack /\ (w.stack # "gone" => i.action = "DELETE_FAILED")

\* It ends in one of these ways (deleteStackAndWait, deleteRecordedStack).
LEMMA StackFacts ==
  ASSUME AccountInv, NEW stack \in deleteRecordedStack
  PROVE  StackEnds(stack[1], stack[2])
<1>1. world \in Worlds /\ Retaining(world)
  BY Zenon DEF AccountInv
<1>2. Others(world.there \ world.there) = {}
  BY Zenon DEF Others
<1>3. CASE ~ recorded_stack_id
  <2>1. stack = << {}, world >>
    BY <1>3, Zenon DEF deleteRecordedStack
  <2>2. stack[1] = {} /\ stack[2] = world
    BY <2>1
  <2> QED
    BY <1>1, <1>2, <1>3, <2>2, Zenon DEF StackEnds
<1>4. CASE recorded_stack_id
  <2>1. PICK d \in deleteStackAndWait : stack = << {Item(d[1], Stack)}, d[2] >>
    BY <1>4, Zenon DEF deleteRecordedStack
  <2>2. stack[1] = {Item(d[1], Stack)} /\ stack[2] = d[2]
    BY <2>1
  <2>3. /\ d[1] \in {"ALREADY_ABSENT", "DELETED", "DELETE_FAILED"}
        /\ \/ d[2] = world /\ world.stack = "gone"
           \/ d[2] = WithoutStack(world)
           \/ d[2] \in StackStays /\ d[1] = "DELETE_FAILED"
    BY DEF deleteStackAndWait
  <2>4. /\ d[2] \in Worlds /\ d[2].there \subseteq world.there /\ Retaining(d[2])
        /\ Others(world.there \ d[2].there) = {}
        /\ d[2].stack # "gone" => /\ world.stack # "gone" /\ d[2].dlq = world.dlq /\ d[2].lettered = world.lettered
                                  /\ d[1] = "DELETE_FAILED"
    <3>1. CASE d[2] = world /\ world.stack = "gone"
      BY <1>1, <1>2, <3>1, Zenon
    <3>2. CASE d[2] = WithoutStack(world)
      BY <3>2, WithoutStackFacts, Zenon
    <3>3. CASE d[2] \in StackStays /\ d[1] = "DELETE_FAILED"
      BY <1>2, <3>3, StaysFacts, Zenon
    <3> QED
      BY <2>3, <3>1, <3>2, <3>3, Zenon
  <2>5. Item(d[1], Stack).action = d[1] /\ Item(d[1], Stack).id = Stack
    BY Zenon DEF Item
  <2>6. \A i \in stack[1] : i.action \in {"ALREADY_ABSENT", "DELETED", "DELETE_FAILED"}
    BY <2>2, <2>3, <2>5, Zenon
  <2>7. \E i \in stack[1] : i.id = Stack /\ (stack[2].stack # "gone" => i.action = "DELETE_FAILED")
    BY <2>2, <2>4, <2>5, Zenon
  <2> QED
    BY <2>2, <2>4, <2>6, <2>7, Zenon DEF StackEnds
<1> QED
  BY <1>3, <1>4, Zenon

\* The run and its records after the deletion, when its success leaves nothing unnamed.
LEMMA DeletionKeeps ==
  ASSUME CleanupInv, At(9), NEW items, NEW status \in StepStatuses, recordStep(9, items, status),
         CapturesHeld(items), status = "succeeded" => leftover' = {},
         UNCHANGED << setting, passes, audit, closure, witness >>
  PROVE  /\ RunInv' /\ DeletionInv' /\ AuditInv'
         /\ identifiersOf(mem, "CAPTURED")' \subseteq Held' /\ identifiersOf(journal, "CAPTURED")' \subseteq Held'
<1>0. 9 \in Steps
  BY DEF Steps
<1>1. /\ Recorded(9, items, status)
      /\ run' \in Runs /\ run'.count = run.count /\ run.count # 0
      /\ run.at \in 1 .. 11 /\ run'.at \in run.at + 1 .. 12
      /\ mustRunStep(cleanupStepOrder(run'.mode)[run'.at], succeededSteps(mem'))
  BY <1>0, RecordedFacts
<1>2. RunInv'
  BY <1>1, Zenon DEF RunInv, Recorded
<1>3. mem.status[9] # "succeeded"
  BY <1>0 DEF At, CleanupInv, RunInv, mustRunStep, succeededSteps
<1>4. journal.status[9] # "succeeded"
  BY <1>3, Zenon DEF At, CleanupInv, DeletionInv
<1>5. DeletionInv'
  BY <1>1, <1>4, Zenon DEF Recorded, DeletionInv
<1>6. AuditInv'
  BY <1>1, AuditKept, Zenon
<1>7. identifiersOf(mem', "CAPTURED") \subseteq Held /\ identifiersOf(journal', "CAPTURED") \subseteq Held
  <2>1. CapturedOf(mem', mem, items, Held) /\ CapturedOf(journal', journal, items, Held)
    BY <1>1, Zenon DEF Recorded, CapturesHeld, CleanupInv, MessageInv, CapturedOf
  <2> QED
    BY <2>1, FoldCaptured, Zenon
<1>8. Held' = Held
  BY Zenon DEF Held
<1> QED
  BY <1>2, <1>5, <1>6, <1>7, <1>8, Zenon DEF identifiersOf

\* A resource that step 9 came to and neither deleted nor failed on is named, or
\* on the baseline list.
LEMMA SettledFacts ==
  ASSUME NEW r, NEW decision \in Decisions, NEW refused,
         settleRemainingResource(r, decision, refused) # "DELETE_FAILED",
         ~ (r # Stack /\ decision \in DirectlyDeletable /\ r \notin refused)
  PROVE  decision = "excluded_baseline" \/ settleRemainingResource(r, decision, refused) = "SKIPPED_AMBIGUOUS"
BY DEF settleRemainingResource, Decisions, Owned, DirectlyDeletable

\* The choices of step 9: how the stack's deletion ended, what failed, and what the
\* surfaces told.
Deletes(stack, failed, unread, decision, cut, refused, lost) ==
  /\ stack \in deleteRecordedStack /\ lost \in SUBSET refused
  /\ decision = JudgedResources(stack[2], failed, unread)
  /\ cut \in SUBSET DOMAIN decision /\ refused \in SUBSET (directlyDeletable(decision) \ cut)
  /\ settleResources(stack[1], stack[2], decision, queriesAnswered(stack[2], failed, unread), cut, refused, lost)

\* Every step 9 makes such choices.
LEMMA DeletionChoices ==
  ASSUME deleteOwnedResources
  PROVE  \E stack, failed, unread, decision, cut, refused, lost :
           Deletes(stack, failed, unread, decision, cut, refused, lost)
<1> DEFINE Settles(stack, failed, unread, decision, cut, refused, lost) ==
             /\ (cut # {} \/ refused # {} => MayFail(9))
             /\ settleResources(stack[1], stack[2], decision, queriesAnswered(stack[2], failed, unread), cut, refused, lost)
<1>1. \E stack \in deleteRecordedStack : \E failed \in SurfacesFailing(9) : \E unread \in UnreadTags(9, stack[2]) :
        \E decision \in {JudgedResources(stack[2], failed, unread)} :
        \E cut \in SUBSET DOMAIN decision : \E refused \in SUBSET (directlyDeletable(decision) \ cut) :
        \E lost \in SUBSET refused : Settles(stack, failed, unread, decision, cut, refused, lost)
  BY Zenon DEF deleteOwnedResources
<1> HIDE DEF Settles
<1>2. PICK stack, failed, unread, decision, cut, refused, lost :
        /\ stack \in deleteRecordedStack /\ lost \in SUBSET refused
        /\ decision = JudgedResources(stack[2], failed, unread)
        /\ cut \in SUBSET DOMAIN decision /\ refused \in SUBSET (directlyDeletable(decision) \ cut)
        /\ Settles(stack, failed, unread, decision, cut, refused, lost)
  BY <1>1, Zenon
<1> QED
  BY <1>2, Zenon DEF Settles, Deletes

\* What step 9 judges: what the surfaces show, and a stack without a recorded id.
LEMMA JudgedResourcesFacts ==
  ASSUME NEW w, NEW failed, NEW unread
  PROVE  LET decision == JudgedResources(w, failed, unread)
             shown == sweepSurfaces(w, failed, unread)
         IN  /\ shown \subseteq DOMAIN decision /\ DOMAIN decision \subseteq shown \cup {Stack}
             /\ \A r \in DOMAIN decision \ {Stack} : decision[r] = Decision(w, r, failed, unread)
             /\ \A r \in DOMAIN decision : decision[r] \in Decisions
             /\ ~ recorded_stack_id /\ w.stack # "gone" /\ failed = {} =>
                  Stack \in DOMAIN decision /\ decision[Stack] \in DirectlyDeletable
<1> DEFINE decision == JudgedResources(w, failed, unread)
           shown == sweepSurfaces(w, failed, unread)
           stacks == JudgedStack(w, failed)
<1>1. stacks \subseteq {Stack} /\ (~ recorded_stack_id /\ w.stack # "gone" /\ failed = {} => stacks = {Stack})
  BY Zenon DEF JudgedStack
<1>2. decision = [r \in shown \cup stacks |-> IF r \in stacks THEN "tags_name_type_created_after_freeze"
                                              ELSE Decision(w, r, failed, unread)]
  BY Zenon DEF JudgedResources
<1>3. \A r \in shown : Decision(w, r, failed, unread) \in Decisions
  BY DecisionFacts, Zenon
<1>4. "tags_name_type_created_after_freeze" \in DirectlyDeletable /\ DirectlyDeletable \subseteq Decisions
  BY Zenon DEF DirectlyDeletable, Decisions, Owned
<1> HIDE DEF decision, shown, stacks
<1>5. /\ shown \subseteq DOMAIN decision /\ DOMAIN decision \subseteq shown \cup {Stack}
      /\ \A r \in DOMAIN decision \ {Stack} : decision[r] = Decision(w, r, failed, unread)
  BY <1>1, <1>2, Zenon
<1>6. \A r \in DOMAIN decision : decision[r] \in Decisions
  BY <1>2, <1>3, <1>4, Zenon
<1>7. ~ recorded_stack_id /\ w.stack # "gone" /\ failed = {} =>
        Stack \in DOMAIN decision /\ decision[Stack] \in DirectlyDeletable
  BY <1>1, <1>2, <1>4, Zenon
<1> QED
  BY <1>5, <1>6, <1>7, Zenon DEF decision, shown

\* Step 9 removes the execution's resources only, and succeeds only when the stack is
\* gone and it names every resource of the execution that it leaves.
LEMMA DeleteResourcesPreserves ==
  ASSUME CleanupInv, deleteOwnedResources
  PROVE  CleanupInv'
<1>1. /\ At(9)
      /\ UNCHANGED << setting, profile, provisioned, passes, audit, closure, witness >>
  BY Zenon DEF deleteOwnedResources
<1>2. PICK stack, failed, unread, decision, cut, refused, lost :
        Deletes(stack, failed, unread, decision, cut, refused, lost)
  BY DeletionChoices, Zenon
<1> DEFINE w == stack[2]
           shown == sweepSurfaces(w, failed, unread)
           answered == queriesAnswered(w, failed, unread)
           judged == DOMAIN decision
           Action(r) == settleRemainingResource(r, decision[r], refused)
           settled == {Item(Action(r), r) : r \in judged \ cut}
           vanished == recordVanishedFailures(judged, answered /\ cut = {})
           items == stack[1] \cup settled \cup vanished
           deleted == directlyDeletable(decision) \ (cut \cup refused)
           failing == ~ answered \/ cut # {} \/ \E i \in items : i.action = "DELETE_FAILED"
<1>3. /\ world' = [w EXCEPT !.there = @ \ (deleted \cup lost)]
      /\ removed' = removed \cup Others(world.there \ world'.there)
      /\ leftover' = Unnamed(world', items)
      /\ recordStep(9, items, outcomeFromFailures(failing))
  BY <1>2, Zenon DEF Deletes, settleResources
<1>4. CleanupInv /\ AccountInv /\ world \in Worlds
  BY Zenon DEF CleanupInv, AccountInv
<1>5. StackEnds(stack[1], w)
  BY <1>2, <1>4, StackFacts, Zenon DEF Deletes
<1>6. /\ shown \subseteq judged /\ judged \subseteq shown \cup {Stack}
      /\ \A r \in judged \ {Stack} : decision[r] = Decision(w, r, failed, unread)
      /\ \A r \in judged : decision[r] \in Decisions
      /\ ~ recorded_stack_id /\ w.stack # "gone" /\ failed = {} => Stack \in judged /\ decision[Stack] \in DirectlyDeletable
  <2>1. decision = JudgedResources(w, failed, unread)
    BY <1>2, Zenon DEF Deletes
  <2> HIDE DEF w
  <2> QED
    BY <2>1, JudgedResourcesFacts, Zenon
<1>7. \A r \in judged \ {Stack} :
        /\ r \in DOMAIN profile
        /\ (decision[r] = "excluded_baseline" => profile[r].baseline)
        /\ (decision[r] \in DirectlyDeletable => ~ profile[r].baseline /\ profile[r].tags \in {"run", "ids"})
  <2>1. \A r \in judged \ {Stack} : r \in shown
    BY <1>6, Zenon
  <2>2. \A r \in shown : r \in DOMAIN profile
    BY Zenon DEF sweepSurfaces
  <2> QED
    BY <1>6, <2>1, <2>2, DecisionFacts
<1>8. \A r \in deleted \cup lost : profile[r].ours
  <2>1. \A r \in deleted \cup lost : r \in judged \ {Stack} /\ decision[r] \in DirectlyDeletable
    BY <1>2, Zenon DEF Deletes, directlyDeletable
  <2> QED
    BY <1>4, <1>7, <2>1, ProfileFacts, Zenon
<1>9. answered => failed = {} /\ \A r \in w.there : profile[r].ours => r \in judged
  <2>1. w.there \subseteq DOMAIN profile /\ Retaining(w)
    BY <1>5, Zenon DEF StackEnds, Worlds
  <2> QED
    BY <1>4, <1>6, <2>1, AllIsSeen, Zenon
<1>10. failing \in BOOLEAN
  BY Zenon DEF failing
<1>11. \A r \in judged \ cut : Item(Action(r), r) \in items
  BY Zenon
<1>12. CapturesHeld(items)
  <2>1. ASSUME NEW r, NEW d PROVE settleRemainingResource(r, d, refused) # "CAPTURED"
    BY Zenon DEF settleRemainingResource
  <2>2. \A i \in settled : i.action # "CAPTURED"
    BY <2>1 DEF Item
  <2>3. \A i \in vanished : i.action # "CAPTURED"
    BY DEF recordVanishedFailures, Item
  <2>4. \A i \in stack[1] : i.action # "CAPTURED"
    BY <1>5 DEF StackEnds
  <2> HIDE DEF settled, vanished
  <2> QED
    BY <2>2, <2>3, <2>4, Zenon DEF CapturesHeld
<1> HIDE DEF w, shown, answered, judged, deleted, settled, vanished
<1>a. stack[1] \subseteq items
  BY Zenon
<1> HIDE DEF items
<1>13. /\ world' \in Worlds /\ world'.there = w.there \ (deleted \cup lost)
       /\ world'.stack = w.stack /\ world'.dlq = w.dlq /\ world'.lettered = w.lettered
  BY <1>3, <1>5, Zenon DEF StackEnds, Worlds
<1>14. removed' = {}
  <2>1. \A r \in world.there \ world'.there : r \in world.there \ w.there \/ r \in deleted \cup lost
    BY <1>13, Zenon
  <2>2. \A r \in world.there \ w.there : profile[r].ours
    BY <1>5, Zenon DEF StackEnds, Others
  <2>3. Others(world.there \ world'.there) = {}
    BY <1>8, <2>1, <2>2, Zenon DEF Others
  <2> QED
    BY <1>3, <2>3, Zenon DEF CleanupInv, OnlyOwnIsRemoved
<1>15. ~ failing => leftover' = {}
  <2> SUFFICES ASSUME ~ failing PROVE leftover' = {}
    OBVIOUS
  <2>1. answered /\ cut = {} /\ \A i \in items : i.action # "DELETE_FAILED"
    BY Zenon
  <2>2. ASSUME NEW r \in judged
        PROVE  Action(r) # "DELETE_FAILED" /\ \E i \in items : i.id = r /\ i.action = Action(r)
    <3>1. Item(Action(r), r) \in items
      BY <1>11, <2>1, Zenon
    <3>2. Item(Action(r), r).action = Action(r) /\ Item(Action(r), r).id = r
      BY Zenon DEF Item
    <3> QED
      BY <2>1, <3>1, <3>2, Zenon
  <2>3. w.stack = "gone"
    <3>1. CASE recorded_stack_id
      BY <1>5, <1>a, <2>1, <3>1, Zenon DEF StackEnds
    <3>2. CASE ~ recorded_stack_id
      <4>1. SUFFICES ASSUME w.stack # "gone" PROVE FALSE
        BY Zenon
      <4>2. Stack \in judged /\ decision[Stack] \in DirectlyDeletable
        BY <1>6, <1>9, <2>1, <3>2, <4>1, Zenon
      <4>3. Action(Stack) = "DELETE_FAILED"
        BY <4>2 DEF settleRemainingResource, DirectlyDeletable
      <4> QED
        BY <2>2, <4>2, <4>3, Zenon
    <3> QED
      BY <3>1, <3>2, Zenon
  <2>4. ASSUME NEW r \in world'.there, profile[r].ours
        PROVE  \E i \in items : i.id = r /\ i.action = "SKIPPED_AMBIGUOUS"
    <3>1. r \in judged /\ r \notin deleted
      BY <1>9, <1>13, <2>1, <2>4, Zenon
    <3>2. ~ (r # Stack /\ decision[r] \in DirectlyDeletable /\ r \notin refused)
      BY <2>1, <3>1, Zenon DEF deleted, judged, directlyDeletable
    <3>3. decision[r] = "excluded_baseline" \/ Action(r) = "SKIPPED_AMBIGUOUS"
      <4>1. decision[r] \in Decisions /\ settleRemainingResource(r, decision[r], refused) # "DELETE_FAILED"
        BY <1>6, <2>2, <3>1, Zenon
      <4> QED
        BY <3>2, <4>1, SettledFacts
    <3>4. decision[r] # "excluded_baseline"
      <4>1. r \in DOMAIN profile /\ ~ profile[r].baseline
        <5>1. r \in DOMAIN profile
          BY <1>5, <1>13, Zenon DEF StackEnds, Worlds
        <5> QED
          BY <1>4, <2>4, <5>1, ProfileFacts, Zenon
      <4>2. r # Stack
        BY <1>4, <4>1, SettingsAssumption, Zenon DEF AccountInv
      <4> QED
        BY <1>7, <3>1, <4>1, <4>2, Zenon
    <3> QED
      BY <2>2, <3>1, <3>3, <3>4, Zenon
  <2>5. Unnamed(world', items) = {}
    BY <1>13, <2>3, <2>4, Zenon DEF Unnamed
  <2> QED
    BY <1>3, <2>5, Zenon
<1> DEFINE status == outcomeFromFailures(failing)
<1>16. status \in StepStatuses /\ (status = "succeeded" => leftover' = {})
  BY <1>10, <1>15, OutcomeFacts, ZenonT(30)
<1> HIDE DEF status, failing
<1>17. recordStep(9, items, status)
  BY <1>3, Zenon DEF status
<1>18. /\ RunInv' /\ DeletionInv' /\ AuditInv'
       /\ identifiersOf(mem, "CAPTURED")' \subseteq Held' /\ identifiersOf(journal, "CAPTURED")' \subseteq Held'
  BY <1>1, <1>4, <1>12, <1>16, <1>17, DeletionKeeps, Zenon
<1>19. AccountInv'
  <2>1. Retaining(w)
    BY <1>5, Zenon DEF StackEnds
  <2> QED
    BY <1>1, <1>4, <1>13, <2>1, Zenon DEF AccountInv, Worlds, Retaining
<1>20. CapturedBeforeDeleted'
  BY <1>1, <1>4, <1>5, <1>13, Zenon DEF StackEnds, CleanupInv, MessageInv, CapturedBeforeDeleted
<1> QED
  BY <1>14, <1>18, <1>19, <1>20, Zenon DEF CleanupInv, MessageInv, OnlyOwnIsRemoved

\* Step 9, when a port throws before the stack's deletion is recorded.
LEMMA AbandonDeletionPreserves ==
  ASSUME CleanupInv, AbandonDeletion
  PROVE  CleanupInv'
<1>1. /\ At(9) /\ world' \in StackStays /\ recordStep(9, {}, "failed")
      /\ UNCHANGED << setting, profile, provisioned, passes, audit, closure, removed, witness >>
  BY Zenon DEF AbandonDeletion
<1>2. AccountInv /\ OnlyOwnIsRemoved /\ CapturedBeforeDeleted
  BY Zenon DEF CleanupInv, MessageInv
<1>3. /\ world' \in Worlds /\ world'.there = world.there
      /\ world'.stack # "gone" => world.stack # "gone"
      /\ world'.dlq = world.dlq /\ world'.lettered = world.lettered
      /\ world'.stack = "gone" => \A r \in world'.there : profile[r].stacked => profile[r].retained
  BY <1>1, <1>2, StaysFacts, Zenon DEF Retaining
<1>4. "failed" \in StepStatuses /\ "failed" # "succeeded" /\ CapturesHeld({})
  BY DEF StepStatuses, CapturesHeld
<1>5. /\ RunInv' /\ DeletionInv' /\ AuditInv'
      /\ identifiersOf(mem, "CAPTURED")' \subseteq Held' /\ identifiersOf(journal, "CAPTURED")' \subseteq Held'
  BY <1>1, <1>4, DeletionKeeps, Zenon
<1>6. AccountInv'
  BY <1>1, <1>2, <1>3, Zenon DEF AccountInv, Worlds, Retaining
<1>7. CapturedBeforeDeleted' /\ OnlyOwnIsRemoved'
  BY <1>1, <1>2, <1>3, Zenon DEF CapturedBeforeDeleted, OnlyOwnIsRemoved
<1> QED
  BY <1>5, <1>6, <1>7, Zenon DEF CleanupInv, MessageInv
-----------------------------------------------------------------------------
(* The audit and the freeze. *)

\* A pass that found nothing saw an account without the execution's resources.
LEMMA PassFacts ==
  ASSUME CleanupInv, NEW failed, NEW unread, FoundNothing(auditPass(failed, unread))
  PROVE  ~ OursIsThere
<1> DEFINE judged == sweepSurfaces(world, failed, unread)
           kind(r) == Decision(world, r, failed, unread)
           pass == auditPass(failed, unread)
<1>1. /\ pass.ok = queriesAnswered(world, failed, unread)
      /\ {r \in judged : kind(r) \in Owned} \subseteq pass.owned
      /\ (world.stack # "gone" /\ "stack" \notin failed => Stack \in pass.owned)
      /\ pass.ambiguous = {r \in judged : kind(r) = "ambiguous"}
  BY Zenon DEF auditPass
<1> HIDE DEF pass
<1>2. /\ queriesAnswered(world, failed, unread)
      /\ (\A r \in judged : kind(r) \notin Owned /\ kind(r) # "ambiguous")
      /\ (world.stack = "gone" \/ "stack" \in failed)
  BY <1>1, Zenon DEF FoundNothing, pass
<1>3. AccountInv /\ world.there \subseteq DOMAIN profile /\ Retaining(world)
  BY Zenon DEF CleanupInv, AccountInv, Worlds, Retaining
<1>4. failed = {} /\ \A r \in world.there : profile[r].ours => r \in judged
  BY <1>2, <1>3, AllIsSeen, Zenon
<1>5. \A r \in judged : kind(r) \in Decisions /\ (kind(r) = "excluded_baseline" => profile[r].baseline)
  BY DecisionFacts, Zenon
<1> HIDE DEF judged, kind
<1>6. \A r \in world.there : profile[r].ours => profile[r].baseline
  BY <1>2, <1>4, <1>5, Zenon DEF Decisions
<1>7. \A r \in world.there : ~ profile[r].ours
  BY <1>3, <1>6, ProfileFacts, Zenon
<1> QED
  BY <1>2, <1>4, <1>7, Zenon DEF OursIsThere

\* The first pass.
LEMMA FirstPassPreserves ==
  ASSUME CleanupInv, FirstPass
  PROVE  CleanupInv'
<1>1. PICK failed, unread : passes' = << auditPass(failed, unread) >>
  BY Zenon DEF FirstPass
<1>2. /\ At(10) /\ witness' = OursIsThere
      /\ UNCHANGED << setting, profile, provisioned, world, run, mem, journal, audit, closure, removed, leftover >>
  BY Zenon DEF FirstPass
<1>3. FoundNothing(auditPass(failed, unread)) => ~ witness'
  BY <1>2, PassFacts, Zenon
<1>4. run.at \in 1 .. 12 /\ cleanupStepOrder(run.mode)[run.at] = 10
  BY <1>2 DEF At, CleanupInv, RunInv, Runs, Finished
<1>5. run.at = 10
  BY <1>4, OrderFacts
<1>6. AuditInv'
  <2>1. audit = "inconclusive" /\ closure = "none"
    BY <1>5 DEF CleanupInv, AuditInv, Finished
  <2>2. passes' = << >> \/ \E pass : passes' = << pass >> /\ (FoundNothing(pass) => ~ witness')
    BY <1>1, <1>3, Zenon
  <2> QED
    BY <1>2, <2>1, <2>2, Zenon DEF AuditInv, FoundNothing
<1>7. AccountInv' /\ RunInv' /\ DeletionInv' /\ MessageInv' /\ OnlyOwnIsRemoved'
  BY <1>2, Zenon DEF CleanupInv, AccountInv, Worlds, Retaining, RunInv, DeletionInv, MessageInv, Held, identifiersOf,
              CapturedBeforeDeleted, OnlyOwnIsRemoved
<1> QED
  BY <1>6, <1>7, Zenon DEF CleanupInv

\* The end of the audit, when its result is true.
LEMMA EndKeeps ==
  ASSUME CleanupInv, At(10), NEW all, EndAudit(all), deriveLeakAuditStatus(all) = "clean" => ~ witness'
  PROVE  CleanupInv'
<1>1. /\ passes' = << >> /\ audit' = deriveLeakAuditStatus(all) /\ recordStep(10, {}, auditOutcome(all))
      /\ UNCHANGED << setting, profile, provisioned, world, closure, removed, leftover >>
  BY Zenon DEF EndAudit
<1>2. 10 \in Steps \ {9, 12} /\ 10 \in Steps /\ auditOutcome(all) \in StepStatuses /\ CapturesHeld({})
  BY DEF Steps, auditOutcome, outcomeFromFailures, StepStatuses, CapturesHeld
<1>3. /\ RunInv' /\ DeletionInv'
      /\ identifiersOf(mem, "CAPTURED")' \subseteq Held' /\ identifiersOf(journal, "CAPTURED")' \subseteq Held'
  BY <1>1, <1>2, StepKeeps, Zenon
<1>4. run.at \in 1 .. 11 /\ run'.at \in run.at + 1 .. 12 /\ cleanupStepOrder(run.mode)[run.at] = 10
  BY <1>1, <1>2, RecordedFacts, Zenon DEF At
<1>5. run.at = 10
  BY <1>4, OrderFacts
<1>6. AuditInv'
  BY <1>1, <1>4, <1>5 DEF CleanupInv, AuditInv, Finished
<1>7. AccountInv' /\ CapturedBeforeDeleted' /\ OnlyOwnIsRemoved'
  BY <1>1, Zenon DEF CleanupInv, AccountInv, Worlds, Retaining, MessageInv, CapturedBeforeDeleted, OnlyOwnIsRemoved
<1> QED
  BY <1>3, <1>6, <1>7, Zenon DEF CleanupInv, MessageInv

\* A second pass after one.
LEMMA AppendedPair ==
  ASSUME NEW p, NEW q
  PROVE  LET s == Append(<< p >>, q) IN Len(s) = 2 /\ DOMAIN s = 1 .. 2 /\ s[1] = p /\ s[2] = q
<1>1. Append(<< p >>, q)[1] = p
  OBVIOUS
<1>2. Append(<< p >>, q)[2] = q
  OBVIOUS
<1>3. Len(Append(<< p >>, q)) = 2 /\ DOMAIN Append(<< p >>, q) = 1 .. 2
  OBVIOUS
<1> QED
  BY <1>1, <1>2, <1>3, Zenon

\* The second pass: a clean result needs two passes that found nothing.
LEMMA SecondPassPreserves ==
  ASSUME CleanupInv, SecondPass
  PROVE  CleanupInv'
<1>1. PICK failed, unread : EndAudit(Append(passes, auditPass(failed, unread)))
  BY Zenon DEF SecondPass
<1>2. At(10) /\ passes # << >> /\ witness' = (witness \/ OursIsThere)
  BY Zenon DEF SecondPass
<1>3. PICK pass : passes = << pass >> /\ (FoundNothing(pass) => ~ witness)
  BY <1>2, Zenon DEF CleanupInv, AuditInv
<1> DEFINE last == auditPass(failed, unread)
           all == Append(passes, last)
<1>4. FoundNothing(last) => ~ OursIsThere
  BY PassFacts, Zenon
<1> HIDE DEF last
<1>5. Len(all) = 2 /\ DOMAIN all = 1 .. 2 /\ all[1] = pass /\ all[2] = last
  BY <1>3, AppendedPair, Zenon
<1> HIDE DEF all
<1>7. deriveLeakAuditStatus(all) = "clean" => FoundNothing(pass) /\ FoundNothing(last)
  BY <1>5 DEF deriveLeakAuditStatus, FoundNothing
<1>8. deriveLeakAuditStatus(all) = "clean" => ~ witness'
  BY <1>2, <1>3, <1>4, <1>7, Zenon
<1>9. EndAudit(all)
  BY <1>1, Zenon DEF all, last
<1> QED
  BY <1>2, <1>8, <1>9, EndKeeps, Zenon

\* An audit cut short is never clean.
LEMMA AbandonPreserves ==
  ASSUME CleanupInv, AbandonAudit
  PROVE  CleanupInv'
<1>1. PICK all \in {passes, << >>} : EndAudit(all)
  BY Zenon DEF AbandonAudit
<1>2. Len(all) < 2
  <2>1. all = << >> \/ \E pass : all = << pass >>
    BY <1>1, Zenon DEF CleanupInv, AuditInv
  <2> QED
    BY <2>1
<1>3. deriveLeakAuditStatus(all) # "clean"
  BY <1>2, Zenon DEF deriveLeakAuditStatus
<1> QED
  BY <1>1, <1>3, EndKeeps, Zenon DEF AbandonAudit

\* Step 11 reads the audit.
LEMMA StablePreserves ==
  ASSUME CleanupInv, stableAbsenceOutcome
  PROVE  CleanupInv'
<1> DEFINE status == outcomeFromFailures(audit # "clean")
<1>1. /\ At(11) /\ recordStep(11, {}, status)
      /\ UNCHANGED << setting, profile, provisioned, world, passes, audit, closure, removed, witness, leftover >>
  BY Zenon DEF stableAbsenceOutcome, ghosts
<1>2. 11 \in Steps \ {9, 10, 12} /\ status \in StepStatuses /\ CapturesHeld({})
  BY DEF Steps, outcomeFromFailures, StepStatuses, CapturesHeld
<1> HIDE DEF status
<1>3. world' \in Worlds
  BY <1>1, Zenon DEF CleanupInv, AccountInv
<1>4. /\ world'.stack = world.stack /\ world'.lettered = world.lettered /\ world.dlq \ world'.dlq \subseteq Held
      /\ UNCHANGED << setting, profile, provisioned, passes, audit, closure, removed, witness, leftover >>
  BY <1>1, Zenon
<1> QED
  BY <1>1, <1>2, <1>3, <1>4, PlainStep, Zenon
\* Step 12 ends the run, and closes clean only on a clean audit.
LEMMA FreezePreserves ==
  ASSUME CleanupInv, freeze
  PROVE  CleanupInv'
<1>1. /\ At(12) /\ run' = [run EXCEPT !.at = Finished, !.writing = FALSE]
      /\ UNCHANGED << setting, profile, provisioned, world, passes, audit, removed, witness, leftover >>
  BY Zenon DEF freeze, ghosts
<1>2. PICK frozen \in BOOLEAN :
        /\ mem' = foldCleanupActions(mem, 12, {}, outcomeFromFailures(~ frozen))
        /\ \E j \in JournalsAfter(12, {}, outcomeFromFailures(~ frozen)) : journal' = j[1]
        /\ closure' \in {"clean", "unclean"} /\ (closure' = "clean" => audit = "clean")
  BY Zenon DEF freeze
<1> DEFINE status == outcomeFromFailures(~ frozen)
<1>3. 12 \in Steps /\ 9 \in Steps \ {12} /\ status \in StepStatuses
  BY DEF Steps, outcomeFromFailures, StepStatuses
<1>4. /\ run \in Runs /\ run.at < Finished
      /\ mem.status \in [Steps -> StepStatuses] /\ journal.status \in [Steps -> StepStatuses]
  BY <1>1, Zenon DEF At, CleanupInv, RunInv
<1>5. run' \in Runs /\ run'.at = Finished /\ run'.count = run.count /\ run.count # 0
  <2>1. Finished \in 1 .. Finished
    BY DEF Finished
  <2>2. run.count # 0
    BY <1>4 DEF CleanupInv, RunInv, Finished
  <2> QED
    BY <1>1, <1>4, <2>1, <2>2, Zenon DEF Runs
<1>6. PICK j \in JournalsAfter(12, {}, status) : journal' = j[1]
  BY <1>2, Zenon
<1> HIDE DEF status
<1>7. Folded(mem', mem, 12, {}, status)
  BY <1>2, <1>3, <1>4, FoldFacts, Zenon DEF status
<1>8. /\ journal'.status \in [Steps -> StepStatuses] /\ journal'.items \subseteq journal.items \cup {}
      /\ \A s \in Steps \ {12} : journal'.status[s] = journal.status[s]
  BY <1>3, <1>4, <1>6, JournalFacts
<1>9. RunInv'
  BY <1>5, <1>7, <1>8 DEF RunInv, Folded, Finished
<1>10. DeletionInv'
  <2>1. mem'.status[9] = mem.status[9] /\ journal'.status[9] = journal.status[9]
    BY <1>3, <1>7, <1>8, Zenon DEF Folded
  <2> QED
    BY <1>1, <1>5, <2>1 DEF CleanupInv, DeletionInv, Finished
<1>11. MessageInv'
  <2>1. CapturedOf(mem', mem, {}, Held) /\ CapturedOf(journal', journal, {}, Held)
    BY <1>7, <1>8, Zenon DEF Folded, CleanupInv, MessageInv, CapturedOf
  <2>2. identifiersOf(mem', "CAPTURED") \subseteq Held /\ identifiersOf(journal', "CAPTURED") \subseteq Held
    BY <2>1, FoldCaptured, Zenon
  <2> QED
    BY <1>1, <2>2, Zenon DEF CleanupInv, MessageInv, Held, identifiersOf, CapturedBeforeDeleted
<1>12. AuditInv'
  BY <1>1, <1>2, <1>5 DEF CleanupInv, AuditInv, FoundNothing, Finished
<1>13. AccountInv' /\ OnlyOwnIsRemoved'
  BY <1>1, Zenon DEF CleanupInv, AccountInv, Worlds, Retaining, OnlyOwnIsRemoved
<1> QED
  BY <1>9, <1>10, <1>11, <1>12, <1>13, Zenon DEF CleanupInv

-----------------------------------------------------------------------------
(* The runs, and the account. *)

\* Every run starts from what the journal holds.
LEMMA StartKeeps ==
  ASSUME CleanupInv, NEW mode \in {"NORMAL", "EMERGENCY"}, NEW original \in BOOLEAN, StartRun(mode, journal, original)
  PROVE  CleanupInv'
<1> DEFINE next == NextStep(mode, 1, journal)
<1>1. /\ mem' = journal /\ passes' = << >> /\ audit' = "inconclusive" /\ closure' = "none" /\ witness' = FALSE
      /\ run' = [mode |-> mode, at |-> next, original |-> original, writing |-> original, count |-> run.count + 1]
      /\ UNCHANGED << setting, profile, provisioned, world, journal, removed, leftover >>
  BY Zenon DEF StartRun
<1>2. next \in 1 .. 12 /\ mustRunStep(cleanupStepOrder(mode)[next], succeededSteps(journal))
  BY NextStepFacts
<1> HIDE DEF next
<1>3. run.count \in Nat
  BY Zenon DEF CleanupInv, RunInv, Runs
<1>4. next \in 1 .. Finished /\ run.count + 1 \in Nat \ {0}
  BY <1>2, <1>3 DEF Finished
<1>5. run' \in Runs /\ run'.mode = mode /\ run'.at = next /\ run'.count # 0
  BY <1>1, <1>4, Zenon DEF Runs
<1>6. RunInv' /\ DeletionInv'
  BY <1>1, <1>2, <1>5, Zenon DEF CleanupInv, RunInv, DeletionInv
<1>7. MessageInv'
  BY <1>1, Zenon DEF CleanupInv, MessageInv, Held, identifiersOf, CapturedBeforeDeleted
<1>8. AuditInv'
  BY <1>1, Zenon DEF AuditInv
<1>9. AccountInv' /\ OnlyOwnIsRemoved'
  BY <1>1, Zenon DEF CleanupInv, AccountInv, Worlds, Retaining, OnlyOwnIsRemoved
<1> QED
  BY <1>6, <1>7, <1>8, <1>9, Zenon DEF CleanupInv

\* The runner's cleanups and the recoveries start so.
LEMMA RunsPreserve ==
  ASSUME CleanupInv, runNormal \/ runEmergency \/ recoverExecution
  PROVE  CleanupInv'
<1>1. run.count = 0 => journal = EmptyFold
  BY Zenon DEF CleanupInv, RunInv
<1>2. TRUE \in BOOLEAN /\ FALSE \in BOOLEAN
  BY Zenon
<1>3. CASE runNormal
  <2>1. StartRun("NORMAL", journal, TRUE)
    BY <1>1, <1>3, Zenon DEF runNormal
  <2> QED
    BY <1>2, <2>1, StartKeeps, Zenon
<1>4. CASE runEmergency
  <2>1. StartRun("EMERGENCY", journal, TRUE)
    BY <1>1, <1>4, Zenon DEF runEmergency
  <2> QED
    BY <1>2, <2>1, StartKeeps, Zenon
<1>5. CASE recoverExecution
  BY <1>2, <1>5, StartKeeps, ZenonT(30) DEF recoverExecution
<1> QED
  BY <1>3, <1>4, <1>5, Zenon

\* A recovery that dies leaves no record.
LEMMA CrashPreserves ==
  ASSUME CleanupInv, CrashRecovery
  PROVE  CleanupInv'
<1>1. /\ run.at < Finished /\ run' = [run EXCEPT !.at = Finished]
      /\ UNCHANGED << setting, profile, provisioned, world, mem, journal, passes, audit, closure, removed,
                      witness, leftover >>
  BY Zenon DEF CrashRecovery, ghosts
<1>2. run' \in Runs /\ run'.at = Finished /\ run'.count = run.count
  <2>1. Finished \in 1 .. Finished /\ run \in Runs
    BY DEF Finished, CleanupInv, RunInv
  <2> QED
    BY <1>1, <2>1, Zenon DEF Runs
<1>3. RunInv' /\ DeletionInv' /\ AuditInv'
  BY <1>1, <1>2 DEF CleanupInv, RunInv, DeletionInv, AuditInv, FoundNothing, Finished
<1>4. AccountInv' /\ MessageInv' /\ OnlyOwnIsRemoved'
  BY <1>1, Zenon DEF CleanupInv, AccountInv, Worlds, Retaining, MessageInv, Held, identifiersOf, CapturedBeforeDeleted, OnlyOwnIsRemoved
<1> QED
  BY <1>3, <1>4, Zenon DEF CleanupInv

\* A step of the account alone.
LEMMA AccountStep ==
  ASSUME CleanupInv, world' \in Worlds, OnlyOwnIsRemoved', world'.stack # "gone" =>
           world.stack # "gone" /\ world'.lettered \ world'.dlq \subseteq world.lettered \ world.dlq,
         Retaining(world'),
         UNCHANGED << setting, profile, provisioned, run, mem, journal, passes, audit, closure, witness, leftover >>
  PROVE  CleanupInv'
<1>1. RunInv' /\ DeletionInv' /\ AuditInv'
  BY Zenon DEF CleanupInv, RunInv, DeletionInv, AuditInv, FoundNothing
<1>2. AccountInv' /\ MessageInv'
  BY Zenon DEF CleanupInv, AccountInv, Worlds, Retaining, MessageInv, Held, identifiersOf, CapturedBeforeDeleted
<1> QED
  BY <1>1, <1>2, Zenon DEF CleanupInv
\* What the account does beside cleanup takes no message from a queue.
LEMMA AccountEventPreserves ==
  ASSUME CleanupInv, AccountEvent
  PROVE  CleanupInv'
<1>1. /\ Consume \/ WorkEnds \/ Straggle \/ DeadLetter
      /\ UNCHANGED << setting, profile, provisioned, run, mem, journal, passes, audit, closure, removed, witness, leftover >>
  BY Zenon DEF AccountEvent, ghosts
<1>2. world \in Worlds /\ setting \in DOMAIN Settings /\ Retaining(world)
  BY Zenon DEF CleanupInv, AccountInv
<1> DEFINE Fine == /\ world' \in Worlds /\ world'.stack = world.stack /\ Retaining(world')
                   /\ world'.lettered \ world'.dlq \subseteq world.lettered \ world.dlq
<1>3. CASE Consume
  <2>1. PICK x \in Settings[setting].work : world' = [world EXCEPT !.busy = @ \cup {x}]
    BY <1>3, Zenon DEF Consume
  <2> QED
    <3>1. Fine
      BY <1>2, <2>1, Zenon DEF Worlds, Retaining
    <3> QED
      BY <1>1, <3>1, AccountStep, Zenon DEF CleanupInv, OnlyOwnIsRemoved
<1>4. CASE WorkEnds
  <2>1. PICK x \in world.busy : world' = [world EXCEPT !.busy = @ \ {x}]
    BY <1>4, Zenon DEF WorkEnds
  <2>2. Fine
    BY <1>2, <2>1, Zenon DEF Worlds, Retaining
  <2> QED
    BY <1>1, <2>2, AccountStep, Zenon DEF CleanupInv, OnlyOwnIsRemoved
<1>5. CASE Straggle
  <2>1. PICK r \in DOMAIN profile : world' = [world EXCEPT !.there = @ \cup {r}] /\ ~ profile[r].stacked
    BY <1>5, Zenon DEF Straggle, Straggler
  <2>2. Fine
    BY <1>2, <2>1, Zenon DEF Worlds, Retaining
  <2> QED
    BY <1>1, <2>2, AccountStep, Zenon DEF CleanupInv, OnlyOwnIsRemoved
<1>6. CASE DeadLetter
  <2>1. PICK m \in Settings[setting].messages :
          world' = [world EXCEPT !.dlq = @ \cup {m}, !.lettered = @ \cup {m}]
    BY <1>6, Zenon DEF DeadLetter
  <2>2. m \in Messages
    BY <1>2, <2>1, SettingsAssumption, Zenon
  <2>3. /\ world' \in Worlds /\ world'.stack = world.stack /\ world'.there = world.there
        /\ world'.dlq = world.dlq \cup {m} /\ world'.lettered = world.lettered \cup {m}
    BY <1>2, <2>1, <2>2, Zenon DEF Worlds
  <2>4. Fine
    BY <1>2, <2>3, Zenon DEF Retaining
  <2> QED
    BY <1>1, <2>4, AccountStep, Zenon DEF CleanupInv, OnlyOwnIsRemoved
<1> QED
  BY <1>1, <1>3, <1>4, <1>5, <1>6, Zenon

\* A stack deleted late takes the execution's resources only.
LEMMA StackVanishesPreserves ==
  ASSUME CleanupInv, StackVanishes
  PROVE  CleanupInv'
<1>1. /\ world' = WithoutStack(world) /\ removed' = removed \cup Others(world.there \ world'.there)
      /\ UNCHANGED << setting, profile, provisioned, run, mem, journal, passes, audit, closure, witness, leftover >>
  BY Zenon DEF StackVanishes
<1>2. world' \in Worlds /\ world'.stack = "gone" /\ Others(world.there \ world'.there) = {} /\ Retaining(world')
  BY <1>1, WithoutStackFacts, Zenon DEF CleanupInv
<1>3. OnlyOwnIsRemoved'
  BY <1>1, <1>2, Zenon DEF CleanupInv, OnlyOwnIsRemoved
<1> QED
  BY <1>1, <1>2, <1>3, AccountStep, Zenon

\* The account before any cleanup.
LEMMA InitEstablishes ==
  ASSUME Init
  PROVE  CleanupInv
<1> DEFINE present == [stack : {"present"},
                       there : {there \in SUBSET DOMAIN profile : \A r \in DOMAIN profile \ there : Straggler(r)},
                       consuming : {TRUE}, busy : SUBSET Settings[setting].work,
                       dlq : {Settings[setting].held}, lettered : {Settings[setting].held}]
<1>1. /\ setting \in DOMAIN Settings /\ profile \in Settings[setting].profiles /\ provisioned \in BOOLEAN
      /\ world \in present \/ \E w \in present : world = WithoutStack(w)
      /\ run = [mode |-> "NORMAL", at |-> Finished, original |-> TRUE, writing |-> FALSE, count |-> 0]
      /\ mem = EmptyFold /\ journal = EmptyFold /\ passes = << >> /\ audit = "inconclusive"
      /\ closure = "none" /\ removed = {} /\ leftover = {}
  BY Zenon DEF Init
<1>2. Settings[setting].held \subseteq Messages
  BY <1>1, SettingsAssumption, Zenon
<1>3. world \in Worlds /\ (world.stack # "gone" => world.dlq = world.lettered) /\ Retaining(world)
  <2>1. ASSUME NEW w \in present
        PROVE  w \in Worlds /\ w.dlq = w.lettered /\ w.stack = "present"
    BY <1>2, Zenon DEF Worlds
  <2>2. CASE world \in present
    BY <2>1, <2>2 DEF Retaining
  <2>3. CASE \E w \in present : world = WithoutStack(w)
    <3>1. PICK w \in present : world = WithoutStack(w)
      BY <2>3, Zenon
    <3>2. w \in Worlds
      BY <2>1, Zenon
    <3>3. /\ world \in Worlds /\ world.stack = "gone"
          /\ world.there = {r \in w.there : ~ profile[r].stacked \/ profile[r].retained}
      BY <3>1, <3>2, Zenon DEF WithoutStack, Worlds
    <3> QED
      BY <3>3, Zenon DEF Retaining
  <2> QED
    BY <1>1, <2>2, <2>3, Zenon
<1> HIDE DEF present
<1>4. EmptyFold.status = [s \in Steps |-> "none"] /\ EmptyFold.items = {}
  BY Zenon DEF EmptyFold
<1>5. RunInv
  <2>1. Finished \in 1 .. Finished /\ 0 \in Nat
    BY DEF Finished
  <2>2. run \in Runs /\ run.at = Finished
    BY <1>1, <2>1, Zenon DEF Runs
  <2>3. mem.status \in [Steps -> StepStatuses] /\ journal.status \in [Steps -> StepStatuses]
    BY <1>1, <1>4, Zenon DEF StepStatuses
  <2> QED
    BY <1>1, <2>2, <2>3 DEF RunInv, Finished
<1>6. DeletionInv
  BY <1>1, <1>4, Zenon DEF DeletionInv, Steps
<1>7. MessageInv
  BY <1>1, <1>3, <1>4, Zenon DEF MessageInv, identifiersOf, CapturedBeforeDeleted
<1>8. AuditInv
  BY <1>1, Zenon DEF AuditInv
<1> QED
  BY <1>1, <1>3, <1>5, <1>6, <1>7, <1>8, Zenon DEF CleanupInv, AccountInv, OnlyOwnIsRemoved

\* Every step of a cleanup, of a recovery and of the account.
LEMMA NextPreserves ==
  ASSUME CleanupInv, [Next]_vars
  PROVE  CleanupInv'
<1>1. CASE Next
  BY <1>1, RunsPreserve, CrashPreserves, AccountEventPreserves, StackVanishesPreserves, EvidencePreserves,
     DisablePreserves, ReleasePreserves, InducedPreserves, CapturePreserves, DeleteMessagesPreserves,
     DeleteResourcesPreserves, AbandonDeletionPreserves, FirstPassPreserves, SecondPassPreserves, AbandonPreserves, StablePreserves,
     FreezePreserves, Zenon
  DEF Next, StepAction
<1>2. CASE UNCHANGED vars
  <2>1. UNCHANGED << setting, profile, provisioned, world, run, mem, journal, passes, audit, closure, removed,
                     witness, leftover >>
    BY <1>2, Zenon DEF vars
  <2>2. world' \in Worlds /\ OnlyOwnIsRemoved' /\ Retaining(world')
    BY <2>1, Zenon DEF CleanupInv, AccountInv, OnlyOwnIsRemoved, Retaining
  <2> QED
    BY <2>1, <2>2, AccountStep, Zenon
<1> QED
  BY <1>1, <1>2, Zenon

-----------------------------------------------------------------------------
(* The records of deletions and of induced transitions. *)

\* While the journal takes records it holds what the memory of the run holds, and
\* a record that the deletion succeeded leaves no deletion failure standing.
FailureInv ==
  /\ run.writing => journal = mem
  /\ mem.status[9] = "succeeded" => earlierDeleteFailures(mem) = {}
  /\ journal.status[9] = "succeeded" => earlierDeleteFailures(journal) = {}

\* Only what cleanup caused is recorded as applied or induced; the runner's own
\* cleanup has step 6 before it, or has recorded what it applied.
TransitionInv ==
  /\ mem.items \subseteq Items /\ journal.items \subseteq Items
  /\ \A a \in {"APPLIED", "INDUCED"} : identifiersOf(mem, a) \subseteq caused /\ identifiersOf(journal, a) \subseteq caused
  /\ run.original =>
       IF run.at <= 6 THEN mem.status[6] # "succeeded"
                      ELSE identifiersOf(mem, "APPLIED") \subseteq identifiersOf(mem, "INDUCED")

RecordInv == CleanupInv /\ FailureInv /\ TransitionInv

\* What the items of a step are, and what they say of the failures before it.
Fitting(step, items, status) ==
  /\ step # 9 \/ status = "succeeded" => \A i \in items : i.action # "DELETE_FAILED"
  /\ step = 9 /\ status = "succeeded" => \A r \in earlierDeleteFailures(mem) : \E i \in items : i.id = r
  /\ \A i \in items : /\ (i.action = "APPLIED" => step = 5 /\ i.id \in caused')
                      /\ (i.action = "INDUCED" => i.id \in caused')
  /\ step = 6 => \A x \in identifiersOf(mem, "APPLIED") \ identifiersOf(mem, "INDUCED") : Item("INDUCED", x) \in items
  /\ caused \subseteq caused'

\* The records of a step reach the memory, and the journal as far as it takes them.
Recording(step, items, status, j) ==
  /\ RecordInv /\ Fitting(step, items, status) /\ mem' = foldCleanupActions(mem, step, items, status)
  /\ j \in JournalsAfter(step, items, status) /\ journal' = j[1]

\* The runner's own cleanup goes on from a step.
GoingOn(step, items, status) ==
  /\ RecordInv /\ At(step) /\ Fitting(step, items, status) /\ mem' = foldCleanupActions(mem, step, items, status)
  /\ run.original /\ run'.at \in Nat /\ run.at < run'.at
  /\ run.at < 6 => run'.at = NextStep(run.mode, run.at + 1, mem')

\* The failures that stand after a step that records none.
LEMMA FoldFailures ==
  ASSUME NEW fold, NEW step, NEW items, NEW status, \A i \in items : i.action # "DELETE_FAILED"
  PROVE  LET f == foldCleanupActions(fold, step, items, status)
         IN  earlierDeleteFailures(f) = {r \in earlierDeleteFailures(fold) : ~ \E i \in items : i.id = r}
<1> DEFINE f == foldCleanupActions(fold, step, items, status)
<1>1. f.resource = [r \in DOMAIN fold.resource |-> IF \E i \in items : i.id = r
                                                   THEN (CHOOSE i \in items : i.id = r).action
                                                   ELSE fold.resource[r]]
  BY Zenon DEF foldCleanupActions
<1>2. ASSUME NEW r, \E i \in items : i.id = r
      PROVE  (CHOOSE i \in items : i.id = r).action # "DELETE_FAILED"
  BY <1>2, Zenon
<1> HIDE DEF f
<1>3. ASSUME NEW r \in DOMAIN fold.resource
      PROVE  f.resource[r] = "DELETE_FAILED" <=>
               fold.resource[r] = "DELETE_FAILED" /\ ~ \E i \in items : i.id = r
  <2>1. CASE \E i \in items : i.id = r
    BY <1>1, <1>2, <2>1, Zenon
  <2>2. CASE ~ \E i \in items : i.id = r
    BY <1>1, <2>2, Zenon
  <2> QED
    BY <2>1, <2>2, Zenon
<1>4. DOMAIN f.resource = DOMAIN fold.resource
  BY <1>1, Zenon
<1>5. earlierDeleteFailures(f) = {r \in earlierDeleteFailures(fold) : ~ \E i \in items : i.id = r}
  BY <1>3, <1>4, Zenon DEF earlierDeleteFailures
<1> QED
  BY <1>5, Zenon DEF f

\* The identifiers of an action after a step.
LEMMA FoldIdentifiers ==
  ASSUME NEW fold, NEW step, NEW items, NEW status, NEW action
  PROVE  identifiersOf(foldCleanupActions(fold, step, items, status), action) =
           identifiersOf(fold, action) \cup {i.id : i \in {j \in items \cap Items : j.action = action}}
<1>1. foldCleanupActions(fold, step, items, status).items = fold.items \cup (items \cap Items)
  BY Zenon DEF foldCleanupActions
<1> QED
  BY <1>1, Zenon DEF identifiersOf

\* The failures that a record of success leaves, after a step.
LEMMA FailureKept ==
  ASSUME NEW fold, NEW step \in Steps, NEW items, NEW status \in StepStatuses,
         fold.status \in [Steps -> StepStatuses],
         fold.status[9] = "succeeded" => earlierDeleteFailures(fold) = {},
         step # 9 \/ status = "succeeded" => \A i \in items : i.action # "DELETE_FAILED",
         step = 9 /\ status = "succeeded" => \A r \in earlierDeleteFailures(fold) : \E i \in items : i.id = r
  PROVE  LET f == foldCleanupActions(fold, step, items, status)
         IN  f.status[9] = "succeeded" => earlierDeleteFailures(f) = {}
<1> DEFINE f == foldCleanupActions(fold, step, items, status)
<1>1. Folded(f, fold, step, items, status)
  BY FoldFacts, Zenon
<1>2. SUFFICES ASSUME f.status[9] = "succeeded"
               PROVE  earlierDeleteFailures(f) = {}
  BY Zenon
<1>3. CASE step = 9
  <2>1. status = "succeeded"
    BY <1>1, <1>2, <1>3, Zenon DEF Folded
  <2>2. earlierDeleteFailures(f) = {r \in earlierDeleteFailures(fold) : ~ \E i \in items : i.id = r}
    BY <2>1, FoldFailures
  <2> HIDE DEF f
  <2> QED
    BY <1>3, <2>1, <2>2, Zenon
<1>4. CASE step # 9
  <2>1. fold.status[9] = "succeeded"
    BY <1>1, <1>2, <1>4 DEF Folded, Steps
  <2>2. earlierDeleteFailures(f) = {r \in earlierDeleteFailures(fold) : ~ \E i \in items : i.id = r}
    BY <1>4, FoldFailures
  <2> HIDE DEF f
  <2> QED
    BY <2>1, <2>2, Zenon
<1> QED
  BY <1>3, <1>4, Zenon

\* What the journal takes of a step: all of it, a part, or nothing.
LEMMA JournalCases ==
  ASSUME NEW step, NEW items, NEW status, NEW j \in JournalsAfter(step, items, status)
  PROVE  \/ j[1] = journal /\ ~ j[2]
         \/ run.writing /\ j[1] = foldCleanupActions(journal, step, items, status)
         \/ run.writing /\ ~ j[2] /\ \E kept \in SUBSET items : j[1] = foldCleanupActions(journal, step, kept, "started")
<1> DEFINE whole == foldCleanupActions(journal, step, items, status)
           Cut(kept) == foldCleanupActions(journal, step, kept, "started")
           cuts == {Cut(kept) : kept \in SUBSET items}
<1>1. JournalsAfter(step, items, status) =
        IF ~ run.writing THEN {<< journal, FALSE >>}
        ELSE {<< whole, TRUE >>}
               \cup (IF ~ MayFail(step) THEN {} ELSE ({whole, journal} \X {FALSE}) \cup (cuts \X {FALSE}))
  BY Zenon DEF JournalsAfter
<1>2. \A f \in cuts : \E kept \in SUBSET items : f = Cut(kept)
  BY Zenon
<1> HIDE DEF whole, cuts, Cut
<1>3. ASSUME NEW f, NEW b \in BOOLEAN
      PROVE  << f, b >>[1] = f /\ << f, b >>[2] = b
  BY Zenon
<1>4. ASSUME NEW T, j \in T \X {FALSE}
      PROVE  j[1] \in T /\ ~ j[2]
  BY <1>4, Zenon
<1>5. j = << journal, FALSE >> => j[1] = journal /\ ~ j[2]
  BY <1>3, Zenon
<1>6. j = << whole, TRUE >> => j[1] = whole
  BY <1>3, Zenon
<1>7. \/ j = << journal, FALSE >>
      \/ run.writing /\ (j = << whole, TRUE >> \/ j \in {whole, journal} \X {FALSE} \/ j \in cuts \X {FALSE})
  BY <1>1, Zenon
<1>8. \/ j[1] = journal /\ ~ j[2]
      \/ run.writing /\ j[1] = whole
      \/ run.writing /\ ~ j[2] /\ j[1] \in cuts
  BY <1>4, <1>5, <1>6, <1>7, ZenonT(30)
<1>9. \/ j[1] = journal /\ ~ j[2]
      \/ run.writing /\ j[1] = whole
      \/ run.writing /\ ~ j[2] /\ \E kept \in SUBSET items : j[1] = Cut(kept)
  BY <1>2, <1>8, Zenon
<1> QED
  BY <1>9, Zenon DEF whole, Cut

\* The failures, in memory and journal, after the records of any step.
LEMMA FailuresRecorded ==
  ASSUME NEW step \in Steps, NEW items, NEW status \in StepStatuses, NEW j, Recording(step, items, status, j),
         run'.writing => j[2]
  PROVE  FailureInv'
<1> DEFINE whole == foldCleanupActions(journal, step, items, status)
           Cut(kept) == foldCleanupActions(journal, step, kept, "started")
<1>1. /\ (run.writing => journal = mem)
      /\ mem.status \in [Steps -> StepStatuses] /\ journal.status \in [Steps -> StepStatuses]
      /\ (mem.status[9] = "succeeded" => earlierDeleteFailures(mem) = {})
      /\ (journal.status[9] = "succeeded" => earlierDeleteFailures(journal) = {})
  BY Zenon DEF Recording, RecordInv, FailureInv, CleanupInv, RunInv
<1>2. mem' = foldCleanupActions(mem, step, items, status) /\ journal' = j[1]
  BY Zenon DEF Recording
<1>3. /\ step # 9 \/ status = "succeeded" => \A i \in items : i.action # "DELETE_FAILED"
      /\ step = 9 /\ status = "succeeded" => \A r \in earlierDeleteFailures(mem) : \E i \in items : i.id = r
  BY Zenon DEF Recording, Fitting
<1>4. \/ j[1] = journal /\ ~ j[2]
      \/ run.writing /\ j[1] = whole
      \/ run.writing /\ ~ j[2] /\ \E kept \in SUBSET items : j[1] = Cut(kept)
  BY JournalCases, Zenon DEF Recording
<1>5. mem'.status[9] = "succeeded" => earlierDeleteFailures(mem') = {}
  BY <1>1, <1>2, <1>3, FailureKept, ZenonT(30)
<1>6. ASSUME NEW kept \in SUBSET items
      PROVE  Cut(kept).status[9] = "succeeded" => earlierDeleteFailures(Cut(kept)) = {}
  <2>1. step # 9 => \A i \in kept : i.action # "DELETE_FAILED"
    BY <1>3, Zenon
  <2>2. "started" \in StepStatuses /\ "started" # "succeeded"
    BY Zenon DEF StepStatuses
  <2> QED
    BY <1>1, <2>1, <2>2, FailureKept, ZenonT(30)
<1>7. whole = foldCleanupActions(journal, step, items, status)
  BY Zenon
<1> HIDE DEF whole, Cut
<1>8. journal'.status[9] = "succeeded" => earlierDeleteFailures(journal') = {}
  <2>1. CASE j[1] = journal
    BY <1>1, <1>2, <2>1, Zenon
  <2>2. CASE run.writing /\ j[1] = whole
    BY <1>1, <1>2, <1>5, <1>7, <2>2, Zenon
  <2>3. CASE \E kept \in SUBSET items : j[1] = Cut(kept)
    BY <1>2, <1>6, <2>3, Zenon
  <2> QED
    BY <1>4, <2>1, <2>2, <2>3, Zenon
<1>9. run'.writing => journal' = mem'
  BY <1>1, <1>2, <1>4, <1>7, Zenon
<1> QED
  BY <1>5, <1>8, <1>9, Zenon DEF FailureInv, earlierDeleteFailures

\* A fold of the records of a step names only transitions that cleanup caused.
LEMMA CausedKept ==
  ASSUME NEW fold, NEW step, NEW items, NEW status, NEW C, fold.items \subseteq Items,
         \A a \in {"APPLIED", "INDUCED"} : identifiersOf(fold, a) \subseteq C,
         \A i \in items : i.action \in {"APPLIED", "INDUCED"} => i.id \in C
  PROVE  LET f == foldCleanupActions(fold, step, items, status)
         IN  /\ f.items \subseteq Items
             /\ \A a \in {"APPLIED", "INDUCED"} : identifiersOf(f, a) \subseteq C
<1>1. foldCleanupActions(fold, step, items, status).items = fold.items \cup (items \cap Items)
  BY Zenon DEF foldCleanupActions
<1> QED
  BY <1>1, FoldIdentifiers

\* What the memory and the journal name, after the records of any step.
LEMMA CausedRecorded ==
  ASSUME NEW step, NEW items, NEW status, NEW j, Recording(step, items, status, j)
  PROVE  /\ mem'.items \subseteq Items /\ journal'.items \subseteq Items
         /\ \A a \in {"APPLIED", "INDUCED"} :
              identifiersOf(mem', a) \subseteq caused' /\ identifiersOf(journal', a) \subseteq caused'
<1> DEFINE Named(fold) == /\ fold.items \subseteq Items
                          /\ \A a \in {"APPLIED", "INDUCED"} : identifiersOf(fold, a) \subseteq caused'
           Cut(kept) == foldCleanupActions(journal, step, kept, "started")
<1>1. Named(mem) /\ Named(journal)
  BY Zenon DEF Recording, RecordInv, TransitionInv, Fitting
<1>2. \A i \in items : i.action \in {"APPLIED", "INDUCED"} => i.id \in caused'
  BY Zenon DEF Recording, Fitting
<1>3. mem' = foldCleanupActions(mem, step, items, status) /\ journal' = j[1]
  BY Zenon DEF Recording
<1>4. j[1] \in {journal, foldCleanupActions(journal, step, items, status)} \/ \E kept \in SUBSET items : j[1] = Cut(kept)
  BY JournalCases, Zenon DEF Recording
<1>5. ASSUME NEW fold, Named(fold), NEW kept \in SUBSET items, NEW result
      PROVE  Named(foldCleanupActions(fold, step, kept, result))
  <2>1. \A i \in kept : i.action \in {"APPLIED", "INDUCED"} => i.id \in caused'
    BY <1>2, Zenon
  <2> QED
    BY <1>5, <2>1, CausedKept, Zenon
<1> HIDE DEF Named
<1>6. Named(mem')
  BY <1>1, <1>3, <1>5, Zenon
<1>7. Named(journal')
  BY <1>1, <1>3, <1>4, <1>5, Zenon
<1> QED
  BY <1>6, <1>7, Zenon DEF Named

\* A run before step 6 that has not succeeded in it comes to it.
LEMMA SixIsNext ==
  ASSUME NEW mode, NEW k \in 1 .. 6, NEW fold, fold.status[6] # "succeeded"
  PROVE  NextStep(mode, k, fold) <= 6
<1> DEFINE Must(j) == mustRunStep(cleanupStepOrder(mode)[j], succeededSteps(fold))
           M == {j \in k .. 12 : Must(j)}
<1>1. Must(6)
  <2>1. cleanupStepOrder(mode)[6] = 6
    BY OrderFacts
  <2> QED
    BY <2>1, Zenon DEF mustRunStep, succeededSteps
<1>2. M \subseteq 1 .. 12 /\ M # {}
  BY <1>1
<1>3. PICK j \in M : \A i \in M : j <= i
  BY <1>2, FirstPosition, Zenon
<1>4. j \in k .. 12 /\ Must(j) /\ \A i \in k .. j - 1 : ~ Must(i)
  BY <1>3
<1> HIDE DEF Must
<1> DEFINE n == NextStep(mode, k, fold)
<1>5. n = CHOOSE m \in k .. 12 : Must(m) /\ \A i \in k .. m - 1 : ~ Must(i)
  BY Zenon DEF NextStep, Must
<1>6. n \in k .. 12 /\ \A i \in k .. n - 1 : ~ Must(i)
  BY <1>4, <1>5, Zenon
<1> HIDE DEF n
<1>7. ~ (6 \in k .. n - 1)
  BY <1>1, <1>6, Zenon
<1>8. n <= 6
  BY <1>6, <1>7
<1> QED
  BY <1>8, Zenon DEF n

\* Applied transitions are recorded once step 6 is behind a run of the runner.
LEMMA InducedRecorded ==
  ASSUME NEW step \in Steps, NEW items, NEW status \in StepStatuses, GoingOn(step, items, status)
  PROVE  IF run'.at <= 6 THEN mem'.status[6] # "succeeded"
                         ELSE identifiersOf(mem', "APPLIED") \subseteq identifiersOf(mem', "INDUCED")
<1>1. /\ run.at \in 1 .. 12 /\ run.count # 0 /\ cleanupStepOrder(run.mode)[run.at] = step
      /\ mem.status \in [Steps -> StepStatuses] /\ mem.items \subseteq Items
      /\ (IF run.at <= 6 THEN mem.status[6] # "succeeded"
                         ELSE identifiersOf(mem, "APPLIED") \subseteq identifiersOf(mem, "INDUCED"))
  <2>1. run \in Runs /\ run.at < Finished /\ mem.status \in [Steps -> StepStatuses]
    BY Zenon DEF GoingOn, At, RecordInv, CleanupInv, RunInv
  <2>2. run.at \in 1 .. 12 /\ run.count # 0
    BY <2>1 DEF GoingOn, RecordInv, CleanupInv, RunInv, Runs, Finished
  <2> QED
    BY <2>1, <2>2, Zenon DEF GoingOn, At, RecordInv, TransitionInv
<1>a. /\ mem' = foldCleanupActions(mem, step, items, status) /\ run'.at \in Nat /\ run.at < run'.at
      /\ run.at < 6 => run'.at = NextStep(run.mode, run.at + 1, mem')
  BY Zenon DEF GoingOn
<1>2. Folded(mem', mem, step, items, status)
  BY <1>1, <1>a, FoldFacts, Zenon
<1> DEFINE New(a) == {i.id : i \in {j \in items \cap Items : j.action = a}}
<1>3. \A a \in {"APPLIED", "INDUCED"} : identifiersOf(mem', a) = identifiersOf(mem, a) \cup New(a)
  BY <1>a, FoldIdentifiers
<1>4. CASE run.at < 6
  <2>1. step # 6 /\ mem.status[6] # "succeeded" /\ run.at + 1 \in 1 .. 6
    BY <1>1, <1>4, OrderFacts
  <2>2. mem'.status[6] # "succeeded"
    BY <1>2, <2>1 DEF Folded, Steps
  <2>3. run'.at <= 6
    BY <1>a, <1>4, <2>1, <2>2, SixIsNext, Zenon
  <2> QED
    BY <2>2, <2>3, Zenon
<1>5. CASE run.at = 6
  <2>1. step = 6
    BY <1>1, <1>5, OrderFacts
  <2>2. New("APPLIED") = {}
    BY <2>1 DEF GoingOn, Fitting
  <2>3. ASSUME NEW x \in identifiersOf(mem, "APPLIED") \ identifiersOf(mem, "INDUCED")
        PROVE  x \in New("INDUCED")
    <3>1. Item("INDUCED", x) \in items
      BY <2>1, Zenon DEF GoingOn, Fitting
    <3>2. x \in Barriers \cup Executions
      <4>1. PICK i \in mem.items : i.action = "APPLIED" /\ i.id = x
        BY Zenon DEF identifiersOf
      <4> QED
        BY <1>1, <4>1, Zenon DEF Items
    <3>3. Item("INDUCED", x) \in Items /\ Item("INDUCED", x).action = "INDUCED" /\ Item("INDUCED", x).id = x
      BY <3>2, Zenon DEF Items, Item
    <3> QED
      BY <3>1, <3>3, Zenon
  <2> HIDE DEF New
  <2>4. identifiersOf(mem', "APPLIED") \subseteq identifiersOf(mem', "INDUCED")
    BY <1>3, <2>2, <2>3, Zenon
  <2> QED
    BY <1>a, <1>5, <2>4
<1>6. CASE run.at > 6
  <2>1. step > 6
    BY <1>1, <1>6, OrderFacts
  <2>2. New("APPLIED") = {}
    BY <2>1 DEF GoingOn, Fitting
  <2> HIDE DEF New
  <2>3. identifiersOf(mem', "APPLIED") \subseteq identifiersOf(mem', "INDUCED")
    BY <1>1, <1>3, <1>6, <2>2
  <2> QED
    BY <1>a, <1>1, <1>6, <2>3
<1> QED
  BY <1>1, <1>4, <1>5, <1>6

\* The records of a step but the last keep both.
LEMMA RecordKeeps ==
  ASSUME RecordInv, NEW step \in Steps \ {12}, At(step), NEW items, NEW status \in StepStatuses,
         recordStep(step, items, status), Fitting(step, items, status)
  PROVE  FailureInv' /\ TransitionInv'
<1>1. /\ step \in Steps /\ step # 12 /\ CleanupInv
      /\ mem' = foldCleanupActions(mem, step, items, status)
  BY Zenon DEF RecordInv, recordStep
<1>2. PICK j \in JournalsAfter(step, items, status) :
        journal' = j[1] /\ run' = [run EXCEPT !.at = NextStep(run.mode, run.at + 1, mem'), !.writing = j[2]]
  BY ZenonT(30) DEF recordStep
<1>3. /\ run' \in Runs /\ run'.count = run.count /\ run'.original = run.original
      /\ run.at \in 1 .. 11 /\ run'.at \in run.at + 1 .. 12
  BY <1>1, RecordedFacts, Zenon
<1>4. run'.writing = j[2] /\ run'.at = NextStep(run.mode, run.at + 1, mem')
  BY <1>2, Zenon DEF RecordInv, CleanupInv, RunInv, Runs
<1>a. Recording(step, items, status, j)
  BY <1>1, <1>2, Zenon DEF Recording
<1>5. FailureInv'
  BY <1>1, <1>4, <1>a, FailuresRecorded, Zenon
<1>6. /\ mem'.items \subseteq Items /\ journal'.items \subseteq Items
      /\ \A a \in {"APPLIED", "INDUCED"} :
           identifiersOf(mem', a) \subseteq caused' /\ identifiersOf(journal', a) \subseteq caused'
  BY <1>a, CausedRecorded, Zenon
<1>7. run'.at \in Nat /\ run.at < run'.at
  BY <1>3
<1>8. run.original =>
        IF run'.at <= 6 THEN mem'.status[6] # "succeeded"
                        ELSE identifiersOf(mem', "APPLIED") \subseteq identifiersOf(mem', "INDUCED")
  <2>1. run.original => GoingOn(step, items, status)
    BY <1>1, <1>4, <1>7, Zenon DEF GoingOn
  <2> QED
    BY <1>1, <2>1, InducedRecorded, Zenon
<1>9. TransitionInv'
  BY <1>3, <1>6, <1>8, Zenon DEF TransitionInv, identifiersOf
<1> QED
  BY <1>5, <1>9, Zenon

\* The items of the steps that settle no resource.
LEMMA PlainFits ==
  ASSUME NEW step \in Steps \ {6, 9}, NEW items, NEW status, caused \subseteq caused',
         \A i \in items : /\ i.action \in {"APPLIED", "CAPTURED", "SETTLED"}
                          /\ (i.action = "APPLIED" => step = 5 /\ i.id \in caused')
  PROVE  Fitting(step, items, status)
BY Zenon DEF Fitting

\* Steps 1 to 8, 10 and 11 keep both.
LEMMA StepsKeepRecords ==
  ASSUME RecordInv,
         \/ EvidenceStep \/ disableConsumers \/ releaseBarriersAndStopExecutions \/ recordInducedTransitions
         \/ captureDlqEvidence \/ deleteCapturedDlqMessages \/ AbandonDeletion \/ SecondPass \/ AbandonAudit \/ stableAbsenceOutcome
  PROVE  FailureInv' /\ TransitionInv'
<1>0. Steps = 1 .. 12 /\ \A failed : outcomeFromFailures(failed) \in StepStatuses
  BY Zenon DEF Steps, outcomeFromFailures, StepStatuses
<1> DEFINE Empty(step) == \E status \in StepStatuses : At(step) /\ recordStep(step, {}, status) /\ UNCHANGED caused
<1>1. ASSUME NEW step \in Steps \ {6, 9, 12}, Empty(step)
      PROVE  FailureInv' /\ TransitionInv'
  <2>1. PICK status \in StepStatuses : At(step) /\ recordStep(step, {}, status) /\ UNCHANGED caused
    BY <1>1, Zenon
  <2>2. Fitting(step, {}, status)
    BY <2>1, PlainFits, Zenon
  <2> QED
    BY <2>1, <2>2, RecordKeeps, Zenon
<1>2. CASE EvidenceStep
  <2>1. PICK step \in {1, 2, 4}, status \in {"succeeded", "failed", "skipped"} : At(step) /\ recordStep(step, {}, status)
    BY <1>2, Zenon DEF EvidenceStep
  <2>2. status \in StepStatuses /\ UNCHANGED caused /\ step \in Steps \ {6, 9, 12}
    BY <1>0, <1>2 DEF StepStatuses, EvidenceStep, ghosts
  <2> QED
    BY <1>1, <2>1, <2>2, Zenon
<1>3. CASE disableConsumers
  <2>1. PICK failed : At(3) /\ recordStep(3, {}, outcomeFromFailures(failed)) /\ UNCHANGED caused
    BY <1>3, Zenon DEF disableConsumers, ghosts
  <2> QED
    BY <1>0, <1>1, <2>1
<1>4. CASE releaseBarriersAndStopExecutions
  <2>1. PICK done, lost, failed :
          /\ caused' = caused \cup done \cup lost
          /\ recordStep(5, {Item("APPLIED", x) : x \in done}, outcomeFromFailures(failed))
    BY <1>4, Zenon DEF releaseBarriersAndStopExecutions
  <2> DEFINE items == {Item("APPLIED", x) : x \in done}
  <2>2. \A i \in items : i.action = "APPLIED" /\ i.id \in done
    BY DEF Item
  <2> HIDE DEF items
  <2>3. 5 \in Steps \ {6, 9, 12} /\ outcomeFromFailures(failed) \in StepStatuses /\ At(5)
    BY <1>0, <1>4 DEF releaseBarriersAndStopExecutions
  <2>4. Fitting(5, items, outcomeFromFailures(failed))
    BY <2>1, <2>2, <2>3, PlainFits, Zenon
  <2> QED
    BY <2>1, <2>3, <2>4, RecordKeeps, Zenon DEF items
<1>5. CASE recordInducedTransitions
  <2> DEFINE X == identifiersOf(mem, "APPLIED") \ identifiersOf(mem, "INDUCED")
             items == {Item("INDUCED", x) : x \in X}
  <2>1. At(6) /\ recordStep(6, items, "succeeded") /\ UNCHANGED caused
    BY <1>5, Zenon DEF recordInducedTransitions, ghosts
  <2>2. X \subseteq caused
    BY Zenon DEF RecordInv, TransitionInv
  <2>3. \A i \in items : i.action = "INDUCED" /\ i.id \in caused
    BY <2>2 DEF Item
  <2>4. Fitting(6, items, "succeeded")
    <3>1. \A x \in X : Item("INDUCED", x) \in items
      BY Zenon
    <3> HIDE DEF items
    <3> QED
      BY <2>1, <2>3, <3>1 DEF Fitting
  <2>5. 6 \in Steps \ {12} /\ "succeeded" \in StepStatuses
    BY <1>0 DEF StepStatuses
  <2> HIDE DEF items
  <2> QED
    BY <2>1, <2>4, <2>5, RecordKeeps, Zenon
<1>6. CASE captureDlqEvidence
  <2>1. PICK read, failed : recordStep(7, {Item("CAPTURED", m) : m \in read}, outcomeFromFailures(failed))
    BY <1>6, Zenon DEF captureDlqEvidence
  <2> DEFINE items == {Item("CAPTURED", m) : m \in read}
  <2>2. \A i \in items : i.action = "CAPTURED"
    BY DEF Item
  <2> HIDE DEF items
  <2>3. 7 \in Steps \ {6, 9, 12} /\ outcomeFromFailures(failed) \in StepStatuses /\ At(7) /\ UNCHANGED caused
    BY <1>0, <1>6 DEF captureDlqEvidence, ghosts
  <2>4. Fitting(7, items, outcomeFromFailures(failed))
    BY <2>2, <2>3, PlainFits, Zenon
  <2> QED
    BY <2>1, <2>3, <2>4, RecordKeeps, Zenon DEF items
<1>7. CASE deleteCapturedDlqMessages
  <2>1. PICK told, absent :
          recordStep(8, {Item("SETTLED", m) : m \in told \cup absent},
                     outcomeFromFailures(pendingDlqMessages(mem) # told \cup absent))
    BY <1>7, Zenon DEF deleteCapturedDlqMessages
  <2> DEFINE items == {Item("SETTLED", m) : m \in told \cup absent}
             status == outcomeFromFailures(pendingDlqMessages(mem) # told \cup absent)
  <2>2. \A i \in items : i.action = "SETTLED"
    BY DEF Item
  <2>3. 8 \in Steps \ {6, 9, 12} /\ status \in StepStatuses /\ At(8) /\ UNCHANGED caused
    BY <1>0, <1>7 DEF deleteCapturedDlqMessages, ghosts, outcomeFromFailures, StepStatuses
  <2>4. recordStep(8, items, status)
    BY <2>1, Zenon
  <2> HIDE DEF items, status
  <2>5. Fitting(8, items, status)
    BY <2>2, <2>3, PlainFits, Zenon
  <2> QED
    BY <2>3, <2>4, <2>5, RecordKeeps, Zenon
<1>8. CASE SecondPass \/ AbandonAudit
  <2>1. PICK all : EndAudit(all)
    BY <1>8, Zenon DEF SecondPass, AbandonAudit
  <2>2. auditOutcome(all) \in StepStatuses
    BY Zenon DEF auditOutcome, outcomeFromFailures, StepStatuses
  <2>3. At(10) /\ recordStep(10, {}, auditOutcome(all)) /\ UNCHANGED caused
    BY <1>8, <2>1, Zenon DEF SecondPass, AbandonAudit, EndAudit
  <2> QED
    BY <1>0, <1>1, <2>2, <2>3
<1>9. CASE stableAbsenceOutcome
  <2> DEFINE status == outcomeFromFailures(audit # "clean")
  <2>1. At(11) /\ recordStep(11, {}, status) /\ UNCHANGED caused
    BY <1>9, Zenon DEF stableAbsenceOutcome, ghosts
  <2>2. status \in StepStatuses
    BY Zenon DEF outcomeFromFailures, StepStatuses
  <2> HIDE DEF status
  <2> QED
    BY <1>0, <1>1, <2>1, <2>2
<1>10. CASE AbandonDeletion
  <2>1. At(9) /\ recordStep(9, {}, "failed") /\ UNCHANGED caused
    BY <1>10, Zenon DEF AbandonDeletion
  <2>2. Fitting(9, {}, "failed") /\ 9 \in Steps \ {12} /\ "failed" \in StepStatuses
    BY <2>1 DEF Fitting, Steps, StepStatuses
  <2> QED
    BY <2>1, <2>2, RecordKeeps, Zenon
<1> QED
  BY <1>2, <1>3, <1>4, <1>5, <1>6, <1>7, <1>8, <1>9, <1>10, Zenon

\* Step 9 succeeds only when it records no failure and comes to every earlier one.
LEMMA DeletionKeepsRecords ==
  ASSUME RecordInv, deleteOwnedResources
  PROVE  FailureInv' /\ TransitionInv'
<1>1. At(9) /\ UNCHANGED caused
  BY Zenon DEF deleteOwnedResources
<1>2. PICK stack, failed, unread, decision, cut, refused, lost :
        Deletes(stack, failed, unread, decision, cut, refused, lost)
  BY DeletionChoices, Zenon
<1> DEFINE answered == queriesAnswered(stack[2], failed, unread)
           judged == DOMAIN decision
           settled == {Item(settleRemainingResource(r, decision[r], refused), r) : r \in judged \ cut}
           vanished == recordVanishedFailures(judged, answered /\ cut = {})
           items == stack[1] \cup settled \cup vanished
           failing == ~ answered \/ cut # {} \/ \E i \in items : i.action = "DELETE_FAILED"
           status == outcomeFromFailures(failing)
<1>3. recordStep(9, items, status)
  BY <1>2, Zenon DEF Deletes, settleResources
<1>4. status \in StepStatuses /\ (status = "succeeded" => ~ failing)
  BY Zenon DEF outcomeFromFailures, StepStatuses
<1>a. StackEnds(stack[1], stack[2])
  BY <1>2, StackFacts, Zenon DEF Deletes, RecordInv, CleanupInv
<1>5. \A i \in items : i.action \in ResourceActions
  <2>1. ASSUME NEW r, NEW d PROVE settleRemainingResource(r, d, refused) \in ResourceActions
    BY Zenon DEF settleRemainingResource, ResourceActions
  <2>2. \A i \in settled : i.action \in ResourceActions
    BY <2>1 DEF Item
  <2>3. \A i \in vanished : i.action \in ResourceActions
    BY DEF recordVanishedFailures, Item, ResourceActions
  <2>4. \A i \in stack[1] : i.action \in ResourceActions
    BY <1>a DEF StackEnds, ResourceActions
  <2> HIDE DEF settled, vanished
  <2> QED
    BY <2>2, <2>3, <2>4, Zenon
<1>6. ASSUME ~ failing, NEW r \in earlierDeleteFailures(mem)
      PROVE  \E i \in items : i.id = r
  <2>1. answered /\ cut = {}
    BY <1>6, Zenon
  <2>2. CASE recorded_stack_id /\ r = Stack
    <3>1. \E i \in stack[1] : i.id = Stack
      BY <1>a, <2>2, Zenon DEF StackEnds
    <3> QED
      BY <2>2, <3>1, Zenon
  <2>3. CASE r \in judged
    <3> DEFINE i == Item(settleRemainingResource(r, decision[r], refused), r)
    <3>1. i \in settled /\ i.id = r
      BY <2>1, <2>3, Zenon DEF Item
    <3> HIDE DEF i, settled
    <3> QED
      BY <3>1, Zenon
  <2>4. CASE ~ (recorded_stack_id /\ r = Stack) /\ r \notin judged
    <3>1. Item("ALREADY_ABSENT", r) \in vanished /\ Item("ALREADY_ABSENT", r).id = r
      BY <1>6, <2>1, <2>4, Zenon DEF recordVanishedFailures, Item
    <3> HIDE DEF vanished
    <3> QED
      BY <3>1, Zenon
  <2> QED
    BY <2>2, <2>3, <2>4, Zenon
<1>7. ~ failing => \A i \in items : i.action # "DELETE_FAILED"
  BY Zenon
<1> HIDE DEF items, failing, status
<1>8. Fitting(9, items, status)
  BY <1>1, <1>4, <1>5, <1>6, <1>7 DEF Fitting, ResourceActions
<1>9. 9 \in Steps \ {12}
  BY DEF Steps
<1> QED
  BY <1>1, <1>3, <1>4, <1>8, <1>9, RecordKeeps, Zenon

\* Step 12 records no item.
LEMMA FreezeKeepsRecords ==
  ASSUME RecordInv, freeze
  PROVE  FailureInv' /\ TransitionInv'
<1>1. At(12) /\ run' = [run EXCEPT !.at = Finished, !.writing = FALSE] /\ UNCHANGED caused
  BY Zenon DEF freeze, ghosts
<1>2. PICK status \in StepStatuses :
        /\ mem' = foldCleanupActions(mem, 12, {}, status)
        /\ \E j \in JournalsAfter(12, {}, status) : journal' = j[1]
  BY Zenon DEF freeze, outcomeFromFailures, StepStatuses
<1>3. PICK j \in JournalsAfter(12, {}, status) : journal' = j[1]
  BY <1>2, Zenon
<1>4. 12 \in Steps /\ 12 \in Steps \ {6, 9}
  BY DEF Steps
<1>5. Fitting(12, {}, status)
  BY <1>1, <1>4, PlainFits, Zenon
<1>6. run \in Runs /\ run.at < Finished
  BY <1>1, Zenon DEF At, RecordInv, CleanupInv, RunInv
<1>7. /\ run'.writing = FALSE /\ run'.at = Finished /\ run'.original = run.original /\ run'.count = run.count
      /\ run.at \in 1 .. 12 /\ run.at < run'.at
  BY <1>1, <1>6 DEF Runs, Finished
<1>a. Recording(12, {}, status, j)
  BY <1>2, <1>3, <1>5, Zenon DEF Recording
<1>8. FailureInv'
  BY <1>4, <1>7, <1>a, FailuresRecorded, Zenon
<1>9. /\ mem'.items \subseteq Items /\ journal'.items \subseteq Items
      /\ \A a \in {"APPLIED", "INDUCED"} :
           identifiersOf(mem', a) \subseteq caused' /\ identifiersOf(journal', a) \subseteq caused'
  BY <1>a, CausedRecorded, Zenon
<1>10. run.original => identifiersOf(mem', "APPLIED") \subseteq identifiersOf(mem', "INDUCED")
  <2>1. cleanupStepOrder(run.mode)[run.at] = 12
    BY <1>1, Zenon DEF At
  <2>2. run.at = 12
    BY <1>7, <2>1, OrderFacts
  <2>3. run'.at \in Nat /\ ~ (run'.at <= 6) /\ ~ (run.at < 6)
    BY <1>7, <2>2 DEF Finished
  <2>4. run.original => GoingOn(12, {}, status)
    BY <1>1, <1>2, <1>5, <1>7, <2>3, Zenon DEF GoingOn
  <2> QED
    BY <1>4, <2>3, <2>4, InducedRecorded, Zenon
<1>11. TransitionInv'
  BY <1>7, <1>9, <1>10 DEF TransitionInv, identifiersOf, Finished
<1> QED
  BY <1>8, <1>11, Zenon

\* A run starts from the journal, the runner's own from an empty one.
LEMMA RunsKeepRecords ==
  ASSUME RecordInv, runNormal \/ runEmergency \/ recoverExecution
  PROVE  FailureInv' /\ TransitionInv'
<1>1. PICK mode, original : StartRun(mode, journal, original) /\ (original => journal = EmptyFold)
  BY ZenonT(30) DEF runNormal, runEmergency, recoverExecution, RecordInv, CleanupInv, RunInv
<1> DEFINE next == NextStep(mode, 1, journal)
<1>2. /\ mem' = journal /\ UNCHANGED << journal, caused >>
      /\ run' = [mode |-> mode, at |-> next, original |-> original, writing |-> original, count |-> run.count + 1]
  BY <1>1, Zenon DEF StartRun
<1>3. original => journal.status[6] # "succeeded" /\ next <= 6
  <2>1. EmptyFold.status[6] # "succeeded"
    BY DEF EmptyFold, Steps
  <2> QED
    BY <1>1, <2>1, SixIsNext
<1> HIDE DEF next
<1>4. run'.at = next /\ run'.original = original
  BY <1>2, Zenon
<1>5. FailureInv'
  BY <1>2, Zenon DEF RecordInv, FailureInv, earlierDeleteFailures
<1>6. TransitionInv'
  BY <1>2, <1>3, <1>4, Zenon DEF RecordInv, TransitionInv, identifiersOf
<1> QED
  BY <1>5, <1>6, Zenon

\* The other steps change no record; a recovery that dies is not the runner's.
LEMMA RestKeepsRecords ==
  ASSUME RecordInv, UNCHANGED << mem, journal, caused >>,
         UNCHANGED run \/ (~ run.original /\ run' = [run EXCEPT !.at = Finished])
  PROVE  FailureInv' /\ TransitionInv'
<1>1. run \in Runs
  BY Zenon DEF RecordInv, CleanupInv, RunInv
<1>2. /\ run'.writing = run.writing /\ run'.original = run.original /\ run'.count = run.count
      /\ (run.original => run'.at = run.at)
  BY <1>1, Zenon DEF Runs
<1> QED
  BY <1>2, Zenon DEF RecordInv, FailureInv, TransitionInv, earlierDeleteFailures, identifiersOf

-----------------------------------------------------------------------------
\* The inductive invariant of cleanup and its recoveries.
THEOREM CleanupInvariant == Spec => []CleanupInv
<1>1. Init => CleanupInv
  BY InitEstablishes, Zenon
<1>2. CleanupInv /\ [Next]_vars => CleanupInv'
  BY NextPreserves, Zenon
<1> QED
  BY <1>1, <1>2, PTL DEF Spec

\* AC-RUA-011: in any account, over any number of recoveries and whatever surfaces
\* fail, deleteOwnedResources and the stack's deletion remove no resource of another.
THEOREM CleanupOnlyOwnIsRemoved == Spec => []OnlyOwnIsRemoved
<1>1. CleanupInv => OnlyOwnIsRemoved
  BY Zenon DEF CleanupInv
<1> QED
  BY <1>1, CleanupInvariant, PTL

\* A closure that reports cleanup succeeded names every resource that the deletion
\* left, also when a recovery trusts the record of an earlier run (mustRunStep).
THEOREM CleanupSucceededAccountsForAll == Spec => []SucceededAccountsForAll
<1>1. CleanupInv => SucceededAccountsForAll
  BY Zenon DEF CleanupInv, DeletionInv, SucceededAccountsForAll, deriveCleanupStatus
<1> QED
  BY <1>1, CleanupInvariant, PTL

\* A clean closure, which releases the lease, had two audit passes over an account
\* without anything of the execution (auditPass, deriveLeakAuditStatus).
THEOREM CleanupCleanIsAbsent == Spec => []CleanIsAbsent
<1>1. CleanupInv => CleanIsAbsent
  BY Zenon DEF CleanupInv, AuditInv, CleanIsAbsent
<1> QED
  BY <1>1, CleanupInvariant, PTL

\* While the queues exist, a message that the package does not hold is in its
\* queue (captureDlqEvidence, deleteCapturedDlqMessages).
THEOREM CleanupCapturedBeforeDeleted == Spec => []CapturedBeforeDeleted
<1>1. CleanupInv => CapturedBeforeDeleted
  BY Zenon DEF CleanupInv, MessageInv
<1> QED
  BY <1>1, CleanupInvariant, PTL

\* The records' invariant.
THEOREM RecordInvariant == Spec => []RecordInv
<1>1. Init => RecordInv
  <2>1. SUFFICES ASSUME Init PROVE RecordInv
    BY Zenon
  <2>2. CleanupInv
    BY <2>1, InitEstablishes, Zenon
  <2>3. /\ EmptyFold.items = {} /\ EmptyFold.status[9] = "none"
    BY DEF EmptyFold, Steps
  <2>4. mem = EmptyFold /\ journal = EmptyFold /\ run.at = 13 /\ ~ run.writing
    BY <2>1, Zenon DEF Init, Finished
  <2> QED
    BY <2>2, <2>3, <2>4 DEF RecordInv, FailureInv, TransitionInv, identifiersOf
<1>2. RecordInv /\ [Next]_vars => RecordInv'
  <2>1. SUFFICES ASSUME RecordInv, [Next]_vars PROVE RecordInv'
    BY Zenon
  <2>2. CleanupInv'
    BY <2>1, NextPreserves, Zenon DEF RecordInv
  <2>3. FailureInv' /\ TransitionInv'
    <3>1. CASE CrashRecovery \/ AccountEvent \/ StackVanishes \/ FirstPass \/ UNCHANGED vars
      <4>1. /\ UNCHANGED << mem, journal, caused >>
            /\ UNCHANGED run \/ (~ run.original /\ run' = [run EXCEPT !.at = Finished])
        BY <3>1, Zenon DEF CrashRecovery, AccountEvent, StackVanishes, FirstPass, ghosts, vars
      <4> QED
        BY <2>1, <4>1, RestKeepsRecords, Zenon
    <3> QED
      BY <2>1, <3>1, StepsKeepRecords, DeletionKeepsRecords, FreezeKeepsRecords, RunsKeepRecords, Zenon DEF Next, StepAction
  <2> QED
    BY <2>2, <2>3, Zenon DEF RecordInv
<1> QED
  BY <1>1, <1>2, PTL DEF Spec

\* A deletion step that succeeds supersedes every deletion failure recorded before
\* it, in this run or an earlier one (recordVanishedFailures, deriveCleanupStatus).
THEOREM CleanupFailuresAreSuperseded == Spec => []FailuresAreSuperseded
<1>1. RecordInv => FailuresAreSuperseded
  BY Zenon DEF RecordInv, FailureInv, FailuresAreSuperseded, deriveCleanupStatus
<1> QED
  BY <1>1, RecordInvariant, PTL

\* Only transitions that cleanup caused are recorded as induced, and the runner's
\* own cleanup records every one it knows it applied (recordInducedTransitions).
THEOREM CleanupInducedByCleanup == Spec => []InducedByCleanup
<1>1. RecordInv => InducedByCleanup
  <2>1. SUFFICES ASSUME RecordInv PROVE InducedByCleanup
    BY Zenon
  <2>2. identifiersOf(mem, "INDUCED") \subseteq caused
    BY <2>1, Zenon DEF RecordInv, TransitionInv
  <2>3. closure # "none" => run.at = 13
    BY <2>1, Zenon DEF RecordInv, CleanupInv, AuditInv, Finished
  <2> QED
    BY <2>1, <2>2, <2>3 DEF InducedByCleanup, RecordInv, TransitionInv
<1> QED
  BY <1>1, RecordInvariant, PTL
=============================================================================
