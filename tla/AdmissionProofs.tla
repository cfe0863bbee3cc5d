--------------------------- MODULE AdmissionProofs ---------------------------
(***************************************************************************)
(* Admission and provisioning of one execution, for any repository, any    *)
(* readings and any number of faults and edits: the manifest marks a whole *)
(* package, an admitted execution is one revision unless the repository    *)
(* moved, a stack holds the admitted bytes, and the runner's targets are   *)
(* earned.                                                                 *)
(***************************************************************************)
EXTENDS Provisioning, SequenceTheorems, TLAPS

\* `Absent' is no record, sequence or function.
AbsentOK == \A f : f = [x \in DOMAIN f |-> f[x]] => Absent # f

\* Where the attempt is: behind each of its readings, and before its end.
Finishing == {"catalogue", "A15", "finalize", "draft"}
Scoped == {"A14"} \cup Finishing
Synthesized == {"scope"} \cup Scoped
Sourced == {"A6", "A7", "A8", "A9", "A10", "A11", "synthesize"} \cup Synthesized
LockRead == {"A5"} \cup Sourced
TreeRead == {"git_lockfile"} \cup LockRead
StatusRead == {"git_tree"} \cup TreeRead
Live == {"A1", "A2", "A3", "A4", "git_status", "git_failed", "synthesis_failed"} \cup StatusRead

\* How many checks are recorded there.
Recorded(at) ==
  CASE at = "A1" -> 0 [] at = "A2" -> 1 [] at = "A3" -> 2 [] at = "A4" -> 3
    [] at \in {"git_status", "git_tree", "git_lockfile", "git_failed", "A5"} -> 4
    [] at = "A6" -> 5 [] at = "A7" -> 6 [] at = "A8" -> 7 [] at = "A9" -> 8 [] at = "A10" -> 9
    [] at = "A11" -> 10 [] at \in {"synthesize", "synthesis_failed"} -> 11 [] at = "scope" -> 12 [] at = "A14" -> 13
    [] at \in {"catalogue", "A15"} -> 14 [] OTHER -> 15

\* The attempt is there, or wrote a part of its draft.
Past(S) == pc \in S \/ held.written # 0

IsLog(s) == \E S : s \in Seq(S)
IsAssembly(a) == a = [f \in ASSEMBLY_PATHS |-> a[f]]
IsInventory(r) == r = [files |-> r.files, inventory_sha256 |-> r.inventory_sha256] /\ IsAssembly(r.files)
HeldShape(h) ==
  h = [source |-> h.source, selected |-> h.selected, assembly |-> h.assembly, rc |-> h.rc,
       snapshot |-> h.snapshot, lines |-> h.lines, verdict |-> h.verdict, written |-> h.written]
SourceShape(s) ==
  s = [commit |-> s.commit, tree |-> s.tree, lock |-> s.lock, tracked |-> s.tracked, dirty |-> s.dirty,
       malformed |-> s.malformed, in_progress |-> s.in_progress]

\* The attempt's memory and its files.
ShapeInv ==
  /\ HeldShape(held) /\ world \in Worlds /\ changes \in Nat /\ moved \in BOOLEAN
  /\ journal = [lines |-> journal.lines, final |-> journal.final] /\ journal.final \in BOOLEAN
  /\ IsLog(journal.lines) /\ held.lines = journal.lines
  /\ package = [f \in PackageFiles |-> package[f]]

AllPassed == \A i \in 1 .. Len(journal.lines) : journal.lines[i].passed

\* A line for each check behind it, and all of them passed.
CheckInv ==
  /\ pc \in Live => Len(journal.lines) = Recorded(pc) /\ AllPassed /\ rejection = Absent
  /\ Past({"draft"}) => journal.final /\ Len(journal.lines) = 15 /\ AllPassed /\ rejection = Absent

\* What was read is what is there, unless the repository moved.
SourceInv ==
  /\ Past(StatusRead) => /\ SourceShape(held.source)
                         /\ ~ moved => /\ held.source.commit = head /\ held.source.dirty = dirtyEntries
                                       /\ held.source.tree \in {head, Absent}
  /\ Past(LockRead) => (~ moved => held.source.lock = work[PACKAGE_LOCK_PATH])
  /\ Past(Sourced) => held.source.dirty = {} /\ held.source.tree # Absent
  /\ Past(Synthesized) => /\ IsAssembly(held.assembly)
                          /\ ~ moved => held.assembly = SynthOf(work, installed, ExecutionId)
  /\ Past(Scoped) => held.snapshot # Absent

\* What a written file holds; people may have changed the assembly and its
\* inventory since.
Wrote(file) ==
  CASE file = "assembly" ->
         IsAssembly(package["assembly"]) /\ (changes = 0 => package["assembly"] = held.assembly)
    [] file = "deployment_assembly_inventory" ->
         /\ IsInventory(package["deployment_assembly_inventory"])
         /\ changes = 0 => package["deployment_assembly_inventory"].files = held.assembly
    [] OTHER -> package[file] = DraftContent(file)

\* The draft is written in its order.
DraftInv ==
  /\ held.written \in 0 .. 10
  /\ held.written # 0 => pc \in {"draft", "failed", "done", "crashed"}
  /\ \A i \in 1 .. 10 : DraftSteps[i] # "reread" =>
       IF i <= held.written THEN Wrote(DraftSteps[i]) ELSE package[DraftSteps[i]] = Absent
  /\ outcome = "admitted" => pc = "done" /\ held.written = 10

AttemptInv == ShapeInv /\ CheckInv /\ SourceInv /\ DraftInv

-----------------------------------------------------------------------------
(* Data. *)

\* A log grows at its end.
LEMMA LogGrows ==
  ASSUME NEW s, NEW x, IsLog(s)
  PROVE  /\ IsLog(Append(s, x)) /\ Len(s) \in Nat /\ Len(Append(s, x)) = Len(s) + 1
         /\ \A i \in 1 .. Len(s) : Append(s, x)[i] = s[i]
         /\ Append(s, x)[Len(s) + 1] = x
<1>1. PICK S : s \in Seq(S)
  BY Zenon DEF IsLog
<1>2. s \in Seq(S \cup {x})
  BY <1>1
<1>3. Append(s, x) \in Seq(S \cup {x})
  BY <1>2
<1> QED
  BY <1>2, <1>3 DEF IsLog

\* A package has these files.
LEMMA PackageFacts ==
  PackageFiles = {"environment_input", "schemas", "source_provenance", "oracle_revision_check",
                  "transport_scope_snapshot", "deployment_assembly_inventory", "preflight_journal",
                  "execution_manifest", "assembly"}
<1>1. {DRAFT_RECORDS[i] : i \in DOMAIN DRAFT_RECORDS} =
        {"environment_input", "schemas", "source_provenance", "oracle_revision_check", "transport_scope_snapshot"}
  BY DEF DRAFT_RECORDS
<1>2. {LAST_RECORDS[i] : i \in DOMAIN LAST_RECORDS} =
        {"deployment_assembly_inventory", "preflight_journal", "execution_manifest"}
  BY DEF LAST_RECORDS
<1> QED
  BY <1>1, <1>2, Zenon DEF PackageFiles

\* The ten steps of the draft, its files, and the place of each.
LEMMA DraftFacts ==
  /\ Len(DraftSteps) = 10
  /\ DraftSteps[1] = "environment_input" /\ DraftSteps[2] = "schemas" /\ DraftSteps[3] = "source_provenance"
  /\ DraftSteps[4] = "oracle_revision_check" /\ DraftSteps[5] = "transport_scope_snapshot"
  /\ DraftSteps[6] = "assembly" /\ DraftSteps[7] = "reread"
  /\ DraftSteps[8] = "deployment_assembly_inventory" /\ DraftSteps[9] = "preflight_journal"
  /\ DraftSteps[10] = "execution_manifest"
<1> DEFINE a == DRAFT_RECORDS
           b == <<"assembly", "reread">>
           c == LAST_RECORDS
           Steps == PackageFiles \cup {"reread"}
<1>1. a \in Seq(Steps) /\ Len(a) = 5 /\ a[1] = "environment_input" /\ a[2] = "schemas" /\ a[3] = "source_provenance"
      /\ a[4] = "oracle_revision_check" /\ a[5] = "transport_scope_snapshot"
  BY PackageFacts DEF DRAFT_RECORDS
<1>2. b \in Seq(Steps) /\ Len(b) = 2 /\ b[1] = "assembly" /\ b[2] = "reread"
  BY PackageFacts
<1>3. c \in Seq(Steps) /\ Len(c) = 3 /\ c[1] = "deployment_assembly_inventory" /\ c[2] = "preflight_journal"
      /\ c[3] = "execution_manifest"
  BY PackageFacts DEF LAST_RECORDS
<1>4. DraftSteps = (a \o b) \o c
  BY Zenon DEF DraftSteps
<1> HIDE DEF a, b, c, Steps
<1>5. a \o b \in Seq(Steps) /\ Len(a \o b) = 7 /\ \A i \in 1 .. 7 : (a \o b)[i] = IF i <= 5 THEN a[i] ELSE b[i - 5]
  <2>1. /\ a \o b \in Seq(Steps) /\ Len(a \o b) = Len(a) + Len(b)
        /\ \A i \in 1 .. Len(a) + Len(b) : (a \o b)[i] = IF i <= Len(a) THEN a[i] ELSE b[i - Len(a)]
    BY <1>1, <1>2, ConcatProperties, Zenon
  <2> QED
    BY <1>1, <1>2, <2>1
<1>6. Len(DraftSteps) = 10 /\ \A i \in 1 .. 10 : DraftSteps[i] = IF i <= 7 THEN (a \o b)[i] ELSE c[i - 7]
  <2> DEFINE d == a \o b
  <2>1. d \in Seq(Steps) /\ Len(d) = 7
    BY <1>5, Zenon
  <2> HIDE DEF d
  <2>2. /\ d \o c \in Seq(Steps) /\ Len(d \o c) = Len(d) + Len(c)
        /\ \A i \in 1 .. Len(d) + Len(c) : (d \o c)[i] = IF i <= Len(d) THEN d[i] ELSE c[i - Len(d)]
    BY <1>3, <2>1, ConcatProperties, Zenon
  <2> DEFINE e == d \o c
  <2>3. Len(e) = Len(d) + Len(c) /\ \A i \in 1 .. Len(d) + Len(c) : e[i] = IF i <= Len(d) THEN d[i] ELSE c[i - Len(d)]
    BY <2>2, Zenon
  <2> HIDE DEF e
  <2>4. Len(e) = 10 /\ \A i \in 1 .. 10 : e[i] = IF i <= 7 THEN d[i] ELSE c[i - 7]
    BY <1>3, <2>1, <2>3
  <2> QED
    BY <1>4, <2>4, Zenon DEF d, e
<1> DEFINE d == a \o b
<1>7. \A i \in 1 .. 7 : d[i] = IF i <= 5 THEN a[i] ELSE b[i - 5]
  BY <1>5, Zenon
<1>8. \A i \in 1 .. 10 : DraftSteps[i] = IF i <= 7 THEN d[i] ELSE c[i - 7]
  BY <1>6, Zenon
<1> HIDE DEF d
<1>9. d[1] = a[1] /\ d[2] = a[2] /\ d[3] = a[3] /\ d[4] = a[4] /\ d[5] = a[5] /\ d[6] = b[1] /\ d[7] = b[2]
  BY <1>7
<1>10. /\ DraftSteps[1] = d[1] /\ DraftSteps[2] = d[2] /\ DraftSteps[3] = d[3] /\ DraftSteps[4] = d[4]
       /\ DraftSteps[5] = d[5] /\ DraftSteps[6] = d[6] /\ DraftSteps[7] = d[7]
  BY <1>8
<1>11. DraftSteps[8] = c[1] /\ DraftSteps[9] = c[2] /\ DraftSteps[10] = c[3]
  BY <1>8
<1> QED
  BY <1>1, <1>2, <1>3, <1>6, <1>9, <1>10, <1>11, Zenon

\* What a file of the draft holds is something.
LEMMA ContentFacts ==
  ASSUME AbsentOK, ShapeInv, SourceInv, Past({"draft"}), NEW file \in PackageFiles
  PROVE  DraftContent(file) # Absent
<1>1. Past(StatusRead) /\ Past(Synthesized) /\ Past(Scoped)
  BY Zenon DEF Past, StatusRead, TreeRead, LockRead, Sourced, Synthesized, Scoped, Finishing
<1>2. held.assembly # Absent
  BY <1>1, AbsentOK, Zenon DEF SourceInv, IsAssembly, AbsentOK
<1>3. held.snapshot # Absent
  BY <1>1, Zenon DEF SourceInv
<1>4. held.lines # Absent
  <2>1. PICK S : held.lines \in Seq(S)
    BY Zenon DEF ShapeInv, IsLog
  <2> QED
    BY <2>1, AbsentOK DEF AbsentOK
<1>5. world.readings.ids # Absent
  BY TrackedAssumption, Zenon DEF ShapeInv
<1>6. buildExecutionManifest(held) # Absent
  BY AbsentOK, Zenon DEF AbsentOK, buildExecutionManifest
<1>7. [files |-> held.assembly, inventory_sha256 |-> held.assembly] # Absent
  BY AbsentOK, Zenon DEF AbsentOK
<1> QED
  BY <1>2, <1>3, <1>4, <1>5, <1>6, <1>7, Zenon DEF DraftContent

\* Each file of the package is one step of the draft.
LEMMA StepOfFile ==
  /\ \A i \in 1 .. 10 : DraftSteps[i] # "reread" => DraftSteps[i] \in PackageFiles
  /\ \A f \in PackageFiles : \E i \in 1 .. 10 : DraftSteps[i] = f
  /\ \A i, j \in 1 .. 10 : DraftSteps[i] = DraftSteps[j] => i = j
<1>1. \A i \in 1 .. 10 : i \in {1, 2, 3, 4, 5, 6, 7, 8, 9, 10}
  OBVIOUS
<1> QED
  BY <1>1, DraftFacts, PackageFacts

-----------------------------------------------------------------------------
(* One check. *)

\* What `record' leaves: a line for a check that passed, or an attempt that
\* goes on to reject or to fail.
Checked(next, verdict, keep) ==
  /\ ShapeInv' /\ CheckInv' /\ DraftInv'
  /\ held'.source = keep.source /\ held'.assembly = keep.assembly /\ held'.snapshot = keep.snapshot
  /\ held'.written = 0 /\ ((pc' = next /\ verdict.passed) \/ pc' \in {"reject", "failed"})

\* A check that goes on from one place to another with what it keeps.
Checks(next, keep) ==
  /\ pc \in Live \ {"draft"} /\ next \in Live \ {"draft"} /\ Recorded(next) = Recorded(pc) + 1
  /\ HeldShape(keep) /\ keep.lines = held.lines /\ keep.written = held.written

\* A line is appended before anything else happens, and only a passed check
\* goes on (admitExecution's record).
LEMMA RecordStep ==
  ASSUME AttemptInv, Steady, NEW checkId, NEW verdict, NEW next, NEW keep, Checks(next, keep),
         record(checkId, verdict, next, keep)
  PROVE  Checked(next, verdict, keep)
<1> DEFINE line == [check |-> checkId, passed |-> verdict.passed, class |-> verdict.class]
<1>0. /\ held.written = 0 /\ keep.written = 0 /\ Recorded(pc) \in Nat
      /\ outcome # "admitted" /\ pc \notin {"reject", "failed", "done"}
  BY Zenon DEF AttemptInv, DraftInv, Checks, Live, StatusRead, TreeRead, LockRead, Sourced, Synthesized, Scoped,
         Finishing, Recorded
<1>a. \A i \in 1 .. 10 : DraftSteps[i] # "reread" => package[DraftSteps[i]] = Absent
  BY <1>0 DEF AttemptInv, DraftInv
<1>b. {"reject", "failed"} \cap Live = {}
  BY Zenon DEF Live, StatusRead, TreeRead, LockRead, Sourced, Synthesized, Scoped, Finishing
<1>1. CASE /\ journal' = [journal EXCEPT !.lines = Append(@, line)]
           /\ held' = [keep EXCEPT !.lines = Append(@, line), !.verdict = verdict]
           /\ pc' = IF verdict.passed THEN next ELSE "reject"
           /\ UNCHANGED <<rejection, package, outcome>>
  <2> DEFINE ls == Append(journal.lines, line)
  <2>0. line.passed = verdict.passed
    BY Zenon
  <2> HIDE DEF line
  <2>1. journal' = [lines |-> ls, final |-> journal.final]
    BY <1>1, Zenon DEF AttemptInv, ShapeInv
  <2>2. held' = [source |-> keep.source, selected |-> keep.selected, assembly |-> keep.assembly,
                 rc |-> keep.rc, snapshot |-> keep.snapshot, lines |-> ls, verdict |-> verdict, written |-> 0]
    <3>1. held' = [keep EXCEPT !.lines = ls, !.verdict = verdict]
      BY <1>1, Zenon DEF AttemptInv, ShapeInv, Checks
    <3> HIDE DEF ls
    <3> QED
      BY <3>1, <1>0, Zenon DEF Checks, HeldShape
  <2>3. /\ IsLog(ls) /\ Len(journal.lines) \in Nat /\ Len(ls) = Len(journal.lines) + 1
        /\ \A i \in 1 .. Len(journal.lines) : ls[i] = journal.lines[i]
        /\ ls[Len(journal.lines) + 1] = line
    BY LogGrows, Zenon DEF AttemptInv, ShapeInv
  <2> HIDE DEF ls
  <2>4. ShapeInv'
    <3>1. HeldShape(held') /\ held'.lines = ls
      BY <2>2, Zenon DEF HeldShape
    <3>2. /\ journal' = [lines |-> journal'.lines, final |-> journal'.final]
          /\ journal'.final = journal.final /\ journal'.lines = ls
      BY <2>1, Zenon
    <3> QED
      BY <1>1, <2>3, <3>1, <3>2, Zenon DEF AttemptInv, ShapeInv, Steady
  <2>5. held'.written = 0 /\ journal'.lines = ls
    BY <2>1, <2>2, Zenon
  <2>6. CheckInv'
    <3>1. CASE verdict.passed
      <4>1. Len(ls) = Recorded(next)
        BY <2>3, Zenon DEF AttemptInv, CheckInv, Checks
      <4>2. \A i \in 1 .. Len(ls) : ls[i].passed
        <5>1. line.passed
          BY <2>0, <3>1, Zenon
        <5>2. \A i \in 1 .. Len(journal.lines) : journal.lines[i].passed
          BY Zenon DEF AttemptInv, CheckInv, AllPassed, Checks
        <5> QED
          BY <2>3, <5>1, <5>2
      <4> QED
        BY <4>1, <4>2, <3>1, <2>5, <1>1, Zenon DEF AttemptInv, CheckInv, AllPassed, Checks, Past
    <3>2. CASE ~ verdict.passed
      BY <3>2, <1>1, <1>b, <2>5, Zenon DEF CheckInv, Past
    <3> QED
      BY <3>1, <3>2, Zenon
  <2>7. DraftInv'
    BY <1>1, <1>0, <1>a, <2>5 DEF DraftInv
  <2> QED
    BY <1>1, <2>2, <2>4, <2>5, <2>6, <2>7, Zenon DEF Checked
<1>2. CASE pc' = "failed" /\ held' = keep /\ UNCHANGED records
  <2>1. ShapeInv'
    BY <1>2, Zenon DEF AttemptInv, ShapeInv, Checks, Steady, records
  <2>2. CheckInv'
    BY <1>2, <1>0, <1>b, Zenon DEF CheckInv, Past, records
  <2>3. DraftInv'
    BY <1>2, <1>0, <1>a DEF DraftInv, records
  <2> QED
    BY <1>0, <1>2, <2>1, <2>2, <2>3, Zenon DEF Checked
<1> QED
  BY <1>1, <1>2, Zenon DEF record

-----------------------------------------------------------------------------
(* Steps that keep what was read. *)

\* Nowhere further than before.
NoFurther ==
  /\ Past(StatusRead)' => Past(StatusRead)
  /\ Past(TreeRead)' => Past(TreeRead)
  /\ Past(LockRead)' => Past(LockRead)
  /\ Past(Sourced)' => Past(Sourced)
  /\ Past(Synthesized)' => Past(Synthesized)
  /\ Past(Scoped)' => Past(Scoped)

\* What was read stays read.
LEMMA SourceKept ==
  ASSUME SourceInv, Steady, NoFurther, held'.source = held.source, held'.assembly = held.assembly,
         held'.snapshot = held.snapshot
  PROVE  SourceInv'
<1>1. UNCHANGED <<dirtyEntries, ExecutionId, head, work, installed, moved>>
  BY Zenon DEF Steady, dirtyEntries, ExecutionId
<1> QED
  BY <1>1, Zenon DEF SourceInv, NoFurther

\* An attempt that is nowhere owes nothing.
LEMMA SourceEnds ==
  ASSUME pc' \notin StatusRead, held'.written = 0
  PROVE  SourceInv'
BY Zenon DEF SourceInv, Past, StatusRead, TreeRead, LockRead, Sourced, Synthesized, Scoped, Finishing

\* A step that records nothing goes on, fails or crashes.
LEMMA QuietStep ==
  ASSUME AttemptInv, Steady, UNCHANGED records, HeldShape(held'), held'.lines = held.lines,
         held'.written = held.written, pc \in Live \ {"draft"},
         (pc' \in Live \ {"draft"} /\ Recorded(pc') = Recorded(pc)) \/ pc' \in {"failed", "crashed"}
  PROVE  ShapeInv' /\ CheckInv' /\ DraftInv' /\ held'.written = 0
<1>0. /\ held.written = 0 /\ held'.written = 0 /\ outcome # "admitted"
  BY Zenon DEF AttemptInv, DraftInv, Live, StatusRead, TreeRead, LockRead, Sourced, Synthesized, Scoped, Finishing
<1>a. \A i \in 1 .. 10 : DraftSteps[i] # "reread" => package[DraftSteps[i]] = Absent
  BY <1>0 DEF AttemptInv, DraftInv
<1>b. {"crashed", "failed"} \cap Live = {}
  BY Zenon DEF Live, StatusRead, TreeRead, LockRead, Sourced, Synthesized, Scoped, Finishing
<1>1. ShapeInv'
  BY Zenon DEF AttemptInv, ShapeInv, Steady, records
<1>2. CheckInv'
  BY <1>0, <1>b, Zenon DEF AttemptInv, CheckInv, AllPassed, Past, records
<1>3. DraftInv'
  BY <1>0, <1>a DEF DraftInv, records
<1> QED
  BY <1>0, <1>1, <1>2, <1>3, Zenon

\* A step that ends a part of the attempt keeps its files.
LEMMA EndStep ==
  ASSUME AttemptInv, Steady, UNCHANGED <<held, package>>,
         UNCHANGED journal \/ journal' = [journal EXCEPT !.final = TRUE],
         pc' \in {"rejected", "failed", "done", "crashed"},
         held.written # 0 => UNCHANGED rejection /\ pc' # "rejected",
         outcome' = "admitted" => pc' = "done" /\ held.written = 10
  PROVE  AttemptInv'
<1>0. /\ journal' = [lines |-> journal.lines, final |-> journal'.final]
      /\ journal'.lines = journal.lines /\ journal'.final \in BOOLEAN /\ (journal.final => journal'.final)
  BY Zenon DEF AttemptInv, ShapeInv
<1>b. {"rejected", "failed", "done", "crashed"} \cap Live = {}
  BY Zenon DEF Live, StatusRead, TreeRead, LockRead, Sourced, Synthesized, Scoped, Finishing
<1>1. ShapeInv'
  BY <1>0, Zenon DEF AttemptInv, ShapeInv, Steady
<1>2. CheckInv'
  BY <1>0, <1>b, Zenon DEF AttemptInv, CheckInv, AllPassed, Past
<1>3. SourceInv'
  <2>1. NoFurther
    BY <1>b, Zenon DEF NoFurther, Past, Live, StatusRead, TreeRead, LockRead, Sourced, Synthesized, Scoped
  <2> QED
    BY <2>1, SourceKept, Zenon DEF AttemptInv
<1>4. \A file : Wrote(file) => Wrote(file)'
  BY Zenon DEF Wrote, DraftContent, buildExecutionManifest, ExecutionId, Steady
<1>5. DraftInv'
  BY <1>4, Zenon DEF AttemptInv, DraftInv
<1> QED
  BY <1>1, <1>2, <1>3, <1>5, Zenon DEF AttemptInv

-----------------------------------------------------------------------------
(* The attempt's actions. *)

\* Where a check that judges one reading goes on.
LEMMA NextFacts ==
  ASSUME NEW at \in DOMAIN NextCheck
  PROVE  /\ at \in Live \ {"draft"} /\ NextCheck[at] \in Live \ {"draft"}
         /\ Recorded(NextCheck[at]) = Recorded(at) + 1
         /\ NextCheck[at] \in StatusRead => at \in StatusRead
         /\ NextCheck[at] \in TreeRead => at \in TreeRead
         /\ NextCheck[at] \in LockRead => at \in LockRead
         /\ NextCheck[at] \in Sourced => at \in Sourced
         /\ NextCheck[at] \in Synthesized => at \in Synthesized
         /\ NextCheck[at] \in Scoped => at \in Scoped
<1> DEFINE To(a, b) == at = a /\ NextCheck[at] = b
<1>1. \/ To("A1", "A2") \/ To("A2", "A3") \/ To("A3", "A4") \/ To("A4", "git_status") \/ To("A6", "A7")
      \/ To("A7", "A8") \/ To("A8", "A9") \/ To("A9", "A10") \/ To("A10", "A11") \/ To("A11", "synthesize")
      \/ To("A14", "catalogue")
  BY DEF NextCheck
<1> QED
  BY <1>1 DEF Live, StatusRead, TreeRead, LockRead, Sourced, Synthesized, Scoped, Finishing, Recorded

\* The checks of one reading.
LEMMA ReadingStep == ASSUME AttemptInv, AssessReading PROVE AttemptInv'
<1> DEFINE keep == IF pc = "A10" /\ CheckVerdict(pc).passed /\ world.selection # Absent
                   THEN [held EXCEPT !.selected = world.probe.snapshot] ELSE held
<1>1. /\ pc \in DOMAIN NextCheck /\ Steady /\ record(pc, CheckVerdict(pc), NextCheck[pc], keep)
  BY Zenon DEF AssessReading
<1>2. /\ HeldShape(keep) /\ keep.lines = held.lines /\ keep.written = held.written /\ keep.source = held.source
      /\ keep.assembly = held.assembly /\ keep.snapshot = held.snapshot
  BY Zenon DEF AttemptInv, ShapeInv, HeldShape
<1> HIDE DEF keep
<1>3. Checks(NextCheck[pc], keep)
  BY <1>1, <1>2, NextFacts, Zenon DEF Checks
<1>4. Checked(NextCheck[pc], CheckVerdict(pc), keep)
  BY <1>1, <1>3, RecordStep, Zenon
<1>5. NoFurther
  <2>1. pc' = NextCheck[pc] \/ pc' \in {"reject", "failed"}
    BY <1>4, Zenon DEF Checked
  <2>2. held'.written = 0
    BY <1>4, Zenon DEF Checked
  <2>3. {"reject", "failed"} \cap StatusRead = {}
    BY Zenon DEF StatusRead, TreeRead, LockRead, Sourced, Synthesized, Scoped, Finishing
  <2>4. TreeRead \subseteq StatusRead /\ LockRead \subseteq StatusRead /\ Sourced \subseteq StatusRead
        /\ Synthesized \subseteq StatusRead /\ Scoped \subseteq StatusRead
    BY Zenon DEF StatusRead, TreeRead, LockRead, Sourced, Synthesized
  <2> QED
    BY <1>1, <2>1, <2>2, <2>3, <2>4, NextFacts DEF NoFurther, Past
<1> QED
  BY <1>1, <1>2, <1>4, <1>5, SourceKept, Zenon DEF AttemptInv, Checked

\* A read that fails leaves the attempt to say so.
LEMMA UnreadStep ==
  ASSUME AttemptInv, Steady, UNCHANGED <<held, records>>,
         \/ pc \in {"git_status", "git_lockfile"} /\ pc' = "git_failed"
         \/ pc = "synthesize" /\ pc' = "synthesis_failed"
  PROVE  AttemptInv'
<1>1. /\ pc \in Live \ {"draft"} /\ pc' \in Live \ {"draft"} /\ Recorded(pc') = Recorded(pc)
      /\ pc' \notin StatusRead
  BY Zenon DEF Live, StatusRead, TreeRead, LockRead, Sourced, Synthesized, Scoped, Finishing, Recorded
<1>2. HeldShape(held')
  BY Zenon DEF AttemptInv, ShapeInv
<1>3. ShapeInv' /\ CheckInv' /\ DraftInv' /\ held'.written = 0
  BY <1>1, <1>2, QuietStep, Zenon
<1> QED
  BY <1>1, <1>3, SourceEnds, Zenon DEF AttemptInv

\* A failed check ends the attempt.
LEMMA RefusedCheck ==
  ASSUME AttemptInv, Steady, NEW checkId, NEW class, NEW reasons, NEW next, Checks(next, held),
         record(checkId, failed(class, reasons), next, held)
  PROVE  AttemptInv'
<1>1. Checked(next, failed(class, reasons), held)
  BY RecordStep, Zenon
<1>2. ~ failed(class, reasons).passed
  BY Zenon DEF failed
<1>3. pc' \notin StatusRead /\ held'.written = 0
  BY <1>1, <1>2, Zenon DEF Checked, StatusRead, TreeRead, LockRead, Sourced, Synthesized, Scoped, Finishing
<1> QED
  BY <1>1, <1>3, SourceEnds, Zenon DEF AttemptInv, Checked

\* The git state is read.
LEMMA StatusStep == ASSUME AttemptInv, readGitStatus PROVE AttemptInv'
<1>1. /\ pc = "git_status" /\ Steady /\ UNCHANGED records
      /\ \/ pc' = "git_tree" /\ \E m : held' = [held EXCEPT !.source = GitStatus(m)]
         \/ pc' = "git_failed" /\ UNCHANGED held
  BY Zenon DEF readGitStatus
<1>2. CASE pc' = "git_tree" /\ \E m : held' = [held EXCEPT !.source = GitStatus(m)]
  <2>1. PICK m : held' = [held EXCEPT !.source = GitStatus(m)]
    BY <1>2, Zenon
  <2> DEFINE s == GitStatus(m)
  <2>2. SourceShape(s) /\ s.commit = head /\ s.dirty = dirtyEntries /\ s.tree = Absent
    BY Zenon DEF SourceShape, GitStatus
  <2> HIDE DEF s
  <2>3. HeldShape(held') /\ held'.lines = held.lines /\ held'.written = held.written /\ held'.source = s
    BY <2>1, Zenon DEF AttemptInv, ShapeInv, HeldShape, s
  <2>4. /\ pc \in Live \ {"draft"} /\ pc' \in Live \ {"draft"} /\ Recorded(pc') = Recorded(pc)
    BY <1>1, <1>2, Zenon DEF Live, StatusRead, Recorded
  <2>5. ShapeInv' /\ CheckInv' /\ DraftInv' /\ held'.written = 0
    BY <1>1, <2>3, <2>4, QuietStep, Zenon
  <2>6. UNCHANGED <<dirtyEntries, head>>
    BY <1>1, Zenon DEF Steady, dirtyEntries
  <2>7. SourceInv'
    BY <1>2, <2>2, <2>3, <2>5, <2>6, Zenon DEF SourceInv, Past, TreeRead, LockRead, Sourced, Synthesized, Scoped, Finishing
  <2> QED
    BY <2>5, <2>7, Zenon DEF AttemptInv
<1>3. CASE pc' = "git_failed" /\ UNCHANGED held
  BY <1>1, <1>3, UnreadStep, Zenon
<1> QED
  BY <1>1, <1>2, <1>3, Zenon

\* HEAD's tree is read.
LEMMA TreeStep == ASSUME AttemptInv, readGitTree PROVE AttemptInv'
<1>1. /\ pc = "git_tree" /\ pc' = "git_lockfile" /\ Steady /\ UNCHANGED records
      /\ (\E tree \in {head, Absent} : held' = [held EXCEPT !.source = [held.source EXCEPT !.tree = tree]])
         \/ UNCHANGED held
  BY Zenon DEF readGitTree, AttemptInv, ShapeInv, HeldShape
<1>2. Past(StatusRead) /\ SourceShape(held.source)
  BY <1>1, Zenon DEF Past, StatusRead, AttemptInv, SourceInv
<1>3. /\ HeldShape(held') /\ held'.lines = held.lines /\ held'.written = held.written
      /\ SourceShape(held'.source) /\ held'.source.commit = held.source.commit
      /\ held'.source.dirty = held.source.dirty
      /\ held'.source.tree \in {head, Absent} \/ UNCHANGED held
  <2>1. CASE UNCHANGED held
    BY <1>2, <2>1, Zenon DEF AttemptInv, ShapeInv
  <2>2. CASE \E tree \in {head, Absent} : held' = [held EXCEPT !.source = [held.source EXCEPT !.tree = tree]]
    <3>1. PICK tree \in {head, Absent} : held' = [held EXCEPT !.source = [held.source EXCEPT !.tree = tree]]
      BY <2>2, Zenon
    <3> DEFINE s == [held.source EXCEPT !.tree = tree]
    <3>2. SourceShape(s) /\ s.commit = held.source.commit /\ s.dirty = held.source.dirty /\ s.tree = tree
      BY <1>2 DEF SourceShape
    <3> HIDE DEF s
    <3>3. HeldShape(held') /\ held'.lines = held.lines /\ held'.written = held.written /\ held'.source = s
      BY <3>1, Zenon DEF AttemptInv, ShapeInv, HeldShape, s
    <3> QED
      BY <3>1, <3>2, <3>3, Zenon
  <2> QED
    BY <1>1, <2>1, <2>2, Zenon
<1>5. /\ pc \in Live \ {"draft"} /\ pc' \in Live \ {"draft"} /\ Recorded(pc') = Recorded(pc)
  BY <1>1, Zenon DEF Live, StatusRead, TreeRead, Recorded
<1>6. ShapeInv' /\ CheckInv' /\ DraftInv' /\ held'.written = 0
  BY <1>1, <1>3, <1>5, QuietStep, Zenon
<1>7. UNCHANGED <<dirtyEntries, head, moved>>
  BY <1>1, Zenon DEF Steady, dirtyEntries
<1>8. SourceInv'
  BY <1>1, <1>2, <1>3, <1>6, <1>7, Zenon DEF AttemptInv, SourceInv, Past, LockRead, Sourced, Synthesized, Scoped, Finishing
<1> QED
  BY <1>6, <1>8, Zenon DEF AttemptInv

\* The lockfile is read.
LEMMA LockStep == ASSUME AttemptInv, readLockfile PROVE AttemptInv'
<1> DEFINE lock == work[PACKAGE_LOCK_PATH]
<1>0. /\ pc = "git_lockfile" /\ Steady /\ UNCHANGED records
      /\ \/ pc' = "A5" /\ \E isTracked : held' = [held EXCEPT !.source.lock = lock, !.source.tracked = isTracked]
         \/ pc' = "git_failed" /\ UNCHANGED held
  BY Zenon DEF readLockfile
<1> HIDE DEF lock
<1>1. CASE pc' = "git_failed" /\ UNCHANGED held
  BY <1>0, <1>1, UnreadStep, Zenon
<1>2. CASE pc' = "A5" /\ \E isTracked : held' = [held EXCEPT !.source.lock = lock, !.source.tracked = isTracked]
  <2>1. PICK isTracked : held' = [held EXCEPT !.source.lock = lock, !.source.tracked = isTracked]
    BY <1>2, Zenon
  <2> DEFINE s == [held.source EXCEPT !.lock = lock, !.tracked = isTracked]
  <2>2. Past(StatusRead) /\ SourceShape(held.source)
    BY <1>0, Zenon DEF Past, StatusRead, TreeRead, AttemptInv, SourceInv
  <2>3. SourceShape(s) /\ s.commit = held.source.commit /\ s.dirty = held.source.dirty /\ s.tree = held.source.tree
        /\ s.lock = lock
    <3> DEFINE t == [held.source EXCEPT !.lock = lock]
    <3>1. SourceShape(t) /\ t.commit = held.source.commit /\ t.dirty = held.source.dirty /\ t.tree = held.source.tree
          /\ t.lock = lock
      BY <2>2 DEF SourceShape
    <3>2. s = [t EXCEPT !.tracked = isTracked]
      BY Zenon
    <3> HIDE DEF s, t
    <3> QED
      BY <3>1, <3>2, Zenon DEF SourceShape
  <2>4. held' = [held EXCEPT !.source = s]
    <3> DEFINE h == [held EXCEPT !.source = [held.source EXCEPT !.lock = lock]]
    <3>1. held' = [h EXCEPT !.source = [h.source EXCEPT !.tracked = isTracked]]
      BY <2>1, Zenon
    <3>2. h.source = [held.source EXCEPT !.lock = lock]
      BY Zenon DEF AttemptInv, ShapeInv, HeldShape
    <3>3. [h.source EXCEPT !.tracked = isTracked] = s
      BY <2>2, <3>2, Zenon DEF SourceShape
    <3>4. held' = [h EXCEPT !.source = s]
      BY <3>1, <3>3, Zenon
    <3> HIDE DEF s
    <3> QED
      BY <3>4, Zenon DEF AttemptInv, ShapeInv, HeldShape
  <2> HIDE DEF s
  <2>5. HeldShape(held') /\ held'.lines = held.lines /\ held'.written = held.written /\ held'.source = s
    BY <2>4, Zenon DEF AttemptInv, ShapeInv, HeldShape
  <2>6. /\ pc \in Live \ {"draft"} /\ pc' \in Live \ {"draft"} /\ Recorded(pc') = Recorded(pc)
    BY <1>0, <1>2, Zenon DEF Live, StatusRead, TreeRead, LockRead, Recorded
  <2>7. ShapeInv' /\ CheckInv' /\ DraftInv' /\ held'.written = 0
    BY <1>0, <2>5, <2>6, QuietStep, Zenon
  <2>8. UNCHANGED <<dirtyEntries, head, moved>> /\ lock = work'[PACKAGE_LOCK_PATH]
    BY <1>0, Zenon DEF Steady, dirtyEntries, lock
  <2>9. SourceInv'
    BY <1>2, <2>2, <2>3, <2>5, <2>7, <2>8, Zenon DEF AttemptInv, SourceInv, Past, Sourced, Synthesized, Scoped, Finishing
  <2> QED
    BY <2>7, <2>9, Zenon DEF AttemptInv
<1> QED
  BY <1>0, <1>1, <1>2, Zenon

\* A5 passes a clean work tree only.
LEMMA SourceStep == ASSUME AttemptInv, AssessSource PROVE AttemptInv'
<1>1. Steady
  BY Zenon DEF AssessSource
<1>2. ASSUME pc \in {"A5", "git_failed"} PROVE Checks("A6", held)
  BY <1>2 DEF Checks, AttemptInv, ShapeInv, Live, StatusRead, TreeRead, LockRead, Sourced, Recorded
<1>3. CASE pc = "git_failed" /\ record("A5", failed("SOURCE_PROVENANCE", {"GIT_STATE_UNREADABLE"}), "A6", held)
  BY <1>1, <1>2, <1>3, RefusedCheck, Zenon
<1>4. CASE pc = "A5" /\ record("A5", assessSourceProvenance(held.source), "A6", held)
  <2>1. Checked("A6", assessSourceProvenance(held.source), held)
    BY <1>1, <1>2, <1>4, RecordStep, Zenon
  <2>2. CASE pc' \in {"reject", "failed"}
    <3>1. pc' \notin StatusRead /\ held'.written = 0
      BY <2>1, <2>2, Zenon DEF Checked, StatusRead, TreeRead, LockRead, Sourced, Synthesized, Scoped, Finishing
    <3> QED
      BY <2>1, <3>1, SourceEnds, Zenon DEF AttemptInv, Checked
  <2>3. CASE pc' = "A6" /\ assessSourceProvenance(held.source).passed
    <3>1. held.source.dirty = {} /\ held.source.tree # Absent
      <4>1. sourceProvenanceReasons(held.source) = {}
        BY <2>3, Zenon DEF assessSourceProvenance, verdictOf, passed, failed
      <4> QED
        BY <4>1, Zenon DEF sourceProvenanceReasons, Reason
    <3>2. Past(StatusRead) /\ Past(TreeRead) /\ Past(LockRead)
      BY <1>4, Zenon DEF Past, StatusRead, TreeRead, LockRead
    <3>3. UNCHANGED <<dirtyEntries, head, work, moved>> /\ held'.source = held.source /\ held'.written = 0
      BY <1>1, <2>1, Zenon DEF Steady, dirtyEntries, Checked
    <3>4. SourceInv'
      BY <2>3, <3>1, <3>2, <3>3, Zenon DEF AttemptInv, SourceInv, Past, Synthesized, Scoped, Finishing
    <3> QED
      BY <2>1, <3>4, Zenon DEF AttemptInv, Checked
  <2> QED
    BY <2>1, <2>2, <2>3, Zenon DEF Checked
<1> QED
  BY <1>3, <1>4, Zenon DEF AssessSource

\* A12 keeps what the work tree and the packages give.
LEMMA SynthesisStep == ASSUME AttemptInv, synthesizeAssembly PROVE AttemptInv'
<1> DEFINE resolved == resolveBundles(AssetEntryPoints, work, installed)
           failure == IF work[INFRA_PATH] = 0 \/ ~ resolved.ok THEN {"SYNTH_FAILED"} ELSE {}
           verdict == verdictOf("SAFETY", failure)
           new == SynthOf(work, installed, ExecutionId)
           keep == IF verdict.passed THEN [held EXCEPT !.assembly = new] ELSE held
<1>0. /\ pc = "synthesize" /\ Steady
      /\ \/ record("A12", verdict, "scope", keep)
         \/ pc' = "synthesis_failed" /\ UNCHANGED <<held, records>>
  BY Zenon DEF synthesizeAssembly
<1> HIDE DEF resolved, failure, verdict
<1>2. IsAssembly(new)
  <2> DEFINE content(f) ==
        CASE f = "manifest.json" -> {<<"suc:run_id", ExecutionId>>, <<"suc:owner", "study">>}
          [] f = "template.json" -> TemplateOf[<<work[INFRA_PATH], ExecutionId>>]
          [] f = "asset" -> BundleOf(AssetEntryPoints, work, installed)
          [] OTHER -> Absent
  <2>1. new = [f \in ASSEMBLY_PATHS |-> content(f)]
    BY Zenon DEF SynthOf
  <2> HIDE DEF content, new
  <2> QED
    BY <2>1, Zenon DEF IsAssembly
<1> HIDE DEF new
<1>8. CASE pc' = "synthesis_failed" /\ UNCHANGED <<held, records>>
  BY <1>0, <1>8, UnreadStep, Zenon
<1>3. /\ HeldShape(keep) /\ keep.lines = held.lines /\ keep.written = held.written /\ keep.source = held.source
      /\ (verdict.passed => keep.assembly = new)
  BY Zenon DEF AttemptInv, ShapeInv, HeldShape
<1> HIDE DEF keep
<1> SUFFICES ASSUME record("A12", verdict, "scope", keep) PROVE AttemptInv'
  BY <1>0, <1>8, Zenon
<1>1. pc = "synthesize" /\ Steady /\ record("A12", verdict, "scope", keep)
  BY <1>0, Zenon
<1>4. Checks("scope", keep)
  BY <1>1, <1>3 DEF Checks, Live, StatusRead, TreeRead, LockRead, Sourced, Synthesized, Recorded
<1>5. Checked("scope", verdict, keep)
  BY <1>1, <1>4, RecordStep, Zenon
<1>6. CASE pc' \in {"reject", "failed"}
  <2>1. pc' \notin StatusRead /\ held'.written = 0
    BY <1>5, <1>6, Zenon DEF Checked, StatusRead, TreeRead, LockRead, Sourced, Synthesized, Scoped, Finishing
  <2> QED
    BY <1>5, <2>1, SourceEnds, Zenon DEF AttemptInv, Checked
<1>7. CASE pc' = "scope" /\ verdict.passed
  <2>1. Past(StatusRead) /\ Past(TreeRead) /\ Past(LockRead) /\ Past(Sourced)
    BY <1>1, Zenon DEF Past, StatusRead, TreeRead, LockRead, Sourced
  <2>2. UNCHANGED <<dirtyEntries, head, work, moved>> /\ new = SynthOf(work, installed, ExecutionId)'
    BY <1>1, Zenon DEF Steady, dirtyEntries, new, ExecutionId
  <2>3. held'.source = held.source /\ held'.written = 0 /\ held'.assembly = new
    BY <1>3, <1>5, <1>7, Zenon DEF Checked
  <2>4. SourceInv'
    BY <1>2, <1>7, <2>1, <2>2, <2>3, Zenon DEF AttemptInv, SourceInv, Past, Scoped, Finishing
  <2> QED
    BY <1>5, <2>4, Zenon DEF AttemptInv, Checked
<1> QED
  BY <1>5, <1>6, <1>7, Zenon DEF Checked

\* A synthesis that was refused.
LEMMA RefuseStep == ASSUME AttemptInv, RefuseAssembly PROVE AttemptInv'
<1>1. PICK reason : /\ pc = "synthesis_failed" /\ Steady
                    /\ record("A12", failed("SAFETY", {reason}), "scope", held)
  BY Zenon DEF RefuseAssembly
<1>2. Checks("scope", held)
  BY <1>1 DEF Checks, AttemptInv, ShapeInv, Live, StatusRead, TreeRead, LockRead, Sourced, Synthesized, Recorded
<1> QED
  BY <1>1, <1>2, RefusedCheck, Zenon

\* One read of the recomputation.
LEMMA RecomputeStep == ASSUME AttemptInv, RecomputeScope PROVE AttemptInv'
<1> DEFINE next == recomputeScopeSnapshot(held.rc, head, work, installed, <<>>)
<1>1. /\ pc = "scope" /\ Steady
      /\ \/ UNCHANGED <<pc, records>> /\ held' = [held EXCEPT !.rc = next.value]
         \/ record("A13", failed("QUALIFICATION", next.error), "A14", held)
         \/ UNCHANGED <<pc, records>> /\ held' = [held EXCEPT !.rc.at = "threw"]
  BY Zenon DEF RecomputeScope
<1> HIDE DEF next
<1>2. CASE record("A13", failed("QUALIFICATION", next.error), "A14", held)
  <2>1. Checks("A14", held)
    BY <1>1 DEF Checks, AttemptInv, ShapeInv, Live, StatusRead, TreeRead, LockRead, Sourced, Synthesized, Scoped,
                Recorded
  <2> QED
    BY <1>1, <1>2, <2>1, RefusedCheck, Zenon
<1>3. CASE UNCHANGED <<pc, records>> /\ \E rc : held' = [held EXCEPT !.rc = rc]
  <2>1. /\ HeldShape(held') /\ held'.lines = held.lines /\ held'.written = held.written
        /\ held'.source = held.source /\ held'.assembly = held.assembly /\ held'.snapshot = held.snapshot
    BY <1>3, Zenon DEF AttemptInv, ShapeInv, HeldShape
  <2>2. pc \in Live \ {"draft"}
    BY <1>1, Zenon DEF Live, StatusRead, TreeRead, LockRead, Sourced, Synthesized
  <2>3. ShapeInv' /\ CheckInv' /\ DraftInv' /\ held'.written = 0
    BY <1>1, <1>3, <2>1, <2>2, QuietStep, Zenon
  <2>4. NoFurther
    BY <1>3, <2>3, Zenon DEF NoFurther, Past
  <2> QED
    BY <1>1, <2>1, <2>3, <2>4, SourceKept, Zenon DEF AttemptInv
<1> QED
  <2>1. ASSUME held' = [held EXCEPT !.rc.at = "threw"] PROVE \E rc : held' = [held EXCEPT !.rc = rc]
    BY <2>1, Zenon
  <2> QED
    BY <1>1, <1>2, <1>3, <2>1, Zenon

\* A snapshot that could be computed is one.
LEMMA SnapshotFacts ==
  ASSUME AbsentOK, NEW rc, NEW template, NEW selected,
         assessTransportScope(rc, template, selected).verdict.passed
  PROVE  assessTransportScope(rc, template, selected).snapshot # Absent
<1> DEFINE c == computeScopeSnapshot(rc, template)
           s == IF rc.at = "threw" THEN Err({"SOURCE_READ_FAILED"}) ELSE c
<1>1. c.ok => c.value # Absent
  BY AbsentOK, Zenon DEF AbsentOK, computeScopeSnapshot, Ok, Err
<1> HIDE DEF c
<1>2. s.ok => s.value # Absent
  BY <1>1, Zenon DEF Err
<1> HIDE DEF s
<1> DEFINE a == assessTransportScope(rc, template, selected)
           no == [verdict |-> failedWithAll("QUALIFICATION", s.error, "SCOPE_NOT_RECOMPUTED"), snapshot |-> Absent]
<1>3. ~ s.ok => a = no
  BY Zenon DEF assessTransportScope, s, c
<1>4. ~ no.verdict.passed
  BY Zenon DEF failedWithAll, failed
<1>5. s.ok => a.snapshot = s.value
  BY Zenon DEF assessTransportScope, s, c
<1>6. a.verdict.passed
  BY Zenon
<1> HIDE DEF a, no
<1>7. a.snapshot # Absent
  BY <1>2, <1>3, <1>4, <1>5, <1>6, Zenon
<1> QED
  BY <1>7, Zenon DEF a

\* A13 passes with a snapshot.
LEMMA ScopeStep == ASSUME AbsentOK, AttemptInv, AssessScope PROVE AttemptInv'
<1> DEFINE scope == assessTransportScope(held.rc, held.assembly["template.json"], held.selected)
           keep == [held EXCEPT !.snapshot = scope.snapshot]
<1>1. pc = "scope" /\ Steady /\ record("A13", scope.verdict, "A14", keep)
  BY Zenon DEF AssessScope
<1>2. scope.verdict.passed => scope.snapshot # Absent
  BY AbsentOK, SnapshotFacts, Zenon
<1> HIDE DEF scope
<1>3. /\ HeldShape(keep) /\ keep.lines = held.lines /\ keep.written = held.written /\ keep.source = held.source
      /\ keep.assembly = held.assembly /\ keep.snapshot = scope.snapshot
  BY DEF AttemptInv, ShapeInv, HeldShape
<1> HIDE DEF keep
<1>4. Checks("A14", keep)
  BY <1>1, <1>3 DEF Checks, Live, StatusRead, TreeRead, LockRead, Sourced, Synthesized, Scoped, Recorded
<1>5. Checked("A14", scope.verdict, keep)
  BY <1>1, <1>4, RecordStep, Zenon
<1>6. CASE pc' \in {"reject", "failed"}
  <2>1. pc' \notin StatusRead /\ held'.written = 0
    BY <1>5, <1>6, Zenon DEF Checked, StatusRead, TreeRead, LockRead, Sourced, Synthesized, Scoped, Finishing
  <2> QED
    BY <1>5, <2>1, SourceEnds, Zenon DEF AttemptInv, Checked
<1>7. CASE pc' = "A14" /\ scope.verdict.passed
  <2>1. Past(StatusRead) /\ Past(TreeRead) /\ Past(LockRead) /\ Past(Sourced) /\ Past(Synthesized)
    BY <1>1, Zenon DEF Past, StatusRead, TreeRead, LockRead, Sourced, Synthesized
  <2>2. UNCHANGED <<dirtyEntries, ExecutionId, head, work, installed, moved>>
    BY <1>1, Zenon DEF Steady, dirtyEntries, ExecutionId
  <2>3. held'.source = held.source /\ held'.written = 0 /\ held'.assembly = held.assembly /\ held'.snapshot # Absent
    BY <1>2, <1>3, <1>5, <1>7, Zenon DEF Checked
  <2>4. SourceInv'
    BY <1>7, <2>1, <2>2, <2>3, Zenon DEF AttemptInv, SourceInv, Past
  <2> QED
    BY <1>5, <2>4, Zenon DEF AttemptInv, Checked
<1> QED
  BY <1>5, <1>6, <1>7, Zenon DEF Checked

\* The catalogue is read, or the attempt fails.
LEMMA CatalogueStep == ASSUME AttemptInv, readSchemaCatalog PROVE AttemptInv'
<1>1. pc = "catalogue" /\ Steady /\ UNCHANGED <<held, records>> /\ pc' \in {"A15", "failed"}
  BY Zenon DEF readSchemaCatalog
<1>2. /\ pc \in Live \ {"draft"} /\ "A15" \in Live \ {"draft"} /\ Recorded("A15") = Recorded(pc)
  BY <1>1, Zenon DEF Live, StatusRead, TreeRead, LockRead, Sourced, Synthesized, Scoped, Finishing, Recorded
<1>3. ShapeInv' /\ CheckInv' /\ DraftInv' /\ held'.written = 0
  <2>1. HeldShape(held')
    BY <1>1, Zenon DEF AttemptInv, ShapeInv
  <2> QED
    BY <1>1, <1>2, <2>1, QuietStep, Zenon
<1>4. NoFurther
  BY <1>1, <1>3, Zenon DEF NoFurther, Past, StatusRead, TreeRead, LockRead, Sourced, Synthesized, Scoped, Finishing
<1> QED
  BY <1>1, <1>3, <1>4, SourceKept, Zenon DEF AttemptInv

\* A15 is recorded.
LEMMA ManifestStep == ASSUME AttemptInv, RecordManifest PROVE AttemptInv'
<1>1. pc = "A15" /\ Steady /\ record("A15", passed, "finalize", held)
  BY Zenon DEF RecordManifest
<1>2. Checks("finalize", held)
  BY <1>1 DEF Checks, AttemptInv, ShapeInv, Live, StatusRead, TreeRead, LockRead, Sourced, Synthesized, Scoped, Finishing,
              Recorded
<1>3. Checked("finalize", passed, held)
  BY <1>1, <1>2, RecordStep, Zenon
<1>4. pc' \in {"finalize", "reject", "failed"} /\ held'.written = 0
  BY <1>3, Zenon DEF Checked
<1>5. NoFurther
  BY <1>1, <1>4, Zenon DEF NoFurther, Past, StatusRead, TreeRead, LockRead, Sourced, Synthesized, Scoped, Finishing
<1> QED
  BY <1>1, <1>3, <1>5, SourceKept, Zenon DEF AttemptInv, Checked

\* The journal is made final before the draft.
LEMMA FinalStep == ASSUME AttemptInv, finalize PROVE AttemptInv'
<1>1. pc = "finalize" /\ Steady /\ UNCHANGED held
  BY Zenon DEF finalize
<1>2. CASE pc' = "failed" /\ UNCHANGED records
  <2>1. outcome' # "admitted" /\ UNCHANGED <<journal, rejection, package>>
    BY <1>1, <1>2, Zenon DEF AttemptInv, DraftInv, records
  <2> QED
    BY <1>1, <1>2, <2>1, EndStep, Zenon
<1>3. CASE pc' = "draft" /\ journal' = [journal EXCEPT !.final = TRUE] /\ UNCHANGED <<rejection, package, outcome>>
  <2>0. journal' = [lines |-> journal.lines, final |-> TRUE] /\ journal'.lines = journal.lines /\ journal'.final = TRUE
    BY <1>3, Zenon DEF AttemptInv, ShapeInv
  <2>1. ShapeInv'
    BY <1>1, <1>3, <2>0, Zenon DEF AttemptInv, ShapeInv, Steady
  <2>2. pc \in Live /\ Recorded(pc) = 15 /\ Recorded(pc') = 15
    BY <1>1, <1>3, Zenon DEF Recorded, Live, StatusRead, TreeRead, LockRead, Sourced, Synthesized, Scoped, Finishing
  <2>3. CheckInv'
    BY <1>3, <2>0, <2>2, Zenon DEF AttemptInv, CheckInv, AllPassed
  <2>4. NoFurther
    BY <1>1, <1>3, Zenon DEF NoFurther, Past, StatusRead, TreeRead, LockRead, Sourced, Synthesized, Scoped, Finishing
  <2>5. SourceInv'
    BY <1>1, <2>4, SourceKept, Zenon DEF AttemptInv
  <2>6. held.written = 0 /\ outcome # "admitted"
    BY <1>1, Zenon DEF AttemptInv, DraftInv
  <2>7. DraftInv'
    BY <1>1, <1>3, <2>6 DEF AttemptInv, DraftInv
  <2> QED
    BY <2>1, <2>3, <2>5, <2>7, Zenon DEF AttemptInv
<1> QED
  BY <1>2, <1>3, Zenon DEF finalize

\* One write of the draft.
LEMMA WriteStep == ASSUME AttemptInv, writePackageDraft PROVE AttemptInv'
<1> DEFINE n == held.written
           file == DraftSteps[n + 1]
           next == [held EXCEPT !.written = @ + 1]
<1>1. /\ pc = "draft" /\ n \in 0 .. 9 /\ Steady /\ UNCHANGED <<journal, rejection, outcome>>
      /\ \/ /\ file # "reread" /\ UNCHANGED pc /\ held' = next
            /\ package' = [package EXCEPT ![file] = DraftContent(file)]
         \/ /\ file = "reread" /\ UNCHANGED <<package, pc>> /\ held' = next
         \/ pc' = "failed" /\ UNCHANGED <<held, package>>
  BY DraftFacts DEF writePackageDraft, AttemptInv, DraftInv
<1>2. outcome # "admitted" /\ pc \in Live /\ Past({"draft"})
  BY <1>1, Zenon DEF AttemptInv, DraftInv, Past, Live, StatusRead, TreeRead, LockRead, Sourced, Synthesized, Scoped, Finishing
<1>3. CASE pc' = "failed" /\ UNCHANGED <<held, package>>
  BY <1>1, <1>2, <1>3, EndStep, Zenon
<1>4. CASE UNCHANGED pc /\ held' = next
  <2>1. /\ HeldShape(held') /\ held'.lines = held.lines /\ held'.source = held.source
        /\ held'.assembly = held.assembly /\ held'.snapshot = held.snapshot /\ held'.written = n + 1
    BY <1>4, Zenon DEF AttemptInv, ShapeInv, HeldShape
  <2>2. \A f : DraftContent(f)' = DraftContent(f)
    BY <1>1, <2>1, Zenon DEF DraftContent, buildExecutionManifest, ExecutionId, Steady
  <2>3. package' = [f \in PackageFiles |-> package'[f]]
    BY <1>1, <1>3, <1>4, Zenon DEF AttemptInv, ShapeInv
  <2>4. ShapeInv'
    BY <1>1, <2>1, <2>3, Zenon DEF AttemptInv, ShapeInv, Steady
  <2>5. CheckInv'
    BY <1>1, <1>2, <1>4, Zenon DEF AttemptInv, CheckInv, AllPassed
  <2>6. NoFurther
    BY <1>1, <1>4, Zenon DEF NoFurther, Past, StatusRead, TreeRead, LockRead, Sourced, Synthesized, Scoped, Finishing
  <2>7. SourceInv'
    BY <1>1, <2>1, <2>6, SourceKept, Zenon DEF AttemptInv
  <2>8. ASSUME NEW i \in 1 .. 10, DraftSteps[i] # "reread"
        PROVE  IF i <= n + 1 THEN Wrote(DraftSteps[i])' ELSE package'[DraftSteps[i]] = Absent
    <3>1. DraftSteps[i] \in PackageFiles /\ (i # n + 1 => DraftSteps[i] # file)
      BY <1>1, <2>8, StepOfFile
    <3>2. CASE i # n + 1
      <4>1. package'[DraftSteps[i]] = package[DraftSteps[i]]
        BY <1>1, <1>3, <3>1, <3>2, Zenon DEF AttemptInv, ShapeInv
      <4>2. i <= n + 1 <=> i <= n
        BY <1>1, <3>2
      <4>3. IF i <= n THEN Wrote(DraftSteps[i]) ELSE package[DraftSteps[i]] = Absent
        BY <2>8, Zenon DEF AttemptInv, DraftInv
      <4>4. Wrote(DraftSteps[i]) => Wrote(DraftSteps[i])'
        BY <1>1, <2>1, <2>2, <4>1, Zenon DEF Wrote, Steady
      <4> QED
        BY <4>1, <4>2, <4>3, <4>4, Zenon
    <3>3. CASE i = n + 1
      <4>1. package'[DraftSteps[i]] = DraftContent(DraftSteps[i])
        BY <1>1, <1>4, <2>1, <2>8, <3>1, <3>3, Zenon DEF AttemptInv, ShapeInv
      <4>2. IsAssembly(held.assembly)
        BY <1>1, Zenon DEF AttemptInv, SourceInv, Past, Synthesized, Scoped, Finishing
      <4>3. /\ DraftContent("assembly") = held.assembly
            /\ DraftContent("deployment_assembly_inventory") =
                 [files |-> held.assembly, inventory_sha256 |-> held.assembly]
        BY Zenon DEF DraftContent
      <4>5. IsInventory([files |-> held.assembly, inventory_sha256 |-> held.assembly])
        BY <4>2, Zenon DEF IsInventory
      <4>4. Wrote(DraftSteps[i])'
        <5> DEFINE file2 == DraftSteps[i]
                   record2 == [files |-> held.assembly, inventory_sha256 |-> held.assembly]
        <5>0. record2.files = held.assembly /\ IsInventory(record2)
          BY <4>5, Zenon
        <5>1. package'[file2] = DraftContent(file2) /\ DraftContent(file2)' = DraftContent(file2)
          BY <2>2, <4>1, Zenon
        <5>2. DraftContent("deployment_assembly_inventory") = record2
          BY <4>3, Zenon
        <5> HIDE DEF file2, record2
        <5>3. CASE file2 = "assembly"
          BY <2>1, <4>2, <4>3, <5>1, <5>3, Zenon DEF Wrote, file2
        <5>4. CASE file2 = "deployment_assembly_inventory"
          BY <2>1, <5>0, <5>1, <5>2, <5>4, Zenon DEF Wrote, file2
        <5>5. CASE file2 \notin {"assembly", "deployment_assembly_inventory"}
          BY <5>1, <5>5, Zenon DEF Wrote, file2
        <5> QED
          BY <5>3, <5>4, <5>5, Zenon
      <4> QED
        BY <3>3, <4>4
    <3> QED
      BY <3>2, <3>3, Zenon
  <2>9. DraftInv'
    BY <1>1, <1>2, <1>4, <2>1, <2>8 DEF DraftInv
  <2> QED
    BY <2>4, <2>5, <2>7, <2>9, Zenon DEF AttemptInv
<1> QED
  BY <1>1, <1>3, <1>4, Zenon

\* The ends of an attempt.
LEMMA EndSteps == ASSUME AttemptInv, Admitted \/ reject \/ finalizeRejected \/ fail \/ Crash PROVE AttemptInv'
<1>1. pc # "done" => outcome # "admitted"
  BY Zenon DEF AttemptInv, DraftInv
<1>2. pc \in {"reject", "rejected"} => held.written = 0
  BY Zenon DEF AttemptInv, DraftInv
<1>3. CASE Admitted
  BY <1>3, DraftFacts, EndStep, Zenon DEF Admitted
<1>4. CASE reject
  BY <1>1, <1>2, <1>4, EndStep, Zenon DEF reject, records
<1>5. CASE finalizeRejected
  BY <1>1, <1>2, <1>5, EndStep, Zenon DEF finalizeRejected, records
<1>6. CASE fail
  BY <1>1, <1>6, EndStep, Zenon DEF fail
<1>7. CASE Crash
  BY <1>1, <1>7, EndStep, Zenon DEF Crash, records
<1> QED
  BY <1>3, <1>4, <1>5, <1>6, <1>7, Zenon

\* People change the repository: what was read is out of date from then on.
LEMMA ChangingStep == ASSUME AbsentOK, AttemptInv, Changing PROVE AttemptInv'
<1>1. /\ changes' = changes + 1 /\ UNCHANGED <<world, pc, held, journal, rejection, package, outcome>>
      /\ moved' = (moved \/ held.source # Absent)
  BY Zenon DEF Changing, records
<1>2. ShapeInv'
  BY <1>1 DEF AttemptInv, ShapeInv
<1>3. CheckInv'
  BY <1>1, Zenon DEF AttemptInv, CheckInv, AllPassed, Past
<1>4. SourceInv'
  <2>1. Past(StatusRead) => moved'
    BY <1>1, AbsentOK, Zenon DEF AttemptInv, SourceInv, SourceShape, AbsentOK
  <2>2. /\ Past(TreeRead) => Past(StatusRead)
        /\ Past(LockRead) => Past(StatusRead)
        /\ Past(Synthesized) => Past(StatusRead)
    BY Zenon DEF Past, StatusRead, TreeRead, LockRead, Sourced
  <2> QED
    BY <1>1, <2>1, <2>2, Zenon DEF AttemptInv, SourceInv, Past
<1>5. \A file : Wrote(file) => Wrote(file)'
  <2>1. changes' # 0
    BY <1>1 DEF AttemptInv, ShapeInv
  <2> QED
    BY <1>1, <2>1, Zenon DEF Wrote, DraftContent, buildExecutionManifest, ExecutionId
<1>6. DraftInv'
  BY <1>1, <1>5, Zenon DEF AttemptInv, DraftInv
<1> QED
  BY <1>2, <1>3, <1>4, <1>6, Zenon DEF AttemptInv

\* A file of the package is changed that may be.
LEMMA FileChanges ==
  ASSUME AttemptInv, NEW file \in PackageFiles, NEW new, changes' = changes + 1,
         package[file] # Absent, package' = [package EXCEPT ![file] = new],
         \/ file = "assembly" /\ IsAssembly(new)
         \/ file = "deployment_assembly_inventory" /\ IsInventory(new),
         UNCHANGED <<world, head, work, installed, moved, pc, held, journal, rejection, outcome>>
  PROVE  AttemptInv'
<1>4. /\ package' = [g \in PackageFiles |-> package'[g]] /\ package'[file] = new
      /\ \A g \in PackageFiles \ {file} : package'[g] = package[g]
  BY Zenon DEF AttemptInv, ShapeInv
<1>5. ShapeInv'
  BY <1>4 DEF AttemptInv, ShapeInv
<1>6. CheckInv'
  BY Zenon DEF AttemptInv, CheckInv, AllPassed, Past
<1>7. SourceInv'
  <2>1. UNCHANGED <<dirtyEntries, ExecutionId>>
    BY Zenon DEF dirtyEntries, ExecutionId
  <2> QED
    BY <2>1, Zenon DEF AttemptInv, SourceInv, Past
<1>8. ASSUME NEW i \in 1 .. 10, DraftSteps[i] # "reread"
      PROVE  IF i <= held.written THEN Wrote(DraftSteps[i])' ELSE package'[DraftSteps[i]] = Absent
  <2>1. DraftSteps[i] \in PackageFiles
    BY <1>8, StepOfFile, Zenon
  <2>2. IF i <= held.written THEN Wrote(DraftSteps[i]) ELSE package[DraftSteps[i]] = Absent
    BY <1>8, Zenon DEF AttemptInv, DraftInv
  <2>3. changes' # 0
    BY DEF AttemptInv, ShapeInv
  <2>4. CASE DraftSteps[i] = file
    <3>1. i <= held.written
      BY <2>2, <2>4, Zenon
    <3>2. Wrote(file)'
      BY <1>4, <2>3, Zenon DEF Wrote
    <3> QED
      BY <2>4, <3>1, <3>2, Zenon
  <2>5. CASE DraftSteps[i] # file
    <3>1. package'[DraftSteps[i]] = package[DraftSteps[i]]
      BY <1>4, <2>1, <2>5, Zenon
    <3>2. Wrote(DraftSteps[i]) => Wrote(DraftSteps[i])'
      BY <2>3, <3>1, Zenon DEF Wrote, DraftContent, buildExecutionManifest, ExecutionId
    <3> QED
      BY <2>2, <3>1, <3>2, Zenon
  <2> QED
    BY <2>4, <2>5, Zenon
<1>9. DraftInv'
  BY <1>8, Zenon DEF AttemptInv, DraftInv
<1> QED
  BY <1>5, <1>6, <1>7, <1>9, Zenon DEF AttemptInv

\* What is written of the assembly and of its inventory is one.
LEMMA WrittenFacts ==
  ASSUME AttemptInv
  PROVE  /\ package["assembly"] # Absent => IsAssembly(package["assembly"])
         /\ package["deployment_assembly_inventory"] # Absent => IsInventory(package["deployment_assembly_inventory"])
<1>1. DraftSteps[6] = "assembly" /\ DraftSteps[8] = "deployment_assembly_inventory"
  BY DraftFacts, Zenon
<1>2. /\ package["assembly"] # Absent => Wrote("assembly")
      /\ package["deployment_assembly_inventory"] # Absent => Wrote("deployment_assembly_inventory")
  BY <1>1 DEF AttemptInv, DraftInv
<1> QED
  BY <1>2, Zenon DEF Wrote

\* A file of the package's assembly is changed.
LEMMA FrozenStep == ASSUME AttemptInv, EditFrozen PROVE AttemptInv'
<1>0. PICK f \in ASSEMBLY_PATHS : \E content :
        /\ package["assembly"] # Absent /\ changes' = changes + 1
        /\ package' = [package EXCEPT !["assembly"] = [package["assembly"] EXCEPT ![f] = content]]
        /\ UNCHANGED <<world, head, work, installed, moved, pc, held, journal, rejection, outcome>>
  BY Zenon DEF EditFrozen, repository
<1>1. PICK content :
        /\ package["assembly"] # Absent /\ changes' = changes + 1
        /\ package' = [package EXCEPT !["assembly"] = [package["assembly"] EXCEPT ![f] = content]]
        /\ UNCHANGED <<world, head, work, installed, moved, pc, held, journal, rejection, outcome>>
  BY <1>0, Zenon
<1> DEFINE new == [package["assembly"] EXCEPT ![f] = content]
<1>2. IsAssembly(package["assembly"]) /\ "assembly" \in PackageFiles
  BY <1>1, WrittenFacts, PackageFacts, Zenon
<1>3. IsAssembly(new)
  BY <1>2, Zenon DEF IsAssembly
<1> HIDE DEF new
<1> QED
  BY <1>1, <1>2, <1>3, FileChanges, Zenon DEF new

\* An entry of the inventory is changed.
LEMMA InventoryStep == ASSUME AttemptInv, EditInventory PROVE AttemptInv'
<1> DEFINE at == "deployment_assembly_inventory"
           inventory == package[at]
           changed(f) == [inventory.files EXCEPT ![f] = {}]
           new(f, digest) == [files |-> changed(f), inventory_sha256 |-> digest]
<1>0. \E f \in ASSEMBLY_FILES : \E digest :
        /\ package[at] # Absent /\ changes' = changes + 1 /\ package' = [package EXCEPT ![at] = new(f, digest)]
        /\ UNCHANGED <<world, head, work, installed, moved, pc, held, journal, rejection, outcome>>
  BY Zenon DEF EditInventory, repository
<1>1. PICK f, digest :
        /\ package[at] # Absent /\ changes' = changes + 1 /\ package' = [package EXCEPT ![at] = new(f, digest)]
        /\ UNCHANGED <<world, head, work, installed, moved, pc, held, journal, rejection, outcome>>
  BY <1>0, Zenon
<1>2. IsAssembly(inventory.files) /\ at \in PackageFiles
  BY <1>1, WrittenFacts, PackageFacts, Zenon DEF IsInventory
<1>3. IsAssembly(changed(f))
  BY <1>2, Zenon DEF IsAssembly
<1> HIDE DEF changed
<1>4. IsInventory(new(f, digest))
  BY <1>3, Zenon DEF IsInventory
<1> HIDE DEF new
<1> QED
  BY <1>1, <1>2, <1>4, FileChanges, Zenon

\* Every step of the attempt, and of people beside it.
LEMMA AttemptStep ==
  ASSUME AbsentOK, AttemptInv, EditFile \/ Commit \/ Install \/ EditFrozen \/ EditInventory \/ admitExecution
  PROVE  AttemptInv'
<1>1. CASE EditFile \/ Commit \/ Install
  BY <1>1, AbsentOK, ChangingStep, Zenon DEF EditFile, Commit, Install
<1>2. CASE EditFrozen \/ EditInventory
  BY <1>2, FrozenStep, InventoryStep, Zenon
<1>3. CASE admitExecution
  BY <1>3, AbsentOK, ReadingStep, StatusStep, TreeStep, LockStep, SourceStep, SynthesisStep, RefuseStep, RecomputeStep, ScopeStep,
     CatalogueStep, ManifestStep, FinalStep, WriteStep, EndSteps, Zenon DEF admitExecution
<1> QED
  BY <1>1, <1>2, <1>3, Zenon

\* Provisioning leaves the attempt alone.
LEMMA AttemptKept == ASSUME AttemptInv, SteadyAdmission PROVE AttemptInv'
<1>1. UNCHANGED <<world, head, work, installed, changes, moved, pc, held, journal, rejection, package, outcome>>
  BY Zenon DEF SteadyAdmission, records
<1>2. UNCHANGED <<dirtyEntries, ExecutionId>>
  BY <1>1, Zenon DEF dirtyEntries, ExecutionId
<1>3. ShapeInv' /\ CheckInv' /\ SourceInv'
  BY <1>1, <1>2, Zenon DEF AttemptInv, ShapeInv, CheckInv, AllPassed, SourceInv, Past
<1>4. \A file : Wrote(file) => Wrote(file)'
  BY <1>1, Zenon DEF Wrote, DraftContent, buildExecutionManifest, ExecutionId
<1>5. DraftInv'
  BY <1>1, <1>4, Zenon DEF AttemptInv, DraftInv
<1> QED
  BY <1>3, <1>5, Zenon DEF AttemptInv

\* An attempt starts with nothing.
LEMMA AttemptInit == ASSUME AdmissionInit PROVE AttemptInv
<1>1. /\ pc = "A1" /\ held = NothingHeld /\ journal = [lines |-> <<>>, final |-> FALSE] /\ rejection = Absent
      /\ package = [f \in PackageFiles |-> Absent] /\ outcome = "none" /\ changes = 0 /\ moved = FALSE /\ world \in Worlds
  BY Zenon DEF AdmissionInit
<1>2. HeldShape(held) /\ held.lines = <<>> /\ held.written = 0
  BY <1>1, Zenon DEF NothingHeld, HeldShape
<1>3. IsLog(<<>>)
  <2>1. <<>> \in Seq({})
    OBVIOUS
  <2> QED
    BY <2>1, Zenon DEF IsLog
<1>4. journal = [lines |-> journal.lines, final |-> journal.final] /\ journal.lines = <<>> /\ journal.final = FALSE
  BY <1>1, Zenon
<1>5. ShapeInv
  BY <1>1, <1>2, <1>3, <1>4, Zenon DEF ShapeInv
<1>6. CheckInv
  BY <1>1, <1>2, <1>4 DEF CheckInv, AllPassed, Past, Recorded
<1>7. SourceInv
  BY <1>1, <1>2, Zenon DEF SourceInv, Past, StatusRead, TreeRead, LockRead, Sourced, Synthesized, Scoped, Finishing
<1>8. DraftInv
  BY <1>1, <1>2, StepOfFile DEF DraftInv
<1> QED
  BY <1>5, <1>6, <1>7, <1>8, Zenon DEF AttemptInv

-----------------------------------------------------------------------------
(* Provisioning. *)

\* Before cdk deploy; and with a copy that was compared with the inventory.
Verified == {"copy_verified", "deploy_started", "deploy"}
Copying == {"target", "listing", "copy"}
Before == {"idle", "tags", "inputs"} \cup Copying \cup Verified

DepShape(d) ==
  d = [tags |-> d.tags, inventory |-> d.inventory, sources |-> d.sources, copy |-> d.copy, copied |-> d.copied,
       deployed |-> d.deployed, outputs |-> d.outputs, described |-> d.described, stack_id |-> d.stack_id,
       resources |-> d.resources, invalid |-> d.invalid, listed |-> d.listed, requests |-> d.requests,
       configured |-> d.configured, malformed |-> d.malformed, reasons |-> d.reasons]

\* How many events are journaled there, when nothing went wrong.
EventCount(at) ==
  CASE at \in {"idle", "tags", "inputs", "target", "listing", "copy", "copy_verified"} -> 0
    [] at = "deploy_started" -> 1
    [] at \in {"deploy", "deploy_ended"} -> 2
    [] at \in {"reverify", "reverified"} -> 3
    [] OTHER -> 4

Journaled(n) == Len(events) = n /\ \A i \in 1 .. n : events[i] = EventsInOrder[i]

\* The inventory that was read carries the digest of the admitted one.
OfSubject(inventory) == IsInventory(inventory) /\ inventory.inventory_sha256 = held.assembly

\* Only an admitted execution is provisioned, from a copy of what was admitted.
CopyInv ==
  /\ DepShape(dep) /\ IsAssembly(dep.copy)
  /\ dpc # "idle" => outcome = "admitted"
  /\ dpc \in Copying => OfSubject(dep.inventory)
  /\ dpc \in Verified => dep.copy = held.assembly
  /\ stack # Absent => outcome = "admitted" /\ stack.from = held.assembly

\* A deployment that succeeded left a complete stack, and what was described is that stack.
DeployInv ==
  /\ dpc \in Before => ~ dep.deployed /\ dep.described = Absent
  /\ dep.deployed => stack # Absent /\ stack.status = "CREATE_COMPLETE" /\ \A r \in stack.resources : r.complete
  /\ dep.described # Absent => dep.described = stack

\* Without a reason, every event so far is journaled.
EventInv ==
  /\ IsLog(events)
  /\ dep.reasons = {} =>
       /\ dpc # "not_deployed" /\ (dpc = "deploy_ended" => dep.deployed)
       /\ dpc \notin {"write", "ended"} => Journaled(EventCount(dpc))

\* What a manifest without a reason stands for.
Earned ==
  /\ dep.deployed /\ dep.described # Absent /\ dep.described.tags = dep.tags /\ Journaled(5)

TargetInv ==
  /\ dpc = "write" /\ dep.reasons = {} => Earned
  /\ dpc # "ended" => ~ targets
  /\ targets => Earned /\ manifest.status = "succeeded" /\ written

ProvisionInv == CopyInv /\ DeployInv /\ EventInv /\ TargetInv

\* A step of provisioning that only reads.
Keeps(e, d) ==
  /\ DepShape(e) /\ e.tags = d.tags /\ e.inventory = d.inventory /\ e.copy = d.copy
  /\ e.deployed = d.deployed /\ e.described = d.described

\* What the fields of `dep' keep when its reasons are set.
LEMMA SetReasons ==
  ASSUME NEW d, DepShape(d), NEW x
  PROVE  Keeps([d EXCEPT !.reasons = x], d) /\ [d EXCEPT !.reasons = x].reasons = x
BY DEF DepShape, Keeps

\* The same for the readings.
LEMMA SetReading ==
  ASSUME NEW d, DepShape(d), NEW x, NEW e,
         \/ e = [d EXCEPT !.resources = x] \/ e = [d EXCEPT !.listed = x] \/ e = [d EXCEPT !.requests = x]
         \/ e = [d EXCEPT !.configured = x] \/ e = [d EXCEPT !.copied = x] \/ e = [d EXCEPT !.sources = x]
         \/ e = [d EXCEPT !.outputs = x] \/ e = [d EXCEPT !.stack_id = x] \/ e = [d EXCEPT !.invalid = x]
         \/ e = [d EXCEPT !.malformed = x]
  PROVE  Keeps(e, d) /\ e.reasons = d.reasons
<1>1. CASE e = [d EXCEPT !.resources = x]
  BY <1>1, Zenon DEF DepShape, Keeps
<1>2. CASE e = [d EXCEPT !.listed = x]
  BY <1>2, Zenon DEF DepShape, Keeps
<1>3. CASE e = [d EXCEPT !.requests = x]
  BY <1>3, Zenon DEF DepShape, Keeps
<1>4. CASE e = [d EXCEPT !.configured = x]
  BY <1>4, Zenon DEF DepShape, Keeps
<1>5. CASE e = [d EXCEPT !.copied = x]
  BY <1>5, Zenon DEF DepShape, Keeps
<1>6. CASE e = [d EXCEPT !.sources = x]
  BY <1>6, Zenon DEF DepShape, Keeps
<1>7. CASE e = [d EXCEPT !.outputs = x]
  BY <1>7, Zenon DEF DepShape, Keeps
<1>8. CASE e = [d EXCEPT !.stack_id = x]
  BY <1>8, Zenon DEF DepShape, Keeps
<1>9. CASE e = [d EXCEPT !.invalid = x]
  BY <1>9, Zenon DEF DepShape, Keeps
<1>10. CASE e = [d EXCEPT !.malformed = x]
  BY <1>10, Zenon DEF DepShape, Keeps
<1> QED
  BY <1>1, <1>2, <1>3, <1>4, <1>5, <1>6, <1>7, <1>8, <1>9, <1>10, Zenon

\* What is kept twice is kept.
LEMMA KeepsTwice ==
  ASSUME NEW d, NEW e, NEW g, Keeps(e, d), Keeps(g, e)
  PROVE  Keeps(g, d)
BY Zenon DEF Keeps

\* The manifest of an admitted execution declares what the attempt synthesized.
LEMMA SubjectFacts ==
  ASSUME AttemptInv, outcome = "admitted"
  PROVE  /\ Subject = buildExecutionManifest(held) /\ Subject.inventory = held.assembly
         /\ IsAssembly(held.assembly)
<1>1. held.written = 10 /\ DraftSteps[10] = "execution_manifest" /\ Past(Synthesized)
  BY DraftFacts DEF AttemptInv, DraftInv, Past
<1>2. Wrote("execution_manifest")
  BY <1>1 DEF AttemptInv, DraftInv
<1>3. Subject = buildExecutionManifest(held)
  BY <1>2, Zenon DEF Wrote, DraftContent, Subject
<1> QED
  BY <1>1, <1>3, Zenon DEF AttemptInv, SourceInv, buildExecutionManifest

\* Nothing that was admitted is taken back.
LEMMA AdmittedStays ==
  ASSUME AttemptInv, outcome = "admitted", EditFile \/ Commit \/ Install \/ EditFrozen \/ EditInventory \/ admitExecution
  PROVE  UNCHANGED <<held, outcome>>
<1>1. pc = "done" /\ held.written = 10
  BY Zenon DEF AttemptInv, DraftInv
<1>2. ~ (EditFile \/ Commit \/ Install)
  BY Zenon DEF EditFile, Commit, Install, Changing
<1>3. ~ admitExecution
  BY <1>1, Zenon DEF admitExecution, AssessReading, NextCheck, readGitStatus, readGitTree, readLockfile, AssessSource,
              synthesizeAssembly, RefuseAssembly, RecomputeScope, AssessScope, readSchemaCatalog, RecordManifest, finalize,
              writePackageDraft, Admitted, reject, finalizeRejected, fail, Crash
<1> QED
  BY <1>2, <1>3, Zenon DEF EditFrozen, EditInventory

\* Whatever happens to the attempt keeps what was provisioned.
LEMMA ProvisionKept ==
  ASSUME AttemptInv, ProvisionInv, AdmissionNext
  PROVE  ProvisionInv'
<1>1. UNCHANGED <<dpc, dep, events, stack, manifest, written, targets>>
  BY Zenon DEF AdmissionNext, provisionVars
<1>2. outcome = "admitted" => UNCHANGED <<held, outcome>>
  BY AdmittedStays, Zenon DEF AdmissionNext
<1>3. outcome # "admitted" => dpc = "idle" /\ stack = Absent
  BY Zenon DEF ProvisionInv, CopyInv
<1>4. CopyInv'
  BY <1>1, <1>2, <1>3, Zenon DEF ProvisionInv, CopyInv, Copying, Verified, OfSubject
<1>5. DeployInv' /\ EventInv' /\ TargetInv'
  BY <1>1, Zenon DEF ProvisionInv, DeployInv, EventInv, TargetInv, Journaled, Earned
<1> QED
  BY <1>4, <1>5, Zenon DEF ProvisionInv

\* A step that journals nothing and deploys nothing.
Quietly ==
  /\ SteadyAdmission /\ UNCHANGED <<events, stack, manifest, written, targets>>
  /\ outcome = "admitted" /\ dpc \notin {"deploy", "write", "ended"} /\ dpc' \notin {"write", "ended", "idle", "deploy_ended"}
  /\ DepShape(dep') /\ dep'.deployed = dep.deployed /\ IsAssembly(dep'.copy)
  /\ dpc' \in Copying => OfSubject(dep'.inventory)
  /\ dpc' \in Verified => dep'.copy = held.assembly
  /\ dep'.described = dep.described \/ (dpc \notin Before /\ dep'.described = stack)
  /\ dpc' \in Before => dpc \in Before
  /\ dep'.reasons = {} => dep.reasons = {} /\ dpc' # "not_deployed" /\ EventCount(dpc') = EventCount(dpc)

\* Such a step keeps everything.
LEMMA QuietProvision == ASSUME ProvisionInv, Quietly PROVE ProvisionInv'
<1>1. UNCHANGED <<held, outcome, events, stack, manifest, written, targets>>
  BY Zenon DEF Quietly, SteadyAdmission, records
<1>2. CopyInv'
  BY <1>1, Zenon DEF Quietly, ProvisionInv, CopyInv, OfSubject
<1>3. DeployInv'
  BY <1>1, Zenon DEF Quietly, ProvisionInv, DeployInv
<1>4. EventInv'
  BY <1>1, Zenon DEF Quietly, ProvisionInv, EventInv, Journaled
<1>5. TargetInv'
  BY <1>1 DEF Quietly, ProvisionInv, TargetInv
<1> QED
  BY <1>2, <1>3, <1>4, <1>5, Zenon DEF ProvisionInv

\* A reason ends the preparation.
LEMMA RefusedStep ==
  ASSUME ProvisionInv, SteadyAdmission, UNCHANGED <<events, stack, manifest, written, targets>>,
         dpc \in {"tags", "inputs"} \cup Copying, NEW reasons, reasons # {}, notDeployed(reasons)
  PROVE  ProvisionInv'
<1>1. DepShape(dep) /\ IsAssembly(dep.copy) /\ outcome = "admitted"
  BY Zenon DEF ProvisionInv, CopyInv, Copying
<1>2. dpc' = "not_deployed" /\ Keeps(dep', dep) /\ dep'.reasons # {}
  BY <1>1, SetReasons, Zenon DEF notDeployed
<1>3. Quietly
  BY <1>1, <1>2, Zenon DEF Quietly, Keeps, Before, Copying, Verified
<1> QED
  BY <1>3, QuietProvision, Zenon

\* D1, but for its copy: an admitted execution starts, with tags and inputs that were checked.
LEMMA PrepareStep ==
  ASSUME AttemptInv, ProvisionInv, startProvisioning \/ declaredTags \/ frozenInputs
  PROVE  ProvisionInv'
<1>0. DepShape(dep) /\ IsAssembly(dep.copy) /\ (dpc # "idle" => outcome = "admitted")
  BY Zenon DEF ProvisionInv, CopyInv
<1>1. CASE startProvisioning
  <2>1. Quietly
    BY <1>0, <1>1, Zenon DEF startProvisioning, Quietly, Before, Copying, Verified, EventCount
  <2> QED
    BY <2>1, QuietProvision, Zenon
<1>2. CASE declaredTags
  <2> DEFINE tags == Frozen["manifest.json"]
  <2>1. CASE dpc' = "inputs" /\ dep' = [dep EXCEPT !.tags = tags]
    <3> HIDE DEF tags
    <3>1. DepShape(dep') /\ dep'.copy = dep.copy /\ dep'.deployed = dep.deployed /\ dep'.described = dep.described
          /\ dep'.reasons = dep.reasons
      BY <1>0, <2>1, Zenon DEF DepShape
    <3>2. Quietly
      BY <1>0, <1>2, <2>1, <3>1, Zenon DEF declaredTags, Quietly, Before, Copying, Verified, EventCount
    <3> QED
      BY <3>2, QuietProvision, Zenon
  <2>2. CASE \E reasons : reasons # {} /\ notDeployed(reasons)
    BY <1>2, <2>2, RefusedStep, Zenon DEF declaredTags
  <2> QED
    BY <1>2, <2>1, <2>2, Zenon DEF declaredTags
<1>3. CASE frozenInputs
  <2> DEFINE inventory == package["deployment_assembly_inventory"]
  <2>0. dpc = "inputs" /\ SteadyAdmission /\ UNCHANGED <<events, stack, manifest, written, targets>>
    BY <1>3, Zenon DEF frozenInputs
  <2>1. CASE /\ inventory.inventory_sha256 = Subject.inventory
             /\ dpc' = "target" /\ dep' = [dep EXCEPT !.inventory = inventory]
    <3>1. OfSubject(inventory)
      <4>1. Subject.inventory = held.assembly /\ held.written = 10
        BY <1>0, <2>0, SubjectFacts, Zenon DEF AttemptInv, DraftInv
      <4>2. Wrote("deployment_assembly_inventory")
        BY <4>1, DraftFacts DEF AttemptInv, DraftInv
      <4> QED
        BY <2>1, <4>1, <4>2, Zenon DEF OfSubject, Wrote
    <3> HIDE DEF inventory
    <3>2. DepShape(dep') /\ dep'.copy = dep.copy /\ dep'.deployed = dep.deployed /\ dep'.described = dep.described
          /\ dep'.reasons = dep.reasons /\ dep'.inventory = inventory
      BY <1>0, <2>1, Zenon DEF DepShape
    <3>3. Quietly
      BY <1>0, <2>0, <2>1, <3>1, <3>2, Zenon DEF Quietly, Before, Copying, Verified, EventCount
    <3> QED
      BY <3>3, QuietProvision, Zenon
  <2>2. CASE \E reasons : reasons # {} /\ notDeployed(reasons)
    BY <2>0, <2>2, RefusedStep, Zenon
  <2>3. CASE notDeployed({"FROZEN_INVENTORY_UNREADABLE"})
    BY <2>2, <2>3, Zenon
  <2>4. ASSUME NEW reasons, NEW others,
               reasons = Reason(inventory.inventory_sha256 = Subject.inventory, "FROZEN_INVENTORY_MISMATCH") \cup others,
               IF reasons = {} THEN dpc' = "target" /\ dep' = [dep EXCEPT !.inventory = inventory]
               ELSE notDeployed(reasons)
        PROVE  ProvisionInv'
    <3>1. CASE reasons = {}
      <4>1. inventory.inventory_sha256 = Subject.inventory
        BY <2>4, <3>1, Zenon DEF Reason
      <4> QED
        BY <2>1, <2>4, <3>1, <4>1, Zenon
    <3>2. CASE reasons # {}
      BY <2>2, <2>4, <3>2, Zenon
    <3> QED
      BY <3>1, <3>2, Zenon
  <2> QED
    BY <1>3, <2>3, <2>4, Zenon DEF frozenInputs
<1> QED
  BY <1>1, <1>2, <1>3, Zenon

\* D1: the directory of the copy, and what there is to copy.
LEMMA TargetStep ==
  ASSUME ProvisionInv, emptyTarget \/ listFrozenFiles
  PROVE  ProvisionInv'
<1>0. DepShape(dep) /\ IsAssembly(dep.copy) /\ dpc \in {"target", "listing"} /\ outcome = "admitted"
      /\ OfSubject(dep.inventory) /\ SteadyAdmission /\ UNCHANGED <<events, stack, manifest, written, targets>>
  BY Zenon DEF ProvisionInv, CopyInv, Copying, emptyTarget, listFrozenFiles
<1>1. CASE \E reasons : reasons # {} /\ notDeployed(reasons)
  BY <1>0, <1>1, RefusedStep, Zenon DEF Copying
<1>2. CASE dpc' \in {"listing", "copy"} /\ Keeps(dep', dep) /\ dep'.reasons = dep.reasons
  <2>1. Quietly
    BY <1>0, <1>2, Zenon DEF Quietly, Keeps, Before, Copying, Verified, EventCount
  <2> QED
    BY <2>1, QuietProvision, Zenon
<1>3. CASE emptyTarget
  <2>1. CASE dpc' = "listing" /\ UNCHANGED dep
    BY <1>0, <1>2, <2>1, Zenon DEF Keeps
  <2> QED
    BY <1>1, <1>3, <2>1, Zenon DEF emptyTarget
<1>4. CASE listFrozenFiles
  <2>1. CASE dpc' = "copy" /\ \E x : dep' = [dep EXCEPT !.sources = x]
    BY <1>0, <1>2, <2>1, SetReading, Zenon
  <2> QED
    BY <1>1, <1>4, <2>1, Zenon DEF listFrozenFiles
<1> QED
  BY <1>3, <1>4, Zenon

\* A directory that agrees with an inventory, whose digest is its own, is what the inventory lists.
LEMMA UnchangedFacts ==
  ASSUME NEW inventory, NEW files, IsAssembly(inventory.files), IsAssembly(files),
         verifyAssemblyUnchanged(inventory, files) = {}
  PROVE  files = inventory.inventory_sha256
<1>1. /\ inventory.files = inventory.inventory_sha256
      /\ \A f \in ASSEMBLY_PATHS : inventory.files[f] # Absent => files[f] # Absent
      /\ \A f \in ASSEMBLY_PATHS : files[f] # Absent => inventory.files[f] # Absent
      /\ \A f \in ASSEMBLY_PATHS :
           inventory.files[f] # Absent /\ files[f] # Absent => files[f] = inventory.files[f]
  <2> DEFINE removed == \A f \in ASSEMBLY_PATHS : inventory.files[f] # Absent => files[f] # Absent
             added == \A f \in ASSEMBLY_PATHS : files[f] # Absent => inventory.files[f] # Absent
             changed == \A f \in ASSEMBLY_PATHS :
                          inventory.files[f] # Absent /\ files[f] # Absent => files[f] = inventory.files[f]
  <2>1. inventorySelfCheck(inventory) \cup Reason(removed, "FILE_REMOVED") \cup Reason(added, "FILE_ADDED")
          \cup Reason(changed, "FILE_CHANGED") = {}
    BY Zenon DEF verifyAssemblyUnchanged
  <2> HIDE DEF removed, added, changed
  <2>2. inventorySelfCheck(inventory) = {} /\ removed /\ added /\ changed
    BY <2>1, Zenon DEF Reason
  <2> QED
    BY <2>2, Zenon DEF removed, added, changed, inventorySelfCheck, Reason
<1>2. \A f \in ASSEMBLY_PATHS : files[f] = inventory.files[f]
  BY <1>1, Zenon
<1>3. files = inventory.files
  BY <1>2, Zenon DEF IsAssembly
<1> QED
  BY <1>1, <1>3, Zenon

\* D1: a copy that equals the admitted inventory file by file is the admitted assembly.
LEMMA CopyStep ==
  ASSUME ProvisionInv, copyOneFile \/ verifyCopy
  PROVE  ProvisionInv'
<1>0. DepShape(dep) /\ IsAssembly(dep.copy) /\ dpc = "copy" /\ outcome = "admitted" /\ OfSubject(dep.inventory)
      /\ SteadyAdmission /\ UNCHANGED <<events, stack, manifest, written, targets>>
  BY Zenon DEF ProvisionInv, CopyInv, Copying, copyOneFile, verifyCopy
<1>3. CASE \E reasons : reasons # {} /\ notDeployed(reasons)
  BY <1>0, <1>3, RefusedStep, Zenon DEF Copying
<1>1. CASE copyOneFile
  <2> DEFINE file == CHOOSE f \in InventoriedFiles \ dep.copied : TRUE
             bytes == Frozen[file]
             d == [dep EXCEPT !.copied = @ \cup {file}]
  <2>1. CASE UNCHANGED dpc /\ dep' = [d EXCEPT !.copy = [d.copy EXCEPT ![file] = bytes]]
    <3>1. Keeps(d, dep) /\ d.reasons = dep.reasons
      BY <1>0, SetReading
    <3> HIDE DEF d, bytes, file
    <3>2. DepShape(dep') /\ dep'.copy = [d.copy EXCEPT ![file] = bytes] /\ dep'.deployed = d.deployed
          /\ dep'.described = d.described /\ dep'.reasons = d.reasons /\ dep'.inventory = d.inventory
      BY <2>1, <3>1, Zenon DEF DepShape, Keeps
    <3>3. IsAssembly(dep'.copy)
      BY <1>0, <3>1, <3>2, Zenon DEF IsAssembly, Keeps
    <3>4. Quietly
      BY <1>0, <2>1, <3>1, <3>2, <3>3, Zenon DEF Quietly, Keeps, Before, Copying, Verified
    <3> QED
      BY <3>4, QuietProvision, Zenon
  <2>2. \/ UNCHANGED dpc /\ dep' = [d EXCEPT !.copy = [d.copy EXCEPT ![file] = bytes]]
        \/ notDeployed({"FROZEN_FILE_MISSING"}) \/ notDeployed({"FROZEN_ASSEMBLY_UNREADABLE"})
        \/ notDeployed({"DEPLOY_COPY_WRITE_FAILED"})
    BY <1>1, Zenon DEF copyOneFile
  <2> QED
    BY <1>3, <2>1, <2>2, Zenon
<1>2. CASE verifyCopy
  <2> DEFINE differences == verifyAssemblyUnchanged(dep.inventory, dep.copy)
  <2>1. CASE differences = {} /\ dpc' = "copy_verified" /\ UNCHANGED dep
    <3>1. dep.copy = held.assembly
      BY <1>0, <2>1, UnchangedFacts, Zenon DEF OfSubject, IsInventory
    <3>2. Quietly
      BY <1>0, <2>1, <3>1, Zenon DEF Quietly, Before, Copying, Verified, EventCount
    <3> QED
      BY <3>2, QuietProvision, Zenon
  <2>2. CASE notDeployed(differences \cup {"DEPLOY_COPY_NOT_VERIFIED"}) \/ notDeployed({"ASSEMBLY_UNREADABLE"})
    BY <1>3, <2>2, Zenon
  <2> QED
    BY <1>2, <2>1, <2>2, Zenon DEF verifyCopy
<1> QED
  BY <1>1, <1>2, Zenon

\* An event is journaled, or it is a reason that it was not.
LEMMA EventStep ==
  ASSUME ProvisionInv, NEW event, NEW next, journalEvent(event, next),
         dpc \in {"copy_verified", "deploy_started", "deploy_ended", "reverified", "not_deployed"},
         next \in {"deploy_started", "deploy", "reverify", "describe", "freeze"},
         next \in Before => dpc \in Verified /\ next \in Verified,
         dep.reasons = {} => /\ EventCount(next) = EventCount(dpc) + 1
                             /\ event = EventsInOrder[EventCount(dpc) + 1]
  PROVE  ProvisionInv'
<1>0. DepShape(dep) /\ IsAssembly(dep.copy) /\ outcome = "admitted" /\ IsLog(events)
  BY Zenon DEF ProvisionInv, CopyInv, EventInv
<1>1. /\ UNCHANGED <<held, outcome, stack, manifest, written, targets>> /\ dpc' = next
      /\ \/ events' = Append(events, event) /\ UNCHANGED dep
         \/ UNCHANGED events /\ dep' = [dep EXCEPT !.reasons = @ \cup {"PROVISIONING_EVENT_NOT_WRITTEN"}]
  BY Zenon DEF journalEvent, SteadyAdmission, records
<1>2. Keeps(dep', dep) /\ (dep'.reasons = {} => dep.reasons = {} /\ events' = Append(events, event))
  <2>1. CASE UNCHANGED dep /\ events' = Append(events, event)
    BY <1>0, <2>1, Zenon DEF Keeps
  <2>2. CASE dep' = [dep EXCEPT !.reasons = @ \cup {"PROVISIONING_EVENT_NOT_WRITTEN"}]
    BY <1>0, <2>2, SetReasons, Zenon
  <2> QED
    BY <1>1, <2>1, <2>2, Zenon
<1>3. CopyInv'
  BY <1>0, <1>1, <1>2, Zenon DEF ProvisionInv, CopyInv, Keeps, Before, Copying
<1>4. DeployInv'
  BY <1>1, <1>2, Zenon DEF ProvisionInv, DeployInv, Keeps, Before
<1>5. EventInv'
  <2>1. /\ IsLog(Append(events, event)) /\ Len(events) \in Nat /\ Len(Append(events, event)) = Len(events) + 1
        /\ \A i \in 1 .. Len(events) : Append(events, event)[i] = events[i]
        /\ Append(events, event)[Len(events) + 1] = event
    BY <1>0, LogGrows, Zenon
  <2>2. IsLog(events')
    BY <1>0, <1>1, <2>1, Zenon
  <2>3. ASSUME dep'.reasons = {}
        PROVE  dpc' \notin {"not_deployed", "deploy_ended"} /\ Journaled(EventCount(dpc))'
    <3>1. events' = Append(events, event) /\ Len(events) = EventCount(dpc) /\ EventCount(next) = EventCount(dpc) + 1
          /\ event = EventsInOrder[EventCount(dpc) + 1]
          /\ \A i \in 1 .. Len(events) : events[i] = EventsInOrder[i]
      BY <1>2, <2>3, Zenon DEF ProvisionInv, EventInv, Journaled
    <3> DEFINE log == Append(events, event)
    <3>2. Len(log) = EventCount(next) /\ \A i \in 1 .. Len(log) : log[i] = EventsInOrder[i]
      <4> HIDE DEF log
      <4> QED
        BY <2>1, <3>1 DEF log
    <3> QED
      BY <1>1, <3>1, <3>2, Zenon DEF Journaled
  <2> QED
    BY <2>2, <2>3, Zenon DEF EventInv
<1>6. TargetInv'
  BY <1>1, Zenon DEF ProvisionInv, TargetInv
<1> QED
  BY <1>3, <1>4, <1>5, <1>6, Zenon DEF ProvisionInv

\* The events around the deployment.
LEMMA EventSteps ==
  ASSUME ProvisionInv, copyVerified \/ deployStarted \/ deployEnded \/ deployRefused \/ assemblyReverified
  PROVE  ProvisionInv'
<1>0. /\ EventsInOrder[1] = "DEPLOY_COPY_VERIFIED" /\ EventsInOrder[2] = "DEPLOY_STARTED"
      /\ EventsInOrder[3] = "DEPLOY_SUCCEEDED" /\ EventsInOrder[4] = "PACKAGE_ASSEMBLY_REVERIFIED"
      /\ EventsInOrder[5] = "STACK_ID_RECORDED"
  BY Zenon DEF EventsInOrder
<1>a. /\ EventCount("copy_verified") = 0 /\ EventCount("deploy_started") = 1 /\ EventCount("deploy") = 2
      /\ EventCount("deploy_ended") = 2 /\ EventCount("reverify") = 3 /\ EventCount("reverified") = 3
      /\ EventCount("describe") = 4
  BY Zenon DEF EventCount
<1>b. {"reverify", "describe", "freeze"} \cap Before = {} /\ {"copy_verified", "deploy_started", "deploy"} = Verified
  BY Zenon DEF Before, Copying, Verified
<1>1. CASE copyVerified
  <2>1. dpc = "copy_verified" /\ journalEvent("DEPLOY_COPY_VERIFIED", "deploy_started")
    BY <1>1, Zenon DEF copyVerified
  <2> QED
    BY <1>0, <1>a, <1>b, <2>1, EventStep
<1>2. CASE deployStarted
  <2>1. dpc = "deploy_started" /\ journalEvent("DEPLOY_STARTED", "deploy")
    BY <1>2, Zenon DEF deployStarted
  <2> QED
    BY <1>0, <1>a, <1>b, <2>1, EventStep
<1>3. CASE deployEnded
  <2> DEFINE event == IF dep.deployed THEN "DEPLOY_SUCCEEDED" ELSE "DEPLOY_FAILED"
  <2>1. dpc = "deploy_ended" /\ journalEvent(event, "reverify")
    BY <1>3, Zenon DEF deployEnded
  <2>2. dep.reasons = {} => event = "DEPLOY_SUCCEEDED"
    BY <2>1, Zenon DEF ProvisionInv, EventInv
  <2> HIDE DEF event
  <2> QED
    BY <1>0, <1>a, <1>b, <2>1, <2>2, EventStep
<1>4. CASE deployRefused
  <2>1. dpc = "not_deployed" /\ journalEvent("DEPLOY_FAILED", "freeze")
    BY <1>4, Zenon DEF deployRefused
  <2>2. dep.reasons # {}
    BY <2>1, Zenon DEF ProvisionInv, EventInv
  <2> QED
    BY <1>b, <2>1, <2>2, EventStep, Zenon
<1>5. CASE assemblyReverified
  <2>1. dpc = "reverified" /\ journalEvent("PACKAGE_ASSEMBLY_REVERIFIED", "describe")
    BY <1>5, Zenon DEF assemblyReverified
  <2> QED
    BY <1>0, <1>a, <1>b, <2>1, EventStep
<1> QED
  BY <1>1, <1>2, <1>3, <1>4, <1>5, Zenon

\* What cdk leaves is made of the files it was given.
LEMMA StackFacts ==
  ASSUME AbsentOK, NEW files, NEW status
  PROVE  /\ StackOf(files, status) # Absent /\ StackOf(files, status).from = files
         /\ StackOf(files, status).status = status
         /\ status = "CREATE_COMPLETE" => \A r \in StackOf(files, status).resources : r.complete
<1> DEFINE s == StackOf(files, status)
<1>1. s # Absent
  BY AbsentOK, Zenon DEF AbsentOK, StackOf
<1>2. s.from = files /\ s.status = status
  BY Zenon DEF StackOf
<1>3. ASSUME status = "CREATE_COMPLETE", NEW r \in s.resources
      PROVE  r.complete
  <2>1. PICK q : r = [id |-> q.logical_id, type |-> q.type, physical |-> status = "CREATE_COMPLETE",
                      complete |-> status = "CREATE_COMPLETE"]
    BY <1>3, Zenon DEF StackOf
  <2>2. r.complete = (status = "CREATE_COMPLETE")
    BY <2>1, Zenon
  <2> QED
    BY <1>3, <2>2, Zenon
<1> QED
  BY <1>1, <1>2, <1>3, Zenon

\* D2 deploys the copy that was verified.
LEMMA DeployStep == ASSUME AbsentOK, ProvisionInv, deploy PROVE ProvisionInv'
<1>0. /\ dpc = "deploy" /\ DepShape(dep) /\ IsAssembly(dep.copy) /\ outcome = "admitted"
      /\ dep.copy = held.assembly /\ ~ dep.deployed /\ dep.described = Absent
  BY Zenon DEF deploy, ProvisionInv, CopyInv, DeployInv, Before, Copying, Verified
<1>1. /\ UNCHANGED <<held, outcome, events, manifest, written, targets>> /\ dpc' = "deploy_ended"
      /\ \/ /\ stack' = StackOf(dep.copy, "CREATE_COMPLETE")
            /\ \/ dep' = [dep EXCEPT !.outputs = "resolved", !.deployed = TRUE]
               \/ \E x : dep' = [dep EXCEPT !.malformed = x, !.outputs = "unresolved", !.deployed = TRUE]
         \/ /\ dep' = [dep EXCEPT !.reasons = @ \cup {"DEPLOY_COMMAND_FAILED"}]
            /\ stack' = Absent \/ \E status : stack' = StackOf(dep.copy, status)
  BY Zenon DEF deploy, SteadyAdmission, records
<1>2. stack' # Absent => stack'.from = held.assembly
  <2>1. stack' = Absent \/ \E status : stack' = StackOf(dep.copy, status)
    BY <1>1, Zenon
  <2>2. \A status : StackOf(dep.copy, status).from = dep.copy
    BY AbsentOK, StackFacts, Zenon
  <2> QED
    BY <1>0, <2>1, <2>2, Zenon
<1>3. /\ DepShape(dep') /\ dep'.copy = dep.copy /\ dep'.described = Absent
      /\ (dep'.reasons = {} => dep.reasons = {} /\ dep'.deployed)
      /\ (dep'.deployed => stack' = StackOf(dep.copy, "CREATE_COMPLETE"))
  <2>a. ASSUME NEW d, Keeps(d, dep), d.reasons = dep.reasons, dep' = [d EXCEPT !.deployed = TRUE]
        PROVE  /\ DepShape(dep') /\ dep'.copy = dep.copy /\ dep'.described = Absent
               /\ dep'.reasons = dep.reasons /\ dep'.deployed
    BY <1>0, <2>a, Zenon DEF DepShape, Keeps
  <2>b. CASE /\ dep' = [dep EXCEPT !.outputs = "resolved", !.deployed = TRUE]
             /\ stack' = StackOf(dep.copy, "CREATE_COMPLETE")
    <3> DEFINE d == [dep EXCEPT !.outputs = "resolved"]
    <3>1. Keeps(d, dep) /\ d.reasons = dep.reasons
      BY <1>0, SetReading, Zenon
    <3>2. dep' = [d EXCEPT !.deployed = TRUE]
      BY <2>b, Zenon
    <3> HIDE DEF d
    <3> QED
      BY <2>a, <2>b, <3>1, <3>2, Zenon
  <2>1. CASE /\ \E x : dep' = [dep EXCEPT !.malformed = x, !.outputs = "unresolved", !.deployed = TRUE]
             /\ stack' = StackOf(dep.copy, "CREATE_COMPLETE")
    <3>0. PICK x : dep' = [dep EXCEPT !.malformed = x, !.outputs = "unresolved", !.deployed = TRUE]
      BY <2>1, Zenon
    <3> DEFINE c == [dep EXCEPT !.malformed = x]
               d == [c EXCEPT !.outputs = "unresolved"]
    <3>1. Keeps(c, dep) /\ c.reasons = dep.reasons
      BY <1>0, SetReading, Zenon
    <3>2. dep' = [d EXCEPT !.deployed = TRUE] /\ d = [c EXCEPT !.outputs = "unresolved"]
      BY <3>0, Zenon
    <3> HIDE DEF c, d
    <3>3. DepShape(c)
      BY <3>1, Zenon DEF Keeps
    <3>4. Keeps(d, c) /\ d.reasons = c.reasons
      BY <3>2, <3>3, SetReading, Zenon
    <3> QED
      BY <2>a, <2>1, <3>1, <3>2, <3>4, KeepsTwice, Zenon
  <2>2. CASE dep' = [dep EXCEPT !.reasons = @ \cup {"DEPLOY_COMMAND_FAILED"}]
    <3> DEFINE x == dep.reasons \cup {"DEPLOY_COMMAND_FAILED"}
    <3>0. dep' = [dep EXCEPT !.reasons = x] /\ x # {} /\ DepShape(dep)
      BY <1>0, <2>2, Zenon
    <3> HIDE DEF x
    <3>1. Keeps(dep', dep) /\ dep'.reasons # {}
      BY <3>0, SetReasons, Zenon
    <3>2. DepShape(dep') /\ dep'.copy = dep.copy /\ dep'.described = dep.described /\ dep'.deployed = dep.deployed
      BY <3>1, Zenon DEF Keeps
    <3>3. ~ dep'.deployed
      BY <1>0, <3>2, Zenon
    <3> QED
      BY <1>0, <3>1, <3>2, <3>3, Zenon
  <2> QED
    BY <1>1, <2>b, <2>1, <2>2, Zenon
<1>4. CopyInv'
  BY <1>0, <1>1, <1>2, <1>3, Zenon DEF CopyInv, Copying, Verified
<1>5. DeployInv'
  <2>1. dep'.deployed => stack' # Absent /\ stack'.status = "CREATE_COMPLETE" /\ \A r \in stack'.resources : r.complete
    BY <1>3, AbsentOK, StackFacts
  <2> QED
    BY <1>1, <1>3, <2>1, Zenon DEF DeployInv, Before, Copying, Verified
<1>6. EventInv'
  <2>1. EventCount("deploy") = 2 /\ EventCount("deploy_ended") = 2
    BY Zenon DEF EventCount
  <2> QED
    BY <1>0, <1>1, <1>3, <2>1, Zenon DEF ProvisionInv, EventInv, Journaled
<1>7. TargetInv'
  BY <1>0, <1>1, Zenon DEF ProvisionInv, TargetInv
<1> QED
  BY <1>4, <1>5, <1>6, <1>7, Zenon DEF ProvisionInv

\* D3 and the readings of D4 add reasons, and describe the stack as it is.
LEMMA ReadBackStep ==
  ASSUME ProvisionInv, NEW d, Keeps(d, dep), dep.reasons \subseteq d.reasons,
         SteadyAdmission, UNCHANGED <<events, stack, manifest, written, targets>>,
         dep' = d \/ dep' = [d EXCEPT !.described = stack],
         \/ dpc = "reverify" /\ (dpc' = "reverified" \/ (dpc' = "describe" /\ d.reasons # {}))
         \/ dpc = "describe" /\ dpc' \in {"list", "freeze"}
         \/ dpc = "list" /\ dpc' \in {"configuration", "freeze"}
         \/ dpc = "configuration" /\ dpc' = "reads"
         \/ dpc = "reads" /\ dpc' \in {"reads", "freeze"}
  PROVE  ProvisionInv'
<1>0. DepShape(dep) /\ IsAssembly(dep.copy) /\ outcome = "admitted"
  BY Zenon DEF ProvisionInv, CopyInv
<1>1. /\ DepShape(dep') /\ dep'.copy = dep.copy /\ dep'.deployed = dep.deployed /\ dep'.reasons = d.reasons
      /\ dep'.described \in {dep.described, stack}
  <2>1. CASE dep' = d
    BY <2>1, Zenon DEF Keeps
  <2>2. CASE dep' = [d EXCEPT !.described = stack]
    BY <2>2, Zenon DEF Keeps, DepShape
  <2> QED
    BY <2>1, <2>2, Zenon
<1>2. dpc \notin Before /\ dpc' \notin Before /\ dpc' \notin Verified /\ dpc' \notin Copying
  BY Zenon DEF Before, Copying, Verified
<1>3. d.reasons = {} => EventCount(dpc') = EventCount(dpc)
  BY Zenon DEF EventCount
<1>4. Quietly
  BY <1>0, <1>1, <1>2, <1>3, Zenon DEF Quietly, Before
<1> QED
  BY <1>4, QuietProvision, Zenon

\* D3 compares the frozen assembly with the admitted one.
LEMMA ReverifyStep == ASSUME ProvisionInv, reverify PROVE ProvisionInv'
<1>0. DepShape(dep) /\ dpc = "reverify" /\ SteadyAdmission /\ UNCHANGED <<events, stack, manifest, written, targets>>
  BY Zenon DEF ProvisionInv, CopyInv, reverify
<1>1. PICK more : /\ dep' = [dep EXCEPT !.reasons = @ \cup more]
                  /\ dpc' = "reverified" \/ (dpc' = "describe" /\ more # {})
  <2> DEFINE drift == verifyAssemblyUnchanged(dep.inventory, Frozen)
  <2>1. CASE /\ dep' = [dep EXCEPT !.reasons = @ \cup drift]
             /\ dpc' = IF drift = {} THEN "reverified" ELSE "describe"
    <3> HIDE DEF drift
    <3> QED
      BY <2>1, Zenon
  <2>2. CASE dpc' = "describe" /\ dep' = [dep EXCEPT !.reasons = @ \cup {"FROZEN_ASSEMBLY_UNREADABLE"}]
    BY <2>2, Zenon
  <2> QED
    BY <2>1, <2>2, Zenon DEF reverify
<1> DEFINE x == dep.reasons \cup more
<1>2. dep' = [dep EXCEPT !.reasons = x] /\ dep.reasons \subseteq x /\ (more # {} => x # {})
  BY <1>1, Zenon
<1> HIDE DEF x
<1>3. Keeps(dep', dep) /\ dep'.reasons = x
  BY <1>0, <1>2, SetReasons, Zenon
<1> QED
  BY <1>0, <1>1, <1>2, <1>3, ReadBackStep, Zenon

\* D4 reads the stack and its resources back.
LEMMA ListStep == ASSUME ProvisionInv, describeStack \/ listAllStackResources PROVE ProvisionInv'
<1>0. DepShape(dep) /\ SteadyAdmission /\ UNCHANGED <<events, stack, manifest, written, targets>>
  BY Zenon DEF ProvisionInv, CopyInv, describeStack, listAllStackResources
<1>1. Keeps(dep, dep)
  BY <1>0, Zenon DEF Keeps
<1> DEFINE x == dep.reasons \cup {"STACK_READ_FAILED"}
<1>2. dep.reasons \subseteq x
  BY Zenon
<1> HIDE DEF x
<1>3. CASE describeStack
  <2>1. /\ dpc = "describe" /\ dpc' \in {"list", "freeze"}
        /\ \/ dep' = [dep EXCEPT !.described = stack] \/ dep' = [dep EXCEPT !.reasons = x]
           \/ \E y : dep' = [dep EXCEPT !.stack_id = y, !.described = stack]
    BY <1>3, Zenon DEF describeStack, x
  <2>2. CASE dep' = [dep EXCEPT !.described = stack]
    BY <1>0, <1>1, <2>1, <2>2, ReadBackStep, Zenon
  <2>3. CASE dep' = [dep EXCEPT !.reasons = x]
    <3>1. Keeps(dep', dep) /\ dep'.reasons = x
      BY <1>0, <2>3, SetReasons, Zenon
    <3> QED
      BY <1>0, <1>2, <2>1, <3>1, ReadBackStep, Zenon
  <2>4. CASE \E y : dep' = [dep EXCEPT !.stack_id = y, !.described = stack]
    <3>0. PICK y : dep' = [dep EXCEPT !.stack_id = y, !.described = stack]
      BY <2>4, Zenon
    <3> DEFINE d == [dep EXCEPT !.stack_id = y]
    <3>1. Keeps(d, dep) /\ d.reasons = dep.reasons
      BY <1>0, SetReading, Zenon
    <3>2. dep' = [d EXCEPT !.described = stack]
      BY <3>0, Zenon
    <3> HIDE DEF d
    <3> QED
      BY <1>0, <2>1, <3>1, <3>2, ReadBackStep, Zenon
  <2> QED
    BY <2>1, <2>2, <2>3, <2>4, Zenon
<1>4. CASE listAllStackResources
  <2>1. /\ dpc = "list" /\ dpc' \in {"configuration", "freeze"}
        /\ \/ dep' = [dep EXCEPT !.resources = stack.resources] \/ dep' = [dep EXCEPT !.listed = FALSE, !.reasons = x]
           \/ \E y : dep' = [dep EXCEPT !.resources = stack.resources, !.invalid = y]
    BY <1>4, Zenon DEF listAllStackResources, x
  <2>2. CASE dep' = [dep EXCEPT !.resources = stack.resources]
    <3>1. Keeps(dep', dep) /\ dep'.reasons = dep.reasons
      BY <1>0, <2>2, SetReading, Zenon
    <3> QED
      BY <1>0, <2>1, <3>1, ReadBackStep, Zenon
  <2>3. CASE dep' = [dep EXCEPT !.listed = FALSE, !.reasons = x]
    <3> DEFINE d == [dep EXCEPT !.listed = FALSE]
    <3>1. Keeps(d, dep) /\ d.reasons = dep.reasons
      BY <1>0, SetReading, Zenon
    <3>2. dep' = [d EXCEPT !.reasons = x]
      BY <2>3, Zenon
    <3> HIDE DEF d
    <3>a. DepShape(d)
      BY <3>1, Zenon DEF Keeps
    <3>3. Keeps(dep', d) /\ dep'.reasons = x
      BY <3>2, <3>a, SetReasons, Zenon
    <3>4. Keeps(dep', dep)
      BY <3>1, <3>3, Zenon DEF Keeps
    <3> QED
      BY <1>0, <1>2, <2>1, <3>3, <3>4, ReadBackStep, Zenon
  <2>4. CASE \E y : dep' = [dep EXCEPT !.resources = stack.resources, !.invalid = y]
    <3>0. PICK y : dep' = [dep EXCEPT !.resources = stack.resources, !.invalid = y]
      BY <2>4, Zenon
    <3> DEFINE d == [dep EXCEPT !.resources = stack.resources]
    <3>1. Keeps(d, dep) /\ d.reasons = dep.reasons
      BY <1>0, SetReading, Zenon
    <3>2. dep' = [d EXCEPT !.invalid = y]
      BY <3>0, Zenon
    <3> HIDE DEF d
    <3>3. DepShape(d)
      BY <3>1, Zenon DEF Keeps
    <3>4. Keeps(dep', d) /\ dep'.reasons = d.reasons
      BY <3>2, <3>3, SetReading, Zenon
    <3>5. Keeps(dep', dep) /\ dep.reasons \subseteq dep'.reasons
      BY <3>1, <3>4, KeepsTwice, Zenon
    <3> QED
      BY <1>0, <2>1, <3>5, ReadBackStep, Zenon
  <2> QED
    BY <2>1, <2>2, <2>3, <2>4, Zenon
<1> QED
  BY <1>3, <1>4, Zenon

\* D4 reads the deployed configuration.
LEMMA ConfigurationStep ==
  ASSUME ProvisionInv, resolveReads \/ readOne \/ configurationSnapshotOf
  PROVE  ProvisionInv'
<1>0. DepShape(dep) /\ SteadyAdmission /\ UNCHANGED <<events, stack, manifest, written, targets>>
  BY Zenon DEF ProvisionInv, CopyInv, resolveReads, readOne, configurationSnapshotOf
<1>1. Keeps(dep, dep)
  BY <1>0, Zenon DEF Keeps
<1>a. ASSUME NEW d, Keeps(d, dep), d.reasons = dep.reasons, NEW more, dep' = [d EXCEPT !.reasons = @ \cup more]
      PROVE  Keeps(dep', dep) /\ dep.reasons \subseteq dep'.reasons
  <2> DEFINE x == d.reasons \cup more
  <2>1. dep' = [d EXCEPT !.reasons = x] /\ dep.reasons \subseteq x
    BY <1>a, Zenon
  <2> HIDE DEF x
  <2>a. DepShape(d)
    BY <1>a, Zenon DEF Keeps
  <2>2. Keeps(dep', d) /\ dep'.reasons = x
    BY <2>1, <2>a, SetReasons, Zenon
  <2> QED
    BY <1>a, <2>1, <2>2, Zenon DEF Keeps
<1>2. CASE resolveReads
  <2> DEFINE requests == resolveReadRequests(planPostDeployReads(Subject.inventory["template.json"]), dep.resources)
             more == Reason(requests = planPostDeployReads(Subject.inventory["template.json"]), "READ_TARGET_UNRESOLVED")
             c == [dep EXCEPT !.requests = requests]
  <2>1. /\ dpc = "configuration" /\ dpc' = "reads" /\ dep' = [c EXCEPT !.reasons = @ \cup more]
    BY <1>2, Zenon DEF resolveReads
  <2> HIDE DEF requests, more
  <2>2. Keeps(c, dep) /\ c.reasons = dep.reasons
    BY <1>0, SetReading, Zenon
  <2> HIDE DEF c
  <2>3. Keeps(dep', dep) /\ dep.reasons \subseteq dep'.reasons
    BY <1>a, <2>1, <2>2, Zenon
  <2> QED
    BY <1>0, <2>1, <2>3, ReadBackStep, Zenon
<1>3. CASE configurationSnapshotOf
  <2>1. dpc = "reads" /\ dpc' = "freeze" /\ UNCHANGED dep
    BY <1>3, Zenon DEF configurationSnapshotOf
  <2> QED
    BY <1>0, <1>1, <2>1, ReadBackStep, Zenon
<1>4. CASE readOne
  <2> DEFINE rest == dep.requests \ {CHOOSE r \in dep.requests : TRUE}
             c == [dep EXCEPT !.requests = rest]
             d == [c EXCEPT !.configured = TRUE]
             y == dep.configured
             e == [d EXCEPT !.configured = y]
  <2>1. /\ dpc = "reads" /\ dpc' = "reads"
        /\ \/ dep' = d
           \/ \E problem : dep' = [d EXCEPT !.reasons = @ \cup {problem}]
           \/ \E entry : dep' = [d EXCEPT !.malformed = d.malformed \cup {entry}]
           \/ dep' = [e EXCEPT !.reasons = @ \cup {"CONFIGURATION_READ_FAILED"}]
    BY <1>4, Zenon DEF readOne
  <2> HIDE DEF rest
  <2>2. Keeps(c, dep) /\ c.reasons = dep.reasons
    BY <1>0, SetReading, Zenon
  <2>3. d = [c EXCEPT !.configured = TRUE]
    BY Zenon
  <2>c. e = [d EXCEPT !.configured = y]
    BY Zenon
  <2> HIDE DEF c, d, e, y
  <2>a. DepShape(c)
    BY <2>2, Zenon DEF Keeps
  <2>4. Keeps(d, c) /\ d.reasons = c.reasons
    BY <2>3, <2>a, SetReading, Zenon
  <2>5. Keeps(d, dep) /\ d.reasons = dep.reasons
    BY <2>2, <2>4, Zenon DEF Keeps
  <2>b. DepShape(d)
    BY <2>5, Zenon DEF Keeps
  <2>6. Keeps(e, d) /\ e.reasons = d.reasons
    BY <2>c, <2>b, SetReading, Zenon
  <2>7. Keeps(e, dep) /\ e.reasons = dep.reasons
    BY <2>5, <2>6, Zenon DEF Keeps
  <2>9. ASSUME NEW entry, dep' = [d EXCEPT !.malformed = d.malformed \cup {entry}]
        PROVE  Keeps(dep', dep) /\ dep.reasons \subseteq dep'.reasons
    <3> DEFINE z == d.malformed \cup {entry}
    <3>1. dep' = [d EXCEPT !.malformed = z]
      BY <2>9, Zenon
    <3> HIDE DEF z
    <3>2. Keeps(dep', d) /\ dep'.reasons = d.reasons
      BY <2>b, <3>1, SetReading, Zenon
    <3> QED
      BY <2>5, <3>2, KeepsTwice, Zenon
  <2>8. Keeps(dep', dep) /\ dep.reasons \subseteq dep'.reasons
    BY <1>a, <2>1, <2>5, <2>7, <2>9, Zenon
  <2> QED
    BY <1>0, <2>1, <2>8, ReadBackStep, Zenon
<1> QED
  BY <1>2, <1>3, <1>4, Zenon
\* A manifest that was built without a reason describes a complete deployment.
LEMMA BuiltFacts ==
  ASSUME NEW d, buildResourceManifest(d).reasons = {}
  PROVE  d.deployed /\ d.described # Absent /\ d.described.tags = d.tags /\ buildResourceManifest(d).stack_known
<1>1. stackFacts(d) = {}
  BY Zenon DEF buildResourceManifest
<1>2. d.deployed /\ d.described # Absent /\ d.described.tags = d.tags /\ d.stack_id
  BY <1>1, Zenon DEF stackFacts, observedTagReasons, Reason
<1> QED
  BY <1>2, Zenon DEF buildResourceManifest

\* D4 freezes a manifest; without a reason, the stack's id is journaled with it.
LEMMA FreezeStep == ASSUME ProvisionInv, freeze PROVE ProvisionInv'
<1>0. /\ dpc = "freeze" /\ DepShape(dep) /\ IsAssembly(dep.copy) /\ outcome = "admitted" /\ IsLog(events) /\ ~ targets
      /\ UNCHANGED <<held, outcome, stack, written, targets>>
  BY Zenon DEF ProvisionInv, CopyInv, EventInv, TargetInv, freeze, SteadyAdmission, records
<1> DEFINE built == buildResourceManifest(dep)
           ended == dpc' = "ended" /\ UNCHANGED <<dep, events, manifest>>
           log == Append(events, "STACK_ID_RECORDED")
<1>1. \/ ended
      \/ /\ dpc' = "write"
         /\ \/ /\ events' = IF built.stack_known THEN log ELSE events
               /\ dep' = [dep EXCEPT !.reasons = dep.reasons \cup built.reasons]
            \/ /\ UNCHANGED events
               /\ dep' = [dep EXCEPT !.reasons = dep.reasons \cup built.reasons \cup {"PROVISIONING_EVENT_NOT_WRITTEN"}]
  BY Zenon DEF freeze
<1>2. built.reasons = {} => dep.deployed /\ dep.described # Absent /\ dep.described.tags = dep.tags /\ built.stack_known
  BY BuiltFacts, Zenon
<1>3. IsLog(log) /\ Len(events) \in Nat /\ Len(log) = Len(events) + 1 /\ log[Len(events) + 1] = "STACK_ID_RECORDED"
      /\ \A i \in 1 .. Len(events) : log[i] = events[i]
  BY <1>0, LogGrows
<1> HIDE DEF built, log
<1>4. /\ dpc' \in {"write", "ended"} /\ Keeps(dep', dep) /\ events' \in {events, log}
      /\ (dpc' = "write" /\ dep'.reasons = {} => dep.reasons = {} /\ built.reasons = {} /\ events' = log)
  <2>1. CASE ended
    BY <1>0, <2>1, Zenon DEF Keeps
  <2>2. CASE /\ dpc' = "write" /\ events' = (IF built.stack_known THEN log ELSE events)
             /\ dep' = [dep EXCEPT !.reasons = dep.reasons \cup built.reasons]
    <3> DEFINE x == dep.reasons \cup built.reasons
    <3>1. dep' = [dep EXCEPT !.reasons = x] /\ (x = {} => dep.reasons = {} /\ built.reasons = {})
      BY <2>2, Zenon
    <3> HIDE DEF x
    <3>2. Keeps(dep', dep) /\ dep'.reasons = x
      BY <1>0, <3>1, SetReasons, Zenon
    <3> QED
      BY <1>2, <2>2, <3>1, <3>2, Zenon
  <2>3. CASE /\ dpc' = "write" /\ UNCHANGED events
             /\ dep' = [dep EXCEPT !.reasons = dep.reasons \cup built.reasons \cup {"PROVISIONING_EVENT_NOT_WRITTEN"}]
    <3> DEFINE x == dep.reasons \cup built.reasons \cup {"PROVISIONING_EVENT_NOT_WRITTEN"}
    <3>1. dep' = [dep EXCEPT !.reasons = x] /\ x # {}
      BY <2>3, Zenon
    <3> HIDE DEF x
    <3>2. Keeps(dep', dep) /\ dep'.reasons = x
      BY <1>0, <3>1, SetReasons, Zenon
    <3> QED
      BY <2>3, <3>1, <3>2, Zenon
  <2> QED
    BY <1>1, <2>1, <2>2, <2>3, Zenon
<1>5. CopyInv'
  BY <1>0, <1>4, Zenon DEF ProvisionInv, CopyInv, Keeps, Copying, Verified
<1>6. DeployInv'
  BY <1>0, <1>4, Zenon DEF ProvisionInv, DeployInv, Keeps, Before, Copying, Verified
<1>7. EventInv'
  BY <1>0, <1>3, <1>4, Zenon DEF EventInv
<1>8. ASSUME dpc' = "write", dep'.reasons = {} PROVE Earned'
  <2>1. dep.deployed /\ dep.described # Absent /\ dep.described.tags = dep.tags /\ events' = log /\ dep.reasons = {}
    BY <1>2, <1>4, <1>8, Zenon
  <2>2. dep'.deployed /\ dep'.described # Absent /\ dep'.described.tags = dep'.tags
    BY <1>4, <2>1, Zenon DEF Keeps
  <2>3. EventCount("freeze") = 4 /\ EventsInOrder[5] = "STACK_ID_RECORDED"
    BY Zenon DEF EventCount, EventsInOrder
  <2>4. Len(events) = 4 /\ \A i \in 1 .. 4 : events[i] = EventsInOrder[i]
    BY <1>0, <2>1, <2>3, Zenon DEF ProvisionInv, EventInv, Journaled
  <2>5. Len(log) = 5 /\ \A i \in 1 .. 5 : log[i] = EventsInOrder[i]
    BY <1>3, <2>3, <2>4
  <2> QED
    BY <2>1, <2>2, <2>5, Zenon DEF Earned, Journaled
<1>9. TargetInv'
  BY <1>0, <1>8, Zenon DEF TargetInv
<1> QED
  BY <1>5, <1>6, <1>7, <1>9, Zenon DEF ProvisionInv

\* The manifest is written, and only an outcome without a reason has targets.
LEMMA WriteManifestStep == ASSUME ProvisionInv, writeManifest PROVE ProvisionInv'
<1>0. /\ dpc = "write" /\ dpc' = "ended" /\ DepShape(dep) /\ IsAssembly(dep.copy) /\ outcome = "admitted"
      /\ UNCHANGED <<held, outcome, events, stack, manifest>> /\ targets' = withTargets(manifest, dep'.reasons)
  BY Zenon DEF ProvisionInv, CopyInv, writeManifest, SteadyAdmission, records
<1>1. Keeps(dep', dep) /\ (dep'.reasons = {} => UNCHANGED dep /\ written')
  <2>1. CASE written' = TRUE /\ UNCHANGED dep
    BY <1>0, <2>1, Zenon DEF Keeps
  <2>2. CASE dep' = [dep EXCEPT !.reasons = @ \cup {"RESOURCE_MANIFEST_NOT_WRITTEN"}]
    <3> DEFINE x == dep.reasons \cup {"RESOURCE_MANIFEST_NOT_WRITTEN"}
    <3>1. dep' = [dep EXCEPT !.reasons = x] /\ x # {}
      BY <2>2, Zenon
    <3> HIDE DEF x
    <3>2. Keeps(dep', dep) /\ dep'.reasons = x
      BY <1>0, <3>1, SetReasons, Zenon
    <3> QED
      BY <3>1, <3>2, Zenon
  <2> QED
    BY <2>1, <2>2, Zenon DEF writeManifest
<1>2. CopyInv'
  BY <1>0, <1>1, Zenon DEF ProvisionInv, CopyInv, Keeps, Copying, Verified
<1>3. DeployInv'
  BY <1>0, <1>1, Zenon DEF ProvisionInv, DeployInv, Keeps, Before, Copying, Verified
<1>4. EventInv'
  BY <1>0, Zenon DEF ProvisionInv, EventInv
<1>5. TargetInv'
  <2>1. ASSUME targets' PROVE Earned' /\ manifest'.status = "succeeded" /\ written'
    <3>1. dep'.reasons = {} /\ manifest.status = "succeeded"
      BY <1>0, <2>1, Zenon DEF withTargets, executionTargetsOf
    <3>2. UNCHANGED dep /\ written' /\ dep.reasons = {}
      BY <1>1, <3>1, Zenon
    <3>3. Earned
      BY <1>0, <3>2, Zenon DEF ProvisionInv, TargetInv
    <3> QED
      BY <1>0, <3>1, <3>2, <3>3, Zenon DEF Earned, Journaled
  <2> QED
    BY <1>0, <2>1, Zenon DEF TargetInv
<1> QED
  BY <1>2, <1>3, <1>4, <1>5, Zenon DEF ProvisionInv

\* A step of provisioning.
LEMMA ProvisionStep == ASSUME AbsentOK, AttemptInv, ProvisionInv, provision PROVE SteadyAdmission /\ ProvisionInv'
<1>1. SteadyAdmission
  BY Zenon DEF provision, startProvisioning, declaredTags, frozenInputs, emptyTarget, listFrozenFiles, copyOneFile, verifyCopy, copyVerified,
         deployStarted, deploy, deployEnded, deployRefused, reverify, assemblyReverified, describeStack,
         listAllStackResources, resolveReads, readOne, configurationSnapshotOf, freeze, writeManifest, journalEvent
<1>2. ProvisionInv'
  BY AbsentOK, PrepareStep, TargetStep, CopyStep, EventSteps, DeployStep, ReverifyStep, ListStep, ConfigurationStep, FreezeStep,
     WriteManifestStep, Zenon DEF provision
<1> QED
  BY <1>1, <1>2, Zenon

\* Nothing is provisioned at first.
LEMMA NothingProvisioned == ASSUME ProvisionInit PROVE ProvisionInv
<1>1. dpc = "idle" /\ dep = NothingDeployed /\ events = <<>> /\ stack = Absent /\ written = FALSE /\ targets = FALSE
  BY Zenon DEF ProvisionInit
<1>2. DepShape(dep) /\ ~ dep.deployed /\ dep.described = Absent
  BY <1>1, Zenon DEF NothingDeployed, DepShape
<1>3. IsAssembly(dep.copy)
  BY <1>1, Zenon DEF NothingDeployed, NoFiles, IsAssembly
<1>4. IsLog(events) /\ Len(events) = 0
  <2>1. <<>> \in Seq({}) /\ Len(<<>>) = 0
    OBVIOUS
  <2> QED
    BY <1>1, <2>1, Zenon DEF IsLog
<1>5. CopyInv
  BY <1>1, <1>2, <1>3, Zenon DEF CopyInv, Copying, Verified
<1>6. DeployInv
  BY <1>2, Zenon DEF DeployInv
<1>7. EventInv
  BY <1>1, <1>4 DEF EventInv, Journaled, EventCount
<1>8. TargetInv
  BY <1>1, Zenon DEF TargetInv
<1> QED
  BY <1>5, <1>6, <1>7, <1>8, Zenon DEF ProvisionInv

\* The invariant of admission and provisioning together.
Inv == AttemptInv /\ ProvisionInv

\* Every behaviour keeps it (admitExecution, provision, and what people do
\* to the repository and to the package meanwhile).
THEOREM AdmissionInvariant == ASSUME AbsentOK PROVE Spec => []Inv
<1>1. Init => Inv
  BY AttemptInit, NothingProvisioned, Zenon DEF Init, Inv
<1>2. Inv /\ [Next]_<<admissionVars, provisionVars>> => Inv'
  <2> SUFFICES ASSUME Inv, [Next]_<<admissionVars, provisionVars>> PROVE Inv'
    BY Zenon
  <2>0. AttemptInv /\ ProvisionInv
    BY Zenon DEF Inv
  <2>1. CASE AdmissionNext
    <3>1. AttemptInv'
      BY <2>0, <2>1, AbsentOK, AttemptStep, Zenon DEF AdmissionNext
    <3>2. ProvisionInv'
      BY <2>0, <2>1, ProvisionKept, Zenon
    <3> QED
      BY <3>1, <3>2, Zenon DEF Inv
  <2>2. CASE provision
    <3>1. SteadyAdmission /\ ProvisionInv'
      BY <2>0, <2>2, AbsentOK, ProvisionStep, Zenon
    <3> QED
      BY <2>0, <3>1, AttemptKept, Zenon DEF Inv
  <2>3. CASE UNCHANGED <<admissionVars, provisionVars>>
    <3>1. SteadyAdmission /\ UNCHANGED <<dpc, dep, events, stack, manifest, written, targets>> /\ UNCHANGED <<held, outcome>>
      BY <2>3, Zenon DEF admissionVars, provisionVars, SteadyAdmission, records
    <3>2. AttemptInv'
      BY <2>0, <3>1, AttemptKept, Zenon
    <3>3. CopyInv' /\ DeployInv' /\ EventInv' /\ TargetInv'
      BY <2>0, <3>1, Zenon DEF ProvisionInv, CopyInv, Copying, Verified, OfSubject, DeployInv, EventInv, TargetInv, Journaled, Earned
    <3> QED
      BY <3>2, <3>3, Zenon DEF Inv, ProvisionInv
  <2> QED
    BY <2>1, <2>2, <2>3, Zenon DEF Next
<1> QED
  BY <1>1, <1>2, PTL DEF Spec
-----------------------------------------------------------------------------
(* What admission and provisioning promise. *)

\* The execution manifest marks a whole package, for any number of faults and
\* edits: it is written last, behind fifteen passed checks (writePackageDraft,
\* freezeAdmittedExecution).
THEOREM AdmissionManifestIsLast == ASSUME AbsentOK PROVE Spec => []ManifestIsLast
<1>1. Inv => ManifestIsLast
  <2> SUFFICES ASSUME Inv, ThePackage # Absent
               PROVE  /\ \A f \in PackageFiles : package[f] # Absent
                      /\ changes = 0 => /\ package["assembly"] = ThePackage.inventory
                                        /\ package["deployment_assembly_inventory"].files = ThePackage.inventory
                      /\ journal.final /\ package["preflight_journal"] = journal.lines
                      /\ Len(journal.lines) = 15 /\ \A i \in 1 .. 15 : journal.lines[i].passed
                      /\ rejection = Absent
    BY Zenon DEF ManifestIsLast
  <2>0. ShapeInv /\ CheckInv /\ SourceInv /\ DraftInv
    BY Zenon DEF Inv, AttemptInv
  <2>1. held.written = 10
    <3>1. 10 <= held.written
      BY <2>0, DraftFacts DEF DraftInv, ThePackage
    <3> QED
      BY <2>0, <3>1 DEF DraftInv
  <2>2. Past({"draft"})
    BY <2>1 DEF Past
  <2>3. \A i \in 1 .. 10 : DraftSteps[i] # "reread" => Wrote(DraftSteps[i])
    BY <2>0, <2>1 DEF DraftInv
  <2>4. "reread" \notin PackageFiles
    BY PackageFacts, Zenon
  <2>5. \A f \in PackageFiles : Wrote(f)
    BY <2>3, <2>4, StepOfFile
  <2>6. ASSUME NEW f \in PackageFiles PROVE package[f] # Absent
    <3>1. CASE f = "assembly"
      <4>1. IsAssembly(package["assembly"])
        BY <2>5, <3>1, Zenon DEF Wrote
      <4> QED
        BY <3>1, <4>1, AbsentOK, Zenon DEF AbsentOK, IsAssembly
    <3>3. CASE f = "deployment_assembly_inventory"
      <4>1. IsInventory(package["deployment_assembly_inventory"])
        BY <2>5, <3>3, Zenon DEF Wrote
      <4> QED
        BY <3>3, <4>1, AbsentOK, Zenon DEF AbsentOK, IsInventory
    <3>2. CASE f \notin {"assembly", "deployment_assembly_inventory"}
      <4>1. package[f] = DraftContent(f)
        BY <2>5, <3>2, Zenon DEF Wrote
      <4>2. DraftContent(f) # Absent
        BY <2>0, <2>2, AbsentOK, ContentFacts, Zenon
      <4> QED
        BY <4>1, <4>2, Zenon
    <3> QED
      BY <3>1, <3>2, <3>3, Zenon
  <2>7. /\ package["execution_manifest"] = DraftContent("execution_manifest")
        /\ package["preflight_journal"] = DraftContent("preflight_journal")
        /\ changes = 0 => /\ package["assembly"] = held.assembly
                          /\ package["deployment_assembly_inventory"].files = held.assembly
    BY <2>5, PackageFacts, Zenon DEF Wrote
  <2>8. /\ DraftContent("execution_manifest") = buildExecutionManifest(held)
        /\ DraftContent("preflight_journal") = held.lines
    BY Zenon DEF DraftContent
  <2>9. ThePackage.inventory = held.assembly
    BY <2>7, <2>8 DEF ThePackage, buildExecutionManifest
  <2>10. held.lines = journal.lines
    BY <2>0, Zenon DEF ShapeInv
  <2>11. journal.final /\ Len(journal.lines) = 15 /\ (\A i \in 1 .. 15 : journal.lines[i].passed) /\ rejection = Absent
    BY <2>0, <2>2, Zenon DEF CheckInv, AllPassed
  <2> QED
    BY <2>6, <2>7, <2>8, <2>9, <2>10, <2>11, Zenon
<1> QED
  BY <1>1, AdmissionInvariant, AbsentOK, PTL

\* The commit that an admitted manifest names is what is deployed, unless the
\* repository moved while the attempt read it (assessSourceProvenance).
THEOREM AdmissionIsCommitted == ASSUME AbsentOK PROVE Spec => []AdmittedIsCommitted
<1>1. Inv => AdmittedIsCommitted
  <2> SUFFICES ASSUME Inv, outcome = "admitted", ~ moved PROVE OneRevision(ThePackage)
    BY Zenon DEF AdmittedIsCommitted
  <2>0. AttemptInv
    BY Zenon DEF Inv
  <2> DEFINE m == ThePackage
  <2>1. m = buildExecutionManifest(held)
    BY <2>0, SubjectFacts, Zenon DEF Subject, ThePackage
  <2>2. held.written = 10
    BY <2>0, Zenon DEF AttemptInv, DraftInv
  <2>3. /\ held.source.commit = head /\ held.source.dirty = dirtyEntries /\ held.source.tree = head
        /\ held.source.lock = work[PACKAGE_LOCK_PATH] /\ held.source.dirty = {}
        /\ held.assembly = SynthOf(work, installed, ExecutionId)
    BY <2>0, <2>2 DEF AttemptInv, SourceInv, Past
  <2>4. \A p \in Paths \ (Ignored \cup Outside) : work[p] = head[p]
    BY <2>3, Zenon DEF dirtyEntries
  <2>5. /\ m.commit = head /\ m.tree = head /\ m.lock = work[PACKAGE_LOCK_PATH] /\ m.execution = ExecutionId
        /\ m.inventory = SynthOf(work, installed, ExecutionId)
    BY <2>1, <2>3, Zenon DEF buildExecutionManifest
  <2>6. /\ m.inventory["asset"] = BundleOf(AssetEntryPoints, work, installed)
        /\ m.inventory["template.json"] = TemplateOf[<<work[INFRA_PATH], ExecutionId>>]
    BY <2>5, Zenon DEF SynthOf, ASSEMBLY_FILES, ASSEMBLY_PATHS
  <2>7. work[INFRA_PATH] = head[INFRA_PATH] /\ work[PACKAGE_LOCK_PATH] = head[PACKAGE_LOCK_PATH]
    BY <2>4, TrackedAssumption, Zenon
  <2>8. ASSUME NEW x \in BundleOf(AssetEntryPoints, work, installed), x[1] \in Paths \ (Ignored \cup Outside)
        PROVE  x[2] = head[x[1]]
    <3> DEFINE reached == UNION {Reached(e, work) : e \in AssetEntryPoints}
           bundle == {<<p, work[p]>> : p \in reached \cap Paths} \cup {<<p, installed[p]>> : p \in reached \cap Packages}
    <3>a. BundleOf(AssetEntryPoints, work, installed) = bundle
      BY Zenon DEF BundleOf
    <3>b. x \in bundle
      BY <2>8, <3>a, Zenon
    <3> HIDE DEF reached
    <3>0. x \in {<<p, work[p]>> : p \in reached \cap Paths} \cup {<<p, installed[p]>> : p \in reached \cap Packages}
      BY <3>b, Zenon
    <3>1. CASE \E p \in Paths : x = <<p, work[p]>>
      BY <2>4, <2>8, <3>1
    <3>2. CASE \E p \in Packages : x = <<p, installed[p]>>
      BY <2>8, <3>2, ScopeAssumption
    <3> QED
      BY <3>0, <3>1, <3>2, Zenon
  <2> HIDE DEF m
  <2>9. OneRevision(m)
    BY <2>5, <2>6, <2>7, <2>8, Zenon DEF OneRevision
  <2> QED
    BY <2>9, Zenon DEF m
<1> QED
  BY <1>1, AdmissionInvariant, AbsentOK, PTL

\* A stack is made of the admitted bytes, whatever happens to the package's
\* assembly (prepareVerifiedDeployCopy, deploy).
THEOREM ProvisioningDeploysAdmitted == ASSUME AbsentOK PROVE Spec => []DeployedIsAdmitted
<1>1. Inv => DeployedIsAdmitted
  <2> SUFFICES ASSUME Inv, stack # Absent
               PROVE  outcome = "admitted" /\ stack.from = held.assembly /\ stack.from = ThePackage.inventory
    BY Zenon DEF DeployedIsAdmitted
  <2>1. AttemptInv /\ outcome = "admitted" /\ stack.from = held.assembly
    BY Zenon DEF Inv, ProvisionInv, CopyInv
  <2>2. Subject.inventory = held.assembly
    BY <2>1, SubjectFacts, Zenon
  <2> QED
    BY <2>1, <2>2, Zenon DEF Subject, ThePackage
<1> QED
  BY <1>1, AdmissionInvariant, AbsentOK, PTL

\* The workload gets its targets only from a complete, tagged stack whose
\* manifest and events are on record (demoted, withTargets).
THEOREM ProvisioningTargetsAreEarned == ASSUME AbsentOK PROVE Spec => []TargetsAreEarned
<1>1. Inv => TargetsAreEarned
  <2> SUFFICES ASSUME Inv, targets
               PROVE  /\ stack # Absent /\ stack.status = "CREATE_COMPLETE" /\ stack.tags = dep.tags
                      /\ \A r \in stack.resources : r.complete
                      /\ manifest.status = "succeeded" /\ written
                      /\ events = EventsInOrder
    BY Zenon DEF TargetsAreEarned
  <2>1. Earned /\ manifest.status = "succeeded" /\ written /\ DeployInv /\ IsLog(events)
    BY Zenon DEF Inv, ProvisionInv, TargetInv, EventInv
  <2>2. /\ stack # Absent /\ stack.status = "CREATE_COMPLETE" /\ stack.tags = dep.tags
        /\ \A r \in stack.resources : r.complete
    BY <2>1, Zenon DEF DeployInv, Earned
  <2>3. events = EventsInOrder
    <3>1. PICK S : events \in Seq(S)
      BY <2>1, Zenon DEF IsLog
    <3> DEFINE names == {"DEPLOY_COPY_VERIFIED", "DEPLOY_STARTED", "DEPLOY_SUCCEEDED", "PACKAGE_ASSEMBLY_REVERIFIED",
                         "STACK_ID_RECORDED"}
    <3>2. EventsInOrder \in Seq(names) /\ Len(EventsInOrder) = 5
      BY DEF EventsInOrder
    <3> HIDE DEF names
    <3>3. Len(events) = 5 /\ \A i \in 1 .. 5 : events[i] = EventsInOrder[i]
      BY <2>1, Zenon DEF Earned, Journaled
    <3>4. events \in Seq(S \cup names) /\ EventsInOrder \in Seq(S \cup names)
      BY <3>1, <3>2
    <3> QED
      BY <3>2, <3>3, <3>4, SeqEqual, Zenon
  <2> QED
    BY <2>1, <2>2, <2>3, Zenon
<1> QED
  BY <1>1, AdmissionInvariant, AbsentOK, PTL
=============================================================================
