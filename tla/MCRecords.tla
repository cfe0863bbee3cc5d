----------------------------- MODULE MCRecords ------------------------------
(***************************************************************************)
(* Small instances of what is kept on record: the stored package, the      *)
(* writer of a journal, and the file below it.  They share no state;       *)
(* `part' says which of them a behaviour is about, and the others stay as  *)
(* they are initially.                                                     *)
(***************************************************************************)
EXTENDS PackageAmendments, JournalWriter, AppendOnlyFile

VARIABLE part

recordVars == <<part, amendmentVars, vars, journalFileVars>>

Pass == [transport_probe_verdict |-> "pass", probe_validity |-> "valid",
         treatment_fidelity |-> "verified", evidence_integrity |-> "verified"]
Failing == [Pass EXCEPT !.transport_probe_verdict = "fail"]
Closed(cleanup, audit, released) == [cleanup_status |-> cleanup, leak_audit_status |-> audit, lease_status |-> released]
Clean == Closed("succeeded", "clean", "released")
Unclean == Closed("failed", "inconclusive", "recovery_required")
Unended == Closed("not_started", "inconclusive", "unverified")
Kinds == {"LATE_EVIDENCE", "OPERATIONAL_RECOVERY", "BILLING"}
World(facts, closure, late, growing, begun, kinds, accidents) ==
    [facts |-> facts, closure |-> closure, late |-> late, growing |-> growing, starts |-> begun, kinds |-> kinds,
     damage |-> accidents]
\* Journals that grow while files are frozen; two amendments and an accident; chains of three.
PackageWorlds == {World(Pass, Clean, "none", Journals, 0, {}, 1), World(Pass, Unended, "unverified", {}, 1, Kinds, 1),
              World(Failing, Clean, "none", {}, 1, Kinds, 0),
              World(Pass, Clean, "none", {}, 2, {"LATE_EVIDENCE", "BILLING"}, 0),
              World(Pass, Unclean, "none", {}, 2, {"OPERATIONAL_RECOVERY"}, 1),
              World(Pass, Unclean, "none", {}, 2, {"LATE_EVIDENCE", "OPERATIONAL_RECOVERY"}, 0),
              World(Pass, Clean, "none", {}, 3, {"LATE_EVIDENCE"}, 0)}
Nothing == World(Failing, Unended, "none", {}, 0, {}, 0)
AllWorlds == PackageWorlds \cup {Nothing}

RecordsInit ==
  /\ part \in {"package", "writer", "file"}
  /\ PackageInit /\ Init /\ FileInit
  /\ part # "package" <=> world = Nothing

PackagePart == part = "package" /\ PackageNext /\ UNCHANGED <<vars, journalFileVars>>
WriterPart == part = "writer" /\ Next /\ UNCHANGED <<amendmentVars, journalFileVars>>
FilePart == part = "file" /\ FileNext /\ UNCHANGED <<amendmentVars, vars>>
RecordsNext == (PackagePart \/ WriterPart \/ FilePart) /\ UNCHANGED part

RecordsSpec == RecordsInit /\ [][RecordsNext]_recordVars

Symmetry == Permutations(Writers)
=============================================================================
