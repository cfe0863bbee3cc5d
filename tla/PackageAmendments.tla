------------------------- MODULE PackageAmendments -------------------------
(***************************************************************************)
(* The life of a stored probe package: the runner freezes the probe and    *)
(* finalizes the package, then operators amend it (late-evidence           *)
(* assessment, operational recovery, billing import), possibly two at a    *)
(* time and possibly dying half way, while the stored bytes may be damaged *)
(* by accident.  Anyone may verify the package with any selected head.     *)
(***************************************************************************)
EXTENDS EvidencePackage, TLC

CONSTANTS Writers,      \* operators' processes that amend the package
          MaxLines,     \* lines of a journal before the package is finalized
          Worlds        \* what the probe established, how its execution closed, and the bounds of the scenario:
                        \* the journals that grow, the amendments begun and their kinds, the accidents

VARIABLES world, stage, files, special, stored, writers, starts, done, damage, resources, lease
packageVars == <<stage, files, special, stored, writers, starts, done, damage, resources, lease>>
amendmentVars == <<world, packageVars>>

Identity == "this"
own(type, id, fields) == bytesOf(id, fields @@ [type |-> type, execution |-> Identity])
lines(journal) == digestAt(files, journal)
storedSet == {[directory |-> d, files |-> stored[d].files, special |-> stored[d].special] : d \in DOMAIN stored}

\* ------------------------------------------------------------------ the runner's part
\* Admission and deployment have left the manifest, the assembly with its inventory and the resource manifest.
Draft == LET assembly == [p \in AssemblyPaths |-> bytesOf(<<p>>, [type |-> "asset"])]
         IN  assembly @@ ("execution_manifest" :> own("execution_manifest", <<"manifest">>, <<>>))
             @@ ("scope_snapshot" :> own("scope_snapshot", <<"scope">>, <<>>))
             @@ ("deployment_assembly_inventory" :> bytesOf(<<"inventory">>, inventoryAssembly(assembly)))
             @@ ("resource_manifest" :> own("resource_manifest", <<"resources">>, <<>>))
             @@ ("coordination_journal" :> journalBytes(<<"ACQUIRED">>)) @@ ("runner_journal" :> journalBytes(<<"P1">>))
\* The heartbeat and the runner keep appending while files are frozen.
AppendJournal ==
    /\ stage \in {"running", "derived", "checkpointed", "indexed"}
    /\ \E j \in world.growing :
        /\ Len(lines(j)) < MaxLines
        /\ files' = [files EXCEPT ![j] = journalBytes(Append(lines(j), IF j = "runner_journal" THEN "P4" ELSE "HEARTBEAT"))]
    /\ UNCHANGED <<world, stage, special, stored, writers, starts, done, damage, resources, lease>>
\* The result cites the ledger as a whole and an event of the runner journal by the prefix that ends with it.
deriveTransportResult ==
    /\ stage = "running"
    /\ stage' = "derived"
    /\ files' = ("probe/ledger" :> bytesOf(<<"ledger">>, [type |-> "ledger"]))
                @@ ("probe/result" :> own("result", <<"result">>,
                       [facts |-> world.facts,
                        refs  |-> {[path |-> "probe/ledger", sha256 |-> <<"ledger">>, event_id |-> Absent],
                                   [path |-> "runner_journal", sha256 |-> lines("runner_journal"), event_id |-> "P1"]}]))
                @@ files
    /\ UNCHANGED <<world, special, stored, writers, starts, done, damage, resources, lease>>
writeCheckpoint ==
    /\ stage = "derived"
    /\ stage' = "checkpointed"
    /\ files' = ("checkpoint" :> bytesOf(<<"checkpoint">> \o lines("coordination_journal"),
                                         buildPrefixCheckpoint(lines("coordination_journal")))) @@ files
    /\ UNCHANGED <<world, special, stored, writers, starts, done, damage, resources, lease>>
writeEvidenceIndex ==
    /\ stage = "checkpointed"
    /\ stage' = "indexed"
    /\ files' = ("probe/evidence_index" :> bytesOf(<<"evidence_index">>, buildEvidenceIndex(files, Identity))) @@ files
    /\ UNCHANGED <<world, special, stored, writers, starts, done, damage, resources, lease>>
\* Late evidence, cleanup, the last lease event, the summary over all of it, and the index over the snapshot.
finalizePackage ==
    /\ stage = "indexed"
    /\ stage' = "final"
    /\ LET closed == ("late_stream" :> bytesOf(<<"late_stream">>, [type |-> "late_stream"]))
                     @@ ("late_assessment" :> own("late_assessment", <<"late">>, [status |-> world.late]))
                     @@ ("cleanup_result" :> own("cleanup_result", <<"cleanup">>, [status |-> world.closure.cleanup_status]))
                     @@ ("leak_audit_result" :> own("leak_audit_result", <<"audit">>, [status |-> world.closure.leak_audit_status]))
                     @@ ("coordination_journal" :> journalBytes(Append(lines("coordination_journal"), world.closure.lease_status)))
                     @@ files
           summary == [closure |-> world.closure, probe_result_sha256 |-> digestAt(files, "probe/result"),
                       late_status |-> world.late, safety_status |-> "within_limit",
                       refs |-> {[path |-> "probe/result", sha256 |-> digestAt(files, "probe/result"), event_id |-> Absent]}]
           whole == ("summary" :> own("summary", <<"summary">>, summary)) @@ closed
       IN  files' = ("package_index" :> bytesOf(<<"package_index">>, buildPackageIndex(whole, Identity))) @@ whole
    /\ UNCHANGED <<world, special, stored, writers, starts, done, damage, resources, lease>>

\* ------------------------------------------------------------------ what an operator's command reads first
\* A recovery that is whole: its index is of this package, and the record has the digest the index gives.
\* Faulty variant: any recovery record found in an amendment directory.
wholeRecoveryAny(amendment, original) ==
    parsePackageRecord(amendment.files, "recovery_record", "recovery_record")
wholeRecovery(amendment, original) ==
    LET index == parsedIndex(amendment)
    IN  IF index = Absent THEN Absent
        ELSE IF /\ index.kind = "OPERATIONAL_RECOVERY" /\ index.original_package_index_sha256 = original
                /\ index.execution_manifest_sha256 = digestAt(files, "execution_manifest")
                /\ \E entry \in index.entries : /\ entry.path = "recovery_record"
                                                /\ entry.sha256 = digestAt(amendment.files, "recovery_record")
        THEN parsePackageRecord(amendment.files, "recovery_record", "recovery_record") ELSE Absent
byName(directories) ==
    SetToSortSeq(directories, LAMBDA a, b : a[1] < b[1] \/ (a[1] = b[1] /\ a[2] < b[2]))
ownClosureRecord(type) ==
    LET record == parsePackageRecord(files, type, type)
    IN  IF record = Absent THEN "absent" ELSE IF belongsToExecution(record, Identity) THEN record.status ELSE "absent"
readPackageClosure ==
    LET ordered == byName(DOMAIN stored)
        recoveries == SelectSeq([i \in DOMAIN ordered |-> wholeRecovery(stored[ordered[i]], digestAt(files, "package_index"))],
                                LAMBDA r : r # Absent)
    IN  IF recoveries # <<>>
        THEN [cleanup_status |-> Last(recoveries).closure.cleanup_status,
              leak_audit_status |-> Last(recoveries).closure.leak_audit_status]
        ELSE [cleanup_status |-> ownClosureRecord("cleanup_result"),
              leak_audit_status |-> ownClosureRecord("leak_audit_result")]
resourcesProvenGone == readPackageClosure = [cleanup_status |-> "succeeded", leak_audit_status |-> "clean"]

\* ------------------------------------------------------------------ the three amending commands
\* What every command needs: a readable manifest of this execution, and a finalized package.
Finalized == /\ parsePackageRecord(files, "execution_manifest", "execution_manifest") # Absent
             /\ belongsToExecution(files["execution_manifest"].record, Identity)
             /\ "package_index" \in DOMAIN files
IDLE == [step |-> "idle"]
\* A command has its payload and is about to write the amendment.
Begin(w, kind, id, payload) ==
    /\ writers' = [writers EXCEPT ![w] = [step |-> "payload", kind |-> kind, id |-> id, payload |-> payload,
                                          original |-> digestAt(files, "package_index")]]
    /\ starts' = starts \cup {id}
NewIds == (1..world.starts) \ starts
CanStart(w, kind) == kind \in world.kinds /\ stage = "final" /\ writers[w] = IDLE /\ Finalized
\* A capture reads the tables, which must still be there; without one the packaged stream is assessed again.
assessLateEvidenceAmendment(w) ==
    /\ CanStart(w, "LATE_EVIDENCE")
    /\ parsePackageRecord(files, "late_assessment", "late_assessment") # Absent
    /\ \E id \in NewIds, status \in {"consistent", "contradictory"} :
        /\ IF resourcesProvenGone THEN "late_stream" \in DOMAIN files /\ status = "consistent" ELSE resources = "left"
        /\ Begin(w, "LATE_EVIDENCE", id,
                 [late_stream |-> bytesOf(<<"late_stream", ToString(id)>>, [type |-> "late_stream"]),
                  late_assessment |-> own("late_assessment", <<"late", ToString(id)>>, [status |-> status])])
    /\ UNCHANGED <<world, stage, files, special, stored, done, damage, resources, lease>>
\* The lease as the original coordination journal left it, and what finalizing the item again establishes.
originalLease == IF lines("coordination_journal") = <<>> THEN "unverified" ELSE Last(lines("coordination_journal"))
repairLease(clean) ==
    IF originalLease = "released" THEN {[status |-> "released", lease |-> lease]}
    ELSE CASE lease = "other"    -> {[status |-> "unverified", lease |-> lease]}
           [] lease = "released" -> {[status |-> "released", lease |-> lease]}
           [] lease = "owned"    ->
                LET target == IF clean THEN "released" ELSE "owned"
                IN  {[status |-> IF clean THEN "released" ELSE "recovery_required", lease |-> target],
                     [status |-> "unverified", lease |-> lease], [status |-> "unverified", lease |-> target]}
recoverExecution(w) ==
    /\ CanStart(w, "OPERATIONAL_RECOVERY")
    /\ parsePackageRecord(files, "resource_manifest", "resource_manifest") # Absent
    /\ \E id \in NewIds, clean \in BOOLEAN : \E repaired \in repairLease(clean) :
        /\ resources' = IF clean THEN "gone" ELSE resources
        /\ lease' = repaired.lease
        /\ Begin(w, "OPERATIONAL_RECOVERY", id,
                 [cleanup_result |-> own("cleanup_result", <<"cleanup", ToString(id)>>, <<>>),
                  recovery_record |-> own("recovery_record", <<"recovery", ToString(id)>>,
                     [original_package_index_sha256 |-> digestAt(files, "package_index"),
                      closure |-> [cleanup_status |-> IF clean THEN "succeeded" ELSE "failed",
                                   leak_audit_status |-> IF clean THEN "clean" ELSE "inconclusive",
                                   lease_status |-> repaired.status]])])
    /\ UNCHANGED <<world, stage, files, special, stored, done, damage>>
billingImport(w) ==
    /\ CanStart(w, "BILLING")
    /\ \E id \in NewIds, check \in {"within_limit", "breached"} :
        Begin(w, "BILLING", id,
              [billing_import |-> own("billing_import", <<"billing", ToString(id)>>, [billed_cost_check |-> check]),
               billing_export |-> bytesOf(<<"export", ToString(id)>>, [type |-> "export"])])
    /\ UNCHANGED <<world, stage, files, special, stored, done, damage, resources, lease>>

\* ------------------------------------------------------------------ writeAmendmentPackage
\* The parent is whatever index the last directory holds, the sequence one more than the directories.
\* Faulty variant: the parent is the index of a directory with the greatest id.
lastDirectoryById(directories) == CHOOSE d \in directories : \A e \in directories : e[2] <= d[2]
lastDirectory(directories) == Last(byName(directories))
existingParent ==
    IF DOMAIN stored = {} THEN Absent
    ELSE LET last == stored[lastDirectory(DOMAIN stored)].files
         IN  IF "amendment_index" \in DOMAIN last THEN digest(last["amendment_index"]) ELSE Absent
ReadExisting(w) ==
    /\ writers[w].step = "payload"
    /\ LET c        == writers[w]
           sequence == Cardinality(DOMAIN stored) + 1
           index    == buildAmendment(c.kind, sequence, c.id, c.original, digestAt(files, "execution_manifest"),
                                      existingParent, c.payload, Identity)
       IN  writers' = [writers EXCEPT ![w] =
               IF index = Absent THEN IDLE
               ELSE [step |-> "writing", kind |-> c.kind, directory |-> <<sequence, c.id>>,
                     files |-> ("amendment_index" :> bytesOf(<<"amendment_index", ToString(c.id)>>, index)) @@ c.payload,
                     todo  |-> Append(SetToSeq(DOMAIN c.payload), "amendment_index"), basis |-> Len(done)]]
    /\ UNCHANGED <<world, stage, files, special, stored, starts, done, damage, resources, lease>>
writeAmendmentFile(w) ==
    /\ writers[w].step = "writing"
    /\ LET c == writers[w]
           path == Head(c.todo)
           written == IF c.directory \in DOMAIN stored THEN stored[c.directory] ELSE [files |-> <<>>, special |-> {}]
       IN  /\ stored' = (c.directory :> [written EXCEPT !.files = (path :> c.files[path]) @@ @]) @@ stored
           /\ writers' = [writers EXCEPT ![w] = IF Len(c.todo) = 1 THEN IDLE ELSE [c EXCEPT !.todo = Tail(@)]]
           /\ done' = IF Len(c.todo) = 1 THEN Append(done, [basis |-> c.basis, files |-> c.files]) ELSE done
    /\ UNCHANGED <<world, stage, files, special, starts, damage, resources, lease>>
\* A process dies, or a write is refused, wherever it is.
Abandon(w) ==
    /\ writers[w] # IDLE
    /\ writers' = [writers EXCEPT ![w] = IDLE]
    /\ UNCHANGED <<world, stage, files, special, stored, starts, done, damage, resources, lease>>

\* ------------------------------------------------------------------ the surroundings
OtherExecutionAcquires ==
    /\ lease = "released" /\ stage = "final"
    /\ lease' = "other"
    /\ UNCHANGED <<world, stage, files, special, stored, writers, starts, done, damage, resources>>
\* Accidents to stored bytes: a file lost, cut short, or overwritten by that of another execution, and an entry nothing lists.
otherExecution(path, bytes) ==
    LET good == [cleanup_result |-> "succeeded", leak_audit_result |-> "clean", late_assessment |-> "consistent"]
        r    == bytes.record
    IN  bytesOf(<<"foreign", path>>,
                IF "execution" \notin DOMAIN r THEN r
                ELSE IF path \in DOMAIN good /\ "status" \in DOMAIN r THEN [r EXCEPT !.execution = "other", !.status = good[path]]
                ELSE IF path = "recovery_record"
                     THEN [r EXCEPT !.execution = "other", !.original_package_index_sha256 = <<"other">>,
                                    !.closure = [cleanup_status |-> "succeeded", leak_audit_status |-> "clean",
                                                 lease_status |-> "released"]]
                ELSE [r EXCEPT !.execution = "other"])
Accidents(f) ==
    {[p \in DOMAIN f \ {lost} |-> f[p]] : lost \in DOMAIN f}
    \cup {[f EXCEPT ![p] = bytesOf(<<"cut", p>>, Unreadable)] : p \in DOMAIN f}
    \cup {[f EXCEPT ![p] = otherExecution(p, f[p])] : p \in DOMAIN f}
    \cup {("stray" :> bytesOf(<<"stray">>, Unreadable)) @@ f}
Quiet == stage = "final" /\ damage < world.damage /\ \A w \in Writers : writers[w] = IDLE
DamageOriginal ==
    /\ Quiet
    /\ damage' = damage + 1
    /\ \/ files' \in Accidents(files) /\ UNCHANGED special
       \/ special' = {"special"} /\ UNCHANGED files
    /\ UNCHANGED <<world, stage, stored, writers, starts, done, resources, lease>>
DamageAmendment ==
    /\ Quiet
    /\ damage' = damage + 1
    /\ \E d \in DOMAIN stored :
        /\ "amendment_index" \in DOMAIN stored[d].files
        /\ \/ \E f \in Accidents(stored[d].files) : stored' = [stored EXCEPT ![d].files = f]
           \/ stored' = [stored EXCEPT ![d].special = {"special"}]
    /\ UNCHANGED <<world, stage, files, special, writers, starts, done, resources, lease>>

PackageInit ==
    /\ world \in Worlds
    /\ stage = "running" /\ files = Draft /\ special = {} /\ stored = <<>>
    /\ writers = [w \in Writers |-> IDLE] /\ starts = {} /\ done = <<>> /\ damage = 0
    /\ resources = IF world.closure.cleanup_status = "succeeded" THEN "gone" ELSE "left"
    /\ lease = IF world.closure.lease_status = "released" THEN "released" ELSE "owned"
PackageNext ==
    \/ AppendJournal \/ deriveTransportResult \/ writeCheckpoint \/ writeEvidenceIndex \/ finalizePackage
    \/ \E w \in Writers : assessLateEvidenceAmendment(w)
    \/ \E w \in Writers : recoverExecution(w)
    \/ \E w \in Writers : billingImport(w)
    \/ \E w \in Writers : ReadExisting(w)
    \/ \E w \in Writers : writeAmendmentFile(w)
    \/ \E w \in Writers : Abandon(w)
    \/ OtherExecutionAcquires \/ DamageOriginal \/ DamageAmendment
PackageSpec == PackageInit /\ [][PackageNext]_amendmentVars

\* ------------------------------------------------------------------ properties
\* The heads an operator may select: none, a completed amendment's index, or one that is not of this package.
Heads == {Absent, <<"unknown">>} \cup {digest(done[i].files["amendment_index"]) : i \in DOMAIN done}
\* Every amendment begun in the store was finished, and each had seen all those finished before it.
OneAfterAnother == Cardinality(DOMAIN stored) = Len(done) /\ \A i \in DOMAIN done : done[i].basis = i - 1
Amending(path) == {i \in DOMAIN done : path \in DOMAIN done[i].files}
LatestOf(path, initial) == IF Amending(path) = {} THEN initial ELSE done[Max(Amending(path))].files[path].record
Verified(head) == verifyPackage(files, special, storedSet, head, Identity)
\* The verifier's verdict against the history of the package: eligible exactly when no stored byte has changed
\* since it was written, the amendments were made one after another, the head selected is the last, the cleanup had
\* ended, and the last assessment of late evidence does not contradict the result (writeAmendmentPackage, verifyPackage).
EligibleExactlyWhenWhole ==
    stage = "final" =>
        \A head \in Heads :
            Verified(head).eligible <=>
                /\ damage = 0 /\ OneAfterAnother
                /\ head = IF done = <<>> THEN Absent ELSE digest(Last(done).files["amendment_index"])
                /\ world.closure.cleanup_status \notin NON_TERMINAL_CLEANUP
                /\ LatestOf("late_assessment", [status |-> "none"]).status # "contradictory"
\* A probe found usable did pass, its resources are gone, its lease is not held any more, no bill imported for it
\* exceeded the ceiling, and the last look at late evidence found none against it (assessProbeUsability).
UsableIsEarned ==
    \A head \in Heads :
        assessProbeUsability(readProbeUsabilityInput(files, special, storedSet, head, Identity)).usable =>
            /\ world.facts.transport_probe_verdict = "pass"
            /\ resources = "gone" /\ lease # "owned"
            /\ \A i \in Amending("billing_import") : done[i].files["billing_import"].record.billed_cost_check # "breached"
            /\ LatestOf("late_assessment", [status |-> world.late]).status \in {"none", "consistent"}
\* When the closure proves the resources gone, so that late evidence is not captured again, they are
\* (readPackageClosure takes the last whole recovery, also from a package that no longer verifies).
ProvenGoneIsTrue == stage = "final" /\ resourcesProvenGone => resources = "gone"
=============================================================================
