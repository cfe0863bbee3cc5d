---------------------------- MODULE LateCapture -----------------------------
(***************************************************************************)
(* What an execution collects, and what it looks for again.  Each trial is *)
(* published, its sources are read page by page while its callers still    *)
(* write (trial-collection.ts) and what was read is frozen; after          *)
(* monitoring the execution's own journals are exported, and cleanup       *)
(* step 1 re-reads every source of every frozen trial and keeps what the   *)
(* frozen copies lack (late-record-capture.ts).  The trials are of one     *)
(* variant: its DLQ and its listing of Durable executions serve them all.  *)
(*                                                                         *)
(* A source is a partition <<kind, owner>>.  An item holds its place in    *)
(* the read order, which is also its identity, the file its sort key       *)
(* routes it to, the trial of its message group, the instant it started    *)
(* and whether it is well formed.  Instants advance when a message is sent *)
(* and when its publication is stamped.  `world' is the one source of a behaviour that is written to *)
(* and whose reads and files fail; the others are empty and well.          *)
(***************************************************************************)
EXTENDS Integers, FiniteSets, Sequences

CONSTANTS Absent, Trials, Worlds, PageSize, DLQ_RECEIVE_ROUND_LIMIT, MaxItems, MaxFaults

VARIABLES world, phase, turn, now, published, items,
          reads, cursor, got, buffer, frozen, index, observations, failed, atCutoff, stream, faults

readVars == <<reads, cursor, got>>
vars == <<world, phase, turn, now, published, items, readVars, buffer, frozen, index, observations, failed, atCutoff,
          stream, faults>>

TrialIds == {Trials[k] : k \in DOMAIN Trials}
Owners == TrialIds \cup {"execution"}
JournalKinds == {"caller", "experiment", "canary_caller", "canary_controller", "warmup", "provider"}
\* The items a writer may leave in a source, by the file they are routed to; `none' is routed to no
\* file, `state' is caller state.
Holds == [caller |-> {"callerJournal", "state", "none"}, experiment |-> {"providerJournal", "controllerJournal"},
          ledger |-> {"ledgerSnapshot"}, dlq |-> {"dlqSnapshot"}, durable |-> {"durableExecutions"},
          canary_caller |-> {"canaryCallerJournal"}, canary_controller |-> {"canaryControllerJournal"},
          warmup |-> {"warmupProviderJournal"}, provider |-> {"executionProviderJournal"}]
Kinds == DOMAIN Holds
Files == (UNION {Holds[kind] : kind \in Kinds}) \ {"state", "none"}
NoFiles == [f \in Files |-> Absent]
\* The files of one read of a source (unitJournalPlans, EXECUTION_JOURNAL_PARTITIONS).
routes(kind) == Holds[kind] \ {"state", "none"}

sourceOf(read) == IF read[1] \in {"dlq", "durable"} THEN <<read[1], "execution">> ELSE read
Sources == {<<kind, t>> : kind \in {"caller", "experiment", "ledger"}, t \in TrialIds}
           \cup {<<kind, "execution">> : kind \in Kinds \ {"caller", "experiment", "ledger"}}
\* The order of a collection (design T8), of the execution-level exports and of a re-read unit.
collectTrialEvidence(t) == <<<<"ledger", t>>, <<"dlq", t>>, <<"caller", t>>, <<"experiment", t>>, <<"durable", t>>>>
EXECUTION_JOURNAL_PARTITIONS == <<<<"canary_caller", "execution">>, <<"canary_controller", "execution">>,
                                  <<"warmup", "execution">>, <<"provider", "execution">>>>
isFrozen(t) == t \in index
\* A Durable trial is listed again only when its frozen record names the listing (frozenListing).
captureUnit(t) ==
  IF ~isFrozen(t) THEN <<>>
  ELSE <<<<"caller", t>>, <<"experiment", t>>, <<"ledger", t>>, <<"dlq", t>>>>
       \o (IF frozen[t]["durableExecutions"] = Absent THEN <<>> ELSE <<<<"durable", t>>>>)
lateCapturePlan(ts) ==
  LET f[k \in 0..Len(ts)] == IF k = 0 THEN <<>> ELSE f[k - 1] \o captureUnit(ts[k])
  IN f[Len(ts)] \o EXECUTION_JOURNAL_PARTITIONS

-----------------------------------------------------------------------------
(* One read of one source. *)

\* The listing starts at the trial's publication; a partition is read whole.
listed(read, found) == IF read[1] = "durable" THEN {i \in found : i.start >= published[read[2]]} ELSE found
unread(read, after) == {i \in listed(read, items[sourceOf(read)]) : i.key > after}
\* The first items of what is left, in the order of the store.
pageOf(left) == {i \in left : Cardinality({j \in left : j.key < i.key}) < PageSize}
lastKey(page, after) == IF page = {} THEN after ELSE CHOOSE k \in {i.key : i \in page} : \A i \in page : i.key <= k

\* What a read that ended gives: its items, and whether it failed.  A malformed message or listed
\* execution is left out and is a failure; a journal that failed, or that holds an item no route
\* claims, gives no file at all.
wellFormed(read, found) == IF read[1] \in {"dlq", "durable"} THEN {i \in found : i.fit} ELSE found
unroutable(read, found) == read[1] \in JournalKinds /\ \E i \in found : i.file = "none"
readFailed(read, found, broken) == broken \/ wellFormed(read, found) # found \/ unroutable(read, found)
exportJournals(read, found, broken, f) ==
  IF readFailed(read, found, broken) THEN Absent ELSE {i \in found : i.file = f}
correlated(read, found) == {i \in wellFormed(read, found) : read[1] = "dlq" => i.group = read[2]}

\* Collection: the snapshot of the DLQ is written only when the trial has messages in it, the ledger
\* and the listing are written however far they were read.
collectedFile(read, found, broken, f) ==
  IF read[1] \in JournalKinds THEN exportJournals(read, found, broken, f)
  ELSE IF read[1] = "dlq" /\ correlated(read, found) = {} THEN Absent
  ELSE correlated(read, found)
collected(read, found, broken) ==
  [f \in Files |-> IF f \in routes(read[1]) THEN collectedFile(read, found, broken, f) ELSE buffer[f]]

\* The start of the next trial of the same alias that the plan holds, of all that were published later.
LaterListings(t) ==
  {published[u] : u \in {u \in index : frozen[u]["durableExecutions"] # Absent /\ published[u] > published[t]}}
\* Faulty variant: the window includes the next publication.
startsWithinClosed(i, t) ==
  /\ i.start >= published[t]
  /\ \A until \in LaterListings(t) : i.start <= until
\* A listed execution has a start: one without is malformed and is not mapped (durable-sdk-mapping.ts:55).
startsWithin(i, t) ==
  /\ i.start >= published[t]
  /\ \A until \in LaterListings(t) : i.start < until

\* A missing copy is an empty one for the DLQ only.
baselineMissing(read, f) == frozen[read[2]][f] = Absent /\ read[1] # "dlq"
absentItems(known, found) == {i \in found : i \notin known}
\* Faulty variant: nothing is late against a copy that is not there.
lateAgainstFrozenOnly(read, found, f) ==
  IF frozen[read[2]][f] = Absent THEN {} ELSE absentItems(frozen[read[2]][f], found)
lateAgainstFrozen(read, found, f) ==
  IF baselineMissing(read, f) THEN {}
  ELSE absentItems(IF frozen[read[2]][f] = Absent THEN {} ELSE frozen[read[2]][f], found)
\* The new items of one file, of the trial's own window; a journal that could not be exported has none.
kept(read, found, broken, f) ==
  IF read[1] \in JournalKinds /\ readFailed(read, found, broken) THEN {}
  ELSE {i \in lateAgainstFrozen(read, correlated(read, found), f) :
          i.file = f /\ (read[1] = "durable" => startsWithin(i, read[2]))}
\* A journal event without a record type cannot be carried.
carriedRecordType(read, i) == read[1] \in JournalKinds => i.fit
late(read, found, broken) ==
  UNION {{[owner |-> read[2], file |-> f, item |-> i, correlated |-> read[2] # "execution" \/ read[1] = "provider"]
          : i \in {i \in kept(read, found, broken, f) : carriedRecordType(read, i)}} : f \in routes(read[1])}
captureFailed(read, found, broken) ==
  \/ readFailed(read, found, broken)
  \/ \E f \in routes(read[1]) :
       baselineMissing(read, f) \/ \E i \in kept(read, found, broken, f) : ~carriedRecordType(read, i)

-----------------------------------------------------------------------------
Init ==
  /\ world \in Worlds
  /\ phase = "publish" /\ turn = 1 /\ now = 0
  /\ published = [t \in TrialIds |-> Absent]
  /\ items = [s \in Sources |-> {}]
  /\ reads = <<>> /\ cursor = 0 /\ got = {}
  /\ buffer = NoFiles
  /\ frozen = [o \in Owners |-> NoFiles]
  /\ index = {} /\ observations = {} /\ failed = FALSE
  /\ atCutoff = Absent /\ stream = Absent /\ faults = 0

Sent == {Trials[k] : k \in {k \in DOMAIN Trials : k < turn \/ (k = turn /\ phase # "publish")}}
Published == {t \in TrialIds : published[t] # Absent}

\* A writer leaves an item: an event at any free place of a journal or of the ledger, a message or
\* an execution at the end.
Write ==
  /\ phase # "done"
  /\ Cardinality(items[world]) < MaxItems
  /\ world[2] \in Sent \cup {"execution"} /\ Sent # {}
  /\ \E key \in 1..MaxItems, file \in Holds[world[1]], group \in Sent, fit \in BOOLEAN :
       /\ \A i \in items[world] : IF world[1] \in {"dlq", "durable"} THEN i.key < key ELSE i.key # key
       /\ items' = [items EXCEPT ![world] = @ \cup
            {[key |-> key, file |-> file, group |-> IF world[1] = "dlq" THEN group ELSE world[2],
              start |-> now, fit |-> fit]}]
  /\ UNCHANGED <<world, phase, turn, now, published, readVars, buffer, frozen, index, observations, failed, atCutoff,
                 stream, faults>>

\* The message is on the queue before its publication is stamped: what it starts may be older.
Send ==
  /\ phase = "publish" /\ turn <= Len(Trials)
  /\ now' = now + 1 /\ phase' = "stamp"
  /\ UNCHANGED <<world, turn, published, items, readVars, buffer, frozen, index, observations, failed, atCutoff, stream,
                 faults>>
Publish ==
  /\ phase = "stamp"
  /\ now' = now + 1
  /\ published' = [published EXCEPT ![Trials[turn]] = now + 1]
  /\ reads' = collectTrialEvidence(Trials[turn])
  /\ phase' = "collect"
  /\ UNCHANGED <<world, turn, items, cursor, got, buffer, frozen, index, observations, failed, atCutoff, stream, faults>>

\* The current read ended with `found'; `broken' when a page failed, a cursor came twice or the
\* rounds ran out.
Ended(found, broken) ==
  /\ reads' = Tail(reads) /\ cursor' = 0 /\ got' = {}
  /\ IF phase = "capture"
     THEN /\ observations' = observations \cup late(Head(reads), found, broken)
          /\ failed' = (failed \/ captureFailed(Head(reads), found, broken))
          /\ UNCHANGED buffer
     ELSE /\ buffer' = collected(Head(reads), found, broken)
          /\ UNCHANGED <<observations, failed>>

\* One strongly consistent page; the store returns a cursor when more is left, and may when the page
\* is full.  The last page of a listing is followed by the details of each execution, which may fail.
ReadPage ==
  /\ reads # <<>> /\ Head(reads)[1] # "dlq"
  /\ LET read == Head(reads)
         page == pageOf(unread(read, cursor))
     IN \/ /\ Cardinality(page) = PageSize
           /\ cursor' = lastKey(page, cursor) /\ got' = got \cup page
           /\ UNCHANGED <<reads, buffer, observations, failed, faults>>
        \/ /\ page = unread(read, cursor)
           /\ \E broken \in BOOLEAN :
                /\ broken => read[1] = "durable" /\ sourceOf(read) = world /\ faults < MaxFaults /\ got \cup page # {}
                /\ faults' = IF broken THEN faults + 1 ELSE faults
                /\ Ended(got \cup page, broken)
  /\ UNCHANGED <<world, phase, turn, now, published, items, frozen, index, atCutoff, stream>>

\* Messages stay visible: each round receives all of them again.
ReceiveRound ==
  /\ reads # <<>> /\ Head(reads)[1] = "dlq"
  /\ LET batch == items[sourceOf(Head(reads))]
     IN IF {i \in batch : i.fit} \subseteq got
        THEN Ended(got \cup batch, FALSE)
        ELSE IF cursor + 1 = DLQ_RECEIVE_ROUND_LIMIT
        THEN Ended(got \cup batch, TRUE)
        ELSE /\ got' = got \cup batch /\ cursor' = cursor + 1
             /\ UNCHANGED <<reads, buffer, observations, failed>>
  /\ UNCHANGED <<world, phase, turn, now, published, items, frozen, index, atCutoff, stream, faults>>

ReadFails ==
  /\ reads # <<>> /\ sourceOf(Head(reads)) = world /\ faults < MaxFaults
  /\ faults' = faults + 1
  /\ Ended(got, TRUE)
  /\ UNCHANGED <<world, phase, turn, now, published, items, frozen, index, atCutoff, stream>>

\* Each file is written for itself and may fail; the index comes last, and without it the unit is
\* not frozen.
freezeUnitEvidence ==
  /\ phase = "collect" /\ reads = <<>>
  /\ \E lost \in {{}} \cup {{f} : f \in routes(world[1])}, indexed \in BOOLEAN :
       /\ (lost # {} \/ ~indexed) => faults < MaxFaults
       /\ faults' = faults + (IF lost = {} /\ indexed THEN 0 ELSE 1)
       /\ frozen' = [frozen EXCEPT ![Trials[turn]] = [f \in Files |-> IF f \in lost THEN Absent ELSE buffer[f]]]
       /\ index' = IF indexed THEN index \cup {Trials[turn]} ELSE index
  /\ buffer' = NoFiles /\ turn' = turn + 1 /\ phase' = "publish"
  /\ UNCHANGED <<world, now, published, items, readVars, observations, failed, atCutoff, stream>>

\* After the last trial and the monitoring; then the exports are written the same way.
collectExecutionEvidence ==
  /\ phase = "publish" /\ turn > Len(Trials)
  /\ reads' = EXECUTION_JOURNAL_PARTITIONS /\ phase' = "execution"
  /\ UNCHANGED <<world, turn, now, published, items, cursor, got, buffer, frozen, index, observations, failed, atCutoff,
                 stream, faults>>
writeExecutionEvidence ==
  /\ phase = "execution" /\ reads = <<>>
  /\ \E lost \in {{}} \cup {{f} : f \in routes(world[1])} :
       /\ lost # {} => faults < MaxFaults
       /\ faults' = faults + Cardinality(lost)
       /\ frozen' = [frozen EXCEPT !["execution"] = [f \in Files |-> IF f \in lost THEN Absent ELSE buffer[f]]]
  /\ buffer' = NoFiles /\ phase' = "cutoff"
  /\ UNCHANGED <<world, turn, now, published, items, readVars, index, observations, failed, atCutoff, stream>>

\* Cleanup step 1: the package is read, the sources are read again, and the stream is written unless
\* anything failed.
cutoff ==
  /\ phase = "cutoff"
  /\ \E unreadable \in BOOLEAN :
       /\ unreadable => faults < MaxFaults
       /\ faults' = faults + (IF unreadable THEN 1 ELSE 0)
       /\ failed' = unreadable
       /\ reads' = IF unreadable THEN <<>> ELSE lateCapturePlan(Trials)
  /\ atCutoff' = items /\ phase' = "capture"
  /\ UNCHANGED <<world, turn, now, published, items, cursor, got, buffer, frozen, index, observations, stream>>
writeStream ==
  /\ phase = "capture" /\ reads = <<>>
  /\ stream' \in (IF failed THEN {Absent} ELSE {observations} \cup (IF faults < MaxFaults THEN {Absent} ELSE {}))
  /\ phase' = "done"
  /\ UNCHANGED <<world, turn, now, published, items, readVars, buffer, frozen, index, observations, failed, atCutoff,
                 faults>>

Next == \/ Write \/ Send \/ Publish \/ ReadPage \/ ReceiveRound \/ ReadFails \/ freezeUnitEvidence \/ collectExecutionEvidence
        \/ writeExecutionEvidence \/ cutoff \/ writeStream
Spec == Init /\ [][Next]_vars

-----------------------------------------------------------------------------
\* Who an item is evidence of.  An execution belongs to the last trial stamped when it started
\* (durableListingWindow), and to none when it started before the first stamp.
OwnersOf(s, i) ==
  CASE s[1] = "dlq" -> {i.group}
    [] s[1] = "durable" ->
         LET before == {t \in Published : published[t] <= i.start}
         IN {t \in before : \A u \in before : published[u] <= published[t]}
    [] OTHER -> {s[2]}
Found(o, i) == {r \in stream : r.owner = o /\ r.item = i /\ r.file = i.file}

\* A stream that was written accounts for every item that was there when the cutoff began: it is in
\* the frozen copy of its trial or in the stream, for every frozen trial and every frozen listing
\* (`it is never turned into an empty stream', late-record-capture.ts:25).
NothingIsLost ==
  stream # Absent =>
    \A i \in atCutoff[world] : \A o \in OwnersOf(world, i) :
      i.file # "state" /\ (o = "execution" \/ isFrozen(o)) /\ (world[1] = "durable" => frozen[o][i.file] # Absent)
      => \/ frozen[o][i.file] # Absent /\ i \in frozen[o][i.file]
         \/ Found(o, i) # {}

\* While every trial is frozen with its listing, an item is evidence once: of the trial it belongs
\* to, and never both in a frozen copy and in the stream (durableListingWindow, absentItems).
AttributedOnce ==
  stream # Absent /\ (\A t \in TrialIds : isFrozen(t) /\ (world[1] = "durable" => frozen[t]["durableExecutions"] # Absent)) =>
    \A i \in items[world] :
      LET copies == {o \in Owners : i.file \in Files /\ frozen[o][i.file] # Absent /\ i \in frozen[o][i.file]}
          carried == {r.owner : r \in {r \in stream : r.item = i}}
      IN copies \cup carried \subseteq OwnersOf(world, i) /\ copies \cap carried = {}
=============================================================================
