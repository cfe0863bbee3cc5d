--------------------------- MODULE JournalWriter ----------------------------
(***************************************************************************)
(* The writer of one source instance of a journal.  Its clients append     *)
(* events, which are queued and written one at a time, or reserve the next *)
(* sequence for a put of their own transaction and settle it afterwards.   *)
(* They may call in any order; a call that breaks the protocol throws and  *)
(* changes nothing.                                                        *)
(***************************************************************************)
EXTENDS Naturals, FiniteSets, Sequences

CONSTANTS
  Events,                 \* event identities nextEntry may draw (ids.next())
  NoEvent,                \* no event
  MaxDefinitiveRetries,   \* maxDefinitiveRetries
  MaxPending              \* bound: appends pending at the same time

VARIABLES
  nextSequence, stopped, reservation, retryable,
  waiting,     \* appends called and not yet started, in call order
  current,     \* the append being written: its entry and the retries made
  store,       \* the instance's stored events, by sequence
  doubt,       \* the entry of an ambiguous write, while the store may still execute it
  reported     \* what the clients were told of each event

vars == <<nextSequence, stopped, reservation, retryable, waiting, current, store, doubt, reported>>

NoEntry == [sequence |-> 0, event |-> NoEvent]

Entries == [sequence : Nat, event : Events] \cup {NoEntry}

StopReasons == {"AMBIGUOUS_APPEND", "DEFINITIVE_RETRIES_EXHAUSTED", "SEQUENCE_CONFLICT"}

TypeOK ==
  /\ nextSequence \in Nat \ {0}
  /\ stopped \in StopReasons \cup {"NO"}
  /\ reservation \in Entries
  /\ retryable \in Entries
  /\ waiting \in 0 .. MaxPending
  /\ current \in [entry : Entries, retries : 0 .. MaxDefinitiveRetries]
  /\ DOMAIN store \subseteq Nat \ {0}
  /\ \A s \in DOMAIN store : store[s] \in Events
  /\ doubt \in Entries
  /\ reported \in [Events -> {"undrawn", "open", "appended", "not_applied", "stopped"}]

NoAppend == [entry |-> NoEntry, retries |-> 0]

Init ==
  /\ nextSequence = 1
  /\ stopped = "NO"
  /\ reservation = NoEntry
  /\ retryable = NoEntry
  /\ waiting = 0
  /\ current = NoAppend
  /\ store = <<>>
  /\ doubt = NoEntry
  /\ reported = [e \in Events |-> "undrawn"]

-----------------------------------------------------------------------------
\* #nextEntry: a fresh event at the next sequence.
NextEntry(e) == [sequence |-> nextSequence, event |-> e]

Report(e, what) == reported' = [reported EXCEPT ![e] = what]

\* #assertIdle
Idle == reservation = NoEntry /\ waiting = 0 /\ current = NoAppend

Occupied(entry) == entry.sequence \in DOMAIN store

Stored(entry) == [s \in DOMAIN store \cup {entry.sequence} |->
                    IF s = entry.sequence THEN entry.event ELSE store[s]]

\* The outcomes of a write whose journal put is conditioned on item_absent;
\* `business' is whether the other conditions of its transaction hold.
Outcomes(entry, business) ==
  {"definitive_failure", "ambiguous"} \cup
  (IF ~business THEN {"other_condition_failed"} ELSE IF Occupied(entry) THEN {"own_condition_failed"} ELSE {"applied"})

\* Faulty variant: a write of unknown fate is taken for one that did nothing.
classifyJournalOutcomeOptimistic(o, entry) ==
  CASE o = "applied" -> "applied"
    [] o \in {"definitive_failure", "other_condition_failed", "ambiguous"} -> "not_applied"
    [] o = "own_condition_failed" ->
         IF store[entry.sequence] = entry.event THEN "applied" ELSE "sequence_conflict"

\* classifyJournalOutcome: a failed condition of the put itself means that the
\* entry is there already, or that something else occupies its sequence.
classifyJournalOutcome(o, entry) ==
  CASE o = "applied" -> "applied"
    [] o = "ambiguous" -> "ambiguous"
    [] o \in {"definitive_failure", "other_condition_failed"} -> "not_applied"
    [] o = "own_condition_failed" ->
         IF store[entry.sequence] = entry.event THEN "applied" ELSE "sequence_conflict"

\* What the write does to the store.  An ambiguous one may be executed later.
Execute(o, entry) ==
  /\ store' = IF o = "applied" THEN Stored(entry) ELSE store
  /\ doubt' = IF o = "ambiguous" THEN entry ELSE doubt

\* #settle
Settle(verdict, entry) ==
  /\ nextSequence' = IF verdict = "applied" THEN nextSequence + 1 ELSE nextSequence
  /\ stopped' = CASE verdict = "ambiguous" -> "AMBIGUOUS_APPEND"
                  [] verdict = "sequence_conflict" -> "SEQUENCE_CONFLICT"
                  [] OTHER -> stopped
  /\ Report(entry.event, IF verdict = "applied" THEN "appended" ELSE "stopped")

-----------------------------------------------------------------------------
\* append: queued behind every earlier append.
CallAppend ==
  /\ waiting < MaxPending
  /\ waiting' = waiting + 1
  /\ UNCHANGED <<nextSequence, stopped, reservation, retryable, current, store, doubt, reported>>

\* #appendInOrder: refused by a stopped instance, thrown while a put is reserved.
StartAppend ==
  /\ waiting > 0
  /\ current = NoAppend
  /\ waiting' = waiting - 1
  /\ IF stopped # "NO" \/ reservation # NoEntry
     THEN UNCHANGED <<current, retryable, reported>>
     ELSE \E e \in Events :
            /\ reported[e] = "undrawn"
            /\ current' = [entry |-> NextEntry(e), retries |-> 0]
            /\ retryable' = NoEntry
            /\ Report(e, "open")
  /\ UNCHANGED <<nextSequence, stopped, reservation, store, doubt>>

MayRetry == current.retries < MaxDefinitiveRetries

\* #write and the retry loop: identical retries after a definitive failure.
WriteEntry ==
  /\ current # NoAppend
  /\ LET entry == current.entry
     IN  \E o \in Outcomes(entry, TRUE) :
           LET verdict == classifyJournalOutcome(o, entry)
           IN  /\ Execute(o, entry)
               /\ IF verdict # "not_applied"
                  THEN Settle(verdict, entry) /\ current' = NoAppend
                  ELSE IF MayRetry
                  THEN /\ current' = [current EXCEPT !.retries = @ + 1]
                       /\ UNCHANGED <<nextSequence, stopped, reported>>
                  ELSE /\ stopped' = "DEFINITIVE_RETRIES_EXHAUSTED"
                       /\ current' = NoAppend
                       /\ Report(entry.event, "stopped")
                       /\ UNCHANGED nextSequence
  /\ UNCHANGED <<reservation, retryable, waiting>>

\* prepare: only an idle instance that has not stopped reserves.
Prepare ==
  /\ stopped = "NO"
  /\ Idle
  /\ \E e \in Events :
       /\ reported[e] = "undrawn"
       /\ reservation' = NextEntry(e)
       /\ Report(e, "open")
  /\ retryable' = NoEntry
  /\ UNCHANGED <<nextSequence, stopped, waiting, current, store, doubt>>

\* prepareRetry: the last not-applied put, before any other event.
PrepareRetry ==
  /\ stopped = "NO"
  /\ Idle
  /\ retryable # NoEntry
  /\ reservation' = retryable
  /\ retryable' = NoEntry
  /\ Report(reservation'.event, "open")
  /\ UNCHANGED <<nextSequence, stopped, waiting, current, store, doubt>>

\* The client's transaction and confirm.
Confirm ==
  /\ reservation # NoEntry
  /\ \E business \in BOOLEAN : \E o \in Outcomes(reservation, business) :
       LET verdict == classifyJournalOutcome(o, reservation)
       IN  /\ Execute(o, reservation)
           /\ IF verdict = "not_applied"
              THEN /\ retryable' = reservation
                   /\ Report(reservation.event, "not_applied")
                   /\ UNCHANGED <<nextSequence, stopped>>
              ELSE Settle(verdict, reservation) /\ UNCHANGED retryable
  /\ reservation' = NoEntry
  /\ UNCHANGED <<waiting, current>>

\* The store executes a request whose answer was lost, if its condition holds.
LateWrite ==
  /\ doubt # NoEntry
  /\ store' = IF Occupied(doubt) THEN store ELSE Stored(doubt)
  /\ doubt' = NoEntry
  /\ UNCHANGED <<nextSequence, stopped, reservation, retryable, waiting, current, reported>>

Next ==
  \/ CallAppend \/ StartAppend \/ WriteEntry
  \/ Prepare \/ PrepareRetry \/ Confirm
  \/ LateWrite

Spec == Init /\ [][Next]_vars

-----------------------------------------------------------------------------
\* source_sequence is dense (BR-RUA-033): no interleaving of queued appends,
\* reservations, retries and failed transactions leaves a gap in the stored
\* sequences, and none lies above what the writer counted but the last one.
DenseSequence ==
  \E n \in {nextSequence - 1, nextSequence} :
    /\ DOMAIN store = 1 .. n
    /\ n = nextSequence => stopped # "NO"

\* What a client was told is what the store holds, now and after every late
\* execution: an appended event is stored, one reported not_applied and not
\* resubmitted is not (confirm, appendInOrder).
ReportsAreTrue ==
  \A e \in Events :
    /\ reported[e] = "appended" => \E s \in DOMAIN store : store[s] = e
    /\ reported[e] \in {"undrawn", "not_applied"} => \A s \in DOMAIN store : store[s] # e

\* No event of the instance ever finds its sequence taken: the sequence a
\* not-applied put freed is free for the next event (D-23), so the stop reason
\* SEQUENCE_CONFLICT means another writer (confirm, prepareRetry).
NeverOwnConflict == stopped # "SEQUENCE_CONFLICT"

Contract ==
  INSTANCE JournalContract
    WITH log <- [s \in 1 .. Cardinality(DOMAIN store) |-> store[s]],
         stopped <- stopped # "NO",
         doubt <- doubt.event

\* The writer implements the journal its clients are checked against.
ImplementsJournal == Contract!Spec
=============================================================================
