------------------------- MODULE JournalWriterProofs -------------------------
(***************************************************************************)
(* The writer of one source instance, for any number of events, retries    *)
(* and pending appends: its sequences are dense, what it reports is true,  *)
(* and it implements the log its clients rely on.                          *)
(***************************************************************************)
EXTENDS JournalWriter, FiniteSetTheorems, TLAPS

\* What the constants are: an absent event is none of the events, and the budgets
\* are numbers.
ConstantsOK == NoEvent \notin Events /\ MaxDefinitiveRetries \in Nat /\ MaxPending \in Nat

\* The entry the writer works on next: at the next sequence, of an event that is
\* open and not stored, in an instance that has not stopped.
InHand(entry) ==
  /\ stopped = "NO"
  /\ entry.sequence = nextSequence
  /\ entry.event \in Events
  /\ reported[entry.event] = "open"
  /\ \A s \in DOMAIN store : store[s] # entry.event

\* How far the stored sequences reach.
DenseInv ==
  /\ store = [s \in DOMAIN store |-> store[s]]
  /\ stopped = "NO" \/ doubt # NoEntry => DOMAIN store = 1 .. nextSequence - 1
  /\ DOMAIN store = 1 .. nextSequence - 1 \/ DOMAIN store = 1 .. nextSequence

\* At most one entry is in hand, and a put that may be retried or a write in doubt
\* has the next sequence still.
ClientInv ==
  /\ reservation # NoEntry => InHand(reservation) /\ current = NoAppend /\ retryable = NoEntry
  /\ current # NoAppend => InHand(current.entry) /\ current.entry # NoEntry /\ retryable = NoEntry
  /\ retryable # NoEntry => retryable.sequence = nextSequence /\ reported[retryable.event] = "not_applied"
  /\ doubt # NoEntry => stopped # "NO" /\ doubt.sequence = nextSequence /\ reported[doubt.event] = "stopped"
  /\ stopped # "SEQUENCE_CONFLICT"

WriterInv == TypeOK /\ DenseInv /\ ClientInv /\ ReportsAreTrue

-----------------------------------------------------------------------------
\* What a step does to the log: nothing, the instance stops, or the entry in hand
\* or in doubt becomes its last.
Quiet == UNCHANGED <<store, doubt, stopped>>

Grows(entry) ==
  /\ DOMAIN store = 1 .. nextSequence - 1
  /\ entry.sequence = nextSequence /\ entry.event \in Events
  /\ store' = Stored(entry)

\* The log of the contract.
Log == [s \in 1 .. Cardinality(DOMAIN store) |-> store[s]]

\* The log is as long as the stored sequences reach.
LEMMA LogLength ==
  ASSUME NEW n \in Nat, DOMAIN store = 1 .. n, TypeOK
  PROVE  Log = [s \in 1 .. n |-> store[s]] /\ Log \in Seq(Events) /\ Len(Log) = n
<1>1. Cardinality(DOMAIN store) = n
  BY FS_Interval
<1>2. Log = [s \in 1 .. n |-> store[s]]
  BY <1>1, Zenon DEF Log
<1>3. \A s \in 1 .. n : store[s] \in Events
  BY Zenon DEF TypeOK
<1> QED
  BY <1>2, <1>3

\* A stored entry extends the store by the next sequence (Stored).
LEMMA StoredFields ==
  ASSUME TypeOK, NEW entry, Grows(entry)
  PROVE  /\ nextSequence \in Nat \ {0} /\ nextSequence - 1 \in Nat
         /\ DOMAIN store' = 1 .. nextSequence
         /\ store' = [s \in DOMAIN store' |-> store'[s]]
         /\ \A s \in 1 .. nextSequence - 1 : store'[s] = store[s]
         /\ store'[nextSequence] = entry.event
         /\ \A s \in DOMAIN store' : store'[s] \in Events
<1>1. nextSequence \in Nat \ {0} /\ nextSequence - 1 \in Nat
  BY DEF TypeOK
<1>2. (1 .. nextSequence - 1) \cup {nextSequence} = 1 .. nextSequence
  BY <1>1
<1>3. store' = [s \in 1 .. nextSequence |-> IF s = nextSequence THEN entry.event ELSE store[s]]
  BY <1>2, Zenon DEF Grows, Stored
<1>4. \A s \in 1 .. nextSequence - 1 : store[s] \in Events
  BY Zenon DEF TypeOK, Grows
<1> QED
  BY <1>1, <1>3, <1>4 DEF Grows

\* So the log grows at its end, by the event of the entry.
LEMMA LogGrows ==
  ASSUME TypeOK, TypeOK', NEW entry, Grows(entry)
  PROVE  Log' = Append(Log, entry.event)
<1>1. /\ nextSequence \in Nat \ {0} /\ nextSequence - 1 \in Nat
      /\ DOMAIN store' = 1 .. nextSequence
      /\ \A s \in 1 .. nextSequence - 1 : store'[s] = store[s]
      /\ store'[nextSequence] = entry.event
  BY StoredFields, Zenon
<1>2. Log = [s \in 1 .. nextSequence - 1 |-> store[s]] /\ Log \in Seq(Events) /\ Len(Log) = nextSequence - 1
  BY <1>1, LogLength, Zenon DEF Grows
<1>3. Cardinality(DOMAIN store') = nextSequence
  <2>1. 1 \in Int /\ nextSequence \in Int
    BY <1>1
  <2>2. Cardinality(1 .. nextSequence) = IF 1 > nextSequence THEN 0 ELSE nextSequence - 1 + 1
    BY <2>1, FS_Interval, Zenon
  <2>3. Cardinality(1 .. nextSequence) = nextSequence
    BY <1>1, <2>2
  <2> QED
    BY <1>1, <2>3, Zenon
<1>4. Log' = [s \in 1 .. nextSequence |-> store'[s]]
  BY <1>3, Zenon DEF Log
<1>5. Append(Log, entry.event) = [s \in 1 .. nextSequence |-> IF s = nextSequence THEN entry.event ELSE Log[s]]
  BY <1>1, <1>2
<1> HIDE DEF Log
<1> QED
  BY <1>1, <1>2, <1>4, <1>5
-----------------------------------------------------------------------------
(* The steps of the contract. *)

ContractStep == Contract!Next \/ UNCHANGED <<Log, stopped # "NO", doubt.event>>

\* The entry in hand is stored: the log grows.
LEMMA EmitStep ==
  ASSUME TypeOK, TypeOK', NEW entry, Grows(entry), UNCHANGED <<stopped, doubt>>, stopped = "NO"
  PROVE  ContractStep
<1>1. Log' = Append(Log, entry.event) /\ entry.event \in Events
  BY LogGrows, Zenon DEF Grows
<1>2. Contract!Emit(entry.event)
  BY <1>1, Zenon DEF Contract!Emit, Log
<1> QED
  BY <1>1, <1>2, Zenon DEF ContractStep, Contract!Next

\* The instance stops, with an event in doubt or none.
LEMMA StopStep ==
  ASSUME stopped = "NO", stopped' # "NO", store' = store, doubt'.event \in Events \cup {NoEvent}
  PROVE  ContractStep
<1>1. Contract!Stop(doubt'.event)
  BY Zenon DEF Contract!Stop
<1> QED
  BY <1>1, Zenon DEF ContractStep, Contract!Next

\* The event in doubt is stored after all.
LEMMA LandStep ==
  ASSUME ConstantsOK, TypeOK, TypeOK', Grows(doubt), doubt' = NoEntry, UNCHANGED stopped
  PROVE  ContractStep
<1>1. Log' = Append(Log, doubt.event) /\ doubt.event # NoEvent /\ doubt'.event = NoEvent
  BY LogGrows, Zenon DEF Grows, ConstantsOK, NoEntry
<1>2. Contract!Land
  BY <1>1, Zenon DEF Contract!Land, Log
<1> QED
  BY <1>2, Zenon DEF ContractStep, Contract!Next

\* A step that leaves the store, the doubt and the stop alone is none.
LEMMA QuietStep ==
  ASSUME Quiet
  PROVE  ContractStep
BY Zenon DEF Quiet, ContractStep, Log

-----------------------------------------------------------------------------
(* A write of the entry in hand. *)

\* The sequence of the entry in hand is free, so the write is applied, ambiguous or
\* leaves nothing, and is classified as that (classifyJournalOutcome).
LEMMA Classified ==
  ASSUME WriterInv, NEW entry, InHand(entry), NEW business \in BOOLEAN,
         NEW o \in Outcomes(entry, business), Execute(o, entry)
  PROVE  /\ classifyJournalOutcome(o, entry) \in {"applied", "ambiguous", "not_applied"}
         /\ classifyJournalOutcome(o, entry) = "applied" => Grows(entry) /\ doubt' = doubt
         /\ classifyJournalOutcome(o, entry) = "ambiguous" => store' = store /\ doubt' = entry
         /\ classifyJournalOutcome(o, entry) = "not_applied" => UNCHANGED <<store, doubt>>
<1>1. DOMAIN store = 1 .. nextSequence - 1 /\ nextSequence \in Nat
  BY Zenon DEF WriterInv, DenseInv, InHand, TypeOK
<1>2. ~Occupied(entry)
  BY <1>1 DEF Occupied, InHand
<1>3. o \in {"definitive_failure", "ambiguous", "other_condition_failed", "applied"}
  BY <1>2, Zenon DEF Outcomes
<1>4. CASE o = "applied"
  <2>1. classifyJournalOutcome(o, entry) = "applied"
    BY <1>4, Zenon DEF classifyJournalOutcome
  <2> QED
    BY <1>1, <1>4, <2>1, Zenon DEF Execute, Grows, InHand
<1>5. CASE o = "ambiguous"
  <2>1. classifyJournalOutcome(o, entry) = "ambiguous"
    BY <1>5, Zenon DEF classifyJournalOutcome
  <2> QED
    BY <1>5, <2>1, Zenon DEF Execute
<1>6. CASE o \in {"definitive_failure", "other_condition_failed"}
  <2>1. classifyJournalOutcome(o, entry) = "not_applied"
    BY <1>6, Zenon DEF classifyJournalOutcome
  <2> QED
    BY <1>6, <2>1, Zenon DEF Execute
<1> QED
  BY <1>3, <1>4, <1>5, <1>6, Zenon

\* An applied entry is counted, and its event is reported as stored (#settle).
LEMMA Applied ==
  ASSUME ConstantsOK, WriterInv, NEW entry, InHand(entry), Grows(entry), UNCHANGED <<doubt, stopped>>,
         nextSequence' = nextSequence + 1, Report(entry.event, "appended"),
         current' = NoAppend, reservation' = NoEntry, retryable' = NoEntry, waiting' = waiting
  PROVE  WriterInv' /\ ContractStep
<1>1. /\ TypeOK /\ nextSequence \in Nat \ {0} /\ DOMAIN store' = 1 .. nextSequence
      /\ store' = [s \in DOMAIN store' |-> store'[s]]
      /\ \A s \in 1 .. nextSequence - 1 : store'[s] = store[s]
      /\ store'[nextSequence] = entry.event /\ \A s \in DOMAIN store' : store'[s] \in Events
  BY StoredFields, Zenon DEF WriterInv
<1>2. DOMAIN store = 1 .. nextSequence - 1 /\ stopped = "NO" /\ entry.event \in Events
  BY Zenon DEF Grows, InHand
<1>3. /\ reported' \in [Events -> {"undrawn", "open", "appended", "not_applied", "stopped"}]
      /\ reported'[entry.event] = "appended"
      /\ \A e \in Events \ {entry.event} : reported'[e] = reported[e]
  BY <1>1, <1>2, Zenon DEF Report, TypeOK
<1>4. NoAppend \in [entry : Entries, retries : 0 .. MaxDefinitiveRetries] /\ NoEntry \in Entries
  BY DEF NoAppend, Entries, ConstantsOK
<1>5. TypeOK'
  BY <1>1, <1>3, <1>4 DEF TypeOK
<1>6. nextSequence' - 1 = nextSequence
  BY <1>1
<1>7. DenseInv'
  BY <1>1, <1>6, Zenon DEF DenseInv
<1>8. doubt = NoEntry
  BY <1>2, Zenon DEF WriterInv, ClientInv
<1>9. ClientInv'
  BY <1>2, <1>8, Zenon DEF ClientInv
<1>10. ReportsAreTrue'
  <2>1. ASSUME NEW e \in Events, e # entry.event
        PROVE  /\ reported'[e] = "appended" => \E s \in DOMAIN store' : store'[s] = e
               /\ reported'[e] \in {"undrawn", "not_applied"} => \A s \in DOMAIN store' : store'[s] # e
    <3>1. /\ reported[e] = "appended" => \E s \in DOMAIN store : store[s] = e
          /\ reported[e] \in {"undrawn", "not_applied"} => \A s \in DOMAIN store : store[s] # e
      BY Zenon DEF WriterInv, ReportsAreTrue
    <3>2. \A s \in DOMAIN store : s \in DOMAIN store' /\ store'[s] = store[s]
      BY <1>1, <1>2
    <3>3. \A s \in DOMAIN store' : s \in DOMAIN store \/ s = nextSequence
      BY <1>1, <1>2
    <3> QED
      BY <1>1, <1>3, <2>1, <3>1, <3>2, <3>3, Zenon
  <2>2. nextSequence \in DOMAIN store'
    BY <1>1
  <2> QED
    BY <1>1, <1>3, <2>1, <2>2, Zenon DEF ReportsAreTrue
<1>11. ContractStep
  BY <1>1, <1>2, <1>5, EmitStep, Zenon
<1> QED
  BY <1>5, <1>7, <1>9, <1>10, <1>11, Zenon DEF WriterInv

\* An instance that stops with the entry in hand: in doubt or given up (#settle,
\* the end of the retry loop).
LEMMA Stopped ==
  ASSUME ConstantsOK, WriterInv, NEW entry \in Entries, entry # NoEntry, InHand(entry), store' = store,
         doubt' \in {doubt, entry}, stopped' \in {"AMBIGUOUS_APPEND", "DEFINITIVE_RETRIES_EXHAUSTED"},
         nextSequence' = nextSequence, Report(entry.event, "stopped"),
         current' = NoAppend, reservation' = NoEntry, retryable' = NoEntry, waiting' = waiting
  PROVE  WriterInv' /\ ContractStep
<1>1. TypeOK /\ stopped = "NO" /\ entry.event \in Events /\ entry.sequence = nextSequence
  BY Zenon DEF WriterInv, InHand
<1>2. /\ reported' \in [Events -> {"undrawn", "open", "appended", "not_applied", "stopped"}]
      /\ reported'[entry.event] = "stopped"
      /\ \A e \in Events \ {entry.event} : reported'[e] = reported[e]
  BY <1>1, Zenon DEF Report, TypeOK
<1>3. NoAppend \in [entry : Entries, retries : 0 .. MaxDefinitiveRetries] /\ NoEntry \in Entries
  BY DEF NoAppend, Entries, ConstantsOK
<1>4. doubt = NoEntry
  BY <1>1, Zenon DEF WriterInv, ClientInv
<1>5. doubt' \in Entries /\ doubt'.event \in Events \cup {NoEvent}
  BY <1>1, <1>3, <1>4 DEF NoEntry
<1>6. TypeOK'
  BY <1>1, <1>2, <1>3, <1>5, Zenon DEF TypeOK, StopReasons
<1>7. DenseInv'
  BY <1>1, Zenon DEF WriterInv, DenseInv
<1>8. ClientInv'
  BY <1>1, <1>2, <1>4, Zenon DEF ClientInv
<1>9. ReportsAreTrue'
  BY <1>2, Zenon DEF WriterInv, ReportsAreTrue
<1>10. ContractStep
  BY <1>1, <1>5, StopStep, Zenon
<1> QED
  BY <1>6, <1>7, <1>8, <1>9, <1>10, Zenon DEF WriterInv
-----------------------------------------------------------------------------
(* The actions. *)

\* #nextEntry draws an event nobody has seen, at the next sequence.
LEMMA Drawn ==
  ASSUME ConstantsOK, WriterInv, stopped = "NO", NEW e \in Events, reported[e] = "undrawn", Report(e, "open"),
         UNCHANGED <<nextSequence, stopped, store, doubt>>
  PROVE  /\ NextEntry(e) \in Entries /\ NextEntry(e) # NoEntry
         /\ InHand(NextEntry(e))'
         /\ reported' \in [Events -> {"undrawn", "open", "appended", "not_applied", "stopped"}]
         /\ DenseInv' /\ ReportsAreTrue' /\ ContractStep /\ doubt = NoEntry
<1>1. TypeOK /\ doubt = NoEntry
  BY Zenon DEF WriterInv, ClientInv
<1>2. NextEntry(e) \in Entries /\ NextEntry(e) # NoEntry /\ NextEntry(e).event = e /\ NextEntry(e).sequence = nextSequence
  BY <1>1, Zenon DEF NextEntry, Entries, NoEntry, TypeOK, ConstantsOK
<1>3. /\ reported' \in [Events -> {"undrawn", "open", "appended", "not_applied", "stopped"}]
      /\ reported'[e] = "open" /\ \A d \in Events \ {e} : reported'[d] = reported[d]
  BY <1>1, Zenon DEF Report, TypeOK
<1>4. \A s \in DOMAIN store : store[s] # e
  BY Zenon DEF WriterInv, ReportsAreTrue
<1>5. InHand(NextEntry(e))'
  BY <1>2, <1>3, <1>4, Zenon DEF InHand, NextEntry
<1>6. DenseInv' /\ ReportsAreTrue'
  BY <1>3 DEF WriterInv, DenseInv, ReportsAreTrue
<1> QED
  BY <1>1, <1>2, <1>3, <1>5, <1>6, QuietStep, Zenon DEF Quiet

\* append is called: queued only.
LEMMA CallAppendKeeps ==
  ASSUME ConstantsOK, WriterInv, CallAppend
  PROVE  WriterInv' /\ ContractStep
<1>1. waiting' \in 0 .. MaxPending
  BY DEF CallAppend, WriterInv, TypeOK, ConstantsOK
<1>2. TypeOK'
  BY <1>1, Zenon DEF CallAppend, WriterInv, TypeOK
<1>3. DenseInv' /\ ClientInv' /\ ReportsAreTrue'
  BY DEF CallAppend, WriterInv, DenseInv, ClientInv, ReportsAreTrue, InHand
<1> QED
  BY <1>2, <1>3, QuietStep, Zenon DEF WriterInv, CallAppend, Quiet

\* The next queued append starts, or is refused or thrown.
LEMMA StartAppendKeeps ==
  ASSUME ConstantsOK, WriterInv, StartAppend
  PROVE  WriterInv' /\ ContractStep
<1>1. TypeOK /\ waiting' \in 0 .. MaxPending
  BY DEF StartAppend, WriterInv, TypeOK, ConstantsOK
<1>2. CASE stopped # "NO" \/ reservation # NoEntry
  <2>1. UNCHANGED <<nextSequence, stopped, reservation, retryable, current, store, doubt, reported>>
    BY <1>2, Zenon DEF StartAppend
  <2>2. TypeOK'
    BY <1>1, <2>1, Zenon DEF TypeOK
  <2>3. DenseInv' /\ ClientInv' /\ ReportsAreTrue'
    BY <2>1 DEF WriterInv, DenseInv, ClientInv, ReportsAreTrue, InHand
  <2> QED
    BY <2>1, <2>2, <2>3, QuietStep, Zenon DEF WriterInv, Quiet
<1>3. CASE stopped = "NO" /\ reservation = NoEntry
  <2>1. PICK e \in Events : /\ reported[e] = "undrawn"
                            /\ current' = [entry |-> NextEntry(e), retries |-> 0]
                            /\ retryable' = NoEntry
                            /\ Report(e, "open")
    BY <1>3, Zenon DEF StartAppend
  <2>2. UNCHANGED <<nextSequence, stopped, reservation, store, doubt>>
    BY Zenon DEF StartAppend
  <2>3. /\ NextEntry(e) \in Entries /\ NextEntry(e) # NoEntry /\ InHand(NextEntry(e))'
        /\ reported' \in [Events -> {"undrawn", "open", "appended", "not_applied", "stopped"}]
        /\ DenseInv' /\ ReportsAreTrue' /\ ContractStep /\ doubt = NoEntry
    BY <1>3, <2>1, <2>2, Drawn, Zenon
  <2> DEFINE entry == NextEntry(e)
  <2>4. NextEntry(e)' = entry
    BY <2>2, Zenon DEF NextEntry
  <2> HIDE DEF entry
  <2>5. TypeOK'
    BY <1>1, <2>1, <2>2, <2>3 DEF TypeOK, ConstantsOK, Entries
  <2>6. current'.entry = NextEntry(e)
    BY <2>1, Zenon
  <2>7. ClientInv'
    BY <1>3, <2>1, <2>2, <2>3, <2>4, <2>6, Zenon DEF ClientInv, WriterInv, InHand, entry
  <2> QED
    BY <2>3, <2>5, <2>7, Zenon DEF WriterInv
<1> QED
  BY <1>2, <1>3, Zenon

\* The write of the current append, with its identical retries.
LEMMA WriteEntryKeeps ==
  ASSUME ConstantsOK, WriterInv, WriteEntry
  PROVE  WriterInv' /\ ContractStep
<1> DEFINE entry == current.entry
<1>1. /\ TypeOK /\ InHand(entry) /\ entry # NoEntry /\ entry \in Entries
      /\ reservation = NoEntry /\ retryable = NoEntry /\ UNCHANGED <<reservation, retryable, waiting>>
  BY Zenon DEF WriteEntry, WriterInv, ClientInv, TypeOK
<1>2. PICK o \in Outcomes(entry, TRUE) :
        LET verdict == classifyJournalOutcome(o, entry)
        IN  /\ Execute(o, entry)
            /\ IF verdict # "not_applied"
               THEN Settle(verdict, entry) /\ current' = NoAppend
               ELSE IF MayRetry
               THEN /\ current' = [current EXCEPT !.retries = @ + 1]
                    /\ UNCHANGED <<nextSequence, stopped, reported>>
               ELSE /\ stopped' = "DEFINITIVE_RETRIES_EXHAUSTED"
                    /\ current' = NoAppend
                    /\ Report(entry.event, "stopped")
                    /\ UNCHANGED nextSequence
  BY Zenon DEF WriteEntry
<1> DEFINE verdict == classifyJournalOutcome(o, entry)
<1>3. /\ verdict \in {"applied", "ambiguous", "not_applied"}
      /\ verdict = "applied" => Grows(entry) /\ doubt' = doubt
      /\ verdict = "ambiguous" => store' = store /\ doubt' = entry
      /\ verdict = "not_applied" => UNCHANGED <<store, doubt>>
  BY <1>1, <1>2, Classified, Zenon
<1> HIDE DEF entry, verdict
<1>4. CASE verdict = "applied"
  <2>1. Settle(verdict, entry) /\ current' = NoAppend
    BY <1>2, <1>4, Zenon DEF verdict
  <2>2. nextSequence' = nextSequence + 1 /\ stopped' = stopped /\ Report(entry.event, "appended")
    BY <1>4, <2>1, Zenon DEF Settle
  <2> QED
    BY <1>1, <1>3, <1>4, <2>1, <2>2, Applied, Zenon
<1>5. CASE verdict = "ambiguous"
  <2>1. Settle(verdict, entry) /\ current' = NoAppend
    BY <1>2, <1>5, Zenon DEF verdict
  <2>2. nextSequence' = nextSequence /\ stopped' = "AMBIGUOUS_APPEND" /\ Report(entry.event, "stopped")
    BY <1>5, <2>1, Zenon DEF Settle
  <2> QED
    BY <1>1, <1>3, <1>5, <2>1, <2>2, Stopped, Zenon
<1>6. CASE verdict = "not_applied" /\ MayRetry
  <2>1. current' = [current EXCEPT !.retries = @ + 1] /\ UNCHANGED <<nextSequence, stopped, reported>>
    BY <1>2, <1>6, Zenon DEF verdict
  <2>2. current.retries + 1 \in 0 .. MaxDefinitiveRetries
    BY <1>1, <1>6 DEF MayRetry, TypeOK, ConstantsOK
  <2>3. current' \in [entry : Entries, retries : 0 .. MaxDefinitiveRetries] /\ current'.entry = entry
    BY <1>1, <2>1, <2>2, Zenon DEF TypeOK, entry
  <2>4. TypeOK'
    BY <1>1, <1>3, <1>6, <2>1, <2>3, Zenon DEF TypeOK
  <2>5. DenseInv' /\ ReportsAreTrue'
    BY <1>3, <1>6, <2>1 DEF WriterInv, DenseInv, ReportsAreTrue
  <2>6. InHand(entry)'
    BY <1>1, <1>3, <1>6, <2>1, <2>3, Zenon DEF InHand, entry
  <2>7. ClientInv'
    BY <1>1, <1>3, <1>6, <2>1, <2>3, <2>6, Zenon DEF ClientInv, WriterInv, InHand
  <2> QED
    BY <1>3, <1>6, <2>1, <2>4, <2>5, <2>7, QuietStep, Zenon DEF WriterInv, Quiet
<1>7. CASE verdict = "not_applied" /\ ~MayRetry
  <2>1. stopped' = "DEFINITIVE_RETRIES_EXHAUSTED" /\ current' = NoAppend /\ Report(entry.event, "stopped")
        /\ nextSequence' = nextSequence
    BY <1>2, <1>7, Zenon DEF verdict
  <2> QED
    BY <1>1, <1>3, <1>7, <2>1, Stopped, Zenon
<1> QED
  BY <1>3, <1>4, <1>5, <1>6, <1>7, Zenon
\* prepare reserves the sequence for a fresh event.
LEMMA PrepareKeeps ==
  ASSUME ConstantsOK, WriterInv, Prepare
  PROVE  WriterInv' /\ ContractStep
<1>1. PICK e \in Events : reported[e] = "undrawn" /\ reservation' = NextEntry(e) /\ Report(e, "open")
  BY Zenon DEF Prepare
<1>2. /\ stopped = "NO" /\ current = NoAppend /\ retryable' = NoEntry /\ TypeOK
      /\ UNCHANGED <<nextSequence, stopped, waiting, current, store, doubt>>
  BY Zenon DEF Prepare, Idle, WriterInv
<1>3. /\ NextEntry(e) \in Entries /\ InHand(NextEntry(e))'
      /\ reported' \in [Events -> {"undrawn", "open", "appended", "not_applied", "stopped"}]
      /\ DenseInv' /\ ReportsAreTrue' /\ ContractStep /\ doubt = NoEntry
  BY <1>1, <1>2, Drawn, Zenon
<1>4. NextEntry(e)' = NextEntry(e) /\ NoEntry \in Entries
  BY <1>2, Zenon DEF NextEntry, Entries
<1>5. TypeOK'
  BY <1>1, <1>2, <1>3, <1>4, Zenon DEF TypeOK
<1>6. ClientInv'
  BY <1>1, <1>2, <1>3, <1>4, Zenon DEF ClientInv, InHand
<1> QED
  BY <1>3, <1>5, <1>6, Zenon DEF WriterInv

\* prepareRetry reserves the sequence again for the put that was not applied.
LEMMA PrepareRetryKeeps ==
  ASSUME ConstantsOK, WriterInv, PrepareRetry
  PROVE  WriterInv' /\ ContractStep
<1> DEFINE e == retryable.event
<1>1. /\ TypeOK /\ stopped = "NO" /\ current = NoAppend /\ doubt = NoEntry
      /\ retryable.sequence = nextSequence /\ reported[e] = "not_applied" /\ retryable # NoEntry
      /\ retryable' = NoEntry /\ reservation' = retryable /\ Report(e, "open")
      /\ UNCHANGED <<nextSequence, stopped, waiting, current, store, doubt>>
  BY Zenon DEF PrepareRetry, Idle, WriterInv, ClientInv
<1>2. e \in Events /\ NoEntry \in Entries
  BY <1>1, Zenon DEF TypeOK, Entries
<1>3. \A s \in DOMAIN store : store[s] # e
  BY <1>1, <1>2, Zenon DEF WriterInv, ReportsAreTrue
<1> HIDE DEF e
<1>4. /\ reported' \in [Events -> {"undrawn", "open", "appended", "not_applied", "stopped"}]
      /\ reported'[e] = "open" /\ \A d \in Events \ {e} : reported'[d] = reported[d]
  BY <1>1, <1>2, Zenon DEF Report, TypeOK
<1>5. TypeOK'
  BY <1>1, <1>2, <1>4, Zenon DEF TypeOK
<1>6. DenseInv' /\ ReportsAreTrue'
  BY <1>1, <1>4 DEF WriterInv, DenseInv, ReportsAreTrue
<1>7. ClientInv'
  BY <1>1, <1>2, <1>3, <1>4, Zenon DEF ClientInv, InHand, e
<1> QED
  BY <1>1, <1>5, <1>6, <1>7, QuietStep, Zenon DEF WriterInv, Quiet

\* The client's transaction and its confirmation.
LEMMA ConfirmKeeps ==
  ASSUME ConstantsOK, WriterInv, Confirm
  PROVE  WriterInv' /\ ContractStep
<1> DEFINE entry == reservation
<1>1. /\ TypeOK /\ InHand(entry) /\ entry # NoEntry /\ entry \in Entries
      /\ current = NoAppend /\ retryable = NoEntry /\ reservation' = NoEntry
      /\ UNCHANGED <<waiting, current>> /\ doubt = NoEntry
  BY Zenon DEF Confirm, WriterInv, ClientInv, TypeOK, InHand
<1>2. PICK business \in BOOLEAN : \E o \in Outcomes(entry, business) :
        LET verdict == classifyJournalOutcome(o, entry)
        IN  /\ Execute(o, entry)
            /\ IF verdict = "not_applied"
               THEN /\ retryable' = entry
                    /\ Report(entry.event, "not_applied")
                    /\ UNCHANGED <<nextSequence, stopped>>
               ELSE Settle(verdict, entry) /\ UNCHANGED retryable
  BY Zenon DEF Confirm
<1>3. PICK o \in Outcomes(entry, business) :
        LET verdict == classifyJournalOutcome(o, entry)
        IN  /\ Execute(o, entry)
            /\ IF verdict = "not_applied"
               THEN /\ retryable' = entry
                    /\ Report(entry.event, "not_applied")
                    /\ UNCHANGED <<nextSequence, stopped>>
               ELSE Settle(verdict, entry) /\ UNCHANGED retryable
  BY <1>2, Zenon
<1> DEFINE verdict == classifyJournalOutcome(o, entry)
<1>4. /\ verdict \in {"applied", "ambiguous", "not_applied"}
      /\ verdict = "applied" => Grows(entry) /\ doubt' = doubt
      /\ verdict = "ambiguous" => store' = store /\ doubt' = entry
      /\ verdict = "not_applied" => UNCHANGED <<store, doubt>>
  BY <1>1, <1>3, Classified, Zenon
<1> HIDE DEF verdict
<1>5. CASE verdict = "applied"
  <2>1. Settle(verdict, entry) /\ retryable' = NoEntry
    BY <1>1, <1>3, <1>5, Zenon DEF verdict
  <2>2. nextSequence' = nextSequence + 1 /\ stopped' = stopped /\ Report(entry.event, "appended")
    BY <1>5, <2>1, Zenon DEF Settle
  <2> QED
    BY <1>1, <1>4, <1>5, <2>1, <2>2, Applied, Zenon
<1>6. CASE verdict = "ambiguous"
  <2>1. Settle(verdict, entry) /\ retryable' = NoEntry
    BY <1>1, <1>3, <1>6, Zenon DEF verdict
  <2>2. nextSequence' = nextSequence /\ stopped' = "AMBIGUOUS_APPEND" /\ Report(entry.event, "stopped")
    BY <1>6, <2>1, Zenon DEF Settle
  <2> QED
    BY <1>1, <1>4, <1>6, <2>1, <2>2, Stopped, Zenon
<1>7. CASE verdict = "not_applied"
  <2>1. retryable' = entry /\ Report(entry.event, "not_applied") /\ UNCHANGED <<nextSequence, stopped, store, doubt>>
    BY <1>3, <1>4, <1>7, Zenon DEF verdict
  <2>2. /\ reported' \in [Events -> {"undrawn", "open", "appended", "not_applied", "stopped"}]
        /\ reported'[entry.event] = "not_applied" /\ entry.event \in Events
        /\ \A d \in Events \ {entry.event} : reported'[d] = reported[d]
    BY <1>1, <2>1, Zenon DEF Report, TypeOK, InHand
  <2>3. TypeOK'
    BY <1>1, <2>1, <2>2, Zenon DEF TypeOK, Entries
  <2>4. DenseInv'
    BY <2>1, Zenon DEF WriterInv, DenseInv
  <2>5. ReportsAreTrue'
    BY <1>1, <2>1, <2>2, Zenon DEF WriterInv, ReportsAreTrue, InHand
  <2>6. ClientInv'
    BY <1>1, <2>1, <2>2, Zenon DEF ClientInv, InHand
  <2> QED
    BY <2>1, <2>3, <2>4, <2>5, <2>6, QuietStep, Zenon DEF WriterInv, Quiet
<1> QED
  BY <1>4, <1>5, <1>6, <1>7, Zenon

\* A write in doubt executed after all.
LEMMA LateWriteKeeps ==
  ASSUME ConstantsOK, WriterInv, LateWrite
  PROVE  WriterInv' /\ ContractStep
<1>1. /\ TypeOK /\ stopped # "NO" /\ doubt.sequence = nextSequence /\ reported[doubt.event] = "stopped"
      /\ doubt # NoEntry /\ DOMAIN store = 1 .. nextSequence - 1 /\ doubt' = NoEntry
      /\ UNCHANGED <<nextSequence, stopped, reservation, retryable, waiting, current, reported>>
  BY Zenon DEF LateWrite, WriterInv, DenseInv, ClientInv
<1>2. doubt.event \in Events /\ nextSequence \in Nat \ {0} /\ NoEntry \in Entries
  BY <1>1, Zenon DEF TypeOK, Entries
<1>3. ~Occupied(doubt)
  BY <1>1, <1>2 DEF Occupied
<1>4. Grows(doubt)
  BY <1>1, <1>2, <1>3, Zenon DEF LateWrite, Grows
<1>5. /\ DOMAIN store' = 1 .. nextSequence
      /\ store' = [s \in DOMAIN store' |-> store'[s]]
      /\ \A s \in 1 .. nextSequence - 1 : store'[s] = store[s]
      /\ store'[nextSequence] = doubt.event /\ \A s \in DOMAIN store' : store'[s] \in Events
  BY <1>1, <1>4, StoredFields, Zenon
<1>6. DOMAIN store' \subseteq Nat \ {0}
  BY <1>2, <1>5
<1>7. TypeOK'
  BY <1>1, <1>2, <1>5, <1>6, Zenon DEF TypeOK
<1>8. DenseInv'
  BY <1>1, <1>5, Zenon DEF DenseInv
<1>9. ClientInv'
  BY <1>1, Zenon DEF WriterInv, ClientInv, InHand
<1>10. ReportsAreTrue'
  <2>1. \A s \in DOMAIN store : s \in DOMAIN store' /\ store'[s] = store[s]
    BY <1>1, <1>2, <1>5
  <2>2. \A s \in DOMAIN store' : s \in DOMAIN store \/ s = nextSequence
    BY <1>1, <1>2, <1>5
  <2> QED
    BY <1>1, <1>5, <2>1, <2>2 DEF WriterInv, ReportsAreTrue
<1> QED
  BY <1>1, <1>4, <1>7, <1>8, <1>9, <1>10, LandStep, Zenon DEF WriterInv
-----------------------------------------------------------------------------
(* The theorems. *)

\* A new instance holds nothing, and its log is empty.
LEMMA WriterInit ==
  ASSUME ConstantsOK, Init
  PROVE  WriterInv /\ Contract!Init
<1>1. DOMAIN store = {} /\ store = [s \in DOMAIN store |-> store[s]] /\ 1 .. nextSequence - 1 = {}
  BY DEF Init
<1>2. NoEntry \in Entries /\ NoAppend \in [entry : Entries, retries : 0 .. MaxDefinitiveRetries]
  BY DEF Entries, NoAppend, ConstantsOK
<1>3. TypeOK
  BY <1>1, <1>2 DEF Init, TypeOK, ConstantsOK
<1>4. DenseInv /\ ClientInv /\ ReportsAreTrue
  BY <1>1, Zenon DEF Init, DenseInv, ClientInv, ReportsAreTrue
<1>5. Log = <<>>
  <2>1. Log = [s \in 1 .. 0 |-> store[s]] /\ Log \in Seq(Events) /\ Len(Log) = 0
    <3>1. DOMAIN store = 1 .. 0
      BY <1>1
    <3> QED
      BY <1>3, <3>1, LogLength, Zenon
  <2> QED
    BY <2>1
<1>6. Contract!Init
  BY <1>5 DEF Contract!Init, Init, NoEntry, Log
<1> QED
  BY <1>3, <1>4, <1>6, Zenon DEF WriterInv

\* Every step keeps the invariant and is a step of the contract.
LEMMA WriterNext ==
  ASSUME ConstantsOK, WriterInv, [Next]_vars
  PROVE  WriterInv' /\ ContractStep
<1>1. CASE UNCHANGED vars
  <2>1. WriterInv'
    BY <1>1 DEF vars, WriterInv, TypeOK, DenseInv, ClientInv, ReportsAreTrue, InHand
  <2> QED
    BY <1>1, <2>1, QuietStep, Zenon DEF vars, Quiet
<1> QED
  BY <1>1, CallAppendKeeps, StartAppendKeeps, WriteEntryKeeps, PrepareKeeps, PrepareRetryKeeps,
     ConfirmKeeps, LateWriteKeeps, Zenon DEF Next

\* The inductive invariant of the writer.
THEOREM WriterInvariant ==
  ASSUME ConstantsOK
  PROVE  Spec => []WriterInv
<1>1. Init => WriterInv
  BY WriterInit, Zenon
<1>2. WriterInv /\ [Next]_vars => WriterInv'
  BY WriterNext, Zenon
<1> QED
  BY <1>1, <1>2, PTL DEF Spec

\* The writer's state is well formed: an entry is of an event, a retry is within
\* the budget, the queue is within its bound.
THEOREM WriterTypeCorrect ==
  ASSUME ConstantsOK
  PROVE  Spec => []TypeOK
BY WriterInvariant, PTL DEF WriterInv

\* No interleaving of queued appends, reservations, retries, failed transactions and
\* late executions leaves a gap in the stored sequences (#nextEntry, #settle).
THEOREM WriterDenseSequence ==
  ASSUME ConstantsOK
  PROVE  Spec => []DenseSequence
<1>1. WriterInv => DenseSequence
  BY DEF WriterInv, DenseInv, DenseSequence, TypeOK
<1> QED
  BY <1>1, WriterInvariant, PTL

\* What append and confirm told a client is what the store holds, for good.
THEOREM WriterReportsAreTrue ==
  ASSUME ConstantsOK
  PROVE  Spec => []ReportsAreTrue
BY WriterInvariant, PTL DEF WriterInv

\* The writer never meets its own entry at a sequence (prepareRetry, confirm).
THEOREM WriterNeverOwnConflict ==
  ASSUME ConstantsOK
  PROVE  Spec => []NeverOwnConflict
<1>1. WriterInv => NeverOwnConflict
  BY Zenon DEF WriterInv, ClientInv, NeverOwnConflict
<1> QED
  BY <1>1, WriterInvariant, PTL

\* The writer implements the journal that its clients rely on: a log that grows at
\* its end only, and an instance that stops for good with at most one entry in doubt.
THEOREM WriterImplementsJournal ==
  ASSUME ConstantsOK
  PROVE  Spec => ImplementsJournal
<1>1. Init => Contract!Init
  BY WriterInit, Zenon
<1>2. WriterInv /\ [Next]_vars
        => [Contract!Next]_<<Log, stopped # "NO", doubt.event>>
  BY WriterNext, Zenon DEF ContractStep
<1> QED
  BY <1>1, <1>2, WriterInvariant, PTL DEF Spec, ImplementsJournal, Contract!Spec, Log
=============================================================================
