----------------------------- MODULE Settlement -----------------------------
(***************************************************************************)
(* The settlement judgement: which samples are active, and when a quiet    *)
(* window followed by a quiet pre-freeze recheck establishes settlement.   *)
(* The live observer and the trial oracle call the same function.          *)
(*                                                                         *)
(* Samples come in the order of their instants (the wall clock of one      *)
(* runner), for which the stable sort of the code is the identity.  The    *)
(* counters of the queues and the state of inner executions are one        *)
(* reading, `unit'; a captured correlated dead letter is `dlq'.  A sample  *)
(* keeps whether its readings were quiet, not which of them was not: the   *)
(* causes only word the restarts and reasons of the judgement.             *)
(***************************************************************************)
EXTENDS Integers, Sequences

CONSTANTS PollInterval, Stabilization, ObservationDeadline

ASSUME PolicyAssumption ==
  /\ PollInterval \in Nat \ {0}
  /\ Stabilization \in Nat \ {0}
  /\ ObservationDeadline \in Nat \ {0}

-----------------------------------------------------------------------------
\* Whether one round of readings violates no condition by itself: queue counters
\* read and zero, ledger read to its end, provider idle, processing terminal.
Quiet(r) == r.unit = "quiet" /\ r.ledgerComplete /\ r.idle /\ r.terminal

\* Faulty variant: only the ledger is compared with the previous sample.
changedSinceLedgerOnly(s, previous) == s.ledger # previous.ledger

changedSince(s, previous) ==
  \/ s.dlq /\ ~previous.dlq
  \/ s.watermark > previous.watermark
  \/ s.ledger # previous.ledger

\* The first sample has no previous one, so only quietness applies to it.
Active(samples, i) == ~samples[i].quiet \/ (i > 1 /\ changedSince(samples[i], samples[i - 1]))

-----------------------------------------------------------------------------
\* Indices of the sample the window starts at, of the one that completed it, and
\* of the recheck that established settlement; 0 while there is none.
NoWindow == [windowStart |-> 0, quietUntil |-> 0, recheck |-> 0]

LongEnough(samples, start, i) == samples[i].at - samples[start].at >= Stabilization

\* The loop body, for a sample within the deadline.
Judge(samples, judgement, i) ==
  LET recheck == samples[i].phase = "pre_freeze_recheck"
      start == IF judgement.windowStart = 0 THEN i ELSE judgement.windowStart
  IN  IF judgement.recheck # 0 THEN judgement
      ELSE IF Active(samples, i) THEN NoWindow
      ELSE IF recheck /\ judgement.quietUntil # 0 THEN [judgement EXCEPT !.recheck = i]
      ELSE [judgement EXCEPT !.windowStart = start,
                             !.quietUntil = IF ~recheck /\ LongEnough(samples, start, i) THEN i ELSE @]

InTime(s) == s.at <= ObservationDeadline

\* Instants are relative to the publication.
evaluateSettlement(samples) ==
  LET timely == SelectSeq(samples, InTime)
      judged[i \in 0 .. Len(timely)] == IF i = 0 THEN NoWindow ELSE Judge(timely, judged[i - 1], i)
  IN  judged[Len(timely)]

Established(judgement) == judgement.recheck # 0

-----------------------------------------------------------------------------
\* A quiet recheck that repeats the last sample would establish settlement.
windowComplete(samples) ==
  /\ samples # <<>>
  /\ Established(evaluateSettlement(Append(samples, [samples[Len(samples)] EXCEPT !.phase = "pre_freeze_recheck"])))

\* The next instant of the polling grid strictly after now.
nextPollMs(now) == (now \div PollInterval + 1) * PollInterval
=============================================================================
