------------------------- MODULE MCTrialEvaluation -------------------------
(***************************************************************************)
(* Worlds for TrialEvaluation: both scenarios, the endings of one or two   *)
(* attempts, every barrier behaviour, an attempt for another refund        *)
(* request, a caller that claims to know an ambiguous effect, and an       *)
(* attempt identity an earlier trial used.  With them, the sources of      *)
(* LateCapture: what is collected, frozen and looked for again.  The two   *)
(* share no state; `part' says which of them a behaviour is about, and the *)
(* other stays as it is initially.                                         *)
(***************************************************************************)
EXTENDS TrialEvaluation

CONSTANTS PageSize, DLQ_RECEIVE_ROUND_LIMIT, MaxItems

VARIABLES part, source, step, turn, now, published, items, reads, cursor, got, buffer, frozen, index, observations,
          failed, atCutoff, captured, faults

captureVars == <<source, step, turn, now, published, items, reads, cursor, got, buffer, frozen, index, observations,
                 failed, atCutoff, captured, faults>>
evaluationVars == <<part, vars, captureVars>>

\* A journal of each kind, the ledger of the earlier trial, what the trials share, and a journal of the
\* execution that correlates and one that does not.
CaptureWorlds == {<<"caller", "T2">>, <<"experiment", "T2">>, <<"ledger", "T1">>, <<"dlq", "execution">>,
                  <<"durable", "execution">>, <<"provider", "execution">>, <<"canary_caller", "execution">>}
Capture == INSTANCE LateCapture WITH world <- source, phase <- step, stream <- captured, Trials <- <<"T1", "T2">>,
                                     Worlds <- CaptureWorlds

Fates == {"ok", "rejected", "undispatched", "timed_out", "failed", "crashed", "late"}
World(scenario, fates, hold) ==
    [scenario |-> scenario, fates |-> fates, refunds |-> [k \in DOMAIN fates |-> "R"], honest |-> TRUE, hold |-> hold,
     reused |-> FALSE, probe |-> FALSE]
ControlFates == {<<"ok">>, <<"undispatched", "ok">>, <<"undispatched", "late">>, <<"late", "ok">>,
                 <<"failed", "rejected">>, <<"crashed", "undispatched">>}
TreatedFates == {<<"timed_out", f>> : f \in Fates \ {"timed_out"}}
Probe(fates, hold) == [World("COMMIT_THEN_TIMEOUT", fates, hold) EXCEPT !.probe = TRUE]
MCWorlds ==
    {Probe(<<"timed_out">>, hold) : hold \in {"delivered", "late_commit", "safety"}}
    \cup {Probe(<<"ok">>, "none"), Probe(<<"late">>, "none"), Probe(<<"timed_out", "late">>, "delivered")} \cup
    {World("CONTROL", f, "none") : f \in ControlFates}
    \cup {World("COMMIT_THEN_TIMEOUT", f, "delivered") : f \in TreatedFates}
    \cup {World("COMMIT_THEN_TIMEOUT", <<"timed_out", "undispatched">>, hold) : hold \in {"late_commit", "safety", "none"}}
    \cup {[World("CONTROL", <<"undispatched", "ok">>, "none") EXCEPT !.refunds[1] = "S"],
          [World("CONTROL", <<"ok">>, "none") EXCEPT !.reused = TRUE],
          [World("COMMIT_THEN_TIMEOUT", <<"undispatched", "timed_out">>, "delivered") EXCEPT !.honest = FALSE],
          [World("COMMIT_THEN_TIMEOUT", <<"timed_out", "undispatched">>, "delivered") EXCEPT !.honest = FALSE]}

EvaluationInit ==
    /\ part \in {"evaluation", "capture"}
    /\ Init /\ Capture!Init
    /\ part = "evaluation" => source = <<"caller", "T2">>
    /\ part = "capture" => world = World("CONTROL", <<"ok">>, "none")
EvaluationStep == part = "evaluation" /\ Next /\ UNCHANGED captureVars
CaptureStep == part = "capture" /\ Capture!Next /\ UNCHANGED vars
EvaluationNext == (EvaluationStep \/ CaptureStep) /\ UNCHANGED part
EvaluationSpec == EvaluationInit /\ [][EvaluationNext]_evaluationVars

\* Whatever was in a source of a frozen trial at the cutoff is in its frozen copy or in the late
\* stream (captureLateRecords, LateCapture).
NothingIsLost == Capture!NothingIsLost
\* What trials share is evidence of the one it belongs to, once (durableListingWindow, LateCapture).
AttributedOnce == Capture!AttributedOnce
=============================================================================
