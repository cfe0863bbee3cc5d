-------------------------- MODULE ProviderContract --------------------------
(***************************************************************************)
(* What a caller may rely on about the refund provider, and no more: a     *)
(* call commits at most one ledger transaction, a SUCCEEDED answer follows *)
(* its commit, a REJECTED one means that it never commits, and a call that *)
(* ends in a fault may have committed, or may still commit.  The callers   *)
(* are checked against this contract; the provider is shown to implement   *)
(* it.                                                                     *)
(***************************************************************************)
CONSTANT Attempts
VARIABLES transport, effects

\* The caller invokes the provider for attempt `a', once.
Send(a) ==
  /\ transport[a] = "IDLE"
  /\ transport' = [transport EXCEPT ![a] = "SENT"]
  /\ UNCHANGED effects

Commit(a) ==
  /\ transport[a] \in {"SENT", "FAULT"}
  /\ a \notin effects
  /\ effects' = effects \cup {a}
  /\ UNCHANGED transport

Answer(a, answer) ==
  /\ transport[a] = "SENT"
  /\ answer = "SUCCEEDED" => a \in effects
  /\ answer = "REJECTED" => a \notin effects
  /\ transport' = [transport EXCEPT ![a] = answer]
  /\ UNCHANGED effects

ProviderStep ==
  \E a \in Attempts :
    \/ Commit(a)
    \/ \E answer \in {"SUCCEEDED", "REJECTED", "FAULT"} : Answer(a, answer)

Init ==
  /\ transport = [a \in Attempts |-> "IDLE"]
  /\ effects = {}

Next == ProviderStep \/ \E a \in Attempts : Send(a)

Spec == Init /\ [][Next]_<<transport, effects>>
=============================================================================
