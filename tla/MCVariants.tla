----------------------------- MODULE MCVariants -----------------------------
(***************************************************************************)
(* Both variants of the caller, on one trial message each: `variant' says  *)
(* which of them a behaviour is about.                                     *)
(***************************************************************************)
EXTENDS ConventionalVariant, DurableVariant

VARIABLE variant

VariantsInit == variant \in {"conventional", "durable"} /\ Init /\ exec = NoExecution

ConventionalStep == variant = "conventional" /\ Next /\ UNCHANGED exec
DurableStep == variant = "durable" /\ DurableNext

VariantsSpec == VariantsInit /\ [][(ConventionalStep \/ DurableStep) /\ UNCHANGED variant]_<<durableVars, variant>>
=============================================================================
