-------------------------- MODULE JournalContract ---------------------------
(***************************************************************************)
(* What the programs above a journal rely on (BR-RUA-033): the events of   *)
(* one source instance form a log that only grows at its end; the instance *)
(* may stop for good at any time; one event, in doubt when it stopped, may *)
(* still become its last entry.                                            *)
(***************************************************************************)
EXTENDS Sequences

CONSTANTS Events, NoEvent
VARIABLES log, stopped, doubt

Init ==
  /\ log = <<>>
  /\ stopped = FALSE
  /\ doubt = NoEvent

Emit(e) ==
  /\ ~stopped
  /\ log' = Append(log, e)
  /\ UNCHANGED <<stopped, doubt>>

Stop(inDoubt) ==
  /\ ~stopped
  /\ stopped' = TRUE
  /\ doubt' = inDoubt
  /\ UNCHANGED log

Land ==
  /\ doubt # NoEvent
  /\ log' = Append(log, doubt)
  /\ doubt' = NoEvent
  /\ UNCHANGED stopped

Next ==
  \/ \E e \in Events : Emit(e)
  \/ \E e \in Events \cup {NoEvent} : Stop(e)
  \/ Land

Spec == Init /\ [][Next]_<<log, stopped, doubt>>
=============================================================================
