------------------------- MODULE CoordinationLease --------------------------
(***************************************************************************)
(* The coordination lease: one item shared by every execution of the study *)
(* in an account and Region.  Each execution has one LeaseSession with its *)
(* heartbeat loop; `rua recover' finalizes the lease of a finalized        *)
(* package again as the same owner.  A write whose answer is lost lands at *)
(* once, later or never.                                                   *)
(*                                                                         *)
(* An owner acquires once, so at version 1 its heartbeat_at is its         *)
(* acquired_at and the item keeps only the former, and that while it is    *)
(* HELD: nobody reads it afterwards.                                       *)
(***************************************************************************)
EXTENDS Integers, FiniteSets, TLC

CONSTANTS
  Owners,                  \* executions: owner kind, identity and manifest digest
  NoOwner,                 \* the released owner of an earlier execution, or none
  TicksPerMs,              \* NS_PER_MS: the clock is finer than a timer
  HeartbeatIntervalMs,     \* LEASE_HEARTBEAT_INTERVAL_MS
  StaleBoundaryMs,         \* LEASE_STALE_BOUNDARY_MS
  MaxClock, MaxLate        \* bounds: ticks, and lost answers still in flight (none beside a deletion)

ASSUME LeaseAssumption ==
  /\ NoOwner \notin Owners
  /\ TicksPerMs \in Nat \ {0} /\ HeartbeatIntervalMs \in Nat \ {0} /\ StaleBoundaryMs \in Nat \ {0}
  /\ MaxClock \in Nat /\ MaxLate \in Nat

VARIABLES
  lease,        \* the stored item
  session,      \* per owner: the lease session, or the recovery acting for it
  late,         \* writes answered as ambiguous that may still land
  clock,        \* monotonic time
  deleted,      \* whether the item was deleted by someone outside the study
  releasedBy    \* history: owners whose item was set to RELEASED

vars == <<lease, session, late, clock, deleted, releasedBy>>

Closures == {"clean", "unclean"}
Healths == {"CONFIRMED", "UNCERTAIN", "LOST_OWNERSHIP_MISMATCH", "LOST_STALE"}
FinalSteps == {"finalRead", "finalWrite", "finalResolve"}
Times == 0 .. MaxClock

\* A timer's delay, in ticks of the clock.
Ticks(ms) == ms * TicksPerMs
HeartbeatInterval == Ticks(HeartbeatIntervalMs)
StaleBoundary == Ticks(StaleBoundaryMs)

Leases ==
  [status : {"ABSENT", "HELD", "RELEASED", "RECOVERY_REQUIRED"},
   owner : Owners \cup {NoOwner}, version : Nat, heartbeat_at : Times]

Writes ==
  [op : {"acquire", "reacquire", "heartbeat", "release", "markRecoveryRequired"},
   owner : Owners, version : Nat, previous : Owners \cup {NoOwner}, at : Times]

Sessions ==
  [phase : {"idle", "held", "refused", "unresolved", "finalized", "recovering", "crashed"},
   step : {"idle", "put", "putReleased", "resolve", "beat", "judge"} \cup FinalSteps,
   health : Healths,
   version : Nat,             \* lease_version; the version a write expects
   previous : Owners \cup {NoOwner}, \* the released owner a second put expects
   last_confirmed : Times,
   at : Times,                     \* when the operation in flight was issued
   due : 0 .. MaxClock + HeartbeatInterval,
   writeAmbiguous : BOOLEAN,       \* the reason code of a failed acquisition
   held : BOOLEAN,                 \* ever held, as finalizeLease is told
   closure : Closures,
   original : {"none", "released", "recovery_required", "unverified"},
   status : {"none", "released", "recovery_required", "unverified"}]

TypeOK ==
  /\ lease \in Leases
  /\ session \in [Owners -> Sessions]
  /\ late \subseteq Writes /\ IsFiniteSet(late) /\ Cardinality(late) <= MaxLate
  /\ clock \in Times
  /\ deleted \in BOOLEAN
  /\ releasedBy \subseteq Owners

NoLease == [status |-> "ABSENT", owner |-> NoOwner, version |-> 0, heartbeat_at |-> 0]

IdleSession ==
  [phase |-> "idle", step |-> "idle", health |-> "CONFIRMED", version |-> 1, previous |-> NoOwner,
   last_confirmed |-> 0, at |-> 0, due |-> 0, writeAmbiguous |-> FALSE, held |-> FALSE,
   closure |-> "clean", original |-> "none", status |-> "none"]

Init ==
  /\ lease \in {NoLease, [NoLease EXCEPT !.status = "RELEASED", !.version = 2]}
  /\ session = [o \in Owners |-> IdleSession]
  /\ late = {}
  /\ clock = 0
  /\ deleted = FALSE
  /\ releasedBy = {}

-----------------------------------------------------------------------------
(* The lease store: conditional writes and consistent reads. *)

\* Faulty variant: a put over a released item does not compare the item.
sameReleasedItemAny(w) == lease.status # "ABSENT"

sameReleasedItem(w) ==
  lease.status = "RELEASED" /\ lease.version = w.version /\ lease.owner = w.previous

ownedAt(w, statuses) ==
  lease.owner = w.owner /\ lease.version = w.version /\ lease.status \in statuses

WriteCondition(w) ==
  CASE w.op = "acquire" -> lease.status = "ABSENT"
    [] w.op = "reacquire" -> sameReleasedItem(w)
    [] w.op = "heartbeat" -> ownedAt(w, {"HELD"})
    [] w.op = "release" -> ownedAt(w, {"HELD", "RECOVERY_REQUIRED"})
    [] OTHER -> ownedAt(w, {"HELD"})

acquiredLeaseItem(w) ==
  [status |-> "HELD", owner |-> w.owner, version |-> 1, heartbeat_at |-> w.at]

Land(w) ==
  /\ lease' = CASE w.op \in {"acquire", "reacquire"} -> acquiredLeaseItem(w)
                [] w.op = "heartbeat" -> [lease EXCEPT !.version = @ + 1, !.heartbeat_at = w.at]
                [] w.op = "release" -> [lease EXCEPT !.version = @ + 1, !.status = "RELEASED", !.heartbeat_at = 0]
                [] OTHER -> [lease EXCEPT !.version = @ + 1, !.status = "RECOVERY_REQUIRED", !.heartbeat_at = 0]
  /\ releasedBy' = IF w.op = "release" THEN releasedBy \cup {w.owner} ELSE releasedBy

\* One conditional write and its answer; a store call that throws is an
\* ambiguous write too (guardLeaseStore).
Write(w, outcome) ==
  CASE outcome = "applied" -> WriteCondition(w) /\ Land(w) /\ UNCHANGED late
    [] outcome = "condition_failed" -> ~WriteCondition(w) /\ UNCHANGED <<lease, late, releasedBy>>
    [] outcome = "definitive_failure" -> UNCHANGED <<lease, late, releasedBy>>
    [] OTHER -> \/ WriteCondition(w) /\ Land(w) /\ UNCHANGED late
                \/ /\ Cardinality(late) < MaxLate /\ ~deleted
                   /\ late' = late \cup {w}
                   /\ UNCHANGED <<lease, releasedBy>>
                \/ UNCHANGED <<lease, late, releasedBy>>

Outcomes == {"applied", "condition_failed", "definitive_failure", "ambiguous"}

LateWrite(w) ==
  /\ late' = late \ {w}
  /\ IF WriteCondition(w) THEN Land(w) ELSE UNCHANGED <<lease, releasedBy>>
  /\ UNCHANGED <<session, clock, deleted>>

\* Someone outside the study deletes the item.
DeleteItem ==
  /\ ~deleted /\ late = {} /\ lease.status # "ABSENT"
  /\ deleted' = TRUE
  /\ lease' = NoLease
  /\ UNCHANGED <<session, late, clock, releasedBy>>

isOwnedBy(o) == lease.status # "ABSENT" /\ lease.owner = o

Request(o, op) ==
  [op |-> op, owner |-> o, version |-> session[o].version, previous |-> session[o].previous,
   at |-> session[o].at]

Become(o, s) == session' = [session EXCEPT ![o] = s]

-----------------------------------------------------------------------------
(* Lease health and the heartbeat loop. *)

isLost(health) == health \in {"LOST_OWNERSHIP_MISMATCH", "LOST_STALE"}

isStale(s) == clock - s.last_confirmed >= StaleBoundary

confirmed(s) == [s EXCEPT !.health = "CONFIRMED", !.version = @ + 1, !.last_confirmed = s.at]

failed(s, version) == [s EXCEPT !.health = "UNCERTAIN", !.version = version]

mismatch(s) == [s EXCEPT !.health = "LOST_OWNERSHIP_MISMATCH"]

\* Staleness is judged before the observation that led to `observed'.
nextLeaseHealth(s, observed) == IF isStale(s) THEN [s EXCEPT !.health = "LOST_STALE"] ELSE observed

publicationAllowed(o) ==
  session[o].phase = "held" /\ session[o].health = "CONFIRMED" /\ ~isStale(session[o])

\* What is left up to the boundary, in whole milliseconds, rounded up.
remainingMs(s) ==
  LET remaining == s.last_confirmed + StaleBoundary - clock
  IN  IF remaining > 0 THEN (remaining + TicksPerMs - 1) \div TicksPerMs ELSE 0

heartbeatDelayMs(s) ==
  IF s.health # "UNCERTAIN" \/ remainingMs(s) >= HeartbeatIntervalMs THEN HeartbeatIntervalMs
  ELSE remainingMs(s)

\* A lost session beats no more and its confirmation is not read again.
Scheduled(s) ==
  IF isLost(s.health) THEN [s EXCEPT !.step = "idle", !.at = 0, !.due = 0, !.last_confirmed = 0]
  ELSE [s EXCEPT !.step = "idle", !.at = 0, !.due = clock + Ticks(heartbeatDelayMs(s))]

settleBeat(o, observed) == Become(o, Scheduled(nextLeaseHealth(session[o], observed)))

Beating(o) == session[o].phase = "held" /\ session[o].step = "idle" /\ ~isLost(session[o].health)

HeartbeatDue(o) ==
  /\ Beating(o) /\ clock >= session[o].due
  /\ IF isStale(session[o])
     THEN settleBeat(o, session[o])
     ELSE Become(o, [session[o] EXCEPT !.step = "beat", !.at = clock])
  /\ UNCHANGED <<lease, late, clock, deleted, releasedBy>>

judgeItem(o) ==
  IF isOwnedBy(o) /\ lease.status = "HELD" THEN failed(session[o], lease.version) ELSE mismatch(session[o])

WriteHeartbeat(o, outcome) ==
  /\ session[o].step = "beat"
  /\ Write(Request(o, "heartbeat"), outcome)
  /\ CASE outcome = "applied" -> settleBeat(o, confirmed(session[o]))
       [] outcome = "definitive_failure" -> settleBeat(o, failed(session[o], session[o].version))
       [] outcome = "condition_failed" /\ lease.status # "ABSENT" -> settleBeat(o, judgeItem(o))
       [] OTHER -> Become(o, [session[o] EXCEPT !.step = "judge"])
  /\ UNCHANGED <<clock, deleted>>

heartbeatLanded(o) ==
  /\ isOwnedBy(o) /\ lease.status = "HELD"
  /\ lease.version = session[o].version + 1 /\ lease.heartbeat_at = session[o].at

JudgeHeartbeat(o, readable) ==
  /\ session[o].step = "judge"
  /\ settleBeat(o, IF ~readable THEN failed(session[o], session[o].version)
                   ELSE IF heartbeatLanded(o) THEN confirmed(session[o])
                   ELSE judgeItem(o))
  /\ UNCHANGED <<lease, late, clock, deleted, releasedBy>>

-----------------------------------------------------------------------------
(* Acquisition, the first mutation of an execution. *)

Acquire(o) ==
  /\ session[o].phase = "idle" /\ session[o].step = "idle"
  /\ Become(o, [session[o] EXCEPT !.step = "put", !.at = clock])
  /\ UNCHANGED <<lease, late, clock, deleted, releasedBy>>

\* Faulty variant: an acquisition counts as confirmed from its answer.
HeldFromAnswer(s) ==
  Scheduled([IdleSession EXCEPT !.phase = "held", !.held = TRUE, !.last_confirmed = clock])

Held(s) ==
  Scheduled([IdleSession EXCEPT !.phase = "held", !.held = TRUE, !.last_confirmed = s.at])

NotAcquired(phase, ambiguous) == [IdleSession EXCEPT !.phase = phase, !.writeAmbiguous = ambiguous]

resolveAcquisition(o, outcome) ==
  Become(o, CASE outcome = "applied" -> Held(session[o])
              [] outcome = "ambiguous" -> [session[o] EXCEPT !.step = "resolve"]
              [] OTHER -> NotAcquired("refused", FALSE))

\* The put on an absent item; a released item calls for a second put.
PutLease(o, outcome) ==
  /\ session[o].step = "put"
  /\ Write(Request(o, "acquire"), outcome)
  /\ IF outcome = "condition_failed" /\ lease.status = "RELEASED"
     THEN Become(o, [session[o] EXCEPT !.step = "putReleased", !.version = lease.version,
                                       !.previous = lease.owner])
     ELSE resolveAcquisition(o, outcome)
  /\ UNCHANGED <<clock, deleted>>

PutReleasedLease(o, outcome) ==
  /\ session[o].step = "putReleased"
  /\ Write(Request(o, "reacquire"), outcome)
  /\ resolveAcquisition(o, outcome)
  /\ UNCHANGED <<clock, deleted>>

acquisitionLanded(o) ==
  isOwnedBy(o) /\ lease.status = "HELD" /\ lease.version = 1 /\ lease.heartbeat_at = session[o].at

ResolveAmbiguousAcquisition(o, readable) ==
  /\ session[o].step = "resolve"
  /\ Become(o, IF ~readable THEN NotAcquired("unresolved", TRUE)
               ELSE IF acquisitionLanded(o) THEN Held(session[o])
               ELSE NotAcquired("refused", lease.status = "ABSENT"))
  /\ UNCHANGED <<lease, late, clock, deleted, releasedBy>>

-----------------------------------------------------------------------------
(* Finalization by the runner, and again by a recovery. *)

FINAL_STATUS_OF_EVENT(event) ==
  CASE event = "RELEASED" -> "released"
    [] event = "RECOVERY_REQUIRED" -> "recovery_required"
    [] OTHER -> "unverified"

Finalized(held, original, status) ==
  [IdleSession EXCEPT !.phase = "finalized", !.held = held, !.original = original, !.status = status]

\* The final event of a session is frozen with the package unless its journal
\* had stopped; a recovery's amendment replaces the status, never the original.
Settle(o, event) ==
  IF session[o].phase = "recovering"
  THEN Become(o, Finalized(session[o].held, session[o].original, FINAL_STATUS_OF_EVENT(event)))
  ELSE \E status \in {FINAL_STATUS_OF_EVENT(event), "unverified"} :
         Become(o, Finalized(session[o].held, status, status))

\* The runner stops the heartbeats and finalizes: a held lease with the closure
\* its cleanup earned, an acquisition reported as ambiguous as clean.
FinalizeLease(o, closure) ==
  /\ session[o].step = "idle"
  /\ \/ session[o].phase = "held"
     \/ session[o].writeAmbiguous /\ session[o].phase \in {"refused", "unresolved"} /\ closure = "clean"
  /\ IF session[o].phase = "refused"
     THEN Settle(o, "RELEASED")
     ELSE Become(o, [session[o] EXCEPT !.step = "finalRead", !.closure = closure, !.due = 0])
  /\ UNCHANGED <<lease, late, clock, deleted, releasedBy>>

\* repairLease: a package whose original closure released the lease keeps it.
RecoverLease(o, closure) ==
  /\ session[o].phase = "finalized" /\ session[o].held
  /\ Become(o, IF session[o].original = "released"
               THEN [session[o] EXCEPT !.status = "released"]
               ELSE [session[o] EXCEPT !.phase = "recovering", !.step = "finalRead",
                                       !.closure = closure, !.version = 0])
  /\ UNCHANGED <<lease, late, clock, deleted, releasedBy>>

notOwned(o) == IF session[o].held THEN "STATE_UNVERIFIED" ELSE "RELEASED"

ReadForFinalization(o, readable) ==
  /\ session[o].step = "finalRead"
  /\ IF readable /\ ~isOwnedBy(o) THEN Settle(o, notOwned(o))
     ELSE IF readable /\ lease.status = "RELEASED" THEN Settle(o, "RELEASED")
     ELSE IF readable /\ lease.status = "RECOVERY_REQUIRED" /\ session[o].closure = "unclean"
          THEN Settle(o, "RECOVERY_REQUIRED")
     ELSE Become(o, [session[o] EXCEPT !.step = "finalWrite",
                                       !.version = IF readable THEN lease.version ELSE @])
  /\ UNCHANGED <<lease, late, clock, deleted, releasedBy>>

FinalTarget(o) == IF session[o].closure = "clean" THEN "RELEASED" ELSE "RECOVERY_REQUIRED"

writeFinal(o, outcome) ==
  /\ session[o].step = "finalWrite"
  /\ Write(Request(o, IF session[o].closure = "clean" THEN "release" ELSE "markRecoveryRequired"), outcome)
  /\ CASE outcome = "applied" -> Settle(o, FinalTarget(o))
       [] outcome = "ambiguous" -> Become(o, [session[o] EXCEPT !.step = "finalResolve"])
       [] OTHER -> Settle(o, IF session[o].closure = "clean" THEN "RELEASE_FAILED" ELSE "STATE_UNVERIFIED")
  /\ UNCHANGED <<clock, deleted>>

ResolveAmbiguousFinal(o, readable) ==
  /\ session[o].step = "finalResolve"
  /\ Settle(o, IF readable /\ isOwnedBy(o) /\ lease.status = FinalTarget(o)
               THEN FinalTarget(o) ELSE "STATE_UNVERIFIED")
  /\ UNCHANGED <<lease, late, clock, deleted, releasedBy>>

\* The operator's process dies.  Only a finalized package can be recovered.
Crash(o) ==
  /\ session[o].phase \in {"held", "unresolved", "recovering"} \/ session[o].step # "idle"
  /\ Become(o, IF session[o].phase = "recovering"
               THEN Finalized(session[o].held, session[o].original, session[o].status)
               ELSE [IdleSession EXCEPT !.phase = "crashed"])
  /\ UNCHANGED <<lease, late, clock, deleted, releasedBy>>

Tick ==
  /\ clock < MaxClock
  /\ clock' = clock + 1
  /\ UNCHANGED <<lease, session, late, deleted, releasedBy>>

OwnerStep(o) ==
  \/ Acquire(o)
  \/ HeartbeatDue(o)
  \/ \E outcome \in Outcomes :
       PutLease(o, outcome) \/ PutReleasedLease(o, outcome) \/ WriteHeartbeat(o, outcome) \/ writeFinal(o, outcome)
  \/ \E readable \in BOOLEAN :
       \/ ResolveAmbiguousAcquisition(o, readable) \/ JudgeHeartbeat(o, readable)
       \/ ReadForFinalization(o, readable) \/ ResolveAmbiguousFinal(o, readable)
  \/ \E closure \in Closures : FinalizeLease(o, closure) \/ RecoverLease(o, closure)
  \/ Crash(o)

Next ==
  \/ \E o \in Owners : OwnerStep(o)
  \/ \E w \in late : LateWrite(w)
  \/ DeleteItem
  \/ Tick

Spec == Init /\ [][Next]_vars

\* No step tells one execution's identity from another's.
OwnerSymmetry == Permutations(Owners)

-----------------------------------------------------------------------------
Finalizing(o) == session[o].step \in FinalSteps

\* An execution that may publish holds the stored lease, so no two executions
\* publish at once: acquisitions race over one released item, answers are lost
\* and land late, owners crash and are recovered.  Only a finalization in flight
\* and a deletion from outside are excepted (publicationAllowed, acquireLease,
\* BR-RUA-045).
PublisherHoldsLease ==
  \A o \in Owners :
    publicationAllowed(o) /\ ~Finalizing(o) /\ ~deleted => isOwnedBy(o) /\ lease.status = "HELD"

\* "a confirmation counts from the moment its write was issued, so the boundary is
\* never later than the store's own heartbeat" (lease-health.ts:9-10), and a
\* session that stays UNCERTAIN beats again within the millisecond of that
\* boundary, however late its beats and their answers come (heartbeatDelayMs:
\* "staleness is established at the boundary"; a timer counts milliseconds).
BoundaryNeverLaterThanStore ==
  \A o \in Owners :
    session[o].phase = "held" /\ isOwnedBy(o) /\ lease.status = "HELD" =>
      /\ session[o].last_confirmed <= lease.heartbeat_at
      /\ Beating(o) /\ session[o].health = "UNCERTAIN" => session[o].due < lease.heartbeat_at + StaleBoundary + TicksPerMs

\* An execution that held the lease is reported as released only when its own
\* item was set to RELEASED: an absent item or another holder never proves it
\* (finalizeLease, repairLease, AC-RUA-033).
ReleasedIsEstablished ==
  \A o \in Owners : session[o].held /\ session[o].status = "released" => o \in releasedBy

\* The lease passes to another owner only from a released item or none: no
\* expiry, crash or late write takes it from a holder (isLeaseAvailable).
NeverStolen ==
  [][\A o \in Owners : lease'.owner = o /\ lease.owner # o => lease.status \in {"ABSENT", "RELEASED"}]_vars

\* lease-acquisition.ts:8: "Any other item, or none, means it did not land."
RefusedHoldsNothing ==
  \A o \in Owners : session[o].phase = "refused" => ~(isOwnedBy(o) /\ lease.status = "HELD")

\* operational-recovery.ts:252-254: a later holder must not "turn a proven release
\* into `unverified`, and recovery repairs a closure, it never degrades it".
RecoveryNeverDegrades ==
  [][\A o \in Owners : session[o].status = "released" => session'[o].status = "released"]_vars
=============================================================================
