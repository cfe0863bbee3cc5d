----------------------- MODULE CoordinationLeaseProofs ----------------------
(***************************************************************************)
(* The lease properties for any number of executions, any interval and     *)
(* boundary, and any number of lost answers in flight.  The invariant says *)
(* what each write still in flight and each step of a session knows of the *)
(* stored item.                                                            *)
(***************************************************************************)
EXTENDS CoordinationLease, TLAPS, FiniteSetTheorems

Acquisitions == {"acquire", "reacquire"}
FinalWrites == {"release", "markRecoveryRequired"}

\* Which steps a session takes in which phase.
PhaseInv(o) ==
  /\ session[o].step \in {"put", "putReleased", "resolve"} => session[o].phase = "idle"
  /\ session[o].step \in {"beat", "judge"} => session[o].phase = "held"
  /\ session[o].step \in FinalSteps => session[o].phase \in {"held", "unresolved", "recovering"}
  /\ session[o].phase = "recovering" => session[o].step \in FinalSteps
  /\ session[o].phase = "refused" => ~session[o].held

\* The session will never hold the lease again without finalizing it.
Past(o) == session[o].phase \in {"finalized", "recovering", "crashed"} \/ Finalizing(o)

\* An owner has one acquisition in flight at most, and then neither holds the
\* item nor counts itself as its holder; its final writes come after its last beat.
LateInv(o) ==
  /\ \A w \in late : w.owner = o =>
       /\ w.op \in Acquisitions => lease.owner # o /\ session[o].phase # "held"
       /\ w.op \in Acquisitions => \A v \in late : v.owner = o /\ v.op \in Acquisitions => v = w
       /\ w.op \in FinalWrites => Past(o)
       /\ session[o].phase = "idle" => session[o].step = "resolve" /\ w.op \in Acquisitions
  /\ session[o].phase = "idle" /\ session[o].step # "resolve" => lease.owner # o

\* A confirmed holder is the stored holder.
HolderInv(o) ==
  session[o].phase = "held" /\ session[o].health = "CONFIRMED" /\ ~Finalizing(o) /\ ~deleted =>
    isOwnedBy(o) /\ lease.status = "HELD"

\* A session is never ahead of the item it holds, nor are its beats in flight: one
\* that could still land was issued after the last confirmation.
VersionInv(o) ==
  session[o].phase = "held" =>
    /\ isOwnedBy(o) => session[o].version <= lease.version
    /\ isOwnedBy(o) /\ lease.status = "HELD" => session[o].last_confirmed <= lease.heartbeat_at
    /\ \A w \in late : w.owner = o /\ w.op = "heartbeat" =>
         /\ w.version <= session[o].version
         /\ w.version = session[o].version => session[o].last_confirmed <= w.at
    /\ session[o].step \in {"beat", "judge"} => session[o].last_confirmed <= session[o].at

DueInv(o) ==
  Beating(o) /\ session[o].health = "UNCERTAIN" => session[o].due < session[o].last_confirmed + StaleBoundary + TicksPerMs

TimeInv(o) == session[o].last_confirmed <= clock /\ session[o].at <= clock

ReleaseInv(o) ==
  /\ session[o].held /\ session[o].original = "released" => o \in releasedBy
  /\ session[o].held /\ session[o].status = "released" => o \in releasedBy
  /\ lease.status = "RELEASED" /\ lease.owner = o => o \in releasedBy

OwnerInv(o) ==
  PhaseInv(o) /\ LateInv(o) /\ HolderInv(o) /\ VersionInv(o) /\ DueInv(o) /\ TimeInv(o) /\ ReleaseInv(o)

LeaseInv == TypeOK /\ \A o \in Owners : OwnerInv(o)

-----------------------------------------------------------------------------
(* What a conditional write does to the store. *)

Landed(w) == WriteCondition(w) /\ Land(w)
NotLanded == UNCHANGED <<lease, releasedBy>>

\* A write lands and is answered, or it does not land now and may be in flight.
StoreStep(w) ==
  \/ Landed(w) /\ late' = late
  \/ NotLanded /\ late' \in {late, late \cup {w}}

\* An answer tells what the write did unless it is ambiguous (LeaseWriteResult).
LEMMA WriteEffect ==
  ASSUME NEW w, NEW outcome \in Outcomes, Write(w, outcome)
  PROVE  /\ StoreStep(w)
         /\ outcome = "applied" => Landed(w) /\ late' = late
         /\ outcome \in {"condition_failed", "definitive_failure"} => NotLanded /\ late' = late
BY Zenon DEF Write, Outcomes, StoreStep, Landed, NotLanded

\* A landed write leaves a well-typed item (DurableLeaseStore).
LEMMA LandType ==
  ASSUME TypeOK, NEW w \in Writes, Landed(w)
  PROVE  lease' \in Leases /\ releasedBy' \subseteq Owners
<1>1. lease' \in Leases
  <2>1. CASE w.op \in {"acquire", "reacquire"}
    BY <2>1, LeaseAssumption, Zenon DEF Landed, Land, acquiredLeaseItem, Leases, Writes
  <2>2. CASE w.op = "heartbeat"
    <3> DEFINE next == [lease EXCEPT !.version = lease.version + 1]
    <3>1. next \in Leases
      BY DEF TypeOK, Leases
    <3>2. lease' = [next EXCEPT !.heartbeat_at = w.at]
      BY <2>2, Zenon DEF Landed, Land
    <3> QED
      BY Zenon, <3>1, <3>2 DEF Leases, Writes
  <2>3. CASE w.op \in {"release", "markRecoveryRequired"}
    <3>1. PICK status \in {"RELEASED", "RECOVERY_REQUIRED"} :
            lease' = [lease EXCEPT !.version = lease.version + 1, !.status = status, !.heartbeat_at = 0]
      BY <2>3, Zenon DEF Landed, Land
    <3> DEFINE next == [lease EXCEPT !.version = lease.version + 1]
               final == [next EXCEPT !.status = status]
    <3>2. next \in Leases
      BY DEF TypeOK, Leases
    <3>3. final \in Leases
      BY Zenon, <3>2 DEF Leases
    <3>4. lease' = [final EXCEPT !.heartbeat_at = 0]
      BY <3>1, Zenon
    <3>5. 0 \in Times
      BY LeaseAssumption DEF Times
    <3> QED
      BY Zenon, <3>3, <3>4, <3>5 DEF Leases
  <2> QED
    BY <2>1, <2>2, <2>3, Zenon DEF Writes
<1>2. releasedBy' \subseteq Owners
  BY Zenon DEF Landed, Land, TypeOK, Writes
<1> QED
  BY <1>1, <1>2, Zenon

\* The writes in flight stay within their bound.
LEMMA LateType ==
  ASSUME TypeOK, NEW w \in Writes, NEW outcome \in Outcomes, Write(w, outcome)
  PROVE  late' \subseteq Writes /\ IsFiniteSet(late') /\ Cardinality(late') <= MaxLate
<1>1. CASE late' = late
  BY <1>1, Zenon DEF TypeOK
<1>2. CASE late' = late \cup {w} /\ Cardinality(late) < MaxLate
  <2>1. IsFiniteSet(late') /\ (Cardinality(late') = Cardinality(late) \/ Cardinality(late') = Cardinality(late) + 1)
    BY <1>2, FS_AddElement, Zenon DEF TypeOK
  <2>2. Cardinality(late) \in Nat
    BY FS_CardinalityType, Zenon DEF TypeOK
  <2> QED
    BY <1>2, <2>1, <2>2, LeaseAssumption DEF TypeOK
<1> QED
  BY <1>1, <1>2, Zenon DEF Write, Outcomes

\* A write of a session is a well-typed write.
LEMMA RequestType ==
  ASSUME TypeOK, NEW o \in Owners, NEW op \in {"acquire", "reacquire", "heartbeat", "release", "markRecoveryRequired"}
  PROVE  Request(o, op) \in Writes /\ Request(o, op).owner = o
BY Zenon DEF TypeOK, Request, Writes, Sessions

\* One conditional write of a session keeps the store well typed.
LEMMA WriteType ==
  ASSUME TypeOK, NEW o \in Owners, NEW op \in {"acquire", "reacquire", "heartbeat", "release", "markRecoveryRequired"},
         NEW outcome \in Outcomes, Write(Request(o, op), outcome)
  PROVE  /\ lease' \in Leases /\ releasedBy' \subseteq Owners
         /\ late' \subseteq Writes /\ IsFiniteSet(late') /\ Cardinality(late') <= MaxLate
<1> DEFINE w == Request(o, op)
<1>1. w \in Writes
  BY RequestType, Zenon
<1>2. StoreStep(w)
  BY WriteEffect, Zenon
<1> HIDE DEF w
<1>3. lease' \in Leases /\ releasedBy' \subseteq Owners
  BY <1>1, <1>2, LandType, Zenon DEF StoreStep, NotLanded, TypeOK
<1> QED
  BY <1>1, <1>3, LateType, Zenon DEF w

-----------------------------------------------------------------------------
(* Sessions. *)

\* Durations given in milliseconds are whole numbers of ticks.
LEMMA TicksFacts == HeartbeatInterval \in Nat \ {0} /\ StaleBoundary \in Nat \ {0} /\ TicksPerMs \in Nat \ {0}
BY LeaseAssumption DEF HeartbeatInterval, StaleBoundary, Ticks

\* Longer delays are longer in ticks.
LEMMA MonotoneTicks ==
  ASSUME NEW a \in Nat, NEW b \in Nat, a <= b
  PROVE  Ticks(a) \in Nat /\ Ticks(a) <= Ticks(b)
BY LeaseAssumption DEF Ticks

\* Division rounds down.
LEMMA DivisionFacts ==
  ASSUME NEW x \in Nat, NEW d \in Nat \ {0}
  PROVE  x \div d \in Nat /\ (x \div d) * d <= x
OBVIOUS

\* The timer of the next beat ends within the millisecond of the stale boundary
\* while the session is uncertain (heartbeatDelayMs).
LEMMA DelayFacts ==
  ASSUME NEW s, clock \in Nat, s.last_confirmed \in Nat
  PROVE  /\ Ticks(heartbeatDelayMs(s)) \in 0 .. HeartbeatInterval
         /\ s.health = "UNCERTAIN" /\ clock - s.last_confirmed < StaleBoundary =>
              clock + Ticks(heartbeatDelayMs(s)) < s.last_confirmed + StaleBoundary + TicksPerMs
<1> DEFINE remaining == s.last_confirmed + StaleBoundary - clock
           ms == remainingMs(s)
           delay == heartbeatDelayMs(s)
<1>1. /\ remaining \in Int /\ StaleBoundary \in Nat /\ TicksPerMs \in Nat \ {0}
      /\ HeartbeatIntervalMs \in Nat \ {0}
  BY LeaseAssumption, TicksFacts
<1>2. ms \in Nat /\ (remaining > 0 => Ticks(ms) < remaining + TicksPerMs)
  <2>1. CASE remaining > 0
    <3>1. remaining + TicksPerMs - 1 \in Nat
      BY <1>1, <2>1
    <3>2. ms = (remaining + TicksPerMs - 1) \div TicksPerMs
      BY <2>1 DEF remainingMs
    <3> HIDE DEF remaining, ms
    <3> QED
      BY <1>1, <3>1, <3>2, DivisionFacts DEF Ticks
  <2>2. CASE ~ (remaining > 0)
    BY <2>2 DEF remainingMs
  <2> QED
    BY <2>1, <2>2, Zenon
<1>3. ms = remainingMs(s) /\ delay = IF s.health # "UNCERTAIN" \/ remainingMs(s) >= HeartbeatIntervalMs
                                     THEN HeartbeatIntervalMs ELSE remainingMs(s)
  BY Zenon DEF heartbeatDelayMs
<1> HIDE DEF delay, ms
<1>4. delay \in Nat /\ delay <= HeartbeatIntervalMs /\ (s.health = "UNCERTAIN" => delay <= ms)
  BY <1>1, <1>2, <1>3
<1>5. Ticks(delay) \in Nat /\ Ticks(delay) <= HeartbeatInterval /\ (s.health = "UNCERTAIN" => Ticks(delay) <= Ticks(ms))
  BY <1>1, <1>2, <1>4, MonotoneTicks DEF HeartbeatInterval
<1>6. Ticks(ms) \in Nat
  BY <1>1, <1>2 DEF Ticks
<1>7. s.health = "UNCERTAIN" /\ clock - s.last_confirmed < StaleBoundary =>
        clock + Ticks(delay) < s.last_confirmed + StaleBoundary + TicksPerMs
  BY <1>1, <1>2, <1>5, <1>6
<1> QED
  BY <1>1, <1>5, <1>7, TicksFacts DEF delay

\* The session of an execution that has not begun is well typed.
LEMMA IdleType == IdleSession \in Sessions
BY LeaseAssumption, TicksFacts DEF IdleSession, Sessions, Healths, Closures, Times

\* The next beat is scheduled within the clock's bound (heartbeatDelayMs).
LEMMA ScheduledType ==
  ASSUME NEW s \in Sessions, clock \in Times
  PROVE  Scheduled(s) \in Sessions
<1>1. Ticks(heartbeatDelayMs(s)) \in 0 .. HeartbeatInterval
  <2>1. clock \in Nat /\ s.last_confirmed \in Nat
    BY LeaseAssumption DEF Sessions, Times
  <2> QED
    BY <2>1, DelayFacts, Zenon
<1>2. clock + Ticks(heartbeatDelayMs(s)) \in 0 .. MaxClock + HeartbeatInterval /\ 0 \in 0 .. MaxClock + HeartbeatInterval
  BY <1>1, LeaseAssumption, TicksFacts DEF Times
<1>3. 0 \in Times
  BY LeaseAssumption DEF Times
<1>4. CASE isLost(s.health)
  <2> DEFINE a == [s EXCEPT !.step = "idle"]
             b == [a EXCEPT !.at = 0]
             c == [b EXCEPT !.due = 0]
  <2>1. a \in Sessions
    BY Zenon DEF Sessions
  <2>2. b \in Sessions
    BY Zenon, <1>3, <2>1 DEF Sessions
  <2>3. c \in Sessions
    BY Zenon, <1>2, <2>2 DEF Sessions
  <2>4. Scheduled(s) = [c EXCEPT !.last_confirmed = 0]
    BY <1>4, Zenon DEF Scheduled
  <2> HIDE DEF c
  <2> QED
    BY <1>3, <2>3, <2>4, Zenon DEF Sessions
<1>5. CASE ~isLost(s.health)
  <2> DEFINE a == [s EXCEPT !.step = "idle"]
             b == [a EXCEPT !.at = 0]
  <2>1. a \in Sessions
    BY Zenon DEF Sessions
  <2>2. b \in Sessions
    BY Zenon, <1>3, <2>1 DEF Sessions
  <2>3. Scheduled(s) = [b EXCEPT !.due = clock + Ticks(heartbeatDelayMs(s))]
    BY <1>5, Zenon DEF Scheduled
  <2> HIDE DEF b
  <2> QED
    BY <1>2, <2>2, <2>3, Zenon DEF Sessions
<1> QED
  BY <1>4, <1>5, Zenon

\* Two sessions of one execution that differ in what they know of the item only.
SameButKnowledge(s, t) ==
  /\ t \in Sessions /\ t.phase = s.phase /\ t.held = s.held
  /\ t.original = s.original /\ t.status = s.status
  /\ t.last_confirmed = s.last_confirmed \/ t.health = "CONFIRMED"

\* A beat that landed counts from the instant it was issued (observeHeartbeat).
LEMMA ConfirmedBeat ==
  ASSUME NEW s \in Sessions
  PROVE  /\ SameButKnowledge(s, confirmed(s))
         /\ confirmed(s).health = "CONFIRMED" /\ confirmed(s).version = s.version + 1
         /\ confirmed(s).last_confirmed = s.at
<1> DEFINE a == [s EXCEPT !.health = "CONFIRMED"]
           b == [a EXCEPT !.version = s.version + 1]
<1>1. s.version + 1 \in Nat /\ s.at \in Times
  BY DEF Sessions
<1>2. a \in Sessions
  BY Zenon DEF Healths, Sessions
<1>3. b \in Sessions
  BY Zenon, <1>1, <1>2 DEF Sessions
<1>4. confirmed(s) = [b EXCEPT !.last_confirmed = s.at]
  BY Zenon DEF confirmed
<1>5. confirmed(s) \in Sessions
  BY Zenon, <1>1, <1>3, <1>4 DEF Sessions
<1> QED
  BY <1>5, Zenon DEF confirmed, SameButKnowledge, Sessions

\* A beat that failed leaves the confirmation as it was (observeHeartbeat).
LEMMA FailedBeat ==
  ASSUME NEW s \in Sessions, NEW v \in Nat
  PROVE  /\ SameButKnowledge(s, failed(s, v))
         /\ failed(s, v).health = "UNCERTAIN" /\ failed(s, v).version = v
         /\ failed(s, v).last_confirmed = s.last_confirmed
<1> DEFINE a == [s EXCEPT !.health = "UNCERTAIN"]
<1>1. a \in Sessions
  BY Zenon DEF Healths, Sessions
<1>2. failed(s, v) = [a EXCEPT !.version = v]
  BY Zenon DEF failed
<1>3. failed(s, v) \in Sessions
  BY Zenon, <1>1, <1>2 DEF Sessions
<1> QED
  BY <1>3, Zenon DEF failed, SameButKnowledge, Sessions

\* So does the item of another owner (observeHeartbeat).
LEMMA MismatchBeat ==
  ASSUME NEW s \in Sessions
  PROVE  /\ SameButKnowledge(s, mismatch(s))
         /\ mismatch(s).health = "LOST_OWNERSHIP_MISMATCH" /\ mismatch(s).version = s.version
         /\ mismatch(s).last_confirmed = s.last_confirmed
BY Zenon DEF mismatch, SameButKnowledge, Sessions, Healths

\* How a beat leaves the session: a stale one is lost whatever was observed, and
\* one that stays uncertain beats again by the boundary (nextLeaseHealth).
LEMMA SettledBeat ==
  ASSUME NEW s \in Sessions, NEW observed, SameButKnowledge(s, observed), clock \in Times,
         NEW t, t = Scheduled(nextLeaseHealth(s, observed))
  PROVE  /\ t \in Sessions /\ t.phase = s.phase /\ t.held = s.held
         /\ t.original = s.original /\ t.status = s.status /\ t.step = "idle"
         /\ \/ t.health = "LOST_STALE" /\ t.version = s.version /\ t.last_confirmed = 0
            \/ /\ t.health = observed.health /\ t.version = observed.version
               /\ isLost(t.health) => t.last_confirmed = 0
               /\ ~isLost(t.health) => t.last_confirmed = observed.last_confirmed
               /\ /\ observed.health = "UNCERTAIN"
                  /\ observed.last_confirmed = s.last_confirmed
                  => t.due < t.last_confirmed + StaleBoundary + TicksPerMs
<1> USE DEF SameButKnowledge
<1>1. CASE isStale(s)
  <2> DEFINE n == [s EXCEPT !.health = "LOST_STALE"]
  <2>a. n \in Sessions
    BY DEF Healths, Sessions
  <2>b. n.health = "LOST_STALE"
    BY Zenon DEF Sessions
  <2>1. n \in Sessions /\ isLost(n.health) /\ nextLeaseHealth(s, observed) = n
    BY <1>1, <2>a, <2>b, Zenon DEF nextLeaseHealth, isLost
  <2>2. t \in Sessions
    BY <2>1, ScheduledType, Zenon
  <2>3. t = [n EXCEPT !.step = "idle", !.at = 0, !.due = 0, !.last_confirmed = 0]
    BY <2>1, Zenon DEF Scheduled
  <2>4. /\ t.phase = n.phase /\ t.held = n.held /\ t.original = n.original /\ t.status = n.status
        /\ t.step = "idle" /\ t.health = n.health /\ t.version = n.version /\ t.last_confirmed = 0
    BY Zenon, <2>1, <2>3 DEF Sessions
  <2> QED
    BY <2>2, <2>4 DEF Sessions
<1>2. CASE ~isStale(s)
  <2>1. nextLeaseHealth(s, observed) = observed
    BY <1>2, Zenon DEF nextLeaseHealth
  <2>2. t \in Sessions
    BY <2>1, ScheduledType, Zenon
  <2>3. CASE isLost(observed.health)
    <3>1. t = [observed EXCEPT !.step = "idle", !.at = 0, !.due = 0, !.last_confirmed = 0]
      BY <2>1, <2>3, Zenon DEF Scheduled
    <3>2. /\ t.phase = s.phase /\ t.held = s.held /\ t.original = s.original /\ t.status = s.status
          /\ t.step = "idle" /\ t.health = observed.health /\ t.version = observed.version /\ t.last_confirmed = 0
      BY <3>1 DEF Sessions
    <3> QED
      BY <2>2, <2>3, <3>2, Zenon DEF isLost
  <2>4. CASE ~isLost(observed.health)
    <3>1. t = [observed EXCEPT !.step = "idle", !.at = 0, !.due = clock + Ticks(heartbeatDelayMs(observed))]
      BY <2>1, <2>4, Zenon DEF Scheduled
    <3>2. /\ t.phase = s.phase /\ t.held = s.held /\ t.original = s.original /\ t.status = s.status
          /\ t.step = "idle" /\ t.health = observed.health /\ t.version = observed.version
          /\ t.last_confirmed = observed.last_confirmed
          /\ t.due = clock + Ticks(heartbeatDelayMs(observed))
      BY <3>1 DEF Sessions
    <3>3. observed.health = "UNCERTAIN" /\ observed.last_confirmed = s.last_confirmed =>
            clock + Ticks(heartbeatDelayMs(observed)) < s.last_confirmed + StaleBoundary + TicksPerMs
      <4>1. clock \in Nat /\ observed.last_confirmed \in Nat
        BY LeaseAssumption DEF Sessions, Times
      <4>2. ASSUME observed.health = "UNCERTAIN", observed.last_confirmed = s.last_confirmed
            PROVE  clock - observed.last_confirmed < StaleBoundary
        BY <1>2, <4>1, <4>2, TicksFacts DEF isStale
      <4> QED
        BY <4>1, <4>2, DelayFacts, Zenon
    <3> QED
      BY <2>2, <2>4, <3>2, <3>3, Zenon
  <2> QED
    BY <2>3, <2>4, Zenon
<1> QED
  BY <1>1, <1>2, Zenon

-----------------------------------------------------------------------------
(* What a step leaves alone. *)

\* Nothing of an owner changes when neither its session nor the store does.
LEMMA Unmoved ==
  ASSUME TypeOK, NEW p \in Owners, OwnerInv(p), session'[p] = session[p], clock' \in {clock, clock + 1},
         UNCHANGED <<lease, late, deleted, releasedBy>>
  PROVE  OwnerInv(p)'
<1>1. TimeInv(p)'
  BY DEF OwnerInv, TimeInv, TypeOK, Sessions, Times
<1> QED
  BY <1>1 DEF OwnerInv, PhaseInv, LateInv, HolderInv, VersionInv, DueInv, ReleaseInv, Past, Finalizing,
              isOwnedBy, Beating, isLost

\* A write of another owner lands on no item this one holds, and leaves what is
\* known of this one's item true (the conditions of DurableLeaseStore).
LEMMA OtherOwner ==
  ASSUME TypeOK, NEW p \in Owners, OwnerInv(p), NEW w \in Writes, w.owner # p,
         session'[p] = session[p], UNCHANGED <<clock, deleted>>,
         Landed(w) \/ NotLanded, late' \subseteq late \cup {w}
  PROVE  OwnerInv(p)'
<1> USE DEF OwnerInv
<1>1. lease' = lease \/ lease'.owner = w.owner
  <2>1. CASE NotLanded
    BY <2>1, Zenon DEF NotLanded
  <2>2. CASE Landed(w) /\ w.op \in {"acquire", "reacquire"}
    BY <2>2, Zenon DEF Landed, Land, acquiredLeaseItem
  <2>3. CASE Landed(w) /\ w.op \in {"heartbeat", "release", "markRecoveryRequired"}
    <3>1. lease.owner = w.owner
      BY <2>3, Zenon DEF Landed, WriteCondition, ownedAt
    <3>2. lease'.owner = lease.owner
      BY <2>3, Zenon DEF Landed, Land, TypeOK, Leases
    <3> QED
      BY <3>1, <3>2, Zenon
  <2> QED
    BY <2>1, <2>2, <2>3, Zenon DEF Writes
<1>2. lease.owner = p /\ lease.status \in {"HELD", "RECOVERY_REQUIRED"} => lease' = lease
  BY Zenon DEF NotLanded, Landed, Land, WriteCondition, ownedAt, sameReleasedItem, Writes
<1>3. releasedBy \subseteq releasedBy'
  BY Zenon DEF NotLanded, Landed, Land
<1>4. \A v \in late' : v.owner = p => v \in late
  BY Zenon
<1>5. PhaseInv(p)' /\ DueInv(p)' /\ TimeInv(p)'
  BY Zenon DEF PhaseInv, DueInv, TimeInv, Beating, isLost
<1>6. LateInv(p)'
  BY <1>1, <1>4, Zenon DEF LateInv, Past, Finalizing
<1>7. HolderInv(p)'
  BY <1>2, Zenon DEF HolderInv, Finalizing, isOwnedBy
<1>8. VersionInv(p)'
  BY <1>1, <1>4, Zenon DEF VersionInv, isOwnedBy
<1>9. ReleaseInv(p)'
  BY <1>1, <1>3, Zenon DEF ReleaseInv
<1> QED
  BY <1>5, <1>6, <1>7, <1>8, <1>9, Zenon

-----------------------------------------------------------------------------
(* The steps of an owner. *)

\* The step of an owner moves its own session only and keeps its invariant.
Moved(o) ==
  /\ session' \in [Owners -> Sessions]
  /\ \A p \in Owners \ {o} : session'[p] = session[p]
  /\ OwnerInv(o)'

\* A session is replaced as a whole and alone.
LEMMA Becomes ==
  ASSUME TypeOK, NEW o \in Owners, NEW s, Become(o, s)
  PROVE  /\ session'[o] = s
         /\ \A p \in Owners \ {o} : session'[p] = session[p]
         /\ s \in Sessions => session' \in [Owners -> Sessions]
BY Zenon DEF TypeOK, Become

\* Acquire begins the acquisition of an execution (acquireLease).
LEMMA AcquireMoves ==
  ASSUME TypeOK, NEW o \in Owners, OwnerInv(o), Acquire(o)
  PROVE  Moved(o)
<1> DEFINE a == [session[o] EXCEPT !.step = "put"]
           t == [a EXCEPT !.at = clock]
<1>1. session[o] \in Sessions /\ clock \in Times
  BY Zenon DEF TypeOK
<1>2. a \in Sessions
  BY <1>1, Zenon DEF Sessions
<1>3. t \in Sessions
  BY Zenon, <1>1, <1>2 DEF Sessions
<1>4. Become(o, t)
  BY Zenon DEF Acquire
<1>5. t.phase = "idle" /\ t.step = "put" /\ t.held = session[o].held /\ t.at = clock
      /\ t.last_confirmed = session[o].last_confirmed
      /\ t.original = session[o].original /\ t.status = session[o].status
  BY <1>1, <1>2, Zenon DEF Acquire, Sessions
<1> HIDE DEF t
<1>6. session'[o] = t
  BY <1>4, Becomes, Zenon
<1>7. OwnerInv(o)'
  BY <1>1, <1>5, <1>6 DEF Acquire, OwnerInv, PhaseInv, LateInv, HolderInv, VersionInv, DueInv, TimeInv, ReleaseInv,
     Times, Past, Finalizing, isOwnedBy, Beating, Acquisitions, FinalSteps
<1> QED
  BY <1>3, <1>4, <1>7, Becomes, Zenon DEF Moved

\* What a session may observe of the store at the end of a beat.
Observable(o, observed) ==
  /\ observed \in {session[o], confirmed(session[o]), mismatch(session[o])} \cup {failed(session[o], v) : v \in Nat}
  /\ observed.health = "CONFIRMED" /\ ~deleted => isOwnedBy(o) /\ lease.status = "HELD"
  /\ observed.version >= session[o].version
  /\ isOwnedBy(o) => observed.version <= lease'.version
  /\ isOwnedBy(o) /\ lease.status = "HELD" =>
       /\ session[o].last_confirmed <= lease'.heartbeat_at
       /\ observed.health = "CONFIRMED" => observed.last_confirmed <= lease'.heartbeat_at
  /\ observed.last_confirmed # session[o].last_confirmed =>
       observed.version > session[o].version /\ observed.last_confirmed = session[o].at

\* A session whose beat settled keeps its invariant, given what was observed of
\* the store it now sees (nextLeaseHealth, heartbeatDelayMs).
LEMMA BeatSettles ==
  ASSUME TypeOK, NEW o \in Owners, OwnerInv(o), session[o].phase = "held", ~Finalizing(o),
         NEW observed, Observable(o, observed), settleBeat(o, observed),
         UNCHANGED <<late, clock, deleted>>, lease' \in Leases,
         lease'.owner = lease.owner, lease'.status = lease.status, releasedBy \subseteq releasedBy'
  PROVE  Moved(o)
<1> DEFINE s == session[o]
           t == Scheduled(nextLeaseHealth(s, observed))
<1>1. s \in Sessions /\ clock \in Times
  BY Zenon DEF TypeOK
<1>2. SameButKnowledge(s, observed)
  <2>1. s.version \in Nat /\ SameButKnowledge(s, s)
    BY <1>1, Zenon DEF Sessions, SameButKnowledge
  <2> QED
    BY <1>1, <2>1, ConfirmedBeat, FailedBeat, MismatchBeat, Zenon DEF Observable
<1>3. /\ t \in Sessions /\ t.phase = s.phase /\ t.held = s.held
      /\ t.original = s.original /\ t.status = s.status /\ t.step = "idle"
      /\ \/ t.health = "LOST_STALE" /\ t.version = s.version /\ t.last_confirmed = 0
         \/ /\ t.health = observed.health /\ t.version = observed.version
            /\ isLost(t.health) => t.last_confirmed = 0
            /\ ~isLost(t.health) => t.last_confirmed = observed.last_confirmed
            /\ /\ observed.health = "UNCERTAIN"
               /\ observed.last_confirmed = s.last_confirmed
               => t.due < t.last_confirmed + StaleBoundary + TicksPerMs
  BY <1>1, <1>2, SettledBeat
<1>4. Become(o, t)
  BY Zenon DEF settleBeat
<1> HIDE DEF t
<1>5. session'[o] = t
  BY <1>4, Becomes, Zenon
<1>6. PhaseInv(o)' /\ DueInv(o)'
  <2>1. t.health = "UNCERTAIN" => observed.health = "UNCERTAIN" /\ t.last_confirmed = observed.last_confirmed
    BY <1>3, Zenon DEF isLost
  <2>2. observed.health = "UNCERTAIN" => observed.last_confirmed = s.last_confirmed
    BY <1>2, Zenon DEF SameButKnowledge
  <2> QED
    BY <1>3, <1>5, <2>1, <2>2, Zenon DEF PhaseInv, DueInv, Beating, FinalSteps, isLost
<1>a. TimeInv(o)'
  <2>1. t.at = 0
    BY <1>1, <1>2, Zenon DEF SameButKnowledge, t, Scheduled, nextLeaseHealth, Sessions
  <2> QED
    BY <1>1, <1>2, <1>3, <1>5, <2>1 DEF Observable, SameButKnowledge, OwnerInv, TimeInv, Times, Sessions
<1>7. LateInv(o)'
  BY <1>3, <1>5, Zenon DEF OwnerInv, LateInv, Past, Finalizing
<1>8. HolderInv(o)'
  BY <1>3, <1>5, Zenon DEF Observable, HolderInv, isOwnedBy
<1>9. VersionInv(o)'
  <2>1. t.version >= s.version /\ t.version <= observed.version /\ t.version \in Nat /\ s.version \in Nat
    BY <1>1, <1>2, <1>3 DEF Observable, SameButKnowledge, Sessions
  <2>2. \/ t.last_confirmed = 0
        \/ /\ t.last_confirmed = observed.last_confirmed /\ t.version = observed.version
           /\ (observed.last_confirmed = s.last_confirmed \/ observed.health = "CONFIRMED")
    BY <1>2, <1>3, Zenon DEF isLost, SameButKnowledge
  <2>3. /\ isOwnedBy(o)' => t.version <= lease'.version
        /\ isOwnedBy(o)' /\ lease'.status = "HELD" => t.last_confirmed <= lease'.heartbeat_at
    BY <1>1, <1>2, <1>3, <2>1, <2>2 DEF Observable, SameButKnowledge, isOwnedBy, Leases, Times, Sessions
  <2>4. ASSUME NEW w \in late', w.owner = o, w.op = "heartbeat"
        PROVE  w.version <= t.version /\ (w.version = t.version => t.last_confirmed <= w.at)
    <3>1. w \in late /\ w \in Writes
      BY <2>4, Zenon DEF TypeOK
    <3>2. w.version <= s.version /\ (w.version = s.version => s.last_confirmed <= w.at)
      BY <2>4, <3>1, Zenon DEF OwnerInv, VersionInv
    <3> QED
      BY <1>1, <1>2, <2>1, <2>2, <3>1, <3>2 DEF Observable, SameButKnowledge, Writes, Times, Sessions
  <2> QED
    BY <1>3, <1>5, <2>3, <2>4, Zenon DEF VersionInv
<1>10. ReleaseInv(o)'
  BY <1>3, <1>5, Zenon DEF OwnerInv, ReleaseInv
<1>11. OwnerInv(o)'
  BY <1>6, <1>a, <1>7, <1>8, <1>9, <1>10, Zenon DEF OwnerInv
<1> QED
  BY <1>3, <1>4, <1>11, Becomes, Zenon DEF Moved

\* A beat that is due begins, or finds the session stale (heartbeatOnce).
LEMMA HeartbeatDueMoves ==
  ASSUME TypeOK, NEW o \in Owners, OwnerInv(o), HeartbeatDue(o)
  PROVE  Moved(o)
<1> DEFINE s == session[o]
<1>1. s \in Sessions /\ clock \in Times /\ lease \in Leases
  BY Zenon DEF TypeOK
<1>2. s.phase = "held" /\ s.step = "idle" /\ ~Finalizing(o)
  BY Zenon DEF HeartbeatDue, Beating, Finalizing, FinalSteps
<1>3. CASE isStale(s)
  <2>1. settleBeat(o, s) /\ UNCHANGED <<lease, late, clock, deleted, releasedBy>>
    BY <1>3, Zenon DEF HeartbeatDue
  <2>2. s.health = "CONFIRMED" /\ ~deleted => isOwnedBy(o) /\ lease.status = "HELD"
    BY <1>2, Zenon DEF OwnerInv, HolderInv
  <2>3. (isOwnedBy(o) => s.version <= lease.version)
      /\ (isOwnedBy(o) /\ lease.status = "HELD" => s.last_confirmed <= lease.heartbeat_at)
    BY <1>2, Zenon DEF OwnerInv, VersionInv
  <2>4. s.version >= s.version
    BY <1>1 DEF Sessions
  <2>5. Observable(o, s)
    BY <2>1, <2>2, <2>3, <2>4, Zenon DEF Observable, OwnerInv, VersionInv
  <2> QED
    BY <1>1, <1>2, <2>1, <2>5, BeatSettles, Zenon
<1>4. CASE ~isStale(s)
  <2> DEFINE a == [s EXCEPT !.step = "beat"]
             t == [a EXCEPT !.at = clock]
  <2>1. a \in Sessions
    BY <1>1, Zenon DEF Sessions
  <2>2. t \in Sessions
    BY Zenon, <1>1, <2>1 DEF Sessions
  <2>3. Become(o, t) /\ UNCHANGED <<lease, late, clock, deleted, releasedBy>>
    BY <1>4, Zenon DEF HeartbeatDue
  <2>4. t.phase = "held" /\ t.step = "beat" /\ t.held = s.held /\ t.at = clock /\ t.health = s.health
        /\ t.last_confirmed = s.last_confirmed /\ t.version = s.version
        /\ t.original = s.original /\ t.status = s.status
    BY <1>1, <1>2, <2>1, Zenon DEF Sessions
  <2> HIDE DEF t
  <2>5. session'[o] = t
    BY <2>3, Becomes, Zenon
  <2>6. OwnerInv(o)'
    BY <1>1, <1>2, <2>3, <2>4, <2>5 DEF OwnerInv, PhaseInv, LateInv, HolderInv, VersionInv, DueInv, TimeInv, ReleaseInv,
       Times, Past, Finalizing, isOwnedBy, Beating, FinalSteps
  <2> QED
    BY <2>2, <2>3, <2>6, Becomes, Zenon DEF Moved
<1> QED
  BY <1>3, <1>4, Zenon

\* The read after an unanswered beat: it landed, or the item is judged
\* (judgeHeartbeat).
LEMMA JudgeHeartbeatMoves ==
  ASSUME TypeOK, NEW o \in Owners, OwnerInv(o), NEW readable \in BOOLEAN, JudgeHeartbeat(o, readable)
  PROVE  Moved(o)
<1> DEFINE s == session[o]
<1>1. s \in Sessions /\ lease \in Leases /\ s.version \in Nat /\ lease.version \in Nat /\ s.version >= s.version
  BY DEF TypeOK, Sessions, Leases
<1>2. s.phase = "held" /\ ~Finalizing(o)
  BY Zenon DEF JudgeHeartbeat, OwnerInv, PhaseInv, Finalizing, FinalSteps
<1>3. UNCHANGED <<lease, late, clock, deleted, releasedBy>>
  BY Zenon DEF JudgeHeartbeat
<1>4. (isOwnedBy(o) => s.version <= lease.version)
      /\ (isOwnedBy(o) /\ lease.status = "HELD" => s.last_confirmed <= lease.heartbeat_at)
  BY <1>2, Zenon DEF OwnerInv, VersionInv
<1>5. CASE settleBeat(o, failed(s, s.version))
  <2>1. Observable(o, failed(s, s.version))
    BY <1>1, <1>3, <1>4, FailedBeat, Zenon DEF Observable
  <2> QED
    BY <1>1, <1>2, <1>3, <1>5, <2>1, BeatSettles, Zenon
<1>6. CASE heartbeatLanded(o) /\ settleBeat(o, confirmed(s))
  <2>1. isOwnedBy(o) /\ lease.status = "HELD" /\ lease.version = s.version + 1 /\ lease.heartbeat_at = s.at
    BY <1>6, Zenon DEF heartbeatLanded
  <2>2. s.at <= lease.heartbeat_at /\ s.version + 1 <= lease.version /\ s.version + 1 > s.version
    BY <1>1, <2>1 DEF Sessions, Times
  <2>3. Observable(o, confirmed(s))
    BY <1>1, <1>3, <1>4, <2>1, <2>2, ConfirmedBeat, Zenon DEF Observable
  <2> QED
    BY <1>1, <1>2, <1>3, <1>6, <2>3, BeatSettles, Zenon
<1>7. CASE isOwnedBy(o) /\ lease.status = "HELD" /\ settleBeat(o, failed(s, lease.version))
  <2>1. Observable(o, failed(s, lease.version))
    BY <1>1, <1>3, <1>4, <1>7, FailedBeat DEF Observable
  <2> QED
    BY <1>1, <1>2, <1>3, <1>7, <2>1, BeatSettles, Zenon
<1>8. CASE ~(isOwnedBy(o) /\ lease.status = "HELD") /\ settleBeat(o, mismatch(s))
  <2>1. Observable(o, mismatch(s))
    BY <1>1, <1>3, <1>4, <1>8, MismatchBeat, Zenon DEF Observable
  <2> QED
    BY <1>1, <1>2, <1>3, <1>8, <2>1, BeatSettles, Zenon
<1> QED
  BY <1>5, <1>6, <1>7, <1>8, Zenon DEF JudgeHeartbeat, judgeItem

\* A beat lands only on the item its session knows (writeHeartbeat's condition).
LEMMA BeatLands ==
  ASSUME TypeOK, NEW o \in Owners, Landed(Request(o, "heartbeat"))
  PROVE  /\ isOwnedBy(o) /\ lease.status = "HELD" /\ lease.version = session[o].version
         /\ lease'.owner = lease.owner /\ lease'.status = lease.status
         /\ lease'.version = lease.version + 1 /\ lease'.heartbeat_at = session[o].at
         /\ releasedBy' = releasedBy
<1> DEFINE w == Request(o, "heartbeat")
<1>1. w.op = "heartbeat" /\ w.owner = o /\ w.version = session[o].version /\ w.at = session[o].at
  BY Zenon DEF Request
<1> HIDE DEF w
<1>2. WriteCondition(w) /\ Land(w)
  BY Zenon DEF Landed, w
<1>3. lease.owner = o /\ lease.status = "HELD" /\ lease.version = session[o].version
  BY <1>1, <1>2, Zenon DEF WriteCondition, ownedAt
<1>4. lease' = [lease EXCEPT !.version = lease.version + 1, !.heartbeat_at = session[o].at] /\ releasedBy' = releasedBy
  BY <1>1, <1>2, Zenon DEF Land
<1> QED
  BY <1>3, <1>4, Zenon DEF isOwnedBy, TypeOK, Leases

\* A beat is written and settles on its answer, or is judged by a read when the
\* answer does not tell (beat).
LEMMA WriteHeartbeatMoves ==
  ASSUME TypeOK, NEW o \in Owners, OwnerInv(o), NEW outcome \in Outcomes, WriteHeartbeat(o, outcome)
  PROVE  Moved(o)
<1> DEFINE s == session[o]
           w == Request(o, "heartbeat")
<1>1. s \in Sessions /\ lease \in Leases /\ s.version \in Nat /\ lease.version \in Nat /\ s.version >= s.version
  BY DEF TypeOK, Sessions, Leases
<1>2. s.phase = "held" /\ s.step = "beat" /\ ~Finalizing(o)
  BY Zenon DEF WriteHeartbeat, OwnerInv, PhaseInv, Finalizing, FinalSteps
<1>3. Write(w, outcome) /\ UNCHANGED <<clock, deleted>>
  BY Zenon DEF WriteHeartbeat
<1>4. w.op = "heartbeat" /\ w.owner = o /\ w.version = s.version /\ w.at = s.at
  BY Zenon DEF Request
<1>5. lease' \in Leases /\ releasedBy' \subseteq Owners
  BY <1>3, WriteType, Zenon
<1>6. (isOwnedBy(o) => s.version <= lease.version)
      /\ (isOwnedBy(o) /\ lease.status = "HELD" => s.last_confirmed <= lease.heartbeat_at)
  BY <1>2, Zenon DEF OwnerInv, VersionInv
<1>7. s.last_confirmed <= s.at
  BY <1>2, Zenon DEF OwnerInv, VersionInv
<1>8. /\ outcome = "applied" => Landed(w) /\ late' = late
      /\ outcome \in {"condition_failed", "definitive_failure"} => NotLanded /\ late' = late
      /\ StoreStep(w)
  BY <1>3, WriteEffect, Zenon
<1> HIDE DEF w
<1>9. CASE outcome = "applied"
  <2>1. Landed(w) /\ late' = late /\ settleBeat(o, confirmed(s))
    BY <1>8, <1>9, Zenon DEF WriteHeartbeat
  <2>2. /\ isOwnedBy(o) /\ lease.status = "HELD" /\ lease.version = s.version
        /\ lease'.owner = lease.owner /\ lease'.status = lease.status
        /\ lease'.version = lease.version + 1 /\ lease'.heartbeat_at = s.at
        /\ releasedBy' = releasedBy
    BY <2>1, BeatLands, Zenon DEF w
  <2>3. s.at <= lease'.heartbeat_at /\ s.version + 1 <= lease'.version /\ s.version + 1 > s.version
    BY <1>1, <2>2 DEF Sessions, Times
  <2>4. Observable(o, confirmed(s))
    BY <1>1, <1>7, <2>2, <2>3, ConfirmedBeat DEF Observable
  <2> QED
    BY <1>2, <1>3, <1>5, <2>1, <2>2, <2>4, BeatSettles, Zenon
<1>10. CASE outcome = "definitive_failure" \/ (outcome = "condition_failed" /\ lease.status # "ABSENT")
  <2>1. UNCHANGED <<lease, late, clock, deleted, releasedBy>>
    BY <1>3, <1>8, <1>10, Zenon DEF NotLanded
  <2>2. \/ settleBeat(o, failed(s, s.version))
        \/ isOwnedBy(o) /\ lease.status = "HELD" /\ settleBeat(o, failed(s, lease.version))
        \/ ~(isOwnedBy(o) /\ lease.status = "HELD") /\ settleBeat(o, mismatch(s))
    BY <1>10, Zenon DEF WriteHeartbeat, judgeItem
  <2>3. Observable(o, failed(s, s.version))
    BY <1>1, <1>6, <2>1, FailedBeat, Zenon DEF Observable
  <2>4. isOwnedBy(o) /\ lease.status = "HELD" => Observable(o, failed(s, lease.version))
    BY <1>1, <1>6, <2>1, FailedBeat DEF Observable
  <2>5. ~(isOwnedBy(o) /\ lease.status = "HELD") => Observable(o, mismatch(s))
    BY <1>1, <1>6, <2>1, MismatchBeat, Zenon DEF Observable
  <2> QED
    BY <1>1, <1>2, <2>1, <2>2, <2>3, <2>4, <2>5, BeatSettles, Zenon
<1>11. CASE outcome = "ambiguous" \/ (outcome = "condition_failed" /\ lease.status = "ABSENT")
  <2> DEFINE t == [s EXCEPT !.step = "judge"]
  <2>1. Become(o, t)
    BY <1>11, Zenon DEF WriteHeartbeat
  <2>2. t \in Sessions
    BY <1>1, Zenon DEF Sessions
  <2>3. t.phase = "held" /\ t.step = "judge" /\ t.held = s.held /\ t.at = s.at /\ t.health = s.health
        /\ t.last_confirmed = s.last_confirmed /\ t.version = s.version
        /\ t.original = s.original /\ t.status = s.status
    BY <1>1, <1>2, Zenon DEF Sessions
  <2> HIDE DEF t
  <2>4. session'[o] = t
    BY <2>1, Becomes, Zenon
  <2>5. /\ lease'.owner = lease.owner /\ lease'.status = lease.status /\ releasedBy' = releasedBy
        /\ late' \subseteq late \cup {w}
        /\ lease' = lease \/ (lease'.version = lease.version + 1 /\ lease'.heartbeat_at = s.at)
    <3>1. CASE Landed(w) /\ late' = late
      BY <3>1, BeatLands, Zenon DEF w
    <3>2. CASE NotLanded /\ late' \in {late, late \cup {w}}
      BY <3>2, Zenon DEF NotLanded
    <3> QED
      BY <1>8, <3>1, <3>2, Zenon DEF StoreStep
  <2>6. PhaseInv(o)' /\ HolderInv(o)' /\ DueInv(o)' /\ TimeInv(o)' /\ ReleaseInv(o)'
    BY <1>2, <1>3, <2>3, <2>4, <2>5, Zenon DEF OwnerInv, PhaseInv, HolderInv, DueInv, TimeInv, ReleaseInv, Finalizing,
       FinalSteps, Beating, isOwnedBy
  <2>7. LateInv(o)'
    BY <1>2, <1>4, <2>3, <2>4, <2>5, Zenon DEF OwnerInv, LateInv, Past, Finalizing, FinalSteps, Acquisitions, FinalWrites
  <2>8. VersionInv(o)'
    <3>1. /\ isOwnedBy(o)' => t.version <= lease'.version
          /\ isOwnedBy(o)' /\ lease'.status = "HELD" => t.last_confirmed <= lease'.heartbeat_at
      BY <1>1, <1>6, <1>7, <2>3, <2>5 DEF isOwnedBy
    <3>2. ASSUME NEW v \in late', v.owner = o, v.op = "heartbeat"
          PROVE  v.version <= t.version /\ (v.version = t.version => t.last_confirmed <= v.at)
      <4>1. CASE v \in late
        BY <1>2, <2>3, <3>2, <4>1, Zenon DEF OwnerInv, VersionInv
      <4>2. CASE v = w
        BY <1>1, <1>4, <1>7, <2>3, <4>2, Zenon
      <4> QED
        BY <2>5, <3>2, <4>1, <4>2, Zenon
    <3> QED
      BY <1>7, <2>3, <2>4, <3>1, <3>2, Zenon DEF VersionInv
  <2> QED
    BY <2>1, <2>2, <2>6, <2>7, <2>8, Becomes, Zenon DEF Moved, OwnerInv
<1> QED
  BY <1>9, <1>10, <1>11, Zenon DEF Outcomes

\* The session of an execution whose acquisition succeeded (acquireLease).
LEMMA HeldSession ==
  ASSUME NEW s \in Sessions, clock \in Times
  PROVE  /\ Held(s) \in Sessions
         /\ Held(s).phase = "held" /\ Held(s).step = "idle" /\ Held(s).health = "CONFIRMED" /\ Held(s).version = 1
         /\ Held(s).last_confirmed = s.at /\ Held(s).at = 0
         /\ Held(s).original = "none" /\ Held(s).status = "none"
<1> DEFINE a == [IdleSession EXCEPT !.phase = "held"]
           b == [a EXCEPT !.held = TRUE]
           c == [b EXCEPT !.last_confirmed = s.at]
<1>1. a \in Sessions
  BY IdleType, Zenon DEF Sessions
<1>2. b \in Sessions
  BY Zenon, <1>1 DEF Sessions
<1>3. c \in Sessions
  BY Zenon, <1>2 DEF Sessions
<1>4. c.phase = "held" /\ c.health = "CONFIRMED" /\ c.version = 1 /\ c.last_confirmed = s.at
      /\ c.original = "none" /\ c.status = "none"
  BY Zenon DEF IdleSession
<1>5. Held(s) = Scheduled(c)
  BY Zenon DEF Held
<1> HIDE DEF c
<1>6. ~isLost(c.health)
  BY <1>4, Zenon DEF isLost
<1>7. Held(s) = [c EXCEPT !.step = "idle", !.at = 0, !.due = clock + Ticks(heartbeatDelayMs(c))]
  BY <1>5, <1>6, Zenon DEF Scheduled
<1>8. Held(s) \in Sessions
  BY <1>3, <1>5, ScheduledType, Zenon
<1> QED
  BY <1>3, <1>4, <1>7, <1>8 DEF Sessions

\* The session of an execution that was refused, or cannot tell (acquireLease).
LEMMA NotAcquiredSession ==
  ASSUME NEW phase \in {"refused", "unresolved"}, NEW ambiguous \in BOOLEAN
  PROVE  /\ NotAcquired(phase, ambiguous) \in Sessions
         /\ NotAcquired(phase, ambiguous).phase = phase /\ NotAcquired(phase, ambiguous).step = "idle"
         /\ ~NotAcquired(phase, ambiguous).held /\ NotAcquired(phase, ambiguous).at = 0
         /\ NotAcquired(phase, ambiguous).last_confirmed = 0
<1> DEFINE a == [IdleSession EXCEPT !.phase = phase]
<1>1. a \in Sessions
  BY IdleType, Zenon DEF Sessions
<1>2. NotAcquired(phase, ambiguous) = [a EXCEPT !.writeAmbiguous = ambiguous]
  BY Zenon DEF NotAcquired
<1>3. a.phase = phase /\ a.step = "idle" /\ ~a.held /\ a.at = 0 /\ a.last_confirmed = 0
  BY Zenon DEF IdleSession
<1> HIDE DEF a
<1>4. NotAcquired(phase, ambiguous) \in Sessions
  BY <1>1, <1>2, Zenon DEF Sessions
<1> QED
  BY <1>1, <1>2, <1>3, <1>4, Zenon DEF Sessions

\* The session of a finalized package (finalizeLease, repairLease).
LEMMA FinalizedSession ==
  ASSUME NEW held \in BOOLEAN,
         NEW original \in {"none", "released", "recovery_required", "unverified"},
         NEW status \in {"none", "released", "recovery_required", "unverified"}
  PROVE  LET t == Finalized(held, original, status)
         IN  /\ t \in Sessions /\ t.phase = "finalized" /\ t.step = "idle" /\ t.held = held
             /\ t.original = original /\ t.status = status /\ t.at = 0 /\ t.last_confirmed = 0
<1> DEFINE a == [IdleSession EXCEPT !.phase = "finalized"]
           b == [a EXCEPT !.held = held]
           c == [b EXCEPT !.original = original]
<1>1. a \in Sessions
  BY IdleType, Zenon DEF Sessions
<1>2. b \in Sessions
  BY Zenon, <1>1 DEF Sessions
<1>3. c \in Sessions
  BY Zenon, <1>2 DEF Sessions
<1>4. Finalized(held, original, status) = [c EXCEPT !.status = status]
  BY Zenon DEF Finalized
<1>5. c.phase = "finalized" /\ c.step = "idle" /\ c.held = held /\ c.original = original /\ c.at = 0 /\ c.last_confirmed = 0
  BY Zenon DEF IdleSession
<1> HIDE DEF c
<1>6. Finalized(held, original, status) \in Sessions
  BY <1>3, <1>4, Zenon DEF Sessions
<1> QED
  BY <1>3, <1>4, <1>5, <1>6 DEF Sessions

\* What the end of an acquisition, a finalization, a recovery and a crash have in
\* common: the session stays or gets out of the way of its beats, ...
Ending(o, t) ==
  /\ t \in Sessions /\ t.at <= clock /\ t.last_confirmed <= clock
  /\ t.phase = "refused" => ~t.held
  /\ \/ t.step = "idle" /\ t.phase \in {"refused", "unresolved", "finalized", "crashed"}
     \/ t.step \in FinalSteps /\ t.phase \in {"unresolved", "recovering"}
     \/ /\ t.step \in FinalSteps /\ t.phase = "held" /\ session[o].phase = "held"
        /\ t.last_confirmed = session[o].last_confirmed /\ t.version >= session[o].version
        /\ isOwnedBy(o) => t.version <= lease.version
  /\ Past(o) => t.phase \in {"finalized", "recovering", "crashed"} \/ t.step \in FinalSteps
  /\ t.held /\ "released" \in {t.original, t.status} => o \in releasedBy'

\* ... and the store is as it was or as a final write of the owner leaves it.
StoreEnds(o) ==
  /\ \/ lease' = lease
     \/ /\ isOwnedBy(o) /\ lease'.owner = o /\ lease'.status \in {"RELEASED", "RECOVERY_REQUIRED"}
        /\ lease'.version = lease.version + 1
  /\ \A w \in late' : w.owner = o => w \in late \/ (Finalizing(o) /\ w.op \in FinalWrites)
  /\ releasedBy \subseteq releasedBy'
  /\ lease'.status = "RELEASED" /\ lease'.owner = o => o \in releasedBy'

\* An owner that ends keeps its invariant.
LEMMA EndMoves ==
  ASSUME TypeOK, NEW o \in Owners, OwnerInv(o), NEW t, Ending(o, t), StoreEnds(o), Become(o, t),
         UNCHANGED <<clock, deleted>>
  PROVE  Moved(o)
<1> DEFINE s == session[o]
<1>1. session'[o] = t
  BY Becomes, Zenon
<1>2. t.phase # "idle" /\ t.step \in {"idle"} \cup FinalSteps
  BY Zenon DEF Ending
<1>3. PhaseInv(o)' /\ HolderInv(o)' /\ DueInv(o)' /\ TimeInv(o)' /\ ReleaseInv(o)'
  BY <1>1, Zenon DEF Ending, StoreEnds, OwnerInv, PhaseInv, HolderInv, DueInv, TimeInv, ReleaseInv, Finalizing, FinalSteps, Beating
<1>4. LateInv(o)'
  <2>1. ASSUME NEW w \in late', w.owner = o, w.op \in Acquisitions
        PROVE  /\ w \in late /\ lease'.owner # o /\ t.phase # "held"
               /\ \A v \in late' : v.owner = o /\ v.op \in Acquisitions => v = w
    <3>1. w \in late
      BY <2>1, Zenon DEF StoreEnds, Acquisitions, FinalWrites
    <3>2. lease.owner # o /\ s.phase # "held"
      BY <2>1, <3>1, Zenon DEF OwnerInv, LateInv
    <3>3. lease'.owner # o /\ t.phase # "held"
      BY <3>2, Zenon DEF StoreEnds, Ending, FinalSteps, isOwnedBy
    <3>4. ASSUME NEW v \in late', v.owner = o, v.op \in Acquisitions PROVE v = w
      BY <2>1, <3>1, <3>4, Zenon DEF StoreEnds, Acquisitions, FinalWrites, OwnerInv, LateInv
    <3> QED
      BY <3>1, <3>3, <3>4, Zenon
  <2>2. ASSUME NEW w \in late', w.owner = o, w.op \in FinalWrites
        PROVE  Past(o)'
    <3>1. Past(o)
      BY <2>2, Zenon DEF StoreEnds, OwnerInv, LateInv, Past
    <3> QED
      BY <1>1, <3>1, Zenon DEF Ending, Past, Finalizing
  <2> QED
    BY <1>1, <1>2, <2>1, <2>2, Zenon DEF LateInv
<1>5. VersionInv(o)'
  <2>1. CASE t.phase # "held"
    BY <1>1, <2>1, Zenon DEF VersionInv
  <2>2. CASE t.phase = "held"
    <3>1. /\ s.phase = "held" /\ t.last_confirmed = s.last_confirmed /\ t.version >= s.version
          /\ isOwnedBy(o) => t.version <= lease.version
          /\ t.step \in FinalSteps
      BY <2>2, Zenon DEF Ending
    <3>2. isOwnedBy(o)' /\ lease'.status = "HELD" => t.last_confirmed <= lease'.heartbeat_at
      BY <3>1, Zenon DEF StoreEnds, isOwnedBy, OwnerInv, VersionInv
    <3>a. isOwnedBy(o)' => t.version <= lease'.version
      BY <3>1 DEF StoreEnds, isOwnedBy, TypeOK, Leases, Ending, Sessions
    <3>3. ASSUME NEW w \in late', w.owner = o, w.op = "heartbeat"
          PROVE  w.version <= t.version /\ (w.version = t.version => t.last_confirmed <= w.at)
      <4>1. w \in late
        BY <3>3, Zenon DEF StoreEnds, FinalWrites
      <4>2. w.version \in Nat /\ s.version \in Nat /\ t.version \in Nat
        BY <4>1, Zenon DEF TypeOK, Writes, Sessions, Ending
      <4>3. w.version <= s.version /\ (w.version = s.version => s.last_confirmed <= w.at)
        BY <3>1, <3>3, <4>1, Zenon DEF OwnerInv, VersionInv
      <4> HIDE DEF s
      <4> QED
        BY <3>1, <4>2, <4>3
    <3> QED
      BY <1>1, <3>1, <3>2, <3>a, <3>3, Zenon DEF VersionInv, FinalSteps
  <2> QED
    BY <2>1, <2>2, Zenon
<1> QED
  BY <1>3, <1>4, <1>5, Becomes, Zenon DEF Moved, OwnerInv, Ending

\* An execution whose acquisition is in the store, with nothing in flight, holds it.
LEMMA HeldMoves ==
  ASSUME TypeOK, NEW o \in Owners, OwnerInv(o), Become(o, Held(session[o])), UNCHANGED <<clock, deleted>>,
         lease'.owner = o, lease'.status = "HELD", lease'.version = 1, lease'.heartbeat_at = session[o].at,
         \A w \in late' : w.owner # o
  PROVE  Moved(o)
<1> DEFINE s == session[o]
           t == Held(s)
<1>1. s \in Sessions /\ clock \in Times /\ s.at <= clock
  BY Zenon DEF TypeOK, OwnerInv, TimeInv
<1>2. /\ t \in Sessions /\ t.phase = "held" /\ t.step = "idle" /\ t.health = "CONFIRMED" /\ t.version = 1
      /\ t.last_confirmed = s.at /\ t.at = 0 /\ t.original = "none" /\ t.status = "none"
  BY <1>1, HeldSession, Zenon
<1>3. Become(o, t)
  BY Zenon
<1> HIDE DEF t
<1>4. session'[o] = t
  BY <1>3, Becomes, Zenon
<1>5. PhaseInv(o)' /\ LateInv(o)' /\ DueInv(o)' /\ ReleaseInv(o)'
  BY <1>2, <1>4, Zenon DEF PhaseInv, LateInv, DueInv, ReleaseInv, FinalSteps
<1>6. HolderInv(o)' /\ TimeInv(o)'
  BY <1>1, <1>2, <1>4 DEF HolderInv, TimeInv, isOwnedBy, Times
<1>7. VersionInv(o)'
  BY <1>1, <1>2, <1>4 DEF VersionInv, Sessions, Times
<1> QED
  BY <1>2, <1>3, <1>5, <1>6, <1>7, Becomes, Zenon DEF Moved, OwnerInv

\* The answer of an acquisition put: held, refused, or left to a read
\* (resolveAcquisition).
LEMMA AcquisitionMoves ==
  ASSUME TypeOK, NEW o \in Owners, OwnerInv(o), NEW op \in Acquisitions, NEW outcome \in Outcomes,
         session[o].step \in {"put", "putReleased"}, Write(Request(o, op), outcome),
         resolveAcquisition(o, outcome), UNCHANGED <<clock, deleted>>
  PROVE  Moved(o)
<1> DEFINE s == session[o]
           w == Request(o, op)
<1>1. s \in Sessions /\ clock \in Times /\ s.phase = "idle"
  BY Zenon DEF TypeOK, OwnerInv, PhaseInv
<1>2. lease.owner # o /\ \A v \in late : v.owner # o
  BY <1>1, Zenon DEF OwnerInv, LateInv
<1>3. w.op = op /\ w.owner = o /\ w.at = s.at
  BY Zenon DEF Request
<1>4. /\ StoreStep(w)
      /\ outcome = "applied" => Landed(w) /\ late' = late
      /\ outcome \in {"condition_failed", "definitive_failure"} => NotLanded /\ late' = late
  BY WriteEffect, Zenon
<1> HIDE DEF w
<1>5. Landed(w) => /\ lease'.owner = o /\ lease'.status = "HELD" /\ lease'.version = 1 /\ lease'.heartbeat_at = s.at
                   /\ releasedBy' = releasedBy
  BY <1>3 DEF Landed, Land, acquiredLeaseItem, Acquisitions
<1>6. CASE outcome = "applied"
  <2>1. Become(o, Held(s))
    BY <1>6, Zenon DEF resolveAcquisition
  <2> QED
    BY <1>2, <1>4, <1>5, <1>6, <2>1, HeldMoves, Zenon
<1>7. CASE outcome \in {"condition_failed", "definitive_failure"}
  <2> DEFINE t == NotAcquired("refused", FALSE)
  <2>1. Become(o, t)
    BY Zenon, <1>7 DEF resolveAcquisition
  <2>2. t \in Sessions /\ t.phase = "refused" /\ t.step = "idle" /\ ~t.held /\ t.at = 0 /\ t.last_confirmed = 0
    BY Zenon, NotAcquiredSession
  <2> HIDE DEF t
  <2>3. Ending(o, t)
    BY <1>1, <2>2 DEF Ending, Times, Past, Finalizing, FinalSteps
  <2>4. StoreEnds(o)
    BY <1>4, <1>7, Zenon DEF NotLanded, StoreEnds, OwnerInv, ReleaseInv
  <2> QED
    BY <2>1, <2>3, <2>4, EndMoves, Zenon
<1>8. CASE outcome = "ambiguous"
  <2> DEFINE t == [s EXCEPT !.step = "resolve"]
  <2>1. Become(o, t)
    BY <1>8, Zenon DEF resolveAcquisition
  <2>2. t \in Sessions
    BY <1>1, Zenon DEF Sessions
  <2>3. t.phase = "idle" /\ t.step = "resolve" /\ t.held = s.held /\ t.at = s.at
        /\ t.last_confirmed = s.last_confirmed /\ t.original = s.original /\ t.status = s.status
    BY <1>1, Zenon DEF Sessions
  <2> HIDE DEF t
  <2>4. session'[o] = t
    BY <2>1, Becomes, Zenon
  <2>5. releasedBy' = releasedBy /\ (lease' = lease \/ lease'.status = "HELD")
    BY <1>4, <1>5, Zenon DEF StoreStep, NotLanded
  <2>6. \A v \in late' : v.owner = o => v = w /\ lease' = lease
    BY <1>2, <1>4, Zenon DEF StoreStep, NotLanded
  <2>7. PhaseInv(o)' /\ HolderInv(o)' /\ VersionInv(o)' /\ DueInv(o)' /\ TimeInv(o)' /\ ReleaseInv(o)'
    BY <2>3, <2>4, <2>5, Zenon DEF OwnerInv, PhaseInv, HolderInv, VersionInv, DueInv, TimeInv, ReleaseInv, FinalSteps, Beating
  <2>8. LateInv(o)'
    BY <1>2, <1>3, <2>3, <2>4, <2>6, Zenon DEF LateInv, Acquisitions, FinalWrites
  <2> QED
    BY <2>1, <2>2, <2>7, <2>8, Becomes, Zenon DEF Moved, OwnerInv
<1> QED
  BY <1>6, <1>7, <1>8, Zenon DEF Outcomes

\* The put on an absent item; a released one calls for a second put (acquireLease).
LEMMA PutLeaseMoves ==
  ASSUME TypeOK, NEW o \in Owners, OwnerInv(o), NEW outcome \in Outcomes, PutLease(o, outcome)
  PROVE  Moved(o)
<1> DEFINE s == session[o]
<1>1. CASE outcome = "condition_failed" /\ lease.status = "RELEASED"
  <2> DEFINE a == [s EXCEPT !.step = "putReleased"]
             b == [a EXCEPT !.version = lease.version]
             t == [b EXCEPT !.previous = lease.owner]
  <2>1. s \in Sessions /\ lease.version \in Nat /\ lease.owner \in Owners \cup {NoOwner} /\ s.step = "put" /\ s.phase = "idle"
    BY Zenon DEF TypeOK, Leases, PutLease, OwnerInv, PhaseInv
  <2>2. a \in Sessions
    BY <2>1, Zenon DEF Sessions
  <2>3. b \in Sessions
    BY Zenon, <2>1, <2>2 DEF Sessions
  <2>4. t \in Sessions
    BY Zenon, <2>1, <2>3 DEF Sessions
  <2>5. t.phase = "idle" /\ t.step = "putReleased" /\ t.held = s.held /\ t.at = s.at
        /\ t.last_confirmed = s.last_confirmed /\ t.original = s.original /\ t.status = s.status
    BY <2>1, Zenon DEF Sessions
  <2>6. Become(o, t)
    BY <1>1, Zenon DEF PutLease
  <2> HIDE DEF t
  <2>7. session'[o] = t
    BY <2>6, Becomes, Zenon
  <2>8. UNCHANGED <<lease, late, clock, deleted, releasedBy>>
    BY <1>1, WriteEffect, Zenon DEF PutLease, NotLanded
  <2>9. OwnerInv(o)'
    BY <2>1, <2>5, <2>7, <2>8, Zenon DEF OwnerInv, PhaseInv, LateInv, HolderInv, VersionInv, DueInv, TimeInv, ReleaseInv,
       FinalSteps, Beating
  <2> QED
    BY <2>4, <2>6, <2>9, Becomes, Zenon DEF Moved
<1>2. CASE ~(outcome = "condition_failed" /\ lease.status = "RELEASED")
  <2>1. Write(Request(o, "acquire"), outcome) /\ resolveAcquisition(o, outcome) /\ UNCHANGED <<clock, deleted>>
        /\ s.step = "put"
    BY <1>2, Zenon DEF PutLease
  <2> QED
    BY <2>1, AcquisitionMoves, Zenon DEF Acquisitions
<1> QED
  BY <1>1, <1>2, Zenon

\* The read after an unanswered put: the item is the owner's, or it did not land
\* for all the owner can tell (resolveAmbiguousAcquisition).
LEMMA ResolveAcquisitionMoves ==
  ASSUME TypeOK, NEW o \in Owners, OwnerInv(o), NEW readable \in BOOLEAN, ResolveAmbiguousAcquisition(o, readable)
  PROVE  Moved(o)
<1> DEFINE s == session[o]
<1>1. s.phase = "idle" /\ s.step = "resolve" /\ UNCHANGED <<lease, late, clock, deleted, releasedBy>> /\ clock \in Times
  BY Zenon DEF ResolveAmbiguousAcquisition, TypeOK, OwnerInv, PhaseInv
<1>2. CASE Become(o, Held(s)) /\ acquisitionLanded(o)
  <2>1. lease.owner = o /\ lease.status = "HELD" /\ lease.version = 1 /\ lease.heartbeat_at = s.at
    BY <1>2, Zenon DEF acquisitionLanded, isOwnedBy
  <2>2. \A w \in late : w.owner # o
    BY <1>1, <2>1, Zenon DEF OwnerInv, LateInv
  <2> QED
    BY <1>1, <1>2, <2>1, <2>2, HeldMoves, Zenon
<1>3. ASSUME NEW phase \in {"refused", "unresolved"}, NEW ambiguous \in BOOLEAN, Become(o, NotAcquired(phase, ambiguous))
      PROVE  Moved(o)
  <2> DEFINE t == NotAcquired(phase, ambiguous)
  <2>1. t \in Sessions /\ t.phase = phase /\ t.step = "idle" /\ ~t.held /\ t.at = 0 /\ t.last_confirmed = 0
    BY NotAcquiredSession, Zenon
  <2> HIDE DEF t
  <2>2. Ending(o, t)
    BY <1>1, <2>1 DEF Ending, Times, Past, Finalizing, FinalSteps
  <2>3. StoreEnds(o)
    BY <1>1, Zenon DEF StoreEnds, OwnerInv, ReleaseInv
  <2> QED
    BY <1>1, <1>3, <2>2, <2>3, EndMoves, Zenon DEF t
<1> QED
  BY Zenon, <1>2, <1>3 DEF ResolveAmbiguousAcquisition

\* A final event is recorded with the package: `released' of a lease that was held
\* only when the owner's item was released (finalizeLease, repairLease).
LEMMA SettleMoves ==
  ASSUME TypeOK, NEW o \in Owners, OwnerInv(o), NEW event, Settle(o, event), StoreEnds(o),
         UNCHANGED <<clock, deleted>>, session[o].held /\ event = "RELEASED" => o \in releasedBy'
  PROVE  Moved(o)
<1> DEFINE s == session[o]
           Finals == {"none", "released", "recovery_required", "unverified"}
<1>1. s.held \in BOOLEAN /\ s.original \in Finals /\ clock \in Times
  BY Zenon DEF TypeOK, Sessions
<1>2. FINAL_STATUS_OF_EVENT(event) \in Finals /\ (FINAL_STATUS_OF_EVENT(event) = "released" => event = "RELEASED")
  BY Zenon DEF FINAL_STATUS_OF_EVENT
<1>3. ASSUME NEW original \in Finals, NEW status \in Finals, Become(o, Finalized(s.held, original, status)),
             s.held /\ "released" \in {original, status} => o \in releasedBy'
      PROVE  Moved(o)
  <2> DEFINE t == Finalized(s.held, original, status)
  <2>1. /\ t \in Sessions /\ t.phase = "finalized" /\ t.step = "idle" /\ t.held = s.held
        /\ t.original = original /\ t.status = status /\ t.at = 0 /\ t.last_confirmed = 0
    BY <1>1, FinalizedSession
  <2> HIDE DEF t
  <2>2. Ending(o, t)
    BY <1>1, <1>3, <2>1 DEF Ending, Times
  <2> QED
    BY <1>3, <2>2, EndMoves, Zenon DEF t
<1>4. CASE s.phase = "recovering"
  <2>1. Become(o, Finalized(s.held, s.original, FINAL_STATUS_OF_EVENT(event)))
    BY <1>4, Zenon DEF Settle
  <2>2. s.held /\ s.original = "released" => o \in releasedBy'
    BY Zenon DEF OwnerInv, ReleaseInv, StoreEnds
  <2> QED
    BY <1>1, <1>2, <1>3, <2>1, <2>2, Zenon
<1>5. CASE s.phase # "recovering"
  <2>1. PICK status \in {FINAL_STATUS_OF_EVENT(event), "unverified"} : Become(o, Finalized(s.held, status, status))
    BY <1>5, Zenon DEF Settle
  <2> QED
    BY <1>1, <1>2, <1>3, <2>1, Zenon
<1> QED
  BY <1>4, <1>5, Zenon

\* The end of an execution begins with a read of its item, or with nothing to
\* release (finalizeLease).
LEMMA FinalizeMoves ==
  ASSUME TypeOK, NEW o \in Owners, OwnerInv(o), NEW closure \in Closures, FinalizeLease(o, closure)
  PROVE  Moved(o)
<1> DEFINE s == session[o]
<1>1. s \in Sessions /\ s.step = "idle" /\ UNCHANGED <<lease, late, clock, deleted, releasedBy>>
      /\ s.phase \in {"held", "refused", "unresolved"} /\ clock \in Times
  BY Zenon DEF FinalizeLease, TypeOK
<1>2. StoreEnds(o)
  BY <1>1, Zenon DEF StoreEnds, OwnerInv, ReleaseInv
<1>3. CASE s.phase = "refused"
  <2>1. Settle(o, "RELEASED") /\ ~s.held
    BY <1>3, Zenon DEF FinalizeLease, OwnerInv, PhaseInv
  <2> QED
    BY <1>1, <1>2, <2>1, SettleMoves, Zenon
<1>4. CASE s.phase # "refused"
  <2> DEFINE a == [s EXCEPT !.step = "finalRead"]
             b == [a EXCEPT !.closure = closure]
             t == [b EXCEPT !.due = 0]
  <2>1. a \in Sessions
    BY <1>1, Zenon DEF Sessions, FinalSteps
  <2>2. b \in Sessions
    BY Zenon, <2>1 DEF Sessions
  <2>a. 0 \in 0 .. MaxClock + HeartbeatInterval
    BY LeaseAssumption, TicksFacts
  <2>3. t \in Sessions
    BY Zenon, <2>2, <2>a DEF Sessions
  <2>4. t.phase = s.phase /\ t.step = "finalRead" /\ t.held = s.held /\ t.at = s.at /\ t.version = s.version
        /\ t.last_confirmed = s.last_confirmed /\ t.original = s.original /\ t.status = s.status
    BY <1>1, Zenon DEF Sessions
  <2>5. Become(o, t)
    BY <1>4, Zenon DEF FinalizeLease
  <2> HIDE DEF t
  <2>6. t.at <= clock /\ t.last_confirmed <= clock /\ t.version >= s.version
    BY <1>1, <2>4 DEF OwnerInv, TimeInv, Sessions
  <2>7. s.phase = "held" /\ isOwnedBy(o) => t.version <= lease.version
    BY <2>4, Zenon DEF OwnerInv, VersionInv
  <2>8. t.held /\ t.original = "released" => o \in releasedBy
    BY <2>4, Zenon DEF OwnerInv, ReleaseInv
  <2>9. t.held /\ t.status = "released" => o \in releasedBy
    BY <2>4, Zenon DEF OwnerInv, ReleaseInv
  <2>10. Ending(o, t)
    BY <1>1, <1>4, <2>3, <2>4, <2>6, <2>7, <2>8, <2>9, Zenon DEF Ending, FinalSteps
  <2> QED
    BY <1>1, <1>2, <2>5, <2>10, EndMoves, Zenon
<1> QED
  BY <1>3, <1>4, Zenon

\* A recovery acts as the owner again, or keeps a proven release (repairLease).
LEMMA RecoverMoves ==
  ASSUME TypeOK, NEW o \in Owners, OwnerInv(o), NEW closure \in Closures, RecoverLease(o, closure)
  PROVE  Moved(o)
<1> DEFINE s == session[o]
<1>1. s \in Sessions /\ UNCHANGED <<lease, late, clock, deleted, releasedBy>> /\ s.phase = "finalized" /\ s.held
  BY Zenon DEF RecoverLease, TypeOK
<1>2. StoreEnds(o)
  BY <1>1, Zenon DEF StoreEnds, OwnerInv, ReleaseInv
<1>3. CASE s.original = "released"
  <2> DEFINE t == [s EXCEPT !.status = "released"]
  <2>1. t \in Sessions /\ Become(o, t)
    BY <1>1, <1>3, Zenon DEF Sessions, RecoverLease
  <2>2. t.phase = s.phase /\ t.step = s.step /\ t.held = s.held /\ t.at = s.at
        /\ t.last_confirmed = s.last_confirmed /\ t.original = s.original /\ t.status = "released"
    BY Zenon, <1>1 DEF Sessions
  <2>3. s.step = "idle"
    BY <1>1, Zenon DEF OwnerInv, PhaseInv, Sessions
  <2> HIDE DEF t
  <2>4. Ending(o, t)
    BY <1>1, <1>3, <2>1, <2>2, <2>3, Zenon DEF Ending, OwnerInv, TimeInv, ReleaseInv
  <2> QED
    BY <1>1, <1>2, <2>1, <2>4, EndMoves, Zenon
<1>4. CASE s.original # "released"
  <2> DEFINE a == [s EXCEPT !.phase = "recovering"]
             b == [a EXCEPT !.step = "finalRead"]
             c == [b EXCEPT !.closure = closure]
             t == [c EXCEPT !.version = 0]
  <2>1. a \in Sessions
    BY <1>1, Zenon DEF Sessions
  <2>2. b \in Sessions
    BY Zenon, <2>1 DEF Sessions, FinalSteps
  <2>3. c \in Sessions
    BY Zenon, <2>2 DEF Sessions
  <2>4. t \in Sessions
    BY Zenon, <2>3 DEF Sessions
  <2>5. t.phase = "recovering" /\ t.step = "finalRead" /\ t.held = s.held /\ t.at = s.at
        /\ t.last_confirmed = s.last_confirmed /\ t.original = s.original /\ t.status = s.status
    BY Zenon, <1>1 DEF Sessions
  <2>6. Become(o, t)
    BY <1>4, Zenon DEF RecoverLease
  <2> HIDE DEF t
  <2>7. Ending(o, t)
    BY <1>1, <2>4, <2>5, Zenon DEF Ending, FinalSteps, OwnerInv, TimeInv, ReleaseInv
  <2> QED
    BY <1>1, <1>2, <2>6, <2>7, EndMoves, Zenon
<1> QED
  BY <1>3, <1>4, Zenon

\* What the first read of a finalization settles, and what it leaves to a write
\* (finalizeLease).
LEMMA ReadForFinalizationMoves ==
  ASSUME TypeOK, NEW o \in Owners, OwnerInv(o), NEW readable \in BOOLEAN, ReadForFinalization(o, readable)
  PROVE  Moved(o)
<1> DEFINE s == session[o]
<1>1. s \in Sessions /\ s.step = "finalRead" /\ UNCHANGED <<lease, late, clock, deleted, releasedBy>>
      /\ s.phase \in {"held", "unresolved", "recovering"} /\ lease.version \in Nat /\ s.version \in Nat
  BY Zenon DEF ReadForFinalization, TypeOK, OwnerInv, PhaseInv, FinalSteps, Leases, Sessions
<1>2. StoreEnds(o)
  BY <1>1, Zenon DEF StoreEnds, OwnerInv, ReleaseInv
<1>3. CASE Settle(o, notOwned(o))
  <2>1. s.held => notOwned(o) # "RELEASED"
    BY Zenon DEF notOwned
  <2> QED
    BY <1>1, <1>2, <1>3, <2>1, SettleMoves, Zenon
<1>4. CASE isOwnedBy(o) /\ lease.status = "RELEASED" /\ Settle(o, "RELEASED")
  <2>1. o \in releasedBy'
    BY <1>1, <1>4, Zenon DEF isOwnedBy, OwnerInv, ReleaseInv
  <2> QED
    BY <1>1, <1>2, <1>4, <2>1, SettleMoves, Zenon
<1>5. CASE Settle(o, "RECOVERY_REQUIRED")
  BY <1>1, <1>2, <1>5, SettleMoves, Zenon
<1>6. ASSUME NEW v \in {s.version, lease.version}, v = s.version \/ isOwnedBy(o),
             Become(o, [s EXCEPT !.step = "finalWrite", !.version = v])
      PROVE  Moved(o)
  <2> DEFINE a == [s EXCEPT !.step = "finalWrite"]
             t == [a EXCEPT !.version = v]
  <2>1. a \in Sessions
    BY <1>1, Zenon DEF Sessions, FinalSteps
  <2>2. t \in Sessions
    BY Zenon, <1>1, <2>1 DEF Sessions
  <2>3. t.phase = s.phase /\ t.step = "finalWrite" /\ t.held = s.held /\ t.at = s.at /\ t.version = v
        /\ t.last_confirmed = s.last_confirmed /\ t.original = s.original /\ t.status = s.status
    BY <1>1, <2>1, Zenon DEF Sessions
  <2>4. Become(o, t)
    BY <1>6, Zenon
  <2> HIDE DEF t
  <2>5. s.phase = "held" => v >= s.version /\ (isOwnedBy(o) => v <= lease.version)
    BY <1>1, <1>6 DEF OwnerInv, VersionInv
  <2>6. Ending(o, t)
    BY <1>1, <2>2, <2>3, <2>5, Zenon DEF Ending, FinalSteps, OwnerInv, TimeInv, ReleaseInv
  <2> QED
    BY <1>1, <1>2, <2>4, <2>6, EndMoves, Zenon
<1>7. CASE Become(o, [s EXCEPT !.step = "finalWrite", !.version = IF readable THEN lease.version ELSE @])
           /\ (readable => isOwnedBy(o))
  <2>1. CASE readable
    BY <1>6, <1>7, <2>1, Zenon
  <2>2. CASE ~readable
    BY <1>6, <1>7, <2>2, Zenon
  <2> QED
    BY <2>1, <2>2, Zenon
<1> QED
  BY <1>3, <1>4, <1>5, <1>7, Zenon DEF ReadForFinalization

\* A final write lands on the owner's item only, and releases it for good
\* (release, markRecoveryRequired).
LEMMA FinalLands ==
  ASSUME TypeOK, NEW w \in Writes, w.op \in FinalWrites, Landed(w)
  PROVE  /\ isOwnedBy(w.owner) /\ lease.status \in {"HELD", "RECOVERY_REQUIRED"}
         /\ lease'.owner = w.owner /\ lease'.version = lease.version + 1
         /\ lease'.status = IF w.op = "release" THEN "RELEASED" ELSE "RECOVERY_REQUIRED"
         /\ releasedBy' = IF w.op = "release" THEN releasedBy \cup {w.owner} ELSE releasedBy
<1>1. WriteCondition(w) /\ Land(w)
  BY Zenon DEF Landed
<1>2. lease.owner = w.owner /\ lease.status \in {"HELD", "RECOVERY_REQUIRED"}
  BY <1>1, Zenon DEF WriteCondition, ownedAt, FinalWrites
<1>3. lease'.owner = lease.owner /\ lease'.version = lease.version + 1
      /\ lease'.status = IF w.op = "release" THEN "RELEASED" ELSE "RECOVERY_REQUIRED"
  BY <1>1, Zenon DEF Land, FinalWrites, TypeOK, Leases
<1> QED
  BY <1>1, <1>2, <1>3, Zenon DEF isOwnedBy, Land

\* The final write settles on its answer, or is left to a read (writeFinal).
LEMMA WriteFinalMoves ==
  ASSUME TypeOK, NEW o \in Owners, OwnerInv(o), NEW outcome \in Outcomes, writeFinal(o, outcome)
  PROVE  Moved(o)
<1> DEFINE s == session[o]
           op == IF s.closure = "clean" THEN "release" ELSE "markRecoveryRequired"
           w == Request(o, op)
<1>1. s \in Sessions /\ s.step = "finalWrite" /\ UNCHANGED <<clock, deleted>>
      /\ s.phase \in {"held", "unresolved", "recovering"} /\ s.version \in Nat /\ s.version >= s.version
  BY DEF writeFinal, TypeOK, OwnerInv, PhaseInv, FinalSteps, Sessions
<1>2. w \in Writes /\ w.owner = o /\ w.op = op /\ op \in FinalWrites
  BY Zenon, RequestType DEF FinalWrites, Request
<1>3. /\ StoreStep(w)
      /\ outcome = "applied" => Landed(w) /\ late' = late
      /\ outcome \in {"condition_failed", "definitive_failure"} => NotLanded /\ late' = late
  BY WriteEffect, Zenon DEF writeFinal
<1>4. op = "release" <=> s.closure = "clean"
  BY Zenon
<1> HIDE DEF w, op
<1>5. Landed(w) => /\ isOwnedBy(o) /\ lease'.owner = o /\ lease'.version = lease.version + 1
                   /\ lease'.status = IF op = "release" THEN "RELEASED" ELSE "RECOVERY_REQUIRED"
                   /\ releasedBy' = IF op = "release" THEN releasedBy \cup {o} ELSE releasedBy
  BY <1>2, FinalLands, Zenon
<1>6. StoreEnds(o)
  <2>1. CASE Landed(w) /\ late' = late
    BY <1>5, <2>1, Zenon DEF StoreEnds
  <2>2. CASE NotLanded /\ late' \in {late, late \cup {w}}
    BY <1>1, <1>2, <2>2, Zenon DEF StoreEnds, NotLanded, OwnerInv, ReleaseInv, Finalizing, FinalSteps
  <2> QED
    BY <1>3, <2>1, <2>2, Zenon DEF StoreStep
<1>7. CASE outcome = "applied"
  <2>1. Settle(o, FinalTarget(o))
    BY <1>7, Zenon DEF writeFinal
  <2>2. FinalTarget(o) = "RELEASED" => o \in releasedBy'
    BY <1>3, <1>4, <1>5, <1>7, Zenon DEF FinalTarget
  <2> QED
    BY <1>1, <1>6, <2>1, <2>2, SettleMoves, Zenon
<1>8. CASE outcome \in {"condition_failed", "definitive_failure"}
  <2>1. PICK event \in {"RELEASE_FAILED", "STATE_UNVERIFIED"} : Settle(o, event)
    BY <1>8, Zenon DEF writeFinal
  <2> QED
    BY <1>1, <1>6, <2>1, SettleMoves, Zenon
<1>9. CASE outcome = "ambiguous"
  <2> DEFINE t == [s EXCEPT !.step = "finalResolve"]
  <2>1. t \in Sessions /\ Become(o, t)
    BY <1>1, <1>9, Zenon DEF Sessions, FinalSteps, writeFinal
  <2>2. t.phase = s.phase /\ t.step = "finalResolve" /\ t.held = s.held /\ t.at = s.at /\ t.version = s.version
        /\ t.last_confirmed = s.last_confirmed /\ t.original = s.original /\ t.status = s.status
    BY <1>1, Zenon DEF Sessions
  <2> HIDE DEF t
  <2>3. Ending(o, t)
    BY <1>1, <1>6, <2>1, <2>2, Zenon DEF Ending, StoreEnds, FinalSteps, OwnerInv, TimeInv, ReleaseInv, VersionInv
  <2> QED
    BY <1>1, <1>6, <2>1, <2>3, EndMoves, Zenon
<1> QED
  BY <1>7, <1>8, <1>9, Zenon DEF Outcomes

\* The read after an unanswered final write (resolveAmbiguousFinal).
LEMMA ResolveFinalMoves ==
  ASSUME TypeOK, NEW o \in Owners, OwnerInv(o), NEW readable \in BOOLEAN, ResolveAmbiguousFinal(o, readable)
  PROVE  Moved(o)
<1>1. UNCHANGED <<lease, late, clock, deleted, releasedBy>>
  BY Zenon DEF ResolveAmbiguousFinal
<1>2. StoreEnds(o)
  BY <1>1, Zenon DEF StoreEnds, OwnerInv, ReleaseInv
<1>3. PICK event \in {FinalTarget(o), "STATE_UNVERIFIED"} :
        Settle(o, event) /\ (event = "STATE_UNVERIFIED" \/ (isOwnedBy(o) /\ lease.status = event))
  BY Zenon DEF ResolveAmbiguousFinal
<1>4. event = "RELEASED" => o \in releasedBy'
  BY <1>1, <1>3, Zenon DEF isOwnedBy, OwnerInv, ReleaseInv
<1> QED
  BY <1>1, <1>2, <1>3, <1>4, SettleMoves, Zenon

\* A crash ends a session for good; the recovery of a package can be tried again.
LEMMA CrashMoves ==
  ASSUME TypeOK, NEW o \in Owners, OwnerInv(o), Crash(o)
  PROVE  Moved(o)
<1> DEFINE s == session[o]
<1>1. UNCHANGED <<lease, late, clock, deleted, releasedBy>> /\ s \in Sessions /\ clock \in Times
  BY Zenon DEF Crash, TypeOK
<1>2. StoreEnds(o)
  BY <1>1, Zenon DEF StoreEnds, OwnerInv, ReleaseInv
<1>3. CASE s.phase = "recovering"
  <2> DEFINE t == Finalized(s.held, s.original, s.status)
  <2>1. s.held \in BOOLEAN /\ s.original \in {"none", "released", "recovery_required", "unverified"}
        /\ s.status \in {"none", "released", "recovery_required", "unverified"}
    BY <1>1, Zenon DEF Sessions
  <2>2. /\ t \in Sessions /\ t.phase = "finalized" /\ t.step = "idle" /\ t.held = s.held
        /\ t.original = s.original /\ t.status = s.status /\ t.at = 0 /\ t.last_confirmed = 0
    BY <2>1, FinalizedSession
  <2>3. Become(o, t)
    BY <1>3, Zenon DEF Crash
  <2> HIDE DEF t
  <2>4. Ending(o, t)
    BY <1>1, <2>2 DEF Ending, Times, OwnerInv, ReleaseInv
  <2> QED
    BY <1>1, <1>2, <2>3, <2>4, EndMoves, Zenon
<1>4. CASE s.phase # "recovering"
  <2> DEFINE t == [IdleSession EXCEPT !.phase = "crashed"]
  <2>1. t \in Sessions
    BY IdleType, Zenon DEF Sessions
  <2>2. t.phase = "crashed" /\ t.step = "idle" /\ ~t.held /\ t.at = 0 /\ t.last_confirmed = 0
    BY Zenon DEF IdleSession
  <2>3. Become(o, t)
    BY <1>4, Zenon DEF Crash
  <2> HIDE DEF t
  <2>4. Ending(o, t)
    BY <1>1, <2>1, <2>2 DEF Ending, Times
  <2> QED
    BY <1>1, <1>2, <2>3, <2>4, EndMoves, Zenon
<1> QED
  BY <1>3, <1>4, Zenon


-----------------------------------------------------------------------------
(* The steps of the world, and the theorems. *)

\* A write in flight lands, or its condition fails by now: its owner's session
\* keeps what it knows.
LEMMA LateWriteOwn ==
  ASSUME TypeOK, NEW w \in late, OwnerInv(w.owner), LateWrite(w)
  PROVE  OwnerInv(w.owner)'
<1> DEFINE o == w.owner
           s == session[o]
<1>1. w \in Writes /\ o \in Owners /\ s \in Sessions /\ lease \in Leases
  BY Zenon DEF TypeOK, Writes
<1>2. late' = late \ {w} /\ UNCHANGED <<session, clock, deleted>> /\ (Landed(w) \/ NotLanded)
  BY Zenon DEF LateWrite, Landed, NotLanded
<1>3. PhaseInv(o)' /\ DueInv(o)' /\ TimeInv(o)'
  BY <1>2, Zenon DEF OwnerInv, PhaseInv, DueInv, TimeInv, Beating, isLost
<1>4. CASE NotLanded
  BY <1>2, <1>3, <1>4, Zenon DEF NotLanded, OwnerInv, LateInv, HolderInv, VersionInv, ReleaseInv, Past, Finalizing, isOwnedBy
<1>5. CASE Landed(w) /\ w.op \in Acquisitions
  <2>1. lease'.owner = o /\ lease'.status = "HELD" /\ releasedBy' = releasedBy
    BY <1>5, Zenon DEF Landed, Land, acquiredLeaseItem, Acquisitions
  <2>2. s.phase # "held" /\ (s.phase = "idle" => s.step = "resolve")
    BY <1>5, Zenon DEF OwnerInv, LateInv
  <2>3. \A v \in late' : v.owner = o => v \in late /\ v.op \notin Acquisitions
    BY <1>2, <1>5, Zenon DEF OwnerInv, LateInv
  <2>4. LateInv(o)'
    BY <1>2, <2>2, <2>3, Zenon DEF OwnerInv, LateInv, Past, Finalizing
  <2> QED
    BY <1>2, <1>3, <2>1, <2>2, <2>4, Zenon DEF OwnerInv, HolderInv, VersionInv, ReleaseInv
<1>6. CASE Landed(w) /\ w.op = "heartbeat"
  <2>1. lease.owner = o /\ lease.version = w.version /\ lease.status = "HELD"
    BY <1>6, Zenon DEF Landed, WriteCondition, ownedAt
  <2>2. lease' = [lease EXCEPT !.version = lease.version + 1, !.heartbeat_at = w.at] /\ releasedBy' = releasedBy
    BY <1>6, Zenon DEF Landed, Land
  <2>3. /\ lease'.owner = lease.owner /\ lease'.status = lease.status
        /\ lease'.version = lease.version + 1 /\ lease'.heartbeat_at = w.at
    BY <1>1, <2>2, Zenon DEF Leases
  <2>4. LateInv(o)' /\ HolderInv(o)' /\ ReleaseInv(o)'
    BY <1>2, <2>2, <2>3, Zenon DEF OwnerInv, LateInv, HolderInv, ReleaseInv, Past, Finalizing, isOwnedBy
  <2>5. s.phase = "held" => s.version = w.version /\ s.version <= lease'.version /\ s.last_confirmed <= w.at
    <3>1. s.version \in Nat /\ w.version \in Nat
      BY <1>1, Zenon DEF Sessions, Writes
    <3>2. s.phase = "held" => /\ s.version <= lease.version /\ w.version <= s.version
                              /\ w.version = s.version => s.last_confirmed <= w.at
      BY <1>6, <2>1, Zenon DEF OwnerInv, VersionInv, isOwnedBy
    <3> HIDE DEF s
    <3> QED
      BY <2>1, <2>3, <3>1, <3>2
  <2>6. VersionInv(o)'
    BY <1>2, <2>3, <2>5, Zenon DEF OwnerInv, VersionInv
  <2> QED
    BY <1>3, <2>4, <2>6, Zenon DEF OwnerInv
<1>7. CASE Landed(w) /\ w.op \in FinalWrites
  <2>1. /\ isOwnedBy(o) /\ lease'.owner = o /\ lease'.version = lease.version + 1
        /\ lease'.status \in {"RELEASED", "RECOVERY_REQUIRED"} /\ releasedBy \subseteq releasedBy'
        /\ lease'.status = "RELEASED" => o \in releasedBy'
    BY <1>1, <1>7, FinalLands, Zenon DEF FinalWrites
  <2>2. Past(o)
    BY <1>7, Zenon DEF OwnerInv, LateInv
  <2>3. LateInv(o)' /\ HolderInv(o)' /\ ReleaseInv(o)'
    BY <1>2, <2>1, <2>2, Zenon DEF OwnerInv, LateInv, HolderInv, ReleaseInv, Past, Finalizing, isOwnedBy
  <2>4. VersionInv(o)'
    <3>1. s.version \in Nat /\ lease.version \in Nat
      BY <1>1, Zenon DEF Leases, Sessions
    <3>2. s.phase = "held" => s.version <= lease.version
      BY <2>1, Zenon DEF OwnerInv, VersionInv
    <3> HIDE DEF s
    <3>3. s.phase = "held" => s.version <= lease'.version
      BY <2>1, <3>1, <3>2
    <3> USE DEF s
    <3> QED
      BY <1>2, <2>1, <3>3, Zenon DEF OwnerInv, VersionInv
  <2> QED
    BY <1>3, <2>3, <2>4, Zenon DEF OwnerInv
<1> QED
  BY <1>1, <1>2, <1>4, <1>5, <1>6, <1>7, Zenon DEF Writes, Acquisitions, FinalWrites

\* What an owner's write may change, for every owner.
WritesAs(o) ==
  \/ UNCHANGED <<lease, late, releasedBy>>
  \/ \E op \in {"acquire", "reacquire", "heartbeat", "release", "markRecoveryRequired"}, outcome \in Outcomes :
       Write(Request(o, op), outcome)

\* A step of an owner keeps the invariant of every owner.
LEMMA OwnerStepInv ==
  ASSUME LeaseInv, NEW o \in Owners, Moved(o), WritesAs(o), UNCHANGED <<clock, deleted>>
  PROVE  LeaseInv'
<1>1. TypeOK
  BY Zenon DEF LeaseInv
<1>2. lease' \in Leases /\ releasedBy' \subseteq Owners
      /\ late' \subseteq Writes /\ IsFiniteSet(late') /\ Cardinality(late') <= MaxLate
  BY <1>1, WriteType, Zenon DEF WritesAs, TypeOK
<1>3. TypeOK'
  BY <1>1, <1>2, Zenon DEF TypeOK, Moved
<1>4. ASSUME NEW p \in Owners, p # o PROVE OwnerInv(p)'
  <2>1. OwnerInv(p) /\ session'[p] = session[p]
    BY <1>4, Zenon DEF LeaseInv, Moved
  <2>2. CASE UNCHANGED <<lease, late, releasedBy>>
    BY <1>1, <2>1, <2>2, Unmoved, Zenon
  <2>3. ASSUME NEW op \in {"acquire", "reacquire", "heartbeat", "release", "markRecoveryRequired"},
               NEW outcome \in Outcomes, Write(Request(o, op), outcome)
        PROVE  OwnerInv(p)'
    <3> DEFINE w == Request(o, op)
    <3>1. w \in Writes /\ w.owner = o
      BY <1>1, RequestType, Zenon
    <3>2. StoreStep(w)
      BY <2>3, WriteEffect, Zenon
    <3> HIDE DEF w
    <3>3. (Landed(w) \/ NotLanded) /\ late' \subseteq late \cup {w}
      BY <3>2, Zenon DEF StoreStep
    <3> QED
      BY <1>1, <1>4, <2>1, <3>1, <3>3, OtherOwner, Zenon
  <2> QED
    BY <2>2, <2>3, Zenon DEF WritesAs
<1> QED
  BY <1>3, <1>4, Zenon DEF LeaseInv, Moved

\* The invariant is inductive.
LEMMA LeaseInvInit == Init => LeaseInv
<1> SUFFICES ASSUME Init PROVE LeaseInv
  BY Zenon
<1>0. 0 \in Times
  BY LeaseAssumption DEF Times
<1>1. lease \in Leases /\ lease.owner = NoOwner
  <2>1. CASE lease = NoLease
    BY <1>0, <2>1, Zenon DEF NoLease, Leases
  <2>2. CASE lease = [NoLease EXCEPT !.status = "RELEASED", !.version = 2]
    <3>1. lease = [status |-> "RELEASED", owner |-> NoOwner, version |-> 2, heartbeat_at |-> 0]
      BY <2>2, Zenon DEF NoLease
    <3> QED
      BY <1>0, <3>1, Zenon DEF Leases
  <2> QED
    BY <2>1, <2>2, Zenon DEF Init
<1>2. session \in [Owners -> Sessions] /\ \A o \in Owners : session[o] = IdleSession
  BY IdleType, Zenon DEF Init
<1>3. late = {} /\ IsFiniteSet(late) /\ Cardinality(late) = 0
  BY FS_EmptySet, Zenon DEF Init
<1>4. TypeOK
  <2>1. clock \in Times /\ deleted \in BOOLEAN /\ releasedBy \subseteq Owners
    BY <1>0, Zenon DEF Init
  <2>2. late \subseteq Writes /\ IsFiniteSet(late) /\ Cardinality(late) <= MaxLate
    BY <1>3, LeaseAssumption
  <2> QED
    BY <1>1, <1>2, <2>1, <2>2, Zenon DEF TypeOK
<1>5. ASSUME NEW o \in Owners PROVE OwnerInv(o)
  BY <1>1, <1>2, <1>3, LeaseAssumption DEF Init, IdleSession, OwnerInv, PhaseInv, LateInv, HolderInv, VersionInv, DueInv,
     TimeInv, ReleaseInv, Beating, FinalSteps
<1> QED
  BY <1>4, <1>5, Zenon DEF LeaseInv

\* Every step keeps it: a step of an owner, of the network, of an operator outside
\* the study, of the clock.
LEMMA LeaseInvNext == LeaseInv /\ [Next]_vars => LeaseInv'
<1> SUFFICES ASSUME LeaseInv, [Next]_vars PROVE LeaseInv'
  BY Zenon
<1>1. TypeOK /\ \A p \in Owners : OwnerInv(p)
  BY Zenon DEF LeaseInv
<1>2. ASSUME NEW o \in Owners, OwnerStep(o) PROVE LeaseInv'
  <2>1. OwnerInv(o) /\ UNCHANGED <<clock, deleted>>
    BY Zenon, <1>1, <1>2 DEF OwnerStep, Acquire, HeartbeatDue, PutLease, PutReleasedLease, WriteHeartbeat, writeFinal,
       ResolveAmbiguousAcquisition, JudgeHeartbeat, ReadForFinalization, ResolveAmbiguousFinal, FinalizeLease,
       RecoverLease, Crash
  <2>2. CASE Acquire(o) \/ HeartbeatDue(o) \/ Crash(o)
    <3>1. Moved(o)
      BY <1>1, <2>1, <2>2, AcquireMoves, HeartbeatDueMoves, CrashMoves, Zenon
    <3>2. WritesAs(o)
      BY <2>2, Zenon DEF WritesAs, Acquire, HeartbeatDue, Crash
    <3> QED
      BY <2>1, <3>1, <3>2, OwnerStepInv, Zenon
  <2>3. ASSUME NEW outcome \in Outcomes,
               PutLease(o, outcome) \/ PutReleasedLease(o, outcome) \/ WriteHeartbeat(o, outcome) \/ writeFinal(o, outcome)
        PROVE  LeaseInv'
    <3>1. PutReleasedLease(o, outcome) => Moved(o)
      BY <1>1, <2>1, AcquisitionMoves, Zenon DEF PutReleasedLease, Acquisitions
    <3>2. Moved(o)
      BY <1>1, <2>1, <2>3, <3>1, PutLeaseMoves, WriteHeartbeatMoves, WriteFinalMoves, Zenon
    <3>3. WritesAs(o)
      BY <2>3, Zenon DEF WritesAs, PutLease, PutReleasedLease, WriteHeartbeat, writeFinal
    <3> QED
      BY <2>1, <3>2, <3>3, OwnerStepInv, Zenon
  <2>4. ASSUME NEW readable \in BOOLEAN,
               \/ ResolveAmbiguousAcquisition(o, readable) \/ JudgeHeartbeat(o, readable)
               \/ ReadForFinalization(o, readable) \/ ResolveAmbiguousFinal(o, readable)
        PROVE  LeaseInv'
    <3>1. Moved(o)
      BY <1>1, <2>1, <2>4, ResolveAcquisitionMoves, JudgeHeartbeatMoves, ReadForFinalizationMoves, ResolveFinalMoves, Zenon
    <3>2. WritesAs(o)
      BY Zenon, <2>4 DEF WritesAs, ResolveAmbiguousAcquisition, JudgeHeartbeat, ReadForFinalization, ResolveAmbiguousFinal
    <3> QED
      BY <2>1, <3>1, <3>2, OwnerStepInv, Zenon
  <2>5. ASSUME NEW closure \in Closures, FinalizeLease(o, closure) \/ RecoverLease(o, closure)
        PROVE  LeaseInv'
    <3>1. Moved(o)
      BY <1>1, <2>1, <2>5, FinalizeMoves, RecoverMoves, Zenon
    <3>2. WritesAs(o)
      BY <2>5, Zenon DEF WritesAs, FinalizeLease, RecoverLease
    <3> QED
      BY <2>1, <3>1, <3>2, OwnerStepInv, Zenon
  <2> QED
    BY <1>2, <2>2, <2>3, <2>4, <2>5, Zenon DEF OwnerStep
<1>3. ASSUME NEW w \in late, LateWrite(w) PROVE LeaseInv'
  <2>1. w \in Writes /\ w.owner \in Owners
    BY <1>1, Zenon DEF TypeOK, Writes
  <2>2. late' = late \ {w} /\ UNCHANGED <<session, clock, deleted>> /\ (Landed(w) \/ NotLanded)
    BY <1>3, Zenon DEF LateWrite, Landed, NotLanded
  <2>3. lease' \in Leases /\ releasedBy' \subseteq Owners
    BY <1>1, <2>1, <2>2, LandType, Zenon DEF NotLanded, TypeOK
  <2>4. IsFiniteSet(late') /\ Cardinality(late') <= MaxLate
    <3>1. IsFiniteSet(late) /\ Cardinality(late) <= MaxLate
      BY <1>1, Zenon DEF TypeOK
    <3>2. IsFiniteSet(late') /\ Cardinality(late') <= Cardinality(late)
      BY <2>2, <3>1, FS_Subset, Zenon
    <3>3. Cardinality(late) \in Nat /\ Cardinality(late') \in Nat
      BY <3>1, <3>2, FS_CardinalityType, Zenon
    <3> QED
      BY <3>1, <3>2, <3>3, LeaseAssumption
  <2>5. TypeOK'
    BY <1>1, <2>2, <2>3, <2>4, Zenon DEF TypeOK
  <2>6. OwnerInv(w.owner)'
    BY <1>1, <1>3, <2>1, LateWriteOwn, Zenon
  <2>7. ASSUME NEW p \in Owners, p # w.owner PROVE OwnerInv(p)'
    BY <1>1, <2>1, <2>2, <2>7, OtherOwner, Zenon
  <2> QED
    BY <2>5, <2>6, <2>7, Zenon DEF LeaseInv
<1>4. CASE DeleteItem
  <2>1. late = {} /\ UNCHANGED <<session, late, clock, releasedBy>> /\ deleted' /\ lease' = NoLease
    BY <1>4, Zenon DEF DeleteItem
  <2>2. lease' \in Leases /\ lease'.owner \notin Owners /\ lease'.status = "ABSENT"
    BY <2>1, LeaseAssumption DEF NoLease, Leases, Times
  <2>3. TypeOK'
    BY <1>1, <1>4, <2>1, <2>2, Zenon DEF TypeOK, DeleteItem
  <2>4. ASSUME NEW p \in Owners PROVE OwnerInv(p)'
    BY <1>1, <2>1, <2>2, Zenon DEF OwnerInv, PhaseInv, LateInv, HolderInv, VersionInv, DueInv, TimeInv, ReleaseInv, Past,
       Finalizing, isOwnedBy, Beating, isLost
  <2> QED
    BY <2>3, <2>4, Zenon DEF LeaseInv
<1>5. CASE Tick \/ UNCHANGED vars
  <2>1. UNCHANGED <<lease, session, late, deleted, releasedBy>> /\ clock' \in {clock, clock + 1} /\ clock' \in Times
    BY <1>1, <1>5, LeaseAssumption DEF Tick, vars, TypeOK, Times
  <2>2. TypeOK'
    BY <1>1, <2>1, Zenon DEF TypeOK
  <2>3. ASSUME NEW p \in Owners PROVE OwnerInv(p)'
    BY <1>1, <2>1, Unmoved, Zenon
  <2> QED
    BY <2>2, <2>3, Zenon DEF LeaseInv
<1> QED
  BY <1>2, <1>3, <1>4, <1>5, Zenon DEF Next

\* Every reachable state satisfies the invariant.
THEOREM LeaseInvariant == Spec => []LeaseInv
BY LeaseInvInit, LeaseInvNext, PTL DEF Spec

\* Sessions, the item and the writes in flight are always well typed, for any
\* executions and any timing (LeaseState, LeaseItem).
THEOREM LeaseTypeCorrect == Spec => []TypeOK
<1>1. LeaseInv => TypeOK
  BY Zenon DEF LeaseInv
<1> QED
  BY <1>1, LeaseInvariant, PTL

\* Whoever may publish holds the stored lease, whatever answers are lost and
\* whatever writes land late (publicationAllowed, acquireLease).
THEOREM LeasePublisherHoldsLease == Spec => []PublisherHoldsLease
<1>1. LeaseInv => PublisherHoldsLease
  BY Zenon DEF LeaseInv, OwnerInv, HolderInv, PublisherHoldsLease, publicationAllowed
<1> QED
  BY <1>1, LeaseInvariant, PTL

\* So no two executions publish at once, the purpose of the lease (BR-RUA-045).
THEOREM LeaseOnePublisher ==
  Spec => [](\A o, p \in Owners :
               /\ ~deleted /\ publicationAllowed(o) /\ ~Finalizing(o)
               /\ publicationAllowed(p) /\ ~Finalizing(p)
               => o = p)
<1>1. PublisherHoldsLease => \A o, p \in Owners :
               /\ ~deleted /\ publicationAllowed(o) /\ ~Finalizing(o)
               /\ publicationAllowed(p) /\ ~Finalizing(p)
               => o = p
  BY Zenon DEF PublisherHoldsLease, isOwnedBy
<1> QED
  BY <1>1, LeasePublisherHoldsLease, PTL

\* Staleness is measured from a heartbeat the store has, and an uncertain session
\* beats again within the millisecond of the boundary (lease-health.ts:9-10, heartbeatDelayMs).
THEOREM LeaseBoundary == Spec => []BoundaryNeverLaterThanStore
<1>1. LeaseInv => BoundaryNeverLaterThanStore
  <2> SUFFICES ASSUME LeaseInv, NEW o \in Owners, session[o].phase = "held", isOwnedBy(o), lease.status = "HELD"
               PROVE  /\ session[o].last_confirmed <= lease.heartbeat_at
                      /\ Beating(o) /\ session[o].health = "UNCERTAIN" =>
                           session[o].due < lease.heartbeat_at + StaleBoundary + TicksPerMs
    BY Zenon DEF BoundaryNeverLaterThanStore
  <2>1. session[o].last_confirmed <= lease.heartbeat_at
    BY Zenon DEF LeaseInv, OwnerInv, VersionInv
  <2>2. Beating(o) /\ session[o].health = "UNCERTAIN" => session[o].due < session[o].last_confirmed + StaleBoundary + TicksPerMs
    BY Zenon DEF LeaseInv, OwnerInv, DueInv
  <2>3. /\ session[o].last_confirmed \in Nat /\ session[o].due \in Nat /\ lease.heartbeat_at \in Nat
        /\ StaleBoundary \in Nat /\ TicksPerMs \in Nat
    BY LeaseAssumption, TicksFacts DEF LeaseInv, TypeOK, Sessions, Leases, Times
  <2> QED
    BY <2>1, <2>2, <2>3
<1> QED
  BY <1>1, LeaseInvariant, PTL

\* An execution that held the lease counts as released only when its item was
\* (finalizeLease, repairLease).
THEOREM LeaseReleasedIsEstablished == Spec => []ReleasedIsEstablished
<1>1. LeaseInv => ReleasedIsEstablished
  BY Zenon DEF LeaseInv, OwnerInv, ReleaseInv, ReleasedIsEstablished
<1> QED
  BY <1>1, LeaseInvariant, PTL

\* Only the conditional puts of an acquisition change the owner of an item
\* (isLeaseAvailable).
LEMMA LandKeepsOwner ==
  ASSUME TypeOK, NEW w \in Writes, Landed(w) \/ NotLanded
  PROVE  lease'.owner = lease.owner \/ lease.status \in {"ABSENT", "RELEASED"}
<1>1. CASE Landed(w) /\ w.op \in Acquisitions
  BY <1>1, Zenon DEF Landed, WriteCondition, sameReleasedItem, Acquisitions
<1>2. CASE Landed(w) /\ w.op \in FinalWrites
  BY <1>2, FinalLands, Zenon DEF isOwnedBy
<1>3. CASE Landed(w) /\ w.op = "heartbeat"
  BY Zenon, <1>3 DEF Landed, Land, TypeOK, Leases
<1> QED
  BY <1>1, <1>2, <1>3, Zenon DEF NotLanded, Writes, Acquisitions, FinalWrites

\* No expiry, crash, recovery or late write takes the lease from a holder
\* (isLeaseAvailable, the conditions of DurableLeaseStore).
THEOREM LeaseNeverStolen == Spec => NeverStolen
<1> DEFINE Kept == \A o \in Owners : lease'.owner = o /\ lease.owner # o => lease.status \in {"ABSENT", "RELEASED"}
<1>1. LeaseInv /\ [Next]_vars => [Kept]_vars
  <2> SUFFICES ASSUME LeaseInv, Next PROVE Kept
    BY Zenon
  <2>1. TypeOK
    BY Zenon DEF LeaseInv
  <2>2. ASSUME NEW o \in Owners, OwnerStep(o) PROVE Kept
    <3>1. WritesAs(o)
      BY Zenon, <2>2 DEF WritesAs, OwnerStep, Acquire, HeartbeatDue, PutLease, PutReleasedLease, WriteHeartbeat, writeFinal,
         ResolveAmbiguousAcquisition, JudgeHeartbeat, ReadForFinalization, ResolveAmbiguousFinal, FinalizeLease,
         RecoverLease, Crash
    <3>2. ASSUME NEW op \in {"acquire", "reacquire", "heartbeat", "release", "markRecoveryRequired"},
                 NEW outcome \in Outcomes, Write(Request(o, op), outcome)
          PROVE  Kept
      <4> DEFINE w == Request(o, op)
      <4>1. w \in Writes
        BY <2>1, RequestType, Zenon
      <4>2. StoreStep(w)
        BY <3>2, WriteEffect, Zenon
      <4> HIDE DEF w
      <4>3. Landed(w) \/ NotLanded
        BY <4>2, Zenon DEF StoreStep
      <4> QED
        BY <2>1, <4>1, <4>3, LandKeepsOwner, Zenon
    <3> QED
      BY <3>1, <3>2, Zenon DEF WritesAs
  <2>3. ASSUME NEW w \in late, LateWrite(w) PROVE Kept
    <3>1. w \in Writes /\ (Landed(w) \/ NotLanded)
      BY <2>1, <2>3, Zenon DEF TypeOK, LateWrite, Landed, NotLanded
    <3> QED
      BY <2>1, <3>1, LandKeepsOwner, Zenon
  <2>4. CASE DeleteItem
    BY <2>4, LeaseAssumption, Zenon DEF DeleteItem, NoLease
  <2>5. CASE Tick
    BY <2>5, Zenon DEF Tick
  <2> QED
    BY <2>2, <2>3, <2>4, <2>5, Zenon DEF Next
<1> QED
  BY <1>1, LeaseInvariant, PTL DEF Spec, NeverStolen

=============================================================================
