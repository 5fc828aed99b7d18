--------------------------- MODULE NotificationGroup ---------------------------
(***************************************************************************)
(* The pure decisions of a notification group: when it flushes next, what  *)
(* a flush does with a claimed membership, and what it announces           *)
(* (packages/app/src/server/alerting/delivery/grouping.ts).                *)
(*                                                                         *)
(* Events are numbered in the order they are journaled, so the number      *)
(* stands for both the id (a UUIDv7) and occurred_at.  A batch is a set of *)
(* events; `kind` and `subject` are functions giving an event's type and   *)
(* the instance it describes, `flushed` the members of the batch that      *)
(* already went into a notification.                                       *)
(***************************************************************************)
EXTENDS Integers, FiniteSets

CONSTANTS
    GroupWait,      \* ALERTING_DEFAULT_GROUP_WAIT_SECS
    GroupInterval,  \* ALERTING_DEFAULT_GROUP_INTERVAL_SECS
    IdleAt,         \* IDLE_GROUP_FLUSH_AT, the sentinel in the year 9999
    ClaimCap        \* FLUSH_GROUP_MEMBER_CLAIM_CAP

ASSUME GroupAssumption ==
    /\ GroupWait \in Nat \ {0}
    /\ GroupInterval \in Nat \ {0}
    /\ IdleAt \in Nat
    /\ ClaimCap \in Nat \ {0}

Never == -1     \* a timestamp column that is NULL

Earlier(a, b) == IF a <= b THEN a ELSE b
Later(a, b) == IF a >= b THEN a ELSE b

-----------------------------------------------------------------------------
(* Scheduling *)

(* nextGroupFlushAt for a group that exists; a new one books FirstArrival. *)
FirstArrival(now) == now + GroupWait

NextGroupFlushAtUnpaced(next, last, now) ==
    IF last = Never
      THEN IF next < IdleAt THEN next ELSE FirstArrival(now)
      ELSE Earlier(next, FirstArrival(now))
NextGroupFlushAt(next, last, now) ==
    IF last = Never
      THEN IF next < IdleAt THEN next ELSE FirstArrival(now)
      ELSE Earlier(next, Later(now, last + GroupInterval))

(* nextGroupFlushState: a committing flush books another run only when some *)
(* member is still unflushed, and never at or before the present.           *)
NextGroupFlushStateNull(pending, hasUnflushed, now) ==
    IF ~hasUnflushed THEN Never ELSE now + GroupInterval
NextGroupFlushStateParked(pending, hasUnflushed, now) == IdleAt
NextGroupFlushState(pending, hasUnflushed, now) ==
    IF ~hasUnflushed
      THEN IdleAt
      ELSE IF now < pending /\ pending < IdleAt THEN pending ELSE now + GroupInterval

-----------------------------------------------------------------------------
(* Members *)

(* The claim of deliverableGroupMemberQuery: unflushed members first, then  *)
(* the oldest, at most ClaimCap of them.                                    *)
Outranks(e, f, flushed) ==
    \/ e \notin flushed /\ f \in flushed
    \/ (e \in flushed <=> f \in flushed) /\ e < f

ClaimOf(members, flushed) ==
    {e \in members : Cardinality({f \in members : Outranks(f, e, flushed)}) < ClaimCap}

(* memberVerdict.  `rule` is the definition as the claim read it; `firing`  *)
(* the instances firing now; `batch` everything the flush claimed.          *)
ResolvedIn(batch, kind, subject) == {subject[e] : e \in {f \in batch : kind[f] = "resolved"}}

Deliverable(e, batch, rule, firing, kind, subject) ==
    /\ rule = "active"
    /\ \/ subject[e] \in ResolvedIn(batch, kind, subject)
       \/ subject[e] \in firing

DropReason(rule) ==
    CASE rule = "gone" -> "rule_deleted"
      [] rule = "paused" -> "rule_paused"
      [] OTHER -> "no_longer_firing"

-----------------------------------------------------------------------------
(* groupNotificationPlan, over the members a flush kept *)

Latest(members, subject) ==
    {e \in members : \A f \in members : subject[f] = subject[e] => f <= e}

Active(members, kind, subject) ==
    {e \in Latest(members, subject) : kind[e] = "fired"}

Announced(members, flushed, kind, subject) ==
    IF members \subseteq flushed
      THEN Active(members, kind, subject)
      ELSE Latest(members, subject)

(* A resolve whose own fires are in the batch, none of them ever flushed. *)
Flap(e, members, flushed, kind, subject) ==
    LET fires == {f \in members : subject[f] = subject[e] /\ kind[f] = "fired"}
    IN  kind[e] = "resolved" /\ fires # {} /\ fires \cap flushed = {}

Notify(members, flushed, kind, subject) ==
    {e \in Announced(members, flushed, kind, subject) :
        ~Flap(e, members, flushed, kind, subject)}

DroppedUnannounced(members, flushed, kind, subject) ==
    Announced(members, flushed, kind, subject) \ Notify(members, flushed, kind, subject)
=============================================================================
