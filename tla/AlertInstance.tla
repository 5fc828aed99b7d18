----------------------------- MODULE AlertInstance -----------------------------
(***************************************************************************)
(* One alert instance under one evaluation: the state machine of           *)
(* packages/app/src/server/alerting/evaluation/state-machine.ts, with the   *)
(* journal entry and the episode the transition gives it                   *)
(* (evaluation/rule.ts).  Labels, evidence and values are left out, and     *)
(* with them active_since, which nothing decides on.                       *)
(***************************************************************************)
EXTENDS Integers

CONSTANTS
    ForSecs,        \* spec.for_secs
    ResolveAfter,   \* spec.resolve_after
    Interval        \* spec.interval_secs

ASSUME InstanceAssumption ==
    /\ ForSecs \in Nat
    /\ ResolveAfter \in Nat \ {0}
    /\ Interval \in Nat \ {0}

Null == -1      \* a timestamp, or an episode, that is NULL

(* A row of alert_instances; an instance without a row is Fresh. *)
Row(status, since, seen, absent, episode) ==
    [status |-> status, since |-> since, seen |-> seen, absent |-> absent, episode |-> episode]
Fresh == Row("inactive", Null, Null, 0, Null)

(* Further apart than two intervals, nobody watched in between. *)
MissedEvaluationTolerance == 2
Unobserved(row, at) == row.seen # Null /\ at - row.seen > Interval * MissedEvaluationTolerance

(* pendingSince of an instance the query found. *)
SinceStored(row, at) == row.since
SinceUnbroken(row, at) ==
    IF row.status = "inactive" \/ row.absent > 0 \/ row.since = Null THEN at ELSE row.since
Since(row, at) ==
    IF row.status = "inactive" \/ row.absent > 0 \/ Unobserved(row, at) \/ row.since = Null
      THEN at ELSE row.since

StillThere(row, at) ==
    LET fires == row.status # "firing" /\ at - Since(row, at) >= ForSecs
    IN  [row EXCEPT !.status = IF fires THEN "firing"
                               ELSE IF @ = "inactive" THEN "pending" ELSE @,
                    !.since = Since(row, at), !.seen = at, !.absent = 0]

NotThere(row) ==
    IF row.status = "inactive" THEN row
    ELSE IF row.absent + 1 < ResolveAfter THEN [row EXCEPT !.absent = @ + 1]
    ELSE [row EXCEPT !.status = "inactive", !.since = Null, !.absent = 0]

(* advanceAlertInstance: the next row and the event, none when they agree.  *)
Advance(row, present, at) == IF present THEN StillThere(row, at) ELSE NotThere(row)

Event(row, next) ==
    CASE row.status = next.status                                  -> "none"
      [] row.status # next.status /\ next.status = "firing"        -> "fired"
      [] row.status # next.status /\ next.status = "pending"       -> "pending"
      [] row.status = "firing" /\ next.status = "inactive"         -> "resolved"
      [] row.status = "pending" /\ next.status = "inactive"        -> "closed"

(* transitionEventRows: the event that leaves inactive opens the episode    *)
(* with its own id, a terminal closes the one it carries.                   *)
Terminal(event) == event \in {"resolved", "closed"}
EpisodeKept(event, stored, id) == stored
EpisodeOf(event, stored, id) ==
    IF event = "pending" \/ (event = "fired" /\ stored = Null) THEN id ELSE stored
EpisodeAfter(event, stored, id) == IF Terminal(event) THEN Null ELSE EpisodeOf(event, stored, id)
=============================================================================
