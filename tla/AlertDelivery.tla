----------------------------- MODULE AlertDelivery -----------------------------
(***************************************************************************)
(* The delivery pipeline of one alert rule: the journal of notifying       *)
(* events, the process-event workers, the notification groups and their    *)
(* flushes, silences, and the rule mutations that run against all of them. *)
(*                                                                         *)
(* One action is one database statement or transaction of the source (a    *)
(* read and the guarded write right after it are one action); between two  *)
(* actions of a handler everything else may run.  A handler's local        *)
(* variables are a record, `worker[w]` or `flush[g]`.                      *)
(*                                                                         *)
(* Grouping is by rule and severity, so a group, a flush and a delivery    *)
(* concern one rule: other rules cannot interfere and are not modelled.    *)
(***************************************************************************)
EXTENDS NotificationGroup

CONSTANTS
    Instances,  \* alert instances of the rule
    Silences,   \* silences people can create
    Scopes,     \* what a silence may match: sets of <<instance, event type>>
    Channels,   \* notification channels
    Groups,     \* a subset of {"direct", "default"}: the rule's own group and
                \* the default destination's group for it
    Workers,    \* concurrent process-event jobs
    Mutations,  \* what people do: "pause", "labels", "delete", "unsilence"
    MaxEvents,  \* bound: events journaled
    Horizon,    \* bound: last time people and evaluations act
    MaxTime,    \* bound: last time the clock reads
    MaxThrows   \* bound: handler crashes or throws, below a job's 5 attempts

Events == 1..MaxEvents
Times == 0..MaxTime
Kinds == {"fired", "resolved"}

ASSUME DeliveryAssumption ==
    /\ Scopes \subseteq SUBSET (Instances \X Kinds)
    /\ Groups \subseteq {"direct", "default"}
    /\ Mutations \subseteq {"pause", "labels", "delete", "unsilence"}
    /\ MaxEvents \in Nat /\ MaxTime \in Nat /\ Horizon \in Nat
    /\ MaxThrows \in 0..4
    /\ MaxTime + GroupWait + GroupInterval < IdleAt

None == "none"
ASSUME NoneAssumption == None \notin Silences /\ None \notin Instances

VARIABLES
    now,        \* the wall clock
    rule,       \* alert_definitions: "active", "paused" or "gone"
    muted,      \* preview_id is set: a preview copy, evaluated, never notifying
    firing,     \* alert_instances with status firing
    tail,       \* alert_events: the last event journaled
    kind,       \* event_type: "fired" or "resolved"
    subject,    \* the instance the event is about
    claim,      \* processed_at: "open" while NULL, else who stamped it
    heldBy,     \* silence_id
    member,     \* alert_notification_group_events: "unflushed", "flushed"
    groups,     \* alert_notification_groups that exist
    nextFlush,  \* next_flush_at
    lastFlush,  \* last_flushed_at
    silenceEnd, \* alert_silences.ends_at, Never while not created
    covers,     \* the <<instance, event type>> pairs a silence matches
    processJobs,\* queued process-event jobs: <<event, run_at>>
    flushJobs,  \* queued flush-group jobs: <<group, run_at>>
    projections,\* queued lifecycle projections: <<event, reason>>
    worker,     \* process-event handlers
    flush,      \* flush-group handlers: one per group, its queue is serial
    deliveries, \* alert_deliveries, keyed by their dedup key
    terminals,  \* notification_suppressed rows: <<event, reason>>
    superseded, \* history: members a later event of their instance replaced
    lost,       \* history: events whose terminal died with a crashed handler
    throws      \* history: crashes so far

ruleVars == <<rule, muted, firing>>
journalVars == <<tail, kind, subject>>
groupVars == <<member, groups, nextFlush, lastFlush>>
silenceVars == <<silenceEnd, covers>>
jobVars == <<processJobs, flushJobs, projections>>
outcomeVars == <<deliveries, terminals, superseded, lost>>
vars == <<now, ruleVars, journalVars, claim, heldBy, groupVars, silenceVars,
          jobVars, worker, flush, outcomeVars, throws>>

Claims == {"open", "dispatched", "cancelled", "ended"}
Memberships == {"out", "unflushed", "flushed"}
Reasons == {"no_longer_firing", "no_channels", "silenced", "unannounced",
            "rule_paused", "rule_deleted", "labels_changed"}

Journaled == 1..tail
Members(g) == {e \in Events : member[g][e] # "out"}
Unflushed(g) == {e \in Events : member[g][e] = "unflushed"}

(* silenceIsInForce and silenceSelects, for the silences of the moment. *)
InForce(s) == now < silenceEnd[s]
SilencesOn(e) == {s \in Silences : InForce(s) /\ <<subject[e], kind[e]>> \in covers[s]}

(* The local variables of processAlertEvent.  `at` is the run_at of its job; *)
(* `wasHeld` what the event row said; `silence` and `until` the silence it   *)
(* was weighed against and `retry` whether the event fired at that moment;   *)
(* `reason` the terminal it still has to write.                              *)
Handling(pc, e, at, wasHeld, silence, until, retry, reason) ==
    [pc |-> pc, event |-> e, at |-> at, wasHeld |-> wasHeld, silence |-> silence,
     until |-> until, retry |-> retry, reason |-> reason]
IdleWorker == Handling("idle", 0, 0, FALSE, None, 0, FALSE, "no_channels")
Weighing(e, at, wasHeld) == Handling("weigh", e, at, wasHeld, None, 0, FALSE, "no_channels")
Owing(e, at, reason) == Handling("history", e, at, FALSE, None, 0, FALSE, reason)

(* The local variables of flushAlertGroup.  `due` is the run_at of its job;  *)
(* `at`, `rule`, `flushed`, `read` and `wasHeld` what the claim read;        *)
(* `claimed` the members it owns, `kept` those it announces, `defer` those a *)
(* silence covers, `target` the one being deferred and `retry` whether it    *)
(* was still firing, `drops` the terminals owed.                             *)
Flushing(pc, f, claimed, kept, defer, target, retry, drops) ==
    [pc |-> pc, due |-> f.due, at |-> f.at, rule |-> f.rule, claimed |-> claimed,
     flushed |-> f.flushed, read |-> f.read, wasHeld |-> f.wasHeld, kept |-> kept,
     defer |-> defer, target |-> target, retry |-> retry, drops |-> drops]
ClaimedBy(due, at, rows, flushed, wasHeld) ==
    [pc |-> "weigh", due |-> due, at |-> at, rule |-> rule, claimed |-> rows,
     flushed |-> flushed, read |-> claim, wasHeld |-> wasHeld, kept |-> {},
     defer |-> {}, target |-> 0, retry |-> FALSE, drops |-> {}]
IdleFlush ==
    [pc |-> "idle", due |-> 0, at |-> 0, rule |-> "active", claimed |-> {},
     flushed |-> {}, read |-> [e \in Events |-> "open"], wasHeld |-> {}, kept |-> {},
     defer |-> {}, target |-> 0, retry |-> FALSE, drops |-> {}]

Init ==
    /\ now = 0
    /\ rule = "active" /\ muted \in BOOLEAN
    /\ firing = {}
    /\ tail = 0
    /\ kind = [e \in Events |-> "fired"]
    /\ subject = [e \in Events |-> None]
    /\ claim = [e \in Events |-> "open"]
    /\ heldBy = [e \in Events |-> None]
    /\ member = [g \in Groups |-> [e \in Events |-> "out"]]
    /\ groups = {}
    /\ nextFlush = [g \in Groups |-> IdleAt]
    /\ lastFlush = [g \in Groups |-> Never]
    /\ silenceEnd = [s \in Silences |-> Never]
    /\ covers = [s \in Silences |-> {}]
    /\ processJobs = {} /\ flushJobs = {} /\ projections = {}
    /\ worker = [w \in Workers |-> IdleWorker]
    /\ flush = [g \in Groups |-> IdleFlush]
    /\ deliveries = {} /\ terminals = {} /\ superseded = {} /\ lost = {}
    /\ throws = 0

Tick ==
    /\ now < MaxTime
    /\ now' = now + 1
    /\ UNCHANGED <<ruleVars, journalVars, claim, heldBy, groupVars, silenceVars,
                   jobVars, worker, flush, outcomeVars, throws>>

-----------------------------------------------------------------------------
(* Evaluations, as delivery sees them: the journal entry, the instance row  *)
(* and the process-event job of one transition commit together.             *)

Journal(i, k) ==
    /\ now <= Horizon /\ tail < MaxEvents /\ rule = "active"
    /\ tail' = tail + 1
    /\ kind' = [kind EXCEPT ![tail + 1] = k]
    /\ subject' = [subject EXCEPT ![tail + 1] = i]
    /\ processJobs' = processJobs \cup {<<tail + 1, now>>}
    /\ UNCHANGED <<now, rule, muted, claim, heldBy, groupVars, silenceVars, flushJobs,
                   projections, worker, flush, outcomeVars, throws>>

Fire(i) ==
    /\ i \notin firing
    /\ firing' = firing \cup {i}
    /\ Journal(i, "fired")

Resolve(i) ==
    /\ i \in firing
    /\ firing' = firing \ {i}
    /\ Journal(i, "resolved")

-----------------------------------------------------------------------------
(* Rule mutations: one transaction each (closeRuleLifecycle and its callers) *)

(* cancelableNotifyingEventsFilter *)
CancelableDispatched == {e \in Journaled : claim[e] \in {"open", "dispatched"}}
CancelableUnheld == {e \in Journaled : claim[e] = "open" /\ heldBy[e] = None}
Cancelable == {e \in Journaled : claim[e] = "open"}

(* orphanedDirectChainsFilter: unflushed in the rule's own group, with no   *)
(* membership that flushed or that survives the cascade.                    *)
Orphaned ==
    {e \in Events : /\ "direct" \in Groups /\ member["direct"][e] = "unflushed"
                    /\ \A g \in Groups \ {"direct"} : member[g][e] = "out"}

CloseLifecycle(reason, suppressed) ==
    /\ claim' = [e \in Events |-> IF e \in Cancelable THEN "cancelled" ELSE claim[e]]
    /\ projections' = projections \cup {<<e, reason>> : e \in Cancelable \cup suppressed}
    /\ firing' = {}
    /\ UNCHANGED <<now, muted, journalVars, heldBy, silenceVars, processJobs, flushJobs,
                   worker, flush, outcomeVars, throws>>

PauseRule ==
    /\ "pause" \in Mutations /\ now <= Horizon /\ rule # "gone"
    /\ rule' = "paused"
    /\ CloseLifecycle("rule_paused", {})
    /\ UNCHANGED groupVars

ResumeRule ==
    /\ now <= Horizon /\ rule = "paused"
    /\ rule' = "active"
    /\ UNCHANGED <<now, muted, firing, journalVars, claim, heldBy, groupVars, silenceVars,
                   jobVars, worker, flush, outcomeVars, throws>>

(* updateRule and adoptRule with new label columns: the instances go, the   *)
(* rule stays as it was.                                                    *)
ChangeLabels ==
    /\ "labels" \in Mutations /\ now <= Horizon /\ rule # "gone"
    /\ rule' = rule
    /\ CloseLifecycle("labels_changed", {})
    /\ UNCHANGED groupVars

(* deleteRule: the cascade takes the rule's direct group and its members.   *)
DeleteRule ==
    /\ "delete" \in Mutations /\ now <= Horizon /\ rule # "gone"
    /\ rule' = "gone"
    /\ CloseLifecycle("rule_deleted", Orphaned)
    /\ groups' = groups \ {"direct"}
    /\ member' = [g \in Groups |-> IF g = "direct" THEN [e \in Events |-> "out"] ELSE member[g]]
    /\ UNCHANGED <<nextFlush, lastFlush>>

(* projectAlertLifecycle, the suppressed half: strict, so it retries until  *)
(* the row is written.                                                      *)
ProjectLifecycle(p) ==
    /\ p \in projections
    /\ projections' = projections \ {p}
    /\ terminals' = terminals \cup {p}
    /\ UNCHANGED <<now, ruleVars, journalVars, claim, heldBy, groupVars, silenceVars,
                   processJobs, flushJobs, worker, flush, deliveries, superseded, lost,
                   throws>>

-----------------------------------------------------------------------------
(* Silences.  A window that starts later is a silence created when it       *)
(* starts; every window is bounded by the horizon.                          *)

CreateSilence(s, scope, end) ==
    /\ now <= Horizon /\ silenceEnd[s] = Never /\ now < end /\ end <= Horizon + 1
    /\ silenceEnd' = [silenceEnd EXCEPT ![s] = end]
    /\ covers' = [covers EXCEPT ![s] = scope]
    /\ UNCHANGED <<now, ruleVars, journalVars, claim, heldBy, groupVars, jobVars,
                   worker, flush, outcomeVars, throws>>

(* expireSilence: close the window and release every event it holds. *)
ExpireSilence(s) ==
    /\ "unsilence" \in Mutations /\ now <= Horizon /\ InForce(s)
    /\ silenceEnd' = [silenceEnd EXCEPT ![s] = now]
    /\ processJobs' = processJobs \cup
                        {<<e, now>> : e \in {f \in Journaled : heldBy[f] = s /\ claim[f] = "open"}}
    /\ UNCHANGED <<now, ruleVars, journalVars, claim, heldBy, groupVars, covers, flushJobs,
                   projections, worker, flush, outcomeVars, throws>>

-----------------------------------------------------------------------------
(* processAlertEvent *)

(* What every step of a worker leaves alone. *)
WorkerFrame == UNCHANGED <<now, ruleVars, journalVars, silenceVars, projections, flush,
                           deliveries, superseded>>

Goto(w, pc) == worker' = [worker EXCEPT ![w].pc = pc]
Finish(w) == worker' = [worker EXCEPT ![w] = IdleWorker]

(* processedStampGuard: a stamp is written only over the claim that was     *)
(* read, so two owners cannot both have the event.                          *)
OwnsBlindly(e, read) == TRUE
Owns(e, read) == claim[e] = read

(* endChainWithTerminal: the stamp is the claim; losing it ends the run. *)
EndChain(w, e, at, reason) ==
    IF Owns(e, "open")
      THEN /\ claim' = [claim EXCEPT ![e] = "ended"]
           /\ worker' = [worker EXCEPT ![w] = Owing(e, at, reason)]
      ELSE Finish(w) /\ UNCHANGED claim

Due(w, j) ==
    /\ worker[w].pc = "idle"
    /\ j \in processJobs /\ j[2] <= now
    /\ processJobs' = processJobs \ {j}

(* The event is not processed yet and not muted. *)
DeliverableEvenMuted(w, j) == Due(w, j) /\ claim[j[1]] = "open"
DeliverableEvent(w, j) == Due(w, j) /\ claim[j[1]] = "open" /\ ~muted

ProcessDone(w, j) ==
    /\ Due(w, j)
    /\ claim[j[1]] # "open"
    /\ WorkerFrame
    /\ UNCHANGED <<claim, heldBy, groupVars, flushJobs, worker, terminals, lost, throws>>

ProcessMuted(w, j) ==
    /\ Due(w, j)
    /\ claim[j[1]] = "open" /\ muted
    /\ claim' = [claim EXCEPT ![j[1]] = "ended"]
    /\ WorkerFrame
    /\ UNCHANGED <<heldBy, groupVars, flushJobs, worker, terminals, lost, throws>>

StillFiring(e) == kind[e] = "fired" /\ subject[e] \in firing

ProcessStale(w, j) ==
    /\ DeliverableEvent(w, j)
    /\ kind[j[1]] = "fired" /\ ~StillFiring(j[1])
    /\ EndChain(w, j[1], j[2], "no_longer_firing")
    /\ WorkerFrame
    /\ UNCHANGED <<heldBy, groupVars, flushJobs, terminals, lost, throws>>

ProcessTake(w, j) ==
    /\ DeliverableEvent(w, j)
    /\ kind[j[1]] = "resolved" \/ StillFiring(j[1])
    /\ worker' = [worker EXCEPT ![w] = Weighing(j[1], j[2], heldBy[j[1]] # None)]
    /\ WorkerFrame
    /\ UNCHANGED <<claim, heldBy, groupVars, flushJobs, terminals, lost, throws>>

(* silenceForEvent, and whether the event still fires: both are read now    *)
(* and used by ProcessDefer.                                                 *)
ProcessSilenced(w, s) ==
    /\ worker[w].pc = "weigh" /\ s \in SilencesOn(worker[w].event)
    /\ worker' = [worker EXCEPT ![w] = Handling("defer", worker[w].event, worker[w].at,
                                          worker[w].wasHeld, s, silenceEnd[s],
                                          StillFiring(worker[w].event), "silenced")]
    /\ WorkerFrame
    /\ UNCHANGED <<claim, heldBy, groupVars, processJobs, flushJobs, terminals, lost, throws>>

ProcessAudible(w) ==
    /\ worker[w].pc = "weigh" /\ SilencesOn(worker[w].event) = {}
    /\ heldBy' = IF worker[w].wasHeld THEN [heldBy EXCEPT ![worker[w].event] = None] ELSE heldBy
    /\ Goto(w, "dispatch")
    /\ WorkerFrame
    /\ UNCHANGED <<claim, groupVars, processJobs, flushJobs, terminals, lost, throws>>

(* The transaction of deferSuppressedEvent: a fire that was still firing is  *)
(* held and wakes when the silence it was weighed against ends; anything     *)
(* else is processed.                                                        *)
HoldForgotten(e, s, until, retry) ==
    /\ heldBy' = [heldBy EXCEPT ![e] = s]
    /\ claim' = [claim EXCEPT ![e] = IF retry THEN "open" ELSE "ended"]
    /\ UNCHANGED processJobs
Hold(e, s, until, retry) ==
    /\ heldBy' = [heldBy EXCEPT ![e] = s]
    /\ claim' = [claim EXCEPT ![e] = IF retry THEN "open" ELSE "ended"]
    /\ processJobs' = processJobs \cup IF retry THEN {<<e, until>>} ELSE {}

ProcessDefer(w) ==
    LET e == worker[w].event
    IN  /\ worker[w].pc = "defer"
        /\ IF Owns(e, "open")
             THEN Hold(e, worker[w].silence, worker[w].until, worker[w].retry)
             ELSE UNCHANGED <<heldBy, claim, processJobs>>
        /\ IF Owns(e, "open") /\ ~worker[w].retry
             THEN worker' = [worker EXCEPT ![w] = Owing(e, worker[w].at, "silenced")]
             ELSE Finish(w)
        /\ WorkerFrame
        /\ UNCHANGED <<groupVars, flushJobs, terminals, lost, throws>>

(* dispatchTargetForEvent: the rule's own group while the definition exists, *)
(* else the default destination, as they are configured at that moment.      *)
Target(g) == g \in Groups /\ (g = "direct" => rule # "gone")

(* It found nothing. *)
ProcessUndeliverable(w) ==
    /\ worker[w].pc = "dispatch"
    /\ EndChain(w, worker[w].event, worker[w].at, "no_channels")
    /\ WorkerFrame
    /\ UNCHANGED <<heldBy, groupVars, processJobs, flushJobs, terminals, lost, throws>>

(* claimNotificationGroup: lock the group and book its flush, or create it. *)
Booking(g) ==
    IF g \in groups THEN NextGroupFlushAt(nextFlush[g], lastFlush[g], now)
                    ELSE FirstArrival(now)

(* The membership, the booking of the flush and the stamp are one           *)
(* transaction; without the claim it rolls back.                            *)
ProcessDispatch(w, g) ==
    LET e == worker[w].event
        next == Booking(g)
    IN  /\ worker[w].pc = "dispatch"
        /\ Target(g)
        /\ IF Owns(e, "open")
             THEN /\ claim' = [claim EXCEPT ![e] = "dispatched"]
                  /\ groups' = groups \cup {g}
                  /\ nextFlush' = [nextFlush EXCEPT ![g] = next]
                  /\ lastFlush' = IF g \in groups THEN lastFlush ELSE [lastFlush EXCEPT ![g] = Never]
                  /\ member' = IF member[g][e] = "out"
                                 THEN [member EXCEPT ![g][e] = "unflushed"] ELSE member
                  /\ flushJobs' = flushJobs \cup {<<g, next>>}
             ELSE UNCHANGED <<claim, groupVars, flushJobs>>
        /\ Finish(w)
        /\ WorkerFrame
        /\ UNCHANGED <<heldBy, processJobs, terminals, lost, throws>>

ProcessHistory(w) ==
    /\ worker[w].pc = "history"
    /\ terminals' = terminals \cup {<<worker[w].event, worker[w].reason>>}
    /\ Finish(w)
    /\ WorkerFrame
    /\ UNCHANGED <<claim, heldBy, groupVars, processJobs, flushJobs, lost, throws>>

(* The handler dies between two steps: its job runs again, and a terminal   *)
(* it had not written yet is gone.                                          *)
ProcessThrow(w) ==
    /\ worker[w].pc # "idle" /\ throws < MaxThrows
    /\ throws' = throws + 1
    /\ processJobs' = processJobs \cup {<<worker[w].event, worker[w].at>>}
    /\ lost' = IF worker[w].pc = "history" THEN lost \cup {worker[w].event} ELSE lost
    /\ Finish(w)
    /\ WorkerFrame
    /\ UNCHANGED <<claim, heldBy, groupVars, flushJobs, terminals>>

-----------------------------------------------------------------------------
(* flushAlertGroup *)

(* What every step of a flush leaves alone. *)
FlushFrame == UNCHANGED <<now, ruleVars, journalVars, silenceVars, projections, worker>>

DueFlush(g, j) ==
    /\ flush[g].pc = "idle"
    /\ j \in flushJobs /\ j[1] = g /\ j[2] <= now
    /\ flushJobs' = flushJobs \ {j}

(* The claim finds the group gone, or booked for later. *)
FlushEarly(g, j) ==
    /\ DueFlush(g, j)
    /\ g \notin groups \/ nextFlush[g] > now
    /\ FlushFrame
    /\ UNCHANGED <<claim, heldBy, groupVars, processJobs, flush, outcomeVars, throws>>

FlushPark(g, j) ==
    /\ DueFlush(g, j)
    /\ g \in groups /\ nextFlush[g] <= now /\ Members(g) = {}
    /\ nextFlush' = [nextFlush EXCEPT ![g] = IdleAt]
    /\ FlushFrame
    /\ UNCHANGED <<claim, heldBy, member, groups, lastFlush, processJobs, flush,
                   outcomeVars, throws>>

(* The claim reads each member with its event and the rule's liveness. *)
FlushClaim(g, j) ==
    LET flushed == Members(g) \ Unflushed(g)
        rows == ClaimOf(Members(g), flushed)
    IN  /\ DueFlush(g, j)
        /\ g \in groups /\ nextFlush[g] <= now /\ Members(g) # {}
        /\ flush' = [flush EXCEPT ![g] = ClaimedBy(j[2], nextFlush[g], rows, rows \cap flushed,
                                                   {e \in rows : heldBy[e] # None})]
        /\ FlushFrame
        /\ UNCHANGED <<claim, heldBy, groupVars, processJobs, outcomeVars, throws>>

(* Verdicts on the claimed rows, then one load of the silences.  A member   *)
(* a silence covers is to be deferred, any other is kept; `pick` is the     *)
(* silence the first match finds.                                           *)
Candidates(g) ==
    {e \in flush[g].claimed :
        Deliverable(e, flush[g].claimed, flush[g].rule, firing, kind, subject)}
Silenced(g) == {e \in Candidates(g) : SilencesOn(e) # {}}

FlushWeigh(g, pick) ==
    LET f == flush[g]
        kept == Candidates(g) \ Silenced(g)
    IN  /\ f.pc = "weigh"
        /\ \A e \in Silenced(g) : pick[e] \in SilencesOn(e)
        /\ flush' = [flush EXCEPT ![g] =
                       Flushing("defer", f, f.claimed, kept,
                                {<<e, pick[e], silenceEnd[pick[e]]>> : e \in Silenced(g)}, 0, FALSE,
                                {<<e, DropReason(f.rule)>> :
                                   e \in f.claimed \ (Candidates(g) \cup f.flushed)})]
        /\ heldBy' = [e \in Events |-> IF e \in f.wasHeld \cap kept THEN None ELSE heldBy[e]]
        /\ FlushFrame
        /\ UNCHANGED <<claim, groupVars, processJobs, flushJobs, outcomeVars, throws>>

(* deferSuppressedEvent from the flush.  First eventStillFiring, then the    *)
(* stamp: the claim must still be the one that the flush read.               *)
FlushCheck(g, d) ==
    LET f == flush[g]
    IN  /\ f.pc = "defer" /\ d \in f.defer
        /\ flush' = [flush EXCEPT ![g] = Flushing("hold", f, f.claimed, f.kept, f.defer, d[1],
                                                  StillFiring(d[1]), f.drops)]
        /\ FlushFrame
        /\ UNCHANGED <<claim, heldBy, groupVars, processJobs, flushJobs, outcomeVars, throws>>

FlushDefer(g, d) ==
    LET f == flush[g]
        e == d[1]
        owns == Owns(e, f.read[e])
    IN  /\ f.pc = "hold" /\ d \in f.defer /\ e = f.target
        /\ IF owns THEN Hold(e, d[2], d[3], f.retry) ELSE UNCHANGED <<heldBy, claim, processJobs>>
        /\ flush' = [flush EXCEPT ![g] =
                       Flushing("forget", f, f.claimed, f.kept, f.defer \ {d}, e, FALSE,
                                f.drops \cup IF owns /\ ~f.retry THEN {<<e, "silenced">>} ELSE {})]
        /\ FlushFrame
        /\ UNCHANGED <<groupVars, flushJobs, outcomeVars, throws>>

(* The terminal of a silenced resolve, then the membership: the id is       *)
(* deleted from the table and disowned.                                     *)
FlushForget(g) ==
    LET f == flush[g]
        e == f.target
    IN  /\ f.pc = "forget"
        /\ terminals' = terminals \cup (f.drops \cap {<<e, "silenced">>})
        /\ member' = [member EXCEPT ![g][e] = "out"]
        /\ flush' = [flush EXCEPT ![g] = Flushing("defer", f, f.claimed \ {e}, f.kept, f.defer, 0,
                                                  FALSE, f.drops \ {<<e, "silenced">>})]
        /\ FlushFrame
        /\ UNCHANGED <<claim, heldBy, groups, nextFlush, lastFlush, processJobs, flushJobs,
                       deliveries, superseded, lost, throws>>

(* The channels a flush finds: those its rule names, or its tier holds, that *)
(* exist at that moment.                                                     *)
ChannelsFound == SUBSET Channels

(* The plan over the kept members, and the channels found for it. *)
Notified(f) == Notify(f.kept, f.flushed, kind, subject)
UndeliveredToNobody(f, found) ==
    f.drops
      \cup {<<e, "unannounced">> : e \in DroppedUnannounced(f.kept, f.flushed, kind, subject)}
Undelivered(f, found) ==
    f.drops
      \cup {<<e, "unannounced">> : e \in DroppedUnannounced(f.kept, f.flushed, kind, subject)}
      \cup {<<e, "no_channels">> : e \in IF found = {} THEN Notified(f) ELSE {}}

EndFlush(g, owed) ==
    flush' = [flush EXCEPT ![g] = IF owed = {} THEN IdleFlush
                                  ELSE Flushing("history", [IdleFlush EXCEPT !.due = flush[g].due],
                                                {}, {}, {}, 0, FALSE, owed)]

Weighed(g) == flush[g].pc = "defer" /\ flush[g].defer = {}

FlushCommit(g, found) ==
    LET f == flush[g]
        active == Active(f.kept, kind, subject)
        after == [e \in Events |-> IF e \in active THEN "flushed"
                                   ELSE IF e \in f.claimed THEN "out" ELSE member[g][e]]
        left == \E e \in Events : after[e] = "unflushed"
        next == NextGroupFlushState(nextFlush[g], left, now)
    IN  /\ Weighed(g) /\ g \in groups
        /\ deliveries' = deliveries \cup
             {[group |-> g, channel |-> c, at |-> f.at, events |-> Notified(f)] :
                c \in IF Notified(f) = {} THEN {} ELSE found}
        /\ member' = [member EXCEPT ![g] = after]
        /\ nextFlush' = [nextFlush EXCEPT ![g] = next]
        /\ lastFlush' = [lastFlush EXCEPT ![g] = now]
        /\ flushJobs' = IF left THEN flushJobs \cup {<<g, next>>} ELSE flushJobs
        /\ superseded' = superseded \cup (f.kept \ Latest(f.kept, subject))
        /\ EndFlush(g, Undelivered(f, found))
        /\ FlushFrame
        /\ UNCHANGED <<claim, heldBy, groups, processJobs, terminals, lost, throws>>

(* A delete took the group meanwhile: nothing commits, and the terminals    *)
(* the flush had decided are still written.                                 *)
FlushOrphaned(g, found) ==
    /\ Weighed(g) /\ g \notin groups
    /\ EndFlush(g, Undelivered(flush[g], found))
    /\ FlushFrame
    /\ UNCHANGED <<claim, heldBy, groupVars, processJobs, flushJobs, outcomeVars, throws>>

FlushHistory(g) ==
    /\ flush[g].pc = "history"
    /\ terminals' = terminals \cup flush[g].drops
    /\ flush' = [flush EXCEPT ![g] = IdleFlush]
    /\ FlushFrame
    /\ UNCHANGED <<claim, heldBy, groupVars, processJobs, flushJobs, deliveries, superseded,
                   lost, throws>>

(* Only terminals whose member is already gone from the table are lost:     *)
(* before the commit the retry claims the others again.                     *)
FlushThrow(g) ==
    LET f == flush[g]
        gone == IF f.pc = "history" THEN {d[1] : d \in f.drops}
                ELSE {d[1] : d \in f.drops \cap {<<f.target, "silenced">>}}
    IN  /\ f.pc # "idle" /\ throws < MaxThrows
        /\ throws' = throws + 1
        /\ flushJobs' = flushJobs \cup {<<g, f.due>>}
        /\ lost' = lost \cup gone
        /\ flush' = [flush EXCEPT ![g] = IdleFlush]
        /\ FlushFrame
        /\ UNCHANGED <<claim, heldBy, groupVars, processJobs, deliveries, terminals, superseded>>

-----------------------------------------------------------------------------
WorkerStep(w) ==
    \/ \E j \in processJobs : ProcessDone(w, j) \/ ProcessMuted(w, j) \/ ProcessStale(w, j)
                              \/ ProcessTake(w, j)
    \/ \E s \in Silences : ProcessSilenced(w, s)
    \/ ProcessAudible(w) \/ ProcessDefer(w) \/ ProcessUndeliverable(w) \/ ProcessHistory(w)
    \/ \E g \in Groups : ProcessDispatch(w, g)

FlushStep(g) ==
    \/ \E j \in flushJobs : FlushEarly(g, j) \/ FlushPark(g, j) \/ FlushClaim(g, j)
    \/ \E pick \in [Silenced(g) -> Silences] : FlushWeigh(g, pick)
    \/ \E d \in flush[g].defer : FlushCheck(g, d) \/ FlushDefer(g, d)
    \/ FlushForget(g) \/ FlushHistory(g)
    \/ \E found \in ChannelsFound : FlushCommit(g, found) \/ FlushOrphaned(g, found)

People ==
    \/ \E i \in Instances : Fire(i) \/ Resolve(i)
    \/ PauseRule \/ ResumeRule \/ ChangeLabels \/ DeleteRule
    \/ \E s \in Silences :
         \/ ExpireSilence(s)
         \/ \E scope \in Scopes, end \in Times : CreateSilence(s, scope, end)

Work ==
    \/ People
    \/ \E p \in projections : ProjectLifecycle(p)
    \/ \E w \in Workers : WorkerStep(w) \/ ProcessThrow(w)
    \/ \E g \in Groups : FlushStep(g) \/ FlushThrow(g)

Next == Tick \/ Work

Spec == Init /\ [][Next]_vars

(* For liveness: the pool starts a due job, and a handler ends, before the   *)
(* clock (whose ticks stand for the group wait, tens of seconds) moves on,   *)
(* so that nothing is still due when the bounded clock stops.  Workers and   *)
(* flushes keep running while they have work; a queued projection retries.   *)
(* Nothing is assumed of people, evaluations or crashes.                     *)
Prompt ==
    /\ \A j \in processJobs : j[2] > now
    /\ \A j \in flushJobs : j[2] > now
    /\ \A w \in Workers : worker[w].pc = "idle"
    /\ \A g \in Groups : flush[g].pc = "idle"
PromptTick == Prompt /\ Tick

Fairness ==
    /\ WF_vars(PromptTick)
    /\ WF_vars(\E p \in projections : ProjectLifecycle(p))
    /\ \A w \in Workers : WF_vars(WorkerStep(w))
    /\ \A g \in Groups : WF_vars(FlushStep(g))

FairSpec == Init /\ [][PromptTick \/ Work]_vars /\ Fairness

-----------------------------------------------------------------------------
(* Properties *)

WorkerType ==
    {h \in [pc : {"idle", "weigh", "defer", "dispatch", "history"}, event : 0..MaxEvents,
            at : Times, wasHeld : BOOLEAN, silence : Silences \cup {None}, until : Times,
            retry : BOOLEAN, reason : Reasons] :
        (h.pc # "idle" => h.event # 0) /\ (h.pc = "defer" => h.silence # None)}
FlushType ==
    [pc : {"idle", "weigh", "defer", "hold", "forget", "history"}, due : Nat, at : Nat,
     rule : {"active", "paused", "gone"},
     claimed : SUBSET Events, flushed : SUBSET Events, read : [Events -> Claims],
     wasHeld : SUBSET Events, kept : SUBSET Events,
     defer : SUBSET (Events \X Silences \X Times), target : 0..MaxEvents,
     retry : BOOLEAN, drops : SUBSET (Events \X Reasons)]

(* Every row, job and handler has the columns its table, payload or function *)
(* declares.                                                                 *)
TypeOK ==
    /\ now \in Times
    /\ rule \in {"active", "paused", "gone"} /\ muted \in BOOLEAN
    /\ firing \subseteq Instances
    /\ tail \in 0..MaxEvents
    /\ kind \in [Events -> Kinds]
    /\ subject \in [Events -> Instances \cup {None}]
    /\ claim \in [Events -> Claims]
    /\ heldBy \in [Events -> Silences \cup {None}]
    /\ member \in [Groups -> [Events -> Memberships]]
    /\ groups \subseteq Groups
    /\ nextFlush \in [Groups -> Nat]
    /\ lastFlush \in [Groups -> Times \cup {Never}]
    /\ silenceEnd \in [Silences -> Times \cup {Never}]
    /\ covers \in [Silences -> SUBSET (Instances \X Kinds)]
    /\ processJobs \subseteq Events \X Times
    /\ flushJobs \subseteq Groups \X Nat
    /\ projections \subseteq Events \X Reasons
    /\ worker \in [Workers -> WorkerType]
    /\ flush \in [Groups -> FlushType]
    /\ deliveries \subseteq [group : Groups, channel : Channels, at : Nat,
                             events : SUBSET Events]
    /\ terminals \subseteq Events \X Reasons
    /\ superseded \subseteq Events
    /\ lost \subseteq Events
    /\ throws \in 0..MaxThrows

(* No member is stranded: while a group holds a member no flush has taken,   *)
(* the group is booked and a flush job is queued, or running, that is due at *)
(* or after the booking and so will not turn back as early                   *)
(* (nextGroupFlushAt and nextGroupFlushState with the sentinel IDLE).        *)
Booked(g) == {j[2] : j \in {k \in flushJobs : k[1] = g}}
               \cup IF flush[g].pc \notin {"idle", "history"} THEN {flush[g].due} ELSE {}
FlushBooked ==
    \A g \in Groups : Unflushed(g) # {} =>
        /\ g \in groups
        /\ nextFlush[g] < IdleAt
        /\ \E t \in Booked(g) : nextFlush[g] <= t

(* No event is forgotten: while processed_at is NULL a process-event job is  *)
(* queued for the event or a worker has it in its hands, across deferrals,   *)
(* releases, lost claims and retries.                                        *)
InHand(e) == \E w \in Workers : /\ worker[w].event = e
                                /\ worker[w].pc \in {"weigh", "defer", "dispatch"}
OpenHasJob ==
    \A e \in Journaled : claim[e] = "open" => (\E j \in processJobs : j[1] = e) \/ InHand(e)

(* A group pages at most once per interval: whatever is dispatched meanwhile *)
(* and however a capped flush books its own follow-up, two committing        *)
(* flushes of a group are a group interval apart.                            *)
PacedFlush ==
    [][\A g \in Groups :
         g \in groups /\ lastFlush[g] # Never /\ lastFlush'[g] # lastFlush[g]
           => lastFlush'[g] >= lastFlush[g] + GroupInterval]_vars

(* Chains end in an outcome: an event that left the process queue waits in a *)
(* group for its first flush, was delivered, has its terminal or had a later *)
(* event of its instance announced for it; or a handler or a queued          *)
(* projection still owes the terminal.                                       *)
Delivered == UNION {d.events : d \in deliveries}
Suppressed == {t[1] : t \in terminals}
Owed == {p[1] : p \in projections}
          \cup {worker[w].event : w \in {v \in Workers : worker[v].pc = "history"}}
          \cup UNION {{d[1] : d \in flush[g].drops} : g \in Groups}
ChainOwned ==
    muted \/ \A e \in Journaled : claim[e] # "open" =>
        \/ e \in Delivered \cup Suppressed \cup superseded \cup lost \cup Owed
        \/ \E g \in Groups : member[g][e] = "unflushed"

(* The pipeline implements the lifecycle NotificationChain promises: one     *)
(* owner per claim, a cancel that takes every waiting event and stands, and  *)
(* no announcement of an event whose chain is not in a notification.         *)
StageOf(e) ==
    CASE e > tail -> "unborn"
      [] e <= tail /\ claim[e] = "open" -> "waiting"
      [] e <= tail /\ claim[e] = "dispatched" -> "joined"
      [] OTHER -> claim[e]
Chain == INSTANCE NotificationChain WITH stage <- [e \in Events |-> StageOf(e)],
                                         announced <- Delivered
ImplementsChain == Chain!Spec

(* One terminal suppression per chain (clickhouse.ts, journalTerminalRow):   *)
(* however a flush, a worker and a lifecycle projection meet, an event is    *)
(* never recorded as suppressed for two reasons.                             *)
OneTerminal == \A p, q \in terminals : p[1] = q[1] => p = q

(* A muted copy runs the same evaluations and pipeline and never reaches a   *)
(* group, a delivery or a terminal of its own.                               *)
MutedStaysQuiet ==
    muted => /\ deliveries = {} /\ groups = {}
             /\ \A t \in terminals : claim[t[1]] = "cancelled"

(* Every notifying event is accounted for in the end.                        *)
Settled(e) == e \in Delivered \cup Suppressed \cup superseded \cup lost
Settles == \A e \in Events : (e \in Journaled /\ ~muted) ~> Settled(e)
=============================================================================
