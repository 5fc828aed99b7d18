--------------------------- MODULE AlertDelivery_types ---------------------------
(* Type correctness of AlertDelivery, for every value of its constants.      *)
EXTENDS AlertDelivery, TLAPS

USE DeliveryAssumption, GroupAssumption, NoneAssumption

-----------------------------------------------------------------------------
(* The records of the handlers *)

LEMMA IdleWorkerType == IdleWorker \in WorkerType
  BY DEF IdleWorker, Handling, WorkerType, Times, Reasons

LEMMA IdleFlushType == IdleFlush \in FlushType
  BY DEF IdleFlush, FlushType, Claims

LEMMA FlushingType ==
    ASSUME NEW pc \in {"idle", "weigh", "defer", "hold", "forget", "history"}, NEW f \in FlushType,
           NEW claimed \in SUBSET Events, NEW kept \in SUBSET Events,
           NEW defer \in SUBSET (Events \X Silences \X Times),
           NEW target \in 0..MaxEvents, NEW retry \in BOOLEAN,
           NEW drops \in SUBSET (Events \X Reasons)
    PROVE  Flushing(pc, f, claimed, kept, defer, target, retry, drops) \in FlushType
  BY DEF Flushing, FlushType

(* Silences in force have an end the clock can still reach. *)
LEMMA InForceEnds ==
    ASSUME TypeOK, NEW s \in Silences, InForce(s) PROVE silenceEnd[s] \in Times
  BY DEF TypeOK, InForce, Times, Never

-----------------------------------------------------------------------------
(* Type correctness *)

LEMMA InitType == Init => TypeOK
  BY IdleWorkerType, IdleFlushType
  DEF Init, TypeOK, Events, Times, Kinds, Claims, Memberships, Never

LEMMA TickType == ASSUME TypeOK, Tick PROVE TypeOK'
  BY DEF TypeOK, Tick, Times, ruleVars, journalVars, groupVars, silenceVars, jobVars, outcomeVars

LEMMA FireType == ASSUME TypeOK, NEW i \in Instances, Fire(i) PROVE TypeOK'
  BY DEF TypeOK, Fire, Journal, Times, Events, Kinds, groupVars, silenceVars, outcomeVars

LEMMA ResolveType == ASSUME TypeOK, NEW i \in Instances, Resolve(i) PROVE TypeOK'
  BY DEF TypeOK, Resolve, Journal, Times, Events, Kinds, groupVars, silenceVars, outcomeVars

LEMMA CloseType ==
    ASSUME TypeOK, NEW reason \in Reasons, NEW S \in SUBSET Events, CloseLifecycle(reason, S)
    PROVE  /\ claim' \in [Events -> Claims]
           /\ projections' \subseteq Events \X Reasons
           /\ firing' \subseteq Instances
  BY DEF TypeOK, CloseLifecycle, Cancelable, Journaled, Events, Claims

LEMMA PauseType == ASSUME TypeOK, PauseRule PROVE TypeOK'
<1>1. CloseLifecycle("rule_paused", {}) BY DEF PauseRule
<1>2. "rule_paused" \in Reasons BY DEF Reasons
<1> QED BY <1>1, <1>2, CloseType
  DEF TypeOK, PauseRule, CloseLifecycle, journalVars, groupVars, silenceVars, outcomeVars

LEMMA ResumeType == ASSUME TypeOK, ResumeRule PROVE TypeOK'
  BY DEF TypeOK, ResumeRule, journalVars, groupVars, silenceVars, jobVars, outcomeVars

LEMMA LabelsType == ASSUME TypeOK, ChangeLabels PROVE TypeOK'
<1>1. CloseLifecycle("labels_changed", {}) BY DEF ChangeLabels
<1>2. "labels_changed" \in Reasons BY DEF Reasons
<1> QED BY <1>1, <1>2, CloseType
  DEF TypeOK, ChangeLabels, CloseLifecycle, journalVars, groupVars, silenceVars, outcomeVars

LEMMA DeleteType == ASSUME TypeOK, DeleteRule PROVE TypeOK'
<1>1. CloseLifecycle("rule_deleted", Orphaned) BY DEF DeleteRule
<1>2. "rule_deleted" \in Reasons /\ Orphaned \in SUBSET Events BY DEF Reasons, Orphaned
<1>3. member' \in [Groups -> [Events -> Memberships]] BY DEF TypeOK, DeleteRule, Memberships
<1> QED BY <1>1, <1>2, <1>3, CloseType
  DEF TypeOK, DeleteRule, CloseLifecycle, journalVars, silenceVars, outcomeVars

LEMMA ProjectType ==
    ASSUME TypeOK, NEW p \in projections, ProjectLifecycle(p) PROVE TypeOK'
  BY DEF TypeOK, ProjectLifecycle, ruleVars, journalVars, groupVars, silenceVars

LEMMA CreateType ==
    ASSUME TypeOK, NEW s \in Silences, NEW scope \in Scopes, NEW end \in Times,
           CreateSilence(s, scope, end)
    PROVE  TypeOK'
  BY DEF TypeOK, CreateSilence, ruleVars, journalVars, groupVars, jobVars, outcomeVars

LEMMA ExpireType == ASSUME TypeOK, NEW s \in Silences, ExpireSilence(s) PROVE TypeOK'
  BY DEF TypeOK, ExpireSilence, Journaled, Events, ruleVars, journalVars, groupVars, outcomeVars

(* processAlertEvent *)

(* A handler that is not idle has an event, and a silence once it defers. *)
LEMMA Busy ==
    ASSUME TypeOK, NEW w \in Workers
    PROVE  /\ worker[w] \in WorkerType
           /\ worker[w].at \in Times /\ worker[w].until \in Times
           /\ worker[w].reason \in Reasons /\ worker[w].retry \in BOOLEAN
           /\ worker[w].pc # "idle" => worker[w].event \in Events
           /\ worker[w].pc = "defer" => worker[w].silence \in Silences
  BY DEF TypeOK, WorkerType, Events

LEMMA EndChainType ==
    ASSUME TypeOK, NEW w \in Workers, NEW e \in Events, NEW at \in Times,
           NEW reason \in Reasons, EndChain(w, e, at, reason)
    PROVE  claim' \in [Events -> Claims] /\ worker' \in [Workers -> WorkerType]
<1>1. Owing(e, at, reason) \in WorkerType
  BY DEF Owing, Handling, WorkerType, Times, Events
<1> QED BY <1>1, IdleWorkerType DEF TypeOK, EndChain, Finish, Claims

LEMMA HoldType ==
    ASSUME TypeOK, NEW e \in Events, NEW s \in Silences, NEW until \in Times,
           NEW retry \in BOOLEAN, Hold(e, s, until, retry)
    PROVE  /\ heldBy' \in [Events -> Silences \cup {None}]
           /\ claim' \in [Events -> Claims]
           /\ processJobs' \subseteq Events \X Times
  BY DEF TypeOK, Hold, Claims

LEMMA DoneType ==
    ASSUME TypeOK, NEW w \in Workers, NEW j \in processJobs, ProcessDone(w, j) PROVE TypeOK'
  BY DEF TypeOK, ProcessDone, Due, groupVars, outcomeVars, WorkerFrame, ruleVars, journalVars, silenceVars

LEMMA MutedType ==
    ASSUME TypeOK, NEW w \in Workers, NEW j \in processJobs, ProcessMuted(w, j) PROVE TypeOK'
  BY DEF TypeOK, ProcessMuted, Due, Claims, groupVars, outcomeVars, WorkerFrame, ruleVars, journalVars, silenceVars

LEMMA StaleType ==
    ASSUME TypeOK, NEW w \in Workers, NEW j \in processJobs, ProcessStale(w, j) PROVE TypeOK'
<1>1. j[1] \in Events /\ j[2] \in Times BY DEF TypeOK
<1>2. "no_longer_firing" \in Reasons BY DEF Reasons
<1>3. claim' \in [Events -> Claims] /\ worker' \in [Workers -> WorkerType]
  BY <1>1, <1>2, EndChainType DEF ProcessStale
<1> QED BY <1>3 DEF TypeOK, ProcessStale, DeliverableEvent, Due, groupVars, outcomeVars, WorkerFrame, ruleVars, journalVars, silenceVars

LEMMA TakeType ==
    ASSUME TypeOK, NEW w \in Workers, NEW j \in processJobs, ProcessTake(w, j) PROVE TypeOK'
<1>1. j[1] \in Events /\ j[2] \in Times BY DEF TypeOK
<1>2. Weighing(j[1], j[2], heldBy[j[1]] # None) \in WorkerType
  BY <1>1 DEF Weighing, Handling, WorkerType, Times, Events, Reasons
<1>3. worker' \in [Workers -> WorkerType] BY <1>2 DEF TypeOK, ProcessTake
<1> QED BY <1>3 DEF TypeOK, ProcessTake, DeliverableEvent, Due, groupVars, outcomeVars, WorkerFrame, ruleVars, journalVars, silenceVars

LEMMA SilencedType ==
    ASSUME TypeOK, NEW w \in Workers, NEW s \in Silences, ProcessSilenced(w, s) PROVE TypeOK'
<1>1. silenceEnd[s] \in Times BY InForceEnds DEF ProcessSilenced, SilencesOn
<1>2. worker[w] \in WorkerType BY DEF TypeOK
<1>3. Handling("defer", worker[w].event, worker[w].at, worker[w].wasHeld, s, silenceEnd[s],
               StillFiring(worker[w].event), "silenced") \in WorkerType
  BY <1>1, <1>2 DEF ProcessSilenced, Handling, WorkerType, Reasons, StillFiring
<1>4. worker' \in [Workers -> WorkerType] BY <1>3 DEF TypeOK, ProcessSilenced
<1> QED BY <1>4 DEF TypeOK, ProcessSilenced, groupVars, outcomeVars, WorkerFrame, ruleVars, journalVars, silenceVars

LEMMA AudibleType ==
    ASSUME TypeOK, NEW w \in Workers, ProcessAudible(w) PROVE TypeOK'
<1>0. [worker[w] EXCEPT !.pc = "dispatch"] \in WorkerType
  BY Busy DEF ProcessAudible, WorkerType
<1>1. worker' \in [Workers -> WorkerType] BY <1>0 DEF TypeOK, ProcessAudible, Goto
<1>2. heldBy' \in [Events -> Silences \cup {None}] BY DEF TypeOK, ProcessAudible
<1> QED BY <1>1, <1>2 DEF TypeOK, ProcessAudible, groupVars, outcomeVars, WorkerFrame, ruleVars, journalVars, silenceVars

LEMMA DeferType ==
    ASSUME TypeOK, NEW w \in Workers, ProcessDefer(w) PROVE TypeOK'
<1>1. /\ worker[w].event \in Events /\ worker[w].silence \in Silences
      /\ worker[w].at \in Times /\ worker[w].until \in Times /\ worker[w].retry \in BOOLEAN
  BY Busy DEF ProcessDefer
<1>2. Owing(worker[w].event, worker[w].at, "silenced") \in WorkerType
  BY <1>1 DEF Owing, Handling, WorkerType, Times, Events, Reasons
<1>3. worker' \in [Workers -> WorkerType]
  BY <1>2, IdleWorkerType DEF TypeOK, ProcessDefer, Finish
<1>4. /\ heldBy' \in [Events -> Silences \cup {None}]
      /\ claim' \in [Events -> Claims]
      /\ processJobs' \subseteq Events \X Times
  BY <1>1, HoldType DEF TypeOK, ProcessDefer
<1> QED BY <1>3, <1>4 DEF TypeOK, ProcessDefer, groupVars, outcomeVars, WorkerFrame, ruleVars, journalVars, silenceVars

LEMMA UndeliverableType ==
    ASSUME TypeOK, NEW w \in Workers, ProcessUndeliverable(w) PROVE TypeOK'
<1>1. worker[w].event \in Events /\ worker[w].at \in Times BY Busy DEF ProcessUndeliverable
<1>2. "no_channels" \in Reasons BY DEF Reasons
<1>3. claim' \in [Events -> Claims] /\ worker' \in [Workers -> WorkerType]
  BY <1>1, <1>2, EndChainType DEF ProcessUndeliverable
<1> QED BY <1>3 DEF TypeOK, ProcessUndeliverable, groupVars, outcomeVars, WorkerFrame, ruleVars, journalVars, silenceVars

(* A dispatch books the flush before the idle sentinel. *)
LEMMA BookingType ==
    ASSUME TypeOK, NEW g \in Groups
    PROVE  /\ FirstArrival(now) \in Nat /\ FirstArrival(now) < IdleAt
           /\ Booking(g) \in Nat /\ Booking(g) < IdleAt
<1>1. /\ now \in 0..MaxTime /\ nextFlush[g] \in Nat
      /\ lastFlush[g] \in 0..MaxTime \cup {Never}
  BY DEF TypeOK, Times
<1> QED BY <1>1 DEF Booking, FirstArrival, NextGroupFlushAt, Earlier, Later, Never

LEMMA DispatchType ==
    ASSUME TypeOK, NEW w \in Workers, NEW g \in Groups,
           ProcessDispatch(w, g)
    PROVE  TypeOK'
<1>0. worker[w].event \in Events BY Busy DEF ProcessDispatch
<1>1. worker' \in [Workers -> WorkerType] BY IdleWorkerType DEF TypeOK, ProcessDispatch, Finish
<1>2. claim' \in [Events -> Claims] BY <1>0 DEF TypeOK, ProcessDispatch, Claims
<1>3. member' \in [Groups -> [Events -> Memberships]]
  BY <1>0 DEF TypeOK, ProcessDispatch, Memberships, groupVars
<1>4. nextFlush' \in [Groups -> Nat] /\ flushJobs' \subseteq Groups \X Nat
  <2> DEFINE next == Booking(g)
  <2>1. next \in Nat BY BookingType
  <2>2. \/ nextFlush' = [nextFlush EXCEPT ![g] = next] /\ flushJobs' = flushJobs \cup {<<g, next>>}
        \/ UNCHANGED <<nextFlush, flushJobs>>
    BY DEF ProcessDispatch, groupVars
  <2> HIDE DEF next
  <2> QED BY <2>1, <2>2 DEF TypeOK
<1>5. lastFlush' \in [Groups -> Times \cup {Never}]
  <2>1. CASE lastFlush' = [lastFlush EXCEPT ![g] = Never] BY <2>1 DEF TypeOK
  <2>2. CASE UNCHANGED lastFlush BY <2>2 DEF TypeOK
  <2> QED BY <2>1, <2>2 DEF ProcessDispatch, groupVars
<1>6. groups' \subseteq Groups
  <2>1. CASE groups' = groups \cup {g} BY <2>1 DEF TypeOK
  <2>2. CASE UNCHANGED groups BY <2>2 DEF TypeOK
  <2> QED BY <2>1, <2>2 DEF ProcessDispatch, groupVars
<1> QED BY <1>1, <1>2, <1>3, <1>4, <1>5, <1>6
  DEF TypeOK, ProcessDispatch, outcomeVars, WorkerFrame, ruleVars, journalVars, silenceVars

LEMMA HistoryType ==
    ASSUME TypeOK, NEW w \in Workers, ProcessHistory(w) PROVE TypeOK'
<1>1. worker' \in [Workers -> WorkerType] BY IdleWorkerType DEF TypeOK, ProcessHistory, Finish
<1>2. worker[w].event \in Events /\ worker[w].reason \in Reasons BY Busy DEF ProcessHistory
<1> QED BY <1>1, <1>2 DEF TypeOK, ProcessHistory, groupVars, outcomeVars, WorkerFrame, ruleVars, journalVars, silenceVars

LEMMA ThrowType ==
    ASSUME TypeOK, NEW w \in Workers, ProcessThrow(w) PROVE TypeOK'
<1>1. worker' \in [Workers -> WorkerType] BY IdleWorkerType DEF TypeOK, ProcessThrow, Finish
<1>2. worker[w].event \in Events /\ worker[w].at \in Times BY Busy DEF ProcessThrow
<1> QED BY <1>1, <1>2 DEF TypeOK, ProcessThrow, groupVars, outcomeVars, WorkerFrame, ruleVars, journalVars, silenceVars

(* flushAlertGroup *)

(* What a flush holds in its local variables. *)
LEMMA Held ==
    ASSUME TypeOK, NEW g \in Groups
    PROVE  /\ flush[g] \in FlushType
           /\ flush[g].due \in Nat /\ flush[g].at \in Nat
           /\ flush[g].claimed \in SUBSET Events /\ flush[g].kept \in SUBSET Events
           /\ flush[g].flushed \in SUBSET Events
           /\ flush[g].wasHeld \in SUBSET Events
           /\ flush[g].defer \in SUBSET (Events \X Silences \X Times)
           /\ flush[g].target \in 0..MaxEvents /\ flush[g].retry \in BOOLEAN
           /\ flush[g].drops \in SUBSET (Events \X Reasons)
  BY DEF TypeOK, FlushType

LEMMA EarlyType ==
    ASSUME TypeOK, NEW g \in Groups, NEW j \in flushJobs, FlushEarly(g, j) PROVE TypeOK'
  BY DEF TypeOK, FlushEarly, DueFlush, groupVars, outcomeVars, FlushFrame, ruleVars, journalVars, silenceVars

LEMMA ParkType ==
    ASSUME TypeOK, NEW g \in Groups, NEW j \in flushJobs, FlushPark(g, j) PROVE TypeOK'
  BY DEF TypeOK, FlushPark, DueFlush, outcomeVars, FlushFrame, ruleVars, journalVars, silenceVars

LEMMA ClaimType ==
    ASSUME TypeOK, NEW g \in Groups, NEW j \in flushJobs, FlushClaim(g, j) PROVE TypeOK'
<1> DEFINE flushed == Members(g) \ Unflushed(g)
           rows == ClaimOf(Members(g), flushed)
           held == {e \in rows : heldBy[e] # None}
<1>1. rows \in SUBSET Events BY DEF ClaimOf, Members
<1>2. held \in SUBSET Events /\ rows \cap flushed \in SUBSET Events BY <1>1
<1>3. j[2] \in Nat /\ nextFlush[g] \in Nat BY DEF TypeOK
<1>4. flush' = [flush EXCEPT ![g] = ClaimedBy(j[2], nextFlush[g], rows, rows \cap flushed, held)]
  BY DEF FlushClaim
<1> HIDE DEF flushed, rows, held
<1>5. ClaimedBy(j[2], nextFlush[g], rows, rows \cap flushed, held) \in FlushType
  BY <1>1, <1>2, <1>3 DEF ClaimedBy, FlushType, TypeOK
<1>6. flush' \in [Groups -> FlushType] BY <1>4, <1>5 DEF TypeOK
<1> QED BY <1>6 DEF TypeOK, FlushClaim, DueFlush, groupVars, outcomeVars, FlushFrame, ruleVars, journalVars, silenceVars

LEMMA WeighType ==
    ASSUME TypeOK, NEW g \in Groups, NEW pick \in [Silenced(g) -> Silences], FlushWeigh(g, pick)
    PROVE  TypeOK'
<1> DEFINE f == flush[g]
           kept == Candidates(g) \ Silenced(g)
           defer == {<<e, pick[e], silenceEnd[pick[e]]>> : e \in Silenced(g)}
           drops == {<<e, DropReason(f.rule)>> : e \in f.claimed \ (Candidates(g) \cup f.flushed)}
<1>1. Candidates(g) \in SUBSET Events /\ Silenced(g) \in SUBSET Events
  BY Held DEF Candidates, Silenced
<1>2. defer \in SUBSET (Events \X Silences \X Times)
  <2> SUFFICES ASSUME NEW e \in Silenced(g)
               PROVE  <<e, pick[e], silenceEnd[pick[e]]>> \in Events \X Silences \X Times
    OBVIOUS
  <2>1. pick[e] \in Silences /\ InForce(pick[e]) BY DEF FlushWeigh, SilencesOn
  <2> QED BY <1>1, <2>1, InForceEnds
<1>3. DropReason(f.rule) \in Reasons BY DEF DropReason, Reasons
<1>4. drops \in SUBSET (Events \X Reasons) BY <1>3, Held
<1>5. kept \in SUBSET Events BY <1>1
<1>6. flush' = [flush EXCEPT ![g] = Flushing("defer", f, f.claimed, kept, defer, 0, FALSE, drops)]
  BY DEF FlushWeigh
<1>7. f \in FlushType /\ f.claimed \in SUBSET Events BY Held
<1>8. heldBy' = [e \in Events |-> IF e \in f.wasHeld \cap kept THEN None ELSE heldBy[e]]
  BY DEF FlushWeigh
<1> HIDE DEF f, kept, defer, drops
<1>9. Flushing("defer", f, f.claimed, kept, defer, 0, FALSE, drops) \in FlushType
  BY <1>2, <1>4, <1>5, <1>7 DEF Flushing, FlushType
<1>10. flush' \in [Groups -> FlushType] BY <1>6, <1>9 DEF TypeOK
<1>11. heldBy' \in [Events -> Silences \cup {None}] BY <1>8 DEF TypeOK
<1> QED BY <1>10, <1>11 DEF TypeOK, FlushWeigh, groupVars, outcomeVars, FlushFrame, ruleVars, journalVars, silenceVars

LEMMA CheckType ==
    ASSUME TypeOK, NEW g \in Groups, NEW d \in flush[g].defer, FlushCheck(g, d) PROVE TypeOK'
<1> DEFINE f == flush[g]
<1>1. d \in Events \X Silences \X Times BY Held
<1>2. d[1] \in 0..MaxEvents /\ StillFiring(d[1]) \in BOOLEAN BY <1>1 DEF Events, StillFiring
<1>3. flush' = [flush EXCEPT ![g] = Flushing("hold", f, f.claimed, f.kept, f.defer, d[1],
                                             StillFiring(d[1]), f.drops)]
  BY DEF FlushCheck
<1>4. f \in FlushType BY Held
<1> HIDE DEF f
<1>5. Flushing("hold", f, f.claimed, f.kept, f.defer, d[1], StillFiring(d[1]), f.drops) \in FlushType
  BY <1>2, <1>4 DEF Flushing, FlushType
<1>6. flush' \in [Groups -> FlushType] BY <1>3, <1>5 DEF TypeOK
<1> QED BY <1>6 DEF TypeOK, FlushCheck, groupVars, outcomeVars, FlushFrame, ruleVars, journalVars, silenceVars

LEMMA FlushDeferType ==
    ASSUME TypeOK, NEW g \in Groups, NEW d \in flush[g].defer, FlushDefer(g, d) PROVE TypeOK'
<1> DEFINE f == flush[g]
           e == d[1]
           drops == f.drops \cup IF Owns(e, f.read[e]) /\ ~f.retry THEN {<<e, "silenced">>} ELSE {}
<1>1. d \in Events \X Silences \X Times BY Held
<1>2. e \in Events /\ d[2] \in Silences /\ d[3] \in Times /\ f.retry \in BOOLEAN BY <1>1, Held
<1>3. drops \in SUBSET (Events \X Reasons)
  <2>1. <<e, "silenced">> \in Events \X Reasons BY <1>2 DEF Reasons
  <2>2. f.drops \in SUBSET (Events \X Reasons) BY Held
  <2> HIDE DEF f, e
  <2> QED BY <2>1, <2>2
<1>4. flush' = [flush EXCEPT ![g] =
                  Flushing("forget", f, f.claimed, f.kept, f.defer \ {d}, e, FALSE, drops)]
  BY DEF FlushDefer
<1>5. /\ f \in FlushType /\ f.claimed \in SUBSET Events /\ f.kept \in SUBSET Events
      /\ f.defer \ {d} \in SUBSET (Events \X Silences \X Times) /\ e \in 0..MaxEvents
  BY <1>2, Held DEF Events
<1>6. /\ heldBy' \in [Events -> Silences \cup {None}]
      /\ claim' \in [Events -> Claims]
      /\ processJobs' \subseteq Events \X Times
  <2>1. CASE Hold(e, d[2], d[3], f.retry) BY <1>2, <2>1, HoldType
  <2>2. CASE UNCHANGED <<heldBy, claim, processJobs>> BY <2>2 DEF TypeOK
  <2> QED BY <2>1, <2>2 DEF FlushDefer
<1> HIDE DEF f, e, drops
<1>7. Flushing("forget", f, f.claimed, f.kept, f.defer \ {d}, e, FALSE, drops) \in FlushType
  BY <1>3, <1>5 DEF Flushing, FlushType
<1>8. flush' \in [Groups -> FlushType] BY <1>4, <1>7 DEF TypeOK
<1> QED BY <1>6, <1>8 DEF TypeOK, FlushDefer, groupVars, outcomeVars, FlushFrame, ruleVars, journalVars, silenceVars

LEMMA ForgetType == ASSUME TypeOK, NEW g \in Groups, FlushForget(g) PROVE TypeOK'
<1> DEFINE f == flush[g]
           e == f.target
           drops == f.drops \ {<<e, "silenced">>}
<1>2. flush' = [flush EXCEPT ![g] = Flushing("defer", f, f.claimed \ {e}, f.kept, f.defer, 0, FALSE, drops)]
  BY DEF FlushForget
<1>3. /\ f \in FlushType /\ f.claimed \ {e} \in SUBSET Events /\ f.kept \in SUBSET Events
      /\ f.defer \in SUBSET (Events \X Silences \X Times)
      /\ drops \in SUBSET (Events \X Reasons)
  BY Held
<1>4. terminals' \subseteq Events \X Reasons BY Held DEF TypeOK, FlushForget
<1>5. member' \in [Groups -> [Events -> Memberships]]
  BY DEF TypeOK, FlushForget, Memberships
<1> HIDE DEF f, e, drops
<1>6. Flushing("defer", f, f.claimed \ {e}, f.kept, f.defer, 0, FALSE, drops) \in FlushType
  BY <1>3 DEF Flushing, FlushType
<1>7. flush' \in [Groups -> FlushType] BY <1>2, <1>6 DEF TypeOK
<1> QED BY <1>4, <1>5, <1>7 DEF TypeOK, FlushForget, FlushFrame, ruleVars, journalVars, silenceVars

(* The plan announces, and leaves unannounced, only events it kept. *)
LEMMA PlanType ==
    ASSUME TypeOK, NEW g \in Groups, NEW found \in SUBSET Channels
    PROVE  /\ Notified(flush[g]) \in SUBSET Events
           /\ Undelivered(flush[g], found) \in SUBSET (Events \X Reasons)
<1> DEFINE f == flush[g]
           dropped == DroppedUnannounced(f.kept, f.flushed, kind, subject)
<1>1. f.kept \in SUBSET Events /\ f.drops \in SUBSET (Events \X Reasons) BY Held
<1>2. /\ Notified(f) \in SUBSET Events
      /\ dropped \in SUBSET Events
  BY <1>1 DEF Notified, DroppedUnannounced, Notify, Announced, Active, Latest
<1>3. "unannounced" \in Reasons /\ "no_channels" \in Reasons BY DEF Reasons
<1>4. Undelivered(f, found) =
        f.drops \cup {<<e, "unannounced">> : e \in dropped}
                \cup {<<e, "no_channels">> : e \in IF found = {} THEN Notified(f) ELSE {}}
  BY DEF Undelivered
<1> HIDE DEF f, dropped
<1>5. Undelivered(f, found) \in SUBSET (Events \X Reasons) BY <1>1, <1>2, <1>3, <1>4
<1> QED BY <1>2, <1>5 DEF f

LEMMA EndFlushType ==
    ASSUME TypeOK, NEW g \in Groups, NEW owed \in SUBSET (Events \X Reasons), EndFlush(g, owed)
    PROVE  flush' \in [Groups -> FlushType]
<1> DEFINE from == [IdleFlush EXCEPT !.due = flush[g].due]
<1>1. flush[g].due \in Nat BY Held
<1>2. from \in FlushType BY <1>1, IdleFlushType DEF FlushType
<1>3. flush' = [flush EXCEPT ![g] = IF owed = {} THEN IdleFlush
                                    ELSE Flushing("history", from, {}, {}, {}, 0, FALSE, owed)]
  BY DEF EndFlush
<1> HIDE DEF from
<1>4. Flushing("history", from, {}, {}, {}, 0, FALSE, owed) \in FlushType
  BY <1>2 DEF Flushing, FlushType
<1> QED BY <1>3, <1>4, IdleFlushType DEF TypeOK

LEMMA CommitType ==
    ASSUME TypeOK, NEW g \in Groups, NEW found \in SUBSET Channels, FlushCommit(g, found)
    PROVE  TypeOK'
<1> DEFINE f == flush[g]
           active == Active(f.kept, kind, subject)
           after == [e \in Events |-> IF e \in active THEN "flushed"
                                      ELSE IF e \in f.claimed THEN "out" ELSE member[g][e]]
           left == \E e \in Events : after[e] = "unflushed"
           next == NextGroupFlushState(nextFlush[g], left, now)
           sent == IF Notified(f) = {} THEN {} ELSE found
<1>1. Notified(f) \in SUBSET Events /\ Undelivered(f, found) \in SUBSET (Events \X Reasons)
  BY PlanType
<1>2. flush' \in [Groups -> FlushType] BY <1>1, EndFlushType DEF FlushCommit
<1>3. deliveries' \subseteq [group : Groups, channel : Channels, at : Nat, events : SUBSET Events]
  <2>1. f.at \in Nat /\ sent \in SUBSET Channels BY Held
  <2>2. deliveries' = deliveries \cup
          {[group |-> g, channel |-> c, at |-> f.at, events |-> Notified(f)] : c \in sent}
    BY DEF FlushCommit
  <2> HIDE DEF f, sent
  <2> QED BY <1>1, <2>1, <2>2 DEF TypeOK
<1>4. member' \in [Groups -> [Events -> Memberships]]
  <2>1. member[g] \in [Events -> Memberships] BY DEF TypeOK
  <2>2. after \in [Events -> Memberships] BY <2>1 DEF Memberships
  <2>3. member' = [member EXCEPT ![g] = after] BY DEF FlushCommit
  <2> HIDE DEF after
  <2> QED BY <2>2, <2>3 DEF TypeOK
<1>5. next \in Nat
  <2>1. now \in Nat /\ nextFlush[g] \in Nat BY DEF TypeOK, Times
  <2> HIDE DEF left
  <2> QED BY <2>1 DEF NextGroupFlushState
<1>6. nextFlush' \in [Groups -> Nat] /\ flushJobs' \subseteq Groups \X Nat
  <2>1. /\ nextFlush' = [nextFlush EXCEPT ![g] = next]
        /\ flushJobs' = IF left THEN flushJobs \cup {<<g, next>>} ELSE flushJobs
    BY DEF FlushCommit
  <2> HIDE DEF next, left
  <2> QED BY <1>5, <2>1 DEF TypeOK
<1>7. lastFlush' \in [Groups -> Times \cup {Never}] BY DEF TypeOK, FlushCommit
<1>8. superseded' \subseteq Events
  <2>1. f.kept \in SUBSET Events BY Held
  <2>2. superseded' = superseded \cup (f.kept \ Latest(f.kept, subject)) BY DEF FlushCommit
  <2> HIDE DEF f
  <2> QED BY <2>1, <2>2 DEF TypeOK
<1>9. UNCHANGED <<now, ruleVars, journalVars, silenceVars, projections, worker, claim, heldBy,
                  groups, processJobs, terminals, lost, throws>>
  BY DEF FlushCommit, FlushFrame
<1> HIDE DEF f, active, after, left, next
<1> QED BY <1>2, <1>3, <1>4, <1>6, <1>7, <1>8, <1>9 DEF TypeOK, ruleVars, journalVars, silenceVars

LEMMA OrphanedType ==
    ASSUME TypeOK, NEW g \in Groups, NEW found \in SUBSET Channels, FlushOrphaned(g, found)
    PROVE  TypeOK'
<1>1. flush' \in [Groups -> FlushType] BY PlanType, EndFlushType DEF FlushOrphaned
<1> QED BY <1>1 DEF TypeOK, FlushOrphaned, groupVars, outcomeVars, FlushFrame, ruleVars, journalVars, silenceVars

LEMMA FlushHistoryType == ASSUME TypeOK, NEW g \in Groups, FlushHistory(g) PROVE TypeOK'
<1>1. flush' \in [Groups -> FlushType] BY IdleFlushType DEF TypeOK, FlushHistory
<1>2. terminals' \subseteq Events \X Reasons BY Held DEF TypeOK, FlushHistory
<1> QED BY <1>1, <1>2 DEF TypeOK, FlushHistory, groupVars, FlushFrame, ruleVars, journalVars, silenceVars

LEMMA FlushThrowType == ASSUME TypeOK, NEW g \in Groups, FlushThrow(g) PROVE TypeOK'
<1>1. flush' \in [Groups -> FlushType] BY IdleFlushType DEF TypeOK, FlushThrow
<1>2. flush[g].drops \in SUBSET (Events \X Reasons) BY Held
<1>3. \A S \in SUBSET (Events \X Reasons) : {d[1] : d \in S} \subseteq Events OBVIOUS
<1>4. flush[g].drops \cap {<<flush[g].target, "silenced">>} \in SUBSET (Events \X Reasons)
  BY <1>2
<1>5. lost' \subseteq Events BY <1>2, <1>3, <1>4 DEF TypeOK, FlushThrow
<1>6. flushJobs' \subseteq Groups \X Nat BY Held DEF TypeOK, FlushThrow
<1>7. throws' \in 0..MaxThrows BY DEF TypeOK, FlushThrow
<1> QED BY <1>1, <1>5, <1>6, <1>7 DEF TypeOK, FlushThrow, groupVars, FlushFrame, ruleVars, journalVars, silenceVars

-----------------------------------------------------------------------------
LEMMA WorkerStepType ==
    ASSUME TypeOK, NEW w \in Workers, WorkerStep(w) PROVE TypeOK'
<1>1. ASSUME NEW j \in processJobs,
             ProcessDone(w, j) \/ ProcessMuted(w, j) \/ ProcessStale(w, j) \/ ProcessTake(w, j)
      PROVE  TypeOK'
  BY <1>1, DoneType, MutedType, StaleType, TakeType
<1>2. ASSUME NEW s \in Silences, ProcessSilenced(w, s) PROVE TypeOK' BY <1>2, SilencedType
<1>3. CASE ProcessAudible(w) \/ ProcessDefer(w) BY <1>3, AudibleType, DeferType
<1>4. CASE ProcessUndeliverable(w) \/ ProcessHistory(w) BY <1>4, UndeliverableType, HistoryType
<1>5. ASSUME NEW g \in Groups, ProcessDispatch(w, g) PROVE TypeOK' BY <1>5, DispatchType
<1> QED BY <1>1, <1>2, <1>3, <1>4, <1>5 DEF WorkerStep

LEMMA FlushStepType ==
    ASSUME TypeOK, NEW g \in Groups, FlushStep(g) PROVE TypeOK'
<1>1. ASSUME NEW j \in flushJobs, FlushEarly(g, j) \/ FlushPark(g, j) \/ FlushClaim(g, j)
      PROVE  TypeOK'
  BY <1>1, EarlyType, ParkType, ClaimType
<1>2. ASSUME NEW pick \in [Silenced(g) -> Silences], FlushWeigh(g, pick) PROVE TypeOK'
  BY <1>2, WeighType
<1>3. ASSUME NEW d \in flush[g].defer, FlushCheck(g, d) \/ FlushDefer(g, d) PROVE TypeOK'
  BY <1>3, CheckType, FlushDeferType
<1>4. CASE FlushForget(g) \/ FlushHistory(g) BY <1>4, ForgetType, FlushHistoryType
<1>5. ASSUME NEW found \in ChannelsFound, FlushCommit(g, found) \/ FlushOrphaned(g, found)
      PROVE  TypeOK'
  BY <1>5, CommitType, OrphanedType DEF ChannelsFound
<1> QED BY <1>1, <1>2, <1>3, <1>4, <1>5 DEF FlushStep

LEMMA PeopleType == ASSUME TypeOK, People PROVE TypeOK'
<1>1. ASSUME NEW i \in Instances, Fire(i) \/ Resolve(i) PROVE TypeOK'
  BY <1>1, FireType, ResolveType
<1>2. CASE PauseRule \/ ResumeRule BY <1>2, PauseType, ResumeType
<1>3. CASE ChangeLabels \/ DeleteRule BY <1>3, LabelsType, DeleteType
<1>4. ASSUME NEW s \in Silences, ExpireSilence(s) PROVE TypeOK' BY <1>4, ExpireType
<1>5. ASSUME NEW s \in Silences, NEW scope \in Scopes, NEW end \in Times,
             CreateSilence(s, scope, end)
      PROVE  TypeOK'
  BY <1>5, CreateType
<1> QED BY <1>1, <1>2, <1>3, <1>4, <1>5 DEF People

LEMMA StutterType == ASSUME TypeOK, UNCHANGED vars PROVE TypeOK'
  BY DEF TypeOK, vars, ruleVars, journalVars, groupVars, silenceVars, jobVars, outcomeVars

(* Every step keeps every row, job and handler in its type. *)
LEMMA NextType == ASSUME TypeOK, [Next]_vars PROVE TypeOK'
<1>1. CASE Tick BY <1>1, TickType
<1>2. CASE People BY <1>2, PeopleType
<1>3. ASSUME NEW p \in projections, ProjectLifecycle(p) PROVE TypeOK' BY <1>3, ProjectType
<1>4. ASSUME NEW w \in Workers, WorkerStep(w) \/ ProcessThrow(w) PROVE TypeOK'
  BY <1>4, WorkerStepType, ThrowType
<1>5. ASSUME NEW g \in Groups, FlushStep(g) \/ FlushThrow(g) PROVE TypeOK'
  BY <1>5, FlushStepType, FlushThrowType
<1>6. CASE UNCHANGED vars BY <1>6, StutterType
<1> QED BY <1>1, <1>2, <1>3, <1>4, <1>5, <1>6 DEF Next, Work

(* The pipeline is type correct: every row, queued job and handler keeps the *)
(* columns its table, payload or function declares, whatever runs when.      *)
THEOREM TypeCorrect == Spec => []TypeOK
<1>1. Init => TypeOK BY InitType
<1>2. TypeOK /\ [Next]_vars => TypeOK' BY NextType
<1> QED BY <1>1, <1>2, PTL DEF Spec
=============================================================================
