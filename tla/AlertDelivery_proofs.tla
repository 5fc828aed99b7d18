------------------------- MODULE AlertDelivery_proofs -------------------------
(***************************************************************************)
(* Theorems about AlertDelivery, for every value of its constants.         *)
(*   NoMemberStranded, NoEventForgotten, PagesArePaced: no group strands a *)
(*     member, no open event loses its job, and pages keep their distance. *)
(*   ChainImplemented: the pipeline implements NotificationChain.          *)
(*   MutedNeverNotifies: a preview copy never notifies.                    *)
(*   NoChainDropped, OneOutcomeEach: every chain of a rule nobody silences *)
(*     ends in an outcome, and in one only.                                *)
(*   AnnouncedOnce: a notification has everything that fires, once.        *)
(***************************************************************************)
EXTENDS AlertDelivery_types

USE DeliveryAssumption, GroupAssumption, NoneAssumption

-----------------------------------------------------------------------------
(* FlushBooked.  It is inductive with TypeOK: a dispatch and a committing    *)
(* flush enqueue a job at exactly the time they book, a flush that turns     *)
(* back consumes a job due before the booking, and a running flush keeps the *)
(* job it may have to run again.                                             *)

Safe(g) ==
    Unflushed(g) # {} =>
        /\ g \in groups
        /\ nextFlush[g] < IdleAt
        /\ \E t \in Booked(g) : nextFlush[g] <= t

LEMMA SafeAll == FlushBooked <=> \A g \in Groups : Safe(g)
  BY DEF FlushBooked, Safe

LEMMA SafeAllNext == (\A g \in Groups : Safe(g)') => FlushBooked'
  BY DEF FlushBooked, Safe

LEMMA JobBooked ==
    ASSUME NEW g \in Groups, NEW t, <<g, t>> \in flushJobs' PROVE t \in Booked(g)'
<1> DEFINE k == <<g, t>>
<1>1. k \in {j \in flushJobs' : j[1] = g} /\ k[2] = t OBVIOUS
<1> HIDE DEF k
<1> QED BY <1>1 DEF Booked

(* A step that takes no job of a group and leaves its booking alone. *)
LEMMA BookingKept ==
    ASSUME NEW g \in Groups, Safe(g), Unflushed(g)' \subseteq Unflushed(g),
           g \in groups => g \in groups', nextFlush'[g] = nextFlush[g],
           Booked(g) \subseteq Booked(g)'
    PROVE  Safe(g)'
  BY DEF Safe

LEMMA BookingFrame ==
    ASSUME FlushBooked, UNCHANGED <<groupVars, flush>>, flushJobs \subseteq flushJobs'
    PROVE  FlushBooked'
<1> SUFFICES ASSUME NEW g \in Groups PROVE Safe(g)' BY SafeAllNext
<1>1. Unflushed(g)' = Unflushed(g) BY DEF Unflushed, groupVars
<1>2. Booked(g) \subseteq Booked(g)' BY DEF Booked
<1>3. Safe(g) BY SafeAll
<1> QED BY <1>1, <1>2, <1>3, BookingKept DEF groupVars

(* A step of the flush of g leaves the other groups alone. *)
LEMMA OtherGroups ==
    ASSUME TypeOK, FlushBooked, NEW g \in Groups, NEW h \in Groups \ {g},
           member'[h] = member[h], groups' = groups, nextFlush'[h] = nextFlush[h],
           flush'[h] = flush[h], \A j \in flushJobs : j[1] = h => j \in flushJobs'
    PROVE  Safe(h)'
<1>1. Unflushed(h)' = Unflushed(h) BY DEF Unflushed
<1>2. Booked(h) \subseteq Booked(h)' BY DEF Booked
<1>3. Safe(h) BY SafeAll
<1> QED BY <1>1, <1>2, <1>3, BookingKept

LEMMA DispatchBooks ==
    ASSUME TypeOK, FlushBooked, NEW w \in Workers, NEW g \in Groups, ProcessDispatch(w, g)
    PROVE  FlushBooked'
<1> DEFINE e == worker[w].event
           next == Booking(g)
<1>0. next \in Nat /\ next < IdleAt BY BookingType
<1>1. CASE ~Owns(e, "open")
  BY <1>1, BookingFrame DEF ProcessDispatch, WorkerFrame
<1>2. CASE Owns(e, "open")
  <2>1. /\ groups' = groups \cup {g} /\ nextFlush' = [nextFlush EXCEPT ![g] = next]
        /\ flushJobs' = flushJobs \cup {<<g, next>>} /\ flush' = flush
        /\ member' = IF member[g][e] = "out" THEN [member EXCEPT ![g][e] = "unflushed"]
                                             ELSE member
    BY <1>2 DEF ProcessDispatch, WorkerFrame
  <2> HIDE DEF next, e
  <2>2. Safe(g)'
    <3>1. nextFlush'[g] = next BY <2>1 DEF TypeOK
    <3>2. next \in Booked(g)' BY <2>1, JobBooked
    <3> QED BY <1>0, <2>1, <3>1, <3>2 DEF Safe
  <2>3. ASSUME NEW h \in Groups, h # g PROVE Safe(h)'
    <3>1. member'[h] = member[h] /\ nextFlush'[h] = nextFlush[h] BY <2>1, <2>3 DEF TypeOK
    <3>2. Unflushed(h)' = Unflushed(h) BY <3>1 DEF Unflushed
    <3>3. Booked(h) \subseteq Booked(h)' BY <2>1 DEF Booked
    <3>4. Safe(h) BY SafeAll
    <3> QED BY <2>1, <3>1, <3>2, <3>3, <3>4, BookingKept
  <2> QED BY <2>2, <2>3, SafeAllNext
<1> QED BY <1>1, <1>2

LEMMA DeleteBooks ==
    ASSUME TypeOK, FlushBooked, DeleteRule PROVE FlushBooked'
<1> SUFFICES ASSUME NEW g \in Groups PROVE Safe(g)' BY SafeAllNext
<1>1. UNCHANGED <<nextFlush, flushJobs, flush>> BY DEF DeleteRule, CloseLifecycle
<1>2. CASE g = "direct"
  BY <1>2 DEF DeleteRule, Safe, Unflushed
<1>3. CASE g # "direct"
  <2>1. member'[g] = member[g] /\ (g \in groups => g \in groups') BY <1>3 DEF DeleteRule
  <2>2. Unflushed(g)' = Unflushed(g) BY <2>1 DEF Unflushed
  <2>3. Booked(g)' = Booked(g) BY <1>1 DEF Booked
  <2>4. Safe(g) BY SafeAll
  <2> QED BY <1>1, <2>1, <2>2, <2>3, <2>4, BookingKept
<1> QED BY <1>2, <1>3

LEMMA EarlyBooks ==
    ASSUME TypeOK, FlushBooked, NEW g \in Groups, NEW j \in flushJobs, FlushEarly(g, j)
    PROVE  FlushBooked'
<1>1. /\ UNCHANGED <<groupVars, flush>> /\ flushJobs' = flushJobs \ {j}
      /\ j[1] = g /\ j[2] <= now /\ (g \notin groups \/ nextFlush[g] > now)
      /\ flush[g].pc = "idle"
  BY DEF FlushEarly, DueFlush
<1>2. Safe(g)'
  <2> SUFFICES ASSUME Unflushed(g) # {} PROVE Safe(g)'
    BY <1>1 DEF Safe, Unflushed, groupVars
  <2>1. /\ g \in groups /\ nextFlush[g] < IdleAt
    BY SafeAll DEF Safe
  <2>2. PICK t \in Booked(g) : nextFlush[g] <= t BY SafeAll DEF Safe
  <2>3. PICK k \in flushJobs : k[1] = g /\ t = k[2] BY <1>1, <2>2 DEF Booked
  <2>4. j[2] < nextFlush[g]
    <3>1. j[2] \in Nat /\ now \in Nat /\ nextFlush[g] \in Nat BY DEF TypeOK, Times
    <3> QED BY <1>1, <2>1, <3>1
  <2>5. k # j
    <3>1. k[2] \in Nat /\ j[2] \in Nat /\ nextFlush[g] \in Nat BY DEF TypeOK
    <3> QED BY <2>2, <2>3, <2>4, <3>1
  <2>6. t \in Booked(g)' BY <1>1, <2>3, <2>5 DEF Booked
  <2> QED BY <1>1, <2>1, <2>2, <2>6 DEF Safe, groupVars
<1>3. ASSUME NEW h \in Groups, h # g PROVE Safe(h)'
  BY <1>1, <1>3, OtherGroups DEF groupVars
<1> QED BY <1>2, <1>3, SafeAllNext

LEMMA ParkBooks ==
    ASSUME TypeOK, FlushBooked, NEW g \in Groups, NEW j \in flushJobs, FlushPark(g, j)
    PROVE  FlushBooked'
<1>1. /\ UNCHANGED <<member, groups, flush>> /\ flushJobs' = flushJobs \ {j} /\ j[1] = g
      /\ nextFlush' = [nextFlush EXCEPT ![g] = IdleAt] /\ Members(g) = {}
  BY DEF FlushPark, DueFlush
<1>2. Safe(g)' BY <1>1 DEF Safe, Unflushed, Members
<1>3. ASSUME NEW h \in Groups, h # g PROVE Safe(h)'
  BY <1>1, <1>3, OtherGroups DEF TypeOK
<1> QED BY <1>2, <1>3, SafeAllNext

LEMMA ClaimBooks ==
    ASSUME TypeOK, FlushBooked, NEW g \in Groups, NEW j \in flushJobs, FlushClaim(g, j)
    PROVE  FlushBooked'
<1>1. /\ UNCHANGED groupVars /\ flushJobs' = flushJobs \ {j} /\ j[1] = g
      /\ flush[g].pc = "idle"
  BY DEF FlushClaim, DueFlush
<1>2. /\ flush'[g].pc = "weigh" /\ flush'[g].due = j[2]
      /\ \A h \in Groups \ {g} : flush'[h] = flush[h]
  BY DEF FlushClaim, ClaimedBy, TypeOK
<1>3. Safe(g)'
  <2>1. Booked(g) \subseteq Booked(g)'
    BY <1>1, <1>2 DEF Booked
  <2>2. Safe(g) BY SafeAll
  <2> QED BY <1>1, <2>1, <2>2, BookingKept DEF groupVars, Unflushed
<1>4. ASSUME NEW h \in Groups, h # g PROVE Safe(h)'
  BY <1>1, <1>2, <1>4, OtherGroups DEF groupVars
<1> QED BY <1>3, <1>4, SafeAllNext

(* A step inside a flush keeps its job and adds no unflushed member. *)
LEMMA FlushInside ==
    ASSUME TypeOK, FlushBooked, NEW g \in Groups,
           UNCHANGED <<groups, nextFlush>>, flushJobs \subseteq flushJobs',
           \A h \in Groups : Unflushed(h)' \subseteq Unflushed(h),
           \A h \in Groups \ {g} : flush'[h] = flush[h],
           \/ flush'[g].pc \notin {"idle", "history"} /\ flush'[g].due = flush[g].due
           \/ flush[g].pc = "history"
           \/ <<g, flush[g].due>> \in flushJobs'
    PROVE  FlushBooked'
<1> SUFFICES ASSUME NEW h \in Groups PROVE Safe(h)' BY SafeAllNext
<1>1. Booked(h) \subseteq Booked(h)'
  <2>1. {j[2] : j \in {k \in flushJobs : k[1] = h}} \subseteq {j[2] : j \in {k \in flushJobs' : k[1] = h}}
    OBVIOUS
  <2>2. flush[h].pc \notin {"idle", "history"} => flush[h].due \in Booked(h)'
    <3>1. CASE h # g BY <3>1 DEF Booked
    <3>2. CASE /\ h = g /\ flush'[g].pc \notin {"idle", "history"}
               /\ flush'[g].due = flush[g].due
      BY <3>2 DEF Booked
    <3>3. CASE h = g /\ flush[g].pc = "history" BY <3>3
    <3>4. CASE h = g /\ <<g, flush[g].due>> \in flushJobs' BY <3>4, JobBooked
    <3> QED BY <3>1, <3>2, <3>3, <3>4
  <2> QED BY <2>1, <2>2 DEF Booked
<1>2. Safe(h) BY SafeAll
<1> QED BY <1>1, <1>2, BookingKept

LEMMA WeighBooks ==
    ASSUME TypeOK, FlushBooked, NEW g \in Groups, NEW pick, FlushWeigh(g, pick)
    PROVE  FlushBooked'
<1>1. /\ flush'[g].pc = "defer" /\ flush'[g].due = flush[g].due
      /\ \A h \in Groups \ {g} : flush'[h] = flush[h]
  BY DEF FlushWeigh, Flushing, TypeOK
<1> QED BY <1>1, FlushInside DEF FlushWeigh, groupVars, Unflushed

LEMMA CheckBooks ==
    ASSUME TypeOK, FlushBooked, NEW g \in Groups, NEW d, FlushCheck(g, d)
    PROVE  FlushBooked'
<1>1. /\ flush'[g].pc = "hold" /\ flush'[g].due = flush[g].due
      /\ \A h \in Groups \ {g} : flush'[h] = flush[h]
  BY DEF FlushCheck, Flushing, TypeOK
<1> QED BY <1>1, FlushInside DEF FlushCheck, groupVars, Unflushed

LEMMA DeferBooks ==
    ASSUME TypeOK, FlushBooked, NEW g \in Groups, NEW d, FlushDefer(g, d)
    PROVE  FlushBooked'
<1>1. /\ flush'[g].pc = "forget" /\ flush'[g].due = flush[g].due
      /\ \A h \in Groups \ {g} : flush'[h] = flush[h]
  BY DEF FlushDefer, Flushing, TypeOK
<1> QED BY <1>1, FlushInside DEF FlushDefer, groupVars, Unflushed

LEMMA ForgetBooks ==
    ASSUME TypeOK, FlushBooked, NEW g \in Groups, FlushForget(g) PROVE FlushBooked'
<1>1. /\ flush'[g].pc = "defer" /\ flush'[g].due = flush[g].due
      /\ \A h \in Groups \ {g} : flush'[h] = flush[h]
  BY DEF FlushForget, Flushing, TypeOK
<1>2. \A h \in Groups : Unflushed(h)' \subseteq Unflushed(h)
  <2>1. member' = [member EXCEPT ![g][flush[g].target] = "out"] BY DEF FlushForget
  <2> QED BY <2>1 DEF TypeOK, Unflushed
<1> QED BY <1>1, <1>2, FlushInside DEF FlushForget

LEMMA HistoryBooks ==
    ASSUME TypeOK, FlushBooked, NEW g \in Groups, FlushHistory(g) PROVE FlushBooked'
<1>1. flush[g].pc = "history" /\ \A h \in Groups \ {g} : flush'[h] = flush[h]
  BY DEF FlushHistory, TypeOK
<1> QED BY <1>1, FlushInside DEF FlushHistory, groupVars, Unflushed

LEMMA ThrowBooks ==
    ASSUME TypeOK, FlushBooked, NEW g \in Groups, FlushThrow(g) PROVE FlushBooked'
<1>1. flushJobs' = flushJobs \cup {<<g, flush[g].due>>}
      /\ \A h \in Groups \ {g} : flush'[h] = flush[h]
  BY DEF FlushThrow, TypeOK
<1> QED BY <1>1, FlushInside DEF FlushThrow, groupVars, Unflushed

LEMMA OrphanedBooks ==
    ASSUME TypeOK, FlushBooked, NEW g \in Groups, NEW found, FlushOrphaned(g, found)
    PROVE  FlushBooked'
<1>1. /\ UNCHANGED <<groupVars, flushJobs>> /\ g \notin groups
      /\ \A h \in Groups \ {g} : flush'[h] = flush[h]
  BY DEF FlushOrphaned, EndFlush, TypeOK
<1>2. Safe(g)' BY <1>1, SafeAll DEF Safe, groupVars, Unflushed
<1>3. ASSUME NEW h \in Groups, h # g PROVE Safe(h)'
  BY <1>1, <1>3, OtherGroups DEF groupVars
<1> QED BY <1>2, <1>3, SafeAllNext

LEMMA CommitBooks ==
    ASSUME TypeOK, FlushBooked, NEW g \in Groups, NEW found, FlushCommit(g, found)
    PROVE  FlushBooked'
<1> DEFINE f == flush[g]
           active == Active(f.kept, kind, subject)
           after == [e \in Events |-> IF e \in active THEN "flushed"
                                      ELSE IF e \in f.claimed THEN "out" ELSE member[g][e]]
           left == \E e \in Events : after[e] = "unflushed"
           next == NextGroupFlushState(nextFlush[g], left, now)
<1>1. /\ g \in groups /\ groups' = groups
      /\ member' = [member EXCEPT ![g] = after]
      /\ nextFlush' = [nextFlush EXCEPT ![g] = next]
      /\ flushJobs' = IF left THEN flushJobs \cup {<<g, next>>} ELSE flushJobs
  BY DEF FlushCommit
<1>2. \A h \in Groups \ {g} : flush'[h] = flush[h] BY DEF FlushCommit, EndFlush, TypeOK
<1>3. left => next \in Nat /\ next < IdleAt
  <2>1. now \in 0..MaxTime /\ nextFlush[g] \in Nat BY DEF TypeOK, Times
  <2> HIDE DEF left
  <2> QED BY <2>1 DEF NextGroupFlushState
<1> HIDE DEF f, active, next
<1>4. member'[g] = after /\ nextFlush'[g] = next BY <1>1 DEF TypeOK
<1>5. Unflushed(g)' # {} => left BY <1>4 DEF Unflushed
<1> HIDE DEF after, left
<1>6. left => next \in Booked(g)' BY <1>1, JobBooked
<1>7. Safe(g)' BY <1>1, <1>3, <1>4, <1>5, <1>6 DEF Safe
<1>8. ASSUME NEW h \in Groups, h # g PROVE Safe(h)'
  BY <1>1, <1>2, <1>8, OtherGroups DEF TypeOK
<1> QED BY <1>7, <1>8, SafeAllNext

LEMMA NextBooks == ASSUME TypeOK, FlushBooked, [Next]_vars PROVE FlushBooked'
<1>1. CASE Tick BY <1>1, BookingFrame DEF Tick, jobVars
<1>2. CASE People
  <2>1. ASSUME NEW i \in Instances, Fire(i) \/ Resolve(i) PROVE FlushBooked'
    BY <2>1, BookingFrame DEF Fire, Resolve, Journal
  <2>2. CASE PauseRule \/ ResumeRule \/ ChangeLabels
    BY <2>2, BookingFrame DEF PauseRule, ResumeRule, ChangeLabels, CloseLifecycle, jobVars
  <2>3. CASE DeleteRule BY <2>3, DeleteBooks
  <2>4. ASSUME NEW s \in Silences, ExpireSilence(s) PROVE FlushBooked'
    BY <2>4, BookingFrame DEF ExpireSilence
  <2>5. ASSUME NEW s \in Silences, NEW scope \in Scopes, NEW end \in Times,
               CreateSilence(s, scope, end)
        PROVE  FlushBooked'
    BY <2>5, BookingFrame DEF CreateSilence, jobVars
  <2> QED BY <1>2, <2>1, <2>2, <2>3, <2>4, <2>5 DEF People
<1>3. ASSUME NEW p \in projections, ProjectLifecycle(p) PROVE FlushBooked'
  BY <1>3, BookingFrame DEF ProjectLifecycle
<1>4. ASSUME NEW w \in Workers, WorkerStep(w) \/ ProcessThrow(w) PROVE FlushBooked'
  <2>1. ASSUME NEW j \in processJobs,
               ProcessDone(w, j) \/ ProcessMuted(w, j) \/ ProcessStale(w, j) \/ ProcessTake(w, j)
        PROVE  FlushBooked'
    BY <2>1, BookingFrame DEF ProcessDone, ProcessMuted, ProcessStale, ProcessTake, WorkerFrame
  <2>2. ASSUME NEW s \in Silences, ProcessSilenced(w, s) PROVE FlushBooked'
    BY <2>2, BookingFrame DEF ProcessSilenced, WorkerFrame
  <2>3. CASE \/ ProcessAudible(w) \/ ProcessDefer(w) \/ ProcessUndeliverable(w)
             \/ ProcessHistory(w) \/ ProcessThrow(w)
    BY <2>3, BookingFrame
    DEF ProcessAudible, ProcessDefer, ProcessUndeliverable, ProcessHistory, ProcessThrow, WorkerFrame
  <2>4. ASSUME NEW g \in Groups, ProcessDispatch(w, g) PROVE FlushBooked'
    BY <2>4, DispatchBooks
  <2> QED BY <1>4, <2>1, <2>2, <2>3, <2>4 DEF WorkerStep
<1>5. ASSUME NEW g \in Groups, FlushStep(g) \/ FlushThrow(g) PROVE FlushBooked'
  <2>1. ASSUME NEW j \in flushJobs, FlushEarly(g, j) \/ FlushPark(g, j) \/ FlushClaim(g, j)
        PROVE  FlushBooked'
    BY <2>1, EarlyBooks, ParkBooks, ClaimBooks
  <2>2. ASSUME NEW pick \in [Silenced(g) -> Silences], FlushWeigh(g, pick) PROVE FlushBooked'
    BY <2>2, WeighBooks
  <2>3. ASSUME NEW d \in flush[g].defer, FlushCheck(g, d) \/ FlushDefer(g, d) PROVE FlushBooked'
    BY <2>3, CheckBooks, DeferBooks
  <2>4. CASE FlushForget(g) \/ FlushHistory(g) \/ FlushThrow(g)
    BY <2>4, ForgetBooks, HistoryBooks, ThrowBooks
  <2>5. ASSUME NEW found \in ChannelsFound, FlushCommit(g, found) \/ FlushOrphaned(g, found)
        PROVE  FlushBooked'
    BY <2>5, CommitBooks, OrphanedBooks
  <2> QED BY <1>5, <2>1, <2>2, <2>3, <2>4, <2>5 DEF FlushStep
<1>6. CASE UNCHANGED vars BY <1>6, BookingFrame DEF vars, jobVars
<1> QED BY <1>1, <1>2, <1>3, <1>4, <1>5, <1>6 DEF Next, Work

(* No member is stranded, however dispatches, flushes, crashes and deletes   *)
(* interleave: a group with an unflushed member is booked, and a job that    *)
(* will not turn back as early is queued or running.                         *)
THEOREM NoMemberStranded == Spec => []FlushBooked
<1>1. Init => FlushBooked BY DEF Init, FlushBooked, Unflushed
<1>2. TypeOK /\ FlushBooked /\ [Next]_vars => FlushBooked' BY NextBooks
<1> QED BY <1>1, <1>2, TypeCorrect, PTL DEF Spec

-----------------------------------------------------------------------------
(* OpenHasJob.  Inductive with TypeOK: a job is consumed only by a worker    *)
(* that takes its event in hand or finds it processed, and a worker lets go  *)
(* of an event by stamping it, by losing its claim or by enqueueing a job.   *)

Kept(e) == claim[e] = "open" => (\E j \in processJobs : j[1] = e) \/ InHand(e)

LEMMA KeptAll == OpenHasJob <=> \A e \in Journaled : Kept(e)
  BY DEF OpenHasJob, Kept

LEMMA KeptAllNext == (\A e \in Journaled' : Kept(e)') => OpenHasJob'
  BY DEF OpenHasJob, Kept

LEMMA JobKeeps == ASSUME NEW e, NEW t, <<e, t>> \in processJobs' PROVE Kept(e)'
<1> DEFINE j == <<e, t>>
<1>1. j \in processJobs' /\ j[1] = e OBVIOUS
<1> HIDE DEF j
<1> QED BY <1>1 DEF Kept

LEMMA JournaledEvents == ASSUME TypeOK PROVE Journaled \subseteq Events
  BY DEF TypeOK, Journaled, Events

(* A step that takes no job and no event out of a worker's hands, and        *)
(* reopens no claim. *)
LEMMA HandFrame ==
    ASSUME OpenHasJob, tail' = tail, processJobs \subseteq processJobs', worker' = worker,
           \A e \in Journaled : claim'[e] = "open" => claim[e] = "open"
    PROVE  OpenHasJob'
<1> SUFFICES ASSUME NEW e \in Journaled PROVE Kept(e)'
  BY KeptAllNext DEF Journaled
<1>1. Kept(e) BY KeptAll
<1> QED BY <1>1 DEF Kept, InHand

(* A step of one worker: what it lets go of is settled or has a job again.   *)
LEMMA HandStep ==
    ASSUME TypeOK, OpenHasJob, NEW w \in Workers, tail' = tail,
           \A v \in Workers \ {w} : worker'[v] = worker[v],
           \A e \in Journaled : claim'[e] = "open" => claim[e] = "open",
           \A e \in Journaled :
             (\/ \E j \in processJobs \ processJobs' : j[1] = e
              \/ worker[w].event = e /\ worker[w].pc \in {"weigh", "defer", "dispatch"})
             => Kept(e)'
    PROVE  OpenHasJob'
<1> SUFFICES ASSUME NEW e \in Journaled PROVE Kept(e)'
  BY KeptAllNext DEF Journaled
<1>1. Kept(e) BY KeptAll
<1>2. CASE claim[e] # "open" BY <1>2 DEF Kept
<1>3. CASE \E j \in processJobs : j[1] = e
  BY <1>3 DEF Kept
<1>4. CASE \E v \in Workers : /\ worker[v].event = e
                              /\ worker[v].pc \in {"weigh", "defer", "dispatch"}
  BY <1>4 DEF Kept, InHand
<1> QED BY <1>1, <1>2, <1>3, <1>4 DEF Kept, InHand

LEMMA JournalKeeps ==
    ASSUME TypeOK, OpenHasJob, NEW i, NEW k, Journal(i, k) PROVE OpenHasJob'
<1> SUFFICES ASSUME NEW e \in Journaled' PROVE Kept(e)' BY KeptAllNext
<1>1. /\ tail' = tail + 1 /\ tail \in Nat /\ claim' = claim /\ worker' = worker
      /\ processJobs' = processJobs \cup {<<tail + 1, now>>}
  BY DEF Journal, TypeOK
<1>2. e \in Journaled \/ e = tail + 1 BY <1>1 DEF Journaled
<1>3. CASE e \in Journaled
  <2>1. Kept(e) BY <1>3, KeptAll
  <2> QED BY <1>1, <2>1 DEF Kept, InHand
<1>4. CASE e = tail + 1
  BY <1>1, <1>4, JobKeeps
<1> QED BY <1>2, <1>3, <1>4

LEMMA CloseKeeps ==
    ASSUME TypeOK, OpenHasJob, NEW reason, NEW S, CloseLifecycle(reason, S) PROVE OpenHasJob'
<1>1. \A e \in Journaled : claim'[e] = "open" => claim[e] = "open"
  BY JournaledEvents DEF CloseLifecycle
<1> QED BY <1>1, HandFrame DEF CloseLifecycle, journalVars

(* Holding an event keeps it open only with a job that wakes it.             *)
LEMMA HoldKeeps ==
    ASSUME TypeOK, NEW e \in Events, NEW s, NEW until, NEW retry \in BOOLEAN,
           Hold(e, s, until, retry)
    PROVE  /\ Kept(e)'
           /\ processJobs \subseteq processJobs'
           /\ \A f \in Events \ {e} : claim'[f] = claim[f]
<1>1. \A f \in Events \ {e} : claim'[f] = claim[f] BY DEF Hold, TypeOK
<1>2. CASE retry
  <2>1. Kept(e)' BY <1>2, JobKeeps DEF Hold
  <2> QED BY <1>1, <2>1 DEF Hold
<1>3. CASE ~retry
  BY <1>1, <1>3 DEF Hold, Kept, TypeOK
<1> QED BY <1>2, <1>3

LEMMA DoneKeeps ==
    ASSUME TypeOK, OpenHasJob, NEW w \in Workers, NEW j \in processJobs, ProcessDone(w, j)
    PROVE  OpenHasJob'
<1>1. /\ processJobs' = processJobs \ {j} /\ claim' = claim /\ worker' = worker
      /\ claim[j[1]] # "open" /\ tail' = tail /\ worker[w].pc = "idle"
  BY DEF ProcessDone, Due, WorkerFrame, journalVars
<1> QED BY <1>1, HandStep DEF Kept

LEMMA MutedKeeps ==
    ASSUME TypeOK, OpenHasJob, NEW w \in Workers, NEW j \in processJobs, ProcessMuted(w, j)
    PROVE  OpenHasJob'
<1>1. /\ processJobs' = processJobs \ {j} /\ worker' = worker /\ tail' = tail
      /\ claim' = [claim EXCEPT ![j[1]] = "ended"] /\ worker[w].pc = "idle"
  BY DEF ProcessMuted, Due, WorkerFrame, journalVars
<1>2. \A e \in Events : claim'[e] = IF e = j[1] THEN "ended" ELSE claim[e]
  BY <1>1 DEF TypeOK
<1>3. \A e \in Journaled : claim'[e] = IF e = j[1] THEN "ended" ELSE claim[e]
  BY <1>2, JournaledEvents
<1> QED BY <1>1, <1>3, HandStep DEF Kept

LEMMA StaleKeeps ==
    ASSUME TypeOK, OpenHasJob, NEW w \in Workers, NEW j \in processJobs, ProcessStale(w, j)
    PROVE  OpenHasJob'
<1>1. /\ processJobs' = processJobs \ {j} /\ tail' = tail /\ worker[w].pc = "idle"
      /\ claim[j[1]] = "open" /\ EndChain(w, j[1], j[2], "no_longer_firing")
  BY DEF ProcessStale, DeliverableEvent, Due, WorkerFrame, journalVars
<1>2. /\ claim' = [claim EXCEPT ![j[1]] = "ended"]
      /\ \A v \in Workers \ {w} : worker'[v] = worker[v]
  BY <1>1 DEF EndChain, Owns, TypeOK
<1>3. \A e \in Journaled : claim'[e] = IF e = j[1] THEN "ended" ELSE claim[e]
  BY <1>2, JournaledEvents DEF TypeOK
<1> QED BY <1>1, <1>2, <1>3, HandStep DEF Kept

LEMMA TakeKeeps ==
    ASSUME TypeOK, OpenHasJob, NEW w \in Workers, NEW j \in processJobs, ProcessTake(w, j)
    PROVE  OpenHasJob'
<1>1. /\ processJobs' = processJobs \ {j} /\ tail' = tail /\ worker[w].pc = "idle"
      /\ claim' = claim
  BY DEF ProcessTake, DeliverableEvent, Due, WorkerFrame, journalVars
<1>2. /\ worker'[w].pc = "weigh" /\ worker'[w].event = j[1]
      /\ \A v \in Workers \ {w} : worker'[v] = worker[v]
  BY DEF ProcessTake, Weighing, Handling, TypeOK
<1> QED BY <1>1, <1>2, HandStep DEF Kept, InHand

(* The handler keeps its event and moves on. *)
LEMMA OnwardKeeps ==
    ASSUME TypeOK, OpenHasJob, NEW w \in Workers, tail' = tail, claim' = claim,
           processJobs' = processJobs, \A v \in Workers \ {w} : worker'[v] = worker[v],
           worker'[w].event = worker[w].event,
           worker'[w].pc \in {"weigh", "defer", "dispatch"}
    PROVE  OpenHasJob'
  BY HandStep DEF Kept, InHand

LEMMA SilencedKeeps ==
    ASSUME TypeOK, OpenHasJob, NEW w \in Workers, NEW s \in Silences, ProcessSilenced(w, s)
    PROVE  OpenHasJob'
<1>1. /\ worker'[w].pc = "defer" /\ worker'[w].event = worker[w].event
      /\ \A v \in Workers \ {w} : worker'[v] = worker[v]
  BY DEF ProcessSilenced, Handling, TypeOK
<1> QED BY <1>1, OnwardKeeps DEF ProcessSilenced, WorkerFrame, journalVars

LEMMA AudibleKeeps ==
    ASSUME TypeOK, OpenHasJob, NEW w \in Workers, ProcessAudible(w) PROVE OpenHasJob'
<1>1. /\ worker'[w].pc = "dispatch" /\ worker'[w].event = worker[w].event
      /\ \A v \in Workers \ {w} : worker'[v] = worker[v]
  BY Busy DEF ProcessAudible, Goto, TypeOK, WorkerType
<1> QED BY <1>1, OnwardKeeps DEF ProcessAudible, WorkerFrame, journalVars

LEMMA DeferKeeps ==
    ASSUME TypeOK, OpenHasJob, NEW w \in Workers, ProcessDefer(w) PROVE OpenHasJob'
<1>1. PICK e \in Events : e = worker[w].event BY Busy DEF ProcessDefer
<1>2. tail' = tail /\ \A v \in Workers \ {w} : worker'[v] = worker[v]
  BY DEF ProcessDefer, Finish, WorkerFrame, journalVars, TypeOK
<1>3. CASE claim[e] = "open"
  <2>1. Hold(e, worker[w].silence, worker[w].until, worker[w].retry)
    BY <1>1, <1>3 DEF ProcessDefer, Owns
  <2>2. /\ Kept(e)' /\ processJobs \subseteq processJobs'
        /\ \A f \in Events \ {e} : claim'[f] = claim[f]
    BY <1>1, <1>3, <2>1, Busy, HoldKeeps
  <2>3. \A f \in Journaled : claim'[f] = "open" => claim[f] = "open"
    BY <1>3, <2>2, JournaledEvents
  <2> QED BY <1>1, <1>2, <2>2, <2>3, HandStep
<1>4. CASE claim[e] # "open"
  <2>1. UNCHANGED <<claim, processJobs>> BY <1>1, <1>4 DEF ProcessDefer, Owns
  <2> QED BY <1>1, <1>2, <1>4, <2>1, HandStep DEF Kept
<1> QED BY <1>3, <1>4

LEMMA UndeliverableKeeps ==
    ASSUME TypeOK, OpenHasJob, NEW w \in Workers, ProcessUndeliverable(w) PROVE OpenHasJob'
<1> DEFINE e == worker[w].event
<1>1. e \in Events BY Busy DEF ProcessUndeliverable
<1>2. /\ tail' = tail /\ processJobs' = processJobs
      /\ \A v \in Workers \ {w} : worker'[v] = worker[v]
  BY DEF ProcessUndeliverable, EndChain, Finish, WorkerFrame, journalVars, TypeOK
<1>3. claim'[e] # "open" /\ \A f \in Events \ {e} : claim'[f] = claim[f]
  BY <1>1 DEF ProcessUndeliverable, EndChain, Owns, TypeOK
<1> QED BY <1>2, <1>3, HandStep, JournaledEvents DEF Kept

LEMMA DispatchKeeps ==
    ASSUME TypeOK, OpenHasJob, NEW w \in Workers, NEW g, ProcessDispatch(w, g) PROVE OpenHasJob'
<1> DEFINE e == worker[w].event
<1>1. e \in Events BY Busy DEF ProcessDispatch
<1>2. /\ tail' = tail /\ processJobs' = processJobs
      /\ \A v \in Workers \ {w} : worker'[v] = worker[v]
  BY DEF ProcessDispatch, Finish, WorkerFrame, journalVars, TypeOK
<1>3. \/ claim' = [claim EXCEPT ![e] = "dispatched"]
      \/ claim[e] # "open" /\ claim' = claim
  BY DEF ProcessDispatch, Owns
<1>4. claim'[e] # "open" /\ \A f \in Events \ {e} : claim'[f] = claim[f]
  BY <1>1, <1>3 DEF TypeOK
<1> QED BY <1>2, <1>4, HandStep, JournaledEvents DEF Kept

LEMMA ProcessHistoryKeeps ==
    ASSUME TypeOK, OpenHasJob, NEW w \in Workers, ProcessHistory(w) PROVE OpenHasJob'
<1>1. /\ worker[w].pc = "history" /\ tail' = tail /\ processJobs' = processJobs /\ claim' = claim
      /\ \A v \in Workers \ {w} : worker'[v] = worker[v]
  BY DEF ProcessHistory, Finish, WorkerFrame, journalVars, TypeOK
<1> QED BY <1>1, HandStep

LEMMA ProcessThrowKeeps ==
    ASSUME TypeOK, OpenHasJob, NEW w \in Workers, ProcessThrow(w) PROVE OpenHasJob'
<1>1. PICK e, at : e = worker[w].event /\ at = worker[w].at OBVIOUS
<1>2. /\ tail' = tail /\ processJobs' = processJobs \cup {<<e, at>>} /\ claim' = claim
      /\ \A v \in Workers \ {w} : worker'[v] = worker[v]
  BY <1>1 DEF ProcessThrow, Finish, WorkerFrame, journalVars, TypeOK
<1>3. Kept(e)' BY <1>2, JobKeeps
<1> QED BY <1>1, <1>2, <1>3, HandStep

LEMMA FlushDeferKeeps ==
    ASSUME TypeOK, OpenHasJob, NEW g \in Groups, NEW d \in flush[g].defer, FlushDefer(g, d)
    PROVE  OpenHasJob'
<1> DEFINE e == d[1]
<1>1. e \in Events BY Held
<1>2. tail' = tail /\ worker' = worker BY DEF FlushDefer, FlushFrame, journalVars
<1>3. CASE UNCHANGED <<heldBy, claim, processJobs>> BY <1>2, <1>3, HandFrame
<1>4. CASE Hold(e, d[2], d[3], flush[g].retry)
  <2>1. /\ Kept(e)' /\ processJobs \subseteq processJobs'
        /\ \A f \in Events \ {e} : claim'[f] = claim[f]
    BY <1>1, <1>4, Held, HoldKeeps
  <2> SUFFICES ASSUME NEW f \in Journaled, f # e PROVE Kept(f)'
    BY <1>2, <2>1, KeptAllNext DEF Journaled
  <2>2. claim'[f] = claim[f] BY <2>1, JournaledEvents
  <2>3. Kept(f) BY KeptAll
  <2> QED BY <1>2, <2>1, <2>2, <2>3 DEF Kept, InHand
<1> QED BY <1>3, <1>4 DEF FlushDefer

(* Every step keeps every open event in somebody's hands.                    *)
LEMMA NextKeeps == ASSUME TypeOK, OpenHasJob, [Next]_vars PROVE OpenHasJob'
<1>1. CASE Tick BY <1>1, HandFrame DEF Tick, journalVars, jobVars
<1>2. CASE People
  <2>1. ASSUME NEW i \in Instances, Fire(i) \/ Resolve(i) PROVE OpenHasJob'
    BY <2>1, JournalKeeps DEF Fire, Resolve
  <2>2. CASE PauseRule \/ ChangeLabels \/ DeleteRule
    BY <2>2, CloseKeeps DEF PauseRule, ChangeLabels, DeleteRule
  <2>3. CASE ResumeRule BY <2>3, HandFrame DEF ResumeRule, journalVars, jobVars
  <2>4. ASSUME NEW s \in Silences, ExpireSilence(s) PROVE OpenHasJob'
    BY <2>4, HandFrame DEF ExpireSilence, journalVars
  <2>5. ASSUME NEW s \in Silences, NEW scope \in Scopes, NEW end \in Times,
               CreateSilence(s, scope, end)
        PROVE  OpenHasJob'
    BY <2>5, HandFrame DEF CreateSilence, journalVars, jobVars
  <2> QED BY <1>2, <2>1, <2>2, <2>3, <2>4, <2>5 DEF People
<1>3. ASSUME NEW p \in projections, ProjectLifecycle(p) PROVE OpenHasJob'
  BY <1>3, HandFrame DEF ProjectLifecycle, journalVars
<1>4. ASSUME NEW w \in Workers, WorkerStep(w) \/ ProcessThrow(w) PROVE OpenHasJob'
  <2>1. ASSUME NEW j \in processJobs,
               ProcessDone(w, j) \/ ProcessMuted(w, j) \/ ProcessStale(w, j) \/ ProcessTake(w, j)
        PROVE  OpenHasJob'
    BY <2>1, DoneKeeps, MutedKeeps, StaleKeeps, TakeKeeps
  <2>2. ASSUME NEW s \in Silences, ProcessSilenced(w, s) PROVE OpenHasJob' BY <2>2, SilencedKeeps
  <2>3. CASE ProcessAudible(w) \/ ProcessDefer(w) \/ ProcessUndeliverable(w)
    BY <2>3, AudibleKeeps, DeferKeeps, UndeliverableKeeps
  <2>4. CASE ProcessHistory(w) \/ ProcessThrow(w)
    BY <2>4, ProcessHistoryKeeps, ProcessThrowKeeps
  <2>5. ASSUME NEW g \in Groups, ProcessDispatch(w, g) PROVE OpenHasJob' BY <2>5, DispatchKeeps
  <2> QED BY <1>4, <2>1, <2>2, <2>3, <2>4, <2>5 DEF WorkerStep
<1>5. ASSUME NEW g \in Groups, FlushStep(g) \/ FlushThrow(g) PROVE OpenHasJob'
  <2>1. ASSUME NEW j \in flushJobs, FlushEarly(g, j) \/ FlushPark(g, j) \/ FlushClaim(g, j)
        PROVE  OpenHasJob'
    BY <2>1, HandFrame DEF FlushEarly, FlushPark, FlushClaim, FlushFrame, journalVars
  <2>2. ASSUME NEW pick \in [Silenced(g) -> Silences], FlushWeigh(g, pick) PROVE OpenHasJob'
    BY <2>2, HandFrame DEF FlushWeigh, FlushFrame, journalVars
  <2>3. ASSUME NEW d \in flush[g].defer, FlushCheck(g, d) \/ FlushDefer(g, d) PROVE OpenHasJob'
    BY <2>3, HandFrame, FlushDeferKeeps DEF FlushCheck, FlushFrame, journalVars
  <2>4. CASE FlushForget(g) \/ FlushHistory(g) \/ FlushThrow(g)
    BY <2>4, HandFrame DEF FlushForget, FlushHistory, FlushThrow, FlushFrame, journalVars
  <2>5. ASSUME NEW found \in ChannelsFound, FlushCommit(g, found) \/ FlushOrphaned(g, found)
        PROVE  OpenHasJob'
    BY <2>5, HandFrame DEF FlushCommit, FlushOrphaned, FlushFrame, journalVars
  <2> QED BY <1>5, <2>1, <2>2, <2>3, <2>4, <2>5 DEF FlushStep
<1>6. CASE UNCHANGED vars BY <1>6, HandFrame DEF vars, journalVars, jobVars
<1> QED BY <1>1, <1>2, <1>3, <1>4, <1>5, <1>6 DEF Next, Work

(* No event is forgotten: as long as its processed_at is NULL a queued job   *)
(* or a running handler has it, whatever is silenced, released, retried or   *)
(* cancelled meanwhile.                                                      *)
THEOREM NoEventForgotten == Spec => []OpenHasJob
<1>1. Init => OpenHasJob BY DEF Init, OpenHasJob, Journaled
<1>2. TypeOK /\ OpenHasJob /\ [Next]_vars => OpenHasJob' BY NextKeeps
<1> QED BY <1>1, <1>2, TypeCorrect, PTL DEF Spec

-----------------------------------------------------------------------------
(* PacedFlush.  The invariant behind it: a group that has flushed is booked  *)
(* a group interval after that flush at the earliest, and while a flush of   *)
(* it runs its booking is not in the future; the only group a flush can lose *)
(* under way is the rule's own, which nobody recreates.                      *)

Running(g) == flush[g].pc \notin {"idle", "history"}
Spaced(g) == g \in groups /\ lastFlush[g] # Never => nextFlush[g] >= lastFlush[g] + GroupInterval
Reached(g) == Running(g) => \/ g \in groups /\ nextFlush[g] <= now
                            \/ g \notin groups /\ g = "direct" /\ rule = "gone"
Pacing == \A g \in Groups : Spaced(g) /\ Reached(g)

LEMMA PacingFrame ==
    ASSUME TypeOK, Pacing, UNCHANGED groupVars, now' \in {now, now + 1},
           rule = "gone" => rule' = "gone", \A g \in Groups : Running(g)' => Running(g)
    PROVE  Pacing'
<1> SUFFICES ASSUME NEW g \in Groups PROVE Spaced(g)' /\ Reached(g)' BY DEF Pacing
<1>1. now \in Nat /\ nextFlush[g] \in Nat BY DEF TypeOK, Times
<1> QED BY <1>1 DEF Pacing, Spaced, Reached, groupVars

LEMMA DispatchPaces ==
    ASSUME TypeOK, Pacing, NEW w \in Workers, NEW g \in Groups, ProcessDispatch(w, g)
    PROVE  Pacing'
<1> DEFINE e == worker[w].event
           next == Booking(g)
<1>0. UNCHANGED <<now, rule, flush>> BY DEF ProcessDispatch, WorkerFrame, ruleVars
<1>1. CASE ~Owns(e, "open")
  BY <1>0, <1>1, PacingFrame DEF ProcessDispatch, Running
<1>2. CASE Owns(e, "open")
  <2>1. /\ groups' = groups \cup {g} /\ nextFlush' = [nextFlush EXCEPT ![g] = next]
        /\ lastFlush' = IF g \in groups THEN lastFlush ELSE [lastFlush EXCEPT ![g] = Never]
        /\ g = "direct" => rule # "gone"
    BY <1>2 DEF ProcessDispatch, Target
  <2>2. /\ now \in 0..MaxTime /\ nextFlush[g] \in Nat
        /\ lastFlush[g] \in 0..MaxTime \cup {Never}
    BY DEF TypeOK, Times
  <2>3. CASE g \in groups
    <3>1. next = NextGroupFlushAt(nextFlush[g], lastFlush[g], now) BY <2>3 DEF Booking
    <3> HIDE DEF next
    <3>2. Spaced(g) /\ Reached(g) BY DEF Pacing
    <3>3. nextFlush'[g] = next /\ lastFlush' = lastFlush /\ groups' = groups
      BY <2>1, <2>3 DEF TypeOK
    <3>4. lastFlush[g] # Never => next >= lastFlush[g] + GroupInterval
      BY <2>2, <2>3, <3>1, <3>2 DEF Spaced, NextGroupFlushAt, Earlier, Later, Never
    <3>5. Running(g) => next <= now
      BY <2>2, <2>3, <3>1, <3>2 DEF Reached, NextGroupFlushAt, Earlier, Later, Never
    <3>6. Spaced(g)' /\ Reached(g)' BY <1>0, <2>3, <3>3, <3>4, <3>5 DEF Spaced, Reached, Running
    <3>7. ASSUME NEW h \in Groups, h # g PROVE Spaced(h)' /\ Reached(h)'
      BY <1>0, <2>1, <3>3, <3>7 DEF Pacing, Spaced, Reached, Running, TypeOK
    <3> QED BY <3>6, <3>7 DEF Pacing
  <2>4. CASE g \notin groups
    <3> HIDE DEF next
    <3>1. ~Running(g) BY <2>1, <2>4 DEF Pacing, Reached
    <3>2. lastFlush'[g] = Never BY <2>1, <2>4 DEF TypeOK
    <3>3. Spaced(g)' /\ Reached(g)' BY <1>0, <3>1, <3>2 DEF Spaced, Reached, Running
    <3>4. ASSUME NEW h \in Groups, h # g PROVE Spaced(h)' /\ Reached(h)'
      <4>1. /\ nextFlush'[h] = nextFlush[h] /\ lastFlush'[h] = lastFlush[h]
            /\ h \in groups' <=> h \in groups
        BY <2>1, <2>4, <3>4 DEF TypeOK
      <4>2. Spaced(h) /\ Reached(h) BY DEF Pacing
      <4> QED BY <1>0, <4>1, <4>2 DEF Spaced, Reached, Running
    <3> QED BY <3>3, <3>4 DEF Pacing
  <2> QED BY <2>3, <2>4
<1> QED BY <1>1, <1>2

LEMMA DeletePaces == ASSUME TypeOK, Pacing, DeleteRule PROVE Pacing'
<1>1. /\ UNCHANGED <<now, nextFlush, lastFlush, flush>> /\ rule' = "gone" /\ rule # "gone"
      /\ groups' = groups \ {"direct"}
  BY DEF DeleteRule, CloseLifecycle
<1> QED BY <1>1 DEF Pacing, Spaced, Reached, Running

LEMMA ParkPaces ==
    ASSUME TypeOK, Pacing, NEW g \in Groups, NEW j \in flushJobs, FlushPark(g, j) PROVE Pacing'
<1>1. /\ UNCHANGED <<now, rule, groups, lastFlush, flush>> /\ flush[g].pc = "idle"
      /\ nextFlush' = [nextFlush EXCEPT ![g] = IdleAt]
  BY DEF FlushPark, DueFlush, FlushFrame, ruleVars
<1>2. nextFlush'[g] = IdleAt /\ \A h \in Groups \ {g} : nextFlush'[h] = nextFlush[h]
  BY <1>1 DEF TypeOK
<1>3. lastFlush[g] \in 0..MaxTime \cup {Never} BY DEF TypeOK, Times
<1>4. Spaced(g)' BY <1>1, <1>2, <1>3 DEF Spaced
<1>5. Reached(g)' BY <1>1 DEF Reached, Running
<1>6. ASSUME NEW h \in Groups, h # g PROVE Spaced(h)' /\ Reached(h)'
  BY <1>1, <1>2, <1>6 DEF Pacing, Spaced, Reached, Running
<1> QED BY <1>4, <1>5, <1>6 DEF Pacing

LEMMA ClaimPaces ==
    ASSUME TypeOK, Pacing, NEW g \in Groups, NEW j \in flushJobs, FlushClaim(g, j) PROVE Pacing'
<1>1. /\ UNCHANGED <<now, rule, groupVars>> /\ g \in groups /\ nextFlush[g] <= now
      /\ \A h \in Groups \ {g} : flush'[h] = flush[h]
  BY DEF FlushClaim, FlushFrame, ruleVars, TypeOK
<1> QED BY <1>1 DEF Pacing, Spaced, Reached, Running, groupVars

(* A commit comes an interval after the last one, and books the next an      *)
(* interval later. *)
LEMMA CommitPaces ==
    ASSUME TypeOK, Pacing, NEW g \in Groups, NEW found, FlushCommit(g, found)
    PROVE  /\ Pacing'
           /\ lastFlush[g] # Never => now >= lastFlush[g] + GroupInterval
<1>1. PICK left \in BOOLEAN : nextFlush' = [nextFlush EXCEPT ![g] =
                                              NextGroupFlushState(nextFlush[g], left, now)]
  BY DEF FlushCommit
<1>2. /\ g \in groups /\ groups' = groups /\ now' = now /\ rule' = rule
      /\ lastFlush' = [lastFlush EXCEPT ![g] = now] /\ flush[g].pc = "defer"
  BY DEF FlushCommit, Weighed, FlushFrame, ruleVars
<1>3. flush'[g].pc \in {"idle", "history"} /\ \A h \in Groups \ {g} : flush'[h] = flush[h]
  BY DEF FlushCommit, EndFlush, IdleFlush, Flushing, TypeOK
<1>4. /\ now \in 0..MaxTime /\ nextFlush[g] \in Nat
      /\ lastFlush[g] \in 0..MaxTime \cup {Never}
  BY DEF TypeOK, Times
<1>5. nextFlush[g] <= now BY <1>2 DEF Pacing, Reached, Running
<1>6. lastFlush[g] # Never => now >= lastFlush[g] + GroupInterval
  <2>1. lastFlush[g] # Never => nextFlush[g] >= lastFlush[g] + GroupInterval
    BY <1>2 DEF Pacing, Spaced
  <2> QED BY <1>4, <1>5, <2>1 DEF Never
<1>7. NextGroupFlushState(nextFlush[g], left, now) >= now + GroupInterval
  BY <1>4, <1>5 DEF NextGroupFlushState
<1>8. Spaced(g)' BY <1>1, <1>2, <1>7 DEF Spaced, TypeOK
<1>9. Reached(g)' BY <1>3 DEF Reached, Running
<1>10. ASSUME NEW h \in Groups, h # g PROVE Spaced(h)' /\ Reached(h)'
  BY <1>1, <1>2, <1>3, <1>10 DEF Pacing, Spaced, Reached, Running, TypeOK
<1> QED BY <1>6, <1>8, <1>9, <1>10 DEF Pacing

LEMMA NextPaces == ASSUME TypeOK, Pacing, [Next]_vars PROVE Pacing'
<1>1. CASE Tick BY <1>1, PacingFrame DEF Tick, ruleVars, Running
<1>2. CASE People
  <2>1. ASSUME NEW i \in Instances, Fire(i) \/ Resolve(i) PROVE Pacing'
    BY <2>1, PacingFrame DEF Fire, Resolve, Journal, Running
  <2>2. CASE PauseRule \/ ResumeRule \/ ChangeLabels
    BY <2>2, PacingFrame DEF PauseRule, ResumeRule, ChangeLabels, CloseLifecycle, Running
  <2>3. CASE DeleteRule BY <2>3, DeletePaces
  <2>4. ASSUME NEW s \in Silences, ExpireSilence(s) PROVE Pacing'
    BY <2>4, PacingFrame DEF ExpireSilence, ruleVars, Running
  <2>5. ASSUME NEW s \in Silences, NEW scope \in Scopes, NEW end \in Times,
               CreateSilence(s, scope, end)
        PROVE  Pacing'
    BY <2>5, PacingFrame DEF CreateSilence, ruleVars, Running
  <2> QED BY <1>2, <2>1, <2>2, <2>3, <2>4, <2>5 DEF People
<1>3. ASSUME NEW p \in projections, ProjectLifecycle(p) PROVE Pacing'
  BY <1>3, PacingFrame DEF ProjectLifecycle, ruleVars, Running
<1>4. ASSUME NEW w \in Workers, WorkerStep(w) \/ ProcessThrow(w) PROVE Pacing'
  <2>1. CASE \E g \in Groups : ProcessDispatch(w, g) BY <2>1, DispatchPaces
  <2>2. CASE ~\E g \in Groups : ProcessDispatch(w, g)
    <3>1. UNCHANGED <<groupVars, now, rule, flush>>
      BY <1>4, <2>2 DEF WorkerStep, ProcessDone, ProcessMuted, ProcessStale, ProcessTake,
         ProcessSilenced, ProcessAudible, ProcessDefer, ProcessUndeliverable, ProcessHistory,
         ProcessThrow, WorkerFrame, ruleVars
    <3> QED BY <3>1, PacingFrame DEF Running
  <2> QED BY <2>1, <2>2
<1>5. ASSUME NEW g \in Groups, FlushStep(g) \/ FlushThrow(g) PROVE Pacing'
  <2>1. ASSUME NEW j \in flushJobs, FlushEarly(g, j) PROVE Pacing'
    BY <2>1, PacingFrame DEF FlushEarly, FlushFrame, ruleVars, Running
  <2>2. ASSUME NEW j \in flushJobs, FlushPark(g, j) \/ FlushClaim(g, j) PROVE Pacing'
    BY <2>2, ParkPaces, ClaimPaces
  <2>3. ASSUME NEW found \in ChannelsFound, FlushCommit(g, found) PROVE Pacing'
    BY <2>3, CommitPaces
  <2>4. CASE \/ \E pick \in [Silenced(g) -> Silences] : FlushWeigh(g, pick)
             \/ \E d \in flush[g].defer : FlushCheck(g, d) \/ FlushDefer(g, d)
             \/ FlushForget(g) \/ FlushHistory(g) \/ FlushThrow(g)
             \/ \E found \in ChannelsFound : FlushOrphaned(g, found)
    <3>1. UNCHANGED <<now, rule, groups, nextFlush, lastFlush>>
      BY <2>4 DEF FlushWeigh, FlushCheck, FlushDefer, FlushForget, FlushHistory, FlushThrow, FlushOrphaned,
         FlushFrame, ruleVars, groupVars
    <3>2. flush[g].pc # "idle" /\ \A h \in Groups \ {g} : flush'[h] = flush[h]
      BY <2>4 DEF FlushWeigh, FlushCheck, FlushDefer, FlushForget, FlushHistory, FlushThrow, FlushOrphaned,
         EndFlush, Weighed, TypeOK
    <3>3. Running(g)' => Running(g)
      BY <2>4, <3>2 DEF FlushWeigh, FlushCheck, FlushDefer, FlushForget, FlushHistory, FlushThrow,
         FlushOrphaned, EndFlush, Weighed, Flushing, IdleFlush, Running, TypeOK
    <3> QED BY <3>1, <3>2, <3>3 DEF Pacing, Spaced, Reached, Running
  <2> QED BY <1>5, <2>1, <2>2, <2>3, <2>4 DEF FlushStep
<1>6. CASE UNCHANGED vars BY <1>6, PacingFrame DEF vars, ruleVars, Running
<1> QED BY <1>1, <1>2, <1>3, <1>4, <1>5, <1>6 DEF Next, Work

(* lastFlush moves only in a commit and when a group is created. *)
LEMMA PacedStep ==
    ASSUME TypeOK, Pacing, [Next]_vars, NEW g \in Groups, g \in groups, lastFlush[g] # Never,
           lastFlush'[g] # lastFlush[g]
    PROVE  lastFlush'[g] >= lastFlush[g] + GroupInterval
<1>1. CASE \E h \in Groups, found \in ChannelsFound : FlushCommit(h, found)
  <2>1. PICK h \in Groups, found \in ChannelsFound : FlushCommit(h, found) BY <1>1
  <2>2. lastFlush' = [lastFlush EXCEPT ![h] = now] BY <2>1 DEF FlushCommit
  <2>3. h = g /\ lastFlush'[g] = now BY <2>2 DEF TypeOK
  <2> QED BY <2>1, <2>3, CommitPaces
<1>2. CASE \E w \in Workers, h \in Groups : ProcessDispatch(w, h)
  BY <1>2 DEF ProcessDispatch, groupVars, TypeOK
<1>3. CASE /\ ~\E h \in Groups, found \in ChannelsFound : FlushCommit(h, found)
           /\ ~\E w \in Workers, h \in Groups : ProcessDispatch(w, h)
  <2>1. ASSUME NEW w \in Workers, WorkerStep(w) \/ ProcessThrow(w) PROVE UNCHANGED lastFlush
    BY <1>3, <2>1 DEF WorkerStep, ProcessDone, ProcessMuted, ProcessStale, ProcessTake,
       ProcessSilenced, ProcessAudible, ProcessDefer, ProcessUndeliverable, ProcessHistory,
       ProcessThrow, groupVars
  <2>2. ASSUME NEW h \in Groups, FlushStep(h) \/ FlushThrow(h) PROVE UNCHANGED lastFlush
    BY <1>3, <2>2 DEF FlushStep, FlushEarly, FlushPark, FlushClaim, FlushWeigh, FlushCheck, FlushDefer,
       FlushForget, FlushHistory, FlushThrow, FlushOrphaned, groupVars
  <2>3. CASE People \/ Tick \/ UNCHANGED vars \/ \E p \in projections : ProjectLifecycle(p)
    BY <2>3 DEF People, Fire, Resolve, Journal, PauseRule, ResumeRule, ChangeLabels, DeleteRule,
       CreateSilence, ExpireSilence, Tick, ProjectLifecycle, vars, groupVars
  <2> QED BY <2>1, <2>2, <2>3 DEF Next, Work
<1> QED BY <1>1, <1>2, <1>3

(* A group pages at most once per interval, for any number of workers,       *)
(* events and crashes and any claim cap.                                     *)
THEOREM PagesArePaced == Spec => PacedFlush
<1>1. Init => Pacing
  BY DEF Init, Pacing, Spaced, Reached, Running, IdleFlush
<1>2. TypeOK /\ Pacing /\ [Next]_vars => Pacing' BY NextPaces
<1>3. TypeOK /\ Pacing /\ [Next]_vars =>
        [\A g \in Groups : g \in groups /\ lastFlush[g] # Never /\ lastFlush'[g] # lastFlush[g]
           => lastFlush'[g] >= lastFlush[g] + GroupInterval]_vars
  BY PacedStep
<1> QED BY <1>1, <1>2, <1>3, TypeCorrect, PTL DEF Spec, PacedFlush

-----------------------------------------------------------------------------
(* One holder per event.  A group holds an event as a member, or in the      *)
(* hands of its flush, until the flush has deferred it; a group that is      *)
(* about to delete a deferred membership holds it no more.                   *)

Forgetting(g, e) == flush[g].pc = "forget" /\ flush[g].target = e
Holds(g, e) == (member[g][e] # "out" \/ e \in flush[g].claimed) /\ ~Forgetting(g, e)

SoleHolder ==
    \A g \in Groups : \A e \in Events : Holds(g, e) =>
        /\ claim[e] = "dispatched"
        /\ \A h \in Groups : Holds(h, e) => h = g

(* A flush read its claim while the events were dispatched, and what it      *)
(* keeps, defers and is about to forget lies apart in it.                    *)
Apart(g) ==
    LET f == flush[g]
    IN  /\ f.kept \subseteq f.claimed
        /\ \A e \in f.claimed : f.read[e] = "dispatched"
        /\ \A d \in f.defer : d[1] \in f.claimed \ f.kept
        /\ \A a, b \in f.defer : a[1] = b[1] => a = b
        /\ f.pc = "forget" => /\ f.target \in f.claimed \ f.kept
                              /\ \A d \in f.defer : d[1] # f.target
Sole == SoleHolder /\ \A g \in Groups : Apart(g)

(* The one crash the invariant does not survive: a flush dies after it has   *)
(* deferred an event and before it has deleted the membership.               *)
DiesDeferring == \E g \in Groups : flush[g].pc = "forget" /\ FlushThrow(g)

LEMMA SoleFrame ==
    ASSUME TypeOK, Sole, UNCHANGED flush,
           \A g \in Groups : \A e \in Events : member'[g][e] # "out" => member[g][e] # "out",
           \A e \in Events : claim[e] = "dispatched" => claim'[e] = "dispatched"
    PROVE  Sole'
<1>1. \A g \in Groups : \A e \in Events : Holds(g, e)' => Holds(g, e) BY DEF Holds, Forgetting
<1>2. SoleHolder' BY <1>1 DEF Sole, SoleHolder
<1>3. \A g \in Groups : Apart(g)' BY DEF Sole, Apart
<1> QED BY <1>2, <1>3 DEF Sole

(* A step of the flush of g that takes hold of nothing new. *)
LEMMA SoleFlush ==
    ASSUME TypeOK, Sole, NEW g \in Groups, NEW f,
           flush' = [flush EXCEPT ![g] = f],
           UNCHANGED claim,
           \A h \in Groups \ {g} : member'[h] = member[h],
           \A e \in Events : /\ member'[g][e] # "out" \/ e \in f.claimed
                             /\ ~(f.pc = "forget" /\ f.target = e)
                             => Holds(g, e),
           Apart(g)'
    PROVE  Sole'
<1>0. flush'[g] = f /\ \A h \in Groups \ {g} : flush'[h] = flush[h] BY DEF TypeOK
<1>1. ASSUME NEW h \in Groups, NEW e \in Events, Holds(h, e)' PROVE Holds(h, e)
  BY <1>0, <1>1 DEF Holds, Forgetting
<1>2. SoleHolder' BY <1>1 DEF Sole, SoleHolder
<1>3. \A h \in Groups \ {g} : Apart(h)' BY <1>0 DEF Sole, Apart
<1> QED BY <1>2, <1>3 DEF Sole

LEMMA DispatchSole ==
    ASSUME TypeOK, Sole, NEW w \in Workers, NEW g \in Groups, ProcessDispatch(w, g) PROVE Sole'
<1> DEFINE e == worker[w].event
<1>1. e \in Events BY Busy DEF ProcessDispatch
<1>2. CASE ~Owns(e, "open")
  BY <1>2, SoleFrame DEF ProcessDispatch, WorkerFrame, groupVars
<1>3. CASE Owns(e, "open")
  <2>1. /\ claim[e] = "open" /\ claim' = [claim EXCEPT ![e] = "dispatched"] /\ flush' = flush
        /\ member' = IF member[g][e] = "out" THEN [member EXCEPT ![g][e] = "unflushed"]
                                             ELSE member
    BY <1>3 DEF ProcessDispatch, WorkerFrame, Owns
  <2> HIDE DEF e
  <2>2. \A h \in Groups : ~Holds(h, e) BY <1>1, <2>1 DEF Sole, SoleHolder
  <2>3. ASSUME NEW h \in Groups, NEW x \in Events, Holds(h, x)' PROVE Holds(h, x) \/ (h = g /\ x = e)
    BY <1>1, <2>1, <2>3 DEF Holds, Forgetting, TypeOK
  <2>4. \A x \in Events : claim[x] = "dispatched" => claim'[x] = "dispatched" BY <2>1 DEF TypeOK
  <2>5. claim'[e] = "dispatched" BY <1>1, <2>1 DEF TypeOK
  <2>6. SoleHolder'
    <3>1. ASSUME NEW h \in Groups, NEW x \in Events, Holds(h, x)' PROVE claim'[x] = "dispatched"
      BY <2>3, <2>4, <2>5, <3>1 DEF Sole, SoleHolder
    <3>2. ASSUME NEW h \in Groups, NEW i \in Groups, NEW x \in Events, Holds(h, x)', Holds(i, x)'
          PROVE  h = i
      <4>1. CASE x = e BY <2>2, <2>3, <3>2, <4>1
      <4>2. CASE x # e
        <5>1. Holds(h, x) /\ Holds(i, x) BY <2>3, <3>2, <4>2
        <5> QED BY <5>1 DEF Sole, SoleHolder
      <4> QED BY <4>1, <4>2
    <3> QED BY <3>1, <3>2 DEF SoleHolder
  <2>7. \A h \in Groups : Apart(h)' BY <2>1 DEF Sole, Apart
  <2> QED BY <2>6, <2>7 DEF Sole
<1> QED BY <1>2, <1>3

LEMMA ClaimSole ==
    ASSUME TypeOK, Sole, NEW g \in Groups, NEW j \in flushJobs, FlushClaim(g, j) PROVE Sole'
<1> DEFINE flushed == Members(g) \ Unflushed(g)
           rows == ClaimOf(Members(g), flushed)
           held == {e \in rows : heldBy[e] # None}
           f == ClaimedBy(j[2], nextFlush[g], rows, rows \cap flushed, held)
<1>1. rows \subseteq Members(g) BY DEF ClaimOf
<1>2. flush' = [flush EXCEPT ![g] = f] /\ UNCHANGED <<claim, member>> /\ flush[g].pc = "idle"
  BY DEF FlushClaim, DueFlush, groupVars
<1> HIDE DEF flushed, rows, held
<1>3. \A e \in Members(g) : e \in Events /\ Holds(g, e) BY <1>2 DEF Members, Holds, Forgetting
<1>4. /\ f.pc = "weigh" /\ f.claimed = rows /\ f.read = claim /\ f.kept = {} /\ f.defer = {}
  BY DEF ClaimedBy
<1>5. flush'[g] = f BY <1>2 DEF TypeOK
<1> HIDE DEF f
<1>6. Apart(g)' BY <1>1, <1>3, <1>4, <1>5 DEF Apart, Sole, SoleHolder
<1>7. \A e \in Events : member'[g][e] # "out" \/ e \in f.claimed => Holds(g, e)
  BY <1>1, <1>2, <1>3, <1>4 DEF Members
<1> QED BY <1>2, <1>6, <1>7, SoleFlush

LEMMA WeighSole ==
    ASSUME TypeOK, Sole, NEW g \in Groups, NEW pick \in [Silenced(g) -> Silences], FlushWeigh(g, pick)
    PROVE  Sole'
<1> DEFINE f == flush[g]
           kept == Candidates(g) \ Silenced(g)
           defer == {<<e, pick[e], silenceEnd[pick[e]]>> : e \in Silenced(g)}
           drops == {<<e, DropReason(f.rule)>> : e \in f.claimed \ (Candidates(g) \cup f.flushed)}
           next == Flushing("defer", f, f.claimed, kept, defer, 0, FALSE, drops)
<1>1. flush' = [flush EXCEPT ![g] = next] /\ UNCHANGED <<claim, member>> /\ f.pc = "weigh"
  BY DEF FlushWeigh, groupVars
<1>2. Silenced(g) \subseteq Candidates(g) /\ Candidates(g) \subseteq f.claimed
  BY DEF Silenced, Candidates
<1>3. /\ \A d \in defer : d[1] \in Silenced(g)
      /\ \A a, b \in defer : a[1] = b[1] => a = b
  OBVIOUS
<1>4. /\ next.pc = "defer" /\ next.claimed = f.claimed /\ next.read = f.read
      /\ next.kept = kept /\ next.defer = defer
  BY DEF Flushing
<1>5. flush'[g] = next BY <1>1 DEF TypeOK
<1>6. \A e \in f.claimed : f.read[e] = "dispatched" BY DEF Sole, Apart
<1> HIDE DEF next, defer, drops
<1>7. Apart(g)' BY <1>2, <1>3, <1>4, <1>5, <1>6 DEF Apart
<1>8. \A e \in Events : member'[g][e] # "out" \/ e \in next.claimed => Holds(g, e)
  BY <1>1, <1>4 DEF Holds, Forgetting
<1> QED BY <1>1, <1>7, <1>8, SoleFlush

LEMMA CheckSole ==
    ASSUME TypeOK, Sole, NEW g \in Groups, NEW d \in flush[g].defer, FlushCheck(g, d) PROVE Sole'
<1> DEFINE f == flush[g]
           next == Flushing("hold", f, f.claimed, f.kept, f.defer, d[1], StillFiring(d[1]), f.drops)
<1>1. flush' = [flush EXCEPT ![g] = next] /\ UNCHANGED <<claim, member>> /\ f.pc = "defer"
  BY DEF FlushCheck, groupVars
<1>2. /\ next.pc = "hold" /\ next.claimed = f.claimed /\ next.read = f.read
      /\ next.kept = f.kept /\ next.defer = f.defer
  BY DEF Flushing
<1>3. flush'[g] = next BY <1>1 DEF TypeOK
<1> HIDE DEF next
<1>4. Apart(g)' BY <1>2, <1>3 DEF Sole, Apart
<1>5. \A e \in Events : member'[g][e] # "out" \/ e \in next.claimed => Holds(g, e)
  BY <1>1, <1>2 DEF Holds, Forgetting
<1> QED BY <1>1, <1>4, <1>5, SoleFlush

(* The flush owns what it defers, so the deferral moves the event on. *)
LEMMA DeferOwns ==
    ASSUME TypeOK, Sole, NEW g \in Groups, NEW d \in flush[g].defer, flush[g].pc # "forget"
    PROVE  /\ d[1] \in Events /\ Holds(g, d[1])
           /\ claim[d[1]] = "dispatched" /\ Owns(d[1], flush[g].read[d[1]])
<1>1. d[1] \in Events BY Held
<1>2. d[1] \in flush[g].claimed /\ flush[g].read[d[1]] = "dispatched" BY DEF Sole, Apart
<1>3. Holds(g, d[1]) BY <1>2 DEF Holds, Forgetting
<1> QED BY <1>1, <1>2, <1>3 DEF Sole, SoleHolder, Owns

LEMMA FlushDeferSole ==
    ASSUME TypeOK, Sole, NEW g \in Groups, NEW d \in flush[g].defer, FlushDefer(g, d) PROVE Sole'
<1> DEFINE f == flush[g]
           e == d[1]
           drops == f.drops \cup IF Owns(e, f.read[e]) /\ ~f.retry THEN {<<e, "silenced">>} ELSE {}
           next == Flushing("forget", f, f.claimed, f.kept, f.defer \ {d}, e, FALSE, drops)
<1>1. flush' = [flush EXCEPT ![g] = next] /\ UNCHANGED member /\ f.pc = "hold"
  BY DEF FlushDefer, groupVars
<1>2. e \in Events /\ Holds(g, e) /\ Owns(e, f.read[e]) BY <1>1, DeferOwns
<1>3. claim' = [claim EXCEPT ![e] = IF f.retry THEN "open" ELSE "ended"]
  BY <1>2 DEF FlushDefer, Hold
<1>4. /\ next.pc = "forget" /\ next.claimed = f.claimed /\ next.read = f.read
      /\ next.kept = f.kept /\ next.defer = f.defer \ {d} /\ next.target = e
  BY DEF Flushing
<1>5. flush'[g] = next /\ \A h \in Groups \ {g} : flush'[h] = flush[h] BY <1>1 DEF TypeOK
<1>6. /\ e \in f.claimed \ f.kept /\ \A a \in f.defer : a[1] = e => a = d
      /\ \A h \in Groups : Holds(h, e) => h = g
  BY <1>2 DEF Sole, Apart, SoleHolder
<1> HIDE DEF next, e, drops
<1>7. Apart(g)' BY <1>4, <1>5, <1>6 DEF Sole, Apart
<1>8. \A h \in Groups \ {g} : Apart(h)' BY <1>5 DEF Sole, Apart
<1>9. ASSUME NEW h \in Groups, NEW x \in Events, Holds(h, x)' PROVE Holds(h, x) /\ x # e
  <2>1. CASE h = g BY <1>1, <1>4, <1>5, <1>9, <2>1 DEF Holds, Forgetting
  <2>2. CASE h # g BY <1>1, <1>5, <1>6, <1>9, <2>2 DEF Holds, Forgetting
  <2> QED BY <2>1, <2>2
<1>10. \A x \in Events \ {e} : claim'[x] = claim[x] BY <1>3 DEF TypeOK
<1>11. SoleHolder' BY <1>9, <1>10 DEF Sole, SoleHolder
<1> QED BY <1>7, <1>8, <1>11 DEF Sole

LEMMA ForgetSole ==
    ASSUME TypeOK, Sole, NEW g \in Groups, FlushForget(g) PROVE Sole'
<1> DEFINE f == flush[g]
           e == f.target
           next == Flushing("defer", f, f.claimed \ {e}, f.kept, f.defer, 0, FALSE,
                            f.drops \ {<<e, "silenced">>})
<1>1. /\ flush' = [flush EXCEPT ![g] = next] /\ UNCHANGED claim /\ f.pc = "forget"
      /\ member' = [member EXCEPT ![g][e] = "out"]
  BY DEF FlushForget
<1>2. /\ next.pc = "defer" /\ next.claimed = f.claimed \ {e} /\ next.read = f.read
      /\ next.kept = f.kept /\ next.defer = f.defer
  BY DEF Flushing
<1>3. flush'[g] = next BY <1>1 DEF TypeOK
<1>4. e \in f.claimed \ f.kept /\ \A d \in f.defer : d[1] # e BY <1>1 DEF Sole, Apart
<1>5. e \in Events BY <1>4, Held
<1> HIDE DEF next
<1>6. Apart(g)' BY <1>2, <1>3, <1>4 DEF Sole, Apart
<1>7. /\ \A h \in Groups \ {g} : member'[h] = member[h]
      /\ member'[g][e] = "out" /\ \A x \in Events \ {e} : member'[g][x] = member[g][x]
  BY <1>1, <1>5 DEF TypeOK
<1>8. \A x \in Events : member'[g][x] # "out" \/ x \in next.claimed => Holds(g, x)
  BY <1>1, <1>2, <1>7 DEF Holds, Forgetting
<1> QED BY <1>1, <1>6, <1>7, <1>8, SoleFlush

(* The flush ends: it lets go of what it claimed. *)
LEMMA LetGo ==
    ASSUME TypeOK, Sole, NEW g \in Groups, flush[g].pc # "forget", NEW f,
           f.claimed = {}, f.kept = {}, f.defer = {}, f.pc # "forget",
           flush' = [flush EXCEPT ![g] = f], UNCHANGED claim,
           \A h \in Groups \ {g} : member'[h] = member[h],
           \A e \in Events : member'[g][e] # "out" => member[g][e] # "out" \/ e \in flush[g].claimed
    PROVE  Sole'
<1>1. flush'[g] = f BY DEF TypeOK
<1>2. Apart(g)' BY <1>1 DEF Apart
<1>3. \A e \in Events : member'[g][e] # "out" \/ e \in f.claimed => Holds(g, e) BY DEF Holds, Forgetting
<1> QED BY <1>2, <1>3, SoleFlush

(* How a flush stands once its transaction is over. *)
Ending(g, owed) ==
    IF owed = {} THEN IdleFlush
    ELSE Flushing("history", [IdleFlush EXCEPT !.due = flush[g].due], {}, {}, {}, 0, FALSE, owed)

LEMMA EndingFields ==
    ASSUME NEW g \in Groups, NEW owed
    PROVE  /\ Ending(g, owed).claimed = {} /\ Ending(g, owed).kept = {}
           /\ Ending(g, owed).defer = {} /\ Ending(g, owed).flushed = {}
           /\ Ending(g, owed).drops = owed
           /\ Ending(g, owed).pc = IF owed = {} THEN "idle" ELSE "history"
  BY DEF Ending, Flushing, IdleFlush

LEMMA IdleFields ==
    /\ IdleFlush.claimed = {} /\ IdleFlush.kept = {} /\ IdleFlush.defer = {}
    /\ IdleFlush.flushed = {} /\ IdleFlush.drops = {} /\ IdleFlush.pc = "idle"
  BY DEF IdleFlush

LEMMA CommitSole ==
    ASSUME TypeOK, Sole, NEW g \in Groups, NEW found \in SUBSET Channels, FlushCommit(g, found)
    PROVE  Sole'
<1> DEFINE f == flush[g]
           active == Active(f.kept, kind, subject)
           after == [e \in Events |-> IF e \in active THEN "flushed"
                                      ELSE IF e \in f.claimed THEN "out" ELSE member[g][e]]
           next == Ending(g, Undelivered(f, found))
<1>1. /\ flush' = [flush EXCEPT ![g] = next] /\ UNCHANGED claim /\ f.pc = "defer"
      /\ member' = [member EXCEPT ![g] = after]
  BY DEF FlushCommit, EndFlush, Ending, Weighed
<1>2. active \subseteq f.claimed BY DEF Active, Latest, Sole, Apart
<1>3. next.claimed = {} /\ next.kept = {} /\ next.defer = {} /\ next.pc # "forget" BY EndingFields
<1> HIDE DEF active, next
<1>4. /\ \A h \in Groups \ {g} : member'[h] = member[h]
      /\ \A e \in Events : member'[g][e] # "out" => member[g][e] # "out" \/ e \in f.claimed
  BY <1>1, <1>2 DEF TypeOK
<1> QED BY <1>1, <1>3, <1>4, LetGo

LEMMA OrphanedSole ==
    ASSUME TypeOK, Sole, NEW g \in Groups, NEW found \in SUBSET Channels, FlushOrphaned(g, found)
    PROVE  Sole'
<1> DEFINE next == Ending(g, Undelivered(flush[g], found))
<1>1. flush' = [flush EXCEPT ![g] = next] /\ UNCHANGED <<claim, member>> /\ flush[g].pc = "defer"
  BY DEF FlushOrphaned, EndFlush, Ending, Weighed, groupVars
<1>2. next.claimed = {} /\ next.kept = {} /\ next.defer = {} /\ next.pc # "forget" BY EndingFields
<1> HIDE DEF next
<1> QED BY <1>1, <1>2, LetGo

LEMMA HistorySole == ASSUME TypeOK, Sole, NEW g \in Groups, FlushHistory(g) PROVE Sole'
<1>1. flush' = [flush EXCEPT ![g] = IdleFlush] /\ UNCHANGED <<claim, member>> /\ flush[g].pc = "history"
  BY DEF FlushHistory, groupVars
<1> QED BY <1>1, IdleFields, LetGo

LEMMA ThrowSole ==
    ASSUME TypeOK, Sole, NEW g \in Groups, FlushThrow(g), ~DiesDeferring PROVE Sole'
<1>1. /\ flush' = [flush EXCEPT ![g] = IdleFlush] /\ UNCHANGED <<claim, member>>
      /\ flush[g].pc # "forget"
  BY DEF FlushThrow, DiesDeferring, groupVars
<1> QED BY <1>1, IdleFields, LetGo

LEMMA DeleteSole == ASSUME TypeOK, Sole, DeleteRule PROVE Sole'
<1>1. /\ UNCHANGED flush
      /\ \A e \in Events : claim[e] = "dispatched" => claim'[e] = "dispatched"
  BY DEF DeleteRule, CloseLifecycle, Cancelable
<1>2. \A g \in Groups : \A e \in Events : member'[g][e] # "out" => member[g][e] # "out"
  BY DEF DeleteRule
<1> QED BY <1>1, <1>2, SoleFrame

LEMMA FlushStepSole ==
    ASSUME TypeOK, Sole, NEW g \in Groups, FlushStep(g) PROVE Sole'
<1>1. ASSUME NEW j \in flushJobs, FlushEarly(g, j) \/ FlushPark(g, j) PROVE Sole'
  BY <1>1, SoleFrame DEF FlushEarly, FlushPark, groupVars
<1>2. ASSUME NEW j \in flushJobs, FlushClaim(g, j) PROVE Sole' BY <1>2, ClaimSole
<1>3. ASSUME NEW pick \in [Silenced(g) -> Silences], FlushWeigh(g, pick) PROVE Sole'
  BY <1>3, WeighSole
<1>4. ASSUME NEW d \in flush[g].defer, FlushCheck(g, d) \/ FlushDefer(g, d) PROVE Sole'
  BY <1>4, CheckSole, FlushDeferSole
<1>5. CASE FlushForget(g) \/ FlushHistory(g) BY <1>5, ForgetSole, HistorySole
<1>6. ASSUME NEW found \in ChannelsFound, FlushCommit(g, found) \/ FlushOrphaned(g, found)
      PROVE  Sole'
  BY <1>6, CommitSole, OrphanedSole DEF ChannelsFound
<1> QED BY <1>1, <1>2, <1>3, <1>4, <1>5, <1>6 DEF FlushStep

LEMMA WorkerStepSole ==
    ASSUME TypeOK, Sole, NEW w \in Workers, WorkerStep(w) \/ ProcessThrow(w) PROVE Sole'
<1>1. ASSUME NEW j \in processJobs,
             ProcessDone(w, j) \/ ProcessMuted(w, j) \/ ProcessStale(w, j) \/ ProcessTake(w, j)
      PROVE  Sole'
  <2>1. /\ UNCHANGED <<flush, member>>
        /\ \A e \in Events : claim[e] = "dispatched" => claim'[e] = "dispatched"
    BY <1>1 DEF ProcessDone, ProcessMuted, ProcessStale, ProcessTake, DeliverableEvent, EndChain,
                Owns, WorkerFrame, groupVars, TypeOK
  <2> QED BY <2>1, SoleFrame
<1>2. ASSUME NEW s \in Silences, ProcessSilenced(w, s) PROVE Sole'
  BY <1>2, SoleFrame DEF ProcessSilenced, WorkerFrame, groupVars
<1>3. CASE ProcessAudible(w) \/ ProcessHistory(w) \/ ProcessThrow(w)
  BY <1>3, SoleFrame DEF ProcessAudible, ProcessHistory, ProcessThrow, WorkerFrame, groupVars
<1>4. CASE ProcessDefer(w) \/ ProcessUndeliverable(w)
  <2>1. /\ UNCHANGED <<flush, member>>
        /\ \A e \in Events : claim[e] = "dispatched" => claim'[e] = "dispatched"
    BY <1>4 DEF ProcessDefer, ProcessUndeliverable, EndChain, Hold, Owns, WorkerFrame, groupVars,
                TypeOK
  <2> QED BY <2>1, SoleFrame
<1>5. ASSUME NEW g \in Groups, ProcessDispatch(w, g) PROVE Sole' BY <1>5, DispatchSole
<1> QED BY <1>1, <1>2, <1>3, <1>4, <1>5 DEF WorkerStep

LEMMA NextSole == ASSUME TypeOK, Sole, [Next]_vars, ~DiesDeferring PROVE Sole'
<1>1. CASE Tick \/ UNCHANGED vars
  BY <1>1, SoleFrame DEF Tick, vars, groupVars
<1>2. ASSUME NEW i \in Instances, Fire(i) \/ Resolve(i) PROVE Sole'
  BY <1>2, SoleFrame DEF Fire, Resolve, Journal, groupVars
<1>3. CASE PauseRule \/ ChangeLabels
  BY <1>3, SoleFrame DEF PauseRule, ChangeLabels, CloseLifecycle, Cancelable, groupVars
<1>4. CASE ResumeRule BY <1>4, SoleFrame DEF ResumeRule, groupVars
<1>5. CASE DeleteRule BY <1>5, DeleteSole
<1>6. ASSUME NEW s \in Silences,
             ExpireSilence(s) \/ \E scope \in Scopes, end \in Times : CreateSilence(s, scope, end)
      PROVE  Sole'
  BY <1>6, SoleFrame DEF ExpireSilence, CreateSilence, groupVars
<1>7. ASSUME NEW p \in projections, ProjectLifecycle(p) PROVE Sole'
  BY <1>7, SoleFrame DEF ProjectLifecycle, groupVars
<1>8. ASSUME NEW w \in Workers, WorkerStep(w) \/ ProcessThrow(w) PROVE Sole'
  BY <1>8, WorkerStepSole
<1>9. ASSUME NEW g \in Groups, FlushStep(g) PROVE Sole' BY <1>9, FlushStepSole
<1>10. ASSUME NEW g \in Groups, FlushThrow(g) PROVE Sole' BY <1>10, ThrowSole
<1> QED BY <1>1, <1>2, <1>3, <1>4, <1>5, <1>6, <1>7, <1>8, <1>9, <1>10 DEF Next, Work, People

LEMMA InitSole == Init => Sole
  BY IdleFields DEF Init, Sole, SoleHolder, Holds, Forgetting, Apart

-----------------------------------------------------------------------------
(* The pipeline works on what was journaled: nothing claims an event before  *)
(* it exists, and jobs and workers are about events that do.                 *)
OfJournal ==
    /\ \A e \in Events : e \notin Journaled => claim[e] = "open"
    /\ \A j \in processJobs : j[1] \in Journaled
    /\ \A w \in Workers : worker[w].pc # "idle" => worker[w].event \in Journaled

LEMMA InitOfJournal == Init => OfJournal
  BY DEF Init, OfJournal, IdleWorker, Handling

LEMMA JournalFrame ==
    ASSUME TypeOK, OfJournal, tail' = tail,
           \A e \in Events \ Journaled : claim'[e] = claim[e],
           \A j \in processJobs' : j \in processJobs \/ j[1] \in Journaled,
           \A w \in Workers : worker'[w].pc # "idle" => worker'[w].event \in Journaled
    PROVE  OfJournal'
<1>1. Journaled' = Journaled BY DEF Journaled
<1> QED BY <1>1 DEF OfJournal

LEMMA JournalOfJournal ==
    ASSUME TypeOK, OfJournal, NEW i \in Instances, Fire(i) \/ Resolve(i) PROVE OfJournal'
<1>1. /\ tail' = tail + 1 /\ tail \in 0..MaxEvents /\ tail < MaxEvents
      /\ processJobs' = processJobs \cup {<<tail + 1, now>>} /\ UNCHANGED <<claim, worker>>
  BY DEF Fire, Resolve, Journal, TypeOK
<1>2. Journaled \subseteq Journaled' /\ tail + 1 \in Journaled' BY <1>1 DEF Journaled
<1> QED BY <1>1, <1>2 DEF OfJournal

(* A worker's step: its event stays, or is that of the job it takes. *)
LEMMA WorkerOfJournal ==
    ASSUME TypeOK, OfJournal, NEW w \in Workers, WorkerStep(w) \/ ProcessThrow(w) PROVE OfJournal'
<1>0. /\ \A v \in Workers : worker[v].pc # "idle" => worker[v].event \in Journaled
      /\ IdleWorker.pc = "idle"
  BY DEF OfJournal, IdleWorker, Handling
<1>1. ASSUME NEW j \in processJobs,
             ProcessDone(w, j) \/ ProcessMuted(w, j) \/ ProcessStale(w, j) \/ ProcessTake(w, j)
      PROVE  OfJournal'
  <2>1. j[1] \in Journaled /\ j[1] \in Events BY DEF OfJournal, TypeOK
  <2>2. tail' = tail /\ processJobs' = processJobs \ {j}
    BY <1>1 DEF ProcessDone, ProcessMuted, ProcessStale, ProcessTake, DeliverableEvent, Due,
                WorkerFrame, journalVars
  <2>3. \A e \in Events \ Journaled : claim'[e] = claim[e]
    BY <1>1, <2>1 DEF ProcessDone, ProcessMuted, ProcessStale, ProcessTake, EndChain, TypeOK
  <2>4. \A v \in Workers : worker'[v].pc # "idle" => worker'[v].event \in Journaled
    BY <1>0, <1>1, <2>1 DEF ProcessDone, ProcessMuted, ProcessStale, ProcessTake, EndChain, Finish,
                Owing, Weighing, Handling, TypeOK
  <2> QED BY <2>2, <2>3, <2>4, JournalFrame
<1>2. ASSUME NEW s \in Silences, ProcessSilenced(w, s) PROVE OfJournal'
  <2>1. /\ UNCHANGED <<tail, claim, processJobs>>
        /\ \A v \in Workers : worker'[v].pc # "idle" => worker'[v].event \in Journaled
    BY <1>0, <1>2 DEF ProcessSilenced, Handling, WorkerFrame, journalVars, TypeOK
  <2> QED BY <2>1, JournalFrame
<1>3. CASE ProcessAudible(w)
  <2>1. /\ UNCHANGED <<tail, claim, processJobs>>
        /\ \A v \in Workers : worker'[v].pc # "idle" => worker'[v].event \in Journaled
    BY <1>0, <1>3 DEF ProcessAudible, Goto, WorkerFrame, journalVars, TypeOK, WorkerType
  <2> QED BY <2>1, JournalFrame
<1>4. CASE ProcessDefer(w) \/ ProcessUndeliverable(w)
  <2>1. worker[w].event \in Journaled /\ worker[w].event \in Events
    BY <1>0, <1>4, Busy DEF ProcessDefer, ProcessUndeliverable
  <2>2. tail' = tail /\ \A j \in processJobs' : j \in processJobs \/ j[1] = worker[w].event
    BY <1>4 DEF ProcessDefer, ProcessUndeliverable, Hold, WorkerFrame, journalVars
  <2>3. \A e \in Events \ Journaled : claim'[e] = claim[e]
    BY <1>4, <2>1 DEF ProcessDefer, ProcessUndeliverable, EndChain, Hold, TypeOK
  <2>4. \A v \in Workers : worker'[v].pc # "idle" => worker'[v].event \in Journaled
    BY <1>0, <1>4, <2>1 DEF ProcessDefer, ProcessUndeliverable, EndChain, Finish, Owing, Handling,
                TypeOK
  <2> QED BY <2>1, <2>2, <2>3, <2>4, JournalFrame
<1>5. CASE ProcessHistory(w) \/ ProcessThrow(w)
  <2>1. worker[w].event \in Journaled BY <1>0, <1>5 DEF ProcessHistory, ProcessThrow
  <2>2. /\ UNCHANGED <<tail, claim>>
        /\ \A j \in processJobs' : j \in processJobs \/ j[1] = worker[w].event
    BY <1>5 DEF ProcessHistory, ProcessThrow, WorkerFrame, journalVars
  <2>3. \A v \in Workers : worker'[v].pc # "idle" => worker'[v].event \in Journaled
    BY <1>0, <1>5 DEF ProcessHistory, ProcessThrow, Finish, TypeOK
  <2> QED BY <2>1, <2>2, <2>3, JournalFrame
<1>6. ASSUME NEW g \in Groups, ProcessDispatch(w, g) PROVE OfJournal'
  <2>1. worker[w].event \in Journaled BY <1>0, <1>6 DEF ProcessDispatch
  <2>2. UNCHANGED <<tail, processJobs>> /\ \A e \in Events \ Journaled : claim'[e] = claim[e]
    BY <1>6, <2>1 DEF ProcessDispatch, WorkerFrame, journalVars, TypeOK
  <2>3. \A v \in Workers : worker'[v].pc # "idle" => worker'[v].event \in Journaled
    BY <1>0, <1>6 DEF ProcessDispatch, Finish, TypeOK
  <2> QED BY <2>2, <2>3, JournalFrame
<1> QED BY <1>1, <1>2, <1>3, <1>4, <1>5, <1>6 DEF WorkerStep

LEMMA FlushOfJournal ==
    ASSUME TypeOK, Sole, OfJournal, NEW g \in Groups, FlushStep(g) \/ FlushThrow(g) PROVE OfJournal'
<1>0. \A v \in Workers : worker[v].pc # "idle" => worker[v].event \in Journaled BY DEF OfJournal
<1>1. ASSUME NEW d \in flush[g].defer, FlushDefer(g, d) PROVE OfJournal'
  <2>1. d[1] \in Events /\ claim[d[1]] = "dispatched" /\ Owns(d[1], flush[g].read[d[1]])
    BY <1>1, DeferOwns DEF FlushDefer
  <2>2. d[1] \in Journaled BY <2>1 DEF OfJournal
  <2>3. /\ UNCHANGED <<tail, worker>>
        /\ \A j \in processJobs' : j \in processJobs \/ j[1] = d[1]
        /\ \A e \in Events \ Journaled : claim'[e] = claim[e]
    BY <1>1, <2>1, <2>2 DEF FlushDefer, Hold, FlushFrame, journalVars, TypeOK
  <2> QED BY <1>0, <2>2, <2>3, JournalFrame
<1>2. CASE UNCHANGED <<tail, worker, claim, processJobs>> BY <1>0, <1>2, JournalFrame
<1>3. CASE FlushThrow(g) BY <1>2, <1>3 DEF FlushThrow, FlushFrame, journalVars
<1>4. ASSUME NEW j \in flushJobs, FlushEarly(g, j) \/ FlushPark(g, j) \/ FlushClaim(g, j)
      PROVE  OfJournal'
  BY <1>2, <1>4 DEF FlushEarly, FlushPark, FlushClaim, FlushFrame, journalVars
<1>5. ASSUME NEW pick \in [Silenced(g) -> Silences], FlushWeigh(g, pick) PROVE OfJournal'
  BY <1>2, <1>5 DEF FlushWeigh, FlushFrame, journalVars
<1>6. ASSUME NEW d \in flush[g].defer, FlushCheck(g, d) PROVE OfJournal'
  BY <1>2, <1>6 DEF FlushCheck, FlushFrame, journalVars
<1>7. CASE FlushForget(g) \/ FlushHistory(g)
  BY <1>2, <1>7 DEF FlushForget, FlushHistory, FlushFrame, journalVars
<1>8. ASSUME NEW found \in ChannelsFound, FlushCommit(g, found) \/ FlushOrphaned(g, found)
      PROVE  OfJournal'
  BY <1>2, <1>8 DEF FlushCommit, FlushOrphaned, FlushFrame, journalVars
<1> QED BY <1>1, <1>3, <1>4, <1>5, <1>6, <1>7, <1>8 DEF FlushStep

LEMMA NextOfJournal == ASSUME TypeOK, Sole, OfJournal, [Next]_vars PROVE OfJournal'
<1>0. \A v \in Workers : worker[v].pc # "idle" => worker[v].event \in Journaled BY DEF OfJournal
<1>1. CASE UNCHANGED <<tail, worker, claim, processJobs>> BY <1>0, <1>1, JournalFrame
<1>2. CASE Tick \/ UNCHANGED vars BY <1>1, <1>2 DEF Tick, vars, journalVars, jobVars
<1>3. ASSUME NEW i \in Instances, Fire(i) \/ Resolve(i) PROVE OfJournal'
  BY <1>3, JournalOfJournal
<1>4. CASE PauseRule \/ ChangeLabels \/ DeleteRule
  <2>1. /\ UNCHANGED <<tail, worker, processJobs>>
        /\ \A e \in Events \ Journaled : claim'[e] = claim[e]
    BY <1>4 DEF PauseRule, ChangeLabels, DeleteRule, CloseLifecycle, Cancelable, journalVars
  <2> QED BY <1>0, <2>1, JournalFrame
<1>5. CASE ResumeRule BY <1>1, <1>5 DEF ResumeRule, journalVars, jobVars
<1>6. ASSUME NEW s \in Silences,
             ExpireSilence(s) \/ \E scope \in Scopes, end \in Times : CreateSilence(s, scope, end)
      PROVE  OfJournal'
  BY <1>0, <1>6, JournalFrame DEF ExpireSilence, CreateSilence, journalVars, jobVars
<1>7. ASSUME NEW p \in projections, ProjectLifecycle(p) PROVE OfJournal'
  BY <1>1, <1>7 DEF ProjectLifecycle, journalVars
<1>8. ASSUME NEW w \in Workers, WorkerStep(w) \/ ProcessThrow(w) PROVE OfJournal'
  BY <1>8, WorkerOfJournal
<1>9. ASSUME NEW g \in Groups, FlushStep(g) \/ FlushThrow(g) PROVE OfJournal'
  BY <1>9, FlushOfJournal
<1> QED BY <1>2, <1>3, <1>4, <1>5, <1>6, <1>7, <1>8, <1>9 DEF Next, Work, People

-----------------------------------------------------------------------------
(* The stage of a chain, read off the journal and the claim. *)
LEMMA StageCase ==
    ASSUME NEW e \in Events, TypeOK
    PROVE  /\ e > tail => StageOf(e) = "unborn"
           /\ ~(e > tail) /\ claim[e] = "open" => StageOf(e) = "waiting"
           /\ ~(e > tail) /\ claim[e] = "dispatched" => StageOf(e) = "joined"
           /\ ~(e > tail) /\ claim[e] \notin {"open", "dispatched"} => StageOf(e) = claim[e]
  BY DEF StageOf, TypeOK, Events

LEMMA StageNext ==
    ASSUME NEW e \in Events, tail' \in 0..MaxEvents
    PROVE  /\ e > tail' => StageOf(e)' = "unborn"
           /\ ~(e > tail') /\ claim'[e] = "open" => StageOf(e)' = "waiting"
           /\ ~(e > tail') /\ claim'[e] = "dispatched" => StageOf(e)' = "joined"
           /\ ~(e > tail') /\ claim'[e] \notin {"open", "dispatched"} => StageOf(e)' = claim'[e]
  BY DEF StageOf, Events

(* The pipeline implements the abstract chain.  Each step stamps one claim,  *)
(* journals, cancels, announces or leaves the three rows alone that the      *)
(* mapping reads; Sole makes a deferral and an announcement find their       *)
(* events dispatched.                                                        *)

(* The plan announces what it keeps. *)
LEMMA NotifiedKept == ASSUME NEW f PROVE Notified(f) \subseteq f.kept
  BY DEF Notified, Notify, Announced, Active, Latest

(* Steps of the chain, in terms of the rows. *)
Stages == [e \in Events |-> StageOf(e)]

LEMMA ChainStutter ==
    ASSUME UNCHANGED <<tail, claim, deliveries>> PROVE UNCHANGED Chain!chainVars
  BY DEF Chain!chainVars, StageOf, Delivered

LEMMA ChainMove ==
    ASSUME NEW e \in Events, NEW from, NEW to, StageOf(e) = from, StageOf(e)' = to,
           \A x \in Events \ {e} : StageOf(x)' = StageOf(x), UNCHANGED deliveries
    PROVE  Chain!Move(e, from, to)
<1>1. Stages' = [Stages EXCEPT ![e] = to] BY DEF Stages
<1> QED BY <1>1 DEF Chain!Move, Stages, Delivered

(* The claim of one journaled event is stamped. *)
LEMMA ChainStamp ==
    ASSUME TypeOK, NEW e \in Events, e \in Journaled, NEW c \in {"open", "dispatched", "ended"},
           claim' = [claim EXCEPT ![e] = c], UNCHANGED <<tail, deliveries>>,
           \/ claim[e] = "open"
           \/ claim[e] = "dispatched" /\ c # "dispatched"
    PROVE  [Chain!Next]_(Chain!chainVars)
<1>1. /\ tail \in 0..MaxEvents /\ tail' \in 0..MaxEvents /\ ~(e > tail) /\ ~(e > tail')
      /\ e \in Chain!Events
  BY DEF TypeOK, Journaled, Events, Chain!Events
<1>2. \A x \in Events \ {e} : StageOf(x)' = StageOf(x) BY DEF StageOf, TypeOK
<1>3. claim'[e] = c BY DEF TypeOK
<1>4. CASE claim[e] = c
  <2>1. claim' = claim BY <1>4 DEF TypeOK
  <2> QED BY <2>1, ChainStutter
<1>5. CASE claim[e] = "open" /\ c = "dispatched"
  <2>1. StageOf(e) = "waiting" /\ StageOf(e)' = "joined" BY <1>1, <1>3, <1>5, StageCase, StageNext
  <2>2. Chain!Join(e) BY <1>2, <2>1, ChainMove DEF Chain!Join
  <2> QED BY <1>1, <2>2 DEF Chain!Next
<1>6. CASE claim[e] = "open" /\ c = "ended"
  <2>1. StageOf(e) = "waiting" /\ StageOf(e)' = "ended" BY <1>1, <1>3, <1>6, StageCase, StageNext
  <2>2. Chain!End(e) BY <1>2, <2>1, ChainMove DEF Chain!End
  <2> QED BY <1>1, <2>2 DEF Chain!Next
<1>7. CASE claim[e] = "dispatched" /\ c = "open"
  <2>1. StageOf(e) = "joined" /\ StageOf(e)' = "waiting" BY <1>1, <1>3, <1>7, StageCase, StageNext
  <2>2. Chain!Hold(e) BY <1>2, <2>1, ChainMove DEF Chain!Hold
  <2> QED BY <1>1, <2>2 DEF Chain!Next
<1>8. CASE claim[e] = "dispatched" /\ c = "ended"
  <2>1. StageOf(e) = "joined" /\ StageOf(e)' = "ended" BY <1>1, <1>3, <1>8, StageCase, StageNext
  <2>2. Chain!End(e) BY <1>2, <2>1, ChainMove DEF Chain!End
  <2> QED BY <1>1, <2>2 DEF Chain!Next
<1> QED BY <1>4, <1>5, <1>6, <1>7, <1>8

(* An evaluation journals an event: its chain begins. *)
LEMMA ChainArrives ==
    ASSUME TypeOK, OfJournal, NEW i \in Instances, Fire(i) \/ Resolve(i)
    PROVE  [Chain!Next]_(Chain!chainVars)
<1>1. /\ tail' = tail + 1 /\ tail \in 0..MaxEvents /\ tail < MaxEvents
      /\ tail' \in 0..MaxEvents /\ UNCHANGED <<claim, deliveries>>
  BY DEF Fire, Resolve, Journal, TypeOK, outcomeVars
<1>2. PICK e \in Events : e = tail + 1 BY <1>1 DEF Events
<1>3. e \in Chain!Events /\ claim[e] = "open" /\ e > tail /\ ~(e > tail')
  BY <1>1, <1>2 DEF Events, Chain!Events, Journaled, OfJournal
<1>4. StageOf(e) = "unborn" /\ StageOf(e)' = "waiting"
  BY <1>1, <1>3, StageCase, StageNext
<1>5. \A x \in Events \ {e} : StageOf(x)' = StageOf(x) BY <1>1, <1>2 DEF StageOf, Events
<1>6. Chain!Arrive(e) BY <1>1, <1>4, <1>5, ChainMove DEF Chain!Arrive
<1> QED BY <1>3, <1>6 DEF Chain!Next

(* A mutation takes every waiting event at once. *)
LEMMA ChainCancels ==
    ASSUME TypeOK, NEW reason, NEW S, CloseLifecycle(reason, S)
    PROVE  [Chain!Next]_(Chain!chainVars)
<1>1. /\ claim' = [e \in Events |-> IF e \in Cancelable THEN "cancelled" ELSE claim[e]]
      /\ UNCHANGED <<tail, deliveries>>
  BY DEF CloseLifecycle, journalVars, outcomeVars
<1>2. ASSUME NEW e \in Events
      PROVE  StageOf(e)' = IF StageOf(e) = "waiting" THEN "cancelled" ELSE StageOf(e)
  BY <1>1 DEF StageOf, Cancelable, Journaled, Events, TypeOK, Claims
<1>3. Stages' = [e \in Chain!Events |-> IF Stages[e] = "waiting" THEN "cancelled" ELSE Stages[e]]
  BY <1>2 DEF Stages, Events, Chain!Events
<1>4. Chain!Cancel BY <1>1, <1>3 DEF Chain!Cancel, Stages, Delivered
<1> QED BY <1>4 DEF Chain!Next

(* A committing flush announces what it kept, all of it dispatched. *)
LEMMA ChainAnnounces ==
    ASSUME TypeOK, Sole, OfJournal, NEW g \in Groups, NEW found \in SUBSET Channels,
           FlushCommit(g, found)
    PROVE  [Chain!Next]_(Chain!chainVars)
<1> DEFINE f == flush[g]
           S == IF found = {} THEN {} ELSE Notified(f)
<1>1. /\ UNCHANGED <<tail, claim>> /\ f.pc = "defer"
      /\ deliveries' = deliveries \cup
             {[group |-> g, channel |-> c, at |-> f.at, events |-> Notified(f)] :
                c \in IF Notified(f) = {} THEN {} ELSE found}
  BY DEF FlushCommit, FlushFrame, journalVars, Weighed
<1>2. ASSUME NEW e \in S PROVE e \in Events /\ StageOf(e) = "joined"
  <2>1. e \in f.claimed /\ e \in Events BY NotifiedKept, Held DEF Sole, Apart
  <2>2. claim[e] = "dispatched" BY <1>1, <2>1 DEF Sole, SoleHolder, Holds, Forgetting
  <2>3. e \in Journaled BY <2>1, <2>2 DEF OfJournal
  <2>4. ~(e > tail) BY <2>3 DEF Journaled, TypeOK
  <2> QED BY <2>1, <2>2, <2>4, StageCase
<1>3. Delivered' = Delivered \cup S
  <2> DEFINE N == Notified(f)
             row(c) == [group |-> g, channel |-> c, at |-> f.at, events |-> N]
             C == IF N = {} THEN {} ELSE found
  <2>1. deliveries' = deliveries \cup {row(c) : c \in C} BY <1>1
  <2>2. \A c : row(c).events = N OBVIOUS
  <2> HIDE DEF N, row
  <2>3. \A e : e \in Delivered' <=> e \in Delivered \/ \E c \in C : e \in N
    BY <2>1, <2>2 DEF Delivered
  <2>4. \A e : (\E c \in C : e \in N) <=> e \in S BY DEF N
  <2> HIDE DEF C, S
  <2> QED BY <2>3, <2>4
<1>4. Stages' = Stages BY <1>1 DEF Stages, StageOf
<1> HIDE DEF S
<1>5. S \in SUBSET Chain!Events /\ \A e \in S : Stages[e] = "joined"
  BY <1>2 DEF Stages, Events, Chain!Events
<1>6. Chain!Announce(S) BY <1>3, <1>4, <1>5 DEF Chain!Announce, Stages
<1> QED BY <1>5, <1>6 DEF Chain!Next

LEMMA ChainWorker ==
    ASSUME TypeOK, OfJournal, NEW w \in Workers, WorkerStep(w) \/ ProcessThrow(w)
    PROVE  [Chain!Next]_(Chain!chainVars)
<1>0. UNCHANGED <<tail, deliveries>>
  BY DEF WorkerStep, ProcessDone, ProcessMuted, ProcessStale, ProcessTake, ProcessSilenced,
         ProcessAudible, ProcessDefer, ProcessUndeliverable, ProcessHistory, ProcessDispatch,
         ProcessThrow, WorkerFrame, journalVars
<1>1. CASE claim' = claim BY <1>0, <1>1, ChainStutter
<1>2. ASSUME NEW j \in processJobs, ProcessMuted(w, j) \/ ProcessStale(w, j)
      PROVE  [Chain!Next]_(Chain!chainVars)
  <2>1. j[1] \in Events /\ j[1] \in Journaled BY DEF TypeOK, OfJournal
  <2>2. claim' = claim \/ (claim[j[1]] = "open" /\ claim' = [claim EXCEPT ![j[1]] = "ended"])
    BY <1>2 DEF ProcessMuted, ProcessStale, EndChain, Owns
  <2> QED BY <1>0, <1>1, <2>1, <2>2, ChainStamp
<1>3. CASE ProcessDefer(w) \/ ProcessUndeliverable(w) \/ \E g \in Groups : ProcessDispatch(w, g)
  <2> DEFINE e == worker[w].event
  <2>1. e \in Events /\ e \in Journaled
    BY <1>3, Busy DEF ProcessDefer, ProcessUndeliverable, ProcessDispatch, OfJournal
  <2>2. \/ claim' = claim
        \/ /\ claim[e] = "open"
           /\ \E c \in {"open", "dispatched", "ended"} : claim' = [claim EXCEPT ![e] = c]
    BY <1>3 DEF ProcessDefer, ProcessUndeliverable, ProcessDispatch, EndChain, Hold, Owns
  <2> QED BY <1>0, <1>1, <2>1, <2>2, ChainStamp
<1>4. CASE ProcessAudible(w) \/ ProcessHistory(w) \/ ProcessThrow(w)
  BY <1>1, <1>4 DEF ProcessAudible, ProcessHistory, ProcessThrow
<1>5. ASSUME NEW s \in Silences, ProcessSilenced(w, s) PROVE [Chain!Next]_(Chain!chainVars)
  BY <1>1, <1>5 DEF ProcessSilenced
<1>6. ASSUME NEW j \in processJobs, ProcessDone(w, j) \/ ProcessTake(w, j)
      PROVE  [Chain!Next]_(Chain!chainVars)
  BY <1>1, <1>6 DEF ProcessDone, ProcessTake
<1> QED BY <1>2, <1>3, <1>4, <1>5, <1>6 DEF WorkerStep

LEMMA ChainFlush ==
    ASSUME TypeOK, Sole, OfJournal, NEW g \in Groups, FlushStep(g) \/ FlushThrow(g)
    PROVE  [Chain!Next]_(Chain!chainVars)
<1>1. CASE UNCHANGED <<tail, claim, deliveries>> BY <1>1, ChainStutter
<1>2. ASSUME NEW d \in flush[g].defer, FlushDefer(g, d) PROVE [Chain!Next]_(Chain!chainVars)
  <2>1. d[1] \in Events /\ claim[d[1]] = "dispatched" /\ Owns(d[1], flush[g].read[d[1]])
    BY <1>2, DeferOwns DEF FlushDefer
  <2>2. d[1] \in Journaled BY <2>1 DEF OfJournal
  <2>3. /\ UNCHANGED <<tail, deliveries>>
        /\ claim' = [claim EXCEPT ![d[1]] = IF flush[g].retry THEN "open" ELSE "ended"]
    BY <1>2, <2>1 DEF FlushDefer, Hold, FlushFrame, journalVars, outcomeVars
  <2> QED BY <2>1, <2>2, <2>3, ChainStamp
<1>3. ASSUME NEW found \in ChannelsFound, FlushCommit(g, found)
      PROVE  [Chain!Next]_(Chain!chainVars)
  BY <1>3, ChainAnnounces DEF ChannelsFound
<1>4. ASSUME NEW j \in flushJobs, FlushEarly(g, j) \/ FlushPark(g, j) \/ FlushClaim(g, j)
      PROVE  [Chain!Next]_(Chain!chainVars)
  BY <1>1, <1>4 DEF FlushEarly, FlushPark, FlushClaim, FlushFrame, journalVars, outcomeVars
<1>5. ASSUME NEW pick \in [Silenced(g) -> Silences], FlushWeigh(g, pick)
      PROVE  [Chain!Next]_(Chain!chainVars)
  BY <1>1, <1>5 DEF FlushWeigh, FlushFrame, journalVars, outcomeVars
<1>6. ASSUME NEW d \in flush[g].defer, FlushCheck(g, d) PROVE [Chain!Next]_(Chain!chainVars)
  BY <1>1, <1>6 DEF FlushCheck, FlushFrame, journalVars, outcomeVars
<1>7. CASE FlushForget(g) \/ FlushHistory(g) \/ FlushThrow(g)
  BY <1>1, <1>7 DEF FlushForget, FlushHistory, FlushThrow, FlushFrame, journalVars
<1>8. ASSUME NEW found \in ChannelsFound, FlushOrphaned(g, found)
      PROVE  [Chain!Next]_(Chain!chainVars)
  BY <1>1, <1>8 DEF FlushOrphaned, FlushFrame, journalVars, outcomeVars
<1> QED BY <1>2, <1>3, <1>4, <1>5, <1>6, <1>7, <1>8 DEF FlushStep

LEMMA ChainNext ==
    ASSUME TypeOK, Sole, OfJournal, [Next]_vars PROVE [Chain!Next]_(Chain!chainVars)
<1>1. CASE UNCHANGED <<tail, claim, deliveries>> BY <1>1, ChainStutter
<1>2. CASE Tick \/ UNCHANGED vars
  BY <1>1, <1>2 DEF Tick, vars, journalVars, outcomeVars
<1>3. ASSUME NEW i \in Instances, Fire(i) \/ Resolve(i) PROVE [Chain!Next]_(Chain!chainVars)
  BY <1>3, ChainArrives
<1>4. CASE PauseRule \/ ChangeLabels \/ DeleteRule
  BY <1>4, ChainCancels DEF PauseRule, ChangeLabels, DeleteRule
<1>5. CASE ResumeRule BY <1>1, <1>5 DEF ResumeRule, journalVars, outcomeVars
<1>6. ASSUME NEW s \in Silences,
             ExpireSilence(s) \/ \E scope \in Scopes, end \in Times : CreateSilence(s, scope, end)
      PROVE  [Chain!Next]_(Chain!chainVars)
  BY <1>1, <1>6 DEF ExpireSilence, CreateSilence, journalVars, outcomeVars
<1>7. ASSUME NEW p \in projections, ProjectLifecycle(p) PROVE [Chain!Next]_(Chain!chainVars)
  BY <1>1, <1>7 DEF ProjectLifecycle, journalVars
<1>8. ASSUME NEW w \in Workers, WorkerStep(w) \/ ProcessThrow(w)
      PROVE  [Chain!Next]_(Chain!chainVars)
  BY <1>8, ChainWorker
<1>9. ASSUME NEW g \in Groups, FlushStep(g) \/ FlushThrow(g) PROVE [Chain!Next]_(Chain!chainVars)
  BY <1>9, ChainFlush
<1> QED BY <1>2, <1>3, <1>4, <1>5, <1>6, <1>7, <1>8, <1>9 DEF Next, Work, People

LEMMA ChainInit == ASSUME Init PROVE Chain!Init
<1>1. \A e \in Events : StageOf(e) = "unborn" BY DEF Init, StageOf, Events
<1>2. Delivered = {} BY DEF Init, Delivered
<1> QED BY <1>1, <1>2 DEF Chain!Init, Events, Chain!Events

(* The pipeline implements the lifecycle of a chain, whatever the rules, the *)
(* silences, the mutations and the crashes, as long as no flush dies between *)
(* deferring an event and deleting its membership.                           *)
THEOREM ChainImplemented == Spec /\ [][~DiesDeferring]_vars => ImplementsChain
<1>1. Init => Sole /\ OfJournal BY InitSole, InitOfJournal
<1>2. TypeOK /\ Sole /\ OfJournal /\ [Next]_vars /\ [~DiesDeferring]_vars => (Sole /\ OfJournal)'
  <2> SUFFICES ASSUME TypeOK, Sole, OfJournal, [Next]_vars, [~DiesDeferring]_vars
               PROVE  (Sole /\ OfJournal)'
    OBVIOUS
  <2>1. OfJournal' BY NextOfJournal
  <2>2. CASE ~DiesDeferring BY <2>1, <2>2, NextSole
  <2>3. CASE UNCHANGED vars BY <2>1, <2>3, SoleFrame DEF vars, groupVars
  <2> QED BY <2>2, <2>3
<1>3. TypeOK /\ Sole /\ OfJournal /\ [Next]_vars => [Chain!Next]_(Chain!chainVars)
  BY ChainNext
<1>4. Init => Chain!Init BY ChainInit
<1> QED BY TypeCorrect, <1>1, <1>2, <1>3, <1>4, PTL DEF Spec, ImplementsChain, Chain!Spec

-----------------------------------------------------------------------------
(* A muted copy.  Its workers stamp every event as they meet it, so nothing  *)
(* ever reaches a group, and all that a mutation projects is cancelled.      *)
Quiet ==
    muted => /\ deliveries = {} /\ groups = {}
             /\ \A g \in Groups : flush[g].pc = "idle" /\ \A e \in Events : member[g][e] = "out"
             /\ \A w \in Workers : worker[w].pc = "idle"
             /\ \A t \in terminals \cup projections : claim[t[1]] = "cancelled"

LEMMA QuietFrame ==
    ASSUME Quiet, UNCHANGED <<muted, claim, groups, member, worker, flush, deliveries>>,
           terminals' \cup projections' \subseteq terminals \cup projections
    PROVE  Quiet'
  BY DEF Quiet

LEMMA QuietClose ==
    ASSUME TypeOK, Quiet, PauseRule \/ ChangeLabels \/ DeleteRule PROVE Quiet'
<1>1. PICK reason \in Reasons, S \in {{}, Orphaned} : CloseLifecycle(reason, S)
  BY DEF PauseRule, ChangeLabels, DeleteRule, Reasons
<1>2. CASE ~muted BY <1>1, <1>2 DEF Quiet, CloseLifecycle
<1>3. CASE muted
  <2>1. S = {} BY <1>1, <1>3 DEF Quiet, Orphaned
  <2>2. ASSUME NEW t \in terminals' \cup projections' PROVE claim'[t[1]] = "cancelled"
    <3>1. \/ t \in terminals \cup projections
          \/ t[1] \in Cancelable
      BY <1>1, <2>1, <2>2 DEF CloseLifecycle, outcomeVars
    <3>2. t[1] \in Events BY <3>1 DEF TypeOK, Cancelable, Journaled, Events
    <3> QED BY <1>1, <1>3, <3>1, <3>2 DEF CloseLifecycle, Quiet
  <2>3. /\ UNCHANGED <<muted, worker, flush, deliveries>> /\ groups' = {}
        /\ \A g \in Groups : \A e \in Events : member'[g][e] = "out"
    BY <1>1, <1>3 DEF CloseLifecycle, Quiet, PauseRule, ChangeLabels, DeleteRule, groupVars,
                      outcomeVars
  <2> QED BY <1>3, <2>2, <2>3 DEF Quiet
<1> QED BY <1>2, <1>3

LEMMA QuietWorker ==
    ASSUME TypeOK, Quiet, NEW w \in Workers, WorkerStep(w) \/ ProcessThrow(w) PROVE Quiet'
<1>1. muted' = muted
  BY DEF WorkerStep, ProcessDone, ProcessMuted, ProcessStale, ProcessTake, ProcessSilenced,
         ProcessAudible, ProcessDefer, ProcessUndeliverable, ProcessHistory, ProcessDispatch,
         ProcessThrow, WorkerFrame, ruleVars
<1>2. CASE ~muted BY <1>1, <1>2 DEF Quiet
<1>3. CASE muted
  <2>1. worker[w].pc = "idle" BY <1>3 DEF Quiet
  <2>2. PICK j \in processJobs : ProcessDone(w, j) \/ ProcessMuted(w, j)
    BY <1>3, <2>1 DEF WorkerStep, ProcessStale, ProcessTake, ProcessSilenced, ProcessAudible,
         ProcessDefer, ProcessUndeliverable, ProcessHistory, ProcessDispatch, ProcessThrow,
         DeliverableEvent
  <2>3. CASE ProcessDone(w, j)
    BY <2>3, QuietFrame DEF ProcessDone, WorkerFrame, groupVars, ruleVars
  <2>4. CASE ProcessMuted(w, j)
    <3>1. j[1] \in Events BY DEF TypeOK
    <3>2. \A e \in Events : claim[e] = "cancelled" => claim'[e] = "cancelled"
      BY <2>4, <3>1 DEF ProcessMuted, TypeOK
    <3>3. \A t \in terminals \cup projections : t[1] \in Events BY DEF TypeOK
    <3>4. UNCHANGED <<muted, groups, member, worker, flush, deliveries, terminals, projections>>
      BY <2>4 DEF ProcessMuted, WorkerFrame, groupVars, ruleVars
    <3> QED BY <1>3, <3>2, <3>3, <3>4 DEF Quiet
  <2> QED BY <2>2, <2>3, <2>4
<1> QED BY <1>2, <1>3

LEMMA QuietFlush ==
    ASSUME TypeOK, Quiet, NEW g \in Groups, FlushStep(g) \/ FlushThrow(g) PROVE Quiet'
<1>1. muted' = muted
  BY DEF FlushStep, FlushEarly, FlushPark, FlushClaim, FlushWeigh, FlushCheck, FlushDefer,
         FlushForget, FlushCommit, FlushOrphaned, FlushHistory, FlushThrow, FlushFrame, ruleVars
<1>2. CASE ~muted BY <1>1, <1>2 DEF Quiet
<1>3. CASE muted
  <2>1. flush[g].pc = "idle" /\ groups = {} BY <1>3 DEF Quiet
  <2>2. PICK j \in flushJobs : FlushEarly(g, j)
    BY <2>1 DEF FlushStep, FlushPark, FlushClaim, FlushWeigh, FlushCheck, FlushDefer, FlushForget,
                FlushCommit, FlushOrphaned, FlushHistory, FlushThrow, Weighed
  <2> QED BY <2>2, QuietFrame DEF FlushEarly, FlushFrame, groupVars, ruleVars, outcomeVars
<1> QED BY <1>2, <1>3

LEMMA QuietNext == ASSUME TypeOK, Quiet, [Next]_vars PROVE Quiet'
<1>1. CASE Tick \/ UNCHANGED vars
  BY <1>1, QuietFrame DEF Tick, vars, groupVars, ruleVars, jobVars, outcomeVars
<1>2. ASSUME NEW i \in Instances, Fire(i) \/ Resolve(i) PROVE Quiet'
  BY <1>2, QuietFrame DEF Fire, Resolve, Journal, groupVars, outcomeVars
<1>3. CASE PauseRule \/ ChangeLabels \/ DeleteRule BY <1>3, QuietClose
<1>4. CASE ResumeRule
  BY <1>4, QuietFrame DEF ResumeRule, groupVars, jobVars, outcomeVars
<1>5. ASSUME NEW s \in Silences,
             ExpireSilence(s) \/ \E scope \in Scopes, end \in Times : CreateSilence(s, scope, end)
      PROVE  Quiet'
  BY <1>5, QuietFrame DEF ExpireSilence, CreateSilence, groupVars, ruleVars, jobVars, outcomeVars
<1>6. ASSUME NEW p \in projections, ProjectLifecycle(p) PROVE Quiet'
  BY <1>6, QuietFrame DEF ProjectLifecycle, groupVars, ruleVars
<1>7. ASSUME NEW w \in Workers, WorkerStep(w) \/ ProcessThrow(w) PROVE Quiet'
  BY <1>7, QuietWorker
<1>8. ASSUME NEW g \in Groups, FlushStep(g) \/ FlushThrow(g) PROVE Quiet'
  BY <1>8, QuietFlush
<1> QED BY <1>1, <1>2, <1>3, <1>4, <1>5, <1>6, <1>7, <1>8 DEF Next, Work, People

(* A preview copy never notifies, whatever people and evaluations do to it:  *)
(* it joins no group, delivers nothing and records no outcome of its own.    *)
THEOREM MutedNeverNotifies == Spec => []MutedStaysQuiet
<1>1. Init => Quiet BY DEF Init, Quiet, IdleWorker, Handling, IdleFlush
<1>2. TypeOK /\ Quiet /\ [Next]_vars => Quiet' BY QuietNext
<1>3. Quiet => MutedStaysQuiet BY DEF Quiet, MutedStaysQuiet
<1> QED BY TypeCorrect, <1>1, <1>2, <1>3, PTL DEF Spec

-----------------------------------------------------------------------------
(* The outcomes of a rule nobody silences.  What a handler or a projection   *)
(* has recorded, or has in its hands to record.                              *)
WorkerDebt(w) ==
    IF worker[w].pc = "history" THEN {<<worker[w].event, worker[w].reason>>} ELSE {}
FlushDebt(g) == IF flush[g].pc = "history" THEN flush[g].drops ELSE {}
Recorded(p) == \/ p \in terminals \cup projections
               \/ \E w \in Workers : p \in WorkerDebt(w)
               \/ \E g \in Groups : p \in FlushDebt(g)
Accounted(e) == \/ e \in Delivered \cup superseded \cup lost
                \/ \E p : Recorded(p) /\ p[1] = e

(* No flush holds or forgets. *)
Unsilenced == Silences = {} /\ \A g \in Groups : flush[g].pc \notin {"hold", "forget"}

LEMMA UnsilencedHands ==
    ASSUME TypeOK, Unsilenced
    PROVE  /\ \A g \in Groups : /\ flush[g].defer = {} /\ Silenced(g) = {}
                                /\ \A e \in Events : ~Forgetting(g, e)
           /\ \A w \in Workers : worker[w].pc # "defer"
           /\ ~DiesDeferring
<1>1. ASSUME NEW g \in Groups
      PROVE  flush[g].defer = {} /\ Silenced(g) = {} /\ \A e \in Events : ~Forgetting(g, e)
  <2>1. flush[g].defer \subseteq Events \X Silences \X Times BY DEF TypeOK, FlushType
  <2>2. flush[g].defer = {} BY <2>1 DEF Unsilenced
  <2>3. Silenced(g) = {} BY DEF Silenced, SilencesOn, Unsilenced
  <2> QED BY <2>2, <2>3 DEF Unsilenced, Forgetting
<1>2. ASSUME NEW w \in Workers PROVE worker[w].pc # "defer"
  <2>1. worker[w] \in WorkerType BY DEF TypeOK
  <2> QED BY <2>1 DEF Unsilenced, WorkerType
<1> QED BY <1>1, <1>2 DEF DiesDeferring, Unsilenced

LEMMA FlushFields ==
    ASSUME NEW pc, NEW f, NEW claimed, NEW kept, NEW defer, NEW target, NEW retry, NEW drops
    PROVE  LET n == Flushing(pc, f, claimed, kept, defer, target, retry, drops)
           IN  /\ n.pc = pc /\ n.claimed = claimed /\ n.kept = kept /\ n.defer = defer
               /\ n.flushed = f.flushed /\ n.drops = drops
  BY DEF Flushing

(* How the step of a flush changes the flush, when nothing is silenced. *)
ClaimsAs(g, n) ==
    /\ n.pc = "weigh" /\ g \in groups
    /\ n.claimed \subseteq Members(g) /\ n.flushed = n.claimed \ Unflushed(g)
WeighsAs(g, n) ==
    LET f == flush[g]
    IN  /\ f.pc = "weigh" /\ n.pc = "defer" /\ n.claimed = f.claimed /\ n.flushed = f.flushed
        /\ n.kept \subseteq f.claimed
        /\ n.drops = {<<e, DropReason(f.rule)>> : e \in f.claimed \ (n.kept \cup f.flushed)}

LEMMA ClaimShape ==
    ASSUME TypeOK, NEW g \in Groups, NEW j, FlushClaim(g, j)
    PROVE  ClaimsAs(g, flush'[g]) /\ flush[g].pc = "idle"
<1> DEFINE flushed == Members(g) \ Unflushed(g)
           rows == ClaimOf(Members(g), flushed)
           f == ClaimedBy(j[2], nextFlush[g], rows, rows \cap flushed,
                          {e \in rows : heldBy[e] # None})
<1>1. rows \subseteq Members(g) BY DEF ClaimOf
<1>2. flush' = [flush EXCEPT ![g] = f] /\ flush[g].pc = "idle" /\ g \in groups
  BY DEF FlushClaim, DueFlush
<1>3. flush'[g] = f BY <1>2 DEF TypeOK
<1>4. f.pc = "weigh" /\ f.claimed = rows /\ f.flushed = rows \cap flushed BY DEF ClaimedBy
<1>5. rows \cap flushed = rows \ Unflushed(g) BY <1>1
<1> QED BY <1>1, <1>2, <1>3, <1>4, <1>5 DEF ClaimsAs

LEMMA WeighShape ==
    ASSUME TypeOK, Unsilenced, NEW g \in Groups, NEW pick \in [Silenced(g) -> Silences],
           FlushWeigh(g, pick)
    PROVE  WeighsAs(g, flush'[g])
<1> DEFINE f == flush[g]
           kept == Candidates(g) \ Silenced(g)
           defer == {<<e, pick[e], silenceEnd[pick[e]]>> : e \in Silenced(g)}
           drops == {<<e, DropReason(f.rule)>> : e \in f.claimed \ (Candidates(g) \cup f.flushed)}
           n == Flushing("defer", f, f.claimed, kept, defer, 0, FALSE, drops)
<1>1. flush' = [flush EXCEPT ![g] = n] /\ f.pc = "weigh" BY DEF FlushWeigh
<1>2. flush'[g] = n BY <1>1 DEF TypeOK
<1>3. kept = Candidates(g) /\ Candidates(g) \subseteq f.claimed
  BY UnsilencedHands DEF Candidates
<1>4. /\ n.pc = "defer" /\ n.claimed = f.claimed /\ n.flushed = f.flushed /\ n.kept = kept
      /\ n.drops = drops
  BY DEF Flushing
<1> QED BY <1>1, <1>2, <1>3, <1>4 DEF WeighsAs

LEMMA FlushShape ==
    ASSUME TypeOK, Unsilenced, NEW g \in Groups, FlushStep(g) \/ FlushThrow(g)
    PROVE  /\ UNCHANGED <<claim, worker, projections, tail, kind, subject, groups, muted>>
           /\ \A h \in Groups \ {g} : flush'[h] = flush[h] /\ member'[h] = member[h]
           /\ \/ /\ UNCHANGED <<member, terminals, deliveries, superseded, lost>>
                 /\ \/ UNCHANGED flush
                    \/ flush[g].pc = "idle" /\ ClaimsAs(g, flush'[g])
                    \/ WeighsAs(g, flush'[g])
              \/ \E found \in SUBSET Channels : FlushCommit(g, found) \/ FlushOrphaned(g, found)
              \/ FlushHistory(g)
              \/ FlushThrow(g)
<1> DEFINE Goal ==
           /\ UNCHANGED <<claim, worker, projections, tail, kind, subject, groups, muted>>
           /\ \A h \in Groups \ {g} : flush'[h] = flush[h] /\ member'[h] = member[h]
           /\ \/ /\ UNCHANGED <<member, terminals, deliveries, superseded, lost>>
                 /\ \/ UNCHANGED flush
                    \/ flush[g].pc = "idle" /\ ClaimsAs(g, flush'[g])
                    \/ WeighsAs(g, flush'[g])
              \/ \E found \in SUBSET Channels : FlushCommit(g, found) \/ FlushOrphaned(g, found)
              \/ FlushHistory(g)
              \/ FlushThrow(g)
<1>0. flush \in [Groups -> FlushType] /\ member \in [Groups -> [Events -> Memberships]]
  BY DEF TypeOK
<1>1. ASSUME NEW j \in flushJobs, FlushEarly(g, j) \/ FlushPark(g, j) PROVE Goal
  BY <1>1 DEF FlushEarly, FlushPark, FlushFrame, groupVars, ruleVars, journalVars, outcomeVars
<1>2. ASSUME NEW j \in flushJobs, FlushClaim(g, j) PROVE Goal
  <2>1. flush[g].pc = "idle" /\ ClaimsAs(g, flush'[g]) BY <1>2, ClaimShape
  <2>2. \A h \in Groups \ {g} : flush'[h] = flush[h] BY <1>0, <1>2 DEF FlushClaim
  <2>3. UNCHANGED <<claim, worker, projections, tail, kind, subject, muted, groupVars, outcomeVars>>
    BY <1>2 DEF FlushClaim, FlushFrame, ruleVars, journalVars
  <2> QED BY <2>1, <2>2, <2>3 DEF groupVars, outcomeVars
<1>3. ASSUME NEW pick \in [Silenced(g) -> Silences], FlushWeigh(g, pick) PROVE Goal
  <2>1. WeighsAs(g, flush'[g]) BY <1>3, WeighShape
  <2>2. \A h \in Groups \ {g} : flush'[h] = flush[h] BY <1>0, <1>3 DEF FlushWeigh
  <2>3. UNCHANGED <<claim, worker, projections, tail, kind, subject, muted, groupVars, outcomeVars>>
    BY <1>3 DEF FlushWeigh, FlushFrame, ruleVars, journalVars
  <2> QED BY <2>1, <2>2, <2>3 DEF groupVars, outcomeVars
<1>4. ASSUME NEW d \in flush[g].defer, FlushCheck(g, d) \/ FlushDefer(g, d) PROVE Goal
  BY UnsilencedHands
<1>5. CASE FlushForget(g) BY <1>5 DEF FlushForget, Unsilenced
<1>6. ASSUME NEW found \in SUBSET Channels, FlushCommit(g, found) PROVE Goal
  BY <1>0, <1>6 DEF FlushCommit, EndFlush, FlushFrame, ruleVars, journalVars
<1>7. ASSUME NEW found \in SUBSET Channels, FlushOrphaned(g, found) PROVE Goal
  BY <1>0, <1>7 DEF FlushOrphaned, EndFlush, FlushFrame, ruleVars, journalVars, groupVars
<1>8. CASE FlushHistory(g) \/ FlushThrow(g)
  BY <1>0, <1>8 DEF FlushHistory, FlushThrow, FlushFrame, ruleVars, journalVars, groupVars
<1> QED BY <1>1, <1>2, <1>3, <1>4, <1>5, <1>6, <1>7, <1>8 DEF FlushStep, ChannelsFound

(* How the step of a worker changes the books. *)
Carries(w) == worker[w].pc = "history"
EndsAs(w, e) ==
    /\ claim[e] = "open" /\ claim' = [claim EXCEPT ![e] = "ended"]
    /\ ~Carries(w) /\ Carries(w)' /\ worker'[w].event = e
    /\ UNCHANGED <<terminals, lost, member, groups>>
JoinsAs(w, e, g) ==
    /\ claim[e] = "open" /\ claim' = [claim EXCEPT ![e] = "dispatched"]
    /\ member' = IF member[g][e] = "out" THEN [member EXCEPT ![g][e] = "unflushed"] ELSE member
    /\ ~Carries(w) /\ ~Carries(w)' /\ groups' = groups \cup {g}
    /\ UNCHANGED <<terminals, lost>>
HandsOver(w) ==
    /\ Carries(w) /\ ~Carries(w)' /\ UNCHANGED <<claim, member, groups>>
    /\ \/ terminals' = terminals \cup {<<worker[w].event, worker[w].reason>>} /\ UNCHANGED lost
       \/ lost' = lost \cup {worker[w].event} /\ UNCHANGED terminals
Bides(w) ==
    /\ ~Carries(w) /\ ~Carries(w)' /\ UNCHANGED <<terminals, lost, member, groups>>
    /\ \/ UNCHANGED claim
       \/ muted /\ \E e \in Events : claim[e] = "open" /\ claim' = [claim EXCEPT ![e] = "ended"]

LEMMA EndChainShape ==
    ASSUME TypeOK, NEW w \in Workers, ~Carries(w), NEW e \in Events, NEW at, NEW reason,
           EndChain(w, e, at, reason), UNCHANGED <<terminals, lost, member, groups>>
    PROVE  /\ \A v \in Workers \ {w} : worker'[v] = worker[v]
           /\ EndsAs(w, e) \/ Bides(w)
<1>1. CASE Owns(e, "open")
  BY <1>1 DEF EndChain, Owns, EndsAs, Carries, Owing, Handling, TypeOK
<1>2. CASE ~Owns(e, "open")
  BY <1>2 DEF EndChain, Bides, Carries, Finish, IdleWorker, Handling, TypeOK
<1> QED BY <1>1, <1>2

LEMMA WorkerShape ==
    ASSUME TypeOK, Unsilenced, NEW w \in Workers, WorkerStep(w) \/ ProcessThrow(w)
    PROVE  /\ UNCHANGED <<flush, projections, deliveries, superseded, tail, kind, subject, muted>>
           /\ \A v \in Workers \ {w} : worker'[v] = worker[v]
           /\ \/ Bides(w) \/ HandsOver(w)
              \/ \E e \in Events : EndsAs(w, e)
              \/ \E e \in Events, g \in Groups : JoinsAs(w, e, g)
<1> DEFINE Goal == /\ \A v \in Workers \ {w} : worker'[v] = worker[v]
                   /\ \/ Bides(w) \/ HandsOver(w)
                      \/ \E e \in Events : EndsAs(w, e)
                      \/ \E e \in Events, g \in Groups : JoinsAs(w, e, g)
<1>0. UNCHANGED <<flush, projections, deliveries, superseded, tail, kind, subject, muted>>
  BY DEF WorkerStep, ProcessDone, ProcessMuted, ProcessStale, ProcessTake, ProcessSilenced,
         ProcessAudible, ProcessDefer, ProcessUndeliverable, ProcessHistory, ProcessDispatch,
         ProcessThrow, WorkerFrame, journalVars, ruleVars
<1>1. IdleWorker.pc = "idle" /\ worker \in [Workers -> WorkerType]
  BY DEF IdleWorker, Handling, TypeOK
<1>2. ASSUME NEW j \in processJobs, ProcessDone(w, j) PROVE Goal
  BY <1>2 DEF ProcessDone, Due, Bides, Carries, groupVars
<1>3. ASSUME NEW j \in processJobs, ProcessMuted(w, j) PROVE Goal
  <2>1. j[1] \in Events BY DEF TypeOK
  <2> QED BY <1>3, <2>1 DEF ProcessMuted, Due, Bides, Carries, groupVars
<1>4. ASSUME NEW j \in processJobs, ProcessStale(w, j) PROVE Goal
  <2>1. j[1] \in Events BY DEF TypeOK
  <2> QED BY <1>4, <2>1, EndChainShape
    DEF ProcessStale, DeliverableEvent, Due, Carries, groupVars
<1>5. ASSUME NEW j \in processJobs, ProcessTake(w, j) PROVE Goal
  BY <1>1, <1>5 DEF ProcessTake, DeliverableEvent, Due, Bides, Carries, groupVars, Weighing,
                    Handling
<1>6. ASSUME NEW s \in Silences PROVE Goal BY DEF Unsilenced
<1>7. ASSUME ProcessAudible(w) PROVE Goal
  BY <1>1, <1>7 DEF ProcessAudible, Goto, Bides, Carries, groupVars, WorkerType
<1>8. ASSUME ProcessDefer(w) PROVE Goal BY <1>8, UnsilencedHands DEF ProcessDefer
<1>9. ASSUME ProcessUndeliverable(w) PROVE Goal
  <2>1. worker[w].event \in Events BY <1>9, Busy DEF ProcessUndeliverable
  <2> QED BY <1>9, <2>1, EndChainShape DEF ProcessUndeliverable, Carries, groupVars
<1>10. ASSUME ProcessHistory(w) PROVE Goal
  BY <1>1, <1>10 DEF ProcessHistory, Finish, HandsOver, Carries, groupVars
<1>11. ASSUME ProcessThrow(w) PROVE Goal
  <2>1. CASE Carries(w)
    BY <1>1, <1>11, <2>1 DEF ProcessThrow, Finish, HandsOver, Carries, groupVars
  <2>2. CASE ~Carries(w)
    BY <1>1, <1>11, <2>2 DEF ProcessThrow, Finish, Bides, Carries, groupVars
  <2> QED BY <2>1, <2>2
<1>12. ASSUME NEW g \in Groups, ProcessDispatch(w, g) PROVE Goal
  <2>1. worker[w].event \in Events BY <1>12, Busy DEF ProcessDispatch
  <2>2. CASE Owns(worker[w].event, "open")
    BY <1>1, <1>12, <2>1, <2>2 DEF ProcessDispatch, Finish, JoinsAs, Carries, Owns
  <2>3. CASE ~Owns(worker[w].event, "open")
    BY <1>1, <1>12, <2>3 DEF ProcessDispatch, Finish, Bides, Carries, groupVars
  <2> QED BY <2>2, <2>3
<1> QED BY <1>0, <1>2, <1>3, <1>4, <1>5, <1>6, <1>7, <1>8, <1>9, <1>10, <1>11, <1>12 DEF WorkerStep

(* The books only grow: what is recorded reaches a terminal or is lost with  *)
(* the handler that carried it.                                              *)
LEMMA AccountedGrows ==
    ASSUME deliveries \subseteq deliveries', superseded \subseteq superseded', lost \subseteq lost',
           \A p : Recorded(p) => Recorded(p)' \/ p[1] \in lost'
    PROVE  \A e : Accounted(e) => Accounted(e)'
<1>1. Delivered \subseteq Delivered' BY DEF Delivered
<1> QED BY <1>1 DEF Accounted

(* A step that records what it decides and loses nothing. *)
LEMMA BooksFrame ==
    ASSUME UNCHANGED <<worker, flush, deliveries, superseded, lost>>,
           terminals \cup projections \subseteq terminals' \cup projections'
    PROVE  /\ \A e : Accounted(e) => Accounted(e)'
           /\ \A p : Recorded(p)' => Recorded(p) \/ p \in terminals' \cup projections'
<1>1. /\ \A w \in Workers : WorkerDebt(w)' = WorkerDebt(w)
      /\ \A g \in Groups : FlushDebt(g)' = FlushDebt(g)
  BY DEF WorkerDebt, FlushDebt
<1>2. ASSUME NEW p, Recorded(p) PROVE Recorded(p)' BY <1>1, <1>2 DEF Recorded
<1>3. ASSUME NEW p, Recorded(p)' PROVE Recorded(p) \/ p \in terminals' \cup projections'
  BY <1>1, <1>3 DEF Recorded
<1> QED BY <1>2, <1>3, AccountedGrows

LEMMA WorkerBooks ==
    ASSUME TypeOK, NEW w \in Workers,
           UNCHANGED <<flush, projections, deliveries, superseded>>,
           \A v \in Workers \ {w} : worker'[v] = worker[v],
           \/ Bides(w) \/ HandsOver(w)
           \/ \E e \in Events : EndsAs(w, e)
           \/ \E e \in Events, g \in Groups : JoinsAs(w, e, g)
    PROVE  /\ \A e : Accounted(e) => Accounted(e)'
           /\ \A p : Recorded(p)' => Recorded(p) \/ p \in WorkerDebt(w)'
           /\ \A p \in WorkerDebt(w)' : Recorded(p)'
<1>1. /\ \A v \in Workers \ {w} : WorkerDebt(v)' = WorkerDebt(v)
      /\ \A g \in Groups : FlushDebt(g)' = FlushDebt(g)
  BY DEF WorkerDebt, FlushDebt
<1>2. /\ terminals \subseteq terminals' /\ lost \subseteq lost'
      /\ terminals' \subseteq terminals \cup WorkerDebt(w)
      /\ \A p \in WorkerDebt(w) : p \in terminals' \/ p[1] \in lost'
  BY DEF Bides, HandsOver, EndsAs, JoinsAs, WorkerDebt, Carries
<1>3. ASSUME NEW p, Recorded(p) PROVE Recorded(p)' \/ p[1] \in lost'
  BY <1>1, <1>2, <1>3 DEF Recorded
<1>4. ASSUME NEW p, Recorded(p)' PROVE Recorded(p) \/ p \in WorkerDebt(w)'
  BY <1>1, <1>2, <1>4 DEF Recorded
<1>5. \A p \in WorkerDebt(w)' : Recorded(p)' BY DEF Recorded
<1> QED BY <1>2, <1>3, <1>4, <1>5, AccountedGrows

LEMMA FlushBooks ==
    ASSUME TypeOK, NEW g \in Groups,
           UNCHANGED <<worker, projections>>,
           \A h \in Groups \ {g} : flush'[h] = flush[h],
           terminals' = terminals \/ terminals' = terminals \cup FlushDebt(g),
           deliveries \subseteq deliveries', superseded \subseteq superseded', lost \subseteq lost',
           \A p \in FlushDebt(g) : p \in FlushDebt(g)' \/ p \in terminals' \/ p[1] \in lost'
    PROVE  /\ \A e : Accounted(e) => Accounted(e)'
           /\ \A p : Recorded(p)' => Recorded(p) \/ p \in FlushDebt(g)'
           /\ \A p \in FlushDebt(g)' : Recorded(p)'
<1>1. /\ \A w \in Workers : WorkerDebt(w)' = WorkerDebt(w)
      /\ \A h \in Groups \ {g} : FlushDebt(h)' = FlushDebt(h)
  BY DEF WorkerDebt, FlushDebt
<1>2. terminals \subseteq terminals' /\ terminals' \subseteq terminals \cup FlushDebt(g)
  OBVIOUS
<1>3. ASSUME NEW p, Recorded(p) PROVE Recorded(p)' \/ p[1] \in lost'
  BY <1>1, <1>2, <1>3 DEF Recorded
<1>4. ASSUME NEW p, Recorded(p)' PROVE Recorded(p) \/ p \in FlushDebt(g)'
  BY <1>1, <1>2, <1>4 DEF Recorded
<1>5. \A p \in FlushDebt(g)' : Recorded(p)' BY DEF Recorded
<1> QED BY <1>3, <1>4, <1>5, AccountedGrows

(* What a flush owes when its transaction is over. *)
LEMMA EndFlushShape ==
    ASSUME TypeOK, NEW g \in Groups, NEW owed, EndFlush(g, owed), flush[g].pc # "history"
    PROVE  /\ FlushDebt(g) = {} /\ FlushDebt(g)' = owed
           /\ flush'[g].claimed = {} /\ flush'[g].flushed = {}
           /\ flush'[g].pc \in {"idle", "history"}
<1>1. flush'[g] = Ending(g, owed) BY DEF EndFlush, Ending, TypeOK
<1>2. /\ flush'[g].claimed = {} /\ flush'[g].flushed = {} /\ flush'[g].drops = owed
      /\ flush'[g].pc = IF owed = {} THEN "idle" ELSE "history"
  BY <1>1, EndingFields
<1> QED BY <1>2 DEF FlushDebt

LEMMA FlushAccounted ==
    ASSUME TypeOK, Unsilenced, NEW g \in Groups, FlushStep(g) \/ FlushThrow(g)
    PROVE  /\ \A e : Accounted(e) => Accounted(e)'
           /\ \A p : Recorded(p)' => Recorded(p) \/ p \in FlushDebt(g)'
           /\ \A p \in FlushDebt(g)' : Recorded(p)'
           /\ FlushDebt(g)' # {} /\ flush' # flush => \E found \in SUBSET Channels :
                 /\ FlushCommit(g, found) \/ FlushOrphaned(g, found)
                 /\ FlushDebt(g)' = Undelivered(flush[g], found)
<1>1. /\ UNCHANGED <<worker, projections>> /\ flush \in [Groups -> FlushType]
      /\ \A h \in Groups \ {g} : flush'[h] = flush[h]
  BY FlushShape DEF TypeOK
<1>2. CASE /\ UNCHANGED <<terminals, deliveries, superseded, lost>>
           /\ \/ UNCHANGED flush
              \/ flush[g].pc = "idle" /\ ClaimsAs(g, flush'[g])
              \/ WeighsAs(g, flush'[g])
  <2>1. UNCHANGED flush \/ (FlushDebt(g) = {} /\ FlushDebt(g)' = {})
    BY <1>2 DEF ClaimsAs, WeighsAs, FlushDebt
  <2>2. FlushDebt(g)' = FlushDebt(g) BY <2>1 DEF FlushDebt
  <2> QED BY <1>1, <1>2, <2>1, <2>2, FlushBooks
<1>3. ASSUME NEW found \in SUBSET Channels, FlushCommit(g, found) \/ FlushOrphaned(g, found)
      PROVE  /\ FlushDebt(g) = {} /\ FlushDebt(g)' = Undelivered(flush[g], found)
             /\ terminals' = terminals /\ deliveries \subseteq deliveries'
             /\ superseded \subseteq superseded' /\ lost \subseteq lost'
  <2>1. EndFlush(g, Undelivered(flush[g], found)) /\ flush[g].pc # "history"
    BY <1>3 DEF FlushCommit, FlushOrphaned, Weighed
  <2>2. FlushDebt(g) = {} /\ FlushDebt(g)' = Undelivered(flush[g], found) BY <2>1, EndFlushShape
  <2>3. /\ terminals' = terminals /\ deliveries \subseteq deliveries'
        /\ superseded \subseteq superseded' /\ lost \subseteq lost'
    BY <1>3 DEF FlushCommit, FlushOrphaned, outcomeVars
  <2> QED BY <2>2, <2>3
<1>4. CASE \E found \in SUBSET Channels : FlushCommit(g, found) \/ FlushOrphaned(g, found)
  BY <1>1, <1>3, <1>4, FlushBooks
<1>5. CASE FlushHistory(g)
  <2>1. flush'[g] = IdleFlush /\ flush[g].pc = "history" BY <1>1, <1>5 DEF FlushHistory
  <2>2. FlushDebt(g)' = {} /\ FlushDebt(g) = flush[g].drops BY <2>1, IdleFields DEF FlushDebt
  <2>3. /\ terminals' = terminals \cup FlushDebt(g) /\ UNCHANGED <<deliveries, superseded, lost>>
    BY <1>5, <2>2 DEF FlushHistory
  <2> QED BY <1>1, <2>2, <2>3, FlushBooks
<1>6. CASE FlushThrow(g)
  <2>1. flush'[g] = IdleFlush BY <1>1, <1>6 DEF FlushThrow
  <2>2. FlushDebt(g)' = {} BY <2>1, IdleFields DEF FlushDebt
  <2>3. /\ UNCHANGED <<deliveries, superseded, terminals>> /\ lost \subseteq lost'
        /\ \A p \in FlushDebt(g) : p[1] \in lost'
    BY <1>6 DEF FlushThrow, FlushDebt
  <2> QED BY <1>1, <2>2, <2>3, FlushBooks
<1> QED BY <1>2, <1>4, <1>5, <1>6, FlushShape

-----------------------------------------------------------------------------
(* A flush owes a terminal for each member it neither keeps nor had flushed. *)
DropsOf(g) ==
    LET f == flush[g]
    IN  /\ f.flushed \subseteq f.claimed
        /\ f.pc = "defer" =>
             /\ \A e \in f.claimed \ (f.kept \cup f.flushed) : \E d \in f.drops : d[1] = e
             /\ \A d \in f.drops : d[1] \in f.claimed \ (f.kept \cup f.flushed)
             /\ \A a, b \in f.drops : a[1] = b[1] => a = b

(* A member that was flushed is a fire, and its outcome is on the books.     *)
Told ==
    \A g \in Groups : \A e \in Events :
        member[g][e] = "flushed" \/ e \in flush[g].flushed => kind[e] = "fired" /\ Accounted(e)

Ledger ==
    muted \/ \A e \in Journaled : claim[e] # "open" =>
               Accounted(e) \/ \E g \in Groups : member[g][e] = "unflushed"

LEMMA DropsFlush ==
    ASSUME TypeOK, Unsilenced, \A h \in Groups : DropsOf(h), NEW g \in Groups,
           FlushStep(g) \/ FlushThrow(g)
    PROVE  \A h \in Groups : DropsOf(h)'
<1>1. flush \in [Groups -> FlushType] /\ \A h \in Groups \ {g} : flush'[h] = flush[h]
  BY FlushShape DEF TypeOK
<1>2. ASSUME NEW h \in Groups \ {g} PROVE DropsOf(h)'
  <2>1. flush'[h] = flush[h] /\ DropsOf(h) BY <1>1
  <2> QED BY <2>1 DEF DropsOf
<1>3. CASE UNCHANGED flush BY <1>3 DEF DropsOf
<1>4. CASE ClaimsAs(g, flush'[g]) BY <1>2, <1>4 DEF ClaimsAs, DropsOf
<1>5. ASSUME WeighsAs(g, flush'[g]) PROVE DropsOf(g)'
  <2> DEFINE n == flush'[g]
             undelivered == n.claimed \ (n.kept \cup n.flushed)
             r == DropReason(flush[g].rule)
  <2>1. /\ n.drops = {<<e, r>> : e \in undelivered}
        /\ n.flushed \subseteq n.claimed
    BY <1>5 DEF WeighsAs, DropsOf
  <2>3. undelivered = n.claimed \ (n.kept \cup n.flushed) OBVIOUS
  <2> HIDE DEF r, undelivered
  <2>2. /\ \A e \in undelivered : \E d \in n.drops : d[1] = e
        /\ \A d \in n.drops : d[1] \in undelivered
        /\ \A a, b \in n.drops : a[1] = b[1] => a = b
    <3>1. \A d : d \in n.drops <=> \E e \in undelivered : d = <<e, r>> BY <2>1
    <3>2. \A e \in undelivered : <<e, r>> \in n.drops /\ <<e, r>>[1] = e BY <3>1
    <3>3. \A d \in n.drops : d[1] \in undelivered /\ d = <<d[1], r>> BY <3>1
    <3> QED BY <3>2, <3>3
  <2> QED BY <2>1, <2>2, <2>3 DEF DropsOf
<1>6. ASSUME NEW found \in SUBSET Channels, FlushCommit(g, found) \/ FlushOrphaned(g, found)
      PROVE  DropsOf(g)'
  <2>1. EndFlush(g, Undelivered(flush[g], found)) /\ flush[g].pc # "history"
    BY <1>6 DEF FlushCommit, FlushOrphaned, Weighed
  <2> QED BY <2>1, EndFlushShape DEF DropsOf
<1>7. CASE FlushHistory(g) \/ FlushThrow(g)
  <2>1. flush'[g] = IdleFlush BY <1>1, <1>7 DEF FlushHistory, FlushThrow
  <2> QED BY <1>2, <2>1, IdleFields DEF DropsOf
<1> QED BY <1>2, <1>3, <1>4, <1>5, <1>6, <1>7, FlushShape

(* A committing flush settles everything it claimed. *)
LEMMA CommitSettles ==
    ASSUME TypeOK, Unsilenced, NEW g \in Groups, DropsOf(g), Told,
           NEW found \in SUBSET Channels, FlushCommit(g, found),
           NEW e \in flush[g].claimed
    PROVE  Accounted(e)'
<1> DEFINE f == flush[g]
           N == Notified(f)
           D == DroppedUnannounced(f.kept, f.flushed, kind, subject)
           U == Undelivered(f, found)
<1>0. FlushStep(g) BY DEF FlushStep, ChannelsFound
<1>1. /\ EndFlush(g, U) /\ f.pc = "defer" /\ e \in Events
      /\ deliveries' = deliveries \cup
             {[group |-> g, channel |-> c, at |-> f.at, events |-> N] :
                c \in IF N = {} THEN {} ELSE found}
      /\ superseded' = superseded \cup (f.kept \ Latest(f.kept, subject))
  BY Held DEF FlushCommit, Weighed
<1>2. FlushDebt(g)' = U BY <1>1, EndFlushShape
<1>3. \A p \in U : Recorded(p)' BY <1>0, <1>2, FlushAccounted
<1>4. CASE e \in f.flushed
  BY <1>0, <1>1, <1>4, FlushAccounted DEF Told
<1>5. CASE e \notin f.kept \cup f.flushed
  <2>1. PICK d \in f.drops : d[1] = e BY <1>1, <1>5 DEF DropsOf
  <2>2. d \in U BY DEF Undelivered
  <2> QED BY <1>3, <2>1, <2>2 DEF Accounted
<1>6. CASE e \in f.kept /\ e \notin Latest(f.kept, subject) BY <1>1, <1>6 DEF Accounted
<1>7. CASE e \in f.kept \ f.flushed /\ e \in Latest(f.kept, subject)
  <2>1. e \in Announced(f.kept, f.flushed, kind, subject) BY <1>7 DEF Announced
  <2>2. e \in N \/ e \in D BY <2>1 DEF Notified, DroppedUnannounced
  <2>3. CASE e \in D
    <3>1. <<e, "unannounced">> \in U BY <2>3 DEF Undelivered
    <3> QED BY <1>3, <3>1 DEF Accounted
  <2>4. CASE e \in N /\ found = {}
    <3>1. <<e, "no_channels">> \in U BY <2>4 DEF Undelivered
    <3> QED BY <1>3, <3>1 DEF Accounted
  <2>5. CASE e \in N /\ found # {}
    <3>1. PICK c \in found : TRUE BY <2>5
    <3> DEFINE row == [group |-> g, channel |-> c, at |-> f.at, events |-> N]
    <3>2. row \in deliveries' BY <1>1, <2>5, <3>1
    <3>3. e \in row.events BY <2>5
    <3> HIDE DEF row
    <3>4. e \in Delivered' BY <3>2, <3>3 DEF Delivered
    <3> QED BY <3>4 DEF Accounted
  <2> QED BY <2>2, <2>3, <2>4, <2>5
<1> QED BY <1>4, <1>5, <1>6, <1>7

(* What the members become. *)
LEMMA CommitMembers ==
    ASSUME TypeOK, Sole, NEW g \in Groups, NEW found \in SUBSET Channels, FlushCommit(g, found)
    PROVE  /\ \A h \in Groups \ {g} : member'[h] = member[h]
           /\ \A e \in Events : \/ e \notin flush[g].claimed /\ member'[g][e] = member[g][e]
                                \/ e \in flush[g].claimed /\ member'[g][e] = "out"
                                \/ /\ e \in flush[g].claimed /\ member'[g][e] = "flushed"
                                   /\ kind[e] = "fired" /\ e \in flush[g].kept
           /\ \A e \in Events : /\ e \in flush[g].claimed /\ kind[e] # "fired"
                               => member'[g][e] = "out"
<1> DEFINE f == flush[g]
           active == Active(f.kept, kind, subject)
           after == [e \in Events |-> IF e \in active THEN "flushed"
                                      ELSE IF e \in f.claimed THEN "out" ELSE member[g][e]]
<1>1. member' = [member EXCEPT ![g] = after] BY DEF FlushCommit
<1>2. \A e \in active : e \in f.kept /\ e \in f.claimed /\ kind[e] = "fired"
  BY DEF Active, Latest, Sole, Apart
<1> HIDE DEF active
<1>3. /\ \A h \in Groups \ {g} : member'[h] = member[h]
      /\ \A e \in Events : member'[g][e] = IF e \in active THEN "flushed"
                                         ELSE IF e \in f.claimed THEN "out" ELSE member[g][e]
  BY <1>1 DEF TypeOK
<1>4. ASSUME NEW e \in Events
      PROVE  \/ e \notin flush[g].claimed /\ member'[g][e] = member[g][e]
             \/ e \in flush[g].claimed /\ member'[g][e] = "out"
             \/ /\ e \in flush[g].claimed /\ member'[g][e] = "flushed"
                /\ kind[e] = "fired" /\ e \in flush[g].kept
  BY <1>2, <1>3
<1>5. \A e \in Events : e \in flush[g].claimed /\ kind[e] # "fired" => member'[g][e] = "out"
  BY <1>2, <1>3
<1> QED BY <1>3, <1>4, <1>5

LEMMA FlushLedger ==
    ASSUME TypeOK, Unsilenced, Sole, \A h \in Groups : DropsOf(h), Told, Ledger,
           NEW g \in Groups, FlushStep(g) \/ FlushThrow(g)
    PROVE  Told' /\ Ledger'
<1>1. /\ UNCHANGED <<claim, tail, kind, muted>>
      /\ \A h \in Groups \ {g} : flush'[h] = flush[h] /\ member'[h] = member[h]
      /\ \A e : Accounted(e) => Accounted(e)'
  BY FlushShape, FlushAccounted
<1>2. ASSUME UNCHANGED member, flush'[g].flushed \subseteq {e \in Events : member[g][e] = "flushed"}
                                                     \cup flush[g].flushed
      PROVE  Told' /\ Ledger'
  <2>1. \A e \in Events : Accounted(e) => Accounted(e)' BY <1>1
  <2>2. Told' BY <1>1, <1>2, <2>1 DEF Told
  <2>3. Ledger' BY <1>1, <1>2, <2>1 DEF Ledger, Journaled
  <2> QED BY <2>2, <2>3
<1>3. CASE /\ UNCHANGED member
           /\ \/ UNCHANGED flush
              \/ flush[g].pc = "idle" /\ ClaimsAs(g, flush'[g])
              \/ WeighsAs(g, flush'[g])
  <2>1. flush'[g].flushed \subseteq {e \in Events : member[g][e] = "flushed"} \cup flush[g].flushed
    BY <1>3 DEF ClaimsAs, WeighsAs, Members, Unflushed, TypeOK, Memberships
  <2> QED BY <1>2, <1>3, <2>1
<1>4. ASSUME NEW found \in SUBSET Channels, FlushCommit(g, found) PROVE Told' /\ Ledger'
  <2>1. \A e \in flush[g].claimed : Accounted(e)' BY <1>4, CommitSettles
  <2>2. flush'[g].flushed = {}
    <3>1. EndFlush(g, Undelivered(flush[g], found)) /\ flush[g].pc # "history"
      BY <1>4 DEF FlushCommit, Weighed
    <3> QED BY <3>1, EndFlushShape
  <2>3. \A e \in Events : \/ e \notin flush[g].claimed /\ member'[g][e] = member[g][e]
                          \/ /\ e \in flush[g].claimed
                             /\ member'[g][e] = "out" \/ kind[e] = "fired"
    BY <1>4, CommitMembers
  <2>4. Told'
    <3> SUFFICES ASSUME NEW h \in Groups, NEW e \in Events,
                        member'[h][e] = "flushed" \/ e \in flush'[h].flushed
                 PROVE  kind'[e] = "fired" /\ Accounted(e)'
      BY DEF Told
    <3>1. CASE h # g BY <1>1, <3>1 DEF Told
    <3>2. CASE h = g BY <1>1, <2>1, <2>2, <2>3, <3>2 DEF Told
    <3> QED BY <3>1, <3>2
  <2>5. Ledger'
    <3> SUFFICES ASSUME ~muted, NEW e \in Journaled, claim[e] # "open"
                 PROVE  Accounted(e)' \/ \E h \in Groups : member'[h][e] = "unflushed"
      BY <1>1 DEF Ledger, Journaled
    <3>0. e \in Events BY DEF Journaled, Events, TypeOK
    <3>1. CASE Accounted(e) BY <1>1, <3>1
    <3>2. ASSUME NEW h \in Groups, member[h][e] = "unflushed"
          PROVE  Accounted(e)' \/ \E i \in Groups : member'[i][e] = "unflushed"
      BY <1>1, <2>1, <2>3, <3>0, <3>2
    <3> QED BY <3>1, <3>2 DEF Ledger
  <2> QED BY <2>4, <2>5
<1>5. CASE \E found \in SUBSET Channels : FlushOrphaned(g, found)
  <2>1. PICK found \in SUBSET Channels : FlushOrphaned(g, found) BY <1>5
  <2>2. /\ EndFlush(g, Undelivered(flush[g], found)) /\ flush[g].pc # "history" /\ member' = member
    BY <2>1 DEF FlushOrphaned, Weighed, groupVars
  <2> QED BY <1>2, <2>2, EndFlushShape
<1>6. CASE FlushHistory(g) \/ FlushThrow(g)
  <2>1. flush'[g] = IdleFlush /\ member' = member
    BY <1>6 DEF FlushHistory, FlushThrow, groupVars, TypeOK
  <2> QED BY <1>2, <2>1, IdleFields
<1> QED BY <1>3, <1>4, <1>5, <1>6, FlushShape

LEMMA WorkerLedger ==
    ASSUME TypeOK, Unsilenced, Sole, Told, Ledger, NEW w \in Workers,
           WorkerStep(w) \/ ProcessThrow(w)
    PROVE  Told' /\ Ledger'
<1>1. /\ UNCHANGED <<flush, tail, kind, muted>> /\ \A e : Accounted(e) => Accounted(e)'
      /\ \A p \in WorkerDebt(w)' : Recorded(p)'
      /\ \/ Bides(w) \/ HandsOver(w)
         \/ \E e \in Events : EndsAs(w, e)
         \/ \E e \in Events, g \in Groups : JoinsAs(w, e, g)
  BY WorkerShape, WorkerBooks
<1>2. \A g \in Groups : \A e \in Events : member'[g][e] = "flushed" => member[g][e] = "flushed"
  BY <1>1 DEF Bides, HandsOver, EndsAs, JoinsAs, TypeOK
<1>3. Told'
  <2> SUFFICES ASSUME NEW g \in Groups, NEW e \in Events,
                      member'[g][e] = "flushed" \/ e \in flush'[g].flushed
               PROVE  kind'[e] = "fired" /\ Accounted(e)'
    BY DEF Told
  <2> QED BY <1>1, <1>2 DEF Told
<1>4. Ledger'
  <2> SUFFICES ASSUME ~muted, NEW x \in Journaled, claim'[x] # "open"
               PROVE  Accounted(x)' \/ \E h \in Groups : member'[h][x] = "unflushed"
    BY <1>1 DEF Ledger, Journaled
  <2>0. x \in Events BY DEF Journaled, Events, TypeOK
  <2>1. \A g \in Groups : member[g][x] = "unflushed" => member'[g][x] = "unflushed"
    BY <1>1, <2>0 DEF Bides, HandsOver, EndsAs, JoinsAs, TypeOK
  <2>2. CASE claim[x] # "open" BY <1>1, <2>1, <2>2 DEF Ledger
  <2>3. CASE claim[x] = "open" /\ EndsAs(w, x)
    <3>1. <<x, worker'[w].reason>> \in WorkerDebt(w)' BY <2>3 DEF EndsAs, Carries, WorkerDebt
    <3> QED BY <1>1, <3>1 DEF Accounted
  <2>4. ASSUME NEW g \in Groups, claim[x] = "open", JoinsAs(w, x, g)
        PROVE  \E h \in Groups : member'[h][x] = "unflushed"
    <3>1. member[g][x] = "out"
      BY <2>0, <2>4, UnsilencedHands DEF Sole, SoleHolder, Holds
    <3> QED BY <2>0, <2>4, <3>1 DEF JoinsAs, TypeOK
  <2>5. CASE claim[x] = "open" /\ UNCHANGED claim BY <2>5
  <2>6. \/ UNCHANGED claim
        \/ \E e \in Events : /\ claim' = [claim EXCEPT ![e] = "ended"]
                            /\ EndsAs(w, e)
        \/ \E e \in Events, g \in Groups : /\ claim' = [claim EXCEPT ![e] = "dispatched"]
                                           /\ JoinsAs(w, e, g)
    BY <1>1 DEF Bides, HandsOver, EndsAs, JoinsAs
  <2>7. \/ claim'[x] = claim[x] \/ EndsAs(w, x)
        \/ \E g \in Groups : JoinsAs(w, x, g)
    BY <2>0, <2>6 DEF TypeOK
  <2> QED BY <2>2, <2>3, <2>4, <2>7
<1> QED BY <1>3, <1>4

(* A step that takes no member away and claims nothing. *)
LEMMA LedgerFrame ==
    ASSUME TypeOK, Told, Ledger, UNCHANGED <<flush, member, claim, tail, kind, muted>>,
           \A e : Accounted(e) => Accounted(e)'
    PROVE  Told' /\ Ledger'
<1>1. Told' BY DEF Told
<1>2. Ledger' BY DEF Ledger, Journaled
<1> QED BY <1>1, <1>2

LEMMA JournalLedger ==
    ASSUME TypeOK, Unsilenced, Sole, OfJournal, Told, Ledger, \A h \in Groups : DropsOf(h),
           NEW i \in Instances, Fire(i) \/ Resolve(i)
    PROVE  Told' /\ Ledger'
<1>1. /\ tail' = tail + 1 /\ tail \in 0..MaxEvents /\ tail < MaxEvents
      /\ \A e \in Events \ {tail + 1} : kind'[e] = kind[e]
      /\ UNCHANGED <<flush, member, claim, muted>>
      /\ UNCHANGED <<worker, deliveries, superseded, lost, terminals, projections>>
  BY DEF Fire, Resolve, Journal, TypeOK, groupVars, outcomeVars
<1>2. \A e : Accounted(e) => Accounted(e)' BY <1>1, BooksFrame
<1>3. ASSUME NEW g \in Groups, NEW e \in Events,
             member[g][e] = "flushed" \/ e \in flush[g].flushed
      PROVE  e # tail + 1
  <2>1. Holds(g, e) BY <1>3, UnsilencedHands DEF Holds, DropsOf
  <2>2. e \in Journaled BY <2>1 DEF Sole, SoleHolder, OfJournal
  <2> QED BY <1>1, <2>2 DEF Journaled
<1>4. Told' BY <1>1, <1>2, <1>3 DEF Told
<1>5. Ledger'
  <2> SUFFICES ASSUME ~muted, NEW x \in Journaled', claim[x] # "open"
               PROVE  Accounted(x)' \/ \E h \in Groups : member[h][x] = "unflushed"
    BY <1>1 DEF Ledger
  <2>1. x \in Events BY <1>1 DEF Journaled, Events
  <2>2. x \in Journaled BY <2>1 DEF OfJournal
  <2> QED BY <1>2, <2>2 DEF Ledger
<1> QED BY <1>4, <1>5

LEMMA CloseLedger ==
    ASSUME TypeOK, Unsilenced, Sole, Told, Ledger, PauseRule \/ ChangeLabels \/ DeleteRule
    PROVE  Told' /\ Ledger'
<1>1. PICK reason \in Reasons, S \in {{}, Orphaned} :
         /\ CloseLifecycle(reason, S)
         /\ \/ member' = member
            \/ /\ S = Orphaned
               /\ member' = [g \in Groups |-> IF g = "direct" THEN [e \in Events |-> "out"]
                                              ELSE member[g]]
  BY DEF PauseRule, ChangeLabels, DeleteRule, Reasons, groupVars
<1>2. /\ UNCHANGED <<flush, tail, kind, muted, worker, deliveries, superseded, lost, terminals>>
      /\ projections' = projections \cup {<<e, reason>> : e \in Cancelable \cup S}
      /\ \A e \in Events : claim'[e] = claim[e] \/ e \in Cancelable
  BY <1>1 DEF CloseLifecycle, journalVars, outcomeVars
<1>3. \A e : Accounted(e) => Accounted(e)' BY <1>2, BooksFrame
<1>4. ASSUME NEW e \in Cancelable \cup S PROVE Accounted(e)'
  <2>1. <<e, reason>> \in projections' BY <1>2
  <2>2. Recorded(<<e, reason>>)' BY <2>1 DEF Recorded
  <2> QED BY <2>2 DEF Accounted
<1>5. Told'
  <2>1. \A g \in Groups : \A e \in Events : member'[g][e] = "flushed" => member[g][e] = "flushed"
    BY <1>1
  <2> QED BY <1>2, <1>3, <2>1 DEF Told
<1>6. Ledger'
  <2> SUFFICES ASSUME ~muted, NEW x \in Journaled, claim'[x] # "open"
               PROVE  Accounted(x)' \/ \E h \in Groups : member'[h][x] = "unflushed"
    BY <1>2 DEF Ledger, Journaled
  <2>0. x \in Events BY DEF Journaled, Events, TypeOK
  <2>1. CASE x \in Cancelable BY <1>4, <2>1
  <2>2. CASE Accounted(x) BY <1>3, <2>2
  <2>3. ASSUME NEW g \in Groups, member[g][x] = "unflushed"
        PROVE  Accounted(x)' \/ \E h \in Groups : member'[h][x] = "unflushed"
    <3>1. CASE member'[g][x] = "unflushed" BY <3>1
    <3>2. CASE member'[g][x] # "unflushed"
      <4>1. g = "direct" /\ S = Orphaned BY <1>1, <2>0, <2>3, <3>2
      <4>2. Holds(g, x) BY <2>0, <2>3, UnsilencedHands DEF Holds
      <4>3. \A h \in Groups \ {g} : ~Holds(h, x) BY <2>0, <4>2 DEF Sole, SoleHolder
      <4>4. \A h \in Groups \ {g} : member[h][x] = "out"
        BY <2>0, <4>3, UnsilencedHands DEF Holds
      <4>5. x \in Orphaned BY <2>0, <2>3, <4>1, <4>4 DEF Orphaned
      <4> QED BY <1>4, <4>1, <4>5
    <3> QED BY <3>1, <3>2
  <2> QED BY <1>2, <2>0, <2>1, <2>2, <2>3 DEF Ledger
<1> QED BY <1>5, <1>6

(* All of it together. *)
Tally == /\ Unsilenced /\ Sole /\ OfJournal /\ (\A g \in Groups : DropsOf(g)) /\ Told /\ Ledger

LEMMA TallyNext == ASSUME TypeOK, Tally, [Next]_vars PROVE Tally'
<1> USE DEF Tally
<1>1. Sole' /\ OfJournal' BY UnsilencedHands, NextSole, NextOfJournal
<1> SUFFICES Unsilenced' /\ (\A g \in Groups : DropsOf(g)') /\ Told' /\ Ledger' BY <1>1
<1>2. ASSUME UNCHANGED flush PROVE Unsilenced' /\ \A g \in Groups : DropsOf(g)'
  <2>1. \A g \in Groups : DropsOf(g) BY DEF Tally
  <2> QED BY <1>2, <2>1 DEF Unsilenced, DropsOf
<1>3. ASSUME UNCHANGED <<flush, member, claim, tail, kind, muted, worker, deliveries, superseded,
                         lost>>,
             terminals \cup projections \subseteq terminals' \cup projections'
      PROVE  Unsilenced' /\ (\A g \in Groups : DropsOf(g)') /\ Told' /\ Ledger'
  BY <1>2, <1>3, BooksFrame, LedgerFrame
<1>4. CASE Tick \/ UNCHANGED vars
  BY <1>3, <1>4 DEF Tick, vars, groupVars, ruleVars, jobVars, journalVars, outcomeVars
<1>5. ASSUME NEW i \in Instances, Fire(i) \/ Resolve(i)
      PROVE  Unsilenced' /\ (\A g \in Groups : DropsOf(g)') /\ Told' /\ Ledger'
  <2>1. UNCHANGED flush BY <1>5 DEF Fire, Resolve, Journal
  <2> QED BY <1>2, <1>5, <2>1, JournalLedger
<1>6. CASE PauseRule \/ ChangeLabels \/ DeleteRule
  <2>1. UNCHANGED flush BY <1>6 DEF PauseRule, ChangeLabels, DeleteRule, CloseLifecycle
  <2> QED BY <1>2, <1>6, <2>1, CloseLedger
<1>7. CASE ResumeRule
  BY <1>3, <1>7 DEF ResumeRule, groupVars, jobVars, journalVars, outcomeVars
<1>8. ASSUME NEW s \in Silences
      PROVE  Unsilenced' /\ (\A g \in Groups : DropsOf(g)') /\ Told' /\ Ledger'
  BY DEF Unsilenced
<1>9. ASSUME NEW p \in projections, ProjectLifecycle(p)
      PROVE  Unsilenced' /\ (\A g \in Groups : DropsOf(g)') /\ Told' /\ Ledger'
  BY <1>3, <1>9 DEF ProjectLifecycle, groupVars, ruleVars, journalVars
<1>10. ASSUME NEW w \in Workers, WorkerStep(w) \/ ProcessThrow(w)
       PROVE  Unsilenced' /\ (\A g \in Groups : DropsOf(g)') /\ Told' /\ Ledger'
  <2>1. UNCHANGED flush BY <1>10, WorkerShape
  <2> QED BY <1>2, <1>10, <2>1, WorkerLedger
<1>11. ASSUME NEW g \in Groups, FlushStep(g) \/ FlushThrow(g)
       PROVE  Unsilenced' /\ (\A h \in Groups : DropsOf(h)') /\ Told' /\ Ledger'
  <2>1. Unsilenced'
    <3>1. \A h \in Groups \ {g} : flush'[h] = flush[h] BY <1>11, FlushShape
    <3>2. flush' = flush \/ flush'[g].pc \notin {"hold", "forget"}
      <4>1. ASSUME NEW found \in SUBSET Channels, FlushCommit(g, found) \/ FlushOrphaned(g, found)
            PROVE  flush'[g].pc \notin {"hold", "forget"}
        <5>1. EndFlush(g, Undelivered(flush[g], found)) /\ flush[g].pc # "history"
          BY <4>1 DEF FlushCommit, FlushOrphaned, Weighed
        <5> QED BY <5>1, EndFlushShape
      <4>2. CASE FlushHistory(g) \/ FlushThrow(g)
        <5>1. flush'[g] = IdleFlush BY <4>2 DEF FlushHistory, FlushThrow, TypeOK
        <5> QED BY <5>1, IdleFields
      <4> QED BY <1>11, <4>1, <4>2, FlushShape DEF ClaimsAs, WeighsAs
    <3> QED BY <3>1, <3>2 DEF Unsilenced
  <2>2. \A h \in Groups : DropsOf(h)' BY <1>11, DropsFlush
  <2>3. Told' /\ Ledger' BY <1>11, FlushLedger
  <2> QED BY <2>1, <2>2, <2>3
<1> QED BY <1>4, <1>5, <1>6, <1>7, <1>8, <1>9, <1>10, <1>11 DEF Next, Work, People

LEMMA TallyInit == ASSUME Silences = {}, Init PROVE Tally
<1>1. Sole /\ OfJournal BY InitSole, InitOfJournal
<1>2. \A g \in Groups : flush[g] = IdleFlush /\ \A e \in Events : member[g][e] = "out" BY DEF Init
<1>3. Journaled = {} BY DEF Init, Journaled
<1> QED BY <1>1, <1>2, <1>3, IdleFields DEF Tally, Unsilenced, DropsOf, Told, Ledger

LEMMA LedgerOwned == ASSUME Ledger PROVE ChainOwned
<1>1. ASSUME NEW e, Accounted(e)
      PROVE  e \in Delivered \cup Suppressed \cup superseded \cup lost \cup Owed
  <2>1. CASE e \in Delivered \cup superseded \cup lost BY <2>1
  <2>2. ASSUME NEW p, Recorded(p), p[1] = e PROVE e \in Suppressed \cup Owed
    <3>1. CASE p \in terminals \cup projections BY <2>2, <3>1 DEF Suppressed, Owed
    <3>2. ASSUME NEW w \in Workers, p \in WorkerDebt(w) PROVE e \in Owed
      BY <2>2, <3>2 DEF WorkerDebt, Owed
    <3>3. ASSUME NEW g \in Groups, p \in FlushDebt(g) PROVE e \in Owed
      BY <2>2, <3>3 DEF FlushDebt, Owed
    <3> QED BY <2>2, <3>1, <3>2, <3>3 DEF Recorded
  <2> QED BY <1>1, <2>1, <2>2 DEF Accounted
<1> QED BY <1>1 DEF Ledger, ChainOwned

(* Of a rule nobody silences no notifying event is forgotten, whatever its   *)
(* channels and groups, the mutations and the crashes: an event that left    *)
(* the queue waits for its first flush, or its outcome is on the books.      *)
THEOREM NoChainDropped == Silences = {} => (Spec => []ChainOwned)
<1> SUFFICES ASSUME Silences = {} PROVE Spec => []ChainOwned OBVIOUS
<1>1. Init => Tally BY TallyInit
<1>2. TypeOK /\ Tally /\ [Next]_vars => Tally' BY TallyNext
<1>3. Tally => ChainOwned BY LedgerOwned DEF Tally
<1> QED BY TypeCorrect, <1>1, <1>2, <1>3, PTL DEF Spec

-----------------------------------------------------------------------------
(* One outcome each, of a rule nobody silences or deletes.  An event with a  *)
(* terminal is claimed for good.  It may still be in a group only as a fire  *)
(* that was flushed to no channel, and then no flush will name another       *)
(* reason.                                                                   *)
Once ==
    /\ \A p, q : Recorded(p) /\ Recorded(q) /\ p[1] = q[1] => p = q
    /\ \A p : Recorded(p) =>
         /\ claim[p[1]] # "open"
         /\ \A g \in Groups : Holds(g, p[1]) =>
               /\ p[2] = "no_channels" /\ member[g][p[1]] # "unflushed"
               /\ p[1] \in flush[g].claimed => p[1] \in flush[g].flushed

(* Only a delete takes the group from under a flush. *)
GroupStays == \A g \in Groups : flush[g].pc \notin {"idle", "history"} => g \in groups

LEMMA RecordedType ==
    ASSUME TypeOK, NEW p, Recorded(p) PROVE p \in Events \X Reasons
<1>1. CASE p \in terminals \cup projections BY <1>1 DEF TypeOK
<1>2. ASSUME NEW w \in Workers, p \in WorkerDebt(w) PROVE p \in Events \X Reasons
  <2>1. worker[w] \in WorkerType BY DEF TypeOK
  <2>2. /\ worker[w].event \in Events /\ worker[w].reason \in Reasons
        /\ p = <<worker[w].event, worker[w].reason>>
    BY <1>2, <2>1, Busy DEF WorkerDebt, WorkerType
  <2> QED BY <2>2
<1>3. ASSUME NEW g \in Groups, p \in FlushDebt(g) PROVE p \in Events \X Reasons
  BY <1>3 DEF TypeOK, FlushType, FlushDebt
<1> QED BY <1>1, <1>2, <1>3 DEF Recorded

LEMMA HoldsPlain ==
    ASSUME Unsilenced, NEW g \in Groups, NEW e
    PROVE  Holds(g, e) <=> member[g][e] # "out" \/ e \in flush[g].claimed
  BY DEF Holds, Forgetting, Unsilenced

LEMMA HoldsNext ==
    ASSUME Unsilenced', NEW g \in Groups, NEW e
    PROVE  Holds(g, e)' <=> member'[g][e] # "out" \/ e \in flush'[g].claimed
  BY DEF Holds, Forgetting, Unsilenced

(* A step that records nothing new, opens no claim and takes hold of nothing *)
(* with a record.                                                            *)
LEMMA OnceFrame ==
    ASSUME TypeOK, Unsilenced, Unsilenced', Once,
           \A p : Recorded(p)' => Recorded(p),
           \A e \in Events : claim[e] # "open" => claim'[e] # "open",
           \A g \in Groups : \A e \in Events :
              claim[e] # "open" /\ Holds(g, e)' => 
                 /\ Holds(g, e)
                 /\ member'[g][e] = member[g][e] \/ member'[g][e] # "unflushed"
                 /\ e \in flush'[g].claimed /\ e \notin flush'[g].flushed =>
                      \/ e \in flush[g].claimed /\ e \notin flush[g].flushed
                      \/ member[g][e] = "unflushed"
    PROVE  Once'
<1>1. ASSUME NEW p, Recorded(p)'
      PROVE  /\ claim'[p[1]] # "open"
             /\ \A g \in Groups : Holds(g, p[1])' =>
                  /\ p[2] = "no_channels" /\ member'[g][p[1]] # "unflushed"
                  /\ p[1] \in flush'[g].claimed => p[1] \in flush'[g].flushed
  <2>1. Recorded(p) /\ p[1] \in Events BY <1>1, RecordedType
  <2>2. claim[p[1]] # "open" /\ claim'[p[1]] # "open" BY <2>1 DEF Once
  <2>3. ASSUME NEW g \in Groups, Holds(g, p[1])'
        PROVE  /\ p[2] = "no_channels" /\ member'[g][p[1]] # "unflushed"
               /\ p[1] \in flush'[g].claimed => p[1] \in flush'[g].flushed
    <3>1. Holds(g, p[1]) BY <2>1, <2>2, <2>3
    <3>2. /\ p[2] = "no_channels" /\ member[g][p[1]] # "unflushed"
          /\ p[1] \in flush[g].claimed => p[1] \in flush[g].flushed
      BY <2>1, <3>1 DEF Once
    <3> QED BY <2>1, <2>2, <2>3, <3>2
  <2> QED BY <2>2, <2>3
<1>2. \A p, q : Recorded(p)' /\ Recorded(q)' /\ p[1] = q[1] => p = q BY DEF Once
<1> QED BY <1>1, <1>2 DEF Once

(* A step that ends open chains: each gets one record. *)
LEMMA OnceEnds ==
    ASSUME TypeOK, Unsilenced, Unsilenced', Sole, Once, UNCHANGED <<flush, member>>,
           NEW S \in SUBSET {e \in Events : claim[e] = "open"}, NEW r,
           \A p : Recorded(p)' => Recorded(p) \/ (p[1] \in S /\ p = <<p[1], r>>),
           \A e \in Events : claim[e] # "open" \/ e \in S => claim'[e] # "open"
    PROVE  Once'
<1>1. \A p : Recorded(p) => p[1] \in Events /\ p[1] \notin S BY RecordedType DEF Once
<1>2. \A g \in Groups : \A e : Holds(g, e)' <=> Holds(g, e) BY DEF Holds, Forgetting
<1>3. \A e \in S : \A g \in Groups : ~Holds(g, e) BY DEF Sole, SoleHolder
<1>4. ASSUME NEW p, NEW q, Recorded(p)', Recorded(q)', p[1] = q[1] PROVE p = q
  BY <1>1, <1>4 DEF Once
<1>5. ASSUME NEW p, Recorded(p)'
      PROVE  /\ claim'[p[1]] # "open"
             /\ \A g \in Groups : Holds(g, p[1])' =>
                  /\ p[2] = "no_channels" /\ member'[g][p[1]] # "unflushed"
                  /\ p[1] \in flush'[g].claimed => p[1] \in flush'[g].flushed
  <2>1. CASE Recorded(p) BY <1>1, <1>2, <2>1 DEF Once
  <2>2. CASE p[1] \in S BY <1>2, <1>3, <2>2
  <2> QED BY <1>5, <2>1, <2>2
<1> QED BY <1>4, <1>5 DEF Once

LEMMA OnceWorker ==
    ASSUME TypeOK, Tally, Unsilenced', Once, NEW w \in Workers, WorkerStep(w) \/ ProcessThrow(w)
    PROVE  Once'
<1> USE DEF Tally
<1>1. /\ UNCHANGED flush
      /\ \A p : Recorded(p)' => Recorded(p) \/ p \in WorkerDebt(w)'
      /\ \/ Bides(w) \/ HandsOver(w)
         \/ \E e \in Events : EndsAs(w, e)
         \/ \E e \in Events, g \in Groups : JoinsAs(w, e, g)
  BY WorkerShape, WorkerBooks
<1>2. CASE Bides(w) \/ HandsOver(w)
  <2>1. UNCHANGED member /\ \A e \in Events : claim[e] # "open" => claim'[e] # "open"
    BY <1>2 DEF Bides, HandsOver, TypeOK
  <2>2. WorkerDebt(w)' = {} BY <1>2 DEF Bides, HandsOver, Carries, WorkerDebt
  <2>3. \A g \in Groups : \A e \in Events : Holds(g, e)' => Holds(g, e)
    BY <1>1, <2>1 DEF Holds, Forgetting
  <2> QED BY <1>1, <2>1, <2>2, <2>3, OnceFrame
<1>3. ASSUME NEW e \in Events, EndsAs(w, e) PROVE Once'
  <2> DEFINE r == worker'[w].reason
  <2>1. /\ claim[e] = "open" /\ UNCHANGED member
        /\ \A x \in Events : claim[x] # "open" \/ x = e => claim'[x] # "open"
    BY <1>3 DEF EndsAs, TypeOK
  <2>2. WorkerDebt(w)' = {<<e, r>>} BY <1>3 DEF EndsAs, Carries, WorkerDebt
  <2>3. \A p : Recorded(p)' => Recorded(p) \/ (p[1] \in {e} /\ p = <<p[1], r>>) BY <1>1, <2>2
  <2>4. /\ {e} \in SUBSET {x \in Events : claim[x] = "open"}
        /\ \A x \in Events : claim[x] # "open" \/ x \in {e} => claim'[x] # "open"
    BY <2>1
  <2> HIDE DEF r
  <2> QED BY <1>1, <2>1, <2>3, <2>4, OnceEnds
<1>4. ASSUME NEW e \in Events, NEW g \in Groups, JoinsAs(w, e, g) PROVE Once'
  <2>1. /\ claim[e] = "open" /\ WorkerDebt(w)' = {}
        /\ \A x \in Events : claim[x] # "open" => claim'[x] # "open"
    BY <1>4 DEF JoinsAs, Carries, WorkerDebt, TypeOK
  <2>2. \A h \in Groups : \A x \in Events \ {e} : member'[h][x] = member[h][x]
    BY <1>4 DEF JoinsAs, TypeOK
  <2>3. \A h \in Groups : \A x \in Events : claim[x] # "open" /\ Holds(h, x)' =>
           Holds(h, x) /\ member'[h][x] = member[h][x]
    BY <1>1, <2>1, <2>2 DEF Holds, Forgetting
  <2> QED BY <1>1, <2>1, <2>3, OnceFrame
<1> QED BY <1>1, <1>2, <1>3, <1>4

LEMMA OnceClose ==
    ASSUME TypeOK, Tally, Unsilenced', Once, PauseRule \/ ChangeLabels PROVE Once'
<1> USE DEF Tally
<1>1. PICK reason \in Reasons : CloseLifecycle(reason, {}) /\ UNCHANGED member
  BY DEF PauseRule, ChangeLabels, Reasons, groupVars
<1>2. /\ UNCHANGED <<flush, member, worker, deliveries, superseded, lost, terminals>>
      /\ projections' = projections \cup {<<e, reason>> : e \in Cancelable}
  BY <1>1 DEF CloseLifecycle, outcomeVars
<1>3. \A p : Recorded(p)' => Recorded(p) \/ p \in terminals' \cup projections' BY <1>2, BooksFrame
<1>4. \A p : Recorded(p)' => Recorded(p) \/ (p[1] \in Cancelable /\ p = <<p[1], reason>>)
  BY <1>2, <1>3 DEF Recorded
<1>5. Cancelable \in SUBSET {e \in Events : claim[e] = "open"}
  BY DEF Cancelable, Journaled, Events, TypeOK
<1>6. \A e \in Events : claim[e] # "open" \/ e \in Cancelable => claim'[e] # "open"
  BY <1>1 DEF CloseLifecycle
<1> QED BY <1>2, <1>4, <1>5, <1>6, OnceEnds

(* A committing flush: what it drops had no record, and what it announces to *)
(* nobody had at most the same one.                                          *)
LEMMA OnceCommit ==
    ASSUME TypeOK, Tally, Unsilenced', Once, NEW g \in Groups, NEW found \in SUBSET Channels,
           FlushCommit(g, found)
    PROVE  Once'
<1> USE DEF Tally
<1> DEFINE f == flush[g]
           N == Notified(f)
           D == DroppedUnannounced(f.kept, f.flushed, kind, subject)
           U == Undelivered(f, found)
<1>0. FlushStep(g) BY DEF FlushStep, ChannelsFound
<1>1. /\ UNCHANGED claim /\ f.pc = "defer" /\ EndFlush(g, U)
      /\ \A h \in Groups \ {g} : flush'[h] = flush[h] /\ member'[h] = member[h]
  BY <1>0, FlushShape DEF FlushCommit, Weighed
<1>2. /\ FlushDebt(g)' = U /\ flush'[g].claimed = {}
      /\ \A p : Recorded(p)' => Recorded(p) \/ p \in U
  <2>1. FlushDebt(g)' = U /\ flush'[g].claimed = {} BY <1>1, EndFlushShape
  <2>2. \A p : Recorded(p)' => Recorded(p) \/ p \in FlushDebt(g)' BY <1>0, FlushAccounted
  <2> QED BY <2>1, <2>2
<1>3. f.kept \subseteq f.claimed /\ f.flushed \subseteq f.claimed /\ f.claimed \subseteq Events
  BY Held DEF Sole, Apart, DropsOf
<1>4. N \subseteq f.kept /\ D \subseteq f.kept /\ N \cap D = {}
  BY DEF Notified, Notify, DroppedUnannounced, Announced, Active, Latest
<1>5. D \cap f.flushed = {}
  <2>1. \A e \in D : kind[e] = "resolved"
    BY DEF DroppedUnannounced, Notify, Flap
  <2> QED BY <1>3, <2>1 DEF Told
<1>6. /\ \A d \in f.drops : d[1] \in f.claimed \ (f.kept \cup f.flushed)
      /\ \A a, b \in f.drops : a[1] = b[1] => a = b
  BY <1>1 DEF DropsOf
<1>7. ASSUME NEW p, p \in U
      PROVE  \/ p \in f.drops
             \/ p[1] \in D /\ p = <<p[1], "unannounced">>
             \/ p[1] \in N /\ p = <<p[1], "no_channels">>
  BY <1>7 DEF Undelivered
<1> HIDE DEF N, D, U
<1>8. \A p, q : p \in U /\ q \in U /\ p[1] = q[1] => p = q BY <1>4, <1>6, <1>7
<1>9. \A p : p \in U => p[1] \in f.claimed BY <1>3, <1>4, <1>6, <1>7
<1>10. \A e \in f.claimed : claim[e] = "dispatched" /\ \A h \in Groups : Holds(h, e) => h = g
  BY <1>3, HoldsPlain DEF Sole, SoleHolder
<1>11. ASSUME NEW p, Recorded(p), NEW q, q \in U, p[1] = q[1] PROVE p = q
  <2>1. q[1] \in f.claimed /\ Holds(g, q[1]) BY <1>9, <1>11, HoldsPlain
  <2>2. p[2] = "no_channels" /\ q[1] \in f.flushed BY <1>11, <2>1 DEF Once
  <2>3. q = <<q[1], "no_channels">> BY <1>5, <1>6, <1>7, <1>11, <2>2
  <2>4. p = <<p[1], p[2]>> BY <1>11, RecordedType
  <2> QED BY <1>11, <2>2, <2>3, <2>4
<1>12. \A p, q : Recorded(p)' /\ Recorded(q)' /\ p[1] = q[1] => p = q
  BY <1>2, <1>8, <1>11 DEF Once
<1>13. ASSUME NEW p, Recorded(p)' PROVE p[1] \in Events /\ claim'[p[1]] # "open"
  BY <1>1, <1>2, <1>3, <1>9, <1>10, <1>13, RecordedType DEF Once
<1>14. ASSUME NEW p, Recorded(p)', NEW h \in Groups, Holds(h, p[1])'
       PROVE  /\ p[2] = "no_channels" /\ member'[h][p[1]] # "unflushed"
              /\ p[1] \in flush'[h].claimed => p[1] \in flush'[h].flushed
  <2> DEFINE e == p[1]
  <2>0. e \in Events BY <1>13, <1>14
  <2>1. CASE h # g
    <3>1. Holds(h, e) BY <1>1, <1>14, <2>1, HoldsPlain, HoldsNext
    <3>2. Recorded(p) BY <1>2, <1>9, <1>10, <1>14, <2>1, <3>1
    <3> QED BY <1>1, <2>1, <3>1, <3>2 DEF Once
  <2>2. CASE h = g /\ e \notin f.claimed
    <3>1. member'[g][e] = member[g][e] BY <2>0, <2>2, CommitMembers
    <3>2. Holds(g, e) BY <1>2, <1>14, <2>2, <3>1, HoldsPlain, HoldsNext
    <3>3. Recorded(p) BY <1>2, <1>9, <1>14, <2>2
    <3> QED BY <1>2, <2>2, <3>1, <3>2, <3>3 DEF Once
  <2>3. CASE h = g /\ e \in f.claimed
    <3>1. member'[g][e] = "flushed" /\ kind[e] = "fired" /\ e \in f.kept
      <4>1. member'[g][e] # "out" BY <1>2, <1>14, <2>3, HoldsNext
      <4>2. \/ member'[g][e] = "out"
            \/ member'[g][e] = "flushed" /\ kind[e] = "fired" /\ e \in f.kept
        BY <2>0, <2>3, CommitMembers
      <4> QED BY <4>1, <4>2
    <3>2. p[2] = "no_channels"
      <4>1. CASE Recorded(p) BY <2>3, <4>1, HoldsPlain DEF Once
      <4>2. CASE p \in U
        <5>1. p \notin f.drops BY <1>6, <3>1
        <5>2. e \notin D BY <3>1 DEF D, DroppedUnannounced, Notify, Flap
        <5> QED BY <1>7, <4>2, <5>1, <5>2
      <4> QED BY <1>2, <1>14, <4>1, <4>2
    <3> QED BY <1>2, <2>3, <3>1, <3>2
  <2> QED BY <2>1, <2>2, <2>3
<1> QED BY <1>12, <1>13, <1>14 DEF Once

LEMMA OnceFlush ==
    ASSUME TypeOK, Tally, Unsilenced', Once, GroupStays, NEW g \in Groups,
           FlushStep(g) \/ FlushThrow(g)
    PROVE  Once'
<1> USE DEF Tally
<1>1. /\ UNCHANGED claim
      /\ \A h \in Groups \ {g} : flush'[h] = flush[h] /\ member'[h] = member[h]
      /\ \A p : Recorded(p)' => Recorded(p) \/ p \in FlushDebt(g)'
      /\ flush \in [Groups -> FlushType]
  BY FlushShape, FlushAccounted DEF TypeOK
<1>2. ASSUME UNCHANGED member, \A p : Recorded(p)' => Recorded(p),
             \A e \in Events : e \in flush'[g].claimed =>
                /\ member[g][e] # "out" \/ e \in flush[g].claimed
                /\ e \notin flush'[g].flushed =>
                      \/ e \in flush[g].claimed /\ e \notin flush[g].flushed
                      \/ member[g][e] = "unflushed"
      PROVE  Once'
  <2>1. ASSUME NEW h \in Groups, NEW e \in Events, claim[e] # "open", Holds(h, e)'
        PROVE  /\ Holds(h, e)
               /\ e \in flush'[h].claimed /\ e \notin flush'[h].flushed =>
                      \/ e \in flush[h].claimed /\ e \notin flush[h].flushed
                      \/ member[h][e] = "unflushed"
    BY <1>1, <1>2, <2>1, HoldsPlain, HoldsNext
  <2> QED BY <1>1, <1>2, <2>1, OnceFrame
<1>3. CASE UNCHANGED <<flush, member>>
  <2>1. FlushDebt(g)' = FlushDebt(g) BY <1>3 DEF FlushDebt
  <2>2. \A p : Recorded(p)' => Recorded(p) BY <1>1, <2>1 DEF Recorded
  <2> QED BY <1>2, <1>3, <2>2
<1>4. CASE UNCHANGED member /\ (ClaimsAs(g, flush'[g]) \/ WeighsAs(g, flush'[g]))
  <2>1. FlushDebt(g)' = {} BY <1>4 DEF ClaimsAs, WeighsAs, FlushDebt
  <2>2. \A e \in Events : e \in flush'[g].claimed =>
                /\ member[g][e] # "out" \/ e \in flush[g].claimed
                /\ e \notin flush'[g].flushed =>
                      \/ e \in flush[g].claimed /\ e \notin flush[g].flushed
                      \/ member[g][e] = "unflushed"
    BY <1>4 DEF ClaimsAs, WeighsAs, Members, Unflushed
  <2> QED BY <1>1, <1>2, <1>4, <2>1, <2>2
<1>5. ASSUME NEW found \in SUBSET Channels, FlushCommit(g, found) \/ FlushOrphaned(g, found)
      PROVE  Once'
  BY <1>5, OnceCommit DEF FlushOrphaned, Weighed, GroupStays
<1>6. CASE FlushHistory(g) \/ FlushThrow(g)
  <2>1. flush'[g] = IdleFlush /\ member' = member
    BY <1>1, <1>6 DEF FlushHistory, FlushThrow, groupVars
  <2>2. FlushDebt(g)' = {} BY <2>1, IdleFields DEF FlushDebt
  <2> QED BY <1>1, <1>2, <2>1, <2>2, IdleFields
<1> QED BY <1>3, <1>4, <1>5, <1>6, FlushShape

LEMMA OnceNext ==
    ASSUME TypeOK, Tally, Once, GroupStays, "delete" \notin Mutations, [Next]_vars
    PROVE  Once' /\ GroupStays'
<1> USE DEF Tally
<1>0. Unsilenced' BY TallyNext
<1>1. ASSUME UNCHANGED <<flush, member, worker, groups, claim, deliveries, superseded, lost>>,
             terminals' \cup projections' = terminals \cup projections
      PROVE  Once' /\ GroupStays'
  <2>1. \A p : Recorded(p)' => Recorded(p) BY <1>1, BooksFrame DEF Recorded
  <2>2. \A g \in Groups : \A e : Holds(g, e)' => Holds(g, e) BY <1>1 DEF Holds, Forgetting
  <2>3. Once' BY <1>0, <1>1, <2>1, <2>2, OnceFrame
  <2> QED BY <1>1, <2>3 DEF GroupStays
<1>2. CASE Tick \/ UNCHANGED vars
  BY <1>1, <1>2 DEF Tick, vars, groupVars, jobVars, outcomeVars
<1>3. ASSUME NEW i \in Instances, Fire(i) \/ Resolve(i) PROVE Once' /\ GroupStays'
  BY <1>1, <1>3 DEF Fire, Resolve, Journal, groupVars, outcomeVars
<1>4. CASE PauseRule \/ ChangeLabels
  <2>1. UNCHANGED <<flush, groups>>
    BY <1>4 DEF PauseRule, ChangeLabels, CloseLifecycle, groupVars
  <2> QED BY <1>0, <1>4, <2>1, OnceClose DEF GroupStays
<1>5. CASE ResumeRule BY <1>1, <1>5 DEF ResumeRule, groupVars, jobVars, outcomeVars
<1>6. CASE DeleteRule BY <1>6 DEF DeleteRule
<1>7. ASSUME NEW s \in Silences PROVE Once' /\ GroupStays' BY DEF Unsilenced
<1>8. ASSUME NEW p \in projections, ProjectLifecycle(p) PROVE Once' /\ GroupStays'
  <2>1. terminals' \cup projections' = terminals \cup projections BY <1>8 DEF ProjectLifecycle
  <2> QED BY <1>1, <1>8, <2>1 DEF ProjectLifecycle, groupVars
<1>9. ASSUME NEW w \in Workers, WorkerStep(w) \/ ProcessThrow(w) PROVE Once' /\ GroupStays'
  <2>1. /\ UNCHANGED flush
        /\ \/ Bides(w) \/ HandsOver(w)
           \/ \E e \in Events : EndsAs(w, e)
           \/ \E e \in Events, g \in Groups : JoinsAs(w, e, g)
    BY <1>9, WorkerShape
  <2>2. groups \subseteq groups' BY <2>1 DEF Bides, HandsOver, EndsAs, JoinsAs
  <2> QED BY <1>0, <1>9, <2>1, <2>2, OnceWorker DEF GroupStays
<1>10. ASSUME NEW g \in Groups, FlushStep(g) \/ FlushThrow(g) PROVE Once' /\ GroupStays'
  <2>1. /\ UNCHANGED groups /\ \A h \in Groups \ {g} : flush'[h] = flush[h]
    BY <1>10, FlushShape
  <2>2. flush'[g].pc \notin {"idle", "history"} => g \in groups
    <3>1. ASSUME NEW found \in SUBSET Channels, FlushCommit(g, found) \/ FlushOrphaned(g, found)
          PROVE  flush'[g].pc \in {"idle", "history"}
      <4>1. EndFlush(g, Undelivered(flush[g], found)) /\ flush[g].pc # "history"
        BY <3>1 DEF FlushCommit, FlushOrphaned, Weighed
      <4> QED BY <4>1, EndFlushShape
    <3>2. CASE FlushHistory(g) \/ FlushThrow(g)
      <4>1. flush'[g] = IdleFlush BY <3>2 DEF FlushHistory, FlushThrow, TypeOK
      <4> QED BY <4>1, IdleFields
    <3> QED BY <1>10, <3>1, <3>2, FlushShape DEF ClaimsAs, WeighsAs, GroupStays
  <2>3. GroupStays' BY <2>1, <2>2 DEF GroupStays
  <2> QED BY <1>0, <1>10, <2>3, OnceFlush
<1> QED BY <1>2, <1>3, <1>4, <1>5, <1>6, <1>7, <1>8, <1>9, <1>10 DEF Next, Work, People

LEMMA OnceInit == ASSUME Init PROVE Once /\ GroupStays
<1>1. ASSUME NEW p PROVE ~Recorded(p)
  BY IdleFields DEF Init, Recorded, WorkerDebt, FlushDebt, IdleWorker, Handling
<1>2. GroupStays BY IdleFields DEF Init, GroupStays
<1> QED BY <1>1, <1>2 DEF Once

(* One terminal for each chain of a rule nobody silences or deletes, however *)
(* workers, flushes, projections, mutations and crashes meet.                *)
THEOREM OneOutcomeEach ==
    Silences = {} /\ "delete" \notin Mutations => (Spec => []OneTerminal)
<1> SUFFICES ASSUME Silences = {}, "delete" \notin Mutations PROVE Spec => []OneTerminal OBVIOUS
<1>1. Init => Tally /\ Once /\ GroupStays BY TallyInit, OnceInit
<1>2. TypeOK /\ Tally /\ Once /\ GroupStays /\ [Next]_vars => (Tally /\ Once /\ GroupStays)'
  BY TallyNext, OnceNext
<1>3. Once => OneTerminal BY DEF Once, OneTerminal, Recorded
<1> QED BY TypeCorrect, <1>1, <1>2, <1>3, PTL DEF Spec

-----------------------------------------------------------------------------
(* A notification names an instance once, and everything that fires in its  *)
(* batch is in it: what flush-group.ts stores as active is a subset of what *)
(* it notifies about.                                                       *)
THEOREM AnnouncedOnce ==
    ASSUME NEW members \in SUBSET Nat, NEW flushed, NEW typeOf, NEW about
    PROVE  /\ Active(members, typeOf, about) \subseteq Notify(members, flushed, typeOf, about)
           /\ \A e, f \in Notify(members, flushed, typeOf, about) :
                about[e] = about[f] => e = f
  <1>1. /\ Active(members, typeOf, about) \subseteq Announced(members, flushed, typeOf, about)
        /\ Announced(members, flushed, typeOf, about) \subseteq Latest(members, about)
    BY DEF Active, Announced
  <1>2. \A e \in Active(members, typeOf, about) : ~Flap(e, members, flushed, typeOf, about)
    BY DEF Active, Flap
  <1>3. \A e, f \in Latest(members, about) : about[e] = about[f] => e = f
    <2> SUFFICES ASSUME NEW e \in Latest(members, about), NEW f \in Latest(members, about),
                        about[e] = about[f]
                 PROVE  e = f
      OBVIOUS
    <2>1. e \in Nat /\ f \in Nat /\ e <= f /\ f <= e
      BY DEF Latest
    <2> QED
      BY <2>1
  <1> QED
    BY <1>1, <1>2, <1>3 DEF Notify
=============================================================================
