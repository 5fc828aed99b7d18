------------------------- MODULE WorkflowEvents_proofs -------------------------
(***************************************************************************)
(* The safety properties of WorkflowEvents, for any number of              *)
(* organizations, workers, events, attempts, deliveries and crashes, and   *)
(* any lifetime of the resolver's cache.                                   *)
(***************************************************************************)
EXTENDS WorkflowEvents, TLAPS

(* What a run works on is an event, and what it acts for an organization, as  *)
(* a link that is active is to one.                                          *)
RunsWell ==
    /\ link.org = "nobody" => link.status = "inactive"
    /\ \A w \in Workers :
        /\ run[w].pc # "idle" => run[w].event \in Events
        /\ run[w].pc \in {"fill", "act"} => run[w].org \in Orgs

(* The time a cache entry has left is not more than what its organization's   *)
(* link has been inactive for leaves of the TTL; and whoever is about to fill *)
(* the cache took its time before the link it read was last active.          *)
EntryRecent ==
    /\ \A o \in Orgs : Active(o) => unlinked[o] = 0
    /\ cache.org # "nobody" => unlinked[cache.org] + cache.left <= TTL
    /\ \A w \in Workers : run[w].pc = "fill" => unlinked[run[w].org] <= run[w].age

IInv == TypeOK /\ RunsWell /\ EntryRecent /\ Owed /\ NewestShown

Entry == [state : {"none", "ready", "held", "dead"}, attempts : 0 .. MaxAttempts]
Doing == [pc : {"idle", "resolve", "fill", "act", "done"}, event : Events \cup {0},
          org : Orgs \cup {"nobody"}, age : 0 .. TTL, keyed : BOOLEAN]

(* The numbers the steps write are in their ranges.                          *)
LEMMA Numbers ==
    /\ 0 \in 0 .. MaxAttempts /\ 0 \in 0 .. TTL /\ TTL \in 0 .. TTL
    /\ \A n \in 0 .. MaxAttempts : n < MaxAttempts => n + 1 \in 0 .. MaxAttempts
    /\ \A n \in 0 .. TTL : /\ TTL - n \in 0 .. TTL
                           /\ n # 0 => n - 1 \in 0 .. TTL
                           /\ n # TTL => n + 1 \in 0 .. TTL
    /\ \A n \in 0 .. MaxDeliveries : n < MaxDeliveries => n + 1 \in 0 .. MaxDeliveries
    /\ \A n \in 0 .. MaxCrashes : n < MaxCrashes => n + 1 \in 0 .. MaxCrashes
  BY EventsAssumption

LEMMA InitIInv == Init => IInv
<1> SUFFICES ASSUME Init PROVE IInv
  OBVIOUS
<1> USE EventsAssumption, Numbers DEF Init
<1>1. TypeOK
  <2>1. job \in [Events -> Entry] /\ run \in [Workers -> Doing]
    BY DEF NoJob, Resting, Entry, Doing
  <2>2. /\ link \in [org : Orgs \cup {"nobody"}, status : Statuses]
        /\ cache \in [org : Orgs \cup {"nobody"}, left : 0 .. TTL]
    BY DEF Unlinked, NoEntry, Statuses
  <2>3. /\ task \in Tasks /\ at \in [Events -> Events] /\ row \in [Orgs -> Events \cup {0}]
        /\ owed \subseteq Events /\ written \in [Orgs -> SUBSET Events]
    OBVIOUS
  <2>4. delivered \in 0 .. MaxDeliveries /\ crashes \in 0 .. MaxCrashes
    OBVIOUS
  <2>5. unlinked \in [Orgs -> 0 .. TTL]
    OBVIOUS
  <2> QED
    BY <2>1, <2>2, <2>3, <2>4, <2>5 DEF TypeOK, Entry, Doing
<1>2. RunsWell
  BY DEF RunsWell, Resting, Unlinked
<1>3. EntryRecent
  BY DEF EntryRecent, Active, Unlinked, NoEntry, Resting
<1>4. Owed /\ NewestShown
  BY DEF Owed, NewestShown
<1> QED
  BY <1>1, <1>2, <1>3, <1>4 DEF IInv

-----------------------------------------------------------------------------
(* Every way to end a run keeps the types of the queue and of the runs.       *)
LEMMA EndsTypes ==
    ASSUME TypeOK, RunsWell, NEW w \in Workers, run[w].pc # "idle",
           NEW state \in {"none", "ready", "dead"}, Ends(w, state)
    PROVE  job' \in [Events -> Entry] /\ run' \in [Workers -> Doing] /\ owed' \subseteq Events
<1>1. run' \in [Workers -> Doing]
  BY Numbers DEF TypeOK, Ends, Resting, Doing
<1>2. run[w].event \in Events /\ job[run[w].event] \in Entry
  BY DEF TypeOK, RunsWell, Entry
<1>3. CASE run[w].keyed
  <2> DEFINE left == IF state = "none" THEN NoJob
                     ELSE [state |-> state, attempts |-> job[run[w].event].attempts]
  <2>1. left \in Entry
    BY <1>2, Numbers DEF NoJob, Entry
  <2>2. job' = [job EXCEPT ![run[w].event] = left]
    BY <1>3 DEF Ends, Settled
  <2>3. owed' \subseteq owed
    BY <1>3 DEF Ends, Settled
  <2>4. job \in [Events -> Entry] /\ owed \subseteq Events
    BY DEF TypeOK, Entry
  <2> HIDE DEF left
  <2> QED
    BY <1>1, <1>2, <2>1, <2>2, <2>3, <2>4
<1>4. CASE ~run[w].keyed
  <2>1. job' = job /\ owed' = owed
    BY <1>4 DEF Ends, Settled, queue
  <2> QED
    BY <1>1, <2>1 DEF TypeOK, Entry
<1> QED
  BY <1>3, <1>4

LEMMA TurnTypes ==
    ASSUME TypeOK, NEW w \in Workers, NEW pc \in {"fill", "act", "done"},
           NEW org \in Orgs \cup {"nobody"}, Turn(w, pc, org)
    PROVE  run' \in [Workers -> Doing]
<1>1. run[w] \in Doing
  BY DEF TypeOK, Doing
<1> QED
  BY <1>1, Numbers DEF TypeOK, Turn, Doing

LEMMA LinksTypes ==
    ASSUME TypeOK, NEW l \in [org : Orgs \cup {"nobody"}, status : Statuses], Links(l)
    PROVE  /\ link' \in [org : Orgs \cup {"nobody"}, status : Statuses]
           /\ unlinked' \in [Orgs -> 0 .. TTL]
  BY Numbers DEF TypeOK, Links

(* Each step keeps the types.                                                *)
LEMMA StepTypes == TypeOK /\ RunsWell /\ [Next]_vars => TypeOK'
<1> SUFFICES ASSUME TypeOK, RunsWell, [Next]_vars PROVE TypeOK'
  OBVIOUS
<1> USE DEF given, installation, queue, status
<1>1. ASSUME NEW o \in Orgs, Claim(o) PROVE TypeOK'
  <2>1. [org |-> o, status |-> "active"] \in [org : Orgs \cup {"nobody"}, status : Statuses]
    BY DEF Statuses
  <2> QED
    BY <1>1, <2>1, LinksTypes DEF TypeOK, Claim
<1>2. ASSUME NEW o \in Orgs, DeleteOrganization(o) PROVE TypeOK'
  <2>1. Unlinked \in [org : Orgs \cup {"nobody"}, status : Statuses]
    BY DEF Unlinked, Statuses
  <2>2. /\ link' \in [org : Orgs \cup {"nobody"}, status : Statuses]
        /\ unlinked' \in [Orgs -> 0 .. TTL]
    BY <1>2, <2>1, LinksTypes DEF TypeOK, DeleteOrganization
  <2> QED
    BY <1>2, <2>2 DEF TypeOK, DeleteOrganization
<1>3. ASSUME NEW s \in Statuses, InstallationEvent(s) PROVE TypeOK'
  <2>1. [org |-> link.org, status |-> s] \in [org : Orgs \cup {"nobody"}, status : Statuses]
    BY DEF TypeOK
  <2> QED
    BY <1>3, <2>1, LinksTypes DEF TypeOK, InstallationEvent
<1>4. ASSUME NEW e \in Events, Accept(e) PROVE TypeOK'
  <2>1. job' \in [Events -> Entry] /\ owed' \subseteq Events
    BY <1>4, Numbers DEF TypeOK, Accept, Enqueued, Entry
  <2>2. run' \in [Workers -> Doing]
    BY <1>4, Numbers DEF TypeOK, Accept, Doing
  <2>3. delivered' \in 0 .. MaxDeliveries
    BY <1>4, Numbers DEF TypeOK, Accept
  <2> QED
    BY <1>4, <2>1, <2>2, <2>3 DEF TypeOK, Accept, Entry, Doing
<1>5. ASSUME NEW w \in Workers, NEW e \in Events, Take(w, e) PROVE TypeOK'
  <2>1. job[e] \in Entry /\ job[e].attempts < MaxAttempts
    BY <1>5 DEF TypeOK, Take, Due, Entry
  <2>2. job[e].attempts + 1 \in 0 .. MaxAttempts
    BY <2>1, Numbers DEF Entry
  <2>3. job' \in [Events -> Entry]
    BY <1>5, <2>2 DEF TypeOK, Take, Entry
  <2>4. run' \in [Workers -> Doing]
    BY <1>5, Numbers DEF TypeOK, Take, Doing
  <2> QED
    BY <1>5, <2>3, <2>4 DEF TypeOK, Take, Entry, Doing
<1>6. ASSUME NEW w \in Workers, Resolve(w) PROVE TypeOK'
  <2>1. link.org \in Orgs \cup {"nobody"}
    BY DEF TypeOK
  <2>2. run' \in [Workers -> Doing]
    BY <1>6, <2>1, TurnTypes DEF Resolve
  <2> QED
    BY <1>6, <2>2 DEF TypeOK, Resolve, Doing
<1>7. ASSUME NEW w \in Workers, Drop(w) \/ Refuse(w) PROVE TypeOK'
  <2>1. run' \in [Workers -> Doing]
    BY <1>7, TurnTypes DEF Drop, Refuse
  <2> QED
    BY <1>7, <2>1 DEF TypeOK, Drop, Refuse, Doing
<1>16. ASSUME NEW w \in Workers, Fill(w) PROVE TypeOK'
  <2>1. run[w].org \in Orgs \cup {"nobody"} /\ run[w].age \in 0 .. TTL
    BY DEF TypeOK
  <2>2. cache' \in [org : Orgs \cup {"nobody"}, left : 0 .. TTL]
    BY <1>16, <2>1, Numbers DEF Fill, Left
  <2>3. run' \in [Workers -> Doing]
    BY <1>16, <2>1, TurnTypes DEF Fill
  <2> QED
    BY <1>16, <2>2, <2>3 DEF TypeOK, Fill, Doing
<1>8. ASSUME NEW w \in Workers, Upsert(w) PROVE TypeOK'
  <2>1. run' \in [Workers -> Doing]
    BY <1>8, TurnTypes DEF Upsert
  <2>2. run[w].event \in Events
    BY <1>8 DEF RunsWell, Upsert
  <2>3. row' \in [Orgs -> Events \cup {0}] /\ written' \in [Orgs -> SUBSET Events]
    BY <1>8, <2>2 DEF TypeOK, Upsert
  <2> QED
    BY <1>8, <2>1, <2>3 DEF TypeOK, Upsert, Doing
<1>9. ASSUME NEW w \in Workers, Replay(w) PROVE TypeOK'
  <2>1. run' \in [Workers -> Doing]
    BY <1>9, TurnTypes DEF Replay
  <2> QED
    BY <1>9, <2>1 DEF TypeOK, Replay, Doing
<1>10. ASSUME NEW w \in Workers, Finish(w) PROVE TypeOK'
  <2>1. job' \in [Events -> Entry] /\ run' \in [Workers -> Doing] /\ owed' \subseteq Events
    BY <1>10, EndsTypes DEF Finish
  <2> QED
    BY <1>10, <2>1 DEF TypeOK, Finish, Entry, Doing
<1>11. ASSUME NEW w \in Workers, Fail(w) PROVE TypeOK'
  <2>1. AfterFailure(run[w].event) \in {"none", "ready", "dead"}
    BY DEF AfterFailure
  <2>2. job' \in [Events -> Entry] /\ run' \in [Workers -> Doing] /\ owed' \subseteq Events
    BY <1>11, <2>1, EndsTypes DEF Fail
  <2> QED
    BY <1>11, <2>2 DEF TypeOK, Fail, Entry, Doing
<1>12. ASSUME Crash PROVE TypeOK'
  <2>1. run' \in [Workers -> Doing]
    BY <1>12, Numbers DEF Crash, Resting, Doing
  <2>2. cache' \in [org : Orgs \cup {"nobody"}, left : 0 .. TTL]
    BY <1>12, Numbers DEF Crash, NoEntry
  <2>3. crashes' \in 0 .. MaxCrashes
    BY <1>12, Numbers DEF TypeOK, Crash
  <2> QED
    BY <1>12, <2>1, <2>2, <2>3 DEF TypeOK, Crash, Doing
<1>13. ASSUME NEW e \in Events, Expire(e) PROVE TypeOK'
  <2>1. job[e] \in Entry /\ AfterFailure(e) \in {"ready", "dead"}
    BY DEF TypeOK, AfterFailure, Entry
  <2>2. job' \in [Events -> Entry] /\ owed' \subseteq Events
    BY <1>13, <2>1 DEF TypeOK, Expire, Entry
  <2> QED
    BY <1>13, <2>2 DEF TypeOK, Expire, Entry
<1>14. ASSUME Tick PROVE TypeOK'
  <2>1. cache' \in [org : Orgs \cup {"nobody"}, left : 0 .. TTL]
    BY <1>14, Numbers DEF TypeOK, Tick
  <2>2. run' \in [Workers -> Doing]
    BY <1>14, Numbers, EventsAssumption DEF TypeOK, Tick, Doing
  <2>3. unlinked' \in [Orgs -> 0 .. TTL]
    BY <1>14, Numbers DEF TypeOK, Tick
  <2> QED
    BY <1>14, <2>1, <2>2, <2>3 DEF TypeOK, Tick, Doing
<1>15. CASE UNCHANGED vars
  BY <1>15 DEF TypeOK, vars
<1> QED
  BY <1>1, <1>2, <1>3, <1>4, <1>5, <1>6, <1>7, <1>8, <1>9, <1>10, <1>11, <1>12, <1>13,
     <1>14, <1>15, <1>16 DEF Next, Advance

-----------------------------------------------------------------------------
(* A run that is not idle keeps its event, and acts for the organization its  *)
(* cache or the link named.                                                  *)
LEMMA StepRuns == TypeOK /\ RunsWell /\ [Next]_vars => RunsWell'
<1> SUFFICES ASSUME TypeOK, RunsWell, [Next]_vars PROVE RunsWell'
  OBVIOUS
<1> USE DEF given, installation, queue, status
<1>1. ASSUME UNCHANGED <<run, link>> PROVE RunsWell'
  BY <1>1 DEF RunsWell
<1>2. ASSUME NEW w \in Workers, run' = [run EXCEPT ![w] = Resting], link' = link PROVE RunsWell'
  BY <1>2 DEF RunsWell, TypeOK, Resting
<1>9. ASSUME NEW o \in Orgs, Claim(o) \/ DeleteOrganization(o) PROVE RunsWell'
  BY <1>9, EventsAssumption DEF RunsWell, TypeOK, Claim, DeleteOrganization, Links, Unlinked
<1>10. ASSUME NEW s \in Statuses, InstallationEvent(s) PROVE RunsWell'
  BY <1>10 DEF RunsWell, TypeOK, InstallationEvent, Links
<1>3. ASSUME NEW e \in Events, Accept(e) PROVE RunsWell'
  BY <1>3 DEF RunsWell, TypeOK, Accept
<1>4. ASSUME NEW w \in Workers, NEW e \in Events, Take(w, e) PROVE RunsWell'
  BY <1>4 DEF RunsWell, TypeOK, Take, Hit
<1>5. ASSUME NEW w \in Workers, Resolve(w) PROVE RunsWell'
  <2>1. link.org \in Orgs
    BY <1>5 DEF Resolve, RunsWell, TypeOK
  <2> QED
    BY <1>5, <2>1 DEF RunsWell, TypeOK, Resolve, Turn
<1>11. ASSUME NEW w \in Workers, Fill(w) PROVE RunsWell'
  BY <1>11 DEF RunsWell, TypeOK, Fill, Turn
<1>6. ASSUME NEW w \in Workers, Drop(w) \/ Upsert(w) \/ Refuse(w) \/ Replay(w) PROVE RunsWell'
  <2>1. Turn(w, "done", "nobody") /\ link' = link
    BY <1>6 DEF Drop, Upsert, Refuse, Replay
  <2>2. run[w].pc # "idle"
    BY <1>6 DEF Drop, Upsert, Refuse, Replay
  <2> QED
    BY <2>1, <2>2 DEF RunsWell, TypeOK, Turn
<1>7. ASSUME Crash PROVE RunsWell'
  BY <1>7 DEF RunsWell, Crash, Resting
<1>8. ASSUME Tick PROVE RunsWell'
  BY <1>8 DEF RunsWell, TypeOK, Tick
<1> QED
  BY <1>1, <1>2, <1>3, <1>4, <1>5, <1>6, <1>7, <1>8, <1>9, <1>10, <1>11
     DEF Next, Advance, Finish, Fail, Ends, Expire, vars

(* Time, the link's changes and the way of a read into the cache leave no     *)
(* entry more than its time.                                                 *)
LEMMA StepEntry == TypeOK /\ RunsWell /\ EntryRecent /\ [Next]_vars => EntryRecent'
<1> SUFFICES ASSUME TypeOK, RunsWell, EntryRecent, [Next]_vars PROVE EntryRecent'
  OBVIOUS
<1> USE DEF given, installation, queue, status
<1>0. ASSUME NEW w \in Workers, run[w].pc = "fill"
      PROVE  run[w].org \in Orgs /\ unlinked[run[w].org] \in 0 .. TTL /\ run[w].age \in 0 .. TTL
  BY <1>0 DEF RunsWell, TypeOK
<1>1. ASSUME UNCHANGED <<link, unlinked, cache>>,
             \A w \in Workers : run'[w].pc = "fill" =>
               run[w].pc = "fill" /\ run'[w].org = run[w].org /\ run'[w].age = run[w].age
      PROVE  EntryRecent'
  BY <1>1 DEF EntryRecent, Active
<1>2. ASSUME NEW l, Links(l), UNCHANGED <<cache, run>> PROVE EntryRecent'
  <2>1. \A o \in Orgs : unlinked'[o] \in {0, unlinked[o]}
    BY <1>2 DEF Links
  <2>2. cache.org # "nobody" => cache.org \in Orgs /\ unlinked[cache.org] \in 0 .. TTL
    BY DEF TypeOK
  <2>3. cache.left \in 0 .. TTL
    BY DEF TypeOK
  <2>4. \A o \in Orgs : Active(o)' => unlinked'[o] = 0
    BY <1>2 DEF Links, Active
  <2>5. cache.org # "nobody" => unlinked'[cache.org] + cache.left <= TTL
    BY <2>1, <2>2, <2>3, EventsAssumption DEF EntryRecent
  <2>6. ASSUME NEW w \in Workers, run[w].pc = "fill" PROVE unlinked'[run[w].org] <= run[w].age
    BY <1>0, <2>1, <2>6, EventsAssumption DEF EntryRecent
  <2> QED
    BY <1>2, <2>4, <2>5, <2>6 DEF EntryRecent
<1>3. ASSUME NEW w \in Workers, Resolve(w) PROVE EntryRecent'
  <2>1. link.org \in Orgs /\ Active(link.org)
    BY <1>3 DEF Resolve, RunsWell, TypeOK, Active
  <2>2. unlinked[link.org] = 0 /\ run[w].age \in 0 .. TTL
    BY <2>1 DEF EntryRecent, TypeOK
  <2>3. run'[w].org = link.org /\ run'[w].age = run[w].age
    BY <1>3 DEF Resolve, Turn, TypeOK
  <2>4. \A v \in Workers : v # w => run'[v] = run[v]
    BY <1>3 DEF Resolve, Turn, TypeOK
  <2>5. \A v \in Workers : run'[v].pc = "fill" => unlinked[run'[v].org] <= run'[v].age
    BY <2>2, <2>3, <2>4, EventsAssumption DEF EntryRecent
  <2> QED
    BY <1>3, <2>5 DEF Resolve, EntryRecent, Active
<1>4. ASSUME NEW w \in Workers, Fill(w) PROVE EntryRecent'
  <2>1. cache' = [org |-> run[w].org, left |-> TTL - run[w].age]
    BY <1>4 DEF Fill, Left
  <2>2. unlinked[run[w].org] <= run[w].age
    BY <1>4 DEF Fill, EntryRecent
  <2>3. unlinked[cache'.org] + cache'.left <= TTL
    BY <1>0, <1>4, <2>1, <2>2, EventsAssumption DEF Fill
  <2>4. \A v \in Workers : run'[v].pc = "fill" => run'[v] = run[v]
    BY <1>4 DEF Fill, Turn, TypeOK
  <2> QED
    BY <1>4, <2>3, <2>4 DEF Fill, EntryRecent, Active
<1>5. ASSUME Crash PROVE EntryRecent'
  BY <1>5 DEF Crash, EntryRecent, NoEntry, Resting, Active
<1>6. ASSUME Tick PROVE EntryRecent'
  <2>1. \A o \in Orgs : Active(o)' => unlinked'[o] = 0
    BY <1>6 DEF Tick, EntryRecent, Active
  <2>2. \A o \in Orgs :
          unlinked'[o] = IF Active(o) \/ unlinked[o] = TTL THEN unlinked[o] ELSE unlinked[o] + 1
    BY <1>6 DEF Tick
  <2>3. ASSUME cache.org # "nobody" PROVE unlinked'[cache.org] + cache'.left <= TTL
    <3>1. cache.org \in Orgs /\ unlinked[cache.org] \in 0 .. TTL /\ cache.left \in 0 .. TTL
      BY <2>3 DEF TypeOK
    <3>2. cache'.left = IF cache.left = 0 THEN 0 ELSE cache.left - 1
      BY <1>6 DEF Tick
    <3>3. unlinked[cache.org] + cache.left <= TTL
      BY <2>3 DEF EntryRecent
    <3> QED
      BY <2>2, <3>1, <3>2, <3>3, EventsAssumption
  <2>4. cache'.org = cache.org
    BY <1>6 DEF Tick
  <2>5. ASSUME NEW w \in Workers, run'[w].pc = "fill" PROVE unlinked'[run'[w].org] <= run'[w].age
    <3>1. /\ run[w].pc = "fill" /\ run'[w].org = run[w].org
          /\ run'[w].age = IF run[w].age < TTL THEN run[w].age + 1 ELSE run[w].age
      BY <1>6, <2>5 DEF Tick, TypeOK
    <3>2. unlinked[run[w].org] <= run[w].age
      BY <3>1 DEF EntryRecent
    <3> QED
      BY <1>0, <2>2, <3>1, <3>2, EventsAssumption
  <2> QED
    BY <2>1, <2>3, <2>4, <2>5 DEF EntryRecent
<1>7. ASSUME NEW o \in Orgs, Claim(o) \/ DeleteOrganization(o) PROVE EntryRecent'
  BY <1>2, <1>7 DEF Claim, DeleteOrganization
<1>8. ASSUME NEW s \in Statuses, InstallationEvent(s) PROVE EntryRecent'
  BY <1>2, <1>8 DEF InstallationEvent
<1>9. ASSUME NEW e \in Events, Accept(e) \/ Expire(e) PROVE EntryRecent'
  <2>1. \A w \in Workers : /\ run'[w].pc = run[w].pc /\ run'[w].org = run[w].org
                           /\ run'[w].age = run[w].age
    BY <1>9 DEF Accept, Expire
  <2> QED
    BY <1>1, <1>9, <2>1 DEF Accept, Expire
<1>10. ASSUME NEW w \in Workers, NEW e \in Events, Take(w, e) PROVE EntryRecent'
  <2>1. \A v \in Workers : run'[v].pc = "fill" => run'[v] = run[v]
    BY <1>10 DEF Take, TypeOK
  <2> QED
    BY <1>1, <1>10, <2>1 DEF Take
<1>11. ASSUME NEW w \in Workers,
              \/ Drop(w) \/ Upsert(w) \/ Refuse(w) \/ Replay(w)
              \/ Finish(w) \/ Fail(w)
       PROVE  EntryRecent'
  <2>1. \A v \in Workers : run'[v].pc = "fill" => run'[v] = run[v]
    BY <1>11 DEF Drop, Upsert, Refuse, Replay, Finish, Fail, Ends, Turn, Resting, TypeOK
  <2> QED
    BY <1>1, <1>11, <2>1 DEF Drop, Upsert, Refuse, Replay, Finish, Fail
<1>12. CASE UNCHANGED vars
  BY <1>1, <1>12 DEF vars
<1> QED
  BY <1>3, <1>4, <1>5, <1>6, <1>7, <1>8, <1>9, <1>10, <1>11, <1>12 DEF Next, Advance

(* What a run leaves of its job is waiting with an attempt left, or settled   *)
(* together with the debt.                                                   *)
LEMMA EndsOwed ==
    ASSUME TypeOK, RunsWell, Owed, NEW w \in Workers, run[w].pc # "idle",
           NEW state \in {"none", "ready", "dead"}, Ends(w, state),
           state = "ready" => job[run[w].event].attempts < MaxAttempts
    PROVE  Owed'
<1>1. run[w].event \in Events /\ job \in [Events -> Entry]
  BY DEF TypeOK, RunsWell, Entry
<1>2. CASE ~run[w].keyed
  BY <1>2 DEF Ends, Settled, queue, Owed, Due
<1>3. CASE run[w].keyed /\ state = "ready"
  <2>1. /\ job' = [job EXCEPT ![run[w].event] =
                    [state |-> "ready", attempts |-> job[run[w].event].attempts]]
        /\ owed' = owed
    BY <1>3 DEF Ends, Settled
  <2> QED
    BY <1>1, <1>3, <2>1 DEF Owed, Due, TypeOK
<1>4. CASE run[w].keyed /\ state # "ready"
  <2>1. owed' = owed \ {run[w].event}
    BY <1>4 DEF Ends, Settled
  <2>2. \A e \in Events : e # run[w].event => job'[e] = job[e]
    BY <1>1, <1>4 DEF Ends, Settled
  <2> QED
    BY <2>1, <2>2 DEF Owed, Due, TypeOK
<1> QED
  BY <1>2, <1>3, <1>4

(* An attempt that was not the last one leaves another.                      *)
LEMMA AttemptLeft ==
    ASSUME TypeOK, NEW e \in Events, AfterFailure(e) = "ready"
    PROVE  job[e].attempts < MaxAttempts
<1>1. job[e] \in Entry
  BY DEF TypeOK, Entry
<1>2. job[e].attempts \in 0 .. MaxAttempts /\ job[e].attempts # MaxAttempts
  BY <1>1 DEF AfterFailure, Entry
<1> QED
  BY <1>2, EventsAssumption

LEMMA StepOwed == TypeOK /\ RunsWell /\ Owed /\ [Next]_vars => Owed'
<1> SUFFICES ASSUME TypeOK, RunsWell, Owed, [Next]_vars PROVE Owed'
  OBVIOUS
<1> USE DEF given, installation, queue, status
<1>1. ASSUME UNCHANGED queue PROVE Owed'
  BY <1>1 DEF Owed, Due
<1>2. ASSUME NEW e \in Events, Accept(e) PROVE Owed'
  BY <1>2, EventsAssumption DEF Owed, Due, Accept, Enqueued, TypeOK
<1>3. ASSUME NEW w \in Workers, NEW e \in Events, Take(w, e) PROVE Owed'
  BY <1>3 DEF Owed, Due, Take, TypeOK
<1>4. ASSUME NEW w \in Workers, Finish(w) PROVE Owed'
  BY <1>4, EndsOwed DEF Finish
<1>5. ASSUME NEW w \in Workers, Fail(w) PROVE Owed'
  <2>1. run[w].event \in Events
    BY <1>5 DEF RunsWell, Fail
  <2>2. AfterFailure(run[w].event) \in {"none", "ready", "dead"}
    BY DEF AfterFailure
  <2> QED
    BY <1>5, <2>1, <2>2, AttemptLeft, EndsOwed DEF Fail
<1>6. ASSUME NEW e \in Events, Expire(e) PROVE Owed'
  BY <1>6, AttemptLeft DEF Owed, Due, Expire, TypeOK, AfterFailure
<1>7. ASSUME NEW w \in Workers,
             \/ Resolve(w) \/ Drop(w) \/ Fill(w)
             \/ Upsert(w) \/ Refuse(w) \/ Replay(w)
      PROVE  Owed'
  BY <1>1, <1>7 DEF Resolve, Drop, Fill, Upsert, Refuse, Replay
<1>8. ASSUME NEW o \in Orgs, Claim(o) \/ DeleteOrganization(o) PROVE Owed'
  BY <1>1, <1>8 DEF Claim, DeleteOrganization
<1>9. ASSUME NEW s \in Statuses, InstallationEvent(s) PROVE Owed'
  BY <1>1, <1>9 DEF InstallationEvent
<1>10. CASE Crash \/ Tick \/ UNCHANGED vars
  BY <1>1, <1>10 DEF Crash, Tick, vars
<1> QED
  BY <1>2, <1>3, <1>4, <1>5, <1>6, <1>7, <1>8, <1>9, <1>10 DEF Next, Advance

LEMMA StepNewest == TypeOK /\ RunsWell /\ NewestShown /\ [Next]_vars => NewestShown'
<1> SUFFICES ASSUME TypeOK, RunsWell, NewestShown, [Next]_vars PROVE NewestShown'
  OBVIOUS
<1> USE DEF given, installation, queue, status
<1>1. ASSUME UNCHANGED <<at, row, written>> PROVE NewestShown'
  BY <1>1 DEF NewestShown
<1>2. ASSUME NEW o \in Orgs, DeleteOrganization(o) PROVE NewestShown'
  BY <1>2 DEF NewestShown, DeleteOrganization, TypeOK
<1>3. ASSUME NEW w \in Workers, Upsert(w) PROVE NewestShown'
  <2> DEFINE o == run[w].org
             n == run[w].event
  <2>1. o \in Orgs /\ n \in Events /\ n # 0
    BY <1>3, EventsAssumption DEF RunsWell, Upsert, Events
  <2>2. \A e \in Events : at[e] \in Int
    BY EventsAssumption DEF TypeOK, Events
  <2>3. \A p \in Orgs : p # o => row'[p] = row[p] /\ written'[p] = written[p]
    BY <1>3, <2>1 DEF Upsert, TypeOK
  <2>4. /\ row'[o] = IF Shows(o, n) THEN n ELSE row[o]
        /\ written'[o] = written[o] \cup {n}
        /\ at' = at
    BY <1>3, <2>1 DEF Upsert, TypeOK
  <2>5. row[o] \in Events \cup {0} /\ written[o] \subseteq Events
    BY <2>1 DEF TypeOK
  <2>6. \A e \in written[o] : row[o] # 0 /\ at[e] <= at[row[o]]
    BY <2>1 DEF NewestShown
  <2> HIDE DEF o, n
  <2>7. CASE Shows(o, n)
    <3>1. \A e \in written[o] : at[e] <= at[n]
      BY <2>1, <2>2, <2>5, <2>6, <2>7 DEF Shows
    <3>2. \A e \in written'[o] : row'[o] # 0 /\ at[e] <= at[row'[o]]
      BY <2>1, <2>2, <2>4, <2>7, <3>1
    <3> QED
      BY <2>3, <2>4, <3>2 DEF NewestShown
  <2>8. CASE ~Shows(o, n)
    <3>1. row[o] \in Events /\ row[o] # 0 /\ at[n] <= at[row[o]]
      BY <2>1, <2>2, <2>5, <2>8 DEF Shows
    <3>2. \A e \in written'[o] : row'[o] # 0 /\ at[e] <= at[row'[o]]
      BY <2>4, <2>6, <2>8, <3>1
    <3> QED
      BY <2>3, <2>4, <3>2 DEF NewestShown
  <2> QED
    BY <2>7, <2>8
<1>4. ASSUME NEW o \in Orgs, Claim(o) PROVE NewestShown'
  BY <1>1, <1>4 DEF Claim
<1>5. ASSUME NEW s \in Statuses, InstallationEvent(s) PROVE NewestShown'
  BY <1>1, <1>5 DEF InstallationEvent
<1>6. ASSUME NEW e \in Events, Accept(e) \/ Expire(e) \/ (\E w \in Workers : Take(w, e))
      PROVE  NewestShown'
  BY <1>1, <1>6 DEF Accept, Expire, Take
<1>7. ASSUME NEW w \in Workers,
             \/ Resolve(w) \/ Drop(w) \/ Fill(w)
             \/ Refuse(w) \/ Replay(w) \/ Finish(w) \/ Fail(w)
      PROVE  NewestShown'
  BY <1>1, <1>7 DEF Resolve, Drop, Fill, Refuse, Replay, Finish, Fail
<1>8. CASE Crash \/ Tick \/ UNCHANGED vars
  BY <1>1, <1>8 DEF Crash, Tick, vars
<1> QED
  BY <1>2, <1>3, <1>4, <1>5, <1>6, <1>7, <1>8 DEF Next, Advance

LEMMA Invariance == Spec => []IInv
<1>1. IInv /\ [Next]_vars => IInv'
  BY StepTypes, StepRuns, StepEntry, StepOwed, StepNewest DEF IInv
<1> QED
  BY <1>1, InitIInv, PTL DEF Spec

-----------------------------------------------------------------------------
(* Every variable of the event pipeline keeps its range.                     *)
THEOREM EventsTypeCorrect == Spec => []TypeOK
  BY Invariance, PTL DEF IInv

(* No redelivery, failure, crash or lost key makes the queue forget an        *)
(* acknowledged webhook before its attempts are spent.                       *)
THEOREM WebhooksOwed == Spec => []Owed
  BY Invariance, PTL DEF IInv

(* In whatever order and however often events are applied, the row shows one  *)
(* that is not older than any of them.                                       *)
THEOREM NewestWins == Spec => []NewestShown
  BY Invariance, PTL DEF IInv

(* Nothing starts on the cache for an organization whose link ended a TTL ago *)
(* or longer, however long the read that filled it took, and whatever became  *)
(* of the link or of the entry meanwhile.                                    *)
THEOREM TenantsRecent == Spec => TenantRecent
<1>1. IInv /\ [Next]_vars =>
        [\A w \in Workers :
            run[w].pc = "idle" /\ run'[w].pc = "act" => unlinked[run'[w].org] < TTL]_vars
  <2> SUFFICES ASSUME IInv, [Next]_vars, NEW w \in Workers,
                      run[w].pc = "idle", run'[w].pc = "act"
               PROVE  unlinked[run'[w].org] < TTL
    OBVIOUS
  <2>1. PICK e \in Events : Take(w, e)
    <3>1. ASSUME NEW v \in Workers, Advance(v) PROVE FALSE
      BY <3>1 DEF Advance, Resolve, Drop, Fill, Upsert, Refuse, Replay, Finish, Fail, Ends,
         Turn, Resting, IInv, TypeOK
    <3>2. ASSUME NEW v \in Workers, NEW e \in Events, Take(v, e) PROVE Take(w, e)
      BY <3>2 DEF Take, IInv, TypeOK
    <3>3. ASSUME NEW e \in Events, Accept(e) \/ Expire(e) PROVE FALSE
      BY <3>3 DEF Accept, Expire, IInv, TypeOK
    <3>4. ~Crash /\ ~Tick /\ ~UNCHANGED vars
      BY DEF Crash, Tick, Resting, vars, IInv, TypeOK
    <3>5. ASSUME NEW o \in Orgs, Claim(o) \/ DeleteOrganization(o) PROVE FALSE
      BY <3>5 DEF Claim, DeleteOrganization
    <3>6. ASSUME NEW s \in Statuses, InstallationEvent(s) PROVE FALSE
      BY <3>6 DEF InstallationEvent
    <3> QED
      BY <3>1, <3>2, <3>3, <3>4, <3>5, <3>6 DEF Next
  <2>2. Hit /\ run'[w].org = cache.org
    BY <2>1 DEF Take, IInv, TypeOK
  <2>3. cache.org \in Orgs /\ cache.left \in 0 .. TTL /\ cache.left > 0
        /\ unlinked[cache.org] \in 0 .. TTL
    BY <2>2 DEF Hit, IInv, TypeOK
  <2>4. unlinked[cache.org] + cache.left <= TTL
    BY <2>2 DEF Hit, IInv, EntryRecent
  <2> QED
    BY <2>2, <2>3, <2>4, EventsAssumption
<1> QED
  BY <1>1, Invariance, PTL DEF Spec, TenantRecent
=================================================================================
