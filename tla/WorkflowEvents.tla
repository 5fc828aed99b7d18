----------------------------- MODULE WorkflowEvents -----------------------------
(***************************************************************************)
(* What GitHub reports of one workflow run, from the webhook through the   *)
(* worker's two jobs to the row that shows the run's status:               *)
(* packages/app/src/server/github-events.                                  *)
(*                                                                         *)
(* Events arrive in any order and more than once.  A job finds out which    *)
(* organization the GitHub App's installation is linked to from a cache of  *)
(* its process, while the installation is suspended, resumed, uninstalled   *)
(* or linked again, and organizations are deleted.                         *)
(*                                                                         *)
(* The two jobs of an event meet in that cache only, which every job fills *)
(* alike: a behaviour follows the jobs of one task, either of them.        *)
(***************************************************************************)
EXTENDS Integers

CONSTANTS
    Orgs,               \* organizations that may link the installation
    Workers,            \* jobs one process runs at once
    LastEvent,          \* the run's events are 1 .. LastEvent, as GitHub made them
    TTL,                \* GH_EVENTS_CONFIG.tenantCacheTTLms
    MaxAttempts,        \* GH_EVENTS_CONFIG.maxAttempts
    MaxDeliveries,      \* bound: deliveries of webhooks
    MaxCrashes          \* bound: crashes of the process

ASSUME EventsAssumption ==
    /\ LastEvent \in Nat /\ TTL \in Nat \ {0} /\ MaxAttempts \in Nat \ {0}
    /\ MaxDeliveries \in Nat /\ MaxCrashes \in Nat
    /\ "nobody" \notin Orgs

Events == 1 .. LastEvent
Tasks == {"collector", "status"}
Statuses == {"active", "inactive"}

VARIABLES
    task,       \* the task whose jobs are followed
    at,         \* the second GitHub stamped each event with
    link,       \* github_installation_organizations: the row of the installation
    cache,      \* the resolver's entry: an organization, and how long it is still good
    job,        \* the job of each event
    run,        \* what each worker is doing
    row,        \* the event each organization's workflow_runs row shows, or 0
    delivered,  \* how many webhooks were acknowledged
    crashes,
    unlinked,   \* history: how long each organization's link is not active, up to TTL
    owed,       \* history: events acknowledged and not served since
    written     \* history: the events whose upsert ran, for each organization

installation == <<link, unlinked>>
queue == <<job, owed>>
status == <<row, written>>
given == <<task, at>>
vars == <<given, installation, cache, queue, run, status, delivered, crashes>>

Unlinked == [org |-> "nobody", status |-> "inactive"]
NoEntry == [org |-> "nobody", left |-> 0]
NoJob == [state |-> "none", attempts |-> 0]
Resting == [pc |-> "idle", event |-> 0, org |-> "nobody", age |-> 0, keyed |-> FALSE]

Init ==
    /\ task \in Tasks
    /\ at \in {f \in [Events -> Events] : \A d, e \in Events : d < e => f[d] <= f[e]}
    /\ link = Unlinked
    /\ cache = NoEntry
    /\ job = [e \in Events |-> NoJob]
    /\ run = [w \in Workers |-> Resting]
    /\ row = [o \in Orgs |-> 0]
    /\ delivered = 0 /\ crashes = 0
    /\ unlinked = [o \in Orgs |-> TTL]
    /\ owed = {} /\ written = [o \in Orgs |-> {}]

-----------------------------------------------------------------------------
(* The installation.                                                         *)

Active(o) == link = [org |-> o, status |-> "active"]
Links(l) ==
    /\ link' = l
    /\ unlinked' = [o \in Orgs |-> IF l = [org |-> o, status |-> "active"] THEN 0 ELSE unlinked[o]]

(* handleInstallCallback: the insert fails where there is a row, the update   *)
(* where it is not o's.  Whether o's member may do this was asked before: o   *)
(* may be gone by now.                                                       *)
Claim(o) ==
    /\ link.org \in {"nobody", o} /\ ~Active(o)
    /\ Links([org |-> o, status |-> "active"])
    /\ UNCHANGED <<given, cache, queue, run, status, delivered, crashes>>

(* handleInstallationEvent: the last webhook to arrive decides.              *)
InstallationEvent(s) ==
    /\ link.org # "nobody" /\ link.status # s
    /\ Links([org |-> link.org, status |-> s])
    /\ UNCHANGED <<given, cache, queue, run, status, delivered, crashes>>

(* deletePostgresOrganizationData, as far as it concerns the run.            *)
DeleteOrganization(o) ==
    /\ link.org = o \/ row[o] # 0
    /\ Links(IF link.org = o THEN Unlinked ELSE link)
    /\ row' = [row EXCEPT ![o] = 0]
    /\ written' = [written EXCEPT ![o] = {}]
    /\ UNCHANGED <<given, cache, queue, run, delivered, crashes>>

-----------------------------------------------------------------------------
(* The webhook: both jobs in one transaction, or an error and no jobs.       *)

(* job_key_mode replace: a job of the key starts anew; one that is running   *)
(* loses its key, and its end no longer concerns the key's job.              *)
EnqueuedOnce(e) == IF job[e] = NoJob THEN [state |-> "ready", attempts |-> 0] ELSE job[e]
Enqueued(e) == [state |-> "ready", attempts |-> 0]
Accept(e) ==
    /\ delivered < MaxDeliveries
    /\ delivered' = delivered + 1
    /\ job' = [job EXCEPT ![e] = Enqueued(e)]
    /\ owed' = owed \cup {e}
    /\ run' = [w \in Workers |->
            IF run[w].pc # "idle" /\ run[w].event = e
            THEN [pc |-> run[w].pc, event |-> e,
                  org |-> run[w].org, age |-> run[w].age, keyed |-> FALSE]
            ELSE run[w]]
    /\ UNCHANGED <<given, installation, cache, status, crashes>>

-----------------------------------------------------------------------------
(* makeWebhookTask: resolve the organization, act, and be done.              *)

Turn(w, pc, org) ==
    run' = [run EXCEPT ![w] = [pc |-> pc, event |-> run[w].event, org |-> org,
                               age |-> IF pc = "fill" THEN run[w].age ELSE 0,
                               keyed |-> run[w].keyed]]

Due(e) == job[e].state = "ready" /\ job[e].attempts < MaxAttempts

(* Up to the first await: resolveOrganizationId takes the time and looks at   *)
(* its cache.                                                                *)
Hit == cache.org # "nobody" /\ cache.left > 0
Take(w, e) ==
    /\ run[w].pc = "idle" /\ Due(e)
    /\ job' = [job EXCEPT ![e] = [state |-> "held", attempts |-> job[e].attempts + 1]]
    /\ run' = [run EXCEPT ![w] =
            [pc |-> IF Hit THEN "act" ELSE "resolve", event |-> e,
             org |-> IF Hit THEN cache.org ELSE "nobody", age |-> 0, keyed |-> TRUE]]
    /\ UNCHANGED <<given, installation, cache, owed, status, delivered, crashes>>

(* Whoever ends a run that still has its key settles the key's job.          *)
Settled(w, state) ==
    IF run[w].keyed
    THEN /\ job' = [job EXCEPT ![run[w].event] =
                IF state = "none" THEN NoJob
                ELSE [state |-> state, attempts |-> job[run[w].event].attempts]]
         /\ owed' = IF state \in {"none", "dead"}
                    THEN owed \ {run[w].event} ELSE owed
    ELSE UNCHANGED queue
Ends(w, state) ==
    /\ Settled(w, state)
    /\ run' = [run EXCEPT ![w] = Resting]

(* A miss reads the row; an installation that is not active is stale, and    *)
(* its events are dropped for good.                                          *)
Resolve(w) ==
    /\ run[w].pc = "resolve" /\ link.status = "active"
    /\ Turn(w, "fill", link.org)
    /\ UNCHANGED <<given, installation, cache, queue, status, delivered, crashes>>
Drop(w) ==
    /\ run[w].pc = "resolve" /\ link.status # "active"
    /\ Turn(w, "done", "nobody")
    /\ UNCHANGED <<given, installation, cache, queue, status, delivered, crashes>>

(* The answer arrives, and what was read goes into the cache, over whatever   *)
(* others have put there: it is good for a TTL since the time was taken.     *)
LeftSinceAnswer(w) == TTL
Left(w) == TTL - run[w].age
Fill(w) ==
    /\ run[w].pc = "fill"
    /\ cache' = [org |-> run[w].org, left |-> Left(w)]
    /\ Turn(w, "act", run[w].org)
    /\ UNCHANGED <<given, installation, queue, status, delivered, crashes>>

(* upsertWorkflowRun: one statement, for which an event stamped before the   *)
(* one the row shows is too old.                                             *)
ShowsAny(o, e) == TRUE
Shows(o, e) == row[o] = 0 \/ at[e] >= at[row[o]]
Upsert(w) ==
    /\ run[w].pc = "act" /\ task = "status"
    /\ row' = IF Shows(run[w].org, run[w].event)
              THEN [row EXCEPT ![run[w].org] = run[w].event] ELSE row
    /\ written' = [written EXCEPT ![run[w].org] = written[run[w].org] \cup {run[w].event}]
    /\ Turn(w, "done", "nobody")
    /\ UNCHANGED <<given, installation, cache, queue, delivered, crashes>>

(* replayWebhookToCollector: accepted, or refused for good.                  *)
Replay(w) ==
    /\ run[w].pc = "act" /\ task = "collector"
    /\ Turn(w, "done", "nobody")
    /\ UNCHANGED <<given, installation, cache, queue, status, delivered, crashes>>

(* An event without a repository, or of an action unknown here, is done with. *)
Refuse(w) ==
    /\ run[w].pc = "act" /\ task = "status"
    /\ Turn(w, "done", "nobody")
    /\ UNCHANGED <<given, installation, cache, queue, status, delivered, crashes>>
Finish(w) ==
    /\ run[w].pc = "done"
    /\ Ends(w, "none")
    /\ UNCHANGED <<given, installation, cache, status, delivered, crashes>>

(* Any other error is thrown to the queue, whose attempts may be spent.      *)
AfterFailure(e) == IF job[e].attempts = MaxAttempts THEN "dead" ELSE "ready"
Fail(w) ==
    /\ run[w].pc \in {"resolve", "fill", "act"}
    /\ Ends(w, AfterFailure(run[w].event))
    /\ UNCHANGED <<given, installation, cache, status, delivered, crashes>>

-----------------------------------------------------------------------------
(* The process dies with its cache; its jobs stay locked until the queue     *)
(* takes the locks for expired.                                              *)

Crash ==
    /\ crashes < MaxCrashes
    /\ \E w \in Workers : run[w].pc # "idle"
    /\ crashes' = crashes + 1
    /\ run' = [w \in Workers |-> Resting]
    /\ cache' = NoEntry
    /\ UNCHANGED <<given, installation, queue, status, delivered>>

Holds(w, e) == run[w].pc # "idle" /\ run[w].keyed /\ run[w].event = e
Expire(e) ==
    /\ job[e].state = "held"
    /\ \A w \in Workers : ~Holds(w, e)
    /\ job' = [job EXCEPT ![e] = [state |-> AfterFailure(e), attempts |-> job[e].attempts]]
    /\ owed' = IF AfterFailure(e) = "dead" THEN owed \ {e} ELSE owed
    /\ UNCHANGED <<given, installation, cache, run, status, delivered, crashes>>

Tick ==
    /\ cache' = [org |-> cache.org, left |-> IF cache.left = 0 THEN 0 ELSE cache.left - 1]
    /\ run' = [w \in Workers |->
            IF run[w].pc \in {"resolve", "fill"} /\ run[w].age < TTL
            THEN [pc |-> run[w].pc, event |-> run[w].event,
                  org |-> run[w].org, age |-> run[w].age + 1, keyed |-> run[w].keyed]
            ELSE run[w]]
    /\ unlinked' = [o \in Orgs |->
            IF Active(o) \/ unlinked[o] = TTL THEN unlinked[o] ELSE unlinked[o] + 1]
    /\ UNCHANGED <<given, link, queue, status, delivered, crashes>>

-----------------------------------------------------------------------------
Advance(w) ==
    \/ Resolve(w) \/ Drop(w) \/ Fill(w)
    \/ Upsert(w) \/ Refuse(w) \/ Replay(w) \/ Finish(w) \/ Fail(w)
Next ==
    \/ \E o \in Orgs : Claim(o) \/ DeleteOrganization(o)
    \/ \E s \in Statuses : InstallationEvent(s)
    \/ \E e \in Events : Accept(e)
    \/ \E w \in Workers : Advance(w) \/ \E e \in Events : Take(w, e)
    \/ \E e \in Events : Expire(e)
    \/ Crash \/ Tick

Spec == Init /\ [][Next]_vars

-----------------------------------------------------------------------------
TypeOK ==
    /\ task \in Tasks /\ at \in [Events -> Events]
    /\ link \in [org : Orgs \cup {"nobody"}, status : Statuses]
    /\ cache \in [org : Orgs \cup {"nobody"}, left : 0 .. TTL]
    /\ job \in [Events -> [state : {"none", "ready", "held", "dead"}, attempts : 0 .. MaxAttempts]]
    /\ run \in [Workers ->
            [pc : {"idle", "resolve", "fill", "act", "done"}, event : Events \cup {0},
             org : Orgs \cup {"nobody"}, age : 0 .. TTL, keyed : BOOLEAN]]
    /\ row \in [Orgs -> Events \cup {0}]
    /\ delivered \in 0 .. MaxDeliveries
    /\ crashes \in 0 .. MaxCrashes
    /\ unlinked \in [Orgs -> 0 .. TTL]
    /\ owed \subseteq Events
    /\ written \in [Orgs -> SUBSET Events]

(* An acknowledged webhook is not forgotten: its job runs, or waits with an    *)
(* attempt left, until it was served or the attempts since the last delivery  *)
(* are spent, through redeliveries, failures and crashes.                    *)
Owed == \A e \in owed : job[e].state = "held" \/ Due(e)

(* Whatever order the events of a run come in, an organization's row shows    *)
(* one that is not older than any whose upsert was done for it.              *)
NewestShown ==
    \A o \in Orgs : \A e \in written[o] : row[o] # 0 /\ at[e] <= at[row[o]]

(* No job starts on the cached word for an organization whose link has not    *)
(* been active for as long as the cache may keep an entry, since it was       *)
(* suspended, uninstalled, deleted or linked to another one: however long the *)
(* read that filled the cache was under way, and whatever it overwrote.       *)
TenantRecent ==
    [][\A w \in Workers :
            run[w].pc = "idle" /\ run'[w].pc = "act" => unlinked[run'[w].org] < TTL]_vars
=================================================================================
