----------------------- MODULE OrganizationProvisioning -----------------------
(***************************************************************************)
(* The life of one organization between PostgreSQL, its two lifecycle jobs *)
(* and its ClickHouse access: packages/cloud/src/organization-provisioning.*)
(*                                                                         *)
(* The jobs share a serial queue.  A run holds the queue's lock, which      *)
(* expires four hours after it was taken, whether its process died or is    *)
(* still at work: a run may outlive its lock.                               *)
(***************************************************************************)
EXTENDS Integers

CONSTANTS
    Runs,               \* runs of the worker that can be under way at once
    MaxAttempts,        \* ORGANIZATION_MAX_ATTEMPTS
    MaxRestarts         \* bound: restarts asked for by a member

ASSUME ProvisioningAssumption ==
    /\ MaxAttempts \in Nat \ {0}
    /\ MaxRestarts \in Nat
    /\ "nobody" \notin Runs

Jobs == {"provision", "deprovision"}
NoJob == -1
Free == [by |-> "nobody", job |-> "provision"]
Resting == [pc |-> "idle", job |-> "provision"]

VARIABLES
    org,        \* the organization's row: none, pending, ready or gone
    account,    \* its ClickHouse user: absent, bare or granted
    policies,   \* whether its row policies exist
    attempts,   \* of each job row, or NoJob
    slow,       \* whether a job waits out the queue's default back-off
    lock,       \* of the queue: the run that holds it and its job
    run,        \* where each run is
    scan,       \* the scanner's reading of a pending organization
    draft,      \* an editor's copy of the metadata flag
    restarts,
    abandoned   \* history: a run ended badly after it had lost its lock

access == <<account, policies>>
queue == <<attempts, slow, lock>>
requests == <<scan, draft, restarts>>
vars == <<org, access, queue, run, requests, abandoned>>

Exists == org \in {"pending", "ready"}
Held(j) == lock.by # "nobody" /\ lock.job = j
Mine(r) == lock.by = r /\ run[r].pc # "idle"
Exhausted(j) == attempts[j] = MaxAttempts /\ ~Held(j)

(* An organization no job was ever stored for is what the scanner looks for. *)
Init ==
    /\ org \in {"none", "pending"}
    /\ account = "absent" /\ policies = FALSE
    /\ attempts = [j \in Jobs |-> NoJob]
    /\ slow = [j \in Jobs |-> FALSE]
    /\ lock = Free
    /\ run = [r \in Runs |-> Resting]
    /\ scan = "idle" /\ draft = "none" /\ restarts = 0
    /\ abandoned = FALSE

-----------------------------------------------------------------------------
(* The lifecycle adapter: one transaction for the row and its job.           *)

(* unsafe_dedupe: a job of the key that is already there stays as it is.     *)
Enqueue(j) == attempts' = IF attempts[j] = NoJob THEN [attempts EXCEPT ![j] = 0] ELSE attempts

Create ==
    /\ org = "none"
    /\ org' = "pending"
    /\ Enqueue("provision")
    /\ UNCHANGED <<access, slow, lock, run, requests, abandoned>>

DeleteUnqueued ==
    /\ Exists
    /\ org' = "gone"
    /\ UNCHANGED <<access, queue, run, requests, abandoned>>
Delete ==
    /\ Exists
    /\ org' = "gone"
    /\ Enqueue("deprovision")
    /\ UNCHANGED <<access, slow, lock, run, requests, abandoned>>

(* The metadata an editor read and writes back whole, but for the flag.      *)
Open ==
    /\ Exists /\ draft = "none"
    /\ draft' = org
    /\ UNCHANGED <<org, access, queue, run, scan, restarts, abandoned>>
SavedFlagFromDraft == draft
SavedFlag == org
Save ==
    /\ Exists /\ draft # "none"
    /\ org' = SavedFlag
    /\ draft' = "none"
    /\ UNCHANGED <<access, queue, run, scan, restarts, abandoned>>

-----------------------------------------------------------------------------
(* The runs.  Goes(r, pc) moves run r; its steps are the statements it       *)
(* sends, each of which may fail.                                            *)

Goes(r, pc) == run' = [run EXCEPT ![r] = [pc |-> pc, job |-> run[r].job]]

(* A job is due with attempts left and its back-off over.                    *)
DueAgain(j) == attempts[j] # NoJob /\ ~slow[j]
Due(j) == attempts[j] \in 0 .. MaxAttempts - 1 /\ ~slow[j]
Take(r, j) ==
    /\ run[r].pc = "idle" /\ lock = Free
    /\ Due(j)
    /\ attempts' = [attempts EXCEPT ![j] = attempts[j] + 1]
    /\ lock' = [by |-> r, job |-> j]
    /\ run' = [run EXCEPT ![r] = [pc |-> IF j = "provision" THEN "read" ELSE "drop", job |-> j]]
    /\ UNCHANGED <<org, access, slow, requests, abandoned>>

Read(r) ==
    /\ run[r].pc = "read"
    /\ Goes(r, CASE org = "pending" -> "create" [] org = "ready" -> "done" [] OTHER -> "drop")
    /\ UNCHANGED <<org, access, queue, requests, abandoned>>

(* provisionSqlApiOrgUser: every statement but the first needs the user.     *)
CreateUser(r) ==
    /\ run[r].pc = "create"
    /\ account' = IF account = "absent" THEN "bare" ELSE account
    /\ Goes(r, "grant")
    /\ UNCHANGED <<org, policies, queue, requests, abandoned>>
Grant(r) ==
    /\ run[r].pc = "grant" /\ account # "absent"
    /\ account' = "granted"
    /\ Goes(r, "policies")
    /\ UNCHANGED <<org, policies, queue, requests, abandoned>>
CreatePolicies(r) ==
    /\ run[r].pc = "policies" /\ account # "absent"
    /\ policies' = TRUE
    /\ Goes(r, "verify")
    /\ UNCHANGED <<org, account, queue, requests, abandoned>>
Verify(r) ==
    /\ run[r].pc = "verify" /\ account = "granted"
    /\ Goes(r, "mark")
    /\ UNCHANGED <<org, access, queue, requests, abandoned>>

(* The flag is set where it is still unset; a miss asks why.                 *)
Mark(r) ==
    /\ run[r].pc = "mark"
    /\ org' = IF org = "pending" THEN "ready" ELSE org
    /\ Goes(r, IF org = "pending" THEN "done" ELSE "look")
    /\ UNCHANGED <<access, queue, requests, abandoned>>
LookAndDrop(r) ==
    /\ run[r].pc = "look"
    /\ Goes(r, "drop")
    /\ UNCHANGED <<org, access, queue, requests, abandoned>>
Look(r) ==
    /\ run[r].pc = "look"
    /\ Goes(r, IF Exists THEN "done" ELSE "drop")
    /\ UNCHANGED <<org, access, queue, requests, abandoned>>

(* deprovisionSqlApiOrgUser: the policies before the user.                   *)
DropPolicies(r) ==
    /\ run[r].pc = "drop"
    /\ policies' = FALSE
    /\ Goes(r, "drop user")
    /\ UNCHANGED <<org, account, queue, requests, abandoned>>
DropUser(r) ==
    /\ run[r].pc = "drop user"
    /\ account' = "absent"
    /\ Goes(r, "done")
    /\ UNCHANGED <<org, policies, queue, requests, abandoned>>

-----------------------------------------------------------------------------
(* The queue.                                                                *)

Release(r) == lock' = IF Mine(r) THEN Free ELSE lock

(* A run that ends well removes its job, whoever holds it by then.           *)
Finish(r) ==
    /\ run[r].pc = "done"
    /\ attempts' = [attempts EXCEPT ![run[r].job] = NoJob]
    /\ slow' = [slow EXCEPT ![run[r].job] = FALSE]
    /\ Release(r)
    /\ run' = [run EXCEPT ![r] = Resting]
    /\ UNCHANGED <<org, access, requests, abandoned>>

(* A failure gives back the job the run still holds, with the queue's own    *)
(* back-off; the completion listener comes next.                             *)
Working == {"read", "create", "grant", "policies", "verify", "mark", "look", "drop", "drop user"}
Fail(r) ==
    /\ run[r].pc \in Working
    /\ slow' = IF Mine(r) /\ attempts[run[r].job] # NoJob
               THEN [slow EXCEPT ![run[r].job] = TRUE] ELSE slow
    /\ abandoned' = (abandoned \/ ~Mine(r))
    /\ Release(r)
    /\ Goes(r, "listener")
    /\ UNCHANGED <<org, access, attempts, requests>>

(* attachOrganizationRetryPolicy: reschedule_jobs leaves a locked job alone. *)
Prompt(js) == slow' = [j \in Jobs |-> slow[j] /\ ~(j \in js /\ ~Held(j))]
Reschedule(r) ==
    /\ run[r].pc = "listener"
    /\ Prompt(IF attempts[run[r].job] < MaxAttempts THEN {run[r].job} ELSE {})
    /\ run' = [run EXCEPT ![r] = Resting]
    /\ UNCHANGED <<org, access, attempts, lock, requests, abandoned>>

(* A process dies: at any point, its lock stays behind.                      *)
Crash(r) ==
    /\ run[r].pc # "idle"
    /\ run' = [run EXCEPT ![r] = Resting]
    /\ abandoned' = (abandoned \/ (run[r].pc # "listener" /\ ~Mine(r)))
    /\ UNCHANGED <<org, access, queue, requests>>

ExpireDead ==
    /\ lock # Free /\ run[lock.by].pc = "idle"
    /\ lock' = Free
    /\ UNCHANGED <<org, access, attempts, slow, run, requests, abandoned>>
ExpireAlive ==
    /\ lock # Free /\ run[lock.by].pc # "idle"
    /\ lock' = Free
    /\ UNCHANGED <<org, access, attempts, slow, run, requests, abandoned>>

Elapse(j) ==
    /\ slow[j]
    /\ slow' = [slow EXCEPT ![j] = FALSE]
    /\ UNCHANGED <<org, access, attempts, lock, run, requests, abandoned>>

(* The scanner, every minute and in steps: capPendingRetries, the query for  *)
(* pending organizations without a job, and the job it adds for each.        *)
RetriedProvision(j) == j = "provision" /\ attempts[j] \in 1 .. MaxAttempts - 1
Retried(j) == attempts[j] \in 1 .. MaxAttempts - 1
CapNothing == UNCHANGED vars
Cap ==
    /\ Prompt({j \in Jobs : Retried(j)})
    /\ UNCHANGED <<org, access, attempts, lock, run, requests, abandoned>>
ScanRead ==
    /\ scan = "idle" /\ org = "pending" /\ attempts["provision"] = NoJob
    /\ scan' = "missing"
    /\ UNCHANGED <<org, access, queue, run, draft, restarts, abandoned>>
ScanEnqueue ==
    /\ scan = "missing"
    /\ Enqueue("provision")
    /\ scan' = "idle"
    /\ UNCHANGED <<org, access, slow, lock, run, draft, restarts, abandoned>>

(* restartOrganizationProvisioningJob.  The member read the organization      *)
(* before: it may be served or deleted by now.                               *)
Restart ==
    /\ org # "none" /\ restarts < MaxRestarts
    /\ Exhausted("provision")
    /\ attempts' = [attempts EXCEPT !["provision"] = 0]
    /\ slow' = [slow EXCEPT !["provision"] = FALSE]
    /\ restarts' = restarts + 1
    /\ UNCHANGED <<org, access, lock, run, scan, draft, abandoned>>

-----------------------------------------------------------------------------
Proceed(r) ==
    \/ Read(r) \/ CreateUser(r) \/ Grant(r) \/ CreatePolicies(r) \/ Verify(r) \/ Mark(r)
    \/ Look(r) \/ DropPolicies(r) \/ DropUser(r) \/ Finish(r) \/ Reschedule(r)
Request == Create \/ Delete \/ Open \/ Save \/ Restart
Scan == ScanRead \/ ScanEnqueue

Next ==
    \/ Request \/ Scan \/ Cap \/ ExpireDead \/ ExpireAlive
    \/ \E j \in Jobs : Elapse(j) \/ \E r \in Runs : Take(r, j)
    \/ \E r \in Runs : Proceed(r) \/ Fail(r) \/ Crash(r)

(* The worker polls, its runs end, the cron fires and a dead run's lock       *)
(* expires.  The default back-off, hours long in the end, is not relied on.   *)
Fairness ==
    /\ WF_vars(Scan) /\ WF_vars(Cap) /\ WF_vars(ExpireDead)
    /\ \A j \in Jobs : WF_vars(\E r \in Runs : Take(r, j))
    /\ \A r \in Runs : WF_vars(Proceed(r) \/ Fail(r))
Spec == Init /\ [][Next]_vars /\ Fairness

-----------------------------------------------------------------------------
(* Every variable keeps its range.                                           *)
TypeOK ==
    /\ org \in {"none", "pending", "ready", "gone"}
    /\ account \in {"absent", "bare", "granted"}
    /\ policies \in BOOLEAN
    /\ attempts \in [Jobs -> {NoJob} \cup 0 .. MaxAttempts]
    /\ slow \in [Jobs -> BOOLEAN]
    /\ lock \in [by : Runs \cup {"nobody"}, job : Jobs]
    /\ run \in [Runs -> [pc : Working \cup {"idle", "done", "listener"}, job : Jobs]]
    /\ scan \in {"idle", "missing"}
    /\ draft \in {"none", "pending", "ready"}
    /\ restarts \in 0 .. MaxRestarts
    /\ abandoned \in BOOLEAN

(* An organization that reads as ready has its whole access: a run that lost *)
(* its lock and comes late, or the cleanup of such a run, takes nothing away *)
(* from it.                                                                  *)
ReadyServes == org = "ready" => account = "granted" /\ policies

(* Nothing is left in ClickHouse of a deleted organization unless some job    *)
(* or run will still see to it, however the delete met the runs under way;    *)
(* save where a run that had outlived its lock ended badly.                   *)
NothingForgotten ==
    org = "gone" /\ (account # "absent" \/ policies)
        => \/ \E j \in Jobs : attempts[j] # NoJob
           \/ \E r \in Runs : run[r].pc \in Working
           \/ abandoned

(* Once ready, an organization is ready until it is deleted: an editor who    *)
(* saves the metadata it read before does not take the completion back.       *)
ReadyStays == [][org = "ready" => org' \in {"ready", "gone"}]_vars

(* readOrganizationProvisioningStatus                                        *)
Status ==
    IF org = "ready" THEN "ready" ELSE IF Exhausted("provision") THEN "failed" ELSE "pending"

(* A new organization becomes ready, or its setup shows as failed: through    *)
(* failures, crashes, lost locks and a job that was never stored, and without *)
(* waiting for the queue's own back-off.                                      *)
SetUp == (org = "pending") ~> (Status # "pending" \/ org = "gone")

(* A deleted organization ends with no access in ClickHouse, for good, or      *)
(* with its exhausted job on show.                                             *)
CleanedUp ==
    (org = "gone") ~> [](\/ account = "absent" /\ ~policies
                         \/ attempts["deprovision"] = MaxAttempts \/ abandoned)
===============================================================================
