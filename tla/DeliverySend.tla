----------------------------- MODULE DeliverySend -----------------------------
(***************************************************************************)
(* One delivery on its way out: the alert_deliveries row a flush wrote, the *)
(* queue's job that sends it, and the runs of sendAlertDelivery that race   *)
(* over it when the queue gives a job away before its first run has ended.  *)
(*                                                                         *)
(* One action is one database statement or the call to the channel.  The   *)
(* payload, the channel's secrets and the wording of errors are left out.   *)
(***************************************************************************)
EXTENDS Integers

CONSTANTS
    Runs,           \* runs of the job that can be under way at once
    MaxAttempts,    \* ALERT_DELIVERY_MAX_ATTEMPTS, of the row and of the job
    MaxFaults       \* bound: crashes, expired locks, lost answers and writes

ASSUME SendAssumption ==
    MaxAttempts \in Nat \ {0} /\ MaxFaults \in Nat /\ "none" \notin Runs

VARIABLES
    status,     \* alert_deliveries.status: "pending", "failed" or "sent"
    attempts,   \* alert_deliveries.attempts
    stamp,      \* alert_deliveries.updated_at, by the run that wrote it
    channel,    \* the channel row exists
    live,       \* some rule behind the delivery is active
    job,        \* graphile's job: "ready", "held", "done" or "dead"
    holder,     \* the run that has the job's lock
    tries,      \* attempts of the job
    run,        \* sendAlertDelivery: where each run is
    sentAt,     \* the stamp a run records its success with
    received,   \* history: times the channel got the notification
    strays,     \* history: sends whose success the row could not know
    failures,   \* history: failed lines in the trail
    successes,  \* history: stamps of succeeded lines in the trail
    faults      \* history: faults so far

row == <<status, attempts, stamp>>
queue == <<job, holder, tries>>
trail == <<failures, successes>>
vars == <<row, channel, live, queue, run, sentAt, received, strays, trail, faults>>

Init ==
    /\ status = "pending" /\ attempts = 0 /\ stamp = "none"
    /\ channel = TRUE /\ live \in BOOLEAN
    /\ job = "ready" /\ holder = "none" /\ tries = 0
    /\ run = [r \in Runs |-> "idle"] /\ sentAt = [r \in Runs |-> "none"]
    /\ received = 0 /\ strays = 0 /\ failures = 0 /\ successes = {} /\ faults = 0

InFlight == status = "pending" \/ (status = "failed" /\ attempts < MaxAttempts)

-----------------------------------------------------------------------------
(* The queue, as its client sees it.  A finished job is deleted whoever      *)
(* holds it; a failed one goes back only if the failing run still holds it,  *)
(* unless its attempts are spent.                                            *)
ReleaseAlways == "ready"
Release == IF tries < MaxAttempts THEN "ready" ELSE "dead"
Finish == job' = "done" /\ holder' = "none" /\ UNCHANGED tries
Retry(r) ==
    /\ job' = IF holder = r THEN Release ELSE job
    /\ holder' = IF holder = r THEN "none" ELSE holder
    /\ UNCHANGED tries
Goto(r, pc) == run' = [run EXCEPT ![r] = pc]
Fault == faults < MaxFaults /\ faults' = faults + 1
Stray(r) == strays' = strays + IF run[r] \in {"mark", "again"} /\ status # "sent" THEN 1 ELSE 0

(* A lock runs out, or a stopping worker lets go, and the run goes on.       *)
Expire ==
    /\ job = "held" /\ run[holder] # "idle" /\ Fault
    /\ job' = Release /\ holder' = "none"
    /\ strays' = strays + 1
    /\ UNCHANGED <<row, channel, live, tries, run, sentAt, received, trail>>

(* A process dies with its run; the lock stays until it runs out.            *)
Crash(r) ==
    /\ run[r] # "idle" /\ Fault
    /\ Goto(r, "idle") /\ Stray(r)
    /\ UNCHANGED <<row, channel, live, queue, sentAt, received, trail>>
Reclaim ==
    /\ job = "held" /\ run[holder] = "idle"
    /\ job' = Release /\ holder' = "none"
    /\ UNCHANGED <<row, channel, live, tries, run, sentAt, received, strays, trail, faults>>

-----------------------------------------------------------------------------
(* sendAlertDelivery *)

TakesJob(r) ==
    /\ job = "ready" /\ run[r] = "idle"
    /\ tries' = tries + 1

SendSettled(r) ==
    /\ TakesJob(r) /\ status = "sent"
    /\ job' = "done" /\ UNCHANGED holder
    /\ UNCHANGED <<row, channel, live, run, sentAt, received, strays, trail, faults>>

SendTake(r) ==
    /\ TakesJob(r) /\ status # "sent"
    /\ job' = "held" /\ holder' = r
    /\ Goto(r, IF channel THEN "check" ELSE "withhold")
    /\ UNCHANGED <<row, channel, live, sentAt, received, strays, trail, faults>>

CheckLive(r) ==
    /\ run[r] = "check"
    /\ Goto(r, IF live THEN "send" ELSE "withhold")
    /\ UNCHANGED <<row, channel, live, queue, sentAt, received, strays, trail, faults>>

(* The call to the channel; an answer lost on the way is a transient error.  *)
SendSucceeds(r) ==
    /\ run[r] = "send"
    /\ received' = received + 1
    /\ Goto(r, "mark")
    /\ UNCHANGED <<row, channel, live, queue, sentAt, strays, trail, faults>>
SendFails(r, kind) ==
    /\ run[r] = "send"
    /\ Goto(r, kind)
    /\ UNCHANGED <<row, channel, live, queue, sentAt, received, strays, trail, faults>>
SendUnanswered(r) ==
    /\ run[r] = "send" /\ Fault
    /\ received' = received + 1 /\ strays' = strays + 1
    /\ Goto(r, "transient")
    /\ UNCHANGED <<row, channel, live, queue, sentAt, trail>>

(* failDelivery: the row unless it is sent, the trail in any case.           *)
FailRowUnguarded(r, count) == status' = "failed" /\ attempts' = count /\ stamp' = r
FailRow(r, count) ==
    IF status = "sent" THEN UNCHANGED row
    ELSE status' = "failed" /\ attempts' = count /\ stamp' = r
Fail(r, count) ==
    /\ FailRow(r, count)
    /\ failures' = failures + 1
    /\ Goto(r, "idle")
    /\ UNCHANGED <<channel, live, sentAt, received, strays, successes, faults>>
WithholdCounting(r) == run[r] = "withhold" /\ Fail(r, attempts + 1) /\ Finish
Withhold(r) == run[r] = "withhold" /\ Fail(r, MaxAttempts) /\ Finish
FailPermanent(r) == run[r] = "permanent" /\ Fail(r, MaxAttempts) /\ Finish
FailTransientUncounted(r) == run[r] = "transient" /\ Fail(r, attempts) /\ Retry(r)
FailTransient(r) == run[r] = "transient" /\ Fail(r, attempts + 1) /\ Retry(r)
FailThrows(r) ==
    /\ run[r] \in {"withhold", "permanent", "transient"} /\ Fault
    /\ Goto(r, "idle") /\ Retry(r)
    /\ UNCHANGED <<row, channel, live, sentAt, received, strays, trail>>

(* markSent, tried twice.  An error may come after the write landed.         *)
MarkRow(r) ==
    IF status = "sent" THEN UNCHANGED row
    ELSE status' = "sent" /\ attempts' = attempts + 1 /\ stamp' = r
FailedAfterMarkError == "transient"
AfterMarkError == "again"
Mark(r) ==
    /\ run[r] \in {"mark", "again"}
    /\ MarkRow(r)
    /\ sentAt' = [sentAt EXCEPT ![r] = r]
    /\ Goto(r, IF status = "sent" THEN "reread" ELSE "record")
    /\ UNCHANGED <<channel, live, queue, received, strays, trail, faults>>
MarkErrs(r, landed) ==
    /\ run[r] = "mark" /\ Fault
    /\ IF landed THEN MarkRow(r) ELSE UNCHANGED row
    /\ Goto(r, AfterMarkError)
    /\ UNCHANGED <<channel, live, queue, sentAt, received, strays, trail>>
MarkThrows(r) ==
    /\ run[r] = "again" /\ Fault
    /\ Goto(r, "idle") /\ Retry(r) /\ Stray(r)
    /\ UNCHANGED <<row, channel, live, sentAt, received, trail>>

(* Another run won: its committed stamp is reused.                           *)
OwnStamp(r) == r
SettledStamp(r) == stamp
Reread(r) ==
    /\ run[r] = "reread"
    /\ sentAt' = [sentAt EXCEPT ![r] = SettledStamp(r)]
    /\ Goto(r, "record")
    /\ UNCHANGED <<row, channel, live, queue, received, strays, trail, faults>>

Record(r) ==
    /\ run[r] = "record"
    /\ successes' = successes \cup {sentAt[r]}
    /\ Goto(r, "idle") /\ Finish
    /\ UNCHANGED <<row, channel, live, sentAt, received, strays, failures, faults>>

-----------------------------------------------------------------------------
(* People: pause or resume the rules, delete the channel.                    *)
ToggleRules ==
    /\ live' = ~live
    /\ UNCHANGED <<row, channel, queue, run, sentAt, received, strays, trail, faults>>

DeleteChannel ==
    /\ channel /\ ~InFlight
    /\ channel' = FALSE
    /\ UNCHANGED <<row, live, queue, run, sentAt, received, strays, trail, faults>>

RunStep(r) ==
    \/ SendSettled(r) \/ SendTake(r) \/ CheckLive(r)
    \/ SendSucceeds(r) \/ \E kind \in {"transient", "permanent"} : SendFails(r, kind)
    \/ Withhold(r) \/ FailPermanent(r) \/ FailTransient(r)
    \/ Mark(r) \/ Reread(r) \/ Record(r)
Faulty(r) ==
    Crash(r) \/ SendUnanswered(r) \/ FailThrows(r) \/ MarkThrows(r)
    \/ \E landed \in BOOLEAN : MarkErrs(r, landed)

Next ==
    \/ Expire \/ Reclaim \/ ToggleRules \/ DeleteChannel
    \/ \E r \in Runs : RunStep(r) \/ Faulty(r)

Spec == Init /\ [][Next]_vars

(* The pool keeps working and an expired lock is reclaimed; of people,       *)
(* channels and faults nothing is assumed.                                   *)
FairSpec == Spec /\ WF_vars(Reclaim) /\ WF_vars(\E r \in Runs : RunStep(r))

-----------------------------------------------------------------------------
(* Properties *)

(* Every column and handler has the values its table or function declares.   *)
TypeOK ==
    /\ status \in {"pending", "failed", "sent"}
    /\ attempts \in Nat
    /\ stamp \in Runs \cup {"none"}
    /\ channel \in BOOLEAN /\ live \in BOOLEAN
    /\ job \in {"ready", "held", "done", "dead"}
    /\ holder \in Runs \cup {"none"} /\ (job = "held") = (holder # "none")
    /\ tries \in 0..MaxAttempts /\ (job = "ready" => tries < MaxAttempts)
    /\ run \in [Runs -> {"idle", "check", "withhold", "send", "transient", "permanent",
                         "mark", "again", "reread", "record"}]
    /\ sentAt \in [Runs -> Runs \cup {"none"}]
    /\ received \in Nat /\ strays \in Nat /\ failures \in Nat
    /\ successes \subseteq Runs
    /\ faults \in 0..MaxFaults

(* Sent is sent: however runs race, a delivered row is never marked failed,  *)
(* and the instant it was sent at never changes.                             *)
SentIsFinal == [][status = "sent" => status' = "sent" /\ stamp' = stamp]_vars

(* Racing senders rebuild one history row: every run that records a success  *)
(* records it with the instant the row carries.                              *)
OneSuccessRow == \A s \in successes : status = "sent" /\ s = stamp

(* No failed attempt goes uncounted while the row is not sent, racing runs   *)
(* and terminal verdicts included.                                           *)
AttemptsCounted == status # "sent" => failures <= attempts

(* A notification goes out again only when the row could not know that it    *)
(* had: an answer was lost, a run died or was pushed aside between its send  *)
(* and its mark, or neither mark landed.                                     *)
ResentOnlyBlind == received <= 1 + strays

(* Deliveries conclude: a row comes to rest as sent, or as failed at the     *)
(* maximum, which is what lets retention and deleteChannel past it; unless   *)
(* the job spent its attempts on runs that could not write.                  *)
Concludes == <>[](~InFlight \/ job = "dead")
=============================================================================
