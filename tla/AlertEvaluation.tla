---------------------------- MODULE AlertEvaluation ----------------------------
(***************************************************************************)
(* The evaluation loop of one alert rule: the jobs that evaluate it, the   *)
(* transaction that stores what an evaluation saw and books the next one,  *)
(* the scanner that takes back a rule whose job was lost, and the edits    *)
(* people make to the rule meanwhile.                                      *)
(*                                                                         *)
(* One action is one statement or transaction; between two actions of a    *)
(* handler everything else may run.  The rule's queue is serial, so one    *)
(* evaluation runs at a time; an instant a job is booked for is its key.   *)
(* Nodes and database read one clock, as scheduling assumes.               *)
(***************************************************************************)
EXTENDS AlertInstance, Sequences

CONSTANTS
    Instances,      \* label sets the query can return
    Editors,        \* requests that can be editing the rule at the same time
    Mutations,      \* of "update", "labels", "adopt", "pause", "resume", "delete"
    Phase,          \* the offset of the rule's grid, a hash of its id
    RetryInitial,   \* the first retry delay after a failed evaluation
    RetryMax,       \* max_interval_secs
    StaleEnqueue,   \* STALE_ENQUEUE_SECONDS
    Horizon,        \* bound: last time people act
    MaxTime,        \* bound: last time the clock reads
    MaxEdits,       \* bound: edits people start
    MaxThrows       \* bound: handlers that throw or die

ASSUME EvaluationAssumption ==
    /\ Mutations \subseteq {"update", "labels", "adopt", "pause", "resume", "delete"}
    /\ Phase \in 0..(Interval - 1)
    /\ RetryInitial \in 1..Interval /\ RetryMax \in Nat \ {0}
    /\ StaleEnqueue \in Nat \ {0}
    /\ Horizon \in Nat /\ MaxTime \in Nat /\ MaxEdits \in Nat /\ MaxThrows \in Nat

VARIABLES
    now,        \* the clock
    rule,       \* alert_definitions: "active", "paused" or "gone"
    version,    \* alert_definitions.version
    nextEval,   \* next_evaluation_at
    lastEnq,    \* last_enqueued_at
    failures,   \* consecutive_failures
    inst,       \* alert_instances
    journal,    \* alert_events of each instance: <<event, episode>>
    evaluated,  \* alert_evaluations: the instants evaluated, once each
    jobs,       \* queued evaluate jobs: <<scheduledFor, ruleVersion>>
    eval,       \* the evaluation handler
    scan,       \* the scanner
    edit,       \* the edits in progress
    edits,      \* history: edits started
    throws,     \* history: handlers that threw or died
    looks       \* history: the stored sightings of each instance since the
                \* last evaluation that missed it

ruleVars == <<rule, version, failures>>
bookVars == <<nextEval, lastEnq, jobs>>
storeVars == <<inst, journal, looks>>
boundVars == <<edits, throws>>
vars == <<now, ruleVars, bookVars, storeVars, evaluated, eval, scan, edit, boundVars>>

Times == 0..MaxTime

(* nextAlertEvaluationAt: the first point of the grid after t.              *)
NextGridInclusive(t) == t + ((Phase - t) % Interval)
NextGrid(t) == t + Interval - ((t - Phase) % Interval)
(* alertingRetryDelaySeconds: doubles per failure in a row, up to the cap.  *)
RetryDelay(count) ==
    LET delay == RetryInitial * 2^(count - 1) IN IF delay < RetryMax THEN delay ELSE RetryMax

(* A job's key is its instant: a later enqueue replaces it.                 *)
Enqueued(at, v) == {j \in jobs : j[1] # at} \cup {<<at, v>>}
BookUnqueued(at, v) == nextEval' = at /\ lastEnq' = at /\ UNCHANGED jobs
Book(at, v) == nextEval' = at /\ lastEnq' = at /\ jobs' = Enqueued(at, v)

Evaluating(pc, job, rows, at, seen) ==
    [pc |-> pc, due |-> job[1], version |-> job[2], rows |-> rows, at |-> at, seen |-> seen]
NoRows == [i \in Instances |-> Fresh]
IdleEval == Evaluating("idle", <<0, 0>>, NoRows, 0, {})
Scanning(pc, at, due, v) == [pc |-> pc, at |-> at, due |-> due, version |-> v]
IdleScan == Scanning("idle", 0, 0, 0)
Editing(pc, v, next, rows) == [pc |-> pc, version |-> v, next |-> next, rows |-> rows]
IdleEdit == Editing("idle", 0, 0, NoRows)

(* createRule booked the first evaluation.                                  *)
Init ==
    /\ now = 0
    /\ rule = "active" /\ version = 1 /\ failures = 0
    /\ nextEval = NextGrid(0) /\ lastEnq = Null /\ jobs = {<<NextGrid(0), 1>>}
    /\ inst = NoRows
    /\ journal = [i \in Instances |-> <<>>] /\ looks = [i \in Instances |-> <<>>]
    /\ evaluated = {}
    /\ eval = IdleEval /\ scan = IdleScan /\ edit = [x \in Editors |-> IdleEdit]
    /\ edits = 0 /\ throws = 0

Tick ==
    /\ now < MaxTime
    /\ now' = now + 1
    /\ UNCHANGED <<ruleVars, bookVars, storeVars, evaluated, eval, scan, edit, boundVars>>

-----------------------------------------------------------------------------
(* evaluateAlert *)

Runnable(j) == eval.pc = "idle" /\ j \in jobs /\ j[1] <= now
CurrentAnyVersion(v) == rule = "active"
Current(v) == rule = "active" /\ version = v
Applies == Current(eval.version) /\ eval.due \notin evaluated

EvalSkip(j) ==
    /\ Runnable(j) /\ ~Current(j[2])
    /\ jobs' = jobs \ {j}
    /\ UNCHANGED <<now, ruleVars, nextEval, lastEnq, storeVars, evaluated, eval, scan, edit,
                   boundVars>>

(* The instances are read while the rule's query runs.                      *)
EvalTake(j) ==
    /\ Runnable(j) /\ Current(j[2])
    /\ jobs' = jobs \ {j}
    /\ eval' = Evaluating("query", j, inst, 0, {})
    /\ UNCHANGED <<now, ruleVars, nextEval, lastEnq, storeVars, evaluated, scan, edit, boundVars>>

(* `seen` is what matched the condition.                                    *)
EvalQuery(seen) ==
    /\ eval.pc = "query"
    /\ eval' = [eval EXCEPT !.pc = "commit", !.at = now, !.seen = seen]
    /\ UNCHANGED <<now, ruleVars, bookVars, storeVars, evaluated, scan, edit, boundVars>>

NextRow(i) == Advance(eval.rows[i], i \in eval.seen, eval.at)
EventOf(i) == Event(eval.rows[i], NextRow(i))

(* A quiet evaluation leaves the stored episode alone, and an instance that *)
(* stays inactive is not written at all.                                    *)
StoredRow(i) ==
    LET event == EventOf(i)
    IN  IF event = "none" /\ NextRow(i).status = "inactive" THEN inst[i]
        ELSE [NextRow(i) EXCEPT !.episode =
                IF event = "none" THEN inst[i].episode
                ELSE EpisodeAfter(event, eval.rows[i].episode, Len(journal[i]) + 1)]
Journaled(i) ==
    IF EventOf(i) = "none" THEN journal[i]
    ELSE Append(journal[i],
                <<EventOf(i), EpisodeOf(EventOf(i), eval.rows[i].episode, Len(journal[i]) + 1)>>)

EvalCommit ==
    /\ eval.pc = "commit" /\ Applies
    /\ evaluated' = evaluated \cup {eval.due}
    /\ inst' = [i \in Instances |-> StoredRow(i)]
    /\ journal' = [i \in Instances |-> Journaled(i)]
    /\ looks' = [i \in Instances |-> IF i \in eval.seen THEN Append(looks[i], eval.at) ELSE <<>>]
    /\ failures' = 0
    /\ Book(NextGrid(now), eval.version)
    /\ eval' = IdleEval
    /\ UNCHANGED <<now, rule, version, scan, edit, boundVars>>

(* recordEvaluationFailure, when the query or the transaction throws; a     *)
(* delay that is no positive integer would throw (alertingRetryAt).         *)
EvalFail ==
    /\ eval.pc \in {"query", "commit"} /\ Applies
    /\ RetryDelay(failures + 1) \in Nat \ {0}
    /\ evaluated' = evaluated \cup {eval.due}
    /\ failures' = failures + 1
    /\ Book(now + RetryDelay(failures + 1), eval.version)
    /\ eval' = IdleEval
    /\ UNCHANGED <<now, rule, version, storeVars, scan, edit, boundVars>>

EvalDiscard ==
    /\ eval.pc \in {"query", "commit"} /\ ~Applies
    /\ eval' = IdleEval
    /\ UNCHANGED <<now, ruleVars, bookVars, storeVars, evaluated, scan, edit, boundVars>>

(* The handler dies, or storing its failure throws too.  The job is tried   *)
(* again, unless one with its key was queued meanwhile, or was on its last  *)
(* attempt.                                                                 *)
EvalThrow(again) ==
    /\ eval.pc # "idle" /\ throws < MaxThrows
    /\ throws' = throws + 1
    /\ eval' = IdleEval
    /\ jobs' = IF again /\ \A j \in jobs : j[1] # eval.due
                 THEN jobs \cup {<<eval.due, eval.version>>} ELSE jobs
    /\ UNCHANGED <<now, ruleVars, nextEval, lastEnq, storeVars, evaluated, scan, edit, edits>>

-----------------------------------------------------------------------------
(* scanDueAlerts, as a cron starts it every unit of the clock               *)

OverdueNeverStale ==
    /\ rule = "active" /\ nextEval <= now
    /\ lastEnq = Null \/ lastEnq < nextEval
Overdue ==
    /\ rule = "active" /\ nextEval <= now
    /\ lastEnq = Null \/ lastEnq < nextEval \/ lastEnq < now - StaleEnqueue

ScanRead ==
    /\ scan.pc = "idle" /\ Overdue
    /\ scan' = Scanning("enqueue", now, nextEval, version)
    /\ UNCHANGED <<now, ruleVars, bookVars, storeVars, evaluated, eval, edit, boundVars>>

ScanEnqueue ==
    /\ scan.pc = "enqueue"
    /\ jobs' = Enqueued(scan.due, scan.version)
    /\ scan' = [scan EXCEPT !.pc = "stamp"]
    /\ UNCHANGED <<now, ruleVars, nextEval, lastEnq, storeVars, evaluated, eval, edit, boundVars>>

ScanStamp ==
    /\ scan.pc = "stamp"
    /\ lastEnq' = IF rule = "gone" THEN lastEnq ELSE scan.at
    /\ scan' = IdleScan
    /\ UNCHANGED <<now, ruleVars, nextEval, jobs, storeVars, evaluated, eval, edit, boundVars>>

-----------------------------------------------------------------------------
(* Edits.  An update and a resume read the row and compute the next         *)
(* evaluation before they write; a delete reads the open instances before   *)
(* its cascade.  A pause locks the row first and is one action.             *)

StartEdit(x, kind) ==
    /\ edit[x].pc = "idle" /\ kind \in Mutations /\ kind # "pause"
    /\ rule # "gone" /\ now <= Horizon /\ edits < MaxEdits
    /\ edits' = edits + 1
    /\ edit' = [edit EXCEPT ![x] =
                  Editing(kind, version, NextGrid(now), IF kind = "delete" THEN inst ELSE NoRows)]
    /\ UNCHANGED <<now, ruleVars, bookVars, storeVars, evaluated, eval, scan, throws>>

EndEdit(x) == edit' = [edit EXCEPT ![x] = IdleEdit]
EditFrame == UNCHANGED <<now, evaluated, eval, scan, boundVars>>

(* closeRuleLifecycle's half of the journal.                                *)
Closed(rows) ==
    [i \in Instances |-> IF rows[i].status = "inactive" THEN journal[i]
                         ELSE Append(journal[i], <<"closed", rows[i].episode>>)]

(* updateRule, and adoptRule with a new spec.                               *)
UpdateRule(x) ==
    /\ edit[x].pc \in {"update", "labels"}
    /\ rule # "gone" /\ version = edit[x].version
    /\ version' = version + 1
    /\ nextEval' = edit[x].next
    /\ jobs' = Enqueued(edit[x].next, version + 1)
    /\ IF edit[x].pc = "labels"
         THEN /\ journal' = Closed(inst)
              /\ inst' = NoRows
              /\ looks' = [i \in Instances |-> <<>>]
         ELSE UNCHANGED storeVars
    /\ EndEdit(x) /\ EditFrame
    /\ UNCHANGED <<rule, failures, lastEnq>>

(* adoptRule without one (resource-admin): another owner, the same rule.    *)
AdoptRule(x) ==
    /\ edit[x].pc = "adopt"
    /\ rule # "gone" /\ version = edit[x].version
    /\ version' = version + 1
    /\ EndEdit(x) /\ EditFrame
    /\ UNCHANGED <<rule, failures, bookVars, storeVars>>

(* A version changed meanwhile is a conflict.                               *)
UpdateConflict(x) ==
    /\ edit[x].pc \in {"update", "labels", "adopt"}
    /\ rule = "gone" \/ version # edit[x].version
    /\ EndEdit(x) /\ EditFrame
    /\ UNCHANGED <<ruleVars, bookVars, storeVars>>

PauseRule ==
    /\ "pause" \in Mutations /\ rule # "gone" /\ now <= Horizon /\ edits < MaxEdits
    /\ edits' = edits + 1
    /\ rule' = "paused" /\ failures' = 0
    /\ journal' = Closed(inst)
    /\ inst' = [i \in Instances |-> IF inst[i].status = "inactive" THEN inst[i]
                                    ELSE [Fresh EXCEPT !.seen = inst[i].seen]]
    /\ looks' = [i \in Instances |-> <<>>]
    /\ UNCHANGED <<now, version, bookVars, evaluated, eval, scan, edit, throws>>

(* resumeRule: the job is queued after the update, outside a transaction.   *)
ResumeRule(x) ==
    /\ edit[x].pc = "resume" /\ rule # "gone"
    /\ rule' = "active" /\ nextEval' = edit[x].next
    /\ edit' = [edit EXCEPT ![x].pc = "enqueue", ![x].version = version]
    /\ EditFrame
    /\ UNCHANGED <<version, failures, lastEnq, jobs, storeVars>>

ResumeEnqueue(x) ==
    /\ edit[x].pc = "enqueue"
    /\ jobs' = Enqueued(edit[x].next, edit[x].version)
    /\ EndEdit(x) /\ EditFrame
    /\ UNCHANGED <<ruleVars, nextEval, lastEnq, storeVars>>

ResumeDies(x) ==
    /\ edit[x].pc = "enqueue" /\ throws < MaxThrows
    /\ throws' = throws + 1
    /\ EndEdit(x)
    /\ UNCHANGED <<now, ruleVars, bookVars, storeVars, evaluated, eval, scan, edits>>

DeleteRule(x) ==
    /\ edit[x].pc = "delete" /\ rule # "gone"
    /\ rule' = "gone"
    /\ journal' = Closed(edit[x].rows)
    /\ inst' = NoRows
    /\ EndEdit(x) /\ EditFrame
    /\ UNCHANGED <<version, failures, bookVars, looks>>

NotFound(x) ==
    /\ edit[x].pc \in {"resume", "delete"} /\ rule = "gone"
    /\ EndEdit(x) /\ EditFrame
    /\ UNCHANGED <<ruleVars, bookVars, storeVars>>

-----------------------------------------------------------------------------
EvalStep ==
    \/ \E j \in jobs : EvalSkip(j) \/ EvalTake(j)
    \/ \E seen \in SUBSET Instances : EvalQuery(seen)
    \/ EvalCommit \/ EvalFail \/ EvalDiscard
ScanStep == ScanRead \/ ScanEnqueue \/ ScanStamp
EditStep(x) ==
    \/ UpdateRule(x) \/ AdoptRule(x) \/ UpdateConflict(x)
    \/ ResumeRule(x) \/ ResumeEnqueue(x) \/ DeleteRule(x) \/ NotFound(x)
People == PauseRule \/ \E x \in Editors, kind \in Mutations : StartEdit(x, kind)
Faults == (\E again \in BOOLEAN : EvalThrow(again)) \/ (\E x \in Editors : ResumeDies(x))
Work == EvalStep \/ ScanStep \/ People \/ Faults \/ \E x \in Editors : EditStep(x)

Next == Tick \/ Work

Spec == Init /\ [][Next]_vars

(* For liveness: a unit of the clock is the scanner's minute, and within it *)
(* due jobs start, evaluations and requests end and the scanner runs; only  *)
(* a request that computed a booking may take longer, as long as it writes  *)
(* before that instant comes, whose evaluation would make it useless.       *)
(* Nothing is assumed of people, queries or faults.                         *)
Books(x) == edit[x].pc \in {"update", "labels", "resume"}
Prompt ==
    /\ \A j \in jobs : j[1] > now
    /\ eval.pc = "idle" /\ scan.pc = "idle" /\ ~Overdue
    /\ \A x \in Editors : edit[x].pc = "idle" \/ (Books(x) /\ edit[x].next > now + 1)
PromptTick == Prompt /\ Tick

Fairness ==
    /\ WF_vars(PromptTick)
    /\ WF_vars(EvalStep)
    /\ WF_vars(ScanStep)
    /\ \A x \in Editors : WF_vars(EditStep(x))

FairSpec == Init /\ [][PromptTick \/ Work]_vars /\ Fairness

-----------------------------------------------------------------------------
(* Properties *)

RowType ==
    {r \in [status : {"inactive", "pending", "firing"}, since : Times \cup {Null},
            seen : Times \cup {Null}, absent : Nat, episode : Nat \cup {Null}] :
        r.status # "inactive" => r.since # Null /\ r.seen # Null}

(* Every row, job and handler has the columns its table, payload or function *)
(* declares.                                                                 *)
TypeOK ==
    /\ now \in Times
    /\ rule \in {"active", "paused", "gone"} /\ version \in Nat /\ failures \in Nat
    /\ nextEval \in Nat /\ lastEnq \in Nat \cup {Null} /\ jobs \subseteq Nat \X Nat
    /\ inst \in [Instances -> RowType]
    /\ journal \in [Instances -> Seq({"pending", "fired", "resolved", "closed"}
                                      \X (Nat \cup {Null}))]
    /\ looks \in [Instances -> Seq(Times)]
    /\ evaluated \subseteq Nat
    /\ eval \in [pc : {"idle", "query", "commit"}, due : Nat, version : Nat,
                 rows : [Instances -> RowType], at : Times, seen : SUBSET Instances]
    /\ scan \in [pc : {"idle", "enqueue", "stamp"}, at : Times, due : Nat, version : Nat]
    /\ edit \in [Editors -> [pc : {"idle", "update", "labels", "adopt", "resume", "enqueue",
                                   "delete"},
                             version : Nat, next : Nat, rows : [Instances -> RowType]]]
    /\ edits \in 0..MaxEdits /\ throws \in 0..MaxThrows

(* Episodes are told whole: the events journaled under one episode of an     *)
(* instance are an opening, at most one fire and one terminal, in that       *)
(* order; the one without a terminal is the one the stored row carries, and  *)
(* it was fired exactly when the row is firing (transitionEventRows, commit, *)
(* closeRuleLifecycle).                                                      *)
Told(s, n, event, episode) == \E y \in 1..n : s[y] = <<event, episode>>
Ended(s, n, episode) == Told(s, n, "resolved", episode) \/ Told(s, n, "closed", episode)
Follows(s, n, event, episode) ==
    LET pending == Told(s, n, "pending", episode)
        fired == Told(s, n, "fired", episode)
    IN  /\ ~Ended(s, n, episode)
        /\ event = "pending" => ~pending /\ ~fired
        /\ event = "fired" => ~fired
        /\ event = "resolved" => fired
        /\ event = "closed" => pending \/ fired
OpenAs(s, row) ==
    /\ Told(s, Len(s), "pending", row.episode) \/ Told(s, Len(s), "fired", row.episode)
    /\ ~Ended(s, Len(s), row.episode)
    /\ row.status = "firing" <=> Told(s, Len(s), "fired", row.episode)
ToldWhole(s, row) ==
    /\ \A x \in 1..Len(s) : Follows(s, x - 1, s[x][1], s[x][2])
    /\ \A x \in 1..Len(s) :
         Ended(s, Len(s), s[x][2]) \/ (row.status # "inactive" /\ s[x][2] = row.episode)
    /\ IF row.status = "inactive" THEN row.episode = Null ELSE OpenAs(s, row)
EpisodesWellFormed == \A i \in Instances : ToldWhole(journal[i], inst[i])

(* `for` means held: an instance fires only at the end of an unbroken run of *)
(* sightings that spans ForSecs, with no stored evaluation missing it and no *)
(* two further apart than the tolerance, under the present labels            *)
(* (advanceAlertInstance, the version guard of the commit).                  *)
HeldFor(s) ==
    \E k \in 1..Len(s) :
        /\ s[Len(s)] - s[k] >= ForSecs
        /\ \A m \in k..(Len(s) - 1) : s[m + 1] - s[m] <= Interval * MissedEvaluationTolerance
Fires(before, after) == \E x \in (Len(before) + 1)..Len(after) : after[x][1] = "fired"
ForHonest ==
    [][\A i \in Instances : Fires(journal[i], journal'[i]) => HeldFor(looks'[i])]_vars

(* The instant an active rule is booked for has not been evaluated: else the *)
(* insert into alert_evaluations refuses it, nothing reschedules, and what   *)
(* the scanner takes back after StaleEnqueue is refused again. An edit that  *)
(* the evaluation of its own booking overtakes breaks this (see Prompt).     *)
NextIsNew == rule = "active" => nextEval \notin evaluated

(* A rule keeps being watched: whatever was lost, skipped or failed, an      *)
(* active rule is evaluated again after people have stopped touching it.     *)
Watched ==
    (now > Horizon /\ rule = "active") ~> (\E at \in evaluated : at > Horizon)
=============================================================================
