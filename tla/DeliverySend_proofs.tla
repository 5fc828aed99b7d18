-------------------------- MODULE DeliverySend_proofs --------------------------
(***************************************************************************)
(* A delivered row stays delivered, every success is recorded with the     *)
(* instant the row carries, no failed attempt goes uncounted, and nothing  *)
(* is sent again unless the row could not know, for any number of racing   *)
(* runs, faults and attempts.                                              *)
(***************************************************************************)
EXTENDS DeliverySend, FiniteSetTheorems, TLAPS

(* What a run may rely on: one that has read the row back, or records a      *)
(* success, sees a sent row and holds the row's stamp.                       *)
Settled ==
    /\ status = "sent" => stamp \in Runs
    /\ \A r \in Runs : run[r] = "reread" => status = "sent"
    /\ \A r \in Runs : run[r] = "record" => status = "sent" /\ sentAt[r] = stamp

Inv == TypeOK /\ Settled /\ OneSuccessRow

(* The clauses of TypeOK that say more than a type, under their own names.  *)
QueueOK ==
    /\ job \in {"ready", "held", "done", "dead"}
    /\ holder \in Runs \cup {"none"} /\ (job = "held") = (holder # "none")
    /\ tries \in 0..MaxAttempts /\ (job = "ready" => tries < MaxAttempts)

-----------------------------------------------------------------------------
(* The queue's operations keep the queue well formed.                        *)
LEMMA QueueSteps ==
    ASSUME QueueOK, NEW r \in Runs
    PROVE  /\ Finish => QueueOK'
           /\ Retry(r) => QueueOK'
           /\ (TakesJob(r) /\ job' = "held" /\ holder' = r) => QueueOK'
           /\ (TakesJob(r) /\ job' = "done" /\ UNCHANGED holder) => QueueOK'
  BY SendAssumption DEF QueueOK, Finish, Retry, Release, TakesJob

LEMMA ReleaseStep ==
    ASSUME QueueOK, job' = Release, holder' = "none", UNCHANGED tries
    PROVE  QueueOK'
  BY SendAssumption DEF QueueOK, Release

LEMMA TypeQueue == TypeOK => QueueOK
  BY DEF TypeOK, QueueOK

-----------------------------------------------------------------------------
(* Every row and handler keeps its type.                                     *)
LEMMA InitInv == Init => Inv
  <1> SUFFICES ASSUME Init PROVE Inv
    OBVIOUS
  <1>1. TypeOK
    BY SendAssumption DEF Init, TypeOK
  <1>2. Settled /\ OneSuccessRow
    BY DEF Init, Settled, OneSuccessRow
  <1> QED
    BY <1>1, <1>2 DEF Inv

LEMMA ExpireInv == Inv /\ (Expire \/ Reclaim) => Inv'
  <1> SUFFICES ASSUME Inv, Expire \/ Reclaim PROVE Inv'
    OBVIOUS
  <1> USE DEF Inv
  <1>1. QueueOK'
    BY TypeQueue, ReleaseStep DEF Expire, Reclaim
  <1>2. TypeOK'
    BY <1>1, SendAssumption DEF Expire, Reclaim, Fault, TypeOK, QueueOK, row, trail
  <1>3. Settled' /\ OneSuccessRow'
    BY DEF Expire, Reclaim, Settled, OneSuccessRow, row, trail
  <1> QED
    BY <1>2, <1>3

LEMMA PeopleInv == Inv /\ (ToggleRules \/ DeleteChannel) => Inv'
  <1> SUFFICES ASSUME Inv, ToggleRules \/ DeleteChannel PROVE Inv'
    OBVIOUS
  <1> USE DEF Inv
  <1>1. TypeOK'
    BY DEF ToggleRules, DeleteChannel, TypeOK, row, queue, trail
  <1>2. Settled' /\ OneSuccessRow'
    BY DEF ToggleRules, DeleteChannel, Settled, OneSuccessRow, row, queue, trail
  <1> QED
    BY <1>1, <1>2

(* Steps that move a run and leave the row, the queue and the trail alone.  *)
LEMMA MoveInv ==
    ASSUME Inv, NEW r \in Runs, NEW pc \in {"idle", "check", "withhold", "send", "transient",
                                             "permanent", "mark", "again"},
           Goto(r, pc), UNCHANGED <<row, channel, live, sentAt, trail>>, QueueOK',
           received' \in Nat, strays' \in Nat, faults' \in 0..MaxFaults
    PROVE  Inv'
  <1> USE DEF Inv
  <1>1. TypeOK'
    BY DEF TypeOK, QueueOK, Goto, row, trail
  <1>2. Settled' /\ OneSuccessRow'
    BY DEF TypeOK, Settled, OneSuccessRow, Goto, row, trail
  <1> QED
    BY <1>1, <1>2

LEMMA SendInv ==
    ASSUME Inv, NEW r \in Runs,
           \/ SendTake(r) \/ CheckLive(r) \/ SendSucceeds(r) \/ SendUnanswered(r)
           \/ \E kind \in {"transient", "permanent"} : SendFails(r, kind)
           \/ Crash(r) \/ FailThrows(r) \/ MarkThrows(r)
    PROVE  Inv'
  <1>0. QueueOK /\ received \in Nat /\ strays \in Nat /\ faults \in 0..MaxFaults
    BY TypeQueue DEF Inv, TypeOK
  <1>1. CASE SendTake(r)
    BY <1>0, <1>1, MoveInv, QueueSteps DEF SendTake, row, trail
  <1>2. CASE CheckLive(r)
    <2>1. QueueOK'
      BY <1>0, <1>2 DEF CheckLive, queue, QueueOK
    <2> QED
      BY <1>0, <1>2, <2>1, MoveInv DEF CheckLive, row, trail
  <1>3. CASE SendSucceeds(r) \/ SendUnanswered(r)
    <2>1. QueueOK'
      BY <1>0, <1>3 DEF SendSucceeds, SendUnanswered, queue, QueueOK
    <2>2. faults' \in 0..MaxFaults /\ received' \in Nat /\ strays' \in Nat
      BY <1>0, <1>3, SendAssumption DEF SendSucceeds, SendUnanswered, Fault
    <2>3. \E pc \in {"mark", "transient"} : Goto(r, pc)
      BY <1>3 DEF SendSucceeds, SendUnanswered
    <2>4. UNCHANGED <<row, channel, live, sentAt, trail>>
      BY <1>3 DEF SendSucceeds, SendUnanswered
    <2> QED
      BY <2>1, <2>2, <2>3, <2>4, MoveInv
  <1>4. CASE \E kind \in {"transient", "permanent"} : SendFails(r, kind)
    <2>1. PICK kind \in {"transient", "permanent"} : SendFails(r, kind)
      BY <1>4
    <2>2. QueueOK'
      BY <1>0, <2>1 DEF SendFails, queue, QueueOK
    <2> QED
      BY <1>0, <2>1, <2>2, MoveInv DEF SendFails, row, trail
  <1>5. CASE Crash(r) \/ FailThrows(r) \/ MarkThrows(r)
    <2>1. QueueOK'
      BY <1>0, <1>5, QueueSteps DEF Crash, FailThrows, MarkThrows, queue, QueueOK
    <2>2. faults' \in 0..MaxFaults /\ received' \in Nat /\ strays' \in Nat
      BY <1>0, <1>5, SendAssumption DEF Crash, FailThrows, MarkThrows, Fault, Stray
    <2>3. Goto(r, "idle") /\ UNCHANGED <<row, channel, live, sentAt, trail>>
      BY <1>5 DEF Crash, FailThrows, MarkThrows
    <2> QED
      BY <2>1, <2>2, <2>3, MoveInv
  <1> QED
    BY <1>1, <1>2, <1>3, <1>4, <1>5

LEMMA SettledInv == ASSUME Inv, NEW r \in Runs, SendSettled(r) PROVE Inv'
  <1> USE DEF Inv
  <1>1. QueueOK'
    BY TypeQueue, QueueSteps DEF SendSettled
  <1>2. TypeOK'
    BY <1>1 DEF SendSettled, TypeOK, QueueOK, row, trail
  <1>3. Settled' /\ OneSuccessRow'
    BY DEF SendSettled, Settled, OneSuccessRow, row, trail
  <1> QED
    BY <1>2, <1>3

(* A failure is written only over a row that is not sent, so nobody holds   *)
(* its stamp for a success.                                                  *)
LEMMA FailInv ==
    ASSUME Inv, NEW r \in Runs, NEW count \in Nat, Fail(r, count), Finish \/ Retry(r)
    PROVE  Inv'
  <1> USE DEF Inv
  <1>1. QueueOK'
    BY TypeQueue, QueueSteps
  <1>2. TypeOK'
    BY <1>1 DEF Fail, FailRow, Goto, TypeOK, QueueOK, row
  <1>3. Settled'
    BY DEF Fail, FailRow, Goto, TypeOK, Settled, row
  <1>4. OneSuccessRow'
    BY DEF Fail, FailRow, OneSuccessRow, row
  <1> QED
    BY <1>2, <1>3, <1>4

LEMMA MarkInv ==
    ASSUME Inv, NEW r \in Runs, Mark(r) \/ \E landed \in BOOLEAN : MarkErrs(r, landed)
    PROVE  Inv'
  <1> USE DEF Inv
  <1>1. CASE Mark(r)
    <2>1. TypeOK'
      BY <1>1 DEF Mark, MarkRow, Goto, TypeOK, row, queue, trail
    <2>2. Settled'
      BY <1>1 DEF Mark, MarkRow, Goto, TypeOK, Settled, row
    <2>3. OneSuccessRow'
      BY <1>1 DEF Mark, MarkRow, OneSuccessRow, row, trail
    <2> QED
      BY <2>1, <2>2, <2>3
  <1>2. CASE \E landed \in BOOLEAN : MarkErrs(r, landed)
    <2>1. PICK landed \in BOOLEAN : MarkErrs(r, landed)
      BY <1>2
    <2>2. TypeOK'
      BY <2>1, SendAssumption
      DEF MarkErrs, MarkRow, AfterMarkError, Fault, Goto, TypeOK, row, queue, trail
    <2>3. Settled'
      BY <2>1 DEF MarkErrs, MarkRow, AfterMarkError, Goto, TypeOK, Settled, row
    <2>4. OneSuccessRow'
      BY <2>1 DEF MarkErrs, MarkRow, OneSuccessRow, row, trail
    <2> QED
      BY <2>2, <2>3, <2>4
  <1> QED
    BY <1>1, <1>2

LEMMA RecordInv == ASSUME Inv, NEW r \in Runs, Reread(r) \/ Record(r) PROVE Inv'
  <1> USE DEF Inv
  <1>1. CASE Reread(r)
    <2>1. TypeOK'
      BY <1>1 DEF Reread, SettledStamp, Goto, TypeOK, row, queue, trail
    <2>2. Settled' /\ OneSuccessRow'
      BY <1>1 DEF Reread, SettledStamp, Goto, TypeOK, Settled, OneSuccessRow, row, trail
    <2> QED
      BY <2>1, <2>2
  <1>2. CASE Record(r)
    <2>1. QueueOK'
      BY <1>2, TypeQueue, QueueSteps DEF Record
    <2>2. sentAt[r] = stamp /\ stamp \in Runs /\ status = "sent"
      BY <1>2 DEF Record, Settled
    <2>3. TypeOK'
      BY <1>2, <2>1, <2>2 DEF Record, Goto, TypeOK, QueueOK, row
    <2>4. Settled' /\ OneSuccessRow'
      BY <1>2, <2>2 DEF Record, Goto, TypeOK, Settled, OneSuccessRow, row
    <2> QED
      BY <2>3, <2>4
  <1> QED
    BY <1>1, <1>2

LEMMA StepInv == Inv /\ [Next]_vars => Inv'
  <1> SUFFICES ASSUME Inv, [Next]_vars PROVE Inv'
    OBVIOUS
  <1>0. attempts \in Nat /\ MaxAttempts \in Nat /\ attempts + 1 \in Nat
    BY SendAssumption DEF Inv, TypeOK
  <1>1. CASE Expire \/ Reclaim \/ ToggleRules \/ DeleteChannel
    BY <1>1, ExpireInv, PeopleInv
  <1>2. CASE \E r \in Runs : RunStep(r)
    <2>1. PICK r \in Runs : RunStep(r)
      BY <1>2
    <2>2. CASE SendSettled(r)
      BY <2>2, SettledInv
    <2>3. CASE \/ SendTake(r) \/ CheckLive(r) \/ SendSucceeds(r)
               \/ \E kind \in {"transient", "permanent"} : SendFails(r, kind)
      BY <2>3, SendInv
    <2>4. CASE Withhold(r) \/ FailPermanent(r) \/ FailTransient(r)
      BY <1>0, <2>4, FailInv DEF Withhold, FailPermanent, FailTransient
    <2>5. CASE Mark(r)
      BY <2>5, MarkInv
    <2>6. CASE Reread(r) \/ Record(r)
      BY <2>6, RecordInv
    <2> QED
      BY <2>1, <2>2, <2>3, <2>4, <2>5, <2>6 DEF RunStep
  <1>3. CASE \E r \in Runs : Faulty(r)
    <2>1. PICK r \in Runs : Faulty(r)
      BY <1>3
    <2>2. CASE Crash(r) \/ SendUnanswered(r) \/ FailThrows(r) \/ MarkThrows(r)
      BY <2>2, SendInv
    <2>3. CASE \E landed \in BOOLEAN : MarkErrs(r, landed)
      BY <2>3, MarkInv
    <2> QED
      BY <2>1, <2>2, <2>3 DEF Faulty
  <1>4. CASE UNCHANGED vars
    <2>1. TypeOK'
      BY <1>4 DEF Inv, TypeOK, vars, row, queue, trail
    <2>2. Settled' /\ OneSuccessRow'
      BY <1>4 DEF Inv, Settled, OneSuccessRow, vars, row, trail
    <2> QED
      BY <2>1, <2>2 DEF Inv
  <1> QED
    BY <1>1, <1>2, <1>3, <1>4 DEF Next

LEMMA Invariance == Spec => []Inv
  BY InitInv, StepInv, PTL DEF Spec

(* Columns and handlers keep their types, whatever races and fails.          *)
THEOREM SendTypeCorrect == Spec => []TypeOK
  <1>1. Inv => TypeOK
    BY DEF Inv
  <1> QED
    BY <1>1, Invariance, PTL

(* Racing senders record one success (markSent's guard, the reread stamp).   *)
THEOREM OneSuccess == Spec => []OneSuccessRow
  <1>1. Inv => OneSuccessRow
    BY DEF Inv
  <1> QED
    BY <1>1, Invariance, PTL

-----------------------------------------------------------------------------
(* A sent row is never marked failed and keeps its stamp: every write of the *)
(* row is guarded on status <> 'sent' (failDelivery, markSent).              *)
THEOREM SentStays == Spec => SentIsFinal
  <1>1. Next \/ UNCHANGED vars =>
          (status = "sent" => status' = "sent" /\ stamp' = stamp)
    <2> SUFFICES ASSUME Next \/ UNCHANGED vars, status = "sent" PROVE UNCHANGED row
      BY DEF row
    <2>1. CASE Expire \/ Reclaim \/ ToggleRules \/ DeleteChannel
      BY <2>1 DEF Expire, Reclaim, ToggleRules, DeleteChannel
    <2>2. CASE \E r \in Runs : RunStep(r)
      BY <2>2 DEF RunStep, SendSettled, SendTake, CheckLive, SendSucceeds, SendFails,
                  Withhold, FailPermanent, FailTransient, Fail, FailRow, Mark, MarkRow,
                  Reread, Record
    <2>3. CASE \E r \in Runs : Faulty(r)
      BY <2>3 DEF Faulty, Crash, SendUnanswered, FailThrows, MarkThrows, MarkErrs, MarkRow
    <2>4. CASE UNCHANGED vars
      BY <2>4 DEF vars
    <2> QED
      BY <2>1, <2>2, <2>3, <2>4 DEF Next
  <1> QED
    BY <1>1, PTL DEF Spec, SentIsFinal

-----------------------------------------------------------------------------
(* Each try of the job starts a run, and each run ends in one failed line at  *)
(* most: the lines and the runs at work never exceed the tries, so that the   *)
(* maximum a terminal verdict writes is not below the lines there are.       *)
Working == {r \in Runs : run[r] # "idle"}
Counted == IsFiniteSet(Working) /\ Cardinality(Working) + failures <= tries

(* How a step changes the runs at work and the lines.                        *)
Counting ==
    \/ Working' = Working /\ failures' = failures /\ tries' \in {tries, tries + 1}
    \/ \E r \in Runs : Working' = Working \cup {r} /\ failures' = failures /\ tries' = tries + 1
    \/ \E r \in Working : Working' = Working \ {r} /\ failures' \in {failures, failures + 1} /\ tries' = tries

LEMMA CountedStep == ASSUME TypeOK, Counted, Counting PROVE Counted'
  <1>0. /\ IsFiniteSet(Working) /\ Cardinality(Working) \in Nat
        /\ failures \in Nat /\ tries \in Nat /\ Cardinality(Working) + failures <= tries
    BY FS_CardinalityType, SendAssumption DEF Counted, TypeOK
  <1>1. CASE Working' = Working /\ failures' = failures /\ tries' \in {tries, tries + 1}
    BY <1>0, <1>1 DEF Counted
  <1>2. CASE \E r \in Runs : Working' = Working \cup {r} /\ failures' = failures /\ tries' = tries + 1
    <2>1. PICK r \in Runs : Working' = Working \cup {r} /\ failures' = failures /\ tries' = tries + 1
      BY <1>2
    <2>2. IsFiniteSet(Working') /\ Cardinality(Working') \in {Cardinality(Working), Cardinality(Working) + 1}
      BY <1>0, <2>1, FS_AddElement
    <2> QED
      BY <1>0, <2>1, <2>2 DEF Counted
  <1>3. CASE \E r \in Working : Working' = Working \ {r} /\ failures' \in {failures, failures + 1} /\ tries' = tries
    <2>1. PICK r \in Working : Working' = Working \ {r} /\ failures' \in {failures, failures + 1} /\ tries' = tries
      BY <1>3
    <2>2. IsFiniteSet(Working') /\ Cardinality(Working') = Cardinality(Working) - 1
      BY <1>0, <2>1, FS_RemoveElement
    <2> QED
      BY <1>0, <2>1, <2>2 DEF Counted
  <1> QED
    BY <1>1, <1>2, <1>3 DEF Counting

LEMMA RunsCount == ASSUME Inv, [Next]_vars PROVE Counting
  <1> USE DEF Inv
  <1>1. CASE Expire \/ Reclaim \/ ToggleRules \/ DeleteChannel \/ UNCHANGED vars
    BY <1>1 DEF Expire, Reclaim, ToggleRules, DeleteChannel, vars, queue, trail, Counting, Working
  <1>m. ASSUME NEW r \in Runs, NEW pc, Goto(r, pc)
        PROVE  /\ run[r] # "idle" /\ pc # "idle" => Working' = Working
               /\ run[r] # "idle" /\ pc = "idle" => r \in Working /\ Working' = Working \ {r}
               /\ run[r] = "idle" /\ pc # "idle" => Working' = Working \cup {r}
    BY <1>m DEF Goto, TypeOK, Working
  <1>2. ASSUME NEW r \in Runs, RunStep(r) PROVE Counting
    <2>1. CASE SendSettled(r)
      BY <2>1 DEF SendSettled, TakesJob, trail, Counting, Working
    <2>2. CASE SendTake(r)
      <3>1. PICK pc \in {"check", "withhold"} : Goto(r, pc)
        BY <2>2 DEF SendTake
      <3> QED
        BY <1>m, <2>2, <3>1 DEF SendTake, TakesJob, trail, Counting
    <2>3. CASE CheckLive(r)
      <3>1. PICK pc \in {"send", "withhold"} : Goto(r, pc)
        BY <2>3 DEF CheckLive
      <3> QED
        BY <1>m, <2>3, <3>1 DEF CheckLive, queue, trail, Counting
    <2>4. CASE SendSucceeds(r) \/ Reread(r) \/ \E kind \in {"transient", "permanent"} : SendFails(r, kind)
      <3>1. PICK pc \in {"mark", "record", "transient", "permanent"} : Goto(r, pc)
        BY <2>4 DEF SendSucceeds, SendFails, Reread
      <3> QED
        BY <1>m, <2>4, <3>1 DEF SendSucceeds, SendFails, Reread, queue, trail, Counting
    <2>5. CASE Withhold(r) \/ FailPermanent(r) \/ FailTransient(r)
      BY <1>m, <2>5 DEF Withhold, FailPermanent, FailTransient, Fail, Finish, Retry, Counting
    <2>6. CASE Mark(r)
      <3>1. PICK pc \in {"reread", "record"} : Goto(r, pc)
        BY <2>6 DEF Mark
      <3> QED
        BY <1>m, <2>6, <3>1 DEF Mark, queue, trail, Counting
    <2>7. CASE Record(r)
      BY <1>m, <2>7 DEF Record, Finish, Counting
    <2> QED
      BY <1>2, <2>1, <2>2, <2>3, <2>4, <2>5, <2>6, <2>7 DEF RunStep
  <1>3. ASSUME NEW r \in Runs, Faulty(r) PROVE Counting
    <2>1. CASE Crash(r) \/ FailThrows(r) \/ MarkThrows(r)
      BY <1>m, <2>1 DEF Crash, FailThrows, MarkThrows, Retry, queue, trail, Counting
    <2>2. CASE SendUnanswered(r) \/ \E landed \in BOOLEAN : MarkErrs(r, landed)
      <3>1. PICK pc \in {"transient", "again"} : Goto(r, pc)
        BY <2>2 DEF SendUnanswered, MarkErrs, AfterMarkError
      <3> QED
        BY <1>m, <2>2, <3>1 DEF SendUnanswered, MarkErrs, queue, trail, Counting
    <2> QED
      BY <1>3, <2>1, <2>2 DEF Faulty
  <1> QED
    BY <1>1, <1>2, <1>3 DEF Next

(* A failed line is written with the count, or with the maximum.             *)
LEMMA AttemptsStep == ASSUME Inv, Counted, AttemptsCounted, [Next]_vars PROVE AttemptsCounted'
  <1> USE DEF Inv, AttemptsCounted
  <1>0. /\ failures \in Nat /\ attempts \in Nat /\ MaxAttempts \in Nat
    BY SendAssumption DEF TypeOK
  <1>1. ASSUME NEW r \in Runs, run[r] # "idle" PROVE failures + 1 <= MaxAttempts
    <2>1. r \in Working /\ IsFiniteSet(Working)
      BY <1>1 DEF Working, Counted
    <2>2. Cardinality(Working) \in Nat /\ Cardinality(Working) # 0
      BY <2>1, FS_CardinalityType, FS_EmptySet
    <2>3. tries <= MaxAttempts /\ tries \in Nat /\ Cardinality(Working) + failures <= tries
      BY SendAssumption DEF Counted, TypeOK
    <2> QED
      BY <1>0, <2>2, <2>3
  <1>2. CASE \E r \in Runs : Withhold(r) \/ FailPermanent(r) \/ FailTransient(r)
    BY <1>0, <1>1, <1>2 DEF Withhold, FailPermanent, FailTransient, Fail, FailRow, row
  <1>3. CASE ~\E r \in Runs : Withhold(r) \/ FailPermanent(r) \/ FailTransient(r)
    <2>1. failures' = failures /\ (UNCHANGED row \/ status' = "sent")
      BY <1>3 DEF Next, Expire, Reclaim, ToggleRules, DeleteChannel, RunStep, SendSettled, SendTake, CheckLive,
                  SendSucceeds, SendFails, Mark, MarkRow, Reread, Record, Faulty, Crash, SendUnanswered,
                  FailThrows, MarkThrows, MarkErrs, trail, vars
    <2> QED
      BY <2>1 DEF row
  <1> QED
    BY <1>2, <1>3

(* No failed attempt goes uncounted: racing runs and the two ways a verdict   *)
(* is written, one more or the maximum, do not lose one (failDelivery).      *)
THEOREM EveryFailureCounts == Spec => []AttemptsCounted
  <1>1. Init => Counted /\ AttemptsCounted
    <2> SUFFICES ASSUME Init PROVE Counted /\ AttemptsCounted
      OBVIOUS
    <2>1. Working = {} /\ failures = 0 /\ tries = 0 /\ attempts = 0
      BY DEF Init, Working
    <2> QED
      BY <2>1, FS_EmptySet DEF Counted, AttemptsCounted
  <1>2. Inv /\ Counted /\ AttemptsCounted /\ [Next]_vars => Counted' /\ AttemptsCounted'
    BY RunsCount, CountedStep, AttemptsStep DEF Inv
  <1> QED
    BY <1>1, <1>2, Invariance, PTL DEF Spec

-----------------------------------------------------------------------------
(* Sends and their allowance.  A run that lost its lock before its send has   *)
(* had a stray counted for it.  Beside those, one send more is allowed once   *)
(* the row is sent, the job is over, or the holder is about to mark the row.  *)
ToSend == {"check", "send"}
Aside == {r \in Runs : r # holder /\ run[r] \in ToSend}
HolderAt(places) == holder \in Runs /\ run[holder] \in places
Spent == status = "sent" \/ job = "done" \/ HolderAt({"mark", "again"})
Spare == IF HolderAt(ToSend) \/ ~Spent THEN 0 ELSE 1
Answered == received + Cardinality(Aside) <= strays + Spare

LEMMA AsideFinite ==
  ASSUME TypeOK, Counted
  PROVE  /\ IsFiniteSet(Aside) /\ Cardinality(Aside) \in Nat
         /\ \A x : Cardinality(Aside \cup {x}) \in {Cardinality(Aside), Cardinality(Aside) + 1}
         /\ \A x : Cardinality(Aside \ {x}) = IF x \in Aside THEN Cardinality(Aside) - 1 ELSE Cardinality(Aside)
         /\ received \in Nat /\ strays \in Nat /\ Spare \in {0, 1}
  <1>1. Aside \in SUBSET Working /\ IsFiniteSet(Working)
    BY DEF Aside, Working, Counted, ToSend
  <1>2. IsFiniteSet(Aside)
    BY <1>1, FS_Subset
  <1> QED
    BY <1>2, FS_CardinalityType, FS_AddElement, FS_RemoveElement DEF TypeOK, Spare

(* Who is aside after a run has moved, and after the lock was given up.       *)
LEMMA MovedAside ==
  ASSUME TypeOK, NEW r \in Runs, NEW pc, Goto(r, pc), holder' = holder
  PROVE  /\ (run[r] \in ToSend) = (pc \in ToSend) => Aside' = Aside
         /\ pc \notin ToSend => Aside' = Aside \ {r}
         /\ \A q \in Runs : run'[q] = IF q = r THEN pc ELSE run[q]
  BY DEF TypeOK, Goto, Aside, ToSend

LEMMA LetGo ==
  ASSUME TypeOK, holder' = "none",
         \A q \in Runs : (run'[q] \in ToSend) = (run[q] \in ToSend)
  PROVE  Aside' = IF HolderAt(ToSend) THEN Aside \cup {holder} ELSE Aside
  BY SendAssumption DEF TypeOK, Aside, HolderAt, ToSend

LEMMA OneMoreAside ==
  ASSUME TypeOK, Counted, Answered, Aside' = IF HolderAt(ToSend) THEN Aside \cup {holder} ELSE Aside,
         received' = received, strays' + Spare' = strays + 1 \/ (strays' = strays + 1 /\ Spare' \in {0, 1})
  PROVE  Answered'
  <1>1. CASE HolderAt(ToSend)
    <2>1. Spare = 0 /\ Cardinality(Aside') \in {Cardinality(Aside), Cardinality(Aside) + 1}
      BY <1>1, AsideFinite DEF Spare
    <2> QED
      BY <2>1, AsideFinite DEF Answered
  <1>2. CASE ~HolderAt(ToSend)
    <2>1. Aside' = Aside
      BY <1>2
    <2> QED
      BY <2>1, AsideFinite DEF Answered
  <1> QED
    BY <1>1, <1>2

(* A lock that is let go.                                                    *)
LEMMA ReleasedAnswered ==
  ASSUME Inv, Counted, Answered, Expire \/ Reclaim
  PROVE  Answered'
  <1> USE DEF Inv
  <1>0. TypeOK /\ holder' = "none" /\ run' = run /\ status' = status /\ received' = received
        /\ job = "held" /\ holder \in Runs /\ job' # "done" /\ holder' \notin Runs
    BY SendAssumption DEF Expire, Reclaim, Release, row, TypeOK
  <1>1. Aside' = IF HolderAt(ToSend) THEN Aside \cup {holder} ELSE Aside
    BY <1>0, LetGo
  <1>2. Spare' = IF status = "sent" THEN 1 ELSE 0
    BY <1>0 DEF Spare, Spent, HolderAt
  <1>3. CASE Expire
    <2>1. strays' = strays + 1
      BY <1>3 DEF Expire
    <2> QED
      BY <1>0, <1>2, <2>1, OneMoreAside, <1>1
  <1>4. CASE Reclaim
    <2>1. strays' = strays /\ ~HolderAt(ToSend) /\ ~HolderAt({"mark", "again"})
      BY <1>4 DEF Reclaim, HolderAt, ToSend
    <2> QED
      BY <1>0, <1>1, <1>2, <2>1, AsideFinite DEF Answered, Spare, Spent
  <1> QED
    BY <1>3, <1>4

(* A run that is over finishes the job, or puts it back.                     *)
LEMMA FinishedAnswered ==
  ASSUME Inv, Counted, Answered, NEW r \in Runs, run[r] \notin ToSend, Goto(r, "idle"), Finish,
         received' = received, strays' = strays
  PROVE  Answered'
  <1> USE DEF Inv
  <1>1. Aside' = IF HolderAt(ToSend) THEN Aside \cup {holder} ELSE Aside
    <2>1. \A q \in Runs : (run'[q] \in ToSend) = (run[q] \in ToSend)
      BY DEF TypeOK, Goto, ToSend
    <2> QED
      BY <2>1, LetGo DEF Finish
  <1>2. Spare' = 1
    BY SendAssumption DEF Finish, Spare, Spent, HolderAt
  <1> QED
    BY <1>1, <1>2, OneMoreAside

LEMMA RetriedAnswered ==
  ASSUME Inv, Counted, Answered, NEW r \in Runs, run[r] \notin ToSend, Goto(r, "idle"), Retry(r),
         received' = received, (status = "sent") => (status' = "sent"),
         \/ strays' = strays /\ run[r] \notin {"mark", "again"}
         \/ Stray(r) /\ status' = status
  PROVE  Answered'
  <1> USE DEF Inv
  <1>1. \A q \in Runs : run'[q] = IF q = r THEN "idle" ELSE run[q]
    BY DEF TypeOK, Goto
  <1>2. Aside' = Aside
    BY <1>1, SendAssumption DEF Retry, Aside, ToSend, TypeOK
  <1>3. CASE holder # r
    <2>1. holder' = holder /\ job' = job
      BY <1>3 DEF Retry
    <2>2. HolderAt(ToSend)' = HolderAt(ToSend) /\ (Spent => Spent')
      BY <1>1, <1>3, <2>1 DEF HolderAt, Spent
    <2>3. strays' \in {strays, strays + 1}
      BY AsideFinite DEF Stray
    <2> QED
      BY <1>2, <2>2, <2>3, AsideFinite DEF Answered, Spare
  <1>4. CASE holder = r
    <2>1. holder' = "none" /\ "none" \notin Runs /\ job = "held"
      BY <1>4, SendAssumption DEF Retry, TypeOK
    <2>2. Spare' = IF status' = "sent" \/ job' = "done" THEN 1 ELSE 0
      BY <2>1 DEF Spare, Spent, HolderAt
    <2>3. CASE strays' = strays /\ run[r] \notin {"mark", "again"}
      BY <1>2, <1>4, <2>1, <2>2, <2>3, AsideFinite DEF Answered, Spare, Spent, HolderAt
    <2>4. CASE Stray(r) /\ status' = status
      <3>1. strays' = strays + (IF run[r] \in {"mark", "again"} /\ status # "sent" THEN 1 ELSE 0)
        BY <2>4 DEF Stray
      <3> QED
        BY <1>2, <1>4, <2>1, <2>2, <2>4, <3>1, AsideFinite DEF Answered, Spare, Spent, HolderAt
    <2> QED
      BY <2>3, <2>4
  <1> QED
    BY <1>3, <1>4

(* A run that goes on, or whose process dies.                                *)
LEMMA MovingAnswered ==
  ASSUME Inv, Counted, Answered, NEW r \in Runs, NEW pc, Goto(r, pc), UNCHANGED <<job, holder>>,
         status = "sent" => status' = "sent",
         \/ /\ (run[r] \in ToSend) = (pc \in ToSend) /\ received' = received /\ strays' = strays
            /\ run[r] \in {"mark", "again"} => pc \in {"mark", "again"} \/ status' = "sent"
         \/ /\ run[r] \in ToSend /\ pc \notin ToSend
            /\ received' = received /\ strays' = strays
         \/ /\ run[r] \in ToSend /\ pc = "mark"
            /\ received' = received + 1 /\ strays' = strays
         \/ /\ run[r] \in ToSend /\ pc \notin ToSend
            /\ received' = received + 1 /\ strays' = strays + 1
         \/ /\ pc = "idle" /\ received' = received /\ Stray(r) /\ status' = status
  PROVE  Answered'
  <1> USE DEF Inv
  <1>0. \A q \in Runs : run'[q] = IF q = r THEN pc ELSE run[q]
    BY MovedAside
  <1>1. CASE holder # r
    <2>1. \A places : HolderAt(places)' = HolderAt(places)
      BY <1>0, <1>1 DEF HolderAt
    <2>2. Spare \in {0, 1} /\ Spare' \in {0, 1} /\ Spare <= Spare'
      BY <2>1 DEF Spare, Spent
    <2>3. /\ (run[r] \in ToSend) = (pc \in ToSend) => Aside' = Aside
          /\ pc \notin ToSend => Aside' = Aside \ {r}
          /\ run[r] \in ToSend => r \in Aside
      BY <1>1, MovedAside DEF Aside
    <2>4. CASE (run[r] \in ToSend) = (pc \in ToSend) /\ received' = received /\ strays' = strays
      BY <2>2, <2>3, <2>4, AsideFinite DEF Answered
    <2>5. CASE run[r] \in ToSend /\ pc \notin ToSend /\ received' \in {received, received + 1} /\ strays' \in {strays, strays + 1}
      BY <2>2, <2>3, <2>5, AsideFinite DEF Answered
    <2>6. CASE pc = "idle" /\ received' = received /\ Stray(r)
      <3>1. strays' \in {strays, strays + 1} /\ pc \notin ToSend
        BY <2>6, AsideFinite DEF Stray, ToSend
      <3> QED
        BY <2>2, <2>3, <2>6, <3>1, AsideFinite DEF Answered
    <2> QED
      BY <2>4, <2>5, <2>6 DEF ToSend
  <1>2. CASE holder = r
    <2>1. Aside' = Aside
      BY <1>0, <1>2 DEF Aside
    <2>2. \A places : (HolderAt(places) = (run[r] \in places)) /\ (HolderAt(places)' = (pc \in places))
      BY <1>0, <1>2 DEF HolderAt
    <2>3. /\ Spare = IF run[r] \in ToSend \/ ~Spent THEN 0 ELSE 1
          /\ Spare' = IF pc \in ToSend \/ ~Spent' THEN 0 ELSE 1
          /\ Spent = (status = "sent" \/ job = "done" \/ run[r] \in {"mark", "again"})
          /\ Spent' = (status' = "sent" \/ job = "done" \/ pc \in {"mark", "again"})
      BY <2>2 DEF Spare, Spent
    <2>4. CASE run[r] \in ToSend
      <3>1. Spare = 0 /\ Spare' \in {0, 1}
        BY <2>3, <2>4
      <3>2. CASE received' = received /\ strays' = strays
        BY <2>1, <3>1, <3>2, AsideFinite DEF Answered
      <3>3. CASE pc = "mark" /\ received' = received + 1 /\ strays' = strays
        <4>1. Spare' = 1
          BY <2>3, <3>3 DEF ToSend
        <4> QED
          BY <2>1, <3>1, <3>3, <4>1, AsideFinite DEF Answered
      <3>4. CASE received' = received + 1 /\ strays' = strays + 1
        BY <2>1, <3>1, <3>4, AsideFinite DEF Answered
      <3>5. CASE received' = received /\ Stray(r)
        BY <2>1, <3>1, <3>5, AsideFinite DEF Answered, Stray
      <3> QED
        BY <3>2, <3>3, <3>4, <3>5
    <2>5. CASE run[r] \notin ToSend
      <3>1. CASE /\ pc \notin ToSend /\ received' = received /\ strays' = strays
                 /\ run[r] \in {"mark", "again"} => pc \in {"mark", "again"} \/ status' = "sent"
        <4>0. Spent => Spent'
          BY <2>3, <3>1
        <4>1. Spare \in {0, 1} /\ Spare' \in {0, 1} /\ Spare <= Spare'
          BY <2>3, <2>5, <3>1, <4>0
        <4> QED
          BY <2>1, <3>1, <4>1, AsideFinite DEF Answered
      <3>2. CASE pc = "idle" /\ received' = received /\ Stray(r) /\ status' = status
        <4>1. strays' = strays + (IF run[r] \in {"mark", "again"} /\ status # "sent" THEN 1 ELSE 0)
          BY <3>2 DEF Stray
        <4>2. pc \notin ToSend
          BY <3>2 DEF ToSend
        <4> QED
          BY <2>1, <2>3, <2>5, <3>2, <4>1, <4>2, AsideFinite DEF Answered
      <3> QED
        BY <2>5, <3>1, <3>2
    <2> QED
      BY <2>4, <2>5
  <1> QED
    BY <1>1, <1>2

LEMMA AnsweredStep == ASSUME Inv, Counted, Answered, [Next]_vars PROVE Answered'
  <1> USE DEF Inv
  <1>1. CASE Expire \/ Reclaim
    BY <1>1, ReleasedAnswered
  <1>2. CASE ToggleRules \/ DeleteChannel \/ UNCHANGED vars \/ \E r \in Runs : SendSettled(r)
    <2>1. UNCHANGED <<holder, run, status, received, strays>> /\ job' \in {job, "done"}
      BY <1>2 DEF ToggleRules, DeleteChannel, vars, SendSettled, row, queue
    <2>2. Aside' = Aside /\ (job # "held" => ~HolderAt(ToSend))
      BY <2>1, SendAssumption DEF Aside, HolderAt, TypeOK
    <2>3. HolderAt(ToSend)' = HolderAt(ToSend) /\ (Spent => Spent')
      BY <2>1 DEF HolderAt, Spent
    <2> QED
      BY <2>1, <2>2, <2>3, AsideFinite DEF Answered, Spare
  <1>3. ASSUME NEW r \in Runs, SendTake(r) PROVE Answered'
    <2>1. /\ run[r] = "idle" /\ holder = "none" /\ holder' = r /\ status # "sent" /\ job = "ready"
          /\ received' = received /\ strays' = strays
      BY <1>3, SendAssumption DEF SendTake, TakesJob, TypeOK
    <2>2. Aside' = Aside
      BY <1>3, <2>1, SendAssumption DEF SendTake, Goto, Aside, ToSend, TypeOK
    <2>3. Spare = 0
      BY <2>1, SendAssumption DEF Spare, Spent, HolderAt
    <2>4. Spare' \in {0, 1}
      BY DEF Spare
    <2> QED
      BY <2>1, <2>2, <2>3, <2>4, AsideFinite DEF Answered
  <1>4. ASSUME NEW r \in Runs, CheckLive(r) PROVE Answered'
    <2>1. PICK pc \in {"send", "withhold"} : Goto(r, pc)
      BY <1>4 DEF CheckLive
    <2> QED
      BY <1>4, <2>1, MovingAnswered DEF CheckLive, ToSend, row, queue
  <1>5. ASSUME NEW r \in Runs, SendSucceeds(r) \/ SendUnanswered(r) PROVE Answered'
    BY <1>5, MovingAnswered DEF SendSucceeds, SendUnanswered, ToSend, row, queue
  <1>6. ASSUME NEW r \in Runs, NEW kind \in {"transient", "permanent"}, SendFails(r, kind) PROVE Answered'
    BY <1>6, MovingAnswered DEF SendFails, ToSend, row, queue
  <1>7. ASSUME NEW r \in Runs, Withhold(r) \/ FailPermanent(r) \/ Record(r) PROVE Answered'
    BY <1>7, FinishedAnswered DEF Withhold, FailPermanent, Record, Fail, ToSend
  <1>8. ASSUME NEW r \in Runs, FailTransient(r) \/ FailThrows(r) \/ MarkThrows(r) PROVE Answered'
    BY <1>8, RetriedAnswered DEF FailTransient, FailThrows, MarkThrows, Fail, FailRow, ToSend, row
  <1>9. ASSUME NEW r \in Runs, Mark(r) \/ Reread(r) \/ \E landed \in BOOLEAN : MarkErrs(r, landed)
        PROVE  Answered'
    <2>1. PICK pc \in {"reread", "record", "again"} : Goto(r, pc)
      BY <1>9 DEF Mark, Reread, MarkErrs, AfterMarkError
    <2>2. run[r] \notin ToSend /\ pc \notin ToSend
      BY <1>9, <2>1 DEF Mark, Reread, MarkErrs, ToSend
    <2>3. status = "sent" => status' = "sent"
      BY <1>9 DEF Mark, Reread, MarkErrs, MarkRow, row
    <2>4. run[r] \in {"mark", "again"} => pc \in {"mark", "again"} \/ status' = "sent"
      BY <1>9, <2>1 DEF Mark, Reread, MarkErrs, MarkRow, AfterMarkError, Goto, row, TypeOK
    <2> QED
      BY <1>9, <2>1, <2>2, <2>3, <2>4, MovingAnswered DEF Mark, Reread, MarkErrs, queue
  <1>10. ASSUME NEW r \in Runs, Crash(r) PROVE Answered'
    BY <1>10, MovingAnswered DEF Crash, row, queue
  <1> QED
    BY <1>1, <1>2, <1>3, <1>4, <1>5, <1>6, <1>7, <1>8, <1>9, <1>10 DEF Next, RunStep, Faulty

(* A notification goes out again only when the row could not know that it    *)
(* had, for any number of runs, attempts, crashes and lost locks.            *)
THEOREM ResentBlindly == Spec => []ResentOnlyBlind
  <1>1. Init => Counted /\ Answered
    <2> SUFFICES ASSUME Init PROVE Counted /\ Answered
      OBVIOUS
    <2>1. /\ Working = {} /\ Aside = {} /\ failures = 0 /\ tries = 0 /\ received = 0 /\ strays = 0
          /\ Spare = 0
      BY SendAssumption DEF Init, Working, Aside, ToSend, Spare, Spent, HolderAt
    <2> QED
      BY <2>1, FS_EmptySet DEF Counted, Answered
  <1>2. Inv /\ Counted /\ Answered /\ [Next]_vars => Counted' /\ Answered'
    BY RunsCount, CountedStep, AnsweredStep DEF Inv
  <1>3. Inv /\ Counted /\ Answered => ResentOnlyBlind
    BY AsideFinite DEF Inv, Answered, ResentOnlyBlind
  <1> QED
    BY <1>1, <1>2, <1>3, Invariance, PTL DEF Spec
=============================================================================
