------------------------ MODULE AlertEvaluation_proofs ------------------------
(***************************************************************************)
(* Type correctness of the evaluation loop, and: the booking of an active  *)
(* rule is never one that was evaluated already, episodes are told whole,  *)
(* and an instance fires only after its `for`, except past the three steps *)
(* of an edit that go by a stale read, which the theorems name.            *)
(***************************************************************************)
EXTENDS AlertEvaluation, SequenceTheorems, TLAPS

-----------------------------------------------------------------------------
(* Operators *)

(* nextAlertEvaluationAt always moves forward.                              *)
LEMMA GridIsLater ==
    ASSUME NEW t \in Nat
    PROVE  NextGrid(t) \in Nat /\ NextGrid(t) > t
  <1>1. t - Phase \in Int /\ Interval \in Nat \ {0}
    BY InstanceAssumption, EvaluationAssumption
  <1>2. (t - Phase) % Interval \in 0..(Interval - 1)
    BY <1>1
  <1> QED
    BY <1>1, <1>2 DEF NextGrid

LEMMA FreshType == Fresh \in RowType
  BY DEF Fresh, Row, RowType, Null

(* advanceAlertInstance keeps rows well formed, and its events are named.   *)
LEMMA AdvanceType ==
    ASSUME NEW r \in RowType, NEW present \in BOOLEAN, NEW at \in Times
    PROVE  /\ Advance(r, present, at) \in RowType
           /\ Event(r, Advance(r, present, at)) \in
                {"none", "pending", "fired", "resolved", "closed"}
  <1>1. at \in Nat /\ at # Null /\ ForSecs \in Nat /\ ResolveAfter \in Nat
    BY InstanceAssumption, EvaluationAssumption DEF Times, Null
  <1>2. Since(r, at) \in Times /\ Since(r, at) \in Nat /\ Since(r, at) # Null
    BY <1>1, EvaluationAssumption DEF Since, RowType, Times, Null
  <1>0. /\ r \in [status : {"inactive", "pending", "firing"}, since : Times \cup {Null},
                  seen : Times \cup {Null}, absent : Nat, episode : Nat \cup {Null}]
        /\ r.status # "inactive" => r.since # Null /\ r.seen # Null
    BY DEF RowType
  <1>3. StillThere(r, at) \in RowType
    <2> DEFINE Rows == [status : {"inactive", "pending", "firing"}, since : Times \cup {Null},
                        seen : Times \cup {Null}, absent : Nat, episode : Nat \cup {Null}]
               fires == r.status # "firing" /\ at - Since(r, at) >= ForSecs
    <2>1. ASSUME NEW status \in {"pending", "firing"}, NEW since \in Times, since # Null
          PROVE  [r EXCEPT !.status = status, !.since = since, !.seen = at, !.absent = 0]
                   \in RowType
      <3>1. [r EXCEPT !.status = status, !.since = since, !.seen = at, !.absent = 0] \in Rows
        BY <1>0, <1>1
      <3>2. ASSUME NEW x, x = [r EXCEPT !.status = status, !.since = since, !.seen = at,
                                        !.absent = 0]
            PROVE  x.since # Null /\ x.seen # Null
        BY <1>0, <1>1, <2>1, <3>1, <3>2
      <3> QED
        BY <3>1, <3>2 DEF RowType
    <2>2. CASE fires
      BY <1>2, <2>1, <2>2 DEF StillThere
    <2>3. CASE ~fires /\ r.status = "inactive"
      BY <1>2, <2>1, <2>3 DEF StillThere
    <2>4. CASE ~fires /\ r.status # "inactive"
      BY <1>0, <1>2, <2>1, <2>4 DEF StillThere
    <2> QED
      BY <2>2, <2>3, <2>4
  <1>4. NotThere(r) \in RowType
    <2>1. CASE r.status = "inactive"
      BY <2>1 DEF NotThere
    <2>2. CASE r.status # "inactive" /\ r.absent + 1 < ResolveAfter
      <3>1. NotThere(r) = [status |-> r.status, since |-> r.since, seen |-> r.seen,
                           absent |-> r.absent + 1, episode |-> r.episode]
        BY <1>0, <2>2 DEF NotThere
      <3> QED
        BY <1>0, <2>2, <3>1 DEF RowType
    <2>3. CASE r.status # "inactive" /\ ~(r.absent + 1 < ResolveAfter)
      <3>1. NotThere(r) = [status |-> "inactive", since |-> Null, seen |-> r.seen,
                           absent |-> 0, episode |-> r.episode]
        BY <1>0, <2>3 DEF NotThere
      <3> QED
        BY <1>0, <3>1 DEF RowType
    <2> QED
      BY <2>1, <2>2, <2>3
  <1>5. Advance(r, present, at) \in RowType
    BY <1>3, <1>4 DEF Advance
  <1>6. ASSUME NEW next \in RowType
        PROVE  Event(r, next) \in {"none", "pending", "fired", "resolved", "closed"}
    BY DEF Event, RowType
  <1> QED
    BY <1>5, <1>6

LEMMA EpisodeType ==
    ASSUME NEW event, NEW stored \in Nat \cup {Null}, NEW id \in Nat
    PROVE  /\ EpisodeOf(event, stored, id) \in Nat \cup {Null}
           /\ EpisodeAfter(event, stored, id) \in Nat \cup {Null}
  BY DEF EpisodeOf, EpisodeAfter

LEMMA RowEpisode ==
    ASSUME NEW r \in RowType, NEW e \in Nat \cup {Null}
    PROVE  [r EXCEPT !.episode = e] \in RowType
  BY DEF RowType

-----------------------------------------------------------------------------
(* The parts of TypeOK *)

EvalType ==
    [pc : {"idle", "query", "commit"}, due : Nat, version : Nat,
     rows : [Instances -> RowType], at : Times, seen : SUBSET Instances]
ScanType == [pc : {"idle", "enqueue", "stamp"}, at : Times, due : Nat, version : Nat]
EditType ==
    [pc : {"idle", "update", "labels", "adopt", "resume", "enqueue", "delete"},
     version : Nat, next : Nat, rows : [Instances -> RowType]]
Entries == {"pending", "fired", "resolved", "closed"} \X (Nat \cup {Null})

RuleOK == rule \in {"active", "paused", "gone"} /\ version \in Nat /\ failures \in Nat
BookOK == nextEval \in Nat /\ lastEnq \in Nat \cup {Null} /\ jobs \subseteq Nat \X Nat
StoreOK ==
    /\ inst \in [Instances -> RowType]
    /\ journal \in [Instances -> Seq(Entries)]
    /\ looks \in [Instances -> Seq(Times)]
BoundOK == edits \in 0..MaxEdits /\ throws \in 0..MaxThrows

LEMMA Parts ==
    TypeOK <=> /\ now \in Times /\ RuleOK /\ BookOK /\ StoreOK /\ evaluated \subseteq Nat
               /\ eval \in EvalType /\ scan \in ScanType /\ edit \in [Editors -> EditType]
               /\ BoundOK
  BY DEF TypeOK, RuleOK, BookOK, StoreOK, BoundOK, EvalType, ScanType, EditType, Entries

LEMMA PartsNext ==
    TypeOK' <=> /\ now' \in Times /\ RuleOK' /\ BookOK' /\ StoreOK' /\ evaluated' \subseteq Nat
                /\ eval' \in EvalType /\ scan' \in ScanType
                /\ edit' \in [Editors -> EditType] /\ BoundOK'
  BY DEF TypeOK, RuleOK, BookOK, StoreOK, BoundOK, EvalType, ScanType, EditType, Entries

LEMMA Numbers ==
    /\ Times \subseteq Nat /\ 0 \in Times
    /\ MaxEdits \in Nat /\ MaxThrows \in Nat
  BY EvaluationAssumption DEF Times

LEMMA IdleTypes ==
    /\ NoRows \in [Instances -> RowType]
    /\ IdleEval \in EvalType /\ IdleScan \in ScanType /\ IdleEdit \in EditType
  <1>1. NoRows \in [Instances -> RowType]
    BY FreshType DEF NoRows
  <1> QED
    BY <1>1, Numbers DEF IdleEval, Evaluating, EvalType, IdleScan, Scanning, ScanType,
                         IdleEdit, Editing, EditType

LEMMA EnqueuedType ==
    ASSUME BookOK, NEW at \in Nat, NEW v \in Nat
    PROVE  Enqueued(at, v) \subseteq Nat \X Nat
  BY DEF BookOK, Enqueued

LEMMA ClosedType ==
    ASSUME StoreOK, NEW rows \in [Instances -> RowType]
    PROVE  Closed(rows) \in [Instances -> Seq(Entries)]
  <1> SUFFICES ASSUME NEW i \in Instances
               PROVE  (IF rows[i].status = "inactive" THEN journal[i]
                       ELSE Append(journal[i], <<"closed", rows[i].episode>>)) \in Seq(Entries)
    BY DEF Closed
  <1>1. journal[i] \in Seq(Entries)
    BY DEF StoreOK
  <1>2. <<"closed", rows[i].episode>> \in Entries
    BY DEF RowType, Entries
  <1> QED
    BY <1>1, <1>2, AppendProperties

-----------------------------------------------------------------------------
(* One lemma per handler *)

LEMMA InitType == Init => TypeOK
  <1> SUFFICES ASSUME Init PROVE TypeOK
    OBVIOUS
  <1>1. NextGrid(0) \in Nat
    BY GridIsLater
  <1>2. RuleOK /\ BookOK /\ BoundOK /\ now \in Times /\ evaluated \subseteq Nat
    BY <1>1, Numbers DEF Init, RuleOK, BookOK, BoundOK, Null
  <1>3. StoreOK
    <2>1. <<>> \in Seq(Entries) /\ <<>> \in Seq(Times)
      BY EmptySeq
    <2> QED
      BY <2>1, IdleTypes DEF Init, StoreOK
  <1>4. eval \in EvalType /\ scan \in ScanType /\ edit \in [Editors -> EditType]
    BY IdleTypes DEF Init
  <1> QED
    BY <1>2, <1>3, <1>4, Parts

LEMMA CommitStore ==
    ASSUME TypeOK, EvalCommit
    PROVE  StoreOK'
  <1> USE Parts, PartsNext
  <1>0. eval \in EvalType /\ StoreOK
    OBVIOUS
  <1>1. ASSUME NEW i \in Instances
        PROVE  /\ StoredRow(i) \in RowType
               /\ Journaled(i) \in Seq(Entries)
               /\ (IF i \in eval.seen THEN Append(looks[i], eval.at) ELSE <<>>) \in Seq(Times)
    <2>1. /\ eval.rows[i] \in RowType /\ eval.at \in Times /\ (i \in eval.seen) \in BOOLEAN
          /\ inst[i] \in RowType /\ journal[i] \in Seq(Entries) /\ looks[i] \in Seq(Times)
      BY <1>0 DEF EvalType, StoreOK
    <2>2. /\ NextRow(i) \in RowType
          /\ EventOf(i) \in {"none", "pending", "fired", "resolved", "closed"}
      BY <2>1, AdvanceType DEF NextRow, EventOf
    <2>3. Len(journal[i]) + 1 \in Nat
      BY <2>1, LenProperties
    <2>4. eval.rows[i].episode \in Nat \cup {Null} /\ inst[i].episode \in Nat \cup {Null}
      BY <2>1 DEF RowType
    <2>5. /\ EpisodeOf(EventOf(i), eval.rows[i].episode, Len(journal[i]) + 1) \in Nat \cup {Null}
          /\ EpisodeAfter(EventOf(i), eval.rows[i].episode, Len(journal[i]) + 1)
               \in Nat \cup {Null}
      BY <2>3, <2>4, EpisodeType
    <2>6. StoredRow(i) \in RowType
      BY <2>1, <2>2, <2>4, <2>5, RowEpisode DEF StoredRow
    <2>7. Journaled(i) \in Seq(Entries)
      <3>1. EventOf(i) # "none" =>
              <<EventOf(i), EpisodeOf(EventOf(i), eval.rows[i].episode, Len(journal[i]) + 1)>>
                \in Entries
        BY <2>2, <2>5 DEF Entries
      <3> QED
        BY <2>1, <3>1, AppendProperties DEF Journaled
    <2>8. (IF i \in eval.seen THEN Append(looks[i], eval.at) ELSE <<>>) \in Seq(Times)
      BY <2>1, AppendProperties, EmptySeq
    <2> QED
      BY <2>6, <2>7, <2>8
  <1> QED
    BY <1>1 DEF EvalCommit, StoreOK

LEMMA EvalStepType == TypeOK /\ EvalStep => TypeOK'
  <1> SUFFICES ASSUME TypeOK, EvalStep PROVE TypeOK'
    OBVIOUS
  <1> USE Parts, PartsNext
  <1>0. now \in Nat /\ eval.due \in Nat /\ eval.version \in Nat
    BY Numbers DEF EvalType
  <1>1. ASSUME NEW j \in jobs, EvalSkip(j) PROVE TypeOK'
    BY <1>1 DEF EvalSkip, ruleVars, storeVars, boundVars, RuleOK, BookOK, StoreOK, BoundOK
  <1>2. ASSUME NEW j \in jobs, EvalTake(j) PROVE TypeOK'
    <2>1. j[1] \in Nat /\ j[2] \in Nat
      BY DEF BookOK
    <2>2. eval' \in EvalType
      BY <1>2, <2>1, Numbers DEF EvalTake, Evaluating, EvalType, StoreOK
    <2> QED
      BY <1>2, <2>2 DEF EvalTake, ruleVars, storeVars, boundVars, RuleOK, BookOK, StoreOK, BoundOK
  <1>3. ASSUME NEW seen \in SUBSET Instances, EvalQuery(seen) PROVE TypeOK'
    <2>1. eval' \in EvalType
      BY <1>3 DEF EvalQuery, EvalType
    <2> QED
      BY <1>3, <2>1 DEF EvalQuery, ruleVars, bookVars, storeVars, boundVars, RuleOK, BookOK,
                        StoreOK, BoundOK
  <1>4. CASE EvalCommit
    <2>1. BookOK'
      BY <1>0, <1>4, GridIsLater, EnqueuedType DEF EvalCommit, Book, BookOK
    <2> QED
      BY <1>0, <1>4, <2>1, CommitStore, IdleTypes DEF EvalCommit, boundVars, RuleOK, BoundOK
  <1>5. CASE EvalFail
    <2>1. now + RetryDelay(failures + 1) \in Nat
      BY <1>0, <1>5 DEF EvalFail
    <2>2. BookOK'
      BY <1>0, <1>5, <2>1, EnqueuedType DEF EvalFail, Book, BookOK
    <2> QED
      BY <1>0, <1>5, <2>2, IdleTypes DEF EvalFail, storeVars, boundVars, RuleOK, StoreOK, BoundOK
  <1>6. CASE EvalDiscard
    BY <1>6, IdleTypes DEF EvalDiscard, ruleVars, bookVars, storeVars, boundVars, RuleOK, BookOK,
                           StoreOK, BoundOK
  <1> QED
    BY <1>1, <1>2, <1>3, <1>4, <1>5, <1>6 DEF EvalStep

LEMMA ScanStepType == TypeOK /\ ScanStep => TypeOK'
  <1> SUFFICES ASSUME TypeOK, ScanStep PROVE TypeOK'
    OBVIOUS
  <1> USE Parts, PartsNext DEF ruleVars, storeVars, boundVars, RuleOK, StoreOK, BoundOK
  <1>1. CASE ScanRead
    <2>1. scan' \in ScanType
      BY <1>1 DEF ScanRead, Scanning, ScanType, BookOK
    <2> QED
      BY <1>1, <2>1 DEF ScanRead, bookVars, BookOK
  <1>2. CASE ScanEnqueue
    <2>1. scan' \in ScanType /\ scan.due \in Nat /\ scan.version \in Nat
      BY <1>2 DEF ScanEnqueue, ScanType
    <2> QED
      BY <1>2, <2>1, EnqueuedType DEF ScanEnqueue, BookOK
  <1>3. CASE ScanStamp
    <2>1. scan.at \in Nat
      BY Numbers DEF ScanType
    <2> QED
      BY <1>3, <2>1, IdleTypes DEF ScanStamp, BookOK
  <1> QED
    BY <1>1, <1>2, <1>3 DEF ScanStep

LEMMA EndEditType ==
    ASSUME TypeOK, NEW x \in Editors, EndEdit(x)
    PROVE  edit' \in [Editors -> EditType]
  BY Parts, IdleTypes DEF EndEdit

LEMMA EditStepType ==
    ASSUME TypeOK, NEW x \in Editors, EditStep(x)
    PROVE  TypeOK'
  <1> USE Parts, PartsNext
  <1>0. /\ edit[x] \in EditType /\ edit[x].next \in Nat /\ edit[x].version \in Nat
        /\ edit[x].rows \in [Instances -> RowType]
    BY DEF EditType
  <1>1. CASE UpdateRule(x)
    <2>1. version + 1 \in Nat
      BY DEF RuleOK
    <2>2. BookOK'
      BY <1>0, <1>1, <2>1, EnqueuedType DEF UpdateRule, BookOK
    <2>3. StoreOK'
      <3>1. <<>> \in Seq(Times) /\ inst \in [Instances -> RowType]
        BY EmptySeq DEF StoreOK
      <3> QED
        BY <1>1, <3>1, ClosedType, IdleTypes DEF UpdateRule, storeVars, StoreOK
    <2> QED
      BY <1>1, <2>1, <2>2, <2>3, EndEditType
      DEF UpdateRule, EditFrame, boundVars, RuleOK, BoundOK
  <1>6. CASE AdoptRule(x)
    BY <1>6, EndEditType DEF AdoptRule, EditFrame, bookVars, storeVars, boundVars, RuleOK, BookOK,
                             StoreOK, BoundOK
  <1>2. CASE UpdateConflict(x) \/ NotFound(x)
    BY <1>2, EndEditType DEF UpdateConflict, NotFound, EditFrame, ruleVars, bookVars, storeVars,
                             boundVars, RuleOK, BookOK, StoreOK, BoundOK
  <1>3. CASE ResumeRule(x)
    <2>1. edit' \in [Editors -> EditType]
      BY <1>3 DEF ResumeRule, EditType, RuleOK
    <2> QED
      BY <1>0, <1>3, <2>1 DEF ResumeRule, EditFrame, storeVars, boundVars, RuleOK, BookOK, StoreOK,
                              BoundOK
  <1>4. CASE ResumeEnqueue(x)
    BY <1>0, <1>4, EndEditType, EnqueuedType
    DEF ResumeEnqueue, EditFrame, ruleVars, storeVars, boundVars, RuleOK, BookOK, StoreOK, BoundOK
  <1>5. CASE DeleteRule(x)
    <2>1. StoreOK'
      BY <1>0, <1>5, ClosedType, IdleTypes DEF DeleteRule, StoreOK
    <2> QED
      BY <1>5, <2>1, EndEditType DEF DeleteRule, EditFrame, bookVars, boundVars, RuleOK, BookOK,
                                     BoundOK
  <1> QED
    BY <1>1, <1>2, <1>3, <1>4, <1>5, <1>6 DEF EditStep

LEMMA PeopleType == TypeOK /\ (People \/ Faults) => TypeOK'
  <1> SUFFICES ASSUME TypeOK, People \/ Faults PROVE TypeOK'
    OBVIOUS
  <1> USE Parts, PartsNext
  <1>0. now \in Nat
    BY Numbers
  <1>1. CASE PauseRule
    <2>1. ASSUME NEW i \in Instances
          PROVE  (IF inst[i].status = "inactive" THEN inst[i]
                  ELSE [Fresh EXCEPT !.seen = inst[i].seen]) \in RowType
      BY DEF StoreOK, RowType, Fresh, Row, Null
    <2>2. StoreOK'
      <3>1. <<>> \in Seq(Times) /\ inst \in [Instances -> RowType]
        BY EmptySeq DEF StoreOK
      <3> QED
        BY <1>1, <2>1, <3>1, ClosedType DEF PauseRule, StoreOK
    <2> QED
      BY <1>1, <2>2, Numbers DEF PauseRule, bookVars, RuleOK, BookOK, BoundOK
  <1>2. ASSUME NEW x \in Editors, NEW kind \in Mutations, StartEdit(x, kind) PROVE TypeOK'
    <2>1. NextGrid(now) \in Nat
      BY <1>0, GridIsLater
    <2>2. kind \in {"update", "labels", "adopt", "resume", "delete"}
      BY <1>2, EvaluationAssumption DEF StartEdit
    <2>3. (IF kind = "delete" THEN inst ELSE NoRows) \in [Instances -> RowType]
      BY IdleTypes DEF StoreOK
    <2>4. Editing(kind, version, NextGrid(now), IF kind = "delete" THEN inst ELSE NoRows)
            \in EditType
      BY <2>1, <2>2, <2>3 DEF Editing, EditType, RuleOK
    <2>5. edit' \in [Editors -> EditType]
      BY <1>2, <2>4 DEF StartEdit
    <2> QED
      BY <1>2, <2>5, Numbers DEF StartEdit, ruleVars, bookVars, storeVars, RuleOK, BookOK, StoreOK,
                                 BoundOK
  <1>3. ASSUME NEW again \in BOOLEAN, EvalThrow(again) PROVE TypeOK'
    <2>1. eval.due \in Nat /\ eval.version \in Nat
      BY DEF EvalType
    <2>2. BookOK'
      BY <1>3, <2>1 DEF EvalThrow, BookOK
    <2> QED
      BY <1>3, <2>2, IdleTypes, Numbers DEF EvalThrow, ruleVars, storeVars, RuleOK, StoreOK, BoundOK
  <1>4. ASSUME NEW x \in Editors, ResumeDies(x) PROVE TypeOK'
    BY <1>4, EndEditType, Numbers DEF ResumeDies, ruleVars, bookVars, storeVars, RuleOK, BookOK,
                                      StoreOK, BoundOK
  <1> QED
    BY <1>1, <1>2, <1>3, <1>4 DEF People, Faults

LEMMA TickType == TypeOK /\ Tick => TypeOK'
  <1> SUFFICES ASSUME TypeOK, Tick PROVE TypeOK'
    OBVIOUS
  <1>1. now' \in Times
    BY Parts, EvaluationAssumption DEF Tick, Times
  <1> QED
    BY <1>1, Parts, PartsNext DEF Tick, ruleVars, bookVars, storeVars, boundVars, RuleOK, BookOK,
                                  StoreOK, BoundOK

LEMMA WorkType == TypeOK /\ Work => TypeOK'
  BY EvalStepType, ScanStepType, EditStepType, PeopleType DEF Work

LEMMA StutterType == TypeOK /\ UNCHANGED vars => TypeOK'
  BY Parts, PartsNext DEF vars, ruleVars, bookVars, storeVars, boundVars, RuleOK, BookOK, StoreOK, BoundOK

(* Every row, job and handler keeps its type, whatever is edited, lost or    *)
(* delayed.                                                                  *)
THEOREM EvaluationTypeCorrect == Spec => []TypeOK
  <1>1. TypeOK /\ [Next]_vars => TypeOK'
    BY TickType, WorkType, StutterType DEF Next
  <1> QED
    BY InitType, <1>1, PTL DEF Spec

-----------------------------------------------------------------------------
(* What is booked lies ahead of everything evaluated.                        *)

(* An edit that writes the booking it computed when that instant has been    *)
(* evaluated meanwhile.                                                      *)
StaleBooking ==
    \E x \in Editors : (UpdateRule(x) \/ ResumeRule(x)) /\ edit[x].next \in evaluated

(* Evaluations are of the past, the one in progress included.                *)
Ahead ==
    /\ \A d \in evaluated : d <= now
    /\ eval.pc # "idle" => eval.due <= now
    /\ NextIsNew

LEMMA AheadInit == Init => Ahead
  BY DEF Init, Ahead, NextIsNew, IdleEval, Evaluating

LEMMA AheadEval == TypeOK /\ Ahead /\ EvalStep => Ahead'
  <1> SUFFICES ASSUME TypeOK, Ahead, EvalStep PROVE Ahead'
    OBVIOUS
  <1>0. now \in Nat /\ eval.due \in Nat /\ jobs \subseteq Nat \X Nat /\ evaluated \subseteq Nat
    BY Parts, Numbers DEF EvalType, BookOK
  <1>1. ASSUME NEW j \in jobs, EvalSkip(j) PROVE Ahead'
    BY <1>1 DEF EvalSkip, ruleVars, Ahead, NextIsNew
  <1>2. ASSUME NEW j \in jobs, EvalTake(j) PROVE Ahead'
    BY <1>2 DEF EvalTake, Runnable, Evaluating, ruleVars, Ahead, NextIsNew
  <1>3. ASSUME NEW seen \in SUBSET Instances, EvalQuery(seen) PROVE Ahead'
    <2>1. eval'.due = eval.due
      BY <1>3, Parts DEF EvalQuery, EvalType
    <2> QED
      BY <1>3, <2>1 DEF EvalQuery, ruleVars, bookVars, Ahead, NextIsNew
  <1>4. CASE EvalCommit
    <2>1. nextEval' \in Nat /\ nextEval' > now
      BY <1>0, <1>4, GridIsLater DEF EvalCommit, Book
    <2>2. \A d \in evaluated' : d <= now
      BY <1>0, <1>4 DEF EvalCommit, Ahead
    <2> QED
      BY <1>0, <1>4, <2>1, <2>2 DEF EvalCommit, IdleEval, Evaluating, Ahead, NextIsNew
  <1>5. CASE EvalFail
    <2>1. nextEval' \in Nat /\ nextEval' > now
      BY <1>0, <1>5 DEF EvalFail, Book
    <2>2. \A d \in evaluated' : d <= now
      BY <1>0, <1>5 DEF EvalFail, Ahead
    <2> QED
      BY <1>0, <1>5, <2>1, <2>2 DEF EvalFail, IdleEval, Evaluating, Ahead, NextIsNew
  <1>6. CASE EvalDiscard
    BY <1>6 DEF EvalDiscard, IdleEval, Evaluating, ruleVars, bookVars, Ahead, NextIsNew
  <1> QED
    BY <1>1, <1>2, <1>3, <1>4, <1>5, <1>6 DEF EvalStep

LEMMA AheadScan == Ahead /\ ScanStep => Ahead'
  BY DEF ScanStep, ScanRead, ScanEnqueue, ScanStamp, ruleVars, bookVars, Ahead, NextIsNew

LEMMA AheadEdit ==
    ASSUME Ahead, NEW x \in Editors, EditStep(x), ~StaleBooking
    PROVE  Ahead'
  <1>1. CASE UpdateRule(x) \/ ResumeRule(x)
    <2>1. edit[x].next \notin evaluated
      BY <1>1 DEF StaleBooking
    <2> QED
      BY <1>1, <2>1 DEF UpdateRule, ResumeRule, EditFrame, Ahead, NextIsNew
  <1>2. CASE AdoptRule(x) \/ UpdateConflict(x) \/ NotFound(x) \/ ResumeEnqueue(x) \/ DeleteRule(x)
    BY <1>2 DEF AdoptRule, UpdateConflict, NotFound, ResumeEnqueue, DeleteRule, EditFrame, ruleVars,
                bookVars, Ahead, NextIsNew
  <1> QED
    BY <1>1, <1>2 DEF EditStep

LEMMA AheadOthers == Ahead /\ (People \/ Faults) => Ahead'
  <1> SUFFICES ASSUME Ahead, People \/ Faults PROVE Ahead'
    OBVIOUS
  <1>1. CASE People
    BY <1>1 DEF People, PauseRule, StartEdit, ruleVars, bookVars, Ahead, NextIsNew
  <1>2. CASE Faults
    BY <1>2 DEF Faults, EvalThrow, ResumeDies, IdleEval, Evaluating, ruleVars, bookVars, Ahead,
                NextIsNew
  <1> QED
    BY <1>1, <1>2

LEMMA AheadTick == TypeOK /\ Ahead /\ Tick => Ahead'
  <1> SUFFICES ASSUME TypeOK, Ahead, Tick PROVE Ahead'
    OBVIOUS
  <1>1. now' = now + 1 /\ now \in Nat /\ evaluated \subseteq Nat /\ eval.due \in Nat
    BY Parts, Numbers DEF Tick, EvalType
  <1> QED
    BY <1>1 DEF Tick, ruleVars, bookVars, Ahead, NextIsNew

(* However late handlers and requests are, whatever fails, dies or is edited *)
(* and wherever the clock moves, an active rule is booked for an instant it  *)
(* was not evaluated at; the one exception is an edit that is overtaken by   *)
(* the evaluation of the very instant it is about to book.                   *)
THEOREM BookedAnew == Spec /\ [][~StaleBooking]_vars => []NextIsNew
  <1>1. Init => TypeOK /\ Ahead
    BY InitType, AheadInit
  <1>2. TypeOK /\ Ahead /\ [Next]_vars /\ [~StaleBooking]_vars => TypeOK' /\ Ahead'
    <2> SUFFICES ASSUME TypeOK, Ahead, [Next]_vars, [~StaleBooking]_vars PROVE TypeOK' /\ Ahead'
      OBVIOUS
    <2>1. CASE UNCHANGED vars
      BY <2>1, StutterType DEF vars, ruleVars, bookVars, Ahead, NextIsNew
    <2>2. CASE Tick
      BY <2>2, TickType, AheadTick
    <2>3. CASE Work /\ ~UNCHANGED vars
      BY <2>3, WorkType, AheadEval, AheadScan, AheadOthers, AheadEdit DEF Work
    <2> QED
      BY <2>1, <2>2, <2>3 DEF Next
  <1>3. Ahead => NextIsNew
    BY DEF Ahead
  <1> QED
    BY <1>1, <1>2, <1>3, PTL DEF Spec

-----------------------------------------------------------------------------
(* Episodes are told whole.                                                 *)

(* A resume that makes current again what a running evaluation read before  *)
(* the pause, and a delete that read the open instances before the last     *)
(* commit: neither locks the rule first.                                    *)
StaleResume ==
    \E x \in Editors : /\ ResumeRule(x) /\ eval.pc # "idle"
                       /\ eval.version = version /\ eval.rows # inst
StaleDelete == \E x \in Editors : DeleteRule(x) /\ Closed(edit[x].rows) # Closed(inst)

(* What a commit that applies was computed from is what is stored.          *)
ReadKept ==
    eval.pc # "idle" =>
        /\ eval.version <= version
        /\ eval.version = version /\ rule = "active" => eval.rows = inst

(* An episode is named after the place of its first event in the journal.   *)
Named(s) == \A x \in 1..Len(s) : s[x][2] \in 1..Len(s)
Whole(s, row) == ToldWhole(s, row) /\ Named(s)
Episodes == \A i \in Instances : Whole(journal[i], inst[i])

LEMMA ToldAppended ==
    ASSUME NEW s \in Seq(Entries), NEW event, NEW episode, NEW entry \in Entries
    PROVE  /\ \A n \in 0..Len(s) :
                Told(Append(s, entry), n, event, episode) <=> Told(s, n, event, episode)
           /\ Told(Append(s, entry), Len(s) + 1, event, episode)
                <=> Told(s, Len(s), event, episode) \/ entry = <<event, episode>>
           /\ Len(Append(s, entry)) = Len(s) + 1 /\ Append(s, entry)[Len(s) + 1] = entry
           /\ \A x \in 1..Len(s) : Append(s, entry)[x] = s[x]
           /\ Append(s, entry) \in Seq(Entries)
  <1>1. /\ Len(s) \in Nat /\ Len(Append(s, entry)) = Len(s) + 1
        /\ Append(s, entry)[Len(s) + 1] = entry
        /\ \A x \in 1..Len(s) : Append(s, entry)[x] = s[x]
        /\ Append(s, entry) \in Seq(Entries)
    BY AppendProperties, LenProperties
  <1>2. \A n \in 0..Len(s) :
          Told(Append(s, entry), n, event, episode) <=> Told(s, n, event, episode)
    BY <1>1 DEF Told
  <1>3. Told(Append(s, entry), Len(s) + 1, event, episode)
          <=> Told(s, Len(s), event, episode) \/ entry = <<event, episode>>
    <2>1. 1..(Len(s) + 1) = (1..Len(s)) \cup {Len(s) + 1}
      BY <1>1
    <2> QED
      BY <1>1, <2>1 DEF Told
  <1> QED
    BY <1>1, <1>2, <1>3

(* A journal stays whole under an event that follows what was told of its   *)
(* episode, when the row it leaves agrees with the episode.                 *)
LEMMA WholeAppended ==
    ASSUME NEW s \in Seq(Entries), NEW row, NEW next,
           NEW event \in {"pending", "fired", "resolved", "closed"}, NEW episode \in 1..(Len(s) + 1),
           Whole(s, row), Follows(s, Len(s), event, episode),
           row.status # "inactive" => row.episode = episode,
           IF next.status = "inactive"
             THEN next.episode = Null /\ event \in {"resolved", "closed"}
             ELSE /\ next.episode = episode /\ event \in {"pending", "fired"}
                  /\ next.status = "firing"
                       <=> event = "fired" \/ Told(s, Len(s), "fired", episode)
    PROVE  Whole(Append(s, <<event, episode>>), next)
  <1> DEFINE entry == <<event, episode>>
             t == Append(s, entry)
  <1>0. Len(s) \in Nat
    BY LenProperties
  <1>1. entry \in Entries /\ entry[1] = event /\ entry[2] = episode
    BY <1>0 DEF Entries
  <1>2. /\ Len(t) = Len(s) + 1 /\ t[Len(s) + 1] = entry /\ t \in Seq(Entries)
        /\ \A x \in 1..Len(s) : t[x] = s[x]
    BY <1>1, ToldAppended
  <1>3. /\ \A ev, ep : \A n \in 0..Len(s) : Told(t, n, ev, ep) <=> Told(s, n, ev, ep)
        /\ \A ev, ep : Told(t, Len(t), ev, ep)
                         <=> Told(s, Len(s), ev, ep) \/ (event = ev /\ episode = ep)
    <2>1. ASSUME NEW ev, NEW ep
          PROVE  /\ \A n \in 0..Len(s) : Told(t, n, ev, ep) <=> Told(s, n, ev, ep)
                 /\ Told(t, Len(t), ev, ep) <=> Told(s, Len(s), ev, ep) \/ entry = <<ev, ep>>
      <3>1. /\ \A n \in 0..Len(s) :
                 Told(Append(s, entry), n, ev, ep) <=> Told(s, n, ev, ep)
            /\ Told(Append(s, entry), Len(s) + 1, ev, ep)
                 <=> Told(s, Len(s), ev, ep) \/ entry = <<ev, ep>>
        BY <1>1, ToldAppended
      <3> QED
        BY <1>2, <3>1
    <2> QED
      BY <2>1
  <1> HIDE DEF t, entry
  <1>4. \A x \in 1..Len(t) : Follows(t, x - 1, t[x][1], t[x][2])
    <2>1. \A ev, ep : \A n \in 0..Len(s) : Follows(t, n, ev, ep) <=> Follows(s, n, ev, ep)
      BY <1>3 DEF Follows, Ended
    <2>2. \A x \in 1..Len(s) : x - 1 \in 0..Len(s) /\ Follows(s, x - 1, s[x][1], s[x][2])
      BY <1>0 DEF Whole, ToldWhole
    <2>3. ASSUME NEW x \in 1..Len(t), x # Len(t) PROVE Follows(t, x - 1, t[x][1], t[x][2])
      <3>1. x \in 1..Len(s)
        BY <1>0, <1>2, <2>3
      <3> QED
        BY <1>2, <2>1, <2>2, <3>1
    <2>4. Follows(t, Len(t) - 1, t[Len(t)][1], t[Len(t)][2])
      <3>1. Len(t) - 1 = Len(s) /\ Len(s) \in 0..Len(s)
        BY <1>0, <1>2
      <3> QED
        BY <1>1, <1>2, <2>1, <3>1
    <2> QED
      BY <2>3, <2>4
  <1>5. \A ep : Ended(s, Len(s), ep) => Ended(t, Len(t), ep)
    BY <1>3 DEF Ended
  <1>6. \A x \in 1..Len(t) :
          Ended(t, Len(t), t[x][2]) \/ (next.status # "inactive" /\ t[x][2] = next.episode)
    <2>1. Ended(t, Len(t), episode) \/ (next.status # "inactive" /\ episode = next.episode)
      BY <1>3 DEF Ended
    <2>2. ASSUME NEW x \in 1..Len(s)
          PROVE  Ended(t, Len(t), t[x][2]) \/ t[x][2] = episode
      BY <1>2, <1>5 DEF Whole, ToldWhole
    <2>3. ASSUME NEW x \in 1..Len(t) PROVE x \in 1..Len(s) \/ t[x][2] = episode
      BY <1>0, <1>1, <1>2
    <2> QED
      BY <2>1, <2>2, <2>3
  <1>7. IF next.status = "inactive" THEN next.episode = Null ELSE OpenAs(t, next)
    BY <1>3 DEF OpenAs, Ended, Follows
  <1>8. Named(t)
    BY <1>0, <1>1, <1>2 DEF Whole, Named
  <1> QED
    BY <1>4, <1>6, <1>7, <1>8 DEF Whole, ToldWhole, t, entry

(* What a row that is not inactive says of its episode.                     *)
LEMMA OpenEpisode ==
    ASSUME NEW s \in Seq(Entries), NEW row, Whole(s, row), row.status # "inactive"
    PROVE  /\ row.episode \in 1..Len(s) /\ row.episode # Null
           /\ ~Ended(s, Len(s), row.episode)
           /\ row.status = "firing" <=> Told(s, Len(s), "fired", row.episode)
           /\ Told(s, Len(s), "pending", row.episode) \/ Told(s, Len(s), "fired", row.episode)
           /\ Follows(s, Len(s), "closed", row.episode)
           /\ row.status = "firing" => Follows(s, Len(s), "resolved", row.episode)
           /\ row.status # "firing" => Follows(s, Len(s), "fired", row.episode)
  <1>1. OpenAs(s, row)
    BY DEF Whole, ToldWhole
  <1>2. PICK y \in 1..Len(s) : s[y] \in {<<"pending", row.episode>>, <<"fired", row.episode>>}
    BY <1>1 DEF OpenAs, Told
  <1>3. row.episode \in 1..Len(s)
    BY <1>2 DEF Whole, Named
  <1>4. row.episode # Null
    BY <1>3, LenProperties DEF Null
  <1> QED
    BY <1>1, <1>3, <1>4 DEF OpenAs, Follows

(* Nothing was told yet of an episode the next event opens.                 *)
LEMMA NewEpisode ==
    ASSUME NEW s \in Seq(Entries), NEW row, Whole(s, row)
    PROVE  /\ \A event : ~Told(s, Len(s), event, Len(s) + 1)
           /\ Follows(s, Len(s), "pending", Len(s) + 1) /\ Follows(s, Len(s), "fired", Len(s) + 1)
  <1>1. \A event : ~Told(s, Len(s), event, Len(s) + 1)
    <2> SUFFICES ASSUME NEW event, NEW y \in 1..Len(s), s[y] = <<event, Len(s) + 1>>
                 PROVE  FALSE
      BY DEF Told
    <2>1. Len(s) + 1 \in 1..Len(s)
      BY DEF Whole, Named
    <2> QED
      BY <2>1, LenProperties
  <1> QED
    BY <1>1 DEF Follows, Ended

(* The transitions advanceAlertInstance makes, and the event of each.       *)
Moves(r, n) ==
    /\ n.episode = r.episode
    /\ \/ Event(r, n) = "none" /\ n.status = r.status
       \/ Event(r, n) = "pending" /\ r.status = "inactive" /\ n.status = "pending"
       \/ Event(r, n) = "fired" /\ r.status \in {"inactive", "pending"} /\ n.status = "firing"
       \/ Event(r, n) = "resolved" /\ r.status = "firing" /\ n.status = "inactive"
       \/ Event(r, n) = "closed" /\ r.status = "pending" /\ n.status = "inactive"

LEMMA Transitions ==
    ASSUME NEW r \in RowType, NEW present \in BOOLEAN, NEW at \in Times
    PROVE  Moves(r, Advance(r, present, at))
  <1> DEFINE n == Advance(r, present, at)
  <1>1. /\ r \in [status : {"inactive", "pending", "firing"}, since : Times \cup {Null},
                   seen : Times \cup {Null}, absent : Nat, episode : Nat \cup {Null}]
        /\ n \in RowType
    BY AdvanceType DEF RowType
  <1>2. n.status \in {"inactive", "pending", "firing"}
    BY <1>1 DEF RowType
  <1>3. /\ n.episode = r.episode
        /\ r.status = "firing" => n.status \in {"firing", "inactive"}
    <2>1. CASE present
      BY <1>1, <2>1 DEF Advance, StillThere
    <2>2. CASE ~present
      BY <1>1, <2>2 DEF Advance, NotThere
    <2> QED
      BY <2>1, <2>2
  <1> QED
    BY <1>1, <1>2, <1>3 DEF Event, Moves

LEMMA SameRow ==
    ASSUME NEW s, NEW row, NEW next, Whole(s, row),
           next.status = row.status, next.episode = row.episode
    PROVE  Whole(s, next)
  BY DEF Whole, ToldWhole, OpenAs

LEMMA CommitWhole ==
    ASSUME TypeOK, Episodes, ReadKept, EvalCommit
    PROVE  Episodes'
  <1>0. eval \in EvalType /\ StoreOK
    BY Parts
  <1>1. eval.rows = inst
    BY DEF EvalCommit, Applies, Current, ReadKept
  <1>2. ASSUME NEW i \in Instances
        PROVE  Whole(Journaled(i), StoredRow(i))
    <2> DEFINE s == journal[i]
               r == inst[i]
               n == NextRow(i)
    <2>1. /\ s \in Seq(Entries) /\ r \in RowType /\ Whole(s, r) /\ Len(s) \in Nat
          /\ (i \in eval.seen) \in BOOLEAN /\ eval.at \in Times
      BY <1>0, LenProperties DEF StoreOK, EvalType, Episodes
    <2>2. n = Advance(r, i \in eval.seen, eval.at) /\ EventOf(i) = Event(r, n)
      BY <1>1 DEF NextRow, EventOf
    <2> HIDE DEF s, r, n
    <2>3. n \in RowType
      BY <2>1, <2>2, AdvanceType
    <2>4. Moves(r, n)
      BY <2>1, <2>2, Transitions
    <2>5. ASSUME NEW e
          PROVE  [n EXCEPT !.episode = e].status = n.status /\ [n EXCEPT !.episode = e].episode = e
      BY <2>3 DEF RowType
    <2>6. r.status = "inactive" => r.episode = Null
      BY <2>1 DEF Whole, ToldWhole
    <2>7. r.status # "inactive" =>
            /\ r.episode \in 1..Len(s) /\ r.episode # Null
            /\ ~Ended(s, Len(s), r.episode)
            /\ r.status = "firing" <=> Told(s, Len(s), "fired", r.episode)
            /\ Told(s, Len(s), "pending", r.episode) \/ Told(s, Len(s), "fired", r.episode)
            /\ Follows(s, Len(s), "closed", r.episode)
            /\ r.status = "firing" => Follows(s, Len(s), "resolved", r.episode)
            /\ r.status # "firing" => Follows(s, Len(s), "fired", r.episode)
      BY <2>1, OpenEpisode
    <2>8. /\ \A event : ~Told(s, Len(s), event, Len(s) + 1)
          /\ Follows(s, Len(s), "pending", Len(s) + 1) /\ Follows(s, Len(s), "fired", Len(s) + 1)
      BY <2>1, NewEpisode
    <2>9. /\ Journaled(i) =
               IF Event(r, n) = "none" THEN s
               ELSE Append(s, <<Event(r, n), EpisodeOf(Event(r, n), r.episode, Len(s) + 1)>>)
          /\ StoredRow(i) =
               IF Event(r, n) = "none" /\ n.status = "inactive" THEN r
               ELSE [n EXCEPT !.episode =
                       IF Event(r, n) = "none" THEN r.episode
                       ELSE EpisodeAfter(Event(r, n), r.episode, Len(s) + 1)]
      BY <1>1, <2>2 DEF Journaled, StoredRow, s, r, n
    <2>10. CASE Event(r, n) = "none"
      <3>1. StoredRow(i).status = r.status /\ StoredRow(i).episode = r.episode
        BY <2>4, <2>5, <2>9, <2>10 DEF Moves
      <3> QED
        BY <2>1, <2>9, <2>10, <3>1, SameRow
    <2>11. ASSUME Event(r, n) # "none" PROVE Whole(Journaled(i), StoredRow(i))
      <3> DEFINE ep == EpisodeOf(Event(r, n), r.episode, Len(s) + 1)
                 next == StoredRow(i)
      <3>1. /\ next.status = n.status
            /\ next.episode = IF Terminal(Event(r, n)) THEN Null ELSE ep
        BY <2>4, <2>5, <2>9, <2>11 DEF EpisodeAfter, Moves
      <3>2. /\ ep \in 1..(Len(s) + 1) /\ Follows(s, Len(s), Event(r, n), ep)
            /\ r.status # "inactive" => r.episode = ep
        <4>1. CASE r.status = "inactive"
          <5>1. Event(r, n) \in {"pending", "fired"} /\ ep = Len(s) + 1
            BY <2>4, <2>6, <2>11, <4>1 DEF EpisodeOf, Moves
          <5> QED
            BY <2>1, <2>8, <4>1, <5>1
        <4>2. CASE r.status # "inactive"
          <5>1. Event(r, n) \in {"fired", "resolved", "closed"} /\ ep = r.episode
            BY <2>4, <2>7, <2>11, <4>2 DEF EpisodeOf, Moves
          <5>2. ep \in 1..(Len(s) + 1)
            BY <2>1, <2>7, <4>2, <5>1
          <5>3. Follows(s, Len(s), Event(r, n), r.episode)
            BY <2>4, <2>7, <2>11, <4>2 DEF Moves
          <5> QED
            BY <5>1, <5>2, <5>3
        <4> QED
          BY <4>1, <4>2
      <3>3. IF next.status = "inactive"
              THEN next.episode = Null /\ Event(r, n) \in {"resolved", "closed"}
              ELSE /\ next.episode = ep /\ Event(r, n) \in {"pending", "fired"}
                   /\ next.status = "firing"
                        <=> Event(r, n) = "fired" \/ Told(s, Len(s), "fired", ep)
        <4>1. Event(r, n) = "pending" => ~Told(s, Len(s), "fired", ep)
          BY <3>2 DEF Follows
        <4> QED
          BY <2>4, <2>11, <3>1, <4>1 DEF Terminal, Moves
      <3>4. Event(r, n) \in {"pending", "fired", "resolved", "closed"}
        BY <2>4, <2>11 DEF Moves
      <3>5. Journaled(i) = Append(s, <<Event(r, n), ep>>)
        BY <2>9, <2>11
      <3> HIDE DEF ep, next
      <3>6. Whole(Append(s, <<Event(r, n), ep>>), next)
        BY <2>1, <3>2, <3>3, <3>4, WholeAppended
      <3> QED
        BY <3>5, <3>6 DEF next
    <2> QED
      BY <2>10, <2>11
  <1> QED
    BY <1>2 DEF EvalCommit, Episodes

(* Closing what is open leaves every journal whole.                         *)
LEMMA ClosedWhole ==
    ASSUME StoreOK, Episodes, NEW i \in Instances, NEW next,
           next.status = "inactive", next.episode = Null
    PROVE  Whole(Closed(inst)[i], next)
  <1>1. journal[i] \in Seq(Entries) /\ Whole(journal[i], inst[i])
    BY DEF StoreOK, Episodes
  <1>2. CASE inst[i].status = "inactive"
    <2>1. inst[i].episode = Null
      BY <1>1, <1>2 DEF Whole, ToldWhole
    <2> QED
      BY <1>1, <1>2, <2>1, SameRow DEF Closed
  <1>3. CASE inst[i].status # "inactive"
    <2>1. /\ inst[i].episode \in 1..Len(journal[i])
          /\ Follows(journal[i], Len(journal[i]), "closed", inst[i].episode)
      BY <1>1, <1>3, OpenEpisode
    <2>2. inst[i].episode \in 1..(Len(journal[i]) + 1)
      BY <1>1, <2>1, LenProperties
    <2>3. Whole(Append(journal[i], <<"closed", inst[i].episode>>), next)
      BY <1>1, <2>1, <2>2, WholeAppended
    <2> QED
      BY <1>3, <2>3 DEF Closed
  <1> QED
    BY <1>2, <1>3

LEMMA KeptInit == Init => ReadKept
  BY DEF Init, ReadKept, IdleEval, Evaluating

LEMMA KeptStep ==
    ASSUME TypeOK, ReadKept, [Next]_vars, ~StaleResume \/ UNCHANGED vars
    PROVE  ReadKept'
  <1>0. /\ version \in Nat /\ eval \in EvalType /\ eval.version \in Nat
        /\ IdleEval.pc = "idle"
    BY Parts DEF RuleOK, EvalType, IdleEval, Evaluating
  <1>1. ASSUME UNCHANGED <<rule, version, inst>>, UNCHANGED eval \/ eval' = IdleEval
        PROVE  ReadKept'
    BY <1>0, <1>1 DEF ReadKept
  <1>2. CASE Tick \/ ScanStep
    BY <1>1, <1>2 DEF Tick, ScanStep, ScanRead, ScanEnqueue, ScanStamp, ruleVars, storeVars
  <1>3. CASE EvalStep
    <2>1. ASSUME NEW j \in jobs, EvalTake(j) PROVE ReadKept'
      BY <1>0, <2>1 DEF EvalTake, Current, Evaluating, ruleVars, storeVars, ReadKept
    <2>2. ASSUME NEW seen \in SUBSET Instances, EvalQuery(seen) PROVE ReadKept'
      <3>1. eval'.rows = eval.rows /\ eval'.version = eval.version
        BY <1>0, <2>2 DEF EvalQuery, EvalType
      <3> QED
        BY <2>2, <3>1 DEF EvalQuery, ruleVars, storeVars, ReadKept
    <2>3. CASE EvalCommit
      BY <1>0, <2>3 DEF EvalCommit, ReadKept
    <2>4. CASE EvalFail \/ EvalDiscard \/ \E j \in jobs : EvalSkip(j)
      BY <1>1, <2>4 DEF EvalFail, EvalDiscard, EvalSkip, ruleVars, storeVars
    <2> QED
      BY <1>3, <2>1, <2>2, <2>3, <2>4 DEF EvalStep
  <1>4. ASSUME NEW x \in Editors, EditStep(x) PROVE ReadKept'
    <2>1. CASE UpdateRule(x) \/ AdoptRule(x)
      BY <1>0, <2>1 DEF UpdateRule, AdoptRule, EditFrame, ReadKept
    <2>2. CASE UpdateConflict(x) \/ NotFound(x) \/ ResumeEnqueue(x)
      BY <1>1, <2>2 DEF UpdateConflict, NotFound, ResumeEnqueue, EditFrame, ruleVars, storeVars
    <2>3. CASE ResumeRule(x)
      <3>1. ~StaleResume \/ (UNCHANGED eval /\ UNCHANGED <<rule, version, inst>>)
        BY DEF vars, ruleVars, storeVars
      <3> QED
        BY <1>1, <2>3, <3>1 DEF StaleResume, ResumeRule, EditFrame, storeVars, ReadKept
    <2>4. CASE DeleteRule(x)
      BY <2>4 DEF DeleteRule, EditFrame, ReadKept
    <2> QED
      BY <1>4, <2>1, <2>2, <2>3, <2>4 DEF EditStep
  <1>5. CASE PauseRule
    BY <1>5 DEF PauseRule, ReadKept
  <1>6. ASSUME NEW x \in Editors, NEW kind \in Mutations, StartEdit(x, kind) PROVE ReadKept'
    BY <1>1, <1>6 DEF StartEdit, ruleVars, storeVars
  <1>7. CASE Faults
    BY <1>1, <1>7 DEF Faults, EvalThrow, ResumeDies, ruleVars, storeVars
  <1>8. CASE UNCHANGED vars
    BY <1>1, <1>8 DEF vars, ruleVars, storeVars
  <1> QED
    BY <1>2, <1>3, <1>4, <1>5, <1>6, <1>7, <1>8 DEF Next, Work, People

LEMMA WholeInit == Init => Episodes
  <1>1. Whole(<<>>, Fresh)
    BY DEF Whole, ToldWhole, Named, Fresh, Row
  <1> QED
    BY <1>1 DEF Init, Episodes, NoRows

(* Only a commit, a relabel, a pause and a delete write the journal or the  *)
(* status and episode of a row.                                             *)
LEMMA WholeStep ==
    ASSUME TypeOK, Episodes, ReadKept, [Next]_vars, ~StaleDelete \/ UNCHANGED vars
    PROVE  Episodes'
  <1>0. StoreOK /\ Fresh.status = "inactive" /\ Fresh.episode = Null
    BY Parts DEF Fresh, Row
  <1>1. ASSUME UNCHANGED storeVars PROVE Episodes'
    BY <1>1 DEF storeVars, Episodes
  <1>2. ASSUME journal' = Closed(inst), inst' = NoRows PROVE Episodes'
    <2> SUFFICES ASSUME NEW i \in Instances PROVE Whole(journal'[i], inst'[i])
      BY DEF Episodes
    <2> QED
      BY <1>0, <1>2, ClosedWhole DEF NoRows
  <1>3. CASE Tick \/ ScanStep
    BY <1>1, <1>3 DEF Tick, ScanStep, ScanRead, ScanEnqueue, ScanStamp
  <1>4. CASE EvalStep
    <2>1. CASE EvalCommit
      BY <2>1, CommitWhole
    <2>2. CASE ~EvalCommit
      BY <1>1, <1>4, <2>2 DEF EvalStep, EvalSkip, EvalTake, EvalQuery, EvalFail, EvalDiscard
    <2> QED
      BY <2>1, <2>2
  <1>5. ASSUME NEW x \in Editors, EditStep(x) PROVE Episodes'
    <2>1. CASE UpdateRule(x)
      BY <1>1, <1>2, <2>1 DEF UpdateRule
    <2>2. CASE DeleteRule(x)
      <3>1. ~StaleDelete \/ UNCHANGED storeVars
        BY DEF vars
      <3> QED
        BY <1>1, <1>2, <2>2, <3>1 DEF StaleDelete, DeleteRule
    <2>3. CASE AdoptRule(x) \/ UpdateConflict(x) \/ NotFound(x) \/ ResumeRule(x)
                 \/ ResumeEnqueue(x)
      BY <1>1, <2>3 DEF AdoptRule, UpdateConflict, NotFound, ResumeRule, ResumeEnqueue
    <2> QED
      BY <1>5, <2>1, <2>2, <2>3 DEF EditStep
  <1>6. CASE PauseRule
    <2> SUFFICES ASSUME NEW i \in Instances PROVE Whole(journal'[i], inst'[i])
      BY DEF Episodes
    <2>1. inst'[i].status = "inactive" /\ inst'[i].episode = Null
      BY <1>0, <1>6 DEF PauseRule, StoreOK, Fresh, Row, Episodes, Whole, ToldWhole
    <2> QED
      BY <1>0, <1>6, <2>1, ClosedWhole DEF PauseRule
  <1>7. ASSUME NEW x \in Editors, NEW kind \in Mutations, StartEdit(x, kind) PROVE Episodes'
    BY <1>1, <1>7 DEF StartEdit
  <1>8. CASE Faults
    BY <1>1, <1>8 DEF Faults, EvalThrow, ResumeDies
  <1>9. CASE UNCHANGED vars
    BY <1>1, <1>9 DEF vars
  <1> QED
    BY <1>3, <1>4, <1>5, <1>6, <1>7, <1>8, <1>9 DEF Next, Work, People

LEMMA TypeStep == TypeOK /\ [Next]_vars => TypeOK'
  BY TickType, WorkType, StutterType DEF Next

(* The episodes of every instance are told whole, whatever is edited, lost,  *)
(* late or thrown, except past a resume or a delete that goes by what it or  *)
(* an evaluation read before the last change.                                *)
THEOREM EpisodesTold == Spec /\ [][~StaleResume /\ ~StaleDelete]_vars => []EpisodesWellFormed
  <1>1. Init => TypeOK /\ Episodes /\ ReadKept
    BY InitType, WholeInit, KeptInit
  <1>2. /\ TypeOK /\ Episodes /\ ReadKept
        /\ [Next]_vars /\ [~StaleResume /\ ~StaleDelete]_vars
        => TypeOK' /\ Episodes' /\ ReadKept'
    BY TypeStep, WholeStep, KeptStep
  <1>3. Episodes => EpisodesWellFormed
    BY DEF Episodes, Whole, EpisodesWellFormed
  <1> QED
    BY <1>1, <1>2, <1>3, PTL DEF Spec

-----------------------------------------------------------------------------
(* An alert fires only after its `for`.                                     *)

(* The run of sightings a stored row stands for: it began at `since`, ended  *)
(* at `seen`, and nothing was missed in between.                            *)
Unbroken(s, k) ==
    \A m \in k..(Len(s) - 1) : s[m + 1] - s[m] <= Interval * MissedEvaluationTolerance
Run(s, row) ==
    \E k \in 1..Len(s) : s[k] = row.since /\ s[Len(s)] = row.seen /\ Unbroken(s, k)
Sighted(s, row) == row.status # "inactive" /\ row.absent = 0 => Run(s, row)
Sightings == \A i \in Instances : Sighted(looks[i], inst[i])

LEMMA RunAppended ==
    ASSUME NEW s \in Seq(Times), NEW r \in RowType, NEW at \in Times, Sighted(s, r)
    PROVE  Run(Append(s, at), StillThere(r, at))
  <1> DEFINE t == Append(s, at)
             n == StillThere(r, at)
  <1>1. /\ r \in [status : {"inactive", "pending", "firing"}, since : Times \cup {Null},
                   seen : Times \cup {Null}, absent : Nat, episode : Nat \cup {Null}]
        /\ r.status # "inactive" => r.since # Null /\ r.seen # Null
    BY DEF RowType
  <1>2. n.since = Since(r, at) /\ n.seen = at
    BY <1>1 DEF StillThere
  <1>3. /\ Len(s) \in Nat /\ Len(t) = Len(s) + 1 /\ t[Len(t)] = at
        /\ \A x \in 1..Len(s) : t[x] = s[x] /\ s[x] \in Times
    BY AppendProperties, LenProperties, ElementOfSeq
  <1> HIDE DEF t, n
  <1>4. CASE Since(r, at) = at
    <2>1. Len(t) \in 1..Len(t) /\ Unbroken(t, Len(t))
      BY <1>3 DEF Unbroken
    <2> QED
      BY <1>2, <1>3, <1>4, <2>1 DEF Run, t, n
  <1>5. CASE Since(r, at) # at
    <2>1. /\ r.status # "inactive" /\ ~(r.absent > 0) /\ ~Unobserved(r, at)
          /\ Since(r, at) = r.since
      BY <1>5 DEF Since
    <2>2. r.absent = 0 /\ r.seen # Null
      BY <1>1, <2>1
    <2>3. PICK k \in 1..Len(s) : s[k] = r.since /\ s[Len(s)] = r.seen /\ Unbroken(s, k)
      BY <2>1, <2>2 DEF Sighted, Run
    <2>4. at - s[Len(s)] <= Interval * MissedEvaluationTolerance
      <3>1. r.seen \in Nat /\ at \in Nat /\ Interval * MissedEvaluationTolerance \in Nat
        <4>1. Interval * 2 \in Nat
          BY InstanceAssumption
        <4>2. r.seen \in Times
          BY <1>1, <2>2
        <4> QED
          BY <4>1, <4>2, Numbers DEF MissedEvaluationTolerance
      <3> QED
        BY <2>1, <2>2, <2>3, <3>1 DEF Unobserved
    <2>5. Unbroken(t, k)
      <3> SUFFICES ASSUME NEW m \in k..(Len(t) - 1)
                   PROVE  t[m + 1] - t[m] <= Interval * MissedEvaluationTolerance
        BY DEF Unbroken
      <3>1. CASE m = Len(s)
        BY <1>3, <2>3, <2>4, <3>1
      <3>2. CASE m # Len(s)
        <4>1. m \in k..(Len(s) - 1) /\ m \in 1..Len(s) /\ m + 1 \in 1..Len(s)
          BY <1>3, <2>3, <3>2
        <4> QED
          BY <1>3, <2>3, <4>1 DEF Unbroken
      <3> QED
        BY <3>1, <3>2
    <2>6. k \in 1..Len(t) /\ t[k] = r.since
      BY <1>3, <2>3
    <2> QED
      BY <1>2, <1>3, <2>1, <2>5, <2>6 DEF Run, t, n
  <1> QED
    BY <1>4, <1>5

LEMMA CommitSighted ==
    ASSUME TypeOK, Sightings, ReadKept, EvalCommit, NEW i \in Instances
    PROVE  /\ Sighted(looks'[i], inst'[i])
           /\ EventOf(i) = "fired" => HeldFor(looks'[i])
  <1> DEFINE r == inst[i]
             n == NextRow(i)
             s == looks[i]
  <1>0. /\ eval \in EvalType /\ StoreOK /\ eval.rows = inst /\ Sighted(s, r)
        /\ inst'[i] = StoredRow(i)
        /\ looks'[i] = IF i \in eval.seen THEN Append(s, eval.at) ELSE <<>>
    BY Parts DEF EvalCommit, Applies, Current, ReadKept, Sightings
  <1>1. /\ s \in Seq(Times) /\ r \in RowType /\ eval.at \in Times
        /\ n = Advance(r, i \in eval.seen, eval.at) /\ EventOf(i) = Event(r, n)
    BY <1>0 DEF StoreOK, EvalType, NextRow, EventOf
  <1>2. n \in RowType /\ Moves(r, n)
    <2>1. (i \in eval.seen) \in BOOLEAN
      BY <1>0 DEF EvalType
    <2> QED
      BY <1>1, <2>1, AdvanceType, Transitions
  <1>3. /\ n.status # "inactive" =>
             /\ StoredRow(i).status = n.status /\ StoredRow(i).since = n.since
             /\ StoredRow(i).seen = n.seen /\ StoredRow(i).absent = n.absent
        /\ n.status = "inactive" => StoredRow(i).status = "inactive"
    <2>1. ASSUME NEW e
          PROVE  /\ [n EXCEPT !.episode = e].status = n.status
                 /\ [n EXCEPT !.episode = e].since = n.since
                 /\ [n EXCEPT !.episode = e].seen = n.seen
                 /\ [n EXCEPT !.episode = e].absent = n.absent
      BY <1>2 DEF RowType
    <2>2. EventOf(i) = "none" /\ n.status = "inactive" => inst[i].status = "inactive"
      BY <1>1, <1>2 DEF Moves
    <2> QED
      BY <2>1, <2>2 DEF StoredRow
  <1>4. CASE i \in eval.seen
    <2>1. n = StillThere(r, eval.at) /\ looks'[i] = Append(s, eval.at)
      BY <1>0, <1>1, <1>4 DEF Advance
    <2>2. Run(looks'[i], n)
      BY <1>0, <1>1, <2>1, RunAppended
    <2>3. Sighted(looks'[i], inst'[i])
      BY <1>0, <1>3, <2>2 DEF Sighted, Run
    <2>4. ASSUME EventOf(i) = "fired" PROVE HeldFor(looks'[i])
      <3>1. r.status # "firing" /\ n.status = "firing"
        BY <1>1, <1>2, <2>4 DEF Moves
      <3>2. eval.at - Since(r, eval.at) >= ForSecs
        <4>1. r \in [status : {"inactive", "pending", "firing"}, since : Times \cup {Null},
                     seen : Times \cup {Null}, absent : Nat, episode : Nat \cup {Null}]
          BY <1>1 DEF RowType
        <4> QED
          BY <2>1, <3>1, <4>1 DEF StillThere
      <3>3. n.since = Since(r, eval.at) /\ n.seen = eval.at
        BY <1>1, <2>1 DEF StillThere, RowType
      <3>4. PICK k \in 1..Len(looks'[i]) :
              /\ looks'[i][k] = n.since /\ looks'[i][Len(looks'[i])] = n.seen
              /\ Unbroken(looks'[i], k)
        BY <2>2 DEF Run
      <3> QED
        BY <3>2, <3>3, <3>4 DEF HeldFor, Unbroken
    <2> QED
      BY <2>3, <2>4
  <1>5. CASE i \notin eval.seen
    <2>1. n = NotThere(r)
      BY <1>1, <1>5 DEF Advance
    <2>2. n.status = "inactive" \/ n.absent # 0
      <3>1. r \in [status : {"inactive", "pending", "firing"}, since : Times \cup {Null},
                   seen : Times \cup {Null}, absent : Nat, episode : Nat \cup {Null}]
        BY <1>1 DEF RowType
      <3> QED
        BY <2>1, <3>1 DEF NotThere
    <2>3. EventOf(i) # "fired"
      <3>1. n.status = r.status \/ n.status = "inactive"
        BY <1>1, <2>1 DEF NotThere, RowType
      <3> QED
        BY <1>1, <1>2, <3>1 DEF Moves
    <2> QED
      BY <1>0, <1>3, <2>2, <2>3 DEF Sighted
  <1> QED
    BY <1>4, <1>5

(* Only a commit journals a fire.                                           *)
LEMMA FiresOnCommit ==
    ASSUME TypeOK, [Next]_vars, NEW i \in Instances, Fires(journal[i], journal'[i])
    PROVE  EvalCommit /\ EventOf(i) = "fired"
  <1>0. StoreOK /\ journal[i] \in Seq(Entries)
    BY Parts DEF StoreOK
  <1>1. PICK x \in (Len(journal[i]) + 1)..Len(journal'[i]) : journal'[i][x][1] = "fired"
    BY DEF Fires
  <1>2. ASSUME UNCHANGED journal PROVE FALSE
    BY <1>0, <1>1, <1>2, LenProperties
  <1>3. ASSUME NEW entry \in Entries, journal'[i] = Append(journal[i], entry)
        PROVE  entry[1] = "fired"
    <2>1. /\ Len(journal[i]) \in Nat /\ Len(journal'[i]) = Len(journal[i]) + 1
          /\ journal'[i][Len(journal[i]) + 1] = entry
      BY <1>0, <1>3, AppendProperties, LenProperties
    <2>2. x = Len(journal[i]) + 1
      BY <1>1, <2>1
    <2> QED
      BY <1>1, <2>1, <2>2
  <1>4. ASSUME NEW rows \in [Instances -> RowType], journal' = Closed(rows) PROVE FALSE
    <2>1. \/ journal'[i] = journal[i]
          \/ journal'[i] = Append(journal[i], <<"closed", rows[i].episode>>)
      BY <1>4 DEF Closed
    <2>2. <<"closed", rows[i].episode>> \in Entries /\ <<"closed", rows[i].episode>>[1] # "fired"
      BY DEF RowType, Entries
    <2>3. journal'[i] # journal[i]
      BY <1>0, <1>1, LenProperties
    <2> QED
      BY <1>3, <2>1, <2>2, <2>3
  <1>5. CASE EvalStep
    <2>1. CASE EvalCommit
      <3>1. journal'[i] = Journaled(i) /\ journal'[i] # journal[i]
        BY <1>0, <1>1, <2>1, LenProperties DEF EvalCommit
      <3>2. EventOf(i) # "none"
        BY <3>1 DEF Journaled
      <3> DEFINE entry == <<EventOf(i),
                            EpisodeOf(EventOf(i), eval.rows[i].episode, Len(journal[i]) + 1)>>
      <3>3. journal'[i] = Append(journal[i], entry)
        BY <3>1, <3>2 DEF Journaled
      <3>4. entry \in Entries
        <4>1. /\ eval.rows[i] \in RowType /\ eval.at \in Times
              /\ (i \in eval.seen) \in BOOLEAN /\ eval.rows[i].episode \in Nat \cup {Null}
          BY Parts DEF EvalType, RowType
        <4>2. EventOf(i) \in {"pending", "fired", "resolved", "closed"}
          BY <3>2, <4>1, AdvanceType DEF EventOf, NextRow
        <4>3. Len(journal[i]) + 1 \in Nat
          BY <1>0, LenProperties
        <4> QED
          BY <4>1, <4>2, <4>3, EpisodeType DEF Entries
      <3> HIDE DEF entry
      <3>5. entry[1] = "fired"
        BY <1>3, <3>3, <3>4
      <3> QED
        BY <2>1, <3>5 DEF entry
    <2>2. CASE ~EvalCommit
      BY <1>2, <1>5, <2>2
      DEF EvalStep, EvalSkip, EvalTake, EvalQuery, EvalFail, EvalDiscard, storeVars
    <2> QED
      BY <2>1, <2>2
  <1>6. ASSUME NEW x2 \in Editors, EditStep(x2) PROVE FALSE
    <2>1. inst \in [Instances -> RowType] /\ edit[x2].rows \in [Instances -> RowType]
      BY Parts DEF StoreOK, EditType
    <2>2. ~UNCHANGED journal
      BY <1>2
    <2>3. ASSUME NEW rows \in [Instances -> RowType] PROVE journal' # Closed(rows)
      BY <1>4
    <2> QED
      BY <1>6, <2>1, <2>2, <2>3
      DEF EditStep, UpdateRule, AdoptRule, UpdateConflict, ResumeRule, ResumeEnqueue, DeleteRule,
          NotFound, storeVars
  <1>7. CASE PauseRule
    BY <1>0, <1>4, <1>7 DEF PauseRule, StoreOK
  <1>8. CASE Tick \/ ScanStep \/ Faults \/ UNCHANGED vars
              \/ \E x2 \in Editors, kind \in Mutations : StartEdit(x2, kind)
    BY <1>2, <1>8 DEF Tick, ScanStep, ScanRead, ScanEnqueue, ScanStamp, Faults, EvalThrow,
                      ResumeDies, StartEdit, vars, storeVars
  <1> QED
    BY <1>5, <1>6, <1>7, <1>8 DEF Next, Work, People

LEMMA SightingsStep ==
    ASSUME TypeOK, Sightings, ReadKept, [Next]_vars
    PROVE  Sightings'
  <1>0. StoreOK /\ Fresh.status = "inactive"
    BY Parts DEF Fresh, Row
  <1>1. ASSUME UNCHANGED <<inst, looks>> PROVE Sightings'
    BY <1>1 DEF Sightings
  <1>2. ASSUME \A i \in Instances : inst'[i].status = "inactive" PROVE Sightings'
    BY <1>2 DEF Sightings, Sighted
  <1>3. CASE EvalStep
    <2>1. CASE EvalCommit
      BY <2>1, CommitSighted DEF Sightings
    <2>2. CASE ~EvalCommit
      BY <1>1, <1>3, <2>2
      DEF EvalStep, EvalSkip, EvalTake, EvalQuery, EvalFail, EvalDiscard, storeVars
    <2> QED
      BY <2>1, <2>2
  <1>4. ASSUME NEW x \in Editors, EditStep(x) PROVE Sightings'
    <2>1. CASE inst' = NoRows
      BY <1>0, <1>2, <2>1 DEF NoRows
    <2>2. CASE inst' # NoRows
      BY <1>1, <1>4, <2>2
      DEF EditStep, UpdateRule, AdoptRule, UpdateConflict, ResumeRule, ResumeEnqueue, DeleteRule,
          NotFound, storeVars
    <2> QED
      BY <2>1, <2>2
  <1>5. CASE PauseRule
    BY <1>0, <1>2, <1>5 DEF PauseRule, StoreOK, Fresh, Row
  <1>6. CASE Tick \/ ScanStep \/ Faults \/ UNCHANGED vars
              \/ \E x \in Editors, kind \in Mutations : StartEdit(x, kind)
    BY <1>1, <1>6 DEF Tick, ScanStep, ScanRead, ScanEnqueue, ScanStamp, Faults, EvalThrow,
                      ResumeDies, StartEdit, vars, storeVars
  <1> QED
    BY <1>3, <1>4, <1>5, <1>6 DEF Next, Work, People

(* An instance fires only at the end of an unbroken run of sightings that   *)
(* spans `for`, whatever is edited, deleted, lost or late, except past a    *)
(* resume that lets an evaluation store what it read before the pause.      *)
THEOREM FiresHeld == Spec /\ [][~StaleResume]_vars => ForHonest
  <1> DEFINE Honest == \A i \in Instances : Fires(journal[i], journal'[i]) => HeldFor(looks'[i])
             Inv == TypeOK /\ Sightings /\ ReadKept
  <1>1. Init => Inv
    <2>1. Fresh.status = "inactive"
      BY DEF Fresh, Row
    <2>2. Init => Sightings
      BY <2>1 DEF Init, NoRows, Sightings, Sighted
    <2> QED
      BY <2>2, InitType, KeptInit
  <1>2. Inv /\ [Next]_vars /\ [~StaleResume]_vars => Inv' /\ [Honest]_vars
    <2> SUFFICES ASSUME Inv, [Next]_vars, [~StaleResume]_vars
                 PROVE  Inv' /\ Honest
      OBVIOUS
    <2>1. Honest
      BY FiresOnCommit, CommitSighted
    <2> QED
      BY <2>1, TypeStep, KeptStep, SightingsStep
  <1> HIDE DEF Inv, Honest
  <1>3. Spec /\ [][~StaleResume]_vars => [][Honest]_vars
    BY <1>1, <1>2, PTL DEF Spec
  <1> QED
    BY <1>3 DEF ForHonest, Honest

-----------------------------------------------------------------------------
(* Where nobody resumes or deletes rules, as in the run, neither step exists. *)

Allowed == \A x \in Editors : edit[x].pc \in Mutations \cup {"idle", "enqueue"}

LEMMA AllowedStep == TypeOK /\ Allowed /\ [Next]_vars => Allowed'
  <1> SUFFICES ASSUME TypeOK, Allowed, [Next]_vars PROVE Allowed'
    OBVIOUS
  <1>0. edit \in [Editors -> EditType]
    BY Parts
  <1>1. ASSUME UNCHANGED edit PROVE Allowed'
    BY <1>1 DEF Allowed
  <1>2. ASSUME NEW x \in Editors, EndEdit(x) PROVE Allowed'
    BY <1>0, <1>2 DEF EndEdit, IdleEdit, Editing, Allowed
  <1>3. CASE Tick \/ ScanStep \/ EvalStep \/ PauseRule \/ UNCHANGED vars
              \/ \E again \in BOOLEAN : EvalThrow(again)
    BY <1>1, <1>3 DEF Tick, ScanStep, ScanRead, ScanEnqueue, ScanStamp, EvalStep, EvalSkip, EvalTake,
                      EvalQuery, EvalCommit, EvalFail, EvalDiscard, PauseRule, EvalThrow, vars
  <1>4. ASSUME NEW x \in Editors, ResumeDies(x) PROVE Allowed'
    BY <1>2, <1>4 DEF ResumeDies
  <1>5. ASSUME NEW x \in Editors, EditStep(x) PROVE Allowed'
    <2>1. CASE ResumeRule(x)
      BY <1>0, <2>1 DEF ResumeRule, Allowed, EditType
    <2>2. CASE ~ResumeRule(x)
      BY <1>2, <1>5, <2>2 DEF EditStep, UpdateRule, AdoptRule, UpdateConflict, ResumeEnqueue,
                              DeleteRule, NotFound
    <2> QED
      BY <2>1, <2>2
  <1>6. ASSUME NEW x \in Editors, NEW kind \in Mutations, StartEdit(x, kind) PROVE Allowed'
    BY <1>0, <1>6 DEF StartEdit, Editing, Allowed
  <1> QED
    BY <1>3, <1>4, <1>5, <1>6 DEF Next, Work, People, Faults

(* Updates, relabels, adoptions and pauses, whatever evaluation they come    *)
(* upon, keep the episodes whole and `for` honest.                           *)
THEOREM EditedSafely ==
    "resume" \notin Mutations /\ "delete" \notin Mutations
        => (Spec => []EpisodesWellFormed /\ ForHonest)
  <1> SUFFICES ASSUME "resume" \notin Mutations, "delete" \notin Mutations
               PROVE  Spec => []EpisodesWellFormed /\ ForHonest
    OBVIOUS
  <1>1. Init => Allowed
    BY DEF Init, Allowed, IdleEdit, Editing
  <1>2. Allowed => ~StaleResume /\ ~StaleDelete
    BY DEF Allowed, StaleResume, StaleDelete, ResumeRule, DeleteRule
  <1>3. Spec => [][~StaleResume /\ ~StaleDelete]_vars /\ [][~StaleResume]_vars
    BY <1>1, <1>2, InitType, TypeStep, AllowedStep, PTL DEF Spec
  <1> QED
    BY <1>3, EpisodesTold, FiresHeld, PTL
=============================================================================
