------------------- MODULE OrganizationProvisioning_proofs -------------------
(***************************************************************************)
(* The safety properties of OrganizationProvisioning, for any number of    *)
(* runs, attempts and restarts.                                            *)
(***************************************************************************)
EXTENDS OrganizationProvisioning, TLAPS

(* Jobs and runs follow the row: none before it exists, and the drops only   *)
(* once it is gone.                                                          *)
Grounded ==
    /\ org = "none" => /\ \A j \in Jobs : attempts[j] = NoJob
                       /\ \A r \in Runs : run[r].pc = "idle"
                       /\ scan = "idle"
    /\ attempts["deprovision"] # NoJob => org = "gone"
    /\ \A r \in Runs :
        /\ run[r].job = "deprovision" =>
            org = "gone" /\ run[r].pc \in {"drop", "drop user", "done", "listener"}
        /\ run[r].pc \in {"drop", "drop user"} => org = "gone"
        /\ run[r].pc = "listener" => lock.by # r

(* While the organization exists, what a run has built stays built.          *)
Built ==
    \A r \in Runs : org # "gone" =>
        /\ run[r].pc \in {"policies", "verify", "mark"} => account = "granted"
        /\ run[r].pc \in {"verify", "mark"} => policies

(* The run that holds the queue can only be building in a deleted             *)
(* organization if the deprovision job has not been started.                 *)
Building == {"create", "grant", "policies", "verify", "mark", "look"}
BuilderFirst ==
    \A r \in Runs : org = "gone" /\ Mine(r) /\ run[r].pc \in Building =>
        /\ attempts["deprovision"] # NoJob
        /\ \A q \in Runs : run[q].job = "provision"

(* What remains of a deleted organization is still ahead of the deprovision   *)
(* job, or of a run that lost its lock and has not failed.                   *)
Ahead(past) ==
    /\ attempts["deprovision"] # NoJob
    /\ \A r \in Runs : run[r].job = "deprovision" => run[r].pc \notin past
Late(pcs) == \E r \in Runs : ~Mine(r) /\ run[r].pc \in pcs
PoliciesOwed ==
    org = "gone" /\ policies /\ ~abandoned =>
        Ahead({"drop user", "done"}) \/ Late({"verify", "mark", "look", "drop"})
AccountOwed ==
    org = "gone" /\ account # "absent" /\ ~abandoned =>
        \/ Ahead({"done"})
        \/ Late({"grant", "policies", "verify", "mark", "look", "drop", "drop user"})

IInv ==
    /\ TypeOK /\ Grounded
    /\ Built /\ ReadyServes
    /\ BuilderFirst /\ PoliciesOwed /\ AccountOwed

(* The counters stay within their bounds, and no count is NoJob.              *)
LEMMA Attempts ==
    /\ {0, MaxAttempts} \cup 0 .. MaxAttempts \subseteq {NoJob} \cup 0 .. MaxAttempts
    /\ \A n \in 0 .. MaxAttempts : n # NoJob
    /\ \A n \in 0 .. MaxAttempts - 1 : n # NoJob /\ n + 1 \in 0 .. MaxAttempts
    /\ 0 # NoJob
  BY ProvisioningAssumption DEF NoJob

LEMMA RestartsLeft == \A n \in 0 .. MaxRestarts : n < MaxRestarts => n + 1 \in 0 .. MaxRestarts
  BY ProvisioningAssumption

(* The initial states satisfy the invariant.                                 *)
LEMMA InitIInv == Init => IInv
<1> SUFFICES ASSUME Init PROVE IInv
  OBVIOUS
<1> USE ProvisioningAssumption DEF Init, Free, Resting, Jobs, Working
<1>1. TypeOK
  <2>1. attempts \in [Jobs -> {NoJob} \cup 0 .. MaxAttempts] /\ slow \in [Jobs -> BOOLEAN]
    OBVIOUS
  <2>2. restarts \in 0 .. MaxRestarts
    OBVIOUS
  <2>3. lock \in [by : Runs \cup {"nobody"}, job : Jobs]
    OBVIOUS
  <2>4. run \in [Runs -> [pc : Working \cup {"idle", "done", "listener"}, job : Jobs]]
    OBVIOUS
  <2> QED
    BY <2>1, <2>2, <2>3, <2>4 DEF TypeOK
<1>2. Grounded /\ Built /\ ReadyServes
  BY DEF Grounded, Built, ReadyServes
<1>3. BuilderFirst
  BY DEF BuilderFirst, Mine
<1>4. PoliciesOwed /\ AccountOwed
  BY DEF PoliciesOwed, AccountOwed
<1> QED
  BY <1>1, <1>2, <1>3, <1>4 DEF IInv

(* Each step keeps the types.                                                *)
LEMMA StepTypes == TypeOK /\ [Next]_vars => TypeOK'
<1> SUFFICES ASSUME TypeOK, [Next]_vars PROVE TypeOK'
  OBVIOUS
<1> USE ProvisioningAssumption, Attempts DEF access, queue, requests, Jobs, TypeOK, Working, Resting, Free
<1>1. CASE Create
  BY <1>1 DEF Create, Enqueue
<1>2. CASE Delete
  BY <1>2 DEF Delete, Enqueue, Exists
<1>3. CASE Open
  BY <1>3 DEF Open, Exists
<1>4. CASE Save
  BY <1>4 DEF Save, Exists, SavedFlag
<1>5. CASE Restart
  <2>1. restarts' \in 0 .. MaxRestarts
    BY <1>5, RestartsLeft DEF Restart
  <2>2. attempts' \in [Jobs -> {NoJob} \cup 0 .. MaxAttempts] /\ slow' \in [Jobs -> BOOLEAN]
    BY <1>5 DEF Restart
  <2> QED
    BY <1>5, <2>1, <2>2 DEF Restart
<1>6. CASE ScanRead
  BY <1>6 DEF ScanRead
<1>7. CASE ScanEnqueue
  BY <1>7 DEF ScanEnqueue, Enqueue
<1>8. CASE Cap
  BY <1>8 DEF Cap, Prompt, Held, Retried
<1>9. CASE ExpireDead
  BY <1>9 DEF ExpireDead, Free
<1>10. CASE ExpireAlive
  BY <1>10 DEF ExpireAlive, Free
<1>11. ASSUME NEW j \in Jobs, Elapse(j) PROVE TypeOK'
  BY <1>11 DEF Elapse
<1>12. ASSUME NEW j \in Jobs, NEW r \in Runs, Take(r, j) PROVE TypeOK'
  BY <1>12 DEF Take, Due, Free
<1>13. ASSUME NEW r \in Runs, Read(r) PROVE TypeOK'
  BY <1>13 DEF Read, Goes
<1>14. ASSUME NEW r \in Runs, CreateUser(r) PROVE TypeOK'
  BY <1>14 DEF CreateUser, Goes
<1>15. ASSUME NEW r \in Runs, Grant(r) PROVE TypeOK'
  BY <1>15 DEF Grant, Goes
<1>16. ASSUME NEW r \in Runs, CreatePolicies(r) PROVE TypeOK'
  BY <1>16 DEF CreatePolicies, Goes
<1>17. ASSUME NEW r \in Runs, Verify(r) PROVE TypeOK'
  BY <1>17 DEF Verify, Goes
<1>18. ASSUME NEW r \in Runs, Mark(r) PROVE TypeOK'
  BY <1>18 DEF Mark, Goes
<1>19. ASSUME NEW r \in Runs, Look(r) PROVE TypeOK'
  BY <1>19 DEF Look, Goes, Exists
<1>20. ASSUME NEW r \in Runs, DropPolicies(r) PROVE TypeOK'
  BY <1>20 DEF DropPolicies, Goes
<1>21. ASSUME NEW r \in Runs, DropUser(r) PROVE TypeOK'
  BY <1>21 DEF DropUser, Goes
<1>22. ASSUME NEW r \in Runs, Finish(r) PROVE TypeOK'
  BY <1>22 DEF Finish, Release, Mine, Free, Resting
<1>23. ASSUME NEW r \in Runs, Reschedule(r) PROVE TypeOK'
  BY <1>23 DEF Reschedule, Prompt, Held, Resting
<1>24. ASSUME NEW r \in Runs, Fail(r) PROVE TypeOK'
  BY <1>24 DEF Fail, Release, Mine, Free, Goes, Working
<1>25. ASSUME NEW r \in Runs, Crash(r) PROVE TypeOK'
  BY <1>25 DEF Crash, Resting
<1>26. CASE UNCHANGED vars
  BY <1>26 DEF vars, access, queue, requests, Mine
<1>27. QED
  BY <1>1, <1>2, <1>3, <1>4, <1>5, <1>6, <1>7, <1>8, <1>9, <1>10, <1>11, <1>12, <1>13,
     <1>14, <1>15, <1>16, <1>17, <1>18, <1>19, <1>20, <1>21, <1>22, <1>23, <1>24, <1>25, <1>26 DEF Next, Proceed, Request, Scan

(* Jobs and runs keep following the row.                                     *)
LEMMA StepGrounded == TypeOK /\ Grounded /\ [Next]_vars => Grounded'
<1> SUFFICES ASSUME TypeOK /\ Grounded, [Next]_vars PROVE Grounded'
  OBVIOUS
<1> USE ProvisioningAssumption, Attempts DEF access, queue, requests, Jobs, TypeOK, Grounded
<1>1. CASE Create
  BY <1>1 DEF Create, Enqueue
<1>2. CASE Delete
  BY <1>2 DEF Delete, Enqueue, Exists
<1>3. CASE Open
  BY <1>3 DEF Open, Exists
<1>4. CASE Save
  BY <1>4 DEF Save, Exists, SavedFlag
<1>5. CASE Restart
  BY <1>5 DEF Restart, Exhausted, Held
<1>6. CASE ScanRead
  BY <1>6 DEF ScanRead
<1>7. CASE ScanEnqueue
  BY <1>7 DEF ScanEnqueue, Enqueue
<1>8. CASE Cap
  BY <1>8 DEF Cap, Prompt, Held, Retried
<1>9. CASE ExpireDead
  BY <1>9 DEF ExpireDead, Free
<1>10. CASE ExpireAlive
  BY <1>10 DEF ExpireAlive, Free
<1>11. ASSUME NEW j \in Jobs, Elapse(j) PROVE Grounded'
  BY <1>11 DEF Elapse
<1>12. ASSUME NEW j \in Jobs, NEW r \in Runs, Take(r, j) PROVE Grounded'
  <2>1. attempts[j] # NoJob /\ attempts'[j] = attempts[j] + 1
    BY <1>12 DEF Take, Due
  <2>2. \A i \in Jobs : attempts'[i] # NoJob => attempts[i] # NoJob
    BY <1>12, <2>1 DEF Take
  <2> QED
    BY <1>12, <2>1, <2>2 DEF Take, Due, Free
<1>13. ASSUME NEW r \in Runs, Read(r) PROVE Grounded'
  BY <1>13 DEF Read, Goes
<1>14. ASSUME NEW r \in Runs, CreateUser(r) PROVE Grounded'
  BY <1>14 DEF CreateUser, Goes
<1>15. ASSUME NEW r \in Runs, Grant(r) PROVE Grounded'
  BY <1>15 DEF Grant, Goes
<1>16. ASSUME NEW r \in Runs, CreatePolicies(r) PROVE Grounded'
  BY <1>16 DEF CreatePolicies, Goes
<1>17. ASSUME NEW r \in Runs, Verify(r) PROVE Grounded'
  BY <1>17 DEF Verify, Goes
<1>18. ASSUME NEW r \in Runs, Mark(r) PROVE Grounded'
  BY <1>18 DEF Mark, Goes
<1>19. ASSUME NEW r \in Runs, Look(r) PROVE Grounded'
  BY <1>19 DEF Look, Goes, Exists
<1>20. ASSUME NEW r \in Runs, DropPolicies(r) PROVE Grounded'
  BY <1>20 DEF DropPolicies, Goes
<1>21. ASSUME NEW r \in Runs, DropUser(r) PROVE Grounded'
  BY <1>21 DEF DropUser, Goes
<1>22. ASSUME NEW r \in Runs, Finish(r) PROVE Grounded'
  BY <1>22 DEF Finish, Release, Mine, Free, Resting
<1>23. ASSUME NEW r \in Runs, Reschedule(r) PROVE Grounded'
  BY <1>23 DEF Reschedule, Prompt, Held, Resting
<1>24. ASSUME NEW r \in Runs, Fail(r) PROVE Grounded'
  BY <1>24 DEF Fail, Release, Mine, Free, Goes, Working
<1>25. ASSUME NEW r \in Runs, Crash(r) PROVE Grounded'
  BY <1>25 DEF Crash, Resting
<1>26. CASE UNCHANGED vars
  BY <1>26 DEF vars, access, queue, requests, Mine
<1>27. QED
  BY <1>1, <1>2, <1>3, <1>4, <1>5, <1>6, <1>7, <1>8, <1>9, <1>10, <1>11, <1>12, <1>13,
     <1>14, <1>15, <1>16, <1>17, <1>18, <1>19, <1>20, <1>21, <1>22, <1>23, <1>24, <1>25, <1>26 DEF Next, Proceed, Request, Scan

(* Nothing is taken away while the organization exists.                      *)
LEMMA StepBuilt == TypeOK /\ Grounded /\ Built /\ ReadyServes /\ [Next]_vars => (Built /\ ReadyServes)'
<1> SUFFICES ASSUME TypeOK /\ Grounded /\ Built /\ ReadyServes, [Next]_vars PROVE (Built /\ ReadyServes)'
  OBVIOUS
<1> USE ProvisioningAssumption, Attempts DEF access, queue, requests, Jobs, TypeOK, Grounded, Built, ReadyServes
<1>1. CASE Create
  BY <1>1 DEF Create, Enqueue
<1>2. CASE Delete
  BY <1>2 DEF Delete, Enqueue, Exists
<1>3. CASE Open
  BY <1>3 DEF Open, Exists
<1>4. CASE Save
  BY <1>4 DEF Save, Exists, SavedFlag
<1>5. CASE Restart
  BY <1>5 DEF Restart, Exhausted, Held
<1>6. CASE ScanRead
  BY <1>6 DEF ScanRead
<1>7. CASE ScanEnqueue
  BY <1>7 DEF ScanEnqueue, Enqueue
<1>8. CASE Cap
  BY <1>8 DEF Cap, Prompt, Held, Retried
<1>9. CASE ExpireDead
  BY <1>9 DEF ExpireDead, Free
<1>10. CASE ExpireAlive
  BY <1>10 DEF ExpireAlive, Free
<1>11. ASSUME NEW j \in Jobs, Elapse(j) PROVE (Built /\ ReadyServes)'
  BY <1>11 DEF Elapse
<1>12. ASSUME NEW j \in Jobs, NEW r \in Runs, Take(r, j) PROVE (Built /\ ReadyServes)'
  BY <1>12 DEF Take, Due, Free
<1>13. ASSUME NEW r \in Runs, Read(r) PROVE (Built /\ ReadyServes)'
  BY <1>13 DEF Read, Goes
<1>14. ASSUME NEW r \in Runs, CreateUser(r) PROVE (Built /\ ReadyServes)'
  BY <1>14 DEF CreateUser, Goes
<1>15. ASSUME NEW r \in Runs, Grant(r) PROVE (Built /\ ReadyServes)'
  BY <1>15 DEF Grant, Goes
<1>16. ASSUME NEW r \in Runs, CreatePolicies(r) PROVE (Built /\ ReadyServes)'
  BY <1>16 DEF CreatePolicies, Goes
<1>17. ASSUME NEW r \in Runs, Verify(r) PROVE (Built /\ ReadyServes)'
  BY <1>17 DEF Verify, Goes
<1>18. ASSUME NEW r \in Runs, Mark(r) PROVE (Built /\ ReadyServes)'
  BY <1>18 DEF Mark, Goes
<1>19. ASSUME NEW r \in Runs, Look(r) PROVE (Built /\ ReadyServes)'
  BY <1>19 DEF Look, Goes, Exists
<1>20. ASSUME NEW r \in Runs, DropPolicies(r) PROVE (Built /\ ReadyServes)'
  BY <1>20 DEF DropPolicies, Goes
<1>21. ASSUME NEW r \in Runs, DropUser(r) PROVE (Built /\ ReadyServes)'
  BY <1>21 DEF DropUser, Goes
<1>22. ASSUME NEW r \in Runs, Finish(r) PROVE (Built /\ ReadyServes)'
  BY <1>22 DEF Finish, Release, Mine, Free, Resting
<1>23. ASSUME NEW r \in Runs, Reschedule(r) PROVE (Built /\ ReadyServes)'
  BY <1>23 DEF Reschedule, Prompt, Held, Resting
<1>24. ASSUME NEW r \in Runs, Fail(r) PROVE (Built /\ ReadyServes)'
  BY <1>24 DEF Fail, Release, Mine, Free, Goes, Working
<1>25. ASSUME NEW r \in Runs, Crash(r) PROVE (Built /\ ReadyServes)'
  BY <1>25 DEF Crash, Resting
<1>26. CASE UNCHANGED vars
  BY <1>26 DEF vars, access, queue, requests, Mine
<1>27. QED
  BY <1>1, <1>2, <1>3, <1>4, <1>5, <1>6, <1>7, <1>8, <1>9, <1>10, <1>11, <1>12, <1>13,
     <1>14, <1>15, <1>16, <1>17, <1>18, <1>19, <1>20, <1>21, <1>22, <1>23, <1>24, <1>25, <1>26 DEF Next, Proceed, Request, Scan

(* A building run keeps the deprovision job behind it.                        *)
LEMMA StepBuilder == TypeOK /\ Grounded /\ BuilderFirst /\ [Next]_vars => BuilderFirst'
<1> SUFFICES ASSUME TypeOK /\ Grounded /\ BuilderFirst, [Next]_vars PROVE BuilderFirst'
  OBVIOUS
<1> USE ProvisioningAssumption, Attempts DEF access, queue, requests, Jobs, TypeOK, Grounded, BuilderFirst, Building, Mine
<1>1. CASE Create
  BY <1>1 DEF Create, Enqueue
<1>2. CASE Delete
  BY <1>2 DEF Delete, Enqueue, Exists
<1>3. CASE Open
  BY <1>3 DEF Open, Exists
<1>4. CASE Save
  BY <1>4 DEF Save, Exists, SavedFlag
<1>5. CASE Restart
  BY <1>5 DEF Restart, Exhausted, Held
<1>6. CASE ScanRead
  BY <1>6 DEF ScanRead
<1>7. CASE ScanEnqueue
  BY <1>7 DEF ScanEnqueue, Enqueue
<1>8. CASE Cap
  BY <1>8 DEF Cap, Prompt, Held, Retried
<1>9. CASE ExpireDead
  BY <1>9 DEF ExpireDead, Free
<1>10. CASE ExpireAlive
  BY <1>10 DEF ExpireAlive, Free
<1>11. ASSUME NEW j \in Jobs, Elapse(j) PROVE BuilderFirst'
  BY <1>11 DEF Elapse
<1>12. ASSUME NEW j \in Jobs, NEW r \in Runs, Take(r, j) PROVE BuilderFirst'
  BY <1>12 DEF Take, Due, Free
<1>13. ASSUME NEW r \in Runs, Read(r) PROVE BuilderFirst'
  BY <1>13 DEF Read, Goes
<1>14. ASSUME NEW r \in Runs, CreateUser(r) PROVE BuilderFirst'
  BY <1>14 DEF CreateUser, Goes
<1>15. ASSUME NEW r \in Runs, Grant(r) PROVE BuilderFirst'
  BY <1>15 DEF Grant, Goes
<1>16. ASSUME NEW r \in Runs, CreatePolicies(r) PROVE BuilderFirst'
  BY <1>16 DEF CreatePolicies, Goes
<1>17. ASSUME NEW r \in Runs, Verify(r) PROVE BuilderFirst'
  BY <1>17 DEF Verify, Goes
<1>18. ASSUME NEW r \in Runs, Mark(r) PROVE BuilderFirst'
  BY <1>18 DEF Mark, Goes
<1>19. ASSUME NEW r \in Runs, Look(r) PROVE BuilderFirst'
  BY <1>19 DEF Look, Goes, Exists
<1>20. ASSUME NEW r \in Runs, DropPolicies(r) PROVE BuilderFirst'
  BY <1>20 DEF DropPolicies, Goes
<1>21. ASSUME NEW r \in Runs, DropUser(r) PROVE BuilderFirst'
  BY <1>21 DEF DropUser, Goes
<1>22. ASSUME NEW r \in Runs, Finish(r) PROVE BuilderFirst'
  BY <1>22 DEF Finish, Release, Mine, Free, Resting
<1>23. ASSUME NEW r \in Runs, Reschedule(r) PROVE BuilderFirst'
  BY <1>23 DEF Reschedule, Prompt, Held, Resting
<1>24. ASSUME NEW r \in Runs, Fail(r) PROVE BuilderFirst'
  BY <1>24 DEF Fail, Release, Mine, Free, Goes, Working
<1>25. ASSUME NEW r \in Runs, Crash(r) PROVE BuilderFirst'
  BY <1>25 DEF Crash, Resting
<1>26. CASE UNCHANGED vars
  BY <1>26 DEF vars, access, queue, requests, Mine
<1>27. QED
  BY <1>1, <1>2, <1>3, <1>4, <1>5, <1>6, <1>7, <1>8, <1>9, <1>10, <1>11, <1>12, <1>13,
     <1>14, <1>15, <1>16, <1>17, <1>18, <1>19, <1>20, <1>21, <1>22, <1>23, <1>24, <1>25, <1>26 DEF Next, Proceed, Request, Scan

(* The policies of a deleted organization stay owed.                         *)
LEMMA StepPolicies == TypeOK /\ Grounded /\ BuilderFirst /\ PoliciesOwed /\ [Next]_vars => PoliciesOwed'
<1> SUFFICES ASSUME TypeOK /\ Grounded /\ BuilderFirst /\ PoliciesOwed, [Next]_vars PROVE PoliciesOwed'
  OBVIOUS
<1> USE ProvisioningAssumption, Attempts DEF access, queue, requests, Jobs, TypeOK, Grounded, BuilderFirst, Building, Mine, PoliciesOwed, Ahead, Late
<1>1. CASE Create
  BY <1>1 DEF Create, Enqueue
<1>2. CASE Delete
  BY <1>2 DEF Delete, Enqueue, Exists
<1>3. CASE Open
  BY <1>3 DEF Open, Exists
<1>4. CASE Save
  BY <1>4 DEF Save, Exists, SavedFlag
<1>5. CASE Restart
  BY <1>5 DEF Restart, Exhausted, Held
<1>6. CASE ScanRead
  BY <1>6 DEF ScanRead
<1>7. CASE ScanEnqueue
  BY <1>7 DEF ScanEnqueue, Enqueue
<1>8. CASE Cap
  BY <1>8 DEF Cap, Prompt, Held, Retried
<1>9. CASE ExpireDead
  BY <1>9 DEF ExpireDead, Free
<1>10. CASE ExpireAlive
  BY <1>10 DEF ExpireAlive, Free
<1>11. ASSUME NEW j \in Jobs, Elapse(j) PROVE PoliciesOwed'
  BY <1>11 DEF Elapse
<1>12. ASSUME NEW j \in Jobs, NEW r \in Runs, Take(r, j) PROVE PoliciesOwed'
  BY <1>12 DEF Take, Due, Free
<1>13. ASSUME NEW r \in Runs, Read(r) PROVE PoliciesOwed'
  BY <1>13 DEF Read, Goes
<1>14. ASSUME NEW r \in Runs, CreateUser(r) PROVE PoliciesOwed'
  BY <1>14 DEF CreateUser, Goes
<1>15. ASSUME NEW r \in Runs, Grant(r) PROVE PoliciesOwed'
  BY <1>15 DEF Grant, Goes
<1>16. ASSUME NEW r \in Runs, CreatePolicies(r) PROVE PoliciesOwed'
  BY <1>16 DEF CreatePolicies, Goes
<1>17. ASSUME NEW r \in Runs, Verify(r) PROVE PoliciesOwed'
  BY <1>17 DEF Verify, Goes
<1>18. ASSUME NEW r \in Runs, Mark(r) PROVE PoliciesOwed'
  BY <1>18 DEF Mark, Goes
<1>19. ASSUME NEW r \in Runs, Look(r) PROVE PoliciesOwed'
  BY <1>19 DEF Look, Goes, Exists
<1>20. ASSUME NEW r \in Runs, DropPolicies(r) PROVE PoliciesOwed'
  BY <1>20 DEF DropPolicies, Goes
<1>21. ASSUME NEW r \in Runs, DropUser(r) PROVE PoliciesOwed'
  BY <1>21 DEF DropUser, Goes
<1>22. ASSUME NEW r \in Runs, Finish(r) PROVE PoliciesOwed'
  BY <1>22 DEF Finish, Release, Mine, Free, Resting
<1>23. ASSUME NEW r \in Runs, Reschedule(r) PROVE PoliciesOwed'
  BY <1>23 DEF Reschedule, Prompt, Held, Resting
<1>24. ASSUME NEW r \in Runs, Fail(r) PROVE PoliciesOwed'
  BY <1>24 DEF Fail, Release, Mine, Free, Goes, Working
<1>25. ASSUME NEW r \in Runs, Crash(r) PROVE PoliciesOwed'
  BY <1>25 DEF Crash, Resting
<1>26. CASE UNCHANGED vars
  BY <1>26 DEF vars, access, queue, requests, Mine
<1>27. QED
  BY <1>1, <1>2, <1>3, <1>4, <1>5, <1>6, <1>7, <1>8, <1>9, <1>10, <1>11, <1>12, <1>13,
     <1>14, <1>15, <1>16, <1>17, <1>18, <1>19, <1>20, <1>21, <1>22, <1>23, <1>24, <1>25, <1>26 DEF Next, Proceed, Request, Scan

(* The user of a deleted organization stays owed.                            *)
LEMMA StepAccount == TypeOK /\ Grounded /\ BuilderFirst /\ AccountOwed /\ [Next]_vars => AccountOwed'
<1> SUFFICES ASSUME TypeOK /\ Grounded /\ BuilderFirst /\ AccountOwed, [Next]_vars PROVE AccountOwed'
  OBVIOUS
<1> USE ProvisioningAssumption, Attempts DEF access, queue, requests, Jobs, TypeOK, Grounded, BuilderFirst, Building, Mine, AccountOwed, Ahead, Late
<1>1. CASE Create
  BY <1>1 DEF Create, Enqueue
<1>2. CASE Delete
  BY <1>2 DEF Delete, Enqueue, Exists
<1>3. CASE Open
  BY <1>3 DEF Open, Exists
<1>4. CASE Save
  BY <1>4 DEF Save, Exists, SavedFlag
<1>5. CASE Restart
  BY <1>5 DEF Restart, Exhausted, Held
<1>6. CASE ScanRead
  BY <1>6 DEF ScanRead
<1>7. CASE ScanEnqueue
  BY <1>7 DEF ScanEnqueue, Enqueue
<1>8. CASE Cap
  BY <1>8 DEF Cap, Prompt, Held, Retried
<1>9. CASE ExpireDead
  BY <1>9 DEF ExpireDead, Free
<1>10. CASE ExpireAlive
  BY <1>10 DEF ExpireAlive, Free
<1>11. ASSUME NEW j \in Jobs, Elapse(j) PROVE AccountOwed'
  BY <1>11 DEF Elapse
<1>12. ASSUME NEW j \in Jobs, NEW r \in Runs, Take(r, j) PROVE AccountOwed'
  BY <1>12 DEF Take, Due, Free
<1>13. ASSUME NEW r \in Runs, Read(r) PROVE AccountOwed'
  BY <1>13 DEF Read, Goes
<1>14. ASSUME NEW r \in Runs, CreateUser(r) PROVE AccountOwed'
  BY <1>14 DEF CreateUser, Goes
<1>15. ASSUME NEW r \in Runs, Grant(r) PROVE AccountOwed'
  BY <1>15 DEF Grant, Goes
<1>16. ASSUME NEW r \in Runs, CreatePolicies(r) PROVE AccountOwed'
  BY <1>16 DEF CreatePolicies, Goes
<1>17. ASSUME NEW r \in Runs, Verify(r) PROVE AccountOwed'
  BY <1>17 DEF Verify, Goes
<1>18. ASSUME NEW r \in Runs, Mark(r) PROVE AccountOwed'
  BY <1>18 DEF Mark, Goes
<1>19. ASSUME NEW r \in Runs, Look(r) PROVE AccountOwed'
  BY <1>19 DEF Look, Goes, Exists
<1>20. ASSUME NEW r \in Runs, DropPolicies(r) PROVE AccountOwed'
  BY <1>20 DEF DropPolicies, Goes
<1>21. ASSUME NEW r \in Runs, DropUser(r) PROVE AccountOwed'
  BY <1>21 DEF DropUser, Goes
<1>22. ASSUME NEW r \in Runs, Finish(r) PROVE AccountOwed'
  BY <1>22 DEF Finish, Release, Mine, Free, Resting
<1>23. ASSUME NEW r \in Runs, Reschedule(r) PROVE AccountOwed'
  BY <1>23 DEF Reschedule, Prompt, Held, Resting
<1>24. ASSUME NEW r \in Runs, Fail(r) PROVE AccountOwed'
  BY <1>24 DEF Fail, Release, Mine, Free, Goes, Working
<1>25. ASSUME NEW r \in Runs, Crash(r) PROVE AccountOwed'
  BY <1>25 DEF Crash, Resting
<1>26. CASE UNCHANGED vars
  BY <1>26 DEF vars, access, queue, requests, Mine
<1>27. QED
  BY <1>1, <1>2, <1>3, <1>4, <1>5, <1>6, <1>7, <1>8, <1>9, <1>10, <1>11, <1>12, <1>13,
     <1>14, <1>15, <1>16, <1>17, <1>18, <1>19, <1>20, <1>21, <1>22, <1>23, <1>24, <1>25, <1>26 DEF Next, Proceed, Request, Scan

LEMMA Invariance == Spec => []IInv
<1>1. IInv /\ [Next]_vars => IInv'
  BY StepTypes, StepGrounded, StepBuilt, StepBuilder, StepPolicies, StepAccount DEF IInv
<1> QED
  BY <1>1, InitIInv, PTL DEF Spec

(* Every variable of the provisioning keeps its range.                       *)
THEOREM ProvisioningTypeCorrect == Spec => []TypeOK
  BY Invariance, PTL DEF IInv

(* Whatever the runs, late ones included, a ready organization has its user  *)
(* and its policies.                                                         *)
THEOREM ReadyAlwaysServes == Spec => []ReadyServes
  BY Invariance, PTL DEF IInv

(* However a delete meets the runs under way, what is left in ClickHouse is   *)
(* still some job's or some run's to remove.                                 *)
THEOREM NothingIsForgotten == Spec => []NothingForgotten
<1>1. IInv => NothingForgotten
  BY DEF IInv, NothingForgotten, PoliciesOwed, AccountOwed, Ahead, Late, Jobs, Working, TypeOK
<1> QED
  BY <1>1, Invariance, PTL

(* No write takes the readiness of an organization back.                     *)
THEOREM ReadinessStays == Spec => ReadyStays
<1>1. TypeOK /\ [Next]_vars => (org = "ready" => org' \in {"ready", "gone"})
  BY DEF Next, Request, Scan, Proceed, Create, Delete, Open, Save, SavedFlag, Restart, ScanRead,
     ScanEnqueue, Cap, ExpireDead, ExpireAlive, Elapse, Take, Read, CreateUser, Grant,
     CreatePolicies, Verify, Mark, Look, DropPolicies, DropUser, Finish, Reschedule, Fail,
     Crash, vars
<1> QED
  BY <1>1, ProvisioningTypeCorrect, PTL DEF Spec, ReadyStays
=============================================================================
