--------------------------- MODULE ApiKeyAuth_proofs ---------------------------
(* What the collector's key cache promises, for any sizes, lifetimes and     *)
(* numbers of keys and callers.                                              *)
EXTENDS ApiKeyAuth, SequenceTheorems, TLAPS

(* A verification in progress: it keeps its deadline, and nothing fresh is    *)
(* known of its key.                                                         *)
FlightMissed ==
    \A k \in Keys : flight[k].pc \in {"asking", "answered"} =>
        /\ flight[k].since <= now /\ now <= flight[k].since + Timeout
        /\ ~Fresh("pos", k) /\ ~Fresh("neg", k)

(* An answer that says yes came after the question.                          *)
AnswerIsLate ==
    \A k \in Keys : flight[k].pc = "answered" =>
        /\ flight[k].says \in {"accepted", "rejected"}
        /\ flight[k].says = "accepted" => saidYes[k] # Absent /\ flight[k].since <= saidYes[k]

(* An acceptance in the cache goes back to an answer.                        *)
EntryIsBacked ==
    \A k \in Keys : Present("pos", k) =>
        /\ saidYes[k] # Absent
        /\ until["pos"][k] <= saidYes[k] + Timeout + CacheTTL["pos"]

(* So does an acceptance about to be handed out.                             *)
Recent(k) == saidYes[k] # Absent /\ now <= saidYes[k] + 2 * CacheTTL["pos"] + Timeout
LandingIsRecent ==
    \A k \in Keys : flight[k].pc = "landing" /\ flight[k].says = "accepted" => Recent(k)

(* Who waits or is about to wait does so for a key.                          *)
CallerHasKey == \A r \in Callers : caller[r].pc # "idle" => caller[r].key \in Keys

CacheInv ==
    /\ FreshExclusive /\ FlightMissed /\ AnswerIsLate
    /\ EntryIsBacked /\ LandingIsRecent /\ OutageHidden
Inv == TypeOK /\ CallerHasKey /\ WaiterHasFlight /\ CacheInv

USE AuthAssumption

-----------------------------------------------------------------------------
LEMMA InitInv == Init => Inv
  BY DEF Init, Inv, CacheInv, TypeOK, CallerHasKey, WaiterHasFlight, FreshExclusive, FlightMissed,
         AnswerIsLate, EntryIsBacked, LandingIsRecent, OutageHidden, Fresh, Present, Idle, Stage, Resting,
         Absent, Caches, Outcomes

Flights == [pc : {"idle", "recheck", "asking", "answered", "landing"}, since : Nat, says : Outcomes]

(* What it does to a verification to land, and to be joined.                 *)
LEMMA Landing ==
  ASSUME TypeOK, NEW k \in Keys, NEW v \in Outcomes, Lands(k, v)
  PROVE  /\ flight' \in [Keys -> Flights]
         /\ flight'[k] = [pc |-> "landing", since |-> flight[k].since, says |-> v]
         /\ \A x \in Keys : x # k => flight'[x] = flight[x]
  BY DEF TypeOK, Lands, Flights, Stage

LEMMA Joining ==
  ASSUME TypeOK, CallerHasKey, NEW r \in Callers, Join(r)
  PROVE  /\ flight' \in [Keys -> Flights]
         /\ caller[r].key \in Keys
         /\ \A x \in Keys : \/ flight'[x] = flight[x]
                           \/ flight'[x].pc = "recheck"
         /\ flight'[caller[r].key].pc # "idle"
         /\ caller' = [caller EXCEPT ![r] = [pc |-> "waiting", key |-> caller[r].key]]
<1>1. caller[r].key \in Keys
  BY DEF Join, CallerHasKey
<1> QED
  BY <1>1 DEF Join, TypeOK, Flights, Stage, Outcomes

(* One step of each handler keeps the types.                                 *)
LEMMA NextType == TypeOK /\ CallerHasKey /\ [Next]_vars => TypeOK'
<1> SUFFICES ASSUME TypeOK, CallerHasKey, [Next]_vars PROVE TypeOK'
  OBVIOUS
<1> USE DEF TypeOK, Outcomes, Absent, Stage
<1>1. ASSUME NEW r \in Callers, NEW k \in Keys, Ask(r, k) PROVE TypeOK'
  BY <1>1 DEF Ask, Touch
<1>2. ASSUME NEW r \in Callers, Join(r) PROVE TypeOK'
  <2>1. caller' \in [Callers -> [pc : {"idle", "missed", "waiting"}, key : Keys \cup {"nokey"}]]
    BY <1>2, Joining
  <2>2. flight' \in [Keys -> Flights]
    BY <1>2, Joining
  <2> QED
    BY <1>2, <2>1, <2>2 DEF Join, tokenCache, Flights
<1>3. ASSUME NEW r \in Callers, Cancel(r) PROVE TypeOK'
  BY <1>3 DEF Cancel, Resting, tokenCache
<1>4. ASSUME NEW k \in Keys, Recheck(k) PROVE TypeOK'
  <2>1. CASE HitOf(k) = "miss"
    <3>1. flight' = [flight EXCEPT ![k] = Stage("asking", now, "none")]
      BY <1>4, <2>1 DEF Recheck
    <3>2. until' = until /\ now' = now /\ caller' = caller /\ saidYes' = saidYes
      BY <1>4 DEF Recheck, Touch
    <3> QED
      BY <3>1, <3>2
  <2>2. CASE HitOf(k) # "miss"
    BY <1>4, <2>2, Landing DEF Recheck, Touch, Verdict, Flights
  <2> QED
    BY <2>1, <2>2
<1>5. ASSUME NEW k \in Keys, NEW v \in {"accepted", "rejected"}, Verify(k, v) PROVE TypeOK'
  BY <1>5 DEF Verify, tokenCache
<1>6. ASSUME NEW k \in Keys, VerifyFails(k) PROVE TypeOK'
  BY <1>6, Landing DEF VerifyFails, Flights, tokenCache
<1>7. ASSUME NEW k \in Keys, Store(k) PROVE TypeOK'
  <2> DEFINE c == IF flight[k].says = "accepted" THEN "pos" ELSE "neg"
  <2>1. c \in Caches /\ CacheTTL[c] \in Nat /\ Put(c, k)
    BY <1>7 DEF Store, Caches
  <2>2. until' \in [Caches -> [Keys -> Nat \cup {Absent}]]
    <3> HIDE DEF c
    <3>1. [x \in Keys |-> IF x = k THEN now + CacheTTL[c]
                         ELSE IF Kept(c, k, x) THEN until[c][x] ELSE Absent]
              \in [Keys -> Nat \cup {Absent}]
      BY <2>1
    <3> QED
      BY <2>1, <3>1 DEF Put
  <2> QED
    BY <1>7, <2>2, Landing DEF Store, Flights
<1>8. ASSUME NEW k \in Keys, Land(k) PROVE TypeOK'
  BY <1>8 DEF Land, Resting, Idle, tokenCache
<1>9. CASE Tick
  BY <1>9 DEF Tick, tokenCache
<1>10. CASE UNCHANGED vars
  BY <1>10 DEF vars, tokenCache
<1> QED
  BY <1>1, <1>2, <1>3, <1>4, <1>5, <1>6, <1>7, <1>8, <1>9, <1>10 DEF Next, Request, Flight

(* Nobody is left waiting for a verification that has ended.                 *)
LEMMA NextWaiters ==
  TypeOK /\ CallerHasKey /\ WaiterHasFlight /\ [Next]_vars => CallerHasKey' /\ WaiterHasFlight'
<1> SUFFICES ASSUME TypeOK, CallerHasKey, WaiterHasFlight, [Next]_vars
             PROVE CallerHasKey' /\ WaiterHasFlight'
  OBVIOUS
<1> USE DEF TypeOK, CallerHasKey, WaiterHasFlight
<1>1. ASSUME NEW r \in Callers, NEW k \in Keys, Ask(r, k) PROVE CallerHasKey' /\ WaiterHasFlight'
  BY <1>1 DEF Ask
<1>2. ASSUME NEW r \in Callers, Join(r) PROVE CallerHasKey' /\ WaiterHasFlight'
  <2>1. \A q \in Callers : q # r => caller'[q] = caller[q]
    BY <1>2, Joining
  <2>2. caller'[r].key = caller[r].key /\ caller[r].key \in Keys /\ flight'[caller[r].key].pc # "idle"
    BY <1>2, Joining
  <2>3. \A x \in Keys : flight[x].pc # "idle" => flight'[x].pc # "idle"
    BY <1>2, Joining
  <2> QED
    BY <2>1, <2>2, <2>3
<1>3. ASSUME NEW r \in Callers, Cancel(r) PROVE CallerHasKey' /\ WaiterHasFlight'
  BY <1>3 DEF Cancel, Resting
<1>4. ASSUME NEW k \in Keys, Recheck(k) PROVE CallerHasKey' /\ WaiterHasFlight'
  BY <1>4 DEF Recheck, Lands, Stage
<1>5. ASSUME NEW k \in Keys, NEW v \in {"accepted", "rejected"}, Verify(k, v)
      PROVE CallerHasKey' /\ WaiterHasFlight'
  BY <1>5 DEF Verify, Stage
<1>6. ASSUME NEW k \in Keys, VerifyFails(k) PROVE CallerHasKey' /\ WaiterHasFlight'
  BY <1>6 DEF VerifyFails, Lands, Stage
<1>7. ASSUME NEW k \in Keys, Store(k) PROVE CallerHasKey' /\ WaiterHasFlight'
  BY <1>7 DEF Store, Lands, Stage
<1>8. ASSUME NEW k \in Keys, Land(k) PROVE CallerHasKey' /\ WaiterHasFlight'
  BY <1>8 DEF Land, Resting, Waiters
<1>9. CASE Tick
  BY <1>9 DEF Tick
<1>10. CASE UNCHANGED vars
  BY <1>10 DEF vars
<1> QED
  BY <1>1, <1>2, <1>3, <1>4, <1>5, <1>6, <1>7, <1>8, <1>9, <1>10 DEF Next, Request, Flight

-----------------------------------------------------------------------------
(* The cache and its verifications.  What a step may change of a key's       *)
(* entries is small: nothing, or one entry written anew and others dropped.   *)
CacheParts(k) ==
    /\ ~(Fresh("pos", k) /\ Fresh("neg", k))
    /\ flight[k].pc \in {"asking", "answered"} =>
            /\ flight[k].since <= now /\ now <= flight[k].since + Timeout
            /\ ~Fresh("pos", k) /\ ~Fresh("neg", k)
    /\ flight[k].pc = "answered" => flight[k].says \in {"accepted", "rejected"}
    /\ flight[k].pc = "answered" /\ flight[k].says = "accepted" =>
            saidYes[k] # Absent /\ flight[k].since <= saidYes[k]
    /\ Present("pos", k) => /\ saidYes[k] # Absent
                           /\ until["pos"][k] <= saidYes[k] + Timeout + CacheTTL["pos"]
    /\ flight[k].pc = "landing" /\ flight[k].says = "accepted" => Recent(k)
    /\ flight[k].pc = "landing" /\ flight[k].says = "unavailable" => ~WithinGrace(k)

LEMMA CacheInvByKey == CacheInv <=> \A k \in Keys : CacheParts(k)
  BY DEF CacheInv, CacheParts, FreshExclusive, FlightMissed, AnswerIsLate, EntryIsBacked,
         LandingIsRecent, OutageHidden

LEMMA CacheNumbers == CacheTTL["pos"] \in Nat /\ CacheTTL["neg"] \in Nat /\ Timeout \in Nat
  BY DEF Caches

LEMMA EntryNumbers ==
  ASSUME TypeOK, NEW k \in Keys
  PROVE  /\ now \in Nat /\ flight[k].since \in Nat
         /\ until["pos"][k] \in Nat \cup {Absent} /\ until["neg"][k] \in Nat \cup {Absent}
         /\ saidYes[k] \in Nat \cup {Absent}
  BY DEF TypeOK, Caches

(* A key nothing happens to, at the same instant.                            *)
LEMMA Untouched ==
  ASSUME NEW k \in Keys, CacheParts(k), now' = now, flight'[k] = flight[k], saidYes'[k] = saidYes[k],
         until'["pos"][k] = until["pos"][k], until'["neg"][k] = until["neg"][k]
  PROVE  CacheParts(k)'
  BY DEF CacheParts, Fresh, Present, Recent, WithinGrace

(* A key whose entry may be evicted at the same instant.                     *)
LEMMA Evicted ==
  ASSUME TypeOK, NEW k \in Keys, CacheParts(k), now' = now, flight'[k] = flight[k],
         saidYes'[k] = saidYes[k],
         until'["pos"][k] \in {until["pos"][k], Absent}, until'["neg"][k] \in {until["neg"][k], Absent}
  PROVE  CacheParts(k)'
  BY EntryNumbers, CacheNumbers DEF CacheParts, Fresh, Present, Recent, WithinGrace, Absent

LEMMA NextCache == TypeOK /\ TypeOK' /\ CallerHasKey /\ CacheInv /\ [Next]_vars => CacheInv'
<1> SUFFICES ASSUME TypeOK, TypeOK', CallerHasKey, \A k \in Keys : CacheParts(k), [Next]_vars,
                    NEW x \in Keys
             PROVE  CacheParts(x)'
  BY DEF CacheInv, CacheParts, FreshExclusive, FlightMissed, AnswerIsLate, EntryIsBacked,
         LandingIsRecent, OutageHidden
<1> USE EntryNumbers, CacheNumbers
<1>1. ASSUME NEW r \in Callers, NEW k \in Keys, Ask(r, k) PROVE CacheParts(x)'
  BY <1>1, Untouched DEF Ask, Touch
<1>2. ASSUME NEW r \in Callers, Join(r) PROVE CacheParts(x)'
  <2>1. flight'[x] = flight[x] \/ flight'[x].pc = "recheck"
    BY <1>2, Joining
  <2>2. now' = now /\ until' = until /\ saidYes' = saidYes
    BY <1>2 DEF Join, tokenCache
  <2>3. CASE flight'[x] = flight[x]
    BY <2>2, <2>3, Untouched
  <2>4. CASE flight'[x].pc = "recheck"
    BY <2>2, <2>4 DEF CacheParts, Fresh, Present
  <2> QED
    BY <2>1, <2>3, <2>4
<1>3. ASSUME NEW r \in Callers, Cancel(r) PROVE CacheParts(x)'
  BY <1>3, Untouched DEF Cancel, tokenCache
<1>4. ASSUME NEW k \in Keys, Recheck(k) PROVE CacheParts(x)'
  <2>1. now' = now /\ until' = until /\ saidYes' = saidYes
    BY <1>4 DEF Recheck, Touch
  <2>2. CASE x # k
    <3>1. flight'[x] = flight[x]
      BY <1>4, <2>2 DEF Recheck, Lands, TypeOK
    <3> QED
      BY <2>1, <3>1, Untouched
  <2>3. CASE x = k /\ HitOf(k) = "miss"
    <3>1. flight'[x] = Stage("asking", now, "none")
      BY <1>4, <2>3 DEF Recheck, TypeOK
    <3>2. ~Fresh("pos", x) /\ ~Fresh("neg", x)
      BY <2>3 DEF HitOf
    <3> QED
      BY <2>1, <3>1, <3>2 DEF CacheParts, Fresh, Present, Stage
  <2>4. CASE x = k /\ HitOf(k) # "miss"
    <3>1. flight'[x] = Stage("landing", flight[x].since, Verdict(HitOf(x)))
      BY <1>4, <2>4 DEF Recheck, Lands, TypeOK
    <3>2. Verdict(HitOf(x)) \in {"accepted", "rejected"}
      BY DEF Verdict
    <3>3. CASE Verdict(HitOf(x)) = "rejected"
      BY <2>1, <3>1, <3>3 DEF CacheParts, Fresh, Present, Stage
    <3>4. CASE Verdict(HitOf(x)) = "accepted"
      <4>1. Fresh("pos", x)
        BY <3>4 DEF Verdict, HitOf
      <4>2. Recent(x)
        BY <4>1 DEF CacheParts, Fresh, Present, Recent, Absent
      <4> QED
        BY <2>1, <3>1, <3>4, <4>2 DEF CacheParts, Fresh, Present, Stage, Recent
    <3> QED
      BY <3>2, <3>3, <3>4
  <2> QED
    BY <2>2, <2>3, <2>4
<1>5. ASSUME NEW k \in Keys, NEW v \in {"accepted", "rejected"}, Verify(k, v) PROVE CacheParts(x)'
  <2>1. now' = now /\ until' = until
    BY <1>5 DEF Verify, tokenCache
  <2>2. CASE x # k
    <3>1. flight'[x] = flight[x] /\ saidYes'[x] = saidYes[x]
      BY <1>5, <2>2 DEF Verify, TypeOK
    <3> QED
      BY <2>1, <3>1, Untouched
  <2>3. CASE x = k
    <3>1. flight'[x] = Stage("answered", flight[x].since, v)
      BY <1>5, <2>3 DEF Verify, TypeOK
    <3>2. flight[x].pc = "asking"
      BY <1>5, <2>3 DEF Verify
    <3>3. saidYes'[x] = IF v = "accepted" THEN now ELSE saidYes[x]
      BY <1>5, <2>3 DEF Verify, TypeOK
    <3>4. now <= flight[x].since + Timeout /\ ~Fresh("pos", x) /\ ~Fresh("neg", x)
      BY <3>2 DEF CacheParts
    <3>5. flight[x].since <= now
      BY <3>2 DEF CacheParts
    <3> QED
      BY <2>1, <3>1, <3>3, <3>4, <3>5 DEF CacheParts, Fresh, Present, Stage, Absent
  <2> QED
    BY <2>2, <2>3
<1>6. ASSUME NEW k \in Keys, VerifyFails(k) PROVE CacheParts(x)'
  <2>1. now' = now /\ until' = until /\ saidYes' = saidYes
    BY <1>6 DEF VerifyFails, tokenCache
  <2>2. CASE x # k
    <3>1. flight'[x] = flight[x]
      BY <1>6, <2>2 DEF VerifyFails, Lands, TypeOK
    <3> QED
      BY <2>1, <3>1, Untouched
  <2>3. CASE x = k
    <3>1. flight'[x] = Stage("landing", flight[x].since,
                             IF WithinGrace(x) THEN "accepted" ELSE "unavailable")
      BY <1>6, <2>3 DEF VerifyFails, Lands, TypeOK
    <3>2. WithinGrace(x) => Recent(x)
      BY DEF CacheParts, WithinGrace, Present, Recent, Absent
    <3> QED
      BY <2>1, <3>1, <3>2 DEF CacheParts, Fresh, Present, Stage, Recent, WithinGrace
  <2> QED
    BY <2>2, <2>3
<1>7. ASSUME NEW k \in Keys, Store(k) PROVE CacheParts(x)'
  <2> DEFINE c == IF flight[k].says = "accepted" THEN "pos" ELSE "neg"
  <2>1. now' = now /\ saidYes' = saidYes /\ flight[k].pc = "answered" /\ Put(c, k)
    BY <1>7 DEF Store
  <2>2. \A d \in Caches : d # c => until'[d] = until[d]
    BY <2>1 DEF Put, TypeOK
  <2>3. until'[c] = [y \in Keys |-> IF y = k THEN now + CacheTTL[c]
                                   ELSE IF Kept(c, k, y) THEN until[c][y] ELSE Absent]
    BY <2>1 DEF Put, TypeOK, Caches
  <2>4. CASE x # k
    <3>1. flight'[x] = flight[x]
      BY <1>7, <2>4 DEF Store, Lands, TypeOK
    <3>2. until'[c][x] \in {until[c][x], Absent}
      BY <2>3, <2>4
    <3>3. until'["pos"][x] \in {until["pos"][x], Absent} /\ until'["neg"][x] \in {until["neg"][x], Absent}
      BY <2>2, <3>2 DEF Caches
    <3> QED
      BY <2>1, <3>1, <3>3, Evicted
  <2>5. CASE x = k
    <3>1. flight'[x] = Stage("landing", flight[x].since, flight[x].says)
      BY <1>7, <2>5 DEF Store, Lands, TypeOK
    <3>2. until'[c][x] = now + CacheTTL[c]
      BY <2>3, <2>5
    <3>3. /\ flight[x].since <= now /\ now <= flight[x].since + Timeout
          /\ ~Fresh("pos", x) /\ ~Fresh("neg", x)
      BY <2>1, <2>5 DEF CacheParts
    <3>4. flight[x].says \in {"accepted", "rejected"}
      BY <2>1, <2>5 DEF CacheParts
    <3>5. CASE flight[x].says = "accepted"
      <4>1. until'["pos"][x] = now + CacheTTL["pos"] /\ until'["neg"][x] = until["neg"][x]
        BY <2>2, <2>5, <3>2, <3>5 DEF Caches
      <4>2. saidYes[x] # Absent /\ flight[x].since <= saidYes[x]
        BY <2>1, <2>5, <3>5 DEF CacheParts
      <4> QED
        BY <2>1, <3>1, <3>3, <3>5, <4>1, <4>2 DEF CacheParts, Fresh, Present, Stage, Recent, Absent
    <3>6. CASE flight[x].says = "rejected"
      <4>1. until'["neg"][x] = now + CacheTTL["neg"] /\ until'["pos"][x] = until["pos"][x]
        BY <2>2, <2>5, <3>2, <3>6 DEF Caches
      <4> QED
        BY <2>1, <3>1, <3>3, <3>6, <4>1 DEF CacheParts, Fresh, Present, Stage
    <3> QED
      BY <3>4, <3>5, <3>6
  <2> QED
    BY <2>4, <2>5
<1>8. ASSUME NEW k \in Keys, Land(k) PROVE CacheParts(x)'
  <2>1. now' = now /\ until' = until /\ saidYes' = saidYes
    BY <1>8 DEF Land, tokenCache
  <2>2. CASE x # k
    <3>1. flight'[x] = flight[x]
      BY <1>8, <2>2 DEF Land, TypeOK
    <3> QED
      BY <2>1, <3>1, Untouched
  <2>3. CASE x = k
    <3>1. flight'[x] = Stage("idle", 0, "none")
      BY <1>8, <2>3 DEF Land, Idle, TypeOK
    <3> QED
      BY <2>1, <3>1 DEF CacheParts, Fresh, Present, Stage
  <2> QED
    BY <2>2, <2>3
<1>9. CASE Tick
  <2>1. now' = now + 1 /\ until' = until /\ saidYes' = saidYes /\ flight' = flight /\ OnTime(x)
    BY <1>9 DEF Tick, tokenCache
  <2> QED
    <3>1. flight[x].pc # "landing"
      BY <2>1 DEF OnTime
    <3>2. flight[x].pc \in {"asking", "answered"} => now < flight[x].since + Timeout
      BY <2>1 DEF OnTime
    <3>3. ~(Fresh("pos", x)' /\ Fresh("neg", x)')
      BY <2>1 DEF CacheParts, Fresh, Absent
    <3>4. flight[x].pc \in {"asking", "answered"} => ~Fresh("pos", x)' /\ ~Fresh("neg", x)'
      BY <2>1 DEF CacheParts, Fresh, Absent
    <3> QED
      BY <2>1, <3>1, <3>2, <3>3, <3>4 DEF CacheParts, Present
<1>10. CASE UNCHANGED vars
  BY <1>10, Untouched DEF vars, tokenCache
<1> QED
  BY <1>1, <1>2, <1>3, <1>4, <1>5, <1>6, <1>7, <1>8, <1>9, <1>10 DEF Next, Request, Flight

LEMMA InvariantHolds == Spec => []Inv
<1>1. Inv /\ [Next]_vars => Inv'
  BY NextType, NextWaiters, NextCache DEF Inv
<1> QED
  BY InitInv, <1>1, PTL DEF Spec

(* The cache, the shared verifications and the callers keep their types.     *)
THEOREM AuthTypeCorrect == Spec => []TypeOK
  BY InvariantHolds, PTL DEF Inv

(* A key is never both freshly accepted and freshly rejected, so looking at   *)
(* the acceptances first never masks a later no.                             *)
THEOREM VerdictsExclusive == Spec => []FreshExclusive
  BY InvariantHolds, PTL DEF Inv, CacheInv

(* No acceptance outlives its last confirmation by more than two lifetimes    *)
(* and a timeout, whatever the sizes, the callers and the outages.            *)
THEOREM AcceptancesAreRecent == Spec => []AcceptanceIsRecent
<1>1. Inv => AcceptanceIsRecent
  <2> SUFFICES ASSUME TypeOK, \A k \in Keys : CacheParts(k), NEW k \in Keys, Accepts(k)
               PROVE  Recent(k)
    BY CacheInvByKey DEF Inv, AcceptanceIsRecent, Recent
  <2>1. CASE HitOf(k) = "pos"
    <3>1. Fresh("pos", k)
      BY <2>1 DEF HitOf
    <3> QED
      BY <3>1, EntryNumbers, CacheNumbers DEF CacheParts, Fresh, Present, Recent, Absent
  <2>2. CASE flight[k].pc = "landing" /\ flight[k].says = "accepted"
    BY <2>2 DEF CacheParts
  <2> QED
    BY <2>1, <2>2 DEF Accepts
<1> QED
  BY InvariantHolds, <1>1, PTL

(* An outage reaches callers only for keys without a usable acceptance.       *)
THEOREM OutagesHidden == Spec => []OutageHidden
  BY InvariantHolds, PTL DEF Inv, CacheInv

(* No caller waits for a verification that is over.                           *)
THEOREM WaitersServed == Spec => []WaiterHasFlight
  BY InvariantHolds, PTL DEF Inv

-----------------------------------------------------------------------------
(* The recency list.                                                        *)

(* What RemoveAt leaves of a list: everything else, in the same order.       *)
LEMMA RemovedAt ==
  ASSUME NEW s \in Seq(Keys), NEW p \in 1..Len(s)
  PROVE  /\ RemoveAt(s, p) \in Seq(Keys) /\ Len(RemoveAt(s, p)) = Len(s) - 1
         /\ \A n \in 1..(Len(s) - 1) : RemoveAt(s, p)[n] = IF n < p THEN s[n] ELSE s[n + 1]
<1> DEFINE before == SubSeq(s, 1, p - 1)
           after == SubSeq(s, p + 1, Len(s))
<1>1. Len(s) \in Nat /\ p \in Nat /\ \A n \in 1..Len(s) : s[n] \in Keys
  BY LenProperties, ElementOfSeq
<1>2. /\ before \in Seq(Keys) /\ Len(before) = p - 1
      /\ \A n \in 1..(p - 1) : before[n] = s[n]
  <2>1. /\ before \in Seq(Keys)
        /\ Len(before) = IF 1 <= p - 1 THEN p - 1 - 1 + 1 ELSE 0
        /\ \A n \in 1..(p - 1 - 1 + 1) : before[n] = s[1 + n - 1]
    <3>1. 1 \in Int /\ p - 1 \in Int /\ \A n \in 1..(p - 1) : s[n] \in Keys
      BY <1>1
    <3> QED
      BY <3>1, SubSeqProperties
  <2> QED
    BY <1>1, <2>1
<1>3. /\ after \in Seq(Keys) /\ Len(after) = Len(s) - p
      /\ \A n \in 1..(Len(s) - p) : after[n] = s[p + n]
  <2>1. /\ after \in Seq(Keys)
        /\ Len(after) = IF p + 1 <= Len(s) THEN Len(s) - (p + 1) + 1 ELSE 0
        /\ \A n \in 1..(Len(s) - (p + 1) + 1) : after[n] = s[p + 1 + n - 1]
    <3>1. p + 1 \in Int /\ Len(s) \in Int /\ \A n \in (p + 1)..Len(s) : s[n] \in Keys
      BY <1>1
    <3> QED
      BY <3>1, SubSeqProperties
  <2> QED
    BY <1>1, <2>1
<1> HIDE DEF before, after
<1>4. /\ before \o after \in Seq(Keys) /\ Len(before \o after) = Len(before) + Len(after)
      /\ \A n \in 1..(Len(before) + Len(after)) :
           (before \o after)[n] = IF n <= Len(before) THEN before[n] ELSE after[n - Len(before)]
  <2>1. before \in Seq(Keys) /\ after \in Seq(Keys)
    BY <1>2, <1>3
  <2> QED
    BY <2>1, ConcatProperties
<1>5. RemoveAt(s, p) = before \o after
  BY DEF RemoveAt, before, after
<1>6. ASSUME NEW n \in 1..(Len(s) - 1)
      PROVE  (before \o after)[n] = IF n < p THEN s[n] ELSE s[n + 1]
  <2>1. CASE n < p
    BY <1>1, <1>2, <1>3, <1>4, <2>1
  <2>2. CASE ~(n < p)
    <3>1. n - Len(before) \in 1..(Len(s) - p) /\ p + (n - Len(before)) = n + 1
      BY <1>1, <1>2, <2>2
    <3>2. (before \o after)[n] = after[n - Len(before)]
      BY <1>1, <1>2, <1>3, <1>4, <2>2
    <3> QED
      BY <1>3, <2>2, <3>1, <3>2
  <2> QED
    BY <2>1, <2>2
<1>7. Len(before \o after) = Len(s) - 1
  BY <1>1, <1>2, <1>3, <1>4
<1> QED
  BY <1>4, <1>5, <1>6, <1>7

(* A key comes to the front of a list without repetitions: nothing else       *)
(* leaves it, and it grows only by a newcomer.                               *)
LEMMA Fronted ==
  ASSUME NEW s \in Seq(Keys), IsInjective(s), NEW k \in Keys
  PROVE  /\ ToFront(s, k) \in Seq(Keys) /\ IsInjective(ToFront(s, k))
         /\ ToSet(ToFront(s, k)) = ToSet(s) \cup {k}
         /\ Len(ToFront(s, k)) = IF k \in ToSet(s) THEN Len(s) ELSE Len(s) + 1
<1> DEFINE t == ToFront(s, k)
<1>0. /\ Len(s) \in Nat /\ DOMAIN s = 1..Len(s) /\ <<k>> \in Seq(Keys) /\ Len(<<k>>) = 1
      /\ <<k>>[1] = k /\ \A a, b \in 1..Len(s) : s[a] = s[b] => a = b
      /\ \A n \in 1..Len(s) : s[n] \in Keys
  BY LenProperties, ElementOfSeq DEF IsInjective
<1>1. ASSUME NEW u \in Seq(Keys), t = <<k>> \o u
      PROVE  /\ t \in Seq(Keys) /\ Len(t) = Len(u) + 1 /\ t[1] = k
             /\ \A n \in 2..Len(t) : t[n] = u[n - 1]
  <2>1. /\ <<k>> \o u \in Seq(Keys) /\ Len(<<k>> \o u) = Len(<<k>>) + Len(u)
        /\ \A n \in 1..(Len(<<k>>) + Len(u)) :
             (<<k>> \o u)[n] = IF n <= Len(<<k>>) THEN <<k>>[n] ELSE u[n - Len(<<k>>)]
    BY <1>0, ConcatProperties
  <2> QED
    BY <1>0, <1>1, <2>1, LenProperties
<1>2. CASE k \notin ToSet(s)
  <2>1. t = <<k>> \o s
    BY <1>2 DEF ToFront
  <2>2. /\ t \in Seq(Keys) /\ Len(t) = Len(s) + 1 /\ t[1] = k
        /\ \A n \in 2..Len(t) : t[n] = s[n - 1]
    BY <1>1, <2>1
  <2>3. \A n \in 1..Len(s) : s[n] # k
    BY <1>0, <1>2 DEF ToSet
  <2> HIDE DEF t
  <2>4. DOMAIN t = 1..Len(t)
    BY <2>2, LenProperties
  <2>5. IsInjective(t)
    <3> SUFFICES ASSUME NEW a \in 1..Len(t), NEW b \in 1..Len(t), t[a] = t[b], a < b PROVE FALSE
      BY <1>0, <2>2, <2>4 DEF IsInjective
    <3>1. b \in 2..Len(t) /\ b - 1 \in 1..Len(s)
      BY <1>0, <2>2
    <3>2. CASE a = 1
      BY <2>2, <2>3, <3>1, <3>2
    <3>3. CASE a # 1
      <4>1. a \in 2..Len(t) /\ a - 1 \in 1..Len(s) /\ a - 1 # b - 1
        BY <1>0, <2>2, <3>3
      <4> QED
        BY <1>0, <2>2, <3>1, <4>1
    <3> QED
      BY <3>2, <3>3
  <2>6. ToSet(t) = ToSet(s) \cup {k}
    <3>1. ASSUME NEW n \in 1..Len(t) PROVE t[n] \in ToSet(s) \cup {k}
      <4>1. CASE n = 1
        BY <2>2, <4>1
      <4>2. CASE n # 1
        <5>1. n \in 2..Len(t) /\ n - 1 \in 1..Len(s)
          BY <1>0, <2>2, <4>2
        <5> QED
          BY <1>0, <2>2, <5>1 DEF ToSet
      <4> QED
        BY <4>1, <4>2
    <3>2. ASSUME NEW n \in 1..Len(s) PROVE s[n] \in ToSet(t)
      <4>1. n + 1 \in 2..Len(t) /\ n + 1 \in 1..Len(t) /\ t[n + 1] = s[n]
        BY <1>0, <2>2
      <4> QED
        BY <2>4, <4>1 DEF ToSet
    <3>3. k \in ToSet(t)
      <4>1. 1 \in 1..Len(t)
        BY <1>0, <2>2
      <4> QED
        BY <2>2, <2>4, <4>1 DEF ToSet
    <3> QED
      BY <1>0, <2>4, <3>1, <3>2, <3>3 DEF ToSet
  <2> QED
    BY <1>2, <2>2, <2>5, <2>6 DEF t
<1>3. CASE k \in ToSet(s)
  <2>1. PICK p \in 1..Len(s) : p = (CHOOSE q \in DOMAIN s : s[q] = k) /\ s[p] = k
    BY <1>0, <1>3 DEF ToSet
  <2>2. PICK u : u = RemoveAt(s, p)
    OBVIOUS
  <2>3. /\ t = <<k>> \o u /\ u \in Seq(Keys) /\ Len(u) = Len(s) - 1
        /\ \A n \in 1..(Len(s) - 1) : u[n] = IF n < p THEN s[n] ELSE s[n + 1]
    BY <1>3, <2>1, <2>2, RemovedAt DEF ToFront
  <2>4. /\ t \in Seq(Keys) /\ Len(t) = Len(s) /\ t[1] = k
        /\ \A n \in 2..Len(t) : t[n] = u[n - 1]
    <3> HIDE DEF t
    <3>1. /\ t \in Seq(Keys) /\ Len(t) = Len(u) + 1 /\ t[1] = k
          /\ \A n \in 2..Len(t) : t[n] = u[n - 1]
      BY <1>1, <2>3
    <3>2. Len(s) \in Nat
      BY <1>0
    <3>3. Len(t) = Len(s)
      BY <2>3, <3>1, <3>2
    <3> QED
      BY <3>1, <3>3
  <2> HIDE DEF t
  <2>5. DOMAIN t = 1..Len(t)
    BY <2>4, LenProperties
  (* Where the n-th of the new list was in the old one.                      *)
  <2> DEFINE from(n) == IF n = 1 THEN p ELSE IF n <= p THEN n - 1 ELSE n
  <2>6. ASSUME NEW n \in 1..Len(s) PROVE from(n) \in 1..Len(s) /\ t[n] = s[from(n)]
    <3>1. CASE n = 1
      BY <2>1, <2>4, <3>1
    <3>2. CASE n # 1
      <4>1. n \in 2..Len(t) /\ n - 1 \in 1..(Len(s) - 1) /\ (n - 1 < p <=> n <= p)
        BY <1>0, <2>4, <3>2
      <4> QED
        BY <1>0, <2>3, <2>4, <3>2, <4>1
    <3> QED
      BY <3>1, <3>2
  <2>7. ASSUME NEW a \in 1..Len(s), NEW b \in 1..Len(s), from(a) = from(b) PROVE a = b
    BY <1>0, <2>7
  <2>8. ASSUME NEW m \in 1..Len(s) PROVE \E n \in 1..Len(s) : from(n) = m
    <3>1. CASE m = p
      <4>1. 1 \in 1..Len(s) /\ from(1) = m
        BY <1>0, <3>1
      <4> QED
        BY <4>1
    <3>2. CASE m < p
      <4>1. m + 1 \in 1..Len(s) /\ from(m + 1) = m
        BY <1>0, <3>2
      <4> QED
        BY <4>1
    <3>3. CASE m > p
      <4>1. from(m) = m
        BY <1>0, <3>3
      <4> QED
        BY <4>1
    <3> QED
      BY <1>0, <3>1, <3>2, <3>3
  <2> HIDE DEF from
  <2>9. IsInjective(t)
    BY <1>0, <2>4, <2>5, <2>6, <2>7 DEF IsInjective
  <2>10. ToSet(t) = ToSet(s)
    <3>1. ASSUME NEW n \in 1..Len(s) PROVE t[n] \in ToSet(s)
      BY <1>0, <2>6 DEF ToSet
    <3>2. ASSUME NEW m \in 1..Len(s) PROVE s[m] \in ToSet(t)
      BY <2>4, <2>5, <2>6, <2>8 DEF ToSet
    <3>3. \A e : e \in ToSet(t) <=> \E n \in 1..Len(s) : e = t[n]
      BY <2>4, <2>5 DEF ToSet
    <3>4. \A e : e \in ToSet(s) <=> \E n \in 1..Len(s) : e = s[n]
      BY <1>0 DEF ToSet
    <3> QED
      BY <3>1, <3>2, <3>3, <3>4
  <2> QED
    BY <1>3, <2>4, <2>9, <2>10 DEF t
<1> QED
  BY <1>2, <1>3

(* The list of a cache after its last key made room for a newcomer.          *)
LEMMA Fronts ==
  ASSUME NEW s \in Seq(Keys), IsInjective(s), s # <<>>
  PROVE  /\ Front(s) \in Seq(Keys) /\ IsInjective(Front(s)) /\ Len(Front(s)) = Len(s) - 1
         /\ ToSet(Front(s)) \subseteq ToSet(s)
<1>1. /\ Len(s) \in Nat \ {0} /\ DOMAIN s = 1..Len(s)
      /\ \A n \in 1..Len(s) : s[n] \in Keys
  BY LenProperties, EmptySeq, ElementOfSeq
<1>2. /\ Front(s) \in Seq(Keys) /\ Len(Front(s)) = Len(s) - 1
      /\ \A n \in 1..(Len(s) - 1) : Front(s)[n] = s[n]
  <2>1. /\ SubSeq(s, 1, Len(s) - 1) \in Seq(Keys)
        /\ Len(SubSeq(s, 1, Len(s) - 1)) =
             IF 1 <= Len(s) - 1 THEN Len(s) - 1 - 1 + 1 ELSE 0
        /\ \A n \in 1..(Len(s) - 1 - 1 + 1) : SubSeq(s, 1, Len(s) - 1)[n] = s[1 + n - 1]
    <3>1. 1 \in Int /\ Len(s) - 1 \in Int /\ \A n \in 1..(Len(s) - 1) : s[n] \in Keys
      BY <1>1
    <3> QED
      BY <3>1, SubSeqProperties
  <2> QED
    BY <1>1, <2>1 DEF Front
<1>3. DOMAIN Front(s) = 1..(Len(s) - 1) /\ 1..(Len(s) - 1) \subseteq 1..Len(s)
  BY <1>1, <1>2, LenProperties
<1>4. IsInjective(Front(s))
  BY <1>1, <1>2, <1>3 DEF IsInjective
<1>5. ToSet(Front(s)) \subseteq ToSet(s)
  BY <1>1, <1>2, <1>3 DEF ToSet
<1> QED
  BY <1>2, <1>4, <1>5

-----------------------------------------------------------------------------
(* List and map of a cache agree.                                            *)

Listed(list, map, size) ==
    /\ list \in Seq(Keys) /\ IsInjective(list) /\ Len(list) <= size
    /\ \A k \in Keys : k \in ToSet(list) <=> map[k] # Absent
Lists ==
    /\ DOMAIN recent = Caches
    /\ \A c \in Caches : Listed(recent[c], until[c], CacheSize[c])

LEMMA ListedWhole == TypeOK /\ Lists => CachesWhole
<1> SUFFICES ASSUME Lists, NEW c \in Caches
             PROVE  ToSet(recent[c]) = {k \in Keys : Present(c, k)}
  BY DEF Lists, Listed, CachesWhole
<1>1. recent[c] \in Seq(Keys) /\ \A k \in Keys : k \in ToSet(recent[c]) <=> Present(c, k)
  BY DEF Lists, Listed, Present
<1>2. ToSet(recent[c]) \subseteq Keys
  BY <1>1, LenProperties, ElementOfSeq DEF ToSet
<1> QED
  BY <1>1, <1>2

LEMMA ListsInit == Init => Lists
<1> SUFFICES ASSUME Init, NEW c \in Caches PROVE Listed(<<>>, until[c], CacheSize[c])
  BY DEF Init, Lists
<1>1. <<>> \in Seq(Keys) /\ Len(<<>>) = 0
  BY EmptySeq
<1>2. IsInjective(<<>>)
  BY DEF IsInjective
<1>3. ToSet(<<>>) = {}
  BY DEF ToSet
<1>4. \A k \in Keys : until[c][k] = Absent
  BY DEF Init
<1>5. 0 <= CacheSize[c]
  OBVIOUS
<1> QED
  BY <1>1, <1>2, <1>3, <1>4, <1>5 DEF Listed

(* A hit moves a key that is in the list.                                    *)
LEMMA ListsTouch ==
  ASSUME TypeOK, Lists, NEW k \in Keys, Touch(k)
  PROVE  Lists'
<1>1. CASE HitOf(k) = "miss"
  BY <1>1 DEF Touch, Lists
<1>2. CASE HitOf(k) # "miss"
  <2>1. PICK h \in Caches : h = HitOf(k) /\ Fresh(h, k)
    BY <1>2 DEF HitOf, Caches
  <2>2. until[h][k] # Absent
    BY <2>1, EntryNumbers DEF Fresh, Absent, Caches
  <2>3. Listed(recent[h], until[h], CacheSize[h])
    BY DEF Lists
  <2>4. Listed(ToFront(recent[h], k), until[h], CacheSize[h])
    <3>1. k \in ToSet(recent[h])
      BY <2>2, <2>3 DEF Listed
    <3>2. ToSet(recent[h]) \cup {k} = ToSet(recent[h])
      BY <3>1
    <3> QED
      BY <2>3, <3>1, <3>2, Fronted DEF Listed
  <2>5. recent' = [recent EXCEPT ![h] = ToFront(@, k)] /\ until' = until
    BY <1>2, <2>1 DEF Touch
  <2> QED
    BY <2>4, <2>5 DEF Lists
<1> QED
  BY <1>1, <1>2

(* What is put is listed first, and the key it pushes out is forgotten.      *)
LEMMA ListsPut ==
  ASSUME TypeOK, Lists, NEW c \in Caches, NEW k \in Keys, Put(c, k)
  PROVE  Lists'
<1> DEFINE s == recent[c]
           room == Room(c, k)
           map == [x \in Keys |-> IF x = k THEN now + CacheTTL[c]
                                 ELSE IF Kept(c, k, x) THEN until[c][x] ELSE Absent]
<1>1. /\ Listed(s, until[c], CacheSize[c]) /\ Len(s) \in Nat /\ CacheSize[c] \in Nat \ {0}
      /\ s \in Seq(Keys) /\ IsInjective(s)
  <2>1. Listed(s, until[c], CacheSize[c]) /\ CacheSize[c] \in Nat \ {0}
    BY DEF Lists
  <2>2. s \in Seq(Keys) /\ IsInjective(s)
    BY <2>1 DEF Listed
  <2> QED
    BY <2>1, <2>2, LenProperties
<1>2. now + CacheTTL[c] # Absent
  BY EntryNumbers, CacheNumbers DEF Absent, Caches
<1>3. /\ room \in Seq(Keys) /\ IsInjective(room) /\ ToSet(room) \subseteq ToSet(s)
      /\ IF k \in ToSet(room) THEN Len(room) <= CacheSize[c] ELSE Len(room) < CacheSize[c]
  <2>1. k \in ToSet(s) <=> Present(c, k)
    BY <1>1 DEF Listed, Present
  <2>2. CASE Present(c, k) \/ Len(s) < CacheSize[c]
    BY <1>1, <2>1, <2>2 DEF Room, Listed
  <2>3. CASE ~(Present(c, k) \/ Len(s) < CacheSize[c])
    <3>1. s # <<>> /\ Len(s) = CacheSize[c]
      BY <1>1, <2>3, EmptySeq DEF Listed
    <3>2. room = Front(s)
      BY <2>3 DEF Room
    <3>3. /\ Front(s) \in Seq(Keys) /\ IsInjective(Front(s)) /\ Len(Front(s)) = Len(s) - 1
          /\ ToSet(Front(s)) \subseteq ToSet(s)
      BY <1>1, <3>1, Fronts
    <3> HIDE DEF room
    <3> QED
      BY <1>1, <3>1, <3>2, <3>3
  <2> QED
    BY <2>2, <2>3
<1>4. /\ ToFront(room, k) \in Seq(Keys) /\ IsInjective(ToFront(room, k))
      /\ ToSet(ToFront(room, k)) = ToSet(room) \cup {k}
      /\ Len(ToFront(room, k)) = IF k \in ToSet(room) THEN Len(room) ELSE Len(room) + 1
  <2> HIDE DEF room
  <2> QED
    BY <1>3, Fronted
<1>5. Listed(ToFront(room, k), map, CacheSize[c])
  <2>1. Len(ToFront(room, k)) <= CacheSize[c]
    <3>1. Len(room) \in Nat
      BY <1>3, LenProperties
    <3> HIDE DEF room
    <3> QED
      BY <1>1, <1>3, <1>4, <3>1
  <2>2. ASSUME NEW x \in Keys PROVE x \in ToSet(ToFront(room, k)) <=> map[x] # Absent
    <3>1. map[x] # Absent <=> x = k \/ (x \in ToSet(room) /\ until[c][x] # Absent)
      BY <1>2 DEF Kept
    <3>2. x \in ToSet(room) => until[c][x] # Absent
      BY <1>1, <1>3 DEF Listed
    <3> QED
      BY <1>4, <3>1, <3>2
  <2> QED
    BY <1>4, <2>1, <2>2 DEF Listed
<1>6. /\ recent' = [recent EXCEPT ![c] = ToFront(room, k)]
      /\ until' = [until EXCEPT ![c] = map]
  BY DEF Put
<1> HIDE DEF room, map
<1>7. recent'[c] = ToFront(room, k) /\ until'[c] = map /\ DOMAIN recent' = Caches
  BY <1>6 DEF Lists, TypeOK
<1>8. ASSUME NEW d \in Caches, d # c PROVE recent'[d] = recent[d] /\ until'[d] = until[d]
  BY <1>6, <1>8 DEF Lists, TypeOK
<1> QED
  BY <1>5, <1>7, <1>8 DEF Lists

LEMMA ListsNext == TypeOK /\ Lists /\ [Next]_vars => Lists'
<1> SUFFICES ASSUME TypeOK, Lists, [Next]_vars PROVE Lists'
  OBVIOUS
<1>1. ASSUME UNCHANGED tokenCache PROVE Lists'
  BY <1>1 DEF tokenCache, Lists
<1>2. ASSUME NEW r \in Callers, NEW k \in Keys, Ask(r, k) PROVE Lists'
  BY <1>2, ListsTouch DEF Ask
<1>3. ASSUME NEW r \in Callers, Join(r) \/ Cancel(r) PROVE Lists'
  BY <1>1, <1>3 DEF Join, Cancel
<1>4. ASSUME NEW k \in Keys, Recheck(k) PROVE Lists'
  BY <1>4, ListsTouch DEF Recheck
<1>5. ASSUME NEW k \in Keys, Store(k) PROVE Lists'
  BY <1>5, ListsPut DEF Store, Caches
<1>6. ASSUME NEW k \in Keys,
             VerifyFails(k) \/ Land(k) \/ \E v \in {"accepted", "rejected"} : Verify(k, v)
      PROVE  Lists'
  BY <1>1, <1>6 DEF VerifyFails, Land, Verify
<1>7. CASE Tick \/ UNCHANGED vars
  BY <1>1, <1>7 DEF Tick, vars
<1> QED
  BY <1>2, <1>3, <1>4, <1>5, <1>6, <1>7 DEF Next, Request, Flight

(* The list and the map of a cache never part, whatever its size, however     *)
(* entries expire, return and are evicted.                                   *)
THEOREM CachesStayWhole == Spec => []CachesWhole
<1>1. Inv /\ Lists /\ [Next]_vars => Lists'
  BY ListsNext DEF Inv
<1>2. Inv /\ Lists => CachesWhole
  BY ListedWhole DEF Inv
<1> QED
  BY InvariantHolds, ListsInit, <1>1, <1>2, PTL DEF Spec
=============================================================================
