------------------------------ MODULE ApiKeyAuth ------------------------------
(***************************************************************************)
(* How the collector decides on an ingest key: everrapikeyauth's two       *)
(* caches, the verifications it shares between callers, and the fallback   *)
(* to an expired acceptance while the verify endpoint is out of reach.      *)
(*                                                                         *)
(* A key is a bearer token with an origin, the cache's composite key.  One  *)
(* action is one critical section of the cache's mutex, one call of         *)
(* singleflight, or the endpoint's answer.                                  *)
(***************************************************************************)
EXTENDS Integers, SequencesExt

CONSTANTS
    Keys,
    Callers,            \* requests that can be under way at once
    CacheSize,          \* capacity of each cache, by its name
    CacheTTL,           \* lifetime of an entry, by its cache
    Timeout,            \* of the call to the verify endpoint
    MaxTime             \* bound: instants of the clock

Caches == {"pos", "neg"}

ASSUME AuthAssumption ==
    /\ CacheSize \in [Caches -> Nat \ {0}]
    /\ CacheTTL \in [Caches -> Nat]
    /\ Timeout \in Nat /\ MaxTime \in Nat
    /\ "nokey" \notin Keys

VARIABLES
    now,
    until,      \* lru.index: when the entry of a key expires, or Absent
    recent,     \* lru.list: keys by use, the most recent first
    flight,     \* verifyFlight: the shared verification of each key
    caller,     \* lookup: where each request is
    saidYes     \* history: the last instant the endpoint accepted each key

tokenCache == <<until, recent>>
vars == <<now, tokenCache, flight, caller, saidYes>>

Absent == -1
Stage(pc, since, says) == [pc |-> pc, since |-> since, says |-> says]
Idle == Stage("idle", 0, "none")
Resting == [pc |-> "idle", key |-> "nokey"]

Init ==
    /\ now = 0
    /\ until = [c \in Caches |-> [k \in Keys |-> Absent]]
    /\ recent = [c \in Caches |-> <<>>]
    /\ flight = [k \in Keys |-> Idle]
    /\ caller = [r \in Callers |-> Resting]
    /\ saidYes = [k \in Keys |-> Absent]

-----------------------------------------------------------------------------
(* The caches.  An expired entry misses but keeps its place until the        *)
(* capacity claims it.                                                       *)

Present(c, k) == until[c][k] # Absent
Fresh(c, k) == now <= until[c][k]

(* get: acceptances first, and a hit becomes the most recently used.         *)
HitOf(k) ==
    IF Fresh("pos", k) THEN "pos" ELSE IF Fresh("neg", k) THEN "neg" ELSE "miss"
Verdict(c) == IF c = "pos" THEN "accepted" ELSE "rejected"
ToFront(s, k) ==
    <<k>> \o (IF k \in ToSet(s) THEN RemoveAt(s, CHOOSE p \in DOMAIN s : s[p] = k) ELSE s)
Touch(k) ==
    /\ recent' = IF HitOf(k) = "miss" THEN recent
                 ELSE [recent EXCEPT ![HitOf(k)] = ToFront(@, k)]
    /\ UNCHANGED until

(* put: a newcomer to a full list takes the place of the least recently used. *)
RoomInList(c, k) == IF Present(c, k) THEN recent[c] ELSE recent[c]
Room(c, k) ==
    IF Present(c, k) \/ Len(recent[c]) < CacheSize[c] THEN recent[c] ELSE Front(recent[c])
Kept(c, k, x) == x = k \/ x \in ToSet(Room(c, k))
Put(c, k) ==
    /\ until' = [until EXCEPT ![c] = [x \in Keys |->
                    IF x = k THEN now + CacheTTL[c]
                    ELSE IF Kept(c, k, x) THEN until[c][x] ELSE Absent]]
    /\ recent' = [recent EXCEPT ![c] = ToFront(Room(c, k), k)]

(* peekStalePositive: the grace is another lifetime.                         *)
WithinGraceEver(k) == Present("pos", k)
WithinGrace(k) == Present("pos", k) /\ now <= until["pos"][k] + CacheTTL["pos"]

-----------------------------------------------------------------------------
(* lookup *)

(* The first look at the cache, which answers a hit at once.                 *)
Ask(r, k) ==
    /\ caller[r].pc = "idle"
    /\ Touch(k)
    /\ caller' = IF HitOf(k) = "miss" THEN [caller EXCEPT ![r] = [pc |-> "missed", key |-> k]]
                 ELSE caller
    /\ UNCHANGED <<now, flight, saidYes>>

(* DoChan: the first to come starts the verification, the others join it.    *)
Join(r) ==
    /\ caller[r].pc = "missed"
    /\ caller' = [caller EXCEPT ![r] = [pc |-> "waiting", key |-> caller[r].key]]
    /\ flight' = IF flight[caller[r].key].pc # "idle" THEN flight
                 ELSE [flight EXCEPT ![caller[r].key] = Stage("recheck", 0, "none")]
    /\ UNCHANGED <<now, tokenCache, saidYes>>

Lands(k, verdict) == flight' = [flight EXCEPT ![k] = Stage("landing", flight[k].since, verdict)]

(* The second look, inside the shared call.                                  *)
RecheckNothing(k) ==
    /\ flight[k].pc = "recheck"
    /\ flight' = [flight EXCEPT ![k] = Stage("asking", now, "none")]
    /\ UNCHANGED <<now, tokenCache, caller, saidYes>>
Recheck(k) ==
    /\ flight[k].pc = "recheck"
    /\ Touch(k)
    /\ IF HitOf(k) = "miss"
       THEN flight' = [flight EXCEPT ![k] = Stage("asking", now, "none")]
       ELSE Lands(k, Verdict(HitOf(k)))
    /\ UNCHANGED <<now, caller, saidYes>>

(* The endpoint decides (routes/api/internal/verify-key.ts).  Keys come and   *)
(* go on its side at any time.  A refusal, an unusable answer and an answer   *)
(* whose body does not arrive in time are all a no.                          *)
Verify(k, verdict) ==
    /\ flight[k].pc = "asking"
    /\ flight' = [flight EXCEPT ![k] = Stage("answered", flight[k].since, verdict)]
    /\ saidYes' = IF verdict = "accepted" THEN [saidYes EXCEPT ![k] = now] ELSE saidYes
    /\ UNCHANGED <<now, tokenCache, caller>>

(* No answer in time, an answer lost on its way, or an unexpected status.    *)
VerifyFailsAtOnce(k) ==
    /\ flight[k].pc \in {"asking", "answered"}
    /\ Lands(k, IF Fresh("pos", k) THEN "accepted" ELSE "unavailable")
    /\ UNCHANGED <<now, tokenCache, caller, saidYes>>
VerifyFails(k) ==
    /\ flight[k].pc \in {"asking", "answered"}
    /\ Lands(k, IF WithinGrace(k) THEN "accepted" ELSE "unavailable")
    /\ UNCHANGED <<now, tokenCache, caller, saidYes>>

(* A definitive answer is cached before it is handed out.                    *)
Store(k) ==
    /\ flight[k].pc = "answered"
    /\ Put(IF flight[k].says = "accepted" THEN "pos" ELSE "neg", k)
    /\ Lands(k, flight[k].says)
    /\ UNCHANGED <<now, caller, saidYes>>

(* singleflight hands the result to everyone who joined, and forgets the key. *)
Waiters(k) == {r \in Callers : caller[r].pc = "waiting" /\ caller[r].key = k}
LandOnFirst(k) ==
    /\ flight[k].pc = "landing"
    /\ \E r \in Callers : caller' = [caller EXCEPT ![r] = IF r \in Waiters(k) THEN Resting ELSE @]
    /\ flight' = [flight EXCEPT ![k] = Idle]
    /\ UNCHANGED <<now, tokenCache, saidYes>>
Land(k) ==
    /\ flight[k].pc = "landing"
    /\ caller' = [r \in Callers |-> IF r \in Waiters(k) THEN Resting ELSE caller[r]]
    /\ flight' = [flight EXCEPT ![k] = Idle]
    /\ UNCHANGED <<now, tokenCache, saidYes>>

(* A caller may stop waiting; the verification it started goes on.           *)
CancelForgetsKey(r) ==
    /\ caller[r].pc = "waiting"
    /\ caller' = [caller EXCEPT ![r] = Idle]
    /\ UNCHANGED <<now, tokenCache, flight, saidYes>>
Cancel(r) ==
    /\ caller[r].pc = "waiting"
    /\ caller' = [caller EXCEPT ![r] = Resting]
    /\ UNCHANGED <<now, tokenCache, flight, saidYes>>

(* Time passes while the endpoint is awaited, never past the deadline.       *)
OnTime(k) ==
    \/ flight[k].pc = "idle"
    \/ flight[k].pc \in {"asking", "answered"} /\ now < flight[k].since + Timeout
Tick ==
    /\ now < MaxTime
    /\ \A k \in Keys : OnTime(k)
    /\ now' = now + 1
    /\ UNCHANGED <<tokenCache, flight, caller, saidYes>>

Flight(k) ==
    \/ Recheck(k) \/ VerifyFails(k) \/ Store(k) \/ Land(k)
    \/ \E verdict \in {"accepted", "rejected"} : Verify(k, verdict)
Request(r) == \/ \E k \in Keys : Ask(r, k)
              \/ Join(r)
              \/ Cancel(r)

Next ==
    \/ \E r \in Callers : Request(r)
    \/ \E k \in Keys : Flight(k)
    \/ Tick

Spec == Init /\ [][Next]_vars

-----------------------------------------------------------------------------
Outcomes == {"none", "accepted", "rejected", "unavailable"}

TypeOK ==
    /\ now \in Nat
    /\ saidYes \in [Keys -> Nat \cup {Absent}]
    /\ until \in [Caches -> [Keys -> Nat \cup {Absent}]]
    /\ flight \in [Keys -> [pc : {"idle", "recheck", "asking", "answered", "landing"},
                            since : Nat, says : Outcomes]]
    /\ caller \in [Callers -> [pc : {"idle", "missed", "waiting"},
                               key : Keys \cup {"nokey"}]]

(* No key has a fresh acceptance and a fresh rejection at once: get looks at  *)
(* the acceptances first, so such a key would be let in although the last     *)
(* answer was no.  The second look of the shared call is what prevents it.    *)
FreshExclusive == \A k \in Keys : ~(Fresh("pos", k) /\ Fresh("neg", k))

(* The list and the map of a cache hold the same keys, each once, and never   *)
(* more than its capacity, however entries expire, return and are evicted.    *)
CachesWhole ==
    \A c \in Caches :
        /\ ToSet(recent[c]) = {k \in Keys : Present(c, k)}
        /\ IsInjective(recent[c])
        /\ Len(recent[c]) <= CacheSize[c]

(* Whatever the extension would accept now, from the cache or from a shared   *)
(* verification, the endpoint accepted within the last two lifetimes and one  *)
(* timeout: neither an outage nor a race makes an acceptance last longer.     *)
Accepts(k) == HitOf(k) = "pos" \/ (flight[k].pc = "landing" /\ flight[k].says = "accepted")
AcceptanceIsRecent ==
    \A k \in Keys : Accepts(k) =>
        /\ saidYes[k] # Absent
        /\ now <= saidYes[k] + 2 * CacheTTL["pos"] + Timeout

(* A caller learns of an outage only if its key has no acceptance left to     *)
(* fall back on: outages shorter than a lifetime stay invisible.              *)
OutageHidden ==
    \A k \in Keys : flight[k].pc = "landing" /\ flight[k].says = "unavailable" => ~WithinGrace(k)

(* Whoever waits has a verification to wait for, whoever else gave up on it.  *)
WaiterHasFlight == \A r \in Callers : caller[r].pc = "waiting" => flight[caller[r].key].pc # "idle"
=============================================================================
