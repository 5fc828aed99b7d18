---------------------------- MODULE Billing_proofs ----------------------------
(***************************************************************************)
(* The safety properties of Billing, for any number of requests and of     *)
(* checkouts.                                                              *)
(***************************************************************************)
EXTENDS Billing, FiniteSetTheorems, SequenceTheorems, TLAPS

(* The locks: what a request does under which of them.                       *)
Finalizing == {"make", "link", "complete"}
Storing == Finalizing \cup {"save"}
UnderCreation == {"list new", "sell new"} \cup Finalizing
UnderBilling == {"list upgrades", "sell upgrade", "demote", "delete"} \cup Storing
IsNew(k) == k.of \in Ids /\ checkout[k.of].purpose = "create"
Locked ==
    \A p \in Requests :
        /\ work[p].pc \in UnderCreation => lock.creation = p
        /\ work[p].pc \in UnderBilling => lock.billing = p
        /\ work[p].pc \in Storing => work[p].copy.of \in Ids
        /\ work[p].pc \in Finalizing => IsNew(work[p].copy)
        /\ work[p].pc = "save" /\ IsNew(work[p].copy) => lock.creation = p

(* Whatever the organization stored, and whatever a request or a report says, *)
(* was so at Polar, and is so unless the subscription has ended since.       *)
Known(k) ==
    k # NoCopy =>
        /\ k.of \in Ids /\ k.status \in {"active", "ended"} /\ 0 < k.rev
        /\ checkout[k.of].sub # "none"
        /\ k.status = "ended" => checkout[k.of].sub = "ended" /\ k.rev = checkout[k.of].rev
        /\ k.status = "active" /\ checkout[k.of].sub = "active" => k.rev = checkout[k.of].rev
        /\ k.status = "active" /\ checkout[k.of].sub = "ended" => k.rev < checkout[k.of].rev
WellSold(c) ==
    /\ (checkout[c].sub = "none") = (checkout[c].status # "succeeded")
    /\ (checkout[c].sub = "none") = (checkout[c].rev = 0)
    /\ checkout[c].rev <= clock
Informed(p) ==
    /\ Known(work[p].copy)
    /\ work[p].event # NoCopy => work[p].event.of = work[p].copy.of /\ Known(work[p].event)
    /\ work[p].event.status = "ended" =>
            /\ work[p].pc = "save" /\ work[p].copy = work[p].event
            /\ IsNew(work[p].copy) => intent = "completed"
Truthful ==
    /\ \A c \in Ids : WellSold(c)
    /\ Known(row)
    /\ \A e \in events : e # NoCopy /\ Known(e)
    /\ \A p \in Requests : Informed(p)

(* The organization's origin: it was there on the free plan, or a checkout    *)
(* that succeeded created it, the only one that did not expire.              *)
Creates == {c \in Ids : checkout[c].purpose = "create" /\ checkout[c].status # "expired"}
Origin ==
    /\ \A c, d \in Creates : c = d
    /\ org = "none" =>
        /\ \A c \in Ids : checkout[c].purpose = "create"
        /\ row = NoCopy /\ ~linked /\ intent # "completed"
        /\ \A p \in Requests : work[p].pc \in {"idle", "list new", "sell new", "make"}
    /\ intent = "none" =>
        /\ \A c \in Ids : checkout[c].purpose = "upgrade"
        /\ \A p \in Requests : work[p].pc \notin {"list new", "sell new"}
    /\ org # "none" /\ intent # "none" => \E c \in Creates : checkout[c].status = "succeeded"
    /\ \A p \in Requests : work[p].pc = "sell new" => Creates = {}

(* An organization that was never linked to a customer has bought nothing,    *)
(* and only such a one is deleted.                                           *)
Unsold ==
    /\ org = "gone" \/ (org = "hobby" /\ ~linked) =>
        /\ Ids = {} /\ intent = "none"
        /\ \A p \in Requests : work[p].pc \in {"idle", "delete"}
    /\ \A p \in Requests : work[p].pc = "delete" => org = "hobby" /\ ~linked

(* The paid plan, and whom it is taken from.                                 *)
PlanFollows ==
    /\ row.status = "active" => org = "pro"
    /\ \A p \in Requests : work[p].pc = "demote" => row.status # "active" /\ org = "pro" /\ linked

(* An active subscription that was read is active, or the report of its end   *)
(* is still to come.                                                         *)
Backed(k) ==
    k.status = "active" =>
        \/ checkout[k.of].sub = "active"
        \/ \E e \in events : e.of = k.of /\ e.status = "ended"
Entitled ==
    /\ intent # "open" \/ ~IsNew(row) => Backed(row)
    /\ \A p \in Requests :
        /\ work[p].pc \in Storing => Backed(work[p].copy)
        /\ work[p].pc = "complete" => Backed(row)
        /\ work[p].pc \in Storing /\ intent = "open" /\ IsNew(work[p].copy) =>
                work[p].copy.status = "active"

(* What can still be paid for, or is.                                        *)
Live(c) == checkout[c].status \in {"open", "confirmed"} \/ checkout[c].sub = "active"
StoredAsActive(c) == row.of = c /\ row.status = "active"
Once ==
    /\ \A c, d \in Ids : Live(c) /\ Live(d) => c = d
    /\ \A c \in Sold : \A d \in Ids \ {c} : checkout[d].rev < checkout[c].rev
    /\ \A c \in Sold : StoredAsActive(c) \/ \E e \in events : e.of = c /\ e.status = "active"
    /\ intent = "open" =>
        /\ \A c \in Ids : checkout[c].purpose = "create"
        /\ \A p \in Requests : work[p].pc \notin {"list upgrades", "sell upgrade"}
        /\ org = "none" \/ \E p \in Requests : work[p].pc \in {"link", "save", "complete"}
        /\ row = NoCopy \/ \E p \in Requests : work[p].pc = "complete"
    /\ intent = "completed" =>
        \A c \in Ids : checkout[c].purpose = "create" /\ Live(c) => StoredAsActive(c)
    /\ \A p \in Requests :
        /\ work[p].pc = "complete" => StoredAsActive(work[p].copy.of)
        /\ work[p].pc = "list upgrades" => \A c \in Ids : checkout[c].purpose = "create" => ~Live(c)
        /\ work[p].pc = "sell upgrade" => \A c \in Ids : ~Live(c)

IInv ==
    /\ TypeOK /\ Locked /\ Truthful /\ Origin
    /\ Unsold /\ PlanFollows /\ Entitled
    /\ midway \/ Once

-----------------------------------------------------------------------------
(* What a step does to the sequence of checkouts.                            *)
CheckoutType == [purpose : {"create", "upgrade"}, status : {"open", "confirmed", "succeeded", "expired"},
                 sub : {"none", "active", "ended"}, rev : Nat]
Doing == [pc : Places, copy : Copies, event : Copies]
Locks == [{"creation", "billing"} -> Requests \cup {"nobody"}]

LEMMA Checkouts ==
  ASSUME TypeOK
  PROVE  /\ checkout \in Seq(CheckoutType) /\ Len(checkout) \in Nat /\ Len(checkout) <= MaxCheckouts
         /\ Ids = 1 .. Len(checkout) /\ Ids \subseteq 0 .. MaxCheckouts
         /\ \A c \in Ids : checkout[c] \in CheckoutType
<1>1. checkout \in Seq(CheckoutType) /\ Len(checkout) <= MaxCheckouts
  BY DEF TypeOK, CheckoutType
<1>2. Len(checkout) \in Nat /\ Ids = 1 .. Len(checkout)
  BY <1>1 DEF Ids
<1>3. \A c \in Ids : checkout[c] \in CheckoutType
  BY <1>1, <1>2
<1> QED
  BY <1>1, <1>2, <1>3, BillingAssumption

LEMMA Changed ==
  ASSUME TypeOK, NEW c \in Ids, NEW x \in CheckoutType, checkout' = [checkout EXCEPT ![c] = x]
  PROVE  /\ checkout' \in Seq(CheckoutType) /\ Len(checkout') = Len(checkout) /\ Ids' = Ids
         /\ checkout'[c] = x /\ \A d \in Ids : d # c => checkout'[d] = checkout[d]
<1>1. checkout \in Seq(CheckoutType) /\ c \in 1 .. Len(checkout)
  BY Checkouts DEF Ids
<1>2. /\ checkout' \in Seq(CheckoutType) /\ Len(checkout') = Len(checkout)
      /\ \A i \in 1 .. Len(checkout) : checkout'[i] = IF i = c THEN x ELSE checkout[i]
  BY <1>1, ExceptSeq
<1> QED
  BY <1>1, <1>2 DEF Ids

LEMMA Appended ==
  ASSUME TypeOK, NEW x \in CheckoutType, checkout' = Append(checkout, x), Len(checkout) < MaxCheckouts
  PROVE  /\ checkout' \in Seq(CheckoutType) /\ Len(checkout') <= MaxCheckouts
         /\ Ids' = Ids \cup {Len(checkout) + 1} /\ Len(checkout) + 1 \notin Ids
         /\ checkout'[Len(checkout) + 1] = x /\ \A d \in Ids : checkout'[d] = checkout[d]
<1>1. checkout \in Seq(CheckoutType) /\ Len(checkout) \in Nat /\ MaxCheckouts \in Nat
  BY Checkouts, BillingAssumption
<1>2. /\ checkout' \in Seq(CheckoutType) /\ Len(checkout') = Len(checkout) + 1
      /\ checkout'[Len(checkout) + 1] = x
      /\ \A i \in 1 .. Len(checkout) : checkout'[i] = checkout[i]
  BY <1>1, AppendProperties
<1> QED
  BY <1>1, <1>2 DEF Ids

LEMMA Same ==
  ASSUME checkout' = checkout
  PROVE  Ids' = Ids
  BY DEF Ids

(* What a request that begins, goes on or ends does to its place and locks.  *)
LEMMA InPlaces ==
  /\ "idle" \in Places /\ "list new" \in Places /\ "sell new" \in Places
  /\ "list upgrades" \in Places /\ "sell upgrade" \in Places
  /\ "make" \in Places /\ "link" \in Places /\ "save" \in Places /\ "complete" \in Places
  /\ "demote" \in Places /\ "delete" \in Places
  BY DEF Places

LEMMA Taking ==
  ASSUME TypeOK, NEW p \in Requests, NEW keys \in SUBSET {"creation", "billing"}, Takes(p, keys)
  PROVE  /\ lock' \in Locks /\ work[p].pc = "idle"
         /\ \A k \in keys : lock[k] = "nobody" /\ lock'[k] = p
         /\ \A k \in {"creation", "billing"} : k \notin keys => lock'[k] = lock[k]
  BY DEF TypeOK, Takes, Locks

LEMMA Releasing ==
  ASSUME TypeOK, NEW p \in Requests, Releases(p)
  PROVE  /\ lock' \in Locks
         /\ \A k \in {"creation", "billing"} : lock'[k] = IF lock[k] = p THEN "nobody" ELSE lock[k]
  BY DEF TypeOK, Releases, Locks

LEMMA Going ==
  ASSUME TypeOK, NEW p \in Requests, NEW pc \in Places, NEW copy \in Copies, NEW event \in Copies,
         Goes(p, pc, copy, event)
  PROVE  /\ work' \in [Requests -> Doing]
         /\ work'[p] = [pc |-> pc, copy |-> copy, event |-> event]
         /\ \A q \in Requests : q # p => work'[q] = work[q]
  BY DEF TypeOK, Goes, Doing

LEMMA Gone ==
  ASSUME TypeOK, NEW p \in Requests, NEW pc, NEW copy, NEW event, Goes(p, pc, copy, event)
  PROVE  /\ work'[p].pc = pc /\ work'[p].copy = copy /\ work'[p].event = event
         /\ \A q \in Requests : q # p => work'[q] = work[q]
  BY DEF TypeOK, Goes

LEMMA Stepping ==
  ASSUME TypeOK, NEW p \in Requests, NEW pc \in Places, Steps(p, pc)
  PROVE  /\ work' \in [Requests -> Doing]
         /\ work'[p].pc = pc /\ work'[p].copy = work[p].copy /\ work'[p].event = work[p].event
         /\ \A q \in Requests : q # p => work'[q] = work[q]
<1>1. work[p].copy \in Copies /\ work[p].event \in Copies
  BY DEF TypeOK
<1>2. work' = [work EXCEPT ![p] = [pc |-> pc, copy |-> work[p].copy, event |-> work[p].event]]
  BY DEF Steps, Goes
<1> QED
  BY <1>1, <1>2 DEF TypeOK, Doing

LEMMA NoCopyType == NoCopy \in Copies
  BY BillingAssumption DEF NoCopy, Copies

LEMMA Ending ==
  ASSUME TypeOK, NEW p \in Requests, Ends(p)
  PROVE  /\ work' \in [Requests -> Doing]
         /\ work'[p] = Resting
         /\ \A q \in Requests : q # p => work'[q] = work[q]
         /\ lock' \in Locks
         /\ \A k \in {"creation", "billing"} : lock'[k] = IF lock[k] = p THEN "nobody" ELSE lock[k]
<1>1. Resting \in Doing
  BY NoCopyType DEF Resting, Doing, Places
<1>2. work' = [work EXCEPT ![p] = Resting] /\ work \in [Requests -> Doing]
  BY DEF Ends, TypeOK, Doing
<1> QED
  BY <1>1, <1>2, Releasing DEF Ends

(* A lock's holder is at work before and after.                              *)
LocksHeld == \A k \in {"creation", "billing"} : lock[k] # "nobody" => work[lock[k]].pc # "idle"
LEMMA HeldNow ==
  ASSUME TypeOK
  PROVE  \A k \in {"creation", "billing"} :
            /\ lock[k] \in Requests \cup {"nobody"}
            /\ lock[k] # "nobody" => work[lock[k]].pc # "idle"
  BY DEF TypeOK

LEMMA HeldTaking ==
  ASSUME TypeOK, NEW p \in Requests, NEW keys \in SUBSET {"creation", "billing"}, Takes(p, keys),
         work'[p].pc # "idle", \A q \in Requests : q # p => work'[q] = work[q]
  PROVE  LocksHeld'
<1>1. \A k \in {"creation", "billing"} : lock'[k] = p \/ lock'[k] = lock[k]
  BY Taking
<1> QED
  BY <1>1, HeldNow DEF LocksHeld

LEMMA HeldGoing ==
  ASSUME TypeOK, NEW p \in Requests, work'[p].pc # "idle" , lock' = lock,
         \A q \in Requests : q # p => work'[q] = work[q]
  PROVE  LocksHeld'
  BY HeldNow DEF LocksHeld

LEMMA HeldEnding ==
  ASSUME TypeOK, NEW p \in Requests, Ends(p)
  PROVE  LocksHeld'
  BY HeldNow, Ending DEF LocksHeld, Resting

(* TypeOK with its sets named, before a step and after it.                   *)
TypeParts ==
    /\ org \in {"none", "hobby", "pro", "gone"}
    /\ linked \in BOOLEAN /\ midway \in BOOLEAN
    /\ intent \in {"none", "open", "completed"}
    /\ row \in Copies
    /\ checkout \in Seq(CheckoutType) /\ Len(checkout) <= MaxCheckouts
    /\ clock \in Nat /\ events \subseteq Copies
    /\ lock \in Locks /\ work \in [Requests -> Doing] /\ LocksHeld

LEMMA FromParts == TypeParts => TypeOK
<1>1. ASSUME lock \in Locks
      PROVE  LocksHeld <=> \A k \in DOMAIN lock : lock[k] # "nobody" => work[lock[k]].pc # "idle"
  BY <1>1 DEF LocksHeld, Locks
<1> QED
  BY <1>1 DEF TypeParts, TypeOK, CheckoutType, Locks, Doing
LEMMA FromPartsNext == TypeParts' => TypeOK'
  BY FromParts, PTL
LEMMA ToParts == TypeOK => TypeParts
<1>1. ASSUME lock \in Locks
      PROVE  LocksHeld <=> \A k \in DOMAIN lock : lock[k] # "nobody" => work[lock[k]].pc # "idle"
  BY <1>1 DEF LocksHeld, Locks
<1> QED
  BY <1>1 DEF TypeParts, TypeOK, CheckoutType, Locks, Doing

LEMMA CurrentType ==
  ASSUME TypeOK, NEW c \in Ids
  PROVE  Current(c) \in Copies
  BY Checkouts DEF Current, Copies, CheckoutType

(* The steps of one request, and the steps of the provider.                  *)
Request(p) ==
    \/ StartNew(p) \/ StartUpgrade(p) \/ Sell(p) \/ Finalize(p)
    \/ Downgrade(p) \/ Demote(p) \/ AskDelete(p) \/ Delete(p) \/ Fail(p)
    \/ \E c \in Ids : CompleteNew(p, c) \/ CompleteUpgrade(p, c)
    \/ \E e \in events : SyncNew(p, e) \/ SyncUpgrade(p, e)
Provider == \E c \in Ids : Confirm(c) \/ Expire(c) \/ Succeed(c) \/ Cancel(c)

-----------------------------------------------------------------------------
LEMMA InitType == Init => TypeOK
<1> SUFFICES ASSUME Init PROVE TypeOK
  OBVIOUS
<1>1. checkout \in Seq(CheckoutType) /\ Len(checkout) <= MaxCheckouts
  BY EmptySeq, BillingAssumption DEF Init
<1>2. lock \in Locks /\ LocksHeld
  BY DEF Init, Unlocked, Locks, LocksHeld
<1>3. row \in Copies /\ work \in [Requests -> Doing]
  BY NoCopyType DEF Init, Resting, Doing, Places
<1> QED
  BY <1>1, <1>2, <1>3, FromParts DEF Init, TypeParts

(* Every step keeps the types.                                               *)
LEMMA ProviderType == TypeOK /\ Provider => TypeOK'
<1> SUFFICES ASSUME TypeOK, NEW c \in Ids, Confirm(c) \/ Expire(c) \/ Succeed(c) \/ Cancel(c)
             PROVE  TypeOK'
  BY DEF Provider
<1> USE Checkouts, ToParts, FromPartsNext DEF TypeParts
<1>1. CASE Confirm(c) \/ Expire(c)
  <2>1. PICK status \in {"confirmed", "expired"} : Becomes(c, status)
    BY <1>1 DEF Confirm, Expire
  <2>2. checkout' = [checkout EXCEPT ![c] = [checkout[c] EXCEPT !.status = status]]
    BY <2>1 DEF Becomes
  <2>3. checkout' \in Seq(CheckoutType) /\ Len(checkout') = Len(checkout)
    <3>1. [checkout[c] EXCEPT !.status = status] \in CheckoutType
      BY DEF CheckoutType
    <3> QED
      BY <2>2, <3>1, Changed
  <2> QED
    BY <2>1, <2>3 DEF Becomes, local, LocksHeld
<1>2. CASE Succeed(c) \/ Cancel(c)
  <2>1. PICK sub \in {"active", "ended"} : Report(c, "succeeded", sub)
    BY <1>2 DEF Succeed, Cancel
  <2>2. clock' \in Nat /\ clock + 1 \in Nat
    BY <2>1 DEF Report
  <2>3. checkout' \in Seq(CheckoutType) /\ Len(checkout') = Len(checkout)
    <3>1. [purpose |-> checkout[c].purpose, status |-> "succeeded", sub |-> sub, rev |-> clock + 1] \in CheckoutType
      BY <2>2 DEF CheckoutType
    <3> QED
      BY <2>1, <3>1, Changed DEF Report
  <2>4. events' \subseteq Copies
    BY <2>1, <2>2 DEF Report, Copies
  <2> QED
    BY <2>1, <2>2, <2>3, <2>4 DEF Report, local, LocksHeld
<1> QED
  BY <1>1, <1>2

LEMMA RequestType ==
  ASSUME TypeOK, \A e \in events : e.of \in Ids, NEW p \in Requests, Request(p)
  PROVE  TypeOK'
<1> USE ToParts, FromPartsNext DEF TypeParts
<1>0. work[p].copy \in Copies /\ work[p].event \in Copies
  BY DEF Doing
<1>1. CASE StartNew(p)
  <2>1. lock' \in Locks /\ work' \in [Requests -> Doing]
    BY <1>1, Taking, Stepping DEF StartNew, Places
  <2>2. LocksHeld'
    BY <1>1, HeldTaking, Stepping DEF StartNew, Places
  <2> QED
    BY <1>1, <2>1, <2>2 DEF StartNew, provider
<1>2. CASE StartUpgrade(p) \/ Downgrade(p) \/ AskDelete(p)
  <2>1. lock' \in Locks /\ work' \in [Requests -> Doing]
    BY <1>2, Taking, Stepping DEF StartUpgrade, Downgrade, AskDelete, Places
  <2>2. LocksHeld'
    BY <1>2, HeldTaking, Stepping DEF StartUpgrade, Downgrade, AskDelete, Places
  <2> QED
    BY <1>2, <2>1, <2>2 DEF StartUpgrade, Downgrade, AskDelete, provider, local
<1>3. ASSUME NEW pc, NEW purpose, NEW next \in Places \ {"idle"}, List(p, pc, purpose, next)
      PROVE  TypeOK'
  <2>1. lock' \in Locks /\ work' \in [Requests -> Doing] /\ LocksHeld'
    BY <1>3, Ending, Stepping, HeldEnding, HeldGoing DEF List
  <2> QED
    BY <1>3, <2>1 DEF List, provider, local
<1>4. ASSUME NEW pc, NEW purpose \in {"create", "upgrade"}, CreateCheckout(p, pc, purpose)
      PROVE  TypeOK'
  <2>1. lock' \in Locks /\ work' \in [Requests -> Doing] /\ LocksHeld'
    BY <1>4, Ending, HeldEnding DEF CreateCheckout
  <2>2. [purpose |-> purpose, status |-> "open", sub |-> "none", rev |-> 0] \in CheckoutType
    BY DEF CheckoutType
  <2>3. checkout' \in Seq(CheckoutType) /\ Len(checkout') <= MaxCheckouts
    BY <1>4, <2>2, Appended DEF CreateCheckout
  <2> QED
    BY <1>4, <2>1, <2>3 DEF CreateCheckout, local
<1>5. CASE Make(p) \/ Link(p)
  <2>1. work' \in [Requests -> Doing] /\ LocksHeld'
    BY <1>5, Stepping, HeldGoing DEF Make, Link, Places
  <2> QED
    BY <1>5, <2>1 DEF Make, Link, provider
<1>6. CASE Save(p)
  <2>1. lock' \in Locks /\ work' \in [Requests -> Doing] /\ LocksHeld'
    BY <1>6, Stepping, HeldGoing, Ending, HeldEnding DEF Save, Places
  <2>2. row' \in Copies /\ org' \in {"none", "hobby", "pro", "gone"}
    BY <1>0, <1>6 DEF Save, Stores
  <2> QED
    BY <1>6, <2>1, <2>2 DEF Save
<1>7. CASE Complete(p) \/ Demote(p) \/ Delete(p) \/ Fail(p)
  <2>1. lock' \in Locks /\ work' \in [Requests -> Doing] /\ LocksHeld'
    BY <1>7, Ending, HeldEnding DEF Complete, Demote, Delete, Fail
  <2> QED
    BY <1>7, <2>1 DEF Complete, Demote, Delete, Fail, provider, local
<1>8. ASSUME NEW c \in Ids, CompleteNew(p, c) \/ CompleteUpgrade(p, c) PROVE TypeOK'
  <2>1. PICK keys \in SUBSET {"creation", "billing"}, pc \in Places \ {"idle"} :
            Takes(p, keys) /\ Goes(p, pc, Current(c), NoCopy)
    BY <1>8 DEF CompleteNew, CompleteUpgrade, Places
  <2>2. lock' \in Locks /\ work' \in [Requests -> Doing]
    BY <2>1, Taking, Going, CurrentType, NoCopyType
  <2>3. /\ work'[p] = [pc |-> pc, copy |-> Current(c), event |-> NoCopy]
        /\ \A q \in Requests : q # p => work'[q] = work[q]
    BY <2>1, Going, CurrentType, NoCopyType
  <2>4. LocksHeld'
    BY <2>1, <2>3, HeldTaking
  <2> QED
    BY <1>8, <2>2, <2>4 DEF CompleteNew, CompleteUpgrade, provider, local
<1>9. ASSUME NEW e \in events, SyncNew(p, e) \/ SyncUpgrade(p, e) PROVE TypeOK'
  <2>1. CASE Drop(p, e)
    BY <2>1 DEF Drop, local, LocksHeld
  <2>2. CASE ~Drop(p, e)
    <3>1. e \in Copies /\ (SyncNew(p, e) => Current(e.of) \in Copies)
      BY CurrentType
    <3>2. PICK keys \in SUBSET {"creation", "billing"} : Takes(p, keys)
      BY <1>9, <2>2 DEF SyncNew, SyncUpgrade
    <3>3. PICK pc \in Places \ {"idle"}, copy \in Copies : Goes(p, pc, copy, e)
      BY <1>9, <2>2, <3>1 DEF SyncNew, SyncUpgrade, Places
    <3>4. /\ work' \in [Requests -> Doing] /\ work'[p] = [pc |-> pc, copy |-> copy, event |-> e]
          /\ \A q \in Requests : q # p => work'[q] = work[q]
      BY <3>1, <3>3, Going
    <3>5. lock' \in Locks /\ LocksHeld'
      BY <3>2, <3>4, Taking, HeldTaking
    <3> QED
      BY <1>9, <2>2, <3>4, <3>5 DEF SyncNew, SyncUpgrade, provider, local
  <2> QED
    BY <2>1, <2>2
<1> QED
  BY <1>1, <1>2, <1>3, <1>4, <1>5, <1>6, <1>7, <1>8, <1>9
  DEF Places, Request, Sell, ListNew, SellNew, ListUpgrades, SellUpgrade, Finalize

LEMMA OtherType == TypeOK /\ (AskForCustomer \/ UNCHANGED vars) => TypeOK'
  BY ToParts, FromPartsNext DEF TypeParts, AskForCustomer, vars, local, provider, LocksHeld

-----------------------------------------------------------------------------
(* What a step of one request leaves alone: the other requests, the locks     *)
(* they hold, and the checkouts there are.                                   *)
EventsAre == \A e \in events : e.of \in Ids
LEMMA OthersStay ==
  ASSUME TypeOK, EventsAre, NEW p \in Requests, Request(p)
  PROVE  /\ \A q \in Requests \ {p} : work'[q] = work[q]
         /\ \A q \in Requests \ {p} : \A k \in {"creation", "billing"} : lock[k] = q => lock'[k] = q
         /\ Ids \subseteq Ids' /\ \A c \in Ids : checkout'[c] = checkout[c]
<1> DEFINE Leaves ==
      /\ \A q \in Requests \ {p} : work'[q] = work[q]
      /\ \A q \in Requests \ {p} : \A k \in {"creation", "billing"} : lock[k] = q => lock'[k] = q
<1> USE BillingAssumption
<1>a. ASSUME NEW keys \in SUBSET {"creation", "billing"}, NEW x, Takes(p, keys), work' = [work EXCEPT ![p] = x]
      PROVE  Leaves
  <2>1. \A k \in {"creation", "billing"} : lock[k] = "nobody" \/ lock'[k] = lock[k]
    BY <1>a, Taking
  <2> QED
    BY <1>a, <2>1 DEF TypeOK
<1>b. Ends(p) => Leaves
  BY Ending
<1>c. ASSUME NEW x, work' = [work EXCEPT ![p] = x], lock' = lock
      PROVE  Leaves
  BY <1>c DEF TypeOK
<1> USE DEF Steps, Goes
<1>1. CASE StartNew(p) \/ StartUpgrade(p) \/ Downgrade(p) \/ AskDelete(p)
  <2>1. Leaves
    BY <1>1, <1>a DEF StartNew, StartUpgrade, Downgrade, AskDelete
  <2> QED
    BY <1>1, <2>1, Same DEF StartNew, StartUpgrade, Downgrade, AskDelete, provider
<1>2. ASSUME NEW pc, NEW purpose, NEW next, List(p, pc, purpose, next)
      PROVE  Leaves /\ checkout' = checkout
  BY <1>2, <1>b, <1>c DEF List, provider
<1>3. ASSUME NEW pc, NEW purpose \in {"create", "upgrade"}, CreateCheckout(p, pc, purpose)
      PROVE  Leaves /\ Ids \subseteq Ids' /\ \A c \in Ids : checkout'[c] = checkout[c]
  <2>1. Leaves
    BY <1>3, <1>b DEF CreateCheckout
  <2>2. [purpose |-> purpose, status |-> "open", sub |-> "none", rev |-> 0] \in CheckoutType
    BY DEF CheckoutType
  <2> QED
    BY <1>3, <2>1, <2>2, Appended DEF CreateCheckout
<1>4. CASE Finalize(p) \/ Demote(p) \/ Delete(p) \/ Fail(p)
  <2>1. CASE Make(p) \/ Link(p)
    BY <2>1, <1>c, Same DEF Make, Link, provider
  <2>2. CASE Save(p)
    <3>1. Leaves
      BY <2>2, <1>b, <1>c DEF Save
    <3> QED
      BY <2>2, <3>1, Same DEF Save
  <2>3. CASE Complete(p) \/ Demote(p) \/ Delete(p) \/ Fail(p)
    <3>1. Leaves
      BY <2>3, <1>b DEF Complete, Demote, Delete, Fail
    <3> QED
      BY <2>3, <3>1, Same DEF Complete, Demote, Delete, Fail, provider
  <2> QED
    BY <1>4, <2>1, <2>2, <2>3 DEF Finalize
<1>5. ASSUME NEW c \in Ids, CompleteNew(p, c) \/ CompleteUpgrade(p, c)
      PROVE  Leaves /\ checkout' = checkout
  BY <1>5, <1>a DEF CompleteNew, CompleteUpgrade, provider
<1>6. ASSUME NEW e \in events, SyncNew(p, e) \/ SyncUpgrade(p, e)
      PROVE  Leaves /\ checkout' = checkout
  <2>1. CASE Drop(p, e)
    BY <2>1 DEF Drop
  <2>2. CASE ~Drop(p, e)
    BY <1>6, <2>2, <1>a DEF SyncNew, SyncUpgrade, provider
  <2> QED
    BY <2>1, <2>2
<1> QED
  BY <1>1, <1>2, <1>3, <1>4, <1>5, <1>6, Same
  DEF Request, Sell, ListNew, SellNew, ListUpgrades, SellUpgrade

(* Each stage is reached under its locks.                                    *)
At(p) ==
    /\ work[p].pc \in UnderCreation => lock.creation = p
    /\ work[p].pc \in UnderBilling => lock.billing = p
    /\ work[p].pc \in Storing => work[p].copy.of \in Ids
    /\ work[p].pc \in Finalizing => IsNew(work[p].copy)
    /\ work[p].pc = "save" /\ IsNew(work[p].copy) => lock.creation = p
LEMMA RequestLocked ==
  ASSUME TypeOK, TypeOK', EventsAre, Locked, NEW p \in Requests, Request(p)
  PROVE  Locked'
<1>1. ASSUME NEW q \in Requests \ {p} PROVE At(q)'
  <2>1. /\ work'[q] = work[q] /\ At(q)
        /\ lock.creation = q => lock'.creation = q
        /\ lock.billing = q => lock'.billing = q
    BY OthersStay DEF Locked, At
  <2>2. Ids \subseteq Ids' /\ \A c \in Ids : checkout'[c] = checkout[c]
    BY OthersStay
  <2> QED
    BY <2>1, <2>2 DEF At, IsNew, Storing, Finalizing
<1>2. At(p)'
  <2> USE DEF Finalizing, Storing, UnderCreation, UnderBilling
  <2>0. At(p)
    BY DEF Locked, At
  <2>a. Ends(p) => At(p)'
    <3>1. Ends(p) => work'[p].pc = "idle"
      BY Ending DEF Resting
    <3> QED
      BY <3>1 DEF At
  <2>b. ASSUME NEW keys \in SUBSET {"creation", "billing"}, Takes(p, keys)
        PROVE \A k \in keys : lock'[k] = p
    BY <2>b, Taking
  <2>1. CASE StartNew(p)
    <3>1. lock'.creation = p /\ work'[p].pc = "list new"
      BY <2>1, <2>b, Stepping DEF StartNew, Places
    <3> QED
      BY <3>1 DEF At
  <2>2. CASE StartUpgrade(p) \/ Downgrade(p) \/ AskDelete(p)
    <3>1. lock'.billing = p /\ work'[p].pc \in {"list upgrades", "demote", "delete"}
      BY <2>2, <2>b, Stepping DEF StartUpgrade, Downgrade, AskDelete, Places
    <3> QED
      BY <3>1 DEF At
  <2>3. CASE ListNew(p) \/ ListUpgrades(p)
    <3>1. CASE Ends(p)
      BY <3>1, <2>a
    <3>2. CASE ~Ends(p)
      <4>1. /\ lock' = lock
            /\ \/ work[p].pc = "list new" /\ work'[p].pc = "sell new"
               \/ work[p].pc = "list upgrades" /\ work'[p].pc = "sell upgrade"
        BY <2>3, <3>2, Stepping DEF ListNew, ListUpgrades, List, Places
      <4> QED
        BY <2>0, <4>1 DEF At
    <3> QED
      BY <3>1, <3>2
  <2>4. CASE SellNew(p) \/ SellUpgrade(p) \/ Complete(p) \/ Demote(p) \/ Delete(p) \/ Fail(p)
    BY <2>4, <2>a DEF SellNew, SellUpgrade, CreateCheckout, Complete, Demote, Delete, Fail
  <2>5. CASE Make(p) \/ Link(p)
    <3>1. /\ lock' = lock /\ checkout' = checkout /\ Ids' = Ids
          /\ work[p].pc \in {"make", "link"} /\ work'[p].pc \in {"link", "save"}
          /\ work'[p].copy = work[p].copy
      BY <2>5, Stepping, Same DEF Make, Link, Places, provider
    <3> QED
      BY <2>0, <3>1 DEF At, IsNew
  <2>6. CASE Save(p)
    <3>1. CASE Ends(p)
      BY <3>1, <2>a
    <3>2. CASE ~Ends(p)
      <4>1. /\ lock' = lock /\ checkout' = checkout /\ Ids' = Ids /\ work[p].pc = "save"
            /\ work'[p].pc = "complete" /\ work'[p].copy = work[p].copy
            /\ checkout[work[p].copy.of].purpose = "create"
        BY <2>6, <3>2, Stepping, Same DEF Save, Places
      <4> QED
        BY <2>0, <4>1 DEF At, IsNew
    <3> QED
      BY <3>1, <3>2
  <2>7. ASSUME NEW c \in Ids, CompleteNew(p, c) \/ CompleteUpgrade(p, c) PROVE At(p)'
    <3>1. checkout' = checkout /\ Ids' = Ids
      BY <2>7, Same DEF CompleteNew, CompleteUpgrade, provider
    <3>2. CASE CompleteNew(p, c)
      <4>1. lock'.creation = p /\ lock'.billing = p
        BY <3>2, <2>b DEF CompleteNew
      <4>2. work'[p].pc = "make" /\ work'[p].copy.of = c
        BY <3>2, Gone DEF CompleteNew, Current
      <4> QED
        BY <3>1, <3>2, <4>1, <4>2 DEF At, IsNew, CompleteNew
    <3>3. CASE CompleteUpgrade(p, c)
      <4>1. lock'.billing = p
        BY <3>3, <2>b DEF CompleteUpgrade
      <4>2. work'[p].pc = "save" /\ work'[p].copy.of = c
        BY <3>3, Gone DEF CompleteUpgrade, Current
      <4> QED
        BY <3>1, <3>3, <4>1, <4>2 DEF At, IsNew, CompleteUpgrade
    <3> QED
      BY <2>7, <3>2, <3>3
  <2>8. ASSUME NEW e \in events, SyncNew(p, e) \/ SyncUpgrade(p, e) PROVE At(p)'
    <3>0. e \in Copies /\ e.of \in Ids /\ Current(e.of) \in Copies
      BY CurrentType DEF TypeOK, EventsAre
    <3>1. CASE Drop(p, e)
      BY <2>0, <3>1, Same DEF Drop, At, IsNew
    <3>2. CASE SyncNew(p, e) /\ ~Drop(p, e)
      <4>1. lock'.creation = p /\ lock'.billing = p /\ checkout' = checkout /\ Ids' = Ids
        BY <3>2, <2>b, Same DEF SyncNew, provider
      <4>2. work'[p].pc \in {"make", "save"} /\ work'[p].copy.of = e.of
        BY <3>0, <3>2, Gone DEF SyncNew, Current
      <4> QED
        BY <3>0, <3>2, <4>1, <4>2 DEF At, IsNew, SyncNew
    <3>3. CASE SyncUpgrade(p, e) /\ ~Drop(p, e)
      <4>1. lock'.billing = p /\ checkout' = checkout /\ Ids' = Ids
        BY <3>3, <2>b, Same DEF SyncUpgrade, provider
      <4>2. work'[p].pc = "save" /\ work'[p].copy.of = e.of
        BY <3>0, <3>3, Gone DEF SyncUpgrade
      <4> QED
        BY <3>0, <3>3, <4>1, <4>2 DEF At, IsNew, SyncUpgrade
    <3> QED
      BY <2>8, <3>1, <3>2, <3>3
  <2> QED
    BY <2>1, <2>2, <2>3, <2>4, <2>5, <2>6, <2>7, <2>8 DEF Request, Sell, Finalize
<1> QED
  BY <1>1, <1>2 DEF Locked, At

-----------------------------------------------------------------------------
(* What a step of the provider leaves alone, and what it changes.            *)
LEMMA ProviderFrame ==
  ASSUME TypeOK, NEW c \in Ids, Confirm(c) \/ Expire(c) \/ Succeed(c) \/ Cancel(c)
  PROVE  /\ Ids' = Ids /\ work' = work /\ lock' = lock /\ midway' = midway
         /\ org' = org /\ linked' = linked /\ intent' = intent /\ row' = row
         /\ \A d \in Ids : checkout'[d].purpose = checkout[d].purpose
         /\ \A d \in Ids : d # c => checkout'[d] = checkout[d]
<1>1. CASE Confirm(c) \/ Expire(c)
  <2>1. PICK status \in {"confirmed", "expired"} : Becomes(c, status)
    BY <1>1 DEF Confirm, Expire
  <2>2. checkout' = [checkout EXCEPT ![c] = [checkout[c] EXCEPT !.status = status]]
    BY <2>1 DEF Becomes
  <2>3. [checkout[c] EXCEPT !.status = status] \in CheckoutType
    BY Checkouts DEF CheckoutType
  <2>4. [checkout[c] EXCEPT !.status = status].purpose = checkout[c].purpose
    BY Checkouts DEF CheckoutType
  <2> QED
    BY <2>1, <2>2, <2>3, <2>4, Changed DEF Becomes, local
<1>2. CASE Succeed(c) \/ Cancel(c)
  <2>1. PICK sub \in {"active", "ended"} : Report(c, "succeeded", sub)
    BY <1>2 DEF Succeed, Cancel
  <2> DEFINE sold == [purpose |-> checkout[c].purpose, status |-> "succeeded", sub |-> sub, rev |-> clock + 1]
  <2>2. sold \in CheckoutType /\ sold.purpose = checkout[c].purpose
    BY Checkouts DEF CheckoutType, TypeOK
  <2>3. checkout' = [checkout EXCEPT ![c] = sold]
    BY <2>1 DEF Report
  <2> HIDE DEF sold
  <2>4. /\ Ids' = Ids /\ checkout'[c].purpose = checkout[c].purpose
        /\ \A d \in Ids : d # c => checkout'[d] = checkout[d]
    BY <2>2, <2>3, Changed
  <2> QED
    BY <2>1, <2>4 DEF Report, local
<1> QED
  BY <1>1, <1>2

LEMMA Becoming ==
  ASSUME TypeOK, NEW c \in Ids, Confirm(c) \/ Expire(c)
  PROVE  /\ checkout[c].status = "open"
         /\ checkout'[c].status \in {"confirmed", "expired"}
         /\ checkout'[c].sub = checkout[c].sub /\ checkout'[c].rev = checkout[c].rev
         /\ clock' = clock /\ events' = events
<1>1. PICK status \in {"confirmed", "expired"} : Becomes(c, status)
  BY DEF Confirm, Expire
<1>2. checkout' = [checkout EXCEPT ![c] = [checkout[c] EXCEPT !.status = status]]
  BY <1>1 DEF Becomes
<1>3. [checkout[c] EXCEPT !.status = status] \in CheckoutType
  BY Checkouts DEF CheckoutType
<1>4. checkout'[c] = [checkout[c] EXCEPT !.status = status]
  BY <1>2, <1>3, Changed
<1> QED
  BY <1>1, <1>4, Checkouts DEF Becomes, CheckoutType, Confirm, Expire

LEMMA Reporting ==
  ASSUME TypeOK, NEW c \in Ids, NEW sub \in {"active", "ended"}, Report(c, "succeeded", sub)
  PROVE  /\ checkout'[c] = [purpose |-> checkout[c].purpose, status |-> "succeeded", sub |-> sub, rev |-> clock + 1]
         /\ checkout'[c].status = "succeeded" /\ checkout'[c].sub = sub /\ checkout'[c].rev = clock + 1
         /\ clock \in Nat /\ clock' = clock + 1
         /\ events' = events \cup {[of |-> c, status |-> sub, rev |-> clock + 1]}
<1> DEFINE sold == [purpose |-> checkout[c].purpose, status |-> "succeeded", sub |-> sub, rev |-> clock + 1]
<1>1. sold \in CheckoutType
  BY Checkouts DEF CheckoutType, TypeOK
<1>2. checkout' = [checkout EXCEPT ![c] = sold]
  BY DEF Report
<1>3. checkout'[c] = sold
  <2> HIDE DEF sold
  <2> QED
    BY <1>1, <1>2, Changed
<1> QED
  BY <1>3 DEF Report, TypeOK

LEMMA ProviderLocked ==
  ASSUME TypeOK, Locked, NEW c \in Ids, Confirm(c) \/ Expire(c) \/ Succeed(c) \/ Cancel(c)
  PROVE  Locked'
  BY ProviderFrame DEF Locked, IsNew, Storing, Finalizing

-----------------------------------------------------------------------------
(* What is said of a subscription stays true of it.                          *)
LEMMA KnownStays ==
  ASSUME TypeOK, EventsAre, NEW p \in Requests, Request(p), NEW k, Known(k)
  PROVE  Known(k)'
  BY OthersStay DEF Known

LEMMA KnownOfProvider ==
  ASSUME TypeOK, Truthful, NEW c \in Ids, Confirm(c) \/ Expire(c) \/ Succeed(c) \/ Cancel(c),
         NEW k \in Copies, Known(k)
  PROVE  Known(k)'
<1>1. CASE k = NoCopy \/ k.of # c
  BY <1>1, ProviderFrame DEF Known
<1>2. CASE k # NoCopy /\ k.of = c /\ (Confirm(c) \/ Expire(c))
  BY <1>2, ProviderFrame, Becoming DEF Known
<1>3. CASE k # NoCopy /\ k.of = c /\ (Succeed(c) \/ Cancel(c))
  <2>1. checkout[c].sub # "none" /\ WellSold(c) /\ k.rev \in Nat
    BY <1>3 DEF Known, Truthful, Copies
  <2>2. ~Succeed(c)
    BY <2>1 DEF Succeed, WellSold
  <2>3. checkout[c].sub = "active" /\ Report(c, "succeeded", "ended")
    BY <1>3, <2>2 DEF Cancel
  <2>4. checkout'[c].sub = "ended" /\ checkout'[c].rev = clock + 1 /\ checkout[c].rev < clock + 1
    <3>1. checkout'[c].sub = "ended" /\ checkout'[c].rev = clock + 1 /\ clock \in Nat
      BY <2>3, Reporting
    <3>2. checkout[c].rev \in Nat
      BY Checkouts DEF CheckoutType
    <3> QED
      BY <2>1, <3>1, <3>2 DEF WellSold
  <2>5. k.status = "active" /\ k.rev = checkout[c].rev
    BY <1>3, <2>3 DEF Known
  <2> QED
    BY <1>3, <2>4, <2>5, ProviderFrame DEF Known
<1> QED
  BY <1>1, <1>2, <1>3

LEMMA ProviderTruthful ==
  ASSUME TypeOK, Truthful, NEW c \in Ids, Confirm(c) \/ Expire(c) \/ Succeed(c) \/ Cancel(c)
  PROVE  Truthful'
<1>1. /\ row \in Copies /\ events \subseteq Copies
      /\ \A p \in Requests : work[p].copy \in Copies /\ work[p].event \in Copies
  BY DEF TypeOK
<1>2. Known(row)'
  <2>1. Known(row)
    BY DEF Truthful
  <2>2. row' = row
    BY ProviderFrame
  <2> QED
    BY <1>1, <2>1, <2>2, KnownOfProvider DEF Known
<1>3. ASSUME NEW p \in Requests PROVE Informed(p)'
  <2>1. Informed(p) /\ work' = work
    BY ProviderFrame DEF Truthful
  <2>2. Known(work[p].copy) /\ (work[p].event # NoCopy => Known(work[p].event))
    BY <2>1 DEF Informed
  <2>3. Known(work[p].copy)' /\ (work[p].event # NoCopy => Known(work[p].event)')
    BY <1>1, <2>1, <2>2, KnownOfProvider DEF Known
  <2>4. IsNew(work[p].copy)' = IsNew(work[p].copy) /\ intent' = intent
    BY <2>1, ProviderFrame DEF IsNew
  <2> QED
    BY <2>1, <2>3, <2>4 DEF Informed
<1>4. CASE Confirm(c) \/ Expire(c)
  <2>1. ASSUME NEW d \in Ids PROVE WellSold(d)'
    BY <1>4, ProviderFrame, Becoming, Checkouts DEF WellSold, Truthful
  <2>2. ASSUME NEW e \in events PROVE e # NoCopy /\ Known(e)'
    BY <1>1, KnownOfProvider DEF Truthful
  <2>3. events' = events /\ Ids' = Ids
    BY <1>4, ProviderFrame, Becoming
  <2> QED
    BY <1>2, <1>3, <2>1, <2>2, <2>3 DEF Truthful, Known
<1>5. CASE Succeed(c) \/ Cancel(c)
  <2>1. PICK sub \in {"active", "ended"} : Report(c, "succeeded", sub)
    BY <1>5 DEF Succeed, Cancel
  <2>2. ASSUME NEW d \in Ids PROVE WellSold(d)'
    <3>1. /\ checkout'[c].status = "succeeded" /\ checkout'[c].sub = sub /\ checkout'[c].rev = clock + 1
          /\ clock \in Nat /\ clock' = clock + 1
      BY <2>1, Reporting
    <3>2. d # c => checkout'[d] = checkout[d]
      BY <1>5, ProviderFrame
    <3>3. checkout[d].rev \in Nat /\ WellSold(d)
      BY Checkouts DEF CheckoutType, Truthful
    <3> QED
      BY <3>1, <3>2, <3>3 DEF WellSold
  <2>3. ASSUME NEW e \in events PROVE e # NoCopy /\ Known(e)'
    BY <1>1, KnownOfProvider DEF Truthful
  <2>4. ASSUME NEW k, k = [of |-> c, status |-> sub, rev |-> clock + 1] PROVE k # NoCopy /\ Known(k)'
    <3>1. k.of = c /\ k.status = sub /\ k.rev = clock + 1 /\ clock \in Nat
      BY <2>1, <2>4, Reporting
    <3>2. k.rev # NoCopy.rev
      BY <3>1 DEF NoCopy
    <3>3. Ids' = Ids /\ checkout'[c].sub = sub /\ checkout'[c].rev = clock + 1
      BY <2>1, <1>5, ProviderFrame, Reporting
    <3> QED
      BY <3>1, <3>2, <3>3 DEF Known
  <2>5. Ids' = Ids /\ events' = events \cup {[of |-> c, status |-> sub, rev |-> clock + 1]}
    BY <2>1, <1>5, ProviderFrame, Reporting
  <2>6. \A e \in events' : e # NoCopy /\ Known(e)'
    BY <2>3, <2>4, <2>5
  <2> QED
    BY <1>2, <1>3, <2>2, <2>5, <2>6 DEF Truthful, Known
<1> QED
  BY <1>4, <1>5

(* What a step of a request may do to the rest.                              *)
LEMMA RequestFrame ==
  ASSUME TypeOK, NEW p \in Requests, Request(p)
  PROVE  /\ clock' = clock /\ events' \subseteq events
         /\ row' = row \/ (work[p].pc = "save" /\ row' = work[p].copy)
         /\ intent = "completed" => intent' = "completed"
         /\ \A c \in Ids' \ Ids : checkout'[c].status = "open" /\ checkout'[c].sub = "none" /\ checkout'[c].rev = 0
<1>1. ASSUME NEW pc, NEW purpose, NEW next, List(p, pc, purpose, next)
      PROVE  UNCHANGED <<checkout, clock, events, row, intent>>
  BY <1>1 DEF List, provider, local
<1>2. ASSUME NEW pc, NEW purpose \in {"create", "upgrade"}, CreateCheckout(p, pc, purpose)
      PROVE  /\ UNCHANGED <<clock, events, row, intent>>
             /\ \A c \in Ids' \ Ids : checkout'[c].status = "open" /\ checkout'[c].sub = "none" /\ checkout'[c].rev = 0
  <2> DEFINE x == [purpose |-> purpose, status |-> "open", sub |-> "none", rev |-> 0]
  <2>1. x \in CheckoutType /\ x.status = "open" /\ x.sub = "none" /\ x.rev = 0
    BY DEF CheckoutType
  <2>2. checkout' = Append(checkout, x) /\ Len(checkout) < MaxCheckouts
    BY <1>2 DEF CreateCheckout
  <2>3. UNCHANGED <<clock, events, row, intent>>
    BY <1>2 DEF CreateCheckout, local
  <2> HIDE DEF x
  <2> QED
    BY <2>1, <2>2, <2>3, Appended
<1>3. CASE Finalize(p) \/ Demote(p) \/ Delete(p) \/ Fail(p)
  BY <1>3, Same DEF Finalize, Make, Link, Save, Stores, Complete, Demote, Delete, Fail, provider, local
<1>4. CASE StartNew(p) \/ StartUpgrade(p) \/ Downgrade(p) \/ AskDelete(p)
  BY <1>4, Same DEF StartNew, StartUpgrade, Downgrade, AskDelete, provider, local
<1>5. ASSUME NEW c \in Ids, CompleteNew(p, c) \/ CompleteUpgrade(p, c)
      PROVE  UNCHANGED <<checkout, clock, events, row, intent>>
  BY <1>5 DEF CompleteNew, CompleteUpgrade, provider, local
<1>6. ASSUME NEW e \in events, SyncNew(p, e) \/ SyncUpgrade(p, e)
      PROVE  UNCHANGED <<checkout, clock, row, intent>> /\ events' \subseteq events
  BY <1>6 DEF SyncNew, SyncUpgrade, Drop, provider, local
<1> QED
  BY <1>1, <1>2, <1>3, <1>4, <1>5, <1>6, Same
  DEF Request, Sell, ListNew, SellNew, ListUpgrades, SellUpgrade

(* Where a step of a request takes it.                                       *)
Follows(from, to) ==
    \/ from = "idle" /\ to \in {"list new", "list upgrades", "demote", "delete"}
    \/ from = "list new" /\ to = "sell new"
    \/ from = "list upgrades" /\ to = "sell upgrade"
    \/ from = "make" /\ to = "link"
    \/ from = "link" /\ to = "save"
LEMMA Moves ==
  ASSUME TypeOK, EventsAre, Locked, Origin, NEW p \in Requests, Request(p)
  PROVE  \/ work'[p] = work[p]
         \/ work'[p] = Resting
         \/ /\ work'[p].copy = work[p].copy /\ work'[p].event = work[p].event
            /\ Follows(work[p].pc, work'[p].pc)
         \/ /\ work'[p].copy = work[p].copy /\ work'[p].event = work[p].event
            /\ work[p].pc = "save" /\ work'[p].pc = "complete"
            /\ intent = "open" /\ IsNew(work[p].copy) /\ Stores(work[p].copy)
         \/ \E c \in Ids : /\ Verified(c) /\ work'[p].copy = Current(c) /\ work'[p].event = NoCopy
         \/ \E e \in events :
               IsNew(e) /\ checkout[e.of].sub = "active" /\ work'[p].copy = Current(e.of) /\ work'[p].event = e
         \/ \E e \in events :
               work'[p].pc = "save" /\ work'[p].copy = e /\ work'[p].event = e
               /\ (IsNew(e) => intent = "completed") /\ (e.status = "active" => checkout[e.of].sub = "active")
<1>e. Ends(p) => work'[p] = Resting
  BY Ending
<1>s. ASSUME NEW pc \in Places, Steps(p, pc)
      PROVE  work'[p].copy = work[p].copy /\ work'[p].event = work[p].event /\ work'[p].pc = pc
  BY <1>s, Stepping
<1>1. CASE StartNew(p) \/ StartUpgrade(p) \/ Downgrade(p) \/ AskDelete(p)
  BY <1>1, <1>s, InPlaces DEF StartNew, StartUpgrade, Downgrade, AskDelete, Takes, Follows
<1>2. CASE ListNew(p) \/ ListUpgrades(p)
  <2>1. CASE Ends(p)
    BY <2>1, <1>e
  <2>2. CASE ~Ends(p)
    BY <1>2, <2>2, <1>s, InPlaces DEF ListNew, ListUpgrades, List, Follows
  <2> QED
    BY <2>1, <2>2
<1>3. CASE SellNew(p) \/ SellUpgrade(p) \/ Complete(p) \/ Demote(p) \/ Delete(p) \/ Fail(p)
  BY <1>3, <1>e DEF SellNew, SellUpgrade, CreateCheckout, Complete, Demote, Delete, Fail
<1>4. CASE Make(p) \/ Link(p)
  BY <1>4, <1>s, InPlaces DEF Make, Link, Follows
<1>5. CASE Save(p)
  <2>1. CASE Ends(p)
    BY <2>1, <1>e
  <2>2. CASE ~Ends(p)
    <3>1. work[p].pc = "save" /\ Stores(work[p].copy) /\ Steps(p, "complete") /\ intent = "open" /\ checkout[work[p].copy.of].purpose = "create"
      BY <1>5, <2>2 DEF Save
    <3>2. work[p].copy.of \in Ids
      BY <3>1 DEF Locked, Storing
    <3> QED
      BY <3>1, <3>2, <1>s, InPlaces DEF IsNew
  <2> QED
    BY <2>1, <2>2
<1>6. ASSUME NEW c \in Ids, CompleteNew(p, c) \/ CompleteUpgrade(p, c)
      PROVE  Verified(c) /\ work'[p].copy = Current(c) /\ work'[p].event = NoCopy
  BY <1>6, Gone DEF CompleteNew, CompleteUpgrade
<1>7. ASSUME NEW e \in events, SyncNew(p, e) \/ SyncUpgrade(p, e), work'[p] # work[p]
      PROVE  \/ /\ IsNew(e) /\ checkout[e.of].sub = "active"
                /\ work'[p].copy = Current(e.of) /\ work'[p].event = e
             \/ /\ work'[p].pc = "save" /\ work'[p].copy = e /\ work'[p].event = e
                /\ IsNew(e) => intent = "completed"
                /\ e.status = "active" => checkout[e.of].sub = "active"
  <2>0. e.of \in Ids /\ ~Drop(p, e)
    BY <1>7 DEF EventsAre, Drop
  <2>1. CASE SyncUpgrade(p, e)
    BY <2>0, <2>1, Gone DEF SyncUpgrade, IsNew, Outdated, Verified
  <2>2. CASE SyncNew(p, e)
    <3>1. intent # "none" /\ intent \in {"none", "open", "completed"}
      BY <2>0, <2>2 DEF SyncNew, Origin, TypeOK
    <3> QED
      BY <2>0, <2>2, <3>1, Gone DEF SyncNew, IsNew, Outdated, Verified
  <2> QED
    BY <1>7, <2>1, <2>2
<1>8. CASE \E e \in events : SyncNew(p, e) \/ SyncUpgrade(p, e)
  BY <1>7, <1>8
<1>9. CASE \E c \in Ids : CompleteNew(p, c) \/ CompleteUpgrade(p, c)
  BY <1>6, <1>9
<1> QED
  BY <1>1, <1>2, <1>3, <1>4, <1>5, <1>8, <1>9 DEF Request, Sell, Finalize

LEMMA KnownCurrent ==
  ASSUME TypeOK, Truthful, NEW c \in Ids, checkout[c].sub # "none"
  PROVE  Known(Current(c)) /\ Current(c) # NoCopy /\ Current(c).of = c
<1>1. /\ checkout[c].sub \in {"active", "ended"} /\ checkout[c].rev \in Nat /\ checkout[c].rev # 0
  BY Checkouts DEF CheckoutType, Truthful, WellSold
<1>2. /\ Current(c).of = c /\ Current(c).status = checkout[c].sub /\ Current(c).rev = checkout[c].rev
      /\ Current(c).status # NoCopy.status
  BY <1>1 DEF Current, NoCopy
<1> QED
  BY <1>1, <1>2 DEF Known

(* The rows, the reports and the copies at work stay true.                   *)
LEMMA RequestTruthful ==
  ASSUME TypeOK, TypeOK', EventsAre, Locked, Origin, Truthful, NEW p \in Requests, Request(p)
  PROVE  Truthful'
<1>1. ASSUME NEW c \in Ids' PROVE WellSold(c)'
  <2>1. clock' = clock /\ clock \in Nat
    BY RequestFrame DEF TypeOK
  <2>2. CASE c \in Ids
    BY <2>1, <2>2, OthersStay DEF WellSold, Truthful
  <2>3. CASE c \notin Ids
    BY <2>1, <2>3, RequestFrame DEF WellSold
  <2> QED
    BY <2>2, <2>3
<1>2. Known(row)'
  <2>1. Known(row) /\ Known(work[p].copy) /\ row' \in {row, work[p].copy}
    BY RequestFrame DEF Truthful, Informed
  <2>2. PICK k \in {row, work[p].copy} : row' = k
    BY <2>1
  <2>3. Known(k)'
    BY <2>1, <2>2, KnownStays
  <2> QED
    BY <2>2, <2>3 DEF Known
<1>3. ASSUME NEW e \in events' PROVE e # NoCopy /\ Known(e)'
  BY RequestFrame, KnownStays DEF Truthful
<1>4. ASSUME NEW q \in Requests \ {p} PROVE Informed(q)'
  <2>1. Informed(q) /\ work'[q] = work[q]
    BY OthersStay DEF Truthful
  <2>2. PICK k, e : k = work[q].copy /\ e = work[q].event
    OBVIOUS
  <2>3. Known(k)' /\ (e # NoCopy => Known(e)')
    BY <2>1, <2>2, KnownStays DEF Informed
  <2>4. k.of \in Ids => IsNew(k)' = IsNew(k)
    BY OthersStay DEF IsNew
  <2>5. work[q].pc = "save" => k.of \in Ids
    BY <2>2 DEF Locked, Storing
  <2> QED
    BY <2>1, <2>2, <2>3, <2>4, <2>5, RequestFrame DEF Informed, IsNew, Known
<1>5. Informed(p)'
  <2>0. Informed(p) /\ (work[p].pc = "save" => work[p].copy.of \in Ids)
    BY DEF Truthful, Locked, Storing
  <2>1. CASE work'[p].copy = work[p].copy /\ work'[p].event = work[p].event
    <3>1. PICK k, e : k = work[p].copy /\ e = work[p].event
      OBVIOUS
    <3>2. Known(k)' /\ (e # NoCopy => Known(e)' /\ e.of = k.of)
      BY <2>0, <3>1, KnownStays DEF Informed
    <3>3. e.status = "ended" => /\ work'[p].pc = "save" /\ k = e
                                /\ IsNew(k)' => intent' = "completed"
      <4> SUFFICES ASSUME e.status = "ended"
                   PROVE  /\ work'[p].pc = "save" /\ k = e
                          /\ IsNew(k)' => intent' = "completed"
        OBVIOUS
      <4>1. work[p].pc = "save" /\ k = e /\ (IsNew(k) => intent = "completed") /\ k.of \in Ids
        BY <2>0, <3>1 DEF Informed
      <4>2. IsNew(k)' = IsNew(k)
        BY <4>1, OthersStay DEF IsNew
      <4>3. e # NoCopy
        BY DEF NoCopy
      <4>4. work'[p].pc = "save"
        <5>1. work'[p] = work[p] => work'[p].pc = "save"
          BY <4>1
        <5>2. work'[p] # Resting /\ work'[p].event # NoCopy
          BY <2>1, <3>1, <4>3 DEF Resting
        <5>3. \A x \in events : x = e => checkout[x.of].sub = "ended"
          BY DEF Truthful, Known
        <5> QED
          BY <2>1, <3>1, <4>1, <5>1, <5>2, <5>3, Moves DEF Follows
      <4> QED
        BY <4>1, <4>2, <4>4, RequestFrame
    <3> QED
      BY <2>1, <3>1, <3>2, <3>3 DEF Informed, Known, IsNew
  <2>2. CASE work'[p] = Resting
    BY <2>2 DEF Resting, Informed, Known, NoCopy
  <2>3. CASE \E c \in Ids : Verified(c) /\ work'[p].copy = Current(c) /\ work'[p].event = NoCopy
    <3>1. PICK c \in Ids : Verified(c) /\ work'[p].copy = Current(c) /\ work'[p].event = NoCopy
      BY <2>3
    <3>2. PICK k : k = Current(c) /\ Known(k)
      BY <3>1, KnownCurrent DEF Verified
    <3>3. Known(k)'
      BY <3>2, KnownStays
    <3> QED
      BY <3>1, <3>2, <3>3 DEF Informed, Known, NoCopy
  <2>4. CASE \E e \in events :
               IsNew(e) /\ checkout[e.of].sub = "active" /\ work'[p].copy = Current(e.of) /\ work'[p].event = e
    <3>1. PICK e \in events :
               IsNew(e) /\ checkout[e.of].sub = "active" /\ work'[p].copy = Current(e.of) /\ work'[p].event = e
      BY <2>4
    <3>2. PICK k : k = Current(e.of) /\ Known(k) /\ k.of = e.of
      BY <3>1, KnownCurrent DEF IsNew
    <3>3. Known(k)' /\ Known(e)' /\ e.status # "ended"
      BY <3>1, <3>2, KnownStays DEF Truthful, Known
    <3> QED
      BY <3>1, <3>2, <3>3 DEF Informed, Known
  <2>5. CASE \E e \in events :
               work'[p].pc = "save" /\ work'[p].copy = e /\ work'[p].event = e
               /\ (IsNew(e) => intent = "completed") /\ (e.status = "active" => checkout[e.of].sub = "active")
    <3>1. PICK e \in events :
               work'[p].pc = "save" /\ work'[p].copy = e /\ work'[p].event = e
               /\ (IsNew(e) => intent = "completed") /\ (e.status = "active" => checkout[e.of].sub = "active")
      BY <2>5
    <3>2. Known(e)' /\ (IsNew(e)' = IsNew(e))
      BY KnownStays, OthersStay DEF Truthful, EventsAre, IsNew
    <3> QED
      BY <3>1, <3>2, RequestFrame DEF Informed, Known, IsNew
  <2> QED
    BY <2>1, <2>2, <2>3, <2>4, <2>5, Moves
<1> QED
  BY <1>1, <1>2, <1>3, <1>4, <1>5 DEF Truthful, Known

-----------------------------------------------------------------------------
(* How the organization's rows change.                                       *)
LEMMA RowSteps ==
  ASSUME TypeOK, Locked, Truthful, NEW p \in Requests, Request(p)
  PROVE  /\ \/ org' = org
            \/ Make(p) /\ work[p].pc = "make" /\ org = "none" /\ org' = "pro"
            \/ work[p].pc = "save" /\ Exists /\ row' = work[p].copy /\ row'.status = "active" /\ org' = "pro"
            \/ work[p].pc = "demote" /\ org' = "hobby" /\ Ends(p)
            \/ work[p].pc = "delete" /\ org' = "gone" /\ Ends(p)
         /\ \/ intent' = intent
            \/ intent = "none" /\ org = "none" /\ intent' = "open" /\ work'[p].pc = "list new"
            \/ work[p].pc = "complete" /\ intent' = "completed" /\ Ends(p)
         /\ \/ linked' = linked
            \/ linked' = TRUE /\ ((Exists /\ lock.billing = "nobody") \/ work[p].pc = "link")
         /\ \/ row' = row
            \/ /\ work[p].pc = "save" /\ Exists /\ row' = work[p].copy /\ row.rev < row'.rev
               /\ row'.status = "active" => org' = "pro"
<1>1. ASSUME NEW pc, NEW purpose, NEW next, List(p, pc, purpose, next)
      PROVE  UNCHANGED local
  BY <1>1 DEF List
<1>2. ASSUME NEW pc, NEW purpose, CreateCheckout(p, pc, purpose)
      PROVE  UNCHANGED local
  BY <1>2 DEF CreateCheckout
<1>3. ASSUME NEW e \in events, SyncNew(p, e) \/ SyncUpgrade(p, e)
      PROVE  org' = org /\ intent' = intent /\ row' = row /\ (linked' = linked \/ (linked' = TRUE /\ Exists /\ lock.billing = "nobody"))
  BY <1>3 DEF SyncNew, SyncUpgrade, Drop, local, HasCustomer
<1>4. ASSUME NEW c \in Ids, CompleteNew(p, c) \/ CompleteUpgrade(p, c)
      PROVE  org' = org /\ intent' = intent /\ row' = row /\ (linked' = linked \/ (linked' = TRUE /\ Exists /\ lock.billing = "nobody"))
  BY <1>4 DEF CompleteNew, CompleteUpgrade, local, HasCustomer, Takes
<1>5. CASE StartNew(p)
  <2>1. work'[p].pc = "list new"
    BY <1>5, Stepping, InPlaces DEF StartNew
  <2> QED
    BY <1>5, <2>1 DEF StartNew
<1>6. CASE StartUpgrade(p) \/ Downgrade(p) \/ AskDelete(p)
  BY <1>6 DEF StartUpgrade, Downgrade, AskDelete, Suspended, Exists, local, Takes
<1>7. CASE Make(p)
  BY <1>7 DEF Make
<1>8. CASE Link(p) \/ Complete(p) \/ Demote(p) \/ Delete(p) \/ Fail(p)
  BY <1>8 DEF Link, Complete, Demote, Delete, Fail, local
<1>9. CASE Save(p)
  BY <1>9 DEF Save, Stores
<1> QED
  BY <1>1, <1>2, <1>3, <1>4, <1>5, <1>6, <1>7, <1>8, <1>9
  DEF Request, Finalize, Sell, ListNew, SellNew, ListUpgrades, SellUpgrade, local

(* How the checkouts grow.                                                   *)
LEMMA Growing ==
  ASSUME TypeOK, NEW p \in Requests, Request(p), Ids' # Ids
  PROVE  \E c \in Ids' \ Ids :
            /\ Ids' = Ids \cup {c} /\ \A d \in Ids : checkout'[d] = checkout[d]
            /\ checkout'[c].status = "open" /\ checkout'[c].sub = "none" /\ checkout'[c].rev = 0
            /\ \/ work[p].pc = "sell new" /\ checkout'[c].purpose = "create"
               \/ work[p].pc = "sell upgrade" /\ checkout'[c].purpose = "upgrade"
            /\ Ends(p) /\ UNCHANGED <<local, clock, events, midway>>
<1>1. SellNew(p) \/ SellUpgrade(p)
  <2>1. \A pc, purpose, next : List(p, pc, purpose, next) => checkout' = checkout
    BY DEF List, provider
  <2>2. \A e \in events : SyncNew(p, e) \/ SyncUpgrade(p, e) => checkout' = checkout
    BY DEF SyncNew, SyncUpgrade, Drop, provider
  <2>3. \A c \in Ids : CompleteNew(p, c) \/ CompleteUpgrade(p, c) => checkout' = checkout
    BY DEF CompleteNew, CompleteUpgrade, provider
  <2>4. checkout' # checkout
    BY Same
  <2> QED
    BY <2>1, <2>2, <2>3, <2>4
    DEF Request, Sell, ListNew, ListUpgrades, StartNew, StartUpgrade, Finalize, Make, Link, Save, Complete,
        Downgrade, Demote, AskDelete, Delete, Fail, provider
<1>2. ASSUME NEW pc, NEW purpose \in {"create", "upgrade"}, CreateCheckout(p, pc, purpose)
      PROVE  \E c \in Ids' \ Ids :
                /\ Ids' = Ids \cup {c} /\ \A d \in Ids : checkout'[d] = checkout[d]
                /\ checkout'[c].status = "open" /\ checkout'[c].sub = "none" /\ checkout'[c].rev = 0
                /\ work[p].pc = pc /\ checkout'[c].purpose = purpose
                /\ Ends(p) /\ UNCHANGED <<local, clock, events, midway>>
  <2> DEFINE x == [purpose |-> purpose, status |-> "open", sub |-> "none", rev |-> 0]
  <2>1. x \in CheckoutType /\ x.purpose = purpose /\ x.status = "open" /\ x.sub = "none" /\ x.rev = 0
    BY DEF CheckoutType
  <2>2. checkout' = Append(checkout, x) /\ Len(checkout) < MaxCheckouts
    BY <1>2 DEF CreateCheckout
  <2>3. work[p].pc = pc /\ Ends(p) /\ UNCHANGED <<local, clock, events, midway>>
    BY <1>2 DEF CreateCheckout
  <2> HIDE DEF x
  <2>4. /\ Ids' = Ids \cup {Len(checkout) + 1} /\ Len(checkout) + 1 \notin Ids
        /\ checkout'[Len(checkout) + 1] = x /\ \A d \in Ids : checkout'[d] = checkout[d]
    BY <2>1, <2>2, Appended
  <2> QED
    BY <2>1, <2>3, <2>4
<1> QED
  BY <1>1, <1>2 DEF SellNew, SellUpgrade

(* What holds when a request comes to a new place.                           *)
Arrives(p) ==
    /\ work'[p].pc = "list new" => lock.creation = "nobody" /\ intent' = "open" /\ (intent = "open" \/ org = "none")
    /\ work'[p].pc = "sell new" => work[p].pc = "list new" /\ \A c \in Ids : ~Reusable(c, "create")
    /\ work'[p].pc = "list upgrades" =>
            Exists /\ row.status # "active" /\ linked' = TRUE /\ lock.billing = "nobody"
    /\ work'[p].pc = "sell upgrade" =>
            work[p].pc = "list upgrades" /\ \A c \in Ids : ~Reusable(c, "upgrade")
    /\ work'[p].pc = "demote" => Suspended /\ linked' = TRUE /\ lock.billing = "nobody"
    /\ work'[p].pc = "delete" => Exists /\ ~HasCustomer /\ lock.billing = "nobody" /\ UNCHANGED local
    /\ work'[p].pc = "make" => lock.creation = "nobody" /\ lock.billing = "nobody"
    /\ work'[p].pc = "save" =>
            \/ work[p].pc = "link"
            \/ lock.billing = "nobody" /\ (HasCustomer \/ intent = "completed") /\ (linked' = TRUE \/ intent = "completed")
    /\ work'[p].pc = "link" => work[p].pc = "make" /\ org' # "none"
    /\ work'[p].pc = "complete" => work[p].pc = "save"

LEMMA Arriving ==
  ASSUME TypeOK, EventsAre, Origin, NEW p \in Requests, Request(p), work'[p].pc # work[p].pc
  PROVE  Arrives(p)
<1>e. Ends(p) => work'[p].pc = "idle"
  BY Ending DEF Resting
<1>i. work'[p].pc = "idle" => Arrives(p)
  BY DEF Arrives
<1>s. ASSUME NEW pc \in Places, Steps(p, pc)
      PROVE  work'[p].pc = pc
  BY <1>s, Stepping
<1>1. CASE StartNew(p)
  BY <1>1, <1>s, InPlaces DEF StartNew, Takes, Arrives
<1>2. CASE StartUpgrade(p)
  BY <1>2, <1>s, InPlaces DEF StartUpgrade, Takes, Arrives
<1>3. CASE Downgrade(p)
  BY <1>3, <1>s, InPlaces DEF Downgrade, Takes, Arrives
<1>4. CASE AskDelete(p)
  BY <1>4, <1>s, InPlaces DEF AskDelete, Takes, Arrives
<1>5. CASE ListNew(p) \/ ListUpgrades(p)
  <2>1. CASE Ends(p)
    BY <2>1, <1>e, <1>i
  <2>2. CASE ListNew(p) /\ ~Ends(p)
    BY <2>2, <1>s, InPlaces DEF ListNew, List, Arrives
  <2>3. CASE ListUpgrades(p) /\ ~Ends(p)
    BY <2>3, <1>s, InPlaces DEF ListUpgrades, List, Arrives
  <2> QED
    BY <1>5, <2>1, <2>2, <2>3
<1>6. CASE SellNew(p) \/ SellUpgrade(p) \/ Complete(p) \/ Demote(p) \/ Delete(p) \/ Fail(p)
  BY <1>6, <1>e, <1>i DEF SellNew, SellUpgrade, CreateCheckout, Complete, Demote, Delete, Fail
<1>7. CASE Make(p)
  BY <1>7, <1>s, InPlaces DEF Make, Arrives
<1>8. CASE Link(p)
  BY <1>8, <1>s, InPlaces DEF Link, Arrives
<1>9. CASE Save(p)
  <2>1. CASE Ends(p)
    BY <2>1, <1>e, <1>i
  <2>2. CASE ~Ends(p)
    BY <1>9, <2>2, <1>s, InPlaces DEF Save, Arrives
  <2> QED
    BY <2>1, <2>2
<1>10. ASSUME NEW c \in Ids, CompleteNew(p, c) \/ CompleteUpgrade(p, c)
       PROVE  Arrives(p)
  <2>1. CASE CompleteNew(p, c)
    <3>1. work'[p].pc = "make" /\ lock.creation = "nobody" /\ lock.billing = "nobody"
      BY <2>1, Gone DEF CompleteNew, Takes
    <3> QED
      BY <3>1 DEF Arrives
  <2>2. CASE CompleteUpgrade(p, c)
    <3>1. work'[p].pc = "save" /\ lock.billing = "nobody" /\ HasCustomer /\ linked' = TRUE
      BY <2>2, Gone DEF CompleteUpgrade, Takes
    <3> QED
      BY <3>1 DEF Arrives
  <2> QED
    BY <1>10, <2>1, <2>2
<1>11. ASSUME NEW e \in events, SyncNew(p, e) \/ SyncUpgrade(p, e)
       PROVE  Arrives(p)
  <2>0. ~Drop(p, e)
    BY <1>11 DEF Drop
  <2>1. CASE SyncUpgrade(p, e)
    <3>1. work'[p].pc = "save" /\ lock.billing = "nobody" /\ HasCustomer /\ linked' = TRUE
      BY <2>0, <2>1, Gone DEF SyncUpgrade, Takes
    <3> QED
      BY <3>1 DEF Arrives
  <2>2. CASE SyncNew(p, e)
    <3>1. /\ work'[p].pc = "make" \/ (work'[p].pc = "save" /\ intent = "completed")
          /\ lock.creation = "nobody" /\ lock.billing = "nobody"
      BY <2>0, <2>2, Gone DEF SyncNew, Takes
    <3> QED
      BY <3>1 DEF Arrives
  <2> QED
    BY <1>11, <2>1, <2>2
<1> QED
  BY <1>1, <1>2, <1>3, <1>4, <1>5, <1>6, <1>7, <1>8, <1>9, <1>10, <1>11 DEF Request, Sell, Finalize

-----------------------------------------------------------------------------
(* The organization's origin.                                                *)
LEMMA ProviderOrigin ==
  ASSUME TypeOK, Truthful, Origin, NEW c \in Ids, Confirm(c) \/ Expire(c) \/ Succeed(c) \/ Cancel(c)
  PROVE  Origin'
<1>1. Creates' \subseteq Creates
  <2>1. checkout[c].status # "expired"
    BY DEF Confirm, Expire, Succeed, Cancel, Truthful, WellSold
  <2> QED
    BY <2>1, ProviderFrame DEF Creates
<1>2. ASSUME NEW d \in Creates, checkout[d].status = "succeeded"
      PROVE  d \in Creates' /\ checkout'[d].status = "succeeded"
  <2>1. CASE d # c
    BY <1>2, <2>1, ProviderFrame DEF Creates
  <2>2. CASE d = c /\ (Confirm(c) \/ Expire(c))
    BY <1>2, <2>2, Becoming
  <2>3. CASE d = c /\ (Succeed(c) \/ Cancel(c))
    BY <1>2, <2>3, Reporting, ProviderFrame DEF Succeed, Cancel, Creates
  <2> QED
    BY <2>1, <2>2, <2>3
<1> QED
  BY <1>1, <1>2, ProviderFrame DEF Origin

LEMMA RequestOrigin ==
  ASSUME TypeOK, TypeOK', EventsAre, Locked, Truthful, Origin, NEW p \in Requests, Request(p)
  PROVE  Origin'
<1> USE BillingAssumption
<1>0. /\ org' = "none" => org = "none"
      /\ intent' = "none" => intent = "none"
  BY RowSteps DEF Exists
<1>1. CASE Ids' # Ids
  <2>1. PICK c \in Ids' \ Ids :
            /\ Ids' = Ids \cup {c} /\ \A d \in Ids : checkout'[d] = checkout[d]
            /\ checkout'[c].status = "open"
            /\ \/ work[p].pc = "sell new" /\ checkout'[c].purpose = "create"
               \/ work[p].pc = "sell upgrade" /\ checkout'[c].purpose = "upgrade"
            /\ Ends(p) /\ UNCHANGED local
    BY <1>1, Growing
  <2>2. work'[p].pc = "idle" /\ \A q \in Requests \ {p} : work'[q] = work[q]
    <3>1. Ends(p)
      BY <2>1
    <3> QED
      BY <3>1, Ending, OthersStay DEF Resting
  <2>3. CASE work[p].pc = "sell new"
    <3>a. Creates = {} /\ intent # "none" /\ lock.creation = p
      BY <2>3 DEF Origin, Locked, UnderCreation
    <3>b. Creates' = {c}
      BY <2>1, <2>3, <3>a DEF Creates
    <3>1. Creates = {} /\ Creates' = {c} /\ intent # "none" /\ lock.creation = p
      BY <3>a, <3>b
    <3>2. \A q \in Requests \ {p} : work'[q].pc # "sell new"
      BY <2>2, <3>1 DEF Locked, UnderCreation
    <3>3. org = "none"
      BY <3>1 DEF Origin, TypeOK
    <3> QED
      BY <2>1, <2>2, <2>3, <3>1, <3>2, <3>3 DEF Origin, local
  <2>4. CASE work[p].pc = "sell upgrade"
    <3>1. Creates' = Creates /\ org # "none"
      BY <2>1, <2>4 DEF Creates, Origin
    <3> QED
      <4>1. /\ org' = org /\ intent' = intent
            /\ \A q \in Requests : work'[q].pc \in {"list new", "sell new"} => work[q].pc = work'[q].pc
            /\ \A d \in Creates : checkout'[d] = checkout[d]
        BY <2>1, <2>2 DEF local, Creates
      <4>2. intent = "none" => \A d \in Ids' : checkout'[d].purpose = "upgrade"
        BY <2>1, <2>4 DEF Origin
      <4> QED
        BY <3>1, <4>1, <4>2 DEF Origin
  <2> QED
    BY <2>1, <2>3, <2>4
<1>2. CASE Ids' = Ids
  <2>1. Creates' = Creates /\ \A c \in Ids : checkout'[c] = checkout[c]
    BY <1>2, OthersStay DEF Creates
  <2>2. ASSUME org' = "none"
        PROVE  /\ \A c \in Ids' : checkout'[c].purpose = "create"
               /\ row' = NoCopy /\ ~linked' /\ intent' # "completed"
               /\ \A q \in Requests : work'[q].pc \in {"idle", "list new", "sell new", "make"}
    <3>1. org = "none"
      BY <1>0, <2>2
    <3>2. row' = NoCopy /\ ~linked' /\ intent' # "completed"
      BY <3>1, RowSteps DEF Origin, Exists, TypeOK
    <3>3. work'[p].pc \in {"idle", "list new", "sell new", "make"}
      <4>1. work[p].pc \in {"idle", "list new", "sell new", "make"} /\ work'[p].pc \in Places /\ intent # "completed"
        BY <3>1 DEF Origin, TypeOK
      <4>2. work'[p].pc # work[p].pc => Arrives(p)
        BY Arriving
      <4> QED
        BY <2>2, <3>1, <3>2, <4>1, <4>2 DEF Arrives, Exists, HasCustomer, Suspended, Places
    <3> QED
      BY <1>2, <2>1, <3>1, <3>2, <3>3, OthersStay DEF Origin
  <2>3. ASSUME intent' = "none"
        PROVE  /\ \A c \in Ids' : checkout'[c].purpose = "upgrade"
               /\ \A q \in Requests : work'[q].pc \notin {"list new", "sell new"}
    <3>1. intent = "none"
      BY <1>0, <2>3
    <3>2. work'[p].pc \notin {"list new", "sell new"}
      <4>1. work[p].pc \notin {"list new", "sell new"}
        BY <3>1 DEF Origin
      <4>2. work'[p].pc \in {"list new", "sell new"} => work[p].pc \in {"list new", "sell new"} \/ intent' = "open"
        BY Arriving DEF Arrives
      <4> QED
        BY <2>3, <4>1, <4>2
    <3> QED
      BY <1>2, <2>1, <3>1, <3>2, OthersStay DEF Origin
  <2>4. ASSUME org' # "none", intent' # "none"
        PROVE  \E c \in Creates' : checkout'[c].status = "succeeded"
    <3>1. CASE org # "none" /\ intent # "none"
      BY <2>1, <3>1 DEF Origin, Creates
    <3>2. CASE org = "none"
      <4>1. work[p].pc = "make" /\ work[p].copy.of \in Ids /\ IsNew(work[p].copy)
        BY <2>4, <3>2, RowSteps DEF Locked, Storing, Finalizing, Exists, Origin
      <4>2. checkout[work[p].copy.of].sub # "none" /\ WellSold(work[p].copy.of)
        BY <4>1, Checkouts DEF Truthful, Informed, Known, NoCopy
      <4>3. checkout[work[p].copy.of].status = "succeeded"
        BY <4>2 DEF WellSold
      <4> QED
        BY <2>1, <4>1, <4>3 DEF Creates, IsNew
    <3>3. CASE org # "none" /\ intent = "none"
      <4>1. work[p].pc = "complete"
        BY <2>4, <3>3, RowSteps
      <4>2. IsNew(work[p].copy)
        BY <4>1 DEF Locked, Finalizing
      <4> QED
        BY <3>3, <4>2 DEF Origin, IsNew
    <3> QED
      BY <3>1, <3>2, <3>3
  <2>5. ASSUME NEW q \in Requests, work'[q].pc = "sell new" PROVE Creates' = {}
    <3>1. CASE work[q].pc = "sell new"
      BY <2>1, <3>1 DEF Origin
    <3>2. CASE work[q].pc # "sell new"
      <4>1. q = p
        BY <2>5, <3>2, OthersStay
      <4>2. \A c \in Ids : ~Reusable(c, "create")
        BY <2>5, <3>2, <4>1, Arriving DEF Arrives
      <4>3. \A c \in Ids : checkout[c].status \in {"open", "confirmed", "succeeded", "expired"}
        BY Checkouts DEF CheckoutType
      <4> QED
        BY <2>1, <4>2, <4>3 DEF Creates, Reusable
    <3> QED
      BY <3>1, <3>2
  <2> QED
    BY <2>1, <2>2, <2>3, <2>4, <2>5 DEF Origin
<1> QED
  BY <1>1, <1>2

-----------------------------------------------------------------------------
(* Who may be deleted, and the plan.                                         *)
LEMMA ProviderUnsold ==
  ASSUME TypeOK, Unsold, PlanFollows, NEW c \in Ids, Confirm(c) \/ Expire(c) \/ Succeed(c) \/ Cancel(c)
  PROVE  Unsold' /\ PlanFollows'
  BY ProviderFrame DEF Unsold, PlanFollows

LEMMA RequestUnsold ==
  ASSUME TypeOK, TypeOK', EventsAre, Locked, Truthful, Origin, Unsold, PlanFollows,
         NEW p \in Requests, Request(p)
  PROVE  Unsold' /\ PlanFollows'
<1> USE BillingAssumption
<1>0. /\ \A q \in Requests : work[q].pc \in UnderBilling => lock.billing = q
      /\ \A q \in Requests \ {p} : work'[q] = work[q]
      /\ Ends(p) => work'[p].pc = "idle"
  BY OthersStay, Ending DEF Locked, Resting
<1> USE DEF UnderBilling, Storing, Finalizing
<1>1. ASSUME NEW q \in Requests, work'[q].pc = "delete" PROVE org' = "hobby" /\ ~linked'
  <2>1. CASE work[q].pc = "delete"
    <3>1. org = "hobby" /\ ~linked /\ lock.billing = q
      BY <1>0, <2>1 DEF Unsold
    <3>2. work[p].pc \in UnderBilling => p = q
      BY <1>0, <3>1
    <3> QED
      BY <1>0, <1>1, <2>1, <3>1, <3>2, RowSteps
  <2>2. CASE work[q].pc # "delete"
    <3>1. q = p /\ Arrives(p)
      BY <1>0, <1>1, <2>2, Arriving
    <3> QED
      BY <1>1, <3>1 DEF Arrives, HasCustomer, Exists, local, TypeOK
  <2> QED
    BY <2>1, <2>2
<1>2. ASSUME org' = "gone" \/ (org' = "hobby" /\ ~linked')
      PROVE  Ids' = {} /\ intent' = "none" /\ \A q \in Requests : work'[q].pc \in {"idle", "delete"}
  <2>1. org = "gone" \/ (org = "hobby" /\ ~linked)
    BY <1>2, RowSteps DEF Unsold, PlanFollows, TypeOK
  <2>2. Ids = {} /\ intent = "none" /\ \A q \in Requests : work[q].pc \in {"idle", "delete"}
    BY <2>1 DEF Unsold
  <2>3. Ids' = {}
    BY <2>2, Growing
  <2>4. intent' = "none"
    BY <2>1, <2>2, RowSteps
  <2>5. work'[p].pc \in {"idle", "delete"}
    <3>1. CASE work'[p].pc = work[p].pc
      BY <2>2, <3>1
    <3>2. CASE work'[p].pc # work[p].pc
      <4>1. Arrives(p) /\ work'[p].pc \in Places
        BY <3>2, Arriving DEF TypeOK
      <4>2. events = {}
        BY <2>2 DEF EventsAre
      <4>3. work'[p].pc \notin {"make", "link", "save", "complete"}
        <5>1. Follows(work[p].pc, work'[p].pc) \/ work'[p].pc = "idle"
          BY <2>2, <3>2, <4>2, Moves DEF Resting
        <5> QED
          BY <2>2, <5>1 DEF Follows
      <4>4. work'[p].pc \notin {"list new", "sell new", "sell upgrade"}
        BY <2>2, <2>4, <4>1 DEF Arrives
      <4>5. work'[p].pc \notin {"list upgrades", "demote"}
        <5>1. lock.billing = "nobody" => work[p].pc # "delete"
          BY <1>0
        <5> QED
          BY <1>2, <2>1, <2>2, <4>1, <5>1, RowSteps DEF Arrives, Exists, Suspended
      <4> QED
        BY <4>1, <4>3, <4>4, <4>5 DEF Places
    <3> QED
      BY <3>1, <3>2
  <2> QED
    BY <1>0, <2>2, <2>3, <2>4, <2>5
<1>3. ASSUME row'.status = "active" PROVE org' = "pro"
  <2>1. CASE row' = row
    <3>1. org = "pro"
      BY <1>3, <2>1 DEF PlanFollows
    <3> QED
      BY <1>3, <2>1, <3>1, RowSteps DEF PlanFollows, Unsold
  <2>2. CASE row' # row
    BY <1>3, <2>2, RowSteps
  <2> QED
    BY <2>1, <2>2
<1>4. ASSUME NEW q \in Requests, work'[q].pc = "demote"
      PROVE  row'.status # "active" /\ org' = "pro" /\ linked'
  <2>1. CASE work[q].pc = "demote"
    <3>1. row.status # "active" /\ org = "pro" /\ linked /\ lock.billing = q
      BY <1>0, <2>1 DEF PlanFollows
    <3>2. work[p].pc \in UnderBilling => p = q
      BY <1>0, <3>1
    <3> QED
      BY <1>0, <1>4, <2>1, <3>1, <3>2, RowSteps
  <2>2. CASE work[q].pc # "demote"
    <3>1. q = p /\ Arrives(p)
      BY <1>0, <1>4, <2>2, Arriving
    <3>2. Suspended /\ linked' /\ work[p].pc \notin UnderBilling
      BY <1>0, <1>4, <3>1 DEF Arrives
    <3> QED
      BY <3>2, RowSteps DEF Suspended
  <2> QED
    BY <2>1, <2>2
<1> QED
  BY <1>1, <1>2, <1>3, <1>4 DEF Unsold, PlanFollows

-----------------------------------------------------------------------------
(* Which reports are acknowledged, and when.                                 *)
LEMMA Removing ==
  ASSUME TypeOK, EventsAre, NEW p \in Requests, Request(p), NEW e \in events, e \notin events'
  PROVE  \/ /\ work[p].pc = "idle" /\ work' = work /\ UNCHANGED local
            /\ \/ e.status = "active" /\ ~Verified(e.of)
               \/ IsNew(e) /\ intent = "open" /\ lock.creation = "nobody" /\ checkout[e.of].sub # "active"
         \/ /\ work[p].pc \in {"save", "complete"} /\ e = work[p].event /\ Ends(p)
            /\ work[p].pc = "save" => Stores(work[p].copy)
<1>1. ASSUME NEW pc, NEW purpose, NEW next, List(p, pc, purpose, next) PROVE FALSE
  BY <1>1 DEF List, provider
<1>2. ASSUME NEW pc, NEW purpose, CreateCheckout(p, pc, purpose) PROVE FALSE
  BY <1>2 DEF CreateCheckout
<1>3. ASSUME NEW c \in Ids, CompleteNew(p, c) \/ CompleteUpgrade(p, c) PROVE FALSE
  BY <1>3 DEF CompleteNew, CompleteUpgrade, provider
<1>4. ASSUME NEW x \in events, SyncNew(p, x) \/ SyncUpgrade(p, x)
      PROVE  /\ work[p].pc = "idle" /\ work' = work /\ UNCHANGED local
             /\ \/ e.status = "active" /\ ~Verified(e.of)
                \/ IsNew(e) /\ intent = "open" /\ lock.creation = "nobody" /\ checkout[e.of].sub # "active"
  <2>1. Drop(p, x) /\ x = e
    BY <1>4 DEF SyncNew, SyncUpgrade, Drop, provider
  <2>2. e.of \in Ids /\ p \in Requests
    BY DEF EventsAre
  <2>3. CASE SyncUpgrade(p, e)
    <3>1. Outdated(e)
      <4>1. ~Goes(p, "save", e, e)
        BY <2>1, <2>3, Gone DEF Drop, SyncUpgrade
      <4> QED
        BY <2>3, <4>1 DEF SyncUpgrade
    <3> QED
      BY <2>1, <2>3, <3>1 DEF SyncUpgrade, Drop, Outdated
  <2>4. CASE SyncNew(p, e)
    <3>1. Outdated(e) \/ (intent = "open" /\ checkout[e.of].sub # "active")
      <4>1. ~Goes(p, "save", e, e) /\ ~Goes(p, "make", Current(e.of), e)
        BY <2>1, <2>4, Gone DEF Drop, SyncNew
      <4> QED
        BY <2>4, <4>1 DEF SyncNew
    <3> QED
      BY <2>1, <2>2, <2>4, <3>1 DEF SyncNew, Drop, Outdated, IsNew
  <2> QED
    BY <1>4, <2>1, <2>3, <2>4
<1>5. CASE Save(p)
  BY <1>5 DEF Save
<1>6. CASE Complete(p)
  BY <1>6 DEF Complete
<1> QED
  BY <1>1, <1>2, <1>3, <1>4, <1>5, <1>6
  DEF Request, Sell, ListNew, SellNew, ListUpgrades, SellUpgrade, Finalize, StartNew, StartUpgrade, Make, Link,
      Downgrade, Demote, AskDelete, Delete, Fail, provider

(* What is left of a finalization goes on as it began, or breaks off.        *)
LEMMA Finishing ==
  ASSUME TypeOK, NEW p \in Requests, Request(p), work[p].pc \in {"link", "save", "complete"}
  PROVE  \/ Fail(p)
         \/ work[p].pc = "link" /\ Link(p)
         \/ work[p].pc = "save" /\ Save(p)
         \/ work[p].pc = "complete" /\ Complete(p)
<1>1. \A pc, purpose, next : List(p, pc, purpose, next) => pc = work[p].pc
  BY DEF List
<1>2. \A pc, purpose : CreateCheckout(p, pc, purpose) => pc = work[p].pc
  BY DEF CreateCheckout
<1>3. \A e \in events : ~SyncNew(p, e) /\ ~SyncUpgrade(p, e)
  BY DEF SyncNew, SyncUpgrade
<1>4. \A c \in Ids : ~CompleteNew(p, c) /\ ~CompleteUpgrade(p, c)
  BY DEF CompleteNew, CompleteUpgrade, Takes
<1> QED
  BY <1>1, <1>2, <1>3, <1>4
  DEF Request, Sell, ListNew, SellNew, ListUpgrades, SellUpgrade, Finalize, StartNew, StartUpgrade, Downgrade,
      AskDelete, Takes, Make, Link, Save, Complete, Demote, Delete

LEMMA Saving ==
  ASSUME TypeOK, Locked, NEW p \in Requests, Request(p), work[p].pc = "save", work'[p].pc # "idle"
  PROVE  /\ work'[p].pc = "complete" /\ work'[p].copy = work[p].copy /\ work'[p].event = work[p].event
         /\ intent = "open" /\ intent' = intent /\ IsNew(work[p].copy) /\ Stores(work[p].copy)
         /\ UNCHANGED <<checkout, events, lock, linked, midway>>
<1>1. Save(p) /\ ~Ends(p)
  BY Finishing, Ending DEF Fail, Resting
<1>2. Steps(p, "complete") /\ work[p].copy.of \in Ids
  BY <1>1 DEF Save, Locked, Storing
<1> QED
  BY <1>1, <1>2, Stepping, InPlaces DEF Save, IsNew

LEMMA Completing ==
  ASSUME TypeOK, NEW p \in Requests, Request(p), work[p].pc = "complete"
  PROVE  Ends(p)
  BY Finishing DEF Fail, Complete

-----------------------------------------------------------------------------
(* A subscription that was active when it was read.                          *)
LEMMA BackedOfProvider ==
  ASSUME TypeOK, Truthful, NEW c \in Ids, Confirm(c) \/ Expire(c) \/ Succeed(c) \/ Cancel(c),
         NEW k, Known(k), Backed(k)
  PROVE  Backed(k)'
<1> SUFFICES ASSUME k.status = "active" PROVE Backed(k)'
  BY DEF Backed
<1>1. k.of \in Ids
  BY DEF Known, NoCopy
<1>2. events \subseteq events'
  BY Becoming DEF Succeed, Cancel, Report
<1>3. CASE \E e \in events : e.of = k.of /\ e.status = "ended"
  BY <1>2, <1>3 DEF Backed
<1>4. CASE checkout[k.of].sub = "active"
  <2>1. CASE k.of # c
    BY <1>1, <1>4, <2>1, ProviderFrame DEF Backed
  <2>2. CASE k.of = c /\ (Confirm(c) \/ Expire(c))
    BY <1>4, <2>2, Becoming DEF Backed
  <2>3. CASE k.of = c /\ Succeed(c)
    BY <1>4, <2>3 DEF Succeed, Truthful, WellSold
  <2>4. CASE k.of = c /\ Cancel(c)
    <3>1. PICK e : e = [of |-> c, status |-> "ended", rev |-> clock + 1] /\ e \in events'
      BY <2>4, Reporting DEF Cancel
    <3>2. e.of = k.of /\ e.status = "ended"
      BY <2>4, <3>1
    <3> QED
      BY <3>1, <3>2 DEF Backed
  <2> QED
    BY <2>1, <2>2, <2>3, <2>4
<1> QED
  BY <1>3, <1>4 DEF Backed

LEMMA ProviderEntitled ==
  ASSUME TypeOK, Locked, Truthful, Entitled, NEW c \in Ids, Confirm(c) \/ Expire(c) \/ Succeed(c) \/ Cancel(c)
  PROVE  Entitled'
<1>1. /\ work' = work /\ row' = row /\ intent' = intent
      /\ \A k : IsNew(k)' = IsNew(k)
  BY ProviderFrame DEF IsNew
<1>2. Backed(row) => Backed(row)'
  <2>1. PICK k : k = row
    OBVIOUS
  <2>2. Known(k)
    BY <2>1 DEF Truthful
  <2> QED
    BY <1>1, <2>1, <2>2, BackedOfProvider DEF Backed
<1>3. ASSUME NEW p \in Requests, Backed(work[p].copy) PROVE Backed(work[p].copy)'
  <2>1. PICK k : k = work[p].copy
    OBVIOUS
  <2>2. Known(k) /\ Backed(k)
    BY <1>3, <2>1 DEF Truthful, Informed
  <2> QED
    BY <1>1, <2>1, <2>2, BackedOfProvider DEF Backed
<1> QED
  BY <1>1, <1>2, <1>3 DEF Entitled, IsNew

LEMMA BackedStays ==
  ASSUME TypeOK, EventsAre, NEW p \in Requests, Request(p), NEW k, Known(k), Backed(k),
         \A e \in events : e \notin events' /\ e.status = "ended" /\ e.of = k.of => k.status # "active"
  PROVE  Backed(k)'
<1> SUFFICES ASSUME k.status = "active" PROVE Backed(k)'
  BY DEF Backed
<1>1. k.of \in Ids /\ checkout'[k.of] = checkout[k.of]
  BY OthersStay DEF Known, NoCopy
<1> QED
  BY <1>1 DEF Backed

(* The copy of another request is backed as before.                          *)
LEMMA OthersBacked ==
  ASSUME TypeOK, EventsAre, Locked, Truthful, NEW p \in Requests, Request(p), NEW q \in Requests \ {p},
         work[q].pc \in Storing, NEW k, Known(k), Backed(k),
         k.of = work[q].copy.of \/ work[q].pc = "complete"
  PROVE  Backed(k)'
<1> SUFFICES ASSUME NEW e \in events, e \notin events', e.status = "ended", e.of = k.of PROVE FALSE
  BY BackedStays
<1>1. lock.billing = q /\ (work[q].pc = "save" \/ lock.creation = q)
  BY DEF Locked, Storing, UnderBilling, UnderCreation, Finalizing
<1>2. work[p].pc \notin {"save", "complete"}
  BY <1>1 DEF Locked, Storing, UnderBilling, Finalizing
<1>3. IsNew(e) /\ lock.creation = "nobody"
  BY <1>2, Removing
<1>4. lock.creation = q
  <2>1. CASE work[q].pc = "complete"
    BY <1>1, <2>1
  <2>2. CASE work[q].pc # "complete"
    BY <1>1, <1>3, <2>2 DEF IsNew, Locked
  <2> QED
    BY <2>1, <2>2
<1> QED
  BY <1>3, <1>4, BillingAssumption

(* The stored subscription, and the copies at work.                          *)
LEMMA RowBacked ==
  ASSUME TypeOK, EventsAre, Locked, Truthful, Entitled, NEW p \in Requests, Request(p),
         intent' # "open" \/ ~IsNew(row)'
  PROVE  Backed(row)'
<1>1. CASE row' = row
  <2>1. PICK k : k = row
    OBVIOUS
  <2>2. Known(k)
    BY <2>1 DEF Truthful
  <2> SUFFICES ASSUME k.status = "active" PROVE Backed(k)'
    BY <1>1, <2>1 DEF Backed
  <2>3. k.of \in Ids /\ IsNew(row)' = IsNew(k)
    BY <1>1, <2>1, <2>2, OthersStay DEF Known, NoCopy, IsNew
  <2>4. Backed(k)
    <3>1. CASE intent # "open" \/ ~IsNew(row)
      BY <2>1, <3>1 DEF Entitled
    <3>2. CASE intent = "open" /\ IsNew(row)
      <4>1. intent' # "open"
        BY <2>1, <2>3, <3>2
      <4>2. work[p].pc = "complete"
        BY <3>2, <4>1, RowSteps
      <4> QED
        BY <2>1, <4>2 DEF Entitled
    <3> QED
      BY <3>1, <3>2
  <2>5. ASSUME NEW e \in events, e \notin events', e.status = "ended", e.of = k.of PROVE FALSE
    <3>1. CASE IsNew(e) /\ intent = "open" /\ UNCHANGED local
      BY <2>3, <2>5, <3>1 DEF IsNew, local
    <3>2. CASE /\ work[p].pc \in {"save", "complete"} /\ e = work[p].event
               /\ work[p].pc = "save" => Stores(work[p].copy)
      <4>1. work[p].copy = e /\ Stores(e) /\ Known(e)
        BY <2>5, <3>2 DEF Truthful, Informed
      <4>2. e.rev = checkout[e.of].rev /\ checkout[e.of].sub = "ended"
        BY <2>5, <4>1 DEF Truthful, Known, NoCopy
      <4>3. k.rev < e.rev /\ k.rev \in Nat
        BY <2>1, <2>2, <2>5, <4>2 DEF Known, NoCopy, TypeOK, Copies
      <4> QED
        BY <1>1, <2>1, <2>5, <4>1, <4>3 DEF Stores
    <3> QED
      BY <2>5, <3>1, <3>2, Removing
  <2> QED
    BY <2>2, <2>4, <2>5, BackedStays
<1>2. CASE row' # row
  <2>1. work[p].pc = "save" /\ row' = work[p].copy
    BY <1>2, RowSteps
  <2>2. PICK k : k = work[p].copy
    OBVIOUS
  <2>3. Known(k) /\ Backed(k)
    BY <2>1, <2>2 DEF Truthful, Informed, Entitled, Storing
  <2>4. ASSUME NEW e \in events, e \notin events', e.status = "ended" PROVE k.status # "active"
    <3>1. e = work[p].event
      BY <2>1, <2>4, Removing
    <3> QED
      BY <2>2, <2>4, <3>1 DEF Truthful, Informed
  <2>5. Backed(k)'
    BY <2>3, <2>4, BackedStays
  <2> QED
    BY <2>1, <2>2, <2>5 DEF Backed
<1> QED
  BY <1>1, <1>2

LEMMA CurrentBacked ==
  ASSUME TypeOK, EventsAre, NEW p \in Requests, Request(p), NEW c \in Ids, checkout[c].sub = "active",
         NEW k, k.of = c
  PROVE  Backed(k)'
  BY OthersStay DEF Backed

LEMMA CopyBacked ==
  ASSUME TypeOK, EventsAre, Locked, Truthful, Origin, Entitled, NEW p \in Requests, Request(p),
         work'[p].pc \in Storing
  PROVE  Backed(work[p].copy)'
<1> USE DEF Storing, Finalizing
<1>0. work'[p] # Resting
  BY DEF Resting
<1>1. ASSUME work'[p].copy = work[p].copy, work[p].pc \in Storing
      PROVE  Backed(work[p].copy)'
  <2>1. PICK k : k = work[p].copy
    OBVIOUS
  <2>2. Known(k) /\ Backed(k)
    BY <1>1, <2>1 DEF Truthful, Informed, Entitled
  <2>3. ASSUME NEW e \in events, e \notin events' PROVE FALSE
    <3>1. Ends(p)
      BY <1>1, <2>3, Removing
    <3> QED
      BY <1>0, <3>1, Ending
  <2>4. Backed(k)'
    BY <2>2, <2>3, BackedStays
  <2> QED
    BY <1>1, <2>1, <2>4 DEF Backed
<1>2. CASE work'[p] = work[p]
  BY <1>1, <1>2
<1>3. CASE work'[p].copy = work[p].copy /\ Follows(work[p].pc, work'[p].pc)
  BY <1>1, <1>3 DEF Follows
<1>4. CASE work'[p].copy = work[p].copy /\ work[p].pc = "save"
  BY <1>1, <1>4
<1>5. ASSUME NEW c \in Ids, checkout[c].sub = "active", work'[p].copy = Current(c)
      PROVE  Backed(work[p].copy)'
  <2>0. Current(c).of = c
    BY DEF Current
  <2>1. PICK k : k = Current(c) /\ k.of = c
    BY <2>0
  <2>2. Backed(k)'
    BY <1>5, <2>1, CurrentBacked
  <2> QED
    BY <1>5, <2>1, <2>2 DEF Backed
<1>6. ASSUME NEW e \in events, work'[p].copy = e, e.status = "active" => checkout[e.of].sub = "active"
      PROVE  Backed(work[p].copy)'
  <2>1. CASE e.status = "active"
    <3>1. Backed(e)'
      BY <1>6, <2>1, CurrentBacked DEF EventsAre
    <3> QED
      BY <1>6, <3>1 DEF Backed
  <2>2. CASE e.status # "active"
    BY <1>6, <2>2 DEF Backed
  <2> QED
    BY <2>1, <2>2
<1> QED
  <2>1. \A e \in events : e.of \in Ids
    BY DEF EventsAre
  <2> QED
    BY <1>0, <1>2, <1>3, <1>4, <1>5, <1>6, <2>1, Moves DEF Verified

(* Only an active subscription is stored by what finalizes.                  *)
LEMMA CopyActive ==
  ASSUME TypeOK, EventsAre, Locked, Truthful, Origin, Entitled, NEW p \in Requests, Request(p),
         NEW q \in Requests, work'[q].pc \in Storing, intent' = "open", IsNew(work[q].copy)'
  PROVE  work'[q].copy.status = "active"
<1> USE DEF Storing, Finalizing
<1>1. CASE q # p
  <2>1. work'[q] = work[q] /\ work[q].copy.of \in Ids
    BY <1>1, OthersStay DEF Locked
  <2>2. IsNew(work[q].copy)
    BY <2>1, OthersStay DEF IsNew
  <2>3. intent = "open"
    BY <2>2, RowSteps DEF Origin, IsNew
  <2> QED
    BY <2>1, <2>2, <2>3 DEF Entitled
<1>2. CASE q = p
  <2>0. intent = "open" /\ work'[p] # Resting
    <3>1. work'[p].pc # "list new" /\ work'[p].pc # "idle"
      BY <1>2
    <3>2. work'[p] # Resting
      <4>1. Resting.pc = "idle"
        BY DEF Resting
      <4> QED
        BY <3>1, <4>1
    <3>3. \/ intent' = intent
          \/ work'[p].pc = "list new"
          \/ intent' = "completed"
      BY RowSteps
    <3> QED
      BY <3>1, <3>2, <3>3
  <2>1. ASSUME work'[p].copy = work[p].copy, work[p].pc \in Storing
        PROVE  work'[p].copy.status = "active"
    <3>1. IsNew(work[p].copy)
      BY <1>2, <2>1, OthersStay DEF Locked, IsNew
    <3> QED
      BY <2>0, <2>1, <3>1 DEF Entitled
  <2>2. CASE work'[p] = work[p]
    BY <1>2, <2>1, <2>2
  <2>3. CASE work'[p].copy = work[p].copy /\ Follows(work[p].pc, work'[p].pc)
    BY <1>2, <2>1, <2>3 DEF Follows
  <2>4. CASE work'[p].copy = work[p].copy /\ work[p].pc = "save"
    <3>1. work[p].pc \in Storing
      BY <2>4
    <3> QED
      BY <1>2, <2>1, <2>4, <3>1
  <2>5. ASSUME NEW c \in Ids, checkout[c].sub = "active", work'[p].copy = Current(c)
        PROVE  work'[p].copy.status = "active"
    BY <2>5 DEF Current
  <2>6. ASSUME NEW e \in events, work'[p].copy = e, IsNew(e) => intent = "completed"
        PROVE  FALSE
    <3>1. IsNew(e)
      BY <1>2, <2>6, OthersStay DEF EventsAre, IsNew
    <3> QED
      BY <2>0, <2>6, <3>1
  <2>7. \A e \in events : e.of \in Ids
    BY DEF EventsAre
  <2> QED
    BY <1>2, <2>0, <2>2, <2>3, <2>4, <2>5, <2>6, <2>7, Moves DEF Verified
<1> QED
  BY <1>1, <1>2

(* What a finalization leaves for the completion of the intent.              *)
LEMMA SavedBacked ==
  ASSUME TypeOK, EventsAre, Locked, Truthful, Origin, Entitled, NEW p \in Requests, Request(p),
         work[p].pc = "save", work'[p].pc = "complete"
  PROVE  Backed(row)'
<1>1. /\ intent = "open" /\ IsNew(work[p].copy) /\ Stores(work[p].copy)
      /\ events' = events /\ checkout' = checkout
  BY Saving
<1>2. Backed(work[p].copy) /\ work[p].copy.status = "active" /\ Known(work[p].copy)
  BY <1>1 DEF Entitled, Storing, Truthful, Informed
<1>3. CASE row' = work[p].copy
  BY <1>1, <1>2, <1>3 DEF Backed
<1>4. CASE row' = row
  <2>1. Backed(row)
    <3>1. CASE ~IsNew(row)
      BY <3>1 DEF Entitled
    <3>2. CASE IsNew(row) /\ row.status = "active"
      <4>1. \A k : IsNew(k) /\ Known(k) /\ k.status = "active" => k.of \in Creates
        BY DEF Known, IsNew, Creates, Truthful, WellSold, NoCopy
      <4>2. row.of \in Creates /\ work[p].copy.of \in Creates
        BY <1>1, <1>2, <3>2, <4>1 DEF Truthful
      <4>3. row.of = work[p].copy.of
        BY <4>2 DEF Origin
      <4> QED
        BY <1>2, <4>3 DEF Backed
    <3>3. CASE row.status # "active"
      BY <3>3 DEF Backed
    <3> QED
      BY <3>1, <3>2, <3>3
  <2> QED
    BY <1>1, <1>4, <2>1 DEF Backed
<1> QED
  BY <1>1, <1>3, <1>4 DEF Stores

LEMMA RequestEntitled ==
  ASSUME TypeOK, EventsAre, Locked, Truthful, Origin, Entitled, NEW p \in Requests, Request(p)
  PROVE  Entitled'
<1>1. intent' # "open" \/ ~IsNew(row)' => Backed(row)'
  BY RowBacked
<1>2. ASSUME NEW q \in Requests, work'[q].pc \in Storing PROVE Backed(work[q].copy)'
  <2>1. CASE q = p
    BY <1>2, <2>1, CopyBacked DEF Backed
  <2>2. CASE q # p
    <3>1. PICK k : k = work[q].copy
      OBVIOUS
    <3>2. work'[q] = work[q]
      BY <2>2, OthersStay
    <3>3. Known(k) /\ Backed(k) /\ work[q].pc \in Storing
      BY <1>2, <3>1, <3>2 DEF Truthful, Informed, Entitled
    <3>4. Backed(k)'
      BY <2>2, <3>1, <3>3, OthersBacked
    <3> QED
      BY <3>1, <3>2, <3>4 DEF Backed
  <2> QED
    BY <2>1, <2>2
<1>3. ASSUME NEW q \in Requests, work'[q].pc = "complete" PROVE Backed(row)'
  <2>1. CASE q = p
    <3>1. work[p].pc # "complete"
      BY <1>3, <2>1, Completing, Ending DEF Resting
    <3>2. work[p].pc = "save"
      BY <1>3, <2>1, <3>1, Arriving DEF Arrives
    <3> QED
      BY <1>3, <2>1, <3>2, SavedBacked
  <2>2. CASE q # p
    <3>1. work[q].pc = "complete" /\ lock.billing = q
      BY <1>3, <2>2, OthersStay DEF Locked, UnderBilling, Storing, Finalizing
    <3>2. row' = row
      BY <2>2, <3>1, RowSteps DEF Locked, UnderBilling, Storing, Finalizing
    <3>3. PICK k : k = row
      OBVIOUS
    <3>4. Known(k) /\ Backed(k)
      BY <3>1, <3>3 DEF Truthful, Entitled
    <3>5. Backed(k)'
      BY <2>2, <3>1, <3>4, OthersBacked DEF Storing, Finalizing
    <3> QED
      BY <3>2, <3>3, <3>5 DEF Backed
  <2> QED
    BY <2>1, <2>2
<1>4. ASSUME NEW q \in Requests, work'[q].pc \in Storing, intent' = "open", IsNew(work[q].copy)'
      PROVE  work'[q].copy.status = "active"
  BY <1>4, CopyActive
<1> QED
  BY <1>1, <1>2, <1>3, <1>4 DEF Entitled

-----------------------------------------------------------------------------
(* One subscription at a time.                                               *)
LEMMA LiveSold ==
  ASSUME TypeOK, Truthful, NEW c \in Ids
  PROVE  /\ checkout[c].sub = "active" => checkout[c].status = "succeeded" /\ 0 < checkout[c].rev
         /\ Live(c) => checkout[c].status # "expired"
         /\ checkout[c].rev \in Nat /\ checkout[c].rev <= clock
  BY Checkouts DEF Truthful, WellSold, Live, CheckoutType

LEMMA ProviderOnce ==
  ASSUME TypeOK, Truthful, Once, NEW c \in Ids, Confirm(c) \/ Expire(c) \/ Succeed(c) \/ Cancel(c)
  PROVE  Once'
<1>1. /\ Ids' = Ids /\ work' = work /\ row' = row /\ org' = org /\ intent' = intent
      /\ \A d \in Ids : checkout'[d].purpose = checkout[d].purpose
      /\ \A d \in Ids : d # c => checkout'[d] = checkout[d]
  BY ProviderFrame
<1>2. Live(c)
  BY DEF Confirm, Expire, Succeed, Cancel, Live
<1>3. ASSUME NEW d \in Ids, Live(d)' PROVE Live(d)
  BY <1>1, <1>2, <1>3 DEF Live
<1>4. /\ \A x \in Sold' : \A d \in Ids \ {x} : checkout'[d].rev < checkout'[x].rev
      /\ \A x \in Sold' : StoredAsActive(x) \/ \E e \in events' : e.of = x /\ e.status = "active"
  <2>1. CASE Confirm(c) \/ Expire(c)
    <3>1. events' = events /\ \A d \in Ids : checkout'[d].sub = checkout[d].sub /\ checkout'[d].rev = checkout[d].rev
      BY <1>1, <2>1, Becoming
    <3>2. Sold' = Sold
      BY <1>1, <3>1 DEF Sold
    <3> QED
      BY <3>1, <3>2 DEF Once, Sold
  <2>2. ASSUME NEW x \in Sold', Succeed(c) \/ Cancel(c) PROVE x = c /\ Succeed(c)
    <3>1. x \in Ids /\ Live(x)' /\ checkout'[x].sub = "active"
      BY <1>1, <2>2 DEF Sold, Live
    <3>2. x = c
      BY <1>2, <1>3, <3>1 DEF Once
    <3>3. Cancel(c) => checkout'[c].sub = "ended"
      BY Reporting DEF Cancel
    <3> QED
      BY <2>2, <3>1, <3>2, <3>3
  <2>3. CASE Succeed(c)
    <3>1. PICK e : e = [of |-> c, status |-> "active", rev |-> clock + 1] /\ e \in events'
      BY <2>3, Reporting DEF Succeed
    <3>2. e.of = c /\ e.status = "active"
      BY <3>1
    <3>3. checkout'[c].rev = clock + 1 /\ clock \in Nat
      BY <2>3, Reporting DEF Succeed
    <3>4. ASSUME NEW d \in Ids \ {c} PROVE checkout'[d].rev < checkout'[c].rev
      BY <1>1, <3>3, LiveSold
    <3> QED
      BY <2>2, <2>3, <3>1, <3>2, <3>4
  <2>4. CASE Cancel(c)
    BY <2>2, <2>4, LiveSold DEF Succeed, Cancel
  <2> QED
    BY <2>1, <2>3, <2>4
<1>5. \A x : StoredAsActive(x)' = StoredAsActive(x)
  BY <1>1 DEF StoredAsActive
<1> QED
  BY <1>1, <1>3, <1>4, <1>5 DEF Once


(* What the steps of a request leave of it.                                  *)
LEMMA MidwayStays ==
  ASSUME NEW p \in Requests, Request(p), midway
  PROVE  midway'
<1>1. \A pc, purpose, next : List(p, pc, purpose, next) => midway' = midway
  BY DEF List
<1>2. \A pc, purpose : CreateCheckout(p, pc, purpose) => midway' = midway
  BY DEF CreateCheckout
<1>3. \A e \in events : SyncNew(p, e) \/ SyncUpgrade(p, e) => midway' = midway
  BY DEF SyncNew, SyncUpgrade, Drop
<1>4. \A c \in Ids : CompleteNew(p, c) \/ CompleteUpgrade(p, c) => midway' = midway
  BY DEF CompleteNew, CompleteUpgrade
<1> QED
  BY <1>1, <1>2, <1>3, <1>4
  DEF Request, Sell, ListNew, SellNew, ListUpgrades, SellUpgrade, Finalize, StartNew, StartUpgrade, Downgrade,
      AskDelete, Make, Link, Save, Complete, Demote, Delete, Fail

LEMMA NoneToSell ==
  ASSUME TypeOK, Truthful, Origin, NEW p \in Requests, work[p].pc = "sell new"
  PROVE  /\ org = "none" /\ intent \notin {"none", "completed"} /\ \A c \in Ids : ~Live(c)
<1>1. Creates = {} /\ intent # "none" /\ org = "none" /\ \A c \in Ids : checkout[c].purpose = "create"
  BY DEF Origin
<1> QED
  BY <1>1, LiveSold DEF Creates, Origin

LEMMA RequestLive ==
  ASSUME TypeOK, EventsAre, NEW p \in Requests, Request(p), NEW c \in Ids
  PROVE  Live(c)' = Live(c) /\ checkout'[c] = checkout[c] /\ c \in Ids'
  BY OthersStay DEF Live

LEMMA OneLives ==
  ASSUME TypeOK, EventsAre, Truthful, Origin, Once, NEW p \in Requests, Request(p)
  PROVE  /\ \A c, d \in Ids' : Live(c)' /\ Live(d)' => c = d
         /\ Sold' = Sold
         /\ \A c \in Sold' : \A d \in Ids' \ {c} : checkout'[d].rev < checkout'[c].rev
<1>1. CASE Ids' = Ids
  <2>1. \A c \in Ids : Live(c)' = Live(c) /\ checkout'[c] = checkout[c]
    BY RequestLive
  <2>2. Sold' = Sold
    BY <1>1, <2>1 DEF Sold
  <2>3. \A c \in Sold : c \in Ids
    BY DEF Sold
  <2>4. ASSUME NEW c \in Ids', NEW d \in Ids', Live(c)', Live(d)' PROVE c = d
    BY <1>1, <2>1, <2>4 DEF Once
  <2>5. ASSUME NEW c \in Sold', NEW d \in Ids' \ {c} PROVE checkout'[d].rev < checkout'[c].rev
    BY <1>1, <2>1, <2>2, <2>3, <2>5 DEF Once
  <2> QED
    BY <2>2, <2>4, <2>5
<1>2. CASE Ids' # Ids
  <2>1. PICK c \in Ids' \ Ids :
            /\ Ids' = Ids \cup {c}
            /\ checkout'[c].sub = "none" /\ checkout'[c].rev = 0
            /\ work[p].pc \in {"sell new", "sell upgrade"}
    BY <1>2, Growing
  <2>2. \A d \in Ids : ~Live(d)
    BY <2>1, NoneToSell DEF Once
  <2>3. Sold = {} /\ Sold' = {}
    BY <2>1, <2>2, RequestLive DEF Sold, Live
  <2> QED
    BY <2>1, <2>2, <2>3, RequestLive
<1> QED
  BY <1>1, <1>2

(* The row of the active subscription is the last: no older one replaces it. *)
LEMMA RowOfSold ==
  ASSUME TypeOK, Locked, Truthful, Once, NEW p \in Requests, Request(p), NEW c \in Sold, StoredAsActive(c)
  PROVE  row' = row
<1> SUFFICES ASSUME work[p].pc = "save", row' = work[p].copy, row.rev < row'.rev PROVE FALSE
  BY RowSteps
<1>1. PICK k : k = work[p].copy
  OBVIOUS
<1>2. Known(k) /\ Known(row) /\ k \in Copies /\ row.rev \in Nat
  BY <1>1 DEF Truthful, Informed, TypeOK, Copies
<1>3. c \in Ids /\ checkout[c].sub = "active" /\ row.of = c /\ row.status = "active"
  BY DEF Sold, StoredAsActive
<1>4. row.rev = checkout[c].rev
  BY <1>2, <1>3 DEF Known, NoCopy
<1>5. k # NoCopy /\ k.rev \in Nat
  BY <1>1, <1>2 DEF NoCopy, Copies
<1>6. k.of \in Ids /\ k.rev <= checkout[k.of].rev
  <2>1. k.of \in Ids /\ checkout[k.of].sub \in {"active", "ended"}
    BY <1>2, <1>5, Checkouts DEF Known, CheckoutType
  <2>2. checkout[k.of].rev \in Nat
    BY <2>1, LiveSold
  <2> QED
    BY <1>2, <1>5, <2>1, <2>2 DEF Known
<1>7. CASE k.of # c
  <2>1. checkout[k.of].rev < checkout[c].rev
    BY <1>3, <1>6, <1>7 DEF Once
  <2>2. checkout[k.of].rev \in Nat /\ checkout[c].rev \in Nat
    BY <1>3, <1>6, LiveSold
  <2> QED
    BY <1>1, <1>2, <1>4, <1>5, <1>6, <2>1, <2>2
<1>8. CASE k.of = c
  <2>1. k.rev = checkout[c].rev
    BY <1>2, <1>3, <1>5, <1>8 DEF Known
  <2> QED
    BY <1>1, <1>2, <1>4, <2>1
<1> QED
  BY <1>7, <1>8

(* Its report is not lost before it is stored.                               *)
LEMMA SoldIsKnown ==
  ASSUME TypeOK, EventsAre, Locked, Truthful, Origin, Once, NEW p \in Requests, Request(p), NEW c \in Sold
  PROVE  StoredAsActive(c)' \/ \E e \in events' : e.of = c /\ e.status = "active"
<1>0. c \in Ids /\ checkout[c].sub = "active" /\ Verified(c) /\ 0 < checkout[c].rev /\ checkout[c].rev \in Nat
  BY LiveSold DEF Sold, Verified
<1>1. CASE StoredAsActive(c)
  BY <1>1, RowOfSold DEF StoredAsActive
<1>2. ASSUME ~StoredAsActive(c), NEW e \in events, e.of = c, e.status = "active", e \notin events'
      PROVE  StoredAsActive(c)'
  <2>1. /\ work[p].pc \in {"save", "complete"} /\ e = work[p].event
        /\ work[p].pc = "save" => Stores(work[p].copy)
    BY <1>0, <1>2, Removing
  <2>2. PICK k : k = work[p].copy
    OBVIOUS
  <2>3. e # NoCopy
    BY <1>2 DEF NoCopy
  <2>4. Known(k) /\ k.of = c
    BY <1>2, <2>1, <2>2, <2>3 DEF Truthful, Informed
  <2>5. work[p].pc = "save"
    BY <1>2, <2>1, <2>2, <2>4 DEF Once
  <2>6. k # NoCopy
    BY <1>0, <2>4, BillingAssumption, Checkouts DEF NoCopy, Ids
  <2>7. k.status = "active" /\ k.rev = checkout[c].rev
    BY <1>0, <2>4, <2>6 DEF Known
  <2>8. CASE row' = k
    BY <2>4, <2>7, <2>8 DEF StoredAsActive
  <2>9. CASE ~(row.rev < k.rev)
    <3>1. row # NoCopy /\ row.rev \in Nat /\ Known(row)
      BY <1>0, <2>7, <2>9 DEF NoCopy, TypeOK, Copies, Truthful
    <3>2. row.of \in Ids /\ checkout[row.of].sub \in {"active", "ended"} /\ checkout[row.of].rev \in Nat
      BY <3>1, Checkouts DEF Known, CheckoutType
    <3>3. row.rev <= checkout[row.of].rev
      BY <3>1, <3>2 DEF Known
    <3>4. row.of = c
      <4>1. row.of # c => checkout[row.of].rev < checkout[c].rev
        BY <3>2 DEF Once
      <4> QED
        BY <1>0, <2>7, <2>9, <3>1, <3>2, <3>3, <4>1
    <3>5. row.status = "active"
      BY <1>0, <3>1, <3>4 DEF Known
    <3> QED
      BY <1>2, <3>4, <3>5 DEF StoredAsActive
  <2> QED
    BY <2>1, <2>2, <2>5, <2>8, <2>9 DEF Stores
<1> QED
  BY <1>1, <1>2 DEF Once

(* While the intent is open, a finalization that does not break off goes on.  *)
LEMMA Carrying ==
  ASSUME TypeOK, Locked, Once, NEW p \in Requests, Request(p), intent = "open", intent' = "open", ~midway',
         work[p].pc \in {"link", "save", "complete"}
  PROVE  /\ work[p].pc = "link" => work'[p].pc = "save"
         /\ work[p].pc = "save" => work'[p].pc = "complete"
         /\ work[p].pc # "complete"
<1>1. ~Fail(p)
  BY DEF Fail
<1>2. ~Complete(p)
  BY DEF Complete
<1>3. CASE Link(p)
  <2>1. work[p].pc = "link" /\ Steps(p, "save")
    BY <1>3 DEF Link
  <2> QED
    BY <2>1, Stepping, InPlaces
<1>4. CASE Save(p)
  <2>1. work[p].pc = "save" /\ work[p].copy.of \in Ids
    BY <1>4 DEF Save, Locked, Storing
  <2>2. checkout[work[p].copy.of].purpose = "create"
    BY <2>1 DEF Once
  <2>3. Steps(p, "complete")
    BY <1>4, <2>2 DEF Save
  <2> QED
    BY <2>1, <2>3, Stepping, InPlaces
<1> QED
  BY <1>1, <1>2, <1>3, <1>4, Finishing

(* While the intent is open, nothing but creations.                          *)
OpenOnly ==
    /\ \A c \in Ids : checkout[c].purpose = "create"
    /\ \A p \in Requests : work[p].pc \notin {"list upgrades", "sell upgrade"}
    /\ org = "none" \/ \E p \in Requests : work[p].pc \in {"link", "save", "complete"}
    /\ row = NoCopy \/ \E p \in Requests : work[p].pc = "complete"
LEMMA OpenFromNone ==
  ASSUME TypeOK, EventsAre, Locked, Truthful, Origin, NEW p \in Requests, Request(p),
         intent # "open", intent' = "open"
  PROVE  OpenOnly'
<1>1. intent = "none" /\ org = "none" /\ work'[p].pc = "list new"
  BY RowSteps
<1>2. row = NoCopy /\ work[p].pc \notin {"save", "demote", "delete"} /\ \A q \in Requests : work[q].pc \notin {"list upgrades", "sell upgrade"}
  BY <1>1 DEF Origin
<1>3. row' = row
  BY <1>2, RowSteps
<1>4. org' = "none"
  <2>1. ~Make(p)
    BY <1>1 DEF Make
  <2> QED
    BY <1>1, <1>2, <2>1, RowSteps
<1>5. Ids' = Ids
  BY <1>1, Growing DEF local
<1>6. \A c \in Ids : checkout'[c].purpose = "create"
  BY <1>1, OthersStay DEF Origin
<1>7. \A q \in Requests : work'[q].pc \notin {"list upgrades", "sell upgrade"}
  BY <1>1, <1>2, OthersStay
<1> QED
  BY <1>1, <1>2, <1>3, <1>4, <1>5, <1>6, <1>7 DEF OpenOnly

LEMMA OpenStays ==
  ASSUME TypeOK, EventsAre, Locked, Truthful, Origin, Once, NEW p \in Requests, Request(p),
         intent = "open", intent' = "open", ~midway'
  PROVE  OpenOnly'
<1>0. OpenOnly
  BY DEF Once, OpenOnly
<1>1. \A c \in Ids' : checkout'[c].purpose = "create"
  <2>1. \A c \in Ids : checkout'[c].purpose = "create"
    BY <1>0, OthersStay DEF OpenOnly
  <2>2. work[p].pc # "sell upgrade"
    BY <1>0 DEF OpenOnly
  <2> QED
    BY <2>1, <2>2, Growing
<1>2. ASSUME NEW q \in Requests PROVE work'[q].pc \notin {"list upgrades", "sell upgrade"}
  <2>1. CASE work'[q].pc = work[q].pc
    BY <1>0, <2>1 DEF OpenOnly
  <2>2. CASE work'[q].pc # work[q].pc
    <3>1. q = p /\ Arrives(p)
      BY <2>2, OthersStay, Arriving
    <3>2. lock.billing = "nobody" => org = "none"
      BY <1>0, BillingAssumption DEF OpenOnly, Locked, UnderBilling, Storing, Finalizing
    <3> QED
      BY <1>0, <3>1, <3>2 DEF OpenOnly, Arrives, Exists
  <2> QED
    BY <2>1, <2>2
<1>3. org' = "none" \/ \E q \in Requests : work'[q].pc \in {"link", "save", "complete"}
  <2>1. CASE org = "none"
    <3>1. work[p].pc \notin {"save", "demote", "delete"}
      BY <2>1 DEF Origin
    <3>2. CASE Make(p)
      <4>1. Steps(p, "link")
        BY <3>2 DEF Make
      <4>2. work'[p].pc = "link"
        BY <4>1, Stepping, InPlaces
      <4> QED
        BY <4>2
    <3> QED
      BY <2>1, <3>1, <3>2, RowSteps
  <2>2. CASE org # "none"
    <3>1. PICK q \in Requests : work[q].pc \in {"link", "save", "complete"}
      BY <1>0, <2>2 DEF OpenOnly
    <3>2. CASE q = p
      BY <3>1, <3>2, Carrying
    <3>3. CASE q # p
      BY <3>1, <3>3, OthersStay
    <3> QED
      BY <3>2, <3>3
  <2> QED
    BY <2>1, <2>2
<1>4. row' = NoCopy \/ \E q \in Requests : work'[q].pc = "complete"
  <2>1. CASE work[p].pc = "save"
    BY <2>1, Carrying
  <2>2. CASE work[p].pc # "save"
    <3>1. row' = row
      BY <2>2, RowSteps
    <3>2. ASSUME NEW q \in Requests, work[q].pc = "complete" PROVE work'[q].pc = "complete"
      <4>1. q # p
        BY <3>2, Carrying
      <4> QED
        BY <3>2, <4>1, OthersStay
    <3> QED
      BY <1>0, <3>1, <3>2 DEF OpenOnly
  <2> QED
    BY <2>1, <2>2
<1> QED
  BY <1>1, <1>2, <1>3, <1>4 DEF OpenOnly

(* Once the intent is complete, its checkout is the stored one.              *)
LEMMA CompletedStored ==
  ASSUME TypeOK, EventsAre, Locked, Truthful, Origin, Once, NEW p \in Requests, Request(p),
         intent' = "completed", NEW c \in Ids', checkout'[c].purpose = "create", Live(c)'
  PROVE  StoredAsActive(c)'
<1>1. CASE intent = "completed"
  <2>1. c \in Ids
    <3>1. work[p].pc # "sell new"
      BY <1>1, NoneToSell
    <3> QED
      BY <3>1, Growing
  <2>2. checkout[c].purpose = "create" /\ Live(c)
    BY <2>1, RequestLive
  <2>3. StoredAsActive(c)
    BY <1>1, <2>1, <2>2 DEF Once
  <2>4. checkout[c].sub # "none"
    BY <2>3 DEF StoredAsActive, Truthful, Known, NoCopy
  <2>5. c \in Sold
    BY <2>1, <2>2, <2>4 DEF Live, Sold, Truthful, WellSold
  <2> QED
    BY <2>3, <2>5, RowOfSold DEF StoredAsActive
<1>2. CASE intent # "completed"
  <2>1. work[p].pc = "complete" /\ row' = row /\ Ids' = Ids
    <3>1. work[p].pc = "complete"
      BY <1>2, RowSteps
    <3>2. row' = row
      BY <3>1, RowSteps
    <3>3. Ids' = Ids
      BY <1>2, Growing DEF local
    <3> QED
      BY <3>1, <3>2, <3>3
  <2>2. PICK k : k = work[p].copy
    OBVIOUS
  <2>3. IsNew(k) /\ Known(k) /\ k # NoCopy
    <3>1. IsNew(k)
      BY <2>1, <2>2 DEF Locked, Finalizing
    <3> QED
      BY <2>2, <3>1, Checkouts DEF Truthful, Informed, IsNew, NoCopy, Ids
  <2>4. k.of \in Creates
    BY <2>3 DEF IsNew, Known, Creates, Truthful, WellSold
  <2>5. c \in Creates
    BY <2>1, RequestLive, LiveSold DEF Creates
  <2>6. StoredAsActive(k.of)
    BY <2>1, <2>2 DEF Once
  <2> QED
    BY <2>1, <2>4, <2>5, <2>6 DEF Origin, StoredAsActive
<1> QED
  BY <1>1, <1>2

(* What completes the intent has just stored its subscription.               *)
LEMMA CompleteStored ==
  ASSUME TypeOK, EventsAre, Locked, Truthful, Origin, Entitled, Once, NEW p \in Requests, Request(p),
         NEW q \in Requests, work'[q].pc = "complete"
  PROVE  StoredAsActive(work[q].copy.of)'
<1>1. CASE q # p
  <2>1. work'[q] = work[q] /\ work[q].pc = "complete" /\ lock.billing = q
    BY <1>1, OthersStay DEF Locked, UnderBilling, Storing, Finalizing
  <2>2. row' = row
    BY <1>1, <2>1, RowSteps DEF Locked, UnderBilling, Storing, Finalizing
  <2>3. StoredAsActive(work[q].copy.of)
    BY <2>1 DEF Once
  <2> QED
    BY <2>1, <2>2, <2>3 DEF StoredAsActive
<1>2. CASE q = p
  <2>1. work[p].pc = "save"
    <3>1. work[p].pc # "complete"
      BY <1>2, Completing, Ending DEF Resting
    <3> QED
      BY <1>2, <3>1, Arriving DEF Arrives
  <2>2. /\ work'[p].copy = work[p].copy /\ intent = "open" /\ IsNew(work[p].copy) /\ Stores(work[p].copy)
    BY <1>2, <2>1, Saving
  <2>3. PICK k : k = work[p].copy
    OBVIOUS
  <2>4. k.status = "active" /\ Known(k) /\ k \in Copies
    BY <2>1, <2>2, <2>3 DEF Entitled, Storing, Truthful, Informed, TypeOK
  <2>5. row = NoCopy
    <3>1. \A r \in Requests : work[r].pc = "complete" => lock.billing = r
      BY DEF Locked, UnderBilling, Storing, Finalizing
    <3>2. lock.billing = p
      BY <2>1 DEF Locked, UnderBilling, Storing
    <3> QED
      BY <2>1, <2>2, <3>1, <3>2 DEF Once
  <2>6. row.rev < k.rev
    BY <2>4, <2>5 DEF Known, NoCopy
  <2> QED
    BY <1>2, <2>2, <2>3, <2>4, <2>6 DEF Stores, StoredAsActive
<1> QED
  BY <1>1, <1>2

(* A new checkout is no creation beside an upgrade under way.                *)
LEMMA NoCreation ==
  ASSUME TypeOK, EventsAre, Locked, Truthful, Origin, NEW p \in Requests, Request(p),
         NEW q \in Requests, work[q].pc \in {"list upgrades", "sell upgrade"}
  PROVE  /\ \A c \in Ids' \ Ids : checkout'[c].purpose = "upgrade" /\ work[p].pc = "sell upgrade" /\ Ends(p)
         /\ q # p => Ids' = Ids \/ work[q].pc = "list upgrades"
<1>1. work[p].pc # "sell new"
  BY NoneToSell DEF Origin
<1>2. work[q].pc = "sell upgrade" /\ work[p].pc = "sell upgrade" => q = p
  BY DEF Locked, UnderBilling
<1>3. ASSUME NEW c \in Ids' \ Ids
      PROVE  checkout'[c].purpose = "upgrade" /\ work[p].pc = "sell upgrade" /\ Ends(p)
  BY <1>1, Growing
<1>4. Ids' = Ids \/ work[p].pc = "sell upgrade"
  BY <1>1, Growing
<1> QED
  BY <1>2, <1>3, <1>4

LEMMA UpgradeAlone ==
  ASSUME TypeOK, EventsAre, Locked, Truthful, Origin, Once, NEW p \in Requests, Request(p),
         NEW q \in Requests
  PROVE  /\ work'[q].pc = "list upgrades" =>
                \A c \in Ids' : checkout'[c].purpose = "create" => ~Live(c)'
         /\ work'[q].pc = "sell upgrade" => \A c \in Ids' : ~Live(c)'
<1>0. Ends(p) => work'[p].pc = "idle"
  BY Ending DEF Resting
<1>1. CASE work'[q].pc = work[q].pc
  <2>1. ASSUME work[q].pc = "list upgrades", NEW c \in Ids', checkout'[c].purpose = "create" PROVE ~Live(c)'
    <3>1. c \in Ids
      BY <2>1, NoCreation
    <3>2. checkout[c].purpose = "create" /\ Live(c)' = Live(c)
      BY <2>1, <3>1, RequestLive
    <3>3. ~Live(c)
      BY <2>1, <3>1, <3>2 DEF Once
    <3> QED
      BY <3>2, <3>3
  <2>2. ASSUME work[q].pc = "sell upgrade", NEW c \in Ids' PROVE ~Live(c)'
    <3>1. c \in Ids
      <4>1. CASE q # p
        BY <2>2, <4>1, NoCreation
      <4>2. CASE q = p
        BY <1>0, <1>1, <2>2, <4>2, NoCreation
      <4> QED
        BY <4>1, <4>2
    <3> QED
      BY <2>2, <3>1, RequestLive DEF Once
  <2> QED
    BY <1>1, <2>1, <2>2
<1>2. CASE work'[q].pc # work[q].pc
  <2>1. q = p /\ Arrives(p)
    BY <1>2, OthersStay, Arriving
  <2>2. work'[p].pc # "idle" => Ids' = Ids
    BY <1>0, Growing
  <2>3. ASSUME work'[p].pc = "list upgrades", NEW c \in Ids', checkout'[c].purpose = "create", Live(c)'
        PROVE  FALSE
    <3>1. c \in Ids /\ checkout[c].purpose = "create" /\ Live(c)
      BY <2>2, <2>3, RequestLive
    <3>2. Exists /\ row.status # "active" /\ lock.billing = "nobody"
      BY <2>1, <2>3 DEF Arrives
    <3>3. intent # "none"
      BY <3>1 DEF Origin
    <3>4. intent # "completed"
      BY <3>1, <3>2 DEF Once, StoredAsActive
    <3>5. intent # "open"
      <4>1. \A r \in Requests : work[r].pc \notin {"link", "save", "complete"}
        BY <3>2, BillingAssumption DEF Locked, UnderBilling, Storing, Finalizing
      <4> QED
        BY <3>2, <4>1 DEF Once, Exists
    <3> QED
      BY <3>3, <3>4, <3>5 DEF TypeOK
  <2>4. ASSUME work'[p].pc = "sell upgrade", NEW c \in Ids', Live(c)'
        PROVE  FALSE
    <3>1. c \in Ids /\ Live(c)
      BY <2>2, <2>4, RequestLive
    <3>2. work[p].pc = "list upgrades" /\ ~Reusable(c, "upgrade")
      BY <2>1, <2>4, <3>1 DEF Arrives
    <3>3. checkout[c].purpose = "upgrade"
      BY <3>1, <3>2, Checkouts DEF Once, CheckoutType
    <3> QED
      BY <3>1, <3>2, <3>3, LiveSold DEF Live, Reusable
  <2> QED
    BY <2>1, <2>3, <2>4
<1> QED
  BY <1>1, <1>2

LEMMA RequestOnce ==
  ASSUME TypeOK, TypeOK', EventsAre, Locked, Truthful, Origin, Entitled, Once, NEW p \in Requests, Request(p), ~midway'
  PROVE  Once'
<1>1. \A c \in Sold' : StoredAsActive(c)' \/ \E e \in events' : e.of = c /\ e.status = "active"
  BY OneLives, SoldIsKnown
<1>2. intent' = "open" => OpenOnly'
  BY OpenFromNone, OpenStays
<1>3. intent' = "completed" => \A c \in Ids' : checkout'[c].purpose = "create" /\ Live(c)' => StoredAsActive(c)'
  BY CompletedStored
<1>4. \A q \in Requests : work'[q].pc = "complete" => StoredAsActive(work[q].copy.of)'
  BY CompleteStored
<1> QED
  BY <1>1, <1>2, <1>3, <1>4, OneLives, UpgradeAlone DEF Once, OpenOnly

-----------------------------------------------------------------------------
(* The inductive invariant.                                                  *)
LEMMA InitIInv == Init => IInv
<1> SUFFICES ASSUME Init PROVE IInv
  OBVIOUS
<1>1. TypeOK /\ Ids = {} /\ midway = FALSE /\ org \in {"none", "hobby"} /\ intent = "none" /\ ~linked
      /\ row = NoCopy /\ events = {} /\ row.status = "none" /\ ~IsNew(row)
  BY InitType DEF Init, Ids, NoCopy, IsNew
<1>2. \A p \in Requests : work[p].pc = "idle" /\ work[p].copy = NoCopy /\ work[p].event = NoCopy /\ NoCopy.status = "none"
  BY DEF Init, Resting, NoCopy
<1>3. Locked
  BY <1>2 DEF Locked, Storing, Finalizing, UnderCreation, UnderBilling
<1>4. Truthful
  BY <1>1, <1>2 DEF Truthful, Informed, Known
<1>5. Origin
  BY <1>1, <1>2 DEF Origin, Creates
<1>6. Unsold /\ PlanFollows /\ Entitled
  BY <1>1, <1>2 DEF Unsold, PlanFollows, Entitled, Backed, Storing, Finalizing
<1>7. Once
  BY <1>1, <1>2 DEF Once, Sold
<1> QED
  BY <1>1, <1>3, <1>4, <1>5, <1>6, <1>7 DEF IInv

LEMMA KnownEvents == TypeOK /\ Truthful => EventsAre
  BY DEF Truthful, Known, EventsAre

LEMMA AskedIInv == IInv /\ AskForCustomer => IInv'
<1> SUFFICES ASSUME IInv, AskForCustomer PROVE IInv'
  OBVIOUS
<1>1. TypeOK'
  BY OtherType DEF IInv
<1>2. UNCHANGED <<org, intent, row, provider, lock, work, midway>> /\ linked' = TRUE /\ HasCustomer
  BY DEF AskForCustomer
<1>3. UNCHANGED <<checkout, clock, events>> /\ Ids' = Ids /\ Sold' = Sold /\ Creates' = Creates
  BY <1>2 DEF provider, Ids, Sold, Creates
<1>4. Locked' /\ Truthful'
  BY <1>2, <1>3 DEF IInv, Locked, IsNew, Truthful, WellSold, Informed, Known
<1>5. Origin' /\ Unsold' /\ PlanFollows'
  BY <1>2, <1>3 DEF IInv, Origin, Unsold, PlanFollows, HasCustomer, Exists
<1>6. Entitled'
  BY <1>2, <1>3 DEF IInv, Entitled, Backed, IsNew
<1>7. Once => Once'
  BY <1>2, <1>3 DEF Once, Live, StoredAsActive
<1> QED
  BY <1>1, <1>2, <1>4, <1>5, <1>6, <1>7 DEF IInv

LEMMA StutterIInv == IInv /\ UNCHANGED vars => IInv'
<1> SUFFICES ASSUME IInv, UNCHANGED vars PROVE IInv'
  OBVIOUS
<1>1. TypeOK'
  BY OtherType DEF IInv
<1>2. UNCHANGED <<org, linked, intent, row, checkout, clock, events, lock, work, midway>>
  BY DEF vars, local, provider
<1>3. Ids' = Ids /\ Sold' = Sold /\ Creates' = Creates
  BY <1>2 DEF Ids, Sold, Creates
<1>4. Locked' /\ Truthful'
  BY <1>2, <1>3 DEF IInv, Locked, IsNew, Truthful, WellSold, Informed, Known
<1>5. Origin' /\ Unsold' /\ PlanFollows'
  BY <1>2, <1>3 DEF IInv, Origin, Unsold, PlanFollows
<1>6. Entitled'
  BY <1>2, <1>3 DEF IInv, Entitled, Backed, IsNew
<1>7. Once => Once'
  BY <1>2, <1>3 DEF Once, Live, StoredAsActive
<1> QED
  BY <1>1, <1>2, <1>4, <1>5, <1>6, <1>7 DEF IInv

LEMMA ProviderIInv == IInv /\ Provider => IInv'
<1> SUFFICES ASSUME IInv, NEW c \in Ids, Confirm(c) \/ Expire(c) \/ Succeed(c) \/ Cancel(c) PROVE IInv'
  BY DEF Provider
<1>1. TypeOK'
  BY ProviderType DEF IInv, Provider
<1>2. Locked' /\ Truthful' /\ Origin' /\ Unsold' /\ PlanFollows'
  BY ProviderLocked, ProviderTruthful, ProviderOrigin, ProviderUnsold DEF IInv
<1>3. Entitled'
  BY ProviderEntitled DEF IInv
<1>4. midway' = midway /\ (Once => Once')
  BY ProviderFrame, ProviderOnce DEF IInv
<1> QED
  BY <1>1, <1>2, <1>3, <1>4 DEF IInv

LEMMA RequestIInv == ASSUME IInv, NEW p \in Requests, Request(p) PROVE IInv'
<1>0. TypeOK /\ Locked /\ Truthful /\ Origin /\ Unsold /\ PlanFollows /\ Entitled /\ (midway \/ Once) /\ EventsAre
  BY KnownEvents DEF IInv
<1>1. TypeOK'
  BY <1>0, RequestType DEF EventsAre
<1>2. Locked' /\ Truthful' /\ Origin' /\ Unsold' /\ PlanFollows'
  BY <1>0, <1>1, RequestLocked, RequestTruthful, RequestOrigin, RequestUnsold
<1>3. Entitled'
  BY <1>0, RequestEntitled
<1>4. midway' \/ Once'
  BY <1>0, <1>1, MidwayStays, RequestOnce
<1> QED
  BY <1>1, <1>2, <1>3, <1>4 DEF IInv

LEMMA Inductive == Spec => []IInv
<1>1. Init => IInv
  BY InitIInv
<1>2. IInv /\ [Next]_vars => IInv'
  <2> SUFFICES ASSUME IInv, [Next]_vars PROVE IInv'
    OBVIOUS
  <2>1. AskForCustomer \/ Provider \/ (\E p \in Requests : Request(p)) \/ UNCHANGED vars
    BY DEF Next, Provider, Request
  <2> QED
    BY <2>1, AskedIInv, ProviderIInv, RequestIInv, StutterIInv
<1> QED
  BY <1>1, <1>2, PTL DEF Spec

-----------------------------------------------------------------------------
(* Every reachable state of the billing of an organization is well-typed, and *)
(* who holds one of its two locks is at work.                                *)
THEOREM BillingTypeCorrect == Spec => []TypeOK
<1>1. IInv => TypeOK
  BY DEF IInv
<1> QED
  BY <1>1, Inductive, PTL

(* No second subscription is sold beside an active one, with any number of    *)
(* requests, webhooks and checkouts, unless a finalization broke off.        *)
THEOREM OnceSold == Spec => []SoldOnce
<1>1. IInv => SoldOnce
  <2> SUFFICES ASSUME IInv, ~midway PROVE NeverSoldTwice
    BY DEF SoldOnce
  <2>1. \A c, d \in Sold : c = d
    BY DEF IInv, Once, Sold, Live
  <2>2. CASE Sold = {}
    BY <2>2, FS_EmptySet DEF NeverSoldTwice
  <2>3. CASE Sold # {}
    <3>1. PICK c \in Sold : TRUE
      BY <2>3
    <3>2. Sold = {c}
      BY <2>1, <3>1
    <3>3. Cardinality(Sold) = 1
      BY <3>2, FS_Singleton
    <3> QED
      BY <3>3 DEF NeverSoldTwice
  <2> QED
    BY <2>2, <2>3
<1> QED
  BY <1>1, Inductive, PTL

(* An organization keeps the paid plan only while its subscription is active, *)
(* the report of its end is to come, or its creation is not complete.        *)
THEOREM PaidForEntitlement == Spec => []EntitlementPaid
<1>1. IInv => EntitlementPaid
  BY DEF IInv, Entitled, Backed, EntitlementPaid
<1> QED
  BY <1>1, Inductive, PTL

(* Once every report is acknowledged and nobody is at work, who pays is on    *)
(* the paid plan.                                                            *)
THEOREM EntitledOncePaid == Spec => []PaidEntitled
<1>1. IInv => PaidEntitled
  <2> SUFFICES ASSUME IInv, Quiet, ~midway, NEW c \in Sold PROVE org = "pro" /\ row.status = "active"
    BY DEF PaidEntitled
  <2>1. StoredAsActive(c)
    BY DEF IInv, Once, Quiet
  <2> QED
    BY <2>1 DEF IInv, PlanFollows, StoredAsActive
<1> QED
  BY <1>1, Inductive, PTL

(* An organization with a subscription that is being paid is not deleted,     *)
(* however its deletion interleaves with checkouts and webhooks.             *)
THEOREM NeverDeletedPaid == Spec => []PaidNotDeleted
<1>1. IInv => PaidNotDeleted
  BY DEF IInv, Unsold, PaidNotDeleted, Sold
<1> QED
  BY <1>1, Inductive, PTL

===============================================================================
