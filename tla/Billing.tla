------------------------------- MODULE Billing -------------------------------
(***************************************************************************)
(* The paid plan of one organization, between its rows in PostgreSQL and   *)
(* the checkouts and subscriptions of the payment provider, Polar:         *)
(* packages/cloud/src/billing.                                             *)
(*                                                                         *)
(* The organization either exists on the free plan and is upgraded, or is  *)
(* created by its first paid checkout.  Requests and webhooks work under    *)
(* two advisory locks they do not wait for: who finds one taken gives up,   *)
(* and Polar sends its event again.                                        *)
(***************************************************************************)
EXTENDS Integers, Sequences, FiniteSets

CONSTANTS
    Requests,           \* requests and webhooks that can be under way at once
    MaxCheckouts        \* bound: checkouts that are created

ASSUME BillingAssumption ==
    /\ MaxCheckouts \in Nat
    /\ "nobody" \notin Requests

VARIABLES
    org,        \* the organization: none, hobby, pro (organization_billing.plan) or gone
    linked,     \* whether polarCustomerId is set
    intent,     \* pro_organization_checkout: none, open or completed
    row,        \* org_subscription
    checkout,   \* Polar's checkouts in the order of their creation, with their subscriptions
    clock,      \* Polar's time
    events,     \* what Polar has still to report
    lock,       \* who holds the creation lock and the billing lock
    work,       \* where each request is
    midway      \* history: a finalization ended between its writes

local == <<org, linked, intent, row>>
provider == <<checkout, clock, events>>
vars == <<local, provider, lock, work, midway>>

NoCopy == [of |-> 0, status |-> "none", rev |-> 0]
Resting == [pc |-> "idle", copy |-> NoCopy, event |-> NoCopy]
Unlocked == [creation |-> "nobody", billing |-> "nobody"]

Init ==
    /\ org \in {"none", "hobby"}
    /\ linked = FALSE /\ intent = "none" /\ row = NoCopy
    /\ checkout = <<>> /\ clock = 0 /\ events = {}
    /\ lock = Unlocked
    /\ work = [p \in Requests |-> Resting]
    /\ midway = FALSE

-----------------------------------------------------------------------------
(* Polar.  A checkout is open until it expires or its payment goes through    *)
(* confirmation; the payment starts a subscription, which ends for good.     *)

Ids == 1 .. Len(checkout)
Current(c) == [of |-> c, status |-> checkout[c].sub, rev |-> checkout[c].rev]
Sold == {c \in Ids : checkout[c].sub = "active"}

Becomes(c, status) ==
    /\ checkout' = [checkout EXCEPT ![c].status = status]
    /\ UNCHANGED <<local, clock, events, lock, work, midway>>
Confirm(c) == checkout[c].status = "open" /\ Becomes(c, "confirmed")
Expire(c) == checkout[c].status = "open" /\ Becomes(c, "expired")

Report(c, status, sub) ==
    /\ clock' = clock + 1
    /\ checkout' = [checkout EXCEPT ![c] =
            [purpose |-> checkout[c].purpose, status |-> status, sub |-> sub, rev |-> clock + 1]]
    /\ events' = events \cup {[of |-> c, status |-> sub, rev |-> clock + 1]}
    /\ UNCHANGED <<local, lock, work, midway>>
Succeed(c) == checkout[c].status = "confirmed" /\ Report(c, "succeeded", "active")
Cancel(c) == checkout[c].sub = "active" /\ Report(c, "succeeded", "ended")

-----------------------------------------------------------------------------
(* The locks: pg_try_advisory_lock, released when the request ends.          *)

Takes(p, keys) ==
    /\ work[p].pc = "idle"
    /\ \A k \in keys : lock[k] = "nobody"
    /\ lock' = [k \in DOMAIN lock |-> IF k \in keys THEN p ELSE lock[k]]
ReleasesNothing(p) == UNCHANGED lock
Releases(p) == lock' = [k \in DOMAIN lock |-> IF lock[k] = p THEN "nobody" ELSE lock[k]]
Goes(p, pc, copy, event) ==
    work' = [work EXCEPT ![p] = [pc |-> pc, copy |-> copy, event |-> event]]
Steps(p, pc) == Goes(p, pc, work[p].copy, work[p].event)
Ends(p) == Releases(p) /\ work' = [work EXCEPT ![p] = Resting]

Exists == org \in {"hobby", "pro"}

(* customerForOrganization: a Pro organization's customer is found by its id  *)
(* and linked, by whatever asks for it: a refused delete, the portal, a       *)
(* change of members, and the settings, which do so without a lock.          *)
HasCustomer == Exists /\ (linked \/ org = "pro")
AskForCustomer ==
    /\ HasCustomer
    /\ linked' = TRUE
    /\ UNCHANGED <<org, intent, row, provider, lock, work, midway>>

-----------------------------------------------------------------------------
(* Starting a checkout.                                                      *)

(* startNew: the intent reserves the organization's id, the team its customer. *)
StartNew(p) ==
    /\ intent = "open" \/ (intent = "none" /\ org = "none")
    /\ Takes(p, {"creation"})
    /\ intent' = "open"
    /\ Steps(p, "list new")
    /\ UNCHANGED <<org, linked, row, provider, midway>>

(* startUpgrade, up to prepareCheckout.                                      *)
StartUpgrade(p) ==
    /\ Exists /\ row.status # "active"
    /\ Takes(p, {"billing"})
    /\ linked' = TRUE
    /\ Steps(p, "list upgrades")
    /\ UNCHANGED <<org, intent, row, provider, midway>>

(* A session that is paid for, being paid or open is used again; a succeeded  *)
(* upgrade only while its subscription is active.                            *)
ReusableOpen(c, purpose) == checkout[c].purpose = purpose /\ checkout[c].status = "open"
Reusable(c, purpose) ==
    /\ checkout[c].purpose = purpose
    /\ \/ checkout[c].status \in {"open", "confirmed"}
       \/ checkout[c].status = "succeeded" /\ (purpose = "create" \/ checkout[c].sub = "active")
List(p, pc, purpose, next) ==
    /\ work[p].pc = pc
    /\ IF \E c \in Ids : Reusable(c, purpose) THEN Ends(p) ELSE Steps(p, next) /\ UNCHANGED lock
    /\ UNCHANGED <<local, provider, midway>>
CreateCheckout(p, pc, purpose) ==
    /\ work[p].pc = pc /\ Len(checkout) < MaxCheckouts
    /\ checkout' = Append(checkout, [purpose |-> purpose, status |-> "open", sub |-> "none", rev |-> 0])
    /\ Ends(p)
    /\ UNCHANGED <<local, clock, events, midway>>
ListNew(p) == List(p, "list new", "create", "sell new")
SellNew(p) == CreateCheckout(p, "sell new", "create")
ListUpgrades(p) == List(p, "list upgrades", "upgrade", "sell upgrade")
SellUpgrade(p) == CreateCheckout(p, "sell upgrade", "upgrade")

-----------------------------------------------------------------------------
(* Completing one: the redirect of the browser, or the webhook.              *)

(* verifyPayment: the subscription of a succeeded checkout, if it is active. *)
Verified(c) == checkout[c].status = "succeeded" /\ checkout[c].sub = "active"

CompleteNew(p, c) ==
    /\ checkout[c].purpose = "create" /\ Verified(c)
    /\ Takes(p, {"creation", "billing"})
    /\ Goes(p, "make", Current(c), NoCopy)
    /\ UNCHANGED <<local, provider, midway>>
CompleteUpgrade(p, c) ==
    /\ checkout[c].purpose = "upgrade" /\ Verified(c) /\ HasCustomer
    /\ Takes(p, {"billing"})
    /\ Goes(p, "save", Current(c), NoCopy)
    /\ linked' = TRUE
    /\ UNCHANGED <<org, intent, row, provider, midway>>

(* syncSubscription.  A report that the subscription is active counts while   *)
(* it still is; what is stored is the report.  Before the intent is complete  *)
(* only an active subscription matters, and it finalizes the organization.    *)
OutdatedWhenEnded(e) == ~Verified(e.of)
Outdated(e) == e.status = "active" /\ ~Verified(e.of)
Drop(p, e) ==
    /\ events' \in {events, events \ {e}}
    /\ UNCHANGED <<local, checkout, clock, lock, work, midway>>
SyncNew(p, e) ==
    /\ checkout[e.of].purpose = "create"
    /\ work[p].pc = "idle" /\ lock.creation = "nobody"
    /\ IF Outdated(e) \/ (intent = "open" /\ checkout[e.of].sub # "active") THEN Drop(p, e)
       ELSE /\ Takes(p, {"creation", "billing"})
            /\ IF intent = "completed" THEN Goes(p, "save", e, e)
               ELSE Goes(p, "make", Current(e.of), e)
            /\ UNCHANGED <<local, provider, midway>>
SyncUpgrade(p, e) ==
    /\ checkout[e.of].purpose = "upgrade" /\ HasCustomer
    /\ work[p].pc = "idle" /\ lock.billing = "nobody"
    /\ IF Outdated(e) THEN Drop(p, e)
       ELSE /\ Takes(p, {"billing"})
            /\ Goes(p, "save", e, e)
            /\ linked' = TRUE
            /\ UNCHANGED <<org, intent, row, provider, midway>>

(* finalizeUnlocked: ensureOrganization, linkCustomer, saveSubscription and   *)
(* the completion of the intent.                                             *)
Make(p) ==
    /\ work[p].pc = "make"
    /\ org' = IF org = "none" THEN "pro" ELSE org
    /\ Steps(p, "link")
    /\ UNCHANGED <<linked, intent, row, provider, lock, midway>>
Link(p) ==
    /\ work[p].pc = "link"
    /\ linked' = TRUE
    /\ Steps(p, "save")
    /\ UNCHANGED <<org, intent, row, provider, lock, midway>>

(* saveSubscription: one transaction, which an older revision leaves alone.   *)
(* A webhook is answered after it, and the answer may be lost.               *)
StoresAlways(copy) ==
    /\ row' = copy
    /\ org' = IF copy.status = "active" THEN "pro" ELSE org
Stores(copy) ==
    IF row.rev < copy.rev
    THEN row' = copy /\ org' = IF copy.status = "active" THEN "pro" ELSE org
    ELSE UNCHANGED <<row, org>>
Save(p) ==
    /\ work[p].pc = "save" /\ Exists
    /\ Stores(work[p].copy)
    /\ IF checkout[work[p].copy.of].purpose = "create" /\ intent = "open"
       THEN Steps(p, "complete") /\ UNCHANGED <<events, lock>>
       ELSE Ends(p) /\ events' \in {events, events \ {work[p].event}}
    /\ UNCHANGED <<linked, intent, checkout, clock, midway>>
Complete(p) ==
    /\ work[p].pc = "complete"
    /\ intent' = "completed"
    /\ Ends(p)
    /\ events' \in {events, events \ {work[p].event}}
    /\ UNCHANGED <<org, linked, row, checkout, clock, midway>>

-----------------------------------------------------------------------------
(* Leaving the paid plan, and the organization.                              *)

(* downgrade: of a suspended organization, its eligibility read again under   *)
(* the lock.  What it revokes has ended already.                             *)
Suspended == org = "pro" /\ row.status # "active"
Downgrade(p) ==
    /\ Suspended
    /\ Takes(p, {"billing"})
    /\ Steps(p, "demote")
    /\ linked' = TRUE
    /\ UNCHANGED <<org, intent, row, provider, midway>>
Demote(p) ==
    /\ work[p].pc = "demote"
    /\ org' = "hobby"
    /\ Ends(p)
    /\ UNCHANGED <<linked, intent, row, provider, midway>>

(* assertDeletable, whose lock the identity request keeps until the delete.   *)
AskDeleteUnscoped(p) ==
    /\ Exists /\ ~HasCustomer
    /\ work[p].pc = "idle" /\ lock.billing = "nobody"
    /\ Steps(p, "delete")
    /\ UNCHANGED <<local, provider, lock, midway>>
AskDelete(p) ==
    /\ Exists /\ ~HasCustomer
    /\ Takes(p, {"billing"})
    /\ Steps(p, "delete")
    /\ UNCHANGED <<local, provider, midway>>
Delete(p) ==
    /\ work[p].pc = "delete"
    /\ org' = "gone"
    /\ Ends(p)
    /\ UNCHANGED <<linked, intent, row, provider, midway>>

(* A call to Polar or the database fails, or the process dies.               *)
Fail(p) ==
    /\ work[p].pc # "idle"
    /\ Ends(p)
    /\ midway' = (midway \/ (work[p].pc \in {"link", "save", "complete"} /\ intent = "open"))
    /\ UNCHANGED <<local, provider>>

Finalize(p) == Make(p) \/ Link(p) \/ Save(p) \/ Complete(p)
Sell(p) == ListNew(p) \/ SellNew(p) \/ ListUpgrades(p) \/ SellUpgrade(p)
Next ==
    \/ AskForCustomer
    \/ \E c \in Ids : Confirm(c) \/ Expire(c) \/ Succeed(c) \/ Cancel(c)
    \/ \E p \in Requests :
        \/ StartNew(p) \/ StartUpgrade(p) \/ Sell(p) \/ Finalize(p)
        \/ Downgrade(p) \/ Demote(p) \/ AskDelete(p) \/ Delete(p) \/ Fail(p)
        \/ \E c \in Ids : CompleteNew(p, c) \/ CompleteUpgrade(p, c)
        \/ \E e \in events : SyncNew(p, e) \/ SyncUpgrade(p, e)
Spec == Init /\ [][Next]_vars

-----------------------------------------------------------------------------
Places == {"idle", "list new", "sell new", "list upgrades", "sell upgrade", "make", "link",
           "save", "complete", "demote", "delete"}
Copies == [of : 0 .. MaxCheckouts, status : {"none", "active", "ended"}, rev : Nat]

(* Every variable keeps its range, and who holds a lock is at work.          *)
TypeOK ==
    /\ org \in {"none", "hobby", "pro", "gone"}
    /\ linked \in BOOLEAN /\ midway \in BOOLEAN
    /\ intent \in {"none", "open", "completed"}
    /\ row \in Copies
    /\ checkout \in Seq([purpose : {"create", "upgrade"},
                         status : {"open", "confirmed", "succeeded", "expired"},
                         sub : {"none", "active", "ended"}, rev : Nat])
    /\ Len(checkout) <= MaxCheckouts
    /\ clock \in Nat
    /\ events \subseteq Copies
    /\ lock \in [{"creation", "billing"} -> Requests \cup {"nobody"}]
    /\ work \in [Requests -> [pc : Places, copy : Copies, event : Copies]]
    /\ \A k \in DOMAIN lock : lock[k] # "nobody" => work[lock[k]].pc # "idle"

(* "Never sell a second active subscription while the first payment is still  *)
(* being finalized" (checkout.ts).                                           *)
NeverSoldTwice == Cardinality(Sold) <= 1

(* No second subscription is sold beside an active one, whatever the order of *)
(* redirects, webhooks and payments; save where a finalization broke off      *)
(* between creating the organization and storing its subscription.           *)
SoldOnce == NeverSoldTwice \/ midway

(* An organization does not keep the paid plan its subscription no longer     *)
(* pays for, unless the report of that is still to come, or its creation is   *)
(* not complete.                                                             *)
EntitlementPaid ==
    row.status = "active" =>
        \/ checkout[row.of].sub = "active"
        \/ \E e \in events : e.of = row.of /\ e.status = "ended"
        \/ intent = "open"

(* When nothing is left to do or to report, who pays is on the paid plan:     *)
(* reports in the wrong order or twice, a refused lock and a downgrade in     *)
(* between do not lose the payment.                                          *)
Quiet == events = {} /\ \A p \in Requests : work[p].pc = "idle"
PaidEntitled == Quiet /\ ~midway /\ Sold # {} => org = "pro" /\ row.status = "active"

(* An organization with a subscription that is being paid is not deleted.     *)
PaidNotDeleted == Sold # {} => org # "gone"
===============================================================================
