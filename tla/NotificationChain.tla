--------------------------- MODULE NotificationChain ---------------------------
(***************************************************************************)
(* What the delivery pipeline promises for the chain of each notifying     *)
(* event, without its jobs, locks, groups, flushes and silences: an event  *)
(* waits to be processed, joins a notification, may be held back and wait  *)
(* again, and ends or is cancelled for good.  A cancel takes every waiting *)
(* event at once, and only events that joined are ever announced.          *)
(* AlertDelivery implements this specification (process-event.ts,          *)
(* flush-group.ts and lifecycle.server.ts decide it together).             *)
(***************************************************************************)
EXTENDS Integers

CONSTANT MaxEvents

Events == 1..MaxEvents
Stages == {"unborn", "waiting", "joined", "ended", "cancelled"}

VARIABLES
    stage,      \* the stage of each event's chain
    announced   \* events some notification announced

chainVars == <<stage, announced>>

Init ==
    /\ stage = [e \in Events |-> "unborn"]
    /\ announced = {}

Move(e, from, to) ==
    /\ stage[e] = from
    /\ stage' = [stage EXCEPT ![e] = to]
    /\ UNCHANGED announced

Arrive(e) == Move(e, "unborn", "waiting")
Join(e) == Move(e, "waiting", "joined")
Hold(e) == Move(e, "joined", "waiting")
End(e) == Move(e, "waiting", "ended") \/ Move(e, "joined", "ended")

Cancel ==
    /\ stage' = [e \in Events |-> IF stage[e] = "waiting" THEN "cancelled" ELSE stage[e]]
    /\ UNCHANGED announced

Announce(S) ==
    /\ \A e \in S : stage[e] = "joined"
    /\ announced' = announced \cup S
    /\ UNCHANGED stage

Next ==
    \/ \E e \in Events : Arrive(e) \/ Join(e) \/ Hold(e) \/ End(e)
    \/ Cancel
    \/ \E S \in SUBSET Events : Announce(S)

Spec == Init /\ [][Next]_chainVars
=============================================================================
