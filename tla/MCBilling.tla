------------------------------- MODULE MCBilling -------------------------------
(* Billing on requests that are alike.                                       *)
EXTENDS Billing, TLC

Alike == Permutations(Requests)
===============================================================================
