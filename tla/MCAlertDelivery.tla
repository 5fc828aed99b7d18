---------------------------- MODULE MCAlertDelivery ----------------------------
(* Small instances of AlertDelivery for TLC: what silences may cover. *)
EXTENDS AlertDelivery

NoScopes == {}
Everything == {Instances \X Kinds}
=============================================================================
