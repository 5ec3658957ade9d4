--------------------------- MODULE MCAlertDelivery ---------------------------
(* Every transition has room in the outbox: MaxEvents is never reached.     *)
EXTENDS AlertDelivery
=============================================================================
