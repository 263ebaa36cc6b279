------------------------ MODULE MCPaymentLifecycle -------------------------
(* Small instances of PaymentLifecycle for TLC. *)
EXTENDS PaymentLifecycle, TLC
=============================================================================
