--------------------------- MODULE MCWebhookDelivery ---------------------------
(***************************************************************************)
(* Instances of WebhookDelivery for TLC.                                   *)
(***************************************************************************)
EXTENDS WebhookDelivery, TLC

CONSTANTS w1, w2

TwoWorkers == {w1, w2}
OneEvent   == {1}

Symmetry == Permutations(TwoWorkers)
===============================================================================
