------------------------------ MODULE MCWebhook -----------------------------
(* Two workers race for two items, each of which may be requeued once      *)
(* while a worker still holds it.  A batch is one item, so that item 2     *)
(* waits behind item 1.                                                    *)
EXTENDS Webhook
=============================================================================
