--------------------------- MODULE MCWebhookInbox ---------------------------
(***************************************************************************)
(* Instances of WebhookInbox for TLC: Meta delivers the message m2 twice,  *)
(* in an event with m1 and in one of its own.                              *)
(***************************************************************************)
EXTENDS WebhookInbox

CONSTANTS e1, e2, m1, m2

Redelivered == [e \in {e1, e2} |-> IF e = e1 THEN <<m1, m2>> ELSE <<m2>>]

Single == [e \in {e1} |-> <<m1>>]
=============================================================================
