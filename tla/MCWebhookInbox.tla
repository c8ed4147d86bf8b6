--------------------------- MODULE MCWebhookInbox --------------------------
(***************************************************************************)
(* Instances of WebhookInbox for TLC.                                      *)
(***************************************************************************)
EXTENDS WebhookInbox, TLC

CONSTANTS s1, i1, i2

mcEvent(n, s, to) == [id |-> n, shipment |-> s, to |-> to]

\* One status of a shipment sent under two event ids.
mcTwice == {mcEvent(1, s1, "picked_up"), mcEvent(2, s1, "picked_up")}
=============================================================================
