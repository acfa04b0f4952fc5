------------------------------ MODULE MCEventLog ------------------------------
(***************************************************************************)
(* Two payments with one key, a second payment event for an id that is     *)
(* taken, a cancellation, a subscription switched off and on, an event     *)
(* with a line that is too long and one of a type the program rejects.     *)
(***************************************************************************)
EXTENDS EventLog

Event(type, id, key, status, active) ==
  [type |-> type, id |-> id, key |-> key, status |-> status, active |-> active]

MCIds == {"a", "b"}
MCKeys == {"k", "m"}
MCEventOf ==
  [pay |-> Event("PaymentCreated", "a", "k", "PENDING", FALSE),
   repay |-> Event("PaymentCreated", "a", "m", "SUCCEEDED", FALSE),
   other |-> Event("PaymentCreated", "b", "k", "PENDING", FALSE),
   cancel |-> Event("PaymentCancelled", "a", None, "PENDING", FALSE),
   subscribe |-> Event("WebhookSubscriptionCreated", "a", None, "PENDING", TRUE),
   off |-> Event("WebhookSubscriptionDeactivated", "a", None, "PENDING", FALSE),
   on |-> Event("WebhookSubscriptionActivated", "a", None, "PENDING", FALSE),
   long |-> Event("PaymentCreated", "b", None, "SUCCEEDED", FALSE),
   new |-> Event("other", "a", None, "PENDING", FALSE)]
MCEvents == DOMAIN MCEventOf

================================================================================
