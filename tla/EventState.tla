------------------------------- MODULE EventState -------------------------------
(***************************************************************************)
(* The in-memory state that events are applied to                          *)
(* (internal/state/store.go).  A state has the payments by id, with status *)
(* and key, the index of idempotency keys, and the subscriptions by id.    *)
(* Amounts, urls and timestamps are left out.  Applying an event gives the *)
(* set of the one state it leads to, or {} if Apply returns an error.      *)
(***************************************************************************)
EXTENDS Naturals

CONSTANTS Ids, Keys, Events, EventOf  \* EventOf[e]: the contents of event e

None == "none"

EventTypes == {"PaymentCreated", "PaymentCancelled", "WebhookSubscriptionCreated",
               "WebhookSubscriptionActivated", "WebhookSubscriptionDeactivated"}

\* The key and status of a payment, and active of a subscription, are those of
\* the payload; a type outside EventTypes is one a newer program wrote.
Contents == [type : EventTypes \cup {"other"}, id : Ids, key : Keys \cup {None},
             status : {"PENDING", "SUCCEEDED"}, active : BOOLEAN]

ASSUME EventAssumption == EventOf \in [Events -> Contents] /\ None \notin Keys \cup Ids

NewStore == [payment |-> [i \in Ids |-> None], key |-> [i \in Ids |-> None],
             index |-> [k \in Keys |-> None], active |-> [i \in Ids |-> None]]

Put(st, e) ==
  [st EXCEPT !.payment[e.id] = e.status,
             !.key[e.id] = e.key,
             !.index = [k \in Keys |-> IF k = e.key THEN e.id ELSE @[k]]]

ApplyPaymentCreated(st, e) == IF st.payment[e.id] # None THEN {} ELSE {Put(st, e)}

\* Any payment that exists is cancelled, whatever its status.
ApplyPaymentCancelled(st, e) ==
  IF st.payment[e.id] = None THEN {}
  ELSE {[st EXCEPT !.payment[e.id] = "CANCELLED"]}

ApplyWebhookSubscriptionCreated(st, e) ==
  IF st.active[e.id] # None THEN {}
  ELSE {[st EXCEPT !.active[e.id] = IF e.active THEN "on" ELSE "off"]}

\* Activated and Deactivated.
ApplyWebhookSubscriptionSwitched(st, e, value) ==
  IF st.active[e.id] = None THEN {} ELSE {[st EXCEPT !.active[e.id] = value]}

Apply(st, e) ==
  CASE e.type = "PaymentCreated" -> ApplyPaymentCreated(st, e)
    [] e.type = "PaymentCancelled" -> ApplyPaymentCancelled(st, e)
    [] e.type = "WebhookSubscriptionCreated" -> ApplyWebhookSubscriptionCreated(st, e)
    [] e.type = "WebhookSubscriptionActivated" ->
         ApplyWebhookSubscriptionSwitched(st, e, "on")
    [] e.type = "WebhookSubscriptionDeactivated" ->
         ApplyWebhookSubscriptionSwitched(st, e, "off")
    [] OTHER -> {}

================================================================================
