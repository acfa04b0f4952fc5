--------------------------- MODULE SubscriptionSwitch ---------------------------
(***************************************************************************)
(* What the subscription endpoints promise: each request that succeeds     *)
(* takes effect at one moment between its start and its answer, as if it   *)
(* were alone, and a PATCH is answered with the value at a moment after    *)
(* its own.  A request that fails took effect at one moment, or never.     *)
(* There are no transactions, locks or statements here.                    *)
(***************************************************************************)
CONSTANTS Creators,   \* POST /v1/webhooks/subscriptions requests
          Patchers,   \* PATCH /v1/webhooks/subscriptions/{id} requests
          Subs,
          SubOf,      \* SubOf[r]: the subscription r creates or switches
          WantedOf    \* WantedOf[r]: the value r asks for

VARIABLES value,      \* value[s]: "on", "off", or "none" before it exists
          phase,      \* phase[r]: "open", "taken" once in effect, "answered"
          told        \* told[r]: the answer

Init ==
  /\ value = [s \in Subs |-> "none"]
  /\ phase = [r \in Creators \cup Patchers |-> "open"]
  /\ told = [r \in Creators \cup Patchers |-> "none"]

TakeEffect(r) ==
  /\ phase[r] = "open"
  /\ value[SubOf[r]] = "none" <=> r \in Creators
  /\ value' = [value EXCEPT ![SubOf[r]] = WantedOf[r]]
  /\ phase' = [phase EXCEPT ![r] = "taken"]
  /\ UNCHANGED told

Answer(r, what) ==
  /\ phase' = [phase EXCEPT ![r] = "answered"]
  /\ told' = [told EXCEPT ![r] = what]
  /\ UNCHANGED value

Succeed(r) ==
  /\ phase[r] = "taken"
  /\ Answer(r, IF r \in Creators THEN WantedOf[r] ELSE value[SubOf[r]])

NotFound(r) ==
  /\ r \in Patchers /\ phase[r] = "open" /\ value[SubOf[r]] = "none"
  /\ Answer(r, "missing")

Fail(r) == phase[r] # "answered" /\ Answer(r, "error")

Next == \E r \in Creators \cup Patchers :
          TakeEffect(r) \/ Succeed(r) \/ NotFound(r) \/ Fail(r)

Spec == Init /\ [][Next]_<<value, phase, told>>

================================================================================
