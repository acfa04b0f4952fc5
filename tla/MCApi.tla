----------------------------------- MODULE MCApi -----------------------------------
(***************************************************************************)
(* Calls for Api: two payments with one key, one of them tried on two      *)
(* connections at once, and a cancellation, also on two connections.       *)
(***************************************************************************)
EXTENDS Api, TLC

Call(op, key, target, body, flaw, refusal) ==
  [op |-> op, key |-> key, target |-> target, body |-> body, flaw |-> flaw, refusal |-> refusal]

AllCalls ==
  [pay |-> Call("createPayment", {"k"}, "none", "x", "none", "none"),
   clash |-> Call("createPayment", {"k"}, "none", "y", "none", "none"),
   cancel |-> Call("cancelPayment", {}, "payment", "x", "none", "none")]

MCOpOf == [c \in Calls |-> AllCalls[c].op]
MCKeyOf == [c \in Calls |-> AllCalls[c].key]
MCTargetOf == [c \in Calls |-> AllCalls[c].target]
MCBodyOf == [c \in Calls |-> AllCalls[c].body]
MCFlawOf == [c \in Calls |-> AllCalls[c].flaw]
MCRefusalOf == [c \in Calls |-> AllCalls[c].refusal]
MCData == [none |-> "none", payment |-> "PENDING"]
MCTargets == DOMAIN MCData

\* One slot per call, but two for the first payment and for the cancellation.
MCCallOf ==
  [a \in Slots |-> CASE a = "again" -> "pay" [] a = "cancelAgain" -> "cancel" [] OTHER -> a]

================================================================================
