---------------------------- MODULE MCRefundCreation ----------------------------
(***************************************************************************)
(* Six requests: the same refund twice with one key, that key with another *)
(* amount, a second refund with a key of its own, and refunds of a payment *)
(* that is not paid and of one that does not exist.  The payment has room  *)
(* for one of the refunds only.                                            *)
(***************************************************************************)
EXTENDS RefundCreation

MCClients == {"first", "again", "changed", "other", "unpaid", "absent"}
MCKeys == {"k1", "k2", "k3"}
MCPayments == {"pay", "pending", "nowhere"}
MCPaidPayments == {"pay"}
MCPaymentAmount == [p \in {"pay", "pending"} |-> 3]

MCRequest == [c \in MCClients |->
  [key |-> CASE c = "other" -> "k2" [] c \in {"unpaid", "absent"} -> "k3" [] OTHER -> "k1",
   payment |-> CASE c = "unpaid" -> "pending" [] c = "absent" -> "nowhere" [] OTHER -> "pay",
   amount |-> IF c = "changed" THEN 1 ELSE 2]]

================================================================================
