------------------------------ MODULE RefundBook ------------------------------
(***************************************************************************)
(* What POST /v1/refunds promises: each request is answered as if it ran   *)
(* alone, at one instant, against the book of refunds.  A key books at     *)
(* most one refund, a repeated request is answered with that refund, and   *)
(* the refunds booked on a payment fit into its amount.                    *)
(***************************************************************************)
EXTENDS Integers, FiniteSets

CONSTANTS Clients,        \* requests; a refund is named after the one that booked it
          Request,        \* Request[c]: [key, payment, amount]
          PaymentAmount,  \* the amounts of the payments that exist
          PaidPayments    \* those that are SUCCEEDED

VARIABLES book,           \* the booked refunds that exist
          reserved,       \* those that still count against their payment
          answer          \* answer[c]: [code, refund]

bookVars == <<book, reserved, answer>>

NoAnswer == [code |-> "none", refund |-> {}]
Answered(c, code, refund) == answer' = [answer EXCEPT ![c] = [code |-> code, refund |-> refund]]

KeyOf(c) == Request[c].key
SameRequest(b, c) ==
  Request[b].payment = Request[c].payment /\ Request[b].amount = Request[c].amount

\* The single units of money of some refunds: their number is the sum.
Units(refunds) == UNION {{b} \X (1..Request[b].amount) : b \in refunds}

ReservedOn(p) == Cardinality(Units({b \in reserved : Request[b].payment = p}))

Fits(c) ==
  LET p == Request[c].payment
  IN  Request[c].amount <= PaymentAmount[p] - ReservedOn(p)

KeyIsFree(c) == \A b \in book : KeyOf(b) # KeyOf(c)

BookInit ==
  /\ book = {} /\ reserved = {}
  /\ answer = [c \in Clients |-> NoAnswer]

\* The refund is booked; whether the client learns of it is another matter.
Book(c) ==
  /\ answer[c] = NoAnswer /\ KeyIsFree(c)
  /\ Request[c].payment \in PaidPayments /\ Fits(c)
  /\ book' = book \cup {c} /\ reserved' = reserved \cup {c}
  /\ Answered(c, "created", {c}) \/ Answered(c, "error", {})

\* The key was used before, for the same request or for another one.
Known(c) ==
  /\ answer[c] = NoAnswer
  /\ \E b \in book :
       /\ KeyOf(b) = KeyOf(c)
       /\ IF SameRequest(b, c) THEN Answered(c, "replayed", {b})
                               ELSE Answered(c, "conflict", {})
  /\ UNCHANGED <<book, reserved>>

Refuse(c) ==
  /\ answer[c] = NoAnswer /\ KeyIsFree(c)
  /\ \/ /\ Request[c].payment \notin DOMAIN PaymentAmount
        /\ Answered(c, "payment_not_found", {})
     \/ /\ Request[c].payment \in DOMAIN PaymentAmount \ PaidPayments
        /\ Answered(c, "invalid_payment_state", {})
     \/ /\ Request[c].payment \in PaidPayments /\ ~Fits(c)
        /\ Answered(c, "amount_exceeded", {})
  /\ UNCHANGED <<book, reserved>>

\* The request fails without a trace.
Fail(c) ==
  /\ answer[c] = NoAnswer
  /\ Answered(c, "error", {})
  /\ UNCHANGED <<book, reserved>>

\* A refund fails for good and gives its amount back.
Release(b) ==
  /\ b \in reserved
  /\ reserved' = reserved \ {b}
  /\ UNCHANGED <<book, answer>>

BookNext ==
  \/ \E c \in Clients : Book(c) \/ Known(c) \/ Refuse(c) \/ Fail(c)
  \/ \E b \in Clients : Release(b)

BookSpec == BookInit /\ [][BookNext]_bookVars

================================================================================
