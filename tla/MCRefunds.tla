------------------------------- MODULE MCRefunds -------------------------------
(***************************************************************************)
(* Small instances of Refunds for TLC: one payment, whose amount is what   *)
(* the configuration says, and refunds of amount 1.                        *)
(***************************************************************************)
EXTENDS Refunds, TLC

CONSTANT Total          \* the amount of the payment

MCPayments == {"pay"}
MCPaymentOf == [r \in Refunds |-> "pay"]
MCAmount == [r \in Refunds |-> 1]
MCPaymentAmount == [p \in MCPayments |-> Total]

\* A provider that settles nothing on its own: it only serves submissions.
UnresolvedSpec ==
  Init /\ [][Next /\ \A r \in Refunds : Resolve(r) => UNCHANGED record]_vars

WorkerSymmetry == Permutations(Workers)

================================================================================
