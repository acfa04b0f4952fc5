------------------------------- MODULE MCPayments -------------------------------
(***************************************************************************)
(* Three creators share a key, one of them with another amount; one comes  *)
(* without a key and one is the seed command.  One payment is cancelled by *)
(* two requests at once, the seeded one by a third.                        *)
(***************************************************************************)
EXTENDS Payments

MCCreators == {"first", "again", "changed", "plain", "seed"}
MCCancellers == {"x", "y", "z"}
MCKeys == {"k"}
MCKeyOf == [c \in MCCreators |-> IF c \in {"plain", "seed"} THEN {} ELSE {"k"}]
MCHashOf == [c \in MCCreators |-> IF c = "changed" THEN "other" ELSE "same"]
MCStatusOf == [c \in MCCreators |-> IF c = "seed" THEN "SUCCEEDED" ELSE "PENDING"]
MCTargetOf == [x \in MCCancellers |-> IF x = "z" THEN "seed" ELSE "plain"]

\* Only what two concurrent cancellations need.
TwoCreators == {"plain"}
TwoCancellers == {"x", "y"}
TwoKeyOf == [c \in TwoCreators |-> {}]
TwoHashOf == [c \in TwoCreators |-> "same"]
TwoStatusOf == [c \in TwoCreators |-> "PENDING"]
TwoTargetOf == [x \in TwoCancellers |-> "plain"]

================================================================================
