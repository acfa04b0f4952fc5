--------------------------- MODULE RefundCreationProofs ---------------------------
(***************************************************************************)
(* CreateRefund for any number of concurrent requests, keys and payments,  *)
(* and any failures: the refunds of a payment fit into its amount, the     *)
(* unique constraint is never met, and the statements of the transaction   *)
(* implement the one-step promise of RefundBook.                           *)
(***************************************************************************)
EXTENDS RefundCreation, FiniteSetTheorems, TLAPS

PaymentOf(c) == Request[c].payment

\* From the advisory lock to the end of the transaction the key is the request's.
KeyHeld ==
  \A c \in Clients : pc[c] \notin {"begin", "done"} => keyLock[KeyOf(c)] = {c}

\* From FOR UPDATE to the end of the transaction the payment is the request's.
PaymentHeld ==
  \A c \in Clients :
    pc[c] \in {"sum", "insert", "commit"} =>
      PaymentOf(c) \in PaidPayments /\ payLock[PaymentOf(c)] = {c}

\* What a request has found out is still true, though others commit meanwhile.
Checked ==
  /\ \A c \in Clients : pc[c] \in {"payment", "sum", "insert", "commit"} => KeyIsFree(c)
  /\ \A c \in Clients : pc[c] \in {"insert", "commit"} => Fits(c)
  /\ \A c \in Clients : pc[c] # "done" => answer[c] = NoAnswer
  /\ inserted = {c \in Clients : pc[c] = "commit"}

IInv ==
  /\ TypeOK /\ IsFiniteSet(Units(reserved))
  /\ KeyHeld /\ PaymentHeld /\ Checked /\ WithinPayment

--------------------------------------------------------------------------------
\* Sums as numbers of units

LEMMA RequestFacts ==
  ASSUME NEW c \in Clients
  PROVE  /\ KeyOf(c) \in Keys /\ PaymentOf(c) \in Payments
         /\ Request[c].amount \in Nat \ {0}
  BY CreationAssumption DEF KeyOf, PaymentOf

\* The units of the refunds of one payment are finitely many, and the fewer the
\* fewer refunds count.
LEMMA SumFacts ==
  ASSUME NEW R, NEW S, S \subseteq R, IsFiniteSet(Units(R))
  PROVE  /\ IsFiniteSet(Units(S))
         /\ Cardinality(Units(S)) \in Nat
         /\ Cardinality(Units(S)) <= Cardinality(Units(R))
<1>1. Units(S) \in SUBSET Units(R)
  BY DEF Units
<1> QED
  BY <1>1, FS_Subset, FS_CardinalityType

\* One more refund adds its amount at most.
LEMMA SumOfOneMore ==
  ASSUME NEW S, NEW c \in Clients, IsFiniteSet(Units(S))
  PROVE  /\ IsFiniteSet(Units(S \cup {c}))
         /\ Cardinality(Units(S \cup {c})) <= Cardinality(Units(S)) + Request[c].amount
<1> DEFINE n == Request[c].amount
           new == {c} \X (1..n)
<1>1. n \in Nat \ {0}
  BY RequestFacts
<1>2. Units(S \cup {c}) = Units(S) \cup new
  BY DEF Units
<1>3. IsFiniteSet(1..n) /\ Cardinality(1..n) = n
  <2>1. 1 \in Int /\ n \in Int /\ ~(1 > n) /\ n - 1 + 1 = n
    BY <1>1
  <2> HIDE DEF n
  <2>2. IsFiniteSet(1..n) /\ Cardinality(1..n) = IF 1 > n THEN 0 ELSE n - 1 + 1
    BY <2>1, FS_Interval
  <2> QED
    BY <2>1, <2>2
<1>4. IsFiniteSet({c}) /\ Cardinality({c}) = 1
  BY FS_Singleton
<1>5. IsFiniteSet(new) /\ Cardinality(new) = n
  <2>1. IsFiniteSet(new) /\ Cardinality(new) = Cardinality({c}) * Cardinality(1..n)
    BY <1>3, <1>4, FS_Product
  <2>2. 1 * n = n
    BY <1>1
  <2> QED
    BY <1>3, <1>4, <2>1, <2>2
<1>6. IsFiniteSet(Units(S) \cap new)
  <2>1. Units(S) \cap new \in SUBSET new
    OBVIOUS
  <2> QED
    BY <1>5, <2>1, FS_Subset
<1>7. /\ IsFiniteSet(Units(S) \cup new)
      /\ Cardinality(Units(S) \cup new) =
           Cardinality(Units(S)) + Cardinality(new) - Cardinality(Units(S) \cap new)
  BY <1>5, FS_Union
<1>8. Cardinality(Units(S)) \in Nat /\ Cardinality(Units(S) \cap new) \in Nat
  BY <1>6, FS_CardinalityType
<1> HIDE DEF n, new
<1>9. Cardinality(Units(S) \cup new) <= Cardinality(Units(S)) + n
  BY <1>1, <1>5, <1>7, <1>8
<1> QED
  BY <1>2, <1>7, <1>9 DEF n

On(p) == {b \in reserved : Request[b].payment = p}

LEMMA OnFacts ==
  ASSUME IsFiniteSet(Units(reserved)), NEW p
  PROVE  /\ IsFiniteSet(Units(On(p)))
         /\ ReservedOn(p) = Cardinality(Units(On(p)))
         /\ ReservedOn(p) \in Nat
<1>1. On(p) \subseteq reserved
  BY DEF On
<1> QED
  BY <1>1, SumFacts DEF ReservedOn, On

--------------------------------------------------------------------------------
\* The inductive invariant

LEMMA InitHolds == Init => IInv
<1> SUFFICES ASSUME Init PROVE IInv
  OBVIOUS
<1>1. Units({}) = {}
  BY DEF Units
<1>2. IsFiniteSet(Units(reserved)) /\ \A p : ReservedOn(p) = 0
  <2>1. reserved = {} /\ \A p : {b \in reserved : Request[b].payment = p} = {}
    BY DEF Init, BookInit
  <2> QED
    BY <1>1, <2>1, FS_EmptySet DEF ReservedOn
<1>3. WithinPayment
  BY <1>2, CreationAssumption DEF WithinPayment
<1>4. TypeOK
  BY CreationAssumption DEF Init, BookInit, TypeOK, Steps, NoAnswer
<1>5. KeyHeld /\ PaymentHeld /\ Checked
  BY DEF Init, BookInit, KeyHeld, PaymentHeld, Checked
<1> QED
  BY <1>2, <1>3, <1>4, <1>5 DEF IInv

--------------------------------------------------------------------------------
\* Kinds of steps

Codes == {"none", "created", "replayed", "conflict", "payment_not_found",
          "invalid_payment_state", "amount_exceeded", "error"}
Answers == [code : Codes, refund : SUBSET Clients]

\* A statement that only reads or locks leaves the book and the sums alone.
LEMMA SameBook ==
  ASSUME UNCHANGED <<book, reserved>>
  PROVE  /\ \A c : KeyIsFree(c)' <=> KeyIsFree(c)
         /\ \A c : Fits(c)' <=> Fits(c)
         /\ WithinPayment' <=> WithinPayment
  BY DEF KeyIsFree, Fits, WithinPayment, ReservedOn

\* The transaction ends: the locks of the others stay, and so does what they know
\* as long as the book does.
LEMMA FinishHolds ==
  ASSUME IInv, NEW c \in Clients, Finish(c), UNCHANGED <<book, reserved>>,
         NEW a \in Answers, answer' = [answer EXCEPT ![c] = a], faults' \in Nat
  PROVE  IInv'
<1>1. TypeOK'
  BY DEF IInv, TypeOK, Finish, Steps, Answers, Codes
<1>2. pc'[c] = "done" /\ \A b \in Clients : b # c => pc'[b] = pc[b] /\ answer'[b] = answer[b]
  BY DEF IInv, TypeOK, Finish
<1>3. KeyHeld'
  <2> SUFFICES ASSUME NEW b \in Clients, pc'[b] \notin {"begin", "done"}
               PROVE  keyLock'[KeyOf(b)] = {b}
    BY DEF KeyHeld, KeyOf
  <2>1. b # c /\ keyLock[KeyOf(b)] = {b} /\ KeyOf(b) \in Keys
    BY <1>2, RequestFacts DEF IInv, KeyHeld
  <2> QED
    BY <2>1 DEF Finish
<1>4. PaymentHeld'
  <2> SUFFICES ASSUME NEW b \in Clients, pc'[b] \in {"sum", "insert", "commit"}
               PROVE  PaymentOf(b) \in PaidPayments /\ payLock'[PaymentOf(b)] = {b}
    BY DEF PaymentHeld, PaymentOf
  <2>1. b # c /\ payLock[PaymentOf(b)] = {b} /\ PaymentOf(b) \in PaidPayments
        /\ PaymentOf(b) \in Payments
    BY <1>2, RequestFacts DEF IInv, PaymentHeld
  <2> QED
    BY <2>1 DEF Finish
<1>5. Checked'
  <2>1. inserted' = {b \in Clients : pc'[b] = "commit"}
    BY <1>2 DEF IInv, Checked, Finish
  <2> QED
    BY <1>2, <2>1, SameBook DEF IInv, Checked
<1> QED
  BY <1>1, <1>3, <1>4, <1>5, SameBook DEF IInv

\* A statement that goes on, with the locks it holds.
LEMMA GoToHolds ==
  ASSUME IInv, NEW c \in Clients, NEW step \in Steps \ {"begin", "done"}, GoTo(c, step),
         UNCHANGED <<book, reserved, answer, faults>>, TypeOK',
         pc[c] # "done",
         keyLock'[KeyOf(c)] = {c},
         \A k \in Keys : k # KeyOf(c) => keyLock'[k] = keyLock[k],
         \A b \in Clients : b # c /\ pc[b] \notin {"begin", "done"} => KeyOf(b) # KeyOf(c),
         step \in {"sum", "insert", "commit"} =>
           PaymentOf(c) \in PaidPayments /\ payLock'[PaymentOf(c)] = {c},
         \A b \in Clients : b # c /\ pc[b] \in {"sum", "insert", "commit"} =>
                              payLock'[PaymentOf(b)] = payLock[PaymentOf(b)],
         step \in {"payment", "sum", "insert", "commit"} => KeyIsFree(c),
         step \in {"insert", "commit"} => Fits(c),
         inserted' = (IF step = "commit" THEN inserted \cup {c} ELSE inserted),
         pc[c] # "commit"
  PROVE  IInv'
<1>1. pc'[c] = step /\ \A b \in Clients : b # c => pc'[b] = pc[b]
  BY DEF IInv, TypeOK, GoTo
<1>2. KeyHeld'
  <2> SUFFICES ASSUME NEW b \in Clients, pc'[b] \notin {"begin", "done"}, b # c
               PROVE  keyLock'[KeyOf(b)] = {b}
    BY DEF KeyHeld, KeyOf
  <2> QED
    BY <1>1, RequestFacts DEF IInv, KeyHeld
<1>3. PaymentHeld'
  <2> SUFFICES ASSUME NEW b \in Clients, pc'[b] \in {"sum", "insert", "commit"}
               PROVE  PaymentOf(b) \in PaidPayments /\ payLock'[PaymentOf(b)] = {b}
    BY DEF PaymentHeld, PaymentOf
  <2>1. CASE b = c
    BY <1>1, <2>1
  <2>2. CASE b # c
    BY <1>1, <2>2 DEF IInv, PaymentHeld
  <2> QED
    BY <2>1, <2>2
<1>4. Checked'
  <2>1. inserted' = {b \in Clients : pc'[b] = "commit"}
    BY <1>1 DEF IInv, Checked
  <2> QED
    BY <1>1, <2>1, SameBook DEF IInv, Checked
<1> QED
  BY <1>2, <1>3, <1>4, SameBook DEF IInv

\* The others that hold their key hold another one.
LEMMA OtherKeys ==
  ASSUME IInv, NEW c \in Clients,
         pc[c] \notin {"begin", "done"} \/ keyLock[KeyOf(c)] = {}
  PROVE  \A b \in Clients : b # c /\ pc[b] \notin {"begin", "done"} => KeyOf(b) # KeyOf(c)
  BY DEF IInv, KeyHeld

--------------------------------------------------------------------------------
\* One lemma per statement

LEMMA LockKeyHolds ==
  ASSUME IInv, NEW c \in Clients, LockKey(c) PROVE IInv'
<1>1. KeyOf(c) \in Keys
  BY RequestFacts
<1>2. TypeOK'
  BY <1>1 DEF IInv, TypeOK, LockKey, GoTo, Steps
<1>3. keyLock'[KeyOf(c)] = {c} /\ \A k \in Keys : k # KeyOf(c) => keyLock'[k] = keyLock[k]
  BY <1>1 DEF IInv, TypeOK, LockKey
<1>4. pc[c] = "begin" /\ keyLock[KeyOf(c)] = {} /\ GoTo(c, "lookup")
      /\ UNCHANGED <<book, reserved, answer, payLock, inserted, faults>>
  BY DEF LockKey
<1>5. "lookup" \in Steps \ {"begin", "done"}
  BY DEF Steps
<1> QED
  BY <1>2, <1>3, <1>4, <1>5, OtherKeys, GoToHolds

LEMMA KeyUnknownHolds ==
  ASSUME IInv, NEW c \in Clients, KeyUnknown(c) PROVE IInv'
<1>1. TypeOK'
  BY DEF IInv, TypeOK, KeyUnknown, GoTo, Steps
<1>2. pc[c] = "lookup" /\ KeyIsFree(c) /\ GoTo(c, "payment")
      /\ UNCHANGED <<book, reserved, answer, keyLock, payLock, inserted, faults>>
  BY DEF KeyUnknown
<1>3. keyLock[KeyOf(c)] = {c}
  BY <1>2 DEF IInv, KeyHeld
<1>4. "payment" \in Steps \ {"begin", "done"}
  BY DEF Steps
<1> QED
  BY <1>1, <1>2, <1>3, <1>4, OtherKeys, GoToHolds

LEMMA LockPaymentHolds ==
  ASSUME IInv, NEW c \in Clients, LockPayment(c) PROVE IInv'
<1>1. PaymentOf(c) \in Payments
  BY RequestFacts
<1>2. /\ pc[c] = "payment" /\ PaymentOf(c) \in PaidPayments /\ payLock[PaymentOf(c)] = {}
      /\ payLock' = [payLock EXCEPT ![PaymentOf(c)] = {c}] /\ GoTo(c, "sum")
      /\ UNCHANGED <<book, reserved, answer, keyLock, inserted, faults>>
  BY DEF LockPayment, PaymentOf
<1>3. TypeOK'
  BY <1>1, <1>2 DEF IInv, TypeOK, GoTo, Steps
<1>4. payLock'[PaymentOf(c)] = {c}
  BY <1>1, <1>2 DEF IInv, TypeOK
<1>5. \A b \in Clients : b # c /\ pc[b] \in {"sum", "insert", "commit"} =>
                           payLock'[PaymentOf(b)] = payLock[PaymentOf(b)]
  BY <1>1, <1>2, RequestFacts DEF IInv, TypeOK, PaymentHeld
<1>6. keyLock[KeyOf(c)] = {c} /\ KeyIsFree(c)
  BY <1>2 DEF IInv, KeyHeld, Checked
<1>7. "sum" \in Steps \ {"begin", "done"}
  BY DEF Steps
<1> QED
  BY <1>2, <1>3, <1>4, <1>5, <1>6, <1>7, OtherKeys, GoToHolds

LEMMA AmountFitsHolds ==
  ASSUME IInv, NEW c \in Clients, AmountFits(c) PROVE IInv'
<1>1. TypeOK'
  BY DEF IInv, TypeOK, AmountFits, GoTo, Steps
<1>2. pc[c] = "sum" /\ Fits(c) /\ GoTo(c, "insert")
      /\ UNCHANGED <<book, reserved, answer, keyLock, payLock, inserted, faults>>
  BY DEF AmountFits
<1>3. keyLock[KeyOf(c)] = {c} /\ KeyIsFree(c) /\ PaymentOf(c) \in PaidPayments
      /\ payLock[PaymentOf(c)] = {c}
  BY <1>2 DEF IInv, KeyHeld, Checked, PaymentHeld
<1>4. "insert" \in Steps \ {"begin", "done"}
  BY DEF Steps
<1> QED
  BY <1>1, <1>2, <1>3, <1>4, OtherKeys, GoToHolds

\* The unique constraint is not met: the insert goes through.
LEMMA InsertHolds ==
  ASSUME IInv, NEW c \in Clients, Insert(c) PROVE IInv'
<1>1. /\ pc[c] = "insert" /\ KeyIsFree(c) /\ Fits(c) /\ keyLock[KeyOf(c)] = {c}
      /\ PaymentOf(c) \in PaidPayments /\ payLock[PaymentOf(c)] = {c}
  BY DEF Insert, IInv, KeyHeld, Checked, PaymentHeld
<1>2. inserted' = inserted \cup {c} /\ GoTo(c, "commit")
      /\ UNCHANGED <<book, reserved, answer, keyLock, payLock, faults>>
  BY <1>1 DEF Insert
<1>3. TypeOK'
  BY <1>2 DEF IInv, TypeOK, GoTo, Steps
<1>4. "commit" \in Steps \ {"begin", "done"}
  BY DEF Steps
<1> QED
  BY <1>1, <1>2, <1>3, <1>4, OtherKeys, GoToHolds

\* The refund is booked: the others look at other keys and other payments.
LEMMA CommitHolds ==
  ASSUME IInv, NEW c \in Clients, Commit(c) \/ CommitUnacknowledged(c) PROVE IInv'
<1> DEFINE p == PaymentOf(c)
<1>1. /\ pc[c] = "commit" /\ Finish(c) /\ book' = book \cup {c} /\ reserved' = reserved \cup {c}
      /\ Answered(c, "created", {c}) \/ Answered(c, "error", {})
      /\ faults' \in {faults, faults + 1}
  BY DEF Commit, CommitUnacknowledged
<1>2. /\ KeyIsFree(c) /\ Fits(c) /\ keyLock[KeyOf(c)] = {c}
      /\ p \in PaidPayments /\ payLock[p] = {c}
  BY <1>1 DEF IInv, KeyHeld, Checked, PaymentHeld
<1>3. TypeOK'
  BY <1>1 DEF IInv, TypeOK, Finish, Steps, Answered
<1>4. pc'[c] = "done" /\ \A b \in Clients : b # c => pc'[b] = pc[b] /\ answer'[b] = answer[b]
  BY <1>1 DEF IInv, TypeOK, Finish, Answered
<1>5. KeyHeld'
  <2> SUFFICES ASSUME NEW b \in Clients, pc'[b] \notin {"begin", "done"}
               PROVE  keyLock'[KeyOf(b)] = {b}
    BY DEF KeyHeld, KeyOf
  <2>1. b # c /\ keyLock[KeyOf(b)] = {b} /\ KeyOf(b) \in Keys
    BY <1>4, RequestFacts DEF IInv, KeyHeld
  <2> QED
    BY <1>1, <2>1 DEF Finish
<1>6. PaymentHeld'
  <2> SUFFICES ASSUME NEW b \in Clients, pc'[b] \in {"sum", "insert", "commit"}
               PROVE  PaymentOf(b) \in PaidPayments /\ payLock'[PaymentOf(b)] = {b}
    BY DEF PaymentHeld, PaymentOf
  <2>1. b # c /\ payLock[PaymentOf(b)] = {b} /\ PaymentOf(b) \in PaidPayments
        /\ PaymentOf(b) \in Payments
    BY <1>4, RequestFacts DEF IInv, PaymentHeld
  <2> QED
    BY <1>1, <2>1 DEF Finish
<1>7. IsFiniteSet(Units(reserved))'
  BY <1>1, SumOfOneMore DEF IInv, Units
<1>8. \A q : q # p => ReservedOn(q)' = ReservedOn(q)
  <2> SUFFICES ASSUME NEW q, q # p PROVE ReservedOn(q)' = ReservedOn(q)
    OBVIOUS
  <2>1. {b \in reserved' : Request[b].payment = q} = {b \in reserved : Request[b].payment = q}
    BY <1>1 DEF PaymentOf
  <2> QED
    BY <2>1 DEF ReservedOn
<1>9. ReservedOn(p)' <= PaymentAmount[p]
  <2>1. {b \in reserved' : Request[b].payment = p} = On(p) \cup {c}
    BY <1>1 DEF On, PaymentOf
  <2>2. IsFiniteSet(Units(On(p))) /\ ReservedOn(p) = Cardinality(Units(On(p)))
        /\ ReservedOn(p) \in Nat
    BY OnFacts DEF IInv
  <2>3. IsFiniteSet(Units(On(p) \cup {c}))
        /\ Cardinality(Units(On(p) \cup {c})) <= Cardinality(Units(On(p))) + Request[c].amount
    BY <2>2, SumOfOneMore
  <2>4. ReservedOn(p)' = Cardinality(Units(On(p) \cup {c}))
    BY <2>1 DEF ReservedOn
  <2>5. Cardinality(Units(On(p) \cup {c})) \in Nat
    BY <2>3, FS_CardinalityType
  <2>6. Request[c].amount <= PaymentAmount[p] - ReservedOn(p)
    BY <1>2 DEF Fits, PaymentOf
  <2>7. PaymentAmount[p] \in Nat /\ Request[c].amount \in Nat
    BY <1>2, CreationAssumption, RequestFacts
  <2> HIDE DEF p
  <2> QED
    BY <2>2, <2>3, <2>4, <2>5, <2>6, <2>7
<1>10. WithinPayment'
  <2> SUFFICES ASSUME NEW q \in DOMAIN PaymentAmount PROVE ReservedOn(q)' <= PaymentAmount[q]
    BY DEF WithinPayment
  <2> QED
    BY <1>8, <1>9 DEF IInv, WithinPayment
<1>11. Checked'
  <2>1. inserted' = {b \in Clients : pc'[b] = "commit"}
    BY <1>1, <1>4 DEF IInv, Checked, Finish
  <2>2. ASSUME NEW b \in Clients, pc'[b] \in {"payment", "sum", "insert", "commit"}
        PROVE  KeyIsFree(b)'
    <3>1. b # c /\ KeyIsFree(b) /\ KeyOf(b) # KeyOf(c)
      BY <1>1, <1>4, <2>2, OtherKeys DEF IInv, Checked
    <3> QED
      BY <1>1, <3>1 DEF KeyIsFree, KeyOf
  <2>3. ASSUME NEW b \in Clients, pc'[b] \in {"insert", "commit"} PROVE Fits(b)'
    <3>1. b # c /\ Fits(b) /\ PaymentOf(b) # p
      BY <1>2, <1>4, <2>3 DEF IInv, Checked, PaymentHeld
    <3> QED
      BY <1>8, <3>1 DEF Fits, PaymentOf
  <2>4. \A b \in Clients : pc'[b] # "done" => answer'[b] = NoAnswer
    BY <1>4 DEF IInv, Checked
  <2> QED
    BY <2>1, <2>2, <2>3, <2>4 DEF Checked
<1> QED
  BY <1>3, <1>5, <1>6, <1>7, <1>10, <1>11 DEF IInv

\* A released refund makes room; whoever has found room still has it.
LEMMA ReleaseHolds ==
  ASSUME IInv, NEW c \in Clients, ReleaseRefund(c) PROVE IInv'
<1>1. reserved' = reserved \ {c} /\ UNCHANGED <<book, answer, pc, keyLock, payLock, inserted, faults>>
  BY DEF ReleaseRefund, Release
<1>2. TypeOK' /\ KeyHeld' /\ PaymentHeld'
  BY <1>1 DEF IInv, TypeOK, KeyHeld, PaymentHeld, KeyOf, PaymentOf
<1>3. IsFiniteSet(Units(reserved))'
  BY <1>1, SumFacts DEF IInv, Units
<1>4. ASSUME NEW q
      PROVE  ReservedOn(q)' \in Nat /\ ReservedOn(q) \in Nat /\ ReservedOn(q)' <= ReservedOn(q)
  <2>1. {b \in reserved' : Request[b].payment = q} \subseteq On(q)
    BY <1>1 DEF On
  <2>2. IsFiniteSet(Units(On(q))) /\ ReservedOn(q) = Cardinality(Units(On(q)))
        /\ ReservedOn(q) \in Nat
    BY OnFacts DEF IInv
  <2>3. ReservedOn(q)' = Cardinality(Units({b \in reserved' : Request[b].payment = q}))
    BY DEF ReservedOn
  <2> QED
    BY <2>1, <2>2, <2>3, SumFacts
<1>5. WithinPayment'
  <2> SUFFICES ASSUME NEW q \in DOMAIN PaymentAmount PROVE ReservedOn(q)' <= PaymentAmount[q]
    BY DEF WithinPayment
  <2>1. ReservedOn(q) <= PaymentAmount[q] /\ PaymentAmount[q] \in Nat
    BY CreationAssumption DEF IInv, WithinPayment
  <2> QED
    BY <1>4, <2>1
<1>6. ASSUME NEW b \in Clients, pc[b] \in {"insert", "commit"} PROVE Fits(b)'
  <2>1. Fits(b) /\ PaymentOf(b) \in PaidPayments
    BY <1>6 DEF IInv, Checked, PaymentHeld
  <2>2. PaymentAmount[PaymentOf(b)] \in Nat /\ Request[b].amount \in Nat
    BY <2>1, CreationAssumption, RequestFacts
  <2>3. Request[b].amount <= PaymentAmount[PaymentOf(b)] - ReservedOn(PaymentOf(b))
    BY <2>1 DEF Fits, PaymentOf
  <2>4. Request[b].amount <= PaymentAmount[PaymentOf(b)] - ReservedOn(PaymentOf(b))'
    BY <1>4, <2>2, <2>3
  <2> QED
    BY <2>4 DEF Fits, PaymentOf
<1>7. Checked'
  <2>1. \A b \in Clients : KeyIsFree(b)' <=> KeyIsFree(b)
    BY <1>1 DEF KeyIsFree, KeyOf
  <2> QED
    BY <1>1, <1>6, <2>1 DEF IInv, Checked
<1> QED
  BY <1>2, <1>3, <1>5, <1>7 DEF IInv

\* The request is answered without a booking.
LEMMA AnswerHolds ==
  ASSUME IInv, NEW c \in Clients,
         KeyKnown(c) \/ PaymentRefused(c) \/ AmountExceeded(c) \/ Rollback(c)
  PROVE  IInv'
<1>1. Finish(c) /\ UNCHANGED <<book, reserved>>
  BY DEF KeyKnown, Known, PaymentRefused, AmountExceeded, Rollback
<1>2. faults' \in Nat
  BY DEF IInv, TypeOK, KeyKnown, PaymentRefused, AmountExceeded, Rollback
<1>3. \E a \in Answers : answer' = [answer EXCEPT ![c] = a]
  <2>1. CASE KeyKnown(c)
    <3>1. PICK b \in book : Answered(c, "replayed", {b}) \/ Answered(c, "conflict", {})
      BY <2>1 DEF KeyKnown, Known
    <3>2. [code |-> "replayed", refund |-> {b}] \in Answers
          /\ [code |-> "conflict", refund |-> {}] \in Answers
      BY DEF Answers, Codes, IInv, TypeOK
    <3> QED
      BY <3>1, <3>2 DEF Answered
  <2>2. CASE PaymentRefused(c) \/ AmountExceeded(c) \/ Rollback(c)
    <3>1. PICK code \in {"payment_not_found", "invalid_payment_state", "amount_exceeded",
                         "error"} : Answered(c, code, {})
      BY <2>2 DEF PaymentRefused, AmountExceeded, Rollback
    <3>2. [code |-> code, refund |-> {}] \in Answers
      BY DEF Answers, Codes
    <3> QED
      BY <3>1, <3>2 DEF Answered
  <2> QED
    BY <2>1, <2>2
<1> QED
  BY <1>1, <1>2, <1>3, FinishHolds

LEMMA NextHolds == IInv /\ [Next]_vars => IInv'
<1> SUFFICES ASSUME IInv, [Next]_vars PROVE IInv'
  OBVIOUS
<1>1. CASE UNCHANGED vars
  BY <1>1 DEF vars, IInv, TypeOK, KeyHeld, PaymentHeld, Checked, WithinPayment, KeyIsFree,
     Fits, ReservedOn, Units, KeyOf, PaymentOf
<1> QED
  BY <1>1, LockKeyHolds, KeyUnknownHolds, LockPaymentHolds, AmountFitsHolds, InsertHolds,
     CommitHolds, ReleaseHolds, AnswerHolds DEF Next, Advance, AllDone

--------------------------------------------------------------------------------
\* The theorems

THEOREM Invariance == Spec => []IInv
  BY InitHolds, NextHolds, PTL DEF Spec

\* Every variable keeps its type.
THEOREM TypeCorrect == Spec => []TypeOK
<1>1. IInv => TypeOK
  BY DEF IInv
<1> QED
  BY <1>1, Invariance, PTL

\* The refunds that count against a payment never exceed it, however many
\* requests run through CreateRefund at once.
THEOREM NeverOverbooked == Spec => []WithinPayment
<1>1. IInv => WithinPayment
  BY DEF IInv
<1> QED
  BY <1>1, Invariance, PTL

\* No request runs into the unique constraint on the key.
THEOREM ConstraintNeverMet == Spec => []InsertNeverConflicts
<1>1. IInv => InsertNeverConflicts
  <2> SUFFICES ASSUME IInv, NEW c \in Clients, pc[c] = "insert"
               PROVE  KeyIsFree(c) /\ \A b \in inserted : KeyOf(b) # KeyOf(c)
    BY DEF InsertNeverConflicts
  <2>1. KeyIsFree(c)
    BY DEF IInv, Checked
  <2>2. ASSUME NEW b \in inserted PROVE KeyOf(b) # KeyOf(c)
    <3>1. b \in Clients /\ pc[b] = "commit"
      BY <2>2 DEF IInv, Checked
    <3> QED
      BY <3>1, OtherKeys
  <2> QED
    BY <2>1, <2>2
<1> QED
  BY <1>1, Invariance, PTL

\* The statements of CreateRefund implement RefundBook: every transaction takes
\* effect at one instant, its commit or its refusal.
THEOREM Refinement == Spec => ImplementsBook
<1>1. Init => BookInit
  BY DEF Init
<1>2. IInv /\ [Next]_vars => [BookNext]_bookVars
  <2> SUFFICES ASSUME IInv, Next PROVE BookNext \/ UNCHANGED bookVars
    BY DEF vars, bookVars
  <2>1. CASE AllDone
    BY <2>1 DEF AllDone, vars, bookVars
  <2>2. ASSUME NEW c \in Clients, ReleaseRefund(c) PROVE BookNext
    BY <2>2 DEF ReleaseRefund, BookNext
  <2>3. ASSUME NEW c \in Clients, Rollback(c) PROVE Fail(c)
    BY <2>3 DEF Rollback, Fail, IInv, Checked
  <2>4. ASSUME NEW c \in Clients, Commit(c) \/ CommitUnacknowledged(c) PROVE Book(c)
    <3>1. answer[c] = NoAnswer /\ KeyIsFree(c) /\ Request[c].payment \in PaidPayments /\ Fits(c)
      BY <2>4 DEF Commit, CommitUnacknowledged, IInv, Checked, PaymentHeld, PaymentOf
    <3> QED
      BY <2>4, <3>1 DEF Book, Commit, CommitUnacknowledged
  <2>5. ASSUME NEW c \in Clients, KeyKnown(c) PROVE Known(c)
    BY <2>5 DEF KeyKnown
  <2>6. ASSUME NEW c \in Clients, PaymentRefused(c) \/ AmountExceeded(c) PROVE Refuse(c)
    <3>1. answer[c] = NoAnswer /\ KeyIsFree(c)
      BY <2>6 DEF PaymentRefused, AmountExceeded, IInv, Checked
    <3>2. AmountExceeded(c) => Request[c].payment \in PaidPayments
      BY DEF AmountExceeded, IInv, PaymentHeld, PaymentOf
    <3> QED
      BY <2>6, <3>1, <3>2 DEF Refuse, PaymentRefused, AmountExceeded
  <2>7. ASSUME NEW c \in Clients, Insert(c) PROVE UNCHANGED bookVars
    <3>1. KeyIsFree(c)
      BY <2>7 DEF Insert, IInv, Checked
    <3> QED
      BY <2>7, <3>1 DEF Insert, bookVars
  <2>8. ASSUME NEW c \in Clients,
               LockKey(c) \/ KeyUnknown(c) \/ LockPayment(c) \/ AmountFits(c)
        PROVE  UNCHANGED bookVars
    BY <2>8 DEF LockKey, KeyUnknown, LockPayment, AmountFits, bookVars
  <2> QED
    BY <2>1, <2>2, <2>3, <2>4, <2>5, <2>6, <2>7, <2>8 DEF Next, Advance, BookNext
<1> QED
  BY <1>1, <1>2, Invariance, PTL DEF Spec, ImplementsBook, BookSpec

================================================================================
