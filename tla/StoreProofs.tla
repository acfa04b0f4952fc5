------------------------------ MODULE StoreProofs ------------------------------
(***************************************************************************)
(* The transactions of internal/storage/store.go, for any number of        *)
(* concurrent requests, keys and faults: first payments (Payments.tla),    *)
(* then webhook subscriptions (Subscriptions.tla, under the name Sub).     *)
(* The two share no state; each has an inductive invariant of its own.     *)
(***************************************************************************)
EXTENDS Payments, Sequences, FiniteSetTheorems, TLAPS

--------------------------------------------------------------------------------
\* Payments: the inductive invariant

\* A transaction that inserted its key has it to itself until it ends, and the key
\* has no committed row.
KeysHeld ==
  \A c \in Creators :
    pc[c] \in {"insert", "commit"} =>
      \A k \in KeyOf[c] : keyLock[k] = {c} /\ keyRow[k] = {}

\* The row of a key names a payment that was made for the key.
RowsNamed ==
  \A k \in Keys : \A d \in keyRow[k] : k \in KeyOf[d] /\ payment[d] # "none"

\* A payment is made by a request that is over, and its key names it.
PaymentsKeyed ==
  \A c \in Creators :
    payment[c] # "none" => pc[c] = "done" /\ \A k \in KeyOf[c] : keyRow[k] = {c}

\* The payment a creator was told about is the one of its key, made for the same
\* amount and currency; and no creator misses the payment its key names.
AnswerOK(c, code, what) ==
  /\ code # "not_found"
  /\ \A d \in what : /\ what = {d}
                     /\ \A k \in KeyOf[c] : keyRow[k] = {d} /\ HashOf[d] = HashOf[c]

AnswersOK == \A c \in Creators : AnswerOK(c, answer[c].code, answer[c].payment)

\* Who goes on to cancel a payment saw it pending.
CancelsOK ==
  \A x \in Cancellers :
    pc[x] \in {"update", "commit"} => payment[TargetOf[x]] \in {"PENDING", "CANCELLED"}

IInv ==
  /\ TypeOK /\ KeysHeld /\ RowsNamed /\ PaymentsKeyed /\ AnswersOK /\ CancelsOK
  /\ EventsMatchPayments

Codes == {"none", "created", "replayed", "cancelled", "conflict", "not_found",
          "invalid_state", "error"}

--------------------------------------------------------------------------------
\* Payments: the steps

\* A request has at most one key, and requests are of one kind.
LEMMA Kinds ==
  /\ \A c \in Creators : c \in Requests /\ c \notin Cancellers /\ KeyOf[c] \subseteq Keys
  /\ \A x \in Cancellers : x \in Requests /\ x \notin Creators /\ TargetOf[x] \in Creators
  /\ \A c \in Creators : \A j, k \in KeyOf[c] : j = k
  /\ \A c \in Creators : StatusOf[c] \in {"PENDING", "SUCCEEDED"}
  BY PaymentsAssumption DEF Requests

\* The invariant holds initially.
LEMMA InitOK == Init => IInv
<1> SUFFICES ASSUME Init PROVE IInv
  OBVIOUS
<1>1. TypeOK
  BY DEF Init, TypeOK
<1>2. KeysHeld /\ RowsNamed /\ PaymentsKeyed /\ CancelsOK
  BY Kinds DEF Init, KeysHeld, RowsNamed, PaymentsKeyed, CancelsOK
<1>3. AnswersOK /\ EventsMatchPayments
  BY Kinds DEF Init, AnswersOK, AnswerOK, EventsMatchPayments
<1> QED
  BY <1>1, <1>2, <1>3 DEF IInv

\* What the end of a transaction does to its locks and its answer.
LEMMA FinishFacts ==
  ASSUME TypeOK, NEW r \in Requests, NEW code \in Codes, NEW what \in SUBSET Creators,
         Finish(r, code, what)
  PROVE  /\ pc' \in [Requests -> {"begin", "insert", "existing", "update", "commit", "done"}]
         /\ pc'[r] = "done" /\ \A q \in Requests : q # r => pc'[q] = pc[q]
         /\ answer' \in [Requests -> [code : Codes, payment : SUBSET Creators]]
         /\ answer'[r].code = code /\ answer'[r].payment = what
         /\ \A q \in Requests : q # r => answer'[q] = answer[q]
         /\ keyLock' \in [Keys -> {{}} \cup {{c} : c \in Creators}]
         /\ \A k \in Keys, c \in Creators : c # r /\ keyLock[k] = {c} => keyLock'[k] = {c}
         /\ rowLock' \in [Creators -> SUBSET Cancellers]
<1>1. /\ pc' = [pc EXCEPT ![r] = "done"]
      /\ answer' = [answer EXCEPT ![r] = [code |-> code, payment |-> what]]
      /\ keyLock' = [k \in Keys |-> keyLock[k] \ {r}]
      /\ rowLock' = [c \in Creators |-> rowLock[c] \ {r}]
  BY DEF Finish, GoTo
<1>2. answer \in [Requests -> [code : Codes, payment : SUBSET Creators]]
  BY DEF TypeOK, Codes
<1>3. [code |-> code, payment |-> what] \in [code : Codes, payment : SUBSET Creators]
  OBVIOUS
<1>4. /\ answer' \in [Requests -> [code : Codes, payment : SUBSET Creators]]
      /\ answer'[r].code = code /\ answer'[r].payment = what
      /\ \A q \in Requests : q # r => answer'[q] = answer[q]
  BY <1>1, <1>2, <1>3
<1>5. /\ pc' \in [Requests -> {"begin", "insert", "existing", "update", "commit", "done"}]
      /\ pc'[r] = "done" /\ \A q \in Requests : q # r => pc'[q] = pc[q]
  BY <1>1 DEF TypeOK
<1>6. /\ keyLock' \in [Keys -> {{}} \cup {{c} : c \in Creators}]
      /\ \A k \in Keys, c \in Creators : c # r /\ keyLock[k] = {c} => keyLock'[k] = {c}
  BY <1>1 DEF TypeOK
<1>7. rowLock' \in [Creators -> SUBSET Cancellers]
  BY <1>1 DEF TypeOK
<1> QED
  BY <1>4, <1>5, <1>6, <1>7

\* A request ends without having written anything.
LEMMA EndsWithoutTrace ==
  ASSUME IInv, NEW r \in Requests, NEW code \in Codes, NEW what \in SUBSET Creators,
         Finish(r, code, what), r \in Creators => AnswerOK(r, code, what),
         UNCHANGED <<payment, keyRow, events>>, faults' \in Nat
  PROVE  IInv'
<1> USE DEF IInv
<1>1. /\ pc' \in [Requests -> {"begin", "insert", "existing", "update", "commit", "done"}]
      /\ pc'[r] = "done" /\ \A q \in Requests : q # r => pc'[q] = pc[q]
      /\ answer' \in [Requests -> [code : Codes, payment : SUBSET Creators]]
      /\ answer'[r].code = code /\ answer'[r].payment = what
      /\ \A q \in Requests : q # r => answer'[q] = answer[q]
      /\ keyLock' \in [Keys -> {{}} \cup {{c} : c \in Creators}]
      /\ \A k \in Keys, c \in Creators : c # r /\ keyLock[k] = {c} => keyLock'[k] = {c}
      /\ rowLock' \in [Creators -> SUBSET Cancellers]
  BY FinishFacts
<1>2. TypeOK'
  BY <1>1 DEF TypeOK, Codes
<1>3. KeysHeld'
  BY <1>1, Kinds DEF KeysHeld
<1>4. RowsNamed'
  BY DEF RowsNamed
<1>5. PaymentsKeyed'
  BY <1>1, Kinds DEF PaymentsKeyed
<1>6. AnswersOK'
  BY <1>1, Kinds DEF AnswersOK, AnswerOK
<1>7. CancelsOK'
  BY <1>1, Kinds DEF CancelsOK
<1>8. EventsMatchPayments'
  BY DEF EventsMatchPayments
<1> QED
  BY <1>2, <1>3, <1>4, <1>5, <1>6, <1>7, <1>8

\* A request goes on to its next statement.
LEMMA GoesOn ==
  ASSUME IInv, NEW r \in Requests, NEW step \in {"insert", "existing", "update", "commit"},
         GoTo(r, step), pc[r] # "done", UNCHANGED <<payment, keyRow, events, answer, faults>>,
         keyLock' \in [Keys -> {{}} \cup {{c} : c \in Creators}],
         rowLock' \in [Creators -> SUBSET Cancellers],
         r \in Creators /\ step \in {"insert", "commit"} =>
           \A k \in KeyOf[r] : keyLock'[k] = {r} /\ keyRow[k] = {},
         \A k \in Keys, c \in Creators : c # r /\ keyLock[k] = {c} => keyLock'[k] = {c},
         r \in Cancellers => payment[TargetOf[r]] \in {"PENDING", "CANCELLED"}
  PROVE  IInv'
<1> USE DEF IInv
<1>1. /\ pc' \in [Requests -> {"begin", "insert", "existing", "update", "commit", "done"}]
      /\ pc'[r] = step /\ \A q \in Requests : q # r => pc'[q] = pc[q]
  BY DEF GoTo, TypeOK
<1>2. TypeOK'
  BY <1>1 DEF TypeOK
<1>3. KeysHeld'
  BY <1>1, Kinds DEF KeysHeld
<1>4. RowsNamed' /\ AnswersOK' /\ EventsMatchPayments'
  BY DEF RowsNamed, AnswersOK, AnswerOK, EventsMatchPayments
<1>5. PaymentsKeyed'
  BY <1>1, Kinds DEF PaymentsKeyed
<1>6. CancelsOK'
  BY <1>1, Kinds DEF CancelsOK
<1> QED
  BY <1>2, <1>3, <1>4, <1>5, <1>6

\* CreatePayment up to its commit.
LEMMA CreateKeeps ==
  ASSUME IInv, NEW c \in Creators,
         InsertKey(c) \/ KeyTaken(c) \/ AnswerExisting(c) \/ InsertPayment(c)
  PROVE  IInv'
<1>1. c \in Requests /\ c \notin Cancellers /\ KeyOf[c] \subseteq Keys /\ TypeOK
  BY Kinds DEF IInv
<1>2. CASE InsertKey(c)
  <2>1. /\ GoTo(c, "insert") /\ pc[c] = "begin"
        /\ \A k \in KeyOf[c] : keyLock[k] = {} /\ keyRow[k] = {}
        /\ keyLock' = [k \in Keys |-> IF k \in KeyOf[c] THEN {c} ELSE keyLock[k]]
        /\ UNCHANGED <<payment, keyRow, events, answer, rowLock, faults>>
    BY <1>2 DEF InsertKey
  <2>2. /\ keyLock' \in [Keys -> {{}} \cup {{d} : d \in Creators}]
        /\ rowLock' \in [Creators -> SUBSET Cancellers]
    BY <1>1, <2>1 DEF TypeOK
  <2>3. \A k \in KeyOf[c] : keyLock'[k] = {c} /\ keyRow[k] = {}
    BY <1>1, <2>1
  <2>4. \A k \in Keys, d \in Creators : d # c /\ keyLock[k] = {d} => keyLock'[k] = {d}
    BY <2>1
  <2> QED
    BY <1>1, <2>1, <2>2, <2>3, <2>4, GoesOn
<1>3. CASE KeyTaken(c)
  <2>1. /\ GoTo(c, "existing") /\ pc[c] = "begin"
        /\ UNCHANGED <<payment, keyRow, events, answer, keyLock, rowLock, faults>>
    BY <1>3 DEF KeyTaken
  <2>2. /\ keyLock' \in [Keys -> {{}} \cup {{d} : d \in Creators}]
        /\ rowLock' \in [Creators -> SUBSET Cancellers]
    BY <1>1, <2>1 DEF TypeOK
  <2> QED
    BY <1>1, <2>1, <2>2, GoesOn
<1>4. CASE AnswerExisting(c)
  <2>1. PICK k \in KeyOf[c] : \E d \in keyRow[k] :
          IF HashOf[d] # HashOf[c]
          THEN Finish(c, "conflict", {})
          ELSE IF payment[d] = "none" THEN Finish(c, "not_found", {})
                                      ELSE Finish(c, "replayed", {d})
    BY <1>4 DEF AnswerExisting
  <2>2. PICK d \in keyRow[k] :
          IF HashOf[d] # HashOf[c]
          THEN Finish(c, "conflict", {})
          ELSE IF payment[d] = "none" THEN Finish(c, "not_found", {})
                                      ELSE Finish(c, "replayed", {d})
    BY <2>1
  <2>3. UNCHANGED <<payment, keyRow, events, faults>> /\ faults' \in Nat
    BY <1>1, <1>4 DEF AnswerExisting, TypeOK
  <2>4. payment[d] # "none"
    BY <1>1, <2>1, <2>2 DEF IInv, RowsNamed
  <2>5. d \in Creators /\ keyRow[k] = {d} /\ \A j \in KeyOf[c] : j = k
    BY <1>1, <2>1, <2>2, Kinds DEF TypeOK
  <2>6. CASE HashOf[d] # HashOf[c]
    <3>1. Finish(c, "conflict", {}) /\ AnswerOK(c, "conflict", {}) /\ "conflict" \in Codes
      BY <2>2, <2>6 DEF AnswerOK, Codes
    <3> QED
      BY <1>1, <2>3, <3>1, EndsWithoutTrace
  <2>7. CASE HashOf[d] = HashOf[c]
    <3>1. Finish(c, "replayed", {d}) /\ AnswerOK(c, "replayed", {d}) /\ "replayed" \in Codes
      BY <2>2, <2>4, <2>5, <2>7 DEF AnswerOK, Codes
    <3>2. {d} \in SUBSET Creators
      BY <2>5
    <3> QED
      BY <1>1, <2>3, <3>1, <3>2, EndsWithoutTrace
  <2> QED
    BY <2>6, <2>7
<1>5. CASE InsertPayment(c)
  <2>1. /\ GoTo(c, "commit") /\ pc[c] = "insert"
        /\ UNCHANGED <<payment, keyRow, events, answer, keyLock, rowLock, faults>>
    BY <1>5 DEF InsertPayment
  <2>2. /\ keyLock' \in [Keys -> {{}} \cup {{d} : d \in Creators}]
        /\ rowLock' \in [Creators -> SUBSET Cancellers]
    BY <1>1, <2>1 DEF TypeOK
  <2>3. \A k \in KeyOf[c] : keyLock'[k] = {c} /\ keyRow[k] = {}
    BY <2>1 DEF IInv, KeysHeld
  <2> QED
    BY <1>1, <2>1, <2>2, <2>3, GoesOn
<1> QED
  BY <1>2, <1>3, <1>4, <1>5

\* The commit of CreatePayment, whether or not the client hears of it.
LEMMA CreateCommittedKeeps ==
  ASSUME IInv, NEW c \in Creators, NEW code \in {"created", "error"},
         NEW what \in {{}, {c}}, CreateCommitted(c, code, what), faults' \in Nat
  PROVE  /\ IInv'
         /\ payment[c] = "none" /\ payment' = [payment EXCEPT ![c] = StatusOf[c]]
<1> USE DEF IInv
<1>1. /\ c \in Requests /\ c \notin Cancellers /\ KeyOf[c] \subseteq Keys
      /\ StatusOf[c] \in {"PENDING", "SUCCEEDED"} /\ code \in Codes
      /\ what \in SUBSET Creators
  BY Kinds DEF Codes
<1>2. /\ pc[c] = "commit" /\ payment' = [payment EXCEPT ![c] = StatusOf[c]]
      /\ keyRow' = [k \in Keys |-> IF k \in KeyOf[c] THEN {c} ELSE keyRow[k]]
      /\ events' = [events EXCEPT ![c].created = @ + 1]
      /\ Finish(c, code, what)
  BY DEF CreateCommitted
<1>3. /\ pc' \in [Requests -> {"begin", "insert", "existing", "update", "commit", "done"}]
      /\ pc'[c] = "done" /\ \A q \in Requests : q # c => pc'[q] = pc[q]
      /\ answer' \in [Requests -> [code : Codes, payment : SUBSET Creators]]
      /\ answer'[c].code = code /\ answer'[c].payment = what
      /\ \A q \in Requests : q # c => answer'[q] = answer[q]
      /\ keyLock' \in [Keys -> {{}} \cup {{d} : d \in Creators}]
      /\ \A k \in Keys, d \in Creators : d # c /\ keyLock[k] = {d} => keyLock'[k] = {d}
      /\ rowLock' \in [Creators -> SUBSET Cancellers]
  BY <1>1, <1>2, FinishFacts
<1>4. payment[c] = "none" /\ \A k \in KeyOf[c] : keyLock[k] = {c} /\ keyRow[k] = {}
  BY <1>2 DEF PaymentsKeyed, KeysHeld
<1>5. /\ payment' \in [Creators -> {"none", "PENDING", "SUCCEEDED", "CANCELLED"}]
      /\ payment'[c] = StatusOf[c] /\ \A d \in Creators : d # c => payment'[d] = payment[d]
  BY <1>1, <1>2 DEF TypeOK
<1>6. /\ keyRow' \in [Keys -> {{}} \cup {{d} : d \in Creators}]
      /\ \A k \in Keys : keyRow'[k] = IF k \in KeyOf[c] THEN {c} ELSE keyRow[k]
  BY <1>1, <1>2 DEF TypeOK
<1>7. /\ events' \in [Creators -> [created : Nat, cancelled : Nat]]
      /\ events'[c].created = events[c].created + 1
      /\ events'[c].cancelled = events[c].cancelled
      /\ \A d \in Creators : d # c => events'[d] = events[d]
  BY <1>2 DEF TypeOK
<1>8. TypeOK'
  BY <1>3, <1>5, <1>6, <1>7 DEF TypeOK, Codes
<1>9. KeysHeld'
  <2> SUFFICES ASSUME NEW d \in Creators, pc'[d] \in {"insert", "commit"}, NEW k \in KeyOf[d]
               PROVE  keyLock'[k] = {d} /\ keyRow'[k] = {}
    BY DEF KeysHeld
  <2>1. d # c /\ d \in Requests /\ pc[d] \in {"insert", "commit"} /\ k \in Keys
    BY <1>3, Kinds
  <2>2. keyLock[k] = {d} /\ keyRow[k] = {}
    BY <2>1 DEF KeysHeld
  <2>3. k \notin KeyOf[c]
    BY <1>4, <2>1, <2>2
  <2> QED
    BY <1>3, <1>6, <2>1, <2>2, <2>3
<1>10. RowsNamed'
  BY <1>1, <1>5, <1>6 DEF RowsNamed, TypeOK
<1>11. PaymentsKeyed'
  <2> SUFFICES ASSUME NEW d \in Creators, payment'[d] # "none"
               PROVE  pc'[d] = "done" /\ \A k \in KeyOf[d] : keyRow'[k] = {d}
    BY DEF PaymentsKeyed
  <2>1. CASE d = c
    BY <1>1, <1>3, <1>6, <2>1
  <2>2. CASE d # c
    <3>1. d \in Requests /\ KeyOf[d] \subseteq Keys /\ payment[d] # "none"
      BY <1>5, <2>2, Kinds
    <3>2. pc[d] = "done" /\ \A k \in KeyOf[d] : keyRow[k] = {d}
      BY <3>1 DEF PaymentsKeyed
    <3> QED
      BY <1>3, <1>4, <1>6, <2>2, <3>1, <3>2
  <2> QED
    BY <2>1, <2>2
<1>12. AnswersOK'
  <2> SUFFICES ASSUME NEW d \in Creators
               PROVE  AnswerOK(d, answer[d].code, answer[d].payment)'
    BY DEF AnswersOK
  <2>1. CASE d = c
    BY <1>1, <1>3, <1>6, <2>1 DEF AnswerOK
  <2>2. CASE d # c
    <3>1. d \in Requests /\ KeyOf[d] \subseteq Keys /\ answer'[d] = answer[d]
      BY <1>3, <2>2, Kinds
    <3>2. AnswerOK(d, answer[d].code, answer[d].payment)
      BY DEF AnswersOK
    <3> QED
      BY <1>4, <1>6, <3>1, <3>2 DEF AnswerOK
  <2> QED
    BY <2>1, <2>2
<1>13. CancelsOK'
  BY <1>1, <1>3, <1>4, <1>5, Kinds DEF CancelsOK
<1>14. EventsMatchPayments'
  BY <1>1, <1>4, <1>5, <1>7 DEF EventsMatchPayments, TypeOK
<1> QED
  BY <1>2, <1>4, <1>8, <1>9, <1>10, <1>11, <1>12, <1>13, <1>14

\* CancelPayment up to its commit.
LEMMA CancelKeeps ==
  ASSUME IInv, NEW x \in Cancellers, ReadPayment(x) \/ UpdatePayment(x)
  PROVE  IInv'
<1>1. /\ x \in Requests /\ x \notin Creators /\ TargetOf[x] \in Creators /\ TypeOK
      /\ {"not_found", "invalid_state"} \subseteq Codes
  BY Kinds DEF IInv, Codes
<1>2. CASE ReadPayment(x)
  <2>1. pc[x] = "begin" /\ UNCHANGED <<payment, keyRow, events, faults>> /\ faults' \in Nat
    BY <1>1, <1>2 DEF ReadPayment, TypeOK
  <2>2. CASE Finish(x, "not_found", {}) \/ Finish(x, "invalid_state", {})
    BY <1>1, <2>1, <2>2, EndsWithoutTrace
  <2>3. CASE /\ payment[TargetOf[x]] = "PENDING" /\ GoTo(x, "update")
             /\ UNCHANGED <<answer, keyLock, rowLock>>
    <3>1. /\ keyLock' \in [Keys -> {{}} \cup {{d} : d \in Creators}]
          /\ rowLock' \in [Creators -> SUBSET Cancellers]
      BY <1>1, <2>3 DEF TypeOK
    <3> QED
      BY <1>1, <2>1, <2>3, <3>1, GoesOn
  <2>4. payment[TargetOf[x]] \in {"none", "PENDING", "SUCCEEDED", "CANCELLED"}
    BY <1>1 DEF TypeOK
  <2> QED
    BY <1>2, <2>2, <2>3, <2>4 DEF ReadPayment
<1>3. CASE UpdatePayment(x)
  <2>1. /\ GoTo(x, "commit") /\ pc[x] = "update"
        /\ rowLock' = [rowLock EXCEPT ![TargetOf[x]] = {x}]
        /\ UNCHANGED <<payment, keyRow, events, answer, keyLock, faults>>
    BY <1>3 DEF UpdatePayment
  <2>2. /\ keyLock' \in [Keys -> {{}} \cup {{d} : d \in Creators}]
        /\ rowLock' \in [Creators -> SUBSET Cancellers]
    BY <1>1, <2>1 DEF TypeOK
  <2>3. payment[TargetOf[x]] \in {"PENDING", "CANCELLED"}
    BY <2>1 DEF IInv, CancelsOK
  <2> QED
    BY <1>1, <2>1, <2>2, <2>3, GoesOn
<1> QED
  BY <1>2, <1>3

\* The commit of CancelPayment, whether or not the client hears of it.
LEMMA CancelCommittedKeeps ==
  ASSUME IInv, NEW x \in Cancellers, NEW code \in {"cancelled", "error"},
         CancelCommitted(x, code), faults' \in Nat
  PROVE  /\ IInv'
         /\ payment[TargetOf[x]] \in {"PENDING", "CANCELLED"}
         /\ payment' = [payment EXCEPT ![TargetOf[x]] = "CANCELLED"]
<1> USE DEF IInv
<1> DEFINE p == TargetOf[x]
<1>1. /\ x \in Requests /\ x \notin Creators /\ p \in Creators
      /\ code \in Codes /\ {p} \in SUBSET Creators
  BY Kinds DEF Codes
<1>2. /\ pc[x] = "commit" /\ payment' = [payment EXCEPT ![p] = "CANCELLED"]
      /\ events' = [events EXCEPT ![p].cancelled = @ + 1]
      /\ Finish(x, code, {p}) /\ keyRow' = keyRow
  BY DEF CancelCommitted
<1> HIDE DEF p
<1>3. /\ pc' \in [Requests -> {"begin", "insert", "existing", "update", "commit", "done"}]
      /\ pc'[x] = "done" /\ \A q \in Requests : q # x => pc'[q] = pc[q]
      /\ answer' \in [Requests -> [code : Codes, payment : SUBSET Creators]]
      /\ \A q \in Requests : q # x => answer'[q] = answer[q]
      /\ keyLock' \in [Keys -> {{}} \cup {{d} : d \in Creators}]
      /\ \A k \in Keys, d \in Creators : d # x /\ keyLock[k] = {d} => keyLock'[k] = {d}
      /\ rowLock' \in [Creators -> SUBSET Cancellers]
  BY <1>1, <1>2, FinishFacts
<1>4. payment[p] \in {"PENDING", "CANCELLED"}
  BY <1>2 DEF CancelsOK, p
<1>5. /\ payment' \in [Creators -> {"none", "PENDING", "SUCCEEDED", "CANCELLED"}]
      /\ payment'[p] = "CANCELLED" /\ \A d \in Creators : d # p => payment'[d] = payment[d]
  BY <1>1, <1>2 DEF TypeOK
<1>6. /\ events' \in [Creators -> [created : Nat, cancelled : Nat]]
      /\ events'[p].created = events[p].created
      /\ events'[p].cancelled = events[p].cancelled + 1
      /\ \A d \in Creators : d # p => events'[d] = events[d]
  BY <1>1, <1>2 DEF TypeOK
<1>7. TypeOK'
  BY <1>2, <1>3, <1>5, <1>6 DEF TypeOK, Codes
<1>8. \A c \in Creators : pc'[c] = pc[c] /\ answer'[c] = answer[c] /\ KeyOf[c] \subseteq Keys
  BY <1>1, <1>3, Kinds
<1>9. KeysHeld'
  BY <1>1, <1>2, <1>3, <1>8 DEF KeysHeld
<1>10. RowsNamed'
  BY <1>2, <1>5 DEF RowsNamed, TypeOK
<1>11. PaymentsKeyed'
  BY <1>2, <1>4, <1>5, <1>8 DEF PaymentsKeyed
<1>12. AnswersOK'
  BY <1>2, <1>8 DEF AnswersOK, AnswerOK
<1>13. CancelsOK'
  BY <1>3, <1>5, Kinds DEF CancelsOK
<1>14. EventsMatchPayments'
  BY <1>1, <1>4, <1>5, <1>6 DEF EventsMatchPayments, TypeOK
<1> QED
  BY <1>2, <1>4, <1>7, <1>9, <1>10, <1>11, <1>12, <1>13, <1>14 DEF p

\* What one step does to the invariant and to the payments.
LEMMA PaymentStep ==
  ASSUME IInv, [Next]_vars
  PROVE  /\ IInv'
         /\ \/ payment' = payment
            \/ \E c \in Creators : /\ payment[c] = "none"
                                   /\ payment' = [payment EXCEPT ![c] = StatusOf[c]]
            \/ \E c \in Creators : /\ payment[c] \in {"PENDING", "CANCELLED"}
                                   /\ payment' = [payment EXCEPT ![c] = "CANCELLED"]
<1>1. faults \in Nat /\ faults + 1 \in Nat
  BY DEF IInv, TypeOK
<1>2. ASSUME NEW c \in Creators, CommitCreate(c)
      PROVE  /\ IInv'
             /\ payment[c] = "none" /\ payment' = [payment EXCEPT ![c] = StatusOf[c]]
  BY <1>1, <1>2, CreateCommittedKeeps DEF CommitCreate
<1>3. ASSUME NEW c \in Creators, Create(c), ~CommitCreate(c) PROVE IInv' /\ payment' = payment
  <2>1. InsertKey(c) \/ KeyTaken(c) \/ AnswerExisting(c) \/ InsertPayment(c)
    BY <1>3 DEF Create
  <2> QED
    BY <2>1, CreateKeeps DEF InsertKey, KeyTaken, AnswerExisting, InsertPayment
<1>4. ASSUME NEW x \in Cancellers, CommitCancel(x)
      PROVE  /\ IInv' /\ TargetOf[x] \in Creators
             /\ payment[TargetOf[x]] \in {"PENDING", "CANCELLED"}
             /\ payment' = [payment EXCEPT ![TargetOf[x]] = "CANCELLED"]
  BY <1>1, <1>4, CancelCommittedKeeps, Kinds DEF CommitCancel
<1>5. ASSUME NEW x \in Cancellers, Cancel(x), ~CommitCancel(x) PROVE IInv' /\ payment' = payment
  <2>1. ReadPayment(x) \/ UpdatePayment(x)
    BY <1>5 DEF Cancel
  <2> QED
    BY <2>1, CancelKeeps DEF ReadPayment, UpdatePayment
<1>6. ASSUME NEW r \in Creators, CommitUnacknowledged(r)
      PROVE  /\ IInv'
             /\ payment[r] = "none" /\ payment' = [payment EXCEPT ![r] = StatusOf[r]]
  <2>1. CreateCommitted(r, "error", {}) /\ faults' \in Nat
    BY <1>1, <1>6, Kinds DEF CommitUnacknowledged
  <2> QED
    BY <2>1, CreateCommittedKeeps
<1>7. ASSUME NEW r \in Cancellers, CommitUnacknowledged(r)
      PROVE  /\ IInv' /\ TargetOf[r] \in Creators
             /\ payment[TargetOf[r]] \in {"PENDING", "CANCELLED"}
             /\ payment' = [payment EXCEPT ![TargetOf[r]] = "CANCELLED"]
  <2>1. CancelCommitted(r, "error") /\ faults' \in Nat
    BY <1>1, <1>7, Kinds DEF CommitUnacknowledged
  <2> QED
    BY <2>1, CancelCommittedKeeps, Kinds
<1>8. ASSUME NEW r \in Requests, Rollback(r) PROVE IInv' /\ payment' = payment
  <2>1. /\ Finish(r, "error", {}) /\ faults' \in Nat /\ "error" \in Codes
        /\ UNCHANGED <<payment, keyRow, events>>
    BY <1>1, <1>8 DEF Rollback, Codes
  <2>2. AnswerOK(r, "error", {})
    BY DEF AnswerOK
  <2> QED
    BY <2>1, <2>2, EndsWithoutTrace
<1>9. ASSUME UNCHANGED vars PROVE IInv' /\ payment' = payment
  <2>1. UNCHANGED <<payment, keyRow, events, pc, answer, keyLock, rowLock, faults>>
    BY <1>9 DEF vars
  <2>2. TypeOK' /\ KeysHeld' /\ RowsNamed' /\ PaymentsKeyed'
    BY <2>1 DEF IInv, TypeOK, KeysHeld, RowsNamed, PaymentsKeyed
  <2>3. AnswersOK' /\ CancelsOK' /\ EventsMatchPayments'
    BY <2>1 DEF IInv, AnswersOK, AnswerOK, CancelsOK, EventsMatchPayments
  <2> QED
    BY <2>1, <2>2, <2>3 DEF IInv
<1> QED
  BY <1>2, <1>3, <1>4, <1>5, <1>6, <1>7, <1>8, <1>9 DEF Next, Requests, AllDone

--------------------------------------------------------------------------------
\* Payments: the theorems

\* The inductive invariant holds, whatever interleaves, fails or is lost.
THEOREM PaymentsInvariance == Spec => []IInv
<1>1. IInv /\ [Next]_vars => IInv'
  BY PaymentStep
<1> QED
  BY <1>1, InitOK, PTL DEF Spec

\* Every variable keeps its type.
THEOREM PaymentsTypeCorrect == Spec => []TypeOK
<1>1. IInv => TypeOK
  BY DEF IInv
<1> QED
  BY <1>1, PaymentsInvariance, PTL

\* However many requests come with a key, at the same time or after a lost answer,
\* they make one payment, and whoever is told of it asked for it.
THEOREM KeysAreUsedOnce == Spec => []OnePaymentPerKey
<1>1. IInv => OnePaymentPerKey
  <2> SUFFICES ASSUME IInv PROVE OnePaymentPerKey
    OBVIOUS
  <2>1. ASSUME NEW k \in Keys
        PROVE  Cardinality({c \in Creators : k \in KeyOf[c] /\ payment[c] # "none"}) <= 1
    <3> DEFINE made == {c \in Creators : k \in KeyOf[c] /\ payment[c] # "none"}
    <3>1. made \in SUBSET keyRow[k]
      BY DEF IInv, PaymentsKeyed
    <3>2. keyRow[k] = {} \/ \E d \in Creators : keyRow[k] = {d}
      BY DEF IInv, TypeOK
    <3>3. IsFiniteSet(keyRow[k]) /\ Cardinality(keyRow[k]) <= 1
      <4>1. CASE keyRow[k] = {}
        BY <4>1, FS_EmptySet
      <4>2. ASSUME NEW d \in Creators, keyRow[k] = {d}
            PROVE  IsFiniteSet(keyRow[k]) /\ Cardinality(keyRow[k]) <= 1
        <5>1. IsFiniteSet({d}) /\ Cardinality({d}) = 1
          BY FS_Singleton
        <5> QED
          BY <4>2, <5>1
      <4> QED
        BY <3>2, <4>1, <4>2
    <3>4. /\ IsFiniteSet(made) /\ Cardinality(made) <= Cardinality(keyRow[k])
          /\ Cardinality(made) \in Nat /\ Cardinality(keyRow[k]) \in Nat
      BY <3>1, <3>3, FS_Subset, FS_CardinalityType
    <3> QED
      BY <3>3, <3>4
  <2>2. ASSUME NEW c \in Creators, NEW d \in Creators,
               KeyOf[c] # {}, KeyOf[c] = KeyOf[d],
               answer[c].payment # {}, answer[d].payment # {}
        PROVE  answer[c].payment = answer[d].payment /\ HashOf[c] = HashOf[d]
    <3>1. PICK k \in KeyOf[c] : TRUE
      BY <2>2
    <3>2. PICK e \in answer[c].payment : TRUE
      BY <2>2
    <3>3. PICK f \in answer[d].payment : TRUE
      BY <2>2
    <3>4. answer[c].payment = {e} /\ keyRow[k] = {e} /\ HashOf[e] = HashOf[c]
      BY <3>1, <3>2 DEF IInv, AnswersOK, AnswerOK
    <3>5. answer[d].payment = {f} /\ keyRow[k] = {f} /\ HashOf[f] = HashOf[d]
      BY <2>2, <3>1, <3>3 DEF IInv, AnswersOK, AnswerOK
    <3> QED
      BY <3>4, <3>5
  <2>3. \A c \in Creators : answer[c].code # "not_found"
    BY DEF IInv, AnswersOK, AnswerOK
  <2> QED
    BY <2>1, <2>2, <2>3 DEF OnePaymentPerKey
<1> QED
  BY <1>1, PaymentsInvariance, PTL

\* Payments and outbox events agree, wherever a transaction breaks off.
THEOREM EventsAreTransactional == Spec => []EventsMatchPayments
<1>1. IInv => EventsMatchPayments
  BY DEF IInv
<1> QED
  BY <1>1, PaymentsInvariance, PTL

\* No request cancels a payment that succeeded or revives one that was cancelled,
\* though CancelPayment updates the row without looking at its status again.
THEOREM PaymentsStaySettled == Spec => SettledStays
<1>1. IInv /\ [Next]_vars =>
        [\A c \in Creators :
           payment[c] \in {"SUCCEEDED", "CANCELLED"} => payment'[c] = payment[c]]_vars
  <2> SUFFICES ASSUME IInv, [Next]_vars, NEW c \in Creators,
                      payment[c] \in {"SUCCEEDED", "CANCELLED"}
               PROVE  payment'[c] = payment[c]
    OBVIOUS
  <2> QED
    BY PaymentStep DEF IInv, TypeOK
<1> QED
  BY <1>1, PaymentsInvariance, PTL DEF Spec, SettledStays

--------------------------------------------------------------------------------
\* Subscriptions: the inductive invariant

CONSTANTS Subs, BornOff, Clients
VARIABLES active, lock, stage, told, log

Sub == INSTANCE Subscriptions WITH pc <- stage

\* Whoever holds a row is about to commit, and whoever is about to commit holds its
\* row alone.
LocksOK ==
  /\ \A s \in Subs : \A r \in lock[s] : Sub!SubOf[r] = s /\ stage[r] = "commit"
  /\ \A r \in Sub!Requests : stage[r] = "commit" => r \in lock[Sub!SubOf[r]]

\* A row exists from the commit of its creator on, and nobody updates one that does
\* not exist.
RowsOK ==
  /\ \A c \in Sub!Creators : stage[c] \in {"begin", "commit"} => active[Sub!SubOf[c]] = "none"
  /\ \A p \in Sub!Patchers : stage[p] \in {"update", "commit", "reply", "lost"} =>
                           active[Sub!SubOf[p]] # "none"

\* The value of a row is what the last request that took effect on it asked for.
LastDecides(s) ==
  active[s] # "none" =>
    \E j \in 1..Len(log) :
      /\ Sub!SubOf[log[j]] = s /\ Sub!WantedOf[log[j]] = active[s]
      /\ \A m \in 1..Len(log) : m > j => Sub!SubOf[log[m]] # s

Explained(p) ==
  told[p] \in {"on", "off"} /\ told[p] # Sub!WantedOf[p] =>
    \E i, j \in 1..Len(log) :
      /\ i < j /\ log[i] = p
      /\ Sub!SubOf[log[j]] = Sub!SubOf[p] /\ Sub!WantedOf[log[j]] = told[p]

LogOK ==
  /\ \A s \in Subs : LastDecides(s)
  /\ \A r \in Sub!Requests : stage[r] = "reply" => \E i \in 1..Len(log) : log[i] = r
  /\ \A r \in Sub!Requests : stage[r] # "done" => told[r] = "none"
  /\ \A p \in Sub!Patchers : Explained(p)

SubInv == Sub!TypeOK /\ LocksOK /\ RowsOK /\ LogOK

--------------------------------------------------------------------------------
\* Subscriptions: the steps

\* What the requests are: one creator per subscription, all others patch.
LEMMA RequestFacts ==
  /\ Sub!Creators \cap Sub!Patchers = {}
  /\ Sub!SubOf \in [Sub!Requests -> Subs]
  /\ \A c, d \in Sub!Creators : Sub!SubOf[c] = Sub!SubOf[d] => c = d
  /\ Sub!WantedOf \in [Sub!Requests -> {"on", "off"}]
<1>1. Sub!Creators \cap Sub!Patchers = {}
  BY DEF Sub!Creators, Sub!Patchers
<1>2. Sub!SubOf \in [Sub!Requests -> Subs]
  BY DEF Sub!SubOf, Sub!Requests, Sub!Creators, Sub!Patchers
<1>3. ASSUME NEW c \in Sub!Creators, NEW d \in Sub!Creators, Sub!SubOf[c] = Sub!SubOf[d] PROVE c = d
  BY <1>3 DEF Sub!SubOf, Sub!Requests, Sub!Creators
<1>4. Sub!WantedOf \in [Sub!Requests -> {"on", "off"}]
  BY DEF Sub!WantedOf, Sub!Requests, Sub!Creators, Sub!Patchers
<1> QED
  BY <1>1, <1>2, <1>3, <1>4

LEMMA RequestTypes ==
  ASSUME NEW r \in Sub!Requests
  PROVE  Sub!SubOf[r] \in Subs /\ Sub!WantedOf[r] \in {"on", "off"}
  BY RequestFacts

LEMMA SubInit == Sub!Init => SubInv
<1> SUFFICES ASSUME Sub!Init PROVE SubInv
  OBVIOUS
<1>1. Sub!TypeOK
  BY RequestFacts DEF Sub!Init, Sub!TypeOK, Sub!Steps
<1>2. LocksOK
  BY DEF Sub!Init, LocksOK
<1>3. RowsOK
  BY RequestFacts DEF Sub!Init, RowsOK, Sub!Requests
<1>4. LogOK
  BY DEF Sub!Init, LogOK, LastDecides, Explained, Sub!Requests
<1> QED
  BY <1>1, <1>2, <1>3, <1>4 DEF SubInv

\* Moving one request.
LEMMA MoveFacts ==
  ASSUME SubInv, NEW r \in Sub!Requests, NEW x \in Sub!Steps, Sub!GoTo(r, x)
  PROVE  /\ stage' \in [Sub!Requests -> Sub!Steps]
         /\ stage'[r] = x /\ \A s \in Sub!Requests : s # r => stage'[s] = stage[s]
  BY DEF SubInv, Sub!TypeOK, Sub!GoTo

LEMMA TellFacts ==
  ASSUME SubInv, NEW r \in Sub!Requests, NEW w \in {"none", "on", "off", "missing", "error"},
         Sub!Tell(r, w)
  PROVE  /\ told' \in [Sub!Requests -> {"none", "on", "off", "missing", "error"}]
         /\ told'[r] = w /\ \A s \in Sub!Requests : s # r => told'[s] = told[s]
         /\ stage' \in [Sub!Requests -> Sub!Steps]
         /\ stage'[r] = "done" /\ \A s \in Sub!Requests : s # r => stage'[s] = stage[s]
  BY DEF SubInv, Sub!TypeOK, Sub!Tell, Sub!GoTo, Sub!Steps

LEMMA ReleaseFacts ==
  ASSUME SubInv, NEW r \in Sub!Requests, Sub!Release(r)
  PROVE  /\ lock' \in [Subs -> {{}} \cup {{q} : q \in Sub!Requests}]
         /\ \A s \in Subs : lock'[s] \subseteq lock[s] /\ r \notin lock'[s]
         /\ \A s \in Subs : \A q \in lock[s] : q # r => q \in lock'[s]
<1>1. /\ lock \in [Subs -> {{}} \cup {{q} : q \in Sub!Requests}]
      /\ lock' = [s \in Subs |-> lock[s] \ {r}]
  BY DEF SubInv, Sub!TypeOK, Sub!Release
<1>2. lock' \in [Subs -> {{}} \cup {{q} : q \in Sub!Requests}]
  <2> SUFFICES ASSUME NEW s \in Subs PROVE lock[s] \ {r} \in {{}} \cup {{q} : q \in Sub!Requests}
    BY <1>1
  <2>1. lock[s] \in {{}} \cup {{q} : q \in Sub!Requests}
    BY <1>1
  <2>2. lock[s] \ {r} \in {{}, lock[s]}
    BY <2>1
  <2> QED
    BY <2>1, <2>2
<1> QED
  BY <1>1, <1>2

\* Taking the free row of one's subscription.
LEMMA TakeFacts ==
  ASSUME SubInv, NEW r \in Sub!Requests, lock[Sub!SubOf[r]] = {},
         lock' = [lock EXCEPT ![Sub!SubOf[r]] = {r}], Sub!GoTo(r, "commit")
  PROVE  lock' \in [Subs -> {{}} \cup {{q} : q \in Sub!Requests}] /\ LocksOK'
<1>1. /\ lock \in [Subs -> {{}} \cup {{q} : q \in Sub!Requests}]
      /\ Sub!SubOf[r] \in Subs
  BY RequestTypes DEF SubInv, Sub!TypeOK
<1>2. /\ lock'[Sub!SubOf[r]] = {r} /\ \A s \in Subs : s # Sub!SubOf[r] => lock'[s] = lock[s]
      /\ lock' \in [Subs -> {{}} \cup {{q} : q \in Sub!Requests}]
  BY <1>1
<1>3. stage'[r] = "commit" /\ \A s \in Sub!Requests : s # r => stage'[s] = stage[s]
  BY MoveFacts DEF Sub!Steps
<1>4. ASSUME NEW s \in Subs, NEW q \in lock'[s] PROVE Sub!SubOf[q] = s /\ stage'[q] = "commit"
  <2>1. CASE s = Sub!SubOf[r]
    BY <1>2, <1>3, <1>4, <2>1
  <2>2. CASE s # Sub!SubOf[r]
    BY <1>1, <1>2, <1>3, <1>4, <2>2 DEF SubInv, LocksOK
  <2> QED
    BY <2>1, <2>2
<1>5. ASSUME NEW q \in Sub!Requests, stage'[q] = "commit" PROVE q \in lock'[Sub!SubOf[q]]
  <2>1. Sub!SubOf[q] \in Subs
    BY RequestTypes
  <2> QED
    BY <1>1, <1>2, <1>3, <1>5, <2>1 DEF SubInv, LocksOK
<1> QED
  BY <1>2, <1>4, <1>5 DEF LocksOK

\* The log while nobody takes effect.
LEMMA SameLog ==
  ASSUME SubInv, active' = active, log' = log,
         \A r \in Sub!Requests : stage'[r] = "reply" => stage[r] = "reply",
         \A r \in Sub!Requests : stage'[r] # "done" => stage[r] # "done" /\ told'[r] = told[r],
         \A p \in Sub!Patchers : Explained(p)'
  PROVE  LogOK'
  BY DEF SubInv, LogOK, LastDecides

\* The log when a request takes effect.
LEMMA TakesEffect ==
  ASSUME SubInv, NEW r \in Sub!Requests, NEW x \in {"reply", "lost"},
         stage[r] # "done", Sub!GoTo(r, x),
         active' = [active EXCEPT ![Sub!SubOf[r]] = Sub!WantedOf[r]],
         log' = Append(log, r), told' = told
  PROVE  /\ LogOK' /\ log' \in Seq(Sub!Requests)
         /\ active' \in [Subs -> {"on", "off", "none"}]
<1>1. /\ log \in Seq(Sub!Requests) /\ active \in [Subs -> {"on", "off", "none"}]
      /\ Sub!SubOf[r] \in Subs /\ Sub!WantedOf[r] \in {"on", "off"} /\ Len(log) \in Nat
  BY RequestTypes DEF SubInv, Sub!TypeOK
<1>2. /\ log' \in Seq(Sub!Requests) /\ Len(log') = Len(log) + 1
      /\ log'[Len(log) + 1] = r /\ \A k \in 1..Len(log) : log'[k] = log[k]
  BY <1>1
<1>3. /\ active' \in [Subs -> {"on", "off", "none"}]
      /\ active'[Sub!SubOf[r]] = Sub!WantedOf[r]
      /\ \A s \in Subs : s # Sub!SubOf[r] => active'[s] = active[s]
  BY <1>1
<1>4. stage'[r] = x /\ \A q \in Sub!Requests : q # r => stage'[q] = stage[q]
  BY MoveFacts DEF Sub!Steps
<1>5. ASSUME NEW s \in Subs PROVE LastDecides(s)'
  <2>1. CASE s = Sub!SubOf[r]
    <3>1. Len(log) + 1 \in 1..Len(log') /\ \A m \in 1..Len(log') : ~(m > Len(log) + 1)
      BY <1>1, <1>2
    <3> QED
      BY <1>2, <1>3, <2>1, <3>1 DEF LastDecides
  <2>2. CASE s # Sub!SubOf[r] /\ active[s] # "none"
    <3>1. PICK j \in 1..Len(log) :
            /\ Sub!SubOf[log[j]] = s /\ Sub!WantedOf[log[j]] = active[s]
            /\ \A m \in 1..Len(log) : m > j => Sub!SubOf[log[m]] # s
      BY <2>2 DEF SubInv, LogOK, LastDecides
    <3>2. j \in 1..Len(log') /\ log'[j] = log[j]
      BY <1>1, <1>2
    <3>3. ASSUME NEW m \in 1..Len(log'), m > j PROVE Sub!SubOf[log'[m]] # s
      <4>1. CASE m = Len(log) + 1
        BY <1>2, <2>2, <4>1
      <4>2. CASE m # Len(log) + 1
        <5>1. m \in 1..Len(log) /\ log'[m] = log[m]
          BY <1>1, <1>2, <4>2
        <5> QED
          BY <3>1, <3>3, <5>1
      <4> QED
        BY <4>1, <4>2
    <3> QED
      BY <1>3, <2>2, <3>1, <3>2, <3>3 DEF LastDecides
  <2>3. CASE s # Sub!SubOf[r] /\ active[s] = "none"
    BY <1>3, <2>3 DEF LastDecides
  <2> QED
    BY <2>1, <2>2, <2>3
<1>6. ASSUME NEW q \in Sub!Requests, stage'[q] = "reply" PROVE \E i \in 1..Len(log') : log'[i] = q
  <2>1. CASE q = r
    BY <1>1, <1>2, <2>1
  <2>2. CASE q # r
    <3>1. PICK i \in 1..Len(log) : log[i] = q
      BY <1>4, <1>6, <2>2 DEF SubInv, LogOK
    <3> QED
      BY <1>1, <1>2, <3>1
  <2> QED
    BY <2>1, <2>2
<1>7. ASSUME NEW q \in Sub!Requests, stage'[q] # "done" PROVE told'[q] = "none"
  BY <1>4, <1>7 DEF SubInv, LogOK
<1>8. ASSUME NEW p \in Sub!Patchers PROVE Explained(p)'
  <2> SUFFICES ASSUME told[p] \in {"on", "off"}, told[p] # Sub!WantedOf[p]
               PROVE  \E i, j \in 1..Len(log') :
                        /\ i < j /\ log'[i] = p
                        /\ Sub!SubOf[log'[j]] = Sub!SubOf[p] /\ Sub!WantedOf[log'[j]] = told[p]
    BY DEF Explained
  <2>1. PICK i, j \in 1..Len(log) :
          /\ i < j /\ log[i] = p
          /\ Sub!SubOf[log[j]] = Sub!SubOf[p] /\ Sub!WantedOf[log[j]] = told[p]
    BY DEF SubInv, LogOK, Explained
  <2>2. i \in 1..Len(log') /\ j \in 1..Len(log') /\ log'[i] = log[i] /\ log'[j] = log[j]
    BY <1>1, <1>2
  <2> QED
    BY <2>1, <2>2
<1> QED
  BY <1>2, <1>3, <1>5, <1>6, <1>7, <1>8 DEF LogOK

LEMMA InsertKeeps ==
  ASSUME SubInv, NEW c \in Sub!Creators, Sub!Insert(c)
  PROVE  SubInv'
<1>1. c \in Sub!Requests /\ c \notin Sub!Patchers /\ Sub!SubOf[c] \in Subs
  BY RequestTypes, RequestFacts DEF Sub!Requests
<1>2. stage[c] = "begin" /\ UNCHANGED <<active, told, log>> /\ Sub!GoTo(c, "commit")
  BY DEF Sub!Insert
<1>3. lock[Sub!SubOf[c]] = {}
  <2> SUFFICES ASSUME NEW q \in lock[Sub!SubOf[c]] PROVE FALSE
    OBVIOUS
  <2>1. q \in Sub!Requests /\ Sub!SubOf[q] = Sub!SubOf[c] /\ stage[q] = "commit"
    BY <1>1 DEF SubInv, Sub!TypeOK, LocksOK
  <2>2. CASE q \in Sub!Creators
    BY <1>2, <2>1, <2>2, RequestFacts
  <2>3. CASE q \in Sub!Patchers
    BY <1>2, <2>1, <2>3 DEF SubInv, RowsOK
  <2> QED
    BY <2>1, <2>2, <2>3 DEF Sub!Requests
<1>4. lock' \in [Subs -> {{}} \cup {{q} : q \in Sub!Requests}] /\ LocksOK'
  BY <1>1, <1>2, <1>3, TakeFacts DEF Sub!Insert
<1>5. /\ stage' \in [Sub!Requests -> Sub!Steps]
      /\ stage'[c] = "commit" /\ \A s \in Sub!Requests : s # c => stage'[s] = stage[s]
  BY <1>1, <1>2, MoveFacts DEF Sub!Steps
<1>6. Sub!TypeOK'
  BY <1>2, <1>4, <1>5 DEF SubInv, Sub!TypeOK
<1>7. RowsOK'
  BY <1>1, <1>2, <1>5 DEF SubInv, RowsOK, Sub!Requests
<1>8. \A p \in Sub!Patchers : Explained(p)'
  BY <1>2 DEF SubInv, LogOK, Explained
<1>9. LogOK'
  BY <1>2, <1>5, <1>8, SameLog
<1> QED
  BY <1>4, <1>6, <1>7, <1>9 DEF SubInv

LEMMA ReadOtherKeeps == ASSUME SubInv, NEW p \in Sub!Patchers, Sub!ReadOther(p) PROVE SubInv'
<1>1. p \in Sub!Requests /\ p \notin Sub!Creators
  BY RequestFacts DEF Sub!Requests
<1>2. /\ stage[p] = "begin" /\ active[Sub!SubOf[p]] # "none"
      /\ UNCHANGED <<active, lock, told, log>> /\ Sub!GoTo(p, "update")
  BY DEF Sub!ReadOther
<1>3. /\ stage' \in [Sub!Requests -> Sub!Steps]
      /\ stage'[p] = "update" /\ \A s \in Sub!Requests : s # p => stage'[s] = stage[s]
  BY <1>1, <1>2, MoveFacts DEF Sub!Steps
<1>4. Sub!TypeOK'
  BY <1>2, <1>3 DEF SubInv, Sub!TypeOK
<1>5. LocksOK'
  <2>1. \A s \in Subs : lock[s] \subseteq Sub!Requests
    BY DEF SubInv, Sub!TypeOK
  <2> QED
    BY <1>2, <1>3, <2>1 DEF SubInv, LocksOK
<1>6. RowsOK'
  BY <1>1, <1>2, <1>3 DEF SubInv, RowsOK, Sub!Requests
<1>7. \A q \in Sub!Patchers : Explained(q)'
  BY <1>2 DEF SubInv, LogOK, Explained
<1>8. LogOK'
  BY <1>2, <1>3, <1>7, SameLog
<1> QED
  BY <1>4, <1>5, <1>6, <1>8 DEF SubInv

LEMMA UpdateKeeps == ASSUME SubInv, NEW p \in Sub!Patchers, Sub!Update(p) PROVE SubInv'
<1>1. p \in Sub!Requests /\ p \notin Sub!Creators
  BY RequestFacts DEF Sub!Requests
<1>2. /\ stage[p] = "update" /\ lock[Sub!SubOf[p]] = {}
      /\ UNCHANGED <<active, told, log>> /\ Sub!GoTo(p, "commit")
  BY DEF Sub!Update
<1>3. /\ stage' \in [Sub!Requests -> Sub!Steps]
      /\ stage'[p] = "commit" /\ \A s \in Sub!Requests : s # p => stage'[s] = stage[s]
  BY <1>1, <1>2, MoveFacts DEF Sub!Steps
<1>4. lock' \in [Subs -> {{}} \cup {{q} : q \in Sub!Requests}] /\ LocksOK'
  BY <1>1, <1>2, TakeFacts DEF Sub!Update
<1>5. Sub!TypeOK'
  BY <1>2, <1>3, <1>4 DEF SubInv, Sub!TypeOK
<1>6. RowsOK'
  BY <1>1, <1>2, <1>3 DEF SubInv, RowsOK, Sub!Requests
<1>7. \A q \in Sub!Patchers : Explained(q)'
  BY <1>2 DEF SubInv, LogOK, Explained
<1>8. LogOK'
  BY <1>2, <1>3, <1>7, SameLog
<1> QED
  BY <1>4, <1>5, <1>6, <1>8 DEF SubInv

LEMMA ReadSameKeeps == ASSUME SubInv, NEW p \in Sub!Patchers, Sub!ReadSame(p) PROVE SubInv'
<1>1. /\ p \in Sub!Requests /\ p \notin Sub!Creators
      /\ Sub!SubOf[p] \in Subs /\ Sub!WantedOf[p] \in {"on", "off"}
  BY RequestFacts DEF Sub!Requests
<1>2. /\ stage[p] = "begin" /\ active[Sub!SubOf[p]] = Sub!WantedOf[p] /\ Sub!GoTo(p, "reply")
      /\ log' = Append(log, p) /\ UNCHANGED <<active, lock, told>>
  BY DEF Sub!ReadSame
<1>3. active' = [active EXCEPT ![Sub!SubOf[p]] = Sub!WantedOf[p]]
  BY <1>1, <1>2 DEF SubInv, Sub!TypeOK
<1>4. LogOK' /\ log' \in Seq(Sub!Requests)
  BY <1>1, <1>2, <1>3, TakesEffect
<1>5. /\ stage' \in [Sub!Requests -> Sub!Steps]
      /\ stage'[p] = "reply" /\ \A s \in Sub!Requests : s # p => stage'[s] = stage[s]
  BY <1>1, <1>2, MoveFacts DEF Sub!Steps
<1>6. Sub!TypeOK'
  BY <1>2, <1>4, <1>5 DEF SubInv, Sub!TypeOK
<1>7. LocksOK'
  <2>1. \A s \in Subs : lock[s] \subseteq Sub!Requests
    BY DEF SubInv, Sub!TypeOK
  <2> QED
    BY <1>2, <1>5, <2>1 DEF SubInv, LocksOK
<1>8. RowsOK'
  BY <1>1, <1>2, <1>5 DEF SubInv, RowsOK, Sub!Requests
<1> QED
  BY <1>4, <1>6, <1>7, <1>8 DEF SubInv

LEMMA CommittedKeeps ==
  ASSUME SubInv, NEW r \in Sub!Requests, NEW x \in {"reply", "lost"},
         Sub!Committed(r), Sub!GoTo(r, x)
  PROVE  SubInv'
<1>1. /\ Sub!SubOf[r] \in Subs /\ Sub!WantedOf[r] \in {"on", "off"}
      /\ active \in [Subs -> {"on", "off", "none"}]
  BY RequestTypes DEF SubInv, Sub!TypeOK
<1>2. /\ stage[r] = "commit" /\ active' = [active EXCEPT ![Sub!SubOf[r]] = Sub!WantedOf[r]]
      /\ log' = Append(log, r) /\ Sub!Release(r) /\ told' = told
  BY DEF Sub!Committed
<1>3. LogOK' /\ log' \in Seq(Sub!Requests) /\ active' \in [Subs -> {"on", "off", "none"}]
  BY <1>2, TakesEffect
<1>4. /\ stage' \in [Sub!Requests -> Sub!Steps]
      /\ stage'[r] = x /\ \A s \in Sub!Requests : s # r => stage'[s] = stage[s]
  BY MoveFacts DEF Sub!Steps
<1>5. /\ lock' \in [Subs -> {{}} \cup {{q} : q \in Sub!Requests}]
      /\ \A s \in Subs : lock'[s] \subseteq lock[s] /\ r \notin lock'[s]
      /\ \A s \in Subs : \A q \in lock[s] : q # r => q \in lock'[s]
  BY <1>2, ReleaseFacts
<1>6. Sub!TypeOK'
  BY <1>2, <1>3, <1>4, <1>5 DEF SubInv, Sub!TypeOK
<1>7. LocksOK'
  <2>1. \A s \in Subs : lock[s] \subseteq Sub!Requests
    BY DEF SubInv, Sub!TypeOK
  <2>2. \A q \in Sub!Requests : Sub!SubOf[q] \in Subs
    BY RequestTypes
  <2> QED
    BY <1>4, <1>5, <2>1, <2>2 DEF SubInv, LocksOK
<1>8. RowsOK'
  <2>1. active'[Sub!SubOf[r]] # "none" /\ \A s \in Subs : s # Sub!SubOf[r] => active'[s] = active[s]
    BY <1>1, <1>2
  <2>2. ASSUME NEW c \in Sub!Creators, stage'[c] \in {"begin", "commit"}
        PROVE  active'[Sub!SubOf[c]] = "none"
    <3>1. c \in Sub!Requests /\ c # r /\ stage'[c] = stage[c] /\ Sub!SubOf[c] \in Subs
      BY <1>4, <2>2, RequestTypes DEF Sub!Requests
    <3>2. active[Sub!SubOf[c]] = "none"
      BY <2>2, <3>1 DEF SubInv, RowsOK
    <3>3. Sub!SubOf[c] # Sub!SubOf[r]
      <4>1. CASE r \in Sub!Creators
        BY <3>1, <4>1, RequestFacts
      <4>2. CASE r \in Sub!Patchers
        BY <1>2, <3>2, <4>2 DEF SubInv, RowsOK
      <4> QED
        BY <4>1, <4>2 DEF Sub!Requests
    <3> QED
      BY <2>1, <3>1, <3>2, <3>3
  <2>3. ASSUME NEW p \in Sub!Patchers, stage'[p] \in {"update", "commit", "reply", "lost"}
        PROVE  active'[Sub!SubOf[p]] # "none"
    <3>1. p \in Sub!Requests /\ Sub!SubOf[p] \in Subs
      BY RequestTypes DEF Sub!Requests
    <3>2. CASE Sub!SubOf[p] = Sub!SubOf[r]
      BY <2>1, <3>2
    <3>3. CASE Sub!SubOf[p] # Sub!SubOf[r]
      BY <1>4, <2>1, <2>3, <3>1, <3>3 DEF SubInv, RowsOK
    <3> QED
      BY <3>2, <3>3
  <2> QED
    BY <2>2, <2>3 DEF RowsOK
<1> QED
  BY <1>3, <1>6, <1>7, <1>8 DEF SubInv

\* The answers: what a PATCH reads back is what the last effect on the row left.
LEMMA TellKeeps ==
  ASSUME SubInv, NEW r \in Sub!Requests, NEW w \in {"on", "off", "none", "missing", "error"},
         Sub!Tell(r, w), active' = active, log' = log,
         (lock' = lock /\ stage[r] # "commit") \/ Sub!Release(r),
         r \in Sub!Patchers /\ w \in {"on", "off"} => stage[r] = "reply" /\ w = active[Sub!SubOf[r]]
  PROVE  SubInv'
<1>1. /\ told' \in [Sub!Requests -> {"none", "on", "off", "missing", "error"}]
      /\ told'[r] = w /\ \A s \in Sub!Requests : s # r => told'[s] = told[s]
      /\ stage' \in [Sub!Requests -> Sub!Steps]
      /\ stage'[r] = "done" /\ \A s \in Sub!Requests : s # r => stage'[s] = stage[s]
  BY TellFacts
<1>2. /\ lock' \in [Subs -> {{}} \cup {{q} : q \in Sub!Requests}]
      /\ \A s \in Subs : lock'[s] \subseteq lock[s] /\ r \notin lock'[s]
      /\ \A s \in Subs : \A q \in lock[s] : q # r => q \in lock'[s]
  BY ReleaseFacts DEF SubInv, Sub!TypeOK, LocksOK
<1>3. Sub!TypeOK'
  BY <1>1, <1>2 DEF SubInv, Sub!TypeOK
<1>4. LocksOK'
  <2>1. \A s \in Subs : lock[s] \subseteq Sub!Requests
    BY DEF SubInv, Sub!TypeOK
  <2>2. \A q \in Sub!Requests : Sub!SubOf[q] \in Subs
    BY RequestTypes
  <2> QED
    BY <1>1, <1>2, <2>1, <2>2 DEF SubInv, LocksOK
<1>5. RowsOK'
  BY <1>1 DEF SubInv, RowsOK, Sub!Requests
<1>6. ASSUME NEW p \in Sub!Patchers PROVE Explained(p)'
  <2>1. p \in Sub!Requests /\ Sub!SubOf[p] \in Subs
    BY RequestTypes DEF Sub!Requests
  <2>2. CASE p # r
    BY <1>1, <2>1, <2>2 DEF SubInv, LogOK, Explained
  <2>3. CASE p = r /\ w \in {"on", "off"} /\ w # Sub!WantedOf[p]
    <3>1. stage[p] = "reply" /\ w = active[Sub!SubOf[p]]
      BY <2>3
    <3>2. PICK i \in 1..Len(log) : log[i] = p
      BY <2>1, <3>1 DEF SubInv, LogOK
    <3>3. PICK j \in 1..Len(log) :
            /\ Sub!SubOf[log[j]] = Sub!SubOf[p] /\ Sub!WantedOf[log[j]] = active[Sub!SubOf[p]]
            /\ \A m \in 1..Len(log) : m > j => Sub!SubOf[log[m]] # Sub!SubOf[p]
      BY <2>1, <2>3, <3>1 DEF SubInv, LogOK, LastDecides
    <3>4. i # j /\ ~(i > j)
      BY <2>3, <3>1, <3>2, <3>3
    <3>5. i < j
      BY <3>4
    <3> QED
      BY <1>1, <2>3, <3>1, <3>2, <3>3, <3>5 DEF Explained
  <2>4. CASE p = r /\ (w \notin {"on", "off"} \/ w = Sub!WantedOf[p])
    BY <1>1, <2>4 DEF Explained
  <2> QED
    BY <2>2, <2>3, <2>4
<1>7. LogOK'
  BY <1>1, <1>6, SameLog
<1> QED
  BY <1>3, <1>4, <1>5, <1>7 DEF SubInv

LEMMA SubStutter == ASSUME SubInv, UNCHANGED Sub!vars PROVE SubInv'
<1>1. UNCHANGED <<active, lock, stage, told, log>>
  BY DEF Sub!vars
<1>2. Sub!TypeOK' /\ LocksOK' /\ RowsOK'
  BY <1>1 DEF SubInv, Sub!TypeOK, LocksOK, RowsOK
<1>3. LogOK'
  BY <1>1 DEF SubInv, LogOK, LastDecides, Explained
<1> QED
  BY <1>2, <1>3 DEF SubInv

LEMMA PatchKeeps == ASSUME SubInv, NEW p \in Sub!Patchers, Sub!PatchStep(p) PROVE SubInv'
<1>1. CASE Sub!ReadNothing(p)
  <2>1. p \in Sub!Requests /\ stage[p] = "begin"
    BY <1>1 DEF Sub!Requests, Sub!ReadNothing
  <2> QED
    BY <1>1, <2>1, TellKeeps DEF Sub!ReadNothing
<1> QED
  BY <1>1, ReadSameKeeps, ReadOtherKeeps, UpdateKeeps DEF Sub!PatchStep

LEMMA EndKeeps ==
  ASSUME SubInv, NEW r \in Sub!Requests, Sub!EndStep(r) \/ Sub!FaultStep(r)
  PROVE  SubInv'
<1>2. CASE Sub!Commit(r) \/ Sub!CommitLost(r)
  BY <1>2, CommittedKeeps DEF Sub!Commit, Sub!CommitLost
<1>3. CASE Sub!Reply(r)
  <2> DEFINE w == IF r \in Sub!Creators THEN Sub!WantedOf[r] ELSE active[Sub!SubOf[r]]
  <2>1. w \in {"on", "off", "none", "missing", "error"}
    BY RequestTypes DEF SubInv, Sub!TypeOK
  <2>2. Sub!Tell(r, w) /\ stage[r] = "reply" /\ UNCHANGED <<active, lock, log>>
    BY <1>3 DEF Sub!Reply
  <2>3. r \in Sub!Patchers => w = active[Sub!SubOf[r]]
    BY RequestFacts
  <2> HIDE DEF w
  <2> QED
    BY <2>1, <2>2, <2>3, TellKeeps
<1>4. CASE Sub!AnswerLost(r) \/ Sub!ReplyFails(r)
  BY <1>4, TellKeeps DEF Sub!AnswerLost, Sub!ReplyFails
<1>5. CASE Sub!Rollback(r)
  BY <1>5, TellKeeps DEF Sub!Rollback
<1> QED
  BY <1>2, <1>3, <1>4, <1>5 DEF Sub!EndStep, Sub!FaultStep

LEMMA SubStep == SubInv /\ [Sub!Next]_(Sub!vars) => SubInv'
  BY InsertKeeps, PatchKeeps, EndKeeps, SubStutter DEF Sub!Next, Sub!CreateStep, Sub!AllDone

\* Every step of every request keeps the invariant.
THEOREM SubInvariance == Sub!Spec => []SubInv
  BY SubInit, SubStep, PTL DEF Sub!Spec

\* Every variable keeps its type, and a row has one writer at a time.
THEOREM SubTypeCorrect == Sub!Spec => []Sub!TypeOK
<1>1. SubInv => Sub!TypeOK
  BY DEF SubInv
<1> QED
  BY SubInvariance, <1>1, PTL

\* A PATCH that is answered with the opposite of what it asked for was overtaken by a
\* request that asked for it.
THEOREM AnswersExplained == Sub!Spec => []Sub!ReadBackExplained
<1>1. SubInv => Sub!ReadBackExplained
  BY DEF SubInv, LogOK, Explained, Sub!ReadBackExplained
<1> QED
  BY SubInvariance, <1>1, PTL

--------------------------------------------------------------------------------
\* Subscriptions: the refinement

PhaseAt(x) == CASE x \in {"begin", "update", "commit"} -> "open"
                [] x \in {"reply", "lost"} -> "taken"
                [] OTHER -> "answered"

\* What moving a request does to its phase.
LEMMA PhaseFacts ==
  ASSUME SubInv, NEW r \in Sub!Requests, NEW x \in Sub!Steps, Sub!GoTo(r, x)
  PROVE  /\ Sub!PhaseOf[r] = PhaseAt(stage[r])
         /\ Sub!PhaseOf' = [Sub!PhaseOf EXCEPT ![r] = PhaseAt(x)]
         /\ PhaseAt(x) = PhaseAt(stage[r]) => Sub!PhaseOf' = Sub!PhaseOf
<1>1. stage'[r] = x /\ \A s \in Sub!Requests : s # r => stage'[s] = stage[s]
  BY MoveFacts
<1>2. /\ Sub!PhaseOf = [q \in Sub!Requests |-> PhaseAt(stage[q])]
      /\ Sub!PhaseOf' = [q \in Sub!Requests |-> PhaseAt(stage'[q])]
  BY DEF Sub!PhaseOf, PhaseAt
<1> HIDE DEF PhaseAt, Sub!PhaseOf
<1>3. Sub!PhaseOf' = [Sub!PhaseOf EXCEPT ![r] = PhaseAt(x)]
  BY <1>1, <1>2
<1> QED
  BY <1>2, <1>3

LEMMA InitRefines == Sub!Init => Sub!Switch!Init
  BY DEF Sub!Init, Sub!Switch!Init, Sub!PhaseOf, Sub!Requests

\* Taking effect, at the early return or at the commit.
LEMMA EffectRefines ==
  ASSUME SubInv, NEW r \in Sub!Requests, NEW x \in {"reply", "lost"}, Sub!GoTo(r, x),
         stage[r] \in {"begin", "update", "commit"},
         active[Sub!SubOf[r]] = "none" <=> r \in Sub!Creators,
         active' = [active EXCEPT ![Sub!SubOf[r]] = Sub!WantedOf[r]], told' = told
  PROVE  Sub!Switch!Next
<1>1. Sub!PhaseOf[r] = "open" /\ Sub!PhaseOf' = [Sub!PhaseOf EXCEPT ![r] = "taken"]
  BY PhaseFacts DEF Sub!Steps, PhaseAt
<1>2. Sub!Switch!TakeEffect(r)
  BY <1>1 DEF Sub!Switch!TakeEffect
<1> QED
  BY <1>2 DEF Sub!Switch!Next, Sub!Requests

LEMMA CommittedRefines ==
  ASSUME SubInv, NEW r \in Sub!Requests, NEW x \in {"reply", "lost"},
         Sub!Committed(r), Sub!GoTo(r, x)
  PROVE  Sub!Switch!Next
<1>1. active[Sub!SubOf[r]] = "none" <=> r \in Sub!Creators
  BY RequestFacts DEF SubInv, RowsOK, Sub!Committed, Sub!Requests
<1> QED
  BY <1>1, EffectRefines DEF Sub!Committed

\* An answer, whatever it is.
LEMMA TellRefines ==
  ASSUME SubInv, NEW r \in Sub!Requests, NEW w, Sub!Tell(r, w), active' = active
  PROVE  Sub!Switch!Answer(r, w) /\ Sub!PhaseOf[r] = PhaseAt(stage[r])
<1>1. Sub!PhaseOf[r] = PhaseAt(stage[r]) /\ Sub!PhaseOf' = [Sub!PhaseOf EXCEPT ![r] = "answered"]
  BY PhaseFacts DEF Sub!Tell, Sub!Steps, PhaseAt
<1> QED
  BY <1>1 DEF Sub!Tell, Sub!Switch!Answer

LEMMA FailRefines ==
  ASSUME SubInv, NEW r \in Sub!Requests, Sub!Tell(r, "error"), active' = active, stage[r] # "done"
  PROVE  Sub!Switch!Next
<1>1. stage[r] \in Sub!Steps
  BY DEF SubInv, Sub!TypeOK
<1>2. Sub!Switch!Answer(r, "error") /\ Sub!PhaseOf[r] # "answered"
  BY <1>1, TellRefines DEF PhaseAt, Sub!Steps
<1>3. Sub!Switch!Fail(r)
  BY <1>2 DEF Sub!Switch!Fail
<1> QED
  BY <1>3 DEF Sub!Switch!Next, Sub!Requests

LEMMA PatchRefines ==
  ASSUME SubInv, NEW p \in Sub!Patchers, Sub!PatchStep(p)
  PROVE  Sub!Switch!Next \/ UNCHANGED <<active, Sub!PhaseOf, told>>
<1>1. /\ p \in Sub!Requests /\ p \notin Sub!Creators
      /\ Sub!WantedOf[p] \in {"on", "off"} /\ Sub!SubOf[p] \in Subs
  BY RequestFacts DEF Sub!Requests
<1>2. CASE Sub!ReadNothing(p)
  <2>1. Sub!Switch!Answer(p, "missing") /\ Sub!PhaseOf[p] = "open"
    BY <1>1, <1>2, TellRefines DEF Sub!ReadNothing, PhaseAt
  <2>2. Sub!Switch!NotFound(p)
    BY <1>2, <2>1 DEF Sub!Switch!NotFound, Sub!ReadNothing
  <2> QED
    BY <2>2 DEF Sub!Switch!Next
<1>3. CASE Sub!ReadSame(p)
  <2>1. active' = [active EXCEPT ![Sub!SubOf[p]] = Sub!WantedOf[p]]
    BY <1>1, <1>3 DEF Sub!ReadSame, SubInv, Sub!TypeOK
  <2>2. active[Sub!SubOf[p]] # "none"
    BY <1>1, <1>3 DEF Sub!ReadSame
  <2> QED
    BY <1>1, <1>3, <2>1, <2>2, EffectRefines DEF Sub!ReadSame
<1>4. CASE Sub!ReadOther(p)
  <2>1. Sub!PhaseOf' = Sub!PhaseOf
    BY <1>1, <1>4, PhaseFacts DEF Sub!ReadOther, Sub!Steps, PhaseAt
  <2> QED
    BY <1>4, <2>1 DEF Sub!ReadOther
<1>5. CASE Sub!Update(p)
  <2>1. Sub!PhaseOf' = Sub!PhaseOf
    BY <1>1, <1>5, PhaseFacts DEF Sub!Update, Sub!Steps, PhaseAt
  <2> QED
    BY <1>5, <2>1 DEF Sub!Update
<1> QED
  BY <1>2, <1>3, <1>4, <1>5 DEF Sub!PatchStep

LEMMA EndRefines ==
  ASSUME SubInv, NEW r \in Sub!Requests, Sub!EndStep(r) \/ Sub!FaultStep(r)
  PROVE  Sub!Switch!Next
<1>1. CASE Sub!Commit(r) \/ Sub!CommitLost(r)
  BY <1>1, CommittedRefines DEF Sub!Commit, Sub!CommitLost
<1>2. CASE Sub!Reply(r)
  <2>1. /\ Sub!Switch!Answer(r, IF r \in Sub!Creators THEN Sub!WantedOf[r]
                                                        ELSE active[Sub!SubOf[r]])
        /\ Sub!PhaseOf[r] = "taken"
    BY <1>2, TellRefines DEF Sub!Reply, PhaseAt
  <2>2. Sub!Switch!Succeed(r)
    BY <2>1 DEF Sub!Switch!Succeed
  <2> QED
    BY <2>2 DEF Sub!Switch!Next, Sub!Requests
<1>3. CASE Sub!AnswerLost(r) \/ Sub!ReplyFails(r) \/ Sub!Rollback(r)
  BY <1>3, FailRefines DEF Sub!AnswerLost, Sub!ReplyFails, Sub!Rollback
<1> QED
  BY <1>1, <1>2, <1>3 DEF Sub!EndStep, Sub!FaultStep

LEMMA StepRefines ==
  ASSUME SubInv, [Sub!Next]_(Sub!vars)
  PROVE  Sub!Switch!Next \/ UNCHANGED <<active, Sub!PhaseOf, told>>
<1>1. ASSUME NEW c \in Sub!Creators, Sub!Insert(c) PROVE UNCHANGED <<active, Sub!PhaseOf, told>>
  <2>1. Sub!PhaseOf' = Sub!PhaseOf
    BY <1>1, PhaseFacts DEF Sub!Insert, Sub!Steps, PhaseAt, Sub!Requests
  <2> QED
    BY <1>1, <2>1 DEF Sub!Insert
<1>2. CASE UNCHANGED Sub!vars
  BY <1>2 DEF Sub!vars, Sub!PhaseOf
<1> QED
  BY <1>1, <1>2, PatchRefines, EndRefines DEF Sub!Next, Sub!CreateStep, Sub!AllDone

\* Whatever the statements of concurrent requests do to each other, the requests take
\* effect one at a time and are answered as the abstract switch allows.
THEOREM SubscriptionsAreSerial == Sub!Spec => Sub!ImplementsSwitch
<1>1. SubInv /\ [Sub!Next]_(Sub!vars) => [Sub!Switch!Next]_<<active, Sub!PhaseOf, told>>
  BY StepRefines
<1> QED
  BY InitRefines, <1>1, SubInvariance, PTL DEF Sub!Spec, Sub!ImplementsSwitch, Sub!Switch!Spec

================================================================================
