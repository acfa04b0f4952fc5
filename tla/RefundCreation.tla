---------------------------- MODULE RefundCreation ----------------------------
(***************************************************************************)
(* CreateRefund statement by statement (internal/storage/refunds.go), run  *)
(* by concurrent requests at PostgreSQL's READ COMMITTED level: the        *)
(* advisory lock on the idempotency key, the lookup of the key, the row    *)
(* lock on the payment, the sum of its reservations, the insert and the    *)
(* commit.  A row a transaction has inserted is visible to the others once *)
(* it commits; locks last until the transaction ends.                      *)
(***************************************************************************)
EXTENDS RefundBook

CONSTANTS Keys, Payments, MaxFaults

ASSUME CreationAssumption ==
  /\ Request \in [Clients -> [key : Keys, payment : Payments, amount : Nat \ {0}]]
  /\ DOMAIN PaymentAmount \subseteq Payments
  /\ PaymentAmount \in [DOMAIN PaymentAmount -> Nat]
  /\ PaidPayments \subseteq DOMAIN PaymentAmount
  /\ MaxFaults \in Nat

VARIABLES pc,        \* pc[c]: the statement the request is at
          keyLock,   \* keyLock[k]: the transactions that hold the advisory lock
          payLock,   \* payLock[p]: the transactions that hold the payment's row
          inserted,  \* the requests whose INSERT is not committed yet
          faults

vars == <<book, reserved, answer, pc, keyLock, payLock, inserted, faults>>

Steps == {"begin", "lookup", "payment", "sum", "insert", "commit", "done"}

Init ==
  /\ BookInit
  /\ pc = [c \in Clients |-> "begin"]
  /\ keyLock = [k \in Keys |-> {}]
  /\ payLock = [p \in Payments |-> {}]
  /\ inserted = {} /\ faults = 0

\* The transaction ends and its locks go.
Finish(c) ==
  /\ pc' = [pc EXCEPT ![c] = "done"]
  /\ keyLock' = [k \in Keys |-> keyLock[k] \ {c}]
  /\ payLock' = [p \in Payments |-> payLock[p] \ {c}]
  /\ inserted' = inserted \ {c}

GoTo(c, step) == pc' = [pc EXCEPT ![c] = step]

\* Mutant: the key is not locked.
LockKeyMutant(c) ==
  /\ pc[c] = "begin"
  /\ keyLock' = [keyLock EXCEPT ![KeyOf(c)] = @ \cup {c}]
  /\ GoTo(c, "lookup")
  /\ UNCHANGED <<book, reserved, answer, payLock, inserted, faults>>

\* SELECT pg_advisory_xact_lock: waits for the transaction that holds the key.
LockKey(c) ==
  /\ pc[c] = "begin" /\ keyLock[KeyOf(c)] = {}
  /\ keyLock' = [keyLock EXCEPT ![KeyOf(c)] = {c}]
  /\ GoTo(c, "lookup")
  /\ UNCHANGED <<book, reserved, answer, payLock, inserted, faults>>

\* Mutant: the request is not compared with the one the key was used for.
KeyKnownUncheckedMutant(c) ==
  /\ pc[c] = "lookup"
  /\ \E b \in book : KeyOf(b) = KeyOf(c) /\ Answered(c, "replayed", {b})
  /\ Finish(c)
  /\ UNCHANGED <<book, reserved, faults>>

\* A committed refund with the key ends the request.
KeyKnown(c) ==
  /\ pc[c] = "lookup"
  /\ Known(c) /\ Finish(c)
  /\ UNCHANGED faults

KeyUnknown(c) ==
  /\ pc[c] = "lookup" /\ KeyIsFree(c)
  /\ GoTo(c, "payment")
  /\ UNCHANGED <<book, reserved, answer, keyLock, payLock, inserted, faults>>

\* SELECT ... FOR UPDATE of the payment, and the checks on it.
PaymentRefused(c) ==
  LET p == Request[c].payment IN
  /\ pc[c] = "payment"
  /\ \/ /\ p \notin DOMAIN PaymentAmount
        /\ Answered(c, "payment_not_found", {})
     \/ /\ p \in DOMAIN PaymentAmount \ PaidPayments /\ payLock[p] = {}
        /\ Answered(c, "invalid_payment_state", {})
  /\ Finish(c)
  /\ UNCHANGED <<book, reserved, faults>>

\* Mutant: the payment is read without a lock.
LockPaymentMutant(c) ==
  /\ pc[c] = "payment" /\ Request[c].payment \in PaidPayments
  /\ GoTo(c, "sum")
  /\ UNCHANGED <<book, reserved, answer, keyLock, payLock, inserted, faults>>

LockPayment(c) ==
  LET p == Request[c].payment IN
  /\ pc[c] = "payment" /\ p \in PaidPayments /\ payLock[p] = {}
  /\ payLock' = [payLock EXCEPT ![p] = {c}]
  /\ GoTo(c, "sum")
  /\ UNCHANGED <<book, reserved, answer, keyLock, inserted, faults>>

\* Mutant: the request tries again until the amount fits.
AmountExceededMutant(c) ==
  /\ pc[c] = "sum" /\ ~Fits(c)
  /\ payLock' = [p \in Payments |-> payLock[p] \ {c}]
  /\ GoTo(c, "payment")
  /\ UNCHANGED <<book, reserved, answer, keyLock, inserted, faults>>

\* SELECT SUM(amount), compared with the amount of the request.
AmountExceeded(c) ==
  /\ pc[c] = "sum" /\ ~Fits(c)
  /\ Answered(c, "amount_exceeded", {}) /\ Finish(c)
  /\ UNCHANGED <<book, reserved, faults>>

AmountFits(c) ==
  /\ pc[c] = "sum" /\ Fits(c)
  /\ GoTo(c, "insert")
  /\ UNCHANGED <<book, reserved, answer, keyLock, payLock, inserted, faults>>

\* UNIQUE (user_id, idempotency_key): a second insert of the key waits for the
\* first, and fails once that is committed.
Insert(c) ==
  /\ pc[c] = "insert"
  /\ \A b \in inserted : KeyOf(b) # KeyOf(c)
  /\ IF KeyIsFree(c)
     THEN /\ inserted' = inserted \cup {c} /\ GoTo(c, "commit")
          /\ UNCHANGED <<answer, keyLock, payLock>>
     ELSE Answered(c, "error", {}) /\ Finish(c)
  /\ UNCHANGED <<book, reserved, faults>>

Commit(c) ==
  /\ pc[c] = "commit"
  /\ book' = book \cup {c} /\ reserved' = reserved \cup {c}
  /\ Answered(c, "created", {c}) /\ Finish(c)
  /\ UNCHANGED faults

\* The commit takes place and the connection breaks before it is acknowledged.
CommitUnacknowledged(c) ==
  /\ pc[c] = "commit" /\ faults < MaxFaults
  /\ book' = book \cup {c} /\ reserved' = reserved \cup {c}
  /\ Answered(c, "error", {}) /\ Finish(c)
  /\ faults' = faults + 1

\* A statement fails or the request is cancelled: the transaction is rolled back.
Rollback(c) ==
  /\ pc[c] # "done" /\ faults < MaxFaults
  /\ Answered(c, "error", {}) /\ Finish(c)
  /\ faults' = faults + 1
  /\ UNCHANGED <<book, reserved>>

\* Meanwhile a refund worker lets a refund fail for good.
ReleaseRefund(b) ==
  /\ Release(b)
  /\ UNCHANGED <<pc, keyLock, payLock, inserted, faults>>

Advance(c) ==
  \/ LockKey(c) \/ KeyKnown(c) \/ KeyUnknown(c) \/ PaymentRefused(c)
  \/ LockPayment(c) \/ AmountExceeded(c) \/ AmountFits(c) \/ Insert(c)
  \/ Commit(c)

AllDone == (\A c \in Clients : pc[c] = "done") /\ UNCHANGED vars

Next ==
  \/ \E c \in Clients :
       Advance(c) \/ CommitUnacknowledged(c) \/ Rollback(c) \/ ReleaseRefund(c)
  \/ AllDone

Spec == Init /\ [][Next]_vars

\* Lock queues are first come, first served, and every request runs on.
FairSpec == Spec /\ \A c \in Clients : SF_vars(Advance(c))

--------------------------------------------------------------------------------
\* Properties

\* Every variable keeps its type.
TypeOK ==
  /\ book \subseteq Clients /\ reserved \subseteq book
  /\ answer \in [Clients -> [code : {"none", "created", "replayed", "conflict",
                                     "payment_not_found", "invalid_payment_state",
                                     "amount_exceeded", "error"},
                             refund : SUBSET Clients]]
  /\ pc \in [Clients -> Steps]
  /\ keyLock \in [Keys -> SUBSET Clients]
  /\ payLock \in [Payments -> SUBSET Clients]
  /\ inserted \subseteq Clients /\ faults \in Nat

\* Concurrent and repeated requests behave as if each ran alone at one instant:
\* the statements, locks and snapshots of CreateRefund implement RefundBook.
ImplementsBook == BookSpec

\* The refunds that count against a payment never exceed its amount, however
\* requests with different keys interleave.
WithinPayment == \A p \in DOMAIN PaymentAmount : ReservedOn(p) <= PaymentAmount[p]

\* The unique constraint is only a second line of defence: with the advisory
\* lock a request never runs into it, so no request fails because another one
\* with its key came first.
InsertNeverConflicts ==
  \A c \in Clients : pc[c] = "insert" => KeyIsFree(c) /\ inserted \cap {b \in Clients : KeyOf(b) = KeyOf(c)} = {}

\* Every request is answered: key locks and payment locks are taken in one
\* order, so no two requests wait for each other.
EveryRequestAnswered == \A c \in Clients : <>(answer[c] # NoAnswer)

================================================================================
