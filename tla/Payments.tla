-------------------------------- MODULE Payments --------------------------------
(***************************************************************************)
(* Creating and cancelling payments, statement by statement                *)
(* (internal/storage/store.go, internal/service/payment_service.go), run   *)
(* by concurrent requests at PostgreSQL's READ COMMITTED level.  A payment *)
(* is named after the request that created it.  What a transaction wrote   *)
(* becomes visible when it commits; the locks of its writes last as long.  *)
(***************************************************************************)
EXTENDS Naturals, FiniteSets

CONSTANTS Creators,     \* POST /v1/payments requests (and runs of cmd/seed)
          Cancellers,   \* POST /v1/payments/{id}/cancel requests
          Keys,
          KeyOf,        \* KeyOf[c]: {} or {k}, the Idempotency-Key of the request
          HashOf,       \* HashOf[c]: the hash of amount and currency
          StatusOf,     \* StatusOf[c]: PENDING, or SUCCEEDED for cmd/seed
          TargetOf,     \* TargetOf[x]: the payment request x cancels
          MaxFaults

Requests == Creators \cup Cancellers

ASSUME PaymentsAssumption ==
  /\ Creators \cap Cancellers = {}
  /\ KeyOf \in [Creators -> {{}} \cup {{k} : k \in Keys}]
  /\ StatusOf \in [Creators -> {"PENDING", "SUCCEEDED"}]
  /\ TargetOf \in [Cancellers -> Creators]
  /\ MaxFaults \in Nat

VARIABLES
  payment,   \* payment[c]: status of the committed payment of c, or "none"
  keyRow,    \* keyRow[k]: the creator of the committed idempotency_keys row
  events,    \* events[c]: how many [created, cancelled] outbox events c has
  pc,        \* pc[r]: the statement a request is at
  answer,    \* answer[r]: what the client was told
  keyLock,   \* keyLock[k]: the transactions that inserted k, not committed
  rowLock,   \* rowLock[c]: the transactions that updated payment c, not committed
  faults

vars == <<payment, keyRow, events, pc, answer, keyLock, rowLock, faults>>

Init ==
  /\ payment = [c \in Creators |-> "none"]
  /\ keyRow = [k \in Keys |-> {}]
  /\ events = [c \in Creators |-> [created |-> 0, cancelled |-> 0]]
  /\ pc = [r \in Requests |-> "begin"]
  /\ answer = [r \in Requests |-> [code |-> "none", payment |-> {}]]
  /\ keyLock = [k \in Keys |-> {}]
  /\ rowLock = [c \in Creators |-> {}]
  /\ faults = 0

GoTo(r, step) == pc' = [pc EXCEPT ![r] = step]

\* The transaction ends, its locks go and the client is answered.
Finish(r, code, told) ==
  /\ GoTo(r, "done")
  /\ answer' = [answer EXCEPT ![r] = [code |-> code, payment |-> told]]
  /\ keyLock' = [k \in Keys |-> keyLock[k] \ {r}]
  /\ rowLock' = [c \in Creators |-> rowLock[c] \ {r}]

--------------------------------------------------------------------------------
\* CreatePayment

\* INSERT INTO idempotency_keys ... ON CONFLICT DO NOTHING.  It waits for an
\* uncommitted insert of the same key, and inserts if there is no such row.
InsertKey(c) ==
  /\ pc[c] = "begin"
  /\ \A k \in KeyOf[c] : keyLock[k] = {} /\ keyRow[k] = {}
  /\ keyLock' = [k \in Keys |-> IF k \in KeyOf[c] THEN {c} ELSE keyLock[k]]
  /\ GoTo(c, "insert")
  /\ UNCHANGED <<payment, keyRow, events, answer, rowLock, faults>>

\* No row was affected: the key is taken by a committed request.
KeyTaken(c) ==
  /\ pc[c] = "begin"
  /\ \E k \in KeyOf[c] : keyLock[k] = {} /\ keyRow[k] # {}
  /\ GoTo(c, "existing")
  /\ UNCHANGED <<payment, keyRow, events, answer, keyLock, rowLock, faults>>

\* Mutant: the request is not compared with the one the key was used for.
AnswerExistingMutant(c) ==
  /\ pc[c] = "existing"
  /\ \E k \in KeyOf[c] : \E d \in keyRow[k] : Finish(c, "replayed", {d})
  /\ UNCHANGED <<payment, keyRow, events, faults>>

\* The request is answered from the row of the key and the payment it names.
AnswerExisting(c) ==
  /\ pc[c] = "existing"
  /\ \E k \in KeyOf[c] : \E d \in keyRow[k] :
       IF HashOf[d] # HashOf[c]
       THEN Finish(c, "conflict", {})
       ELSE IF payment[d] = "none" THEN Finish(c, "not_found", {})
                                   ELSE Finish(c, "replayed", {d})
  /\ UNCHANGED <<payment, keyRow, events, faults>>

\* The payment and its PaymentCreated event are inserted.
InsertPayment(c) ==
  /\ pc[c] = "insert"
  /\ GoTo(c, "commit")
  /\ UNCHANGED <<payment, keyRow, events, answer, keyLock, rowLock, faults>>

CreateCommitted(c, code, told) ==
  /\ pc[c] = "commit"
  /\ payment' = [payment EXCEPT ![c] = StatusOf[c]]
  /\ keyRow' = [k \in Keys |-> IF k \in KeyOf[c] THEN {c} ELSE keyRow[k]]
  /\ events' = [events EXCEPT ![c].created = @ + 1]
  /\ Finish(c, code, told)

CommitCreate(c) == CreateCommitted(c, "created", {c}) /\ UNCHANGED faults

--------------------------------------------------------------------------------
\* CancelPayment

\* Mutant: the status of the payment is not looked at.
ReadPaymentMutant(x) ==
  /\ pc[x] = "begin"
  /\ IF payment[TargetOf[x]] = "none"
     THEN Finish(x, "not_found", {})
     ELSE GoTo(x, "update") /\ UNCHANGED <<answer, keyLock, rowLock>>
  /\ UNCHANGED <<payment, keyRow, events, faults>>

\* SELECT of the payment, without a lock, and the check of its status.
ReadPayment(x) ==
  /\ pc[x] = "begin"
  /\ CASE payment[TargetOf[x]] = "none" -> Finish(x, "not_found", {})
       [] payment[TargetOf[x]] \in {"SUCCEEDED", "CANCELLED"} ->
            Finish(x, "invalid_state", {})
       [] payment[TargetOf[x]] = "PENDING" ->
            GoTo(x, "update") /\ UNCHANGED <<answer, keyLock, rowLock>>
  /\ UNCHANGED <<payment, keyRow, events, faults>>

\* Mutant: the event is written outside the transaction of the update.
UpdatePaymentMutant(x) ==
  LET p == TargetOf[x] IN
  /\ pc[x] = "update" /\ rowLock[p] = {}
  /\ rowLock' = [rowLock EXCEPT ![p] = {x}]
  /\ events' = [events EXCEPT ![p].cancelled = @ + 1]
  /\ GoTo(x, "commit")
  /\ UNCHANGED <<payment, keyRow, answer, keyLock, faults>>

\* UPDATE ... WHERE id: waits for whoever is updating the row, then writes.
UpdatePayment(x) ==
  LET p == TargetOf[x] IN
  /\ pc[x] = "update" /\ rowLock[p] = {}
  /\ rowLock' = [rowLock EXCEPT ![p] = {x}]
  /\ GoTo(x, "commit")
  /\ UNCHANGED <<payment, keyRow, events, answer, keyLock, faults>>

\* The PaymentCancelled event goes with the update.
CancelCommitted(x, code) ==
  /\ pc[x] = "commit"
  /\ payment' = [payment EXCEPT ![TargetOf[x]] = "CANCELLED"]
  /\ events' = [events EXCEPT ![TargetOf[x]].cancelled = @ + 1]
  /\ Finish(x, code, {TargetOf[x]})
  /\ UNCHANGED keyRow

CommitCancel(x) == CancelCommitted(x, "cancelled") /\ UNCHANGED faults

--------------------------------------------------------------------------------
\* The commit takes place, the acknowledgement is lost.
CommitUnacknowledged(r) ==
  /\ faults < MaxFaults /\ faults' = faults + 1
  /\ \/ r \in Creators /\ CreateCommitted(r, "error", {})
     \/ r \in Cancellers /\ CancelCommitted(r, "error")

\* A statement fails or the request is cancelled.
Rollback(r) ==
  /\ pc[r] # "done"
  /\ faults < MaxFaults /\ faults' = faults + 1
  /\ Finish(r, "error", {})
  /\ UNCHANGED <<payment, keyRow, events>>

Create(c) ==
  \/ InsertKey(c) \/ KeyTaken(c) \/ AnswerExisting(c) \/ InsertPayment(c)
  \/ CommitCreate(c)

Cancel(x) == ReadPayment(x) \/ UpdatePayment(x) \/ CommitCancel(x)

AllDone == (\A r \in Requests : pc[r] = "done") /\ UNCHANGED vars

Next ==
  \/ \E c \in Creators : Create(c)
  \/ \E x \in Cancellers : Cancel(x)
  \/ \E r \in Requests : CommitUnacknowledged(r) \/ Rollback(r)
  \/ AllDone

Spec == Init /\ [][Next]_vars

--------------------------------------------------------------------------------
\* Properties

\* Every variable keeps its type: a key has one row, and one transaction at a time
\* that inserts it.
TypeOK ==
  /\ payment \in [Creators -> {"none", "PENDING", "SUCCEEDED", "CANCELLED"}]
  /\ keyRow \in [Keys -> {{}} \cup {{c} : c \in Creators}]
  /\ events \in [Creators -> [created : Nat, cancelled : Nat]]
  /\ pc \in [Requests -> {"begin", "insert", "existing", "update", "commit", "done"}]
  /\ answer \in [Requests -> [code : {"none", "created", "replayed", "cancelled", "conflict",
                                      "not_found", "invalid_state", "error"},
                              payment : SUBSET Creators]]
  /\ keyLock \in [Keys -> {{}} \cup {{c} : c \in Creators}]
  /\ rowLock \in [Creators -> SUBSET Cancellers]
  /\ faults \in Nat

\* The requests with one key make one payment between them, whatever they are
\* told; those that are told about a payment are told about the same one and asked
\* for the same, so that a changed request never gets it; and a client whose answer
\* was lost finds its payment with a retry.
OnePaymentPerKey ==
  /\ \A k \in Keys : Cardinality({c \in Creators : k \in KeyOf[c] /\ payment[c] # "none"}) <= 1
  /\ \A c, d \in Creators :
       /\ KeyOf[c] # {} /\ KeyOf[c] = KeyOf[d]
       /\ answer[c].payment # {} /\ answer[d].payment # {}
       => answer[c].payment = answer[d].payment /\ HashOf[c] = HashOf[d]
  /\ \A c \in Creators : answer[c].code # "not_found"

\* The outbox is transactional: a payment exists exactly if its PaymentCreated
\* event does, and is cancelled exactly if a PaymentCancelled event says so,
\* wherever a transaction broke off.
EventsMatchPayments ==
  \A c \in Creators :
    /\ events[c].created = IF payment[c] = "none" THEN 0 ELSE 1
    /\ events[c].cancelled > 0 <=> payment[c] = "CANCELLED"

\* A payment that succeeded is never cancelled, nor a cancelled one revived.
SettledStays ==
  [][\A c \in Creators :
       payment[c] \in {"SUCCEEDED", "CANCELLED"} => payment'[c] = payment[c]]_vars

\* Cancelling is for pending payments: of several requests to cancel a payment
\* one succeeds and the others are told that its state does not allow it.
CancelledOnce ==
  \A c \in Creators :
    Cardinality({x \in Cancellers : TargetOf[x] = c /\ answer[x].code = "cancelled"}) <= 1

================================================================================
