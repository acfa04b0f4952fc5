----------------------------------- MODULE Api -----------------------------------
(***************************************************************************)
(* The calls of a client through the whole API: authentication, rate       *)
(* limit, decoding, the services' checks, the storage operation, the       *)
(* handler's read-back and the status code (internal/httpapi/router.go,    *)
(* internal/httpapi/refunds.go and the services behind them).  A client    *)
(* that is answered with 401, 429 or 500, or not at all, tries again, even *)
(* while the server still works on the attempt it gave up.  A call has one *)
(* or more slots: the connections it uses for its attempts.                *)
(*                                                                         *)
(* The creations and reads are one step in storage here: Payments and      *)
(* RefundCreation show that their statements act as one.  A cancellation   *)
(* and a switch of a subscription are two, as they read the row without a  *)
(* lock and update it later without another look.  An operation may fail   *)
(* before or after it took effect.  All calls are those of one user.       *)
(***************************************************************************)
EXTENDS Naturals, FiniteSets

CONSTANTS Calls, Slots, Keys, Targets,
          CallOf,      \* CallOf[a]: the call that slot a belongs to
          OpOf,        \* OpOf[c]: the endpoint
          KeyOf,       \* KeyOf[c]: {} or {k}, the Idempotency-Key
          TargetOf,    \* TargetOf[c]: the payment, subscription or refund named
          BodyOf,      \* BodyOf[c]: what the request asks for, and what its hash covers
          FlawOf,      \* FlawOf[c]: what is wrong with the request, or "none"
          RefusalOf,   \* RefusalOf[c]: the error its target causes for good, or "none"
          Data,        \* Data[t]: the state of target t at the start
          Limit,       \* attempts per scope and window
          MaxInFlight, \* attempts the server works on at a time
          MaxFaults

Creations == {"createPayment", "createSubscription", "createRefund"}
Limited == Creations \cup {"cancelPayment", "patchSubscription", "recheckRefund"}
Reads == {"getPayment", "listPayments", "getSubscription", "listSubscriptions",
          "getRefund", "listRefunds", "listReconciliations"}
HasBody == Creations \cup {"patchSubscription"}
TwoSteps == {"cancelPayment", "patchSubscription"}

NotFoundErrors == {"ErrPaymentNotFound", "ErrSubscriptionNotFound", "ErrRefundNotFound"}
InputErrors == {"ErrInvalidAmount", "ErrIdempotencyKeyRequired", "ErrInvalidCurrency",
                "ErrInvalidPagination", "ErrInvalidStatusFilter", "ErrInvalidWebhookURL",
                "ErrUserIDRequired"}
StateErrors == {"ErrInvalidPaymentState", "ErrIdempotencyConflict",
                "ErrInvalidRefundState", "ErrRefundAmountExceeded"}

ASSUME ApiAssumption ==
  /\ CallOf \in [Slots -> Calls] /\ OpOf \in [Calls -> Limited \cup Reads]
  /\ KeyOf \in [Calls -> {{}} \cup {{k} : k \in Keys}]
  /\ \A c \in Calls : KeyOf[c] # {} => OpOf[c] \in {"createPayment", "createRefund"}
  /\ TargetOf \in [Calls -> Targets] /\ DOMAIN Data = Targets
  /\ \A c \in Calls : OpOf[c] = "patchSubscription" => BodyOf[c] # "PENDING"  \* on or off
  /\ FlawOf \in [Calls -> {"none", "body", "ErrPaymentNotFound"} \cup InputErrors]
  /\ \A c \in Calls : FlawOf[c] = "body" => OpOf[c] \in HasBody
  \* An unknown id stays unknown, and a payment never becomes SUCCEEDED.
  /\ RefusalOf \in [Calls -> {"none", "ErrInvalidPaymentState"} \cup NotFoundErrors]
  /\ \A c \in Calls : OpOf[c] = "createPayment" => RefusalOf[c] = "none"
  /\ Limit \in Nat \ {0} /\ MaxInFlight \in Nat /\ MaxFaults \in Nat

VARIABLES
  pc,        \* pc[a]: where the server is with the attempt in slot a
  code,      \* code[a]: the status code it answered, or 0
  seen,      \* seen[a]: what the client knows: 0, a code, or 1 if the connection broke
  changed,   \* the slots whose attempt changed the data
  effects,   \* effects[c]: how often the attempts of c did
  owner,     \* owner[k]: {} or {c}, the call whose row has key k
  data,      \* data[t]: the state of target t
  hits,      \* hits[o]: attempts counted in the window of the scope of endpoint o
  token,     \* "valid" or "expired": the client's token
  faults

vars == <<pc, code, seen, changed, effects, owner, data, hits, token, faults>>

Broken == 1
Success == {200, 201, 202}
Refused == {400, 401, 404, 409, 429}
TryAgain == {401, 429, 500, Broken}

InFlight == {a \in Slots : pc[a] \notin {"ready", "end"}}
Op(a) == OpOf[CallOf[a]]

Init ==
  /\ pc = [a \in Slots |-> "ready"]
  /\ code = [a \in Slots |-> 0]
  /\ seen = [a \in Slots |-> 0]
  /\ changed = {}
  /\ effects = [c \in Calls |-> 0]
  /\ owner = [k \in Keys |-> {}]
  /\ data = Data
  /\ hits = [o \in Limited |-> 0]
  /\ token = "valid"
  /\ faults = 0

GoTo(a, step) == pc' = [pc EXCEPT ![a] = step]
GoOn(a, step) == GoTo(a, step) /\ UNCHANGED <<code, seen>>

\* The response is written; a client that gave up does not see it.
Respond(a, n) ==
  /\ GoTo(a, "end")
  /\ code' = [code EXCEPT ![a] = n]
  /\ seen' = [seen EXCEPT ![a] = IF @ = Broken THEN Broken ELSE n]

Fault == faults < MaxFaults /\ faults' = faults + 1

NoEffect == UNCHANGED <<changed, effects, owner, data>>

--------------------------------------------------------------------------------
\* The client

\* A call is in doubt until one of its attempts got an answer that settles it.
InDoubt(c) == \A a \in Slots : CallOf[a] = c /\ pc[a] # "ready" => seen[a] \in TryAgain

\* A slot is free before its first attempt and once its attempt has ended.
Send(a) ==
  /\ pc[a] \in {"ready", "end"} /\ Cardinality(InFlight) < MaxInFlight
  /\ InDoubt(CallOf[a])
  /\ GoTo(a, "auth")
  /\ code' = [code EXCEPT ![a] = 0] /\ seen' = [seen EXCEPT ![a] = 0]
  /\ changed' = changed \ {a}
  /\ UNCHANGED <<effects, owner, data, hits, token, faults>>

\* The client gives up, or the connection breaks; the server goes on.
GiveUp(a) ==
  /\ a \in InFlight /\ seen[a] = 0
  /\ seen' = [seen EXCEPT ![a] = Broken]
  /\ Fault
  /\ NoEffect /\ UNCHANGED <<pc, code, hits, token>>

TokenExpires ==
  /\ token = "valid" /\ token' = "expired"
  /\ Fault
  /\ NoEffect /\ UNCHANGED <<pc, code, seen, hits>>

TokenRenewed ==
  /\ token = "expired" /\ token' = "valid"
  /\ NoEffect /\ UNCHANGED <<pc, code, seen, hits, faults>>

--------------------------------------------------------------------------------
\* The storage operations

\* Mutant: the request is not compared with the one its key was used for.
StorageErrorsMutant(c) ==
  CASE \E k \in KeyOf[c] : owner[k] # {} -> {"none"}
    [] RefusalOf[c] # "none" -> {RefusalOf[c]}
    [] OpOf[c] = "cancelPayment" /\ data[TargetOf[c]] # "PENDING" -> {"ErrInvalidPaymentState"}
    [] OpOf[c] = "createRefund" -> {"none", "ErrRefundAmountExceeded"}
    [] OTHER -> {"none"}

\* The domain errors of the operation in the present state, and "none" if it may
\* succeed.  How much other refunds reserve of the payment, and where the workers are
\* with a refund, is not known here: both are left open.
StorageErrors(c) ==
  IF \E k \in KeyOf[c] : owner[k] # {}
  THEN IF \E k \in KeyOf[c] : \E d \in owner[k] : BodyOf[d] # BodyOf[c]
       THEN {"ErrIdempotencyConflict"} ELSE {"none"}
  ELSE CASE RefusalOf[c] # "none" -> {RefusalOf[c]}
         [] RefusalOf[c] = "none" /\ OpOf[c] = "cancelPayment" ->
              IF data[TargetOf[c]] # "PENDING" THEN {"ErrInvalidPaymentState"} ELSE {"none"}
         [] RefusalOf[c] = "none" /\ OpOf[c] = "createRefund" ->
              {"none", "ErrRefundAmountExceeded"}
         [] RefusalOf[c] = "none" /\ OpOf[c] = "recheckRefund" ->
              {"none", "ErrInvalidRefundState"}
         [] OTHER -> {"none"}

\* Mutant: a row is inserted whether or not the key has one.
ChangesMutant(c) == OpOf[c] \notin Reads

\* Whether it changes anything: a key that has its row is answered from it.
Changes(c) == OpOf[c] \notin Reads /\ \A k \in KeyOf[c] : owner[k] = {}

SuccessCode(c) ==
  CASE OpOf[c] = "recheckRefund" \/ (OpOf[c] = "createRefund" /\ Changes(c)) -> 202
    [] OpOf[c] \in Creations \ {"createRefund"} /\ Changes(c) -> 201
    [] OTHER -> 200

NewData(c) ==
  CASE OpOf[c] = "cancelPayment" -> "CANCELLED"
    [] OpOf[c] = "patchSubscription" -> BodyOf[c]
    [] OTHER -> data[TargetOf[c]]

Effect(a) ==
  LET c == CallOf[a]
  IN  /\ changed' = IF Changes(c) THEN changed \cup {a} ELSE changed
      /\ effects' = IF Changes(c) THEN [effects EXCEPT ![c] = @ + 1] ELSE effects
      /\ owner' = [k \in Keys |-> IF k \in KeyOf[c] /\ Changes(c) THEN {c} ELSE owner[k]]
      /\ data' = [data EXCEPT ![TargetOf[c]] = NewData(c)]

--------------------------------------------------------------------------------
\* The middleware

RequireUser(a) ==
  /\ pc[a] = "auth"
  /\ IF token = "valid" THEN GoOn(a, IF Op(a) \in Limited THEN "limit" ELSE "check")
                        ELSE Respond(a, 401)
  /\ NoEffect /\ UNCHANGED <<hits, token, faults>>

\* Mutant: the attempt that reaches the limit is refused.
WithRateLimitStrictMutant(a) ==
  /\ pc[a] = "limit"
  /\ hits' = [hits EXCEPT ![Op(a)] = IF @ < Limit THEN @ + 1 ELSE @]
  /\ IF hits'[Op(a)] >= Limit THEN Respond(a, 429) ELSE GoOn(a, "check")
  /\ NoEffect /\ UNCHANGED <<token, faults>>

\* The attempt is counted, and refused beyond the limit; how far beyond is all the
\* same, so that the count stops at the limit here.
WithRateLimit(a) ==
  /\ pc[a] = "limit"
  /\ hits' = [hits EXCEPT ![Op(a)] = IF @ < Limit THEN @ + 1 ELSE @]
  /\ IF hits[Op(a)] >= Limit THEN Respond(a, 429) ELSE GoOn(a, "check")
  /\ NoEffect /\ UNCHANGED <<token, faults>>

\* Allow returned an error.
RateLimitFails(a) ==
  /\ pc[a] = "limit"
  /\ Respond(a, 500) /\ Fault
  /\ NoEffect /\ UNCHANGED <<hits, token>>

\* A new window begins for every scope.
NextWindow ==
  /\ \E o \in Limited : hits[o] > 0
  /\ hits' = [o \in Limited |-> 0]
  /\ NoEffect /\ UNCHANGED <<pc, code, seen, token, faults>>

--------------------------------------------------------------------------------
\* The handlers

WriteServiceError(err) ==
  CASE err \in NotFoundErrors -> 404
    [] err \in InputErrors -> 400
    [] err \in StateErrors -> 409
    [] OTHER -> 500

\* decodeJSON, the query parameters, and the services' checks.
Check(a) ==
  /\ pc[a] = "check"
  /\ LET flaw == FlawOf[CallOf[a]]
     IN  CASE flaw = "none" -> GoOn(a, "store")
           [] flaw = "body" -> Respond(a, 400)
           [] OTHER -> Respond(a, WriteServiceError(flaw))
  /\ NoEffect /\ UNCHANGED <<hits, token, faults>>

Store(a) ==
  /\ pc[a] = "store" /\ Op(a) \notin TwoSteps /\ "none" \in StorageErrors(CallOf[a])
  /\ Effect(a)
  /\ Respond(a, SuccessCode(CallOf[a]))
  /\ UNCHANGED <<hits, token, faults>>

\* CancelPayment and SetSubscriptionActive read the row, without a lock.
ReadTarget(a) ==
  LET c == CallOf[a]
  IN  /\ pc[a] = "store" /\ Op(a) \in TwoSteps /\ "none" \in StorageErrors(c)
      /\ GoOn(a, IF Op(a) = "patchSubscription" /\ data[TargetOf[c]] = BodyOf[c]
                 THEN "readback" ELSE "update")
      /\ NoEffect /\ UNCHANGED <<hits, token, faults>>

\* They update it later, whatever has become of it meanwhile.
UpdateTarget(a) ==
  /\ pc[a] = "update"
  /\ Effect(a)
  /\ GoOn(a, "readback")
  /\ UNCHANGED <<hits, token, faults>>

StoreRefuses(a) ==
  /\ pc[a] = "store"
  /\ \E err \in StorageErrors(CallOf[a]) \ {"none"} : Respond(a, WriteServiceError(err))
  /\ NoEffect /\ UNCHANGED <<hits, token, faults>>

\* A statement fails and the transaction is rolled back ...
StoreFails(a) ==
  /\ pc[a] \in {"store", "update"}
  /\ Respond(a, 500) /\ Fault
  /\ NoEffect /\ UNCHANGED <<hits, token>>

\* ... or the commit takes place and its answer is lost.
StoreLost(a) ==
  /\ \/ pc[a] = "store" /\ Op(a) \notin TwoSteps /\ "none" \in StorageErrors(CallOf[a])
     \/ pc[a] = "update"
  /\ Effect(a)
  /\ Respond(a, 500) /\ Fault
  /\ UNCHANGED <<hits, token>>

\* GetPayment and GetSubscription after the change.
ReadBack(a) ==
  /\ pc[a] = "readback"
  /\ Respond(a, 200)
  /\ NoEffect /\ UNCHANGED <<hits, token, faults>>

ReadBackFails(a) ==
  /\ pc[a] = "readback"
  /\ Respond(a, 500) /\ Fault
  /\ NoEffect /\ UNCHANGED <<hits, token>>

\* The process is told to stop.  ListenAndServe returns as soon as Shutdown begins,
\* and main waits neither for Shutdown to end nor for the handlers, only for the
\* connections to the database to be given back (store.Close): an attempt in flight
\* is cut off between two storage operations; the process is started again.
Shutdown ==
  /\ InFlight # {}
  /\ pc' = [a \in Slots |-> IF a \in InFlight THEN "end" ELSE pc[a]]
  /\ seen' = [a \in Slots |-> IF a \in InFlight THEN Broken ELSE seen[a]]
  /\ Fault
  /\ NoEffect /\ UNCHANGED <<code, hits, token>>

Settled(c) == \E a \in Slots : CallOf[a] = c /\ seen[a] \notin TryAgain \cup {0}

AllDone ==
  /\ InFlight = {} /\ token = "valid" /\ \A o \in Limited : hits[o] = 0
  /\ \A a \in Slots : ~InDoubt(CallOf[a])
  /\ UNCHANGED vars

ServerStep(a) == \/ RequireUser(a) \/ WithRateLimit(a) \/ Check(a)
                 \/ Store(a) \/ ReadTarget(a) \/ UpdateTarget(a)
                 \/ StoreRefuses(a) \/ ReadBack(a)
FaultStep(a) == \/ GiveUp(a) \/ RateLimitFails(a) \/ StoreFails(a)
                \/ StoreLost(a) \/ ReadBackFails(a)

Next ==
  \/ \E a \in Slots : Send(a) \/ ServerStep(a) \/ FaultStep(a)
  \/ TokenExpires \/ TokenRenewed \/ NextWindow \/ Shutdown
  \/ AllDone

\* The server works on every attempt, windows end, tokens are renewed, and a client
\* that may try again does.
Fairness ==
  /\ \A a \in Slots : WF_vars(ServerStep(a)) /\ SF_vars(Send(a))
  /\ WF_vars(NextWindow) /\ WF_vars(TokenRenewed)

Spec == Init /\ [][Next]_vars
FairSpec == Spec /\ Fairness

--------------------------------------------------------------------------------
\* Properties

Codes == {200, 201, 202, 400, 401, 404, 409, 429, 500}

\* Every variable keeps its type: a key has at most one row.
TypeOK ==
  /\ pc \in [Slots -> {"ready", "auth", "limit", "check", "store", "update", "readback", "end"}]
  /\ code \in [Slots -> {0} \cup Codes] /\ seen \in [Slots -> {0, Broken} \cup Codes]
  /\ changed \in SUBSET Slots /\ effects \in [Calls -> Nat]
  /\ owner \in [Keys -> {{}} \cup {{c} : c \in Calls}]
  /\ DOMAIN data = Targets
  /\ hits \in [Limited -> Nat] /\ token \in {"valid", "expired"} /\ faults \in Nat

\* However often a call with an Idempotency-Key is tried again, also while an
\* earlier attempt is still running, it takes effect once at most; and of the
\* calls that share a key one at most takes effect.
OncePerKey ==
  \A k \in Keys : \A c, d \in {e \in Calls : KeyOf[e] = {k}} :
    /\ effects[c] <= 1
    /\ effects[c] > 0 /\ effects[d] > 0 => c = d

\* What a client is told is so: an attempt that is refused, by whichever layer, has
\* changed nothing; a success with a key is about a row made for the same request, a
\* conflict of a payment about one made for another; and a cancellation that is
\* accepted, or refused because of the payment's state, finds the payment no longer
\* pending, so that a client may read a 409 after a lost answer as success.
AnswersAreTrue ==
  \A a \in Slots :
    LET c == CallOf[a]
    IN  /\ code[a] \in Refused => a \notin changed
        /\ \A k \in KeyOf[c] :
             code[a] \in Success => \E d \in owner[k] : BodyOf[d] = BodyOf[c]
        /\ \A k \in KeyOf[c] :
             code[a] = 409 /\ OpOf[c] = "createPayment" =>
               \E d \in owner[k] : BodyOf[d] # BodyOf[c]
        /\ OpOf[c] = "cancelPayment" /\ code[a] \in {200, 409} /\ RefusalOf[c] = "none"
             => data[TargetOf[c]] # "PENDING"

\* In the end every call is settled: rate limits, expired tokens, lost answers and
\* restarts only delay it.
EveryCallSettles == <>(\A c \in Calls : Settled(c))

================================================================================
