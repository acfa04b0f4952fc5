------------------------------- MODULE ApiProofs -------------------------------
(***************************************************************************)
(* The API as its clients meet it.  First the calls of Api.tla, for any    *)
(* number of calls, keys, connections, retries and failures: a key takes   *)
(* effect once and an answer is true.  Then the bearer tokens of           *)
(* AccessTokens.tla, under the name Tok, for every lifetime, instant       *)
(* and difference of the clocks.  The two share no state; each has an      *)
(* inductive invariant of its own.                                         *)
(***************************************************************************)
EXTENDS Api, Integers, TLAPS

--------------------------------------------------------------------------------
\* Calls: the inductive invariant

\* A call with a key took effect if and only if the row of the key is its own.
EffectsOK ==
  \A c \in Calls : \A k \in KeyOf[c] :
    effects[c] <= 1 /\ (effects[c] > 0 => owner[k] = {c})

\* What the code n, answered to the attempt in slot a, says is so.
Truth(a, n) ==
  LET c == CallOf[a]
  IN  /\ n \in Refused => a \notin changed
      /\ \A k \in KeyOf[c] : n \in Success => \E d \in owner[k] : BodyOf[d] = BodyOf[c]
      /\ \A k \in KeyOf[c] :
           n = 409 /\ OpOf[c] = "createPayment" => \E d \in owner[k] : BodyOf[d] # BodyOf[c]
      /\ OpOf[c] = "cancelPayment" /\ n \in {200, 409} /\ RefusalOf[c] = "none"
           => data[TargetOf[c]] # "PENDING"

\* An attempt has a code when it has ended, and changed nothing before the storage
\* operation.  Only a cancellation or a switch has a second step, and who reads a
\* payment back has cancelled it.
AttemptOK(a) ==
  /\ pc[a] # "end" => code[a] = 0
  /\ a \in changed => pc[a] \in {"readback", "end"}
  /\ pc[a] \in {"update", "readback"} => Op(a) \in TwoSteps
  /\ pc[a] = "readback" /\ Op(a) = "cancelPayment" => data[TargetOf[CallOf[a]]] # "PENDING"
  /\ Truth(a, code[a])

IInv == TypeOK /\ EffectsOK /\ \A a \in Slots : AttemptOK(a)

\* The variables the attempts share.
SharedOK ==
  /\ changed \in SUBSET Slots /\ effects \in [Calls -> Nat]
  /\ owner \in [Keys -> {{}} \cup {{c} : c \in Calls}]
  /\ DOMAIN data = Targets
  /\ hits \in [Limited -> Nat] /\ token \in {"valid", "expired"} /\ faults \in Nat

\* What a step never undoes: the row of a key, and the end of a payment's pending.
Stable ==
  /\ \A k \in Keys : owner[k] # {} => owner'[k] = owner[k]
  /\ \A t \in Targets : data[t] # "PENDING" => data'[t] # "PENDING"

--------------------------------------------------------------------------------
\* Calls: the steps

LEMMA CallFacts ==
  ASSUME NEW a \in Slots
  PROVE  /\ CallOf[a] \in Calls /\ Op(a) = OpOf[CallOf[a]] /\ Op(a) \in Limited \cup Reads
         /\ TargetOf[CallOf[a]] \in Targets
         /\ KeyOf[CallOf[a]] \subseteq Keys
         /\ KeyOf[CallOf[a]] # {} => Op(a) \in {"createPayment", "createRefund"}
  BY ApiAssumption DEF Op

LEMMA OneKey ==
  ASSUME NEW c \in Calls
  PROVE  KeyOf[c] \subseteq Keys /\ \A j, k \in KeyOf[c] : j = k
  BY ApiAssumption

LEMMA InitOK == Init => IInv
<1> SUFFICES ASSUME Init PROVE IInv
  OBVIOUS
<1>1. TypeOK
  BY ApiAssumption DEF Init, TypeOK, Codes
<1>2. EffectsOK
  BY DEF Init, EffectsOK
<1>3. \A a \in Slots : AttemptOK(a)
  BY DEF Init, AttemptOK, Truth, Refused, Success
<1> QED
  BY <1>1, <1>2, <1>3 DEF IInv

\* The invariant from its parts.
LEMMA Assemble ==
  ASSUME SharedOK', EffectsOK',
         pc' \in [Slots -> {"ready", "auth", "limit", "check", "store", "update", "readback", "end"}],
         code' \in [Slots -> {0} \cup Codes], seen' \in [Slots -> {0, Broken} \cup Codes],
         \A a \in Slots : AttemptOK(a)'
  PROVE  IInv'
  BY DEF IInv, TypeOK, SharedOK

\* An attempt that a step does not touch stays as it should be.
LEMMA OthersKept ==
  ASSUME IInv, Stable, NEW b \in Slots,
         pc'[b] = pc[b] \/ (pc'[b] = "end" /\ code[b] = 0), code'[b] = code[b],
         b \in changed' => b \in changed
  PROVE  AttemptOK(b)'
<1> DEFINE c == CallOf[b]
<1>1. AttemptOK(b) /\ TargetOf[c] \in Targets /\ KeyOf[c] \subseteq Keys
  BY CallFacts DEF IInv
<1>2. data[TargetOf[c]] # "PENDING" => data'[TargetOf[c]] # "PENDING"
  BY <1>1 DEF Stable
<1>3. \A k \in KeyOf[c] : \A d \in owner[k] : d \in owner'[k]
  BY <1>1 DEF Stable
<1>4. Truth(b, code[b])'
  BY <1>1, <1>2, <1>3 DEF AttemptOK, Truth
<1>5. Op(b)' = Op(b)
  BY DEF Op
<1> HIDE DEF c
<1> QED
  BY <1>1, <1>2, <1>4, <1>5 DEF AttemptOK, c

LEMMA NoEffectFacts ==
  ASSUME IInv, NoEffect, hits' \in [Limited -> Nat], token' \in {"valid", "expired"},
         faults' \in Nat
  PROVE  /\ SharedOK' /\ EffectsOK' /\ Stable
         /\ changed' = changed /\ owner' = owner /\ data' = data
  BY DEF IInv, TypeOK, NoEffect, SharedOK, EffectsOK, Stable

LEMMA FaultFacts == ASSUME IInv, Fault PROVE faults' \in Nat
  BY DEF IInv, TypeOK, Fault

\* The attempt of slot a is answered with n, and that is true.
LEMMA Answered ==
  ASSUME IInv, NEW a \in Slots, NEW n \in Codes, Respond(a, n),
         SharedOK', EffectsOK', Stable, changed' \subseteq changed \cup {a}, Truth(a, n)'
  PROVE  IInv'
<1>1. /\ pc \in [Slots -> {"ready", "auth", "limit", "check", "store", "update", "readback", "end"}]
      /\ code \in [Slots -> {0} \cup Codes] /\ seen \in [Slots -> {0, Broken} \cup Codes]
  BY DEF IInv, TypeOK
<1>2. /\ pc' \in [Slots -> {"ready", "auth", "limit", "check", "store", "update", "readback", "end"}]
      /\ pc'[a] = "end" /\ \A b \in Slots : b # a => pc'[b] = pc[b]
  BY <1>1 DEF Respond, GoTo
<1>3. /\ code' \in [Slots -> {0} \cup Codes]
      /\ code'[a] = n /\ \A b \in Slots : b # a => code'[b] = code[b]
  BY <1>1 DEF Respond
<1>4. seen' \in [Slots -> {0, Broken} \cup Codes]
  BY <1>1 DEF Respond
<1>5. AttemptOK(a)'
  BY <1>2, <1>3 DEF AttemptOK, Truth
<1>6. ASSUME NEW b \in Slots, b # a PROVE AttemptOK(b)'
  BY <1>2, <1>3, <1>6, OthersKept
<1> QED
  BY <1>2, <1>3, <1>4, <1>5, <1>6, Assemble

\* The attempt of slot a goes on.
LEMMA GoesOn ==
  ASSUME IInv, NEW a \in Slots, pc[a] # "end",
         NEW step \in {"limit", "check", "store", "update", "readback"}, GoOn(a, step),
         SharedOK', EffectsOK', Stable, changed' \subseteq changed \cup {a},
         a \in changed' => step = "readback",
         step \in {"update", "readback"} => Op(a) \in TwoSteps,
         step = "readback" /\ Op(a) = "cancelPayment" => data'[TargetOf[CallOf[a]]] # "PENDING"
  PROVE  IInv'
<1>1. /\ pc \in [Slots -> {"ready", "auth", "limit", "check", "store", "update", "readback", "end"}]
      /\ code \in [Slots -> {0} \cup Codes] /\ seen \in [Slots -> {0, Broken} \cup Codes]
  BY DEF IInv, TypeOK
<1>2. /\ pc' \in [Slots -> {"ready", "auth", "limit", "check", "store", "update", "readback", "end"}]
      /\ pc'[a] = step /\ \A b \in Slots : b # a => pc'[b] = pc[b]
      /\ code' = code /\ seen' = seen
  BY <1>1 DEF GoOn, GoTo
<1>3. code[a] = 0
  BY DEF IInv, AttemptOK
<1>4. AttemptOK(a)'
  <2>1. Truth(a, code[a])'
    BY <1>2, <1>3 DEF Truth, Refused, Success
  <2> QED
    BY <1>2, <1>3, <2>1 DEF AttemptOK, Op
<1>5. ASSUME NEW b \in Slots, b # a PROVE AttemptOK(b)'
  BY <1>2, <1>5, OthersKept
<1> QED
  BY <1>1, <1>2, <1>4, <1>5, Assemble

\* An answer that says little is true.
LEMMA PlainTruth ==
  ASSUME IInv, NEW a \in Slots, pc[a] \in {"auth", "limit", "check", "store", "update"},
         NEW n \in {400, 401, 404, 429, 500}, changed' = changed
  PROVE  Truth(a, n)'
  BY DEF IInv, AttemptOK, Truth, Refused, Success

\* A storage operation that succeeds: the row of a key is made once, and for the
\* request that is answered from it.
LEMMA EffectFacts ==
  ASSUME IInv, NEW a \in Slots, Effect(a),
         "none" \in StorageErrors(CallOf[a]) \/ Op(a) \in TwoSteps,
         hits' \in [Limited -> Nat], token' \in {"valid", "expired"}, faults' \in Nat
  PROVE  /\ SharedOK' /\ EffectsOK' /\ Stable /\ changed' \subseteq changed \cup {a}
         /\ \A k \in KeyOf[CallOf[a]] :
              \E d \in owner'[k] : BodyOf[d] = BodyOf[CallOf[a]]
         /\ Op(a) = "cancelPayment" => data'[TargetOf[CallOf[a]]] # "PENDING"
<1> DEFINE c == CallOf[a]
<1>1. /\ c \in Calls /\ Op(a) = OpOf[c] /\ TargetOf[c] \in Targets /\ KeyOf[c] \subseteq Keys
      /\ KeyOf[c] # {} => OpOf[c] \in {"createPayment", "createRefund"}
  BY CallFacts
<1>2. /\ changed \in SUBSET Slots /\ effects \in [Calls -> Nat]
      /\ owner \in [Keys -> {{}} \cup {{d} : d \in Calls}] /\ DOMAIN data = Targets
  BY DEF IInv, TypeOK
<1>3. /\ changed' = IF Changes(c) THEN changed \cup {a} ELSE changed
      /\ effects' = IF Changes(c) THEN [effects EXCEPT ![c] = @ + 1] ELSE effects
      /\ owner' = [k \in Keys |-> IF k \in KeyOf[c] /\ Changes(c) THEN {c} ELSE owner[k]]
      /\ data' = [data EXCEPT ![TargetOf[c]] = NewData(c)]
  BY DEF Effect
<1>4. Changes(c) => \A k \in KeyOf[c] : owner[k] = {}
  BY DEF Changes
<1>5. KeyOf[c] # {} /\ ~Changes(c) => \E k \in KeyOf[c] : owner[k] # {}
  BY <1>1 DEF Changes, Reads
<1>6. \A k \in KeyOf[c] : \A d \in owner[k] : BodyOf[d] = BodyOf[c]
  <2>1. CASE "none" \in StorageErrors(c)
    <3> SUFFICES ASSUME NEW k \in KeyOf[c], NEW d \in owner[k], BodyOf[d] # BodyOf[c]
                 PROVE  FALSE
      OBVIOUS
    <3>1. StorageErrors(c) = {"ErrIdempotencyConflict"}
      BY DEF StorageErrors
    <3> QED
      BY <2>1, <3>1
  <2>2. CASE Op(a) \in TwoSteps
    BY <1>1, <2>2 DEF TwoSteps
  <2> QED
    BY <2>1, <2>2
<1>7. OpOf[c] = "patchSubscription" => BodyOf[c] # "PENDING"
  BY <1>1, ApiAssumption
<1> HIDE DEF c
<1>8. /\ DOMAIN data' = Targets /\ data'[TargetOf[c]] = NewData(c)
      /\ \A t \in Targets : t # TargetOf[c] => data'[t] = data[t]
  BY <1>1, <1>2, <1>3
<1>9. NewData(c) = "PENDING" => data[TargetOf[c]] = "PENDING"
  BY <1>7 DEF NewData
<1>10. Op(a) = "cancelPayment" => NewData(c) = "CANCELLED"
  BY <1>1 DEF NewData
<1>11. Stable
  <2>1. \A k \in Keys : owner[k] # {} => owner'[k] = owner[k]
    BY <1>2, <1>3, <1>4
  <2>2. \A t \in Targets : data[t] # "PENDING" => data'[t] # "PENDING"
    BY <1>8, <1>9
  <2> QED
    BY <2>1, <2>2 DEF Stable
<1>12. owner' \in [Keys -> {{}} \cup {{d} : d \in Calls}] /\ effects' \in [Calls -> Nat]
  <2>1. owner' \in [Keys -> {{}} \cup {{d} : d \in Calls}]
    BY <1>1, <1>2, <1>3
  <2>2. effects' \in [Calls -> Nat]
    BY <1>1, <1>2, <1>3
  <2> QED
    BY <2>1, <2>2
<1>13. SharedOK'
  BY <1>2, <1>3, <1>8, <1>12 DEF SharedOK
<1>14. EffectsOK'
  <2> SUFFICES ASSUME NEW d \in Calls, NEW k \in KeyOf[d]
               PROVE  effects'[d] <= 1 /\ (effects'[d] > 0 => owner'[k] = {d})
    BY DEF EffectsOK
  <2>1. k \in Keys /\ \A j \in KeyOf[d] : j = k
    BY OneKey
  <2>2. effects[d] \in Nat /\ effects[d] <= 1 /\ (effects[d] > 0 => owner[k] = {d})
    BY <1>2 DEF IInv, EffectsOK
  <2>3. CASE ~Changes(c)
    BY <1>3, <2>1, <2>2, <2>3
  <2>4. CASE Changes(c) /\ d = c
    <3>1. owner[k] = {} /\ owner'[k] = {c}
      BY <1>3, <1>4, <2>1, <2>4
    <3>2. effects[c] = 0
      BY <2>2, <2>4, <3>1
    <3>3. effects'[c] = 1
      BY <1>1, <1>2, <1>3, <2>4, <3>2
    <3> QED
      BY <2>4, <3>1, <3>3
  <2>5. CASE Changes(c) /\ d # c
    <3>1. effects'[d] = effects[d]
      BY <1>2, <1>3, <2>5
    <3>2. owner[k] = {d} => owner'[k] = {d}
      BY <1>3, <1>4, <2>1
    <3> QED
      BY <2>2, <3>1, <3>2
  <2> QED
    BY <2>3, <2>4, <2>5
<1>15. ASSUME NEW k \in KeyOf[c] PROVE \E d \in owner'[k] : BodyOf[d] = BodyOf[c]
  <2>1. CASE Changes(c)
    BY <1>1, <1>3, <1>15, <2>1
  <2>2. CASE ~Changes(c)
    <3>1. PICK j \in KeyOf[c] : owner[j] # {}
      BY <1>5, <1>15, <2>2
    <3>2. j = k /\ k \in Keys
      BY <1>1, <1>15, OneKey
    <3> QED
      BY <1>3, <1>6, <1>15, <2>2, <3>1, <3>2
  <2> QED
    BY <2>1, <2>2
<1>16. changed' \subseteq changed \cup {a}
  BY <1>3
<1> QED
  BY <1>8, <1>10, <1>11, <1>13, <1>14, <1>15, <1>16 DEF c

LEMMA SendKeeps == ASSUME IInv, NEW a \in Slots, Send(a) PROVE IInv'
<1>1. /\ pc \in [Slots -> {"ready", "auth", "limit", "check", "store", "update", "readback", "end"}]
      /\ code \in [Slots -> {0} \cup Codes] /\ seen \in [Slots -> {0, Broken} \cup Codes]
      /\ changed' = changed \ {a} /\ UNCHANGED <<effects, owner, data, hits, token, faults>>
  BY DEF IInv, TypeOK, Send
<1>2. /\ pc' \in [Slots -> {"ready", "auth", "limit", "check", "store", "update", "readback", "end"}]
      /\ pc'[a] = "auth" /\ \A b \in Slots : b # a => pc'[b] = pc[b]
  BY <1>1 DEF Send, GoTo
<1>3. /\ code' \in [Slots -> {0} \cup Codes]
      /\ code'[a] = 0 /\ \A b \in Slots : b # a => code'[b] = code[b]
  BY <1>1 DEF Send
<1>4. seen' \in [Slots -> {0, Broken} \cup Codes]
  BY <1>1 DEF Send
<1>5. SharedOK' /\ EffectsOK' /\ Stable
  BY <1>1 DEF IInv, TypeOK, SharedOK, EffectsOK, Stable
<1>6. AttemptOK(a)'
  BY <1>1, <1>2, <1>3 DEF AttemptOK, Truth, Refused, Success
<1>7. ASSUME NEW b \in Slots, b # a PROVE AttemptOK(b)'
  BY <1>1, <1>2, <1>3, <1>5, <1>7, OthersKept
<1> QED
  BY <1>2, <1>3, <1>4, <1>5, <1>6, <1>7, Assemble

\* Steps that touch neither the attempts' places nor their codes.
LEMMA AsideKeeps ==
  ASSUME IInv, NoEffect, UNCHANGED <<pc, code>>, seen' \in [Slots -> {0, Broken} \cup Codes],
         hits' \in [Limited -> Nat], token' \in {"valid", "expired"}, faults' \in Nat
  PROVE  IInv'
<1>1. /\ SharedOK' /\ EffectsOK' /\ Stable /\ changed' = changed
  BY NoEffectFacts
<1>2. ASSUME NEW b \in Slots PROVE AttemptOK(b)'
  BY <1>1, OthersKept
<1> QED
  BY <1>1, <1>2, Assemble DEF IInv, TypeOK

LEMMA ShutdownKeeps == ASSUME IInv, Shutdown PROVE IInv'
<1>1. /\ pc \in [Slots -> {"ready", "auth", "limit", "check", "store", "update", "readback", "end"}]
      /\ seen \in [Slots -> {0, Broken} \cup Codes] /\ code \in [Slots -> {0} \cup Codes]
      /\ hits' \in [Limited -> Nat] /\ token' \in {"valid", "expired"} /\ faults' \in Nat
      /\ NoEffect /\ code' = code
  BY FaultFacts DEF IInv, TypeOK, Shutdown
<1>2. /\ pc' = [a \in Slots |-> IF a \in InFlight THEN "end" ELSE pc[a]]
      /\ seen' = [a \in Slots |-> IF a \in InFlight THEN Broken ELSE seen[a]]
  BY DEF Shutdown
<1>3. /\ SharedOK' /\ EffectsOK' /\ Stable /\ changed' = changed
  BY <1>1, NoEffectFacts
<1>4. ASSUME NEW b \in Slots PROVE AttemptOK(b)'
  <2>1. b \in InFlight => code[b] = 0
    BY DEF InFlight, IInv, AttemptOK
  <2>2. pc'[b] = pc[b] \/ (pc'[b] = "end" /\ code[b] = 0)
    BY <1>2, <2>1
  <2> QED
    BY <1>1, <1>3, <2>2, OthersKept
<1>5. /\ pc' \in [Slots -> {"ready", "auth", "limit", "check", "store", "update", "readback", "end"}]
      /\ seen' \in [Slots -> {0, Broken} \cup Codes]
  BY <1>1, <1>2
<1> QED
  BY <1>1, <1>3, <1>4, <1>5, Assemble

\* The layers before the storage operation answer without having changed anything.
LEMMA MiddlewareKeeps ==
  ASSUME IInv, NEW a \in Slots,
         RequireUser(a) \/ WithRateLimit(a) \/ RateLimitFails(a) \/ Check(a)
  PROVE  IInv'
<1>1. /\ pc[a] \in {"auth", "limit", "check"} /\ NoEffect
      /\ token' \in {"valid", "expired"} /\ faults' \in Nat
  BY FaultFacts DEF IInv, TypeOK, RequireUser, WithRateLimit, RateLimitFails, Check
<1>2. hits' \in [Limited -> Nat]
  BY DEF IInv, TypeOK, RequireUser, WithRateLimit, RateLimitFails, Check
<1>3. /\ SharedOK' /\ EffectsOK' /\ Stable /\ changed' = changed /\ data' = data
  BY <1>1, <1>2, NoEffectFacts
<1>4. ASSUME NEW n \in {400, 401, 404, 429, 500}, Respond(a, n) PROVE IInv'
  <2>1. n \in Codes /\ Truth(a, n)'
    BY <1>1, <1>3, PlainTruth DEF Codes
  <2> QED
    BY <1>3, <1>4, <2>1, Answered
<1>5. ASSUME NEW step \in {"limit", "check", "store"}, GoOn(a, step) PROVE IInv'
  <2>1. a \notin changed'
    BY <1>1, <1>3 DEF IInv, AttemptOK
  <2> QED
    BY <1>1, <1>3, <1>5, <2>1, GoesOn
<1>6. CASE RequireUser(a)
  BY <1>4, <1>5, <1>6 DEF RequireUser
<1>7. CASE WithRateLimit(a)
  BY <1>4, <1>5, <1>7 DEF WithRateLimit
<1>8. CASE RateLimitFails(a)
  BY <1>4, <1>8 DEF RateLimitFails
<1>9. CASE Check(a)
  <2> DEFINE flaw == FlawOf[CallOf[a]]
  <2>1. flaw \in {"none", "body", "ErrPaymentNotFound"} \cup InputErrors
    BY CallFacts, ApiAssumption
  <2>2. CASE flaw = "none"
    BY <1>5, <1>9, <2>2 DEF Check
  <2>3. CASE flaw = "body"
    BY <1>4, <1>9, <2>3 DEF Check
  <2>4. CASE flaw \notin {"none", "body"}
    <3>1. WriteServiceError(flaw) \in {400, 404}
      <4>1. CASE flaw = "ErrPaymentNotFound"
        BY <4>1 DEF WriteServiceError, NotFoundErrors, InputErrors, StateErrors
      <4>2. CASE flaw \in InputErrors
        <5>1. flaw \notin NotFoundErrors /\ flaw \notin StateErrors
          BY <4>2 DEF NotFoundErrors, InputErrors, StateErrors
        <5> QED
          BY <4>2, <5>1 DEF WriteServiceError
      <4> QED
        BY <2>1, <2>4, <4>1, <4>2
    <3>2. Respond(a, WriteServiceError(flaw))
      BY <1>9, <2>4 DEF Check
    <3> QED
      BY <1>4, <3>1, <3>2
  <2> QED
    BY <2>2, <2>3, <2>4
<1> QED
  BY <1>6, <1>7, <1>8, <1>9

\* The storage operation succeeds, or its success is lost.
LEMMA StoreKeeps == ASSUME IInv, NEW a \in Slots, Store(a) \/ StoreLost(a) PROVE IInv'
<1> DEFINE c == CallOf[a]
<1>1. /\ Effect(a)
      /\ hits' \in [Limited -> Nat] /\ token' \in {"valid", "expired"} /\ faults' \in Nat
  BY FaultFacts DEF IInv, TypeOK, Store, StoreLost
<1>2. "none" \in StorageErrors(c) \/ Op(a) \in TwoSteps
  BY DEF IInv, AttemptOK, Store, StoreLost
<1>3. /\ SharedOK' /\ EffectsOK' /\ Stable /\ changed' \subseteq changed \cup {a}
      /\ \A k \in KeyOf[c] : \E d \in owner'[k] : BodyOf[d] = BodyOf[c]
  BY <1>1, <1>2, EffectFacts
<1>4. CASE StoreLost(a)
  <2>1. Truth(a, 500)' /\ 500 \in Codes
    BY DEF Truth, Refused, Success, Codes
  <2> QED
    BY <1>3, <1>4, <2>1, Answered DEF StoreLost
<1>5. CASE Store(a)
  <2>1. SuccessCode(c) \in Success /\ SuccessCode(c) \in Codes
    BY DEF SuccessCode, Success, Codes
  <2>2. OpOf[c] # "cancelPayment"
    BY <1>5, CallFacts DEF Store, TwoSteps
  <2>3. PICK n \in Success : n = SuccessCode(c)
    BY <2>1
  <2>4. Truth(a, n)'
    BY <1>3, <2>2, <2>3 DEF Truth, Refused, Success
  <2>5. Respond(a, n) /\ n \in Codes
    BY <1>5, <2>1, <2>3 DEF Store
  <2> QED
    BY <1>3, <2>4, <2>5, Answered
<1> QED
  BY <1>4, <1>5

\* The two steps of a cancellation or a switch: what was read may be stale by the time
\* of the update, but the update never makes a payment pending again.
LEMMA TargetKeeps == ASSUME IInv, NEW a \in Slots, ReadTarget(a) \/ UpdateTarget(a) PROVE IInv'
<1> DEFINE c == CallOf[a]
<1>1. /\ pc[a] # "end" /\ Op(a) \in TwoSteps /\ a \notin changed
      /\ hits' \in [Limited -> Nat] /\ token' \in {"valid", "expired"} /\ faults' \in Nat
  BY DEF IInv, TypeOK, AttemptOK, ReadTarget, UpdateTarget
<1>2. CASE ReadTarget(a)
  <2>1. /\ SharedOK' /\ EffectsOK' /\ Stable /\ changed' = changed
    BY <1>1, <1>2, NoEffectFacts DEF ReadTarget
  <2>2. CASE GoOn(a, "update")
    BY <1>1, <2>1, <2>2, GoesOn
  <2>3. CASE GoOn(a, "readback") /\ Op(a) = "patchSubscription"
    <3>1. a \notin changed' /\ Op(a) # "cancelPayment"
      BY <1>1, <2>1, <2>3
    <3> QED
      BY <1>1, <2>1, <2>3, <3>1, GoesOn
  <2> QED
    BY <1>2, <2>2, <2>3 DEF ReadTarget
<1>3. CASE UpdateTarget(a)
  <2>1. /\ SharedOK' /\ EffectsOK' /\ Stable /\ changed' \subseteq changed \cup {a}
        /\ Op(a) = "cancelPayment" => data'[TargetOf[c]] # "PENDING"
    BY <1>1, <1>3, EffectFacts DEF UpdateTarget
  <2> QED
    BY <1>1, <1>3, <2>1, GoesOn DEF UpdateTarget
<1> QED
  BY <1>2, <1>3

\* The storage operation is refused, or fails.
LEMMA RefusedKeeps ==
  ASSUME IInv, NEW a \in Slots, StoreRefuses(a) \/ StoreFails(a) PROVE IInv'
<1> DEFINE c == CallOf[a]
<1>1. /\ pc[a] \in {"store", "update"} /\ NoEffect
      /\ hits' \in [Limited -> Nat] /\ token' \in {"valid", "expired"} /\ faults' \in Nat
  BY FaultFacts DEF IInv, TypeOK, StoreRefuses, StoreFails
<1>2. /\ SharedOK' /\ EffectsOK' /\ Stable
      /\ changed' = changed /\ owner' = owner /\ data' = data
  BY <1>1, NoEffectFacts
<1>3. ASSUME NEW m \in {400, 404, 500}, Respond(a, m) PROVE IInv'
  <2>1. m \in Codes /\ Truth(a, m)'
    BY <1>1, <1>2, PlainTruth DEF Codes
  <2> QED
    BY <1>2, <1>3, <2>1, Answered
<1>4. CASE StoreFails(a)
  BY <1>3, <1>4 DEF StoreFails
<1>5. CASE StoreRefuses(a)
  <2>1. PICK err \in StorageErrors(c) \ {"none"} : Respond(a, WriteServiceError(err))
    BY <1>5 DEF StoreRefuses
  <2> DEFINE n == WriteServiceError(err)
  <2>2. n \in {400, 404, 409, 500}
    BY DEF WriteServiceError
  <2>3. CASE n = 409
    <3>1. OpOf[c] = "createPayment" =>
            \A k \in KeyOf[c] : \E d \in owner[k] : BodyOf[d] # BodyOf[c]
      <4> SUFFICES ASSUME OpOf[c] = "createPayment", NEW k \in KeyOf[c]
                   PROVE  \E d \in owner[k] : BodyOf[d] # BodyOf[c]
        OBVIOUS
      <4>1. RefusalOf[c] = "none" /\ \A j \in KeyOf[c] : j = k
        BY CallFacts, OneKey, ApiAssumption
      <4>2. \E j \in KeyOf[c] : \E d \in owner[j] : BodyOf[d] # BodyOf[c]
        BY <2>1, <4>1 DEF StorageErrors
      <4> QED
        BY <4>1, <4>2
    <3>2. OpOf[c] = "cancelPayment" /\ RefusalOf[c] = "none" => data[TargetOf[c]] # "PENDING"
      <4> SUFFICES ASSUME OpOf[c] = "cancelPayment", RefusalOf[c] = "none"
                   PROVE  data[TargetOf[c]] # "PENDING"
        OBVIOUS
      <4>1. KeyOf[c] = {}
        BY CallFacts
      <4> QED
        BY <2>1, <4>1 DEF StorageErrors
    <3>3. a \notin changed
      BY <1>1 DEF IInv, AttemptOK
    <3>4. Truth(a, 409)'
      BY <1>2, <3>1, <3>2, <3>3 DEF Truth, Success
    <3>5. 409 \in Codes /\ Respond(a, 409)
      BY <2>1, <2>3 DEF Codes
    <3> QED
      BY <1>2, <3>4, <3>5, Answered
  <2>4. Respond(a, n)
    BY <2>1
  <2> HIDE DEF n
  <2> QED
    BY <1>3, <2>2, <2>3, <2>4
<1> QED
  BY <1>4, <1>5

\* The handler reads back what it changed.
LEMMA ReadBackKeeps ==
  ASSUME IInv, NEW a \in Slots, ReadBack(a) \/ ReadBackFails(a) PROVE IInv'
<1> DEFINE c == CallOf[a]
<1>1. /\ pc[a] = "readback" /\ NoEffect
      /\ hits' \in [Limited -> Nat] /\ token' \in {"valid", "expired"} /\ faults' \in Nat
  BY FaultFacts DEF IInv, TypeOK, ReadBack, ReadBackFails
<1>2. /\ SharedOK' /\ EffectsOK' /\ Stable
      /\ changed' = changed /\ owner' = owner /\ data' = data
  BY <1>1, NoEffectFacts
<1>3. /\ KeyOf[c] = {}
      /\ OpOf[c] = "cancelPayment" => data[TargetOf[c]] # "PENDING"
  BY <1>1, CallFacts DEF IInv, AttemptOK, TwoSteps
<1>4. ASSUME NEW n \in {200, 500} PROVE n \in Codes /\ Truth(a, n)'
  BY <1>2, <1>3, <1>4 DEF Codes, Truth, Refused, Success
<1>5. Respond(a, 200) \/ Respond(a, 500)
  BY DEF ReadBack, ReadBackFails
<1> QED
  BY <1>2, <1>4, <1>5, Answered

LEMMA ApiStep == ASSUME IInv, [Next]_vars PROVE IInv'
<1>1. ASSUME NEW a \in Slots, Send(a) \/ ServerStep(a) PROVE IInv'
  BY <1>1, SendKeeps, MiddlewareKeeps, StoreKeeps, TargetKeeps, RefusedKeeps, ReadBackKeeps
     DEF ServerStep
<1>2. ASSUME NEW a \in Slots, GiveUp(a) PROVE IInv'
  <2>1. /\ NoEffect /\ UNCHANGED <<pc, code, hits, token>> /\ faults' \in Nat
        /\ hits' \in [Limited -> Nat] /\ token' \in {"valid", "expired"}
    BY <1>2, FaultFacts DEF GiveUp, IInv, TypeOK
  <2>2. seen' \in [Slots -> {0, Broken} \cup Codes]
    BY <1>2 DEF GiveUp, IInv, TypeOK
  <2> QED
    BY <2>1, <2>2, AsideKeeps
<1>3. ASSUME NEW a \in Slots, FaultStep(a), ~GiveUp(a) PROVE IInv'
  BY <1>3, MiddlewareKeeps, StoreKeeps, RefusedKeeps, ReadBackKeeps DEF FaultStep
<1>4. CASE TokenExpires \/ TokenRenewed \/ NextWindow
  <2>1. /\ NoEffect /\ UNCHANGED <<pc, code, seen>> /\ faults' \in Nat
        /\ hits' \in [Limited -> Nat] /\ token' \in {"valid", "expired"}
        /\ seen' \in [Slots -> {0, Broken} \cup Codes]
    BY <1>4, FaultFacts DEF TokenExpires, TokenRenewed, NextWindow, IInv, TypeOK
  <2> QED
    BY <2>1, AsideKeeps
<1>5. CASE AllDone \/ UNCHANGED vars
  <2>1. UNCHANGED <<pc, code, seen, changed, effects, owner, data, hits, token, faults>>
    BY <1>5 DEF AllDone, vars
  <2>2. /\ hits' \in [Limited -> Nat] /\ token' \in {"valid", "expired"} /\ faults' \in Nat
        /\ seen' \in [Slots -> {0, Broken} \cup Codes] /\ NoEffect
    BY <2>1 DEF IInv, TypeOK, NoEffect
  <2> QED
    BY <2>1, <2>2, AsideKeeps
<1> QED
  BY <1>1, <1>2, <1>3, <1>4, <1>5, ShutdownKeeps DEF Next

--------------------------------------------------------------------------------
\* Calls: the theorems

\* The inductive invariant holds through every retry, restart and lost answer.
THEOREM ApiInvariance == Spec => []IInv
<1>1. IInv /\ [Next]_vars => IInv'
  BY ApiStep
<1> QED
  BY <1>1, InitOK, PTL DEF Spec

\* Every variable keeps its type.
THEOREM ApiTypeCorrect == Spec => []TypeOK
<1>1. IInv => TypeOK
  BY DEF IInv
<1> QED
  BY <1>1, ApiInvariance, PTL

\* However often and on however many connections the calls with a key are tried, one
\* of them takes effect, and once.
THEOREM KeysTakeEffectOnce == Spec => []OncePerKey
<1>1. IInv => OncePerKey
  <2> SUFFICES ASSUME IInv, NEW k \in Keys, NEW c \in Calls, NEW d \in Calls,
                      KeyOf[c] = {k}, KeyOf[d] = {k}
               PROVE  effects[c] <= 1 /\ (effects[c] > 0 /\ effects[d] > 0 => c = d)
    BY DEF OncePerKey
  <2>1. /\ effects[c] <= 1 /\ (effects[c] > 0 => owner[k] = {c})
        /\ effects[d] > 0 => owner[k] = {d}
    BY DEF IInv, EffectsOK
  <2> QED
    BY <2>1
<1> QED
  BY <1>1, ApiInvariance, PTL

\* Every status code means what a client takes it to mean, for as long as the client
\* may remember it.
THEOREM CodesAreTrue == Spec => []AnswersAreTrue
<1>1. IInv => AnswersAreTrue
  BY DEF IInv, AttemptOK, Truth, AnswersAreTrue
<1> QED
  BY <1>1, ApiInvariance, PTL

--------------------------------------------------------------------------------
\* Tokens: the inductive invariant

CONSTANT Secrets
VARIABLES clock, skew, secret, iat, exp, signed, issued, ttl, verdict, at, over

Tok == INSTANCE AccessTokens

\* The claims say when the token was issued and how long it lives, cut to seconds.
ClaimsAreTrue ==
  iat > 0 => /\ issued + skew \in Nat
             /\ iat = Tok!Unix(issued + skew) /\ exp = iat + Tok!Unix(ttl)

\* The last verdict on the token is what the claims said at that time.
VerdictIsTrue ==
  /\ verdict # "none" => iat > 0 /\ at <= clock
  /\ verdict = "accepted" => Tok!ClaimsValid(Tok!Unix(at))
  /\ verdict = "refused" => ~Tok!ClaimsValid(Tok!Unix(at))

\* A token that is over has expired, and its last verdict says nothing else.
OverIsTrue ==
  over => iat > 0 /\ exp <= Tok!Unix(clock) /\ verdict # "accepted"

TokenInv ==
  /\ Tok!TypeOK
  /\ clock >= Tok!Second /\ clock + skew >= Tok!Second
  /\ ClaimsAreTrue
  /\ VerdictIsTrue
  /\ OverIsTrue

--------------------------------------------------------------------------------
\* Tokens: arithmetic of whole seconds

LEMMA SecondIsNat == Tok!Second \in Nat \ {0} /\ Tok!MaxTtl \in Nat
  BY DEF Tok!Second, Tok!MaxTtl

LEMMA UnixBounds ==
  ASSUME NEW t \in Nat
  PROVE  /\ Tok!Unix(t) \in Nat
         /\ Tok!Unix(t) * Tok!Second <= t /\ t < Tok!Unix(t) * Tok!Second + Tok!Second
         /\ t >= Tok!Second => Tok!Unix(t) > 0
<1>1. Tok!Second \in Nat /\ Tok!Second > 0
  BY SecondIsNat
<1> QED
  BY <1>1 DEF Tok!Unix

LEMMA TimesSecond ==
  ASSUME NEW a \in Nat, NEW b \in Nat, a <= b
  PROVE  a * Tok!Second <= b * Tok!Second
<1>1. Tok!Second \in Nat
  BY SecondIsNat
<1> QED
  BY <1>1

LEMMA SumTimesSecond ==
  ASSUME NEW a \in Nat, NEW b \in Nat
  PROVE  (a + b) * Tok!Second = a * Tok!Second + b * Tok!Second
<1>1. Tok!Second \in Nat
  BY SecondIsNat
<1> QED
  BY <1>1

LEMMA ProductIsNat ==
  ASSUME NEW a \in Nat
  PROVE  a * Tok!Second \in Nat
<1>1. Tok!Second \in Nat
  BY SecondIsNat
<1> QED
  BY <1>1

\* A later instant is in the same second or in a later one.
LEMMA UnixGrows ==
  ASSUME NEW s \in Nat, NEW t \in Nat, s <= t
  PROVE  Tok!Unix(s) <= Tok!Unix(t)
<1>1. SUFFICES ASSUME Tok!Unix(t) < Tok!Unix(s) PROVE FALSE
  BY UnixBounds
<1>2. Tok!Unix(s) \in Nat /\ Tok!Unix(t) \in Nat /\ Tok!Second \in Nat
  BY UnixBounds, SecondIsNat
<1>3. (Tok!Unix(t) + 1) * Tok!Second <= Tok!Unix(s) * Tok!Second
  BY <1>1, <1>2, TimesSecond
<1>4. (Tok!Unix(t) + 1) * Tok!Second = Tok!Unix(t) * Tok!Second + Tok!Second
  BY <1>2, SumTimesSecond
<1>5. Tok!Unix(s) * Tok!Second <= s /\ t < Tok!Unix(t) * Tok!Second + Tok!Second
  BY UnixBounds
<1>6. Tok!Unix(s) * Tok!Second \in Nat /\ Tok!Unix(t) * Tok!Second \in Nat
  BY <1>2, ProductIsNat
<1> HIDE DEF Tok!Unix
<1> QED
  BY <1>2, <1>3, <1>4, <1>5, <1>6

--------------------------------------------------------------------------------
\* Tokens: the steps

LEMMA LaterStill ==
  ASSUME NEW a \in Nat, NEW b \in Nat, NEW s \in Int, NEW n \in Nat,
         a <= b, a >= n, a + s >= n
  PROVE  b >= n /\ b + s >= n
  OBVIOUS

LEMMA TokenInit == Tok!Init => TokenInv
<1> SUFFICES ASSUME Tok!Init PROVE TokenInv
  OBVIOUS
<1>1. over = FALSE
  BY DEF Tok!Init
<1>2. over \in BOOLEAN /\ OverIsTrue
  BY <1>1 DEF OverIsTrue
<1>3. Tok!TypeOK
  BY <1>2, SecondIsNat DEF Tok!Init, Tok!TypeOK
<1>4. clock >= Tok!Second /\ clock + skew >= Tok!Second /\ ClaimsAreTrue /\ VerdictIsTrue
  BY DEF Tok!Init, ClaimsAreTrue, VerdictIsTrue
<1> QED
  BY <1>2, <1>3, <1>4 DEF TokenInv

LEMMA IssueKeeps ==
  ASSUME TokenInv, NEW lifetime \in Int, Tok!Issue(lifetime)
  PROVE  TokenInv'
<1> USE DEF TokenInv, Tok!TypeOK
<1>1. /\ clock \in Nat /\ skew \in Int
      /\ Tok!Second \in Nat /\ Tok!Second > 0 /\ Tok!MaxTtl \in Nat /\ lifetime \in Nat
  BY SecondIsNat DEF Tok!Issue
<1>2. clock + skew \in Nat /\ clock + skew >= Tok!Second
  BY <1>1
<1>3. Tok!Unix(clock + skew) \in Nat /\ Tok!Unix(clock + skew) > 0
  BY <1>2, UnixBounds
<1>4. lifetime >= Tok!Second /\ lifetime <= Tok!MaxTtl
  BY DEF Tok!Issue
<1>5. Tok!Unix(lifetime) \in Nat /\ Tok!Unix(lifetime) > 0
  BY <1>1, <1>4, UnixBounds
<1>6. iat' = Tok!Unix(clock + skew) /\ exp' = iat' + Tok!Unix(lifetime) /\ iat' \in Nat
      /\ exp' \in Nat /\ exp' > iat'
  BY <1>3, <1>5 DEF Tok!Issue
<1>7. Tok!TypeOK'
  BY <1>1, <1>4, <1>6 DEF Tok!Issue
<1>8. ClaimsAreTrue'
  BY <1>2, <1>6 DEF Tok!Issue, ClaimsAreTrue, Tok!Unix
<1>9. VerdictIsTrue'
  BY DEF Tok!Issue, VerdictIsTrue
<1>10. (clock >= Tok!Second /\ clock + skew >= Tok!Second)'
  BY DEF Tok!Issue
<1>11. OverIsTrue'
  BY DEF Tok!Issue, OverIsTrue
<1> QED
  BY <1>7, <1>8, <1>9, <1>10, <1>11

LEMMA AuthenticateKeeps == ASSUME TokenInv, Tok!Authenticate PROVE TokenInv'
<1> USE DEF TokenInv, Tok!TypeOK
<1>1. Tok!TypeOK' /\ (clock >= Tok!Second /\ clock + skew >= Tok!Second)'
  BY DEF Tok!Authenticate, Tok!token
<1>2. ClaimsAreTrue'
  BY DEF Tok!Authenticate, ClaimsAreTrue, Tok!token, Tok!Unix
<1>3. VerdictIsTrue'
  BY DEF Tok!Authenticate, VerdictIsTrue, Tok!ClaimsValid, Tok!token, Tok!Unix
<1>4. OverIsTrue'
  <2>1. /\ iat > 0 /\ clock \in Nat /\ iat \in Nat /\ exp \in Nat /\ exp > iat
        /\ issued + skew \in Nat /\ iat = Tok!Unix(issued + skew)
        /\ Tok!Unix(clock) \in Nat
    BY UnixBounds DEF Tok!Authenticate, ClaimsAreTrue
  <2>2. UNCHANGED <<clock, iat, exp>>
    BY DEF Tok!Authenticate, Tok!token
  <2>3. over => exp <= Tok!Unix(clock)
    BY DEF OverIsTrue
  <2>4. verdict' = "accepted" => Tok!ClaimsValid(Tok!Unix(clock))
    BY DEF Tok!Authenticate
  <2>5. verdict' = "refused" /\ clock >= issued + skew => exp <= Tok!Unix(clock)
    <3>1. verdict' = "refused" => ~Tok!ClaimsValid(Tok!Unix(clock))
      BY DEF Tok!Authenticate
    <3>2. clock >= issued + skew => iat <= Tok!Unix(clock)
      BY <2>1, UnixGrows
    <3> QED
      BY <2>1, <3>1, <3>2 DEF Tok!ClaimsValid
  <2>6. over' => over \/ (verdict' = "refused" /\ clock >= issued + skew)
    BY DEF Tok!Authenticate
  <2>7. over' => exp <= Tok!Unix(clock)
    BY <2>3, <2>5, <2>6
  <2>8. over' => verdict' # "accepted"
    BY <2>1, <2>4, <2>7 DEF Tok!ClaimsValid
  <2> QED
    BY <2>1, <2>2, <2>7, <2>8 DEF OverIsTrue, Tok!Unix
<1> QED
  BY <1>1, <1>2, <1>3, <1>4

LEMMA RestKeeps == ASSUME TokenInv, Tok!Rotate \/ Tok!Tick \/ UNCHANGED Tok!vars PROVE TokenInv'
<1>1. /\ clock' \in Nat /\ clock' >= clock
      /\ secret' \in Secrets
      /\ UNCHANGED <<skew, iat, exp, signed, issued, ttl, verdict, at, over>>
  BY DEF TokenInv, Tok!TypeOK, Tok!Rotate, Tok!Tick, Tok!token, Tok!vars
<1>2. Tok!TypeOK'
  BY <1>1 DEF TokenInv, Tok!TypeOK
<1>5. (clock >= Tok!Second /\ clock + skew >= Tok!Second)'
  <2>1. /\ clock \in Nat /\ skew \in Int /\ clock >= Tok!Second /\ clock + skew >= Tok!Second
        /\ Tok!Second \in Nat
    BY SecondIsNat DEF TokenInv, Tok!TypeOK
  <2>2. clock' \in Nat /\ clock <= clock' /\ skew' = skew
    BY <1>1, <2>1
  <2>3. clock' >= Tok!Second /\ clock' + skew >= Tok!Second
    BY <2>1, <2>2, LaterStill
  <2> QED
    BY <2>2, <2>3
<1>3. ClaimsAreTrue'
  BY <1>1 DEF TokenInv, ClaimsAreTrue, Tok!Unix
<1>4. VerdictIsTrue'
  BY <1>1 DEF TokenInv, Tok!TypeOK, VerdictIsTrue, Tok!ClaimsValid, Tok!Unix
<1>6. OverIsTrue'
  <2>1. clock \in Nat /\ exp \in Nat
    BY DEF TokenInv, Tok!TypeOK
  <2>2. Tok!Unix(clock) \in Nat /\ Tok!Unix(clock') \in Nat /\ Tok!Unix(clock) <= Tok!Unix(clock')
    BY <1>1, <2>1, UnixBounds, UnixGrows
  <2>3. over => exp <= Tok!Unix(clock')
    BY <2>1, <2>2 DEF TokenInv, OverIsTrue
  <2>4. Tok!Unix(clock)' = Tok!Unix(clock')
    BY DEF Tok!Unix
  <2> QED
    BY <1>1, <2>3, <2>4 DEF TokenInv, OverIsTrue
<1> QED
  BY <1>2, <1>3, <1>4, <1>5, <1>6 DEF TokenInv

\* Every step keeps the invariant: issuing, checking, rotating the secret, time.
THEOREM TokenInvariance == Tok!Spec => []TokenInv
<1>1. TokenInv /\ [Tok!Next]_(Tok!vars) => TokenInv'
  BY IssueKeeps, AuthenticateKeeps, RestKeeps DEF Tok!Next
<1> QED
  BY TokenInit, <1>1, PTL DEF Tok!Spec

\* Every variable keeps its type, and every issued token expires after its issue.
THEOREM TokenTypeCorrect == Tok!Spec => []Tok!TypeOK
<1>1. TokenInv => Tok!TypeOK
  BY DEF TokenInv
<1> QED
  BY TokenInvariance, <1>1, PTL

--------------------------------------------------------------------------------
\* Tokens: the theorems

\* The bounds of a token that was checked, in nanoseconds.
LEMMA TokenBounds ==
  ASSUME TokenInv, verdict # "none"
  PROVE  /\ at \in Nat /\ issued + skew \in Nat /\ ttl \in Nat /\ iat \in Nat /\ iat > 0
         /\ Tok!Unix(at) \in Nat /\ exp \in Nat /\ exp > iat
         /\ Tok!Unix(at) * Tok!Second <= at /\ at < Tok!Unix(at) * Tok!Second + Tok!Second
         /\ iat * Tok!Second <= issued + skew /\ issued + skew < iat * Tok!Second + Tok!Second
         /\ exp * Tok!Second <= issued + skew + ttl
         /\ issued + skew + ttl < exp * Tok!Second + 2 * Tok!Second
         /\ iat * Tok!Second \in Nat /\ exp * Tok!Second \in Nat
         /\ Tok!Unix(at) * Tok!Second \in Nat
<1>1. iat > 0 /\ iat \in Nat /\ at \in Nat /\ ttl \in Nat /\ exp \in Nat /\ exp > iat
  BY SecondIsNat DEF TokenInv, Tok!TypeOK, VerdictIsTrue
<1>2. issued + skew \in Nat /\ iat = Tok!Unix(issued + skew) /\ exp = iat + Tok!Unix(ttl)
  BY <1>1 DEF TokenInv, ClaimsAreTrue
<1>3. /\ Tok!Unix(at) \in Nat /\ Tok!Unix(at) * Tok!Second <= at
      /\ at < Tok!Unix(at) * Tok!Second + Tok!Second
  BY <1>1, UnixBounds
<1>4. iat * Tok!Second <= issued + skew /\ issued + skew < iat * Tok!Second + Tok!Second
  BY <1>2, UnixBounds
<1>5. /\ Tok!Unix(ttl) \in Nat /\ Tok!Unix(ttl) * Tok!Second <= ttl
      /\ ttl < Tok!Unix(ttl) * Tok!Second + Tok!Second
  BY <1>1, UnixBounds
<1>6. exp * Tok!Second = iat * Tok!Second + Tok!Unix(ttl) * Tok!Second
  BY <1>1, <1>2, <1>5, SumTimesSecond
<1>7. /\ iat * Tok!Second \in Nat /\ Tok!Unix(ttl) * Tok!Second \in Nat
      /\ Tok!Unix(at) * Tok!Second \in Nat
      /\ Tok!Second \in Nat /\ exp * Tok!Second \in Nat
  BY <1>1, <1>3, <1>5, ProductIsNat, SecondIsNat
<1>8. /\ exp * Tok!Second <= issued + skew + ttl
      /\ issued + skew + ttl < exp * Tok!Second + 2 * Tok!Second
  <2> DEFINE i == iat * Tok!Second
             u == Tok!Unix(ttl) * Tok!Second
             e == exp * Tok!Second
             b == issued + skew
  <2>1. i \in Nat /\ u \in Nat /\ e = i + u /\ b \in Nat /\ ttl \in Nat /\ Tok!Second \in Nat
        /\ i <= b /\ b < i + Tok!Second /\ u <= ttl /\ ttl < u + Tok!Second
    BY <1>1, <1>2, <1>4, <1>5, <1>6, <1>7
  <2> HIDE DEF i, u, e, b
  <2>2. e <= b + ttl /\ b + ttl < e + 2 * Tok!Second
    BY <2>1
  <2> QED
    BY <2>2 DEF e, b
<1> QED
  BY <1>1, <1>2, <1>3, <1>4, <1>7, <1>8

\* A token is accepted for less than its lifetime and the lead of the issuer's clock.
THEOREM AcceptedInTime == Tok!Spec => []Tok!LateBySkewAtMost
<1>1. TokenInv => Tok!LateBySkewAtMost
  <2> SUFFICES ASSUME TokenInv, verdict = "accepted" PROVE at - issued < ttl + skew
    BY DEF Tok!LateBySkewAtMost
  <2>1. Tok!Unix(at) < exp
    BY DEF TokenInv, VerdictIsTrue, Tok!ClaimsValid
  <2>2. (Tok!Unix(at) + 1) * Tok!Second <= exp * Tok!Second
    BY <2>1, TokenBounds, TimesSecond
  <2>3. (Tok!Unix(at) + 1) * Tok!Second = Tok!Unix(at) * Tok!Second + 1 * Tok!Second
    BY TokenBounds, SumTimesSecond
  <2>4. 1 * Tok!Second = Tok!Second /\ Tok!Second \in Nat
    BY SecondIsNat
  <2> DEFINE n == Tok!Unix(at) * Tok!Second
             e == exp * Tok!Second
             l == issued + skew + ttl
  <2>5. n \in Nat /\ e \in Nat /\ l \in Nat /\ at \in Nat
        /\ n + Tok!Second <= e /\ at < n + Tok!Second /\ e <= l
    BY <2>2, <2>3, <2>4, TokenBounds
  <2> HIDE DEF n, e, l
  <2>6. at < l
    BY <2>4, <2>5
  <2>7. at \in Nat /\ issued \in Nat /\ ttl \in Nat /\ skew \in Int
    BY DEF TokenInv, Tok!TypeOK
  <2> QED
    BY <2>6, <2>7 DEF l
<1> QED
  BY TokenInvariance, <1>1, PTL

\* A token is refused only when the API's clock is less than two seconds from the end
\* the issuer gave it, or past it, or has not come to its beginning.
THEOREM RefusalsHaveCause == Tok!Spec => []Tok!RefusedForCause
<1>1. TokenInv => Tok!RefusedForCause
  <2> SUFFICES ASSUME TokenInv, verdict = "refused"
               PROVE  at > issued + skew + ttl - 2 * Tok!Second \/ at < issued + skew
    BY DEF Tok!RefusedForCause
  <2>1. exp <= Tok!Unix(at) \/ Tok!Unix(at) < iat
    BY TokenBounds DEF TokenInv, VerdictIsTrue, Tok!ClaimsValid
  <2>2. Tok!Second \in Nat
    BY SecondIsNat
  <2> DEFINE n == Tok!Unix(at) * Tok!Second
             e == exp * Tok!Second
             i == iat * Tok!Second
             b == issued + skew
  <2>3. /\ n \in Nat /\ e \in Nat /\ i \in Nat /\ b \in Nat /\ at \in Nat /\ ttl \in Nat
        /\ n <= at /\ at < n + Tok!Second /\ i <= b /\ b + ttl < e + 2 * Tok!Second
    BY TokenBounds
  <2>4. CASE exp <= Tok!Unix(at)
    <3>1. e <= n
      BY <2>4, TokenBounds, TimesSecond
    <3> HIDE DEF n, e, i, b
    <3>2. at > b + ttl - 2 * Tok!Second
      BY <2>2, <2>3, <3>1
    <3> QED
      BY <3>2 DEF b
  <2>5. CASE Tok!Unix(at) < iat
    <3>1. (Tok!Unix(at) + 1) * Tok!Second <= i
      BY <2>5, TokenBounds, TimesSecond
    <3>2. (Tok!Unix(at) + 1) * Tok!Second = n + 1 * Tok!Second /\ 1 * Tok!Second = Tok!Second
      BY <2>2, TokenBounds, SumTimesSecond
    <3>3. n + Tok!Second <= i
      BY <3>1, <3>2
    <3> HIDE DEF n, e, i, b
    <3>4. at < b
      BY <2>2, <2>3, <3>3
    <3> QED
      BY <3>4 DEF b
  <2> QED
    BY <2>1, <2>4, <2>5
<1> QED
  BY TokenInvariance, <1>1, PTL

\* A token refused once it had begun is over: no later check accepts it.
THEOREM RefusedForGood == Tok!Spec => []Tok!RefusedStaysRefused
<1>1. TokenInv => Tok!RefusedStaysRefused
  BY DEF TokenInv, OverIsTrue, Tok!RefusedStaysRefused
<1> QED
  BY TokenInvariance, <1>1, PTL

================================================================================
