------------------------------ MODULE ProviderApi ------------------------------
(***************************************************************************)
(* The refund provider as its callers see it: what one HTTP request does   *)
(* to the provider's record of an operation (internal/mockprovider), and   *)
(* how the client turns the HTTP answer into a result or an error          *)
(* (internal/provider).  A record keeps the part of provider.Result the    *)
(* worker acts on; the operation id is the index of the record.            *)
(***************************************************************************)
EXTENDS Naturals

CONSTANT RetryAfter     \* the Retry-After header of a 429 answer, in ticks

ASSUME RetryAfterAssumption == RetryAfter \in Nat

ProviderStatuses == {"SUCCEEDED", "FAILED", "PROCESSING", "UNKNOWN", "NOT_FOUND"}

\* "NOT_FOUND" stands for the absence of a record in the server's map.
Records == {rec \in [status : ProviderStatuses, retryable : BOOLEAN] :
              rec.retryable => rec.status = "FAILED"}

NotFound == [status |-> "NOT_FOUND", retryable |-> FALSE]

Modes == {"ok", "processing", "unknown", "invalid", "failed",
          "retryable-failed", "unavailable", "rate-limit",
          "timeout-after-success"}

\* The record a mode makes of a fresh submission.
ModeRecord(mode) ==
  [status |-> CASE mode = "processing" -> "PROCESSING"
                [] mode = "unknown" -> "UNKNOWN"
                [] mode \in {"failed", "retryable-failed"} -> "FAILED"
                [] OTHER -> "SUCCEEDED",
   retryable |-> mode = "retryable-failed"]

\* Mutant: every failed operation is executed anew.
ReplayedMutant(old) == old.status \notin {"NOT_FOUND", "FAILED"}

\* Mutant: an operation that is still open is executed anew.
ReplayedOpenMutant(old) ==
  old.status = "SUCCEEDED" \/ (old.status = "FAILED" /\ ~old.retryable)

\* A known operation is answered from its record, unless that record invites
\* a retry of the same operation.
Replayed(old) ==
  old.status # "NOT_FOUND" /\ ~(old.status = "FAILED" /\ old.retryable)

\* submitLocked as the set of its outcomes: the HTTP code, and the record
\* afterwards.  A failing saveLocked answers 500 and leaves the record alone.
SubmitLocked(old, mode) ==
  IF Replayed(old)
  THEN {[code |-> 200, record |-> old]}
  ELSE CASE mode = "unavailable" -> {[code |-> 503, record |-> old]}
         [] mode = "rate-limit"  -> {[code |-> 429, record |-> old]}
         [] mode = "invalid"     -> {[code |-> 400, record |-> old]}
         [] OTHER -> {[code |-> 200, record |-> ModeRecord(mode)],
                      [code |-> 500, record |-> old]}

\* "operation is final": resolve refuses it.
IsFinal(rec) ==
  rec.status = "SUCCEEDED" \/ (rec.status = "FAILED" /\ ~rec.retryable)

\* The records an operator may turn `rec` into with /admin/refunds/{id}/resolve.
Resolutions(rec) ==
  IF rec.status = "NOT_FOUND" \/ IsFinal(rec)
  THEN {}
  ELSE {[status |-> "SUCCEEDED", retryable |-> FALSE]}
       \cup [status : {"FAILED"}, retryable : BOOLEAN]

\* lookup reads the record.
LookupCode(rec) == IF rec.status = "NOT_FOUND" THEN 404 ELSE 200

--------------------------------------------------------------------------------
\* What provider.Client returns: a Result (error = "none"), or an Error that is
\* permanent, a configuration error, or plain.

Answers == [error : {"none", "plain", "permanent", "configuration"},
            status : ProviderStatuses, retryable : BOOLEAN,
            retryAfter : {0, RetryAfter}]

ErrorAnswer(class, after) ==
  [error |-> class, status |-> "NOT_FOUND", retryable |-> FALSE,
   retryAfter |-> after]

ResultAnswer(rec) ==
  [error |-> "none", status |-> rec.status, retryable |-> rec.retryable,
   retryAfter |-> 0]

\* c.http.Do failed: refused, broken or timed out.
TransportError == ErrorAnswer("plain", 0)

\* call: the classification of an HTTP answer with code `code` and body `rec`.
\* A body that cannot be read, or is about another operation, is a plain error
\* like any other broken answer.
ClientCall(isPost, code, rec) ==
  CASE ~isPost /\ code = 404 -> ResultAnswer(NotFound)
    [] /\ code = 200 /\ rec.status # "NOT_FOUND"
       /\ rec.retryable => rec.status = "FAILED" -> ResultAnswer(rec)
    [] isPost /\ code \in {400, 422} -> ErrorAnswer("permanent", 0)
    [] code \in {401, 403, 409} \cup 300..399 -> ErrorAnswer("configuration", 0)
    [] code = 429 -> ErrorAnswer("plain", RetryAfter)
    [] OTHER -> ErrorAnswer("plain", 0)

================================================================================
