---------------------------- MODULE ProviderPromise ----------------------------
(***************************************************************************)
(* What the refund worker may rely on in a provider, whatever the provider *)
(* is made of: an operation is executed when it is unknown or when its     *)
(* failure invites another try, an open operation may be settled, and a    *)
(* final result stays.  There are no requests, answers, files or restarts  *)
(* here; MockProvider, with its file, is shown to implement this.          *)
(***************************************************************************)
EXTENDS ProviderApi

CONSTANT Operations

VARIABLE rec     \* rec[o]: the result every later caller is told

Init == rec = [o \in Operations |-> NotFound]

\* The worker posts an operation again only in the hope of this.
Executable(old) == old = NotFound \/ old.retryable

Execute(o) ==
  /\ Executable(rec[o])
  /\ \E new \in Records \ {NotFound} : rec' = [rec EXCEPT ![o] = new]

\* What is reported as open, or as a failure to be retried, may be decided later.
Settle(o) ==
  /\ rec[o].status \in {"PROCESSING", "UNKNOWN"} \/ rec[o].retryable
  /\ \E new \in Records : /\ new.status \in {"SUCCEEDED", "FAILED"}
                          /\ rec' = [rec EXCEPT ![o] = new]

Next == \E o \in Operations : Execute(o) \/ Settle(o)

Spec == Init /\ [][Next]_rec

================================================================================
