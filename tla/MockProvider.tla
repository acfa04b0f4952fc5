------------------------------ MODULE MockProvider ------------------------------
(***************************************************************************)
(* The mock provider and its file (internal/mockprovider/server.go): the   *)
(* records live in memory, every change is first written to the file that  *)
(* a restarted server reads back, and writing may fail at any point.       *)
(* Handlers run under one mutex, so each is one step; its answer is the    *)
(* last thing it does.  The request counters of /admin/stats are left out. *)
(***************************************************************************)
EXTENDS ProviderApi

CONSTANTS Operations, Bodies   \* operation ids; the payment, amount and currency sent

VARIABLES
  mem,      \* mem[o]: the record in memory
  disk,     \* disk[o]: the record in the file
  body,     \* body[o]: the request the record in memory was made for
  diskBody, \* diskBody[o]: the same in the file
  mode,
  told      \* told[o]: the record a client was last shown

vars == <<mem, disk, body, diskBody, mode, told>>

Init ==
  /\ mem = [o \in Operations |-> NotFound]
  /\ disk = mem
  /\ body \in [Operations -> Bodies] /\ diskBody = body
  /\ mode \in Modes
  /\ told = mem

\* How far saveLocked gets: the file is renamed into place and memory follows;
\* it fails before the rename; or it fails after it, syncing the directory.
SaveOutcomes == {"saved", "unchanged", "renamed"}

SaveLocked(o, rec, b, outcome) ==
  LET next == [mem EXCEPT ![o] = rec]
      nextBody == [body EXCEPT ![o] = b]
  IN  /\ mem' = IF outcome = "saved" THEN next ELSE mem
      /\ body' = IF outcome = "saved" THEN nextBody ELSE body
      /\ disk' = IF outcome = "unchanged" THEN disk ELSE next
      /\ diskBody' = IF outcome = "unchanged" THEN diskBody ELSE nextBody

Tell(o, rec) == told' = [told EXCEPT ![o] = rec]

Unsaved == UNCHANGED <<mem, disk, body, diskBody>>

\* Mutant: the result is answered though it could not be saved.
SubmitUnsavedMutant(o, b) ==
  /\ mem[o].status = "NOT_FOUND" \/ body[o] = b
  /\ IF Replayed(mem[o])
     THEN Unsaved /\ Tell(o, mem[o])
     ELSE \E outcome \in SaveOutcomes :
            SaveLocked(o, ModeRecord(mode), b, outcome) /\ Tell(o, ModeRecord(mode))
  /\ UNCHANGED mode

\* submit: a known operation with another body is refused, one that is not to be
\* retried is answered from its record, and the mode decides the rest.
Submit(o, b) ==
  /\ UNCHANGED mode
  /\ \/ /\ mem[o].status # "NOT_FOUND" /\ body[o] # b
        /\ Unsaved /\ UNCHANGED told                              \* 409
     \/ /\ mem[o].status = "NOT_FOUND" \/ body[o] = b
        /\ \/ /\ Replayed(mem[o])
              /\ Unsaved /\ Tell(o, mem[o])                       \* 200
           \/ /\ ~Replayed(mem[o])
              /\ mode \in {"unavailable", "rate-limit", "invalid"}
              /\ Unsaved /\ UNCHANGED told                        \* 503, 429, 400
           \/ /\ ~Replayed(mem[o])
              /\ mode \notin {"unavailable", "rate-limit", "invalid"}
              /\ \E outcome \in SaveOutcomes :
                   /\ SaveLocked(o, ModeRecord(mode), b, outcome)
                   /\ IF outcome = "saved" THEN Tell(o, ModeRecord(mode))
                                           ELSE UNCHANGED told    \* 200, or 500

Lookup(o) == Tell(o, mem[o]) /\ Unsaved /\ UNCHANGED mode

SetMode(m) == mode' = m /\ Unsaved /\ UNCHANGED told

Resolve(o) ==
  /\ \E rec \in Resolutions(mem[o]), outcome \in SaveOutcomes :
       /\ SaveLocked(o, rec, body[o], outcome)
       /\ IF outcome = "saved" THEN Tell(o, rec) ELSE UNCHANGED told
  /\ UNCHANGED mode

\* The process ends, and New reads the file; the mode is set by its environment.
Restart ==
  /\ mem' = disk /\ body' = diskBody
  /\ mode' \in Modes
  /\ UNCHANGED <<disk, diskBody, told>>

Next ==
  \/ \E o \in Operations : \/ \E b \in Bodies : Submit(o, b)
                           \/ Lookup(o) \/ Resolve(o)
  \/ \E m \in Modes : SetMode(m)
  \/ Restart

Spec == Init /\ [][Next]_vars

--------------------------------------------------------------------------------
\* Properties

Promise == INSTANCE ProviderPromise WITH rec <- mem

\* The server with its file, failing writes and restarts keeps the promise the
\* refund worker relies on.  A restart may bring to light what a failed save left
\* in the file; that too is one execution or one settlement, never two and
\* never a step back.
KeepsPromise == Promise!Spec

\* Every variable keeps its type.
TypeOK ==
  /\ mem \in [Operations -> Records] /\ disk \in [Operations -> Records]
  /\ body \in [Operations -> Bodies] /\ diskBody \in [Operations -> Bodies]
  /\ mode \in Modes /\ told \in [Operations -> Records]

\* The provider never takes back a final answer, and never forgets an operation
\* it has in memory, though it may restart from its file after any failure to
\* write: this is what lets the refund worker close a refund, and what lets it
\* read NOT_FOUND as "nothing was executed yet".
NeverTakesBack ==
  [][\A o \in Operations :
       /\ IsFinal(mem[o]) => mem'[o] = mem[o]
       /\ mem[o].status # "NOT_FOUND" => mem'[o].status # "NOT_FOUND"]_vars

\* The write-ahead order of saveLocked: a final record in memory is in the file
\* too, and no operation in memory is missing from the file.
FileIsAhead ==
  \A o \in Operations :
    /\ IsFinal(mem[o]) => disk[o] = mem[o]
    /\ mem[o].status # "NOT_FOUND" => disk[o].status # "NOT_FOUND"

\* A final result a client has seen is the one every later client will see.
ToldIsKept ==
  \A o \in Operations : IsFinal(told[o]) => mem[o] = told[o] /\ disk[o] = told[o]

\* An operation id stands for one request: once the operation is known its body
\* is not replaced, by a restart neither.
BodyIsFixed ==
  [][\A o \in Operations :
       mem[o].status # "NOT_FOUND" => body'[o] = body[o]]_vars

================================================================================
