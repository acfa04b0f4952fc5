----------------------------- MODULE Subscriptions -----------------------------
(***************************************************************************)
(* Creating and switching webhook subscriptions, statement by statement    *)
(* (CreateSubscription and SetSubscriptionActive of                        *)
(* internal/storage/store.go, the handlers of internal/httpapi/router.go), *)
(* run by concurrent requests at PostgreSQL's READ COMMITTED level.        *)
(* PATCH reads the row, returns early if nothing would change, updates it, *)
(* commits, and reads it back in a statement of its own for its answer.    *)
(* A statement, a commit or the process may fail anywhere.  Urls and times *)
(* are left out; the per-user tables are those of UserSchema.              *)
(***************************************************************************)
EXTENDS Naturals, Sequences

CONSTANTS Subs,      \* the ids of the subscriptions, one for each POST request
          BornOff,   \* those whose POST request asks for an inactive one
          Clients    \* who sends the PATCH requests, each in both directions

\* A POST request is known by the id that is generated for it.
Creators == [kind : {"POST"}, sub : Subs]
Patchers == [kind : {"PATCH"}, client : Clients, sub : Subs, wanted : {"on", "off"}]

Requests == Creators \cup Patchers

SubOf == [r \in Requests |-> r.sub]

\* What the row of the request's subscription is to be.
WantedOf == [r \in Requests |->
  IF r \in Patchers THEN r.wanted ELSE IF r.sub \in BornOff THEN "off" ELSE "on"]

VARIABLES
  active,   \* active[s]: the committed row: "on", "off", or "none"
  lock,     \* lock[s]: the transactions that wrote the row, not committed
  pc,       \* pc[r]: the statement a request is at
  told,     \* told[r]: what the client was answered
  log       \* the requests that took effect, in that order

vars == <<active, lock, pc, told, log>>

Steps == {"begin", "update", "commit", "reply", "lost", "done"}

Init ==
  /\ active = [s \in Subs |-> "none"]
  /\ lock = [s \in Subs |-> {}]
  /\ pc = [r \in Requests |-> "begin"]
  /\ told = [r \in Requests |-> "none"]
  /\ log = <<>>

GoTo(r, step) == pc' = [pc EXCEPT ![r] = step]

Tell(r, what) == GoTo(r, "done") /\ told' = [told EXCEPT ![r] = what]

Release(r) == lock' = [s \in Subs |-> lock[s] \ {r}]

--------------------------------------------------------------------------------
\* CreateSubscription: INSERT of a row under a generated id, which nobody waits for.
Insert(c) ==
  /\ pc[c] = "begin"
  /\ lock' = [lock EXCEPT ![SubOf[c]] = {c}]
  /\ GoTo(c, "commit")
  /\ UNCHANGED <<active, told, log>>

\* SetSubscriptionActive: getSubscription sees the committed row.
ReadNothing(p) ==
  /\ pc[p] = "begin" /\ active[SubOf[p]] = "none"
  /\ Tell(p, "missing")
  /\ UNCHANGED <<active, lock, log>>

\* The early return: this is the moment the request takes effect.
ReadSame(p) ==
  /\ pc[p] = "begin" /\ active[SubOf[p]] = WantedOf[p]
  /\ GoTo(p, "reply")
  /\ log' = Append(log, p)
  /\ UNCHANGED <<active, lock, told>>

ReadOther(p) ==
  /\ pc[p] = "begin" /\ active[SubOf[p]] \notin {"none", WantedOf[p]}
  /\ GoTo(p, "update")
  /\ UNCHANGED <<active, lock, told, log>>

\* UPDATE waits until no other transaction holds the row.
Update(p) ==
  /\ pc[p] = "update" /\ lock[SubOf[p]] = {}
  /\ lock' = [lock EXCEPT ![SubOf[p]] = {p}]
  /\ GoTo(p, "commit")
  /\ UNCHANGED <<active, told, log>>

Committed(r) ==
  /\ pc[r] = "commit"
  /\ active' = [active EXCEPT ![SubOf[r]] = WantedOf[r]]
  /\ log' = Append(log, r)
  /\ Release(r)
  /\ UNCHANGED told

Commit(r) == Committed(r) /\ GoTo(r, "reply")

\* The commit takes place but Commit returns an error.
CommitLost(r) == Committed(r) /\ GoTo(r, "lost")

AnswerLost(r) ==
  /\ pc[r] = "lost"
  /\ Tell(r, "error")
  /\ UNCHANGED <<active, lock, log>>

\* A statement or the commit fails, the request is cancelled, or the process ends.
Rollback(r) ==
  /\ pc[r] \in {"begin", "update", "commit"}
  /\ Release(r)
  /\ Tell(r, "error")
  /\ UNCHANGED <<active, log>>

\* The handler's answer: POST returns what it inserted, PATCH reads the row back.
Reply(r) ==
  /\ pc[r] = "reply"
  /\ Tell(r, IF r \in Creators THEN WantedOf[r] ELSE active[SubOf[r]])
  /\ UNCHANGED <<active, lock, log>>

ReplyFails(r) ==
  /\ pc[r] = "reply"
  /\ Tell(r, "error")
  /\ UNCHANGED <<active, lock, log>>

AllDone == (\A r \in Requests : pc[r] = "done") /\ UNCHANGED vars

CreateStep(c) == Insert(c)
PatchStep(p) == ReadNothing(p) \/ ReadSame(p) \/ ReadOther(p) \/ Update(p)
EndStep(r) == Commit(r) \/ Reply(r) \/ AnswerLost(r)
FaultStep(r) == CommitLost(r) \/ Rollback(r) \/ ReplyFails(r)

Next ==
  \/ \E c \in Creators : CreateStep(c)
  \/ \E p \in Patchers : PatchStep(p)
  \/ \E r \in Requests : EndStep(r) \/ FaultStep(r)
  \/ AllDone

Spec == Init /\ [][Next]_vars

--------------------------------------------------------------------------------
\* Properties

\* Every variable keeps its type, and a row has one writer at a time.
TypeOK ==
  /\ active \in [Subs -> {"on", "off", "none"}]
  /\ lock \in [Subs -> {{}} \cup {{r} : r \in Requests}]
  /\ pc \in [Requests -> Steps]
  /\ told \in [Requests -> {"none", "on", "off", "missing", "error"}]
  /\ log \in Seq(Requests)

PhaseOf == [r \in Requests |->
              CASE pc[r] \in {"begin", "update", "commit"} -> "open"
                [] pc[r] \in {"reply", "lost"} -> "taken"
                [] OTHER -> "answered"]

Switch == INSTANCE SubscriptionSwitch WITH value <- active, phase <- PhaseOf

\* The statements of concurrent requests, with early returns on a row that somebody
\* is just changing, blind updates after a stale read, lost commits and rollbacks,
\* add up to requests that take effect one at a time.
ImplementsSwitch == Switch!Spec

\* A PATCH answered with the opposite of what it asked for was not ignored: it took
\* effect, and after it another request that asked for what the answer says.
ReadBackExplained ==
  \A p \in Patchers :
    told[p] \in {"on", "off"} /\ told[p] # WantedOf[p] =>
      \E i, j \in 1..Len(log) :
        /\ i < j /\ log[i] = p
        /\ SubOf[log[j]] = SubOf[p] /\ WantedOf[log[j]] = told[p]

================================================================================
