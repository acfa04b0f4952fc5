------------------------------- MODULE UserSchema -------------------------------
(***************************************************************************)
(* The tables of a user, created by the first request of that user         *)
(* (ensureUserSchema and ensureUserTablesTx of internal/storage/store.go), *)
(* statement by statement, by concurrent requests in several processes,    *)
(* each with its own cache of the users it has seen.                       *)
(*                                                                         *)
(* The names of the tables are a hash cut to 16 digits, so two users may   *)
(* have the same, and a row of app_users may have names an earlier program *)
(* gave.  A name stands for the names of both tables; the indexes of a     *)
(* table are created with it.  PostgreSQL lets an INSERT wait for an       *)
(* uncommitted row with an equal unique column, but of two transactions    *)
(* that run CREATE TABLE IF NOT EXISTS for one new table the second fails. *)
(***************************************************************************)
EXTENDS Naturals, FiniteSets

CONSTANTS Users, Processes, Requests, Names,
          UserOf, ProcOf,   \* the user of a request, and the process that runs it
          NameOf,           \* NameOf[u]: deriveUserTables
          Earlier,          \* Earlier[u]: the name in the row of u before, or None
          None, MaxFaults

ASSUME UserSchemaAssumption ==
  /\ UserOf \in [Requests -> Users] /\ ProcOf \in [Requests -> Processes]
  /\ NameOf \in [Users -> Names] /\ Earlier \in [Users -> Names \cup {None}]
  /\ None \notin Names
  /\ \A u, v \in Users : Earlier[u] = Earlier[v] /\ Earlier[u] # None => u = v
  /\ MaxFaults \in Nat

VARIABLES
  registered,  \* registered[u]: the name in the committed row of app_users
  tables,      \* the committed tables, as <<kind, name>>
  inserting,   \* inserting[u]: the open transactions that inserted a row for u
  creating,    \* creating[r]: the tables the open transaction of r has created
  cache,       \* cache[p]: ensuredUsers of process p
  pc,          \* pc[r]: where a request is; "ready" when it has its tables
  faults

vars == <<registered, tables, inserting, creating, cache, pc, faults>>

Kinds == {"payments", "webhooks"}
InTransaction == {"insert", "load", "payments", "webhooks", "commit"}
Answers == {"ready", "refused", "error"}

Init ==
  /\ registered = Earlier
  /\ tables = {<<k, Earlier[u]>> : k \in Kinds, u \in {v \in Users : Earlier[v] # None}}
  /\ inserting = [u \in Users |-> {}]
  /\ creating = [r \in Requests |-> {}]
  /\ cache = [p \in Processes |-> {}]
  /\ pc = [r \in Requests |-> "check"]
  /\ faults = 0

GoTo(r, step) == pc' = [pc EXCEPT ![r] = step]

Name(r) == NameOf[UserOf[r]]

NameTaken(u) == \E v \in Users \ {u} : registered[v] = NameOf[u]

\* Another transaction has inserted a row with the user or the names of u.
MustWait(u) == \E v \in Users : inserting[v] # {} /\ (v = u \/ NameOf[v] = NameOf[u])

--------------------------------------------------------------------------------
\* ensureUserSchema

CacheHit(r) ==
  /\ pc[r] = "check" /\ UserOf[r] \in cache[ProcOf[r]]
  /\ GoTo(r, "ready")
  /\ UNCHANGED <<registered, tables, inserting, creating, cache, faults>>

CacheMiss(r) ==
  /\ pc[r] = "check" /\ UserOf[r] \notin cache[ProcOf[r]]
  /\ GoTo(r, "insert")
  /\ UNCHANGED <<registered, tables, inserting, creating, cache, faults>>

--------------------------------------------------------------------------------
\* ensureUserTablesTx

\* Mutant: the names in app_users are not unique.
InsertSharedMutant(r) ==
  /\ pc[r] = "insert"
  /\ registered[UserOf[r]] = None /\ inserting[UserOf[r]] = {}
  /\ inserting' = [inserting EXCEPT ![UserOf[r]] = {r}]
  /\ GoTo(r, "load")
  /\ UNCHANGED <<registered, tables, creating, cache, faults>>

Insert(r) ==
  /\ pc[r] = "insert" /\ ~MustWait(UserOf[r])
  /\ registered[UserOf[r]] = None /\ ~NameTaken(UserOf[r])
  /\ inserting' = [inserting EXCEPT ![UserOf[r]] = {r}]
  /\ GoTo(r, "load")
  /\ UNCHANGED <<registered, tables, creating, cache, faults>>

\* ON CONFLICT (user_id) DO NOTHING
InsertNothing(r) ==
  /\ pc[r] = "insert" /\ registered[UserOf[r]] # None
  /\ GoTo(r, "load")
  /\ UNCHANGED <<registered, tables, inserting, creating, cache, faults>>

\* Mutant: a name that is only about to be taken is refused too.
InsertRefusedMutant(r) ==
  /\ pc[r] = "insert" /\ registered[UserOf[r]] = None
  /\ NameTaken(UserOf[r])
     \/ \E v \in Users \ {UserOf[r]} : inserting[v] # {} /\ NameOf[v] = Name(r)
  /\ GoTo(r, "refused")
  /\ UNCHANGED <<registered, tables, inserting, creating, cache, faults>>

\* The names are those of another user: the unique constraint fails.
InsertRefused(r) ==
  /\ pc[r] = "insert" /\ ~MustWait(UserOf[r])
  /\ registered[UserOf[r]] = None /\ NameTaken(UserOf[r])
  /\ GoTo(r, "refused")
  /\ UNCHANGED <<registered, tables, inserting, creating, cache, faults>>

\* The row, its own or a committed one, is loaded and compared.
Load(r) ==
  /\ pc[r] = "load"
  /\ GoTo(r, IF r \in inserting[UserOf[r]] \/ registered[UserOf[r]] = Name(r)
             THEN "payments" ELSE "refused")
  /\ UNCHANGED <<registered, tables, inserting, creating, cache, faults>>

\* CREATE TABLE IF NOT EXISTS
CreateTable(r, kind, next) ==
  /\ pc[r] = kind
  /\ creating' = [creating EXCEPT ![r] = @ \cup ({<<kind, Name(r)>>} \ tables)]
  /\ GoTo(r, next)
  /\ UNCHANGED <<registered, tables, inserting, cache, faults>>

CreatePayments(r) == CreateTable(r, "payments", "webhooks")
CreateWebhooks(r) == CreateTable(r, "webhooks", "commit")

EndTransaction(r) ==
  /\ inserting' = [u \in Users |-> inserting[u] \ {r}]
  /\ creating' = [creating EXCEPT ![r] = {}]

Committed(r) ==
  /\ pc[r] = "commit"
  /\ registered' = [u \in Users |-> IF r \in inserting[u] THEN NameOf[u] ELSE registered[u]]
  /\ tables' = tables \cup creating[r]
  /\ EndTransaction(r)
  /\ UNCHANGED cache

Commit(r) == Committed(r) /\ GoTo(r, "store") /\ UNCHANGED faults

\* s.ensuredUsers.Store
Remember(r) ==
  /\ pc[r] = "store"
  /\ cache' = [cache EXCEPT ![ProcOf[r]] = @ \cup {UserOf[r]}]
  /\ GoTo(r, "ready")
  /\ UNCHANGED <<registered, tables, inserting, creating, faults>>

--------------------------------------------------------------------------------
\* Faults

Fault == faults < MaxFaults /\ faults' = faults + 1

\* The commit takes place but Commit returns an error.
CommitLost(r) == Committed(r) /\ GoTo(r, "error") /\ Fault

\* Mutant: the transaction of a failed request stays open.
RollbackMutant(r) ==
  /\ pc[r] \in InTransaction
  /\ GoTo(r, "error") /\ Fault
  /\ UNCHANGED <<registered, tables, inserting, creating, cache>>

\* A statement or the commit fails, or the request is cancelled.
Rollback(r) ==
  /\ pc[r] \in InTransaction
  /\ EndTransaction(r)
  /\ GoTo(r, "error") /\ Fault
  /\ UNCHANGED <<registered, tables, cache>>

\* A process ends and starts again: its cache is empty, the transactions of its
\* requests are rolled back and their clients see an error.
Restart(p) ==
  /\ Fault
  /\ cache' = [cache EXCEPT ![p] = {}]
  /\ inserting' = [u \in Users |-> {r \in inserting[u] : ProcOf[r] # p}]
  /\ creating' = [r \in Requests |-> IF ProcOf[r] = p THEN {} ELSE creating[r]]
  /\ pc' = [r \in Requests |->
              IF ProcOf[r] = p /\ pc[r] \in InTransaction \cup {"store"} THEN "error" ELSE pc[r]]
  /\ UNCHANGED <<registered, tables>>

AllDone == (\A r \in Requests : pc[r] \in Answers) /\ UNCHANGED vars

EnterStep(r) == CacheHit(r) \/ CacheMiss(r)
InsertStep(r) == Insert(r) \/ InsertNothing(r) \/ InsertRefused(r)
TableStep(r) == Load(r) \/ CreatePayments(r) \/ CreateWebhooks(r) \/ Commit(r) \/ Remember(r)

Next ==
  \/ \E r \in Requests : \/ EnterStep(r) \/ InsertStep(r) \/ TableStep(r)
                         \/ CommitLost(r) \/ Rollback(r)
  \/ \E p \in Processes : Restart(p)
  \/ AllDone

\* A handler that can go on does, and an INSERT that waits is let through when the
\* transaction it waits for ends.
Fairness ==
  \A r \in Requests : WF_vars(EnterStep(r)) /\ SF_vars(InsertStep(r)) /\ WF_vars(TableStep(r))

Spec == Init /\ [][Next]_vars
FairSpec == Spec /\ Fairness

--------------------------------------------------------------------------------
\* Properties

\* Every variable keeps its type, and at most one open transaction registers a user.
TypeOK ==
  /\ registered \in [Users -> Names \cup {None}]
  /\ tables \subseteq Kinds \X Names
  /\ inserting \in [Users -> {{}} \cup {{r} : r \in Requests}]
  /\ creating \in [Requests -> SUBSET (Kinds \X Names)]
  /\ cache \in [Processes -> SUBSET Users]
  /\ pc \in [Requests -> InTransaction \cup {"check", "store"} \cup Answers]
  /\ faults \in 0..MaxFaults

\* The users whose tables a process takes for granted, or a request goes on to use.
Trusted == (UNION {cache[p] : p \in Processes})
           \cup {UserOf[r] : r \in {q \in Requests : pc[q] \in {"store", "ready"}}}

\* Both tables of such a user are there and registered as the user's, whatever
\* transaction was rolled back and whichever process was restarted; and they are no
\* other user's, though names may be equal.
TablesAreTheirOwn ==
  \A u \in Trusted :
    /\ registered[u] = NameOf[u] /\ \A k \in Kinds : <<k, NameOf[u]>> \in tables
    /\ \A v \in Trusted : NameOf[u] = NameOf[v] => u = v

\* Two open transactions never create the same table, so CREATE TABLE IF NOT EXISTS
\* does not fail on a race: the INSERT into app_users puts them in order.
NoConcurrentDDL == \A r, s \in Requests : r # s => creating[r] \cap creating[s] = {}

\* A user is refused by every process or by none: a refusal is never a matter of
\* timing, so nobody is refused who could be served later.
RefusalIsFinal ==
  \A r \in Requests : pc[r] = "refused" => UserOf[r] \notin Trusted

\* Every request gets its tables or an error.
EveryRequestAnswered == \A r \in Requests : <>(pc[r] \in Answers)

================================================================================
