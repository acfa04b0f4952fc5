-------------------------------- MODULE Outbox --------------------------------
(***************************************************************************)
(* Webhook delivery from the transactional outbox: workers lock due events *)
(* in batches, POST each one to the active subscriptions that have not had *)
(* it, record every delivery, and mark the event delivered, to be retried, *)
(* or dead (internal/worker/worker.go, internal/storage/store.go).         *)
(*                                                                         *)
(* `wait` is the ticks left until next_attempt_at and `lock` the ticks     *)
(* left until locked_until (0 = NULL or expired).  Time passes at any      *)
(* point: nothing bounds a batch by the lock it was fetched with.          *)
(***************************************************************************)
EXTENDS Naturals, FiniteSets

CONSTANTS Events, Subs, Workers,
          BatchSize, LockFor, MaxAttempts, InitialBackoff, MaxBackoff,
          MaxFaults,   \* how many crashes and failing statements may happen
          MaxToggles   \* how often subscriptions are switched on or off

\* normalizeOptions leaves no option at or below zero.
ASSUME OptionsAssumption ==
  /\ {BatchSize, LockFor, MaxAttempts, InitialBackoff, MaxBackoff} \subseteq Nat \ {0}
  /\ MaxFaults \in Nat /\ MaxToggles \in Nat
  /\ Events # {} /\ Subs # {}

VARIABLES
  ev,          \* ev[e]: the outbox_events table
  delivered,   \* delivered[e]: who has a successful row for e in webhook_deliveries
  active,      \* the subscriptions that are switched on
  since,       \* since[e]: those that were on ever since e was inserted
  got,         \* got[e]: the subscribers whose endpoint received e
  worker,      \* worker[w]: where a worker is in its batch
  shared,      \* the events fetched while another worker still had them
  faults, toggles

vars == <<ev, delivered, active, since, got, worker, shared, faults, toggles>>

EventRows == [status : {"none", "pending", "delivered", "dead_letter"},
              attempts : Nat, wait : Nat, lock : Nat]

\* `tries` are the attempts of the events as they were fetched.  In "next" a
\* worker takes up an event of its batch, in "listed" it has the subscriptions,
\* in "deliver" targets to call or the event to close, and in "sent" a delivery
\* to record.
WorkerStates ==
  [pc : {"idle", "next", "listed", "deliver", "sent"}, batch : SUBSET Events,
   tries : [Events -> Nat], event : Events, targets : SUBSET Subs,
   target : Subs, ok : BOOLEAN, failed : BOOLEAN]

Idle == [pc |-> "idle", batch |-> {}, tries |-> [e \in Events |-> 0],
         event |-> CHOOSE e \in Events : TRUE, targets |-> {},
         target |-> CHOOSE s \in Subs : TRUE, ok |-> FALSE, failed |-> FALSE]

Init ==
  /\ ev = [e \in Events |-> [status |-> "none", attempts |-> 0, wait |-> 0, lock |-> 0]]
  /\ delivered = [e \in Events |-> {}]
  /\ active \in SUBSET Subs
  /\ since = [e \in Events |-> {}]
  /\ got = [e \in Events |-> {}]
  /\ worker = [w \in Workers |-> Idle]
  /\ shared = {}
  /\ faults = 0 /\ toggles = 0

--------------------------------------------------------------------------------
\* The service's side

\* insertOutboxEvent, inside the transaction that changes the aggregate.
InsertOutboxEvent(e) ==
  /\ ev[e].status = "none"
  /\ ev' = [ev EXCEPT ![e].status = "pending"]
  /\ since' = [since EXCEPT ![e] = active]
  /\ UNCHANGED <<delivered, active, got, worker, shared, faults, toggles>>

\* SetSubscriptionActive, or CreateSubscription of one that is on.
SetSubscriptionActive(s) ==
  /\ toggles < MaxToggles
  /\ active' = IF s \in active THEN active \ {s} ELSE active \cup {s}
  /\ since' = [e \in Events |-> since[e] \cap active']
  /\ toggles' = toggles + 1
  /\ UNCHANGED <<ev, delivered, got, worker, shared, faults>>

--------------------------------------------------------------------------------
\* The worker's side

\* Mutant: closed events are fetched again.
DueEventsMutant == {e \in Events : ev[e].status # "none" /\ ev[e].wait = 0 /\ ev[e].lock = 0}

DueEvents == {e \in Events : ev[e].status = "pending" /\ ev[e].wait = 0 /\ ev[e].lock = 0}

\* Some worker has e in its batch or is at work on it.
InHand(e) ==
  \E w \in Workers :
    \/ e \in worker[w].batch
    \/ worker[w].pc \in {"listed", "deliver", "sent"} /\ worker[w].event = e

\* Mutant: fetching an event does not count as an attempt.
FetchDueOutboxEventsMutant(w) ==
  /\ worker[w].pc = "idle"
  /\ \E picked \in SUBSET DueEvents :
       /\ picked # {} /\ Cardinality(picked) <= BatchSize
       /\ shared' = shared \cup {e \in picked : InHand(e)}
       /\ ev' = [e \in Events |->
                   IF e \in picked THEN [ev[e] EXCEPT !.lock = LockFor] ELSE ev[e]]
       /\ worker' = [worker EXCEPT ![w] =
            [Idle EXCEPT !.pc = "next", !.batch = picked,
               !.tries = [e \in Events |-> IF e \in picked THEN ev[e].attempts ELSE 0]]]
  /\ UNCHANGED <<delivered, active, since, got, faults, toggles>>

\* Any due events, up to the batch size: those locked by others are skipped.
FetchDueOutboxEvents(w) ==
  /\ worker[w].pc = "idle"
  /\ \E picked \in SUBSET DueEvents :
       /\ picked # {} /\ Cardinality(picked) <= BatchSize
       /\ shared' = shared \cup {e \in picked : InHand(e)}
       /\ ev' = [e \in Events |->
                   IF e \in picked
                   THEN [ev[e] EXCEPT !.attempts = @ + 1, !.lock = LockFor]
                   ELSE ev[e]]
       /\ worker' = [worker EXCEPT ![w] =
            [Idle EXCEPT !.pc = "next", !.batch = picked,
               !.tries = [e \in Events |-> IF e \in picked THEN ev[e].attempts + 1 ELSE 0]]]
  /\ UNCHANGED <<delivered, active, since, got, faults, toggles>>

\* processEvent takes up an event of the batch and lists the subscriptions; those
\* that are off are skipped.
ListSubscriptions(w) ==
  /\ worker[w].pc = "next"
  /\ \E e \in worker[w].batch :
       worker' = [worker EXCEPT ![w].pc = "listed", ![w].event = e,
                                ![w].batch = @ \ {e}, ![w].targets = active]
  /\ UNCHANGED <<ev, delivered, active, since, got, shared, faults, toggles>>

\* Mutant: subscriptions that already have the event are called again.
PendingTargetsMutant(me) == me.targets

\* The listed subscriptions that have no successful delivery yet.
PendingTargets(me) == me.targets \ delivered[me.event]

ListDelivered(w) ==
  /\ worker[w].pc = "listed"
  /\ worker' = [worker EXCEPT ![w].pc = "deliver", ![w].targets = PendingTargets(worker[w])]
  /\ UNCHANGED <<ev, delivered, active, since, got, shared, faults, toggles>>

\* One of the two queries fails: the event counts as failed, nobody is called.
ListFails(w) ==
  /\ faults < MaxFaults
  /\ \/ /\ worker[w].pc = "next"
        /\ \E e \in worker[w].batch :
             worker' = [worker EXCEPT ![w].pc = "deliver", ![w].event = e,
                                      ![w].batch = @ \ {e}, ![w].failed = TRUE]
     \/ /\ worker[w].pc = "listed"
        /\ worker' = [worker EXCEPT ![w].pc = "deliver", ![w].targets = {},
                                    ![w].failed = TRUE]
  /\ faults' = faults + 1
  /\ UNCHANGED <<ev, delivered, active, since, got, shared, toggles>>

\* sendWebhook: answered with a 2xx, received without such an answer (an error
\* status, a timeout), or not received at all.
SendWebhook(w) ==
  LET me == worker[w] IN
  /\ me.pc = "deliver"
  /\ \E t \in me.targets, ok \in BOOLEAN :
       /\ got' \in {[got EXCEPT ![me.event] = @ \cup {t}]} \cup (IF ok THEN {} ELSE {got})
       /\ worker' = [worker EXCEPT ![w].pc = "sent", ![w].target = t, ![w].ok = ok]
  /\ UNCHANGED <<ev, delivered, active, since, shared, faults, toggles>>

\* The worker after the delivery it has made is recorded.
Recorded(me) ==
  [me EXCEPT !.pc = "deliver", !.failed = @ \/ ~me.ok, !.targets = @ \ {me.target},
             !.target = Idle.target, !.ok = Idle.ok]

\* Mutant: every delivery is recorded as a success.
RecordWebhookDeliveryMutant(w) ==
  LET me == worker[w] IN
  /\ me.pc = "sent"
  /\ delivered' = [delivered EXCEPT ![me.event] = @ \cup {me.target}]
  /\ worker' = [worker EXCEPT ![w] = Recorded(me)]
  /\ UNCHANGED <<ev, active, since, got, shared, faults, toggles>>

\* A row is written for every delivery; nobody reads those of the failed ones.
RecordWebhookDelivery(w) ==
  LET me == worker[w] IN
  /\ me.pc = "sent"
  /\ delivered' = IF me.ok THEN [delivered EXCEPT ![me.event] = @ \cup {me.target}]
                           ELSE delivered
  /\ worker' = [worker EXCEPT ![w] = Recorded(me)]
  /\ UNCHANGED <<ev, active, since, got, shared, faults, toggles>>

\* The worker goes on to the next event of its batch, or to its next fetch.
NextOfBatch(me) == IF me.batch = {}
                   THEN Idle
                   ELSE [Idle EXCEPT !.pc = "next", !.batch = me.batch, !.tries = me.tries]

\* The three ways to close an event update its row by id alone, whoever holds
\* the lock by now.
Close(w, new) ==
  /\ worker[w].pc = "deliver" /\ worker[w].targets = {}
  /\ ev' = [ev EXCEPT ![worker[w].event] = new]
  /\ worker' = [worker EXCEPT ![w] = NextOfBatch(@)]
  /\ UNCHANGED <<delivered, active, since, got, shared, faults, toggles>>

\* Mutant: the event is closed though a delivery failed.
MarkOutboxEventDeliveredMutant(w) ==
  Close(w, [ev[worker[w].event] EXCEPT !.status = "delivered", !.lock = 0])

MarkOutboxEventDelivered(w) ==
  /\ ~worker[w].failed
  /\ Close(w, [ev[worker[w].event] EXCEPT !.status = "delivered", !.lock = 0])

\* failEvent's backoff: doubled for every attempt after the first, capped.
Doubled[attempt \in Nat] ==
  IF attempt <= 1 THEN InitialBackoff ELSE 2 * Doubled[attempt - 1]

Backoff(attempt) ==
  IF Doubled[attempt] \in 0..MaxBackoff THEN Doubled[attempt] ELSE MaxBackoff

\* Mutant: one try too many.
LastTryLateMutant(w) == worker[w].tries[worker[w].event] > MaxAttempts

LastTry(w) == worker[w].tries[worker[w].event] >= MaxAttempts

ScheduleOutboxEventRetry(w) ==
  /\ worker[w].failed /\ ~LastTry(w)
  /\ Close(w, [ev[worker[w].event] EXCEPT !.status = "pending", !.lock = 0,
                 !.wait = Backoff(worker[w].tries[worker[w].event])])

MarkOutboxEventDeadLetter(w) ==
  /\ worker[w].failed /\ LastTry(w)
  /\ Close(w, [ev[worker[w].event] EXCEPT !.status = "dead_letter", !.lock = 0])

\* Recording a delivery or closing the event fails: processEvent returns, and
\* the event stays locked as it is.
StatementFails(w) ==
  /\ worker[w].pc = "sent" \/ (worker[w].pc = "deliver" /\ worker[w].targets = {})
  /\ faults < MaxFaults
  /\ worker' = [worker EXCEPT ![w] = NextOfBatch(@)]
  /\ faults' = faults + 1
  /\ UNCHANGED <<ev, delivered, active, since, got, shared, toggles>>

\* The process dies; its successor knows nothing of the batch.
Crash(w) ==
  /\ worker[w].pc # "idle" /\ faults < MaxFaults
  /\ worker' = [worker EXCEPT ![w] = Idle]
  /\ faults' = faults + 1
  /\ UNCHANGED <<ev, delivered, active, since, got, shared, toggles>>

Decremented(n) == IF n = 0 THEN 0 ELSE n - 1

Tick ==
  /\ ev' = [e \in Events |-> [ev[e] EXCEPT !.wait = Decremented(@), !.lock = Decremented(@)]]
  /\ UNCHANGED <<delivered, active, since, got, worker, shared, faults, toggles>>

--------------------------------------------------------------------------------
Continue(w) ==
  \/ ListSubscriptions(w) \/ ListDelivered(w)
  \/ SendWebhook(w) \/ RecordWebhookDelivery(w)
  \/ MarkOutboxEventDelivered(w) \/ ScheduleOutboxEventRetry(w)
  \/ MarkOutboxEventDeadLetter(w)

Next ==
  \/ \E e \in Events : InsertOutboxEvent(e)
  \/ \E s \in Subs : SetSubscriptionActive(s)
  \/ \E w \in Workers :
       \/ FetchDueOutboxEvents(w) \/ Continue(w)
       \/ ListFails(w) \/ StatementFails(w) \/ Crash(w)
  \/ Tick

Spec == Init /\ [][Next]_vars

\* Workers poll, a live worker goes on with its batch, and time passes.
Fairness ==
  /\ WF_vars(\E w \in Workers : FetchDueOutboxEvents(w))
  /\ \A w \in Workers : WF_vars(Continue(w))
  /\ WF_vars(Tick)

FairSpec == Spec /\ Fairness

--------------------------------------------------------------------------------
\* Properties

\* Every variable keeps its type.
TypeOK ==
  /\ ev \in [Events -> EventRows]
  /\ delivered \in [Events -> SUBSET Subs]
  /\ active \in SUBSET Subs
  /\ since \in [Events -> SUBSET Subs]
  /\ got \in [Events -> SUBSET Subs]
  /\ worker \in [Workers -> WorkerStates]
  /\ shared \in SUBSET Events
  /\ faults \in Nat /\ toggles \in Nat

\* No event is lost on a subscriber: an event marked delivered was received, and
\* recorded as received, by every subscription that was on since the event was
\* inserted, through crashes, partial failures, overlapping workers and
\* subscriptions switched on and off meanwhile.
DeliveredReachedAll ==
  \A e \in Events :
    ev[e].status = "delivered" => since[e] \subseteq (delivered[e] \cap got[e])

\* The delivery history never claims a success the endpoint did not see.
HistoryIsTrue == \A e \in Events : delivered[e] \subseteq got[e]

\* Unless its lock ran out under a live worker, an event is fetched at most once
\* more than MaxAttempts allows for every crash or failed statement.
AttemptsBounded ==
  \A e \in Events \ shared : ev[e].attempts <= MaxAttempts + faults

\* A closed event stays closed, unless its lock ran out under a live worker: the
\* updates that close an event do not check the lock.
ClosedStaysClosed ==
  [][\A e \in Events \ shared :
       ev[e].status \in {"delivered", "dead_letter"} => ev'[e].status = ev[e].status]_vars

\* A subscriber whose success was recorded is not called again for that event,
\* crashes and retries included, unless its lock ran out under a live worker.
RecordedNotResent ==
  [][\A w \in Workers :
       worker[w].pc = "deliver" /\ worker'[w].pc = "sent" /\ worker[w].event \notin shared =>
         worker'[w].target \notin delivered[worker[w].event]]_vars

\* Every event is eventually delivered or given up, though overlapping workers
\* may reopen it.
EventuallyClosed ==
  \A e \in Events : ev[e].status = "pending" ~> ev[e].status \in {"delivered", "dead_letter"}

================================================================================
