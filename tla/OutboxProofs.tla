------------------------------ MODULE OutboxProofs ------------------------------
(***************************************************************************)
(* Webhook delivery for any number of events, subscriptions and workers,   *)
(* any batch size, and any crashes and failing statements: no event is     *)
(* lost on a subscriber, and an event whose lock does not run out under a  *)
(* live worker is delivered in order and closed once.                      *)
(***************************************************************************)
EXTENDS Outbox, TLAPS

AtWork(me) == me.pc \in {"listed", "deliver", "sent"}

Has(me, e) == e \in me.batch \/ (AtWork(me) /\ me.event = e)

\* What a worker knows of the event it is at work on: the subscriptions that must
\* have it are among those it is going to call or have it already.
DeliveryOK(me) ==
  /\ me.pc = "sent" /\ me.ok => me.target \in got[me.event]
  /\ me.pc = "listed" => since[me.event] \subseteq me.targets
  /\ me.pc \in {"deliver", "sent"} /\ ~me.failed =>
       since[me.event] \subseteq (me.targets \cup delivered[me.event])

\* What it knows of the rows of its batch, as long as it is the only one to have them.
BatchOK(me) ==
  /\ me.pc = "idle" => me.batch = {}
  /\ me.pc = "next" => me.targets = {}
  /\ AtWork(me) => me.event \notin me.batch
  /\ \A e \in Events : Has(me, e) => ev[e].status # "none"
  /\ \A e \in Events \ shared :
       Has(me, e) => ev[e].status = "pending" /\ me.tries[e] = ev[e].attempts
  /\ me.pc \in {"deliver", "sent"} /\ me.event \notin shared =>
       me.targets \cap delivered[me.event] = {}

\* What the tables say of an event.
EventOK(e) ==
  /\ since[e] \subseteq active
  /\ delivered[e] \subseteq got[e]
  /\ ev[e].status = "delivered" => since[e] \subseteq delivered[e]
  /\ e \notin shared =>
       /\ ev[e].attempts <= MaxAttempts + faults
       /\ ev[e].status \in {"none", "pending"} /\ ~InHand(e) =>
            ev[e].attempts < MaxAttempts + faults

\* An event that is not shared is in the hands of one worker at a time.
Exclusive ==
  \A e \in Events \ shared : \A v, w \in Workers :
    Has(worker[v], e) /\ Has(worker[w], e) => v = w

IInv ==
  /\ TypeOK
  /\ \A w \in Workers : DeliveryOK(worker[w])
  /\ \A w \in Workers : BatchOK(worker[w])
  /\ \A e \in Events : EventOK(e)
  /\ Exclusive

--------------------------------------------------------------------------------
\* The inductive invariant

LEMMA IdleType ==
  Idle \in WorkerStates /\ Idle.pc = "idle" /\ Idle.batch = {} /\ Idle.targets = {}
<1>1. (CHOOSE e \in Events : TRUE) \in Events /\ (CHOOSE s \in Subs : TRUE) \in Subs
  BY OptionsAssumption
<1> QED
  BY <1>1 DEF Idle, WorkerStates

LEMMA IdleFine == \A e : ~Has(Idle, e)
  BY IdleType DEF Has, AtWork

LEMMA HandFacts ==
  ASSUME NEW e
  PROVE  InHand(e) <=> \E w \in Workers : Has(worker[w], e)
  BY DEF InHand, Has, AtWork

LEMMA InitHolds == Init => IInv
<1> SUFFICES ASSUME Init PROVE IInv
  OBVIOUS
<1>1. TypeOK
  BY IdleType DEF Init, TypeOK, EventRows
<1>2. ASSUME NEW w \in Workers PROVE DeliveryOK(worker[w]) /\ BatchOK(worker[w])
  BY IdleType, IdleFine DEF Init, DeliveryOK, BatchOK, AtWork
<1>3. ASSUME NEW e \in Events PROVE EventOK(e)
  BY OptionsAssumption DEF Init, EventOK
<1>4. Exclusive
  BY IdleFine DEF Init, Exclusive
<1> QED
  BY <1>1, <1>2, <1>3, <1>4 DEF IInv

--------------------------------------------------------------------------------
\* The types

LEMMA NextOfBatchType ==
  ASSUME NEW me \in WorkerStates
  PROVE  /\ NextOfBatch(me) \in WorkerStates
         /\ NextOfBatch(me).batch = me.batch /\ NextOfBatch(me).targets = {}
         /\ NextOfBatch(me).pc = IF me.batch = {} THEN "idle" ELSE "next"
         /\ me.batch # {} => NextOfBatch(me).tries = me.tries
  BY IdleType DEF NextOfBatch, WorkerStates

LEMMA CloseTypes ==
  ASSUME TypeOK, NEW w \in Workers, NEW new \in EventRows, Close(w, new)
  PROVE  TypeOK'
<1>1. worker[w] \in WorkerStates
  BY DEF TypeOK
<1>2. worker' \in [Workers -> WorkerStates]
  BY <1>1, NextOfBatchType DEF TypeOK, Close
<1>3. ev' \in [Events -> EventRows]
  BY <1>1 DEF TypeOK, Close, WorkerStates
<1> QED
  BY <1>2, <1>3 DEF TypeOK, Close

\* The backoff is a natural number: it is capped.
LEMMA BackoffType == \A n : Backoff(n) \in Nat
  BY OptionsAssumption DEF Backoff

LEMMA CloseRows ==
  ASSUME TypeOK, NEW w \in Workers
  PROVE  LET row == ev[worker[w].event] IN
         /\ row \in EventRows
         /\ [row EXCEPT !.status = "delivered", !.lock = 0] \in EventRows
         /\ [row EXCEPT !.status = "dead_letter", !.lock = 0] \in EventRows
         /\ [row EXCEPT !.status = "pending", !.lock = 0,
               !.wait = Backoff(worker[w].tries[worker[w].event])] \in EventRows
<1>1. worker[w].event \in Events
  BY DEF TypeOK, WorkerStates
<1>2. ev[worker[w].event] \in EventRows
  BY <1>1 DEF TypeOK
<1> QED
  BY <1>2, BackoffType DEF EventRows

LEMMA FetchTypes ==
  ASSUME TypeOK, NEW w \in Workers, FetchDueOutboxEvents(w)
  PROVE  TypeOK'
<1>1. PICK picked \in SUBSET DueEvents :
        /\ shared' = shared \cup {e \in picked : InHand(e)}
        /\ ev' = [e \in Events |->
                    IF e \in picked
                    THEN [ev[e] EXCEPT !.attempts = @ + 1, !.lock = LockFor]
                    ELSE ev[e]]
        /\ worker' = [worker EXCEPT ![w] =
             [Idle EXCEPT !.pc = "next", !.batch = picked,
                !.tries = [e \in Events |-> IF e \in picked THEN ev[e].attempts + 1 ELSE 0]]]
  BY DEF FetchDueOutboxEvents
<1>2. picked \subseteq Events
  BY DEF DueEvents
<1>3. [e \in Events |-> IF e \in picked THEN ev[e].attempts + 1 ELSE 0] \in [Events -> Nat]
  BY DEF TypeOK, EventRows
<1>4. worker' \in [Workers -> WorkerStates]
  BY <1>1, <1>2, <1>3, IdleType DEF TypeOK, WorkerStates
<1>5. ev' \in [Events -> EventRows]
  <2> SUFFICES ASSUME NEW e \in Events
               PROVE  [ev[e] EXCEPT !.attempts = @ + 1, !.lock = LockFor] \in EventRows
    BY <1>1 DEF TypeOK
  <2>1. ev[e] \in EventRows /\ LockFor \in Nat
    BY OptionsAssumption DEF TypeOK
  <2>2. ev[e].attempts + 1 \in Nat
    BY <2>1 DEF EventRows
  <2> QED
    BY <2>1, <2>2 DEF EventRows
<1> QED
  BY <1>1, <1>2, <1>4, <1>5 DEF TypeOK, FetchDueOutboxEvents

LEMMA WorkerTypes ==
  ASSUME TypeOK, NEW w \in Workers,
         Continue(w) \/ ListFails(w) \/ StatementFails(w) \/ Crash(w)
  PROVE  TypeOK'
<1> DEFINE me == worker[w]
<1>0. me \in WorkerStates /\ me.event \in Events
  BY DEF TypeOK, WorkerStates
<1>1. CASE ListSubscriptions(w)
  <2>1. PICK e \in me.batch :
          worker' = [worker EXCEPT ![w].pc = "listed", ![w].event = e,
                                   ![w].batch = @ \ {e}, ![w].targets = active]
    BY <1>1 DEF ListSubscriptions
  <2>2. e \in Events
    BY <1>0 DEF WorkerStates
  <2>3. worker' \in [Workers -> WorkerStates]
    BY <1>0, <2>1, <2>2 DEF TypeOK, WorkerStates
  <2> QED
    BY <1>1, <2>3 DEF TypeOK, ListSubscriptions
<1>2. CASE ListDelivered(w)
  <2>1. worker' \in [Workers -> WorkerStates]
    BY <1>0, <1>2 DEF TypeOK, ListDelivered, PendingTargets, WorkerStates
  <2> QED
    BY <1>2, <2>1 DEF TypeOK, ListDelivered
<1>3. CASE SendWebhook(w)
  <2>1. PICK t \in me.targets, ok \in BOOLEAN :
          /\ got' \in {[got EXCEPT ![me.event] = @ \cup {t}]} \cup (IF ok THEN {} ELSE {got})
          /\ worker' = [worker EXCEPT ![w].pc = "sent", ![w].target = t, ![w].ok = ok]
    BY <1>3 DEF SendWebhook
  <2>2. t \in Subs
    BY <1>0 DEF WorkerStates
  <2>3. worker' \in [Workers -> WorkerStates]
    BY <1>0, <2>1, <2>2 DEF TypeOK, WorkerStates
  <2>4. got' \in [Events -> SUBSET Subs]
    BY <1>0, <2>1, <2>2 DEF TypeOK
  <2> QED
    BY <1>3, <2>3, <2>4 DEF TypeOK, SendWebhook
<1>4. CASE RecordWebhookDelivery(w)
  <2>1. Recorded(me) \in WorkerStates
    BY <1>0, IdleType DEF Recorded, WorkerStates
  <2>2. worker' \in [Workers -> WorkerStates]
    BY <1>4, <2>1 DEF TypeOK, RecordWebhookDelivery
  <2>3. delivered' \in [Events -> SUBSET Subs]
    BY <1>0, <1>4 DEF TypeOK, RecordWebhookDelivery, WorkerStates
  <2> QED
    BY <1>4, <2>2, <2>3 DEF TypeOK, RecordWebhookDelivery
<1>5. CASE MarkOutboxEventDelivered(w)
  BY <1>5, CloseRows, CloseTypes DEF MarkOutboxEventDelivered
<1>6. CASE ScheduleOutboxEventRetry(w)
  BY <1>6, CloseRows, CloseTypes DEF ScheduleOutboxEventRetry
<1>7. CASE MarkOutboxEventDeadLetter(w)
  BY <1>7, CloseRows, CloseTypes DEF MarkOutboxEventDeadLetter
<1>8. CASE ListFails(w)
  <2>1. worker' \in [Workers -> WorkerStates]
    <3>1. CASE me.pc = "listed" /\
               worker' = [worker EXCEPT ![w].pc = "deliver", ![w].targets = {},
                                        ![w].failed = TRUE]
      BY <1>0, <3>1 DEF TypeOK, WorkerStates
    <3>2. ASSUME NEW e \in me.batch,
                 worker' = [worker EXCEPT ![w].pc = "deliver", ![w].event = e,
                                          ![w].batch = @ \ {e}, ![w].failed = TRUE]
          PROVE  worker' \in [Workers -> WorkerStates]
      BY <1>0, <3>2 DEF TypeOK, WorkerStates
    <3> QED
      BY <1>8, <3>1, <3>2 DEF ListFails
  <2>2. faults' = faults + 1 /\ UNCHANGED <<ev, delivered, active, since, got, shared, toggles>>
    BY <1>8 DEF ListFails
  <2> QED
    BY <2>1, <2>2 DEF TypeOK
<1>9. CASE StatementFails(w)
  BY <1>0, <1>9, NextOfBatchType DEF TypeOK, StatementFails
<1>10. CASE Crash(w)
  BY <1>10, IdleType DEF TypeOK, Crash
<1> QED
  BY <1>1, <1>2, <1>3, <1>4, <1>5, <1>6, <1>7, <1>8, <1>9, <1>10 DEF Continue

LEMMA TypesHold == TypeOK /\ [Next]_vars => TypeOK'
<1> SUFFICES ASSUME TypeOK, [Next]_vars PROVE TypeOK'
  OBVIOUS
<1>1. ASSUME NEW e \in Events, InsertOutboxEvent(e) PROVE TypeOK'
  BY <1>1 DEF TypeOK, InsertOutboxEvent, EventRows
<1>2. ASSUME NEW s \in Subs, SetSubscriptionActive(s) PROVE TypeOK'
  BY <1>2 DEF TypeOK, SetSubscriptionActive
<1>3. CASE Tick
  <2>1. ASSUME NEW e \in Events
        PROVE  [ev[e] EXCEPT !.wait = Decremented(@), !.lock = Decremented(@)] \in EventRows
    <3>1. ev[e] \in EventRows
      BY DEF TypeOK
    <3>2. \A n \in Nat : Decremented(n) \in Nat
      BY DEF Decremented
    <3> QED
      BY <3>1, <3>2 DEF EventRows
  <2> QED
    BY <1>3, <2>1 DEF TypeOK, Tick
<1>4. CASE UNCHANGED vars
  BY <1>4 DEF TypeOK, vars
<1> QED
  BY <1>1, <1>2, <1>3, <1>4, FetchTypes, WorkerTypes DEF Next

--------------------------------------------------------------------------------
\* What a step leaves alone

\* A worker that does not move keeps what it knows of the event it is at work on,
\* while deliveries are only added and subscriptions only switched off.
LEMMA DeliveryFrame ==
  ASSUME NEW v \in Workers, DeliveryOK(worker[v]), worker'[v] = worker[v],
         NEW e, e = worker[v].event,
         AtWork(worker[v]) =>
           /\ since'[e] \subseteq since[e]
           /\ delivered[e] \subseteq delivered'[e]
           /\ got[e] \subseteq got'[e]
  PROVE  DeliveryOK(worker[v])'
  BY DEF DeliveryOK, AtWork

LEMMA BatchFrame ==
  ASSUME TypeOK, NEW v \in Workers, BatchOK(worker[v]), worker'[v] = worker[v],
         shared \subseteq shared',
         \A e \in Events : Has(worker[v], e) => ev'[e].status # "none",
         \A e \in Events \ shared' :
           Has(worker[v], e) =>
             /\ ev'[e].status = ev[e].status /\ ev'[e].attempts = ev[e].attempts
             /\ delivered'[e] = delivered[e]
  PROVE  BatchOK(worker[v])'
<1> DEFINE me == worker[v]
<1>1. me.event \in Events
  BY DEF TypeOK, WorkerStates
<1>2. me.pc \in {"deliver", "sent"} => Has(me, me.event)
  BY DEF Has, AtWork
<1>3. me.pc \in {"deliver", "sent"} /\ me.event \notin shared' =>
        me.targets \cap delivered'[me.event] = {}
  BY <1>1, <1>2 DEF BatchOK
<1>4. \A e \in Events \ shared' :
        Has(me, e) => ev'[e].status = "pending" /\ me.tries[e] = ev'[e].attempts
  BY DEF BatchOK
<1> QED
  BY <1>3, <1>4 DEF BatchOK, Has, AtWork

\* No worker takes a new event.
LEMMA ExclusiveFrame ==
  ASSUME Exclusive, shared' = shared,
         \A v \in Workers, e \in Events : Has(worker'[v], e) => Has(worker[v], e)
  PROVE  Exclusive'
  BY DEF Exclusive, Has, AtWork

LEMMA HandsFrame ==
  ASSUME NEW e, \A v \in Workers : Has(worker'[v], e) <=> Has(worker[v], e)
  PROVE  InHand(e)' <=> InHand(e)
  BY DEF InHand, Has, AtWork

\* The tables, after a step that neither gives an event up nor changes its row.
LEMMA EventFrame ==
  ASSUME NEW e \in Events, EventOK(e), ev' = ev, shared' = shared,
         UNCHANGED <<active, since>>, faults \in Nat, faults' \in {faults, faults + 1},
         ev[e].attempts \in Nat, MaxAttempts \in Nat,
         delivered[e] \subseteq delivered'[e], delivered'[e] \subseteq got'[e],
         InHand(e)' <=> InHand(e)
  PROVE  EventOK(e)'
  BY DEF EventOK

--------------------------------------------------------------------------------
\* One lemma per action: the inductive invariant is preserved

LEMMA InsertHolds ==
  ASSUME IInv, TypeOK', NEW e \in Events, InsertOutboxEvent(e)
  PROVE  IInv'
<1>1. \A v \in Workers : ~Has(worker[v], e)
  BY DEF IInv, BatchOK, InsertOutboxEvent
<1>2. \A d \in Events : ev'[d].attempts = ev[d].attempts
                        /\ (d # e => ev'[d].status = ev[d].status /\ since'[d] = since[d])
  BY DEF IInv, TypeOK, EventRows, InsertOutboxEvent
<1>3. ev'[e].status = "pending" /\ since'[e] = active
  BY DEF IInv, TypeOK, EventRows, InsertOutboxEvent
<1>4. ASSUME NEW v \in Workers PROVE DeliveryOK(worker[v])'
  <2>1. AtWork(worker[v]) => worker[v].event # e /\ worker[v].event \in Events
    BY <1>1 DEF Has, IInv, TypeOK, WorkerStates
  <2>2. DeliveryOK(worker[v]) /\ UNCHANGED <<worker, delivered, got>>
    BY DEF IInv, InsertOutboxEvent
  <2> QED
    BY <1>2, <2>1, <2>2, DeliveryFrame
<1>5. ASSUME NEW v \in Workers PROVE BatchOK(worker[v])'
  <2>1. \A d \in Events : Has(worker[v], d) => ev'[d].status # "none"
    BY <1>1, <1>2 DEF IInv, BatchOK
  <2>2. \A d \in Events : Has(worker[v], d) => ev'[d].status = ev[d].status
    BY <1>1, <1>2
  <2>3. TypeOK /\ BatchOK(worker[v]) /\ UNCHANGED <<worker, delivered, shared>>
    BY DEF IInv, InsertOutboxEvent
  <2> QED
    BY <1>2, <2>1, <2>2, <2>3, BatchFrame
<1>6. ASSUME NEW d \in Events PROVE EventOK(d)'
  <2>1. InHand(d)' <=> InHand(d)
    BY HandsFrame DEF InsertOutboxEvent
  <2>2. EventOK(d) /\ UNCHANGED <<active, delivered, got, shared, faults>>
    BY DEF IInv, InsertOutboxEvent
  <2>3. d = e => ev[d].status = "none" /\ since'[d] = active /\ ev'[d].status = "pending"
    BY <1>3 DEF InsertOutboxEvent
  <2> QED
    BY <1>2, <2>1, <2>2, <2>3 DEF EventOK
<1>7. Exclusive'
  BY ExclusiveFrame DEF IInv, InsertOutboxEvent
<1> QED
  BY <1>4, <1>5, <1>6, <1>7 DEF IInv

LEMMA ToggleHolds ==
  ASSUME IInv, TypeOK', NEW s \in Subs, SetSubscriptionActive(s)
  PROVE  IInv'
<1>1. UNCHANGED <<ev, delivered, got, worker, shared, faults>>
      /\ \A e \in Events : since'[e] = since[e] \cap active'
  BY DEF SetSubscriptionActive
<1>2. ASSUME NEW v \in Workers PROVE DeliveryOK(worker[v])'
  <2>1. worker[v].event \in Events /\ DeliveryOK(worker[v])
    BY DEF IInv, TypeOK, WorkerStates
  <2> QED
    BY <1>1, <2>1, DeliveryFrame
<1>3. ASSUME NEW v \in Workers PROVE BatchOK(worker[v])'
  BY <1>1, BatchFrame DEF IInv, BatchOK
<1>4. ASSUME NEW e \in Events PROVE EventOK(e)'
  <2>1. InHand(e)' <=> InHand(e)
    BY <1>1, HandsFrame
  <2> QED
    BY <1>1, <2>1 DEF IInv, EventOK
<1>5. Exclusive'
  BY <1>1, ExclusiveFrame DEF IInv
<1> QED
  BY <1>2, <1>3, <1>4, <1>5 DEF IInv

\* Time passing changes neither status nor attempts.
LEMMA TickHolds ==
  ASSUME IInv, TypeOK', Tick \/ UNCHANGED vars
  PROVE  IInv'
<1>1. UNCHANGED <<delivered, active, since, got, worker, shared, faults>>
  BY DEF Tick, vars
<1>2. \A e \in Events : ev'[e].status = ev[e].status /\ ev'[e].attempts = ev[e].attempts
  <2> SUFFICES ASSUME NEW e \in Events, Tick
               PROVE  ev'[e].status = ev[e].status /\ ev'[e].attempts = ev[e].attempts
    BY DEF vars
  <2>1. ev[e] \in EventRows
    BY DEF IInv, TypeOK
  <2> QED
    BY <2>1 DEF Tick, EventRows
<1>3. ASSUME NEW v \in Workers PROVE DeliveryOK(worker[v])'
  BY <1>1, DeliveryFrame DEF IInv
<1>4. ASSUME NEW v \in Workers PROVE BatchOK(worker[v])'
  BY <1>1, <1>2, BatchFrame DEF IInv, BatchOK
<1>5. ASSUME NEW e \in Events PROVE EventOK(e)'
  <2>1. InHand(e)' <=> InHand(e)
    BY <1>1, HandsFrame
  <2> QED
    BY <1>1, <1>2, <2>1 DEF IInv, EventOK
<1>6. Exclusive'
  BY <1>1, ExclusiveFrame DEF IInv
<1> QED
  BY <1>3, <1>4, <1>5, <1>6 DEF IInv

\* A step of a worker on the event it has: the rows stay, the other workers stay.
LEMMA StepHolds ==
  ASSUME IInv, TypeOK', NEW w \in Workers,
         \A v \in Workers : v # w => worker'[v] = worker[v],
         UNCHANGED <<ev, active, since, shared>>, faults' \in {faults, faults + 1},
         \A e \in Events : Has(worker'[w], e) <=> Has(worker[w], e),
         \A e \in Events : /\ delivered[e] \subseteq delivered'[e]
                           /\ delivered'[e] \subseteq got'[e]
                           /\ got[e] \subseteq got'[e],
         \A e \in Events : ~Has(worker[w], e) => delivered'[e] = delivered[e],
         DeliveryOK(worker[w])', BatchOK(worker[w])'
  PROVE  IInv'
<1>1. ASSUME NEW v \in Workers PROVE DeliveryOK(worker[v])'
  <2>1. worker[v].event \in Events /\ DeliveryOK(worker[v])
    BY DEF IInv, TypeOK, WorkerStates
  <2>2. v # w => DeliveryOK(worker[v])'
    BY <2>1, DeliveryFrame
  <2> QED
    BY <2>2
<1>2. ASSUME NEW v \in Workers PROVE BatchOK(worker[v])'
  <2>1. BatchOK(worker[v]) /\ TypeOK
    BY DEF IInv
  <2>2. v # w => \A e \in Events \ shared : Has(worker[v], e) => delivered'[e] = delivered[e]
    BY DEF IInv, Exclusive
  <2>3. \A e \in Events : Has(worker[v], e) => ev'[e].status # "none"
    BY <2>1 DEF BatchOK
  <2>4. v # w => BatchOK(worker[v])'
    BY <2>1, <2>2, <2>3, BatchFrame
  <2> QED
    BY <2>4
<1>3. ASSUME NEW e \in Events PROVE EventOK(e)'
  <2>1. InHand(e)' <=> InHand(e)
    BY HandsFrame
  <2>2. faults \in Nat /\ MaxAttempts \in Nat /\ ev[e].attempts \in Nat /\ EventOK(e)
    BY OptionsAssumption DEF IInv, TypeOK, EventRows
  <2> QED
    BY <2>1, <2>2, EventFrame
<1>4. Exclusive'
  <2>1. \A v \in Workers, e \in Events : Has(worker'[v], e) => Has(worker[v], e)
    OBVIOUS
  <2> QED
    BY <2>1, ExclusiveFrame DEF IInv
<1> QED
  BY <1>1, <1>2, <1>3, <1>4 DEF IInv

LEMMA ListSubscriptionsHolds ==
  ASSUME IInv, TypeOK', NEW w \in Workers, ListSubscriptions(w)
  PROVE  IInv'
<1> DEFINE me == worker[w]
<1>1. PICK d \in me.batch :
        worker' = [worker EXCEPT ![w].pc = "listed", ![w].event = d,
                                 ![w].batch = @ \ {d}, ![w].targets = active]
  BY DEF ListSubscriptions
<1>2. me \in WorkerStates /\ me.pc = "next" /\ d \in Events
  BY DEF IInv, TypeOK, WorkerStates, ListSubscriptions
<1>3. /\ worker'[w].pc = "listed" /\ worker'[w].event = d /\ worker'[w].batch = me.batch \ {d}
      /\ worker'[w].targets = active /\ worker'[w].tries = me.tries
      /\ \A v \in Workers : v # w => worker'[v] = worker[v]
  BY <1>1, <1>2 DEF IInv, TypeOK, WorkerStates
<1>4. \A e \in Events : Has(worker'[w], e) <=> Has(me, e)
  BY <1>2, <1>3 DEF Has, AtWork
<1>5. UNCHANGED <<ev, delivered, active, since, got, shared, faults>>
  BY DEF ListSubscriptions
<1>6. DeliveryOK(worker[w])'
  BY <1>2, <1>3, <1>5 DEF DeliveryOK, IInv, EventOK
<1>7. BatchOK(worker[w])'
  <2>1. BatchOK(me)
    BY DEF IInv
  <2>2. \A e \in Events : Has(worker[w], e)' <=> Has(me, e)
    BY <1>4 DEF Has, AtWork
  <2> QED
    BY <1>3, <1>5, <2>1, <2>2 DEF BatchOK, AtWork
<1>8. \A e \in Events : delivered[e] \subseteq got[e]
  BY DEF IInv, EventOK
<1> QED
  BY <1>3, <1>4, <1>5, <1>6, <1>7, <1>8, StepHolds

LEMMA ListDeliveredHolds ==
  ASSUME IInv, TypeOK', NEW w \in Workers, ListDelivered(w)
  PROVE  IInv'
<1> DEFINE me == worker[w]
<1>1. me \in WorkerStates /\ me.pc = "listed" /\ DeliveryOK(me) /\ BatchOK(me)
  BY DEF IInv, TypeOK, ListDelivered
<1>2. /\ worker'[w].pc = "deliver" /\ worker'[w].event = me.event
      /\ worker'[w].batch = me.batch /\ worker'[w].tries = me.tries
      /\ worker'[w].targets = me.targets \ delivered[me.event]
      /\ \A v \in Workers : v # w => worker'[v] = worker[v]
  BY <1>1 DEF IInv, TypeOK, WorkerStates, ListDelivered, PendingTargets
<1>3. UNCHANGED <<ev, delivered, active, since, got, shared, faults>>
  BY DEF ListDelivered
<1>4. \A e \in Events : Has(worker'[w], e) <=> Has(me, e)
  BY <1>1, <1>2 DEF Has, AtWork
<1>5. DeliveryOK(worker[w])'
  BY <1>1, <1>2, <1>3 DEF DeliveryOK
<1>6. BatchOK(worker[w])'
  <2>1. \A e \in Events : Has(worker[w], e)' <=> Has(me, e)
    BY <1>4 DEF Has, AtWork
  <2> QED
    BY <1>1, <1>2, <1>3, <2>1 DEF BatchOK, AtWork
<1>7. \A e \in Events : delivered[e] \subseteq got[e]
  BY DEF IInv, EventOK
<1> QED
  BY <1>2, <1>3, <1>4, <1>5, <1>6, <1>7, StepHolds

LEMMA ListFailsHolds ==
  ASSUME IInv, TypeOK', NEW w \in Workers, ListFails(w)
  PROVE  IInv'
<1> DEFINE me == worker[w]
<1>1. me \in WorkerStates /\ BatchOK(me)
  BY DEF IInv, TypeOK
<1>2. /\ worker'[w].pc = "deliver" /\ worker'[w].failed /\ worker'[w].targets = {}
      /\ worker'[w].tries = me.tries /\ worker'[w].event \notin worker'[w].batch
      /\ \A v \in Workers : v # w => worker'[v] = worker[v]
      /\ \A e \in Events : Has(worker'[w], e) <=> Has(me, e)
  <2>1. CASE me.pc = "listed" /\
             worker' = [worker EXCEPT ![w].pc = "deliver", ![w].targets = {},
                                      ![w].failed = TRUE]
    <3>1. /\ worker'[w].pc = "deliver" /\ worker'[w].failed /\ worker'[w].targets = {}
          /\ worker'[w].tries = me.tries /\ worker'[w].event = me.event
          /\ worker'[w].batch = me.batch /\ \A v \in Workers : v # w => worker'[v] = worker[v]
      BY <1>1, <2>1 DEF IInv, TypeOK, WorkerStates
    <3> QED
      BY <1>1, <2>1, <3>1 DEF BatchOK, Has, AtWork
  <2>2. ASSUME me.pc = "next", NEW d \in me.batch,
               worker' = [worker EXCEPT ![w].pc = "deliver", ![w].event = d,
                                        ![w].batch = @ \ {d}, ![w].failed = TRUE]
        PROVE  /\ worker'[w].pc = "deliver" /\ worker'[w].failed /\ worker'[w].targets = {}
               /\ worker'[w].tries = me.tries /\ worker'[w].event \notin worker'[w].batch
               /\ \A v \in Workers : v # w => worker'[v] = worker[v]
               /\ \A e \in Events : Has(worker'[w], e) <=> Has(me, e)
    <3>1. /\ worker'[w].pc = "deliver" /\ worker'[w].failed /\ worker'[w].targets = me.targets
          /\ worker'[w].tries = me.tries /\ worker'[w].event = d
          /\ worker'[w].batch = me.batch \ {d}
          /\ \A v \in Workers : v # w => worker'[v] = worker[v]
      BY <1>1, <2>2 DEF IInv, TypeOK, WorkerStates
    <3>2. me.targets = {}
      BY <1>1, <2>2 DEF BatchOK
    <3> QED
      BY <2>2, <3>1, <3>2 DEF Has, AtWork
  <2> QED
    BY <2>1, <2>2 DEF ListFails
<1>3. faults' = faults + 1 /\ UNCHANGED <<ev, delivered, active, since, got, shared>>
  BY DEF ListFails
<1>4. DeliveryOK(worker[w])'
  BY <1>2 DEF DeliveryOK
<1>5. BatchOK(worker[w])'
  <2>1. \A e \in Events : Has(worker[w], e)' <=> Has(me, e)
    BY <1>2 DEF Has, AtWork
  <2> QED
    BY <1>1, <1>2, <1>3, <2>1 DEF BatchOK, AtWork
<1>6. \A e \in Events : delivered[e] \subseteq got[e]
  BY DEF IInv, EventOK
<1> QED
  BY <1>2, <1>3, <1>4, <1>5, <1>6, StepHolds

LEMMA SendHolds ==
  ASSUME IInv, TypeOK', NEW w \in Workers, SendWebhook(w)
  PROVE  IInv'
<1> DEFINE me == worker[w]
<1>1. /\ me \in WorkerStates /\ me.pc = "deliver" /\ me.event \in Events
      /\ DeliveryOK(me) /\ BatchOK(me)
  BY DEF IInv, TypeOK, SendWebhook, WorkerStates
<1>2. PICK t \in me.targets, ok \in BOOLEAN :
        /\ got' \in {[got EXCEPT ![me.event] = @ \cup {t}]} \cup (IF ok THEN {} ELSE {got})
        /\ worker' = [worker EXCEPT ![w].pc = "sent", ![w].target = t, ![w].ok = ok]
  BY DEF SendWebhook
<1>3. /\ worker'[w].pc = "sent" /\ worker'[w].target = t /\ worker'[w].ok = ok
      /\ worker'[w].event = me.event /\ worker'[w].batch = me.batch
      /\ worker'[w].tries = me.tries /\ worker'[w].targets = me.targets
      /\ worker'[w].failed = me.failed
      /\ \A v \in Workers : v # w => worker'[v] = worker[v]
  BY <1>1, <1>2 DEF IInv, TypeOK, WorkerStates
<1>4. UNCHANGED <<ev, delivered, active, since, shared, faults>>
  BY DEF SendWebhook
<1>5. (\A e \in Events : got[e] \subseteq got'[e]) /\ (ok => t \in got'[me.event])
  BY <1>1, <1>2 DEF IInv, TypeOK
<1>6. \A e \in Events : Has(worker'[w], e) <=> Has(me, e)
  BY <1>1, <1>3 DEF Has, AtWork
<1>7. DeliveryOK(worker[w])'
  BY <1>1, <1>3, <1>4, <1>5 DEF DeliveryOK
<1>8. BatchOK(worker[w])'
  <2>1. \A e \in Events : Has(worker[w], e)' <=> Has(me, e)
    BY <1>6 DEF Has, AtWork
  <2> QED
    BY <1>1, <1>3, <1>4, <2>1 DEF BatchOK, AtWork
<1>9. \A e \in Events : delivered[e] \subseteq got'[e]
  BY <1>5 DEF IInv, EventOK
<1> QED
  BY <1>3, <1>4, <1>5, <1>6, <1>7, <1>8, <1>9, StepHolds

LEMMA RecordHolds ==
  ASSUME IInv, TypeOK', NEW w \in Workers, RecordWebhookDelivery(w)
  PROVE  IInv'
<1> DEFINE me == worker[w]
<1>1. /\ me \in WorkerStates /\ me.pc = "sent" /\ me.event \in Events
      /\ DeliveryOK(me) /\ BatchOK(me)
  BY DEF IInv, TypeOK, RecordWebhookDelivery, WorkerStates
<1>2. /\ worker'[w].pc = "deliver" /\ worker'[w].event = me.event
      /\ worker'[w].batch = me.batch /\ worker'[w].tries = me.tries
      /\ worker'[w].targets = me.targets \ {me.target}
      /\ worker'[w].failed = (me.failed \/ ~me.ok)
      /\ \A v \in Workers : v # w => worker'[v] = worker[v]
  <2>1. worker' = [worker EXCEPT ![w] = Recorded(me)]
    BY DEF RecordWebhookDelivery
  <2> QED
    BY <1>1, <2>1 DEF IInv, TypeOK, WorkerStates, Recorded
<1>3. UNCHANGED <<ev, active, since, got, shared, faults>>
  BY DEF RecordWebhookDelivery
<1>4. /\ delivered'[me.event] \subseteq delivered[me.event] \cup {me.target}
      /\ me.ok => me.target \in delivered'[me.event]
      /\ \A e \in Events : delivered[e] \subseteq delivered'[e]
      /\ \A e \in Events : e # me.event \/ ~me.ok => delivered'[e] = delivered[e]
  BY <1>1 DEF IInv, TypeOK, RecordWebhookDelivery
<1>5. \A e \in Events : delivered'[e] \subseteq got[e]
  BY <1>1, <1>4 DEF IInv, EventOK, DeliveryOK
<1>6. \A e \in Events : Has(worker'[w], e) <=> Has(me, e)
  BY <1>1, <1>2 DEF Has, AtWork
<1>7. \A e \in Events : ~Has(me, e) => delivered'[e] = delivered[e]
  BY <1>1, <1>4 DEF Has, AtWork
<1>8. DeliveryOK(worker[w])'
  BY <1>1, <1>2, <1>3, <1>4 DEF DeliveryOK, WorkerStates
<1>9. BatchOK(worker[w])'
  <2>1. \A e \in Events : Has(worker[w], e)' <=> Has(me, e)
    BY <1>6 DEF Has, AtWork
  <2>2. worker'[w].event \notin shared' => worker'[w].targets \cap delivered'[worker'[w].event] = {}
    BY <1>1, <1>2, <1>3, <1>4 DEF BatchOK
  <2> QED
    BY <1>1, <1>2, <1>3, <2>1, <2>2 DEF BatchOK, AtWork
<1> QED
  BY <1>2, <1>3, <1>4, <1>5, <1>6, <1>7, <1>8, <1>9, StepHolds

\* A worker gives up an event, or its whole batch, with a fault: whatever attempt
\* is lost by it, the fault accounts for.
LEMMA GiveUpHolds ==
  ASSUME IInv, TypeOK', NEW w \in Workers, StatementFails(w) \/ Crash(w)
  PROVE  IInv'
<1> DEFINE me == worker[w]
<1>1. me \in WorkerStates /\ BatchOK(me)
  BY DEF IInv, TypeOK
<1>2. /\ UNCHANGED <<ev, delivered, active, since, got, shared>> /\ faults' = faults + 1
      /\ \A v \in Workers : v # w => worker'[v] = worker[v]
      /\ worker'[w] \in {Idle, NextOfBatch(me)}
  BY DEF IInv, TypeOK, StatementFails, Crash
<1>3. /\ worker'[w].pc \in {"idle", "next"} /\ worker'[w].targets = {}
      /\ worker'[w].pc = "idle" => worker'[w].batch = {}
      /\ worker'[w].batch \in {{}, me.batch}
      /\ worker'[w].batch # {} => worker'[w].tries = me.tries
  BY <1>1, <1>2, IdleType, NextOfBatchType
<1>4. \A v \in Workers, e \in Events : Has(worker'[v], e) => Has(worker[v], e)
  BY <1>2, <1>3 DEF Has, AtWork
<1>5. ASSUME NEW v \in Workers PROVE DeliveryOK(worker[v])'
  <2>1. v # w => DeliveryOK(worker[v])'
    BY <1>2, DeliveryFrame DEF IInv
  <2> QED
    BY <1>3, <2>1 DEF DeliveryOK
<1>6. ASSUME NEW v \in Workers PROVE BatchOK(worker[v])'
  <2>1. v # w => BatchOK(worker[v])'
    BY <1>2, BatchFrame DEF IInv, BatchOK
  <2>2. \A e \in Events : Has(worker[w], e)' <=> e \in worker'[w].batch
    BY <1>3 DEF Has, AtWork
  <2>3. \A e \in Events : e \in worker'[w].batch => Has(me, e) /\ worker'[w].tries = me.tries
    BY <1>3 DEF Has
  <2>4. BatchOK(worker[w])'
    BY <1>1, <1>2, <1>3, <2>2, <2>3 DEF BatchOK, AtWork
  <2> QED
    BY <2>1, <2>4
<1>7. ASSUME NEW e \in Events PROVE EventOK(e)'
  <2>1. faults \in Nat /\ MaxAttempts \in Nat /\ ev[e].attempts \in Nat /\ EventOK(e)
    BY OptionsAssumption DEF IInv, TypeOK, EventRows
  <2> QED
    BY <1>2, <2>1 DEF EventOK
<1>8. Exclusive'
  BY <1>2, <1>4, ExclusiveFrame DEF IInv
<1> QED
  BY <1>5, <1>6, <1>7, <1>8 DEF IInv

\* An event is closed: its deliveries justify the status it gets, or an attempt
\* is left when it is to be retried.
LEMMA CloseHolds ==
  ASSUME IInv, TypeOK', NEW w \in Workers,
         MarkOutboxEventDelivered(w) \/ ScheduleOutboxEventRetry(w)
           \/ MarkOutboxEventDeadLetter(w)
  PROVE  IInv'
<1> DEFINE me == worker[w]
           d == me.event
<1>1. /\ me \in WorkerStates /\ DeliveryOK(me) /\ BatchOK(me) /\ d \in Events
      /\ ev[d] \in EventRows /\ me.pc = "deliver" /\ me.targets = {} /\ Has(me, d)
  BY DEF IInv, TypeOK, WorkerStates, MarkOutboxEventDelivered, ScheduleOutboxEventRetry,
         MarkOutboxEventDeadLetter, Close, Has, AtWork
<1>2. /\ UNCHANGED <<delivered, active, since, got, shared, faults>>
      /\ \A v \in Workers : v # w => worker'[v] = worker[v]
      /\ worker'[w] = NextOfBatch(me)
      /\ \A e \in Events : e # d => ev'[e] = ev[e]
  BY <1>1 DEF IInv, TypeOK, MarkOutboxEventDelivered, ScheduleOutboxEventRetry,
         MarkOutboxEventDeadLetter, Close
<1>3. /\ worker'[w].pc \in {"idle", "next"} /\ worker'[w].targets = {}
      /\ worker'[w].pc = "idle" => worker'[w].batch = {}
      /\ worker'[w].batch = me.batch
      /\ me.batch # {} => worker'[w].tries = me.tries
  BY <1>1, <1>2, NextOfBatchType
<1>4. /\ ev'[d].attempts = ev[d].attempts
      /\ \/ ev'[d].status = "delivered" /\ ~me.failed
         \/ ev'[d].status = "pending" /\ ~LastTry(w)
         \/ ev'[d].status = "dead_letter"
  <2>1. CASE MarkOutboxEventDelivered(w)
    <3>1. ev' = [ev EXCEPT ![d] = [ev[d] EXCEPT !.status = "delivered", !.lock = 0]]
          /\ ~me.failed
      BY <2>1 DEF MarkOutboxEventDelivered, Close
    <3> QED
      BY <1>1, <3>1 DEF IInv, TypeOK, EventRows
  <2>2. CASE ScheduleOutboxEventRetry(w)
    <3>1. ev' = [ev EXCEPT ![d] = [ev[d] EXCEPT !.status = "pending", !.lock = 0,
                                     !.wait = Backoff(me.tries[d])]]
          /\ ~LastTry(w)
      BY <2>2 DEF ScheduleOutboxEventRetry, Close
    <3> QED
      BY <1>1, <3>1 DEF IInv, TypeOK, EventRows
  <2>3. CASE MarkOutboxEventDeadLetter(w)
    <3>1. ev' = [ev EXCEPT ![d] = [ev[d] EXCEPT !.status = "dead_letter", !.lock = 0]]
      BY <2>3 DEF MarkOutboxEventDeadLetter, Close
    <3> QED
      BY <1>1, <3>1 DEF IInv, TypeOK, EventRows
  <2> QED
    BY <2>1, <2>2, <2>3
<1>5. \A v \in Workers, e \in Events : Has(worker'[v], e) => Has(worker[v], e)
  BY <1>2, <1>3 DEF Has, AtWork
<1>6. \A v \in Workers, e \in Events : e # d => (Has(worker'[v], e) <=> Has(worker[v], e))
  BY <1>1, <1>2, <1>3 DEF Has, AtWork
<1>7. \A v \in Workers : d \notin shared => ~Has(worker'[v], d)
  <2>1. ~Has(worker'[w], d)
    BY <1>1, <1>3 DEF Has, AtWork, BatchOK
  <2> QED
    BY <1>1, <1>2, <2>1 DEF IInv, Exclusive
<1>8. ASSUME NEW v \in Workers PROVE DeliveryOK(worker[v])'
  <2>1. v # w => DeliveryOK(worker[v])'
    BY <1>2, DeliveryFrame DEF IInv
  <2> QED
    BY <1>3, <2>1 DEF DeliveryOK
<1>9. ASSUME NEW v \in Workers PROVE BatchOK(worker[v])'
  <2>1. \A e \in Events : Has(worker[v], e) => ev'[e].status # "none"
    BY <1>2, <1>4 DEF IInv, BatchOK
  <2>2. CASE v # w
    <3>1. \A e \in Events \ shared : Has(worker[v], e) => e # d
      BY <1>2, <1>7, <2>2
    <3>2. TypeOK /\ BatchOK(worker[v]) /\ worker'[v] = worker[v]
      BY <1>2, <2>2 DEF IInv
    <3> QED
      BY <1>2, <2>1, <3>1, <3>2, BatchFrame
  <2>3. CASE v = w
    <3>1. \A e \in Events : Has(worker[w], e)' <=> e \in me.batch
      BY <1>3 DEF Has, AtWork
    <3>2. \A e \in Events : e \in me.batch => /\ e # d /\ Has(me, e) /\ ev'[e] = ev[e]
                                              /\ worker'[w].tries = me.tries
      BY <1>1, <1>2, <1>3 DEF Has, BatchOK, AtWork
    <3> QED
      BY <1>1, <1>2, <1>3, <2>3, <3>1, <3>2 DEF BatchOK, AtWork
  <2> QED
    BY <2>2, <2>3
<1>10. ASSUME NEW e \in Events PROVE EventOK(e)'
  <2>1. faults \in Nat /\ MaxAttempts \in Nat /\ ev[e].attempts \in Nat /\ EventOK(e)
    BY OptionsAssumption DEF IInv, TypeOK, EventRows
  <2>2. CASE e # d
    <3>1. InHand(e)' <=> InHand(e)
      BY <1>6, <2>2, HandsFrame
    <3> QED
      BY <1>2, <2>1, <2>2, <3>1 DEF EventOK
  <2>3. CASE e = d
    <3>1. ev'[d].status = "delivered" => since[d] \subseteq delivered[d]
      BY <1>1, <1>4 DEF DeliveryOK
    <3>2. d \notin shared /\ ev'[d].status = "pending" => ev[d].attempts < MaxAttempts
      BY <1>1, <1>4, <2>1, <2>3 DEF LastTry, BatchOK
    <3>3. ev'[d].status # "none"
      BY <1>4
    <3> QED
      BY <1>2, <1>4, <2>1, <2>3, <3>1, <3>2, <3>3 DEF EventOK
  <2> QED
    BY <2>2, <2>3
<1>11. Exclusive'
  BY <1>2, <1>5, ExclusiveFrame DEF IInv
<1> QED
  BY <1>8, <1>9, <1>10, <1>11 DEF IInv

LEMMA FetchHolds ==
  ASSUME IInv, TypeOK', NEW w \in Workers, FetchDueOutboxEvents(w)
  PROVE  IInv'
<1>1. PICK picked \in SUBSET DueEvents :
        /\ shared' = shared \cup {e \in picked : InHand(e)}
        /\ ev' = [e \in Events |->
                    IF e \in picked
                    THEN [ev[e] EXCEPT !.attempts = @ + 1, !.lock = LockFor]
                    ELSE ev[e]]
        /\ worker' = [worker EXCEPT ![w] =
             [Idle EXCEPT !.pc = "next", !.batch = picked,
                !.tries = [e \in Events |-> IF e \in picked THEN ev[e].attempts + 1 ELSE 0]]]
  BY DEF FetchDueOutboxEvents
<1>2. \A e \in picked : e \in Events /\ ev[e].status = "pending"
  BY DEF DueEvents
<1>3. /\ UNCHANGED <<delivered, active, since, got, faults>> /\ worker[w].pc = "idle"
      /\ TypeOK /\ BatchOK(worker[w])
  BY DEF FetchDueOutboxEvents, IInv
<1>4. /\ \A v \in Workers : v # w => worker'[v] = worker[v]
      /\ worker'[w].pc = "next" /\ worker'[w].batch = picked /\ worker'[w].targets = {}
      /\ \A e \in picked : worker'[w].tries[e] = ev[e].attempts + 1
  BY <1>1, <1>2, <1>3, IdleType DEF TypeOK, WorkerStates
<1>5. \A e \in Events :
        /\ ev'[e].status = ev[e].status
        /\ e \in picked => ev'[e].attempts = ev[e].attempts + 1
        /\ e \notin picked => ev'[e] = ev[e]
  <2> SUFFICES ASSUME NEW e \in Events
               PROVE  /\ ev'[e].status = ev[e].status
                      /\ e \in picked => ev'[e].attempts = ev[e].attempts + 1
                      /\ e \notin picked => ev'[e] = ev[e]
    OBVIOUS
  <2>1. ev[e] \in EventRows
    BY <1>3 DEF TypeOK
  <2> QED
    BY <1>1, <2>1 DEF EventRows
<1>6. \A e \in Events : (Has(worker'[w], e) <=> e \in picked) /\ ~Has(worker[w], e)
  BY <1>3, <1>4 DEF Has, AtWork, BatchOK
<1>7. \A v \in Workers, e \in Events : Has(worker[v], e) /\ e \in picked => e \in shared'
  BY <1>1, HandFacts
<1>8. ASSUME NEW v \in Workers PROVE DeliveryOK(worker[v])'
  <2>1. v # w => DeliveryOK(worker[v])'
    BY <1>3, <1>4, DeliveryFrame DEF IInv
  <2> QED
    BY <1>4, <2>1 DEF DeliveryOK
<1>9. ASSUME NEW v \in Workers PROVE BatchOK(worker[v])'
  <2>1. CASE v # w
    <3>1. BatchOK(worker[v])
      BY DEF IInv
    <3>2. \A e \in Events : Has(worker[v], e) => ev'[e].status # "none"
      BY <1>5, <3>1 DEF BatchOK
    <3>3. \A e \in Events \ shared' : Has(worker[v], e) => ev'[e] = ev[e]
      BY <1>5, <1>7
    <3>4. worker'[v] = worker[v] /\ shared \subseteq shared'
      BY <1>1, <1>4, <2>1
    <3> QED
      BY <1>3, <3>1, <3>2, <3>3, <3>4, BatchFrame
  <2>2. CASE v = w
    <3>1. \A e \in Events : Has(worker[w], e)' <=> e \in picked
      BY <1>6 DEF Has, AtWork
    <3> QED
      BY <1>2, <1>4, <1>5, <2>2, <3>1 DEF BatchOK, AtWork
  <2> QED
    BY <2>1, <2>2
<1>10. ASSUME NEW e \in Events PROVE EventOK(e)'
  <2>1. faults \in Nat /\ MaxAttempts \in Nat /\ ev[e].attempts \in Nat /\ EventOK(e)
    BY OptionsAssumption DEF IInv, TypeOK, EventRows
  <2>2. e \notin shared' => e \notin shared /\ (e \in picked => ~InHand(e))
    BY <1>1
  <2>3. e \in picked => InHand(e)'
    BY <1>4 DEF InHand
  <2>4. e \notin picked => (InHand(e)' <=> InHand(e))
    BY <1>4, <1>6, HandsFrame
  <2>5. CASE e \in picked
    BY <1>2, <1>3, <1>5, <2>1, <2>2, <2>3, <2>5 DEF EventOK
  <2>6. CASE e \notin picked
    BY <1>3, <1>5, <2>1, <2>2, <2>4, <2>6 DEF EventOK
  <2> QED
    BY <2>5, <2>6
<1>11. Exclusive'
  <2> SUFFICES ASSUME NEW e \in Events \ shared', NEW u \in Workers, NEW v \in Workers,
                      Has(worker'[u], e), Has(worker'[v], e)
               PROVE  u = v
    BY DEF Exclusive, Has, AtWork
  <2>1. \A x \in Workers : x # w /\ Has(worker'[x], e) => Has(worker[x], e)
    BY <1>4
  <2>2. e \in picked => \A x \in Workers : ~Has(worker[x], e)
    BY <1>7
  <2>3. e \notin shared
    BY <1>1
  <2> QED
    BY <1>6, <2>1, <2>2, <2>3 DEF IInv, Exclusive
<1> QED
  BY <1>8, <1>9, <1>10, <1>11 DEF IInv

LEMMA NextHolds == IInv /\ [Next]_vars => IInv'
<1> SUFFICES ASSUME IInv, [Next]_vars PROVE IInv'
  OBVIOUS
<1>1. TypeOK'
  BY TypesHold DEF IInv
<1> QED
  BY <1>1, InsertHolds, ToggleHolds, TickHolds, FetchHolds, ListSubscriptionsHolds,
     ListDeliveredHolds, ListFailsHolds, SendHolds, RecordHolds, CloseHolds, GiveUpHolds
     DEF Next, Continue

--------------------------------------------------------------------------------
\* The theorems

THEOREM Invariance == Spec => []IInv
  BY InitHolds, NextHolds, PTL DEF Spec

\* Every variable keeps its type: for one, no backoff and no attempt count leaves
\* the naturals.
THEOREM TypeCorrect == Spec => []TypeOK
<1>1. IInv => TypeOK
  BY DEF IInv
<1> QED
  BY <1>1, Invariance, PTL

\* An event marked delivered reached every subscription that was on since the
\* event was inserted, whatever crashes, fails, overlaps or is switched meanwhile.
THEOREM NothingLost == Spec => []DeliveredReachedAll
<1>1. IInv => DeliveredReachedAll
  BY DEF IInv, EventOK, DeliveredReachedAll
<1> QED
  BY <1>1, Invariance, PTL

\* The delivery history never claims a success the endpoint did not see.
THEOREM HistoryTrue == Spec => []HistoryIsTrue
<1>1. IInv => HistoryIsTrue
  BY DEF IInv, EventOK, HistoryIsTrue
<1> QED
  BY <1>1, Invariance, PTL

\* Only a crash, a failed statement or an expired lock costs an event an attempt
\* beyond MaxAttempts.
THEOREM AttemptsLimited == Spec => []AttemptsBounded
<1>1. IInv => AttemptsBounded
  BY DEF IInv, EventOK, AttemptsBounded
<1> QED
  BY <1>1, Invariance, PTL

\* A closed event is not reopened while its lock holds.
THEOREM ClosedForGood == Spec => ClosedStaysClosed
<1> DEFINE Stays == \A e \in Events \ shared :
             ev[e].status \in {"delivered", "dead_letter"} => ev'[e].status = ev[e].status
<1>1. IInv /\ [Next]_vars => [Stays]_vars
  <2> SUFFICES ASSUME IInv, Next, NEW e \in Events \ shared,
                      ev[e].status \in {"delivered", "dead_letter"}
               PROVE  ev'[e].status = ev[e].status
    OBVIOUS
  <2>0. ev[e] \in EventRows /\ ev \in [Events -> EventRows]
    BY DEF IInv, TypeOK
  <2>1. ASSUME NEW d \in Events, InsertOutboxEvent(d) PROVE ev'[e] = ev[e]
    BY <2>0, <2>1 DEF InsertOutboxEvent
  <2>2. ASSUME NEW w \in Workers, FetchDueOutboxEvents(w) PROVE ev'[e] = ev[e]
    BY <2>0, <2>2 DEF FetchDueOutboxEvents, DueEvents
  <2>3. ASSUME NEW w \in Workers, NEW new, Close(w, new) PROVE ev'[e] = ev[e]
    <3>1. worker[w].event = e => ev[e].status = "pending"
      BY <2>3 DEF IInv, BatchOK, Has, AtWork, Close
    <3> QED
      BY <2>0, <2>3, <3>1 DEF Close
  <2>4. CASE Tick
    BY <2>0, <2>4 DEF Tick, EventRows
  <2>5. ASSUME NEW s \in Subs, SetSubscriptionActive(s) PROVE ev'[e] = ev[e]
    BY <2>5 DEF SetSubscriptionActive
  <2>6. ASSUME NEW w \in Workers,
               \/ Continue(w) \/ ListFails(w) \/ StatementFails(w) \/ Crash(w)
        PROVE  ev'[e] = ev[e]
    BY <2>3, <2>6 DEF Continue, ListSubscriptions, ListDelivered, SendWebhook,
       RecordWebhookDelivery, MarkOutboxEventDelivered, ScheduleOutboxEventRetry,
       MarkOutboxEventDeadLetter, ListFails, StatementFails, Crash
  <2> QED
    BY <2>1, <2>2, <2>4, <2>5, <2>6 DEF Next
<1> QED
  BY <1>1, Invariance, PTL DEF Spec, ClosedStaysClosed

\* A success on record spares the subscriber every further call for that event,
\* while the lock holds.
THEOREM NoSecondCall == Spec => RecordedNotResent
<1> DEFINE Fresh == \A w \in Workers :
             worker[w].pc = "deliver" /\ worker'[w].pc = "sent"
               /\ worker[w].event \notin shared =>
                 worker'[w].target \notin delivered[worker[w].event]
<1>1. IInv /\ [Next]_vars => [Fresh]_vars
  <2> SUFFICES ASSUME IInv, Next, NEW w \in Workers, worker[w].pc = "deliver",
                      worker'[w].pc = "sent", worker[w].event \notin shared
               PROVE  worker'[w].target \notin delivered[worker[w].event]
    OBVIOUS
  <2>0. worker[w] \in WorkerStates /\ worker \in [Workers -> WorkerStates]
    BY DEF IInv, TypeOK
  <2>1. SendWebhook(w)
    <3>1. \A v \in Workers : Idle.pc # "sent" /\ NextOfBatch(worker[v]).pc # "sent"
      BY IdleType, NextOfBatchType DEF IInv, TypeOK
    <3>2. worker'[w] # worker[w]
      OBVIOUS
    <3>3. PICK v \in Workers : FetchDueOutboxEvents(v) \/ Continue(v) \/ ListFails(v)
                               \/ StatementFails(v) \/ Crash(v)
      BY <3>2 DEF Next, InsertOutboxEvent, SetSubscriptionActive, Tick
    <3>4. v # w => worker'[w] = worker[w]
      <4>1. ListFails(v) /\ v # w => worker'[w] = worker[w]
        BY <2>0 DEF ListFails
      <4>2. SendWebhook(v) /\ v # w => worker'[w] = worker[w]
        BY <2>0 DEF SendWebhook
      <4>3. ListSubscriptions(v) /\ v # w => worker'[w] = worker[w]
        BY <2>0 DEF ListSubscriptions
      <4>4. FetchDueOutboxEvents(v) /\ v # w => worker'[w] = worker[w]
        BY <2>0 DEF FetchDueOutboxEvents
      <4>5. (ListDelivered(v) \/ RecordWebhookDelivery(v) \/ StatementFails(v) \/ Crash(v))
            /\ v # w => worker'[w] = worker[w]
        BY <2>0 DEF ListDelivered, RecordWebhookDelivery, StatementFails, Crash
      <4>6. \A new : Close(v, new) /\ v # w => worker'[w] = worker[w]
        BY <2>0 DEF Close
      <4> QED
        BY <3>3, <4>1, <4>2, <4>3, <4>4, <4>5, <4>6 DEF Continue, MarkOutboxEventDelivered,
           ScheduleOutboxEventRetry, MarkOutboxEventDeadLetter
    <3>5. v = w
      BY <3>2, <3>4
    <3>6. ~FetchDueOutboxEvents(w) /\ ~ListSubscriptions(w) /\ ~ListDelivered(w)
          /\ ~RecordWebhookDelivery(w)
      BY DEF FetchDueOutboxEvents, ListSubscriptions, ListDelivered, RecordWebhookDelivery
    <3>7. ~ListFails(w)
      BY DEF ListFails
    <3>8. ~StatementFails(w) /\ ~Crash(w) /\ \A new : ~Close(w, new)
      BY <2>0, <3>1 DEF StatementFails, Crash, Close
    <3> QED
      BY <3>3, <3>5, <3>6, <3>7, <3>8 DEF Continue, MarkOutboxEventDelivered,
         ScheduleOutboxEventRetry, MarkOutboxEventDeadLetter
  <2>2. worker'[w].target \in worker[w].targets
    BY <2>0, <2>1 DEF SendWebhook, WorkerStates
  <2>3. worker[w].targets \cap delivered[worker[w].event] = {}
    BY DEF IInv, BatchOK
  <2> QED
    BY <2>2, <2>3
<1> QED
  BY <1>1, Invariance, PTL DEF Spec, RecordedNotResent

================================================================================
