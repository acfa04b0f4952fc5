# PTrans in TLA+

PTrans is a payment service in Go: an HTTP API over PostgreSQL creates and
cancels payments and refunds, a refund worker submits refunds to an external
provider and reconciles their status, and a webhook worker delivers the events
of a transactional outbox. The modules here model what these parts do when they
run concurrently, fail, restart and retry. TLC checks them on small instances;
TLAPS proves for every instance all that is claimed of safety; only liveness is
left to TLC alone.

## The system

| part | state | operations | talks to |
|---|---|---|---|
| refund service and storage (`internal/refunds/service.go`, `internal/storage/refunds.go`) | tables `refunds`, `reconciliation_results` | CreateRefund, RequestRefundRecheck, ClaimRefund, ApplyRefundOutcome; two triggers guard the transitions and write outbox events | called by the API and by the refund workers |
| refund worker (`internal/refunds/worker.go`) | none of its own; a leased row between claim and save | ReconcileOnce, ProcessOnce, decide, backoff | storage, provider client |
| provider client (`internal/provider`) | none | Submit, Lookup | provider, over HTTP |
| mock provider (`internal/mockprovider`) | records in memory and in a file, a mode | submit, lookup, setMode, resolve, restart | called by the client and by operators |
| payments (`internal/storage/store.go`, `internal/service`) | per-user payment table, `idempotency_keys` | CreatePayment, CancelPayment | called by the API and by `cmd/seed` |
| webhook subscriptions (`internal/storage/store.go`, `internal/service`) | per-user subscription table | CreateSubscription, SetSubscriptionActive | called by the API, read by the webhook worker |
| outbox and webhook worker (`internal/worker`, `internal/storage/store.go`) | `outbox_events`, `webhook_deliveries` | fetch and lock a batch, deliver, record, close or reschedule | storage, subscribers' endpoints |
| per-user schema (`ensureUserSchema` in `internal/storage/store.go`) | `app_users`, the tables of each user, a cache per process | create the tables on the first request of a user | called by every storage operation of the API |
| rate limiter (`internal/ratelimit`, `withRateLimit`) | a counter per scope and window in the database | Allow | called by the router |
| HTTP router (`internal/httpapi`) | none | authenticate, limit, decode, call, read back, answer | services, limiter, tokens |
| authentication (`internal/auth`, `cmd/token`) | none; tokens are with the clients | Issue, Authenticate | called by the router |
| event log and state (`internal/eventlog`, `internal/state`) | a file of lines; maps in memory | Append, Replay, Apply | used by no other package |
| commands and configuration (`cmd`, `internal/config`) | none | wiring, shutdown | |

What is hard here: several workers on the same rows, held apart only by leases
(refunds) or by locks that nothing checks again (outbox); HTTP calls whose
request may be executed after the caller gave up; crashes between the steps of a
round; timestamps read at one moment and used at another, and cut to whole
seconds; concurrent requests at READ COMMITTED; caches of what a transaction has
committed; a provider that writes a file and its memory one after the other; a
log whose last line may be torn. `PROJECT.json` lists these hazards line by
line, with the properties that would catch each going wrong.

What makes the parts correct, in one line each:

- refunds: whoever writes a row decided from that row; a finished refund is
  finished; a verdict is the provider's; every refund is settled in the end; the
  reservations on a payment fit into it;
- creation: a request behaves as if it ran alone; one key, one refund;
- payments: one key, one payment; events and payments agree; settled stays;
- subscriptions: requests take effect one at a time, and an answer that
  contradicts its request was overtaken by another request;
- outbox: what is marked delivered was received by everyone entitled to it;
  nothing recorded is sent again; every event is closed in the end;
- provider: no final result is taken back, whatever fails while writing it;
- user schema: whoever is served has both tables, and nobody else has them;
- rate limiter: nobody is refused without cause or promised more than there is,
  and waiting as told helps;
- API: a call with a key that is tried again takes effect once, what the client is
  told is so, and a client that keeps trying gets an answer;
- tokens: none lives longer than its lifetime and the lead of the issuer's clock, none
  dies much earlier, and none comes back;
- event log: what was acknowledged before the first damage is replayed, and
  nothing acknowledged is passed over in silence.

## Modules

| module | models | uses |
|---|---|---|
| `ProviderApi` | one HTTP request to the provider: what it does to the record of an operation, and what the client makes of the answer | |
| `ProviderPromise` | abstract: what a worker may rely on in any provider | `ProviderApi` |
| `RefundDecision` | rows, transitions, the CHECKs and the guarding trigger, `decide`, `backoff`, the reconciliation verdict | `ProviderApi` |
| `Refunds` | refunds table, provider, workers, time and failures | `RefundDecision` |
| `MockProvider` | the provider with its file, failing writes and restarts | `ProviderApi`, `ProviderPromise` |
| `RefundBook` | abstract: what `POST /v1/refunds` promises, each request one step | |
| `RefundCreation` | `CreateRefund` statement by statement under concurrency | `RefundBook` |
| `Payments` | `CreatePayment` and `CancelPayment` statement by statement | |
| `SubscriptionSwitch` | abstract: what the subscription endpoints promise | |
| `Subscriptions` | `CreateSubscription` and `SetSubscriptionActive` statement by statement | `SubscriptionSwitch` |
| `Outbox` | the webhook worker on the outbox tables | |
| `UserSchema` | `ensureUserSchema` statement by statement, in several processes | |
| `RateLimiter` | windows, the upsert, the headers, and clients that obey them | |
| `Api` | a call through router, limiter, service and storage, with clients that retry | |
| `AccessTokens` | issuing and checking a token on two clocks | |
| `EventState` | the events of the state store, as operators | |
| `EventLog` | the file of events, its damage and its replay | `EventState` |
| `RefundsProofs`, `RefundCreationProofs`, `OutboxProofs`, `UserSchemaProofs`, `RateLimiterProofs` | theorems | the module in the name |
| `StoreProofs` | theorems about the transactions of `store.go` | `Payments`, `Subscriptions` |
| `ApiProofs` | theorems about what clients meet | `Api`, `AccessTokens` |
| `FileProofs` | theorems about what is kept in files | `EventLog`, `MockProvider` |
| `MCRefunds`, `MCRefundCreation`, `MCPayments`, `MCRateLimiter`, `MCEventLog`, `MCUserSchema`, `MCApi` | instances for TLC | the module in the name |

Three abstract specifications are implemented by detailed ones, each through
`INSTANCE` or shared variables:

- `MockProvider` implements `ProviderPromise` (`KeepsPromise`): the record of the
  promise is the one in memory, which every caller is told; a restart that brings to
  light what a failed save left in the file is one step of the promise. `Refunds` has a
  provider of its own, without a file, which changes a record by the same operators of
  `ProviderApi`.
- `RefundCreation` implements `RefundBook` (`ImplementsBook`).
- `Subscriptions` implements `SubscriptionSwitch` (`ImplementsSwitch`).

Operators named `...Mutant` are broken variants of the operator that follows
them. No specification uses them; each is a plausible bug that one of the
properties must notice when it is put in place of the original.

### Refunds

`row[r]` is the row of the refund, with instants relative to now: `wait` (until
`next_action_at`), `lease` (until `lease_until`), `started` (since
`processing_started_at`, which stops counting at `StuckAfter`, the only value it
is compared with). `Tick` ages all of them together, so the model needs no
clock. `last_error` is reduced to the reason it gives. `record[r]` is the
provider's record and `late[r]` counts submissions that are under way though
nobody waits for them any more. `event[r]` and `audit[r]` are the last outbox
event and the last reconciliation result.

A worker's round is `ClaimSubmit` or `ClaimReconcile` (a transaction),
`SendRequest`, the server's step (`ServeSubmit`, `ServeLookup`, `Unauthorized`),
`ReceiveAnswer` or `CallFails`, and `SaveApplied` or `SaveRejected` (a
transaction). The worker keeps the row it claimed, aged until it reads `now`
after the call, as the code does. `Crash` abandons the round anywhere; a
submission that was sent lives on in `late`. `Stall` lets time pass for a worker
anywhere, for instance between reading `now` and saving. `posts[r]` is history: the
submissions sent for a refund; a submission stands for all copies that net/http makes
of it when a kept connection breaks, which it may, as the request has an
Idempotency-Key. A worker that is not
stalled takes no time for its own steps, and its call is cut off after
`RequestTimeout` (`Punctual`). The lease token is random in the code; the model
uses the version the claim gives the row, which no earlier claim had.

The server answers in any of its modes at any time, which includes every change of
mode. Behind a 500 the provider's file may already hold the record (see
`MockProvider`): the operation then appears later, like a late submission.

The order in which `ClaimRefund` picks rows is not modelled: any due row may be
picked, which the order, rows skipped because they are locked, and rows that
appear meanwhile only restrict.

### RefundCreation and RefundBook

`pc[c]` is the statement request `c` is at. `keyLock` is the advisory lock,
`payLock` the row lock of the payment, `inserted` the uncommitted rows. The
unique constraint makes an insert wait for an uncommitted one of the same key.
`CommitUnacknowledged` commits without telling the client; `Rollback` is any
statement that fails and any request that is cancelled. `RefundCreation` extends
`RefundBook` and shares its variables `book`, `reserved` and `answer`, so the
refinement mapping is the identity on them and every other step is a stutter of
the book. The sum of some refunds is the number of their `Units` of money, which
lets the prover reason about it with the theorems on finite sets.

### Payments

The same style: `keyLock` is the uncommitted row in `idempotency_keys` that an
`ON CONFLICT` insert waits for, `rowLock` the payment row locked by an
uncommitted update. The status of a payment is read without a lock, as in the code.
A payment with status SUCCEEDED only comes from `cmd/seed`.

### Subscriptions and SubscriptionSwitch

`active[s]` is the committed row, `lock[s]` the transaction that wrote it and has
not ended. `SetSubscriptionActive` reads without a lock, returns early when
nothing would change, and otherwise updates whatever the row has become
meanwhile; the handler reads the row once more for its answer. `log` is history:
the requests in the order they took effect, which is at the early return or at
the commit. A POST may create a subscription that is off (`BornOff`).

### Outbox

`ev[e]` is the row of the event, `delivered[e]` the subscriptions with a
successful row in `webhook_deliveries`, `got[e]` who really received it,
`since[e]` the subscriptions that were on ever since the event was inserted:
only those are entitled to it whatever happens meanwhile. A worker fetches a
batch, takes up its events in any order, lists the subscriptions and then the
deliveries (two statements), calls the targets one after the other, records each
call, and closes the event by id. Time passes at any point, so a batch may
outlast its lock, and then nothing keeps a second worker from the event. `shared`
is history: the events that were fetched while another worker still had them.
What holds without any condition (`DeliveredReachedAll`, `HistoryIsTrue`) is told
apart in this way from what the lock is needed for (`AttemptsBounded`,
`ClosedStaysClosed`, `RecordedNotResent`).

### MockProvider

Memory and file are two maps; `saveLocked` leaves them equal, changes neither, or
(when syncing the directory fails) only the file. The next save writes memory
plus one record and so may drop what only the file had. `told[o]` is what a client
saw last. Handlers hold the mutex, so each is one step.

### UserSchema

A request looks into the cache of its process, inserts the row of its user into
`app_users` (waiting for an uncommitted one with the same user or names, doing
nothing for a committed one, failing when another user has the names), loads the
row and compares its names, creates the two tables, commits, and stores the user
in the cache. `registered` and `tables` are what is committed, `inserting` and
`creating` what the open transactions have done. Names are hashes cut short, so
the model lets users share one, and rows may have names an earlier program gave.
`Rollback`, `CommitLost` and `Restart` (of a process, with its cache) can come at
any step.

### RateLimiter

`now` is in ticks and a second has `Second` of them, since `Retry-After` is cut to
whole seconds. A request reads the clock (`ReadClock`) and any time later counts
itself in the window of that reading (`Allow`). `AllowFails` answers 500, with the
request counted or not. Clients obey `Retry-After`: `resume[c]` is when client `c`
may come back. `served`, `broken`, `refused` and `left` are history: what the
windows let through, what was counted and failed, and what the clients were told.

### Api

A client has a call to make and one or more slots (connections) to try it on. The
server takes each attempt through `RequireUser`, `WithRateLimit`, `Check`
(decoding and the services' checks), the storage operation, and a status code
(`WriteServiceError`, `SuccessCode`). A client that is answered with 401, 429 or
500, or not at all, tries again, even while the server still works on the attempt it
gave up. A creation is one step of storage here (`Store`): `RefundCreation` shows
that `CreateRefund` acts as one, and `Payments` that the creations with one key make
one payment and answer with it. A cancellation and a switch of a subscription do not
act as one step: `ReadTarget` reads the row without a lock, `UpdateTarget` updates it
later whatever it has become, and `ReadBack` reads it for the answer. So two attempts
at one cancellation may both take effect, as `payments_cancel` shows for two
requests; `OncePerKey` is about calls with a key only. Every operation may fail
before or after it took effect. `Shutdown`
cuts off what is in flight, as `cmd/payment/main.go` does: `ListenAndServe` returns
when `Shutdown` begins and nobody waits for the handlers.

All endpoints are calls of this module. What is wrong with a request (`FlawOf`) and
what its target refuses for good (`RefusalOf`: an id nobody has, a payment that
is not to be refunded or cancelled) are constants. What depends on the order of
events is not: a key in use and the status of a payment are state, and whether
other refunds have used up the amount, or where the workers are with a refund that
is to be checked again, is left open at every attempt (`StorageErrors`).

### AccessTokens

Times are in nanoseconds, claims in whole seconds (`Unix`), and the issuer's clock
is `skew` ahead of the API's. The state has the last token issued, the last check of
it, and whether any check found it over (`over`, history). Encoding, header and signature are reduced to the secret the token
was signed with.

### EventLog and EventState

The file is a sequence of whole events, torn beginnings of events, and newlines.
`AppendEvent`, `WriteData`, `WriteNewline` and `Sync` are the steps of Append; each
may fail, and `Crash` keeps what was synced and any beginning of the rest. `Replay`
reads lines as the scanner does: blank lines are skipped, the last line needs no
newline, and a torn line, two events on a line, a line longer than the buffer or
an event that `Apply` refuses end it with an error. No other package uses these
two, so the caller (it appends what its state accepts and applies what was
appended) is modelled from what the interface asks for.

## Runs

| run | instance | shows |
|---|---|---|
| `refunds_workers` | 1 refund, 2 workers, 1 crash, stall or recheck, 2 attempts, lease = 2 x timeout; symmetric workers | leases are held by healthy workers, stale ones are fenced off, saves are never refused by the database, no refund is sent more often than its attempts, what was paid stays reserved save for the two outcomes `refunds_overpaid` is about, and finished stays finished |
| `refunds_retries` | 1 refund, 1 worker, 1 fault, 2 attempts, 2 check failures, two backoff delays, fairness | verdicts, events and audit are right; a retry promised can run; every refund is settled |
| `refunds_overpaid` | 2 refunds of a payment with room for one; nobody resolves an operation at the provider (`UnresolvedSpec`) | violated: see findings |
| `outbox` | 1 event, 2 subscribers, 2 workers, lock of 1 tick, 2 attempts, 1 fault, 1 switch of a subscription, fairness | delivered means received by everyone entitled; the history is true; while the lock holds, attempts are bounded, closed events stay closed and nothing recorded is sent again; every event is closed |
| `refund_creation` | 6 requests, 3 keys, 3 payments (paid, unpaid, absent), 1 fault, releases at any time, fairness | `CreateRefund` implements `RefundBook`, refunds fit the payment, the unique constraint is never met, every request is answered |
| `payments` | 5 creations (3 share a key, one of them changed; one without key; the seed), 3 cancellations, 1 fault | one payment per key, transactional events, settled stays |
| `payments_cancel` | 1 payment, 2 cancellations | violated: see findings |
| `mock_provider` | 2 operations, 2 bodies, all modes, failing writes and restarts without limit | a final result that was told is kept; the provider keeps its promise |
| `rate_limiter` | 2 clients of one scope, limit 1, window of 4 ticks, second of 2 ticks, 6 ticks, 3 requests each | refusals have a cause, the remaining requests are real, an obedient client is refused twice in a window at most |
| `event_log` | 4 appends out of 9 events, one of them too long to be read back, failures and crashes without limit | replay gives the state back; what came before the first damage survives; nothing is lost in silence |
| `user_schema` | 3 users (two with one name, one with earlier names), 2 processes, 5 requests, 2 faults, fairness | tables are there and are the user's own; a refusal is final; every request is answered |
| `api` | 2 payments with one key and different bodies in 3 slots, a cancellation in 2, limit 1, 2 attempts in flight, 1 fault, fairness | a key takes effect once; answers are true, although two cancellations may take effect; every call is settled |

The bounds are small but not smaller than the cases: two attempts give a first
submission, a retry and the limit; a lease of two ticks with calls of one tick is
the tightest that `Options.Validate` accepts; two workers are what a fence or a
lock is about, and a third adds nothing between two writers of one row; one fault
can be spent at every point of every round; a window of two seconds lets a client
be refused at once, in its last second and not at all; four appends put an event
before and after a damage, and one on the line of a torn one. Two users with one
name and two processes are what the waiting INSERT and the cache are about. A
batch with several events, and more refunds, clients and scopes, are left to the
proofs. Counters are capped by `MaxFaults`, `MaxToggles`, `MaxAppends`, `MaxTime`,
`MaxRequests` and `MaxInFlight`; a run with a fault budget has a fault of any kind
at any point, but no more of them. The run `api` makes calls to two endpoints: a
reading call, a refund or a subscription takes the same actions with other
constants, and more calls at a time take more than minutes; the theorems are about
calls to all endpoints. Symmetry among workers
is used in a safety run only. No run switches off the check for deadlock:
`AllDone` lets finished requests stutter, `Unreadable` a log that has to be
repaired.

### Fairness

- `Refunds`: weak fairness of a live worker's steps and of time, since `Run`
  loops until its context ends and each call has a timeout; strong fairness of
  claiming each refund, since `ClaimRefund` orders by `next_action_at` and both
  kinds of claim are tried in every turn of the loop. Nothing is assumed of the
  provider: no fairness of `Resolve`, `LateSubmit` or any particular answer.
- `Outbox`: weak fairness of fetching by some worker, of a worker's steps, and of
  time. Nothing is assumed of subscribers.
- `RefundCreation`: strong fairness of every request, since PostgreSQL's lock
  queues are first come, first served. Crashes and rollbacks are never forced.
- `UserSchema`: weak fairness of a handler's steps, strong fairness of the INSERT
  that waits for another transaction, for the same reason.
- `Api`: weak fairness of the server's steps on an attempt, of windows that end
  (time passes) and of renewing a token; strong fairness of a client that may try
  again. The last two are what a client that wants an answer does: the property is
  about such clients.

### Findings

- `payments_cancel`: two concurrent cancellations of a pending payment both
  succeed and both emit `PaymentCancelled`. The status is read without
  `FOR UPDATE` (`store.go:239`) and the update does not repeat the check. The
  status the payment ends with is right (`SettledStays`, `EventsMatchPayments`
  hold); what is wrong is the answer to the second client and the second event.
- `refunds_overpaid`: the first submission of a refund fails and may be retried; the
  second, its last, times out on its way; a lookup reads the old failure, so the
  refund is failed for good as exhausted and its amount is free again; a second
  refund of the payment is created and paid, and so is the first when the delayed
  submission arrives. A 400 or 422 answer to a retry, after a submission that timed
  out, has the same effect. `PaidIsReserved` and `OverpaidOnlyAfterGivingUp` say that
  these two are the only ways to it.

## Proofs

Each proof module has an inductive invariant for each component it is about, a lemma
per action that the action preserves it, the theorem that it always holds, and
theorems that follow from it. The constants are arbitrary: any sets, limits and
delays the assumptions admit. None of the properties is inductive alone; what each
needs in addition is this.

**`RefundsProofs`** (`TypeCorrect`, `RetriesCanRun`, `DecisionsAreFresh`,
`SavesAreAccepted`, `VerdictsAreReal`, `DoneStaysDone`, `LeasesHeld`,
`EventsMatchRows`, `AuditsExplain`, `PaidStaysReserved`, `PaidWithinTheRest`,
`PostsAreAttempts`). `IInv` is `TypeOK` and

- `RowsOK`: what the columns of a row may combine (manual review only while
  PROCESSING, a retryable row has an attempt left, a token that is set is the
  row's version, ...), which is what makes the saves acceptable;
- `ClaimsOK`: a worker's snapshot that still matches token and version equals the
  row in all that `decide` reads. This is the fencing argument: every update raises
  the version, so equal versions mean an untouched row;
- `AnswersOK`: an answer that says SUCCEEDED, or FAILED for good, agrees with the
  provider's record, now and from then on, because final records never change;
- `VerdictsOK`: the same for rows.

On top of it:

- `LeasesHeld` adds `UniqueClaims` (two workers on one refund hold different
  versions of its row) and `LeasesKept` (the lease left is at least what the rest of
  the call may take: twice the timeout at the claim, spent by at most one timeout);
- `EventsMatchRows`, `AuditsExplain` and `PaidStaysReserved` rest on `RowStep`, which
  says what one step can do to one refund: nothing, an insert, a claim, a recheck, or a
  save of an outcome that was decided from this very row. `EventsMatchRows` then
  goes through the pairs of old and new row that the trigger tells apart;
- `PaidStaysReserved` adds `MoneyOK`: the provider knows nothing of a refund that was
  not created, and a refund that failed for good was declined, rejected or
  exhausted. `VerdictsOK` takes care of the declined ones;
- `PaidWithinTheRest` adds `ReservedWithin`: the reservations on a payment fit into it.
  `CreateRefund` checks it; a save never reserves what was free (`FreedForGood`), so
  the sum only falls otherwise. What was paid for refunds that were not given up is
  among what is reserved, by `PaidStaysReserved`;
- `PostsAreAttempts` counts in `posts`, a history variable that every submission sent
  raises and nothing lowers. The invariant `PInv` is that the submissions sent, plus
  the workers that hold a claimed submission they have not sent, are no more than the
  attempts: a claim raises the attempts and makes one such worker, sending turns it
  into a submission. Counting workers is why their set is assumed to be finite.

`DelaysBounded` is about the operators alone: `BaseDelay` stays between `InitialBackoff`
and `MaxBackoff` for every attempt, by induction as for the event log below, so that the
jitter always has a delay to draw and `decide` an outcome for every row and answer
(`DecideIsTotal`): no save is missing from the model because a set of outcomes is empty.

**`RefundCreationProofs`** (`TypeCorrect`, `NeverOverbooked`, `ConstraintNeverMet`,
`Refinement`). `KeyHeld` and `PaymentHeld`: from the statement that takes a lock to
the end of the transaction it is the request's; `Checked`: what the request has
read under the locks (the key is free, the amount fits) is therefore still true when
it inserts and commits. With that every commit is a step of the book.

**`StoreProofs`**, payments (`PaymentsTypeCorrect`, `KeysAreUsedOnce`,
`EventsAreTransactional`, `PaymentsStaySettled`). `KeysHeld`: who inserted its key and
has not committed has the key alone; `RowsNamed` and `PaymentsKeyed`: the committed
row of a key names the payment made for it, and no other was; `AnswersOK`: whoever was
told about a payment was told about the one its key names, made for the same request;
`CancelsOK`: who is about to cancel saw the payment pending, so that it is pending or
cancelled by another request, but never succeeded.

**`StoreProofs`**, subscriptions (`SubTypeCorrect`, `AnswersExplained`,
`SubscriptionsAreSerial`). `LocksOK`: who is about to commit holds the row alone;
`RowsOK`: a row exists from the commit of its creator on; `LogOK`: the value of a row
is what the last request in `log` on it asked for.

**`OutboxProofs`** (`TypeCorrect`, `NothingLost`, `HistoryTrue`, `AttemptsLimited`,
`ClosedForGood`, `NoSecondCall`). `DeliveryOK`: the subscriptions entitled to the
event a worker is at are those it is going to call or have a successful row, as long
as none failed; `EventOK`: what a row says about deliveries and attempts; `BatchOK` and
`Exclusive`: an event that is not `shared` is with one worker only, is still pending,
and has the attempts the worker knows.

**`UserSchemaProofs`** (`TypeCorrect`, `TablesExist`, `DDLInOrder`,
`RefusalsAreFinal`). `UserOK` and `UniqueNames`: a row is inserted by one
transaction, and no other has its user or names; `RequestOK`: only that transaction
creates tables, and it has created what it has passed; `CacheOK`: the cache knows
committed users only.

**`RateLimiterProofs`** (`TypeCorrect`, `LimitHolds`, `RefusalsAreEarned`,
`RemainingHolds`, `WaitingHelps`). `WindowOK`: what is served was counted, and what was
counted up to the limit was served or failed; `ClientOK`: a client that was refused
comes back in the last second of that window or later, and after two refusals when it
is over. This rests on arithmetic of whole seconds, for every length of a window
and of a second.

**`ApiProofs`**, calls (`ApiTypeCorrect`, `KeysTakeEffectOnce`, `CodesAreTrue`).
`EffectsOK`: a call with a key took effect if and only if the row of the key is its own;
`AttemptOK`: an attempt changes nothing before the storage operation, only a
cancellation or a switch has a second step, who reads a payment back after a
cancellation finds it no longer pending, and the code it was given is true. What makes this inductive is `Stable`: no step of any attempt takes the
row of a key away or makes a payment pending again, so that what an attempt was told
stays true whatever the other attempts do (`OthersKept`), also between the read and the
update of a cancellation (`TargetKeeps`).

**`ApiProofs`**, tokens (`TokenTypeCorrect`, `AcceptedInTime`, `RefusalsHaveCause`,
`RefusedForGood`). `ClaimsAreTrue` and `VerdictIsTrue` tie the claims to the instants they
were cut from, `OverIsTrue` says that a token that was found over has expired; the
rest is arithmetic of whole seconds on two clocks. An issuer whose clock is ahead by
`skew` hands out tokens that are accepted for up to `skew` longer than their lifetime:
that is what `LateBySkewAtMost` says, and that rounding adds nothing to it.

**`FileProofs`**, event log (`LogTypeCorrect`, `ReplayGivesState`, `EarlierSurvive`,
`NothingLostSilently`). What the scanner makes of a file is the recursive function
`Scanned`. That the function exists, and that two files with a common beginning are
scanned alike up to there, is induction over the length of the file; it is done by
taking the least length for which the claim fails (`Least`), which the theorem
`WFMin` of the library gives without an operator parameter. After that only single steps matter:
`EndLineGrows` and `ReadPieceGrows` say that the scanner adds to what it applied, forgets nothing
and never recovers from an error. The invariant `LogInv` speaks of every length at
which a stop may cut the file, and not of the whole file only:

- `AckedOK`: the scan of every such part has applied every acknowledged event or failed;
- `EarlierOK`: it begins with the events acknowledged before the first damage;
- `WritingOK`: the line being written ends with the event of the append, so that its
  newline makes the scanner apply the event or fail, also when the line began with a
  torn one;
- `CleanOK`: without damage the synced part replays to the state of the caller, and
  the rest of the file is the line of the append under way.

`Extended` and `CutOff` are the two lemmas that all writes and crashes come down to: the
file is cut at some length, and at most one piece follows.

**`FileProofs`**, mock provider (`MockTypeCorrect`, `FileStaysAhead`, `ToldStays`,
`NothingTakenBack`, `BodiesFixed`, `PromiseKept`). `AtMostOneAhead`: the file equals
memory, or is ahead of it by one record, which the promise allows to follow the one
in memory. So a restart, which takes memory from the file, is a step of the promise,
and this gives the refinement.

The two specifications `FileProofs` is about share no name, so that one module can
extend both; this is why the definitions that make up the event log's are called `LogInit`,
`LogNext`, `LogSpec` and `LogTypeOK`.

Assumptions: `OptionsValidate` (the options of the refund worker),
`RetryAfterAssumption` (a natural number), `RefundsAssumption` (there is a refund;
amounts are positive; there are finitely many workers), `OptionsAssumption` (what
`normalizeOptions` leaves), `CreationAssumption`, `PaymentsAssumption`,
`LimiterAssumption`, `UserSchemaAssumption` and `EventAssumption` (types of the
constants; positive amounts, limits and intervals), and `ApiAssumption` (types; and
that the body of a PATCH of a subscription is a switch, on or off, and no payment
status). TLC evaluates each of them in the runs. `Subscriptions` and `AccessTokens` assume
nothing. They are proved about and not run: what they say is proved whole, and the
tokens' times are unbounded. Also proved and not run are `OverpaidOnlyAfterGivingUp`,
which says when the property of `refunds_overpaid` does hold, and `FileIsAhead`,
`NeverTakesBack`, `BodyIsFixed`, `LimitKept` and `NoConcurrentDDL`, which are steps on
the way to properties that are run.

Only model-checked: liveness (`EventuallySettled`, `EventuallyClosed`,
`EveryRequestAnswered`, `EveryCallSettles`), which needs fairness and ENABLED and is
beyond the prover. `PaidWithinPayment` and `CancelledOnce` do not hold: see findings.

## Not modelled

- reading lists: it changes no state, and nothing is promised about pages read one
  after the other. The offset of a page is a product of two numbers of which only one is
  bounded (`store.go:205`), so a very large page number wraps around; this is seen from the
  line and needs no model;
- how inputs are parsed and normalised (amounts, currencies, URLs, the two forms of a
  Retry-After header), logging, CORS, request ids, health endpoints, configuration,
  scripts, containers;
- a mock provider that runs without a file, which forgets everything at a restart,
  and loss of power after a rename that was not synced; a rate limiter that is
  switched off;
- the statement-level interleaving of `ClaimRefund`, `ApplyRefundOutcome` and
  `RequestRefundRecheck`: each locks its one row (`FOR UPDATE`) before it looks at
  it, so each is one step;
- the order in which due rows are picked, by both workers: any due row may be.

## Plan

The model covers every part that keeps state, and every safety property that a run
checks is proved. What is left to prove, in this order:

- `AnswersAreTrue` for the answers of a refund, from `RefundBook` instead of the single
  step `Api` makes of a storage operation;
- that `EventLog` without damage implements a log that is only ever appended to, as
  `ReplayGivesState` says of its states.
