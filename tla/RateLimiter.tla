------------------------------ MODULE RateLimiter ------------------------------
(***************************************************************************)
(* The rate limit of mutating requests (internal/ratelimit/limiter.go,     *)
(* withRateLimit in internal/httpapi/router.go): fixed windows counted by  *)
(* one upsert in the database, which all API processes share.  The clock   *)
(* is read before the upsert, which runs any time later.  Clients come any *)
(* time, but one that was refused waits for as long as Retry-After told    *)
(* it.  Time is in ticks, Second ticks to the second, since the header is  *)
(* in whole seconds.                                                       *)
(***************************************************************************)
EXTENDS Integers

CONSTANTS Clients,
          Scopes,       \* route and user: what the window is keyed by
          ScopeOf,      \* ScopeOf[c]: the scope client c sends its requests in
          Limit, Interval, Second,
          MaxTime,      \* bound on the clock
          MaxRequests   \* bound on the requests of one client

ASSUME LimiterAssumption ==
  /\ ScopeOf \in [Clients -> Scopes]
  /\ Limit \in Nat \ {0} /\ Interval \in Nat \ {0} /\ Second \in Nat \ {0}
  /\ MaxTime \in Nat /\ MaxRequests \in Nat

Times == 0..MaxTime

VARIABLES
  now,
  hits,      \* hits[s][w]: the hits column of scope s and window start w
  pc,        \* pc[c]: "upsert" while a request of client c has only read the clock
  at,        \* at[c]: that reading
  sent,      \* sent[c]: how many requests client c sent
  resume,    \* resume[c]: when client c may come back
  refused,   \* refused[c]: the window it was last refused in, and how often there
  served,    \* served[s][w]: requests of the window that reached their handler
  broken,    \* broken[s][w]: requests that were counted, but answered 500
  left       \* left[s][w]: the X-RateLimit-Remaining announced last

vars == <<now, hits, pc, at, sent, resume, refused, served, broken, left>>

Init ==
  /\ now = 0
  /\ hits = [s \in Scopes |-> [w \in Times |-> 0]]
  /\ pc = [c \in Clients |-> "idle"]
  /\ at = [c \in Clients |-> 0] /\ sent = at /\ resume = at
  /\ refused = [c \in Clients |-> [window |-> 0, count |-> 0]]
  /\ served = hits /\ broken = hits
  /\ left = [s \in Scopes |-> [w \in Times |-> Limit]]

Plus(f, s, w) == [f EXCEPT ![s] = [f[s] EXCEPT ![w] = f[s][w] + 1]]

\* now.Truncate(interval)
WindowStart(t) == t - (t % Interval)

\* Mutant: the seconds are rounded, but may be none.
RetrySecondsMutant(t) == (WindowStart(t) + Interval - t) \div Second

\* The time to the end of the window, cut to whole seconds, but at least one.
RetrySeconds(t) ==
  LET whole == (WindowStart(t) + Interval - t) \div Second
  IN  IF whole < 1 THEN 1 ELSE whole

Allowed(count) == count <= Limit

\* Mutant: the count before the request is used.
RemainingMutant(count) == IF Limit < count - 1 THEN 0 ELSE Limit - (count - 1)

Remaining(count) == IF Limit < count THEN 0 ELSE Limit - count

\* withRateLimit reads the clock.
ReadClock(c) ==
  /\ pc[c] = "idle" /\ now >= resume[c] /\ sent[c] < MaxRequests
  /\ pc' = [pc EXCEPT ![c] = "upsert"]
  /\ at' = [at EXCEPT ![c] = now]
  /\ sent' = [sent EXCEPT ![c] = @ + 1]
  /\ UNCHANGED <<now, hits, resume, refused, served, broken, left>>

\* The handler runs.
Serve(s, w) == served' = Plus(served, s, w) /\ UNCHANGED <<resume, refused>>

\* 429: the client waits for the seconds of Retry-After, from now at the earliest.
Refuse(c, w) ==
  /\ resume' = [resume EXCEPT ![c] = now + RetrySeconds(at[c]) * Second]
  /\ refused' = [refused EXCEPT ![c] =
       [window |-> w,
        count |-> IF refused[c].window = w THEN refused[c].count + 1 ELSE 1]]
  /\ UNCHANGED served

\* Mutant: the window is that of the upsert, not that of the clock reading.
AllowMutant(c) ==
  LET s == ScopeOf[c]
      w == WindowStart(now)
      count == hits[s][WindowStart(at[c])] + 1
  IN  /\ pc[c] = "upsert"
      /\ hits' = Plus(hits, s, w)
      /\ left' = [left EXCEPT ![s] = [@ EXCEPT ![w] = Remaining(count)]]
      /\ pc' = [pc EXCEPT ![c] = "idle"]
      /\ IF Allowed(count) THEN Serve(s, w) ELSE Refuse(c, w)
      /\ UNCHANGED <<now, at, sent, broken>>

\* Allow: the upsert counts the request and returns the count, in one statement.
Allow(c) ==
  LET s == ScopeOf[c]
      w == WindowStart(at[c])
      count == hits[s][w] + 1
  IN  /\ pc[c] = "upsert"
      /\ hits' = Plus(hits, s, w)
      /\ left' = [left EXCEPT ![s] = [@ EXCEPT ![w] = Remaining(count)]]
      /\ pc' = [pc EXCEPT ![c] = "idle"]
      /\ IF Allowed(count) THEN Serve(s, w) ELSE Refuse(c, w)
      /\ UNCHANGED <<now, at, sent, broken>>

\* The statement fails, or its answer is lost: 500, counted or not.
AllowFails(c) ==
  LET s == ScopeOf[c]
      w == WindowStart(at[c])
  IN  /\ pc[c] = "upsert"
      /\ pc' = [pc EXCEPT ![c] = "idle"]
      /\ \/ hits' = Plus(hits, s, w) /\ broken' = Plus(broken, s, w)
         \/ UNCHANGED <<hits, broken>>
      /\ UNCHANGED <<now, at, sent, resume, refused, served, left>>

Tick ==
  /\ now < MaxTime
  /\ now' = now + 1
  /\ UNCHANGED <<hits, pc, at, sent, resume, refused, served, broken, left>>

\* The bounds are used up.
AllDone ==
  /\ now = MaxTime /\ \A c \in Clients : pc[c] = "idle"
  /\ UNCHANGED vars

Next ==
  \/ \E c \in Clients : ReadClock(c) \/ Allow(c) \/ AllowFails(c)
  \/ Tick \/ AllDone

Spec == Init /\ [][Next]_vars

--------------------------------------------------------------------------------
\* Properties

\* Every variable keeps its type.
TypeOK ==
  /\ now \in Times
  /\ hits \in [Scopes -> [Times -> Nat]]
  /\ pc \in [Clients -> {"idle", "upsert"}]
  /\ at \in [Clients -> Times]
  /\ sent \in [Clients -> Nat]
  /\ resume \in [Clients -> Nat]
  /\ refused \in [Clients -> [window : Times, count : Nat]]
  /\ served \in [Scopes -> [Times -> Nat]]
  /\ broken \in [Scopes -> [Times -> Nat]]
  /\ left \in [Scopes -> [Times -> 0..Limit]]

\* No window of a scope lets more requests through than the limit, however the
\* requests of several processes interleave and whichever of them fail.
LimitKept == \A s \in Scopes, w \in Times : served[s][w] <= Limit

\* A client is refused for cause only: the requests its own scope sent in the
\* window, those that got an error included, had used up the limit.
RefusedForCause ==
  \A c \in Clients :
    refused[c].count > 0 =>
      LET s == ScopeOf[c]
          w == refused[c].window
      IN  served[s][w] + broken[s][w] >= Limit

\* The number of requests a client is told are left was never more than what
\* the window would still let through.
RemainingIsReal ==
  \A s \in Scopes, w \in Times : served[s][w] + left[s][w] <= Limit

\* Retry-After is cut to whole seconds, so a client that obeys it may come back
\* while the window still lasts: but only once, for the second refusal comes in
\* the last second of the window and is followed by at least a second of waiting.
ObedientRefusedTwice ==
  \A c \in Clients : refused[c].count <= 2

================================================================================
