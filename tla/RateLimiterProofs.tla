--------------------------- MODULE RateLimiterProofs ---------------------------
(***************************************************************************)
(* The limiter keeps its limit for every limit, window, number of clients  *)
(* and scopes, and a client that obeys Retry-After is refused at most      *)
(* twice in a window.                                                      *)
(***************************************************************************)
EXTENDS RateLimiter, TLAPS

\* What holds between the columns of a window: everything served was counted, and
\* everything counted up to the limit was served, or answered with an error.
WindowOK(s, w) ==
  /\ served[s][w] <= hits[s][w] /\ served[s][w] <= Limit
  /\ served[s][w] + left[s][w] <= Limit
  /\ hits[s][w] <= Limit => served[s][w] + broken[s][w] >= hits[s][w]
  /\ hits[s][w] >= Limit => served[s][w] + broken[s][w] >= Limit

\* A refused client comes back in the last second of the window that refused it
\* or later; after two refusals, only when the window is over.
ClientOK(c) ==
  /\ pc[c] = "upsert" => at[c] >= resume[c] /\ at[c] <= now
  /\ refused[c].count <= 2
  /\ refused[c].count > 0 => resume[c] > refused[c].window + Interval - Second
  /\ refused[c].count = 2 => resume[c] >= refused[c].window + Interval

IInv ==
  /\ TypeOK
  /\ \A s \in Scopes, w \in Times : WindowOK(s, w)
  /\ \A c \in Clients : ClientOK(c)
  /\ RefusedForCause

--------------------------------------------------------------------------------
\* Arithmetic of windows and seconds

\* Truncating finds the window the instant lies in.
LEMMA WindowBounds ==
  ASSUME NEW t \in Times
  PROVE  /\ WindowStart(t) \in Times
         /\ WindowStart(t) <= t /\ t < WindowStart(t) + Interval
<1>1. t \in Nat /\ Interval \in Nat /\ Interval > 0
  BY LimiterAssumption DEF Times
<1>2. t % Interval \in 0..(Interval - 1)
  BY <1>1
<1>3. t % Interval <= t
  BY <1>1
<1> QED
  BY <1>1, <1>2, <1>3, LimiterAssumption DEF WindowStart, Times

LEMMA CutToSeconds ==
  ASSUME NEW d \in Nat, NEW n \in Nat, n > 0
  PROVE  /\ d \div n \in Nat
         /\ (d \div n) * n > d - n
         /\ d < n => d \div n = 0
  OBVIOUS

\* The announced seconds are at least one, and end less than a second before the
\* window does.
LEMMA RetryReaches ==
  ASSUME NEW t \in Times
  PROVE  /\ RetrySeconds(t) * Second \in Nat
         /\ t + RetrySeconds(t) * Second > WindowStart(t) + Interval - Second
         /\ t > WindowStart(t) + Interval - Second =>
              t + RetrySeconds(t) * Second >= WindowStart(t) + Interval
<1> DEFINE d == WindowStart(t) + Interval - t
           whole == d \div Second
<1>1. t \in Nat /\ WindowStart(t) \in Nat /\ Interval \in Nat /\ Second \in Nat /\ Second > 0
  BY WindowBounds, LimiterAssumption DEF Times
<1>2. d \in Nat /\ d > 0
  BY <1>1, WindowBounds
<1>3. whole \in Nat /\ whole * Second > d - Second /\ (d < Second => whole = 0)
  BY <1>1, <1>2, CutToSeconds
<1>4. RetrySeconds(t) = IF whole < 1 THEN 1 ELSE whole
  BY DEF RetrySeconds
<1> HIDE DEF whole
<1>5. CASE whole < 1
  <2>1. RetrySeconds(t) * Second = Second
    BY <1>1, <1>4, <1>5
  <2>2. whole = 0
    BY <1>3, <1>5
  <2>3. d < Second
    BY <1>1, <1>2, <1>3, <2>2
  <2> QED
    BY <1>1, <1>2, <2>1, <2>3
<1>6. CASE whole >= 1
  <2>1. RetrySeconds(t) * Second = whole * Second
    BY <1>3, <1>4, <1>6
  <2>2. whole * Second \in Nat
    BY <1>1, <1>3
  <2>3. d >= Second
    BY <1>1, <1>2, <1>3, <1>6
  <2> HIDE DEF d
  <2>4. t + whole * Second > t + d - Second
    BY <1>1, <1>2, <1>3, <2>2
  <2> QED
    BY <1>1, <2>1, <2>2, <2>3, <2>4 DEF d
<1> QED
  BY <1>3, <1>5, <1>6

\* What one more on a counter does.
LEMMA PlusCounts ==
  ASSUME NEW f \in [Scopes -> [Times -> Nat]], NEW s \in Scopes, NEW w \in Times
  PROVE  /\ Plus(f, s, w) \in [Scopes -> [Times -> Nat]]
         /\ Plus(f, s, w)[s][w] = f[s][w] + 1
         /\ \A p \in Scopes, v \in Times :
              p # s \/ v # w => Plus(f, s, w)[p][v] = f[p][v]
  BY DEF Plus

--------------------------------------------------------------------------------
\* One lemma per action

LEMMA ReadClockPreserves ==
  ASSUME IInv, NEW c \in Clients, ReadClock(c)
  PROVE  IInv'
<1> USE DEF IInv, ReadClock
<1>1. TypeOK'
  BY DEF TypeOK
<1>2. \A s \in Scopes, w \in Times : WindowOK(s, w)'
  BY DEF WindowOK
<1>3. \A e \in Clients : ClientOK(e)'
  BY LimiterAssumption DEF ClientOK, TypeOK, Times
<1>4. RefusedForCause'
  BY DEF RefusedForCause, TypeOK
<1> QED
  BY <1>1, <1>2, <1>3, <1>4

LEMMA AllowPreserves ==
  ASSUME IInv, NEW c \in Clients, Allow(c)
  PROVE  IInv'
<1> USE DEF IInv
<1> DEFINE s == ScopeOf[c]
           w == WindowStart(at[c])
           count == hits[s][w] + 1
<1>1. s \in Scopes /\ at[c] \in Times /\ now \in Times
  BY LimiterAssumption DEF TypeOK
<1>2. w \in Times /\ w <= at[c] /\ at[c] < w + Interval
  BY <1>1, WindowBounds
<1>3. hits[s][w] \in Nat /\ Limit \in Nat /\ served[s][w] \in Nat /\ broken[s][w] \in Nat
  BY <1>1, <1>2, LimiterAssumption DEF TypeOK
<1>4. /\ pc[c] = "upsert" /\ pc' = [pc EXCEPT ![c] = "idle"]
      /\ hits' = Plus(hits, s, w)
      /\ left' = [left EXCEPT ![s] = [left[s] EXCEPT ![w] = Remaining(count)]]
      /\ IF Allowed(count) THEN Serve(s, w) ELSE Refuse(c, w)
      /\ UNCHANGED <<now, at, sent, broken>>
  BY DEF Allow
<1> HIDE DEF w, s
<1>5. (Remaining(count) \in 0..Limit /\ Remaining(count) + count <= Limit) \/ Remaining(count) = 0
  BY <1>3 DEF Remaining
<1>6. Remaining(count) \in 0..Limit
  BY <1>3 DEF Remaining
<1>7. /\ left' \in [Scopes -> [Times -> 0..Limit]]
      /\ left'[s][w] = Remaining(count)
      /\ \A p \in Scopes, v \in Times : p # s \/ v # w => left'[p][v] = left[p][v]
  BY <1>1, <1>2, <1>4, <1>6 DEF TypeOK
<1>8. /\ hits' \in [Scopes -> [Times -> Nat]]
      /\ hits'[s][w] = hits[s][w] + 1
      /\ \A p \in Scopes, v \in Times : p # s \/ v # w => hits'[p][v] = hits[p][v]
  <2>1. hits \in [Scopes -> [Times -> Nat]]
    BY DEF TypeOK
  <2> QED
    BY <1>1, <1>2, <1>4, <2>1, PlusCounts
<1>9. CASE Allowed(count)
  <2>1. /\ served' = Plus(served, s, w) /\ UNCHANGED <<resume, refused>>
    BY <1>4, <1>9 DEF Serve
  <2>2. /\ served' \in [Scopes -> [Times -> Nat]]
        /\ served'[s][w] = served[s][w] + 1
        /\ \A p \in Scopes, v \in Times : p # s \/ v # w => served'[p][v] = served[p][v]
    <3>1. served \in [Scopes -> [Times -> Nat]]
      BY DEF TypeOK
    <3> QED
      BY <1>1, <1>2, <2>1, <3>1, PlusCounts
  <2>3. TypeOK'
    BY <1>4, <1>7, <1>8, <2>1, <2>2 DEF TypeOK
  <2>4. ASSUME NEW p \in Scopes, NEW v \in Times PROVE WindowOK(p, v)'
    <3>1. CASE p = s /\ v = w
      <4>1. WindowOK(s, w)
        BY <1>1, <1>2
      <4> QED
        BY <1>3, <1>4, <1>5, <1>7, <1>8, <1>9, <2>2, <3>1, <4>1 DEF WindowOK, Allowed
    <3>2. CASE p # s \/ v # w
      BY <1>4, <1>7, <1>8, <2>2, <3>2 DEF WindowOK
    <3> QED
      BY <3>1, <3>2
  <2>5. ASSUME NEW e \in Clients PROVE ClientOK(e)'
    BY <1>4, <2>1 DEF ClientOK, TypeOK
  <2>6. ASSUME NEW p \in Scopes, NEW v \in Times PROVE served'[p][v] >= served[p][v]
    <3>1. served[p][v] \in Nat
      BY DEF TypeOK
    <3>2. CASE p = s /\ v = w
      BY <2>2, <3>1, <3>2
    <3>3. CASE p # s \/ v # w
      BY <2>2, <3>1, <3>3
    <3> QED
      BY <3>2, <3>3
  <2>7. RefusedForCause'
    <3> SUFFICES ASSUME NEW e \in Clients, refused[e].count > 0
                 PROVE  served'[ScopeOf[e]][refused[e].window] + broken[ScopeOf[e]][refused[e].window] >= Limit
      BY <1>4, <2>1 DEF RefusedForCause
    <3>1. ScopeOf[e] \in Scopes /\ refused[e].window \in Times
      BY LimiterAssumption DEF TypeOK
    <3>2. /\ served[ScopeOf[e]][refused[e].window] \in Nat
          /\ served'[ScopeOf[e]][refused[e].window] \in Nat
          /\ broken[ScopeOf[e]][refused[e].window] \in Nat
      BY <3>1, <2>2 DEF TypeOK
    <3>3. served[ScopeOf[e]][refused[e].window] + broken[ScopeOf[e]][refused[e].window] >= Limit
      BY DEF RefusedForCause
    <3> QED
      BY <1>3, <2>6, <3>1, <3>2, <3>3
  <2> QED
    BY <2>3, <2>4, <2>5, <2>7
<1>10. CASE ~Allowed(count)
  <2>1. /\ served' = served
        /\ resume' = [resume EXCEPT ![c] = now + RetrySeconds(at[c]) * Second]
        /\ refused' = [refused EXCEPT ![c] =
             [window |-> w,
              count |-> IF refused[c].window = w THEN refused[c].count + 1 ELSE 1]]
    BY <1>4, <1>10 DEF Refuse
  <2>2. RetrySeconds(at[c]) * Second \in Nat
    BY <1>1, RetryReaches
  <2>3. refused[c].window \in Times /\ refused[c].count \in Nat
    BY DEF TypeOK
  <2>4. now + RetrySeconds(at[c]) * Second \in Nat
    BY <1>1, <2>2 DEF Times
  <2>5. refused' \in [Clients -> [window : Times, count : Nat]]
    BY <1>2, <2>1, <2>3 DEF TypeOK
  <2>6. TypeOK'
    BY <1>4, <1>7, <1>8, <2>1, <2>4, <2>5 DEF TypeOK
  <2>7. ASSUME NEW p \in Scopes, NEW v \in Times PROVE WindowOK(p, v)'
    <3>1. CASE p = s /\ v = w
      <4>1. WindowOK(s, w)
        BY <1>1, <1>2
      <4>2. Remaining(count) = 0
        BY <1>3, <1>10 DEF Remaining, Allowed
      <4> QED
        BY <1>3, <1>4, <1>7, <1>8, <1>10, <2>1, <3>1, <4>1, <4>2 DEF WindowOK, Allowed
    <3>2. CASE p # s \/ v # w
      BY <1>4, <1>7, <1>8, <2>1, <3>2 DEF WindowOK
    <3> QED
      BY <3>1, <3>2
  <2>8. ASSUME NEW e \in Clients PROVE ClientOK(e)'
    <3>1. CASE e # c
      BY <1>4, <2>1, <3>1 DEF ClientOK, TypeOK
    <3>2. CASE e = c
      <4> DEFINE R == RetrySeconds(at[c]) * Second
      <4>1. /\ at[c] + R > w + Interval - Second
            /\ at[c] > w + Interval - Second => at[c] + R >= w + Interval
        BY <1>1, RetryReaches DEF w
      <4>2. resume'[c] = now + R /\ pc'[c] = "idle"
        BY <1>4, <2>1 DEF TypeOK
      <4>3. at[c] <= now /\ at[c] >= resume[c] /\ resume[c] \in Nat
        BY <1>4 DEF ClientOK, TypeOK
      <4>4. /\ refused'[c].window = w
            /\ refused'[c].count = IF refused[c].window = w THEN refused[c].count + 1 ELSE 1
        BY <2>1 DEF TypeOK
      <4>5. R \in Nat
        BY <2>2
      <4> HIDE DEF R
      <4>6. at[c] \in Nat /\ now \in Nat /\ w \in Nat /\ Interval \in Nat /\ Second \in Nat
        BY <1>1, <1>2, LimiterAssumption DEF Times
      <4>7. ClientOK(c)
        OBVIOUS
      <4>8. refused[c].window = w /\ refused[c].count > 0 =>
              refused[c].count = 1 /\ at[c] > w + Interval - Second
        BY <1>2, <2>3, <4>3, <4>6, <4>7 DEF ClientOK
      <4>9. refused'[c].count <= 2 /\ (refused'[c].count = 2 => at[c] > w + Interval - Second)
        BY <2>3, <4>4, <4>8
      <4>10. resume'[c] > w + Interval - Second
        BY <4>1, <4>2, <4>3, <4>5, <4>6
      <4>11. refused'[c].count = 2 => resume'[c] >= w + Interval
        BY <4>1, <4>2, <4>3, <4>5, <4>6, <4>9
      <4> QED
        BY <3>2, <4>2, <4>4, <4>9, <4>10, <4>11 DEF ClientOK
    <3> QED
      BY <3>1, <3>2
  <2>9. RefusedForCause'
    <3> SUFFICES ASSUME NEW e \in Clients, refused'[e].count > 0
                 PROVE  served[ScopeOf[e]][refused'[e].window] + broken[ScopeOf[e]][refused'[e].window] >= Limit
      BY <1>4, <2>1 DEF RefusedForCause
    <3>1. CASE e = c
      <4>1. WindowOK(s, w)
        BY <1>1, <1>2
      <4>2. served[s][w] + broken[s][w] >= Limit
        BY <1>3, <1>10, <4>1 DEF WindowOK, Allowed
      <4>3. refused'[e].window = w
        BY <2>1, <3>1 DEF TypeOK
      <4> QED
        BY <3>1, <4>2, <4>3 DEF s
    <3>2. CASE e # c
      BY <2>1, <3>2 DEF RefusedForCause, TypeOK
    <3> QED
      BY <3>1, <3>2
  <2> QED
    BY <2>6, <2>7, <2>8, <2>9
<1> QED
  BY <1>9, <1>10

LEMMA AllowFailsPreserves ==
  ASSUME IInv, NEW c \in Clients, AllowFails(c)
  PROVE  IInv'
<1> USE DEF IInv
<1> DEFINE s == ScopeOf[c]
           w == WindowStart(at[c])
<1>1. s \in Scopes /\ w \in Times
  BY LimiterAssumption, WindowBounds DEF TypeOK
<1>2. /\ pc' = [pc EXCEPT ![c] = "idle"]
      /\ \/ hits' = Plus(hits, s, w) /\ broken' = Plus(broken, s, w)
         \/ UNCHANGED <<hits, broken>>
      /\ UNCHANGED <<now, at, sent, resume, refused, served, left>>
  BY DEF AllowFails
<1> HIDE DEF s, w
<1>3. \A e \in Clients : ClientOK(e)'
  BY <1>2 DEF ClientOK, TypeOK
<1>4. CASE hits' = Plus(hits, s, w) /\ broken' = Plus(broken, s, w)
  <2>1. hits \in [Scopes -> [Times -> Nat]] /\ broken \in [Scopes -> [Times -> Nat]]
    BY DEF TypeOK
  <2>2. /\ hits' \in [Scopes -> [Times -> Nat]] /\ hits'[s][w] = hits[s][w] + 1
        /\ \A p \in Scopes, v \in Times : p # s \/ v # w => hits'[p][v] = hits[p][v]
    <3>1. hits' = Plus(hits, s, w)
      BY <1>4
    <3>2. hits \in [Scopes -> [Times -> Nat]]
      BY <2>1
    <3> QED
      BY <1>1, <3>1, <3>2, PlusCounts
  <2>3. /\ broken' \in [Scopes -> [Times -> Nat]] /\ broken'[s][w] = broken[s][w] + 1
        /\ \A p \in Scopes, v \in Times : p # s \/ v # w => broken'[p][v] = broken[p][v]
    BY <1>1, <1>4, <2>1, PlusCounts
  <2>4. TypeOK'
    BY <1>2, <2>2, <2>3 DEF TypeOK
  <2>5. ASSUME NEW p \in Scopes, NEW v \in Times
        PROVE  WindowOK(p, v)' /\ broken'[p][v] >= broken[p][v]
    <3>1. /\ hits[p][v] \in Nat /\ broken[p][v] \in Nat /\ served[p][v] \in Nat
          /\ WindowOK(p, v) /\ left[p][v] \in 0..Limit /\ Limit \in Nat
      BY LimiterAssumption DEF TypeOK
    <3>2. CASE p = s /\ v = w
      BY <1>2, <2>2, <2>3, <3>1, <3>2 DEF WindowOK
    <3>3. CASE p # s \/ v # w
      BY <1>2, <2>2, <2>3, <3>1, <3>3 DEF WindowOK
    <3> QED
      BY <3>2, <3>3
  <2>6. RefusedForCause'
    <3> SUFFICES ASSUME NEW e \in Clients, refused[e].count > 0
                 PROVE  served[ScopeOf[e]][refused[e].window] + broken'[ScopeOf[e]][refused[e].window] >= Limit
      BY <1>2 DEF RefusedForCause
    <3>1. ScopeOf[e] \in Scopes /\ refused[e].window \in Times
      BY LimiterAssumption DEF TypeOK
    <3>2. /\ served[ScopeOf[e]][refused[e].window] \in Nat
          /\ broken'[ScopeOf[e]][refused[e].window] \in Nat
          /\ broken[ScopeOf[e]][refused[e].window] \in Nat /\ Limit \in Nat
      BY <3>1, <2>3, LimiterAssumption DEF TypeOK
    <3>3. served[ScopeOf[e]][refused[e].window] + broken[ScopeOf[e]][refused[e].window] >= Limit
      BY DEF RefusedForCause
    <3>4. broken'[ScopeOf[e]][refused[e].window] >= broken[ScopeOf[e]][refused[e].window]
      BY <2>5, <3>1
    <3> QED
      BY <3>2, <3>3, <3>4
  <2> QED
    BY <1>3, <2>4, <2>5, <2>6
<1>5. CASE UNCHANGED <<hits, broken>>
  BY <1>2, <1>3, <1>5 DEF TypeOK, WindowOK, RefusedForCause
<1> QED
  BY <1>2, <1>4, <1>5

LEMMA TickPreserves ==
  ASSUME IInv, Tick
  PROVE  IInv'
<1> USE DEF IInv, Tick
<1>1. TypeOK'
  BY LimiterAssumption DEF TypeOK, Times
<1>2. \A e \in Clients : ClientOK(e)'
  BY DEF ClientOK, TypeOK, Times
<1> QED
  BY <1>1, <1>2 DEF WindowOK, RefusedForCause

--------------------------------------------------------------------------------
\* Theorems

\* The columns of every window agree, and every refused client stays away for as
\* long as it must.
THEOREM Invariance == Spec => []IInv
<1>1. Init => IInv
  <2> SUFFICES ASSUME Init PROVE IInv
    OBVIOUS
  <2>1. 0 \in Times
    BY LimiterAssumption DEF Times
  <2>2. TypeOK
    <3>1. Limit \in 0..Limit /\ 0 \in Nat
      BY LimiterAssumption
    <3>2. \A f : f = [s \in Scopes |-> [w \in Times |-> 0]] => f \in [Scopes -> [Times -> Nat]]
      OBVIOUS
    <3> QED
      BY <2>1, <3>1, <3>2 DEF Init, TypeOK
  <2>3. \A s \in Scopes, w \in Times : WindowOK(s, w)
    BY LimiterAssumption DEF Init, WindowOK
  <2>4. ASSUME NEW c \in Clients PROVE ClientOK(c)
    <3>1. pc[c] = "idle" /\ refused[c].count = 0
      BY DEF Init
    <3> QED
      BY <3>1 DEF ClientOK
  <2>5. RefusedForCause
    BY DEF Init, RefusedForCause
  <2> QED
    BY <2>2, <2>3, <2>4, <2>5 DEF IInv
<1>2. IInv /\ [Next]_vars => IInv'
  <2> SUFFICES ASSUME IInv, [Next]_vars PROVE IInv'
    OBVIOUS
  <2>1. ASSUME NEW c \in Clients, ReadClock(c) PROVE IInv'
    BY <2>1, ReadClockPreserves
  <2>2. ASSUME NEW c \in Clients, Allow(c) PROVE IInv'
    BY <2>2, AllowPreserves
  <2>3. ASSUME NEW c \in Clients, AllowFails(c) PROVE IInv'
    BY <2>3, AllowFailsPreserves
  <2>4. CASE Tick
    BY <2>4, TickPreserves
  <2>5. CASE UNCHANGED vars
    BY <2>5 DEF vars, IInv, TypeOK, WindowOK, ClientOK, RefusedForCause
  <2> QED
    BY <2>1, <2>2, <2>3, <2>4, <2>5 DEF Next, AllDone
<1> QED
  BY <1>1, <1>2, PTL DEF Spec

\* No window of a scope lets more requests through than the limit.
THEOREM LimitHolds == Spec => []LimitKept
<1>1. IInv => LimitKept
  BY DEF IInv, LimitKept, WindowOK
<1> QED
  BY <1>1, Invariance, PTL

\* No client is refused while its own scope had requests left.
THEOREM RefusalsAreEarned == Spec => []RefusedForCause
  BY Invariance, PTL DEF IInv

\* The remaining requests announced were really left.
THEOREM RemainingHolds == Spec => []RemainingIsReal
<1>1. IInv => RemainingIsReal
  BY DEF IInv, RemainingIsReal, WindowOK
<1> QED
  BY <1>1, Invariance, PTL

\* A client that waits for as long as Retry-After says is refused at most twice
\* in a window, whatever the interval and however the seconds are cut.
THEOREM WaitingHelps == Spec => []ObedientRefusedTwice
<1>1. IInv => ObedientRefusedTwice
  BY DEF IInv, ObedientRefusedTwice, ClientOK
<1> QED
  BY <1>1, Invariance, PTL

\* Every variable keeps its type.
THEOREM TypeCorrect == Spec => []TypeOK
  BY Invariance, PTL DEF IInv

================================================================================
