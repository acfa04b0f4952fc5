------------------------------ MODULE AccessTokens ------------------------------
(***************************************************************************)
(* The bearer tokens of internal/auth/jwt.go, issued by cmd/token on one   *)
(* machine and checked by the API on another.  Time runs in nanoseconds,   *)
(* while a token is written and checked in whole seconds, and the clocks   *)
(* of the two machines may differ.  Encoding, header and signature are one *)
(* thing: the secret a token was signed with.  The state has one token,    *)
(* the last one issued, the last check of it and what earlier ones found.  *)
(***************************************************************************)
EXTENDS Integers

CONSTANT Secrets       \* values of JWT_SECRET

Second == 1000000000   \* time is in nanoseconds
MaxTtl == 24 * 3600 * Second

VARIABLES
  clock,       \* at the API
  skew,        \* how far the issuer's clock is ahead of it
  secret,      \* the secret both are configured with
  iat, exp,    \* the claims of the token, in seconds; nbf is iat
  signed,      \* the secret it was signed with
  issued, ttl, \* when it was issued and for how long, in nanoseconds
  verdict,     \* of the last check: "accepted", "refused", "foreign", or "none"
  at,          \* when that was
  over         \* a check refused the token when it had begun

token == <<iat, exp, signed, issued, ttl>>
vars == <<clock, skew, secret, token, verdict, at, over>>

Unix(t) == t \div Second

Init ==
  /\ clock \in Nat /\ skew \in Int
  /\ clock >= Second /\ clock + skew >= Second      \* later than 1970 on both clocks
  /\ secret \in Secrets
  /\ iat = 0 /\ exp = 0 /\ signed = secret /\ issued = 0 /\ ttl = 0
  /\ verdict = "none" /\ at = 0 /\ over = FALSE

Issue(lifetime) ==
  /\ lifetime >= Second /\ lifetime <= MaxTtl
  /\ iat' = Unix(clock + skew) /\ exp' = iat' + Unix(lifetime)
  /\ signed' = secret /\ issued' = clock /\ ttl' = lifetime
  /\ verdict' = "none" /\ over' = FALSE
  /\ UNCHANGED <<clock, skew, secret, at>>

ClaimsValid(now) == exp > now /\ iat > 0 /\ iat <= now /\ exp > iat

Authenticate ==
  /\ iat > 0
  /\ verdict' = IF signed # secret THEN "foreign"
                ELSE IF ClaimsValid(Unix(clock)) THEN "accepted" ELSE "refused"
  /\ at' = clock
  /\ over' = (over \/ (verdict' = "refused" /\ clock >= issued + skew))
  /\ UNCHANGED <<clock, skew, secret, token>>

\* Both are restarted with another secret.
Rotate ==
  /\ secret' \in Secrets \ {secret}
  /\ UNCHANGED <<clock, skew, token, verdict, at, over>>

Tick ==
  /\ clock' = clock + 1
  /\ UNCHANGED <<skew, secret, token, verdict, at, over>>

Next ==
  \/ \E lifetime \in Int : Issue(lifetime)
  \/ Authenticate \/ Rotate \/ Tick

Spec == Init /\ [][Next]_vars

--------------------------------------------------------------------------------
\* Properties

\* Every variable keeps its type, and a token expires after it was issued.
TypeOK ==
  /\ clock \in Nat /\ skew \in Int /\ secret \in Secrets
  /\ iat \in Nat /\ exp \in Nat /\ (iat > 0 => exp > iat)
  /\ signed \in Secrets /\ issued \in Nat /\ ttl \in Nat /\ ttl <= MaxTtl
  /\ verdict \in {"none", "accepted", "refused", "foreign"} /\ at \in Nat /\ over \in BOOLEAN

\* From its issue on, a token is accepted for less than its lifetime and what the
\* issuer's clock is ahead of the API's: cutting to seconds adds nothing, but an
\* issuer that is ahead hands out tokens that live longer by as much.
LateBySkewAtMost == verdict = "accepted" => at - issued < ttl + skew

\* A token is refused only when the API's clock has passed the end the issuer gave
\* it, or nearly so: rounding takes less than two seconds away.  The one other case
\* is an issuer whose clock is ahead: its tokens are refused until the API's clock
\* has caught up.
RefusedForCause ==
  verdict = "refused" => at > issued + skew + ttl - 2 * Second \/ at < issued + skew

\* A token that any check refused at a time when it had begun to be valid is accepted
\* by no later one, however often the secret is changed and changed back meanwhile.
RefusedStaysRefused == over => verdict # "accepted"

================================================================================
