----------------------------- MODULE MCRateLimiter -----------------------------
(***************************************************************************)
(* Two clients of one scope: scopes share nothing but the clock.           *)
(***************************************************************************)
EXTENDS RateLimiter

MCClients == {"c1", "c2"}
MCScopes == {"payments:alice"}
MCScopeOf == [c \in MCClients |-> "payments:alice"]

================================================================================
