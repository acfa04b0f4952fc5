------------------------------ MODULE MCUserSchema ------------------------------
(***************************************************************************)
(* Two users whose names collide, the first with requests in two processes,*)
(* and a user whose row has names of an earlier program.                   *)
(***************************************************************************)
EXTENDS UserSchema

MCUserOf == [a |-> "ann", b |-> "ann", d |-> "bob", e |-> "bob", f |-> "old"]
MCProcOf == [a |-> "p", b |-> "q", d |-> "p", e |-> "p", f |-> "p"]
MCNameOf == [ann |-> "n", bob |-> "n", old |-> "m"]
MCEarlier == [ann |-> None, bob |-> None, old |-> "l"]

================================================================================
