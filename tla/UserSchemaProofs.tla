---------------------------- MODULE UserSchemaProofs ----------------------------
(***************************************************************************)
(* The tables a request works with exist and belong to its user alone, for *)
(* any number of users, processes, requests and faults, and whichever      *)
(* names collide.                                                          *)
(***************************************************************************)
EXTENDS UserSchema, TLAPS

Working == {"load", "payments", "webhooks", "commit"}

\* A row being inserted is that of a request in the middle of its transaction, and
\* neither the user nor the names are registered; those of a registered user exist.
UserOK(u) ==
  /\ \A r \in inserting[u] : /\ UserOf[r] = u /\ pc[r] \in Working
                             /\ registered[u] = None /\ ~NameTaken(u)
  /\ registered[u] # None => \A k \in Kinds : <<k, registered[u]>> \in tables

\* Names are unique among the registered, and among those being inserted.
UniqueNames ==
  \A u, v \in Users :
    /\ registered[u] = registered[v] /\ registered[u] # None => u = v
    /\ inserting[u] # {} /\ inserting[v] # {} /\ NameOf[u] = NameOf[v] => u = v

\* Only the request that inserts the row creates tables, and only its own; one that
\* finds a committed row finds the tables too.
RequestOK(r) ==
  /\ pc[r] = "load" => r \in inserting[UserOf[r]] \/ registered[UserOf[r]] # None
  /\ pc[r] \in {"payments", "webhooks", "commit"} =>
       r \in inserting[UserOf[r]] \/ registered[UserOf[r]] = Name(r)
  /\ \A t \in creating[r] : \E k \in Kinds : t = <<k, Name(r)>>
  /\ creating[r] # {} => r \in inserting[UserOf[r]]
  /\ pc[r] \in {"webhooks", "commit"} => <<"payments", Name(r)>> \in creating[r] \cup tables
  /\ pc[r] = "commit" => <<"webhooks", Name(r)>> \in creating[r] \cup tables
  /\ pc[r] \in {"store", "ready"} => registered[UserOf[r]] = Name(r)
  /\ pc[r] = "refused" =>
       registered[UserOf[r]] \notin {None, Name(r)} \/ NameTaken(UserOf[r])

CacheOK == \A p \in Processes : \A u \in cache[p] : registered[u] = NameOf[u]

IInv ==
  /\ TypeOK
  /\ \A u \in Users : UserOK(u)
  /\ UniqueNames
  /\ \A r \in Requests : RequestOK(r)
  /\ CacheOK

--------------------------------------------------------------------------------
\* The inductive invariant

LEMMA Constants ==
  ASSUME NEW r \in Requests
  PROVE  UserOf[r] \in Users /\ Name(r) \in Names /\ Name(r) # None
  BY UserSchemaAssumption DEF Name

LEMMA InitHolds == Init => IInv
<1> SUFFICES ASSUME Init PROVE IInv
  OBVIOUS
<1>1. TypeOK
  BY UserSchemaAssumption DEF Init, TypeOK, InTransaction, Answers
<1>2. \A u \in Users : UserOK(u)
  BY UserSchemaAssumption DEF Init, UserOK
<1>3. UniqueNames
  BY UserSchemaAssumption DEF Init, UniqueNames
<1>4. \A r \in Requests : RequestOK(r)
  BY DEF Init, RequestOK
<1>5. CacheOK
  BY DEF Init, CacheOK
<1> QED
  BY <1>1, <1>2, <1>3, <1>4, <1>5 DEF IInv

\* A step that only moves a request, from a place where it holds no row.
LEMMA MoveKeeps ==
  ASSUME IInv, NEW r \in Requests, NEW x \in InTransaction \cup {"check", "store"} \cup Answers,
         GoTo(r, x),
         UNCHANGED <<registered, tables, inserting, creating, cache, faults>>,
         pc[r] \notin Working \/ x \in Working \/ r \notin inserting[UserOf[r]],
         x = "load" => r \in inserting[UserOf[r]] \/ registered[UserOf[r]] # None,
         x = "payments" => r \in inserting[UserOf[r]] \/ registered[UserOf[r]] = Name(r),
         x \notin {"webhooks", "commit", "store"},
         x = "ready" => registered[UserOf[r]] = Name(r),
         x = "refused" =>
           registered[UserOf[r]] \notin {None, Name(r)} \/ NameTaken(UserOf[r])
  PROVE  IInv'
<1>1. /\ pc' = [pc EXCEPT ![r] = x] /\ pc \in [Requests -> InTransaction \cup {"check", "store"} \cup Answers]
      /\ pc'[r] = x /\ \A s \in Requests : s # r => pc'[s] = pc[s]
  BY DEF GoTo, IInv, TypeOK
<1>2. TypeOK'
  BY <1>1 DEF IInv, TypeOK
<1>3. ASSUME NEW u \in Users PROVE UserOK(u)'
  <2>1. UserOK(u) /\ inserting[u] \subseteq Requests
    BY DEF IInv, TypeOK
  <2> QED
    BY <1>1, <2>1 DEF UserOK, NameTaken
<1>4. UniqueNames'
  BY DEF IInv, UniqueNames
<1>5. ASSUME NEW s \in Requests PROVE RequestOK(s)'
  <2>1. RequestOK(s)
    BY DEF IInv
  <2>2. CASE s = r
    BY <1>1, <2>1, <2>2 DEF RequestOK, Name, NameTaken
  <2>3. CASE s # r
    BY <1>1, <2>1, <2>3 DEF RequestOK, Name, NameTaken
  <2> QED
    BY <2>2, <2>3
<1>6. CacheOK'
  BY DEF IInv, CacheOK
<1> QED
  BY <1>2, <1>3, <1>4, <1>5, <1>6 DEF IInv

\* A request outside its transaction inserts nothing.
LEMMA HoldsNothing ==
  ASSUME IInv, NEW r \in Requests, pc[r] \notin Working
  PROVE  \A u \in Users : r \notin inserting[u]
  BY DEF IInv, UserOK

LEMMA EnterKeeps == ASSUME IInv, NEW r \in Requests, EnterStep(r) PROVE IInv'
<1>1. UserOf[r] \in Users /\ ProcOf[r] \in Processes
  BY UserSchemaAssumption
<1>2. CASE CacheHit(r)
  <2>1. registered[UserOf[r]] = Name(r)
    BY <1>1, <1>2 DEF CacheHit, IInv, CacheOK, Name
  <2> QED
    BY <1>2, <2>1, MoveKeeps DEF CacheHit, Working, Answers
<1>3. CASE CacheMiss(r)
  BY <1>3, MoveKeeps DEF CacheMiss, Working, InTransaction
<1> QED
  BY <1>2, <1>3 DEF EnterStep

LEMMA InsertKeeps == ASSUME IInv, NEW r \in Requests, Insert(r) PROVE IInv'
<1> DEFINE w == UserOf[r]
<1>1. w \in Users /\ Name(r) # None
  BY Constants
<1>2. /\ pc \in [Requests -> InTransaction \cup {"check", "store"} \cup Answers]
      /\ inserting \in [Users -> {{}} \cup {{q} : q \in Requests}]
      /\ pc[r] = "insert" /\ registered[w] = None /\ ~NameTaken(w) /\ ~MustWait(w)
      /\ UNCHANGED <<registered, tables, creating, cache, faults>>
      /\ pc' = [pc EXCEPT ![r] = "load"] /\ inserting' = [inserting EXCEPT ![w] = {r}]
  BY DEF Insert, GoTo, IInv, TypeOK
<1>3. /\ pc'[r] = "load" /\ \A s \in Requests : s # r => pc'[s] = pc[s]
      /\ inserting'[w] = {r} /\ \A u \in Users : u # w => inserting'[u] = inserting[u]
  BY <1>1, <1>2
<1>4. \A u \in Users : r \notin inserting[u]
  BY <1>2, HoldsNothing DEF Working
<1>5. inserting[w] = {}
  BY <1>1, <1>2 DEF MustWait
<1>6. TypeOK'
  <2>1. inserting' \in [Users -> {{}} \cup {{q} : q \in Requests}]
    BY <1>1, <1>2
  <2>2. pc' \in [Requests -> InTransaction \cup {"check", "store"} \cup Answers]
    BY <1>2 DEF InTransaction
  <2> QED
    BY <1>2, <2>1, <2>2 DEF IInv, TypeOK
<1>7. ASSUME NEW u \in Users PROVE UserOK(u)'
  <2>1. UserOK(u) /\ inserting[u] \subseteq Requests
    BY DEF IInv, TypeOK
  <2>2. NameTaken(u)' <=> NameTaken(u)
    BY <1>2 DEF NameTaken
  <2>3. CASE u = w
    BY <1>2, <1>3, <2>1, <2>2, <2>3 DEF UserOK, Working
  <2>4. CASE u # w
    BY <1>2, <1>3, <1>4, <2>1, <2>2, <2>4 DEF UserOK
  <2> QED
    BY <2>3, <2>4
<1>8. UniqueNames'
  <2> SUFFICES ASSUME NEW u \in Users, NEW v \in Users
               PROVE  /\ (registered[u] = registered[v] /\ registered[u] # None => u = v)'
                      /\ (inserting[u] # {} /\ inserting[v] # {} /\ NameOf[u] = NameOf[v] => u = v)'
    BY DEF UniqueNames
  <2>1. (registered[u] = registered[v] /\ registered[u] # None => u = v)'
    BY <1>2 DEF IInv, UniqueNames
  <2>2. \A x \in Users : inserting[x] # {} => NameOf[x] # NameOf[w]
    BY <1>2 DEF MustWait
  <2>3. (inserting[u] # {} /\ inserting[v] # {} /\ NameOf[u] = NameOf[v] => u = v)'
    BY <1>3, <2>2 DEF IInv, UniqueNames
  <2> QED
    BY <2>1, <2>3
<1>9. ASSUME NEW s \in Requests PROVE RequestOK(s)'
  <2>1. RequestOK(s) /\ UserOf[s] \in Users
    BY UserSchemaAssumption DEF IInv
  <2>2. NameTaken(UserOf[s])' <=> NameTaken(UserOf[s])
    BY <1>2 DEF NameTaken
  <2>3. CASE s = r
    BY <1>1, <1>2, <1>3, <2>1, <2>2, <2>3 DEF RequestOK, Name
  <2>4. CASE s # r
    <3>1. s \in inserting[UserOf[s]] => s \in inserting'[UserOf[s]]
      BY <1>3, <1>5, <2>1
    <3> QED
      BY <1>2, <1>3, <2>1, <2>2, <2>4, <3>1 DEF RequestOK, Name
  <2> QED
    BY <2>3, <2>4
<1>10. CacheOK'
  BY <1>2 DEF IInv, CacheOK
<1> QED
  BY <1>6, <1>7, <1>8, <1>9, <1>10 DEF IInv

LEMMA InsertStepKeeps == ASSUME IInv, NEW r \in Requests, InsertStep(r) PROVE IInv'
<1>1. CASE InsertNothing(r)
  BY <1>1, MoveKeeps DEF InsertNothing, Working, InTransaction
<1>2. CASE InsertRefused(r)
  BY <1>2, MoveKeeps DEF InsertRefused, Working, Answers
<1> QED
  BY <1>1, <1>2, InsertKeeps DEF InsertStep

LEMMA LoadKeeps == ASSUME IInv, NEW r \in Requests, Load(r) PROVE IInv'
<1>1. RequestOK(r)
  BY DEF IInv
<1>2. CASE r \in inserting[UserOf[r]] \/ registered[UserOf[r]] = Name(r)
  BY <1>2, MoveKeeps DEF Load, Working, InTransaction
<1>3. CASE ~(r \in inserting[UserOf[r]] \/ registered[UserOf[r]] = Name(r))
  <2>1. registered[UserOf[r]] \notin {None, Name(r)}
    BY <1>1, <1>3 DEF RequestOK, Load
  <2> QED
    BY <1>3, <2>1, MoveKeeps DEF Load, Answers
<1> QED
  BY <1>2, <1>3

LEMMA CreateKeeps ==
  ASSUME IInv, NEW r \in Requests, CreatePayments(r) \/ CreateWebhooks(r)
  PROVE  IInv'
<1>1. PICK kind \in Kinds, next \in {"webhooks", "commit"} :
        /\ CreateTable(r, kind, next)
        /\ kind = "payments" => next = "webhooks"
        /\ kind = "webhooks" => next = "commit"
  BY DEF CreatePayments, CreateWebhooks, Kinds
<1> DEFINE t == <<kind, Name(r)>>
<1>2. /\ pc \in [Requests -> InTransaction \cup {"check", "store"} \cup Answers]
      /\ creating \in [Requests -> SUBSET (Kinds \X Names)]
      /\ UserOf[r] \in Users /\ Name(r) \in Names /\ Name(r) # None
      /\ pc[r] = kind /\ pc' = [pc EXCEPT ![r] = next]
      /\ creating' = [creating EXCEPT ![r] = @ \cup ({t} \ tables)]
      /\ UNCHANGED <<registered, tables, inserting, cache, faults>>
  BY <1>1, Constants DEF CreateTable, GoTo, IInv, TypeOK
<1>3. /\ pc'[r] = next /\ \A s \in Requests : s # r => pc'[s] = pc[s]
      /\ creating'[r] = creating[r] \cup ({t} \ tables)
      /\ \A s \in Requests : s # r => creating'[s] = creating[s]
  BY <1>2
<1>4. RequestOK(r) /\ UserOK(UserOf[r])
  BY <1>2 DEF IInv
<1>5. TypeOK'
  <2>1. t \in Kinds \X Names
    BY <1>2
  <2>2. creating' \in [Requests -> SUBSET (Kinds \X Names)]
    BY <1>2, <2>1
  <2>3. pc' \in [Requests -> InTransaction \cup {"check", "store"} \cup Answers]
    BY <1>2 DEF InTransaction
  <2> QED
    BY <1>2, <2>2, <2>3 DEF IInv, TypeOK
<1>6. ASSUME NEW u \in Users PROVE UserOK(u)'
  <2>1. UserOK(u) /\ inserting[u] \subseteq Requests
    BY DEF IInv, TypeOK
  <2>2. NameTaken(u)' <=> NameTaken(u)
    BY <1>2 DEF NameTaken
  <2> QED
    BY <1>2, <1>3, <2>1, <2>2 DEF UserOK, Working
<1>7. UniqueNames'
  BY <1>2 DEF IInv, UniqueNames
<1>8. ASSUME NEW s \in Requests PROVE RequestOK(s)'
  <2>1. RequestOK(s)
    BY DEF IInv
  <2>2. NameTaken(UserOf[s])' <=> NameTaken(UserOf[s])
    BY <1>2 DEF NameTaken
  <2>3. CASE s = r
    <3>1. r \in inserting[UserOf[r]] \/ registered[UserOf[r]] = Name(r)
      BY <1>1, <1>2, <1>4 DEF RequestOK, Kinds
    <3>2. registered[UserOf[r]] = Name(r) => t \in tables
      BY <1>2, <1>4 DEF UserOK
    <3>3. creating'[r] # {} => r \in inserting'[UserOf[r]]
      BY <1>2, <1>3, <1>4, <3>1, <3>2 DEF RequestOK
    <3>4. \A e \in creating'[r] : \E k \in Kinds : e = <<k, Name(r)>>
      BY <1>3, <1>4 DEF RequestOK
    <3>5. t \in creating'[r] \cup tables
      BY <1>3
    <3>6. next = "commit" => <<"payments", Name(r)>> \in creating'[r] \cup tables
      BY <1>1, <1>2, <1>3, <1>4 DEF RequestOK, Kinds
    <3>7. next = "webhooks" => <<"payments", Name(r)>> \in creating'[r] \cup tables
      BY <1>1, <3>5 DEF Kinds
    <3>8. next = "commit" => <<"webhooks", Name(r)>> \in creating'[r] \cup tables
      BY <1>1, <3>5 DEF Kinds
    <3>9. Name(r)' = Name(r)
      BY DEF Name
    <3> HIDE DEF t
    <3> QED
      BY <1>2, <1>3, <2>2, <2>3, <3>1, <3>3, <3>4, <3>6, <3>7, <3>8, <3>9 DEF RequestOK
  <2>4. CASE s # r
    BY <1>2, <1>3, <2>1, <2>2, <2>4 DEF RequestOK, Name
  <2> QED
    BY <2>3, <2>4
<1>9. CacheOK'
  BY <1>2 DEF IInv, CacheOK
<1> QED
  BY <1>5, <1>6, <1>7, <1>8, <1>9 DEF IInv

\* A transaction ends, and its request is answered or goes on to "store".
LEMMA EndFacts ==
  ASSUME IInv, NEW r \in Requests, EndTransaction(r)
  PROVE  /\ inserting'[UserOf[r]] = inserting[UserOf[r]] \ {r}
         /\ \A u \in Users : inserting'[u] \subseteq inserting[u] /\ r \notin inserting'[u]
         /\ \A u \in Users : u # UserOf[r] => inserting'[u] = inserting[u]
         /\ \A u \in Users : \A s \in Requests : s # r /\ s \in inserting[u] => s \in inserting'[u]
         /\ creating'[r] = {} /\ \A s \in Requests : s # r => creating'[s] = creating[s]
         /\ inserting' \in [Users -> {{}} \cup {{q} : q \in Requests}]
         /\ creating' \in [Requests -> SUBSET (Kinds \X Names)]
<1>1. /\ inserting \in [Users -> {{}} \cup {{q} : q \in Requests}]
      /\ creating \in [Requests -> SUBSET (Kinds \X Names)]
      /\ inserting' = [u \in Users |-> inserting[u] \ {r}]
      /\ creating' = [creating EXCEPT ![r] = {}]
      /\ UserOf[r] \in Users
  BY Constants DEF IInv, TypeOK, EndTransaction
<1>2. \A u \in Users : u # UserOf[r] => r \notin inserting[u]
  BY DEF IInv, UserOK
<1>3. inserting' \in [Users -> {{}} \cup {{q} : q \in Requests}]
  <2> SUFFICES ASSUME NEW u \in Users
               PROVE  inserting[u] \ {r} \in {{}} \cup {{q} : q \in Requests}
    BY <1>1
  <2>1. inserting[u] \in {{}} \cup {{q} : q \in Requests}
    BY <1>1
  <2>2. inserting[u] \ {r} = {} \/ inserting[u] \ {r} = inserting[u]
    BY <2>1
  <2> QED
    BY <2>1, <2>2
<1> QED
  BY <1>1, <1>2, <1>3

\* The committed step, wherever the request goes next.
LEMMA CommittedKeeps ==
  ASSUME IInv, NEW r \in Requests, NEW x \in {"store", "error"},
         Committed(r), GoTo(r, x), faults' \in 0..MaxFaults
  PROVE  IInv'
<1> DEFINE w == UserOf[r]
<1>1. /\ pc \in [Requests -> InTransaction \cup {"check", "store"} \cup Answers]
      /\ registered \in [Users -> Names \cup {None}]
      /\ w \in Users /\ Name(r) \in Names /\ Name(r) # None /\ Name(r) = NameOf[w]
      /\ pc[r] = "commit" /\ pc' = [pc EXCEPT ![r] = x]
      /\ registered' = [u \in Users |-> IF r \in inserting[u] THEN NameOf[u] ELSE registered[u]]
      /\ tables' = tables \cup creating[r] /\ cache' = cache
      /\ EndTransaction(r)
  BY Constants DEF Committed, GoTo, IInv, TypeOK, Name
<1>2. pc'[r] = x /\ \A s \in Requests : s # r => pc'[s] = pc[s]
  BY <1>1
<1>3. /\ inserting'[w] = inserting[w] \ {r}
      /\ \A u \in Users : inserting'[u] \subseteq inserting[u] /\ r \notin inserting'[u]
      /\ \A u \in Users : u # w => inserting'[u] = inserting[u]
      /\ \A u \in Users : \A s \in Requests : s # r /\ s \in inserting[u] => s \in inserting'[u]
      /\ creating'[r] = {} /\ \A s \in Requests : s # r => creating'[s] = creating[s]
      /\ inserting' \in [Users -> {{}} \cup {{q} : q \in Requests}]
      /\ creating' \in [Requests -> SUBSET (Kinds \X Names)]
  BY <1>1, EndFacts
<1>4. RequestOK(r) /\ UserOK(w)
  BY <1>1 DEF IInv
<1>5. \A u \in Users : u # w => r \notin inserting[u]
  BY DEF IInv, UserOK
<1>6. registered'[w] = NameOf[w] /\ \A u \in Users : u # w => registered'[u] = registered[u]
  BY <1>1, <1>4, <1>5 DEF RequestOK
<1>7. \A k \in Kinds : <<k, NameOf[w]>> \in tables'
  BY <1>1, <1>4 DEF RequestOK, Kinds
<1>8. r \in inserting[w] => registered[w] = None /\ ~NameTaken(w)
  BY <1>4 DEF UserOK
<1>9. r \notin inserting[w] => registered' = registered
  <2> SUFFICES ASSUME r \notin inserting[w] PROVE registered' = registered
    OBVIOUS
  <2>1. \A u \in Users : registered'[u] = registered[u]
    BY <1>1, <1>5
  <2> QED
    BY <1>1, <2>1
<1>10. \A v \in Users : registered[v] # None => registered'[v] = registered[v]
  BY <1>6, <1>8, <1>9
<1>11. registered' \in [Users -> Names \cup {None}]
  BY <1>1, UserSchemaAssumption
<1>12. TypeOK'
  <2>1. pc' \in [Requests -> InTransaction \cup {"check", "store"} \cup Answers]
    BY <1>1 DEF Answers
  <2>2. tables' \subseteq Kinds \X Names
    BY <1>1 DEF IInv, TypeOK
  <2>3. cache' \in [Processes -> SUBSET Users]
    BY <1>1 DEF IInv, TypeOK
  <2> QED
    BY <1>3, <1>11, <2>1, <2>2, <2>3 DEF TypeOK
<1>13. ASSUME NEW u \in Users PROVE UserOK(u)'
  <2>1. UserOK(u) /\ inserting[u] \subseteq Requests
    BY DEF IInv, TypeOK
  <2>2. registered'[u] # None => \A k \in Kinds : <<k, registered'[u]>> \in tables'
    BY <1>1, <1>6, <1>7, <2>1 DEF UserOK
  <2>3. CASE u # w
    <3>1. ASSUME NEW s \in inserting'[u]
          PROVE  /\ UserOf[s] = u /\ pc'[s] \in Working /\ registered'[u] = None
                 /\ ~NameTaken(u)'
      <4>1. s \in inserting[u] /\ s # r /\ s \in Requests
        BY <1>3, <2>1, <3>1
      <4>2. UserOf[s] = u /\ pc[s] \in Working /\ registered[u] = None /\ ~NameTaken(u)
        BY <2>1, <4>1 DEF UserOK
      <4>3. r \in inserting[w] => NameOf[u] # NameOf[w]
        BY <1>1, <2>3, <4>1 DEF IInv, UniqueNames
      <4>4. ~NameTaken(u)'
        BY <1>1, <1>6, <1>9, <4>2, <4>3 DEF NameTaken
      <4> QED
        BY <1>2, <1>6, <2>3, <4>1, <4>2, <4>4
    <3> QED
      BY <2>2, <3>1 DEF UserOK
  <2>4. CASE u = w
    <3>1. inserting'[w] = {}
      <4>1. CASE r \in inserting[w]
        BY <1>1, <1>3, <4>1 DEF IInv, TypeOK
      <4>2. CASE r \notin inserting[w]
        BY <1>1, <1>3, <1>4, <4>2 DEF RequestOK, UserOK
      <4> QED
        BY <4>1, <4>2
    <3> QED
      BY <2>2, <2>4, <3>1 DEF UserOK
  <2> QED
    BY <2>3, <2>4
<1>14. UniqueNames'
  <2> SUFFICES ASSUME NEW u \in Users, NEW v \in Users
               PROVE  /\ (registered[u] = registered[v] /\ registered[u] # None => u = v)'
                      /\ (inserting[u] # {} /\ inserting[v] # {} /\ NameOf[u] = NameOf[v] => u = v)'
    BY DEF UniqueNames
  <2>1. (inserting[u] # {} /\ inserting[v] # {} /\ NameOf[u] = NameOf[v] => u = v)'
    BY <1>3 DEF IInv, UniqueNames
  <2>2. registered[u] = registered[v] /\ registered[u] # None => u = v
    BY DEF IInv, UniqueNames
  <2>3. (registered[u] = registered[v] /\ registered[u] # None => u = v)'
    BY <1>1, <1>6, <1>8, <1>9, <2>2 DEF NameTaken
  <2> QED
    BY <2>1, <2>3
<1>15. ASSUME NEW s \in Requests PROVE RequestOK(s)'
  <2>1. RequestOK(s) /\ UserOf[s] \in Users /\ Name(s) # None /\ Name(s)' = Name(s)
        /\ Name(s) = NameOf[UserOf[s]]
    BY Constants DEF IInv, Name
  <2>2. NameTaken(UserOf[s]) => NameTaken(UserOf[s])'
    <3> SUFFICES ASSUME NameTaken(UserOf[s]) PROVE NameTaken(UserOf[s])'
      OBVIOUS
    <3>1. PICK v \in Users \ {UserOf[s]} : registered[v] = NameOf[UserOf[s]]
      BY DEF NameTaken
    <3>2. registered'[v] = registered[v]
      BY <1>10, <2>1, <3>1
    <3> QED
      BY <3>1, <3>2 DEF NameTaken
  <2>3. CASE s = r
    BY <1>2, <1>3, <1>6, <2>1, <2>3 DEF RequestOK
  <2>4. CASE s # r
    <3>1. s \in inserting[UserOf[s]] => s \in inserting'[UserOf[s]]
      BY <1>3, <2>1, <2>4
    <3>2. registered[UserOf[s]] # None => registered'[UserOf[s]] = registered[UserOf[s]]
      BY <1>10, <2>1
    <3> QED
      BY <1>1, <1>2, <1>3, <2>1, <2>2, <2>4, <3>1, <3>2 DEF RequestOK
  <2> QED
    BY <2>3, <2>4
<1>16. CacheOK'
  <2> SUFFICES ASSUME NEW p \in Processes, NEW u \in cache[p] PROVE registered'[u] = NameOf[u]
    BY <1>1 DEF CacheOK
  <2>1. u \in Users /\ registered[u] = NameOf[u] /\ NameOf[u] # None
    BY UserSchemaAssumption DEF IInv, TypeOK, CacheOK
  <2> QED
    BY <1>10, <2>1
<1> QED
  BY <1>12, <1>13, <1>14, <1>15, <1>16 DEF IInv

LEMMA RememberKeeps == ASSUME IInv, NEW r \in Requests, Remember(r) PROVE IInv'
<1>1. /\ pc \in [Requests -> InTransaction \cup {"check", "store"} \cup Answers]
      /\ cache \in [Processes -> SUBSET Users]
      /\ UserOf[r] \in Users /\ ProcOf[r] \in Processes
      /\ pc[r] = "store" /\ pc' = [pc EXCEPT ![r] = "ready"]
      /\ cache' = [cache EXCEPT ![ProcOf[r]] = @ \cup {UserOf[r]}]
      /\ UNCHANGED <<registered, tables, inserting, creating, faults>>
  BY UserSchemaAssumption DEF Remember, GoTo, IInv, TypeOK
<1>2. pc'[r] = "ready" /\ \A s \in Requests : s # r => pc'[s] = pc[s]
  BY <1>1
<1>3. registered[UserOf[r]] = NameOf[UserOf[r]]
  BY <1>1 DEF IInv, RequestOK, Name
<1>4. TypeOK'
  <2>1. cache' \in [Processes -> SUBSET Users]
    BY <1>1
  <2>2. pc' \in [Requests -> InTransaction \cup {"check", "store"} \cup Answers]
    BY <1>1 DEF Answers
  <2> QED
    BY <1>1, <2>1, <2>2 DEF IInv, TypeOK
<1>5. ASSUME NEW u \in Users PROVE UserOK(u)'
  <2>1. UserOK(u) /\ inserting[u] \subseteq Requests
    BY DEF IInv, TypeOK
  <2> QED
    BY <1>1, <1>2, <2>1 DEF UserOK, NameTaken, Working
<1>6. UniqueNames'
  BY <1>1 DEF IInv, UniqueNames
<1>7. ASSUME NEW s \in Requests PROVE RequestOK(s)'
  <2>1. RequestOK(s)
    BY DEF IInv
  <2> QED
    BY <1>1, <1>2, <2>1 DEF RequestOK, Name, NameTaken
<1>8. CacheOK'
  BY <1>1, <1>3 DEF IInv, CacheOK
<1> QED
  BY <1>4, <1>5, <1>6, <1>7, <1>8 DEF IInv

\* Giving up transactions, one of a failed request or all of a process, leaves a
\* state in which the rest goes on as before.
LEMMA AbandonKeeps ==
  ASSUME IInv, NEW S \in SUBSET Requests,
         pc' \in [Requests -> InTransaction \cup {"check", "store"} \cup Answers],
         \A s \in S : pc'[s] = "error" \/ (pc'[s] = pc[s] /\ pc[s] \notin Working),
         \A s \in Requests \ S : pc'[s] = pc[s],
         inserting' = [u \in Users |-> {q \in inserting[u] : q \notin S}],
         creating' = [s \in Requests |-> IF s \in S THEN {} ELSE creating[s]],
         registered' = registered, tables' = tables, faults' \in 0..MaxFaults,
         cache' \in [Processes -> SUBSET Users],
         \A p \in Processes : cache'[p] \subseteq cache[p]
  PROVE  IInv'
<1>1. /\ inserting \in [Users -> {{}} \cup {{q} : q \in Requests}]
      /\ creating \in [Requests -> SUBSET (Kinds \X Names)]
  BY DEF IInv, TypeOK
<1>2. TypeOK'
  <2>1. inserting' \in [Users -> {{}} \cup {{q} : q \in Requests}]
    <3> SUFFICES ASSUME NEW u \in Users
                 PROVE  {q \in inserting[u] : q \notin S} \in {{}} \cup {{q} : q \in Requests}
      OBVIOUS
    <3>1. inserting[u] \in {{}} \cup {{q} : q \in Requests}
      BY <1>1
    <3>2. {q \in inserting[u] : q \notin S} \in {{}, inserting[u]}
      BY <3>1
    <3> QED
      BY <3>1, <3>2
  <2>2. creating' \in [Requests -> SUBSET (Kinds \X Names)]
    BY <1>1
  <2> QED
    BY <2>1, <2>2 DEF IInv, TypeOK
<1>3. ASSUME NEW u \in Users PROVE UserOK(u)'
  <2>1. UserOK(u) /\ inserting[u] \subseteq Requests
    BY DEF IInv, TypeOK
  <2>2. NameTaken(u)' <=> NameTaken(u)
    BY DEF NameTaken
  <2>3. \A q \in inserting'[u] : q \in inserting[u] /\ pc'[q] = pc[q]
    BY <2>1
  <2> QED
    BY <2>1, <2>2, <2>3 DEF UserOK
<1>4. UniqueNames'
  BY DEF IInv, UniqueNames
<1>5. ASSUME NEW s \in Requests PROVE RequestOK(s)'
  <2>1. RequestOK(s) /\ UserOf[s] \in Users /\ Name(s)' = Name(s)
    BY Constants DEF IInv, Name
  <2>2. NameTaken(UserOf[s])' <=> NameTaken(UserOf[s])
    BY DEF NameTaken
  <2>3. CASE s \in S
    <3>1. creating'[s] = {} /\ (pc'[s] = "error" \/ (pc'[s] = pc[s] /\ pc[s] \notin Working))
      BY <2>3
    <3> QED
      BY <2>1, <2>2, <3>1 DEF RequestOK, Working
  <2>4. CASE s \notin S
    <3>1. /\ creating'[s] = creating[s] /\ pc'[s] = pc[s]
          /\ s \in inserting[UserOf[s]] => s \in inserting'[UserOf[s]]
      BY <2>1, <2>4
    <3> QED
      BY <2>1, <2>2, <3>1 DEF RequestOK
  <2> QED
    BY <2>3, <2>4
<1>6. CacheOK'
  BY DEF IInv, CacheOK
<1> QED
  BY <1>2, <1>3, <1>4, <1>5, <1>6 DEF IInv

LEMMA RollbackKeeps == ASSUME IInv, NEW r \in Requests, Rollback(r) PROVE IInv'
<1> DEFINE S == {r}
<1>1. /\ pc \in [Requests -> InTransaction \cup {"check", "store"} \cup Answers]
      /\ pc' = [pc EXCEPT ![r] = "error"]
      /\ creating \in [Requests -> SUBSET (Kinds \X Names)]
      /\ creating' = [creating EXCEPT ![r] = {}]
      /\ inserting' = [u \in Users |-> inserting[u] \ {r}]
      /\ UNCHANGED <<registered, tables, cache>> /\ faults' \in 0..MaxFaults
      /\ cache \in [Processes -> SUBSET Users]
  BY UserSchemaAssumption DEF Rollback, EndTransaction, GoTo, Fault, IInv, TypeOK
<1>2. pc' \in [Requests -> InTransaction \cup {"check", "store"} \cup Answers]
  BY <1>1 DEF Answers
<1>3. creating' = [s \in Requests |-> IF s \in S THEN {} ELSE creating[s]]
  BY <1>1
<1>4. inserting' = [u \in Users |-> {q \in inserting[u] : q \notin S}]
  BY <1>1
<1>5. \A s \in S : pc'[s] = "error"
  BY <1>1
<1>6. \A s \in Requests \ S : pc'[s] = pc[s]
  BY <1>1
<1>7. S \in SUBSET Requests /\ cache' \in [Processes -> SUBSET Users]
      /\ \A p \in Processes : cache'[p] \subseteq cache[p]
  BY <1>1
<1> HIDE DEF S
<1> QED
  BY <1>1, <1>2, <1>3, <1>4, <1>5, <1>6, <1>7, AbandonKeeps

LEMMA RestartKeeps == ASSUME IInv, NEW p \in Processes, Restart(p) PROVE IInv'
<1> DEFINE S == {r \in Requests : ProcOf[r] = p}
<1>1. /\ pc \in [Requests -> InTransaction \cup {"check", "store"} \cup Answers]
      /\ cache \in [Processes -> SUBSET Users]
      /\ inserting \in [Users -> {{}} \cup {{q} : q \in Requests}]
      /\ UNCHANGED <<registered, tables>> /\ faults' \in 0..MaxFaults
      /\ cache' = [cache EXCEPT ![p] = {}]
  BY UserSchemaAssumption DEF Restart, Fault, IInv, TypeOK
<1>2. pc' \in [Requests -> InTransaction \cup {"check", "store"} \cup Answers]
  BY <1>1 DEF Restart, Answers
<1>3. \A s \in S : pc'[s] = "error" \/ (pc'[s] = pc[s] /\ pc[s] \notin Working)
  BY DEF Restart, InTransaction, Working
<1>4. \A s \in Requests \ S : pc'[s] = pc[s]
  BY DEF Restart
<1>5. inserting' = [u \in Users |-> {q \in inserting[u] : q \notin S}]
  <2>1. \A u \in Users : {q \in inserting[u] : ProcOf[q] # p} = {q \in inserting[u] : q \notin S}
    BY <1>1
  <2> QED
    BY <2>1 DEF Restart
<1>6. creating' = [s \in Requests |-> IF s \in S THEN {} ELSE creating[s]]
  BY DEF Restart
<1>7. cache' \in [Processes -> SUBSET Users] /\ \A q \in Processes : cache'[q] \subseteq cache[q]
  BY <1>1
<1> HIDE DEF S
<1>8. S \in SUBSET Requests
  BY DEF S
<1> QED
  BY <1>1, <1>2, <1>3, <1>4, <1>5, <1>6, <1>7, <1>8, AbandonKeeps

LEMMA CommitKeeps == ASSUME IInv, NEW r \in Requests, Commit(r) \/ CommitLost(r) PROVE IInv'
<1>1. faults' \in 0..MaxFaults
  BY UserSchemaAssumption DEF IInv, TypeOK, Commit, CommitLost, Fault
<1> QED
  BY <1>1, CommittedKeeps DEF Commit, CommitLost

LEMMA StutterKeeps == ASSUME IInv, UNCHANGED vars PROVE IInv'
  BY DEF IInv, TypeOK, UserOK, UniqueNames, RequestOK, CacheOK, NameTaken, Name, vars

\* Every step of every request and process keeps the invariant.
THEOREM Invariance == Spec => []IInv
<1>1. IInv /\ [Next]_vars => IInv'
  BY EnterKeeps, InsertStepKeeps, LoadKeeps, CreateKeeps, CommitKeeps, RememberKeeps,
     RollbackKeeps, RestartKeeps, StutterKeeps DEF Next, TableStep, AllDone
<1> QED
  BY InitHolds, <1>1, PTL DEF Spec

--------------------------------------------------------------------------------
\* What follows

\* Every variable keeps its type, and a user has at most one open registration.
THEOREM TypeCorrect == Spec => []TypeOK
<1>1. IInv => TypeOK
  BY DEF IInv
<1> QED
  BY Invariance, <1>1, PTL

\* A user whom a process takes for registered is.
LEMMA TrustIsEarned ==
  ASSUME IInv, NEW u \in Trusted
  PROVE  u \in Users /\ registered[u] = NameOf[u] /\ NameOf[u] # None
<1>1. CASE \E p \in Processes : u \in cache[p]
  BY <1>1, UserSchemaAssumption DEF IInv, TypeOK, CacheOK
<1>2. CASE \E r \in Requests : pc[r] \in {"store", "ready"} /\ u = UserOf[r]
  <2>1. PICK r \in Requests : pc[r] \in {"store", "ready"} /\ u = UserOf[r]
    BY <1>2
  <2> QED
    BY <2>1, Constants DEF IInv, RequestOK, Name
<1> QED
  BY <1>1, <1>2 DEF Trusted

\* Whoever a process takes for granted has both tables, committed and registered, and
\* shares them with nobody, even when hashed names collide.
THEOREM TablesExist == Spec => []TablesAreTheirOwn
<1>1. ASSUME IInv, NEW u \in Trusted
      PROVE  registered[u] = NameOf[u] /\ \A k \in Kinds : <<k, NameOf[u]>> \in tables
  BY <1>1, TrustIsEarned DEF IInv, UserOK
<1>2. ASSUME IInv, NEW u \in Trusted, NEW v \in Trusted, NameOf[u] = NameOf[v]
      PROVE  u = v
  BY <1>2, TrustIsEarned DEF IInv, UniqueNames
<1>3. IInv => TablesAreTheirOwn
  BY <1>1, <1>2 DEF TablesAreTheirOwn
<1> QED
  BY Invariance, <1>3, PTL

\* No two open transactions create the same table.
THEOREM DDLInOrder == Spec => []NoConcurrentDDL
<1>1. IInv => NoConcurrentDDL
  <2> SUFFICES ASSUME IInv, NEW r \in Requests, NEW s \in Requests, r # s,
                      NEW t \in creating[r], t \in creating[s]
               PROVE  FALSE
    BY DEF NoConcurrentDDL
  <2>1. PICK k \in Kinds : t = <<k, Name(r)>>
    BY DEF IInv, RequestOK
  <2>2. PICK j \in Kinds : t = <<j, Name(s)>>
    BY DEF IInv, RequestOK
  <2>3. r \in inserting[UserOf[r]] /\ s \in inserting[UserOf[s]]
    BY DEF IInv, RequestOK
  <2>4. UserOf[r] \in Users /\ UserOf[s] \in Users /\ NameOf[UserOf[r]] = NameOf[UserOf[s]]
    BY <2>1, <2>2, Constants DEF Name
  <2>5. UserOf[r] = UserOf[s]
    BY <2>3, <2>4 DEF IInv, UniqueNames
  <2> QED
    BY <2>3, <2>4, <2>5 DEF IInv, TypeOK
<1> QED
  BY Invariance, <1>1, PTL

\* A refused user is never served, by any process.
THEOREM RefusalsAreFinal == Spec => []RefusalIsFinal
<1>1. IInv => RefusalIsFinal
  <2> SUFFICES ASSUME IInv, NEW r \in Requests, pc[r] = "refused", UserOf[r] \in Trusted
               PROVE  FALSE
    BY DEF RefusalIsFinal
  <2>1. UserOf[r] \in Users /\ registered[UserOf[r]] = NameOf[UserOf[r]]
        /\ NameOf[UserOf[r]] # None
    BY TrustIsEarned
  <2>2. NameTaken(UserOf[r])
    BY <2>1 DEF IInv, RequestOK, Name
  <2> QED
    BY <2>1, <2>2 DEF NameTaken, IInv, UniqueNames
<1> QED
  BY Invariance, <1>1, PTL

================================================================================
