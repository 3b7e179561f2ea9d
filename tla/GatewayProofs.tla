---------------------------- MODULE GatewayProofs ----------------------------
(* The limit and the cache of Gateway, for any callers, tenants, keys, limit and window. *)
EXTENDS Gateway, FiniteSetTheorems, TLAPS

USE CacheAssumption, GatewayAssumption

Gate == [pc : {"none", "ping", "pipeline", "undo", "granted"}, id : 0..MaxAsks, by : Tenants,
         age : 0..MaxDelay]
Member == [id : 1..MaxAsks, age : 0..Window + MaxDelay, by : Tenants]
Granted == [id : 1..MaxAsks, age : 0..(Window - 1), by : Tenants, via : Stores]
Bucket == [tokens : 0..Limit * Window, idle : 0..Window]

\* The limiter's part of the types, and the sets that are counted are finite.
LimiterTypeOK ==
    /\ gate \in [Callers -> Gate] /\ bucket \in [Tenants -> Bucket]
    /\ members \subseteq Member /\ IsFiniteSet(members)
    /\ granted \subseteq Granted /\ IsFiniteSet(granted)
    /\ keyAge \in [Tenants -> 0..Window]
    /\ asks \in 0..MaxAsks /\ restarts \in Nat

\* A request without a verdict has a number of its own, which nothing granted bears:
\* what its undo takes back is no other request's place in the window.
Undecided(x) == x.pc \in {"ping", "pipeline", "undo"}
RequestsApart ==
    /\ \A g \in granted : g.id <= asks
    /\ \A c \in Callers : Undecided(gate[c]) =>
          /\ gate[c].id \in 1..asks
          /\ \A g \in granted : g.id # gate[c].id
          /\ \A d \in Callers : Undecided(gate[d]) /\ gate[d].id = gate[c].id => d = c

\* What Redis granted is still counted by Redis, under a key that outlives it.
MemberOf(g) == [id |-> g.id, age |-> g.age, by |-> g.by]
GrantsAreMembers ==
    \A g \in granted : g.via = "redis" => MemberOf(g) \in members /\ g.age >= keyAge[g.by]

\* A bucket has paid for every grant: those of the last ticks and the tokens left come
\* to no more than a full bucket for each start and what these ticks refilled.
Recent(t, a) == {g \in granted : g.by = t /\ g.via = "memory" /\ g.age <= a}
BucketPays ==
    \A t \in Tenants, a \in 0..(Window - 1) :
        Window * Cardinality(Recent(t, a)) + Tokens(t)
            <= (1 + restarts) * (Limit * Window) + a * Limit

Inv == LimiterTypeOK /\ RequestsApart /\ GrantsAreMembers /\ RedisKeepsLimit /\ BucketPays

(***************************************************************************)
(* Buckets.                                                                *)
(***************************************************************************)
LEMMA Products ==
    /\ \A m, n \in Nat : m * n \in Nat
    /\ \A n \in Nat : Window * (n + 1) = Window * n + Window /\ (n + 1) * Limit = n * Limit + Limit
OBVIOUS

\* A bucket holds no more than a full one.
LEMMA TokensType == ASSUME NEW t \in Tenants, bucket[t] \in Bucket
                    PROVE  Tokens(t) \in 0..Limit * Window
<1>1. /\ bucket[t].tokens \in Nat /\ bucket[t].idle \in Nat /\ Limit \in Nat
      /\ Limit * Window \in Nat
  BY Products DEF Bucket
<1>2. bucket[t].idle * Limit \in Nat
  BY <1>1, Products
<1> HIDE CacheAssumption, GatewayAssumption
<1> QED BY <1>1, <1>2 DEF Tokens

\* The bucket is as consume() left it.
LEMMA TokensRefilled ==
    ASSUME NEW t \in Tenants, NEW n \in 0..Limit * Window, bucket \in [Tenants -> Bucket],
           bucket' = Refilled(t, n)
    PROVE  /\ bucket' \in [Tenants -> Bucket] /\ Tokens(t)' = n
           /\ \A u \in Tenants \ {t} : Tokens(u)' = Tokens(u)
<1>1. bucket' = [bucket EXCEPT ![t] = [tokens |-> n, idle |-> 0]]
  BY DEF Refilled
<1>2. [tokens |-> n, idle |-> 0] \in Bucket
  BY DEF Bucket
<1>3. bucket' \in [Tenants -> Bucket]
  BY <1>1, <1>2
<1>4. bucket'[t].tokens = n /\ bucket'[t].idle = 0 /\ \A u \in Tenants \ {t} : bucket'[u] = bucket[u]
  BY <1>1
<1>5. Limit * Window \in Nat /\ 0 * Limit = 0
  BY Products
<1> HIDE CacheAssumption, GatewayAssumption
<1>6. Tokens(t)' = n
  BY <1>4, <1>5 DEF Tokens
<1>7. ASSUME NEW u \in Tenants \ {t} PROVE Tokens(u)' = Tokens(u)
  BY <1>4 DEF Tokens
<1> QED BY <1>3, <1>6, <1>7

(***************************************************************************)
(* Counting grants.                                                        *)
(***************************************************************************)
LEMMA AddsAtMostOne ==
    ASSUME NEW S, NEW T, NEW x, IsFiniteSet(S), T \in {S, S \cup {x}}
    PROVE  Cardinality(T) <= Cardinality(S) + 1 /\ Cardinality(T) \in Nat
<1>1. Cardinality(S) \in Nat
  BY FS_CardinalityType
<1>2. Cardinality(S \cup {x}) \in {Cardinality(S), Cardinality(S) + 1}
  BY FS_AddElement
<1>3. CASE T = S
  BY <1>1, <1>3
<1>4. CASE T = S \cup {x}
  BY <1>1, <1>2, <1>4
<1> QED BY <1>3, <1>4

\* One more grant counts for its tenant and its backend only.
LEMMA OneMoreGrant ==
    ASSUME LimiterTypeOK, NEW r \in Granted, granted' = granted \cup {r},
           NEW t \in Tenants, NEW a \in 0..(Window - 1)
    PROVE  /\ Cardinality(Recent(t, a)') <= Cardinality(Recent(t, a)) + 1
           /\ r.by # t \/ r.via # "memory" => Recent(t, a)' = Recent(t, a)
           /\ r.by # t \/ r.via # "redis" => By(t, "redis")' = By(t, "redis")
           /\ Cardinality(Recent(t, a)) \in Nat /\ Cardinality(Recent(t, a)') \in Nat
<1>1. IsFiniteSet(Recent(t, a)) /\ Cardinality(Recent(t, a)) \in Nat
  BY FS_Subset, FS_CardinalityType DEF LimiterTypeOK, Recent
<1>2. r.by # t \/ r.via # "memory" => Recent(t, a)' = Recent(t, a)
  BY DEF Recent
<1>3. Recent(t, a)' \in {Recent(t, a), Recent(t, a) \cup {r}}
  BY DEF Recent
<1>4. /\ Cardinality(Recent(t, a)') <= Cardinality(Recent(t, a)) + 1
      /\ Cardinality(Recent(t, a)') \in Nat
  BY <1>1, <1>3, AddsAtMostOne, Zenon
<1>5. r.by # t \/ r.via # "redis" => By(t, "redis")' = By(t, "redis")
  BY DEF By
<1> QED BY <1>1, <1>2, <1>4, <1>5

\* Grants that are members number no more than the members of their tenant.
LEMMA CountedByRedis ==
    ASSUME NEW t \in Tenants, NEW G, NEW M, G \subseteq Granted, IsFiniteSet(M),
           \A g \in G : g.by = t /\ g.via = "redis" /\ MemberOf(g) \in M
    PROVE  Cardinality(G) <= Count(M, t)
<1> DEFINE T == {m \in M : m.by = t}
           f == [g \in G |-> MemberOf(g)]
<1>1. IsFiniteSet(T)
  BY FS_Subset
<1>2. \A g \in G : MemberOf(g) \in T
  BY DEF MemberOf
<1>3. f \in [G -> T]
  BY <1>2
<1>4. ASSUME NEW g \in G, NEW h \in G, f[g] = f[h] PROVE g = h
  <2>1. MemberOf(g) = MemberOf(h)
    BY <1>4
  <2>2. g.id = h.id /\ g.age = h.age /\ g.by = h.by
    BY <2>1 DEF MemberOf
  <2> QED BY <2>2 DEF Granted
<1>5. f \in Injection(G, T)
  BY <1>3, <1>4 DEF Injection, IsInjective
<1> HIDE DEF f, T
<1>6. Cardinality(G) <= Cardinality(T)
  BY <1>1, <1>5, FS_Injection
<1> QED BY <1>6 DEF T, Count

(***************************************************************************)
(* What the steps have in common.                                          *)
(***************************************************************************)
\* Request g is c's and has no verdict.
Entering(c, g) ==
    /\ g \in Gate /\ g.id \in 1..asks'
    /\ asks' \in 0..MaxAsks /\ asks <= asks'
    /\ \A h \in granted : h.id # g.id
    /\ \A d \in Callers \ {c} : Undecided(gate[d]) => gate[d].id # g.id

\* The step leaves the members of granted requests in the window.
MembersHold ==
    /\ members' \subseteq Member /\ IsFiniteSet(members')
    /\ keyAge' \in [Tenants -> 0..Window]
    /\ \A g \in granted : g.via = "redis" => MemberOf(g) \in members' /\ g.age >= keyAge'[g.by]

LEMMA GateMoves ==
    ASSUME NEW g \in Gate, NEW stage \in {"ping", "pipeline", "undo", "granted"}
    PROVE  /\ [g EXCEPT !.pc = stage, !.age = 0] \in Gate
           /\ [g EXCEPT !.pc = stage, !.age = 0].id = g.id
           /\ [g EXCEPT !.pc = stage, !.age = 0].pc = stage
<1>1. 0 \in 0..MaxDelay
  OBVIOUS
<1> HIDE CacheAssumption, GatewayAssumption
<1> QED BY <1>1 DEF Gate

LEMMA EnteringAgain ==
    ASSUME Inv, NEW c \in Callers, Undecided(gate[c]), UNCHANGED asks
    PROVE  Entering(c, gate[c])
<1>1. gate[c] \in Gate /\ asks \in 0..MaxAsks
  BY DEF Inv, LimiterTypeOK
<1> QED BY <1>1 DEF Inv, RequestsApart, Entering

\* At most one caller takes up a number, and only a number without a verdict is granted.
LEMMA ApartKeeps ==
    ASSUME LimiterTypeOK, RequestsApart,
           gate' \in [Callers -> Gate], asks' \in 0..MaxAsks, asks <= asks', NEW c,
           \A d \in Callers \ {c} : gate'[d] = gate[d] \/ ~Undecided(gate'[d]),
           c \in Callers /\ Undecided(gate'[c]) => Entering(c, gate'[c]),
           granted' \subseteq Granted,
           \A h \in granted' :
              \/ \E k \in granted : k.id = h.id
              \/ h.id <= asks' /\ \A d \in Callers : Undecided(gate'[d]) => gate'[d].id # h.id
    PROVE  RequestsApart'
<1>1. asks \in Nat /\ asks' \in Nat /\ \A d \in Callers : gate[d].id \in Nat /\ gate'[d].id \in Nat
  BY DEF LimiterTypeOK, Gate
<1>2. \A h \in granted \cup granted' : h.id \in Nat
  BY DEF LimiterTypeOK, Granted
<1>3. \A g \in granted' : g.id <= asks'
  BY <1>1, <1>2 DEF RequestsApart
<1>4. ASSUME NEW d \in Callers, Undecided(gate'[d])
      PROVE  /\ gate'[d].id \in 1..asks'
             /\ \A k \in granted : k.id # gate'[d].id
             /\ gate'[d] = gate[d] \/ d = c
  BY <1>1, <1>4 DEF RequestsApart, Entering
<1>5. ASSUME NEW d \in Callers, Undecided(gate'[d]), NEW g \in granted'
      PROVE  g.id # gate'[d].id
  BY <1>4, <1>5
<1>6. ASSUME NEW d \in Callers, Undecided(gate'[d]), NEW e \in Callers, Undecided(gate'[e]),
             gate'[d].id = gate'[e].id
      PROVE  d = e
  <2>1. CASE d # c /\ e # c
    BY <1>4, <1>6, <2>1 DEF RequestsApart
  <2>2. CASE d = c /\ e # c
    BY <1>4, <1>6, <2>2 DEF Entering
  <2>3. CASE d # c /\ e = c
    BY <1>4, <1>6, <2>3 DEF Entering
  <2> QED BY <2>1, <2>2, <2>3
<1> QED BY <1>3, <1>4, <1>5, <1>6 DEF RequestsApart

\* A step that grants nothing and takes no token.
LEMMA NothingGranted ==
    ASSUME Inv, gate' \in [Callers -> Gate], asks' \in 0..MaxAsks, asks <= asks', NEW c,
           \A d \in Callers \ {c} : gate'[d] = gate[d] \/ ~Undecided(gate'[d]),
           c \in Callers /\ Undecided(gate'[c]) => Entering(c, gate'[c]),
           bucket' \in [Tenants -> Bucket], \A t \in Tenants : Tokens(t)' = Tokens(t),
           MembersHold, UNCHANGED <<granted, restarts>>
    PROVE  Inv'
<1>1. LimiterTypeOK'
  BY DEF Inv, LimiterTypeOK, MembersHold
<1>2. RequestsApart'
  BY ApartKeeps DEF Inv, LimiterTypeOK
<1>3. GrantsAreMembers'
  BY DEF Inv, MembersHold, GrantsAreMembers
<1>4. RedisKeepsLimit'
  BY DEF Inv, RedisKeepsLimit, By
<1>5. \A t \in Tenants, a \in 0..(Window - 1) : Recent(t, a)' = Recent(t, a)
  BY DEF Recent
<1>6. BucketPays'
  BY <1>5 DEF Inv, BucketPays
<1> QED BY <1>1, <1>2, <1>3, <1>4, <1>6 DEF Inv

LEMMA AwaitKeeps ==
    ASSUME Inv, NEW c \in Callers, NEW g, Entering(c, g), NEW stage \in {"ping", "pipeline", "undo"},
           Await(c, g, stage), MembersHold, UNCHANGED <<bucket, restarts>>
    PROVE  Inv'
<1> DEFINE x == [g EXCEPT !.pc = stage, !.age = 0]
<1>1. x \in Gate /\ x.id = g.id
  <2>1. g \in Gate
    BY DEF Entering
  <2> QED BY <2>1, GateMoves
<1>2. gate' = [gate EXCEPT ![c] = x] /\ granted' = granted
  BY DEF Await
<1>3. gate \in [Callers -> Gate] /\ bucket \in [Tenants -> Bucket]
  BY DEF Inv, LimiterTypeOK
<1>4. Entering(c, x)
  BY <1>1 DEF Entering
<1> HIDE DEF x
<1>5. gate' \in [Callers -> Gate] /\ gate'[c] = x /\ \A d \in Callers \ {c} : gate'[d] = gate[d]
  BY <1>1, <1>2, <1>3
<1>6. \A t \in Tenants : Tokens(t)' = Tokens(t)
  BY DEF Tokens
<1>7. asks' \in 0..MaxAsks /\ asks <= asks'
  BY DEF Entering
<1> QED BY <1>2, <1>3, <1>4, <1>5, <1>6, <1>7, NothingGranted

LEMMA NoGateType == NoGate \in Gate /\ ~Undecided(NoGate)
BY DEF NoGate, Gate, Undecided

LEMMA RefuseKeeps ==
    ASSUME Inv, NEW c \in Callers, Refuse(c), asks' \in 0..MaxAsks, asks <= asks',
           bucket' \in [Tenants -> Bucket], \A t \in Tenants : Tokens(t)' = Tokens(t),
           MembersHold, UNCHANGED restarts
    PROVE  Inv'
<1>1. gate' = [gate EXCEPT ![c] = NoGate] /\ granted' = granted
  BY DEF Refuse
<1>2. gate \in [Callers -> Gate]
  BY DEF Inv, LimiterTypeOK
<1>3. gate' \in [Callers -> Gate] /\ gate'[c] = NoGate /\ \A d \in Callers \ {c} : gate'[d] = gate[d]
  BY <1>1, <1>2, NoGateType
<1> QED BY <1>1, <1>3, NoGateType, NothingGranted

\* A grant is the request's, and nobody else has its number.
LEMMA GrantIsApart ==
    ASSUME Inv, NEW c \in Callers, NEW g, Entering(c, g), NEW via \in Stores,
           NEW age \in 0..(Window - 1), Grant(c, g, via, age),
           NEW r, r = [id |-> g.id, age |-> age, by |-> g.by, via |-> via]
    PROVE  /\ r \in Granted /\ granted' = granted \cup {r}
           /\ IsFiniteSet(granted') /\ granted' \subseteq Granted
           /\ gate' \in [Callers -> Gate] /\ asks' \in 0..MaxAsks /\ RequestsApart'
<1> DEFINE x == [g EXCEPT !.pc = "granted", !.age = 0]
<1>1. x \in Gate /\ ~Undecided(x)
  <2>1. g \in Gate
    BY DEF Entering
  <2> QED BY <2>1, GateMoves DEF Undecided
<1>2. gate' = [gate EXCEPT ![c] = x] /\ granted' = granted \cup {r}
  <2>1. Recently({r}) = {r}
    BY DEF Recently
  <2> QED BY <2>1 DEF Grant
<1>3. asks' \in 0..MaxAsks /\ asks <= asks' /\ g.id \in 1..asks' /\ g.by \in Tenants
  BY DEF Entering, Gate
<1>4. g.id \in 1..MaxAsks /\ g.id <= asks'
  BY <1>3
<1>5. r \in Granted /\ r.id = g.id
  BY <1>3, <1>4 DEF Granted
<1>6. IsFiniteSet(granted') /\ granted' \subseteq Granted
  BY <1>2, <1>5, FS_AddElement DEF Inv, LimiterTypeOK
<1> HIDE DEF x
<1>7. /\ gate \in [Callers -> Gate] /\ gate' \in [Callers -> Gate] /\ gate'[c] = x
      /\ \A d \in Callers \ {c} : gate'[d] = gate[d]
  BY <1>1, <1>2 DEF Inv, LimiterTypeOK
<1>8. \A d \in Callers : Undecided(gate'[d]) => gate'[d].id # r.id
  BY <1>1, <1>5, <1>7 DEF Entering
<1>9. \A h \in granted' :
         \/ \E k \in granted : k.id = h.id
         \/ h.id <= asks' /\ \A d \in Callers : Undecided(gate'[d]) => gate'[d].id # h.id
  BY <1>2, <1>4, <1>5, <1>8
<1>10. RequestsApart'
  BY <1>1, <1>3, <1>6, <1>7, <1>9, ApartKeeps DEF Inv
<1> QED BY <1>2, <1>3, <1>5, <1>6, <1>7, <1>10

\* The bucket decides: a grant takes the tokens it costs.
LEMMA InProcessKeeps ==
    ASSUME Inv, NEW c \in Callers, NEW g, Entering(c, g), InProcess(c, g), MembersHold,
           UNCHANGED restarts
    PROVE  Inv'
<1>1. /\ bucket \in [Tenants -> Bucket] /\ g.by \in Tenants
      /\ asks' \in 0..MaxAsks /\ asks <= asks'
  BY DEF Inv, LimiterTypeOK, Entering, Gate
<1>2. \A t \in Tenants : Tokens(t) \in 0..Limit * Window
  BY <1>1, TokensType
<1>3. Window \in Nat /\ Window > 0 /\ Limit * Window \in Nat
  BY Products
<1>4. CASE Tokens(g.by) < Window /\ bucket' = Refilled(g.by, Tokens(g.by)) /\ Refuse(c)
  <2>1. bucket' \in [Tenants -> Bucket] /\ \A t \in Tenants : Tokens(t)' = Tokens(t)
    BY <1>1, <1>2, <1>4, TokensRefilled
  <2> QED BY <1>1, <1>4, <2>1, RefuseKeeps
<1>5. CASE /\ Tokens(g.by) >= Window /\ bucket' = Refilled(g.by, Tokens(g.by) - Window)
           /\ Grant(c, g, "memory", 0)
  <2> DEFINE r == [id |-> g.id, age |-> 0, by |-> g.by, via |-> "memory"]
             n == Tokens(g.by) - Window
  <2>1. /\ r \in Granted /\ granted' = granted \cup {r}
        /\ IsFiniteSet(granted') /\ granted' \subseteq Granted
        /\ gate' \in [Callers -> Gate] /\ RequestsApart'
    BY <1>5, GrantIsApart DEF Stores
  <2>2. n \in 0..Limit * Window
    BY <1>1, <1>2, <1>3, <1>5
  <2>3. r.by = g.by /\ r.via = "memory"
    OBVIOUS
  <2> HIDE DEF r
  <2>4. /\ bucket' \in [Tenants -> Bucket] /\ Tokens(g.by)' = n
        /\ \A u \in Tenants \ {g.by} : Tokens(u)' = Tokens(u)
    BY <1>1, <1>5, <2>2, TokensRefilled
  <2>5. LimiterTypeOK'
    BY <1>1, <2>1, <2>4 DEF Inv, LimiterTypeOK, MembersHold
  <2>6. GrantsAreMembers'
    BY <2>1, <2>3 DEF MembersHold, GrantsAreMembers
  <2>7. RedisKeepsLimit'
    <3>1. \A t \in Tenants : By(t, "redis")' = By(t, "redis")
      BY <2>1, <2>3 DEF By
    <3> QED BY <3>1 DEF Inv, RedisKeepsLimit
  <2>8. ASSUME NEW t \in Tenants, NEW a \in 0..(Window - 1)
        PROVE  Window * Cardinality(Recent(t, a))' + Tokens(t)'
                  <= Window * Cardinality(Recent(t, a)) + Tokens(t)
    <3> DEFINE m == Cardinality(Recent(t, a))
               k == Cardinality(Recent(t, a)')
    <3>1. m \in Nat /\ k \in Nat /\ k <= m + 1 /\ (r.by # t => k = m)
      BY <2>1, OneMoreGrant DEF Inv
    <3> HIDE DEF m, k
    <3>2. CASE t = g.by
      <4>1. Window * k <= Window * (m + 1) /\ Window * (m + 1) = Window * m + Window
        BY <1>3, <3>1
      <4>2. Window * k \in Nat /\ Window * m \in Nat
        BY <1>3, <3>1, Products
      <4>3. Window * k + n <= Window * m + Tokens(t)
        BY <1>2, <1>3, <3>2, <4>1, <4>2
      <4> QED BY <2>4, <3>2, <4>3 DEF k, m
    <3>3. CASE t # g.by
      BY <1>2, <1>3, <2>3, <2>4, <3>1, <3>3 DEF k, m
    <3> QED BY <3>2, <3>3
  <2>9. BucketPays'
    <3> SUFFICES ASSUME NEW t \in Tenants, NEW a \in 0..(Window - 1)
                 PROVE  Window * Cardinality(Recent(t, a))' + Tokens(t)'
                           <= (1 + restarts) * (Limit * Window) + a * Limit
      BY DEF BucketPays
    <3> DEFINE m == Window * Cardinality(Recent(t, a)) + Tokens(t)
               k == Window * Cardinality(Recent(t, a))' + Tokens(t)'
               b == (1 + restarts) * (Limit * Window) + a * Limit
    <3>1. k <= m /\ m <= b
      BY <2>8 DEF Inv, BucketPays
    <3>2. k \in Nat /\ m \in Nat /\ b \in Nat
      <4>1. Cardinality(Recent(t, a)) \in Nat /\ Cardinality(Recent(t, a)') \in Nat
        BY <2>1, OneMoreGrant DEF Inv
      <4>2. Tokens(t) \in Nat /\ Tokens(t)' \in Nat
        BY <1>1, <1>2, <1>3, <2>2, <2>4
      <4>3. restarts \in Nat /\ Limit \in Nat /\ a \in Nat /\ 1 + restarts \in Nat
        BY DEF Inv, LimiterTypeOK
      <4>4. Window * Cardinality(Recent(t, a)) \in Nat /\ Window * Cardinality(Recent(t, a)') \in Nat
        BY <1>3, <4>1, Products
      <4>5. (1 + restarts) * (Limit * Window) \in Nat /\ a * Limit \in Nat
        BY <1>3, <4>3, Products
      <4> QED BY <4>2, <4>4, <4>5
    <3> HIDE DEF k, m, b
    <3>3. k <= b
      BY <3>1, <3>2
    <3> QED BY <3>3 DEF k, b
  <2> QED BY <2>1, <2>5, <2>6, <2>7, <2>9 DEF Inv
<1> QED BY <1>4, <1>5 DEF InProcess

(***************************************************************************)
(* The steps.                                                              *)
(***************************************************************************)
LEMMA MembersStay == ASSUME Inv, UNCHANGED <<members, keyAge>> PROVE MembersHold
BY DEF Inv, LimiterTypeOK, GrantsAreMembers, MembersHold

\* The pipeline counts the request in and keeps every grant.
LEMMA EnteredHolds ==
    ASSUME Inv, NEW g \in Gate, g.id # 0, Enter(g)
    PROVE  /\ MembersHold /\ keyAge'[g.by] = 0
           /\ [id |-> g.id, age |-> g.age, by |-> g.by] \in members'
<1> DEFINE old == {m \in members : m.age < Window + g.age \/ m.by # g.by}
           new == [id |-> g.id, age |-> g.age, by |-> g.by]
<1>1. members' = old \cup {new} /\ keyAge' = [keyAge EXCEPT ![g.by] = 0]
  BY DEF Enter, Entered
<1>2. g.id \in 1..MaxAsks /\ g.by \in Tenants /\ g.age \in 0..MaxDelay
  BY DEF Gate
<1>3. new \in Member
  BY <1>2 DEF Member
<1>4. old \subseteq members /\ members \subseteq Member /\ IsFiniteSet(members)
  BY DEF Inv, LimiterTypeOK
<1>5. ASSUME NEW h \in granted, h.via = "redis" PROVE MemberOf(h) \in old
  <2>1. MemberOf(h) \in members
    BY <1>5 DEF Inv, GrantsAreMembers
  <2>2. MemberOf(h).age = h.age /\ h.age < Window + g.age
    BY <1>2 DEF MemberOf, Inv, LimiterTypeOK, Granted
  <2> QED BY <2>1, <2>2
<1>7. /\ keyAge' \in [Tenants -> 0..Window] /\ keyAge'[g.by] = 0
      /\ \A t \in Tenants \ {g.by} : keyAge'[t] = keyAge[t]
  BY <1>1, <1>2 DEF Inv, LimiterTypeOK
<1>8. ASSUME NEW h \in granted, h.via = "redis" PROVE h.age >= keyAge'[h.by]
  <2>1. h.age \in Nat /\ h.by \in Tenants /\ h.age >= keyAge[h.by]
    BY <1>8 DEF Inv, LimiterTypeOK, GrantsAreMembers, Granted
  <2> QED BY <1>7, <2>1
<1> HIDE DEF old, new
<1>6. IsFiniteSet(members')
  BY <1>1, <1>4, FS_Subset, FS_AddElement
<1> QED BY <1>1, <1>3, <1>4, <1>5, <1>6, <1>7, <1>8 DEF MembersHold, new

LEMMA AskKeeps ==
    ASSUME Inv, NEW c \in Callers, NEW t \in Tenants, AskQuery(c, t)
    PROVE  Inv'
<1> DEFINE g == [pc |-> "none", id |-> asks + 1, by |-> t, age |-> 0]
<1>1. asks \in 0..MaxAsks /\ asks' = asks + 1 /\ asks' \in 0..MaxAsks /\ asks <= asks'
  BY DEF Inv, LimiterTypeOK, AskQuery
<1>2. g \in Gate /\ g.id = asks + 1
  BY <1>1 DEF Gate
<1>3. \A h \in granted : h.id \in Nat /\ h.id <= asks
  BY DEF Inv, LimiterTypeOK, RequestsApart, Granted
<1>4. \A d \in Callers : Undecided(gate[d]) => gate[d].id \in 1..asks
  BY DEF Inv, RequestsApart
<1>5. Entering(c, g)
  <2>1. asks + 1 \in 1..asks' /\ \A i \in 1..asks : i # asks + 1
    BY <1>1
  <2> QED BY <1>1, <1>2, <1>3, <1>4, <2>1 DEF Entering
<1>6. UNCHANGED <<members, keyAge, restarts>> /\ MembersHold
  BY MembersStay DEF AskQuery, cacheButLink
<1>7. \/ Await(c, g, "pipeline") /\ UNCHANGED bucket
      \/ Await(c, g, "ping") /\ UNCHANGED bucket
      \/ InProcess(c, g)
  BY DEF AskQuery
<1> HIDE DEF g
<1> QED BY <1>5, <1>6, <1>7, AwaitKeeps, InProcessKeeps

LEMMA PingKeeps == ASSUME Inv, NEW c \in Callers, GatePing(c) PROVE Inv'
<1>1. /\ Undecided(gate[c]) /\ UNCHANGED <<members, keyAge, asks, restarts>>
      /\ (Await(c, gate[c], "pipeline") /\ UNCHANGED bucket) \/ InProcess(c, gate[c])
  BY DEF GatePing, Undecided, cacheButLink
<1>2. Entering(c, gate[c]) /\ MembersHold
  BY <1>1, EnteringAgain, MembersStay
<1> QED BY <1>1, <1>2, AwaitKeeps, InProcessKeeps

LEMMA FailedKeeps == ASSUME Inv, NEW c \in Callers, PipelineFails(c) PROVE Inv'
<1>1. /\ Undecided(gate[c]) /\ UNCHANGED <<asks, restarts>> /\ InProcess(c, gate[c])
      /\ Enter(gate[c]) \/ UNCHANGED <<members, keyAge>>
  BY DEF PipelineFails, Undecided, cacheVars
<1>2. Entering(c, gate[c])
  BY <1>1, EnteringAgain
<1>3. gate[c] \in Gate /\ gate[c].id # 0
  BY <1>2 DEF Entering
<1>4. MembersHold
  BY <1>1, <1>3, MembersStay, EnteredHolds
<1> QED BY <1>1, <1>2, <1>4, InProcessKeeps

LEMMA UndoKeeps == ASSUME Inv, NEW c \in Callers, Undo(c) PROVE Inv'
<1>1. /\ Undecided(gate[c]) /\ UNCHANGED <<keyAge, asks, bucket, restarts>> /\ Refuse(c)
      /\ members' \in {members, {m \in members : m.id # gate[c].id}}
  BY DEF Undo, Undecided, cacheVars
<1>2. \A g \in granted : MemberOf(g).id # gate[c].id
  BY <1>1 DEF Inv, RequestsApart, MemberOf
<1>3. members' \subseteq members
  BY <1>1
<1>4. members' \subseteq Member /\ IsFiniteSet(members')
  BY <1>3, FS_Subset DEF Inv, LimiterTypeOK
<1>5. MembersHold
  BY <1>1, <1>2, <1>4 DEF Inv, LimiterTypeOK, GrantsAreMembers, MembersHold
<1>6. bucket' \in [Tenants -> Bucket] /\ asks' \in 0..MaxAsks /\ asks <= asks'
  BY <1>1 DEF Inv, LimiterTypeOK
<1>7. \A t \in Tenants : Tokens(t)' = Tokens(t)
  BY <1>1 DEF Tokens
<1> QED BY <1>1, <1>5, <1>6, <1>7, RefuseKeeps

LEMMA PipelineKeeps == ASSUME Inv, NEW c \in Callers, Pipeline(c) PROVE Inv'
<1> DEFINE g == gate[c]
           r == [id |-> g.id, age |-> g.age, by |-> g.by, via |-> "redis"]
<1>1. /\ Undecided(g) /\ UNCHANGED <<asks, bucket, restarts>>
      /\ Enter(g) /\ members' = Entered(g)
      /\ \/ Await(c, g, "undo")
         \/ ~Exceeds(Count(Entered(g), g.by)) /\ Grant(c, g, "redis", g.age)
  BY DEF Pipeline, Enter, Undecided, cacheVars
<1>2. Entering(c, g)
  BY <1>1, EnteringAgain
<1>3. g \in Gate /\ g.id # 0 /\ g.by \in Tenants /\ g.age \in 0..MaxDelay
  BY <1>2 DEF Entering, Gate
<1>4. /\ MembersHold /\ keyAge'[g.by] = 0
      /\ [id |-> g.id, age |-> g.age, by |-> g.by] \in members'
  BY <1>1, <1>3, EnteredHolds
<1>5. /\ r.id = g.id /\ r.by = g.by /\ r.via = "redis" /\ MemberOf(r) \in members'
      /\ r.age = g.age /\ r.age >= keyAge'[r.by]
  BY <1>3, <1>4 DEF MemberOf
<1>6. CASE Await(c, g, "undo")
  BY <1>1, <1>2, <1>4, <1>6, AwaitKeeps
<1>7. CASE Grant(c, g, "redis", g.age) /\ ~(g.age < Window)
  <2> DEFINE x == [g EXCEPT !.pc = "granted", !.age = 0]
  <2>1. x \in Gate /\ ~Undecided(x)
    <3> HIDE DEF g
    <3> QED BY <1>3, GateMoves DEF Undecided
  <2>2. gate' = [gate EXCEPT ![c] = x] /\ granted' = granted
    <3>1. Recently({r}) = {}
      BY <1>5, <1>7 DEF Recently
    <3> QED BY <1>7, <3>1 DEF Grant
  <2> HIDE DEF x, g, r
  <2>3. gate' \in [Callers -> Gate] /\ gate'[c] = x /\ \A d \in Callers \ {c} : gate'[d] = gate[d]
    BY <2>1, <2>2 DEF Inv, LimiterTypeOK
  <2>4. /\ bucket' \in [Tenants -> Bucket] /\ asks' \in 0..MaxAsks /\ asks <= asks'
        /\ \A t \in Tenants : Tokens(t)' = Tokens(t)
    BY <1>1 DEF Inv, LimiterTypeOK, Tokens
  <2> QED BY <1>1, <1>4, <2>1, <2>2, <2>3, <2>4, NothingGranted
<1>8. CASE /\ ~Exceeds(Count(Entered(g), g.by)) /\ Grant(c, g, "redis", g.age)
           /\ g.age < Window
  <2>1. /\ r \in Granted /\ granted' = granted \cup {r}
        /\ IsFiniteSet(granted') /\ granted' \subseteq Granted
        /\ gate' \in [Callers -> Gate] /\ asks' \in 0..MaxAsks /\ RequestsApart'
    <3>1. g.age \in 0..(Window - 1)
      BY <1>3, <1>8
    <3> QED BY <1>2, <1>8, <3>1, GrantIsApart DEF Stores
  <2> HIDE DEF g, r
  <2>2. LimiterTypeOK'
    BY <1>1, <1>4, <2>1 DEF Inv, LimiterTypeOK, MembersHold
  <2>3. GrantsAreMembers'
    BY <1>4, <1>5, <2>1 DEF MembersHold, GrantsAreMembers
  <2>4. \A t \in Tenants, a \in 0..(Window - 1) : Recent(t, a)' = Recent(t, a)
    BY <1>5, <2>1 DEF Recent
  <2>5. BucketPays'
    BY <1>1, <2>4 DEF Inv, BucketPays, Tokens
  <2>6. \A t \in Tenants \ {g.by} : By(t, "redis")' = By(t, "redis")
    BY <1>5, <2>1 DEF By
  <2>7. ASSUME NEW t \in Tenants, t = g.by PROVE Cardinality(By(t, "redis")') <= Limit
    <3> DEFINE G == By(t, "redis")'
    <3>1. G \subseteq Granted /\ \A h \in G : h.by = t /\ h.via = "redis" /\ h \in granted'
      BY <1>1, <2>1 DEF By
    <3>2. \A h \in G : MemberOf(h) \in members'
      BY <2>3, <3>1 DEF GrantsAreMembers
    <3>3. IsFiniteSet(members')
      BY <1>4 DEF MembersHold
    <3> HIDE DEF G
    <3>4. Cardinality(G) <= Count(members', t)
      BY <3>1, <3>2, <3>3, CountedByRedis
    <3>5. Cardinality(G) \in Nat /\ Count(members', t) \in Nat /\ Limit \in Nat
      <4>1. IsFiniteSet(G)
        BY <2>1, <3>1, FS_Subset
      <4>2. IsFiniteSet({m \in members' : m.by = t})
        BY <3>3, FS_Subset
      <4> QED BY <4>1, <4>2, FS_CardinalityType DEF Count
    <3>6. Count(members', t) <= Limit
      BY <1>1, <1>8, <2>7, <3>5 DEF Exceeds
    <3>7. Cardinality(G) <= Limit
      BY <3>4, <3>5, <3>6
    <3> QED BY <3>7 DEF G
  <2>8. RedisKeepsLimit'
    BY <1>1, <2>6, <2>7 DEF Inv, RedisKeepsLimit
  <2> QED BY <2>1, <2>2, <2>3, <2>5, <2>8 DEF Inv
<1> QED BY <1>1, <1>6, <1>7, <1>8

\* A request that was granted or given up leaves the limiter alone.
LEMMA LeaveKeeps ==
    ASSUME Inv, NEW c, gate' \in [Callers -> Gate],
           \A d \in Callers : gate'[d] = gate[d] \/ ~Undecided(gate'[d]),
           UNCHANGED <<members, keyAge, bucket, granted, asks, restarts>>
    PROVE  Inv'
<1>1. asks' \in 0..MaxAsks /\ asks <= asks' /\ bucket' \in [Tenants -> Bucket]
  BY DEF Inv, LimiterTypeOK
<1>2. \A t \in Tenants : Tokens(t)' = Tokens(t)
  BY DEF Tokens
<1>3. CASE \A d \in Callers : ~Undecided(gate'[d])
  BY <1>1, <1>2, <1>3, MembersStay, NothingGranted
<1>4. CASE \E d \in Callers : Undecided(gate'[d])
  <2>1. PICK d \in Callers : Undecided(gate'[d])
    BY <1>4
  <2>2. Entering(d, gate'[d])
    BY <2>1, EnteringAgain
  <2> QED BY <1>1, <1>2, <2>1, <2>2, MembersStay, NothingGranted
<1> QED BY <1>3, <1>4

(***************************************************************************)
(* Time and restarts.                                                      *)
(***************************************************************************)
LEMMA OlderIsFinite ==
    ASSUME NEW S, IsFiniteSet(S)
    PROVE  IsFiniteSet(Older(S)) /\ Cardinality(Older(S)) <= Cardinality(S)
<1> DEFINE f == [m \in S |-> [m EXCEPT !.age = m.age + 1]]
<1>1. f \in [S -> Older(S)] /\ \A o \in Older(S) : \E m \in S : f[m] = o
  BY DEF Older
<1>2. f \in Surjection(S, Older(S))
  BY <1>1 DEF Surjection
<1> HIDE DEF f
<1> QED BY <1>2, FS_Surjection

\* A tick refills Limit parts of a token, if there is room for them.
LEMMA TokensTick ==
    ASSUME NEW t \in Tenants, bucket \in [Tenants -> Bucket], Tick
    PROVE  /\ bucket' \in [Tenants -> Bucket]
           /\ Tokens(t)' \in 0..Limit * Window /\ Tokens(t)' <= Tokens(t) + Limit
<1> DEFINE i == bucket[t].idle
           j == bucket'[t].idle
<1>1. bucket' = [u \in Tenants |-> [bucket[u] EXCEPT !.idle = IF @ = Window THEN @ ELSE @ + 1]]
  BY DEF Tick
<1>2. \A u \in Tenants : bucket[u] \in Bucket
  OBVIOUS
<1>3. \A u \in Tenants : (IF bucket[u].idle = Window THEN bucket[u].idle ELSE bucket[u].idle + 1) \in 0..Window
  BY <1>2 DEF Bucket
<1>4. bucket' \in [Tenants -> Bucket]
  BY <1>1, <1>2, <1>3 DEF Bucket
<1>5. /\ i \in 0..Window /\ j = IF i = Window THEN i ELSE i + 1
      /\ bucket'[t].tokens = bucket[t].tokens /\ bucket[t].tokens \in Nat
  BY <1>1, <1>2 DEF Bucket
<1>6. bucket'[t] \in Bucket
  BY <1>4
<1>7. Tokens(t)' \in 0..Limit * Window
  <2>1. /\ bucket'[t].tokens \in Nat /\ bucket'[t].idle \in Nat /\ Limit \in Nat
        /\ Limit * Window \in Nat
    BY <1>6, Products DEF Bucket
  <2>2. bucket'[t].idle * Limit \in Nat
    BY <2>1, Products
  <2> HIDE CacheAssumption, GatewayAssumption DEF i, j
  <2> QED BY <2>1, <2>2 DEF Tokens
<1>8. i * Limit \in Nat /\ j \in Nat /\ (j * Limit = i * Limit \/ j * Limit = i * Limit + Limit)
  <2>1. i \in Nat /\ (j = i \/ j = i + 1)
    BY <1>5
  <2> HIDE DEF i, j
  <2>2. i * Limit \in Nat /\ (i + 1) * Limit = i * Limit + Limit
    BY <2>1, Products
  <2> QED BY <2>1, <2>2
<1>9. Limit \in Nat /\ Limit * Window \in Nat
  BY Products
<1>10. Tokens(t)' <= Tokens(t) + Limit
  <2> HIDE CacheAssumption, GatewayAssumption
  <2> QED BY <1>5, <1>8, <1>9 DEF Tokens
<1> QED BY <1>4, <1>7, <1>10

\* A tick is a tick for the pipelines under way, and moves no request.
LEMMA TickAgesGate ==
    ASSUME gate \in [Callers -> Gate], Tick
    PROVE  /\ gate' \in [Callers -> Gate]
           /\ \A d \in Callers : gate'[d].pc = gate[d].pc /\ gate'[d].id = gate[d].id
<1> DEFINE later(d) == IF UnderWay(gate[d]) THEN [gate[d] EXCEPT !.age = @ + 1] ELSE gate[d]
<1>1. gate' = [d \in Callers |-> later(d)] /\ \A d \in Callers : UnderWay(gate[d]) => gate[d].age < MaxDelay
  BY DEF Tick
<1>2. ASSUME NEW d \in Callers
      PROVE  later(d) \in Gate /\ later(d).pc = gate[d].pc /\ later(d).id = gate[d].id
  <2>1. gate[d] \in Gate
    OBVIOUS
  <2>2. CASE UnderWay(gate[d])
    <3>1. gate[d].age + 1 \in 0..MaxDelay
      BY <1>1, <2>1, <2>2 DEF Gate
    <3> QED BY <2>1, <2>2, <3>1 DEF Gate
  <2>3. CASE ~UnderWay(gate[d])
    BY <2>1, <2>3
  <2> QED BY <2>2, <2>3
<1> HIDE DEF later
<1> QED BY <1>1, <1>2

LEMMA TickKeeps == ASSUME Inv, Tick PROVE Inv'
<1> DEFINE kept == {g \in granted : g.age + 1 < Window}
           young == {m \in members : ~Evicted(m)}
           old == {m \in members : Evicted(m)}
           Aged(m) == [m EXCEPT !.age = m.age + 1]
<1>1. /\ members' = Older(young) \cup old /\ granted' = Older(kept)
      /\ UNCHANGED <<asks, restarts>>
      /\ keyAge' = [t \in Tenants |-> IF keyAge[t] = Window THEN Window ELSE keyAge[t] + 1]
  BY DEF Tick, cacheVars
<1>2. members \subseteq Member /\ IsFiniteSet(members) /\ granted \subseteq Granted /\ IsFiniteSet(granted)
  BY DEF Inv, LimiterTypeOK
<1>3. bucket' \in [Tenants -> Bucket]
  <2>1. PICK t \in Tenants : TRUE
    OBVIOUS
  <2> QED BY <2>1, TokensTick DEF Inv, LimiterTypeOK
<1>4. ASSUME NEW m \in young PROVE Aged(m) \in Member
  <2>1. m.age + 1 \in 0..Window + MaxDelay
    BY <1>2 DEF Member, Evicted
  <2> QED BY <1>2, <2>1 DEF Member
<1>5. ASSUME NEW g \in kept
      PROVE  /\ Aged(g) \in Granted
             /\ Aged(g).id = g.id /\ Aged(g).by = g.by /\ Aged(g).via = g.via /\ Aged(g).age = g.age + 1
  <2>1. g.age + 1 \in 0..(Window - 1)
    BY <1>2 DEF Granted
  <2> QED BY <1>2, <2>1 DEF Granted
<1>6. \A h \in granted' : \E g \in kept : h = Aged(g)
  BY <1>1 DEF Older
<1>7. ASSUME NEW h \in granted'
       PROVE  \E g \in granted :
                 /\ g.age + 1 < Window /\ \A S : g \in S => h \in Older(S)
                 /\ h.id = g.id /\ h.by = g.by /\ h.via = g.via /\ h.age = g.age + 1
  <2>1. PICK g \in kept : h = Aged(g)
    BY <1>6
  <2>2. \A S : g \in S => h \in Older(S)
    BY <2>1 DEF Older
  <2>3. h.id = g.id /\ h.by = g.by /\ h.via = g.via /\ h.age = g.age + 1
    BY <1>5, <2>1
  <2> QED BY <2>2, <2>3
<1>8. IsFiniteSet(members') /\ IsFiniteSet(granted')
  <2>1. IsFiniteSet(young) /\ IsFiniteSet(old) /\ IsFiniteSet(kept)
    BY <1>2, FS_Subset
  <2>2. IsFiniteSet(Older(young)) /\ IsFiniteSet(Older(kept))
    BY <2>1, OlderIsFinite
  <2> QED BY <1>1, <2>1, <2>2, FS_Union
<1>15. /\ gate' \in [Callers -> Gate]
       /\ \A d \in Callers : gate'[d].pc = gate[d].pc /\ gate'[d].id = gate[d].id
  BY TickAgesGate DEF Inv, LimiterTypeOK
<1>16. /\ keyAge' \in [Tenants -> 0..Window]
       /\ \A t \in Tenants : keyAge'[t] <= keyAge[t] + 1 /\ keyAge[t] \in Nat
  BY <1>1 DEF Inv, LimiterTypeOK
<1>9. LimiterTypeOK'
  <2>1. members' \subseteq Member
    BY <1>1, <1>2, <1>4 DEF Older
  <2>2. granted' \subseteq Granted
    BY <1>5, <1>6
  <2> QED BY <1>1, <1>3, <1>8, <1>15, <1>16, <2>1, <2>2 DEF Inv, LimiterTypeOK
<1>10. RequestsApart'
  <2>1. \A h \in granted' : \E k \in granted : k.id = h.id
    BY <1>7
  <2> QED BY <1>1, <1>15, <2>1 DEF Inv, RequestsApart, Undecided
<1>11. GrantsAreMembers'
  <2> SUFFICES ASSUME NEW h \in granted', h.via = "redis"
               PROVE  MemberOf(h) \in members' /\ h.age >= keyAge'[h.by]
    BY DEF GrantsAreMembers
  <2>1. PICK g \in kept : h = Aged(g)
    BY <1>6
  <2>2. MemberOf(g) \in members /\ ~Evicted(MemberOf(g)) /\ g.age >= keyAge[g.by]
    <3>1. MemberOf(g).age = g.age /\ g.age \in 0..(Window - 1)
      BY <1>2 DEF MemberOf, Granted
    <3> QED BY <1>2, <1>5, <2>1, <3>1 DEF Inv, GrantsAreMembers, Evicted
  <2>3. Aged(MemberOf(g)) \in members' /\ Aged(MemberOf(g)) \in Member
    BY <1>1, <1>4, <2>2 DEF Older
  <2>4. /\ Aged(MemberOf(g)).id = g.id /\ Aged(MemberOf(g)).by = g.by
        /\ Aged(MemberOf(g)).age = g.age + 1
    BY DEF MemberOf
  <2>5. /\ MemberOf(h).id = g.id /\ MemberOf(h).by = g.by /\ MemberOf(h).age = g.age + 1
        /\ MemberOf(h) = [id |-> h.id, age |-> h.age, by |-> h.by]
    BY <1>5, <2>1 DEF MemberOf
  <2>6. Aged(MemberOf(g)) = MemberOf(h)
    BY <2>3, <2>4, <2>5 DEF Member
  <2>7. h.age = g.age + 1 /\ h.by = g.by /\ g.by \in Tenants /\ g.age \in Nat
    BY <1>2, <1>5, <2>1 DEF Granted
  <2>8. h.age >= keyAge'[h.by]
    BY <1>16, <2>2, <2>7
  <2> QED BY <2>3, <2>6, <2>8
<1>12. ASSUME NEW t \in Tenants PROVE Cardinality(By(t, "redis")') <= Limit
  <2> DEFINE G == By(t, "redis")
             H == By(t, "redis")'
  <2>1. H \subseteq Older(G)
    BY <1>7 DEF By
  <2>2. IsFiniteSet(G) /\ Cardinality(G) <= Limit
    BY <1>2, FS_Subset DEF Inv, RedisKeepsLimit, By
  <2> HIDE DEF G, H
  <2>3. IsFiniteSet(Older(G)) /\ Cardinality(Older(G)) <= Cardinality(G)
    BY <2>2, OlderIsFinite
  <2>4. IsFiniteSet(H) /\ Cardinality(H) <= Cardinality(Older(G))
    BY <2>1, <2>3, FS_Subset
  <2>5. Cardinality(H) \in Nat /\ Cardinality(Older(G)) \in Nat /\ Cardinality(G) \in Nat /\ Limit \in Nat
    BY <2>2, <2>3, <2>4, FS_CardinalityType
  <2>6. Cardinality(H) <= Limit
    BY <2>2, <2>3, <2>4, <2>5
  <2> QED BY <2>6 DEF H
<1>13. ASSUME NEW t \in Tenants, NEW a \in 0..(Window - 1)
       PROVE  Window * Cardinality(Recent(t, a))' + Tokens(t)'
                 <= (1 + restarts) * (Limit * Window) + a * Limit
  <2> DEFINE H == Recent(t, a)'
             full == Limit * Window
             paid == (1 + restarts) * full
  <2>1. /\ Tokens(t) \in 0..full /\ Tokens(t)' \in 0..full /\ Tokens(t)' <= Tokens(t) + Limit
        /\ full \in Nat /\ Window \in Nat /\ Limit \in Nat /\ a \in Nat
    BY TokensType, TokensTick, Products DEF Inv, LimiterTypeOK
  <2>2. restarts \in Nat /\ restarts * full \in Nat /\ paid = full + restarts * full
    BY <2>1, Products DEF Inv, LimiterTypeOK
  <2>3. CASE a = 0
    <3>1. H = {}
      BY <1>2, <1>7, <2>3 DEF Recent, Granted
    <3>2. Cardinality(Recent(t, a))' = 0
      BY <3>1, FS_EmptySet
    <3>3. Window * 0 = 0 /\ 0 * Limit = 0
      BY <2>1
    <3>4. Window * Cardinality(Recent(t, a))' = 0 /\ a * Limit = 0
      BY <2>3, <3>2, <3>3
    <3> HIDE DEF full, H, paid
    <3>5. Window * Cardinality(Recent(t, a))' + Tokens(t)' <= paid + a * Limit
      BY <2>1, <2>2, <3>4
    <3> QED BY <3>5 DEF paid, full
  <2>4. CASE a # 0
    <3> DEFINE b == a - 1
               G == Recent(t, b)
               m == Cardinality(G)
               k == Cardinality(H)
    <3>1. b \in 0..(Window - 1) /\ a = b + 1
      BY <2>1, <2>4
    <3>2. H \subseteq Older(G)
      <4>1. \A g \in granted : g.age + 1 <= a => g.age <= b
        BY <1>2, <2>1 DEF Granted
      <4> HIDE DEF b
      <4> QED BY <1>7, <4>1 DEF Recent
    <3>3. IsFiniteSet(G)
      BY <1>2, FS_Subset DEF Recent
    <3>4. Window * m + Tokens(t) <= paid + b * Limit
      BY <3>1 DEF Inv, BucketPays
    <3> HIDE DEF G, H, b
    <3>5. IsFiniteSet(Older(G)) /\ Cardinality(Older(G)) <= m
      BY <3>3, OlderIsFinite
    <3>6. k <= Cardinality(Older(G)) /\ IsFiniteSet(H)
      BY <3>2, <3>5, FS_Subset
    <3>7. k \in Nat /\ m \in Nat /\ Cardinality(Older(G)) \in Nat
      BY <3>3, <3>5, <3>6, FS_CardinalityType
    <3>8. k <= m
      BY <3>5, <3>6, <3>7
    <3> HIDE DEF k, m, full, paid
    <3>9. Window * k \in Nat /\ Window * m \in Nat /\ Window * k <= Window * m
      BY <2>1, <3>7, <3>8, Products
    <3>10. b * Limit \in Nat /\ a * Limit = b * Limit + Limit
      BY <3>1, Products
    <3>11. Window * k + Tokens(t)' <= paid + a * Limit
      BY <2>1, <2>2, <3>4, <3>9, <3>10
    <3> QED BY <3>11 DEF k, H, paid, full
  <2> QED BY <2>3, <2>4
<1>14. BucketPays'
  BY <1>1, <1>13 DEF BucketPays
<1> QED BY <1>9, <1>10, <1>11, <1>12, <1>14 DEF Inv, RedisKeepsLimit

\* A key that expires takes no place in the window along.
LEMMA KeyExpiresKeeps == ASSUME Inv, NEW t \in Tenants, KeyExpires(t) PROVE Inv'
<1>1. /\ keyAge[t] = Window /\ members' = {m \in members : m.by # t}
      /\ UNCHANGED <<gate, keyAge, bucket, granted, asks, restarts>>
  BY DEF KeyExpires, cacheVars
<1>2. ASSUME NEW h \in granted, h.via = "redis" PROVE MemberOf(h) \in members'
  <2>1. MemberOf(h) \in members /\ h.age >= keyAge[h.by] /\ h.age < Window
    BY <1>2 DEF Inv, LimiterTypeOK, GrantsAreMembers, Granted
  <2>2. h.by # t
    BY <1>1, <2>1 DEF Inv, LimiterTypeOK, Granted
  <2> QED BY <1>1, <2>1, <2>2 DEF MemberOf
<1>3. members' \subseteq members /\ members' \subseteq Member /\ IsFiniteSet(members')
  BY <1>1, FS_Subset DEF Inv, LimiterTypeOK
<1>4. LimiterTypeOK'
  BY <1>1, <1>3 DEF Inv, LimiterTypeOK
<1>5. RequestsApart'
  BY <1>1 DEF Inv, RequestsApart
<1>6. GrantsAreMembers'
  BY <1>1, <1>2 DEF Inv, GrantsAreMembers
<1>7. RedisKeepsLimit'
  BY <1>1 DEF Inv, RedisKeepsLimit, By
<1>8. BucketPays'
  BY <1>1 DEF Inv, BucketPays, Recent, Tokens
<1> QED BY <1>4, <1>5, <1>6, <1>7, <1>8 DEF Inv

\* A restart gives each tenant one more full bucket, and nobody a place in the window.
LEMMA RestartKeeps == ASSUME Inv, RestartAll PROVE Inv'
<1> DEFINE full == Limit * Window
<1>1. /\ gate' = [c \in Callers |-> NoGate] /\ bucket' = [t \in Tenants |-> FullBucket]
      /\ UNCHANGED <<members, keyAge, granted, asks>> /\ restarts' = restarts + 1
  BY DEF RestartAll, Restart
<1>2. full \in Nat /\ Window \in Nat /\ Limit \in Nat /\ 0 * Limit = 0
  BY Products
<1>3. FullBucket \in Bucket /\ FullBucket.tokens = full /\ FullBucket.idle = 0
  BY <1>2 DEF FullBucket, Bucket
<1>4. bucket' \in [Tenants -> Bucket] /\ gate' \in [Callers -> Gate]
  BY <1>1, <1>3, NoGateType
<1>5. restarts \in Nat /\ restarts' \in Nat
  BY <1>1 DEF Inv, LimiterTypeOK
<1>6. LimiterTypeOK'
  BY <1>1, <1>4, <1>5 DEF Inv, LimiterTypeOK
<1>7. RequestsApart'
  BY <1>1, NoGateType DEF Inv, RequestsApart
<1>8. GrantsAreMembers' /\ RedisKeepsLimit'
  BY <1>1 DEF Inv, GrantsAreMembers, RedisKeepsLimit, By
<1>9. ASSUME NEW t \in Tenants, NEW a \in 0..(Window - 1)
      PROVE  Window * Cardinality(Recent(t, a))' + Tokens(t)'
                <= (1 + restarts') * (Limit * Window) + a * Limit
  <2> DEFINE m == Window * Cardinality(Recent(t, a))
             paid == (1 + restarts) * full
             more == (1 + restarts') * full
  <2>1. Window * Cardinality(Recent(t, a))' = m
    BY <1>1 DEF Recent
  <2>2. Tokens(t)' = full
    <3>1. bucket'[t] = FullBucket
      BY <1>1
    <3> HIDE DEF full
    <3> QED BY <1>2, <1>3, <3>1 DEF Tokens, full
  <2>3. m + Tokens(t) <= paid + a * Limit
    BY DEF Inv, BucketPays
  <2>4. Tokens(t) \in 0..full
    BY TokensType DEF Inv, LimiterTypeOK
  <2>5. m \in Nat
    <3>1. IsFiniteSet(Recent(t, a))
      BY FS_Subset DEF Recent, Inv, LimiterTypeOK
    <3> QED BY <1>2, <3>1, FS_CardinalityType, Products
  <2>6. a * Limit \in Nat /\ paid \in Nat /\ more = paid + full
    <3>1. 1 + restarts \in Nat /\ 1 + restarts' = (1 + restarts) + 1
      BY <1>1, <1>5
    <3>2. paid \in Nat /\ \A n \in Nat : (n + 1) * full = n * full + full
      <4> HIDE DEF full
      <4> QED BY <1>2, <3>1, Products
    <3>3. more = paid + full
      BY <3>1, <3>2
    <3> QED BY <1>2, <3>2, <3>3, Products
  <2> HIDE DEF m, paid, more, full
  <2>7. m + full <= more + a * Limit
    BY <1>2, <2>3, <2>4, <2>5, <2>6
  <2> QED BY <2>1, <2>2, <2>7 DEF more, full
<1>10. BucketPays'
  BY <1>9 DEF BucketPays
<1> QED BY <1>6, <1>7, <1>8, <1>10 DEF Inv

LEMMA InitHasInv == ASSUME Init PROVE Inv
<1> DEFINE full == Limit * Window
<1>1. /\ gate = [c \in Callers |-> NoGate] /\ bucket = [t \in Tenants |-> FullBucket]
      /\ members = {} /\ granted = {} /\ asks = 0 /\ restarts = 0
      /\ keyAge = [t \in Tenants |-> Window]
  BY DEF Init, CacheInit
<1>2. full \in Nat /\ Limit \in Nat /\ Window * 0 = 0 /\ 0 * Limit = 0 /\ (1 + 0) * full = full
  BY Products
<1>3. FullBucket \in Bucket /\ FullBucket.tokens = full /\ FullBucket.idle = 0
  BY <1>2 DEF FullBucket, Bucket
<1>4. LimiterTypeOK
  BY <1>1, <1>3, NoGateType, FS_EmptySet DEF LimiterTypeOK
<1>5. RequestsApart /\ GrantsAreMembers
  BY <1>1, NoGateType DEF RequestsApart, GrantsAreMembers
<1>6. RedisKeepsLimit
  <2>1. \A t \in Tenants : By(t, "redis") = {}
    BY <1>1 DEF By
  <2> QED BY <1>2, <2>1, FS_EmptySet DEF RedisKeepsLimit
<1>7. ASSUME NEW t \in Tenants, NEW a \in 0..(Window - 1)
      PROVE  Window * Cardinality(Recent(t, a)) + Tokens(t)
                <= (1 + restarts) * (Limit * Window) + a * Limit
  <2>1. Recent(t, a) = {} /\ bucket[t] = FullBucket
    BY <1>1 DEF Recent
  <2>2. Window * Cardinality(Recent(t, a)) = 0
    BY <1>2, <2>1, FS_EmptySet
  <2>3. Tokens(t) = full
    <3> HIDE DEF full
    <3> QED BY <1>2, <1>3, <2>1 DEF Tokens, full
  <2>4. a * Limit \in Nat
    BY Products
  <2> HIDE DEF full
  <2>5. 0 + full <= (1 + 0) * full + a * Limit
    BY <1>2, <2>4
  <2> QED BY <1>1, <2>2, <2>3, <2>5 DEF full
<1> QED BY <1>4, <1>5, <1>6, <1>7 DEF Inv, BucketPays

LEMMA StepKeepsInv == ASSUME Inv, [Next]_vars PROVE Inv'
<1>1. ASSUME NEW c \in Callers, NEW t \in Tenants, AskQuery(c, t) PROVE Inv'
  BY <1>1, AskKeeps
<1>2. ASSUME NEW c \in Callers, GatePing(c) PROVE Inv'
  BY <1>2, PingKeeps
<1>3. ASSUME NEW c \in Callers, Pipeline(c) PROVE Inv'
  BY <1>3, PipelineKeeps
<1>4. ASSUME NEW c \in Callers, PipelineFails(c) PROVE Inv'
  BY <1>4, FailedKeeps
<1>5. ASSUME NEW c \in Callers, Undo(c) PROVE Inv'
  BY <1>5, UndoKeeps
<1>6. ASSUME NEW c \in Callers, CacheResponse(c) \/ QueryFails(c) PROVE Inv'
  <2>1. gate' = [gate EXCEPT ![c] = NoGate] /\ UNCHANGED <<members, keyAge, bucket, granted, asks, restarts>>
    BY <1>6 DEF CacheResponse, QueryFails, Begin, cacheVars
  <2>2. gate \in [Callers -> Gate]
    BY DEF Inv, LimiterTypeOK
  <2> QED BY <2>1, <2>2, NoGateType, LeaveKeeps
<1>7. ASSUME UNCHANGED <<limiterVars, restarts>> PROVE Inv'
  BY <1>7, LeaveKeeps DEF limiterVars, Inv, LimiterTypeOK
<1>8. ASSUME NEW c \in Callers,
             \/ StoreRating(c) \/ Respond(c)
             \/ \E t \in Tenants : AskRead(c, t) \/ AskRate(c, t) \/ AskRated(c, t)
             \/ \E op \in {"get", "set", "delete"}, t \in Tenants \cup {Legacy} :
                   UseDirectly(c, op, <<t, Query>>)
      PROVE  Inv'
  <2>1. UNCHANGED <<limiterVars, restarts>>
    BY <1>8, Zenon DEF StoreRating, Respond, AskRead, AskRate, AskRated, Look, UseDirectly, Begin
  <2> QED BY <2>1, <1>7
<1>9. ASSUME NEW c \in Callers, CallStep(c), UNCHANGED limiterVars PROVE Inv'
  <2>1. UNCHANGED restarts
    BY <1>9, Zenon DEF CallStep, PingAnswered, PingFailed, RedisGet, RedisGetLegacy, RedisSet, Retire,
                       RedisDelete, RedisFails
  <2> QED BY <1>7, <1>9, <2>1
<1>10. ASSUME Surroundings, UNCHANGED limiterVars PROVE Inv'
  <2>1. UNCHANGED restarts
    BY <1>10, Zenon DEF Surroundings, HealthCheckFails, IntervalPasses, PurgeExpired, ExpireInRedis,
                        ExpireInMemory
  <2> QED BY <1>7, <1>10, <2>1
<1>11. CASE Tick
  BY <1>11, TickKeeps
<1>14. ASSUME NEW t \in Tenants, KeyExpires(t) PROVE Inv'
  BY <1>14, KeyExpiresKeeps
<1>12. CASE RestartAll
  BY <1>12, RestartKeeps
<1>13. CASE UNCHANGED vars
  BY <1>7, <1>13 DEF vars, cacheVars
<1> QED BY <1>1, <1>2, <1>3, <1>4, <1>5, <1>6, <1>8, <1>9, <1>10, <1>11, <1>12, <1>13, <1>14 DEF Next

\* The limiter keeps its books in every interleaving, outage and restart.
THEOREM Invariance == Spec => []Inv
BY InitHasInv, StepKeepsInv, PTL DEF Spec

LEMMA InvKeepsLimit == ASSUME Inv PROVE LimitHolds
<1> SUFFICES ASSUME NEW t \in Tenants
             PROVE  Cardinality(By(t, "redis")) + Cardinality(By(t, "memory"))
                       <= Limit + (1 + restarts) * Limit + ((Window - 1) * Limit) \div Window
  BY DEF Inv, LimitHolds, GrantsBounded
<1> DEFINE w == Window
           m == Cardinality(By(t, "memory"))
           k == Cardinality(By(t, "redis"))
           s == 1 + restarts
           last == (w - 1) * Limit
           q == last \div w
<1>1. w \in Nat \ {0} /\ Limit \in Nat /\ s \in Nat /\ w - 1 \in 0..(w - 1) /\ w - 1 \in Nat
  BY DEF Inv, LimiterTypeOK
<1>2. last \in Nat /\ s * Limit \in Nat /\ Limit * w \in Nat
  BY <1>1, Products
<1>3. k \in Nat /\ m \in Nat /\ k <= Limit
  BY FS_Subset, FS_CardinalityType DEF Inv, LimiterTypeOK, RedisKeepsLimit, By
<1>4. Recent(t, w - 1) = By(t, "memory")
  BY DEF Recent, By, Inv, LimiterTypeOK, Granted
<1>5. w * m + Tokens(t) <= s * (Limit * w) + last /\ Tokens(t) \in 0..Limit * w
  BY <1>1, <1>4, TokensType DEF Inv, BucketPays, LimiterTypeOK
<1> HIDE DEF m, k, s, last, w
<1>6. s * (Limit * w) = w * (s * Limit) /\ w * m \in Nat /\ w * (s * Limit) \in Nat
  BY <1>1, <1>2, <1>3
<1>7. w * m <= w * (s * Limit) + last
  BY <1>1, <1>2, <1>5, <1>6
<1>8. q \in Nat /\ last < w * (q + 1)
  BY <1>1, <1>2
<1> HIDE DEF q
<1>9. w * m < w * (s * Limit + q + 1)
  <2>1. w * (s * Limit + q + 1) = w * (s * Limit) + w * (q + 1)
    BY <1>1, <1>2, <1>8
  <2> QED BY <1>1, <1>2, <1>6, <1>7, <1>8, <2>1
<1>10. m < s * Limit + q + 1
  BY <1>1, <1>2, <1>3, <1>8, <1>9
<1>11. k + m <= Limit + s * Limit + q
  BY <1>1, <1>2, <1>3, <1>8, <1>10
<1> QED BY <1>11 DEF k, m, s, q, last, w

\* However requests interleave, pipelines are late, Redis fails and comes back, and the
\* process restarts: of a tenant's requests whose clock was read in the last window no more
\* than the limit passed Redis, nor both backends together more than a limit for Redis, a
\* bucket for each start and the refill of a window.
THEOREM LimitIsKept == Spec => []LimitHolds
BY Invariance, InvKeepsLimit, PTL

(***************************************************************************)
(* The cache.                                                              *)
(***************************************************************************)
Entry == [place : Places, value : Value, live : BOOLEAN]
Floor == [n : 0..MaxWrites, stores : SUBSET Stores]

\* One entry per place, and only what this process wrote itself.
Apart(s) == \A i, j \in DOMAIN s : s[i].place = s[j].place => i = j
Own(s) == \A i \in DOMAIN s : s[i].value.cipher = cipher /\ s[i].value.n # 0

\* The stores that the write or delete f at p reached hold nothing older there, and
\* at the legacy location only what Redis refused to retire.
NotOlder(p, f) ==
    /\ "redis" \in f.stores => redis[p] = Nothing \/ redis[p].n >= f.n
    /\ "memory" \in f.stores =>
          \A i \in DOMAIN lru : lru[i].place = p => lru[i].value.n >= f.n
LegacyNotOlder(p, f) ==
    /\ "redis" \in f.stores =>
          \/ redis[LegacyOf(p)] = Nothing \/ redis[LegacyOf(p)].n >= f.n
          \/ p \in unretired
    /\ "memory" \in f.stores =>
          \A i \in DOMAIN lru : lru[i].place = LegacyOf(p) => lru[i].value.n >= f.n
Kept(p, f) == f.n <= writes /\ NotOlder(p, f) /\ LegacyNotOlder(p, f)

\* A call as a caller may rely on it (ReadsNewest, RaisesOnlyInOutage), and the stores
\* as it may find them.
ReadOK(r) ==
    r.pc = "done" /\ r.op = "get" /\ ~r.answer.old =>
        IF r.answer.value = Nothing
        THEN "memory" \in r.floor.stores =>
                ~\E i \in DOMAIN lru : /\ lru[i].place = r.place /\ lru[i].live
                                      /\ lru[i].value.n = r.floor.n
        ELSE r.answer.value.n >= r.floor.n \/ r.answer.from \notin r.floor.stores
RaiseOK(r) ==
    r.answer.raised => /\ r.answer.from = "memory" /\ r.answer.value.cipher = cipher
                       /\ cipher # Plain
CallOK(r) == r \in Call /\ Kept(r.place, r.floor) /\ ReadOK(r) /\ RaiseOK(r)

CInv ==
    /\ CacheTypeOK /\ Own(lru)
    /\ \A p \in Places : Kept(p, newest[p])
    /\ \A c \in Callers : CallOK(call[c])

\* What a call that ends with a legacy copy may have found (LegacyRetired).
OldOK(r) ==
    r.pc = "done" /\ r.op = "get" /\ r.answer.old =>
        \/ r.answer.value.n >= r.floor.n
        \/ r.answer.from \notin r.floor.stores
        \/ r.place \in unretired
LegacyStep ==
    \A c \in Callers :
        LET r == call'[c] IN
        (call[c].pc # "done" /\ r.pc = "done" /\ r.op = "get" /\ r.answer.old) =>
            \/ r.answer.value.n >= r.floor.n
            \/ r.answer.from \notin r.floor.stores
            \/ r.place \in unretired

(***************************************************************************)
(* Every step of a store: what is new in it is newer than every write or   *)
(* delete so far, the rest was there or is gone.                           *)
(***************************************************************************)
Moves ==
    /\ writes' \in {writes, writes + 1}
    /\ \A p \in Places : redis'[p] = redis[p] \/ redis'[p] = Nothing \/ redis'[p].n > writes
    /\ \A j \in DOMAIN lru' :
          \/ lru'[j].value.n > writes
          \/ \E i \in DOMAIN lru : /\ lru'[j].place = lru[i].place /\ lru'[j].value = lru[i].value
                                   /\ lru'[j].live => lru[i].live
    /\ \A p \in unretired \ unretired' : redis'[LegacyOf(p)] = Nothing

\* The new effect, if there is one, holds for the stores as they are now.
Books ==
    /\ newest' \in [Places -> Floor]
    /\ \A p \in Places : newest'[p] = newest[p] \/ Kept(p, newest[p])'

TypesStay ==
    /\ ok' \in BOOLEAN /\ due' \in BOOLEAN
    /\ redis' \in [Places -> Value \cup {Nothing}]
    /\ lru' \in Seq(Entry) /\ Len(lru') <= Capacity /\ Apart(lru') /\ Own(lru')
    /\ writes' \in 0..MaxWrites /\ unretired' \subseteq Places
    /\ UNCHANGED <<cipher, restarts>>

LEMMA LegacyPlace == ASSUME NEW p \in Places
                     PROVE  LegacyOf(p) \in Places /\ LegacyOf(LegacyOf(p)) = LegacyOf(p)
                            /\ (~Tenanted(p) => LegacyOf(p) = p)
BY DEF Places, LegacyOf, Tenanted

\* What was kept stays kept.
LEMMA KeptStays ==
    ASSUME CacheTypeOK, TypesStay, Moves, NEW p \in Places, NEW g \in Floor, Kept(p, g)
    PROVE  Kept(p, g)'
<1>1. g.n \in Nat /\ writes \in Nat /\ writes' \in Nat /\ g.n <= writes
  BY DEF Kept, Floor, CacheTypeOK, TypesStay
<1>2. (g.n <= writes)'
  BY <1>1 DEF Moves
<1>3. ASSUME NEW q \in Places, "memory" \in g.stores,
             \A i \in DOMAIN lru : lru[i].place = q => lru[i].value.n >= g.n,
             NEW j \in DOMAIN lru', lru'[j].place = q
      PROVE  lru'[j].value.n >= g.n
  <2>1. lru'[j] \in Entry
    BY DEF TypesStay
  <2>2. lru'[j].value.n \in Nat
    BY <2>1 DEF Entry, Value
  <2>3. CASE lru'[j].value.n > writes
    BY <1>1, <2>2, <2>3
  <2>4. ASSUME NEW i \in DOMAIN lru, lru'[j].place = lru[i].place, lru'[j].value = lru[i].value
        PROVE  lru'[j].value.n >= g.n
    BY <1>3, <2>4
  <2> QED BY <2>3, <2>4 DEF Moves
<1>4. ASSUME NEW q \in Places, redis[q] = Nothing \/ redis[q].n >= g.n
      PROVE  redis'[q] = Nothing \/ redis'[q].n >= g.n
  <2>1. redis'[q] # Nothing => redis'[q].n \in Nat
    BY DEF TypesStay, Value
  <2>2. redis'[q] = redis[q] \/ redis'[q] = Nothing \/ redis'[q].n > writes
    BY DEF Moves
  <2> QED BY <1>1, <1>4, <2>1, <2>2
<1>5. LegacyOf(p) \in Places
  BY LegacyPlace
<1>6. NotOlder(p, g)'
  BY <1>3, <1>4 DEF Kept, NotOlder
<1>7. LegacyNotOlder(p, g)'
  <2>1. LegacyOf(p)' = LegacyOf(p)
    BY DEF LegacyOf
  <2>2. p \in unretired => p \in unretired' \/ redis'[LegacyOf(p)] = Nothing
    BY DEF Moves
  <2> QED BY <1>3, <1>4, <1>5, <2>1, <2>2 DEF Kept, LegacyNotOlder
<1> QED BY <1>2, <1>6, <1>7 DEF Kept

\* What a caller could rely on it still can.
LEMMA CallStays ==
    ASSUME CacheTypeOK, TypesStay, Moves, NEW r, CallOK(r)
    PROVE  CallOK(r)'
<1>1. r \in Call /\ r.place \in Places /\ r.floor \in Floor
  BY DEF CallOK, Call, Floor
<1>2. Kept(r.place, r.floor)'
  BY <1>1, KeptStays DEF CallOK
<1>3. RaiseOK(r)'
  BY DEF CallOK, RaiseOK, TypesStay
<1>4. ReadOK(r)'
  <2>1. r.floor.n <= writes /\ r.floor.n \in Nat /\ writes \in Nat
    BY <1>1 DEF CallOK, Kept, Floor, CacheTypeOK
  <2>2. ASSUME NEW j \in DOMAIN lru', lru'[j].place = r.place, lru'[j].live,
               lru'[j].value.n = r.floor.n
        PROVE  \E i \in DOMAIN lru : /\ lru[i].place = r.place /\ lru[i].live
                                     /\ lru[i].value.n = r.floor.n
    BY <2>1, <2>2 DEF Moves
  <2> QED BY <2>2 DEF CallOK, ReadOK
<1> QED BY <1>1, <1>2, <1>3, <1>4 DEF CallOK

LEMMA MoveKeeps ==
    ASSUME CInv, TypesStay, Moves, Books,
           \/ call' = call
           \/ \E c \in Callers : \E r :
                 call' = [call EXCEPT ![c] = r] /\ CallOK(r) /\ OldOK(r)
    PROVE  CInv' /\ LegacyStep
<1>1. \A p \in Places : newest[p] \in Floor /\ Kept(p, newest[p])
  BY DEF CInv, CacheTypeOK, Floor
<1>2. ASSUME NEW p \in Places
      PROVE  Kept(p, newest[p])'
  <2>1. PICK g \in Floor : g = newest[p]
    BY <1>1
  <2>2. Kept(p, g)'
    BY <1>1, <2>1, KeptStays DEF CInv
  <2>3. CASE newest'[p] = newest[p]
    BY <2>1, <2>2, <2>3
  <2> QED BY <2>3 DEF Books
<1>3. call \in [Callers -> Call] /\ \A d \in Callers : CallOK(call[d])
  BY DEF CInv, CacheTypeOK
<1>4. ASSUME NEW d \in Callers, NEW x, x = call[d]
      PROVE  CallOK(x)'
  BY <1>3, <1>4, CallStays DEF CInv
<1>5. Own(lru)'
  BY DEF TypesStay, Own
<1>6. CASE call' = call
  <2>1. ASSUME NEW d \in Callers PROVE CallOK(call[d])'
    <3>1. PICK x : x = call[d]
      OBVIOUS
    <3> QED BY <1>4, <1>6, <3>1
  <2>2. CacheTypeOK'
    BY <1>3, <1>6 DEF CInv, CacheTypeOK, TypesStay, Books, Floor, Entry, Apart
  <2> QED BY <1>2, <1>6, <1>5, <2>1, <2>2 DEF CInv, LegacyStep
<1>7. ASSUME NEW c \in Callers, NEW r, call' = [call EXCEPT ![c] = r], CallOK(r), OldOK(r)
      PROVE  CInv' /\ LegacyStep
  <2>1. r \in Call /\ CallOK(r)'
    BY <1>7, CallStays DEF CInv, CallOK
  <2>2. call' \in [Callers -> Call]
    BY <1>3, <1>7, <2>1
  <2>3. \A d \in Callers : call'[d] = IF d = c THEN r ELSE call[d]
    BY <1>3, <1>7
  <2>4. ASSUME NEW d \in Callers PROVE CallOK(call[d])'
    <3>1. PICK x : x = call[d]
      OBVIOUS
    <3>2. CallOK(x)'
      BY <1>4, <3>1
    <3>3. CASE d = c
      BY <2>1, <2>3, <3>3
    <3>4. CASE d # c
      BY <2>3, <3>1, <3>2, <3>4
    <3> QED BY <3>3, <3>4
  <2>5. CacheTypeOK'
    BY <2>2 DEF CInv, CacheTypeOK, TypesStay, Books, Floor, Entry, Apart
  <2>6. LegacyStep
    BY <1>7, <2>3 DEF LegacyStep, OldOK
  <2> QED BY <1>2, <1>5, <2>4, <2>5, <2>6 DEF CInv
<1> QED BY <1>6, <1>7

(***************************************************************************)
(* The LRU.                                                                *)
(***************************************************************************)
Lru(s) == s \in Seq(Entry) /\ Apart(s)
From(s, t) == \A j \in DOMAIN s : \E i \in DOMAIN t : s[j] = t[i]

\* pop of a key: the others stay, in their order.
LEMMA DroppedFacts ==
    ASSUME NEW s, Lru(s), NEW p
    PROVE  LET d == Dropped(s, p) IN
           /\ Lru(d) /\ From(d, s) /\ Len(d) <= Len(s)
           /\ \A j \in DOMAIN d : d[j].place # p
           /\ \A i \in DOMAIN s : s[i].place # p => \E j \in DOMAIN d : d[j] = s[i]
           /\ (\E i \in DOMAIN s : s[i].place = p) => Len(d) + 1 = Len(s)
<1> DEFINE d == Dropped(s, p)
<1>1. s \in Seq(Entry) /\ Apart(s) /\ Len(s) \in Nat /\ DOMAIN s = 1..Len(s)
  BY DEF Lru
<1>2. CASE \E i \in DOMAIN s : s[i].place = p
  <2> DEFINE k == At(s, p)
  <2>1. k \in DOMAIN s /\ s[k].place = p
    BY <1>2 DEF At
  <2>2. d = SubSeq(s, 1, k - 1) \o SubSeq(s, k + 1, Len(s))
    BY <1>2 DEF Dropped, RemoveAt
  <2> HIDE DEF k
  <2>3. /\ d \in Seq(Entry) /\ Len(d) = Len(s) - 1
        /\ \A j \in 1..(Len(s) - 1) : d[j] = IF j < k THEN s[j] ELSE s[j + 1]
    <3> DEFINE a == SubSeq(s, 1, k - 1)
               b == SubSeq(s, k + 1, Len(s))
    <3>1. a \in Seq(Entry) /\ Len(a) = k - 1 /\ \A j \in 1..(k - 1) : a[j] = s[j]
      BY <1>1, <2>1
    <3>2. b \in Seq(Entry) /\ Len(b) = Len(s) - k /\ \A j \in 1..(Len(s) - k) : b[j] = s[k + j]
      BY <1>1, <2>1
    <3>3. d = a \o b
      BY <2>2
    <3> HIDE DEF a, b, d
    <3>4. /\ d \in Seq(Entry) /\ Len(d) = Len(s) - 1
          /\ \A j \in 1..(Len(s) - 1) : d[j] = IF j < k THEN a[j] ELSE b[j - (k - 1)]
      <4>1. k - 1 \in Nat /\ Len(s) - k \in Nat /\ (k - 1) + (Len(s) - k) = Len(s) - 1
        BY <1>1, <2>1
      <4>2. a \in Seq(Entry) /\ b \in Seq(Entry)
        BY <3>1, <3>2
      <4>3. d \in Seq(Entry) /\ Len(d) = Len(a) + Len(b)
        BY <3>3, <4>2
      <4>4. \A j \in 1..(Len(a) + Len(b)) : d[j] = IF j <= Len(a) THEN a[j] ELSE b[j - Len(a)]
        BY <3>3, <4>2
      <4>5. \A j \in 1..(Len(s) - 1) : j <= k - 1 <=> j < k
        BY <1>1, <2>1
      <4> QED BY <3>1, <3>2, <4>1, <4>3, <4>4, <4>5
    <3>5. ASSUME NEW j \in 1..(Len(s) - 1), ~(j < k)
          PROVE  b[j - (k - 1)] = s[j + 1]
      <4>1. j - (k - 1) \in 1..(Len(s) - k) /\ k + (j - (k - 1)) = j + 1
        BY <1>1, <2>1, <3>5
      <4> QED BY <3>2, <4>1
    <3>6. ASSUME NEW j \in 1..(Len(s) - 1), j < k
          PROVE  a[j] = s[j]
      BY <1>1, <2>1, <3>1, <3>6
    <3> QED BY <3>4, <3>5, <3>6
  <2> HIDE DEF d
  <2>4. DOMAIN d = 1..(Len(s) - 1)
    BY <1>1, <2>1, <2>3
  <2> DEFINE was(j) == IF j < k THEN j ELSE j + 1
  <2>5. ASSUME NEW j \in DOMAIN d
        PROVE  was(j) \in DOMAIN s /\ was(j) # k /\ d[j] = s[was(j)]
    <3>1. j \in 1..(Len(s) - 1) /\ j \in Int /\ k \in Int
      BY <1>1, <2>1, <2>4
    <3>2. was(j) \in 1..Len(s) /\ was(j) # k
      BY <1>1, <2>1, <3>1
    <3>3. d[j] = s[was(j)]
      BY <2>3, <3>1
    <3> QED BY <1>1, <3>2, <3>3
  <2>6. From(d, s)
    <3> HIDE DEF was
    <3> QED BY <2>5 DEF From
  <2>7. \A j \in DOMAIN d : d[j].place # p
    <3> HIDE DEF was
    <3> QED BY <1>1, <2>1, <2>5 DEF Apart
  <2>8. Apart(d)
    <3> SUFFICES ASSUME NEW i \in DOMAIN d, NEW j \in DOMAIN d, d[i].place = d[j].place PROVE i = j
      BY DEF Apart
    <3>1. was(i) = was(j)
      <4> HIDE DEF was
      <4> QED BY <1>1, <2>5 DEF Apart
    <3>2. i \in Int /\ j \in Int /\ k \in Int
      BY <1>1, <2>1, <2>4
    <3> QED BY <3>1, <3>2
  <2>9. ASSUME NEW i \in DOMAIN s, s[i].place # p
        PROVE  \E j \in DOMAIN d : d[j] = s[i]
    <3>1. CASE i < k
      BY <1>1, <2>1, <2>3, <2>4, <3>1
    <3>2. CASE i > k
      <4>1. i - 1 \in DOMAIN d /\ d[i - 1] = s[i]
        BY <1>1, <2>1, <2>3, <2>4, <3>2
      <4> QED BY <4>1
    <3> QED BY <1>1, <2>1, <2>9, <3>1, <3>2
  <2> QED BY <1>1, <2>3, <2>6, <2>7, <2>8, <2>9 DEF Lru, d
<1>3. CASE ~\E i \in DOMAIN s : s[i].place = p
  <2>1. d = s
    BY <1>3 DEF Dropped
  <2>2. From(s, s)
    BY DEF From
  <2>3. /\ Lru(s) /\ Len(s) <= Len(s) /\ \A j \in DOMAIN s : s[j].place # p
        /\ \A i \in DOMAIN s : s[i].place # p => \E j \in DOMAIN s : s[j] = s[i]
    BY <1>1, <1>3
  <2> HIDE DEF d
  <2> QED BY <1>3, <2>1, <2>2, <2>3 DEF d
<1> QED BY <1>2, <1>3

\* An entry of a key that is not in the store goes to its end.
LEMMA AppendFacts ==
    ASSUME NEW s, Lru(s), NEW e \in Entry, \A j \in DOMAIN s : s[j].place # e.place
    PROVE  LET d == Append(s, e) IN
           /\ Lru(d) /\ Len(d) = Len(s) + 1
           /\ \A j \in DOMAIN d : d[j] = e \/ \E i \in DOMAIN s : d[j] = s[i]
<1> DEFINE d == Append(s, e)
<1>1. s \in Seq(Entry) /\ Apart(s) /\ Len(s) \in Nat /\ DOMAIN s = 1..Len(s)
  BY DEF Lru
<1>2. /\ d \in Seq(Entry) /\ Len(d) = Len(s) + 1 /\ DOMAIN d = 1..(Len(s) + 1)
      /\ d[Len(s) + 1] = e /\ \A j \in 1..Len(s) : d[j] = s[j]
  BY <1>1
<1> HIDE DEF d
<1>3. Apart(d)
  BY <1>1, <1>2 DEF Apart
<1>4. \A j \in DOMAIN d : d[j] = e \/ \E i \in DOMAIN s : d[j] = s[i]
  BY <1>1, <1>2
<1> QED BY <1>2, <1>3, <1>4 DEF Lru, d

\* popitem(last=False) of a store that is one too long.
LEMMA TrimmedFacts ==
    ASSUME NEW s, Lru(s), Len(s) <= Capacity + 1
    PROVE  Lru(Trimmed(s)) /\ From(Trimmed(s), s) /\ Len(Trimmed(s)) <= Capacity
<1>1. s \in Seq(Entry) /\ Apart(s) /\ Len(s) \in Nat /\ DOMAIN s = 1..Len(s)
  BY DEF Lru
<1>2. CASE Len(s) > Capacity
  <2> DEFINE t == Tail(s)
  <2>1. s # <<>>
    BY <1>1, <1>2
  <2>2. /\ t \in Seq(Entry) /\ Len(t) = Len(s) - 1 /\ DOMAIN t = 1..(Len(s) - 1)
        /\ \A j \in 1..(Len(s) - 1) : t[j] = s[j + 1]
    BY <1>1, <2>1
  <2> HIDE DEF t
  <2>3. Apart(t)
    <3> SUFFICES ASSUME NEW i \in DOMAIN t, NEW j \in DOMAIN t, t[i].place = t[j].place PROVE i = j
      BY DEF Apart
    <3>1. i + 1 \in DOMAIN s /\ j + 1 \in DOMAIN s /\ s[i + 1].place = s[j + 1].place
      BY <1>1, <2>2
    <3>2. i + 1 = j + 1
      BY <1>1, <3>1 DEF Apart
    <3> QED BY <2>2, <3>2
  <2>4. From(t, s)
    <3> SUFFICES ASSUME NEW i \in DOMAIN t PROVE \E j \in DOMAIN s : t[i] = s[j]
      BY Zenon DEF From
    <3>1. i + 1 \in DOMAIN s /\ t[i] = s[i + 1]
      BY <1>1, <2>2
    <3> QED BY <3>1
  <2> QED BY <1>1, <1>2, <2>2, <2>3, <2>4 DEF Trimmed, Lru, t
<1>3. CASE ~(Len(s) > Capacity)
  BY <1>1, <1>3 DEF Trimmed, From
<1> QED BY <1>2, <1>3

\* What a step may make of the LRU.
LruMove(l) ==
    /\ Lru(l) /\ Len(l) <= Capacity /\ Own(l)
    /\ \A j \in DOMAIN l :
          \/ l[j].value.n > writes
          \/ \E i \in DOMAIN lru : /\ l[j].place = lru[i].place /\ l[j].value = lru[i].value
                                   /\ l[j].live => lru[i].live

LEMMA LruOfInv == ASSUME CInv PROVE /\ Lru(lru) /\ Own(lru) /\ Len(lru) <= Capacity
                                    /\ Len(lru) \in Nat /\ LruMove(lru)
                                    /\ writes \in Nat
BY DEF CInv, CacheTypeOK, Lru, Apart, Entry, LruMove

\* A hit is the entry of its place.
LEMMA HitFacts ==
    ASSUME CInv, NEW p, Hit(p)
    PROVE  Held(p) \in Entry /\ \E i \in DOMAIN lru : /\ Held(p) = lru[i]
                                                      /\ lru[i].place = p /\ lru[i].live
<1>1. PICK i \in DOMAIN lru : lru[i].place = p /\ lru[i].live
  BY DEF Hit
<1>2. At(lru, p) \in DOMAIN lru /\ lru[At(lru, p)].place = p
  BY <1>1 DEF At
<1>3. lru \in Seq(Entry) /\ Apart(lru)
  BY LruOfInv DEF Lru
<1>4. At(lru, p) = i
  BY <1>1, <1>2, <1>3 DEF Apart
<1> QED BY <1>1, <1>3, <1>4 DEF Held

LEMMA DroppedMoves ==
    ASSUME CInv, NEW l, LruMove(l), NEW p
    PROVE  /\ LruMove(Dropped(l, p)) /\ \A j \in DOMAIN Dropped(l, p) : Dropped(l, p)[j].place # p
           /\ From(Dropped(l, p), l)
<1> DEFINE d == Dropped(l, p)
<1>1. Lru(l) /\ Len(l) <= Capacity /\ Len(l) \in Nat
  BY DEF LruMove, Lru
<1>2. Lru(d) /\ From(d, l) /\ Len(d) <= Len(l) /\ \A j \in DOMAIN d : d[j].place # p
  BY <1>1, DroppedFacts
<1>3. Len(d) \in Nat
  BY <1>2 DEF Lru
<1> HIDE DEF d
<1>4. Len(d) <= Capacity
  BY <1>1, <1>2, <1>3
<1>5. LruMove(d)
  BY <1>2, <1>4 DEF LruMove, From, Own
<1> QED BY <1>2, <1>5 DEF d

LEMMA TouchedMoves ==
    ASSUME CInv, NEW p, NEW s, Lru(s), From(s, lru), Len(s) <= Capacity,
           Hit(p) => \E i \in DOMAIN s : s[i].place = p
    PROVE  LruMove(Touched(s, p))
<1> DEFINE d == Dropped(s, p)
<1>1. Lru(d) /\ From(d, s) /\ Len(d) <= Len(s) /\ \A j \in DOMAIN d : d[j].place # p
  BY DroppedFacts
<1>2. (\E i \in DOMAIN s : s[i].place = p) => Len(d) + 1 = Len(s)
  BY DroppedFacts
<1>3. Len(d) \in Nat /\ Len(s) \in Nat
  BY <1>1 DEF Lru
<1> HIDE DEF d
<1>4. From(d, lru)
  BY <1>1 DEF From
<1>5. Own(lru) /\ Lru(lru)
  BY LruOfInv
<1>6. CASE Hit(p)
  <2> DEFINE t == Append(d, Held(p))
  <2>1. Held(p) \in Entry /\ \E i \in DOMAIN lru : Held(p) = lru[i] /\ lru[i].place = p
    BY <1>6, HitFacts
  <2>2. \A j \in DOMAIN d : d[j].place # Held(p).place
    BY <1>1, <2>1
  <2>3. Lru(t) /\ Len(t) = Len(d) + 1 /\ \A j \in DOMAIN t : t[j] = Held(p) \/ \E i \in DOMAIN d : t[j] = d[i]
    BY <1>1, <2>1, <2>2, AppendFacts
  <2> HIDE DEF t
  <2>4. Len(t) <= Capacity
    BY <1>2, <1>3, <1>6, <2>3
  <2>5. From(t, lru)
    BY <1>4, <2>1, <2>3 DEF From
  <2>6. LruMove(t)
    BY <1>5, <2>3, <2>4, <2>5 DEF LruMove, From, Own
  <2> QED BY <1>6, <2>6 DEF Touched, t, d
<1>7. CASE ~Hit(p)
  <2>1. LruMove(d)
    BY <1>1, <1>3, <1>4, <1>5 DEF LruMove, From, Own
  <2> QED BY <1>7, <2>1 DEF Touched, d
<1> QED BY <1>6, <1>7

\* What is stored is new and the only one of its place.
LEMMA StoredMoves ==
    ASSUME CInv, NEW p \in Places, NEW v \in Value, v.n = writes + 1, v.cipher = cipher
    PROVE  /\ LruMove(Stored(p, v))
           /\ \A j \in DOMAIN Stored(p, v) : Stored(p, v)[j].place = p => Stored(p, v)[j].value = v
<1> DEFINE d == Dropped(lru, p)
           e == [place |-> p, value |-> v, live |-> TRUE]
           t == Append(d, e)
           u == Trimmed(t)
<1>1. Lru(lru) /\ Own(lru) /\ Len(lru) <= Capacity /\ Len(lru) \in Nat
  BY LruOfInv
<1>2. Lru(d) /\ From(d, lru) /\ Len(d) <= Len(lru) /\ \A j \in DOMAIN d : d[j].place # p
  BY <1>1, DroppedFacts
<1>3. e \in Entry /\ e.place = p /\ e.value = v
  BY DEF Entry
<1>4. u = Stored(p, v)
  BY DEF Stored
<1> HIDE DEF e, d
<1>5. Lru(t) /\ Len(t) = Len(d) + 1 /\ \A j \in DOMAIN t : t[j] = e \/ \E i \in DOMAIN d : t[j] = d[i]
  BY <1>2, <1>3, AppendFacts
<1>6. Len(d) \in Nat
  BY <1>2 DEF Lru
<1> HIDE DEF t
<1>7. Len(t) <= Capacity + 1
  BY <1>1, <1>2, <1>5, <1>6
<1>8. Lru(u) /\ From(u, t) /\ Len(u) <= Capacity
  BY <1>5, <1>7, TrimmedFacts
<1> HIDE DEF u
<1>9. \A j \in DOMAIN u : u[j] = e \/ (\E i \in DOMAIN lru : u[j] = lru[i] /\ u[j].place # p)
  BY <1>2, <1>5, <1>8 DEF From
<1>10. writes \in Nat
  BY DEF CInv, CacheTypeOK
<1>11. Own(u)
  BY <1>1, <1>3, <1>9, <1>10 DEF Own
<1>12. LruMove(u)
  BY <1>3, <1>8, <1>9, <1>10, <1>11 DEF LruMove
<1> QED BY <1>3, <1>4, <1>9, <1>12

(***************************************************************************)
(* Calls.                                                                  *)
(***************************************************************************)
LEMMA IdleType ==
    /\ Idle \in Call /\ Idle.floor.n = 0 /\ Idle.floor.stores = {} /\ Idle.pc = "idle"
    /\ Idle.answer.raised = FALSE
<1>1. Places # {} /\ Tenants # {}
  <2>1. <<Legacy, Query>> \in Places
    BY DEF Places
  <2> QED BY <2>1
<1>2. (CHOOSE p \in Places : TRUE) \in Places /\ (CHOOSE t \in Tenants : TRUE) \in Tenants
  BY <1>1
<1>3. NoAnswer \in Answer
  BY DEF NoAnswer, Answer, Stores
<1>4. [n |-> 0, stores |-> {}] \in [n : 0..MaxWrites, stores : SUBSET Stores]
  OBVIOUS
<1>5. Idle \in Call
  BY <1>2, <1>3, <1>4 DEF Idle, Call, Routes
<1> QED BY <1>5 DEF Idle, NoAnswer

LEMMA IdleOK == ASSUME writes \in Nat PROVE CallOK(Idle) /\ OldOK(Idle)
BY IdleType DEF CallOK, OldOK, Kept, NotOlder, LegacyNotOlder, ReadOK, RaiseOK

\* A request starts from what was last written where it looks.
LEMMA RequestOK ==
    ASSUME CInv, NEW op \in {"get", "set", "delete"}, NEW p \in Places, NEW t \in Tenants,
           NEW route \in Routes
    PROVE  /\ CallOK(Request(op, p, t, route))
           /\ Request(op, p, t, route).op = op /\ Request(op, p, t, route).place = p
<1> DEFINE r == Request(op, p, t, route)
<1>1. newest[p] \in Floor /\ Kept(p, newest[p])
  BY DEF CInv, CacheTypeOK, Floor
<1>2. NoAnswer \in Answer /\ NoAnswer.raised = FALSE
  BY DEF NoAnswer, Answer, Stores
<1>3. /\ r.op = op /\ r.place = p /\ r.floor = newest[p] /\ r.pc = "idle" /\ r.answer = NoAnswer
      /\ r \in Call
  BY <1>1, <1>2 DEF Request, Call, Floor
<1> HIDE DEF r
<1> QED BY <1>1, <1>2, <1>3 DEF r, CallOK, ReadOK, RaiseOK

\* A call that goes on.
LEMMA OnwardOK ==
    ASSUME NEW r, CallOK(r), NEW pc \in {"idle", "ping", "redis", "legacy", "retire"}
    PROVE  CallOK([r EXCEPT !.pc = pc]) /\ OldOK([r EXCEPT !.pc = pc])
<1> DEFINE s == [r EXCEPT !.pc = pc]
<1>1. r \in Call
  BY DEF CallOK
<1>2. s \in Call /\ s.pc = pc /\ s.place = r.place /\ s.floor = r.floor /\ s.answer = r.answer
  BY <1>1 DEF Call
<1> HIDE DEF s
<1>3. s.pc # "done"
  BY <1>2
<1> QED BY <1>2, <1>3 DEF CallOK, ReadOK, RaiseOK, OldOK, s

\* A call that ends with what it found in a store that keeps the place or, as an old
\* copy, the legacy place; or with nothing.
LEMMA AnsweredOK ==
    ASSUME NEW r, CallOK(r), NEW v \in Value \cup {Nothing}, NEW from \in Stores,
           NEW old \in BOOLEAN, NEW raised \in BOOLEAN,
           ~old /\ v = Nothing => ~\E i \in DOMAIN lru : lru[i].place = r.place /\ lru[i].live,
           ~old /\ v # Nothing => v.n >= r.floor.n \/ from \notin r.floor.stores,
           old => v.n >= r.floor.n \/ from \notin r.floor.stores \/ r.place \in unretired,
           raised => from = "memory" /\ v.cipher = cipher /\ cipher # Plain
    PROVE  CallOK(Answered(r, v, from, old, raised)) /\ OldOK(Answered(r, v, from, old, raised))
<1> DEFINE s == Answered(r, v, from, old, raised)
           a == [value |-> v, from |-> from, old |-> old, raised |-> raised]
<1>1. r \in Call
  BY DEF CallOK
<1>2. a \in Answer /\ a.value = v /\ a.from = from /\ a.old = old /\ a.raised = raised
  BY DEF Answer
<1>3. s = [r EXCEPT !.pc = "done", !.answer = a]
  BY DEF Answered
<1> HIDE DEF a, s
<1>4. s \in Call /\ s.place = r.place /\ s.floor = r.floor /\ s.answer = a /\ s.op = r.op
  BY <1>1, <1>2, <1>3 DEF Call
<1>5. ReadOK(s)
  BY <1>2, <1>4, Zenon DEF ReadOK
<1>6. RaiseOK(s) /\ OldOK(s)
  BY <1>2, <1>4, Zenon DEF RaiseOK, OldOK
<1> QED BY <1>4, <1>5, <1>6 DEF s, CallOK

(***************************************************************************)
(* A call without Redis.                                                   *)
(***************************************************************************)
LEMMA LocalGetMoves ==
    ASSUME CInv, NEW c \in Callers, NEW r, CallOK(r), LocalGet(c, r)
    PROVE  /\ LruMove(lru')
           /\ \E x : call' = [call EXCEPT ![c] = x] /\ CallOK(x) /\ OldOK(x)
<1> DEFINE p == Probe(r.place)
           v == IF Hit(p) THEN Held(p).value ELSE Nothing
           old == Hit(p) /\ p # r.place
           raised == Hit(p) /\ v.cipher # Plain
           x == Answered(r, v, "memory", old, raised)
<1>1. r \in Call /\ r.place \in Places /\ Kept(r.place, r.floor)
  BY DEF CallOK, Call
<1>2. p \in {r.place, LegacyOf(r.place)} /\ (p # r.place => ~Hit(r.place))
  BY DEF Probe
<1>3. p \in Places
  BY <1>1, <1>2, LegacyPlace
<1>4. /\ call' = [call EXCEPT ![c] = x]
      /\ lru' = IF p = r.place THEN Touched(lru, p) ELSE Touched(Dropped(lru, r.place), p)
  BY DEF LocalGet
<1>5. Lru(lru) /\ Own(lru) /\ Len(lru) <= Capacity /\ LruMove(lru)
  BY LruOfInv
<1>6. LruMove(lru')
  <2>1. From(lru, lru)
    BY DEF From
  <2>2. CASE p = r.place
    <3>1. Hit(p) => \E i \in DOMAIN lru : lru[i].place = p
      BY HitFacts
    <3>2. LruMove(Touched(lru, p))
      BY <1>5, <2>1, <3>1, TouchedMoves
    <3> QED BY <1>4, <2>2, <3>2
  <2>3. CASE p # r.place
    <3> DEFINE d == Dropped(lru, r.place)
    <3>1. LruMove(d) /\ From(d, lru)
      BY <1>5, DroppedMoves
    <3>2. \A i \in DOMAIN lru : lru[i].place # r.place => \E j \in DOMAIN d : d[j] = lru[i]
      BY <1>5, DroppedFacts
    <3>3. Lru(d) /\ Len(d) <= Capacity
      BY <3>1 DEF LruMove
    <3> HIDE DEF d
    <3>4. Hit(p) => \E j \in DOMAIN d : d[j].place = p
      BY <2>3, <3>2, HitFacts
    <3>5. LruMove(Touched(d, p))
      BY <3>1, <3>3, <3>4, TouchedMoves
    <3> QED BY <1>4, <2>3, <3>5 DEF d
  <2> QED BY <2>2, <2>3
<1>7. Hit(p) => /\ v \in Value /\ v.n # 0 /\ v.cipher = cipher
                /\ \E i \in DOMAIN lru : v = lru[i].value /\ lru[i].place = p
  <2>1. ASSUME Hit(p), NEW i \in DOMAIN lru, Held(p) = lru[i], lru[i].place = p
        PROVE  /\ v \in Value /\ v.n # 0 /\ v.cipher = cipher
               /\ v = lru[i].value /\ lru[i].place = p
    <3>1. v = lru[i].value
      BY <2>1
    <3>2. lru[i] \in Entry
      BY <1>5 DEF Lru
    <3> HIDE DEF v
    <3> QED BY <1>5, <2>1, <3>1, <3>2 DEF Own, Entry
  <2> QED BY <2>1, HitFacts
<1>8. ~Hit(p) => v = Nothing
  OBVIOUS
<1>9. v \in Value \cup {Nothing} /\ old \in BOOLEAN /\ raised \in BOOLEAN /\ "memory" \in Stores
  BY <1>7 DEF Stores
<1>10. ~Hit(p) => ~\E i \in DOMAIN lru : lru[i].place = r.place /\ lru[i].live
  BY <1>2 DEF Hit
<1>11. Hit(p) => v # Nothing
  BY <1>7 DEF Nothing
<1>12. Hit(p) => v.n >= r.floor.n \/ "memory" \notin r.floor.stores
  BY <1>1, <1>2, <1>7 DEF Kept, NotOlder, LegacyNotOlder
<1>13. CallOK(x) /\ OldOK(x)
  <2>1. ~old /\ v = Nothing => ~\E i \in DOMAIN lru : lru[i].place = r.place /\ lru[i].live
    BY <1>10, <1>11
  <2>2. ~old /\ v # Nothing => v.n >= r.floor.n \/ "memory" \notin r.floor.stores
    BY <1>8, <1>12
  <2>3. old => v.n >= r.floor.n \/ "memory" \notin r.floor.stores \/ r.place \in unretired
    BY <1>12
  <2>4. raised => "memory" = "memory" /\ v.cipher = cipher /\ cipher # Plain
    BY <1>7
  <2> HIDE DEF v, old, raised, p
  <2> QED BY <1>9, <2>1, <2>2, <2>3, <2>4, AnsweredOK
<1> QED BY <1>4, <1>6, <1>13

\* A write or delete is entered with the stores it reached.
LEMMA EffectBooks ==
    ASSUME CInv, NEW p \in Places, NEW S \in SUBSET Stores, Effect(p, S),
           "redis" \in S => redis'[p] = Nothing \/ redis'[p].n >= writes + 1,
           "redis" \in S => \/ redis'[LegacyOf(p)] = Nothing \/ redis'[LegacyOf(p)].n >= writes + 1
                            \/ p \in unretired',
           "memory" \in S => \A i \in DOMAIN lru' :
                                lru'[i].place \in {p, LegacyOf(p)} => lru'[i].value.n >= writes + 1
    PROVE  Books /\ writes' = writes + 1 /\ writes' \in 0..MaxWrites
<1> DEFINE g == [n |-> writes + 1, stores |-> S]
<1>1. writes \in Nat /\ writes' = writes + 1 /\ writes' \in 0..MaxWrites
  BY DEF Effect, CInv, CacheTypeOK
<1>2. g \in Floor /\ g.n = writes + 1 /\ g.stores = S
  BY <1>1 DEF Floor
<1>3. newest \in [Places -> Floor] /\ newest' = [newest EXCEPT ![p] = g]
  BY DEF Effect, CInv, CacheTypeOK, Floor
<1>4. PICK h : h = g
  OBVIOUS
<1>5. Kept(p, h)'
  <2>1. LegacyOf(p)' = LegacyOf(p)
    BY DEF LegacyOf
  <2> HIDE DEF g
  <2> QED BY <1>1, <1>2, <1>4, <2>1 DEF Kept, NotOlder, LegacyNotOlder
<1> HIDE DEF g
<1>6. newest'[p] = h
  BY <1>3, <1>4
<1>7. \A q \in Places : newest'[q] = newest[q] \/ Kept(q, newest[q])'
  BY <1>3, <1>5, <1>6
<1> QED BY <1>1, <1>2, <1>3, <1>7 DEF Books

LEMMA EncodedType ==
    ASSUME CInv, NEW r \in Call, writes < MaxWrites
    PROVE  /\ Encoded(r) \in Value /\ Encoded(r).n = writes + 1 /\ Encoded(r).cipher = cipher
           /\ writes \in Nat /\ writes + 1 > writes
BY DEF Encoded, Value, Call, CInv, CacheTypeOK

\* Redis may hold more, or less, than this process thinks.
RedisMoves(d) ==
    /\ d \in [Places -> Value \cup {Nothing}]
    /\ \A p \in Places : d[p] = redis[p] \/ d[p] = Nothing \/ d[p].n > writes

LEMMA RedisWritten ==
    ASSUME CInv, NEW p \in Places, NEW v \in Value \cup {Nothing}, v = Nothing \/ v.n > writes
    PROVE  RedisMoves([redis EXCEPT ![p] = v])
<1>1. redis \in [Places -> Value \cup {Nothing}]
  BY DEF CInv, CacheTypeOK
<1> QED BY <1>1 DEF RedisMoves

LEMMA RedisAlone == ASSUME CInv PROVE RedisMoves(redis)
BY DEF RedisMoves, CInv, CacheTypeOK

LEMMA LocalKeeps ==
    ASSUME CInv, NEW c \in Callers, NEW r, CallOK(r), Local(c, r),
           ok' \in BOOLEAN, due' \in BOOLEAN, UNCHANGED <<cipher, unretired, restarts>>,
           redis' = redis \/ (r.op = "set" /\ redis' = [redis EXCEPT ![r.place] = Encoded(r)])
    PROVE  CInv' /\ LegacyStep
<1>1. r \in Call /\ r.place \in Places /\ LegacyOf(r.place) \in Places
  BY LegacyPlace DEF CallOK, Call
<1>2. writes \in 0..MaxWrites /\ writes \in Nat /\ unretired \subseteq Places
  BY DEF CInv, CacheTypeOK
<1>3. LruMove(lru)
  BY LruOfInv
<1>4. ASSUME LruMove(lru'), RedisMoves(redis'), Books, writes' \in {writes, writes + 1},
             writes' \in 0..MaxWrites,
             \E x : call' = [call EXCEPT ![c] = x] /\ CallOK(x) /\ OldOK(x)
      PROVE  CInv' /\ LegacyStep
  <2>1. TypesStay
    BY <1>2, <1>4 DEF TypesStay, LruMove, Lru, RedisMoves
  <2>2. Moves
    BY <1>4 DEF Moves, LruMove, RedisMoves
  <2> QED BY <1>4, <2>1, <2>2, MoveKeeps
<1>5. CASE LocalGet(c, r)
  <2>1. LruMove(lru') /\ \E x : call' = [call EXCEPT ![c] = x] /\ CallOK(x) /\ OldOK(x)
    BY <1>5, LocalGetMoves
  <2>2. r.op = "get" /\ UNCHANGED <<writes, newest>>
    BY <1>5 DEF LocalGet
  <2>3. RedisMoves(redis')
    BY <2>2, RedisAlone
  <2>4. Books
    BY <2>2 DEF Books, CInv, CacheTypeOK, Floor
  <2> QED BY <1>2, <1>4, <2>1, <2>2, <2>3, <2>4
<1>6. CASE LocalSet(c, r)
  <2> DEFINE s == Stored(r.place, Encoded(r))
             d == Dropped(s, LegacyOf(r.place))
  <2>1. /\ Effect(r.place, {"memory"}) /\ call' = [call EXCEPT ![c] = Idle]
        /\ lru' = IF Tenanted(r.place) THEN d ELSE s
    BY <1>6 DEF LocalSet
  <2>2. /\ Encoded(r) \in Value /\ Encoded(r).n = writes + 1 /\ Encoded(r).cipher = cipher
    BY <1>1, <2>1, EncodedType DEF Effect
  <2>3. LruMove(s) /\ \A j \in DOMAIN s : s[j].place = r.place => s[j].value = Encoded(r)
    BY <1>1, <2>2, StoredMoves
  <2>4. LruMove(d) /\ From(d, s) /\ \A j \in DOMAIN d : d[j].place # LegacyOf(r.place)
    BY <2>3, DroppedMoves
  <2> HIDE DEF s, d
  <2>5. ~Tenanted(r.place) => LegacyOf(r.place) = r.place
    BY <1>1, LegacyPlace
  <2>6. /\ LruMove(lru')
        /\ \A i \in DOMAIN lru' :
              lru'[i].place \in {r.place, LegacyOf(r.place)} => lru'[i].value.n >= writes + 1
    <3>1. \A j \in DOMAIN d : d[j].place = r.place => d[j].value = Encoded(r)
      BY <2>3, <2>4 DEF From
    <3>2. CASE Tenanted(r.place)
      BY <1>2, <2>1, <2>2, <2>4, <3>1, <3>2
    <3>3. CASE ~Tenanted(r.place)
      BY <1>2, <2>1, <2>2, <2>3, <2>5, <3>3
    <3> QED BY <3>2, <3>3
  <2>7. {"memory"} \in SUBSET Stores /\ "redis" \notin {"memory"}
    BY DEF Stores
  <2>8. Books /\ writes' = writes + 1 /\ writes' \in 0..MaxWrites
    BY <1>1, <2>1, <2>6, <2>7, EffectBooks
  <2>9. RedisMoves(redis')
    BY <1>1, <1>2, <2>2, RedisAlone, RedisWritten
  <2> QED BY <1>4, <2>1, <2>6, <2>8, <2>9, IdleOK, LruOfInv
<1>7. CASE LocalDelete(c, r)
  <2> DEFINE s == Dropped(lru, r.place)
             d == Dropped(s, LegacyOf(r.place))
  <2>1. /\ Effect(r.place, {"memory"}) /\ call' = [call EXCEPT ![c] = Idle] /\ lru' = d
        /\ r.op = "delete"
    BY <1>7 DEF LocalDelete
  <2>2. LruMove(s) /\ \A j \in DOMAIN s : s[j].place # r.place
    BY <1>3, DroppedMoves
  <2>3. LruMove(d) /\ From(d, s) /\ \A j \in DOMAIN d : d[j].place # LegacyOf(r.place)
    BY <2>2, DroppedMoves
  <2> HIDE DEF s, d
  <2>4. \A i \in DOMAIN lru' : lru'[i].place \notin {r.place, LegacyOf(r.place)}
    BY <2>1, <2>2, <2>3 DEF From
  <2>5. {"memory"} \in SUBSET Stores /\ "redis" \notin {"memory"}
    BY DEF Stores
  <2>6. Books /\ writes' = writes + 1 /\ writes' \in 0..MaxWrites
    BY <1>1, <2>1, <2>4, <2>5, EffectBooks
  <2>7. RedisMoves(redis')
    BY <2>1, RedisAlone
  <2> QED BY <1>4, <2>1, <2>3, <2>6, <2>7, IdleOK, LruOfInv
<1> QED BY <1>5, <1>6, <1>7 DEF Local

(***************************************************************************)
(* The steps of the cache.                                                 *)
(***************************************************************************)
LEMMA StepKeeps ==
    ASSUME CInv, LruMove(lru'), RedisMoves(redis'), Books, writes' \in {writes, writes + 1},
           writes' \in 0..MaxWrites, unretired' \subseteq Places,
           \A p \in unretired \ unretired' : redis'[LegacyOf(p)] = Nothing,
           ok' \in BOOLEAN, due' \in BOOLEAN, UNCHANGED <<cipher, restarts>>,
           \/ call' = call
           \/ \E c \in Callers : \E r :
                 call' = [call EXCEPT ![c] = r] /\ CallOK(r) /\ OldOK(r)
    PROVE  CInv' /\ LegacyStep
<1>1. TypesStay
  BY DEF TypesStay, LruMove, Lru, RedisMoves
<1>2. Moves
  BY DEF Moves, LruMove, RedisMoves
<1> QED BY <1>1, <1>2, MoveKeeps

\* Nothing is written.
LEMMA QuietKeeps ==
    ASSUME CInv, LruMove(lru'), RedisMoves(redis'), unretired' \subseteq Places,
           \A p \in unretired \ unretired' : redis'[LegacyOf(p)] = Nothing,
           ok' \in BOOLEAN, due' \in BOOLEAN, UNCHANGED <<writes, newest, cipher, restarts>>,
           \/ call' = call
           \/ \E c \in Callers : \E r :
                 call' = [call EXCEPT ![c] = r] /\ CallOK(r) /\ OldOK(r)
    PROVE  CInv' /\ LegacyStep
<1>1. Books
  BY DEF Books, CInv, CacheTypeOK, Floor
<1>2. writes' \in 0..MaxWrites
  BY DEF CInv, CacheTypeOK
<1> QED BY <1>1, <1>2, StepKeeps

\* Only a call moves, and what is known of the link.
LEMMA CallKeeps ==
    ASSUME CInv, NEW c \in Callers, NEW r, CallOK(r), OldOK(r), call' = [call EXCEPT ![c] = r],
           ok' \in BOOLEAN, due' \in BOOLEAN,
           UNCHANGED <<cipher, redis, lru, writes, newest, unretired, restarts>>
    PROVE  CInv' /\ LegacyStep
<1>1. LruMove(lru') /\ RedisMoves(redis') /\ unretired' \subseteq Places
  BY LruOfInv, RedisAlone DEF CInv, CacheTypeOK
<1> QED BY <1>1, QuietKeeps

LEMMA LinkKeeps ==
    ASSUME CInv, ok' \in BOOLEAN, due' \in BOOLEAN, UNCHANGED cacheButLink
    PROVE  CInv' /\ LegacyStep
<1>1. LruMove(lru') /\ RedisMoves(redis') /\ unretired' \subseteq Places
  BY LruOfInv, RedisAlone DEF CInv, CacheTypeOK, cacheButLink
<1> QED BY <1>1, QuietKeeps DEF cacheButLink

LEMMA CallOfInv ==
    ASSUME CInv, NEW c \in Callers
    PROVE  /\ CallOK(call[c]) /\ call[c] \in Call /\ call[c].place \in Places
           /\ Kept(call[c].place, call[c].floor) /\ LegacyOf(call[c].place) \in Places
           /\ ok \in BOOLEAN /\ due \in BOOLEAN /\ unretired \subseteq Places
<1>1. CallOK(call[c]) /\ ok \in BOOLEAN /\ due \in BOOLEAN /\ unretired \subseteq Places
  BY DEF CInv, CacheTypeOK
<1>2. call[c] \in Call /\ call[c].place \in Places /\ Kept(call[c].place, call[c].floor)
  BY <1>1 DEF CallOK, Call
<1> QED BY <1>1, <1>2, LegacyPlace

LEMMA BeginKeeps ==
    ASSUME CInv, NEW c \in Callers, NEW r, CallOK(r), Begin(c, r)
    PROVE  CInv' /\ LegacyStep
<1>1. ok \in BOOLEAN /\ due \in BOOLEAN
  BY DEF CInv, CacheTypeOK
<1>2. UNCHANGED <<ok, cipher, redis, unretired, restarts>>
  BY DEF Begin
<1>3. ASSUME NEW pc \in {"redis", "ping"}, call' = [call EXCEPT ![c] = [r EXCEPT !.pc = pc]],
             due' \in BOOLEAN, UNCHANGED <<lru, writes, newest>>
      PROVE  CInv' /\ LegacyStep
  BY <1>1, <1>2, <1>3, OnwardOK, CallKeeps
<1>4. CASE Local(c, r) /\ UNCHANGED due
  BY <1>1, <1>2, <1>4, LocalKeeps
<1> QED BY <1>1, <1>3, <1>4 DEF Begin

LEMMA PingsKeep ==
    ASSUME CInv, NEW c \in Callers, PingAnswered(c) \/ PingFailed(c)
    PROVE  CInv' /\ LegacyStep
<1>1. CallOK(call[c]) /\ ok \in BOOLEAN /\ due \in BOOLEAN
  BY CallOfInv
<1>2. ASSUME ok' \in BOOLEAN, UNCHANGED <<due, cipher, redis, lru, writes, newest, unretired, restarts>>,
             call' = [call EXCEPT ![c].pc = "redis"]
      PROVE  CInv' /\ LegacyStep
  <2>1. call' = [call EXCEPT ![c] = [call[c] EXCEPT !.pc = "redis"]]
    BY <1>2
  <2> QED BY <1>1, <1>2, <2>1, OnwardOK, CallKeeps
<1>3. CASE PingAnswered(c)
  BY <1>2, <1>3 DEF PingAnswered
<1>4. CASE PingFailed(c)
  <2>1. UNCHANGED <<ok, due, cipher, redis, unretired, restarts>>
    BY <1>4 DEF PingFailed
  <2>2. CASE Local(c, call[c])
    BY <1>1, <2>1, <2>2, LocalKeeps
  <2> QED BY <1>1, <1>2, <1>4, <2>1, <2>2 DEF PingFailed
<1> QED BY <1>3, <1>4

\* What Redis holds is at least as new as what it acknowledged.
LEMMA ParsedKeeps ==
    ASSUME CInv, NEW c \in Callers, NEW v \in Value \cup {Nothing}, v # Nothing, NEW old \in BOOLEAN,
           Parsed(c, v, old), UNCHANGED <<due, cipher, redis, unretired, restarts>>,
           \/ ~old /\ v = redis[call[c].place]
           \/ old /\ v = redis[LegacyOf(call[c].place)]
    PROVE  CInv' /\ LegacyStep
<1>1. /\ CallOK(call[c]) /\ Kept(call[c].place, call[c].floor)
      /\ ok \in BOOLEAN /\ due \in BOOLEAN
  BY CallOfInv
<1>2. CASE Readable(v)
  <2> DEFINE x == Answered(call[c], v, "redis", old, FALSE)
  <2>1. "redis" \in Stores /\ FALSE \in BOOLEAN
    BY DEF Stores
  <2>2. ~old => v.n >= call[c].floor.n \/ "redis" \notin call[c].floor.stores
    BY <1>1 DEF Kept, NotOlder
  <2>3. old => \/ v.n >= call[c].floor.n \/ "redis" \notin call[c].floor.stores
               \/ call[c].place \in unretired
    BY <1>1 DEF Kept, LegacyNotOlder
  <2>4. CallOK(x) /\ OldOK(x)
    BY <1>1, <2>1, <2>2, <2>3, AnsweredOK
  <2>5. call' = [call EXCEPT ![c] = x] /\ UNCHANGED <<ok, lru, writes, newest>>
    BY <1>2 DEF Parsed
  <2> HIDE DEF x
  <2> QED BY <1>1, <2>4, <2>5, CallKeeps
<1>3. CASE ok' = FALSE /\ Local(c, call[c])
  BY <1>1, <1>3, LocalKeeps
<1> QED BY <1>2, <1>3 DEF Parsed

LEMMA GetKeeps ==
    ASSUME CInv, NEW c \in Callers, RedisGet(c) \/ RedisGetLegacy(c)
    PROVE  CInv' /\ LegacyStep
<1>1. /\ CallOK(call[c]) /\ call[c].place \in Places /\ LegacyOf(call[c].place) \in Places
      /\ ok \in BOOLEAN /\ due \in BOOLEAN
  BY CallOfInv
<1>2. redis \in [Places -> Value \cup {Nothing}]
  BY DEF CInv, CacheTypeOK
<1>3. UNCHANGED <<due, cipher, redis, unretired, restarts>>
  BY DEF RedisGet, RedisGetLegacy
<1>4. CASE Local(c, call[c]) /\ UNCHANGED ok
  BY <1>1, <1>3, <1>4, LocalKeeps
<1>5. CASE RedisGet(c)
  <2> DEFINE v == redis[call[c].place]
  <2>1. v \in Value \cup {Nothing} /\ FALSE \in BOOLEAN
    BY <1>1, <1>2
  <2>2. CASE v # Nothing /\ Parsed(c, v, FALSE)
    BY <1>3, <2>1, <2>2, ParsedKeeps
  <2>3. CASE call' = [call EXCEPT ![c].pc = "legacy"] /\ UNCHANGED <<ok, lru, writes, newest>>
    <3>1. call' = [call EXCEPT ![c] = [call[c] EXCEPT !.pc = "legacy"]]
      BY <2>3
    <3> QED BY <1>1, <1>3, <2>3, <3>1, OnwardOK, CallKeeps
  <2> QED BY <1>4, <1>5, <2>2, <2>3 DEF RedisGet
<1>6. CASE RedisGetLegacy(c)
  <2> DEFINE v == redis[LegacyOf(call[c].place)]
  <2>1. v \in Value \cup {Nothing} /\ TRUE \in BOOLEAN
    BY <1>1, <1>2
  <2>2. CASE v # Nothing /\ Parsed(c, v, TRUE)
    BY <1>3, <2>1, <2>2, ParsedKeeps
  <2> QED BY <1>4, <1>6, <2>2 DEF RedisGetLegacy
<1> QED BY <1>5, <1>6

LEMMA SetKeeps == ASSUME CInv, NEW c \in Callers, RedisSet(c) PROVE CInv' /\ LegacyStep
<1> DEFINE r == call[c]
           x == IF Tenanted(r.place) THEN [r EXCEPT !.pc = "retire"] ELSE Idle
<1>1. /\ CallOK(r) /\ r \in Call /\ r.place \in Places /\ LegacyOf(r.place) \in Places
      /\ ok \in BOOLEAN /\ due \in BOOLEAN /\ unretired \subseteq Places
  BY CallOfInv
<1>2. /\ redis' = [redis EXCEPT ![r.place] = Encoded(r)] /\ Effect(r.place, {"redis"})
      /\ unretired' = IF redis[LegacyOf(r.place)] # Nothing THEN unretired \cup {r.place}
                      ELSE unretired
      /\ call' = [call EXCEPT ![c] = x] /\ UNCHANGED <<ok, due, cipher, lru, restarts>>
  BY DEF RedisSet
<1>3. CallOK(x) /\ OldOK(x)
  <2>1. CallOK([r EXCEPT !.pc = "retire"]) /\ OldOK([r EXCEPT !.pc = "retire"])
    BY <1>1, OnwardOK
  <2> QED BY <2>1, IdleOK, LruOfInv
<1>4. Encoded(r) \in Value /\ Encoded(r).n = writes + 1 /\ writes \in Nat
  BY <1>1, <1>2, EncodedType DEF Effect
<1> HIDE DEF x, r
<1>5. RedisMoves(redis')
  <2>1. Encoded(r) \in Value \cup {Nothing} /\ Encoded(r).n > writes
    BY <1>4
  <2> QED BY <1>1, <1>2, <2>1, RedisWritten
<1>6. redis \in [Places -> Value \cup {Nothing}]
  BY DEF CInv, CacheTypeOK
<1>7. redis'[r.place].n >= writes + 1
  BY <1>1, <1>2, <1>4, <1>6
<1>8. redis'[LegacyOf(r.place)] = Nothing \/ redis'[LegacyOf(r.place)].n >= writes + 1 \/ r.place \in unretired'
  BY <1>1, <1>2, <1>6, <1>7
<1>9. {"redis"} \in SUBSET Stores /\ "memory" \notin {"redis"}
  BY DEF Stores
<1>10. Books /\ writes' = writes + 1 /\ writes' \in 0..MaxWrites
  BY <1>1, <1>2, <1>7, <1>8, <1>9, EffectBooks
<1>11. LruMove(lru') /\ unretired' \subseteq Places /\ unretired \ unretired' = {}
  BY <1>1, <1>2, LruOfInv
<1> QED BY <1>1, <1>2, <1>3, <1>5, <1>10, <1>11, StepKeeps

LEMMA RetireKeeps == ASSUME CInv, NEW c \in Callers, Retire(c) PROVE CInv' /\ LegacyStep
<1> DEFINE old == LegacyOf(call[c].place)
<1>1. /\ call[c].place \in Places /\ old \in Places
      /\ ok \in BOOLEAN /\ due \in BOOLEAN /\ unretired \subseteq Places
  BY CallOfInv
<1>2. /\ \/ /\ redis' = [redis EXCEPT ![old] = Nothing]
            /\ unretired' = {p \in unretired : p[2] # old[2]}
         \/ UNCHANGED <<redis, unretired>>
      /\ call' = [call EXCEPT ![c] = Idle]
      /\ UNCHANGED <<ok, due, cipher, lru, writes, newest, restarts>>
  BY DEF Retire
<1>3. redis \in [Places -> Value \cup {Nothing}]
  BY DEF CInv, CacheTypeOK
<1>4. RedisMoves(redis')
  BY <1>1, <1>2, RedisAlone, RedisWritten
<1>5. unretired' \subseteq Places
  BY <1>1, <1>2
<1>6. ASSUME NEW p \in unretired \ unretired' PROVE redis'[LegacyOf(p)] = Nothing
  <2>1. p[2] = old[2]
    BY <1>2
  <2>2. LegacyOf(p) = old
    BY <2>1 DEF LegacyOf
  <2> QED BY <1>1, <1>2, <1>3, <1>6, <2>2
<1> HIDE DEF old
<1> QED BY <1>1, <1>2, <1>4, <1>5, <1>6, LruOfInv, IdleOK, QuietKeeps

LEMMA DeleteKeeps == ASSUME CInv, NEW c \in Callers, RedisDelete(c) PROVE CInv' /\ LegacyStep
<1> DEFINE p == call[c].place
           q == LegacyOf(p)
           s == Dropped(lru, p)
           d == Dropped(s, q)
<1>1. /\ p \in Places /\ q \in Places
      /\ ok \in BOOLEAN /\ due \in BOOLEAN /\ unretired \subseteq Places
  BY CallOfInv
<1>2. /\ \/ redis' = [redis EXCEPT ![p] = Nothing, ![q] = Nothing] /\ Effect(p, Stores)
         \/ UNCHANGED redis /\ Effect(p, {"memory"})
      /\ lru' = d /\ call' = [call EXCEPT ![c] = Idle]
      /\ UNCHANGED <<ok, due, cipher, unretired, restarts>>
  BY DEF RedisDelete
<1>3. redis \in [Places -> Value \cup {Nothing}]
  BY DEF CInv, CacheTypeOK
<1>4. LruMove(s) /\ \A j \in DOMAIN s : s[j].place # p
  BY LruOfInv, DroppedMoves
<1>5. LruMove(d) /\ From(d, s) /\ \A j \in DOMAIN d : d[j].place # q
  BY <1>4, DroppedMoves
<1> HIDE DEF s, d
<1>6. \A i \in DOMAIN lru' : lru'[i].place \notin {p, q}
  BY <1>2, <1>4, <1>5 DEF From
<1>7. RedisMoves(redis') /\ Books /\ writes' = writes + 1 /\ writes' \in 0..MaxWrites
  <2>1. CASE redis' = [redis EXCEPT ![p] = Nothing, ![q] = Nothing] /\ Effect(p, Stores)
    <3>1. /\ redis' \in [Places -> Value \cup {Nothing}]
          /\ \A x \in Places : redis'[x] = redis[x] \/ redis'[x] = Nothing
          /\ redis'[p] = Nothing /\ redis'[q] = Nothing
      BY <1>1, <1>3, <2>1
    <3>2. RedisMoves(redis')
      BY <3>1 DEF RedisMoves
    <3>3. Books /\ writes' = writes + 1 /\ writes' \in 0..MaxWrites
      BY <1>1, <1>6, <2>1, <3>1, EffectBooks
    <3> QED BY <3>2, <3>3
  <2>2. CASE UNCHANGED redis /\ Effect(p, {"memory"})
    <3>1. {"memory"} \in SUBSET Stores /\ "redis" \notin {"memory"}
      BY DEF Stores
    <3>2. Books /\ writes' = writes + 1 /\ writes' \in 0..MaxWrites
      BY <1>1, <1>6, <2>2, <3>1, EffectBooks
    <3>3. RedisMoves(redis')
      BY <2>2, RedisAlone
    <3> QED BY <3>2, <3>3
  <2> QED BY <1>2, <2>1, <2>2
<1> QED BY <1>1, <1>2, <1>5, <1>7, IdleOK, LruOfInv, StepKeeps

LEMMA FailsKeeps == ASSUME CInv, NEW c \in Callers, RedisFails(c) PROVE CInv' /\ LegacyStep
<1>1. CallOK(call[c]) /\ due \in BOOLEAN
  BY CallOfInv
<1>2. /\ ok' = FALSE /\ Local(c, call[c]) /\ UNCHANGED <<due, cipher, unretired, restarts>>
      /\ \/ redis' = redis
         \/ call[c].op = "set" /\ redis' = [redis EXCEPT ![call[c].place] = Encoded(call[c])]
  BY DEF RedisFails
<1> QED BY <1>1, <1>2, LocalKeeps

LEMMA SurroundingsKeep == ASSUME CInv, Surroundings PROVE CInv' /\ LegacyStep
<1>1. /\ ok \in BOOLEAN /\ due \in BOOLEAN /\ unretired \subseteq Places
      /\ redis \in [Places -> Value \cup {Nothing}]
  BY DEF CInv, CacheTypeOK
<1>2. Lru(lru) /\ Own(lru) /\ LruMove(lru) /\ Len(lru) <= Capacity /\ Len(lru) \in Nat
  BY LruOfInv
<1>3. CASE HealthCheckFails \/ IntervalPasses
  BY <1>1, <1>3, LinkKeeps DEF HealthCheckFails, IntervalPasses, cacheButLink
<1>4. ASSUME NEW p \in Places, ExpireInRedis(p) PROVE CInv' /\ LegacyStep
  <2>1. redis' = [redis EXCEPT ![p] = Nothing]
        /\ UNCHANGED <<ok, due, cipher, lru, call, writes, newest, unretired, restarts>>
    BY <1>4 DEF ExpireInRedis
  <2>2. RedisMoves(redis')
    BY <2>1, RedisWritten
  <2> QED BY <1>1, <1>2, <2>1, <2>2, QuietKeeps
<1>5. ASSUME LruMove(lru'),
             UNCHANGED <<ok, due, cipher, redis, call, writes, newest, unretired, restarts>>
      PROVE  CInv' /\ LegacyStep
  BY <1>1, <1>5, RedisAlone, QuietKeeps
<1>6. ASSUME NEW i \in DOMAIN lru, ExpireInMemory(i) PROVE CInv' /\ LegacyStep
  <2>1. lru' = [lru EXCEPT ![i] = [lru[i] EXCEPT !.live = FALSE]]
        /\ UNCHANGED <<ok, due, cipher, redis, call, writes, newest, unretired, restarts>>
    BY <1>6 DEF ExpireInMemory
  <2> DEFINE e == [lru[i] EXCEPT !.live = FALSE]
  <2>2. lru \in Seq(Entry) /\ lru[i] \in Entry
    BY <1>2 DEF Lru
  <2>3. e \in Entry /\ e.place = lru[i].place /\ e.value = lru[i].value /\ e.live = FALSE
    BY <2>2 DEF Entry
  <2> HIDE DEF e
  <2>4. /\ lru' \in Seq(Entry) /\ Len(lru') = Len(lru) /\ DOMAIN lru' = DOMAIN lru
        /\ \A j \in DOMAIN lru : lru'[j] = IF j = i THEN e ELSE lru[j]
    BY <2>1, <2>2, <2>3 DEF e
  <2>5. Lru(lru') /\ Own(lru')
    BY <1>2, <2>3, <2>4 DEF Lru, Apart, Own
  <2>6. LruMove(lru')
    BY <1>2, <2>3, <2>4, <2>5 DEF LruMove
  <2> QED BY <1>5, <2>1, <2>6
<1>7. CASE PurgeExpired
  <2>1. PICK n \in 0..Len(lru) : \E kept \in [1..n -> DOMAIN lru] :
              /\ \A j, k \in 1..n : j < k => kept[j] < kept[k]
              /\ lru' = [k \in 1..n |-> lru[kept[k]]]
    BY <1>7 DEF PurgeExpired
  <2>2. PICK kept \in [1..n -> DOMAIN lru] :
              /\ \A j, k \in 1..n : j < k => kept[j] < kept[k]
              /\ lru' = [k \in 1..n |-> lru[kept[k]]]
    BY <2>1
  <2>3. UNCHANGED <<ok, due, cipher, redis, call, writes, newest, unretired, restarts>>
    BY <1>7 DEF PurgeExpired
  <2>4. lru \in Seq(Entry) /\ n \in Nat /\ DOMAIN lru = 1..Len(lru)
    BY <1>2, <2>2 DEF Lru
  <2>5. /\ lru' \in Seq(Entry) /\ Len(lru') = n /\ DOMAIN lru' = 1..n
        /\ \A k \in 1..n : kept[k] \in DOMAIN lru /\ lru'[k] = lru[kept[k]]
    BY <2>2, <2>4
  <2>6. Apart(lru')
    <3> SUFFICES ASSUME NEW j \in 1..n, NEW k \in 1..n, lru'[j].place = lru'[k].place PROVE j = k
      BY <2>5 DEF Apart
    <3>1. kept[j] = kept[k]
      BY <1>2, <2>5 DEF Lru, Apart
    <3>2. kept[j] \in Nat /\ kept[k] \in Nat
      BY <2>4, <2>5
    <3> QED BY <2>2, <3>1, <3>2
  <2>7. Own(lru')
    BY <1>2, <2>5 DEF Own
  <2>8. LruMove(lru')
    BY <1>2, <2>2, <2>4, <2>5, <2>6, <2>7 DEF LruMove, Lru
  <2> QED BY <1>5, <2>3, <2>8
<1> QED BY <1>3, <1>4, <1>6, <1>7 DEF Surroundings

\* A new process has an empty LRU and no calls.
LEMMA RestartKeepsCache == ASSUME CInv, Restart PROVE CInv' /\ LegacyStep
<1>1. /\ restarts' \in 0..MaxRestarts /\ ok' \in BOOLEAN /\ due' \in BOOLEAN /\ cipher' \in Ciphers
      /\ lru' = <<>> /\ call' = [c \in Callers |-> Idle]
      /\ UNCHANGED <<redis, writes, newest, unretired>>
  BY DEF Restart, CInv, CacheTypeOK
<1>2. Idle \in Call /\ Kept(Idle.place, Idle.floor) /\ Idle.pc = "idle" /\ Idle.answer.raised = FALSE
      /\ Idle.floor.stores = {} /\ Idle.floor.n <= writes
  BY IdleOK, IdleType, LruOfInv DEF CallOK, Kept
<1>3. lru' \in Seq(Entry) /\ Len(lru') = 0 /\ DOMAIN lru' = {}
  BY <1>1
<1>4. ASSUME NEW p \in Places PROVE Kept(p, newest[p])'
  <2>1. Kept(p, newest[p])
    BY DEF CInv
  <2>2. LegacyOf(p)' = LegacyOf(p)
    BY DEF LegacyOf
  <2> QED BY <1>1, <1>3, <2>1, <2>2 DEF Kept, NotOlder, LegacyNotOlder
<1>5. ASSUME NEW c \in Callers PROVE CallOK(call[c])'
  <2>1. PICK x : x = Idle
    OBVIOUS
  <2>2. CallOK(x)'
    BY <1>1, <1>2, <2>1 DEF CallOK, Kept, NotOlder, LegacyNotOlder, ReadOK, RaiseOK
  <2>3. call'[c] = x
    BY <1>1, <2>1
  <2> QED BY <2>2, <2>3
<1>6. call' \in [Callers -> Call]
  BY <1>1, <1>2
<1>7. CacheTypeOK'
  BY <1>1, <1>3, <1>6 DEF CInv, CacheTypeOK, Entry
<1>8. Own(lru)'
  BY <1>3 DEF Own
<1>9. LegacyStep
  BY <1>1, <1>2 DEF LegacyStep
<1> QED BY <1>4, <1>5, <1>7, <1>8, <1>9 DEF CInv

LEMMA CacheInitHolds == ASSUME CacheInit PROVE CInv
<1>1. PICK old \in [OldKeys -> {Nothing} \cup [n : {0}, by : Tenants, cipher : {Plain}]] :
          redis = [p \in Places |-> IF ~Tenanted(p) /\ p[2] \in OldKeys THEN old[p[2]] ELSE Nothing]
  BY DEF CacheInit
<1>2. [n : {0}, by : Tenants, cipher : {Plain}] \subseteq Value
  BY DEF Value
<1>3. redis \in [Places -> Value \cup {Nothing}] /\ \A p \in Places : redis[p] = Nothing \/ redis[p].n >= 0
  BY <1>1, <1>2
<1>4. /\ ok \in BOOLEAN /\ due \in BOOLEAN /\ cipher \in Ciphers /\ lru = <<>>
      /\ call = [c \in Callers |-> Idle] /\ writes = 0 /\ restarts = 0 /\ unretired = {}
      /\ newest = [p \in Places |-> [n |-> 0, stores |-> Stores]]
  BY DEF CacheInit
<1>5. lru \in Seq(Entry) /\ Len(lru) = 0 /\ DOMAIN lru = {}
  BY <1>4
<1>6. newest \in [Places -> Floor] /\ \A p \in Places : newest[p].n = 0
  BY <1>4 DEF Floor
<1>7. ASSUME NEW p \in Places PROVE Kept(p, newest[p])
  <2>1. LegacyOf(p) \in Places
    BY LegacyPlace
  <2> QED BY <1>3, <1>4, <1>5, <1>6, <2>1 DEF Kept, NotOlder, LegacyNotOlder
<1>8. CallOK(Idle)
  BY <1>4, IdleOK
<1>9. CacheTypeOK
  BY <1>3, <1>4, <1>5, <1>6, <1>8 DEF CacheTypeOK, CallOK, Entry, Floor
<1>10. Own(lru)
  BY <1>5 DEF Own
<1>11. \A c \in Callers : CallOK(call[c])
  BY <1>4, <1>8
<1> QED BY <1>7, <1>9, <1>10, <1>11 DEF CInv

\* The cache is used by routes with a tenant of theirs.
LEMMA RoutesKeep ==
    ASSUME Inv, CInv, NEW c \in Callers,
           \/ CacheResponse(c) \/ StoreRating(c) \/ Respond(c)
           \/ \E t \in Tenants : AskRead(c, t) \/ AskRate(c, t) \/ AskRated(c, t)
           \/ \E op \in {"get", "set", "delete"}, t \in Tenants \cup {Legacy} :
                 UseDirectly(c, op, <<t, Query>>)
    PROVE  CInv' /\ LegacyStep
<1>1. ASSUME NEW t \in Tenants PROVE <<t, Query>> \in Places /\ <<t, Feedback>> \in Places
  BY DEF Places
<1>2. "read" \in Routes /\ "rate" \in Routes /\ "rated" \in Routes /\ "query" \in Routes /\ "direct" \in Routes
  BY DEF Routes
<1>3. CASE CacheResponse(c)
  <2>1. gate[c].by \in Tenants
    BY DEF Inv, LimiterTypeOK, Gate
  <2>2. Begin(c, Request("set", <<gate[c].by, Query>>, gate[c].by, "query"))
    BY <1>3 DEF CacheResponse
  <2>3. CallOK(Request("set", <<gate[c].by, Query>>, gate[c].by, "query"))
    BY <1>1, <1>2, <2>1, RequestOK
  <2> QED BY <2>2, <2>3, BeginKeeps
<1>4. CASE StoreRating(c)
  <2>1. call[c].by \in Tenants
    BY CallOfInv DEF Call
  <2>2. Begin(c, Request("set", <<call[c].by, Feedback>>, call[c].by, "direct"))
    BY <1>4 DEF StoreRating
  <2>3. CallOK(Request("set", <<call[c].by, Feedback>>, call[c].by, "direct"))
    BY <1>1, <1>2, <2>1, RequestOK
  <2> QED BY <2>2, <2>3, BeginKeeps
<1>5. CASE Respond(c)
  <2>1. call' = [call EXCEPT ![c] = Idle]
        /\ UNCHANGED <<ok, due, cipher, redis, lru, writes, newest, unretired, restarts>>
    BY <1>5 DEF Respond
  <2> QED BY <2>1, IdleOK, LruOfInv, CallOfInv, CallKeeps
<1>6. ASSUME NEW t \in Tenants, NEW name \in Routes, NEW key \in {Query, Feedback}, Look(c, name, t, key)
      PROVE  CInv' /\ LegacyStep
  <2>1. CallOK(Request("get", <<t, key>>, t, name))
    BY <1>1, RequestOK
  <2> QED BY <1>6, <2>1, BeginKeeps DEF Look
<1>7. ASSUME NEW op \in {"get", "set", "delete"}, NEW t \in Tenants \cup {Legacy},
             UseDirectly(c, op, <<t, Query>>)
      PROVE  CInv' /\ LegacyStep
  <2> DEFINE by == CHOOSE u \in Tenants : t \in {u, Legacy}
  <2>1. <<t, Query>> \in Places /\ by \in Tenants
    BY DEF Places
  <2>2. Begin(c, Request(op, <<t, Query>>, by, "direct"))
    BY <1>7 DEF UseDirectly
  <2>3. CallOK(Request(op, <<t, Query>>, by, "direct"))
    BY <1>2, <2>1, RequestOK
  <2> QED BY <2>2, <2>3, BeginKeeps
<1> QED BY <1>2, <1>3, <1>4, <1>5, <1>6, <1>7 DEF AskRead, AskRate, AskRated

LEMMA CacheKeeps == ASSUME Inv, CInv, [Next]_vars PROVE CInv' /\ LegacyStep
<1>1. ok \in BOOLEAN /\ due \in BOOLEAN
  BY DEF CInv, CacheTypeOK
<1>2. ASSUME ok' \in BOOLEAN, due' \in BOOLEAN, UNCHANGED cacheButLink PROVE CInv' /\ LegacyStep
  BY <1>2, LinkKeeps
<1>3. ASSUME UNCHANGED cacheVars PROVE CInv' /\ LegacyStep
  BY <1>1, <1>2, <1>3 DEF cacheVars, cacheButLink
<1>4. ASSUME NEW c \in Callers, GatePing(c) \/ \E t \in Tenants : AskQuery(c, t)
      PROVE  CInv' /\ LegacyStep
  <2>1. UNCHANGED cacheButLink /\ (ok' = ok \/ ok' = TRUE) /\ (due' = due \/ due' = FALSE)
    BY <1>4, Zenon DEF GatePing, AskQuery
  <2> QED BY <1>1, <1>2, <2>1
<1>5. ASSUME NEW c \in Callers, Pipeline(c) \/ PipelineFails(c) \/ Undo(c) \/ QueryFails(c)
      PROVE  CInv' /\ LegacyStep
  BY <1>3, <1>5, Zenon DEF Pipeline, PipelineFails, Undo, QueryFails
<1>6. ASSUME NEW c \in Callers, CallStep(c) PROVE CInv' /\ LegacyStep
  BY <1>6, PingsKeep, GetKeeps, SetKeeps, RetireKeeps, DeleteKeeps, FailsKeeps DEF CallStep
<1>7. CASE Tick \/ (\E t \in Tenants : KeyExpires(t)) \/ UNCHANGED vars
  BY <1>3, <1>7 DEF Tick, KeyExpires, vars
<1>8. CASE RestartAll
  BY <1>8, RestartKeepsCache DEF RestartAll
<1> QED BY <1>4, <1>5, <1>6, <1>7, <1>8, RoutesKeep, SurroundingsKeep DEF Next

\* Whatever calls overlap in the process, and however Redis goes and comes, the stores
\* keep what was written and deleted, and calls may rely on it.
THEOREM CacheInvariance == Spec => [](Inv /\ CInv)
<1>1. Init => CInv
  BY CacheInitHolds DEF Init
<1> QED BY <1>1, CacheKeeps, Invariance, PTL DEF Spec

LEMMA CacheIsConsistent == ASSUME Inv, CInv PROVE CacheConsistent
<1>1. TypeOK
  BY DEF Inv, CInv, LimiterTypeOK, Gate, Member, Granted, Bucket, TypeOK
<1>2. ReadsNewest
  BY DEF CInv, CallOK, ReadOK, ReadsNewest
<1>3. RaisesOnlyInOutage
  BY DEF CInv, CallOK, RaiseOK, RaisesOnlyInOutage
<1> QED BY <1>1, <1>2, <1>3 DEF CacheConsistent

\* A get answers nothing older than the newest write or delete its store had when it
\* began, and raises only on what this process encrypted into the LRU: for any number of
\* calls at once, tenants, keys, outages, expiries and restarts.
THEOREM ReadsStayFresh == Spec => []CacheConsistent
BY CacheInvariance, CacheIsConsistent, PTL

\* A copy of before the tenants comes back over a tenant's own later write only if Redis
\* refused to retire it or the write went to the other store.
THEOREM LegacyStaysRetired == Spec => LegacyRetired
<1>1. Inv /\ CInv /\ [Next]_vars =>
        [\A c \in Callers :
            LET r == call'[c] IN
            (call[c].pc # "done" /\ r.pc = "done" /\ r.op = "get" /\ r.answer.old) =>
                \/ r.answer.value.n >= r.floor.n
                \/ r.answer.from \notin r.floor.stores
                \/ r.place \in unretired]_cacheVars
  BY CacheKeeps DEF LegacyStep
<1> QED BY <1>1, CacheInvariance, PTL DEF Spec, LegacyRetired
=============================================================================
