---------------------- MODULE ConversationStoreProofs ----------------------
(***************************************************************************)
(* What ConversationStore promises about threads, for every set of         *)
(* requests, threads and keys.  The inductive invariant says what the      *)
(* watch is for: as long as nobody woke a request, the thread it is about  *)
(* to write is the stored one with its turn added; and a turn is not yet   *)
(* stored while its request may still store it, unless the reply of an     *)
(* EXEC that stored it was lost.  The list invariant says the same of a    *)
(* key's list, as long as no plain read of it fails.                       *)
(* Last, that lists and threads agree across the two transactions of an    *)
(* append (ThreadLists), however reads fail.                               *)
(***************************************************************************)
EXTENDS ThreadLists, FiniteSetTheorems, TLAPS

Unwritten ==
    \A r \in Request \ again : pc[r] \in {"idle", "append", "save"} =>
        \A t \in Thread : \A i \in DOMAIN turns[t] : turns[t][i] # r

DraftCurrent ==
    \A r \in Request : pc[r] = "save" /\ ~dirty[r] => draft[r] = NewThread(r)

Inv == ThreadsTypeOK /\ TurnsOnce /\ Unwritten /\ DraftCurrent

-----------------------------------------------------------------------------
\* The end of a sequence.
LEMMA Suffix ==
    ASSUME NEW S, NEW a \in Seq(S), NEW k \in Nat, k < Len(a)
    PROVE  LET n == SubSeq(a, k + 1, Len(a)) IN
           /\ n \in Seq(S) /\ Len(n) = Len(a) - k
           /\ \A i \in 1..Len(n) : n[i] = a[i + k]
OBVIOUS

\* What a thread becomes with one more turn: a sequence whose members are the
\* new turn and old turns, each in one place if they were, but for those of X.
LEMMA OneMoreTurn ==
    ASSUME NEW s \in Seq(Turn), NEW r \in Request, NEW X
    PROVE  LET n == LastOf(Append(s, r), MaxTurns) IN
           /\ n \in Seq(Turn)
           /\ \A i \in DOMAIN n : n[i] = r \/ \E j \in DOMAIN s : n[i] = s[j]
           /\ (/\ \A i, j \in DOMAIN s : s[i] = s[j] => i = j \/ s[i] \in X
               /\ r \in X \/ \A i \in DOMAIN s : s[i] # r)
              => \A i, j \in DOMAIN n : n[i] = n[j] => i = j \/ n[i] \in X
<1> DEFINE a == Append(s, r)
           n == LastOf(a, MaxTurns)
           off == IF Len(a) > MaxTurns THEN Len(a) - MaxTurns ELSE 0
<1>1. /\ a \in Seq(Turn) /\ Len(a) = Len(s) + 1 /\ Len(s) \in Nat
      /\ \A i \in 1..Len(a) : a[i] = IF i = Len(a) THEN r ELSE s[i]
  BY DEF Turn
<1>2. MaxTurns \in Nat \ {0}
  BY ConstantsAssumption
<1>3. /\ n \in Seq(Turn) /\ off \in Nat /\ Len(n) = Len(a) - off
      /\ \A i \in 1..Len(n) : n[i] = a[i + off] /\ i + off \in 1..Len(a)
  <2> HIDE DEF a
  <2>1. CASE Len(a) > MaxTurns
    <3>1. off \in Nat /\ off < Len(a) /\ n = SubSeq(a, off + 1, Len(a))
      BY <1>1, <1>2, <2>1 DEF LastOf
    <3>2. /\ n \in Seq(Turn) /\ Len(n) = Len(a) - off
          /\ \A i \in 1..Len(n) : n[i] = a[i + off]
      BY <1>1, <3>1, Suffix
    <3> QED BY <1>1, <3>1, <3>2
  <2>2. CASE ~(Len(a) > MaxTurns)
    BY <1>1, <1>2, <2>2 DEF LastOf
  <2> QED BY <2>1, <2>2
<1>4. DOMAIN n = 1..Len(n) /\ DOMAIN s = 1..Len(s)
  BY <1>3
<1> HIDE DEF n, a, off
<1>5. \A i \in DOMAIN n : n[i] = r \/ \E j \in DOMAIN s : n[i] = s[j]
  <2> SUFFICES ASSUME NEW i \in DOMAIN n PROVE n[i] = r \/ \E j \in DOMAIN s : n[i] = s[j]
    OBVIOUS
  <2>1. n[i] = a[i + off] /\ i + off \in 1..Len(a)
    BY <1>3, <1>4
  <2>2. i + off = Len(a) \/ i + off \in DOMAIN s
    BY <1>1, <1>4, <2>1
  <2> QED BY <1>1, <2>1, <2>2
<1>6. ASSUME \A i, j \in DOMAIN s : s[i] = s[j] => i = j \/ s[i] \in X,
             r \in X \/ \A i \in DOMAIN s : s[i] # r,
             NEW i \in DOMAIN n, NEW j \in DOMAIN n, n[i] = n[j]
      PROVE  i = j \/ n[i] \in X
  <2>1. a[i + off] = a[j + off] /\ i + off \in 1..Len(a) /\ j + off \in 1..Len(a)
    BY <1>3, <1>4, <1>6
  <2>2. \A k \in 1..Len(a) : a[k] = (IF k = Len(a) THEN r ELSE s[k])
                             /\ (k # Len(a) => k \in DOMAIN s)
    BY <1>1, <1>4
  <2>3. i + off = j + off \/ a[i + off] \in X
    BY <1>6, <2>1, <2>2
  <2>4. n[i] = a[i + off] /\ (i + off = j + off => i = j)
    BY <1>3, <1>4
  <2> QED BY <2>3, <2>4
<1> QED BY <1>3, <1>5, <1>6 DEF n, a

\* The actions a step may be, and the requests they belong to.
LEMMA StepCases ==
    ASSUME [Next]_vars
    PROVE  \/ \E r \in Request :
                \/ Ask(r) \/ AskDelete(r) \/ ReadThread(r) \/ SaveThread(r)
                \/ ReadIndex(r) \/ WriteIndex(r) \/ EraseThread(r)
                \/ Conflict(r) \/ Abandon(r)
           \/ \E t \in Thread : ExpireThread(t)
           \/ \E k \in Key : ExpireIndex(k)
           \/ UNCHANGED vars
BY DEF Next, RequestStep

\* Initially the invariant holds: an old thread has one turn, of no request.
LEMMA InitInv == Init => Inv
<1> SUFFICES ASSUME Init PROVE Inv
  OBVIOUS
<1> USE ConstantsAssumption DEF Init
<1>1. /\ turns \in [Thread -> Seq(Turn)] /\ owner \in [Thread -> Key \cup {NoOne}]
      /\ draft \in [Request -> [owner : Key \cup {NoOne}, turns : Seq(Turn)]]
  <2>1. <<>> \in Seq(Turn) /\ <<OldTurn>> \in Seq(Turn)
    BY DEF Turn
  <2> QED BY <2>1 DEF Blank
<1>2. ThreadsTypeOK
  BY <1>1 DEF ThreadsTypeOK
<1>3. \A t \in Thread : \A i \in DOMAIN turns[t] : i = 1 /\ turns[t][i] = OldTurn
  OBVIOUS
<1>4. TurnsOnce /\ Unwritten /\ DraftCurrent
  BY <1>3 DEF TurnsOnce, Unwritten, DraftCurrent
<1> QED BY <1>2, <1>4 DEF Inv

\* What a request that starts another round or ends does to itself and the drafts.
LEMMA Rounds ==
    ASSUME ThreadsTypeOK, NEW r \in Request, NEW step \in {"append", "index", "delete"},
           Retry(r, step) \/ Finish(r)
    PROVE  /\ pc' \in [Request -> {"idle", "append", "save", "index", "relist",
                                   "delete", "erase", "done"}]
           /\ attempt' \in [Request -> 1..MaxRetries]
           /\ draft' \in [Request -> [owner : Key \cup {NoOne}, turns : Seq(Turn)]]
           /\ pc'[r] \in {step, "done"}
           /\ pc'[r] = "index" => draft'[r] = draft[r]
           /\ \A q \in Request \ {r} : pc'[q] = pc[q] /\ draft'[q] = draft[q]
<1>1. Blank \in [owner : Key \cup {NoOne}, turns : Seq(Turn)]
  <2>1. <<>> \in Seq(Turn)
    OBVIOUS
  <2> QED BY <2>1 DEF Blank
<1>2. CASE Finish(r)
  <2>1. 1 \in 1..MaxRetries
    BY ConstantsAssumption
  <2> QED BY <1>1, <1>2, <2>1 DEF ThreadsTypeOK, Finish
<1>3. CASE /\ attempt[r] < MaxRetries
           /\ pc' = [pc EXCEPT ![r] = step]
           /\ attempt' = [attempt EXCEPT ![r] = @ + 1]
           /\ draft' = [draft EXCEPT ![r] = IF step = "index" THEN @ ELSE Blank]
  <2>1. attempt[r] + 1 \in 1..MaxRetries /\ attempt \in [Request -> 1..MaxRetries]
    BY <1>3, ConstantsAssumption DEF ThreadsTypeOK
  <2>2. attempt' \in [Request -> 1..MaxRetries]
    BY <1>3, <2>1
  <2>3. draft \in [Request -> [owner : Key \cup {NoOne}, turns : Seq(Turn)]]
    BY DEF ThreadsTypeOK
  <2>4. /\ draft' \in [Request -> [owner : Key \cup {NoOne}, turns : Seq(Turn)]]
        /\ step = "index" => draft'[r] = draft[r]
        /\ \A q \in Request \ {r} : draft'[q] = draft[q]
    BY <1>1, <1>3, <2>3
  <2>5. /\ pc' \in [Request -> {"idle", "append", "save", "index", "relist",
                                "delete", "erase", "done"}]
        /\ pc'[r] = step /\ \A q \in Request \ {r} : pc'[q] = pc[q]
    BY <1>3 DEF ThreadsTypeOK
  <2> QED BY <2>2, <2>4, <2>5
<1> QED BY <1>2, <1>3 DEF Retry

\* A step that leaves the threads and the drafts of those who may store them
\* alone, and lets no request return to where it may store its turn, keeps the
\* invariant.
LEMMA Aside ==
    ASSUME Inv, ThreadsTypeOK', UNCHANGED <<turns, owner, tid, key, again>>,
           \A r \in Request : pc'[r] \in {"idle", "append", "save"} =>
               /\ pc[r] \in {"idle", "append", "save"}
               /\ pc'[r] = "save" /\ ~dirty'[r] =>
                     pc[r] = "save" /\ ~dirty[r] /\ draft'[r] = draft[r]
    PROVE  Inv'
<1>1. TurnsOnce'
  BY DEF Inv, TurnsOnce
<1>2. Unwritten'
  BY DEF Inv, Unwritten
<1>3. DraftCurrent'
  BY DEF Inv, DraftCurrent, NewThread
<1> QED BY <1>1, <1>2, <1>3 DEF Inv

LEMMA AskStep ==
    ASSUME Inv, NEW r \in Request, Ask(r) \/ AskDelete(r)
    PROVE  Inv'
<1>1. ThreadsTypeOK'
  BY DEF Inv, ThreadsTypeOK, Ask, AskDelete, stored, local
<1> QED BY <1>1, Aside DEF Inv, ThreadsTypeOK, Ask, AskDelete, stored, local

LEMMA ReadThreadStep ==
    ASSUME Inv, NEW r \in Request, ReadThread(r)
    PROVE  Inv'
<1> USE DEF ReadThread, stored
<1>1. NewThread(r) \in [owner : Key \cup {NoOne}, turns : Seq(Turn)]
  <2>1. /\ turns[tid[r]] \in Seq(Turn) /\ key[r] \in Key
        /\ owner[tid[r]] \in Key \cup {NoOne}
    BY DEF Inv, ThreadsTypeOK
  <2> QED BY <2>1, OneMoreTurn DEF NewThread
<1>2. ThreadsTypeOK'
  BY <1>1 DEF Inv, ThreadsTypeOK
<1>3. /\ pc' = [q \in Request |-> IF q = r THEN "save" ELSE pc[q]]
      /\ draft' = [q \in Request |-> IF q = r THEN NewThread(r) ELSE draft[q]]
      /\ dirty' = [q \in Request |-> IF q = r THEN FALSE ELSE dirty[q]]
  BY DEF Inv, ThreadsTypeOK
<1>4. TurnsOnce' /\ Unwritten'
  BY <1>3 DEF Inv, TurnsOnce, Unwritten
<1>5. DraftCurrent'
  BY <1>3 DEF Inv, DraftCurrent, NewThread
<1> QED BY <1>2, <1>4, <1>5 DEF Inv

\* What storing a thread means, for whoever watches it.
LEMMA SaveThreadEffect ==
    ASSUME Inv, NEW r \in Request, SaveThread(r)
    PROVE  /\ turns' = [t \in Thread |-> IF t = tid[r] THEN NewThread(r).turns ELSE turns[t]]
           /\ owner' = [t \in Thread |-> IF t = tid[r] THEN NewThread(r).owner ELSE owner[t]]
           /\ dirty' = [q \in Request |-> dirty[q] \/ (q # r /\ pc[q] = "save" /\ tid[q] = tid[r])]
           /\ pc'[r] \in {"index", "append", "done"}
           /\ pc'[r] = "index" => draft'[r] = draft[r]
           /\ \A q \in Request \ {r} : pc'[q] = pc[q] /\ draft'[q] = draft[q]
           /\ again \subseteq again' /\ again' \subseteq Request
           /\ pc'[r] = "append" => r \in again'
           /\ tid[r] \in Thread /\ turns[tid[r]] \in Seq(Turn)
<1>1. draft[r] = NewThread(r)
  BY DEF Inv, DraftCurrent, SaveThread
<1>2. /\ pc'[r] \in {"index", "append", "done"}
      /\ pc'[r] = "index" => draft'[r] = draft[r]
      /\ \A q \in Request \ {r} : pc'[q] = pc[q] /\ draft'[q] = draft[q]
  <2>1. CASE pc' = [pc EXCEPT ![r] = "index"] /\ UNCHANGED draft
    BY <2>1 DEF Inv, ThreadsTypeOK
  <2>2. CASE Retry(r, "append") \/ Finish(r)
    BY <2>2, Rounds DEF Inv
  <2> QED BY <2>1, <2>2 DEF SaveThread, Saved, LoseReply
<1>3. /\ again \subseteq again' /\ again' \subseteq Request
      /\ pc'[r] = "append" => r \in again'
  <2>1. CASE pc' = [pc EXCEPT ![r] = "index"] /\ UNCHANGED again
    BY <2>1 DEF Inv, ThreadsTypeOK
  <2>2. CASE again' = IF pc'[r] = "append" THEN again \cup {r} ELSE again
    BY <2>2 DEF Inv, ThreadsTypeOK
  <2> QED BY <2>1, <2>2 DEF SaveThread, Saved
<1> QED BY <1>1, <1>2, <1>3 DEF Inv, ThreadsTypeOK, SaveThread, Wake, WatchersOf

LEMMA SaveThreadStep ==
    ASSUME Inv, NEW r \in Request, SaveThread(r)
    PROVE  Inv'
<1>1. UNCHANGED <<tid, key>> /\ pc[r] = "save"
  BY DEF SaveThread
<1>2. /\ pc' \in [Request -> {"idle", "append", "save", "index", "relist",
                              "delete", "erase", "done"}]
      /\ attempt' \in [Request -> 1..MaxRetries]
      /\ draft' \in [Request -> [owner : Key \cup {NoOne}, turns : Seq(Turn)]]
  <2>1. CASE /\ pc' = [pc EXCEPT ![r] = "index"] /\ UNCHANGED draft
             /\ attempt' = [attempt EXCEPT ![r] = 1]
    BY <2>1, ConstantsAssumption DEF Inv, ThreadsTypeOK
  <2>2. CASE Retry(r, "append") \/ Finish(r)
    BY <2>2, Rounds DEF Inv
  <2> QED BY <2>1, <2>2 DEF SaveThread, Saved, LoseReply
<1>3. /\ turns' \in [Thread -> Seq(Turn)] /\ owner' \in [Thread -> Key \cup {NoOne}]
  <2>1. NewThread(r).turns \in Seq(Turn)
    BY SaveThreadEffect, OneMoreTurn DEF NewThread
  <2>2. NewThread(r).owner \in Key \cup {NoOne}
    BY SaveThreadEffect DEF Inv, ThreadsTypeOK, NewThread
  <2>3. turns \in [Thread -> Seq(Turn)] /\ owner \in [Thread -> Key \cup {NoOne}]
    BY DEF Inv, ThreadsTypeOK
  <2>4. turns' \in [Thread -> Seq(Turn)]
    BY <2>1, <2>3, SaveThreadEffect
  <2>5. owner' \in [Thread -> Key \cup {NoOne}]
    BY <2>2, <2>3, SaveThreadEffect
  <2> QED BY <2>4, <2>5
<1>4. ThreadsTypeOK'
  <2>1. dirty' \in [Request -> BOOLEAN] /\ again' \subseteq Request
    BY SaveThreadEffect DEF Inv, ThreadsTypeOK
  <2> QED BY <1>1, <1>2, <1>3, <2>1 DEF Inv, ThreadsTypeOK
<1>5. r \in again' \/ \A i \in DOMAIN turns[tid[r]] : turns[tid[r]][i] # r
  BY <1>1, SaveThreadEffect DEF Inv, Unwritten
<1>6. TurnsOnce'
  <2>1. \A i, j \in DOMAIN NewThread(r).turns :
          NewThread(r).turns[i] = NewThread(r).turns[j] =>
              i = j \/ NewThread(r).turns[i] \in again'
    <3>1. /\ turns[tid[r]] \in Seq(Turn)
          /\ \A i, j \in DOMAIN turns[tid[r]] :
                turns[tid[r]][i] = turns[tid[r]][j] => i = j \/ turns[tid[r]][i] \in again'
      BY SaveThreadEffect DEF Inv, TurnsOnce
    <3>2. NewThread(r).turns = LastOf(Append(turns[tid[r]], r), MaxTurns)
      BY DEF NewThread
    <3> DEFINE s == turns[tid[r]]
               n == LastOf(Append(s, r), MaxTurns)
    <3> HIDE DEF s
    <3>3. /\ s \in Seq(Turn) /\ (r \in again' \/ \A i \in DOMAIN s : s[i] # r)
          /\ \A i, j \in DOMAIN s : s[i] = s[j] => i = j \/ s[i] \in again'
      BY <1>5, <3>1 DEF s
    <3>4. \A i, j \in DOMAIN n : n[i] = n[j] => i = j \/ n[i] \in again'
      BY <3>3, OneMoreTurn
    <3> QED BY <3>2, <3>4 DEF s
  <2> QED BY <2>1, SaveThreadEffect DEF Inv, TurnsOnce
<1>7. Unwritten'
  <2> SUFFICES ASSUME NEW q \in Request \ again', pc'[q] \in {"idle", "append", "save"},
                      NEW t \in Thread, NEW i \in DOMAIN turns'[t]
               PROVE  turns'[t][i] # q
    BY DEF Unwritten
  <2>1. q # r /\ q \notin again /\ pc[q] \in {"idle", "append", "save"}
    BY SaveThreadEffect
  <2>2. CASE t # tid[r]
    BY <2>1, <2>2, SaveThreadEffect DEF Inv, Unwritten
  <2>3. CASE t = tid[r]
    <3>1. turns'[t] = NewThread(r).turns
      BY <2>3, SaveThreadEffect
    <3>2. turns'[t][i] = r \/ \E j \in DOMAIN turns[t] : turns'[t][i] = turns[t][j]
      BY <2>3, <3>1, SaveThreadEffect, OneMoreTurn DEF NewThread
    <3> QED BY <2>1, <3>2 DEF Inv, Unwritten
  <2> QED BY <2>2, <2>3
<1>8. DraftCurrent'
  <2> SUFFICES ASSUME NEW q \in Request, pc'[q] = "save", ~dirty'[q]
               PROVE  draft'[q] = NewThread(q)'
    BY DEF DraftCurrent
  <2>1. q # r /\ pc[q] = "save" /\ tid[q] \in Thread /\ draft'[q] = draft[q]
    BY SaveThreadEffect DEF Inv, ThreadsTypeOK
  <2>4. ~dirty[q] /\ tid[q] # tid[r]
    BY <2>1, SaveThreadEffect
  <2>2. turns'[tid[q]] = turns[tid[q]] /\ owner'[tid[q]] = owner[tid[q]]
    BY <2>1, <2>4, SaveThreadEffect
  <2> QED BY <1>1, <2>1, <2>2, <2>4 DEF Inv, DraftCurrent, NewThread
<1> QED BY <1>4, <1>6, <1>7, <1>8 DEF Inv

LEMMA ReadIndexStep ==
    ASSUME Inv, NEW r \in Request, ReadIndex(r)
    PROVE  Inv'
<1>1. /\ UNCHANGED <<turns, owner, tid, key, attempt, draft, again>>
      /\ \/ pc' = [pc EXCEPT ![r] = "relist"]
         \/ pc' = [pc EXCEPT ![r] = "erase"]
      /\ dirty' = [dirty EXCEPT ![r] = FALSE]
  BY DEF ReadIndex, stored
<1>2. ThreadsTypeOK'
  BY <1>1 DEF Inv, ThreadsTypeOK
<1> QED BY <1>1, <1>2, Aside DEF Inv, ThreadsTypeOK

LEMMA WriteIndexStep ==
    ASSUME Inv, NEW r \in Request, WriteIndex(r)
    PROVE  Inv'
<1>1. /\ UNCHANGED <<turns, owner, tid, key, again>>
      /\ Retry(r, "index") \/ Finish(r)
      /\ dirty' = Wake(IndexWatchersOf(key[r]) \ {r})
  BY DEF WriteIndex, LoseReply
<1>2. ThreadsTypeOK'
  BY <1>1, Rounds DEF Inv, ThreadsTypeOK, Wake
<1>3. /\ pc'[r] \in {"index", "done"}
      /\ \A q \in Request \ {r} : pc'[q] = pc[q] /\ draft'[q] = draft[q]
  BY <1>1, Rounds DEF Inv
<1>4. \A q \in Request : dirty[q] => dirty'[q]
  BY <1>1 DEF Wake
<1> QED BY <1>1, <1>2, <1>3, <1>4, Aside

\* A thread disappears, by EXEC or TTL, and wakes everybody who watches it.
LEMMA Gone ==
    ASSUME Inv, NEW t \in Thread, ThreadsTypeOK', UNCHANGED <<tid, key, again>>,
           turns' = [turns EXCEPT ![t] = <<>>], owner' = [owner EXCEPT ![t] = NoOne],
           \A q \in Request : pc'[q] \in {"idle", "append", "save"} =>
              /\ pc[q] = pc'[q] /\ draft'[q] = draft[q]
              /\ ~dirty'[q] => /\ ~dirty[q]
                               /\ turns[t] # <<>> => q \notin WatchersOf(t)
    PROVE  Inv'
<1>1. turns' = [u \in Thread |-> IF u = t THEN <<>> ELSE turns[u]]
  BY DEF Inv, ThreadsTypeOK
<1>2. TurnsOnce'
  BY <1>1 DEF Inv, TurnsOnce
<1>3. Unwritten'
  BY <1>1 DEF Inv, Unwritten
<1>4. DraftCurrent'
  <2> SUFFICES ASSUME NEW q \in Request, pc'[q] = "save", ~dirty'[q]
               PROVE  draft'[q] = NewThread(q)'
    BY DEF DraftCurrent
  <2>1. pc[q] = "save" /\ ~dirty[q] /\ tid[q] \in Thread
    BY DEF Inv, ThreadsTypeOK
  <2>2. draft[q] = NewThread(q)
    BY <2>1 DEF Inv, DraftCurrent
  <2>3. turns'[tid[q]] = turns[tid[q]]
    BY <1>1, <2>1 DEF WatchersOf
  <2>4. turns[tid[q]] # <<>> => owner'[tid[q]] = owner[tid[q]]
    BY <1>1, <2>1, <2>3 DEF Inv, ThreadsTypeOK
  <2> QED BY <2>2, <2>3, <2>4 DEF NewThread
<1> QED BY <1>2, <1>3, <1>4 DEF Inv

LEMMA EraseThreadStep ==
    ASSUME Inv, NEW r \in Request, EraseThread(r)
    PROVE  Inv'
<1> DEFINE t == tid[r]
<1>1. /\ turns' = [turns EXCEPT ![t] = <<>>] /\ owner' = [owner EXCEPT ![t] = NoOne]
      /\ UNCHANGED <<tid, key, again>>
      /\ Retry(r, "delete") \/ Finish(r)
      /\ dirty' = [q \in Request |-> dirty[q] \/
            q \in (IndexWatchersOf(key[r]) \ {r})
                   \cup (IF turns[t] = <<>> THEN {} ELSE WatchersOf(t))]
      /\ t \in Thread
  BY DEF Inv, ThreadsTypeOK, EraseThread, LoseReply, Wake
<1> HIDE DEF t
<1>2. ThreadsTypeOK'
  <2>1. turns' \in [Thread -> Seq(Turn)] /\ owner' \in [Thread -> Key \cup {NoOne}]
    BY <1>1 DEF Inv, ThreadsTypeOK
  <2>2. dirty' \in [Request -> BOOLEAN]
    BY <1>1 DEF Inv, ThreadsTypeOK
  <2> QED BY <1>1, <2>1, <2>2, Rounds DEF Inv, ThreadsTypeOK
<1>3. ASSUME NEW q \in Request, pc'[q] \in {"idle", "append", "save"}
      PROVE  /\ pc[q] = pc'[q] /\ draft'[q] = draft[q]
             /\ ~dirty'[q] => ~dirty[q] /\ (turns[t] # <<>> => q \notin WatchersOf(t))
  <2>1. q # r /\ pc[q] = pc'[q] /\ draft'[q] = draft[q]
    BY <1>1, <1>3, Rounds DEF Inv
  <2> QED BY <1>1, <2>1
<1> QED BY <1>1, <1>2, <1>3, Gone

LEMMA ExpireThreadStep ==
    ASSUME Inv, NEW t \in Thread, ExpireThread(t)
    PROVE  Inv'
<1>1. /\ turns' = [turns EXCEPT ![t] = <<>>] /\ owner' = [owner EXCEPT ![t] = NoOne]
      /\ UNCHANGED <<pc, tid, key, attempt, draft, again>>
      /\ dirty' = [q \in Request |-> dirty[q] \/ q \in WatchersOf(t)]
  BY DEF ExpireThread, Wake
<1>2. ThreadsTypeOK'
  <2>1. turns' \in [Thread -> Seq(Turn)] /\ owner' \in [Thread -> Key \cup {NoOne}]
    BY <1>1 DEF Inv, ThreadsTypeOK
  <2>2. dirty' \in [Request -> BOOLEAN]
    BY <1>1 DEF Inv, ThreadsTypeOK
  <2> QED BY <1>1, <2>1, <2>2 DEF Inv, ThreadsTypeOK
<1> QED BY <1>1, <1>2, Gone

LEMMA ExpireIndexStep ==
    ASSUME Inv, NEW k \in Key, ExpireIndex(k)
    PROVE  Inv'
<1>1. /\ UNCHANGED <<turns, owner, pc, tid, key, attempt, draft, again>>
      /\ dirty' = [q \in Request |-> dirty[q] \/ q \in IndexWatchersOf(k)]
  BY DEF ExpireIndex, Wake
<1>2. ThreadsTypeOK'
  BY <1>1 DEF Inv, ThreadsTypeOK
<1> QED BY <1>1, <1>2, Aside

LEMMA ConflictStep ==
    ASSUME Inv, NEW r \in Request, Conflict(r) \/ Abandon(r)
    PROVE  Inv'
<1>1. PICK step \in {"append", "index", "delete"} :
        /\ Retry(r, step) \/ Finish(r)
        /\ step = "append" => pc[r] = "save"
  BY DEF Conflict, Abandon
<1>2. /\ UNCHANGED <<turns, owner, tid, key, again>>
      /\ dirty' = [dirty EXCEPT ![r] = FALSE]
  BY DEF Conflict, Abandon, stored
<1>3. ThreadsTypeOK'
  BY <1>1, <1>2, Rounds DEF Inv, ThreadsTypeOK
<1>4. /\ pc'[r] \in {step, "done"}
      /\ \A q \in Request \ {r} : /\ pc'[q] = pc[q] /\ draft'[q] = draft[q]
                                 /\ dirty'[q] = dirty[q]
  BY <1>1, <1>2, Rounds DEF Inv, ThreadsTypeOK
<1>5. ASSUME NEW q \in Request, pc'[q] \in {"idle", "append", "save"}
      PROVE  /\ pc[q] \in {"idle", "append", "save"}
             /\ pc'[q] = "save" /\ ~dirty'[q] =>
                   pc[q] = "save" /\ ~dirty[q] /\ draft'[q] = draft[q]
  BY <1>1, <1>4, <1>5
<1> QED BY <1>2, <1>3, <1>5, Aside

LEMMA NextInv == Inv /\ [Next]_vars => Inv'
<1> SUFFICES ASSUME Inv, [Next]_vars PROVE Inv'
  OBVIOUS
<1>1. ASSUME UNCHANGED vars PROVE Inv'
  <2>1. ThreadsTypeOK'
    BY <1>1 DEF vars, Inv, ThreadsTypeOK
  <2> QED BY <1>1, <2>1, Aside DEF vars
<1> QED BY <1>1, StepCases, AskStep, ReadThreadStep, SaveThreadStep, ReadIndexStep,
           WriteIndexStep, EraseThreadStep, ConflictStep,
           ExpireThreadStep, ExpireIndexStep

\* The invariant holds always.
THEOREM Invariance == Spec => []Inv
BY InitInv, NextInv, PTL DEF Spec

\* No turn is stored twice, whatever conflicts, broken connections and cancelled
\* callers append_turn meets: but for requests whose EXEC was carried out, the
\* reply lost, and which append_turn sends again.
THEOREM NoTurnTwice == Spec => []TurnsOnce
<1>1. Inv => TurnsOnce
  BY DEF Inv
<1> QED BY <1>1, Invariance, PTL

\* A step changes a thread by one turn at its end or removes it as a whole.
LEMMA TurnsKeptStep ==
    ASSUME Inv, [Next]_vars
    PROVE  \A t \in Thread : turns'[t] # turns[t] =>
              \/ turns'[t] = <<>>
              \/ \E r \in Request : turns'[t] = LastOf(Append(turns[t], r), MaxTurns)
<1> SUFFICES ASSUME NEW t \in Thread, turns'[t] # turns[t]
             PROVE  \/ turns'[t] = <<>>
                    \/ \E r \in Request : turns'[t] = LastOf(Append(turns[t], r), MaxTurns)
  OBVIOUS
<1>1. ASSUME NEW r \in Request, SaveThread(r)
      PROVE  turns'[t] = LastOf(Append(turns[t], r), MaxTurns)
  BY <1>1, SaveThreadEffect DEF NewThread
<1>2. ASSUME NEW r \in Request, EraseThread(r) PROVE turns'[t] = <<>>
  BY <1>2 DEF EraseThread, Inv, ThreadsTypeOK
<1>3. ASSUME NEW u \in Thread, ExpireThread(u) PROVE turns'[t] = <<>>
  BY <1>3 DEF ExpireThread, Inv, ThreadsTypeOK
<1> QED BY <1>1, <1>2, <1>3, StepCases
        DEF Ask, AskDelete, ReadThread, ReadIndex, WriteIndex, Conflict, Abandon,
            ExpireIndex, vars, stored

\* append_turn never overwrites a stored turn: concurrent appends to a thread
\* are ordered by their EXECs.
THEOREM NoTurnOverwritten == Spec => TurnsKept
<1>1. Inv /\ [Next]_vars =>
        [\A t \in Thread : turns'[t] # turns[t] =>
            \/ turns'[t] = <<>>
            \/ \E r \in Request : turns'[t] = LastOf(Append(turns[t], r), MaxTurns)]_vars
  BY TurnsKeptStep
<1> QED BY <1>1, Invariance, PTL DEF Spec, TurnsKept

\* A step leaves the owner of a thread that exists before and after it alone.
LEMMA OwnerStableStep ==
    ASSUME Inv, [Next]_vars
    PROVE  \A t \in Thread : turns[t] # <<>> /\ turns'[t] # <<>> => owner'[t] = owner[t]
<1> SUFFICES ASSUME NEW t \in Thread, turns[t] # <<>>, turns'[t] # <<>>
             PROVE  owner'[t] = owner[t]
  OBVIOUS
<1>1. ASSUME NEW r \in Request, SaveThread(r) PROVE owner'[t] = owner[t]
  BY <1>1, SaveThreadEffect DEF NewThread
<1>2. ASSUME NEW r \in Request, EraseThread(r) PROVE owner'[t] = owner[t]
  BY <1>2 DEF EraseThread, Inv, ThreadsTypeOK
<1>3. ASSUME NEW u \in Thread, ExpireThread(u) PROVE owner'[t] = owner[t]
  BY <1>3 DEF ExpireThread, Inv, ThreadsTypeOK
<1> QED BY <1>1, <1>2, <1>3, StepCases
        DEF Ask, AskDelete, ReadThread, ReadIndex, WriteIndex, Conflict, Abandon,
            ExpireIndex, vars, stored

\* A thread keeps the owner its first stored append gave it.
THEOREM OwnerKept == Spec => OwnerStable
<1>1. Inv /\ [Next]_vars =>
        [\A t \in Thread : turns[t] # <<>> /\ turns'[t] # <<>> => owner'[t] = owner[t]]_vars
  BY OwnerStableStep
<1> QED BY <1>1, Invariance, PTL DEF Spec, OwnerStable

\* A thread that exists keeps its turns and its owner, whatever requests overlap.
THEOREM ThreadsKept == Spec => ThreadsOnlyGrow
BY NoTurnOverwritten, OwnerKept, PTL DEF ThreadsOnlyGrow

-----------------------------------------------------------------------------
(* The lists. *)

\* The ranks of the positions I are the numbers up to their count, each once, in
\* their order.
LEMMA Ranks ==
    ASSUME NEW n \in Nat, NEW I \in SUBSET (1..n)
    PROVE  /\ IsFiniteSet(I) /\ Cardinality(I) \in Nat /\ Cardinality(I) <= n
           /\ \A i \in I : Rank(I, i) \in 1..Cardinality(I)
           /\ \A i, j \in I : i < j => Rank(I, i) < Rank(I, j)
           /\ \A k \in 1..Cardinality(I) : \E i \in I : Rank(I, i) = k
<1>1. IsFiniteSet(1..n) /\ Cardinality(1..n) = n
  BY FS_Interval
<1>2. IsFiniteSet(I) /\ Cardinality(I) \in Nat /\ Cardinality(I) <= n
  BY <1>1, FS_Subset, FS_CardinalityType
<1> DEFINE Up(i) == {j \in I : j <= i}
<1>3. ASSUME NEW i \in I
      PROVE  IsFiniteSet(Up(i)) /\ Cardinality(Up(i)) \in 1..Cardinality(I)
  <2>1. Up(i) \in SUBSET I /\ i \in Up(i)
    OBVIOUS
  <2>2. IsFiniteSet(Up(i)) /\ Cardinality(Up(i)) <= Cardinality(I) /\ Cardinality(Up(i)) \in Nat
    BY <1>2, <2>1, FS_Subset, FS_CardinalityType
  <2>3. Cardinality(Up(i)) # 0
    BY <2>1, <2>2, FS_EmptySet
  <2> QED BY <1>2, <2>2, <2>3
<1>4. ASSUME NEW i \in I, NEW j \in I, i < j
      PROVE  Cardinality(Up(i)) < Cardinality(Up(j))
  <2>1. Up(i) \in SUBSET Up(j) /\ j \in Up(j) /\ j \notin Up(i)
    <3>1. i \in Int /\ j \in Int /\ \A k \in I : k \in Int
      OBVIOUS
    <3>2. \A k \in I : k <= i => k <= j
      BY <1>4, <3>1
    <3>3. j <= j /\ ~(j <= i)
      BY <1>4, <3>1
    <3> QED BY <3>2, <3>3
  <2>2. Cardinality(Up(i)) <= Cardinality(Up(j)) /\ Cardinality(Up(i)) # Cardinality(Up(j))
    BY <1>3, <2>1, FS_Subset
  <2> QED BY <1>2, <1>3, <2>2
<1> DEFINE f == [i \in I |-> Cardinality(Up(i))]
           m == Cardinality(I)
<1>5. IsFiniteSet(1..m) /\ Cardinality(1..m) = m
  BY <1>2, FS_Interval
<1>6. f \in Injection(I, 1..m)
  <2>1. f \in [I -> 1..m]
    BY <1>3
  <2>2. ASSUME NEW i \in I, NEW j \in I, f[i] = f[j] PROVE i = j
    <3>1. i < j \/ j < i \/ i = j
      OBVIOUS
    <3>2. Cardinality(Up(i)) = Cardinality(Up(j)) /\ Cardinality(Up(i)) \in Nat
      BY <1>3, <2>2
    <3> QED BY <1>4, <3>1, <3>2
  <2> HIDE DEF f
  <2> QED BY <2>1, <2>2 DEF Injection, IsInjective
<1>7. f \in Surjection(I, 1..m)
  BY <1>2, <1>5, <1>6, FS_Injection
<1>8. \A k \in 1..m : \E i \in I : Cardinality(Up(i)) = k
  BY <1>7 DEF Surjection
<1> QED BY <1>2, <1>3, <1>4, <1>8 DEF Rank

\* What is picked are the entries at the positions, each once.
LEMMA PickedFacts ==
    ASSUME NEW S, NEW s \in Seq(S), NEW I \in SUBSET DOMAIN s
    PROVE  LET p == Picked(s, I) IN
           /\ p \in Seq(S) /\ Len(p) <= Len(s)
           /\ \A k \in DOMAIN p : \E i \in I : p[k] = s[i] /\ Rank(I, i) = k
           /\ \A i \in I : Rank(I, i) \in DOMAIN p /\ p[Rank(I, i)] = s[i]
<1> DEFINE m == Cardinality(I)
           Nth(k) == CHOOSE i \in I : Rank(I, i) = k
           p == Picked(s, I)
<1>1. Len(s) \in Nat /\ DOMAIN s = 1..Len(s)
  OBVIOUS
<1>2. /\ m \in Nat /\ m <= Len(s)
      /\ \A i \in I : Rank(I, i) \in 1..m
      /\ \A i, j \in I : i < j => Rank(I, i) < Rank(I, j)
      /\ \A k \in 1..m : \E i \in I : Rank(I, i) = k
  BY <1>1, Ranks
<1>3. \A k \in 1..m : Nth(k) \in I /\ Rank(I, Nth(k)) = k
  BY <1>2
<1>4. \A i \in I : Nth(Rank(I, i)) = i
  <2> SUFFICES ASSUME NEW i \in I PROVE Nth(Rank(I, i)) = i
    OBVIOUS
  <2> DEFINE j == Nth(Rank(I, i))
  <2>1. j \in I /\ Rank(I, j) = Rank(I, i) /\ Rank(I, i) \in Nat
    BY <1>2, <1>3
  <2> HIDE DEF j
  <2>2. i \in Nat /\ j \in Nat
    BY <1>1, <2>1
  <2>3. ~(i < j) /\ ~(j < i)
    BY <1>2, <2>1
  <2> QED BY <2>2, <2>3 DEF j
<1>5. p = [k \in 1..m |-> s[Nth(k)]]
  BY DEF Picked
<1> HIDE DEF m, Nth, p
<1>6. p \in Seq(S) /\ Len(p) = m /\ DOMAIN p = 1..m
  BY <1>1, <1>2, <1>3, <1>5
<1>7. ASSUME NEW k \in DOMAIN p PROVE \E i \in I : p[k] = s[i] /\ Rank(I, i) = k
  BY <1>3, <1>5, <1>6
<1>8. ASSUME NEW i \in I PROVE Rank(I, i) \in DOMAIN p /\ p[Rank(I, i)] = s[i]
  BY <1>2, <1>4, <1>5, <1>6
<1> QED BY <1>2, <1>6, <1>7, <1>8 DEF p

Once(s) == \A i, j \in DOMAIN s : s[i].tid = s[j].tid => i = j
Ids(s) == {s[i].tid : i \in DOMAIN s}

\* The filter takes one thread out of a list and leaves the others as they were.
LEMMA WithoutFacts ==
    ASSUME NEW s \in Seq(Entry), Once(s), NEW t
    PROVE  /\ Without(s, t) \in Seq(Entry) /\ Once(Without(s, t))
           /\ Ids(Without(s, t)) = Ids(s) \ {t}
<1> DEFINE I == {i \in DOMAIN s : s[i].tid # t}
           p == Picked(s, I)
<1>1. /\ p \in Seq(Entry)
      /\ \A k \in DOMAIN p : \E i \in I : p[k] = s[i] /\ Rank(I, i) = k
      /\ \A i \in I : Rank(I, i) \in DOMAIN p /\ p[Rank(I, i)] = s[i]
  <2>1. I \in SUBSET DOMAIN s
    OBVIOUS
  <2> HIDE DEF I
  <2> QED BY <2>1, PickedFacts
<1>2. p = Without(s, t)
  BY DEF Without
<1> HIDE DEF p
<1>3. Once(p)
  <2> SUFFICES ASSUME NEW k \in DOMAIN p, NEW l \in DOMAIN p, p[k].tid = p[l].tid PROVE k = l
    BY DEF Once
  <2>1. PICK i \in I : p[k] = s[i] /\ Rank(I, i) = k
    BY <1>1
  <2>2. PICK j \in I : p[l] = s[j] /\ Rank(I, j) = l
    BY <1>1
  <2>3. i = j
    BY <2>1, <2>2 DEF Once
  <2> QED BY <2>1, <2>2, <2>3
<1>4. ASSUME NEW u \in Ids(p) PROVE u \in Ids(s) \ {t}
  <2>1. PICK k \in DOMAIN p : u = p[k].tid
    BY DEF Ids
  <2>2. PICK i \in I : p[k] = s[i] /\ Rank(I, i) = k
    BY <1>1, <2>1
  <2> QED BY <2>1, <2>2 DEF Ids
<1>5. ASSUME NEW u \in Ids(s) \ {t} PROVE u \in Ids(p)
  <2>1. PICK i \in DOMAIN s : u = s[i].tid
    BY DEF Ids
  <2>2. i \in I
    BY <2>1
  <2> HIDE DEF I
  <2> QED BY <1>1, <2>1, <2>2 DEF Ids
<1> QED BY <1>1, <1>2, <1>3, <1>4, <1>5

\* A fresh entry in front of a list that does not have its thread, cut to the limit.
LEMMA FrontFacts ==
    ASSUME NEW s \in Seq(Entry), Once(s), NEW e \in Entry, e.tid \notin Ids(s)
    PROVE  LET n == FirstOf(<<e>> \o s, MaxIndex) IN
           /\ n \in Seq(Entry) /\ Once(n) /\ n # <<>> /\ e.tid \in Ids(n)
           /\ Ids(n) \subseteq Ids(s) \cup {e.tid}
           /\ Ids(s) \subseteq Ids(n) \/ Len(n) = MaxIndex
<1> DEFINE a == <<e>> \o s
           n == FirstOf(a, MaxIndex)
<1>1. MaxIndex \in Nat \ {0}
  BY ConstantsAssumption
<1>2. /\ a \in Seq(Entry) /\ Len(s) \in Nat /\ Len(a) = Len(s) + 1 /\ a[1] = e
      /\ DOMAIN a = 1..(Len(s) + 1) /\ DOMAIN s = 1..Len(s)
      /\ \A i \in 1..Len(s) : a[i + 1] = s[i]
  <2>1. <<e>> \in Seq(Entry)
    OBVIOUS
  <2> QED BY <2>1
<1> HIDE DEF a
<1>3. Once(a)
  <2> SUFFICES ASSUME NEW i \in DOMAIN a, NEW j \in DOMAIN a, a[i].tid = a[j].tid PROVE i = j
    BY DEF Once
  <2>1. ASSUME NEW k \in DOMAIN a, k # 1 PROVE k - 1 \in DOMAIN s /\ a[k] = s[k - 1]
    BY <1>2, <2>1
  <2>2. CASE i = 1 /\ j # 1
    BY <1>2, <2>1, <2>2 DEF Ids
  <2>3. CASE i # 1 /\ j = 1
    BY <1>2, <2>1, <2>3 DEF Ids
  <2>4. CASE i # 1 /\ j # 1
    <3>1. i - 1 = j - 1
      BY <2>1, <2>4 DEF Once
    <3> QED BY <1>2, <3>1
  <2> QED BY <2>2, <2>3, <2>4
<1>4. /\ n \in Seq(Entry) /\ Len(n) <= Len(a) /\ Len(n) \in Nat /\ Len(n) >= 1
      /\ DOMAIN n = 1..Len(n) /\ \A i \in 1..Len(n) : n[i] = a[i]
      /\ Len(n) = Len(a) \/ Len(n) = MaxIndex
  <2>1. CASE Len(a) > MaxIndex
    <3>1. n = SubSeq(a, 1, MaxIndex)
      BY <2>1 DEF FirstOf
    <3> HIDE DEF n
    <3> QED BY <1>1, <1>2, <2>1, <3>1
  <2>2. CASE ~(Len(a) > MaxIndex)
    <3>1. n = a
      BY <2>2 DEF FirstOf
    <3> HIDE DEF n
    <3> QED BY <1>2, <3>1
  <2> QED BY <2>1, <2>2
<1> HIDE DEF n
<1>5. Once(n)
  <2>1. DOMAIN n \subseteq DOMAIN a
    <3>1. Len(a) \in Nat /\ DOMAIN a = 1..Len(a)
      BY <1>2
    <3>2. 1..Len(n) \subseteq 1..Len(a)
      <4>1. Len(n) \in Nat /\ Len(n) <= Len(a)
        BY <1>4
      <4> QED BY <3>1, <4>1
    <3> QED BY <1>4, <3>1, <3>2
  <2>2. \A i \in DOMAIN n : n[i] = a[i]
    BY <1>4
  <2> QED BY <1>3, <2>1, <2>2 DEF Once
<1>6. n # <<>> /\ e.tid \in Ids(n)
  <2>1. 1 \in DOMAIN n /\ n[1] = e
    <3>1. 1 \in 1..Len(n)
      BY <1>4
    <3> QED BY <1>2, <1>4, <3>1
  <2> QED BY <2>1 DEF Ids
<1>7. Len(n) = Len(a) => Ids(s) \subseteq Ids(n)
  <2> SUFFICES ASSUME Len(n) = Len(a), NEW i \in DOMAIN s PROVE s[i].tid \in Ids(n)
    BY DEF Ids
  <2>1. i + 1 \in DOMAIN n /\ n[i + 1] = s[i]
    BY <1>2, <1>4
  <2> QED BY <2>1 DEF Ids
<1>8. Ids(n) \subseteq Ids(s) \cup {e.tid}
  <2>1. ASSUME NEW i \in DOMAIN n PROVE n[i].tid \in Ids(s) \cup {e.tid}
    <3>1. i \in 1..Len(n) /\ i \in 1..Len(a) /\ n[i] = a[i]
      <4>1. i \in 1..Len(n) /\ n[i] = a[i]
        BY <1>4, <2>1
      <4>2. Len(n) \in Nat /\ Len(n) <= Len(a)
        BY <1>4
      <4>3. Len(a) \in Nat
        BY <1>2
      <4> QED BY <4>1, <4>2, <4>3
    <3>2. CASE i = 1
      BY <1>2, <3>1, <3>2
    <3>3. CASE i # 1
      <4>1. i - 1 \in 1..Len(s) /\ (i - 1) + 1 = i
        BY <1>2, <3>1, <3>3
      <4>2. a[i] = s[i - 1] /\ i - 1 \in DOMAIN s
        BY <1>2, <4>1
      <4> QED BY <3>1, <4>2 DEF Ids
    <3> QED BY <3>2, <3>3
  <2> QED BY <2>1 DEF Ids
<1> QED BY <1>4, <1>5, <1>6, <1>7, <1>8 DEF n, a

\* A thread that is about to be stored, or has been, has a countable number of turns.
Counted ==
    \A r \in Request : pc[r] \in {"save", "index", "relist"} =>
        Len(draft[r].turns) \in 1..MaxTurns

\* Lists, stored or about to be, name a thread once.
EachOnce ==
    /\ \A k \in Key : Once(index[k]) /\ Once(legacy[k])
    /\ \A r \in Request : Once(newIndex[r])

\* As long as nobody woke a request, the list it is about to write is the one
\* a reader sees, with its own change made.
IndexCurrent ==
    \A r \in Request : ~dirty[r] =>
        /\ pc[r] = "relist" => newIndex[r] = Relisted(r, Listed(key[r]))
        /\ pc[r] = "erase" => newIndex[r] = Without(Listed(key[r]), tid[r])

ListInv ==
    /\ Inv /\ ListsTypeOK /\ Counted /\ EachOnce
    /\ "read_fails" \notin Trouble => IndexCurrent

LEMMA OneMoreCounts ==
    ASSUME NEW s \in Seq(Turn), NEW r \in Request
    PROVE  Len(LastOf(Append(s, r), MaxTurns)) \in 1..MaxTurns
<1> DEFINE a == Append(s, r)
<1>1. a \in Seq(Turn) /\ Len(a) \in Nat /\ Len(a) >= 1
  BY DEF Turn
<1>2. MaxTurns \in Nat \ {0}
  BY ConstantsAssumption
<1> HIDE DEF a
<1>3. CASE Len(a) > MaxTurns
  <2> DEFINE k == Len(a) - MaxTurns
  <2>1. k \in Nat /\ k < Len(a) /\ LastOf(a, MaxTurns) = SubSeq(a, k + 1, Len(a))
    BY <1>1, <1>2, <1>3 DEF LastOf
  <2>2. Len(LastOf(a, MaxTurns)) = Len(a) - k
    BY <1>1, <2>1, Suffix
  <2> QED BY <1>1, <1>2, <2>2 DEF a
<1>4. CASE ~(Len(a) > MaxTurns)
  BY <1>1, <1>2, <1>4 DEF LastOf, a
<1> QED BY <1>3, <1>4

LEMMA ListInit == Init => ListInv
<1> SUFFICES ASSUME Init PROVE ListInv
  OBVIOUS
<1> USE ConstantsAssumption DEF Init
<1>1. Inv
  BY InitInv
<1> DEFINE old == [i \in 1..Len(OldIndex) |-> [tid |-> OldIndex[i], count |-> 1]]
<1>2. old \in Seq(Entry) /\ Once(old)
  <2>1. Len(OldIndex) \in Nat /\ DOMAIN OldIndex = 1..Len(OldIndex)
    OBVIOUS
  <2>2. \A i \in 1..Len(OldIndex) : old[i] \in Entry
    BY <2>1 DEF Entry
  <2>3. old \in Seq(Entry)
    BY <2>1, <2>2
  <2> QED BY <2>1, <2>3 DEF Once
<1>3. <<>> \in Seq(Entry) /\ Once(<<>>)
  BY DEF Once
<1>4. ListsTypeOK /\ EachOnce
  <2>1. \A k \in Key : legacy[k] = IF k # OldOwner THEN <<>> ELSE old
    OBVIOUS
  <2>2. legacy \in [Key -> Seq(Entry)]
    BY <1>2, <1>3
  <2> HIDE DEF old
  <2> QED BY <1>2, <1>3, <2>1, <2>2 DEF ListsTypeOK, EachOnce
<1>5. Counted /\ IndexCurrent
  BY DEF Counted, IndexCurrent
<1> QED BY <1>1, <1>4, <1>5 DEF ListInv

\* A step that writes no list keeps the invariant, when a request comes to the
\* point of writing one only by reading one.
LEMMA ListsAside ==
    ASSUME ListInv, Inv', UNCHANGED <<index, legacy, tid, key>>,
           newIndex' \in [Request -> Seq(Entry)],
           \A q \in Request :
               /\ newIndex'[q] \in {newIndex[q], <<>>}
               /\ pc'[q] \in {"save", "index", "relist"} =>
                     \/ pc[q] \in {"save", "index", "relist"} /\ draft'[q] = draft[q]
                     \/ Len(draft'[q].turns) \in 1..MaxTurns
               /\ pc'[q] \in {"relist", "erase"} /\ ~dirty'[q] =>
                     /\ pc[q] = pc'[q] /\ ~dirty[q]
                     /\ newIndex'[q] = newIndex[q] /\ draft'[q] = draft[q]
    PROVE  ListInv'
<1>1. ListsTypeOK'
  BY DEF ListInv, ListsTypeOK
<1>2. Counted'
  BY DEF ListInv, Counted
<1>3. EachOnce'
  <2>1. Once(<<>>)
    BY DEF Once
  <2>2. \A q \in Request : Once(newIndex'[q])
    BY <2>1 DEF ListInv, EachOnce
  <2> QED BY <2>2 DEF ListInv, EachOnce
<1>4. "read_fails" \notin Trouble => IndexCurrent'
  BY DEF ListInv, IndexCurrent, Relisted, Listed
<1> QED BY <1>1, <1>2, <1>3, <1>4 DEF ListInv

\* Writing a key's list, which wakes everybody else who watches it, keeps the
\* invariant.
LEMMA ListWritten ==
    ASSUME ListInv, Inv', UNCHANGED <<tid, key>>,
           newIndex' \in [Request -> Seq(Entry)],
           NEW k \in Key, NEW n \in Seq(Entry), Once(n),
           index' = [index EXCEPT ![k] = n],
           legacy' \in {legacy, [legacy EXCEPT ![k] = <<>>]},
           \A q \in Request :
               /\ newIndex'[q] \in {newIndex[q], <<>>}
               /\ pc'[q] \in {"save", "index", "relist"} =>
                     pc[q] \in {"save", "index", "relist"} /\ draft'[q] = draft[q]
               /\ pc'[q] \in {"relist", "erase"} /\ ~dirty'[q] =>
                     /\ pc[q] = pc'[q] /\ ~dirty[q] /\ key[q] # k
                     /\ newIndex'[q] = newIndex[q] /\ draft'[q] = draft[q]
    PROVE  ListInv'
<1>0. <<>> \in Seq(Entry) /\ Once(<<>>)
  BY DEF Once
<1>1. /\ index' \in [Key -> Seq(Entry)] /\ legacy' \in [Key -> Seq(Entry)]
      /\ \A j \in Key : /\ index'[j] = IF j = k THEN n ELSE index[j]
                        /\ legacy'[j] = legacy[j] \/ (j = k /\ legacy'[j] = <<>>)
  BY <1>0 DEF ListInv, ListsTypeOK
<1>2. Counted'
  BY DEF ListInv, Counted
<1>3. EachOnce'
  <2>1. \A q \in Request : Once(newIndex'[q])
    BY <1>0 DEF ListInv, EachOnce
  <2>2. \A j \in Key : Once(index'[j]) /\ Once(legacy'[j])
    BY <1>0, <1>1 DEF ListInv, EachOnce
  <2> QED BY <2>1, <2>2 DEF EachOnce
<1>4. ASSUME "read_fails" \notin Trouble PROVE IndexCurrent'
  <2> SUFFICES ASSUME NEW q \in Request, ~dirty'[q], pc'[q] \in {"relist", "erase"}
               PROVE  /\ pc'[q] = "relist" => newIndex'[q] = Relisted(q, Listed(key[q]))'
                      /\ pc'[q] = "erase" => newIndex'[q] = Without(Listed(key[q]), tid[q])'
    BY DEF IndexCurrent
  <2>1. /\ pc[q] = pc'[q] /\ ~dirty[q] /\ key[q] # k /\ key[q] \in Key
        /\ newIndex'[q] = newIndex[q] /\ draft'[q] = draft[q]
    BY DEF ListInv, Inv, ThreadsTypeOK
  <2>2. index'[key[q]] = index[key[q]] /\ legacy'[key[q]] = legacy[key[q]]
    BY <1>1, <2>1
  <2>3. Listed(key[q])' = Listed(key[q])
    BY <2>2 DEF Listed
  <2>4. /\ pc[q] = "relist" => newIndex[q] = Relisted(q, Listed(key[q]))
        /\ pc[q] = "erase" => newIndex[q] = Without(Listed(key[q]), tid[q])
    BY <1>4, <2>1 DEF ListInv, IndexCurrent
  <2>5. pc[q] = "relist" => newIndex'[q] = Relisted(q, Listed(key[q]))'
    BY <2>1, <2>3, <2>4 DEF Relisted
  <2>6. pc[q] = "erase" => newIndex'[q] = Without(Listed(key[q]), tid[q])'
    BY <2>1, <2>3, <2>4
  <2> QED BY <2>1, <2>5, <2>6
<1> QED BY <1>1, <1>2, <1>3, <1>4 DEF ListInv, ListsTypeOK

\* The list a request builds from what it read.
LEMMA Rebuilt ==
    ASSUME ListInv, NEW r \in Request, NEW s \in Seq(Entry), Once(s)
    PROVE  /\ Without(s, tid[r]) \in Seq(Entry) /\ Once(Without(s, tid[r]))
           /\ Ids(Without(s, tid[r])) = Ids(s) \ {tid[r]}
           /\ pc[r] \in {"index", "relist"} =>
                 /\ Relisted(r, s) \in Seq(Entry) /\ Once(Relisted(r, s))
                 /\ Relisted(r, s) # <<>> /\ tid[r] \in Ids(Relisted(r, s))
                 /\ Ids(Relisted(r, s)) \subseteq Ids(s) \cup {tid[r]}
                 /\ Ids(s) \subseteq Ids(Relisted(r, s)) \/ Len(Relisted(r, s)) = MaxIndex
<1> DEFINE t == tid[r]
           w == Without(s, t)
           e == [tid |-> t, count |-> Len(draft[r].turns)]
<1>1. w \in Seq(Entry) /\ Once(w) /\ Ids(w) = Ids(s) \ {t}
  BY WithoutFacts
<1>2. ASSUME pc[r] \in {"index", "relist"}
      PROVE  /\ Relisted(r, s) \in Seq(Entry) /\ Once(Relisted(r, s)) /\ Relisted(r, s) # <<>>
             /\ t \in Ids(Relisted(r, s)) /\ Ids(Relisted(r, s)) \subseteq Ids(s) \cup {t}
             /\ Ids(s) \subseteq Ids(Relisted(r, s)) \/ Len(Relisted(r, s)) = MaxIndex
  <2> DEFINE n == FirstOf(<<e>> \o w, MaxIndex)
  <2>1. e \in Entry
    BY <1>2 DEF ListInv, Counted, Inv, ThreadsTypeOK, Entry
  <2>2. e.tid = t
    OBVIOUS
  <2>3. n = Relisted(r, s)
    BY DEF Relisted
  <2> HIDE DEF e, w, t
  <2>4. /\ n \in Seq(Entry) /\ Once(n) /\ n # <<>> /\ e.tid \in Ids(n)
        /\ Ids(n) \subseteq Ids(w) \cup {e.tid}
        /\ Ids(w) \subseteq Ids(n) \/ Len(n) = MaxIndex
    BY <1>1, <2>1, <2>2, FrontFacts
  <2> HIDE DEF n
  <2> QED BY <1>1, <2>2, <2>3, <2>4
<1> QED BY <1>1, <1>2

\* What a request that starts another round or ends does to the lists under way.
LEMMA RoundsList ==
    ASSUME ListsTypeOK, NEW r \in Request, NEW step, Retry(r, step) \/ Finish(r)
    PROVE  /\ newIndex' \in [Request -> Seq(Entry)]
           /\ newIndex'[r] = <<>> /\ \A q \in Request \ {r} : newIndex'[q] = newIndex[q]
<1>1. <<>> \in Seq(Entry) /\ newIndex' = [newIndex EXCEPT ![r] = <<>>]
  BY DEF Retry, Finish
<1> QED BY <1>1 DEF ListsTypeOK

LEMMA ListAsk ==
    ASSUME ListInv, Inv', NEW r \in Request, Ask(r) \/ AskDelete(r)
    PROVE  ListInv'
<1>1. /\ UNCHANGED <<index, legacy, tid, key, draft, newIndex, dirty>>
      /\ \A q \in Request : pc'[q] \in {pc[q], "append", "delete"}
  BY DEF Ask, AskDelete, stored, local, ListInv, Inv, ThreadsTypeOK
<1> QED BY <1>1, ListsAside DEF ListInv, ListsTypeOK

LEMMA ListReadThread ==
    ASSUME ListInv, Inv', NEW r \in Request, ReadThread(r)
    PROVE  ListInv'
<1>1. /\ UNCHANGED <<index, legacy, tid, key, newIndex>>
      /\ pc' = [q \in Request |-> IF q = r THEN "save" ELSE pc[q]]
      /\ draft' = [q \in Request |-> IF q = r THEN NewThread(r) ELSE draft[q]]
      /\ dirty' = [q \in Request |-> IF q = r THEN FALSE ELSE dirty[q]]
  BY DEF ReadThread, stored, ListInv, Inv, ThreadsTypeOK
<1>2. Len(draft'[r].turns) \in 1..MaxTurns
  <2>1. turns[tid[r]] \in Seq(Turn)
    BY DEF ListInv, Inv, ThreadsTypeOK
  <2> QED BY <1>1, <2>1, OneMoreCounts DEF NewThread
<1> QED BY <1>1, <1>2, ListsAside DEF ListInv, ListsTypeOK

LEMMA ListSaveThread ==
    ASSUME ListInv, Inv', NEW r \in Request, SaveThread(r)
    PROVE  ListInv'
<1>1. /\ UNCHANGED <<index, legacy, tid, key>> /\ pc[r] = "save"
      /\ UNCHANGED newIndex \/ Retry(r, "append") \/ Finish(r)
  BY DEF SaveThread, Saved, LoseReply
<1>2. /\ dirty' = [q \in Request |-> dirty[q] \/ (q # r /\ pc[q] = "save" /\ tid[q] = tid[r])]
      /\ \A q \in Request \ {r} : pc'[q] = pc[q] /\ draft'[q] = draft[q]
      /\ pc'[r] \in {"index", "append", "done"}
      /\ pc'[r] = "index" => draft'[r] = draft[r]
  BY SaveThreadEffect DEF ListInv
<1>3. /\ newIndex' \in [Request -> Seq(Entry)]
      /\ \A q \in Request \ {r} : newIndex'[q] = newIndex[q]
      /\ newIndex'[r] \in {newIndex[r], <<>>}
  BY <1>1, RoundsList DEF ListInv, ListsTypeOK
<1> QED BY <1>1, <1>2, <1>3, ListsAside

LEMMA ListConflict ==
    ASSUME ListInv, Inv', NEW r \in Request, Conflict(r) \/ Abandon(r)
    PROVE  ListInv'
<1>1. PICK step \in {"append", "index", "delete"} :
        /\ Retry(r, step) \/ Finish(r)
        /\ step = "index" => pc[r] = "relist"
  BY DEF Conflict, Abandon
<1>2. /\ UNCHANGED <<index, legacy, tid, key>>
      /\ \A q \in Request \ {r} : dirty'[q] = dirty[q]
  BY DEF Conflict, Abandon, stored, ListInv, Inv, ThreadsTypeOK
<1>3. /\ newIndex' \in [Request -> Seq(Entry)] /\ newIndex'[r] = <<>>
      /\ \A q \in Request \ {r} : newIndex'[q] = newIndex[q]
  BY <1>1, RoundsList DEF ListInv
<1>4. /\ pc'[r] \in {step, "done"} /\ (pc'[r] = "index" => draft'[r] = draft[r])
      /\ \A q \in Request \ {r} : pc'[q] = pc[q] /\ draft'[q] = draft[q]
  BY <1>1, Rounds DEF ListInv, Inv
<1> QED BY <1>1, <1>2, <1>3, <1>4, ListsAside

LEMMA ListExpireThread ==
    ASSUME ListInv, Inv', NEW t \in Thread, ExpireThread(t)
    PROVE  ListInv'
<1>1. /\ UNCHANGED <<index, legacy, tid, key, pc, draft, newIndex>>
      /\ \A q \in Request : ~dirty'[q] => ~dirty[q]
  BY DEF ExpireThread, Wake
<1> QED BY <1>1, ListsAside DEF ListInv, ListsTypeOK

\* Reading the list as a reader sees it, or with the old list unread.
LEMMA FoundFacts ==
    ASSUME ListInv, NEW r \in Request, NEW legacyRead \in BOOLEAN
    PROVE  /\ Found(r, legacyRead) \in Seq(Entry) /\ Once(Found(r, legacyRead))
           /\ legacyRead => Found(r, legacyRead) = Listed(key[r])
<1>1. key[r] \in Key
  BY DEF ListInv, Inv, ThreadsTypeOK
<1>2. /\ index[key[r]] \in Seq(Entry) /\ legacy[key[r]] \in Seq(Entry)
      /\ Once(index[key[r]]) /\ Once(legacy[key[r]])
  BY <1>1 DEF ListInv, ListsTypeOK, EachOnce
<1> QED BY <1>2 DEF Found, Listed

LEMMA ListReadIndex ==
    ASSUME ListInv, Inv', NEW r \in Request, ReadIndex(r)
    PROVE  ListInv'
<1>1. PICK legacyRead \in BOOLEAN :
         /\ legacyRead \/ "read_fails" \in Trouble
         /\ \/ /\ pc[r] = "index"
               /\ pc' = [pc EXCEPT ![r] = "relist"]
               /\ newIndex' = [newIndex EXCEPT ![r] = Relisted(r, Found(r, legacyRead))]
            \/ /\ pc[r] = "delete"
               /\ pc' = [pc EXCEPT ![r] = "erase"]
               /\ newIndex' = [newIndex EXCEPT ![r] = Without(Found(r, legacyRead), tid[r])]
  BY DEF ReadIndex
<1>2. /\ UNCHANGED <<index, legacy, tid, key, draft>>
      /\ dirty' = [q \in Request |-> IF q = r THEN FALSE ELSE dirty[q]]
  BY DEF ReadIndex, stored, ListInv, Inv, ThreadsTypeOK
<1> DEFINE found == Found(r, legacyRead)
<1>3. /\ found \in Seq(Entry) /\ Once(found)
      /\ legacyRead => found = Listed(key[r])
  BY FoundFacts
<1> HIDE DEF found
<1> DEFINE n == IF pc[r] = "index" THEN Relisted(r, found) ELSE Without(found, tid[r])
<1>4. n \in Seq(Entry) /\ Once(n)
  BY <1>1, <1>3, Rebuilt
<1>5. /\ newIndex' = [q \in Request |-> IF q = r THEN n ELSE newIndex[q]]
      /\ pc' = [q \in Request |-> IF q # r THEN pc[q]
                                  ELSE IF pc[r] = "index" THEN "relist" ELSE "erase"]
  BY <1>1 DEF found, ListInv, ListsTypeOK, Inv, ThreadsTypeOK
<1>6. n = IF pc[r] = "index" THEN Relisted(r, found) ELSE Without(found, tid[r])
  OBVIOUS
<1> HIDE DEF n
<1>7. ListsTypeOK'
  BY <1>2, <1>4, <1>5 DEF ListInv, ListsTypeOK
<1>8. EachOnce'
  <2>1. \A q \in Request : Once(newIndex'[q])
    BY <1>4, <1>5 DEF ListInv, EachOnce
  <2> QED BY <1>2, <2>1 DEF ListInv, EachOnce
<1>9. Counted'
  BY <1>1, <1>2, <1>5 DEF ListInv, Counted
<1>10. ASSUME "read_fails" \notin Trouble PROVE IndexCurrent'
  <2>1. found = Listed(key[r])
    BY <1>1, <1>3, <1>10
  <2>2. \A k : Listed(k)' = Listed(k)
    BY <1>2 DEF Listed
  <2>3. \A q \in Request : \A s : Relisted(q, s)' = Relisted(q, s)
    BY <1>2 DEF Relisted
  <2> SUFFICES ASSUME NEW q \in Request, ~dirty'[q]
               PROVE  /\ pc'[q] = "relist" => newIndex'[q] = Relisted(q, Listed(key[q]))'
                      /\ pc'[q] = "erase" => newIndex'[q] = Without(Listed(key[q]), tid[q])'
    BY DEF IndexCurrent
  <2>4. CASE q = r
    BY <1>1, <1>2, <1>5, <1>6, <2>1, <2>2, <2>3, <2>4
  <2>5. CASE q # r
    <3>1. pc'[q] = pc[q] /\ newIndex'[q] = newIndex[q] /\ ~dirty[q]
      BY <1>2, <1>5, <2>5
    <3>2. /\ pc[q] = "relist" => newIndex[q] = Relisted(q, Listed(key[q]))
          /\ pc[q] = "erase" => newIndex[q] = Without(Listed(key[q]), tid[q])
      BY <1>10, <3>1 DEF ListInv, IndexCurrent
    <3> QED BY <1>2, <2>2, <2>3, <3>1, <3>2
  <2> QED BY <2>4, <2>5
<1> QED BY <1>7, <1>8, <1>9, <1>10 DEF ListInv

\* The list a request has built is written, and wakes everybody else who watches
\* it; then the request ends or starts another round.
LEMMA ListReplaced ==
    ASSUME ListInv, NEW r \in Request, WriteIndex(r) \/ EraseThread(r)
    PROVE  /\ index' = [index EXCEPT ![key[r]] = newIndex[r]]
           /\ legacy' = [legacy EXCEPT ![key[r]] = <<>>]
           /\ UNCHANGED <<tid, key>>
           /\ key[r] \in Key /\ newIndex[r] \in Seq(Entry) /\ Once(newIndex[r])
           /\ newIndex' \in [Request -> Seq(Entry)] /\ newIndex'[r] = <<>>
           /\ pc'[r] \in {"index", "delete", "done"}
           /\ pc'[r] = "index" => pc[r] = "relist" /\ draft'[r] = draft[r]
           /\ WriteIndex(r) => pc'[r] \in {"index", "done"}
           /\ EraseThread(r) => pc'[r] \in {"delete", "done"}
           /\ \A q \in Request \ {r} : /\ pc'[q] = pc[q] /\ draft'[q] = draft[q]
                                      /\ newIndex'[q] = newIndex[q]
           /\ \A q \in Request : pc'[q] \in {"relist", "erase"} /\ ~dirty'[q] =>
                                    ~dirty[q] /\ key[q] # key[r]
<1>1. CASE WriteIndex(r)
  <2>1. pc[r] = "relist" /\ (Retry(r, "index") \/ Finish(r))
    BY <1>1 DEF WriteIndex, LoseReply
  <2>2. /\ pc'[r] \in {"index", "done"} /\ (pc'[r] = "index" => draft'[r] = draft[r])
        /\ \A q \in Request \ {r} : pc'[q] = pc[q] /\ draft'[q] = draft[q]
    BY <2>1, Rounds DEF ListInv, Inv
  <2>3. /\ newIndex' \in [Request -> Seq(Entry)] /\ newIndex'[r] = <<>>
        /\ \A q \in Request \ {r} : newIndex'[q] = newIndex[q]
    BY <2>1, RoundsList DEF ListInv
  <2>4. \A q \in Request : ~dirty'[q] => ~dirty[q] /\ q \notin IndexWatchersOf(key[r]) \ {r}
    BY <1>1 DEF WriteIndex, Wake
  <2>5. ~EraseThread(r)
    BY <2>1 DEF EraseThread
  <2>6. ASSUME NEW q \in Request, pc'[q] \in {"relist", "erase"}, ~dirty'[q]
        PROVE  ~dirty[q] /\ key[q] # key[r]
    BY <2>2, <2>4, <2>6 DEF IndexWatchersOf
  <2>7. /\ index' = [index EXCEPT ![key[r]] = newIndex[r]]
        /\ legacy' = [legacy EXCEPT ![key[r]] = <<>>]
        /\ UNCHANGED <<tid, key>>
    BY <1>1 DEF WriteIndex
  <2>8. key[r] \in Key /\ newIndex[r] \in Seq(Entry) /\ Once(newIndex[r])
    BY DEF ListInv, Inv, ThreadsTypeOK, ListsTypeOK, EachOnce
  <2> QED BY <2>1, <2>2, <2>3, <2>5, <2>6, <2>7, <2>8
<1>2. CASE EraseThread(r)
  <2>1. pc[r] = "erase" /\ (Retry(r, "delete") \/ Finish(r))
    BY <1>2 DEF EraseThread, LoseReply
  <2>2. /\ pc'[r] \in {"delete", "done"}
        /\ \A q \in Request \ {r} : pc'[q] = pc[q] /\ draft'[q] = draft[q]
    BY <2>1, Rounds DEF ListInv, Inv
  <2>3. /\ newIndex' \in [Request -> Seq(Entry)] /\ newIndex'[r] = <<>>
        /\ \A q \in Request \ {r} : newIndex'[q] = newIndex[q]
    BY <2>1, RoundsList DEF ListInv
  <2>4. \A q \in Request : ~dirty'[q] => ~dirty[q] /\ q \notin IndexWatchersOf(key[r]) \ {r}
    BY <1>2 DEF EraseThread, Wake
  <2>5. ~WriteIndex(r)
    BY <2>1 DEF WriteIndex
  <2>6. ASSUME NEW q \in Request, pc'[q] \in {"relist", "erase"}, ~dirty'[q]
        PROVE  ~dirty[q] /\ key[q] # key[r]
    BY <2>2, <2>4, <2>6 DEF IndexWatchersOf
  <2>7. /\ index' = [index EXCEPT ![key[r]] = newIndex[r]]
        /\ legacy' = [legacy EXCEPT ![key[r]] = <<>>]
        /\ UNCHANGED <<tid, key>>
    BY <1>2 DEF EraseThread
  <2>8. key[r] \in Key /\ newIndex[r] \in Seq(Entry) /\ Once(newIndex[r])
    BY DEF ListInv, Inv, ThreadsTypeOK, ListsTypeOK, EachOnce
  <2> QED BY <2>1, <2>2, <2>3, <2>5, <2>6, <2>7, <2>8
<1> QED BY <1>1, <1>2

LEMMA ListReplace ==
    ASSUME ListInv, Inv', NEW r \in Request, WriteIndex(r) \/ EraseThread(r)
    PROVE  ListInv'
<1>1. ASSUME NEW q \in Request
      PROVE  /\ newIndex'[q] \in {newIndex[q], <<>>}
             /\ pc'[q] \in {"save", "index", "relist"} =>
                   pc[q] \in {"save", "index", "relist"} /\ draft'[q] = draft[q]
             /\ pc'[q] \in {"relist", "erase"} /\ ~dirty'[q] =>
                   /\ pc[q] = pc'[q] /\ ~dirty[q] /\ key[q] # key[r]
                   /\ newIndex'[q] = newIndex[q] /\ draft'[q] = draft[q]
  BY ListReplaced
<1> QED BY <1>1, ListReplaced, ListWritten

LEMMA ListExpireIndex ==
    ASSUME ListInv, Inv', NEW k \in Key, ExpireIndex(k)
    PROVE  ListInv'
<1>1. /\ index' = [index EXCEPT ![k] = <<>>]
      /\ UNCHANGED <<legacy, tid, key, pc, draft, newIndex>>
      /\ dirty' = [q \in Request |-> dirty[q] \/ q \in IndexWatchersOf(k)]
  BY DEF ExpireIndex, Wake
<1>2. <<>> \in Seq(Entry) /\ Once(<<>>) /\ newIndex \in [Request -> Seq(Entry)]
  BY DEF Once, ListInv, ListsTypeOK
<1> QED BY <1>1, <1>2, ListWritten DEF IndexWatchersOf

\* Every step keeps the lists in order.
LEMMA ListNext == ListInv /\ [Next]_vars => ListInv'
<1> SUFFICES ASSUME ListInv, [Next]_vars PROVE ListInv'
  OBVIOUS
<1>1. Inv'
  BY NextInv DEF ListInv
<1>2. ASSUME UNCHANGED vars PROVE ListInv'
  BY <1>1, <1>2, ListsAside DEF vars, ListInv, ListsTypeOK
<1> QED BY <1>1, <1>2, StepCases, ListAsk, ListReadThread, ListSaveThread, ListReadIndex,
           ListReplace, ListConflict, ListExpireThread, ListExpireIndex

\* The lists are in order always.
THEOREM ListInvariance == Spec => []ListInv
BY ListInit, ListNext, PTL DEF Spec

LEMMA ListInvConsistent == ListInv => ListConsistent
<1> SUFFICES ASSUME ListInv PROVE ListConsistent
  OBVIOUS
<1>1. TypeOK
  BY DEF ListInv, Inv, TypeOK
<1>2. \A k \in Key : Once(Listed(k))
  BY DEF ListInv, EachOnce, Listed
<1> QED BY <1>1, <1>2 DEF ListConsistent, ListedOnce, Once

\* A key's list names a thread once and keeps its limits, whatever requests overlap.
THEOREM ListsStayConsistent == Spec => []ListConsistent
BY ListInvConsistent, ListInvariance, PTL

\* A list that is written over has what a reader saw, but for the thread that is
\* deleted and the entries past the limit.
LEMMA ListedStaysStep ==
    ASSUME ListInv, [Next]_vars, "read_fails" \notin Trouble
    PROVE  \A k \in Key : \A t \in ListedIds(k) \ ListedIds(k)' :
              \/ \E r \in Request : pc[r] = "erase" /\ pc'[r] # "erase" /\ tid[r] = t
              \/ Len(index'[k]) = MaxIndex
              \/ index'[k] = <<>> /\ pc' = pc
<1> SUFFICES ASSUME NEW k \in Key, NEW t \in ListedIds(k) \ ListedIds(k)'
             PROVE  \/ \E r \in Request : pc[r] = "erase" /\ pc'[r] # "erase" /\ tid[r] = t
                    \/ Len(index'[k]) = MaxIndex
                    \/ index'[k] = <<>> /\ pc' = pc
  OBVIOUS
<1>1. ListedIds(k) = Ids(Listed(k)) /\ ListedIds(k)' = Ids(Listed(k)')
  BY DEF ListedIds, Ids
<1>2. ASSUME index'[k] = index[k], legacy'[k] = legacy[k] PROVE FALSE
  BY <1>1, <1>2 DEF Listed
<1>3. Listed(k) \in Seq(Entry) /\ Once(Listed(k))
  BY DEF ListInv, ListsTypeOK, EachOnce, Listed
<1>4. ASSUME NEW r \in Request, WriteIndex(r) PROVE Len(index'[k]) = MaxIndex
  <2>1. /\ pc[r] = "relist" /\ ~dirty[r]
        /\ index' = [index EXCEPT ![key[r]] = newIndex[r]]
        /\ legacy' = [legacy EXCEPT ![key[r]] = <<>>]
    BY <1>4 DEF WriteIndex
  <2>2. key[r] = k
    BY <1>2, <2>1 DEF ListInv, ListsTypeOK, Inv, ThreadsTypeOK
  <2>3. newIndex[r] = Relisted(r, Listed(k))
    BY <2>1, <2>2 DEF ListInv, IndexCurrent
  <2>4. index'[k] = newIndex[r]
    BY <2>1, <2>2 DEF ListInv, ListsTypeOK
  <2>5. /\ newIndex[r] # <<>>
        /\ Ids(Listed(k)) \subseteq Ids(newIndex[r]) \/ Len(newIndex[r]) = MaxIndex
    BY <1>3, <2>1, <2>3, Rebuilt
  <2>6. Listed(k)' = newIndex[r]
    BY <2>4, <2>5 DEF Listed
  <2> QED BY <1>1, <2>4, <2>5, <2>6
<1>5. ASSUME NEW r \in Request, EraseThread(r)
      PROVE  pc[r] = "erase" /\ pc'[r] # "erase" /\ tid[r] = t
  <2>1. /\ pc[r] = "erase" /\ ~dirty[r] /\ pc'[r] # "erase"
        /\ index' = [index EXCEPT ![key[r]] = newIndex[r]]
        /\ legacy' = [legacy EXCEPT ![key[r]] = <<>>]
    BY <1>5, ListReplaced DEF EraseThread
  <2>2. key[r] = k
    BY <1>2, <2>1 DEF ListInv, ListsTypeOK, Inv, ThreadsTypeOK
  <2>3. newIndex[r] = Without(Listed(k), tid[r])
    BY <2>1, <2>2 DEF ListInv, IndexCurrent
  <2>4. index'[k] = newIndex[r] /\ legacy'[k] = <<>>
    BY <2>1, <2>2 DEF ListInv, ListsTypeOK
  <2>5. Ids(newIndex[r]) = Ids(Listed(k)) \ {tid[r]}
    BY <1>3, <2>3, Rebuilt
  <2>6. Listed(k)' = newIndex[r]
    BY <2>4 DEF Listed
  <2> QED BY <1>1, <2>1, <2>5, <2>6
<1>6. ASSUME NEW j \in Key, ExpireIndex(j) PROVE index'[k] = <<>> /\ pc' = pc
  <2>1. index' = [index EXCEPT ![j] = <<>>] /\ UNCHANGED <<legacy, pc>>
    BY <1>6 DEF ExpireIndex
  <2>2. j = k
    BY <1>2, <2>1 DEF ListInv, ListsTypeOK
  <2> QED BY <2>1, <2>2 DEF ListInv, ListsTypeOK
<1>7. ASSUME UNCHANGED <<index, legacy>> PROVE FALSE
  BY <1>2, <1>7
<1> QED BY <1>4, <1>5, <1>6, <1>7, StepCases
        DEF Ask, AskDelete, ReadThread, SaveThread, ReadIndex, Conflict, Abandon,
            ExpireThread, vars, stored

\* A listed thread leaves the list only when it is deleted, when the list is full
\* or when it expires, as long as no plain read of the legacy list fails.
THEOREM ListingsStay ==
    ASSUME "read_fails" \notin Trouble
    PROVE  Spec => ListedStays
<1>1. ListInv /\ [Next]_vars =>
        [\A k \in Key : \A t \in ListedIds(k) \ ListedIds(k)' :
              \/ \E r \in Request : pc[r] = "erase" /\ pc'[r] # "erase" /\ tid[r] = t
              \/ Len(index'[k]) = MaxIndex
              \/ index'[k] = <<>> /\ pc' = pc]_vars
  BY ListedStaysStep
<1> QED BY <1>1, ListInvariance, PTL DEF Spec, ListedStays

-----------------------------------------------------------------------------
(* The lists and the threads they name. *)

\* A key that has a list of its own has no legacy list any more.
Retired == \A k \in Key : index[k] # <<>> => legacy[k] = <<>>

\* The list a request is about to write has its thread, or has it no more, and as
\* long as nobody woke the request it names no other thread than a reader sees.
DraftsFit ==
    \A r \in Request :
        /\ pc[r] = "relist" => tid[r] \in Ids(newIndex[r])
        /\ pc[r] = "erase" => tid[r] \notin Ids(newIndex[r])
        /\ pc[r] \in {"relist", "erase"} /\ ~dirty[r] =>
              Ids(newIndex[r]) \subseteq ListedIds(key[r]) \cup {tid[r]}

\* A thread that an append will list exists, or a list may name it in vain.
Awaited == \A r \in Request : Listing(r) => turns[tid[r]] # <<>> \/ tid[r] \in gone

\* A thread that exists has an owner.
Owned == \A t \in Thread : turns[t] # <<>> => owner[t] \in Key

DraftInv == ListInv /\ Retired /\ DraftsFit
HistoryInv == HistoryTypeOK /\ Owned /\ Awaited /\ StoredIsListed /\ ListedIsStored
AgreeInv == DraftInv /\ HistoryInv

\* Threads a list names, before and after a step.
LEMMA ListedAre ==
    ASSUME NEW k
    PROVE  ListedIds(k) = Ids(Listed(k)) /\ ListedIds(k)' = Ids(Listed(k)')
BY DEF ListedIds, Ids

\* A step that writes no list, and brings no request to the point of writing one.
LEMMA FitAside ==
    ASSUME DraftInv, ListInv', UNCHANGED <<index, legacy, tid, key>>,
           \A q \in Request : pc'[q] \in {"relist", "erase"} =>
               pc[q] = pc'[q] /\ newIndex'[q] = newIndex[q] /\ (~dirty'[q] => ~dirty[q])
    PROVE  DraftInv'
<1>1. Retired'
  BY DEF DraftInv, Retired
<1>2. \A k : ListedIds(k)' = ListedIds(k)
  BY DEF ListedIds, Listed
<1>3. DraftsFit'
  <2> SUFFICES ASSUME NEW q \in Request, pc'[q] \in {"relist", "erase"}
               PROVE  /\ pc'[q] = "relist" => tid'[q] \in Ids(newIndex'[q])
                      /\ pc'[q] = "erase" => tid'[q] \notin Ids(newIndex'[q])
                      /\ ~dirty'[q] =>
                            Ids(newIndex'[q]) \subseteq ListedIds(key[q])' \cup {tid'[q]}
    BY DEF DraftsFit
  <2>1. pc[q] = pc'[q] /\ newIndex'[q] = newIndex[q] /\ (~dirty'[q] => ~dirty[q])
    OBVIOUS
  <2> QED BY <1>2, <2>1 DEF DraftInv, DraftsFit
<1> QED BY <1>1, <1>3 DEF DraftInv

\* What is listed once a key's list is written.
LEMMA ListingsWritten ==
    ASSUME DraftInv, NEW k \in Key, NEW n, index' = [index EXCEPT ![k] = n],
           \/ legacy' = [legacy EXCEPT ![k] = <<>>]
           \/ legacy' = legacy /\ n = <<>> /\ index[k] # <<>>
    PROVE  /\ ListedIds(k)' = Ids(n)
           /\ \A j \in Key \ {k} : ListedIds(j)' = ListedIds(j)
           /\ Retired'
<1>1. /\ \A j \in Key : index'[j] = IF j = k THEN n ELSE index[j]
      /\ \A j \in Key \ {k} : legacy'[j] = legacy[j]
  BY DEF DraftInv, ListInv, ListsTypeOK
<1>2. legacy'[k] = <<>>
  BY DEF DraftInv, ListInv, ListsTypeOK, Retired
<1>3. Listed(k)' = n
  BY <1>1, <1>2 DEF Listed
<1>4. \A j \in Key \ {k} : Listed(j)' = Listed(j)
  BY <1>1 DEF Listed
<1>5. Retired'
  BY <1>1, <1>2 DEF DraftInv, Retired
<1> QED BY <1>3, <1>4, <1>5, ListedAre

\* Writing a key's list, which wakes everybody else who watches it.
LEMMA FitWritten ==
    ASSUME DraftInv, ListInv', UNCHANGED <<tid, key>>, NEW k \in Key, NEW n,
           index' = [index EXCEPT ![k] = n],
           \/ legacy' = [legacy EXCEPT ![k] = <<>>]
           \/ legacy' = legacy /\ n = <<>> /\ index[k] # <<>>,
           \A q \in Request : pc'[q] \in {"relist", "erase"} =>
               /\ pc[q] = pc'[q] /\ newIndex'[q] = newIndex[q]
               /\ ~dirty'[q] => ~dirty[q] /\ key[q] # k
    PROVE  DraftInv'
<1>1. Retired' /\ \A j \in Key \ {k} : ListedIds(j)' = ListedIds(j)
  BY ListingsWritten
<1>2. DraftsFit'
  <2> SUFFICES ASSUME NEW q \in Request, pc'[q] \in {"relist", "erase"}
               PROVE  /\ pc'[q] = "relist" => tid'[q] \in Ids(newIndex'[q])
                      /\ pc'[q] = "erase" => tid'[q] \notin Ids(newIndex'[q])
                      /\ ~dirty'[q] =>
                            Ids(newIndex'[q]) \subseteq ListedIds(key[q])' \cup {tid'[q]}
    BY DEF DraftsFit
  <2>1. /\ pc[q] = pc'[q] /\ newIndex'[q] = newIndex[q]
        /\ ~dirty'[q] => ~dirty[q] /\ key[q] # k
    OBVIOUS
  <2>2. key[q] \in Key
    BY DEF DraftInv, ListInv, Inv, ThreadsTypeOK
  <2>3. ~dirty'[q] => ListedIds(key[q])' = ListedIds(key[q])
    <3> SUFFICES ASSUME ~dirty'[q] PROVE ListedIds(key[q])' = ListedIds(key[q])
      OBVIOUS
    <3>1. PICK j \in Key \ {k} : j = key[q] /\ j = key'[q]
      BY <2>1, <2>2
    <3>2. ListedIds(key[q])' = ListedIds(j)'
      BY <3>1 DEF ListedIds, Listed
    <3> QED BY <1>1, <3>1, <3>2
  <2> QED BY <2>1, <2>3 DEF DraftInv, DraftsFit
<1> QED BY <1>1, <1>2 DEF DraftInv

\* A list is built from what was read, and names one thread more or one less.
LEMMA FitRead ==
    ASSUME DraftInv, ListInv', NEW r \in Request, ReadIndex(r)
    PROVE  DraftInv'
<1>1. PICK legacyRead \in BOOLEAN :
         \/ /\ pc[r] = "index"
            /\ pc' = [pc EXCEPT ![r] = "relist"]
            /\ newIndex' = [newIndex EXCEPT ![r] = Relisted(r, Found(r, legacyRead))]
         \/ /\ pc[r] = "delete"
            /\ pc' = [pc EXCEPT ![r] = "erase"]
            /\ newIndex' = [newIndex EXCEPT ![r] = Without(Found(r, legacyRead), tid[r])]
  BY DEF ReadIndex
<1>2. /\ UNCHANGED <<index, legacy, tid, key>>
      /\ dirty' = [q \in Request |-> IF q = r THEN FALSE ELSE dirty[q]]
  BY DEF ReadIndex, stored, DraftInv, ListInv, Inv, ThreadsTypeOK
<1> DEFINE found == Found(r, legacyRead)
<1>3. found \in Seq(Entry) /\ Once(found)
  BY FoundFacts DEF DraftInv
<1>4. Ids(found) \subseteq ListedIds(key[r])
  BY ListedAre DEF Found, Listed, Ids
<1> HIDE DEF found
<1> DEFINE n == IF pc[r] = "index" THEN Relisted(r, found) ELSE Without(found, tid[r])
<1>5. /\ Ids(n) \subseteq Ids(found) \cup {tid[r]}
      /\ pc[r] = "index" => tid[r] \in Ids(n)
      /\ pc[r] = "delete" => tid[r] \notin Ids(n)
  <2>1. Ids(Without(found, tid[r])) = Ids(found) \ {tid[r]}
    BY <1>3, Rebuilt DEF DraftInv
  <2>2. pc[r] = "index" => /\ tid[r] \in Ids(Relisted(r, found))
                           /\ Ids(Relisted(r, found)) \subseteq Ids(found) \cup {tid[r]}
    BY <1>3, Rebuilt DEF DraftInv
  <2> QED BY <1>1, <2>1, <2>2
<1>6. /\ newIndex' = [q \in Request |-> IF q = r THEN n ELSE newIndex[q]]
      /\ pc' = [q \in Request |-> IF q # r THEN pc[q]
                                  ELSE IF pc[r] = "index" THEN "relist" ELSE "erase"]
  BY <1>1 DEF found, DraftInv, ListInv, ListsTypeOK, Inv, ThreadsTypeOK
<1> HIDE DEF n
<1>7. \A k : ListedIds(k)' = ListedIds(k)
  BY <1>2 DEF ListedIds, Listed
<1>8. DraftsFit'
  BY <1>1, <1>2, <1>4, <1>5, <1>6, <1>7 DEF DraftInv, DraftsFit
<1>9. Retired'
  BY <1>2 DEF DraftInv, Retired
<1> QED BY <1>8, <1>9 DEF DraftInv

\* Every step keeps the lists under way fit to be written.
LEMMA DraftNext == DraftInv /\ [Next]_vars => DraftInv'
<1> SUFFICES ASSUME DraftInv, [Next]_vars PROVE DraftInv'
  OBVIOUS
<1>1. ListInv'
  BY ListNext DEF DraftInv
<1>2. pc \in [Request -> {"idle", "append", "save", "index", "relist",
                          "delete", "erase", "done"}]
  BY DEF DraftInv, ListInv, Inv, ThreadsTypeOK
<1>3. ASSUME NEW r \in Request, Ask(r) \/ AskDelete(r) PROVE DraftInv'
  BY <1>1, <1>2, <1>3, FitAside DEF Ask, AskDelete, stored, local
<1>4. ASSUME NEW r \in Request, ReadThread(r) PROVE DraftInv'
  <2>1. /\ UNCHANGED <<index, legacy, tid, key, newIndex>>
        /\ \A q \in Request : pc'[q] = IF q = r THEN "save" ELSE pc[q]
        /\ \A q \in Request \ {r} : dirty'[q] = dirty[q]
    BY <1>2, <1>4 DEF ReadThread, stored, DraftInv, ListInv, Inv, ThreadsTypeOK
  <2> QED BY <1>1, <2>1, FitAside
<1>5. ASSUME NEW r \in Request, SaveThread(r) PROVE DraftInv'
  <2>1. /\ UNCHANGED <<index, legacy, tid, key>>
        /\ UNCHANGED newIndex \/ Retry(r, "append") \/ Finish(r)
        /\ \A q \in Request : ~dirty'[q] => ~dirty[q]
    BY <1>5 DEF SaveThread, Saved, LoseReply, Wake
  <2>2. \A q \in Request \ {r} : newIndex'[q] = newIndex[q]
    BY <2>1, RoundsList DEF DraftInv, ListInv
  <2>3. /\ pc'[r] \in {"index", "append", "done"}
        /\ \A q \in Request \ {r} : pc'[q] = pc[q]
    BY <1>5, SaveThreadEffect DEF DraftInv, ListInv
  <2> QED BY <1>1, <2>1, <2>2, <2>3, FitAside
<1>6. ASSUME NEW r \in Request, Conflict(r) \/ Abandon(r) PROVE DraftInv'
  <2>1. PICK step \in {"append", "index", "delete"} : Retry(r, step) \/ Finish(r)
    BY <1>6 DEF Conflict, Abandon
  <2>2. /\ UNCHANGED <<index, legacy, tid, key>>
        /\ \A q \in Request \ {r} : dirty'[q] = dirty[q]
    BY <1>6 DEF Conflict, Abandon, stored, DraftInv, ListInv, Inv, ThreadsTypeOK
  <2>3. /\ pc'[r] \in {step, "done"} /\ \A q \in Request \ {r} : pc'[q] = pc[q]
    BY <2>1, Rounds DEF DraftInv, ListInv, Inv
  <2>4. \A q \in Request \ {r} : newIndex'[q] = newIndex[q]
    BY <2>1, RoundsList DEF DraftInv, ListInv
  <2> QED BY <1>1, <2>2, <2>3, <2>4, FitAside
<1>7. ASSUME NEW t \in Thread, ExpireThread(t) PROVE DraftInv'
  BY <1>1, <1>7, FitAside DEF ExpireThread, Wake
<1>8. ASSUME NEW r \in Request, WriteIndex(r) \/ EraseThread(r) PROVE DraftInv'
  <2>1. ASSUME NEW q \in Request, pc'[q] \in {"relist", "erase"}
        PROVE  /\ pc[q] = pc'[q] /\ newIndex'[q] = newIndex[q]
               /\ ~dirty'[q] => ~dirty[q] /\ key[q] # key[r]
    BY <1>8, <2>1, ListReplaced DEF DraftInv
  <2>2. /\ index' = [index EXCEPT ![key[r]] = newIndex[r]]
        /\ legacy' = [legacy EXCEPT ![key[r]] = <<>>]
        /\ UNCHANGED <<tid, key>> /\ key[r] \in Key
    BY <1>8, ListReplaced DEF DraftInv
  <2> QED BY <1>1, <2>1, <2>2, FitWritten
<1>9. ASSUME NEW k \in Key, ExpireIndex(k) PROVE DraftInv'
  <2>1. /\ index' = [index EXCEPT ![k] = <<>>] /\ index[k] # <<>>
        /\ UNCHANGED <<legacy, tid, key, pc, newIndex>>
        /\ \A q \in Request : ~dirty'[q] => ~dirty[q] /\ q \notin IndexWatchersOf(k)
    BY <1>9 DEF ExpireIndex, Wake
  <2>2. ASSUME NEW q \in Request, pc'[q] \in {"relist", "erase"}
        PROVE  /\ pc[q] = pc'[q] /\ newIndex'[q] = newIndex[q]
               /\ ~dirty'[q] => ~dirty[q] /\ key[q] # k
    BY <2>1, <2>2 DEF IndexWatchersOf
  <2> QED BY <1>1, <2>1, <2>2, FitWritten
<1>10. ASSUME UNCHANGED vars PROVE DraftInv'
  BY <1>1, <1>10, FitAside DEF vars
<1> QED BY <1>3, <1>4, <1>5, <1>6, <1>7, <1>8, <1>9, <1>10, StepCases, FitRead, <1>1

\* A step that changes no thread and no list: an append that ends before it listed
\* its thread is remembered.
LEMMA AgreeAside ==
    ASSUME AgreeInv, HistoryTypeOK',
           UNCHANGED <<turns, owner, index, legacy, tid, key, gone>>,
           unlisted \subseteq unlisted',
           \A r \in Request :
               /\ Listing(r)' => Listing(r)
               /\ Listing(r) => \/ Listing(r)'
                                \/ owner[tid[r]] = key[r] /\ tid[r] \notin ListedIds(key[r])
                                      => tid[r] \in unlisted'
    PROVE  HistoryInv'
<1>1. \A k : ListedIds(k)' = ListedIds(k)
  BY DEF ListedIds, Listed
<1>2. Owned' /\ Awaited'
  BY DEF AgreeInv, HistoryInv, Owned, Awaited
<1>3. ListedIsStored'
  BY <1>1 DEF AgreeInv, HistoryInv, ListedIsStored
<1>4. StoredIsListed'
  <2> SUFFICES ASSUME NEW t \in Thread, turns[t] # <<>>
               PROVE  \/ t \in ListedIds(owner[t])
                      \/ \E r \in Request : Listing(r)' /\ tid[r] = t /\ key[r] = owner[t]
                      \/ t \in unlisted'
    BY <1>1 DEF StoredIsListed, ListedIds, Listed
  <2> QED BY DEF AgreeInv, HistoryInv, StoredIsListed
<1> QED BY <1>2, <1>3, <1>4 DEF HistoryInv

\* A list is written: what it lost is remembered, and what an append waited to list
\* is listed, so that the threads that are left are listed as before.
LEMMA StillListed ==
    ASSUME AgreeInv, NEW k \in Key, UNCHANGED <<tid, key>>,
           \A t \in Thread : turns'[t] # <<>> => turns[t] # <<>> /\ owner'[t] = owner[t],
           \A j \in Key \ {k} : ListedIds(j)' = ListedIds(j),
           \A t \in unlisted : t \in unlisted' \/ (owner[t] = k /\ t \in ListedIds(k)'),
           Dropped(k) \subseteq unlisted',
           \A r \in Request : Listing(r) => \/ Listing(r)'
                                            \/ key[r] = k /\ tid[r] \in ListedIds(k)'
    PROVE  Owned' /\ StoredIsListed'
<1>1. Owned'
  BY DEF AgreeInv, HistoryInv, Owned
<1>2. StoredIsListed'
  <2> SUFFICES ASSUME NEW t \in Thread, turns'[t] # <<>>
               PROVE  \/ t \in ListedIds(owner[t])'
                      \/ \E r \in Request : Listing(r)' /\ tid'[r] = t /\ key'[r] = owner'[t]
                      \/ t \in unlisted'
    BY DEF StoredIsListed
  <2>1. PICK j \in Key : j = owner[t] /\ j = owner'[t]
    BY DEF AgreeInv, HistoryInv, Owned
  <2>2. /\ ListedIds(owner[t])' = ListedIds(j)'
        /\ ListedIds(owner[t]) = ListedIds(j)
    BY <2>1 DEF ListedIds, Listed
  <2>3. \/ t \in ListedIds(j)
        \/ \E r \in Request : Listing(r) /\ tid[r] = t /\ key[r] = j
        \/ t \in unlisted
    BY <2>1, <2>2 DEF AgreeInv, HistoryInv, StoredIsListed
  <2>4. CASE t \in ListedIds(j)
    BY <2>1, <2>2, <2>4 DEF Dropped
  <2>5. CASE \E r \in Request : Listing(r) /\ tid[r] = t /\ key[r] = j
    BY <2>1, <2>2, <2>5
  <2>6. CASE t \in unlisted
    BY <2>1, <2>2, <2>6
  <2> QED BY <2>3, <2>4, <2>5, <2>6
<1> QED BY <1>1, <1>2

LEMMA AgreeGoOn ==
    ASSUME AgreeInv, NEW r \in Request, GoOn(r)
    PROVE  HistoryInv'
<1>1. /\ UNCHANGED <<turns, owner, index, legacy, tid, key, unlisted, gone>>
      /\ \A q \in Request \ {r} : pc'[q] = pc[q]
      /\ \/ pc[r] \in {"idle", "append", "delete"} /\ pc'[r] \in {"append", "delete", "save", "erase"}
         \/ pc[r] = "index" /\ pc'[r] = "relist"
  BY DEF GoOn, Ask, AskDelete, ReadThread, ReadIndex, stored, local, history,
         AgreeInv, DraftInv, ListInv, Inv, ThreadsTypeOK
<1>2. HistoryTypeOK'
  BY <1>1 DEF AgreeInv, HistoryInv, HistoryTypeOK
<1>3. \A q \in Request : Listing(q)' = Listing(q)
  BY <1>1 DEF Listing
<1> QED BY <1>1, <1>2, <1>3, AgreeAside

LEMMA AgreeLeave ==
    ASSUME AgreeInv, NEW r \in Request, Leave(r)
    PROVE  HistoryInv'
<1>1. PICK step \in {"append", "index", "delete"} :
        /\ Retry(r, step) \/ Finish(r)
        /\ step = "index" => pc[r] = "relist"
  BY DEF Leave, Conflict, Abandon
<1>2. /\ UNCHANGED <<turns, owner, index, legacy, tid, key, gone>>
      /\ unlisted' = unlisted \cup
                   {t \in {tid[r]} : /\ Listing(r) /\ ~Listing(r)'
                                     /\ owner[t] = key[r] /\ t \notin ListedIds(key[r])}
  BY DEF Leave, Conflict, Abandon, stored
<1>3. /\ pc'[r] \in {step, "done"} /\ \A q \in Request \ {r} : pc'[q] = pc[q]
  BY <1>1, Rounds DEF AgreeInv, DraftInv, ListInv, Inv
<1>4. HistoryTypeOK'
  BY <1>2 DEF AgreeInv, DraftInv, ListInv, Inv, ThreadsTypeOK, HistoryInv, HistoryTypeOK
<1>5. \A q \in Request : Listing(q)' => Listing(q)
  BY <1>1, <1>3 DEF Listing
<1>6. ASSUME NEW q \in Request, Listing(q)
      PROVE  \/ Listing(q)'
             \/ owner[tid[q]] = key[q] /\ tid[q] \notin ListedIds(key[q])
                   => tid[q] \in unlisted'
  <2>1. CASE q = r
    BY <1>2, <1>6, <2>1
  <2>2. CASE q # r
    BY <1>3, <1>6, <2>2 DEF Listing
  <2> QED BY <2>1, <2>2
<1> QED BY <1>2, <1>4, <1>5, <1>6, AgreeAside

\* What a list names are threads.
LEMMA ListedThreads ==
    ASSUME ListInv, NEW k \in Key
    PROVE  ListedIds(k) \subseteq Thread
<1>1. Listed(k) \in Seq(Entry)
  BY DEF ListInv, ListsTypeOK, Listed
<1>2. \A i \in DOMAIN Listed(k) : Listed(k)[i] \in Entry
  BY <1>1
<1> QED BY <1>2 DEF ListedIds, Entry

LEMMA AgreeSave ==
    ASSUME AgreeInv, NEW r \in Request, Save(r)
    PROVE  HistoryInv'
<1> DEFINE t == tid[r]
<1>0. Inv /\ ListInv
  BY DEF AgreeInv, DraftInv, ListInv
<1>1. /\ turns' = [u \in Thread |-> IF u = t THEN NewThread(r).turns ELSE turns[u]]
      /\ owner' = [u \in Thread |-> IF u = t THEN NewThread(r).owner ELSE owner[u]]
      /\ pc'[r] \in {"index", "append", "done"} /\ \A q \in Request \ {r} : pc'[q] = pc[q]
      /\ t \in Thread /\ turns[t] \in Seq(Turn) /\ key[r] \in Key
      /\ UNCHANGED <<index, legacy, tid, key>> /\ pc[r] = "save"
  BY <1>0, SaveThreadEffect DEF Save, SaveThread, Inv, ThreadsTypeOK
<1>2. /\ unlisted' = IF turns[t] # <<>> THEN unlisted
                     ELSE IF pc'[r] = "index" THEN unlisted \ {t} ELSE unlisted \cup {t}
      /\ gone' = gone \ {t}
  BY DEF Save
<1>3. turns'[t] # <<>>
  <2>1. Len(NewThread(r).turns) \in 1..MaxTurns
    BY <1>1, OneMoreCounts DEF NewThread
  <2>2. Len(<<>>) = 0 /\ MaxTurns \in Nat
    BY ConstantsAssumption
  <2> HIDE DEF t
  <2> QED BY <1>1, <2>1, <2>2
<1>4. owner'[t] = IF turns[t] = <<>> THEN key[r] ELSE owner[t]
  BY <1>1 DEF NewThread
<1> HIDE DEF t
<1>5. \A u \in Thread \ {t} : turns'[u] = turns[u] /\ owner'[u] = owner[u]
  BY <1>1
<1>6. \A k : ListedIds(k)' = ListedIds(k)
  BY <1>1 DEF ListedIds, Listed
<1>7. HistoryTypeOK' /\ Owned'
  BY <1>1, <1>2, <1>4, <1>5 DEF AgreeInv, HistoryInv, HistoryTypeOK, Owned
<1>8. Awaited'
  <2> SUFFICES ASSUME NEW q \in Request, Listing(q)'
               PROVE  turns'[tid[q]] # <<>> \/ tid[q] \in gone'
    BY <1>1 DEF Awaited
  <2>1. tid[q] \in Thread
    BY <1>0 DEF Inv, ThreadsTypeOK
  <2>2. CASE tid[q] = t
    BY <1>3, <2>2
  <2>3. CASE tid[q] # t
    <3>1. q # r /\ Listing(q)
      BY <1>1, <2>3 DEF Listing, t
    <3> QED BY <1>2, <1>5, <2>1, <2>3, <3>1 DEF AgreeInv, HistoryInv, Awaited
  <2> QED BY <2>2, <2>3
<1>9. StoredIsListed'
  <2> SUFFICES ASSUME NEW u \in Thread, turns'[u] # <<>>
               PROVE  \/ u \in ListedIds(owner'[u])
                      \/ \E q \in Request : Listing(q)' /\ tid[q] = u /\ key[q] = owner'[u]
                      \/ u \in unlisted'
    BY <1>1 DEF StoredIsListed, ListedIds, Listed
  <2>1. \A q \in Request : Listing(q) => Listing(q)'
    BY <1>1 DEF Listing
  <2>2. ASSUME turns[u] # <<>>, owner'[u] = owner[u], u \in unlisted => u \in unlisted'
        PROVE  \/ u \in ListedIds(owner'[u])
               \/ \E q \in Request : Listing(q)' /\ tid[q] = u /\ key[q] = owner'[u]
               \/ u \in unlisted'
    BY <2>1, <2>2 DEF AgreeInv, HistoryInv, StoredIsListed
  <2>3. CASE u # t
    BY <1>2, <1>5, <2>2, <2>3
  <2>4. CASE u = t /\ turns[t] # <<>>
    BY <1>2, <1>4, <2>2, <2>4
  <2>5. CASE u = t /\ turns[t] = <<>>
    <3>1. pc'[r] = "index" => Listing(r)'
      BY DEF Listing
    <3> QED BY <1>1, <1>2, <1>4, <2>5, <3>1 DEF t
  <2> QED BY <2>3, <2>4, <2>5
<1>10. ListedIsStored'
  <2> SUFFICES ASSUME NEW k \in Key, NEW u \in ListedIds(k)
               PROVE  turns'[u] # <<>> \/ u \in gone'
    BY <1>6 DEF ListedIsStored
  <2>1. turns[u] # <<>> \/ u \in gone
    BY DEF AgreeInv, HistoryInv, ListedIsStored
  <2>2. u \in Thread
    BY <1>0, ListedThreads
  <2> QED BY <1>2, <1>3, <1>5, <2>1, <2>2
<1> QED BY <1>7, <1>8, <1>9, <1>10 DEF HistoryInv

\* What an append lists is a thread that exists, or may be listed in vain already.
LEMMA AgreeList ==
    ASSUME AgreeInv, NEW r \in Request, List(r)
    PROVE  HistoryInv'
<1>1. /\ pc[r] = "relist" /\ ~dirty[r]
      /\ index' = [index EXCEPT ![key[r]] = newIndex[r]]
      /\ legacy' = [legacy EXCEPT ![key[r]] = <<>>]
      /\ UNCHANGED <<turns, owner, tid, key, gone>>
      /\ \A q \in Request \ {r} : pc'[q] = pc[q]
      /\ unlisted' = (unlisted \cup Dropped(key[r])) \ {t \in {tid[r]} : owner[t] = key[r]}
      /\ key[r] \in Key /\ tid[r] \in Thread
  <2>1. \A q \in Request \ {r} : pc'[q] = pc[q]
    BY ListReplaced DEF List, AgreeInv, DraftInv
  <2> QED BY <2>1 DEF List, WriteIndex, AgreeInv, DraftInv, ListInv, Inv, ThreadsTypeOK
<1>2. /\ ListedIds(key[r])' = Ids(newIndex[r])
      /\ \A j \in Key \ {key[r]} : ListedIds(j)' = ListedIds(j)
  BY <1>1, ListingsWritten DEF AgreeInv
<1>3. /\ tid[r] \in Ids(newIndex[r])
      /\ Ids(newIndex[r]) \subseteq ListedIds(key[r]) \cup {tid[r]}
  BY <1>1 DEF AgreeInv, DraftInv, DraftsFit
<1>4. \A q \in Request \ {r} : Listing(q)' = Listing(q)
  BY <1>1 DEF Listing
<1>5. HistoryTypeOK'
  BY <1>1, ListedThreads DEF AgreeInv, DraftInv, HistoryInv, HistoryTypeOK, Dropped
<1>6. Owned' /\ StoredIsListed'
  <2>1. PICK k \in Key : k = key[r] /\ k = key'[r]
    BY <1>1
  <2>2. ListedIds(k)' = Ids(newIndex[r]) /\ Dropped(k) = Dropped(key[r])
    BY <1>2, <2>1 DEF Dropped, ListedIds, Listed
  <2>3. Dropped(k) \subseteq unlisted'
    BY <1>1, <1>3, <2>1, <2>2 DEF Dropped
  <2>4. \A t \in unlisted : t \in unlisted' \/ (owner[t] = k /\ t \in ListedIds(k)')
    BY <1>1, <1>3, <2>1, <2>2
  <2>5. \A j \in Key \ {k} : ListedIds(j)' = ListedIds(j)
    BY <1>2, <2>1
  <2>6. \A q \in Request : Listing(q) =>
           Listing(q)' \/ (key[q] = k /\ tid[q] \in ListedIds(k)')
    <3>1. key[r] = k /\ tid[r] \in ListedIds(k)'
      BY <1>3, <2>1, <2>2
    <3>2. ASSUME NEW q \in Request, Listing(q)
          PROVE  Listing(q)' \/ (key[q] = k /\ tid[q] \in ListedIds(k)')
      <4>1. CASE q = r
        BY <3>1, <4>1
      <4>2. CASE q # r
        BY <1>4, <3>2, <4>2
      <4> QED BY <4>1, <4>2
    <3> QED BY <3>2
  <2> QED BY <1>1, <2>3, <2>4, <2>5, <2>6, StillListed
<1>7. Awaited'
  <2>1. Listing(r)
    BY <1>1 DEF Listing
  <2> QED BY <1>1, <1>4, <2>1 DEF AgreeInv, HistoryInv, Awaited
<1>8. ListedIsStored'
  <2> SUFFICES ASSUME NEW k \in Key, NEW t \in ListedIds(k)' PROVE turns[t] # <<>> \/ t \in gone
    BY <1>1 DEF ListedIsStored
  <2>1. CASE t \in ListedIds(k)
    BY <2>1 DEF AgreeInv, HistoryInv, ListedIsStored
  <2>2. CASE t \notin ListedIds(k)
    <3>1. t = tid[r]
      BY <1>1, <1>2, <1>3, <2>2
    <3> QED BY <1>1, <3>1 DEF AgreeInv, HistoryInv, Awaited, Listing
  <2> QED BY <2>1, <2>2
<1> QED BY <1>5, <1>6, <1>7, <1>8 DEF HistoryInv

\* What a delete takes away is listed no more by its own key, and is remembered if
\* another's list or append may name it.
LEMMA AgreeErase ==
    ASSUME AgreeInv, NEW r \in Request, Erase(r)
    PROVE  HistoryInv'
<1>1. /\ pc[r] = "erase" /\ ~dirty[r]
      /\ turns' = [turns EXCEPT ![tid[r]] = <<>>]
      /\ owner' = [owner EXCEPT ![tid[r]] = NoOne]
      /\ index' = [index EXCEPT ![key[r]] = newIndex[r]]
      /\ legacy' = [legacy EXCEPT ![key[r]] = <<>>]
      /\ UNCHANGED <<tid, key>>
      /\ pc'[r] \in {"delete", "done"} /\ \A q \in Request \ {r} : pc'[q] = pc[q]
      /\ unlisted' = unlisted \cup Dropped(key[r])
      /\ gone' = IF \/ \E q \in Request \ {r} : Listing(q) /\ tid[q] = tid[r]
                    \/ \E k \in Key \ {key[r]} : tid[r] \in ListedIds(k)
                 THEN gone \cup {tid[r]} ELSE gone \ {tid[r]}
      /\ key[r] \in Key /\ tid[r] \in Thread
  <2>1. pc'[r] \in {"delete", "done"} /\ \A q \in Request \ {r} : pc'[q] = pc[q]
    BY ListReplaced DEF Erase, AgreeInv, DraftInv
  <2> QED BY <2>1 DEF Erase, EraseThread, AgreeInv, DraftInv, ListInv, Inv, ThreadsTypeOK
<1>2. \A u \in Thread : /\ turns'[u] = IF u = tid[r] THEN <<>> ELSE turns[u]
                        /\ owner'[u] = IF u = tid[r] THEN NoOne ELSE owner[u]
  BY <1>1 DEF AgreeInv, DraftInv, ListInv, Inv, ThreadsTypeOK
<1>3. PICK k \in Key : k = key[r] /\ k = key'[r]
  BY <1>1
<1>4. /\ ListedIds(k)' = Ids(newIndex[r])
      /\ \A j \in Key \ {k} : ListedIds(j)' = ListedIds(j)
  BY <1>1, <1>3, ListingsWritten DEF AgreeInv
<1>5. Ids(newIndex[r]) \subseteq ListedIds(k) /\ tid[r] \notin Ids(newIndex[r])
  <2>1. ListedIds(key[r]) = ListedIds(k)
    BY <1>3
  <2> QED BY <1>1, <2>1 DEF AgreeInv, DraftInv, DraftsFit
<1>6. ~Listing(r) /\ \A q \in Request : Listing(q) <=> Listing(q)'
  <2>1. ~Listing(r) /\ ~Listing(r)'
    BY <1>1 DEF Listing
  <2>2. \A q \in Request \ {r} : Listing(q) <=> Listing(q)'
    BY <1>1 DEF Listing
  <2> QED BY <2>1, <2>2
<1>7. Dropped(k) \subseteq unlisted' /\ unlisted \subseteq unlisted'
  <2>1. Dropped(k) = Dropped(key[r])
    BY <1>3 DEF Dropped, ListedIds, Listed
  <2> QED BY <1>1, <2>1
<1>8. HistoryTypeOK'
  <2>1. Dropped(key[r]) \subseteq Thread
    BY <1>1, ListedThreads DEF AgreeInv, DraftInv, Dropped
  <2> QED BY <1>1, <2>1 DEF AgreeInv, HistoryInv, HistoryTypeOK
<1>9. Owned' /\ StoredIsListed'
  <2>1. \A t \in Thread : turns'[t] # <<>> => turns[t] # <<>> /\ owner'[t] = owner[t]
    BY <1>2
  <2>2. \A q \in Request : Listing(q) => Listing(q)'
    BY <1>6
  <2> QED BY <1>1, <1>4, <1>7, <2>1, <2>2, StillListed
<1>10. Awaited'
  <2> SUFFICES ASSUME NEW q \in Request, Listing(q)'
               PROVE  turns'[tid[q]] # <<>> \/ tid[q] \in gone'
    BY <1>1 DEF Awaited
  <2>1. Listing(q) /\ q # r /\ tid[q] \in Thread
    BY <1>6 DEF AgreeInv, DraftInv, ListInv, Inv, ThreadsTypeOK
  <2>2. turns[tid[q]] # <<>> \/ tid[q] \in gone
    BY <2>1 DEF AgreeInv, HistoryInv, Awaited
  <2>3. CASE tid[q] = tid[r]
    BY <1>1, <2>1, <2>3
  <2>4. CASE tid[q] # tid[r]
    BY <1>1, <1>2, <2>1, <2>2, <2>4
  <2> QED BY <2>3, <2>4
<1>11. ListedIsStored'
  <2> SUFFICES ASSUME NEW j \in Key, NEW t \in ListedIds(j)'
               PROVE  turns'[t] # <<>> \/ t \in gone'
    BY DEF ListedIsStored
  <2>1. t \in ListedIds(j) /\ (t = tid[r] => j # k)
    BY <1>4, <1>5
  <2>2. t \in Thread /\ (turns[t] # <<>> \/ t \in gone)
    BY <2>1, ListedThreads DEF AgreeInv, DraftInv, HistoryInv, ListedIsStored
  <2>3. CASE t = tid[r]
    BY <1>1, <1>3, <2>1, <2>3
  <2>4. CASE t # tid[r]
    BY <1>1, <1>2, <2>2, <2>4
  <2> QED BY <2>3, <2>4
<1> QED BY <1>8, <1>9, <1>10, <1>11 DEF HistoryInv

LEMMA AgreeLoseThread ==
    ASSUME AgreeInv, NEW t \in Thread, LoseThread(t)
    PROVE  HistoryInv'
<1>1. /\ \A u \in Thread : /\ turns'[u] = IF u = t THEN <<>> ELSE turns[u]
                           /\ owner'[u] = IF u = t THEN NoOne ELSE owner[u]
      /\ UNCHANGED <<index, legacy, tid, key, pc, unlisted>> /\ gone' = gone \cup {t}
  BY DEF LoseThread, ExpireThread, AgreeInv, DraftInv, ListInv, Inv, ThreadsTypeOK
<1>2. /\ \A k : ListedIds(k)' = ListedIds(k)
      /\ \A q \in Request : Listing(q) <=> Listing(q)'
  BY <1>1 DEF ListedIds, Listed, Listing
<1>3. HistoryTypeOK' /\ Owned'
  BY <1>1 DEF AgreeInv, HistoryInv, HistoryTypeOK, Owned
<1>4. Awaited'
  <2>1. \A q \in Request : tid[q] \in Thread
    BY DEF AgreeInv, DraftInv, ListInv, Inv, ThreadsTypeOK
  <2> QED BY <1>1, <1>2, <2>1 DEF AgreeInv, HistoryInv, Awaited
<1>5. StoredIsListed'
  <2> SUFFICES ASSUME NEW u \in Thread, u # t, turns[u] # <<>>
               PROVE  \/ u \in ListedIds(owner[u])
                      \/ \E r \in Request : Listing(r)' /\ tid[r] = u /\ key[r] = owner[u]
                      \/ u \in unlisted
    BY <1>1 DEF StoredIsListed, ListedIds, Listed
  <2> QED BY <1>2 DEF AgreeInv, HistoryInv, StoredIsListed
<1>6. ListedIsStored'
  <2> SUFFICES ASSUME NEW k \in Key, NEW u \in ListedIds(k), u # t
               PROVE  turns'[u] # <<>> \/ u \in gone
    BY <1>1, <1>2 DEF ListedIsStored
  <2>1. u \in Thread
    BY ListedThreads DEF AgreeInv, DraftInv
  <2> QED BY <1>1, <2>1 DEF AgreeInv, HistoryInv, ListedIsStored
<1> QED BY <1>3, <1>4, <1>5, <1>6 DEF HistoryInv

LEMMA AgreeLoseIndex ==
    ASSUME AgreeInv, NEW k \in Key, LoseIndex(k)
    PROVE  HistoryInv'
<1>1. /\ index' = [index EXCEPT ![k] = <<>>] /\ index[k] # <<>>
      /\ UNCHANGED <<turns, owner, legacy, tid, key, pc, gone>>
      /\ unlisted' = unlisted \cup Dropped(k)
  BY DEF LoseIndex, ExpireIndex
<1>2. /\ ListedIds(k)' = {}
      /\ \A j \in Key \ {k} : ListedIds(j)' = ListedIds(j)
  <2>1. Ids(<<>>) = {}
    BY DEF Ids
  <2> QED BY <1>1, <2>1, ListingsWritten DEF AgreeInv
<1>3. \A q \in Request : Listing(q) <=> Listing(q)'
  BY <1>1 DEF Listing
<1>4. HistoryTypeOK'
  BY <1>1, ListedThreads DEF AgreeInv, DraftInv, HistoryInv, HistoryTypeOK, Dropped
<1>5. Owned' /\ StoredIsListed'
  <2>1. \A q \in Request : Listing(q) => Listing(q)'
    BY <1>3
  <2> QED BY <1>1, <1>2, <2>1, StillListed
<1>6. Awaited'
  BY <1>1, <1>3 DEF AgreeInv, HistoryInv, Awaited
<1>7. ListedIsStored'
  BY <1>1, <1>2 DEF AgreeInv, HistoryInv, ListedIsStored
<1> QED BY <1>4, <1>5, <1>6, <1>7 DEF HistoryInv

\* Initially what is stored is listed by its owner, and nothing else is.
LEMMA AgreeInit == ListedInit => AgreeInv
<1> SUFFICES ASSUME ListedInit PROVE AgreeInv
  OBVIOUS
<1> USE ConstantsAssumption DEF ListedInit
<1>1. ListInv
  BY ListInit
<1>2. Retired /\ DraftsFit /\ Awaited /\ HistoryTypeOK
  BY DEF Init, Retired, DraftsFit, Awaited, Listing, HistoryTypeOK
<1>3. \A k \in Key : ListedIds(k) = IF k = OldOwner THEN Old ELSE {}
  <2>1. \A k \in Key : Listed(k) = legacy[k]
    BY DEF Init, Listed
  <2>2. DOMAIN OldIndex = 1..Len(OldIndex)
    OBVIOUS
  <2>3. \A k \in Key : legacy[k] = IF k # OldOwner THEN <<>>
                       ELSE [i \in DOMAIN OldIndex |-> [tid |-> OldIndex[i], count |-> 1]]
    BY <2>2 DEF Init
  <2>4. Ids(<<>>) = {}
    BY DEF Ids
  <2>5. Ids([i \in DOMAIN OldIndex |-> [tid |-> OldIndex[i], count |-> 1]]) = Old
    BY DEF Ids, Old
  <2>6. \A k \in Key : ListedIds(k) = Ids(legacy[k])
    BY <2>1 DEF ListedIds, Ids
  <2> QED BY <2>3, <2>4, <2>5, <2>6
<1>4. \A t \in Thread : /\ turns[t] # <<>> <=> t \in Old
                        /\ t \in Old => owner[t] = OldOwner
  BY DEF Init
<1>5. Owned /\ StoredIsListed /\ ListedIsStored
  <2>1. Old \subseteq Thread
    BY DEF Old
  <2> QED BY <1>3, <1>4, <2>1 DEF Owned, StoredIsListed, ListedIsStored
<1> QED BY <1>1, <1>2, <1>5 DEF AgreeInv, DraftInv, HistoryInv

\* The histories only watch: every step is one of the store.
LEMMA HistoriesWatch == [ListedNext]_allVars => [Next]_vars
BY DEF ListedNext, allVars, Next, RequestStep, GoOn, Save, List, Erase, Leave, LoseThread, LoseIndex

\* What is proved of the store holds of the store with its histories.
THEOREM HistoriesOnlyWatch == ListedSpec => Spec
<1>1. ListedInit => Init
  BY DEF ListedInit
<1> QED BY <1>1, HistoriesWatch, PTL DEF ListedSpec, Spec

LEMMA AgreeNext == AgreeInv /\ [ListedNext]_allVars => AgreeInv'
<1> SUFFICES ASSUME AgreeInv, [ListedNext]_allVars PROVE AgreeInv'
  OBVIOUS
<1>1. DraftInv'
  BY HistoriesWatch, DraftNext DEF AgreeInv
<1>2. ASSUME UNCHANGED allVars PROVE HistoryInv'
  <2>1. UNCHANGED <<turns, owner, index, legacy, tid, key, pc, unlisted, gone>>
    BY <1>2 DEF allVars, vars, history
  <2>2. HistoryTypeOK' /\ \A q \in Request : Listing(q)' <=> Listing(q)
    BY <2>1 DEF Listing, AgreeInv, HistoryInv, HistoryTypeOK
  <2> QED BY <2>1, <2>2, AgreeAside
<1> QED BY <1>1, <1>2, AgreeGoOn, AgreeSave, AgreeList, AgreeErase, AgreeLeave,
           AgreeLoseThread, AgreeLoseIndex DEF ListedNext, AgreeInv

\* A thread that exists is in its owner's list and a list names threads that exist,
\* but for what happens between the two transactions of an append, what the list's
\* limit or a TTL takes away, and two keys that share a thread.
THEOREM ListsAgreeAlways == ListedSpec => []ListsAgree
<1>1. AgreeInv => ListsAgree
  BY ListInvConsistent DEF AgreeInv, DraftInv, HistoryInv, ListsAgree
<1> QED BY <1>1, AgreeInit, AgreeNext, PTL DEF ListedSpec
=============================================================================
