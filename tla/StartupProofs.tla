--------------------------- MODULE StartupProofs ---------------------------
(* Theorems of Startup, for any instances, callers and number of migrations. *)
EXTENDS Startup, TLAPS, WellFoundedInduction

USE ConstantsAssumption, StartupAssumption

(***************************************************************************)
(* The circuit breaker.                                                    *)
(***************************************************************************)
\* The timer is the age of the last failure, whoever failed.
Inv == TypeOK /\ OpenIffThreshold /\ elapsed = since

\* Every breaker starts with the invariant.
LEMMA InitHasInv == ASSUME Init PROVE Inv
<1>1. elapsed \in 0..ResetTimeout /\ elapsed = since
  BY DEF Init
<1>2. failures \in Nat /\ ~ failures >= Threshold
  BY DEF Init
<1>3. cstate = "closed" /\ flight \in [Caller -> {"none", "call", "probe"}]
  BY DEF Init
<1> QED BY <1>1, <1>2, <1>3 DEF Inv, TypeOK, OpenIffThreshold

\* No outcome of a call, and no other step, breaks the invariant.
LEMMA StepKeepsInv == ASSUME Inv, [Next]_vars PROVE Inv'
<1> USE DEF Inv, TypeOK, OpenIffThreshold
<1>1. ASSUME NEW c \in Caller, Admit(c)
      PROVE  Inv'
  BY <1>1 DEF Admit, State
<1>2. ASSUME NEW c \in Caller, OnSuccess(c)
      PROVE  Inv'
  BY <1>2 DEF OnSuccess
<1>3. ASSUME NEW c \in Caller, OnFailure(c)
      PROVE  Inv'
  BY <1>3 DEF OnFailure
<1>4. ASSUME NEW c \in Caller, PassOn(c)
      PROVE  Inv'
  BY <1>4 DEF PassOn
<1>5. CASE Reset
  <2>1. ~ 0 >= Threshold
    OBVIOUS
  <2> QED BY <1>5, <2>1 DEF Reset
<1>6. CASE Tick
  <2>1. elapsed' \in 0..ResetTimeout
    BY <1>6 DEF Tick
  <2> QED BY <1>6, <2>1 DEF Tick
<1>7. CASE UNCHANGED vars
  BY <1>7 DEF vars
<1> QED BY <1>1, <1>2, <1>3, <1>4, <1>5, <1>6, <1>7 DEF Next

\* The circuit is open exactly while the failures reach the threshold.
THEOREM Invariance == Spec => []Inv
BY InitHasInv, StepKeepsInv, PTL DEF Spec

\* The breaker opens at the threshold and never below it, in every
\* interleaving of late answers.
THEOREM OpensAtThreshold == Spec => []BreakerConsistent
BY Invariance, PTL DEF Inv, BreakerConsistent

\* A caller that passes has found the circuit closed, or its timer over.
LEMMA PassesInTime ==
    ASSUME Inv, [Next]_vars, NEW c \in Caller, flight[c] = "none", flight'[c] # "none"
    PROVE  cstate = "closed" \/ since >= ResetTimeout
<1>1. ASSUME NEW d \in Caller, OnSuccess(d) \/ OnFailure(d) \/ PassOn(d)
      PROVE  FALSE
  BY <1>1 DEF OnSuccess, OnFailure, PassOn, Inv, TypeOK
<1>2. CASE Reset \/ Tick \/ UNCHANGED vars
  BY <1>2 DEF Reset, Tick, vars
<1>3. ASSUME NEW d \in Caller, Admit(d)
      PROVE  State # "open"
  BY <1>3 DEF Admit
<1>4. State # "open" => cstate = "closed" \/ since >= ResetTimeout
  BY DEF State, Inv, TypeOK
<1> QED BY <1>1, <1>2, <1>3, <1>4 DEF Next

\* No caller passes an open circuit within reset_timeout of any failure.
THEOREM WaitsAfterFailure == Spec => BacksOff
<1>1. Inv /\ [Next]_vars =>
        [\A c \in Caller : flight[c] = "none" /\ flight'[c] # "none" =>
            cstate = "closed" \/ since >= ResetTimeout]_vars
  BY PassesInTime
<1> QED BY <1>1, Invariance, PTL DEF Spec, BacksOff

(***************************************************************************)
(* The startup.                                                            *)
(***************************************************************************)

Active(i) == pc[i] \in {"apply", "record"}

\* What an instance that migrates has left out of its work is recorded, and what
\* it is about to record is there.
WorkIsKnown ==
    \A i \in Instance :
        /\ Active(i) => pending[i] # {} /\ (1..Versions) \ pending[i] \subseteq recorded
        /\ pc[i] = "record" => Current(i) \in schema

VInv == VersionsAreTrue /\ WorkIsKnown

\* An instance that has something to do is at the least of it.
LEMMA CurrentIsLeast ==
    ASSUME NEW i \in Instance, StartupTypeOK, pending[i] # {}
    PROVE  /\ Current(i) \in pending[i] /\ Current(i) \in 1..Versions
           /\ \A v \in pending[i] : Current(i) <= v
<1> DEFINE P == pending[i]
<1>1. P \subseteq 1..Versions
  BY DEF StartupTypeOK
<1>2. P \subseteq Nat /\ P # {}
  BY <1>1
<1>3. PICK v \in P : \A w \in P : <<w, v>> \notin OpToRel(<, Nat)
  BY <1>2, WFMin, NatLessThanWellFounded, Zenon
<1>4. \A w \in P : ~ w < v
  BY <1>2, <1>3, Zenon DEF OpToRel
<1>5. \A w \in P : v <= w
  BY <1>2, <1>4
<1> QED BY <1>1, <1>5 DEF Current, Min

\* An instance that goes on with less to do keeps the types.
LEMMA OnwardKeepsType ==
    ASSUME StartupTypeOK, NEW i \in Instance, NEW rest \in SUBSET (1..Versions), Onward(i, rest)
    PROVE  /\ pc' \in [Instance -> {"down", "read", "apply", "record", "serving"}]
           /\ pending' \in [Instance -> SUBSET (1..Versions)]
           /\ \A j \in Instance \ {i} : pc'[j] = pc[j] /\ pending'[j] = pending[j]
           /\ pending'[i] = rest
           /\ pc'[i] = IF rest = {} THEN "serving" ELSE "apply"
BY DEF Onward, StartupTypeOK

\* Nothing that is recorded, or there, is forgotten; an instance that is where it
\* was knows as much as before.
LEMMA KnowledgeStays ==
    ASSUME VInv, NEW j \in Instance,
           pc'[j] = pc[j], pending'[j] = pending[j],
           schema \subseteq schema', recorded \subseteq recorded'
    PROVE  /\ Active(j)' => pending'[j] # {} /\ (1..Versions) \ pending'[j] \subseteq recorded'
           /\ pc'[j] = "record" => Current(j)' \in schema'
<1>1. Current(j)' = Current(j)
  BY DEF Current
<1> QED BY <1>1 DEF VInv, WorkIsKnown, Active

\* A clean start that has ended stays true as long as versions stay recorded.
LEMMA CleanStays ==
    ASSUME VInv, NEW j \in Instance, pc'[j] = pc[j], failed'[j] = failed[j],
           recorded \subseteq recorded', recorded' \subseteq 1..Versions
    PROVE  pc'[j] = "serving" /\ ~failed'[j] => recorded' = 1..Versions
BY DEF VInv, VersionsAreTrue, CleanStartMigrates

\* The first step of a start.
LEMMA BootKeeps == ASSUME VInv, NEW i \in Instance, Boot(i) PROVE VInv'
<1> USE DEF VInv, VersionsAreTrue
<1>1. /\ pc' \in [Instance -> {"down", "read", "apply", "record", "serving"}]
      /\ \A j \in Instance : pc'[j] = IF j = i THEN "read" ELSE pc[j]
  BY DEF Boot, StartupTypeOK
<1>2. UNCHANGED <<pending, failed, schema, recorded, duplicates>>
  BY DEF Boot
<1>3. StartupTypeOK' /\ RecordedIsThere' /\ NoGaps'
  BY <1>1, <1>2 DEF StartupTypeOK, RecordedIsThere, NoGaps
<1>4. CleanStartMigrates'
  BY <1>1, <1>2 DEF CleanStartMigrates
<1>5. ASSUME NEW j \in Instance
      PROVE  /\ Active(j)' => pending'[j] # {} /\ (1..Versions) \ pending'[j] \subseteq recorded'
             /\ pc'[j] = "record" => Current(j)' \in schema'
  <2>1. CASE j = i
    BY <1>1, <2>1 DEF Active
  <2>2. CASE j # i
    BY <1>1, <1>2, <2>2, KnowledgeStays
  <2> QED BY <2>1, <2>2
<1> QED BY <1>3, <1>4, <1>5 DEF WorkIsKnown

\* What a start finds recorded it leaves out, and an error makes it leave out
\* nothing.
LEMMA ReadKeeps == ASSUME VInv, NEW i \in Instance, ReadVersions(i) PROVE VInv'
<1> USE DEF VInv, VersionsAreTrue
<1>1. PICK existing \in Existing : Onward(i, (1..Versions) \ existing)
  BY DEF ReadVersions
<1>2. existing \subseteq recorded
  BY DEF Existing
<1>3. UNCHANGED <<failed, schema, recorded, duplicates>>
  BY DEF ReadVersions
<1> DEFINE rest == (1..Versions) \ existing
<1>4. /\ pc' \in [Instance -> {"down", "read", "apply", "record", "serving"}]
      /\ pending' \in [Instance -> SUBSET (1..Versions)]
      /\ \A j \in Instance \ {i} : pc'[j] = pc[j] /\ pending'[j] = pending[j]
      /\ pending'[i] = rest
      /\ pc'[i] = IF rest = {} THEN "serving" ELSE "apply"
  BY <1>1, OnwardKeepsType
<1> HIDE DEF rest
<1>5. rest = {} => recorded = 1..Versions
  BY <1>2 DEF rest, StartupTypeOK
<1>6. StartupTypeOK' /\ RecordedIsThere' /\ NoGaps'
  BY <1>3, <1>4 DEF StartupTypeOK, RecordedIsThere, NoGaps
<1>7. CleanStartMigrates'
  BY <1>3, <1>4, <1>5 DEF CleanStartMigrates
<1>8. ASSUME NEW j \in Instance
      PROVE  /\ Active(j)' => pending'[j] # {} /\ (1..Versions) \ pending'[j] \subseteq recorded'
             /\ pc'[j] = "record" => Current(j)' \in schema'
  <2>1. CASE j = i
    BY <1>2, <1>3, <1>4, <2>1 DEF Active, rest
  <2>2. CASE j # i
    BY <1>3, <1>4, <2>2, KnowledgeStays
  <2> QED BY <2>1, <2>2
<1> QED BY <1>6, <1>7, <1>8 DEF WorkIsKnown

\* The command has its effect, and its version is the one that will be recorded.
LEMMA ApplyKeeps == ASSUME VInv, NEW i \in Instance, Apply(i) PROVE VInv'
<1> USE DEF VInv, VersionsAreTrue
<1>1. pending[i] # {} /\ (1..Versions) \ pending[i] \subseteq recorded
  BY DEF Apply, WorkIsKnown, Active
<1>2. Current(i) \in 1..Versions
  BY <1>1, CurrentIsLeast
<1>3. /\ pc' \in [Instance -> {"down", "read", "apply", "record", "serving"}]
      /\ \A j \in Instance : pc'[j] = IF j = i THEN "record" ELSE pc[j]
      /\ schema' = schema \cup {Current(i)}
  BY DEF Apply, StartupTypeOK
<1>4. UNCHANGED <<pending, failed, recorded, duplicates>>
  BY DEF Apply
<1>5. StartupTypeOK' /\ RecordedIsThere' /\ NoGaps'
  BY <1>2, <1>3, <1>4 DEF StartupTypeOK, RecordedIsThere, NoGaps
<1>6. CleanStartMigrates'
  BY <1>3, <1>4 DEF CleanStartMigrates
<1>7. ASSUME NEW j \in Instance
      PROVE  /\ Active(j)' => pending'[j] # {} /\ (1..Versions) \ pending'[j] \subseteq recorded'
             /\ pc'[j] = "record" => Current(j)' \in schema'
  <2>1. CASE j = i
    <3>1. Current(i)' = Current(i)
      BY <1>4 DEF Current
    <3> QED BY <1>1, <1>3, <1>4, <2>1, <3>1
  <2>2. CASE j # i
    BY <1>3, <1>4, <2>2, KnowledgeStays
  <2> QED BY <2>1, <2>2
<1> QED BY <1>5, <1>6, <1>7 DEF WorkIsKnown

\* What is recorded next is there, and everything below it is recorded already.
LEMMA RecordKeeps == ASSUME VInv, NEW i \in Instance, Record(i) PROVE VInv'
<1> USE DEF VInv, VersionsAreTrue
<1> DEFINE v == Current(i)
           rest == pending[i] \ {v}
<1>1. pending[i] # {} /\ (1..Versions) \ pending[i] \subseteq recorded /\ v \in schema
  BY DEF Record, WorkIsKnown, Active
<1>2. v \in pending[i] /\ v \in 1..Versions /\ \A w \in pending[i] : v <= w
  BY <1>1, CurrentIsLeast
<1>3. recorded' = recorded \cup {v} /\ UNCHANGED <<failed, schema, duplicates>> /\ Onward(i, rest)
  BY DEF Record
<1> HIDE DEF v, rest
<1>4. rest \in SUBSET (1..Versions)
  BY DEF StartupTypeOK, rest
<1>5. /\ pc' \in [Instance -> {"down", "read", "apply", "record", "serving"}]
      /\ pending' \in [Instance -> SUBSET (1..Versions)]
      /\ \A j \in Instance \ {i} : pc'[j] = pc[j] /\ pending'[j] = pending[j]
      /\ pending'[i] = rest
      /\ pc'[i] = IF rest = {} THEN "serving" ELSE "apply"
  BY <1>3, <1>4, OnwardKeepsType
<1>6. (1..Versions) \ rest \subseteq recorded'
  BY <1>1, <1>3 DEF rest
<1>7. recorded' \subseteq 1..Versions /\ recorded \subseteq recorded'
  BY <1>2, <1>3 DEF StartupTypeOK
<1>8. StartupTypeOK' /\ RecordedIsThere'
  BY <1>1, <1>3, <1>5, <1>7 DEF StartupTypeOK, RecordedIsThere
<1>9. NoGaps'
  <2>1. ASSUME NEW w \in 1..v
        PROVE  w \in recorded'
    <3>1. CASE w = v
      BY <1>3, <3>1
    <3>2. CASE w # v
      <4>1. w \in 1..Versions /\ w \notin pending[i]
        BY <1>2, <2>1, <3>2
      <4> QED BY <1>1, <1>3, <4>1
    <3> QED BY <3>1, <3>2
  <2>2. ASSUME NEW u \in recorded
        PROVE  1..u \subseteq recorded'
    BY <1>7 DEF NoGaps
  <2> QED BY <1>3, <2>1, <2>2 DEF NoGaps
<1>10. CleanStartMigrates'
  <2>1. ASSUME NEW j \in Instance, pc'[j] = "serving", ~failed'[j]
        PROVE  recorded' = 1..Versions
    <3>1. CASE j = i
      BY <1>5, <1>6, <1>7, <2>1, <3>1
    <3>2. CASE j # i
      BY <1>3, <1>5, <1>7, <2>1, <3>2, CleanStays
    <3> QED BY <3>1, <3>2
  <2> QED BY <2>1 DEF CleanStartMigrates
<1>11. ASSUME NEW j \in Instance
       PROVE  /\ Active(j)' => pending'[j] # {} /\ (1..Versions) \ pending'[j] \subseteq recorded'
              /\ pc'[j] = "record" => Current(j)' \in schema'
  <2>1. CASE j = i
    BY <1>5, <1>6, <2>1 DEF Active
  <2>2. CASE j # i
    BY <1>3, <1>5, <2>2, KnowledgeStays
  <2> QED BY <2>1, <2>2
<1> QED BY <1>8, <1>9, <1>10, <1>11 DEF WorkIsKnown

\* A start that fails serves and says so; what its last statement did may stay.
LEMMA FailKeeps == ASSUME VInv, NEW i \in Instance, MigrationFails(i) PROVE VInv'
<1> USE DEF VInv, VersionsAreTrue
<1>1. Active(i) /\ Raises(i)
  BY DEF MigrationFails, Raises, Active
<1>2. pending[i] # {} /\ (1..Versions) \ pending[i] \subseteq recorded
  BY <1>1 DEF WorkIsKnown
<1>3. Current(i) \in pending[i] /\ Current(i) \in 1..Versions /\ \A w \in pending[i] : Current(i) <= w
  BY <1>2, CurrentIsLeast
<1>4. schema \subseteq schema' /\ schema' \subseteq schema \cup {Current(i)}
  BY <1>1 DEF Raises
<1>5. \/ recorded' = recorded
      \/ recorded' = recorded \cup {Current(i)} /\ pc[i] = "record"
  BY <1>1 DEF Raises
<1>6. failed' = [failed EXCEPT ![i] = TRUE] /\ duplicates' = duplicates /\ Onward(i, {})
  BY DEF MigrationFails
<1>7. /\ pc' \in [Instance -> {"down", "read", "apply", "record", "serving"}]
      /\ pending' \in [Instance -> SUBSET (1..Versions)]
      /\ \A j \in Instance \ {i} : pc'[j] = pc[j] /\ pending'[j] = pending[j]
      /\ pc'[i] = "serving"
  BY <1>6, OnwardKeepsType
<1>8. /\ failed' \in [Instance -> BOOLEAN]
      /\ \A j \in Instance : failed'[j] = IF j = i THEN TRUE ELSE failed[j]
  BY <1>6 DEF StartupTypeOK
<1>9. recorded' \subseteq 1..Versions /\ recorded \subseteq recorded'
  BY <1>3, <1>5 DEF StartupTypeOK
<1>10. pc[i] = "record" => Current(i) \in schema
  BY DEF WorkIsKnown
<1>11. StartupTypeOK' /\ RecordedIsThere'
  BY <1>3, <1>4, <1>5, <1>6, <1>7, <1>8, <1>9, <1>10 DEF StartupTypeOK, RecordedIsThere
<1>12. NoGaps'
  <2>1. ASSUME NEW w \in 1..Current(i), w # Current(i)
        PROVE  w \in recorded
    <3>1. w \in 1..Versions /\ w \notin pending[i]
      BY <1>3, <2>1
    <3> QED BY <1>2, <3>1
  <2> QED BY <1>5, <1>9, <2>1 DEF NoGaps
<1>13. CleanStartMigrates'
  <2>1. ASSUME NEW j \in Instance, pc'[j] = "serving", ~failed'[j]
        PROVE  recorded' = 1..Versions
    BY <1>7, <1>8, <1>9, <2>1, CleanStays
  <2> QED BY <2>1 DEF CleanStartMigrates
<1>14. ASSUME NEW j \in Instance
       PROVE  /\ Active(j)' => pending'[j] # {} /\ (1..Versions) \ pending'[j] \subseteq recorded'
              /\ pc'[j] = "record" => Current(j)' \in schema'
  <2>1. CASE j = i
    BY <1>7, <2>1 DEF Active
  <2>2. CASE j # i
    BY <1>4, <1>7, <1>9, <2>2, KnowledgeStays
  <2> QED BY <2>1, <2>2
<1> QED BY <1>11, <1>12, <1>13, <1>14 DEF WorkIsKnown

\* A crash forgets what the instance had to do and nothing else.
LEMMA CrashKeeps == ASSUME VInv, NEW i \in Instance, Crash(i) PROVE VInv'
<1> USE DEF VInv, VersionsAreTrue
<1>1. /\ pc' \in [Instance -> {"down", "read", "apply", "record", "serving"}]
      /\ pending' \in [Instance -> SUBSET (1..Versions)]
      /\ failed' \in [Instance -> BOOLEAN]
      /\ pc'[i] = "down"
      /\ \A j \in Instance \ {i} : pc'[j] = pc[j] /\ pending'[j] = pending[j] /\ failed'[j] = failed[j]
  BY DEF Crash, StartupTypeOK
<1>2. UNCHANGED <<schema, recorded, duplicates>>
  BY DEF Crash
<1>3. StartupTypeOK' /\ RecordedIsThere' /\ NoGaps'
  BY <1>1, <1>2 DEF StartupTypeOK, RecordedIsThere, NoGaps
<1>4. CleanStartMigrates'
  BY <1>1, <1>2 DEF CleanStartMigrates
<1>5. ASSUME NEW j \in Instance
      PROVE  /\ Active(j)' => pending'[j] # {} /\ (1..Versions) \ pending'[j] \subseteq recorded'
             /\ pc'[j] = "record" => Current(j)' \in schema'
  <2>1. CASE j = i
    BY <1>1, <2>1 DEF Active
  <2>2. CASE j # i
    BY <1>1, <1>2, <2>2, KnowledgeStays
  <2> QED BY <2>1, <2>2
<1> QED BY <1>3, <1>4, <1>5 DEF WorkIsKnown

\* Whatever instances do at once, and wherever they die, what the database says of
\* its schema is true (run_migrations, lifespan).
THEOREM VersionsStayTrue == StartupSpec => []VersionsAreTrue
<1>1. StartupInit => VInv
  BY DEF StartupInit, VInv, VersionsAreTrue, StartupTypeOK, RecordedIsThere, NoGaps,
         CleanStartMigrates, WorkIsKnown, Active
<1>2. ASSUME VInv, [StartupNext]_allVars
      PROVE  VInv'
  <2>1. ASSUME NEW i \in Instance, Boot(i) \/ Migrate(i) \/ Crash(i)
        PROVE  VInv'
    BY <1>2, <2>1, BootKeeps, ReadKeeps, ApplyKeeps, RecordKeeps, FailKeeps, CrashKeeps DEF Migrate
  <2>2. ASSUME UNCHANGED <<pc, pending, failed, schema, recorded>>, duplicates' \in BOOLEAN
        PROVE  VInv'
    BY <1>2, <2>2 DEF VInv, VersionsAreTrue, StartupTypeOK, RecordedIsThere, NoGaps,
         CleanStartMigrates, WorkIsKnown, Active, Current
  <2>3. ASSUME NEW i \in Instance, Delete(i)
        PROVE  VInv'
    BY <2>2, <2>3 DEF Delete
  <2>4. ASSUME NEW i \in Instance, NEW j \in Instance, Collide(i, j)
        PROVE  VInv'
    BY <2>2, <2>4 DEF Collide
  <2>5. CASE UNCHANGED startup
    <3>1. duplicates' \in BOOLEAN
      BY <1>2, <2>5 DEF startup, VInv, VersionsAreTrue, StartupTypeOK
    <3> QED BY <2>2, <2>5, <3>1 DEF startup
  <2> QED BY <1>2, <2>1, <2>3, <2>4, <2>5 DEF StartupNext, allVars
<1>3. VInv => VersionsAreTrue
  BY DEF VInv
<1> QED BY <1>1, <1>2, <1>3, PTL DEF StartupSpec

\* What a step of the startup does to the breaker: a step of its own, or a new one.
LEMMA BreakerStep ==
    ASSUME [StartupNext]_allVars
    PROVE  [Next]_vars \/ NewBreaker
BY DEF StartupNext, allVars, Boot, Migrate, ReadVersions, Apply, Record, MigrationFails,
     Crash, Delete, Collide

\* The breaker's invariant holds in an instance that crashes and starts again.
LEMMA BreakerAcrossStarts == StartupSpec => []Inv
<1>1. StartupInit => Inv
  BY InitHasInv DEF StartupInit
<1>2. ASSUME Inv, [StartupNext]_allVars
      PROVE  Inv'
  <2>1. CASE [Next]_vars
    BY <1>2, <2>1, StepKeepsInv
  <2>2. CASE NewBreaker
    <3>1. ~ 0 >= Threshold
      OBVIOUS
    <3> QED BY <1>2, <2>2, <3>1 DEF NewBreaker, Inv, TypeOK, OpenIffThreshold
  <2> QED BY <1>2, <2>1, <2>2, BreakerStep
<1> QED BY <1>1, <1>2, PTL DEF StartupSpec

\* A breaker that is thrown away with its process and made anew is consistent too.
THEOREM BreakerOutlivesCrashes == StartupSpec => []BreakerConsistent
<1>1. Inv => BreakerConsistent
  BY DEF Inv, BreakerConsistent
<1> QED BY <1>1, BreakerAcrossStarts, PTL

\* Crashes and starts do not let a caller of a running instance through early either:
\* the new breaker of a new process has no caller in flight.
THEOREM WaitsAcrossStarts == StartupSpec => BacksOff
<1>1. ASSUME Inv, [StartupNext]_allVars, NEW c \in Caller, flight[c] = "none", flight'[c] # "none"
      PROVE  cstate = "closed" \/ since >= ResetTimeout
  <2>1. CASE [Next]_vars
    BY <1>1, <2>1, PassesInTime
  <2>2. CASE NewBreaker
    BY <1>1, <2>2 DEF NewBreaker
  <2> QED BY <1>1, <2>1, <2>2, BreakerStep
<1>2. Inv /\ [StartupNext]_allVars =>
        [\A c \in Caller : flight[c] = "none" /\ flight'[c] # "none" =>
            cstate = "closed" \/ since >= ResetTimeout]_vars
  BY <1>1
<1> QED BY <1>2, BreakerAcrossStarts, PTL DEF StartupSpec, BacksOff
=============================================================================
