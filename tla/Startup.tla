------------------------------ MODULE Startup ------------------------------
(***************************************************************************)
(* Instances of the service on one Neo4j, from start to crash: the         *)
(* lifespan of aim/main.py as far as the graph is concerned, with          *)
(* aim/graph/migrations.py, and the circuit breaker through which the      *)
(* searches of one instance, Here, reach the graph once it serves.         *)
(*                                                                         *)
(* A migration is a schema command, which commits on its own, and a second *)
(* statement that records its version.  Either may fail with or without    *)
(* its effect, the instance may die at any await, and nobody keeps two     *)
(* instances from migrating at once.                                       *)
(***************************************************************************)
EXTENDS CircuitBreaker, FiniteSetsExt

CONSTANTS Instance,  \* single-worker processes behind a load balancer
          Here,      \* the one whose breaker is modelled
          Versions,  \* len(MIGRATIONS), numbered in their order
          Unique     \* the migration that makes aim_id unique

ASSUME StartupAssumption ==
    /\ Here \in Instance
    /\ Versions \in Nat \ {0}
    /\ Unique \in 1..Versions

VARIABLES
    pc,          \* where the lifespan of an instance stands
    pending,     \* the versions it still has to apply
    failed,      \* its migrations ended with an exception, which was logged
    schema,      \* the versions whose index or constraint exists
    recorded,    \* the versions with an __AIMSchemaVersion node
    duplicates   \* two nodes have the same aim_id

startup == <<pc, pending, failed, schema, recorded, duplicates>>
allVars == <<vars, startup>>

\* Instances and the schema; only versions that exist are pending.
StartupTypeOK ==
    /\ pc \in [Instance -> {"down", "read", "apply", "record", "serving"}]
    /\ pending \in [Instance -> SUBSET (1..Versions)]
    /\ failed \in [Instance -> BOOLEAN]
    /\ schema \subseteq 1..Versions
    /\ recorded \subseteq 1..Versions
    /\ duplicates \in BOOLEAN

StartupInit ==
    /\ Init
    /\ pc = [i \in Instance |-> "down"]
    /\ pending = [i \in Instance |-> {}]
    /\ failed = [i \in Instance |-> FALSE]
    /\ schema = {} /\ recorded = {} /\ duplicates = FALSE

-----------------------------------------------------------------------------
(* run_migrations *)

Boot(i) ==
    /\ pc[i] = "down"
    /\ pc' = [pc EXCEPT ![i] = "read"]
    /\ UNCHANGED <<vars, pending, failed, schema, recorded, duplicates>>

\* What _get_applied_versions finds: the truth, or an error that is taken for
\* a new database.
Existing == {recorded, {}}

\* The instance goes on with what it has to do, or serves.
Onward(i, rest) ==
    /\ pending' = [pending EXCEPT ![i] = rest]
    /\ pc' = [pc EXCEPT ![i] = IF rest = {} THEN "serving" ELSE "apply"]

ReadVersions(i) ==
    /\ pc[i] = "read"
    /\ \E existing \in Existing : Onward(i, (1..Versions) \ existing)
    /\ UNCHANGED <<vars, failed, schema, recorded, duplicates>>

\* The migration an instance is at.
Current(i) == Min(pending[i])

\* A constraint that the data contradict cannot be created; what exists
\* already need not be.
Creatable(v) == v = Unique => ~duplicates

\* Mutant of Apply: the version is recorded whether or not the command worked.
ApplyUnchecked(i) ==
    /\ pc[i] = "apply"
    /\ schema' = IF Creatable(Current(i)) THEN schema \cup {Current(i)} ELSE schema
    /\ pc' = [pc EXCEPT ![i] = "record"]
    /\ UNCHANGED <<vars, pending, failed, recorded, duplicates>>

\* session.run(migration.cypher), with IF NOT EXISTS.
Apply(i) ==
    /\ pc[i] = "apply" /\ Creatable(Current(i))
    /\ schema' = schema \cup {Current(i)}
    /\ pc' = [pc EXCEPT ![i] = "record"]
    /\ UNCHANGED <<vars, pending, failed, recorded, duplicates>>

\* MERGE of the version node.
Record(i) ==
    /\ pc[i] = "record"
    /\ recorded' = recorded \cup {Current(i)}
    /\ Onward(i, pending[i] \ {Current(i)})
    /\ UNCHANGED <<vars, failed, schema, duplicates>>

\* A statement raises, and its effect may have happened nevertheless.
Raises(i) ==
    /\ pc[i] \in {"apply", "record"}
    /\ schema' \in {schema} \cup
           {schema \cup {v} : v \in {w \in {Current(i)} : pc[i] = "apply" /\ Creatable(w)}}
    /\ recorded' \in {recorded} \cup
           {recorded \cup {v} : v \in {w \in {Current(i)} : pc[i] = "record"}}

\* Mutant of MigrationFails: the migration is tried until it works.
MigrationFailsRetries(i) ==
    /\ Raises(i)
    /\ failed' = [failed EXCEPT ![i] = TRUE]
    /\ pc' = [pc EXCEPT ![i] = "apply"]
    /\ UNCHANGED <<vars, pending, duplicates>>

\* The RuntimeError ends the migrations; the lifespan logs it and serves.
MigrationFails(i) ==
    /\ Raises(i)
    /\ failed' = [failed EXCEPT ![i] = TRUE]
    /\ Onward(i, {})
    /\ UNCHANGED <<vars, duplicates>>

-----------------------------------------------------------------------------
(* An instance that serves. *)

\* The breaker of a new process is closed and nobody is calling.
NewBreaker ==
    /\ cstate' = "closed" /\ failures' = 0
    /\ elapsed' = ResetTimeout /\ since' = ResetTimeout
    /\ flight' = [c \in Caller |-> "none"]

\* The process ends; what it had sent to Neo4j stays.
Crash(i) ==
    /\ pc[i] # "down"
    /\ pc' = [pc EXCEPT ![i] = "down"]
    /\ pending' = [pending EXCEPT ![i] = {}]
    /\ failed' = [failed EXCEPT ![i] = FALSE]
    /\ IF i = Here THEN NewBreaker ELSE UNCHANGED vars
    /\ UNCHANGED <<schema, recorded, duplicates>>

\* UPSERT_ENTITY of two instances at once: MERGE alone does not keep both from
\* creating the node.  With the constraint one of them fails.
Collide(i, j) ==
    /\ i # j /\ pc[i] = "serving" /\ pc[j] = "serving"
    /\ Unique \notin schema
    /\ duplicates' = TRUE
    /\ UNCHANGED <<vars, pc, pending, failed, schema, recorded>>

\* DELETE_ENTITY takes every node with the id.
Delete(i) ==
    /\ pc[i] = "serving" /\ duplicates
    /\ duplicates' = FALSE
    /\ UNCHANGED <<vars, pc, pending, failed, schema, recorded>>

Migrate(i) == ReadVersions(i) \/ Apply(i) \/ Record(i) \/ MigrationFails(i)

StartupNext ==
    \/ \E i \in Instance : Boot(i) \/ Migrate(i) \/ Crash(i) \/ Delete(i)
    \/ \E i, j \in Instance : Collide(i, j)
    \/ pc[Here] = "serving" /\ Next /\ UNCHANGED startup

StartupSpec == StartupInit /\ [][StartupNext]_allVars

\* Each statement is answered or its connection breaks, and time passes in an
\* instance that serves.
FairStartup ==
    /\ StartupSpec
    /\ \A i \in Instance : WF_allVars(Migrate(i))
    /\ WF_allVars(pc[Here] = "serving" /\ Tick /\ UNCHANGED startup)

-----------------------------------------------------------------------------
\* A version is recorded only when its index or constraint exists, so that no
\* later start skips what a crash, an error or another instance left undone.
RecordedIsThere == recorded \subseteq schema

\* Versions are recorded without gaps: a migration that fails, on this start or
\* on the one of another instance, holds back those that build on it.
NoGaps == \A v \in recorded : 1..v \subseteq recorded

\* An instance that serves after a start without an error has every version,
\* whatever the starts before it, or beside it, did not finish.
CleanStartMigrates ==
    \A i \in Instance :
        pc[i] = "serving" /\ ~failed[i] => recorded = 1..Versions

\* Every start ends with an instance that serves, above all when a migration
\* can never work because the data contradict it.
StartEnds ==
    \A i \in Instance : pc[i] = "read" ~> pc[i] \in {"serving", "down"}

\* What the database says of its schema is true, whichever instances wrote it at the
\* same time, failed or died between a command and its record (run_migrations).
VersionsAreTrue ==
    /\ StartupTypeOK
    /\ RecordedIsThere
    /\ NoGaps
    /\ CleanStartMigrates
=============================================================================
