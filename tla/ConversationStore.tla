------------------------- MODULE ConversationStore -------------------------
(***************************************************************************)
(* Conversation threads in Redis (aim/utils/conversation_store.py) and the *)
(* requests that append a turn to one or delete one, possibly from several *)
(* processes.  A request reads a key under WATCH and writes in MULTI/EXEC; *)
(* Redis refuses the EXEC when the key was written in between, which       *)
(* dirty[r] records.                                                       *)
(*                                                                         *)
(* A turn is the request that wrote it.  An index entry is a thread and    *)
(* its turn_count; of the other fields nothing is decided.  The index is   *)
(* read together with the legacy index it falls back to: the legacy index  *)
(* changes only in an EXEC that writes the index too.                      *)
(***************************************************************************)
EXTENDS Lists

CONSTANTS Request,      \* one append or one delete each
          Deleter,      \* those that delete
          Thread, Key,  \* thread ids, API keys
          MaxTurns,     \* turns a thread keeps (500)
          MaxIndex,     \* _MAX_INDEX_THREADS
          MaxRetries,   \* max_retries
          OldIndex,     \* the threads OldOwner had before the index moved
          OldOwner,
          Expiring,     \* the threads and API keys whose Redis keys may run out
          Trouble       \* which of AllTrouble may happen

\* A caller is cancelled, or Redis fails before a key is watched; EXEC works but
\* its reply is lost; the connection breaks while a key is watched, with nothing
\* applied; a plain GET fails and reads as a miss.
AllTrouble == {"abandon", "lost_reply", "broken", "read_fails"}

OldTurn == "turn of an earlier version"
NoOne == "no owner"
Turn == Request \cup {OldTurn}
Entry == [tid : Thread, count : 1..MaxTurns]

ASSUME ConstantsAssumption ==
    /\ MaxTurns \in Nat \ {0} /\ MaxIndex \in Nat \ {0} /\ MaxRetries \in Nat \ {0}
    /\ OldIndex \in Seq(Thread) /\ OldOwner \in Key
    /\ \A i, j \in DOMAIN OldIndex : OldIndex[i] = OldIndex[j] => i = j
    /\ Deleter \subseteq Request /\ Expiring \subseteq Thread \cup Key
    /\ Trouble \subseteq AllTrouble
    /\ OldTurn \notin Request /\ NoOne \notin Key

VARIABLES
    turns,      \* aim:conv:{thread}: its turns, empty when there is no key
    owner,      \* ... and its api_key_hash
    index,      \* aim:{tenant}:user_threads, newest first; empty = no key
    legacy,     \* aim:user_threads:{key_hash}
    pc,         \* what a request does next
    tid, key,   \* the thread and API key of a request
    attempt,    \* its attempts so far in the current retry loop
    draft,      \* the thread it is about to write, or has written
    newIndex,   \* the index it is about to write
    dirty,      \* the key it watches has been written
    again       \* history: requests that try again what an EXEC had already stored

stored == <<turns, owner, index, legacy>>
local == <<tid, key, attempt, draft, newIndex, dirty, again>>
vars == <<turns, owner, index, legacy, pc, tid, key, attempt, draft, newIndex,
          dirty, again>>

Blank == [owner |-> NoOne, turns |-> <<>>]

ThreadsTypeOK ==
    /\ turns \in [Thread -> Seq(Turn)]
    /\ owner \in [Thread -> Key \cup {NoOne}]
    /\ pc \in [Request -> {"idle", "append", "save", "index", "relist",
                           "delete", "erase", "done"}]
    /\ tid \in [Request -> Thread]
    /\ key \in [Request -> Key]
    /\ attempt \in [Request -> 1..MaxRetries]
    /\ draft \in [Request -> [owner : Key \cup {NoOne}, turns : Seq(Turn)]]
    /\ dirty \in [Request -> BOOLEAN]
    /\ again \subseteq Request

ListsTypeOK ==
    /\ index \in [Key -> Seq(Entry)]
    /\ legacy \in [Key -> Seq(Entry)]
    /\ newIndex \in [Request -> Seq(Entry)]

\* Threads and lists in Redis, and the requests under way.
TypeOK == ThreadsTypeOK /\ ListsTypeOK

\* Redis as an upgrade may find it: old threads, listed in the legacy index.
Old == {OldIndex[i] : i \in DOMAIN OldIndex}

Init ==
    /\ turns = [t \in Thread |-> IF t \in Old THEN <<OldTurn>> ELSE <<>>]
    /\ owner = [t \in Thread |-> IF t \in Old THEN OldOwner ELSE NoOne]
    /\ index = [k \in Key |-> <<>>]
    /\ legacy = [k \in Key |-> IF k # OldOwner THEN <<>>
                    ELSE [i \in 1..Len(OldIndex) |-> [tid |-> OldIndex[i], count |-> 1]]]
    /\ pc = [r \in Request |-> "idle"]
    /\ tid \in [Request -> Thread]
    /\ key \in [Request -> Key]
    /\ attempt = [r \in Request |-> 1]
    /\ draft = [r \in Request |-> Blank]
    /\ newIndex = [r \in Request |-> <<>>]
    /\ dirty = [r \in Request |-> FALSE]
    /\ again = {}

-----------------------------------------------------------------------------
LastOf(s, n) == IF Len(s) > n THEN SubSeq(s, Len(s) - n + 1, Len(s)) ELSE s
FirstOf(s, n) == IF Len(s) > n THEN SubSeq(s, 1, n) ELSE s

\* [e for e in index if e["thread_id"] != t]
Without(s, t) == Picked(s, {i \in DOMAIN s : s[i].tid # t})

WatchersOf(t) == {q \in Request : pc[q] = "save" /\ tid[q] = t}
IndexWatchersOf(k) == {q \in Request : pc[q] \in {"relist", "erase"} /\ key[q] = k}

\* A request ends, and what it holds is gone.
Finish(r) ==
    /\ pc' = [pc EXCEPT ![r] = "done"]
    /\ attempt' = [attempt EXCEPT ![r] = 1]
    /\ draft' = [draft EXCEPT ![r] = Blank]
    /\ newIndex' = [newIndex EXCEPT ![r] = <<>>]

\* The next round of a retry loop, or after the last one the end.
Retry(r, step) ==
    \/ /\ attempt[r] < MaxRetries
       /\ pc' = [pc EXCEPT ![r] = step]
       /\ attempt' = [attempt EXCEPT ![r] = @ + 1]
       /\ draft' = [draft EXCEPT ![r] = IF step = "index" THEN @ ELSE Blank]
       /\ newIndex' = [newIndex EXCEPT ![r] = <<>>]
    \/ attempt[r] = MaxRetries /\ Finish(r)

\* EXEC was carried out, but the caller was cancelled, or the connection broke
\* before the reply: redis-py reports that as a WatchError, as it does a conflict.
LoseReply(r, step) ==
    /\ "lost_reply" \in Trouble
    /\ Retry(r, step) \/ Finish(r)

\* Redis remembers for those who watch a key that it was written.
Wake(watchers) == [q \in Request |-> dirty[q] \/ q \in watchers]

-----------------------------------------------------------------------------
(* A request arrives. *)

\* Both routes load the thread first and refuse one of another key.  A missing
\* thread passes, and so does one that could not be loaded.
MayUse(r) ==
    \/ turns[tid[r]] = <<>>
    \/ owner[tid[r]] = key[r]
    \/ "read_fails" \in Trouble

\* The query routes: a missing thread is a new conversation.  Then the answer
\* takes a while.
Ask(r) ==
    /\ r \notin Deleter /\ pc[r] = "idle" /\ MayUse(r)
    /\ pc' = [pc EXCEPT ![r] = "append"]
    /\ UNCHANGED <<stored, local>>

\* The delete route, which deletes a missing thread as well.
AskDelete(r) ==
    /\ r \in Deleter /\ pc[r] = "idle" /\ MayUse(r)
    /\ pc' = [pc EXCEPT ![r] = "delete"]
    /\ UNCHANGED <<stored, local>>

(* append_turn *)

\* The thread with one more turn, the oldest turns dropped; its first
\* appender owns it.
NewThread(r) ==
    [owner |-> IF turns[tid[r]] = <<>> THEN key[r] ELSE owner[tid[r]],
     turns |-> LastOf(Append(turns[tid[r]], r), MaxTurns)]

\* WATCH and GET of the thread key; the new thread is built from it.
ReadThread(r) ==
    /\ pc[r] = "append"
    /\ draft' = [draft EXCEPT ![r] = NewThread(r)]
    /\ dirty' = [dirty EXCEPT ![r] = FALSE]
    /\ pc' = [pc EXCEPT ![r] = "save"]
    /\ UNCHANGED <<stored, tid, key, attempt, newIndex, again>>

\* The reply arrives, or it is lost: then the request may append its turn once more.
Saved(r) ==
    \/ /\ pc' = [pc EXCEPT ![r] = "index"]
       /\ attempt' = [attempt EXCEPT ![r] = 1]
       /\ UNCHANGED <<draft, newIndex, again>>
    \/ /\ LoseReply(r, "append")
       /\ again' = IF pc'[r] = "append" THEN again \cup {r} ELSE again

\* Mutant of SaveThread: a plain SETEX, whatever happened since the read.
SaveThreadUnwatched(r) ==
    /\ pc[r] = "save"
    /\ turns' = [turns EXCEPT ![tid[r]] = draft[r].turns]
    /\ owner' = [owner EXCEPT ![tid[r]] = draft[r].owner]
    /\ dirty' = Wake(WatchersOf(tid[r]) \ {r})
    /\ Saved(r)
    /\ UNCHANGED <<index, legacy, tid, key>>

\* EXEC of the thread's SETEX.
SaveThread(r) ==
    /\ pc[r] = "save" /\ ~dirty[r]
    /\ turns' = [turns EXCEPT ![tid[r]] = draft[r].turns]
    /\ owner' = [owner EXCEPT ![tid[r]] = draft[r].owner]
    /\ dirty' = Wake(WatchersOf(tid[r]) \ {r})
    /\ Saved(r)
    /\ UNCHANGED <<index, legacy, tid, key>>

(* _update_index and delete_thread *)

\* Mutant of Found: the legacy index is never folded in.
FoundWithoutLegacy(r, legacyRead) == index[key[r]]

\* An empty index falls back to the legacy one, as far as that could be read.
Found(r, legacyRead) ==
    IF index[key[r]] = <<>> /\ legacyRead THEN legacy[key[r]] ELSE index[key[r]]

\* The list with the thread's fresh entry in front.
Relisted(r, found) ==
    FirstOf(<<[tid |-> tid[r], count |-> Len(draft[r].turns)]>>
            \o Without(found, tid[r]), MaxIndex)

\* WATCH and GET of the index key; the new index is built from it.
ReadIndex(r) ==
    /\ \E legacyRead \in BOOLEAN :
         /\ legacyRead \/ "read_fails" \in Trouble
         /\ \/ /\ pc[r] = "index"
               /\ pc' = [pc EXCEPT ![r] = "relist"]
               /\ newIndex' = [newIndex EXCEPT ![r] = Relisted(r, Found(r, legacyRead))]
            \/ /\ pc[r] = "delete"
               /\ pc' = [pc EXCEPT ![r] = "erase"]
               /\ newIndex' = [newIndex EXCEPT ![r] = Without(Found(r, legacyRead), tid[r])]
    /\ dirty' = [dirty EXCEPT ![r] = FALSE]
    /\ UNCHANGED <<stored, tid, key, attempt, draft, again>>

\* Mutant of WriteIndex: a plain SETEX, whatever happened since the read.
WriteIndexUnwatched(r) ==
    /\ pc[r] = "relist"
    /\ index' = [index EXCEPT ![key[r]] = newIndex[r]]
    /\ legacy' = [legacy EXCEPT ![key[r]] = <<>>]
    /\ dirty' = Wake(IndexWatchersOf(key[r]) \ {r})
    /\ Finish(r) \/ LoseReply(r, "index")
    /\ UNCHANGED <<turns, owner, tid, key, again>>

\* EXEC: the index is written, the legacy index retired.
WriteIndex(r) ==
    /\ pc[r] = "relist" /\ ~dirty[r]
    /\ index' = [index EXCEPT ![key[r]] = newIndex[r]]
    /\ legacy' = [legacy EXCEPT ![key[r]] = <<>>]
    /\ dirty' = Wake(IndexWatchersOf(key[r]) \ {r})
    /\ Finish(r) \/ LoseReply(r, "index")
    /\ UNCHANGED <<turns, owner, tid, key, again>>

\* EXEC of delete_thread.  The thread key is deleted unwatched, which still
\* wakes the appends that watch it.
EraseThread(r) ==
    /\ pc[r] = "erase" /\ ~dirty[r]
    /\ turns' = [turns EXCEPT ![tid[r]] = <<>>]
    /\ owner' = [owner EXCEPT ![tid[r]] = NoOne]
    /\ index' = [index EXCEPT ![key[r]] = newIndex[r]]
    /\ legacy' = [legacy EXCEPT ![key[r]] = <<>>]
    /\ dirty' = Wake((IndexWatchersOf(key[r]) \ {r}) \cup
                   (IF turns[tid[r]] = <<>> THEN {} ELSE WatchersOf(tid[r])))
    /\ Finish(r) \/ LoseReply(r, "delete")
    /\ UNCHANGED <<tid, key, again>>

\* Mutant of Conflict: one loop around both transactions, so that a conflict on
\* the index appends the turn again.
ConflictStartsOver(r) ==
    /\ dirty[r] \/ "broken" \in Trouble
    /\ \/ pc[r] \in {"save", "relist"} /\ Retry(r, "append")
       \/ pc[r] = "erase" /\ Retry(r, "delete")
    /\ dirty' = [dirty EXCEPT ![r] = FALSE]
    /\ UNCHANGED <<stored, tid, key, again>>

\* Nothing is applied, and the client raises a WatchError: EXEC was refused, or
\* the connection broke while a key was watched.
Conflict(r) ==
    /\ dirty[r] \/ "broken" \in Trouble
    /\ \/ pc[r] = "save" /\ Retry(r, "append")
       \/ pc[r] = "relist" /\ Retry(r, "index")
       \/ pc[r] = "erase" /\ Retry(r, "delete")
    /\ dirty' = [dirty EXCEPT ![r] = FALSE]
    /\ UNCHANGED <<stored, tid, key, again>>

\* A Redis command fails, or the caller is cancelled, with nothing applied.
Abandon(r) ==
    /\ "abandon" \in Trouble
    /\ pc[r] \notin {"idle", "done"}
    /\ Finish(r)
    /\ dirty' = [dirty EXCEPT ![r] = FALSE]
    /\ UNCHANGED <<stored, tid, key, again>>

-----------------------------------------------------------------------------
\* Each key has a TTL of its own; an expired key wakes its watchers.
ExpireThread(t) ==
    /\ t \in Expiring /\ turns[t] # <<>>
    /\ turns' = [turns EXCEPT ![t] = <<>>]
    /\ owner' = [owner EXCEPT ![t] = NoOne]
    /\ dirty' = Wake(WatchersOf(t))
    /\ UNCHANGED <<index, legacy, pc, tid, key, attempt, draft, newIndex, again>>

ExpireIndex(k) ==
    /\ k \in Expiring /\ index[k] # <<>>
    /\ index' = [index EXCEPT ![k] = <<>>]
    /\ dirty' = Wake(IndexWatchersOf(k))
    /\ UNCHANGED <<turns, owner, legacy, pc, tid, key, attempt, draft, newIndex, again>>

RequestStep(r) ==
    \/ Ask(r) \/ AskDelete(r)
    \/ ReadThread(r) \/ SaveThread(r)
    \/ ReadIndex(r) \/ WriteIndex(r) \/ EraseThread(r)
    \/ Conflict(r) \/ Abandon(r)

Next ==
    \/ \E r \in Request : RequestStep(r)
    \/ \E t \in Thread : ExpireThread(t)
    \/ \E k \in Key : ExpireIndex(k)

Spec == Init /\ [][Next]_vars

-----------------------------------------------------------------------------
\* What list_threads returns for a key, before pagination.
Listed(k) == IF index[k] # <<>> THEN index[k] ELSE legacy[k]
ListedIds(k) == {Listed(k)[i].tid : i \in DOMAIN Listed(k)}

\* No turn is stored twice, however often append_turn meets a conflict and whatever
\* breaks in _update_index after it: but for a request whose EXEC was carried out,
\* its reply lost, and which took that for a conflict and tried again (append_turn's
\* "retry on conflict").
TurnsOnce ==
    \A t \in Thread : \A i, j \in DOMAIN turns[t] :
        turns[t][i] = turns[t][j] => i = j \/ turns[t][i] \in again

\* A stored turn is never overwritten: a thread changes by one turn at its
\* end (the oldest may leave), or disappears as a whole.
TurnsKept ==
    [][\A t \in Thread : turns'[t] # turns[t] =>
          \/ turns'[t] = <<>>
          \/ \E r \in Request : turns'[t] = LastOf(Append(turns[t], r), MaxTurns)]_vars

\* A thread keeps its owner as long as it exists, also when two keys started
\* the same thread at once.
OwnerStable ==
    [][\A t \in Thread : turns[t] # <<>> /\ turns'[t] # <<>> => owner'[t] = owner[t]]_vars

\* No key lists a thread twice, in its index or in its legacy index.
ListedOnce ==
    \A k \in Key : \A i, j \in DOMAIN Listed(k) :
        Listed(k)[i].tid = Listed(k)[j].tid => i = j

\* A listed thread leaves the list only when it is deleted, when the list is
\* full or when the list expires: above all not when the list moves from the
\* legacy key to the new one.
ListedStays ==
    [][\A k \in Key : \A t \in ListedIds(k) \ ListedIds(k)' :
          \/ \E r \in Request : pc[r] = "erase" /\ pc'[r] # "erase" /\ tid[r] = t
          \/ Len(index'[k]) = MaxIndex
          \/ index'[k] = <<>> /\ pc' = pc]_vars

\* Threads and lists keep their limits and a list its threads apart, whatever
\* transactions overlap on them (_update_index).
ListConsistent == TypeOK /\ ListedOnce

\* Whatever requests of whatever keys overlap, a thread that exists keeps its turns
\* and its owner (append_turn).
ThreadsOnlyGrow == TurnsKept /\ OwnerStable
=============================================================================
