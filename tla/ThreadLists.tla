---------------------------- MODULE ThreadLists ----------------------------
(***************************************************************************)
(* Threads and the lists they are in (aim/utils/conversation_store.py).    *)
(* append_turn writes a thread in one transaction and lists it in another, *)
(* delete_thread takes both away in one: between the two of an append      *)
(* anything may happen.  Two histories say for which threads it did.       *)
(***************************************************************************)
EXTENDS ConversationStore

VARIABLES
    unlisted,   \* history: threads that their owner's list may miss
    gone        \* history: threads that a list may name and that are no more

history == <<unlisted, gone>>
allVars == <<vars, history>>

HistoryTypeOK == unlisted \subseteq Thread /\ gone \subseteq Thread

ListedInit == Init /\ unlisted = {} /\ gone = {}

\* An append between its two transactions.
Listing(r) == pc[r] \in {"index", "relist"}

\* What the owner's list names no more after a step.
Dropped(k) == {t \in ListedIds(k) \ ListedIds(k)' : owner[t] = k}

\* A new thread has an append that will list it, if that one learns of it.
Save(r) ==
    /\ SaveThread(r)
    /\ unlisted' = IF turns[tid[r]] # <<>> THEN unlisted
                   ELSE IF pc'[r] = "index" THEN unlisted \ {tid[r]} ELSE unlisted \cup {tid[r]}
    /\ gone' = gone \ {tid[r]}

List(r) ==
    /\ WriteIndex(r)
    /\ unlisted' = (unlisted \cup Dropped(key[r])) \ {t \in {tid[r]} : owner[t] = key[r]}
    /\ UNCHANGED gone

\* What is deleted is in no list, unless an append to it was between its transactions,
\* or the other key of two that share the thread has it listed.
Erase(r) ==
    /\ EraseThread(r)
    /\ unlisted' = unlisted \cup Dropped(key[r])
    /\ gone' = IF \/ \E q \in Request \ {r} : Listing(q) /\ tid[q] = tid[r]
                  \/ \E k \in Key \ {key[r]} : tid[r] \in ListedIds(k)
               THEN gone \cup {tid[r]} ELSE gone \ {tid[r]}

\* An append that gives up between its transactions leaves a new thread unlisted.
Leave(r) ==
    /\ Conflict(r) \/ Abandon(r)
    /\ unlisted' = unlisted \cup
                   {t \in {tid[r]} : /\ Listing(r) /\ ~Listing(r)'
                                     /\ owner[t] = key[r] /\ t \notin ListedIds(key[r])}
    /\ UNCHANGED gone

LoseThread(t) == ExpireThread(t) /\ gone' = gone \cup {t} /\ UNCHANGED unlisted
LoseIndex(k) == ExpireIndex(k) /\ unlisted' = unlisted \cup Dropped(k) /\ UNCHANGED gone

GoOn(r) ==
    /\ Ask(r) \/ AskDelete(r) \/ ReadThread(r) \/ ReadIndex(r)
    /\ UNCHANGED history

ListedNext ==
    \/ \E r \in Request : GoOn(r) \/ Save(r) \/ List(r) \/ Erase(r) \/ Leave(r)
    \/ \E t \in Thread : LoseThread(t)
    \/ \E k \in Key : LoseIndex(k)

ListedSpec == ListedInit /\ [][ListedNext]_allVars

-----------------------------------------------------------------------------
\* A thread that exists is in its owner's list, or will be by the append that made
\* it or one that came after: unless that one ended in between, or the list lost it,
\* to its limit or with all it held (append_turn, _update_index).
StoredIsListed ==
    \A t \in Thread : turns[t] # <<>> =>
        \/ t \in ListedIds(owner[t])
        \/ \E r \in Request : Listing(r) /\ tid[r] = t /\ key[r] = owner[t]
        \/ t \in unlisted

\* A thread that a list names exists: unless it expired, or was deleted while an
\* append was between its transactions or by another key than the list's
\* (delete_thread, whose docstring says "atomically").
ListedIsStored ==
    \A k \in Key : \A t \in ListedIds(k) : turns[t] # <<>> \/ t \in gone

\* Lists are well formed and agree with the threads, except as said above.
ListsAgree == ListConsistent /\ HistoryTypeOK /\ StoredIsListed /\ ListedIsStored
=============================================================================
