------------------------ MODULE MCConversationStore ------------------------
(* ConversationStore with interchangeable appends and old threads. *)
EXTENDS ThreadLists, TLC

CONSTANTS t1, t2

TwoOld == <<t2, t1>>

Symmetric == Permutations(Request \ Deleter)
=============================================================================
