----------------------------- MODULE McpServer -----------------------------
(***************************************************************************)
(* The MCP side of this program: the fetch over several providers under    *)
(* two deadlines (aim/mcp/handler.py), and the JSON-RPC envelope of what   *)
(* others may call (aim/mcp/jsonrpc.py).                                   *)
(***************************************************************************)
EXTENDS Integers, Sequences, FiniteSets, Functions, SequencesExt

(***************************************************************************)
(* Fetching.  A provider brings its items, fails, or is cancelled from     *)
(* within, after some time; what is too slow or fails brings nothing.      *)
(***************************************************************************)
Ending(provider, limit) == IF provider.time < limit THEN provider.time ELSE limit
SafeFetch(provider, limit) ==
    IF provider.kind = "items" /\ provider.time < limit THEN provider.items ELSE {}

\* The deadline of all takes everything; gather() hands a cancellation back as
\* a result, over which the loop then fails.
Fetch(providers, limit, deadline) ==
    IF \E p \in Range(providers) : Ending(p, limit) >= deadline THEN [raised |-> FALSE, items |-> {}]
    ELSE IF \E p \in Range(providers) : p.kind = "cancelled" /\ p.time < limit THEN [raised |-> TRUE, items |-> {}]
    ELSE [raised |-> FALSE, items |-> UNION {SafeFetch(p, limit) : p \in Range(providers)}]

\* As long as one provider is given less time than all of them, a slow or broken
\* one costs its own items only: what the others brought in time is kept.
OthersAreKept(providers, limit, deadline) ==
    (limit < deadline /\ \A p \in Range(providers) : p.kind # "cancelled") =>
        \A p \in Range(providers) :
            p.kind = "items" /\ p.time < limit => p.items \subseteq Fetch(providers, limit, deadline).items

(***************************************************************************)
(* Answering.  An item is an object or not, with a version, a method,      *)
(* params and an id; an answer is an id and a code, 0 for a result.        *)
(***************************************************************************)
NoRpcId == 0    \* null
BadId == -1     \* neither a text nor a whole number nor null
ParseError == -32700
InvalidRequest == -32600
MethodNotFound == -32601
InvalidParams == -32602
InternalError == -32603

\* A tool call wants a name; resources/read takes the handler's dictionary for a
\* model, and prompts/get has no prompt: both always raise.
Dispatch(item) ==
    IF \/ item.method = "tools/call" /\ item.params # "named"
       \/ item.method \in {"resources/read", "prompts/get"}
    THEN InternalError ELSE 0

Code(item) ==
    IF ~item.object \/ ~item.version \/ item.method = "none" THEN InvalidRequest
    ELSE IF item.params = "list" THEN InvalidParams
    ELSE IF item.method = "unknown" THEN MethodNotFound
    ELSE Dispatch(item)

\* No item goes without an answer, one without an id neither; falsy params are
\* an empty object.
HandleSingle(item) == [id |-> IF item.object THEN item.id ELSE NoRpcId, code |-> Code(item)]

\* An envelope with a bad id cannot be made, and that is caught nowhere.
Raised == <<[id |-> BadId, code |-> 0]>>
Handle(raw) ==
    LET answers == [i \in DOMAIN raw.items |-> HandleSingle(raw.items[i])] IN
    IF ~raw.json THEN <<[id |-> NoRpcId, code |-> ParseError]>>
    ELSE IF raw.items = <<>> THEN <<[id |-> NoRpcId, code |-> InvalidRequest]>>
    ELSE IF \E a \in Range(answers) : a.id = BadId THEN Raised
    ELSE answers

\* A caller of several methods can tell the answers apart, whatever is wrong with
\* some of them: each comes at its place and under its id, and its outcome depends
\* on its item alone.  One bad id takes the answers of all the others with it.
AnswersMatchItems(raw) ==
    LET answers == Handle(raw)
        bad(item) == item.object /\ item.id = BadId
    IN  (raw.json /\ raw.items # <<>>) =>
            IF \E item \in Range(raw.items) : bad(item) THEN answers = Raised
            ELSE /\ Len(answers) = Len(raw.items)
                 /\ \A i \in DOMAIN answers :
                      /\ raw.items[i].object => answers[i].id = raw.items[i].id
                      /\ <<answers[i]>> = Handle([raw EXCEPT !.items = <<raw.items[i]>>])
=============================================================================
