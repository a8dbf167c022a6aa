---------------------------- MODULE AgentBackend ----------------------------
(***************************************************************************)
(* The agent's backend: the thread and the message table, and the requests *)
(* of the threads and messages controllers on them.  A request             *)
(* is a sequence of calls of DynamoDB; other requests come in between.     *)
(***************************************************************************)
EXTENDS Naturals, FiniteSets, FiniteSetsExt

CONSTANTS
  Requests,      \* requests that can be in flight at once
  PageSize,      \* messages of one page of a query
  MaxMessages    \* bound on the messages that are made

ASSUME BackendAssumption == {PageSize, MaxMessages} \subseteq Nat \ {0}

VARIABLES
  threadRow, \* the row of the thread
  messages,  \* its messages, numbered as they were made
  made,      \* how many messages were made
  req,       \* the requests in flight
  deleted,   \* the thread was deleted, and the request answered so
  wroteLate, \* a request that writes had read the row before it was deleted
  skipped    \* items that a BatchWrite left unprocessed

backendVars == <<threadRow, messages, made, req, deleted, wroteLate, skipped>>

NoThreadCall == [pc |-> "none", cursor |-> 0, page |-> {}]

AgentBackendInit ==
  /\ threadRow = "none" /\ messages = {} /\ made = 0 /\ deleted = FALSE /\ wroteLate = FALSE
  /\ skipped = {} /\ req = [q \in Requests |-> NoThreadCall]

In(q, pc) == req[q].pc = pc
To(q, pc) == req' = [req EXCEPT ![q] = [NoThreadCall EXCEPT !.pc = pc]]
Reply(q) == req' = [req EXCEPT ![q] = NoThreadCall]
Writers == {q \in Requests : req[q].pc \in {"update", "message"}}

CreateThread ==
  /\ threadRow = "none" /\ ~deleted
  /\ threadRow' = "created"
  /\ UNCHANGED <<messages, made, req, deleted, wroteLate, skipped>>

(* Update, message and delete begin by reading the row. *)
Lookup(q, pc) ==
  /\ In(q, "none") /\ threadRow # "none"
  /\ pc \in {"update", "message", "query"}
  /\ To(q, pc)
  /\ UNCHANGED <<threadRow, messages, made, deleted, wroteLate, skipped>>

(* The row that was read is put back, with the new title. *)
ThreadPut(q) ==
  /\ In(q, "update")
  /\ threadRow' = "updated" /\ Reply(q)
  /\ UNCHANGED <<messages, made, deleted, wroteLate, skipped>>

MessagePut(q) ==
  /\ In(q, "message") /\ made < MaxMessages
  /\ made' = made + 1 /\ messages' = messages \union {made + 1} /\ Reply(q)
  /\ wroteLate' = (wroteLate \/ \E d \in Requests : req[d].pc \in {"batch", "row"})
  /\ UNCHANGED <<threadRow, deleted, skipped>>

-----------------------------------------------------------------------------
(* deleteByThread: a page of the query, then its batches, until no page is left *)
MessagesAfter(cursor) == {m \in messages : m > cursor}
BatchAfter(cursor) ==
  {m \in MessagesAfter(cursor) : Cardinality({n \in MessagesAfter(cursor) : n <= m}) <= PageSize}

DeleteQuery(q) ==
  /\ In(q, "query")
  /\ req' = [req EXCEPT ![q].pc = "batch", ![q].page = BatchAfter(req[q].cursor)]
  /\ UNCHANGED <<threadRow, messages, made, deleted, wroteLate, skipped>>

(* A batch deletes its items, all but those it answers as unprocessed.  A page that *)
(* is full has a cursor.                                                            *)
NextPage(q, page) ==
  req' = [req EXCEPT ![q] =
    IF Cardinality(page) < PageSize THEN [NoThreadCall EXCEPT !.pc = "row"]
    ELSE [pc |-> "query", cursor |-> Max(page), page |-> {}]]

(* A plausible bug: the first page is the only one. *)
DeleteBatchFirst(q) ==
  /\ In(q, "batch")
  /\ \E left \in SUBSET req[q].page :
       /\ messages' = messages \ (req[q].page \ left)
       /\ skipped' = skipped \union left
  /\ To(q, "row")
  /\ UNCHANGED <<threadRow, made, deleted, wroteLate>>

DeleteBatch(q) ==
  /\ In(q, "batch")
  /\ \E left \in SUBSET req[q].page :
       /\ messages' = messages \ (req[q].page \ left)
       /\ skipped' = skipped \union left
  /\ NextPage(q, req[q].page)
  /\ UNCHANGED <<threadRow, made, deleted, wroteLate>>

DeleteRow(q) ==
  /\ In(q, "row")
  /\ threadRow' = "none" /\ deleted' = TRUE
  /\ wroteLate' = (wroteLate \/ Writers # {})
  /\ Reply(q)
  /\ UNCHANGED <<messages, made, skipped>>

(* A call of DynamoDB rejects. *)
RequestFails(q) ==
  /\ ~In(q, "none")
  /\ Reply(q)
  /\ UNCHANGED <<threadRow, messages, made, deleted, wroteLate, skipped>>

AgentBackendNext ==
  \/ CreateThread
  \/ \E q \in Requests :
       \/ \E pc \in {"update", "message", "query"} : Lookup(q, pc)
       \/ ThreadPut(q) \/ MessagePut(q)
       \/ DeleteQuery(q) \/ DeleteBatch(q) \/ DeleteRow(q) \/ RequestFails(q)

-----------------------------------------------------------------------------
AgentBackendTypeOK ==
  /\ threadRow \in {"none", "created", "updated"}
  /\ messages \subseteq 1..made /\ made <= MaxMessages
  /\ skipped \subseteq 1..made /\ {deleted, wroteLate} \subseteq BOOLEAN

(* A thread whose deletion was answered is gone with all its messages, however *)
(* many pages they fill; the exceptions are a request that had read the row    *)
(* before, and the items that a batch left.                                    *)
DeletedThreadIsGone == (deleted /\ ~wroteLate) => (threadRow = "none" /\ messages \subseteq skipped)
=============================================================================
