----------------------------- MODULE AgentProofs -----------------------------
(***************************************************************************)
(* The agent's tables, the tools it offers, the actions between its page   *)
(* and its worker, and the login to an MCP server.  Each part has its      *)
(* inductive invariant, a lemma per group of actions, and its theorem.     *)
(***************************************************************************)
EXTENDS AgentBackend, AgentTools, AgentActions, McpLogin, Integers, FiniteSetTheorems,
        SequenceTheorems, WellFoundedInduction, TLAPS

(* The induction over numbers that the proofs need: a set of numbers has a     *)
(* smallest one.                                                               *)
LEMMA SmallestOf ==
  ASSUME NEW T, T \subseteq Nat, T # {}
  PROVE  \E n \in T : \A m \in T : n <= m
<1>. DEFINE R == {ss \in Nat \X Nat : ss[1] < ss[2]}
<1>1. R = OpToRel(<, Nat)
  BY DEF OpToRel
<1>2. IsWellFoundedOn(R, Nat)
  BY <1>1, NatLessThanWellFounded, Zenon
<1>3. \E x \in T : \A y \in T : ~ (<<y, x>> \in R)
  <2>. HIDE DEF R
  <2>. QED BY <1>2, WFMin
<1>4. \A x, y \in Nat : <<y, x>> \notin R => x <= y
  <2>. SUFFICES ASSUME NEW x \in Nat, NEW y \in Nat, ~ (x <= y) PROVE <<y, x>> \in R
    OBVIOUS
  <2>1. y < x OBVIOUS
  <2>2. <<y, x>> \in Nat \X Nat /\ <<y, x>>[1] = y /\ <<y, x>>[2] = x OBVIOUS
  <2>. QED BY <2>1, <2>2
<1>. HIDE DEF R
<1>. QED BY <1>3, <1>4

(* A bounded set of numbers has a greatest one, which Max names. *)
LEMMA MaxOf ==
  ASSUME NEW T, T # {}, NEW n \in Nat, T \subseteq 0..n
  PROVE  Max(T) \in T /\ \A m \in T : m <= Max(T)
<1>. DEFINE U == {k \in Nat : n - k \in T}
<1>1. U \subseteq Nat /\ U # {}
  <2>1. PICK m \in T : TRUE
    OBVIOUS
  <2>2. n - m \in Nat /\ n - (n - m) = m
    OBVIOUS
  <2>. QED BY <2>1, <2>2
<1>2. PICK k \in U : \A j \in U : k <= j
  <2>. HIDE DEF U
  <2>. QED BY <1>1, SmallestOf
<1>3. n - k \in T
  OBVIOUS
<1>4. \A m \in T : m <= n - k
  <2>. SUFFICES ASSUME NEW m \in T PROVE m <= n - k
    OBVIOUS
  <2>1. m \in 0..n /\ n - m \in Nat /\ n - (n - m) = m
    OBVIOUS
  <2>2. n - m \in U
    BY <2>1
  <2>3. k \in Nat /\ k <= n - m
    BY <1>2, <2>2
  <2>. QED BY <2>1, <2>3
<1>5. \E x \in T : \A y \in T : x >= y
  BY <1>3, <1>4
<1>. HIDE DEF U
<1>6. Max(T) \in T /\ \A y \in T : Max(T) >= y
  BY <1>5 DEF Max
<1>. QED BY <1>6

-----------------------------------------------------------------------------
(* The tables of the backend *)

(* What a page holds: a first part of the messages after the cursor, and all   *)
(* of them if it is not full.                                                  *)
UpTo(S, m) == {n \in S : n <= m}
FirstOf(S) == {m \in S : Cardinality(UpTo(S, m)) <= PageSize}

LEMMA PartsAreFinite ==
  ASSUME NEW n \in Nat, NEW S, S \subseteq 1..n, NEW T, T \subseteq S
  PROVE  /\ IsFiniteSet(T) /\ Cardinality(T) \in Nat
         /\ Cardinality(T) <= Cardinality(S)
<1>1. IsFiniteSet(1..n)
  BY FS_Interval
<1>2. IsFiniteSet(S)
  BY <1>1, FS_Subset
<1>. QED BY <1>2, FS_Subset, FS_CardinalityType

LEMMA PageIsFirstPart ==
  ASSUME NEW n \in Nat, NEW S, S \subseteq 1..n, NEW m \in S, NEW x \in FirstOf(S), m <= x
  PROVE  m \in FirstOf(S)
<1>1. \A k \in S : k \in Nat
  OBVIOUS
<1>2. x \in S /\ Cardinality(UpTo(S, x)) <= PageSize
  BY DEF FirstOf
<1>3. UpTo(S, x) \subseteq S /\ UpTo(S, m) \subseteq UpTo(S, x)
  <2>1. m \in Nat /\ x \in Nat
    BY <1>1, <1>2
  <2>2. \A k \in S : k <= m => k <= x
    BY <1>1, <2>1
  <2>. QED BY <2>2 DEF UpTo
<1>4. UpTo(S, x) \subseteq 1..n
  BY <1>3
<1>5. /\ Cardinality(UpTo(S, m)) \in Nat /\ Cardinality(UpTo(S, x)) \in Nat
      /\ Cardinality(UpTo(S, m)) <= Cardinality(UpTo(S, x))
  BY <1>3, <1>4, PartsAreFinite
<1>. QED
  BY <1>2, <1>5, BackendAssumption DEF FirstOf

LEMMA ShortPageIsAll ==
  ASSUME NEW n \in Nat, NEW S, S \subseteq 1..n, Cardinality(FirstOf(S)) < PageSize
  PROVE  FirstOf(S) = S
<1>. DEFINE T == S \ FirstOf(S)
<1>1. SUFFICES ASSUME T # {} PROVE FALSE
  BY DEF FirstOf
<1>2. \A k \in S : k \in Nat
  OBVIOUS
<1>3. T \subseteq Nat
  BY <1>2
<1>4. PICK m \in T : \A k \in T : m <= k
  <2>. HIDE DEF T
  <2>. QED BY <1>1, <1>3, SmallestOf
<1>5. FirstOf(S) \subseteq S /\ UpTo(S, m) \subseteq S
  BY DEF FirstOf, UpTo
<1>6. IsFiniteSet(FirstOf(S)) /\ Cardinality(FirstOf(S)) \in Nat
  BY <1>5, PartsAreFinite
<1>7. UpTo(S, m) \subseteq FirstOf(S) \union {m}
  <2>. SUFFICES ASSUME NEW k \in S, k <= m, k \notin FirstOf(S) PROVE k = m
    BY DEF UpTo
  <2>1. m <= k /\ m \in Nat /\ k \in Nat
    BY <1>2, <1>4
  <2>. QED BY <2>1
<1>8. IsFiniteSet(FirstOf(S) \union {m})
  BY <1>6, FS_AddElement
<1>9. Cardinality(FirstOf(S) \union {m}) <= Cardinality(FirstOf(S)) + 1
  <2>1. Cardinality(FirstOf(S) \union {m}) =
          IF m \in FirstOf(S) THEN Cardinality(FirstOf(S)) ELSE Cardinality(FirstOf(S)) + 1
    BY <1>6, FS_AddElement
  <2>. QED BY <1>6, <2>1
<1>10. Cardinality(UpTo(S, m)) <= Cardinality(FirstOf(S) \union {m})
  BY <1>7, <1>8, FS_Subset
<1>11. Cardinality(UpTo(S, m)) \in Nat /\ Cardinality(FirstOf(S) \union {m}) \in Nat
  BY <1>5, <1>8, PartsAreFinite, FS_CardinalityType
<1>12. Cardinality(UpTo(S, m)) <= PageSize
  BY <1>6, <1>9, <1>10, <1>11, BackendAssumption
<1>. QED BY <1>4, <1>12 DEF FirstOf

-----------------------------------------------------------------------------
AgentBackendSpec == AgentBackendInit /\ [][AgentBackendNext]_backendVars

ThreadCalls ==
  [pc : {"none", "update", "message", "query", "batch", "row"}, cursor : Nat, page : SUBSET Nat]

(* How far a delete has come: what is left up to its cursor, or of its page,   *)
(* or of the thread, is what a batch left.                                     *)
Reached(r, late, k) ==
  \/ r.pc = "query" /\ k <= r.cursor
  \/ r.pc = "batch" /\ PageSize <= Cardinality(r.page) /\ k <= Max(r.page) /\ k \notin r.page
  \/ r.pc = "batch" /\ Cardinality(r.page) < PageSize /\ ~late /\ k \notin r.page
  \/ r.pc = "row" /\ ~late

BackendInv ==
  /\ AgentBackendTypeOK /\ made \in Nat /\ req \in [Requests -> ThreadCalls]
  /\ \A q \in Requests : req[q].cursor <= made /\ req[q].page \subseteq 1..made
  /\ \A q \in Requests : \A k \in messages \ skipped : ~ Reached(req[q], wroteLate, k)
  /\ DeletedThreadIsGone
  /\ deleted /\ ~wroteLate => Writers = {}

LEMMA BackendInit == AgentBackendInit => BackendInv
<1>. SUFFICES ASSUME AgentBackendInit PROVE BackendInv
  OBVIOUS
<1>1. NoThreadCall \in ThreadCalls /\ NoThreadCall.cursor = 0 /\ NoThreadCall.page = {}
  BY DEF NoThreadCall, ThreadCalls
<1>2. req \in [Requests -> ThreadCalls] /\ \A q \in Requests : req[q] = NoThreadCall
  BY <1>1 DEF AgentBackendInit
<1>3. AgentBackendTypeOK
  <2>1. made <= MaxMessages
    BY BackendAssumption DEF AgentBackendInit
  <2>2. {deleted, wroteLate} \subseteq BOOLEAN
    BY Zenon DEF AgentBackendInit
  <2>. QED BY <2>1, <2>2 DEF AgentBackendInit, AgentBackendTypeOK
<1>. QED
  BY <1>1, <1>2, <1>3 DEF AgentBackendInit, BackendInv, DeletedThreadIsGone

(* One request moves to where its delete has reached nothing more, and the     *)
(* messages grow by none.                                                      *)
LEMMA MoveKeeps ==
  ASSUME BackendInv, NEW q \in Requests, NEW c \in ThreadCalls, req' = [req EXCEPT ![q] = c],
         c.cursor <= made, c.page \subseteq 1..made,
         messages' \subseteq messages, skipped \subseteq skipped', skipped' \subseteq 1..made,
         wroteLate' \in BOOLEAN, wroteLate => wroteLate',
         \A k \in messages' \ skipped' : ~ Reached(c, wroteLate', k),
         threadRow' \in {"none", "created", "updated"}, deleted' \in BOOLEAN,
         (DeletedThreadIsGone /\ (deleted /\ ~wroteLate => Writers = {}))',
         made' = made
  PROVE  BackendInv'
<1>1. req' \in [Requests -> ThreadCalls] /\ req'[q] = c /\ \A r \in Requests : r # q => req'[r] = req[r]
  BY DEF BackendInv
<1>2. ASSUME NEW r \in Requests, NEW k \in messages' \ skipped', r # q
      PROVE  ~ Reached(req'[r], wroteLate', k)
  <2>1. k \in messages \ skipped /\ req'[r] = req[r]
    BY <1>1, <1>2
  <2>2. ~ Reached(req[r], wroteLate, k)
    BY <2>1 DEF BackendInv
  <2>. QED BY <2>1, <2>2 DEF Reached
<1>3. \A r \in Requests : \A k \in messages' \ skipped' : ~ Reached(req'[r], wroteLate', k)
  BY <1>1, <1>2
<1>4. AgentBackendTypeOK'
  BY DEF BackendInv, AgentBackendTypeOK
<1>5. \A r \in Requests : req'[r].cursor <= made' /\ req'[r].page \subseteq 1..made'
  BY <1>1 DEF BackendInv
<1>. QED BY <1>1, <1>3, <1>4, <1>5 DEF BackendInv

LEMMA CallTyped ==
  ASSUME NEW pc \in {"none", "update", "message", "query", "row"}
  PROVE  /\ [NoThreadCall EXCEPT !.pc = pc] \in ThreadCalls
         /\ [NoThreadCall EXCEPT !.pc = pc].pc = pc
         /\ [NoThreadCall EXCEPT !.pc = pc].cursor = 0
         /\ [NoThreadCall EXCEPT !.pc = pc].page = {}
BY DEF NoThreadCall, ThreadCalls

(* A request that answers, or that writes or begins to. *)
LEMMA PlainMove ==
  ASSUME BackendInv, NEW q \in Requests, NEW pc \in {"none", "update", "message", "query"},
         req' = [req EXCEPT ![q] = [NoThreadCall EXCEPT !.pc = pc]],
         pc \in {"update", "message"} => threadRow # "none",
         threadRow' = threadRow \/ (threadRow' = "updated" /\ req[q].pc = "update"),
         UNCHANGED <<messages, made, deleted, wroteLate, skipped>>
  PROVE  BackendInv'
<1>. DEFINE c == [NoThreadCall EXCEPT !.pc = pc]
<1>1. c \in ThreadCalls /\ c.pc = pc /\ c.cursor = 0 /\ c.page = {}
  BY CallTyped
<1>. HIDE DEF c
<1>2. req' = [req EXCEPT ![q] = c]
  BY DEF c
<1>3. \A k \in messages' \ skipped' : ~ Reached(c, wroteLate', k)
  <2>1. \A k \in messages' : k \in Nat /\ ~ (k <= 0)
    BY DEF BackendInv, AgentBackendTypeOK
  <2>. QED BY <1>1, <2>1 DEF Reached
<1>4. threadRow' \in {"none", "created", "updated"} /\ made \in Nat /\ skipped \subseteq 1..made
  BY DEF BackendInv, AgentBackendTypeOK
<1>5. deleted \in BOOLEAN /\ wroteLate \in BOOLEAN
  BY DEF BackendInv, AgentBackendTypeOK
<1>6. ASSUME deleted', ~wroteLate' PROVE /\ threadRow' = "none" /\ messages' \subseteq skipped'
                                        /\ Writers' = {}
  <2>1. threadRow = "none" /\ messages \subseteq skipped /\ Writers = {}
    BY <1>6 DEF BackendInv, DeletedThreadIsGone
  <2>2. req[q].pc # "update" /\ c.pc \notin {"update", "message"}
    BY <1>1, <2>1 DEF Writers
  <2>3. \A r \in Requests : req'[r].pc \notin {"update", "message"}
    BY <1>2, <2>1, <2>2 DEF Writers, BackendInv
  <2>. QED BY <2>1, <2>2, <2>3 DEF Writers
<1>. QED
  <2>1. c.cursor <= made /\ c.page \subseteq 1..made
    BY <1>1, <1>4
  <2>2. (DeletedThreadIsGone /\ (deleted /\ ~wroteLate => Writers = {}))'
    BY <1>6 DEF DeletedThreadIsGone
  <2>. QED BY <1>1, <1>2, <1>3, <1>4, <1>5, <2>1, <2>2, MoveKeeps

LEMMA BackendStutters == BackendInv /\ UNCHANGED backendVars => BackendInv'
BY DEF backendVars, BackendInv, AgentBackendTypeOK, DeletedThreadIsGone, Writers

LEMMA CreateKeeps == BackendInv /\ CreateThread => BackendInv'
<1>. SUFFICES ASSUME BackendInv, CreateThread PROVE BackendInv'
  OBVIOUS
<1>1. UNCHANGED <<messages, made, req, deleted, wroteLate, skipped>> /\ ~deleted /\ threadRow' = "created"
  BY DEF CreateThread
<1>2. AgentBackendTypeOK'
  BY <1>1 DEF BackendInv, AgentBackendTypeOK
<1>. QED BY <1>1, <1>2 DEF BackendInv, DeletedThreadIsGone

LEMMA FullPageHasMax ==
  ASSUME BackendInv, NEW q \in Requests, PageSize <= Cardinality(req[q].page)
  PROVE  Max(req[q].page) \in req[q].page /\ \A m \in req[q].page : m <= Max(req[q].page)
<1>1. req[q].page \subseteq 1..made /\ made \in Nat
  BY DEF BackendInv
<1>2. req[q].page # {}
  BY BackendAssumption, FS_EmptySet
<1>3. req[q].page \subseteq 0..made
  BY <1>1
<1>. QED BY <1>1, <1>2, <1>3, MaxOf

LEMMA MessageKeeps ==
  ASSUME BackendInv, NEW q \in Requests, MessagePut(q)
  PROVE  BackendInv'
<1>1. /\ req' = [req EXCEPT ![q] = NoThreadCall] /\ req[q].pc = "message" /\ made < MaxMessages
      /\ made' = made + 1 /\ messages' = messages \union {made + 1}
      /\ wroteLate' = (wroteLate \/ \E d \in Requests : req[d].pc \in {"batch", "row"})
      /\ UNCHANGED <<threadRow, deleted, skipped>>
  BY DEF MessagePut, In, Reply
<1>2. NoThreadCall \in ThreadCalls /\ NoThreadCall.pc = "none" /\ NoThreadCall.cursor = 0 /\ NoThreadCall.page = {}
  BY DEF NoThreadCall, ThreadCalls
<1>3. /\ req' \in [Requests -> ThreadCalls] /\ req'[q] = NoThreadCall
      /\ \A r \in Requests : r # q => req'[r] = req[r]
  BY <1>1, <1>2 DEF BackendInv
<1>4. made \in Nat /\ made' \in Nat /\ messages \subseteq 1..made /\ skipped \subseteq 1..made
  BY <1>1 DEF BackendInv, AgentBackendTypeOK
<1>5. AgentBackendTypeOK'
  <2>1. made' <= MaxMessages
    BY <1>1, <1>4, BackendAssumption
  <2>2. messages' \subseteq 1..made' /\ skipped' \subseteq 1..made'
    BY <1>1, <1>4
  <2>3. wroteLate' \in BOOLEAN /\ deleted' \in BOOLEAN
    BY <1>1 DEF BackendInv, AgentBackendTypeOK
  <2>4. threadRow' \in {"none", "created", "updated"}
    BY <1>1 DEF BackendInv, AgentBackendTypeOK
  <2>. QED BY <2>1, <2>2, <2>3, <2>4 DEF AgentBackendTypeOK
<1>6. ASSUME NEW r \in Requests PROVE req'[r].cursor <= made' /\ req'[r].page \subseteq 1..made'
  <2>1. CASE r = q
    BY <1>2, <1>3, <1>4, <2>1
  <2>2. CASE r # q
    <3>1. req[r].cursor <= made /\ req[r].page \subseteq 1..made /\ req[r].cursor \in Nat
      BY DEF BackendInv, ThreadCalls
    <3>. QED BY <1>1, <1>3, <1>4, <2>2, <3>1
  <2>. QED BY <2>1, <2>2
<1>7. ASSUME NEW r \in Requests, NEW k \in messages' \ skipped' PROVE ~ Reached(req'[r], wroteLate', k)
  <2>1. CASE r = q
    BY <1>2, <1>3, <2>1 DEF Reached
  <2>2. CASE r # q /\ k \in messages
    <3>1. ~ Reached(req[r], wroteLate, k) /\ req'[r] = req[r]
      BY <1>1, <1>3, <2>2 DEF BackendInv
    <3>. QED BY <1>1, <3>1 DEF Reached
  <2>3. CASE r # q /\ k = made + 1
    <3>1. req'[r] = req[r] /\ req[r].cursor \in Nat /\ req[r].cursor <= made
      BY <1>3, <2>3 DEF BackendInv, ThreadCalls
    <3>2. ~ (k <= req[r].cursor)
      BY <1>4, <2>3, <3>1
    <3>3. PageSize <= Cardinality(req[r].page) => ~ (k <= Max(req[r].page))
      <4>1. req[r].page \subseteq 1..made
        BY DEF BackendInv
      <4>2. PageSize <= Cardinality(req[r].page) => Max(req[r].page) \in 1..made
        BY <4>1, FullPageHasMax
      <4>. QED BY <1>4, <2>3, <4>2
    <3>4. req[r].pc \in {"batch", "row"} => wroteLate'
      BY <1>1
    <3>. QED BY <3>1, <3>2, <3>3, <3>4 DEF Reached
  <2>. QED BY <1>1, <2>1, <2>2, <2>3
<1>8. ASSUME deleted', ~wroteLate' PROVE FALSE
  <2>1. Writers = {}
    BY <1>1, <1>8 DEF BackendInv
  <2>. QED BY <1>1, <2>1 DEF Writers
<1>. QED
  BY <1>3, <1>4, <1>5, <1>6, <1>7, <1>8 DEF BackendInv, DeletedThreadIsGone

LEMMA QueryKeeps ==
  ASSUME BackendInv, NEW q \in Requests, DeleteQuery(q)
  PROVE  BackendInv'
<1>. DEFINE S == MessagesAfter(req[q].cursor)
            c == [req[q] EXCEPT !.pc = "batch", !.page = BatchAfter(req[q].cursor)]
<1>1. /\ req' = [req EXCEPT ![q] = c] /\ req[q].pc = "query"
      /\ UNCHANGED <<threadRow, messages, made, deleted, wroteLate, skipped>>
  BY DEF DeleteQuery, In
<1>2. /\ made \in Nat /\ messages \subseteq 1..made /\ skipped \subseteq 1..made
      /\ req[q] \in ThreadCalls /\ req[q].cursor \in Nat /\ req[q].cursor <= made
  BY DEF BackendInv, AgentBackendTypeOK, ThreadCalls
<1>3. S \subseteq messages /\ S \subseteq 1..made /\ BatchAfter(req[q].cursor) = FirstOf(S)
  BY <1>2 DEF MessagesAfter, BatchAfter, FirstOf, UpTo
<1>4. FirstOf(S) \subseteq S /\ FirstOf(S) \in SUBSET Nat
  BY <1>3 DEF FirstOf
<1>5. /\ c \in ThreadCalls /\ c.pc = "batch" /\ c.cursor = req[q].cursor /\ c.page = FirstOf(S)
  BY <1>2, <1>3, <1>4 DEF ThreadCalls
<1>. HIDE DEF c
<1>6. ASSUME NEW k \in messages \ skipped, k \notin FirstOf(S)
      PROVE  k \in S /\ PageSize <= Cardinality(FirstOf(S)) /\ ~ (k <= Max(FirstOf(S)))
  <2>1. ~ Reached(req[q], wroteLate, k)
    BY DEF BackendInv
  <2>2. k \in S
    <3>1. ~ (k <= req[q].cursor) /\ k \in Nat
      BY <1>1, <1>2, <2>1 DEF Reached
    <3>. QED BY <1>2, <3>1 DEF MessagesAfter
  <2>3. ~ (Cardinality(FirstOf(S)) < PageSize)
    <3>. HIDE DEF S
    <3>. QED BY <1>2, <1>3, <1>6, <2>2, ShortPageIsAll
  <2>4. Cardinality(FirstOf(S)) \in Nat
    <3>. HIDE DEF S
    <3>. QED BY <1>2, <1>3, <1>4, PartsAreFinite
  <2>5. PageSize <= Cardinality(FirstOf(S))
    BY <2>3, <2>4, BackendAssumption
  <2>6. Max(FirstOf(S)) \in FirstOf(S)
    <3>1. FirstOf(S) # {}
      BY <2>5, BackendAssumption, FS_EmptySet
    <3>2. FirstOf(S) \subseteq 0..made
      BY <1>2, <1>3, <1>4
    <3>. HIDE DEF S
    <3>. QED BY <1>2, <3>1, <3>2, MaxOf
  <2>7. ~ (k <= Max(FirstOf(S)))
    <3>. HIDE DEF S
    <3>. QED BY <1>2, <1>3, <1>6, <2>2, <2>6, PageIsFirstPart
  <2>. QED BY <2>2, <2>5, <2>7
<1>7. \A k \in messages' \ skipped' : ~ Reached(c, wroteLate', k)
  <2>1. Cardinality(FirstOf(S)) \in Nat
    <3>. HIDE DEF S
    <3>. QED BY <1>2, <1>3, <1>4, PartsAreFinite
  <2>2. PageSize <= Cardinality(FirstOf(S)) => ~ (Cardinality(FirstOf(S)) < PageSize)
    BY <2>1, BackendAssumption
  <2>. HIDE DEF S
  <2>. QED BY <1>1, <1>5, <1>6, <2>2 DEF Reached
<1>8. c.cursor <= made /\ c.page \subseteq 1..made
  BY <1>2, <1>3, <1>4, <1>5
<1>9. (DeletedThreadIsGone /\ (deleted /\ ~wroteLate => Writers = {}))'
  <2>1. Writers' = Writers
    BY <1>1, <1>5 DEF Writers, BackendInv
  <2>. QED BY <1>1, <2>1 DEF BackendInv, DeletedThreadIsGone
<1>10. threadRow' \in {"none", "created", "updated"} /\ deleted' \in BOOLEAN /\ wroteLate' \in BOOLEAN
  BY <1>1 DEF BackendInv, AgentBackendTypeOK
<1>. HIDE DEF S
<1>. QED
  BY <1>1, <1>2, <1>5, <1>7, <1>8, <1>9, <1>10, MoveKeeps

LEMMA BatchKeeps ==
  ASSUME BackendInv, NEW q \in Requests, DeleteBatch(q)
  PROVE  BackendInv'
<1>. DEFINE batch == req[q].page
            c == IF Cardinality(batch) < PageSize THEN [NoThreadCall EXCEPT !.pc = "row"]
                 ELSE [pc |-> "query", cursor |-> Max(batch), page |-> {}]
<1>1. PICK left \in SUBSET batch : messages' = messages \ (batch \ left) /\ skipped' = skipped \union left
  BY DEF DeleteBatch
<1>2. /\ req' = [req EXCEPT ![q] = c] /\ req[q].pc = "batch"
      /\ UNCHANGED <<threadRow, made, deleted, wroteLate>>
  BY DEF DeleteBatch, NextPage, In
<1>3. /\ made \in Nat /\ messages \subseteq 1..made /\ skipped \subseteq 1..made
      /\ batch \subseteq 1..made
  BY DEF BackendInv, AgentBackendTypeOK
<1>4. Cardinality(batch) \in Nat
  <2>. HIDE DEF batch
  <2>. QED BY <1>3, PartsAreFinite
<1>5. /\ c \in ThreadCalls /\ c.pc \in {"row", "query"} /\ c.cursor <= made /\ c.page = {}
      /\ \A k \in messages' \ skipped' : ~ Reached(c, wroteLate', k)
  <2>1. ASSUME NEW k \in messages' \ skipped'
        PROVE  k \notin batch /\ ~ Reached(req[q], wroteLate, k)
    BY <1>1, <2>1 DEF BackendInv
  <2>2. CASE Cardinality(batch) < PageSize
    <3>1. c \in ThreadCalls /\ c.pc = "row" /\ c.cursor = 0 /\ c.page = {}
      BY <2>2, CallTyped
    <3>2. \A k \in messages' \ skipped' : wroteLate
      BY <1>2, <2>1, <2>2 DEF Reached
    <3>. HIDE DEF c
    <3>. QED BY <1>2, <1>3, <3>1, <3>2 DEF Reached
  <2>3. CASE ~ (Cardinality(batch) < PageSize)
    <3>1. PageSize <= Cardinality(batch)
      BY <1>4, <2>3, BackendAssumption
    <3>2. Max(batch) \in batch
      BY <3>1, FullPageHasMax
    <3>3. Max(batch) \in Nat /\ Max(batch) <= made
      BY <1>3, <3>2
    <3>4. c \in ThreadCalls /\ c.pc = "query" /\ c.cursor = Max(batch) /\ c.page = {}
      BY <2>3, <3>3 DEF ThreadCalls
    <3>5. \A k \in messages' \ skipped' : ~ (k <= Max(batch))
      BY <1>2, <2>1, <3>1 DEF Reached
    <3>. HIDE DEF c
    <3>. QED BY <3>3, <3>4, <3>5 DEF Reached
  <2>. QED BY <2>2, <2>3
<1>. HIDE DEF c
<1>6. /\ messages' \subseteq messages /\ skipped \subseteq skipped' /\ skipped' \subseteq 1..made
      /\ (messages \subseteq skipped => messages' \subseteq skipped')
  BY <1>1, <1>3
<1>7. Writers' \subseteq Writers
  BY <1>2, <1>5 DEF Writers, BackendInv
<1>8. (DeletedThreadIsGone /\ (deleted /\ ~wroteLate => Writers = {}))'
  BY <1>2, <1>6, <1>7 DEF BackendInv, DeletedThreadIsGone
<1>9. threadRow' \in {"none", "created", "updated"} /\ deleted' \in BOOLEAN /\ wroteLate' \in BOOLEAN
  BY <1>2 DEF BackendInv, AgentBackendTypeOK
<1>. HIDE DEF batch
<1>. QED
  BY <1>2, <1>5, <1>6, <1>8, <1>9, MoveKeeps

LEMMA RowKeeps ==
  ASSUME BackendInv, NEW q \in Requests, DeleteRow(q)
  PROVE  BackendInv'
<1>1. /\ req' = [req EXCEPT ![q] = NoThreadCall] /\ req[q].pc = "row"
      /\ threadRow' = "none" /\ deleted' = TRUE /\ wroteLate' = (wroteLate \/ Writers # {})
      /\ UNCHANGED <<messages, made, skipped>>
  BY DEF DeleteRow, In, Reply
<1>2. NoThreadCall \in ThreadCalls /\ NoThreadCall.pc = "none" /\ NoThreadCall.cursor = 0 /\ NoThreadCall.page = {}
  BY DEF NoThreadCall, ThreadCalls
<1>3. made \in Nat /\ skipped \subseteq 1..made /\ wroteLate \in BOOLEAN
  BY DEF BackendInv, AgentBackendTypeOK
<1>4. wroteLate' \in BOOLEAN /\ (wroteLate => wroteLate') /\ deleted' \in BOOLEAN
  BY <1>1, <1>3
<1>5. \A k \in messages' \ skipped' : ~ Reached(NoThreadCall, wroteLate', k)
  BY <1>2 DEF Reached
<1>6. ASSUME ~wroteLate' PROVE messages' \subseteq skipped' /\ Writers' = {}
  <2>1. ~wroteLate /\ Writers = {}
    BY <1>1, <1>6
  <2>2. \A k \in messages \ skipped : ~ Reached(req[q], wroteLate, k)
    BY DEF BackendInv
  <2>3. messages \subseteq skipped
    BY <1>1, <2>1, <2>2 DEF Reached
  <2>4. Writers' = {}
    BY <1>1, <1>2, <2>1 DEF Writers, BackendInv
  <2>. QED BY <1>1, <2>3, <2>4
<1>7. (DeletedThreadIsGone /\ (deleted /\ ~wroteLate => Writers = {}))'
  BY <1>1, <1>6 DEF DeletedThreadIsGone
<1>8. NoThreadCall.cursor <= made /\ NoThreadCall.page \subseteq 1..made
  BY <1>2, <1>3
<1>. QED
  BY <1>1, <1>2, <1>3, <1>4, <1>5, <1>7, <1>8, MoveKeeps

LEMMA BackendStep == BackendInv /\ AgentBackendNext => BackendInv'
<1>. SUFFICES ASSUME BackendInv, AgentBackendNext PROVE BackendInv'
  OBVIOUS
<1>1. ASSUME NEW q \in Requests, NEW pc \in {"update", "message", "query"}, Lookup(q, pc)
      PROVE  BackendInv'
  BY <1>1, PlainMove DEF Lookup, To
<1>2. ASSUME NEW q \in Requests, ThreadPut(q) PROVE BackendInv'
  <2>1. [NoThreadCall EXCEPT !.pc = "none"] = NoThreadCall
    BY DEF NoThreadCall
  <2>. QED BY <1>2, <2>1, PlainMove DEF ThreadPut, Reply, In
<1>3. ASSUME NEW q \in Requests, RequestFails(q) PROVE BackendInv'
  <2>1. [NoThreadCall EXCEPT !.pc = "none"] = NoThreadCall
    BY DEF NoThreadCall
  <2>. QED BY <1>3, <2>1, PlainMove DEF RequestFails, Reply
<1>. QED
  BY <1>1, <1>2, <1>3, CreateKeeps, MessageKeeps, QueryKeeps, BatchKeeps, RowKeeps DEF AgentBackendNext

(* A thread whose deletion was answered stays gone with all its messages, but  *)
(* for late writers and the items that a batch left: for every number of       *)
(* requests, every size of a page and every number of messages.                *)
THEOREM DeletionsHold == AgentBackendSpec => []DeletedThreadIsGone
<1>1. BackendInv => DeletedThreadIsGone
  BY DEF BackendInv
<1>. QED
  BY BackendInit, BackendStutters, BackendStep, <1>1, PTL DEF AgentBackendSpec

-----------------------------------------------------------------------------
(* The tools that a run offers *)

(* Without's recursion: kept holds what is kept of the first i tools. *)
Step(tools, gone, v, i) == IF tools[i] \in gone THEN v ELSE Append(v, tools[i])
Keeps(tools, gone, f, n) ==
  f = [i \in 0..n |-> IF i = 0 THEN <<>> ELSE Step(tools, gone, f[i - 1], i)]

LEMMA KeptExists ==
  ASSUME NEW tools \in Seq(Tools), NEW gone
  PROVE  \E f : Keeps(tools, gone, f, Len(tools))
<1>. DEFINE Bad == {n \in 0..Len(tools) : ~ \E f : Keeps(tools, gone, f, n)}
<1>1. Len(tools) \in Nat
  OBVIOUS
<1>2. SUFFICES ASSUME Bad # {} PROVE FALSE
  BY <1>1
<1>3. PICK n \in Bad : \A m \in Bad : n <= m
  <2>1. Bad \subseteq Nat
    BY <1>1
  <2>. HIDE DEF Bad
  <2>. QED BY <1>2, <2>1, SmallestOf
<1>4. n # 0
  <2>. DEFINE f == [i \in 0..0 |-> <<>>]
  <2>1. f = [i \in 0..0 |-> IF i = 0 THEN <<>> ELSE Step(tools, gone, f[i - 1], i)]
    OBVIOUS
  <2>. QED BY <2>1 DEF Keeps
<1>5. n - 1 \in 0..Len(tools) /\ n - 1 \notin Bad
  BY <1>1, <1>3, <1>4
<1>6. PICK f : Keeps(tools, gone, f, n - 1)
  BY <1>5
<1>. DEFINE g == [i \in 0..n |-> IF i = n THEN Step(tools, gone, f[n - 1], n) ELSE f[i]]
<1>7. Keeps(tools, gone, g, n)
  <2>1. n \in Nat /\ n > 0
    BY <1>1, <1>4
  <2>2. /\ f[0] = <<>>
        /\ \A i \in 1..(n - 1) : f[i] = Step(tools, gone, f[i - 1], i)
    BY <1>6, <2>1 DEF Keeps
  <2>3. \A i \in 0..n : i # 0 => g[i] = Step(tools, gone, g[i - 1], i)
    <3>1. ASSUME NEW i \in 1..n PROVE g[i] = Step(tools, gone, g[i - 1], i)
      <4>1. g[i - 1] = f[i - 1]
        BY <2>1
      <4>2. g[i] = Step(tools, gone, f[i - 1], i)
        BY <2>1, <2>2
      <4>. QED BY <4>1, <4>2
    <3>2. \A i \in 0..n : i # 0 => i \in 1..n
      BY <2>1
    <3>. HIDE DEF g
    <3>. QED BY <3>1, <3>2
  <2>4. g[0] = <<>>
    BY <2>1, <2>2
  <2>5. g = [i \in 0..n |-> g[i]]
    OBVIOUS
  <2>. HIDE DEF g
  <2>. QED BY <2>3, <2>4, <2>5 DEF Keeps
<1>. QED BY <1>3, <1>7

LEMMA WithoutIs ==
  ASSUME NEW tools \in Seq(Tools), NEW gone
  PROVE  /\ ToSet(Without(tools, gone)) = ToSet(tools) \ gone
         /\ Without(tools, gone) \in Seq(Tools)
         /\ IsInjective(tools) => IsInjective(Without(tools, gone))
<1>. DEFINE n == Len(tools)
            kept == CHOOSE f : Keeps(tools, gone, f, n)
<1>1. Without(tools, gone) = kept[n]
  BY Zenon DEF Without, Keeps, Step
<1>2. Keeps(tools, gone, kept, n)
  BY KeptExists
<1>. HIDE DEF kept
<1>3. /\ n \in Nat /\ kept[0] = <<>>
      /\ \A i \in 1..n : kept[i] = Step(tools, gone, kept[i - 1], i)
  BY <1>2 DEF Keeps
<1>. DEFINE Good(i) == /\ kept[i] \in Seq(Tools)
                       /\ ToSet(kept[i]) = {tools[j] : j \in 1..i} \ gone
                       /\ IsInjective(tools) => IsInjective(kept[i])
            Bad == {i \in 0..n : ~ Good(i)}
<1>4. SUFFICES Bad = {}
  <2>1. Good(n)
    <3>. HIDE DEF Good
    <3>1. n \in 0..n
      BY <1>3
    <3>. QED BY <1>4, <3>1
  <2>2. ToSet(tools) = {tools[j] : j \in 1..n}
    BY DEF ToSet
  <2>. QED BY <1>1, <2>1, <2>2
<1>5. SUFFICES ASSUME Bad # {} PROVE FALSE
  OBVIOUS
<1>6. PICK i \in Bad : \A m \in Bad : i <= m
  <2>1. Bad \subseteq Nat
    BY <1>3
  <2>. HIDE DEF Bad
  <2>. QED BY <1>5, <2>1, SmallestOf
<1>7. i # 0
  <2>1. Good(0)
    BY <1>3 DEF ToSet, IsInjective
  <2>. QED BY <2>1
<1>8. i \in 1..n /\ i - 1 \in 0..n /\ Good(i - 1)
  <2>1. i \in 1..n /\ i - 1 \in 0..n /\ ~ (i <= i - 1)
    BY <1>3, <1>6, <1>7
  <2>. QED BY <1>6, <2>1
<1>. DEFINE v == kept[i - 1]
<1>9. /\ v \in Seq(Tools) /\ ToSet(v) = {tools[j] : j \in 1..(i - 1)} \ gone
      /\ IsInjective(tools) => IsInjective(v)
      /\ kept[i] = Step(tools, gone, v, i) /\ tools[i] \in Tools
  BY <1>3, <1>8
<1>10. {tools[j] : j \in 1..i} = {tools[j] : j \in 1..(i - 1)} \union {tools[i]}
  BY <1>8
<1>. HIDE DEF v
<1>11. CASE tools[i] \in gone
  <2>1. kept[i] = v
    BY <1>9, <1>11 DEF Step
  <2>2. Good(i)
    BY <1>9, <1>10, <1>11, <2>1
  <2>. QED BY <1>6, <2>2
<1>12. CASE tools[i] \notin gone
  <2>1. kept[i] = Append(v, tools[i])
    BY <1>9, <1>12 DEF Step
  <2>2. kept[i] \in Seq(Tools) /\ Len(kept[i]) = Len(v) + 1 /\ Len(v) \in Nat
        /\ kept[i][Len(v) + 1] = tools[i] /\ \A k \in 1..Len(v) : kept[i][k] = v[k]
    BY <1>9, <2>1
  <2>3. ToSet(kept[i]) = ToSet(v) \union {tools[i]}
    BY SMTT(30), <1>9, <2>2 DEF ToSet
  <2>4. ASSUME IsInjective(tools) PROVE IsInjective(kept[i])
    <3>1. tools[i] \notin ToSet(v)
      <4>1. \A j \in 1..(i - 1) : tools[j] # tools[i]
        BY <1>3, <1>8, <2>4 DEF IsInjective
      <4>. QED BY <1>9, <4>1
    <3>2. \A k \in 1..Len(v) : v[k] \in ToSet(v)
      BY <1>9 DEF ToSet
    <3>3. IsInjective(v)
      BY <1>9, <2>4
    <3>. QED BY SMTT(30), <1>9, <2>2, <3>1, <3>2, <3>3 DEF IsInjective
  <2>5. Good(i)
    BY <1>9, <1>10, <1>12, <2>2, <2>3, <2>4
  <2>. QED BY <1>6, <2>5
<1>. QED BY <1>11, <1>12

LEMMA TouchedIs ==
  ASSUME NEW tools \in Seq(Tools), NEW order \in Seq(Tools), IsInjective(tools), IsInjective(order)
  PROVE  /\ Touched(tools, order) \in Seq(Tools) /\ IsInjective(Touched(tools, order))
         /\ ToSet(Touched(tools, order)) = ToSet(tools) \union ToSet(order)
<1>. DEFINE w == Without(tools, ToSet(order))
<1>1. /\ w \in Seq(Tools) /\ IsInjective(w) /\ ToSet(w) = ToSet(tools) \ ToSet(order)
      /\ Touched(tools, order) = w \o order
  BY WithoutIs DEF Touched
<1>. HIDE DEF w
<1>. DEFINE both == w \o order
<1>2. /\ both \in Seq(Tools) /\ Len(both) = Len(w) + Len(order) /\ Len(w) \in Nat /\ Len(order) \in Nat
      /\ \A i \in 1..Len(both) : both[i] = IF i <= Len(w) THEN w[i] ELSE order[i - Len(w)]
  BY <1>1, ConcatProperties
<1>. HIDE DEF both
<1>3. \A i \in 1..Len(both) : i <= Len(w) => i \in DOMAIN w /\ both[i] = w[i] /\ both[i] \in ToSet(w)
  BY <1>1, <1>2 DEF ToSet
<1>4. \A i \in 1..Len(both) : ~ (i <= Len(w)) =>
         i - Len(w) \in DOMAIN order /\ both[i] = order[i - Len(w)] /\ both[i] \in ToSet(order)
  <2>. SUFFICES ASSUME NEW i \in 1..Len(both), ~ (i <= Len(w))
                PROVE  i - Len(w) \in DOMAIN order /\ both[i] = order[i - Len(w)] /\ both[i] \in ToSet(order)
    OBVIOUS
  <2>1. i - Len(w) \in 1..Len(order) /\ DOMAIN order = 1..Len(order)
    BY <1>2
  <2>2. both[i] = order[i - Len(w)]
    BY <1>2
  <2>. QED BY <2>1, <2>2 DEF ToSet
<1>5. ToSet(both) = ToSet(w) \union ToSet(order)
  <2>1. ToSet(both) \subseteq ToSet(w) \union ToSet(order)
    BY <1>2, <1>3, <1>4 DEF ToSet
  <2>2. ASSUME NEW j \in DOMAIN w PROVE w[j] \in ToSet(both)
    <3>1. j \in 1..Len(both) /\ j <= Len(w)
      BY <1>1, <1>2
    <3>. QED BY <1>2, <1>3, <3>1 DEF ToSet
  <2>3. ASSUME NEW j \in DOMAIN order PROVE order[j] \in ToSet(both)
    <3>1. j + Len(w) \in 1..Len(both) /\ ~ (j + Len(w) <= Len(w)) /\ (j + Len(w)) - Len(w) = j
      BY <1>2
    <3>2. both[j + Len(w)] = order[j]
      BY <1>2, <3>1
    <3>. QED BY <1>2, <3>1, <3>2 DEF ToSet
  <2>. QED BY <2>1, <2>2, <2>3 DEF ToSet
<1>6. IsInjective(both)
  <2>. SUFFICES ASSUME NEW i \in 1..Len(both), NEW j \in 1..Len(both), both[i] = both[j] PROVE i = j
    BY <1>2 DEF IsInjective
  <2>1. CASE i <= Len(w) /\ j <= Len(w)
    BY <1>1, <1>3, <2>1 DEF IsInjective
  <2>2. CASE ~ (i <= Len(w)) /\ ~ (j <= Len(w))
    <3>1. i - Len(w) = j - Len(w)
      BY <1>4, <2>2 DEF IsInjective
    <3>. QED BY <1>2, <3>1
  <2>3. CASE (i <= Len(w)) # (j <= Len(w))
    BY <1>1, <1>3, <1>4, <2>3
  <2>. QED BY <2>1, <2>2, <2>3
<1>. QED BY <1>1, <1>2, <1>5, <1>6 DEF both

LEMMA PruneIs ==
  ASSUME NEW tools \in Seq(Tools), IsInjective(tools)
  PROVE  /\ Prune(tools) \in Seq(Tools) /\ IsInjective(Prune(tools))
         /\ Len(Prune(tools)) <= MaxLoaded /\ ToSet(Prune(tools)) \subseteq ToSet(tools)
         /\ Len(tools) <= MaxLoaded => Prune(tools) = tools
<1>1. MaxLoaded \in Nat /\ MaxLoaded > 0 /\ Len(tools) \in Nat
  BY ToolsAssumption
<1>2. CASE Len(tools) <= MaxLoaded
  BY <1>2 DEF Prune
<1>3. CASE ~ (Len(tools) <= MaxLoaded)
  <2>. DEFINE m == Len(tools) - MaxLoaded + 1
              p == SubSeq(tools, m, Len(tools))
  <2>1. m \in 1..Len(tools) /\ Len(tools) - m + 1 = MaxLoaded /\ m <= Len(tools) + 1
    BY <1>1, <1>3
  <2>2. /\ p \in Seq(Tools) /\ Len(p) = MaxLoaded
        /\ \A i \in 1..MaxLoaded : p[i] = tools[m + i - 1]
    <3>. HIDE DEF m
    <3>. QED BY <1>1, <2>1, SubSeqProperties
  <2>3. \A i \in 1..MaxLoaded : m + i - 1 \in 1..Len(tools)
    BY <1>1, <1>3
  <2>4. Prune(tools) = p
    BY <1>3 DEF Prune
  <2>. HIDE DEF p, m
  <2>5. DOMAIN p = 1..MaxLoaded /\ DOMAIN tools = 1..Len(tools)
    BY <2>2
  <2>6. ToSet(p) \subseteq ToSet(tools)
    BY <2>2, <2>3, <2>5 DEF ToSet
  <2>7. IsInjective(p)
    <3>. SUFFICES ASSUME NEW i \in 1..MaxLoaded, NEW j \in 1..MaxLoaded, p[i] = p[j] PROVE i = j
      BY <2>5 DEF IsInjective
    <3>1. tools[m + i - 1] = tools[m + j - 1]
      BY <2>2
    <3>2. m + i - 1 = m + j - 1
      BY <2>3, <2>5, <3>1 DEF IsInjective
    <3>. QED BY <1>1, <2>1, <3>2
  <2>. QED BY <1>1, <1>3, <2>2, <2>4, <2>6, <2>7
<1>. QED BY <1>2, <1>3

LEMMA InjectiveFits ==
  ASSUME NEW tools \in Seq(Tools), IsInjective(tools), NEW S, IsFiniteSet(S), ToSet(tools) \subseteq S
  PROVE  Len(tools) <= Cardinality(S)
<1>1. tools \in Injection(1..Len(tools), S)
  <2>1. tools \in [1..Len(tools) -> S]
    BY DEF ToSet
  <2>. QED BY <2>1 DEF Injection
<1>2. Len(tools) \in Nat /\ Cardinality(1..Len(tools)) = Len(tools)
  <2>1. Len(tools) \in Nat
    OBVIOUS
  <2>. QED BY SMTT(30), <2>1, FS_Interval
<1>. QED BY <1>1, <1>2, FS_Injection

LEMMA OrderIs ==
  ASSUME NEW success \in SUBSET Tools, NEW order \in SetToSeqs(success)
  PROVE  order \in Seq(Tools) /\ IsInjective(order) /\ ToSet(order) = success
<1>1. IsFiniteSet(success) /\ Cardinality(success) \in Nat
  BY ToolsAssumption, FS_Subset, FS_CardinalityType
<1>. DEFINE n == Cardinality(success)
<1>2. order \in [1..n -> success] /\ \A i, j \in 1..n : i # j => order[i] # order[j]
  BY DEF SetToSeqs
<1>3. order \in Seq(success) /\ Len(order) = n
  BY <1>1, <1>2
<1>4. order \in Injection(1..n, success) /\ Cardinality(1..n) = n
  <2>1. IsInjective(order)
    <3>. HIDE DEF n
    <3>. QED BY <1>2 DEF IsInjective
  <2>2. order \in Injection(1..n, success)
    BY <1>2, <2>1 DEF Injection
  <2>3. Cardinality(1..n) = n
    <3>. HIDE DEF n
    <3>1. n \in Nat
      BY <1>1 DEF n
    <3>. QED BY <3>1, FS_Interval
  <2>. QED BY <2>2, <2>3
<1>5. order \in Surjection(1..n, success)
  BY <1>1, <1>4, FS_Injection
<1>. QED BY <1>2, <1>3, <1>5 DEF IsInjective, ToSet, Surjection

(* A tool of the memory that is touched leaves the memory as long as it was.   *)
LEMMA UseKeepsMemory ==
  ASSUME NEW tools \in Seq(Tools), IsInjective(tools), NEW t \in ToSet(tools)
  PROVE  /\ Touched(tools, <<t>>) \in Seq(Tools) /\ IsInjective(Touched(tools, <<t>>))
         /\ ToSet(Touched(tools, <<t>>)) = ToSet(tools)
         /\ Len(Touched(tools, <<t>>)) <= Len(tools)
<1>1. t \in Tools /\ <<t>> \in Seq(Tools)
  BY DEF ToSet
<1>2. IsInjective(<<t>>) /\ ToSet(<<t>>) = {t}
  BY DEF IsInjective, ToSet
<1>. DEFINE u == Touched(tools, <<t>>)
<1>3. u \in Seq(Tools) /\ IsInjective(u) /\ ToSet(u) = ToSet(tools) \union {t}
  BY <1>1, <1>2, TouchedIs
<1>4. IsFiniteSet(ToSet(tools)) /\ Cardinality(ToSet(tools)) <= Len(tools)
  <2>1. Len(tools) \in Nat
    OBVIOUS
  <2>2. tools \in Surjection(1..Len(tools), ToSet(tools))
    BY DEF Surjection, ToSet
  <2>3. IsFiniteSet(1..Len(tools)) /\ Cardinality(1..Len(tools)) = Len(tools)
    BY <2>1, FS_Interval
  <2>. QED BY <2>2, <2>3, FS_Surjection
<1>5. Len(u) <= Cardinality(ToSet(tools))
  <2>. HIDE DEF u
  <2>. QED BY <1>3, <1>4, InjectiveFits
<1>6. Len(u) \in Nat /\ Len(tools) \in Nat /\ Cardinality(ToSet(tools)) \in Nat
  BY <1>3, <1>4, FS_CardinalityType
<1>7. Len(u) <= Len(tools)
  <2>. HIDE DEF u
  <2>. QED BY <1>4, <1>5, <1>6
<1>. QED BY <1>3, <1>7

ToolRunRecords == [pc : {"none", "ask", "calls"}, turns : SUBSET Tools, offered : SUBSET Tools,
         round : SUBSET Tools]
Fits == kills = 0 /\ Cardinality(everLoaded) <= MaxLoaded

(* While nothing was lost, the memory holds all that was ever loaded. *)
ToolsInv ==
  /\ AgentToolsTypeOK
  /\ recent \in Seq(Tools) /\ kills \in Nat /\ trun \in [ToolRuns -> ToolRunRecords]
  /\ \A r \in ToolRuns : trun[r].round \subseteq everLoaded
  /\ InMemory \subseteq everLoaded
  /\ Fits => everLoaded \subseteq InMemory

LEMMA ToolsInit == AgentToolsInit => ToolsInv
<1>. SUFFICES ASSUME AgentToolsInit PROVE ToolsInv
  OBVIOUS
<1>1. NoRun \in ToolRunRecords /\ NoRun.turns = {} /\ NoRun.offered = {} /\ NoRun.round = {}
  BY DEF NoRun, ToolRunRecords
<1>2. trun \in [ToolRuns -> ToolRunRecords] /\ \A r \in ToolRuns : trun[r] = NoRun
  BY <1>1 DEF AgentToolsInit
<1>3. /\ recent = <<>> /\ InMemory = {} /\ Len(recent) = 0 /\ IsInjective(recent) /\ recent \in Seq(Tools)
      /\ 0 <= MaxLoaded /\ 0 <= MaxKills
  BY ToolsAssumption DEF AgentToolsInit, InMemory, ToSet, IsInjective
<1>. QED
  BY <1>1, <1>2, <1>3 DEF AgentToolsInit, ToolsInv, AgentToolsTypeOK

LEMMA ToolsStutter == ToolsInv /\ UNCHANGED toolVars => ToolsInv'
BY DEF toolVars, ToolsInv, AgentToolsTypeOK, InMemory, Fits

(* A step that changes one run only, or all of them. *)
LEMMA RunKeeps ==
  ASSUME ToolsInv, UNCHANGED <<recent, everLoaded, kills>>,
         history' \subseteq everLoaded, trun' \in [ToolRuns -> ToolRunRecords],
         \A r \in ToolRuns : /\ trun'[r].offered \subseteq trun'[r].turns
                             /\ trun'[r].turns \subseteq everLoaded /\ trun'[r].round \subseteq everLoaded
  PROVE  ToolsInv'
<1>1. InMemory' = InMemory /\ Fits' = Fits
  BY DEF InMemory, Fits
<1>. QED BY <1>1 DEF ToolsInv, AgentToolsTypeOK

LEMMA LoadKeeps ==
  ASSUME ToolsInv, NEW r \in ToolRuns, NEW success \in SUBSET Tools, ModelLoads(r, success)
  PROVE  ToolsInv'
<1>1. PICK order \in SetToSeqs(success) : recent' = Prune(Touched(recent, order))
  BY DEF ModelLoads
<1>2. /\ trun' = [trun EXCEPT ![r].round = @ \union success]
      /\ everLoaded' = everLoaded \union success /\ UNCHANGED <<history, kills>>
  BY DEF ModelLoads
<1>3. order \in Seq(Tools) /\ IsInjective(order) /\ ToSet(order) = success
  BY OrderIs
<1>. DEFINE t == Touched(recent, order)
<1>4. t \in Seq(Tools) /\ IsInjective(t) /\ ToSet(t) = InMemory \union success
  BY <1>3, TouchedIs DEF ToolsInv, AgentToolsTypeOK, InMemory
<1>. HIDE DEF t
<1>5. /\ recent' \in Seq(Tools) /\ IsInjective(recent') /\ Len(recent') <= MaxLoaded
      /\ InMemory' \subseteq InMemory \union success /\ (Len(t) <= MaxLoaded => recent' = t)
  BY <1>1, <1>4, PruneIs DEF t, InMemory
<1>6. everLoaded' \subseteq Tools /\ InMemory' \subseteq everLoaded' /\ everLoaded \subseteq everLoaded'
  BY <1>2, <1>5 DEF ToolsInv, AgentToolsTypeOK
<1>7. ASSUME Fits' PROVE everLoaded' \subseteq InMemory'
  <2>1. IsFiniteSet(everLoaded') /\ IsFiniteSet(everLoaded)
    BY <1>6, ToolsAssumption, FS_Subset
  <2>2. /\ Cardinality(everLoaded') \in Nat /\ Cardinality(everLoaded) \in Nat
        /\ Cardinality(everLoaded) <= Cardinality(everLoaded')
    BY <1>6, <2>1, FS_Subset, FS_CardinalityType
  <2>3. Cardinality(everLoaded') <= MaxLoaded /\ MaxLoaded \in Nat /\ kills = 0
    BY <1>2, <1>7, ToolsAssumption DEF Fits
  <2>4. everLoaded \subseteq InMemory
    BY <2>2, <2>3 DEF ToolsInv, Fits
  <2>5. ToSet(t) \subseteq everLoaded'
    BY <1>2, <1>4 DEF ToolsInv
  <2>6. Len(t) <= Cardinality(everLoaded') /\ Len(t) \in Nat
    BY <1>4, <2>1, <2>5, InjectiveFits
  <2>7. recent' = t
    BY <1>5, <2>2, <2>3, <2>6
  <2>. QED BY <1>2, <1>4, <2>4, <2>7 DEF InMemory
<1>8. /\ trun' \in [ToolRuns -> ToolRunRecords]
      /\ \A s \in ToolRuns : /\ trun'[s].offered = trun[s].offered /\ trun'[s].turns = trun[s].turns
                             /\ trun'[s].round \subseteq trun[s].round \union success
  BY <1>2 DEF ToolsInv, ToolRunRecords
<1>9. \A s \in ToolRuns : trun'[s].round \subseteq everLoaded'
  BY <1>2, <1>8 DEF ToolsInv
<1>10. AgentToolsTypeOK'
  <2>1. history' \subseteq everLoaded' /\ kills' <= MaxKills /\ InMemory' \subseteq Tools
    BY <1>2, <1>6 DEF ToolsInv, AgentToolsTypeOK
  <2>2. \A s \in ToolRuns : trun'[s].offered \subseteq trun'[s].turns /\ trun'[s].turns \subseteq everLoaded'
    BY <1>6, <1>8 DEF ToolsInv, AgentToolsTypeOK
  <2>. QED BY <1>5, <1>6, <2>1, <2>2 DEF AgentToolsTypeOK
<1>. QED
  BY <1>2, <1>5, <1>6, <1>7, <1>8, <1>9, <1>10 DEF ToolsInv

LEMMA CallKeeps ==
  ASSUME ToolsInv, NEW r \in ToolRuns, NEW t \in Tools, ModelCalls(r, t)
  PROVE  ToolsInv'
<1>1. /\ recent' = IF t \in InMemory THEN Touched(recent, <<t>>) ELSE recent
      /\ UNCHANGED <<history, trun, everLoaded, kills>>
  BY DEF ModelCalls
<1>2. recent \in Seq(Tools) /\ IsInjective(recent) /\ Len(recent) <= MaxLoaded
  BY DEF ToolsInv, AgentToolsTypeOK
<1>3. recent' \in Seq(Tools) /\ IsInjective(recent') /\ InMemory' = InMemory /\ Len(recent') <= Len(recent)
  BY <1>1, <1>2, UseKeepsMemory DEF InMemory
<1>4. Len(recent') <= MaxLoaded
  BY <1>2, <1>3, ToolsAssumption
<1>. QED
  BY <1>1, <1>3, <1>4 DEF ToolsInv, AgentToolsTypeOK, Fits

LEMMA KillKeeps == ToolsInv /\ KillWorker => ToolsInv'
<1>. SUFFICES ASSUME ToolsInv, KillWorker PROVE ToolsInv'
  OBVIOUS
<1>1. NoRun \in ToolRunRecords /\ NoRun.turns = {} /\ NoRun.offered = {} /\ NoRun.round = {}
  BY DEF NoRun, ToolRunRecords
<1>2. trun' \in [ToolRuns -> ToolRunRecords] /\ \A r \in ToolRuns : trun'[r] = NoRun
  BY <1>1 DEF KillWorker
<1>3. /\ recent' = <<>> /\ InMemory' = {} /\ Len(recent') = 0 /\ IsInjective(recent') /\ recent' \in Seq(Tools)
      /\ 0 <= MaxLoaded
  BY ToolsAssumption DEF KillWorker, InMemory, ToSet, IsInjective
<1>4. kills' \in Nat /\ kills' # 0 /\ kills' <= MaxKills /\ UNCHANGED <<history, everLoaded>>
  BY ToolsAssumption DEF KillWorker, ToolsInv
<1>. QED
  BY <1>1, <1>2, <1>3, <1>4 DEF ToolsInv, AgentToolsTypeOK, Fits

LEMMA ToolsStep == ToolsInv /\ AgentToolsNext => ToolsInv'
<1>. SUFFICES ASSUME ToolsInv, AgentToolsNext PROVE ToolsInv'
  OBVIOUS
<1>0. /\ NoRun \in ToolRunRecords /\ NoRun.turns = {} /\ NoRun.offered = {} /\ NoRun.round = {}
      /\ history \subseteq everLoaded /\ everLoaded \subseteq Tools
  BY DEF NoRun, ToolRunRecords, ToolsInv, AgentToolsTypeOK
<1>1. ASSUME NEW r \in ToolRuns, StartToolRun(r) PROVE ToolsInv'
  <2>. DEFINE c == [NoRun EXCEPT !.pc = "ask", !.turns = history]
  <2>1. c \in ToolRunRecords /\ c.turns = history /\ c.offered = {} /\ c.round = {}
    BY <1>0 DEF NoRun, ToolRunRecords
  <2>. HIDE DEF c
  <2>2. trun' = [trun EXCEPT ![r] = c] /\ UNCHANGED <<recent, history, everLoaded, kills>>
    BY <1>1 DEF StartToolRun, c
  <2>. QED BY <1>0, <2>1, <2>2, RunKeeps DEF ToolsInv, AgentToolsTypeOK
<1>2. ASSUME NEW r \in ToolRuns, AskModel(r) PROVE ToolsInv'
  <2>1. Offer(trun[r].turns) \subseteq trun[r].turns
    BY DEF Offer
  <2>2. /\ trun' \in [ToolRuns -> ToolRunRecords]
        /\ \A s \in ToolRuns : s # r => trun'[s] = trun[s]
        /\ trun'[r].turns = trun[r].turns /\ trun'[r].offered = Offer(trun[r].turns) /\ trun'[r].round = {}
    BY <1>2, <2>1 DEF AskModel, ToolsInv, ToolRunRecords
  <2>. QED BY <1>2, <2>1, <2>2, RunKeeps DEF AskModel, ToolsInv, AgentToolsTypeOK
<1>3. ASSUME NEW r \in ToolRuns, EndRound(r) PROVE ToolsInv'
  <2>1. CASE trun' = [trun EXCEPT ![r] = NoRun] /\ UNCHANGED history
    BY <1>0, <1>3, <2>1, RunKeeps DEF EndRound, ToolsInv, AgentToolsTypeOK
  <2>2. CASE /\ trun' = [trun EXCEPT ![r].pc = "ask", ![r].turns = @ \union trun[r].round]
             /\ history' = history \union trun[r].round
    <3>1. /\ trun' \in [ToolRuns -> ToolRunRecords]
          /\ \A s \in ToolRuns : s # r => trun'[s] = trun[s]
          /\ trun'[r].turns = trun[r].turns \union trun[r].round
          /\ trun'[r].offered = trun[r].offered /\ trun'[r].round = trun[r].round
      BY <2>2 DEF ToolsInv, ToolRunRecords
    <3>. QED BY <1>0, <1>3, <2>2, <3>1, RunKeeps DEF EndRound, ToolsInv, AgentToolsTypeOK
  <2>. QED BY <1>3, <2>1, <2>2 DEF EndRound
<1>4. ASSUME NEW r \in ToolRuns, RunEnds(r) PROVE ToolsInv'
  BY <1>0, <1>4, RunKeeps DEF RunEnds, ToolsInv, AgentToolsTypeOK
<1>. QED
  BY <1>1, <1>2, <1>3, <1>4, LoadKeeps, CallKeeps, KillKeeps DEF AgentToolsNext

(* A tool that a run offers can be called, for every number of runs, tools and *)
(* places in the memory.                                                       *)
THEOREM OffersHold == AgentToolsSpec => []OfferedCanBeCalled
<1>1. ToolsInv => OfferedCanBeCalled
  BY DEF ToolsInv, OfferedCanBeCalled, AgentToolsTypeOK, Fits
<1>. QED
  BY ToolsInit, ToolsStutter, ToolsStep, <1>1, PTL DEF AgentToolsSpec

-----------------------------------------------------------------------------
(* The actions of the page *)

AgentActionsSpec == AgentActionsInit /\ [][AgentActionsNext]_actionVars
Own(a, S) == \E x \in S : x[1] = a

(* Before an action begins, nothing in the worker or on the page is its own,  *)
(* and so nothing that the page showed when it began ever is.                 *)
NotBegun(a) ==
  /\ tries[a] = 0
  /\ ~ Own(a, threads) /\ ~ Own(a, shown)
  /\ \A y \in Attempts : ~ Own(a, base[y])

ActionsInv ==
  /\ AgentActionsTypeOK
  /\ base \in [Attempts -> SUBSET Attempts] /\ before \in [Actions -> SUBSET Attempts]
  /\ \A a \in Actions : /\ tries[a] = 0 => \A i \in {1, 2} : work[<<a, i>>] = "none"
                        /\ page[a] = "idle" => NotBegun(a)
                        /\ page[a] = "connect" => tries[a] < 2
                        /\ ~ Own(a, before[a])

LEMMA AttemptParts ==
  ASSUME NEW x \in Attempts
  PROVE  x[1] \in Actions /\ x[2] \in {1, 2} /\ x = <<x[1], x[2]>>
BY DEF Attempts

LEMMA ActionsInit == AgentActionsInit => ActionsInv
<1>1. Attempts = Actions \X {1, 2} /\ 0 \in 0..MaxDeaths
  BY ActionsAssumption DEF Attempts
<1>. QED
  BY <1>1, AttemptParts DEF AgentActionsInit, ActionsInv, AgentActionsTypeOK, NotBegun, Own

(* A step that moves an attempt of the worker, and perhaps the page's state of *)
(* its action, which has begun.                                                *)
LEMMA AttemptKeeps ==
  ASSUME ActionsInv, NEW x \in Attempts, work[x] # "none",
         NEW w \in {"calling", "stored", "done"}, work' = [work EXCEPT ![x] = w],
         base' = base \/ base' = [base EXCEPT ![x] = threads],
         threads' = threads \/ threads' = base[x] \union {x},
         shown' = shown \/ shown' = threads',
         stored' = stored \/ stored' = stored \union {x},
         page' = page \/ \E how \in {"resolved", "rejected"} :
                            page[x[1]] = "pending" /\ page' = [page EXCEPT ![x[1]] = how],
         UNCHANGED <<tries, port, before, deaths>>
  PROVE  ActionsInv'
<1>. DEFINE c == x[1]
<1>1. c \in Actions /\ x[2] \in {1, 2} /\ x = <<c, x[2]>>
  BY AttemptParts
<1>2. tries[c] # 0 /\ page[c] # "idle"
  <2>1. tries[c] = 0 => work[<<c, x[2]>>] = "none"
    BY <1>1 DEF ActionsInv
  <2>2. tries[c] # 0
    BY <1>1, <2>1
  <2>. QED BY <1>1, <2>2 DEF ActionsInv, NotBegun
<1>3. \A a \in Actions : page'[a] = "idle" <=> page[a] = "idle"
  BY <1>1, <1>2 DEF ActionsInv, AgentActionsTypeOK
<1>4. AgentActionsTypeOK'
  BY <1>1 DEF ActionsInv, AgentActionsTypeOK
<1>5. (base \in [Attempts -> SUBSET Attempts])' /\ (before \in [Actions -> SUBSET Attempts])'
  BY <1>1 DEF ActionsInv, AgentActionsTypeOK
<1>6. ASSUME NEW a \in Actions PROVE tries'[a] = 0 => \A i \in {1, 2} : work'[<<a, i>>] = "none"
  <2>1. ASSUME tries[a] = 0, NEW i \in {1, 2} PROVE work'[<<a, i>>] = "none"
    <3>1. a # c
      BY <2>1, <1>2
    <3>2. <<a, i>> # x /\ <<a, i>> \in Attempts
      BY <3>1, <1>1 DEF Attempts
    <3>. QED BY <2>1, <3>2 DEF ActionsInv, AgentActionsTypeOK
  <2>. QED BY <2>1
<1>7. ASSUME NEW a \in Actions, page'[a] = "idle" PROVE NotBegun(a)'
  <2>1. NotBegun(a) /\ a # c
    BY <1>2, <1>3, <1>7 DEF ActionsInv
  <2>2. ~ Own(a, base[x] \union {x})
    BY <2>1 DEF NotBegun, Own
  <2>3. ~ Own(a, threads')
    BY <2>1, <2>2 DEF NotBegun
  <2>4. \A y \in Attempts : base'[y] = base[y] \/ base'[y] = threads
    BY DEF ActionsInv
  <2>. QED BY <2>1, <2>3, <2>4 DEF NotBegun
<1>8. \A a \in Actions : page'[a] = "connect" => page[a] = "connect"
  BY <1>1 DEF ActionsInv, AgentActionsTypeOK
<1>. QED BY <1>4, <1>5, <1>6, <1>7, <1>8 DEF ActionsInv

LEMMA ActionsStep ==
  ASSUME ActionsInv, AgentActionsNext
  PROVE  ActionsInv'
<1>1. ASSUME Die PROVE ActionsInv'
  <2>1. AgentActionsTypeOK'
    BY <1>1, ActionsAssumption DEF Die, ActionsInv, AgentActionsTypeOK
  <2>2. ASSUME NEW a \in Actions, tries'[a] = 0, NEW i \in {1, 2} PROVE work'[<<a, i>>] = "none"
    BY <1>1, <2>2 DEF Die, ActionsInv, Attempts
  <2>3. ASSUME NEW a \in Actions, page'[a] = "idle" PROVE NotBegun(a)'
    BY <1>1, <2>3 DEF Die, ActionsInv, NotBegun, Own
  <2>. QED BY <1>1, <2>1, <2>2, <2>3 DEF Die, ActionsInv
<1>2. ASSUME NEW a \in Actions, Ask(a) PROVE ActionsInv'
  <2>1. AgentActionsTypeOK' /\ before' \in [Actions -> SUBSET Attempts]
    BY <1>2 DEF Ask, ActionsInv, AgentActionsTypeOK
  <2>2. ~ Own(a, before'[a]) /\ page'[a] # "idle"
    BY <1>2 DEF Ask, ActionsInv, NotBegun, AgentActionsTypeOK
  <2>3. \A b \in Actions : b # a => page'[b] = page[b] /\ before'[b] = before[b]
    BY <1>2 DEF Ask, ActionsInv, AgentActionsTypeOK
  <2>4. ASSUME NEW b \in Actions, page'[b] = "idle" PROVE NotBegun(b)'
    <3>1. b # a /\ NotBegun(b)
      BY <2>2, <2>3, <2>4 DEF ActionsInv
    <3>. QED BY <1>2, <3>1 DEF Ask, NotBegun
  <2>5. tries[a] = 0
    BY <1>2 DEF Ask, ActionsInv, NotBegun
  <2>6. ASSUME NEW b \in Actions, page'[b] = "connect" PROVE tries[b] < 2
    <3>1. CASE b = a
      BY <2>5, <3>1
    <3>2. CASE b # a
      <4>. page[b] = "connect"
        BY <2>3, <2>6, <3>2
      <4>. QED BY DEF ActionsInv
    <3>. QED BY <3>1, <3>2
  <2>7. UNCHANGED <<tries, work, base>>
    BY <1>2 DEF Ask
  <2>8. \A b \in Actions : ~ Own(b, before'[b])
    BY <2>2, <2>3 DEF ActionsInv
  <2>. QED BY <2>1, <2>4, <2>6, <2>7, <2>8 DEF ActionsInv
<1>3. ASSUME NEW a \in Actions, Post(a) PROVE ActionsInv'
  <2>1. tries[a] \in 0..1
    <3>1. tries[a] \in 0..2 /\ tries[a] < 2
      BY <1>3 DEF Post, ActionsInv, AgentActionsTypeOK
    <3>. QED BY <3>1
  <2>2. AgentActionsTypeOK'
    BY <1>3, <2>1 DEF Post, ActionsInv, AgentActionsTypeOK, Attempts
  <2>3. tries'[a] > 0 /\ page'[a] = "pending"
    BY <1>3, <2>1 DEF Post, ActionsInv, AgentActionsTypeOK
  <2>4. \A b \in Actions : b # a => page'[b] = page[b] /\ tries'[b] = tries[b]
    BY <1>3 DEF Post, ActionsInv, AgentActionsTypeOK
  <2>5. ASSUME NEW b \in Actions, tries'[b] = 0, NEW i \in {1, 2} PROVE work'[<<b, i>>] = "none"
    <3>1. b # a
      BY <2>1, <2>3, <2>5
    <3>2. tries[b] = 0 /\ work[<<b, i>>] = "none"
      BY <3>1, <2>3, <2>4, <2>5 DEF ActionsInv
    <3>3. <<b, i>> # <<a, tries[a] + 1>> /\ <<b, i>> \in Attempts
      BY <3>1 DEF Attempts
    <3>. QED BY <1>3, <3>2, <3>3 DEF Post, ActionsInv, AgentActionsTypeOK
  <2>6. ASSUME NEW b \in Actions, page'[b] = "idle" PROVE NotBegun(b)'
    <3>1. b # a /\ NotBegun(b)
      BY <2>3, <2>4, <2>6 DEF ActionsInv
    <3>. QED BY <1>3, <2>4, <3>1 DEF Post, NotBegun
  <2>. QED BY <1>3, <2>2, <2>3, <2>4, <2>5, <2>6 DEF Post, ActionsInv
<1>4. ASSUME NEW a \in Actions, Timeout(a) PROVE ActionsInv'
  <2>1. AgentActionsTypeOK'
    BY <1>4 DEF Timeout, ActionsInv, AgentActionsTypeOK
  <2>2. /\ page'[a] \in {"connect", "rejected"} /\ (page'[a] = "connect" => tries[a] = 1)
        /\ \A b \in Actions : b # a => page'[b] = page[b]
    BY <1>4 DEF Timeout, ActionsInv, AgentActionsTypeOK
  <2>3. ASSUME NEW b \in Actions, page'[b] = "idle" PROVE NotBegun(b)'
    <3>1. b # a /\ NotBegun(b)
      BY <2>2, <2>3 DEF ActionsInv
    <3>. QED BY <1>4, <3>1 DEF Timeout, NotBegun
  <2>. QED BY <1>4, <2>1, <2>2, <2>3 DEF Timeout, ActionsInv
<1>5. ASSUME NEW x \in Attempts, Handle(x) PROVE ActionsInv'
  BY <1>5, AttemptKeeps DEF Handle
<1>6. ASSUME NEW x \in Attempts, BackendStores(x) PROVE ActionsInv'
  BY <1>6, AttemptKeeps DEF BackendStores
<1>7. ASSUME NEW x \in Attempts, Respond(x) PROVE ActionsInv'
  BY <1>7, AttemptKeeps DEF Respond, Settles
<1>8. ASSUME NEW x \in Attempts, RespondError(x) PROVE ActionsInv'
  BY <1>8, AttemptKeeps DEF RespondError, Settles
<1>. QED BY <1>1, <1>2, <1>3, <1>4, <1>5, <1>6, <1>7, <1>8 DEF AgentActionsNext

LEMMA ActionsStutter == ActionsInv /\ UNCHANGED actionVars => ActionsInv'
BY DEF actionVars, ActionsInv, AgentActionsTypeOK, NotBegun

(* The page holds the thread of its own attempt when its action is resolved.  *)
THEOREM CreatedThreadIsFound == AgentActionsSpec => CreateFindsThread
<1>1. AgentActionsSpec => []ActionsInv
  BY ActionsInit, ActionsStep, ActionsStutter, PTL DEF AgentActionsSpec
<1>2. ASSUME ActionsInv, [AgentActionsNext]_actionVars
      PROVE  [\A a \in Actions : (page[a] # "resolved" /\ page'[a] = "resolved") =>
                 \E x \in shown' \ before[a] : x[1] = a]_actionVars
  <2>. SUFFICES ASSUME AgentActionsNext, NEW a \in Actions,
                       page[a] # "resolved", page'[a] = "resolved"
                PROVE  \E x \in shown' \ before[a] : x[1] = a
    BY <1>2
  <2>0. page \in [Actions -> {"idle", "connect", "pending", "resolved", "rejected"}]
    BY <1>2 DEF ActionsInv, AgentActionsTypeOK
  <2>1. PICK x \in Attempts : Respond(x)
    <3>1. ~ Die
      BY DEF Die
    <3>2. \A b \in Actions : ~ Ask(b) /\ ~ Post(b) /\ ~ Timeout(b)
      BY <2>0 DEF Ask, Post, Timeout
    <3>3. \A x \in Attempts : ~ Handle(x) /\ ~ BackendStores(x)
      BY DEF Handle, BackendStores
    <3>4. \A x \in Attempts : ~ RespondError(x)
      BY <2>0, AttemptParts DEF RespondError, Settles
    <3>. QED BY <3>1, <3>2, <3>3, <3>4 DEF AgentActionsNext
  <2>2. x[1] = a /\ Hears
    BY <2>0, <2>1, AttemptParts DEF Respond, Settles
  <2>3. x \in shown' /\ x \notin before[a]
    BY <1>2, <2>1, <2>2 DEF Respond, ActionsInv, Own
  <2>. QED BY <2>2, <2>3
<1>. QED BY <1>1, <1>2, PTL DEF AgentActionsSpec, CreateFindsThread

-----------------------------------------------------------------------------
(* The login to an MCP server *)

LoginRecords == [server : McpServers \union {NoLogin}, by : {"button", "discovery"},
                 stage : {"idle", "waits", "done", "failed"}, win : Nat]
PopupStates == [login : Logins \union {NoLogin}, number : Nat,
                at : {"closed", "closing", "consent", "stuck", "arrived", "callback"}]

(* The window shows a login that has begun, and a code that was granted is spent. *)
LoginInv ==
  /\ mlogin \in [Logins -> LoginRecords] /\ popup \in PopupStates
  /\ effects \in [EffectRuns -> {"none", "posts", "polls", "refused", "granted", "over"}]
  /\ mtoken \in [McpServers -> Logins \union {NoLogin}]
  /\ mail \in Seq(BOOLEAN)
  /\ popup.login \in Logins => /\ ServerOf(popup.login) \in McpServers
                               /\ mlogin[popup.login].stage # "idle"
  /\ effects[1] = "granted" => popup.login \in spent

LEMMA LoginInit == McpLoginInit => LoginInv
BY McpLoginAssumption DEF McpLoginInit, LoginInv, LoginRecords, PopupStates, Unused, Shut, NoRuns, EffectRuns

LEMMA LoginStutters == LoginInv /\ UNCHANGED loginVars => LoginInv'
BY DEF loginVars, LoginInv, ServerOf

LEMMA OpensKeeps ==
  ASSUME LoginInv, NEW l \in Logins, NEW s \in McpServers, NEW by \in {"button", "discovery"},
         Opens(l, s, by), mail' = mail, spent' = spent,
         mtoken' \in [McpServers -> Logins \union {NoLogin}]
  PROVE  LoginInv'
BY DEF Opens, LoginInv, LoginRecords, PopupStates, ServerOf, Gone, NoRuns, EffectRuns

(* What a run of the effect does as it ends. *)
LEMMA TellKeeps ==
  ASSUME LoginInv, NEW r \in EffectRuns, NEW done \in BOOLEAN, Tell(r, done), mlogin' = mlogin,
         spent' = spent, mtoken' \in [McpServers -> Logins \union {NoLogin}]
  PROVE  /\ LoginInv'
         /\ \A n \in 1..Len(mail') : n > Len(mail) => mail'[n] = done
<1>1. mail' = mail \/ mail' = Append(mail, done)
  BY DEF Tell
<1>2. popup' \in PopupStates /\ popup'.login = popup.login
  BY DEF Tell, LoginInv, PopupStates
<1>3. /\ effects' \in [EffectRuns -> {"none", "posts", "polls", "refused", "granted", "over"}]
      /\ effects'[1] = "granted" => effects[1] = "granted"
  BY DEF Tell, LoginInv, EffectRuns
<1>4. mail \in Seq(BOOLEAN) /\ mail' \in Seq(BOOLEAN)
  <2>1. mail \in Seq(BOOLEAN)
    BY Zenon DEF LoginInv
  <2>2. Append(mail, done) \in Seq(BOOLEAN)
    BY <2>1, AppendProperties, Zenon
  <2>. QED BY <1>1, <2>1, <2>2, Zenon
<1>5. \A n \in 1..Len(mail') : n > Len(mail) => mail'[n] = done
  BY <1>1, <1>4
<1>. QED BY <1>2, <1>3, <1>4, <1>5 DEF LoginInv, ServerOf

(* Logins are told how they end, and nothing else of them changes. *)
StageMoves(l) ==
  /\ mlogin'[l] \in LoginRecords /\ mlogin'[l].server = mlogin[l].server
  /\ mlogin[l].stage # "idle" => mlogin'[l].stage # "idle"

LEMMA StageMoved ==
  ASSUME LoginInv, NEW l \in Logins, NEW how \in {"done", "failed"},
         mlogin'[l] = mlogin[l] \/ mlogin'[l] = [mlogin[l] EXCEPT !.stage = how]
  PROVE  StageMoves(l)
<1>1. mlogin[l] \in LoginRecords
  BY DEF LoginInv
<1>. QED BY <1>1 DEF StageMoves, LoginRecords

LEMMA StagesKeep ==
  ASSUME LoginInv, mlogin' = [l \in Logins |-> mlogin'[l]], \A l \in Logins : StageMoves(l),
         mail' \in Seq(BOOLEAN), UNCHANGED <<popup, effects, spent, mtoken>>
  PROVE  LoginInv'
<1>1. mlogin' \in [Logins -> LoginRecords]
  BY DEF StageMoves
<1>. QED BY <1>1 DEF LoginInv, StageMoves, ServerOf

LEMMA LoginStep ==
  ASSUME LoginInv, McpLoginNext
  PROVE  LoginInv'
<1>1. ASSUME NEW l \in Logins, NEW s \in McpServers, LogIn(l, s) PROVE LoginInv'
  BY <1>1, OpensKeeps DEF LogIn, LoginInv
<1>2. ASSUME NEW l \in Logins, NEW s \in McpServers, Blocks(l, s) PROVE LoginInv'
  BY <1>2 DEF Blocks, Fresh, LoginRecords, Unused, LoginInv, ServerOf
<1>3. ASSUME NEW l \in Logins, NEW s \in McpServers, DiscoveryAsks(l, s) PROVE LoginInv'
  BY <1>3, OpensKeeps DEF DiscoveryAsks, LoginInv
<1>4. ASSUME NEW s \in McpServers, TokenDropped(s) \/ LogOut(s) PROVE LoginInv'
  BY <1>4 DEF TokenDropped, LogOut, LoginInv, ServerOf
<1>5. ASSUME Delivered PROVE LoginInv'
  <2>1. /\ mlogin' = [l \in Logins |->
                IF mlogin[l].stage = "waits"
                THEN [mlogin[l] EXCEPT !.stage = IF Head(mail) THEN "done" ELSE "failed"]
                ELSE mlogin[l]]
        /\ mail # <<>> /\ mail' = Tail(mail)
        /\ UNCHANGED <<popup, effects, spent, mtoken>>
    BY <1>5 DEF Delivered
  <2>2. mail' \in Seq(BOOLEAN)
    <3>1. mail \in Seq(BOOLEAN)
      BY Zenon DEF LoginInv
    <3>. QED BY <2>1, <3>1, HeadTailProperties, Zenon
  <2>3. \A l \in Logins : \/ mlogin'[l] = mlogin[l]
                         \/ mlogin'[l] = [mlogin[l] EXCEPT !.stage = "done"]
                         \/ mlogin'[l] = [mlogin[l] EXCEPT !.stage = "failed"]
    BY <2>1, Zenon
  <2>4. \A l \in Logins : StageMoves(l)
    BY <2>3, StageMoved
  <2>5. mlogin' = [l \in Logins |-> mlogin'[l]]
    BY <2>1, Zenon
  <2>. QED BY <2>1, <2>2, <2>4, <2>5, StagesKeep
<1>6. ASSUME Closes \/ Reload PROVE LoginInv'
  BY <1>6 DEF Closes, Reload, LoginInv, PopupStates, ServerOf, NoRuns, EffectRuns
<1>7. ASSUME NEW l \in Logins, Cancelled(l) \/ Consents(l) PROVE LoginInv'
  <2>1. CASE Cancelled(l)
    <3>1. \A k \in Logins : mlogin'[k] = mlogin[k] \/ mlogin'[k] = [mlogin[k] EXCEPT !.stage = "failed"]
      BY <2>1 DEF Cancelled, LoginInv
    <3>2. \A k \in Logins : StageMoves(k)
      BY <3>1, StageMoved
    <3>3. mlogin' = [k \in Logins |-> mlogin'[k]]
      BY <2>1 DEF Cancelled, LoginInv
    <3>. QED BY <2>1, <3>2, <3>3, StagesKeep DEF Cancelled, LoginInv
  <2>2. CASE Consents(l)
    <3>1. PICK at \in {"arrived", "stuck"} : popup' = [popup EXCEPT !.at = at]
      BY <2>2 DEF Consents
    <3>2. popup' \in PopupStates /\ popup'.login = popup.login
      BY <3>1 DEF LoginInv, PopupStates
    <3>. QED BY <2>2, <3>2 DEF Consents, LoginInv, ServerOf
  <2>. QED BY <1>7, <2>1, <2>2
<1>8. ASSUME NEW l \in Logins, Mounted(l) PROVE LoginInv'
  <2>1. CASE l \notin pendingOf
    BY <1>8, <2>1, TellKeeps DEF Mounted, LoginInv, EffectRuns
  <2>2. CASE l \in pendingOf
    <3>1. PICK second \in {"none", "polls"} :
            effects' = [r \in EffectRuns |-> IF r = 1 THEN "posts" ELSE second]
      BY <1>8, <2>2 DEF Mounted
    <3>2. /\ effects' \in [EffectRuns -> {"none", "posts", "polls", "refused", "granted", "over"}]
          /\ effects'[1] = "posts"
      BY <3>1 DEF EffectRuns
    <3>3. popup' \in PopupStates /\ popup'.login = popup.login
      BY <1>8, <2>2 DEF Mounted, LoginInv, PopupStates
    <3>. QED BY <1>8, <2>2, <3>2, <3>3 DEF Mounted, LoginInv, ServerOf
  <2>. QED BY <2>1, <2>2
<1>9. ASSUME NEW l \in Logins, Redeems(l) PROVE LoginInv'
  BY <1>9 DEF Redeems, LoginInv, ServerOf, EffectRuns
<1>10. ASSUME NEW l \in Logins, Saves(l) PROVE LoginInv'
  BY <1>10, TellKeeps DEF Saves, LoginInv, EffectRuns
<1>11. ASSUME NEW l \in Logins, SettlesFor(l) \/ GivesUp(l) PROVE LoginInv'
  BY <1>11, TellKeeps DEF SettlesFor, GivesUp, LoginInv
<1>. QED
  BY <1>1, <1>2, <1>3, <1>4, <1>5, <1>6, <1>7, <1>8, <1>9, <1>10, <1>11 DEF McpLoginNext

(* Only logins are pending or redeemed. *)
LoginSets ==
  /\ pendingOf \subseteq Logins /\ spent \subseteq Logins
  /\ loggedIn \in [McpServers -> BOOLEAN]

LEMMA LoginSetsStep ==
  ASSUME LoginSets, McpLoginNext
  PROVE  LoginSets'
<1>1. ASSUME NEW l \in Logins, NEW s \in McpServers, LogIn(l, s) \/ Blocks(l, s) \/ DiscoveryAsks(l, s)
      PROVE  LoginSets'
  BY <1>1 DEF LogIn, Blocks, DiscoveryAsks, Opens, LoginSets
<1>2. ASSUME NEW s \in McpServers, TokenDropped(s) \/ LogOut(s) PROVE LoginSets'
  BY <1>2 DEF TokenDropped, LogOut, LoginSets
<1>3. ASSUME Delivered PROVE LoginSets'
  <2>. DEFINE told == {l \in Logins : mlogin[l].stage = "waits"}
              by(how, s) == \E l \in told : mlogin[l].by = how /\ ServerOf(l) = s
  <2>1. /\ loggedIn' = [s \in McpServers |->
              CASE Head(mail) /\ by("discovery", s) -> TRUE
                [] Head(mail) /\ by("button", s) -> mtoken[s] # NoLogin
                [] OTHER -> loggedIn[s]]
        /\ UNCHANGED <<pendingOf, spent>>
    BY <1>3, Zenon DEF Delivered
  <2>. HIDE DEF told, by
  <2>. QED BY <2>1 DEF LoginSets
<1>4. ASSUME \/ Closes \/ Reload
             \/ \E l \in Logins : Cancelled(l) \/ Consents(l) \/ Mounted(l) \/ GivesUp(l)
      PROVE  LoginSets'
  BY <1>4 DEF Closes, Reload, Cancelled, Consents, Mounted, GivesUp, LoginSets
<1>5. ASSUME NEW l \in Logins, Redeems(l) \/ Saves(l) \/ SettlesFor(l) PROVE LoginSets'
  BY <1>5 DEF Redeems, Saves, SettlesFor, LoginSets
<1>. QED BY <1>1, <1>2, <1>3, <1>4, <1>5 DEF McpLoginNext

LEMMA LoginTypes == LoginInv /\ LoginSets => McpLoginTypeOK
BY DEF LoginInv, LoginSets, LoginRecords, PopupStates, McpLoginTypeOK

(* What DoneHasToken says of a step *)
ToldWithToken ==
  /\ \A n \in 1..Len(mail') :
       n > Len(mail) /\ mail'[n] => mtoken'[ServerOf(popup.login)] # NoLogin
  /\ \A s \in McpServers :
       mtoken'[s] \notin {mtoken[s], NoLogin} =>
         mtoken'[s] \in spent /\ mlogin[mtoken'[s]].server = s

(* A login is told to be done only with a token of its server, and a token is  *)
(* one that a code of that server's endpoint was redeemed for: for every       *)
(* number of logins, servers and reloads.                                      *)
THEOREM DoneLoginsHaveTokens == McpLoginSpec => DoneHasToken
<1>1. McpLoginSpec => []LoginInv
  BY LoginInit, LoginStep, LoginStutters, PTL DEF McpLoginSpec
<1>2. ASSUME LoginInv, [McpLoginNext]_loginVars PROVE [ToldWithToken]_loginVars
  <2>. SUFFICES ASSUME McpLoginNext PROVE ToldWithToken
    BY <1>2
  <2>. DEFINE NothingNew == \A n \in 1..Len(mail') : ~ (n > Len(mail))
              NoToken == \A s \in McpServers : mtoken'[s] \in {mtoken[s], NoLogin}
  <2>0. mail \in Seq(BOOLEAN)
    BY <1>2, Zenon DEF LoginInv
  <2>1. Len(mail) \in Nat /\ (mail' = mail => NothingNew)
    <3>1. Len(mail) \in Nat
      BY <2>0, LenProperties, Zenon
    <3>. QED BY <3>1
  <2>2. ASSUME NEW l \in Logins, NEW s \in McpServers, LogIn(l, s) \/ Blocks(l, s) \/ DiscoveryAsks(l, s)
        PROVE  NothingNew /\ NoToken
    <3>1. mail' = mail
      BY <2>2 DEF LogIn, Blocks, DiscoveryAsks
    <3>2. NoToken
      BY <1>2, <2>2 DEF LogIn, Blocks, DiscoveryAsks, LoginInv
    <3>. QED BY <2>1, <3>1, <3>2
  <2>3. ASSUME NEW s \in McpServers, TokenDropped(s) \/ LogOut(s) PROVE NothingNew /\ NoToken
    <3>1. mail' = mail
      BY <2>3 DEF TokenDropped, LogOut
    <3>2. NoToken
      BY <1>2, <2>3 DEF TokenDropped, LogOut, LoginInv
    <3>. QED BY <2>1, <3>1, <3>2
  <2>4. ASSUME Delivered PROVE NothingNew /\ NoToken
    <3>1. mail # <<>> /\ mail' = Tail(mail) /\ mtoken' = mtoken
      BY <2>4 DEF Delivered
    <3>2. Len(mail') = Len(mail) - 1
      BY <2>0, <3>1, HeadTailProperties, Zenon
    <3>3. NothingNew
      BY <2>1, <3>2
    <3>. QED BY <3>1, <3>3
  <2>5. ASSUME \/ Closes \/ Reload
               \/ \E l \in Logins : Cancelled(l) \/ Consents(l) \/ Redeems(l)
        PROVE  NothingNew /\ NoToken
    <3>1. mail' = mail /\ mtoken' = mtoken
      BY <2>5 DEF Closes, Reload, Cancelled, Consents, Redeems
    <3>. QED BY <2>1, <3>1
  <2>6. ASSUME NEW r \in EffectRuns, Tell(r, FALSE), mlogin' = mlogin, spent' = spent, mtoken' = mtoken
        PROVE  /\ \A n \in 1..Len(mail') : n > Len(mail) => ~ mail'[n]
               /\ NoToken
    <3>1. \A n \in 1..Len(mail') : n > Len(mail) => mail'[n] = FALSE
      BY <1>2, <2>6, TellKeeps DEF LoginInv
    <3>. QED BY <2>6, <3>1
  <2>7. ASSUME NEW l \in Logins, Mounted(l)
        PROVE  /\ \A n \in 1..Len(mail') : n > Len(mail) => ~ mail'[n]
               /\ NoToken
    <3>1. mlogin' = mlogin /\ spent' = spent /\ mtoken' = mtoken /\ (Tell(1, FALSE) \/ mail' = mail)
      BY <2>7 DEF Mounted
    <3>. QED BY <2>1, <2>6, <3>1 DEF EffectRuns
  <2>8. ASSUME NEW l \in Logins, GivesUp(l)
        PROVE  /\ \A n \in 1..Len(mail') : n > Len(mail) => ~ mail'[n]
               /\ NoToken
    BY <2>6, <2>8 DEF GivesUp
  <2>9. ASSUME NEW l \in Logins, SettlesFor(l)
        PROVE  NoToken /\ mtoken'[ServerOf(popup.login)] # NoLogin
    BY <2>9 DEF SettlesFor, TokenOf
  <2>10. ASSUME NEW l \in Logins, Saves(l)
         PROVE  /\ mtoken'[ServerOf(popup.login)] # NoLogin
                /\ \A s \in McpServers : mtoken'[s] \notin {mtoken[s], NoLogin} =>
                      mtoken'[s] \in spent /\ mlogin[mtoken'[s]].server = s
    <3>1. /\ popup.login = l /\ effects[1] = "granted" /\ l # NoLogin
          /\ mtoken' = [mtoken EXCEPT ![ServerOf(l)] = l]
      BY <2>10, McpLoginAssumption DEF Saves
    <3>2. l \in spent /\ ServerOf(l) \in McpServers /\ mtoken \in [McpServers -> Logins \union {NoLogin}]
      BY <1>2, <3>1 DEF LoginInv
    <3>. QED BY <3>1, <3>2 DEF ServerOf
  <2>. HIDE DEF NothingNew, NoToken
  <2>11. NothingNew /\ NoToken => ToldWithToken
    BY Zenon DEF NothingNew, NoToken, ToldWithToken
  <2>12. (\A n \in 1..Len(mail') : n > Len(mail) => ~ mail'[n]) /\ NoToken => ToldWithToken
    BY Zenon DEF NoToken, ToldWithToken
  <2>13. mtoken'[ServerOf(popup.login)] # NoLogin /\ NoToken => ToldWithToken
    BY Zenon DEF NoToken, ToldWithToken
  <2>14. ASSUME NEW l \in Logins, Saves(l) PROVE ToldWithToken
    BY <2>10, <2>14, Zenon DEF ToldWithToken
  <2>15. CASE \E l \in Logins, s \in McpServers : LogIn(l, s) \/ Blocks(l, s) \/ DiscoveryAsks(l, s)
    BY <2>2, <2>11, <2>15, Zenon
  <2>16. CASE \E s \in McpServers : TokenDropped(s) \/ LogOut(s)
    BY <2>3, <2>11, <2>16, Zenon
  <2>17. CASE Delivered
    BY <2>4, <2>11, <2>17, Zenon
  <2>18. CASE Closes \/ Reload
    BY <2>5, <2>11, <2>18, Zenon
  <2>19. CASE \E l \in Logins : Cancelled(l) \/ Consents(l) \/ Redeems(l)
    BY <2>5, <2>11, <2>19, Zenon
  <2>20. CASE \E l \in Logins : Mounted(l) \/ GivesUp(l)
    BY <2>7, <2>8, <2>12, <2>20, Zenon
  <2>21. CASE \E l \in Logins : SettlesFor(l) \/ Saves(l)
    BY <2>9, <2>13, <2>14, <2>21, Zenon
  <2>. QED
    BY <2>15, <2>16, <2>17, <2>18, <2>19, <2>20, <2>21, Zenon DEF McpLoginNext
<1>. QED BY <1>1, <1>2, PTL DEF McpLoginSpec, DoneHasToken, ToldWithToken
=============================================================================
