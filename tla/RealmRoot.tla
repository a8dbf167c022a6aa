----------------------------- MODULE RealmRoot -----------------------------
(***************************************************************************)
(* How a realm comes to its root record (dynamo-branch-store.ts): the      *)
(* REALM row that names a root branch, the branch rows without a parent,   *)
(* which older data has alone, the index they are found by, and the root   *)
(* key.  Requests ensure the root, look the record up, read its key and    *)
(* set a new one; any of them may end between two steps.  A key is read    *)
(* without ConsistentRead: until the table's copies have settled the read  *)
(* may give a value the key had before.  Listing a root that gc took the   *)
(* node of repairs it with the empty root (files.ts).                      *)
(***************************************************************************)
CONSTANTS
  RealmCalls,  \* requests, each also the id of the branch it would create
  OldRoot,     \* the root branch of a realm from before the REALM row
  NoBranch,    \* no branch
  NoKey, EmptyKey, Content, LostContent,  \* root keys: none, the empty dict, a
               \* dict with files, one whose node is not in storage any more
  Unensured,   \* requests that look the root up before they ensure it: upload, list
  Cold         \* whether such a request may be the first of a new realm

RootIds == RealmCalls \union {OldRoot}

Keys == {NoKey, EmptyKey, Content, LostContent}

ASSUME RealmAssumption ==
  /\ OldRoot \notin RealmCalls /\ NoBranch \notin RootIds /\ Unensured \subseteq RealmCalls
  /\ Cold \in BOOLEAN
  /\ NoKey # EmptyKey /\ NoKey # Content /\ EmptyKey # Content

VARIABLES
  realmRow,  \* the REALM row: the root branch of the realm
  rows,      \* root branches that have a row
  index,     \* those that the index shows
  key,       \* the root key of each
  older,     \* the earlier values of each that a copy of the table may still hold
  rcall      \* per request: where it is, the branch it has found, where it goes next,
             \* and whether the realm had settled content when it began to ensure

realmVars == <<realmRow, rows, index, key, older, rcall>>

CallIdle == [pc |-> "new", branch |-> NoBranch, next |-> "done", full |-> FALSE]

(* A realm is new, old with the branch row alone, or has its row; its key is    *)
(* from long ago.                                                              *)
RealmInit ==
  /\ rows \in {{}, {OldRoot}} /\ index = rows
  /\ realmRow \in {NoBranch} \union rows
  /\ key \in [RootIds -> {NoKey, Content, LostContent}]
  /\ \A b \in RootIds \ rows : key[b] = NoKey
  /\ older = [b \in RootIds |-> {}]
  /\ rcall = [q \in RealmCalls |-> CallIdle]

RealmAt(q, pc) == rcall[q].pc = pc

Goto(q, pc) == rcall' = [rcall EXCEPT ![q].pc = pc]

Found(q, pc, b) == rcall' = [rcall EXCEPT ![q].pc = pc, ![q].branch = b]

Tables == <<realmRow, rows, index, key, older>>

(* What a read of the key of b may give *)
Readings(b) == {key[b]} \union older[b]

SetKey(b, k) ==
  /\ key' = [key EXCEPT ![b] = k]
  /\ older' = [older EXCEPT ![b] = Readings(b)]

HasContent == realmRow # NoBranch /\ key[realmRow] = Content

(* The realm has content, and no read of its key misses that it has one. *)
HasSettled == HasContent /\ NoKey \notin Readings(realmRow)

StartCall(q) ==
  /\ RealmAt(q, "new")
  /\ q \in Unensured => Cold \/ OldRoot \in rows \/ realmRow # NoBranch
  /\ rcall' = [rcall EXCEPT ![q].pc = IF q \in Unensured THEN "lookup" ELSE "ensure",
                            ![q].next = IF q \in Unensured THEN "read" ELSE "done",
                            ![q].full = HasSettled]
  /\ UNCHANGED Tables

-----------------------------------------------------------------------------
(* ensureRealmRoot *)

(* The query of the REALM row is not consistent: it may miss the row. *)
QueryRow(q) ==
  /\ RealmAt(q, "ensure")
  /\ \E row \in {realmRow, NoBranch} :
       IF row # NoBranch THEN Found(q, "check", row) ELSE Goto(q, "old")
  /\ UNCHANGED Tables

(* The row's branch gets the empty root if it has none.  A plausible bug is to *)
(* give it one in any case, as the path that claims the row does.              *)
CheckNothing(q) ==
  /\ RealmAt(q, "check")
  /\ Goto(q, "reset")
  /\ UNCHANGED Tables

CheckRoot(q) ==
  /\ RealmAt(q, "check")
  /\ \E k \in Readings(rcall[q].branch) : Goto(q, IF k # NoKey THEN "lookup" ELSE "reset")
  /\ UNCHANGED Tables

(* A root branch of older data, or of another request, which the index shows *)
QueryOldRoot(q) ==
  /\ RealmAt(q, "old")
  /\ \/ \E b \in index : \E k \in Readings(b) : Found(q, IF k # NoKey THEN "adopt" ELSE "claim", b)
     \/ index = {} /\ Found(q, "insert", q)
  /\ UNCHANGED Tables

InsertRoot(q) ==
  /\ RealmAt(q, "insert")
  /\ rows' = rows \union {q}
  /\ Goto(q, "claim")
  /\ UNCHANGED <<realmRow, index, key, older>>

(* The REALM row is put if there is none; who comes second goes on without it.  *)
Claim(q) ==
  /\ RealmAt(q, "claim") \/ RealmAt(q, "adopt")
  /\ IF realmRow = NoBranch
     THEN /\ realmRow' = rcall[q].branch
          /\ Goto(q, IF RealmAt(q, "adopt") THEN "lookup" ELSE "reset")
     ELSE Goto(q, "lookup") /\ UNCHANGED realmRow
  /\ UNCHANGED <<rows, index, key, older>>

ResetRoot(q) ==
  /\ RealmAt(q, "reset")
  /\ SetKey(rcall[q].branch, EmptyKey)
  /\ Goto(q, "lookup")
  /\ UNCHANGED <<realmRow, rows, index>>

(* The index catches up with the rows, the copies of the table with its keys. *)
IndexRow(b) ==
  /\ b \in rows \ index
  /\ index' = index \union {b}
  /\ UNCHANGED <<realmRow, rows, key, older, rcall>>

KeySettles(b) ==
  /\ older[b] # {}
  /\ older' = [older EXCEPT ![b] = {}]
  /\ UNCHANGED <<realmRow, rows, index, key, rcall>>

-----------------------------------------------------------------------------
(* getRealmRootRecord, for reading the root and again for setting it *)

LookUp(q) ==
  /\ RealmAt(q, "lookup")
  /\ LET next == IF rcall[q].next = "commit" THEN "commit"
                 ELSE IF rcall[q].next = "repair" THEN "repair" ELSE "read"
     IN  \/ realmRow # NoBranch /\ Found(q, next, realmRow)
         \/ /\ realmRow = NoBranch
            /\ \/ \E b \in index : Found(q, "relink", b)
               \/ index = {} /\ Goto(q, IF rcall[q].next = "read" THEN "missing" ELSE "failed")
  /\ UNCHANGED Tables

(* The row is put over whatever is there by now. *)
Relink(q) ==
  /\ RealmAt(q, "relink")
  /\ realmRow' = rcall[q].branch
  /\ Goto(q, "lookup")
  /\ UNCHANGED <<rows, index, key, older>>

(* ensureRootForUserOrDelegate: an upload that has found no root ensures it. *)
EnsureMissing(q) ==
  /\ RealmAt(q, "missing")
  /\ rcall' = [rcall EXCEPT ![q].pc = "ensure", ![q].next = "done",
                            ![q].full = HasSettled]
  /\ UNCHANGED Tables

ReadRealmRoot(q) ==
  /\ RealmAt(q, "read")
  /\ \E k \in Readings(rcall[q].branch) :
       LET lost == k = LostContent
       IN  rcall' = [rcall EXCEPT
           ![q].pc = CASE k = NoKey -> IF rcall[q].next = "read" THEN "missing" ELSE "failed"
                       [] lost /\ q \notin Unensured -> "failed"
                       [] OTHER -> "lookup",
           ![q].next = CASE k = NoKey -> @ [] lost -> "repair" [] OTHER -> "commit"]
  /\ UNCHANGED Tables

(* A write ends: the root has content. *)
CommitRoot(q) ==
  /\ RealmAt(q, "commit")
  /\ SetKey(rcall[q].branch, Content)
  /\ Goto(q, "done")
  /\ UNCHANGED <<realmRow, rows, index>>

(* list of a root that has no node *)
RepairRoot(q) ==
  /\ RealmAt(q, "repair")
  /\ SetKey(rcall[q].branch, EmptyKey)
  /\ Goto(q, "done")
  /\ UNCHANGED <<realmRow, rows, index>>

(* A request fails between two steps. *)
RealmCallFails(q) ==
  /\ rcall[q].pc \notin {"new", "done", "failed"}
  /\ Goto(q, "failed")
  /\ UNCHANGED Tables

RealmStep(q) ==
  \/ QueryRow(q) \/ CheckRoot(q) \/ QueryOldRoot(q)
  \/ InsertRoot(q) \/ Claim(q) \/ ResetRoot(q)
  \/ LookUp(q) \/ Relink(q) \/ EnsureMissing(q)
  \/ ReadRealmRoot(q) \/ CommitRoot(q) \/ RepairRoot(q)

RealmNext ==
  \/ \E q \in RealmCalls : StartCall(q) \/ RealmStep(q) \/ RealmCallFails(q)
  \/ \E b \in RootIds : IndexRow(b) \/ KeySettles(b)

RealmSpec == RealmInit /\ [][RealmNext]_realmVars

-----------------------------------------------------------------------------
RealmTypeOK ==
  /\ realmRow \in RootIds \union {NoBranch}
  /\ index \subseteq rows /\ rows \subseteq RootIds
  /\ key \in [RootIds -> Keys] /\ older \in [RootIds -> SUBSET Keys]
  /\ \A q \in RealmCalls : rcall[q].branch \in RootIds \union {NoBranch}

(* A realm never changes its root record, however requests race to make it,     *)
(* fail half-way or find rows of older data: what is under the record stays in  *)
(* the realm (ensureRealmRoot, attribute_not_exists).  Unless Cold: Relink may  *)
(* come after Claim.                                                            *)
RecordNeverMoves ==
  [][realmRow # NoBranch => realmRow' = realmRow]_realmRow

(* An ensure that begins when the realm has content and no copy of the table    *)
(* says that its key is missing never sets the empty root over content,         *)
(* whatever its queries miss (ensureRealmForUser: "Idempotent").  One that began *)
(* before may: the row is put first and the root after, so that another request *)
(* can commit in between, and a read of a key that was just set may miss it.    *)
EnsureSparesContent ==
  [][\A q \in RealmCalls : (ResetRoot(q) /\ rcall[q].full) => ~HasContent]_realmVars

(* Ensuring a realm costs it neither its record nor its content. *)
EnsureKeepsRealm == RecordNeverMoves /\ EnsureSparesContent
=============================================================================
