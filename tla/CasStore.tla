------------------------------ MODULE CasStore ------------------------------
(***************************************************************************)
(* The content-addressed store of packages/cas over a storage provider:    *)
(* putNode and gc, at the grain of the awaits of the code.  Any number of  *)
(* putNode and gc calls are in flight at once over one storage: the code   *)
(* takes no lock, and each blob that gc keeps for itself (the keys to      *)
(* retain, the keys put since, the write times) is read, changed in memory *)
(* and written back.                                                       *)
(*                                                                         *)
(* A node is its key (the hash of its content) and the keys of its         *)
(* children; a key is in store when storage holds the blob of that node.   *)
(* A call that throws, because storage fails or the process dies, leaves   *)
(* what it has written so far and disappears (PutAbort, GcAbort).          *)
(***************************************************************************)
EXTENDS Naturals, FiniteSets

CONSTANTS
  Keys,        \* the node keys that occur
  NoKey,       \* no key
  Children,    \* Children[k]: the child keys that the content of k names
  Writers,     \* putNode calls that can be in flight at once
  Collectors,  \* gc calls that can be in flight at once
  RootSets,    \* the nodeKeys argument a gc call may be given
  Pinned,      \* roots that every gc call is given
  CutOffs,     \* the cutOffTime argument a gc call may be given
  WriteOnce,   \* whether the provider's put leaves an existing key alone (fs, s3)
  MaxTime,     \* bound on the clock
  MaxPuts,     \* bound on the putNode calls of a behaviour
  MaxGcs       \* bound on the gc calls of a behaviour

ASSUME KeysAssumption ==
  /\ NoKey \notin Keys
  /\ Children \in [Keys -> SUBSET Keys]
  /\ RootSets \subseteq SUBSET Keys
  /\ Pinned \subseteq Keys
  /\ CutOffs \subseteq Nat
  /\ \A r \in RootSets : Pinned \subseteq r

ASSUME BoundsAssumption ==
  WriteOnce \in BOOLEAN /\ MaxTime \in Nat \ {0} /\ MaxPuts \in Nat /\ MaxGcs \in Nat

VARIABLES
  store,       \* the node blobs in storage
  retained,    \* blob __cas_retained__: the keys the last gc kept
  newKeys,     \* blob __cas_new_keys__: the keys put since
  times,       \* blob __cas_times__: the write time of a key, NoTime if it has none
  lastGc,      \* blob __cas_meta__: lastGcTime, NoTime before the first gc
  written,     \* the meta blobs that exist in storage
  clock,       \* Date.now()
  puts,        \* putNode calls made so far
  gcs,         \* gc calls made so far
  wpc,         \* where the putNode call of a writer is
  wnode,       \* the key of its content
  wtodo,       \* the children it has not checked yet
  wnow,        \* its write time
  wkeys,       \* the new keys it has read
  wtimes,      \* the times it has read
  gpc,         \* where the gc call of a collector is
  groots,      \* its nodeKeys
  gcut,        \* its cutOffTime
  gqueue,      \* keys to visit
  gseen,       \* keys visited, R when the queue is empty
  gknown,      \* allKeys: the retained and the new keys it has read
  gtimes,      \* the times it has read
  gdel,        \* toDelete: what is left to delete
  firstPut,    \* history: when the blob of a key was first stored, NoTime if never
  maxCut,      \* history: the largest cutOffTime a gc was given
  intact       \* history: the collectors in flight during the whole of whose run
               \* so far the tree of the pinned roots was complete

putVars == <<wpc, wnode, wtodo, wnow, wkeys, wtimes>>
gcVars == <<gpc, groots, gcut, gqueue, gseen, gknown, gtimes, gdel>>
blobs == <<retained, newKeys, times, lastGc, written>>
bounds == <<clock, puts, gcs>>
hist == <<firstPut, maxCut, intact>>
vars == <<store, blobs, bounds, putVars, gcVars, hist>>

NoTime == 0
NoTimes == [k \in Keys |-> NoTime]

PutStates == {"idle", "check", "stamp", "readNew", "writeNew", "readTimes", "writeTimes"}
GcStates == {"idle", "mark", "readNew", "readTimes", "delete", "clearNew", "writeTimes",
             "writeMeta"}

-----------------------------------------------------------------------------
(* Reachability: the least set that holds the roots and the children of each *)
(* of its members.  The code computes it one node at a time (GcMark).        *)

Closed(S) == \A k \in S : Children[k] \subseteq S

Reach(roots) ==
  {k \in Keys : \A S \in SUBSET Keys : roots \subseteq S /\ Closed(S) => k \in S}

Complete(roots) == Reach(roots) \subseteq store

-----------------------------------------------------------------------------
(* The provider's put of a meta blob: memory replaces the blob of the key;   *)
(* fs and s3 first look whether the key exists and then leave it alone.      *)

PutBlob(name, old, new) == IF WriteOnce /\ name \in written THEN old ELSE new

-----------------------------------------------------------------------------
Init ==
  /\ store = {}
  /\ retained = {} /\ newKeys = {} /\ times = NoTimes /\ lastGc = NoTime
  /\ written = {}
  /\ clock = 1 /\ puts = 0 /\ gcs = 0
  /\ wpc = [w \in Writers |-> "idle"]
  /\ wnode = [w \in Writers |-> NoKey]
  /\ wtodo = [w \in Writers |-> {}]
  /\ wnow = [w \in Writers |-> NoTime]
  /\ wkeys = [w \in Writers |-> {}]
  /\ wtimes = [w \in Writers |-> NoTimes]
  /\ gpc = [g \in Collectors |-> "idle"]
  /\ groots = [g \in Collectors |-> {}]
  /\ gcut = [g \in Collectors |-> NoTime]
  /\ gqueue = [g \in Collectors |-> {}]
  /\ gseen = [g \in Collectors |-> {}]
  /\ gknown = [g \in Collectors |-> {}]
  /\ gtimes = [g \in Collectors |-> NoTimes]
  /\ gdel = [g \in Collectors |-> {}]
  /\ firstPut = NoTimes /\ maxCut = NoTime /\ intact = {}

Tick ==
  /\ clock < MaxTime
  /\ clock' = clock + 1
  /\ UNCHANGED <<store, blobs, puts, gcs, putVars, gcVars, hist>>

-----------------------------------------------------------------------------
(* putNode *)

PutGoto(w, from, to) == wpc[w] = from /\ wpc' = [wpc EXCEPT ![w] = to]

(* The call returns or throws: its locals are gone. *)
PutReturn(w) ==
  /\ wpc' = [wpc EXCEPT ![w] = "idle"]
  /\ wnode' = [wnode EXCEPT ![w] = NoKey]
  /\ wtodo' = [wtodo EXCEPT ![w] = {}]
  /\ wnow' = [wnow EXCEPT ![w] = NoTime]
  /\ wkeys' = [wkeys EXCEPT ![w] = {}]
  /\ wtimes' = [wtimes EXCEPT ![w] = NoTimes]

PutBegin(w, k) ==
  /\ puts < MaxPuts
  /\ PutGoto(w, "idle", "check")
  /\ puts' = puts + 1
  /\ wnode' = [wnode EXCEPT ![w] = k]
  /\ wtodo' = [wtodo EXCEPT ![w] = Children[k]]
  /\ UNCHANGED <<store, blobs, clock, gcs, wnow, wkeys, wtimes, gcVars, hist>>

PutCheckChild(w) ==
  /\ wpc[w] = "check"
  /\ \E c \in wtodo[w] \cap store : wtodo' = [wtodo EXCEPT ![w] = @ \ {c}]
  /\ UNCHANGED <<store, blobs, bounds, wpc, wnode, wnow, wkeys, wtimes, gcVars, hist>>

PutRejected(w) ==
  /\ wpc[w] = "check"
  /\ \/ wtodo[w] \ store # {}                                 \* ChildMissing
     \/ wtodo[w] = {} /\ \E claimed \in Keys : claimed # wnode[w]  \* KeyMismatch
  /\ PutReturn(w)
  /\ UNCHANGED <<store, blobs, bounds, gcVars, hist>>

PutStore(w) ==
  /\ wtodo[w] = {}
  /\ PutGoto(w, "check", "stamp")
  /\ store' = store \union {wnode[w]}
  /\ firstPut' = [firstPut EXCEPT ![wnode[w]] = IF @ = NoTime THEN clock ELSE @]
  /\ UNCHANGED <<blobs, bounds, wnode, wtodo, wnow, wkeys, wtimes, gcVars, maxCut, intact>>

PutStamp(w) ==
  /\ PutGoto(w, "stamp", "readNew")
  /\ wnow' = [wnow EXCEPT ![w] = clock]
  /\ UNCHANGED <<store, blobs, bounds, wnode, wtodo, wkeys, wtimes, gcVars, hist>>

PutReadNew(w) ==
  /\ PutGoto(w, "readNew", IF wnode[w] \in newKeys THEN "readTimes" ELSE "writeNew")
  /\ wkeys' = [wkeys EXCEPT ![w] = IF wnode[w] \in newKeys THEN {} ELSE newKeys]
  /\ UNCHANGED <<store, blobs, bounds, wnode, wtodo, wnow, wtimes, gcVars, hist>>

PutWriteNew(w) ==
  /\ PutGoto(w, "writeNew", "readTimes")
  /\ newKeys' = PutBlob("NEW_KEYS", newKeys, wkeys[w] \union {wnode[w]})
  /\ written' = written \union {"NEW_KEYS"}
  /\ wkeys' = [wkeys EXCEPT ![w] = {}]
  /\ UNCHANGED <<store, retained, times, lastGc, bounds, wnode, wtodo, wnow, wtimes,
                 gcVars, hist>>

PutReadTimes(w) ==
  /\ PutGoto(w, "readTimes", "writeTimes")
  /\ wtimes' = [wtimes EXCEPT ![w] = times]
  /\ UNCHANGED <<store, blobs, bounds, wnode, wtodo, wnow, wkeys, gcVars, hist>>

PutWriteTimes(w) ==
  /\ wpc[w] = "writeTimes"
  /\ times' = PutBlob("TIMES", times, [wtimes[w] EXCEPT ![wnode[w]] = wnow[w]])
  /\ written' = written \union {"TIMES"}
  /\ PutReturn(w)
  /\ UNCHANGED <<store, retained, newKeys, lastGc, bounds, gcVars, hist>>

PutAbort(w) ==
  /\ wpc[w] # "idle"
  /\ PutReturn(w)
  /\ UNCHANGED <<store, blobs, bounds, gcVars, hist>>

-----------------------------------------------------------------------------
(* gc *)

GcGoto(g, from, to) == gpc[g] = from /\ gpc' = [gpc EXCEPT ![g] = to]

GcReturn(g) ==
  /\ gpc' = [gpc EXCEPT ![g] = "idle"]
  /\ groots' = [groots EXCEPT ![g] = {}]
  /\ gcut' = [gcut EXCEPT ![g] = NoTime]
  /\ gqueue' = [gqueue EXCEPT ![g] = {}]
  /\ gseen' = [gseen EXCEPT ![g] = {}]
  /\ gknown' = [gknown EXCEPT ![g] = {}]
  /\ gtimes' = [gtimes EXCEPT ![g] = NoTimes]
  /\ gdel' = [gdel EXCEPT ![g] = {}]
  /\ intact' = intact \ {g}

GcBegin(g, roots, cut) ==
  /\ gcs < MaxGcs
  /\ GcGoto(g, "idle", "mark")
  /\ gcs' = gcs + 1
  /\ groots' = [groots EXCEPT ![g] = roots]
  /\ gcut' = [gcut EXCEPT ![g] = cut]
  /\ gqueue' = [gqueue EXCEPT ![g] = roots]
  /\ maxCut' = IF maxCut < cut THEN cut ELSE maxCut
  /\ intact' = IF Complete(Pinned) THEN intact \union {g} ELSE intact
  /\ UNCHANGED <<store, blobs, clock, puts, putVars, gseen, gknown, gtimes, gdel, firstPut>>

ChildrenReadNone(k) == {}

ChildrenReadNull(k) == IF k \in store THEN Children[k] ELSE {NoKey}

(* The children of a visited key, none when storage does not hold it. *)
ChildrenRead(k) == IF k \in store THEN Children[k] ELSE {}

GcMark(g) ==
  /\ gpc[g] = "mark"
  /\ \E k \in gqueue[g] :
       /\ gseen' = [gseen EXCEPT ![g] = @ \union {k}]
       /\ gqueue' = [gqueue EXCEPT ![g] =
                       (@ \union ChildrenRead(k)) \ (gseen[g] \union {k})]
  /\ UNCHANGED <<store, blobs, bounds, putVars, gpc, groots, gcut, gknown, gtimes, gdel,
                 hist>>

GcReadRetained(g) ==
  /\ gqueue[g] = {}
  /\ GcGoto(g, "mark", "readNew")
  /\ gknown' = [gknown EXCEPT ![g] = retained]
  /\ UNCHANGED <<store, blobs, bounds, putVars, groots, gcut, gqueue, gseen, gtimes,
                 gdel, hist>>

GcReadNew(g) ==
  /\ GcGoto(g, "readNew", "readTimes")
  /\ gknown' = [gknown EXCEPT ![g] = @ \union newKeys]
  /\ UNCHANGED <<store, blobs, bounds, putVars, groots, gcut, gqueue, gseen, gtimes,
                 gdel, hist>>

ToDeleteAtCut(known, seen, tm, cut) ==
  {k \in known \ seen : tm[k] # NoTime /\ tm[k] <= cut}

ToDeleteSeen(known, seen, tm, cut) ==
  {k \in known : tm[k] # NoTime /\ tm[k] < cut}

(* The keys to delete: known, not visited, with a write time before the cut-off. *)
ToDelete(known, seen, tm, cut) ==
  {k \in known \ seen : tm[k] # NoTime /\ tm[k] < cut}

GcReadTimes(g) ==
  /\ GcGoto(g, "readTimes", "delete")
  /\ gtimes' = [gtimes EXCEPT ![g] = times]
  /\ gdel' = [gdel EXCEPT ![g] = ToDelete(gknown[g], gseen[g], times, gcut[g])]
  /\ gknown' = [gknown EXCEPT ![g] = {}]
  /\ UNCHANGED <<store, blobs, bounds, putVars, groots, gcut, gqueue, gseen, hist>>

GcDelete(g) ==
  /\ gpc[g] = "delete"
  /\ \E k \in gdel[g] :
       /\ store' = store \ {k}
       /\ gdel' = [gdel EXCEPT ![g] = @ \ {k}]
       /\ intact' = IF k \in Reach(Pinned) THEN {} ELSE intact
  /\ UNCHANGED <<blobs, bounds, putVars, gpc, groots, gcut, gqueue, gseen, gknown,
                 gtimes, firstPut, maxCut>>

GcWriteRetained(g) ==
  /\ gdel[g] = {}
  /\ GcGoto(g, "delete", "clearNew")
  /\ retained' = PutBlob("RETAINED", retained, gseen[g])
  /\ written' = written \union {"RETAINED"}
  /\ UNCHANGED <<store, newKeys, times, lastGc, bounds, putVars, groots, gcut, gqueue,
                 gseen, gknown, gtimes, gdel, hist>>

GcClearNew(g) ==
  /\ GcGoto(g, "clearNew", "writeTimes")
  /\ newKeys' = PutBlob("NEW_KEYS", newKeys, {})
  /\ written' = written \union {"NEW_KEYS"}
  /\ UNCHANGED <<store, retained, times, lastGc, bounds, putVars, groots, gcut, gqueue,
                 gseen, gknown, gtimes, gdel, hist>>

GcWriteTimes(g) ==
  /\ GcGoto(g, "writeTimes", "writeMeta")
  /\ times' = PutBlob("TIMES", times,
                [k \in Keys |-> IF k \in gseen[g] THEN gtimes[g][k] ELSE NoTime])
  /\ written' = written \union {"TIMES"}
  /\ UNCHANGED <<store, retained, newKeys, lastGc, bounds, putVars, groots, gcut, gqueue,
                 gseen, gknown, gtimes, gdel, hist>>

GcWriteMeta(g) ==
  /\ gpc[g] = "writeMeta"
  /\ lastGc' = PutBlob("META", lastGc, clock)
  /\ written' = written \union {"META"}
  /\ GcReturn(g)
  /\ UNCHANGED <<store, retained, newKeys, times, bounds, putVars, firstPut, maxCut>>

GcAbort(g) ==
  /\ gpc[g] # "idle"
  /\ GcReturn(g)
  /\ UNCHANGED <<store, blobs, bounds, putVars, firstPut, maxCut>>

-----------------------------------------------------------------------------
PutRun(w) ==
  \/ \E k \in Keys : PutBegin(w, k)
  \/ PutCheckChild(w) \/ PutRejected(w) \/ PutStore(w) \/ PutStamp(w)
  \/ PutReadNew(w) \/ PutWriteNew(w) \/ PutReadTimes(w) \/ PutWriteTimes(w)

PutStep(w) == PutRun(w) \/ PutAbort(w)

GcRun(g) ==
  \/ \E roots \in RootSets, cut \in CutOffs : GcBegin(g, roots, cut)
  \/ GcMark(g) \/ GcReadRetained(g) \/ GcReadNew(g) \/ GcReadTimes(g) \/ GcDelete(g)
  \/ GcWriteRetained(g) \/ GcClearNew(g) \/ GcWriteTimes(g) \/ GcWriteMeta(g)

GcStep(g) == GcRun(g) \/ GcAbort(g)

Next ==
  \/ Tick
  \/ \E w \in Writers : PutStep(w)
  \/ \E g \in Collectors : GcStep(g)

Spec == Init /\ [][Next]_vars

-----------------------------------------------------------------------------
(* Every variable has the type its declaration says. *)
TypeOK ==
  /\ store \subseteq Keys /\ retained \subseteq Keys /\ newKeys \subseteq Keys
  /\ times \in [Keys -> Nat]
  /\ lastGc \in Nat /\ clock \in Nat \ {0} /\ puts \in Nat /\ gcs \in Nat /\ maxCut \in Nat
  /\ written \subseteq {"RETAINED", "NEW_KEYS", "TIMES", "META"}
  /\ wpc \in [Writers -> PutStates]
  /\ wnode \in [Writers -> Keys \union {NoKey}]
  /\ \A w \in Writers : wpc[w] # "idle" => wnode[w] \in Keys
  /\ wtodo \in [Writers -> SUBSET Keys]
  /\ wnow \in [Writers -> Nat]
  /\ wkeys \in [Writers -> SUBSET Keys]
  /\ wtimes \in [Writers -> [Keys -> Nat]]
  /\ gpc \in [Collectors -> GcStates]
  /\ groots \in [Collectors -> SUBSET Keys]
  /\ gcut \in [Collectors -> Nat]
  /\ gqueue \in [Collectors -> SUBSET Keys]
  /\ gseen \in [Collectors -> SUBSET Keys]
  /\ gknown \in [Collectors -> SUBSET Keys]
  /\ gtimes \in [Collectors -> [Keys -> Nat]]
  /\ gdel \in [Collectors -> SUBSET Keys]
  /\ firstPut \in [Keys -> Nat]
  /\ intact \subseteq Collectors

(* A node that was first stored at or after every cut-off a gc was ever given *)
(* is still stored, however putNode and gc calls interleave, fail half-way    *)
(* and overwrite each other's new-keys and times blobs: gc compares the write *)
(* time that the times blob holds, and that is never older than the node.     *)
YoungNodesKept ==
  \A k \in Keys : firstPut[k] # NoTime /\ firstPut[k] >= maxCut => k \in store

(* What gc retains is what its roots reach: no key that its roots do not reach *)
(* is visited; and when its mark phase is over, and the tree of the pinned     *)
(* roots has been complete since it began, every key of that tree was visited. *)
Marked(g) == gpc[g] \notin {"idle", "mark"}

MarkIsReach ==
  \A g \in Collectors :
    /\ gseen[g] \subseteq Reach(groots[g])
    /\ Marked(g) /\ g \in intact => Reach(Pinned) \subseteq gseen[g]

(* The tree of the pinned roots survives any number of concurrent putNode and *)
(* gc calls that include these roots, aborted ones too, as long as it has     *)
(* been complete since the oldest gc in flight began.                         *)
AllIntact == \A g \in Collectors : gpc[g] # "idle" => g \in intact

TreeSurvives == [][AllIntact /\ Complete(Pinned) => Complete(Pinned)']_vars
=============================================================================
