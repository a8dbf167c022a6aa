--------------------------- MODULE MCCasHistory ---------------------------
(***************************************************************************)
(* The instance of MCCasStore with the last write time of each node as a   *)
(* history variable, and what the documents of the store say about it.     *)
(***************************************************************************)
EXTENDS MCCasStore

VARIABLE lastPut  \* the write time of the last putNode call of a key that returned

HistoryInit == Init /\ lastPut = NoTimes

Recorded ==
  \/ \E w \in Writers : PutWriteTimes(w) /\ lastPut' = [lastPut EXCEPT ![wnode[w]] = wnow[w]]
  \/ (\A w \in Writers : ~PutWriteTimes(w)) /\ UNCHANGED lastPut

(* Any calls, none of which fails. *)
CalmNext ==
  /\ Tick \/ (\E w \in Writers : PutRun(w)) \/ (\E g \in Collectors : GcRun(g))
  /\ Recorded

CalmSpec == HistoryInit /\ [][CalmNext]_<<vars, lastPut>>

(* One call at a time. *)
InFlight == {w \in Writers : wpc[w] # "idle"} \union {g \in Collectors : gpc[g] # "idle"}

SerialSpec == HistoryInit /\ [][CalmNext /\ Cardinality(InFlight') <= 1]_<<vars, lastPut>>

(* gc keeps every node that a putNode call which returned has written at or    *)
(* after every cut-off that a gc was ever given (gc, cas-service.ts).          *)
WrittenSinceKept ==
  \A k \in Keys : lastPut[k] # NoTime /\ lastPut[k] >= maxCut => k \in store

(* When gc has deleted, every key that is still stored is reachable from its   *)
(* roots or has a write time at or after its cut-off (gc, cas-service.ts).     *)
CollectsGarbage ==
  \A g \in Collectors :
    gpc[g] = "writeMeta" =>
      \A k \in store \ Reach(groots[g]) : lastPut[k] >= gcut[g]
=============================================================================
