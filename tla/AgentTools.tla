----------------------------- MODULE AgentTools -----------------------------
(***************************************************************************)
(* The tools of a thread: those the gateway's load_tools answered, as the  *)
(* service worker remembers them and as the history of the thread shows    *)
(* them to the model.  A run offers the model what the history says was    *)
(* loaded; a call needs the worker's memory.                               *)
(***************************************************************************)
EXTENDS Naturals, Sequences, FiniteSets, SequencesExt

CONSTANTS
  Tools,       \* loaded tool names, each of a server and a tool of it
  ToolRuns,    \* runs of messages.send that can be active at once
  MaxLoaded,   \* MAX_LOADED_TOOLS_PER_THREAD
  MaxKills     \* bound on how often the worker is killed

ASSUME ToolsAssumption == IsFiniteSet(Tools) /\ MaxLoaded \in Nat \ {0} /\ MaxKills \in Nat

VARIABLES
  recent,    \* loadedToolsByThread, the tools by their last use, the oldest first
  history,   \* tools whose load the messages of the thread show
  trun,      \* the runs
  everLoaded,     \* the tools that were ever loaded in the thread
  kills      \* how often the worker was killed

toolVars == <<recent, history, trun, everLoaded, kills>>

(* turns: the loads that messagesForApi shows; round: those of the round in progress *)
NoRun == [pc |-> "none", turns |-> {}, offered |-> {}, round |-> {}]

AgentToolsInit ==
  /\ recent = <<>> /\ history = {} /\ everLoaded = {} /\ kills = 0
  /\ trun = [r \in ToolRuns |-> NoRun]

InMemory == ToSet(recent)

StartToolRun(r) ==
  /\ trun[r].pc = "none"
  /\ trun' = [trun EXCEPT ![r] = [NoRun EXCEPT !.pc = "ask", !.turns = history]]
  /\ UNCHANGED <<recent, history, everLoaded, kills>>

(* deriveContext: of the schemas in memory and in the results of load_tools, those *)
(* whose load the turns show.                                                      *)
Offer(turns) == (InMemory \union turns) \intersect turns

AskModel(r) ==
  /\ trun[r].pc = "ask"
  /\ trun' = [trun EXCEPT ![r].pc = "calls", ![r].offered = Offer(trun[r].turns), ![r].round = {}]
  /\ UNCHANGED <<recent, history, everLoaded, kills>>

(* pruneThreadLoadedTools; a plausible bug keeps one tool less than it may. *)
PruneEarly(tools) ==
  IF Len(tools) < MaxLoaded THEN tools ELSE SubSeq(tools, Len(tools) - MaxLoaded + 2, Len(tools))

Prune(tools) ==
  IF Len(tools) <= MaxLoaded THEN tools ELSE SubSeq(tools, Len(tools) - MaxLoaded + 1, Len(tools))

(* markLoadedToolUsed: a tool is taken out and entered again as the last; a      *)
(* plausible bug enters it only.                                                *)
Without(tools, gone) ==
  LET kept[i \in 0..Len(tools)] ==
        IF i = 0 THEN <<>>
        ELSE IF tools[i] \in gone THEN kept[i - 1] ELSE Append(kept[i - 1], tools[i])
  IN kept[Len(tools)]

TouchedAgain(tools, order) == tools \o order
Touched(tools, order) == Without(tools, ToSet(order)) \o order

(* load_tools: a server that is not registered makes it an error as a whole, else   *)
(* the tools that their server lists now are answered success, the others an error. *)
(* Those of success enter the memory at one time, in the order of the map.          *)
ModelLoads(r, success) ==
  /\ trun[r].pc = "calls"
  /\ \E order \in SetToSeqs(success) : recent' = Prune(Touched(recent, order))
  /\ trun' = [trun EXCEPT ![r].round = @ \union success]
  /\ everLoaded' = everLoaded \union success
  /\ UNCHANGED <<history, kills>>

(* A call of an offered tool: unknown tool, if it is not in memory. *)
ModelCalls(r, t) ==
  /\ trun[r].pc = "calls" /\ t \in trun[r].offered
  /\ recent' = IF t \in InMemory THEN Touched(recent, <<t>>) ELSE recent
  /\ UNCHANGED <<history, trun, everLoaded, kills>>

(* The turns of the round are added; then it is persisted, or the run fails. *)
EndRound(r) ==
  /\ trun[r].pc = "calls"
  /\ \/ /\ trun' = [trun EXCEPT ![r].pc = "ask", ![r].turns = @ \union trun[r].round]
        /\ history' = history \union trun[r].round
     \/ trun' = [trun EXCEPT ![r] = NoRun] /\ UNCHANGED history
  /\ UNCHANGED <<recent, everLoaded, kills>>

(* The model calls no tool, or the user cancels. *)
RunEnds(r) ==
  /\ trun[r].pc # "none"
  /\ trun' = [trun EXCEPT ![r] = NoRun]
  /\ UNCHANGED <<recent, history, everLoaded, kills>>

(* The browser kills the worker: the history is in the database of the page. *)
KillWorker ==
  /\ kills < MaxKills
  /\ kills' = kills + 1 /\ recent' = <<>>
  /\ trun' = [r \in ToolRuns |-> NoRun]
  /\ UNCHANGED <<history, everLoaded>>

AgentToolsNext ==
  \/ KillWorker
  \/ \E r \in ToolRuns :
       \/ StartToolRun(r) \/ AskModel(r) \/ EndRound(r) \/ RunEnds(r)
       \/ \E success \in SUBSET Tools : ModelLoads(r, success)
       \/ \E t \in Tools : ModelCalls(r, t)

AgentToolsSpec == AgentToolsInit /\ [][AgentToolsNext]_toolVars

-----------------------------------------------------------------------------
AgentToolsTypeOK ==
  /\ history \subseteq everLoaded /\ everLoaded \subseteq Tools /\ kills <= MaxKills
  /\ InMemory \subseteq Tools /\ IsInjective(recent) /\ Len(recent) <= MaxLoaded
  /\ \A r \in ToolRuns : trun[r].offered \subseteq trun[r].turns /\ trun[r].turns \subseteq everLoaded

(* A tool that a run offers the model can be called, however its loads and its  *)
(* uses interleave with those of other runs of the thread, as long as the       *)
(* worker was not killed and the thread loaded no more tools than fit.  (After  *)
(* a kill, and beyond the cap, the worker answers "unknown tool" for tools it   *)
(* offers.)                                                                     *)
OfferedCanBeCalled ==
  (kills = 0 /\ Cardinality(everLoaded) <= MaxLoaded) =>
    \A r \in ToolRuns : trun[r].offered \subseteq InMemory
=============================================================================
