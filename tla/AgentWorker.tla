----------------------------- MODULE AgentWorker -----------------------------
(***************************************************************************)
(* The agent's service worker: runs of messages.send with their tool loop, *)
(* stream.cancel, sync.pull of a thread, and the three copies of the model *)
(* state that every change goes through: the worker's memory, IndexedDB,   *)
(* and the store of the page.  applyChange computes the next memory from   *)
(* the one it was called with, awaits IndexedDB and only then assigns it.  *)
(* IndexedDB completes its transactions in the order they were asked for,  *)
(* and may reject one: then nothing is assigned and nobody is told.  The   *)
(* page hears of a change only while it holds a port (agent-store.ts).     *)
(***************************************************************************)
EXTENDS Naturals, Sequences, SequencesExt

CONSTANTS
  Threads,      \* conversations
  Runs,         \* messages.send actions
  MaxRounds,    \* bound on the rounds of a tool loop
  ListCap,      \* most messages that the backend lists, the oldest (200 in the code)
  MaxUpdates,   \* bound on the changes of a setting or of the list of threads
  MaxRestarts   \* bound on the ends of the worker

ASSUME WorkerAssumption ==
  /\ Threads # {} /\ Runs \intersect {"pull", "cancel", "settings", "threads"} = {}
  /\ {MaxRounds, ListCap} \subseteq Nat \ {0}
  /\ {MaxUpdates, MaxRestarts} \subseteq Nat

VARIABLES
  server,      \* per thread: the messages the backend holds, in order
  mem,         \* modelState: messages per thread, status per stream
  idb,         \* the stores of IndexedDB
  ui,          \* the page's mirror
  link,        \* whether the page holds a port; per thread, the messages that it did not
               \* hear of or was told to drop; the runs that ended without its hearing
  applies,     \* applyChange calls in flight, with the state they started from
  run,         \* per run: where it is, its thread, and the messages it was answered
  pull,        \* the sync.pull in flight
  updates,     \* how many actions on settings and on threads came
  raced,       \* changes of two actions were in flight at once
  overlapped,  \* threads with a pull and a run at the same time
  restarts     \* how often the worker was ended

workerVars ==
  <<server, mem, idb, ui, link, applies, run, pull, updates, raced, overlapped, restarts>>

Statuses == {"none", "waiting_agent", "streaming", "error"}
NoPull == [pc |-> "none", thread |-> CHOOSE t \in Threads : TRUE, messages |-> <<>>]
EmptyState(none) == [messages |-> [t \in Threads |-> none], streams |-> [r \in Runs |-> "none"],
                     setting |-> 0]

AgentWorkerInit ==
  /\ server = [t \in Threads |-> <<>>]
  /\ mem = EmptyState(<<>>) /\ ui = EmptyState(<<>>) /\ idb = EmptyState({})
  /\ link \in [open : BOOLEAN, unseen : {[t \in Threads |-> {}]}, unclosed : {{}}]
  /\ applies = <<>> /\ pull = NoPull
  /\ run = [r \in Runs |-> [pc |-> "idle", thread |-> NoPull.thread, mine |-> {}, last |-> 0,
                            rounds |-> 0, chunks |-> 0, controller |-> FALSE, aborted |-> FALSE]]
  /\ updates = 0 /\ raced = FALSE /\ overlapped = {} /\ restarts = 0

Live(r) == run[r].pc \notin {"idle", "over", "killed"}
(* streamAbortControllers holds a controller for the run *)
HasController(r) == run[r].controller
Stored == UNION {ToSet(server[t]) : t \in Threads}
NewMessage == IF Stored = {} THEN 1 ELSE 1 + CHOOSE m \in Stored : \A n \in Stored : n <= m

-----------------------------------------------------------------------------
(* One change and what it does to a list of messages and to the status of a stream *)
Change(kind, by, r, t, message, status, next) ==
  [kind |-> kind, by |-> by, run |-> r, thread |-> t, message |-> message, status |-> status,
   next |-> next]

StreamAfter(c, status) ==
  CASE c.kind = "stream.status" -> c.status
    [] c.kind = "stream.chunk"  -> IF status = "none" THEN "streaming" ELSE status
    [] c.kind = "stream.reset"  -> IF status = "none" THEN "none" ELSE "waiting_agent"
    [] c.kind = "stream.done"   -> "none"
    [] c.kind = "stream.error"  -> "error"
    [] OTHER -> status

StreamsAfter(c, streams) ==
  IF c.kind \in {"messages.append", "messages.replaced", "settings.updated", "threads.updated"}
  THEN streams
  ELSE [streams EXCEPT ![c.run] = StreamAfter(c, @)]

SettingAfter(c, value) == IF c.kind = "settings.updated" THEN c.message ELSE value

Upsert(list, m) == IF Contains(list, m) THEN list ELSE Append(list, m)

(* The memory appends without a look at the ids that are there; the page upserts. *)
MemAfter(s, c) ==
  [messages |-> [s.messages EXCEPT ![c.thread] =
      CASE c.kind = "messages.append" -> Append(@, c.message)
        [] c.kind = "stream.done" -> Upsert(@, c.message)
        [] c.kind = "messages.replaced" -> c.message
        [] OTHER -> @],
   streams |-> StreamsAfter(c, s.streams), setting |-> SettingAfter(c, s.setting)]

(* A plausible bug: a tool-loop reset that clears the page's thread as well. *)
UiAfterClearing(s, c) ==
  [messages |-> [t \in Threads |->
      CASE c.kind = "threads.updated" /\ t \notin c.message -> <<>>
        [] c.kind = "messages.replaced" /\ t = c.thread -> c.message
        [] c.kind \in {"messages.append", "stream.done"} /\ t = c.thread -> Upsert(s.messages[t], c.message)
        [] c.kind = "stream.reset" /\ t = c.thread -> <<>>
        [] OTHER -> s.messages[t]],
   streams |-> StreamsAfter(c, s.streams), setting |-> SettingAfter(c, s.setting)]

(* With a new list of threads the page drops the messages of all others. *)
UiAfter(s, c) ==
  [messages |-> [t \in Threads |->
      CASE c.kind = "threads.updated" /\ t \notin c.message -> <<>>
        [] c.kind = "messages.replaced" /\ t = c.thread -> c.message
        [] c.kind \in {"messages.append", "stream.done"} /\ t = c.thread -> Upsert(s.messages[t], c.message)
        [] OTHER -> s.messages[t]],
   streams |-> StreamsAfter(c, s.streams), setting |-> SettingAfter(c, s.setting)]

IdbAfter(s, c) ==
  [messages |-> [s.messages EXCEPT ![c.thread] =
      CASE c.kind \in {"messages.append", "stream.done"} -> @ \union {c.message}
        [] c.kind = "messages.replaced" -> ToSet(c.message)
        [] OTHER -> @],
   streams |-> StreamsAfter(c, s.streams), setting |-> SettingAfter(c, s.setting)]

BeginChange(c) ==
  /\ applies' = Append(applies, [change |-> c, base |-> mem])
  /\ raced' = (raced \/ \E i \in DOMAIN applies : applies[i].change.by # c.by)

(* The page holds a port and hears the change, or does not and misses it. *)
Told(c) ==
  IF link.open
  THEN /\ ui' = UiAfter(ui, c)
       /\ link' = [link EXCEPT !.unseen =
            [t \in Threads |->
               CASE c.kind = "threads.updated" /\ t \notin c.message -> @[t] \union ToSet(ui.messages[t])
                 [] c.kind = "messages.replaced" /\ t = c.thread -> @[t] \ ToSet(c.message)
                 [] OTHER -> @[t]]]
  ELSE /\ ui' = ui
       /\ link' = [link EXCEPT
            !.unseen[c.thread] = IF c.kind = "messages.append" THEN @ \union {c.message} ELSE @,
            !.unclosed = IF c.next = "over" THEN @ \union {c.run} ELSE @]

(* IndexedDB is done with the first change: memory is assigned, the page is told, *)
(* and the run that awaited it goes on.                                           *)
ApplyEnd ==
  /\ applies # <<>>
  /\ LET c == Head(applies).change
     IN  /\ mem' = MemAfter(Head(applies).base, c)
         /\ idb' = IdbAfter(idb, c) /\ Told(c)
         /\ IF c.kind = "messages.replaced"
            THEN pull' = NoPull /\ UNCHANGED run
            ELSE /\ run' = IF c.next = "" THEN run ELSE [run EXCEPT ![c.run].pc = c.next]
                 /\ UNCHANGED pull
  /\ applies' = Tail(applies)
  /\ UNCHANGED <<server, updates, raced, overlapped, restarts>>

(* IndexedDB rejects it, and the run that awaited it fails: inside the try block *)
(* it tells its error, outside it just ends.  (Of stream.done the message may be *)
(* put and the status stay.)                                                     *)
AfterRefusal(c) ==
  IF c.kind \in {"stream.status", "stream.done", "stream.error"} \/ c.next = "waiting"
  THEN "over" ELSE "fail"
ApplyRefused ==
  /\ applies # <<>>
  /\ LET c == Head(applies).change
     IN  /\ idb' \in {idb} \union
              (IF c.kind = "stream.done" THEN {[IdbAfter(idb, c) EXCEPT !.streams = idb.streams]} ELSE {})
         /\ IF c.next = "" THEN UNCHANGED <<run, link>>
            ELSE /\ run' = [run EXCEPT ![c.run].pc = AfterRefusal(c),
                      ![c.run].mine = IF c.kind = "messages.append" THEN @ \ {c.message} ELSE @]
                 /\ link' = [link EXCEPT !.unclosed =
                      IF AfterRefusal(c) = "over" THEN @ \union {c.run} ELSE @]
         /\ pull' = IF c.kind = "messages.replaced" THEN NoPull ELSE pull
  /\ applies' = Tail(applies)
  /\ UNCHANGED <<server, mem, ui, updates, raced, overlapped, restarts>>

(* The page connects, when it loads, when the worker changes or for its next    *)
(* action; an action that was not answered in time drops the port.              *)
Relink ==
  /\ link' = [link EXCEPT !.open = ~@]
  /\ UNCHANGED <<server, mem, idb, ui, applies, run, pull, updates, raced, overlapped, restarts>>

-----------------------------------------------------------------------------
RunAt(r, pc) == run[r].pc = pc
GoesTo(r, pc) == run' = [run EXCEPT ![r].pc = pc]

(* Of run r: a change that the run awaits, to go on at next *)
Await(r, kind, message, status, next) ==
  /\ BeginChange(Change(kind, r, r, run[r].thread, message, status, next))
  /\ run' = [run EXCEPT ![r].pc = "awaiting",
                        ![r].controller = kind \notin {"stream.done", "stream.error"}]
  /\ UNCHANGED <<server, mem, idb, ui, link, pull, updates, overlapped, restarts>>

(* messages.send arrives, with a provider and a model configured. *)
Send(r, t) ==
  /\ RunAt(r, "idle")
  /\ run' = [run EXCEPT ![r] = [@ EXCEPT !.pc = "post_user", !.thread = t]]
  /\ overlapped' = IF pull.pc # "none" /\ pull.thread = t THEN overlapped \union {t} ELSE overlapped
  /\ UNCHANGED <<server, mem, idb, ui, link, applies, pull, updates, raced, restarts>>

(* Where a run is as it posts a message, and once the backend has stored it *)
Posts  == [user |-> "post_user",   round |-> "post_round",   final |-> "post_final"]
Stores == [user |-> "stored_user", round |-> "stored_round", final |-> "stored_final"]

(* The backend stores the message that the run posts. *)
Store(r, stage) ==
  /\ RunAt(r, Posts[stage])
  /\ server' = [server EXCEPT ![run[r].thread] = Append(@, NewMessage)]
  /\ run' = [run EXCEPT ![r].pc = Stores[stage], ![r].last = NewMessage]
  /\ UNCHANGED <<mem, idb, ui, link, applies, pull, updates, raced, overlapped, restarts>>

(* Its answer: the message is appended. *)
Stages == {"user", "round", "final"}
Answered(r, stage) ==
  /\ RunAt(r, Stores[stage])
  /\ BeginChange(Change("messages.append", r, r, run[r].thread, run[r].last, "none",
                  CASE stage = "user" -> "waiting"
                    [] stage = "round" -> "reset"
                    [] OTHER -> "finish"))
  /\ run' = [run EXCEPT ![r].pc = "awaiting", ![r].mine = @ \union {run[r].last},
                        ![r].rounds = IF stage = "user" THEN 0 ELSE @ + 1]
  /\ UNCHANGED <<server, mem, idb, ui, link, pull, updates, overlapped, restarts>>

StatusWaiting(r) ==
  /\ RunAt(r, "waiting")
  /\ Await(r, "stream.status", 0, "waiting_agent", "starting")
StatusStreaming(r) ==
  /\ RunAt(r, "starting")
  /\ Await(r, "stream.status", 0, "streaming", "llm")

(* onChunk and onToolCallChunk do not await their change. *)
Chunk(r) ==
  /\ RunAt(r, "llm") /\ ~run[r].aborted /\ run[r].chunks < 1
  /\ BeginChange(Change("stream.chunk", r, r, run[r].thread, 0, "none", ""))
  /\ run' = [run EXCEPT ![r].chunks = @ + 1]
  /\ UNCHANGED <<server, mem, idb, ui, link, pull, updates, overlapped, restarts>>

(* The model answers without a tool call: what it said is persisted, even when  *)
(* it is empty and the first round; an empty later round ends the loop.         *)
LlmSays(r) ==
  /\ RunAt(r, "llm") /\ ~run[r].aborted
  /\ GoesTo(r, "post_final")
  /\ UNCHANGED <<server, mem, idb, ui, link, applies, pull, updates, raced, overlapped, restarts>>
LlmSaysNothing(r) ==
  /\ RunAt(r, "llm") /\ ~run[r].aborted /\ run[r].rounds > 0
  /\ GoesTo(r, "finish")
  /\ UNCHANGED <<server, mem, idb, ui, link, applies, pull, updates, raced, overlapped, restarts>>

(* It calls a tool: the result is a chunk, then the round is persisted, then reset. *)
LlmCallsTool(r) ==
  /\ RunAt(r, "llm") /\ ~run[r].aborted /\ run[r].rounds + 1 < MaxRounds
  /\ Await(r, "stream.chunk", 0, "none", "post_round")
Reset(r) ==
  /\ RunAt(r, "reset")
  /\ Await(r, "stream.reset", 0, "none", "llm")

(* stream.done carries the last message that was persisted. *)
Finish(r) ==
  /\ RunAt(r, "finish")
  /\ Await(r, "stream.done", run[r].last, "none", "over")

(* A call that rejects: outside the try block the run just ends. *)
Throws(r) ==
  /\ \/ run[r].pc \in {"llm", "post_round", "stored_round", "post_final", "stored_final"}
        /\ GoesTo(r, "fail")
     \/ run[r].pc \in {"post_user", "stored_user"} /\ GoesTo(r, "over")
  /\ UNCHANGED <<server, mem, idb, ui, link, applies, pull, updates, raced, overlapped, restarts>>
(* A plausible bug: the run's own error is not told, as cancel tells one. *)
FailQuietly(r) ==
  /\ RunAt(r, "fail")
  /\ GoesTo(r, "over")
  /\ UNCHANGED <<server, mem, idb, ui, link, applies, pull, updates, raced, overlapped, restarts>>

Fail(r) ==
  /\ RunAt(r, "fail")
  /\ Await(r, "stream.error", 0, "none", "over")

(* stream.cancel of a run that still has its controller *)
Cancel(r) ==
  /\ HasController(r) /\ ~run[r].aborted /\ ui.streams[r] # "none"
  /\ run' = [run EXCEPT ![r].aborted = TRUE]
  /\ BeginChange(Change("stream.error", "cancel", r, run[r].thread, 0, "none", ""))
  /\ UNCHANGED <<server, mem, idb, ui, link, pull, updates, overlapped, restarts>>

-----------------------------------------------------------------------------
(* sync.pull of the messages of a thread: the oldest ListCap of them.  (At most *)
(* one pull of a thread that has overlapped a run: a bound.)                    *)
Listed(t) ==
  SubSeq(server[t], 1, IF Len(server[t]) < ListCap THEN Len(server[t]) ELSE ListCap)
PullList(t) ==
  /\ pull.pc = "none" /\ server[t] # <<>> /\ t \notin overlapped
  /\ pull' = [pc |-> "listed", thread |-> t, messages |-> Listed(t)]
  /\ overlapped' = IF \E r \in Runs : Live(r) /\ run[r].thread = t
                   THEN overlapped \union {t} ELSE overlapped
  /\ UNCHANGED <<server, mem, idb, ui, link, applies, run, updates, raced, restarts>>
PullApply ==
  /\ pull.pc = "listed"
  /\ pull' = [pull EXCEPT !.pc = "applying"]
  /\ BeginChange(Change("messages.replaced", "pull", "pull", pull.thread, pull.messages,
                  "none", ""))
  /\ UNCHANGED <<server, mem, idb, ui, link, run, updates, overlapped, restarts>>

(* settings.update, after the backend's answer *)
SettingsUpdate ==
  /\ updates < MaxUpdates
  /\ updates' = updates + 1
  /\ BeginChange(Change("settings.updated", "settings", "settings", NoPull.thread, updates + 1,
                  "none", ""))
  /\ UNCHANGED <<server, mem, idb, ui, link, run, pull, overlapped, restarts>>

(* threads.create, threads.delete or sync.pull of the threads, after the        *)
(* backend's answer: the list is the backend's, or made of the one the worker   *)
(* had when the action came, which may lack any of them or be empty.            *)
ThreadsUpdate ==
  /\ updates < MaxUpdates
  /\ updates' = updates + 1
  /\ \E kept \in SUBSET Threads :
       BeginChange(Change("threads.updated", "threads", "threads", NoPull.thread, kept, "none", ""))
  /\ UNCHANGED <<server, mem, idb, ui, link, run, pull, overlapped, restarts>>

(* The worker ends with everything in flight.  A new version of it is hydrated  *)
(* with the threads that IndexedDB lists when it activates; the same one starts *)
(* with an empty state.                                                         *)
Ascending(S) ==
  CHOOSE s \in [1..Cardinality(S) -> S] : \A i, j \in DOMAIN s : i < j => s[i] < s[j]
Hydrated(listed) ==
  [idb EXCEPT !.messages =
     [t \in Threads |-> IF t \in listed THEN Ascending(idb.messages[t]) ELSE <<>>]]
Restart ==
  /\ restarts < MaxRestarts
  /\ restarts' = restarts + 1
  /\ mem' \in {EmptyState(<<>>)} \union {Hydrated(listed) : listed \in SUBSET Threads}
  /\ applies' = <<>> /\ pull' = NoPull
  /\ run' = [r \in Runs |-> [run[r] EXCEPT !.pc = IF Live(r) THEN "killed" ELSE @,
                                            !.controller = FALSE]]
  /\ UNCHANGED <<server, idb, ui, link, updates, raced, overlapped>>

AgentWorkerNext ==
  \/ ApplyEnd \/ ApplyRefused \/ Relink \/ PullApply \/ SettingsUpdate \/ ThreadsUpdate \/ Restart
  \/ \E t \in Threads : PullList(t) \/ \E r \in Runs : Send(r, t)
  \/ \E r \in Runs, stage \in Stages : Store(r, stage) \/ Answered(r, stage)
  \/ \E r \in Runs :
       \/ StatusWaiting(r) \/ StatusStreaming(r) \/ Chunk(r)
       \/ LlmSays(r) \/ LlmSaysNothing(r) \/ LlmCallsTool(r) \/ Reset(r)
       \/ Finish(r) \/ Throws(r) \/ Fail(r) \/ Cancel(r)

AgentWorkerSpec == AgentWorkerInit /\ [][AgentWorkerNext]_workerVars

-----------------------------------------------------------------------------
AgentWorkerTypeOK ==
  /\ \A t \in Threads : Stored \subseteq Nat /\ idb.messages[t] \subseteq Stored
                        /\ ToSet(mem.messages[t]) \union ToSet(ui.messages[t]) \subseteq Stored
  /\ {mem.streams, idb.streams, ui.streams} \subseteq [Runs -> Statuses]
  /\ pull.pc \in {"none", "listed", "applying"}
  /\ link.open \in BOOLEAN /\ link.unclosed \subseteq Runs /\ link.unseen \in [Threads -> SUBSET Stored]

AtRest(r) == RunAt(r, "over") /\ applies = <<>>
(* No pull of the thread met a run of it, or more messages than are listed. *)
ListedWhole(t) == t \notin overlapped /\ Len(server[t]) <= ListCap

(* A run that came to its end shows no stream that goes on: what it was         *)
(* answered, cancelled or failed with has ended the stream on the page,         *)
(* whatever changes of other runs came between, unless it ended while the page  *)
(* held no port, or on a write that IndexedDB rejected (nothing tells the page  *)
(* then, and the stream stays).                                                 *)
UiStreamsEnd ==
  \A r \in Runs : (AtRest(r) /\ r \notin link.unclosed) => ui.streams[r] \in {"none", "error"}

(* The messages that a run was answered, and IndexedDB did not reject, are in   *)
(* IndexedDB when it ends, and on the page if it heard of them and kept the     *)
(* thread, or has heard a pull of them since; unless a pull of the thread met   *)
(* a run of it or could not list them all.  (Lost updates of the memory do not  *)
(* reach either.)                                                               *)
PersistedShown ==
  \A r \in Runs : (AtRest(r) /\ ListedWhole(run[r].thread)) =>
    /\ run[r].mine \subseteq idb.messages[run[r].thread]
    /\ run[r].mine \ link.unseen[run[r].thread] \subseteq ToSet(ui.messages[run[r].thread])

(* The memory, which the next run sends as its history, has every message once  *)
(* as long as changes of two actions were never in flight together.             *)
MemoryKeepsHistory ==
  (~raced /\ restarts = 0) =>
    \A r \in Runs : (AtRest(r) /\ ListedWhole(run[r].thread)) =>
      /\ run[r].mine \subseteq ToSet(mem.messages[run[r].thread])
      /\ IsInjective(mem.messages[run[r].thread])

(* The three copies of a run's messages, in the page, in IndexedDB and in the  *)
(* worker, are whole when it ends.                                              *)
CopiesAreWhole == PersistedShown /\ MemoryKeepsHistory
=============================================================================
