---------------------------- MODULE AgentActions ----------------------------
(***************************************************************************)
(* How the agent's page talks to its service worker: sendAction with its   *)
(* timeout and its one retry, the port and the broadcast that the page     *)
(* hears only while it holds a port, and the worker's handler.  The action *)
(* followed here is threads.create; an attempt is <<action, 1 or 2>>.      *)
(***************************************************************************)
EXTENDS Naturals

CONSTANTS Actions, MaxDeaths   \* MaxDeaths: bound on the ends of the worker

ASSUME ActionsAssumption == MaxDeaths \in Nat

VARIABLES
  page,       \* per action: "idle", "connect", "pending", "resolved" or "rejected"
  tries,      \* per action: the attempts made
  port,       \* the page's swPort: none, to the living worker, or to a dead one
  work,       \* per attempt: how far the worker is with it
  base,       \* per attempt: the threads that its handler was called with
  threads,    \* the worker's threads
  shown,      \* the page's threads
  before,     \* per action: the threads that the page showed when it began
  stored,     \* the backend's threads, each named by its attempt
  deaths

actionVars == <<page, tries, port, work, base, threads, shown, before, stored, deaths>>

Attempts == Actions \X {1, 2}

AgentActionsInit ==
  /\ page = [a \in Actions |-> "idle"] /\ tries = [a \in Actions |-> 0]
  /\ port = "none"
  /\ work = [x \in Attempts |-> "none"] /\ base = [x \in Attempts |-> {}]
  /\ threads = {} /\ shown = {} /\ stored = {}
  /\ before = [a \in Actions |-> {}] /\ deaths = 0

Settled(a) == page[a] \in {"resolved", "rejected"}

(* createThread, or any sendAction that has an id; the actions are alike, and begin *)
(* one after the other.                                                             *)
Ask(a) ==
  /\ page[a] = "idle" /\ a = CHOOSE x \in Actions : page[x] = "idle"
  /\ page' = [page EXCEPT ![a] = "connect"] /\ before' = [before EXCEPT ![a] = shown]
  /\ UNCHANGED <<tries, port, work, base, threads, shown, stored, deaths>>

(* ensureSwPort gives the port there is, or connects; the timer starts, the action is sent. *)
Post(a) ==
  /\ page[a] = "connect"
  /\ page' = [page EXCEPT ![a] = "pending"] /\ tries' = [tries EXCEPT ![a] = @ + 1]
  /\ port' = IF port = "none" THEN "open" ELSE port
  /\ work' = IF port = "dead" THEN work ELSE [work EXCEPT ![<<a, tries[a] + 1>>] = "sent"]
  /\ UNCHANGED <<base, threads, shown, before, stored, deaths>>

(* The answer took too long: the port is dropped, and the action sent once more.  *)
Timeout(a) ==
  /\ page[a] = "pending"
  /\ port' = "none"
  /\ page' = [page EXCEPT ![a] = IF tries[a] = 1 THEN "connect" ELSE "rejected"]
  /\ UNCHANGED <<tries, work, base, threads, shown, before, stored, deaths>>

(* The handler is called with the state of now. *)
Handle(x) ==
  /\ work[x] = "sent"
  /\ work' = [work EXCEPT ![x] = "calling"] /\ base' = [base EXCEPT ![x] = threads]
  /\ UNCHANGED <<page, tries, port, threads, shown, before, stored, deaths>>

BackendStores(x) ==
  /\ work[x] = "calling"
  /\ work' = [work EXCEPT ![x] = "stored"] /\ stored' = stored \union {x}
  /\ UNCHANGED <<page, tries, port, base, threads, shown, before, deaths>>

(* The broadcast reaches the page while it holds a port, even one to a worker that *)
(* has died; the response settles the action that is pending under its id.         *)
Hears == port # "none"
Settles(a, how) == page' = IF Hears /\ page[a] = "pending" THEN [page EXCEPT ![a] = how] ELSE page

(* A plausible bug: the response is broadcast and the changes are not. *)
RespondFirst(x) ==
  /\ work[x] = "stored"
  /\ work' = [work EXCEPT ![x] = "done"]
  /\ threads' = base[x] \union {x}
  /\ Settles(x[1], "resolved")
  /\ UNCHANGED <<tries, port, base, shown, before, stored, deaths>>

Respond(x) ==
  /\ work[x] = "stored"
  /\ work' = [work EXCEPT ![x] = "done"]
  /\ threads' = base[x] \union {x}
  /\ shown' = IF Hears THEN threads' ELSE shown
  /\ Settles(x[1], "resolved")
  /\ UNCHANGED <<tries, port, base, before, stored, deaths>>

(* The backend, or IndexedDB, rejects. *)
RespondError(x) ==
  /\ work[x] \in {"calling", "stored"}
  /\ work' = [work EXCEPT ![x] = "done"]
  /\ Settles(x[1], "rejected")
  /\ UNCHANGED <<tries, port, base, threads, shown, before, stored, deaths>>

(* The browser ends the worker, which has no event to wait for; it starts anew, *)
(* with nothing in memory, at the next message to it.                           *)
Die ==
  /\ deaths < MaxDeaths
  /\ deaths' = deaths + 1
  /\ port' = IF port = "open" THEN "dead" ELSE port
  /\ work' = [x \in Attempts |-> IF work[x] = "none" THEN "none" ELSE "done"]
  /\ threads' = {}
  /\ UNCHANGED <<page, tries, base, shown, before, stored>>

AgentActionsNext ==
  \/ Die
  \/ \E a \in Actions : Ask(a) \/ Post(a) \/ Timeout(a)
  \/ \E x \in Attempts : Handle(x) \/ BackendStores(x) \/ Respond(x) \/ RespondError(x)

-----------------------------------------------------------------------------
AgentActionsTypeOK ==
  /\ page \in [Actions -> {"idle", "connect", "pending", "resolved", "rejected"}]
  /\ tries \in [Actions -> 0..2] /\ port \in {"none", "open", "dead"}
  /\ work \in [Attempts -> {"none", "sent", "calling", "stored", "done"}]
  /\ threads \union shown \union stored \subseteq Attempts /\ deaths \in 0..MaxDeaths

(* createThread finds a thread it had not seen when its action is resolved, and *)
(* so does not report a failure: also after a retry, with its first attempt     *)
(* answered late, and with other actions in between.                            *)
CreateFindsThread ==
  [][\A a \in Actions : (page[a] # "resolved" /\ page'[a] = "resolved") =>
        \E x \in shown' \ before[a] : x[1] = a]_actionVars

(* Every action that was asked for is settled: by its response, or by the timer *)
(* of its second attempt, whatever becomes of the worker.                       *)
ActionSettles == \A a \in Actions : page[a] = "connect" ~> Settled(a)

(* An action of the page ends, and ends well only with its own thread. *)
ActionEndsWell == CreateFindsThread /\ ActionSettles
=============================================================================
