----------------------------- MODULE WorkerProofs -----------------------------
(***************************************************************************)
(* The agent's service worker: every run that ends has closed its stream   *)
(* on the page, and the page, IndexedDB and the worker have its messages.  *)
(* The invariant says what is in the queue of changes, of which run and in *)
(* what order; the actions are proved by what they have in common: a       *)
(* change that a run awaits, a change of others, a move without a change.  *)
(***************************************************************************)
EXTENDS MCAgent, AgentProofs

WorkerPcs ==
  {"idle", "post_user", "stored_user", "awaiting", "waiting", "starting", "llm", "post_round",
   "stored_round", "reset", "post_final", "stored_final", "finish", "fail", "over", "killed"}
Nexts == {"", "waiting", "reset", "finish", "starting", "llm", "post_round", "over"}
RunKinds == {"messages.append", "stream.status", "stream.chunk", "stream.reset", "stream.done",
             "stream.error"}
OtherKinds == {"messages.replaced", "settings.updated", "threads.updated"}
Actors == Runs \union {"pull", "cancel", "settings", "threads"}
Values == Nat \union Seq(Nat) \union SUBSET Threads
Changes == {c \in [kind : RunKinds \union OtherKinds, by : Actors,
                   run : Actors, thread : Threads, message : Values, status : Statuses, next : Nexts] :
              /\ c.kind \in {"messages.append", "stream.done"} => c.message \in Nat
              /\ c.kind = "messages.replaced" => c.message \in Seq(Nat)
              /\ c.kind \in RunKinds => c.run \in Runs}
Links == [open : BOOLEAN, unseen : [Threads -> SUBSET Nat], unclosed : SUBSET Runs]
WorkerRuns == [pc : WorkerPcs, thread : Threads, mine : SUBSET Nat, last : Nat, rounds : Nat,
               chunks : Nat, controller : BOOLEAN, aborted : BOOLEAN]
States(Lists) == [messages : [Threads -> Lists], streams : [Runs -> Statuses], setting : Values]

Ch(i) == applies[i].change
IsQueue(s) == s \in Seq(ToSet(s))

WorkerTyped ==
  /\ server \in [Threads -> Seq(Nat)] /\ (\E k \in Nat : Stored \subseteq 1..k)
  /\ ui \in States(Seq(Nat)) /\ idb \in States(SUBSET Nat) /\ link \in Links
  /\ IsQueue(applies) /\ (\A i \in DOMAIN applies : Ch(i) \in Changes)
  /\ run \in [Runs -> WorkerRuns]
  /\ pull \in [pc : {"none", "listed", "applying"}, thread : Threads, messages : Seq(Nat)]
  /\ updates \in Nat /\ raced \in BOOLEAN /\ restarts \in Nat

-----------------------------------------------------------------------------
(* Queues and lists *)

LEMMA SeqIsQueue == ASSUME NEW S, NEW s \in Seq(S) PROVE IsQueue(s) /\ DOMAIN s = 1..Len(s) /\ Len(s) \in Nat
<1>1. s \in [1..Len(s) -> ToSet(s)] /\ Len(s) \in Nat
  BY DEF ToSet
<1>. QED BY <1>1 DEF IsQueue

LEMMA QueueGrows ==
  ASSUME NEW s, IsQueue(s), NEW e
  PROVE  /\ IsQueue(Append(s, e)) /\ Len(s) \in Nat
         /\ DOMAIN s = 1..Len(s) /\ DOMAIN Append(s, e) = 1..(Len(s) + 1)
         /\ Append(s, e)[Len(s) + 1] = e /\ \A i \in 1..Len(s) : Append(s, e)[i] = s[i]
<1>. DEFINE S == ToSet(s) \union {e}
<1>1. s \in Seq(S) /\ e \in S /\ Len(s) \in Nat
  BY DEF IsQueue
<1>. HIDE DEF S
<1>2. Append(s, e) \in Seq(S) /\ Len(Append(s, e)) = Len(s) + 1
  BY <1>1, AppendProperties
<1>3. IsQueue(Append(s, e)) /\ DOMAIN Append(s, e) = 1..(Len(s) + 1)
  BY <1>2, SeqIsQueue
<1>4. DOMAIN s = 1..Len(s)
  BY <1>1
<1>. QED BY <1>1, <1>3, <1>4, AppendProperties

LEMMA QueueShrinks ==
  ASSUME NEW s, IsQueue(s), s # <<>>
  PROVE  /\ IsQueue(Tail(s)) /\ Len(s) \in Nat /\ Len(s) >= 1 /\ Head(s) = s[1]
         /\ DOMAIN s = 1..Len(s) /\ DOMAIN Tail(s) = 1..(Len(s) - 1)
         /\ \A i \in 1..(Len(s) - 1) : Tail(s)[i] = s[i + 1]
<1>1. s \in Seq(ToSet(s)) /\ Len(s) \in Nat /\ Len(s) >= 1 /\ Head(s) = s[1]
  BY DEF IsQueue
<1>2. Tail(s) \in Seq(ToSet(s)) /\ Len(Tail(s)) = Len(s) - 1
  BY <1>1, HeadTailProperties
<1>. QED BY <1>1, <1>2, SeqIsQueue, HeadTailProperties

(* What ToSet holds after an append, and after an upsert *)
LEMMA ListGrows ==
  ASSUME NEW s \in Seq(Nat), NEW m \in Nat
  PROVE  /\ Append(s, m) \in Seq(Nat) /\ ToSet(Append(s, m)) = ToSet(s) \union {m}
         /\ IsInjective(s) /\ m \notin ToSet(s) => IsInjective(Append(s, m))
<1>1. /\ Append(s, m) \in Seq(Nat) /\ Len(Append(s, m)) = Len(s) + 1 /\ Len(s) \in Nat
      /\ Append(s, m)[Len(s) + 1] = m /\ \A i \in 1..Len(s) : Append(s, m)[i] = s[i]
  BY AppendProperties
<1>2. DOMAIN s = 1..Len(s) /\ DOMAIN Append(s, m) = 1..(Len(s) + 1)
  BY <1>1
<1>. DEFINE u == Append(s, m)
<1>. HIDE DEF u
<1>3. ToSet(u) = ToSet(s) \union {m}
  <2>1. \A x \in ToSet(u) : x \in ToSet(s) \union {m}
    BY <1>1, <1>2 DEF ToSet, u
  <2>2. m \in ToSet(u)
    BY <1>1, <1>2 DEF ToSet, u
  <2>3. \A x \in ToSet(s) : x \in ToSet(u)
    <3>. SUFFICES ASSUME NEW i \in 1..Len(s) PROVE s[i] \in ToSet(u)
      BY <1>2 DEF ToSet
    <3>1. i \in 1..(Len(s) + 1) /\ u[i] = s[i]
      BY <1>1 DEF u
    <3>. QED BY <1>2, <3>1 DEF ToSet, u
  <2>. QED BY <2>1, <2>2, <2>3
<1>4. ASSUME IsInjective(s), m \notin ToSet(s) PROVE IsInjective(u)
  <2>. SUFFICES ASSUME NEW i \in 1..(Len(s) + 1), NEW j \in 1..(Len(s) + 1), u[i] = u[j] PROVE i = j
    BY <1>2 DEF IsInjective, u
  <2>1. \A k \in 1..Len(s) : u[k] = s[k] /\ u[k] # m
    BY <1>1, <1>2, <1>4 DEF u, ToSet
  <2>2. u[Len(s) + 1] = m
    BY <1>1 DEF u
  <2>3. CASE i \in 1..Len(s) /\ j \in 1..Len(s)
    BY <1>2, <1>4, <2>1, <2>3 DEF IsInjective
  <2>4. CASE i = Len(s) + 1 \/ j = Len(s) + 1
    BY <1>1, <2>1, <2>2, <2>4
  <2>. QED BY <1>1, <2>3, <2>4
<1>. QED BY <1>1, <1>3, <1>4 DEF u

LEMMA UpsertIs ==
  ASSUME NEW s \in Seq(Nat), NEW m \in Nat
  PROVE  /\ Upsert(s, m) \in Seq(Nat) /\ ToSet(Upsert(s, m)) = ToSet(s) \union {m}
         /\ IsInjective(s) => IsInjective(Upsert(s, m))
<1>1. Contains(s, m) <=> m \in ToSet(s)
  BY DEF Contains, ToSet
<1>. QED BY <1>1, ListGrows DEF Upsert

-----------------------------------------------------------------------------
(* What a change does to the page and to IndexedDB *)

LEMMA StreamsTyped ==
  ASSUME NEW c \in Changes, NEW f \in [Runs -> Statuses]
  PROVE  /\ StreamsAfter(c, f) \in [Runs -> Statuses]
         /\ \A r \in Runs : ~ (c.run = r /\ c.kind \in RunKinds) => StreamsAfter(c, f)[r] = f[r]
         /\ c.kind \in RunKinds => StreamsAfter(c, f)[c.run] = StreamAfter(c, f[c.run])
<1>1. \A st \in Statuses : StreamAfter(c, st) \in Statuses
  BY DEF StreamAfter, Statuses, Changes
<1>2. c.kind \in RunKinds \union OtherKinds /\ (c.kind \in RunKinds => c.run \in Runs)
  BY DEF Changes
<1>3. c.kind \in OtherKinds => c.kind \notin RunKinds
  BY DEF RunKinds, OtherKinds
<1>4. CASE c.kind \in {"messages.append"} \union OtherKinds
  BY <1>2, <1>3, <1>4 DEF StreamsAfter, StreamAfter, OtherKinds
<1>5. CASE c.kind \notin {"messages.append"} \union OtherKinds
  <2>1. c.run \in Runs /\ c.kind \in RunKinds /\ f[c.run] \in Statuses
    BY <1>2, <1>5
  <2>2. StreamsAfter(c, f) = [f EXCEPT ![c.run] = StreamAfter(c, f[c.run])]
    BY <1>5 DEF StreamsAfter, OtherKinds
  <2>. QED BY <1>1, <2>1, <2>2
<1>. QED BY <1>4, <1>5

LEMMA SettingTyped ==
  ASSUME NEW c \in Changes, NEW v \in Values
  PROVE  SettingAfter(c, v) \in Values
BY DEF SettingAfter, Changes

LEMMA UiIs ==
  ASSUME NEW c \in Changes, NEW s \in States(Seq(Nat))
  PROVE  /\ UiAfter(s, c) \in States(Seq(Nat))
         /\ UiAfter(s, c).streams = StreamsAfter(c, s.streams)
         /\ \A t \in Threads : t # c.thread /\ c.kind # "threads.updated" =>
               UiAfter(s, c).messages[t] = s.messages[t]
         /\ c.kind \in {"messages.append", "stream.done"} =>
               UiAfter(s, c).messages[c.thread] = Upsert(s.messages[c.thread], c.message)
         /\ c.kind = "messages.replaced" => UiAfter(s, c).messages[c.thread] = c.message
         /\ c.kind = "threads.updated" => \A t \in Threads :
               UiAfter(s, c).messages[t] = IF t \in c.message THEN s.messages[t] ELSE <<>>
         /\ c.kind \notin {"messages.append", "stream.done", "messages.replaced", "threads.updated"} =>
               UiAfter(s, c).messages[c.thread] = s.messages[c.thread]
<1>. DEFINE l(t) == CASE c.kind = "threads.updated" /\ t \notin c.message -> <<>>
                      [] c.kind = "messages.replaced" /\ t = c.thread -> c.message
                      [] c.kind \in {"messages.append", "stream.done"} /\ t = c.thread ->
                           Upsert(s.messages[t], c.message)
                      [] OTHER -> s.messages[t]
            ls == [t \in Threads |-> l(t)]
<1>1. /\ s.messages \in [Threads -> Seq(Nat)] /\ c.thread \in Threads /\ s.streams \in [Runs -> Statuses]
      /\ s.setting \in Values
  BY DEF States, Changes
<1>2. /\ c.kind \in {"messages.append", "stream.done"} => l(c.thread) = Upsert(s.messages[c.thread], c.message)
      /\ c.kind = "messages.replaced" => l(c.thread) = c.message
      /\ \A t \in Threads : c.kind = "threads.updated" => l(t) = IF t \in c.message THEN s.messages[t] ELSE <<>>
      /\ \A t \in Threads : t # c.thread /\ c.kind # "threads.updated" => l(t) = s.messages[t]
      /\ c.kind \notin {"messages.append", "stream.done", "messages.replaced", "threads.updated"} =>
           l(c.thread) = s.messages[c.thread]
  OBVIOUS
<1>3. \A t \in Threads : l(t) \in Seq(Nat)
  <2>1. c.kind \in {"messages.append", "stream.done"} => c.message \in Nat
    BY DEF Changes
  <2>2. c.kind = "messages.replaced" => c.message \in Seq(Nat)
    BY DEF Changes
  <2>3. \A t \in Threads : s.messages[t] \in Seq(Nat)
    BY <1>1
  <2>4. c.message \in Nat => Upsert(s.messages[c.thread], c.message) \in Seq(Nat)
    BY <1>1, <2>3, UpsertIs
  <2>5. <<>> \in Seq(Nat)
    OBVIOUS
  <2>. SUFFICES ASSUME NEW t \in Threads PROVE l(t) \in Seq(Nat)
    OBVIOUS
  <2>6. CASE t = c.thread
    <3>. HIDE DEF l
    <3>. QED BY <1>2, <2>1, <2>2, <2>3, <2>4, <2>5, <2>6
  <2>7. CASE t # c.thread
    <3>. HIDE DEF l
    <3>. QED BY <1>2, <2>3, <2>5, <2>7
  <2>. QED BY <2>6, <2>7
<1>4. UiAfter(s, c) = [messages |-> ls,
                       streams |-> StreamsAfter(c, s.streams), setting |-> SettingAfter(c, s.setting)]
  BY DEF UiAfter
<1>. HIDE DEF l
<1>5. ls \in [Threads -> Seq(Nat)] /\ \A t \in Threads : ls[t] = l(t)
  BY <1>3
<1>. HIDE DEF ls
<1>6. UiAfter(s, c) \in States(Seq(Nat))
  BY <1>1, <1>4, <1>5, StreamsTyped, SettingTyped DEF States
<1>7. UiAfter(s, c).messages = ls /\ UiAfter(s, c).streams = StreamsAfter(c, s.streams)
  BY <1>4
<1>. QED BY <1>1, <1>2, <1>5, <1>6, <1>7

LEMMA IdbIs ==
  ASSUME NEW c \in Changes, NEW s \in States(SUBSET Nat)
  PROVE  /\ IdbAfter(s, c) \in States(SUBSET Nat)
         /\ \A t \in Threads : t # c.thread => IdbAfter(s, c).messages[t] = s.messages[t]
         /\ c.kind \in {"messages.append", "stream.done"} =>
               IdbAfter(s, c).messages[c.thread] = s.messages[c.thread] \union {c.message}
         /\ c.kind = "messages.replaced" => IdbAfter(s, c).messages[c.thread] = ToSet(c.message)
         /\ c.kind \notin {"messages.append", "stream.done", "messages.replaced"} =>
               IdbAfter(s, c).messages[c.thread] = s.messages[c.thread]
<1>. DEFINE l == CASE c.kind \in {"messages.append", "stream.done"} -> s.messages[c.thread] \union {c.message}
                   [] c.kind = "messages.replaced" -> ToSet(c.message)
                   [] OTHER -> s.messages[c.thread]
<1>1. /\ s.messages \in [Threads -> SUBSET Nat] /\ c.thread \in Threads /\ s.streams \in [Runs -> Statuses]
      /\ s.setting \in Values
  BY DEF States, Changes
<1>2. /\ c.kind \in {"messages.append", "stream.done"} => l = s.messages[c.thread] \union {c.message}
      /\ c.kind = "messages.replaced" => l = ToSet(c.message)
      /\ c.kind \notin {"messages.append", "stream.done", "messages.replaced"} => l = s.messages[c.thread]
  OBVIOUS
<1>3. l \in SUBSET Nat
  <2>1. c.kind \in {"messages.append", "stream.done"} => c.message \in Nat
    BY DEF Changes
  <2>2. c.kind = "messages.replaced" => ToSet(c.message) \in SUBSET Nat
    BY DEF Changes, ToSet
  <2>. HIDE DEF l
  <2>. QED BY <1>1, <1>2, <2>1, <2>2
<1>4. IdbAfter(s, c) = [messages |-> [s.messages EXCEPT ![c.thread] = l],
                        streams |-> StreamsAfter(c, s.streams), setting |-> SettingAfter(c, s.setting)]
  BY DEF IdbAfter
<1>. HIDE DEF l
<1>. QED BY <1>1, <1>2, <1>3, <1>4, StreamsTyped, SettingTyped DEF States

-----------------------------------------------------------------------------
(* The typing of the worker *)

(* A bounded set of numbers has a greatest one. *)
LEMMA GreatestOf ==
  ASSUME NEW T, T # {}, NEW n \in Nat, T \subseteq 0..n
  PROVE  \E m \in T : \A j \in T : j <= m
<1>. DEFINE U == {k \in Nat : n - k \in T}
<1>1. U \subseteq Nat /\ U # {}
  <2>1. PICK m \in T : TRUE
    OBVIOUS
  <2>2. n - m \in Nat /\ n - (n - m) = m
    OBVIOUS
  <2>. QED BY <2>1, <2>2
<1>2. PICK k \in U : \A j \in U : k <= j
  <2>. HIDE DEF U
  <2>. QED BY <1>1, SmallestOf
<1>3. n - k \in T
  OBVIOUS
<1>4. \A m \in T : m <= n - k
  <2>. SUFFICES ASSUME NEW m \in T PROVE m <= n - k
    OBVIOUS
  <2>1. m \in 0..n /\ n - m \in Nat /\ n - (n - m) = m
    OBVIOUS
  <2>2. n - m \in U
    BY <2>1
  <2>3. k \in Nat /\ k <= n - m
    BY <1>2, <2>2
  <2>. QED BY <2>1, <2>3
<1>. HIDE DEF U
<1>. QED BY <1>3, <1>4

(* A message that the backend stores has a number of its own. *)
LEMMA NewIsNew ==
  ASSUME WorkerTyped
  PROVE  /\ NewMessage \in Nat \ {0} /\ NewMessage \notin Stored
         /\ Stored \union {NewMessage} \subseteq 1..NewMessage
<1>1. PICK k \in Nat : Stored \subseteq 1..k
  BY DEF WorkerTyped
<1>2. CASE Stored = {}
  BY <1>2 DEF NewMessage
<1>3. CASE Stored # {}
  <2>1. Stored \subseteq 0..k
    BY <1>1
  <2>2. \E m \in Stored : \A j \in Stored : j <= m
    BY <1>3, <2>1, GreatestOf
  <2>. DEFINE top == CHOOSE m \in Stored : \A n \in Stored : n <= m
  <2>3. top \in Stored /\ \A n \in Stored : n <= top
    BY <2>2
  <2>4. NewMessage = 1 + top
    BY <1>3 DEF NewMessage
  <2>. HIDE DEF top
  <2>5. top \in Nat /\ \A n \in Stored : n \in Nat /\ n > 0
    BY <1>1, <2>3
  <2>. QED BY <2>3, <2>4, <2>5
<1>. QED BY <1>2, <1>3

LEMMA WorkerTypedInit == AgentWorkerInit => WorkerTyped
<1>. SUFFICES ASSUME AgentWorkerInit PROVE WorkerTyped
  OBVIOUS
<1>1. NoPull.thread \in Threads /\ NoPull \in [pc : {"none", "listed", "applying"}, thread : Threads, messages : Seq(Nat)]
  BY WorkerAssumption DEF NoPull
<1>2. /\ server \in [Threads -> Seq(Nat)] /\ \A t \in Threads : server[t] = <<>>
  BY DEF AgentWorkerInit
<1>3. Stored \subseteq 1..0
  BY <1>2 DEF Stored, ToSet
<1>4. ui \in States(Seq(Nat)) /\ idb \in States(SUBSET Nat) /\ link \in Links
  BY DEF AgentWorkerInit, EmptyState, States, Statuses, Values, Links
<1>5. IsQueue(applies) /\ DOMAIN applies = {}
  <2>1. <<>> \in Seq({}) /\ Len(<<>>) = 0
    OBVIOUS
  <2>2. IsQueue(<<>>) /\ DOMAIN <<>> = 1..0
    BY <2>1, SeqIsQueue
  <2>. QED BY <2>2 DEF AgentWorkerInit
<1>6. run \in [Runs -> WorkerRuns]
  BY <1>1 DEF AgentWorkerInit, WorkerRuns, WorkerPcs
<1>. QED
  BY <1>1, <1>2, <1>3, <1>4, <1>5, <1>6 DEF AgentWorkerInit, WorkerTyped

LEMMA WorkerTypedStutter == WorkerTyped /\ UNCHANGED workerVars => WorkerTyped'
BY DEF workerVars, WorkerTyped, Stored, Ch

(* A change is queued: it comes last. *)
LEMMA BeginIs ==
  ASSUME WorkerTyped, NEW c \in Changes, BeginChange(c)
  PROVE  /\ IsQueue(applies') /\ (\A i \in DOMAIN applies' : applies'[i].change \in Changes)
         /\ raced' \in BOOLEAN
         /\ Len(applies) \in Nat /\ DOMAIN applies = 1..Len(applies)
         /\ DOMAIN applies' = 1..(Len(applies) + 1)
         /\ applies'[Len(applies) + 1].change = c /\ applies'[Len(applies) + 1].base = mem
         /\ \A i \in 1..Len(applies) : applies'[i] = applies[i]
         /\ ~raced' => ~raced /\ \A i \in 1..Len(applies) : applies[i].change.by = c.by
<1>. DEFINE e == [change |-> c, base |-> mem]
<1>1. applies' = Append(applies, e)
  BY DEF BeginChange
<1>2. e.change = c /\ e.base = mem
  OBVIOUS
<1>. HIDE DEF e
<1>3. IsQueue(applies) /\ \A i \in DOMAIN applies : applies[i].change \in Changes
  BY DEF WorkerTyped, Ch
<1>4. /\ IsQueue(applies') /\ Len(applies) \in Nat
      /\ DOMAIN applies = 1..Len(applies) /\ DOMAIN applies' = 1..(Len(applies) + 1)
      /\ applies'[Len(applies) + 1] = e /\ \A i \in 1..Len(applies) : applies'[i] = applies[i]
  BY <1>1, <1>3, QueueGrows
<1>5. applies'[Len(applies) + 1].change = c /\ applies'[Len(applies) + 1].base = mem
  BY <1>2, <1>4
<1>6. \A i \in DOMAIN applies' : applies'[i].change \in Changes
  <2>. SUFFICES ASSUME NEW i \in DOMAIN applies' PROVE applies'[i].change \in Changes
    OBVIOUS
  <2>1. CASE i = Len(applies) + 1
    BY <1>5, <2>1
  <2>2. CASE i \in 1..Len(applies)
    BY <1>3, <1>4, <2>2
  <2>. QED BY <1>4, <2>1, <2>2
<1>7. raced' \in BOOLEAN /\ (~raced' => ~raced /\ \A i \in DOMAIN applies : applies[i].change.by = c.by)
  BY DEF BeginChange, WorkerTyped
<1>. QED BY <1>4, <1>5, <1>6, <1>7

-----------------------------------------------------------------------------
(* The invariant *)

Of(c, r) == c.run = r /\ c.kind \in RunKinds
Early == {"idle", "post_user", "stored_user"}
StoredPcs == {"stored_user", "stored_round", "stored_final"}
Changing == {"messages.append", "stream.done", "messages.replaced"}

(* What one change says of its run, its message and the pull in progress *)
EntryOk(d, rn, srv, pl) ==
  /\ d.next # "" => /\ d.kind \in RunKinds /\ d.by = d.run
                    /\ rn[d.run].pc = "awaiting" /\ d.thread = rn[d.run].thread
  /\ d.next = "over" => d.kind \in {"stream.done", "stream.error"} /\ ~rn[d.run].controller
  /\ d.next = "finish" => d.kind = "messages.append"
  /\ d.kind = "messages.append" => d.next # "over"
  /\ d.kind \in {"messages.append", "stream.done"} =>
       d.next # "" /\ d.message = rn[d.run].last /\ d.message \in ToSet(srv[d.thread])
  /\ d.kind = "messages.replaced" =>
       pl.pc = "applying" /\ d.by = "pull" /\ d.thread = pl.thread /\ d.message = pl.messages

(* Of two changes, d queued before e: a run awaits one at most, and what ends its *)
(* stream comes last of it.                                                       *)
InOrder(d, e) ==
  /\ ~(d.next # "" /\ e.next # "" /\ d.run = e.run)
  /\ ~(d.kind = "messages.replaced" /\ e.kind = "messages.replaced")
  /\ d.next = "over" => ~Of(e, d.run)

QueueOrder ==
  /\ \A i \in DOMAIN applies : EntryOk(Ch(i), run, server, pull)
  /\ \A i, j \in DOMAIN applies : i < j => InOrder(Ch(i), Ch(j))

(* A run before its first change, and a run that is over and has told it *)
Outside(n, told) == n.pc \in Early \/ (n.pc = "over" /\ told)
OutsideOk(n, status, told) ==
  /\ n.pc \in Early => status = "none" /\ n.mine = {} /\ ~n.controller
  /\ n.pc = "over" /\ told => status \in {"none", "error"} /\ ~n.controller
RunsOutside ==
  \A r \in Runs :
    /\ OutsideOk(run[r], ui.streams[r], r \notin link.unclosed)
    /\ Outside(run[r], r \notin link.unclosed) => \A i \in DOMAIN applies : ~Of(Ch(i), r)

(* A message is in the list of one thread, once, and the last of one run. *)
OwnedBy(n, srv) ==
  /\ n.mine \subseteq ToSet(srv[n.thread]) /\ n.last \in ToSet(srv[n.thread]) \union {0}
  /\ n.pc = "idle" => n.last = 0
  /\ n.pc \in StoredPcs \union {"finish"} \/ n.rounds > 0 => n.last # 0
Owned ==
  /\ \A t \in Threads : IsInjective(server[t])
  /\ \A r \in Runs : OwnedBy(run[r], server)
  /\ \A r, s \in Runs : r # s /\ run[r].last = run[s].last => run[r].last = 0

(* A pull that met no run of its thread has all that the backend holds of it. *)
NotLive(n) == n.pc \in {"idle", "over", "killed"}
PullIsWhole ==
  pull.pc # "none" /\ pull.thread \notin overlapped =>
    /\ \A r \in Runs : run[r].thread = pull.thread => NotLive(run[r])
    /\ Len(server[pull.thread]) <= ListCap => pull.messages = server[pull.thread]

(* ListedWhole, and an append of m by r in the queue q *)
Lists(t, srv, ov) == t \notin ov /\ Len(srv[t]) <= ListCap
Queued(q, r, m) ==
  \E i \in DOMAIN q :
    q[i].change.kind = "messages.append" /\ q[i].change.run = r /\ q[i].change.message = m

(* IndexedDB has the message, and the page has it or missed it. *)
Kept(m, t) == m \in idb.messages[t] /\ m \in ToSet(ui.messages[t]) \union link.unseen[t]
Persisting ==
  \A r \in Runs : run[r].pc # "killed" /\ Lists(run[r].thread, server, overlapped) =>
    \A m \in run[r].mine :
      \/ Queued(applies, r, m)
      \/ Kept(m, run[r].thread)

(* No two actions had changes in flight at once: what is queued started from the *)
(* memory as it is, and a change of a list is the last of the queue.             *)
Calm == ~raced /\ restarts = 0
CalmQueue ==
  /\ \A i \in DOMAIN applies : applies[i].base.messages = mem.messages
  /\ \A i, j \in DOMAIN applies : i < j => Ch(i).by = Ch(j).by /\ Ch(i).kind \notin Changing
CalmLists ==
  /\ \A t \in Threads : Lists(t, server, overlapped) =>
       IsInjective(mem.messages[t]) /\ ToSet(mem.messages[t]) \subseteq ToSet(server[t])
  /\ \A i \in DOMAIN applies : Ch(i).kind = "messages.append" /\ Lists(Ch(i).thread, server, overlapped) =>
       Ch(i).message \notin ToSet(mem.messages[Ch(i).thread])
CalmRuns ==
  \A r \in Runs : Lists(run[r].thread, server, overlapped) =>
    /\ run[r].pc \in StoredPcs => run[r].last \notin ToSet(mem.messages[run[r].thread])
    /\ \A m \in run[r].mine : Queued(applies, r, m) \/ m \in ToSet(mem.messages[run[r].thread])
Remembering ==
  Calm => mem.messages \in [Threads -> Seq(Nat)] /\ CalmQueue /\ CalmLists /\ CalmRuns

WorkerInv ==
  WorkerTyped /\ QueueOrder /\ RunsOutside /\ Owned /\ PullIsWhole /\ Persisting /\ Remembering

LEMMA WorkerInvInit == AgentWorkerInit => WorkerInv
<1>. SUFFICES ASSUME AgentWorkerInit PROVE WorkerInv
  OBVIOUS
<1>1. WorkerTyped
  BY WorkerTypedInit
<1>2. /\ DOMAIN applies = {} /\ pull.pc = "none" /\ \A t \in Threads : server[t] = <<>> /\ mem.messages[t] = <<>>
      /\ mem.messages \in [Threads -> Seq(Nat)]
      /\ \A r \in Runs : /\ run[r].pc = "idle" /\ run[r].mine = {} /\ run[r].last = 0 /\ run[r].rounds = 0
                         /\ ~run[r].controller /\ ui.streams[r] = "none" /\ run[r].thread \in Threads
  <2>1. applies = <<>> /\ pull.pc = "none"
    BY DEF AgentWorkerInit, NoPull
  <2>2. DOMAIN <<>> = {}
    OBVIOUS
  <2>3. NoPull.thread \in Threads
    BY WorkerAssumption DEF NoPull
  <2>. QED BY <2>1, <2>2, <2>3 DEF AgentWorkerInit, EmptyState
<1>3. ToSet(<<>>) = {} /\ IsInjective(<<>>)
  BY DEF ToSet, IsInjective
<1>4. QueueOrder /\ RunsOutside
  BY <1>2 DEF QueueOrder, RunsOutside, OutsideOk
<1>5. Owned
  BY <1>2, <1>3 DEF Owned, OwnedBy, StoredPcs
<1>6. PullIsWhole /\ Persisting
  BY <1>2 DEF PullIsWhole, Persisting
<1>7. Remembering
  BY <1>2, <1>3 DEF Remembering, CalmQueue, CalmLists, CalmRuns, StoredPcs
<1>. QED BY <1>1, <1>4, <1>5, <1>6, <1>7 DEF WorkerInv

LEMMA WorkerInvStutter == WorkerInv /\ UNCHANGED workerVars => WorkerInv'
<1>. SUFFICES ASSUME WorkerInv, UNCHANGED workerVars PROVE WorkerInv'
  OBVIOUS
<1>1. WorkerTyped'
  BY WorkerTypedStutter DEF WorkerInv
<1>2. QueueOrder' /\ RunsOutside'
  BY DEF WorkerInv, workerVars, QueueOrder, RunsOutside, Ch
<1>3. Owned' /\ PullIsWhole'
  BY DEF WorkerInv, workerVars, Owned, PullIsWhole
<1>4. Persisting'
  BY DEF WorkerInv, workerVars, Persisting, Kept
<1>5. Remembering'
  BY DEF WorkerInv, workerVars, Remembering, Calm, CalmQueue, CalmLists, CalmRuns, Ch
<1>. QED BY <1>1, <1>2, <1>3, <1>4, <1>5 DEF WorkerInv

-----------------------------------------------------------------------------
(* A run queues a change of its own, and is n afterwards. *)
QueuesOwn(r, c, n) ==
  /\ r \in Runs /\ c \in Changes /\ n \in WorkerRuns
  /\ BeginChange(c) /\ run' = [run EXCEPT ![r] = n]
  /\ UNCHANGED <<server, mem, idb, ui, link, pull, updates, overlapped, restarts>>
  /\ c.by = r /\ c.run = r /\ c.thread = run[r].thread /\ c.kind \in RunKinds
  /\ run[r].pc \notin {"idle", "post_user", "over", "killed", "awaiting"}
  /\ n.thread = run[r].thread /\ n.last = run[r].last
  /\ n.rounds = run[r].rounds \/ run[r].pc \in StoredPcs
  /\ IF c.next = "" THEN n.pc = "llm" /\ c.kind = "stream.chunk" ELSE n.pc = "awaiting"
  /\ run[r].pc = "stored_user" => c.kind = "messages.append"
  /\ c.next = "over" => c.kind \in {"stream.done", "stream.error"} /\ ~n.controller
  /\ c.next = "finish" => c.kind = "messages.append"
  /\ c.kind \in {"messages.append", "stream.done"} => c.next # "" /\ c.message = run[r].last
  /\ IF c.kind = "messages.append"
     THEN c.next # "over" /\ run[r].pc \in StoredPcs /\ n.mine = run[r].mine \union {run[r].last}
     ELSE n.mine = run[r].mine
  /\ c.kind = "stream.done" => run[r].pc = "finish"

LEMMA AwaitOwn ==
  ASSUME WorkerTyped, NEW r \in Runs, NEW kind, NEW m \in Nat, NEW st \in Statuses, NEW nx \in Nexts,
         Await(r, kind, m, st, nx), nx # "", kind \in RunKinds \ {"messages.append"},
         run[r].pc \notin Early \union {"over", "killed", "awaiting"}, nx # "finish",
         nx = "over" => kind \in {"stream.done", "stream.error"},
         kind = "stream.done" => m = run[r].last /\ run[r].pc = "finish"
  PROVE  \E c, n : QueuesOwn(r, c, n)
<1>. DEFINE c == Change(kind, r, r, run[r].thread, m, st, nx)
            n == [run[r] EXCEPT !.pc = "awaiting", !.controller = kind \notin {"stream.done", "stream.error"}]
<1>1. run[r] \in WorkerRuns /\ run[r].thread \in Threads
  BY DEF WorkerTyped, WorkerRuns
<1>2. n \in WorkerRuns /\ n = [run[r] EXCEPT !.pc = "awaiting", !.controller = n.controller]
  BY <1>1 DEF WorkerRuns, WorkerPcs
<1>3. /\ n.pc = "awaiting" /\ n.thread = run[r].thread /\ n.last = run[r].last /\ n.rounds = run[r].rounds
      /\ n.mine = run[r].mine /\ (kind \in {"stream.done", "stream.error"} => ~n.controller)
  BY <1>1 DEF WorkerRuns
<1>4. /\ c.kind = kind /\ c.by = r /\ c.run = r /\ c.thread = run[r].thread /\ c.message = m /\ c.next = nx
      /\ c.status = st
  BY DEF Change
<1>5. c \in Changes
  BY <1>1 DEF Change, Changes, Actors, Values, RunKinds
<1>6. BeginChange(c) /\ run' = [run EXCEPT ![r] = n]
  BY <1>1 DEF Await, WorkerTyped
<1>7. UNCHANGED <<server, mem, idb, ui, link, pull, updates, overlapped, restarts>>
  BY DEF Await
<1>. HIDE DEF c, n
<1>8. QueuesOwn(r, c, n)
  BY <1>2, <1>3, <1>4, <1>5, <1>6, <1>7 DEF QueuesOwn, Early
<1>. QED BY <1>8

LEMMA AnsweredOwn ==
  ASSUME WorkerTyped, NEW r \in Runs, NEW stage \in Stages, Answered(r, stage)
  PROVE  \E c, n : QueuesOwn(r, c, n)
<1>. DEFINE nx == CASE stage = "user" -> "waiting" [] stage = "round" -> "reset" [] OTHER -> "finish"
            c == Change("messages.append", r, r, run[r].thread, run[r].last, "none", nx)
            k == IF stage = "user" THEN 0 ELSE run[r].rounds + 1
            n == [run[r] EXCEPT !.pc = "awaiting", !.mine = @ \union {run[r].last}, !.rounds = k]
<1>1. run[r] \in WorkerRuns /\ run[r].thread \in Threads /\ run[r].last \in Nat /\ run[r].rounds \in Nat
  BY DEF WorkerTyped, WorkerRuns
<1>2. nx \in {"waiting", "reset", "finish"} /\ run[r].pc \in StoredPcs
  BY DEF Answered, RunAt, Stores, Stages, StoredPcs
<1>6. BeginChange(c) /\ run' = [run EXCEPT ![r] = n]
  BY <1>1 DEF Answered, WorkerTyped
<1>9. k \in Nat
  BY <1>1
<1>. HIDE DEF k
<1>3. /\ n \in WorkerRuns /\ n.pc = "awaiting" /\ n.thread = run[r].thread /\ n.last = run[r].last
      /\ n.mine = run[r].mine \union {run[r].last}
  BY <1>1, <1>9 DEF WorkerRuns, WorkerPcs
<1>7. UNCHANGED <<server, mem, idb, ui, link, pull, updates, overlapped, restarts>>
  BY DEF Answered
<1>. HIDE DEF nx, n
<1>4. /\ c.kind = "messages.append" /\ c.by = r /\ c.run = r /\ c.thread = run[r].thread /\ c.message = run[r].last
      /\ c.next = nx
  BY DEF Change
<1>5. c \in Changes
  BY <1>1, <1>2 DEF Change, Changes, Actors, Values, RunKinds, Nexts, Statuses
<1>. HIDE DEF c
<1>8. QueuesOwn(r, c, n)
  BY <1>2, <1>3, <1>4, <1>5, <1>6, <1>7 DEF QueuesOwn, StoredPcs, RunKinds
<1>. QED BY <1>8

LEMMA ChunkOwn ==
  ASSUME WorkerTyped, NEW r \in Runs, Chunk(r)
  PROVE  \E c, n : QueuesOwn(r, c, n)
<1>. DEFINE c == Change("stream.chunk", r, r, run[r].thread, 0, "none", "")
            n == [run[r] EXCEPT !.chunks = @ + 1]
<1>1. run[r] \in WorkerRuns /\ run[r].thread \in Threads /\ run[r].pc = "llm" /\ run[r].chunks \in Nat
  BY DEF WorkerTyped, WorkerRuns, Chunk, RunAt
<1>3. /\ n \in WorkerRuns /\ n.pc = "llm" /\ n.thread = run[r].thread /\ n.last = run[r].last
      /\ n.mine = run[r].mine /\ n.rounds = run[r].rounds
  BY <1>1 DEF WorkerRuns
<1>6. BeginChange(c) /\ run' = [run EXCEPT ![r] = n]
  BY <1>1 DEF Chunk, WorkerTyped
<1>7. UNCHANGED <<server, mem, idb, ui, link, pull, updates, overlapped, restarts>>
  BY DEF Chunk
<1>. HIDE DEF n
<1>4. c.kind = "stream.chunk" /\ c.by = r /\ c.run = r /\ c.thread = run[r].thread /\ c.next = ""
  BY DEF Change
<1>5. c \in Changes
  BY <1>1 DEF Change, Changes, Actors, Values, RunKinds, Nexts, Statuses
<1>. HIDE DEF c
<1>8. QueuesOwn(r, c, n)
  BY <1>1, <1>3, <1>4, <1>5, <1>6, <1>7 DEF QueuesOwn, RunKinds
<1>. QED BY <1>8

-----------------------------------------------------------------------------
(* What a run's own change keeps *)

LEMMA OwnIs ==
  ASSUME WorkerTyped, NEW r, NEW c, NEW n, QueuesOwn(r, c, n)
  PROVE  /\ run' \in [Runs -> WorkerRuns] /\ run'[r] = n /\ \A s \in Runs : s # r => run'[s] = run[s]
         /\ \A s \in Runs : run'[s].thread = run[s].thread /\ run'[s].last = run[s].last
         /\ Len(applies) \in Nat /\ DOMAIN applies = 1..Len(applies) /\ DOMAIN applies' = 1..(Len(applies) + 1)
         /\ applies'[Len(applies) + 1].change = c /\ applies'[Len(applies) + 1].base = mem
         /\ \A i \in 1..Len(applies) : applies'[i] = applies[i]
         /\ ~raced' => ~raced /\ \A i \in 1..Len(applies) : applies[i].change.by = r
<1>1. run \in [Runs -> WorkerRuns]
  BY DEF WorkerTyped
<1>2. /\ r \in Runs /\ n \in WorkerRuns /\ run' = [run EXCEPT ![r] = n] /\ c \in Changes /\ c.by = r /\ BeginChange(c)
      /\ n.thread = run[r].thread /\ n.last = run[r].last
  BY DEF QueuesOwn
<1>. QED BY <1>1, <1>2, BeginIs

LEMMA OwnTyped ==
  ASSUME WorkerTyped, NEW r, NEW c, NEW n, QueuesOwn(r, c, n)
  PROVE  WorkerTyped'
<1>1. run' \in [Runs -> WorkerRuns]
  BY OwnIs
<1>2. c \in Changes /\ BeginChange(c) /\ UNCHANGED <<server, mem, idb, ui, link, pull, updates, overlapped, restarts>>
  BY DEF QueuesOwn
<1>3. /\ IsQueue(applies') /\ (\A i \in DOMAIN applies' : applies'[i].change \in Changes) /\ raced' \in BOOLEAN
  BY <1>2, BeginIs
<1>. QED BY <1>1, <1>2, <1>3 DEF WorkerTyped, Stored, Ch

(* What holds of what was queued, and of c, holds of the queue with c at its end. *)
LEMMA OwnQueueOrder ==
  ASSUME WorkerTyped, QueueOrder, NEW r, NEW c, NEW n, QueuesOwn(r, c, n), Owned
  PROVE  QueueOrder'
<1>. DEFINE L == Len(applies)
<1>1. /\ run'[r] = n /\ \A s \in Runs : s # r => run'[s] = run[s]
      /\ \A s \in Runs : run'[s].thread = run[s].thread /\ run'[s].last = run[s].last
      /\ L \in Nat /\ DOMAIN applies = 1..L /\ DOMAIN applies' = 1..(L + 1)
      /\ applies'[L + 1].change = c /\ \A i \in 1..L : applies'[i] = applies[i]
  BY OwnIs
<1>2. /\ r \in Runs /\ server' = server /\ pull' = pull
      /\ c.by = r /\ c.run = r /\ c.thread = run[r].thread /\ c.kind \in RunKinds
      /\ run[r].pc # "awaiting"
      /\ IF c.next = "" THEN n.pc = "llm" /\ c.kind = "stream.chunk" ELSE n.pc = "awaiting"
      /\ c.next = "over" => c.kind \in {"stream.done", "stream.error"} /\ ~n.controller
      /\ c.next = "finish" => c.kind = "messages.append"
      /\ c.kind \in {"messages.append", "stream.done"} => c.next # "" /\ c.message = run[r].last
      /\ c.kind = "messages.append" => c.next # "over" /\ run[r].pc \in StoredPcs
      /\ c.kind = "stream.done" => run[r].pc = "finish"
  BY DEF QueuesOwn
<1>. HIDE DEF L
<1>3. ASSUME NEW d \in Changes, EntryOk(d, run, server, pull)
      PROVE  EntryOk(d, run', server', pull') /\ InOrder(d, c)
  <2>1. d.next # "" => d.run # r /\ d.run \in Runs
    BY <1>2, <1>3 DEF EntryOk, Changes
  <2>2. d.kind \in {"messages.append", "stream.done"} => d.next # ""
    BY <1>3 DEF EntryOk
  <2>3. d.next # "" => run'[d.run] = run[d.run]
    BY <1>1, <2>1
  <2>4. EntryOk(d, run', server', pull')
    BY <1>2, <1>3, <2>2, <2>3 DEF EntryOk
  <2>5. InOrder(d, c)
    <3>1. d.next # "" => d.run # c.run
      BY <1>2, <2>1
    <3>2. c.kind # "messages.replaced"
      BY <1>2 DEF RunKinds
    <3>. QED BY <3>1, <3>2 DEF InOrder, Of
  <2>. QED BY <2>4, <2>5
<1>4. EntryOk(c, run', server', pull')
  <2>1. c.kind \in {"messages.append", "stream.done"} => c.message \in ToSet(server[c.thread]) /\ c.message = run'[r].last
    BY <1>1, <1>2 DEF Owned, OwnedBy
  <2>2. c.kind # "messages.replaced"
    BY <1>2 DEF RunKinds
  <2>3. c.thread = run'[r].thread
    BY <1>1, <1>2
  <2>. QED BY <1>1, <1>2, <2>1, <2>2, <2>3 DEF EntryOk
<1>5. \A i \in 1..L : Ch(i) \in Changes /\ EntryOk(Ch(i), run, server, pull)
  BY <1>1 DEF WorkerTyped, QueueOrder
<1>6. \A i \in 1..L : EntryOk(Ch(i), run', server', pull') /\ InOrder(Ch(i), c)
  BY <1>3, <1>5
<1>7. \A i, j \in 1..L : i < j => InOrder(Ch(i), Ch(j))
  BY <1>1 DEF QueueOrder
<1>8. \A i \in 1..(L + 1) : i \in 1..L \/ i = L + 1
  BY <1>1
<1>11. \A i \in 1..L : applies'[i].change = Ch(i)
  BY <1>1 DEF Ch
<1>9. \A i \in 1..(L + 1) : EntryOk(applies'[i].change, run', server', pull')
  BY <1>1, <1>4, <1>6, <1>8, <1>11
<1>10. ASSUME NEW i \in 1..(L + 1), NEW j \in 1..(L + 1), i < j
       PROVE  InOrder(applies'[i].change, applies'[j].change)
  <2>1. i \in 1..L
    BY <1>1, <1>10
  <2>. QED BY <1>1, <1>6, <1>7, <1>8, <1>10, <1>11, <2>1
<1>. QED BY <1>1, <1>9, <1>10 DEF QueueOrder, Ch

LEMMA OwnRest ==
  ASSUME WorkerTyped, QueueOrder, RunsOutside, Owned, PullIsWhole, Persisting,
         NEW r, NEW c, NEW n, QueuesOwn(r, c, n)
  PROVE  RunsOutside' /\ Owned' /\ PullIsWhole' /\ Persisting'
<1>. DEFINE L == Len(applies)
<1>1. /\ run'[r] = n /\ \A s \in Runs : s # r => run'[s] = run[s]
      /\ \A s \in Runs : run'[s].thread = run[s].thread /\ run'[s].last = run[s].last
      /\ L \in Nat /\ DOMAIN applies = 1..L /\ DOMAIN applies' = 1..(L + 1)
      /\ applies'[L + 1].change = c /\ \A i \in 1..L : applies'[i] = applies[i]
  BY OwnIs
<1>2. /\ r \in Runs /\ UNCHANGED <<server, idb, ui, link, pull, overlapped>>
      /\ c.run = r /\ run[r].pc \notin {"idle", "post_user", "over", "killed", "awaiting"}
      /\ n.pc \in {"llm", "awaiting"} /\ (n.rounds = run[r].rounds \/ run[r].pc \in StoredPcs)
      /\ n.thread = run[r].thread /\ n.last = run[r].last
      /\ IF c.kind = "messages.append"
         THEN c.message = run[r].last /\ run[r].pc \in StoredPcs /\ n.mine = run[r].mine \union {run[r].last}
         ELSE n.mine = run[r].mine
  BY DEF QueuesOwn
<1>. HIDE DEF L
<1>3. RunsOutside'
  <2>. SUFFICES ASSUME NEW s \in Runs
       PROVE  /\ OutsideOk(run'[s], ui'.streams[s], s \notin link'.unclosed)
              /\ Outside(run'[s], s \notin link'.unclosed) =>
                   \A i \in DOMAIN applies' : ~Of(applies'[i].change, s)
    BY DEF RunsOutside, Ch
  <2>1. CASE s = r
    BY <1>1, <1>2, <2>1 DEF Early, OutsideOk, Outside
  <2>2. CASE s # r
    <3>1. ~Of(c, s)
      BY <1>2, <2>2 DEF Of
    <3>2. run'[s] = run[s] /\ ui' = ui /\ link' = link
      BY <1>1, <1>2, <2>2
    <3>3. OutsideOk(run[s], ui.streams[s], s \notin link.unclosed)
          /\ (Outside(run[s], s \notin link.unclosed) => \A i \in 1..L : ~Of(applies[i].change, s))
      BY <1>1 DEF RunsOutside, Ch
    <3>. QED BY <1>1, <3>1, <3>2, <3>3
  <2>. QED BY <2>1, <2>2
<1>4. Owned'
  <2>1. OwnedBy(n, server)
    <3>1. OwnedBy(run[r], server)
      BY <1>2 DEF Owned
    <3>. QED BY <1>2, <3>1 DEF OwnedBy, StoredPcs
  <2>2. \A s \in Runs : OwnedBy(run'[s], server')
    BY <1>1, <1>2, <2>1 DEF Owned
  <2>3. \A s \in Runs : run'[s].last = run[s].last
    BY <1>1
  <2>. QED BY <1>2, <2>2, <2>3 DEF Owned
<1>5. PullIsWhole'
  <2>1. \A s \in Runs : NotLive(run[s]) => NotLive(run'[s]) /\ run'[s].thread = run[s].thread
    BY <1>1, <1>2 DEF NotLive
  <2>2. \A s \in Runs : run'[s].thread = run[s].thread
    BY <1>1
  <2>. QED BY <1>2, <2>1, <2>2 DEF PullIsWhole
<1>6. Persisting'
  <2>. SUFFICES ASSUME NEW s \in Runs, run'[s].pc # "killed", Lists(run'[s].thread, server', overlapped'),
                       NEW m \in run'[s].mine
       PROVE  \/ Queued(applies', s, m)
              \/ Kept(m, run[s].thread)'
    BY DEF Persisting
  <2>1. run[s].pc # "killed" /\ Lists(run[s].thread, server, overlapped) /\ run'[s].thread = run[s].thread
    BY <1>1, <1>2
  <2>2. CASE m \in run[s].mine
    <3>1. Queued(applies, s, m) => Queued(applies', s, m)
      BY <1>1 DEF Queued
    <3>. QED BY <1>2, <2>1, <2>2, <3>1 DEF Persisting, Kept
  <2>3. CASE m \notin run[s].mine
    <3>1. s = r /\ c.kind = "messages.append" /\ m = run[r].last
      BY <1>1, <1>2, <2>3
    <3>2. L + 1 \in DOMAIN applies'
      BY <1>1
    <3>. QED BY <1>1, <1>2, <3>1, <3>2 DEF Queued
  <2>. QED BY <2>2, <2>3
<1>. QED BY <1>3, <1>4, <1>5, <1>6

LEMMA OwnRemembering ==
  ASSUME WorkerTyped, QueueOrder, Remembering, Owned, NEW r, NEW c, NEW n, QueuesOwn(r, c, n)
  PROVE  Remembering'
<1>. DEFINE L == Len(applies)
<1>1. /\ run'[r] = n /\ \A s \in Runs : s # r => run'[s] = run[s]
      /\ \A s \in Runs : run'[s].thread = run[s].thread /\ run'[s].last = run[s].last
      /\ L \in Nat /\ DOMAIN applies = 1..L /\ DOMAIN applies' = 1..(L + 1)
      /\ applies'[L + 1].change = c /\ applies'[L + 1].base = mem /\ \A i \in 1..L : applies'[i] = applies[i]
      /\ ~raced' => ~raced /\ \A i \in 1..L : applies[i].change.by = r
  BY OwnIs
<1>2. /\ r \in Runs /\ UNCHANGED <<server, mem, overlapped, restarts>>
      /\ c.by = r /\ c.run = r /\ c.thread = run[r].thread
      /\ run[r].pc # "awaiting" /\ n.pc \in {"llm", "awaiting"}
      /\ IF c.kind = "messages.append"
         THEN c.message = run[r].last /\ run[r].pc \in StoredPcs /\ n.mine = run[r].mine \union {run[r].last}
         ELSE n.mine = run[r].mine
  BY DEF QueuesOwn
<1>. HIDE DEF L
<1>. SUFFICES ASSUME Calm' PROVE Remembering'
  BY DEF Remembering
<1>3. Calm /\ \A i \in 1..L : Ch(i).by = r
  BY <1>1, <1>2 DEF Calm, Ch
<1>4. mem.messages \in [Threads -> Seq(Nat)] /\ CalmQueue /\ CalmLists /\ CalmRuns
  BY <1>3 DEF Remembering
<1>5. \A i \in 1..L : Ch(i).kind \notin Changing
  <2>. SUFFICES ASSUME NEW i \in 1..L, Ch(i).kind \in Changing PROVE FALSE
    OBVIOUS
  <2>1. EntryOk(Ch(i), run, server, pull) /\ Ch(i).by = r
    BY <1>1, <1>3 DEF QueueOrder
  <2>2. r # "pull"
    BY <1>2, WorkerAssumption
  <2>. QED BY <1>2, <2>1, <2>2 DEF EntryOk, Changing
<1>6. \A i \in 1..(L + 1) : (i \in 1..L /\ applies'[i] = applies[i]) \/ i = L + 1
  BY <1>1
<1>7. CalmQueue'
  <2>1. \A i \in 1..(L + 1) : applies'[i].base.messages = mem.messages /\ applies'[i].change.by = r
    <3>1. \A i \in 1..L : applies[i].base.messages = mem.messages /\ applies[i].change.by = r
      BY <1>1, <1>3, <1>4 DEF CalmQueue, Ch
    <3>. QED BY <1>1, <1>2, <1>6, <3>1
  <2>2. ASSUME NEW i \in 1..(L + 1), NEW j \in 1..(L + 1), i < j PROVE applies'[i].change.kind \notin Changing
    <3>1. i \in 1..L
      BY <1>1, <2>2
    <3>. QED BY <1>1, <1>5, <3>1 DEF Ch
  <2>. QED BY <1>1, <1>2, <2>1, <2>2 DEF CalmQueue, Ch
<1>8. CalmLists'
  <2>1. c.kind = "messages.append" /\ Lists(c.thread, server, overlapped) =>
          c.message \notin ToSet(mem.messages[c.thread])
    BY <1>2, <1>4 DEF CalmRuns
  <2>2. ASSUME NEW i \in 1..(L + 1), applies'[i].change.kind = "messages.append" PROVE applies'[i].change = c
    BY <1>1, <1>5, <1>6, <2>2 DEF Ch, Changing
  <2>. QED BY <1>1, <1>2, <1>4, <2>1, <2>2 DEF CalmLists, Ch
<1>9. CalmRuns'
  <2>. SUFFICES ASSUME NEW s \in Runs, Lists(run'[s].thread, server', overlapped')
       PROVE  /\ run'[s].pc \in StoredPcs => run'[s].last \notin ToSet(mem'.messages[run'[s].thread])
              /\ \A m \in run'[s].mine : Queued(applies', s, m) \/ m \in ToSet(mem'.messages[run'[s].thread])
    BY DEF CalmRuns
  <2>1. /\ Lists(run[s].thread, server, overlapped) /\ run'[s].thread = run[s].thread /\ run'[s].last = run[s].last
        /\ run'[s].pc \in StoredPcs => run[s].pc \in StoredPcs
    BY <1>1, <1>2 DEF StoredPcs
  <2>2. \A m \in run[s].mine : Queued(applies', s, m) \/ m \in ToSet(mem.messages[run[s].thread])
    <3>1. \A m : Queued(applies, s, m) => Queued(applies', s, m)
      BY <1>1 DEF Queued
    <3>. QED BY <1>4, <2>1, <3>1 DEF CalmRuns
  <2>3. \A m \in run'[s].mine : m \in run[s].mine \/ Queued(applies', s, m)
    <3>. SUFFICES ASSUME NEW m \in run'[s].mine, m \notin run[s].mine PROVE Queued(applies', s, m)
      OBVIOUS
    <3>1. s = r /\ c.kind = "messages.append" /\ m = run[r].last
      BY <1>1, <1>2
    <3>2. L + 1 \in DOMAIN applies'
      BY <1>1
    <3>. QED BY <1>1, <1>2, <3>1, <3>2 DEF Queued
  <2>. QED BY <1>2, <1>4, <2>1, <2>2, <2>3 DEF CalmRuns
<1>. QED BY <1>2, <1>4, <1>7, <1>8, <1>9 DEF Remembering

-----------------------------------------------------------------------------
(* A cancel, a pull or the settings queue a change that no run awaits. *)
SameRuns ==
  /\ run' \in [Runs -> WorkerRuns]
  /\ \A s \in Runs : /\ run'[s].pc = run[s].pc /\ run'[s].thread = run[s].thread /\ run'[s].mine = run[s].mine
                     /\ run'[s].last = run[s].last /\ run'[s].rounds = run[s].rounds
                     /\ run'[s].controller = run[s].controller
QueuesOther(c) ==
  /\ c \in Changes /\ BeginChange(c) /\ UNCHANGED <<server, mem, idb, ui, link, overlapped, restarts>>
  /\ SameRuns /\ updates' \in Nat
  /\ c.next = "" /\ c.kind \in {"stream.error"} \union OtherKinds
  /\ c.by \in {"pull", "cancel", "settings", "threads"} /\ (c.by = "pull" => c.kind = "messages.replaced")
  /\ c.kind = "stream.error" => run[c.run].controller
  /\ IF c.kind = "messages.replaced"
     THEN /\ pull.pc = "listed" /\ pull' = [pull EXCEPT !.pc = "applying"]
          /\ c.by = "pull" /\ c.thread = pull.thread /\ c.message = pull.messages
     ELSE pull' = pull

LEMMA CancelOther ==
  ASSUME WorkerTyped, NEW r \in Runs, Cancel(r)
  PROVE  \E c : QueuesOther(c)
<1>. DEFINE c == Change("stream.error", "cancel", r, run[r].thread, 0, "none", "")
<1>1. run \in [Runs -> WorkerRuns] /\ run[r] \in WorkerRuns /\ run[r].thread \in Threads /\ updates \in Nat
  BY DEF WorkerTyped, WorkerRuns
<1>2. SameRuns
  BY <1>1 DEF SameRuns, Cancel, WorkerRuns
<1>3. BeginChange(c) /\ UNCHANGED <<server, mem, idb, ui, link, pull, updates, overlapped, restarts>>
      /\ run[r].controller
  BY DEF Cancel, HasController
<1>4. c.kind = "stream.error" /\ c.by = "cancel" /\ c.run = r /\ c.next = ""
  BY DEF Change
<1>5. c \in Changes
  BY <1>1 DEF Change, Changes, Actors, Values, RunKinds, Nexts, Statuses
<1>. HIDE DEF c
<1>. QED BY <1>1, <1>2, <1>3, <1>4, <1>5 DEF QueuesOther

LEMMA PullOther ==
  ASSUME WorkerTyped, PullApply
  PROVE  \E c : QueuesOther(c)
<1>. DEFINE c == Change("messages.replaced", "pull", "pull", pull.thread, pull.messages, "none", "")
<1>1. run \in [Runs -> WorkerRuns] /\ pull.thread \in Threads /\ pull.messages \in Seq(Nat) /\ updates \in Nat
  BY DEF WorkerTyped
<1>3. /\ BeginChange(c) /\ UNCHANGED <<server, mem, idb, ui, link, run, updates, overlapped, restarts>>
      /\ pull.pc = "listed" /\ pull' = [pull EXCEPT !.pc = "applying"]
  BY DEF PullApply
<1>2. SameRuns
  BY <1>1, <1>3 DEF SameRuns
<1>4. /\ c.kind = "messages.replaced" /\ c.by = "pull" /\ c.run = "pull" /\ c.next = "" /\ c.thread = pull.thread
      /\ c.message = pull.messages
  BY DEF Change
<1>6. pull.messages \in Values
  BY <1>1 DEF Values
<1>5. c \in Changes
  <2>1. c \in [kind : RunKinds \union OtherKinds, by : Actors,
                run : Actors, thread : Threads, message : Values, status : Statuses, next : Nexts]
    BY <1>1, <1>6 DEF Change, Actors, Nexts, Statuses, OtherKinds
  <2>. HIDE DEF c
  <2>. QED BY <1>1, <1>4, <2>1 DEF Changes, RunKinds
<1>. HIDE DEF c
<1>7. updates' \in Nat /\ UNCHANGED <<server, mem, idb, ui, link, overlapped, restarts>>
  BY <1>1, <1>3
<1>. QED BY <1>2, <1>3, <1>4, <1>5, <1>7 DEF QueuesOther, OtherKinds

LEMMA SettingsOther ==
  ASSUME WorkerTyped, SettingsUpdate
  PROVE  \E c : QueuesOther(c)
<1>. DEFINE c == Change("settings.updated", "settings", "settings", NoPull.thread, updates + 1, "none", "")
<1>1. run \in [Runs -> WorkerRuns] /\ NoPull.thread \in Threads /\ updates \in Nat
  BY WorkerAssumption DEF WorkerTyped, NoPull
<1>3. /\ BeginChange(c) /\ UNCHANGED <<server, mem, idb, ui, link, run, pull, overlapped, restarts>> /\ updates' = updates + 1
  BY DEF SettingsUpdate
<1>2. SameRuns
  BY <1>1, <1>3 DEF SameRuns
<1>4. c.kind = "settings.updated" /\ c.by = "settings" /\ c.next = ""
  BY DEF Change
<1>6. updates + 1 \in Values /\ updates + 1 \in Nat
  BY <1>1 DEF Values
<1>5. c \in Changes
  <2>1. c \in [kind : RunKinds \union OtherKinds, by : Actors,
                run : Actors, thread : Threads, message : Values, status : Statuses, next : Nexts]
    BY <1>1, <1>6 DEF Change, Actors, Nexts, Statuses, OtherKinds
  <2>. HIDE DEF c
  <2>. QED BY <1>1, <1>4, <2>1 DEF Changes, RunKinds
<1>. HIDE DEF c
<1>7. updates' \in Nat /\ UNCHANGED <<server, mem, idb, ui, link, pull, overlapped, restarts>>
  BY <1>3, <1>6
<1>. QED BY <1>2, <1>3, <1>4, <1>5, <1>7 DEF QueuesOther, OtherKinds

LEMMA ThreadsOther ==
  ASSUME WorkerTyped, ThreadsUpdate
  PROVE  \E c : QueuesOther(c)
<1>1. run \in [Runs -> WorkerRuns] /\ NoPull.thread \in Threads /\ updates \in Nat
  BY WorkerAssumption DEF WorkerTyped, NoPull
<1>2. PICK kept \in SUBSET Threads :
        BeginChange(Change("threads.updated", "threads", "threads", NoPull.thread, kept, "none", ""))
  BY DEF ThreadsUpdate
<1>. DEFINE c == Change("threads.updated", "threads", "threads", NoPull.thread, kept, "none", "")
<1>3. UNCHANGED <<server, mem, idb, ui, link, run, pull, overlapped, restarts>> /\ updates' = updates + 1
  BY DEF ThreadsUpdate
<1>8. SameRuns
  BY <1>1, <1>3 DEF SameRuns
<1>4. c.kind = "threads.updated" /\ c.by = "threads" /\ c.next = ""
  BY DEF Change
<1>6. kept \in Values /\ updates' \in Nat
  BY <1>1, <1>3 DEF Values
<1>5. c \in Changes
  <2>1. c \in [kind : RunKinds \union OtherKinds, by : Actors,
                run : Actors, thread : Threads, message : Values, status : Statuses, next : Nexts]
    BY <1>1, <1>6 DEF Change, Actors, Nexts, Statuses, OtherKinds
  <2>. HIDE DEF c
  <2>. QED BY <1>1, <1>4, <2>1 DEF Changes, RunKinds
<1>9. BeginChange(c)
  BY <1>2
<1>. HIDE DEF c
<1>. QED BY <1>3, <1>4, <1>5, <1>6, <1>8, <1>9 DEF QueuesOther, OtherKinds

LEMMA OtherKeeps ==
  ASSUME WorkerInv, NEW c, QueuesOther(c)
  PROVE  WorkerInv'
<1>. DEFINE L == Len(applies)
<1>a. WorkerTyped /\ QueueOrder /\ RunsOutside /\ Owned /\ PullIsWhole /\ Persisting /\ Remembering
  BY DEF WorkerInv
<1>b. c \in Changes /\ BeginChange(c)
  BY DEF QueuesOther
<1>1. /\ L \in Nat /\ DOMAIN applies = 1..L /\ DOMAIN applies' = 1..(L + 1)
      /\ IsQueue(applies') /\ (\A i \in DOMAIN applies' : applies'[i].change \in Changes) /\ raced' \in BOOLEAN
      /\ applies'[L + 1].change = c /\ applies'[L + 1].base = mem /\ \A i \in 1..L : applies'[i] = applies[i]
      /\ ~raced' => ~raced /\ \A i \in 1..L : applies[i].change.by = c.by
  BY <1>a, <1>b, BeginIs
<1>2. /\ UNCHANGED <<server, mem, idb, ui, link, overlapped, restarts>> /\ updates' \in Nat
      /\ c.next = "" /\ c.kind \in {"stream.error", "messages.replaced", "settings.updated", "threads.updated"}
      /\ c.by \in {"pull", "cancel", "settings", "threads"} /\ (c.by = "pull" => c.kind = "messages.replaced")
      /\ c.kind = "stream.error" => run[c.run].controller
      /\ IF c.kind = "messages.replaced"
         THEN /\ pull.pc = "listed" /\ pull' = [pull EXCEPT !.pc = "applying"]
              /\ c.by = "pull" /\ c.thread = pull.thread /\ c.message = pull.messages
         ELSE pull' = pull
  BY DEF QueuesOther, OtherKinds
<1>3. /\ run' \in [Runs -> WorkerRuns]
      /\ \A s \in Runs : /\ run'[s].pc = run[s].pc /\ run'[s].thread = run[s].thread /\ run'[s].mine = run[s].mine
                         /\ run'[s].last = run[s].last /\ run'[s].rounds = run[s].rounds
                         /\ run'[s].controller = run[s].controller
  BY DEF QueuesOther, SameRuns
<1>. HIDE DEF L
<1>4. pull \in [pc : {"none", "listed", "applying"}, thread : Threads, messages : Seq(Nat)]
  BY <1>a DEF WorkerTyped
<1>5. /\ pull' \in [pc : {"none", "listed", "applying"}, thread : Threads, messages : Seq(Nat)]
      /\ pull'.thread = pull.thread /\ pull'.messages = pull.messages /\ (pull'.pc = "none" <=> pull.pc = "none")
      /\ c.kind = "messages.replaced" => pull'.pc = "applying"
  BY <1>2, <1>4
<1>6. WorkerTyped'
  BY ZenonT(60), <1>a, <1>1, <1>2, <1>3, <1>5 DEF WorkerTyped, Stored, Ch
<1>7. \A i \in 1..(L + 1) : i \in 1..L \/ i = L + 1
  BY <1>1
<1>8. \A i \in 1..L : applies'[i].change = Ch(i) /\ Ch(i) \in Changes /\ EntryOk(Ch(i), run, server, pull)
  BY <1>a, <1>1 DEF WorkerTyped, QueueOrder, Ch
<1>9. QueueOrder'
  <2>1. ASSUME NEW d \in Changes, EntryOk(d, run, server, pull) PROVE EntryOk(d, run', server', pull') /\ InOrder(d, c)
    <3>1. d.kind \in RunKinds => d.run \in Runs
      BY DEF Changes
    <3>2. d.next # "" => d.kind \in RunKinds
      BY <2>1 DEF EntryOk
    <3>3. d.kind = "messages.replaced" => c.kind # "messages.replaced"
      BY <1>2, <2>1 DEF EntryOk
    <3>4. EntryOk(d, run', server', pull')
      <4>1. d.kind = "messages.replaced" => pull' = pull
        BY <1>2, <3>3
      <4>2. d.kind \in {"messages.append", "stream.done"} => d.kind \in RunKinds
        BY DEF RunKinds
      <4>. QED BY <1>2, <1>3, <2>1, <3>1, <3>2, <4>1, <4>2 DEF EntryOk
    <3>5. d.next = "over" => ~Of(c, d.run)
      <4>1. d.next = "over" => ~run[d.run].controller
        BY <2>1 DEF EntryOk
      <4>. QED BY <1>2, <4>1 DEF Of, RunKinds
    <3>. QED BY <1>2, <3>3, <3>4, <3>5 DEF InOrder
  <2>2. EntryOk(c, run', server', pull')
    BY <1>2, <1>5 DEF EntryOk
  <2>3. \A i \in 1..L : EntryOk(Ch(i), run', server', pull') /\ InOrder(Ch(i), c)
    BY <1>8, <2>1
  <2>4. \A i, j \in 1..L : i < j => InOrder(Ch(i), Ch(j))
    BY <1>a, <1>1 DEF QueueOrder
  <2>5. \A i \in 1..(L + 1) : EntryOk(applies'[i].change, run', server', pull')
    BY <1>1, <1>7, <1>8, <2>2, <2>3
  <2>6. ASSUME NEW i \in 1..(L + 1), NEW j \in 1..(L + 1), i < j
         PROVE  InOrder(applies'[i].change, applies'[j].change)
    <3>1. i \in 1..L
      BY <1>1, <2>6
    <3>. QED BY <1>1, <1>7, <1>8, <2>3, <2>4, <2>6, <3>1
  <2>. QED BY <1>1, <2>5, <2>6 DEF QueueOrder, Ch
<1>10. RunsOutside'
  <2>. SUFFICES ASSUME NEW s \in Runs
       PROVE  /\ OutsideOk(run'[s], ui'.streams[s], s \notin link'.unclosed)
              /\ Outside(run'[s], s \notin link'.unclosed) =>
                   \A i \in DOMAIN applies' : ~Of(applies'[i].change, s)
    BY DEF RunsOutside, Ch
  <2>3. OutsideOk(run[s], ui.streams[s], s \notin link.unclosed) /\ link' = link /\ ui' = ui
    BY <1>a, <1>2 DEF RunsOutside
  <2>1. OutsideOk(run'[s], ui'.streams[s], s \notin link'.unclosed)
    BY <1>3, <2>3 DEF OutsideOk
  <2>2. ASSUME Outside(run'[s], s \notin link'.unclosed)
        PROVE  \A i \in DOMAIN applies' : ~Of(applies'[i].change, s)
    <3>1. Outside(run[s], s \notin link.unclosed) /\ ~run[s].controller
      BY <1>3, <2>2, <2>3 DEF Outside, OutsideOk
    <3>2. \A i \in 1..L : ~Of(Ch(i), s)
      BY <1>a, <1>1, <3>1 DEF RunsOutside
    <3>3. ~Of(c, s)
      BY <1>2, <3>1 DEF Of, RunKinds
    <3>. QED BY <1>1, <1>7, <1>8, <3>2, <3>3
  <2>. QED BY <2>1, <2>2
<1>11. Owned'
  <2>1. \A s \in Runs : OwnedBy(run'[s], server')
    BY <1>a, <1>2, <1>3 DEF Owned, OwnedBy
  <2>2. \A s \in Runs : run'[s].last = run[s].last
    BY <1>3
  <2>. QED BY <1>a, <1>2, <2>1, <2>2 DEF Owned
<1>12. PullIsWhole'
  BY ZenonT(60), <1>a, <1>2, <1>3, <1>5 DEF PullIsWhole, NotLive
<1>13. \A s, m : Queued(applies, s, m) => Queued(applies', s, m)
  BY <1>1 DEF Queued
<1>14. Persisting'
  BY <1>a, <1>2, <1>3, <1>13 DEF Persisting, Kept
<1>15. ASSUME Calm' PROVE mem'.messages \in [Threads -> Seq(Nat)] /\ CalmQueue' /\ CalmLists' /\ CalmRuns'
  <2>1. Calm /\ \A i \in 1..L : Ch(i).by = c.by
    BY <1>1, <1>2, <1>15 DEF Calm, Ch
  <2>2. mem.messages \in [Threads -> Seq(Nat)] /\ CalmQueue /\ CalmLists /\ CalmRuns
    BY <1>a, <2>1 DEF Remembering
  <2>3. \A i \in 1..L : Ch(i).kind \notin Changing
    <3>. SUFFICES ASSUME NEW i \in 1..L, Ch(i).kind \in Changing PROVE FALSE
      OBVIOUS
    <3>1. EntryOk(Ch(i), run, server, pull) /\ Ch(i).by = c.by /\ Ch(i) \in Changes
      BY <1>8, <2>1
    <3>2. CASE Ch(i).kind = "messages.replaced"
      BY <1>2, <3>1, <3>2 DEF EntryOk
    <3>3. CASE Ch(i).kind \in {"messages.append", "stream.done"}
      <4>1. Ch(i).by \in Runs
        BY <3>1, <3>3 DEF EntryOk, Changes, RunKinds
      <4>. QED BY <1>2, <3>1, <4>1, WorkerAssumption
    <3>. QED BY <3>2, <3>3 DEF Changing
  <2>4. CalmQueue'
    <3>1. \A i \in 1..(L + 1) : applies'[i].base.messages = mem.messages /\ applies'[i].change.by = c.by
      <4>1. \A i \in 1..L : applies[i].base.messages = mem.messages /\ applies[i].change.by = c.by
        BY <1>1, <2>1, <2>2 DEF CalmQueue, Ch
      <4>. QED BY <1>1, <1>7, <4>1
    <3>2. ASSUME NEW i \in 1..(L + 1), NEW j \in 1..(L + 1), i < j PROVE applies'[i].change.kind \notin Changing
      <4>1. i \in 1..L
        BY <1>1, <3>2
      <4>. QED BY <1>8, <2>3, <4>1
    <3>. QED BY ZenonT(60), <1>1, <1>2, <3>1, <3>2 DEF CalmQueue, Ch
  <2>5. CalmLists'
    <3>1. \A i \in 1..(L + 1) : applies'[i].change.kind # "messages.append"
      BY <1>1, <1>2, <1>7, <1>8, <2>3 DEF Changing
    <3>. QED BY <1>1, <1>2, <2>2, <3>1 DEF CalmLists, Ch
  <2>6. CalmRuns'
    BY <1>2, <1>3, <1>13, <2>2 DEF CalmRuns
  <2>. QED BY <1>2, <2>2, <2>4, <2>5, <2>6
<1>16. Remembering'
  BY <1>15 DEF Remembering
<1>. QED BY <1>6, <1>9, <1>10, <1>11, <1>12, <1>14, <1>16 DEF WorkerInv

LEMMA OwnKeeps ==
  ASSUME WorkerInv, NEW r, NEW c, NEW n, QueuesOwn(r, c, n)
  PROVE  WorkerInv'
BY OwnTyped, OwnQueueOrder, OwnRest, OwnRemembering DEF WorkerInv

-----------------------------------------------------------------------------
(* A run goes on without a change: it is n afterwards. *)
Moves(r, n) ==
  /\ r \in Runs /\ n \in WorkerRuns /\ run' = [run EXCEPT ![r] = n]
  /\ UNCHANGED <<server, mem, idb, ui, link, applies, pull, updates, raced, restarts>>
  /\ overlapped \subseteq overlapped'
  /\ n.mine = run[r].mine /\ n.last = run[r].last /\ n.rounds = run[r].rounds /\ n.controller = run[r].controller
  /\ n.pc \in {"post_final", "finish", "fail", "over", "post_user"}
  /\ run[r].pc \notin {"awaiting", "over", "killed"}
  /\ n.pc = "finish" => run[r].rounds > 0
  /\ n.pc = "over" => run[r].pc \in Early
  /\ IF run[r].pc = "idle"
     THEN n.pc = "post_user" /\ (pull.pc # "none" /\ pull.thread = n.thread => n.thread \in overlapped')
     ELSE n.pc # "post_user" /\ n.thread = run[r].thread

LEMMA SendMoves ==
  ASSUME WorkerTyped, NEW r \in Runs, NEW t \in Threads, Send(r, t)
  PROVE  \E n : Moves(r, n)
<1>. DEFINE n == [run[r] EXCEPT !.pc = "post_user", !.thread = t]
<1>1. run[r] \in WorkerRuns
  BY DEF WorkerTyped
<1>2. /\ n \in WorkerRuns /\ n.pc = "post_user" /\ n.thread = t /\ n.mine = run[r].mine /\ n.last = run[r].last
      /\ n.rounds = run[r].rounds /\ n.controller = run[r].controller
  BY <1>1 DEF WorkerRuns, WorkerPcs
<1>3. run' = [run EXCEPT ![r] = n] /\ run[r].pc = "idle"
      /\ UNCHANGED <<server, mem, idb, ui, link, applies, pull, updates, raced, restarts>>
      /\ overlapped' = IF pull.pc # "none" /\ pull.thread = t THEN overlapped \union {t} ELSE overlapped
  BY DEF Send, RunAt
<1>. HIDE DEF n
<1>. QED BY <1>2, <1>3 DEF Moves

LEMMA GoesToMoves ==
  ASSUME WorkerTyped, NEW r \in Runs, NEW pc \in {"post_final", "finish", "fail", "over"}, GoesTo(r, pc),
         UNCHANGED <<server, mem, idb, ui, link, applies, pull, updates, raced, overlapped, restarts>>,
         run[r].pc \notin {"idle", "awaiting", "over", "killed"}, pc = "over" => run[r].pc \in Early,
         pc = "finish" => run[r].rounds > 0
  PROVE  \E n : Moves(r, n)
<1>. DEFINE n == [run[r] EXCEPT !.pc = pc]
<1>1. run[r] \in WorkerRuns
  BY DEF WorkerTyped
<1>2. /\ n \in WorkerRuns /\ n.pc = pc /\ n.thread = run[r].thread /\ n.mine = run[r].mine /\ n.last = run[r].last
      /\ n.rounds = run[r].rounds /\ n.controller = run[r].controller
  BY <1>1 DEF WorkerRuns, WorkerPcs
<1>3. run' = [run EXCEPT ![r] = n]
  BY <1>1 DEF GoesTo, WorkerTyped
<1>. HIDE DEF n
<1>. QED BY <1>2, <1>3 DEF Moves

LEMMA ThrowsMoves ==
  ASSUME WorkerTyped, NEW r \in Runs, Throws(r)
  PROVE  \E n : Moves(r, n)
<1>1. UNCHANGED <<server, mem, idb, ui, link, applies, pull, updates, raced, overlapped, restarts>>
  BY DEF Throws
<1>2. CASE run[r].pc \in {"llm", "post_round", "stored_round", "post_final", "stored_final"} /\ GoesTo(r, "fail")
  BY <1>1, <1>2, GoesToMoves
<1>3. CASE run[r].pc \in {"post_user", "stored_user"} /\ GoesTo(r, "over")
  BY <1>1, <1>3, GoesToMoves DEF Early
<1>. QED BY <1>2, <1>3 DEF Throws

LEMMA MovesKeep ==
  ASSUME WorkerInv, NEW r, NEW n, Moves(r, n)
  PROVE  WorkerInv'
<1>a. WorkerTyped /\ QueueOrder /\ RunsOutside /\ Owned /\ PullIsWhole /\ Persisting /\ Remembering
  BY DEF WorkerInv
<1>1. /\ r \in Runs /\ n \in WorkerRuns /\ run' = [run EXCEPT ![r] = n]
      /\ UNCHANGED <<server, mem, idb, ui, link, applies, pull, updates, raced, restarts>>
      /\ overlapped \subseteq overlapped'
      /\ n.mine = run[r].mine /\ n.last = run[r].last /\ n.rounds = run[r].rounds /\ n.controller = run[r].controller
      /\ n.pc \in {"post_final", "finish", "fail", "over", "post_user"}
      /\ run[r].pc \notin {"awaiting", "over", "killed"}
      /\ n.pc = "finish" => run[r].rounds > 0
      /\ n.pc = "over" => run[r].pc \in Early
      /\ IF run[r].pc = "idle"
         THEN n.pc = "post_user" /\ (pull.pc # "none" /\ pull.thread = n.thread => n.thread \in overlapped')
         ELSE n.pc # "post_user" /\ n.thread = run[r].thread
  BY DEF Moves
<1>2. /\ run \in [Runs -> WorkerRuns] /\ run' \in [Runs -> WorkerRuns]
      /\ run'[r] = n /\ \A s \in Runs : s # r => run'[s] = run[s]
  BY <1>a, <1>1 DEF WorkerTyped
<1>3. OwnedBy(run[r], server) /\ OutsideOk(run[r], ui.streams[r], r \notin link.unclosed)
  BY <1>a, <1>1 DEF Owned, RunsOutside
<1>4. WorkerTyped'
  BY <1>a, <1>1, <1>2 DEF WorkerTyped, Stored, Ch
<1>5. \A i \in DOMAIN applies : EntryOk(Ch(i), run, server, pull) /\ Ch(i) \in Changes
  BY <1>a DEF WorkerTyped, QueueOrder
<1>6. QueueOrder'
  <2>1. ASSUME NEW d \in Changes, EntryOk(d, run, server, pull) PROVE EntryOk(d, run', server', pull')
    <3>1. d.next # "" => d.run \in Runs /\ run'[d.run] = run[d.run]
      BY <1>1, <1>2, <2>1 DEF EntryOk, Changes
    <3>. QED BY <1>1, <2>1, <3>1 DEF EntryOk
  <2>. QED BY <1>a, <1>1, <1>5, <2>1 DEF QueueOrder, Ch
<1>7. RunsOutside'
  <2>1. OutsideOk(n, ui.streams[r], r \notin link.unclosed)
    BY <1>1, <1>3 DEF OutsideOk, Early
  <2>2. n.pc \in Early \union {"over"} => run[r].pc \in Early
    BY <1>1 DEF Early
  <2>3. \A s \in Runs : /\ OutsideOk(run'[s], ui.streams[s], s \notin link.unclosed)
                        /\ Outside(run'[s], s \notin link.unclosed) => Outside(run[s], s \notin link.unclosed)
    BY <1>a, <1>2, <2>1, <2>2 DEF RunsOutside, Outside
  <2>. QED BY <1>a, <1>1, <2>3 DEF RunsOutside, Ch
<1>8. Owned'
  <2>1. OwnedBy(n, server)
    <3>1. CASE run[r].pc = "idle"
      BY <1>1, <1>3, <3>1 DEF OwnedBy, OutsideOk, Early, StoredPcs
    <3>2. CASE run[r].pc # "idle"
      BY <1>1, <1>3, <3>2 DEF OwnedBy, StoredPcs
    <3>. QED BY <3>1, <3>2
  <2>2. \A s \in Runs : OwnedBy(run'[s], server')
    BY <1>a, <1>1, <1>2, <2>1 DEF Owned
  <2>3. \A s \in Runs : run'[s].last = run[s].last
    BY <1>1, <1>2
  <2>. QED BY <1>a, <1>1, <2>2, <2>3 DEF Owned
<1>9. PullIsWhole'
  <2>. SUFFICES ASSUME pull.pc # "none", pull.thread \notin overlapped'
       PROVE  /\ \A s \in Runs : run'[s].thread = pull.thread => NotLive(run'[s])
              /\ Len(server[pull.thread]) <= ListCap => pull.messages = server[pull.thread]
    BY <1>1 DEF PullIsWhole
  <2>1. /\ \A s \in Runs : run[s].thread = pull.thread => NotLive(run[s])
        /\ Len(server[pull.thread]) <= ListCap => pull.messages = server[pull.thread]
    BY <1>a, <1>1 DEF PullIsWhole
  <2>2. n.thread = pull.thread => NotLive(n)
    BY <1>1, <2>1 DEF NotLive
  <2>. QED BY <1>2, <2>1, <2>2
<1>10. ASSUME NEW s \in Runs, Lists(run'[s].thread, server, overlapped')
       PROVE  /\ run'[s].mine = {} \/ (run'[s].thread = run[s].thread /\ Lists(run[s].thread, server, overlapped))
              /\ run'[s].pc # "killed" => run[s].pc # "killed"
              /\ run'[s].pc \in StoredPcs => run[s].pc \in StoredPcs
              /\ run'[s].mine = run[s].mine
  BY <1>1, <1>2, <1>3, <1>10 DEF Lists, OutsideOk, Early, StoredPcs
<1>11. Persisting'
  BY <1>a, <1>1, <1>10 DEF Persisting, Kept
<1>12. Remembering'
  <2>. SUFFICES ASSUME Calm PROVE CalmQueue' /\ CalmLists' /\ CalmRuns'
    BY <1>a, <1>1 DEF Remembering, Calm
  <2>1. CalmQueue /\ CalmLists /\ CalmRuns
    BY <1>a DEF Remembering
  <2>2. CalmQueue'
    BY <1>1, <2>1 DEF CalmQueue, Ch
  <2>3. CalmLists'
    <3>1. \A t : Lists(t, server, overlapped') => Lists(t, server, overlapped)
      BY <1>1 DEF Lists
    <3>. QED BY <1>1, <2>1, <3>1 DEF CalmLists, Ch
  <2>4. CalmRuns'
    <3>1. \A s \in Runs : run'[s].pc \in StoredPcs => run'[s] = run[s]
      BY <1>1, <1>2 DEF StoredPcs
    <3>2. \A s \in Runs : Lists(run'[s].thread, server, overlapped') /\ run'[s].pc \in StoredPcs =>
             Lists(run[s].thread, server, overlapped)
      BY <1>1, <3>1 DEF Lists
    <3>. QED BY <1>1, <1>10, <2>1, <3>1, <3>2 DEF CalmRuns
  <2>. QED BY <2>2, <2>3, <2>4
<1>. QED BY <1>4, <1>6, <1>7, <1>8, <1>9, <1>11, <1>12 DEF WorkerInv

-----------------------------------------------------------------------------
(* The backend stores a message: nobody had it before. *)
LEMMA StoreKeeps ==
  ASSUME WorkerInv, NEW r \in Runs, NEW stage \in Stages, Store(r, stage)
  PROVE  WorkerInv'
<1>. DEFINE N == NewMessage
            T == run[r].thread
            pc == Stores[stage]
            n == [run[r] EXCEPT !.pc = pc, !.last = N]
<1>a. WorkerTyped /\ QueueOrder /\ RunsOutside /\ Owned /\ PullIsWhole /\ Persisting /\ Remembering
  BY DEF WorkerInv
<1>b. N \in Nat \ {0} /\ N \notin Stored /\ Stored \union {N} \subseteq 1..N
  BY <1>a, NewIsNew
<1>c. pc \in StoredPcs /\ run[r].pc \in {"post_user", "post_round", "post_final"}
      /\ (pc = "stored_user" <=> run[r].pc = "post_user")
  BY DEF Stores, Posts, Stages, StoredPcs, Store, RunAt
<1>1. /\ server' = [server EXCEPT ![T] = Append(server[T], N)]
      /\ UNCHANGED <<mem, idb, ui, link, applies, pull, updates, raced, overlapped, restarts>>
  BY DEF Store
<1>2. run \in [Runs -> WorkerRuns] /\ run[r] \in WorkerRuns /\ T \in Threads /\ server \in [Threads -> Seq(Nat)]
  BY <1>a DEF WorkerTyped, WorkerRuns
<1>3. run' = [run EXCEPT ![r] = n]
  BY <1>2 DEF Store
<1>. HIDE DEF N, pc
<1>4. /\ n \in WorkerRuns /\ n.pc = pc /\ n.last = N /\ n.thread = T /\ n.mine = run[r].mine
      /\ n.rounds = run[r].rounds /\ n.controller = run[r].controller
  BY <1>2, <1>b, <1>c DEF WorkerRuns, WorkerPcs, StoredPcs
<1>. HIDE DEF n, T
<1>5. run' \in [Runs -> WorkerRuns] /\ run'[r] = n /\ \A s \in Runs : s # r => run'[s] = run[s]
  BY <1>2, <1>3, <1>4
<1>6. /\ server' \in [Threads -> Seq(Nat)] /\ \A t \in Threads : t # T => server'[t] = server[t]
      /\ ToSet(server'[T]) = ToSet(server[T]) \union {N} /\ \A t \in Threads : ToSet(server[t]) \subseteq ToSet(server'[t])
      /\ Len(server'[T]) = Len(server[T]) + 1 /\ Len(server[T]) \in Nat
      /\ IsInjective(server[T]) => IsInjective(server'[T])
  <2>1. N \notin ToSet(server[T]) /\ N \in Nat
    BY <1>2, <1>b DEF Stored
  <2>2. server[T] \in Seq(Nat)
    BY <1>2
  <2>3. server'[T] = Append(server[T], N)
    BY <1>1, <1>2
  <2>4. /\ Append(server[T], N) \in Seq(Nat) /\ ToSet(Append(server[T], N)) = ToSet(server[T]) \union {N}
        /\ IsInjective(server[T]) => IsInjective(Append(server[T], N))
        /\ Len(Append(server[T], N)) = Len(server[T]) + 1 /\ Len(server[T]) \in Nat
    BY <2>1, <2>2, ListGrows, AppendProperties
  <2>5. \A t \in Threads : t # T => server'[t] = server[t]
    BY <1>1, <1>2
  <2>6. server' \in [Threads -> Seq(Nat)]
    BY <1>1, <1>2, <2>4
  <2>. QED BY <2>3, <2>4, <2>5, <2>6
<1>7. \A t \in Threads : Lists(t, server', overlapped) => Lists(t, server, overlapped)
  <2>1. ListCap \in Nat /\ (Len(server'[T]) <= ListCap => Len(server[T]) <= ListCap)
    BY <1>6, WorkerAssumption
  <2>. QED BY <1>6, <2>1 DEF Lists
<1>8. WorkerTyped'
  <2>1. \E k \in Nat : Stored' \subseteq 1..k
    <3>1. Stored' \subseteq Stored \union {N}
      <4>. SUFFICES ASSUME NEW t \in Threads, NEW m \in ToSet(server'[t]) PROVE m \in Stored \union {N}
        BY DEF Stored
      <4>. QED BY <1>6 DEF Stored
    <3>. QED BY <1>b, <3>1
  <2>. QED BY <1>a, <1>1, <1>5, <1>6, <2>1 DEF WorkerTyped, Ch
<1>9. QueueOrder'
  <2>1. ASSUME NEW d \in Changes, EntryOk(d, run, server, pull) PROVE EntryOk(d, run', server', pull')
    <3>1. d.next # "" => d.run \in Runs /\ run'[d.run] = run[d.run]
      BY <1>c, <1>5, <2>1 DEF EntryOk, Changes
    <3>2. d.thread \in Threads
      BY DEF Changes
    <3>. QED BY <1>1, <1>6, <2>1, <3>1, <3>2 DEF EntryOk
  <2>2. \A i \in DOMAIN applies : EntryOk(Ch(i), run, server, pull) /\ Ch(i) \in Changes
    BY <1>a DEF WorkerTyped, QueueOrder
  <2>. QED BY <1>a, <1>1, <2>1, <2>2 DEF QueueOrder, Ch
<1>10. RunsOutside'
  <2>1. OutsideOk(run[r], ui.streams[r], r \notin link.unclosed)
    BY <1>a DEF RunsOutside
  <2>2. OutsideOk(n, ui.streams[r], r \notin link.unclosed)
    BY <1>c, <1>4, <2>1 DEF OutsideOk, Early, StoredPcs
  <2>3. n.pc \in Early \union {"over"} => run[r].pc \in Early
    BY <1>c, <1>4 DEF Early, StoredPcs
  <2>4. \A s \in Runs : /\ OutsideOk(run'[s], ui.streams[s], s \notin link.unclosed)
                        /\ Outside(run'[s], s \notin link.unclosed) => Outside(run[s], s \notin link.unclosed)
    BY <1>a, <1>5, <2>2, <2>3 DEF RunsOutside, Outside
  <2>. QED BY <1>a, <1>1, <2>4 DEF RunsOutside, Ch
<1>11. Owned'
  <2>1. \A s \in Runs : OwnedBy(run[s], server) /\ run[s].thread \in Threads
    BY <1>a, <1>2 DEF Owned, WorkerRuns
  <2>2. OwnedBy(n, server')
    <3>1. n.mine \subseteq ToSet(server'[n.thread])
      BY <1>4, <1>6, <2>1 DEF OwnedBy, T
    <3>2. n.last \in ToSet(server'[n.thread]) /\ n.last # 0
      BY <1>b, <1>4, <1>6
    <3>3. n.pc # "idle"
      BY <1>c, <1>4 DEF StoredPcs
    <3>. QED BY <3>1, <3>2, <3>3 DEF OwnedBy
  <2>3. \A s \in Runs : OwnedBy(run'[s], server')
    <3>. SUFFICES ASSUME NEW s \in Runs, s # r PROVE OwnedBy(run[s], server')
      BY <1>5, <2>2
    <3>1. ToSet(server[run[s].thread]) \subseteq ToSet(server'[run[s].thread])
      BY <1>6, <2>1
    <3>. QED BY <2>1, <3>1 DEF OwnedBy
  <2>4. \A s \in Runs : run[s].last \in Stored \union {0}
    BY <2>1 DEF OwnedBy, Stored
  <2>5. \A s \in Runs : run[s].last # N
    BY <1>b, <2>4
  <2>6. \A s, u \in Runs : s # u /\ run'[s].last = run'[u].last => run'[s].last = 0
    BY <1>a, <1>4, <1>5, <2>5 DEF Owned
  <2>7. \A t \in Threads : IsInjective(server'[t])
    BY <1>a, <1>2, <1>6 DEF Owned
  <2>. QED BY <2>3, <2>6, <2>7 DEF Owned
<1>12. PullIsWhole'
  <2>. SUFFICES ASSUME pull.pc # "none", pull.thread \notin overlapped
       PROVE  /\ \A s \in Runs : run'[s].thread = pull.thread => NotLive(run'[s])
              /\ Len(server'[pull.thread]) <= ListCap => pull.messages = server'[pull.thread]
    BY <1>1 DEF PullIsWhole
  <2>1. /\ \A s \in Runs : run[s].thread = pull.thread => NotLive(run[s])
        /\ Len(server[pull.thread]) <= ListCap => pull.messages = server[pull.thread]
    BY <1>a DEF PullIsWhole
  <2>2. pull.thread # T /\ pull.thread \in Threads
    BY <1>a, <1>c, <2>1 DEF NotLive, T, WorkerTyped
  <2>3. server'[pull.thread] = server[pull.thread]
    BY <1>6, <2>2
  <2>. QED BY <1>4, <1>5, <2>1, <2>2, <2>3
<1>13. \A s \in Runs : run'[s].thread = run[s].thread /\ run[s].thread \in Threads /\ run'[s].mine = run[s].mine
  BY <1>2, <1>4, <1>5 DEF T, WorkerRuns
<1>14. Persisting'
  <2>1. \A s \in Runs : run'[s].pc # "killed" => run[s].pc # "killed"
    BY <1>c, <1>5
  <2>. QED BY <1>a, <1>1, <1>7, <1>13, <2>1 DEF Persisting, Kept
<1>15. Remembering'
  <2>. SUFFICES ASSUME Calm PROVE CalmQueue' /\ CalmLists' /\ CalmRuns'
    BY <1>a, <1>1 DEF Remembering, Calm
  <2>1. CalmQueue /\ CalmLists /\ CalmRuns
    BY <1>a DEF Remembering
  <2>2. CalmQueue'
    BY <1>1, <2>1 DEF CalmQueue, Ch
  <2>3. CalmLists'
    <3>1. \A i \in DOMAIN applies : Ch(i).thread \in Threads
      BY <1>a DEF WorkerTyped, Changes
    <3>2. \A i \in DOMAIN applies : Ch(i).kind = "messages.append" /\ Lists(Ch(i).thread, server', overlapped) =>
            Ch(i).message \notin ToSet(mem.messages[Ch(i).thread])
      BY <1>7, <2>1, <3>1 DEF CalmLists
    <3>3. \A t \in Threads : Lists(t, server', overlapped) =>
            IsInjective(mem.messages[t]) /\ ToSet(mem.messages[t]) \subseteq ToSet(server'[t])
      BY <1>6, <1>7, <2>1 DEF CalmLists
    <3>. QED BY <1>1, <3>2, <3>3 DEF CalmLists, Ch
  <2>4. CalmRuns'
    <3>. SUFFICES ASSUME NEW s \in Runs, Lists(run[s].thread, server', overlapped)
         PROVE  /\ run'[s].pc \in StoredPcs => run'[s].last \notin ToSet(mem.messages[run[s].thread])
                /\ \A m \in run[s].mine : Queued(applies, s, m) \/ m \in ToSet(mem.messages[run[s].thread])
      BY <1>1, <1>13 DEF CalmRuns
    <3>1. Lists(run[s].thread, server, overlapped)
      BY <1>7, <1>13
    <3>2. CASE s # r
      BY <1>5, <2>1, <3>1, <3>2 DEF CalmRuns
    <3>3. CASE s = r
      <4>1. ToSet(mem.messages[T]) \subseteq ToSet(server[T])
        BY <1>2, <2>1, <3>1, <3>3 DEF CalmLists, T
      <4>2. N \notin ToSet(server[T])
        BY <1>2, <1>b DEF Stored
      <4>3. run'[r].last = N /\ T = run[r].thread
        BY <1>4, <1>5 DEF T
      <4>. QED BY <2>1, <3>1, <3>3, <4>1, <4>2, <4>3 DEF CalmRuns
    <3>. QED BY <3>2, <3>3
  <2>. QED BY <2>2, <2>3, <2>4
<1>. QED BY <1>8, <1>9, <1>10, <1>11, <1>12, <1>14, <1>15 DEF WorkerInv

(* A pull is answered: all that is stored, when that is not more than is listed. *)
LEMMA PullListKeeps ==
  ASSUME WorkerInv, NEW t \in Threads, PullList(t)
  PROVE  WorkerInv'
<1>a. WorkerTyped /\ QueueOrder /\ RunsOutside /\ Owned /\ PullIsWhole /\ Persisting /\ Remembering
  BY DEF WorkerInv
<1>1. /\ pull.pc = "none" /\ pull' = [pc |-> "listed", thread |-> t, messages |-> Listed(t)]
      /\ overlapped \subseteq overlapped' /\ UNCHANGED <<server, mem, idb, ui, link, applies, run, updates, raced, restarts>>
      /\ t \notin overlapped' => \A r \in Runs : run[r].thread = t => NotLive(run[r])
  BY DEF PullList, Live, NotLive
<1>2. server[t] \in Seq(Nat) /\ Len(server[t]) \in Nat /\ ListCap \in Nat
  BY <1>a, WorkerAssumption DEF WorkerTyped
<1>3. Listed(t) \in Seq(Nat) /\ (Len(server[t]) <= ListCap => Listed(t) = server[t])
  <2>. DEFINE k == IF Len(server[t]) < ListCap THEN Len(server[t]) ELSE ListCap
  <2>1. k \in 0..Len(server[t]) /\ (Len(server[t]) <= ListCap => k = Len(server[t])) /\ Listed(t) = SubSeq(server[t], 1, k)
    BY <1>2 DEF Listed
  <2>. HIDE DEF k
  <2>2. SubSeq(server[t], 1, k) \in Seq(Nat)
    BY <1>2, <2>1
  <2>3. SubSeq(server[t], 1, Len(server[t])) = server[t]
    BY <1>2, SubSeqFull
  <2>. QED BY <2>1, <2>2, <2>3
<1>4. WorkerTyped'
  BY <1>a, <1>1, <1>3 DEF WorkerTyped, Stored, Ch
<1>5. \A i \in DOMAIN applies : Ch(i).kind # "messages.replaced"
  BY <1>a, <1>1 DEF QueueOrder, EntryOk
<1>6. QueueOrder'
  BY <1>a, <1>1, <1>5 DEF QueueOrder, EntryOk, Ch
<1>7. RunsOutside' /\ Owned'
  BY <1>a, <1>1 DEF RunsOutside, Owned, Ch
<1>8. PullIsWhole'
  BY <1>1, <1>3 DEF PullIsWhole
<1>9. \A u : Lists(u, server, overlapped') => Lists(u, server, overlapped)
  BY <1>1 DEF Lists
<1>10. Persisting'
  BY <1>a, <1>1, <1>9 DEF Persisting, Kept
<1>11. Remembering'
  BY <1>a, <1>1, <1>9 DEF Remembering, Calm, CalmQueue, CalmLists, CalmRuns, Ch
<1>. QED BY <1>4, <1>6, <1>7, <1>8, <1>10, <1>11 DEF WorkerInv

(* The worker ends: what was queued is lost, and the runs that queued it are killed. *)
LEMMA RestartKeeps ==
  ASSUME WorkerInv, Restart
  PROVE  WorkerInv'
<1>a. WorkerTyped /\ QueueOrder /\ RunsOutside /\ Owned /\ PullIsWhole /\ Persisting /\ Remembering
  BY DEF WorkerInv
<1>b. restarts' = restarts + 1 /\ applies' = <<>> /\ pull' = NoPull
  BY DEF Restart
<1>1. /\ restarts' = restarts + 1 /\ applies' = <<>> /\ pull' = NoPull
      /\ run' = [r \in Runs |-> [run[r] EXCEPT !.pc = IF Live(r) THEN "killed" ELSE @, !.controller = FALSE]]
      /\ UNCHANGED <<server, idb, ui, link, updates, raced, overlapped>>
  BY DEF Restart
<1>2. DOMAIN <<>> = {} /\ IsQueue(<<>>)
  <2>1. <<>> \in Seq({}) /\ Len(<<>>) = 0
    OBVIOUS
  <2>2. IsQueue(<<>>) /\ DOMAIN <<>> = 1..0
    BY <2>1, SeqIsQueue
  <2>. QED BY <2>2
<1>3. run \in [Runs -> WorkerRuns]
  BY <1>a DEF WorkerTyped
<1>4. ASSUME NEW r \in Runs
      PROVE  /\ run'[r] \in WorkerRuns /\ run'[r].thread = run[r].thread /\ run'[r].mine = run[r].mine
             /\ run'[r].last = run[r].last /\ run'[r].rounds = run[r].rounds
             /\ ~run'[r].controller
             /\ run'[r].pc # "killed" => run'[r].pc = run[r].pc /\ run[r].pc \in {"idle", "over"}
  <2>. DEFINE pc == IF Live(r) THEN "killed" ELSE run[r].pc
  <2>1. run'[r] = [run[r] EXCEPT !.pc = pc, !.controller = FALSE] /\ run[r] \in WorkerRuns
    BY <1>1, <1>3
  <2>2. pc \in WorkerPcs /\ (pc # "killed" => pc = run[r].pc /\ run[r].pc \in {"idle", "over"})
    BY <2>1 DEF Live, WorkerPcs, WorkerRuns
  <2>. HIDE DEF pc
  <2>. QED BY <2>1, <2>2 DEF WorkerRuns
<1>5. pull'.pc = "none" /\ pull' \in [pc : {"none", "listed", "applying"}, thread : Threads, messages : Seq(Nat)]
  BY <1>b, WorkerAssumption DEF NoPull
<1>6. run' \in [Runs -> WorkerRuns]
  BY <1>1, <1>4
<1>7. WorkerTyped'
  <2>1. IsQueue(applies') /\ DOMAIN applies' = {}
    BY <1>1, <1>2
  <2>2. restarts' \in Nat
    BY <1>a, <1>b DEF WorkerTyped
  <2>3. \E k \in Nat : Stored' \subseteq 1..k
    BY <1>a, <1>1 DEF WorkerTyped, Stored
  <2>. QED BY <1>a, <1>1, <1>5, <1>6, <2>1, <2>2, <2>3 DEF WorkerTyped
<1>8. QueueOrder'
  BY <1>1, <1>2 DEF QueueOrder
<1>9. RunsOutside'
  <2>1. \A r \in Runs : OutsideOk(run'[r], ui.streams[r], r \notin link.unclosed)
    BY <1>a, <1>4 DEF RunsOutside, OutsideOk, Early
  <2>. QED BY <1>1, <1>2, <2>1 DEF RunsOutside
<1>10. Owned'
  <2>1. \A r \in Runs : OwnedBy(run'[r], server)
    BY <1>a, <1>4 DEF Owned, OwnedBy, StoredPcs
  <2>2. \A r \in Runs : run'[r].last = run[r].last
    BY <1>4
  <2>. QED BY <1>a, <1>1, <2>1, <2>2 DEF Owned
<1>11. PullIsWhole'
  BY <1>5 DEF PullIsWhole
<1>12. Persisting'
  <2>. SUFFICES ASSUME NEW r \in Runs, run'[r].pc # "killed", Lists(run[r].thread, server, overlapped),
                       NEW m \in run[r].mine
       PROVE  Kept(m, run[r].thread)
    BY <1>1, <1>4 DEF Persisting, Kept
  <2>1. run[r].pc \in {"idle", "over"}
    BY <1>4
  <2>3. ~Queued(applies, r, m)
    BY <1>a, <2>1 DEF Queued, QueueOrder, EntryOk, Ch
  <2>. QED BY <1>a, <2>1, <2>3 DEF Persisting
<1>13. Remembering'
  BY <1>a, <1>b DEF Remembering, Calm, WorkerTyped
<1>. QED BY <1>7, <1>8, <1>9, <1>10, <1>11, <1>12, <1>13 DEF WorkerInv

-----------------------------------------------------------------------------
(* The first change leaves the queue, as IndexedDB has done it or rejected it: *)
(* only the run that awaited it moves, and it may lose a message.              *)
Leaves ==
  /\ 1 \in DOMAIN applies /\ Ch(1) \in Changes /\ EntryOk(Ch(1), run, server, pull)
  /\ UNCHANGED <<server, updates, raced, overlapped, restarts>>
  /\ pull' = IF Ch(1).kind = "messages.replaced" THEN NoPull ELSE pull
  /\ run' \in [Runs -> WorkerRuns]
  /\ \A r \in Runs : /\ run'[r].thread = run[r].thread /\ run'[r].mine \subseteq run[r].mine
                     /\ run'[r].last = run[r].last /\ run'[r].rounds = run[r].rounds
                     /\ run'[r].controller = run[r].controller
                     /\ IF Ch(1).next # "" /\ Ch(1).run = r
                        THEN run[r].pc = "awaiting" /\ run'[r].pc \in {Ch(1).next, "fail", "over"}
                        ELSE run'[r] = run[r]
  /\ Len(applies) \in Nat /\ Len(applies) >= 1 /\ DOMAIN applies = 1..Len(applies)
  /\ IsQueue(applies') /\ DOMAIN applies' = 1..(Len(applies) - 1)
  /\ \A i \in DOMAIN applies' : i + 1 \in DOMAIN applies /\ applies'[i] = applies[i + 1]

LEMMA HeadIs ==
  ASSUME WorkerInv, applies # <<>>, applies' = Tail(applies)
  PROVE  /\ 1 \in DOMAIN applies /\ Head(applies) = applies[1]
         /\ Ch(1) \in Changes /\ EntryOk(Ch(1), run, server, pull)
         /\ Ch(1).next # "" => Ch(1).kind # "messages.replaced" /\ Ch(1).run \in Runs
                               /\ run[Ch(1).run].pc = "awaiting" /\ Ch(1).next \in WorkerPcs
         /\ Len(applies) \in Nat /\ Len(applies) >= 1 /\ DOMAIN applies = 1..Len(applies)
         /\ IsQueue(applies') /\ DOMAIN applies' = 1..(Len(applies) - 1)
         /\ \A i \in DOMAIN applies' : i + 1 \in DOMAIN applies /\ applies'[i] = applies[i + 1]
<1>1. IsQueue(applies)
  BY DEF WorkerInv, WorkerTyped
<1>2. /\ Len(applies) \in Nat /\ Len(applies) >= 1 /\ Head(applies) = applies[1]
      /\ DOMAIN applies = 1..Len(applies) /\ IsQueue(Tail(applies)) /\ DOMAIN Tail(applies) = 1..(Len(applies) - 1)
      /\ \A i \in 1..(Len(applies) - 1) : Tail(applies)[i] = applies[i + 1]
  BY <1>1, QueueShrinks
<1>3. 1 \in DOMAIN applies
  BY <1>2
<1>4. Ch(1) \in Changes /\ EntryOk(Ch(1), run, server, pull)
  BY <1>3 DEF WorkerInv, WorkerTyped, QueueOrder
<1>5. Ch(1).next # "" => Ch(1).kind # "messages.replaced" /\ Ch(1).run \in Runs
                         /\ run[Ch(1).run].pc = "awaiting" /\ Ch(1).next \in WorkerPcs
  BY <1>4 DEF EntryOk, RunKinds, Changes, Nexts, WorkerPcs
<1>6. \A i \in DOMAIN applies' : i + 1 \in DOMAIN applies /\ applies'[i] = applies[i + 1]
  BY <1>2
<1>. QED BY <1>2, <1>3, <1>4, <1>5, <1>6

(* IndexedDB is done with the first change. *)
LEMMA EndIs ==
  ASSUME WorkerInv, ApplyEnd
  PROVE  /\ Leaves
         /\ mem' = MemAfter(applies[1].base, Ch(1)) /\ idb' = IdbAfter(idb, Ch(1)) /\ Told(Ch(1))
         /\ \A r \in Runs : /\ run'[r].mine = run[r].mine
                            /\ Ch(1).next # "" /\ Ch(1).run = r => run'[r].pc = Ch(1).next
<1>. DEFINE c == Ch(1)
<1>1. applies # <<>> /\ applies' = Tail(applies) /\ run \in [Runs -> WorkerRuns]
  BY DEF ApplyEnd, WorkerInv, WorkerTyped
<1>2. /\ 1 \in DOMAIN applies /\ Head(applies) = applies[1] /\ c \in Changes /\ EntryOk(c, run, server, pull)
      /\ c.next # "" => c.kind # "messages.replaced" /\ c.run \in Runs
                        /\ run[c.run].pc = "awaiting" /\ c.next \in WorkerPcs
      /\ Len(applies) \in Nat /\ Len(applies) >= 1 /\ DOMAIN applies = 1..Len(applies)
      /\ IsQueue(applies') /\ DOMAIN applies' = 1..(Len(applies) - 1)
      /\ \A i \in DOMAIN applies' : i + 1 \in DOMAIN applies /\ applies'[i] = applies[i + 1]
  BY <1>1, HeadIs
<1>3. UNCHANGED <<server, updates, raced, overlapped, restarts>>
  BY DEF ApplyEnd
<1>4. /\ mem' = MemAfter(applies[1].base, c) /\ idb' = IdbAfter(idb, c) /\ Told(c)
      /\ IF c.kind = "messages.replaced"
         THEN pull' = NoPull /\ run' = run
         ELSE run' = (IF c.next = "" THEN run ELSE [run EXCEPT ![c.run].pc = c.next]) /\ pull' = pull
  BY <1>2 DEF ApplyEnd, Ch
<1>. HIDE DEF c
<1>9. pull' = IF c.kind = "messages.replaced" THEN NoPull ELSE pull
  BY <1>4
<1>10. /\ run' \in [Runs -> WorkerRuns]
       /\ \A r \in Runs : /\ run'[r].thread = run[r].thread /\ run'[r].mine = run[r].mine
                          /\ run'[r].last = run[r].last /\ run'[r].rounds = run[r].rounds
                          /\ run'[r].controller = run[r].controller
                          /\ IF c.next # "" /\ c.run = r
                             THEN run[r].pc = "awaiting" /\ run'[r].pc = c.next
                             ELSE run'[r] = run[r]
  <2>1. CASE c.next = ""
    BY <1>1, <1>4, <2>1
  <2>2. CASE c.next # ""
    <3>1. run' = [run EXCEPT ![c.run].pc = c.next]
      BY <1>2, <1>4, <2>2
    <3>2. run'[c.run] = [run[c.run] EXCEPT !.pc = c.next] /\ run[c.run] \in WorkerRuns
      BY <1>1, <1>2, <2>2, <3>1
    <3>3. /\ run'[c.run] \in WorkerRuns /\ run'[c.run].pc = c.next /\ run'[c.run].thread = run[c.run].thread
          /\ run'[c.run].mine = run[c.run].mine /\ run'[c.run].last = run[c.run].last
          /\ run'[c.run].rounds = run[c.run].rounds /\ run'[c.run].controller = run[c.run].controller
      BY <1>2, <2>2, <3>2 DEF WorkerRuns
    <3>4. run' \in [Runs -> WorkerRuns]
      BY <1>1, <1>2, <2>2, <3>1, <3>3
    <3>5. \A r \in Runs : r # c.run => run'[r] = run[r]
      BY <1>1, <1>2, <2>2, <3>1
    <3>. QED BY <1>2, <2>2, <3>3, <3>4, <3>5
  <2>. QED BY <2>1, <2>2
<1>. QED BY <1>2, <1>3, <1>4, <1>9, <1>10 DEF c, Leaves

(* IndexedDB rejects the first change, of stream.done perhaps only the status. *)
LEMMA RefusedIs ==
  ASSUME WorkerInv, ApplyRefused
  PROVE  /\ Leaves /\ UNCHANGED <<mem, ui>> /\ idb' \in States(SUBSET Nat)
         /\ \A t \in Threads : /\ idb.messages[t] \subseteq idb'.messages[t]
                               /\ \A m \in idb'.messages[t] : m \in idb.messages[t] \/ m \in Stored
         /\ link' \in Links /\ link'.unseen = link.unseen /\ link.unclosed \subseteq link'.unclosed
         /\ \A r \in Runs : Ch(1).next # "" /\ Ch(1).run = r =>
              /\ run'[r].pc = "over" => r \in link'.unclosed
              /\ run'[r].pc \in {"over", "fail"}
              /\ Ch(1).kind = "messages.append" => Ch(1).message \notin run'[r].mine
<1>. DEFINE c == Ch(1)
            pc == AfterRefusal(c)
<1>1. applies # <<>> /\ applies' = Tail(applies) /\ run \in [Runs -> WorkerRuns] /\ link \in Links
      /\ idb \in States(SUBSET Nat)
  BY DEF ApplyRefused, WorkerInv, WorkerTyped
<1>2. /\ 1 \in DOMAIN applies /\ Head(applies) = applies[1] /\ c \in Changes /\ EntryOk(c, run, server, pull)
      /\ c.next # "" => c.kind # "messages.replaced" /\ c.run \in Runs
                        /\ run[c.run].pc = "awaiting" /\ c.next \in WorkerPcs
      /\ Len(applies) \in Nat /\ Len(applies) >= 1 /\ DOMAIN applies = 1..Len(applies)
      /\ IsQueue(applies') /\ DOMAIN applies' = 1..(Len(applies) - 1)
      /\ \A i \in DOMAIN applies' : i + 1 \in DOMAIN applies /\ applies'[i] = applies[i + 1]
  BY <1>1, HeadIs
<1>3. UNCHANGED <<server, mem, ui, updates, raced, overlapped, restarts>>
  BY DEF ApplyRefused
<1>4. /\ idb' = idb \/ (c.kind = "stream.done" /\ idb' = [IdbAfter(idb, c) EXCEPT !.streams = idb.streams])
      /\ c.next = "" => run' = run /\ link' = link
      /\ c.next # "" =>
           /\ run' = [run EXCEPT ![c.run].pc = pc,
                        ![c.run].mine = IF c.kind = "messages.append" THEN @ \ {c.message} ELSE @]
           /\ link' = [link EXCEPT !.unclosed = IF pc = "over" THEN @ \union {c.run} ELSE @]
      /\ pull' = IF c.kind = "messages.replaced" THEN NoPull ELSE pull
  BY <1>2 DEF ApplyRefused, Ch
<1>5. pc \in {"over", "fail"}
  BY DEF AfterRefusal
<1>. HIDE DEF c, pc
<1>6. /\ run' \in [Runs -> WorkerRuns]
      /\ \A r \in Runs : /\ run'[r].thread = run[r].thread /\ run'[r].mine \subseteq run[r].mine
                         /\ run'[r].last = run[r].last /\ run'[r].rounds = run[r].rounds
                         /\ run'[r].controller = run[r].controller
                         /\ IF c.next # "" /\ c.run = r
                            THEN run[r].pc = "awaiting" /\ run'[r].pc = pc
                            ELSE run'[r] = run[r]
                         /\ c.next # "" /\ c.run = r /\ c.kind = "messages.append" => c.message \notin run'[r].mine
  <2>1. CASE c.next = ""
    BY <1>1, <1>4, <2>1
  <2>2. CASE c.next # ""
    <3>. DEFINE mn == IF c.kind = "messages.append" THEN run[c.run].mine \ {c.message} ELSE run[c.run].mine
    <3>1. run' = [run EXCEPT ![c.run] = [run[c.run] EXCEPT !.pc = pc, !.mine = mn]]
      BY <1>1, <1>2, <1>4, <2>2
    <3>2. run'[c.run] = [run[c.run] EXCEPT !.pc = pc, !.mine = mn] /\ run[c.run] \in WorkerRuns
      BY <1>1, <1>2, <2>2, <3>1
    <3>6. mn \subseteq run[c.run].mine /\ (c.kind = "messages.append" => c.message \notin mn)
      OBVIOUS
    <3>. HIDE DEF mn
    <3>3. /\ run'[c.run] \in WorkerRuns /\ run'[c.run].pc = pc /\ run'[c.run].thread = run[c.run].thread
          /\ run'[c.run].mine = mn /\ run'[c.run].last = run[c.run].last
          /\ run'[c.run].rounds = run[c.run].rounds /\ run'[c.run].controller = run[c.run].controller
      BY <1>2, <1>5, <2>2, <3>2, <3>6 DEF WorkerRuns, WorkerPcs
    <3>4. run' \in [Runs -> WorkerRuns]
      BY <1>1, <1>2, <2>2, <3>1, <3>2, <3>3
    <3>5. \A r \in Runs : r # c.run => run'[r] = run[r]
      BY <1>1, <1>2, <2>2, <3>1
    <3>. QED BY <1>2, <2>2, <3>3, <3>4, <3>5, <3>6
  <2>. QED BY <2>1, <2>2
<1>7. /\ link' \in Links /\ link'.unseen = link.unseen /\ link.unclosed \subseteq link'.unclosed
      /\ c.next # "" /\ pc = "over" => c.run \in link'.unclosed
  <2>1. CASE c.next = ""
    BY <1>1, <1>4, <2>1
  <2>2. CASE c.next # ""
    <3>. DEFINE o == IF pc = "over" THEN link.unclosed \union {c.run} ELSE link.unclosed
    <3>1. link' = [link EXCEPT !.unclosed = o]
      BY <1>4, <2>2
    <3>2. o \subseteq Runs /\ link.unclosed \subseteq o /\ (pc = "over" => c.run \in o)
      BY <1>1, <1>2, <2>2 DEF Links
    <3>. HIDE DEF o
    <3>. QED BY <1>1, <3>1, <3>2 DEF Links
  <2>. QED BY <2>1, <2>2
<1>8. /\ idb' \in States(SUBSET Nat)
      /\ \A t \in Threads : /\ idb.messages[t] \subseteq idb'.messages[t]
                            /\ \A m \in idb'.messages[t] : m \in idb.messages[t] \/ m \in Stored
  <2>1. CASE idb' = idb
    BY <1>1, <2>1
  <2>2. CASE c.kind = "stream.done" /\ idb' = [IdbAfter(idb, c) EXCEPT !.streams = idb.streams]
    <3>1. /\ IdbAfter(idb, c) \in States(SUBSET Nat)
          /\ \A t \in Threads : t # c.thread => IdbAfter(idb, c).messages[t] = idb.messages[t]
          /\ IdbAfter(idb, c).messages[c.thread] = idb.messages[c.thread] \union {c.message}
      BY <1>1, <1>2, <2>2, IdbIs
    <3>2. idb' \in States(SUBSET Nat) /\ idb'.messages = IdbAfter(idb, c).messages
      BY <1>1, <2>2, <3>1 DEF States
    <3>3. c.message \in Stored /\ c.thread \in Threads
      BY <1>2, <2>2 DEF EntryOk, Stored, Changes
    <3>. QED BY <3>1, <3>2, <3>3
  <2>. QED BY <1>4, <2>1, <2>2
<1>. QED BY <1>2, <1>3, <1>4, <1>5, <1>6, <1>7, <1>8 DEF c, Leaves

(* The page hears a change, or misses it; what it had and misses now is noted. *)
LEMMA ToldIs ==
  ASSUME NEW c \in Changes, ui \in States(Seq(Nat)), link \in Links, Told(c),
         c.next = "over" => c.run \in Runs
  PROVE  /\ ui' \in States(Seq(Nat)) /\ link' \in Links /\ link.unclosed \subseteq link'.unclosed
         /\ \/ ui' = UiAfter(ui, c)
            \/ ui' = ui /\ (c.next = "over" => c.run \in link'.unclosed)
         /\ \A t \in Threads : \A m \in ToSet(ui.messages[t]) \union link.unseen[t] :
              \/ m \in ToSet(ui'.messages[t]) \union link'.unseen[t]
              \/ c.kind = "messages.replaced" /\ t = c.thread /\ m \notin ToSet(c.message)
         /\ c.kind = "messages.append" =>
              c.message \in ToSet(ui'.messages[c.thread]) \union link'.unseen[c.thread]
         /\ \A t \in Threads : \A m \in link'.unseen[t] :
              m \in link.unseen[t] \/ m \in ToSet(ui.messages[t]) \/ (c.kind = "messages.append" /\ m = c.message)
<1>1. /\ link.unseen \in [Threads -> SUBSET Nat] /\ link.unclosed \subseteq Runs /\ c.thread \in Threads
      /\ ui.messages \in [Threads -> Seq(Nat)] /\ (c.kind = "messages.append" => c.message \in Nat)
  BY DEF Links, States, Changes
<1>2. CASE link.open
  <2>. DEFINE l(t) == CASE c.kind = "threads.updated" /\ t \notin c.message -> link.unseen[t] \union ToSet(ui.messages[t])
                        [] c.kind = "messages.replaced" /\ t = c.thread -> link.unseen[t] \ ToSet(c.message)
                        [] OTHER -> link.unseen[t]
              ls == [t \in Threads |-> l(t)]
  <2>1. ui' = UiAfter(ui, c) /\ link' = [link EXCEPT !.unseen = ls]
    BY <1>2 DEF Told
  <2>2. \A t \in Threads : /\ l(t) \subseteq link.unseen[t] \union ToSet(ui.messages[t])
                           /\ c.kind = "threads.updated" /\ t \notin c.message =>
                                l(t) = link.unseen[t] \union ToSet(ui.messages[t])
                           /\ c.kind = "messages.replaced" /\ t = c.thread => l(t) = link.unseen[t] \ ToSet(c.message)
                           /\ ~(c.kind = "messages.replaced" /\ t = c.thread) => link.unseen[t] \subseteq l(t)
    OBVIOUS
  <2>. HIDE DEF l
  <2>3. \A t \in Threads : ToSet(ui.messages[t]) \subseteq Nat /\ ls[t] = l(t)
    BY <1>1 DEF ToSet
  <2>4. ls \in [Threads -> SUBSET Nat]
    BY <1>1, <2>2, <2>3
  <2>. HIDE DEF ls
  <2>5. link' \in Links /\ link'.unseen = ls /\ link'.unclosed = link.unclosed
    BY <2>1, <2>4 DEF Links
  <2>6. /\ ui' \in States(Seq(Nat))
        /\ \A t \in Threads : t # c.thread /\ c.kind # "threads.updated" => ui'.messages[t] = ui.messages[t]
        /\ c.kind \in {"messages.append", "stream.done"} =>
             ui'.messages[c.thread] = Upsert(ui.messages[c.thread], c.message)
        /\ c.kind = "messages.replaced" => ui'.messages[c.thread] = c.message
        /\ c.kind = "threads.updated" => \A t \in Threads :
             ui'.messages[t] = IF t \in c.message THEN ui.messages[t] ELSE <<>>
        /\ c.kind \notin {"messages.append", "stream.done", "messages.replaced", "threads.updated"} =>
             ui'.messages[c.thread] = ui.messages[c.thread]
    BY <2>1, UiIs
  <2>7. c.kind \in {"messages.append", "stream.done"} =>
          ToSet(ui'.messages[c.thread]) = ToSet(ui.messages[c.thread]) \union {c.message}
    <3>1. c.kind \in {"messages.append", "stream.done"} => c.message \in Nat
      BY DEF Changes
    <3>. QED BY <1>1, <2>6, <3>1, UpsertIs
  <2>8. ASSUME NEW t \in Threads, NEW m \in ToSet(ui.messages[t]) \union link.unseen[t]
        PROVE  \/ m \in ToSet(ui'.messages[t]) \union ls[t]
               \/ c.kind = "messages.replaced" /\ t = c.thread /\ m \notin ToSet(c.message)
    <3>1. CASE c.kind = "threads.updated"
      BY <2>2, <2>3, <2>6, <2>8, <3>1
    <3>2. CASE c.kind = "messages.replaced"
      BY <2>2, <2>3, <2>6, <2>8, <3>2
    <3>3. CASE c.kind \notin {"messages.replaced", "threads.updated"}
      <4>1. CASE t = c.thread
        BY <2>2, <2>3, <2>6, <2>7, <2>8, <3>3, <4>1
      <4>2. CASE t # c.thread
        BY <2>2, <2>3, <2>6, <2>8, <3>3, <4>2
      <4>. QED BY <4>1, <4>2
    <3>. QED BY <3>1, <3>2, <3>3
  <2>9. c.kind = "messages.append" => c.message \in ToSet(ui'.messages[c.thread])
    BY <2>7
  <2>10. \A t \in Threads : \A m \in ls[t] : m \in link.unseen[t] \/ m \in ToSet(ui.messages[t])
    BY <2>2, <2>3
  <2>11. link.unclosed \subseteq link'.unclosed /\ ui' = UiAfter(ui, c)
    BY <2>1, <2>5
  <2>. QED BY <2>5, <2>6, <2>8, <2>9, <2>10, <2>11
<1>3. CASE ~link.open
  <2>. DEFINE u == IF c.kind = "messages.append" THEN link.unseen[c.thread] \union {c.message} ELSE link.unseen[c.thread]
              o == IF c.next = "over" THEN link.unclosed \union {c.run} ELSE link.unclosed
  <2>1. ui' = ui /\ link' = [link EXCEPT !.unseen = [@ EXCEPT ![c.thread] = u], !.unclosed = o]
    BY <1>3 DEF Told, Links
  <2>2. /\ u \in SUBSET Nat /\ link.unseen[c.thread] \subseteq u
        /\ c.kind = "messages.append" => c.message \in u
        /\ \A m \in u : m \in link.unseen[c.thread] \/ (c.kind = "messages.append" /\ m = c.message)
        /\ o \in SUBSET Runs /\ link.unclosed \subseteq o /\ (c.next = "over" => c.run \in o)
    BY <1>1
  <2>. HIDE DEF u, o
  <2>3. /\ link' \in Links /\ link'.unclosed = o /\ link'.unseen[c.thread] = u
        /\ \A t \in Threads : t # c.thread => link'.unseen[t] = link.unseen[t]
    BY <1>1, <2>1, <2>2 DEF Links
  <2>. QED BY <1>1, <2>1, <2>2, <2>3
<1>. QED BY <1>2, <1>3

LEMMA LeavesTyped ==
  ASSUME WorkerInv, Leaves, ui' \in States(Seq(Nat)), idb' \in States(SUBSET Nat), link' \in Links
  PROVE  WorkerTyped'
<1>1. /\ UNCHANGED <<server, updates, raced, overlapped, restarts>>
      /\ pull' = (IF Ch(1).kind = "messages.replaced" THEN NoPull ELSE pull)
      /\ run' \in [Runs -> WorkerRuns] /\ IsQueue(applies')
      /\ \A i \in DOMAIN applies' : i + 1 \in DOMAIN applies /\ applies'[i] = applies[i + 1]
  BY DEF Leaves
<1>2. WorkerTyped
  BY DEF WorkerInv
<1>4. pull' \in [pc : {"none", "listed", "applying"}, thread : Threads, messages : Seq(Nat)]
  BY <1>1, <1>2, WorkerAssumption DEF WorkerTyped, NoPull
<1>5. \A i \in DOMAIN applies' : applies'[i].change \in Changes
  BY <1>1, <1>2 DEF WorkerTyped, Ch
<1>. QED BY <1>1, <1>2, <1>4, <1>5 DEF WorkerTyped, Stored, Ch

(* What is queued moves up by one. *)
LEMMA LeavesShift ==
  ASSUME Leaves
  PROVE  /\ \A i \in DOMAIN applies' : 1 < i + 1 /\ i + 1 \in DOMAIN applies /\ applies'[i] = applies[i + 1]
         /\ \A i, j \in DOMAIN applies' : i < j => i + 1 < j + 1
         /\ \A r, m : Queued(applies, r, m) =>
              Queued(applies', r, m) \/ (Ch(1).kind = "messages.append" /\ Ch(1).run = r /\ Ch(1).message = m)
<1>1. /\ Len(applies) \in Nat /\ Len(applies) >= 1 /\ DOMAIN applies = 1..Len(applies)
      /\ DOMAIN applies' = 1..(Len(applies) - 1)
      /\ \A i \in DOMAIN applies' : i + 1 \in DOMAIN applies /\ applies'[i] = applies[i + 1]
  BY DEF Leaves
<1>. DEFINE L == Len(applies)
<1>2. L \in Nat /\ L >= 1 /\ DOMAIN applies = 1..L /\ DOMAIN applies' = 1..(L - 1)
  BY <1>1
<1>. HIDE DEF L
<1>3. \A i \in DOMAIN applies' : 1 < i + 1
  BY <1>2
<1>4. \A i, j \in DOMAIN applies' : i < j => i + 1 < j + 1
  BY <1>2
<1>5. \A i \in DOMAIN applies : i = 1 \/ (i - 1 \in DOMAIN applies' /\ (i - 1) + 1 = i)
  BY <1>2
<1>6. \A i \in DOMAIN applies : i = 1 \/ (i - 1 \in DOMAIN applies' /\ applies'[i - 1] = applies[i])
  BY <1>1, <1>5
<1>7. ASSUME NEW r, NEW m, Queued(applies, r, m)
      PROVE  Queued(applies', r, m) \/ (Ch(1).kind = "messages.append" /\ Ch(1).run = r /\ Ch(1).message = m)
  <2>1. PICK i \in DOMAIN applies :
          applies[i].change.kind = "messages.append" /\ applies[i].change.run = r /\ applies[i].change.message = m
    BY <1>7 DEF Queued
  <2>2. CASE i = 1
    BY <2>1, <2>2 DEF Ch
  <2>3. CASE i # 1
    BY <1>6, <2>1, <2>3 DEF Queued
  <2>. QED BY <2>2, <2>3
<1>. QED BY <1>1, <1>3, <1>4, <1>7

LEMMA LeavesOrder ==
  ASSUME WorkerInv, Leaves
  PROVE  /\ QueueOrder'
         /\ \A i \in DOMAIN applies' : /\ applies'[i].change = Ch(i + 1) /\ i + 1 \in DOMAIN applies
                                       /\ InOrder(Ch(1), Ch(i + 1))
<1>. DEFINE c == Ch(1)
<1>1. /\ 1 \in DOMAIN applies /\ c \in Changes /\ EntryOk(c, run, server, pull)
      /\ UNCHANGED <<server, overlapped>>
      /\ pull' = (IF c.kind = "messages.replaced" THEN NoPull ELSE pull)
      /\ \A r \in Runs : /\ run'[r].thread = run[r].thread /\ run'[r].controller = run[r].controller
                         /\ ~(c.next # "" /\ c.run = r) => run'[r] = run[r]
      /\ \A i \in DOMAIN applies' : i + 1 \in DOMAIN applies /\ applies'[i] = applies[i + 1]
  BY DEF Leaves
<1>2. WorkerTyped /\ QueueOrder
  BY DEF WorkerInv
<1>9. /\ \A i \in DOMAIN applies' : 1 < i + 1
      /\ \A i, j \in DOMAIN applies' : i < j => i + 1 < j + 1
  BY LeavesShift
<1>3. \A i \in DOMAIN applies' : /\ applies'[i].change = Ch(i + 1) /\ i + 1 \in DOMAIN applies
                                 /\ Ch(i + 1) \in Changes /\ EntryOk(Ch(i + 1), run, server, pull) /\ InOrder(c, Ch(i + 1))
  <2>. SUFFICES ASSUME NEW i \in DOMAIN applies'
       PROVE  /\ applies'[i].change = Ch(i + 1) /\ i + 1 \in DOMAIN applies
              /\ Ch(i + 1) \in Changes /\ EntryOk(Ch(i + 1), run, server, pull) /\ InOrder(c, Ch(i + 1))
    OBVIOUS
  <2>1. i + 1 \in DOMAIN applies /\ applies'[i].change = Ch(i + 1)
    BY <1>1 DEF Ch
  <2>2. 1 < i + 1
    BY <1>9
  <2>3. \A j \in DOMAIN applies : Ch(j) \in Changes /\ EntryOk(Ch(j), run, server, pull)
                                 /\ (1 < j => InOrder(Ch(1), Ch(j)))
    BY <1>1, <1>2 DEF QueueOrder, WorkerTyped
  <2>. QED BY <2>1, <2>2, <2>3
<1>. HIDE DEF c
<1>6. QueueOrder'
  <2>1. ASSUME NEW d \in Changes, EntryOk(d, run, server, pull), InOrder(c, d)
        PROVE  EntryOk(d, run', server', pull')
    <3>1. d.next # "" => d.run \in Runs /\ run'[d.run] = run[d.run]
      BY <1>1, <2>1 DEF EntryOk, Changes, InOrder
    <3>2. d.kind = "messages.replaced" => pull' = pull
      BY <1>1, <2>1 DEF InOrder
    <3>. QED BY <1>1, <2>1, <3>1, <3>2 DEF EntryOk
  <2>2. \A i \in DOMAIN applies' : EntryOk(applies'[i].change, run', server', pull')
    BY <1>3, <2>1
  <2>3. ASSUME NEW i \in DOMAIN applies', NEW j \in DOMAIN applies', i < j
        PROVE  InOrder(applies'[i].change, applies'[j].change)
    <3>1. i + 1 < j + 1 /\ i + 1 \in DOMAIN applies /\ j + 1 \in DOMAIN applies
      BY <1>3, <1>9, <2>3
    <3>2. InOrder(Ch(i + 1), Ch(j + 1))
      BY <1>2, <3>1 DEF QueueOrder
    <3>. QED BY <1>3, <3>2
  <2>. QED BY <2>2, <2>3 DEF QueueOrder, Ch
<1>. QED BY <1>3, <1>6 DEF c

LEMMA LeavesRest ==
  ASSUME WorkerInv, Leaves
  PROVE  Owned' /\ PullIsWhole'
<1>. DEFINE c == Ch(1)
<1>1. /\ 1 \in DOMAIN applies /\ c \in Changes /\ EntryOk(c, run, server, pull)
      /\ UNCHANGED <<server, overlapped>>
      /\ pull' = (IF c.kind = "messages.replaced" THEN NoPull ELSE pull)
      /\ \A r \in Runs : /\ run'[r].thread = run[r].thread /\ run'[r].mine \subseteq run[r].mine
                         /\ run'[r].last = run[r].last /\ run'[r].rounds = run[r].rounds
                         /\ IF c.next # "" /\ c.run = r
                            THEN run[r].pc = "awaiting" /\ run'[r].pc \in {c.next, "fail", "over"}
                            ELSE run'[r] = run[r]
  BY DEF Leaves
<1>2. WorkerTyped /\ Owned /\ PullIsWhole
  BY DEF WorkerInv
<1>4. c.thread \in Threads /\ (c.kind \in {"messages.append", "stream.done"} => c.message \in Nat)
  BY <1>1 DEF Changes
<1>. HIDE DEF c
<1>6. Owned'
  <2>1. ASSUME NEW r \in Runs PROVE OwnedBy(run'[r], server')
    <3>1. OwnedBy(run[r], server)
      BY <1>2 DEF Owned
    <3>2. CASE c.next # "" /\ c.run = r
      <4>1. run'[r].pc \notin StoredPcs \union {"idle"} /\ (run'[r].pc = "finish" => c.next = "finish")
        BY <1>1, <3>2 DEF Changes, Nexts, StoredPcs
      <4>2. ASSUME c.next = "finish" PROVE run[r].last # 0
        <5>1. c.message = run[r].last /\ c.message \in ToSet(server[c.thread])
          BY <1>1, <3>2, <4>2 DEF EntryOk
        <5>2. c.message \in Stored
          BY <1>4, <5>1 DEF Stored
        <5>. QED BY <1>2, <5>1, <5>2 DEF WorkerTyped
      <4>. QED BY <1>1, <3>1, <3>2, <4>1, <4>2 DEF OwnedBy
    <3>3. CASE ~(c.next # "" /\ c.run = r)
      BY <1>1, <3>1, <3>3
    <3>. QED BY <3>2, <3>3
  <2>2. \A r \in Runs : run'[r].last = run[r].last
    BY <1>1
  <2>3. server' = server
    BY <1>1
  <2>. QED BY <1>2, <2>1, <2>2, <2>3 DEF Owned
<1>7. PullIsWhole'
  <2>1. \A r \in Runs : NotLive(run[r]) => run'[r] = run[r]
    BY <1>1 DEF NotLive
  <2>2. CASE c.kind = "messages.replaced"
    BY <1>1, <2>2 DEF PullIsWhole, NoPull
  <2>3. CASE c.kind # "messages.replaced"
    <3>1. pull' = pull /\ \A r \in Runs : run'[r].thread = run[r].thread
      BY <1>1, <2>3
    <3>. QED BY <1>1, <1>2, <2>1, <3>1 DEF PullIsWhole
  <2>. QED BY <2>2, <2>3
<1>. QED BY <1>6, <1>7

LEMMA EndRuns ==
  ASSUME WorkerInv, ApplyEnd
  PROVE  RunsOutside'
<1>. DEFINE c == Ch(1)
<1>1. /\ 1 \in DOMAIN applies /\ c \in Changes /\ EntryOk(c, run, server, pull) /\ Told(c)
      /\ \A r \in Runs : /\ run'[r].controller = run[r].controller
                         /\ IF c.next # "" /\ c.run = r
                            THEN run[r].pc = "awaiting" /\ run'[r].pc = c.next
                            ELSE run'[r] = run[r]
  BY EndIs DEF Leaves
<1>2. WorkerTyped /\ QueueOrder /\ RunsOutside
  BY DEF WorkerInv
<1>3. \A i \in DOMAIN applies' : /\ applies'[i].change = Ch(i + 1) /\ i + 1 \in DOMAIN applies
                                 /\ InOrder(c, Ch(i + 1))
  BY EndIs, LeavesOrder
<1>4. ui \in States(Seq(Nat)) /\ ui.streams \in [Runs -> Statuses] /\ link \in Links
  BY <1>2 DEF WorkerTyped, States
<1>8. \A i \in DOMAIN applies : \A r : ~Of(Ch(i), r) => (i = 1 => ~Of(c, r))
  OBVIOUS
<1>. HIDE DEF c
<1>9. c.next = "over" => c.run \in Runs /\ c.kind \in {"stream.done", "stream.error"} /\ ~run[c.run].controller
  BY <1>1 DEF EntryOk, Changes
<1>6. /\ link.unclosed \subseteq link'.unclosed
      /\ ui' = UiAfter(ui, c) \/ (ui' = ui /\ (c.next = "over" => c.run \in link'.unclosed))
  BY <1>1, <1>4, <1>9, ToldIs
<1>5. /\ \A r \in Runs : ~Of(c, r) => ui'.streams[r] = ui.streams[r]
      /\ ui' = UiAfter(ui, c) /\ c.kind \in RunKinds => ui'.streams[c.run] = StreamAfter(c, ui.streams[c.run])
  <2>1. /\ \A r \in Runs : ~(c.run = r /\ c.kind \in RunKinds) => StreamsAfter(c, ui.streams)[r] = ui.streams[r]
        /\ c.kind \in RunKinds => StreamsAfter(c, ui.streams)[c.run] = StreamAfter(c, ui.streams[c.run])
    BY <1>1, <1>4, StreamsTyped
  <2>2. ui' = UiAfter(ui, c) => ui'.streams = StreamsAfter(c, ui.streams)
    <3>1. c \in Changes /\ ui \in States(Seq(Nat))
      BY <1>1, <1>4
    <3>2. UiAfter(ui, c).streams = StreamsAfter(c, ui.streams)
      BY <3>1, UiIs, ZenonT(60)
    <3>. QED BY <3>2
  <2>3. CASE ui' = UiAfter(ui, c)
    BY <2>1, <2>2, <2>3 DEF Of
  <2>4. CASE ui' # UiAfter(ui, c)
    BY <1>6, <2>4
  <2>. QED BY <2>3, <2>4
<1>. SUFFICES ASSUME NEW r \in Runs
     PROVE  /\ OutsideOk(run'[r], ui'.streams[r], r \notin link'.unclosed)
            /\ Outside(run'[r], r \notin link'.unclosed) => \A i \in DOMAIN applies' : ~Of(applies'[i].change, r)
  BY DEF RunsOutside, Ch
<1>10. CASE c.next # "" /\ c.run = r
  <2>1. run'[r].pc = c.next /\ c.kind \in RunKinds
    BY <1>1, <1>10 DEF EntryOk
  <2>2. c.next \notin Early
    BY <1>1 DEF Changes, Nexts, Early
  <2>3. CASE c.next = "over" /\ r \notin link'.unclosed
    <3>1. c.kind \in {"stream.done", "stream.error"} /\ ~run'[r].controller
      BY <1>1, <1>9, <1>10, <2>3
    <3>5. ui' = UiAfter(ui, c)
      BY <1>6, <1>10, <2>3
    <3>2. ui'.streams[r] = StreamAfter(c, ui.streams[r])
      BY <1>5, <1>10, <2>1, <3>5
    <3>3. ui'.streams[r] \in {"none", "error"}
      BY <3>1, <3>2 DEF StreamAfter
    <3>4. \A i \in DOMAIN applies' : ~Of(applies'[i].change, r)
      BY <1>3, <1>10, <2>3 DEF InOrder
    <3>. QED BY <2>1, <2>3, <3>1, <3>3, <3>4 DEF OutsideOk, Early
  <2>4. CASE ~(c.next = "over" /\ r \notin link'.unclosed)
    BY <2>1, <2>2, <2>4 DEF OutsideOk, Outside, Early
  <2>. QED BY <2>3, <2>4
<1>11. CASE ~(c.next # "" /\ c.run = r)
  <2>1. run'[r] = run[r] /\ OutsideOk(run[r], ui.streams[r], r \notin link.unclosed)
    BY <1>1, <1>2, <1>11 DEF RunsOutside
  <2>2. CASE Outside(run[r], r \notin link'.unclosed)
    <3>1. Outside(run[r], r \notin link.unclosed)
      BY <1>6, <2>2 DEF Outside
    <3>2. \A i \in DOMAIN applies : ~Of(Ch(i), r)
      BY <1>2, <3>1 DEF RunsOutside
    <3>3. ~Of(c, r)
      BY <1>1, <1>8, <3>2
    <3>4. ui'.streams[r] = ui.streams[r]
      BY <1>5, <3>3
    <3>5. OutsideOk(run[r], ui.streams[r], r \notin link'.unclosed)
      BY <1>6, <2>1 DEF OutsideOk
    <3>. QED BY <1>3, <2>1, <3>2, <3>4, <3>5
  <2>3. CASE ~Outside(run[r], r \notin link'.unclosed)
    BY <2>1, <2>3 DEF Outside, OutsideOk
  <2>. QED BY <2>2, <2>3
<1>. QED BY <1>10, <1>11

LEMMA RefusedRuns ==
  ASSUME WorkerInv, ApplyRefused
  PROVE  RunsOutside'
<1>. DEFINE c == Ch(1)
<1>1. /\ \A r \in Runs : /\ run'[r].controller = run[r].controller
                         /\ c.next # "" /\ c.run = r =>
                              /\ run'[r].pc = "over" => r \in link'.unclosed
                              /\ run'[r].pc \in {"over", "fail"}
                         /\ ~(c.next # "" /\ c.run = r) => run'[r] = run[r]
      /\ ui' = ui /\ link.unclosed \subseteq link'.unclosed
  BY RefusedIs DEF Leaves
<1>2. RunsOutside
  BY DEF WorkerInv
<1>3. \A i \in DOMAIN applies' : applies'[i].change = Ch(i + 1) /\ i + 1 \in DOMAIN applies
  BY RefusedIs, LeavesOrder
<1>. HIDE DEF c
<1>. SUFFICES ASSUME NEW r \in Runs
     PROVE  /\ OutsideOk(run'[r], ui'.streams[r], r \notin link'.unclosed)
            /\ Outside(run'[r], r \notin link'.unclosed) => \A i \in DOMAIN applies' : ~Of(applies'[i].change, r)
  BY DEF RunsOutside, Ch
<1>4. CASE c.next # "" /\ c.run = r
  BY <1>1, <1>4 DEF OutsideOk, Outside, Early
<1>5. CASE ~(c.next # "" /\ c.run = r)
  <2>1. run'[r] = run[r] /\ OutsideOk(run[r], ui.streams[r], r \notin link.unclosed)
    BY <1>1, <1>2, <1>5 DEF RunsOutside
  <2>2. OutsideOk(run'[r], ui'.streams[r], r \notin link'.unclosed)
    BY <1>1, <2>1 DEF OutsideOk
  <2>3. ASSUME Outside(run'[r], r \notin link'.unclosed)
        PROVE  \A i \in DOMAIN applies' : ~Of(applies'[i].change, r)
    <3>1. Outside(run[r], r \notin link.unclosed)
      BY <1>1, <2>1, <2>3 DEF Outside
    <3>2. \A i \in DOMAIN applies : ~Of(Ch(i), r)
      BY <1>2, <3>1 DEF RunsOutside
    <3>. QED BY <1>3, <3>2
  <2>. QED BY <2>2, <2>3
<1>. QED BY <1>4, <1>5

LEMMA EndPersisting ==
  ASSUME WorkerInv, ApplyEnd
  PROVE  Persisting'
<1>. DEFINE c == Ch(1)
<1>1. /\ 1 \in DOMAIN applies /\ c \in Changes /\ EntryOk(c, run, server, pull)
      /\ idb' = IdbAfter(idb, c) /\ Told(c) /\ UNCHANGED <<server, overlapped>>
      /\ \A r \in Runs : /\ run'[r].thread = run[r].thread /\ run'[r].mine = run[r].mine
                         /\ IF c.next # "" /\ c.run = r
                            THEN run[r].pc = "awaiting" /\ run'[r].pc = c.next
                            ELSE run'[r] = run[r]
  BY EndIs DEF Leaves
<1>2. WorkerTyped /\ Owned /\ PullIsWhole /\ Persisting
  BY DEF WorkerInv
<1>3. /\ ui \in States(Seq(Nat)) /\ idb \in States(SUBSET Nat) /\ link \in Links
      /\ \A r \in Runs : run[r].thread \in Threads
  BY <1>2 DEF WorkerTyped, WorkerRuns
<1>4. c.thread \in Threads
  BY <1>1 DEF Changes
<1>5. \A r, m : Queued(applies, r, m) =>
        Queued(applies', r, m) \/ (c.kind = "messages.append" /\ c.run = r /\ c.message = m)
  BY EndIs, LeavesShift
<1>. HIDE DEF c
<1>9. c.next = "over" => c.run \in Runs
  BY <1>1 DEF EntryOk, Changes
<1>6. /\ \A t \in Threads : \A m \in ToSet(ui.messages[t]) \union link.unseen[t] :
           \/ m \in ToSet(ui'.messages[t]) \union link'.unseen[t]
           \/ c.kind = "messages.replaced" /\ t = c.thread /\ m \notin ToSet(c.message)
      /\ c.kind = "messages.append" => c.message \in ToSet(ui'.messages[c.thread]) \union link'.unseen[c.thread]
  BY <1>1, <1>3, <1>9, ToldIs
<1>7. /\ \A t \in Threads : t # c.thread => idb'.messages[t] = idb.messages[t]
      /\ c.kind # "messages.replaced" => idb.messages[c.thread] \subseteq idb'.messages[c.thread]
      /\ c.kind = "messages.append" => c.message \in idb'.messages[c.thread]
      /\ c.kind = "messages.replaced" => idb'.messages[c.thread] = ToSet(c.message)
  <2>1. /\ \A t \in Threads : t # c.thread => idb'.messages[t] = idb.messages[t]
        /\ c.kind \in {"messages.append", "stream.done"} => idb'.messages[c.thread] = idb.messages[c.thread] \union {c.message}
        /\ c.kind = "messages.replaced" => idb'.messages[c.thread] = ToSet(c.message)
        /\ c.kind \notin {"messages.append", "stream.done", "messages.replaced"} =>
             idb'.messages[c.thread] = idb.messages[c.thread]
    BY ZenonT(60), <1>1, <1>3, IdbIs
  <2>. QED BY <2>1
<1>. SUFFICES ASSUME NEW r \in Runs, run'[r].pc # "killed", Lists(run[r].thread, server, overlapped), NEW m \in run[r].mine
     PROVE  Queued(applies', r, m) \/ Kept(m, run[r].thread)'
  BY <1>1 DEF Persisting
<1>10. run[r].pc # "killed" /\ run[r].thread \in Threads /\ run'[r].thread = run[r].thread
  BY <1>1, <1>3
<1>11. CASE c.kind = "messages.append" /\ c.run = r /\ c.message = m
  <2>1. c.thread = run[r].thread
    BY <1>1, <1>11 DEF EntryOk
  <2>. QED BY <1>6, <1>7, <1>10, <1>11, <2>1 DEF Kept
<1>12. CASE Kept(m, run[r].thread)
  <2>1. CASE ~(run[r].thread = c.thread /\ c.kind = "messages.replaced")
    BY <1>6, <1>7, <1>10, <1>12, <2>1 DEF Kept
  <2>2. CASE run[r].thread = c.thread /\ c.kind = "messages.replaced"
    <3>1. pull.pc = "applying" /\ c.thread = pull.thread /\ c.message = pull.messages
      BY <1>1, <2>2 DEF EntryOk
    <3>2. c.message = server[run[r].thread]
      BY <1>2, <2>2, <3>1 DEF PullIsWhole, Lists
    <3>3. m \in ToSet(server[run[r].thread])
      BY <1>2 DEF Owned, OwnedBy
    <3>. QED BY <1>6, <1>7, <1>10, <1>12, <2>2, <3>2, <3>3 DEF Kept
  <2>. QED BY <2>1, <2>2
<1>13. Queued(applies, r, m) \/ Kept(m, run[r].thread)
  BY <1>2, <1>10 DEF Persisting
<1>. QED BY <1>5, <1>11, <1>12, <1>13

(* A message whose change was rejected is not one of its run. *)
LEMMA RefusedPersisting ==
  ASSUME WorkerInv, ApplyRefused
  PROVE  /\ Persisting'
         /\ \A r \in Runs : \A m \in run'[r].mine : Queued(applies, r, m) => Queued(applies', r, m)
<1>. DEFINE c == Ch(1)
<1>1. /\ UNCHANGED <<server, overlapped, ui>> /\ link'.unseen = link.unseen
      /\ EntryOk(c, run, server, pull)
      /\ \A t \in Threads : idb.messages[t] \subseteq idb'.messages[t]
      /\ \A r \in Runs : /\ run'[r].thread = run[r].thread /\ run'[r].mine \subseteq run[r].mine
                         /\ IF c.next # "" /\ c.run = r THEN run[r].pc = "awaiting" ELSE run'[r] = run[r]
                         /\ c.next # "" /\ c.run = r /\ c.kind = "messages.append" => c.message \notin run'[r].mine
  BY RefusedIs DEF Leaves
<1>2. Persisting /\ \A r \in Runs : run[r].thread \in Threads
  BY DEF WorkerInv, WorkerTyped, WorkerRuns
<1>3. \A r, m : Queued(applies, r, m) =>
        Queued(applies', r, m) \/ (c.kind = "messages.append" /\ c.run = r /\ c.message = m)
  BY RefusedIs, LeavesShift
<1>. HIDE DEF c
<1>4. c.kind = "messages.append" => c.next # ""
  BY <1>1 DEF EntryOk
<1>5. ASSUME NEW r \in Runs, NEW m \in run'[r].mine, Queued(applies, r, m) PROVE Queued(applies', r, m)
  <2>1. Queued(applies', r, m) \/ (c.kind = "messages.append" /\ c.run = r /\ c.message = m)
    BY <1>3, <1>5
  <2>2. ~(c.kind = "messages.append" /\ c.run = r /\ c.message = m)
    BY <1>1, <1>4, <1>5
  <2>. QED BY <2>1, <2>2
<1>6. Persisting'
  <2>. SUFFICES ASSUME NEW r \in Runs, run'[r].pc # "killed", Lists(run[r].thread, server, overlapped),
                       NEW m \in run'[r].mine
       PROVE  Queued(applies', r, m) \/ Kept(m, run[r].thread)'
    BY <1>1 DEF Persisting
  <2>1. run[r].pc # "killed" /\ m \in run[r].mine
    BY <1>1
  <2>2. Queued(applies, r, m) \/ Kept(m, run[r].thread)
    BY <1>2, <2>1 DEF Persisting
  <2>. QED BY <1>1, <1>2, <1>5, <2>2 DEF Kept
<1>. QED BY <1>5, <1>6

(* What a change does to the lists of the memory *)
LEMMA MemIs ==
  ASSUME NEW c \in Changes, NEW s, s.messages \in [Threads -> Seq(Nat)]
  PROVE  /\ MemAfter(s, c).messages \in [Threads -> Seq(Nat)]
         /\ \A t \in Threads : t # c.thread => MemAfter(s, c).messages[t] = s.messages[t]
         /\ c.kind = "messages.append" => MemAfter(s, c).messages[c.thread] = Append(s.messages[c.thread], c.message)
         /\ c.kind = "stream.done" => MemAfter(s, c).messages[c.thread] = Upsert(s.messages[c.thread], c.message)
         /\ c.kind = "messages.replaced" => MemAfter(s, c).messages[c.thread] = c.message
         /\ c.kind \notin Changing => MemAfter(s, c).messages = s.messages
<1>. DEFINE l == CASE c.kind = "messages.append" -> Append(s.messages[c.thread], c.message)
                   [] c.kind = "stream.done" -> Upsert(s.messages[c.thread], c.message)
                   [] c.kind = "messages.replaced" -> c.message
                   [] OTHER -> s.messages[c.thread]
<1>1. c.thread \in Threads /\ s.messages[c.thread] \in Seq(Nat)
  BY DEF Changes
<1>2. /\ c.kind = "messages.append" => l = Append(s.messages[c.thread], c.message)
      /\ c.kind = "stream.done" => l = Upsert(s.messages[c.thread], c.message)
      /\ c.kind = "messages.replaced" => l = c.message
      /\ c.kind \notin Changing => l = s.messages[c.thread]
  BY DEF Changing
<1>3. MemAfter(s, c).messages = [s.messages EXCEPT ![c.thread] = l]
  BY DEF MemAfter
<1>. HIDE DEF l
<1>4. l \in Seq(Nat)
  <2>1. c.kind \in {"messages.append", "stream.done"} => c.message \in Nat
    BY DEF Changes
  <2>2. c.kind = "messages.replaced" => c.message \in Seq(Nat)
    BY DEF Changes
  <2>3. c.message \in Nat => /\ Upsert(s.messages[c.thread], c.message) \in Seq(Nat)
                             /\ Append(s.messages[c.thread], c.message) \in Seq(Nat)
    BY <1>1, UpsertIs, ListGrows
  <2>. QED BY <1>1, <1>2, <2>1, <2>2, <2>3 DEF Changing
<1>. QED BY <1>1, <1>2, <1>3, <1>4

LEMMA EndRemembering ==
  ASSUME WorkerInv, ApplyEnd
  PROVE  Remembering'
<1>. DEFINE c == Ch(1)
<1>1. /\ 1 \in DOMAIN applies /\ c \in Changes /\ EntryOk(c, run, server, pull)
      /\ mem' = MemAfter(applies[1].base, c) /\ UNCHANGED <<server, overlapped, raced, restarts>>
      /\ \A r \in Runs : /\ run'[r].thread = run[r].thread /\ run'[r].mine = run[r].mine
                         /\ run'[r].last = run[r].last
                         /\ IF c.next # "" /\ c.run = r
                            THEN run[r].pc = "awaiting" /\ run'[r].pc = c.next
                            ELSE run'[r] = run[r]
      /\ Len(applies) \in Nat /\ Len(applies) >= 1 /\ DOMAIN applies = 1..Len(applies)
      /\ DOMAIN applies' = 1..(Len(applies) - 1)
      /\ \A i \in DOMAIN applies' : i + 1 \in DOMAIN applies /\ applies'[i] = applies[i + 1]
  BY EndIs DEF Leaves
<1>2. WorkerTyped /\ QueueOrder /\ Owned /\ PullIsWhole /\ Remembering
  BY DEF WorkerInv
<1>. SUFFICES ASSUME Calm PROVE mem'.messages \in [Threads -> Seq(Nat)] /\ CalmQueue' /\ CalmLists' /\ CalmRuns'
  BY <1>1 DEF Remembering, Calm
<1>3. mem.messages \in [Threads -> Seq(Nat)] /\ CalmQueue /\ CalmLists /\ CalmRuns
  BY <1>2 DEF Remembering
<1>4. applies[1].base.messages = mem.messages
  BY <1>1, <1>3 DEF CalmQueue
<1>5. /\ mem'.messages \in [Threads -> Seq(Nat)]
      /\ \A t \in Threads : t # c.thread => mem'.messages[t] = mem.messages[t]
      /\ c.kind = "messages.append" => mem'.messages[c.thread] = Append(mem.messages[c.thread], c.message)
      /\ c.kind = "stream.done" => mem'.messages[c.thread] = Upsert(mem.messages[c.thread], c.message)
      /\ c.kind = "messages.replaced" => mem'.messages[c.thread] = c.message
      /\ c.kind \notin Changing => mem'.messages = mem.messages
  <2>. DEFINE b == applies[1].base
  <2>1. c \in Changes /\ b.messages = mem.messages /\ mem' = MemAfter(b, c)
    BY <1>1, <1>4
  <2>. HIDE DEF b, c
  <2>2. b.messages \in [Threads -> Seq(Nat)]
    BY <1>3, <2>1
  <2>3. /\ MemAfter(b, c).messages \in [Threads -> Seq(Nat)]
        /\ \A t \in Threads : t # c.thread => MemAfter(b, c).messages[t] = b.messages[t]
        /\ c.kind = "messages.append" => MemAfter(b, c).messages[c.thread] = Append(b.messages[c.thread], c.message)
        /\ c.kind = "stream.done" => MemAfter(b, c).messages[c.thread] = Upsert(b.messages[c.thread], c.message)
        /\ c.kind = "messages.replaced" => MemAfter(b, c).messages[c.thread] = c.message
        /\ c.kind \notin Changing => MemAfter(b, c).messages = b.messages
    BY <2>1, <2>2, MemIs
  <2>. QED BY <2>1, <2>3
<1>6. \A r \in Runs : run[r].thread \in Threads
  BY <1>2 DEF WorkerTyped, WorkerRuns
<1>7. /\ \A i \in DOMAIN applies' : 1 < i + 1 /\ i + 1 \in DOMAIN applies /\ applies'[i] = applies[i + 1]
      /\ \A i, j \in DOMAIN applies' : i < j => i + 1 < j + 1
      /\ \A r, m : Queued(applies, r, m) =>
           Queued(applies', r, m) \/ (c.kind = "messages.append" /\ c.run = r /\ c.message = m)
  BY EndIs, LeavesShift
<1>8. c.next \notin StoredPcs
  BY <1>1 DEF Changes, Nexts, StoredPcs
<1>9. c.thread \in Threads
  BY <1>1 DEF Changes
<1>10. c.kind \in Changing => DOMAIN applies' = {}
  <2>1. ASSUME c.kind \in Changing, NEW i \in DOMAIN applies' PROVE FALSE
    <3>1. 1 < i + 1 /\ i + 1 \in DOMAIN applies
      BY <1>7
    <3>. QED BY <1>1, <1>3, <2>1, <3>1 DEF CalmQueue
  <2>. QED BY <2>1
<1>11. \A i \in DOMAIN applies' : applies'[i].change = Ch(i + 1) /\ i + 1 \in DOMAIN applies
  BY <1>1 DEF Ch
<1>16. c.kind = "messages.append" /\ Lists(c.thread, server, overlapped) => c.message \notin ToSet(mem.messages[c.thread])
  BY <1>1, <1>3 DEF CalmLists
<1>. HIDE DEF c
<1>12. CalmQueue'
  <2>1. CASE c.kind \in Changing
    BY <1>10, <2>1 DEF CalmQueue
  <2>2. CASE c.kind \notin Changing
    <3>1. \A i \in DOMAIN applies' : applies'[i].base.messages = mem.messages
      BY <1>3, <1>7 DEF CalmQueue
    <3>2. ASSUME NEW i \in DOMAIN applies', NEW j \in DOMAIN applies', i < j
          PROVE  applies'[i].change.by = applies'[j].change.by /\ applies'[i].change.kind \notin Changing
      <4>1. i + 1 < j + 1 /\ i + 1 \in DOMAIN applies /\ j + 1 \in DOMAIN applies
        BY <1>7, <3>2
      <4>. QED BY <1>3, <1>11, <4>1 DEF CalmQueue
    <3>. QED BY <1>5, <2>2, <3>1, <3>2 DEF CalmQueue, Ch
  <2>. QED BY <2>1, <2>2
<1>13. \A t \in Threads : Lists(t, server, overlapped) =>
         IsInjective(mem.messages[t]) /\ ToSet(mem.messages[t]) \subseteq ToSet(server[t]) /\ IsInjective(server[t])
  BY <1>2, <1>3 DEF CalmLists, Owned
<1>14. c.kind \in {"messages.append", "stream.done"} =>
         /\ c.message \in Nat /\ c.message = run[c.run].last /\ c.message \in ToSet(server[c.thread])
         /\ c.run \in Runs /\ run[c.run].pc = "awaiting" /\ c.thread = run[c.run].thread
         /\ c.next # "" /\ c.message # 0
  <2>. SUFFICES ASSUME c.kind \in {"messages.append", "stream.done"}
       PROVE  /\ c.message \in Nat /\ c.message = run[c.run].last /\ c.message \in ToSet(server[c.thread])
              /\ c.run \in Runs /\ run[c.run].pc = "awaiting" /\ c.thread = run[c.run].thread
              /\ c.next # "" /\ c.message # 0
    OBVIOUS
  <2>1. c.message \in Nat /\ c.run \in Runs
    BY <1>1 DEF Changes, RunKinds
  <2>2. c.message \in ToSet(server[c.thread]) /\ c.next # "" /\ c.message = run[c.run].last
    BY <1>1 DEF EntryOk
  <2>3. c.message \in Stored
    BY <1>9, <2>2 DEF Stored
  <2>4. c.message # 0
    BY <1>2, <2>3 DEF WorkerTyped
  <2>. QED BY <1>1, <2>1, <2>2, <2>4 DEF EntryOk
<1>15. ASSUME c.kind = "messages.replaced", Lists(c.thread, server, overlapped)
       PROVE  /\ c.message = server[c.thread]
              /\ \A r \in Runs : run[r].thread = c.thread => NotLive(run[r])
  BY <1>1, <1>2, <1>15 DEF EntryOk, PullIsWhole, Lists
<1>17. Lists(c.thread, server, overlapped) =>
         /\ IsInjective(mem'.messages[c.thread]) /\ ToSet(mem'.messages[c.thread]) \subseteq ToSet(server[c.thread])
         /\ c.kind # "messages.replaced" => ToSet(mem.messages[c.thread]) \subseteq ToSet(mem'.messages[c.thread])
         /\ c.kind = "messages.append" => c.message \in ToSet(mem'.messages[c.thread])
         /\ c.kind \in {"messages.append", "stream.done"} =>
              ToSet(mem'.messages[c.thread]) \subseteq ToSet(mem.messages[c.thread]) \union {c.message}
  <2>. SUFFICES ASSUME Lists(c.thread, server, overlapped)
       PROVE  /\ IsInjective(mem'.messages[c.thread]) /\ ToSet(mem'.messages[c.thread]) \subseteq ToSet(server[c.thread])
              /\ c.kind # "messages.replaced" => ToSet(mem.messages[c.thread]) \subseteq ToSet(mem'.messages[c.thread])
              /\ c.kind = "messages.append" => c.message \in ToSet(mem'.messages[c.thread])
              /\ c.kind \in {"messages.append", "stream.done"} =>
                   ToSet(mem'.messages[c.thread]) \subseteq ToSet(mem.messages[c.thread]) \union {c.message}
    OBVIOUS
  <2>1. mem.messages[c.thread] \in Seq(Nat)
    BY <1>3, <1>9
  <2>2. CASE c.kind = "messages.append"
    <3>1. ToSet(Append(mem.messages[c.thread], c.message)) = ToSet(mem.messages[c.thread]) \union {c.message}
          /\ IsInjective(Append(mem.messages[c.thread], c.message))
      BY <1>9, <1>13, <1>14, <1>16, <2>1, <2>2, ListGrows
    <3>. QED BY <1>5, <1>9, <1>13, <1>14, <2>2, <3>1
  <2>3. CASE c.kind = "stream.done"
    <3>1. ToSet(Upsert(mem.messages[c.thread], c.message)) = ToSet(mem.messages[c.thread]) \union {c.message}
          /\ IsInjective(Upsert(mem.messages[c.thread], c.message))
      BY <1>9, <1>13, <1>14, <2>1, <2>3, UpsertIs
    <3>. QED BY <1>5, <1>9, <1>13, <1>14, <2>3, <3>1
  <2>4. CASE c.kind = "messages.replaced"
    BY <1>5, <1>9, <1>13, <1>15, <2>4
  <2>5. CASE c.kind \notin Changing
    BY <1>5, <1>9, <1>13, <2>5 DEF Changing
  <2>. QED BY <2>2, <2>3, <2>4, <2>5 DEF Changing
<1>18. CalmLists'
  <2>1. \A t \in Threads : Lists(t, server, overlapped) =>
          IsInjective(mem'.messages[t]) /\ ToSet(mem'.messages[t]) \subseteq ToSet(server[t])
    BY <1>5, <1>13, <1>17
  <2>2. \A i \in DOMAIN applies' : applies'[i].change.kind = "messages.append"
          /\ Lists(applies'[i].change.thread, server, overlapped) =>
          applies'[i].change.message \notin ToSet(mem'.messages[applies'[i].change.thread])
    <3>1. CASE c.kind \in Changing
      BY <1>10, <3>1
    <3>2. CASE c.kind \notin Changing
      BY <1>3, <1>5, <1>11, <3>2 DEF CalmLists
    <3>. QED BY <3>1, <3>2
  <2>. QED BY <1>1, <2>1, <2>2 DEF CalmLists, Ch
<1>19. CalmRuns'
  <2>. SUFFICES ASSUME NEW r \in Runs, Lists(run[r].thread, server, overlapped)
       PROVE  /\ run'[r].pc \in StoredPcs => run[r].last \notin ToSet(mem'.messages[run[r].thread])
              /\ \A m \in run[r].mine : Queued(applies', r, m) \/ m \in ToSet(mem'.messages[run[r].thread])
    BY <1>1 DEF CalmRuns
  <2>1. /\ run[r].pc \in StoredPcs => run[r].last \notin ToSet(mem.messages[run[r].thread])
        /\ \A m \in run[r].mine : Queued(applies, r, m) \/ m \in ToSet(mem.messages[run[r].thread])
    BY <1>3 DEF CalmRuns
  <2>2. ASSUME run'[r].pc \in StoredPcs PROVE run[r].last \notin ToSet(mem'.messages[run[r].thread])
    <3>1. run'[r] = run[r] /\ run[r].pc \in StoredPcs
      BY <1>1, <1>8, <2>2
    <3>2. CASE run[r].thread # c.thread \/ c.kind \notin Changing
      BY <1>5, <1>6, <2>1, <3>1, <3>2
    <3>3. CASE run[r].thread = c.thread /\ c.kind \in {"messages.append", "stream.done"}
      <4>1. c.run # r
        BY <1>14, <3>1, <3>3 DEF StoredPcs
      <4>2. run[r].last # c.message
        BY <1>2, <1>14, <3>3, <4>1 DEF Owned
      <4>. QED BY <1>17, <2>1, <3>1, <3>3, <4>2
    <3>4. CASE run[r].thread = c.thread /\ c.kind = "messages.replaced"
      BY <1>15, <3>1, <3>4 DEF NotLive, StoredPcs
    <3>. QED BY <3>2, <3>3, <3>4 DEF Changing
  <2>3. ASSUME NEW m \in run[r].mine PROVE Queued(applies', r, m) \/ m \in ToSet(mem'.messages[run[r].thread])
    <3>1. CASE c.kind = "messages.append" /\ c.run = r /\ c.message = m
      BY <1>14, <1>17, <3>1
    <3>2. CASE m \in ToSet(mem.messages[run[r].thread])
      <4>1. CASE run[r].thread # c.thread
        BY <1>5, <1>6, <3>2, <4>1
      <4>2. CASE run[r].thread = c.thread /\ c.kind # "messages.replaced"
        BY <1>17, <3>2, <4>2
      <4>3. CASE run[r].thread = c.thread /\ c.kind = "messages.replaced"
        <5>1. m \in ToSet(server[run[r].thread])
          BY <1>2 DEF Owned, OwnedBy
        <5>. QED BY <1>5, <1>15, <4>3, <5>1
      <4>. QED BY <4>1, <4>2, <4>3
    <3>. QED BY <1>7, <2>1, <3>1, <3>2
  <2>. QED BY <2>2, <2>3
<1>. QED BY <1>5, <1>12, <1>18, <1>19

LEMMA RefusedRemembering ==
  ASSUME WorkerInv, ApplyRefused
  PROVE  Remembering'
<1>1. /\ UNCHANGED <<server, mem, overlapped, raced, restarts>>
      /\ \A r \in Runs : /\ run'[r].thread = run[r].thread /\ run'[r].mine \subseteq run[r].mine
                         /\ run'[r].last = run[r].last
                         /\ run'[r].pc \in {"fail", "over"} \/ run'[r] = run[r]
  BY RefusedIs DEF Leaves
<1>2. /\ \A i \in DOMAIN applies' : i + 1 \in DOMAIN applies /\ applies'[i] = applies[i + 1]
      /\ \A i, j \in DOMAIN applies' : i < j => i + 1 < j + 1
      /\ \A r \in Runs : \A m \in run'[r].mine : Queued(applies, r, m) => Queued(applies', r, m)
  BY RefusedIs, LeavesShift, RefusedPersisting
<1>. SUFFICES ASSUME Calm PROVE mem'.messages \in [Threads -> Seq(Nat)] /\ CalmQueue' /\ CalmLists' /\ CalmRuns'
  BY <1>1 DEF Remembering, Calm
<1>3. mem.messages \in [Threads -> Seq(Nat)] /\ CalmQueue /\ CalmLists /\ CalmRuns
  BY DEF WorkerInv, Remembering
<1>4. \A i \in DOMAIN applies' : applies'[i].change = Ch(i + 1) /\ applies'[i].base = applies[i + 1].base
  BY <1>2 DEF Ch
<1>5. CalmQueue'
  <2>1. \A i \in DOMAIN applies' : applies'[i].base.messages = mem.messages
    BY <1>2, <1>3, <1>4 DEF CalmQueue
  <2>2. ASSUME NEW i \in DOMAIN applies', NEW j \in DOMAIN applies', i < j
        PROVE  applies'[i].change.by = applies'[j].change.by /\ applies'[i].change.kind \notin Changing
    <3>1. i + 1 < j + 1 /\ i + 1 \in DOMAIN applies /\ j + 1 \in DOMAIN applies
      BY <1>2, <2>2
    <3>. QED BY <1>3, <1>4, <3>1 DEF CalmQueue
  <2>. QED BY <1>1, <2>1, <2>2 DEF CalmQueue, Ch
<1>6. CalmLists'
  <2>1. \A i \in DOMAIN applies' : applies'[i].change.kind = "messages.append"
          /\ Lists(applies'[i].change.thread, server, overlapped) =>
          applies'[i].change.message \notin ToSet(mem.messages[applies'[i].change.thread])
    BY <1>2, <1>3, <1>4 DEF CalmLists
  <2>. QED BY <1>1, <1>3, <2>1 DEF CalmLists, Ch
<1>7. CalmRuns'
  <2>. SUFFICES ASSUME NEW r \in Runs, Lists(run[r].thread, server, overlapped)
       PROVE  /\ run'[r].pc \in StoredPcs => run[r].last \notin ToSet(mem.messages[run[r].thread])
              /\ \A m \in run'[r].mine : Queued(applies', r, m) \/ m \in ToSet(mem.messages[run[r].thread])
    BY <1>1 DEF CalmRuns
  <2>1. /\ run[r].pc \in StoredPcs => run[r].last \notin ToSet(mem.messages[run[r].thread])
        /\ \A m \in run[r].mine : Queued(applies, r, m) \/ m \in ToSet(mem.messages[run[r].thread])
    BY <1>3 DEF CalmRuns
  <2>2. run'[r].pc \in StoredPcs => run[r].pc \in StoredPcs
    BY <1>1 DEF StoredPcs
  <2>. QED BY <1>1, <1>2, <2>1, <2>2
<1>. QED BY <1>1, <1>3, <1>5, <1>6, <1>7

(* The page connects or lets its port go. *)
LEMMA RelinkKeeps == ASSUME WorkerInv, Relink PROVE WorkerInv'
<1>1. /\ UNCHANGED <<server, mem, idb, ui, applies, run, pull, updates, raced, overlapped, restarts>>
      /\ link' = [link EXCEPT !.open = ~@]
  BY DEF Relink
<1>2. WorkerTyped /\ QueueOrder /\ RunsOutside /\ Owned /\ PullIsWhole /\ Persisting /\ Remembering
  BY DEF WorkerInv
<1>3. link' \in Links /\ link'.unseen = link.unseen /\ link'.unclosed = link.unclosed
  BY <1>1, <1>2 DEF WorkerTyped, Links
<1>4. WorkerTyped'
  BY <1>1, <1>2, <1>3 DEF WorkerTyped, Stored, Ch
<1>5. QueueOrder' /\ RunsOutside'
  BY <1>1, <1>2, <1>3 DEF QueueOrder, RunsOutside, Ch
<1>6. Owned' /\ PullIsWhole'
  BY <1>1, <1>2 DEF Owned, PullIsWhole
<1>7. Persisting'
  BY <1>1, <1>2, <1>3 DEF Persisting, Kept
<1>8. Remembering'
  BY <1>1, <1>2 DEF Remembering, Calm, CalmQueue, CalmLists, CalmRuns, Ch
<1>. QED BY <1>4, <1>5, <1>6, <1>7, <1>8 DEF WorkerInv

-----------------------------------------------------------------------------
(* The theorems *)

(* A step, by what it does to the queue of changes and to the runs *)
StepKinds ==
  \/ ApplyEnd \/ ApplyRefused \/ Relink \/ Restart \/ (\E t \in Threads : PullList(t))
  \/ (\E r \in Runs, stage \in Stages : Store(r, stage))
  \/ (\E r, c, n : QueuesOwn(r, c, n)) \/ (\E c : QueuesOther(c)) \/ (\E r, n : Moves(r, n))

LEMMA StepIs == WorkerTyped /\ AgentWorkerNext => StepKinds
<1>. SUFFICES ASSUME WorkerTyped, AgentWorkerNext PROVE StepKinds
  OBVIOUS
<1>1. ASSUME PullApply \/ SettingsUpdate \/ ThreadsUpdate PROVE \E c : QueuesOther(c)
  BY <1>1, PullOther, SettingsOther, ThreadsOther
<1>2. ASSUME NEW r \in Runs, Cancel(r) PROVE \E c : QueuesOther(c)
  BY <1>2, CancelOther
<1>3. ASSUME NEW t \in Threads, NEW r \in Runs, Send(r, t) PROVE \E s, n : Moves(s, n)
  BY <1>3, SendMoves
<1>4. ASSUME NEW r \in Runs, NEW stage \in Stages, Answered(r, stage) PROVE \E s, c, n : QueuesOwn(s, c, n)
  BY <1>4, AnsweredOwn
<1>5. ASSUME NEW r \in Runs,
             \/ StatusWaiting(r) \/ StatusStreaming(r) \/ LlmCallsTool(r) \/ Reset(r) \/ Finish(r) \/ Fail(r)
      PROVE  \E s, c, n : QueuesOwn(s, c, n)
  <2>1. run[r].last \in Nat
    BY DEF WorkerTyped, WorkerRuns
  <2>2. CASE StatusWaiting(r)
    BY <2>2, AwaitOwn DEF StatusWaiting, RunAt, Statuses, Nexts, RunKinds, Early
  <2>3. CASE StatusStreaming(r)
    BY <2>3, AwaitOwn DEF StatusStreaming, RunAt, Statuses, Nexts, RunKinds, Early
  <2>4. CASE LlmCallsTool(r)
    BY <2>4, AwaitOwn DEF LlmCallsTool, RunAt, Statuses, Nexts, RunKinds, Early
  <2>5. CASE Reset(r)
    BY <2>5, AwaitOwn DEF Reset, RunAt, Statuses, Nexts, RunKinds, Early
  <2>6. CASE Finish(r)
    BY <2>1, <2>6, AwaitOwn DEF Finish, RunAt, Statuses, Nexts, RunKinds, Early
  <2>7. CASE Fail(r)
    BY <2>7, AwaitOwn DEF Fail, RunAt, Statuses, Nexts, RunKinds, Early
  <2>. QED BY <1>5, <2>2, <2>3, <2>4, <2>5, <2>6, <2>7
<1>6. ASSUME NEW r \in Runs, Chunk(r) PROVE \E s, c, n : QueuesOwn(s, c, n)
  BY <1>6, ChunkOwn
<1>7. ASSUME NEW r \in Runs, LlmSays(r) \/ LlmSaysNothing(r) PROVE \E s, n : Moves(s, n)
  <2>1. CASE LlmSays(r)
    BY <2>1, GoesToMoves DEF LlmSays, RunAt
  <2>2. CASE LlmSaysNothing(r)
    BY <2>2, GoesToMoves DEF LlmSaysNothing, RunAt
  <2>. QED BY <1>7, <2>1, <2>2
<1>8. ASSUME NEW r \in Runs, Throws(r) PROVE \E s, n : Moves(s, n)
  BY <1>8, ThrowsMoves
<1>. QED
  BY <1>1, <1>2, <1>3, <1>4, <1>5, <1>6, <1>7, <1>8, Zenon DEF AgentWorkerNext, StepKinds

LEMMA WorkerInvStep == WorkerInv /\ AgentWorkerNext => WorkerInv'
<1>1. WorkerInv => WorkerTyped
  BY DEF WorkerInv
<1>2. ASSUME WorkerInv, ApplyEnd PROVE WorkerInv'
  <2>1. /\ Leaves /\ Ch(1) \in Changes /\ EntryOk(Ch(1), run, server, pull)
        /\ idb' = IdbAfter(idb, Ch(1)) /\ Told(Ch(1))
    BY <1>2, EndIs DEF Leaves
  <2>2. ui \in States(Seq(Nat)) /\ idb \in States(SUBSET Nat) /\ link \in Links
    BY <1>2 DEF WorkerInv, WorkerTyped
  <2>3. Ch(1).next = "over" => Ch(1).run \in Runs
    BY <2>1 DEF EntryOk, Changes
  <2>4. ui' \in States(Seq(Nat)) /\ link' \in Links
    BY <2>1, <2>2, <2>3, ToldIs
  <2>5. idb' \in States(SUBSET Nat)
    BY <2>1, <2>2, IdbIs
  <2>. QED
    BY <1>2, <2>1, <2>4, <2>5, LeavesTyped, LeavesOrder, LeavesRest, EndRuns, EndPersisting, EndRemembering
       DEF WorkerInv
<1>3. ASSUME WorkerInv, ApplyRefused PROVE WorkerInv'
  <2>1. ui' \in States(Seq(Nat)) /\ idb' \in States(SUBSET Nat) /\ link' \in Links /\ Leaves
    BY <1>3, RefusedIs DEF WorkerInv, WorkerTyped
  <2>. QED
    BY <1>3, <2>1, LeavesTyped, LeavesOrder, LeavesRest, RefusedRuns, RefusedPersisting, RefusedRemembering
       DEF WorkerInv
<1>. QED
  BY <1>1, <1>2, <1>3, StepIs, RelinkKeeps, RestartKeeps, PullListKeeps, StoreKeeps, OwnKeeps, OtherKeeps, MovesKeep DEF StepKinds

LEMMA WorkerInvHolds == AgentWorkerSpec => []WorkerInv
<1>1. WorkerInv /\ [AgentWorkerNext]_workerVars => WorkerInv'
  BY WorkerInvStep, WorkerInvStutter
<1>. QED BY <1>1, WorkerInvInit, PTL DEF AgentWorkerSpec

(* A run that came to its end shows no stream that goes on, for any number of   *)
(* runs, threads, cancels, pulls, lists of threads and ends of the worker, with *)
(* a page that connects and lets go when it likes and writes that IndexedDB     *)
(* rejects: unless the run ended while the page held no port or on such a write.*)
THEOREM EndedRunsShowNoStream == AgentWorkerSpec => []UiStreamsEnd
<1>1. WorkerInv => UiStreamsEnd
  BY DEF WorkerInv, RunsOutside, OutsideOk, UiStreamsEnd, AtRest, RunAt
<1>. QED BY <1>1, WorkerInvHolds, PTL

(* What a run was answered is in IndexedDB when it ends if it was not rejected,   *)
(* and on the page if that heard of it, unless a pull met a run of its thread or  *)
(* did not list all; and the worker's memory has it once if changes of two        *)
(* actions never were in flight together.                                         *)
THEOREM CopiesHold == AgentWorkerSpec => []CopiesAreWhole
<1>1. ASSUME WorkerInv PROVE CopiesAreWhole
  <2>1. \A r \in Runs : \A m : AtRest(r) => ~Queued(applies, r, m) /\ run[r].pc # "killed"
    <3>1. applies = <<>> => DOMAIN applies = {}
      OBVIOUS
    <3>. QED BY <3>1 DEF AtRest, RunAt, Queued
  <2>2. \A t : ListedWhole(t) => Lists(t, server, overlapped)
    BY DEF ListedWhole, Lists
  <2>3. PersistedShown
    <3>. SUFFICES ASSUME NEW r \in Runs, AtRest(r), ListedWhole(run[r].thread), NEW m \in run[r].mine
         PROVE  Kept(m, run[r].thread)
      BY DEF PersistedShown, Kept
    <3>. QED BY <1>1, <2>1, <2>2 DEF WorkerInv, Persisting
  <2>4. MemoryKeepsHistory
    <3>. SUFFICES ASSUME Calm, NEW r \in Runs, AtRest(r), ListedWhole(run[r].thread)
         PROVE  /\ run[r].mine \subseteq ToSet(mem.messages[run[r].thread])
                /\ IsInjective(mem.messages[run[r].thread])
      BY DEF MemoryKeepsHistory, Calm
    <3>1. CalmLists /\ CalmRuns /\ run[r].thread \in Threads
      BY <1>1 DEF WorkerInv, Remembering, WorkerTyped, WorkerRuns
    <3>. QED BY <2>1, <2>2, <3>1 DEF CalmLists, CalmRuns
  <2>. QED BY <2>3, <2>4 DEF CopiesAreWhole
<1>. QED BY <1>1, WorkerInvHolds, PTL

-----------------------------------------------------------------------------
(* The messages in IndexedDB in the order of their numbers *)
LEMMA AscendingIs ==
  ASSUME NEW n \in Nat, NEW S \in SUBSET (1..n)
  PROVE  Ascending(S) \in Seq(S)
<1>. DEFINE Ranked(T) == \E s \in [1..Cardinality(T) -> T] : \A i, j \in DOMAIN s : i < j => s[i] < s[j]
            Sizes == {k \in Nat : \E T \in SUBSET (1..n) : Cardinality(T) = k /\ ~ Ranked(T)}
<1>1. \A T \in SUBSET (1..n) : IsFiniteSet(T) /\ Cardinality(T) \in Nat
  <2>1. IsFiniteSet(1..n)
    BY FS_Interval
  <2>. QED BY <2>1, FS_Subset, FS_CardinalityType
<1>2. Sizes = {}
  <2>. SUFFICES ASSUME Sizes # {} PROVE FALSE
    OBVIOUS
  <2>1. PICK k \in Sizes : \A j \in Sizes : k <= j
    <3>1. Sizes \subseteq Nat
      OBVIOUS
    <3>. HIDE DEF Sizes
    <3>. QED BY <3>1, SmallestOf
  <2>2. PICK T \in SUBSET (1..n) : Cardinality(T) = k /\ ~ Ranked(T)
    OBVIOUS
  <2>3. T # {}
    <3>. SUFFICES ASSUME T = {} PROVE Ranked(T)
      BY <2>2
    <3>1. Cardinality(T) = 0
      BY FS_EmptySet
    <3>2. [i \in 1..0 |-> 0] \in [1..0 -> T] /\ DOMAIN [i \in 1..0 |-> 0] = {}
      OBVIOUS
    <3>. QED BY <3>1, <3>2
  <2>4. PICK m \in T : \A j \in T : j <= m
    <3>1. T \subseteq 0..n
      OBVIOUS
    <3>. QED BY <2>3, <3>1, GreatestOf
  <2>5. /\ T \ {m} \in SUBSET (1..n) /\ k \in Nat \ {0}
        /\ Cardinality(T \ {m}) = k - 1
    <3>1. Cardinality(T \ {m}) = Cardinality(T) - 1
      BY <1>1, <2>4, FS_RemoveElement
    <3>2. Cardinality(T) # 0
      BY <1>1, <2>3, FS_EmptySet
    <3>. QED BY <1>1, <2>2, <3>1, <3>2
  <2>6. Ranked(T \ {m})
    <3>. SUFFICES ASSUME ~ Ranked(T \ {m}) PROVE FALSE
      OBVIOUS
    <3>. HIDE DEF Ranked
    <3>1. k - 1 \in Sizes
      BY <2>5
    <3>. QED BY <2>1, <2>5, <3>1
  <2>7. PICK s \in [1..(k - 1) -> T \ {m}] : \A i, j \in DOMAIN s : i < j => s[i] < s[j]
    BY <2>5, <2>6
  <2>. DEFINE u == [i \in 1..k |-> IF i = k THEN m ELSE s[i]]
  <2>8. u \in [1..k -> T]
    BY <2>5, <2>7
  <2>9. ASSUME NEW i \in 1..k, NEW j \in 1..k, i < j PROVE u[i] < u[j]
    <3>1. i \in 1..(k - 1) /\ u[i] = s[i] /\ s[i] \in T \ {m}
      BY <2>5, <2>7, <2>9
    <3>2. CASE j = k
      <4>1. s[i] <= m /\ s[i] # m /\ s[i] \in Nat /\ m \in Nat
        <5>1. \A x \in T : x \in Nat
          OBVIOUS
        <5>. QED BY <2>4, <3>1, <5>1
      <4>2. u[j] = m
        BY <3>2
      <4>. QED BY <3>1, <4>1, <4>2
    <3>3. CASE j # k
      BY <2>5, <2>7, <2>9, <3>1, <3>3
    <3>. QED BY <3>2, <3>3
  <2>. HIDE DEF u
  <2>. QED BY <2>2, <2>8, <2>9
<1>3. Ranked(S)
  <2>. HIDE DEF Ranked
  <2>. QED BY <1>1, <1>2
<1>4. Ascending(S) \in [1..Cardinality(S) -> S]
  BY <1>3 DEF Ascending
<1>. QED BY <1>1, <1>4

-----------------------------------------------------------------------------
(* No copy has a message that the backend does not have: neither the three, nor *)
(* the memory that a change in flight started from, nor the answer of a pull.   *)
Backed(s) == s \in States(Seq(Nat)) /\ \A t \in Threads : ToSet(s.messages[t]) \subseteq Stored
CopiesStored ==
  /\ Backed(mem) /\ Backed(ui) /\ (\A i \in DOMAIN applies : Backed(applies[i].base))
  /\ \A t \in Threads : idb.messages[t] \subseteq Stored /\ link.unseen[t] \subseteq Stored
  /\ ToSet(pull.messages) \subseteq Stored
CopiesInv == WorkerInv /\ CopiesStored

LEMMA EmptyBacked ==
  /\ Backed(EmptyState(<<>>)) /\ ToSet(<<>>) = {} /\ DOMAIN <<>> = {} /\ NoPull.messages = <<>>
<1>1. ToSet(<<>>) = {} /\ DOMAIN <<>> = {}
  BY DEF ToSet
<1>2. EmptyState(<<>>) \in States(Seq(Nat)) /\ \A t \in Threads : EmptyState(<<>>).messages[t] = <<>>
  BY DEF EmptyState, States, Statuses, Values
<1>. QED BY <1>1, <1>2 DEF Backed, NoPull

LEMMA CopiesInit == AgentWorkerInit => CopiesInv
<1>. SUFFICES ASSUME AgentWorkerInit PROVE CopiesInv
  OBVIOUS
<1>1. /\ mem = EmptyState(<<>>) /\ ui = EmptyState(<<>>) /\ idb = EmptyState({})
      /\ applies = <<>> /\ pull = NoPull
  BY DEF AgentWorkerInit
<1>2. \A t \in Threads : idb.messages[t] = {} /\ link.unseen[t] = {}
  BY <1>1 DEF AgentWorkerInit, EmptyState
<1>. QED BY <1>1, <1>2, EmptyBacked, WorkerInvInit DEF CopiesInv, CopiesStored

LEMMA CopiesStutter == CopiesInv /\ UNCHANGED workerVars => CopiesInv'
BY WorkerInvStutter DEF workerVars, CopiesInv, CopiesStored, Backed, Stored

LEMMA MemBacked ==
  ASSUME NEW c \in Changes, NEW s, Backed(s),
         c.kind \in {"messages.append", "stream.done"} => c.message \in Stored,
         c.kind = "messages.replaced" => ToSet(c.message) \subseteq Stored
  PROVE  Backed(MemAfter(s, c)) /\ Backed(UiAfter(s, c))
<1>1. /\ s.messages \in [Threads -> Seq(Nat)] /\ s.streams \in [Runs -> Statuses] /\ s.setting \in Values
      /\ c.thread \in Threads /\ s \in States(Seq(Nat))
  BY DEF Backed, States, Changes
<1>2. c.kind \in {"messages.append", "stream.done"} => c.message \in Nat
  BY DEF Changes
<1>3. MemAfter(s, c) \in States(Seq(Nat))
  <2>1. MemAfter(s, c).messages \in [Threads -> Seq(Nat)]
    BY <1>1, MemIs
  <2>2. /\ MemAfter(s, c).streams \in [Runs -> Statuses] /\ MemAfter(s, c).setting \in Values
        /\ MemAfter(s, c) = [messages |-> MemAfter(s, c).messages, streams |-> MemAfter(s, c).streams,
                             setting |-> MemAfter(s, c).setting]
    BY <1>1, StreamsTyped, SettingTyped DEF MemAfter
  <2>. QED BY <2>1, <2>2 DEF States
<1>4. ASSUME NEW t \in Threads PROVE ToSet(MemAfter(s, c).messages[t]) \subseteq Stored
  <2>1. s.messages[t] \in Seq(Nat) /\ ToSet(s.messages[t]) \subseteq Stored
    BY <1>1 DEF Backed
  <2>2. CASE t # c.thread \/ c.kind \notin Changing
    BY <1>1, <2>1, <2>2, MemIs
  <2>3. CASE t = c.thread /\ c.kind = "messages.append"
    <3>1. MemAfter(s, c).messages[t] = Append(s.messages[t], c.message)
      BY <1>1, <2>3, MemIs
    <3>2. ToSet(Append(s.messages[t], c.message)) = ToSet(s.messages[t]) \union {c.message}
      BY <1>2, <2>1, <2>3, ListGrows
    <3>. QED BY <2>1, <2>3, <3>1, <3>2
  <2>4. CASE t = c.thread /\ c.kind = "stream.done"
    <3>1. MemAfter(s, c).messages[t] = Upsert(s.messages[t], c.message)
      BY <1>1, <2>4, MemIs
    <3>2. ToSet(Upsert(s.messages[t], c.message)) = ToSet(s.messages[t]) \union {c.message}
      BY <1>2, <2>1, <2>4, UpsertIs
    <3>. QED BY <2>1, <2>4, <3>1, <3>2
  <2>5. CASE t = c.thread /\ c.kind = "messages.replaced"
    BY <1>1, <2>5, MemIs
  <2>. QED BY <2>2, <2>3, <2>4, <2>5 DEF Changing
<1>5. UiAfter(s, c) \in States(Seq(Nat))
  BY <1>1, UiIs
<1>6. ASSUME NEW t \in Threads PROVE ToSet(UiAfter(s, c).messages[t]) \subseteq Stored
  <2>1. s.messages[t] \in Seq(Nat) /\ ToSet(s.messages[t]) \subseteq Stored
    BY <1>1 DEF Backed
  <2>0. CASE c.kind = "threads.updated"
    <3>1. UiAfter(s, c).messages[t] \in {s.messages[t], <<>>}
      BY <1>1, <2>0, UiIs
    <3>. QED BY <2>1, <3>1, EmptyBacked
  <2>2. CASE c.kind # "threads.updated"
             /\ (t # c.thread \/ c.kind \notin {"messages.append", "stream.done", "messages.replaced"})
    BY <1>1, <2>1, <2>2, UiIs
  <2>3. CASE t = c.thread /\ c.kind \in {"messages.append", "stream.done"}
    <3>1. UiAfter(s, c).messages[t] = Upsert(s.messages[t], c.message)
      BY <1>1, <2>3, UiIs
    <3>2. ToSet(Upsert(s.messages[t], c.message)) = ToSet(s.messages[t]) \union {c.message}
      BY <1>2, <2>1, <2>3, UpsertIs
    <3>. QED BY <2>1, <2>3, <3>1, <3>2
  <2>4. CASE t = c.thread /\ c.kind = "messages.replaced"
    BY <1>1, <2>4, UiIs
  <2>. QED BY <2>0, <2>2, <2>3, <2>4
<1>. QED BY <1>3, <1>4, <1>5, <1>6 DEF Backed

(* A change that is done puts in the copies what the backend was answered with. *)
LEMMA EndCopies == ASSUME CopiesInv, ApplyEnd PROVE CopiesStored'
<1>. DEFINE c == Ch(1)
<1>1. /\ 1 \in DOMAIN applies /\ c \in Changes /\ EntryOk(c, run, server, pull)
      /\ mem' = MemAfter(applies[1].base, c) /\ idb' = IdbAfter(idb, c) /\ Told(c)
      /\ server' = server /\ pull' = IF c.kind = "messages.replaced" THEN NoPull ELSE pull
      /\ \A i \in DOMAIN applies' : i + 1 \in DOMAIN applies /\ applies'[i] = applies[i + 1]
  BY EndIs DEF CopiesInv, Leaves
<1>. HIDE DEF c
<1>2. WorkerTyped /\ CopiesStored /\ Stored' = Stored
  BY <1>1 DEF CopiesInv, WorkerInv, Stored
<1>3. c.kind \in {"messages.append", "stream.done"} => c.message \in Stored
  BY <1>1 DEF EntryOk, Stored, Changes
<1>4. c.kind = "messages.replaced" => ToSet(c.message) \subseteq Stored
  BY <1>1, <1>2 DEF EntryOk, CopiesStored
<1>5. Backed(applies[1].base) /\ Backed(ui)
  BY <1>1, <1>2 DEF CopiesStored
<1>11. ui \in States(Seq(Nat)) /\ link \in Links /\ (c.next = "over" => c.run \in Runs)
  BY <1>1, <1>2 DEF WorkerTyped, EntryOk, Changes
<1>12. /\ ui' = UiAfter(ui, c) \/ ui' = ui
       /\ \A t \in Threads : \A m \in link'.unseen[t] :
            m \in link.unseen[t] \/ m \in ToSet(ui.messages[t]) \/ (c.kind = "messages.append" /\ m = c.message)
  BY <1>1, <1>11, ToldIs
<1>6. Backed(mem)' /\ Backed(ui)'
  <2>1. Backed(MemAfter(applies[1].base, c)) /\ Backed(UiAfter(ui, c))
    BY <1>1, <1>3, <1>4, <1>5, MemBacked
  <2>. QED BY <1>1, <1>2, <1>5, <1>12, <2>1 DEF Backed
<1>13. \A t \in Threads : link'.unseen[t] \subseteq Stored
  BY <1>2, <1>3, <1>5, <1>12 DEF CopiesStored, Backed
<1>7. \A i \in DOMAIN applies' : Backed(applies[i + 1].base)
  BY <1>1, <1>2 DEF CopiesStored
<1>8. (\A i \in DOMAIN applies : Backed(applies[i].base))'
  BY <1>1, <1>2, <1>7 DEF Backed
<1>9. ASSUME NEW t \in Threads PROVE idb'.messages[t] \subseteq Stored
  <2>1. idb \in States(SUBSET Nat) /\ idb.messages[t] \subseteq Stored
    BY <1>2 DEF WorkerTyped, CopiesStored
  <2>2. CASE t # c.thread \/ c.kind \notin {"messages.append", "stream.done", "messages.replaced"}
    BY <1>1, <2>1, <2>2, IdbIs
  <2>3. CASE t = c.thread /\ c.kind \in {"messages.append", "stream.done"}
    BY <1>1, <1>3, <2>1, <2>3, IdbIs
  <2>4. CASE t = c.thread /\ c.kind = "messages.replaced"
    BY <1>1, <1>4, <2>1, <2>4, IdbIs
  <2>. QED BY <2>2, <2>3, <2>4
<1>10. ToSet(pull'.messages) \subseteq Stored
  BY <1>1, <1>2, EmptyBacked DEF CopiesStored
<1>. QED BY <1>2, <1>6, <1>8, <1>9, <1>10, <1>13 DEF CopiesStored

(* One that is rejected puts in IndexedDB at most what the backend has. *)
LEMMA RefusedCopies == ASSUME CopiesInv, ApplyRefused PROVE CopiesStored'
<1>1. /\ UNCHANGED <<server, mem, ui>> /\ link'.unseen = link.unseen
      /\ \A t \in Threads : \A m \in idb'.messages[t] : m \in idb.messages[t] \/ m \in Stored
      /\ pull' = IF Ch(1).kind = "messages.replaced" THEN NoPull ELSE pull
      /\ \A i \in DOMAIN applies' : i + 1 \in DOMAIN applies /\ applies'[i] = applies[i + 1]
  BY RefusedIs DEF CopiesInv, Leaves
<1>2. CopiesStored /\ Stored' = Stored
  BY <1>1 DEF CopiesInv, Stored
<1>3. \A i \in DOMAIN applies' : Backed(applies'[i].base)
  BY <1>1, <1>2 DEF CopiesStored
<1>4. (\A i \in DOMAIN applies : Backed(applies[i].base))'
  BY <1>2, <1>3 DEF Backed
<1>5. ToSet(pull'.messages) \subseteq Stored
  BY <1>1, <1>2, EmptyBacked DEF CopiesStored
<1>6. \A t \in Threads : idb'.messages[t] \subseteq Stored /\ link'.unseen[t] \subseteq Stored
  BY <1>1, <1>2 DEF CopiesStored
<1>7. Backed(mem)' /\ Backed(ui)'
  BY <1>1, <1>2 DEF CopiesStored, Backed
<1>. QED BY <1>2, <1>4, <1>5, <1>6, <1>7 DEF CopiesStored

LEMMA RelinkCopies == ASSUME CopiesInv, Relink PROVE CopiesStored'
<1>1. /\ UNCHANGED <<server, mem, idb, ui, applies, pull>> /\ link' = [link EXCEPT !.open = ~@]
  BY DEF Relink
<1>2. CopiesStored /\ link \in Links
  BY DEF CopiesInv, WorkerInv, WorkerTyped
<1>3. link'.unseen = link.unseen
  BY <1>1, <1>2 DEF Links
<1>. QED BY <1>1, <1>2, <1>3 DEF CopiesStored, Backed, Stored

(* The worker starts again, empty or with what IndexedDB has of the listed threads. *)
LEMMA RestartCopies == ASSUME CopiesInv, Restart PROVE CopiesStored'
<1>1. /\ applies' = <<>> /\ pull' = NoPull /\ UNCHANGED <<server, idb, ui, link>>
      /\ mem' = EmptyState(<<>>) \/ \E listed \in SUBSET Threads : mem' = Hydrated(listed)
  BY DEF Restart
<1>2. WorkerTyped /\ CopiesStored /\ Stored' = Stored
  BY <1>1 DEF CopiesInv, WorkerInv, Stored
<1>3. idb \in States(SUBSET Nat) /\ \A t \in Threads : idb.messages[t] \subseteq Stored
  BY <1>2 DEF WorkerTyped, CopiesStored
<1>8. \A t \in Threads : (idb.messages[t] \subseteq Stored /\ link.unseen[t] \subseteq Stored)'
  BY <1>1, <1>2 DEF CopiesStored
<1>4. PICK k \in Nat : Stored \subseteq 1..k
  BY <1>2 DEF WorkerTyped
<1>5. \A t \in Threads : /\ Ascending(idb.messages[t]) \in Seq(Nat)
                         /\ ToSet(Ascending(idb.messages[t])) \subseteq Stored
  <2>. SUFFICES ASSUME NEW t \in Threads
       PROVE  /\ Ascending(idb.messages[t]) \in Seq(Nat)
              /\ ToSet(Ascending(idb.messages[t])) \subseteq Stored
    OBVIOUS
  <2>. DEFINE S == idb.messages[t]
  <2>1. S \in SUBSET (1..k) /\ S \subseteq Stored /\ S \subseteq Nat
    <3>1. S \subseteq Stored
      BY <1>3
    <3>. HIDE DEF S
    <3>2. S \subseteq 1..k
      BY <1>4, <3>1
    <3>. QED BY <3>1, <3>2
  <2>. HIDE DEF S
  <2>2. Ascending(S) \in Seq(S)
    BY <1>4, <2>1, AscendingIs
  <2>3. ToSet(Ascending(S)) \subseteq S
    BY <2>2 DEF ToSet
  <2>4. Ascending(S) \in Seq(Nat)
    <3>. DEFINE s == Ascending(S)
    <3>1. s \in [1..Len(s) -> S] /\ Len(s) \in Nat
      BY <2>2
    <3>. HIDE DEF s
    <3>2. s \in [1..Len(s) -> Nat]
      BY <2>1, <3>1
    <3>3. s \in Seq(Nat)
      BY <3>1, <3>2
    <3>. QED BY <3>3 DEF s
  <2>. QED BY <2>1, <2>3, <2>4 DEF S
<1>6. ASSUME NEW listed \in SUBSET Threads PROVE Backed(Hydrated(listed))
  <2>. DEFINE l == [t \in Threads |-> IF t \in listed THEN Ascending(idb.messages[t]) ELSE <<>>]
  <2>1. l \in [Threads -> Seq(Nat)] /\ \A t \in Threads : ToSet(l[t]) \subseteq Stored
    <3>. DEFINE f(t) == IF t \in listed THEN Ascending(idb.messages[t]) ELSE <<>>
    <3>1. \A t \in Threads : f(t) \in Seq(Nat) /\ ToSet(f(t)) \subseteq Stored
      <4>1. <<>> \in Seq(Nat) /\ ToSet(<<>>) = {}
        BY EmptyBacked
      <4>. QED BY <1>5, <4>1
    <3>2. l = [t \in Threads |-> f(t)]
      OBVIOUS
    <3>. HIDE DEF f, l
    <3>. QED BY <3>1, <3>2
  <2>2. Hydrated(listed) = [idb EXCEPT !.messages = l]
    BY DEF Hydrated
  <2>. HIDE DEF l
  <2>3. Hydrated(listed) \in States(Seq(Nat)) /\ Hydrated(listed).messages = l
    BY <1>3, <2>1, <2>2 DEF States
  <2>. QED BY <2>1, <2>3 DEF Backed
<1>7. Backed(mem)' /\ Backed(ui)'
  BY <1>1, <1>2, <1>6, EmptyBacked DEF CopiesStored, Backed
<1>. QED BY <1>1, <1>2, <1>7, <1>8, EmptyBacked DEF CopiesStored

LEMMA StoreCopies ==
  ASSUME CopiesInv, NEW r \in Runs, NEW stage \in Stages, Store(r, stage)
  PROVE  CopiesStored'
<1>1. /\ server' = [server EXCEPT ![run[r].thread] = Append(@, NewMessage)]
      /\ UNCHANGED <<mem, idb, ui, link, applies, pull>>
  BY DEF Store
<1>2. WorkerTyped /\ CopiesStored
  BY DEF CopiesInv, WorkerInv
<1>3. server \in [Threads -> Seq(Nat)] /\ NewMessage \in Nat
  BY <1>2, NewIsNew DEF WorkerTyped
<1>4. ASSUME NEW t \in Threads PROVE ToSet(server[t]) \subseteq ToSet(server'[t])
  BY <1>1, <1>3, ListGrows
<1>5. Stored \subseteq Stored'
  BY <1>4 DEF Stored
<1>6. Backed(mem)' /\ Backed(ui)' /\ \A i \in DOMAIN applies : Backed(applies[i].base)'
  BY <1>1, <1>2, <1>5 DEF CopiesStored, Backed
<1>. QED BY <1>1, <1>2, <1>5, <1>6 DEF CopiesStored, Backed

LEMMA PullListCopies ==
  ASSUME CopiesInv, NEW t \in Threads, PullList(t)
  PROVE  CopiesStored'
<1>1. /\ pull' = [pc |-> "listed", thread |-> t, messages |-> Listed(t)]
      /\ UNCHANGED <<server, mem, idb, ui, link, applies>>
  BY DEF PullList
<1>2. WorkerTyped /\ CopiesStored /\ Stored' = Stored
  BY <1>1 DEF CopiesInv, WorkerInv, Stored
<1>3. server[t] \in Seq(Nat) /\ ListCap \in Nat
  BY <1>2, WorkerAssumption DEF WorkerTyped
<1>4. ToSet(Listed(t)) \subseteq ToSet(server[t])
  <2>. DEFINE k == IF Len(server[t]) < ListCap THEN Len(server[t]) ELSE ListCap
  <2>1. k \in 0..Len(server[t]) /\ Listed(t) = SubSeq(server[t], 1, k)
    BY <1>3 DEF Listed
  <2>. HIDE DEF k
  <2>2. /\ Len(SubSeq(server[t], 1, k)) = k /\ SubSeq(server[t], 1, k) \in Seq(Nat)
        /\ \A i \in 1..k : SubSeq(server[t], 1, k)[i] = server[t][i]
    BY <1>3, <2>1
  <2>. QED BY <1>3, <2>1, <2>2 DEF ToSet
<1>5. ToSet(pull'.messages) \subseteq Stored
  BY <1>1, <1>4 DEF Stored
<1>. QED BY <1>1, <1>2, <1>5 DEF CopiesStored, Backed

LEMMA QueueCopies ==
  ASSUME CopiesInv, NEW c \in Changes, BeginChange(c), UNCHANGED <<server, mem, idb, ui, link>>,
         pull'.messages = pull.messages
  PROVE  CopiesStored'
<1>1. WorkerTyped /\ CopiesStored /\ Stored' = Stored
  BY DEF CopiesInv, WorkerInv, Stored
<1>2. /\ DOMAIN applies' = 1..(Len(applies) + 1) /\ DOMAIN applies = 1..Len(applies) /\ Len(applies) \in Nat
      /\ applies'[Len(applies) + 1].base = mem /\ \A i \in 1..Len(applies) : applies'[i] = applies[i]
  BY <1>1, BeginIs
<1>3. \A i \in DOMAIN applies' : Backed(applies'[i].base)
  BY <1>1, <1>2 DEF CopiesStored
<1>. QED BY <1>1, <1>3 DEF CopiesStored, Backed

LEMMA CopiesStep == CopiesInv /\ AgentWorkerNext => CopiesInv'
<1>. SUFFICES ASSUME CopiesInv, AgentWorkerNext PROVE CopiesInv'
  OBVIOUS
<1>1. WorkerInv' /\ WorkerTyped /\ StepKinds
  BY WorkerInvStep, StepIs DEF CopiesInv, WorkerInv
<1>2. ASSUME NEW r, NEW c, NEW n, QueuesOwn(r, c, n) PROVE CopiesStored'
  BY <1>2, QueueCopies DEF QueuesOwn
<1>3. ASSUME NEW c, QueuesOther(c) PROVE CopiesStored'
  <2>1. pull'.messages = pull.messages
    BY <1>1, <1>3 DEF QueuesOther, WorkerTyped
  <2>. QED BY <1>3, <2>1, QueueCopies DEF QueuesOther
<1>4. ASSUME NEW r, NEW n, Moves(r, n) PROVE CopiesStored'
  BY <1>4 DEF Moves, CopiesInv, CopiesStored, Backed, Stored
<1>5. CopiesStored'
  BY <1>1, <1>2, <1>3, <1>4, EndCopies, RefusedCopies, RelinkCopies, RestartCopies, StoreCopies, PullListCopies DEF StepKinds
<1>. QED BY <1>1, <1>5 DEF CopiesInv

LEMMA WorkerTypes == CopiesInv => AgentWorkerTypeOK
<1>. SUFFICES ASSUME CopiesInv PROVE AgentWorkerTypeOK
  OBVIOUS
<1>1. WorkerTyped /\ CopiesStored
  BY DEF CopiesInv, WorkerInv
<1>2. Stored \subseteq Nat
  BY <1>1 DEF WorkerTyped
<1>3. {mem.streams, idb.streams, ui.streams} \subseteq [Runs -> Statuses]
  BY <1>1 DEF WorkerTyped, CopiesStored, Backed, States
<1>4. pull.pc \in {"none", "listed", "applying"} /\ link.open \in BOOLEAN /\ link.unclosed \subseteq Runs
  BY <1>1 DEF WorkerTyped, Links
<1>5. link.unseen \in [Threads -> SUBSET Stored]
  BY <1>1 DEF WorkerTyped, Links, CopiesStored
<1>. QED BY <1>1, <1>2, <1>3, <1>4, <1>5 DEF AgentWorkerTypeOK, CopiesStored, Backed

-----------------------------------------------------------------------------
(* The agent as one: a step is of one part, and the others stay as they are. *)
AgentInv ==
  /\ part \in Parts
  /\ BackendInv /\ CopiesInv /\ ActionsInv /\ ToolsInv /\ LoginInv /\ LoginSets

LEMMA AgentInvInit == AgentInit => AgentInv
<1>1. McpLoginInit => LoginSets
  BY DEF McpLoginInit, LoginSets
<1>. QED
  BY <1>1, BackendInit, CopiesInit, ActionsInit, ToolsInit, LoginInit DEF AgentInit, AgentInv

LEMMA AgentInvStep == AgentInv /\ [AgentNext]_agentVars => AgentInv'
<1>. SUFFICES ASSUME AgentInv, [AgentNext]_agentVars PROVE AgentInv'
  OBVIOUS
<1>1. UNCHANGED backendVars => BackendInv'
  BY BackendStutters DEF AgentInv
<1>2. UNCHANGED workerVars => CopiesInv'
  BY CopiesStutter DEF AgentInv
<1>3. UNCHANGED actionVars => ActionsInv'
  BY ActionsStutter DEF AgentInv
<1>4. UNCHANGED toolVars => ToolsInv'
  BY ToolsStutter DEF AgentInv
<1>5. UNCHANGED loginVars => (LoginInv /\ LoginSets)'
  <2>1. UNCHANGED loginVars => LoginSets'
    BY DEF AgentInv, LoginSets, loginVars
  <2>. QED BY <2>1, LoginStutters DEF AgentInv
<1>6. part' \in Parts
  BY DEF AgentNext, agentVars, AgentInv
<1>7. CASE AgentNext
  <2>1. CASE AgentBackendNext /\ UNCHANGED <<workerVars, actionVars, toolVars, loginVars>>
    BY <1>2, <1>3, <1>4, <1>5, <1>6, <2>1, BackendStep DEF AgentInv
  <2>2. CASE AgentWorkerNext /\ UNCHANGED <<backendVars, actionVars, toolVars, loginVars>>
    BY <1>1, <1>3, <1>4, <1>5, <1>6, <2>2, CopiesStep DEF AgentInv
  <2>3. CASE AgentActionsNext /\ UNCHANGED <<backendVars, workerVars, toolVars, loginVars>>
    BY <1>1, <1>2, <1>4, <1>5, <1>6, <2>3, ActionsStep DEF AgentInv
  <2>4. CASE AgentToolsNext /\ UNCHANGED <<backendVars, workerVars, actionVars, loginVars>>
    BY <1>1, <1>2, <1>3, <1>5, <1>6, <2>4, ToolsStep DEF AgentInv
  <2>5. CASE McpLoginNext /\ UNCHANGED <<backendVars, workerVars, actionVars, toolVars>>
    BY <1>1, <1>2, <1>3, <1>4, <1>6, <2>5, LoginStep, LoginSetsStep DEF AgentInv
  <2>. QED BY <1>7, <2>1, <2>2, <2>3, <2>4, <2>5, Zenon DEF AgentNext
<1>8. CASE UNCHANGED agentVars
  BY <1>1, <1>2, <1>3, <1>4, <1>5, <1>6, <1>8 DEF AgentInv, agentVars
<1>. QED BY <1>7, <1>8

(* The tables of the backend, the copies of the threads, the actions, the tools *)
(* and the logins have their types in every behaviour of the agent, and no copy *)
(* of a thread has a message that the backend does not have: for every number   *)
(* of requests, runs, actions, tools, servers and logins.                       *)
THEOREM AgentTypesHold == AgentSpec => []AgentTypeOK
<1>1. AgentInv => AgentTypeOK
  BY WorkerTypes, LoginTypes DEF AgentInv, AgentTypeOK, BackendInv, ActionsInv, ToolsInv
<1>. QED BY AgentInvInit, AgentInvStep, <1>1, PTL DEF AgentSpec
=============================================================================
