--------------------------- MODULE CommandProofs ---------------------------
(***************************************************************************)
(* The commands of a developer: the tunnels that `otavia tunnel setup`     *)
(* makes, the containers that `cell dev`, `otavia dev` and the tests       *)
(* share, the routes of a devbox, the runs of deploy and their host names, *)
(* the way of a request in development and in the cloud, the params of a   *)
(* stack, the config of a cell and the templates.  Each part has its own   *)
(* invariant.  But for the last four they are about many runs that share   *)
(* one account, one file, one docker or one zone, so each invariant says   *)
(* for each run on its own what it may rely on of what is shared.          *)
(***************************************************************************)
EXTENDS DevTunnel, Deploy, LocalServices, Devbox, Domains, Routes, CellConfig, StackConfig,
        Templates, Integers,
        SequenceTheorems, FiniteSetTheorems, WellFoundedInduction, TLAPS

-----------------------------------------------------------------------------
(* Tunnels of developers' machines. *)

MachineRecords ==
  [name : MachineNames, at : SetupSteps, root : Roots \union {NoDomain}, terminal : BOOLEAN,
   token : BOOLEAN, zones : SUBSET Roots, attempt : Nat, credentials : Nat,
   config : [tunnel : MachineNames \union {""}, root : Roots \union {NoDomain}],
   read : SUBSET TunnelHosts, retried : BOOLEAN,
   registered : BOOLEAN, foreign : BOOLEAN, running : BOOLEAN]

(* The machine of record r has the credentials of the tunnel of this name, and *)
(* this host leads to the tunnel, or its last route was refused and forgiven.  *)
HasTunnel(r, name, acc) ==
  acc.tunnels[name] # NoTunnel /\ r.credentials = acc.tunnels[name]
Leads(name, root, acc) ==
  acc.routes[<<name, root>>] = acc.tunnels[name] \/ <<name, root>> \in acc.unrouted

Rests == {"idle", "done", "failed"}

(* What the record r of a machine says of the account, where the machine is *)
(* clean: its credentials are those of the tunnel of its config.            *)
MachineOk(r, acc, clean) ==
  /\ r.at \in {"install", "login", "create", "route", "write", "describe", "update", "expired"} =>
       r.root \in Roots
  /\ r.running => r.at \in Rests /\ r.config # NoConfig
  /\ r.registered => r.at = "done" /\ <<r.name, r.root>> \in acc.callbacks
  /\ r.config # NoConfig => r.config.tunnel \in MachineNames /\ r.config.root \in Roots
  /\ ~ r.foreign /\ r.at \in {"route", "write"} => HasTunnel(r, r.name, acc)
  /\ ~ r.foreign /\ r.at = "write" => Leads(r.name, r.root, acc)
  /\ clean /\ r.config # NoConfig =>
       HasTunnel(r, r.config.tunnel, acc) /\ Leads(r.config.tunnel, r.config.root, acc)

AccountTyped(acc) ==
  acc \in [tunnels : [MachineNames -> Nat], ids : Nat, routes : [TunnelHosts -> Nat],
           callbacks : SUBSET TunnelHosts, unrouted : SUBSET TunnelHosts]

TunnelInv ==
  /\ AccountTyped(account) /\ machine \in [Machines -> MachineRecords]
  /\ \A m \in Machines : MachineOk(machine[m], account, m \notin spoiled)

LEMMA TunnelInitInv == TunnelInit => TunnelInv
<1> SUFFICES ASSUME TunnelInit PROVE TunnelInv
  OBVIOUS
<1>1. PICK name \in MachineNames :
       machine = [m \in Machines |->
         [name |-> name, at |-> "idle", root |-> NoDomain, terminal |-> FALSE, token |-> FALSE,
          zones |-> {}, attempt |-> 0,
          credentials |-> NoTunnel, config |-> NoConfig, read |-> {}, retried |-> FALSE,
          registered |-> FALSE, foreign |-> FALSE, running |-> FALSE]]
  BY TunnelAssumption DEF TunnelInit
<1>2. AccountTyped(account)
  BY DEF TunnelInit, AccountTyped, NoTunnel
<1>3. machine \in [Machines -> MachineRecords]
  BY <1>1 DEF MachineRecords, SetupSteps, NoConfig, NoTunnel
<1>4. \A m \in Machines : MachineOk(machine[m], account, m \notin spoiled)
  BY <1>1 DEF MachineOk, Rests
<1>. QED BY <1>2, <1>3, <1>4 DEF TunnelInv

(* A setup goes on and leaves the account as it is. *)
LEMMA MachineMoves ==
  ASSUME TunnelInv, NEW m \in Machines, NEW r \in MachineRecords,
         machine' = [machine EXCEPT ![m] = r], UNCHANGED <<account, spoiled>>,
         MachineOk(r, account, m \notin spoiled)
  PROVE  TunnelInv'
<1>1. machine' \in [Machines -> MachineRecords]
  BY DEF TunnelInv
<1>2. ASSUME NEW n \in Machines PROVE MachineOk(machine'[n], account, n \notin spoiled)
  BY DEF TunnelInv
<1>. QED BY <1>1, <1>2 DEF TunnelInv

(* Steps of a setup that tell the account nothing *)
SetupMoves(m) ==
  \/ \E terminal \in BOOLEAN, root \in Roots \union {NoDomain} : StartSetup(m, terminal, root)
  \/ \E name \in MachineNames : ResolveInputs(m, name)
  \/ GiveToken(m) \/ RetryZones(m)
  \/ \E zones \in SUBSET Roots : FetchZones(m, zones)
  \/ \E root \in Roots, name \in MachineNames : ChooseRoot(m, root, name)
  \/ Install(m) \/ CloudflaredLogin(m) \/ CreateFails(m) \/ \E step \in FailingSteps : FailsAt(m, step)
  \/ NoCallback(m) \/ Describe(m) \/ AwsFails(m) \/ Expires(m)
  \/ \E works \in BOOLEAN : SsoLogin(m, works)
  \/ RunTunnel(m) \/ StopTunnel(m)

(* What such a step may make of the record of its machine *)
SameTunnel(r, s) ==
  s.credentials = r.credentials /\ s.config = r.config
SetupGoesOn(r, s, callbacks) ==
  /\ SameTunnel(r, s)
  /\ s.at \in {"install", "login", "create", "describe", "update", "expired"} => s.root \in Roots
  /\ s.at \notin {"route", "write"}
  /\ s.running => s.at \in Rests /\ s.config # NoConfig
  /\ s.registered => s.at = "done" /\ <<s.name, s.root>> \in callbacks

LEMMA SetupGoesOnKeeps ==
  ASSUME TunnelInv, NEW m \in Machines, NEW s \in MachineRecords,
         machine' = [machine EXCEPT ![m] = s], UNCHANGED <<account, spoiled>>,
         SetupGoesOn(machine[m], s, account.callbacks)
  PROVE  TunnelInv'
<1>1. MachineOk(machine[m], account, m \notin spoiled)
  BY DEF TunnelInv
<1>2. MachineOk(s, account, m \notin spoiled)
  BY <1>1 DEF MachineOk, SetupGoesOn, SameTunnel, HasTunnel
<1>. QED BY <1>2, MachineMoves

LEMMA SetupMovesKeep ==
  ASSUME TunnelInv, NEW m \in Machines, SetupMoves(m)
  PROVE  TunnelInv'
<1> DEFINE r == machine[m]
<1>1. r \in MachineRecords /\ MachineOk(r, account, m \notin spoiled) /\ machine \in [Machines -> MachineRecords]
  BY DEF TunnelInv
<1>2. AccountTyped(account)
  BY DEF TunnelInv
<1>a. ASSUME NEW at \in SetupSteps \ {"route", "write"}, SetupGoes(m, at), UNCHANGED <<account, spoiled>>,
             at \in {"install", "login", "create", "describe", "update", "expired"} => r.root \in Roots,
             r.running => at \in Rests, r.registered => at = "done"
      PROVE  TunnelInv'
  <2> DEFINE s == [r EXCEPT !.at = at]
  <2>1. machine' = [machine EXCEPT ![m] = s]
    BY <1>a DEF SetupGoes
  <2>2. s \in MachineRecords
    BY <1>1 DEF MachineRecords
  <2>3. SetupGoesOn(r, s, account.callbacks)
    BY <1>1, <1>a DEF SetupGoesOn, SameTunnel, MachineRecords, MachineOk
  <2> HIDE DEF s
  <2>. QED BY <1>a, <2>1, <2>2, <2>3, SetupGoesOnKeeps
<1>3. ASSUME NEW terminal \in BOOLEAN, NEW root \in Roots \union {NoDomain}, StartSetup(m, terminal, root)
      PROVE  TunnelInv'
  <2> DEFINE s == [r EXCEPT !.at = "enabled", !.terminal = terminal, !.root = root,
                            !.foreign = FALSE, !.retried = FALSE, !.registered = FALSE]
  <2>2. machine' = [machine EXCEPT ![m] = s] /\ UNCHANGED <<account, spoiled>> /\ ~ r.running
    BY <1>3 DEF StartSetup
  <2>3. s \in MachineRecords
    BY <1>1 DEF MachineRecords, SetupSteps
  <2>4. SetupGoesOn(r, s, account.callbacks)
    BY <1>1, <2>2 DEF SetupGoesOn, SameTunnel, MachineRecords, Rests
  <2> HIDE DEF s
  <2>. QED BY <2>2, <2>3, <2>4, SetupGoesOnKeeps
<1>4. ASSUME NEW name \in MachineNames, ResolveInputs(m, name) PROVE TunnelInv'
  <2> DEFINE at == IF r.terminal THEN "token" ELSE IF r.root # NoDomain /\ r.token THEN "install" ELSE "failed"
             s == [r EXCEPT !.terminal = FALSE, !.name = IF r.terminal THEN @ ELSE name, !.at = at]
  <2>1. machine' = [machine EXCEPT ![m] = s] /\ UNCHANGED <<account, spoiled>> /\ r.at = "enabled"
    BY <1>4 DEF ResolveInputs
  <2>2. s \in MachineRecords /\ s.at = at
    BY <1>1 DEF MachineRecords, SetupSteps
  <2>3. /\ SameTunnel(r, s) /\ s.root = r.root /\ s.running = r.running /\ s.registered = r.registered
    BY <1>1 DEF SameTunnel, MachineRecords
  <2>4. at = "install" => r.root \in Roots
    BY <1>1 DEF MachineRecords
  <2>5. at \in {"token", "install", "failed"}
    OBVIOUS
  <2> HIDE DEF s, at
  <2>6. SetupGoesOn(r, s, account.callbacks)
    BY <1>1, <2>1, <2>2, <2>3, <2>4, <2>5 DEF SetupGoesOn, MachineOk, Rests
  <2>. QED BY <2>1, <2>2, <2>6, SetupGoesOnKeeps
<1>5. CASE GiveToken(m)
  <2> DEFINE s == [r EXCEPT !.at = "zones", !.token = TRUE, !.attempt = 1]
  <2>1. machine' = [machine EXCEPT ![m] = s] /\ UNCHANGED <<account, spoiled>> /\ r.at = "token"
    BY <1>5 DEF GiveToken
  <2>2. s \in MachineRecords
    BY <1>1 DEF MachineRecords, SetupSteps
  <2>3. SetupGoesOn(r, s, account.callbacks)
    BY <1>1, <2>1 DEF SetupGoesOn, SameTunnel, MachineRecords, Rests, MachineOk
  <2> HIDE DEF s
  <2>. QED BY <2>1, <2>2, <2>3, SetupGoesOnKeeps
<1>6. CASE RetryZones(m)
  <2> DEFINE s == [r EXCEPT !.attempt = @ + 1]
  <2>1. machine' = [machine EXCEPT ![m] = s] /\ UNCHANGED <<account, spoiled>> /\ r.at = "zones"
    BY <1>6 DEF RetryZones
  <2>2. s \in MachineRecords
    <3>1. r.attempt + 1 \in Nat
      <4>1. r.attempt \in Nat
        BY <1>1 DEF MachineRecords
      <4> HIDE DEF r
      <4>. QED BY <4>1
    <3>. QED BY <1>1, <3>1 DEF MachineRecords, SetupSteps
  <2>3. SetupGoesOn(r, s, account.callbacks)
    BY <1>1, <2>1 DEF SetupGoesOn, SameTunnel, MachineRecords, Rests, MachineOk
  <2> HIDE DEF s
  <2>. QED BY <2>1, <2>2, <2>3, SetupGoesOnKeeps
<1>7. ASSUME NEW zones \in SUBSET Roots, FetchZones(m, zones) PROVE TunnelInv'
  <2> DEFINE s == [r EXCEPT !.at = "root", !.zones = zones]
  <2>1. machine' = [machine EXCEPT ![m] = s] /\ UNCHANGED <<account, spoiled>> /\ r.at = "zones"
    BY <1>7 DEF FetchZones
  <2>2. s \in MachineRecords
    BY <1>1 DEF MachineRecords, SetupSteps
  <2>3. SetupGoesOn(r, s, account.callbacks)
    BY <1>1, <2>1 DEF SetupGoesOn, SameTunnel, MachineRecords, Rests, MachineOk
  <2> HIDE DEF s
  <2>. QED BY <2>1, <2>2, <2>3, SetupGoesOnKeeps
<1>8. ASSUME NEW root \in Roots, NEW name \in MachineNames, ChooseRoot(m, root, name) PROVE TunnelInv'
  <2> DEFINE s == [r EXCEPT !.at = "install", !.root = root, !.name = name, !.zones = {},
                            !.attempt = 0]
  <2>1. machine' = [machine EXCEPT ![m] = s] /\ UNCHANGED <<account, spoiled>> /\ r.at = "root"
    BY <1>8 DEF ChooseRoot
  <2>2. s \in MachineRecords
    BY <1>1 DEF MachineRecords, SetupSteps
  <2>3. SetupGoesOn(r, s, account.callbacks)
    BY <1>1, <2>1 DEF SetupGoesOn, SameTunnel, MachineRecords, Rests, MachineOk
  <2> HIDE DEF s
  <2>. QED BY <2>1, <2>2, <2>3, SetupGoesOnKeeps
<1>9. CASE Install(m) \/ CloudflaredLogin(m) \/ CreateFails(m) \/ (\E step \in FailingSteps : FailsAt(m, step))
  <2>1. PICK at \in {"login", "create", "failed"} :
          /\ SetupGoes(m, at) /\ UNCHANGED <<account, spoiled>>
          /\ r.at \in {"install", "login"} \/ (at = "failed" /\ r.at \in {"create", "route"})
    BY <1>9 DEF Install, CloudflaredLogin, CreateFails, FailsAt, FailingSteps
  <2>. QED BY <1>1, <1>a, <2>1 DEF MachineOk, Rests, SetupSteps
<1>10. CASE NoCallback(m)
  BY <1>1, <1>a, <1>10 DEF NoCallback, MachineOk, Rests, SetupSteps
<1>11. CASE Describe(m)
  <2> DEFINE known == TunnelCallback(m) \in account.callbacks
             s == [r EXCEPT !.at = IF known THEN "done" ELSE "update",
                            !.read = IF known THEN {} ELSE account.callbacks, !.registered = known]
  <2>1. machine' = [machine EXCEPT ![m] = s] /\ UNCHANGED <<account, spoiled>> /\ r.at = "describe"
    BY <1>11 DEF Describe
  <2>2. CASE known
    <3> DEFINE t == [r EXCEPT !.at = "done", !.read = {}, !.registered = TRUE]
    <3>1. s = t
      BY <2>2
    <3>2. t \in MachineRecords
      BY <1>1 DEF MachineRecords, SetupSteps
    <3>3. SetupGoesOn(r, t, account.callbacks)
      BY <1>1, <2>1, <2>2 DEF SetupGoesOn, SameTunnel, MachineRecords, Rests, MachineOk, TunnelCallback
    <3> HIDE DEF s, t
    <3>. QED BY <2>1, <3>1, <3>2, <3>3, SetupGoesOnKeeps
  <2>3. CASE ~ known
    <3> DEFINE t == [r EXCEPT !.at = "update", !.read = account.callbacks, !.registered = FALSE]
    <3>1. s = t
      <4>1. known = FALSE
        BY <2>3
      <4> HIDE DEF known
      <4>. QED BY <4>1
    <3>2. t \in MachineRecords
      BY <1>1, <1>2 DEF MachineRecords, SetupSteps, AccountTyped
    <3>3. SetupGoesOn(r, t, account.callbacks)
      BY <1>1, <2>1 DEF SetupGoesOn, SameTunnel, MachineRecords, Rests, MachineOk
    <3> HIDE DEF s, t
    <3>. QED BY <2>1, <3>1, <3>2, <3>3, SetupGoesOnKeeps
  <2>. QED BY <2>2, <2>3
<1>12. CASE AwsFails(m) \/ Expires(m)
  <2>1. PICK at \in {"done", "expired"} :
          machine' = [machine EXCEPT ![m].at = at, ![m].read = {}]
    BY <1>12 DEF AwsFails, Expires
  <2> DEFINE s == [r EXCEPT !.at = at, !.read = {}]
  <2>2. machine' = [machine EXCEPT ![m] = s] /\ UNCHANGED <<account, spoiled>> /\ r.at \in {"describe", "update"}
    BY <1>12, <2>1 DEF AwsFails, Expires
  <2>3. s \in MachineRecords
    BY <1>1 DEF MachineRecords, SetupSteps
  <2>4. SetupGoesOn(r, s, account.callbacks)
    BY <1>1, <2>2 DEF SetupGoesOn, SameTunnel, MachineRecords, Rests, MachineOk
  <2> HIDE DEF s
  <2>. QED BY <2>2, <2>3, <2>4, SetupGoesOnKeeps
<1>13. ASSUME NEW works \in BOOLEAN, SsoLogin(m, works) PROVE TunnelInv'
  <2>1. PICK at \in {"describe", "done"} :
          machine' = [machine EXCEPT ![m].at = at, ![m].retried = TRUE]
    BY <1>13 DEF SsoLogin
  <2> DEFINE s == [r EXCEPT !.at = at, !.retried = TRUE]
  <2>2. machine' = [machine EXCEPT ![m] = s] /\ UNCHANGED <<account, spoiled>> /\ r.at = "expired"
    BY <1>13, <2>1 DEF SsoLogin
  <2>3. s \in MachineRecords
    BY <1>1 DEF MachineRecords, SetupSteps
  <2>4. SetupGoesOn(r, s, account.callbacks)
    BY <1>1, <2>2 DEF SetupGoesOn, SameTunnel, MachineRecords, Rests, MachineOk
  <2> HIDE DEF s
  <2>. QED BY <2>2, <2>3, <2>4, SetupGoesOnKeeps
<1>14. CASE RunTunnel(m)
  <2> DEFINE s == [r EXCEPT !.running = TRUE]
  <2>1. /\ machine' = [machine EXCEPT ![m] = s] /\ UNCHANGED <<account, spoiled>>
        /\ r.at \in Rests /\ r.config # NoConfig
    BY <1>14 DEF RunTunnel, Rests
  <2>2. s \in MachineRecords
    BY <1>1 DEF MachineRecords
  <2>3. SetupGoesOn(r, s, account.callbacks)
    BY <1>1, <2>1 DEF SetupGoesOn, SameTunnel, MachineRecords, Rests, MachineOk
  <2> HIDE DEF s
  <2>. QED BY <2>1, <2>2, <2>3, SetupGoesOnKeeps
<1>15. CASE StopTunnel(m)
  <2> DEFINE s == [r EXCEPT !.running = FALSE]
  <2>1. machine' = [machine EXCEPT ![m] = s] /\ UNCHANGED <<account, spoiled>> /\ r.at \in Rests
    BY <1>1, <1>15 DEF StopTunnel, MachineOk
  <2>2. s \in MachineRecords
    BY <1>1 DEF MachineRecords
  <2>3. SetupGoesOn(r, s, account.callbacks)
    BY <1>1, <2>1 DEF SetupGoesOn, SameTunnel, MachineRecords, Rests, MachineOk
  <2> HIDE DEF s
  <2>. QED BY <2>1, <2>2, <2>3, SetupGoesOnKeeps
<1>. QED BY <1>3, <1>4, <1>5, <1>6, <1>7, <1>8, <1>9, <1>10, <1>11, <1>12, <1>13, <1>14, <1>15
        DEF SetupMoves

(* What a machine relies on is still so in account b. *)
LEMMA MachineOkStays ==
  ASSUME NEW r, NEW a, NEW b, NEW clean, MachineOk(r, a, clean),
         r.registered => <<r.name, r.root>> \in b.callbacks,
         \A name \in MachineNames, root \in Roots :
           /\ HasTunnel(r, name, a) => HasTunnel(r, name, b)
           /\ HasTunnel(r, name, a) /\ Leads(name, root, a) => Leads(name, root, b),
         r.name \in MachineNames
  PROVE  MachineOk(r, b, clean)
BY DEF MachineOk

LEMMA CreateTunnelKeeps ==
  ASSUME TunnelInv, NEW m \in Machines, CreateTunnel(m)
  PROVE  TunnelInv'
<1> DEFINE r == machine[m]
           name == r.name
<1>1. /\ r \in MachineRecords /\ machine \in [Machines -> MachineRecords] /\ AccountTyped(account)
      /\ \A n \in Machines : MachineOk(machine[n], account, n \notin spoiled)
  BY DEF TunnelInv
<1>2. /\ r.at = "create" /\ name \in MachineNames /\ ~ r.running /\ ~ r.registered
      /\ r.root \in Roots
  BY <1>1 DEF CreateTunnel, MachineRecords, MachineOk, Rests
<1>3. CASE account.tunnels[name] = NoTunnel
  <2> DEFINE id == account.ids + 1
             s == [r EXCEPT !.at = "route", !.foreign = FALSE, !.credentials = id]
             acc == [account EXCEPT !.ids = id, !.tunnels[name] = id]
  <2>1. /\ account' = acc /\ machine' = [machine EXCEPT ![m] = s]
        /\ spoiled' = IF r.config = NoConfig THEN spoiled ELSE spoiled \union {m}
    BY <1>3 DEF CreateTunnel
  <2>2. id \in Nat /\ id # NoTunnel
    BY <1>1 DEF AccountTyped, NoTunnel
  <2> HIDE DEF id
  <2>3. /\ AccountTyped(acc) /\ acc.tunnels[name] = id
        /\ \A k \in MachineNames \ {name} : acc.tunnels[k] = account.tunnels[k]
        /\ acc.routes = account.routes /\ acc.callbacks = account.callbacks
        /\ acc.unrouted = account.unrouted
    BY <1>1, <1>2, <2>2 DEF AccountTyped
  <2>4. /\ s \in MachineRecords /\ s.at = "route" /\ s.credentials = id /\ s.name = name
        /\ s.config = r.config /\ s.root = r.root /\ s.running = r.running /\ s.registered = r.registered
    BY <1>1, <2>2 DEF MachineRecords, SetupSteps
  <2> HIDE DEF s, acc
  <2>5. machine' \in [Machines -> MachineRecords] /\ machine'[m] = s
        /\ \A n \in Machines \ {m} : machine'[n] = machine[n]
    BY <1>1, <2>1, <2>4
  <2>6. MachineOk(s, acc, m \notin spoiled')
    BY <1>1, <1>2, <2>1, <2>2, <2>3, <2>4 DEF MachineOk, HasTunnel, Rests
  <2>7. ASSUME NEW n \in Machines \ {m} PROVE MachineOk(machine[n], acc, n \notin spoiled')
    <3> DEFINE q == machine[n]
               clean == n \notin spoiled'
    <3>1. q \in MachineRecords /\ MachineOk(q, account, clean) /\ q.name \in MachineNames
      BY <1>1, <2>1 DEF MachineRecords
    <3> HIDE DEF q, clean
    <3>2. ASSUME NEW k \in MachineNames, NEW root \in Roots, HasTunnel(q, k, account)
          PROVE  HasTunnel(q, k, acc) /\ (Leads(k, root, account) => Leads(k, root, acc))
      BY <1>3, <2>3, <3>2 DEF HasTunnel, Leads
    <3>3. q.registered => <<q.name, q.root>> \in acc.callbacks
      BY <2>3, <3>1 DEF MachineOk
    <3>4. MachineOk(q, acc, clean)
      BY <3>1, <3>2, <3>3, MachineOkStays
    <3>. QED BY <3>4 DEF q, clean
  <2>. QED BY <2>1, <2>3, <2>5, <2>6, <2>7 DEF TunnelInv
<1>4. CASE account.tunnels[name] # NoTunnel
  <2> DEFINE foreign == r.credentials # account.tunnels[name]
             s == [r EXCEPT !.at = "route", !.foreign = foreign]
  <2>1. UNCHANGED <<account, spoiled>> /\ machine' = [machine EXCEPT ![m] = s]
    BY <1>4 DEF CreateTunnel
  <2>2. foreign \in BOOLEAN
    OBVIOUS
  <2>3. /\ s \in MachineRecords /\ s.at = "route" /\ (s.foreign <=> foreign)
        /\ s.credentials = r.credentials /\ s.name = name
        /\ s.config = r.config /\ s.root = r.root /\ s.running = r.running /\ s.registered = r.registered
    <3> HIDE DEF foreign
    <3>. QED BY <1>1, <2>2 DEF MachineRecords, SetupSteps
  <2>4. ~ s.foreign => HasTunnel(s, s.name, account)
    BY <1>4, <2>3 DEF HasTunnel
  <2> HIDE DEF s, foreign
  <2>5. MachineOk(s, account, m \notin spoiled)
    BY <1>1, <1>2, <2>3, <2>4 DEF MachineOk, HasTunnel, Rests
  <2>. QED BY <2>1, <2>3, <2>5, MachineMoves
<1>. QED BY <1>3, <1>4

(* A route to host changes what that host leads to, and no other. *)
LEMMA RoutesKeep ==
  ASSUME TunnelInv, NEW m \in Machines, NEW acc, NEW s \in MachineRecords,
         account' = acc, AccountTyped(acc), machine' = [machine EXCEPT ![m] = s], UNCHANGED spoiled,
         acc.tunnels = account.tunnels, acc.callbacks = account.callbacks,
         \A name \in MachineNames, root \in Roots :
           Leads(name, root, account) => Leads(name, root, acc),
         MachineOk(s, acc, m \notin spoiled)
  PROVE  TunnelInv'
<1>1. /\ machine \in [Machines -> MachineRecords]
      /\ \A n \in Machines : MachineOk(machine[n], account, n \notin spoiled)
  BY DEF TunnelInv
<1>2. ASSUME NEW n \in Machines \ {m} PROVE MachineOk(machine[n], acc, n \notin spoiled)
  <2> DEFINE q == machine[n]
             clean == n \notin spoiled
  <2>1. q \in MachineRecords /\ MachineOk(q, account, clean) /\ q.name \in MachineNames
    BY <1>1 DEF MachineRecords
  <2> HIDE DEF q, clean
  <2>2. q.registered => <<q.name, q.root>> \in acc.callbacks
    BY <2>1 DEF MachineOk
  <2>3. MachineOk(q, acc, clean)
    BY <2>1, <2>2, MachineOkStays DEF HasTunnel
  <2>. QED BY <2>3 DEF q, clean
<1>3. machine' \in [Machines -> MachineRecords] /\ machine'[m] = s
      /\ \A n \in Machines \ {m} : machine'[n] = machine[n]
  BY <1>1
<1>. QED BY <1>2, <1>3 DEF TunnelInv

LEMMA RouteHostKeeps ==
  ASSUME TunnelInv, NEW m \in Machines, RouteHost(m)
  PROVE  TunnelInv'
<1> DEFINE r == machine[m]
           name == r.name
           id == account.tunnels[name]
           host == <<name, r.root>>
<1>1. /\ r \in MachineRecords /\ AccountTyped(account) /\ MachineOk(r, account, m \notin spoiled)
  BY DEF TunnelInv
<1>2. /\ r.at = "route" /\ name \in MachineNames /\ ~ r.running /\ ~ r.registered
      /\ r.root \in Roots /\ UNCHANGED spoiled
  BY <1>1 DEF RouteHost, MachineRecords, MachineOk, Rests
<1>3. CASE id = NoTunnel
  <2>1. SetupGoes(m, "failed") /\ UNCHANGED account
    BY <1>3 DEF RouteHost
  <2> DEFINE s == [r EXCEPT !.at = "failed"]
  <2>2. machine' = [machine EXCEPT ![m] = s]
    BY <2>1 DEF SetupGoes
  <2>3. s \in MachineRecords
    BY <1>1 DEF MachineRecords, SetupSteps
  <2>4. SetupGoesOn(r, s, account.callbacks)
    BY <1>1, <1>2 DEF SetupGoesOn, SameTunnel, MachineRecords, Rests, MachineOk
  <2> HIDE DEF s
  <2>. QED BY <1>2, <2>1, <2>2, <2>3, <2>4, SetupGoesOnKeeps
<1>4. CASE id # NoTunnel
  <2> DEFINE acc == [account EXCEPT !.routes[host] = id, !.unrouted = @ \ {host}]
             s == [r EXCEPT !.at = "write"]
  <2>1. account' = acc /\ machine' = [machine EXCEPT ![m] = s]
    BY <1>4 DEF RouteHost, SetupGoes, TunnelCallback
  <2>2. host \in TunnelHosts /\ id \in Nat
    BY <1>1, <1>2 DEF TunnelHosts, AccountTyped
  <2>3. /\ AccountTyped(acc) /\ acc.tunnels = account.tunnels /\ acc.callbacks = account.callbacks
        /\ acc.unrouted = account.unrouted \ {host}
        /\ \A h \in TunnelHosts : acc.routes[h] = IF h = host THEN id ELSE account.routes[h]
    BY <1>1, <2>2 DEF AccountTyped
  <2>4. /\ s \in MachineRecords /\ s.at = "write" /\ s.foreign = r.foreign /\ s.credentials = r.credentials
        /\ s.name = name
        /\ s.config = r.config /\ s.root = r.root /\ s.running = r.running /\ s.registered = r.registered
    BY <1>1 DEF MachineRecords, SetupSteps
  <2> HIDE DEF s, acc
  <2>5. ASSUME NEW k \in MachineNames, NEW root \in Roots, Leads(k, root, account)
        PROVE  Leads(k, root, acc)
    BY <2>3, <2>5 DEF TunnelHosts, Leads
  <2>6. Leads(name, r.root, acc)
    BY <2>2, <2>3 DEF Leads
  <2>7. MachineOk(s, acc, m \notin spoiled)
    <3> DEFINE clean == m \notin spoiled
    <3>1. MachineOk(r, account, clean)
      BY <1>1
    <3>2. \A k : HasTunnel(r, k, account) => HasTunnel(s, k, acc)
      BY <2>3, <2>4 DEF HasTunnel
    <3> HIDE DEF clean, r
    <3>3. MachineOk(s, acc, clean)
      BY <1>2, <2>4, <2>5, <2>6, <3>1, <3>2 DEF MachineOk
    <3>. QED BY <3>3 DEF clean
  <2>. QED BY <1>2, <2>1, <2>3, <2>4, <2>5, <2>7, RoutesKeep
<1>. QED BY <1>3, <1>4

LEMMA RouteForgivenKeeps ==
  ASSUME TunnelInv, NEW m \in Machines, RouteForgiven(m)
  PROVE  TunnelInv'
<1> DEFINE r == machine[m]
           host == <<r.name, r.root>>
           acc == [account EXCEPT !.unrouted = @ \union {host}]
           s == [r EXCEPT !.at = "write"]
<1>1. r \in MachineRecords /\ AccountTyped(account) /\ MachineOk(r, account, m \notin spoiled)
  BY DEF TunnelInv
<1>2. /\ r.at = "route" /\ r.name \in MachineNames /\ ~ r.running /\ ~ r.registered
      /\ r.root \in Roots /\ UNCHANGED spoiled
      /\ account' = acc /\ machine' = [machine EXCEPT ![m] = s]
  BY <1>1 DEF RouteForgiven, SetupGoes, TunnelCallback, MachineRecords, MachineOk, Rests
<1>3. /\ AccountTyped(acc) /\ acc.tunnels = account.tunnels /\ acc.callbacks = account.callbacks
      /\ acc.routes = account.routes /\ acc.unrouted = account.unrouted \union {host}
  BY <1>1, <1>2 DEF AccountTyped, TunnelHosts
<1>4. /\ s \in MachineRecords /\ s.at = "write" /\ s.foreign = r.foreign /\ s.credentials = r.credentials
      /\ s.name = r.name
      /\ s.config = r.config /\ s.root = r.root /\ s.running = r.running /\ s.registered = r.registered
  BY <1>1 DEF MachineRecords, SetupSteps
<1> HIDE DEF s, acc
<1>5. ASSUME NEW k \in MachineNames, NEW root \in Roots, Leads(k, root, account)
      PROVE  Leads(k, root, acc)
  BY <1>3, <1>5 DEF Leads
<1>6. Leads(r.name, r.root, acc)
  BY <1>3 DEF Leads
<1>7. MachineOk(s, acc, m \notin spoiled)
  <2> DEFINE clean == m \notin spoiled
  <2>1. MachineOk(r, account, clean)
    BY <1>1
  <2>2. \A k : HasTunnel(r, k, account) => HasTunnel(s, k, acc)
    BY <1>3, <1>4 DEF HasTunnel
  <2> HIDE DEF clean, r
  <2>3. MachineOk(s, acc, clean)
    BY <1>2, <1>4, <1>5, <1>6, <2>1, <2>2 DEF MachineOk
  <2>. QED BY <2>3 DEF clean
<1>. QED BY <1>2, <1>3, <1>4, <1>5, <1>7, RoutesKeep

LEMMA WriteConfigKeeps ==
  ASSUME TunnelInv, NEW m \in Machines, WriteConfig(m)
  PROVE  TunnelInv'
<1> DEFINE r == machine[m]
           s == [r EXCEPT !.at = "describe", !.config = [tunnel |-> r.name, root |-> r.root]]
<1>1. /\ r \in MachineRecords /\ machine \in [Machines -> MachineRecords] /\ AccountTyped(account)
      /\ \A n \in Machines : MachineOk(machine[n], account, n \notin spoiled)
  BY DEF TunnelInv
<1>2. /\ r.at = "write" /\ r.name \in MachineNames /\ r.root \in Roots /\ ~ r.running /\ ~ r.registered
      /\ account' = account /\ machine' = [machine EXCEPT ![m] = s]
      /\ spoiled' = IF r.foreign THEN spoiled \union {m} ELSE spoiled \ {m}
  BY <1>1 DEF WriteConfig, MachineRecords, MachineOk, Rests
<1>3. /\ s \in MachineRecords /\ s.at = "describe" /\ s.foreign = r.foreign /\ s.credentials = r.credentials
      /\ s.name = r.name /\ s.config = [tunnel |-> r.name, root |-> r.root]
      /\ s.root = r.root /\ s.running = r.running /\ s.registered = r.registered
  BY <1>1, <1>2 DEF MachineRecords, SetupSteps
<1> HIDE DEF s
<1>4. machine' \in [Machines -> MachineRecords] /\ machine'[m] = s
      /\ \A n \in Machines \ {m} : machine'[n] = machine[n]
  BY <1>1, <1>2, <1>3
<1>5. MachineOk(s, account, m \notin spoiled')
  <2> DEFINE clean == m \notin spoiled'
  <2>1. clean => HasTunnel(r, r.name, account) /\ Leads(r.name, r.root, account)
    BY <1>1, <1>2 DEF MachineOk
  <2>2. clean => HasTunnel(s, s.config.tunnel, account) /\ Leads(s.config.tunnel, s.config.root, account)
    BY <1>3, <2>1 DEF HasTunnel
  <2> HIDE DEF clean
  <2>3. MachineOk(s, account, clean)
    BY <1>2, <1>3, <2>2 DEF MachineOk
  <2>. QED BY <2>3 DEF clean
<1>6. ASSUME NEW n \in Machines \ {m} PROVE MachineOk(machine[n], account, n \notin spoiled')
  <2>1. n \notin spoiled' <=> n \notin spoiled
    BY <1>2
  <2>. QED BY <1>1, <2>1
<1>. QED BY <1>1, <1>2, <1>4, <1>5, <1>6 DEF TunnelInv

LEMMA UpdateKeeps ==
  ASSUME TunnelInv, NEW m \in Machines, Update(m)
  PROVE  TunnelInv'
<1> DEFINE r == machine[m]
           own == TunnelCallback(m)
           next == r.read \union {own}
           acc == [account EXCEPT !.callbacks = next]
           s == [r EXCEPT !.at = "done", !.read = {}, !.registered = TRUE]
<1>1. /\ r \in MachineRecords /\ machine \in [Machines -> MachineRecords] /\ AccountTyped(account)
      /\ \A n \in Machines : MachineOk(machine[n], account, n \notin spoiled)
  BY DEF TunnelInv
<1>2. /\ r.at = "update" /\ r.name \in MachineNames /\ r.root \in Roots /\ ~ r.running
      /\ r.read \subseteq TunnelHosts
      /\ account' = acc /\ UNCHANGED spoiled
  BY <1>1 DEF Update, Updated, MachineRecords, MachineOk, Rests
<1>3. machine' = [n \in Machines |->
         IF n = m THEN s
         ELSE IF TunnelCallback(n) \in account.callbacks \ next
         THEN [machine[n] EXCEPT !.registered = FALSE] ELSE machine[n]]
  BY DEF Update
<1>4. /\ s \in MachineRecords /\ s.at = "done" /\ s.foreign = r.foreign /\ s.credentials = r.credentials
      /\ s.name = r.name /\ s.config = r.config /\ s.root = r.root /\ s.running = r.running
  BY <1>1 DEF MachineRecords, SetupSteps
<1>5. /\ AccountTyped(acc) /\ acc.tunnels = account.tunnels /\ acc.routes = account.routes
      /\ acc.callbacks = next /\ acc.unrouted = account.unrouted /\ own = <<r.name, r.root>>
  BY <1>1, <1>2 DEF AccountTyped, TunnelHosts, TunnelCallback
<1>6. \A n \in Machines : [machine[n] EXCEPT !.registered = FALSE] \in MachineRecords
  BY <1>1 DEF MachineRecords
<1> HIDE DEF s, acc
<1>7. machine' \in [Machines -> MachineRecords]
  BY <1>1, <1>3, <1>4, <1>6
<1>8. MachineOk(s, acc, m \notin spoiled)
  <2> DEFINE clean == m \notin spoiled
  <2>1. MachineOk(r, account, clean)
    BY <1>1
  <2> HIDE DEF clean, r
  <2>2. \A name, root : /\ HasTunnel(s, name, acc) <=> HasTunnel(r, name, account)
                        /\ Leads(name, root, acc) <=> Leads(name, root, account)
    BY <1>4, <1>5 DEF HasTunnel, Leads
  <2>3. MachineOk(s, acc, clean)
    BY <1>2, <1>4, <1>5, <2>1, <2>2 DEF MachineOk, Rests
  <2>. QED BY <2>3 DEF clean
<1>9. ASSUME NEW n \in Machines \ {m} PROVE MachineOk(machine'[n], acc, n \notin spoiled)
  <2> DEFINE q == machine[n]
             clean == n \notin spoiled
             t == [q EXCEPT !.registered = FALSE]
  <2>1. q \in MachineRecords /\ MachineOk(q, account, clean) /\ TunnelCallback(n) = <<q.name, q.root>>
    BY <1>1 DEF TunnelCallback
  <2>2. /\ t.name = q.name /\ t.at = q.at /\ t.foreign = q.foreign /\ t.credentials = q.credentials
        /\ t.config = q.config /\ t.root = q.root /\ t.running = q.running /\ ~ t.registered
    BY <2>1 DEF MachineRecords
  <2>3. \/ machine'[n] = t
        \/ machine'[n] = q /\ <<q.name, q.root>> \notin account.callbacks \ acc.callbacks
    BY <1>3, <1>5, <2>1
  <2> HIDE DEF q, clean, t
  <2>4. \A name, root : /\ HasTunnel(q, name, acc) <=> HasTunnel(q, name, account)
                        /\ HasTunnel(t, name, acc) <=> HasTunnel(q, name, account)
                        /\ Leads(name, root, acc) <=> Leads(name, root, account)
    BY <1>5, <2>2 DEF HasTunnel, Leads
  <2>6. MachineOk(t, acc, clean)
    BY <1>5, <2>1, <2>2, <2>4 DEF MachineOk
  <2>7. ASSUME machine'[n] = q, <<q.name, q.root>> \notin account.callbacks \ acc.callbacks
        PROVE  MachineOk(q, acc, clean)
    BY <1>5, <2>1, <2>4, <2>7 DEF MachineOk
  <2>. QED BY <2>3, <2>6, <2>7 DEF clean
<1>10. machine'[m] = s
  BY <1>3
<1>. QED BY <1>2, <1>5, <1>7, <1>8, <1>9, <1>10 DEF TunnelInv

LEMMA LoseCredentialsKeeps ==
  ASSUME TunnelInv, NEW m \in Machines, LoseCredentials(m)
  PROVE  TunnelInv'
<1> DEFINE r == machine[m]
           s == [r EXCEPT !.foreign = TRUE, !.credentials = NoTunnel]
<1>1. /\ r \in MachineRecords /\ machine \in [Machines -> MachineRecords] /\ AccountTyped(account)
      /\ \A n \in Machines : MachineOk(machine[n], account, n \notin spoiled)
  BY DEF TunnelInv
<1>2. account' = account /\ machine' = [machine EXCEPT ![m] = s] /\ spoiled' = spoiled \union {m}
  BY DEF LoseCredentials
<1>3. /\ s \in MachineRecords /\ s.foreign /\ s.at = r.at /\ s.name = r.name /\ s.config = r.config
      /\ s.root = r.root /\ s.running = r.running /\ s.registered = r.registered
  BY <1>1 DEF MachineRecords, NoTunnel
<1> HIDE DEF s
<1>4. machine' \in [Machines -> MachineRecords] /\ machine'[m] = s
      /\ \A n \in Machines \ {m} : machine'[n] = machine[n]
  BY <1>1, <1>2, <1>3
<1>5. MachineOk(s, account, m \notin spoiled')
  BY <1>1, <1>2, <1>3 DEF MachineOk
<1>6. ASSUME NEW n \in Machines \ {m} PROVE MachineOk(machine[n], account, n \notin spoiled')
  <2>1. n \notin spoiled' <=> n \notin spoiled
    BY <1>2
  <2>. QED BY <1>1, <2>1
<1>. QED BY <1>1, <1>2, <1>4, <1>5, <1>6 DEF TunnelInv

LEMMA LoseTunnelKeeps ==
  ASSUME TunnelInv, NEW name \in MachineNames, LoseTunnel(name)
  PROVE  TunnelInv'
<1> DEFINE acc == [account EXCEPT !.tunnels[name] = NoTunnel]
           Hit(q) == IF q.name = name THEN [q EXCEPT !.foreign = TRUE] ELSE q
<1>1. /\ machine \in [Machines -> MachineRecords] /\ AccountTyped(account)
      /\ \A n \in Machines : MachineOk(machine[n], account, n \notin spoiled)
  BY DEF TunnelInv
<1>2. /\ account' = acc /\ machine' = [n \in Machines |-> Hit(machine[n])]
      /\ spoiled' = spoiled \union {n \in Machines : machine[n].config.tunnel = name}
  BY DEF LoseTunnel
<1>3. /\ AccountTyped(acc) /\ acc.routes = account.routes /\ acc.callbacks = account.callbacks
      /\ acc.unrouted = account.unrouted
      /\ \A k \in MachineNames \ {name} : acc.tunnels[k] = account.tunnels[k]
  BY <1>1 DEF AccountTyped, NoTunnel
<1> HIDE DEF acc
<1>4. ASSUME NEW n \in Machines
      PROVE  Hit(machine[n]) \in MachineRecords /\ MachineOk(Hit(machine[n]), acc, n \notin spoiled')
  <2> DEFINE q == machine[n]
             s == Hit(q)
             clean == n \notin spoiled'
  <2>1. /\ q \in MachineRecords /\ MachineOk(q, account, n \notin spoiled)
        /\ clean => n \notin spoiled /\ q.config.tunnel # name
    BY <1>1, <1>2
  <2>2. /\ s \in MachineRecords /\ s.at = q.at /\ s.name = q.name /\ s.config = q.config
        /\ s.root = q.root /\ s.running = q.running /\ s.registered = q.registered
        /\ s.credentials = q.credentials
        /\ ~ s.foreign => ~ q.foreign /\ q.name # name
    BY <2>1 DEF MachineRecords
  <2>3. q.name \in MachineNames
    BY <2>1 DEF MachineRecords
  <2> HIDE DEF q, s, clean
  <2>4. \A k \in MachineNames \ {name}, root \in Roots :
          /\ HasTunnel(s, k, acc) <=> HasTunnel(q, k, account)
          /\ Leads(k, root, acc) <=> Leads(k, root, account)
    BY <1>3, <2>2 DEF HasTunnel, Leads
  <2>5. MachineOk(s, acc, clean)
    BY <1>3, <2>1, <2>2, <2>3, <2>4 DEF MachineOk
  <2>. QED BY <2>2, <2>5 DEF q, s, clean
<1> HIDE DEF Hit
<1>. QED BY <1>2, <1>3, <1>4 DEF TunnelInv

(* However setups of several machines interleave, fail and are run again, the   *)
(* host that dev prints leads to this machine, and a callback that a setup saw  *)
(* is accepted, with the exceptions that SetupStands names.                     *)
THEOREM SetupsStand == TunnelSpec => []SetupStands
<1>1. TunnelInv /\ [TunnelNext]_tunnelVars => TunnelInv'
  <2> SUFFICES ASSUME TunnelInv, [TunnelNext]_tunnelVars PROVE TunnelInv'
    OBVIOUS
  <2>1. CASE UNCHANGED tunnelVars
    BY <2>1 DEF tunnelVars, TunnelInv
  <2>. QED BY <2>1, SetupMovesKeep, CreateTunnelKeeps, RouteHostKeeps, WriteConfigKeeps, UpdateKeeps,
              LoseCredentialsKeeps, LoseTunnelKeeps, RouteForgivenKeeps DEF TunnelNext, SetupMoves
<1>2. TunnelInv => SetupStands
  BY DEF TunnelInv, SetupStands, MachineOk, HostReached, HasTunnel, Leads, TunnelCallback
<1>. QED BY TunnelInitInv, <1>1, <1>2, PTL DEF TunnelSpec

-----------------------------------------------------------------------------
(* The containers of one developer's machine. *)

RunSteps == {"idle", "start", "check", "wait", "tables", "gateway", "serving", "stopping"}
LocalServiceNames == {Services[i] : i \in 1..2}
RunnerRecords ==
  [at : RunSteps, base : Bases, service : LocalServiceNames, tried : BOOLEAN]
BoxStates ==
  [state : {"none", "created", "running"}, port : HostPorts \union {NoPort},
   tables : SUBSET Runners]

(* The container of service s backs the run of command r with this base. *)
Backs(box, r, base, s) ==
  \/ box.state = "running" /\ r \in box.tables /\ box.port = HostPort(KindOf(r), base, s)
  \/ r \in LocalCells /\ box.state = "created"

Past == {"gateway", "serving"}

(* What the record x of command r says of its container box, at the service  *)
(* that it is about: it is there, or it runs where it was to, or backs.      *)
HasBox(r, x, s, box) ==
  /\ Services[2] = x.service /\ s = Services[1] => Backs(box, r, x.base, s)
  /\ x.at \in Past => Backs(box, r, x.base, s)
  /\ s = x.service =>
       /\ x.at = "check" => box.state # "none"
       /\ x.at \in {"wait", "tables"} =>
            \/ box.state = "running" /\ box.port = HostPort(KindOf(r), x.base, s)
            \/ r \in LocalCells /\ box.state = "created"

LocalTyped ==
  /\ boxes \in [Boxes -> BoxStates] /\ runners \in [Runners -> RunnerRecords]
  /\ displaced \subseteq LocalStacks

(* What is so of the command of record x, whatever the containers. *)
RunOk(r, x) ==
  /\ x.at \in {"gateway", "stopping"} => r = E2e
  /\ x.at = "check" => r \in LocalCells

RunHolds(r) ==
  /\ RunOk(r, runners[r])
  /\ r \notin displaced /\ runners[r].at \notin {"idle", "stopping"} =>
       \A i \in 1..2 : HasBox(r, runners[r], Services[i], boxes[BoxOf(r, Services[i])])

(* A stack that no other displaced has the containers for itself while it starts. *)
Unjoined(r) ==
  r \in LocalStacks \ displaced /\ runners[r].at # "idle" =>
    \A o \in LocalStacks \ {r} : runners[o].at \in {"idle", "serving"}

LocalInv == LocalTyped /\ \A r \in Runners : RunHolds(r) /\ Unjoined(r)

LEMMA IdleTyped == Idle \in RunnerRecords /\ Idle.at = "idle" /\ NoBox \in BoxStates
BY LocalAssumption DEF NoBox, BoxStates, Idle, RunnerRecords, RunSteps, LocalServiceNames

LEMMA LocalInitInv == LocalInit => LocalInv
<1> SUFFICES ASSUME LocalInit PROVE LocalInv
  OBVIOUS
<1>1. LocalTyped
  BY IdleTyped DEF LocalInit, LocalTyped
<1>2. \A r \in Runners : runners[r].at = "idle"
  BY DEF LocalInit, Idle
<1>3. \A r \in Runners : RunHolds(r) /\ Unjoined(r)
  BY <1>2 DEF RunHolds, RunOk, Unjoined
<1>. QED BY <1>1, <1>3 DEF LocalInv

(* Containers of commands have names of their own, but for those of two stacks. *)
LEMMA BoxesApart ==
  /\ Services[1] # Services[2] /\ LocalServiceNames = {Services[1], Services[2]}
  /\ \A r \in Runners, s \in LocalServiceNames :
       BoxOf(r, s) \in Boxes /\ BoxOf(r, s).owner = OwnerOf(r) /\ BoxOf(r, s).service = s
  /\ \A r, o \in Runners : r # o /\ OwnerOf(r) = OwnerOf(o) => r \in LocalStacks /\ o \in LocalStacks
<1>1. Services[1] # Services[2] /\ LocalServiceNames = {Services[1], Services[2]}
  BY DEF Services, LocalServiceNames
<1>2. \A r \in Runners : OwnerOf(r) \in LocalCells \union {"otavia-dev", E2e}
  BY DEF Runners, OwnerOf
<1>3. \A r \in Runners, s \in LocalServiceNames :
        BoxOf(r, s) \in Boxes /\ BoxOf(r, s).owner = OwnerOf(r) /\ BoxOf(r, s).service = s
  BY <1>2 DEF BoxOf, Boxes, LocalServiceNames
<1>4. \A r, o \in Runners : r # o /\ OwnerOf(r) = OwnerOf(o) => r \in LocalStacks /\ o \in LocalStacks
  BY LocalAssumption DEF Runners, OwnerOf
<1>. QED BY <1>1, <1>3, <1>4

(* What another command adds to a container takes nothing from this one. *)
LEMMA AddingKeeps ==
  ASSUME NEW r, NEW x, NEW s, NEW box \in BoxStates, NEW o, HasBox(r, x, s, box)
  PROVE  HasBox(r, x, s, [box EXCEPT !.tables = @ \union {o}])
BY DEF HasBox, Backs, BoxStates

(* A step of command o that leaves other commands their containers *)
Leaves(o) ==
  \A n \in Boxes : \/ boxes'[n] = boxes[n]
                   \/ boxes'[n] = [boxes[n] EXCEPT !.tables = @ \union {o}]
                   \/ n.owner = OwnerOf(o) /\ runners[o].at # "serving"

LEMMA RunMoves ==
  ASSUME LocalInv, NEW o \in Runners, NEW y \in RunnerRecords,
         runners[o].at # "idle", runners' = [runners EXCEPT ![o] = y], displaced' = displaced,
         runners[o].at = "serving" => y.at \in {"idle", "stopping"} /\ (y.at = "stopping" => o = E2e),
         boxes' \in [Boxes -> BoxStates], Leaves(o),
         RunOk(o, y),
         o \notin displaced /\ y.at \notin {"idle", "stopping"} =>
           \A i \in 1..2 : HasBox(o, y, Services[i], boxes'[BoxOf(o, Services[i])])
  PROVE  LocalInv'
<1>1. LocalTyped /\ \A r \in Runners : RunHolds(r) /\ Unjoined(r)
  BY DEF LocalInv
<1>2. LocalTyped' /\ runners'[o] = y /\ \A r \in Runners \ {o} : runners'[r] = runners[r]
  BY <1>1 DEF LocalTyped
<1>3. ASSUME NEW r \in Runners PROVE Unjoined(r)'
  <2>1. SUFFICES ASSUME r \in LocalStacks \ displaced, runners'[r].at # "idle", NEW k \in LocalStacks \ {r}
                 PROVE  runners'[k].at \in {"idle", "serving"}
    BY DEF Unjoined
  <2>2. k \in Runners /\ runners[r].at # "idle"
    BY <1>2, <2>1 DEF Runners
  <2>3. runners[k].at \in {"idle", "serving"}
    BY <1>1, <2>1, <2>2 DEF Unjoined
  <2>4. CASE k = o
    BY <1>2, <2>1, <2>3, <2>4, LocalAssumption
  <2>5. CASE k # o
    BY <1>2, <2>2, <2>3, <2>5
  <2>. QED BY <2>4, <2>5
<1>4. ASSUME NEW r \in Runners PROVE RunHolds(r)'
  <2>1. CASE r = o
    BY <1>2, <2>1 DEF RunHolds
  <2>2. CASE r # o
    <3>1. RunHolds(r) /\ runners'[r] = runners[r]
      BY <1>1, <1>2, <2>2
    <3>2. ASSUME r \notin displaced, runners[r].at \notin {"idle", "stopping"}, NEW i \in 1..2
          PROVE  HasBox(r, runners[r], Services[i], boxes'[BoxOf(r, Services[i])])
      <4> DEFINE n == BoxOf(r, Services[i])
      <4>1. n \in Boxes /\ n.owner = OwnerOf(r)
        BY BoxesApart DEF LocalServiceNames
      <4>2. ~ (n.owner = OwnerOf(o) /\ runners[o].at # "serving")
        BY <1>1, <2>2, <3>2, <4>1, BoxesApart DEF Unjoined
      <4>3. HasBox(r, runners[r], Services[i], boxes[n]) /\ boxes[n] \in BoxStates
        BY <1>1, <3>1, <3>2, <4>1 DEF RunHolds, LocalTyped
      <4>4. boxes'[n] = boxes[n] \/ boxes'[n] = [boxes[n] EXCEPT !.tables = @ \union {o}]
        BY <4>1, <4>2 DEF Leaves
      <4> HIDE DEF n
      <4>. QED BY <4>3, <4>4, AddingKeeps DEF n
    <3>. QED BY <3>1, <3>2 DEF RunHolds
  <2>. QED BY <2>1, <2>2
<1>. QED BY <1>2, <1>3, <1>4 DEF LocalInv

(* A command ends, or the tests go to remove what they made. *)
LEMMA RunEnds ==
  ASSUME LocalInv, NEW o \in Runners, runners[o].at # "idle",
         \/ GivesUp(o)
         \/ o = E2e /\ RunGoes(o, "stopping")
         \/ runners' = [runners EXCEPT ![o] = Idle],
         displaced' = displaced, boxes' \in [Boxes -> BoxStates], Leaves(o)
  PROVE  LocalInv'
<1>1. runners \in [Runners -> RunnerRecords]
  BY DEF LocalInv, LocalTyped
<1>2. PICK y : /\ y = Idle \/ (o = E2e /\ y = [runners[o] EXCEPT !.at = "stopping"])
               /\ runners' = [runners EXCEPT ![o] = y]
  <2>1. CASE runners' = [runners EXCEPT ![o] = Idle]
    BY <2>1
  <2>2. CASE o = E2e /\ runners' = [runners EXCEPT ![o] = [runners[o] EXCEPT !.at = "stopping"]]
    BY <2>2
  <2>. QED BY <1>1, <2>1, <2>2 DEF GivesUp, RunGoes
<1>3. y \in RunnerRecords /\ (y.at = "idle" \/ (o = E2e /\ y.at = "stopping"))
  <2>1. CASE y = Idle
    BY <2>1, IdleTyped
  <2>2. CASE o = E2e /\ y = [runners[o] EXCEPT !.at = "stopping"]
    BY <1>1, <2>2 DEF RunnerRecords, RunSteps
  <2>. QED BY <1>2, <2>1, <2>2
<1>4. RunOk(o, y)
  BY <1>3 DEF RunOk
<1>. QED BY <1>2, <1>3, <1>4, RunMoves

(* What the next steps say of command o: its own container is the one of the *)
(* service that it is about.                                                 *)
LEMMA OwnBox ==
  ASSUME LocalInv, NEW o \in Runners
  PROVE  /\ runners[o] \in RunnerRecords
         /\ runners[o].service \in LocalServiceNames
         /\ Own(o) \in Boxes /\ Own(o).owner = OwnerOf(o) /\ boxes[Own(o)] \in BoxStates
         /\ PortFor(o) \in HostPorts /\ Made(PortFor(o)) \in BoxStates /\ NoBox \in BoxStates
         /\ \A i \in 1..2 : /\ BoxOf(o, Services[i]) \in Boxes
                            /\ BoxOf(o, Services[i]) = Own(o) => Services[i] = runners[o].service
<1>1. runners[o] \in RunnerRecords /\ boxes \in [Boxes -> BoxStates]
  BY DEF LocalInv, LocalTyped
<1>2. runners[o].service \in LocalServiceNames /\ runners[o].base \in Bases
  BY <1>1 DEF RunnerRecords
<1>3. Own(o) \in Boxes /\ Own(o).owner = OwnerOf(o) /\ Own(o).service = runners[o].service
  BY <1>2, BoxesApart DEF Own
<1>4. PortFor(o) \in HostPorts
  BY <1>2 DEF PortFor, KindOf, HostPort, HostPorts, LocalServiceNames
<1>5. Made(PortFor(o)) \in BoxStates /\ NoBox \in BoxStates
  BY <1>4 DEF Made, BoxStates, NoBox
<1>6. \A i \in 1..2 : /\ BoxOf(o, Services[i]) \in Boxes
                      /\ BoxOf(o, Services[i]) = Own(o) => Services[i] = runners[o].service
  BY <1>3, BoxesApart DEF LocalServiceNames
<1>. QED BY <1>1, <1>2, <1>3, <1>4, <1>5, <1>6

(* Command o goes on about the same service, with its own container as it is or *)
(* another in its place.                                                        *)
LEMMA OwnMoves ==
  ASSUME LocalInv, NEW o \in Runners, NEW at \in {"start", "check", "wait", "tables"}, NEW tried \in BOOLEAN,
         runners[o].at \notin {"idle", "serving", "gateway", "stopping"},
         NEW box \in BoxStates,
         runners' = [runners EXCEPT ![o] = [runners[o] EXCEPT !.at = at, !.tried = tried]],
         displaced' = displaced,
         boxes' = [boxes EXCEPT ![Own(o)] = box],
         at = "check" => o \in LocalCells /\ box.state # "none",
         o \notin displaced /\ at \in {"wait", "tables"} =>
           \/ box.state = "running" /\ box.port = PortFor(o)
           \/ o \in LocalCells /\ box.state = "created"
  PROVE  LocalInv'
<1>1. PICK y : y = [runners[o] EXCEPT !.at = at, !.tried = tried]
  OBVIOUS
<1>2. y \in RunnerRecords /\ y.at = at /\ y.base = runners[o].base /\ y.service = runners[o].service
  BY <1>1, OwnBox DEF RunnerRecords, RunSteps
<1>3. boxes' \in [Boxes -> BoxStates] /\ boxes'[Own(o)] = box
        /\ \A n \in Boxes \ {Own(o)} : boxes'[n] = boxes[n]
  BY OwnBox DEF LocalInv, LocalTyped
<1>4. Leaves(o)
  BY <1>3, OwnBox DEF Leaves
<1>5. RunOk(o, y)
  BY <1>2 DEF RunOk
<1>6. ASSUME o \notin displaced, NEW i \in 1..2
      PROVE  HasBox(o, y, Services[i], boxes'[BoxOf(o, Services[i])])
  <2>1. HasBox(o, runners[o], Services[i], boxes[BoxOf(o, Services[i])])
    BY <1>6 DEF LocalInv, RunHolds
  <2>2. at \notin Past
    BY DEF Past
  <2>3. CASE BoxOf(o, Services[i]) = Own(o)
    <3>1. Services[i] = runners[o].service /\ boxes'[BoxOf(o, Services[i])] = box
      BY <1>3, <2>3, OwnBox
    <3>2. PortFor(o) = HostPort(KindOf(o), y.base, y.service)
      BY <1>2 DEF PortFor
    <3>3. ~ (Services[2] = y.service /\ Services[i] = Services[1])
      BY <1>2, <3>1, BoxesApart
    <3>. QED BY <1>2, <1>6, <2>2, <3>1, <3>2, <3>3 DEF HasBox
  <2>4. CASE BoxOf(o, Services[i]) # Own(o)
    <3>1. Services[i] # runners[o].service /\ boxes'[BoxOf(o, Services[i])] = boxes[BoxOf(o, Services[i])]
      BY <1>3, <2>4, OwnBox DEF Own
    <3>. QED BY <1>2, <2>1, <2>2, <3>1 DEF HasBox
  <2>. QED BY <2>3, <2>4
<1>. QED BY <1>1, <1>2, <1>3, <1>4, <1>5, <1>6, RunMoves

(* RunGoes, with the container left as it is or replaced *)
LEMMA OwnGoes ==
  ASSUME LocalInv, NEW o \in Runners, NEW at \in {"start", "check", "wait", "tables"}, RunGoes(o, at)
  PROVE  /\ runners' = [runners EXCEPT ![o] = [runners[o] EXCEPT !.at = at, !.tried = runners[o].tried]]
         /\ runners[o].tried \in BOOLEAN
         /\ UNCHANGED boxes => boxes' = [boxes EXCEPT ![Own(o)] = boxes[Own(o)]]
BY OwnBox DEF RunGoes, LocalInv, LocalTyped, RunnerRecords

(* The same with its container as it is *)
LEMMA OwnStays ==
  ASSUME LocalInv, NEW o \in Runners, NEW at \in {"check", "wait", "tables"}, RunGoes(o, at),
         runners[o].at \notin {"idle", "serving", "gateway", "stopping"},
         UNCHANGED <<boxes, displaced>>,
         at = "check" => o \in LocalCells /\ boxes[Own(o)].state # "none",
         o \notin displaced /\ at \in {"wait", "tables"} =>
           \/ boxes[Own(o)].state = "running" /\ boxes[Own(o)].port = PortFor(o)
           \/ o \in LocalCells /\ boxes[Own(o)].state = "created"
  PROVE  LocalInv'
<1>1. PICK box \in BoxStates : box = boxes[Own(o)]
  BY OwnBox
<1>2. boxes' = [boxes EXCEPT ![Own(o)] = box]
  BY <1>1, OwnGoes
<1>3. PICK tried \in BOOLEAN :
        runners' = [runners EXCEPT ![o] = [runners[o] EXCEPT !.at = at, !.tried = tried]]
  BY OwnGoes
<1>. QED BY <1>1, <1>2, <1>3, OwnMoves

LEMMA BoxLeaves ==
  ASSUME LocalInv, NEW o \in Runners, NEW box \in BoxStates, runners[o].at # "serving",
         BoxBecomes(o, box) \/ UNCHANGED boxes
  PROVE  boxes' \in [Boxes -> BoxStates] /\ Leaves(o)
BY OwnBox DEF BoxBecomes, Leaves, LocalInv, LocalTyped

LEMMA StartOwnKeeps ==
  ASSUME LocalInv, NEW o \in Runners, StartOwn(o)
  PROVE  LocalInv'
<1> DEFINE box == boxes[Own(o)]
<1>1. box \in BoxStates /\ runners[o].at = "start" /\ o \in LocalCells /\ displaced' = displaced
  BY OwnBox DEF StartOwn
<1>2. CASE box.state = "running" /\ RunGoes(o, "check") /\ UNCHANGED boxes
  BY <1>1, <1>2, OwnStays
<1>3. CASE box.state = "created" /\ RunGoes(o, "check") /\ BoxBecomes(o, Started(box))
  <2>1. Started(box) \in BoxStates /\ Started(box).state # "none"
    BY <1>1, <1>3 DEF Started, BoxStates
  <2> HIDE DEF box
  <2>. QED BY <1>1, <1>3, <2>1, OwnGoes, OwnMoves DEF BoxBecomes
<1>4. CASE /\ box.state = "none" /\ BoxBecomes(o, Made(PortFor(o)))
           /\ IF PortTaken(PortFor(o)) THEN GivesUp(o) ELSE RunGoes(o, "check")
  <2>1. Made(PortFor(o)) \in BoxStates /\ Made(PortFor(o)).state # "none"
    BY OwnBox DEF Made
  <2>2. boxes' \in [Boxes -> BoxStates] /\ Leaves(o)
    BY <1>1, <1>4, <2>1, BoxLeaves
  <2>3. CASE GivesUp(o)
    BY <1>1, <2>2, <2>3, RunEnds
  <2>4. CASE RunGoes(o, "check")
    BY <1>1, <1>4, <2>1, <2>4, OwnGoes, OwnMoves DEF BoxBecomes
  <2>. QED BY <1>4, <2>3, <2>4
<1>. QED BY <1>2, <1>3, <1>4 DEF StartOwn

LEMMA CheckPortKeeps ==
  ASSUME LocalInv, NEW o \in Runners, CheckPort(o)
  PROVE  LocalInv'
<1>1. boxes[Own(o)] \in BoxStates /\ runners[o].at = "check" /\ displaced' = displaced /\ NoBox \in BoxStates
  BY OwnBox DEF CheckPort
<1>2. RunHolds(o) /\ displaced \subseteq LocalStacks
  BY DEF LocalInv, LocalTyped
<1>3. o \in LocalCells /\ o \notin displaced
  BY <1>1, <1>2, LocalAssumption DEF RunHolds, RunOk
<1>4. PICK i \in 1..2 : Services[i] = runners[o].service
  BY OwnBox DEF LocalServiceNames
<1>5. boxes[Own(o)].state # "none"
  BY <1>1, <1>2, <1>3, <1>4 DEF RunHolds, HasBox, Own
<1>6. CASE ~ Misplaced(o) /\ RunGoes(o, "wait") /\ UNCHANGED boxes
  <2>1. \/ boxes[Own(o)].state = "running" /\ boxes[Own(o)].port = PortFor(o)
        \/ o \in LocalCells /\ boxes[Own(o)].state = "created"
    BY <1>1, <1>3, <1>5, <1>6 DEF Misplaced, BoxStates
  <2>. QED BY <1>1, <1>3, <1>5, <1>6, <2>1, OwnStays
<1>7. CASE GivesUp(o) /\ UNCHANGED boxes
  BY <1>1, <1>7, BoxLeaves, RunEnds
<1>8. CASE BoxBecomes(o, NoBox) /\ RunGoes(o, "start")
  BY <1>1, <1>8, OwnGoes, OwnMoves DEF BoxBecomes
<1>. QED BY <1>6, <1>7, <1>8 DEF CheckPort

LEMMA StartSharedKeeps ==
  ASSUME LocalInv, NEW o \in Runners, StartShared(o)
  PROVE  LocalInv'
<1> DEFINE box == boxes[Own(o)]
           started == IF box.state = "created" THEN Started(box) ELSE box
<1>1. box \in BoxStates /\ runners[o].at = "start" /\ displaced' = displaced /\ NoBox \in BoxStates
  BY OwnBox DEF StartShared
<1>2. started \in BoxStates
  BY <1>1 DEF Started, BoxStates
<1>3. CASE /\ started.state = "running" /\ started.port = PortFor(o)
           /\ BoxBecomes(o, started) /\ RunGoes(o, "wait")
  <2> HIDE DEF started
  <2>. QED BY <1>1, <1>2, <1>3, OwnGoes, OwnMoves DEF BoxBecomes
<1>4. CASE BoxBecomes(o, NoBox) /\ UNCHANGED runners
  <2>1. RunGoes(o, "start")
    BY <1>1, <1>4, OwnBox DEF RunGoes, LocalInv, LocalTyped, RunnerRecords
  <2>. QED BY <1>1, <1>4, <2>1, OwnGoes, OwnMoves DEF BoxBecomes
<1>5. CASE /\ BoxBecomes(o, Made(PortFor(o)))
           /\ IF PortTaken(PortFor(o)) THEN GivesUp(o) ELSE RunGoes(o, "wait")
  <2>1. Made(PortFor(o)) \in BoxStates /\ Made(PortFor(o)).port = PortFor(o)
          /\ (~ PortTaken(PortFor(o)) => Made(PortFor(o)).state = "running")
    BY OwnBox DEF Made
  <2>2. boxes' \in [Boxes -> BoxStates] /\ Leaves(o)
    BY <1>1, <1>5, <2>1, BoxLeaves
  <2>3. CASE GivesUp(o)
    BY <1>1, <2>2, <2>3, RunEnds
  <2>4. CASE ~ PortTaken(PortFor(o)) /\ RunGoes(o, "wait")
    BY <1>1, <1>5, <2>1, <2>4, OwnGoes, OwnMoves DEF BoxBecomes
  <2>. QED BY <1>5, <2>3, <2>4
<1>. QED BY <1>3, <1>4, <1>5 DEF StartShared

(* Where command o is when it waits and when it makes tables *)
LEMMA Waits ==
  ASSUME LocalInv, NEW o \in Runners, runners[o].at \in {"wait", "tables"}, o \notin displaced
  PROVE  \/ boxes[Own(o)].state = "running" /\ boxes[Own(o)].port = PortFor(o)
         \/ o \in LocalCells /\ boxes[Own(o)].state = "created"
<1>1. PICK i \in 1..2 : Services[i] = runners[o].service
  BY OwnBox DEF LocalServiceNames
<1>2. HasBox(o, runners[o], Services[i], boxes[BoxOf(o, Services[i])])
  BY DEF LocalInv, RunHolds
<1>. QED BY <1>1, <1>2 DEF HasBox, Own, PortFor

LEMMA ReadyKeeps ==
  ASSUME LocalInv, NEW o \in Runners, Ready(o)
  PROVE  LocalInv'
<1>1. /\ runners[o].at = "wait" /\ RunGoes(o, "tables") /\ UNCHANGED <<boxes, displaced>>
  BY DEF Ready
<1>. QED BY <1>1, Waits, OwnStays

LEMMA TimesOutKeeps ==
  ASSUME LocalInv, NEW o \in Runners, TimesOut(o)
  PROVE  LocalInv'
<1>1. runners[o].at = "wait" /\ displaced' = displaced /\ NoBox \in BoxStates
  BY OwnBox DEF TimesOut
<1>2. CASE GivesUp(o) /\ UNCHANGED boxes
  BY <1>1, <1>2, BoxLeaves, RunEnds
<1>3. CASE BoxBecomes(o, NoBox) /\ runners' = [runners EXCEPT ![o].at = "start", ![o].tried = TRUE]
  <2>1. runners' = [runners EXCEPT ![o] = [runners[o] EXCEPT !.at = "start", !.tried = TRUE]]
    BY <1>3 DEF LocalInv, LocalTyped
  <2>. QED BY <1>1, <1>3, <2>1, OwnMoves DEF BoxBecomes
<1>. QED BY <1>2, <1>3 DEF TimesOut

LEMMA EnsureTablesKeeps ==
  ASSUME LocalInv, NEW o \in Runners, EnsureTables(o)
  PROVE  LocalInv'
<1>1. runners[o].at = "tables" /\ displaced' = displaced
  BY DEF EnsureTables
<1>2. CASE GivesUp(o) /\ UNCHANGED boxes
  <2>1. boxes' \in [Boxes -> BoxStates] /\ Leaves(o)
    BY <1>2 DEF LocalInv, LocalTyped, Leaves
  <2>. QED BY <1>1, <1>2, <2>1, RunEnds
<1>3. CASE /\ boxes' = [n \in Boxes |->
                          IF boxes[n].state = "running" /\ boxes[n].port = PortFor(o)
                            THEN [boxes[n] EXCEPT !.tables = @ \union {o}] ELSE boxes[n]]
           /\ runners' = [runners EXCEPT ![o] =
                            IF @.service = Services[1]
                              THEN [@ EXCEPT !.service = Services[2], !.at = "start"]
                              ELSE [@ EXCEPT !.at = IF o = E2e THEN "gateway" ELSE "serving"]]
  <2>1. boxes \in [Boxes -> BoxStates] /\ runners[o] \in RunnerRecords
    BY OwnBox DEF LocalInv, LocalTyped
  <2>2. boxes' \in [Boxes -> BoxStates] /\ Leaves(o)
    <3>1. \A n \in Boxes : [boxes[n] EXCEPT !.tables = @ \union {o}] \in BoxStates
      BY <2>1 DEF BoxStates
    <3>. QED BY <1>3, <2>1, <3>1 DEF Leaves
  <2>3. PICK y : y = (IF runners[o].service = Services[1]
                        THEN [runners[o] EXCEPT !.service = Services[2], !.at = "start"]
                        ELSE [runners[o] EXCEPT !.at = IF o = E2e THEN "gateway" ELSE "serving"])
    OBVIOUS
  <2>4. runners' = [runners EXCEPT ![o] = y]
    BY <1>3, <2>3 DEF LocalInv, LocalTyped
  <2>5. /\ y \in RunnerRecords /\ y.base = runners[o].base /\ y.service = Services[2]
        /\ \/ runners[o].service = Services[1] /\ y.at = "start"
           \/ runners[o].service = Services[2] /\ y.at = (IF o = E2e THEN "gateway" ELSE "serving")
    BY <2>1, <2>3, BoxesApart DEF RunnerRecords, RunSteps
  <2>6. RunOk(o, y)
    BY <2>5 DEF RunOk
  <2>7. ASSUME o \notin displaced, NEW i \in 1..2
        PROVE  HasBox(o, y, Services[i], boxes'[BoxOf(o, Services[i])])
    <3> DEFINE box == boxes[BoxOf(o, Services[i])]
               box2 == boxes'[BoxOf(o, Services[i])]
    <3>1. box \in BoxStates
            /\ box2 = (IF box.state = "running" /\ box.port = PortFor(o)
                         THEN [box EXCEPT !.tables = @ \union {o}] ELSE box)
      BY <1>3, <2>1, OwnBox
    <3>2. HasBox(o, runners[o], Services[i], box)
      BY <1>1, <2>7 DEF LocalInv, RunHolds
    <3>3. Services[i] = runners[o].service => Backs(box2, o, y.base, Services[i])
      <4>1. SUFFICES ASSUME Services[i] = runners[o].service
                     PROVE  Backs(box2, o, y.base, Services[i])
        OBVIOUS
      <4>2. \/ box.state = "running" /\ box.port = PortFor(o)
            \/ o \in LocalCells /\ box.state = "created"
        BY <1>1, <2>7, <4>1, Waits DEF Own
      <4>3. PortFor(o) = HostPort(KindOf(o), y.base, Services[i])
        BY <2>5, <4>1 DEF PortFor
      <4> HIDE DEF box2, box
      <4>. QED BY <3>1, <4>2, <4>3 DEF Backs, BoxStates
    <3>4. Services[i] # runners[o].service /\ runners[o].service = Services[2] => Backs(box2, o, y.base, Services[i])
      <4>1. SUFFICES ASSUME Services[i] # runners[o].service, runners[o].service = Services[2]
                     PROVE  Backs(box2, o, y.base, Services[i])
        OBVIOUS
      <4>2. Services[i] = Services[1]
        BY <4>1
      <4>3. Backs(box, o, y.base, Services[i])
        BY <2>5, <3>2, <4>1, <4>2 DEF HasBox
      <4> HIDE DEF box2, box
      <4>. QED BY <3>1, <4>3 DEF Backs, BoxStates
    <3> HIDE DEF box2, box
    <3>. QED BY <2>5, <3>3, <3>4, BoxesApart DEF HasBox, Past, box2
  <2>. QED BY <1>1, <2>2, <2>4, <2>5, <2>6, <2>7, RunMoves
<1>. QED BY <1>2, <1>3 DEF EnsureTables

(* GatewayStarts, TestsEnd, RemoveBoxes and Signalled *)
LEMMA EndsKeep ==
  ASSUME LocalInv, NEW o \in Runners, GatewayStarts(o) \/ TestsEnd(o) \/ RemoveBoxes(o) \/ Signalled(o)
  PROVE  LocalInv'
<1>1. LocalTyped /\ RunHolds(o)
  BY DEF LocalInv
<1>2. ASSUME UNCHANGED boxes PROVE boxes' \in [Boxes -> BoxStates] /\ Leaves(o)
  BY <1>1, <1>2 DEF LocalTyped, Leaves
<1>3. CASE GatewayStarts(o)
  <2>1. runners[o].at = "gateway" /\ UNCHANGED <<boxes, displaced>>
    BY <1>3 DEF GatewayStarts
  <2>2. CASE GivesUp(o)
    BY <1>2, <2>1, <2>2, RunEnds
  <2>3. CASE RunGoes(o, "serving")
    <3>1. PICK y : y = [runners[o] EXCEPT !.at = "serving"]
      OBVIOUS
    <3>2. runners' = [runners EXCEPT ![o] = y]
      BY <1>1, <2>3, <3>1 DEF RunGoes, LocalTyped
    <3>3. y \in RunnerRecords /\ y.at = "serving" /\ y.base = runners[o].base /\ y.service = runners[o].service
      BY <3>1, OwnBox DEF RunnerRecords, RunSteps
    <3>4. RunOk(o, y)
      BY <3>3 DEF RunOk
    <3>5. ASSUME o \notin displaced, NEW i \in 1..2
          PROVE  HasBox(o, y, Services[i], boxes'[BoxOf(o, Services[i])])
      <4>1. HasBox(o, runners[o], Services[i], boxes[BoxOf(o, Services[i])])
        BY <1>1, <2>1, <3>5 DEF RunHolds
      <4>2. boxes' = boxes
        BY <2>1
      <4>. QED BY <2>1, <3>3, <4>1, <4>2 DEF HasBox, Past
    <3>. QED BY <1>2, <2>1, <3>2, <3>3, <3>4, <3>5, RunMoves
  <2>. QED BY <1>3, <2>2, <2>3 DEF GatewayStarts
<1>4. CASE TestsEnd(o)
  BY <1>2, <1>4, RunEnds DEF TestsEnd
<1>5. CASE RemoveBoxes(o)
  <2>1. runners[o].at = "stopping" /\ UNCHANGED displaced /\ runners' = [runners EXCEPT ![o] = Idle]
    BY <1>5 DEF RemoveBoxes
  <2>2. boxes' \in [Boxes -> BoxStates] /\ Leaves(o)
    BY <1>1, <1>5, <2>1, IdleTyped DEF RemoveBoxes, LocalTyped, Leaves
  <2>. QED BY <2>1, <2>2, RunEnds
<1>6. CASE Signalled(o)
  BY <1>2, <1>6, RunEnds DEF Signalled
<1>. QED BY <1>3, <1>4, <1>5, <1>6

(* A command that begins displaces the stacks that are not idle, and is displaced *)
(* by one that starts.                                                            *)
LEMMA BeginRunKeeps ==
  ASSUME LocalInv, NEW o \in Runners, NEW base \in Bases, BeginRun(o, base)
  PROVE  LocalInv'
<1> DEFINE others == {k \in LocalStacks \ {o} : runners[k].at # "idle"}
<1>1. LocalTyped /\ \A r \in Runners : RunHolds(r) /\ Unjoined(r)
  BY DEF LocalInv
<1>2. PICK y : y = [Idle EXCEPT !.at = "start", !.base = base]
  OBVIOUS
<1>3. /\ runners[o].at = "idle" /\ UNCHANGED boxes
      /\ runners' = [runners EXCEPT ![o] = y]
      /\ displaced' = IF o \notin LocalStacks THEN displaced
                      ELSE (displaced \ {o}) \union others
                             \union {k \in {o} : \E p \in others : Starting(p)}
  BY <1>2 DEF BeginRun
<1>4. y \in RunnerRecords /\ y.at = "start" /\ y.service = Services[1]
  BY <1>2, IdleTyped DEF RunnerRecords, RunSteps, Idle
<1>5. LocalTyped' /\ runners'[o] = y /\ \A r \in Runners \ {o} : runners'[r] = runners[r]
  BY <1>1, <1>3, <1>4 DEF LocalTyped
<1>6. ASSUME NEW r \in Runners PROVE RunHolds(r)'
  <2>1. CASE r = o
    <3>1. RunOk(o, y)
      BY <1>4 DEF RunOk
    <3>2. ASSUME NEW i \in 1..2, NEW box PROVE HasBox(o, y, Services[i], box)
      BY <1>4, BoxesApart DEF HasBox, Past
    <3>. QED BY <1>5, <2>1, <3>1, <3>2 DEF RunHolds
  <2>2. CASE r # o
    <3>1. RunHolds(r) /\ runners'[r] = runners[r] /\ boxes' = boxes
      BY <1>1, <1>3, <1>5, <2>2
    <3>2. r \notin displaced' => r \notin displaced
      BY <1>3, <2>2
    <3>. QED BY <3>1, <3>2 DEF RunHolds
  <2>. QED BY <2>1, <2>2
<1>7. ASSUME NEW r \in Runners PROVE Unjoined(r)'
  <2>1. SUFFICES ASSUME r \in LocalStacks \ displaced', runners'[r].at # "idle", NEW k \in LocalStacks \ {r}
                 PROVE  runners'[k].at \in {"idle", "serving"}
    BY DEF Unjoined
  <2>2. k \in Runners
    BY DEF Runners
  <2>3. CASE r = o
    BY <1>3, <1>5, <2>1, <2>2, <2>3 DEF Starting
  <2>4. CASE r # o
    <3>1. runners[r].at # "idle" /\ o \notin LocalStacks /\ r \notin displaced
      BY <1>3, <1>5, <2>1, <2>4
    <3>. QED BY <1>1, <1>5, <2>1, <2>2, <3>1 DEF Unjoined
  <2>. QED BY <2>3, <2>4
<1>. QED BY <1>5, <1>6, <1>7 DEF LocalInv

LEMMA RebootKeeps == ASSUME LocalInv, Reboot PROVE LocalInv'
<1>1. boxes \in [Boxes -> BoxStates] /\ displaced' = displaced /\ displaced \subseteq LocalStacks
  BY DEF Reboot, LocalInv, LocalTyped
<1>2. boxes' \in [Boxes -> BoxStates]
  <2>1. ASSUME NEW n \in Boxes
        PROVE  [boxes[n] EXCEPT !.state = IF @ = "running" THEN "created" ELSE @] \in BoxStates
    BY <1>1 DEF BoxStates
  <2>. QED BY <1>1, <2>1, IdleTyped DEF Reboot
<1>3. runners' \in [Runners -> RunnerRecords] /\ \A r \in Runners : runners'[r].at = "idle"
  BY IdleTyped DEF Reboot
<1>4. ASSUME NEW r \in Runners PROVE RunHolds(r)' /\ Unjoined(r)'
  BY <1>3 DEF RunHolds, RunOk, Unjoined
<1>. QED BY <1>1, <1>2, <1>3, <1>4 DEF LocalInv, LocalTyped

LEMMA LocalNextKeeps == LocalInv /\ [LocalNext]_localVars => LocalInv'
<1> SUFFICES ASSUME LocalInv, [LocalNext]_localVars PROVE LocalInv'
  OBVIOUS
<1>1. ASSUME NEW o \in Runners, RunnerStep(o) PROVE LocalInv'
  BY <1>1, BeginRunKeeps, StartOwnKeeps, CheckPortKeeps, StartSharedKeeps, ReadyKeeps, TimesOutKeeps,
     EnsureTablesKeeps, EndsKeep DEF RunnerStep
<1>2. CASE UNCHANGED localVars
  BY <1>2 DEF localVars, LocalInv, LocalTyped, RunHolds, Unjoined
<1>. QED BY <1>1, <1>2, RebootKeeps DEF LocalNext

(* What serves on a developer's machine is backed by containers that run on the *)
(* ports that it was given and hold its tables and buckets, whatever commands   *)
(* of the same tool begin, end, fail or are interrupted beside it, but for a    *)
(* stack beside which another stack's `otavia dev` ran.                         *)
THEOREM DataIsOwn == LocalSpec => []OwnData
<1>1. LocalInv => OwnData
  <2> SUFFICES ASSUME LocalInv, NEW r \in Runners \ displaced, runners[r].at = "serving", NEW i \in 1..2
               PROVE  Backed(r, Services[i])
    BY DEF OwnData
  <2>1. HasBox(r, runners[r], Services[i], boxes[BoxOf(r, Services[i])])
    BY DEF LocalInv, RunHolds
  <2>. QED BY <2>1 DEF HasBox, Past, Backs, Backed
<1>. QED BY LocalInitInv, LocalNextKeeps, <1>1, PTL DEF LocalSpec

-----------------------------------------------------------------------------
(* The devbox of one machine: its routes file. *)

RouteMaps == [Hosts -> Ports \union {NoRoute}]
Writing == {"truncates", "writes", "untruncates", "unwrites"}
DevSteps == Writing \union {"idle", "opens", "serves"}
DevRecords == [at : DevSteps, read : RouteMaps, stale : BOOLEAN]
BoxRecords ==
  [at : {"idle", "prepares", "starts", "stops", "removes"}, pids : Nat, turn : Nat]

Registries == [routes : RouteMaps, whole : BOOLEAN, writers : Int]
BoxedRecords == [side : {"any", "routes", "daemons"}, devs : Nat, boxes : Nat, deaths : Nat]

DevboxTyped ==
  /\ registry \in Registries
  /\ devs \in [BoxCells -> DevRecords]
  /\ boxer \in [BoxCommands -> BoxRecords]
  /\ pids \in Nat /\ besides \in BOOLEAN
  /\ boxed \in BoxedRecords

(* What the record d of cell c says of the routes: those that it is about to     *)
(* write are the ones of the file unless it knows better, and once it has        *)
(* written them its host has its port.                                           *)
DevOk(c, d, routes, dist) ==
  /\ d.at \in Writing /\ ~ d.stale => d.read = routes
  /\ d.at \in {"opens", "serves"} /\ ~ dist /\ ~ Shares(c) => routes[BoxHost[c]] = BoxPort[c]

(* While no start and no stop ran beside another, every command that has read   *)
(* the PID file has what it says, the file names every process, and a stop that *)
(* has sent its signals has left none.                                          *)
PidsHold ==
  ~ besides =>
    /\ \A d \in daemons : d.start = pids
    /\ \A b \in BoxCommands : boxer[b].at \in {"starts", "stops", "removes"} => boxer[b].pids = pids
    /\ \A b \in BoxCommands : boxer[b].at = "removes" => daemons = {}

RoutesHold == \A c \in BoxCells : DevOk(c, devs[c], registry.routes, c \in disturbed)

DevboxInv == DevboxTyped /\ RoutesHold /\ PidsHold

LEMMA HostsAndPorts == \A c \in BoxCells : BoxHost[c] \in Hosts /\ BoxPort[c] \in Ports
BY DEF Hosts, Ports

LEMMA BoxedTyped ==
  ASSUME NEW x \in BoxedRecords
  PROVE  /\ \A side \in {"routes", "daemons"} : [x EXCEPT !.side = side, !.boxes = @ + 1] \in BoxedRecords
         /\ [x EXCEPT !.side = "routes", !.devs = @ + 1] \in BoxedRecords
         /\ [x EXCEPT !.deaths = @ + 1] \in BoxedRecords
<1>1. x.devs + 1 \in Nat /\ x.boxes + 1 \in Nat /\ x.deaths + 1 \in Nat
  BY DEF BoxedRecords
<1>2. ASSUME NEW side \in {"routes", "daemons"}
      PROVE  [x EXCEPT !.side = side, !.boxes = @ + 1] \in BoxedRecords
  BY <1>1 DEF BoxedRecords
<1>3. [x EXCEPT !.side = "routes", !.devs = @ + 1] \in BoxedRecords
  BY <1>1 DEF BoxedRecords
<1>4. [x EXCEPT !.deaths = @ + 1] \in BoxedRecords
  BY <1>1 DEF BoxedRecords
<1>. QED BY <1>2, <1>3, <1>4

LEMMA RegistryTyped ==
  ASSUME NEW x \in Registries
  PROVE  /\ [x EXCEPT !.whole = FALSE, !.writers = @ + 1] \in Registries
         /\ [x EXCEPT !.whole = FALSE, !.writers = @ + 1].routes = x.routes
         /\ \A routes \in RouteMaps, w \in BOOLEAN :
              [routes |-> routes, whole |-> w, writers |-> x.writers - 1] \in Registries
<1>1. x.writers + 1 \in Int /\ x.writers - 1 \in Int
  BY DEF Registries
<1>. QED BY <1>1 DEF Registries

LEMMA DevboxInitInv == DevboxInit => DevboxInv
<1> SUFFICES ASSUME DevboxInit PROVE DevboxInv
  OBVIOUS
<1>1. Nothing \in RouteMaps
  BY DEF Nothing, RouteMaps
<1>2. registry \in Registries /\ pids \in Nat /\ besides \in BOOLEAN /\ boxed \in BoxedRecords
  <2>1. registry \in Registries
    BY <1>1 DEF DevboxInit, Registries
  <2>2. pids \in Nat /\ besides \in BOOLEAN
    BY DEF DevboxInit, NoPids
  <2>3. boxed \in BoxedRecords
    BY DEF DevboxInit, BoxedRecords
  <2>. QED BY <2>1, <2>2, <2>3
<1>3. devs \in [BoxCells -> DevRecords] /\ boxer \in [BoxCommands -> BoxRecords]
  BY <1>1 DEF DevboxInit, DevRecords, BoxRecords, BoxIdle, NoPids, DevSteps, Writing
<1>4. RoutesHold
  BY DEF DevboxInit, RoutesHold, DevOk, Writing
<1>5. PidsHold
  BY DEF DevboxInit, PidsHold, BoxIdle
<1>. QED BY <1>2, <1>3, <1>4, <1>5 DEF DevboxInv, DevboxTyped

(* A cell goes on without a write that ends. *)
LEMMA DevMoves ==
  ASSUME DevboxInv, NEW c \in BoxCells, NEW d \in DevRecords,
         devs' = [devs EXCEPT ![c] = d],
         registry' \in Registries,
         registry'.routes = registry.routes,
         boxed' \in BoxedRecords,
         UNCHANGED <<disturbed, daemonVars>>,
         DevOk(c, d, registry.routes, c \in disturbed)
  PROVE  DevboxInv'
<1>1. UNCHANGED <<boxer, daemons, pids, besides>>
  BY DEF daemonVars
<1>2. DevboxTyped'
  BY <1>1 DEF DevboxInv, DevboxTyped
<1>3. PidsHold'
  BY <1>1 DEF DevboxInv, PidsHold
<1>4. ASSUME NEW o \in BoxCells PROVE DevOk(o, devs'[o], registry'.routes, o \in disturbed')
  BY DEF DevboxInv, DevboxTyped, RoutesHold
<1>5. RoutesHold'
  BY <1>4 DEF RoutesHold
<1>. QED BY <1>2, <1>3, <1>5 DEF DevboxInv

LEMMA ReadTyped ==
  ASSUME DevboxInv
  PROVE  ReadRoutes \in RouteMaps /\ (registry.whole => ReadRoutes = registry.routes)
BY DEF ReadRoutes, DevboxInv, DevboxTyped, Registries, Nothing, RouteMaps

(* What the other cells have of the routes once they change *)
LEMMA StaleKeeps ==
  ASSUME NEW d \in [BoxCells -> DevRecords]
  PROVE  /\ Stale(d) \in [BoxCells -> DevRecords]
         /\ \A c \in BoxCells : /\ Stale(d)[c].at = d[c].at
                                /\ d[c].at \in Writing => Stale(d)[c].stale
BY DEF Stale, DevRecords, Writing

(* BeginDev, Truncate, Open, OpenFails, Cleanup and DevKilled *)
DevReads(c) ==
  BeginDev(c) \/ Truncate(c) \/ Open(c) \/ OpenFails(c) \/ Cleanup(c) \/ DevKilled(c)

LEMMA DevReadsKeep ==
  ASSUME DevboxInv, NEW c \in BoxCells, DevReads(c)
  PROVE  DevboxInv'
<1>1. devs \in [BoxCells -> DevRecords] /\ DevOk(c, devs[c], registry.routes, c \in disturbed)
  BY DEF DevboxInv, DevboxTyped, RoutesHold
<1>2. registry \in Registries
  BY DEF DevboxInv, DevboxTyped
<1>3. boxed \in BoxedRecords
  BY DEF DevboxInv, DevboxTyped
<1>4. ASSUME NEW at \in {"truncates", "untruncates"}, Reads(c, at),
             UNCHANGED <<registry, disturbed, daemonVars>>,
             boxed' \in BoxedRecords
      PROVE  DevboxInv'
  <2> DEFINE d == [at |-> at, read |-> ReadRoutes, stale |-> ~registry.whole]
  <2>1. d \in DevRecords
    BY <1>2, ReadTyped DEF DevRecords, DevSteps, Writing
  <2>2. DevOk(c, d, registry.routes, c \in disturbed)
    BY <1>2, ReadTyped DEF DevOk, Writing
  <2>3. devs' = [devs EXCEPT ![c] = d]
    BY <1>4 DEF Reads
  <2> HIDE DEF d
  <2>. QED BY <1>2, <1>4, <2>1, <2>2, <2>3, DevMoves
<1>5. CASE BeginDev(c)
  <2>1. boxed' \in BoxedRecords
    BY <1>3, <1>5, BoxedTyped DEF BeginDev
  <2>. QED BY <1>4, <1>5, <2>1 DEF BeginDev
<1>6. CASE Cleanup(c)
  BY <1>3, <1>4, <1>6 DEF Cleanup
<1>7. CASE Truncate(c)
  <2> DEFINE d == [devs[c] EXCEPT !.at = IF devs[c].at = "truncates" THEN "writes" ELSE "unwrites"]
  <2>1. d \in DevRecords /\ d.read = devs[c].read /\ d.stale = devs[c].stale
          /\ d.at \in {"writes", "unwrites"}
    BY <1>1 DEF DevRecords, DevSteps, Writing
  <2>2. DevOk(c, d, registry.routes, c \in disturbed)
    BY <1>1, <1>7, <2>1 DEF DevOk, Truncate, Writing
  <2>3. devs' = [devs EXCEPT ![c] = d]
    BY <1>1, <1>7 DEF Truncate, At
  <2>4. registry' \in Registries
          /\ registry'.routes = registry.routes
    BY <1>2, <1>7, RegistryTyped DEF Truncate, Truncated
  <2> HIDE DEF d
  <2>. QED BY <1>3, <1>7, <2>1, <2>2, <2>3, <2>4, DevMoves DEF Truncate
<1>8. CASE Open(c)
  <2> DEFINE d == [devs[c] EXCEPT !.at = "serves"]
  <2>1. d \in DevRecords /\ d.at = "serves"
    BY <1>1 DEF DevRecords, DevSteps, Writing
  <2>2. DevOk(c, d, registry.routes, c \in disturbed)
    BY <1>1, <1>8, <2>1 DEF DevOk, Open, Writing
  <2>3. devs' = [devs EXCEPT ![c] = d]
    BY <1>1, <1>8 DEF Open, At
  <2> HIDE DEF d
  <2>. QED BY <1>2, <1>3, <1>8, <2>1, <2>2, <2>3, DevMoves DEF Open
<1>9. CASE OpenFails(c)
  <2> DEFINE d == [devs[c] EXCEPT !.at = "idle"]
  <2>1. d \in DevRecords /\ d.at = "idle"
    BY <1>1 DEF DevRecords, DevSteps, Writing
  <2>2. DevOk(c, d, registry.routes, c \in disturbed)
    BY <2>1 DEF DevOk, Writing
  <2>3. devs' = [devs EXCEPT ![c] = d]
    BY <1>1, <1>9 DEF OpenFails, At
  <2> HIDE DEF d
  <2>. QED BY <1>2, <1>3, <1>9, <2>1, <2>2, <2>3, DevMoves DEF OpenFails
<1>10. CASE DevKilled(c)
  <2> DEFINE d == [at |-> "idle", read |-> Nothing, stale |-> FALSE]
  <2>1. d \in DevRecords /\ d.at = "idle"
    BY DEF DevRecords, DevSteps, Writing, Nothing, RouteMaps
  <2>2. DevOk(c, d, registry.routes, c \in disturbed)
    BY <2>1 DEF DevOk, Writing
  <2>3. devs' = [devs EXCEPT ![c] = d]
    BY <1>10 DEF DevKilled
  <2>4. registry' \in Registries
          /\ registry'.routes = registry.routes
    <3>1. PICK n \in Int : registry' = [registry EXCEPT !.writers = n]
      <4>1. registry.writers \in Int /\ registry.writers - 1 \in Int
        BY <1>2 DEF Registries
      <4>. QED BY <1>10, <4>1 DEF DevKilled
    <3>. QED BY <1>2, <3>1 DEF Registries
  <2>5. boxed' \in BoxedRecords
    BY <1>3, <1>10, BoxedTyped DEF DevKilled
  <2> HIDE DEF d
  <2>. QED BY <1>10, <2>1, <2>2, <2>3, <2>4, <2>5, DevMoves DEF DevKilled
<1>. QED BY <1>5, <1>6, <1>7, <1>8, <1>9, <1>10 DEF DevReads

(* A write ends. *)
LEMMA WriteRoutesKeeps ==
  ASSUME DevboxInv, NEW c \in BoxCells, WriteRoutes(c)
  PROVE  DevboxInv'
<1> DEFINE d == devs[c]
           adds == d.at = "writes"
           e == [devs EXCEPT ![c].at = IF adds THEN "opens" ELSE "idle", ![c].read = Nothing]
           routes == IF adds THEN Registered(c) ELSE Unregistered(c)
<1>1. devs \in [BoxCells -> DevRecords] /\ d \in DevRecords /\ registry.routes \in RouteMaps
  BY DEF DevboxInv, DevboxTyped, Registries
<1>2. e \in [BoxCells -> DevRecords]
  BY <1>1 DEF DevRecords, DevSteps, Writing, RouteMaps, Nothing
<1>3. e[c].at = (IF adds THEN "opens" ELSE "idle") /\ \A o \in BoxCells \ {c} : e[o] = devs[o]
  BY <1>1 DEF DevRecords
<1>4. routes \in RouteMaps
  BY <1>1, HostsAndPorts DEF Registered, Unregistered, RouteMaps, DevRecords
<1>5. registry' \in Registries /\ registry'.routes = routes
  <2>1. registry \in Registries
    BY DEF DevboxInv, DevboxTyped
  <2>2. PICK w \in BOOLEAN : registry' = [routes |-> routes, whole |-> w, writers |-> registry.writers - 1]
    BY DEF WriteRoutes, Filled
  <2>. QED BY <1>4, <2>1, <2>2, RegistryTyped
<1>6. devs' = Stale(e) /\ d.at \in {"writes", "unwrites"}
  BY DEF WriteRoutes
<1>7. \A o \in BoxCells \ {c} : BoxHost[o] # BoxHost[c] => routes[BoxHost[o]] = d.read[BoxHost[o]]
  BY <1>1, HostsAndPorts DEF Registered, Unregistered, RouteMaps, DevRecords
<1>8. adds => routes[BoxHost[c]] = BoxPort[c]
  BY <1>1, HostsAndPorts DEF Registered, RouteMaps, DevRecords
<1>9. \A o \in BoxCells \ {c} : o \notin disturbed' => o \notin disturbed /\ ~ d.stale
  BY DEF WriteRoutes
<1>10. ~ d.stale => d.read = registry.routes
  BY <1>6 DEF DevboxInv, RoutesHold, DevOk, Writing
<1> HIDE DEF e, routes
<1>11. \A o \in BoxCells : /\ devs'[o].at = e[o].at
                           /\ e[o].at \in Writing => devs'[o].stale
  BY <1>2, <1>6, StaleKeeps
<1>12. ASSUME NEW o \in BoxCells PROVE DevOk(o, devs'[o], routes, o \in disturbed')
  <2>1. CASE o = c
    BY <1>3, <1>8, <1>11, <2>1 DEF DevOk, Writing
  <2>2. CASE o # c
    <3>1. SUFFICES ASSUME devs'[o].at \in {"opens", "serves"}, o \notin disturbed', ~ Shares(o)
                   PROVE  routes[BoxHost[o]] = BoxPort[o]
      BY <1>11 DEF DevOk
    <3>2. devs[o].at \in {"opens", "serves"} /\ o \notin disturbed /\ ~ d.stale
      BY <1>3, <1>9, <1>11, <2>2, <3>1
    <3>3. registry.routes[BoxHost[o]] = BoxPort[o]
      BY <3>1, <3>2 DEF DevboxInv, RoutesHold, DevOk
    <3>4. BoxHost[o] # BoxHost[c]
      BY <2>2, <3>1 DEF Shares
    <3>. QED BY <1>7, <1>10, <2>2, <3>2, <3>3, <3>4
  <2>. QED BY <2>1, <2>2
<1>13. UNCHANGED <<boxer, daemons, pids, besides, boxed>>
  BY DEF WriteRoutes, daemonVars
<1>14. DevboxTyped'
  BY <1>2, <1>5, <1>6, <1>13, StaleKeeps DEF DevboxInv, DevboxTyped
<1>15. PidsHold'
  BY <1>13 DEF DevboxInv, PidsHold
<1>16. RoutesHold'
  BY <1>5, <1>12 DEF RoutesHold
<1>. QED BY <1>14, <1>15, <1>16 DEF DevboxInv

(* A devbox command begins or goes on. *)
LEMMA BoxTyped ==
  ASSUME DevboxInv, NEW b \in BoxCommands,
         NEW at \in {"idle", "prepares", "starts", "stops", "removes"}, NEW side \in {"routes", "daemons"}
  PROVE  /\ BoxIdle \in BoxRecords
         /\ [boxer[b] EXCEPT !.at = at] \in BoxRecords
         /\ [boxer EXCEPT ![b].at = at] = [boxer EXCEPT ![b] = [boxer[b] EXCEPT !.at = at]]
         /\ BeginBox(b, at, side) =>
              \E r \in BoxRecords : /\ boxer' = [boxer EXCEPT ![b] = r] /\ r.at = at /\ r.pids = pids
                                    /\ boxed' \in BoxedRecords
<1>1. boxer \in [BoxCommands -> BoxRecords] /\ pids \in Nat
        /\ boxed \in BoxedRecords
  BY DEF DevboxInv, DevboxTyped
<1>2. BoxIdle \in BoxRecords /\ [boxer[b] EXCEPT !.at = at] \in BoxRecords
  BY <1>1 DEF BoxIdle, NoPids, BoxRecords
<1>3. [boxer EXCEPT ![b].at = at] = [boxer EXCEPT ![b] = [boxer[b] EXCEPT !.at = at]]
  BY <1>1
<1>4. ASSUME BeginBox(b, at, side)
      PROVE  \E r \in BoxRecords : /\ boxer' = [boxer EXCEPT ![b] = r] /\ r.at = at /\ r.pids = pids
                                   /\ boxed' \in BoxedRecords
  <2> DEFINE r == [at |-> at, pids |-> pids, turn |-> boxed.boxes + 1]
  <2>1. r \in BoxRecords /\ r.at = at /\ r.pids = pids
    <3>1. boxed.boxes + 1 \in Nat
      BY <1>1 DEF BoxedRecords
    <3>. QED BY <1>1, <3>1 DEF BoxRecords
  <2>2. boxer' = [boxer EXCEPT ![b] = r]
    BY <1>4 DEF BeginBox
  <2>3. boxed' \in BoxedRecords
    BY <1>1, <1>4, BoxedTyped DEF BeginBox
  <2> HIDE DEF r
  <2>. QED BY <2>1, <2>2, <2>3
<1>. QED BY <1>2, <1>3, <1>4

(* prepare empties the routes: no cell is promised its host after that. *)
LEMMA PreparesKeep ==
  ASSUME DevboxInv, NEW b \in BoxCommands, Prepare(b) \/ Prepared(b)
  PROVE  DevboxInv'
<1>1. boxer \in [BoxCommands -> BoxRecords] /\ devs \in [BoxCells -> DevRecords]
        /\ registry \in Registries
  BY DEF DevboxInv, DevboxTyped
<1>2. UNCHANGED <<daemons, pids, besides>>
  BY DEF Prepare, Prepared
<1>3. ASSUME NEW r \in BoxRecords, boxer' = [boxer EXCEPT ![b] = r],
             r.at \in {"idle", "prepares"}
      PROVE  PidsHold'
  <2>1. \A o \in BoxCommands : (o = b /\ boxer'[o] = r) \/ boxer'[o] = boxer[o]
    BY <1>1, <1>3
  <2>. QED BY <1>2, <1>3, <2>1 DEF DevboxInv, PidsHold
<1>4. CASE Prepare(b)
  <2>1. PICK r \in BoxRecords :
          /\ boxer' = [boxer EXCEPT ![b] = r] /\ r.at = "prepares"
          /\ boxed' \in BoxedRecords
    BY <1>4, BoxTyped DEF Prepare
  <2>2. registry' \in Registries
          /\ registry'.routes = registry.routes /\ UNCHANGED <<devs, disturbed>>
    BY <1>1, <1>4, RegistryTyped DEF Prepare, Truncated
  <2>3. DevboxTyped'
    BY <1>1, <1>2, <2>1, <2>2 DEF DevboxInv, DevboxTyped
  <2>4. RoutesHold'
    BY <2>2 DEF DevboxInv, RoutesHold
  <2>. QED BY <1>3, <2>1, <2>3, <2>4 DEF DevboxInv
<1>5. CASE Prepared(b)
  <2>1. BoxIdle \in BoxRecords /\ BoxIdle.at = "idle" /\ boxer' = [boxer EXCEPT ![b] = BoxIdle]
    BY <1>5 DEF Prepared, BoxIdle, BoxRecords, NoPids
  <2>2. registry' \in Registries
    <3>1. PICK w \in BOOLEAN : registry' = [routes |-> Nothing, whole |-> w, writers |-> registry.writers - 1]
      BY <1>5 DEF Prepared, Filled
    <3>2. Nothing \in RouteMaps
      BY DEF Nothing, RouteMaps
    <3>. QED BY <1>1, <3>1, <3>2, RegistryTyped
  <2>3. devs' = Stale(devs) /\ disturbed' = BoxCells /\ UNCHANGED boxed
    BY <1>5 DEF Prepared
  <2>4. DevboxTyped'
    BY <1>1, <1>2, <2>1, <2>2, <2>3, StaleKeeps DEF DevboxInv, DevboxTyped
  <2>5. RoutesHold'
    BY <1>1, <2>3, StaleKeeps DEF RoutesHold, DevOk
  <2>. QED BY <1>3, <2>1, <2>4, <2>5 DEF DevboxInv
<1>. QED BY <1>4, <1>5

-----------------------------------------------------------------------------
(* The daemons *)

DaemonStep(b) ==
  BeginStart(b) \/ AlreadyRuns(b) \/ Spawn(b) \/ Stop(b) \/ Kill(b) \/ RemovePids(b)

LEMMA DaemonsKeepRoutes ==
  ASSUME DevboxInv, UNCHANGED fileVars
  PROVE  RoutesHold'
BY DEF DevboxInv, RoutesHold, fileVars

LEMMA DaemonStepTyped ==
  ASSUME DevboxInv, NEW b \in BoxCommands, DaemonStep(b)
  PROVE  DevboxTyped' /\ RoutesHold'
<1>1. boxer \in [BoxCommands -> BoxRecords] /\ pids \in Nat /\ besides \in BOOLEAN
  BY DEF DevboxInv, DevboxTyped
<1>2. UNCHANGED fileVars
  BY DEF DaemonStep, BeginStart, AlreadyRuns, Spawn, Stop, Kill, RemovePids
<1>3. \E r \in BoxRecords : boxer' = [boxer EXCEPT ![b] = r]
  BY BoxTyped DEF DaemonStep, BeginStart, AlreadyRuns, Spawn, Stop, Kill, RemovePids
<1>4. boxed' \in BoxedRecords
  BY BoxTyped
     DEF DevboxInv, DevboxTyped, DaemonStep, BeginStart, AlreadyRuns, Spawn, Stop, Kill, RemovePids
<1>5. pids' \in Nat
  BY <1>1 DEF DaemonStep, BeginStart, AlreadyRuns, Spawn, Stop, Kill, RemovePids, NoPids, BoxRecords
<1>6. besides' \in BOOLEAN
  BY <1>1 DEF DaemonStep, BeginStart, AlreadyRuns, Spawn, Stop, Kill, RemovePids
<1>7. DevboxTyped'
  BY <1>1, <1>2, <1>3, <1>4, <1>5, <1>6 DEF DevboxInv, DevboxTyped, fileVars
<1>. QED BY <1>2, <1>7, DaemonsKeepRoutes

LEMMA DaemonStepKeeps ==
  ASSUME DevboxInv, NEW b \in BoxCommands, DaemonStep(b)
  PROVE  DevboxInv'
<1> SUFFICES PidsHold'
  BY DaemonStepTyped DEF DevboxInv
<1>1. boxer \in [BoxCommands -> BoxRecords]
  BY DEF DevboxInv, DevboxTyped
<1>2. ASSUME NEW r \in BoxRecords, boxer' = [boxer EXCEPT ![b] = r],
             UNCHANGED <<daemons, pids, besides>>,
             r.at \in {"idle", "starts", "stops"}, r.at # "idle" => r.pids = pids
      PROVE  PidsHold'
  <2>1. \A o \in BoxCommands : (o = b /\ boxer'[o] = r) \/ boxer'[o] = boxer[o]
    BY <1>1, <1>2
  <2>. QED BY <1>2, <2>1 DEF DevboxInv, PidsHold
<1>3. CASE BeginStart(b) \/ Stop(b)
  <2>1. UNCHANGED <<daemons, pids, besides>>
          /\ (BeginBox(b, "starts", "daemons") \/ BeginBox(b, "stops", "daemons"))
    BY <1>3 DEF BeginStart, Stop
  <2>2. PICK r \in BoxRecords : /\ boxer' = [boxer EXCEPT ![b] = r]
                                /\ r.at \in {"starts", "stops"} /\ r.pids = pids
    BY <2>1, BoxTyped
  <2>. QED BY <1>2, <2>1, <2>2
<1>4. CASE AlreadyRuns(b)
  <2>1. BoxIdle \in BoxRecords /\ BoxIdle.at = "idle"
    BY DEF BoxIdle, NoPids, BoxRecords
  <2>2. boxer' = [boxer EXCEPT ![b] = BoxIdle] /\ UNCHANGED <<daemons, pids, besides>>
    BY <1>4 DEF AlreadyRuns
  <2>. QED BY <1>2, <2>1, <2>2
<1>5. CASE Spawn(b)
  <2> SUFFICES ASSUME ~ besides' PROVE PidsHold'
    BY DaemonStepTyped DEF PidsHold, DevboxTyped
  <2>1. ~ besides /\ Alone(b)
    BY <1>5 DEF Spawn
  <2>2. \A o \in BoxCommands : boxer'[o].at = "idle"
    BY <1>1, <1>5, <2>1 DEF Spawn, Alone, BoxIdle
  <2>3. boxer[b].pids = pids /\ \A d \in daemons : d.start = pids
    BY <1>5, <2>1 DEF DevboxInv, PidsHold, Spawn
  <2>4. daemons = {}
    BY <1>5, <2>3 DEF Spawn, RunsAlready
  <2>5. \A d \in daemons' : d.start = pids'
    BY <1>5, <2>4 DEF Spawn
  <2>. QED BY <2>2, <2>5 DEF PidsHold
<1>6. CASE Kill(b)
  <2> SUFFICES ASSUME ~ besides' PROVE PidsHold'
    BY DaemonStepTyped DEF PidsHold, DevboxTyped
  <2>1. ~ besides /\ Alone(b)
    BY <1>6 DEF Kill
  <2>2. boxer[b].pids = pids /\ \A d \in daemons : d.start = pids
    BY <1>6, <2>1 DEF DevboxInv, PidsHold, Kill
  <2>3. daemons' = {} /\ pids' = pids
    BY <1>6, <2>2 DEF Kill
  <2>4. boxer'[b].pids = pids /\ \A o \in BoxCommands \ {b} : boxer'[o].at = "idle"
    BY <1>1, <1>6, <2>1, <2>2 DEF Kill, Alone, BoxRecords
  <2>. QED BY <2>3, <2>4 DEF PidsHold
<1>7. CASE RemovePids(b)
  <2> SUFFICES ASSUME ~ besides' PROVE PidsHold'
    BY DaemonStepTyped DEF PidsHold, DevboxTyped
  <2>1. ~ besides /\ Alone(b)
    BY <1>7 DEF RemovePids
  <2>2. daemons' = {}
    BY <1>7, <2>1 DEF DevboxInv, PidsHold, RemovePids
  <2>3. \A o \in BoxCommands : boxer'[o].at = "idle"
    BY <1>1, <1>7, <2>1 DEF RemovePids, Alone, BoxIdle
  <2>. QED BY <2>2, <2>3 DEF PidsHold
<1>. QED BY <1>3, <1>4, <1>5, <1>6, <1>7 DEF DaemonStep

LEMMA DaemonDiesKeeps ==
  ASSUME DevboxInv, NEW d \in daemons, DaemonDies(d)
  PROVE  DevboxInv'
<1>1. UNCHANGED <<registry, devs, disturbed, boxer, pids, besides>> /\ daemons' = daemons \ {d}
  BY DEF DaemonDies, fileVars
<1>2. DevboxTyped'
  BY <1>1, BoxedTyped DEF DevboxInv, DevboxTyped, DaemonDies
<1>3. PidsHold'
  BY <1>1 DEF DevboxInv, PidsHold
<1>4. RoutesHold'
  BY <1>1 DEF DevboxInv, RoutesHold
<1>. QED BY <1>2, <1>3, <1>4 DEF DevboxInv

(* A cell that serves is what its host leads to and every process can be        *)
(* stopped, however many cells and commands run on the machine, with the        *)
(* exceptions that HostsLeadHome and DaemonsCanBeStopped name.                  *)
THEOREM DevboxHolds == DevboxSpec => []DevboxStands
<1>1. DevboxInv /\ [DevboxNext]_devboxVars => DevboxInv'
  <2> SUFFICES ASSUME DevboxInv, [DevboxNext]_devboxVars PROVE DevboxInv'
    OBVIOUS
  <2>1. CASE UNCHANGED devboxVars
    BY <2>1 DEF devboxVars, DevboxInv, DevboxTyped, RoutesHold, PidsHold
  <2>. QED BY <2>1, DevReadsKeep, WriteRoutesKeeps, PreparesKeep, DaemonStepKeeps, DaemonDiesKeeps
          DEF DevboxNext, DevStep, BoxStep, DevReads, DaemonStep
<1>2. DevboxInv => HostsLeadHome
  <2> SUFFICES ASSUME DevboxInv, NEW c \in BoxCells \ disturbed, devs[c].at = "serves",
                      registry.whole, ~ Shares(c)
               PROVE  Led(BoxHost[c]) = {c}
    BY DEF HostsLeadHome
  <2>1. ReadRoutes[BoxHost[c]] = BoxPort[c]
    BY DEF DevboxInv, RoutesHold, DevOk, ReadRoutes
  <2>2. \A o \in BoxCells : BoxPort[o] = BoxPort[c] => o = c
    BY DEF Shares
  <2>. QED BY <2>1, <2>2 DEF Led
<1>3. DevboxInv => DaemonsCanBeStopped
  BY DEF DevboxInv, PidsHold, DaemonsCanBeStopped
<1>. QED BY DevboxInitInv, <1>1, <1>2, <1>3, PTL DEF DevboxSpec, DevboxStands

-----------------------------------------------------------------------------
(* The runs of deploy: the steps of a command, and the one that follows each *)

DeploySteps ==
  {"idle", "ask", "certificate", "upload", "secrets", "look", "check", "deploy", "readUrls",
   "addUrls", "statics", "frontend", "invalidate", "dns", "complete"}

LEMMA FollowsAt ==
  ASSUME NEW n \in Nat, NEW steps, DOMAIN steps = 1..n, NEW i \in 1..n,
         \A j \in 1..n : steps[j] = steps[i] => j = i
  PROVE  Follows(steps, steps[i]) = steps[i + 1]
<1>1. \E j \in DOMAIN steps : steps[j] = steps[i]
  OBVIOUS
<1>2. (CHOOSE j \in DOMAIN steps : steps[j] = steps[i]) = i
  BY <1>1
<1>. QED BY <1>2 DEF Follows

LEMMA CellFollows ==
  ASSUME command = "cell"
  PROVE  /\ NextStep("certificate") = "upload" /\ NextStep("upload") = "secrets"
         /\ NextStep("secrets") = "look" /\ NextStep("deploy") = "readUrls"
         /\ NextStep("addUrls") = "statics" /\ NextStep("statics") = "frontend"
         /\ NextStep("frontend") = "invalidate" /\ NextStep("invalidate") = "dns"
         /\ NextStep("dns") = "complete" /\ Head(Steps) = "certificate"
<1> DEFINE s == CellSteps
<1>1. DOMAIN s = 1..13
  BY DEF CellSteps
<1>2. /\ s[1] = "certificate" /\ s[2] = "upload" /\ s[3] = "secrets" /\ s[4] = "look"
      /\ s[5] = "check" /\ s[6] = "deploy" /\ s[7] = "readUrls" /\ s[8] = "addUrls"
      /\ s[9] = "statics" /\ s[10] = "frontend" /\ s[11] = "invalidate" /\ s[12] = "dns"
      /\ s[13] = "complete"
  BY DEF CellSteps
<1>3. Steps = s /\ Head(s) = "certificate"
  BY DEF Steps, CellSteps
<1> HIDE DEF s
<1>4. \A i, j \in 1..13 : s[i] = s[j] => i = j
  BY <1>2
<1>5. ASSUME NEW i \in 1..13 PROVE Follows(s, s[i]) = s[i + 1]
  <2>1. 13 \in Nat /\ \A j \in 1..13 : s[j] = s[i] => j = i
    BY <1>4
  <2>. QED BY <1>1, <2>1, FollowsAt
<1>6. /\ Follows(s, s[1]) = s[2] /\ Follows(s, s[2]) = s[3] /\ Follows(s, s[3]) = s[4]
      /\ Follows(s, s[6]) = s[7] /\ Follows(s, s[8]) = s[9] /\ Follows(s, s[9]) = s[10]
      /\ Follows(s, s[10]) = s[11] /\ Follows(s, s[11]) = s[12] /\ Follows(s, s[12]) = s[13]
  BY <1>5
<1>. QED BY <1>2, <1>3, <1>6 DEF NextStep

(* What the elements of two sequences joined are *)
LEMMA Joined ==
  ASSUME NEW T, NEW f \in Seq(T), NEW g \in Seq(T)
  PROVE  /\ f \o g \in Seq(T) /\ Len(f \o g) = Len(f) + Len(g)
         /\ DOMAIN (f \o g) = 1..(Len(f) + Len(g))
         /\ Len(f) > 0 => Head(f \o g) = f[1]
         /\ \A i \in 1..Len(f) : (f \o g)[i] = f[i]
         /\ \A i \in 1..(Len(f) + Len(g)) : i > Len(f) => (f \o g)[i] = g[i - Len(f)]
<1>1. f \o g \in Seq(T) /\ Len(f \o g) = Len(f) + Len(g)
  OBVIOUS
<1>2. DOMAIN (f \o g) = 1..(Len(f) + Len(g))
  BY <1>1, LenProperties
<1>3. \A i \in 1..(Len(f) + Len(g)) : (f \o g)[i] = IF i <= Len(f) THEN f[i] ELSE g[i - Len(f)]
  BY ConcatProperties
<1>4. ASSUME Len(f) > 0 PROVE Head(f \o g) = f[1]
  <2> DEFINE w == f \o g
  <2>1. w \in Seq(T) /\ Len(w) > 0 /\ w[1] = f[1]
    BY <1>1, <1>3, <1>4
  <2> HIDE DEF w
  <2>2. Head(w) = w[1]
    BY <2>1
  <2>. QED BY <2>1, <2>2 DEF w
<1>. QED BY <1>1, <1>2, <1>3, <1>4

LEMMA OtaviaSteps ==
  LET s == OtaviaPrepares \o OtaviaPublishes IN
  /\ DOMAIN s = 1..7 /\ Head(s) = "upload"
  /\ s[1] = "upload" /\ s[2] = "certificate" /\ s[3] = "deploy" /\ s[4] = "frontend"
  /\ s[5] = "invalidate" /\ s[6] = "dns" /\ s[7] = "complete"
<1> DEFINE s == OtaviaPrepares \o OtaviaPublishes
           o == OtaviaPrepares
           u == OtaviaPublishes
<1>1. o \in Seq(DeploySteps) /\ Len(o) = 2 /\ u \in Seq(DeploySteps) /\ Len(u) = 5
  BY DEF OtaviaPrepares, OtaviaPublishes, DeploySteps
<1>2. o[1] = "upload" /\ o[2] = "certificate"
  BY DEF OtaviaPrepares
<1>3. /\ u[1] = "deploy" /\ u[2] = "frontend" /\ u[3] = "invalidate" /\ u[4] = "dns"
      /\ u[5] = "complete"
  BY DEF OtaviaPublishes
<1>4. s = o \o u
  OBVIOUS
<1> HIDE DEF s, o, u
<1>5. DOMAIN s = 1..(Len(o) + Len(u)) /\ (Len(o) > 0 => Head(s) = o[1])
  BY <1>1, <1>4, Joined
<1>6. \A i \in 1..Len(o) : s[i] = o[i]
  BY <1>1, <1>4, Joined
<1>7. \A i \in 1..(Len(o) + Len(u)) : i > Len(o) => s[i] = u[i - Len(o)]
  BY <1>1, <1>4, Joined
<1>8. DOMAIN s = 1..7 /\ Head(s) = o[1] /\ s[1] = o[1] /\ s[2] = o[2]
  BY <1>1, <1>5, <1>6
<1>9. \A i \in 1..7 : i > 2 => s[i] = u[i - 2]
  BY <1>1, <1>7
<1>10. s[3] = u[1] /\ s[4] = u[2] /\ s[5] = u[3] /\ s[6] = u[4] /\ s[7] = u[5]
  BY <1>9
<1>. QED BY <1>2, <1>3, <1>8, <1>10 DEF s

LEMMA PlatformSteps ==
  LET s == PlatformPrepares \o PlatformPublishes \o PlatformRegisters IN
  /\ DOMAIN s = 1..11 /\ Head(s) = "certificate"
  /\ s[1] = "certificate" /\ s[2] = "upload" /\ s[3] = "look" /\ s[4] = "check"
  /\ s[5] = "deploy" /\ s[6] = "frontend" /\ s[7] = "invalidate" /\ s[8] = "dns"
  /\ s[9] = "readUrls" /\ s[10] = "addUrls" /\ s[11] = "complete"
<1> DEFINE s == PlatformPrepares \o PlatformPublishes \o PlatformRegisters
           t == PlatformPrepares \o PlatformPublishes
           p == PlatformPrepares
           q == PlatformPublishes
           r == PlatformRegisters
<1>1. p \in Seq(DeploySteps) /\ Len(p) = 4 /\ q \in Seq(DeploySteps) /\ Len(q) = 4
  BY DEF PlatformPrepares, PlatformPublishes, DeploySteps
<1>2. r \in Seq(DeploySteps) /\ Len(r) = 3
  BY DEF PlatformRegisters, DeploySteps
<1>3. /\ p[1] = "certificate" /\ p[2] = "upload" /\ p[3] = "look" /\ p[4] = "check"
      /\ q[1] = "deploy" /\ q[2] = "frontend" /\ q[3] = "invalidate" /\ q[4] = "dns"
      /\ r[1] = "readUrls" /\ r[2] = "addUrls" /\ r[3] = "complete"
  BY DEF PlatformPrepares, PlatformPublishes, PlatformRegisters
<1>4. t = p \o q /\ s = t \o r
  OBVIOUS
<1> HIDE DEF s, t, p, q, r
<1>5. t \in Seq(DeploySteps) /\ Len(t) = Len(p) + Len(q) /\ (Len(p) > 0 => Head(t) = p[1])
  BY <1>1, <1>4, Joined
<1>6. \A i \in 1..Len(p) : t[i] = p[i]
  BY <1>1, <1>4, Joined
<1>7. \A i \in 1..(Len(p) + Len(q)) : i > Len(p) => t[i] = q[i - Len(p)]
  BY <1>1, <1>4, Joined
<1>8. Len(t) = 8 /\ t[1] = p[1] /\ t[2] = p[2] /\ t[3] = p[3] /\ t[4] = p[4]
  BY <1>1, <1>5, <1>6
<1>9. \A i \in 1..8 : i > 4 => t[i] = q[i - 4]
  BY <1>1, <1>7
<1>10. t[5] = q[1] /\ t[6] = q[2] /\ t[7] = q[3] /\ t[8] = q[4]
  BY <1>9
<1>11. t \in Seq(DeploySteps) /\ r \in Seq(DeploySteps) /\ s = t \o r
  BY <1>2, <1>4, <1>5
<1>12. DOMAIN s = 1..(Len(t) + Len(r)) /\ (Len(t) > 0 => Head(s) = t[1])
  BY <1>11, Joined
<1>13. \A i \in 1..Len(t) : s[i] = t[i]
  BY <1>11, Joined
<1>14. \A i \in 1..(Len(t) + Len(r)) : i > Len(t) => s[i] = r[i - Len(t)]
  BY <1>11, Joined
<1>15. DOMAIN s = 1..11 /\ Head(s) = t[1]
  BY <1>2, <1>8, <1>12
<1>16. /\ s[1] = t[1] /\ s[2] = t[2] /\ s[3] = t[3] /\ s[4] = t[4]
       /\ s[5] = t[5] /\ s[6] = t[6] /\ s[7] = t[7] /\ s[8] = t[8]
  BY <1>8, <1>13
<1>17. \A i \in 1..11 : i > 8 => s[i] = r[i - 8]
  BY <1>2, <1>8, <1>14
<1>18. s[9] = r[1] /\ s[10] = r[2] /\ s[11] = r[3]
  BY <1>17
<1>. QED BY <1>3, <1>8, <1>10, <1>15, <1>16, <1>18 DEF s

LEMMA PlatformFollows ==
  ASSUME command = "platform"
  PROVE  /\ NextStep("certificate") = "upload" /\ NextStep("upload") = "look"
         /\ NextStep("deploy") = "frontend" /\ NextStep("frontend") = "invalidate"
         /\ NextStep("invalidate") = "dns" /\ NextStep("dns") = "readUrls"
         /\ NextStep("addUrls") = "complete" /\ Head(Steps) = "certificate"
<1> DEFINE s == PlatformPrepares \o PlatformPublishes \o PlatformRegisters
<1>1. Steps = s
  BY DEF Steps
<1>2. /\ DOMAIN s = 1..11 /\ Head(s) = "certificate"
      /\ s[1] = "certificate" /\ s[2] = "upload" /\ s[3] = "look" /\ s[4] = "check"
      /\ s[5] = "deploy" /\ s[6] = "frontend" /\ s[7] = "invalidate" /\ s[8] = "dns"
      /\ s[9] = "readUrls" /\ s[10] = "addUrls" /\ s[11] = "complete"
  BY PlatformSteps
<1> HIDE DEF s
<1>3. \A i, j \in 1..11 : s[i] = s[j] => i = j
  BY <1>2
<1>4. ASSUME NEW i \in 1..11 PROVE Follows(s, s[i]) = s[i + 1]
  <2>1. 11 \in Nat /\ \A j \in 1..11 : s[j] = s[i] => j = i
    BY <1>3
  <2>. QED BY <1>2, <2>1, FollowsAt
<1>5. /\ Follows(s, s[1]) = s[2] /\ Follows(s, s[2]) = s[3] /\ Follows(s, s[5]) = s[6]
      /\ Follows(s, s[6]) = s[7] /\ Follows(s, s[7]) = s[8] /\ Follows(s, s[8]) = s[9]
      /\ Follows(s, s[10]) = s[11]
  BY <1>4
<1>. QED BY <1>1, <1>2, <1>5 DEF NextStep

LEMMA OtaviaFollows ==
  ASSUME command = "otavia"
  PROVE  /\ NextStep("upload") = "certificate" /\ NextStep("certificate") = "deploy"
         /\ NextStep("deploy") = "frontend" /\ NextStep("frontend") = "invalidate"
         /\ NextStep("invalidate") = "dns" /\ NextStep("dns") = "complete"
         /\ Head(Steps) = "upload"
<1> DEFINE s == OtaviaPrepares \o OtaviaPublishes
<1>1. Steps = s
  BY DEF Steps
<1>2. /\ DOMAIN s = 1..7 /\ Head(s) = "upload"
      /\ s[1] = "upload" /\ s[2] = "certificate" /\ s[3] = "deploy" /\ s[4] = "frontend"
      /\ s[5] = "invalidate" /\ s[6] = "dns" /\ s[7] = "complete"
  BY OtaviaSteps
<1> HIDE DEF s
<1>3. \A i, j \in 1..7 : s[i] = s[j] => i = j
  BY <1>2
<1>4. ASSUME NEW i \in 1..7 PROVE Follows(s, s[i]) = s[i + 1]
  <2>1. 7 \in Nat /\ \A j \in 1..7 : s[j] = s[i] => j = i
    BY <1>3
  <2>. QED BY <1>2, <2>1, FollowsAt
<1>5. /\ Follows(s, s[1]) = s[2] /\ Follows(s, s[2]) = s[3] /\ Follows(s, s[3]) = s[4]
      /\ Follows(s, s[4]) = s[5] /\ Follows(s, s[5]) = s[6] /\ Follows(s, s[6]) = s[7]
  BY <1>4
<1>. QED BY <1>1, <1>2, <1>5 DEF NextStep

-----------------------------------------------------------------------------
(* What a run of deploy may rely on *)

Commands == {"cell", "platform", "otavia"}
Findings == {NoFinding, "stack", "exists", "replaced", "alias"}
DeployerRecords ==
  [at : DeploySteps, seen : BOOLEAN, blind : BOOLEAN, finding : Findings, target : Buckets, read : SUBSET Deployers]

(* The steps of a command; those before its code, or its secret, is there; and  *)
(* those after the invalidation.                                                *)
StepsNow ==
  IF command = "cell" THEN DeploySteps
  ELSE IF command = "platform" THEN DeploySteps \ {"secrets", "statics"}
  ELSE {"idle", "upload", "certificate", "deploy", "frontend", "invalidate", "dns", "complete"}
BeforeCode == {"idle", "upload"} \union IF command = "otavia" THEN {} ELSE {"certificate"}
BeforeSecret == {"idle", "certificate", "upload", "secrets"}
AfterInvalidate ==
  {"dns", "complete"} \union IF command = "platform" THEN {"readUrls", "addUrls"} ELSE {}
Advancing ==
  {"certificate", "upload", "secrets", "deploy", "addUrls", "statics", "frontend", "invalidate", "dns"}

(* What the run r of deployer d has brought about and has found out *)
DeployerOk(d, r) ==
  /\ r.at \in StepsNow
  /\ r.at \notin BeforeCode => d \in artifacts
  /\ command = "cell" /\ r.at \notin BeforeSecret => secret
  /\ r.at \in AfterInvalidate /\ d \in edge.before => edge.pending
  /\ r.at = "addUrls" /\ d \notin outdated => r.read = urls
  /\ r.at = "check" /\ d \notin touched /\ ~ r.blind => (r.seen <=> stack.is # "none")
  /\ r.at = "ask" /\ d \notin touched /\ r.finding = "stack" => stack.is # "ok"
  /\ r.at = "ask" /\ d \notin touched /\ ~ r.blind /\ command # "platform" =>
       /\ r.finding \in {"stack", "exists", "alias"} => stack.is # "ok"
       /\ r.finding = "replaced" => r.target # bucketOf[d]

StackTyped ==
  \/ stack = NoStack
  \/ stack \in [is : {"ok", "broken"}, build : Deployers, bucket : Buckets]

(* What is so of the account, whatever the runs are about. *)
AwsOk ==
  /\ StackTyped /\ StackFindsItsCode /\ (stack.is = "ok" => alias # "other")
  /\ bucket = [n \in Buckets |-> bucket[n]]
  /\ secret \in BOOLEAN /\ urls \subseteq Deployers
  /\ edge \in [cached : BOOLEAN, before : SUBSET Deployers, pending : BOOLEAN]
  /\ edge.before # {} => edge.cached

DeployInv ==
  /\ command \in Commands /\ bucketOf \in [Deployers -> Buckets]
  /\ deployer \in [Deployers -> DeployerRecords]
  /\ AwsOk
  /\ \A d \in Deployers : DeployerOk(d, deployer[d])

LEMMA DeployInitInv == DeployInit => DeployInv
<1> SUFFICES ASSUME DeployInit PROVE DeployInv
  OBVIOUS
<1>1. command \in Commands /\ bucketOf \in [Deployers -> Buckets]
  BY DEF DeployInit, Commands
<1>2. deployer \in [Deployers -> DeployerRecords] /\ \A d \in Deployers : deployer[d].at = "idle"
  BY DEF DeployInit, DeployerRecords, DeploySteps, Findings
<1>3. stack = NoStack /\ stack.is = "none"
  BY DEF DeployInit, NoStack
<1>4. bucket = [n \in Buckets |-> bucket[n]] /\ secret \in BOOLEAN /\ urls \subseteq Deployers
  BY DEF DeployInit
<1>5. edge \in [cached : BOOLEAN, before : SUBSET Deployers, pending : BOOLEAN] /\ edge.before = {}
  BY DEF DeployInit
<1>6. AwsOk
  BY <1>3, <1>4, <1>5 DEF AwsOk, StackTyped, StackFindsItsCode
<1>7. ASSUME NEW d \in Deployers PROVE DeployerOk(d, deployer[d])
  BY <1>2 DEF DeployerOk, StepsNow, BeforeCode, BeforeSecret, AfterInvalidate, DeploySteps
<1>. QED BY <1>1, <1>2, <1>6, <1>7 DEF DeployInv

(* No step but the upload passes from before the code to after it, and so on. *)
LEMMA StepsFollow ==
  ASSUME command \in Commands, NEW s \in Advancing, s \in StepsNow
  PROVE  /\ NextStep(s) \in StepsNow \ {"check", "ask", "idle", "addUrls"}
         /\ s # "upload" /\ NextStep(s) \notin BeforeCode => s \notin BeforeCode
         /\ s # "secrets" /\ command = "cell" /\ NextStep(s) \notin BeforeSecret => s \notin BeforeSecret
         /\ s # "invalidate" /\ NextStep(s) \in AfterInvalidate => s \in AfterInvalidate
<1>1. CASE command = "cell"
  BY <1>1, CellFollows DEF Advancing, StepsNow, DeploySteps, BeforeCode, BeforeSecret, AfterInvalidate
<1>2. CASE command = "platform"
  BY <1>2, PlatformFollows DEF Advancing, StepsNow, DeploySteps, BeforeCode, AfterInvalidate
<1>3. CASE command = "otavia"
  BY <1>3, OtaviaFollows DEF Advancing, StepsNow, BeforeCode, AfterInvalidate
<1>. QED BY <1>1, <1>2, <1>3 DEF Commands

LEMMA StartStep ==
  ASSUME command \in Commands
  PROVE  Head(Steps) \in {"certificate", "upload"} /\ Head(Steps) \in BeforeCode /\ Head(Steps) \in StepsNow
BY CellFollows, PlatformFollows, OtaviaFollows DEF Commands, BeforeCode, StepsNow, DeploySteps

(* What a step of another deployer leaves of what o knows *)
SparesOther(o) ==
  /\ o \in artifacts => o \in artifacts'
  /\ secret => secret'
  /\ o \in edge'.before /\ ~ edge'.pending => o \in edge.before /\ ~ edge.pending
  /\ o \notin outdated' => o \notin outdated /\ urls' = urls
  /\ o \notin touched' => o \notin touched /\ stack'.is = stack.is

LEMMA OtherRunsStand ==
  ASSUME NEW o, NEW r, DeployerOk(o, r), SparesOther(o), UNCHANGED <<command, bucketOf>>
  PROVE  DeployerOk(o, r)'
BY DEF DeployerOk, SparesOther, StepsNow, BeforeCode, BeforeSecret, AfterInvalidate

(* A run goes on to record r, and spares what the others know. *)
LEMMA DeployerMoves ==
  ASSUME DeployInv, NEW d \in Deployers, NEW r \in DeployerRecords,
         deployer' = [deployer EXCEPT ![d] = r], UNCHANGED <<command, bucketOf>>,
         AwsOk', DeployerOk(d, r)', \A o \in Deployers \ {d} : SparesOther(o)
  PROVE  DeployInv'
<1>1. deployer \in [Deployers -> DeployerRecords]
  BY DEF DeployInv
<1>2. deployer' \in [Deployers -> DeployerRecords] /\ deployer'[d] = r
  BY <1>1
<1>3. ASSUME NEW o \in Deployers PROVE DeployerOk(o, deployer[o])'
  <2>1. CASE o = d
    BY <1>2, <2>1 DEF DeployerOk
  <2>2. CASE o # d
    <3>1. DeployerOk(o, deployer[o]) /\ SparesOther(o) /\ deployer'[o] = deployer[o]
      BY <1>1, <2>2 DEF DeployInv
    <3> DEFINE s == deployer[o]
    <3>2. DeployerOk(o, s) /\ deployer'[o] = s
      BY <3>1
    <3>. QED BY <3>1, <3>2, OtherRunsStand DEF DeployerOk
  <2>. QED BY <2>1, <2>2
<1>4. command' \in Commands /\ bucketOf' \in [Deployers -> Buckets]
  BY DEF DeployInv
<1>. QED BY <1>2, <1>3, <1>4 DEF DeployInv

LEMMA DeployerTyped ==
  ASSUME DeployInv, NEW d \in Deployers, NEW at \in DeploySteps
  PROVE  /\ [deployer[d] EXCEPT !.at = at] \in DeployerRecords
         /\ [deployer EXCEPT ![d].at = at] = [deployer EXCEPT ![d] = [deployer[d] EXCEPT !.at = at]]
<1>1. deployer \in [Deployers -> DeployerRecords]
  BY DEF DeployInv
<1>. QED BY <1>1 DEF DeployerRecords

(* Nothing is asked of a run that rests or begins. *)
LEMMA AtRest ==
  ASSUME DeployInv, NEW d \in Deployers, NEW at, at \in {"idle", Head(Steps)}, Moves(d, at),
         UNCHANGED command
  PROVE  \E r \in DeployerRecords : deployer' = [deployer EXCEPT ![d] = r] /\ DeployerOk(d, r)'
<1>1. deployer[d] \in DeployerRecords /\ command \in Commands
  BY DEF DeployInv
<1>2. at \in DeploySteps /\ at \in BeforeCode /\ at \in StepsNow /\ at \in {"idle", "certificate", "upload"}
  BY <1>1, StartStep DEF DeploySteps, BeforeCode, StepsNow
<1>3. PICK r : r = [deployer[d] EXCEPT !.at = at]
  OBVIOUS
<1>4. r \in DeployerRecords /\ r.at = at /\ deployer' = [deployer EXCEPT ![d] = r]
  BY <1>1, <1>2, <1>3, DeployerTyped DEF DeployerRecords, Moves
<1>5. r.at \in BeforeCode' /\ r.at \in StepsNow' /\ r.at \in BeforeSecret /\ r.at \notin AfterInvalidate'
        /\ r.at \notin {"addUrls", "check", "ask"}
  BY <1>2, <1>4 DEF BeforeCode, StepsNow, BeforeSecret, AfterInvalidate
<1>6. DeployerOk(d, r)'
  BY <1>5 DEF DeployerOk
<1>. QED BY <1>4, <1>6

(* Steps that end a run, and that leave all of AWS as it is *)
DeployRests(d) ==
  Exits(d) \/ Declines(d) \/ DeployRefused(d) \/ SyncFails(d)

LEMMA AwsStands ==
  ASSUME AwsOk, UNCHANGED <<command, aws>>
  PROVE  AwsOk'
BY DEF AwsOk, aws, StackTyped, StackFindsItsCode

LEMMA DeployRestsKeep ==
  ASSUME DeployInv, NEW d \in Deployers, DeployRests(d)
  PROVE  DeployInv'
<1>1. UNCHANGED <<command, bucketOf, aws, touched, outdated>> /\ Moves(d, "idle")
  BY DEF DeployRests, Exits, Declines, DeployRefused, SyncFails, setting
<1>2. PICK r \in DeployerRecords : deployer' = [deployer EXCEPT ![d] = r] /\ DeployerOk(d, r)'
  BY <1>1, AtRest
<1>4. AwsOk'
  BY <1>1, AwsStands DEF DeployInv
<1>5. \A o \in Deployers : SparesOther(o)
  BY <1>1 DEF SparesOther, aws
<1>. QED BY <1>1, <1>2, <1>4, <1>5, DeployerMoves

LEMMA StartKeeps ==
  ASSUME DeployInv, NEW d \in Deployers, Start(d)
  PROVE  DeployInv'
<1>1. /\ UNCHANGED <<command, bucketOf, stack, artifacts, secret, bucket, alias, urls, touched, outdated>>
      /\ Moves(d, Head(Steps)) /\ edge' = [edge EXCEPT !.before = @ \ {d}]
  BY DEF Start
<1>3. PICK r \in DeployerRecords : deployer' = [deployer EXCEPT ![d] = r] /\ DeployerOk(d, r)'
  BY <1>1, AtRest
<1>5. edge \in [cached : BOOLEAN, before : SUBSET Deployers, pending : BOOLEAN]
  BY DEF DeployInv, AwsOk
<1>6. /\ edge' \in [cached : BOOLEAN, before : SUBSET Deployers, pending : BOOLEAN]
      /\ edge'.before = edge.before \ {d} /\ edge'.cached = edge.cached /\ edge'.pending = edge.pending
  BY <1>1, <1>5
<1>7. AwsOk'
  BY <1>1, <1>6 DEF DeployInv, AwsOk, StackTyped, StackFindsItsCode
<1>8. \A o \in Deployers : SparesOther(o)
  BY <1>1, <1>6 DEF SparesOther
<1>. QED BY <1>1, <1>3, <1>7, <1>8, DeployerMoves

(* A run goes on to the next call. *)
LEMMA AdvanceOwn ==
  ASSUME DeployInv, NEW d \in Deployers, deployer[d].at \in Advancing, Advances(d), UNCHANGED command,
         d \in artifacts => d \in artifacts', secret => secret',
         deployer[d].at = "upload" => d \in artifacts', deployer[d].at = "secrets" => secret',
         deployer[d].at = "invalidate" => edge'.pending \/ d \notin edge'.before,
         deployer[d].at \in AfterInvalidate /\ d \in edge'.before /\ ~ edge'.pending =>
           d \in edge.before /\ ~ edge.pending
  PROVE  \E r \in DeployerRecords : deployer' = [deployer EXCEPT ![d] = r] /\ DeployerOk(d, r)'
<1> DEFINE s == deployer[d].at
<1>1. deployer[d] \in DeployerRecords /\ DeployerOk(d, deployer[d]) /\ command \in Commands
  BY DEF DeployInv
<1>2. s \in StepsNow
  BY <1>1 DEF DeployerOk
<1>3. /\ NextStep(s) \in StepsNow \ {"check", "ask", "idle", "addUrls"}
      /\ s # "upload" /\ NextStep(s) \notin BeforeCode => s \notin BeforeCode
      /\ s # "secrets" /\ command = "cell" /\ NextStep(s) \notin BeforeSecret => s \notin BeforeSecret
      /\ s # "invalidate" /\ NextStep(s) \in AfterInvalidate => s \in AfterInvalidate
  BY <1>1, <1>2, StepsFollow
<1>4. NextStep(s) \in DeploySteps
  BY <1>3 DEF StepsNow, DeploySteps
<1> DEFINE t == NextStep(s)
<1>5. PICK r : r = [deployer[d] EXCEPT !.at = t]
  OBVIOUS
<1>6. r \in DeployerRecords /\ deployer' = [deployer EXCEPT ![d] = r] /\ r.at = t
  BY <1>1, <1>4, <1>5, DeployerTyped DEF Advances, Moves, DeployerRecords
<1>7. /\ t \in StepsNow /\ t \notin {"check", "ask", "addUrls"} /\ r.at = t
      /\ t \notin BeforeCode => d \in artifacts'
      /\ command = "cell" /\ t \notin BeforeSecret => secret'
      /\ t \in AfterInvalidate /\ d \in edge'.before => edge'.pending
  BY <1>1, <1>3, <1>6 DEF DeployerOk
<1>8. \A x : /\ x \in StepsNow <=> x \in StepsNow'
             /\ x \in BeforeCode <=> x \in BeforeCode'
             /\ x \in AfterInvalidate <=> x \in AfterInvalidate'
  BY DEF StepsNow, BeforeCode, AfterInvalidate
<1> HIDE DEF t
<1>9. DeployerOk(d, r)'
  BY <1>7, <1>8 DEF DeployerOk
<1>. QED BY <1>6, <1>9

LEMMA AdvanceKeeps ==
  ASSUME DeployInv, NEW d \in Deployers, deployer[d].at \in Advancing, Advances(d),
         UNCHANGED <<command, bucketOf>>,
         d \in artifacts => d \in artifacts',
         deployer[d].at = "upload" => d \in artifacts', deployer[d].at = "secrets" => secret',
         deployer[d].at = "invalidate" => edge'.pending \/ d \notin edge'.before,
         deployer[d].at \in AfterInvalidate => UNCHANGED edge,
         secret => secret', AwsOk', \A o \in Deployers \ {d} : SparesOther(o)
  PROVE  DeployInv'
<1>1. PICK r \in DeployerRecords : deployer' = [deployer EXCEPT ![d] = r] /\ DeployerOk(d, r)'
  BY AdvanceOwn
<1>. QED BY <1>1, DeployerMoves

(* Certificate, UploadCode, SyncSecrets, SyncStatics, SyncFrontend, Invalidate, DnsRecord *)
LEMMA CertificateKeeps ==
  ASSUME DeployInv, NEW d \in Deployers, Certificate(d) \/ DnsRecord(d)
  PROVE  DeployInv'
<1>1. /\ UNCHANGED <<command, bucketOf, aws, touched, outdated>> /\ Advances(d)
      /\ deployer[d].at \in {"certificate", "dns"}
  BY DEF Certificate, DnsRecord, setting, DeployAt
<1>2. AwsOk'
  BY <1>1, AwsStands DEF DeployInv
<1>3. \A o \in Deployers : SparesOther(o)
  BY <1>1 DEF SparesOther, aws
<1>4. UNCHANGED <<artifacts, secret, edge>>
  BY <1>1 DEF aws
<1>. QED BY <1>1, <1>2, <1>3, <1>4, AdvanceKeeps DEF Advancing

LEMMA UploadKeeps ==
  ASSUME DeployInv, NEW d \in Deployers, UploadCode(d) \/ SyncSecrets(d)
  PROVE  DeployInv'
<1>1. /\ UNCHANGED <<command, bucketOf, stack, bucket, alias, edge, urls, touched, outdated>> /\ Advances(d)
      /\ \/ deployer[d].at = "upload" /\ artifacts' = artifacts \union {d} /\ UNCHANGED secret
         \/ deployer[d].at = "secrets" /\ secret' = TRUE /\ UNCHANGED artifacts
  BY DEF UploadCode, SyncSecrets, setting, DeployAt
<1>2. AwsOk'
  <2>1. secret' \in BOOLEAN /\ artifacts \subseteq artifacts' /\ (secret => secret')
    <3>1. secret \in BOOLEAN
      BY DEF DeployInv, AwsOk
    <3>2. artifacts \subseteq artifacts'
      BY <1>1
    <3>3. secret' = TRUE \/ secret' = secret
      BY <1>1
    <3>4. CASE secret' = TRUE
      BY <3>2, <3>4
    <3>5. CASE secret' = secret
      BY <3>1, <3>2, <3>5
    <3>. QED BY <3>3, <3>4, <3>5
  <2>2. StackFindsItsCode'
    BY <1>1, <2>1 DEF DeployInv, AwsOk, StackFindsItsCode
  <2>. QED BY <1>1, <2>1, <2>2 DEF DeployInv, AwsOk, StackTyped
<1>3. \A o \in Deployers : SparesOther(o)
  BY <1>1 DEF SparesOther
<1>4. deployer[d].at \notin AfterInvalidate
  BY <1>1 DEF AfterInvalidate
<1>. QED BY <1>1, <1>2, <1>3, <1>4, AdvanceKeeps DEF Advancing

LEMMA EdgeTyped ==
  ASSUME DeployInv
  PROVE  /\ edge \in [cached : BOOLEAN, before : SUBSET Deployers, pending : BOOLEAN]
         /\ bucket = [n \in Buckets |-> bucket[n]] /\ bucketOf \in [Deployers -> Buckets]
BY DEF DeployInv, AwsOk

LEMMA SyncKeeps ==
  ASSUME DeployInv, NEW d \in Deployers, SyncStatics(d) \/ SyncFrontend(d)
  PROVE  DeployInv'
<1>1. /\ UNCHANGED <<command, bucketOf, stack, artifacts, secret, alias, urls, touched, outdated>>
      /\ Advances(d) /\ deployer[d].at \in {"statics", "frontend"}
      /\ \/ edge' = IF edge.cached THEN [edge EXCEPT !.before = @ \cup {d}] ELSE edge
         \/ UNCHANGED edge
  BY DEF SyncStatics, SyncFrontend, setting, DeployAt
<1>2. bucket' = [n \in Buckets |-> bucket'[n]]
  BY EdgeTyped DEF SyncStatics, SyncFrontend
<1>3. /\ edge' \in [cached : BOOLEAN, before : SUBSET Deployers, pending : BOOLEAN]
      /\ edge'.before \subseteq edge.before \union {d} /\ edge'.cached = edge.cached
      /\ edge'.pending = edge.pending /\ (edge'.before # edge.before => edge.cached)
  BY <1>1, EdgeTyped
<1>4. AwsOk'
  BY <1>1, <1>2, <1>3 DEF DeployInv, AwsOk, StackTyped, StackFindsItsCode
<1>5. \A o \in Deployers \ {d} : SparesOther(o)
  BY <1>1, <1>3 DEF SparesOther
<1>6. deployer[d].at \notin AfterInvalidate
  BY <1>1 DEF AfterInvalidate
<1>. QED BY <1>1, <1>4, <1>5, <1>6, AdvanceKeeps DEF Advancing

LEMMA InvalidateKeeps ==
  ASSUME DeployInv, NEW d \in Deployers, Invalidate(d)
  PROVE  DeployInv'
<1>1. /\ UNCHANGED <<command, bucketOf, stack, artifacts, secret, bucket, alias, urls, touched, outdated>>
      /\ Advances(d) /\ deployer[d].at = "invalidate" /\ edge' = [edge EXCEPT !.pending = edge.cached]
  BY DEF Invalidate, setting, DeployAt
<1>2. edge.before # {} => edge.cached
  BY DEF DeployInv, AwsOk
<1>3. /\ edge' \in [cached : BOOLEAN, before : SUBSET Deployers, pending : BOOLEAN]
      /\ edge'.before = edge.before /\ edge'.cached = edge.cached /\ edge'.pending = edge.cached
  BY <1>1, EdgeTyped
<1>4. AwsOk'
  BY <1>1, <1>3 DEF DeployInv, AwsOk, StackTyped, StackFindsItsCode
<1>5. edge'.pending \/ edge'.before = {}
  BY <1>2, <1>3
<1>6. \A o \in Deployers : SparesOther(o)
  BY <1>1, <1>5 DEF SparesOther
<1>7. deployer[d].at \notin AfterInvalidate
  BY <1>1 DEF AfterInvalidate
<1>. QED BY <1>1, <1>4, <1>5, <1>6, <1>7, AdvanceKeeps DEF Advancing

LEMMA AddUrlsKeeps ==
  ASSUME DeployInv, NEW d \in Deployers, AddUrls(d)
  PROVE  DeployInv'
<1>1. /\ UNCHANGED <<command, bucketOf, stack, artifacts, secret, bucket, alias, edge, touched>>
      /\ Advances(d) /\ deployer[d].at = "addUrls"
      /\ \/ urls' = Extended(d) /\ outdated' = outdated \union (Deployers \ {d})
         \/ UNCHANGED <<urls, outdated>>
  BY DEF AddUrls, setting, DeployAt
<1>2. urls' \subseteq Deployers
  BY <1>1 DEF DeployInv, AwsOk, Extended, DeployerRecords
<1>3. AwsOk'
  BY <1>1, <1>2 DEF DeployInv, AwsOk, StackTyped, StackFindsItsCode
<1>4. \A o \in Deployers \ {d} : SparesOther(o)
  BY <1>1 DEF SparesOther
<1>. QED BY <1>1, <1>3, <1>4, AdvanceKeeps DEF Advancing

-----------------------------------------------------------------------------
(* Finding out and asking *)

LEMMA LookKeeps ==
  ASSUME DeployInv, NEW d \in Deployers, LookForStack(d)
  PROVE  DeployInv'
<1>1. /\ UNCHANGED <<command, bucketOf, aws, outdated>> /\ deployer[d].at = "look"
      /\ touched' = touched \ {d}
  BY DEF LookForStack, DeployAt
<1>0. PICK seen \in BOOLEAN, blind \in BOOLEAN :
        /\ deployer' = [deployer EXCEPT ![d].at = "check", ![d].seen = seen, ![d].blind = blind]
        /\ ~ blind => (seen <=> stack.is # "none")
  BY DEF LookForStack
<1>2. deployer[d] \in DeployerRecords /\ DeployerOk(d, deployer[d]) /\ command \in Commands
        /\ deployer \in [Deployers -> DeployerRecords]
  BY DEF DeployInv
<1>3. PICK r : r = [deployer[d] EXCEPT !.at = "check", !.seen = seen, !.blind = blind]
  OBVIOUS
<1>4. /\ r \in DeployerRecords /\ r.at = "check" /\ (~ r.blind => (r.seen <=> stack.is # "none"))
      /\ deployer' = [deployer EXCEPT ![d] = r]
  BY <1>0, <1>2, <1>3 DEF DeployerRecords, DeploySteps
<1>5. /\ "check" \in StepsNow /\ "look" \notin BeforeCode /\ "look" \notin BeforeSecret
      /\ "check" \notin AfterInvalidate
  BY <1>1, <1>2 DEF DeployerOk, StepsNow, BeforeCode, BeforeSecret, AfterInvalidate, DeploySteps
<1>6. d \in artifacts /\ (command = "cell" => secret)
  BY <1>1, <1>2, <1>5 DEF DeployerOk
<1>7. UNCHANGED <<artifacts, secret, stack, edge, urls>>
  BY <1>1 DEF aws
<1>8. DeployerOk(d, r)'
  BY <1>1, <1>4, <1>5, <1>6, <1>7 DEF DeployerOk, StepsNow, BeforeCode, BeforeSecret, AfterInvalidate
<1>9. AwsOk'
  BY <1>1, AwsStands DEF DeployInv
<1>10. \A o \in Deployers \ {d} : SparesOther(o)
  BY <1>1, <1>7 DEF SparesOther
<1>. QED BY <1>1, <1>4, <1>8, <1>9, <1>10, DeployerMoves

(* Where nobody has touched the stack since it was looked for and the run is not *)
(* blind, what the checks find in a cell or an otavia stack is no live one.       *)
LEMMA ObjectionHolds ==
  ASSUME DeployInv, NEW d \in Deployers, NEW failed, failed # "own", command # "platform",
         deployer[d].seen <=> stack.is # "none"
  PROVE  /\ Objection(d, failed) \in {"stack", "exists", "alias"} => stack.is # "ok"
         /\ Objection(d, failed) = "replaced" =>
              /\ stack \in [is : {"ok", "broken"}, build : Deployers, bucket : Buckets]
              /\ stack.bucket # bucketOf[d]
<1>1. stack.is = "ok" => alias # "other"
  BY DEF DeployInv, AwsOk
<1>2. StackTyped
  BY DEF DeployInv, AwsOk
<1>3. StackIsBroken(d) => stack.is # "ok"
  BY DEF StackIsBroken
<1>4. BucketExists(d) => stack.is # "ok"
  BY DEF BucketExists
<1>5. AliasIsTaken(d, failed) => stack.is # "ok"
  BY <1>1 DEF AliasIsTaken
<1>6. BucketIsReplaced(d) => stack.is # "none" /\ stack.bucket # bucketOf[d]
  BY DEF BucketIsReplaced
<1>7. stack.is # "none" => stack # NoStack
  BY DEF NoStack
<1>. QED BY <1>2, <1>3, <1>4, <1>5, <1>6, <1>7 DEF Objection, StackTyped, NoFinding

LEMMA ObjectionTyped ==
  ASSUME DeployInv, NEW d \in Deployers, NEW failed
  PROVE  /\ Objection(d, failed) \in Findings
         /\ Objection(d, failed) = "replaced" => stack.bucket \in Buckets
         /\ Objection(d, failed) = "stack" => stack.is # "ok"
<1>1. StackTyped
  BY DEF DeployInv, AwsOk
<1>2. BucketIsReplaced(d) => stack # NoStack
  BY DEF BucketIsReplaced, NoStack
<1>3. stack # NoStack => stack.bucket \in Buckets
  BY <1>1 DEF StackTyped
<1>4. Objection(d, failed) = "replaced" => BucketIsReplaced(d)
  BY DEF Objection, NoFinding
<1>5. Objection(d, failed) \in Findings
  BY DEF Objection, Findings
<1>6. Objection(d, failed) = "stack" => stack.is # "ok"
  BY DEF Objection, NoFinding, StackIsBroken
<1>. QED BY <1>2, <1>3, <1>4, <1>5, <1>6

LEMMA RunChecksKeep ==
  ASSUME DeployInv, NEW d \in Deployers, RunChecks(d)
  PROVE  DeployInv'
<1>0. PICK failed \in {NoFinding} \union CheckCalls :
        deployer' = [deployer EXCEPT ![d].finding = Objection(d, failed),
          ![d].target = IF Objection(d, failed) = "replaced" THEN stack.bucket ELSE bucketOf[d],
          ![d].blind = @ \/ failed = "own",
          ![d].at = IF Objection(d, failed) = NoFinding THEN "deploy" ELSE "ask"]
  BY DEF RunChecks
<1> DEFINE found == Objection(d, failed)
           at == IF found = NoFinding THEN "deploy" ELSE "ask"
           target == IF found = "replaced" THEN stack.bucket ELSE bucketOf[d]
           blind == deployer[d].blind \/ failed = "own"
<1>1. /\ UNCHANGED <<command, bucketOf, aws, touched, outdated>> /\ deployer[d].at = "check"
  BY DEF RunChecks, DeployAt
<1>2. deployer[d] \in DeployerRecords /\ DeployerOk(d, deployer[d]) /\ command \in Commands
        /\ deployer \in [Deployers -> DeployerRecords] /\ bucketOf[d] \in Buckets
  BY DEF DeployInv
<1>3. /\ found \in Findings /\ target \in Buckets /\ at \in {"deploy", "ask"} /\ blind \in BOOLEAN
      /\ found = "stack" => stack.is # "ok"
      /\ deployer[d].blind => blind
  BY <1>2, ObjectionTyped
<1>4. d \notin touched /\ ~ blind /\ command # "platform" /\ at = "ask" =>
        /\ found \in {"stack", "exists", "alias"} => stack.is # "ok"
        /\ found = "replaced" => target # bucketOf[d]
  BY <1>1, <1>2, ObjectionHolds DEF DeployerOk
<1>5. PICK r : r = [deployer[d] EXCEPT !.finding = found, !.target = target, !.blind = blind, !.at = at]
  OBVIOUS
<1>a. deployer' = [deployer EXCEPT ![d] = r]
  BY <1>0, <1>2, <1>5
<1>6. UNCHANGED <<artifacts, secret, stack, edge, urls>>
  BY <1>1 DEF aws
<1> HIDE DEF found, at, target, blind
<1>7. /\ r \in DeployerRecords /\ r.at = at /\ r.finding = found /\ r.target = target
      /\ (r.blind <=> blind) /\ deployer' = [deployer EXCEPT ![d] = r]
  BY <1>a, <1>2, <1>3, <1>5 DEF DeployerRecords, DeploySteps
<1>8. /\ r.at \in StepsNow /\ "check" \notin BeforeCode /\ "check" \notin BeforeSecret
      /\ r.at \notin AfterInvalidate /\ r.at \notin {"check", "addUrls"}
  BY <1>1, <1>2, <1>3, <1>7
     DEF DeployerOk, StepsNow, BeforeCode, BeforeSecret, AfterInvalidate, DeploySteps, Commands
<1>9. d \in artifacts /\ (command = "cell" => secret)
  BY <1>1, <1>2, <1>8 DEF DeployerOk
<1>10. DeployerOk(d, r)'
  BY <1>1, <1>3, <1>4, <1>6, <1>7, <1>8, <1>9
     DEF DeployerOk, StepsNow, AfterInvalidate
<1>11. AwsOk'
  BY <1>1, AwsStands DEF DeployInv
<1>12. \A o \in Deployers \ {d} : SparesOther(o)
  BY <1>1, <1>6 DEF SparesOther
<1>. QED BY <1>1, <1>7, <1>10, <1>11, <1>12, DeployerMoves

(* A resolution is applied, and the run looks again. *)
LEMMA LooksAgain ==
  ASSUME DeployInv, NEW d \in Deployers, deployer[d].at = "ask", Moves(d, "look"),
         UNCHANGED <<command, artifacts, secret>>
  PROVE  \E r \in DeployerRecords : deployer' = [deployer EXCEPT ![d] = r] /\ DeployerOk(d, r)'
<1>1. deployer[d] \in DeployerRecords /\ DeployerOk(d, deployer[d]) /\ command \in Commands
  BY DEF DeployInv
<1>2. PICK r : r = [deployer[d] EXCEPT !.at = "look"]
  OBVIOUS
<1>3. r \in DeployerRecords /\ r.at = "look" /\ deployer' = [deployer EXCEPT ![d] = r]
  <2>1. "look" \in DeploySteps
    BY DEF DeploySteps
  <2>2. r \in DeployerRecords /\ deployer' = [deployer EXCEPT ![d] = r]
    BY <1>2, <2>1, DeployerTyped DEF Moves
  <2>. QED BY <1>1, <1>2, <2>2 DEF DeployerRecords
<1>4. /\ "look" \in StepsNow' /\ "ask" \notin BeforeCode /\ "ask" \notin BeforeSecret
      /\ "look" \notin AfterInvalidate'
  BY <1>1 DEF DeployerOk, StepsNow, BeforeCode, BeforeSecret, AfterInvalidate, DeploySteps
<1>5. d \in artifacts' /\ (command' = "cell" => secret')
  BY <1>1, <1>4 DEF DeployerOk
<1>6. DeployerOk(d, r)'
  BY <1>3, <1>4, <1>5 DEF DeployerOk
<1>. QED BY <1>3, <1>6

Applies(d) == ApplyDeleteStack(d) \/ ApplyDeleteBucket(d) \/ ApplyEmptyBucket(d) \/ ApplyFreeAlias(d)

LEMMA AppliesKeep ==
  ASSUME DeployInv, NEW d \in Deployers, Applies(d)
  PROVE  DeployInv'
<1>1. /\ UNCHANGED <<command, bucketOf, artifacts, secret, edge, urls, outdated>>
      /\ deployer[d].at = "ask" /\ Moves(d, "look")
      /\ \/ stack' = NoStack /\ touched' = touched \union (Deployers \ {d})
              /\ alias' = (IF alias = "ours" THEN "free" ELSE alias)
         \/ UNCHANGED <<stack, touched>> /\ (UNCHANGED alias \/ alias' = "free")
  BY DEF Applies, ApplyDeleteStack, ApplyDeleteBucket, ApplyEmptyBucket, ApplyFreeAlias, setting, DeployAt
<1>2. PICK r \in DeployerRecords : deployer' = [deployer EXCEPT ![d] = r] /\ DeployerOk(d, r)'
  BY <1>1, LooksAgain
<1>3. bucket' = [n \in Buckets |-> bucket'[n]]
  BY EdgeTyped DEF Applies, ApplyDeleteStack, ApplyDeleteBucket, ApplyEmptyBucket, ApplyFreeAlias
<1>4. AwsOk'
  BY <1>1, <1>3 DEF DeployInv, AwsOk, StackTyped, StackFindsItsCode, NoStack
<1>5. \A o \in Deployers \ {d} : SparesOther(o)
  BY <1>1 DEF SparesOther
<1>. QED BY <1>1, <1>2, <1>4, <1>5, DeployerMoves

LEMMA DeployStackKeeps ==
  ASSUME DeployInv, NEW d \in Deployers, DeployStack(d)
  PROVE  DeployInv'
<1>1. /\ UNCHANGED <<command, bucketOf, artifacts, secret, edge, urls, outdated>>
      /\ deployer[d].at = "deploy" /\ Advances(d)
      /\ stack' = [is |-> "ok", build |-> d, bucket |-> bucketOf[d]]
      /\ alias' = "ours" /\ touched' = touched \union (Deployers \ {d})
  BY DEF DeployStack, setting, DeployAt
<1>2. bucket' = [n \in Buckets |-> bucket'[n]]
  BY DEF DeployStack
<1>3. DeployerOk(d, deployer[d]) /\ bucketOf[d] \in Buckets
  BY DEF DeployInv
<1>4. d \in artifacts /\ (command = "cell" => secret)
  BY <1>1, <1>3 DEF DeployerOk, BeforeCode, BeforeSecret
<1>5. StackTyped' /\ stack'.is = "ok" /\ stack'.build = d
  BY <1>1, <1>3 DEF StackTyped
<1>6. StackFindsItsCode'
  BY <1>1, <1>4, <1>5 DEF StackFindsItsCode
<1>7. AwsOk'
  BY <1>1, <1>2, <1>5, <1>6 DEF DeployInv, AwsOk
<1>8. \A o \in Deployers \ {d} : SparesOther(o)
  BY <1>1 DEF SparesOther
<1>9. deployer[d].at \notin AfterInvalidate
  BY <1>1 DEF AfterInvalidate
<1>. QED BY <1>1, <1>7, <1>8, <1>9, AdvanceKeeps DEF Advancing

LEMMA DeployFailsKeeps ==
  ASSUME DeployInv, NEW d \in Deployers, DeployFails(d)
  PROVE  DeployInv'
<1>1. /\ UNCHANGED <<command, bucketOf, artifacts, secret, alias, edge, urls, outdated>> /\ Moves(d, "idle")
      /\ \/ UNCHANGED <<stack, touched>>
         \/ /\ stack' = [is |-> "broken", build |-> d, bucket |-> bucketOf[d]]
            /\ touched' = touched \union (Deployers \ {d})
  BY DEF DeployFails
<1>2. PICK r \in DeployerRecords : deployer' = [deployer EXCEPT ![d] = r] /\ DeployerOk(d, r)'
  BY <1>1, AtRest
<1>3. bucket' = [n \in Buckets |-> bucket'[n]]
  BY EdgeTyped DEF DeployFails
<1>4. bucketOf[d] \in Buckets
  BY DEF DeployInv
<1>5. StackTyped' /\ (stack' = stack \/ stack'.is = "broken")
  BY <1>1, <1>4 DEF DeployInv, AwsOk, StackTyped
<1>6. AwsOk'
  BY <1>1, <1>3, <1>5 DEF DeployInv, AwsOk, StackFindsItsCode
<1>7. \A o \in Deployers \ {d} : SparesOther(o)
  BY <1>1 DEF SparesOther
<1>. QED BY <1>1, <1>2, <1>6, <1>7, DeployerMoves

LEMMA ReadUrlsKeeps ==
  ASSUME DeployInv, NEW d \in Deployers, ReadUrls(d)
  PROVE  DeployInv'
<1>1. UNCHANGED <<command, bucketOf, aws, touched>> /\ deployer[d].at = "readUrls"
  BY DEF ReadUrls, DeployAt
<1>2. deployer[d] \in DeployerRecords /\ DeployerOk(d, deployer[d]) /\ command \in Commands
        /\ deployer \in [Deployers -> DeployerRecords] /\ urls \subseteq Deployers
  BY DEF DeployInv, AwsOk
<1>3. /\ "addUrls" \in StepsNow /\ "readUrls" \notin BeforeCode /\ "readUrls" \notin BeforeSecret
      /\ "addUrls" \in AfterInvalidate <=> "readUrls" \in AfterInvalidate
  BY <1>1, <1>2 DEF DeployerOk, StepsNow, BeforeCode, BeforeSecret, AfterInvalidate, DeploySteps
<1> DEFINE next == NextStep("addUrls")
<1>4. /\ next \in StepsNow \ {"check", "ask", "idle", "addUrls"}
      /\ next \in AfterInvalidate => "readUrls" \in AfterInvalidate
  BY <1>2, <1>3, StepsFollow DEF Advancing
<1>5. next \in DeploySteps
  BY <1>4 DEF StepsNow, DeploySteps
<1>6. d \in artifacts /\ (command = "cell" => secret)
        /\ ("readUrls" \in AfterInvalidate /\ d \in edge.before => edge.pending)
  BY <1>1, <1>2, <1>3 DEF DeployerOk
<1>7. UNCHANGED <<artifacts, secret, stack, edge, urls>>
  BY <1>1 DEF aws
<1> HIDE DEF next
<1>8. PICK at \in {next, "addUrls"}, read \in SUBSET Deployers :
        /\ deployer' = [deployer EXCEPT ![d].read = read, ![d].at = at]
        /\ at = "addUrls" => read = urls
        /\ outdated' \in {outdated, outdated \ {d}}
  <2>1. CASE deployer' = [deployer EXCEPT ![d].read = urls,
                            ![d].at = IF d \in urls THEN NextStep("addUrls") ELSE "addUrls"]
             /\ outdated' = outdated \ {d}
    BY <1>2, <2>1 DEF next
  <2>2. CASE Moves(d, NextStep("addUrls")) /\ UNCHANGED outdated
    <3>1. deployer[d].read \in SUBSET Deployers
      BY <1>2 DEF DeployerRecords
    <3>2. deployer' = [deployer EXCEPT ![d].read = deployer[d].read, ![d].at = next]
      BY <1>2, <2>2 DEF Moves, next, DeployerRecords
    <3>. QED BY <1>4, <2>2, <3>1, <3>2
  <2>. QED BY <2>1, <2>2 DEF ReadUrls
<1>9. PICK r : r = [deployer[d] EXCEPT !.read = read, !.at = at]
  OBVIOUS
<1>10. r \in DeployerRecords /\ r.at = at /\ r.read = read /\ deployer' = [deployer EXCEPT ![d] = r]
  BY <1>2, <1>5, <1>8, <1>9 DEF DeployerRecords, DeploySteps
<1>11. /\ at \in StepsNow' /\ at \notin {"check", "ask"} /\ (at = "addUrls" => read = urls')
       /\ d \in artifacts' /\ (command' = "cell" => secret')
       /\ at \in AfterInvalidate' /\ d \in edge'.before => edge'.pending
  BY <1>1, <1>3, <1>4, <1>6, <1>7, <1>8 DEF StepsNow, AfterInvalidate
<1>12. DeployerOk(d, r)'
  BY <1>10, <1>11 DEF DeployerOk
<1>13. AwsOk'
  BY <1>1, AwsStands DEF DeployInv
<1>14. \A o \in Deployers \ {d} : SparesOther(o)
  BY <1>1, <1>7, <1>8 DEF SparesOther
<1>. QED BY <1>1, <1>10, <1>12, <1>13, <1>14, DeployerMoves

(* CloudFront drops its copies, or takes one. *)
LEMMA EdgeKeeps ==
  ASSUME DeployInv, Invalidated \/ Visit
  PROVE  DeployInv'
<1>1. UNCHANGED <<command, bucketOf, deployer, stack, artifacts, secret, bucket, alias, urls, touched, outdated>>
  BY DEF Invalidated, Visit, setting
<1>2. /\ edge' \in [cached : BOOLEAN, before : SUBSET Deployers, pending : BOOLEAN]
      /\ edge'.before = {} \/ (edge'.before = edge.before /\ edge'.pending = edge.pending)
      /\ edge'.before # {} => edge'.cached
  <2>1. CASE Invalidated
    BY <2>1 DEF Invalidated
  <2>2. CASE Visit
    <3>1. edge' = [edge EXCEPT !.cached = TRUE]
      BY <2>2 DEF Visit
    <3>. QED BY <3>1, EdgeTyped
  <2>. QED BY <2>1, <2>2
<1>3. AwsOk'
  BY <1>1, <1>2 DEF DeployInv, AwsOk, StackTyped, StackFindsItsCode
<1>4. ASSUME NEW o \in Deployers PROVE DeployerOk(o, deployer[o])'
  <2>1. SparesOther(o) /\ DeployerOk(o, deployer[o])
    BY <1>1, <1>2 DEF SparesOther, DeployInv
  <2>2. PICK r : r = deployer[o]
    OBVIOUS
  <2>3. DeployerOk(o, r)'
    BY <1>1, <2>1, <2>2, OtherRunsStand
  <2>. QED BY <1>1, <2>2, <2>3
<1>. QED BY <1>1, <1>3, <1>4 DEF DeployInv

-----------------------------------------------------------------------------
(* What a step does to a run, and to the live cell *)

DeployerStep(d) ==
  \/ Start(d) \/ Certificate(d) \/ DnsRecord(d) \/ Exits(d) \/ UploadCode(d)
  \/ SyncSecrets(d) \/ LookForStack(d) \/ RunChecks(d) \/ Declines(d)
  \/ ApplyDeleteStack(d) \/ ApplyDeleteBucket(d) \/ ApplyEmptyBucket(d)
  \/ ApplyFreeAlias(d) \/ DeployStack(d) \/ DeployFails(d) \/ DeployRefused(d)
  \/ ReadUrls(d) \/ AddUrls(d) \/ SyncStatics(d) \/ SyncFrontend(d) \/ SyncFails(d)
  \/ Invalidate(d)

LEMMA DeployerStepKeeps ==
  ASSUME DeployInv, NEW d \in Deployers, DeployerStep(d)
  PROVE  DeployInv'
BY StartKeeps, CertificateKeeps, DeployRestsKeep, UploadKeeps, LookKeeps, RunChecksKeep, AppliesKeep,
   DeployStackKeeps, DeployFailsKeeps, ReadUrlsKeeps, AddUrlsKeeps, SyncKeeps, InvalidateKeeps
   DEF DeployerStep, DeployRests, Applies

LEMMA DeployNextKeeps == DeployInv /\ [DeployNext]_deployVars => DeployInv'
<1> SUFFICES ASSUME DeployInv, [DeployNext]_deployVars PROVE DeployInv'
  OBVIOUS
<1>1. CASE UNCHANGED deployVars
  <2>1. UNCHANGED <<command, bucketOf, deployer, touched, outdated>> /\ UNCHANGED aws
    BY <1>1 DEF deployVars, aws
  <2>2. AwsOk'
    BY <2>1, AwsStands DEF DeployInv
  <2>3. ASSUME NEW o \in Deployers PROVE DeployerOk(o, deployer[o])'
    BY <2>1 DEF DeployInv, DeployerOk, StepsNow, BeforeCode, BeforeSecret, AfterInvalidate, aws
  <2>. QED BY <2>1, <2>2, <2>3 DEF DeployInv
<1>2. CASE DeployNext
  BY <1>2, DeployerStepKeeps, EdgeKeeps DEF DeployNext, DeployerStep
<1>. QED BY <1>1, <1>2

(* A step moves no other run than its own. *)
LEMMA OwnStep ==
  ASSUME DeployInv, NEW d \in Deployers, NEW o \in Deployers, o # d, DeployerStep(o)
  PROVE  deployer'[d] = deployer[d]
<1>1. deployer \in [Deployers -> DeployerRecords]
  BY DEF DeployInv
<1>2. CASE LookForStack(o) \/ RunChecks(o) \/ ReadUrls(o)
  BY <1>1, <1>2 DEF LookForStack, RunChecks, ReadUrls, Moves
<1>3. CASE \E at : Moves(o, at)
  BY <1>1, <1>3 DEF Moves
<1>4. LookForStack(o) \/ RunChecks(o) \/ ReadUrls(o) \/ \E at : Moves(o, at)
  BY DEF DeployerStep, Start, Certificate, DnsRecord, Exits, UploadCode, SyncSecrets, Declines,
         ApplyDeleteStack, ApplyDeleteBucket, ApplyEmptyBucket, ApplyFreeAlias, DeployStack,
         DeployFails, DeployRefused, AddUrls, SyncStatics, SyncFrontend, SyncFails, Invalidate, Advances
<1>. QED BY <1>2, <1>3, <1>4

(* DeploySpares, of one run *)
AskSpares(d) ==
  stack.is = "ok" /\ command # "platform" /\ d \notin touched
    /\ deployer[d].at = "ask" /\ deployer'[d].at # "ask" =>
      /\ stack' = stack
      /\ ~ deployer[d].blind =>
           /\ alias' = alias
           /\ bucketOf[d] = stack.bucket => bucket'[stack.bucket] = bucket[stack.bucket]

AddSpares(d) ==
  d \notin outdated /\ DeployAt(d, "addUrls") /\ deployer'[d].at # "addUrls" => urls \subseteq urls'

LEMMA RunsSpare ==
  ASSUME DeployInv, [DeployNext]_deployVars, NEW d \in Deployers
  PROVE  AskSpares(d) /\ AddSpares(d)
<1>1. CASE deployer'[d] = deployer[d]
  BY <1>1 DEF AskSpares, AddSpares, DeployAt
<1>2. CASE DeployerStep(d)
  <2>1. DeployerOk(d, deployer[d]) /\ bucket = [n \in Buckets |-> bucket[n]]
    BY EdgeTyped DEF DeployInv
  <2>2. AddSpares(d)
    <3>1. SUFFICES ASSUME d \notin outdated, deployer[d].at = "addUrls" PROVE urls \subseteq urls'
      BY DEF AddSpares, DeployAt
    <3>2. deployer[d].read = urls
      BY <2>1, <3>1 DEF DeployerOk
    <3>3. Exits(d) \/ AddUrls(d)
      BY <1>2, <3>1
         DEF DeployerStep, DeployAt, Start, Certificate, DnsRecord, UploadCode, SyncSecrets, Declines,
             LookForStack, RunChecks, ReadUrls,
             ApplyDeleteStack, ApplyDeleteBucket, ApplyEmptyBucket, ApplyFreeAlias, DeployStack,
             DeployFails, DeployRefused, SyncStatics, SyncFrontend, SyncFails, Invalidate
    <3>. QED BY <3>2, <3>3 DEF Exits, AddUrls, Extended, aws
  <2>3. AskSpares(d)
    <3>1. SUFFICES ASSUME stack.is = "ok", command # "platform", d \notin touched, deployer[d].at = "ask"
                   PROVE  /\ stack' = stack
                          /\ ~ deployer[d].blind =>
                               /\ alias' = alias
                               /\ bucketOf[d] = stack.bucket =>
                                    bucket'[stack.bucket] = bucket[stack.bucket]
      BY DEF AskSpares
    <3>2. /\ deployer[d].finding # "stack"
          /\ ~ deployer[d].blind =>
               /\ deployer[d].finding \notin {"stack", "exists", "alias"}
               /\ deployer[d].finding = "replaced" => deployer[d].target # bucketOf[d]
      BY <2>1, <3>1 DEF DeployerOk
    <3>3. \/ Exits(d) \/ Declines(d) \/ ApplyEmptyBucket(d)
          \/ deployer[d].blind /\ (ApplyDeleteBucket(d) \/ ApplyFreeAlias(d))
      BY <1>2, <3>1, <3>2
         DEF DeployerStep, DeployAt, Start, Certificate, DnsRecord, UploadCode, SyncSecrets,
             LookForStack, RunChecks, ReadUrls, AddUrls,
             ApplyDeleteStack, ApplyDeleteBucket, ApplyFreeAlias, DeployStack,
             DeployFails, DeployRefused, SyncStatics, SyncFrontend, SyncFails, Invalidate
    <3>4. CASE Exits(d) \/ Declines(d)
      BY <3>4 DEF Exits, Declines, aws
    <3>5. CASE ApplyEmptyBucket(d)
      BY <2>1, <3>2, <3>5 DEF ApplyEmptyBucket
    <3>6. CASE deployer[d].blind /\ (ApplyDeleteBucket(d) \/ ApplyFreeAlias(d))
      BY <3>6 DEF ApplyDeleteBucket, ApplyFreeAlias
    <3>. QED BY <3>3, <3>4, <3>5, <3>6
  <2>. QED BY <2>2, <2>3
<1>3. CASE UNCHANGED deployVars \/ Invalidated \/ Visit
  BY <1>1, <1>3 DEF deployVars, Invalidated, Visit
<1>4. ASSUME NEW o \in Deployers, o # d, DeployerStep(o) PROVE deployer'[d] = deployer[d]
  BY <1>4, OwnStep
<1>. QED BY <1>1, <1>2, <1>3, <1>4 DEF DeployNext, DeployerStep

(* Whatever calls fail and however runs interleave, a stack that is on the air  *)
(* finds its code and its secret, and a run that reports completion leaves no   *)
(* visitor with the old frontend for good.                                      *)
THEOREM StacksAreServed == DeploySpec => []StackIsServed
<1>1. DeployInv => StackIsServed
  <2> SUFFICES ASSUME DeployInv PROVE StackIsServed
    OBVIOUS
  <2>1. StackFindsItsCode
    BY DEF DeployInv, AwsOk
  <2>2. CompleteIsFresh
    BY DEF CompleteIsFresh, DeployInv, DeployerOk, AfterInvalidate, DeployAt
  <2>. QED BY <2>1, <2>2 DEF StackIsServed
<1>. QED BY DeployInitInv, DeployNextKeeps, <1>1, PTL DEF DeploySpec

(* A resolution that a run offers and applies never harms the live cell, and    *)
(* its own callback never drops another's, unless another run has come between; *)
(* one that missed the live stack or its distribution spares the stack alone.   *)
THEOREM DeploysSpare == DeploySpec => DeploySpares
<1>1. DeployInv /\ [DeployNext]_deployVars =>
        [stack.is = "ok" /\ command # "platform" =>
           \A d \in Deployers \ touched :
             deployer[d].at = "ask" /\ deployer'[d].at # "ask" =>
               /\ stack' = stack
               /\ ~ deployer[d].blind =>
                    /\ alias' = alias
                    /\ bucketOf[d] = stack.bucket => bucket'[stack.bucket] = bucket[stack.bucket]
        ]_deployVars
  BY RunsSpare DEF AskSpares
<1>2. DeployInv /\ [DeployNext]_deployVars =>
        [\A d \in Deployers \ outdated :
           DeployAt(d, "addUrls") /\ deployer'[d].at # "addUrls" => urls \subseteq urls']_deployVars
  BY RunsSpare DEF AddSpares
<1>. QED BY DeployInitInv, DeployNextKeeps, <1>1, <1>2, PTL
        DEF DeploySpec, DeploySpares, LiveCellUnharmed, CallbacksKept

-----------------------------------------------------------------------------
(* Host names and certificates. *)

(* The induction over numbers that the proofs need: a set of numbers has a     *)
(* smallest one.                                                               *)
LEMMA SmallestOf ==
  ASSUME NEW T, T \subseteq Nat, T # {}
  PROVE  \E n \in T : \A m \in T : n <= m
<1>. DEFINE R == {ss \in Nat \X Nat : ss[1] < ss[2]}
<1>1. R = OpToRel(<, Nat)
  BY DEF OpToRel
<1>2. IsWellFoundedOn(R, Nat)
  BY <1>1, NatLessThanWellFounded, Zenon
<1>3. \E x \in T : \A y \in T : ~ (<<y, x>> \in R)
  <2>. HIDE DEF R
  <2>. QED BY <1>2, WFMin
<1>4. \A x, y \in Nat : <<y, x>> \notin R => x <= y
  <2>. SUFFICES ASSUME NEW x \in Nat, NEW y \in Nat, ~ (x <= y) PROVE <<y, x>> \in R
    OBVIOUS
  <2>1. y < x OBVIOUS
  <2>2. <<y, x>> \in Nat \X Nat /\ <<y, x>>[1] = y /\ <<y, x>>[2] = x OBVIOUS
  <2>. QED BY <2>1, <2>2
<1>. HIDE DEF R
<1>. QED BY <1>3, <1>4

(* A bounded set of numbers has a greatest one, which Max names. *)
LEMMA MaxOf ==
  ASSUME NEW T, T # {}, NEW n \in Nat, T \subseteq 0..n
  PROVE  Max(T) \in T /\ \A m \in T : m <= Max(T)
<1>. DEFINE U == {k \in Nat : n - k \in T}
<1>1. U \subseteq Nat /\ U # {}
  <2>1. PICK m \in T : TRUE
    OBVIOUS
  <2>2. n - m \in Nat /\ n - (n - m) = m
    OBVIOUS
  <2>. QED BY <2>1, <2>2
<1>2. PICK k \in U : \A j \in U : k <= j
  <2>. HIDE DEF U
  <2>. QED BY <1>1, SmallestOf
<1>3. n - k \in T
  OBVIOUS
<1>4. \A m \in T : m <= n - k
  <2>. SUFFICES ASSUME NEW m \in T PROVE m <= n - k
    OBVIOUS
  <2>1. m \in 0..n /\ n - m \in Nat /\ n - (n - m) = m
    OBVIOUS
  <2>2. n - m \in U
    BY <2>1
  <2>3. k \in Nat /\ k <= n - m
    BY <1>2, <2>2
  <2>. QED BY <2>1, <2>3
<1>5. \E x \in T : \A y \in T : x >= y
  BY <1>3, <1>4
<1>. HIDE DEF U
<1>6. Max(T) \in T /\ \A y \in T : Max(T) >= y
  BY <1>5 DEF Max
<1>. QED BY <1>6

ZoneRecords == [id : Nat, name : ZoneNames, writer : DomainDeploys \union {NoWriter}]
DomainCommands ==
  [at : {"idle", "find", "record", "list", "write", "wait", "look", "stack", "done", "failed"},
   cert : Nat, purpose : {"check", "host"}, seen : SUBSET ZoneRecords,
   stacked : BOOLEAN, missed : BOOLEAN, lost : BOOLEAN]

(* Two names that an otavia deploy begun would take for each other; a record is *)
(* renamed within its kin only, so one that was listed is found there by its id. *)
Kin(n, m) ==
  \/ n = m
  \/ /\ n.purpose = "host" /\ m.purpose = "host"
     /\ \E a \in DomainDeploys : /\ DomainTool[a] = "otavia" /\ Begun(a)
                                 /\ Claims(a, n.of) /\ Claims(a, m.of)

LeadsTo(r, d) == r.name.of = DomainOf[d] /\ r.name.purpose # "check" /\ r.writer = d

(* What a command may rely on of the zone and the certificates, at each step. *)
CommandOk(d) ==
  LET r == deploys[d]
  IN  /\ r.at = "look" => DomainTool[d] = "route53"
      /\ r.at \in {"find", "record", "list", "write", "wait"} => DomainTool[d] # "route53"
      /\ r.stacked => DomainTool[d] = "route53"
      /\ r.at = "done" /\ DomainTool[d] = "route53" => r.stacked
      /\ r.at = "write" => \A s \in r.seen : /\ SameRecord(d, s)
                                             /\ \E z \in zone : z.id = s.id /\ Kin(z.name, s.name)
      /\ Undisputed(d) /\ r.at = "write" =>
           \A s \in r.seen : LeadsTo(s, d) => s \in zone
      /\ Undisputed(d) /\ (r.stacked \/ (r.at = "done" /\ ~r.missed)) /\ ~r.lost =>
           \E z \in zone : LeadsTo(z, d)
      /\ r.cert <= Cardinality(certs)
      /\ r.at = "stack" /\ DomainTool[d] # "route53" =>
           \E c \in certs : c.id = r.cert /\ c.status = "issued"

ZoneOk ==
  /\ zone \subseteq ZoneRecords
  /\ \A r, s \in zone : r.id = s.id => r = s
  /\ \E n \in Nat : \A r \in zone : r.id <= n
  /\ OthersStand

CertificatesOk ==
  /\ IsFiniteSet(certs)
  /\ certs \subseteq [id : Nat, host : DomainHosts, status : {"pending", "issued", "failed"}]
  /\ \A c, e \in certs : c.id = e.id => c = e
  /\ \A c \in certs : c.id \in 1..Cardinality(certs)

DomainsInv ==
  /\ deploys \in [DomainDeploys -> DomainCommands]
  /\ ZoneOk
  /\ CertificatesOk
  /\ \A d \in DomainDeploys : CommandOk(d)

LEMMA DomainsStart == DomainsInit => DomainsInv
<1>. SUFFICES ASSUME DomainsInit PROVE DomainsInv
  OBVIOUS
<1>1. deploys \in [DomainDeploys -> DomainCommands]
  BY DEF DomainsInit, DomainCommands, Unbegun, NoCert
<1>2. CertificatesOk
  BY FS_EmptySet DEF DomainsInit, CertificatesOk
<1>3. \E n \in Nat : \A r \in OtherRecords : r.id <= n
  <2>1. Cardinality(OtherRecords) \in Nat
    BY RecordsAssumption, FS_CardinalityType
  <2>. QED BY <2>1, RecordsAssumption
<1>4. ZoneOk
  BY <1>3, RecordsAssumption DEF DomainsInit, ZoneOk, ZoneRecords, OthersStand
<1>5. ASSUME NEW d \in DomainDeploys PROVE CommandOk(d)
  BY FS_EmptySet DEF DomainsInit, CommandOk, Unbegun, NoCert
<1>. QED BY <1>1, <1>2, <1>4, <1>5 DEF DomainsInv

(* Of two otavia deploys that may take one host, one may take all that either may. *)
LEMMA OneFamily ==
  ASSUME NEW a \in DomainDeploys, NEW b \in DomainDeploys, NEW h \in DomainHosts,
         DomainTool[a] = "otavia", DomainTool[b] = "otavia", Claims(a, h), Claims(b, h)
  PROVE  \E c \in {a, b} : \A g \in DomainHosts : Claims(a, g) \/ Claims(b, g) => Claims(c, g)
<1>1. DomainOf[a] \in DomainHosts /\ DomainOf[b] \in DomainHosts
  BY DEF DomainHosts
<1>2. \/ DomainOf[a] = DomainOf[b]
      \/ <<DomainOf[a], DomainOf[b]>> \in LabelBegins
      \/ <<DomainOf[b], DomainOf[a]>> \in LabelBegins
  BY <1>1, LabelsAssumption DEF Claims
<1>. QED BY <1>1, <1>2, LabelsAssumption DEF Claims

LEMMA KinOfKin ==
  ASSUME NEW l \in ZoneNames, NEW m \in ZoneNames, NEW n \in ZoneNames, Kin(l, m), Kin(m, n)
  PROVE  Kin(l, n)
<1>1. CASE l = m \/ m = n
  BY <1>1
<1>2. CASE l # m /\ m # n
  <2>1. /\ l.purpose = "host" /\ n.purpose = "host"
        /\ l.of \in DomainHosts /\ m.of \in DomainHosts /\ n.of \in DomainHosts
    BY <1>2 DEF Kin, ZoneNames
  <2>2. PICK a \in DomainDeploys : /\ DomainTool[a] = "otavia" /\ Begun(a)
                                   /\ Claims(a, l.of) /\ Claims(a, m.of)
    BY <1>2 DEF Kin
  <2>3. PICK b \in DomainDeploys : /\ DomainTool[b] = "otavia" /\ Begun(b)
                                   /\ Claims(b, m.of) /\ Claims(b, n.of)
    BY <1>2 DEF Kin
  <2>4. PICK c \in {a, b} : \A g \in DomainHosts : Claims(a, g) \/ Claims(b, g) => Claims(c, g)
    BY <2>1, <2>2, <2>3, OneFamily
  <2>5. c \in DomainDeploys /\ DomainTool[c] = "otavia" /\ Begun(c)
    BY <2>2, <2>3
  <2>. QED BY <2>1, <2>2, <2>3, <2>4, <2>5 DEF Kin
<1>. QED BY <1>1, <1>2

(* The identifier of a new record is none that the zone has. *)
LEMMA NewIdIsNew ==
  ASSUME ZoneOk
  PROVE  NewId \in Nat /\ \A r \in zone : r.id # NewId
<1>. DEFINE ids == {r.id : r \in zone} \union {0}
<1>1. PICK n \in Nat : \A r \in zone : r.id <= n
  BY DEF ZoneOk
<1>2. ids \subseteq 0..n /\ ids # {}
  BY <1>1 DEF ZoneOk, ZoneRecords
<1>3. Max(ids) \in ids /\ \A i \in ids : i <= Max(ids)
  <2>. HIDE DEF ids
  <2>. QED BY <1>2, MaxOf
<1>4. Max(ids) \in Nat
  BY <1>2, <1>3
<1>5. \A r \in zone : r.id \in Nat /\ r.id <= Max(ids)
  BY <1>3 DEF ZoneOk, ZoneRecords
<1>6. NewId = 1 + Max(ids)
  BY DEF NewId
<1>. HIDE DEF ids
<1>. QED BY <1>4, <1>5, <1>6

(* A step of one command leaves the others' records, and none is ever un-begun. *)
LEMMA OthersWait ==
  ASSUME DomainsInv, NEW d \in DomainDeploys, DeployStep(d)
  PROVE  /\ \A o \in DomainDeploys \ {d} : deploys'[o] = deploys[o]
         /\ DOMAIN deploys' = DomainDeploys
         /\ Begun(d) \/ deploys[d].at = "idle"
  BY DEF DomainsInv, Begun, DeployStep, DeployMoves, BeginDeploy, UseCertificate, RequestCertificate,
         ValidationRecord, ListRecords, WriteRefused, CreateRecord, UpdateRecord, WriteRecord,
         LookForConflict, AwaitCertificate, StackFails, DeployAddress, DeployDistribution

LEMMA StepTyped ==
  ASSUME DomainsInv, NEW d \in DomainDeploys, DeployStep(d)
  PROVE  deploys' \in [DomainDeploys -> DomainCommands] /\ Begun(d)'
<1>. USE DEF DomainCommands, DomainsInv
<1>0. zone \subseteq ZoneRecords /\ certs \subseteq [id : Nat, host : DomainHosts, status : {"pending", "issued", "failed"}]
      /\ Cardinality(certs) \in Nat
  BY FS_CardinalityType DEF ZoneOk, CertificatesOk
<1>1. CASE BeginDeploy(d)
  <2>1. PICK blind \in BOOLEAN :
          deploys' = [deploys EXCEPT ![d] =
            [Unbegun EXCEPT !.at = FirstStep(d, blind), !.purpose = FirstPurpose(d),
                            !.stacked = deploys[d].stacked, !.lost = deploys[d].lost]]
    BY <1>1 DEF BeginDeploy
  <2>2. FirstStep(d, blind) \in {"list", "stack", "look", "find"} /\ FirstPurpose(d) \in {"check", "host"}
    BY DEF FirstStep, FirstPurpose
  <2>. QED BY <2>1, <2>2 DEF Unbegun, NoCert, Begun
<1>2. CASE UseCertificate(d) \/ RequestCertificate(d) \/ ValidationRecord(d)
  BY <1>0, <1>2 DEF UseCertificate, RequestCertificate, ValidationRecord, DeployMoves, Begun
<1>3. CASE ListRecords(d)
  <2>1. {r \in zone : SameRecord(d, r)} \in SUBSET ZoneRecords
    BY <1>0
  <2>. QED BY <1>3, <2>1 DEF ListRecords, WriteRefused, DeployMoves, Begun
<1>4. CASE CreateRecord(d) \/ UpdateRecord(d)
  BY <1>4 DEF CreateRecord, UpdateRecord, WriteRecord, WriteRefused, Written, DeployMoves, Begun
<1>5. CASE LookForConflict(d) \/ AwaitCertificate(d) \/ StackFails(d)
  BY <1>5 DEF LookForConflict, AwaitCertificate, StackFails, DeployMoves, Begun
<1>6. CASE DeployAddress(d) \/ DeployDistribution(d)
  BY <1>6 DEF DeployAddress, DeployDistribution, DeployMoves, Begun
<1>. QED BY <1>1, <1>2, <1>3, <1>4, <1>5, <1>6 DEF DeployStep

(* The certificates: an issued one stays, and no step has fewer of them. *)
LEMMA CertificatesStay ==
  ASSUME DomainsInv,
         \/ \E d \in DomainDeploys : DeployStep(d)
         \/ \E c \in certs : Issue(c) \/ GiveUpOn(c)
  PROVE  /\ CertificatesOk'
         /\ Cardinality(certs) <= Cardinality(certs')
         /\ \A c \in certs : c.status = "issued" => c \in certs'
<1>0. CertificatesOk /\ Cardinality(certs) \in Nat
  BY FS_CardinalityType DEF DomainsInv, CertificatesOk
<1>1. CASE certs' = certs
  BY <1>0, <1>1 DEF CertificatesOk
<1>2. ASSUME NEW d \in DomainDeploys, RequestCertificate(d)
      PROVE  /\ CertificatesOk'
             /\ Cardinality(certs) <= Cardinality(certs')
             /\ \A c \in certs : c.status = "issued" => c \in certs'
  <2>. DEFINE n == Cardinality(certs) + 1
              e == [id |-> n, host |-> DomainOf[d], status |-> "pending"]
  <2>1. certs' = certs \union {e}
    BY <1>2 DEF RequestCertificate
  <2>2. n \in Nat /\ \A c \in certs : c.id # n
    BY <1>0 DEF CertificatesOk
  <2>3. e \notin certs
    BY <2>2
  <2>4. IsFiniteSet(certs') /\ Cardinality(certs') = n
    <3>. HIDE DEF e
    <3>. QED BY <1>0, <2>1, <2>3, FS_AddElement DEF CertificatesOk
  <2>5. e \in [id : Nat, host : DomainHosts, status : {"pending", "issued", "failed"}]
    BY <2>2 DEF DomainHosts
  <2>6. e.id = n /\ n \in 1..n
    BY <1>0
  <2>7. \A c \in certs : c.id \in 1..n
    BY <1>0 DEF CertificatesOk
  <2>8. Cardinality(certs) <= n
    BY <1>0
  <2>. HIDE DEF n, e
  <2>9. \A c, x \in certs' : c.id = x.id => c = x
    BY <1>0, <2>1, <2>2, <2>6 DEF CertificatesOk
  <2>10. \A c \in certs' : c.id \in 1..Cardinality(certs')
    BY <2>1, <2>4, <2>6, <2>7
  <2>11. certs' \subseteq [id : Nat, host : DomainHosts, status : {"pending", "issued", "failed"}]
    BY <1>0, <2>1, <2>5 DEF CertificatesOk
  <2>. QED BY <2>1, <2>4, <2>8, <2>9, <2>10, <2>11 DEF CertificatesOk
<1>3. ASSUME NEW c \in certs, NEW status \in {"issued", "failed"}, Settled(c, status), c.status = "pending"
      PROVE  /\ CertificatesOk'
             /\ Cardinality(certs) <= Cardinality(certs')
             /\ \A x \in certs : x.status = "issued" => x \in certs'
  <2>. DEFINE e == [c EXCEPT !.status = status]
              rest == certs \ {c}
  <2>1. certs' = rest \union {e}
    BY <1>3 DEF Settled
  <2>2. e.id = c.id /\ e \in [id : Nat, host : DomainHosts, status : {"pending", "issued", "failed"}]
    BY <1>0 DEF CertificatesOk
  <2>3. e \notin rest
    BY <1>0, <2>2 DEF CertificatesOk
  <2>4. IsFiniteSet(rest) /\ Cardinality(rest) = Cardinality(certs) - 1
    BY <1>0, FS_RemoveElement DEF CertificatesOk
  <2>. HIDE DEF e, rest
  <2>5. IsFiniteSet(certs') /\ Cardinality(certs') = Cardinality(certs)
    <3>1. IsFiniteSet(rest \union {e}) /\ Cardinality(rest \union {e}) = Cardinality(rest) + 1
      BY <2>3, <2>4, FS_AddElement
    <3>. QED BY <1>0, <2>1, <2>4, <3>1
  <2>6. \A x \in certs : x \in rest \/ x = c
    BY DEF rest
  <2>7. \A x \in rest : x \in certs /\ x.id # c.id
    BY <1>0 DEF rest, CertificatesOk
  <2>. QED BY <1>0, <1>3, <2>1, <2>2, <2>5, <2>6, <2>7 DEF CertificatesOk
<1>4. ASSUME NEW d \in DomainDeploys, DeployStep(d), ~RequestCertificate(d)
      PROVE  certs' = certs
  BY <1>4 DEF DeployStep, BeginDeploy, UseCertificate,
         ValidationRecord, ListRecords, CreateRecord, UpdateRecord,
         LookForConflict, AwaitCertificate, StackFails, DeployAddress, DeployDistribution
<1>. QED BY <1>1, <1>2, <1>3, <1>4 DEF Issue, GiveUpOn

(* Whoever has listed a record may take its host or has one of its kin. *)
LEMMA ListedIsKin ==
  ASSUME NEW d \in DomainDeploys, Begun(d), NEW s \in ZoneRecords, SameRecord(d, s)
  PROVE  Kin(Wanted(d), s.name) /\ Claims(d, s.name.of)
<1>1. s.name = Wanted(d) => s.name.of = DomainOf[d]
  BY DEF Wanted, ZoneName
<1>2. Wanted(d).of = DomainOf[d]
  BY DEF Wanted, ZoneName
<1>. QED BY <1>1, <1>2 DEF SameRecord, BeginsWith, Kin, Claims

(* What becomes of a record that a step of d takes from the zone: it was the *)
(* address of the host, or it is renamed within its kin; somebody begun may  *)
(* take its host, and it is not the host of another that is undisputed.     *)
LEMMA TakenRecord ==
  ASSUME DomainsInv, NEW d \in DomainDeploys, DeployStep(d), NEW z \in zone, z \notin zone'
  PROVE  /\ \/ z.name.purpose = "address"
            \/ \E y \in zone' : y.id = z.id /\ Kin(y.name, z.name)
         /\ \E a \in DomainDeploys : Begun(a) /\ Claims(a, z.name.of)
         /\ \A o \in DomainDeploys \ {d} : Undisputed(o) => z.name.of # DomainOf[o]
<1>0. /\ zone \subseteq ZoneRecords /\ deploys[d] \in DomainCommands /\ CommandOk(d)
      /\ \A r, s \in zone : r.id = s.id => r = s
  BY DEF DomainsInv, ZoneOk
<1>1. CASE LookForConflict(d)
  <2>1. z \in AddressesOf(d) /\ Begun(d)
    BY <1>1 DEF LookForConflict, Begun
  <2>2. z.name.purpose = "address" /\ z.name.of = DomainOf[d]
    BY <2>1 DEF AddressesOf, ZoneName
  <2>. QED BY <2>1, <2>2 DEF Undisputed, Claims
<1>2. CASE ~LookForConflict(d)
  <2>1. PICK s \in deploys[d].seen :
          /\ deploys[d].at = "write"
          /\ zone' = {r \in zone : r.id # s.id} \union {ZoneRecord(s.id, Wanted(d), WriterOf(d))}
    <3>1. CASE CreateRecord(d)
      <4>1. \A r \in zone : r.id # NewId
        BY NewIdIsNew DEF DomainsInv
      <4>2. zone' = zone \/ zone' = {r \in zone : r.id # NewId} \union {ZoneRecord(NewId, Wanted(d), WriterOf(d))}
        BY <3>1 DEF CreateRecord, WriteRecord
      <4>. QED BY <4>1, <4>2
    <3>2. CASE UpdateRecord(d)
      BY <3>2 DEF UpdateRecord, WriteRecord
    <3>3. CASE ~CreateRecord(d) /\ ~UpdateRecord(d)
      BY <1>2, <3>3 DEF DeployStep, BeginDeploy, UseCertificate, RequestCertificate,
         ValidationRecord, ListRecords, AwaitCertificate, StackFails, DeployAddress, DeployDistribution
    <3>. QED BY <3>1, <3>2, <3>3
  <2>2. z.id = s.id
    BY <2>1
  <2>3. s \in ZoneRecords /\ Begun(d) /\ SameRecord(d, s)
    BY <1>0, <2>1 DEF DomainCommands, Begun, CommandOk
  <2>4. Kin(z.name, s.name)
    BY <1>0, <2>1, <2>2 DEF CommandOk
  <2>5. Kin(Wanted(d), s.name) /\ Claims(d, s.name.of)
    BY <2>3, ListedIsKin
  <2>6. z.name \in ZoneNames /\ s.name \in ZoneNames /\ Wanted(d) \in ZoneNames
    BY <1>0, <2>3 DEF ZoneRecords, ZoneNames, Wanted, ZoneName, DomainHosts, DomainCommands
  <2>7. Kin(s.name, z.name)
    BY <2>4 DEF Kin
  <2>8. Kin(Wanted(d), z.name)
    <3>1. \A l, m, n \in ZoneNames : Kin(l, m) /\ Kin(m, n) => Kin(l, n)
      BY KinOfKin
    <3>. QED BY <2>5, <2>6, <2>7, <3>1
  <2>9. \E y \in zone' : y.id = z.id /\ Kin(y.name, z.name)
    <3>. DEFINE y == ZoneRecord(s.id, Wanted(d), WriterOf(d))
    <3>1. y \in zone'
      BY <2>1
    <3>2. y.id = s.id /\ y.name = Wanted(d)
      BY DEF ZoneRecord
    <3>. HIDE DEF y
    <3>3. Kin(y.name, z.name)
      BY <2>8, <3>2, Zenon
    <3>. QED BY <2>2, <3>1, <3>2, <3>3
  <2>10. \E a \in DomainDeploys : Begun(a) /\ Claims(a, z.name.of)
    BY <2>3, <2>4, <2>5 DEF Kin
  <2>11. ASSUME NEW o \in DomainDeploys \ {d}, Undisputed(o), z.name.of = DomainOf[o] PROVE FALSE
    <3>0. ~Claims(d, DomainOf[o]) /\ ~Claims(o, DomainOf[d])
      BY <2>3, <2>11 DEF Undisputed
    <3>1. z.name # s.name
      BY <2>5, <2>11, <3>0
    <3>2. PICK a \in DomainDeploys : /\ DomainTool[a] = "otavia" /\ Begun(a)
                                     /\ Claims(a, z.name.of) /\ Claims(a, s.name.of)
      BY <2>4, <3>1 DEF Kin
    <3>3. a = o
      BY <2>11, <3>2 DEF Undisputed
    <3>4. s.name.of \in DomainHosts /\ DomainOf[o] \in DomainHosts /\ DomainOf[d] \in DomainHosts
      BY <2>6 DEF ZoneNames, DomainHosts
    <3>5. CASE s.name.of = DomainOf[d]
      BY <3>0, <3>2, <3>3, <3>5
    <3>6. CASE s.name.of # DomainOf[d]
      <4>1. DomainTool[d] = "otavia"
        BY <2>5, <3>6 DEF Claims
      <4>2. PICK c \in {o, d} : \A g \in DomainHosts : Claims(o, g) \/ Claims(d, g) => Claims(c, g)
        BY <2>5, <3>2, <3>3, <3>4, <4>1, OneFamily
      <4>. QED BY <3>0, <3>4, <4>2 DEF Claims
    <3>. QED BY <3>5, <3>6
  <2>. QED BY <2>9, <2>10, <2>11
<1>. QED BY <1>1, <1>2

(* The zone stays well formed, and the others' records stand. *)
LEMMA ZoneStays ==
  ASSUME DomainsInv, NEW d \in DomainDeploys, DeployStep(d)
  PROVE  ZoneOk'
<1>0. ZoneOk /\ zone \subseteq ZoneRecords /\ deploys[d] \in DomainCommands
  BY DEF DomainsInv, ZoneOk
<1>1. Begun(d)' /\ \A o \in DomainDeploys : Begun(o) => Begun(o)'
  BY StepTyped, OthersWait DEF Begun
<1>2. OthersStand'
  <2>1. SUFFICES ASSUME NEW r \in OtherRecords, r \in zone, r \notin zone',
                        \A o \in DomainDeploys : Begun(o)' => ~Claims(o, r.name.of)
                 PROVE FALSE
    BY <1>0, <1>1 DEF ZoneOk, OthersStand, Claims
  <2>2. \E a \in DomainDeploys : Begun(a) /\ Claims(a, r.name.of)
    BY <2>1, TakenRecord
  <2>. QED BY <1>1, <2>1, <2>2
<1>3. \/ zone' \subseteq zone
      \/ \E id \in Nat, name \in ZoneNames, writer \in DomainDeploys \union {NoWriter} :
           zone' = {r \in zone : r.id # id} \union {ZoneRecord(id, name, writer)}
  <2>1. Wanted(d) \in ZoneNames /\ WriterOf(d) \in DomainDeploys \union {NoWriter}
    BY <1>0 DEF ZoneNames, Wanted, ZoneName, DomainHosts, DomainCommands, WriterOf
  <2>2. NewId \in Nat /\ \A r \in zone : r.id # NewId
    BY <1>0, NewIdIsNew
  <2>3. CASE CreateRecord(d)
    BY <2>1, <2>2, <2>3 DEF CreateRecord, WriteRecord
  <2>4. CASE UpdateRecord(d)
    <3>1. \A s \in deploys[d].seen : s.id \in Nat
      BY <1>0 DEF DomainCommands, ZoneRecords
    <3>. QED BY <2>1, <2>4, <3>1 DEF UpdateRecord, WriteRecord
  <2>5. CASE DeployAddress(d)
    <3>1. CASE zone' = zone
      BY <3>1
    <3>2. CASE zone' # zone
      <4>1. zone' = zone \union {ZoneRecord(NewId, ZoneName(DomainOf[d], "address"), d)}
        BY <2>5, <3>2 DEF DeployAddress
      <4>2. zone = {r \in zone : r.id # NewId}
        BY <2>2
      <4>3. ZoneName(DomainOf[d], "address") \in ZoneNames
        BY DEF ZoneNames, ZoneName, DomainHosts
      <4>. QED BY <2>2, <4>1, <4>2, <4>3
    <3>. QED BY <3>1, <3>2
  <2>6. CASE LookForConflict(d)
    BY <2>6 DEF LookForConflict
  <2>7. CASE ~CreateRecord(d) /\ ~UpdateRecord(d) /\ ~DeployAddress(d) /\ ~LookForConflict(d)
    BY <2>7 DEF DeployStep, BeginDeploy, UseCertificate, RequestCertificate,
         ValidationRecord, ListRecords, AwaitCertificate, StackFails, DeployDistribution
  <2>. QED BY <2>3, <2>4, <2>5, <2>6, <2>7
<1>4. CASE zone' \subseteq zone
  BY <1>0, <1>2, <1>4 DEF ZoneOk
<1>5. ASSUME NEW id \in Nat, NEW name \in ZoneNames, NEW writer \in DomainDeploys \union {NoWriter},
             zone' = {r \in zone : r.id # id} \union {ZoneRecord(id, name, writer)}
      PROVE  ZoneOk'
  <2>. DEFINE y == ZoneRecord(id, name, writer)
  <2>1. y \in ZoneRecords /\ y.id = id
    BY DEF ZoneRecord, ZoneRecords
  <2>2. \A r \in zone' : r = y \/ (r \in zone /\ r.id # id)
    BY <1>5
  <2>. HIDE DEF y
  <2>3. PICK n \in Nat : \A r \in zone : r.id <= n
    BY <1>0 DEF ZoneOk
  <2>4. \A r \in zone' : r.id <= n + id
    <3>1. \A r \in zone : r.id \in Nat
      BY <1>0 DEF ZoneRecords
    <3>. QED BY <2>1, <2>2, <2>3, <3>1
  <2>5. n + id \in Nat
    BY <2>3
  <2>6. zone' \subseteq ZoneRecords /\ \A r, s \in zone' : r.id = s.id => r = s
    BY <1>0, <2>1, <2>2 DEF ZoneOk
  <2>. QED BY <1>2, <2>4, <2>5, <2>6 DEF ZoneOk
<1>. QED BY <1>3, <1>4, <1>5

(* A command that rests keeps what it relies on, whatever another step does. *)
LEMMA RestingKeeps ==
  ASSUME DomainsInv, NEW o \in DomainDeploys, deploys'[o] = deploys[o],
         \A a \in DomainDeploys : Begun(a) => Begun(a)',
         \A z \in zone : z \notin zone' =>
           /\ z.name.purpose = "address" \/ \E y \in zone' : y.id = z.id /\ Kin(y.name, z.name)
           /\ Undisputed(o) => z.name.of # DomainOf[o],
         Cardinality(certs) <= Cardinality(certs'), CertificatesOk',
         \A c \in certs : c.status = "issued" => c \in certs',
         zone' \subseteq ZoneRecords
  PROVE  CommandOk(o)'
<1>0. /\ CommandOk(o) /\ deploys[o] \in DomainCommands /\ zone \subseteq ZoneRecords
      /\ Cardinality(certs) \in Nat /\ Cardinality(certs') \in Nat
  BY FS_CardinalityType DEF DomainsInv, ZoneOk, CertificatesOk
<1>1. Undisputed(o)' => Undisputed(o)
  BY DEF Undisputed
<1>2. \A m, n \in ZoneNames : Kin(m, n) => Kin(m, n)'
  BY DEF Kin
<1>3. \A s \in deploys[o].seen : SameRecord(o, s)' <=> SameRecord(o, s)
  BY DEF SameRecord, BeginsWith, Wanted
<1>4. ASSUME deploys[o].at = "write", NEW s \in deploys[o].seen
      PROVE  /\ SameRecord(o, s)'
             /\ \E y \in zone' : y.id = s.id /\ Kin(y.name, s.name)'
  <2>1. PICK z \in zone : z.id = s.id /\ Kin(z.name, s.name)
    BY <1>0, <1>4 DEF CommandOk
  <2>2. SameRecord(o, s) /\ s \in ZoneRecords /\ s.name \in ZoneNames /\ z.name \in ZoneNames
    BY <1>0, <1>4 DEF CommandOk, DomainCommands, ZoneRecords
  <2>3. s.name.purpose # "address"
    BY <1>0, <2>2 DEF SameRecord, BeginsWith, Wanted, ZoneName, DomainCommands
  <2>4. z.name.purpose # "address"
    BY <2>1, <2>3 DEF Kin
  <2>5. PICK y \in zone' : y.id = s.id /\ (y = z \/ Kin(y.name, z.name))
    BY <2>1, <2>4
  <2>6. y.name \in ZoneNames
    BY DEF ZoneRecords
  <2>7. Kin(y.name, s.name)
    <3>1. \A l, m, n \in ZoneNames : Kin(l, m) /\ Kin(m, n) => Kin(l, n)
      BY KinOfKin
    <3>2. Kin(y.name, z.name)
      BY <2>5 DEF Kin
    <3>. QED BY <2>1, <2>2, <2>6, <3>1, <3>2
  <2>. QED BY <1>2, <1>3, <1>4, <2>2, <2>5, <2>6, <2>7
<1>5. ASSUME NEW r \in zone, Undisputed(o)', LeadsTo(r, o)
      PROVE  r \in zone'
  BY <1>1, <1>5 DEF LeadsTo
<1>6. Undisputed(o)' /\ deploys[o].at = "write" =>
        \A s \in deploys[o].seen : LeadsTo(s, o) => s \in zone'
  BY <1>0, <1>1, <1>5 DEF CommandOk
<1>7. Undisputed(o)' /\ (deploys[o].stacked \/ (deploys[o].at = "done" /\ ~deploys[o].missed))
        /\ ~deploys[o].lost =>
        \E z \in zone' : LeadsTo(z, o)
  BY <1>0, <1>1, <1>5 DEF CommandOk
<1>8. deploys[o].cert <= Cardinality(certs')
  BY <1>0 DEF CommandOk, DomainCommands
<1>9. deploys[o].at = "stack" /\ DomainTool[o] # "route53" =>
        \E c \in certs' : c.id = deploys[o].cert /\ c.status = "issued"
  BY <1>0 DEF CommandOk
<1>10. /\ deploys[o].at = "look" => DomainTool[o] = "route53"
       /\ deploys[o].at \in {"find", "record", "list", "write", "wait"} => DomainTool[o] # "route53"
       /\ deploys[o].stacked => DomainTool[o] = "route53"
       /\ deploys[o].at = "done" /\ DomainTool[o] = "route53" => deploys[o].stacked
  BY <1>0 DEF CommandOk
<1>11. \A z : LeadsTo(z, o)' <=> LeadsTo(z, o)
  BY DEF LeadsTo
<1>. QED BY <1>4, <1>6, <1>7, <1>8, <1>9, <1>10, <1>11 DEF CommandOk

(* What a command's own step leaves it to rely on. *)
LEMMA CommandKeeps ==
  ASSUME DomainsInv, NEW d \in DomainDeploys, DeployStep(d)
  PROVE  CommandOk(d)'
<1>. DEFINE r == deploys[d]
            t == deploys'[d]
<1>0. /\ CommandOk(d) /\ r \in DomainCommands /\ zone \subseteq ZoneRecords
      /\ Cardinality(certs) \in Nat /\ Cardinality(certs') \in Nat /\ CertificatesOk
      /\ Cardinality(certs) <= Cardinality(certs')
      /\ t \in DomainCommands
  BY FS_CardinalityType, CertificatesStay, StepTyped DEF DomainsInv, ZoneOk, CertificatesOk
<1>1. deploys \in [DomainDeploys -> DomainCommands]
  BY DEF DomainsInv
<1>2. \A z : LeadsTo(z, d)' <=> LeadsTo(z, d)
  BY DEF LeadsTo
<1>3. Undisputed(d)' => Undisputed(d)
  BY OthersWait, StepTyped DEF Undisputed, Begun
<1>4. ASSUME r.stacked, ~r.lost, zone' = zone PROVE Undisputed(d)' => \E z \in zone' : LeadsTo(z, d)
  BY <1>0, <1>3, <1>4 DEF CommandOk
<1>5. CASE BeginDeploy(d)
  <2>0. PICK blind \in BOOLEAN :
          deploys' = [deploys EXCEPT ![d] =
            [Unbegun EXCEPT !.at = FirstStep(d, blind), !.purpose = FirstPurpose(d),
                            !.stacked = deploys[d].stacked, !.lost = deploys[d].lost]]
    BY <1>5 DEF BeginDeploy
  <2>1. /\ t.at = FirstStep(d, blind) /\ t.stacked = r.stacked /\ t.lost = r.lost
        /\ t.cert = 0 /\ ~t.missed /\ zone' = zone
    BY <1>1, <1>5, <2>0 DEF DomainCommands, BeginDeploy, Unbegun, NoCert
  <2>. HIDE DEF r, t
  <2>2. t.at = FirstStep(d, blind) =>
          /\ t.at \in {"list", "stack", "look", "find"}
          /\ t.at \in {"stack", "look"} => DomainTool[d] = "route53"
          /\ t.at \in {"list", "find"} => DomainTool[d] # "route53"
    BY DEF FirstStep, r
  <2>3. 0 <= Cardinality(certs')
    BY <1>0
  <2>. QED BY <1>0, <1>2, <1>4, <2>1, <2>2, <2>3 DEF CommandOk, r, t
<1>6. CASE UseCertificate(d)
  <2>1. PICK c \in certs : /\ IsIssued(c)
                           /\ deploys' = [deploys EXCEPT ![d].at = "stack", ![d].cert = c.id]
    BY <1>6 DEF UseCertificate
  <2>2. t.at = "stack" /\ t.cert = c.id /\ t.stacked = r.stacked /\ t.lost = r.lost /\ r.at = "find"
    BY <1>1, <1>6, <2>1 DEF DomainCommands, UseCertificate
  <2>3. certs' = certs /\ zone' = zone /\ c.status = "issued" /\ c.id <= Cardinality(certs)
    BY <1>0, <1>6, <2>1 DEF UseCertificate, IsIssued, CertificatesOk
  <2>. HIDE DEF r, t
  <2>. QED BY <1>0, <1>2, <1>4, <2>2, <2>3 DEF CommandOk, r, t
<1>7. CASE RequestCertificate(d)
  <2>1. /\ t.at = "record" /\ t.cert = Cardinality(certs) + 1 /\ t.stacked = r.stacked /\ t.lost = r.lost
        /\ zone' = zone /\ r.at = "find"
        /\ certs' = certs \union {[id |-> Cardinality(certs) + 1, host |-> DomainOf[d], status |-> "pending"]}
    BY <1>1, <1>7 DEF DomainCommands, RequestCertificate
  <2>2. t.cert <= Cardinality(certs')
    <3>1. [id |-> Cardinality(certs) + 1, host |-> DomainOf[d], status |-> "pending"] \in certs'
      BY <2>1
    <3>2. Cardinality(certs) + 1 \in 1..Cardinality(certs')
      BY <3>1, CertificatesStay DEF CertificatesOk
    <3>. QED BY <1>0, <2>1, <3>2
  <2>. HIDE DEF r, t
  <2>. QED BY <1>0, <1>2, <1>4, <2>1, <2>2 DEF CommandOk, r, t
<1>8. CASE ListRecords(d)
  <2>1. /\ zone' = zone /\ certs' = certs /\ r.at = "list" /\ t.stacked = r.stacked /\ t.lost = r.lost /\ t.cert = r.cert
    BY <1>1, <1>8 DEF DomainCommands, ListRecords, WriteRefused, DeployMoves
  <2>2. t.purpose = r.purpose
    BY <1>1, <1>8 DEF DomainCommands, ListRecords, WriteRefused, DeployMoves
  <2>3. \/ t.at = "write" /\ t.seen = {z \in zone : SameRecord(d, z)}
        \/ t.at = "failed"
        \/ t.at = "done" /\ t.missed
    BY <1>1, <1>8 DEF DomainCommands, ListRecords, WriteRefused, DeployMoves
  <2>4. \A z : SameRecord(d, z)' <=> SameRecord(d, z)
    BY <2>2 DEF SameRecord, BeginsWith, Wanted
  <2>5. \A z : Kin(z.name, z.name)'
    BY DEF Kin
  <2>6. DomainTool[d] # "route53" /\ t.cert <= Cardinality(certs')
    BY <1>0, <2>1 DEF CommandOk
  <2>7. CASE t.at # "write"
    <3>. HIDE DEF r, t
    <3>. QED BY <1>0, <1>2, <1>4, <2>1, <2>3, <2>6, <2>7 DEF CommandOk, r, t
  <2>8. CASE t.at = "write"
    <3>1. t.seen = {z \in zone : SameRecord(d, z)}
      BY <2>3, <2>8
    <3>2. \A s \in t.seen : s \in zone' /\ SameRecord(d, s)'
      BY <2>1, <2>4, <3>1
    <3>3. \A s \in t.seen : /\ SameRecord(d, s)'
                            /\ \E z \in zone' : z.id = s.id /\ Kin(z.name, s.name)'
      BY <2>5, <3>2
    <3>4. ~t.stacked
      BY <1>0, <2>1, <2>6 DEF CommandOk
    <3>. HIDE DEF r, t
    <3>. QED BY <2>1, <2>6, <2>8, <3>2, <3>3, <3>4 DEF CommandOk, r, t
  <2>. QED BY <2>7, <2>8
<1>9. CASE CreateRecord(d) \/ UpdateRecord(d)
  <2>1. r.at = "write" /\ certs' = certs /\ t.stacked = r.stacked /\ t.lost = r.lost /\ t.cert = r.cert
    BY <1>1, <1>9 DEF DomainCommands, CreateRecord, UpdateRecord, WriteRecord, WriteRefused, DeployMoves
  <2>2. /\ DomainTool[d] # "route53" /\ ~t.stacked /\ t.cert <= Cardinality(certs')
        /\ Undisputed(d) => \A s \in r.seen : LeadsTo(s, d) => s \in zone
        /\ \A s \in r.seen : SameRecord(d, s)
    BY <1>0, <2>1 DEF CommandOk
  <2>3. \/ t.at = "failed"
        \/ t.at = "done" /\ t.missed
        \/ /\ t.at = Written(d)
           /\ \/ \E id : ZoneRecord(id, Wanted(d), WriterOf(d)) \in zone'
              \/ zone' = zone /\ \E s \in r.seen : LeavesIt(d, s)
    <3>1. ASSUME NEW id, WriteRecord(d, id)
          PROVE  \/ t.at = "failed"
                 \/ t.at = "done" /\ t.missed
                 \/ t.at = Written(d) /\ ZoneRecord(id, Wanted(d), WriterOf(d)) \in zone'
      BY <1>1, <3>1 DEF DomainCommands, WriteRecord, WriteRefused, DeployMoves
    <3>2. ASSUME NEW s \in r.seen, LeavesIt(d, s), DeployMoves(d, Written(d)), UNCHANGED zone
          PROVE  t.at = Written(d) /\ zone' = zone /\ LeavesIt(d, s)
      BY <1>1, <3>2 DEF DomainCommands, DeployMoves
    <3>. HIDE DEF t
    <3>. QED BY <1>9, <3>1, <3>2 DEF CreateRecord, UpdateRecord
  <2>4. ASSUME t.at = "done", ~t.missed, Undisputed(d) PROVE \E z \in zone' : LeadsTo(z, d)
    <3>1. r.purpose = "host" /\ Written(d) = "done" /\ WriterOf(d) = d
      BY <1>0, <2>3, <2>4 DEF Written, WriterOf, DomainCommands
    <3>2. Wanted(d) = ZoneName(DomainOf[d], "host")
      BY <3>1 DEF Wanted
    <3>3. ASSUME NEW id, ZoneRecord(id, Wanted(d), WriterOf(d)) \in zone'
          PROVE  \E z \in zone' : LeadsTo(z, d)
      <4>1. LeadsTo(ZoneRecord(id, Wanted(d), WriterOf(d)), d)
        BY <3>1, <3>2 DEF LeadsTo, ZoneRecord, ZoneName
      <4>. QED BY <3>3, <4>1
    <3>4. ASSUME NEW s \in r.seen, LeavesIt(d, s), zone' = zone
          PROVE  \E z \in zone' : LeadsTo(z, d)
      <4>1. s.writer = d /\ s.name = ZoneName(DomainOf[d], "host")
        BY <2>2, <3>1, <3>2, <3>4 DEF LeavesIt, SameRecord
      <4>2. LeadsTo(s, d)
        BY <4>1 DEF LeadsTo, ZoneName
      <4>. QED BY <2>2, <2>4, <3>4, <4>2
    <3>. HIDE DEF r, t
    <3>. QED BY <2>3, <2>4, <3>3, <3>4
  <2>5. t.at \in {"wait", "done", "failed"}
    BY <2>3 DEF Written
  <2>. HIDE DEF r, t
  <2>. QED BY <1>0, <1>2, <1>3, <2>2, <2>4, <2>5 DEF CommandOk, r, t
<1>10. CASE ValidationRecord(d) \/ AwaitCertificate(d) \/ StackFails(d)
  <2>1. zone' = zone /\ certs' = certs /\ t.stacked = r.stacked /\ t.lost = r.lost /\ t.cert = r.cert
    BY <1>1, <1>10 DEF DomainCommands, ValidationRecord, AwaitCertificate, StackFails, DeployMoves
  <2>2. \/ t.at \in {"list", "wait"} /\ r.at = "record"
        \/ t.at = "failed"
        \/ t.at = "stack" /\ StatusOf(d) = {"issued"}
    BY <1>1, <1>10 DEF DomainCommands, ValidationRecord, AwaitCertificate, StackFails, DeployMoves
  <2>3. StatusOf(d) = {"issued"} => \E c \in certs : c.id = r.cert /\ c.status = "issued"
    BY DEF StatusOf
  <2>. HIDE DEF r, t
  <2>. QED BY <1>0, <1>2, <1>4, <2>1, <2>2, <2>3 DEF CommandOk, r, t
<1>11. CASE LookForConflict(d)
  <2>1. /\ certs' = certs /\ t.stacked = r.stacked /\ t.cert = r.cert
        /\ r.at = "look" /\ t.at \in {"stack", "failed"}
        /\ (zone' = zone /\ t.lost = r.lost) \/ (t.stacked => t.lost)
    BY <1>1, <1>11 DEF DomainCommands, LookForConflict, DeployMoves
  <2>2. DomainTool[d] = "route53"
    BY <1>0, <2>1 DEF CommandOk
  <2>. HIDE DEF r, t
  <2>. QED BY <1>0, <1>2, <1>4, <2>1, <2>2 DEF CommandOk, r, t
<1>12. CASE DeployAddress(d)
  <2>1. /\ certs' = certs /\ t.cert = r.cert
        /\ r.at = "stack" /\ DomainTool[d] = "route53"
        /\ \/ t.at = "failed" /\ zone' = zone /\ t.stacked = r.stacked /\ t.lost = r.lost /\ ~r.stacked
           \/ /\ t.at = "done" /\ t.stacked /\ t.lost = r.lost
              /\ \/ zone' = zone /\ r.stacked
                 \/ ZoneRecord(NewId, ZoneName(DomainOf[d], "address"), d) \in zone'
    BY <1>1, <1>12 DEF DomainCommands, DeployAddress, DeployMoves
  <2>2. LeadsTo(ZoneRecord(NewId, ZoneName(DomainOf[d], "address"), d), d)
    BY DEF LeadsTo, ZoneRecord, ZoneName
  <2>. HIDE DEF r, t
  <2>. QED BY <1>0, <1>2, <1>4, <2>1, <2>2 DEF CommandOk, r, t
<1>13. CASE DeployDistribution(d)
  <2>1. /\ certs' = certs /\ t.cert = r.cert /\ t.stacked = r.stacked /\ t.lost = r.lost /\ DomainTool[d] # "route53"
        /\ t.at = "list" \/ (t.at = "done" /\ t.missed)
    BY <1>1, <1>13 DEF DomainCommands, DeployDistribution
  <2>. HIDE DEF r, t
  <2>. QED BY <1>0, <2>1 DEF CommandOk, r, t
<1>. HIDE DEF r, t
<1>. QED BY <1>5, <1>6, <1>7, <1>8, <1>9, <1>10, <1>11, <1>12, <1>13 DEF DeployStep

LEMMA DomainsNextKeeps == DomainsInv /\ [DomainsNext]_domainVars => DomainsInv'
<1>1. ASSUME DomainsInv, NEW d \in DomainDeploys, DeployStep(d) PROVE DomainsInv'
  <2>1. deploys' \in [DomainDeploys -> DomainCommands] /\ ZoneOk' /\ CertificatesOk'
    BY <1>1, StepTyped, ZoneStays, CertificatesStay
  <2>2. ASSUME NEW o \in DomainDeploys, o # d PROVE CommandOk(o)'
    <3>1. deploys'[o] = deploys[o] /\ \A a \in DomainDeploys : Begun(a) => Begun(a)'
      BY <1>1, <2>2, OthersWait, StepTyped DEF DomainCommands, Begun
    <3>2. \A z \in zone : z \notin zone' =>
           /\ z.name.purpose = "address" \/ \E y \in zone' : y.id = z.id /\ Kin(y.name, z.name)
           /\ Undisputed(o) => z.name.of # DomainOf[o]
      BY <1>1, <2>2, TakenRecord
    <3>3. zone' \subseteq ZoneRecords
      BY <2>1 DEF ZoneOk
    <3>4. /\ Cardinality(certs) <= Cardinality(certs')
          /\ \A c \in certs : c.status = "issued" => c \in certs'
      BY <1>1, CertificatesStay
    <3>. QED BY <1>1, <2>1, <3>1, <3>2, <3>3, <3>4, RestingKeeps
  <2>. QED BY <1>1, <2>1, <2>2, CommandKeeps DEF DomainsInv
<1>2. ASSUME DomainsInv, NEW c \in certs, Issue(c) \/ GiveUpOn(c) PROVE DomainsInv'
  <2>1. zone' = zone /\ deploys' = deploys
    BY <1>2 DEF Issue, GiveUpOn
  <2>2. \A a \in DomainDeploys : Begun(a)' <=> Begun(a)
    BY <2>1 DEF Begun
  <2>3. deploys' \in [DomainDeploys -> DomainCommands] /\ ZoneOk' /\ zone' \subseteq ZoneRecords
    BY <1>2, <2>1, <2>2 DEF DomainsInv, ZoneOk, OthersStand, Claims
  <2>4. /\ CertificatesOk'
        /\ Cardinality(certs) <= Cardinality(certs')
        /\ \A x \in certs : x.status = "issued" => x \in certs'
    BY <1>2, CertificatesStay
  <2>5. ASSUME NEW o \in DomainDeploys PROVE CommandOk(o)'
    BY <1>2, <2>1, <2>2, <2>3, <2>4, RestingKeeps
  <2>. QED BY <2>3, <2>4, <2>5 DEF DomainsInv
<1>3. ASSUME DomainsInv, UNCHANGED domainVars PROVE DomainsInv'
  <2>1. zone' = zone /\ certs' = certs /\ deploys' = deploys
    BY <1>3 DEF domainVars
  <2>2. \A a \in DomainDeploys : Begun(a)' <=> Begun(a)
    BY <2>1 DEF Begun
  <2>3. /\ deploys' \in [DomainDeploys -> DomainCommands] /\ ZoneOk' /\ zone' \subseteq ZoneRecords
        /\ CertificatesOk' /\ Cardinality(certs) <= Cardinality(certs')
    BY <1>3, <2>1, <2>2, FS_CardinalityType
       DEF DomainsInv, ZoneOk, OthersStand, Claims, CertificatesOk
  <2>4. ASSUME NEW o \in DomainDeploys PROVE CommandOk(o)'
    BY <1>3, <2>1, <2>2, <2>3, RestingKeeps
  <2>. QED BY <2>3, <2>4 DEF DomainsInv
<1>. QED BY <1>1, <1>2, <1>3 DEF DomainsNext

(* Whatever is refused and however commands interleave: a host leads to what its *)
(* last good command has deployed and the records of others stand, unless some   *)
(* command begun may take the host or has its own taken, or the command was told *)
(* to remove the record of a live stack that it had missed; and no distribution  *)
(* is deployed with a certificate that is not issued.                             *)
THEOREM DomainsHold == DomainsSpec => []DomainsStand
<1>1. DomainsInv => DomainsStand
  <2>. SUFFICES ASSUME DomainsInv PROVE DomainsStand
    OBVIOUS
  <2>1. HostsLead
    BY DEF HostsLead, DomainsInv, CommandOk, LeadsTo
  <2>2. CertificatesHold
    <3>1. SUFFICES ASSUME NEW d \in DomainDeploys, deploys[d].at = "stack", DomainTool[d] # "route53"
                   PROVE  StatusOf(d) = {"issued"}
      BY DEF CertificatesHold
    <3>2. PICK c \in certs : c.id = deploys[d].cert /\ c.status = "issued"
      BY <3>1 DEF DomainsInv, CommandOk
    <3>3. {x \in certs : x.id = deploys[d].cert} = {c}
      BY <3>2 DEF DomainsInv, CertificatesOk
    <3>. QED BY <3>2, <3>3 DEF StatusOf
  <2>. QED BY <2>1, <2>2 DEF DomainsStand, DomainsInv, ZoneOk
<1>. QED BY DomainsStart, DomainsNextKeeps, <1>1, PTL DEF DomainsSpec

-----------------------------------------------------------------------------
(* How a request reaches a cell in development and in the cloud.  The two  *)
(* never look at each other: the invariant says of each alone what it will *)
(* answer to a URL, and that the two answers agree is then a fact of URLs  *)
(* and rules.                                                              *)

(* The texts of paths are compared segment by segment, so that of two that begin  *)
(* one URL one begins the other, and the rules that fit a URL have a longest one. *)
LEMMA BeginsOrder ==
  ASSUME NEW s \in Segments, NEW t \in Segments, NEW u \in Segments, Begins(s, t)
  PROVE  /\ Begins(t, u) => Begins(s, u)
         /\ Begins(s, u) => Begins(t, u) \/ Begins(u, t)
<1>1. CASE t = "" \/ u = "" \/ s = t \/ s = u
  BY <1>1, RoutesAssumption DEF Begins
<1>2. CASE ~ (t = "" \/ u = "" \/ s = t \/ s = u)
  <2>1. <<s, t>> \in Textual
    BY <1>2 DEF Begins
  <2>2. ASSUME Begins(t, u) PROVE Begins(s, u)
    <3>1. t = u \/ <<t, u>> \in Textual
      BY <1>2, <2>2 DEF Begins
    <3>. QED BY <2>1, <3>1, RoutesAssumption DEF Begins
  <2>3. ASSUME Begins(s, u) PROVE Begins(t, u) \/ Begins(u, t)
    <3>1. <<s, u>> \in Textual
      BY <1>2, <2>3 DEF Begins
    <3>. QED BY <2>1, <3>1, RoutesAssumption
  <2>. QED BY <2>2, <2>3
<1>. QED BY <1>1, <1>2

Paths == Seq(Segments) \ {<<>>}

LEMMA PathParts ==
  ASSUME NEW p \in Paths
  PROVE  p \in Seq(Segments) /\ Len(p) \in Nat /\ Len(p) >= 1 /\ \A i \in 1..Len(p) : p[i] \in Segments
BY DEF Paths

LEMMA StartsOrder ==
  ASSUME NEW a \in Paths, NEW b \in Paths, NEW c \in Paths, StartsWith(a, b)
  PROVE  /\ StartsWith(b, c) => StartsWith(a, c)
         /\ StartsWith(a, c) => StartsWith(b, c) \/ StartsWith(c, b)
<1>1. /\ Len(a) \in Nat /\ Len(b) \in Nat /\ Len(c) \in Nat
      /\ Len(a) >= 1 /\ Len(b) >= 1 /\ Len(c) >= 1 /\ Len(b) <= Len(a)
      /\ a[Len(b)] \in Segments /\ b[Len(b)] \in Segments /\ c[Len(c)] \in Segments
      /\ \A i \in 1..(Len(b) - 1) : a[i] = b[i]
      /\ Begins(a[Len(b)], b[Len(b)])
  <2>1. /\ Len(a) \in Nat /\ Len(b) \in Nat /\ Len(c) \in Nat
        /\ Len(a) >= 1 /\ Len(b) >= 1 /\ Len(c) >= 1
    BY PathParts
  <2>2. Len(b) <= Len(a) /\ (\A i \in 1..(Len(b) - 1) : a[i] = b[i]) /\ Begins(a[Len(b)], b[Len(b)])
    BY DEF StartsWith
  <2>. QED BY <2>1, <2>2, PathParts
<1>2. ASSUME StartsWith(b, c) PROVE StartsWith(a, c)
  <2>1. /\ Len(c) <= Len(b) /\ Begins(b[Len(c)], c[Len(c)]) /\ \A i \in 1..(Len(c) - 1) : b[i] = c[i]
    BY <1>2 DEF StartsWith
  <2>2. Len(c) <= Len(a) /\ \A i \in 1..(Len(c) - 1) : a[i] = c[i]
    BY <1>1, <2>1
  <2>3. CASE Len(c) = Len(b)
    BY <1>1, <2>1, <2>2, <2>3, BeginsOrder DEF StartsWith
  <2>4. CASE Len(c) < Len(b)
    <3>1. a[Len(c)] = b[Len(c)]
      BY <1>1, <2>4
    <3>. QED BY <2>1, <2>2, <3>1 DEF StartsWith
  <2>. QED BY <1>1, <2>1, <2>3, <2>4
<1>3. ASSUME StartsWith(a, c) PROVE StartsWith(b, c) \/ StartsWith(c, b)
  <2>1. /\ Len(c) <= Len(a) /\ Begins(a[Len(c)], c[Len(c)]) /\ \A i \in 1..(Len(c) - 1) : a[i] = c[i]
    BY <1>3 DEF StartsWith
  <2>2. CASE Len(b) = Len(c)
    <3>1. \A i \in 1..(Len(c) - 1) : b[i] = c[i]
      BY <1>1, <2>1, <2>2
    <3>2. Begins(b[Len(b)], c[Len(b)]) \/ Begins(c[Len(b)], b[Len(b)])
      BY <1>1, <2>1, <2>2, BeginsOrder
    <3>. QED BY <1>1, <2>2, <3>1, <3>2 DEF StartsWith
  <2>3. CASE Len(c) < Len(b)
    <3>1. b[Len(c)] = a[Len(c)] /\ \A i \in 1..(Len(c) - 1) : b[i] = c[i]
      BY <1>1, <2>1, <2>3
    <3>. QED BY <1>1, <2>1, <2>3, <3>1 DEF StartsWith
  <2>4. CASE Len(b) < Len(c)
    <3>1. c[Len(b)] = a[Len(b)] /\ \A i \in 1..(Len(b) - 1) : c[i] = b[i]
      BY <1>1, <2>1, <2>4
    <3>. QED BY <1>1, <2>1, <2>4, <3>1 DEF StartsWith
  <2>. QED BY <1>1, <2>2, <2>3, <2>4
<1>. QED BY <1>2, <1>3

LEMMA StartsItself == ASSUME NEW p \in Paths PROVE StartsWith(p, p)
<1>1. Len(p) \in Nat
  BY PathParts
<1>2. Len(p) <= Len(p) /\ Begins(p[Len(p)], p[Len(p)])
  BY <1>1 DEF Begins
<1>. QED BY <1>2 DEF StartsWith

Fitting(url) == {r \in ProxyRules : StartsWith(url, r.path)}

(* Of the rules that fit a URL, one is the longest, so the proxy finds a rule. *)
LEMMA LongestRule ==
  ASSUME NEW url \in Paths, \A r \in ProxyRules : r.path \in Paths, IsFiniteSet(Fitting(url)),
         Fitting(url) # {}
  PROVE  RuleFor(url) # {}
<1>. DEFINE F == Fitting(url)
            Left(r) == {q \in F : ~ StartsWith(r.path, q.path)}
            T == {Cardinality(Left(r)) : r \in F}
<1>1. \A r \in F : IsFiniteSet(Left(r)) /\ Left(r) \subseteq F
  BY FS_Subset
<1>2. T \subseteq Nat /\ T # {}
  BY <1>1, FS_CardinalityType
<1>3. PICK n \in T : \A m \in T : n <= m
  <2>. HIDE DEF T
  <2>. QED BY <1>2, SmallestOf
<1>4. PICK r \in F : n = Cardinality(Left(r))
  BY <1>3
<1>5. ASSUME NEW q \in Left(r) PROVE FALSE
  <2>1. /\ r \in ProxyRules /\ q \in ProxyRules /\ StartsWith(url, r.path) /\ StartsWith(url, q.path)
        /\ ~ StartsWith(r.path, q.path) /\ r.path \in Paths /\ q.path \in Paths
    BY <1>4, <1>5 DEF Fitting
  <2>2. StartsWith(q.path, r.path)
    BY <2>1, StartsOrder
  <2>3. ASSUME NEW x \in Left(q) PROVE x \in Left(r)
    <3>1. x \in F /\ x.path \in Paths /\ ~ StartsWith(q.path, x.path)
      BY <2>3 DEF Fitting
    <3>2. ~ StartsWith(r.path, x.path)
      BY <2>1, <2>2, <3>1, StartsOrder
    <3>. QED BY <3>1, <3>2
  <2>4. q \notin Left(q)
    <3>1. StartsWith(q.path, q.path)
      BY <2>1, StartsItself
    <3>. QED BY <3>1
  <2>5. Left(q) # Left(r) /\ Left(q) \subseteq Left(r)
    BY <1>5, <2>3, <2>4
  <2>6. Cardinality(Left(q)) < Cardinality(Left(r))
    <3>1. IsFiniteSet(Left(r)) /\ IsFiniteSet(Left(q))
      BY <1>1, <1>4, <1>5
    <3>2. Cardinality(Left(q)) \in Nat /\ Cardinality(Left(r)) \in Nat
      BY <3>1, FS_CardinalityType
    <3>. HIDE DEF Left
    <3>3. Cardinality(Left(q)) <= Cardinality(Left(r)) /\ Cardinality(Left(r)) # Cardinality(Left(q))
      BY <2>5, <3>1, FS_Subset
    <3>. QED BY <3>2, <3>3
  <2>7. q \in F
    BY <1>5
  <2>8. Cardinality(Left(q)) \in T
    BY <2>7
  <2>9. n <= Cardinality(Left(q)) /\ Cardinality(Left(q)) \in Nat /\ n \in Nat
    BY <1>2, <1>3, <2>8
  <2>. QED BY <1>4, <2>6, <2>9
<1>6. r \in F /\ \A q \in F : StartsWith(r.path, q.path)
  BY <1>4, <1>5
<1>. QED BY <1>6 DEF RuleFor, Fitting

(* The rules of a mounted URL are those of its own cell, and the one of .well-known *)
(* if the name of the mount begins like that.                                       *)
LEMMA RulesAre ==
  ASSUME NEW r \in ProxyRules
  PROVE  /\ r.path \in Paths /\ r.match \in Kinds2
         /\ \/ r = [path |-> <<WellKnown>>, match |-> "prefix"]
            \/ \E m \in Mounts : \E o \in RoutesOf[m] :
                 /\ r = Mounted(m, o) /\ r.path = <<m>> \o o.path /\ r.match = o.match
                 /\ o.path \in Seq(Segments) /\ Len(o.path) >= 1
                 /\ Len(r.path) = Len(o.path) + 1 /\ r.path[1] = m
<1>1. CASE r \in [path : {<<WellKnown>>}, match : {"prefix"}]
  <2>1. r.path = <<WellKnown>> /\ r.match = "prefix" /\ r = [path |-> <<WellKnown>>, match |-> "prefix"]
    BY <1>1
  <2>2. <<WellKnown>> \in Seq(Segments) /\ <<WellKnown>> # <<>>
    <3>1. WellKnown \in Segments
      BY RoutesAssumption
    <3>. QED BY <3>1
  <2>. QED BY <2>1, <2>2 DEF Paths, Kinds2
<1>2. ASSUME NEW m \in Mounts, NEW o \in RoutesOf[m], r = Mounted(m, o)
      PROVE  /\ r.path \in Paths /\ r.match \in Kinds2
             /\ r = Mounted(m, o) /\ r.path = <<m>> \o o.path /\ r.match = o.match
             /\ o.path \in Seq(Segments) /\ Len(o.path) >= 1
             /\ Len(r.path) = Len(o.path) + 1 /\ r.path[1] = m
  <2>1. o \in Route /\ m \in Segments
    BY RoutesAssumption
  <2>2. o.path \in Seq(Segments) /\ o.path # <<>> /\ o.match \in Kinds2
    BY <2>1 DEF Route
  <2>3. r.path = <<m>> \o o.path /\ r.match = o.match
    BY <1>2, <2>1 DEF Mounted, Route
  <2>4. Len(o.path) >= 1 /\ <<m>> \o o.path \in Seq(Segments) /\ Len(<<m>> \o o.path) = Len(o.path) + 1
        /\ (<<m>> \o o.path)[1] = m
    BY <2>1, <2>2
  <2>5. r.path \in Paths
    BY <2>2, <2>3, <2>4 DEF Paths
  <2>6. r.match \in Kinds2
    BY <2>2, <2>3
  <2>7. Len(r.path) = Len(o.path) + 1 /\ r.path[1] = m
    BY <2>3, <2>4
  <2>. QED BY <1>2, <2>2, <2>3, <2>4, <2>5, <2>6, <2>7
<1>3. r \in [path : {<<WellKnown>>}, match : {"prefix"}]
      \/ \E m \in Mounts : \E o \in RoutesOf[m] : r = Mounted(m, o)
  BY DEF ProxyRules
<1>. QED BY <1>1, <1>2, <1>3

LEMMA FittingFinite ==
  ASSUME NEW url \in Paths, url[1] \in Mounts
  PROVE  IsFiniteSet(Fitting(url))
<1>. DEFINE m == url[1]
            own == {Mounted(m, o) : o \in RoutesOf[m]}
            all == own \union {[path |-> <<WellKnown>>, match |-> "prefix"]}
<1>1. [o \in RoutesOf[m] |-> Mounted(m, o)] \in Surjection(RoutesOf[m], own)
  BY DEF Surjection
<1>2. IsFiniteSet(own)
  <2>1. IsFiniteSet(RoutesOf[m])
    BY RoutesAssumption
  <2>. HIDE DEF own
  <2>. QED BY <1>1, <2>1, FS_Surjection
<1>3. IsFiniteSet(all)
  BY <1>2, FS_AddElement
<1>4. ASSUME NEW r \in Fitting(url) PROVE r \in all
  <2>1. r \in ProxyRules /\ StartsWith(url, r.path)
    BY DEF Fitting
  <2>2. CASE r = [path |-> <<WellKnown>>, match |-> "prefix"]
    BY <2>2
  <2>3. ASSUME NEW n \in Mounts, NEW o \in RoutesOf[n], r = Mounted(n, o), r.path[1] = n,
               Len(r.path) = Len(o.path) + 1, Len(o.path) >= 1, o.path \in Seq(Segments)
        PROVE  r \in all
    <3>1. url[1] = n
      BY <2>1, <2>3 DEF StartsWith
    <3>. QED BY <2>3, <3>1
  <2>. QED BY <2>1, <2>2, <2>3, RulesAre
<1>. QED BY <1>3, <1>4, FS_Subset

(* What a rule declares it also fits, and a rule of a cell that declares a URL is *)
(* of the mount of the URL.                                                       *)
LEMMA DeclaredFits ==
  ASSUME NEW r \in ProxyRules, NEW url \in Paths, Declares(r, url)
  PROVE  /\ StartsWith(url, r.path) /\ url[1] = r.path[1]
         /\ url[1] # WellKnown => \E o \in RoutesOf[url[1]] : url[1] \in Mounts /\ r = Mounted(url[1], o)
<1>1. r.path \in Paths /\ r.match \in Kinds2 /\ Len(r.path) \in Nat /\ Len(r.path) >= 1
  BY RulesAre, PathParts
<1>2. StartsWith(url, r.path) /\ url[1] = r.path[1]
  <2>1. CASE r.match = "exact"
    BY <1>1, <2>1, StartsItself DEF Declares
  <2>2. CASE r.match # "exact"
    <3>1. StartsWith(url, Append(r.path, ""))
      BY <2>2 DEF Declares
    <3>2. /\ Len(Append(r.path, "")) = Len(r.path) + 1
          /\ \A i \in 1..Len(r.path) : Append(r.path, "")[i] = r.path[i]
      <4>1. r.path \in Seq(Segments) /\ "" \in Segments
        BY <1>1, RoutesAssumption DEF Paths
      <4>. HIDE DEF Paths
      <4>. QED BY <4>1, AppendProperties
    <3>3. Len(r.path) + 1 <= Len(url) /\ \A i \in 1..Len(r.path) : url[i] = r.path[i]
      <4>1. \A i \in 1..Len(r.path) : i \in 1..((Len(r.path) + 1) - 1)
        BY <1>1
      <4>. QED BY <3>1, <3>2, <4>1 DEF StartsWith
    <3>4. Len(url) \in Nat /\ Len(r.path) <= Len(url) /\ 1 \in 1..Len(r.path) /\ Len(r.path) \in 1..Len(r.path)
      BY <1>1, <3>3, PathParts
    <3>5. Begins(url[Len(r.path)], r.path[Len(r.path)])
      BY <3>3, <3>4 DEF Begins
    <3>6. \A i \in 1..(Len(r.path) - 1) : url[i] = r.path[i]
      BY <1>1, <3>3
    <3>7. StartsWith(url, r.path)
      BY <3>4, <3>5, <3>6 DEF StartsWith
    <3>. QED BY <3>3, <3>4, <3>7
  <2>. QED BY <2>1, <2>2
<1>3. ASSUME url[1] # WellKnown
      PROVE  \E o \in RoutesOf[url[1]] : url[1] \in Mounts /\ r = Mounted(url[1], o)
  <2>1. r # [path |-> <<WellKnown>>, match |-> "prefix"]
    BY <1>2, <1>3
  <2>. QED BY <1>2, <2>1, RulesAre
<1>. QED BY <1>2, <1>3

Home(url) == url = <<"">> \/ url[1] \in Mounts

(* What the two answer in the end. *)
ToGateway(url) == \E r \in RuleFor(url) : r.match = "prefix" \/ url = r.path
ToApi(url) == \E m \in Mounts : \E r \in EdgePatterns(m) : Declares(r, url)
DevAnswer(url) ==
  IF IsModule(url) THEN Script(url[1], Tail(url))
  ELSE IF ToGateway(url) THEN Backend(url[1], Tail(url))
  ELSE PageOf(IF url[1] \in Mounts THEN url[1] ELSE DefaultMount)
CloudAnswer(url) ==
  IF ToApi(url) THEN Backend(url[1], IF url[2] \in Strips[url[1]] THEN Unslashed(Tail(url)) ELSE url)
  ELSE IF url = <<"">> THEN PageOf(DefaultMount)
  ELSE IF IsFile(url) THEN Stored(url)
  ELSE IndexOf(url[1])

(* Where the request is on each side, and what the answer then has to be. *)
RoutesInv ==
  /\ \E at, url, answer : dev = [at |-> at, url |-> url, answer |-> answer]
  /\ \E at, url, answer : cloud = [at |-> at, url |-> url, answer |-> answer]
  /\ \E url, from : request = [url |-> url, from |-> from]
  /\ dev.at \in {"idle", "vite", "proxy", "gateway", "done"}
  /\ cloud.at \in {"idle", "edge", "lambda", "done"}
  /\ dev.at = "idle" <=> cloud.at = "idle"
  /\ dev.at # "idle" =>
       /\ request.url \in Urls
       /\ Home(request.url) =>
            /\ dev.at # "done" => dev.url = request.url
            /\ dev.at \in {"proxy", "gateway"} => ~IsModule(request.url)
            /\ dev.at = "gateway" => ToGateway(request.url)
            /\ dev.at = "done" => dev.answer = DevAnswer(request.url)
            /\ cloud.at # "done" => cloud.url = request.url
            /\ cloud.at = "lambda" => ToApi(request.url)
            /\ cloud.at = "done" => cloud.answer = CloudAnswer(request.url)

(* The empty segment by a name: the provers take it badly inside sequences. *)
Slash == ""

LEMMA SlashIs ==
  /\ Slash \in Segments /\ Slash \notin Mounts /\ Slash # WellKnown
  /\ \A url : Home(url) <=> url = <<Slash>> \/ url[1] \in Mounts
  /\ \A r, url : Declares(r, url) <=> IF r.match = "exact" THEN url = r.path
                                      ELSE StartsWith(url, Append(r.path, Slash))
  /\ \A m \in Mounts : \A r \in RoutesOf[m] : r.path[1] # Slash
  /\ \A path : Unslashed(path) =
       IF path # <<>> /\ path[Len(path)] = Slash THEN SubSeq(path, 1, Len(path) - 1) ELSE path
<1>1. Slash \in Segments /\ Slash \notin Mounts /\ Slash # WellKnown
  BY RoutesAssumption DEF Slash
<1>2. \A url : Home(url) <=> url = <<Slash>> \/ url[1] \in Mounts
  BY Zenon DEF Slash, Home
<1>3. \A r, url : Declares(r, url) <=> IF r.match = "exact" THEN url = r.path
                                      ELSE StartsWith(url, Append(r.path, Slash))
  BY Zenon DEF Slash, Declares
<1>4. \A m \in Mounts : \A r \in RoutesOf[m] : r.path[1] # Slash
  BY RoutesAssumption DEF Slash
<1>5. \A path : Unslashed(path) =
       IF path # <<>> /\ path[Len(path)] = Slash THEN SubSeq(path, 1, Len(path) - 1) ELSE path
  BY Zenon DEF Slash, Unslashed
<1>. QED BY <1>1, <1>2, <1>3, <1>4, <1>5

LEMMA UrlForm ==
  ASSUME NEW url \in Urls
  PROVE  url \in Paths /\ \A i \in 1..(Len(url) - 1) : url[i] # Slash
<1>1. CASE url = <<Slash>>
  <2>1. <<Slash>> \in Seq(Segments) /\ <<Slash>> # <<>> /\ Len(<<Slash>>) = 1
    BY SlashIs
  <2>2. 1..(1 - 1) = {}
    OBVIOUS
  <2>. QED BY <1>1, <2>1, <2>2 DEF Paths
<1>2. ASSUME NEW n \in 1..MaxSegments, NEW u \in [1..n -> Segments \ {Slash}],
             url \in {u, Append(u, Slash)}
      PROVE  url \in Paths /\ \A i \in 1..(Len(url) - 1) : url[i] # Slash
  <2>1. n \in Nat /\ n >= 1
    <3>1. MaxSegments \in Nat
      BY RoutesAssumption
    <3>. QED BY <3>1
  <2>2. u \in Seq(Segments) /\ Len(u) = n /\ \A i \in 1..n : u[i] # Slash
    <3>1. u \in [1..n -> Segments] /\ \A i \in 1..n : u[i] # Slash
      OBVIOUS
    <3>. QED BY <2>1, <3>1
  <2>3. /\ Append(u, Slash) \in Seq(Segments) /\ Len(Append(u, Slash)) = n + 1
        /\ \A i \in 1..n : Append(u, Slash)[i] = u[i]
    BY <2>1, <2>2, SlashIs, AppendProperties
  <2>4. CASE url = u
    BY <2>1, <2>2, <2>4 DEF Paths
  <2>5. CASE url = Append(u, Slash)
    BY <2>1, <2>2, <2>3, <2>5 DEF Paths
  <2>. QED BY <1>2, <2>4, <2>5
<1>3. url = <<Slash>> \/ \E n \in 1..MaxSegments : \E u \in [1..n -> Segments \ {Slash}] : url \in {u, Append(u, Slash)}
  BY Zenon DEF Urls, Slash
<1>. QED BY <1>1, <1>2, <1>3

(* A slash is only at the end. *)
LEMMA UnslashedOnce ==
  ASSUME NEW url \in Urls
  PROVE  Unslashed(Unslashed(Tail(url))) = Unslashed(Tail(url))
<1>. DEFINE t == Tail(url)
<1>1. url \in Seq(Segments) /\ url # <<>> /\ Len(url) \in Nat /\ \A i \in 1..(Len(url) - 1) : url[i] # Slash
  BY UrlForm, PathParts DEF Paths
<1>2. /\ t \in Seq(Segments) /\ Len(t) = Len(url) - 1
      /\ \A i \in 1..Len(t) : t[i] = url[i + 1]
  BY <1>1, HeadTailProperties
<1>. HIDE DEF t
<1>3. CASE ~ (t # <<>> /\ t[Len(t)] = Slash)
  BY <1>3, SlashIs DEF t
<1>4. CASE t # <<>> /\ t[Len(t)] = Slash
  <2>. DEFINE k == Len(t) - 1
              w == SubSeq(t, 1, k)
  <2>1. Len(t) \in Nat /\ Len(t) >= 1 /\ k \in Nat
    <3>1. Len(t) \in Nat
      BY <1>2
    <3>2. Len(t) # 0
      BY <1>2, <1>4
    <3>. QED BY <3>1, <3>2
  <2>2. w \in Seq(Segments) /\ Len(w) = k /\ \A i \in 1..k : w[i] = t[i]
    BY <1>2, <2>1, SubSeqProperties
  <2>3. Unslashed(t) = w
    BY <1>4, SlashIs
  <2>. HIDE DEF w
  <2>4. ASSUME w # <<>> PROVE w[Len(w)] # Slash
    <3>1. k >= 1
      BY <2>1, <2>2, <2>4
    <3>2. w[k] = url[k + 1] /\ k + 1 \in 1..(Len(url) - 1)
      BY <1>2, <2>1, <2>2, <3>1
    <3>. QED BY <1>1, <2>2, <3>2
  <2>5. Unslashed(w) = w
    BY <2>4, SlashIs
  <2>. QED BY <2>3, <2>5 DEF t
<1>. QED BY <1>3, <1>4

(* A URL at home is not taken for a backend path without a mount, and / is the *)
(* default cell's on both sides.                                               *)
LEMMA AtHome ==
  ASSUME NEW url \in Urls, Home(url)
  PROVE  /\ url[1] # WellKnown
         /\ url[1] \notin Mounts =>
              /\ url = <<Slash>> /\ ~IsModule(url) /\ RuleFor(url) = {} /\ ~ToApi(url)
              /\ \A m \in Mounts : \A r \in RoutesOf[m] : url # r.path /\ ~Declares(r, url)
<1>1. url \in Paths /\ url[1] # WellKnown
  <2>1. <<Slash>>[1] = Slash /\ WellKnown \notin Mounts
    BY RoutesAssumption
  <2>. QED BY <2>1, UrlForm, SlashIs
<1>2. ASSUME url[1] \notin Mounts
      PROVE  /\ url = <<Slash>> /\ ~IsModule(url) /\ RuleFor(url) = {} /\ ~ToApi(url)
             /\ \A m \in Mounts : \A r \in RoutesOf[m] : url # r.path /\ ~Declares(r, url)
  <2>1. url = <<Slash>> /\ url[1] = Slash /\ Len(url) = 1
    <3>1. url = <<Slash>>
      BY <1>2, SlashIs
    <3>. QED BY <3>1
  <2>2. ~IsModule(url)
    <3>. SUFFICES ASSUME NEW m \in Mounts, NEW p \in ModulesOf[m], url = <<m>> \o p PROVE FALSE
      BY DEF IsModule
    <3>1. p \in Seq(Segments) /\ m \in Segments
      BY RoutesAssumption, ScriptsAssumption
    <3>2. url[1] = m
      BY <3>1
    <3>. QED BY <1>2, <3>2
  <2>3. ASSUME NEW m \in Mounts, NEW r \in RoutesOf[m] PROVE url # r.path /\ ~Declares(r, url)
    <3>1. r.path \in Seq(Segments) /\ r.path # <<>> /\ r.path[1] # Slash
      BY RoutesAssumption, SlashIs DEF Route
    <3>2. url # r.path
      BY <2>1, <3>1
    <3>3. Len(Append(r.path, Slash)) >= 2
      <4>1. Len(r.path) \in Nat /\ Len(r.path) # 0
        BY <3>1
      <4>2. Len(Append(r.path, Slash)) = Len(r.path) + 1
        BY <3>1, SlashIs, AppendProperties
      <4>. QED BY <4>1, <4>2
    <3>4. ~StartsWith(url, Append(r.path, Slash))
      <4>1. Len(Append(r.path, Slash)) \in Nat
        BY <3>1, SlashIs, AppendProperties
      <4>. QED BY <2>1, <3>3, <4>1 DEF StartsWith
    <3>. QED BY <3>2, <3>4, SlashIs
  <2>4. ASSUME NEW r \in ProxyRules PROVE ~StartsWith(url, r.path)
    <3>1. CASE r = [path |-> <<WellKnown>>, match |-> "prefix"]
      <4>1. r.path = <<WellKnown>> /\ Len(r.path) = 1 /\ r.path[1] = WellKnown
        BY <3>1
      <4>2. ~Begins(Slash, WellKnown)
        BY RoutesAssumption DEF Begins, Slash
      <4>. QED BY <2>1, <4>1, <4>2 DEF StartsWith
    <3>2. CASE Len(r.path) >= 2
      <4>1. Len(r.path) \in Nat
        BY RulesAre, PathParts
      <4>. QED BY <2>1, <3>2, <4>1 DEF StartsWith
    <3>3. r = [path |-> <<WellKnown>>, match |-> "prefix"] \/ Len(r.path) >= 2
      <4>. SUFFICES ASSUME NEW o, o.path \in Seq(Segments), Len(o.path) >= 1, Len(r.path) = Len(o.path) + 1
                    PROVE  Len(r.path) >= 2
        BY RulesAre
      <4>1. Len(o.path) \in Nat
        OBVIOUS
      <4>. QED BY <4>1
    <3>. QED BY <3>1, <3>2, <3>3
  <2>5. RuleFor(url) = {}
    BY <2>4 DEF RuleFor
  <2>6. ~ToApi(url)
    <3>. SUFFICES ASSUME NEW m \in Mounts, NEW r \in EdgePatterns(m), Declares(r, url) PROVE FALSE
      BY DEF ToApi
    <3>1. CASE RoutesOf[m] = {}
      <4>1. r.path = <<m>> /\ r.match = "prefix"
        BY <3>1 DEF EdgePatterns
      <4>2. Len(Append(r.path, Slash)) = 2
        BY <4>1
      <4>3. ~StartsWith(url, Append(r.path, Slash))
        BY <2>1, <4>2 DEF StartsWith
      <4>. QED BY <4>1, <4>3, SlashIs
    <3>2. CASE RoutesOf[m] # {}
      <4>1. r \in ProxyRules
        BY <3>2 DEF EdgePatterns, ProxyRules
      <4>. QED BY <1>1, <2>4, <4>1, DeclaredFits
    <3>. QED BY <3>1, <3>2
  <2>. QED BY <2>1, <2>2, <2>3, <2>5, <2>6
<1>. QED BY <1>1, <1>2

(* The answers agree, the lambda's handler that leaves the mount on apart. *)
Agree(url) ==
  \/ /\ DevAnswer(url).by = CloudAnswer(url).by
     /\ DevAnswer(url).mount = CloudAnswer(url).mount
     /\ Unslashed(DevAnswer(url).path) = Unslashed(CloudAnswer(url).path)
  \/ CloudAnswer(url).by = "backend" /\ DevAnswer(url).by = "backend" /\ KeepsMount(url)
  \/ IF IsModule(url) THEN ~IsFile(url) /\ DevAnswer(url).by = "script" /\ CloudAnswer(url) = PageOf(url[1])
     ELSE IsFile(url) /\ DevAnswer(url) = PageOf(url[1]) /\ CloudAnswer(url) = None

(* A URL goes to an API of the stack iff a route declares it. *)
LEMMA ApiDeclared ==
  ASSUME NEW url \in Urls, url[1] \in Mounts, RoutesOf[url[1]] # {}
  PROVE  ToApi(url) <=> \E r \in ProxyRules : Declares(r, url)
<1>. DEFINE m == url[1]
<1>1. url \in Paths /\ m # WellKnown
  BY UrlForm, RoutesAssumption
<1>2. ASSUME NEW r \in ProxyRules, Declares(r, url) PROVE ToApi(url)
  <2>1. PICK o \in RoutesOf[m] : r = Mounted(m, o)
    BY <1>1, <1>2, DeclaredFits
  <2>2. r \in EdgePatterns(m)
    BY <2>1 DEF EdgePatterns
  <2>. QED BY <1>2, <2>2 DEF ToApi
<1>3. ASSUME NEW n \in Mounts, NEW r \in EdgePatterns(n), Declares(r, url)
      PROVE  \E q \in ProxyRules : Declares(q, url)
  <2>1. CASE RoutesOf[n] = {}
    <3>1. r.path = <<n>> /\ r.match = "prefix"
      BY <2>1 DEF EdgePatterns
    <3>2. StartsWith(url, Append(<<n>>, Slash))
      BY <1>3, <3>1, SlashIs
    <3>3. Len(Append(<<n>>, Slash)) = 2 /\ Append(<<n>>, Slash)[1] = n /\ 1 \in 1..(2 - 1)
      OBVIOUS
    <3>4. url[1] = n
      BY <3>2, <3>3 DEF StartsWith
    <3>. QED BY <2>1, <3>4
  <2>2. CASE RoutesOf[n] # {}
    BY <1>3, <2>2 DEF EdgePatterns, ProxyRules
  <2>. QED BY <2>1, <2>2
<1>. QED BY <1>2, <1>3 DEF ToApi

(* Where what catches a URL by its text declares it too, the proxy and the *)
(* distribution take the same URLs: if a rule declares the URL, a longest *)
(* rule catches it and, the URL not being near, declares it as well.       *)
LEMMA DeclaredAlike ==
  ASSUME NEW url \in Urls, url[1] \in Mounts, RoutesOf[url[1]] # {}, ~Near(url)
  PROVE  ToGateway(url) <=> ToApi(url)
<1>. DEFINE m == url[1]
<1>1. url \in Paths /\ m # WellKnown
  BY UrlForm, RoutesAssumption
<1>2. ToApi(url) <=> \E r \in ProxyRules : Declares(r, url)
  BY ApiDeclared
<1>3. ASSUME ToGateway(url) PROVE \E r \in ProxyRules : Declares(r, url)
  <2>1. PICK r \in RuleFor(url) : r.match = "prefix" \/ url = r.path
    BY <1>3 DEF ToGateway
  <2>2. r \in ProxyRules
    BY <2>1 DEF RuleFor
  <2>3. Declares(r, url)
    <3>1. CASE r.match = "prefix"
      BY <2>1, <3>1 DEF Near
    <3>2. CASE r.match # "prefix"
      BY <2>1, <2>2, <3>2, RulesAre DEF Declares, Kinds2
    <3>. QED BY <3>1, <3>2
  <2>. QED BY <2>2, <2>3
<1>4. ASSUME NEW q \in ProxyRules, Declares(q, url) PROVE ToGateway(url)
  <2>1. q \in Fitting(url)
    BY <1>1, <1>4, DeclaredFits DEF Fitting
  <2>2. IsFiniteSet(Fitting(url)) /\ \A r \in ProxyRules : r.path \in Paths
    BY <1>1, FittingFinite, RulesAre
  <2>3. PICK r \in RuleFor(url) : TRUE
    BY <1>1, <2>1, <2>2, LongestRule
  <2>4. Declares(r, url)
    BY <1>4, <2>3 DEF Near
  <2>5. r \in ProxyRules
    BY <2>3 DEF RuleFor
  <2>6. r.match = "prefix" \/ url = r.path
    BY <2>4, <2>5, RulesAre DEF Declares, Kinds2
  <2>. QED BY <2>3, <2>6 DEF ToGateway
<1>. QED BY <1>2, <1>3, <1>4

LEMMA AnswersAgree ==
  ASSUME NEW url \in Urls, Home(url), ~Near(url),
         url[1] \in Mounts => RoutesOf[url[1]] # {}
  PROVE  Agree(url)
<1>1. CASE url[1] \notin Mounts
  <2>1. url = <<Slash>> /\ ~IsModule(url) /\ ~ToGateway(url) /\ ~ToApi(url)
    BY <1>1, AtHome DEF ToGateway
  <2>2. DevAnswer(url) = PageOf(DefaultMount)
    BY <1>1, <2>1 DEF DevAnswer
  <2>3. CloudAnswer(url) = PageOf(DefaultMount)
    BY <2>1, Zenon DEF CloudAnswer, Slash
  <2>. QED BY <2>2, <2>3 DEF Agree
<1>2. CASE url[1] \in Mounts
  <2>. DEFINE m == url[1]
  <2>1. url # <<Slash>>
    <3>1. <<Slash>>[1] = Slash
      OBVIOUS
    <3>. QED BY <1>2, <3>1, SlashIs
  <2>2. ToGateway(url) <=> ToApi(url)
    BY <1>2, DeclaredAlike
  <2>3. IsModule(url) => ~ToApi(url)
    <3>. SUFFICES ASSUME NEW n \in Mounts, NEW p \in ModulesOf[n], url = <<n>> \o p,
                         NEW r \in ProxyRules, Declares(r, url)
                  PROVE  FALSE
      BY <1>2, ApiDeclared DEF IsModule
    <3>1. url \in Paths /\ m # WellKnown
      BY <1>2, UrlForm, RoutesAssumption
    <3>2. PICK o \in RoutesOf[m] : r = Mounted(m, o)
      BY <3>1, DeclaredFits
    <3>3. m = n
      BY ScriptsAssumption
    <3>. QED BY <3>2, <3>3, ScriptsAssumption
  <2>4. CASE IsModule(url)
    <3>1. DevAnswer(url) = Script(m, Tail(url))
      BY <2>4 DEF DevAnswer
    <3>2. CASE IsFile(url)
      <4>1. CloudAnswer(url) = Script(m, Tail(url))
        BY <2>1, <2>3, <2>4, <3>2, Zenon DEF CloudAnswer, Slash, Stored
      <4>. QED BY <3>1, <4>1 DEF Agree
    <3>3. CASE ~IsFile(url)
      <4>1. CloudAnswer(url) = PageOf(m)
        BY <1>2, <2>1, <2>3, <2>4, <3>3, Zenon DEF CloudAnswer, Slash, IndexOf
      <4>. QED BY <2>4, <3>1, <3>3, <4>1 DEF Agree, Script
    <3>. QED BY <3>2, <3>3
  <2>5. CASE ~IsModule(url) /\ ~ToApi(url)
    <3>1. DevAnswer(url) = PageOf(m)
      BY <1>2, <2>2, <2>5 DEF DevAnswer
    <3>2. CASE IsFile(url)
      <4>1. CloudAnswer(url) = None
        BY <2>1, <2>5, <3>2, Zenon DEF CloudAnswer, Slash, Stored
      <4>. QED BY <2>5, <3>1, <3>2, <4>1 DEF Agree
    <3>3. CASE ~IsFile(url)
      <4>1. CloudAnswer(url) = PageOf(m)
        BY <1>2, <2>1, <2>5, <3>3, Zenon DEF CloudAnswer, Slash, IndexOf
      <4>. QED BY <3>1, <4>1 DEF Agree
    <3>. QED BY <3>2, <3>3
  <2>6. CASE ~IsModule(url) /\ ToApi(url)
    <3>1. DevAnswer(url) = Backend(m, Tail(url))
      BY <2>2, <2>6 DEF DevAnswer
    <3>2. CASE url[2] \in Strips[m]
      <4>1. CloudAnswer(url) = Backend(m, Unslashed(Tail(url)))
        BY <2>6, <3>2, Zenon DEF CloudAnswer
      <4>. QED BY <3>1, <4>1, UnslashedOnce DEF Agree, Backend
    <3>3. CASE url[2] \notin Strips[m]
      <4>1. CloudAnswer(url) = Backend(m, url)
        BY <2>6, <3>3, Zenon DEF CloudAnswer
      <4>2. KeepsMount(url)
        BY <3>3 DEF KeepsMount
      <4>. QED BY <3>1, <4>1, <4>2 DEF Agree, Backend
    <3>. QED BY <3>2, <3>3
  <2>. QED BY <2>4, <2>5, <2>6
<1>. QED BY <1>1, <1>2

(* The steps of either side lead to its answer. *)
LEMMA DevSideKeeps ==
  ASSUME RoutesInv, ServeModule \/ Rewrite \/ Proxy \/ BootPage \/ Forward \/ AnswerMetadata
  PROVE  RoutesInv'
<1>. DEFINE u == request.url
<1>1. PICK at, url, answer : dev = [at |-> at, url |-> url, answer |-> answer]
  BY DEF RoutesInv
<1>2. request' = request /\ cloud' = cloud /\ dev.at \notin {"idle", "done"}
  BY DEF ServeModule, Rewrite, Proxy, BootPage, Forward, AnswerMetadata, DevAnswers
<1>3. u \in Urls /\ u \in Paths
  BY <1>2, UrlForm DEF RoutesInv
<1>4. Home(u) => dev.url = u /\ u[1] # WellKnown
  BY <1>2, <1>3, AtHome DEF RoutesInv
<1>5. SUFFICES /\ \E a, b, c : dev' = [at |-> a, url |-> b, answer |-> c]
               /\ dev'.at \in {"proxy", "gateway", "done"}
               /\ Home(u) =>
                    /\ dev'.at # "done" => dev'.url = u
                    /\ dev'.at \in {"proxy", "gateway"} => ~IsModule(u)
                    /\ dev'.at = "gateway" => ToGateway(u)
                    /\ dev'.at = "done" => dev'.answer = DevAnswer(u)
  BY <1>2, <1>3 DEF RoutesInv
<1>6. CASE ServeModule
  <2>1. PICK m \in Mounts : /\ url \in {<<m>> \o p : p \in ModulesOf[m]}
                           /\ dev' = [at |-> "done", url |-> url, answer |-> Script(m, Tail(url))]
    BY <1>1, <1>6 DEF ServeModule, DevAnswers
  <2>2. url[1] = m /\ IsModule(url)
    <3>1. PICK p \in ModulesOf[m] : url = <<m>> \o p
      BY <2>1
    <3>2. p \in Seq(Segments)
      BY ScriptsAssumption
    <3>3. url[1] = m
      BY <3>1, <3>2
    <3>4. IsModule(url)
      BY <2>1 DEF IsModule
    <3>. QED BY <3>3, <3>4
  <2>3. Home(u) => dev'.answer = DevAnswer(u)
    BY <1>1, <1>4, <2>1, <2>2 DEF DevAnswer
  <2>. QED BY <2>1, <2>3
<1>7. CASE Rewrite
  <2>1. PICK w : dev' = [at |-> "proxy", url |-> w, answer |-> answer]
    BY <1>1, <1>7 DEF Rewrite
  <2>2. ~IsModule(url)
    BY <1>1, <1>7 DEF Rewrite
  <2>3. Home(u) => w = u
    <3>. SUFFICES ASSUME Home(u) PROVE dev'.url = url
      BY <1>1, <1>4, <2>1
    <3>1. ~(/\ url[1] # WellKnown
            /\ url[1] \notin Mounts
            /\ \E m \in Mounts : \E r \in RoutesOf[m] :
                 IF r.match = "exact" THEN url = r.path
                 ELSE url = r.path \/ Declares(r, url))
      BY <1>1, <1>3, <1>4, AtHome
    <3>. QED BY <1>1, <1>7, <3>1 DEF Rewrite
  <2>. QED BY <1>1, <1>4, <2>1, <2>2, <2>3
<1>8. CASE Proxy
  <2>1. dev' = [at |-> "gateway", url |-> url, answer |-> answer] /\ ToGateway(url) /\ dev.at = "proxy"
    BY <1>1, <1>8 DEF Proxy, ToGateway
  <2>2. Home(u) => ~IsModule(u)
    BY <1>2, <2>1 DEF RoutesInv
  <2>. QED BY <1>1, <1>4, <2>1, <2>2
<1>9. CASE BootPage
  <2>. DEFINE page == PageOf(IF url[1] \in Mounts THEN url[1] ELSE DefaultMount)
  <2>1. dev' = [at |-> "done", url |-> url, answer |-> page] /\ dev.at = "proxy"
    BY <1>1, <1>9 DEF BootPage, DevAnswers
  <2>2. ~ToGateway(url)
    BY <1>1, <1>9 DEF BootPage, ToGateway
  <2>3. Home(u) => ~IsModule(u)
    BY <1>2, <2>1 DEF RoutesInv
  <2>4. Home(u) => page = DevAnswer(u)
    BY <1>1, <1>4, <2>2, <2>3 DEF DevAnswer
  <2>. HIDE DEF page
  <2>. QED BY <2>1, <2>4
<1>10. CASE Forward
  <2>1. dev' = [at |-> "done", url |-> url, answer |-> Backend(url[1], Tail(url))] /\ dev.at = "gateway"
    BY <1>1, <1>10 DEF Forward, DevAnswers
  <2>2. Home(u) => ~IsModule(u) /\ ToGateway(u)
    BY <1>2, <2>1 DEF RoutesInv
  <2>3. Home(u) => dev'.answer = DevAnswer(u)
    BY <1>1, <1>4, <2>1, <2>2 DEF DevAnswer
  <2>. QED BY <2>1, <2>3
<1>11. CASE AnswerMetadata
  <2>1. url[1] = WellKnown
    BY <1>1, <1>11 DEF AnswerMetadata
  <2>2. ~Home(u)
    BY <1>1, <1>4, <2>1
  <2>3. PICK c : dev' = [at |-> "done", url |-> url, answer |-> c]
    BY <1>1, <1>11 DEF AnswerMetadata, DevAnswers
  <2>4. dev'.at = "done"
    BY <2>3
  <2>. QED BY <2>2, <2>3, <2>4
<1>. QED BY <1>6, <1>7, <1>8, <1>9, <1>10, <1>11

LEMMA CloudSideKeeps ==
  ASSUME RoutesInv, EdgeToApi \/ EdgeToSite \/ Lambda
  PROVE  RoutesInv'
<1>. DEFINE u == request.url
<1>1. PICK at, url, answer : cloud = [at |-> at, url |-> url, answer |-> answer]
  BY DEF RoutesInv
<1>2. request' = request /\ dev' = dev /\ cloud.at \notin {"idle", "done"}
  BY DEF EdgeToApi, EdgeToSite, Lambda, CloudAnswers
<1>3. u \in Urls /\ u \in Paths
  BY <1>2, UrlForm DEF RoutesInv
<1>4. Home(u) => cloud.url = u
  BY <1>2 DEF RoutesInv
<1>5. SUFFICES /\ \E a, b, c : cloud' = [at |-> a, url |-> b, answer |-> c]
               /\ cloud'.at \in {"lambda", "done"}
               /\ Home(u) =>
                    /\ cloud'.at # "done" => cloud'.url = u
                    /\ cloud'.at = "lambda" => ToApi(u)
                    /\ cloud'.at = "done" => cloud'.answer = CloudAnswer(u)
  BY <1>2, <1>3 DEF RoutesInv
<1>6. CASE EdgeToApi
  <2>1. cloud' = [at |-> "lambda", url |-> url, answer |-> answer] /\ ToApi(url)
    BY <1>1, <1>6 DEF EdgeToApi, ToApi
  <2>. QED BY <1>1, <1>4, <2>1
<1>7. CASE EdgeToSite
  <2>1. ~ToApi(url)
    BY <1>1, <1>7 DEF EdgeToSite, ToApi
  <2>2. PICK given : cloud' = [at |-> "done", url |-> url, answer |-> given]
    BY <1>1, <1>7 DEF EdgeToSite, CloudAnswers
  <2>3. Home(u) => cloud'.answer = CloudAnswer(u)
    <3>. SUFFICES ASSUME Home(url), url \in Urls PROVE cloud'.answer = CloudAnswer(url)
      BY <1>1, <1>3, <1>4
    <3>1. url[1] \in Mounts \/ (url = <<"">> /\ ~IsModule(url))
      BY AtHome, Zenon DEF Slash
    <3>2. CASE url = <<"">> /\ ~IsModule(url) /\ url[1] \notin Mounts
      <4>1. cloud' = [cloud EXCEPT !.at = "done", !.answer = PageOf(DefaultMount)]
        BY <1>1, <1>7, <3>2 DEF EdgeToSite, CloudAnswers
      <4>. QED BY <1>1, <2>1, <3>2, <4>1 DEF CloudAnswer
    <3>3. CASE url # <<"">> /\ IsFile(url)
      <4>1. cloud' = [cloud EXCEPT !.at = "done", !.answer = Stored(url)]
        BY <1>1, <1>7, <3>3 DEF EdgeToSite, CloudAnswers
      <4>. QED BY <1>1, <2>1, <3>3, <4>1 DEF CloudAnswer
    <3>4. CASE url # <<"">> /\ ~IsFile(url)
      <4>1. cloud' = [cloud EXCEPT !.at = "done", !.answer = IndexOf(url[1])]
        BY <1>1, <1>7, <3>4 DEF EdgeToSite, CloudAnswers
      <4>. QED BY <1>1, <2>1, <3>4, <4>1 DEF CloudAnswer
    <3>5. url[1] \in Mounts => url # <<"">>
      <4>1. <<Slash>>[1] = Slash /\ Slash \notin Mounts
        BY SlashIs
      <4>2. url[1] \in Mounts => url # <<Slash>>
        BY <4>1
      <4>. QED BY <4>2, Zenon DEF Slash
    <3>. QED BY <3>1, <3>2, <3>3, <3>4, <3>5
  <2>. QED BY <2>2, <2>3
<1>8. CASE Lambda
  <2>. DEFINE given == Backend(url[1], IF url[2] \in Strips[url[1]] THEN Unslashed(Tail(url)) ELSE url)
  <2>1. cloud' = [at |-> "done", url |-> url, answer |-> given] /\ cloud.at = "lambda"
    BY <1>1, <1>8 DEF Lambda, CloudAnswers
  <2>2. Home(u) => ToApi(u)
    BY <1>2, <2>1 DEF RoutesInv
  <2>3. Home(u) => given = CloudAnswer(u)
    BY <1>1, <1>4, <2>2, Zenon DEF CloudAnswer
  <2>. HIDE DEF given
  <2>. QED BY <2>1, <2>3
<1>. QED BY <1>6, <1>7, <1>8

(* What a developer sees is what is deployed, for any cells, routes and    *)
(* texts of segments: the chain of Vite, proxy and gateway answers a URL   *)
(* below a mount as the distribution, the API and the lambda do.           *)
THEOREM DevMatchesCloud == RoutesSpec => []DevIsLikeCloud
<1>1. RoutesInit => RoutesInv
  <2>. SUFFICES ASSUME RoutesInit PROVE RoutesInv
    OBVIOUS
  <2>1. \E url, from : request = [url |-> url, from |-> from]
    BY DEF RoutesInit
  <2>2. PICK url, answer : dev = [at |-> "idle", url |-> url, answer |-> answer] /\ cloud = dev
    BY DEF RoutesInit
  <2>3. dev.at = "idle" /\ cloud.at = "idle"
    BY <2>2
  <2>. QED BY <2>1, <2>2, <2>3 DEF RoutesInv
<1>2. RoutesInv /\ [RoutesNext]_routeVars => RoutesInv'
  <2>. SUFFICES ASSUME RoutesInv, [RoutesNext]_routeVars PROVE RoutesInv'
    OBVIOUS
  <2>1. ASSUME NEW url \in Urls, NEW from, Request(url, from) PROVE RoutesInv'
    <3>1. /\ request' = [url |-> url, from |-> from]
          /\ dev' = [at |-> "vite", url |-> url, answer |-> None]
          /\ cloud' = [at |-> "edge", url |-> url, answer |-> None]
      BY <2>1 DEF Request
    <3>. QED BY <3>1 DEF RoutesInv
  <2>2. CASE UNCHANGED routeVars
    BY <2>2 DEF routeVars, RoutesInv
  <2>. QED BY <2>1, <2>2, DevSideKeeps, CloudSideKeeps DEF RoutesNext
<1>3. RoutesInv => DevIsLikeCloud
  <2>. SUFFICES ASSUME RoutesInv, dev.at = "done", cloud.at = "done",
                       Home(request.url), ~Near(request.url),
                       RoutesOf[IF request.url = <<"">> THEN DefaultMount ELSE request.url[1]] # {}
                PROVE  \/ /\ dev.answer.by = cloud.answer.by
                          /\ dev.answer.mount = cloud.answer.mount
                          /\ Unslashed(dev.answer.path) = Unslashed(cloud.answer.path)
                       \/ cloud.answer.by = "backend" /\ dev.answer.by = "backend" /\ KeepsMount(request.url)
                       \/ DotDecides(request.url)
    BY Zenon DEF DevIsLikeCloud, Home
  <2>1. request.url \in Urls /\ dev.answer = DevAnswer(request.url) /\ cloud.answer = CloudAnswer(request.url)
    BY DEF RoutesInv
  <2>2. request.url[1] \in Mounts => RoutesOf[request.url[1]] # {}
    <3>. SUFFICES ASSUME request.url[1] \in Mounts PROVE request.url # <<"">>
      BY Zenon
    <3>1. <<Slash>>[1] = Slash /\ Slash \notin Mounts
      BY SlashIs
    <3>2. request.url # <<Slash>>
      BY <3>1
    <3>. QED BY <3>2, Zenon DEF Slash
  <2>3. Agree(request.url)
    BY <2>1, <2>2, AnswersAgree
  <2>. QED BY <2>1, <2>3 DEF Agree, DotDecides
<1>. QED BY <1>1, <1>2, <1>3, PTL DEF RoutesSpec

-----------------------------------------------------------------------------
(* Values of params, by their paths *)

(* A path that continues another one *)
LEMMA PathBelow ==
  ASSUME NEW K, NEW q \in Seq(K), NEW r \in Seq(K)
  PROVE  /\ q \o r \in Seq(K) /\ Len(q \o r) = Len(q) + Len(r)
         /\ Len(q) \in Nat /\ Len(r) \in Nat
         /\ SubSeq(q, 1, Len(q)) = q /\ SubSeq(q \o r, 1, Len(q)) = q
         /\ SubSeq(q \o r, Len(q) + 1, Len(q \o r)) = r
         /\ \A n \in 0..(Len(q) - 1) : SubSeq(q \o r, 1, n) = SubSeq(q, 1, n)
         /\ \A n \in 0..Len(r) : SubSeq(q \o r, 1, Len(q) + n) = q \o SubSeq(r, 1, n)
<1>1. q \o r \in Seq(K) /\ Len(q \o r) = Len(q) + Len(r) /\ Len(q) \in Nat /\ Len(r) \in Nat
  OBVIOUS
<1>2. SubSeq(q, 1, Len(q)) = q
  OBVIOUS
<1>3. \A n \in 0..Len(q) : SubSeq(q \o r, 1, n) = SubSeq(q, 1, n)
  OBVIOUS
<1>4. SubSeq(q \o r, Len(q) + 1, Len(q \o r)) = r
  OBVIOUS
<1>5. ASSUME NEW n \in 0..Len(r) PROVE SubSeq(q \o r, 1, Len(q) + n) = q \o SubSeq(r, 1, n)
  OBVIOUS
<1>. QED BY <1>1, <1>2, <1>3, <1>4, <1>5

(* One !Param at most is at or above a path. *)
LEMMA OneParamAbove ==
  ASSUME NEW v, IsValue(v), NEW p \in DOMAIN v, NEW q \in DOMAIN v, v[q].kind = "param",
         NEW r \in Seq(ParamKeys), NEW s \in Seq(ParamKeys), p \o s = q \o r,
         v[p].kind = "param" \/ Len(s) = 0
  PROVE  p = q /\ s = r
<1>1. p \in Seq(ParamKeys) /\ q \in Seq(ParamKeys)
  BY DEF IsValue
<1>2. ASSUME Len(q) < Len(p) PROVE FALSE
  <2>1. SubSeq(p, 1, Len(q)) = q
    BY <1>1, <1>2, PathBelow
  <2>2. Len(q) \in 0..(Len(p) - 1)
    BY <1>1, <1>2
  <2>3. v[q].kind \in Inner
    BY <2>1, <2>2 DEF IsValue, Entered
  <2>. QED BY <2>3 DEF Inner
<1>3. ASSUME Len(p) < Len(q) PROVE FALSE
  <2>2. Len(p) \in 0..(Len(q) - 1)
    BY <1>1, <1>3
  <2>1. SubSeq(q, 1, Len(p)) = p
    <3>1. SubSeq(q \o r, 1, Len(p)) = SubSeq(q, 1, Len(p))
      BY <1>1, <2>2, PathBelow
    <3>2. SubSeq(p \o s, 1, Len(p)) = p
      BY <1>1, PathBelow
    <3>. QED BY <3>1, <3>2
  <2>3. v[p].kind \in Inner
    BY <2>1, <2>2 DEF IsValue, Entered
  <2>4. Len(s) # 0
    BY <1>1, <1>3
  <2>. QED BY <2>3, <2>4 DEF Inner
<1>4. Len(p) = Len(q)
  <2>1. Len(p) \in Nat /\ Len(q) \in Nat
    BY <1>1
  <2>. QED BY <1>2, <1>3, <2>1
<1>5. p = q
  <2>1. SubSeq(q \o r, 1, Len(q)) = q /\ SubSeq(p \o s, 1, Len(p)) = p
    BY <1>1, PathBelow
  <2>. QED BY <1>4, <2>1
<1>6. s = r
  <2>1. /\ SubSeq(q \o r, Len(q) + 1, Len(q \o r)) = r
        /\ SubSeq(p \o s, Len(p) + 1, Len(p \o s)) = s
    BY <1>1, PathBelow
  <2>. QED BY <1>5, <2>1
<1>. QED BY <1>5, <1>6

(* Below a !Param there are no paths. *)
LEMMA NothingBelow ==
  ASSUME NEW v, IsValue(v), NEW q \in DOMAIN v, v[q].kind = "param",
         NEW r \in Seq(ParamKeys), q \o r \in DOMAIN v
  PROVE  q \o r = q
<1>. DEFINE p == q \o r
<1>1. q \in Seq(ParamKeys)
  BY DEF IsValue
<1>2. p \in Seq(ParamKeys) /\ <<>> \in Seq(ParamKeys)
  BY <1>1
<1>3. \E e \in Seq(ParamKeys) : p \o e = q \o r /\ Len(e) = 0
  <2>1. p \o <<>> = q \o r
    BY <1>2
  <2>2. <<>> \in Seq(ParamKeys) /\ Len(<<>>) = 0
    OBVIOUS
  <2>. QED BY <2>1, <2>2
<1>4. p \in DOMAIN v
  OBVIOUS
<1>. HIDE DEF p
<1>5. p = q
  <2>1. PICK e \in Seq(ParamKeys) : p \o e = q \o r /\ Len(e) = 0
    BY <1>3, Zenon
  <2>2. IsValue(v) /\ p \in DOMAIN v /\ q \in DOMAIN v /\ v[q].kind = "param" /\ r \in Seq(ParamKeys)
    BY <1>4
  <2>3. v[p].kind = "param" \/ Len(e) = 0
    BY <2>1
  <2>4. p = q /\ e = r
    BY <2>1, <2>2, <2>3, OneParamAbove, Zenon
  <2>. QED BY <2>4
<1>. QED BY <1>5 DEF p

-----------------------------------------------------------------------------
(* Where the value of a !Param comes to stand, and what is in its place *)
ParamsOf(v) == {p \in DOMAIN v : v[p].kind = "param"}

(* w has the nodes of v, and those of its params in the places of the !Param. *)
Spells(w, v, values) ==
  /\ \A p \in DOMAIN v \ ParamsOf(v) : p \in DOMAIN w /\ w[p] = v[p]
  /\ \A q \in ParamsOf(v) : \A r \in DOMAIN ParamValue(v[q], values) :
       q \o r \in DOMAIN w /\ w[q \o r] = ParamValue(v[q], values)[r]
  /\ \A s \in DOMAIN w : \/ s \in DOMAIN v \ ParamsOf(v)
                         \/ \E q \in ParamsOf(v) : \E r \in DOMAIN ParamValue(v[q], values) : s = q \o r

LEMMA WithParamsIs ==
  ASSUME NEW v, IsValue(v), NEW shared, \A k \in DOMAIN shared : IsValue(shared[k])
  PROVE  Spells(WithParams(v, shared), v, shared)
<1>. DEFINE params == ParamsOf(v)
            value(q) == ParamValue(v[q], shared)
            below(q) == {q \o r : r \in DOMAIN value(q)}
            above(p) == CHOOSE q \in params : p \in below(q)
            D == (DOMAIN v \ params) \union UNION {below(q) : q \in params}
            w == [p \in D |-> IF p \in DOMAIN v \ params THEN v[p]
                              ELSE value(above(p))[SubSeq(p, Len(above(p)) + 1, Len(p))]]
<1>1. WithParams(v, shared) = w
  BY DEF WithParams, ParamsOf
<1>2. \A q : DOMAIN value(q) \subseteq Seq(ParamKeys)
  <2>1. DOMAIN Absent = {<<>>} /\ <<>> \in Seq(ParamKeys)
    BY DEF Absent, Leaf
  <2>. QED BY <2>1 DEF ParamValue, IsValue
<1>3. params \subseteq DOMAIN v /\ DOMAIN v \subseteq Seq(ParamKeys)
        /\ \A q \in params : v[q].kind = "param"
  BY DEF ParamsOf, IsValue
<1>. HIDE DEF params, value
<1>4. ASSUME NEW q \in params, NEW r \in DOMAIN value(q)
      PROVE  q \o r \in D /\ w[q \o r] = value(q)[r]
  <2>1. q \o r \in D
    OBVIOUS
  <2>2. q \o r \notin DOMAIN v \ params
    <3>. SUFFICES ASSUME q \o r \in DOMAIN v, q \o r \notin params PROVE FALSE
      OBVIOUS
    <3>2. q \in DOMAIN v /\ v[q].kind = "param" /\ r \in Seq(ParamKeys)
      BY <1>2, <1>3
    <3>3. q \o r = q
      BY <3>2, NothingBelow
    <3>. QED BY <3>3
  <2>3. \E x \in params : q \o r \in below(x)
    OBVIOUS
  <2>4. PICK x \in params : x = above(q \o r) /\ q \o r \in below(x)
    BY <2>3
  <2>5. PICK s \in DOMAIN value(x) : q \o r = x \o s
    BY <2>4
  <2>6. /\ q \in DOMAIN v /\ v[q].kind = "param" /\ r \in Seq(ParamKeys) /\ q \in Seq(ParamKeys)
        /\ x \in DOMAIN v /\ v[x].kind = "param" /\ s \in Seq(ParamKeys)
    BY <1>2, <1>3
  <2>7. q = x
    BY <2>5, <2>6, OneParamAbove
  <2>8. SubSeq(q \o r, Len(q) + 1, Len(q \o r)) = r
    BY <2>6, PathBelow
  <2>9. w[q \o r] = value(above(q \o r))[SubSeq(q \o r, Len(above(q \o r)) + 1, Len(q \o r))]
    BY <2>1, <2>2
  <2>. QED BY <2>1, <2>4, <2>7, <2>8, <2>9
<1>5. \A p \in DOMAIN v \ params : p \in D /\ w[p] = v[p]
  OBVIOUS
<1>6. DOMAIN w = D
  OBVIOUS
<1>7. \A s \in D : \/ s \in DOMAIN v \ params
                   \/ \E q \in params : \E r \in DOMAIN value(q) : s = q \o r
  OBVIOUS
<1>. HIDE DEF w, D
<1>. QED BY <1>1, <1>4, <1>5, <1>6, <1>7 DEF Spells, params, value

(* A value of the files with the values of its !Params is a value. *)
LEMMA WithParamsIsValue ==
  ASSUME NEW v, IsValue(v), NEW shared, \A k \in DOMAIN shared : IsValue(shared[k])
  PROVE  IsValue(WithParams(v, shared))
<1>. DEFINE w == WithParams(v, shared)
            value(q) == ParamValue(v[q], shared)
<1>1. Spells(w, v, shared)
  BY WithParamsIs
<1>2. ASSUME NEW q PROVE IsValue(value(q))
  <2>1. IsValue(Absent)
    <3>1. DOMAIN Absent = {<<>>} /\ Absent = [p \in DOMAIN Absent |-> Absent[p]]
      BY DEF Absent, Leaf, ParamNode
    <3>2. <<>> \in Seq(ParamKeys) /\ Len(<<>>) = 0
      OBVIOUS
    <3>3. Entered(Absent, <<>>, Inner)
      BY <3>2 DEF Entered
    <3>. QED BY <3>1, <3>2, <3>3 DEF IsValue
  <2>. QED BY <2>1 DEF ParamValue
<1>3. DOMAIN v \subseteq Seq(ParamKeys) /\ \A q : DOMAIN value(q) \subseteq Seq(ParamKeys)
  BY <1>2 DEF IsValue
<1>4. ParamsOf(v) \subseteq DOMAIN v
  BY DEF ParamsOf
<1>0. w = [p \in DOMAIN w |-> w[p]]
  BY DEF WithParams
<1>. HIDE DEF w, value
(* What is above a path of the file is one of its inner nodes. *)
<1>5. ASSUME NEW p \in DOMAIN v, NEW n \in 0..(Len(p) - 1)
      PROVE  SubSeq(p, 1, n) \in DOMAIN w /\ w[SubSeq(p, 1, n)].kind \in Inner
  <2>1. SubSeq(p, 1, n) \in DOMAIN v /\ v[SubSeq(p, 1, n)].kind \in Inner
    BY DEF IsValue, Entered
  <2>2. SubSeq(p, 1, n) \notin ParamsOf(v)
    BY <2>1 DEF ParamsOf, Inner
  <2>. QED BY <1>1, <2>1, <2>2 DEF Spells, value
<1>6. \A p \in DOMAIN v \ ParamsOf(v) : Entered(w, p, Inner)
  BY <1>5 DEF Entered
<1>7. ASSUME NEW q \in ParamsOf(v), NEW r \in DOMAIN value(q)
      PROVE  Entered(w, q \o r, Inner) /\ q \o r \in Seq(ParamKeys)
  <2>2. q \in Seq(ParamKeys) /\ r \in Seq(ParamKeys)
    BY <1>3, <1>4
  <2>3. Len(q \o r) = Len(q) + Len(r) /\ Len(q) \in Nat /\ Len(r) \in Nat /\ q \o r \in Seq(ParamKeys)
    BY <2>2, PathBelow
  <2>4. ASSUME NEW n \in 0..(Len(q \o r) - 1)
        PROVE  SubSeq(q \o r, 1, n) \in DOMAIN w /\ w[SubSeq(q \o r, 1, n)].kind \in Inner
    <3>1. CASE n < Len(q)
      <4>1. n \in 0..(Len(q) - 1)
        BY <3>1
      <4>2. SubSeq(q \o r, 1, n) = SubSeq(q, 1, n)
        BY <2>2, <4>1, PathBelow
      <4>. QED BY <1>4, <1>5, <4>1, <4>2
    <3>2. CASE ~ (n < Len(q))
      <4>. DEFINE k == n - Len(q)
      <4>1. k \in 0..(Len(r) - 1) /\ k \in 0..Len(r) /\ n = Len(q) + k
        BY <2>3, <3>2
      <4>. HIDE DEF k
      <4>2. SubSeq(q \o r, 1, n) = q \o SubSeq(r, 1, k)
        <5>1. \A j \in 0..Len(r) : SubSeq(q \o r, 1, Len(q) + j) = q \o SubSeq(r, 1, j)
          BY <2>2, PathBelow, SMTT(60)
        <5>2. SubSeq(q \o r, 1, Len(q) + k) = q \o SubSeq(r, 1, k)
          BY <4>1, <5>1
        <5>. QED BY <4>1, <5>2
      <4>3. SubSeq(r, 1, k) \in DOMAIN value(q) /\ value(q)[SubSeq(r, 1, k)].kind \in Inner
        BY <1>2, <4>1 DEF IsValue, Entered
      <4>. QED BY <1>1, <4>2, <4>3 DEF Spells, value
    <3>. QED BY <3>1, <3>2
  <2>. QED BY <2>3, <2>4 DEF Entered
<1>8. \A s \in DOMAIN w : Entered(w, s, Inner) /\ s \in Seq(ParamKeys)
  <2>1. \A s \in DOMAIN v \ ParamsOf(v) : Entered(w, s, Inner) /\ s \in Seq(ParamKeys)
    BY <1>3, <1>6
  <2>. QED BY <1>1, <1>7, <2>1, Zenon DEF Spells, value
<1>9. <<>> \in DOMAIN w
  <2>1. CASE <<>> \in ParamsOf(v)
    <3>1. <<>> \in DOMAIN value(<<>>)
      BY <1>2 DEF IsValue
    <3>2. <<>> \o <<>> = <<>>
      OBVIOUS
    <3>. QED BY <1>1, <2>1, <3>1, <3>2 DEF Spells, value
  <2>2. CASE <<>> \notin ParamsOf(v)
    BY <1>1, <2>2 DEF Spells, value, IsValue
  <2>. QED BY <2>1, <2>2
<1>. QED BY <1>0, <1>8, <1>9 DEF IsValue, w

(* A value that refers to nothing is what it is. *)
LEMMA NothingToReplace ==
  ASSUME NEW v, IsValue(v), NEW shared, RefsOf(v) = {}
  PROVE  WithParams(v, shared) = v
<1>1. {p \in DOMAIN v : v[p].kind = "param"} = {}
  BY DEF RefsOf
<1>2. WithParams(v, shared) = [p \in DOMAIN v |-> v[p]]
  BY <1>1 DEF WithParams
<1>. QED BY <1>2 DEF IsValue

(* What becomes of a value depends on the values of its own references alone. *)
LEMMA SameRefsSame ==
  ASSUME NEW v, IsValue(v),
         NEW known, \A k \in DOMAIN known : IsValue(known[k]),
         NEW other, \A k \in DOMAIN other : IsValue(other[k]),
         \A r \in RefsOf(v) : r \in DOMAIN known /\ r \in DOMAIN other /\ known[r] = other[r]
  PROVE  WithParams(v, known) = WithParams(v, other)
<1>. DEFINE w == WithParams(v, known)
            u == WithParams(v, other)
<1>1. \A q \in ParamsOf(v) : ParamValue(v[q], known) = ParamValue(v[q], other)
  BY DEF RefsOf, ParamsOf, ParamValue
<1>2. Spells(w, v, known)
  BY WithParamsIs
<1>3. Spells(u, v, other)
  BY WithParamsIs
<1>4. w = [p \in DOMAIN w |-> w[p]] /\ u = [p \in DOMAIN u |-> u[p]]
  <2>1. IsValue(w) /\ IsValue(u)
    BY WithParamsIsValue
  <2>. QED BY <2>1 DEF IsValue
<1>. HIDE DEF w, u
<1>5. ASSUME NEW s \in DOMAIN w PROVE s \in DOMAIN u /\ u[s] = w[s]
  <2>1. CASE s \in DOMAIN v \ ParamsOf(v)
    BY <1>2, <1>3, <2>1 DEF Spells
  <2>2. CASE s \notin DOMAIN v \ ParamsOf(v)
    <3>1. PICK q \in ParamsOf(v) : \E r \in DOMAIN ParamValue(v[q], known) : s = q \o r
      BY <1>2, <2>2 DEF Spells
    <3>0. PICK r \in DOMAIN ParamValue(v[q], known) : s = q \o r
      BY <3>1
    <3>2. r \in DOMAIN ParamValue(v[q], other)
            /\ ParamValue(v[q], known)[r] = ParamValue(v[q], other)[r]
      BY <1>1
    <3>3. u[q \o r] = ParamValue(v[q], other)[r] /\ q \o r \in DOMAIN u
      BY <1>3, <3>2 DEF Spells
    <3>4. w[q \o r] = ParamValue(v[q], known)[r]
      BY <1>2 DEF Spells
    <3>. QED BY <3>0, <3>2, <3>3, <3>4
  <2>. QED BY <2>1, <2>2
<1>6. ASSUME NEW s \in DOMAIN u PROVE s \in DOMAIN w
  <2>1. CASE s \in DOMAIN v \ ParamsOf(v)
    BY <1>2, <1>3, <2>1 DEF Spells
  <2>2. CASE s \notin DOMAIN v \ ParamsOf(v)
    <3>1. PICK q \in ParamsOf(v) : \E r \in DOMAIN ParamValue(v[q], other) : s = q \o r
      BY <1>3, <2>2 DEF Spells
    <3>0. PICK r \in DOMAIN ParamValue(v[q], other) : s = q \o r
      BY <3>1
    <3>2. r \in DOMAIN ParamValue(v[q], known)
      BY <1>1
    <3>. QED BY <1>2, <3>0, <3>2 DEF Spells
  <2>. QED BY <2>1, <2>2
<1>7. w = u
  BY <1>4, <1>5, <1>6
<1>. QED BY <1>7 DEF w, u

(* What a value refers to is in the end what its references refer to. *)
LEMMA NoRefsLeft ==
  ASSUME NEW v, IsValue(v), NEW known, \A k \in DOMAIN known : IsValue(known[k]),
         \A r \in RefsOf(v) : r \in DOMAIN known /\ RefsOf(known[r]) = {}
  PROVE  RefsOf(WithParams(v, known)) = {}
<1>. DEFINE w == WithParams(v, known)
<1>1. Spells(w, v, known)
  BY WithParamsIs
<1>. HIDE DEF w
<1>2. ASSUME NEW q \in ParamsOf(v), NEW r \in DOMAIN ParamValue(v[q], known)
      PROVE  ParamValue(v[q], known)[r].kind # "param"
  <2>1. v[q].name \in RefsOf(v)
    BY DEF RefsOf, ParamsOf
  <2>2. ParamValue(v[q], known) = known[v[q].name] /\ RefsOf(known[v[q].name]) = {}
    BY <2>1 DEF ParamValue
  <2>3. r \in DOMAIN known[v[q].name]
    BY <2>2
  <2>. QED BY <2>2, <2>3 DEF RefsOf
<1>3. ASSUME NEW s \in DOMAIN w PROVE w[s].kind # "param"
  <2>1. CASE s \in DOMAIN v \ ParamsOf(v)
    BY <1>1, <2>1 DEF Spells, ParamsOf
  <2>2. CASE s \notin DOMAIN v \ ParamsOf(v)
    <3>1. PICK q \in ParamsOf(v) : \E r \in DOMAIN ParamValue(v[q], known) : s = q \o r
      BY <1>1, <2>2 DEF Spells
    <3>0. PICK r \in DOMAIN ParamValue(v[q], known) : s = q \o r
      BY <3>1
    <3>2. w[q \o r] = ParamValue(v[q], known)[r]
      BY <1>1 DEF Spells
    <3>. QED BY <1>2, <3>0, <3>2
  <2>. QED BY <2>1, <2>2
<1>. QED BY <1>3 DEF RefsOf, w

(* WithParams gives a value the meaning of its text. *)
LEMMA WithParamsMeans ==
  ASSUME NEW v, IsValue(v), NEW known, \A k \in DOMAIN known : IsValue(known[k]),
         RefsOf(v) \subseteq DOMAIN known
  PROVE  Means(WithParams(v, known), v, known)
<1>. DEFINE w == WithParams(v, known)
<1>1. Spells(w, v, known)
  BY WithParamsIs
<1>2. \A q \in ParamsOf(v) : ParamValue(v[q], known) = known[v[q].name]
  BY DEF RefsOf, ParamsOf, ParamValue
<1>. DEFINE of(q) == known[v[q].name]
<1>. HIDE DEF w
<1>3. \A q \in ParamsOf(v) : \A r \in DOMAIN of(q) : q \o r \in DOMAIN w /\ w[q \o r] = of(q)[r]
  BY <1>1, <1>2 DEF Spells
<1>4. ASSUME NEW s \in DOMAIN w, s \notin DOMAIN v \ ParamsOf(v)
      PROVE  \E q \in ParamsOf(v) : \E r \in DOMAIN of(q) : s = q \o r
  BY <1>1, <1>2, <1>4 DEF Spells
<1>. HIDE DEF of
<1>5. /\ \A p \in DOMAIN v \ ParamsOf(v) : p \in DOMAIN w /\ w[p] = v[p]
      /\ \A q \in ParamsOf(v) : \A r \in DOMAIN of(q) : q \o r \in DOMAIN w /\ w[q \o r] = of(q)[r]
      /\ \A s \in DOMAIN w : \/ s \in DOMAIN v \ ParamsOf(v)
                            \/ \E q \in ParamsOf(v) : \E r \in DOMAIN of(q) : s = q \o r
  BY <1>1, <1>3, <1>4 DEF Spells
<1>6. Means(w, v, known)
  BY <1>5, Zenon DEF Means, ParamsOf, of
<1>. QED BY <1>6 DEF w

-----------------------------------------------------------------------------
(* The environment of the cells of a stack *)

(* A value with no array and no !Param: every walk comes to all of it. *)
PlainValue(v) == \A p \in DOMAIN v : v[p].kind \notin {"array", "param"} /\ Entered(v, p, {"object"})

LEMMA ValueIsPlain ==
  ASSUME NEW v, IsValue(v), \A p \in DOMAIN v : v[p].kind \notin {"array", "param"}
  PROVE  PlainValue(v)
BY DEF IsValue, Entered, Inner, PlainValue

LEMMA MergedIsPlain ==
  ASSUME NEW v, IsValue(v), \A p \in DOMAIN v : v[p].kind # "array",
         NEW shared, \A k \in DOMAIN shared : IsValue(shared[k]) /\ PlainValue(shared[k])
  PROVE  PlainValue(WithParams(v, shared))
<1>1. \A p \in DOMAIN WithParams(v, shared) : WithParams(v, shared)[p].kind \notin {"array", "param"}
  <2>. DEFINE w == WithParams(v, shared)
  <2>1. Spells(w, v, shared)
    BY WithParamsIs
  <2>2. \A r \in DOMAIN Absent : Absent[r].kind = "undefined"
    BY DEF Absent, Leaf, ParamNode
  <2>3. \A q \in ParamsOf(v) : \A r \in DOMAIN ParamValue(v[q], shared) :
          ParamValue(v[q], shared)[r].kind \notin {"array", "param"}
    BY <2>2 DEF ParamValue, PlainValue
  <2>. HIDE DEF w
  <2>4. ASSUME NEW s \in DOMAIN w PROVE w[s].kind \notin {"array", "param"}
    <3>1. CASE s \in DOMAIN v \ ParamsOf(v)
      BY <2>1, <3>1 DEF Spells, ParamsOf
    <3>2. CASE s \notin DOMAIN v \ ParamsOf(v)
      <4>1. PICK q \in ParamsOf(v) : \E r \in DOMAIN ParamValue(v[q], shared) : s = q \o r
        BY <2>1, <3>2 DEF Spells
      <4>2. PICK r \in DOMAIN ParamValue(v[q], shared) : s = q \o r
        BY <4>1
      <4>3. w[q \o r] = ParamValue(v[q], shared)[r]
        BY <2>1 DEF Spells
      <4>. QED BY <2>3, <4>2, <4>3
    <3>. QED BY <3>1, <3>2
  <2>. QED BY <2>4 DEF w
<1>. QED BY <1>1, WithParamsIsValue, ValueIsPlain

(* What a plain value becomes in the environment of the cell *)
LEMMA ResolvedIs ==
  ASSUME NEW w, PlainValue(w), NEW env
  PROVE  /\ DOMAIN ResolveValue(w, env) = DOMAIN w
         /\ \A p \in DOMAIN w : /\ StandsFor(ResolveValue(w, env)[p], w[p], env)
                               /\ ResolveValue(w, env)[p].kind \notin Tags \union {"param"}
<1>1. \A p \in DOMAIN w : ResolveValue(w, env)[p] = Resolved(w[p], env)
  BY DEF ResolveValue, PlainValue
<1>2. \A n : StandsFor(Resolved(n, env), n, env)
  BY DEF Resolved, StandsFor
<1>3. \A n : n.kind # "param" => Resolved(n, env).kind \notin Tags \union {"param"}
  BY DEF Resolved, ParamNode, Tags
<1>. QED BY <1>1, <1>2, <1>3 DEF ResolveValue, PlainValue

LEMMA CellStands ==
  ASSUME NEW v, IsValue(v), \A p \in DOMAIN v : v[p].kind # "array", NEW env,
         NEW shared, \A k \in DOMAIN shared : IsValue(shared[k]) /\ PlainValue(shared[k])
  PROVE  /\ Stands(ResolveValue(CellValue(v, shared), env), v, shared, env)
         /\ \A n \in Reached(ResolveValue(CellValue(v, shared), env), Inner) : n.kind \notin Tags \union {"param"}
<1>. DEFINE w == CellValue(v, shared)
            got == ResolveValue(w, env)
            value(q) == ParamValue(v[q], shared)
<1>1. Spells(w, v, shared)
  BY WithParamsIs DEF CellValue
<1>2. DOMAIN got = DOMAIN w /\ \A p \in DOMAIN w : StandsFor(got[p], w[p], env)
        /\ got[p].kind \notin Tags \union {"param"}
  BY MergedIsPlain, ResolvedIs DEF CellValue
<1>. HIDE DEF w, got
<1>3. Stands(got, v, shared, env)
  BY <1>1, <1>2 DEF Spells, value, Stands, ParamsOf
<1>4. \A n \in Reached(got, Inner) : n.kind \notin Tags \union {"param"}
  BY <1>2 DEF Reached
<1>. QED BY <1>3, <1>4 DEF got, w

LEMMA StackStands ==
  ASSUME NEW v, PlainValue(v), NEW env, NEW shared
  PROVE  /\ Stands(ResolveValue(v, env), v, shared, env)
         /\ \A n \in Reached(ResolveValue(v, env), Inner) : n.kind \notin Tags \union {"param"}
<1>. DEFINE got == ResolveValue(v, env)
<1>1. DOMAIN got = DOMAIN v /\ \A p \in DOMAIN v : StandsFor(got[p], v[p], env)
        /\ got[p].kind \notin Tags \union {"param"}
  BY ResolvedIs
<1>. HIDE DEF got
<1>2. \A p \in DOMAIN v : v[p].kind # "param"
  BY DEF PlainValue
<1>3. Stands(got, v, shared, env)
  BY <1>1, <1>2 DEF Stands
<1>4. \A n \in Reached(got, Inner) : n.kind \notin Tags \union {"param"}
  BY <1>1 DEF Reached
<1>. QED BY <1>3, <1>4 DEF got

StackConfigSpec == StackConfigInit /\ [][StackConfigNext]_stackVars

(* What CellParamsStand says of the cell i, whose environment is got *)
CellOk(got, i) ==
  LET cell == stkInput.stack.cells[i].params
      shared == stkInput.stack.params
  IN /\ stkInput.declared \subseteq DOMAIN got
     /\ ~ stkInput.placeholder => MissingParams(got) = {}
     /\ NoArrays(cell) /\ NoArrays(shared) =>
          \A k \in DOMAIN got :
            /\ Stands(got[k], IF k \in DOMAIN cell THEN cell[k] ELSE shared[k], shared, stkInput.env)
            /\ \A n \in Reached(got[k], Inner) : n.kind \notin Tags \union {"param"}

Envs ==
  {ResolveParams(MergeParams(s.params, s.cells[i].params), env) :
     s \in Stacks, i \in Nat, env \in StackEnvs}

(* A cell comes to its environment only if the stack was loaded. *)
StackInv ==
  /\ stkInput \in StackInputs /\ stkEnv \in Seq(Envs)
  /\ StackConfigTypeOK
  /\ stkStep = "load" => stkEnv = <<>>
  /\ stkStep = "cells" => LoadOtaviaYaml(stkInput.stack)
  /\ \A i \in DOMAIN stkEnv : CellOk(stkEnv[i], i)

(* Without arrays, a walk that stops at them comes to every node. *)
LEMMA AllIsWalked ==
  ASSUME NEW params, NoArrays(params), NEW k \in DOMAIN params, IsValue(params[k])
  PROVE  /\ \A p \in DOMAIN params[k] : params[k][p].kind # "array"
         /\ \A p \in DOMAIN params[k] : params[k][p] \in WalkParamTree(params)
<1>. DEFINE v == params[k]
<1>1. \A p \in DOMAIN v : v[p] \in Reached(v, Inner)
  BY DEF IsValue, Reached
<1>2. \A p \in DOMAIN v : v[p].kind # "array"
  BY <1>1 DEF NoArrays
<1>3. \A p \in DOMAIN v : Entered(v, p, {"object"})
  BY <1>2 DEF IsValue, Entered, Inner
<1>4. \A p \in DOMAIN v : v[p] \in Reached(v, {"object"})
  BY <1>3 DEF Reached
<1>. QED BY <1>2, <1>4 DEF WalkParamTree

LEMMA CellComes ==
  ASSUME StackInv, ResolveCell, stkEnv' # stkEnv
  PROVE  /\ Len(stkEnv) + 1 \in 1..Len(stkInput.stack.cells)
         /\ \E got \in Envs : stkEnv' = Append(stkEnv, got) /\ CellOk(got, Len(stkEnv) + 1)
<1>. DEFINE i == Len(stkEnv) + 1
            shared == stkInput.stack.params
            cell == stkInput.stack.cells[i].params
            env == stkInput.env
            merged == MergeParams(shared, cell)
            got == ResolveParams(merged, env)
<1>1. /\ stkStep = "cells" /\ i <= Len(stkInput.stack.cells)
      /\ AssertDeclaredParamsProvided(stkInput.declared, merged)
      /\ stkInput.placeholder \/ MissingParams(got) = {}
      /\ stkEnv' = Append(stkEnv, got)
  BY DEF ResolveCell
<1>2. /\ stkInput.stack \in Stacks /\ env \in StackEnvs /\ stkInput.placeholder \in BOOLEAN
      /\ LoadOtaviaYaml(stkInput.stack) /\ Len(stkEnv) \in Nat
  <2>1. stkInput \in StackInputs /\ stkEnv \in Seq(Envs)
    BY DEF StackInv
  <2>. QED BY <1>1, <2>1 DEF StackInv, StackInputs
<1>3. /\ i \in 1..Len(stkInput.stack.cells) /\ i \in DOMAIN stkInput.stack.cells
  BY <1>1, <1>2, StacksAssumption
<1>4. /\ \A k \in DOMAIN shared : IsValue(shared[k])
      /\ \A k \in DOMAIN cell : IsValue(cell[k])
  BY <1>2, <1>3, StacksAssumption
<1>. HIDE DEF i
<1>5. /\ DOMAIN merged = DOMAIN cell \union DOMAIN shared
      /\ \A k \in DOMAIN cell : merged[k] = CellValue(cell[k], shared)
      /\ \A k \in DOMAIN shared \ DOMAIN cell : merged[k] = shared[k]
  BY DEF MergeParams
<1>. HIDE DEF shared, cell, env, merged
<1>6. DOMAIN got = DOMAIN merged /\ \A k \in DOMAIN got : got[k] = ResolveValue(merged[k], env)
  BY DEF ResolveParams
<1>7. got \in Envs
  BY <1>2, <1>3 DEF Envs, merged, shared, cell, env
<1>. HIDE DEF got
<1>8. stkInput.declared \subseteq DOMAIN got
  BY <1>1, <1>6 DEF AssertDeclaredParamsProvided
<1>9. ASSUME NoArrays(cell), NoArrays(shared), NEW k \in DOMAIN got
      PROVE  /\ Stands(got[k], IF k \in DOMAIN cell THEN cell[k] ELSE shared[k], shared, env)
             /\ \A n \in Reached(got[k], Inner) : n.kind \notin Tags \union {"param"}
  <2>1. ASSUME NEW j \in DOMAIN shared PROVE PlainValue(shared[j])
    <3>1. \A n \in WalkParamTree(shared) : n.kind # "param"
      BY <1>2 DEF LoadOtaviaYaml, shared
    <3>2. \A p \in DOMAIN shared[j] : shared[j][p].kind \notin {"array", "param"}
      BY <1>4, <1>9, <3>1, AllIsWalked
    <3>. QED BY <1>4, <3>2, ValueIsPlain
  <2>2. CASE k \in DOMAIN cell
    <3>1. \A p \in DOMAIN cell[k] : cell[k][p].kind # "array"
      BY <1>4, <1>9, <2>2, AllIsWalked
    <3>. QED BY <1>4, <1>5, <1>6, <2>1, <2>2, <3>1, CellStands
  <2>3. CASE k \notin DOMAIN cell
    <3>1. k \in DOMAIN shared /\ got[k] = ResolveValue(shared[k], env)
      BY <1>5, <1>6, <2>3
    <3>. QED BY <2>1, <2>3, <3>1, StackStands
  <2>. QED BY <2>2, <2>3
<1>10. CellOk(got, i)
  BY <1>1, <1>2, <1>8, <1>9 DEF CellOk, shared, cell, env
<1>. QED BY <1>1, <1>3, <1>7, <1>10 DEF i

(* The environment of a cell is what the files say, for any stacks, values of any *)
(* depth, cells and environments.                                                 *)
THEOREM ParamsStand == StackConfigSpec => []CellParamsStand
<1>1. StackConfigInit => StackInv
  BY DEF StackConfigInit, StackInv, StackConfigTypeOK
<1>2. ASSUME StackInv, [StackConfigNext]_stackVars PROVE StackInv'
  <2>1. CASE LoadStack
    <3>1. stkEnv = <<>> /\ DOMAIN stkEnv = {} /\ UNCHANGED <<stkInput, stkEnv>>
      BY <1>2, <2>1 DEF LoadStack, StackInv
    <3>. QED BY <1>2, <2>1, <3>1 DEF LoadStack, StackInv, StackConfigTypeOK
  <2>2. CASE ResolveCell /\ stkEnv' = stkEnv
    <3>1. stkStep = "cells" /\ stkStep' \in {"failed", "done", "cells"}
            /\ UNCHANGED <<stkInput, stkEnv>>
      BY <2>2 DEF ResolveCell
    <3>. QED BY <1>2, <3>1 DEF StackInv, StackConfigTypeOK, CellOk
  <2>3. CASE ResolveCell /\ stkEnv' # stkEnv
    <3>1. PICK got \in Envs : stkEnv' = Append(stkEnv, got) /\ CellOk(got, Len(stkEnv) + 1)
      BY <1>2, <2>3, CellComes
    <3>2. Len(stkEnv) + 1 \in 1..Len(stkInput.stack.cells)
      BY <1>2, <2>3, CellComes
    <3>3. stkStep = "cells" /\ stkStep' \in {"failed", "done", "cells"} /\ UNCHANGED stkInput
      BY <2>3 DEF ResolveCell
    <3>4. stkEnv \in Seq(Envs)
      BY <1>2 DEF StackInv
    <3>5. /\ stkEnv' \in Seq(Envs) /\ Len(stkEnv') = Len(stkEnv) + 1
          /\ DOMAIN stkEnv' = DOMAIN stkEnv \union {Len(stkEnv) + 1}
          /\ \A i \in DOMAIN stkEnv : stkEnv'[i] = stkEnv[i]
          /\ stkEnv'[Len(stkEnv) + 1] = got
      BY <3>1, <3>4
    <3>6. \A i \in DOMAIN stkEnv' : CellOk(stkEnv'[i], i)
      BY <1>2, <3>1, <3>5 DEF StackInv
    <3>7. (\A i \in DOMAIN stkEnv : CellOk(stkEnv[i], i))'
      BY <3>3, <3>6 DEF CellOk
    <3>8. StackConfigTypeOK'
      BY <3>2, <3>3, <3>5 DEF StackConfigTypeOK
    <3>. QED BY <1>2, <3>3, <3>5, <3>7, <3>8 DEF StackInv
  <2>4. CASE UNCHANGED stackVars
    BY <1>2, <2>4 DEF stackVars, StackInv, StackConfigTypeOK, CellOk
  <2>. QED BY <1>2, <2>1, <2>2, <2>3, <2>4 DEF StackConfigNext
<1>3. StackInv => CellParamsStand
  BY DEF StackInv, CellOk, CellParamsStand
<1>. QED BY <1>1, <1>2, <1>3, PTL DEF StackConfigSpec

-----------------------------------------------------------------------------
(* The config of a cell *)

(* A value that is a reference means the value of its key. *)
LEMMA RefMeans ==
  ASSUME NEW v, IsValue(v), IsRef(v), NEW known, IsValue(known[Root(v).name])
  PROVE  Means(known[Root(v).name], v, known)
<1>. DEFINE got == known[Root(v).name]
<1>1. <<>> \in DOMAIN v /\ v[<<>>].kind = "param"
  BY DEF IsValue, IsRef, Root
<1>2. ASSUME NEW p \in DOMAIN v PROVE p = <<>>
  <2>1. p \in Seq(ParamKeys) /\ <<>> \o p = p /\ <<>> \in Seq(ParamKeys)
    BY DEF IsValue
  <2>. QED BY <1>1, <2>1, NothingBelow
<1>3. DOMAIN got \subseteq Seq(ParamKeys)
  BY DEF IsValue
<1>. HIDE DEF got
<1>4. \A r \in DOMAIN got : <<>> \o r = r
  BY <1>3
<1>5. {p \in DOMAIN v : v[p].kind = "param"} = {<<>>} /\ DOMAIN v = {<<>>}
  BY <1>1, <1>2
<1>6. known[v[<<>>].name] = got
  BY DEF got, Root
<1>7. Means(got, v, known)
  BY <1>4, <1>5, <1>6 DEF Means
<1>. QED BY <1>7 DEF got

LEMMA RootStays ==
  ASSUME NEW v, IsValue(v), ~ IsRef(v), NEW known, \A k \in DOMAIN known : IsValue(known[k])
  PROVE  Root(WithParams(v, known)) = Root(v)
<1>1. <<>> \in DOMAIN v \ ParamsOf(v)
  BY DEF IsValue, IsRef, Root, ParamsOf
<1>. QED BY <1>1, WithParamsIs DEF Spells, Root

ConfigSpec == ConfigInit /\ [][ConfigNext]_configVars

(* A key that is resolved has the value at the end of its references. *)
EndIs(k) ==
  IF IsRef(OwnParams[k]) THEN Root(OwnParams[k]).name \in DOMAIN cfgEnds /\ cfgEnds[k] = cfgEnds[Root(OwnParams[k]).name]
  ELSE cfgEnds[k] = OwnParams[k]

(* The calls of resolve: none is open for a key that is resolved, nor two for one. *)
ParamsInv ==
  /\ \A i, j \in DOMAIN cfgOrder : cfgOrder[i] = cfgOrder[j] => i = j
  /\ \A i, j \in DOMAIN cfgChain : cfgChain[i] = cfgChain[j] => i = j
  /\ \A i \in DOMAIN cfgChain : cfgChain[i] \notin DOMAIN cfgEnds
  /\ \A k \in DOMAIN cfgEnds : EndIs(k) /\ ~ IsRef(cfgEnds[k])
  /\ cfgEnds = [k \in DOMAIN cfgEnds |-> cfgEnds[k]]

(* The value of a key is what its end says, of keys that are done themselves. *)
Done(k) ==
  /\ RefsOf(cfgEnds[k]) \subseteq DOMAIN cfgKnown
  /\ cfgKnown[k] = WithParams(cfgEnds[k], cfgKnown)
  /\ RefsOf(cfgKnown[k]) = {}

KnownAll ==
  /\ DOMAIN cfgKnown = DOMAIN cfgEnds /\ DOMAIN cfgEnds = DOMAIN OwnParams
  /\ cfgKnown = [k \in DOMAIN cfgKnown |-> cfgKnown[k]]
  /\ \A k \in DOMAIN cfgEnds : Root(cfgKnown[k]) = Root(cfgEnds[k])

ObjectsInv ==
  /\ KnownAll
  /\ \A k \in DOMAIN cfgEnds : ~ IsObject(cfgEnds[k]) \/ RefsOf(cfgEnds[k]) = {} => cfgKnown[k] = cfgEnds[k]
  /\ \A i \in DOMAIN cfgOrder : i >= cfgNext => cfgKnown[cfgOrder[i]] = cfgEnds[cfgOrder[i]]
  /\ Ordered => \A i \in DOMAIN cfgOrder : i < cfgNext /\ IsObject(cfgEnds[cfgOrder[i]]) => Done(cfgOrder[i])

LoadedInv ==
  /\ KnownAll
  /\ LET node == NodeAt(cfgFile.domain, <<"subdomain">>)
     IN node.kind = "param" =>
          /\ node.name \in DOMAIN cfgEnds /\ <<"subdomain">> \in DOMAIN cfgDomain
          /\ cfgDomain[<<"subdomain">>] = Root(cfgEnds[node.name])
  /\ Ordered =>
       /\ \A k \in DOMAIN cfgEnds : Done(k)
       /\ RefsOf(cfgFile.domain) \subseteq DOMAIN cfgKnown
       /\ cfgDomain = WithParams(cfgFile.domain, cfgKnown) /\ RefsOf(cfgDomain) = {}

HostAgrees ==
  LET node == NodeAt(cfgFile.domain, <<"subdomain">>)
      k == node.name
  IN cfgCommand.options.stage = "cloud" /\ node.kind = "param" =>
       \/ cfgResolved.host[1] = cfgResolved.env[k]
       \/ k \in Overridden \/ Root(cfgEnds[k]).name \in DOMAIN cfgResolved.env
       \/ "SUBDOMAIN" \in DOMAIN cfgResolved.env \union DOMAIN cfgCommand.env

ConfigInv ==
  /\ ConfigTypeOK
  /\ ParamsInv
  /\ cfgStep \in {"parse", "params"} => cfgNext = 1 /\ cfgKnown = <<>>
  /\ cfgStep = "objects" => ObjectsInv
  /\ cfgStep \in {"override", "resolve", "done"} => LoadedInv
  /\ cfgStep = "done" => HostAgrees

LEMMA FilledAre ==
  ASSUME cfgFile \in CellFiles
  PROVE  /\ DOMAIN OwnParams = DOMAIN cfgFile.params
         /\ \A k \in DOMAIN OwnParams : IsValue(OwnParams[k])
         /\ IsValue(cfgFile.domain)
<1>1. DOMAIN OwnParams = DOMAIN cfgFile.params
  BY DEF OwnParams, FillNullRefs
<1>2. ASSUME NEW k \in DOMAIN OwnParams PROVE IsValue(OwnParams[k])
  <2>. DEFINE v == cfgFile.params[k]
              w == [v EXCEPT ![<<>>] = ParamNode(Root(v).kind, k)]
  <2>1. IsValue(v)
    BY <1>1, CellFilesAssumption
  <2>2. OwnParams[k] = v \/ (Root(v).kind \in Tags /\ OwnParams[k] = w)
    BY <1>1 DEF OwnParams, FillNullRefs
  <2>. HIDE DEF v
  <2>3. DOMAIN w = DOMAIN v /\ w = [p \in DOMAIN w |-> w[p]]
    OBVIOUS
  <2>4. \A p \in DOMAIN v : w[p].kind = v[p].kind
    BY <2>1 DEF IsValue, ParamNode, Root
  <2>. HIDE DEF w
  <2>5. IsValue(w)
    BY <2>1, <2>3, <2>4 DEF IsValue, Entered
  <2>. QED BY <2>1, <2>2, <2>5
<1>3. IsValue(cfgFile.domain)
  BY CellFilesAssumption
<1>. QED BY <1>1, <1>2, <1>3

LEMMA ConfigStarts == ConfigInit => ConfigInv
<1>. SUFFICES ASSUME ConfigInit PROVE ConfigInv
  OBVIOUS
<1>1. /\ cfgFile \in CellFiles /\ cfgDomain = cfgFile.domain /\ cfgStep = "parse"
      /\ cfgChain = <<>> /\ cfgOrder = <<>> /\ cfgEnds = <<>> /\ cfgNext = 1 /\ cfgKnown = <<>>
      /\ cfgInstance = NoInstance
  BY DEF ConfigInit, ConfigRests
<1>2. DOMAIN cfgEnds = {} /\ DOMAIN cfgKnown = {} /\ DOMAIN cfgOrder = {} /\ DOMAIN cfgChain = {}
  BY <1>1
<1>3. ConfigTypeOK
  <2>1. IsValue(cfgDomain)
    BY <1>1, FilledAre
  <2>2. ToSet(cfgOrder) = {} /\ Len(cfgOrder) = 0
    BY <1>1 DEF ToSet
  <2>. QED BY <1>1, <1>2, <2>1, <2>2 DEF ConfigTypeOK
<1>4. ParamsInv
  BY <1>2 DEF ParamsInv
<1>. QED BY <1>1, <1>3, <1>4 DEF ConfigInv

LEMMA ParamCalls ==
  ASSUME ConfigInv, ParseStep \/ NextParam \/ FollowRef
  PROVE  ConfigInv'
<1>1. /\ UNCHANGED <<cfgFile, cfgOrder, cfgEnds, cfgNext, cfgKnown, cfgDomain, cfgInstance,
                     cfgCommand, cfgResolved>>
      /\ cfgStep \in {"parse", "params"} /\ cfgStep' \in {"params", "failed"}
  BY DEF ParseStep, NextParam, FollowRef
<1>2. /\ cfgChain' \in Seq(DOMAIN OwnParams)
      /\ \A i, j \in DOMAIN cfgChain' : cfgChain'[i] = cfgChain'[j] => i = j
      /\ \A i \in DOMAIN cfgChain' : cfgChain'[i] \notin DOMAIN cfgEnds
  <2>1. /\ cfgChain \in Seq(DOMAIN OwnParams)
        /\ \A i, j \in DOMAIN cfgChain : cfgChain[i] = cfgChain[j] => i = j
        /\ \A i \in DOMAIN cfgChain : cfgChain[i] \notin DOMAIN cfgEnds
    BY DEF ConfigInv, ConfigTypeOK, ParamsInv
  <2>2. CASE cfgChain' = cfgChain
    BY <2>1, <2>2, Zenon
  <2>3. CASE NextParam
    <3>1. PICK i \in DOMAIN cfgFile.order :
            cfgFile.order[i] \notin DOMAIN cfgEnds /\ cfgChain' = <<cfgFile.order[i]>>
      BY <2>3 DEF NextParam
    <3>2. cfgFile \in CellFiles
      BY DEF ConfigInv, ConfigTypeOK
    <3>3. cfgFile.order \in Seq(DOMAIN OwnParams)
      BY <3>2, FilledAre, CellFilesAssumption
    <3>4. cfgFile.order[i] \in DOMAIN OwnParams
      BY <3>3
    <3>. QED BY <3>1, <3>4
  <2>4. CASE FollowRef /\ cfgChain' # cfgChain
    <3>1. /\ cfgChain' = Append(cfgChain, Target) /\ Target \in DOMAIN OwnParams \ ToSet(cfgChain)
          /\ Target \notin DOMAIN cfgEnds
      BY <2>4 DEF FollowRef, MustFollow
    <3>2. \A i \in DOMAIN cfgChain : cfgChain[i] # Target
      BY <3>1 DEF ToSet
    <3>3. /\ DOMAIN cfgChain' = DOMAIN cfgChain \union {Len(cfgChain) + 1}
          /\ \A i \in DOMAIN cfgChain : cfgChain'[i] = cfgChain[i]
          /\ cfgChain'[Len(cfgChain) + 1] = Target
      BY <2>1, <3>1
    <3>4. cfgChain' \in Seq(DOMAIN OwnParams)
      BY <2>1, <3>1
    <3>. QED BY <2>1, <3>1, <3>2, <3>3, <3>4
  <2>5. CASE ParseStep
    BY <2>2, <2>5 DEF ParseStep
  <2>. QED BY <2>2, <2>3, <2>4, <2>5
<1>3. OwnParams' = OwnParams
  BY <1>1 DEF OwnParams
<1>4. ParamsInv'
  BY <1>1, <1>2, <1>3 DEF ConfigInv, ParamsInv, EndIs
<1>5. ConfigTypeOK'
  BY <1>1, <1>2, <1>3 DEF ConfigInv, ConfigTypeOK
<1>. QED BY <1>1, <1>4, <1>5 DEF ConfigInv

LEMMA ParamSettles ==
  ASSUME ConfigInv, SettleParam
  PROVE  ConfigInv'
<1>1. /\ UNCHANGED <<cfgFile, cfgStep, cfgNext, cfgKnown, cfgDomain, cfgInstance, cfgCommand,
                     cfgResolved>>
      /\ cfgStep = "params" /\ cfgChain # <<>> /\ ~ MustFollow
      /\ cfgOrder' = Append(cfgOrder, Current) /\ cfgChain' = Front(cfgChain)
  BY DEF SettleParam
<1>2. /\ DOMAIN cfgEnds' = DOMAIN cfgEnds \union {Current}
      /\ \A k \in DOMAIN cfgEnds : k # Current => cfgEnds'[k] = cfgEnds[k]
      /\ cfgEnds'[Current] = IF IsRef(OwnParams[Current]) THEN cfgEnds[Target] ELSE OwnParams[Current]
  BY DEF SettleParam
<1>3. /\ cfgFile \in CellFiles /\ OwnParams' = OwnParams
      /\ cfgChain \in Seq(DOMAIN OwnParams) /\ cfgOrder \in Seq(DOMAIN OwnParams)
      /\ DOMAIN cfgEnds = ToSet(cfgOrder)
      /\ \A k \in DOMAIN cfgEnds : IsValue(cfgEnds[k])
      /\ cfgNext = 1 /\ cfgKnown = <<>>
  BY <1>1 DEF ConfigInv, ConfigTypeOK, OwnParams
<1>4. /\ \A i, j \in DOMAIN cfgOrder : cfgOrder[i] = cfgOrder[j] => i = j
      /\ \A i, j \in DOMAIN cfgChain : cfgChain[i] = cfgChain[j] => i = j
      /\ \A i \in DOMAIN cfgChain : cfgChain[i] \notin DOMAIN cfgEnds
      /\ \A k \in DOMAIN cfgEnds : EndIs(k) /\ ~ IsRef(cfgEnds[k])
  BY DEF ConfigInv, ParamsInv
<1>5. /\ Len(cfgChain) \in DOMAIN cfgChain /\ Current = cfgChain[Len(cfgChain)]
      /\ Current \in DOMAIN OwnParams
  BY <1>1, <1>3 DEF Current, Last
<1>6. Current \notin DOMAIN cfgEnds
  BY <1>4, <1>5
<1>7. IsRef(OwnParams[Current]) => Target \in DOMAIN cfgEnds
  BY <1>1 DEF MustFollow
<1>8. /\ cfgChain' \in Seq(DOMAIN OwnParams)
      /\ DOMAIN cfgChain' \subseteq DOMAIN cfgChain \ {Len(cfgChain)}
      /\ \A i \in DOMAIN cfgChain' : cfgChain'[i] = cfgChain[i]
  BY <1>1, <1>3, <1>5 DEF Front
<1>9. /\ \A i, j \in DOMAIN cfgChain' : cfgChain'[i] = cfgChain'[j] => i = j
      /\ \A i \in DOMAIN cfgChain' : cfgChain'[i] \notin DOMAIN cfgEnds'
  BY <1>2, <1>4, <1>5, <1>8
<1>10. /\ cfgOrder' \in Seq(DOMAIN OwnParams)
       /\ DOMAIN cfgOrder' = DOMAIN cfgOrder \union {Len(cfgOrder) + 1}
       /\ Len(cfgOrder) + 1 \notin DOMAIN cfgOrder
       /\ \A i \in DOMAIN cfgOrder : cfgOrder'[i] = cfgOrder[i]
       /\ cfgOrder'[Len(cfgOrder) + 1] = Current
       /\ Len(cfgOrder') \in Nat
  BY <1>1, <1>3, <1>5
<1>11. \A i \in DOMAIN cfgOrder : cfgOrder[i] # Current
  BY <1>3, <1>6 DEF ToSet
<1>12. \A i, j \in DOMAIN cfgOrder' : cfgOrder'[i] = cfgOrder'[j] => i = j
  BY <1>4, <1>10, <1>11
<1>13. DOMAIN cfgEnds' = ToSet(cfgOrder')
  BY <1>2, <1>3, <1>10 DEF ToSet
<1>14. IsValue(cfgEnds'[Current]) /\ ~ IsRef(cfgEnds'[Current])
  <2>1. IsValue(OwnParams[Current])
    BY <1>3, <1>5, FilledAre
  <2>. QED BY <1>2, <1>3, <1>4, <1>7, <2>1
<1>15. \A k \in DOMAIN cfgEnds' : IsValue(cfgEnds'[k]) /\ ~ IsRef(cfgEnds'[k])
  BY <1>2, <1>3, <1>4, <1>14
<1>16. ASSUME NEW k \in DOMAIN cfgEnds' PROVE EndIs(k)'
  <2>1. CASE k = Current
    BY <1>2, <1>3, <1>6, <1>7, <2>1 DEF EndIs, Target
  <2>2. CASE k # Current
    BY <1>2, <1>3, <1>4, <1>6, <2>2 DEF EndIs
  <2>. QED BY <2>1, <2>2
<1>0. cfgEnds' = [k \in DOMAIN cfgEnds' |-> cfgEnds'[k]]
  BY DEF SettleParam
<1>17. ParamsInv'
  BY <1>0, <1>9, <1>12, <1>15, <1>16 DEF ParamsInv
<1>18. ConfigTypeOK'
  <2>1. DOMAIN cfgKnown' = {} /\ cfgNext' \in 1..(Len(cfgOrder') + 1)
    BY <1>1, <1>3, <1>10
  <2>. QED BY <1>1, <1>3, <1>8, <1>10, <1>13, <1>15, <2>1 DEF ConfigInv, ConfigTypeOK
<1>. QED BY <1>1, <1>3, <1>17, <1>18 DEF ConfigInv

LEMMA LoopStarts ==
  ASSUME ConfigInv, ParamsResolved
  PROVE  ConfigInv'
<1>1. /\ UNCHANGED <<cfgFile, cfgChain, cfgOrder, cfgEnds, cfgNext, cfgDomain, cfgInstance,
                     cfgCommand, cfgResolved>>
      /\ cfgStep = "params" /\ cfgStep' = "objects" /\ cfgKnown' = cfgEnds
      /\ DOMAIN OwnParams \subseteq DOMAIN cfgEnds
  BY DEF ParamsResolved
<1>2. cfgNext = 1 /\ cfgOrder \in Seq(DOMAIN OwnParams) /\ DOMAIN cfgEnds = ToSet(cfgOrder)
        /\ OwnParams' = OwnParams
  BY <1>1 DEF ConfigInv, ConfigTypeOK, OwnParams
<1>3. DOMAIN cfgEnds \subseteq DOMAIN OwnParams
  BY <1>2 DEF ToSet
<1>4. \A i \in DOMAIN cfgOrder : ~ (i < 1)
  BY <1>2
<1>5. ObjectsInv'
  BY <1>1, <1>2, <1>3, <1>4 DEF ConfigInv, ParamsInv, ObjectsInv, KnownAll
<1>6. ConfigTypeOK'
  BY <1>1, <1>2 DEF ConfigInv, ConfigTypeOK
<1>7. ParamsInv'
  BY <1>1, <1>2 DEF ConfigInv, ParamsInv, EndIs
<1>. QED BY <1>1, <1>5, <1>6, <1>7 DEF ConfigInv

(* What Ordered says of the object at the place i of the loop. *)
LEMMA EarlierOnly ==
  ASSUME Ordered, NEW i \in DOMAIN cfgOrder, IsObject(cfgEnds[cfgOrder[i]]),
         NEW r \in RefsOf(cfgEnds[cfgOrder[i]]), RefsOf(cfgEnds[r]) # {}
  PROVE  IsObject(cfgEnds[r]) /\ \E j \in 1..(i - 1) : cfgOrder[j] = r
BY DEF Ordered, RefersBack

(* The object that the loop comes to is done then, and what was done stays. *)
LEMMA ObjectDone ==
  ASSUME ConfigInv, ObjectsInv, cfgNext \in DOMAIN cfgOrder, UNCHANGED <<cfgEnds, cfgOrder, cfgFile>>,
         IsObject(cfgEnds[cfgOrder[cfgNext]]),
         RefsOf(cfgEnds[cfgOrder[cfgNext]]) \subseteq DOMAIN cfgKnown,
         RefsOf(cfgEnds[cfgOrder[cfgNext]]) # {},
         DOMAIN cfgKnown' = DOMAIN cfgKnown,
         cfgKnown'[cfgOrder[cfgNext]] = WithParams(cfgEnds[cfgOrder[cfgNext]], cfgKnown),
         \A k \in DOMAIN cfgKnown : k # cfgOrder[cfgNext] => cfgKnown'[k] = cfgKnown[k],
         \A k \in DOMAIN cfgKnown : IsValue(cfgKnown'[k]),
         Ordered, NEW i \in DOMAIN cfgOrder, i <= cfgNext, IsObject(cfgEnds[cfgOrder[i]])
  PROVE  Done(cfgOrder[i])'
<1>. DEFINE k == cfgOrder[cfgNext]
            m == cfgOrder[i]
            v == cfgEnds[m]
<1>1. /\ cfgOrder \in Seq(DOMAIN OwnParams) /\ cfgNext \in Nat /\ DOMAIN cfgEnds = ToSet(cfgOrder)
      /\ \A x, y \in DOMAIN cfgOrder : cfgOrder[x] = cfgOrder[y] => x = y
      /\ DOMAIN cfgKnown = DOMAIN cfgEnds
      /\ \A x \in DOMAIN cfgEnds : IsValue(cfgEnds[x]) /\ IsValue(cfgKnown[x])
  BY DEF ConfigInv, ConfigTypeOK, ParamsInv, ObjectsInv, KnownAll
<1>2. i \in Nat /\ m \in DOMAIN cfgKnown /\ k \in DOMAIN cfgKnown
  BY <1>1 DEF ToSet
<1>3. i < cfgNext => Done(m)
  BY DEF ObjectsInv
<1>4. /\ RefsOf(v) \subseteq DOMAIN cfgKnown
      /\ m # k => cfgKnown[m] = WithParams(v, cfgKnown) /\ RefsOf(cfgKnown[m]) = {}
  <2>1. CASE i = cfgNext
    BY <2>1
  <2>2. CASE i # cfgNext
    BY <1>1, <1>2, <1>3, <2>2 DEF Done
  <2>. QED BY <2>1, <2>2
(* Its references are settled: they say all themselves, or came before. *)
<1>5. ASSUME NEW r \in RefsOf(v) PROVE r # k /\ RefsOf(cfgKnown[r]) = {}
  <2>1. CASE RefsOf(cfgEnds[r]) = {}
    <3>1. cfgKnown[r] = cfgEnds[r]
      BY <1>1, <1>4, <2>1 DEF ObjectsInv
    <3>. QED BY <2>1, <3>1
  <2>2. CASE RefsOf(cfgEnds[r]) # {}
    <3>1. PICK j \in 1..(i - 1) : cfgOrder[j] = r
      BY <2>2, EarlierOnly
    <3>2. IsObject(cfgEnds[r])
      BY <2>2, EarlierOnly
    <3>3. j \in DOMAIN cfgOrder /\ j < cfgNext /\ j # cfgNext
      BY <1>1, <1>2, <3>1
    <3>4. Done(r)
      BY <3>1, <3>2, <3>3 DEF ObjectsInv
    <3>. QED BY <1>1, <3>1, <3>3, <3>4 DEF Done
  <2>. QED BY <2>1, <2>2
<1>6. \A r \in RefsOf(v) : r \in DOMAIN cfgKnown /\ r \in DOMAIN cfgKnown' /\ cfgKnown[r] = cfgKnown'[r]
  BY <1>4, <1>5
<1>7. cfgKnown'[m] = WithParams(v, cfgKnown)
  BY <1>2, <1>4
<1>8. WithParams(v, cfgKnown) = WithParams(v, cfgKnown')
  <2>1. IsValue(v) /\ \A x \in DOMAIN cfgKnown : IsValue(cfgKnown[x])
    BY <1>1, <1>2
  <2>2. \A x \in DOMAIN cfgKnown' : IsValue(cfgKnown'[x])
    OBVIOUS
  <2>. QED BY <1>6, <2>1, <2>2, SameRefsSame
<1>9. RefsOf(WithParams(v, cfgKnown)) = {}
  BY <1>1, <1>2, <1>4, <1>5, NoRefsLeft
<1>. QED BY <1>4, <1>7, <1>8, <1>9 DEF Done

LEMMA ObjectKeeps ==
  ASSUME ConfigInv, ResolveObject
  PROVE  ConfigInv'
<1>. DEFINE k == cfgOrder[cfgNext]
<1>1. /\ UNCHANGED <<cfgFile, cfgChain, cfgOrder, cfgEnds, cfgDomain, cfgInstance, cfgCommand,
                     cfgResolved>>
      /\ cfgStep = "objects" /\ cfgNext <= Len(cfgOrder) /\ ObjectsInv /\ OwnParams' = OwnParams
  BY DEF ResolveObject, ConfigInv, OwnParams
<1>2. /\ cfgOrder \in Seq(DOMAIN OwnParams) /\ cfgNext \in 1..(Len(cfgOrder) + 1)
      /\ DOMAIN cfgEnds = ToSet(cfgOrder)
      /\ \A x, y \in DOMAIN cfgOrder : cfgOrder[x] = cfgOrder[y] => x = y
      /\ DOMAIN cfgKnown = DOMAIN cfgEnds /\ DOMAIN cfgEnds = DOMAIN OwnParams
      /\ \A x \in DOMAIN cfgEnds : IsValue(cfgEnds[x]) /\ IsValue(cfgKnown[x]) /\ ~ IsRef(cfgEnds[x])
      /\ \A x \in DOMAIN cfgEnds : Root(cfgKnown[x]) = Root(cfgEnds[x])
  BY <1>1 DEF ConfigInv, ConfigTypeOK, ParamsInv, ObjectsInv, KnownAll
<1>3. cfgNext \in DOMAIN cfgOrder /\ k \in DOMAIN cfgKnown /\ cfgNext + 1 \in 1..(Len(cfgOrder) + 1)
  BY <1>1, <1>2 DEF ToSet
<1>4. cfgKnown[k] = cfgEnds[k]
  BY <1>1, <1>2, <1>3 DEF ObjectsInv
<1>5. ParamsInv'
  BY <1>1 DEF ConfigInv, ParamsInv, EndIs
<1>6. ASSUME cfgStep' = "objects", cfgNext' = cfgNext + 1, ObjectsInv', \A x \in DOMAIN cfgKnown' : IsValue(cfgKnown'[x])
      PROVE  ConfigInv'
  <2>1. ConfigTypeOK'
    BY <1>1, <1>2, <1>3, <1>6 DEF ConfigInv, ConfigTypeOK, ObjectsInv, KnownAll
  <2>. QED BY <1>5, <1>6, <2>1 DEF ConfigInv
<1>7. Ordered' <=> Ordered
  BY <1>1 DEF Ordered, RefersBack
<1>8. ASSUME cfgNext' = cfgNext + 1, cfgKnown' = cfgKnown, ~ IsObject(cfgEnds[k]) \/ RefsOf(cfgEnds[k]) = {},
             IsObject(cfgEnds[k]) => Done(k)
      PROVE  ObjectsInv'
  <2>1. \A i \in DOMAIN cfgOrder : i >= cfgNext + 1 => i >= cfgNext
    BY <1>2
  <2>2. \A i \in DOMAIN cfgOrder : i < cfgNext + 1 => i < cfgNext \/ i = cfgNext
    BY <1>2
  <2>3. \A x : Done(x)' <=> Done(x)
    BY <1>1, <1>8 DEF Done
  <2>. QED BY <1>1, <1>7, <1>8, <2>1, <2>2, <2>3 DEF ObjectsInv, KnownAll
<1>9. CASE ~ IsObject(cfgKnown[k])
  <2>1. cfgNext' = cfgNext + 1 /\ cfgKnown' = cfgKnown /\ cfgStep' = cfgStep
    BY <1>9 DEF ResolveObject
  <2>2. ~ IsObject(cfgEnds[k])
    BY <1>4, <1>9
  <2>. QED BY <1>1, <1>2, <1>6, <1>8, <2>1, <2>2
<1>10. CASE IsObject(cfgKnown[k]) /\ RefsOf(cfgKnown[k]) \subseteq DOMAIN cfgKnown
  <2>. DEFINE w == WithParams(cfgEnds[k], cfgKnown)
  <2>1. cfgNext' = cfgNext + 1 /\ cfgKnown' = WriteBack(cfgKnown, k) /\ cfgStep' = cfgStep
    BY <1>10 DEF ResolveObject
  <2>2. cfgKnown' = [cfgKnown EXCEPT ![k] = w]
    BY <1>4, <2>1 DEF WriteBack, DeepResolve
  <2>3. IsValue(w) /\ Root(w) = Root(cfgEnds[k])
    BY <1>2, <1>3, WithParamsIsValue, RootStays
  <2>. HIDE DEF w
  <2>4. /\ DOMAIN cfgKnown' = DOMAIN cfgKnown /\ cfgKnown'[k] = w
        /\ \A x \in DOMAIN cfgKnown : x # k => cfgKnown'[x] = cfgKnown[x]
    BY <1>3, <2>2
  <2>5. \A x \in DOMAIN cfgKnown : IsValue(cfgKnown'[x]) /\ Root(cfgKnown'[x]) = Root(cfgEnds[x])
    BY <1>2, <2>3, <2>4
  <2>6. CASE RefsOf(cfgEnds[k]) = {}
    <3>1. w = cfgEnds[k]
      BY <1>2, <1>3, <2>6, NothingToReplace DEF w
    <3>2. cfgKnown' = cfgKnown
      BY <1>1, <1>4, <2>2, <3>1 DEF ObjectsInv, KnownAll
    <3>3. Done(k)
      BY <1>4, <2>6, <3>1 DEF Done, w
    <3>4. ObjectsInv'
      BY <1>8, <2>1, <2>6, <3>2, <3>3
    <3>. QED BY <1>1, <1>6, <2>1, <2>4, <2>5, <3>4
  <2>7. CASE RefsOf(cfgEnds[k]) # {}
    <3>1. KnownAll'
      BY <1>1, <1>2, <2>2, <2>4, <2>5 DEF KnownAll
    <3>2. ASSUME NEW x \in DOMAIN cfgEnds, ~ IsObject(cfgEnds[x]) \/ RefsOf(cfgEnds[x]) = {}
          PROVE  cfgKnown'[x] = cfgEnds[x]
      <4>1. x # k
        BY <1>4, <1>10, <2>7, <3>2
      <4>. QED BY <1>1, <1>2, <2>4, <3>2, <4>1 DEF ObjectsInv
    <3>3. ASSUME NEW i \in DOMAIN cfgOrder, i >= cfgNext + 1
          PROVE  cfgKnown'[cfgOrder[i]] = cfgEnds[cfgOrder[i]]
      <4>1. i >= cfgNext /\ i # cfgNext
        BY <1>2, <3>3
      <4>2. cfgOrder[i] # k /\ cfgOrder[i] \in DOMAIN cfgKnown
        BY <1>2, <1>3, <4>1 DEF ToSet
      <4>. QED BY <1>1, <2>4, <4>1, <4>2 DEF ObjectsInv
    <3>4. ASSUME Ordered, NEW i \in DOMAIN cfgOrder, i < cfgNext + 1, IsObject(cfgEnds[cfgOrder[i]])
          PROVE  Done(cfgOrder[i])'
      <4>1. i <= cfgNext
        BY <1>2, <3>4
      <4>2. IsObject(cfgEnds[k]) /\ RefsOf(cfgEnds[k]) \subseteq DOMAIN cfgKnown
        BY <1>4, <1>10
      <4>3. cfgKnown'[k] = WithParams(cfgEnds[k], cfgKnown)
        BY <2>4 DEF w
      <4>. QED BY <1>1, <1>3, <2>4, <2>5, <2>7, <3>4, <4>1, <4>2, <4>3, ObjectDone
    <3>5. ObjectsInv'
      BY <1>1, <1>7, <2>1, <3>1, <3>2, <3>3, <3>4 DEF ObjectsInv
    <3>. QED BY <1>1, <1>6, <2>1, <2>4, <2>5, <3>5
  <2>. QED BY <2>6, <2>7
<1>11. CASE IsObject(cfgKnown[k]) /\ ~ (RefsOf(cfgKnown[k]) \subseteq DOMAIN cfgKnown)
  <2>1. cfgStep' = "failed" /\ cfgNext' = cfgNext /\ cfgKnown' = cfgKnown
    BY <1>11 DEF ResolveObject
  <2>2. ConfigTypeOK'
    BY <1>1, <2>1 DEF ConfigInv, ConfigTypeOK
  <2>. QED BY <1>5, <2>1, <2>2 DEF ConfigInv
<1>. QED BY <1>9, <1>10, <1>11

(* After the loop every key that the order allows is done, and the last pass *)
(* over the file only adds the arrays.                                       *)
LEMMA FileDone ==
  ASSUME ConfigInv, ObjectsInv, cfgNext > Len(cfgOrder), UNCHANGED <<cfgEnds, cfgOrder,
                                                                     cfgFile>>, Ordered,
         DOMAIN cfgKnown' = DOMAIN cfgKnown,
         \A k \in DOMAIN cfgKnown : cfgKnown'[k] = WithParams(cfgKnown[k], cfgKnown),
         \A k \in DOMAIN cfgKnown : RefsOf(cfgKnown[k]) \subseteq DOMAIN cfgKnown,
         RefsOf(cfgFile.domain) \subseteq DOMAIN cfgKnown,
         cfgDomain' = WithParams(cfgFile.domain, cfgKnown)
  PROVE  /\ \A k \in DOMAIN cfgEnds : Done(k)'
         /\ cfgDomain' = WithParams(cfgFile.domain, cfgKnown') /\ RefsOf(cfgDomain') = {}
<1>1. /\ cfgOrder \in Seq(DOMAIN OwnParams) /\ cfgNext \in Nat /\ DOMAIN cfgEnds = ToSet(cfgOrder)
      /\ DOMAIN cfgKnown = DOMAIN cfgEnds
      /\ \A x \in DOMAIN cfgEnds : IsValue(cfgEnds[x]) /\ IsValue(cfgKnown[x])
      /\ IsValue(cfgFile.domain)
  BY FilledAre DEF ConfigInv, ConfigTypeOK, ObjectsInv, KnownAll
<1>2. \A x \in DOMAIN cfgKnown : IsValue(cfgKnown'[x])
  BY <1>1, WithParamsIsValue
<1>3. ASSUME NEW k \in DOMAIN cfgEnds, IsObject(cfgEnds[k]) PROVE Done(k)
  <2>1. PICK i \in DOMAIN cfgOrder : cfgOrder[i] = k
    BY <1>1 DEF ToSet
  <2>2. i < cfgNext
    BY <1>1
  <2>. QED BY <1>3, <2>1, <2>2 DEF ObjectsInv
<1>4. ASSUME NEW k \in DOMAIN cfgEnds, RefsOf(cfgKnown[k]) = {} PROVE cfgKnown'[k] = cfgKnown[k]
  BY <1>1, <1>4, NothingToReplace
(* What a reference of the domain or of an array refers to says all itself. *)
<1>5. ASSUME NEW r \in DOMAIN cfgEnds, RefsOf(cfgEnds[r]) # {} => IsObject(cfgEnds[r])
      PROVE  RefsOf(cfgKnown[r]) = {} /\ cfgKnown'[r] = cfgKnown[r]
  <2>1. CASE IsObject(cfgEnds[r])
    <3>1. RefsOf(cfgKnown[r]) = {}
      BY <1>3, <2>1 DEF Done
    <3>. QED BY <1>4, <3>1
  <2>2. CASE RefsOf(cfgEnds[r]) = {}
    <3>1. cfgKnown[r] = cfgEnds[r]
      BY <2>2 DEF ObjectsInv
    <3>. QED BY <1>4, <2>2, <3>1
  <2>. QED BY <1>5, <2>1, <2>2
<1>6. ASSUME NEW v, IsValue(v), RefsOf(v) \subseteq DOMAIN cfgKnown,
             \A r \in RefsOf(v) : RefsOf(cfgEnds[r]) # {} => IsObject(cfgEnds[r])
      PROVE  WithParams(v, cfgKnown) = WithParams(v, cfgKnown') /\ RefsOf(WithParams(v, cfgKnown)) = {}
  <2>1. \A r \in RefsOf(v) : RefsOf(cfgKnown[r]) = {} /\ cfgKnown'[r] = cfgKnown[r]
    BY <1>1, <1>5, <1>6
  <2>2. \A r \in RefsOf(v) : r \in DOMAIN cfgKnown /\ r \in DOMAIN cfgKnown'
          /\ cfgKnown[r] = cfgKnown'[r]
    BY <1>6, <2>1
  <2>3. \A x \in DOMAIN cfgKnown : IsValue(cfgKnown[x])
    BY <1>1
  <2>4. \A x \in DOMAIN cfgKnown' : IsValue(cfgKnown'[x])
    BY <1>2
  <2>5. WithParams(v, cfgKnown) = WithParams(v, cfgKnown')
    BY <1>6, <2>2, <2>3, <2>4, SameRefsSame
  <2>6. RefsOf(WithParams(v, cfgKnown)) = {}
    BY <1>6, <2>1, <2>2, <2>3, NoRefsLeft
  <2>. QED BY <2>5, <2>6
<1>7. ASSUME NEW k \in DOMAIN cfgEnds PROVE Done(k)'
  <2>1. PICK i \in DOMAIN cfgOrder : cfgOrder[i] = k
    BY <1>1 DEF ToSet
  <2>2. \A r \in RefsOf(cfgEnds[k]) : RefsOf(cfgEnds[r]) # {} => IsObject(cfgEnds[r])
    BY <2>1 DEF Ordered, RefersBack
  <2>3. CASE IsObject(cfgEnds[k])
    <3>1. /\ RefsOf(cfgEnds[k]) \subseteq DOMAIN cfgKnown /\ RefsOf(cfgKnown[k]) = {}
          /\ cfgKnown[k] = WithParams(cfgEnds[k], cfgKnown)
      BY <1>3, <2>3 DEF Done
    <3>2. cfgKnown'[k] = cfgKnown[k]
      BY <1>4, <3>1
    <3>3. WithParams(cfgEnds[k], cfgKnown) = WithParams(cfgEnds[k], cfgKnown')
      BY <1>1, <1>6, <2>2, <3>1
    <3>. QED BY <3>1, <3>2, <3>3 DEF Done
  <2>4. CASE ~ IsObject(cfgEnds[k])
    <3>1. cfgKnown[k] = cfgEnds[k]
      BY <2>4 DEF ObjectsInv
    <3>2. /\ RefsOf(cfgEnds[k]) \subseteq DOMAIN cfgKnown
          /\ cfgKnown'[k] = WithParams(cfgEnds[k], cfgKnown)
      BY <1>1, <3>1
    <3>3. /\ WithParams(cfgEnds[k], cfgKnown) = WithParams(cfgEnds[k], cfgKnown')
          /\ RefsOf(WithParams(cfgEnds[k], cfgKnown)) = {}
      BY <1>1, <1>6, <2>2, <3>2
    <3>. QED BY <3>2, <3>3 DEF Done
  <2>. QED BY <2>3, <2>4
<1>8. \A r \in RefsOf(cfgFile.domain) : RefsOf(cfgEnds[r]) # {} => IsObject(cfgEnds[r])
  BY DEF Ordered, RefersBack
<1>9. /\ WithParams(cfgFile.domain, cfgKnown) = WithParams(cfgFile.domain, cfgKnown')
      /\ RefsOf(WithParams(cfgFile.domain, cfgKnown)) = {}
  BY <1>1, <1>6, <1>8
<1>. QED BY <1>7, <1>9

LEMMA FileKeeps ==
  ASSUME ConfigInv, ResolveFile
  PROVE  ConfigInv'
<1>. DEFINE refs == RefsOf(cfgFile.domain) \union UNION {RefsOf(cfgKnown[k]) : k \in DOMAIN cfgKnown}
<1>1. /\ UNCHANGED <<cfgFile, cfgChain, cfgOrder, cfgEnds, cfgNext, cfgInstance, cfgCommand,
                     cfgResolved>>
      /\ cfgStep = "objects" /\ cfgNext > Len(cfgOrder) /\ ObjectsInv /\ OwnParams' = OwnParams
  BY DEF ResolveFile, ConfigInv, OwnParams
<1>2. /\ DOMAIN cfgKnown = DOMAIN cfgEnds /\ DOMAIN cfgEnds = DOMAIN OwnParams /\ DOMAIN cfgEnds = ToSet(cfgOrder)
      /\ \A x \in DOMAIN cfgEnds : IsValue(cfgEnds[x]) /\ IsValue(cfgKnown[x]) /\ ~ IsRef(cfgEnds[x])
      /\ \A x \in DOMAIN cfgEnds : Root(cfgKnown[x]) = Root(cfgEnds[x])
      /\ IsValue(cfgFile.domain)
  BY <1>1, FilledAre DEF ConfigInv, ConfigTypeOK, ParamsInv, ObjectsInv, KnownAll
<1>3. ParamsInv'
  BY <1>1 DEF ConfigInv, ParamsInv, EndIs
<1>4. CASE ~ (refs \subseteq DOMAIN cfgKnown)
  <2>1. cfgStep' = "failed" /\ cfgKnown' = cfgKnown /\ cfgDomain' = cfgDomain
    BY <1>4 DEF ResolveFile
  <2>2. ConfigTypeOK'
    BY <1>1, <2>1 DEF ConfigInv, ConfigTypeOK
  <2>. QED BY <1>3, <2>1, <2>2 DEF ConfigInv
<1>5. CASE refs \subseteq DOMAIN cfgKnown
  <2>1. /\ cfgKnown' = [k \in DOMAIN cfgKnown |-> WithParams(cfgKnown[k], cfgKnown)]
        /\ cfgDomain' = WithParams(cfgFile.domain, cfgKnown)
        /\ cfgStep' \in {"failed", "override"}
    BY <1>5 DEF ResolveFile, DeepResolve
  <2>2. /\ DOMAIN cfgKnown' = DOMAIN cfgKnown
        /\ \A k \in DOMAIN cfgKnown : cfgKnown'[k] = WithParams(cfgKnown[k], cfgKnown)
        /\ cfgKnown' = [k \in DOMAIN cfgKnown' |-> cfgKnown'[k]]
    BY <2>1
  <2>3. /\ \A k \in DOMAIN cfgKnown : RefsOf(cfgKnown[k]) \subseteq DOMAIN cfgKnown
        /\ RefsOf(cfgFile.domain) \subseteq DOMAIN cfgKnown
    <3>1. \A k \in DOMAIN cfgKnown : RefsOf(cfgKnown[k]) \subseteq refs
      OBVIOUS
    <3>2. RefsOf(cfgFile.domain) \subseteq refs
      OBVIOUS
    <3>. HIDE DEF refs
    <3>. QED BY <1>5, <3>1, <3>2
  <2>4. ASSUME NEW x \in DOMAIN cfgEnds
        PROVE  IsValue(cfgKnown'[x]) /\ Root(cfgKnown'[x]) = Root(cfgEnds[x])
    <3>1. ~ IsRef(cfgKnown[x])
      BY <1>2 DEF IsRef
    <3>2. \A k \in DOMAIN cfgKnown : IsValue(cfgKnown[k])
      BY <1>2
    <3>. QED BY <1>2, <2>2, <3>1, <3>2, WithParamsIsValue, RootStays
  <2>5. IsValue(cfgDomain')
    BY <1>2, <2>1, WithParamsIsValue
  <2>6. KnownAll'
    BY <1>1, <1>2, <2>2, <2>4 DEF KnownAll
  <2>7. ConfigTypeOK'
    BY <1>1, <1>2, <2>1, <2>2, <2>4, <2>5 DEF ConfigInv, ConfigTypeOK
  <2>8. ASSUME NodeAt(cfgFile.domain, <<"subdomain">>).kind = "param"
        PROVE  LET node == NodeAt(cfgFile.domain, <<"subdomain">>)
               IN /\ node.name \in DOMAIN cfgEnds /\ <<"subdomain">> \in DOMAIN cfgDomain'
                  /\ cfgDomain'[<<"subdomain">>] = Root(cfgEnds[node.name])
    <3>. DEFINE d == cfgFile.domain
                p == <<"subdomain">>
                node == NodeAt(d, p)
    <3>1. p \in DOMAIN d /\ d[p] = node /\ node.kind = "param"
      BY <2>8 DEF NodeAt, ParamNode
    <3>2. p \in ParamsOf(d) /\ node.name \in RefsOf(d)
      BY <3>1 DEF ParamsOf, RefsOf
    <3>3. node.name \in DOMAIN cfgKnown /\ ParamValue(d[p], cfgKnown) = cfgKnown[node.name]
      BY <2>3, <3>1, <3>2 DEF ParamValue
    <3>4. <<>> \in DOMAIN cfgKnown[node.name] /\ IsValue(d)
            /\ \A k \in DOMAIN cfgKnown : IsValue(cfgKnown[k])
      BY <1>2, <3>3 DEF IsValue
    <3>5. p \in Seq(ParamKeys)
      BY <3>1, <3>4 DEF IsValue
    <3>6. p \o <<>> = p
      BY <3>5
    <3>. HIDE DEF d, p, node
    <3>7. p \o <<>> \in DOMAIN WithParams(d, cfgKnown)
            /\ WithParams(d, cfgKnown)[p \o <<>>] = cfgKnown[node.name][<<>>]
      <4>1. <<>> \in DOMAIN ParamValue(d[p], cfgKnown)
        BY <3>3, <3>4
      <4>2. \A q \in ParamsOf(d) : \A r \in DOMAIN ParamValue(d[q], cfgKnown) :
              /\ q \o r \in DOMAIN WithParams(d, cfgKnown)
              /\ WithParams(d, cfgKnown)[q \o r] = ParamValue(d[q], cfgKnown)[r]
        BY <3>4, WithParamsIs DEF Spells
      <4>3. WithParams(d, cfgKnown)[p \o <<>>] = ParamValue(d[p], cfgKnown)[<<>>]
              /\ p \o <<>> \in DOMAIN WithParams(d, cfgKnown)
        BY <3>2, <4>1, <4>2, Zenon
      <4>. QED BY <3>3, <4>3
    <3>8. p \in DOMAIN cfgDomain' /\ cfgDomain'[p] = Root(cfgKnown[node.name])
      BY <2>1, <3>6, <3>7 DEF Root, d
    <3>. QED BY <1>2, <3>3, <3>8 DEF d, p, node
  <2>9. Ordered' <=> Ordered
    BY <1>1 DEF Ordered, RefersBack
  <2>10. ASSUME Ordered
         PROVE  /\ \A k \in DOMAIN cfgEnds : Done(k)'
                /\ cfgDomain' = WithParams(cfgFile.domain, cfgKnown') /\ RefsOf(cfgDomain') = {}
    BY <1>1, <2>1, <2>2, <2>3, <2>10, FileDone
  <2>11. LoadedInv'
    BY <1>1, <2>2, <2>3, <2>6, <2>8, <2>9, <2>10 DEF LoadedInv
  <2>. QED BY <1>3, <2>1, <2>7, <2>11 DEF ConfigInv
<1>. QED BY <1>4, <1>5

LEMMA InstanceKeeps ==
  ASSUME ConfigInv, LoadInstance
  PROVE  ConfigInv'
<1>1. /\ UNCHANGED <<cfgFile, cfgChain, cfgOrder, cfgEnds, cfgNext, cfgKnown, cfgDomain,
                     cfgCommand, cfgResolved>>
      /\ cfgStep = "override" /\ cfgStep' \in {"resolve", "failed"}
      /\ cfgInstance' \in InstanceFiles \union {NoInstance} /\ OwnParams' = OwnParams
  BY DEF LoadInstance, OwnParams
<1>2. ParamsInv'
  BY <1>1 DEF ConfigInv, ParamsInv, EndIs
<1>3. LoadedInv'
  <2>1. LoadedInv /\ (Ordered' <=> Ordered) /\ \A k : Done(k)' <=> Done(k)
    BY <1>1 DEF ConfigInv, Ordered, RefersBack, Done
  <2>. QED BY <1>1, <2>1 DEF LoadedInv, KnownAll
<1>4. ConfigTypeOK'
  BY <1>1 DEF ConfigInv, ConfigTypeOK
<1>. QED BY <1>1, <1>2, <1>3, <1>4 DEF ConfigInv

(* What the host takes from a param of the domain is its value in the environment. *)
LEMMA SubdomainFrom ==
  ASSUME NEW cmd, NEW params, NEW domain, NEW k \in DOMAIN params, NEW node, node = Root(params[k]),
         IsValue(domain), <<"subdomain">> \in DOMAIN domain, domain[<<"subdomain">>] = node,
         cmd.options.stage = "cloud",
         NEW got, got = ResolveConfig(cmd, params, domain), got.ok,
         node.name \notin DOMAIN got.env, "SUBDOMAIN" \notin DOMAIN got.env \union DOMAIN cmd.env
  PROVE  got.host[1] = got.env[k]
<1>. DEFINE vars == EnvVars(cmd, params)
            host == HostOf(cmd, domain, vars)
<1>1. Root(domain).kind # "null"
  <2>1. Len(<<"subdomain">>) = 1 /\ SubSeq(<<"subdomain">>, 1, 0) = <<>>
    OBVIOUS
  <2>2. 0 \in 0..(Len(<<"subdomain">>) - 1)
    BY <2>1
  <2>3. Entered(domain, <<"subdomain">>, Inner)
    BY DEF IsValue
  <2>4. domain[<<>>].kind \in Inner
    BY <2>1, <2>2, <2>3 DEF Entered
  <2>. QED BY <2>4 DEF Root, Inner
<1>2. /\ DomainError(cmd, domain, vars) = ""
      /\ got.host = host /\ got.env = WithSso(cmd, vars)
  BY <1>1 DEF ResolveConfig, Unresolved
<1>3. /\ SubdomainOf(cmd, domain, vars) # "" /\ host # <<>>
  BY <1>2 DEF DomainError
<1>4. DOMAIN vars \subseteq DOMAIN got.env
  BY <1>2 DEF WithSso
<1>5. SubdomainOf(cmd, domain, vars) = ValueToString(node, vars, cmd.env)
  BY <1>4 DEF SubdomainOf, OwnSubdomain, NodeAt
<1>6. host[1] = SubdomainOf(cmd, domain, vars)
  BY <1>3 DEF HostOf
<1>7. node.kind \in Tags \union {"string"}
  BY <1>3, <1>5 DEF ValueToString
<1>8. k \in DOMAIN vars /\ vars[k] = ParamEnv(cmd, k, node)
  BY <1>7 DEF EnvVars
<1>. HIDE DEF vars, host
<1>9. ValueToString(node, vars, cmd.env) = vars[k]
  <2>1. CASE node.kind = "string"
    BY <1>8, <2>1 DEF ValueToString, ParamEnv
  <2>2. CASE node.kind # "string"
    <3>1. node.kind \in Tags /\ node.name \notin DOMAIN vars
      BY <1>4, <1>7, <2>2
    <3>2. ValueToString(node, vars, cmd.env) = IF node.name \in DOMAIN cmd.env THEN cmd.env[node.name] ELSE ""
      BY <2>2, <3>1 DEF ValueToString, Lookup
    <3>3. node.name \in DOMAIN cmd.env
      BY <1>3, <1>5, <3>2
    <3>. QED BY <1>8, <2>2, <3>2, <3>3 DEF ParamEnv
  <2>. QED BY <2>1, <2>2
<1>10. got.env[k] = vars[k]
  <2>1. vars[k] # ""
    BY <1>3, <1>5, <1>9
  <2>2. k = "SSO_BASE_URL" => Lookup(vars, <<>>, "SSO_BASE_URL") # ""
    BY <1>8, <2>1 DEF Lookup
  <2>. QED BY <1>2, <1>8, <2>2 DEF WithSso
<1>. QED BY <1>2, <1>5, <1>6, <1>9, <1>10

LEMMA ResolveKeeps ==
  ASSUME ConfigInv, ResolveStep
  PROVE  ConfigInv'
<1>1. /\ UNCHANGED <<cfgFile, cfgChain, cfgOrder, cfgEnds, cfgNext, cfgKnown, cfgDomain, cfgInstance>>
      /\ cfgStep = "resolve" /\ cfgStep' \in {"done", "failed"} /\ (cfgStep' = "done" <=> cfgResolved'.ok)
      /\ cfgCommand' \in CellCommands /\ OwnParams' = OwnParams /\ Overridden' = Overridden
      /\ cfgResolved' = ResolveConfig(cfgCommand', LoadedParams, cfgDomain)
  BY DEF ResolveStep, OwnParams, Overridden
<1>2. ParamsInv'
  BY <1>1 DEF ConfigInv, ParamsInv, EndIs
<1>3. LoadedInv'
  <2>1. LoadedInv /\ (Ordered' <=> Ordered) /\ \A k : Done(k)' <=> Done(k)
    BY <1>1 DEF ConfigInv, Ordered, RefersBack, Done
  <2>. QED BY <1>1, <2>1 DEF LoadedInv, KnownAll
<1>4. ConfigTypeOK'
  BY <1>1 DEF ConfigInv, ConfigTypeOK
<1>5. ASSUME cfgStep' = "done" PROVE HostAgrees'
  <2>. DEFINE node == NodeAt(cfgFile.domain, <<"subdomain">>)
              k == node.name
  <2>. SUFFICES ASSUME cfgCommand'.options.stage = "cloud", node.kind = "param", k \notin Overridden,
                       Root(cfgEnds[k]).name \notin DOMAIN cfgResolved'.env,
                       "SUBDOMAIN" \notin DOMAIN cfgResolved'.env \union DOMAIN cfgCommand'.env
                PROVE  cfgResolved'.host[1] = cfgResolved'.env[k]
    BY <1>1 DEF HostAgrees
  <2>1. /\ k \in DOMAIN cfgEnds /\ <<"subdomain">> \in DOMAIN cfgDomain
        /\ cfgDomain[<<"subdomain">>] = Root(cfgEnds[k])
        /\ DOMAIN cfgKnown = DOMAIN cfgEnds /\ Root(cfgKnown[k]) = Root(cfgEnds[k])
    BY <1>1 DEF ConfigInv, LoadedInv, KnownAll
  <2>2. k \in DOMAIN LoadedParams /\ Root(LoadedParams[k]) = Root(cfgEnds[k])
    BY <2>1 DEF LoadedParams
  <2>3. IsValue(cfgDomain)
    BY DEF ConfigInv, ConfigTypeOK
  <2>. HIDE DEF node
  <2>. QED BY <1>1, <1>5, <2>1, <2>2, <2>3, SubdomainFrom
<1>. QED BY <1>1, <1>2, <1>3, <1>4, <1>5 DEF ConfigInv

(* A config that loads has the meaning of its file, for any files, values of any *)
(* depth, instances, environments and options.                                   *)
THEOREM ConfigStands == ConfigSpec => []ConfigResolves
<1>1. ConfigInit => ConfigInv
  BY ConfigStarts
<1>2. ASSUME ConfigInv, [ConfigNext]_configVars PROVE ConfigInv'
  <2>1. CASE ConfigNext
    BY <1>2, <2>1, ParamCalls, ParamSettles, LoopStarts, ObjectKeeps, FileKeeps, InstanceKeeps, ResolveKeeps
       DEF ConfigNext
  <2>2. CASE UNCHANGED configVars
    <3>1. UNCHANGED <<cfgFile, cfgStep, cfgChain, cfgOrder, cfgEnds, cfgNext, cfgKnown,
                      cfgDomain, cfgInstance, cfgCommand, cfgResolved>>
      BY <2>2 DEF configVars
    <3>2. /\ OwnParams' = OwnParams /\ Overridden' = Overridden /\ (Ordered' <=> Ordered)
          /\ \A k : Done(k)' <=> Done(k)
      BY <3>1 DEF OwnParams, Overridden, Ordered, RefersBack, Done
    <3>3. KnownAll' = KnownAll
      BY <3>1, <3>2 DEF KnownAll
    <3>4. (ObjectsInv' <=> ObjectsInv) /\ (LoadedInv' <=> LoadedInv)
      BY <3>1, <3>2, <3>3 DEF ObjectsInv, LoadedInv
    <3>5. HostAgrees' <=> HostAgrees
      BY <3>1, <3>2 DEF HostAgrees
    <3>6. ParamsInv' /\ ConfigTypeOK'
      BY <1>2, <3>1, <3>2 DEF ConfigInv, ParamsInv, ConfigTypeOK, EndIs
    <3>. QED BY <1>2, <3>1, <3>4, <3>5, <3>6 DEF ConfigInv
  <2>. QED BY <1>2, <2>1, <2>2
<1>3. ConfigInv => ConfigResolves
  <2>. SUFFICES ASSUME ConfigInv, cfgStep \in {"override", "resolve", "done"} PROVE ConfigResolves
    BY DEF ConfigResolves
  <2>1. /\ LoadedInv /\ ParamsInv
        /\ \A k \in DOMAIN cfgKnown : IsValue(cfgKnown[k])
        /\ DOMAIN cfgKnown = DOMAIN cfgEnds /\ DOMAIN cfgEnds = DOMAIN OwnParams
        /\ \A k \in DOMAIN cfgEnds : IsValue(cfgEnds[k])
        /\ \A k \in DOMAIN OwnParams : IsValue(OwnParams[k])
        /\ IsValue(cfgFile.domain)
    BY FilledAre DEF ConfigInv, ConfigTypeOK, LoadedInv, KnownAll
  <2>2. ASSUME Ordered, NEW k \in DOMAIN OwnParams
        PROVE  Means(cfgKnown[k], OwnParams[k], cfgKnown) /\ RefsOf(cfgKnown[k]) = {}
    <3>1. Done(k) /\ EndIs(k)
      BY <2>1, <2>2 DEF LoadedInv, ParamsInv
    <3>2. CASE IsRef(OwnParams[k])
      <4>. DEFINE r == Root(OwnParams[k]).name
      <4>1. r \in DOMAIN cfgEnds /\ cfgEnds[k] = cfgEnds[r]
        BY <3>1, <3>2 DEF EndIs
      <4>2. Done(r)
        BY <2>1, <2>2, <4>1 DEF LoadedInv
      <4>3. cfgKnown[k] = cfgKnown[r]
        BY <3>1, <4>1, <4>2 DEF Done
      <4>4. IsValue(OwnParams[k]) /\ IsValue(cfgKnown[r])
        BY <2>1, <4>1
      <4>5. Means(cfgKnown[r], OwnParams[k], cfgKnown)
        BY <3>2, <4>4, RefMeans
      <4>. QED BY <3>1, <4>3, <4>5 DEF Done
    <3>3. CASE ~ IsRef(OwnParams[k])
      <4>1. cfgEnds[k] = OwnParams[k] /\ cfgKnown[k] = WithParams(cfgEnds[k], cfgKnown)
              /\ RefsOf(cfgEnds[k]) \subseteq DOMAIN cfgKnown
        BY <3>1, <3>3 DEF EndIs, Done
      <4>2. Means(WithParams(cfgEnds[k], cfgKnown), cfgEnds[k], cfgKnown)
        BY <2>1, <4>1, WithParamsMeans
      <4>. QED BY <3>1, <4>1, <4>2 DEF Done
    <3>. QED BY <3>2, <3>3
  <2>3. ASSUME Ordered PROVE Means(cfgDomain, cfgFile.domain, cfgKnown) /\ RefsOf(cfgDomain) = {}
    <3>1. /\ RefsOf(cfgFile.domain) \subseteq DOMAIN cfgKnown
          /\ cfgDomain = WithParams(cfgFile.domain, cfgKnown) /\ RefsOf(cfgDomain) = {}
      BY <2>1, <2>3 DEF LoadedInv
    <3>2. Means(WithParams(cfgFile.domain, cfgKnown), cfgFile.domain, cfgKnown)
      BY <2>1, <3>1, WithParamsMeans
    <3>. QED BY <3>1, <3>2
  <2>4. cfgStep = "done" => HostAgrees
    BY DEF ConfigInv
  <2>. QED BY <2>2, <2>3, <2>4 DEF ConfigResolves, HostAgrees
<1>. QED BY <1>1, <1>2, <1>3, PTL DEF ConfigSpec

-----------------------------------------------------------------------------
(* Templates: a fragment is put together from fragments; what it names is named by one *)
(* of them, and what one of them has it has.                                           *)

(* What a fragment names, and the resources it has *)
Uses(t) == UNION {Named(t[id]) : id \in DOMAIN t}
Has(t) == {n \in DOMAIN t : n.section = "Resources"}

LEMMA WholeHas == ASSUME NEW t, Uses(t) \subseteq Has(t) PROVE Whole(t)
BY DEF Whole, Uses, Has

LEMMA HasUses == ASSUME NEW t, Whole(t) PROVE Uses(t) \subseteq Has(t)
BY DEF Whole, Uses, Has

LEMMA NothingUsed == Uses(NoFragment) = {} /\ Has(NoFragment) = {}
BY DEF Uses, Has, NoFragment

LEMMA ResourceNames ==
  ASSUME NEW refs, NEW subs
  PROVE  /\ Named(Resource(refs, subs)) = refs \union subs
         /\ Resource(refs, subs).refs = refs /\ Resource(refs, subs).subs = subs
BY DEF Named, Resource

LEMMA OneIs ==
  ASSUME NEW id, NEW refs, NEW subs
  PROVE  DOMAIN One(id, refs, subs) = {id} /\ One(id, refs, subs)[id] = Resource(refs, subs)
BY DEF One

LEMMA OneUses ==
  ASSUME NEW id, NEW refs, NEW subs
  PROVE  Uses(One(id, refs, subs)) = refs \union subs
<1>1. Named(Resource(refs, subs)) = refs \union subs
  BY ResourceNames
<1>2. DOMAIN One(id, refs, subs) = {id} /\ One(id, refs, subs)[id] = Resource(refs, subs)
  BY OneIs
<1>. QED BY <1>1, <1>2 DEF Uses

LEMMA OneHas ==
  ASSUME NEW id, NEW refs, NEW subs, id.section = "Resources"
  PROVE  Has(One(id, refs, subs)) = {id}
BY OneIs DEF Has

LEMMA OneGives ==
  ASSUME NEW id, NEW refs, NEW subs, id.section = "Outputs"
  PROVE  Has(One(id, refs, subs)) = {}
<1>1. DOMAIN One(id, refs, subs) = {id}
  BY OneIs
<1>. QED BY <1>1 DEF Has

LEMMA FunctionIs ==
  ASSUME NEW id, NEW refs, NEW zip
  PROVE  /\ DOMAIN Function(id, refs, zip) = {id}
         /\ Function(id, refs, zip)[id] = [refs |-> refs, subs |-> {}, code |-> zip]
BY DEF Function, Resource, WithZip

LEMMA FunctionUses ==
  ASSUME NEW id, NEW refs, NEW zip
  PROVE  Uses(Function(id, refs, zip)) = refs
<1>1. /\ DOMAIN Function(id, refs, zip) = {id}
      /\ Function(id, refs, zip)[id] = [refs |-> refs, subs |-> {}, code |-> zip]
  BY DEF Function, Resource, WithZip
<1>2. Named(Function(id, refs, zip)[id]) = refs
  BY <1>1 DEF Named
<1>. QED BY <1>1, <1>2 DEF Uses

LEMMA FunctionHas ==
  ASSUME NEW id, NEW refs, NEW zip, id.section = "Resources"
  PROVE  Has(Function(id, refs, zip)) = {id}
<1>1. DOMAIN Function(id, refs, zip) = {id}
  BY FunctionIs
<1>. QED BY <1>1 DEF Has

LEMMA BothUse ==
  ASSUME NEW f, NEW g
  PROVE  /\ Uses(f ++ g) \subseteq Uses(f) \union Uses(g)
         /\ Has(f ++ g) = Has(f) \union Has(g)
         /\ DOMAIN (f ++ g) = DOMAIN f \union DOMAIN g
         /\ \A id \in DOMAIN f : (f ++ g)[id] = f[id]
         /\ \A id \in DOMAIN g \ DOMAIN f : (f ++ g)[id] = g[id]
<1>1. DOMAIN (f ++ g) = DOMAIN f \union DOMAIN g
        /\ \A id \in DOMAIN (f ++ g) : (f ++ g)[id] = IF id \in DOMAIN f THEN f[id] ELSE g[id]
  BY DEF ++
<1>2. \A id \in DOMAIN f : (f ++ g)[id] = f[id]
  BY <1>1
<1>3. \A id \in DOMAIN g \ DOMAIN f : (f ++ g)[id] = g[id]
  BY <1>1
<1>4. Has(f ++ g) = Has(f) \union Has(g)
  BY <1>1 DEF Has
<1>5. Uses(f ++ g) \subseteq Uses(f) \union Uses(g)
  BY <1>1, <1>2, <1>3 DEF Uses
<1>. QED BY <1>1, <1>2, <1>3, <1>4, <1>5

LEMMA ThreeUse ==
  ASSUME NEW f, NEW g, NEW h
  PROVE  /\ Uses(f ++ g ++ h) \subseteq Uses(f) \union Uses(g) \union Uses(h)
         /\ Has(f ++ g ++ h) = Has(f) \union Has(g) \union Has(h)
<1>1. /\ Uses(f ++ g) \subseteq Uses(f) \union Uses(g)
      /\ Has(f ++ g) = Has(f) \union Has(g)
      /\ DOMAIN (f ++ g) = DOMAIN f \union DOMAIN g
  BY BothUse
<1>2. /\ Uses((f ++ g) ++ h) \subseteq Uses(f ++ g) \union Uses(h)
      /\ Has((f ++ g) ++ h) = Has(f ++ g) \union Has(h)
      /\ DOMAIN ((f ++ g) ++ h) = DOMAIN (f ++ g) \union DOMAIN h
  BY BothUse
<1>. QED BY <1>1, <1>2

LEMMA AllUse ==
  ASSUME NEW F
  PROVE  /\ \A n \in Uses(Merged(F)) : \E f \in F : n \in Uses(f)
         /\ \A f \in F : Has(f) \subseteq Has(Merged(F))
         /\ DOMAIN Merged(F) = UNION {DOMAIN f : f \in F}
         /\ \A id \in DOMAIN Merged(F) : \E f \in F : id \in DOMAIN f /\ Merged(F)[id] = f[id]
<1>1. DOMAIN Merged(F) = UNION {DOMAIN f : f \in F}
  BY DEF Merged
<1>2. ASSUME NEW id \in DOMAIN Merged(F) PROVE \E f \in F : id \in DOMAIN f /\ Merged(F)[id] = f[id]
  <2>1. \E f \in F : id \in DOMAIN f
    BY <1>1
  <2>2. PICK f \in F : f = (CHOOSE g \in F : id \in DOMAIN g) /\ id \in DOMAIN f
    BY <2>1
  <2>. QED BY <1>2, <2>2 DEF Merged
<1>3. \A f \in F : Has(f) \subseteq Has(Merged(F))
  BY <1>1 DEF Has
<1>4. \A n \in Uses(Merged(F)) : \E f \in F : n \in Uses(f)
  BY <1>1, <1>2 DEF Uses
<1>. QED BY <1>1, <1>2, <1>3, <1>4

-----------------------------------------------------------------------------
(* The fragments *)

LEMMA IdsDiffer ==
  ASSUME NEW w, NEW k
  PROVE  /\ Id(w, k).words = w /\ Id(w, k).what = k /\ Id(w, k).section = "Resources"
         /\ OutputOf(Id(w, k)).section = "Outputs" /\ GivenBy(OutputOf(Id(w, k))) = Id(w, k)
<1>1. Id(w, k) = [words |-> w, what |-> k, section |-> "Resources"]
  BY DEF Id
<1>2. OutputOf(Id(w, k)) = [words |-> w, what |-> k, section |-> "Outputs"]
  BY <1>1 DEF OutputOf
<1>3. GivenBy(OutputOf(Id(w, k))) = [words |-> w, what |-> k, section |-> "Resources"]
  BY <1>2 DEF GivenBy
<1>. QED BY <1>1, <1>2, <1>3

(* Ids of resources and not of outputs *)
IsResource(ids) == \A id \in ids : \E w, k : id = Id(w, k)

LEMMA OutputsUse ==
  ASSUME NEW ids, IsResource(ids)
  PROVE  Uses(OutputsOf(ids)) \subseteq ids /\ Has(OutputsOf(ids)) = {}
<1>1. \A id \in ids : GivenBy(OutputOf(id)) = id /\ OutputOf(id).section = "Outputs"
  BY IdsDiffer DEF IsResource
<1>2. DOMAIN OutputsOf(ids) = {OutputOf(id) : id \in ids}
        /\ \A id \in ids : OutputsOf(ids)[OutputOf(id)] = Resource({id}, {})
  BY <1>1 DEF OutputsOf
<1>3. \A id \in ids : Named(OutputsOf(ids)[OutputOf(id)]) \subseteq ids
  <2>. TAKE id \in ids
  <2>1. Named(Resource({id}, {})) = {id} \union {}
    BY ResourceNames
  <2>. QED BY <1>2, <2>1
<1>. QED BY <1>1, <1>2, <1>3 DEF Uses, Has

LEMMA StoringUses ==
  ASSUME NEW ids, IsResource(ids)
  PROVE  Uses(Storing(ids)) \subseteq ids /\ Has(Storing(ids)) = ids
<1>. DEFINE f == [id \in ids |-> Resource({}, {})]
<1>1. Uses(f) = {} /\ Has(f) = ids
  <2>1. \A id \in ids : Named(f[id]) = {} /\ id.section = "Resources"
    BY IdsDiffer, ResourceNames DEF IsResource
  <2>. QED BY <2>1 DEF Uses, Has
<1>2. Storing(ids) = f ++ OutputsOf(ids)
  BY DEF Storing
<1>. HIDE DEF f
<1>3. Uses(OutputsOf(ids)) \subseteq ids /\ Has(OutputsOf(ids)) = {}
  BY OutputsUse
<1>4. /\ Uses(f ++ OutputsOf(ids)) \subseteq Uses(f) \union Uses(OutputsOf(ids))
      /\ Has(f ++ OutputsOf(ids)) = Has(f) \union Has(OutputsOf(ids))
  BY BothUse
<1>. QED BY <1>1, <1>2, <1>3, <1>4

LEMMA DataAre ==
  ASSUME NEW cell
  PROVE  IsResource(TableIds(cell)) /\ IsResource(BucketIds(cell) \union {FrontendBucket}) /\ IsResource(BucketIds(cell))
<1>. DEFINE b == Id(<<"Frontend">>, "Bucket")
<1>1. FrontendBucket = b
  BY DEF FrontendBucket
<1>. QED BY <1>1 DEF IsResource, TableIds, BucketIds

LEMMA PlainUses ==
  ASSUME NEW table
  PROVE  /\ Uses(Plain(table)) \subseteq {FixedId(w) : w \in UNION {table[x] : x \in DOMAIN table}}
         /\ Has(Plain(table)) = {FixedId(w) : w \in DOMAIN table}
<1>1. \A w : FixedId(w).what = w /\ FixedId(w).section = "Resources"
  BY DEF FixedId, Id
<1>2. DOMAIN Plain(table) = {FixedId(w) : w \in DOMAIN table}
        /\ \A w \in DOMAIN table : Plain(table)[FixedId(w)] = Resource({FixedId(x) : x \in table[w]}, {})
  <2>1. DOMAIN Plain(table) = {FixedId(w) : w \in DOMAIN table}
    BY DEF Plain
  <2>2. ASSUME NEW w \in DOMAIN table
        PROVE  Plain(table)[FixedId(w)] = Resource({FixedId(x) : x \in table[w]}, {})
    <3>1. FixedId(w).what = w /\ FixedId(w) \in {FixedId(x) : x \in DOMAIN table}
      BY <1>1
    <3>. QED BY <3>1 DEF Plain
  <2>. QED BY <2>1, <2>2
<1>3. \A w \in DOMAIN table :
        Named(Plain(table)[FixedId(w)]) \subseteq {FixedId(x) : x \in UNION {table[y] : y \in DOMAIN table}}
  <2>. TAKE w \in DOMAIN table
  <2>. DEFINE named == {FixedId(x) : x \in table[w]}
  <2>1. Named(Plain(table)[FixedId(w)]) = named \union {}
    <3>1. Plain(table)[FixedId(w)] = Resource(named, {})
      BY <1>2
    <3>. HIDE DEF named
    <3>. QED BY <3>1, ResourceNames
  <2>2. named \subseteq {FixedId(x) : x \in UNION {table[y] : y \in DOMAIN table}}
    OBVIOUS
  <2>. HIDE DEF named
  <2>. QED BY <2>1, <2>2
<1>4. Has(Plain(table)) = {FixedId(w) : w \in DOMAIN table}
  BY <1>1, <1>2 DEF Has
<1>5. Uses(Plain(table)) \subseteq {FixedId(x) : x \in UNION {table[y] : y \in DOMAIN table}}
  BY <1>2, <1>3 DEF Uses
<1>. QED BY <1>4, <1>5

LEMMA PrivateUses ==
  /\ Uses(PrivateNetwork) \subseteq Has(PrivateNetwork)
  /\ {FixedId("LambdaVpc"), FixedId("PrivateSubnetA"), FixedId("PrivateSubnetB"),
      FixedId("LambdaSecurityGroup"), FixedId("PrivateRouteTable")} \subseteq Has(PrivateNetwork)
<1>. DEFINE vpc == {"LambdaVpc"}
            table == [LambdaVpc |-> {}, PrivateSubnetA |-> vpc, PrivateSubnetB |-> vpc,
               PrivateRouteTable |-> vpc, LambdaSecurityGroup |-> vpc,
               PrivateSubnetARouteTableAssociation |-> {"PrivateSubnetA", "PrivateRouteTable"},
               PrivateSubnetBRouteTableAssociation |-> {"PrivateSubnetB", "PrivateRouteTable"}]
            names == {"LambdaVpc", "PrivateSubnetA", "PrivateSubnetB", "PrivateRouteTable",
                      "LambdaSecurityGroup", "PrivateSubnetARouteTableAssociation",
                      "PrivateSubnetBRouteTableAssociation"}
<1>1. DOMAIN table = names /\ UNION {table[x] : x \in DOMAIN table} \subseteq names
  OBVIOUS
<1>2. PrivateNetwork = Plain(table)
  BY DEF PrivateNetwork
<1>. HIDE DEF table
<1>3. Has(PrivateNetwork) = {FixedId(w) : w \in names}
        /\ Uses(PrivateNetwork) \subseteq {FixedId(w) : w \in names}
  BY <1>1, <1>2, PlainUses
<1>. QED BY <1>3

LEMMA PublicUses ==
  LET names == {"PublicSubnet", "InternetGateway", "PublicRouteTable",
                "InternetGatewayAttachment", "PublicSubnetRouteTableAssociation",
                "NatGatewayEip", "NatGateway"}
  IN /\ Uses(PublicNetwork) \subseteq {FixedId(w) : w \in names \union {"LambdaVpc"}}
     /\ Has(PublicNetwork) = {FixedId(w) : w \in names}
<1>. DEFINE vpc == {"LambdaVpc"}
            table == [PublicSubnet |-> vpc, InternetGateway |-> {}, PublicRouteTable |-> vpc,
               InternetGatewayAttachment |-> {"LambdaVpc", "InternetGateway"},
               PublicSubnetRouteTableAssociation |-> {"PublicSubnet", "PublicRouteTable"},
               NatGatewayEip |-> {}, NatGateway |-> {"NatGatewayEip", "PublicSubnet"}]
            names == {"PublicSubnet", "InternetGateway", "PublicRouteTable",
                      "InternetGatewayAttachment", "PublicSubnetRouteTableAssociation",
                      "NatGatewayEip", "NatGateway"}
<1>1. DOMAIN table = names /\ UNION {table[x] : x \in DOMAIN table} \subseteq names \union {"LambdaVpc"}
  OBVIOUS
<1>2. PublicNetwork = Plain(table)
  BY DEF PublicNetwork
<1>. HIDE DEF table
<1>3. Has(PublicNetwork) = {FixedId(w) : w \in names}
        /\ Uses(PublicNetwork) \subseteq {FixedId(w) : w \in names \union {"LambdaVpc"}}
  BY <1>1, <1>2, PlainUses
<1>. QED BY <1>3

LEMMA NatUses ==
  Uses(NatAccess ++ PublicNetwork)
    \subseteq Has(NatAccess ++ PublicNetwork) \union {FixedId("LambdaVpc"), FixedId("PrivateRouteTable")}
<1>. DEFINE out == Id(<<"Public">>, "Route")
            in == Id(<<"Private">>, "Route")
            ways == {FixedId("PublicRouteTable"), FixedId("InternetGateway")}
            waits == {FixedId("InternetGatewayAttachment")}
            nats == {FixedId("PrivateRouteTable"), FixedId("NatGateway")}
            a == One(out, ways, waits)
            b == One(in, nats, {})
            given == {FixedId("NatGatewayEip")}
            c == OutputsOf(given)
<1>1. NatAccess = a ++ b ++ c
  BY DEF NatAccess
<1>2. ways \union waits \union nats \union given \subseteq Has(PublicNetwork) \union {FixedId("PrivateRouteTable")}
  BY PublicUses
<1>3. Uses(PublicNetwork) \subseteq Has(PublicNetwork) \union {FixedId("LambdaVpc")}
  BY PublicUses
<1>11. IsResource(given)
  BY DEF IsResource, FixedId
<1>. HIDE DEF out, in, ways, waits, nats, given
<1>12. Uses(c) \subseteq given
  BY <1>11, OutputsUse
<1>4. Uses(a) = ways \union waits
  BY OneUses
<1>5. Uses(b) = nats \union {}
  BY OneUses
<1>. HIDE DEF a, b, c
<1>6. Uses(a ++ b ++ c) \subseteq Uses(a) \union Uses(b) \union Uses(c)
  BY ThreeUse
<1>13. /\ Uses(NatAccess ++ PublicNetwork) \subseteq Uses(NatAccess) \union Uses(PublicNetwork)
       /\ Has(NatAccess ++ PublicNetwork) = Has(NatAccess) \union Has(PublicNetwork)
  BY BothUse
<1>. DEFINE have == Has(PublicNetwork)
            rest == {FixedId("LambdaVpc"), FixedId("PrivateRouteTable")}
<1>7. Uses(NatAccess) \union Uses(PublicNetwork) \subseteq have \union rest
  BY <1>1, <1>2, <1>3, <1>4, <1>5, <1>6, <1>12
<1>8. have \subseteq Has(NatAccess ++ PublicNetwork)
  BY <1>13
<1>9. Uses(NatAccess ++ PublicNetwork) \subseteq have \union rest
  BY <1>7, <1>13
<1>. HIDE DEF have, rest
<1>10. Uses(NatAccess ++ PublicNetwork) \subseteq Has(NatAccess ++ PublicNetwork) \union rest
  BY <1>8, <1>9
<1>. QED BY <1>10 DEF rest

LEMMA NetworkUses ==
  ASSUME NEW cell
  PROVE  /\ Uses(GenerateNetwork(cell)) \subseteq Has(GenerateNetwork(cell))
         /\ FunctionNetwork(cell) \subseteq Has(GenerateNetwork(cell))
<1>1. CASE ~ cell.vpc
  BY <1>1, NothingUsed DEF GenerateNetwork, FunctionNetwork
<1>2. CASE cell.vpc
  <2>. DEFINE given == {FixedId("LambdaVpc")} \union FunctionNetwork(cell)
              outputs == OutputsOf(given)
              public == IF cell.nat THEN NatAccess ++ PublicNetwork ELSE NoFragment
  <2>1. given \subseteq Has(PrivateNetwork)
    BY <1>2, PrivateUses DEF FunctionNetwork
  <2>2. Uses(outputs) \subseteq given
    <3>1. IsResource(given)
      BY <1>2 DEF IsResource, FixedId, FunctionNetwork
    <3>. QED BY <3>1, OutputsUse
  <2>3. Uses(public) \subseteq Has(public) \union Has(PrivateNetwork)
    <3>1. CASE cell.nat
      BY <3>1, NatUses, PrivateUses
    <3>2. CASE ~ cell.nat
      BY <3>2, NothingUsed
    <3>. QED BY <3>1, <3>2
  <2>4. GenerateNetwork(cell) = public ++ outputs ++ PrivateNetwork
    BY <1>2 DEF GenerateNetwork
  <2>5. FunctionNetwork(cell) \subseteq given
    OBVIOUS
  <2>. HIDE DEF given, outputs, public
  <2>6. /\ Uses(public ++ outputs ++ PrivateNetwork)
              \subseteq Uses(public) \union Uses(outputs) \union Uses(PrivateNetwork)
        /\ Has(public ++ outputs ++ PrivateNetwork)
              = Has(public) \union Has(outputs) \union Has(PrivateNetwork)
    BY ThreeUse
  <2>7. Uses(public) \union Uses(outputs) \union Uses(PrivateNetwork) \subseteq Has(public) \union Has(PrivateNetwork)
    BY <2>1, <2>2, <2>3, PrivateUses
  <2>8. FunctionNetwork(cell) \subseteq Has(PrivateNetwork)
    BY <2>1, <2>5
  <2>. QED BY <2>4, <2>6, <2>7, <2>8
<1>. QED BY <1>1, <1>2

LEMMA EntryApiUses ==
  ASSUME NEW api, NEW words, NEW function
  PROVE  /\ Uses(EntryApi(api, words, function)) \subseteq {api, function, Id(words, "Integration")}
         /\ Has(EntryApi(api, words, function))
              = {Id(words, "Integration"), Id(words, "Route"), Id(words, "LambdaPermission")}
<1>. DEFINE i == Id(words, "Integration")
            r == Id(words, "Route")
            p == Id(words, "LambdaPermission")
            a == One(i, {api, function}, {})
            b == One(r, {api}, {i})
            c == One(p, {function}, {api})
<1>1. EntryApi(api, words, function) = a ++ b ++ c
  BY DEF EntryApi
<1>2. i.section = "Resources" /\ r.section = "Resources" /\ p.section = "Resources"
  BY IdsDiffer
<1>. HIDE DEF i, r, p
<1>3. Uses(a) = {api, function} \union {} /\ Has(a) = {i}
  BY <1>2, OneUses, OneHas
<1>4. Uses(b) = {api} \union {i} /\ Has(b) = {r}
  BY <1>2, OneUses, OneHas
<1>5. Uses(c) = {function} \union {api} /\ Has(c) = {p}
  BY <1>2, OneUses, OneHas
<1>. HIDE DEF a, b, c
<1>6. /\ Uses(a ++ b ++ c) \subseteq Uses(a) \union Uses(b) \union Uses(c)
      /\ Has(a ++ b ++ c) = Has(a) \union Has(b) \union Has(c)
  BY ThreeUse
<1>7. Uses(a) \union Uses(b) \union Uses(c) \subseteq {api, function, i}
  BY <1>3, <1>4, <1>5
<1>8. Has(a) \union Has(b) \union Has(c) = {i, r, p}
  BY <1>3, <1>4, <1>5
<1>9. Uses(a ++ b ++ c) \subseteq {api, function, i} /\ Has(a ++ b ++ c) = {i, r, p}
  BY <1>6, <1>7, <1>8
<1>. QED BY <1>1, <1>9 DEF i, r, p

LEMMA HttpApiUses ==
  ASSUME NEW words, NEW F, NEW api, api = Id(words, "HttpApi")
  PROVE  /\ \A n \in Uses(HttpApi(api, F)) : n = api \/ \E f \in F : n \in Uses(f)
         /\ {api, Id(words, "HttpApiStage")} \subseteq Has(HttpApi(api, F))
         /\ \A f \in F : Has(f) \subseteq Has(HttpApi(api, F))
<1>. DEFINE stage == [api EXCEPT !.what = "HttpApiStage"]
            entries == Merged(F)
            a == One(api, {}, {})
            b == One(stage, {api}, {})
            c == One(OutputOf(api), {api}, {api})
<1>1. HttpApi(api, F) = entries ++ a ++ b ++ c
  BY DEF HttpApi
<1>2. stage = Id(words, "HttpApiStage")
  BY DEF Id
<1>3. /\ api.section = "Resources" /\ stage.section = "Resources"
      /\ OutputOf(api).section = "Outputs"
  BY <1>2, IdsDiffer
<1>. HIDE DEF stage
<1>4. Uses(a) = {} \union {} /\ Has(a) = {api}
  BY <1>3, OneUses, OneHas
<1>5. Uses(b) = {api} \union {} /\ Has(b) = {stage}
  BY <1>3, OneUses, OneHas
<1>6. Uses(c) = {api} \union {api} /\ Has(c) = {}
  BY <1>3, OneUses, OneGives
<1>7. /\ \A n \in Uses(entries) : \E f \in F : n \in Uses(f)
      /\ \A f \in F : Has(f) \subseteq Has(entries)
  BY AllUse
<1>. HIDE DEF entries, a, b, c
<1>8. /\ Uses(entries ++ a ++ b) \subseteq Uses(entries) \union Uses(a) \union Uses(b)
      /\ Has(entries ++ a ++ b) = Has(entries) \union Has(a) \union Has(b)
  BY ThreeUse
<1>9. /\ Uses(entries ++ a ++ b ++ c) \subseteq Uses(entries ++ a ++ b) \union Uses(c)
      /\ Has(entries ++ a ++ b ++ c) = Has(entries ++ a ++ b) \union Has(c)
  BY BothUse
<1>10. Uses(a) \union Uses(b) \union Uses(c) \subseteq {api}
  BY <1>4, <1>5, <1>6
<1>11. Has(a) = {api} /\ Has(b) = {stage} /\ Has(c) = {}
  BY <1>3, <1>4, <1>5, <1>6
<1>12. Uses(HttpApi(api, F)) \subseteq Uses(entries) \union {api}
  BY <1>1, <1>8, <1>9, <1>10
<1>13. Has(HttpApi(api, F)) = Has(entries) \union {api, stage}
  BY <1>1, <1>8, <1>9, <1>11
<1>. QED BY <1>2, <1>7, <1>12, <1>13

LEMMA DistributionUses ==
  ASSUME NEW apis, NEW given, NEW named
  PROVE  LET d == Distribution(apis, given, named)
         IN /\ Uses(d) \subseteq Has(d) \union {FrontendBucket} \union apis
            /\ FixedId("FrontendCloudFront") \in Has(d)
            /\ \A id \in DOMAIN d : id.what = "Function" => id = SpaRewriteFunction
            /\ \A id \in DOMAIN d : id.what # "LambdaRole"
<1>. DEFINE d == Distribution(apis, given, named)
            own == named /\ ~ given
            front == FixedId("FrontendCloudFront")
            policy == FixedId("FrontendBucketPolicy")
            access == {FixedId("FrontendOAC"), SpaRewriteFunction}
            issued == IF own THEN {FixedId("AcmCertificate")} ELSE {}
            plain == [id \in access \union issued |-> Resource({}, {})]
            needs == {FrontendBucket} \union access \union issued
            a == One(front, needs, apis)
            b == One(policy, {FrontendBucket}, {FrontendBucket, front})
            c == One(OutputOf(front), {front}, {front})
<1>1. d = plain ++ a ++ b ++ c
  BY DEF Distribution
<1>2. /\ front.section = "Resources" /\ policy.section = "Resources"
      /\ OutputOf(front).section = "Outputs" /\ front.what = "FrontendCloudFront"
      /\ policy.what = "FrontendBucketPolicy" /\ OutputOf(front).what = "FrontendCloudFront"
  BY DEF FixedId, Id, OutputOf
<1>3. /\ \A id \in access \union issued : id.section = "Resources"
      /\ \A id \in access \union issued : id.what # "LambdaRole"
      /\ \A id \in access \union issued : id.what = "Function" => id = SpaRewriteFunction
  BY DEF FixedId, Id, SpaRewriteFunction
<1>4. Uses(plain) = {} /\ Has(plain) = access \union issued /\ DOMAIN plain = access \union issued
  <2>. HIDE DEF access, issued
  <2>1. Named(Resource({}, {})) = {}
    BY ResourceNames
  <2>2. DOMAIN plain = access \union issued /\ \A id \in DOMAIN plain : plain[id] = Resource({}, {})
    OBVIOUS
  <2>. HIDE DEF plain
  <2>. QED BY <1>3, <2>1, <2>2 DEF Uses, Has
<1>5. needs = {FrontendBucket} \union (access \union issued)
  OBVIOUS
<1>. HIDE DEF front, policy, access, issued, plain, needs
<1>6. Uses(a) = needs \union apis /\ Has(a) = {front}
  BY <1>2, OneUses, OneHas
<1>7. /\ Uses(b) = {FrontendBucket} \union {FrontendBucket, front}
      /\ Has(b) = {policy}
  BY <1>2, OneUses, OneHas
<1>8. Uses(c) = {front} \union {front} /\ Has(c) = {}
  BY <1>2, OneUses, OneGives
<1>17. DOMAIN a = {front} /\ DOMAIN b = {policy} /\ DOMAIN c = {OutputOf(front)}
  BY OneIs
<1>. HIDE DEF a, b, c
<1>9. /\ Uses(plain ++ a ++ b) \subseteq Uses(plain) \union Uses(a) \union Uses(b)
      /\ Has(plain ++ a ++ b) = Has(plain) \union Has(a) \union Has(b)
  BY ThreeUse
<1>10. /\ Uses(plain ++ a ++ b ++ c) \subseteq Uses(plain ++ a ++ b) \union Uses(c)
       /\ Has(plain ++ a ++ b ++ c) = Has(plain ++ a ++ b) \union Has(c)
       /\ DOMAIN (plain ++ a ++ b ++ c) = DOMAIN (plain ++ a ++ b) \union DOMAIN c
  BY BothUse
<1>11. DOMAIN (plain ++ a ++ b) = DOMAIN (plain ++ a) \union DOMAIN b
  BY BothUse
<1>12. DOMAIN (plain ++ a) = DOMAIN plain \union DOMAIN a
  BY BothUse
<1>13. DOMAIN d = (access \union issued) \union {front, policy, OutputOf(front)}
  BY <1>1, <1>4, <1>10, <1>11, <1>12, <1>17
<1>14. Has(d) = (access \union issued) \union {front, policy}
  <2>1. Has(a) = {front} /\ Has(b) = {policy} /\ Has(c) = {}
    BY <1>2, <1>6, <1>7, <1>8
  <2>. QED BY <1>1, <1>4, <1>9, <1>10, <2>1
<1>15. Uses(d) \subseteq (access \union issued) \union {front, FrontendBucket} \union apis
  <2>1. Uses(a) \union Uses(b) \union Uses(c) \subseteq (access \union issued) \union {front, FrontendBucket} \union apis
    BY <1>5, <1>6, <1>7, <1>8
  <2>. QED BY <1>1, <1>4, <1>9, <1>10, <2>1
<1>16. \A id \in DOMAIN d : /\ id.what = "Function" => id = SpaRewriteFunction
                            /\ id.what # "LambdaRole"
  BY <1>2, <1>3, <1>13
<1>. HIDE DEF d
<1>. QED BY <1>14, <1>15, <1>16 DEF d, front

LEMMA LambdaUses ==
  ASSUME NEW cell, cell.entries # {}
  PROVE  LET l == GenerateLambda(cell)
         IN /\ Uses(l) \subseteq TableIds(cell) \union BucketIds(cell) \union {FrontendBucket}
                                   \union FunctionNetwork(cell) \union Has(l)
            /\ \A e \in cell.entries : FunctionId(Pascal[e]) \in Has(l)
<1>. DEFINE data == TableIds(cell) \union BucketIds(cell)
            role == FixedId("LambdaExecutionRole")
            needs == FunctionNetwork(cell) \union {role}
            F == {Function(FunctionId(Pascal[e]), needs, <<e>>) : e \in cell.entries}
            a == One(role, data, data \union {FrontendBucket})
            b == Merged(F)
<1>1. GenerateLambda(cell) = a ++ b
  BY DEF GenerateLambda
<1>2. role.section = "Resources" /\ \A e \in cell.entries : FunctionId(Pascal[e]).section = "Resources"
  BY IdsDiffer DEF FixedId, FunctionId
<1>. HIDE DEF role, data
<1>3. Uses(a) = data \union (data \union {FrontendBucket}) /\ Has(a) = {role}
  BY <1>2, OneUses, OneHas
<1>4. \A f \in F : Uses(f) = needs
  <2>1. \A e \in cell.entries : Uses(Function(FunctionId(Pascal[e]), needs, <<e>>)) = needs
    BY FunctionUses
  <2>. QED BY <2>1
<1>5. \A e \in cell.entries : FunctionId(Pascal[e]) \in Has(b)
  <2>1. \A f \in F : Has(f) \subseteq Has(b)
    BY AllUse
  <2>2. \A e \in cell.entries : Has(Function(FunctionId(Pascal[e]), needs, <<e>>)) = {FunctionId(Pascal[e])}
    BY <1>2, FunctionHas
  <2>. QED BY <2>1, <2>2
<1>6. Uses(b) \subseteq needs
  BY <1>4, AllUse
<1>. HIDE DEF F, a, b
<1>7. Uses(a ++ b) \subseteq Uses(a) \union Uses(b) /\ Has(a ++ b) = Has(a) \union Has(b)
  BY BothUse
<1>8. Uses(a ++ b) \subseteq data \union {FrontendBucket} \union FunctionNetwork(cell) \union Has(a ++ b)
  BY <1>3, <1>6, <1>7
<1>. QED BY <1>1, <1>5, <1>7, <1>8 DEF data

LEMMA ApiUses ==
  ASSUME NEW cell, cell.entries # {}
  PROVE  LET a == GenerateApiGateway(cell)
         IN /\ \A n \in Uses(a) : n \in Has(a) \/ \E e \in cell.entries : n = FunctionId(Pascal[e])
            /\ FixedId("HttpApi") \in Has(a)
<1>. DEFINE api == FixedId("HttpApi")
            F == {EntryApi(api, Pascal[e], FunctionId(Pascal[e])) : e \in cell.entries}
            a == HttpApi(api, F)
<1>1. GenerateApiGateway(cell) = a
  BY DEF GenerateApiGateway
<1>2. api = Id(<<>>, "HttpApi")
  BY DEF FixedId
<1>. HIDE DEF api
<1>3. /\ \A n \in Uses(a) : n = api \/ \E f \in F : n \in Uses(f)
      /\ api \in Has(a)
      /\ \A f \in F : Has(f) \subseteq Has(a)
  BY <1>2, HttpApiUses
<1>4. ASSUME NEW n \in Uses(a) PROVE n \in Has(a) \/ \E e \in cell.entries : n = FunctionId(Pascal[e])
  <2>1. CASE n = api
    BY <1>3, <2>1
  <2>2. ASSUME NEW e \in cell.entries, n \in Uses(EntryApi(api, Pascal[e], FunctionId(Pascal[e])))
        PROVE  n \in Has(a) \/ n = FunctionId(Pascal[e])
    <3>1. Has(EntryApi(api, Pascal[e], FunctionId(Pascal[e]))) \subseteq Has(a)
      BY <1>3
    <3>. HIDE DEF a
    <3>. QED BY <1>3, <2>2, <3>1, EntryApiUses
  <2>. QED BY <1>3, <1>4, <2>1, <2>2
<1>. HIDE DEF a
<1>. QED BY <1>1, <1>3, <1>4 DEF api

LEMMA DomainUses ==
  ASSUME NEW cell
  PROVE  Uses(GenerateDomain(cell)) \subseteq {FixedId("FrontendCloudFront")}
<1>. DEFINE front == FixedId("FrontendCloudFront")
            record == FixedId("DnsRecord")
<1>1. GenerateDomain(cell) = IF cell.zone THEN One(record, {front}, {}) ELSE NoFragment
  BY DEF GenerateDomain
<1>. HIDE DEF front, record
<1>2. Uses(One(record, {front}, {})) = {front} \union {}
  BY OneUses
<1>3. Uses(GenerateDomain(cell)) \subseteq {front}
  BY <1>1, <1>2, NothingUsed
<1>. QED BY <1>3 DEF front

(* What stays within a set stays within it when it is put together. *)
LEMMA BothWithin ==
  ASSUME NEW f, NEW g, NEW S, Uses(f) \subseteq S, Uses(g) \subseteq S
  PROVE  Uses(f ++ g) \subseteq S
<1>1. Uses(f ++ g) \subseteq Uses(f) \union Uses(g)
  BY BothUse
<1>. QED BY <1>1

LEMMA CellWhole ==
  ASSUME NEW cell, cell.entries # {}
  PROVE  Whole(CellTemplate(cell))
<1>. DEFINE d == GenerateDomain(cell)
            c == GenerateCloudFront(cell)
            a == GenerateApiGateway(cell)
            l == GenerateLambda(cell)
            s == GenerateS3(cell)
            t == GenerateDynamoDB(cell)
            n == GenerateNetwork(cell)
            all == CellTemplate(cell)
            buckets == BucketIds(cell) \union {FrontendBucket}
<1>1. all = d ++ c ++ a ++ l ++ s ++ t ++ n
  BY DEF CellTemplate
<1>2. /\ Uses(c) \subseteq Has(c) \union {FrontendBucket} \union {FixedId("HttpApi")}
      /\ FixedId("FrontendCloudFront") \in Has(c)
  BY DistributionUses DEF GenerateCloudFront
<1>3. /\ \A x \in Uses(a) : x \in Has(a) \/ \E e \in cell.entries : x = FunctionId(Pascal[e])
      /\ FixedId("HttpApi") \in Has(a)
  BY ApiUses
<1>4. /\ Uses(l) \subseteq TableIds(cell) \union BucketIds(cell) \union {FrontendBucket}
                             \union FunctionNetwork(cell) \union Has(l)
      /\ \A e \in cell.entries : FunctionId(Pascal[e]) \in Has(l)
  BY LambdaUses
<1>5. Uses(s) \subseteq buckets /\ Has(s) = buckets
  BY DataAre, StoringUses DEF GenerateS3
<1>6. Uses(t) \subseteq TableIds(cell) /\ Has(t) = TableIds(cell)
  BY DataAre, StoringUses DEF GenerateDynamoDB
<1>7. Uses(n) \subseteq Has(n) /\ FunctionNetwork(cell) \subseteq Has(n)
  BY NetworkUses
<1>8. Uses(d) \subseteq {FixedId("FrontendCloudFront")}
  BY DomainUses
<1>9. FrontendBucket \in buckets /\ BucketIds(cell) \subseteq buckets
  OBVIOUS
<1>. HIDE DEF d, c, a, l, s, t, n, buckets
<1>10. /\ Has(d ++ c) = Has(d) \union Has(c)
       /\ Has(d ++ c ++ a) = Has(d ++ c) \union Has(a)
       /\ Has(d ++ c ++ a ++ l) = Has(d ++ c ++ a) \union Has(l)
       /\ Has(d ++ c ++ a ++ l ++ s) = Has(d ++ c ++ a ++ l) \union Has(s)
       /\ Has(d ++ c ++ a ++ l ++ s ++ t) = Has(d ++ c ++ a ++ l ++ s) \union Has(t)
       /\ Has(d ++ c ++ a ++ l ++ s ++ t ++ n) = Has(d ++ c ++ a ++ l ++ s ++ t) \union Has(n)
  BY BothUse
<1>. DEFINE S == Has(c) \union Has(a) \union Has(l) \union Has(s) \union Has(t) \union Has(n)
<1>11. S \subseteq Has(all)
  <2>. HIDE DEF all
  <2>. QED BY <1>1, <1>10
<1>12. /\ Uses(d) \subseteq S /\ Uses(c) \subseteq S /\ Uses(a) \subseteq S /\ Uses(l) \subseteq S
       /\ Uses(s) \subseteq S /\ Uses(t) \subseteq S /\ Uses(n) \subseteq S
  BY <1>2, <1>3, <1>4, <1>5, <1>6, <1>7, <1>8, <1>9
<1>. HIDE DEF S
<1>13. Uses(d ++ c) \subseteq S
  BY <1>12, BothWithin
<1>14. Uses(d ++ c ++ a) \subseteq S
  BY <1>12, <1>13, BothWithin
<1>15. Uses(d ++ c ++ a ++ l) \subseteq S
  BY <1>12, <1>14, BothWithin
<1>16. Uses(d ++ c ++ a ++ l ++ s) \subseteq S
  BY <1>12, <1>15, BothWithin
<1>17. Uses(d ++ c ++ a ++ l ++ s ++ t) \subseteq S
  BY <1>12, <1>16, BothWithin
<1>18. Uses(d ++ c ++ a ++ l ++ s ++ t ++ n) \subseteq S
  BY <1>12, <1>17, BothWithin
<1>. HIDE DEF all
<1>19. Uses(all) \subseteq Has(all)
  BY <1>1, <1>11, <1>18
<1>20. Whole(all)
  BY <1>19, WholeHas
<1>. QED BY <1>20 DEF all

-----------------------------------------------------------------------------
(* Fragments with a prefix *)

LEMMA PrefixedIs ==
  ASSUME NEW p, NEW w, NEW k
  PROVE  /\ PrefixedId(p, Id(w, k)) = Id(p \o w, k)
         /\ PrefixedId(p, OutputOf(Id(w, k))) = OutputOf(Id(p \o w, k))
<1>. DEFINE words == p \o w
<1>1. ASSUME NEW s PROVE PrefixedId(p, [words |-> w, what |-> k, section |-> s]) = [words |-> words, what |-> k, section |-> s]
  <2>. DEFINE x == [words |-> w, what |-> k, section |-> s]
  <2>1. PrefixedId(p, x) = [x EXCEPT !.words = p \o x.words]
    BY DEF PrefixedId
  <2>2. p \o x.words = words
    OBVIOUS
  <2>. HIDE DEF words
  <2>3. [x EXCEPT !.words = words] = [words |-> words, what |-> k, section |-> s]
    OBVIOUS
  <2>. QED BY <2>1, <2>2, <2>3
<1>2. Id(w, k) = [words |-> w, what |-> k, section |-> "Resources"]
        /\ OutputOf(Id(w, k)) = [words |-> w, what |-> k, section |-> "Outputs"]
  BY DEF Id, OutputOf
<1>. HIDE DEF words
<1>3. Id(words, k) = [words |-> words, what |-> k, section |-> "Resources"]
        /\ OutputOf(Id(words, k)) = [words |-> words, what |-> k, section |-> "Outputs"]
  BY DEF Id, OutputOf
<1>. QED BY <1>1, <1>2, <1>3 DEF words

LEMMA StoringIs ==
  ASSUME NEW ids, IsResource(ids)
  PROVE  /\ DOMAIN Storing(ids) = ids \union {OutputOf(id) : id \in ids}
         /\ \A id \in DOMAIN Storing(ids) : \E r \in SUBSET ids : Storing(ids)[id] = Resource(r, {})
<1>. DEFINE f == [id \in ids |-> Resource({}, {})]
            g == OutputsOf(ids)
<1>1. Storing(ids) = f ++ g
  BY DEF Storing
<1>2. \A id \in ids : GivenBy(OutputOf(id)) = id
  BY IdsDiffer DEF IsResource
<1>3. /\ DOMAIN g = {OutputOf(id) : id \in ids}
      /\ \A id \in DOMAIN g : \E r \in SUBSET ids : g[id] = Resource(r, {})
  BY <1>2 DEF OutputsOf
<1>4. /\ DOMAIN f = ids
      /\ \A id \in DOMAIN f : \E r \in SUBSET ids : f[id] = Resource(r, {})
  OBVIOUS
<1>. HIDE DEF f, g
<1>5. /\ DOMAIN (f ++ g) = DOMAIN f \union DOMAIN g
      /\ \A id \in DOMAIN f : (f ++ g)[id] = f[id]
      /\ \A id \in DOMAIN g \ DOMAIN f : (f ++ g)[id] = g[id]
  BY BothUse
<1>6. \A id \in DOMAIN (f ++ g) : 
        \/ id \in DOMAIN f /\ (f ++ g)[id] = f[id]
        \/ id \in DOMAIN g /\ (f ++ g)[id] = g[id]
  BY <1>5
<1>. QED BY <1>1, <1>3, <1>4, <1>5, <1>6

LEMMA PrefixUses ==
  ASSUME NEW f, NEW p, NEW ids, ids \subseteq DOMAIN f,
         \A id \in DOMAIN f : \E r \in SUBSET ids : f[id] = Resource(r, {})
  PROVE  /\ DOMAIN PrefixFragment(f, p) = Prefixed(p, DOMAIN f)
         /\ Uses(PrefixFragment(f, p)) \subseteq Prefixed(p, ids)
<1>. DEFINE known == DOMAIN f
            from(n) == CHOOSE id \in known : PrefixedId(p, id) = n
            q == PrefixFragment(f, p)
<1>1. /\ DOMAIN q = Prefixed(p, known)
      /\ \A n \in DOMAIN q :
           q[n] = [f[from(n)] EXCEPT !.refs = Prefixed(p, @ \intersect known) \union (@ \ known)]
  BY DEF PrefixFragment
<1>2. ASSUME NEW n \in DOMAIN q PROVE Named(q[n]) \subseteq Prefixed(p, ids)
  <2>1. from(n) \in known
    BY <1>1 DEF Prefixed
  <2>2. PICK r \in SUBSET ids : f[from(n)] = Resource(r, {})
    BY <2>1
  <2>3. q[n] = [refs |-> Prefixed(p, r \intersect known) \union (r \ known), subs |-> {}, code |-> <<>>]
    <3>1. f[from(n)] = [refs |-> r, subs |-> {}, code |-> <<>>]
      BY <2>2 DEF Resource
    <3>. DEFINE x == [refs |-> r, subs |-> {}, code |-> <<>>]
    <3>2. q[n] = [f[from(n)] EXCEPT !.refs = Prefixed(p, f[from(n)].refs \intersect known)
                                                \union (f[from(n)].refs \ known)]
      BY <1>1
    <3>. HIDE DEF from
    <3>3. q[n] = [x EXCEPT !.refs = Prefixed(p, x.refs \intersect known) \union (x.refs \ known)]
      BY <3>1, <3>2
    <3>. QED BY <3>3
  <2>. HIDE DEF q
  <2>4. Named(q[n]) = Prefixed(p, r \intersect known) \union (r \ known)
    BY <2>3 DEF Named
  <2>. QED BY <2>4 DEF Prefixed
<1>. HIDE DEF q
<1>3. Uses(q) \subseteq Prefixed(p, ids)
  BY <1>2 DEF Uses
<1>. QED BY <1>1, <1>3 DEF q

(* The tables or the buckets of a cell, with its prefix *)
LEMMA StoredUses ==
  ASSUME NEW ids, IsResource(ids), NEW p
  PROVE  LET q == PrefixFragment(Storing(ids), p)
         IN /\ Uses(q) \subseteq Prefixed(p, ids)
            /\ Prefixed(p, ids) \subseteq Has(q)
            /\ \A n \in DOMAIN q : \E id \in ids : n = PrefixedId(p, id) \/ n = PrefixedId(p, OutputOf(id))
<1>. DEFINE f == Storing(ids)
            q == PrefixFragment(f, p)
<1>1. /\ DOMAIN f = ids \union {OutputOf(id) : id \in ids}
      /\ \A id \in DOMAIN f : \E r \in SUBSET ids : f[id] = Resource(r, {})
  BY StoringIs
<1>. HIDE DEF f
<1>2. DOMAIN q = Prefixed(p, DOMAIN f) /\ Uses(q) \subseteq Prefixed(p, ids)
  BY <1>1, PrefixUses
<1>3. \A id \in ids : PrefixedId(p, id).section = "Resources"
  <2>. TAKE id \in ids
  <2>1. PICK w, k : id = Id(w, k)
    BY DEF IsResource
  <2>. QED BY <2>1, PrefixedIs, IdsDiffer
<1>. HIDE DEF q
<1>4. Prefixed(p, ids) \subseteq Has(q)
  BY <1>1, <1>2, <1>3 DEF Prefixed, Has
<1>5. \A n \in DOMAIN q : \E id \in ids : n = PrefixedId(p, id) \/ n = PrefixedId(p, OutputOf(id))
  BY <1>1, <1>2 DEF Prefixed
<1>. QED BY <1>2, <1>4, <1>5 DEF q, f

-----------------------------------------------------------------------------
(* The entries of a cell in a stack *)

LEMMA SameTail ==
  ASSUME NEW p \in Seq(STRING), NEW a \in Seq(STRING), NEW b \in Seq(STRING), p \o a = p \o b
  PROVE  a = b
<1>1. Len(a) = Len(b)
  OBVIOUS
<1>2. ASSUME NEW i \in 1..Len(a) PROVE a[i] = b[i]
  <2>1. (p \o a)[Len(p) + i] = a[i] /\ (p \o b)[Len(p) + i] = b[i]
    BY <1>1, <1>2
  <2>. QED BY <2>1
<1>. QED BY <1>1, <1>2

(* Names of the entries of a cell that stay apart *)
EntriesApart(cell) == \A e, f \in cell.entries : Pascal[e] = Pascal[f] => e = f

LEMMA WordsApart ==
  ASSUME NEW cell \in StackCells, EntriesApart(cell), NEW e \in cell.entries, NEW f \in cell.entries,
         EntryWords(cell, e) = EntryWords(cell, f)
  PROVE  e = f
<1>1. /\ Pascal[cell.name] \in Seq(STRING) /\ Pascal[e] \in Seq(STRING) /\ Pascal[f] \in Seq(STRING)
  BY TemplatesAssumption
<1>2. Pascal[e] = Pascal[f]
  BY <1>1, SameTail DEF EntryWords
<1>. QED BY <1>2 DEF EntriesApart

LEMMA EntryIds ==
  ASSUME NEW cell, NEW e, NEW f
  PROVE  /\ FunctionId(EntryWords(cell, e)).section = "Resources"
         /\ FunctionId(EntryWords(cell, e)).what = "Function"
         /\ RoleId(cell, e).section = "Resources" /\ RoleId(cell, e).what = "LambdaRole"
         /\ RoleId(cell, f) # FunctionId(EntryWords(cell, e))
         /\ FunctionId(EntryWords(cell, e)) = FunctionId(EntryWords(cell, f))
              => EntryWords(cell, e) = EntryWords(cell, f)
         /\ RoleId(cell, e) = RoleId(cell, f) => EntryWords(cell, e) = EntryWords(cell, f)
BY IdsDiffer DEF FunctionId, RoleId

LEMMA LambdaFragmentIs ==
  ASSUME NEW cell, NEW e
  PROVE  LET l == LambdaFragment(cell, e)
             function == FunctionId(EntryWords(cell, e))
             role == RoleId(cell, e)
         IN /\ DOMAIN l = {role, function} /\ Has(l) = {role, function}
            /\ Uses(l) \subseteq CellData(cell) \union {role}
            /\ l[role].refs = CellData(cell)
            /\ l[function].refs = {role} /\ l[function].code = <<cell.name, e>>
<1>. DEFINE l == LambdaFragment(cell, e)
            function == FunctionId(EntryWords(cell, e))
            role == RoleId(cell, e)
            data == CellData(cell)
            zip == <<cell.name, e>>
            a == One(role, data, data)
            b == Function(function, {role}, zip)
<1>1. l = a ++ b
  BY DEF LambdaFragment
<1>2. role # function /\ role.section = "Resources" /\ function.section = "Resources"
  BY EntryIds
<1>. HIDE DEF function, role, data, zip
<1>3. Uses(a) = data \union data /\ Has(a) = {role}
  BY <1>2, OneUses, OneHas
<1>4. Uses(b) = {role} /\ Has(b) = {function}
  BY <1>2, FunctionUses, FunctionHas
<1>5. DOMAIN a = {role} /\ a[role].refs = data
  <2>1. DOMAIN a = {role} /\ a[role] = Resource(data, data)
    BY OneIs
  <2>. QED BY <2>1, ResourceNames
<1>6. DOMAIN b = {function} /\ b[function].refs = {role} /\ b[function].code = zip
  <2>. DEFINE refs == {role}
  <2>1. b = Function(function, refs, zip)
    OBVIOUS
  <2>. HIDE DEF b, refs
  <2>2. DOMAIN b = {function} /\ b[function] = [refs |-> refs, subs |-> {}, code |-> zip]
    BY <2>1 DEF Function, Resource, WithZip
  <2>3. b[function].refs = refs /\ b[function].code = zip
    BY <2>2
  <2>. QED BY <2>2, <2>3 DEF refs
<1>. HIDE DEF a, b
<1>7. /\ Uses(a ++ b) \subseteq Uses(a) \union Uses(b)
      /\ Has(a ++ b) = Has(a) \union Has(b)
      /\ DOMAIN (a ++ b) = DOMAIN a \union DOMAIN b
      /\ \A id \in DOMAIN a : (a ++ b)[id] = a[id]
      /\ \A id \in DOMAIN b \ DOMAIN a : (a ++ b)[id] = b[id]
  BY BothUse
<1>8. Has(l) = {role, function} /\ Uses(l) \subseteq data \union {role} /\ DOMAIN l = {role, function}
  BY <1>1, <1>3, <1>4, <1>5, <1>6, <1>7
<1>9. l[role] = a[role] /\ l[function] = b[function]
  BY <1>1, <1>2, <1>5, <1>6, <1>7
<1>. HIDE DEF l
<1>. QED BY <1>5, <1>6, <1>8, <1>9 DEF l, function, role, data, zip

(* The functions and the roles of a cell *)
LambdasOf(cell) == Merged({LambdaFragment(cell, e) : e \in cell.entries})

LEMMA LambdasAre ==
  ASSUME NEW cell
  PROVE  LET l == LambdasOf(cell)
         IN /\ Uses(l) \subseteq CellData(cell) \union Has(l)
            /\ \A e \in cell.entries :
                 /\ FunctionId(EntryWords(cell, e)) \in Has(l) /\ RoleId(cell, e) \in Has(l)
                 /\ l[RoleId(cell, e)].refs = CellData(cell)
            /\ \A id \in DOMAIN l : \E e \in cell.entries :
                 id = FunctionId(EntryWords(cell, e)) \/ id = RoleId(cell, e)
<1>. DEFINE F == {LambdaFragment(cell, e) : e \in cell.entries}
            l == LambdasOf(cell)
<1>1. l = Merged(F)
  BY DEF LambdasOf
<1>2. /\ \A n \in Uses(l) : \E f \in F : n \in Uses(f)
      /\ \A f \in F : Has(f) \subseteq Has(l)
      /\ \A id \in DOMAIN l : \E f \in F : id \in DOMAIN f /\ l[id] = f[id]
  BY <1>1, AllUse
<1>. HIDE DEF l
<1>3. ASSUME NEW n \in Uses(l) PROVE n \in CellData(cell) \union Has(l)
  <2>1. PICK e \in cell.entries : n \in Uses(LambdaFragment(cell, e))
    BY <1>2
  <2>2. n \in CellData(cell) \union {RoleId(cell, e)}
    BY <2>1, LambdaFragmentIs
  <2>3. RoleId(cell, e) \in Has(LambdaFragment(cell, e))
    <3>1. Has(LambdaFragment(cell, e)) = {RoleId(cell, e), FunctionId(EntryWords(cell, e))}
      BY LambdaFragmentIs
    <3>. QED BY <3>1
  <2>4. RoleId(cell, e) \in Has(l)
    BY <1>2, <2>3
  <2>. QED BY <2>2, <2>4
<1>4. ASSUME NEW id \in DOMAIN l
      PROVE  \E e \in cell.entries : /\ id = FunctionId(EntryWords(cell, e)) \/ id = RoleId(cell, e)
                                     /\ l[id] = LambdaFragment(cell, e)[id]
  <2>1. PICK e \in cell.entries : id \in DOMAIN LambdaFragment(cell, e) /\ l[id] = LambdaFragment(cell, e)[id]
    BY <1>2
  <2>2. DOMAIN LambdaFragment(cell, e) = {RoleId(cell, e), FunctionId(EntryWords(cell, e))}
    BY LambdaFragmentIs
  <2>. QED BY <2>1, <2>2
<1>5. ASSUME NEW e \in cell.entries
      PROVE  /\ FunctionId(EntryWords(cell, e)) \in Has(l) /\ RoleId(cell, e) \in Has(l)
             /\ l[RoleId(cell, e)].refs = CellData(cell)
  <2>1. Has(LambdaFragment(cell, e)) = {RoleId(cell, e), FunctionId(EntryWords(cell, e))}
    BY LambdaFragmentIs
  <2>2. FunctionId(EntryWords(cell, e)) \in Has(l) /\ RoleId(cell, e) \in Has(l)
    BY <1>2, <2>1
  <2>3. RoleId(cell, e) \in DOMAIN l
    BY <2>2 DEF Has
  <2>4. PICK f \in cell.entries : /\ RoleId(cell, e) = FunctionId(EntryWords(cell, f)) \/ RoleId(cell, e) = RoleId(cell, f)
                                  /\ l[RoleId(cell, e)] = LambdaFragment(cell, f)[RoleId(cell, e)]
    BY <1>4, <2>3
  <2>5. RoleId(cell, e) = RoleId(cell, f)
    BY <2>4, EntryIds
  <2>6. LambdaFragment(cell, f)[RoleId(cell, f)].refs = CellData(cell)
    BY LambdaFragmentIs
  <2>. QED BY <2>2, <2>4, <2>5, <2>6
<1>. QED BY <1>3, <1>4, <1>5 DEF l

LEMMA LambdaServes ==
  ASSUME NEW cell \in StackCells, EntriesApart(cell), NEW e \in cell.entries
  PROVE  LET function == LambdasOf(cell)[FunctionId(EntryWords(cell, e))]
         IN function.refs = {RoleId(cell, e)} /\ function.code = <<cell.name, e>>
<1>. DEFINE F == {LambdaFragment(cell, x) : x \in cell.entries}
            l == LambdasOf(cell)
            id == FunctionId(EntryWords(cell, e))
<1>1. l = Merged(F)
  BY DEF LambdasOf
<1>2. id \in DOMAIN l
  BY LambdasAre DEF Has
<1>3. \A x \in DOMAIN Merged(F) : \E f \in F : x \in DOMAIN f /\ Merged(F)[x] = f[x]
  BY AllUse
<1>. HIDE DEF l
<1>4. PICK f \in cell.entries : id \in DOMAIN LambdaFragment(cell, f) /\ l[id] = LambdaFragment(cell, f)[id]
  BY <1>1, <1>2, <1>3
<1>5. DOMAIN LambdaFragment(cell, f) = {RoleId(cell, f), FunctionId(EntryWords(cell, f))}
  BY LambdaFragmentIs
<1>6. id = FunctionId(EntryWords(cell, f))
  BY <1>4, <1>5, EntryIds
<1>7. e = f
  BY <1>6, EntryIds, WordsApart
<1>8. LambdaFragment(cell, e)[id].refs = {RoleId(cell, e)} /\ LambdaFragment(cell, e)[id].code = <<cell.name, e>>
  BY LambdaFragmentIs
<1>. QED BY <1>4, <1>7, <1>8 DEF l

(* A fragment without functions and roles of functions *)
Foreign(f) == \A id \in DOMAIN f : id.what \notin {"Function", "LambdaRole"}

LEMMA BothForeign ==
  ASSUME NEW f, NEW g, Foreign(f), Foreign(g)
  PROVE  Foreign(f ++ g)
<1>1. DOMAIN (f ++ g) = DOMAIN f \union DOMAIN g
  BY BothUse
<1>. QED BY <1>1 DEF Foreign

LEMMA OneForeign ==
  ASSUME NEW id, NEW refs, NEW subs, id.what \notin {"Function", "LambdaRole"}
  PROVE  Foreign(One(id, refs, subs))
<1>1. DOMAIN One(id, refs, subs) = {id}
  BY OneIs
<1>. QED BY <1>1 DEF Foreign

LEMMA EntryApiForeign ==
  ASSUME NEW api, NEW words, NEW function
  PROVE  Foreign(EntryApi(api, words, function))
<1>. DEFINE a == One(Id(words, "Integration"), {api, function}, {})
            b == One(Id(words, "Route"), {api}, {Id(words, "Integration")})
            c == One(Id(words, "LambdaPermission"), {function}, {api})
<1>1. Foreign(a) /\ Foreign(b) /\ Foreign(c)
  BY OneForeign, IdsDiffer
<1>2. EntryApi(api, words, function) = a ++ b ++ c
  BY DEF EntryApi
<1>. HIDE DEF a, b, c
<1>3. Foreign(a ++ b)
  BY <1>1, BothForeign
<1>. QED BY <1>1, <1>2, <1>3, BothForeign

LEMMA HttpApiForeign ==
  ASSUME NEW words, NEW F, \A f \in F : Foreign(f)
  PROVE  Foreign(HttpApi(Id(words, "HttpApi"), F))
<1>. DEFINE api == Id(words, "HttpApi")
            stage == [api EXCEPT !.what = "HttpApiStage"]
            entries == Merged(F)
            a == One(api, {}, {})
            b == One(stage, {api}, {})
            c == One(OutputOf(api), {api}, {api})
<1>1. HttpApi(api, F) = entries ++ a ++ b ++ c
  BY DEF HttpApi
<1>2. api.what = "HttpApi" /\ stage.what = "HttpApiStage" /\ OutputOf(api).what = "HttpApi"
  BY DEF Id, OutputOf
<1>. HIDE DEF stage
<1>3. Foreign(a) /\ Foreign(b) /\ Foreign(c)
  <2>. HIDE DEF api
  <2>. QED BY <1>2, OneForeign
<1>4. Foreign(entries)
  <2>1. DOMAIN entries = UNION {DOMAIN f : f \in F}
    BY AllUse
  <2>. QED BY <2>1 DEF Foreign
<1>. HIDE DEF api, entries, a, b, c
<1>5. Foreign(entries ++ a)
  BY <1>3, <1>4, BothForeign
<1>6. Foreign(entries ++ a ++ b)
  BY <1>3, <1>5, BothForeign
<1>7. Foreign(HttpApi(api, F))
  BY <1>1, <1>3, <1>6, BothForeign
<1>. QED BY <1>7 DEF api

LEMMA StoredForeign ==
  ASSUME NEW cell, NEW p
  PROVE  /\ Foreign(PrefixFragment(Storing(BucketIds(cell)), p))
         /\ Foreign(PrefixFragment(GenerateDynamoDB(cell), p))
<1>1. ASSUME NEW ids, IsResource(ids), \A id \in ids : id.what \notin {"Function", "LambdaRole"}
      PROVE  Foreign(PrefixFragment(Storing(ids), p))
  <2>1. \A n \in DOMAIN PrefixFragment(Storing(ids), p) :
          \E id \in ids : n = PrefixedId(p, id) \/ n = PrefixedId(p, OutputOf(id))
    BY <1>1, StoredUses
  <2>2. \A id \in ids : PrefixedId(p, id).what = id.what /\ PrefixedId(p, OutputOf(id)).what = id.what
    <3>. TAKE id \in ids
    <3>1. PICK w, k : id = Id(w, k)
      BY <1>1 DEF IsResource
    <3>2. OutputOf(Id(p \o w, k)).what = k
      BY DEF Id, OutputOf
    <3>. QED BY <3>1, <3>2, PrefixedIs, IdsDiffer
  <2>. QED BY <1>1, <2>1, <2>2 DEF Foreign
<1>2. \A id \in BucketIds(cell) : id.what = "Bucket"
  BY IdsDiffer DEF BucketIds
<1>3. \A id \in TableIds(cell) : id.what = "Table"
  BY IdsDiffer DEF TableIds
<1>4. IsResource(BucketIds(cell)) /\ IsResource(TableIds(cell))
  BY DataAre
<1>5. Foreign(PrefixFragment(Storing(BucketIds(cell)), p))
  BY <1>1, <1>2, <1>4
<1>6. Foreign(PrefixFragment(Storing(TableIds(cell)), p))
  BY <1>1, <1>3, <1>4
<1>. QED BY <1>5, <1>6 DEF GenerateDynamoDB

(* The api of a cell in a stack *)
OtaviaApis(cell) ==
  {EntryApi(ApiOf(cell), Pascal[cell.name] \o EntryWords(cell, e), FunctionId(EntryWords(cell, e))) :
     e \in cell.entries}

LEMMA OtaviaApiIs ==
  ASSUME NEW cell
  PROVE  LET h == HttpApi(ApiOf(cell), OtaviaApis(cell))
         IN /\ \A n \in Uses(h) : n \in Has(h) \/ \E e \in cell.entries : n = FunctionId(EntryWords(cell, e))
            /\ ApiOf(cell) \in Has(h)
            /\ Foreign(h)
<1>. DEFINE words == Pascal[cell.name]
            F == OtaviaApis(cell)
            api == ApiOf(cell)
            h == HttpApi(api, F)
<1>1. api = Id(words, "HttpApi")
  BY DEF ApiOf
<1>2. \A f \in F : \E e \in cell.entries : f = EntryApi(api, words \o EntryWords(cell, e), FunctionId(EntryWords(cell, e)))
  BY DEF OtaviaApis
<1>. HIDE DEF words, api, F
<1>3. /\ \A n \in Uses(h) : n = api \/ \E f \in F : n \in Uses(f)
      /\ api \in Has(h)
      /\ \A f \in F : Has(f) \subseteq Has(h)
  BY <1>1, HttpApiUses
<1>4. Foreign(h)
  <2>1. \A f \in F : Foreign(f)
    BY <1>2, EntryApiForeign
  <2>. QED BY <1>1, <2>1, HttpApiForeign
<1>. HIDE DEF h
<1>5. ASSUME NEW n \in Uses(h) PROVE n \in Has(h) \/ \E e \in cell.entries : n = FunctionId(EntryWords(cell, e))
  <2>1. CASE n = api
    BY <1>3, <2>1
  <2>2. ASSUME NEW f \in F, n \in Uses(f)
        PROVE  n \in Has(h) \/ \E e \in cell.entries : n = FunctionId(EntryWords(cell, e))
    <3>1. PICK e \in cell.entries : f = EntryApi(api, words \o EntryWords(cell, e), FunctionId(EntryWords(cell, e)))
      BY <1>2
    <3>. DEFINE w == words \o EntryWords(cell, e)
                id == FunctionId(EntryWords(cell, e))
    <3>2. f = EntryApi(api, w, id)
      BY <3>1
    <3>3. id = FunctionId(EntryWords(cell, e))
      OBVIOUS
    <3>. HIDE DEF w, id
    <3>4. Uses(f) \subseteq {api, id, Id(w, "Integration")} /\ Id(w, "Integration") \in Has(f)
      BY <3>2, EntryApiUses
    <3>5. Has(f) \subseteq Has(h)
      BY <1>3
    <3>6. n = api \/ n = id \/ n \in Has(h)
      BY <2>2, <3>4, <3>5
    <3>. QED BY <1>3, <3>3, <3>6
  <2>. QED BY <1>3, <1>5, <2>1, <2>2
<1>. QED BY <1>3, <1>4, <1>5 DEF h, api, F

(* What a cell adds to an otavia stack, and that it leaves the functions and roles of the *)
(* others as they are                                                                     *)
LEMMA OtaviaAdds ==
  ASSUME NEW all, NEW cell \in StackCells
  PROVE  LET new == AddOtaviaCell(all, cell)
         IN /\ Whole(all) => Whole(new)
            /\ Has(all) \subseteq Has(new)
            /\ cell.entries # {} => ApiOf(cell) \in Has(new)
            /\ \A id \in DOMAIN all : id.what \in {"Function", "LambdaRole"}
                 => id \in DOMAIN new
                    /\ \/ new[id] = all[id]
                       \/ \E e \in cell.entries :
                            id = FunctionId(EntryWords(cell, e)) \/ id = RoleId(cell, e)
            /\ \A e \in cell.entries :
                 /\ FunctionId(EntryWords(cell, e)) \in DOMAIN new /\ RoleId(cell, e) \in DOMAIN new
                 /\ new[RoleId(cell, e)].refs = CellData(cell)
                 /\ EntriesApart(cell) =>
                      /\ new[FunctionId(EntryWords(cell, e))].refs = {RoleId(cell, e)}
                      /\ new[FunctionId(EntryWords(cell, e))].code = <<cell.name, e>>
<1>. DEFINE p == Pascal[cell.name]
            h == HttpApi(ApiOf(cell), OtaviaApis(cell))
            l == LambdasOf(cell)
            x == IF cell.entries = {} THEN NoFragment ELSE h ++ l
            b == PrefixFragment(Storing(BucketIds(cell)), p)
            t == PrefixFragment(GenerateDynamoDB(cell), p)
            new == AddOtaviaCell(all, cell)
            mine(id) == \E e \in cell.entries : id = FunctionId(EntryWords(cell, e)) \/ id = RoleId(cell, e)
<1>1. new = x ++ b ++ t ++ all
  BY DEF AddOtaviaCell, OtaviaApis, LambdasOf
<1>2. /\ \A n \in Uses(h) : n \in Has(h) \/ \E e \in cell.entries : n = FunctionId(EntryWords(cell, e))
      /\ ApiOf(cell) \in Has(h) /\ Foreign(h)
  BY OtaviaApiIs
<1>3. /\ Uses(l) \subseteq CellData(cell) \union Has(l)
      /\ \A e \in cell.entries :
           /\ FunctionId(EntryWords(cell, e)) \in Has(l) /\ RoleId(cell, e) \in Has(l)
           /\ l[RoleId(cell, e)].refs = CellData(cell)
      /\ \A id \in DOMAIN l : mine(id)
  BY LambdasAre
<1>4. /\ Uses(b) \subseteq Has(b) /\ Uses(t) \subseteq Has(t) /\ CellData(cell) \subseteq Has(b) \union Has(t)
  <2>1. Uses(b) \subseteq Prefixed(p, BucketIds(cell)) /\ Prefixed(p, BucketIds(cell)) \subseteq Has(b)
    BY DataAre, StoredUses
  <2>2. Uses(t) \subseteq Prefixed(p, TableIds(cell)) /\ Prefixed(p, TableIds(cell)) \subseteq Has(t)
    BY DataAre, StoredUses DEF GenerateDynamoDB
  <2>. HIDE DEF b, t
  <2>3. CellData(cell) \subseteq Prefixed(p, BucketIds(cell)) \union Prefixed(p, TableIds(cell))
    BY DEF CellData, Prefixed
  <2>. QED BY <2>1, <2>2, <2>3
<1>5. Foreign(b) /\ Foreign(t)
  BY StoredForeign
<1>. HIDE DEF h, l, b, t
<1>6. /\ Has(h ++ l) = Has(h) \union Has(l)
      /\ Uses(h ++ l) \subseteq Uses(h) \union Uses(l)
      /\ DOMAIN (h ++ l) = DOMAIN h \union DOMAIN l
      /\ \A id \in DOMAIN l \ DOMAIN h : (h ++ l)[id] = l[id]
  BY BothUse
<1>7. Uses(x) \subseteq Has(x) \union Has(b) \union Has(t)
  <2>1. CASE cell.entries = {}
    BY <2>1, NothingUsed
  <2>2. CASE cell.entries # {}
    <3>1. x = h ++ l
      BY <2>2
    <3>. HIDE DEF x
    <3>2. Uses(h) \subseteq Has(h) \union Has(l)
      BY <1>2, <1>3
    <3>3. Uses(l) \subseteq Has(l) \union Has(b) \union Has(t)
      BY <1>3, <1>4
    <3>. QED BY <1>6, <3>1, <3>2, <3>3
  <2>. QED BY <2>1, <2>2
<1>8. ASSUME NEW e \in cell.entries
      PROVE  /\ FunctionId(EntryWords(cell, e)) \in DOMAIN x /\ RoleId(cell, e) \in DOMAIN x
             /\ x[FunctionId(EntryWords(cell, e))] = l[FunctionId(EntryWords(cell, e))]
             /\ x[RoleId(cell, e)] = l[RoleId(cell, e)]
  <2>1. x = h ++ l
    BY <1>8
  <2>. DEFINE f == FunctionId(EntryWords(cell, e))
              r == RoleId(cell, e)
  <2>2. f.what = "Function" /\ r.what = "LambdaRole"
    BY EntryIds
  <2>3. f \in Has(l) /\ r \in Has(l)
    BY <1>3, <1>8
  <2>. HIDE DEF f, r, x
  <2>4. f \in DOMAIN l /\ r \in DOMAIN l /\ f \notin DOMAIN h /\ r \notin DOMAIN h
    BY <1>2, <2>2, <2>3 DEF Has, Foreign
  <2>5. f \in DOMAIN x /\ r \in DOMAIN x /\ x[f] = l[f] /\ x[r] = l[r]
    BY <1>6, <2>1, <2>4
  <2>. QED BY <2>5 DEF f, r
<1>9. \A id \in DOMAIN x : id.what \in {"Function", "LambdaRole"} => mine(id)
  <2>1. CASE cell.entries = {}
    BY <2>1 DEF NoFragment
  <2>2. CASE cell.entries # {}
    <3>1. x = h ++ l
      BY <2>2
    <3>. HIDE DEF x, mine
    <3>. QED BY <1>2, <1>3, <1>6, <3>1 DEF Foreign
  <2>. QED BY <2>1, <2>2
<1>10. cell.entries # {} => ApiOf(cell) \in Has(x)
  BY <1>2, <1>6
<1>. HIDE DEF x, mine
<1>11. /\ Has(x ++ b) = Has(x) \union Has(b)
       /\ Has(x ++ b ++ t) = Has(x ++ b) \union Has(t)
       /\ Has(x ++ b ++ t ++ all) = Has(x ++ b ++ t) \union Has(all)
  BY BothUse
<1>12. /\ Uses(x ++ b) \subseteq Uses(x) \union Uses(b)
       /\ Uses(x ++ b ++ t) \subseteq Uses(x ++ b) \union Uses(t)
       /\ Uses(x ++ b ++ t ++ all) \subseteq Uses(x ++ b ++ t) \union Uses(all)
  BY BothUse
<1>13. /\ DOMAIN (x ++ b) = DOMAIN x \union DOMAIN b
       /\ DOMAIN (x ++ b ++ t) = DOMAIN (x ++ b) \union DOMAIN t
       /\ DOMAIN (x ++ b ++ t ++ all) = DOMAIN (x ++ b ++ t) \union DOMAIN all
  BY BothUse
<1>14. \A id \in DOMAIN x : (x ++ b ++ t ++ all)[id] = x[id]
  <2>1. \A id \in DOMAIN x : (x ++ b)[id] = x[id]
    BY BothUse
  <2>2. \A id \in DOMAIN (x ++ b) : (x ++ b ++ t)[id] = (x ++ b)[id]
    BY BothUse
  <2>3. \A id \in DOMAIN (x ++ b ++ t) : (x ++ b ++ t ++ all)[id] = (x ++ b ++ t)[id]
    BY BothUse
  <2>. QED BY <1>13, <2>1, <2>2, <2>3
<1>15. \A id \in DOMAIN all \ DOMAIN (x ++ b ++ t) : (x ++ b ++ t ++ all)[id] = all[id]
  BY BothUse
<1>. HIDE DEF new
<1>16. Has(new) = Has(x) \union Has(b) \union Has(t) \union Has(all)
  BY <1>1, <1>11
<1>17. Uses(new) \subseteq Uses(x) \union Uses(b) \union Uses(t) \union Uses(all)
  BY <1>1, <1>12
<1>18. Whole(all) => Whole(new)
  <2>. SUFFICES ASSUME Whole(all) PROVE Whole(new)
    OBVIOUS
  <2>1. Uses(all) \subseteq Has(all)
    BY HasUses
  <2>2. Uses(new) \subseteq Has(new)
    BY <1>4, <1>7, <1>16, <1>17, <2>1
  <2>. QED BY <2>2, WholeHas
<1>19. ASSUME NEW id \in DOMAIN all, id.what \in {"Function", "LambdaRole"}
       PROVE  id \in DOMAIN new /\ (new[id] = all[id] \/ mine(id))
  <2>1. id \in DOMAIN new
    BY <1>1, <1>13
  <2>2. CASE id \in DOMAIN x
    BY <1>9, <1>19, <2>1, <2>2
  <2>3. CASE id \notin DOMAIN x
    <3>1. id \notin DOMAIN (x ++ b ++ t)
      BY <1>5, <1>13, <1>19, <2>3 DEF Foreign
    <3>. QED BY <1>1, <1>15, <2>1, <3>1
  <2>. QED BY <2>2, <2>3
<1>20. ASSUME NEW e \in cell.entries
       PROVE  /\ FunctionId(EntryWords(cell, e)) \in DOMAIN new /\ RoleId(cell, e) \in DOMAIN new
              /\ new[RoleId(cell, e)].refs = CellData(cell)
              /\ EntriesApart(cell) =>
                   /\ new[FunctionId(EntryWords(cell, e))].refs = {RoleId(cell, e)}
                   /\ new[FunctionId(EntryWords(cell, e))].code = <<cell.name, e>>
  <2>1. FunctionId(EntryWords(cell, e)) \in DOMAIN new /\ RoleId(cell, e) \in DOMAIN new
    BY <1>1, <1>8, <1>13
  <2>2. /\ new[FunctionId(EntryWords(cell, e))] = l[FunctionId(EntryWords(cell, e))]
        /\ new[RoleId(cell, e)] = l[RoleId(cell, e)]
    BY <1>1, <1>8, <1>14
  <2>3. EntriesApart(cell) => /\ l[FunctionId(EntryWords(cell, e))].refs = {RoleId(cell, e)}
                              /\ l[FunctionId(EntryWords(cell, e))].code = <<cell.name, e>>
    BY LambdaServes DEF l
  <2>. QED BY <1>3, <2>1, <2>2, <2>3
<1>21. Has(all) \subseteq Has(new) /\ (cell.entries # {} => ApiOf(cell) \in Has(new))
  BY <1>10, <1>16
<1>. QED BY <1>18, <1>19, <1>20, <1>21 DEF new, mine

LEMMA PrefixDomain ==
  ASSUME NEW f, NEW p
  PROVE  /\ DOMAIN PrefixFragment(f, p) = Prefixed(p, DOMAIN f)
         /\ Foreign(f) => Foreign(PrefixFragment(f, p))
<1>1. DOMAIN PrefixFragment(f, p) = Prefixed(p, DOMAIN f)
  BY DEF PrefixFragment
<1>2. \A id : PrefixedId(p, id).what = id.what
  BY DEF PrefixedId
<1>. QED BY <1>1, <1>2 DEF Foreign, Prefixed

LEMMA PlatformApiForeign ==
  ASSUME NEW cell
  PROVE  Foreign(GenerateApiGateway(cell))
<1>. DEFINE api == FixedId("HttpApi")
            F == {EntryApi(api, Pascal[e], FunctionId(Pascal[e])) : e \in cell.entries}
<1>1. \A f \in F : Foreign(f)
  BY EntryApiForeign
<1>2. GenerateApiGateway(cell) = IF cell.entries = {} THEN NoFragment ELSE HttpApi(Id(<<>>, "HttpApi"), F)
  BY DEF GenerateApiGateway, FixedId
<1>. HIDE DEF F
<1>3. Foreign(HttpApi(Id(<<>>, "HttpApi"), F))
  BY <1>1, HttpApiForeign
<1>4. Foreign(NoFragment)
  BY DEF NoFragment, Foreign
<1>. QED BY <1>2, <1>3, <1>4

LEMMA PlatformLambdas ==
  ASSUME NEW cell
  PROVE  LET l == GenerateLambda(cell)
         IN /\ \A e \in cell.entries : FunctionId(Pascal[e]) \in DOMAIN l
            /\ \A id \in DOMAIN l : id.what \in {"Function", "LambdaRole"} =>
                 \E e \in cell.entries : id = FunctionId(Pascal[e])
<1>1. CASE cell.entries = {}
  BY <1>1 DEF GenerateLambda, NoFragment
<1>2. CASE cell.entries # {}
  <2>. DEFINE l == GenerateLambda(cell)
              role == FixedId("LambdaExecutionRole")
              data == TableIds(cell) \union BucketIds(cell)
              needs == FunctionNetwork(cell) \union {role}
              F == {Function(FunctionId(Pascal[e]), needs, <<e>>) : e \in cell.entries}
              a == One(role, data, data \union {FrontendBucket})
              b == Merged(F)
  <2>1. l = a ++ b
    BY <1>2 DEF GenerateLambda
  <2>2. role.what = "LambdaExecutionRole"
    BY IdsDiffer DEF FixedId
  <2>3. DOMAIN b = UNION {DOMAIN f : f \in F}
    BY AllUse
  <2>4. \A e \in cell.entries : DOMAIN Function(FunctionId(Pascal[e]), needs, <<e>>) = {FunctionId(Pascal[e])}
    BY FunctionIs
  <2>5. DOMAIN b = {FunctionId(Pascal[e]) : e \in cell.entries}
    <3>. DEFINE Of(e) == Function(FunctionId(Pascal[e]), needs, <<e>>)
    <3>1. DOMAIN b = UNION {DOMAIN Of(e) : e \in cell.entries}
      BY <2>3
    <3>2. \A e \in cell.entries : DOMAIN Of(e) = {FunctionId(Pascal[e])}
      BY <2>4
    <3>. HIDE DEF Of, b
    <3>. QED BY <3>1, <3>2
  <2>. HIDE DEF role, data, b
  <2>6. DOMAIN a = {role}
    BY OneIs
  <2>. HIDE DEF a
  <2>7. DOMAIN (a ++ b) = DOMAIN a \union DOMAIN b
    BY BothUse
  <2>. HIDE DEF l
  <2>8. DOMAIN l = {role} \union {FunctionId(Pascal[e]) : e \in cell.entries}
    BY <2>1, <2>5, <2>6, <2>7
  <2>. QED BY <2>2, <2>8 DEF l
<1>. QED BY <1>1, <1>2

LEMMA PlatformAdds ==
  ASSUME NEW all, NEW cell \in StackCells
  PROVE  LET new == AddPlatformCell(all, cell)
         IN /\ \A id \in DOMAIN all : id.what \in {"Function", "LambdaRole"}
                 => id \in DOMAIN new
                    /\ \/ new[id] = all[id]
                       \/ \E e \in cell.entries : id = FunctionId(EntryWords(cell, e))
            /\ \A e \in cell.entries :
                 /\ FunctionId(EntryWords(cell, e)) \in DOMAIN new
                 /\ EntriesApart(cell) => new[FunctionId(EntryWords(cell, e))].code = <<cell.name, e>>
<1>. DEFINE p == Pascal[cell.name]
            f == GenerateApiGateway(cell) ++ GenerateLambda(cell)
            x == PrefixFragment(f, p)
            s == PrefixFragment(WithoutFrontend(GenerateS3(cell)), p)
            t == PrefixFragment(GenerateDynamoDB(cell), p)
            merged == x ++ s ++ t ++ all
            new == AddPlatformCell(all, cell)
            Entries(id) == {e \in cell.entries : FunctionId(EntryWords(cell, e)) = id}
<1>1. /\ DOMAIN new = DOMAIN merged
      /\ \A id \in DOMAIN merged : Entries(id) = {} => new[id] = merged[id]
      /\ \A id \in DOMAIN merged : Entries(id) # {} =>
           new[id] = WithZip(merged[id], <<cell.name, CHOOSE e \in Entries(id) : TRUE>>)
  BY DEF AddPlatformCell
<1>2. DOMAIN f = DOMAIN GenerateApiGateway(cell) \union DOMAIN GenerateLambda(cell)
  BY BothUse
<1>3. \A e \in cell.entries : PrefixedId(p, FunctionId(Pascal[e])) = FunctionId(EntryWords(cell, e))
  BY PrefixedIs DEF FunctionId, EntryWords
<1>4. \A e \in cell.entries : FunctionId(EntryWords(cell, e)) \in DOMAIN x
  <2>. TAKE e \in cell.entries
  <2>1. FunctionId(Pascal[e]) \in DOMAIN f
    BY <1>2, PlatformLambdas
  <2>2. DOMAIN x = Prefixed(p, DOMAIN f)
    BY PrefixDomain
  <2>. HIDE DEF f, x
  <2>. QED BY <1>3, <2>1, <2>2 DEF Prefixed
<1>5. \A id \in DOMAIN x : id.what \in {"Function", "LambdaRole"} => Entries(id) # {}
  <2>. SUFFICES ASSUME NEW id \in DOMAIN x, id.what \in {"Function", "LambdaRole"}
                PROVE  \E e \in cell.entries : FunctionId(EntryWords(cell, e)) = id
    OBVIOUS
  <2>1. DOMAIN x = Prefixed(p, DOMAIN f)
    BY PrefixDomain
  <2>2. PICK n \in DOMAIN f : id = PrefixedId(p, n)
    BY <2>1 DEF Prefixed
  <2>3. id.what = n.what
    BY <2>2 DEF PrefixedId
  <2>4. n \in DOMAIN GenerateLambda(cell)
    BY <1>2, <2>3, PlatformApiForeign DEF Foreign
  <2>5. PICK e \in cell.entries : n = FunctionId(Pascal[e])
    BY <2>3, <2>4, PlatformLambdas
  <2>. QED BY <1>3, <2>2, <2>5
<1>6. Foreign(s) /\ Foreign(t)
  <2>1. Foreign(WithoutFrontend(GenerateS3(cell)))
    <3>1. DOMAIN GenerateS3(cell) = (BucketIds(cell) \union {FrontendBucket})
             \union {OutputOf(id) : id \in BucketIds(cell) \union {FrontendBucket}}
      BY DataAre, StoringIs DEF GenerateS3
    <3>2. \A id \in BucketIds(cell) \union {FrontendBucket} : id.what = "Bucket" /\ OutputOf(id).what = "Bucket"
      BY DEF BucketIds, FrontendBucket, Id, OutputOf
    <3>. QED BY <3>1, <3>2 DEF WithoutFrontend, Foreign
  <2>. QED BY <2>1, PrefixDomain, StoredForeign
<1>. HIDE DEF f, x, s, t
<1>7. /\ DOMAIN (x ++ s) = DOMAIN x \union DOMAIN s
      /\ DOMAIN (x ++ s ++ t) = DOMAIN (x ++ s) \union DOMAIN t
      /\ DOMAIN (x ++ s ++ t ++ all) = DOMAIN (x ++ s ++ t) \union DOMAIN all
  BY BothUse
<1>8. \A id \in DOMAIN all \ DOMAIN (x ++ s ++ t) : (x ++ s ++ t ++ all)[id] = all[id]
  BY BothUse
<1>. HIDE DEF new, Entries
<1>9. ASSUME NEW id \in DOMAIN all, id.what \in {"Function", "LambdaRole"}
      PROVE  id \in DOMAIN new /\ (new[id] = all[id] \/ Entries(id) # {})
  <2>1. id \in DOMAIN merged
    BY <1>7
  <2>2. CASE Entries(id) # {}
    BY <1>1, <2>1, <2>2
  <2>3. CASE Entries(id) = {}
    <3>1. id \notin DOMAIN (x ++ s ++ t)
      BY <1>5, <1>6, <1>7, <1>9, <2>3 DEF Foreign
    <3>2. merged[id] = all[id]
      BY <1>8, <3>1
    <3>. QED BY <1>1, <2>1, <2>3, <3>2
  <2>. QED BY <2>2, <2>3
<1>10. ASSUME NEW e \in cell.entries
       PROVE  /\ FunctionId(EntryWords(cell, e)) \in DOMAIN new
              /\ EntriesApart(cell) => new[FunctionId(EntryWords(cell, e))].code = <<cell.name, e>>
  <2>. DEFINE id == FunctionId(EntryWords(cell, e))
  <2>1. id \in DOMAIN merged
    BY <1>4, <1>7
  <2>2. e \in Entries(id)
    BY DEF Entries
  <2>3. ASSUME EntriesApart(cell) PROVE \A g \in Entries(id) : g = e
    BY <2>3, EntryIds, WordsApart DEF Entries
  <2>. HIDE DEF id, merged
  <2>4. new[id] = WithZip(merged[id], <<cell.name, CHOOSE g \in Entries(id) : TRUE>>)
    BY <1>1, <2>1, <2>2
  <2>. DEFINE chosen == CHOOSE g \in Entries(id) : TRUE
  <2>5. EntriesApart(cell) => chosen = e
    BY <2>2, <2>3
  <2>6. new[id].code = <<cell.name, chosen>>
    BY <2>4 DEF WithZip
  <2>7. id \in DOMAIN new
    BY <1>1, <2>1
  <2>. HIDE DEF chosen
  <2>. QED BY <2>5, <2>6, <2>7 DEF id
<1>. QED BY <1>9, <1>10 DEF new, Entries

-----------------------------------------------------------------------------
(* The templates *)

(* An entry of a cell has its own zip, and in a stack the role with the data of its cell. *)
Served(kind, out, cell, e) ==
  /\ FunctionId(EntryWords(cell, e)) \in DOMAIN out
  /\ out[FunctionId(EntryWords(cell, e))].code = <<cell.name, e>>
  /\ kind = "otavia" =>
       /\ out[FunctionId(EntryWords(cell, e))].refs = {RoleId(cell, e)}
       /\ RoleId(cell, e) \in DOMAIN out
       /\ out[RoleId(cell, e)].refs = CellData(cell)

(* While the cells are added: a stack is whole and has the apis that the distribution will *)
(* point at, and each entry of a cell that was added is served.                            *)
TplCellsIn ==
  /\ tplKind = "otavia" =>
       /\ Whole(tplOut)
       /\ \A i \in DOMAIN tplCells : i < tplNext /\ tplCells[i].entries # {} => ApiOf(tplCells[i]) \in Has(tplOut)
  /\ tplKind # "cell" /\ Apart(tplCells) =>
       \A i \in DOMAIN tplCells : i < tplNext =>
         \A e \in tplCells[i].entries : Served(tplKind, tplOut, tplCells[i], e)

TplInv ==
  /\ tplKind \in Kinds3 /\ tplStep \in {"cells", "done"}
  /\ tplCells \in Seq(StackCells) /\ Len(tplCells) >= 1
  /\ tplNext \in 1..(Len(tplCells) + 1)
  /\ tplStep = "cells" => TplCellsIn
  /\ TemplateWhole

LEMMA CellsApart ==
  ASSUME NEW cells, Apart(cells), NEW i \in DOMAIN cells
  PROVE  /\ EntriesApart(cells[i])
         /\ \A e \in cells[i].entries : FunctionId(EntryWords(cells[i], e)) # SpaRewriteFunction
         /\ \A j \in DOMAIN cells : i # j =>
              \A e \in cells[i].entries : \A f \in cells[j].entries : EntryWords(cells[i], e) # EntryWords(cells[j], f)
<1>1. cells[i] \in ToSet(cells)
  BY DEF ToSet
<1>. QED BY <1>1 DEF Apart, EntriesApart

(* What leaves the function and the role of an entry as they are leaves it served. *)
LEMMA ServedStill ==
  ASSUME NEW kind, NEW out, NEW new, NEW cell, NEW e, Served(kind, out, cell, e),
         \A id \in DOMAIN out : id \in {FunctionId(EntryWords(cell, e)), RoleId(cell, e)}
           => id \in DOMAIN new /\ new[id] = out[id]
  PROVE  Served(kind, new, cell, e)
BY DEF Served

LEMMA TplInitInv == TemplatesInit => TplInv
<1>. SUFFICES ASSUME TemplatesInit PROVE TplInv
  OBVIOUS
<1>1. PICK n \in 1..MaxStack : tplCells \in [1..n -> StackCells]
  BY DEF TemplatesInit
<1>2. tplCells \in Seq(StackCells) /\ Len(tplCells) = n /\ Len(tplCells) \in Nat /\ n >= 1
  BY <1>1, TemplatesAssumption
<1>3. tplNext = 1 /\ tplStep = "cells" /\ tplOut = NoFragment /\ tplKind \in Kinds3
  BY DEF TemplatesInit, TemplatesRest
<1>4. TplCellsIn
  <2>1. Whole(tplOut)
    BY <1>3 DEF Whole, NoFragment
  <2>2. \A i \in DOMAIN tplCells : ~ (i < tplNext)
    BY <1>1, <1>3, TemplatesAssumption
  <2>. QED BY <2>1, <2>2 DEF TplCellsIn
<1>5. TemplateWhole
  BY <1>3 DEF TemplateWhole
<1>. QED BY <1>2, <1>3, <1>4, <1>5 DEF TplInv

LEMMA TplAddCell ==
  ASSUME TplInv, AddCell
  PROVE  TplInv'
<1>. DEFINE cell == tplCells[tplNext]
<1>1. /\ tplStep = "cells" /\ tplKind # "cell" /\ tplNext <= Len(tplCells)
      /\ tplOut' = IF tplKind = "platform" THEN AddPlatformCell(tplOut, cell) ELSE AddOtaviaCell(tplOut, cell)
      /\ tplNext' = tplNext + 1
      /\ tplKind' = tplKind /\ tplCells' = tplCells /\ tplStep' = tplStep
  BY DEF AddCell
<1>2. /\ tplKind \in Kinds3 /\ tplCells \in Seq(StackCells) /\ Len(tplCells) >= 1
      /\ tplNext \in 1..(Len(tplCells) + 1) /\ TplCellsIn
  BY <1>1 DEF TplInv
<1>3. tplNext \in DOMAIN tplCells /\ cell \in StackCells
  BY <1>1, <1>2
<1>4. tplNext + 1 \in 1..(Len(tplCells) + 1)
  BY <1>1, <1>2
<1>5. \A i \in DOMAIN tplCells : i < tplNext + 1 => i < tplNext \/ i = tplNext
  BY <1>2
<1>. HIDE DEF cell
<1>6. tplKind = "otavia" =>
        /\ Whole(tplOut')
        /\ \A i \in DOMAIN tplCells : i < tplNext + 1 /\ tplCells[i].entries # {} => ApiOf(tplCells[i]) \in Has(tplOut')
  <2>. SUFFICES ASSUME tplKind = "otavia"
                PROVE  /\ Whole(tplOut')
                       /\ \A i \in DOMAIN tplCells : i < tplNext + 1 /\ tplCells[i].entries # {} => ApiOf(tplCells[i]) \in Has(tplOut')
    OBVIOUS
  <2>. DEFINE new == AddOtaviaCell(tplOut, cell)
  <2>1. tplOut' = new
    BY <1>1
  <2>2. /\ Whole(tplOut) => Whole(new)
        /\ Has(tplOut) \subseteq Has(new)
        /\ cell.entries # {} => ApiOf(cell) \in Has(new)
    BY <1>3, OtaviaAdds
  <2>. HIDE DEF new
  <2>. QED BY <1>2, <1>5, <2>1, <2>2 DEF TplCellsIn, cell
<1>7. ASSUME Apart(tplCells), NEW i \in DOMAIN tplCells, i < tplNext + 1, NEW e \in tplCells[i].entries
      PROVE  Served(tplKind, tplOut', tplCells[i], e)
  <2>1. CASE i = tplNext
    <3>1. EntriesApart(cell) /\ tplCells[i] = cell /\ e \in cell.entries
      BY <1>3, <1>7, <2>1, CellsApart DEF cell
    <3>2. CASE tplKind = "platform"
      <4>1. tplOut' = AddPlatformCell(tplOut, cell)
        BY <1>1, <3>2
      <4>2. /\ FunctionId(EntryWords(cell, e)) \in DOMAIN AddPlatformCell(tplOut, cell)
            /\ AddPlatformCell(tplOut, cell)[FunctionId(EntryWords(cell, e))].code = <<cell.name, e>>
        BY <1>3, <3>1, PlatformAdds
      <4>. QED BY <3>1, <3>2, <4>1, <4>2 DEF Served
    <3>3. CASE tplKind = "otavia"
      <4>. DEFINE new == AddOtaviaCell(tplOut, cell)
      <4>1. tplOut' = new
        BY <1>1, <3>3
      <4>2. /\ FunctionId(EntryWords(cell, e)) \in DOMAIN new /\ RoleId(cell, e) \in DOMAIN new
            /\ new[RoleId(cell, e)].refs = CellData(cell)
            /\ new[FunctionId(EntryWords(cell, e))].refs = {RoleId(cell, e)}
            /\ new[FunctionId(EntryWords(cell, e))].code = <<cell.name, e>>
        BY <1>3, <3>1, OtaviaAdds
      <4>. HIDE DEF new
      <4>. QED BY <3>1, <4>1, <4>2 DEF Served
    <3>. QED BY <1>1, <1>2, <3>2, <3>3 DEF Kinds3
  <2>2. CASE i < tplNext
    <3>1. Served(tplKind, tplOut, tplCells[i], e)
      BY <1>1, <1>2, <1>7, <2>2 DEF TplCellsIn
    <3>. DEFINE f == FunctionId(EntryWords(tplCells[i], e))
                r == RoleId(tplCells[i], e)
    <3>2. \A x \in cell.entries : /\ f # FunctionId(EntryWords(cell, x)) /\ f # RoleId(cell, x)
                                  /\ r # FunctionId(EntryWords(cell, x)) /\ r # RoleId(cell, x)
      <4>. TAKE x \in cell.entries
      <4>1. EntryWords(tplCells[i], e) # EntryWords(cell, x)
        <5>1. i # tplNext
          BY <1>2, <2>2
        <5>. QED BY <1>3, <1>7, <5>1, CellsApart DEF cell
      <4>2. f.words = EntryWords(tplCells[i], e) /\ r.words = EntryWords(tplCells[i], e)
        BY IdsDiffer DEF FunctionId, RoleId
      <4>3. FunctionId(EntryWords(cell, x)).words = EntryWords(cell, x) /\ RoleId(cell, x).words = EntryWords(cell, x)
        BY IdsDiffer DEF FunctionId, RoleId
      <4>. QED BY <4>1, <4>2, <4>3
    <3>3. f.what = "Function" /\ r.what = "LambdaRole"
      BY EntryIds
    <3>. HIDE DEF f, r
    <3>4. \A id \in DOMAIN tplOut : id \in {f, r} => id \in DOMAIN tplOut' /\ tplOut'[id] = tplOut[id]
      <4>. SUFFICES ASSUME NEW id \in DOMAIN tplOut, id \in {f, r}
                    PROVE  id \in DOMAIN tplOut' /\ tplOut'[id] = tplOut[id]
        OBVIOUS
      <4>1. id.what \in {"Function", "LambdaRole"}
        BY <3>3
      <4>2. CASE tplKind = "platform"
        <5>. DEFINE new == AddPlatformCell(tplOut, cell)
        <5>1. tplOut' = new
          BY <1>1, <4>2
        <5>2. id \in DOMAIN new /\ (new[id] = tplOut[id] \/ \E x \in cell.entries : id = FunctionId(EntryWords(cell, x)))
          BY <1>3, <4>1, PlatformAdds
        <5>. HIDE DEF new
        <5>. QED BY <3>2, <5>1, <5>2
      <4>3. CASE tplKind = "otavia"
        <5>. DEFINE new == AddOtaviaCell(tplOut, cell)
        <5>1. tplOut' = new
          BY <1>1, <4>3
        <5>2. /\ id \in DOMAIN new
              /\ \/ new[id] = tplOut[id]
                 \/ \E x \in cell.entries : id = FunctionId(EntryWords(cell, x)) \/ id = RoleId(cell, x)
          BY <1>3, <4>1, OtaviaAdds
        <5>. HIDE DEF new
        <5>. QED BY <3>2, <5>1, <5>2
      <4>. QED BY <1>1, <1>2, <4>2, <4>3 DEF Kinds3
    <3>. QED BY <3>1, <3>4, ServedStill DEF f, r
  <2>. QED BY <1>5, <1>7, <2>1, <2>2
<1>8. TplCellsIn'
  BY <1>1, <1>6, <1>7 DEF TplCellsIn
<1>9. TemplateWhole'
  BY <1>1 DEF TemplateWhole
<1>. QED BY <1>1, <1>2, <1>4, <1>8, <1>9 DEF TplInv

LEMMA TplAddFrontend ==
  ASSUME TplInv, AddFrontend
  PROVE  TplInv'
<1>. DEFINE first == tplCells[1]
            r == IF tplKind = "platform" THEN GenerateDomain(first) ELSE NoFragment
            d == Distribution(ApisOf(tplCells), first.certificate, first.zone)
            s == Storing({FrontendBucket})
            new == r ++ d ++ s ++ tplOut
<1>1. /\ tplStep = "cells" /\ tplKind # "cell" /\ tplNext > Len(tplCells)
      /\ tplOut' = new /\ tplStep' = "done"
      /\ tplKind' = tplKind /\ tplCells' = tplCells /\ tplNext' = tplNext
  BY DEF AddFrontend
<1>2. /\ tplKind \in Kinds3 /\ tplCells \in Seq(StackCells) /\ Len(tplCells) >= 1
      /\ tplNext \in 1..(Len(tplCells) + 1) /\ TplCellsIn
  BY <1>1 DEF TplInv
<1>3. \A i \in DOMAIN tplCells : i < tplNext
  BY <1>1, <1>2
<1>4. /\ Uses(d) \subseteq Has(d) \union {FrontendBucket} \union ApisOf(tplCells)
      /\ \A id \in DOMAIN d : id.what = "Function" => id = SpaRewriteFunction
      /\ \A id \in DOMAIN d : id.what # "LambdaRole"
  BY DistributionUses
<1>5. IsResource({FrontendBucket})
  BY DEF IsResource, FrontendBucket
<1>6. Uses(s) \subseteq {FrontendBucket} /\ Has(s) = {FrontendBucket}
  BY <1>5, StoringUses
<1>7. Foreign(s)
  <2>1. DOMAIN s = {FrontendBucket} \union {OutputOf(id) : id \in {FrontendBucket}}
    BY <1>5, StoringIs
  <2>2. FrontendBucket.what = "Bucket" /\ OutputOf(FrontendBucket).what = "Bucket"
    BY DEF FrontendBucket, Id, OutputOf
  <2>. HIDE DEF s
  <2>. QED BY <2>1, <2>2 DEF Foreign
<1>8. Foreign(r)
  <2>1. Foreign(NoFragment)
    BY DEF NoFragment, Foreign
  <2>2. FixedId("DnsRecord").what = "DnsRecord"
    BY IdsDiffer DEF FixedId
  <2>3. Foreign(One(FixedId("DnsRecord"), {FixedId("FrontendCloudFront")}, {}))
    BY <2>2, OneForeign
  <2>. QED BY <2>1, <2>3 DEF GenerateDomain
<1>9. tplKind = "otavia" => Uses(r) = {}
  BY NothingUsed
<1>. HIDE DEF r, d, s
<1>10. /\ Has(r ++ d) = Has(r) \union Has(d)
       /\ Has(r ++ d ++ s) = Has(r ++ d) \union Has(s)
       /\ Has(r ++ d ++ s ++ tplOut) = Has(r ++ d ++ s) \union Has(tplOut)
  BY BothUse
<1>11. /\ Uses(r ++ d) \subseteq Uses(r) \union Uses(d)
       /\ Uses(r ++ d ++ s) \subseteq Uses(r ++ d) \union Uses(s)
       /\ Uses(r ++ d ++ s ++ tplOut) \subseteq Uses(r ++ d ++ s) \union Uses(tplOut)
  BY BothUse
<1>12. /\ DOMAIN (r ++ d) = DOMAIN r \union DOMAIN d
       /\ DOMAIN (r ++ d ++ s) = DOMAIN (r ++ d) \union DOMAIN s
       /\ DOMAIN (r ++ d ++ s ++ tplOut) = DOMAIN (r ++ d ++ s) \union DOMAIN tplOut
  BY BothUse
<1>13. \A id \in DOMAIN tplOut \ DOMAIN (r ++ d ++ s) : (r ++ d ++ s ++ tplOut)[id] = tplOut[id]
  BY BothUse
<1>14. tplKind = "otavia" => Whole(new)
  <2>. SUFFICES ASSUME tplKind = "otavia" PROVE Whole(new)
    OBVIOUS
  <2>1. Whole(tplOut)
    BY <1>2 DEF TplCellsIn
  <2>2. Uses(tplOut) \subseteq Has(tplOut)
    BY <2>1, HasUses
  <2>3. ApisOf(tplCells) \subseteq Has(tplOut)
    <3>. SUFFICES ASSUME NEW c \in ToSet(tplCells), c.entries # {} PROVE ApiOf(c) \in Has(tplOut)
      BY DEF ApisOf
    <3>1. PICK i \in DOMAIN tplCells : c = tplCells[i]
      BY DEF ToSet
    <3>. QED BY <1>2, <1>3, <3>1 DEF TplCellsIn
  <2>4. Uses(new) \subseteq Uses(r) \union Uses(d) \union Uses(s) \union Uses(tplOut)
    BY <1>11
  <2>5. Has(new) = Has(r) \union Has(d) \union Has(s) \union Has(tplOut)
    BY <1>10
  <2>. HIDE DEF new
  <2>6. Uses(new) \subseteq Has(new)
    BY <1>4, <1>6, <1>9, <2>2, <2>3, <2>4, <2>5
  <2>. QED BY <2>6, WholeHas
<1>15. ASSUME Apart(tplCells), NEW i \in DOMAIN tplCells, NEW e \in tplCells[i].entries
       PROVE  Served(tplKind, new, tplCells[i], e)
  <2>. DEFINE f == FunctionId(EntryWords(tplCells[i], e))
              role == RoleId(tplCells[i], e)
  <2>1. Served(tplKind, tplOut, tplCells[i], e)
    BY <1>1, <1>2, <1>3, <1>15 DEF TplCellsIn
  <2>2. f # SpaRewriteFunction
    BY <1>15, CellsApart
  <2>3. f.what = "Function" /\ role.what = "LambdaRole"
    BY EntryIds
  <2>. HIDE DEF f, role, new
  <2>4. f \notin DOMAIN (r ++ d ++ s) /\ role \notin DOMAIN (r ++ d ++ s)
    BY <1>4, <1>7, <1>8, <1>12, <2>2, <2>3 DEF Foreign
  <2>5. \A id \in DOMAIN tplOut : id \in {f, role} => id \in DOMAIN new /\ new[id] = tplOut[id]
    BY <1>12, <1>13, <2>4 DEF new
  <2>. QED BY <2>1, <2>5, ServedStill DEF f, role
<1>. HIDE DEF new
<1>16. TemplateWhole'
  <2>1. ASSUME tplKind # "cell", Apart(tplCells), NEW c \in ToSet(tplCells), NEW e \in c.entries
        PROVE  LET function == new[FunctionId(EntryWords(c, e))]
               IN /\ function.code = <<c.name, e>>
                  /\ tplKind = "otavia" => \E role \in function.refs : new[role].refs = CellData(c)
    <3>1. PICK i \in DOMAIN tplCells : c = tplCells[i]
      BY DEF ToSet
    <3>. QED BY <1>15, <2>1, <3>1 DEF Served
  <2>. QED BY <1>1, <1>14, <2>1 DEF TemplateWhole
<1>. QED BY <1>1, <1>2, <1>16 DEF TplInv

(* One command that generates a template *)
TemplatesSpec == TemplatesInit /\ [][TemplatesNext]_templateVars

LEMMA TplStep == TplInv /\ [TemplatesNext]_templateVars => TplInv'
<1>. SUFFICES ASSUME TplInv, [TemplatesNext]_templateVars PROVE TplInv'
  OBVIOUS
<1>1. CASE GenerateTemplate
  <2>1. /\ tplStep = "cells" /\ tplKind = "cell" /\ tplOut' = CellTemplate(tplCells[1]) /\ tplStep' = "done"
        /\ tplKind' = tplKind /\ tplCells' = tplCells /\ tplNext' = tplNext
    BY <1>1 DEF GenerateTemplate
  <2>2. tplCells[1].entries # {} => Whole(CellTemplate(tplCells[1]))
    BY CellWhole
  <2>3. TemplateWhole'
    BY <2>1, <2>2 DEF TemplateWhole
  <2>. QED BY <2>1, <2>3 DEF TplInv
<1>2. CASE AddCell
  BY <1>2, TplAddCell
<1>3. CASE AddFrontend
  BY <1>3, TplAddFrontend
<1>4. CASE UNCHANGED templateVars
  BY <1>4 DEF TplInv, TplCellsIn, TemplateWhole, templateVars
<1>. QED BY <1>1, <1>2, <1>3, <1>4 DEF TemplatesNext

(* TemplatesStand: whatever cells a stack has, in a template that cell-cli or otavia has      *)
(* generated nothing names an id that is not there, and each entry of each cell runs its own *)
(* zip with access to the data of its own cell, unless two names run together to one id.     *)
THEOREM TemplatesStand == TemplatesSpec => []TemplateWhole
<1>1. TplInv => TemplateWhole
  BY DEF TplInv
<1>. QED BY <1>1, TplInitInv, TplStep, PTL DEF TemplatesSpec
=============================================================================
