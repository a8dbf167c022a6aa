------------------------------ MODULE DevTunnel ------------------------------
(***************************************************************************)
(* otavia setup --tunnel and otavia dev --tunnel: several machines of one  *)
(* team, each with its own files, that share a Cloudflare account and a    *)
(* Cognito client.  The machine's name is the segment that the host name   *)
(* of the computer or the answer to a question becomes, at every setup: so *)
(* two machines may have the same, and one machine another than before.    *)
(* Every command of a setup may fail, and a tunnel or its credentials may  *)
(* be lost                                                                 *)
(* (MaxMisfortunes of these together); a setup may be run again            *)
(* (MaxSetups in all).                                                     *)
(***************************************************************************)
EXTENDS Naturals, FiniteSets

CONSTANTS
  Machines, MachineNames,  \* the computers, and the segments that their names become
  Roots, NoDomain,         \* the domains of the account, and no domain yet
  MaxSetups, MaxMisfortunes

VARIABLES
  account,  \* tunnels by name, what the hosts lead to, the callbacks of the client,
            \* and the hosts whose last route was refused with an error that is forgiven
  machine,  \* each machine: its files and where its setup stands
  spoiled,  \* machines whose credentials are not those of their config's tunnel
  commands  \* how many setups, failures and losses there have been

tunnelVars == <<account, machine, spoiled, commands>>

NoTunnel == 0
NoConfig == [tunnel |-> "", root |-> NoDomain]
SetupSteps ==
  {"idle", "enabled", "token", "zones", "root", "install", "login", "create", "route", "write",
   "describe", "update", "expired", "done", "failed"}

SetupGoes(m, step) == machine' = [machine EXCEPT ![m].at = step]

MayGoWrong == commands.failures + commands.lost < MaxMisfortunes

(* A command of m fails with an error that the setup does not forgive. *)
FailsAt(m, step) ==
  /\ machine[m].at = step /\ MayGoWrong
  /\ commands' = [commands EXCEPT !.failures = @ + 1]
  /\ SetupGoes(m, "failed")
  /\ UNCHANGED <<account, spoiled>>

(* The hosts of tunnels, and that of a machine, which its callback is on. *)
TunnelHosts == MachineNames \X Roots
TunnelCallback(m) == <<machine[m].name, machine[m].root>>

-----------------------------------------------------------------------------
ASSUME TunnelAssumption == MachineNames # {}

TunnelInit ==
  /\ account = [tunnels |-> [n \in MachineNames |-> NoTunnel], ids |-> 0,
                routes |-> [h \in TunnelHosts |-> NoTunnel], callbacks |-> {}, unrouted |-> {}]
  /\ machine = [m \in Machines |->
       [name |-> CHOOSE n \in MachineNames : TRUE, at |-> "idle", root |-> NoDomain,
        terminal |-> FALSE, token |-> FALSE, zones |-> {}, attempt |-> 0,
        credentials |-> NoTunnel, config |-> NoConfig, read |-> {}, retried |-> FALSE,
        registered |-> FALSE, foreign |-> FALSE, running |-> FALSE]]
  /\ spoiled = {} /\ commands = [setups |-> 0, failures |-> 0, lost |-> 0]

(* setupCommand up to the tunnel: the user names it on the command line or     *)
(* says yes at the terminal; OTAVIA_TUNNEL_DEV_ROOT may be set.  startTunnel    *)
(* runs it too, with the zone of otavia.yaml, where there is no config.         *)
StartSetup(m, terminal, root) ==
  /\ machine[m].at \in {"idle", "done", "failed"} /\ ~ machine[m].running
  /\ commands.setups < MaxSetups
  /\ commands' = [commands EXCEPT !.setups = @ + 1]
  /\ machine' = [machine EXCEPT ![m].at = "enabled", ![m].terminal = terminal, ![m].root = root,
                   ![m].foreign = FALSE, ![m].retried = FALSE, ![m].registered = FALSE]
  /\ UNCHANGED <<account, spoiled>>

(* resolveTunnelInputs: without a terminal both the domain and the token must  *)
(* be there already, and the name is that of the computer or of the            *)
(* environment; with one a missing or refused token is asked for, saved, and   *)
(* used to list the zones.                                                     *)
ResolveInputs(m, name) ==
  /\ machine[m].at = "enabled"
  /\ machine' = [machine EXCEPT ![m].terminal = FALSE,
       ![m].name = IF machine[m].terminal THEN @ ELSE name,
       ![m].at = IF machine[m].terminal THEN "token"
                 ELSE IF machine[m].root # NoDomain /\ machine[m].token THEN "install"
                 ELSE "failed"]
  /\ UNCHANGED <<account, spoiled, commands>>

GiveToken(m) ==
  /\ machine[m].at = "token"
  /\ machine' = [machine EXCEPT ![m].at = "zones", ![m].token = TRUE, ![m].attempt = 1]
  /\ UNCHANGED <<account, spoiled, commands>>

(* fetchCloudflareZonesWithToken: three attempts where the answer is a 5xx, a *)
(* 429, an exception or late; no zones where they fail or the token is bad.   *)
MaxZoneAttempts == 3

RetryZones(m) ==
  /\ machine[m].at = "zones" /\ machine[m].attempt < MaxZoneAttempts
  /\ MayGoWrong
  /\ commands' = [commands EXCEPT !.failures = @ + 1]
  /\ machine' = [machine EXCEPT ![m].attempt = @ + 1]
  /\ UNCHANGED <<account, spoiled>>

FetchZones(m, zones) ==
  /\ machine[m].at = "zones"
  /\ machine' = [machine EXCEPT ![m].at = "root", ![m].zones = zones]
  /\ UNCHANGED <<account, spoiled, commands>>

(* The domain of the environment stands; a single zone is taken; otherwise the *)
(* user picks one or types another, and then a name of the machine.            *)
ChooseRoot(m, root, name) ==
  /\ machine[m].at = "root"
  /\ root = machine[m].root \/ machine[m].root = NoDomain
  /\ machine[m].root = NoDomain /\ Cardinality(machine[m].zones) = 1 => root \in machine[m].zones
  /\ machine' = [machine EXCEPT ![m].at = "install", ![m].root = root,
                   ![m].name = name, ![m].zones = {}, ![m].attempt = 0]
  /\ UNCHANGED <<account, spoiled, commands>>

-----------------------------------------------------------------------------
(* ensureCloudflaredInstalled: brew installs it on macOS. *)
Install(m) ==
  /\ machine[m].at = "install"
  /\ SetupGoes(m, "login")
  /\ UNCHANGED <<account, spoiled, commands>>

(* ensureCloudflaredLogin: the list is tried again where there is a cert.pem, *)
(* and the browser logs in where there is none.                               *)
CloudflaredLogin(m) ==
  /\ machine[m].at = "login"
  /\ SetupGoes(m, "create")
  /\ UNCHANGED <<account, spoiled, commands>>

(* bootstrapNamedTunnel.  A tunnel that exists is reused, whoever made it; its *)
(* credentials are written where it is made, over those of another name, and   *)
(* nowhere else.                                                               *)
CreateTunnel(m) ==
  LET name == machine[m].name IN
  /\ machine[m].at = "create"
  /\ IF account.tunnels[name] = NoTunnel
     THEN /\ account' = [account EXCEPT !.ids = @ + 1, !.tunnels[name] = account.ids + 1]
          /\ machine' = [machine EXCEPT ![m].at = "route", ![m].foreign = FALSE,
                           ![m].credentials = account.ids + 1]
          /\ spoiled' = IF machine[m].config = NoConfig THEN spoiled ELSE spoiled \union {m}
     ELSE /\ machine' = [machine EXCEPT ![m].at = "route",
                           ![m].foreign = machine[m].credentials # account.tunnels[name]]
          /\ UNCHANGED <<account, spoiled>>
  /\ UNCHANGED commands

(* A plausible bug is to forgive every failure of cloudflared tunnel create, *)
(* and not only that of a name that is there already.                         *)
CreateForgives(m) ==
  /\ machine[m].at = "create" /\ MayGoWrong
  /\ commands' = [commands EXCEPT !.failures = @ + 1]
  /\ SetupGoes(m, "route")
  /\ UNCHANGED <<account, spoiled>>
CreateFails(m) == FailsAt(m, "create")

(* route dns --overwrite-dns: the host leads to the tunnel of this name. *)
RouteHost(m) ==
  LET id == account.tunnels[machine[m].name] IN
  /\ machine[m].at = "route"
  /\ IF id = NoTunnel THEN SetupGoes(m, "failed") /\ UNCHANGED account
     ELSE /\ account' = [account EXCEPT !.routes[TunnelCallback(m)] = id,
                                         !.unrouted = @ \ {TunnelCallback(m)}]
          /\ SetupGoes(m, "write")
  /\ UNCHANGED <<spoiled, commands>>

(* A failure that says "already exists" or "already registered" is forgiven, *)
(* and the host leads where it did.                                          *)
RouteForgiven(m) ==
  /\ machine[m].at = "route" /\ MayGoWrong
  /\ commands' = [commands EXCEPT !.failures = @ + 1]
  /\ account' = [account EXCEPT !.unrouted = @ \union {TunnelCallback(m)}]
  /\ SetupGoes(m, "write")
  /\ UNCHANGED spoiled

(* config.yml, and tunnel.yaml for the older place. *)
WriteConfig(m) ==
  /\ machine[m].at = "write"
  /\ machine' = [machine EXCEPT ![m].at = "describe",
                   ![m].config = [tunnel |-> machine[m].name, root |-> machine[m].root]]
  /\ spoiled' = IF machine[m].foreign THEN spoiled \union {m} ELSE spoiled \ {m}
  /\ UNCHANGED <<account, commands>>

-----------------------------------------------------------------------------
(* ensureOAuthCognitoCallback: none, or no Cognito, or not all of its ids. *)
NoCallback(m) ==
  /\ machine[m].at = "describe"
  /\ SetupGoes(m, "done")
  /\ UNCHANGED <<account, spoiled, commands>>

(* ensureCognitoCallbackUrl: the client is described, and updated where its *)
(* callback is not among those that it has.                                 *)
Describe(m) ==
  /\ machine[m].at = "describe"
  /\ machine' = [machine EXCEPT
       ![m].at = IF TunnelCallback(m) \in account.callbacks THEN "done" ELSE "update",
       ![m].read = IF TunnelCallback(m) \in account.callbacks THEN {} ELSE account.callbacks,
       ![m].registered = TunnelCallback(m) \in account.callbacks]
  /\ UNCHANGED <<account, spoiled, commands>>

(* What an update leaves of the callbacks: those that were read, and its own. *)
Updated(read, own) == read \union {own}

Update(m) ==
  LET next == Updated(machine[m].read, TunnelCallback(m)) IN
  /\ machine[m].at = "update"
  /\ account' = [account EXCEPT !.callbacks = next]
  /\ machine' = [n \in Machines |->
       IF n = m THEN [machine[m] EXCEPT !.at = "done", !.read = {}, !.registered = TRUE]
       \* one that another setup added since the read is lost, whatever the code does
       ELSE IF TunnelCallback(n) \in account.callbacks \ (machine[m].read \union {TunnelCallback(m)})
       THEN [machine[n] EXCEPT !.registered = FALSE] ELSE machine[n]]
  /\ UNCHANGED <<spoiled, commands>>

(* A failure is only a warning; an expired session is renewed, once. *)
AwsFails(m) ==
  /\ machine[m].at \in {"describe", "update"} /\ MayGoWrong
  /\ commands' = [commands EXCEPT !.failures = @ + 1]
  /\ machine' = [machine EXCEPT ![m].at = "done", ![m].read = {}]
  /\ UNCHANGED <<account, spoiled>>

Expires(m) ==
  /\ machine[m].at \in {"describe", "update"} /\ MayGoWrong
  /\ commands' = [commands EXCEPT !.failures = @ + 1]
  /\ machine' = [machine EXCEPT ![m].at = IF machine[m].retried THEN "done" ELSE "expired",
                   ![m].read = {}]
  /\ UNCHANGED <<account, spoiled>>

SsoLogin(m, works) ==
  /\ machine[m].at = "expired"
  /\ machine' = [machine EXCEPT ![m].at = IF works THEN "describe" ELSE "done", ![m].retried = TRUE]
  /\ UNCHANGED <<account, spoiled, commands>>

-----------------------------------------------------------------------------
(* startTunnel: the public url is the host of the config. *)
RunTunnel(m) ==
  /\ machine[m].at \in {"idle", "done", "failed"} /\ ~ machine[m].running
  /\ machine[m].config # NoConfig
  /\ machine' = [machine EXCEPT ![m].running = TRUE]
  /\ UNCHANGED <<account, spoiled, commands>>

StopTunnel(m) ==
  /\ machine[m].running
  /\ machine' = [machine EXCEPT ![m].running = FALSE]
  /\ UNCHANGED <<account, spoiled, commands>>

(* Someone deletes a tunnel in the dashboard, or the credentials at home. *)
LoseCredentials(m) ==
  /\ MayGoWrong
  /\ commands' = [commands EXCEPT !.lost = @ + 1]
  /\ spoiled' = spoiled \union {m}
  /\ machine' = [machine EXCEPT ![m].foreign = TRUE, ![m].credentials = NoTunnel]
  /\ UNCHANGED account

LoseTunnel(name) ==
  /\ MayGoWrong
  /\ commands' = [commands EXCEPT !.lost = @ + 1]
  /\ spoiled' = spoiled \union {m \in Machines : machine[m].config.tunnel = name}
  /\ machine' = [m \in Machines |->
       IF machine[m].name = name THEN [machine[m] EXCEPT !.foreign = TRUE] ELSE machine[m]]
  /\ account' = [account EXCEPT !.tunnels[name] = NoTunnel]

FailingSteps == {"install", "login", "route"}

TunnelNext ==
  \E m \in Machines :
    \/ \E terminal \in BOOLEAN, root \in Roots \union {NoDomain} : StartSetup(m, terminal, root)
    \/ \E name \in MachineNames : ResolveInputs(m, name)
    \/ GiveToken(m) \/ RetryZones(m)
    \/ \E zones \in SUBSET Roots : FetchZones(m, zones)
    \/ \E root \in Roots, name \in MachineNames : ChooseRoot(m, root, name)
    \/ Install(m) \/ CloudflaredLogin(m) \/ CreateTunnel(m) \/ CreateFails(m)
    \/ RouteHost(m) \/ RouteForgiven(m) \/ WriteConfig(m)
    \/ \E step \in FailingSteps : FailsAt(m, step)
    \/ NoCallback(m) \/ Describe(m) \/ Update(m) \/ AwsFails(m) \/ Expires(m)
    \/ \E works \in BOOLEAN : SsoLogin(m, works)
    \/ RunTunnel(m) \/ StopTunnel(m)
    \/ LoseCredentials(m)
    \/ \E name \in MachineNames : LoseTunnel(name)

TunnelSpec == TunnelInit /\ [][TunnelNext]_tunnelVars

TunnelTypeOK ==
  /\ account.routes \in [TunnelHosts -> Nat] /\ account.callbacks \subseteq TunnelHosts
  /\ spoiled \subseteq Machines
  /\ \A m \in Machines :
       /\ machine[m].at \in SetupSteps
       /\ machine[m].at \in {"install", "login", "create", "route", "write", "describe"} =>
            machine[m].root \in Roots

-----------------------------------------------------------------------------
(* The public url that dev prints leads to this machine. *)
HostReached(m) ==
  LET name == machine[m].config.tunnel
      id == account.tunnels[name]
      host == <<name, machine[m].config.root>>
  IN  id # NoTunnel /\ machine[m].credentials = id
        /\ account.routes[host] = id

(* What a setup has brought about stands, whatever commands failed, however    *)
(* often it ran, under whatever names, and whoever else ran it: dev --tunnel   *)
(* prints a host that leads to this machine, unless the last try to route that *)
(* host was refused and forgiven, or the credentials of the machine are not    *)
(* those of its config's tunnel: lost, of a tunnel that another machine made,  *)
(* or replaced by a setup under another name that did not come to the config;  *)
(* and a callback that a setup found or added is accepted by the client,       *)
(* unless another setup had read the client before and wrote it after.         *)
SetupStands ==
  \A m \in Machines :
    /\ machine[m].running /\ m \notin spoiled =>
         HostReached(m) \/ <<machine[m].config.tunnel, machine[m].config.root>> \in account.unrouted
    /\ machine[m].registered => TunnelCallback(m) \in account.callbacks
=============================================================================
