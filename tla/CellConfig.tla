----------------------------- MODULE CellConfig -----------------------------
(***************************************************************************)
(* From the cell.yaml of a cell to the environment and the host it runs    *)
(* with (apps/cell-cli/src/config): the tags of the file, the references   *)
(* among its params, the overrides of an instance file, and the values     *)
(* that come from the environment.  resolveParams calls resolve for a key  *)
(* and that for the key it refers to: the open calls are a chain of keys,  *)
(* and a call or a return is a step.                                       *)
(***************************************************************************)
EXTENDS ParamValues, SequencesExt

CONSTANTS
  CellFiles,       \* files: the order of the params, their values, the value of domain,
                   \* the name of the token of the top-level cloudflare ("" for none)
  InstanceFiles,   \* cell.<instance>.yaml: its top-level keys and its params
  NoInstance,      \* no -i option
  Environments,    \* what the .env files define
  CommandOptions   \* the stage ("dev", "test", "cloud"), whether missing params become
                   \* placeholders, and whether there are a platform and a devbox

ASSUME CellFilesAssumption ==
  \A f \in CellFiles :
    /\ f.order \in Seq(DOMAIN f.params) /\ ToSet(f.order) = DOMAIN f.params
    /\ IsValue(f.domain) /\ \A k \in DOMAIN f.params : IsValue(f.params[k])
    /\ \A p \in DOMAIN f.domain : f.domain[p].kind # "array"

VARIABLES
  cfgFile,      \* the file of the cell
  cfgStep,      \* "parse", "params", "objects", "override", "resolve", "done" or "failed"
  cfgChain,     \* the keys whose resolve() is open, each called for by the one before
  cfgOrder,     \* the keys in the order in which they were resolved: that of the Map
  cfgEnds,      \* what resolveParams has resolved: the value at the end of the references
  cfgNext,      \* the place in cfgOrder of the key the loop over the objects comes to
  cfgKnown,     \* resolvedParams, which that loop writes into and reads
  cfgDomain,    \* the domain
  cfgInstance,  \* the instance file of the command
  cfgCommand,   \* its environment and options
  cfgResolved   \* what resolveConfig returns

configVars == <<cfgFile, cfgStep, cfgChain, cfgOrder, cfgEnds, cfgNext, cfgKnown, cfgDomain,
                cfgInstance, cfgCommand, cfgResolved>>

Root(v) == v[<<>>]
NodeAt(v, p) == IF p \in DOMAIN v THEN v[p] ELSE ParamNode("null", "")
RefsOf(v) == {v[p].name : p \in {q \in DOMAIN v : v[q].kind = "param"}}
IsObject(v) == Root(v).kind = "object"
IsRef(v) == Root(v).kind = "param"

(* A tag without a value has the name "": only one with a name is terminal. *)
IsTerminal(node) == node.kind \in Tags /\ node.name # ""

------------------------------------------------------------------------------
(* parseCellYaml *)

(* A tag without a value directly under params takes the key; deeper ones stay. *)
FillNullRefs(params) ==
  [k \in DOMAIN params |->
    IF Root(params[k]).kind \in Tags /\ Root(params[k]).name = ""
    THEN [params[k] EXCEPT ![<<>>] = ParamNode(Root(params[k]).kind, k)] ELSE params[k]]

OwnParams == FillNullRefs(cfgFile.params)

(* assertEnvAndSecretOnlyInParams, of the domain *)
ParseStep ==
  /\ cfgStep = "parse"
  /\ cfgStep' = IF \E node \in Reached(cfgFile.domain, {"object"}) : IsTerminal(node)
                THEN "failed" ELSE "params"
  /\ UNCHANGED <<cfgFile, cfgChain, cfgOrder, cfgEnds, cfgNext, cfgKnown, cfgDomain,
                 cfgInstance, cfgCommand, cfgResolved>>

(* The loop over the keys calls resolve for the first that is not resolved. *)
NextParam ==
  /\ cfgStep = "params" /\ cfgChain = <<>>
  /\ \E i \in DOMAIN cfgFile.order :
       /\ cfgFile.order[i] \notin DOMAIN cfgEnds
       /\ \A j \in 1..(i - 1) : cfgFile.order[j] \in DOMAIN cfgEnds
       /\ cfgChain' = <<cfgFile.order[i]>>
  /\ UNCHANGED <<cfgFile, cfgStep, cfgOrder, cfgEnds, cfgNext, cfgKnown, cfgDomain,
                 cfgInstance, cfgCommand, cfgResolved>>

(* The key whose call is the innermost, and the key that it refers to *)
Current == Last(cfgChain)
Target == Root(OwnParams[Current]).name
MustFollow == IsRef(OwnParams[Current]) /\ Target \notin DOMAIN cfgEnds

(* It refers to a key that is not resolved: resolve calls itself, or throws for *)
(* a key that does not exist or whose call is open.                             *)
FollowRef ==
  /\ cfgStep = "params" /\ cfgChain # <<>> /\ MustFollow
  /\ IF Target \in DOMAIN OwnParams \ ToSet(cfgChain)
     THEN cfgChain' = Append(cfgChain, Target) /\ UNCHANGED cfgStep
     ELSE cfgStep' = "failed" /\ UNCHANGED cfgChain
  /\ UNCHANGED <<cfgFile, cfgOrder, cfgEnds, cfgNext, cfgKnown, cfgDomain,
                 cfgInstance, cfgCommand, cfgResolved>>

SettleParam ==
  /\ cfgStep = "params" /\ cfgChain # <<>> /\ ~ MustFollow
  /\ cfgEnds' = [k \in DOMAIN cfgEnds \union {Current} |->
                   IF k # Current THEN cfgEnds[k]
                   ELSE IF IsRef(OwnParams[k]) THEN cfgEnds[Target] ELSE OwnParams[k]]
  /\ cfgOrder' = Append(cfgOrder, Current)
  /\ cfgChain' = Front(cfgChain)
  /\ UNCHANGED <<cfgFile, cfgStep, cfgNext, cfgKnown, cfgDomain, cfgInstance, cfgCommand,
                 cfgResolved>>

ParamsResolved ==
  /\ cfgStep = "params" /\ cfgChain = <<>> /\ DOMAIN OwnParams \subseteq DOMAIN cfgEnds
  /\ cfgKnown' = cfgEnds
  /\ cfgStep' = "objects"
  /\ UNCHANGED <<cfgFile, cfgChain, cfgOrder, cfgEnds, cfgNext, cfgDomain, cfgInstance,
                 cfgCommand, cfgResolved>>

DeepResolve(v, known) == WithParams(v, known)

(* The bug of resolving every object against the values before the loop. *)
WriteBackApart(known, k) == [known EXCEPT ![k] = DeepResolve(known[k], cfgEnds)]

(* The loop writes into the map that it resolves with, so a later object sees *)
(* an earlier one resolved, and an earlier one sees a later one as it is.     *)
WriteBack(known, k) == [known EXCEPT ![k] = DeepResolve(known[k], known)]

(* An array is not an object to the loop: it stays as it is. *)
ResolveObject ==
  /\ cfgStep = "objects" /\ cfgNext <= Len(cfgOrder)
  /\ LET k == cfgOrder[cfgNext]
     IN IF ~ IsObject(cfgKnown[k]) THEN cfgNext' = cfgNext + 1 /\ UNCHANGED <<cfgStep, cfgKnown>>
        ELSE IF RefsOf(cfgKnown[k]) \subseteq DOMAIN cfgKnown
          THEN cfgNext' = cfgNext + 1 /\ cfgKnown' = WriteBack(cfgKnown, k) /\ UNCHANGED cfgStep
        ELSE cfgStep' = "failed" /\ UNCHANGED <<cfgNext, cfgKnown>>
  /\ UNCHANGED <<cfgFile, cfgChain, cfgOrder, cfgEnds, cfgDomain, cfgInstance, cfgCommand,
                 cfgResolved>>

(* "host" in a domain: refused, and an error for a string. *)
DomainRefused(domain) == Root(domain).kind = "string" \/ <<"host">> \in DOMAIN domain

(* The whole file once more, the params with it *)
ResolveFile ==
  /\ cfgStep = "objects" /\ cfgNext > Len(cfgOrder)
  /\ LET refs == RefsOf(cfgFile.domain) \union UNION {RefsOf(cfgKnown[k]) : k \in DOMAIN cfgKnown}
     IN IF refs \subseteq DOMAIN cfgKnown
        THEN /\ cfgKnown' = [k \in DOMAIN cfgKnown |-> DeepResolve(cfgKnown[k], cfgKnown)]
             /\ cfgDomain' = DeepResolve(cfgFile.domain, cfgKnown)
             /\ cfgStep' = IF DomainRefused(cfgDomain') THEN "failed" ELSE "override"
        ELSE cfgStep' = "failed" /\ UNCHANGED <<cfgKnown, cfgDomain>>
  /\ UNCHANGED <<cfgFile, cfgChain, cfgOrder, cfgEnds, cfgNext, cfgInstance, cfgCommand,
                 cfgResolved>>

------------------------------------------------------------------------------
(* loadCellConfig: the overrides replace params of the config that is resolved. *)

(* parseInstanceYaml accepts strings, named tags and objects of them; to it a *)
(* !Param is one of those objects.                                            *)
InstanceValid(instance) ==
  \/ instance.keys = {}
  \/ /\ instance.keys = {"params"}
     /\ \A k \in DOMAIN instance.params : \A node \in Reached(instance.params[k], Inner) :
          node.kind \in {"string", "param", "object"} \/ IsTerminal(node)

LoadInstance ==
  /\ cfgStep = "override"
  /\ cfgInstance' \in InstanceFiles \union {NoInstance}
  /\ cfgStep' = IF cfgInstance' = NoInstance \/ InstanceValid(cfgInstance')
                THEN "resolve" ELSE "failed"
  /\ UNCHANGED <<cfgFile, cfgChain, cfgOrder, cfgEnds, cfgNext, cfgKnown, cfgDomain, cfgCommand,
                 cfgResolved>>

Overridden == IF cfgInstance = NoInstance THEN {} ELSE DOMAIN cfgInstance.params
LoadedParams ==
  [k \in DOMAIN cfgKnown \union Overridden |->
     IF k \in Overridden THEN cfgInstance.params[k] ELSE cfgKnown[k]]

------------------------------------------------------------------------------
(* resolveConfig *)

(* The value of a param in the environment of the cell; a param that is an object *)
(* has none.  The command ends where a tag has no value and may not go without.   *)
ParamEnv(command, key, node) ==
  IF node.kind = "string" THEN node.name
  ELSE IF node.name \in DOMAIN command.env THEN command.env[node.name]
  ELSE IF command.options.stage = "dev" /\ node.kind = "env" /\ key = "SSO_BASE_URL" THEN ""
  ELSE "placeholder"

HasNoValue(command, key, node) ==
  /\ node.kind \in Tags /\ node.name \notin DOMAIN command.env
  /\ ~ command.options.placeholder
  /\ ~ (command.options.stage = "dev" /\ node.kind = "env" /\ key = "SSO_BASE_URL")

EnvVars(command, params) ==
  [k \in {j \in DOMAIN params : Root(params[j]).kind \in Tags \union {"string"}} |->
    ParamEnv(command, k, Root(params[k]))]

(* The value of a key in the params or else in the .env files (the ?? chains). *)
Lookup(envVars, env, key) ==
  IF key \in DOMAIN envVars THEN envVars[key] ELSE IF key \in DOMAIN env THEN env[key] ELSE ""

(* resolveValueToString looks the name of the tag up, not the key of a param. *)
ValueToString(node, envVars, env) ==
  IF node.kind = "string" THEN node.name
  ELSE IF node.kind \in Tags THEN Lookup(envVars, env, node.name) ELSE ""

OwnSubdomain(command, domain, envVars) ==
  ValueToString(NodeAt(domain, <<"subdomain">>), envVars, command.env)

SubdomainOf(command, domain, envVars) ==
  IF "SUBDOMAIN" \in DOMAIN envVars \union DOMAIN command.env
  THEN Lookup(envVars, command.env, "SUBDOMAIN") ELSE OwnSubdomain(command, domain, envVars)

(* The host as the pair of its subdomain and its root; <<>> for no host.  In dev *)
(* the subdomain of the config alone counts, and the root is the devbox's.       *)
HostOf(command, domain, envVars) ==
  LET root == Lookup(envVars, command.env, "DOMAIN_ROOT")
      own == OwnSubdomain(command, domain, envVars)
  IN IF command.options.stage = "dev"
       THEN IF command.options.devbox /\ own # "" THEN <<own, "devbox">> ELSE <<>>
     ELSE IF root = "" THEN <<>> ELSE <<SubdomainOf(command, domain, envVars), root>>

(* dns is an object with a provider, or names one itself. *)
ProviderOf(command, domain, envVars) ==
  IF <<"dns", "provider">> \in DOMAIN domain
  THEN LET node == domain[<<"dns", "provider">>] IN IF node.kind = "string" THEN node.name ELSE ""
  ELSE LET node == NodeAt(domain, <<"dns">>)
       IN IF node.kind = "secret" THEN "" ELSE ValueToString(node, envVars, command.env)

(* The api token: the one of the domain hides the top-level one even when the *)
(* environment does not define it, and only a !Secret has a value.            *)
TokenOf(command, domain) ==
  LET own == NodeAt(domain, IF <<"dns", "provider">> \in DOMAIN domain THEN <<"dns", "apiToken">>
                            ELSE <<"cloudflare", "apiToken">>)
      name == IF own.kind = "null" THEN cfgFile.cloudflare
              ELSE IF own.kind = "secret" THEN own.name ELSE ""
  IN IF name \in DOMAIN command.env THEN command.env[name]
     ELSE IF command.options.placeholder THEN "placeholder" ELSE ""

(* Why resolveConfig throws for the domain; "" when it does not. *)
DomainError(command, domain, envVars) ==
  LET provider == ProviderOf(command, domain, envVars)
  IN IF SubdomainOf(command, domain, envVars) = "" THEN "subdomain"
     ELSE IF command.options.stage = "cloud" /\ HostOf(command, domain, envVars) = <<>> THEN "root"
     ELSE IF /\ provider = "route53" /\ <<"dns", "provider">> \in DOMAIN domain
             /\ NodeAt(domain, <<"dns", "zone">>).kind = "null" THEN "zone"
     ELSE IF provider = "cloudflare" /\ TokenOf(command, domain) = "" THEN "token" ELSE ""

Unresolved(why) == [ok |-> FALSE, why |-> why, env |-> <<>>, host |-> <<>>, base |-> <<>>]

(* A platform gives its cells the address of its sso unless they have one. *)
WithSso(command, envVars) ==
  IF command.options.platform /\ Lookup(envVars, <<>>, "SSO_BASE_URL") = ""
  THEN [k \in DOMAIN envVars \union {"SSO_BASE_URL"} |->
          IF k = "SSO_BASE_URL" THEN "origin/sso" ELSE envVars[k]]
  ELSE envVars

(* A cell of a platform has the origin of the platform and its own prefix. *)
ResolveConfig(command, params, domain) ==
  LET envVars == EnvVars(command, params)
      hasDomain == Root(domain).kind # "null"
      why == IF hasDomain THEN DomainError(command, domain, envVars) ELSE ""
      host == IF hasDomain THEN HostOf(command, domain, envVars) ELSE <<>>
  IN IF \E k \in DOMAIN params : HasNoValue(command, k, Root(params[k])) THEN Unresolved("params")
     ELSE IF why # "" THEN Unresolved(why)
     ELSE [ok |-> TRUE, why |-> "", host |-> host, env |-> WithSso(command, envVars),
           base |-> IF command.options.stage = "test" THEN <<>>
                    ELSE IF command.options.platform THEN <<"origin", "prefix">> ELSE host]

CellCommands == [env : Environments, options : CommandOptions]

ResolveStep ==
  /\ cfgStep = "resolve"
  /\ cfgCommand' \in CellCommands
  /\ cfgResolved' = ResolveConfig(cfgCommand', LoadedParams, cfgDomain)
  /\ cfgStep' = IF cfgResolved'.ok THEN "done" ELSE "failed"
  /\ UNCHANGED <<cfgFile, cfgChain, cfgOrder, cfgEnds, cfgNext, cfgKnown, cfgDomain, cfgInstance>>

------------------------------------------------------------------------------
(* One command: load the config, then resolve it for a stage. *)

ConfigRests ==
  /\ cfgChain = <<>> /\ cfgOrder = <<>> /\ cfgEnds = <<>> /\ cfgNext = 1 /\ cfgKnown = <<>>
  /\ cfgInstance = NoInstance /\ cfgCommand = <<>> /\ cfgResolved = Unresolved("")

ConfigInit ==
  /\ cfgFile \in CellFiles /\ cfgDomain = cfgFile.domain
  /\ cfgStep = "parse"
  /\ ConfigRests

ConfigNext ==
  \/ ParseStep \/ NextParam \/ FollowRef \/ SettleParam \/ ParamsResolved
  \/ ResolveObject \/ ResolveFile \/ LoadInstance \/ ResolveStep

ConfigTypeOK ==
  /\ cfgFile \in CellFiles
  /\ cfgStep \in {"parse", "params", "objects", "override", "resolve", "done", "failed"}
  /\ cfgChain \in Seq(DOMAIN OwnParams) /\ cfgOrder \in Seq(DOMAIN OwnParams)
  /\ DOMAIN cfgEnds = ToSet(cfgOrder) /\ DOMAIN cfgKnown \subseteq DOMAIN cfgEnds
  /\ \A k \in DOMAIN cfgEnds : IsValue(cfgEnds[k])
  /\ \A k \in DOMAIN cfgKnown : IsValue(cfgKnown[k])
  /\ IsValue(cfgDomain)
  /\ cfgNext \in 1..(Len(cfgOrder) + 1)
  /\ cfgInstance \in InstanceFiles \union {NoInstance}
  /\ cfgStep = "done" => cfgCommand \in CellCommands /\ cfgResolved.ok

------------------------------------------------------------------------------
(* What a value says, with the params that it refers to in the places of the !Param. *)
Means(got, value, params) ==
  LET refs == {p \in DOMAIN value : value[p].kind = "param"}
      of(p) == params[value[p].name]
  IN /\ \A p \in DOMAIN value \ refs : p \in DOMAIN got /\ got[p] = value[p]
     /\ \A p \in refs : \A r \in DOMAIN of(p) : p \o r \in DOMAIN got /\ got[p \o r] = of(p)[r]
     /\ \A s \in DOMAIN got :
          s \in DOMAIN value \ refs \/ \E p \in refs : \E r \in DOMAIN of(p) : s = p \o r

(* What has references and is referred to is an object, and a param that is an *)
(* object refers only to such as were resolved before it.                      *)
RefersBack(v, i) ==
  \A r \in RefsOf(v) : RefsOf(cfgEnds[r]) # {} =>
    IsObject(cfgEnds[r]) /\ \E j \in 1..(i - 1) : cfgOrder[j] = r
Ordered ==
  /\ \A i \in DOMAIN cfgOrder :
       LET v == cfgEnds[cfgOrder[i]]
       IN RefersBack(v, IF IsObject(v) THEN i ELSE Len(cfgOrder) + 1)
  /\ RefersBack(cfgFile.domain, Len(cfgOrder) + 1)

(* A config that loads has the meaning of its file: if the objects among its params     *)
(* refer backwards, every param and the domain are what the file says with each !Param  *)
(* replaced by what the param of that name is in the end, and no !Param is left.        *)
(* A param that the domain uses then has, in cloud, the same value in the host as in    *)
(* the environment of the cell, unless SUBDOMAIN, an override or a param with the name  *)
(* of its variable hides it.                                                            *)
ConfigResolves ==
  cfgStep \in {"override", "resolve", "done"} =>
    LET subdomain == NodeAt(cfgFile.domain, <<"subdomain">>)
        k == subdomain.name
    IN /\ Ordered =>
            /\ \A key \in DOMAIN OwnParams :
                 Means(cfgKnown[key], OwnParams[key], cfgKnown) /\ RefsOf(cfgKnown[key]) = {}
            /\ Means(cfgDomain, cfgFile.domain, cfgKnown) /\ RefsOf(cfgDomain) = {}
       /\ cfgStep = "done" /\ cfgCommand.options.stage = "cloud" /\ subdomain.kind = "param" =>
            \/ cfgResolved.host[1] = cfgResolved.env[k]
            \/ k \in Overridden \/ Root(cfgEnds[k]).name \in DOMAIN cfgResolved.env
            \/ "SUBDOMAIN" \in DOMAIN cfgResolved.env \union DOMAIN cfgCommand.env
=============================================================================
