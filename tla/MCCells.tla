------------------------------ MODULE MCCells ------------------------------
(***************************************************************************)
(* The components beside the drive's core and the agent, for one run.      *)
(* They share no variable, so a behaviour is of one of them: part names    *)
(* it, and the others stay in one initial state.  The reachable states are *)
(* the union of those of the components, and not their product.            *)
(***************************************************************************)
EXTENDS Grants, SsoSession, Gateway, DriveMcp, RealmRoot, Explorer, CoreTree, NodeCodec,
        Deploy, Routes, CellConfig, StackConfig, Templates,
        DevTunnel, LocalServices, Devbox, Domains

(* Paths of the drive's MCP tools: two names, one level of directories. *)
mcEntryNames == {"a", "b"}
mcPaths == <<<<"a">>, <<"b">>, <<"b", "a">>, <<"b", "b">>, <<"a", "a">>, <<"a", "b">>>>
Tree(entries) == (<<>> :> "dict") @@ entries
mcTrees ==
  {Tree(<<"a">> :> "f" @@ <<"b">> :> "g"),
   Tree(<<"a">> :> "dict" @@ <<"a", "a">> :> "f" @@ <<"a", "b">> :> "g")}
mcGlobs ==
  {[parent |-> <<>>, leaves |-> {"a"}], [parent |-> <<>>, leaves |-> {"a", "b"}],
   [parent |-> <<"a">>, leaves |-> {"a", "b"}], [parent |-> <<"a">>, leaves |-> {"b"}]}
mcTemplates ==
  {[dir |-> <<>>, name |-> <<"b">>], [dir |-> <<"a">>, name |-> <<"b">>],
   [dir |-> <<>>, name |-> <<>>], [dir |-> <<"b">>, name |-> <<>>]}
Entry(from, to) == [from |-> from, to |-> to]
mcSpecs ==
  {<<Entry(<<"a">>, <<"b">>)>>,
   <<Entry(<<"a">>, <<"b", "a">>), Entry(<<"b">>, <<"a">>)>>,
   <<Entry(<<"a">>, <<"b">>), Entry(<<"b">>, <<"b", "a">>)>>,
   <<Entry(<<"a">>, <<"a">>), Entry(<<"b">>, <<"b">>), Entry(<<"a", "b">>, <<"a", "a">>)>>,
   <<Entry(<<"a", "a">>, <<"b", "a">>), Entry(<<"a", "b">>, <<"b", "b">>)>>}
mcMain == "main"
mcChild == "child"
mcFiles == {"f", "g"}
mcDict == "dict"

(* Two servers of the gateway, one of them a drive; two cells of a stack, with *)
(* the routes that their cell.yaml declare.                                    *)
mcServers == {"drive", "artist"}
mcDrives == {"drive"}
mcSegments == {"", "api", "apis", "mcp", "sw", "sw.js", "drive", "artist", ".wk"}
mcTextual == {<<"apis", "api">>, <<"sw.js", "sw">>}
mcFirst == "artist"
mcDefault == "drive"
mcWellKnown == ".wk"
mcDotted == {"sw.js", ".wk"}
mcRoutes ==
  [m \in Mounts |->
    {[path |-> <<"api">>, match |-> "prefix"], [path |-> <<"mcp">>, match |-> "exact"]}
      \union (IF m = "drive" THEN {[path |-> <<"api", "mcp">>, match |-> "exact"]} ELSE {})]
mcModules == [m \in Mounts |-> IF m = "artist" THEN {<<"sw">>, <<"sw.js">>} ELSE {}]
mcStrips == [m \in Mounts |-> IF m = "drive" THEN {"api", "mcp"} ELSE {"api"}]

(* The drive's page: one name of a directory; a file, and a folder of one. *)
mcFolders == {"t"}
mcUploads == {{<<"g">>}, {<<"t", "x">>}}
mcTargets == {<<"t", "g">>}
mcStart == {<<"g">>, <<"t">>}

(* The core's nodes: dictionaries of up to three names, also equal ones, sets   *)
(* of up to three children, and buffers of up to five bytes that something else *)
(* has written.                                                                 *)
mcHash == {<<0>>, <<1>>, <<2>>}
mcNames == {<<>>, <<0>>, <<1>>, <<1, 0>>, <<2>>, <<2, 1>>, <<2, 2, 1>>}
mcTypes == {<<>>, <<1>>, <<1, 1>>, <<1, 1, 1>>, <<0>>, <<0, 1>>, <<1, 0>>, <<2>>, <<2, 1>>}
mcNodeInputs ==
  UNION {{[kind |-> "set", children |-> c] : c \in [1..n -> mcHash]} : n \in 0..3}
  \union UNION {{[kind |-> "dict", names |-> m, children |-> c] :
                    m \in [1..n -> mcNames], c \in [1..n -> mcHash]} : n \in 0..3}
  \union {[kind |-> "successor", children |-> c, data |-> d] :
            c \in UNION {[1..n -> mcHash] : n \in 0..2}, d \in UNION {[1..n -> 0..3] : n \in 0..2}}
  \union {[kind |-> "file", children |-> c, data |-> d, size |-> s, type |-> t] :
            c \in UNION {[1..n -> mcHash] : n \in 0..1}, d \in UNION {[1..n -> 0..3] : n \in 0..1},
            s \in {0, 3, 4, 15}, t \in mcTypes}
mcReceived ==
  {b \in [kind : Kinds, reserved : 0..1, size : 0..6, count : 0..2,
          body : UNION {[1..n -> 0..3] : n \in 0..5}] :
     b.size \in {Len(b.body), Len(b.body) - b.count}}

(* cell.yaml: three keys in either order, each a value, a tag, an object or an array *)
(* that holds one, and a domain; an instance file that overrides a key or is none.   *)
Str(v) == Leaf("string", v)
Ref(k) == Leaf("param", k)
FieldOf(k, v) == [p \in {<<k>> \o q : q \in DOMAIN v} |-> v[Tail(p)]]
InnerOf(kind, fields) == (<<>> :> ParamNode(kind, "")) @@ fields
Obj(k, v) == InnerOf("object", FieldOf(k, v))
Obj2(k, v, other, w) == InnerOf("object", FieldOf(k, v) @@ FieldOf(other, w))
Cloudflare(n) == Obj2("provider", Str("cloudflare"), "apiToken", n)
mcKeyNodes ==
  {Str("v"), Leaf("env", ""), Leaf("env", "E"), Ref("B"), Ref("D"),
   Obj("x", Ref("B")), Obj("x", Obj("y", Ref("C")))}
mcDomains ==
  {Leaf("null", ""), Obj("subdomain", Str("s")), Obj("subdomain", Ref("A")),
   Obj("subdomain", Leaf("env", "E")), Ref("A"),
   Obj2("subdomain", Ref("B"), "host", Str("h")), Obj2("subdomain", Str("s"), "dns", Ref("A")),
   Obj2("subdomain", Ref("A"), "dns", Obj("provider", Str("route53")))}
mcCellFiles ==
  {[order |-> o, params |-> ("A" :> a @@ "B" :> b @@ "C" :> c), domain |-> d,
    cloudflare |-> "T"] :
     o \in {<<"A", "B", "C">>, <<"C", "B", "A">>},
     a \in mcKeyNodes \union {Cloudflare(Leaf("secret", "E"))}, b \in mcKeyNodes \union {Ref("A")},
     c \in {Str("w"), Obj("x", Ref("A")), InnerOf("array", FieldOf("0", Ref("A")))}, d \in mcDomains}
mcInstances == {[keys |-> {"params"}, params |-> "A" :> Str("over")]}
mcEnvironments == {"DOMAIN_ROOT" :> "r", "DOMAIN_ROOT" :> "r" @@ "E" :> "e" @@ "T" :> "t"}
Options(stage, placeholder, platform, devbox) ==
  [stage |-> stage, placeholder |-> placeholder, platform |-> platform, devbox |-> devbox]
mcOptions ==
  {Options("cloud", FALSE, FALSE, FALSE), Options("cloud", TRUE, TRUE, FALSE),
   Options("dev", FALSE, FALSE, TRUE), Options("test", TRUE, FALSE, FALSE)}

(* otavia.yaml: two parameters, two mounts, trees of one level. *)
mcLeaves ==
  {ParamNode("string", "v"), ParamNode("env", "E"), ParamNode("secret", "F"), ParamNode("param", "P"),
   ParamNode("param", "Q")}
mcTrees3 ==
  {<<>> :> l : l \in mcLeaves}
  \union {<<>> :> ParamNode(kind, "") @@ <<"x">> :> l : kind \in Inner, l \in mcLeaves}
mcParamKeys ==
  {"x", "y", "0", "subdomain", "host", "dns", "provider", "apiToken"}
mcStacks ==
  {[params |-> "P" :> p @@ "Q" :> q, defaultCell |-> d, callback |-> "",
    cells |-> <<[mount |-> "a", params |-> "P" :> c], [mount |-> "b", params |-> <<>>]>>] :
      p \in mcTrees3, q \in {Leaf("string", "w"), Leaf("env", "E")}, c \in mcTrees3,
      d \in {"a", "z"}}
mcDeclarations == {{"P"}, {"P", "R"}}
mcStackEnvs == {"E" :> "e", "E" :> "e" @@ "F" :> "f"}

(* Stacks of up to two cells, whose names meet in Pascal case: those of two cells, *)
(* two entries of one, and an entry with the function of the distribution.          *)
mcPascal ==
  "a" :> <<"A">> @@ "a-b" :> <<"A", "B">> @@ "api" :> <<"Api">> @@ "b-api" :> <<"B", "Api">>
    @@ "b_api" :> <<"B", "Api">> @@ "frontend" :> <<"Frontend">> @@ "t" :> <<"T">>
    @@ "spa" :> <<"Spa">> @@ "rewrite" :> <<"Rewrite">>
mcStackCells ==
  [name : {"a", "a-b"}, tables : SUBSET {"t"}, buckets : {{}, {"frontend"}},
   entries : {{}, {"api"}, {"api", "b-api"}}, vpc : {FALSE}, nat : {FALSE},
   certificate : {FALSE}, zone : BOOLEAN]
  \union [name : {"a"}, tables : {{"t"}}, buckets : {{}}, entries : {{"api"}}, vpc : BOOLEAN,
          nat : BOOLEAN, certificate : BOOLEAN, zone : BOOLEAN]
  \union [name : {"spa"}, tables : {{}}, buckets : {{}},
          entries : {{"api"}, {"rewrite"}, {"b-api", "b_api"}}, vpc : {FALSE}, nat : {FALSE},
          certificate : {FALSE}, zone : {FALSE}]

(* Machines, cells of a devbox, and deploys: "app" and "web" are hosts of one  *)
(* zone with "app-dev" and "web-old", whose first labels begin so.            *)
mcMachineNames == {"n1", "n2"}
mcRoots == {"r1", "r2"}
mcBoxHost == [c \in BoxCells |-> IF c = CHOOSE x \in BoxCells : TRUE THEN "h1" ELSE "h2"]
mcBoxPort == [c \in BoxCells |-> IF c = CHOOSE x \in BoxCells : TRUE THEN "p1" ELSE "p2"]
mcDeploys == {"stack", "cell", "sibling", "kept", "dev"}
mcTools ==
  "stack" :> "otavia" @@ "cell" :> "cloudflare" @@ "sibling" :> "cloudflare"
    @@ "kept" :> "route53" @@ "dev" :> "dev"
mcHosts ==
  "stack" :> "app" @@ "cell" :> "web" @@ "sibling" :> "app"
    @@ "kept" :> "api" @@ "dev" :> "app-dev"
mcRecords ==
  {ZoneRecord(1, ZoneName("app-dev", "host"), NoWriter),
   ZoneRecord(2, ZoneName("web-old", "host"), NoWriter),
   ZoneRecord(3, ZoneName("api", "address"), NoWriter)}
mcLabels == {<<"app", "app-dev">>, <<"web", "web-old">>}

VARIABLE part

serverVars == <<grantVars, ssoVars, gatewayVars>>
contentVars == <<mcpVars, realmVars, explorerVars, treeVars, codecVars>>
stackCommandVars == <<deployVars, routeVars, configVars, stackVars, templateVars>>
machineVars == <<tunnelVars, localVars, devboxVars, domainVars>>
cellVars == <<part, serverVars, contentVars, stackCommandVars, machineVars>>

Parts ==
  {"grants", "sso", "gateway", "mcp", "realm", "explorer", "coretree", "codec",
   "deploy", "routes", "config", "stack", "templates", "tunnel", "local", "devbox", "domains"}

(* What a component may start in any of several ways is fixed while it rests. *)
Resting ==
  /\ part # "mcp" => mopen = {McpMain} /\ mroot = [r \in McpRecords |-> NoRoot]
  /\ part # "realm" => rows = {} /\ realmRow = NoBranch
  /\ part # "deploy" =>
       /\ command = "cell" /\ alias = "free"
       /\ bucketOf = [d \in Deployers |-> CHOOSE n \in Buckets : TRUE]

InputsInit ==
  /\ IF part = "config" THEN ConfigInit
     ELSE ConfigRests /\ cfgFile = <<>> /\ cfgDomain = <<>> /\ cfgStep = "rests"
  /\ IF part = "stack" THEN StackConfigInit
     ELSE stkInput = NoInstance /\ stkStep = "rests" /\ stkEnv = <<>>
  /\ IF part = "templates" THEN TemplatesInit
     ELSE TemplatesRest /\ tplKind = "rests" /\ tplCells = <<>>

CellsInit ==
  /\ part \in Parts
  /\ Resting
  /\ GrantsInit /\ SsoInit /\ GatewayInit
  /\ McpInit /\ RealmInit /\ ExplorerInit /\ CoreTreeInit /\ CodecInit
  /\ DeployInit /\ RoutesInit
  /\ TunnelInit
  /\ LocalInit /\ DevboxInit /\ DomainsInit
  /\ InputsInit

ServersNext ==
  \/ /\ part = "grants" /\ GrantsNext /\ UNCHANGED <<ssoVars, gatewayVars>>
  \/ /\ part = "sso" /\ SsoNext /\ UNCHANGED <<grantVars, gatewayVars>>
  \/ /\ part = "gateway" /\ GatewayNext /\ UNCHANGED <<grantVars, ssoVars>>

ContentNext ==
  \/ /\ part = "mcp" /\ McpNext
     /\ UNCHANGED <<realmVars, explorerVars, treeVars, codecVars>>
  \/ /\ part = "realm" /\ RealmNext
     /\ UNCHANGED <<mcpVars, explorerVars, treeVars, codecVars>>
  \/ /\ part = "explorer" /\ ExplorerNext
     /\ UNCHANGED <<mcpVars, realmVars, treeVars, codecVars>>
  \/ /\ part = "coretree" /\ CoreTreeNext
     /\ UNCHANGED <<mcpVars, realmVars, explorerVars, codecVars>>
  \/ /\ part = "codec" /\ CodecNext
     /\ UNCHANGED <<mcpVars, realmVars, explorerVars, treeVars>>

StackCommandNext ==
  \/ /\ part = "deploy" /\ DeployNext
     /\ UNCHANGED <<routeVars, configVars, stackVars, templateVars>>
  \/ /\ part = "routes" /\ RoutesNext
     /\ UNCHANGED <<deployVars, configVars, stackVars, templateVars>>
  \/ /\ part = "config" /\ ConfigNext
     /\ UNCHANGED <<deployVars, routeVars, stackVars, templateVars>>
  \/ /\ part = "stack" /\ StackConfigNext
     /\ UNCHANGED <<deployVars, routeVars, configVars, templateVars>>
  \/ /\ part = "templates" /\ TemplatesNext
     /\ UNCHANGED <<deployVars, routeVars, configVars, stackVars>>

MachineNext ==
  \/ /\ part = "tunnel" /\ TunnelNext /\ UNCHANGED <<localVars, devboxVars, domainVars>>
  \/ /\ part = "local" /\ LocalNext /\ UNCHANGED <<tunnelVars, devboxVars, domainVars>>
  \/ /\ part = "devbox" /\ DevboxNext /\ UNCHANGED <<tunnelVars, localVars, domainVars>>
  \/ /\ part = "domains" /\ DomainsNext /\ UNCHANGED <<tunnelVars, localVars, devboxVars>>

CellsNext ==
  /\ UNCHANGED part
  /\ \/ ServersNext /\ UNCHANGED <<contentVars, stackCommandVars, machineVars>>
     \/ ContentNext /\ UNCHANGED <<serverVars, stackCommandVars, machineVars>>
     \/ StackCommandNext /\ UNCHANGED <<serverVars, contentVars, machineVars>>
     \/ MachineNext /\ UNCHANGED <<serverVars, contentVars, stackCommandVars>>

CellsSpec == CellsInit /\ [][CellsNext]_cellVars

(* The variables of the component that runs have their types; those of the *)
(* others keep the initial values that their own behaviours start from.    *)
CellsTypeOK ==
  /\ part \in Parts
  /\ part = "grants" => GrantsTypeOK
  /\ part = "sso" => SsoTypeOK
  /\ part = "gateway" => GatewayTypeOK
  /\ part = "mcp" => McpTypeOK
  /\ part = "realm" => RealmTypeOK
  /\ part = "explorer" => ExplorerTypeOK
  /\ part = "coretree" => CoreTreeTypeOK
  /\ part = "codec" => CodecTypeOK
  /\ part = "deploy" => DeployTypeOK
  /\ part = "routes" => RoutesTypeOK
  /\ part = "config" => ConfigTypeOK
  /\ part = "stack" => StackConfigTypeOK
  /\ part = "templates" => TemplatesTypeOK
  /\ part = "tunnel" => TunnelTypeOK
  /\ part = "local" => LocalTypeOK
  /\ part = "devbox" => DevboxTypeOK
  /\ part = "domains" => DomainsTypeOK
=============================================================================
