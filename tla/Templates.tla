----------------------------- MODULE Templates -----------------------------
(***************************************************************************)
(* The CloudFormation templates: of one cell and of a platform of cells    *)
(* (apps/cell-cli/src/generators) and of an otavia stack                   *)
(* (apps/otavia/src/deploy).  A resource is reduced to what a deployment   *)
(* of the template stands or falls with: its logical id, the ids that its  *)
(* Ref and Fn::GetAtt name (refs), the ids inside its Fn::Sub strings and  *)
(* DependsOn (subs), and the zip of a function (code).  A fragment is a    *)
(* function from ids to these.                                             *)
(***************************************************************************)
EXTENDS Naturals, Sequences, SequencesExt

CONSTANTS
  StackCells,    \* cells: name, tables, buckets, entries of the backend (none: no backend),
                 \* whether they have a vpc, a nat, a certificate and a hosted zone
  Pascal,        \* toPascalCase of the names of cells, tables, buckets and entries, as words
  MaxStack       \* how many cells a stack has at most

ASSUME TemplatesAssumption ==
  /\ MaxStack \in Nat
  /\ \A n \in DOMAIN Pascal : Pascal[n] \in Seq(STRING)
  /\ \A c \in StackCells : {c.name} \union c.entries \subseteq DOMAIN Pascal

VARIABLES
  tplKind,       \* "cell", "platform" or "otavia"
  tplCells,      \* its cells
  tplNext,       \* the place of the cell that comes next
  tplStep,       \* "cells" or "done"
  tplOut         \* the resources and the outputs so far, by their names

templateVars == <<tplKind, tplCells, tplNext, tplStep, tplOut>>

Kinds3 == {"cell", "platform", "otavia"}
NoFragment == <<>>

(* A logical id is words put together and what the thing is; an output has the *)
(* id of what it gives out.                                                    *)
Id(words, what) == [words |-> words, what |-> what, section |-> "Resources"]
FixedId(what) == Id(<<>>, what)
OutputOf(id) == [id EXCEPT !.section = "Outputs"]
GivenBy(id) == [id EXCEPT !.section = "Resources"]

FrontendBucket == Id(<<"Frontend">>, "Bucket")
SpaRewriteFunction == Id(<<"Spa", "Rewrite">>, "Function")

Resource(refs, subs) == [refs |-> refs, subs |-> subs, code |-> <<>>]
WithZip(resource, zip) == [refs |-> resource.refs, subs |-> resource.subs, code |-> zip]

(* Object.assign of one fragment to another is ++, the later one to the left: of *)
(* two resources with one id it stays.  Merged is that of any number of them.    *)
One(id, refs, subs) == [x \in {id} |-> Resource(refs, subs)]
Function(id, refs, zip) == [x \in {id} |-> WithZip(Resource(refs, {}), zip)]
f ++ g == [x \in DOMAIN f \union DOMAIN g |-> IF x \in DOMAIN f THEN f[x] ELSE g[x]]
Merged(fragments) ==
  [id \in UNION {DOMAIN f : f \in fragments} |->
    (CHOOSE f \in fragments : id \in DOMAIN f)[id]]

(* A table of ids without words and of those that they refer to. *)
Plain(table) ==
  [id \in {FixedId(w) : w \in DOMAIN table} |->
    Resource({FixedId(w) : w \in table[id.what]}, {})]

OutputsOf(ids) == [o \in {OutputOf(id) : id \in ids} |-> Resource({GivenBy(o)}, {})]

(* Tables or buckets, and their outputs *)
Storing(ids) == [id \in ids |-> Resource({}, {})] ++ OutputsOf(ids)

TableIds(cell) == {Id(Pascal[t], "Table") : t \in cell.tables}
BucketIds(cell) == {Id(Pascal[b], "Bucket") : b \in cell.buckets}
FunctionId(words) == Id(words, "Function")

(* The words of an entry in the ids of a stack *)
EntryWords(cell, entry) == Pascal[cell.name] \o Pascal[entry]
PrefixedId(prefix, id) == [id EXCEPT !.words = prefix \o @]
Prefixed(prefix, ids) == {PrefixedId(prefix, id) : id \in ids}

------------------------------------------------------------------------------
(* The generators of cell-cli: their ids have no prefix. *)

PrivateNetwork ==
  LET vpc == {"LambdaVpc"}
  IN Plain([LambdaVpc |-> {}, PrivateSubnetA |-> vpc, PrivateSubnetB |-> vpc,
            PrivateRouteTable |-> vpc, LambdaSecurityGroup |-> vpc,
            PrivateSubnetARouteTableAssociation |-> {"PrivateSubnetA", "PrivateRouteTable"},
            PrivateSubnetBRouteTableAssociation |-> {"PrivateSubnetB", "PrivateRouteTable"}])

PublicNetwork ==
  LET vpc == {"LambdaVpc"}
  IN Plain([PublicSubnet |-> vpc, InternetGateway |-> {}, PublicRouteTable |-> vpc,
            InternetGatewayAttachment |-> {"LambdaVpc", "InternetGateway"},
            PublicSubnetRouteTableAssociation |-> {"PublicSubnet", "PublicRouteTable"},
            NatGatewayEip |-> {}, NatGateway |-> {"NatGatewayEip", "PublicSubnet"}])

NatAccess ==
  One(Id(<<"Public">>, "Route"), {FixedId("PublicRouteTable"), FixedId("InternetGateway")},
      {FixedId("InternetGatewayAttachment")})
    ++ One(Id(<<"Private">>, "Route"), {FixedId("PrivateRouteTable"), FixedId("NatGateway")}, {})
    ++ OutputsOf({FixedId("NatGatewayEip")})

(* Where a function of the cell runs *)
FunctionNetwork(cell) ==
  IF cell.vpc THEN {FixedId("PrivateSubnetA"), FixedId("PrivateSubnetB"),
                    FixedId("LambdaSecurityGroup")}
  ELSE {}

GenerateNetwork(cell) ==
  IF ~ cell.vpc THEN NoFragment
  ELSE (IF cell.nat THEN NatAccess ++ PublicNetwork ELSE NoFragment)
         ++ OutputsOf({FixedId("LambdaVpc")} \union FunctionNetwork(cell)) ++ PrivateNetwork

GenerateDynamoDB(cell) == Storing(TableIds(cell))

GenerateS3(cell) == Storing(BucketIds(cell) \union {FrontendBucket})

(* One role for all functions of the cell. *)
GenerateLambda(cell) ==
  LET data == TableIds(cell) \union BucketIds(cell)
      functions == {Function(FunctionId(Pascal[e]),
                             FunctionNetwork(cell) \union {FixedId("LambdaExecutionRole")}, <<e>>) :
                      e \in cell.entries}
  IN IF cell.entries = {} THEN NoFragment
     ELSE One(FixedId("LambdaExecutionRole"), data, data \union {FrontendBucket})
            ++ Merged(functions)

(* An integration, a route and a permission of one entry. *)
EntryApi(api, words, function) ==
  One(Id(words, "Integration"), {api, function}, {})
    ++ One(Id(words, "Route"), {api}, {Id(words, "Integration")})
    ++ One(Id(words, "LambdaPermission"), {function}, {api})

HttpApi(api, entries) ==
  Merged(entries) ++ One(api, {}, {}) ++ One([api EXCEPT !.what = "HttpApiStage"], {api}, {})
    ++ One(OutputOf(api), {api}, {api})

GenerateApiGateway(cell) ==
  LET api == FixedId("HttpApi")
  IN IF cell.entries = {} THEN NoFragment
     ELSE HttpApi(api, {EntryApi(api, Pascal[e], FunctionId(Pascal[e])) : e \in cell.entries})

(* A distribution over the bucket and the apis; a certificate of its own when *)
(* the zone is known and none is given.                                       *)
Distribution(apis, certificate, zone) ==
  LET own == zone /\ ~ certificate
      front == FixedId("FrontendCloudFront")
      access == {FixedId("FrontendOAC"), SpaRewriteFunction}
      issued == IF own THEN {FixedId("AcmCertificate")} ELSE {}
  IN [id \in access \union issued |-> Resource({}, {})]
       ++ One(front, {FrontendBucket} \union access \union issued, apis)
       ++ One(FixedId("FrontendBucketPolicy"), {FrontendBucket}, {FrontendBucket, front})
       ++ One(OutputOf(front), {front}, {front})

(* The origin of the api is there whether or not the cell has a backend. *)
GenerateCloudFront(cell) == Distribution({FixedId("HttpApi")}, cell.certificate, cell.zone)

GenerateDomain(cell) ==
  IF cell.zone THEN One(FixedId("DnsRecord"), {FixedId("FrontendCloudFront")}, {})
  ELSE NoFragment

CellTemplate(cell) ==
  GenerateDomain(cell) ++ GenerateCloudFront(cell) ++ GenerateApiGateway(cell)
    ++ GenerateLambda(cell) ++ GenerateS3(cell) ++ GenerateDynamoDB(cell) ++ GenerateNetwork(cell)

------------------------------------------------------------------------------
(* Several cells in one template: the ids of a cell's fragment get its prefix. *)

(* The bug of renaming the resources of a fragment and not the references. *)
PrefixKeys(fragment, prefix) ==
  [n \in Prefixed(prefix, DOMAIN fragment) |->
    fragment[CHOOSE id \in DOMAIN fragment : PrefixedId(prefix, id) = n]]

(* replaceRefsInValue rewrites Ref and Fn::GetAtt to ids of the ref map, those of *)
(* the fragment; the strings of Fn::Sub and DependsOn stay as they are.           *)
PrefixFragment(fragment, prefix) ==
  LET known == DOMAIN fragment
      of(n) == fragment[CHOOSE id \in known : PrefixedId(prefix, id) = n]
  IN [n \in Prefixed(prefix, known) |->
       [of(n) EXCEPT !.refs = Prefixed(prefix, @ \intersect known) \union (@ \ known)]]

WithoutFrontend(fragment) ==
  [id \in DOMAIN fragment \ {FrontendBucket, OutputOf(FrontendBucket)} |-> fragment[id]]

(* A platform cell: the ref map of its functions has the ids of its functions *)
(* and its api alone, and its network is left out.  The zip of each function  *)
(* is set afterwards, on whatever has the id of the function by then.         *)
AddPlatformCell(all, cell) ==
  LET prefix == Pascal[cell.name]
      merged == PrefixFragment(GenerateApiGateway(cell) ++ GenerateLambda(cell), prefix)
                  ++ PrefixFragment(WithoutFrontend(GenerateS3(cell)), prefix)
                  ++ PrefixFragment(GenerateDynamoDB(cell), prefix) ++ all
      Entries(id) == {e \in cell.entries : FunctionId(EntryWords(cell, e)) = id}
  IN [id \in DOMAIN merged |->
       IF Entries(id) = {} THEN merged[id]
       ELSE WithZip(merged[id], <<cell.name, CHOOSE e \in Entries(id) : TRUE>>)]

(* An otavia cell: its functions and its api are generated with the prefix, and *)
(* each function has a role of its own.                                         *)
RoleId(cell, entry) == Id(EntryWords(cell, entry), "LambdaRole")
CellData(cell) == Prefixed(Pascal[cell.name], TableIds(cell) \union BucketIds(cell))

LambdaFragment(cell, entry) ==
  One(RoleId(cell, entry), CellData(cell), CellData(cell))
    ++ Function(FunctionId(EntryWords(cell, entry)), {RoleId(cell, entry)}, <<cell.name, entry>>)

ApiOf(cell) == Id(Pascal[cell.name], "HttpApi")

(* The ids of the api of an entry carry the prefix twice. *)
AddOtaviaCell(all, cell) ==
  LET prefix == Pascal[cell.name]
      apis == {EntryApi(ApiOf(cell), prefix \o EntryWords(cell, e),
                        FunctionId(EntryWords(cell, e))) : e \in cell.entries}
      backend == HttpApi(ApiOf(cell), apis)
                   ++ Merged({LambdaFragment(cell, e) : e \in cell.entries})
  IN (IF cell.entries = {} THEN NoFragment ELSE backend)
       ++ PrefixFragment(Storing(BucketIds(cell)), prefix)
       ++ PrefixFragment(GenerateDynamoDB(cell), prefix) ++ all

ApisOf(cells) == {ApiOf(c) : c \in {d \in ToSet(cells) : d.entries # {}}}

------------------------------------------------------------------------------
(* One command: generate the template of a cell, a platform or a stack. *)

TemplatesRest == tplNext = 1 /\ tplStep = "cells" /\ tplOut = NoFragment

TemplatesInit ==
  /\ tplKind \in Kinds3
  /\ tplCells \in {s \in UNION {[1..n -> StackCells] : n \in 1..MaxStack} :
                     \A i, j \in DOMAIN s : s[i].name = s[j].name => i = j}
  /\ tplKind = "cell" => Len(tplCells) = 1
  /\ TemplatesRest

GenerateTemplate ==
  /\ tplStep = "cells" /\ tplKind = "cell"
  /\ tplOut' = CellTemplate(tplCells[1])
  /\ tplStep' = "done"
  /\ UNCHANGED <<tplKind, tplCells, tplNext>>

AddCell ==
  /\ tplStep = "cells" /\ tplKind # "cell" /\ tplNext <= Len(tplCells)
  /\ tplOut' = IF tplKind = "platform" THEN AddPlatformCell(tplOut, tplCells[tplNext])
               ELSE AddOtaviaCell(tplOut, tplCells[tplNext])
  /\ tplNext' = tplNext + 1
  /\ UNCHANGED <<tplKind, tplCells, tplStep>>

(* After its cells a stack gets the bucket of the frontends and the distribution, *)
(* and a platform the record of its host.                                         *)
AddFrontend ==
  LET first == tplCells[1]
  IN /\ tplStep = "cells" /\ tplKind # "cell" /\ tplNext > Len(tplCells)
     /\ tplOut' = (IF tplKind = "platform" THEN GenerateDomain(first) ELSE NoFragment)
                    ++ Distribution(ApisOf(tplCells), first.certificate, first.zone)
                    ++ Storing({FrontendBucket}) ++ tplOut
     /\ tplStep' = "done"
     /\ UNCHANGED <<tplKind, tplCells, tplNext>>

TemplatesNext == GenerateTemplate \/ AddCell \/ AddFrontend

TemplatesTypeOK ==
  /\ tplKind \in Kinds3 /\ tplStep \in {"cells", "done"}
  /\ \A c \in ToSet(tplCells) : c \in StackCells
  /\ tplNext \in 1..(Len(tplCells) + 1)

------------------------------------------------------------------------------
Named(r) == r.refs \union r.subs

(* Every id that a resource or an output names is a resource of the template. *)
Whole(template) ==
  \A id \in DOMAIN template : \A n \in Named(template[id]) : n \in DOMAIN template /\ n.section = "Resources"

(* Names of the cells of a stack that do not run together to one id: those of two  *)
(* cells, two entries of one cell, or an entry and the function of the distribution. *)
Apart(cells) ==
  /\ \A i, j \in DOMAIN cells : i # j =>
       \A m \in cells[i].tables \union cells[i].buckets \union cells[i].entries,
          n \in cells[j].tables \union cells[j].buckets \union cells[j].entries :
         EntryWords(cells[i], m) # EntryWords(cells[j], n)
  /\ \A c \in ToSet(cells) : \A e \in c.entries :
       /\ FunctionId(EntryWords(c, e)) # SpaRewriteFunction
       /\ \A f \in c.entries : Pascal[e] = Pascal[f] => e = f

(* What a cell with a backend and what a stack generate can be deployed: nothing names *)
(* an id that is not there, and in a stack each entry of each cell runs its own zip    *)
(* with access to the tables and the buckets of its own cell, as long as no two names  *)
(* run together to one id.                                                             *)
TemplateWhole ==
  tplStep = "done" =>
    /\ tplKind = "cell" /\ tplCells[1].entries # {} => Whole(tplOut)
    /\ tplKind = "otavia" => Whole(tplOut)
    /\ tplKind # "cell" /\ Apart(tplCells) =>
         \A c \in ToSet(tplCells) : \A e \in c.entries :
           LET function == tplOut[FunctionId(EntryWords(c, e))]
           IN /\ function.code = <<c.name, e>>
              /\ tplKind = "otavia" =>
                   \E role \in function.refs : tplOut[role].refs = CellData(c)
=============================================================================
