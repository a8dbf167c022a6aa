------------------------------ MODULE Domains ------------------------------
(***************************************************************************)
(* Host names and certificates of the deploys: otavia's Cloudflare steps   *)
(* (deploy/cloudflare-dns.ts), cell-cli's providers (dns/cloudflare-       *)
(* provider.ts, dns/route53-provider.ts) and the CNAME of `cell dev`       *)
(* (local/cloudflare-tunnel-dns.ts), all against one zone and one account. *)
(*                                                                         *)
(* Every write of the zone lists first and then updates what it found or   *)
(* creates; the zone refuses a second record of one name.  The certificate *)
(* of a host is issued once the zone has its validation record.            *)
(*                                                                         *)
(* Bounds: MaxDeploys commands, MaxRefusals calls that fail or come late.  *)
(***************************************************************************)
EXTENDS Naturals, FiniteSets, FiniteSetsExt

CONSTANTS
  DomainDeploys, \* commands, each of a tool and with a host
  DomainTool,    \* "otavia", "cloudflare", "route53" or "dev" of each
  DomainOf,      \* the host of each
  OtherRecords,  \* the records of the zone that none of these has made
  LabelBegins,        \* pairs of hosts: the second begins with the first label of the first
  NoWriter,      \* who has made those
  MaxDeploys, MaxRefusals

VARIABLES
  zone,         \* the records: id, name, and whose distribution or tunnel they lead to
  certs,        \* the certificates of the account: id, host, status
  deploys,      \* the commands: step, certificate, purpose, records listed, stack made
  domained      \* how many commands, and calls that failed or came late, so far

domainVars == <<zone, certs, deploys, domained>>

(* A record's purpose: "check" and "host" are CNAMEs, "address" is Route53's A. *)
DomainHosts == {DomainOf[d] : d \in DomainDeploys} \union {r.name.of : r \in OtherRecords}
ZoneNames == [of : DomainHosts, purpose : {"check", "host", "address"}]
ZoneName(h, purpose) == [of |-> h, purpose |-> purpose]
ZoneRecord(id, name, writer) == [id |-> id, name |-> name, writer |-> writer]
(* The records there are at first, numbered. *)
ASSUME RecordsAssumption ==
  /\ IsFiniteSet(OtherRecords)
  /\ OtherRecords \subseteq
       [id : 1..Cardinality(OtherRecords), name : ZoneNames, writer : {NoWriter}]
  /\ \A r, s \in OtherRecords : r.id = s.id => r = s

(* What "begins with the first label of" implies of hosts, a label having no dot: *)
(* it is transitive, and of two first labels of one host one begins the other.     *)
ASSUME LabelsAssumption ==
  \A h, g, k \in DomainHosts :
    /\ <<h, g>> \in LabelBegins /\ <<g, k>> \in LabelBegins => <<h, k>> \in LabelBegins
    /\ <<h, k>> \in LabelBegins /\ <<g, k>> \in LabelBegins /\ h # g =>
         <<h, g>> \in LabelBegins \/ <<g, h>> \in LabelBegins

NewId == 1 + Max({r.id : r \in zone} \union {0})
NoCert == 0
Unbegun == [at |-> "idle", cert |-> NoCert, purpose |-> "check", seen |-> {},
            stacked |-> FALSE, missed |-> FALSE, lost |-> FALSE]

DomainsInit ==
  /\ zone = OtherRecords
  /\ certs = {}
  /\ deploys = [d \in DomainDeploys |-> Unbegun]
  /\ domained = [begun |-> 0, refused |-> 0]

DeployMoves(d, at) == deploys' = [deploys EXCEPT ![d].at = at]
CallRefused == /\ domained.refused < MaxRefusals
           /\ domained' = [domained EXCEPT !.refused = @ + 1]

(* A command starts.  `cell dev` has no certificate to look for; with Route53 the  *)
(* certificate is CloudFormation's, and the host is checked where describe-stacks   *)
(* does not find the stack: before a first deploy, or where the call fails (blind). *)
FirstStep(d, blind) ==
  CASE DomainTool[d] = "dev" -> "list"
    [] DomainTool[d] = "route53" -> IF deploys[d].stacked /\ ~blind THEN "stack" ELSE "look"
    [] OTHER -> "find"
FirstPurpose(d) == IF DomainTool[d] = "dev" THEN "host" ELSE "check"
BeginDeploy(d) ==
  /\ deploys[d].at \in {"idle", "done", "failed"} /\ domained.begun < MaxDeploys
  /\ \E blind \in BOOLEAN :
       /\ blind => deploys[d].stacked /\ domained.refused < MaxRefusals
       /\ domained' = [begun |-> domained.begun + 1,
                       refused |-> domained.refused + IF blind THEN 1 ELSE 0]
       /\ deploys' = [deploys EXCEPT ![d] =
            [Unbegun EXCEPT !.at = FirstStep(d, blind), !.purpose = FirstPurpose(d),
                            !.stacked = deploys[d].stacked, !.lost = deploys[d].lost]]
  /\ UNCHANGED <<zone, certs>>

(* The certificate: an issued one of this host is used; with any other status, or *)
(* when the list fails, a new one is asked for.                                    *)
IsIssued(c) == c.status = "issued"
UseCertificate(d) ==
  /\ deploys[d].at = "find"
  /\ \E c \in certs : /\ c.host = DomainOf[d] /\ IsIssued(c)
                      /\ deploys' = [deploys EXCEPT ![d].at = "stack", ![d].cert = c.id]
  /\ UNCHANGED <<zone, certs, domained>>
RequestCertificate(d) ==
  LET id == Cardinality(certs) + 1
  IN  /\ deploys[d].at = "find"
      /\ IF \E c \in certs : c.host = DomainOf[d] /\ IsIssued(c) THEN CallRefused ELSE UNCHANGED domained
      /\ certs' = certs \union {[id |-> id, host |-> DomainOf[d], status |-> "pending"]}
      /\ deploys' = [deploys EXCEPT ![d].at = "record", ![d].cert = id]
      /\ UNCHANGED zone

StatusOf(d) == {c.status : c \in {x \in certs : x.id = deploys[d].cert}}

(* The validation record is polled for, and comes or does not come in time; *)
(* cell-cli leaves out one that is validated already.                       *)
ValidationRecord(d) ==
  /\ deploys[d].at = "record"
  /\ \/ DeployMoves(d, "list") /\ UNCHANGED domained
     \/ /\ DomainTool[d] = "cloudflare" /\ StatusOf(d) = {"issued"}
        /\ DeployMoves(d, "wait") /\ UNCHANGED domained
     \/ DeployMoves(d, "failed") /\ CallRefused
  /\ UNCHANGED <<zone, certs>>

(* The upsert: which records of the zone a tool takes for the one of this name. *)
Wanted(d) == ZoneName(DomainOf[d], deploys[d].purpose)
BeginsWith(d, r) ==
  \/ r.name = Wanted(d)
  \/ /\ r.name.purpose = "host" /\ Wanted(d).purpose = "host"
     /\ <<DomainOf[d], r.name.of>> \in LabelBegins
SameRecord(d, r) ==
  IF DomainTool[d] = "otavia" THEN BeginsWith(d, r) ELSE r.name = Wanted(d)

(* What follows a write of the zone: the wait for the certificate, or the end.    *)
(* Without its CNAME an otavia deploy and a `cell dev` warn, a cell deploy fails. *)
Written(d) == IF deploys[d].purpose = "check" THEN "wait" ELSE "done"
WriteRefused(d) ==
  IF deploys[d].purpose = "check" \/ DomainTool[d] = "cloudflare" THEN DeployMoves(d, "failed")
  ELSE deploys' = [deploys EXCEPT ![d].at = "done", ![d].missed = TRUE]

ListRecords(d) ==
  /\ deploys[d].at = "list"
  /\ \/ /\ deploys' = [deploys EXCEPT ![d].at = "write",
                                      ![d].seen = {r \in zone : SameRecord(d, r)}]
        /\ UNCHANGED domained
     \/ WriteRefused(d) /\ CallRefused
  /\ UNCHANGED <<zone, certs>>

(* The validation record of a host is the same for each of its certificates. *)
WriterOf(d) == IF deploys[d].purpose = "check" THEN NoWriter ELSE d
WriteRecord(d, id) ==
  IF \E r \in zone : r.name = Wanted(d) /\ r.id # id
    THEN WriteRefused(d) /\ UNCHANGED zone
    ELSE /\ zone' = {r \in zone : r.id # id} \union {ZoneRecord(id, Wanted(d), WriterOf(d))}
         /\ DeployMoves(d, Written(d))
CreateRecord(d) ==
  /\ deploys[d].at = "write" /\ deploys[d].seen = {}
  /\ WriteRecord(d, NewId)
  /\ UNCHANGED <<certs, domained>>

(* One of the records listed is renamed and led elsewhere; cell-cli's provider *)
(* leaves one that leads there already.                                        *)
LeavesIt(d, r) == DomainTool[d] = "cloudflare" /\ r.writer = WriterOf(d)
UpdateRecord(d) ==
  /\ deploys[d].at = "write"
  /\ \E r \in deploys[d].seen :
       IF LeavesIt(d, r) THEN DeployMoves(d, Written(d)) /\ UNCHANGED zone
       ELSE WriteRecord(d, r.id)
  /\ UNCHANGED <<certs, domained>>

(* Route53, where no stack was found: an address record of the host is removed when *)
(* the developer says yes, whosever it is; a list that fails checks nothing.  Where  *)
(* the stack is there all the same, its own record is lost.                          *)
AddressesOf(d) == {r \in zone : r.name = ZoneName(DomainOf[d], "address")}
LookForConflict(d) ==
  /\ deploys[d].at = "look"
  /\ \/ AddressesOf(d) = {} /\ DeployMoves(d, "stack") /\ UNCHANGED <<zone, domained>>
     \/ AddressesOf(d) # {} /\ DeployMoves(d, "failed") /\ UNCHANGED <<zone, domained>>
     \/ /\ AddressesOf(d) # {} /\ zone' = zone \ AddressesOf(d)
        /\ deploys' = [deploys EXCEPT ![d].at = "stack", ![d].lost = @ \/ deploys[d].stacked]
        /\ UNCHANGED domained
     \/ AddressesOf(d) # {} /\ DeployMoves(d, "stack") /\ CallRefused /\ UNCHANGED zone
  /\ UNCHANGED certs

(* ACM issues a certificate whose validation record is there, or gives it up. *)
Settled(c, status) == certs' = (certs \ {c}) \union {[c EXCEPT !.status = status]}
Issue(c) ==
  /\ c.status = "pending" /\ \E r \in zone : r.name = ZoneName(c.host, "check")
  /\ Settled(c, "issued")
  /\ UNCHANGED <<zone, deploys, domained>>
GiveUpOn(c) ==
  /\ c.status = "pending" /\ CallRefused
  /\ Settled(c, "failed")
  /\ UNCHANGED <<zone, deploys>>

AwaitCertificate(d) ==
  /\ deploys[d].at = "wait"
  /\ \/ StatusOf(d) = {"issued"} /\ DeployMoves(d, "stack") /\ UNCHANGED domained
     \/ StatusOf(d) = {"failed"} /\ DeployMoves(d, "failed") /\ UNCHANGED domained
     \/ StatusOf(d) = {"pending"} /\ DeployMoves(d, "failed") /\ CallRefused
  /\ UNCHANGED <<zone, certs>>

(* The stack with the certificate, which may fail. *)
StackFails(d) ==
  /\ deploys[d].at = "stack" /\ CallRefused
  /\ DeployMoves(d, "failed")
  /\ UNCHANGED <<zone, certs>>

(* A Route53 stack has the record as a resource: its creation is refused where *)
(* there is one, and an update does not look for it.                            *)
DeployAddress(d) ==
  /\ deploys[d].at = "stack" /\ DomainTool[d] = "route53"
  /\ \/ /\ ~deploys[d].stacked /\ AddressesOf(d) # {}
        /\ DeployMoves(d, "failed") /\ UNCHANGED zone
     \/ /\ ~deploys[d].stacked /\ AddressesOf(d) = {}
        /\ zone' = zone \union {ZoneRecord(NewId, ZoneName(DomainOf[d], "address"), d)}
        /\ deploys' = [deploys EXCEPT ![d].at = "done", ![d].stacked = TRUE]
     \/ deploys[d].stacked /\ DeployMoves(d, "done") /\ UNCHANGED zone
  /\ UNCHANGED <<certs, domained>>

(* The others go on to the record of the distribution; a cell deploy that cannot *)
(* ask for the distribution's name leaves the record out without a word.          *)
DeployDistribution(d) ==
  /\ deploys[d].at = "stack" /\ DomainTool[d] # "route53"
  /\ \/ /\ deploys' = [deploys EXCEPT ![d].at = "list", ![d].purpose = "host"]
        /\ UNCHANGED domained
     \/ /\ DomainTool[d] = "cloudflare" /\ CallRefused
        /\ deploys' = [deploys EXCEPT ![d].at = "done", ![d].missed = TRUE]
  /\ UNCHANGED <<zone, certs>>

DeployStep(d) ==
  \/ BeginDeploy(d) \/ UseCertificate(d) \/ RequestCertificate(d) \/ ValidationRecord(d)
  \/ ListRecords(d) \/ CreateRecord(d) \/ UpdateRecord(d)
  \/ LookForConflict(d) \/ AwaitCertificate(d)
  \/ StackFails(d) \/ DeployAddress(d) \/ DeployDistribution(d)

DomainsNext ==
  \/ \E d \in DomainDeploys : DeployStep(d)
  \/ \E c \in certs : Issue(c) \/ GiveUpOn(c)

DomainsSpec == DomainsInit /\ [][DomainsNext]_domainVars

DomainsTypeOK ==
  /\ \A r \in zone : /\ r.id \in Nat /\ r.name \in ZoneNames
                     /\ r.writer \in DomainDeploys \union {NoWriter}
  /\ \A c \in certs : c.host \in DomainHosts /\ c.status \in {"pending", "issued", "failed"}
  /\ \A d \in DomainDeploys :
       deploys[d].at \in {"idle", "find", "record", "list", "write", "wait", "look",
                          "stack", "done", "failed"}

(* A command may take a host when it is its own, or, for an otavia deploy, when it *)
(* begins with the first label of its own: cloudflare-dns.ts takes such a record   *)
(* for the one it wants.                                                            *)
Claims(o, h) ==
  \/ DomainOf[o] = h
  \/ DomainTool[o] = "otavia" /\ <<DomainOf[o], h>> \in LabelBegins

Begun(o) == deploys[o].at # "idle"

(* No other command begun may take the host of d, or have its own taken by d. *)
Undisputed(d) ==
  \A o \in DomainDeploys \ {d} :
    Begun(o) => ~Claims(o, DomainOf[d]) /\ ~Claims(d, DomainOf[o])

(* A command that ended well has its host lead to what it has deployed, and this   *)
(* stays so through the lists and writes of all the commands that were begun, but  *)
(* for one that may take the host, and one whose own host this command may take:   *)
(* it has perhaps listed the record that was then taken, and takes it back by id.  *)
(* A Route53 command that once missed its live stack, and was told to remove the   *)
(* record it found, has lost its host: no later deploy makes it again.             *)
HostsLead ==
  \A d \in DomainDeploys :
    deploys[d].at = "done" /\ ~deploys[d].missed /\ ~deploys[d].lost /\ Undisputed(d) =>
      \E r \in zone : r.name.of = DomainOf[d] /\ r.name.purpose # "check" /\ r.writer = d

(* The records of hosts that no command begun may take stand as they were. *)
OthersStand ==
  \A r \in OtherRecords :
    (\A o \in DomainDeploys : Begun(o) => ~Claims(o, r.name.of)) => r \in zone

(* No distribution is deployed with a certificate that is not issued. *)
CertificatesHold ==
  \A d \in DomainDeploys :
    deploys[d].at = "stack" /\ DomainTool[d] # "route53" => StatusOf(d) = {"issued"}

(* What the deploys promise of names and certificates: a host leads where the last *)
(* good command of its own said, others' records stand, certificates are issued.    *)
DomainsStand == HostsLead /\ OthersStand /\ CertificatesHold
=============================================================================
