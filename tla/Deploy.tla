-------------------------------- MODULE Deploy --------------------------------
(***************************************************************************)
(* The deploy commands: cell deploy for one cell or for the platform of    *)
(* stack.yaml (apps/cell-cli), and otavia deploy (apps/otavia).  Each is a *)
(* script of AWS calls.  Any step may fail and ends the run; a later run   *)
(* starts from the first step and meets what the earlier one left.         *)
(* Nothing keeps two people (two CI jobs) from deploying one stack at      *)
(* once, so each call is a step of its own and the runs interleave.        *)
(*                                                                         *)
(* CloudFormation, S3, CloudFront, Cognito and Secrets Manager are         *)
(* external: each is the part of its state that the script reads back.     *)
(* Every deployer works from its own build, configuration and host name.   *)
(***************************************************************************)
EXTENDS Integers, Sequences

CONSTANTS Deployers,    \* the people or jobs that run the command
          Buckets,      \* the names a configuration may give the bucket
          MaxStarts,    \* bound on the runs of the command
          MaxFaults     \* bound on the steps that fail

ASSUME DeployBounds == MaxStarts \in Nat /\ MaxFaults \in Nat

VARIABLES command,      \* "cell", "platform" (stack.yaml) or "otavia"
          bucketOf,     \* the bucket name in each deployer's configuration
          deployer,     \* the run of each deployer
          stack,        \* the CloudFormation stack
          artifacts,    \* builds whose zips are in the artifact bucket
          secret,       \* the secret exists in Secrets Manager
          bucket,       \* the objects of each bucket, or Gone
          alias,        \* which distribution holds the host name
          edge,         \* the CloudFront cache
          urls,         \* the callbacks registered at the Cognito client
          touched,    \* deployers whose stack another run has touched
          outdated,     \* deployers whose Cognito list is no longer current
          runsLeft, faultsLeft

deployVars == <<command, bucketOf, deployer, stack, artifacts, secret, bucket, alias,
                edge, urls, touched, outdated, runsLeft, faultsLeft>>
aws == <<stack, artifacts, secret, bucket, alias, edge, urls>>
setting == <<command, bucketOf, runsLeft, faultsLeft>>

Gone == {<<"gone">>}
NoStack == [is |-> "none"]
NoFinding == "none"

(* The order of the calls: most of the difference between the three
   commands that the properties can see.  Each ends with "complete". *)
CellSteps == <<"certificate", "upload", "secrets", "look", "check", "deploy", "readUrls",
               "addUrls", "statics", "frontend", "invalidate", "dns", "complete">>
PlatformPrepares == <<"certificate", "upload", "look", "check">>
PlatformPublishes == <<"deploy", "frontend", "invalidate", "dns">>
PlatformRegisters == <<"readUrls", "addUrls", "complete">>
OtaviaPrepares == <<"upload", "certificate">>
OtaviaPublishes == <<"deploy", "frontend", "invalidate", "dns", "complete">>

Follows(steps, s) == steps[1 + CHOOSE i \in DOMAIN steps : steps[i] = s]
Steps == CASE command = "cell" -> CellSteps
           [] command = "platform" -> PlatformPrepares \o PlatformPublishes \o PlatformRegisters
           [] command = "otavia" -> OtaviaPrepares \o OtaviaPublishes
NextStep(s) == Follows(Steps, s)

DeployAt(d, s) == deployer[d].at = s
Moves(d, s) == deployer' = [deployer EXCEPT ![d].at = s]
Advances(d) == Moves(d, NextStep(deployer[d].at))

DeployInit ==
  /\ command \in {"cell", "platform", "otavia"}
  /\ bucketOf \in [Deployers -> Buckets]
  /\ deployer = [d \in Deployers |-> [at |-> "idle", seen |-> FALSE, blind |-> FALSE,
                                      finding |-> NoFinding, target |-> bucketOf[d],
                                      read |-> {}]]
  /\ stack = NoStack
  /\ artifacts = {} /\ secret = FALSE
  /\ bucket = [n \in Buckets |-> Gone]
  /\ alias \in {"free", "other"}
  /\ edge = [cached |-> FALSE, before |-> {}, pending |-> FALSE]
  /\ urls = {} /\ touched = {} /\ outdated = {}
  /\ runsLeft = MaxStarts /\ faultsLeft = MaxFaults

(* The command starts: credentials, then the build. *)
Start(d) ==
  /\ DeployAt(d, "idle") \/ DeployAt(d, "complete")
  /\ runsLeft > 0 /\ runsLeft' = runsLeft - 1
  /\ Moves(d, Head(Steps))
  /\ edge' = [edge EXCEPT !.before = @ \ {d}]
  /\ UNCHANGED <<command, bucketOf, stack, artifacts, secret, bucket, alias, urls,
                 touched, outdated, faultsLeft>>

(* The certificate or the hosted zone of the host name, and the DNS record:
   their outcome is no more than whether the run goes on. *)
Certificate(d) ==
  /\ DeployAt(d, "certificate") /\ Advances(d)
  /\ UNCHANGED <<setting, aws, touched, outdated>>

DnsRecord(d) ==
  /\ DeployAt(d, "dns") /\ Advances(d)
  /\ UNCHANGED <<setting, aws, touched, outdated>>

(* Any call that is checked may fail, and the process exits (process.exit
   or an exception): nothing is undone. *)
Exits(d) ==
  /\ deployer[d].at \notin {"idle", "complete"} /\ faultsLeft > 0
  /\ faultsLeft' = faultsLeft - 1
  /\ Moves(d, "idle")
  /\ UNCHANGED <<command, bucketOf, runsLeft, aws, touched, outdated>>

(* The zips go to the artifact bucket under the hash of their content; the
   template names that key only after the copy has succeeded. *)
UploadCodeUnchecked(d) ==
  /\ DeployAt(d, "upload") /\ Advances(d)
  /\ artifacts' \in {artifacts, artifacts \cup {d}}
  /\ UNCHANGED <<setting, stack, secret, bucket, alias, edge, urls, touched, outdated>>

UploadCode(d) ==
  /\ DeployAt(d, "upload") /\ Advances(d)
  /\ artifacts' = artifacts \cup {d}
  /\ UNCHANGED <<setting, stack, secret, bucket, alias, edge, urls, touched, outdated>>

(* A missing secret is created; an existing one is overwritten, and a
   failure of that is ignored. *)
SyncSecrets(d) ==
  /\ DeployAt(d, "secrets") /\ Advances(d)
  /\ secret' = TRUE
  /\ UNCHANGED <<setting, stack, artifacts, bucket, alias, edge, urls, touched, outdated>>

(* Each pass of the pre-deploy loop first asks whether the stack exists: a
   describe-stacks that fails, for whatever reason, says that it does not ... *)
LookForStack(d) ==
  /\ DeployAt(d, "look")
  /\ \/ /\ deployer' = [deployer EXCEPT ![d].at = "check", ![d].seen = stack.is # "none",
                                         ![d].blind = FALSE]
        /\ UNCHANGED faultsLeft
     \/ /\ stack.is # "none" /\ faultsLeft > 0 /\ faultsLeft' = faultsLeft - 1
        /\ deployer' = [deployer EXCEPT ![d].at = "check", ![d].seen = FALSE, ![d].blind = TRUE]
  /\ touched' = touched \ {d}
  /\ UNCHANGED <<command, bucketOf, runsLeft, aws, outdated>>

(* ... and then runs the checks in their order; the first that objects is
   the finding.  A check one of whose calls fails finds nothing, but that the
   distribution of the stack, where its describe-stack-resources ("own")
   fails, counts as another's.  The platform asks about the stack named after
   its first cell, which is not the platform's own: for it the stack state and
   the buckets of a live stack are never found, and its own distribution counts
   as another one.  otavia has no such checks. *)
StackIsBroken(d) == deployer[d].seen /\ command = "cell" /\ stack.is = "broken"
BucketExistsAnyStack(d) == bucket[bucketOf[d]] # Gone
BucketExists(d) == ~deployer[d].seen /\ bucket[bucketOf[d]] # Gone
BucketIsReplaced(d) ==
  /\ deployer[d].seen /\ command = "cell"
  /\ stack.is # "none" /\ stack.bucket # bucketOf[d]
  /\ bucket[stack.bucket] \notin {Gone, {}}
AliasIsTaken(d, failed) ==
  \/ alias = "other"
  \/ alias = "ours" /\ (command = "platform" \/ ~deployer[d].seen \/ failed = "own")

CheckCalls == {"stack", "exists", "replaced", "alias", "own"}

Objection(d, failed) ==
  IF StackIsBroken(d) /\ failed # "stack" THEN "stack"
  ELSE IF BucketExists(d) /\ failed # "exists" THEN "exists"
  ELSE IF BucketIsReplaced(d) /\ failed # "replaced" THEN "replaced"
  ELSE IF AliasIsTaken(d, failed) /\ failed # "alias" THEN "alias"
  ELSE NoFinding

RunChecks(d) ==
  /\ DeployAt(d, "check")
  /\ \E failed \in {NoFinding} \union CheckCalls :
       LET found == Objection(d, failed) IN
       /\ deployer' = [deployer EXCEPT ![d].finding = found,
                        ![d].target = IF found = "replaced" THEN stack.bucket ELSE bucketOf[d],
                        ![d].blind = @ \/ failed = "own",
                        ![d].at = IF found = NoFinding THEN "deploy" ELSE "ask"]
       /\ IF failed = NoFinding THEN UNCHANGED faultsLeft
          ELSE faultsLeft > 0 /\ faultsLeft' = faultsLeft - 1
  /\ UNCHANGED <<command, bucketOf, runsLeft, aws, touched, outdated>>

(* The person answers the prompt some time later: yes applies the
   resolution and the loop starts over, no ends the run. *)
Declines(d) ==
  /\ DeployAt(d, "ask") /\ Moves(d, "idle")
  /\ UNCHANGED <<setting, aws, touched, outdated>>

(* delete-stack: retained buckets stay behind, the others go if empty. *)
ApplyDeleteStack(d) ==
  /\ DeployAt(d, "ask") /\ deployer[d].finding = "stack"
  /\ Moves(d, "look")
  /\ stack' = NoStack
  /\ bucket' \in {bucket} \cup {[bucket EXCEPT ![n] = Gone] :
                               n \in {m \in Buckets : stack # NoStack /\ stack.bucket = m
                                                      /\ bucket[m] = {}}}
  /\ alias' = IF alias = "ours" THEN "free" ELSE alias
  /\ touched' = touched \cup (Deployers \ {d})
  /\ UNCHANGED <<setting, artifacts, secret, edge, urls, outdated>>

(* rm --recursive and delete-bucket, or rm alone for a bucket that the
   stack is about to replace; tables that exist are deleted likewise. *)
ApplyDeleteBucket(d) ==
  /\ DeployAt(d, "ask") /\ deployer[d].finding = "exists"
  /\ Moves(d, "look")
  /\ bucket' = [bucket EXCEPT ![deployer[d].target] = Gone]
  /\ UNCHANGED <<setting, stack, artifacts, secret, alias, edge, urls, touched, outdated>>

ApplyEmptyBucket(d) ==
  /\ DeployAt(d, "ask") /\ deployer[d].finding = "replaced"
  /\ Moves(d, "look")
  /\ bucket[deployer[d].target] # Gone
  /\ bucket' = [bucket EXCEPT ![deployer[d].target] = {}]
  /\ UNCHANGED <<setting, stack, artifacts, secret, alias, edge, urls, touched, outdated>>

(* update-distribution takes the name off the distribution that had it. *)
ApplyFreeAlias(d) ==
  /\ DeployAt(d, "ask") /\ deployer[d].finding = "alias"
  /\ Moves(d, "look")
  /\ alias' = "free"
  /\ UNCHANGED <<setting, stack, artifacts, secret, bucket, edge, urls, touched, outdated>>

(* aws cloudformation deploy.  A stack that is broken refuses; a new stack
   needs its bucket name and the alias to be free, and a first deployment
   that fails leaves a broken stack; a failed update rolls back.  An update
   that renames the bucket makes the new one and drops the old one, which
   stays behind if it is not empty. *)
Deployable(d) ==
  /\ alias # "other"
  /\ IF stack.is = "ok" THEN stack.bucket = bucketOf[d] \/ bucket[bucketOf[d]] = Gone
     ELSE stack.is = "none" /\ bucket[bucketOf[d]] = Gone

DeployStack(d) ==
  /\ DeployAt(d, "deploy") /\ Deployable(d)
  /\ Advances(d)
  /\ stack' = [is |-> "ok", build |-> d, bucket |-> bucketOf[d]]
  /\ bucket' = [n \in Buckets |->
       IF n = bucketOf[d] THEN (IF bucket[n] = Gone THEN {} ELSE bucket[n])
       ELSE IF stack.is = "ok" /\ n = stack.bucket /\ bucket[n] = {} THEN Gone
       ELSE bucket[n]]
  /\ alias' = "ours"
  /\ touched' = touched \cup (Deployers \ {d})
  /\ UNCHANGED <<setting, artifacts, secret, edge, urls, outdated>>

DeployFails(d) ==
  /\ DeployAt(d, "deploy") /\ faultsLeft > 0
  /\ faultsLeft' = faultsLeft - 1
  /\ Moves(d, "idle")
  /\ \/ /\ stack.is # "none"
        /\ UNCHANGED <<stack, bucket, touched>>
     \/ /\ stack.is = "none"
        /\ stack' = [is |-> "broken", build |-> d, bucket |-> bucketOf[d]]
        /\ bucket' \in {bucket, [bucket EXCEPT ![bucketOf[d]] =
                                   IF @ = Gone THEN {} ELSE @]}
        /\ touched' = touched \cup (Deployers \ {d})
  /\ UNCHANGED <<command, bucketOf, runsLeft, artifacts, secret, alias, edge, urls, outdated>>

DeployRefused(d) ==
  /\ DeployAt(d, "deploy") /\ ~Deployable(d)
  /\ Moves(d, "idle")
  /\ UNCHANGED <<setting, aws, touched, outdated>>

(* The callbacks of the Cognito client are read, extended and written back
   whole; a failure of either call is only reported. *)
ReadUrls(d) ==
  /\ DeployAt(d, "readUrls")
  /\ \/ /\ deployer' = [deployer EXCEPT ![d].read = urls,
                          ![d].at = IF d \in urls THEN NextStep("addUrls") ELSE "addUrls"]
        /\ outdated' = outdated \ {d}
        /\ UNCHANGED faultsLeft
     \/ /\ faultsLeft > 0 /\ faultsLeft' = faultsLeft - 1
        /\ Moves(d, NextStep("addUrls")) /\ UNCHANGED outdated
  /\ UNCHANGED <<command, bucketOf, runsLeft, aws, touched>>

Extended(d) == deployer[d].read \cup {d}

AddUrls(d) ==
  /\ DeployAt(d, "addUrls") /\ Advances(d)
  /\ \/ /\ urls' = Extended(d)
        /\ outdated' = outdated \cup (Deployers \ {d})
        /\ UNCHANGED faultsLeft
     \/ /\ faultsLeft > 0 /\ faultsLeft' = faultsLeft - 1
        /\ UNCHANGED <<urls, outdated>>
  /\ UNCHANGED <<command, bucketOf, runsLeft, stack, artifacts, secret, bucket, alias,
                 edge, touched>>

(* aws s3 sync: the static files are added, the frontend is mirrored with
   --delete, which takes away whatever the build does not have, the static
   files of this very run included.  What the edge holds by then is older
   than what this deployer has put there. *)
SiteBucket(d) == bucket[bucketOf[d]] # Gone

SyncStatics(d) ==
  /\ DeployAt(d, "statics") /\ SiteBucket(d) /\ Advances(d)
  /\ bucket' = [bucket EXCEPT ![bucketOf[d]] = @ \cup {<<"static", d>>}]
  /\ UNCHANGED <<setting, stack, artifacts, secret, alias, edge, urls, touched, outdated>>

SyncFrontend(d) ==
  /\ DeployAt(d, "frontend") /\ SiteBucket(d) /\ Advances(d)
  /\ bucket' = [bucket EXCEPT ![bucketOf[d]] = {<<"frontend", d>>}]
  /\ edge' = IF edge.cached THEN [edge EXCEPT !.before = @ \cup {d}] ELSE edge
  /\ UNCHANGED <<setting, stack, artifacts, secret, alias, urls, touched, outdated>>

SyncFails(d) ==
  /\ deployer[d].at \in {"statics", "frontend"} /\ ~SiteBucket(d)
  /\ Moves(d, "idle")
  /\ UNCHANGED <<setting, aws, touched, outdated>>

(* create-invalidation returns at once; CloudFront drops its copies later. *)
Invalidate(d) ==
  /\ DeployAt(d, "invalidate") /\ Advances(d)
  /\ edge' = [edge EXCEPT !.pending = edge.cached]
  /\ UNCHANGED <<setting, stack, artifacts, secret, bucket, alias, urls, touched, outdated>>

Invalidated ==
  /\ edge.pending
  /\ edge' = [cached |-> FALSE, before |-> {}, pending |-> FALSE]
  /\ UNCHANGED <<setting, deployer, stack, artifacts, secret, bucket, alias, urls,
                 touched, outdated>>

(* A visitor loads the site: the edge keeps what the bucket has. *)
Visit ==
  /\ stack.is = "ok" /\ alias = "ours" /\ ~edge.cached /\ bucket[stack.bucket] \notin {Gone, {}}
  /\ edge' = [edge EXCEPT !.cached = TRUE]
  /\ UNCHANGED <<setting, deployer, stack, artifacts, secret, bucket, alias, urls,
                 touched, outdated>>

DeployNext ==
  \/ \E d \in Deployers :
       \/ Start(d) \/ Certificate(d) \/ DnsRecord(d) \/ Exits(d) \/ UploadCode(d)
       \/ SyncSecrets(d) \/ LookForStack(d) \/ RunChecks(d) \/ Declines(d)
       \/ ApplyDeleteStack(d) \/ ApplyDeleteBucket(d) \/ ApplyEmptyBucket(d)
       \/ ApplyFreeAlias(d) \/ DeployStack(d) \/ DeployFails(d) \/ DeployRefused(d)
       \/ ReadUrls(d) \/ AddUrls(d) \/ SyncStatics(d) \/ SyncFrontend(d) \/ SyncFails(d)
       \/ Invalidate(d)
  \/ Invalidated \/ Visit

DeploySpec == DeployInit /\ [][DeployNext]_deployVars
-------------------------------------------------------------------------------
(* The values the variables take. *)
DeployTypeOK ==
  /\ command \in {"cell", "platform", "otavia"} /\ bucketOf \in [Deployers -> Buckets]
  /\ \A d \in Deployers : /\ deployer[d].seen \in BOOLEAN /\ deployer[d].blind \in BOOLEAN
                          /\ deployer[d].read \subseteq Deployers
                          /\ deployer[d].finding \in
                               {NoFinding, "stack", "exists", "replaced", "alias"}
  /\ \/ stack = NoStack
     \/ stack.is \in {"ok", "broken"} /\ stack.bucket \in Buckets
  /\ artifacts \subseteq Deployers /\ secret \in BOOLEAN /\ urls \subseteq Deployers
  /\ alias \in {"free", "other", "ours"}
  /\ edge.cached \in BOOLEAN /\ edge.pending \in BOOLEAN /\ edge.before \subseteq Deployers
  /\ runsLeft \in 0..MaxStarts /\ faultsLeft \in 0..MaxFaults

(* Whatever fails and however two runs interleave, a stack that is on the
   air refers to code that is in the artifact bucket, and (for a cell) to a
   secret that exists: the template is only sent after both. *)
StackFindsItsCode ==
  stack.is = "ok" => stack.build \in artifacts /\ (command = "cell" => secret)

(* A resolution that the checks offer, and that deletes for good, never
   hits the live cell: it does not delete a healthy stack, nor empty or delete
   the bucket the new template goes on using, nor take the host name from
   the live distribution; unless another run has changed the stack while
   the prompt was open.  A run that was blind, that is, whose describe-stacks or
   describe-stack-resources of the live stack failed, does offer its bucket and
   its host name, and spares only the stack.  (A platform does take its own
   host name: the command looks the stack up by the name of its first cell.) *)
LiveCellUnharmed ==
  [][stack.is = "ok" /\ command # "platform" =>
       \A d \in Deployers \ touched :
         deployer[d].at = "ask" /\ deployer'[d].at # "ask" =>
           /\ stack' = stack
           /\ ~ deployer[d].blind =>
                /\ alias' = alias
                /\ bucketOf[d] = stack.bucket => bucket'[stack.bucket] = bucket[stack.bucket]
    ]_deployVars

(* When a run reports that the deployment is complete, what the edge still
   serves from before its upload is about to be dropped: no visitor is left
   with the old frontend for good. *)
CompleteIsFresh ==
  \A d \in Deployers : DeployAt(d, "complete") => d \notin edge.before \/ edge.pending

(* A run that brings its own callback never drops one that was registered
   before it read the list, unless another run has written in between. *)
CallbacksKept ==
  [][\A d \in Deployers \ outdated :
       DeployAt(d, "addUrls") /\ deployer'[d].at # "addUrls" => urls \subseteq urls']_deployVars

(* What is on the air is whole when the command says so: its code is there     *)
(* (StackFindsItsCode) and the frontend is the new one (CompleteIsFresh).        *)
StackIsServed == StackFindsItsCode /\ CompleteIsFresh

(* A run harms neither the live cell (LiveCellUnharmed) nor the callbacks of     *)
(* other cells (CallbacksKept).                                                  *)
DeploySpares == LiveCellUnharmed /\ CallbacksKept
=============================================================================
