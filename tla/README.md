# casfa in TLA+

TLA+ models of casfa, checked with TLC and, where it says so, proved with TLAPS. casfa stores
the files of a user as trees of content-addressed nodes. `packages/cas` stores nodes and collects
garbage; the drive cell (`cells/drive`) keeps one root key per realm and per branch and changes
the trees; the other cells (agent, gateway, artist, sso) are clients of the drive, or guard the
way to it. The command lines (`apps/cell-cli`, `apps/otavia`) configure, run and deploy the cells.
Paths below are relative to `src/`.

Contents: [components](#components) · [modules](#modules) · [how the models read the
code](#how-the-models-read-the-code) · [runs](#runs) · [proofs](#proofs) ·
[findings](#findings) · [not modelled](#not-modelled) · [plan](#plan)

## Components

| Component | State | Operations | What is hard, and what must hold |
|---|---|---|---|
| CAS service, `packages/cas/src/cas-service.ts`, `cas-meta.ts` | node blobs; four meta blobs: the keys the last gc kept, the keys put since, the write times, the time of the last gc | `putNode`, `gc(nodeKeys, cutOffTime)`, `getNode`, `hasNode`, `info` | No lock: every meta blob is read, changed in memory and written back, so concurrent calls overwrite each other; a call may fail between any two writes. gc must keep what its roots reach and what is younger than its cut-off. |
| Storage providers, `packages/storage-*` | key to blob | `put`, `get`, `del` | fs and s3 leave an existing key alone, memory replaces it. The meta blobs have fixed keys. |
| Drive files, `cells/drive/backend/controllers/files.ts`, `fs.ts`, `services/tree-mutations.ts`, `upload-mutex.ts` | root key per record (in the branch store); a map of promises per process | upload, PUT root, mkdir, rm, mv, cp, list | A handler reads a root, puts nodes, and sets a root built from what it read several awaits ago. Only uploads take a mutex, and it is one per process. No update must be lost where the code promises so; every request must be answered. |
| Drive branches, `controllers/branches.ts`, `services/transfer-paths.ts`, `db/dynamo-branch-store.ts` | rows of the branch table: the branch, the root of a branch, the root record of a realm | create, complete/close, revoke, transfer of paths, expiry | Two records change in two writes; a transfer reads two roots. A root must be whole and a transfer must respect its mode. |
| Realm gc, `services/realm-info.ts`, `controllers/realm.ts` | none | `gc(realmId, cutOff)`, usage | Reads the roots of a realm one by one while requests move entries between them and have put nodes no root refers to yet; one store serves all realms. No node of a live root may be deleted. |
| Realm root, `db/dynamo-branch-store.ts`, `services/realm-info.ts`, `root-resolver.ts` | the REALM row, the rows of branches without a parent, the root key | ensure, look up, read, repair | A record is claimed in one write and given its root in another, and older data is relinked; queries may miss rows. A realm must keep its record and its content. |
| Drive MCP tools, `cells/drive/backend/mcp/handler.ts` | none | mkdir, rm, mv, cp with patterns, write, batch, transfer, branches | A tool reads a root, builds a tree in several edits, and sets it. Nothing it takes out may go without a word. |
| Realm usage, `db/realm-usage-store.ts` | retained and new keys with sizes, per realm | record, commit, reset | gc replaces what requests record meanwhile. |
| Delegates and OAuth servers, `packages/cell-delegates-server`, `packages/cell-cognito-server` | grants, authorization codes, consents | authorize, consent, token, refresh, revoke | A code is for one use; a token that was replaced or revoked stays so. |
| SSO cell, `cells/sso`, auth packages | refresh sessions by handle; the browser's two cookies | login, refresh, logout; the fetch that refreshes on a 401 | A refresh awaits Cognito between reading the old handle and writing the new one, and every page refreshes on its own. |
| Gateway cell, `cells/gateway` | servers and tokens per user; logins that wait for a callback | register, log in, remove; a bound tool's call: create a branch, transfer, call, transfer, close | Each step may fail after the ones before; a removal meets a login. |
| Core format, `packages/core` | none | layout, writing and reading of a file; encoding, decoding, validation of a node | Sizes at the boundary of a level, limits that the encoder and the validator state apart. |
| Drive page, `cells/drive/frontend` | the list shown, the operations under way | load, navigate, upload, rename, delete | Lists and operations overlap; answers come out of order. |
| Agent backend, `cells/agent/backend` | threads and messages | create, update, list, delete | Deletes page by page while messages are created. |
| Agent service worker and page, `cells/agent/frontend/sw`, `stores`, `lib` | the model state in the worker, in IndexedDB and in the page; runs, controllers of streams; loaded tools; pending actions | send, cancel, pull, create a thread, load and call tools | State read before an await and replaced after it; the worker is killed at will; actions time out and are sent again. |
| Agent MCP login, `cells/agent/frontend/lib/mcp-oauth-flow.ts` | pending states, tokens, one popup window | log in, callback, message, timeout | All logins share one window; the callback page runs twice. |
| Configuration, `cell-cli/src/config`, `otavia/src/config` | none | load, resolve tags, override | References are replaced in an order; walks that differ in what they enter. |
| Templates and routing, `generators`, `otavia/src/deploy`, vite config | none | generate; answer a URL in dev and in the cloud | Ids that meet; two rules for one URL. |
| Deploys, `commands/deploy.ts`, `deploy-checks.ts`, `dns` | stack, buckets, secrets, callbacks, records, certificates | `cell deploy`, `otavia deploy` | Every call may fail and another run may come in between. |
| Setup, tunnels, local services, devbox | files of a machine, containers, the routes and the PID file | `setup`, `dev`, `test`, `devbox` | No locks; ports and names are taken for identity; what an interrupted run left. |
| Artist cell, MCP helper, encoding, the other CLI commands | none, or local | conversions, wrappers, calls in sequence | Sequential or pure. |

How they interact: a drive request is a sequence of awaited calls to the CAS service (`putNode`,
`getNode`, `hasNode`) and to the branch store (one row each). Requests of one process interleave
at their awaits; requests of different processes (the lambda handler runs one per concurrent
instance) share the store and the table only. gc is a request like the others. The agent, the
gateway and the artist reach the drive over HTTP with a branch token. The agent's page talks to its
worker by messages, the worker to the agent's backend and to the gateway by HTTP. The commands share
a developer's machine, or an AWS and a Cloudflare account, and nothing that serialises them. `PROJECT.json` lists every
component, and under `hazards` each place where the order of these calls matters.

## Modules

| Module | Models | Actions |
|---|---|---|
| `CasStore` | `createCasService` over one storage, at the grain of its awaits | `Put*`: begin, child check, rejection, `storage.put`, `Date.now()`, read and write of the new-keys blob, read and write of the times blob, abort. `Gc*`: begin, one visit of the mark queue, the three reads, one deletion, the four writes, abort |
| `MCCasStore` | its small instance | |
| `MCCasHistory` | the same with the last write time of each node as history, calls that do not fail, and one call at a time | |
| `CasStoreProofs` | proofs about `CasStore` and `CoreTree` | |
| `DriveTree` | trees as values; add or replace, and remove, of an entry | |
| `FileTree` | **abstract**: what the drive promises of its roots, one atomic operation each | `Start`, `Add`, `Remove`, `Move`, `Copy`, `Transfer`, `Replace`, `Mount`, `Drop` |
| `Drive` | the drive's requests and its gc, one await a step, over a node store whose calls are steps | `Begin`, `Enter` (the mutex), one action per await of the handlers, `Fail`, `Gc*`, `Tick` |
| `MCDrive` | symmetry of the requests | |
| `DriveProofs` | types and the mutex of `Drive` | |
| `DrivePromiseProofs` | that `Drive` implements `FileTree` | |
| `DriveRootsProofs` | that gc keeps the roots of `Drive` whole, and transfers their targets | |

The components around the core, each a module with its own `Next` and type invariant. The first
seventeen are composed by `MCCells`, the last five by `MCAgent`:

| Module | Models | Actions |
|---|---|---|
| `Grants` | `delegate-oauth-routes.ts`, `dynamo-grant-store.ts`, the Cognito `oauth-server.ts` | a handler by its awaits: read a code, verify, delete it, mint; read a grant, put new tokens; remove; callback, consent, token, sweep |
| `SsoSession` | `sso/.../oauth.ts`, `refresh-session-store.ts`, `api-fetch.ts` | a fetch, its 401, the refresh (row, Cognito, put, remove), logout; each call may fail, each answer may be lost |
| `Gateway` | `gateway/backend/app.ts`, `mcp.ts`, `tool-runtime-executor.ts` | register, start a login, callback, remove in two writes; the steps of a bound tool's runtime, each failing at will |
| `DriveMcp` | `drive/backend/mcp/handler.ts`, `transfer-paths.ts` | read a root; over the tree in hand one match of a pattern, one put, one entry of a transfer linked at a time; set the root; roots set by others in between |
| `MCTransfer` | `DriveMcp` with names that sort before "/" | |
| `RealmRoot` | `dynamo-branch-store.ts`, `realm-info.ts`, list's repair | look the REALM row up, query, relink, claim, set the empty root; read, set, repair |
| `Explorer` | `directory-tree.tsx`, `folder-upload.ts` | ask for a list, have it answered, navigate, begin an operation, one step of it, its end |
| `CoreTree` | `topology.ts`, `controller.ts` | write a file: go down to the next child, put a node whose children are there, fail; read: open any node, the next child, return |
| `NodeCodec` | `node.ts`, `header.ts`, `validation.ts`, `utils.ts` | encode an input, or receive a buffer, and decode it |
| `ParamValues` | the values of params in both `config` directories, given by their paths | |
| `CellConfig` | `cell-cli/src/config` | check the tags, call and return of `resolve`, one object of the loop, the pass over the file, the instance file, resolve for a stage |
| `StackConfig` | `otavia/src/config` | load `otavia.yaml`, resolve the params of its cells |
| `Templates` | `cell-cli/src/generators`, `otavia/src/deploy/template.ts` | generate for a cell at once; add one cell to a platform or a stack; add its frontend |
| `Routes` | `vite-config.ts`, the gateway of `otavia dev`; `cloudfront.ts`, the lambda handlers | a URL on its way on both sides, hop by hop |
| `Deploy` | `commands/deploy.ts`, `deploy-checks.ts`, `otavia/.../deploy.ts` | each AWS call of a run, the prompt and what it deletes, failures |
| `DevTunnel` | `otavia/.../setup.ts`, the tunnel side of `dev.ts` | each command of a setup, the Cognito update, `dev --tunnel`; tunnels and credentials lost |
| `LocalServices` | `cell-cli/src/local`, `otavia/src/local`, `dev.ts`, `test.ts` | is it there, remove, create, wait, make tables and buckets, serve, clean up |
| `Devbox` | `commands/devbox`, `local/devbox-*.ts` | read, truncate and fill the routes file; start, stop, deaths |
| `Domains` | `cloudflare-dns.ts`, `cloudflare-provider.ts`, `route53-provider.ts`, `cloudflare-tunnel-dns.ts` | list, write, wait for the certificate, deploy |
| `AgentBackend` | `thread-store.ts`, `message-store.ts` and their controllers | one DynamoDB call a step: lookups, puts, query and batch of a deletion |
| `AgentWorker` | `sw.ts`, `sw/streaming.ts`, `sw/apply-change.ts`, the stores | send, register, status changes, chunks, tool rounds, cancel, fail, pull; a change begins, then IndexedDB takes it and the page hears of it if it holds a port (`ApplyEnd`), or IndexedDB rejects it (`ApplyRefused`); the page's port goes and comes (`Relink`); the list of threads changes; the worker restarts |
| `AgentActions` | `stores/agent-store.ts`, `sw-protocol.ts` | ask, post, run in the worker, answer by port or broadcast, time out, retry |
| `AgentTools` | `sw/mcp-meta-tools.ts`, tool rounds of `streaming.ts` | begin a run, offer, load, use, prune, end a round, kill |
| `McpLogin` | `lib/mcp-oauth-flow.ts` | discover, open, redirect, callback (twice), tell, time out, reload, close |

`MCCells` and `MCAgent` are disjoint sums. Their parts share no variable; `part` names the one that
moves, and the others rest in an initial state (`Resting` fixes which, where there are several). The
reachable states are the union of the parts' and not their product, so that one run checks each
part as on its own. Nothing is claimed about two parts together. In `MCAgent` the part `worker` has
one run with chunks, tools, pulls, cancels, and either a restart or a change of the settings or the
list of threads, two changes in flight at most; the part `pair` two runs that overlap, without these;
in both the page holds its port. In the part `port` the port goes and comes during one run without
chunks, settings and restarts (`AloneBound`, `PairBound`, `PortBound`). The proofs about `AgentWorkerSpec` have none of these
bounds. A run loads one tool a round and none begins after a kill (`RoundBound`).

Their proofs are in five modules: `CasStoreProofs` (`CoreTree`), `ServerProofs` (`Grants`,
`SsoSession`, `Gateway`, `RealmRoot`, `Explorer`, `DriveMcp`), `CommandProofs` (`DevTunnel`,
`LocalServices`, `Devbox`, `Deploy`, `Domains`, `Routes`, `StackConfig`, `CellConfig`, `Templates`),
`AgentProofs` (`AgentBackend`, `AgentTools`, `AgentActions`, `McpLogin`) and `WorkerProofs`
(`AgentWorker`, and the parts of `MCAgent` together). A module of proofs
extends several components and proves each under the component's own `Spec`; `AgentTypesHold` alone
is about the sum of the agent's parts.

No module uses a RECURSIVE operator. The recursive calls of `CoreTree` are stacks of frames: `upload`
holds those of `uploadFileNode`, `reading` those of `streamFileNodeData`, and a call or a return is a
step; those of `resolveParams` are the chain of keys `cfgChain` of `CellConfig`. `CellConfig` and
`StackConfig` give a value by its paths (`ParamValues`): what a walk of the code reaches is then what
it enters on the way (`Entered`), and what `deepResolve` makes of a value is one function of its
paths (`WithParams`).

### CasStore and the code

`store` is the set of node blobs; `retained`, `newKeys`, `times` and `lastGc` are the meta blobs
`__cas_retained__`, `__cas_new_keys__`, `__cas_times__` and `__cas_meta__`. A `putNode` call in
flight is a writer `w`: `wpc` is the await it is at and `wnode`, `wtodo`, `wnow`, `wkeys`,
`wtimes` are its locals. A `gc` call is a collector `g`: `gqueue` and `gseen` are the queue and
the visited set of `reachableKeys`, `gknown` is `allKeys`, `gtimes` and `gdel` what it read and
has left to delete. `firstPut`, `maxCut` and `intact` are history variables: no guard reads them.

A call that throws disappears at the await it is at (`PutAbort`, `GcAbort`) and leaves what it has
written: a storage error and a crash look the same to the others. Children are checked and garbage
is deleted in any order, because the order of the loops is the order of keys in a blob.
`WriteOnce` is the provider: FALSE for memory, TRUE for fs and s3, whose `put` looks whether the
key exists (`storage-s3/src/s3-storage.ts:76`).

### Drive and the code

`root`, `owner` and `made` are the rows of the branch table: the root key of a record (a realm or
a branch), the realm of a branch that is in the table, and the ids given out. A request in flight
is a record `req[q]`: the await it is at, its operation, its process, when it began, and the
locals `rootKey`, the root it copies from, and the node it links. `queue[p][rec]` is the chain of
promises of `withMutex` in process `p` for the key of `rec`: an upload runs when it is the head,
and one that throws rejects all that wait for it. `gc[g]` is a gc request: the realm, the cut-off,
the branches whose roots it has not read yet, the roots it has and has not marked yet, and the keys
it has marked. It then deletes one node after the other, each a step.

The node store is what `CasStore` shows it to promise, and no more. `first` is when a node was stored
for the first time. A gc may delete any node that it has not marked and whose `first` is before its
cut-off (`Doomed`), and may stop at any moment: whether it does delete one depends on the blobs of
keys and times, which calls overwrite, lose or, with fs and s3, never write a second time, and all of
this is left open. `YoungNodesKept` of `CasStore` is what says that no other node is deleted, and
`MarkIsReach` that what is marked is what the root reaches. So a node that is there already when it
is put may be deleted by a gc that has marked before: the race of `cas_reput`. `revived` is the set
of nodes that were linked again into a root while a gc runs, a history that no guard reads.

| Request | Awaits, in order |
|---|---|
| upload | `Enter`, (`CheckBranch`), `ReadRoot`, (`EnsureEmptyRoot`, `SetEmptyRoot`), `PutChild`, `EnsureDict`, `ReadToAdd`, `Link`, `SetBranchRoot` |
| mkdir | `InitRealm` or `CheckBranch`, `ReadRoot`, …, as upload |
| rm | …, `ReadToRemove`, `Unlink`, `SetBranchRoot` |
| mv | …, `Find`, `ReadToRemove`, `Unlink`, `EnsureDict`, `ReadToAdd`, `Link`, `SetBranchRoot` |
| cp | …, `Find`, `EnsureDict`, `ReadToAdd`, `Link`, `SetBranchRoot` |
| PUT root | `CheckBranch`, `PutChild`, `SetBranchRoot` |
| transfer | `CheckBranch`, `ReadSource`, `ReadRoot`, (`EnsureEmptyRoot`, `SetEmptyRoot`), `Find`, `EnsureDict`, `ReadToAdd`, `Link`, `SetBranchRoot` |
| create branch | `InitRealm` or `CheckBranch`, `ReadSource`, `Find`, `InsertBranch`, `SetBranchRoot` |
| close branch | `RemoveBranch`, `RemoveRoot` |

## How the models read the code

- A step is the code from one await to the next. In `CasStore` each access to storage is a step;
  in `Drive` a `putNode` is one, `CasStore` having its insides, and a gc is one step for each root
  that it reads, each root that it marks and each node that it deletes.
- A node is its key, because the key is the hash of its content; encodings and sizes are left out.
- Time is one clock that does not run backwards and that calls of all processes read.
- Paths have one segment: a root is a dict of files and empty dicts, or a file. This keeps what the
  properties speak of (which entries a root has, which nodes it refers to) and leaves out the
  recursion along a path.
- `putNode` refuses a node with a child that is not in storage, in `Drive` too (`RefuseDict`), and
  reading a node that is missing fails as in the code (`ReadToAdd`, `Resolves`).
- `Drive` reads rows of the table consistently, although `getBranchRoot`
  (`db/dynamo-branch-store.ts:257`) is a `GetItem` without `ConsistentRead`: `NoLostUpdate` is a
  promise of the code's order of calls, and does not hold of a table whose reads are stale.
  `RealmRoot` has the stale reads: a query may miss any row that is not in the index yet, and a read
  of a root key gives any value that it has had since it last settled (`Readings`, `KeySettles`).
- In `Drive` the root record of a realm exists from the start; `RealmRoot` is how it comes to be.
  The two `getBranch` calls of a transfer are one step (`CheckBranch`).
- A transfer has one entry in its mapping in `Drive`, and several in `DriveMcp`, where a node is the
  function from the paths below it to what is there, and each match of a pattern, each put and each
  entry that a transfer links is a step.
- Services that are not in the repository (DynamoDB, S3, CloudFormation, CloudFront, Cognito,
  Cloudflare, docker, IndexedDB, the browser's windows, MCP and authorization servers) are the part
  of their state that the code reads back. A call of theirs is done or not done, and its answer
  comes or is an error; so a failed answer does not mean that nothing was done. The describe calls
  whose failure the deploys take for "there is none" fail in `Deploy` (`LookForStack`,
  `AliasIsTaken`) and in `Domains` (`FirstStep`), and IndexedDB rejects writes in `AgentWorker`
  (`ApplyRefused`). In `LocalServices` a `docker port` or `docker inspect` that fails, which makes
  `cell dev` pass over its check of the port (`commands/dev.ts:254`), is not modelled.
- Tokens, codes, handles, hosts and names are values that differ where the code's differ. Where the
  code compares prefixes of text (`Textual` of `Routes`, `LabelBegins` of `Domains`), the relation
  among the few names is a constant.
- Configurations, nodes and buffers are inputs: the runs take every member of a set given in the
  MC module, and the module computes what the code makes of it.

Five constants name what a property assumes, so that a run can drop it:

| Constant | Meaning | Where from |
|---|---|---|
| `Overlap` | TRUE: any requests overlap. FALSE: only requests on different records do, and uploads to one process | `upload-mutex.ts` serialises the uploads of a process and nothing else; FALSE leaves the other requests on a record to clients that wait for the answer |
| `Grace` | a cut-off is never later than the start of a request in flight | `controllers/realm.ts` takes `now - 900_000` unless the caller names a cut-off, and a request is far shorter than 15 minutes; a caller that names a later one is outside the assumption |
| `Handover` | FALSE: no transfer overlaps a gc, and no creation of a branch from a branch does | nothing in the code sees to it: with TRUE, `RootsWhole` fails (`drive_handover`) |
| `Processes` | one or more server processes | the dev server is one process, lambda runs several |
| `Cold` (`RealmRoot`) | FALSE: an upload or a list is not the first request of a new realm | these two look the root up before they ensure it; the other requests ensure it first. It is an assumption about clients, which the code does not see to: with TRUE, a lookup relinks a branch that it found in the index although another request has claimed the realm for its own |

Many parts of this code race by design: two processes, two tabs or two developers, and no lock. Where
the model has such a race and it does harm, the property says what the code does keep and leaves the
race out by name, through a history variable or a predicate that the property's comment explains:

| Property | Leaves out |
|---|---|
| `RootsWhole`, `TransferKeepsTarget` | nodes that were in storage and are linked again under a gc (`revived`): `cas_reput` |
| `CodesAreForOneUse` | codes of the delegate routes, which two requests can both use |
| `RevokedIsDead` | a refresh that read the row before it was removed (`overtaken`) |
| `SessionHolds` | two requests with one handle at once, and an answer that was lost (`atOnce`, `broken`) |
| `TokensHaveServers` | a login under way when its server is removed (`crossed`) |
| `EnsureKeepsRealm` | an ensure that began before the content had settled |
| `DeploySpares`, `SetupStands` | a stack or callback list that another run changed in between (`touched`, `outdated`, `registered`); the bucket and the host name of a run whose describe failed (`blind`); a route that failed and was forgiven (`unrouted`), credentials that are not the config's (`spoiled`) |
| `OwnData` | a cell whose own container is only created; a stack whose containers another removed (`displaced`) |
| `DevboxStands` | writes of the routes file that overlap, starts and stops beside each other (`disturbed`, `whole`, `besides`) |
| `DomainsStand` | hosts that another command begun may take (`Claims`, `Undisputed`); a Route53 command that missed its live stack and had its own record removed (`lost`) |
| `DevIsLikeCloud` | URLs near a rule's text (`Near`), lambdas that keep the mount (`KeepsMount`), pages and scripts whose last segment decides by its dot (`DotDecides`) |
| `TemplateWhole` | names that run together to one id (`Apart`) |
| `UiStreamsEnd`, `CopiesAreWhole` | what was told while the page held no port and what IndexedDB rejected (`link`); a memory to which two actions' changes were in flight at once (`raced`) |
| `DeletedThreadIsGone` | a request that read the row before the deletion (`wroteLate`), items that a batch left |
| `OfferedCanBeCalled` | a killed worker, and more tools than the cap |

These are the narrowest exceptions that TLC and the proofs let stand. They are not findings, because no
document of the repository promises otherwise.

## Runs

TLC finishes each passing run; behaviours are bounded by `MaxTime`, `MaxPuts`, `MaxGcs`,
`MaxRequests`, and they end when the bounds are used up, so deadlock is not checked. `Drive` states
what must happen in spite of the bounds as `Answered`.

| Run | Instance | Shows |
|---|---|---|
| `cas_store` | a directory and a sibling that share a file, 2 writers, 1 collector, 3 puts, 1 gc | no node first stored at or after every cut-off is lost (`YoungNodesKept`); gc visits what its roots reach and nothing else (`MarkIsReach`); a complete tree of roots every gc is given stays complete (`TreeSurvives`) |
| `drive_files` | one realm, 2 names, upload, mkdir, rm, mv, cp, a gc | one upload at a time per process and record (`OneUploadAtATime`); each change of a root is one whole operation (`NoLostUpdate`); the root's tree is in storage at every step of a gc, but for nodes linked again under it (`RootsWhole`) |
| `drive_branches` | a realm and a branch, upload, mkdir, rm, PUT root, transfer, create, close, a gc | `NoLostUpdate` and `RootsWhole` for both records (transfers and a gc do not meet); a transfer with `fail_if_exists` replaces nothing (`TransferKeepsTarget`) |
| `drive_answers` | all nine kinds, 3 requests that overlap at will and fail at any step | every request is answered (`Answered`), so an upload that throws lets go of those behind it |
| `cas_reput`, `cas_write_once`, `drive_uploads`, `drive_realms`, `drive_handover`, `drive_targets` | the smallest instances that show it | each violates one statement of the documents: see [findings](#findings) |
| `cells` | the seventeen parts of `MCCells` | see below |
| `agent` | the five modules of `MCAgent` | see below |

What `cells` checks, each property with the exceptions that its comment names and the code does not
exclude:

| Property | Says | Instance |
|---|---|---|
| `CodesAreForOneUse`, `RevokedIsDead` | a code of the OAuth server yields tokens once, however its requests interleave; a revoked delegate accepts no token, unless a refresh had read its row before | 2 handlers, 2 pairs, 1 consent, DynamoDB's table |
| `SessionHolds` | the cookie's handle has its row when no request is under way (`HandleIsLive`), and a logout leaves no handle that could be refreshed (`LogoutEndsSession`), unless refreshes raced or an answer was lost | 2 fetches, 2 handles |
| `TokensHaveServers`, `RuntimeHolds` | a removed server leaves no token unless a login was under way; a tool's branch is closed (`RuntimeCleansUp`) and only the output of a tool that succeeded reaches the parent (`OutputIsOfTheTool`) | 2 servers, 2 calls, 1 login, 1 runtime |
| `ToolsKeepFiles` | a file of the root a tool read is in the root it sets, or it is told of, or it was where the tool's command put something (`NothingLostUntold`); a transfer links all its targets whatever the root was (`TransferLinksAll`); names are such that the paths below a path follow it in the code's order | every start tree, pattern and mapping of the MC module, 1 call of 2 commands, 1 root set by others |
| `EnsureKeepsRealm` | a realm never changes its root record (`RecordNeverMoves`); an ensure that begins when there is content, settled in every copy of the table, never empties it (`EnsureSparesContent`) | 3 calls, one of them on a realm that is not ensured; rows of older data; reads of the index and of root keys that are stale |
| `ListIsFresh` | at rest the page shows what its directory holds | 2 operations, 2 loads, 1 other event |
| `StoredReadsBack` | a read of any stored node gives its piece of the file without a gap, of the file node the whole of it, also while a file is written and after a writer that stopped; a successor takes no more than its space, and a file node exceeds it by its FileInfo at most, which the layout does not reserve | keys of 2 bytes, 8 usable bytes, a FileInfo of 3, the capacity of two levels rounded to 31 instead of 32, 14 sizes at and beside the boundaries of the levels, 2 files, the reader at any step of the writer |
| `CodecAgrees` | a plain node is accepted as encoded; of the others that the encoders take (two entries of one name, a byte order mark, a type that is not printable) and the validator may refuse, none is accepted as another node than decoding leaves of it; what is accepted from elsewhere decodes, has no name twice, and encodes again to the same | every node of up to 3 children and 2 bytes, those that the validator refuses included, every buffer of up to 5 bytes |
| `StackIsServed`, `DeploySpares` | a stack on the air finds its code (`StackFindsItsCode`), a complete run is served fresh (`CompleteIsFresh`); the checks spare the live cell (`LiveCellUnharmed`) and other cells' callbacks stay (`CallbacksKept`), unless another run wrote in between; a run whose describe failed spares the stack, not its bucket and host name | 2 deployers, 2 buckets, 2 starts, 1 fault, a failing describe among them |
| `DomainsStand` | a host leads to what its last good command deployed, unless another command begun may take it or has its own host taken by this one, or a failed describe made it remove its own record (`HostsLead`); the records of hosts that no command begun may take stand (`OthersStand`); certificates are issued (`CertificatesHold`) | five commands of four tools on hosts whose labels begin alike (`app`, `app-dev`), 2 deploys, 1 refusal |
| `DevIsLikeCloud` | a URL below a mount comes to the same place in dev and in the cloud, unless the dot of its last segment decides: a page whose name has a dot is a page here and no object there, a script without one a script here and the page there | two cells, all URLs of up to three (`MaxSegments`) of nine segments, two of them with a dot (`sw.js`, and `.wk` for `.well-known`) |
| `ConfigResolves`, `CellParamsStand` | a config that loads means what its file says; a cell's environment is what the files say | files of up to three keys in either order with all tags, objects in objects, arrays, cycles and unknown names; stacks of two params and two mounts |
| `TemplateWhole` | the template of a cell with a backend or of an otavia stack refers to nothing that is not in it, and each entry of a stack or platform runs its own code, in otavia with its own tables, unless names run together to one id (`Apart`) | stacks of up to two cells whose names meet in Pascal case, with one another (`a`, `a-b`), within one cell (`b-api`, `b_api`) or with the `SpaRewriteFunction` of the distribution (cell `spa`, entry `rewrite`) |
| `SetupStands` | a host that `dev --tunnel` prints leads here, unless its last routing failed and was forgiven or its credentials are another tunnel's; a callback that a setup saw is accepted | 2 machines, 2 names that each setup chooses from, 2 setups, 1 misfortune |
| `OwnData` | a cell or stack that serves works on its own tables and buckets | 2 cells, 2 stacks, the e2e stack, 2 port bases, 3 runs, 1 mishap |
| `DevboxStands` | a served host leads home (`HostsLeadHome`), and every daemon can be stopped (`DaemonsCanBeStopped`) | 2 cells, 2 commands, 2 `cell dev`, 1 death |

What `agent` checks:

| Property | Says | Instance |
|---|---|---|
| `DeletedThreadIsGone` | a thread whose deletion was answered is gone with its messages, unless a request had read its row before or a batch left items | 2 requests, pages of 1, 3 messages |
| `UiStreamsEnd` | a run that has ended shows no stream that goes on, unless it ended while the page held no port or on a rejected write | 2 runs, 2 rounds, 1 restart, 1 change of settings or threads, a port lost and found at any moment, any write rejected |
| `CopiesAreWhole` | the messages of a run that IndexedDB took are there when it ends, and in the page if it heard of them and kept the thread (`PersistedShown`), and in the worker's memory unless two actions' changes were in flight together (`MemoryKeepsHistory`) | the same; lists of 2 |
| `OfferedCanBeCalled` | a tool offered to the model can be called, unless the worker was killed or the cap is exceeded | 3 tools, 2 runs, cap 2, 1 kill |
| `ActionEndsWell` | every action settles (`ActionSettles`), and a resolved one finds its thread (`CreateFindsThread`) | 2 actions, 2 attempts each, 1 death of the worker |
| `LoginEndsWell` | every login whose window reached the callback settles (`LoginSettles`), and a login that is done has its token (`DoneHasToken`) | 2 logins, 2 servers, 1 authorization server, 1 reload |

The bounds of these two runs are the fewest actors that can be in each other's way (two), and one
failure, since each part's promise is about the state one failure leaves; a second failure meets a
run that begins from that state, which the bound on starts allows where the code is run again.

Why the bounds are enough for these questions. Times matter only relative to the cut-off: with
`MaxTime = 2` there are nodes older than it, as old as it and younger, and requests that begin
before and after. In `cas_store` two writers suffice for a lost update of a blob, the third put
re-puts or adds what a gc has judged, and the shared file is reached by a live and by a dead node.
Several gcs are left to the proofs, which hold for the three properties without bounds. In `drive_branches` four requests are what the hand-over scenario needs
(create, upload to the branch, transfer, close), which `drive_handover` finds with the same bounds
when `Handover` is TRUE: the run is deep enough to fail. For `NoLostUpdate` and `OneUploadAtATime`
the bounds do not matter: they are proved without any.

Requests (and writers) are interchangeable, so the two large runs use symmetry on them; no
liveness property is checked under symmetry.

**Fairness.** `Drive`'s `Spec` has weak fairness of the steps of each request: the event loop goes
on with a handler whose awaited call is done, and calls of the store and the table return.
Failures, gc, new requests and the clock are not fair: nothing makes them happen. `Answered` needs
this fairness only.

`AgentSpec` has weak fairness of the page's own steps: an action that was asked for is posted
(`Post`) and a timer fires (`Timeout`); the worker owes nothing, because it may die. `McpLoginFairness` is that of
the browser for the pages that are open: a message is delivered (`Delivered`), the poll sees a closed
window (`Cancelled`), the callback page mounts (`Mounted`), and its flow settles or gives up
(`SettlesFor`, `GivesUp`). The user and the authorization server owe nothing, so that `LoginSettles`
begins when the window is at the callback. `MCCells` checks no liveness and has no fairness.

## Proofs

All theorems hold for every value of the constants that meets the named assumptions of the modules
(`KeysAssumption`, `DriveAssumption`, `WorkerAssumption` and so on; TLC evaluates each on the runs):
any number of nodes, writers, collectors, processes, records, requests, pages, machines and
deployers, and no bound on the length of behaviours. An assumption of a theorem beyond these is
named with it.

The form is the same everywhere. The property is seldom inductive, because it speaks of what is at
rest and breaks, if it does, several steps after the cause. The invariant says of each actor on its
own, by the step it is at, what it may rely on of the shared state; a lemma says what a step of one
actor leaves to the others; another, for each action, that the actor's own record is right again.

`CasStoreProofs`

- `TypeCorrect`: `TypeOK`.
- `YoungNodesAreKept`: `YoungNodesKept`. It is not inductive: what gc deletes depends on a times
  blob that lost updates may have set back. `AgeInv` is: every time in the times blob, in a copy of
  it that a call holds, or about to be written, is the clock at some moment at or after the node
  was first stored. So a key with a time before the cut-off was first stored before it
  (`AgesCorrect`).
- `MarkComputesReach` and `PinnedTreeSurvives`: `MarkIsReach`, `TreeSurvives`. `MarkInv` says that
  a visited key is reachable, that the children of a visited key of an intact run are visited or
  queued, and that nothing about to be deleted is in the visited set; `ReachIsLeast` turns a
  closed visited set into one that holds the tree (`MarkedHoldsTree`).
- `FilesReadBack`: `StoredReadsBack`, and the types of `CoreTree`, for every size of keys, nodes and
  files. `TreeInv` says of every node in storage that its children are in storage and lie one beside
  the other from where its data ends (`NodeFits`, `Adjoin`); of every frame of the writer the same of
  the children put so far, and that the bytes left are what its remaining children take, all of them
  full but the last (`RestFits`); and of the reader that what it has given ends where its next child
  begins. That `ChildCount`, rounded up, makes the rest fit and never takes more than a node's space
  is arithmetic (`LayoutFits`). `CoreTreeAssumption`: the space of a node is a whole number of keys, at
  least two (the header and a key are 16 bytes each, and the limits of the code and its tests are
  multiples of 16); the capacity of two levels, which the code has from an exponential of logarithms,
  rounds down to the exact value or to one less (`Rounded`; an excess does not show in comparisons
  with whole sizes); files need two levels, or three with one child of the root. Larger files, whose
  children have sizes that are not whole, are outside of the model and of the theorem.

`DriveProofs`

- `TypeCorrect`: `TypeOK`, from `TypeInv`: each request is on the way of its operation
  (`OnItsWay`), so that what a step uses (a dict, an entry, the realm of a new branch) is there. The
  type of `root` alone is not inductive: `Link` makes a dict of a node and a child read steps ago.
- `UploadsExclude`: `OneUploadAtATime`, with overlap, failures and any number of processes. The
  invariant is about the queues: each holds the uploads in flight to its process and record
  (`HoldsItsUploads`, `InItsQueue`), each once (`EachOnce`), and the one that runs comes first
  (`RunsFirst`).

`DrivePromiseProofs`

- `NoUpdateIsLost`: with `Overlap = FALSE`, `Spec => NoLostUpdate`, the refinement of `FileTree`
  with `tree <- root`. `PromiseInv` says that what a running request has at hand is what its
  operation makes of the roots **as they are now** (`AllRight`, `Right`, `Makes`), that requests
  that share a record are uploads to one process (`Apart`), and that nobody uses a branch before it
  is made (`OnlyMade`). A step of another request leaves it right because it changes only the root
  of its own record (`RootIsOwn`), and that is either not used here or, by the mutex, changes while
  this upload only waits (`OthersStayRight`). Then `SetBranchRoot` is an operation of `FileTree`,
  `SetEmptyRoot` a `Start`, `RemoveRoot` a `Drop`, and every other step a stutter.

`DriveRootsProofs`, under `Sheltered`: requests on one record do not overlap, cut-offs are early
(`Grace`), no handover meets a gc, one realm, one gc at a time. Each of these is needed: without it
TLC has a counterexample (`drive_realms` and `drive_handover`; a branch made from a branch is
handed over too: gc has listed the branches, the new one is not among them, and the entry is removed
from the old one before its root is read; and of two gcs, the one that read a root which was then
replaced finds it deleted by the other, passes over its children, and deletes one that lives on).

- `RootsStayWhole`: `RootsWhole`. `RootsInv` says that the tree of every live root is in storage
  and, once a gc has read that root, in what the gc will visit or too young for it (`Covered`), but
  for `revived`, which has a node's children with it (`RevivedWhole`); that a gc's cut-off is before the start of what is in flight (`CutsAreEarly`); and that what a
  request has put for the first time is there and young (`AllPutAnew`); what a gc has marked, or will,
  is `Marked`. A request that sets a root after gc read it adds only nodes that were in the root, that
  it put first, or that were there and are now `revived`.
- `TransfersKeepTargets`: `TransferKeepsTarget`. The look at the target and the set of the root are
  steps apart (`TargetFree`). It rests on the first theorem: `Exists` takes a target for free when
  the node of the root is not in storage, so that it is right only while roots are whole, and a root
  that is `revived` is excepted here as there.

`ServerProofs`

- `CodesServeOnce` and `RevocationHolds`: `CodesAreForOneUse`, `RevokedIsDead`. `OneHolder`: a pair
  whose code is not yet handed is in the code table or carried by one request, and not both.
  `DeadStayDead`: who could write a row of a revoked delegate back is among the exceptions.
- `SessionsHold`: `SessionHolds`. For each login, the rows that it has are those that a request, an
  answer or the cookie stands for (`OneRequest`, `RowsStand`, `NoRowsMore`), wherever a refresh fails.
- `RemovedServersHaveNoToken`, `RuntimesHold`: `TokensHaveServers`, `RuntimeHolds`. `RuntimeInv`
  says that an open branch is attended by the one request that works on it, and that the record of a
  runtime fits that request's step.
- `RealmsAreKept`, if `~ Cold`: `EnsureKeepsRealm`. `CallKnows` says what a request that is about to
  claim or relink knows of the realm's row; `FullIsSpared` that a request which began when the
  content had settled, so that no read gives an older value (`Readings`), never comes to the reset.
- `ListsAreFresh`: `ListIsFresh`. `Calm` says that the page has no reason to doubt its list and that
  no operation under way has changed anything (`HasChanged`); `ExplorerInv` that then the list it
  shows, and each one it still waits for, is what the directory has (`Fresh`). An operation that
  changed something is not at rest before it has asked for a list or made the page unsure, and that
  rests on how its calls are sent: one that is not a file's goes alone (`StepAlone`), and an operation
  of one call has just that one (`OneCall`).

- About the drive's tools, any number of calls and any trees, patterns and mappings:
  - `RootsAreTrees`: every root and every tree in hand has what is above its entries (`McpTypeOK`).
  - `ToolsTellWhatTheyLose`: `NothingLostUntold`. `McpInv` says, for the step a tool is at, that each
    file of the tree it read is in the tree in hand or among what it will tell (`Keeps`): a move
    whose source or target lies within the other is where that is delicate (`GraftThere`,
    `GraftElsewhere`).
  - `TargetsStayApart`, `ToolsKeep`: `TargetsApart` and, with it, `ToolsKeepFiles`. The check of a
    mapping sorts the targets and compares neighbours; that no target is then below another is the
    argument about the least target after one (`SpecIsValid`). It holds if the paths below a path
    follow it immediately (`PathsFollow`): no name has a character that sorts before "/". The
    theorems assume it, and `drive_targets` shows what happens without it. So what a link adds stays
    when the next is linked (`TransferOK`, `LinkedStay`).

`AgentProofs`

- `DeletionsHold`: `DeletedThreadIsGone`, for every size of a page. `Reached` says which messages a
  deletion has passed at its cursor; `BackendInv` that none of these is left but those that a batch
  skipped.
- `OffersHold`: `OfferedCanBeCalled`, for every cap. `ToolsInv`: while nothing was lost, the memory
  holds all that was ever loaded.
- `CreatedThreadIsFound` (`CreateFindsThread`, the safety half of `ActionEndsWell`) and
  `DoneLoginsHaveTokens` (`DoneHasToken`, that of `LoginEndsWell`).

`WorkerProofs`, about `AgentWorker`: any number of runs, threads, rounds, pulls and restarts.

- `EndedRunsShowNoStream`: `UiStreamsEnd`. The worker's changes are a queue, so the invariant is
  about the queue: what of each run is in it and in what order (`QueueOrder`), and what the page
  shows when it is through (`RunsOutside`). A page that hears nothing, and a run that ends on a rejected
  write, are in `link`.
- `CopiesHold`: `CopiesAreWhole`. `Persisting` says where each message is that a run was answered:
  in IndexedDB and, if it was told, on the page, or in a change on its way. `Remembering` says the
  same of the worker's memory while actions' changes did not overlap (`Calm`): then nothing is in it
  twice and nothing is dropped.
- `AgentTypesHold`: `AgentTypeOK`, of `MCAgent`'s own specification: a step of one part leaves the
  invariants of the others. The type of the worker says more than types, that no copy has a message
  which the backend does not have; for that, `CopiesStored` says it also of the memory that a change
  in flight began with (`base`) and of the answer of a pull, from which the copies are made.

`CommandProofs`

- `SetupsStand`: `SetupStands`. `MachineOk` says, for the step a setup is at, what it has brought
  about of tunnel, credentials, route and callback. That the route leads here needs `clean` machines
  (nobody touched the tunnel or its credentials) and a last routing that was not forgiven;
  that the callback is there needs only that setups do not cross.
- `DataIsOwn`: `OwnData`. `HasBox` says of a command where its two containers are at its step;
  `Unjoined` that a stack which no other displaced is the only one that starts. Which ports are
  taken does not matter: a command reads the port of its own container, and names differ by owner.
  The owners' names are apart by `LocalAssumption`.
- `DevboxHolds`: `DevboxStands`. `DevOk`: the routes that a `cell dev` is about to write are those of
  the file, or it knows them to be stale; `PidsHold`: every command has the PID file as it is.
- `StacksAreServed` and `DeploysSpare`: `StackIsServed`, `DeploySpares`. `DeployerOk` says what a run
  has brought about by its step (code before the stack, secret before the code that reads it, an
  invalidation after the upload), what it has found out, and that it is still so unless another run
  came between; a run whose describe failed has found out that there is no stack, and for it only the
  stack is claimed to be spared. The order of the steps is that of the three commands' scripts, which
  `CellFollows`, `PlatformFollows` and `OtaviaFollows` spell out.
- `DomainsHold`: `DomainsStand`. A command lists records and writes them by identifier later, when
  another may have renamed them: `Kin` says that a record is only ever renamed within the names that
  one `otavia deploy`, already begun, takes for each other, which is transitive because of two labels
  that begin a third one begins the other (`OneFamily`; `LabelsAssumption` says so of the relation).
  A new record's identifier is not in use (`NewIdIsNew`), so that a write by identifier does not meet
  another's record. `RecordsAssumption`: the zone's records at the start are finitely many and differ.
  The proof showed that `HostsLead` needed its second exception: `otavia deploy` of a host takes a
  record whose label begins with its own, and the owner, who had listed it, takes it back by its
  identifier, so that the one who took it leads nowhere. The instance now has such hosts.
- `DevMatchesCloud`: `DevIsLikeCloud`, for URLs of any length and any relation of texts. The two ways
  of a request never look at each other, so `RoutesInv` only says what each will answer to a URL
  (`DevAnswer`, `CloudAnswer`); that these agree is a fact of URLs and rules (`AnswersAgree`). Its
  centre is that both sides take the same URLs for a backend's (`DeclaredAlike`): the proxy looks for
  the longest rule, and finds one, because of two beginnings of one text one begins the other
  (`StartsOrder`, `LongestRule`). `RoutesAssumption`: no mount is empty or `.well-known`, no route is
  `/`, and the relation of texts is one of texts; `ScriptsAssumption`: no route of a cell takes one of
  its own scripts, which Vite would serve and the distribution pass on.
- `ParamsStand`: `CellParamsStand`, for values of any shape and depth. Two `!Param` of a value are never
  one above the other (`OneParamAbove`), so that what is put in the place of each is at its own paths
  (`WithParamsIs`); where there are no arrays, every walk reaches every node (`AllIsWalked`).
  `StacksAssumption`: a value is a tree, whose root is there and whose leaves have nothing below them.
- `ConfigStands`: `ConfigResolves`, for files of any number of keys and values of any shape. The
  invariant `ConfigInv` has one part for each loop. `ParamsInv`, of the calls: no
  key is open twice or open and resolved, and what is resolved is the end of its references. `ObjectsInv`, of the
  loop over the objects: an object it has passed says what it said, with each `!Param` replaced by
  what that param says at the end (`Done`). It refers to objects passed before (`EarlierOnly`), so it
  has no `!Param` left (`NoRefsLeft`) and does not change any more (`SameRefsSame`); `FileDone` is the
  same of the pass over the whole file, arrays and the domain included, which `LoadedInv` keeps. The theorem says this of
  files whose objects refer backwards (`Ordered`): for others the code does leave a `!Param`, since
  the loop reads each object once. That the host has the value of the environment is `SubdomainFrom`.
  `CellFilesAssumption`: values are trees, `order` names the params, a domain has no arrays.
- `TemplatesStand`: `TemplateWhole`, for any cells, names and lengths of stacks. There is a lemma for
  each generator of what its fragment has and what it names, so that a template is whole by adding up
  both. The invariant `TplInv` says of the cells added so far: an otavia stack is whole and has the
  apis that the distribution will point at (`TplCellsIn`), and each of their entries is `Served`, its
  function with its zip and, in otavia, its role with its cell's tables and buckets. A later cell
  leaves these as they are because ids of different cells differ where their names are `Apart`
  (`ServedStill`). The proof showed that this needs a third exception: the frontend is added last,
  and its `SpaRewriteFunction` replaces the function of an entry `rewrite` of a cell `spa`. The
  instance now has such a cell. Nothing is claimed of whether a platform's template is whole: its
  functions name tables by ids without the prefix, because the ref map they are rewritten with has
  only the ids of functions and apis (`merge-platform.ts:220`). `TemplatesAssumption`: every name has
  its words.

Model-checked only:

- Liveness (`Answered`, `ActionSettles`, `LoginSettles`): no backend proves what fairness gives.
- `CodecAgrees` of `NodeCodec`, whose runs are over all inputs of a size: the bytes of a node are
  folds over sequences, and that decoding undoes encoding is an induction over them.
- The type invariant of the sum `MCCells`, `CellsTypeOK`. The types of the parts that have proofs are
  in their invariants.

## Findings

Each is a run that violates a sentence of the repository; `PROJECT.json` quotes it.

- `cas_reput`: a node that is put again while gc runs is deleted although its new write time is
  after the cut-off; gc judged it by the times it had read.
- `cas_write_once`: with s3 or fs the meta blobs never change after their first write, so gc does
  not learn of later nodes and leaves garbage.
- `drive_uploads`: the mutex is of one process; two processes lose an upload.
- `drive_realms`: the gc of a realm deletes the old nodes of the others, which share its store.
- `drive_handover`: the roots gc reads were never current together; an entry that a transfer and a
  close move to the realm root in between is in none of them and its node is deleted.
- `drive_targets`: a transfer's targets `a`, `a-b` and `a/c` pass the check that no target contains
  another, because `a-b` sorts between the other two; linking `a/c` then replaces what `a` brought.
  The proof of `ToolsKeepFiles` came upon it.

`CollectsGarbage` fails with a provider that is not write-once too: an unreachable node that one gc
finds too young is dropped from every blob, and no later gc deletes it (`CasWriteOnce.cfg` with
`WriteOnce = FALSE`, `CutOffs = {2, 3}` and `MaxGcs = 2`).

Three narrower facts the properties leave out on purpose: `StoredReadsBack` lets a file node exceed the
limit by the 64 bytes of its FileInfo, which `computeUsableSpace` does not reserve (`topology.ts:21`,
`node.ts:249`); `RootsWhole` does not speak of an empty
root, whose node `ensureEmptyRoot` does not renew and the next write puts again; and of a record
that is not in the table, since a `setBranchRoot` that comes after `removeBranch` leaves a root row
without a branch.

## Not modelled

Left out of components that are modelled:

- Drive: the expiry of branches, the signature of a branch's URL and of its token, the usage
  counters of a realm (`db/realm-usage-store.ts`: they hold sizes that no other request reads back);
  reading files, stat and the read tools of the MCP server, which change nothing.
- SSO and auth: attributes of cookies, csrf tokens, the redirect to Cognito. The web page
  that lists delegates only shows what the routes answer.
- Agent: rows of settings, the proxy of the chat model, the text of streams, what pages draw, the
  refresh of an MCP server's token. At this commit no page mounts the editor of MCP servers: its
  login is modelled as its component is written.
- Gateway: search and discovery of tools, but for what a load answers.
- Core: hashing (a key is its content) and the streaming of large bodies. Files of more than two levels
  with several children below the root, whose sizes the code's floats make fractional, and its throw for
  a child count that does not fit (`topology.ts:133`).
- Configuration: the final environment of a cell template (`template.ts:142`) overwrites `SSO_BASE_URL`,
  `CELL_BASE_URL` and `CELL_STAGE` after the params are resolved; `CellParamsStand` is about the params.
- Deploys: builds are one step that ends well or not; texts of prompts; properties of resources that
  refer to nothing. DNS propagation is the wait that the code makes.

Not modelled as components: the artist cell (calls in sequence, nothing kept), `packages/encoding`
(pure conversions), the MCP server helper (stateless dispatch), and the other commands (`init`,
`build`, `typecheck`, `lint`, `logs`, `aws`, `cognito`), each one process that calls programs in
order and leaves nothing a later run reads, except files that the user edits.

## Plan

Done: the node store and the drive with their proofs, up to whole roots and kept targets; realm roots
and the MCP tools; grants, sessions and the gateway; the agent; the core format; configuration,
templates, routing, deploys and the commands of a developer's machine; and the proofs of every part's
safety, but for the codec of nodes.

Next, the most important first:

1. `CasStore` shown to implement the store of `Drive` (`Put`, `GcMark`, `GcDelete`) as a refinement, with
   the two theorems that `Drive` now rests on as its parts.
2. Stale reads of roots in `Drive`; `RealmUsage`: counters against gc.
