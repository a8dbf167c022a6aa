------------------------------ MODULE DriveMcp ------------------------------
(***************************************************************************)
(* The write tools of the drive's MCP server (executeTool), on trees of    *)
(* any depth: mkdir, rm, mv and cp over path patterns, alone or several in *)
(* one fs_batch, fs_write, transfer_paths, create_branch and close_branch. *)
(* A tool reads the root of its record, builds a new tree from it, and     *)
(* sets the root at its end; other requests set roots in between.          *)
(*                                                                         *)
(* A node is the function from the paths below it, with the empty path for *)
(* itself, to its content.  Names of digits only, which the code also      *)
(* takes for positions in a dict, are left out.                            *)
(***************************************************************************)
EXTENDS Naturals, SequencesExt

CONSTANTS
  McpMain, McpChild,  \* a branch, and one that is created below it
  McpFiles,           \* contents of files
  Dict,               \* the content of a directory
  EntryNames,         \* the names in paths
  NoRoot,             \* the root of a record that has none
  SortedPaths,        \* the paths that tools name, in the order of their strings
  Patterns,           \* [parent : path, leaves : the names it matches]
  Templates,          \* where mv and cp put a match: [dir : path, name : path]
  StartTrees,         \* trees that the records have or other requests set
  TransferSpecs,      \* mappings that transfers ask for: sequences of [from, to]
  MaxCalls,           \* bound on the tool calls of a behaviour
  MaxCommands,        \* bound on the commands of a batch
  MaxForeign          \* bound on the roots that other requests set

McpRecords == {McpMain, McpChild}

ToolPaths == ToSet(SortedPaths)

EmptyTree == [p \in {<<>>} |-> Dict]

FileNode(f) == [p \in {<<>>} |-> f]

(* A path is below a directory at each of its beginnings. *)
IsTree(t) ==
  /\ DOMAIN t \subseteq Seq(EntryNames) /\ <<>> \in DOMAIN t
  /\ \A p \in DOMAIN t :
       /\ t[p] \in McpFiles \union {Dict}
       /\ \A k \in 0 .. Len(p) :
            SubSeq(p, 1, k) \in DOMAIN t /\ (k < Len(p) => t[SubSeq(p, 1, k)] = Dict)

ASSUME McpAssumption ==
  /\ McpMain # McpChild /\ Dict \notin McpFiles /\ NoRoot \notin StartTrees
  /\ SortedPaths \in Seq(Seq(EntryNames) \ {<<>>}) /\ \A t \in StartTrees : IsTree(t)
  /\ \A i, j \in DOMAIN SortedPaths : SortedPaths[i] = SortedPaths[j] => i = j
  /\ Patterns \subseteq [parent : Seq(EntryNames), leaves : SUBSET EntryNames]
  /\ Templates \subseteq [dir : Seq(EntryNames), name : Seq(EntryNames)]
  /\ TransferSpecs \subseteq Seq([from : Seq(EntryNames), to : ToolPaths])
  /\ MaxCalls \in Nat /\ MaxCommands \in Nat \ {0} /\ MaxForeign \in Nat

VARIABLES
  mroot,    \* the root of each record
  mopen,    \* the branches in the table
  tool,     \* the tool call in flight
  toolCalls, foreign

mcpVars == <<mroot, mopen, tool, toolCalls, foreign>>

(* base is the tree that the tool read, tree what it has made of it.  tombs are  *)
(* the tombstones it will answer with; silent, which no guard reads, is what     *)
(* mkdir and write have put something else in the place of.  A command on a      *)
(* pattern began at the tree start and has still to do the matches todo; a       *)
(* transfer began at the target start and has linked the first entries of spec.  *)
NoTool == [pc |-> "idle", name |-> "none", rec |-> McpMain, base |-> EmptyTree,
           tree |-> EmptyTree, tombs |-> {}, silent |-> {}, ran |-> 0,
           command |-> "none", todo |-> {}, start |-> EmptyTree, spec |-> <<>>, linked |-> 0]

-----------------------------------------------------------------------------
(* tree-mutations.ts and root-resolver.ts *)

Below(p, q) == IsPrefix(p, q)

Drop(q, n) == SubSeq(q, n + 1, Len(q))

(* resolvePath *)
Subtree(t, p) ==
  [s \in {Drop(q, Len(p)) : q \in {x \in DOMAIN t : Below(p, x)}} |-> t[p \o s]]

(* removeEntryAtPath *)
Cut(t, p) == [q \in {x \in DOMAIN t : ~Below(p, x)} |-> t[q]]

(* A path below a file cannot be added to.  A plausible bug looks at the root only. *)
BlockedAtTop(t, p) == p # <<>> /\ t[<<>>] # Dict
Blocked(t, p) == \E k \in 0 .. Len(p) - 1 :
  LET up == SubSeq(p, 1, k) IN up \in DOMAIN t /\ t[up] # Dict

(* ensurePathThenAddOrReplace: missing directories are made. *)
Graft(t, p, n) ==
  LET kept == {q \in DOMAIN t : ~Below(p, q)} \union {SubSeq(p, 1, k) : k \in 0 .. Len(p) - 1}
      new == {p \o s : s \in DOMAIN n}
  IN  [q \in kept \union new |->
         IF q \in new THEN n[Drop(q, Len(p))] ELSE IF q \in DOMAIN t THEN t[q] ELSE Dict]

(* resolvePathPatternMatches *)
Matches(t, pattern) ==
  {p \in ToolPaths : /\ p \in DOMAIN t /\ Len(p) = Len(pattern.parent) + 1
                     /\ Below(pattern.parent, p) /\ Last(p) \in pattern.leaves}

Position(p) == CHOOSE i \in DOMAIN SortedPaths : SortedPaths[i] = p

(* applyPathTemplate: a fixed path, or the name of the match in a directory *)
Rendered(template, p) ==
  IF template.name = <<>> THEN template.dir \o <<Last(p)>> ELSE template.dir \o template.name

-----------------------------------------------------------------------------
(* What the commands make of the tree and of the tombstones so far. *)

Work(t) == [tree |-> t.tree, tombs |-> t.tombs, silent |-> t.silent, failed |-> FALSE]

Tombstone(w, p) == [path |-> p, node |-> Subtree(w.tree, p)]

(* applyMkdirPaths and fs_write put an empty directory or a file in the place of *)
(* what is there.                                                               *)
PutAt(w, p, n) ==
  IF Blocked(w.tree, p) THEN [w EXCEPT !.failed = TRUE]
  ELSE [w EXCEPT !.tree = Graft(@, p, n),
                 !.silent = IF p \in DOMAIN w.tree THEN @ \union {Tombstone(w, p)} ELSE @]

(* applyRmPatterns: a match that is gone by then is passed over. *)
RmAt(w, p) ==
  IF p \notin DOMAIN w.tree THEN w
  ELSE [w EXCEPT !.tree = Cut(@, p), !.tombs = @ \union {Tombstone(w, p)}]

(* Of a target that is in the way, the tombstone is kept.  A plausible bug: it  *)
(* is looked for in the tree that the command began with.                       *)
OverwriteKnown(w, to, start) ==
  IF to \in DOMAIN start
  THEN [w EXCEPT !.tombs = @ \union {[path |-> to, node |-> Subtree(start, to)]}] ELSE w

Overwrite(w, to, start) ==
  IF to \in DOMAIN w.tree THEN [w EXCEPT !.tombs = @ \union {Tombstone(w, to)}] ELSE w

Added(w, to, node) ==
  IF Blocked(w.tree, to) THEN [w EXCEPT !.failed = TRUE] ELSE [w EXCEPT !.tree = Graft(@, to, node)]

(* applyMoveOrCopyPatterns: a copy links the node that matched, a move the one  *)
(* that is at the path by then; a match that is gone is passed over.            *)
CopyTo(w, p, to, start) == Added(Overwrite(w, to, start), to, Subtree(start, p))

MoveTo(w, p, to, start) ==
  LET noted == Overwrite(w, to, start)
  IN  IF p \notin DOMAIN w.tree THEN noted
      ELSE Added([noted EXCEPT !.tree = Cut(@, p)], to, Subtree(w.tree, p))

MatchAt(w, c, p, start) ==
  CASE c.name = "rm" -> RmAt(w, p)
    [] c.name = "cp" -> CopyTo(w, p, Rendered(c.to, p), start)
    [] c.name = "mv" -> MoveTo(w, p, Rendered(c.to, p), start)

PatternCommands ==
  [name : {"rm"}, from : Patterns] \union [name : {"mv", "cp"}, from : Patterns, to : Templates]

-----------------------------------------------------------------------------
McpInit ==
  /\ mopen \in {{McpMain}, McpRecords}
  /\ mroot \in [McpRecords -> {NoRoot} \union StartTrees]
  /\ McpChild \notin mopen => mroot[McpChild] = NoRoot
  /\ tool = NoTool /\ toolCalls = 0 /\ foreign = 0

Quiet == UNCHANGED <<toolCalls, foreign>>

CallMcp(name, rec) ==
  /\ tool.pc = "idle" /\ toolCalls < MaxCalls /\ rec \in mopen
  /\ toolCalls' = toolCalls + 1
  /\ tool' = [NoTool EXCEPT !.pc = "root", !.name = name, !.rec = rec]
  /\ UNCHANGED <<mroot, mopen, foreign>>

FailMcp == tool' = NoTool

(* getRootForMcpWrite of a worker; a branch without a root gets the empty one. *)
GetRootForMcpWrite ==
  /\ tool.pc = "root" /\ Quiet /\ UNCHANGED <<mroot, mopen>>
  /\ LET r == mroot[tool.rec]
     IN  IF tool.rec \notin mopen THEN FailMcp
         ELSE IF r = NoRoot THEN tool' = [tool EXCEPT !.pc = "empty"]
         ELSE tool' = [tool EXCEPT !.pc = "run", !.base = r, !.tree = r]

SetMcpEmpty ==
  /\ tool.pc = "empty" /\ Quiet /\ UNCHANGED mopen
  /\ mroot' = [mroot EXCEPT ![tool.rec] = EmptyTree]
  /\ tool' = [tool EXCEPT !.pc = "run"]

MayRun ==
  /\ tool.pc = "run" /\ tool.ran < IF tool.name = "fs_batch" THEN MaxCommands ELSE 1
  /\ Quiet /\ UNCHANGED <<mroot, mopen>>

(* When a command throws the tool ends, and what a batch has done so far is dropped. *)
Continue(w, rest) ==
  IF w.failed THEN FailMcp
  ELSE tool' = [rest EXCEPT !.tree = w.tree, !.tombs = w.tombs, !.silent = w.silent]

(* mkdir, alone or in a batch, and fs_write *)
RunPut(p, n) ==
  /\ MayRun
  /\ Continue(PutAt(Work(tool), p, n), [tool EXCEPT !.ran = @ + 1])

(* rm, mv and cp: the matches are looked up before the first is done. *)
RunPattern(c) ==
  /\ MayRun
  /\ LET found == Matches(tool.tree, c.from)
     IN  tool' = [tool EXCEPT !.pc = IF found = {} THEN "run" ELSE "match", !.ran = @ + 1,
                              !.command = c, !.todo = found, !.start = tool.tree]

(* The next match, in the order of the dict; rm goes from the last to the first. *)
ApplyMatch(p) ==
  /\ tool.pc = "match" /\ Quiet /\ UNCHANGED <<mroot, mopen>>
  /\ \A q \in tool.todo : IF tool.command.name = "rm" THEN Position(q) <= Position(p)
                                                     ELSE Position(p) <= Position(q)
  /\ Continue(MatchAt(Work(tool), tool.command, p, tool.start),
              IF tool.todo = {p} THEN [tool EXCEPT !.pc = "run", !.command = "none", !.todo = {},
                                                   !.start = EmptyTree]
                                 ELSE [tool EXCEPT !.todo = @ \ {p}])

CommitMcp ==
  /\ tool.pc = "run" /\ tool.name \in {"fs_tool", "fs_batch"} /\ tool.ran > 0 /\ Quiet
  /\ mroot' = [mroot EXCEPT ![tool.rec] = tool.tree]
  /\ tool' = NoTool
  /\ UNCHANGED mopen

-----------------------------------------------------------------------------
(* transfer_paths *)

(* validateTransferSpec: of the targets in the order of their strings, none is  *)
(* below the one before it.  A spec is a sequence of pairs of paths.            *)
TargetsOf(spec) == {spec[i].to : i \in DOMAIN spec}

SpecIsValid(spec) ==
  LET Target(i) == SortedPaths[i] \in TargetsOf(spec)
  IN  /\ \A i, j \in DOMAIN spec : i # j => spec[i].to # spec[j].to /\ spec[i].from # spec[j].from
      /\ \A i, j \in DOMAIN SortedPaths :
           i < j /\ Target(i) /\ Target(j) /\ (\A k \in i + 1 .. j - 1 : ~ Target(k))
             => ~ Below(SortedPaths[i], SortedPaths[j])

(* executeTransfer: a target without a root gets the empty one; the entries are  *)
(* all found before the first is added.                                         *)
StartTransfer(rec, spec, mode) ==
  /\ tool.pc = "idle" /\ toolCalls < MaxCalls /\ rec \in mopen /\ SpecIsValid(spec)
  /\ McpMain \in mopen /\ mroot[McpMain] # NoRoot
  /\ toolCalls' = toolCalls + 1
  /\ LET source == mroot[McpMain]
         target == IF mroot[rec] = NoRoot THEN EmptyTree ELSE mroot[rec]
         ok == \A i \in DOMAIN spec : /\ spec[i].from \in DOMAIN source
                                      /\ mode = "fail_if_exists" => spec[i].to \notin DOMAIN target
     IN  /\ mroot' = [mroot EXCEPT ![rec] = target]
         /\ tool' = IF ok THEN [NoTool EXCEPT !.pc = "link", !.name = "transfer_paths", !.rec = rec,
                                              !.base = source, !.tree = target, !.spec = spec,
                                              !.start = target]
                     ELSE tool
  /\ UNCHANGED <<mopen, foreign>>

LinkEntry ==
  /\ tool.pc = "link" /\ tool.linked < Len(tool.spec) /\ Quiet /\ UNCHANGED <<mroot, mopen>>
  /\ LET e == tool.spec[tool.linked + 1]
     IN  Continue(Added(Work(tool), e.to, Subtree(tool.base, e.from)), [tool EXCEPT !.linked = @ + 1])

(* The root is set only where the links have changed the target. *)
SetTransferred ==
  /\ tool.pc = "link" /\ tool.linked = Len(tool.spec) /\ Quiet /\ UNCHANGED mopen
  /\ mroot' = IF tool.tree = tool.start THEN mroot ELSE [mroot EXCEPT ![tool.rec] = tool.tree]
  /\ tool' = NoTool

-----------------------------------------------------------------------------
(* Branches, and the rest of the drive *)

(* create_branch of a worker: the entry at the mount path is the new root. *)
CreateMcpBranch(p) ==
  /\ tool.pc = "idle" /\ toolCalls < MaxCalls /\ McpMain \in mopen /\ McpChild \notin mopen
  /\ mroot[McpMain] # NoRoot /\ p \in DOMAIN mroot[McpMain]
  /\ toolCalls' = toolCalls + 1
  /\ mopen' = mopen \union {McpChild}
  /\ tool' = [NoTool EXCEPT !.pc = "mount", !.rec = McpChild, !.tree = Subtree(mroot[McpMain], p)]
  /\ UNCHANGED <<mroot, foreign>>

SetMcpMount ==
  /\ tool.pc = "mount" /\ Quiet /\ UNCHANGED mopen
  /\ mroot' = [mroot EXCEPT ![tool.rec] = tool.tree]
  /\ tool' = NoTool

(* close_branch, of another request *)
CloseMcpBranch(rec) ==
  /\ rec \in mopen /\ foreign < MaxForeign
  /\ foreign' = foreign + 1
  /\ mopen' = mopen \ {rec}
  /\ mroot' = [mroot EXCEPT ![rec] = NoRoot]
  /\ UNCHANGED <<tool, toolCalls>>

(* Another request sets the root meanwhile. *)
ForeignRoot(rec, t) ==
  /\ rec \in mopen /\ foreign < MaxForeign /\ tool.pc # "idle"
  /\ foreign' = foreign + 1
  /\ mroot' = [mroot EXCEPT ![rec] = t]
  /\ UNCHANGED <<mopen, tool, toolCalls>>

McpNext ==
  \/ \E rec \in McpRecords :
       \/ \E name \in {"fs_tool", "fs_batch"} : CallMcp(name, rec)
       \/ \E spec \in TransferSpecs, mode \in {"replace", "fail_if_exists"} :
            StartTransfer(rec, spec, mode)
       \/ CloseMcpBranch(rec)
       \/ \E t \in StartTrees : ForeignRoot(rec, t)
  \/ GetRootForMcpWrite \/ SetMcpEmpty \/ CommitMcp \/ LinkEntry \/ SetTransferred \/ SetMcpMount
  \/ \E p \in ToolPaths : RunPut(p, EmptyTree)
  \/ tool.name = "fs_tool" /\ \E p \in ToolPaths, f \in McpFiles : RunPut(p, FileNode(f))
  \/ \E c \in PatternCommands : RunPattern(c)
  \/ \E p \in tool.todo : ApplyMatch(p)
  \/ \E p \in ToolPaths : CreateMcpBranch(p)

McpSpec == McpInit /\ [][McpNext]_mcpVars

-----------------------------------------------------------------------------
(* Every root, and every tree a tool builds, is a tree: what a path is below is *)
(* a directory, whatever commands moved, replaced or removed it.                *)
McpTypeOK ==
  /\ \A r \in McpRecords : mroot[r] # NoRoot => IsTree(mroot[r])
  /\ IsTree(tool.tree) /\ IsTree(tool.base) /\ IsTree(tool.start)
  /\ mopen \subseteq McpRecords /\ toolCalls \in 0 .. MaxCalls /\ foreign \in 0 .. MaxForeign

ContentsOf(t) == {t[p] : p \in DOMAIN t} \ {Dict}

(* What a tool takes out of the tree it read, it tells: when it sets the root,  *)
(* each file it read is in the new tree or below a tombstone it answers with,   *)
(* unless mkdir or fs_write, which give no tombstones, were asked to put        *)
(* something in its place or in that of a directory above it.                   *)
NothingLostUntold ==
  [][CommitMcp =>
       \A p \in DOMAIN tool.base :
         \/ tool.base[p] \in {Dict} \union ContentsOf(mroot'[tool.rec])
         \/ \E t \in tool.tombs \union tool.silent : tool.base[p] \in ContentsOf(t.node)]_mcpVars

(* The targets of a transfer that goes on are not above one another, as          *)
(* validateTransferSpec says of what it accepts.                                 *)
TargetsApart ==
  tool.pc = "link" =>
    \A i, j \in DOMAIN tool.spec : i # j => ~ Below(tool.spec[i].to, tool.spec[j].to)

(* A transfer, applied, leaves each of its targets with the node of its source, *)
(* whatever the root was before: no link drops what another has brought.        *)
TransferLinksAll ==
  [][SetTransferred /\ mroot' # mroot =>
       \A i \in DOMAIN tool.spec :
         Subtree(mroot'[tool.rec], tool.spec[i].to) = Subtree(tool.base, tool.spec[i].from)]_mcpVars

(* Nothing that the tools move or write over is gone without a word, and a     *)
(* transfer is whole.                                                           *)
ToolsKeepFiles == NothingLostUntold /\ TransferLinksAll
=============================================================================
