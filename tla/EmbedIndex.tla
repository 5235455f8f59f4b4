----------------------------- MODULE EmbedIndex -----------------------------
(***************************************************************************)
(* The embedding index of ONE repository key: the rows of code_embeddings, *)
(* the code_repo_state row that says which commit they stand for, the      *)
(* in-memory single-flight slot, and the processes that work on the key:   *)
(*   Lazy      full indexes started by a query (IndexRepoAsyncWithTool)    *)
(*   AutoLoop  the autoindex loop (IncrementalSync, its full fallback)     *)
(*   Sweep     the orphan_sweep tool                                       *)
(* against a repository that is edited and committed meanwhile, a database *)
(* and an embed server that fail, and server restarts.                     *)
(*                                                                         *)
(* A symbol's body is its version number: versions of one symbol only grow *)
(* and those in LiveVers exist in the source (the others mean the symbol   *)
(* is not there).  body_hash is the version, so "newer" can be said.       *)
(***************************************************************************)
EXTENDS Naturals, FiniteSets, Sequences

CONSTANTS
  Syms,        \* symbols
  Files,       \* source files
  FileOf,      \* [Syms -> Files]
  MaxVer,      \* bound: last version of a symbol
  LiveVers,    \* the versions in which a symbol is present in its file
  MaxCommits,  \* bound: commits of the main branch
  Models,      \* embedding models a server may be configured with
  NoModel,     \* the model of no row
  Lazy, AutoLoop, Sweep,   \* processes
  Free,        \* value of slot when nobody holds it
  NoFile,      \* no file is being indexed
  MaxEmbedded, \* AutoIndexOpts.MaxFilesPerRepo; 0 is no cap
  MaxFaults,   \* bound: failing database, embed-server, git or walk calls
  MaxUnread,   \* bound: walks that cannot read some file
  MaxCrashes,  \* bound: server restarts
  Legacy       \* TRUE: the key may start with a pathless state row

Procs == Lazy \cup AutoLoop \cup Sweep
Indexers == Lazy \cup AutoLoop
Vers == 0 .. MaxVer

ASSUME SymsAssumption == FileOf \in [Syms -> Files] /\ NoFile \notin Files
ASSUME BoundsAssumption ==
  /\ MaxVer \in Nat \ {0} /\ MaxCommits \in Nat \ {0} /\ MaxEmbedded \in Nat
  /\ MaxFaults \in Nat /\ MaxUnread \in Nat /\ MaxCrashes \in Nat
  /\ LiveVers \subseteq 1 .. MaxVer /\ Legacy \in BOOLEAN
ASSUME ModelsAssumption == Models # {} /\ NoModel \notin Models
ASSUME ProcsAssumption ==
  /\ Free \notin Procs
  /\ Lazy \cap AutoLoop = {} /\ Lazy \cap Sweep = {} /\ AutoLoop \cap Sweep = {}

VARIABLES
  tree,     \* working tree: the version of every symbol
  hist,     \* the trees committed on the main branch, oldest first
  rows,     \* code_embeddings of the key
  state,    \* code_repo_state of the key
  slot,     \* Pipeline.progress: holder of the per-key index slot
  model,    \* Pipeline.embedModel of the running server
  pc,       \* next step of each process
  loc,      \* local variables of each process
  faults, unread, crashes   \* how much of the bounds is used

vars == <<tree, hist, rows, state, slot, model, pc, loc, faults, unread, crashes>>
repo == <<tree, hist>>
db == <<rows, state>>
budget == <<faults, unread, crashes>>

-----------------------------------------------------------------------------
(* Data. *)

Live(v) == v \in LiveVers
Tree == [Syms -> Vers]
Nothing == [s \in Syms |-> 0]          \* no symbol: an empty hash map

NoRow == [ver |-> 0, model |-> NoModel]
Row == [ver : Vers, model : Models \cup {NoModel}]
NoRows == [s \in Syms |-> NoRow]
NoState == [sha |-> 0, model |-> NoModel, path |-> FALSE]
State == [sha : 0 .. MaxCommits, model : Models \cup {NoModel}, path : BOOLEAN]

\* Operators named Mut_ are faulty variants of the definition after them; no
\* action uses one.  They show that the properties can fail.
Mut_repoMainBranchSHA == Len(hist) + 1
\* head_sha as a commit number; 0 is the "" of a repository with no commit.
repoMainBranchSHA == Len(hist)
StateExists == state.sha # 0
CountEmbeddings == Cardinality({s \in Syms : rows[s] # NoRow})
GetHashes == [s \in Syms |-> rows[s].ver]

\* What a walk that cannot read the files U parses out of the working tree.
Parsed(U) == [s \in Syms |->
                IF Live(tree[s]) /\ FileOf[s] \notin U THEN tree[s] ELSE 0]
FileExists(f) == \E s \in Syms : FileOf[s] = f /\ Live(tree[s])
InFile(f) == {s \in Syms : FileOf[s] = f}
OfFile(f, S) == [s \in Syms |-> IF s \in InFile(f) THEN S[s] ELSE 0]

\* The rows r after an upsert of the symbols S with the bodies of snap; after
\* their deletion.
Upserted(r, S, snap) ==
  [s \in Syms |-> IF s \in S THEN [ver |-> snap[s], model |-> model] ELSE r[s]]
Without(r, S) == [s \in Syms |-> IF s \in S THEN NoRow ELSE r[s]]

\* Files that differ between two commits (git diff --name-only).
gitDiffNames(a, b) == {f \in Files : \E s \in InFile(f) : hist[a][s] # hist[b][s]}

Local == [cur   : 0 .. MaxCommits,   \* currentSHA, read at the start of a run
          first : BOOLEAN,           \* no state row was found / firstIndex
          snap  : Tree,              \* the parsed symbols (0: not seen)
          had   : Tree,              \* the hashes read from the database
          todo  : SUBSET Syms,       \* toEmbed, not yet upserted
          files : SUBSET Files,      \* changed files not yet indexed
          file  : Files \cup {NoFile},
          embedded : Nat,        \* files re-embedded so far
          err   : BOOLEAN,           \* IncrementalSyncResult.Errors is not empty
          periodic : BOOLEAN]        \* the pass is a periodic one, not the boot pass
Loc0 == [cur |-> 0, first |-> FALSE, snap |-> Nothing,
         had |-> Nothing, todo |-> {}, files |-> {}, file |-> NoFile, embedded |-> 0,
         err |-> FALSE, periodic |-> FALSE]

\* Process steps at which the process runs with the slot claimed.
FullSteps == {"lookup", "fastpath", "parse", "hashes", "reconcile", "embed",
              "orphans", "commit", "probe", "rollback"}
SweepSteps == {"sweep_orphan", "sweep_wipe"}
SlotSteps == FullSteps \cup SweepSteps
Steps == SlotSteps \cup {"idle", "boot", "boot_sync", "retry", "wipe", "claim",
                         "sync_lookup", "sync_count", "sync_next", "file_evict",
                         "file_embed", "sync_commit", "claim_orphan", "claim_wipe"}

-----------------------------------------------------------------------------
Init ==
  /\ tree \in [Syms -> {0, 1}]
  /\ hist \in {<<>>, <<tree>>}
  /\ model \in Models
  /\ \/ rows = NoRows /\ state = NoState
     \/ /\ Legacy /\ hist # <<>>
        /\ rows = Upserted(NoRows, {s \in Syms : Live(tree[s])}, tree)
        /\ state = [sha |-> 1, model |-> model, path |-> FALSE]
  /\ slot = Free
  /\ pc = [p \in Procs |-> IF p \in AutoLoop THEN "boot" ELSE "idle"]
  /\ loc = [p \in Procs |-> Loc0]
  /\ faults = 0 /\ unread = 0 /\ crashes = 0

\* A call that fails uses up one unit of the fault bound.
Fault == faults < MaxFaults /\ faults' = faults + 1 /\ UNCHANGED <<unread, crashes>>
Works == UNCHANGED budget
\* A walk that cannot read the files U.
WalksWithout(U) ==
  \/ U = {} /\ Works
  \/ /\ U # {} /\ unread < MaxUnread /\ unread' = unread + 1
     /\ UNCHANGED <<faults, crashes>>

Goto(p, step) == pc' = [pc EXCEPT ![p] = step]
Mut_Return(p) ==
  Goto(p, "idle") /\ loc' = [loc EXCEPT ![p] = Loc0] /\ UNCHANGED slot
\* Return of a process: the deferred release frees the slot it holds.
Return(p) ==
  /\ Goto(p, "idle")
  /\ loc' = [loc EXCEPT ![p] = Loc0]
  /\ slot' = IF slot = p THEN Free ELSE slot
\* Return with an error, which the autoindex loop may retry in the same pass.
Fail(p) ==
  /\ Goto(p, IF p \in AutoLoop THEN "retry" ELSE "idle")
  /\ loc' = [loc EXCEPT ![p] = [Loc0 EXCEPT !.periodic = loc[p].periodic]]
  /\ slot' = IF slot = p THEN Free ELSE slot

-----------------------------------------------------------------------------
(* The repository: a symbol is edited, added or removed; the tree is       *)
(* committed to the main branch, possibly with no symbol changed.          *)

Edit(s) ==
  /\ tree[s] < MaxVer
  /\ tree' = [tree EXCEPT ![s] = @ + 1]
  /\ UNCHANGED <<hist, rows, state, slot, model, pc, loc, budget>>

Commit ==
  /\ Len(hist) < MaxCommits
  /\ hist' = Append(hist, tree)
  /\ UNCHANGED <<tree, rows, state, slot, model, pc, loc, budget>>

\* The server dies and starts again, possibly configured with another model.
Restart ==
  /\ crashes < MaxCrashes
  /\ crashes' = crashes + 1
  /\ slot' = Free
  /\ model' \in Models
  /\ pc' = [p \in Procs |-> IF p \in AutoLoop THEN "boot" ELSE "idle"]
  /\ loc' = [p \in Procs |-> Loc0]
  /\ UNCHANGED <<tree, hist, rows, state, faults, unread>>

-----------------------------------------------------------------------------
(* Model fingerprint, checked without the slot: with no state row nothing  *)
(* happens; a row of the active model purges the vectors of other models;  *)
(* a row of another model wipes the key, in a second transaction.          *)

PurgeForeignRows ==
  /\ StateExists /\ state.model = model
  /\ rows' = Without(rows, {s \in Syms : rows[s].model # model})
  /\ UNCHANGED state

WipeRepo == rows' = NoRows /\ state' = NoState

Invalidated(p) == Goto(p, IF p \in AutoLoop THEN "boot_sync" ELSE "claim")

InvalidateIfModelChanged(p) ==
  \/ Works /\ ~StateExists /\ UNCHANGED db /\ Invalidated(p)
  \/ Works /\ PurgeForeignRows /\ Invalidated(p)
  \/ Works /\ StateExists /\ state.model # model /\ UNCHANGED db /\ Goto(p, "wipe")
  \/ Fault /\ UNCHANGED db /\ Invalidated(p)

InvalidateWipe(p) ==
  /\ pc[p] = "wipe"
  /\ \/ Works /\ WipeRepo
     \/ Fault /\ UNCHANGED db
  /\ Invalidated(p)
  /\ UNCHANGED <<repo, slot, model, loc>>

\* AutoIndex invalidates every key before its first pass.
BootInvalidate(p) ==
  /\ p \in AutoLoop /\ pc[p] = "boot"
  /\ InvalidateIfModelChanged(p)
  /\ UNCHANGED <<repo, slot, model, loc>>

\* A query wants the index: invalidate, then try for the slot.
IndexRepoAsync(p) ==
  /\ p \in Lazy /\ pc[p] = "idle"
  /\ InvalidateIfModelChanged(p)
  /\ UNCHANGED <<repo, slot, model, loc>>

-----------------------------------------------------------------------------
(* The single-flight slot: LoadOrStore gives it to one claimant, a loser   *)
(* returns an empty result with no error.                                  *)

Mut_SlotIsFree == TRUE
SlotIsFree == slot = Free

ClaimIndexSlot(p) ==
  /\ p \in Indexers /\ pc[p] = "claim"
  /\ \/ /\ SlotIsFree
        /\ slot' = p
        /\ loc' = [loc EXCEPT ![p] = [Loc0 EXCEPT !.cur = repoMainBranchSHA,
                                                 !.periodic = loc[p].periodic]]
        /\ Goto(p, "lookup")
     \/ ~SlotIsFree /\ Return(p)
  /\ UNCHANGED <<repo, db, model, budget>>

-----------------------------------------------------------------------------
(* Full index (indexRepoWithTool), one action per database call.           *)

\* GetRepoState and, when it finds nothing, RepoStateExists.  After an error
\* first is FALSE: the verdict fails closed.
FullLookup(p) ==
  /\ pc[p] = "lookup"
  /\ \/ /\ Works
        /\ loc' = [loc EXCEPT ![p].first = ~StateExists]
        /\ Goto(p, IF loc[p].cur # 0 /\ state.sha = loc[p].cur
                   THEN "fastpath" ELSE "parse")
     \/ Fault /\ Goto(p, "parse") /\ UNCHANGED loc
  /\ UNCHANGED <<repo, db, slot, model>>

Mut_RecordedState(p) == [sha |-> repoMainBranchSHA, model |-> model, path |-> TRUE]
\* writeRepoState for the commit the run started from.
RecordedState(p) == [sha |-> loc[p].cur, model |-> model, path |-> TRUE]

\* BackfillRepoSourcePath
WithPath == [state EXCEPT !.path = @ \/ StateExists]
\* runFastPathDryRunReconcile deletes nothing; a pathless row gets its path.
\* The state write that follows may fail and is then swallowed.
RefreshState(p) ==
  \/ Works /\ state' = RecordedState(p)
  \/ Fault /\ state' = WithPath
  \/ Fault /\ UNCHANGED state

\* checkSameSHAFastPath: skip only with at least one row; with none, or when
\* the count fails, index in full.
SkipAllowed == CountEmbeddings > 0
FullFastPath(p) ==
  /\ pc[p] = "fastpath"
  /\ \/ SkipAllowed /\ RefreshState(p) /\ Return(p)
     \/ /\ \/ ~SkipAllowed /\ Works
           \/ Fault
        /\ Goto(p, "parse") /\ UNCHANGED <<state, slot, loc>>
  /\ UNCHANGED <<repo, rows, model>>

\* collectSymbolsCached: an unreadable file is left out without an error.
FullParse(p) ==
  /\ pc[p] = "parse"
  /\ \/ \E U \in SUBSET Files :
          /\ WalksWithout(U)
          /\ loc' = [loc EXCEPT ![p].snap = Parsed(U)]
          /\ Goto(p, "hashes") /\ UNCHANGED slot
     \/ Fault /\ Fail(p)
  /\ UNCHANGED <<repo, db, model>>

Mut_firstIndexVerdict(noState, had) == noState
\* Only a lookup that found no state row, with no row before this run, makes a
\* first index (prevErr and existErr leave first FALSE).
firstIndexVerdict(noState, had) == noState /\ had = Nothing
Mut_filterSymbols(snap, had) == {s \in Syms : snap[s] # 0}
filterSymbols(snap, had) == {s \in Syms : snap[s] # 0 /\ snap[s] # had[s]}

FullHashes(p) ==
  /\ pc[p] = "hashes"
  /\ \/ /\ Works
        /\ loc' = [loc EXCEPT ![p].had = GetHashes,
                              ![p].first = firstIndexVerdict(@, GetHashes),
                              ![p].todo = filterSymbols(loc[p].snap, GetHashes)]
        /\ Goto(p, "reconcile") /\ UNCHANGED slot
     \/ Fault /\ Fail(p)
  /\ UNCHANGED <<repo, db, model>>

\* ReconcileRepoPaths deletes the rows of files that are gone; then the path of
\* a pathless state row is filled in.  Errors are swallowed.
FullReconcile(p) ==
  /\ pc[p] = "reconcile"
  /\ rows' \in {rows, Without(rows, {s \in Syms : ~FileExists(FileOf[s])})}
  /\ state' \in {state, WithPath}
  /\ \/ /\ Works
        /\ rows' = Without(rows, {s \in Syms : ~FileExists(FileOf[s])})
        /\ state' = WithPath
     \/ Fault
  /\ Goto(p, IF loc[p].todo = {} THEN "orphans" ELSE "embed")
  /\ UNCHANGED <<repo, slot, model, loc>>

\* embedChunks commits chunk by chunk (here a chunk is one symbol).  When a
\* chunk fails a first index compensates, another one returns the error.
FullEmbed(p) ==
  /\ pc[p] = "embed"
  /\ \/ \E s \in loc[p].todo :
          /\ Works
          /\ rows' = Upserted(rows, {s}, loc[p].snap)
          /\ loc' = [loc EXCEPT ![p].todo = @ \ {s}]
          /\ Goto(p, IF loc[p].todo = {s} THEN "orphans" ELSE "embed")
          /\ UNCHANGED slot
     \/ /\ Fault /\ UNCHANGED rows
        /\ \/ loc[p].first /\ Goto(p, "probe") /\ UNCHANGED <<loc, slot>>
           \/ ~loc[p].first /\ Fail(p)
  /\ UNCHANGED <<repo, state, model>>

Seen(p) == {s \in Syms : loc[p].snap[s] # 0}
Existing(p) == {s \in Syms : loc[p].had[s] # 0}
shrinkGuardFires(seen, existing) ==
  existing # {} /\ 10 * Cardinality(seen) < 7 * Cardinality(existing)

\* deleteIntraKeyOrphans: rows read before that the parse did not see.  A
\* failure between two batches leaves some of them; it is swallowed.
FullOrphans(p) ==
  /\ pc[p] = "orphans"
  /\ \/ Works /\ shrinkGuardFires(Seen(p), Existing(p)) /\ UNCHANGED rows
     \/ /\ Works /\ ~shrinkGuardFires(Seen(p), Existing(p))
        /\ rows' = Without(rows, Existing(p) \ Seen(p))
     \/ /\ Fault /\ ~shrinkGuardFires(Seen(p), Existing(p))
        /\ \E S \in SUBSET (Existing(p) \ Seen(p)) : rows' = Without(rows, S)
  /\ Goto(p, "commit")
  /\ UNCHANGED <<repo, state, slot, model, loc>>

Embeds(p) == filterSymbols(loc[p].snap, loc[p].had) # {}

\* advanceStateNoEmbed: nothing embedded and an empty table although symbols were
\* parsed keeps the old commit, so that the next run does not skip.
FrozenEmpty(p) == ~Embeds(p) /\ CountEmbeddings = 0 /\ Seen(p) # {}

\* The state write.  Nothing embedded: a failed write is swallowed.  Otherwise
\* writeRepoStateWithRetry; its failure compensates a first index and is
\* swallowed for another one.  No commit, no state row.
FullCommit(p) ==
  /\ pc[p] = "commit"
  /\ \/ /\ Works
        /\ \/ loc[p].cur = 0 /\ UNCHANGED state
           \/ FrozenEmpty(p) /\ UNCHANGED state
           \/ loc[p].cur # 0 /\ ~FrozenEmpty(p) /\ state' = RecordedState(p)
        /\ Return(p)
     \/ /\ Fault /\ loc[p].cur # 0 /\ UNCHANGED state
        /\ \/ Embeds(p) /\ loc[p].first /\ Goto(p, "probe") /\ UNCHANGED <<loc, slot>>
           \/ ~(Embeds(p) /\ loc[p].first) /\ Return(p)
     \/ \* the count before the write fails: the write happens all the same
        /\ Fault /\ loc[p].cur # 0 /\ ~Embeds(p)
        /\ state' = RecordedState(p) /\ Return(p)
  /\ UNCHANGED <<repo, rows, model>>

\* compensateFirstIndexOrphan: probe, then delete the rows of the key.  A state
\* row, or a failing probe, leaves them.  The run fails in any case.
CompensateProbe(p) ==
  /\ pc[p] = "probe"
  /\ \/ Works /\ ~StateExists /\ Goto(p, "rollback") /\ UNCHANGED <<loc, slot>>
     \/ Works /\ StateExists /\ Fail(p)
     \/ Fault /\ Fail(p)
  /\ UNCHANGED <<repo, db, model>>

CompensateDelete(p) ==
  /\ pc[p] = "rollback"
  /\ \/ Works /\ rows' = NoRows
     \/ Fault /\ UNCHANGED rows
  /\ Fail(p)
  /\ UNCHANGED <<repo, state, model>>

FullIndex(p) ==
  \/ FullLookup(p) \/ FullFastPath(p) \/ FullParse(p) \/ FullHashes(p)
  \/ FullReconcile(p) \/ FullEmbed(p) \/ FullOrphans(p) \/ FullCommit(p)
  \/ CompensateProbe(p) \/ CompensateDelete(p)

-----------------------------------------------------------------------------
(* Incremental sync (IncrementalSync, IndexFile): takes no slot.           *)

\* What a periodic pass leaves to the boot pass and to queries: no commit, no
\* state row, or no row although the commit is the recorded one.
LoopSkips ==
  \/ repoMainBranchSHA = 0 \/ ~StateExists
  \/ state.sha = repoMainBranchSHA /\ CountEmbeddings = 0

\* autoIndex leaves a key alone whose slot is taken; a retry of indexWithRetry
\* does not look at the slot again.  A failing lookup in the gate lets a
\* periodic pass go on.
SyncStart(p) ==
  /\ p \in AutoLoop
  /\ \/ pc[p] = "boot_sync" /\ SlotIsFree /\ Works
     \/ pc[p] = "idle" /\ SlotIsFree /\ ~LoopSkips /\ Works
     \/ pc[p] = "idle" /\ SlotIsFree /\ repoMainBranchSHA # 0 /\ Fault
     \/ pc[p] = "retry" /\ Works
  /\ loc' = [loc EXCEPT ![p].cur = repoMainBranchSHA,
                        ![p].periodic = @ \/ pc[p] = "idle"]
  /\ Goto(p, IF repoMainBranchSHA = 0 THEN "claim" ELSE "sync_lookup")
  /\ UNCHANGED <<repo, db, slot, model>>

\* The boot pass finds the slot taken, or a pass has no retry left (RetryMax, or
\* an error that is not retried).
SyncGiveUp(p) ==
  /\ pc[p] = "retry" \/ (pc[p] = "boot_sync" /\ ~SlotIsFree)
  /\ Return(p)
  /\ UNCHANGED <<repo, db, model, budget>>

\* No recorded commit (or a failed lookup), or a failing git diff: full index.
SyncLookup(p) ==
  /\ pc[p] = "sync_lookup"
  /\ \/ Works /\ ~StateExists /\ Goto(p, "claim") /\ UNCHANGED loc
     \/ Works /\ state.sha = loc[p].cur /\ Goto(p, "sync_count") /\ UNCHANGED loc
     \/ /\ Works /\ StateExists /\ state.sha # loc[p].cur
        /\ loc' = [loc EXCEPT ![p].files = gitDiffNames(state.sha, loc[p].cur)]
        /\ Goto(p, "sync_next")
     \/ Fault /\ Goto(p, "claim") /\ UNCHANGED loc
  /\ UNCHANGED <<repo, db, slot, model>>

\* Same commit: skip only with at least one row; with none, or when the count
\* fails, full index.
SyncCount(p) ==
  /\ pc[p] = "sync_count"
  /\ \/ SkipAllowed /\ RefreshState(p) /\ Return(p)
     \/ /\ \/ ~SkipAllowed /\ Works
           \/ Fault
        /\ Goto(p, "claim") /\ UNCHANGED <<state, slot, loc>>
  /\ UNCHANGED <<repo, rows, model>>

AfterFile(p) == IF loc[p].files = {} THEN "sync_commit" ELSE "sync_next"
\* withMaxEmbeddedFiles: only a periodic pass has the cap.
CapReached(p) ==
  loc[p].periodic /\ MaxEmbedded > 0 /\ loc[p].embedded >= MaxEmbedded

\* parseAndDiff of the next changed file; a file that is gone or that cannot be
\* read keeps no symbol.
IndexFileRead(p, f) ==
  /\ pc[p] = "sync_next" /\ f \in loc[p].files /\ ~CapReached(p)
  /\ \/ \E U \in SUBSET {f} :
          /\ WalksWithout(U)
          /\ loc' = [loc EXCEPT ![p].file = f,
                                ![p].files = @ \ {f},
                                ![p].snap = OfFile(f, Parsed(U)),
                                ![p].had = OfFile(f, GetHashes),
                                ![p].todo = filterSymbols(OfFile(f, Parsed(U)),
                                                        OfFile(f, GetHashes))]
          /\ Goto(p, "file_evict")
     \/ /\ Fault
        /\ loc' = [loc EXCEPT ![p].files = @ \ {f}, ![p].err = TRUE]
        /\ Goto(p, IF loc[p].files = {f} THEN "sync_commit" ELSE "sync_next")
  /\ UNCHANGED <<repo, db, slot, model>>

\* An unchanged diff, or the cap on re-embedded files with files left over.
SyncNoFiles(p) ==
  /\ pc[p] = "sync_next" /\ loc[p].files = {}
  /\ Goto(p, "sync_commit")
  /\ UNCHANGED <<repo, db, slot, model, loc, budget>>
SyncTruncated(p) ==
  /\ pc[p] = "sync_next" /\ loc[p].files # {} /\ CapReached(p)
  /\ \/ ~loc[p].err /\ Return(p)
     \/ loc[p].err /\ Fail(p)
  /\ UNCHANGED <<repo, db, model, budget>>

\* DeleteSymbolsForFile with the parsed names as keep-list.
FileEvict(p) ==
  LET gone == {s \in InFile(loc[p].file) : loc[p].snap[s] = 0} IN
  /\ pc[p] = "file_evict"
  /\ \/ /\ Works /\ rows' = Without(rows, gone)
        /\ Goto(p, IF loc[p].todo = {} THEN AfterFile(p) ELSE "file_embed")
        /\ UNCHANGED loc
     \/ /\ Fault /\ UNCHANGED rows
        /\ loc' = [loc EXCEPT ![p].err = TRUE]
        /\ Goto(p, AfterFile(p))
  /\ UNCHANGED <<repo, state, slot, model>>

\* embedAndUpsert of the file; a failure between two batches of the upsert leaves
\* some of the rows written.
FileEmbed(p) ==
  /\ pc[p] = "file_embed"
  /\ \/ /\ Works /\ rows' = Upserted(rows, loc[p].todo, loc[p].snap)
        /\ loc' = [loc EXCEPT ![p].embedded = @ + 1]
     \/ /\ Fault
        /\ \E S \in SUBSET loc[p].todo : rows' = Upserted(rows, S, loc[p].snap)
        /\ loc' = [loc EXCEPT ![p].err = TRUE]
  /\ Goto(p, AfterFile(p))
  /\ UNCHANGED <<repo, state, slot, model>>

Mut_MayAdvance(p) == TRUE
\* The recorded commit advances only when no file failed; a failing write is
\* swallowed.
MayAdvance(p) == ~loc[p].err
SyncCommit(p) ==
  /\ pc[p] = "sync_commit"
  /\ \/ MayAdvance(p) /\ Works /\ state' = RecordedState(p) /\ Return(p)
     \/ MayAdvance(p) /\ Fault /\ UNCHANGED state /\ Return(p)
     \/ ~MayAdvance(p) /\ Works /\ UNCHANGED state /\ Fail(p)
  /\ UNCHANGED <<repo, rows, model>>

IncrementalSync(p) ==
  \/ SyncStart(p) \/ SyncGiveUp(p) \/ SyncLookup(p) \/ SyncCount(p)
  \/ SyncNoFiles(p) \/ SyncTruncated(p) \/ FileEvict(p) \/ FileEmbed(p) \/ SyncCommit(p)
  \/ \E f \in Files : IndexFileRead(p, f)

-----------------------------------------------------------------------------
(* orphan_sweep: list candidates, claim the slot of each, delete.          *)

SweepList(p) ==
  /\ p \in Sweep /\ pc[p] = "idle"
  /\ \/ rows # NoRows /\ ~StateExists /\ Goto(p, "claim_orphan")
     \/ StateExists /\ ~state.path /\ Goto(p, "claim_wipe")
  /\ UNCHANGED <<repo, db, slot, model, loc, budget>>

SweepClaim(p) ==
  /\ pc[p] \in {"claim_orphan", "claim_wipe"}
  /\ \/ /\ SlotIsFree
        /\ slot' = p
        /\ Goto(p, IF pc[p] = "claim_orphan" THEN "sweep_orphan" ELSE "sweep_wipe")
        /\ UNCHANGED loc
     \/ ~SlotIsFree /\ Return(p)
  /\ UNCHANGED <<repo, db, model, budget>>

\* The DELETE repeats the orphan predicate.
OrphanPredicate == ~StateExists
DeleteOrphanRepoKeysForRepo(p) ==
  /\ pc[p] = "sweep_orphan"
  /\ \/ Works /\ rows' = IF OrphanPredicate THEN NoRows ELSE rows
     \/ Fault /\ UNCHANGED rows
  /\ Return(p)
  /\ UNCHANGED <<repo, state, model>>

\* WipeRepo deletes the rows and the state row, whatever they are by now.
SweepPathlessWipe(p) ==
  /\ pc[p] = "sweep_wipe"
  /\ \/ Works /\ WipeRepo
     \/ Fault /\ UNCHANGED db
  /\ Return(p)
  /\ UNCHANGED <<repo, model>>

OrphanSweep(p) ==
  \/ SweepList(p) \/ SweepClaim(p)
  \/ DeleteOrphanRepoKeysForRepo(p) \/ SweepPathlessWipe(p)

-----------------------------------------------------------------------------
Step(p) ==
  \/ BootInvalidate(p) \/ IndexRepoAsync(p) \/ InvalidateWipe(p) \/ ClaimIndexSlot(p)
  \/ FullIndex(p) \/ IncrementalSync(p) \/ OrphanSweep(p)

Next ==
  \/ \E s \in Syms : Edit(s)
  \/ Commit
  \/ Restart
  \/ \E p \in Procs : Step(p)

Spec == Init /\ [][Next]_vars

\* A claimed run goes on to its end: every call in it is bounded by the run's
\* context.  Queries and sweeps need not come, the autoindex loop always does.
Fairness ==
  /\ \A p \in Lazy : WF_vars(ClaimIndexSlot(p) \/ FullIndex(p))
  /\ \A p \in AutoLoop : WF_vars(Step(p))
  /\ \A p \in Sweep : WF_vars(OrphanSweep(p) /\ pc[p] # "idle")
FairSpec == Spec /\ Fairness

-----------------------------------------------------------------------------
(* Properties. *)

\* Every variable has its type.
TypeOK ==
  /\ tree \in Tree
  /\ hist \in Seq(Tree) /\ Len(hist) <= MaxCommits
  /\ rows \in [Syms -> Row] /\ state \in State
  /\ slot \in Procs \cup {Free} /\ model \in Models
  /\ pc \in [Procs -> Steps] /\ loc \in [Procs -> Local]
  /\ faults \in Nat /\ unread \in Nat /\ crashes \in Nat

\* Exactly the holder of the slot is inside a full index or a sweep's delete:
\* no two of them overlap, and none of them leaves the slot taken behind it
\* (claimIndexSlot, ClaimIndexSlot).
SlotExclusive == \A p \in Procs : pc[p] \in SlotSteps <=> slot = p

\* What head_sha promises about symbol s: if it has been in the source ever
\* since the recorded commit, a body at least as new as the commit's is indexed.
Covered(s) ==
  LET v == hist[state.sha][s] IN
  (\A w \in v .. tree[s] : Live(w)) => rows[s] # NoRow /\ rows[s].ver >= v
\* The state row never names a commit whose changes are not in the index,
\* whatever fails, restarts or is committed between the steps of a run
\* (indexRepoWithTool, IncrementalSync: the SHA advances only on full success).
RecordedCommitCovered == StateExists => \A s \in Syms : Covered(s)

\* The compensating delete only meets rows its own run wrote, of a key that
\* has no state row (firstIndexVerdict, compensateFirstIndexOrphan).
CompensatesOwnRows ==
  \A p \in Indexers : pc[p] = "rollback" =>
    /\ ~StateExists
    /\ \A s \in Syms : rows[s] # NoRow =>
         /\ loc[p].had[s] = 0
         /\ rows[s].ver = loc[p].snap[s]

\* A taken slot is given back: a slot left behind would keep the key from ever
\* being indexed again (the release closures of claimIndexSlot).
SlotReleased == slot # Free ~> slot = Free

\* Once the repository and the failures come to rest, the autoindex loop
\* brings the recorded commit of an indexed key to the head of the main branch,
\* also when the cap on files cuts its passes short (withMaxEmbeddedFiles,
\* LoopSkipReason, indexWithRetry).
Converges == <>[](StateExists => state.sha = repoMainBranchSHA)

=============================================================================
