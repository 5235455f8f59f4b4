# A TLA+ model of vaelor

vaelor is an MCP server for code intelligence, written in Go. It parses
repositories with tree-sitter and go/types, keeps a semantic index and a code
graph of each repository in PostgreSQL, clones remote repositories, and answers
tool calls of language-model agents from them. Most of its code is request-scoped
and functional. What can go wrong in a way a unit test hardly reaches is the state
that outlives a request: the index and its bookkeeping row, the shared caches and
budgets, the clones on disk, the background loops. That state is what these modules
model.

Layout: `X.tla` is a component, `XProofs.tla` its theorems and their proofs (with the
inductive invariants, or `XInv.tla` where TLC looks at them too), `MCX.tla` its instances for TLC, and each `*.cfg` is
a run. `PROJECT.json` maps every definition to the lines it stands for and lists
runs, mutants, findings, hazards and theorems.

## Inventory

| Part | State it keeps | Operations | What is hard | What makes it correct | Module |
|---|---|---|---|---|---|
| Embedding index (`internal/embeddings/pipeline*.go`, `store*.go`, `repo_state.go`) | `code_embeddings`, `code_repo_state`, the in-memory slot per key | full index, incremental sync, index one file, invalidate, wipe | writers with and without the slot; crashes and failures between two database calls; a tree that moves during a run | the recorded commit never promises more than the rows hold; a slot is exclusive and given back; destructive deletes only hit what they mean | EmbedIndex |
| Autoindex loop (`autoindex.go`) | rotation offset, worker pool | boot pass, periodic passes, retries | runs that overlap queries; passes cut by a cap | every indexed key reaches the head of its branch | EmbedIndex |
| orphan_sweep (`cmd/vaelor/tool_orphan_sweep.go`) | none of its own | delete orphan, pathless, path-missing keys | acts on a list made before the slot is claimed | a slotted index loses no rows to it | EmbedIndex |
| Sparse vectors (`backfill.go`, `pipeline_sparse.go`) | `sparse_embedding` of the rows | write after an upsert, page through the NULLs | two writers by key; sources that drift; pages that cannot progress | the two vectors of a row embed one body; a run ends, and not too early | SparseBackfill |
| Typed load (`internal/callgraph/typed_load.go`, `goanalysis/prime.go`) | flights, memory budget, build gate | join or start a load, prime, queue, load, drop | waiters that leave early, orphaned loads, panics, two budgets charged in one gate | budget never exceeded and held while there are readers; released once; no deadlock | TypedLoad |
| Call graph caches (`callgraph/repo.go`, `repo_cache.go`, `warm_registry.go`) | LRU, Redis entries, registry of background warms | build, cache, divert, warm, publish | notes that outlive their reason; failures and panics of a goroutine nobody waits for; a restart with entries left in Redis | one warm at a time; no caller is told for ever that one runs or has failed | CallGraphCache |
| File watcher, graph refresher, graph builds (`cmd/vaelor/filewatcher.go`, `graph_refresher.go`, `age_graph_gate.go`, `graph_freshness.go`, `internal/codegraph`) | event channel, timers, two registries, graph and row | enqueue, debounce, refresh, background build, forced drop, self-heal, IndexRepo | an edit while a build runs; statements that commit one by one | one build per registry; the row says what is in the graph; edits reach it | GraphBuild |
| Clones (`internal/ingest`, `internal/workspace`) | clone directories, reference counts | clone, refresh, swap, acquire, release, remove | readers during a refresh or removal; crash in a swap | the last reader deletes; a swap is seamless; no swap leaves its `.tmp`; a broken tree heals | CloneDir |
| GitHub requests (`internal/forge/github_search_retry.go`, `githubapp.go`) | cached token, single flight | attempt, wait, retry, fetch | tokens about to expire, a fetch under somebody else's context, retries of three kinds | no expired token is sent; one fetch for all; every request ends | GitHubCall |
| Ingest cache (`internal/ingest/cache.go`, `ingest.go`) | an LRU of listings, Redis entries | list a tree, check an entry, evict, store | a tree that moves between a walk and its hash, or where the hash does not look; two maps to keep in step; entries that outlive the server | an answer is trusted under a hash the tree had during its call; what is wrong all the same goes away | IngestCache |
| singleflight (vendored) | one run per key | join, finish, leave | who waits when it ends | one run at a time, one outcome for all who wait | SingleFlight |
| Task DAG (`internal/goutil/dag.go`) | per-task status | run | | not called by the program | none |
| Everything else | none that outlives a call | parsing, ranking, rendering, HTTP clients | large data, numeric scores | | none |

How they interact: a query (`semantic_search`, `code_research`) finds the key
missing and starts a full index in the background; the autoindex loop syncs all
local keys; the file watcher indexes single files and triggers the graph refresher;
orphan_sweep deletes keys; full indexes and sweeps claim the same in-memory slot,
incremental syncs and the watcher do not. An index writes dense vectors, then sparse
ones; the backfill fills in what is missing. Graph builds and call-graph tools share
typed loads. Indexes, graph builds and tools list a tree through the ingest cache. Tools
on remote repositories share clones. Cold clones and token fetches
go through singleflight.

Composition: `GraphBuild` composes the watcher, the refresher, the gate, the tools and
IndexRepo around one graph; `EmbedIndex` composes queries, loop and sweep around one
key; `SparseBackfill` composes the indexer's sparse leg with the backfill; `TypedLoad`
composes loads, gate, semaphore and prewarms. `SingleFlight` is an abstract
specification that both `CloneDir` and `GitHubCall` are shown to implement
(`Flight == INSTANCE SingleFlight WITH ...`, the property `ImplementsSingleFlight`).

## Runs

| Run | Module | Expected | Question |
|---|---|---|---|
| `embed_full` | EmbedIndex | pass | do queries and a sweep keep slot, promise and rows, whatever fails |
| `embed_sync` | EmbedIndex | pass | does the loop alone keep the promise and reach the head |
| `embed_all` | EmbedIndex | pass | is the slot always given back with all actors at work |
| `typed_load` | TypedLoad | pass | is the budget exact and held, whatever deadlines pass |
| `typed_progress` | TypedLoad | pass | do gate and budget never wait for each other |
| `sparse` | SparseBackfill | pass | do the vectors agree and do backfills end, and not too early |
| `graph_cache` | CallGraphCache | pass | one warm at a time, and does every note go away |
| `graph_build` | GraphBuild | pass | one build per registry; does the row tell the truth; do calm edits that the fingerprint sees arrive |
| `clone` | CloneDir | pass | reader count, swap, `.tmp` sibling, single flight, healing |
| `clone_held` | CloneDir | counterexample | is a clone only removed while nobody holds it |
| `github` | GitHubCall | pass | live tokens, one fetch, an end to every request |
| `ingest` | IngestCache | pass | is an answer's hash one of its call, is its listing of that hash, and does a wrong listing go away |

Every property of a passing run has a mutant in `PROJECT.json`: a plausible bug in one
mapped definition under which TLC finds the property violated in the same run.

The counterexample is the project's finding.

- `clone_held`: the comment in `clone.go` says the directory "is removed only at
  refcount=0". `ReleaseCloneRef` decides under the lock but deletes after it, and
  `CloneRepo` looks at the path without the lock; a call in between takes its reference
  and loses the tree while it reads.

Other places where the code and a comment part, without a property of their own, are
listed with both lines among the hazards of `PROJECT.json`. Three of them bear on what
`GraphBuild` and `IngestCache` can promise:

- `codegraph.IndexRepo` and the ingest cache both hash the tree after they have read it.
  An edit in between leaves the old content under the new hash. `GraphBuild` sets it aside
  by a history variable (`calm`), `IngestCache` marks the one entry it makes (`torn`).
- `RepoContentHash`, on which both rely, sees less than the walk and the parser: of a file
  its name, its size and its first 4096 bytes (an edit of the same size further on is
  missed), no name that begins with a dot (`.gitignore`, which decides the listing, or
  `.github`, which the walk enters), nothing below depth 10 (the walk goes to 20), no
  modification time. Both modules have edits the hash does not see, and no property
  promises anything of them until a TTL is over, although `ingest.go:121-123` says that a
  checkout "invalidates the entry immediately", `cache.go:313-318` that the size "catches
  append/truncate/tail-edits", and `filewatcher.go:42-45` that a watched edit does not
  leave the graph "silently going stale".
- `age_graph_gate.go:14-16` says "only one IndexRepo per repoKey may run at a time across
  all tools", because AGE is not safe for concurrent writes. The code has two registries
  that do not know of each other and two tools that use neither: a refresh, a gate's build
  and the builds of `code_graph` and `remember_graph_insights` may write one graph at once,
  and do in the model. `OneBuildEach` says what the registries do give.

## EmbedIndex

One repository key and everything that touches it.

| Variable | In the code |
|---|---|
| `tree`, `hist` | the working tree and the main branch, as versions of symbols; edited and committed by somebody else |
| `rows` | `code_embeddings` of the key: body hash and model of each symbol |
| `state` | its `code_repo_state` row: head_sha, embed_model, whether source_path is set |
| `slot` | `Pipeline.progress`, the per-key single-flight slot |
| `model` | the model this server process embeds with |
| `pc`, `loc` | where each process is and its local variables |
| `faults`, `unread`, `crashes` | how much of the bounds is used |

A body is a version number; versions of a symbol only grow and those outside
`LiveVers` mean that the symbol is not there. Since the body hash of a row is its
version, "older" and "newer" can be said of rows.

Processes: `Lazy` (a full index started by a query: `IndexRepoAsync`,
`InvalidateWipe`, `ClaimIndexSlot`, `FullLookup` ... `FullCommit`, with
`CompensateProbe` and `CompensateDelete` after a failure), `AutoLoop`
(`BootInvalidate`, then passes of `SyncStart`, `SyncLookup`, `SyncCount`,
`IndexFileRead`, `FileEvict`, `FileEmbed`, `SyncCommit`, or the full index when the
code falls back to it; `SyncGiveUp` ends a pass that is not retried), `Sweep`
(`SweepList`, `SweepClaim`, then one of two deletes). One action is one database
call or one walk of the tree with the code around it; `Fault` is the same call
failing; `WalksWithout(U)` is a walk that cannot read the files `U`, which the
code reports nowhere. `Restart` drops the slot and all locals and may bring another
model.

Coarser than the code: `IndexFileRead` reads the file and the rows of the file in
one step; a chunk of `embedChunks` is one symbol; a retry of a state write is one
write that works or fails; back-off times and error classes of `indexWithRetry` are
a choice between "retry" and "give up".

`EmbedIndexInv` has the inductive invariants, `MCEmbedIndex` the instances.

### Runs

- `embed_full`: two queries and a sweep, two symbols in two files that can be
  edited, removed and added again (`LiveVers = {1, 3}`), two commits, a key that may
  start pathless, one failing call, one restart. Checks `TypeOK`, `SlotExclusive`,
  `RecordedCommitCovered` and `CompensatesOwnRows`. The two queries are symmetric, and so are
  the two symbols together with their files.
- `embed_sync`: the autoindex loop alone, with a cap of one re-embedded file per
  periodic pass, one failing call and a restart. Checks `RecordedCommitCovered`
  and, under fairness, `Converges`.
- `embed_all`: a query, the loop and a sweep with one symbol, two models, an
  unreadable file, a failing call and a restart. Checks, under fairness,
  `SlotReleased`.

The properties:

- `SlotExclusive`: exactly the holder of the slot is inside a full index or a
  sweep's delete.
- `RecordedCommitCovered`: what head_sha promises. A symbol of the recorded commit
  that has been in the source ever since is indexed with a body at least that new.
- `CompensatesOwnRows`: the compensating delete of a failed first index only meets
  rows of its own run and no state row.
- `SlotReleased`, `Converges`: liveness.

Bounds: two symbols in two files let a run be half done in every place the code can
stop; three versions let a symbol be edited, removed and added again within a run;
two commits let the branch move during a run; one fault or crash at any call is
enough for each single-failure argument of the code. A third symbol or commit repeats
these cases.

Fairness: a query that has come so far as to claim the slot and a sweep that has
begun go on (weak fairness), because each of their calls has a deadline in the code;
the loop always goes on, because it is driven by a ticker. Queries and sweeps need
not come at all, nor need edits, commits, faults or restarts.

Deadlock is not checked: an instance without the autoindex loop may come to rest
when its bounds are used up.

### Proofs

`EmbedIndexProofs` proves, for every value of the constants:

- `TypeCorrect`: `Spec => []TypeOK`.
- `SlotIsExclusive`: `Spec => []SlotExclusive`. The invariant is inductive
  together with the types: every step from or to a step in `SlotSteps` goes
  through a claim or a return.
- `CompensationIsOwn`: with `AutoLoop = {}`, `Spec => []CompensatesOwnRows`. The
  inductive invariant says of a run whose verdict is "first index" that the rows
  are those of its own parse and that there is no state row; a run after the verdict
  is the only writer because it has the slot.
- `CommitIsCovered`: with `AutoLoop = {}`, `MaxUnread = 0` and one model,
  `Spec => []RecordedCommitCovered`. The inductive invariant follows the promise
  through a run: after the parse every live symbol of the start commit is parsed, or
  has been absent since; after the hashes it is embedded already or still in `todo`;
  before the state write nothing is left in `todo`.
- `LoopCompensationIsOwn`: the same for the loop's own full indexes, with any number
  of sweeps and no query (`AutoLoop = {a}`, `Lazy = {}`). Between the verdict and the
  delete the loop itself is the only writer without the slot, and it is inside the index;
  a sweep finds the slot taken (`SweepWaits`).
- `SharedCompensationIsOwn`: the same for a key that queries, the loop and sweeps share,
  with one configured model and no pathless row for a sweep to wipe
  (`Models = {m}`, `~Legacy \/ Sweep = {}`). Under these a state row, once written, stays
  (`StateStays`); a pass of the loop writes only when there is one and a first index runs
  only while there is none, so the two exclude each other although the pass takes no
  slot. Without either hypothesis the property fails: on an instance with one symbol, a
  query and the loop, TLC finds a pass that records its commit between the probe and the
  delete, after the state row it started from was wiped under it: by a sweep of the
  pathless key, or by an invalidation for another model that a query had begun earlier.
  The comment at `pipeline.go:634` says the re-check only narrows that window.
- `LoopCommitIsCovered`: for a key only the loop works on (`AutoLoop = {a}`, no query,
  no sweep, `MaxUnread = 0`, one model), `Spec => []RecordedCommitCovered`. It needs the
  invariant of a full index and `PassInv` for the passes: a symbol outside the diff has
  the same body in both commits, so the old promise holds for the new one; a file is taken
  off the list of unfinished ones only when every symbol of it is indexed, or absent since;
  after an error the pass promises nothing, and does not record its commit; a pass that
  is cut short keeps files on the list and returns before it records anything.

`RunInv`, `FirstIndexInv`, `CoverInv` and `PassInv` (in `EmbedIndexInv`) have been
checked by TLC on the instances of `embed_full` and `embed_sync`.

The hypotheses on the recorded commit are needed: with the loop and another process, a
writer without the slot overwrites newer bodies, or records a commit whose rows a sweep
has just deleted (the code's own comment at `autoindex.go:109` accepts the overlap); an
unreadable file loses rows that the recorded commit covers, because it looks like a file
without symbols; and with a second model a purge is not repaired by a run that skips at
the same commit. The hazards of `PROJECT.json` name the lines.

Liveness (`SlotReleased`, `Converges`) is model-checked only: it needs fairness and
ENABLED, which the prover does not treat.

### Not modelled here

The sparse leg of an upsert (it is in `SparseBackfill`), the file watcher's `IndexFile`
(its steps are those of a sync's file), the rotation and worker
pool of the autoindex loop, the path-missing class of the sweep, schema creation, and
all read-only queries.

## TypedLoad

The typed loads of Go modules that call-graph tools share
(`internal/callgraph/typed_load.go`), the gate of the export-data builds
(`internal/goanalysis/prime.go`), the memory budget both draw on, and the prewarms at
server start, which are builds without a load.

| Variable | In the code |
|---|---|
| `flights` | the map of joinable loads, by flight key |
| `load` | the fields of every `sharedLoad` |
| `at` | where the goroutine of every load, and every prewarm, is |
| `gate` | `exportGate`, who is in it |
| `sem` | the weighted semaphore: what is taken, and the queue |
| `primed` | keys whose export data was built |
| `pc`, `mine`, `gaveUp` | every caller: where it is, its load, whether its deadline passed |

A caller joins or starts a load (`Join`, `StartLoad`), waits (`Served`, `GiveUp`),
and drops its reference (`Drop`, `DropRelease`): after an error or a deadline at once,
otherwise when it stops reading. `Judge` is the look at the admitted flag after a
deadline. A load's goroutine primes (`Prime`, then `EnterGate`, `ReserveCharge`,
`ChargeGranted`, `BuildEnds`), is admitted (`Admission`, `Admitted`), loads (`LoadEnds`)
and runs its deferred function (`Finish`, `OrphanRelease`, `Close`). `Expire...` is the
deadline of the load or the prewarm at each place that waits. `drop` and the deferred
function are two steps each, because the code gives the budget back after it has
unlocked `flightsMu`.

The semaphore is modelled from its vendored source: a FIFO in which a waiter that
does not fit holds up everybody behind it (`Notified`), and in which a share granted at
the instant of the deadline goes back (`Cancel`); a waiter that leaves wakes the others
only if it was the first and something is free. What is taken is a sum over the
goroutines (`Total`), counted unit by unit so that it is a cardinality.

Coarser than the code: the stores of phase and admitted are one step; so are the
release of a build's charge and of the gate, and the swap of the admitted flag and the
release of the share. A panic of the load is a load without a result: both end in
`drop` and an error of the caller. The branch of `Acquire` for a request beyond the
size of the semaphore is left out, since both weights are clamped to it. An object of
`Loads` may be used again when nothing refers to it, as the garbage collector would.
The key stands for root, fingerprint and options; `primed` is by key.

### Runs

- `typed_load`: three callers, two loads, a prewarm; one module that weighs more than
  the budget and one that fits beside a build; deadlines may pass everywhere. Checks
  `TypeOK`, `BudgetExact` (the semaphore holds exactly the shares of loads, builds and
  waiters just granted, never more than its capacity, and nobody waits for a share that
  is free), `ReadersHoldBudget`,
  `OneLoadPerKey` and `NothingLeaks` (when all is quiet the budget is free, the gate
  open and no dead load joinable).
- `typed_progress`: the same with deadlines off and fairness on: `EveryCallerIsServed`.
  Deadlines would make the property weaker, since they answer every caller.

Bounds: two loads are the fewest that compete for budget and gate, and a third object
would be a third module or fingerprint; a third caller joins while another leaves.
Callers and loads come again without bound.

Fairness: weak for everything a goroutine does, because builds, loads and readers take
finite time; strong for entering the gate, because Go serves the senders that block
on a channel in order. New calls and prewarms are not fair. The first disjunct of
`EveryCallerIsServed` sets aside a behaviour the code allows: callers that relieve each
other at a finished load, for ever, keep its share, and whoever waits behind it in the
FIFO waits until a deadline.

Deadlock is not checked: callers need not come.

### Proofs

`TypedLoadProofs` proves, for any finite sets of callers, loads and prewarms, and any
modules and budget:

- `OneLoad`: `Spec => []OneLoadPerKey`.
- `ReadersKeepBudget`: `Spec => []ReadersHoldBudget`.
- `FlightsConsistent`: `Spec => []FlightInv`, the inductive invariant behind both.
- `BudgetIsExact`: `Spec => []BudgetExact`.
- `NothingIsLeft`: `Spec => []NothingLeaks`.
- `TypeCorrect`: `Spec => []TypeOK`; what is taken is a natural number, so nothing is given
  back that was not taken.
- `BudgetConsistent`: `Spec => []BudgetInv`, the inductive invariant behind these three.

`FlightInv` (in `TypedLoadInv`) says that `refs` is the number of callers with a
reference, that a joinable load is alive or still has readers, and where the goroutine
of a load is when its flags are set. Neither property is inductive alone: a second
load could start if a live one were not joinable, and a reader could lose its budget
if the count were wrong or a dead load could be joined. Each is a consequence of the
other parts. The lemma for each action says what that action does to them; the
semaphore has no part in the argument.

`BudgetInv` (checked by TLC on the instance of `typed_load`) adds the books of the
semaphore to `FlightInv`. Every goroutine has a claim, which is zero for those that have
no business with the budget (`Claim`); the books balance (`Ledger`) when everybody in the
queue waits once and for its claim, and what is taken is the sum of the other claims.
Three more parts connect claims to the control: who waits is at a step that waits
(`WaitersInStep`); an admitted load has somebody who will give its share back, its own
goroutine, a reader, or the caller whose drop was the last (`AdmittedInStep`); and one
builder at a time is inside the gate (`GateIsHeld`). `HeadWaits`, that the first waiter does
not fit, is what makes `BudgetExact` more than an equation: it fails if a release or a
`Cancel` does not notify. An action changes one claim or moves one share between queue and
semaphore, and a sum that is a cardinality changes by that much without an induction;
`Notified` gives shares to the longest prefix that fits, which exists because the naturals
are well founded. `NothingLeaks` follows: at rest all claims are zero.

### Not modelled here

The walk that computes a module's fingerprint and file count, heap metrics and gauges,
`TryAcquire`, error wording, and what the export-data build itself does.

## SparseBackfill

The sparse vectors of one repository's rows: the sparse leg of `embedAndUpsert`
(`pipeline.go`) and the backfill (`backfill.go`), which both write by key.

| Variable | In the code |
|---|---|
| `disk` | the body of every symbol in the working tree |
| `dense`, `sparse` | `body_hash` with the dense vector, and `sparse_embedding`, of every row |
| `ix`, `chunk` | the indexer between its upsert and its sparse write |
| `bf`, `page`, `hash`, `text` | the backfill's step, its page, the hashes it fetched and what it parsed since |
| `excused` | rows whose sparse vector a named cause has left behind; a history variable |

`EmbedChunk`, `Upsert`, `RunSparseWrites` are one chunk of an index; `FetchPage`,
`ReadPage`, `EmbedPage`, `WritePage` one page of a backfill; `DeleteStale` removes a row
whose symbol is gone. A vector is the body it embeds. `Degenerate` bodies have no sparse
vector once sanitized. A failing batch write commits some of its chunks (`Partial`): any
set of rows of that size, because a backfill's batch is in map order.

- `VectorsAgree`: outside `excused` the sparse vector of a row is NULL or embeds
  the body of its dense one. A row is excused by an upsert until its sparse write has
  followed, and by a backfill write that met a row indexed again since its page was
  fetched: the upsert's conflict clause keeps the old sparse vector, and neither write
  looks at `body_hash`.
- `DriftGuard`: what the backfill's hash check does guarantee.
- `BackfillEnds`, `GivesUpOnlyWhenStuck`: the run ends, and a page ends it only if
  every row of it has drifted, lost its source or has an empty vector.

Bounds: three rows with pages of two have a second page behind a stuck or half-written
first; three bodies are an old one, a new one and one without a vector; two edits move
a body between any two steps; one fault fails any one call. Fairness: the backfill's
calls have deadlines. `BackfillEnds` needs the bound on faults: while the embed server is
down the code fetches the same page again and again.

Proved: `TypeCorrect`, `VectorsEmbedOneBody`, `BackfillIsGuarded`, `EndsOnlyWhenStuck`
(`Spec => GivesUpOnlyWhenStuck`, from `PageIsHashed`: a page and its hashes come and go
together, so a row that is still fresh is one the page could write). The inductive
invariant adds that between upsert and sparse write the rows of the chunk are excused
or gone. That a page is never longer than `PageSize` needs a counting argument (the k
smallest rows of a set inject into `0 .. k - 1`).

## CallGraphCache

The cached call graphs of one Go module root and the registry of its background
go/types warm.

| Variable | In the code |
|---|---|
| `l1`, `l2` | the LRU and the Redis entries, per scope, with the graph's stamp |
| `reg` | `goTypesWarm[root]`: none, pending, done, failed |
| `pc`, `scope`, `graph`, `told` | calls of `BuildFromRepo` and what the caller was told last |
| `warm`, `key` | goroutines of `warmGoTypesCache` |
| `edges` | whether the module has typed edges at all |

Time is kept only as far as the code compares instants: each entry remembers whether it
is older than the registry record. `Hit` and `Serve` are the read path with its divert
of stale siblings; `Build`, `Stamp`, `Store` a miss; `Claim`, `Load`, `Merge`, `Upgrade`,
`Publish` a warm; `Evict`, `Expire`, `ExpireFailure`, `Restart` the environment. A panic
of a warm is a load that fails: the deferred function publishes both.

- `OneWarm`: with typed edges one load at a time is claimed and the registry is
  pending exactly while there is one. Without typed edges the synchronous path may store
  done over a pending record; the hazard at `repo.go:163` is that.
- `NoteGoesAway`: once loads no longer fail, every caller is finally told nothing.

Bounds: two scopes are a warmed key and its stale sibling; two warms race for the claim;
two failing loads are the caller's and the warm's. Fairness: goroutines go on, TTLs pass
and callers come again, without which nobody is told anything.

Proved: `TypeCorrect`, `OneWarmAtATime`, from an invariant that also says that a load
that was not cut short has found the typed edges there are.

## GraphBuild

The code graph of one repository and everything that builds it.

| Variable | In the code |
|---|---|
| `tree` | the content of the source tree: `source`, the number of edits, and `print`, its fingerprint, which an edit may leave alone |
| `saved`, `queue`, `worker` | events on their way through the watcher's channel |
| `timer`, `entry` | debounce timers and `graphRefresher.timers[repoKey]` |
| `building` | `buildingRepos` |
| `kind`, `pc`, `read` | every build: who started it, its next statement, what it parsed |
| `graph`, `meta` | the AGE graph as the set of contents in it, and its `code_graph_meta` row |
| `calm` | nothing lost, failed or overlapped so far; a history variable |

`Forward`, `TakeEvent`, `Trigger`, `Elapse`, `Fire`, `Enter` are the way of an edit to a
refresh; `AskGate`, `AskRefresh`, `AskInsights`, `SelfHeal` the other starters; `Check`
to `UpsertMeta` are `IndexRepo`, one committed statement per action; `Fail` ends a build
anywhere, an insert with some chunks committed.

- `OneBuildEach`: each registry admits one build and forgets it when it ends. It is not
  the exclusion across all tools that the comment in `age_graph_gate.go` claims (see Runs).
- `RowTellsContent`: while calm, a row outside a drop stands beside a graph of exactly
  one content, whose fingerprint is the row's, which is what `checkCache` trusts.
- `CalmEditsReachGraph`: while calm, an edit that changes the fingerprint reaches the graph
  by the watcher alone. One that does not starts a refresh that ends in `Hit`; the graph
  then shows the old source until the row expires and something starts a build, or an edit
  that changes the fingerprint comes.

A fingerprint only grows: a tree that is edited back to an earlier content counts as new.
Goroutines that run nothing are alike, and so are timers, so the first free one is taken
(`FreeBuild`, `FreeTimer`).

`calm` names every way out the code has for an edit the fingerprint sees: a full channel, a
failed build, a build that starts while another writes, such an edit between parse and
fingerprint. Without `calm` the
last property fails even when nothing is lost and nothing fails: an edit that fires while a
build is past its parse joins that build's flight, the build then records the fingerprint
of the tree as it is now, and nothing later sees that the edit is missing.

Bounds: one file is enough to fill a channel of one event; two timers are the fewest for
a fired one and its successor; two builds for an overlap; two edits for one during the
other's build, at most one of them hidden from the fingerprint, before or after the other. Fairness: goroutines go on and timers elapse; nothing is assumed of tools'
callers. `Enter` is strongly fair because the bound on builds, which the code does not
have, may make it wait.

Proved: `TypeCorrect`, `OneBuildPerRegistry`, `RowIsTrue`. The invariant behind the last
(`CalmGraph`) follows the one writer of a calm run from drop to row; between
its parse and its row the tree's fingerprint stays that of what it parsed.

## CloneDir

The clone of one remote repository and the tool calls on it.

| Variable | In the code |
|---|---|
| `fs` | whether the volume has `RENAME_EXCHANGE` |
| `tree` | the directory: none, partial, whole |
| `cold` | the cold clone inside `cloneGroup` |
| `counts` | `cloneRefs.counts[localPath]` |
| `tmp`, `trash`, `stale` | the siblings of a re-clone: the fresh tree, the old one being deleted, the old one moved aside |
| `pc` | every call |

`Stat`, `JoinFlight`, `Receive`, `GiveUp`, `ColdStart`/`ColdOk`/`ColdFail` are the cold
path; `Fetch`, `Reset`, `ResetEnds` the refresh; `RecloneOk` to `ReplaceFail` the fresh
clone and its swap, system call by system call; `AcquireCloneRef`, `ReleaseCloneRef`,
`CleanupCloneDir` the reference. Reset and removal take two steps, since both rewrite
the tree under its readers. `Restart` keeps the disk and loses flights and counts.

- `LastReleaseDeletes`, `NoTmpLeak`, `SwapKeepsWhole`: the count, the clean-up of the
  `.tmp` sibling on every path of the swap that a crash does not cut short, and the promise
  of the exchange. A `.stale` sibling is not covered, nor is what a crash leaves.
- `ImplementsSingleFlight`: the cold clones refine `SingleFlight`.
- `Heals`: whatever is left at the path, calls that keep coming make it whole, on a
  volume with `RENAME_EXCHANGE`. Without it a swap and a cold clone can keep each other
  from finishing while callers give up.

Bounds: two calls are a reader and whoever comes or goes beside it; two faults fail a
refresh and the swap that follows; one restart anywhere. Fairness: a call goes on because
git runs under a deadline; calls need not come (`Heals` assumes them in its antecedent).

Proved: `TypeCorrect`, `DeletedByLastReader`, `SiblingsAreCleaned`, `SwapIsSeamless` and
the refinement `ColdCloneIsSingleFlight`. The invariant says that `counts` is the number
of readers, that one cold clone runs at a time, that waiters have one, and that the two
renames only happen on plain volumes.

## GitHubCall

`doGitHubRequest` and the token of the GitHub App behind its transport.

| Variable | In the code |
|---|---|
| `now` | the clock, in units of the refresh leeway |
| `cached` | `AppTokenSource.token`, named by its expiry |
| `fetch`, `leader` | the function inside `sf.Do` and the caller whose context it has |
| `pc`, `attempt`, `cancelled`, `got` | every request |

`Begin`, `NoToken`, `Send`, `Answer`, `WaitOver` are the loop of attempts; `Lookup`, `Do`,
`Check`, `Fetched`, `Refused`, `Backoff`, `Again`, `Cut`, `Land` are `Token`. The clock
moves only while all callers are at the network or asleep: the time a program takes
between two statements is nothing against the leeway.

- `LiveTokens`, `FailsOnlyWithoutToken`: a token still lives when its request goes out, and
  nobody is refused while the cached one lives.
- `NoFreshTokenReplaced`: the second look inside the flight.
- `ImplementsSingleFlight`: the token source refines `SingleFlight`.
- `EveryRequestEnds`: rate limits go on whatever the attempt, timeouts and 5xx up to a
  limit, the fetch may fail or lose its leader; every request ends all the same.

Bounds: two requests are a leader and a waiter; three attempts have a first, a middle and
a last; four units of time are a token's life and the time to fetch the next. Fairness:
the network answers or the attempt times out after 15 s. Clients and clock owe nothing.
The run stops being interesting at `MaxNow`, when the clock stands; tokens no longer
expire then, and the requests still end.

Proved: `TypeCorrect`, `TokensAreLive`, `OneFetchPerToken`, `FailureMeansNoToken` and the
refinement `TokenSourceIsSingleFlight`. The invariant adds that a fetch past its second
look has an old token to replace; it holds because time only moves forward.

## IngestCache

`IngestRepo` of one repository: the process-wide LRU of listings, Redis behind it, and the
walk. A key stands for the options of a call.

| Variable | In the code |
|---|---|
| `tree` | the content of the tree: `hashed`, what `RepoContentHash` covers, and `rest`, what only the walk sees |
| `l1`, `order` | `entries` and `order` |
| `l2` | the Redis entries |
| `pc`, `key`, `got` | every call: its step, its key, the entry it fetched or made and answers with |
| `during` | the hashes of the tree since the call began; a history variable |

An entry is its listing (the content it was made from), its hash, its age and `torn`: the
hash of the tree changed between the walk and the hash. The last is a history field that
nothing in the code reads.

`getL1Locked` is the locked look with its age and hash checks; `GetL2` and `CheckL2` (with
`Promote` or `DelL2`) the way through Redis; `Walk`, `PutL1`, `SetL2` a miss. Redis may
fail at any call. `AgeL1`, `ExpireL2`, `Edit`, `Restart` are the environment; a restart
loses the LRU and keeps Redis.

Coarser than the code: a walk and a hash read the tree in one step each. An edit at any
time between the call's turn to walk and its hash tears the entry, so that nothing is
claimed of a listing that shows half of an edit.

- `AnswerIsCurrent`: from whichever cache, the hash an answer was trusted under is that of
  the tree at some moment of the call, and what the hash covers of its listing is the
  tree's with that hash, unless the entry was torn. It does not say that the listing is the
  tree's. A change only in `rest` (a `.gitignore`, a deep directory) is no reason to walk
  again, and a torn entry passes every later check: `put` hashes the tree after the walk.
- `StaleGoesAway`: an entry that is wrong in either way is not served for ever once the
  edits stop, although an entry promoted from Redis is served whatever its age: it goes
  from the LRU when it is too old there, and from Redis by its own TTL.
- `TypeOK` includes that the order lists exactly the cached keys, each once.

`EmbedIndex` and `GraphBuild` take a walk for exact; they hold for a server whose edits
neither fall into that window nor change a listing where the hash does not look.

Bounds: two keys on one entry evict each other; two calls are one that stores beside one
that reads or deletes by key; the one edit changes what the hash covers, what it does not
cover, or both, at any moment, which is enough to tear an entry, to outdate one in either
cache and to hide from the check. A tree that is changed back is left to the theorem.
Fairness: a call that has begun goes on, and time passes.

Proved: `TypeCorrect` and `AnswersAreCurrent`, for any keys, callers, contents, number of
edits and capacity. The invariant says that the listing of every entry that is not torn, in
either cache or in a call's hand, has the hash the entry names; it needs that the tree a
call still has to hash has the hash of the one it walked, or the entry is torn by then.
That the order stays in step with the entries rests on lemmas about sequences
without repetition.

## SingleFlight

The promise of `golang.org/x/sync/singleflight` for one key, as the program uses it: a
run starts when a caller joins and none is there, ends with one outcome for everybody
who waits, and callers may leave. Two of its users are shown to implement it, by TLC and
by proof. The step lemma of each refinement splits on the actions: those that join, the
one that lands, those that take an outcome, and the rest, which map to stutters.

## What is proved and what is only checked

Proved for every value of the constants: the theorems listed per module, from the named
assumptions of the constants and, where stated, extra hypotheses. Checked by TLC only:

- liveness (`SlotReleased`, `Converges`, `EveryCallerIsServed`, `BackfillEnds`,
  `NoteGoesAway`, `CalmEditsReachGraph`, `Heals`, `EveryRequestEnds`, `StaleGoesAway`): it needs fairness
  and ENABLED, which the prover does not treat.

- `RecordedCommitCovered` for a key that the loop shares with queries or sweeps is neither:
  it does not hold there (see `EmbedIndex`).

## Not modelled

- Parsers, resolution of imports and call edges, ranking, health scores, duplicate
  detection: pure functions of large inputs, without state between calls. A small
  instance says nothing about them, and numeric scores are out of TLC's reach. They are
  most of the source, which is why the map covers little of it.
- Tool handlers, rendering, metrics, configuration: they shape text and pass arguments.
- HTTP clients other than the GitHub one: I/O without shared state.
- The federated co-change tool (`tool_federated_cochange.go`: a computation in the
  background that the call waits for up to a deadline, an in-flight set and a cache with a
  TTL) and the store of investigations (`internal/investigate/lifecycle.go`).
- The path-missing class of the sweep, whose delete and claim are those of the other two.
- WordPress plugin archives: a download into a directory of its own, with the same
  references as clones.
- The `EnsureSchema` latches and the design-document index: one idempotent step before
  everything else, one writer without bookkeeping.
- `goutil.RunDAG`: no caller outside its tests.
- The evaluation harness, deployment files and vendored code other than the two small
  packages the models use.
