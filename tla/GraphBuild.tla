----------------------------- MODULE GraphBuild -----------------------------
(***************************************************************************)
(* The code graph of ONE repository in Apache AGE and everything that      *)
(* (re)builds it:                                                          *)
(*   - the file watcher (filewatcher.go), whose events pass a bounded      *)
(*     channel and end in a debounced, single-flighted refresh             *)
(*     (graph_refresher.go);                                               *)
(*   - the tools' gate and the self-heal of the retrieval path, which      *)
(*     start a deduplicated background build (age_graph_gate.go,           *)
(*     graph_freshness.go);                                                *)
(*   - the tools that build in the request (tool_code_graph.go,            *)
(*     tool_remember_graph_insights.go), one of them after a forced drop;  *)
(*   - IndexRepo itself (codegraph/index.go, index_helpers.go, meta.go,    *)
(*     store_graph.go), whose database statements commit one by one.       *)
(*                                                                         *)
(* The content of the source tree is told by the number of edits made so   *)
(* far and by its fingerprint, which not every edit changes; the graph is  *)
(* the set of the contents whose vertices are in it.                       *)
(***************************************************************************)
EXTENDS Naturals, FiniteSets

CONSTANTS
  Files,        \* watched source files
  Builds,       \* goroutines that run IndexRepo or a forced drop
  Timers,       \* debounce timers and their goroutines
  NoTimer,
  BufferSize,   \* watchEventBufferSize
  Tools,        \* TRUE: tools and searches are used, not only the watcher
  MaxEdits,     \* bound: edits
  MaxHidden,    \* bound: edits that the fingerprint does not see
  MaxFaults     \* bound: builds that fail

ASSUME GraphAssumption ==
  /\ NoTimer \notin Timers
  /\ BufferSize \in Nat \ {0} /\ Tools \in BOOLEAN
  /\ MaxEdits \in Nat /\ MaxHidden \in Nat /\ MaxFaults \in Nat

VARIABLES
  tree,      \* the content of the source tree
  saved,     \* files with an event in the watcher (go-kit/watcher)
  queue,     \* events in the channel between forwarder and worker
  worker,    \* the single IndexFile worker
  timer,     \* state of every debounce timer
  entry,     \* graphRefresher.timers[repoKey]
  building,  \* buildingRepos has the repoKey
  kind, pc,  \* what every build is for, and its next step
  read,      \* the content a build has parsed
  graph,     \* the AGE graph
  meta,      \* the code_graph_meta row
  calm,      \* no event was lost, no build failed, none overlapped an edit or a build
  faults     \* how much of the bound is used

watching == <<saved, queue, worker>>
debounce == <<timer, entry>>
running == <<kind, pc, read>>
vars == <<tree, watching, debounce, building, running, graph, meta, calm, faults>>

-----------------------------------------------------------------------------
(* Data. *)

Prints == 0 .. MaxEdits
\* source tells contents apart as the parser does.  contentFingerprint sees the names
\* and sizes of files and their first 4096 bytes, no name that begins with a dot and
\* nothing below depth 10: print tells apart what it tells apart.
Contents ==
  {x \in [source : 0 .. MaxEdits, print : Prints] : x.print <= x.source}
contentFingerprint == tree.print
Kinds == {"none", "refresh", "gate", "tool"}
Dropping == {"drop", "unmeta"}
Forced == {"fdrop", "funmeta"}
Filling == {"ensure", "read", "insert", "meta"}
Steps == {"free", "gate", "check"} \cup Dropping \cup Forced \cup Filling
Unedited == [source |-> 0, print |-> 0]
NoGraph == [exists |-> FALSE, has |-> {}]
NoMeta == [exists |-> FALSE, hash |-> 0, expired |-> FALSE]

\* Free goroutines, and free timers, are alike: the first of them is taken.
FreeBuild(b) == pc[b] = "free" /\ b = CHOOSE x \in Builds : pc[x] = "free"
FreeTimer(t) == timer[t] = "off" /\ t = CHOOSE x \in Timers : timer[x] = "off"

\* What changes or has changed the graph.
Writing == {b \in Builds : pc[b] \in Dropping \cup Forced \cup Filling}

Init ==
  /\ tree = Unedited /\ saved = {} /\ queue = 0 /\ worker = "idle"
  /\ timer = [t \in Timers |-> "off"] /\ entry = NoTimer
  /\ building = FALSE
  /\ kind = [b \in Builds |-> "none"] /\ pc = [b \in Builds |-> "free"]
  /\ read = [b \in Builds |-> Unedited]
  /\ graph = NoGraph /\ meta = NoMeta
  /\ calm = TRUE /\ faults = 0

-----------------------------------------------------------------------------
(* File watcher. *)

\* An edit of the same size past the first 4096 bytes leaves the fingerprint alone.
\* One that moves it between a build's parse and its fingerprint is not in the graph.
Edit(f) ==
  /\ tree.source < MaxEdits
  /\ \/ tree' = [source |-> tree.source + 1, print |-> tree.print + 1]
     \/ /\ tree.source < tree.print + MaxHidden
        /\ tree' = [tree EXCEPT !.source = @ + 1]
  /\ saved' = saved \cup {f}
  /\ calm' = (calm /\ (contentFingerprint' = contentFingerprint
                         \/ \A b \in Builds : pc[b] \notin {"insert", "meta"}))
  /\ UNCHANGED <<queue, worker, debounce, building, running, graph, meta, faults>>

Mut_Room == queue <= BufferSize
Room == queue < BufferSize
\* The forwarder: a full channel loses the event.
Forward(f) ==
  /\ f \in saved /\ saved' = saved \ {f}
  /\ \/ Room /\ queue' = queue + 1 /\ UNCHANGED calm
     \/ ~Room /\ calm' = FALSE /\ UNCHANGED queue
  /\ UNCHANGED <<tree, worker, debounce, building, running, graph, meta, faults>>

\* processWatchEvent up to the end of IndexFile, whatever it returned.
TakeEvent ==
  /\ worker = "idle" /\ queue > 0
  /\ queue' = queue - 1 /\ worker' = "indexed"
  /\ UNCHANGED <<tree, saved, debounce, building, running, graph, meta, calm, faults>>

\* Trigger: the pending timer is stopped, unless it has fired, and a new one armed.
Trigger ==
  /\ worker = "indexed" /\ worker' = "idle"
  /\ \E t \in Timers :
       /\ FreeTimer(t)
       /\ timer' = [u \in Timers |-> IF u = t THEN "armed"
                                     ELSE IF u = entry /\ timer[u] = "armed" THEN "off"
                                     ELSE timer[u]]
       /\ entry' = t
  /\ UNCHANGED <<tree, saved, queue, building, running, graph, meta, calm, faults>>

Elapse(t) ==
  /\ timer[t] = "armed" /\ timer' = [timer EXCEPT ![t] = "fired"]
  /\ UNCHANGED <<tree, watching, entry, building, running, graph, meta, calm, faults>>

\* fire: the entry goes, by key: it may be that of a later timer.
Fire(t) ==
  /\ timer[t] = "fired" /\ timer' = [timer EXCEPT ![t] = "enter"] /\ entry' = NoTimer
  /\ UNCHANGED <<tree, watching, building, running, graph, meta, calm, faults>>

-----------------------------------------------------------------------------
(* Who starts a build. *)

StartAs(b, k, step) ==
  /\ pc' = [pc EXCEPT ![b] = step] /\ kind' = [kind EXCEPT ![b] = k]
  /\ UNCHANGED read
End(b) ==
  /\ pc' = [pc EXCEPT ![b] = "free"] /\ kind' = [kind EXCEPT ![b] = "none"]
  /\ read' = [read EXCEPT ![b] = Unedited]
  /\ building' = (building /\ kind[b] # "gate")
Goto(b, step) == pc' = [pc EXCEPT ![b] = step] /\ UNCHANGED <<kind, building>>

Refreshing == \E b \in Builds : kind[b] = "refresh"

\* DoChan: lead a flight, or share the result of the one that runs.
Enter(t) ==
  /\ timer[t] = "enter" /\ timer' = [timer EXCEPT ![t] = "off"]
  /\ \/ Refreshing /\ UNCHANGED running
     \/ ~Refreshing /\ \E b \in Builds : FreeBuild(b) /\ StartAs(b, "refresh", "check")
  /\ UNCHANGED <<tree, watching, entry, building, graph, meta, calm, faults>>

Mut_Register(b) == building' = TRUE /\ StartAs(b, "gate", "check")
\* triggerBackgroundGraphBuild
Register(b) ==
  \/ building /\ UNCHANGED building /\ StartAs(b, "none", "free")
  \/ ~building /\ building' = TRUE /\ StartAs(b, "gate", "check")

\* CacheStatus with a hash of the tree that may be contentHashCacheTTL old.
CacheStatus(hash) == meta.exists /\ ~meta.expired /\ meta.hash = hash

\* ensureAgeGraphOrStatus; code_graph goes on to IndexRepo when the graph is fresh.
AskGate(b) ==
  /\ pc[b] = "gate" \/ FreeBuild(b)
  /\ \E hash \in 0 .. contentFingerprint :
       \/ CacheStatus(hash) /\ StartAs(b, "tool", "check") /\ UNCHANGED building
       \/ ~CacheStatus(hash) /\ Register(b)
  /\ UNCHANGED <<tree, watching, debounce, graph, meta, calm, faults>>

\* code_graph with Refresh; the gate is asked afterwards (ForceDrop, ForceUnmeta).
AskRefresh(b) ==
  /\ FreeBuild(b) /\ StartAs(b, "tool", "fdrop")
  /\ calm' = (calm /\ Writing = {})
  /\ UNCHANGED <<tree, watching, debounce, building, graph, meta, faults>>

\* remember_graph_insights builds without asking the gate.
AskInsights(b) ==
  /\ FreeBuild(b) /\ StartAs(b, "tool", "check")
  /\ UNCHANGED <<tree, watching, debounce, building, graph, meta, calm, faults>>

\* gateRetrievalGraphFreshness: an old graph is rebuilt behind the search.
SelfHeal(b) ==
  /\ FreeBuild(b) /\ meta.exists /\ meta.expired
  /\ Register(b)
  /\ UNCHANGED <<tree, watching, debounce, graph, meta, calm, faults>>

-----------------------------------------------------------------------------
(* IndexRepo. *)

Mut_Hit == meta.exists /\ ~meta.expired
\* An equal fingerprint and a fresh row, whatever the parser would find.
Hit == CacheStatus(contentFingerprint)

Mut_Rebuild == "ensure"
\* checkCache drops an outdated graph with its row.
Rebuild == IF meta.exists THEN "drop" ELSE "ensure"

Check(b) ==
  /\ pc[b] = "check"
  /\ \/ Hit /\ End(b) /\ UNCHANGED calm
     \/ /\ ~Hit
        /\ Goto(b, Rebuild) /\ UNCHANGED read
        /\ calm' = (calm /\ Writing = {})
  /\ UNCHANGED <<tree, watching, debounce, graph, meta, faults>>

\* DropGraph: drop_graph fails when there is no graph, and the row stays.
DropGraph(b) ==
  /\ pc[b] = "drop"
  /\ \/ graph.exists /\ graph' = NoGraph /\ Goto(b, "unmeta") /\ UNCHANGED read
     \/ ~graph.exists /\ End(b) /\ UNCHANGED graph
  /\ calm' = (calm /\ graph.exists)
  /\ UNCHANGED <<tree, watching, debounce, meta, faults>>
DeleteMeta(b) ==
  /\ pc[b] = "unmeta" /\ meta' = NoMeta
  /\ Goto(b, "ensure") /\ UNCHANGED read
  /\ UNCHANGED <<tree, watching, debounce, graph, calm, faults>>

\* The forced drop, which code_graph survives; then it asks the gate.
ForceDrop(b) ==
  /\ pc[b] = "fdrop"
  /\ \/ graph.exists /\ graph' = NoGraph /\ Goto(b, "funmeta")
     \/ ~graph.exists /\ UNCHANGED graph /\ Goto(b, "gate")
  /\ UNCHANGED read
  /\ UNCHANGED <<tree, watching, debounce, meta, calm, faults>>
ForceUnmeta(b) ==
  /\ pc[b] = "funmeta" /\ meta' = NoMeta
  /\ Goto(b, "gate") /\ UNCHANGED read
  /\ UNCHANGED <<tree, watching, debounce, graph, calm, faults>>

EnsureGraph(b) ==
  /\ pc[b] = "ensure" /\ graph' = [graph EXCEPT !.exists = TRUE]
  /\ Goto(b, "read") /\ UNCHANGED read
  /\ UNCHANGED <<tree, watching, debounce, meta, calm, faults>>
BuildAndEnrich(b) ==
  /\ pc[b] = "read" /\ read' = [read EXCEPT ![b] = tree]
  /\ Goto(b, "insert")
  /\ UNCHANGED <<tree, watching, debounce, graph, meta, calm, faults>>

\* BulkCopyInsert, then the UNWIND inserts; both need the graph.
BulkInsert(b) ==
  /\ pc[b] = "insert"
  /\ \/ /\ graph.exists /\ graph' = [graph EXCEPT !.has = @ \cup {read[b]}]
        /\ Goto(b, "meta") /\ UNCHANGED read
     \/ ~graph.exists /\ End(b) /\ UNCHANGED graph
  /\ calm' = (calm /\ graph.exists)
  /\ UNCHANGED <<tree, watching, debounce, meta, faults>>
\* The fingerprint is that of the tree as it is now.
UpsertMeta(b) ==
  /\ pc[b] = "meta" /\ meta' = [exists |-> TRUE, hash |-> contentFingerprint, expired |-> FALSE]
  /\ End(b)
  /\ UNCHANGED <<tree, watching, debounce, graph, calm, faults>>

\* The memory guard, a database error, the 30 minutes or a panic end a build, an
\* insert with some of its chunks committed; the deferred functions run all the same.
Fail(b) ==
  /\ pc[b] # "free" /\ faults < MaxFaults /\ faults' = faults + 1
  /\ IF pc[b] \in Forced THEN Goto(b, "gate") /\ UNCHANGED read ELSE End(b)
  /\ \/ UNCHANGED graph
     \/ /\ pc[b] = "insert" /\ graph.exists
        /\ graph' = [graph EXCEPT !.has = @ \cup {read[b]}]
  /\ calm' = FALSE
  /\ UNCHANGED <<tree, watching, debounce, meta>>

IndexStep(b) ==
  \/ Check(b) \/ DropGraph(b) \/ DeleteMeta(b) \/ ForceDrop(b) \/ ForceUnmeta(b)
  \/ (pc[b] = "gate" /\ AskGate(b))
  \/ EnsureGraph(b) \/ BuildAndEnrich(b) \/ BulkInsert(b) \/ UpsertMeta(b)

-----------------------------------------------------------------------------
(* Time. *)

ExpireGraph ==
  /\ meta.exists /\ ~meta.expired /\ meta' = [meta EXCEPT !.expired = TRUE]
  /\ UNCHANGED <<tree, watching, debounce, building, running, graph, calm, faults>>

Next ==
  \/ \E f \in Files : Edit(f) \/ Forward(f)
  \/ TakeEvent \/ Trigger
  \/ \E t \in Timers : Elapse(t) \/ Fire(t) \/ Enter(t)
  \/ Tools /\ \E b \in Builds : AskGate(b) \/ AskRefresh(b) \/ AskInsights(b) \/ SelfHeal(b)
  \/ \E b \in Builds : IndexStep(b) \/ Fail(b)
  \/ ExpireGraph
Spec == Init /\ [][Next]_vars

\* The watcher's goroutines and the builds go on and timers elapse.
\* Nothing is assumed of the tools' callers.  Enter is fair however the bound on
\* concurrent builds is used.
Fairness ==
  /\ \A f \in Files : WF_vars(Forward(f))
  /\ WF_vars(TakeEvent) /\ WF_vars(Trigger)
  /\ \A t \in Timers : WF_vars(Elapse(t)) /\ WF_vars(Fire(t)) /\ SF_vars(Enter(t))
  /\ \A b \in Builds : WF_vars(IndexStep(b))
FairSpec == Spec /\ Fairness

-----------------------------------------------------------------------------
(* Properties. *)

\* Every variable has its type.
TypeOK ==
  /\ tree \in Contents /\ saved \subseteq Files /\ queue \in 0 .. BufferSize
  /\ worker \in {"idle", "indexed"}
  /\ timer \in [Timers -> {"off", "armed", "fired", "enter"}]
  /\ entry \in Timers \cup {NoTimer}
  /\ building \in BOOLEAN /\ kind \in [Builds -> Kinds] /\ pc \in [Builds -> Steps]
  /\ read \in [Builds -> Contents]
  /\ graph \in [exists : BOOLEAN, has : SUBSET Contents]
  /\ meta \in [exists : BOOLEAN, hash : Prints, expired : BOOLEAN]
  /\ calm \in BOOLEAN
  /\ faults \in 0 .. MaxFaults

Of(k) == {b \in Builds : kind[b] = k}

\* Each registry admits one build: at most one background build of the gate and the
\* self-heal, and the repository is registered exactly while it runs, panics and
\* failures included (buildingRepos); at most one refresh (refreshGroup).  The comment
\* at age_graph_gate.go:14-16 claims more, "only one IndexRepo per repoKey may run at a
\* time across all tools": a refresh, a gate's build and the builds of tools overlap
\* freely in the code, as they do here.
OneBuildEach ==
  /\ \A a, b \in Of("gate") : a = b
  /\ building <=> Of("gate") # {}
  /\ \A a, b \in Of("refresh") : a = b

\* As long as nothing was lost, failed or overlapped, the row says what is in the
\* graph: outside a drop there is a row only with a graph of exactly one content, and
\* its fingerprint is the row's (checkCache trusts content_hash).
RowTellsContent ==
  calm /\ meta.exists /\ (\A b \in Builds : pc[b] \notin {"unmeta", "funmeta"}) =>
    \E x \in Contents : /\ x.print = meta.hash
                        /\ graph = [exists |-> TRUE, has |-> {x}]

\* An edit that changes the fingerprint reaches the graph through the watcher alone, as
\* long as nothing was lost, failed or overlapped (#642; the drop of an outdated graph
\* in checkCache).  One that does not change it is a hit in checkCache and stays out of
\* the graph until the row expires, although filewatcher.go:42-45 has each event keep
\* the graph from "silently going stale".
CalmEditsReachGraph ==
  []<>(calm /\ tree.print > 0 =>
         \E x \in Contents : x.print = tree.print /\ graph.has = {x})
=============================================================================
