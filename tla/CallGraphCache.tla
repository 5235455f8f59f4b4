--------------------------- MODULE CallGraphCache ---------------------------
(***************************************************************************)
(* The cached call graphs of ONE Go module root (callgraph/repo.go,        *)
(* repo_cache.go) and the registry that says whether a background go/types *)
(* load for it is wanted, running, done or has failed (warm_registry.go).  *)
(* Calls for several scopes (language, focus) of the root build a graph    *)
(* with a short typed load, or get a cached one; when the short load fails *)
(* a background warm repeats it patiently and upgrades the cached entry.   *)
(*                                                                         *)
(* Time is kept as far as the code compares it: of two instants, whether   *)
(* an entry was cached before the registry record was written ("old"), and *)
(* whether a failure or an entry has outlived cgCacheTTL.                  *)
(***************************************************************************)
EXTENDS Naturals, FiniteSets

CONSTANTS
  Scopes,      \* cache keys of the root
  NoScope,
  Callers,     \* goroutines in BuildFromRepo
  Warms,       \* bound: background warms that have not ended
  MaxCold,     \* bound: typed loads that fail
  MaxRestarts  \* bound: server restarts

ASSUME CacheAssumption ==
  Scopes # {} /\ MaxCold \in Nat /\ MaxRestarts \in Nat

VARIABLES
  edges,   \* TRUE: a load of the module that succeeds finds typed call edges
  l1,      \* cgCache.lru
  l2,      \* the entries in Redis
  reg,     \* goTypesWarm[root]: the phase, "none" when there is no live record
  pc, scope, graph,  \* step, key and built graph of every call
  told,    \* the stamp of the graph a caller got last
  warm, key,         \* step and key of every background warm
  colds, restarts    \* how much of the bounds is used

caches == <<l1, l2>>
calls == <<pc, scope, graph, told>>
warms == <<warm, key>>
bounds == <<colds, restarts, edges>>
vars == <<caches, reg, calls, warms, bounds>>

-----------------------------------------------------------------------------
(* Data. *)

Stamps == {"none", "pending", "failed"}   \* WarmState on a graph
Phases == Stamps \cup {"done"}            \* WarmState in the registry
Graph == [typed : BOOLEAN, stamp : Stamps]
\* has: there is an entry; old: it was cached before the registry record.
Entry == [has : BOOLEAN, graph : Graph, old : BOOLEAN]
NoGraph == [typed |-> FALSE, stamp |-> "none"]
NoEntry == [has |-> FALSE, graph |-> NoGraph, old |-> FALSE]
NewEntry(g) == [has |-> TRUE, graph |-> g, old |-> FALSE]
CallSteps == {"idle", "build", "stamp", "store"}
WarmSteps == {"over", "claim", "load", "merge", "upgrade", "publish"}

Init ==
  /\ edges \in BOOLEAN
  /\ l1 = [s \in Scopes |-> NoEntry] /\ l2 = [s \in Scopes |-> NoEntry]
  /\ reg = "none"
  /\ pc = [c \in Callers |-> "idle"] /\ scope = [c \in Callers |-> NoScope]
  /\ graph = [c \in Callers |-> NoGraph] /\ told = [c \in Callers |-> "none"]
  /\ warm = [w \in Warms |-> "over"] /\ key = [w \in Warms |-> NoScope]
  /\ colds = 0 /\ restarts = 0

\* A record is written: every entry there is predates it.
Aged(cache) == [s \in Scopes |-> [cache[s] EXCEPT !.old = cache[s].has]]
Record(phase) == reg' = phase /\ l1' = Aged(l1) /\ l2' = Aged(l2)
\* callGraphCache.set
CacheSet(s, g) ==
  /\ l1' = [l1 EXCEPT ![s] = NewEntry(g)] /\ l2' = [l2 EXCEPT ![s] = NewEntry(g)]

\* A goroutine for warmGoTypesCache is started.
Spawn(s) ==
  \E w \in Warms :
    /\ warm[w] = "over"
    /\ warm' = [warm EXCEPT ![w] = "claim"] /\ key' = [key EXCEPT ![w] = s]

Cold == colds < MaxCold /\ colds' = colds + 1 /\ UNCHANGED <<restarts, edges>>

-----------------------------------------------------------------------------
(* BuildFromRepo: a cached graph is reconciled with the registry.          *)

Mut_Told(stamp) == IF reg = "none" THEN stamp ELSE reg
\* The stamp the caller gets: pending or failed by the registry, if there is a
\* live record; otherwise as it was cached.
Told(stamp) == IF reg \in {"pending", "failed"} THEN reg ELSE stamp

\* An entry of before a warm that has completed is built again.
Diverted(e) == reg = "done" /\ e.graph.stamp # "none" /\ e.old
\* The record of the stamped entry is gone, with its process or by expiry.
Forgotten(e) == reg = "none" /\ e.graph.stamp # "none"

Serve(c, s, e) ==
  \/ /\ Diverted(e)
     /\ pc' = [pc EXCEPT ![c] = "build"] /\ scope' = [scope EXCEPT ![c] = s]
     /\ UNCHANGED <<told, warms>>
  \/ /\ ~Diverted(e)
     /\ told' = [told EXCEPT ![c] = Told(e.graph.stamp)]
     /\ IF Forgotten(e) THEN Spawn(s) ELSE UNCHANGED warms
     /\ UNCHANGED <<pc, scope>>

\* getWithAt: an entry of the process, or of another one in Redis whose content
\* hash is that of the tree.
Hit(c, s) ==
  /\ pc[c] = "idle"
  /\ \/ l1[s].has /\ Serve(c, s, l1[s]) /\ UNCHANGED caches
     \/ /\ ~l1[s].has /\ l2[s].has /\ Serve(c, s, l2[s])
        /\ l1' = [l1 EXCEPT ![s] = l2[s]] /\ UNCHANGED l2
  /\ UNCHANGED <<reg, graph, bounds>>
Miss(c, s) ==
  /\ pc[c] = "idle" /\ ~l1[s].has /\ ~l2[s].has
  /\ pc' = [pc EXCEPT ![c] = "build"] /\ scope' = [scope EXCEPT ![c] = s]
  /\ UNCHANGED <<caches, reg, graph, told, warms, bounds>>
\* input.Refresh does not look at the cache.
Refresh(c, s) ==
  /\ pc[c] = "idle"
  /\ pc' = [pc EXCEPT ![c] = "build"] /\ scope' = [scope EXCEPT ![c] = s]
  /\ UNCHANGED <<caches, reg, graph, told, warms, bounds>>

EndCall(c) ==
  /\ pc' = [pc EXCEPT ![c] = "idle"]
  /\ scope' = [scope EXCEPT ![c] = NoScope] /\ graph' = [graph EXCEPT ![c] = NoGraph]

\* BuildAndEnrich: the typed load of the request succeeds, or fails in its 10 s and
\* the graph is stamped pending; or there is no graph at all.
Build(c) ==
  /\ pc[c] = "build"
  /\ \/ /\ graph' = [graph EXCEPT ![c] = [typed |-> edges, stamp |-> "none"]]
        /\ pc' = [pc EXCEPT ![c] = "stamp"] /\ UNCHANGED <<scope, bounds>>
     \/ /\ Cold
        /\ graph' = [graph EXCEPT ![c] = [typed |-> FALSE, stamp |-> "pending"]]
        /\ pc' = [pc EXCEPT ![c] = "stamp"] /\ UNCHANGED scope
     \/ /\ Cold
        /\ EndCall(c)
  /\ UNCHANGED <<caches, reg, told, warms>>

\* The fresh graph is reconciled with the registry.  A load without typed edges has
\* done all a warm would do.
Stamp(c) ==
  /\ pc[c] = "stamp"
  /\ \/ /\ graph[c].typed
        /\ UNCHANGED <<caches, reg, graph, warms>>
     \/ /\ ~graph[c].typed /\ graph[c].stamp = "none"
        /\ Record("done") /\ UNCHANGED <<graph, warms>>
     \/ /\ graph[c].stamp = "pending" /\ reg = "failed"
        /\ graph' = [graph EXCEPT ![c].stamp = "failed"]
        /\ UNCHANGED <<caches, reg, warms>>
     \/ /\ graph[c].stamp = "pending" /\ reg # "failed"
        /\ Spawn(scope[c]) /\ UNCHANGED <<caches, reg, graph>>
  /\ pc' = [pc EXCEPT ![c] = "store"]
  /\ UNCHANGED <<scope, told, bounds>>
Store(c) ==
  /\ pc[c] = "store"
  /\ CacheSet(scope[c], graph[c])
  /\ told' = [told EXCEPT ![c] = graph[c].stamp]
  /\ EndCall(c)
  /\ UNCHANGED <<reg, warms, bounds>>

-----------------------------------------------------------------------------
(* warmGoTypesCache. *)

GotoW(w, step) == warm' = [warm EXCEPT ![w] = step] /\ UNCHANGED key
EndWarm(w) == warm' = [warm EXCEPT ![w] = "over"] /\ key' = [key EXCEPT ![w] = NoScope]

Mut_Claimable == reg # "failed"
\* claimWarm: not while a warm runs, nor while a failure is fresh.
Claimable == reg \notin {"pending", "failed"}
Claim(w) ==
  /\ warm[w] = "claim"
  /\ \/ Claimable /\ Record("pending") /\ GotoW(w, "load")
     \/ ~Claimable /\ EndWarm(w) /\ UNCHANGED <<caches, reg>>
  /\ UNCHANGED <<calls, bounds>>

Mut_PublishFailure == UNCHANGED <<caches, reg>>
\* The deferred function publishes the failure, also after a panic.
PublishFailure == Record("failed")
Load(w) ==
  /\ warm[w] = "load"
  /\ \/ GotoW(w, "merge") /\ UNCHANGED <<caches, reg, bounds>>
     \/ Cold /\ PublishFailure /\ EndWarm(w)
  /\ UNCHANGED calls

\* The entry of the call that wanted the warm, or nothing if it has been evicted.
Merge(w) ==
  /\ warm[w] = "merge"
  /\ \/ /\ l1[key[w]].has \/ l2[key[w]].has
        /\ GotoW(w, "upgrade") /\ UNCHANGED <<caches, reg>>
     \/ /\ ~l1[key[w]].has /\ ~l2[key[w]].has
        /\ Record("done") /\ EndWarm(w)
  /\ UNCHANGED <<calls, bounds>>
Upgrade(w) ==
  /\ warm[w] = "upgrade"
  /\ CacheSet(key[w], [typed |-> edges, stamp |-> "none"])
  /\ GotoW(w, "publish")
  /\ UNCHANGED <<reg, calls, bounds>>
Publish(w) ==
  /\ warm[w] = "publish"
  /\ Record("done") /\ EndWarm(w)
  /\ UNCHANGED <<calls, bounds>>

Warm(w) == Claim(w) \/ Load(w) \/ Merge(w) \/ Upgrade(w) \/ Publish(w)

-----------------------------------------------------------------------------
(* Time, capacity and restarts. *)

\* LRU eviction, or a changed content hash in Redis.
Evict(s) ==
  /\ \/ l1[s].has /\ l1' = [l1 EXCEPT ![s] = NoEntry] /\ UNCHANGED l2
     \/ l2[s].has /\ l2' = [l2 EXCEPT ![s] = NoEntry] /\ UNCHANGED l1
  /\ UNCHANGED <<reg, calls, warms, bounds>>
\* cgCacheTTL after it was cached an entry is gone from both.
Expire(s) ==
  /\ l1[s].has \/ l2[s].has
  /\ l1' = [l1 EXCEPT ![s] = NoEntry] /\ l2' = [l2 EXCEPT ![s] = NoEntry]
  /\ UNCHANGED <<reg, calls, warms, bounds>>
\* cgCacheTTL after a failure warmStatus and claimWarm no longer see it.
ExpireFailure ==
  /\ reg = "failed" /\ reg' = "none"
  /\ UNCHANGED <<caches, calls, warms, bounds>>
Restart ==
  /\ restarts < MaxRestarts /\ restarts' = restarts + 1
  /\ l1' = [s \in Scopes |-> NoEntry] /\ reg' = "none"
  /\ pc' = [c \in Callers |-> "idle"] /\ scope' = [c \in Callers |-> NoScope]
  /\ graph' = [c \in Callers |-> NoGraph]
  /\ warm' = [w \in Warms |-> "over"] /\ key' = [w \in Warms |-> NoScope]
  /\ UNCHANGED <<l2, told, colds, edges>>

Call(c) == Build(c) \/ Stamp(c) \/ Store(c)
Next ==
  \/ \E c \in Callers, s \in Scopes : Hit(c, s) \/ Miss(c, s) \/ Refresh(c, s)
  \/ \E c \in Callers : Call(c)
  \/ \E w \in Warms : Warm(w)
  \/ \E s \in Scopes : Evict(s) \/ Expire(s)
  \/ ExpireFailure
  \/ Restart
Spec == Init /\ [][Next]_vars

\* Calls and warms go on, time passes, and callers come again.
Fairness ==
  /\ \A c \in Callers : WF_vars(Call(c))
  /\ \A c \in Callers : WF_vars(\E s \in Scopes : Hit(c, s) \/ Miss(c, s))
  /\ \A w \in Warms : WF_vars(Warm(w))
  /\ \A s \in Scopes : WF_vars(Expire(s))
  /\ WF_vars(ExpireFailure)
FairSpec == Spec /\ Fairness

-----------------------------------------------------------------------------
(* Properties. *)

\* Every variable has its type; "done" is never the stamp of a graph.
TypeOK ==
  /\ l1 \in [Scopes -> Entry] /\ l2 \in [Scopes -> Entry] /\ reg \in Phases /\ edges \in BOOLEAN
  /\ pc \in [Callers -> CallSteps] /\ scope \in [Callers -> Scopes \cup {NoScope}]
  /\ graph \in [Callers -> Graph] /\ told \in [Callers -> Stamps]
  /\ warm \in [Warms -> WarmSteps] /\ key \in [Warms -> Scopes \cup {NoScope}]
  /\ colds \in 0 .. MaxCold /\ restarts \in 0 .. MaxRestarts

Claimed == {w \in Warms : warm[w] \in {"load", "merge", "upgrade", "publish"}}
\* Of a module with typed edges at most one background load runs, and the registry
\* says pending exactly while it does (claimWarm is the single flight; without typed
\* edges the synchronous path may write done over a pending record).
OneWarm ==
  edges => /\ \A v, w \in Claimed : v = w
           /\ reg = "pending" <=> Claimed # {}

\* Once loads no longer fail no caller is told for ever that a warm is running or
\* has failed: neither a record nor a stamp outlives its reason for good
\* (setWarmFailed, the divert of stale siblings, cgCacheTTL).
NoteGoesAway == <>[](\A c \in Callers : told[c] = "none")
=============================================================================
