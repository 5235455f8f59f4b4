------------------------ MODULE CallGraphCacheProofs ------------------------
(***************************************************************************)
(* What holds of CallGraphCache for every set of scopes, callers and warms *)
(* and every bound.                                                        *)
(***************************************************************************)
EXTENDS CallGraphCache, TLAPS

\* A load that was not cut short has found the typed edges there are; a call that
\* has a scope has a real one.
BuiltTyped ==
  \A c \in Callers : /\ pc[c] = "stamp" /\ graph[c].stamp = "none" => graph[c].typed = edges
                     /\ pc[c] # "idle" => scope[c] \in Scopes
WarmHasKey == \A w \in Warms : warm[w] # "over" => key[w] \in Scopes
Inv == TypeOK /\ BuiltTyped /\ WarmHasKey /\ OneWarm

USE CacheAssumption

-----------------------------------------------------------------------------
(* Data. *)

LEMMA AgedTypes ==
  ASSUME NEW phase \in Phases, TypeOK, Record(phase)
  PROVE  l1' \in [Scopes -> Entry] /\ l2' \in [Scopes -> Entry] /\ reg' = phase
BY DEF TypeOK, Record, Aged, Entry

LEMMA SetTypes ==
  ASSUME NEW s \in Scopes, NEW g \in Graph, TypeOK, CacheSet(s, g)
  PROVE  l1' \in [Scopes -> Entry] /\ l2' \in [Scopes -> Entry]
BY DEF TypeOK, CacheSet, NewEntry, Entry

LEMMA GraphTypes ==
  /\ NoGraph \in Graph /\ NoEntry \in Entry
  /\ \A t \in BOOLEAN, s \in Stamps : [typed |-> t, stamp |-> s] \in Graph
  /\ \A e \in Entry : e.has \in BOOLEAN /\ e.graph \in Graph /\ e.graph.stamp \in Stamps
BY DEF NoGraph, Graph, NoEntry, Entry, Stamps

LEMMA InitInv == Init => Inv
<1>. SUFFICES ASSUME Init PROVE Inv
  OBVIOUS
<1>1. TypeOK
  BY GraphTypes DEF Init, TypeOK, Phases, Stamps, CallSteps, WarmSteps
<1>. QED BY <1>1 DEF Init, Inv, BuiltTyped, WarmHasKey, OneWarm, Claimed, NoGraph

-----------------------------------------------------------------------------
(* Calls. *)

\* What the steps of a call have in common: they neither claim nor finish a warm.
CallFrame ==
  /\ \A w \in Warms : warm'[w] # warm[w] => warm[w] = "over" /\ warm'[w] = "claim"
  /\ warm' \in [Warms -> WarmSteps] /\ key' \in [Warms -> Scopes \cup {NoScope}]
  /\ WarmHasKey' /\ edges' = edges
  /\ edges => reg' = reg

LEMMA SpawnFrame ==
  ASSUME Inv, NEW s \in Scopes, Spawn(s), UNCHANGED <<edges, reg>>
  PROVE  CallFrame
BY DEF Inv, TypeOK, WarmHasKey, Spawn, CallFrame, WarmSteps

LEMMA QuietFrame == Inv /\ UNCHANGED <<warms, edges, reg>> => CallFrame
BY DEF Inv, TypeOK, WarmHasKey, warms, CallFrame

LEMMA CallFrameInv == ASSUME Inv, CallFrame PROVE OneWarm' /\ WarmHasKey'
<1>1. Claimed' = Claimed
  BY DEF CallFrame, Claimed
<1>. QED BY <1>1 DEF CallFrame, Inv, OneWarm

LEMMA HitInv ==
  ASSUME Inv, NEW c \in Callers, NEW s \in Scopes, Hit(c, s)
  PROVE  TypeOK' /\ BuiltTyped' /\ CallFrame
<1>1. PICK e \in Entry : Serve(c, s, e)
  BY DEF Hit, Inv, TypeOK
<1>2. l1' \in [Scopes -> Entry] /\ l2' \in [Scopes -> Entry] /\ UNCHANGED <<reg, graph, bounds>>
  BY DEF Hit, caches, Inv, TypeOK
<1>3. CASE Diverted(e)
  <2>1. /\ pc' = [pc EXCEPT ![c] = "build"] /\ scope' = [scope EXCEPT ![c] = s]
        /\ UNCHANGED <<told, warms>>
    BY <1>1, <1>3 DEF Serve
  <2>2. CallFrame
    BY <1>2, <2>1, QuietFrame DEF bounds
  <2>. QED BY <1>2, <2>1, <2>2 DEF Inv, TypeOK, BuiltTyped, bounds, warms, CallSteps
<1>4. CASE ~Diverted(e)
  <2>1. /\ told' = [told EXCEPT ![c] = Told(e.graph.stamp)] /\ UNCHANGED <<pc, scope>>
        /\ Spawn(s) \/ UNCHANGED warms
    BY <1>1, <1>4 DEF Serve
  <2>2. CallFrame
    BY <1>2, <2>1, SpawnFrame, QuietFrame DEF bounds
  <2>3. Told(e.graph.stamp) \in Stamps
    BY GraphTypes DEF Told, Stamps
  <2>. QED BY <1>2, <2>1, <2>2, <2>3 DEF Inv, TypeOK, BuiltTyped, bounds, CallFrame
<1>. QED BY <1>3, <1>4

LEMMA OpenInv ==
  ASSUME Inv, NEW c \in Callers, NEW s \in Scopes, Miss(c, s) \/ Refresh(c, s)
  PROVE  TypeOK' /\ BuiltTyped' /\ CallFrame
<1>1. CallFrame
  BY QuietFrame DEF Miss, Refresh, bounds
<1>. QED
  BY <1>1 DEF Miss, Refresh, Inv, TypeOK, BuiltTyped, caches, warms, bounds, CallSteps

LEMMA BuildInv ==
  ASSUME Inv, NEW c \in Callers, Build(c)
  PROVE  TypeOK' /\ BuiltTyped' /\ CallFrame
<1>1. UNCHANGED <<caches, reg, told, warms, edges>> /\ restarts' = restarts
  BY DEF Build, Cold, bounds
<1>2. CallFrame
  BY <1>1, QuietFrame
<1>3. colds' \in 0 .. MaxCold
  BY DEF Build, Cold, bounds, Inv, TypeOK
<1>4. CASE EndCall(c)
  BY <1>1, <1>2, <1>3, <1>4, GraphTypes
  DEF EndCall, Inv, TypeOK, BuiltTyped, caches, warms, CallSteps
<1>. DEFINE Got(g) == /\ graph' = [graph EXCEPT ![c] = g]
                      /\ g.stamp = "none" => g.typed = edges
                      /\ pc' = [pc EXCEPT ![c] = "stamp"] /\ UNCHANGED scope
<1>5. CASE \E g \in Graph : Got(g)
  <2>1. pc[c] # "idle"
    BY DEF Build
  <2>. QED
    BY <1>1, <1>2, <1>3, <1>5, <2>1 DEF Inv, TypeOK, BuiltTyped, caches, warms, CallSteps
<1>6. edges \in BOOLEAN
  BY DEF Inv, TypeOK
<1>7. /\ [typed |-> edges, stamp |-> "none"] \in Graph
      /\ [typed |-> FALSE, stamp |-> "pending"] \in Graph
  BY <1>6, GraphTypes DEF Stamps
<1>8. EndCall(c) \/ \E g \in Graph : Got(g)
  BY <1>7 DEF Build
<1>. HIDE DEF Got
<1>. QED BY <1>4, <1>5, <1>8

LEMMA StampInv ==
  ASSUME Inv, NEW c \in Callers, Stamp(c)
  PROVE  TypeOK' /\ BuiltTyped' /\ CallFrame
<1>1. pc[c] = "stamp" /\ scope[c] \in Scopes /\ UNCHANGED <<scope, told, bounds>>
      /\ pc' = [pc EXCEPT ![c] = "store"]
  BY DEF Stamp, Inv, BuiltTyped
<1>2. CASE Record("done") /\ ~graph[c].typed /\ graph[c].stamp = "none" /\ UNCHANGED <<graph, warms>>
  <2>1. ~edges
    BY <1>1, <1>2 DEF Inv, BuiltTyped
  <2>2. CallFrame
    BY <1>1, <1>2, <2>1 DEF CallFrame, Inv, TypeOK, WarmHasKey, warms, bounds
  <2>. QED
    BY <1>1, <1>2, <2>2, AgedTypes DEF Inv, TypeOK, BuiltTyped, warms, bounds, CallSteps, Phases
<1>3. CASE UNCHANGED <<caches, reg, warms>> /\ (UNCHANGED graph \/ graph' = [graph EXCEPT ![c].stamp = "failed"])
  <2>1. CallFrame
    BY <1>1, <1>3, QuietFrame DEF bounds
  <2>2. graph' \in [Callers -> Graph] /\ \A d \in Callers \ {c} : graph'[d] = graph[d]
    BY <1>3 DEF Inv, TypeOK, Graph, Stamps
  <2>. QED
    BY <1>1, <1>3, <2>1, <2>2 DEF Inv, TypeOK, BuiltTyped, caches, warms, bounds, CallSteps
<1>4. CASE Spawn(scope[c]) /\ UNCHANGED <<caches, reg, graph>>
  <2>1. CallFrame
    BY <1>1, <1>4, SpawnFrame DEF bounds
  <2>. QED
    BY <1>1, <1>4, <2>1 DEF Inv, TypeOK, BuiltTyped, caches, bounds, CallSteps, CallFrame
<1>. QED BY <1>2, <1>3, <1>4 DEF Stamp

LEMMA StoreInv ==
  ASSUME Inv, NEW c \in Callers, Store(c)
  PROVE  TypeOK' /\ BuiltTyped' /\ CallFrame
<1>1. CallFrame
  BY QuietFrame DEF Store, bounds
<1>2. scope[c] \in Scopes /\ graph[c] \in Graph /\ graph[c].stamp \in Stamps
  BY DEF Store, Inv, TypeOK, BuiltTyped, Graph
<1>3. l1' \in [Scopes -> Entry] /\ l2' \in [Scopes -> Entry]
  BY <1>2, SetTypes DEF Store, Inv
<1>. QED
  BY <1>1, <1>2, <1>3, GraphTypes
  DEF Store, EndCall, Inv, TypeOK, BuiltTyped, warms, bounds, CallSteps

-----------------------------------------------------------------------------
(* Warms. *)

\* A warm that ends or goes on from one claimed step to the next.
LEMMA WarmTypes == ASSUME Inv, NEW w \in Warms, Warm(w) PROVE TypeOK' /\ BuiltTyped' /\ WarmHasKey'
<1>. USE DEF Inv, WarmSteps
<1>1. /\ \/ \E step \in WarmSteps : GotoW(w, step) /\ warm[w] # "over"
         \/ EndWarm(w)
      /\ UNCHANGED <<calls, edges, restarts>> /\ colds' \in 0 .. MaxCold
  BY DEF Warm, Claim, Load, Merge, Upgrade, Publish, Cold, bounds, TypeOK
<1>2. warm' \in [Warms -> WarmSteps] /\ key' \in [Warms -> Scopes \cup {NoScope}] /\ WarmHasKey'
  BY <1>1 DEF GotoW, EndWarm, TypeOK, WarmHasKey
<1>3. warm[w] # "over" => key[w] \in Scopes
  BY DEF WarmHasKey
<1>4. l1' \in [Scopes -> Entry] /\ l2' \in [Scopes -> Entry] /\ reg' \in Phases
  <2>1. CASE UNCHANGED <<caches, reg>>
    BY <2>1 DEF TypeOK, caches
  <2>2. CASE \E phase \in {"pending", "done", "failed"} : Record(phase)
    <3>1. {"pending", "done", "failed"} \subseteq Phases
      BY DEF Phases, Stamps
    <3>. QED BY <2>2, <3>1, AgedTypes
  <2>3. CASE Upgrade(w)
    <3>1. [typed |-> edges, stamp |-> "none"] \in Graph
      BY GraphTypes DEF TypeOK, Stamps
    <3>. QED BY <1>3, <2>3, <3>1, SetTypes DEF Upgrade, TypeOK
  <2>. QED BY <2>1, <2>2, <2>3 DEF Warm, Claim, Load, Merge, Publish, PublishFailure
<1>. QED BY <1>1, <1>2, <1>4 DEF TypeOK, BuiltTyped, calls

LEMMA WarmOne == ASSUME Inv, NEW w \in Warms, Warm(w) PROVE OneWarm'
<1>. SUFFICES ASSUME edges PROVE OneWarm'
  BY DEF Warm, Claim, Load, Merge, Upgrade, Publish, Cold, bounds, OneWarm
<1>1. /\ \A u, v \in Claimed : u = v
      /\ reg = "pending" <=> Claimed # {}
  BY DEF Inv, OneWarm
<1>. USE DEF Inv, TypeOK, WarmSteps, Claimed
<1>2. CASE warm[w] = "claim" /\ Claimable /\ Record("pending") /\ GotoW(w, "load")
  <2>1. Claimed' = {w} /\ reg' = "pending"
    BY <1>1, <1>2 DEF Claimable, Record, GotoW
  <2>. QED BY <2>1 DEF OneWarm
<1>3. CASE /\ reg' = reg
           /\ \/ warm[w] = "claim" /\ EndWarm(w)
              \/ w \in Claimed /\ \E step \in {"merge", "upgrade", "publish"} : GotoW(w, step)
  <2>1. Claimed' = Claimed
    BY <1>3 DEF EndWarm, GotoW
  <2>. QED BY <1>1, <1>3, <2>1 DEF OneWarm
<1>4. CASE w \in Claimed /\ EndWarm(w) /\ (Record("done") \/ Record("failed"))
  <2>1. Claimed' = {} /\ reg' # "pending"
    BY <1>1, <1>4 DEF EndWarm, Record
  <2>. QED BY <2>1 DEF OneWarm
<1>. QED
  BY <1>2, <1>3, <1>4 DEF Warm, Claim, Load, Merge, Upgrade, Publish, PublishFailure, caches

-----------------------------------------------------------------------------
(* Time, capacity and restarts. *)

TimeStep == (\E s \in Scopes : Evict(s) \/ Expire(s)) \/ ExpireFailure \/ UNCHANGED vars

LEMMA TimeInv == Inv /\ TimeStep => Inv'
<1>. SUFFICES ASSUME Inv, TimeStep PROVE Inv'
  OBVIOUS
<1>1. UNCHANGED <<calls, warms, bounds>>
  BY DEF TimeStep, Evict, Expire, ExpireFailure, vars
<1>2. reg' = reg \/ (reg # "pending" /\ reg' = "none")
  BY DEF TimeStep, Evict, Expire, ExpireFailure, vars
<1>3. l1' \in [Scopes -> Entry] /\ l2' \in [Scopes -> Entry]
  BY GraphTypes DEF TimeStep, Evict, Expire, ExpireFailure, vars, caches, Inv, TypeOK
<1>4. TypeOK' /\ BuiltTyped' /\ WarmHasKey'
  BY <1>1, <1>2, <1>3 DEF Inv, TypeOK, BuiltTyped, WarmHasKey, calls, warms, bounds, Phases, Stamps
<1>5. Claimed' = Claimed /\ edges' = edges
  BY <1>1 DEF Claimed, warms, bounds
<1>. QED BY <1>2, <1>4, <1>5 DEF Inv, OneWarm

LEMMA RestartInv == Inv /\ Restart => Inv'
<1>. SUFFICES ASSUME Inv, Restart PROVE Inv'
  OBVIOUS
<1>1. TypeOK'
  BY GraphTypes DEF Restart, Inv, TypeOK, Phases, Stamps, CallSteps, WarmSteps
<1>2. Claimed' = {} /\ reg' # "pending"
  BY DEF Restart, Claimed
<1>. QED BY <1>1, <1>2 DEF Restart, Inv, BuiltTyped, WarmHasKey, OneWarm

-----------------------------------------------------------------------------

LEMMA NextInv == Inv /\ [Next]_vars => Inv'
<1>. SUFFICES ASSUME Inv, [Next]_vars PROVE Inv'
  OBVIOUS
<1>1. CASE TimeStep \/ Restart
  BY <1>1, TimeInv, RestartInv
<1>2. CASE TypeOK' /\ BuiltTyped' /\ CallFrame
  BY <1>2, CallFrameInv DEF Inv
<1>3. ASSUME NEW w \in Warms, Warm(w) PROVE Inv'
  BY <1>3, WarmTypes, WarmOne DEF Inv
<1>. QED
  BY <1>1, <1>2, <1>3, HitInv, OpenInv, BuildInv, StampInv, StoreInv DEF Next, Call, TimeStep

THEOREM SpecInv == Spec => []Inv
BY InitInv, NextInv, PTL DEF Spec

\* Types; "done" is never the stamp of a graph.
THEOREM TypeCorrect == Spec => []TypeOK
BY SpecInv, PTL DEF Inv

\* At most one background load of a typed module, pending exactly while it runs.
THEOREM OneWarmAtATime == Spec => []OneWarm
BY SpecInv, PTL DEF Inv
=============================================================================
