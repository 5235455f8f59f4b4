-------------------------- MODULE GraphBuildProofs --------------------------
(***************************************************************************)
(* What holds of GraphBuild for every set of files, builds and timers and  *)
(* every bound.                                                            *)
(***************************************************************************)
EXTENDS GraphBuild, TLAPS

W == Dropping \cup Forced \cup Filling

\* A build has a kind while it runs, and the gate's build never stops at the gate.
KindOfStep ==
  \A b \in Builds : /\ kind[b] = "none" <=> pc[b] = "free"
                    /\ pc[b] \in Forced \cup {"gate"} => kind[b] = "tool"

\* The graph between two builds: its row has the fingerprint of its content, and without a row it is
\* empty, so that the next build may fill it without dropping it.
Rest ==
  /\ meta.exists => \E x \in Contents : /\ x.print = meta.hash
                                        /\ graph = [exists |-> TRUE, has |-> {x}]
  /\ ~meta.exists => graph.has = {}
\* The graph at each step of the one build that writes.
Stage(b) ==
  /\ pc[b] = "drop" => meta.exists
  /\ pc[b] \in {"drop", "fdrop"} => Rest
  /\ pc[b] \in {"unmeta", "funmeta"} => graph = NoGraph
  /\ pc[b] \in Filling => ~meta.exists
  /\ pc[b] \in {"ensure", "read", "insert"} => graph.has = {}
  /\ pc[b] = "meta" => graph = [exists |-> TRUE, has |-> {read[b]}]
  /\ pc[b] \in {"insert", "meta"} => read[b].print = tree.print
CalmGraph ==
  calm => /\ \A a, b \in Builds : pc[a] \in W /\ pc[b] \in W => a = b
          /\ \A b \in Builds : Stage(b)
          /\ (\A b \in Builds : pc[b] \notin W) => Rest

Inv == TypeOK /\ KindOfStep /\ OneBuildEach /\ CalmGraph

\* The actions by what they touch: outside the builds, the start of one, its steps.
Around ==
  \/ \E f \in Files : Edit(f) \/ Forward(f)
  \/ TakeEvent \/ Trigger
  \/ \E t \in Timers : Elapse(t) \/ Fire(t)
  \/ \E t \in Timers : Enter(t) /\ UNCHANGED running
  \/ ExpireGraph
  \/ UNCHANGED vars
Starts(b) ==
  \/ \E t \in Timers : Enter(t) /\ ~Refreshing /\ FreeBuild(b) /\ StartAs(b, "refresh", "check")
  \/ AskGate(b) \/ AskRefresh(b) \/ AskInsights(b) \/ SelfHeal(b)
Goes(b) ==
  \/ Check(b) \/ DropGraph(b) \/ DeleteMeta(b) \/ ForceDrop(b) \/ ForceUnmeta(b)
  \/ EnsureGraph(b) \/ BuildAndEnrich(b) \/ BulkInsert(b) \/ UpsertMeta(b) \/ Fail(b)

USE GraphAssumption

-----------------------------------------------------------------------------

LEMMA NextKinds == [Next]_vars => Around \/ \E b \in Builds : Starts(b) \/ Goes(b)
BY DEF Next, Around, Starts, Goes, IndexStep, Enter

LEMMA UneditedContent == Unedited \in Contents /\ 0 \in Prints
BY DEF Unedited, Contents, Prints

\* An edit moves the tree to another content, one fingerprint ahead or none.
LEMMA EditTree ==
  ASSUME tree \in Contents, NEW f \in Files, Edit(f)
  PROVE  /\ tree' \in Contents
         /\ tree'.print = tree.print \/ tree'.print = tree.print + 1
<1>1. tree.source \in Nat /\ tree.print \in Nat /\ tree.print <= tree.source
      /\ tree.source < MaxEdits
  BY DEF Contents, Prints, Edit
<1>2. CASE tree' = [source |-> tree.source + 1, print |-> tree.print + 1]
  BY <1>1, <1>2 DEF Contents, Prints
<1>3. CASE tree' = [tree EXCEPT !.source = @ + 1]
  <2>1. tree' = [source |-> tree.source + 1, print |-> tree.print]
    BY <1>3 DEF Contents
  <2>. QED BY <1>1, <2>1 DEF Contents, Prints
<1>. QED BY <1>2, <1>3 DEF Edit

LEMMA PrintType == Inv => contentFingerprint \in Prints
BY DEF Inv, TypeOK, Contents, contentFingerprint

LEMMA InitInv == Init => Inv
<1>. SUFFICES ASSUME Init PROVE Inv
  OBVIOUS
<1>. USE DEF Init
<1>1. TypeOK
  <2>1. tree \in Contents /\ saved \subseteq Files /\ queue \in 0 .. BufferSize
    BY UneditedContent
  <2>2. timer \in [Timers -> {"off", "armed", "fired", "enter"}] /\ entry \in Timers \cup {NoTimer}
    OBVIOUS
  <2>3. kind \in [Builds -> Kinds] /\ pc \in [Builds -> Steps] /\ read \in [Builds -> Contents]
    BY UneditedContent DEF Kinds, Steps
  <2>4. graph \in [exists : BOOLEAN, has : SUBSET Contents]
    BY DEF NoGraph
  <2>5. meta \in [exists : BOOLEAN, hash : Prints, expired : BOOLEAN]
    BY UneditedContent DEF NoMeta
  <2>6. calm \in BOOLEAN /\ building \in BOOLEAN
    OBVIOUS
  <2>7. faults \in 0 .. MaxFaults /\ worker \in {"idle", "indexed"}
    OBVIOUS
  <2>. QED BY <2>1, <2>2, <2>3, <2>4, <2>5, <2>6, <2>7 DEF TypeOK
<1>2. KindOfStep
  BY DEF KindOfStep, Forced
<1>3. OneBuildEach
  BY DEF OneBuildEach, Of
<1>4. CalmGraph
  BY DEF CalmGraph, Stage, Rest, NoGraph, NoMeta, W, Dropping, Forced, Filling
<1>. QED BY <1>1, <1>2, <1>3, <1>4 DEF Inv

-----------------------------------------------------------------------------
(* Types. *)

LEMMA CalmType == Inv /\ [Next]_vars => calm' \in BOOLEAN
<1>. SUFFICES ASSUME Inv, [Next]_vars PROVE calm' \in BOOLEAN
  OBVIOUS
<1>1. calm' = calm \/ calm' = FALSE \/ (\E p : calm' = (calm /\ p))
  BY DEF Next, IndexStep, Edit, Forward, TakeEvent, Trigger, Elapse, Fire, Enter, ExpireGraph, vars,
     AskGate, AskRefresh, AskInsights, SelfHeal, Check, DropGraph, DeleteMeta, ForceDrop, ForceUnmeta,
     EnsureGraph, BuildAndEnrich, BulkInsert, UpsertMeta, Fail
<1>2. calm \in BOOLEAN
  BY DEF Inv, TypeOK
<1>. QED BY <1>1, <1>2

LEMMA BuildingType == ASSUME Inv, NEW b \in Builds, Goes(b) PROVE building' \in BOOLEAN
<1>1. building' = building \/ \E p : building' = (building /\ p)
  BY DEF Goes, Check, DropGraph, DeleteMeta, ForceDrop, ForceUnmeta, EnsureGraph, BuildAndEnrich,
     BulkInsert, UpsertMeta, Fail, Goto, End
<1>2. building \in BOOLEAN
  BY DEF Inv, TypeOK
<1>. QED BY <1>1, <1>2

LEMMA AroundTypes == Inv /\ Around => TypeOK'
<1>. SUFFICES ASSUME Inv, Around PROVE TypeOK'
  OBVIOUS
<1>. USE DEF Inv, TypeOK, watching, debounce, running
<1>1. CASE \E f \in Files : Edit(f)
  <2>1. tree' \in Contents
    BY <1>1, EditTree
  <2>2. calm' \in BOOLEAN
    BY <1>1, CalmType DEF Next
  <2>. QED BY <1>1, <2>1, <2>2 DEF Edit
<1>2. CASE \E f \in Files : Forward(f)
  BY <1>2, CalmType DEF Forward, Room, Next
<1>3. CASE TakeEvent
  BY <1>3 DEF TakeEvent
<1>4. CASE Trigger
  BY <1>4 DEF Trigger
<1>5. CASE \E t \in Timers : Elapse(t) \/ Fire(t)
  BY <1>5 DEF Elapse, Fire
<1>6. CASE \E t \in Timers : Enter(t) /\ UNCHANGED running
  BY <1>6 DEF Enter
<1>7. CASE ExpireGraph
  BY <1>7 DEF ExpireGraph
<1>8. CASE UNCHANGED vars
  BY <1>8 DEF vars
<1>. QED BY <1>1, <1>2, <1>3, <1>4, <1>5, <1>6, <1>7, <1>8 DEF Around

LEMMA StartTypes == ASSUME Inv, NEW b \in Builds, Starts(b) PROVE TypeOK'
<1>. USE DEF Inv, TypeOK, watching, debounce, running, Kinds, Steps, Forced, StartAs
<1>1. CASE \E t \in Timers : Enter(t) /\ ~Refreshing /\ FreeBuild(b) /\ StartAs(b, "refresh", "check")
  BY <1>1 DEF Enter
<1>2. CASE AskGate(b)
  BY <1>2 DEF AskGate, Register
<1>3. CASE AskRefresh(b)
  BY <1>3 DEF AskRefresh
<1>4. CASE AskInsights(b)
  BY <1>4 DEF AskInsights
<1>5. CASE SelfHeal(b)
  BY <1>5 DEF SelfHeal, Register
<1>. QED BY <1>1, <1>2, <1>3, <1>4, <1>5 DEF Starts

LEMMA GoTypes == ASSUME Inv, NEW b \in Builds, Goes(b) PROVE TypeOK'
<1>. calm' \in BOOLEAN
  BY CalmType DEF Goes, Next, IndexStep
<1>. building' \in BOOLEAN
  BY BuildingType
<1>. contentFingerprint \in Prints /\ 0 \in Prints /\ Unedited \in Contents
  BY PrintType, UneditedContent
<1>. USE DEF Inv, TypeOK, watching, debounce, running, Kinds, Steps, Dropping, Forced, Filling,
     End, Goto, NoGraph, NoMeta
<1>1. CASE Check(b)          BY <1>1 DEF Check, Rebuild
<1>2. CASE DropGraph(b)
  <2>1. CASE graph.exists
    <3>1. graph' = [exists |-> FALSE, has |-> {}] /\ UNCHANGED <<tree, saved, queue, worker, timer, entry, meta, faults, read, kind>>
          /\ \E step \in Steps : pc' = [pc EXCEPT ![b] = step]
      BY <1>2, <2>1 DEF DropGraph
    <3>2. graph' \in [exists : BOOLEAN, has : SUBSET Contents]
      BY <3>1
    <3>. QED BY <3>1, <3>2
  <2>2. CASE ~graph.exists  BY <1>2, <2>2 DEF DropGraph
  <2>. QED BY <2>1, <2>2
<1>3. CASE DeleteMeta(b)     BY <1>3 DEF DeleteMeta
<1>4. CASE ForceDrop(b)
  <2>1. CASE graph.exists
    <3>1. graph' = [exists |-> FALSE, has |-> {}] /\ UNCHANGED <<tree, saved, queue, worker, timer, entry, meta, faults, read, kind>>
          /\ \E step \in Steps : pc' = [pc EXCEPT ![b] = step]
      BY <1>4, <2>1 DEF ForceDrop
    <3>2. graph' \in [exists : BOOLEAN, has : SUBSET Contents]
      BY <3>1
    <3>. QED BY <3>1, <3>2
  <2>2. CASE ~graph.exists  BY <1>4, <2>2 DEF ForceDrop
  <2>. QED BY <2>1, <2>2
<1>5. CASE ForceUnmeta(b)    BY <1>5 DEF ForceUnmeta
<1>6. CASE EnsureGraph(b)    BY <1>6 DEF EnsureGraph
<1>7. CASE BuildAndEnrich(b) BY <1>7 DEF BuildAndEnrich
<1>8. CASE BulkInsert(b)     BY <1>8 DEF BulkInsert
<1>9. CASE UpsertMeta(b)     BY <1>9 DEF UpsertMeta
<1>10. CASE Fail(b)          BY <1>10 DEF Fail
<1>. QED BY <1>1, <1>2, <1>3, <1>4, <1>5, <1>6, <1>7, <1>8, <1>9, <1>10 DEF Goes

-----------------------------------------------------------------------------
(* The two registries. *)

LEMMA AroundFrame == Inv /\ Around => UNCHANGED <<kind, pc, read, building>>
BY DEF Around, Edit, Forward, TakeEvent, Trigger, Elapse, Fire, Enter, ExpireGraph, vars, watching,
   debounce, running

\* A step of a build keeps its kind, or ends it and gives back what it holds.
LEMMA GoFrame ==
  ASSUME Inv, NEW b \in Builds, Goes(b)
  PROVE  /\ pc[b] # "free"
         /\ \E step \in Steps : pc' = [pc EXCEPT ![b] = step]
         /\ \/ /\ pc'[b] # "free" /\ UNCHANGED <<kind, building>>
               /\ pc'[b] \in Forced \cup {"gate"} => pc[b] \in Forced \cup {"gate"}
            \/ /\ pc'[b] = "free" /\ kind' = [kind EXCEPT ![b] = "none"]
               /\ building' = (building /\ kind[b] # "gate")
<1>. USE DEF Inv, TypeOK, Steps, Dropping, Forced, Filling, End, Goto
<1>1. CASE Check(b)          BY <1>1 DEF Check, Rebuild
<1>2. CASE DropGraph(b)      BY <1>2 DEF DropGraph
<1>3. CASE DeleteMeta(b)     BY <1>3 DEF DeleteMeta
<1>4. CASE ForceDrop(b)      BY <1>4 DEF ForceDrop
<1>5. CASE ForceUnmeta(b)    BY <1>5 DEF ForceUnmeta
<1>6. CASE EnsureGraph(b)    BY <1>6 DEF EnsureGraph
<1>7. CASE BuildAndEnrich(b) BY <1>7 DEF BuildAndEnrich
<1>8. CASE BulkInsert(b)     BY <1>8 DEF BulkInsert
<1>9. CASE UpsertMeta(b)     BY <1>9 DEF UpsertMeta
<1>10. CASE Fail(b)
  <2>1. CASE pc[b] \in Forced     BY <1>10, <2>1 DEF Fail
  <2>2. CASE pc[b] \notin Forced  BY <1>10, <2>2 DEF Fail
  <2>. QED BY <2>1, <2>2
<1>. QED BY <1>1, <1>2, <1>3, <1>4, <1>5, <1>6, <1>7, <1>8, <1>9, <1>10 DEF Goes

\* A build that starts, at the gate or elsewhere, has held nothing.
LEMMA StartFrame ==
  ASSUME Inv, NEW b \in Builds, Starts(b)
  PROVE  /\ pc[b] \in {"free", "gate"} /\ kind[b] \in {"none", "tool"}
         /\ \E k \in Kinds, step \in {"free", "check", "fdrop"} :
              /\ kind' = [kind EXCEPT ![b] = k] /\ pc' = [pc EXCEPT ![b] = step]
              /\ (k = "none") <=> (step = "free")
              /\ step = "fdrop" => k = "tool" /\ calm' = (calm /\ Writing = {})
              /\ step # "fdrop" => calm' = calm
              /\ IF k = "gate" THEN ~building /\ building' ELSE building' = building
              /\ k = "refresh" => ~Refreshing
         /\ UNCHANGED <<tree, read, graph, meta>>
<1>. USE DEF Inv, TypeOK, KindOfStep, StartAs, Kinds, FreeBuild
<1>1. CASE \E t \in Timers : Enter(t) /\ ~Refreshing /\ FreeBuild(b) /\ StartAs(b, "refresh", "check")
  BY <1>1 DEF Enter
<1>2. CASE AskGate(b)
  BY <1>2 DEF AskGate, Register, Forced
<1>3. CASE AskRefresh(b)
  BY <1>3 DEF AskRefresh
<1>4. CASE AskInsights(b)
  BY <1>4 DEF AskInsights
<1>5. CASE SelfHeal(b)
  BY <1>5 DEF SelfHeal, Register
<1>. QED BY <1>1, <1>2, <1>3, <1>4, <1>5 DEF Starts

LEMMA Registries == Inv /\ [Next]_vars => KindOfStep' /\ OneBuildEach'
<1>. SUFFICES ASSUME Inv, [Next]_vars PROVE KindOfStep' /\ OneBuildEach'
  OBVIOUS
<1>. USE DEF Inv, TypeOK, KindOfStep, OneBuildEach, Of, Kinds, Steps, Dropping, Forced, Filling
<1>1. CASE Around
  BY <1>1, AroundFrame
<1>2. ASSUME NEW b \in Builds, Goes(b) PROVE KindOfStep' /\ OneBuildEach'
  <2>1. CASE pc'[b] # "free"
    BY <1>2, <2>1, GoFrame
  <2>2. CASE pc'[b] = "free"
    <3>1. kind' = [kind EXCEPT ![b] = "none"] /\ building' = (building /\ kind[b] # "gate")
          /\ pc' = [pc EXCEPT ![b] = "free"]
      BY <1>2, <2>2, GoFrame
    <3>2. KindOfStep'
      BY <3>1
    <3>3. CASE kind[b] = "gate"
      <4>1. ~building'
        BY <3>1, <3>3
      <4>2. \A a \in Builds : kind'[a] # "gate"
        BY <3>1, <3>3
      <4>. QED BY <3>1, <3>2, <4>1, <4>2
    <3>4. CASE kind[b] # "gate"
      BY <3>1, <3>2, <3>4
    <3>. QED BY <3>3, <3>4
  <2>. QED BY <2>1, <2>2
<1>3. ASSUME NEW b \in Builds, Starts(b) PROVE KindOfStep' /\ OneBuildEach'
  <2>1. PICK k \in Kinds, step \in {"free", "check", "fdrop"} :
              /\ kind' = [kind EXCEPT ![b] = k] /\ pc' = [pc EXCEPT ![b] = step]
              /\ (k = "none") <=> (step = "free")
              /\ step = "fdrop" => k = "tool"
              /\ IF k = "gate" THEN ~building /\ building' ELSE building' = building
              /\ k = "refresh" => ~Refreshing
    BY <1>3, StartFrame
  <2>2. kind[b] \in {"none", "tool"}
    BY <1>3, StartFrame
  <2>3. KindOfStep'
    BY <2>1
  <2>4. CASE k = "gate"
    BY <2>1, <2>2, <2>3, <2>4
  <2>5. CASE k # "gate"
    BY <2>1, <2>2, <2>3, <2>5 DEF Refreshing
  <2>. QED BY <2>4, <2>5
<1>. QED BY <1>1, <1>2, <1>3, NextKinds

-----------------------------------------------------------------------------
(* The graph while nothing was lost, failed or overlapped. *)

LEMMA CalmAround == Inv /\ Around => CalmGraph'
<1>. SUFFICES ASSUME Inv, Around PROVE CalmGraph'
  OBVIOUS
<1>1. UNCHANGED <<kind, pc, read, building>>
  BY AroundFrame
<1>2. CASE \E f \in Files : Edit(f)
  <2>1. PICK f \in Files : Edit(f)
    BY <1>2
  <2>2. /\ UNCHANGED <<graph, meta>> /\ (calm' => calm)
        /\ calm' => tree'.print = tree.print \/ \A b \in Builds : pc[b] \notin {"insert", "meta"}
    BY <2>1 DEF Edit, contentFingerprint
  <2>. QED BY <1>1, <2>2 DEF Inv, CalmGraph, Stage, Rest
<1>3. CASE ExpireGraph
  <2>1. meta'.exists = meta.exists /\ meta'.hash = meta.hash /\ UNCHANGED <<graph, calm, tree>>
    BY <1>3 DEF ExpireGraph, Inv, TypeOK
  <2>. QED BY <1>1, <2>1 DEF Inv, CalmGraph, Stage, Rest
<1>4. CASE UNCHANGED <<graph, meta, tree>> /\ (calm' => calm)
  BY <1>1, <1>4 DEF Inv, CalmGraph, Stage, Rest
<1>. QED
  BY <1>2, <1>3, <1>4 DEF Around, Forward, TakeEvent, Trigger, Elapse, Fire, Enter, vars, Inv, TypeOK

LEMMA CalmStart == ASSUME Inv, NEW b \in Builds, Starts(b) PROVE CalmGraph'
<1>. SUFFICES ASSUME calm' PROVE CalmGraph'
  BY DEF CalmGraph
<1>1. PICK step \in {"free", "check", "fdrop"} :
        /\ pc' = [pc EXCEPT ![b] = step]
        /\ step = "fdrop" => calm' = (calm /\ Writing = {})
        /\ step # "fdrop" => calm' = calm
  BY StartFrame
<1>2. pc[b] \in {"free", "gate"} /\ UNCHANGED <<tree, read, graph, meta>>
  BY StartFrame
<1>3. calm
  BY <1>1
<1>4. Rest' <=> Rest
  BY <1>2 DEF Rest
<1>5. pc'[b] = step /\ \A a \in Builds \ {b} : pc'[a] = pc[a]
  BY <1>1 DEF Inv, TypeOK
<1>6. CASE step = "fdrop"
  <2>1. \A a \in Builds : pc[a] \notin W
    BY <1>1, <1>6 DEF Writing, W
  <2>2. Rest
    BY <1>3, <2>1 DEF Inv, CalmGraph
  <2>3. \A a \in Builds : pc'[a] \in W => a = b
    BY <1>5, <2>1
  <2>4. \A a \in Builds : Stage(a)'
    BY <1>4, <1>5, <1>6, <2>2, <2>3 DEF Stage, W, Dropping, Forced, Filling
  <2>. QED BY <1>4, <2>2, <2>3, <2>4 DEF CalmGraph
<1>7. CASE step # "fdrop"
  <2>1. pc[b] \notin W /\ pc'[b] \notin W
    BY <1>1, <1>2, <1>5, <1>7 DEF W, Dropping, Forced, Filling
  <2>2. \A a \in Builds : pc'[a] \in W => a # b /\ pc[a] \in W
    BY <1>5, <2>1
  <2>3. (\A a \in Builds : pc'[a] \notin W) => \A a \in Builds : pc[a] \notin W
    BY <1>5, <2>1
  <2>4. \A a \in Builds : Stage(a)'
    <3>1. Stage(b)'
      BY <2>1 DEF Stage, W, Dropping, Forced, Filling
    <3>2. \A a \in Builds \ {b} : Stage(a)'
      BY <1>2, <1>3, <1>4, <1>5 DEF Inv, CalmGraph, Stage
    <3>. QED BY <3>1, <3>2
  <2>. QED BY <1>3, <1>4, <2>2, <2>3, <2>4 DEF Inv, CalmGraph
<1>. QED BY <1>6, <1>7

LEMMA CalmGo == ASSUME Inv, NEW b \in Builds, Goes(b) PROVE CalmGraph'
<1>. SUFFICES ASSUME calm' PROVE CalmGraph'
  BY DEF CalmGraph
<1>. USE DEF Inv, TypeOK, Goto, End, Dropping, Forced, Filling, W
<1>1. calm
  BY DEF Goes, Check, DropGraph, DeleteMeta, ForceDrop, ForceUnmeta, EnsureGraph, BuildAndEnrich,
     BulkInsert, UpsertMeta, Fail
<1>2. CASE Check(b)
  <2>1. CASE Hit
    BY <1>1, <1>2, <2>1 DEF Check, CalmGraph, Stage, Rest
  <2>2. CASE ~Hit
    <3>1. \A a \in Builds : pc[a] \notin W
      BY <1>2, <2>2 DEF Check, Writing
    <3>2. Rest /\ UNCHANGED <<meta, graph, tree, read>>
      BY <1>1, <1>2, <2>2, <3>1 DEF Check, CalmGraph
    <3>3. pc' = [pc EXCEPT ![b] = Rebuild]
      BY <1>2, <2>2 DEF Check
    <3>4. meta.exists \in BOOLEAN
      OBVIOUS
    <3>. QED BY <3>1, <3>2, <3>3, <3>4 DEF CalmGraph, Stage, Rest, Rebuild
  <2>. QED BY <2>1, <2>2
<1>3. ASSUME pc[b] \in W
      PROVE  Stage(b) /\ \A a \in Builds \ {b} : pc[a] \notin W
  BY <1>1, <1>3 DEF CalmGraph
<1>4. CASE DropGraph(b)
  BY <1>3, <1>4 DEF DropGraph, CalmGraph, Stage, Rest, NoGraph
<1>5. CASE DeleteMeta(b)
  BY <1>3, <1>5 DEF DeleteMeta, CalmGraph, Stage, Rest, NoGraph, NoMeta
<1>6. CASE ForceDrop(b)
  BY <1>3, <1>6 DEF ForceDrop, CalmGraph, Stage, Rest, NoGraph
<1>7. CASE ForceUnmeta(b)
  BY <1>3, <1>7 DEF ForceUnmeta, CalmGraph, Stage, Rest, NoGraph, NoMeta
<1>8. CASE EnsureGraph(b)
  BY <1>3, <1>8 DEF EnsureGraph, CalmGraph, Stage, Rest
<1>9. CASE BuildAndEnrich(b)
  BY <1>3, <1>9 DEF BuildAndEnrich, CalmGraph, Stage, Rest
<1>10. CASE BulkInsert(b)
  BY <1>3, <1>10 DEF BulkInsert, CalmGraph, Stage, Rest
<1>11. CASE UpsertMeta(b)
  <2>1. /\ pc[b] = "meta" /\ pc' = [pc EXCEPT ![b] = "free"] /\ UNCHANGED <<tree, graph>>
        /\ meta' = [exists |-> TRUE, hash |-> contentFingerprint, expired |-> FALSE]
    BY <1>11 DEF UpsertMeta
  <2>2. \A a \in Builds : pc'[a] \notin W
    BY <1>3, <2>1
  <2>3. \A a \in Builds : Stage(a)'
    BY <2>2 DEF Stage
  <2>4. graph = [exists |-> TRUE, has |-> {read[b]}] /\ read[b].print = tree.print
    BY <1>3, <2>1 DEF Stage
  <2>5. read[b] \in Contents /\ meta'.exists /\ meta'.hash = tree.print
    BY <2>1 DEF contentFingerprint
  <2>6. Rest'
    BY <2>1, <2>4, <2>5 DEF Rest
  <2>. QED BY <2>2, <2>3, <2>6 DEF CalmGraph
<1>12. CASE Fail(b)
  BY <1>12 DEF Fail
<1>. QED
  BY <1>2, <1>4, <1>5, <1>6, <1>7, <1>8, <1>9, <1>10, <1>11, <1>12 DEF Goes

-----------------------------------------------------------------------------

LEMMA NextInv == Inv /\ [Next]_vars => Inv'
<1>. SUFFICES ASSUME Inv, [Next]_vars PROVE Inv'
  OBVIOUS
<1>1. TypeOK' /\ CalmGraph'
  BY NextKinds, AroundTypes, StartTypes, GoTypes, CalmAround, CalmStart, CalmGo
<1>. QED BY <1>1, Registries DEF Inv

THEOREM SpecInv == Spec => []Inv
BY InitInv, NextInv, PTL DEF Spec

\* Types; the channel never holds more events than it has room for.
THEOREM TypeCorrect == Spec => []TypeOK
BY SpecInv, PTL DEF Inv

\* At most one background build and one refresh, registered exactly while they run.
\* Builds of different registries, and of tools, are not kept apart by the code.
THEOREM OneBuildPerRegistry == Spec => []OneBuildEach
BY SpecInv, PTL DEF Inv

\* While nothing was lost, failed or overlapped, the graph holds exactly one content,
\* and its fingerprint is the row's: what the fingerprint tells apart, the row tells
\* truly.
THEOREM RowIsTrue == Spec => []RowTellsContent
<1>1. Inv => RowTellsContent
  <2>. DEFINE Told == \E x \in Contents : /\ x.print = meta.hash
                                         /\ graph = [exists |-> TRUE, has |-> {x}]
  <2>. SUFFICES ASSUME Inv, calm, meta.exists, \A b \in Builds : pc[b] \notin {"unmeta", "funmeta"}
                PROVE  Told
    BY DEF RowTellsContent
  <2>1. CASE \A b \in Builds : pc[b] \notin W
    BY <2>1 DEF Inv, CalmGraph, Rest
  <2>2. ASSUME NEW b \in Builds, pc[b] \in W
        PROVE  Told
    BY <2>2 DEF Inv, CalmGraph, Stage, Rest, W, Dropping, Forced, Filling
  <2>. QED BY <2>1, <2>2
<1>. QED BY <1>1, SpecInv, PTL
=============================================================================
