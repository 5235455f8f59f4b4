-------------------------- MODULE EmbedIndexProofs --------------------------
(***************************************************************************)
(* Theorems of EmbedIndex, for every set of symbols, files, processes and  *)
(* models and every value of the bounds.                                   *)
(***************************************************************************)
EXTENDS EmbedIndexInv, TLAPS

-----------------------------------------------------------------------------
(* Types of the values the actions write. *)

LEMMA ConstantTypes ==
  /\ Nothing \in Tree /\ Loc0 \in Local
  /\ NoRow \in Row /\ NoRows \in [Syms -> Row]
  /\ NoState \in State
BY BoundsAssumption DEF Nothing, Tree, Vers, Loc0, Local, NoRow, Row, NoRows, NoState,
     State

LEMMA RowTypes ==
  ASSUME TypeOK, NEW r \in [Syms -> Row], NEW S \in SUBSET Syms, NEW snap \in Tree
  PROVE  /\ Upserted(r, S, snap) \in [Syms -> Row]
         /\ Without(r, S) \in [Syms -> Row]
<1>1. ASSUME NEW s \in Syms  PROVE [ver |-> snap[s], model |-> model] \in Row
  BY DEF TypeOK, Row, Tree
<1>2. NoRow \in Row
  BY ConstantTypes
<1>3. QED
  BY <1>1, <1>2 DEF Upserted, Without

LEMMA ReadTypes ==
  ASSUME TypeOK
  PROVE  /\ GetHashes \in Tree
         /\ \A U : Parsed(U) \in Tree
         /\ repoMainBranchSHA \in 0 .. MaxCommits
         /\ \A p \in Procs : RecordedState(p) \in State
<1>1. GetHashes \in Tree
  BY DEF TypeOK, GetHashes, Tree, Row
<1>2. \A U : Parsed(U) \in Tree
  BY BoundsAssumption DEF TypeOK, Parsed, Tree, Vers
<1>3. repoMainBranchSHA \in 0 .. MaxCommits
  BY BoundsAssumption DEF TypeOK, repoMainBranchSHA
<1>4. \A p \in Procs : RecordedState(p) \in State
  BY DEF TypeOK, RecordedState, State, Local
<1>5. QED
  BY <1>1, <1>2, <1>3, <1>4

LEMMA InitTypes == Init => TypeOK
<1> SUFFICES ASSUME Init  PROVE TypeOK
  OBVIOUS
<1>1. tree \in Tree
  BY BoundsAssumption DEF Init, Tree, Vers
<1>2. hist \in Seq(Tree) /\ Len(hist) <= MaxCommits
  <2>1. CASE hist = <<>>
    BY <2>1, BoundsAssumption
  <2>2. CASE hist = <<tree>>
    BY <2>2, <1>1, BoundsAssumption
  <2>3. QED
    BY <2>1, <2>2 DEF Init
<1>3. rows \in [Syms -> Row] /\ model \in Models
  <2>1. CASE rows = NoRows
    BY <2>1, ConstantTypes DEF Init
  <2>2. CASE rows = Upserted(NoRows, {s \in Syms : Live(tree[s])}, tree)
    BY <2>2, <1>1, ConstantTypes DEF Init, Upserted, Row, Tree
  <2>3. QED
    BY <2>1, <2>2 DEF Init
<1>4. state \in State
  <2>1. CASE state = NoState
    BY <2>1, ConstantTypes
  <2>2. CASE state = [sha |-> 1, model |-> model, path |-> FALSE]
    BY <2>2, <1>3, BoundsAssumption DEF State
  <2>3. QED
    BY <2>1, <2>2 DEF Init
<1>5. slot \in Procs \cup {Free} /\ pc \in [Procs -> Steps]
  BY DEF Init, Steps
<1>6. loc \in [Procs -> Local]
  BY ConstantTypes DEF Init
<1>7. QED
  BY <1>1, <1>2, <1>3, <1>4, <1>5, <1>6 DEF Init, TypeOK

-----------------------------------------------------------------------------
(* The parts of a step. *)

LEMMA GotoTypes ==
  ASSUME TypeOK, NEW p \in Procs, NEW step \in Steps, Goto(p, step)
  PROVE  pc' \in [Procs -> Steps]
BY DEF TypeOK, Goto

LEMMA ReturnTypes ==
  ASSUME TypeOK, NEW p \in Procs, Return(p) \/ Fail(p)
  PROVE  /\ pc' \in [Procs -> Steps] /\ loc' \in [Procs -> Local]
         /\ slot' \in Procs \cup {Free}
<1>1. [Loc0 EXCEPT !.periodic = loc[p].periodic] \in Local
  BY ConstantTypes DEF TypeOK, Local
<1>2. QED
  BY <1>1, ConstantTypes DEF TypeOK, Return, Fail, Goto, Steps

LEMMA BudgetTypes ==
  ASSUME TypeOK, Works \/ Fault \/ \E U : WalksWithout(U)
  PROVE  faults' \in Nat /\ unread' \in Nat /\ crashes' \in Nat
BY DEF TypeOK, Works, Fault, WalksWithout, budget

LEMMA InvalidateEffect ==
  ASSUME NEW p \in Procs, Invalidates(p)
  PROVE  /\ UNCHANGED <<tree, hist, slot, model, loc>> /\ (Works \/ Fault)
         /\ pc[p] \in {"idle", "boot", "wipe"}
         /\ \E step \in {"boot_sync", "claim", "wipe"} : Goto(p, step)
         /\ UNCHANGED db \/ PurgeForeignRows \/ WipeRepo
BY DEF Invalidates, BootInvalidate, IndexRepoAsync, InvalidateWipe, Invalidated,
       InvalidateIfModelChanged, repo

LEMMA InvalidateTypes ==
  ASSUME TypeOK, NEW p \in Procs, Invalidates(p)
  PROVE  rows' \in [Syms -> Row] /\ state' \in State
<1>1. CASE PurgeForeignRows
  BY <1>1, RowTypes DEF TypeOK, PurgeForeignRows
<1>2. CASE WipeRepo
  BY <1>2, ConstantTypes DEF WipeRepo
<1>3. CASE UNCHANGED db
  BY <1>3 DEF TypeOK, db
<1>4. QED
  BY <1>1, <1>2, <1>3, InvalidateEffect

LEMMA WithPathState ==
  ASSUME TypeOK
  PROVE  WithPath \in State /\ WithPath.sha = state.sha /\ WithPath.model = state.model
BY DEF TypeOK, State, WithPath, StateExists

LEMMA RefreshTypes ==
  ASSUME TypeOK, NEW p \in Procs, RefreshState(p)
  PROVE  state' \in State /\ (Works \/ Fault)
BY ReadTypes, WithPathState DEF TypeOK, RefreshState

LEMMA LocTypes ==
  ASSUME TypeOK, NEW p \in Procs, NEW l \in Local, loc' = [loc EXCEPT ![p] = l]
  PROVE  loc' \in [Procs -> Local]
BY DEF TypeOK

\* The locals of a run or a pass stay locals when it stores what it read.
LEMMA HashesTypes ==
  ASSUME NEW l \in Local, NEW h \in Tree, NEW b \in BOOLEAN, NEW t \in SUBSET Syms
  PROVE  [l EXCEPT !.had = h, !.first = b, !.todo = t] \in Local
BY DEF Local

LEMMA FileTypes ==
  ASSUME NEW l \in Local, NEW f \in Files, NEW r \in Tree, NEW h \in Tree,
         NEW t \in SUBSET Syms
  PROVE  [l EXCEPT !.file = f, !.files = l.files \ {f}, !.snap = r, !.had = h,
                   !.todo = t] \in Local
<1>1. ASSUME NEW F \in SUBSET Files
      PROVE  [l EXCEPT !.file = f, !.files = F, !.snap = r, !.had = h, !.todo = t]
               \in Local
  BY DEF Local
<1>2. l.files \ {f} \in SUBSET Files
  BY DEF Local
<1>3. QED
  BY <1>1, <1>2

LEMMA ErrTypes ==
  ASSUME NEW l \in Local, NEW f
  PROVE  [l EXCEPT !.files = l.files \ {f}, !.err = TRUE] \in Local
<1>1. ASSUME NEW F \in SUBSET Files
      PROVE  [l EXCEPT !.files = F, !.err = TRUE] \in Local
  BY DEF Local
<1>2. l.files \ {f} \in SUBSET Files
  BY DEF Local
<1>3. QED
  BY <1>1, <1>2

LEMMA FullIndexTypes ==
  ASSUME TypeOK, NEW p \in Procs, FullIndex(p)
  PROVE  TypeOK'
<1> USE DEF TypeOK, Steps, SlotSteps, FullSteps, SweepSteps, repo, db
<1>1. CASE FullLookup(p)
  <2>1. loc' \in [Procs -> Local]
    <3>1. [loc[p] EXCEPT !.first = ~StateExists] \in Local
      BY DEF Local, StateExists
    <3>2. QED
      BY <1>1, <3>1, LocTypes DEF FullLookup
  <2>2. QED
    BY <1>1, <2>1, BudgetTypes, GotoTypes DEF FullLookup
<1>2. CASE FullFastPath(p)
  BY <1>2, BudgetTypes, GotoTypes, ReturnTypes, RefreshTypes DEF FullFastPath
<1>3. CASE FullParse(p)
  <2>1. ASSUME NEW U, loc' = [loc EXCEPT ![p].snap = Parsed(U)]
        PROVE  loc' \in [Procs -> Local]
    <3>1. [loc[p] EXCEPT !.snap = Parsed(U)] \in Local
      BY ReadTypes DEF Local
    <3>2. QED
      BY <2>1, <3>1, LocTypes
  <2>3. loc' \in [Procs -> Local] /\ slot' \in Procs \cup {Free}
    BY <1>3, <2>1, ReturnTypes DEF FullParse
  <2>4. faults' \in Nat /\ unread' \in Nat /\ crashes' \in Nat
    BY <1>3, BudgetTypes DEF FullParse
  <2>5. pc' \in [Procs -> Steps]
    BY <1>3, GotoTypes, ReturnTypes DEF FullParse
  <2>6. QED
    BY <1>3, <2>3, <2>4, <2>5 DEF FullParse
<1>4. CASE FullHashes(p)
  <2>1. ASSUME NEW t \in SUBSET Syms, NEW h \in Tree, NEW b \in BOOLEAN,
               loc' = [loc EXCEPT ![p].had = h, ![p].first = b, ![p].todo = t]
        PROVE  loc' \in [Procs -> Local]
    <3>1. loc[p] \in Local
      OBVIOUS
    <3>2. [loc[p] EXCEPT !.had = h, !.first = b, !.todo = t] \in Local
      BY <3>1, HashesTypes, Zenon
    <3>3. QED
      BY <2>1, <3>2, LocTypes
  <2>2. filterSymbols(loc[p].snap, GetHashes) \in SUBSET Syms
    BY DEF filterSymbols
  <2>3. firstIndexVerdict(loc[p].first, GetHashes) \in BOOLEAN
    BY DEF firstIndexVerdict
  <2>4. loc' \in [Procs -> Local] /\ slot' \in Procs \cup {Free}
    BY <1>4, <2>1, <2>2, <2>3, ReturnTypes, ReadTypes DEF FullHashes
  <2>5. pc' \in [Procs -> Steps]
    BY <1>4, GotoTypes, ReturnTypes DEF FullHashes
  <2>6. QED
    BY <1>4, <2>4, <2>5, BudgetTypes DEF FullHashes
<1>5. CASE FullReconcile(p)
  <2>1. state' \in State
    BY <1>5, WithPathState DEF FullReconcile
  <2>2. rows' \in [Syms -> Row]
    BY <1>5, RowTypes DEF FullReconcile
  <2>3. QED
    BY <1>5, <2>1, <2>2, BudgetTypes, GotoTypes DEF FullReconcile
<1>6. CASE FullEmbed(p)
  <2>1. ASSUME NEW s, loc' = [loc EXCEPT ![p].todo = @ \ {s}]
        PROVE  loc' \in [Procs -> Local]
    <3>1. [loc[p] EXCEPT !.todo = @ \ {s}] \in Local
      BY DEF Local
    <3>2. QED
      BY <2>1, <3>1, LocTypes
  <2>2. loc' \in [Procs -> Local] /\ slot' \in Procs \cup {Free}
    BY <1>6, <2>1, ReturnTypes DEF FullEmbed
  <2>3. ASSUME NEW s \in loc[p].todo, rows' = Upserted(rows, {s}, loc[p].snap)
        PROVE  rows' \in [Syms -> Row]
    <3>1. {s} \in SUBSET Syms /\ loc[p].snap \in Tree
      BY DEF Local
    <3>2. QED
      BY <2>3, <3>1, RowTypes
  <2>4. rows' \in [Syms -> Row]
    BY <1>6, <2>3 DEF FullEmbed
  <2>5. pc' \in [Procs -> Steps]
    BY <1>6, GotoTypes, ReturnTypes DEF FullEmbed
  <2>6. QED
    BY <1>6, <2>2, <2>4, <2>5, BudgetTypes DEF FullEmbed
<1>7. CASE FullOrphans(p)
  BY <1>7, BudgetTypes, GotoTypes, RowTypes DEF FullOrphans, Existing
<1>8. CASE FullCommit(p)
  BY <1>8, BudgetTypes, GotoTypes, ReturnTypes, ReadTypes DEF FullCommit
<1>9. CASE CompensateProbe(p)
  BY <1>9, BudgetTypes, GotoTypes, ReturnTypes DEF CompensateProbe
<1>10. CASE CompensateDelete(p)
  BY <1>10, BudgetTypes, ReturnTypes, ConstantTypes DEF CompensateDelete
<1>11. QED
  BY <1>1, <1>2, <1>3, <1>4, <1>5, <1>6, <1>7, <1>8, <1>9, <1>10 DEF FullIndex

LEMMA SyncTypes ==
  ASSUME TypeOK, NEW p \in Procs, IncrementalSync(p)
  PROVE  TypeOK'
<1> USE DEF TypeOK, Steps, SlotSteps, FullSteps, SweepSteps, repo, db
<1>1. CASE SyncStart(p)
  <2>1. ASSUME NEW e \in BOOLEAN
        PROVE  [loc[p] EXCEPT !.cur = repoMainBranchSHA, !.periodic = e] \in Local
    BY ReadTypes DEF Local
  <2>2. (loc[p].periodic \/ pc[p] = "idle") \in BOOLEAN
    OBVIOUS
  <2>3. [loc[p] EXCEPT !.cur = repoMainBranchSHA,
                      !.periodic = loc[p].periodic \/ pc[p] = "idle"] \in Local
    BY <2>1, <2>2
  <2>4. loc' \in [Procs -> Local]
    BY <1>1, <2>3, LocTypes DEF SyncStart
  <2>5. QED
    BY <1>1, <2>4, BudgetTypes, GotoTypes DEF SyncStart
<1>2. CASE SyncLookup(p)
  <2>1. gitDiffNames(state.sha, loc[p].cur) \in SUBSET Files
    BY DEF gitDiffNames
  <2>2. loc' \in [Procs -> Local]
    <3>1. [loc[p] EXCEPT !.files = gitDiffNames(state.sha, loc[p].cur)] \in Local
      BY <2>1 DEF Local
    <3>2. QED
      BY <1>2, <3>1, LocTypes DEF SyncLookup
  <2>3. QED
    BY <1>2, <2>2, BudgetTypes, GotoTypes DEF SyncLookup
<1>3. CASE SyncCount(p)
  BY <1>3, BudgetTypes, GotoTypes, ReturnTypes, RefreshTypes DEF SyncCount
<1>4. CASE SyncNoFiles(p)
  BY <1>4, GotoTypes DEF SyncNoFiles, budget
<1>10. CASE SyncGiveUp(p)
  BY <1>10, ReturnTypes DEF SyncGiveUp, budget
<1>5. CASE SyncTruncated(p)
  BY <1>5, ReturnTypes DEF SyncTruncated, budget
<1>6. CASE FileEvict(p)
  <2>1. [loc[p] EXCEPT !.err = TRUE] \in Local
    BY DEF Local
  <2>2. loc' \in [Procs -> Local]
    BY <1>6, <2>1, LocTypes DEF FileEvict
  <2>3. rows' \in [Syms -> Row]
    BY <1>6, RowTypes DEF FileEvict, InFile
  <2>4. AfterFile(p) \in Steps
    BY DEF AfterFile
  <2>5. QED
    BY <1>6, <2>2, <2>3, <2>4, BudgetTypes, GotoTypes DEF FileEvict
<1>7. CASE FileEmbed(p)
  <2>1. [loc[p] EXCEPT !.err = TRUE] \in Local
    BY DEF Local
  <2>2. loc' \in [Procs -> Local]
    <3>1. [loc[p] EXCEPT !.embedded = @ + 1] \in Local
      <4>1. ASSUME NEW n \in Nat  PROVE [loc[p] EXCEPT !.embedded = n] \in Local
        BY DEF Local
      <4>2. loc[p].embedded + 1 \in Nat
        BY DEF Local
      <4>3. QED
        BY <4>1, <4>2
    <3>2. QED
      BY <1>7, <2>1, <3>1, LocTypes DEF FileEmbed
  <2>3. loc[p].todo \in SUBSET Syms /\ loc[p].snap \in Tree
    BY DEF Local
  <2>4. rows' \in [Syms -> Row]
    <3>1. ASSUME NEW S \in SUBSET loc[p].todo
          PROVE  Upserted(rows, S, loc[p].snap) \in [Syms -> Row]
      BY <2>3, RowTypes
    <3>2. loc[p].todo \in SUBSET loc[p].todo
      OBVIOUS
    <3>3. QED
      BY <1>7, <3>1, <3>2 DEF FileEmbed
  <2>5. AfterFile(p) \in Steps
    BY DEF AfterFile
  <2>6. QED
    BY <1>7, <2>2, <2>4, <2>5, BudgetTypes, GotoTypes DEF FileEmbed
<1>8. CASE SyncCommit(p)
  BY <1>8, BudgetTypes, ReturnTypes, ReadTypes DEF SyncCommit
<1>9. ASSUME NEW f \in Files, IndexFileRead(p, f)
      PROVE  TypeOK'
  <2>1. ASSUME NEW t \in SUBSET Syms, NEW r \in Tree, NEW h \in Tree
        PROVE  [loc[p] EXCEPT !.file = f, !.files = @ \ {f}, !.snap = r, !.had = h,
                              !.todo = t] \in Local
    <3>1. loc[p] \in Local
      OBVIOUS
    <3>2. QED
      BY <3>1, FileTypes, Zenon
  <2>2. [loc[p] EXCEPT !.files = @ \ {f}, !.err = TRUE] \in Local
    <3>1. loc[p] \in Local
      OBVIOUS
    <3>2. QED
      BY <3>1, ErrTypes, Zenon
  <2>3. ASSUME NEW S \in Tree
        PROVE  OfFile(f, S) \in Tree
    BY BoundsAssumption DEF OfFile, Tree, Vers
  <2>4. \A r, h : filterSymbols(r, h) \in SUBSET Syms
    BY DEF filterSymbols
  <2>5. loc' \in [Procs -> Local]
    <3>1. ASSUME NEW U,
                 loc' = [loc EXCEPT ![p].file = f,
                                    ![p].files = @ \ {f},
                                    ![p].snap = OfFile(f, Parsed(U)),
                                    ![p].had = OfFile(f, GetHashes),
                                    ![p].todo = filterSymbols(OfFile(f, Parsed(U)),
                                                              OfFile(f, GetHashes))]
          PROVE  loc' \in [Procs -> Local]
      <4>1. OfFile(f, Parsed(U)) \in Tree /\ OfFile(f, GetHashes) \in Tree
        BY <2>3, ReadTypes
      <4>2. QED
        BY <3>1, <4>1, <2>1, <2>4, LocTypes
    <3>2. ASSUME loc' = [loc EXCEPT ![p].files = @ \ {f}, ![p].err = TRUE]
          PROVE  loc' \in [Procs -> Local]
      BY <2>2, <3>2, LocTypes
    <3>3. QED
      BY <1>9, <3>1, <3>2, Zenon DEF IndexFileRead
  <2>6. faults' \in Nat /\ unread' \in Nat /\ crashes' \in Nat
    <3>1. Fault \/ \E U : WalksWithout(U)
      BY <1>9, Zenon DEF IndexFileRead
    <3>2. QED
      BY <3>1, BudgetTypes
  <2>7. pc' \in [Procs -> Steps]
    BY <1>9, GotoTypes DEF IndexFileRead
  <2>8. QED
    BY <1>9, <2>5, <2>6, <2>7 DEF IndexFileRead
<1>11. QED
  BY <1>1, <1>2, <1>3, <1>4, <1>5, <1>6, <1>7, <1>8, <1>9, <1>10 DEF IncrementalSync

LEMMA SweepTypes ==
  ASSUME TypeOK, NEW p \in Procs, OrphanSweep(p)
  PROVE  TypeOK'
<1> USE DEF TypeOK, Steps, SlotSteps, FullSteps, SweepSteps, repo, db
<1>1. CASE SweepList(p)
  BY <1>1, GotoTypes DEF SweepList, budget
<1>2. CASE SweepClaim(p)
  BY <1>2, GotoTypes, ReturnTypes DEF SweepClaim, budget
<1>3. CASE DeleteOrphanRepoKeysForRepo(p)
  BY <1>3, BudgetTypes, ReturnTypes, ConstantTypes DEF DeleteOrphanRepoKeysForRepo
<1>4. CASE SweepPathlessWipe(p)
  BY <1>4, BudgetTypes, ReturnTypes, ConstantTypes DEF SweepPathlessWipe, WipeRepo
<1>5. QED
  BY <1>1, <1>2, <1>3, <1>4 DEF OrphanSweep

LEMMA StepTypes ==
  ASSUME TypeOK, NEW p \in Procs, Step(p)
  PROVE  TypeOK'
<1> USE DEF TypeOK, Steps, SlotSteps, FullSteps, SweepSteps, repo, db
<1>1. CASE Invalidates(p)
  BY <1>1, InvalidateEffect, InvalidateTypes, BudgetTypes, GotoTypes
<1>3. CASE ClaimIndexSlot(p)
  <2>1. [Loc0 EXCEPT !.cur = repoMainBranchSHA, !.periodic = loc[p].periodic] \in Local
    BY ConstantTypes, ReadTypes DEF Local
  <2>2. QED
    BY <1>3, <2>1, GotoTypes, ReturnTypes, LocTypes DEF ClaimIndexSlot, budget
<1>4. QED
  BY <1>1, <1>3, FullIndexTypes, SyncTypes, SweepTypes DEF Step, Invalidates

\* Every variable keeps its type, in particular the recorded commit is always
\* one of the branch's and a body that is indexed was one of the source's.
THEOREM TypeCorrect == Spec => []TypeOK
<1>1. TypeOK /\ [Next]_vars => TypeOK'
  <2> SUFFICES ASSUME TypeOK, [Next]_vars  PROVE TypeOK'
    OBVIOUS
  <2>1. ASSUME NEW s \in Syms, Edit(s)  PROVE TypeOK'
    <3>1. tree' \in Tree
      BY <2>1, BoundsAssumption DEF TypeOK, Edit, Tree, Vers
    <3>2. QED
      BY <2>1, <3>1 DEF TypeOK, Edit, budget
  <2>2. CASE Commit
    <3>1. hist' \in Seq(Tree) /\ Len(hist') <= MaxCommits
      BY <2>2, BoundsAssumption DEF TypeOK, Commit
    <3>2. QED
      BY <2>2, <3>1 DEF TypeOK, Commit, budget
  <2>3. CASE Restart
    BY <2>3, ConstantTypes DEF TypeOK, Restart, Steps
  <2>4. ASSUME NEW p \in Procs, Step(p)  PROVE TypeOK'
    BY <2>4, StepTypes
  <2>5. CASE UNCHANGED vars
    BY <2>5 DEF TypeOK, vars
  <2>6. QED
    BY <2>1, <2>2, <2>3, <2>4, <2>5 DEF Next
<1>2. QED
  BY InitTypes, <1>1, PTL DEF Spec

-----------------------------------------------------------------------------
(* The index slot. *)

LEMMA InitSlot == Init => SlotExclusive
BY ProcsAssumption DEF Init, SlotExclusive, SlotSteps, FullSteps, SweepSteps

\* A process that moves between steps of the same kind keeps the slot or stays
\* without it.
LEMMA GotoSlot ==
  ASSUME TypeOK, SlotExclusive, NEW p \in Procs, NEW step, Goto(p, step), UNCHANGED slot,
         pc[p] \in SlotSteps <=> step \in SlotSteps
  PROVE  SlotExclusive'
BY DEF TypeOK, SlotExclusive, Goto

LEMMA ReturnSlot ==
  ASSUME TypeOK, SlotExclusive, NEW p \in Procs, Return(p) \/ Fail(p)
  PROVE  SlotExclusive'
BY ProcsAssumption
   DEF TypeOK, SlotExclusive, Return, Fail, Goto, SlotSteps, FullSteps, SweepSteps

LEMMA TakeSlot ==
  ASSUME TypeOK, SlotExclusive, NEW p \in Procs, NEW step \in SlotSteps, SlotIsFree,
         slot' = p, Goto(p, step)
  PROVE  SlotExclusive'
BY ProcsAssumption DEF TypeOK, SlotExclusive, SlotIsFree, Goto

LEMMA StepSlot ==
  ASSUME TypeOK, SlotExclusive, NEW p \in Procs, Step(p)
  PROVE  SlotExclusive'
<1> USE DEF SlotSteps, FullSteps, SweepSteps
<1>1. CASE Invalidates(p)
  BY <1>1, InvalidateEffect, GotoSlot
<1>2. CASE ClaimIndexSlot(p)
  BY <1>2, TakeSlot, ReturnSlot DEF ClaimIndexSlot
<1>3. CASE FullIndex(p)
  BY <1>3, GotoSlot, ReturnSlot
     DEF FullIndex, FullLookup, FullFastPath, FullParse, FullHashes, FullReconcile,
         FullEmbed, FullOrphans, FullCommit, CompensateProbe, CompensateDelete
<1>4. CASE IncrementalSync(p)
  BY <1>4, GotoSlot, ReturnSlot
     DEF IncrementalSync, SyncStart, SyncGiveUp, SyncLookup, SyncCount, SyncNoFiles,
         SyncTruncated, FileEvict, FileEmbed, SyncCommit, IndexFileRead, AfterFile
<1>5. CASE OrphanSweep(p)
  BY <1>5, GotoSlot, ReturnSlot, TakeSlot
     DEF OrphanSweep, SweepList, SweepClaim, DeleteOrphanRepoKeysForRepo,
         SweepPathlessWipe
<1>6. QED
  BY <1>1, <1>2, <1>3, <1>4, <1>5 DEF Step, Invalidates

\* No two full indexes or sweeps of a key overlap and the slot is held exactly
\* while one of them runs, across failures and restarts.
THEOREM SlotIsExclusive == Spec => []SlotExclusive
<1>1. TypeOK /\ SlotExclusive /\ [Next]_vars => SlotExclusive'
  <2> SUFFICES ASSUME TypeOK, SlotExclusive, [Next]_vars  PROVE SlotExclusive'
    OBVIOUS
  <2>1. ASSUME NEW s \in Syms, Edit(s)  PROVE SlotExclusive'
    BY <2>1 DEF Edit, SlotExclusive
  <2>2. CASE Commit
    BY <2>2 DEF Commit, SlotExclusive
  <2>3. CASE Restart
    BY <2>3, ProcsAssumption DEF Restart, SlotExclusive, SlotSteps, FullSteps, SweepSteps
  <2>4. ASSUME NEW p \in Procs, Step(p)  PROVE SlotExclusive'
    BY <2>4, StepSlot
  <2>5. CASE UNCHANGED vars
    BY <2>5 DEF vars, SlotExclusive
  <2>6. QED
    BY <2>1, <2>2, <2>3, <2>4, <2>5 DEF Next
<1>2. QED
  BY InitSlot, TypeCorrect, <1>1, PTL DEF Spec

-----------------------------------------------------------------------------
(* Keys that only full indexes and sweeps work on.                         *)

\* The read of a file by p leaves the program counter and the locals of q alone.
LEMMA ReadOthers ==
  ASSUME NEW p \in Procs, NEW q \in DOMAIN pc, q \in DOMAIN loc, q # p,
         NEW f \in Files, IndexFileRead(p, f)
  PROVE  pc'[q] = pc[q] /\ loc'[q] = loc[q]
BY DEF IndexFileRead, Goto

\* A step of p touches the program counter and the locals of p only.
LEMMA StepLocal ==
  ASSUME TypeOK, NEW p \in Procs, Step(p), NEW q \in Procs, q # p
  PROVE  pc'[q] = pc[q] /\ loc'[q] = loc[q]
<1> USE DEF TypeOK, Goto, Return, Fail
<1>1. CASE Invalidates(p) \/ ClaimIndexSlot(p)
  BY <1>1, InvalidateEffect DEF ClaimIndexSlot
<1>2. CASE FullIndex(p)
  BY <1>2
     DEF FullIndex, FullLookup, FullFastPath, FullParse, FullHashes, FullReconcile,
         FullEmbed, FullOrphans, FullCommit, CompensateProbe, CompensateDelete
<1>3. CASE IncrementalSync(p)
  <2>1. CASE SyncStart(p) \/ SyncGiveUp(p)
    BY <2>1 DEF SyncStart, SyncGiveUp
  <2>2. CASE SyncLookup(p) \/ SyncCount(p)
    BY <2>2 DEF SyncLookup, SyncCount
  <2>3. CASE SyncNoFiles(p) \/ SyncTruncated(p)
    BY <2>3 DEF SyncNoFiles, SyncTruncated
  <2>4. ASSUME NEW f \in Files, IndexFileRead(p, f)
        PROVE  pc'[q] = pc[q] /\ loc'[q] = loc[q]
    BY <2>4, ReadOthers
  <2>5. CASE FileEvict(p) \/ FileEmbed(p) \/ SyncCommit(p)
    BY <2>5 DEF FileEvict, FileEmbed, SyncCommit
  <2>6. QED
    BY <1>3, <2>1, <2>2, <2>3, <2>4, <2>5 DEF IncrementalSync
<1>4. CASE OrphanSweep(p)
  BY <1>4
     DEF OrphanSweep, SweepList, SweepClaim, DeleteOrphanRepoKeysForRepo,
         SweepPathlessWipe
<1>5. QED
  BY <1>1, <1>2, <1>3, <1>4 DEF Step, Invalidates

LEMMA NoSync == ASSUME AutoLoop = {}  PROVE Spec => []NoSyncRunning
<1>1. Init => NoSyncRunning
  BY AutoLoop = {} DEF Init, NoSyncRunning, SyncSteps
<1>2. TypeOK /\ NoSyncRunning /\ [Next]_vars => NoSyncRunning'
  <2> SUFFICES ASSUME TypeOK, NoSyncRunning, [Next]_vars  PROVE NoSyncRunning'
    OBVIOUS
  <2> USE DEF NoSyncRunning, SyncSteps
  <2>1. CASE (\E s \in Syms : Edit(s)) \/ Commit \/ Restart \/ UNCHANGED vars
    BY <2>1, AutoLoop = {} DEF Edit, Commit, Restart, vars
  <2>2. ASSUME NEW p \in Procs, Step(p)  PROVE NoSyncRunning'
    <3>1. pc'[p] \notin SyncSteps
      <4> USE DEF TypeOK, Goto, Return, Fail
      <4>1. CASE Invalidates(p) \/ ClaimIndexSlot(p)
        BY <4>1, AutoLoop = {}
           DEF ClaimIndexSlot, Invalidates, BootInvalidate, IndexRepoAsync,
               InvalidateWipe, InvalidateIfModelChanged, Invalidated
      <4>2. CASE FullIndex(p)
        BY <4>2, AutoLoop = {}
           DEF FullIndex, FullLookup, FullFastPath, FullParse, FullHashes,
               FullReconcile, FullEmbed, FullOrphans, FullCommit, CompensateProbe,
               CompensateDelete
      <4>3. CASE IncrementalSync(p)
        BY <4>3, AutoLoop = {}
           DEF IncrementalSync, SyncStart, SyncGiveUp, SyncLookup, SyncCount, SyncNoFiles,
               SyncTruncated, FileEvict, FileEmbed, SyncCommit, IndexFileRead
      <4>4. CASE OrphanSweep(p)
        BY <4>4
           DEF OrphanSweep, SweepList, SweepClaim, DeleteOrphanRepoKeysForRepo,
               SweepPathlessWipe
      <4>5. QED
        BY <2>2, <4>1, <4>2, <4>3, <4>4 DEF Step, Invalidates
    <3>2. QED
      BY <2>2, <3>1, StepLocal
  <2>3. QED
    BY <2>1, <2>2 DEF Next
<1>3. QED
  BY <1>1, <1>2, TypeCorrect, PTL DEF Spec

LEMMA NoSyncStep ==
  ASSUME NoSyncRunning, AutoLoop = {}, NEW p \in Procs  PROVE ~IncrementalSync(p)
BY AutoLoop = {}
   DEF NoSyncRunning, SyncSteps, IncrementalSync, SyncStart, SyncGiveUp, SyncLookup,
       SyncCount, SyncNoFiles, SyncTruncated, FileEvict, FileEmbed, SyncCommit,
       IndexFileRead

\* With the slot held by q, no other process is inside an index or a sweep.
LEMMA OneHolder ==
  ASSUME SlotExclusive, NEW p \in Procs, NEW q \in Procs, p # q, pc[q] \in SlotSteps
  PROVE  pc[p] \notin SlotSteps
BY DEF SlotExclusive

\* Without the slot a process can only invalidate the key.
LEMMA WithoutSlot ==
  ASSUME TypeOK, NEW p \in Procs, Step(p), ~IncrementalSync(p), pc[p] \notin SlotSteps
  PROVE  UNCHANGED db \/ Invalidates(p)
<1> USE DEF SlotSteps, FullSteps, SweepSteps
<1>1. CASE Invalidates(p) \/ ClaimIndexSlot(p)
  BY <1>1, InvalidateEffect DEF ClaimIndexSlot
<1>2. CASE FullIndex(p)
  BY <1>2
     DEF FullIndex, FullLookup, FullFastPath, FullParse, FullHashes, FullReconcile,
         FullEmbed, FullOrphans, FullCommit, CompensateProbe, CompensateDelete
<1>3. CASE OrphanSweep(p)
  BY <1>3
     DEF OrphanSweep, SweepList, SweepClaim, DeleteOrphanRepoKeysForRepo,
         SweepPathlessWipe
<1>4. QED
  BY <1>1, <1>2, <1>3 DEF Step, Invalidates

LEMMA SlotOrNot ==
  ASSUME TypeOK, SlotExclusive, NoSyncRunning, AutoLoop = {},
         NEW p \in Procs, Step(p), NEW q \in Procs, p # q, pc[q] \in FullSteps
  PROVE  UNCHANGED db \/ Invalidates(p)
BY OneHolder, WithoutSlot, NoSyncStep DEF SlotSteps

\* The step of another process leaves the promises of q's run alone.
LEMMA OthersFirst ==
  ASSUME TypeOK, SlotExclusive, NoSyncRunning, AutoLoop = {},
         NEW p \in Procs, Step(p), NEW q \in Procs, p # q, FirstIndex(q), EmbedsParsed(q)
  PROVE  FirstIndex(q)' /\ EmbedsParsed(q)'
<1>1. pc'[q] = pc[q] /\ loc'[q] = loc[q]
  BY StepLocal
<1>2. EmbedsParsed(q)'
  BY <1>1 DEF EmbedsParsed
<1>3. CASE pc[q] \notin FullSteps
  BY <1>1, <1>2, <1>3 DEF FirstIndex, FullSteps, AfterHashes
<1>4. CASE pc[q] \in FullSteps /\ ~loc[q].first
  BY <1>1, <1>2, <1>4 DEF FirstIndex
<1>5. CASE pc[q] \in FullSteps /\ loc[q].first
  <2>1. ~StateExists
    BY <1>5 DEF FirstIndex
  <2>2. CASE UNCHANGED db
    BY <1>1, <1>2, <2>2 DEF FirstIndex, db, StateExists
  <2>3. CASE WipeRepo
    BY <1>1, <1>2, <1>5, <2>3
       DEF FirstIndex, WipeRepo, NoState, NoRows, StateExists
  <2>4. QED
    BY <1>5, <2>1, <2>2, <2>3, SlotOrNot, InvalidateEffect DEF PurgeForeignRows
<1>6. QED
  BY <1>3, <1>4, <1>5

\* Nor does the loss of all runs, or their end.
LEMMA NoRunFirst ==
  ASSUME NEW p \in Procs, pc'[p] \notin FullSteps
  PROVE  FirstIndex(p)' /\ EmbedsParsed(p)'
BY DEF FirstIndex, EmbedsParsed, FullSteps, AfterHashes

LEMMA ReturnFirst ==
  ASSUME TypeOK, NEW p \in Procs, Return(p) \/ Fail(p)
  PROVE  FirstIndex(p)' /\ EmbedsParsed(p)'
BY NoRunFirst DEF TypeOK, Return, Fail, Goto, FullSteps

\* Rows are only written with a body that was parsed.
LEMMA WithoutBodies ==
  ASSUME RowsHaveBodies, NEW S, rows' = Without(rows, S)
  PROVE  RowsHaveBodies'
BY DEF RowsHaveBodies, Without

LEMMA StepBodies ==
  ASSUME TypeOK, RowsHaveBodies, NEW p \in Procs, Step(p), ~IncrementalSync(p),
         EmbedsParsed(p)
  PROVE  RowsHaveBodies'
<1>1. CASE UNCHANGED rows
  BY <1>1 DEF RowsHaveBodies
<1>2. CASE rows' = NoRows
  BY <1>2 DEF RowsHaveBodies, NoRows, NoRow
<1>3. CASE \E S : rows' = Without(rows, S)
  BY <1>3, WithoutBodies
<1>4. ASSUME NEW s \in loc[p].todo, pc[p] = "embed",
             rows' = Upserted(rows, {s}, loc[p].snap)
      PROVE  RowsHaveBodies'
  BY <1>4 DEF RowsHaveBodies, Upserted, EmbedsParsed, AfterHashes
<1>5. CASE FullIndex(p)
  <2>1. CASE FullEmbed(p)
    BY <2>1, <1>1, <1>4 DEF FullEmbed
  <2>2. CASE FullReconcile(p) \/ FullOrphans(p)
    BY <2>2, <1>1, <1>3 DEF FullReconcile, FullOrphans, db
  <2>3. CASE CompensateDelete(p)
    BY <2>3, <1>1, <1>2 DEF CompensateDelete
  <2>4. CASE \/ FullLookup(p) \/ FullFastPath(p) \/ FullParse(p) \/ FullHashes(p)
             \/ FullCommit(p) \/ CompensateProbe(p)
    BY <2>4, <1>1
       DEF FullLookup, FullFastPath, FullParse, FullHashes, FullCommit, CompensateProbe,
           db
  <2>5. QED
    BY <1>5, <2>1, <2>2, <2>3, <2>4 DEF FullIndex
<1>6. CASE Invalidates(p)
  BY <1>6, <1>1, <1>2, <1>3, InvalidateEffect DEF PurgeForeignRows, WipeRepo, db
<1>7. CASE OrphanSweep(p)
  BY <1>7, <1>1, <1>2
     DEF OrphanSweep, SweepList, SweepClaim, DeleteOrphanRepoKeysForRepo,
         SweepPathlessWipe, WipeRepo, db
<1>8. CASE Invalidates(p) \/ ClaimIndexSlot(p)
  BY <1>8, <1>1, <1>6 DEF ClaimIndexSlot, db
<1>9. QED
  BY <1>5, <1>7, <1>8 DEF Step, Invalidates

\* The promises of a run through its own steps.
LEMMA OwnFirst ==
  ASSUME TypeOK, RowsHaveBodies, NEW p \in Procs, Step(p), ~IncrementalSync(p),
         FirstIndex(p), EmbedsParsed(p)
  PROVE  FirstIndex(p)' /\ EmbedsParsed(p)'
<1>0. p \in DOMAIN pc /\ p \in DOMAIN loc /\ loc[p] \in Local
  BY DEF TypeOK
<1>1. CASE Invalidates(p) \/ OrphanSweep(p)
  BY <1>0, <1>1, NoRunFirst, ReturnFirst, InvalidateEffect
     DEF Goto, FullSteps,
         OrphanSweep, SweepList, SweepClaim, DeleteOrphanRepoKeysForRepo,
         SweepPathlessWipe
<1>2. CASE ClaimIndexSlot(p)
  BY <1>0, <1>2, ReturnFirst
     DEF ClaimIndexSlot, Goto, FirstIndex, EmbedsParsed, AfterHashes, Loc0, TypeOK
<1>3. CASE FullLookup(p)
  <2>1. pc'[p] \in {"fastpath", "parse"} /\ UNCHANGED db
    BY <1>0, <1>3 DEF FullLookup, Goto
  <2>2. loc'[p].first => ~StateExists
    <3>1. CASE loc' = [loc EXCEPT ![p].first = ~StateExists]
      BY <1>0, <3>1 DEF Local
    <3>2. CASE UNCHANGED loc
      BY <1>3, <3>2 DEF FullLookup, FirstIndex, FullSteps
    <3>3. QED
      BY <1>3, <3>1, <3>2 DEF FullLookup
  <2>3. pc'[p] \notin AfterHashes /\ pc'[p] \notin {"probe", "rollback"}
    BY <2>1 DEF AfterHashes
  <2>4. loc'[p].first => ~StateExists'
    BY <2>1, <2>2 DEF StateExists, db
  <2>5. QED
    BY <2>3, <2>4, Zenon DEF FirstIndex, EmbedsParsed
<1>4. CASE FullFastPath(p)
  BY <1>0, <1>4, ReturnFirst
     DEF FullFastPath, Goto, FirstIndex, EmbedsParsed, AfterHashes, FullSteps,
         StateExists, TypeOK
<1>5. CASE FullParse(p)
  <2>1. CASE Return(p) \/ Fail(p)
    BY <2>1, ReturnFirst
  <2>2. CASE Goto(p, "hashes") /\ \E U : loc' = [loc EXCEPT ![p].snap = Parsed(U)]
    <3>1. loc'[p].first = loc[p].first /\ pc'[p] = "hashes"
      BY <1>0, <2>2 DEF Local, Goto
    <3>2. pc'[p] \notin AfterHashes /\ pc'[p] \notin {"probe", "rollback"}
      BY <3>1 DEF AfterHashes
    <3>3. pc[p] \in FullSteps /\ (StateExists' <=> StateExists)
      BY <1>5 DEF FullParse, FullSteps, StateExists, db
    <3>4. QED
      BY <3>1, <3>2, <3>3, Zenon DEF FirstIndex, EmbedsParsed
  <2>3. QED
    BY <1>5, <2>1, <2>2, Zenon DEF FullParse
<1>6. CASE FullHashes(p)
  <2>1. CASE Return(p) \/ Fail(p)
    BY <2>1, ReturnFirst
  <2>2. CASE /\ Goto(p, "reconcile") /\ UNCHANGED db
             /\ loc' = [loc EXCEPT ![p].had = GetHashes,
                                   ![p].first = firstIndexVerdict(@, GetHashes),
                                   ![p].todo = filterSymbols(loc[p].snap, GetHashes)]
    <3>1. /\ pc'[p] = "reconcile"
          /\ loc'[p].had = GetHashes
          /\ loc'[p].first = firstIndexVerdict(loc[p].first, GetHashes)
          /\ loc'[p].todo = filterSymbols(loc[p].snap, GetHashes)
          /\ loc'[p].snap = loc[p].snap
      BY <1>0, <2>2 DEF Goto, TypeOK, Local
    <3>2. EmbedsParsed(p)'
      BY <3>1 DEF EmbedsParsed, filterSymbols
    <3>3. CASE ~loc'[p].first
      BY <3>1, <3>2, <3>3 DEF FirstIndex
    <3>4. CASE loc'[p].first
      <4>1. loc[p].first /\ GetHashes = Nothing
        BY <3>1, <3>4 DEF firstIndexVerdict
      <4>2. \A s \in Syms : rows[s] = NoRow /\ GetHashes[s] = 0
        BY <4>1 DEF GetHashes, Nothing, RowsHaveBodies
      <4>3. ~StateExists
        BY <1>6, <4>1 DEF FullHashes, FirstIndex, FullSteps
      <4>4. QED
        BY <2>2, <3>1, <3>2, <4>2, <4>3 DEF FirstIndex, StateExists, db
    <3>5. QED
      BY <3>3, <3>4
  <2>3. QED
    BY <1>6, <2>1, <2>2 DEF FullHashes
<1>7. CASE FullReconcile(p)
  <2>1. pc'[p] \in {"orphans", "embed"} /\ pc[p] = "reconcile" /\ UNCHANGED loc
    BY <1>0, <1>7 DEF FullReconcile, Goto
  <2>2. state'.sha = state.sha
    BY <1>7, WithPathState DEF FullReconcile
  <2>3. \A s \in Syms : rows'[s] \in {rows[s], NoRow}
    BY <1>7 DEF FullReconcile, Without
  <2>4. pc[p] \in FullSteps /\ pc[p] \in AfterHashes /\ loc'[p] = loc[p]
    BY <2>1 DEF FullSteps, AfterHashes
  <2>5. pc'[p] \notin {"probe", "rollback"}
    BY <2>1
  <2>6. StateExists' <=> StateExists
    BY <2>2 DEF StateExists
  <2>7. EmbedsParsed(p)'
    BY <2>4, Zenon DEF EmbedsParsed
  <2>8. loc[p].first => \A s \in Syms : loc'[p].had[s] = 0
          /\ (rows'[s] = NoRow \/ rows'[s].ver = loc'[p].snap[s])
    BY <2>3, <2>4 DEF FirstIndex
  <2>9. QED
    BY <2>4, <2>5, <2>6, <2>7, <2>8, Zenon DEF FirstIndex
<1>8. CASE FullEmbed(p)
  <2>1. CASE Return(p) \/ Fail(p)
    BY <2>1, ReturnFirst
  <2>2. ASSUME NEW s \in loc[p].todo,
               rows' = Upserted(rows, {s}, loc[p].snap), UNCHANGED state,
               loc' = [loc EXCEPT ![p].todo = @ \ {s}],
               pc'[p] \in {"orphans", "embed"}
        PROVE  FirstIndex(p)' /\ EmbedsParsed(p)'
    <3>1. /\ loc'[p].first = loc[p].first /\ loc'[p].had = loc[p].had
          /\ loc'[p].snap = loc[p].snap /\ loc'[p].todo = loc[p].todo \ {s}
      BY <1>0, <2>2 DEF Local
    <3>2. pc[p] \in FullSteps /\ pc[p] \in AfterHashes
      BY <1>8 DEF FullEmbed, FullSteps, AfterHashes
    <3>3. EmbedsParsed(p)'
      BY <3>1, <3>2 DEF EmbedsParsed
    <3>4. \A t \in Syms : rows'[t] = rows[t] \/ rows'[t].ver = loc[p].snap[t]
      BY <2>2 DEF Upserted
    <3>5. StateExists' <=> StateExists
      BY <2>2 DEF StateExists
    <3>6. loc[p].first => \A t \in Syms : loc'[p].had[t] = 0
            /\ (rows'[t] = NoRow \/ rows'[t].ver = loc'[p].snap[t])
      BY <3>1, <3>2, <3>4 DEF FirstIndex
    <3>7. pc'[p] \notin {"probe", "rollback"}
      BY <2>2
    <3>8. QED
      BY <3>1, <3>2, <3>3, <3>5, <3>6, <3>7, Zenon DEF FirstIndex
  <2>3. CASE loc[p].first /\ Goto(p, "probe") /\ UNCHANGED <<loc, rows, state>>
    BY <1>0, <1>8, <2>3
       DEF FullEmbed, Goto, FirstIndex, EmbedsParsed, AfterHashes, FullSteps,
           StateExists, TypeOK
  <2>4. QED
    BY <1>0, <1>8, <2>1, <2>2, <2>3 DEF FullEmbed, Goto
<1>9. CASE FullOrphans(p)
  BY <1>0, <1>9
     DEF FullOrphans, Goto, FirstIndex, EmbedsParsed, AfterHashes, FullSteps,
         StateExists, Without, TypeOK
<1>10. CASE FullCommit(p)
  BY <1>0, <1>10, ReturnFirst
     DEF FullCommit, Goto, FirstIndex, EmbedsParsed, AfterHashes, FullSteps,
         StateExists, TypeOK
<1>11. CASE CompensateProbe(p) \/ CompensateDelete(p)
  BY <1>0, <1>11, ReturnFirst
     DEF CompensateProbe, CompensateDelete, Goto, FirstIndex, EmbedsParsed, AfterHashes,
         FullSteps, StateExists, db, TypeOK
<1>12. QED
  BY <1>1, <1>2, <1>3, <1>4, <1>5, <1>6, <1>7, <1>8, <1>9, <1>10, <1>11
     DEF Step, FullIndex, Invalidates

LEMMA InitFirst == Init => FirstIndexInv
<1> SUFFICES ASSUME Init  PROVE FirstIndexInv
  OBVIOUS
<1>1. RowsHaveBodies
  BY BoundsAssumption DEF Init, RowsHaveBodies, NoRows, NoRow, Upserted, Live
<1>2. QED
  BY <1>1 DEF Init, FirstIndexInv, FirstIndex, EmbedsParsed, FullSteps, AfterHashes

\* Steps of no process: the repository moves, the server restarts.
Environment == (\E s \in Syms : Edit(s)) \/ Commit \/ Restart \/ UNCHANGED vars

LEMMA EnvironmentFirst ==
  ASSUME TypeOK, FirstIndexInv, Environment
  PROVE  FirstIndexInv'
<1>1. CASE (\E s \in Syms : Edit(s)) \/ Commit \/ UNCHANGED vars
  BY <1>1
     DEF Edit, Commit, vars, FirstIndexInv, RowsHaveBodies, FirstIndex, EmbedsParsed,
         StateExists
<1>2. CASE Restart
  BY <1>2, NoRunFirst DEF Restart, FirstIndexInv, RowsHaveBodies, FullSteps
<1>3. QED
  BY <1>1, <1>2 DEF Environment

LEMMA FirstInvariant == ASSUME AutoLoop = {}  PROVE Spec => []FirstIndexInv
<1>1. TypeOK /\ SlotExclusive /\ NoSyncRunning /\ FirstIndexInv /\ [Next]_vars
      => FirstIndexInv'
  <2> SUFFICES ASSUME TypeOK, SlotExclusive, NoSyncRunning, FirstIndexInv, [Next]_vars
               PROVE  FirstIndexInv'
    OBVIOUS
  <2>1. ASSUME NEW p \in Procs, Step(p)  PROVE FirstIndexInv'
    <3>1. RowsHaveBodies'
      BY <2>1, StepBodies, NoSyncStep DEF FirstIndexInv
    <3>2. ASSUME NEW q \in Procs  PROVE FirstIndex(q)' /\ EmbedsParsed(q)'
      BY <2>1, OwnFirst, OthersFirst, NoSyncStep DEF FirstIndexInv
    <3>3. QED
      BY <3>1, <3>2 DEF FirstIndexInv
  <2>2. QED
    BY <2>1, EnvironmentFirst DEF Next, Environment
<1>2. QED
  BY <1>1, InitFirst, TypeCorrect, SlotIsExclusive, NoSync, PTL DEF Spec

\* A run about to delete the rows of its key (compensateFirstIndexOrphan) wrote
\* every one of them, if no incremental sync works on the key meanwhile.
THEOREM CompensationIsOwn == ASSUME AutoLoop = {}  PROVE Spec => []CompensatesOwnRows
<1>1. FirstIndexInv => CompensatesOwnRows
  BY DEF FirstIndexInv, FirstIndex, CompensatesOwnRows, FullSteps, AfterHashes, Procs,
         Indexers
<1>2. QED
  BY <1>1, FirstInvariant, PTL

-----------------------------------------------------------------------------
(* What the recorded commit promises.                                      *)

LEMMA StepKeepsRepo ==
  ASSUME NEW p \in Procs, Step(p)
  PROVE  UNCHANGED <<tree, hist, model>>
<1> USE DEF repo
<1>1. CASE Invalidates(p) \/ ClaimIndexSlot(p)
  BY <1>1, InvalidateEffect DEF ClaimIndexSlot
<1>2. CASE FullIndex(p)
  BY <1>2
     DEF FullIndex, FullLookup, FullFastPath, FullParse, FullHashes, FullReconcile,
         FullEmbed, FullOrphans, FullCommit, CompensateProbe, CompensateDelete
<1>3. CASE IncrementalSync(p)
  BY <1>3
     DEF IncrementalSync, SyncStart, SyncGiveUp, SyncLookup, SyncCount, SyncNoFiles,
         SyncTruncated, FileEvict, FileEmbed, SyncCommit, IndexFileRead
<1>4. CASE OrphanSweep(p)
  BY <1>4
     DEF OrphanSweep, SweepList, SweepClaim, DeleteOrphanRepoKeysForRepo,
         SweepPathlessWipe
<1>5. QED
  BY <1>1, <1>2, <1>3, <1>4 DEF Step, Invalidates

LEMMA VersionsOnlyGrow == Spec => []VersionsGrow
<1>1. Init => VersionsGrow
  BY DEF Init, VersionsGrow
<1>2. TypeOK /\ VersionsGrow /\ [Next]_vars => VersionsGrow'
  <2> SUFFICES ASSUME TypeOK, VersionsGrow, [Next]_vars  PROVE VersionsGrow'
    OBVIOUS
  <2>1. ASSUME NEW s \in Syms, Edit(s)  PROVE VersionsGrow'
    <3>1. \A i \in 1 .. Len(hist) : \A t \in Syms : hist[i][t] \in Nat
      BY DEF TypeOK, Tree, Vers
    <3>2. \A t \in Syms : tree[t] \in Nat /\ tree'[t] \in Nat /\ tree[t] <= tree'[t]
      BY <2>1 DEF TypeOK, Edit, Tree, Vers
    <3>3. hist' = hist
      BY <2>1 DEF Edit
    <3>4. \A i \in 1 .. Len(hist) : \A t \in Syms : hist[i][t] <= tree'[t]
      <4> SUFFICES ASSUME NEW i \in 1 .. Len(hist), NEW t \in Syms
                   PROVE  hist[i][t] <= tree'[t]
        OBVIOUS
      <4>1. hist[i][t] <= tree[t]
        BY DEF VersionsGrow
      <4>2. QED
        BY <3>1, <3>2, <4>1
    <3>5. QED
      BY <3>3, <3>4 DEF VersionsGrow
  <2>2. CASE Commit
    <3>1. /\ Len(hist') = Len(hist) + 1 /\ Len(hist) \in Nat
          /\ hist'[Len(hist) + 1] = tree
          /\ \A i \in 1 .. Len(hist) : hist'[i] = hist[i]
      BY <2>2 DEF TypeOK, Commit
    <3>2. \A s \in Syms : tree[s] \in Nat
      BY DEF TypeOK, Tree, Vers
    <3>3. QED
      BY <2>2, <3>1, <3>2 DEF VersionsGrow, Commit
  <2>3. CASE Restart \/ UNCHANGED vars
    BY <2>3 DEF Restart, vars, VersionsGrow
  <2>4. ASSUME NEW p \in Procs, Step(p)  PROVE VersionsGrow'
    BY <2>4, StepKeepsRepo DEF VersionsGrow
  <2>5. QED
    BY <2>1, <2>2, <2>3, <2>4 DEF Next
<1>3. QED
  BY <1>1, <1>2, TypeCorrect, PTL DEF Spec

\* With one configured model an invalidation finds nothing to do.
LEMMA NothingForeign ==
  ASSUME TypeOK, OneModel, NEW p \in Procs, Invalidates(p)
  PROVE  UNCHANGED db /\ pc'[p] # "wipe"
<1>1. ASSUME PurgeForeignRows  PROVE UNCHANGED db
  <2>1. rows' = Without(rows, {s \in Syms : rows[s].model # model})
    BY <1>1 DEF PurgeForeignRows
  <2>2. \A s \in Syms : rows[s].model # model => rows[s] = NoRow
    BY DEF OneModel
  <2>3. rows' = [s \in Syms |-> rows[s]]
    BY <2>1, <2>2 DEF Without
  <2>4. QED
    BY <1>1, <2>3 DEF TypeOK, PurgeForeignRows, db
<1>2. pc[p] # "wipe" /\ (StateExists => state.model = model)
  BY DEF OneModel
<1>3. CASE InvalidateIfModelChanged(p)
  BY <1>1, <1>2, <1>3 DEF InvalidateIfModelChanged, Invalidated, Goto, TypeOK
<1>4. QED
  BY <1>2, <1>3 DEF Invalidates, BootInvalidate, IndexRepoAsync, InvalidateWipe

LEMMA ModelStays == ASSUME NEW m, Models = {m}  PROVE Spec => []OneModel
<1>1. Init => OneModel
  BY DEF Init, OneModel, NoRows, NoState, StateExists, Upserted
<1>2. TypeOK /\ OneModel /\ [Next]_vars => OneModel'
  <2> SUFFICES ASSUME TypeOK, OneModel, [Next]_vars  PROVE OneModel'
    OBVIOUS
  <2>1. CASE (\E s \in Syms : Edit(s)) \/ Commit \/ UNCHANGED vars
    BY <2>1 DEF Edit, Commit, vars, OneModel, StateExists
  <2>2. CASE Restart
    <3>1. model' = model
      BY <2>2 DEF Restart, TypeOK
    <3>2. QED
      BY <2>2, <3>1 DEF Restart, OneModel, StateExists
  <2>3. ASSUME NEW p \in Procs, Step(p)  PROVE OneModel'
    <3>0. \A q \in Procs : pc'[q] # "wipe"
      <4>1. pc'[p] # "wipe"
        <5> USE DEF TypeOK, Goto, Return, Fail, OneModel
        <5>1. CASE Invalidates(p) \/ ClaimIndexSlot(p)
          BY <5>1, NothingForeign DEF ClaimIndexSlot
        <5>2. CASE FullIndex(p)
          BY <5>2
             DEF FullIndex, FullLookup, FullFastPath, FullParse, FullHashes,
                 FullReconcile, FullEmbed, FullOrphans, FullCommit, CompensateProbe,
                 CompensateDelete
        <5>3. CASE IncrementalSync(p)
          BY <5>3
             DEF IncrementalSync, SyncStart, SyncGiveUp, SyncLookup, SyncCount, SyncNoFiles,
                 SyncTruncated, FileEvict, FileEmbed, SyncCommit, IndexFileRead,
                 AfterFile
        <5>4. CASE OrphanSweep(p)
          BY <5>4
             DEF OrphanSweep, SweepList, SweepClaim, DeleteOrphanRepoKeysForRepo,
                 SweepPathlessWipe
        <5>5. QED
          BY <2>3, <5>1, <5>2, <5>3, <5>4 DEF Step, Invalidates
      <4>2. QED
        BY <2>3, <4>1, StepLocal DEF OneModel
    <3>1. model' = model
      BY <2>3, StepKeepsRepo
    <3>2. CASE UNCHANGED db
      BY <3>0, <3>1, <3>2 DEF OneModel, db, StateExists
    <3>3. ASSUME rows' = rows \/ (\E S : rows' = Without(rows, S))
                   \/ (\E S, snap : rows' = Upserted(rows, S, snap)) \/ rows' = NoRows,
                 \/ state'.model = model
                 \/ state'.sha = state.sha /\ state'.model = state.model
                 \/ state' = NoState
          PROVE  OneModel'
      BY <3>0, <3>1, <3>3 DEF OneModel, StateExists, NoState, NoRows, Without, Upserted
    <3>4. ASSUME RefreshState(p)
          PROVE  \/ state'.model = model
                 \/ state'.sha = state.sha /\ state'.model = state.model
      BY <3>4, WithPathState DEF RefreshState, RecordedState
    <3>5. CASE Invalidates(p)
      BY <3>2, <3>5, NothingForeign
    <3>6. CASE FullIndex(p)
      <4>1. CASE FullFastPath(p)
        BY <4>1, <3>3, <3>4 DEF FullFastPath
      <4>2. CASE FullReconcile(p)
        BY <4>2, <3>3, WithPathState DEF FullReconcile
      <4>3. CASE FullEmbed(p) \/ FullOrphans(p) \/ CompensateDelete(p)
        BY <4>3, <3>3 DEF FullEmbed, FullOrphans, CompensateDelete
      <4>4. CASE FullCommit(p)
        BY <4>4, <3>3 DEF FullCommit, RecordedState
      <4>5. QED
        BY <3>6, <3>2, <4>1, <4>2, <4>3, <4>4
           DEF FullIndex, FullLookup, FullParse, FullHashes, CompensateProbe
    <3>7. CASE IncrementalSync(p)
      <4>1. CASE SyncCount(p)
        BY <4>1, <3>3, <3>4 DEF SyncCount
      <4>2. CASE FileEvict(p) \/ FileEmbed(p)
        BY <4>2, <3>3 DEF FileEvict, FileEmbed
      <4>3. CASE SyncCommit(p)
        BY <4>3, <3>3 DEF SyncCommit, RecordedState
      <4>4. QED
        BY <3>7, <3>2, <4>1, <4>2, <4>3
           DEF IncrementalSync, SyncStart, SyncGiveUp, SyncLookup, SyncNoFiles, SyncTruncated,
               IndexFileRead
    <3>8. CASE OrphanSweep(p)
      BY <3>8, <3>2, <3>3
         DEF OrphanSweep, SweepList, SweepClaim, DeleteOrphanRepoKeysForRepo,
             SweepPathlessWipe, WipeRepo
    <3>9. QED
      BY <2>3, <3>2, <3>5, <3>6, <3>7, <3>8 DEF Step, Invalidates, ClaimIndexSlot
  <2>4. QED
    BY <2>1, <2>2, <2>3 DEF Next
<1>3. QED
  BY <1>1, <1>2, TypeCorrect, PTL DEF Spec

\* Commits a run or the state row names, and what is known of their versions.
LEMMA CommitVersions ==
  ASSUME TypeOK, VersionsGrow, NEW n \in 1 .. Len(hist), NEW s \in Syms
  PROVE  /\ hist[n][s] \in Nat /\ tree[s] \in Nat /\ hist[n][s] <= tree[s]
         /\ ~Live(tree[s]) => AbsentSince(n, s)
         /\ \A m \in 1 .. n : hist[m][s] \in Nat /\ hist[m][s] <= hist[n][s]
<1>1. \A i \in 1 .. Len(hist) : hist[i][s] \in Nat
  BY DEF TypeOK, Tree, Vers
<1>2. tree[s] \in Nat /\ hist[n][s] <= tree[s]
  BY DEF TypeOK, Tree, Vers, VersionsGrow
<1>3. ~Live(tree[s]) => AbsentSince(n, s)
  BY <1>1, <1>2 DEF AbsentSince
<1>4. \A m \in 1 .. n : m \in 1 .. Len(hist)
  BY DEF TypeOK
<1>5. \A m \in 1 .. n : hist[m][s] <= hist[n][s]
  BY <1>4 DEF VersionsGrow
<1>6. QED
  BY <1>1, <1>2, <1>3, <1>4, <1>5

\* Absence and what is indexed since a commit, seen from an earlier one.
LEMMA SinceEarlier ==
  ASSUME TypeOK, VersionsGrow, NEW n \in 1 .. Len(hist), NEW m \in 1 .. n, NEW s \in Syms
  PROVE  /\ AbsentSince(n, s) => AbsentSince(m, s)
         /\ IndexedSince(n, s) => IndexedSince(m, s)
<1>1. hist[m][s] <= hist[n][s] /\ hist[m][s] \in Nat /\ hist[n][s] \in Nat
      /\ tree[s] \in Nat
  BY CommitVersions
<1>2. AbsentSince(n, s) => AbsentSince(m, s)
  BY <1>1 DEF AbsentSince
<1>3. rows[s].ver \in Nat
  BY DEF TypeOK, Row, Vers
<1>4. QED
  BY <1>1, <1>2, <1>3 DEF IndexedSince

LEMMA CoveredSince ==
  ASSUME StateExists
  PROVE  RecordedCommitCovered
           <=> \A s \in Syms : AbsentSince(state.sha, s) \/ IndexedSince(state.sha, s)
BY DEF RecordedCommitCovered, Covered, AbsentSince, IndexedSince

\* The repository moves on: versions grow, commits are appended.
LEMMA RepoMovesOn ==
  ASSUME TypeOK, (\E s \in Syms : Edit(s)) \/ Commit
  PROVE  /\ UNCHANGED <<rows, state, pc, loc>> /\ Len(hist) <= Len(hist')
         /\ \A n \in 1 .. Len(hist) : hist'[n] = hist[n]
         /\ \A n \in 1 .. Len(hist) : \A s \in Syms :
              /\ AbsentSince(n, s) => AbsentSince(n, s)'
              /\ IndexedSince(n, s) => IndexedSince(n, s)'
<1>1. /\ UNCHANGED <<rows, state, pc, loc>> /\ Len(hist) <= Len(hist')
      /\ \A n \in 1 .. Len(hist) : hist'[n] = hist[n]
  BY DEF Edit, Commit, TypeOK
<1>2. \A s \in Syms : tree[s] \in Nat /\ tree'[s] \in Nat /\ tree[s] <= tree'[s]
  BY DEF Edit, Commit, TypeOK, Tree, Vers
<1>3. \A n \in 1 .. Len(hist) : \A s \in Syms : hist[n][s] \in Nat
  BY DEF TypeOK, Tree, Vers
<1>4. ASSUME NEW n \in 1 .. Len(hist), NEW s \in Syms
      PROVE  /\ AbsentSince(n, s) => AbsentSince(n, s)'
             /\ IndexedSince(n, s) => IndexedSince(n, s)'
  BY <1>1, <1>2, <1>3 DEF AbsentSince, IndexedSince, Live
<1>5. QED
  BY <1>1, <1>4

LEMMA RepoRun ==
  ASSUME TypeOK, NEW p \in Procs, pc[p] \in FullSteps, Run(p),
         (\E s \in Syms : Edit(s)) \/ Commit
  PROVE  Run(p)'
<1> DEFINE n == loc[p].cur
<1>1. /\ loc'[p] = loc[p] /\ pc'[p] = pc[p] /\ UNCHANGED <<rows, state>>
      /\ Len(hist) <= Len(hist')
  BY RepoMovesOn
<1>2. n \in Nat /\ Len(hist) \in Nat /\ Len(hist') \in Nat
  BY DEF TypeOK, Local, Edit, Commit
<1>3. n <= Len(hist) /\ state.sha <= n
  BY DEF Run
<1>4. n # 0 => /\ n \in 1 .. Len(hist) /\ hist'[n] = hist[n]
               /\ \A s \in Syms : /\ AbsentSince(n, s) => AbsentSince(n, s)'
                                  /\ IndexedSince(n, s) => IndexedSince(n, s)'
  BY <1>2, <1>3, RepoMovesOn
<1>5. n # 0 /\ pc[p] \in AfterHashes \cup {"hashes"} => \A s \in Syms :
        IF loc[p].snap[s] = 0 THEN AbsentSince(n, s)' ELSE loc[p].snap[s] >= hist'[n][s]
  BY <1>4 DEF Run
<1>6. n # 0 /\ pc[p] \in {"reconcile", "embed", "orphans", "commit"} =>
        \A s \in Syms : AbsentSince(n, s)' \/ IndexedSince(n, s)' \/ s \in loc[p].todo
  BY <1>4 DEF Run
<1>7. /\ pc[p] = "fastpath" => n # 0 /\ state.sha = n
      /\ pc[p] \in {"orphans", "commit"} => loc[p].todo = {}
  BY DEF Run
<1>8. n <= Len(hist')
  BY <1>1, <1>2, <1>3
<1>9. QED
  BY <1>1, <1>3, <1>5, <1>6, <1>7, <1>8 DEF Run, AbsentSince, IndexedSince

LEMMA OthersRun ==
  ASSUME TypeOK, SlotExclusive, NoSyncRunning, AutoLoop = {}, OneModel,
         NEW p \in Procs, Step(p), NEW q \in Procs, p # q, pc[q] \in FullSteps, Run(q)
  PROVE  Run(q)'
<1>1. pc'[q] = pc[q] /\ loc'[q] = loc[q]
  BY StepLocal
<1>2. UNCHANGED db
  BY SlotOrNot, NothingForeign
<1>3. UNCHANGED <<tree, hist>>
  BY StepKeepsRepo
<1>4. QED
  BY <1>1, <1>2, <1>3 DEF Run, AbsentSince, IndexedSince, db

\* A run through its own steps.  Every file is read (MaxUnread = 0).
LEMMA OwnRun ==
  ASSUME TypeOK, MaxUnread = 0, RowsHaveBodies, VersionsGrow, state.sha <= Len(hist),
         NEW p \in Procs, Step(p), ~IncrementalSync(p), EmbedsParsed(p), pc[p] \in FullSteps => Run(p), pc'[p] \in FullSteps
  PROVE  Run(p)'
<1> DEFINE n == loc[p].cur
           parsed(l) == \A s \in Syms : IF l.snap[s] = 0 THEN AbsentSince(l.cur, s)
                                       ELSE l.snap[s] >= hist[l.cur][s]
           done(l) == \A s \in Syms :
                        AbsentSince(l.cur, s) \/ IndexedSince(l.cur, s) \/ s \in l.todo
<1>0. p \in DOMAIN pc /\ p \in DOMAIN loc /\ loc[p] \in Local /\ UNCHANGED <<tree, hist>>
  BY StepKeepsRepo DEF TypeOK
<1>1. Len(hist) \in Nat /\ n \in Nat /\ state.sha \in Nat
  BY DEF TypeOK, Local, State
<1>2. ASSUME Return(p) \/ Fail(p)  PROVE FALSE
  BY <1>0, <1>2 DEF Return, Fail, Goto, FullSteps
<1>3. CASE Invalidates(p) \/ OrphanSweep(p)
  BY <1>0, <1>2, <1>3, InvalidateEffect
     DEF Goto, FullSteps, OrphanSweep, SweepList,
         SweepClaim, DeleteOrphanRepoKeysForRepo, SweepPathlessWipe
<1>4. CASE ClaimIndexSlot(p)
  <2>1. pc'[p] = "lookup" /\ loc'[p].cur = Len(hist) /\ state' = state
    BY <1>0, <1>2, <1>4 DEF ClaimIndexSlot, Goto, Loc0, repoMainBranchSHA, db
  <2>2. QED
    BY <1>0, <1>1, <2>1 DEF Run, AfterHashes
<1>5. CASE FullIndex(p)
  <2>1. pc[p] \in FullSteps /\ Run(p)
    BY <1>5
       DEF FullIndex, FullLookup, FullFastPath, FullParse, FullHashes, FullReconcile,
           FullEmbed, FullOrphans, FullCommit, CompensateProbe, CompensateDelete,
           FullSteps
  <2>2. n # 0 => n \in 1 .. Len(hist)
    BY <1>1, <2>1 DEF Run
  <2>3. state.sha <= n /\ n <= Len(hist)
    BY <2>1 DEF Run
  <2>4. CASE FullLookup(p)
    <3>1. /\ pc'[p] \in {"fastpath", "parse"} /\ UNCHANGED state
          /\ pc'[p] = "fastpath" => n # 0 /\ state.sha = n
      BY <1>0, <2>4 DEF FullLookup, Goto, db
    <3>2. loc'[p].cur = n
      BY <1>0, <2>4 DEF FullLookup, Local
    <3>3. QED
      BY <1>0, <2>3, <3>1, <3>2 DEF Run, AfterHashes
  <2>5. CASE FullFastPath(p)
    <3>1. pc'[p] = "parse" /\ UNCHANGED <<state, loc>>
      BY <1>0, <1>2, <2>5 DEF FullFastPath, Goto
    <3>2. QED
      BY <1>0, <2>3, <3>1 DEF Run, AfterHashes
  <2>6. CASE FullParse(p)
    <3>1. PICK U : WalksWithout(U) /\ loc' = [loc EXCEPT ![p].snap = Parsed(U)]
      BY <1>2, <2>6, Zenon DEF FullParse
    <3>2. U = {}
      BY <3>1, MaxUnread = 0 DEF WalksWithout, TypeOK
    <3>3. pc'[p] = "hashes" /\ UNCHANGED state
      BY <1>0, <1>2, <2>6 DEF FullParse, Goto, db
    <3>4. loc'[p].cur = n /\ loc'[p].snap = Parsed({})
      BY <1>0, <3>1, <3>2 DEF Local
    <3>5. n # 0 => \A s \in Syms :
            IF Parsed({})[s] = 0 THEN AbsentSince(n, s) ELSE Parsed({})[s] >= hist[n][s]
      <4>1. \A s \in Syms : Parsed({})[s] = IF Live(tree[s]) THEN tree[s] ELSE 0
        BY DEF Parsed
      <4>2. \A s \in Syms : Live(tree[s]) => tree[s] # 0
        BY BoundsAssumption DEF Live
      <4>3. QED
        BY <2>2, <4>1, <4>2, CommitVersions
    <3>6. QED
      BY <1>0, <2>3, <3>3, <3>4, <3>5 DEF Run, AfterHashes, AbsentSince
  <2>7. CASE FullHashes(p)
    <3>1. /\ pc'[p] = "reconcile" /\ UNCHANGED db /\ loc'[p].cur = n
          /\ loc'[p].snap = loc[p].snap
          /\ loc'[p].todo = filterSymbols(loc[p].snap, GetHashes)
      <4>1. /\ Goto(p, "reconcile") /\ UNCHANGED db
            /\ loc' = [loc EXCEPT ![p].had = GetHashes,
                                  ![p].first = firstIndexVerdict(@, GetHashes),
                                  ![p].todo = filterSymbols(loc[p].snap, GetHashes)]
        BY <1>2, <2>7, Zenon DEF FullHashes
      <4>2. QED
        BY <1>0, <4>1 DEF Goto, Local
    <3>2. n # 0 => parsed(loc[p])
      BY <2>1, <2>7 DEF Run, FullHashes
    <3>3. \A s \in Syms : loc[p].snap[s] # 0 /\ s \notin loc'[p].todo =>
            rows[s].ver = loc[p].snap[s] /\ rows[s] # NoRow
      BY <3>1 DEF filterSymbols, GetHashes, NoRow
    <3>4. n # 0 => \A s \in Syms :
            AbsentSince(n, s) \/ IndexedSince(n, s) \/ s \in loc'[p].todo
      BY <3>2, <3>3 DEF IndexedSince
    <3>5. QED
      BY <1>0, <2>3, <3>1, <3>2, <3>4 DEF Run, AfterHashes, AbsentSince, IndexedSince, db
  <2>8. CASE FullReconcile(p)
    <3>1. /\ pc'[p] \in {"orphans", "embed"} /\ UNCHANGED loc
          /\ pc'[p] = "orphans" => loc[p].todo = {}
      BY <1>0, <2>8 DEF FullReconcile, Goto
    <3>2. state'.sha = state.sha
      BY <2>8, WithPathState DEF FullReconcile
    <3>3. \A s \in Syms : rows'[s] = rows[s] \/ ~Live(tree[s])
      BY <2>8 DEF FullReconcile, Without, FileExists
    <3>4. n # 0 => parsed(loc[p]) /\ done(loc[p])
      BY <2>1, <2>8 DEF Run, FullReconcile, AfterHashes
    <3>5. n # 0 => \A s \in Syms :
            AbsentSince(n, s) \/ IndexedSince(n, s)' \/ s \in loc[p].todo
      BY <1>0, <2>2, <3>1, <3>3, <3>4, CommitVersions DEF IndexedSince
    <3>6. QED
      BY <1>0, <2>3, <3>1, <3>2, <3>4, <3>5 DEF Run, AfterHashes, AbsentSince, IndexedSince
  <2>9. CASE FullEmbed(p)
    <3>1. n # 0 => parsed(loc[p]) /\ done(loc[p])
      BY <2>1, <2>9 DEF Run, FullEmbed, AfterHashes
    <3>2. UNCHANGED state
      BY <2>9 DEF FullEmbed
    <3>3. CASE pc'[p] = "probe" /\ UNCHANGED loc
      BY <1>0, <2>3, <3>1, <3>2, <3>3 DEF Run, AfterHashes, AbsentSince
    <3>4. ASSUME NEW s \in loc[p].todo, rows' = Upserted(rows, {s}, loc[p].snap),
                 loc' = [loc EXCEPT ![p].todo = @ \ {s}],
                 Goto(p, IF loc[p].todo = {s} THEN "orphans" ELSE "embed")
          PROVE  Run(p)'
      <4>1. /\ pc'[p] \in {"orphans", "embed"} /\ loc'[p].cur = n
            /\ loc'[p].snap = loc[p].snap /\ loc'[p].todo = loc[p].todo \ {s}
            /\ pc'[p] = "orphans" => loc'[p].todo = {}
        BY <1>0, <3>4 DEF Local, Goto
      <4>2. s \in Syms /\ loc[p].snap[s] # 0
        BY <1>0, <2>9 DEF EmbedsParsed, FullEmbed, AfterHashes, Local
      <4>3. rows'[s].ver = loc[p].snap[s] /\ rows'[s] # NoRow
            /\ \A t \in Syms : t # s => rows'[t] = rows[t]
        BY <3>4, <4>2 DEF Upserted, NoRow
      <4>4. n # 0 => \A t \in Syms :
              AbsentSince(n, t) \/ IndexedSince(n, t)' \/ t \in loc'[p].todo
        BY <1>0, <3>1, <4>1, <4>2, <4>3 DEF IndexedSince
      <4>5. QED
        BY <1>0, <2>3, <3>1, <3>2, <4>1, <4>4
           DEF Run, AfterHashes, AbsentSince, IndexedSince
    <3>5. QED
      BY <1>0, <1>2, <2>9, <3>3, <3>4 DEF FullEmbed, Goto
  <2>10. CASE FullOrphans(p)
    <3>1. n # 0 => parsed(loc[p]) /\ done(loc[p])
      BY <2>1, <2>10 DEF Run, FullOrphans, AfterHashes
    <3>2. pc'[p] = "commit" /\ UNCHANGED <<state, loc>> /\ loc[p].todo = {}
      BY <1>0, <2>1, <2>10 DEF FullOrphans, Goto, Run
    <3>3. \A s \in Syms : rows'[s] = rows[s] \/ loc[p].snap[s] = 0
      BY <2>10 DEF FullOrphans, Without, Existing, Seen
    <3>4. n # 0 => \A s \in Syms : AbsentSince(n, s) \/ IndexedSince(n, s)'
      BY <1>0, <3>1, <3>2, <3>3 DEF IndexedSince
    <3>5. QED
      BY <1>0, <2>3, <3>1, <3>2, <3>4 DEF Run, AfterHashes, AbsentSince, IndexedSince
  <2>11. CASE FullCommit(p) \/ CompensateProbe(p) \/ CompensateDelete(p)
    <3>1. /\ pc'[p] \in {"probe", "rollback"} /\ pc[p] \in AfterHashes
          /\ UNCHANGED <<state, loc>>
      BY <1>0, <1>2, <2>11
         DEF FullCommit, CompensateProbe, CompensateDelete, Goto, db, AfterHashes
    <3>2. n # 0 => parsed(loc[p])
      BY <2>1, <3>1 DEF Run
    <3>3. QED
      BY <1>0, <2>3, <3>1, <3>2 DEF Run, AfterHashes, AbsentSince
  <2>12. QED
    BY <1>5, <2>4, <2>5, <2>6, <2>7, <2>8, <2>9, <2>10, <2>11 DEF FullIndex
<1>6. QED
  BY <1>3, <1>4, <1>5 DEF Step, Invalidates

\* The index changes in a step: the steps that keep what the commit promises.
LEMMA StepCovers ==
  ASSUME TypeOK, VersionsGrow, OneModel, CoverInv, NEW p \in Procs, Step(p),
         ~IncrementalSync(p), FirstIndex(p), EmbedsParsed(p), pc[p] \in FullSteps => Run(p)
  PROVE  CoverInv'
<1> DEFINE n == loc[p].cur
<1>0. UNCHANGED <<tree, hist>>
  BY StepKeepsRepo
<1>1. Len(hist) \in Nat /\ n \in Nat /\ state.sha \in Nat
  BY DEF TypeOK, Local, State
<1>2. ASSUME ~StateExists'  PROVE CoverInv'
  BY <1>0, <1>1, <1>2 DEF CoverInv, RecordedCommitCovered, StateExists
<1>3. ASSUME state'.sha = state.sha,
             \A s \in Syms : rows'[s] = rows[s] \/ AbsentSince(state.sha, s)
                             \/ IndexedSince(state.sha, s)'
      PROVE  CoverInv'
  BY <1>0, <1>3
     DEF CoverInv, RecordedCommitCovered, Covered, AbsentSince, IndexedSince, StateExists
<1>4. CASE UNCHANGED <<rows, state>>
  BY <1>3, <1>4
<1>5. CASE Invalidates(p) \/ ClaimIndexSlot(p)
  BY <1>4, <1>5, NothingForeign DEF ClaimIndexSlot, db
<1>6. CASE OrphanSweep(p)
  <2>1. CASE DeleteOrphanRepoKeysForRepo(p)
    BY <2>1, <1>2, <1>4 DEF DeleteOrphanRepoKeysForRepo, OrphanPredicate, StateExists
  <2>2. CASE SweepPathlessWipe(p)
    BY <2>2, <1>2, <1>4 DEF SweepPathlessWipe, WipeRepo, NoState, StateExists, db
  <2>3. QED
    BY <1>6, <2>1, <2>2, <1>4 DEF OrphanSweep, SweepList, SweepClaim, db
<1>7. CASE FullIndex(p)
  <2>1. pc[p] \in FullSteps /\ Run(p)
    BY <1>7
       DEF FullIndex, FullLookup, FullFastPath, FullParse, FullHashes, FullReconcile,
           FullEmbed, FullOrphans, FullCommit, CompensateProbe, CompensateDelete,
           FullSteps
  <2>2. StateExists => state.sha \in 1 .. n /\ n \in 1 .. Len(hist)
    BY <1>1, <2>1 DEF Run, StateExists
  <2>3. CASE FullFastPath(p)
    <3>1. state'.sha = state.sha
      BY <2>1, <2>3, WithPathState DEF FullFastPath, RefreshState, RecordedState, Run
    <3>2. QED
      BY <1>3, <2>3, <3>1 DEF FullFastPath
  <2>4. CASE FullReconcile(p)
    <3>1. state'.sha = state.sha
      BY <2>4, WithPathState DEF FullReconcile
    <3>2. \A s \in Syms : rows'[s] = rows[s] \/ ~Live(tree[s])
      BY <2>4 DEF FullReconcile, Without, FileExists
    <3>3. StateExists => \A s \in Syms :
            rows'[s] = rows[s] \/ AbsentSince(state.sha, s)
      <4>1. StateExists => state.sha \in 1 .. Len(hist)
        BY <1>1, <2>2
      <4>2. QED
        BY <3>2, <4>1, CommitVersions
    <3>4. CASE StateExists
      BY <1>3, <3>1, <3>3, <3>4
    <3>5. CASE ~StateExists
      BY <1>2, <3>1, <3>5 DEF StateExists
    <3>6. QED
      BY <3>4, <3>5
  <2>5. CASE FullEmbed(p)
    <3>1. ASSUME StateExists, NEW s \in loc[p].todo,
                 rows' = Upserted(rows, {s}, loc[p].snap), UNCHANGED state
          PROVE  CoverInv'
      <4>1. s \in Syms /\ loc[p].snap[s] # 0 /\ loc[p].snap[s] \in Nat
        BY <2>5 DEF EmbedsParsed, FullEmbed, AfterHashes, TypeOK, Local, Tree, Vers
      <4>2. loc[p].snap[s] >= hist[n][s]
        BY <2>1, <2>2, <2>5, <3>1, <4>1 DEF Run, FullEmbed, AfterHashes
      <4>3. hist[state.sha][s] <= hist[n][s] /\ hist[state.sha][s] \in Nat
            /\ hist[n][s] \in Nat
        BY <2>2, <3>1, <4>1, CommitVersions
      <4>4. rows'[s].ver = loc[p].snap[s] /\ rows'[s] # NoRow
            /\ \A t \in Syms : t # s => rows'[t] = rows[t]
        BY <3>1, <4>1 DEF Upserted, NoRow
      <4>5. rows'[s].ver >= hist[state.sha][s]
        BY <4>1, <4>2, <4>3, <4>4
      <4>6. IndexedSince(state.sha, s)'
        BY <1>0, <3>1, <4>4, <4>5 DEF IndexedSince
      <4>7. QED
        BY <1>3, <3>1, <4>4, <4>6
    <3>2. UNCHANGED state
      BY <2>5 DEF FullEmbed
    <3>3. CASE ~StateExists
      BY <1>2, <3>2, <3>3 DEF StateExists
    <3>4. QED
      BY <1>4, <2>5, <3>1, <3>2, <3>3 DEF FullEmbed
  <2>6. CASE FullOrphans(p)
    <3>1. \A s \in Syms : rows'[s] = rows[s] \/ loc[p].snap[s] = 0
      BY <2>6 DEF FullOrphans, Without, Existing, Seen
    <3>2. UNCHANGED state
      BY <2>6 DEF FullOrphans
    <3>3. StateExists => \A s \in Syms :
            loc[p].snap[s] = 0 => AbsentSince(state.sha, s)
      <4>1. StateExists => \A s \in Syms : loc[p].snap[s] = 0 => AbsentSince(n, s)
        BY <2>1, <2>2, <2>6 DEF Run, FullOrphans, AfterHashes
      <4>2. QED
        BY <2>2, <4>1, SinceEarlier
    <3>4. CASE StateExists
      BY <1>3, <3>1, <3>2, <3>3, <3>4
    <3>5. CASE ~StateExists
      BY <1>2, <3>2, <3>5 DEF StateExists
    <3>6. QED
      BY <3>4, <3>5
  <2>7. CASE FullCommit(p)
    <3>1. CASE state' = RecordedState(p) /\ n # 0
      <4>1. state'.sha = n /\ UNCHANGED rows
        BY <2>7, <3>1 DEF RecordedState, FullCommit
      <4>2. \A s \in Syms : AbsentSince(n, s) \/ IndexedSince(n, s)
        BY <2>1, <2>7, <3>1 DEF Run, FullCommit
      <4>3. n <= Len(hist)
        BY <2>1 DEF Run
      <4>4. QED
        BY <1>0, <4>1, <4>2, <4>3
           DEF CoverInv, RecordedCommitCovered, Covered, AbsentSince, IndexedSince
    <3>2. QED
      BY <1>4, <2>7, <3>1 DEF FullCommit
  <2>8. CASE CompensateDelete(p)
    <3>1. ~StateExists
      BY <2>1, <2>8 DEF FirstIndex, CompensateDelete
    <3>2. QED
      BY <1>2, <2>8, <3>1 DEF CompensateDelete, StateExists
  <2>9. QED
    BY <1>4, <1>7, <2>3, <2>4, <2>5, <2>6, <2>7, <2>8
       DEF FullIndex, FullLookup, FullParse, FullHashes, CompensateProbe, db
<1>8. QED
  BY <1>5, <1>6, <1>7 DEF Step, Invalidates

LEMMA InitRun == Init => RunInv /\ CoverInv
<1> SUFFICES ASSUME Init  PROVE RunInv /\ CoverInv
  OBVIOUS
<1>1. RunInv
  BY DEF Init, RunInv, FullSteps
<1>2. CASE rows = NoRows /\ state = NoState
  <2>1. Len(hist) \in Nat
    BY DEF Init
  <2>2. QED
    BY <1>1, <1>2, <2>1 DEF CoverInv, RecordedCommitCovered, NoState, StateExists
<1>3. CASE /\ hist = <<tree>> /\ state.sha = 1
           /\ rows = Upserted(NoRows, {s \in Syms : Live(tree[s])}, tree)
  <2>1. \A s \in Syms : tree[s] \in Nat
    BY DEF Init
  <2>2. ASSUME NEW s \in Syms  PROVE Covered(s)
    BY <1>3, <2>1, BoundsAssumption DEF Covered, Upserted, Live, NoRow
  <2>3. QED
    BY <1>1, <1>3, <2>2 DEF CoverInv, RecordedCommitCovered
<1>4. QED
  BY <1>2, <1>3 DEF Init

LEMMA EnvironmentRun ==
  ASSUME TypeOK, RunInv, CoverInv, Environment
  PROVE  RunInv' /\ CoverInv'
<1>1. CASE UNCHANGED vars
  BY <1>1
     DEF vars, RunInv, Run, CoverInv, RecordedCommitCovered, Covered, AbsentSince,
         IndexedSince, StateExists
<1>2. CASE (\E s \in Syms : Edit(s)) \/ Commit
  <2>1. RunInv'
    BY <1>2, RepoRun, RepoMovesOn DEF RunInv
  <2>2. state' = state /\ state.sha <= Len(hist) /\ Len(hist) <= Len(hist')
        /\ state.sha \in Nat /\ Len(hist) \in Nat /\ Len(hist') \in Nat
    BY <1>2, RepoMovesOn DEF CoverInv, TypeOK, State, Edit, Commit
  <2>3. CASE StateExists
    <3>1. state.sha \in 1 .. Len(hist)
      BY <2>2, <2>3 DEF StateExists
    <3>2. \A s \in Syms : AbsentSince(state.sha, s)' \/ IndexedSince(state.sha, s)'
      BY <1>2, <2>2, <2>3, <3>1, RepoMovesOn, CoveredSince DEF CoverInv
    <3>3. RecordedCommitCovered'
      BY <2>2, <3>2 DEF RecordedCommitCovered, Covered, AbsentSince, IndexedSince
    <3>4. QED
      BY <2>1, <2>2, <3>3 DEF CoverInv
  <2>4. CASE ~StateExists
    BY <2>1, <2>2, <2>4 DEF CoverInv, RecordedCommitCovered, StateExists
  <2>5. QED
    BY <2>3, <2>4
<1>3. CASE Restart
  BY <1>3
     DEF Restart, RunInv, FullSteps, CoverInv, RecordedCommitCovered, Covered,
         StateExists
<1>4. QED
  BY <1>1, <1>2, <1>3 DEF Environment

LEMMA RunInvariant ==
  ASSUME AutoLoop = {}, MaxUnread = 0, NEW m, Models = {m}
  PROVE  Spec => [](RunInv /\ CoverInv)
<1> DEFINE Inv == /\ TypeOK /\ SlotExclusive /\ NoSyncRunning /\ FirstIndexInv
                  /\ VersionsGrow /\ OneModel
<1>1. Inv /\ RunInv /\ CoverInv /\ [Next]_vars => RunInv' /\ CoverInv'
  <2> SUFFICES ASSUME Inv, RunInv, CoverInv, [Next]_vars  PROVE RunInv' /\ CoverInv'
    OBVIOUS
  <2>1. ASSUME NEW p \in Procs, Step(p)  PROVE RunInv' /\ CoverInv'
    <3>1. RunInv'
      <4>1. SUFFICES ASSUME NEW q \in Procs, pc'[q] \in FullSteps  PROVE Run(q)'
        BY DEF RunInv
      <4>2. CASE q = p
        BY <2>1, <4>1, <4>2, OwnRun, NoSyncStep DEF RunInv, CoverInv, FirstIndexInv
      <4>3. CASE q # p
        BY <2>1, <4>1, <4>3, OthersRun, StepLocal DEF RunInv
      <4>4. QED
        BY <4>2, <4>3
    <3>2. CoverInv'
      BY <2>1, StepCovers, NoSyncStep DEF RunInv, FirstIndexInv
    <3>3. QED
      BY <3>1, <3>2
  <2>2. QED
    BY <2>1, EnvironmentRun DEF Next, Environment
<1>2. QED
  BY <1>1, InitRun, TypeCorrect, SlotIsExclusive, NoSync, FirstInvariant,
     VersionsOnlyGrow, ModelStays, PTL DEF Spec

\* Whatever fails, restarts or is committed between the steps of a run, the
\* state row never names a commit whose changes are not in the index: proved
\* for a key without incremental syncs, with one model and readable files.
THEOREM CommitIsCovered ==
  ASSUME AutoLoop = {}, MaxUnread = 0, NEW m, Models = {m}
  PROVE  Spec => []RecordedCommitCovered
<1>1. CoverInv => RecordedCommitCovered
  BY DEF CoverInv
<1>2. QED
  BY <1>1, RunInvariant, PTL
-----------------------------------------------------------------------------
(* The same promise for a key that only the autoindex loop works on.       *)

\* Every step of a pass is outside a full index, and only a pass takes one.
LEMMA SyncOutsideIndex ==
  ASSUME TypeOK, NEW p \in Procs, IncrementalSync(p)
  PROVE  pc[p] \notin FullSteps /\ pc'[p] \notin FullSteps
<1> USE DEF TypeOK, Goto, Return, Fail, FullSteps
<1>1. CASE SyncStart(p) \/ SyncGiveUp(p)
  BY <1>1 DEF SyncStart, SyncGiveUp
<1>2. CASE SyncLookup(p) \/ SyncCount(p)
  BY <1>2 DEF SyncLookup, SyncCount
<1>3. CASE SyncNoFiles(p) \/ SyncTruncated(p)
  BY <1>3 DEF SyncNoFiles, SyncTruncated
<1>4. ASSUME NEW f \in Files, IndexFileRead(p, f)
      PROVE  pc[p] \notin FullSteps /\ pc'[p] \notin FullSteps
  <2>1. \E next \in {"file_evict", "sync_commit", "sync_next"} : Goto(p, next)
    BY <1>4, Zenon DEF IndexFileRead
  <2>2. QED
    BY <1>4, <2>1 DEF IndexFileRead
<1>5. CASE FileEvict(p) \/ FileEmbed(p) \/ SyncCommit(p)
  BY <1>5 DEF FileEvict, FileEmbed, SyncCommit, AfterFile
<1>6. QED
  BY <1>1, <1>2, <1>3, <1>4, <1>5 DEF IncrementalSync

LEMMA OnlySyncPasses ==
  ASSUME TypeOK, NEW p \in Procs, Step(p), ~IncrementalSync(p)
  PROVE  pc'[p] \notin PassSteps
<1> USE DEF TypeOK, Goto, Return, Fail, PassSteps, DiffSteps
<1>1. CASE Invalidates(p) \/ ClaimIndexSlot(p)
  BY <1>1, InvalidateEffect DEF ClaimIndexSlot
<1>2. CASE FullIndex(p)
  BY <1>2
     DEF FullIndex, FullLookup, FullFastPath, FullParse, FullHashes, FullReconcile,
         FullEmbed, FullOrphans, FullCommit, CompensateProbe, CompensateDelete
<1>3. CASE OrphanSweep(p)
  BY <1>3
     DEF OrphanSweep, SweepList, SweepClaim, DeleteOrphanRepoKeysForRepo,
         SweepPathlessWipe
<1>4. QED
  BY <1>1, <1>2, <1>3 DEF Step, Invalidates

\* What a pass changes of the database, and when.
LEMMA SyncWrites ==
  ASSUME NEW p \in Procs, IncrementalSync(p)
  PROVE  \/ UNCHANGED <<rows, state>>
         \/ SyncCount(p) /\ UNCHANGED rows
         \/ FileEvict(p) /\ UNCHANGED state
         \/ FileEmbed(p) /\ UNCHANGED state
         \/ SyncCommit(p) /\ UNCHANGED rows
BY DEF IncrementalSync, SyncStart, SyncGiveUp, SyncLookup, SyncCount, SyncNoFiles,
       SyncTruncated, FileEvict, FileEmbed, SyncCommit, IndexFileRead, db

\* The rows of one file, written from what was read of it.
LEMMA FileWrites ==
  ASSUME TypeOK, NEW p \in Procs, Pass(p), FileEvict(p) \/ FileEmbed(p)
  PROVE  \A s \in Syms :
           \/ rows'[s] = rows[s]
           \/ /\ FileEvict(p) /\ s \in InFile(loc[p].file) /\ rows'[s] = NoRow
              /\ AbsentSince(loc[p].cur, s)
           \/ /\ FileEmbed(p) /\ s \in loc[p].todo /\ rows'[s] # NoRow
              /\ rows'[s].ver = loc[p].snap[s] /\ loc[p].snap[s] # 0
              /\ loc[p].snap[s] >= hist[loc[p].cur][s]
<1>1. pc[p] \in FileSteps /\ FileRead(p)
  BY DEF FileEvict, FileEmbed, FileSteps, Pass
<1>2. CASE FileEvict(p)
  BY <1>1, <1>2 DEF FileEvict, Without, FileRead, InFile
<1>3. CASE FileEmbed(p)
  <2>1. PICK S \in SUBSET loc[p].todo : rows' = Upserted(rows, S, loc[p].snap)
    BY <1>3 DEF FileEmbed
  <2>2. \A s \in S : s \in loc[p].todo /\ s \in InFile(loc[p].file) /\ loc[p].snap[s] # 0
    BY <1>1, <2>1 DEF FileRead
  <2>3. \A s \in S : s \in Syms /\ loc[p].snap[s] >= hist[loc[p].cur][s]
    BY <1>1, <2>2 DEF FileRead, InFile
  <2>4. \A s \in Syms : IF s \in S
                        THEN rows'[s].ver = loc[p].snap[s] /\ rows'[s] # NoRow
                        ELSE rows'[s] = rows[s]
    BY <2>1, <2>2 DEF Upserted, NoRow
  <2>5. QED
    BY <1>3, <2>2, <2>3, <2>4
<1>4. QED
  BY <1>2, <1>3

LEMMA SyncBodies ==
  ASSUME TypeOK, RowsHaveBodies, NEW p \in Procs, IncrementalSync(p), WritesParsed(p)
  PROVE  RowsHaveBodies'
<1>1. CASE UNCHANGED rows
  BY <1>1 DEF RowsHaveBodies
<1>2. CASE FileEvict(p)
  BY <1>1, <1>2, WithoutBodies DEF FileEvict
<1>3. CASE FileEmbed(p)
  <2>1. PICK S \in SUBSET loc[p].todo : rows' = Upserted(rows, S, loc[p].snap)
    BY <1>3 DEF FileEmbed
  <2>2. \A s \in S : loc[p].snap[s] # 0
    BY <1>3 DEF FileEmbed, WritesParsed, FileSteps
  <2>3. QED
    BY <2>1, <2>2 DEF RowsHaveBodies, Upserted
<1>4. QED
  BY <1>1, <1>2, <1>3, SyncWrites

\* What the read of a file (parseAndDiff) leaves of the pass.
LEMMA ReadLocal ==
  ASSUME TypeOK, NEW p \in Procs, NEW f \in Files, IndexFileRead(p, f)
  PROVE  /\ loc'[p].cur = loc[p].cur
         /\ \/ pc'[p] \notin FileSteps
            \/ \E U \in SUBSET {f} :
                 /\ loc'[p].snap = OfFile(f, Parsed(U))
                 /\ loc'[p].todo = filterSymbols(OfFile(f, Parsed(U)),
                                                OfFile(f, GetHashes))
<1>0. p \in DOMAIN pc /\ p \in DOMAIN loc /\ loc[p] \in Local
  BY DEF TypeOK
<1>1. CASE \E U \in SUBSET {f} :
             loc' = [loc EXCEPT ![p].file = f,
                                ![p].files = @ \ {f},
                                ![p].snap = OfFile(f, Parsed(U)),
                                ![p].had = OfFile(f, GetHashes),
                                ![p].todo = filterSymbols(OfFile(f, Parsed(U)),
                                                          OfFile(f, GetHashes))]
  <2>1. PICK U \in SUBSET {f} :
          /\ loc'[p].cur = loc[p].cur
          /\ loc'[p].snap = OfFile(f, Parsed(U))
          /\ loc'[p].todo = filterSymbols(OfFile(f, Parsed(U)), OfFile(f, GetHashes))
    BY <1>0, <1>1 DEF Local
  <2>2. QED
    BY <2>1
<1>2. CASE /\ loc' = [loc EXCEPT ![p].files = @ \ {f}, ![p].err = TRUE]
           /\ Goto(p, IF loc[p].files = {f} THEN "sync_commit" ELSE "sync_next")
  <2>1. loc'[p].cur = loc[p].cur
    BY <1>0, <1>2 DEF Local
  <2>2. pc'[p] \notin FileSteps
    BY <1>0, <1>2 DEF Goto, FileSteps
  <2>3. QED
    BY <2>1, <2>2
<1>3. QED
  BY <1>1, <1>2 DEF IndexFileRead

LEMMA SyncParsed ==
  ASSUME TypeOK, NEW p \in Procs, Step(p), WritesParsed(p)
  PROVE  WritesParsed(p)'
<1>0. p \in DOMAIN pc /\ p \in DOMAIN loc /\ loc[p] \in Local
  BY DEF TypeOK
<1>1. CASE pc'[p] \notin FileSteps
  BY <1>1 DEF WritesParsed
<1>2. CASE ~IncrementalSync(p)
  BY <1>1, <1>2, OnlySyncPasses DEF PassSteps, DiffSteps, FileSteps
<1>3. CASE FileEvict(p) \/ FileEmbed(p)
  <2>1. pc[p] \in FileSteps /\ loc'[p].todo = loc[p].todo /\ loc'[p].snap = loc[p].snap
    BY <1>0, <1>3 DEF FileEvict, FileEmbed, Local, FileSteps
  <2>2. QED
    BY <2>1 DEF WritesParsed
<1>4. ASSUME NEW f \in Files, IndexFileRead(p, f)  PROVE WritesParsed(p)'
  BY <1>1, <1>4, ReadLocal DEF WritesParsed, filterSymbols
<1>5. CASE SyncStart(p) \/ SyncGiveUp(p) \/ SyncLookup(p) \/ SyncCount(p)
  BY <1>0, <1>1, <1>5
     DEF SyncStart, SyncGiveUp, SyncLookup, SyncCount, Return, Fail, Goto, FileSteps
<1>6. CASE SyncNoFiles(p) \/ SyncTruncated(p) \/ SyncCommit(p)
  BY <1>0, <1>1, <1>6
     DEF SyncNoFiles, SyncTruncated, SyncCommit, Return, Fail, Goto, FileSteps
<1>7. QED
  BY <1>2, <1>3, <1>4, <1>5, <1>6 DEF IncrementalSync

\* A sweep does nothing but sweep.
OnlySweeps == \A p \in Sweep : pc[p] \in SweepSteps \cup {"idle", "claim_orphan", "claim_wipe"}

LEMMA SweepStep ==
  ASSUME NEW p \in Sweep, OnlySweeps, Step(p)
  PROVE  OrphanSweep(p) /\ ~IncrementalSync(p)
<1>1. p \notin Indexers /\ p \notin AutoLoop /\ p \notin Lazy
  BY ProcsAssumption DEF Indexers
<1>2. pc[p] \in {"sweep_orphan", "sweep_wipe", "idle", "claim_orphan", "claim_wipe"}
  BY DEF OnlySweeps, SweepSteps
<1>3. ~Invalidates(p) /\ ~ClaimIndexSlot(p)
  BY <1>1, <1>2
     DEF ClaimIndexSlot, Invalidates, BootInvalidate, IndexRepoAsync, InvalidateWipe
<1>4. ~FullIndex(p)
  BY <1>2
     DEF FullIndex, FullLookup, FullFastPath, FullParse, FullHashes, FullReconcile,
         FullEmbed, FullOrphans, FullCommit, CompensateProbe, CompensateDelete
<1>5. ~IncrementalSync(p)
  BY <1>1, <1>2
     DEF IncrementalSync, SyncStart, SyncGiveUp, SyncLookup, SyncCount, SyncNoFiles,
         SyncTruncated, FileEvict, FileEmbed, SyncCommit, IndexFileRead
<1>6. QED
  BY <1>3, <1>4, <1>5 DEF Step, Invalidates

LEMMA SweepsOnlySweep == Spec => []OnlySweeps
<1>1. Init => OnlySweeps
  BY ProcsAssumption DEF Init, Procs, OnlySweeps
<1>2. TypeOK /\ OnlySweeps /\ [Next]_vars => OnlySweeps'
  <2> SUFFICES ASSUME TypeOK, OnlySweeps, [Next]_vars  PROVE OnlySweeps'
    OBVIOUS
  <2>1. CASE (\E s \in Syms : Edit(s)) \/ Commit \/ Restart \/ UNCHANGED vars
    BY <2>1, ProcsAssumption DEF Edit, Commit, Restart, vars, Procs, OnlySweeps
  <2>2. ASSUME NEW p \in Procs, Step(p)  PROVE OnlySweeps'
    <3>1. ASSUME p \in Sweep
          PROVE  pc'[p] \in SweepSteps \cup {"idle", "claim_orphan", "claim_wipe"}
      <4>1. OrphanSweep(p)
        BY <2>2, <3>1, SweepStep
      <4>2. QED
        BY <4>1
           DEF OrphanSweep, SweepList, SweepClaim, DeleteOrphanRepoKeysForRepo,
               SweepPathlessWipe, Goto, Return, TypeOK, SweepSteps
    <3>2. QED
      BY <2>2, <3>1, StepLocal DEF Procs, OnlySweeps
  <2>3. QED
    BY <2>1, <2>2 DEF Next
<1>3. QED
  BY <1>1, <1>2, TypeCorrect, PTL DEF Spec

\* A sweep finds the slot taken by a full index and leaves the database alone.
LEMMA SweepWaits ==
  ASSUME SlotExclusive, OnlySweeps, NEW p \in Sweep, Step(p),
         NEW q \in Procs, p # q, pc[q] \in FullSteps
  PROVE  UNCHANGED db
<1>1. pc[p] \notin SweepSteps
  BY OneHolder DEF SlotSteps, Procs
<1>2. OrphanSweep(p)
  BY SweepStep
<1>3. QED
  BY <1>1, <1>2
     DEF OrphanSweep, SweepList, SweepClaim, DeleteOrphanRepoKeysForRepo,
         SweepPathlessWipe, SweepSteps

\* The first index of a key by its loop, beside any number of sweeps.
LEMMA LoopFirstInvariant ==
  ASSUME NEW a, AutoLoop = {a}, Lazy = {}
  PROVE  Spec => []FirstIndexInv
<1> DEFINE Inv == TypeOK /\ SlotExclusive /\ OnlySweeps
           Rely == FirstIndexInv /\ WritesParsed(a)
<1>0. a \in Procs /\ \A p \in Procs : p = a \/ p \in Sweep
  BY DEF Procs
<1>1. Init => Rely
  BY <1>0, InitFirst DEF Init, WritesParsed, FileSteps
<1>2. Inv /\ Rely /\ [Next]_vars => Rely'
  <2> SUFFICES ASSUME Inv, Rely, [Next]_vars  PROVE Rely'
    OBVIOUS
  <2>1. CASE Environment
    <3>1. WritesParsed(a)'
      BY <1>0, <2>1
         DEF Environment, Edit, Commit, Restart, vars, WritesParsed, FileSteps
    <3>2. QED
      BY <2>1, <3>1, EnvironmentFirst
  <2>2. CASE Step(a)
    <3>1. WritesParsed(a)'
      BY <1>0, <2>2, SyncParsed
    <3>2. RowsHaveBodies'
      BY <1>0, <2>2, StepBodies, SyncBodies DEF FirstIndexInv
    <3>3. FirstIndex(a)' /\ EmbedsParsed(a)'
      BY <1>0, <2>2, OwnFirst, SyncOutsideIndex, NoRunFirst DEF FirstIndexInv
    <3>4. ASSUME NEW q \in Sweep  PROVE FirstIndex(q)' /\ EmbedsParsed(q)'
      <4>1. q \in Procs /\ q # a
        BY ProcsAssumption DEF Procs
      <4>2. pc'[q] \notin FullSteps
        BY <1>0, <2>2, <4>1, StepLocal DEF OnlySweeps, SweepSteps, FullSteps
      <4>3. QED
        BY <4>1, <4>2, NoRunFirst
    <3>5. QED
      BY <1>0, <3>1, <3>2, <3>3, <3>4 DEF FirstIndexInv
  <2>3. ASSUME NEW p \in Sweep, Step(p)  PROVE Rely'
    <3>1. p \in Procs /\ p # a
      BY ProcsAssumption DEF Procs
    <3>2. OrphanSweep(p) /\ ~IncrementalSync(p)
      BY <2>3, SweepStep
    <3>3. pc'[a] = pc[a] /\ loc'[a] = loc[a]
      BY <1>0, <2>3, <3>1, StepLocal
    <3>4. RowsHaveBodies' /\ FirstIndex(p)' /\ EmbedsParsed(p)'
      BY <2>3, <3>1, <3>2, StepBodies, OwnFirst DEF FirstIndexInv
    <3>5. FirstIndex(a)' /\ EmbedsParsed(a)'
      <4>1. CASE pc[a] \notin FullSteps
        BY <1>0, <3>3, <4>1, NoRunFirst
      <4>2. CASE pc[a] \in FullSteps
        <5>1. UNCHANGED db /\ FirstIndex(a) /\ EmbedsParsed(a)
          BY <1>0, <2>3, <3>1, <4>2, SweepWaits DEF FirstIndexInv
        <5>2. QED
          BY <3>3, <5>1 DEF FirstIndex, EmbedsParsed, StateExists, db
      <4>3. QED
        BY <4>1, <4>2
    <3>6. ASSUME NEW q \in Sweep, q # p  PROVE FirstIndex(q)' /\ EmbedsParsed(q)'
      <4>1. q \in Procs
        BY DEF Procs
      <4>2. pc'[q] \notin FullSteps
        BY <2>3, <3>1, <3>6, <4>1, StepLocal DEF OnlySweeps, SweepSteps, FullSteps
      <4>3. QED
        BY <4>1, <4>2, NoRunFirst
    <3>7. WritesParsed(a)'
      BY <3>3 DEF WritesParsed
    <3>8. QED
      BY <1>0, <3>4, <3>5, <3>6, <3>7 DEF FirstIndexInv
  <2>4. QED
    BY <1>0, <2>1, <2>2, <2>3 DEF Next, Environment
<1>3. QED
  BY <1>1, <1>2, TypeCorrect, SlotIsExclusive, SweepsOnlySweep, PTL DEF Spec

\* The same for the loop's own first index of a key, whatever its passes wrote before.
THEOREM LoopCompensationIsOwn ==
  ASSUME NEW a, AutoLoop = {a}, Lazy = {}
  PROVE  Spec => []CompensatesOwnRows
<1>1. FirstIndexInv => CompensatesOwnRows
  BY DEF FirstIndexInv, FirstIndex, CompensatesOwnRows, FullSteps, AfterHashes, Procs,
         Indexers
<1>2. QED
  BY <1>1, LoopFirstInvariant, PTL

\* With one model, and no pathless row to sweep, a state row stays.
LEMMA StateIsKept ==
  ASSUME TypeOK, OneModel, StateStays, NEW p \in Procs, Step(p)
  PROVE  /\ StateExists => StateExists'
         /\ ~Legacy /\ StateExists' => state'.path
<1>1. ASSUME \/ state'.sha = state.sha /\ (state.path => state'.path)
             \/ state' = RecordedState(p) /\ loc[p].cur # 0
      PROVE  /\ StateExists => StateExists'
             /\ ~Legacy /\ StateExists' => state'.path
  BY <1>1 DEF StateStays, StateExists, RecordedState
<1>2. WithPath.sha = state.sha /\ (state.path => WithPath.path)
  BY DEF WithPath, TypeOK, State
<1>3. CASE UNCHANGED state
  BY <1>1, <1>3
<1>4. CASE RefreshState(p) /\ loc[p].cur # 0
  BY <1>1, <1>2, <1>4 DEF RefreshState
<1>5. CASE Invalidates(p)
  BY <1>3, <1>5, NothingForeign DEF db
<1>6. CASE FullIndex(p)
  <2>1. CASE FullFastPath(p)
    <3>1. loc[p].cur # 0
      BY <2>1 DEF FullFastPath, StateStays, KeepsState
    <3>2. QED
      BY <1>3, <1>4, <2>1, <3>1 DEF FullFastPath
  <2>2. CASE FullReconcile(p)
    BY <1>1, <1>2, <2>2 DEF FullReconcile
  <2>3. CASE FullCommit(p)
    BY <1>1, <2>3 DEF FullCommit
  <2>4. QED
    BY <1>3, <1>6, <2>1, <2>2, <2>3
       DEF FullIndex, FullLookup, FullParse, FullHashes, FullEmbed, FullOrphans,
           CompensateProbe, CompensateDelete, db
<1>7. CASE IncrementalSync(p)
  <2>1. CASE SyncCount(p)
    <3>1. loc[p].cur # 0
      BY <2>1 DEF SyncCount, StateStays, KeepsState, PassSteps
    <3>2. QED
      BY <1>3, <1>4, <2>1, <3>1 DEF SyncCount
  <2>2. CASE SyncCommit(p)
    <3>1. loc[p].cur # 0
      BY <2>2 DEF SyncCommit, StateStays, KeepsState, PassSteps, DiffSteps
    <3>2. QED
      BY <1>1, <2>2, <3>1 DEF SyncCommit
  <2>3. QED
    BY <1>3, <1>7, <2>1, <2>2, SyncWrites
<1>8. CASE OrphanSweep(p)
  BY <1>3, <1>8
     DEF OrphanSweep, SweepList, SweepClaim, DeleteOrphanRepoKeysForRepo,
         SweepPathlessWipe, StateStays, KeepsState, db
<1>9. QED
  BY <1>3, <1>5, <1>6, <1>7, <1>8 DEF Step, Invalidates, ClaimIndexSlot, db

LEMMA OwnState ==
  ASSUME TypeOK, StateStays, NEW p \in Procs, Step(p), StateExists => StateExists',
         ~Legacy \/ Sweep = {}
  PROVE  KeepsState(p)'
<1> USE DEF PassSteps, DiffSteps
<1>0. p \in DOMAIN pc /\ p \in DOMAIN loc /\ loc[p] \in Local /\ KeepsState(p)
  BY DEF TypeOK, StateStays
<1>1. WritesParsed(p)'
  BY <1>0, SyncParsed DEF KeepsState
<1>2. ASSUME pc'[p] \in {"idle", "retry", "claim", "boot_sync", "wipe"}
      PROVE  KeepsState(p)'
  BY <1>1, <1>2 DEF KeepsState
<1>3. CASE Return(p) \/ Fail(p)
  BY <1>0, <1>2, <1>3 DEF Return, Fail, Goto
<1>4. CASE Invalidates(p)
  BY <1>0, <1>2, <1>4, InvalidateEffect DEF Goto
<1>5. CASE ClaimIndexSlot(p)
  BY <1>0, <1>1, <1>3, <1>5 DEF ClaimIndexSlot, Goto, KeepsState
<1>6. CASE FullLookup(p)
  <2>1. pc'[p] \in {"fastpath", "parse"} /\ loc'[p].cur = loc[p].cur
        /\ (pc'[p] = "fastpath" => loc[p].cur # 0)
    BY <1>0, <1>6 DEF FullLookup, Goto, Local
  <2>2. QED
    BY <1>1, <2>1 DEF KeepsState
<1>7. CASE FullIndex(p) /\ ~FullLookup(p)
  <2>1. Return(p) \/ Fail(p) \/ pc'[p] \in FullSteps \ {"lookup", "fastpath"}
    BY <1>0, <1>7
       DEF FullIndex, FullFastPath, FullParse, FullHashes, FullReconcile, FullEmbed,
           FullOrphans, FullCommit, CompensateProbe, CompensateDelete, Goto, FullSteps
  <2>2. QED
    BY <1>1, <1>3, <2>1 DEF KeepsState, FullSteps
<1>8. CASE SyncStart(p)
  <2>1. CASE pc'[p] = "claim"
    BY <1>2, <2>1
  <2>2. CASE pc'[p] = "sync_lookup" /\ Len(hist) # 0
    <3>1. loc'[p].cur = Len(hist)
      BY <1>0, <1>8 DEF SyncStart, repoMainBranchSHA, Local
    <3>2. QED
      BY <1>1, <2>2, <3>1 DEF KeepsState
  <2>3. QED
    BY <1>0, <1>8, <2>1, <2>2 DEF SyncStart, Goto, repoMainBranchSHA
<1>9. CASE SyncLookup(p)
  <2>1. loc'[p].cur = loc[p].cur /\ loc[p].cur # 0
    BY <1>0, <1>9 DEF SyncLookup, KeepsState, Local
  <2>2. pc'[p] = "claim" \/ (pc'[p] \in {"sync_count", "sync_next"} /\ StateExists)
    BY <1>0, <1>9, <2>1 DEF SyncLookup, Goto, StateExists
  <2>3. QED
    BY <1>1, <1>2, <2>1, <2>2 DEF KeepsState
<1>10. CASE SyncCount(p) \/ SyncGiveUp(p) \/ SyncTruncated(p) \/ SyncCommit(p)
  BY <1>0, <1>2, <1>3, <1>10
     DEF SyncCount, SyncGiveUp, SyncTruncated, SyncCommit, Goto
<1>11. CASE SyncNoFiles(p) \/ FileEvict(p) \/ FileEmbed(p) \/ \E f \in Files : IndexFileRead(p, f)
  <2>1. pc[p] \in DiffSteps /\ pc'[p] \in DiffSteps
    BY <1>0, <1>11 DEF SyncNoFiles, FileEvict, FileEmbed, IndexFileRead, Goto, AfterFile
  <2>2. SyncNoFiles(p) \/ FileEmbed(p) => loc'[p].cur = loc[p].cur
    BY <1>0 DEF SyncNoFiles, FileEmbed, Local
  <2>3. FileEvict(p) => loc'[p].cur = loc[p].cur
    BY <1>0 DEF FileEvict, Local
  <2>4. ASSUME NEW f \in Files, IndexFileRead(p, f)  PROVE loc'[p].cur = loc[p].cur
    BY <2>4, ReadLocal
  <2>5. loc'[p].cur = loc[p].cur
    BY <1>11, <2>2, <2>3, <2>4
  <2>6. QED
    BY <1>0, <1>1, <2>1, <2>5 DEF KeepsState
<1>12. CASE OrphanSweep(p)
  <2>1. pc'[p] \in {"claim_orphan", "sweep_orphan"} => KeepsState(p)'
    BY <1>1 DEF KeepsState
  <2>2. CASE SweepList(p)
    BY <1>0, <1>12, <2>1, <2>2 DEF SweepList, Goto, StateStays
  <2>3. QED
    BY <1>0, <1>3, <1>12, <2>1, <2>2
       DEF OrphanSweep, SweepClaim, DeleteOrphanRepoKeysForRepo, SweepPathlessWipe,
           KeepsState, Goto
<1>13. QED
  BY <1>4, <1>5, <1>6, <1>7, <1>8, <1>9, <1>10, <1>11, <1>12
     DEF Step, Invalidates, IncrementalSync

LEMMA StateStaysInvariant ==
  ASSUME ~Legacy \/ Sweep = {}, NEW m, Models = {m}
  PROVE  Spec => []StateStays
<1>1. Init => StateStays
  BY BoundsAssumption
     DEF Init, StateStays, KeepsState, WritesParsed, PassSteps, DiffSteps, FileSteps,
         NoState, StateExists
<1>2. TypeOK /\ OneModel /\ StateStays /\ [Next]_vars => StateStays'
  <2> SUFFICES ASSUME TypeOK, OneModel, StateStays, [Next]_vars  PROVE StateStays'
    OBVIOUS
  <2>1. CASE (\E s \in Syms : Edit(s)) \/ Commit \/ UNCHANGED vars
    BY <2>1
       DEF Edit, Commit, vars, StateStays, KeepsState, WritesParsed, StateExists
  <2>2. CASE Restart
    BY <2>2
       DEF Restart, StateStays, KeepsState, WritesParsed, PassSteps, DiffSteps,
           FileSteps, StateExists
  <2>3. ASSUME NEW p \in Procs, Step(p)  PROVE StateStays'
    <3>1. /\ StateExists => StateExists'
          /\ ~Legacy /\ StateExists' => state'.path
      BY <2>3, StateIsKept
    <3>2. KeepsState(p)'
      BY <2>3, <3>1, OwnState
    <3>3. ASSUME NEW q \in Procs, q # p  PROVE KeepsState(q)'
      <4>1. pc'[q] = pc[q] /\ loc'[q] = loc[q]
        BY <2>3, <3>3, StepLocal
      <4>2. QED
        BY <3>1, <4>1 DEF StateStays, KeepsState, WritesParsed
    <3>4. QED
      BY <3>1, <3>2, <3>3 DEF StateStays
  <2>4. QED
    BY <2>1, <2>2, <2>3 DEF Next
<1>3. QED
  BY <1>1, <1>2, TypeCorrect, ModelStays, PTL DEF Spec

\* A first index has no state row and a pass has one: with one model, what the others
\* do leaves a first index alone.
LEMMA OthersSharedFirst ==
  ASSUME TypeOK, SlotExclusive, OneModel, StateStays, NEW p \in Procs, Step(p),
         NEW q \in Procs, p # q, FirstIndex(q), EmbedsParsed(q)
  PROVE  FirstIndex(q)' /\ EmbedsParsed(q)'
<1>1. pc'[q] = pc[q] /\ loc'[q] = loc[q]
  BY StepLocal
<1>2. EmbedsParsed(q)'
  BY <1>1 DEF EmbedsParsed
<1>3. CASE pc[q] \notin FullSteps
  BY <1>1, <1>3, NoRunFirst
<1>4. CASE pc[q] \in FullSteps /\ ~loc[q].first
  BY <1>1, <1>2, <1>4 DEF FirstIndex
<1>5. CASE pc[q] \in FullSteps /\ loc[q].first
  <2>1. ~StateExists
    BY <1>5 DEF FirstIndex
  <2>2. ASSUME IncrementalSync(p)  PROVE UNCHANGED db
    <3>1. pc[p] \notin DiffSteps \cup {"sync_count"}
      BY <2>1 DEF StateStays, KeepsState
    <3>2. ~SyncCount(p) /\ ~FileEvict(p) /\ ~FileEmbed(p) /\ ~SyncCommit(p)
      BY <3>1 DEF SyncCount, FileEvict, FileEmbed, SyncCommit, DiffSteps
    <3>3. QED
      BY <2>2, <3>2, SyncWrites DEF db
  <2>3. ASSUME ~IncrementalSync(p)  PROVE UNCHANGED db
    <3>1. pc[p] \notin SlotSteps
      BY <1>5, OneHolder DEF SlotSteps
    <3>2. QED
      BY <2>3, <3>1, WithoutSlot, NothingForeign
  <2>4. UNCHANGED db
    BY <2>2, <2>3
  <2>5. QED
    BY <1>1, <1>2, <2>4 DEF FirstIndex, db, StateExists
<1>6. QED
  BY <1>3, <1>4, <1>5

LEMMA SharedFirstInvariant ==
  ASSUME ~Legacy \/ Sweep = {}, NEW m, Models = {m}
  PROVE  Spec => []FirstIndexInv
<1>1. TypeOK /\ SlotExclusive /\ OneModel /\ StateStays /\ FirstIndexInv /\ [Next]_vars
      => FirstIndexInv'
  <2> SUFFICES ASSUME TypeOK, SlotExclusive, OneModel, StateStays, FirstIndexInv,
                      [Next]_vars
               PROVE  FirstIndexInv'
    OBVIOUS
  <2>1. ASSUME NEW p \in Procs, Step(p)  PROVE FirstIndexInv'
    <3>1. WritesParsed(p) /\ RowsHaveBodies /\ FirstIndex(p) /\ EmbedsParsed(p)
      BY DEF StateStays, KeepsState, FirstIndexInv
    <3>2. RowsHaveBodies'
      BY <2>1, <3>1, StepBodies, SyncBodies
    <3>3. FirstIndex(p)' /\ EmbedsParsed(p)'
      BY <2>1, <3>1, OwnFirst, SyncOutsideIndex, NoRunFirst
    <3>4. ASSUME NEW q \in Procs, q # p  PROVE FirstIndex(q)' /\ EmbedsParsed(q)'
      BY <2>1, <3>4, OthersSharedFirst DEF FirstIndexInv
    <3>5. QED
      BY <3>2, <3>3, <3>4 DEF FirstIndexInv
  <2>2. QED
    BY <2>1, EnvironmentFirst DEF Next, Environment
<1>2. QED
  BY <1>1, InitFirst, TypeCorrect, SlotIsExclusive, ModelStays, StateStaysInvariant,
     PTL DEF Spec

\* The same for a key that queries, the loop and sweeps share, with one model and no
\* pathless row to sweep: a pass needs a state row, a first index that there is none.
THEOREM SharedCompensationIsOwn ==
  ASSUME ~Legacy \/ Sweep = {}, NEW m, Models = {m}
  PROVE  Spec => []CompensatesOwnRows
<1>1. FirstIndexInv => CompensatesOwnRows
  BY DEF FirstIndexInv, FirstIndex, CompensatesOwnRows, FullSteps, AfterHashes, Procs,
         Indexers
<1>2. QED
  BY <1>1, SharedFirstInvariant, PTL

\* What the recorded commit promises, through the steps of a pass.
LEMMA SyncCovers ==
  ASSUME TypeOK, VersionsGrow, CoverInv, NEW p \in Procs, IncrementalSync(p),
         pc[p] \in PassSteps => Pass(p)
  PROVE  CoverInv'
<1> DEFINE n == loc[p].cur
<1>0. UNCHANGED <<tree, hist>>
  BY StepKeepsRepo DEF Step
<1>1. Len(hist) \in Nat /\ n \in Nat /\ state.sha \in Nat
  BY DEF TypeOK, Local, State
<1>2. CASE UNCHANGED rows /\ state'.sha = state.sha
  BY <1>0, <1>2 DEF CoverInv, RecordedCommitCovered, Covered, StateExists
<1>3. CASE SyncCount(p) /\ UNCHANGED rows
  <2>1. RefreshState(p) => state'.sha = state.sha
    <3>1. state.sha = n
      BY <1>3 DEF SyncCount, Pass, PassSteps
    <3>2. QED
      BY <3>1, WithPathState DEF RefreshState, RecordedState
  <2>2. QED
    BY <1>2, <1>3, <2>1 DEF SyncCount
<1>4. CASE (FileEvict(p) \/ FileEmbed(p)) /\ UNCHANGED state
  <2>1. Pass(p) /\ StateExists
    BY <1>4 DEF FileEvict, FileEmbed, PassSteps, DiffSteps, Pass
  <2>2. n \in 1 .. Len(hist) /\ state.sha \in 1 .. n
    BY <1>1, <2>1 DEF Pass, StateExists
  <2>3. ASSUME NEW s \in Syms
        PROVE  AbsentSince(state.sha, s) \/ IndexedSince(state.sha, s)'
    <3>1. AbsentSince(state.sha, s) \/ IndexedSince(state.sha, s)
      BY <2>1, CoveredSince DEF CoverInv
    <3>2. CASE rows'[s] = rows[s]
      BY <1>0, <1>4, <3>1, <3>2 DEF IndexedSince
    <3>3. CASE AbsentSince(n, s)
      BY <2>2, <3>3, SinceEarlier
    <3>4. CASE /\ rows'[s] # NoRow /\ rows'[s].ver = loc[p].snap[s]
               /\ loc[p].snap[s] >= hist[n][s]
      <4>1. hist[state.sha][s] <= hist[n][s] /\ hist[state.sha][s] \in Nat
            /\ hist[n][s] \in Nat
        BY <2>2, CommitVersions
      <4>2. loc[p].snap[s] \in Nat
        BY DEF TypeOK, Local, Tree, Vers
      <4>3. rows'[s].ver >= hist[state.sha][s]
        BY <3>4, <4>1, <4>2
      <4>4. QED
        BY <1>0, <1>4, <3>4, <4>3 DEF IndexedSince
    <3>5. QED
      BY <1>4, <2>1, <3>2, <3>3, <3>4, FileWrites
  <2>4. QED
    BY <1>0, <1>4, <2>3
       DEF CoverInv, RecordedCommitCovered, Covered, AbsentSince, IndexedSince,
           StateExists
<1>5. CASE SyncCommit(p) /\ UNCHANGED rows
  <2>1. CASE state' = RecordedState(p) /\ MayAdvance(p)
    <3>1. Pass(p) /\ pc[p] = "sync_commit"
      BY <1>5 DEF SyncCommit, PassSteps, DiffSteps
    <3>2. \A s \in Syms : AbsentSince(n, s) \/ IndexedSince(n, s)
      BY <2>1, <3>1 DEF Pass, MayAdvance, Unfinished, DiffSteps, FileSteps
    <3>3. n <= Len(hist) /\ state'.sha = n
      BY <1>1, <2>1, <3>1 DEF Pass, RecordedState
    <3>4. QED
      BY <1>0, <1>5, <3>2, <3>3
         DEF CoverInv, RecordedCommitCovered, Covered, AbsentSince, IndexedSince
  <2>2. QED
    BY <1>2, <1>5, <2>1 DEF SyncCommit
<1>6. QED
  BY <1>2, <1>3, <1>4, <1>5, SyncWrites

\* The repository moves on under a pass.
LEMMA RepoPass ==
  ASSUME TypeOK, NEW p \in Procs, Pass(p), (\E s \in Syms : Edit(s)) \/ Commit
  PROVE  Pass(p)'
<1> DEFINE n == loc[p].cur
<1>1. /\ loc'[p] = loc[p] /\ pc'[p] = pc[p] /\ UNCHANGED <<rows, state>>
      /\ Len(hist) <= Len(hist')
  BY RepoMovesOn
<1>2. n \in Nat /\ Len(hist) \in Nat /\ Len(hist') \in Nat
  BY DEF TypeOK, Local, Edit, Commit
<1>3. n \in 1 .. Len(hist) /\ state.sha <= n
  BY DEF Pass
<1>4. n \in 1 .. Len(hist')
  BY <1>1, <1>2, <1>3
<1>5. /\ hist'[n] = hist[n]
      /\ \A s \in Syms : /\ AbsentSince(n, s) => AbsentSince(n, s)'
                         /\ IndexedSince(n, s) => IndexedSince(n, s)'
  BY <1>3, RepoMovesOn
<1>6. Unfinished(p)' = Unfinished(p) /\ StateExists' = StateExists
  BY <1>1 DEF Unfinished, StateExists
<1>7. ASSUME FileRead(p)  PROVE FileRead(p)'
  <2>1. \A s \in loc[p].todo : s \in InFile(loc[p].file) /\ loc[p].snap[s] # 0
    BY <1>7 DEF FileRead
  <2>2. ASSUME NEW s \in InFile(loc[p].file)
        PROVE  IF loc[p].snap[s] = 0 THEN AbsentSince(n, s)'
               ELSE /\ loc[p].snap[s] >= hist'[n][s]
                    /\ s \in loc[p].todo \/ IndexedSince(n, s)'
    <3>1. IF loc[p].snap[s] = 0 THEN AbsentSince(n, s)
          ELSE /\ loc[p].snap[s] >= hist[n][s]
               /\ s \in loc[p].todo \/ IndexedSince(n, s)
      BY <1>7, <2>2 DEF FileRead
    <3>2. s \in Syms
      BY DEF InFile
    <3>3. QED
      BY <1>5, <3>1, <3>2
  <2>3. QED
    BY <1>1, <2>1, <2>2 DEF FileRead, AbsentSince, IndexedSince, InFile
<1>8. ASSUME pc[p] \in DiffSteps, ~loc[p].err, NEW s \in Syms
      PROVE  AbsentSince(n, s)' \/ IndexedSince(n, s)' \/ FileOf[s] \in Unfinished(p)
  <2>1. AbsentSince(n, s) \/ IndexedSince(n, s) \/ FileOf[s] \in Unfinished(p)
    BY <1>8 DEF Pass
  <2>2. QED
    BY <1>5, <2>1
<1>9. /\ pc[p] = "sync_count" => state.sha = n
      /\ pc[p] \in DiffSteps => StateExists
      /\ pc[p] = "sync_commit" => loc[p].files = {}
      /\ pc[p] \in FileSteps => FileRead(p)
  BY DEF Pass
<1>10. QED
  BY <1>1, <1>3, <1>4, <1>6, <1>7, <1>8, <1>9 DEF Pass, AbsentSince, IndexedSince

\* A pass that finds the recorded commit behind takes on the files that differ.
LEMMA DiffFound ==
  ASSUME TypeOK, CoverInv, StateExists, NEW n \in 1 .. Len(hist), state.sha <= n
  PROVE  \A s \in Syms : \/ AbsentSince(n, s) \/ IndexedSince(n, s)
                         \/ FileOf[s] \in gitDiffNames(state.sha, n)
<1> SUFFICES ASSUME NEW s \in Syms, FileOf[s] \notin gitDiffNames(state.sha, n)
             PROVE  AbsentSince(n, s) \/ IndexedSince(n, s)
  OBVIOUS
<1>1. hist[state.sha][s] = hist[n][s]
  BY SymsAssumption DEF gitDiffNames, InFile
<1>2. AbsentSince(state.sha, s) \/ IndexedSince(state.sha, s)
  BY CoveredSince DEF CoverInv
<1>3. QED
  BY <1>1, <1>2 DEF AbsentSince, IndexedSince

\* A file whose every symbol is read, and what has to be embedded of it.
LEMMA FileIsRead ==
  ASSUME TypeOK, VersionsGrow, NEW n \in 1 .. Len(hist), NEW f, NEW snap, NEW todo,
         snap = OfFile(f, Parsed({})),
         todo = filterSymbols(snap, OfFile(f, GetHashes))
  PROVE  /\ \A s \in todo : s \in InFile(f) /\ snap[s] # 0
         /\ \A s \in InFile(f) :
              IF snap[s] = 0 THEN AbsentSince(n, s)
              ELSE snap[s] >= hist[n][s] /\ (s \in todo \/ IndexedSince(n, s))
<1>1. \A s \in todo : s \in InFile(f) /\ snap[s] # 0
  BY DEF filterSymbols, OfFile
<1>2. ASSUME NEW s \in InFile(f)
      PROVE  IF snap[s] = 0 THEN AbsentSince(n, s)
             ELSE snap[s] >= hist[n][s] /\ (s \in todo \/ IndexedSince(n, s))
  <2>1. s \in Syms /\ snap[s] = (IF Live(tree[s]) THEN tree[s] ELSE 0)
    BY DEF InFile, OfFile, Parsed
  <2>2. Live(tree[s]) => tree[s] # 0
    BY BoundsAssumption DEF Live
  <2>3. /\ hist[n][s] \in Nat /\ tree[s] \in Nat /\ hist[n][s] <= tree[s]
        /\ ~Live(tree[s]) => AbsentSince(n, s)
    BY <2>1, CommitVersions
  <2>4. snap[s] # 0 /\ s \notin todo => rows[s].ver = snap[s] /\ rows[s] # NoRow
    BY <2>1 DEF filterSymbols, OfFile, GetHashes, NoRow
  <2>5. QED
    BY <2>1, <2>2, <2>3, <2>4 DEF IndexedSince
<1>3. QED
  BY <1>1, <1>2

\* A pass through its own steps.  Every file is read (MaxUnread = 0).
LEMMA OwnPass ==
  ASSUME TypeOK, MaxUnread = 0, VersionsGrow, CoverInv, NEW p \in Procs,
         IncrementalSync(p), pc[p] \in PassSteps => Pass(p), pc'[p] \in PassSteps
  PROVE  Pass(p)'
<1> DEFINE n == loc[p].cur
<1>0. p \in DOMAIN pc /\ p \in DOMAIN loc /\ loc[p] \in Local /\ UNCHANGED <<tree, hist>>
  BY StepKeepsRepo DEF TypeOK, Step
<1>1. Len(hist) \in Nat /\ n \in Nat /\ state.sha \in Nat
  BY DEF TypeOK, Local, State
<1>2. ASSUME Return(p) \/ Fail(p)  PROVE FALSE
  BY <1>0, <1>2 DEF Return, Fail, Goto, PassSteps, DiffSteps
<1>3. CASE SyncStart(p)
  <2>1. loc' = [loc EXCEPT ![p].cur = repoMainBranchSHA,
                           ![p].periodic = @ \/ pc[p] = "idle"]
        /\ Goto(p, IF repoMainBranchSHA = 0 THEN "claim" ELSE "sync_lookup")
        /\ UNCHANGED db
    BY <1>3 DEF SyncStart
  <2>2. pc'[p] = "sync_lookup" /\ loc'[p].cur = Len(hist) /\ Len(hist) # 0
    BY <1>0, <2>1 DEF Goto, PassSteps, DiffSteps, repoMainBranchSHA, Local
  <2>3. state'.sha <= Len(hist)
    BY <2>1 DEF CoverInv, db
  <2>4. QED
    BY <1>0, <1>1, <2>2, <2>3 DEF Pass, DiffSteps, FileSteps
<1>4. CASE SyncGiveUp(p) \/ SyncTruncated(p) \/ SyncCommit(p)
  BY <1>2, <1>4 DEF SyncGiveUp, SyncTruncated, SyncCommit
<1>5. CASE SyncCount(p)
  BY <1>0, <1>2, <1>5 DEF SyncCount, Goto, PassSteps, DiffSteps
<1>6. CASE SyncLookup(p)
  <2>1. Pass(p) /\ n \in 1 .. Len(hist) /\ state.sha <= n
    BY <1>6 DEF SyncLookup, PassSteps, Pass
  <2>2. CASE state.sha = n /\ Goto(p, "sync_count") /\ UNCHANGED <<loc, state>>
    <3>1. pc'[p] = "sync_count"
      BY <1>0, <2>2 DEF Goto
    <3>2. QED
      BY <1>0, <2>1, <2>2, <3>1 DEF Pass, DiffSteps, FileSteps
  <2>3. CASE /\ StateExists /\ Goto(p, "sync_next") /\ UNCHANGED db
             /\ loc' = [loc EXCEPT ![p].files = gitDiffNames(state.sha, n)]
    <3>1. /\ pc'[p] = "sync_next" /\ loc'[p].cur = n
          /\ loc'[p].files = gitDiffNames(state.sha, n)
      BY <1>0, <2>3 DEF Goto, Local
    <3>2. \A s \in Syms : AbsentSince(n, s) \/ IndexedSince(n, s)
                          \/ FileOf[s] \in loc'[p].files
      BY <2>1, <2>3, <3>1, DiffFound
    <3>3. QED
      BY <1>0, <2>1, <2>3, <3>1, <3>2
         DEF Pass, FileSteps, Unfinished, AbsentSince, IndexedSince, StateExists, db
  <2>4. QED
    BY <1>0, <1>6, <2>2, <2>3
       DEF SyncLookup, Goto, PassSteps, DiffSteps, db
<1>7. CASE SyncNoFiles(p)
  <2>1. /\ pc[p] = "sync_next" /\ pc'[p] = "sync_commit" /\ loc[p].files = {}
        /\ UNCHANGED <<loc, db>>
    BY <1>0, <1>7 DEF SyncNoFiles, Goto
  <2>2. Pass(p)
    BY <2>1 DEF PassSteps, DiffSteps
  <2>3. QED
    BY <1>0, <2>1, <2>2
       DEF Pass, DiffSteps, FileSteps, Unfinished, AbsentSince, IndexedSince,
           StateExists, db
<1>8. ASSUME NEW f \in Files, IndexFileRead(p, f)  PROVE Pass(p)'
  <2>1. Pass(p) /\ pc[p] = "sync_next" /\ n \in 1 .. Len(hist) /\ state.sha <= n
        /\ StateExists /\ UNCHANGED db /\ Unfinished(p) = loc[p].files
    BY <1>8
       DEF IndexFileRead, PassSteps, DiffSteps, Pass, Unfinished, FileSteps
  <2>2. CASE /\ loc' = [loc EXCEPT ![p].files = @ \ {f}, ![p].err = TRUE]
             /\ Goto(p, IF loc[p].files = {f} THEN "sync_commit" ELSE "sync_next")
    <3>1. /\ loc'[p].cur = n /\ loc'[p].err = TRUE /\ loc'[p].files = loc[p].files \ {f}
          /\ pc'[p] \in {"sync_commit", "sync_next"}
          /\ pc'[p] = "sync_commit" => loc'[p].files = {}
      BY <1>0, <2>2 DEF Goto, Local
    <3>2. QED
      BY <1>0, <2>1, <3>1 DEF Pass, FileSteps, DiffSteps, StateExists, db
  <2>3. ASSUME NEW U \in SUBSET {f}, WalksWithout(U), Goto(p, "file_evict"),
               loc' = [loc EXCEPT ![p].file = f,
                                  ![p].files = @ \ {f},
                                  ![p].snap = OfFile(f, Parsed(U)),
                                  ![p].had = OfFile(f, GetHashes),
                                  ![p].todo = filterSymbols(OfFile(f, Parsed(U)),
                                                            OfFile(f, GetHashes))]
        PROVE  Pass(p)'
    <3>1. U = {}
      BY <2>3, MaxUnread = 0 DEF WalksWithout, TypeOK
    <3>2. /\ loc'[p].cur = n /\ loc'[p].err = loc[p].err /\ loc'[p].file = f
          /\ loc'[p].files = loc[p].files \ {f}
          /\ loc'[p].snap = OfFile(f, Parsed({}))
          /\ loc'[p].todo = filterSymbols(OfFile(f, Parsed({})), OfFile(f, GetHashes))
      BY <1>0, <2>3, <3>1 DEF Local
    <3>3. pc'[p] = "file_evict"
      BY <1>0, <2>3 DEF Goto
    <3>4. /\ \A s \in loc'[p].todo : s \in InFile(f) /\ loc'[p].snap[s] # 0
          /\ \A s \in InFile(f) :
               IF loc'[p].snap[s] = 0 THEN AbsentSince(n, s)
               ELSE /\ loc'[p].snap[s] >= hist[n][s]
                    /\ s \in loc'[p].todo \/ IndexedSince(n, s)
      BY <2>1, <3>2, FileIsRead
    <3>5. FileRead(p)'
      BY <1>0, <2>1, <3>2, <3>4 DEF FileRead, AbsentSince, IndexedSince, InFile, db
    <3>6. loc[p].files \subseteq Unfinished(p)'
      BY <3>2, <3>3 DEF Unfinished, FileSteps
    <3>7. ~loc'[p].err => \A s \in Syms : AbsentSince(n, s) \/ IndexedSince(n, s)
                                          \/ FileOf[s] \in Unfinished(p)'
      BY <2>1, <3>2, <3>6 DEF Pass, DiffSteps
    <3>8. QED
      BY <1>0, <2>1, <3>2, <3>3, <3>5, <3>7
         DEF Pass, DiffSteps, AbsentSince, IndexedSince, StateExists, db
  <2>4. QED
    BY <1>8, <2>2, <2>3 DEF IndexFileRead
<1>9. CASE FileEvict(p) \/ FileEmbed(p)
  <2>1. /\ Pass(p) /\ FileRead(p) /\ n \in 1 .. Len(hist) /\ state.sha <= n /\ StateExists
        /\ pc[p] \in FileSteps /\ pc[p] \in DiffSteps
    BY <1>9 DEF FileEvict, FileEmbed, PassSteps, DiffSteps, FileSteps, Pass
  <2>2. UNCHANGED state /\ (StateExists' <=> StateExists)
    BY <1>9 DEF FileEvict, FileEmbed, StateExists
  <2>3. loc'[p].cur = n /\ loc'[p].files = loc[p].files /\ loc'[p].file = loc[p].file
        /\ loc'[p].snap = loc[p].snap /\ loc'[p].todo = loc[p].todo
    BY <1>0, <1>9 DEF FileEvict, FileEmbed, Local
  <2>4. loc'[p].err \/ (Works /\ loc'[p].err = loc[p].err)
    BY <1>0, <1>9 DEF FileEvict, FileEmbed, Local
  <2>5. pc'[p] \in {"file_embed", "sync_commit", "sync_next"}
        /\ (pc'[p] = "sync_commit" => loc'[p].files = {})
    BY <1>0, <1>9, <2>3 DEF FileEvict, FileEmbed, Goto, AfterFile
  <2>6. \A s \in Syms : rows'[s] # rows[s] =>
          \/ AbsentSince(n, s)
          \/ rows'[s] # NoRow /\ rows'[s].ver = loc[p].snap[s]
             /\ loc[p].snap[s] >= hist[n][s]
    BY <1>9, <2>1, FileWrites
  <2>7. \A s \in Syms : AbsentSince(n, s) \/ IndexedSince(n, s) =>
          AbsentSince(n, s) \/ (rows'[s] # NoRow /\ rows'[s].ver >= hist[n][s])
    BY <2>6 DEF IndexedSince
  <2>8. CASE pc'[p] = "file_embed"
    <3>1. FileEvict(p) /\ loc[p].todo # {}
      BY <1>0, <1>9, <2>8 DEF FileEvict, FileEmbed, Goto, AfterFile
    <3>2. \A s \in Syms : loc[p].snap[s] # 0 => rows'[s] = rows[s]
      BY <3>1 DEF FileEvict, Without
    <3>3. \A s \in InFile(loc[p].file) :
            IF loc[p].snap[s] = 0 THEN AbsentSince(n, s)
            ELSE /\ loc[p].snap[s] >= hist[n][s]
                 /\ s \in loc[p].todo \/ (rows'[s] # NoRow /\ rows'[s].ver >= hist[n][s])
      BY <2>1, <3>2 DEF FileRead, IndexedSince, InFile
    <3>4. FileRead(p)'
      BY <1>0, <2>1, <2>3, <3>3 DEF FileRead, AbsentSince, IndexedSince, InFile
    <3>5. Unfinished(p)' = Unfinished(p)
      BY <2>1, <2>3, <2>8 DEF Unfinished, FileSteps
    <3>6. ~loc'[p].err => \A s \in Syms :
            AbsentSince(n, s) \/ (rows'[s] # NoRow /\ rows'[s].ver >= hist[n][s])
            \/ FileOf[s] \in Unfinished(p)'
      BY <2>1, <2>4, <2>7, <3>5 DEF Pass
    <3>7. QED
      BY <1>0, <2>1, <2>2, <2>3, <2>8, <3>4, <3>6
         DEF Pass, DiffSteps, AbsentSince, IndexedSince
  <2>9. CASE pc'[p] \in {"sync_commit", "sync_next"}
    <3>1. Unfinished(p)' = loc[p].files /\ Unfinished(p) = loc[p].files \cup {loc[p].file}
      BY <2>1, <2>3, <2>9 DEF Unfinished, FileSteps
    <3>2. ASSUME ~loc'[p].err, NEW s \in InFile(loc[p].file)
          PROVE  AbsentSince(n, s) \/ (rows'[s] # NoRow /\ rows'[s].ver >= hist[n][s])
      <4>1. s \in Syms
        BY DEF InFile
      <4>2. IF loc[p].snap[s] = 0 THEN AbsentSince(n, s)
            ELSE /\ loc[p].snap[s] >= hist[n][s]
                 /\ s \in loc[p].todo \/ IndexedSince(n, s)
        BY <2>1, <3>2 DEF FileRead
      <4>3. CASE AbsentSince(n, s) \/ IndexedSince(n, s)
        BY <2>7, <4>1, <4>3
      <4>4. CASE s \in loc[p].todo /\ loc[p].snap[s] # 0 /\ loc[p].snap[s] >= hist[n][s]
        <5>1. CASE FileEvict(p)
          BY <1>0, <2>9, <3>2, <4>4, <5>1 DEF FileEvict, Goto, Local
        <5>2. CASE FileEmbed(p)
          <6>1. rows' = Upserted(rows, loc[p].todo, loc[p].snap)
            BY <1>0, <3>2, <5>2 DEF FileEmbed, Local
          <6>2. QED
            BY <4>1, <4>4, <6>1 DEF Upserted, NoRow
        <5>3. QED
          BY <1>9, <5>1, <5>2
      <4>5. QED
        BY <4>2, <4>3, <4>4
    <3>3. ~loc'[p].err => \A s \in Syms :
            AbsentSince(n, s) \/ (rows'[s] # NoRow /\ rows'[s].ver >= hist[n][s])
            \/ FileOf[s] \in Unfinished(p)'
      <4>1. ASSUME ~loc'[p].err, NEW s \in Syms, FileOf[s] \notin Unfinished(p)'
            PROVE  AbsentSince(n, s) \/ (rows'[s] # NoRow /\ rows'[s].ver >= hist[n][s])
        <5>1. CASE FileOf[s] = loc[p].file
          BY <3>2, <4>1, <5>1 DEF InFile
        <5>2. CASE FileOf[s] # loc[p].file
          BY <2>1, <2>4, <2>7, <3>1, <4>1, <5>2 DEF Pass
        <5>3. QED
          BY <5>1, <5>2
      <4>2. QED
        BY <4>1
    <3>4. QED
      BY <1>0, <2>1, <2>2, <2>3, <2>5, <2>9, <3>3
         DEF Pass, DiffSteps, FileSteps, AbsentSince, IndexedSince
  <2>10. QED
    BY <2>5, <2>8, <2>9
<1>10. QED
  BY <1>3, <1>4, <1>5, <1>6, <1>7, <1>8, <1>9 DEF IncrementalSync

\* Only the loop works on the key: it is the one process, and what its full indexes and
\* its passes rely on holds together.
LEMMA LoopInvariant ==
  ASSUME NEW a, AutoLoop = {a}, Lazy = {}, Sweep = {}, MaxUnread = 0,
         NEW m, Models = {m}
  PROVE  Spec => [](RunInv /\ CoverInv /\ PassInv)
<1> DEFINE Inv == TypeOK /\ FirstIndexInv /\ VersionsGrow /\ OneModel
           Rely == RunInv /\ CoverInv /\ PassInv
<1>1. Init => Rely
  <2>1. Init => PassInv
    BY DEF Init, PassInv, PassSteps, DiffSteps
  <2>2. QED
    BY <2>1, InitRun
<1>2. Inv /\ Rely /\ [Next]_vars => Rely'
  <2> SUFFICES ASSUME Inv, Rely, [Next]_vars  PROVE Rely'
    OBVIOUS
  <2>1. CASE Environment
    <3>1. PassInv'
      <4>1. CASE UNCHANGED vars
        BY <4>1
           DEF vars, PassInv, Pass, FileRead, Unfinished, AbsentSince, IndexedSince,
               StateExists
      <4>2. CASE (\E s \in Syms : Edit(s)) \/ Commit
        BY <4>2, RepoPass, RepoMovesOn DEF PassInv
      <4>3. CASE Restart
        BY <4>3 DEF Restart, PassInv, PassSteps, DiffSteps
      <4>4. QED
        BY <2>1, <4>1, <4>2, <4>3 DEF Environment
    <3>2. QED
      BY <2>1, <3>1, EnvironmentRun
  <2>2. ASSUME NEW p \in Procs, Step(p)  PROVE Rely'
    <3>1. Procs = {p}
      BY DEF Procs
    <3>2. /\ FirstIndex(p) /\ EmbedsParsed(p) /\ RowsHaveBodies
          /\ pc[p] \in FullSteps => Run(p)
          /\ pc[p] \in PassSteps => Pass(p)
          /\ state.sha <= Len(hist)
      BY DEF FirstIndexInv, RunInv, PassInv, CoverInv
    <3>3. CASE IncrementalSync(p)
      <4>1. CoverInv' /\ pc'[p] \notin FullSteps
        BY <3>2, <3>3, SyncCovers, SyncOutsideIndex
      <4>2. pc'[p] \in PassSteps => Pass(p)'
        BY <3>2, <3>3, OwnPass
      <4>3. QED
        BY <3>1, <4>1, <4>2 DEF RunInv, PassInv, Procs
    <3>4. CASE ~IncrementalSync(p)
      <4>1. CoverInv'
        BY <2>2, <3>2, <3>4, StepCovers
      <4>2. pc'[p] \in FullSteps => Run(p)'
        BY <2>2, <3>2, <3>4, OwnRun
      <4>3. pc'[p] \notin PassSteps
        BY <2>2, <3>4, OnlySyncPasses
      <4>4. QED
        BY <3>1, <4>1, <4>2, <4>3 DEF RunInv, PassInv, Procs
    <3>5. QED
      BY <3>3, <3>4
  <2>3. QED
    BY <2>1, <2>2 DEF Next, Environment
<1>3. QED
  BY <1>1, <1>2, TypeCorrect, LoopFirstInvariant, VersionsOnlyGrow, ModelStays, PTL
     DEF Spec

\* The autoindex loop alone, through its passes and their full indexes: the recorded
\* commit advances only when no file failed, with one model and readable files.
THEOREM LoopCommitIsCovered ==
  ASSUME NEW a, AutoLoop = {a}, Lazy = {}, Sweep = {}, MaxUnread = 0,
         NEW m, Models = {m}
  PROVE  Spec => []RecordedCommitCovered
<1>1. CoverInv => RecordedCommitCovered
  BY DEF CoverInv
<1>2. QED
  BY <1>1, LoopInvariant, PTL

=============================================================================
