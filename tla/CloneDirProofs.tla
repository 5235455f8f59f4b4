--------------------------- MODULE CloneDirProofs ---------------------------
(***************************************************************************)
(* What holds of CloneDir for every set of callers and every bound.        *)
(***************************************************************************)
EXTENDS CloneDir, FiniteSetTheorems, TLAPS

Readers == {c \in Callers : pc[c] = "use"}

\* The count is the number of readers; the cold clones form one flight and nobody
\* waits without it; only a volume without RENAME_EXCHANGE swaps in two renames.
Counted == counts = Cardinality(Readers)
OneCold == \A c, d \in Callers : cold[c] # "none" /\ cold[d] # "none" => c = d
WaitersFly == \A c \in Callers : pc[c] = "wait" => Flying
PlainSwap == \A c \in Callers : pc[c] \in {"aside", "replace"} => fs = "plain"
Inv == TypeOK /\ Counted /\ NoTmpLeak /\ OneCold /\ WaitersFly /\ PlainSwap

\* The steps of a caller other than taking and dropping a reference.
Quiet(c) ==
  \/ Stat(c) \/ GiveUp(c) \/ CloneRepo(c) \/ Cold(c) \/ EmptyTrash(c)
  \/ CleanupCloneDir(c) \/ CleanupEnds(c)

USE CloneAssumption

-----------------------------------------------------------------------------

LEMMA ReadersFinite ==
  /\ IsFiniteSet(Readers)
  /\ Cardinality(Readers) \in 0 .. Cardinality(Callers)
BY FS_Subset, FS_CardinalityType DEF Readers

LEMMA InitInv == Init => Inv
<1>. SUFFICES ASSUME Init PROVE Inv
  OBVIOUS
<1>1. Readers = {}
  BY DEF Init, Readers
<1>2. Counted
  BY <1>1, FS_EmptySet DEF Init, Counted
<1>. QED
  BY <1>2, FS_CardinalityType DEF Init, Inv, TypeOK, NoTmpLeak, OneCold, WaitersFly, PlainSwap,
     Flying, Trees, Steps, RecloneSteps

\* A step with a fresh clone keeps the sibling and the step together.
LEMMA QuietTypes == ASSUME Inv, NEW c \in Callers, Quiet(c) PROVE TypeOK'
<1>. USE DEF Inv, TypeOK, Trees, Steps, RecloneSteps, disk, bounds, Goto, Works, Fault
<1>1. CASE Stat(c) \/ GiveUp(c) \/ Receive(c) \/ EmptyTrash(c) \/ CleanupCloneDir(c) \/ CleanupEnds(c)
  BY <1>1 DEF Stat, GiveUp, Receive, EmptyTrash, CleanupCloneDir, CleanupEnds
<1>2. CASE JoinFlight(c)  BY <1>2 DEF JoinFlight
<1>3. CASE ColdStart(c)   BY <1>3 DEF ColdStart, Answer
<1>4. CASE ColdFail(c)    BY <1>4 DEF ColdFail, Answer
<1>5. CASE ColdOk(c)      BY <1>5 DEF ColdOk, Answer
<1>6. CASE Refresh(c)
  BY <1>6 DEF Refresh, Fetch, Reset, ResetEnds, BeginReclone, RecloneOk, RecloneFail, Abandon
<1>7. CASE SwapStat(c) \/ RenameOk(c) \/ SwapFail(c)
  BY <1>7 DEF SwapStat, SwapKind, RenameOk, InPlace, SwapFail, Abandon
<1>8. CASE ExchangeOk(c)  BY <1>8 DEF ExchangeOk, Exchange, InPlace
<1>9. CASE Aside(c)       BY <1>9 DEF Aside
<1>10. CASE ReplaceOk(c)  BY <1>10 DEF ReplaceOk, InPlace
<1>11. CASE ReplaceFail(c) BY <1>11 DEF ReplaceFail, Abandon
<1>. QED
  BY <1>1, <1>2, <1>3, <1>4, <1>5, <1>6, <1>7, <1>8, <1>9, <1>10, <1>11
  DEF Quiet, CloneRepo, Cold, Swap

LEMMA QuietTmp == ASSUME Inv, NEW c \in Callers, Quiet(c) PROVE NoTmpLeak'
<1>. USE DEF Inv, TypeOK, NoTmpLeak, Steps, RecloneSteps, disk, bounds, Goto, Works, Fault
<1>1. CASE Stat(c) \/ GiveUp(c) \/ Receive(c) \/ EmptyTrash(c) \/ CleanupCloneDir(c) \/ CleanupEnds(c)
  BY <1>1 DEF Stat, GiveUp, Receive, EmptyTrash, CleanupCloneDir, CleanupEnds
<1>2. CASE JoinFlight(c)  BY <1>2 DEF JoinFlight
<1>3. CASE ColdStart(c)   BY <1>3 DEF ColdStart, Answer
<1>4. CASE ColdFail(c)    BY <1>4 DEF ColdFail, Answer
<1>5. CASE ColdOk(c)      BY <1>5 DEF ColdOk, Answer
<1>6. CASE Refresh(c)
  BY <1>6 DEF Refresh, Fetch, Reset, ResetEnds, BeginReclone, RecloneOk, RecloneFail, Abandon
<1>7. CASE SwapStat(c) \/ RenameOk(c) \/ SwapFail(c)
  BY <1>7 DEF SwapStat, SwapKind, RenameOk, InPlace, SwapFail, Abandon
<1>8. CASE ExchangeOk(c)  BY <1>8 DEF ExchangeOk, Exchange, InPlace
<1>9. CASE Aside(c)       BY <1>9 DEF Aside
<1>10. CASE ReplaceOk(c)  BY <1>10 DEF ReplaceOk, InPlace
<1>11. CASE ReplaceFail(c) BY <1>11 DEF ReplaceFail, Abandon
<1>. QED
  BY <1>1, <1>2, <1>3, <1>4, <1>5, <1>6, <1>7, <1>8, <1>9, <1>10, <1>11
  DEF Quiet, CloneRepo, Cold, Swap

\* What a quiet step leaves alone, and what it does to the flight.
LEMMA QuietFrame ==
  ASSUME Inv, NEW c \in Callers, Quiet(c)
  PROVE  counts' = counts /\ Readers' = Readers /\ fs' = fs /\ crashes' = crashes
<1>. USE DEF Inv, TypeOK, Steps, RecloneSteps, disk, bounds, Goto, Works, Fault, Readers
<1>1. CASE Stat(c) \/ GiveUp(c) \/ Receive(c) \/ EmptyTrash(c) \/ CleanupCloneDir(c) \/ CleanupEnds(c)
  BY <1>1 DEF Stat, GiveUp, Receive, EmptyTrash, CleanupCloneDir, CleanupEnds
<1>2. CASE JoinFlight(c) \/ Cold(c)
  BY <1>2 DEF JoinFlight, Cold, ColdStart, ColdFail, ColdOk, Answer
<1>3. CASE Refresh(c)
  BY <1>3 DEF Refresh, Fetch, Reset, ResetEnds, BeginReclone, RecloneOk, RecloneFail, Abandon
<1>4. CASE Swap(c)
  BY <1>4 DEF Swap, SwapStat, SwapKind, RenameOk, InPlace, SwapFail, Abandon, ExchangeOk, Exchange,
     Aside, ReplaceOk, ReplaceFail
<1>. QED BY <1>1, <1>2, <1>3, <1>4 DEF Quiet, CloneRepo

LEMMA QuietFlight ==
  ASSUME Inv, NEW c \in Callers, Quiet(c)
  PROVE  OneCold' /\ WaitersFly' /\ PlainSwap'
<1>. USE DEF Inv, TypeOK, OneCold, WaitersFly, PlainSwap, Flying, Steps, RecloneSteps, disk, bounds,
     Goto, Works, Fault
<1>1. CASE Stat(c) \/ GiveUp(c) \/ Receive(c) \/ EmptyTrash(c) \/ CleanupCloneDir(c) \/ CleanupEnds(c)
  BY <1>1 DEF Stat, GiveUp, Receive, EmptyTrash, CleanupCloneDir, CleanupEnds
<1>2. CASE JoinFlight(c)
  <2>1. CASE Flying     BY <1>2, <2>1 DEF JoinFlight
  <2>2. CASE ~Flying    BY <1>2, <2>2 DEF JoinFlight
  <2>. QED BY <2>1, <2>2
<1>3. CASE Cold(c)
  <2>1. CASE cold' = [cold EXCEPT ![c] = "writing"] /\ pc' = pc
    BY <1>3, <2>1 DEF Cold, ColdStart, ColdFail, ColdOk, Answer
  <2>2. CASE \E r \in {"ok", "err"} : Answer(c, r)
    BY <1>3, <2>2 DEF Cold, ColdStart, ColdFail, ColdOk, Answer
  <2>. QED BY <1>3, <2>1, <2>2 DEF Cold, ColdStart, ColdFail, ColdOk
<1>4. CASE Refresh(c)
  BY <1>4 DEF Refresh, Fetch, Reset, ResetEnds, BeginReclone, RecloneOk, RecloneFail, Abandon
<1>5. CASE Swap(c)
  BY <1>5 DEF Swap, SwapStat, SwapKind, RenameOk, InPlace, SwapFail, Abandon, ExchangeOk, Exchange,
     Aside, ReplaceOk, ReplaceFail
<1>. QED BY <1>1, <1>2, <1>3, <1>4, <1>5 DEF Quiet, CloneRepo

LEMMA QuietInv == ASSUME Inv, NEW c \in Callers, Quiet(c) PROVE Inv'
<1>1. Counted'
  BY QuietFrame DEF Inv, Counted
<1>. QED BY <1>1, QuietTypes, QuietTmp, QuietFlight DEF Inv

\* The reference count.
LEMMA AcquireInv == ASSUME Inv, NEW c \in Callers, AcquireCloneRef(c) PROVE Inv'
<1>. USE DEF AcquireCloneRef, Goto, disk, bounds, Inv
<1>1. Readers' = Readers \cup {c} /\ c \notin Readers
  BY DEF Readers, TypeOK
<1>2. Counted'
  BY <1>1, ReadersFinite, FS_AddElement DEF Counted
<1>3. counts' \in 0 .. Cardinality(Callers)
  <2>1. Readers' \subseteq Callers
    BY DEF Readers
  <2>2. Cardinality(Readers') <= Cardinality(Callers) /\ IsFiniteSet(Readers')
    BY <2>1, FS_Subset
  <2>3. Cardinality(Readers') \in Nat /\ Cardinality(Callers) \in Nat
    BY <2>2, FS_CardinalityType
  <2>. QED BY <1>2, <2>2, <2>3 DEF Counted
<1>4. TypeOK' /\ NoTmpLeak' /\ OneCold' /\ WaitersFly' /\ PlainSwap'
  BY <1>3 DEF TypeOK, NoTmpLeak, OneCold, WaitersFly, PlainSwap, Flying, Steps, RecloneSteps
<1>. QED BY <1>2, <1>4

LEMMA ReleaseReaders ==
  ASSUME Inv, NEW c \in Callers, ReleaseCloneRef(c)
  PROVE  /\ Readers' = Readers \ {c}
         /\ counts > 0 /\ counts' = counts - 1
         /\ counts = 1 <=> \A d \in Callers \ {c} : pc[d] # "use"
         /\ pc' = [pc EXCEPT ![c] = IF counts = 1 THEN "remove" ELSE "idle"]
<1>. USE DEF ReleaseCloneRef, Inv
<1>1. c \in Readers /\ IsFiniteSet(Readers)
  BY ReadersFinite DEF Readers
<1>2. Cardinality(Readers \ {c}) = counts - 1 /\ counts \in Nat /\ IsFiniteSet(Readers \ {c})
  BY <1>1, FS_RemoveElement, ReadersFinite DEF Counted
<1>3. Cardinality(Readers \ {c}) \in Nat
  BY <1>2, FS_CardinalityType
<1>4. counts > 0
  BY <1>2, <1>3
<1>5. counts = 1 <=> Readers \ {c} = {}
  BY <1>2, FS_EmptySet
<1>6. pc' = [pc EXCEPT ![c] = IF counts = 1 THEN "remove" ELSE "idle"] /\ counts' = counts - 1
  BY <1>2, <1>4 DEF Dropped, Goto
<1>7. Readers' = Readers \ {c}
  BY <1>6 DEF Readers, TypeOK
<1>. QED BY <1>4, <1>5, <1>6, <1>7 DEF Readers

LEMMA ReleaseInv == ASSUME Inv, NEW c \in Callers, ReleaseCloneRef(c) PROVE Inv'
<1>. USE DEF Inv
<1>1. Counted'
  <2>1. c \in Readers /\ IsFiniteSet(Readers)
    BY ReadersFinite DEF Readers, ReleaseCloneRef
  <2>2. Cardinality(Readers \ {c}) = Cardinality(Readers) - 1
    BY <2>1, FS_RemoveElement
  <2>. QED BY <2>2, ReleaseReaders DEF Counted
<1>2. counts' \in 0 .. Cardinality(Callers)
  BY ReleaseReaders, FS_CardinalityType DEF TypeOK
<1>3. TypeOK' /\ NoTmpLeak' /\ OneCold' /\ WaitersFly' /\ PlainSwap'
  BY <1>2, ReleaseReaders
  DEF TypeOK, NoTmpLeak, OneCold, WaitersFly, PlainSwap, Flying, Steps, RecloneSteps,
      ReleaseCloneRef, disk, bounds
<1>. QED BY <1>1, <1>3

LEMMA RestartInv == ASSUME Inv, Restart PROVE Inv'
<1>1. Readers' = {}
  BY DEF Readers, Restart
<1>2. Counted'
  BY <1>1, FS_EmptySet DEF Counted, Restart
<1>. QED
  BY <1>2, FS_CardinalityType DEF Restart, Inv, TypeOK, NoTmpLeak, OneCold, WaitersFly, PlainSwap,
     Flying, Steps, RecloneSteps

LEMMA StepKinds ==
  Next => Restart \/ \E c \in Callers : Quiet(c) \/ AcquireCloneRef(c) \/ ReleaseCloneRef(c)
BY DEF Next, Quiet, Use

LEMMA NextInv == Inv /\ [Next]_vars => Inv'
<1>1. Inv /\ UNCHANGED vars => Inv'
  BY DEF vars, Inv, TypeOK, Counted, Readers, NoTmpLeak, OneCold, WaitersFly, PlainSwap, Flying
<1>. QED BY <1>1, StepKinds, QuietInv, AcquireInv, ReleaseInv, RestartInv

THEOREM SpecInv == Spec => []Inv
BY InitInv, NextInv, PTL DEF Spec

-----------------------------------------------------------------------------

\* Types; the count of readers never exceeds the callers.
THEOREM TypeCorrect == Spec => []TypeOK
BY SpecInv, PTL DEF Inv

\* No error path of the refresh leaves its fresh clone behind.
THEOREM SiblingsAreCleaned == Spec => []NoTmpLeak
BY SpecInv, PTL DEF Inv

\* The release that leaves no reader deletes the clone, and no other one does.
THEOREM DeletedByLastReader == Spec => LastReleaseDeletes
<1>1. Inv /\ [Next]_vars =>
        [\A c \in Callers : pc[c] = "use" /\ pc'[c] # "use" /\ crashes' = crashes =>
           (pc'[c] = "remove" <=> \A d \in Callers \ {c} : pc[d] # "use")]_vars
  <2>. SUFFICES ASSUME Inv, [Next]_vars, NEW c \in Callers, pc[c] = "use", pc'[c] # "use",
                       crashes' = crashes
                PROVE  pc'[c] = "remove" <=> \A d \in Callers \ {c} : pc[d] # "use"
    OBVIOUS
  <2>1. ~Restart /\ ~UNCHANGED vars
    BY DEF Restart, vars, Inv, TypeOK
  <2>2. ASSUME NEW d \in Callers, Quiet(d) PROVE FALSE
    <3>1. Readers' = Readers
      BY <2>2, QuietFrame
    <3>. QED BY <3>1 DEF Readers
  <2>3. PICK d \in Callers : AcquireCloneRef(d) \/ ReleaseCloneRef(d)
    BY <2>1, <2>2, StepKinds
  <2>4. d = c /\ ReleaseCloneRef(c)
    BY <2>3 DEF AcquireCloneRef, ReleaseCloneRef, Dropped, Goto, Inv, TypeOK
  <2>. QED BY <2>4, ReleaseReaders DEF Inv, TypeOK
<1>. QED BY <1>1, SpecInv, PTL DEF Spec, LastReleaseDeletes

\* With RENAME_EXCHANGE no step of a swap takes a whole tree from its readers.
THEOREM SwapIsSeamless == Spec => SwapKeepsWhole
<1>1. Inv /\ [Next]_vars =>
        [\A c \in Callers : pc[c] \in RecloneSteps /\ pc'[c] # pc[c] /\ fs = "exchange" =>
           (tree = "whole" => tree' = "whole")]_vars
  <2>. SUFFICES ASSUME Inv, [Next]_vars, NEW c \in Callers, pc[c] \in RecloneSteps,
                       pc'[c] # pc[c], fs = "exchange", tree = "whole"
                PROVE  tree' = "whole"
    OBVIOUS
  <2>. USE DEF RecloneSteps, Inv, TypeOK, Goto, disk
  <2>1. CASE Restart \/ UNCHANGED vars
    BY <2>1 DEF Restart, vars
  <2>2. CASE Swap(c) \/ RecloneOk(c) \/ RecloneFail(c)
    BY <2>2 DEF Swap, SwapStat, RenameOk, InPlace, SwapFail, Abandon, ExchangeOk, Exchange, Aside,
       ReplaceOk, ReplaceFail, RecloneOk, RecloneFail, PlainSwap
  <2>3. ASSUME NEW d \in Callers, Cold(d) PROVE FALSE
    BY <2>3 DEF Cold, ColdStart, ColdFail, ColdOk, Answer
  <2>4. ASSUME NEW d \in Callers, Use(d) \/ Stat(d) \/ GiveUp(d) \/ EmptyTrash(d) \/ JoinFlight(d)
                                    \/ Receive(d) PROVE FALSE
    BY <2>4 DEF Use, AcquireCloneRef, ReleaseCloneRef, Dropped, CleanupCloneDir, CleanupEnds, Stat,
       GiveUp, EmptyTrash, JoinFlight, Receive
  <2>5. ASSUME NEW d \in Callers, Refresh(d) \/ Swap(d)
        PROVE  Swap(c) \/ RecloneOk(c) \/ RecloneFail(c)
    <3>1. d = c
      BY <2>5 DEF Refresh, Fetch, Reset, ResetEnds, BeginReclone, RecloneOk, RecloneFail, Abandon,
         Swap, SwapStat, RenameOk, InPlace, SwapFail, ExchangeOk, Exchange, Aside, ReplaceOk, ReplaceFail
    <3>. QED BY <2>5, <3>1 DEF Refresh, Fetch, Reset, ResetEnds
  <2>. QED BY <2>1, <2>2, <2>3, <2>4, <2>5 DEF Next, CloneRepo
<1>. QED BY <1>1, SpecInv, PTL DEF Spec, SwapKeepsWhole

-----------------------------------------------------------------------------
(* The cold clones implement SingleFlight. *)

Calls == [c \in Callers |-> IF pc[c] \in {"wait", "ok", "err"} THEN pc[c] ELSE "out"]

LEMMA FlightInit == Init => Flight!Init
BY DEF Init, Flight!Init

\* A step that neither joins, ends nor leaves the flight does not show in it.
LEMMA OutOfFlight ==
  ASSUME Inv, NEW c \in Callers,
         Stat(c) \/ EmptyTrash(c) \/ Refresh(c) \/ Swap(c) \/ Use(c)
  PROVE  Calls' = Calls /\ cold' = cold
<1>. USE DEF Inv, TypeOK, Calls, Goto, disk, bounds, RecloneSteps
<1>1. CASE Stat(c) \/ EmptyTrash(c)
  BY <1>1 DEF Stat, EmptyTrash
<1>2. CASE Refresh(c)
  BY <1>2 DEF Refresh, Fetch, Reset, ResetEnds, BeginReclone, RecloneOk, RecloneFail, Abandon
<1>3. CASE Swap(c)
  BY <1>3 DEF Swap, SwapStat, SwapKind, RenameOk, InPlace, SwapFail, Abandon, ExchangeOk, Exchange,
     Aside, ReplaceOk, ReplaceFail
<1>4. CASE Use(c)
  BY <1>4 DEF Use, AcquireCloneRef, ReleaseCloneRef, Dropped, CleanupCloneDir, CleanupEnds
<1>. QED BY <1>1, <1>2, <1>3, <1>4

LEMMA FlightNext == Inv /\ [Next]_vars => [Flight!Next]_Flight!vars
<1>. SUFFICES ASSUME Inv, [Next]_vars PROVE [Flight!Next]_Flight!vars
  OBVIOUS
<1>1. CASE UNCHANGED vars
  BY <1>1 DEF vars, Flight!vars
<1>2. CASE Restart
  BY <1>2 DEF Restart, Flight!Next, Flight!Restart
<1>3. ASSUME NEW c \in Callers, Stat(c) \/ EmptyTrash(c) \/ Refresh(c) \/ Swap(c) \/ Use(c)
      PROVE  UNCHANGED Flight!vars
  BY <1>3, OutOfFlight DEF Calls, Flight!vars
<1>4. ASSUME NEW c \in Callers, JoinFlight(c) PROVE Flight!Next
  <2>1. Calls[c] = "out" /\ Calls' = [Calls EXCEPT ![c] = "wait"]
    BY <1>4 DEF JoinFlight, Goto, Calls, Inv, TypeOK
  <2>2. (\E d \in Callers : cold[d] # "none")'
    BY <1>4 DEF JoinFlight, Flying, Inv, TypeOK
  <2>. QED BY <2>1, <2>2 DEF Calls, Flight!Next, Flight!Join
<1>5. ASSUME NEW c \in Callers, GiveUp(c) \/ Receive(c) PROVE Flight!Next
  <2>1. Calls[c] # "out" /\ Calls' = [Calls EXCEPT ![c] = "out"] /\ cold' = cold
    BY <1>5 DEF GiveUp, Receive, Goto, Calls, Inv, TypeOK
  <2>. QED BY <2>1 DEF Calls, Flight!Next, Flight!Leave
<1>6. ASSUME NEW d \in Callers, Cold(d) PROVE [Flight!Next]_Flight!vars
  <2>1. cold[d] # "none"
    BY <1>6 DEF Cold, ColdStart, ColdFail, ColdOk
  <2>2. CASE cold' = [cold EXCEPT ![d] = "writing"] /\ pc' = pc
    <3>1. (\E e \in Callers : cold[e] # "none") /\ (\E e \in Callers : cold[e] # "none")'
      BY <2>1, <2>2 DEF Inv, TypeOK
    <3>. QED BY <2>2, <3>1 DEF Flight!vars
  <2>3. ASSUME NEW r \in {"ok", "err"}, Answer(d, r) PROVE Flight!Next
    <3>1. ~(\E e \in Callers : cold[e] # "none")'
      BY <2>1, <2>3 DEF Answer, Inv, TypeOK, OneCold
    <3>2. Calls' = [c \in Callers |-> IF Calls[c] = "wait" THEN r ELSE Calls[c]]
      BY <2>3 DEF Answer, Calls, Inv, TypeOK
    <3>. QED BY <2>1, <3>1, <3>2 DEF Calls, Flight!Next, Flight!Finish, Flight!Outcomes
  <2>. QED BY <1>6, <2>2, <2>3 DEF Cold, ColdStart, ColdFail, ColdOk
<1>. QED BY <1>1, <1>2, <1>3, <1>4, <1>5, <1>6 DEF Next, CloneRepo

\* The cold clones of one path never overlap, and every waiter gets the outcome of
\* the one it waits for.
THEOREM ColdCloneIsSingleFlight == Spec => ImplementsSingleFlight
BY FlightInit, FlightNext, SpecInv, PTL DEF Spec, ImplementsSingleFlight, Flight!Spec
=============================================================================
