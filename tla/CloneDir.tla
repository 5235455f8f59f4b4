------------------------------ MODULE CloneDir ------------------------------
(***************************************************************************)
(* The clone of ONE remote repository in the shared workspace directory    *)
(* (ingest/clone.go, clone_swap.go, cloneref.go) and the tool calls that   *)
(* use it (workspace.RemoteSource.Root): a cold clone shared through a     *)
(* singleflight, the refresh in place of a clone that exists, the fresh    *)
(* clone swapped in when the refresh fails, and the reader count whose     *)
(* last release deletes the directory.                                     *)
(*                                                                         *)
(* Of the directory only its completeness counts: absent, partial (being   *)
(* written or deleted, or left half way) or whole.                         *)
(***************************************************************************)
EXTENDS Naturals, FiniteSets

CONSTANTS
  Callers,      \* tool calls
  FileSystems,  \* kinds of volume: "exchange" has RENAME_EXCHANGE, "plain" not
  MaxFaults,    \* bound: failing git or file-system calls
  MaxCrashes    \* bound: server restarts

ASSUME CloneAssumption ==
  /\ IsFiniteSet(Callers) /\ MaxFaults \in Nat /\ MaxCrashes \in Nat
  /\ FileSystems \subseteq {"exchange", "plain"}

VARIABLES
  fs,       \* the kind of volume
  tree,     \* what localPath is
  cold,     \* the cold clone a caller has started: none, about to start, writing
  counts,   \* cloneRefs.counts[localPath]
  tmp,      \* callers whose .tmp sibling is on disk
  trash,    \* callers with directories that a goroutine is about to delete
  stale,    \* what a two-step swap has moved aside, per caller
  pc,       \* step of every caller
  faults, crashes   \* how much of the bounds is used

vars == <<fs, tree, cold, counts, tmp, trash, stale, pc, faults, crashes>>
disk == <<tree, tmp, trash, stale>>

bounds == <<faults, crashes>>

Trees == {"none", "partial", "whole"}
\* Steps with a fresh clone in a .tmp sibling.
RecloneSteps == {"reclone", "swap", "rename", "exchange", "aside", "replace"}
Steps == {"idle", "join", "wait", "ok", "err", "fetch", "reset", "resetting", "got",
          "use", "remove", "removing"} \cup RecloneSteps

Init ==
  /\ fs \in FileSystems
  /\ tree = "none" /\ cold = [c \in Callers |-> "none"] /\ counts = 0
  /\ tmp = {} /\ trash = {} /\ stale = [c \in Callers |-> "none"]
  /\ pc = [c \in Callers |-> "idle"]
  /\ faults = 0 /\ crashes = 0

Goto(c, step) == pc' = [pc EXCEPT ![c] = step]
Works == UNCHANGED bounds
Fault == faults < MaxFaults /\ faults' = faults + 1 /\ UNCHANGED crashes

-----------------------------------------------------------------------------
(* CloneRepo: look at the path, then refresh it or share a cold clone.     *)

Stat(c) ==
  /\ pc[c] = "idle"
  /\ Goto(c, IF tree = "none" THEN "join" ELSE "fetch")
  /\ UNCHANGED <<fs, disk, cold, counts, bounds>>

Mut_Flying == FALSE
Flying == \E d \in Callers : cold[d] # "none"
\* DoChan: a clone that is under way is joined, or one is started.
JoinFlight(c) ==
  /\ pc[c] = "join"
  /\ cold' = IF Flying THEN cold ELSE [cold EXCEPT ![c] = "start"]
  /\ Goto(c, "wait")
  /\ UNCHANGED <<fs, disk, counts, bounds>>

\* The caller's context ends first; the clone goes on for the others.
GiveUp(c) ==
  /\ pc[c] \in {"wait", "ok", "err"}
  /\ Goto(c, "idle")
  /\ UNCHANGED <<fs, disk, cold, counts, bounds>>
Receive(c) ==
  /\ pc[c] \in {"ok", "err"}
  /\ Goto(c, IF pc[c] = "ok" THEN "got" ELSE "idle")
  /\ UNCHANGED <<fs, disk, cold, counts, bounds>>

\* The clone d has started ends: r goes to everybody who waits.
Answer(d, r) ==
  /\ cold' = [cold EXCEPT ![d] = "none"]
  /\ pc' = [c \in Callers |-> IF pc[c] = "wait" THEN r ELSE pc[c]]

\* git clone makes the directory, or fails: at once, or because the path is there.
ColdStart(d) ==
  /\ cold[d] = "start"
  /\ \/ /\ Works /\ tree = "none" /\ tree' = "partial" /\ UNCHANGED pc
        /\ cold' = [cold EXCEPT ![d] = "writing"]
     \/ Works /\ tree # "none" /\ Answer(d, "err") /\ UNCHANGED tree
     \/ Fault /\ Answer(d, "err") /\ UNCHANGED tree
  /\ UNCHANGED <<fs, counts, tmp, trash, stale>>
\* A clone that fails, or whose directory is removed under it, cleans up what is at
\* the path, or is killed and leaves it.
ColdFail(d) ==
  /\ cold[d] = "writing"
  /\ Fault \/ (Works /\ tree = "none")
  /\ Answer(d, "err") /\ tree' \in {tree, "none"}
  /\ UNCHANGED <<fs, counts, tmp, trash, stale>>
ColdOk(d) ==
  /\ cold[d] = "writing" /\ tree # "none"
  /\ Answer(d, "ok") /\ tree' = "whole"
  /\ UNCHANGED <<fs, counts, tmp, trash, stale, bounds>>
Cold(d) == ColdStart(d) \/ ColdFail(d) \/ ColdOk(d)

-----------------------------------------------------------------------------
(* refreshClone, in place.                                                 *)

\* A refresh fails with git, or because the tree is not whole; any failure leads to
\* a fresh clone in a sibling directory.
BeginReclone(c) ==
  /\ Fault \/ (Works /\ tree # "whole")
  /\ Goto(c, "reclone") /\ tmp' = tmp \cup {c}

Fetch(c) ==
  /\ pc[c] = "fetch"
  /\ \/ Works /\ tree # "none" /\ Goto(c, "reset") /\ UNCHANGED tmp
     \/ BeginReclone(c)
  /\ UNCHANGED <<fs, tree, trash, stale, cold, counts>>
\* git reset --hard rewrites the files that differ, one by one.
Reset(c) ==
  /\ pc[c] = "reset"
  /\ \/ /\ Works /\ tree # "none" /\ tree' \in {tree, "partial"}
        /\ Goto(c, "resetting") /\ UNCHANGED tmp
     \/ BeginReclone(c) /\ UNCHANGED tree
  /\ UNCHANGED <<fs, trash, stale, cold, counts>>
ResetEnds(c) ==
  /\ pc[c] = "resetting"
  /\ \/ Works /\ tree # "none" /\ tree' = "whole" /\ Goto(c, "got") /\ UNCHANGED tmp
     \/ BeginReclone(c) /\ UNCHANGED tree
  /\ UNCHANGED <<fs, trash, stale, cold, counts>>

-----------------------------------------------------------------------------
(* atomicReclone and atomicDirectorySwap.                                  *)

Mut_Abandon(c) == Goto(c, "idle") /\ UNCHANGED tmp
\* Every error return removes the sibling.
Abandon(c) == Goto(c, "idle") /\ tmp' = tmp \ {c}
\* The sibling's tree is now the one at the path.
InPlace(c) == tree' = "whole" /\ tmp' = tmp \ {c} /\ Goto(c, "got")

RecloneOk(c) ==
  /\ pc[c] = "reclone"
  /\ Goto(c, "swap")
  /\ UNCHANGED <<fs, disk, cold, counts, bounds>>
RecloneFail(c) ==
  /\ pc[c] = "reclone"
  /\ Fault /\ Abandon(c)
  /\ UNCHANGED <<fs, tree, trash, stale, cold, counts>>

Mut_SwapKind == "rename"
SwapKind == IF tree = "none" THEN "rename" ELSE "exchange"
SwapStat(c) ==
  /\ pc[c] = "swap"
  /\ Goto(c, SwapKind)
  /\ UNCHANGED <<fs, disk, cold, counts, bounds>>

\* plainRename: rename(2) fails on a path that is there.
RenameOk(c) ==
  /\ pc[c] = "rename" /\ tree = "none"
  /\ InPlace(c)
  /\ UNCHANGED <<fs, trash, stale, cold, counts, bounds>>

Mut_Exchange(c) == Goto(c, "aside") /\ UNCHANGED disk
\* renameat2: exchange with what is there; nothing there (ENOENT) leads to the
\* plain rename, a volume without it (ENOSYS, EINVAL) to two renames.
Exchange(c) ==
  \/ /\ fs = "exchange" /\ tree # "none"
     /\ InPlace(c) /\ trash' = trash \cup {c} /\ UNCHANGED stale
  \/ fs = "exchange" /\ tree = "none" /\ Goto(c, "rename") /\ UNCHANGED disk
  \/ fs = "plain" /\ Goto(c, "aside") /\ UNCHANGED disk
ExchangeOk(c) ==
  /\ pc[c] = "exchange"
  /\ Exchange(c)
  /\ UNCHANGED <<fs, cold, counts, bounds>>

\* twoStepSwap: what is at the path goes aside, then the sibling takes its place.
Aside(c) ==
  /\ pc[c] = "aside"
  /\ stale' = [stale EXCEPT ![c] = tree] /\ tree' = "none"
  /\ Goto(c, "replace")
  /\ UNCHANGED <<fs, tmp, trash, cold, counts, bounds>>
ReplaceOk(c) ==
  /\ pc[c] = "replace" /\ tree = "none"
  /\ InPlace(c)
  /\ trash' = trash \cup {c} /\ stale' = [stale EXCEPT ![c] = "none"]
  /\ UNCHANGED <<fs, cold, counts, bounds>>
\* The second rename fails: what is aside goes back, unless that fails too because
\* somebody has made the path meanwhile.
ReplaceFail(c) ==
  /\ pc[c] = "replace"
  /\ Abandon(c)
  /\ \/ /\ Fault /\ tree = "none"
        /\ tree' = stale[c] /\ stale' = [stale EXCEPT ![c] = "none"]
     \/ Works /\ tree # "none" /\ UNCHANGED <<tree, stale>>
  /\ UNCHANGED <<fs, trash, cold, counts>>

\* Any other error of the swap, and a plain rename onto a path that is there.
SwapFail(c) ==
  /\ \/ pc[c] \in {"swap", "rename", "exchange", "aside"} /\ Fault
     \/ pc[c] = "rename" /\ tree # "none" /\ Works
  /\ Abandon(c)
  /\ UNCHANGED <<fs, tree, trash, stale, cold, counts>>

\* The goroutine that deletes the old tree.
EmptyTrash(c) ==
  /\ c \in trash
  /\ trash' = trash \ {c}
  /\ UNCHANGED <<fs, tree, tmp, stale, cold, counts, pc, bounds>>

Swap(c) ==
  \/ SwapStat(c) \/ RenameOk(c) \/ ExchangeOk(c) \/ Aside(c) \/ ReplaceOk(c)
  \/ ReplaceFail(c) \/ SwapFail(c)
Refresh(c) == Fetch(c) \/ Reset(c) \/ ResetEnds(c) \/ RecloneOk(c) \/ RecloneFail(c)

-----------------------------------------------------------------------------
(* The reader count: taken after CloneRepo has returned, dropped by the    *)
(* cleanup function of the caller.                                         *)

AcquireCloneRef(c) ==
  /\ pc[c] = "got"
  /\ counts' = counts + 1
  /\ Goto(c, "use")
  /\ UNCHANGED <<fs, disk, cold, bounds>>

Mut_Dropped(c) == counts' = 0 /\ Goto(c, "remove")
Mut_NotDropped(c) ==
  \/ counts <= 1 /\ Goto(c, "remove") /\ UNCHANGED counts
  \/ counts > 1 /\ Goto(c, "idle") /\ counts' = counts - 1
\* The entry goes with the last holder, who deletes the directory after the lock.
Dropped(c) ==
  \/ counts = 0 /\ Goto(c, "idle") /\ UNCHANGED counts
  \/ counts = 1 /\ Goto(c, "remove") /\ counts' = 0
  \/ counts > 1 /\ Goto(c, "idle") /\ counts' = counts - 1
ReleaseCloneRef(c) ==
  /\ pc[c] = "use"
  /\ Dropped(c)
  /\ UNCHANGED <<fs, disk, cold, bounds>>

\* CleanupCloneDir: os.RemoveAll takes its time.  What it leaves depends on who
\* else writes at the path, and it may fail.
CleanupCloneDir(c) ==
  /\ pc[c] = "remove"
  /\ tree' = IF tree = "none" THEN "none" ELSE "partial"
  /\ Goto(c, "removing")
  /\ UNCHANGED <<fs, tmp, trash, stale, cold, counts, bounds>>
CleanupEnds(c) ==
  /\ pc[c] = "removing"
  /\ tree' \in {"none", "partial", tree}
  /\ Goto(c, "idle")
  /\ UNCHANGED <<fs, tmp, trash, stale, cold, counts, bounds>>

Use(c) ==
  \/ AcquireCloneRef(c) \/ ReleaseCloneRef(c) \/ CleanupCloneDir(c) \/ CleanupEnds(c)

-----------------------------------------------------------------------------
\* The server dies: flights and counts are gone, the disk stays as it is.
Restart ==
  /\ crashes < MaxCrashes /\ crashes' = crashes + 1
  /\ cold' = [c \in Callers |-> "none"] /\ counts' = 0 /\ trash' = {}
  /\ pc' = [c \in Callers |-> "idle"]
  /\ UNCHANGED <<fs, tree, tmp, stale, faults>>

CloneRepo(c) == JoinFlight(c) \/ Receive(c) \/ Refresh(c) \/ Swap(c)
Next ==
  \/ \E c \in Callers :
       Stat(c) \/ GiveUp(c) \/ CloneRepo(c) \/ Cold(c) \/ Use(c) \/ EmptyTrash(c)
  \/ Restart
Spec == Init /\ [][Next]_vars

\* A call that has begun goes on, and so do the cold clone and the deletions: git
\* runs under a deadline.
Fairness ==
  \A c \in Callers :
    WF_vars(CloneRepo(c)) /\ WF_vars(Cold(c)) /\ WF_vars(Use(c)) /\ WF_vars(EmptyTrash(c))
FairSpec == Spec /\ Fairness

-----------------------------------------------------------------------------
(* Properties. *)

\* Every variable has its type.
TypeOK ==
  /\ fs \in FileSystems /\ tree \in Trees
  /\ cold \in [Callers -> {"none", "start", "writing"}]
  /\ counts \in 0 .. Cardinality(Callers) /\ tmp \subseteq Callers /\ trash \subseteq Callers
  /\ stale \in [Callers -> Trees] /\ pc \in [Callers -> Steps]
  /\ faults \in 0 .. MaxFaults /\ crashes \in 0 .. MaxCrashes

\* A fresh clone beside the old one is gone once its caller has returned, by
\* whichever of the error paths (atomicReclone, plainRename, twoStepSwap).
NoTmpLeak == crashes = 0 => tmp = {c \in Callers : pc[c] \in RecloneSteps}

\* Only a release that leaves no reader behind decides to delete the clone, and
\* such a release always does (AcquireCloneRef, ReleaseCloneRef).
LastReleaseDeletes ==
  [][\A c \in Callers : pc[c] = "use" /\ pc'[c] # "use" /\ crashes' = crashes =>
       (pc'[c] = "remove" <=> \A d \in Callers \ {c} : pc[d] # "use")]_vars

\* clone.go: with RENAME_EXCHANGE a swap never makes a whole tree incomplete or
\* absent for those who read it (atomicDirectorySwap).
SwapKeepsWhole ==
  [][\A c \in Callers : pc[c] \in RecloneSteps /\ pc'[c] # pc[c] /\ fs = "exchange" =>
       (tree = "whole" => tree' = "whole")]_vars

\* The cold clones of the path are one singleflight: they never overlap, and every
\* waiter gets the outcome of the clone it has waited for (CloneRepo, DoChan).
Flight == INSTANCE SingleFlight WITH
  flight <- \E d \in Callers : cold[d] # "none",
  call <- [c \in Callers |-> IF pc[c] \in {"wait", "ok", "err"} THEN pc[c] ELSE "out"]
ImplementsSingleFlight == Flight!Spec

\* Whatever a crash, a killed clone or a failed removal has left at the path: if
\* calls keep coming and failures stop, the tree becomes whole again (the refresh
\* falls back to a fresh clone, which replaces what is there).  On a volume without
\* RENAME_EXCHANGE, calls that give up can keep a swap and a cold clone in each
\* other's way for ever.
Heals ==
  fs = "exchange" /\ (\A c \in Callers : []<><<Stat(c)>>_vars) => []<>(tree = "whole")

-----------------------------------------------------------------------------
\* clone.go, CloneRepo: "the dir is removed only at refcount=0".
RemovedOnlyUnheld ==
  [][\A c \in Callers :
       pc[c] \in {"remove", "removing"} /\ tree = "whole" /\ tree' # "whole" => counts = 0]_vars
=============================================================================
