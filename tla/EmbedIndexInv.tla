---------------------------- MODULE EmbedIndexInv ----------------------------
(***************************************************************************)
(* Inductive invariants of EmbedIndex: what the steps of a full index rely *)
(* on (keys that only queries and sweeps work on) and what those of a pass *)
(* of the autoindex loop rely on (keys that only the loop works on).       *)
(***************************************************************************)
EXTENDS EmbedIndex

\* The steps that change the database without the slot.
Invalidates(p) == BootInvalidate(p) \/ IndexRepoAsync(p) \/ InvalidateWipe(p)

SyncSteps == {"boot", "boot_sync", "retry", "sync_lookup", "sync_count", "sync_next",
              "file_evict", "file_embed", "sync_commit"}
NoSyncRunning == \A p \in Procs : pc[p] \notin SyncSteps

AfterHashes == {"reconcile", "embed", "orphans", "commit", "probe", "rollback"}

\* A run that may still compensate is the first of its key: no state row has
\* appeared since its lookup, and after its read of the hashes every row is one
\* it wrote itself (firstIndexVerdict, compensateFirstIndexOrphan).
FirstIndex(p) ==
  /\ pc[p] \in FullSteps /\ loc[p].first => ~StateExists
  /\ pc[p] \in AfterHashes /\ loc[p].first =>
       \A s \in Syms : loc[p].had[s] = 0
                       /\ (rows[s] = NoRow \/ rows[s].ver = loc[p].snap[s])
  /\ pc[p] \in {"probe", "rollback"} => loc[p].first
\* A run only embeds what it parsed.
EmbedsParsed(p) ==
  pc[p] \in AfterHashes => \A s \in loc[p].todo : loc[p].snap[s] # 0
RowsHaveBodies == \A s \in Syms : rows[s].ver = 0 => rows[s] = NoRow
FirstIndexInv ==
  RowsHaveBodies /\ \A p \in Procs : FirstIndex(p) /\ EmbedsParsed(p)

\* Versions only grow along the branch and into the working tree.
VersionsGrow ==
  /\ \A i \in 1 .. Len(hist) : \A s \in Syms : hist[i][s] <= tree[s]
  /\ \A i, j \in 1 .. Len(hist) : i <= j => \A s \in Syms : hist[i][s] <= hist[j][s]

\* The symbol has been absent from the source since commit n.
AbsentSince(n, s) == \E w \in hist[n][s] .. tree[s] : ~Live(w)
IndexedSince(n, s) == rows[s] # NoRow /\ rows[s].ver >= hist[n][s]

\* What a run has read and written stands for the commit it will record: the
\* recorded one is no later, what it parsed is no older, and what it need not
\* embed any more is indexed or gone (indexRepoWithTool).
Run(p) ==
  LET n == loc[p].cur IN
  /\ state.sha <= n /\ n <= Len(hist)
  /\ pc[p] = "fastpath" => n # 0 /\ state.sha = n
  /\ n # 0 /\ pc[p] \in AfterHashes \cup {"hashes"} => \A s \in Syms :
       IF loc[p].snap[s] = 0 THEN AbsentSince(n, s)
       ELSE loc[p].snap[s] >= hist[n][s]
  /\ n # 0 /\ pc[p] \in {"reconcile", "embed", "orphans", "commit"} =>
       \A s \in Syms : AbsentSince(n, s) \/ IndexedSince(n, s) \/ s \in loc[p].todo
  /\ pc[p] \in {"orphans", "commit"} => loc[p].todo = {}
RunInv == \A p \in Procs : pc[p] \in FullSteps => Run(p)

\* One configured model: no vector is foreign and no key is wiped for its model.
OneModel ==
  /\ \A p \in Procs : pc[p] # "wipe"
  /\ StateExists => state.model = model
  /\ \A s \in Syms : rows[s] # NoRow => rows[s].model = model

CoverInv ==
  /\ state.sha <= Len(hist)
  /\ RecordedCommitCovered

\* The steps of a pass of the loop from its lookup on, and those after its diff.
DiffSteps == {"sync_next", "file_evict", "file_embed", "sync_commit"}
PassSteps == DiffSteps \cup {"sync_lookup", "sync_count"}
FileSteps == {"file_evict", "file_embed"}

\* A pass only writes what it parsed of the file at hand.
WritesParsed(p) == pc[p] \in FileSteps => \A s \in loc[p].todo : loc[p].snap[s] # 0

\* A pass works on a key that has a state row, and no sweep removes one: a row that
\* is written with its path is never listed as pathless (SweepList).
KeepsState(p) ==
  /\ pc[p] \in PassSteps \cup {"fastpath"} => loc[p].cur # 0
  /\ pc[p] \in DiffSteps \cup {"sync_count"} => StateExists
  /\ pc[p] \notin {"claim_wipe", "sweep_wipe"}
  /\ WritesParsed(p)
StateStays ==
  /\ \A p \in Procs : KeepsState(p)
  /\ ~Legacy /\ StateExists => state.path

\* The files of the diff that a pass has not done yet.
Unfinished(p) ==
  loc[p].files \cup (IF pc[p] \in FileSteps THEN {loc[p].file} ELSE {})
\* What is read of a file stands for the commit the pass will record: what it need
\* not embed any more is indexed or gone (parseAndDiff, embedAndUpsert).
FileRead(p) ==
  LET n == loc[p].cur IN
  /\ \A s \in loc[p].todo : s \in InFile(loc[p].file) /\ loc[p].snap[s] # 0
  /\ \A s \in InFile(loc[p].file) :
       IF loc[p].snap[s] = 0 THEN AbsentSince(n, s)
       ELSE /\ loc[p].snap[s] >= hist[n][s]
            /\ s \in loc[p].todo \/ IndexedSince(n, s)
\* A pass without an error has, outside its unfinished files, indexed the commit it
\* will record (IncrementalSync).
Pass(p) ==
  LET n == loc[p].cur IN
  /\ n \in 1 .. Len(hist) /\ state.sha <= n
  /\ pc[p] = "sync_count" => state.sha = n
  /\ pc[p] \in DiffSteps => StateExists
  /\ pc[p] \in DiffSteps /\ ~loc[p].err => \A s \in Syms :
       AbsentSince(n, s) \/ IndexedSince(n, s) \/ FileOf[s] \in Unfinished(p)
  /\ pc[p] = "sync_commit" => loc[p].files = {}
  /\ pc[p] \in FileSteps => FileRead(p)
PassInv == \A p \in Procs : pc[p] \in PassSteps => Pass(p)
=============================================================================
