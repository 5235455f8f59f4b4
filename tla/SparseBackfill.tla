--------------------------- MODULE SparseBackfill ---------------------------
(***************************************************************************)
(* The sparse vectors of one repository's rows in code_embeddings: written *)
(* by the indexing pipeline after the dense upsert (embedAndUpsert,        *)
(* runSparseWrites) and, where they are NULL, page by page by the backfill *)
(* tool (backfill.go), which reads the sources again.  Both write by key.  *)
(*                                                                         *)
(* A body is a number; a dense or sparse vector is the body it embeds, and *)
(* body_hash is the body of the dense vector.  Rows are numbered in the    *)
(* order of their keys.                                                    *)
(***************************************************************************)
EXTENDS Naturals, FiniteSets

CONSTANTS
  LastRow,      \* rows 1 .. LastRow
  PageSize,     \* backfillPageSize
  ChunkSize,    \* sparseBatchSize
  Bodies,       \* numbers of the bodies; 0 is none of them
  Degenerate,   \* bodies whose sparse vector is empty once sanitized
  MaxEdits,     \* bound: edits
  MaxFaults     \* bound: failures and restarts

ASSUME SparseAssumption ==
  /\ LastRow \in Nat /\ PageSize \in Nat \ {0} /\ ChunkSize \in Nat \ {0}
  /\ 1 \in Bodies /\ Bodies \subseteq Nat \ {0} /\ Degenerate \subseteq Bodies
  /\ MaxEdits \in Nat /\ MaxFaults \in Nat

VARIABLES
  disk,     \* body of every symbol in the working tree, 0: there is none
  dense,    \* body_hash of every row, 0: there is no row
  sparse,   \* sparse_embedding of every row, 0: NULL
  ix, chunk,   \* step and symbols of the indexer's chunk
  bf, page, hash, text,  \* step of the backfill, its page, body_hash and re-derived
                         \* body of the rows in it
  excused,  \* rows whose sparse vector a known cause has left behind
  edits, faults  \* how much of the bounds is used

rows == <<dense, sparse>>
indexer == <<ix, chunk>>
backfill == <<bf, page, hash, text>>
bounds == <<edits, faults>>
vars == <<disk, rows, indexer, backfill, excused, bounds>>

Rows == 1 .. LastRow
Body == Bodies \cup {0}
Nothing == [r \in Rows |-> 0]

Init ==
  /\ disk \in [Rows -> {1}] /\ dense = Nothing /\ sparse = Nothing
  /\ ix = "idle" /\ chunk = Nothing
  /\ bf = "idle" /\ page = {} /\ hash = Nothing /\ text = Nothing
  /\ excused = {} /\ edits = 0 /\ faults = 0

Fault == faults < MaxFaults /\ faults' = faults + 1 /\ UNCHANGED edits

Mut_First(S, k) == {r \in S : Cardinality({q \in S : q < r}) <= k}
\* The k smallest rows of S.
First(S, k) == {r \in S : Cardinality({q \in S : q < r}) < k}
Mut_Written(S, vec) == [r \in Rows |-> IF r \in S THEN vec[r] ELSE sparse[r]]
\* UpdateSparseEmbeddingsBatch of the rows S: an UPDATE per chunk, of rows that exist.
Written(S, vec) == [r \in Rows |-> IF r \in S /\ dense[r] # 0 THEN vec[r] ELSE sparse[r]]
\* What a batch that fails has committed before: whole chunks, in no order of the keys.
Partial(S) == {T \in SUBSET S : T # S /\ Cardinality(T) % ChunkSize = 0}
\* SanitizeAndFormatSparseVector is not empty.
Writable(S, vec) == {r \in S : vec[r] \notin Degenerate}

Edit(r, b) ==
  /\ edits < MaxEdits /\ edits' = edits + 1
  /\ b # disk[r] /\ disk' = [disk EXCEPT ![r] = b]
  /\ UNCHANGED <<rows, indexer, backfill, excused, faults>>

-----------------------------------------------------------------------------
(* embedAndUpsert of a chunk of changed symbols, and the delete of stale rows. *)

EmbedChunk ==
  /\ ix = "idle"
  /\ \E S \in SUBSET {r \in Rows : disk[r] \notin {0, dense[r]}} :
       /\ S # {} /\ chunk' = [r \in Rows |-> IF r \in S THEN disk[r] ELSE 0]
  /\ \/ ix' = "upsert" /\ UNCHANGED bounds
     \/ ix' = "upsert_only" /\ Fault     \* the sparse leg has failed
  /\ UNCHANGED <<disk, rows, backfill, excused>>

Chunk == {r \in Rows : chunk[r] # 0}
\* The conflict clause leaves sparse_embedding alone.
Upsert ==
  /\ ix \in {"upsert", "upsert_only"}
  /\ dense' = [r \in Rows |-> IF r \in Chunk THEN chunk[r] ELSE dense[r]]
  /\ excused' = excused \cup Chunk
  /\ IF ix = "upsert"
       THEN ix' = "sparse" /\ UNCHANGED chunk
       ELSE ix' = "idle" /\ chunk' = Nothing
  /\ UNCHANGED <<disk, sparse, backfill, bounds>>

\* runSparseWrites leaves out the empty vectors.
SparseRows == Writable(Chunk, chunk)
RunSparseWrites ==
  /\ ix = "sparse" /\ ix' = "idle" /\ chunk' = Nothing
  /\ \/ /\ sparse' = Written(SparseRows, chunk)
        /\ excused' = excused \ SparseRows /\ UNCHANGED bounds
     \/ /\ \E S \in Partial(SparseRows) :
             sparse' = Written(S, chunk) /\ excused' = excused \ S
        /\ Fault
  /\ UNCHANGED <<disk, dense, backfill>>

DeleteStale(r) ==
  /\ ix = "idle" /\ disk[r] = 0 /\ dense[r] # 0
  /\ dense' = [dense EXCEPT ![r] = 0] /\ sparse' = [sparse EXCEPT ![r] = 0]
  /\ excused' = excused \ {r}
  /\ UNCHANGED <<disk, indexer, backfill, bounds>>

-----------------------------------------------------------------------------
(* BackfillSparse. *)

EndRun == bf' = "idle" /\ page' = {} /\ hash' = Nothing /\ text' = Nothing

StartBackfill ==
  /\ bf = "idle" /\ bf' = "fetch"
  /\ UNCHANGED <<disk, rows, indexer, page, hash, text, excused, bounds>>

Null == {r \in Rows : dense[r] # 0 /\ sparse[r] = 0}
\* fetchNullSparseRows; an error of it, or of the call's context, ends the run.
FetchPage ==
  /\ bf = "fetch"
  /\ \/ Null = {} /\ EndRun /\ UNCHANGED bounds
     \/ EndRun /\ Fault
     \/ /\ Null # {} /\ page' = First(Null, PageSize)
        /\ hash' = [r \in Rows |-> IF r \in page' THEN dense[r] ELSE 0]
        /\ bf' = "read" /\ text' = Nothing /\ UNCHANGED bounds
  /\ UNCHANGED <<disk, rows, indexer, excused>>

Mut_Fresh(r) == text[r] # 0
\* A row whose body has drifted, or is no longer there, is skipped.
Fresh(r) == text[r] # 0 /\ text[r] = hash[r]
Candidates == {r \in page : Fresh(r)}
\* backfillFileGroup reads and parses the sources of the page.
ReadPage ==
  /\ bf = "read" /\ bf' = "embed"
  /\ text' = [r \in Rows |-> IF r \in page THEN disk[r] ELSE 0]
  /\ UNCHANGED <<disk, rows, indexer, page, hash, excused, bounds>>

Batch == Writable(Candidates, text)
Mut_Progress == TRUE
Mut_AllFresh == Batch = page
\* A page of which nothing will ever be written ends the run.
Progress == Batch # {}
EmbedPage ==
  /\ bf = "embed"
  /\ \/ Progress /\ bf' = "write" /\ UNCHANGED <<page, hash, text, bounds>>
     \/ ~Progress /\ EndRun /\ UNCHANGED bounds
     \/ Candidates # {} /\ Fault /\ bf' = "fetch" /\ UNCHANGED <<page, hash, text>>
  /\ UNCHANGED <<disk, rows, indexer, excused>>

\* The rows as they are now get the vectors of the page as it was read.
WritePage ==
  /\ bf = "write" /\ bf' = "fetch"
  /\ \E S \in {Batch} \cup Partial(Batch) :
       /\ sparse' = Written(S, text)
       /\ excused' = excused \cup {r \in S : dense[r] # 0 /\ dense[r] # hash[r]}
       /\ IF S = Batch THEN UNCHANGED bounds ELSE Fault
  /\ UNCHANGED <<disk, dense, indexer, page, hash, text>>

Restart ==
  /\ Fault
  /\ ix' = "idle" /\ chunk' = Nothing /\ EndRun
  /\ UNCHANGED <<disk, rows, excused>>

Backfill == FetchPage \/ ReadPage \/ EmbedPage \/ WritePage
Next ==
  \/ \E r \in Rows, b \in Body : Edit(r, b)
  \/ EmbedChunk \/ Upsert \/ RunSparseWrites
  \/ \E r \in Rows : DeleteStale(r)
  \/ StartBackfill \/ Backfill
  \/ Restart
Spec == Init /\ [][Next]_vars
\* The tool's call goes on.
FairSpec == Spec /\ WF_vars(Backfill)

-----------------------------------------------------------------------------
(* Properties. *)

\* Every variable has its type.
TypeOK ==
  /\ disk \in [Rows -> Body] /\ dense \in [Rows -> Body] /\ sparse \in [Rows -> Body]
  /\ ix \in {"idle", "upsert", "upsert_only", "sparse"} /\ chunk \in [Rows -> Body]
  /\ bf \in {"idle", "fetch", "read", "embed", "write"} /\ page \subseteq Rows
  /\ Cardinality(page) <= PageSize
  /\ hash \in [Rows -> Body] /\ text \in [Rows -> Body] /\ excused \subseteq Rows
  /\ edits \in 0 .. MaxEdits /\ faults \in 0 .. MaxFaults

\* The two vectors of a row embed the same body, or the sparse one is NULL.  It is
\* left behind in two ways only: by an upsert whose sparse write has not followed (it
\* failed, or its vector is empty), and by a backfill that overlaps an upsert.
VectorsAgree ==
  \A r \in Rows \ excused : sparse[r] \in {0, dense[r]}

\* A backfill never pairs a sparse vector with another body's dense one, unless the
\* row was indexed again after its page was fetched (the drift guard, backfill.go).
DriftGuard ==
  [][WritePage => \A r \in Rows :
       sparse'[r] # sparse[r] => sparse'[r] = dense[r] \/ dense[r] # hash[r]]_vars

\* A run ends, whatever fails on the way, once embed server and database answer.
BackfillEnds == bf # "idle" ~> bf = "idle"

\* A run gives up on a page only when every row of it has drifted, has lost its
\* source or has an empty vector: a failed embed or write is tried again.
GivesUpOnlyWhenStuck ==
  [][bf = "embed" /\ EmbedPage /\ bf' = "idle" =>
       \A r \in page : text[r] # hash[r] \/ text[r] \in Degenerate]_vars
=============================================================================
