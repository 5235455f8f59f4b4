------------------------ MODULE SparseBackfillProofs ------------------------
(***************************************************************************)
(* What holds of SparseBackfill for every number of rows, page and chunk   *)
(* size, set of bodies and bound.                                          *)
(***************************************************************************)
EXTENDS SparseBackfill, FiniteSetTheorems, TLAPS

\* Between the two writes of a chunk its rows have the chunk's dense vectors: nobody
\* else upserts, and stale rows are not deleted meanwhile.
ChunkIsIndexed ==
  ix = "sparse" => \A r \in Rows : chunk[r] # 0 => dense[r] = chunk[r]
Inv == TypeOK /\ ChunkIsIndexed /\ VectorsAgree

USE SparseAssumption

-----------------------------------------------------------------------------
(* First(S, k), the LIMIT of a query and the chunks of a batch. *)

LEMMA RowsFinite ==
  ASSUME NEW S \in SUBSET Rows
  PROVE  S \in SUBSET Nat /\ IsFiniteSet(S)
<1>1. 1 \in Int /\ LastRow \in Int
  OBVIOUS
<1>2. IsFiniteSet(1 .. LastRow)
  BY <1>1, FS_Interval
<1>3. IsFiniteSet(Rows) /\ Rows \in SUBSET Nat
  BY <1>2 DEF Rows
<1>4. IsFiniteSet(S)
  BY <1>3, FS_Subset
<1>. QED BY <1>3, <1>4

\* Rows are counted by the rows before them, and no two have the same count.
LEMMA CountGrows ==
  ASSUME NEW S \in SUBSET Rows, NEW r \in S, NEW s \in S, r < s
  PROVE  Cardinality({q \in S : q < r}) < Cardinality({q \in S : q < s})
<1>. DEFINE R == {q \in S : q < r}  T == {q \in S : q < s}
<1>1. S \in SUBSET Nat /\ IsFiniteSet(S)
  BY RowsFinite
<1>2. IsFiniteSet(R) /\ IsFiniteSet(T) /\ r \notin R
  BY <1>1, FS_Subset
<1>3. R \cup {r} \in SUBSET T
  <2>1. ASSUME NEW q \in S, q < r PROVE q < s
    <3>1. q \in Nat /\ r \in Nat /\ s \in Nat
      BY <1>1
    <3>. QED BY <2>1, <3>1
  <2>. QED BY <2>1
<1>4. Cardinality(R \cup {r}) = Cardinality(R) + 1
  BY <1>2, FS_AddElement
<1>5. Cardinality(R \cup {r}) <= Cardinality(T)
  BY <1>2, <1>3, FS_Subset
<1>6. Cardinality(R) \in Nat /\ Cardinality(T) \in Nat
  BY <1>2, FS_CardinalityType
<1>. HIDE DEF R, T
<1>7. Cardinality(R) < Cardinality(T)
  BY <1>4, <1>5, <1>6
<1>. QED BY <1>7 DEF R, T

\* First returns at most k of the rows it is given.
LEMMA FirstBounded ==
  ASSUME NEW S \in SUBSET Rows, NEW k \in Nat \ {0}
  PROVE  /\ First(S, k) \in SUBSET S
         /\ Cardinality(First(S, k)) <= k
<1>. DEFINE F == First(S, k)
            count == [r \in F |-> Cardinality({q \in S : q < r})]
<1>1. F \in SUBSET S /\ S \in SUBSET Nat /\ IsFiniteSet(S)
  BY RowsFinite DEF First
<1>2. \A r \in F : count[r] \in 0 .. (k - 1)
  <2>. TAKE r \in F
  <2>1. Cardinality({q \in S : q < r}) < k
    BY DEF First
  <2>2. Cardinality({q \in S : q < r}) \in Nat
    BY <1>1, FS_Subset, FS_CardinalityType
  <2>3. count[r] = Cardinality({q \in S : q < r})
    OBVIOUS
  <2>. HIDE DEF F, count
  <2>. QED BY <2>1, <2>2, <2>3
<1>3. \A r, s \in F : r # s => count[r] # count[s]
  <2>1. ASSUME NEW r \in F, NEW s \in F, r < s PROVE count[r] < count[s]
    <3>1. r \in S /\ s \in S
      BY <1>1
    <3>2. Cardinality({q \in S : q < r}) < Cardinality({q \in S : q < s})
      BY <2>1, <3>1, CountGrows
    <3>. QED BY <3>2
  <2>2. \A r \in F : r \in Nat /\ count[r] \in Nat
    <3>1. \A r \in F : r \in Nat
      BY <1>1
    <3>. HIDE DEF F, count
    <3>2. \A r \in F : count[r] \in Nat
      BY <1>2
    <3>. QED BY <3>1, <3>2
  <2>. HIDE DEF F, count
  <2>3. TAKE r, s \in F
  <2>4. HAVE r # s
  <2>5. r < s \/ s < r
    BY <2>2, <2>4
  <2>. QED BY <2>1, <2>2, <2>5
<1>4. count \in [F -> 0 .. (k - 1)]
  BY <1>2
<1>. HIDE DEF F, count
<1>5. count \in Injection(F, 0 .. (k - 1))
  BY <1>3, <1>4 DEF Injection, IsInjective
<1>6. IsFiniteSet(0 .. (k - 1)) /\ Cardinality(0 .. (k - 1)) = k
  BY FS_Interval
<1>7. Cardinality(F) <= k
  BY <1>5, <1>6, FS_Injection
<1>. QED BY <1>1, <1>7 DEF F

-----------------------------------------------------------------------------
(* The invariant. *)

LEMMA InitInv == Init => Inv
<1>. SUFFICES ASSUME Init PROVE Inv
  OBVIOUS
<1>1. Cardinality({}) = 0
  BY FS_EmptySet
<1>2. Nothing \in [Rows -> Body] /\ \A r \in Rows : Nothing[r] = 0
  BY DEF Nothing, Body
<1>3. TypeOK
  <2>1. disk \in [Rows -> Body]
    BY DEF Init, Body
  <2>. QED BY <1>1, <1>2, <2>1 DEF Init, TypeOK
<1>4. ChunkIsIndexed /\ VectorsAgree
  BY <1>2 DEF Init, ChunkIsIndexed, VectorsAgree
<1>. QED BY <1>3, <1>4 DEF Inv

\* A write of the rows S leaves a body, and other rows alone.
LEMMA WrittenTypes ==
  ASSUME Inv, NEW S, NEW vec \in [Rows -> Body]
  PROVE  Written(S, vec) \in [Rows -> Body]
BY DEF Inv, TypeOK, Written

LEMMA IndexerInv ==
  Inv /\ (EmbedChunk \/ Upsert \/ RunSparseWrites \/ \E r \in Rows : DeleteStale(r)) => Inv'
<1>. USE DEF Inv, TypeOK, ChunkIsIndexed, VectorsAgree, rows, backfill, bounds, indexer, Fault
<1>1. ASSUME Inv, EmbedChunk PROVE Inv'
  BY <1>1 DEF EmbedChunk, Body
<1>2. ASSUME Inv, Upsert PROVE Inv'
  <2>1. Nothing \in [Rows -> Body] /\ Chunk \in SUBSET Rows
    BY DEF Nothing, Body, Chunk
  <2>. QED BY <1>2, <2>1 DEF Upsert, Chunk
<1>3. ASSUME Inv, RunSparseWrites PROVE Inv'
  <2>1. PICK S \in SUBSET SparseRows :
          /\ sparse' = Written(S, chunk) /\ excused' = excused \ S
          /\ UNCHANGED bounds \/ Fault
    BY <1>3 DEF RunSparseWrites, Partial
  <2>2. sparse' \in [Rows -> Body] /\ Nothing \in [Rows -> Body]
    BY <1>3, <2>1, WrittenTypes DEF Nothing, Body
  <2>3. \A r \in Rows \ excused' : sparse'[r] \in {0, dense[r]}
    <3>. TAKE r \in Rows \ excused'
    <3>1. CASE r \in S
      BY <1>3, <2>1, <3>1 DEF RunSparseWrites, SparseRows, Writable, Chunk, Written
    <3>2. CASE r \notin S
      BY <1>3, <2>1, <3>2 DEF Written
    <3>. QED BY <3>1, <3>2
  <2>. QED BY <1>3, <2>1, <2>2, <2>3 DEF RunSparseWrites
<1>4. ASSUME Inv, NEW r \in Rows, DeleteStale(r) PROVE Inv'
  BY <1>4 DEF DeleteStale, Body
<1>. QED BY <1>1, <1>2, <1>3, <1>4

LEMMA EndRunTypes ==
  EndRun => /\ bf' = "idle" /\ page' = {} /\ Cardinality(page') <= PageSize
            /\ hash' \in [Rows -> Body] /\ text' \in [Rows -> Body]
BY FS_EmptySet DEF EndRun, Nothing, Body

LEMMA PageInv == ASSUME Inv, FetchPage PROVE Inv'
<1>. USE DEF Inv, TypeOK, ChunkIsIndexed, VectorsAgree, rows, bounds, indexer
<1>1. CASE EndRun
  BY <1>1, EndRunTypes DEF FetchPage, Fault
<1>2. CASE bf' = "read"
  <2>1. /\ page' = First(Null, PageSize) /\ text' = Nothing
        /\ hash' = [r \in Rows |-> IF r \in page' THEN dense[r] ELSE 0]
    BY <1>2 DEF FetchPage, EndRun
  <2>2. page' \in SUBSET Rows /\ Cardinality(page') <= PageSize
    BY <2>1, FirstBounded DEF Null
  <2>3. hash' \in [Rows -> Body] /\ text' \in [Rows -> Body]
    BY <2>1 DEF Nothing, Body
  <2>. QED BY <1>2, <2>2, <2>3 DEF FetchPage, Fault, EndRun
<1>. QED BY <1>1, <1>2 DEF FetchPage

\* What a page's write does: the rows it changes had the body_hash of the page, or
\* were indexed again and are excused.
LEMMA WriteRows ==
  ASSUME Inv, WritePage
  PROVE  \E S \in SUBSET Batch :
           /\ sparse' = Written(S, text)
           /\ excused' = excused \cup {r \in S : dense[r] # 0 /\ dense[r] # hash[r]}
           /\ UNCHANGED bounds \/ Fault
BY DEF WritePage, Partial

LEMMA BatchFresh == \A r \in Batch : r \in page /\ text[r] = hash[r]
BY DEF Batch, Writable, Candidates, Fresh

LEMMA BackfillInv == ASSUME Inv, Backfill PROVE Inv'
<1>. USE DEF Inv, TypeOK, ChunkIsIndexed, VectorsAgree, rows, bounds, indexer, Fault
<1>1. CASE FetchPage
  BY <1>1, PageInv
<1>2. CASE ReadPage
  BY <1>2 DEF ReadPage, Body
<1>3. CASE EmbedPage
  BY <1>3, EndRunTypes DEF EmbedPage
<1>4. CASE WritePage
  <2>1. PICK S \in SUBSET Batch :
           /\ sparse' = Written(S, text)
           /\ excused' = excused \cup {r \in S : dense[r] # 0 /\ dense[r] # hash[r]}
           /\ UNCHANGED bounds \/ Fault
    BY <1>4, WriteRows
  <2>2. S \subseteq Rows /\ \A r \in S : text[r] = hash[r]
    BY <2>1, BatchFresh
  <2>3. sparse' \in [Rows -> Body]
    BY <2>1, WrittenTypes
  <2>4. \A r \in Rows \ excused' : sparse'[r] \in {0, dense[r]}
    BY <2>1, <2>2 DEF Written
  <2>. QED BY <1>4, <2>1, <2>2, <2>3, <2>4 DEF WritePage
<1>. QED BY <1>1, <1>2, <1>3, <1>4 DEF Backfill

LEMMA NextInv == Inv /\ [Next]_vars => Inv'
<1>. SUFFICES ASSUME Inv, [Next]_vars PROVE Inv'
  OBVIOUS
<1>. USE DEF Inv, TypeOK, ChunkIsIndexed, VectorsAgree, rows, bounds, indexer, backfill
<1>1. CASE \E r \in Rows, b \in Body : Edit(r, b)
  BY <1>1 DEF Edit
<1>2. CASE StartBackfill
  BY <1>2 DEF StartBackfill
<1>3. CASE Restart
  BY <1>3, EndRunTypes DEF Restart, Fault, Nothing, Body
<1>4. CASE UNCHANGED vars
  BY <1>4 DEF vars
<1>. QED BY <1>1, <1>2, <1>3, <1>4, IndexerInv, BackfillInv DEF Next

THEOREM SpecInv == Spec => []Inv
BY InitInv, NextInv, PTL DEF Spec

\* Types; a page never has more rows than its limit.
THEOREM TypeCorrect == Spec => []TypeOK
BY SpecInv, PTL DEF Inv

\* The sparse vector of a row embeds the body of its dense one, unless an upsert's or
\* an overlapped backfill's write has left it behind.
THEOREM VectorsEmbedOneBody == Spec => []VectorsAgree
BY SpecInv, PTL DEF Inv

\* The drift guard, against every order of edits, index runs and pages.
THEOREM BackfillIsGuarded == Spec => DriftGuard
<1>1. Inv /\ [Next]_vars =>
        [WritePage => \A r \in Rows :
           sparse'[r] # sparse[r] => sparse'[r] = dense[r] \/ dense[r] # hash[r]]_vars
  <2>. SUFFICES ASSUME Inv, WritePage, NEW r \in Rows, sparse'[r] # sparse[r]
                PROVE  sparse'[r] = dense[r] \/ dense[r] # hash[r]
    OBVIOUS
  <2>1. PICK S \in SUBSET Batch : sparse' = Written(S, text)
    BY WriteRows
  <2>2. r \in S /\ sparse'[r] = text[r]
    BY <2>1 DEF Written
  <2>. QED BY <2>2, BatchFresh
<1>. QED BY <1>1, SpecInv, PTL DEF Spec, DriftGuard

\* Every row of a page had a body when the page was fetched: the page is taken from the
\* rows that exist, and a page and its hashes come and go together.
PageIsHashed == bf \in {"read", "embed", "write"} => \A r \in page : hash[r] # 0

LEMMA PageIsHashedStep ==
  ASSUME Inv, PageIsHashed, [Next]_vars
  PROVE  PageIsHashed'
<1>. USE DEF PageIsHashed, backfill
<1>1. CASE FetchPage
  <2>1. CASE EndRun
    BY <2>1 DEF EndRun
  <2>2. CASE bf' = "read"
    <3>1. /\ page' = First(Null, PageSize)
          /\ hash' = [r \in Rows |-> IF r \in page' THEN dense[r] ELSE 0]
      BY <1>1, <2>2 DEF FetchPage, EndRun
    <3>2. page' \in SUBSET Null
      BY <3>1, FirstBounded DEF Null
    <3>. QED BY <3>1, <3>2 DEF Null
  <2>. QED BY <1>1, <2>1, <2>2 DEF FetchPage
<1>2. CASE ReadPage
  BY <1>2 DEF ReadPage
<1>3. CASE EmbedPage
  BY <1>3 DEF EmbedPage, EndRun
<1>4. CASE WritePage
  BY <1>4 DEF WritePage
<1>5. CASE StartBackfill \/ Restart
  BY <1>5 DEF StartBackfill, Restart, EndRun
<1>6. CASE UNCHANGED backfill
  BY <1>6
<1>7. CASE \E r \in Rows, b \in Body : Edit(r, b)
  BY <1>7 DEF Edit
<1>8. CASE EmbedChunk \/ Upsert \/ RunSparseWrites \/ \E r \in Rows : DeleteStale(r)
  BY <1>8 DEF EmbedChunk, Upsert, RunSparseWrites, DeleteStale
<1>. QED
  BY <1>1, <1>2, <1>3, <1>4, <1>5, <1>6, <1>7, <1>8 DEF Next, Backfill, vars

\* A run that ends at a page has nothing it could ever write there: a failed embed or
\* write goes back to the fetch (backfillProcess, BackfillSparse).
THEOREM EndsOnlyWhenStuck == Spec => GivesUpOnlyWhenStuck
<1>1. Init => PageIsHashed
  BY DEF Init, PageIsHashed
<1>2. Inv /\ PageIsHashed /\ [Next]_vars => PageIsHashed'
  BY PageIsHashedStep
<1>3. Spec => []PageIsHashed
  BY <1>1, <1>2, SpecInv, PTL DEF Spec
<1>4. PageIsHashed =>
        (bf = "embed" /\ EmbedPage /\ bf' = "idle" =>
           \A r \in page : text[r] # hash[r] \/ text[r] \in Degenerate)
  <2>. SUFFICES ASSUME PageIsHashed, bf = "embed", EmbedPage, bf' = "idle", NEW r \in page
                PROVE  text[r] # hash[r] \/ text[r] \in Degenerate
    OBVIOUS
  <2>1. Batch = {}
    BY DEF EmbedPage, Progress
  <2>2. hash[r] # 0
    BY DEF PageIsHashed
  <2>3. r \in Candidates => text[r] \in Degenerate
    BY <2>1 DEF Batch, Writable
  <2>. QED BY <2>2, <2>3 DEF Candidates, Fresh
<1>. QED BY <1>3, <1>4, PTL DEF GivesUpOnlyWhenStuck
=============================================================================
