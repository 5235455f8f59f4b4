---------------------------- MODULE IngestCache ----------------------------
(***************************************************************************)
(* IngestRepo (internal/ingest/ingest.go) and the process-wide cache in    *)
(* front of its walk (cache.go): an LRU of a few listings under a mutex,   *)
(* and Redis behind it.  Indexers, graph builds and tools take the list of *)
(* a repository's files from it.  Model of ONE repository; a key stands    *)
(* for the options of a call.                                              *)
(*                                                                         *)
(* An entry is trusted as long as its hash is that of the tree and it is   *)
(* not too old; the listing itself is never looked at.  The hash covers    *)
(* less than the listing is made from (Contents), so a listing may be out  *)
(* of date under a hash that is not.                                       *)
(***************************************************************************)
EXTENDS Naturals, Sequences, FiniteSets

CONSTANTS
  Keys,         \* cache keys: the options of calls
  NoKey,
  Callers,
  Hashed,       \* what RepoContentHash may find in a tree
  Unhashed,     \* what else the walk may find in it
  MaxEntries,   \* ingestCacheMaxEntries
  MaxEdits,     \* bound: edits
  MaxRestarts   \* bound: server restarts

ASSUME IngestAssumption ==
  /\ IsFiniteSet(Keys) /\ NoKey \notin Keys
  /\ Hashed # {} /\ Unhashed # {}
  /\ MaxEntries \in Nat \ {0} /\ MaxEdits \in Nat /\ MaxRestarts \in Nat

VARIABLES
  tree,      \* the content of the tree
  l1, order, \* entries and order, the LRU
  l2,        \* Redis
  pc, key,   \* every call's next step and its cache key
  got,       \* the entry a call has fetched or makes, and returns
  during,    \* hashes of the tree since a call began
  edits, restarts  \* how much of the bounds is used

lru == <<l1, order>>
call == <<pc, key, got>>
env == <<tree, during>>
bounds == <<edits, restarts>>
vars == <<lru, l2, call, env, bounds>>

-----------------------------------------------------------------------------
(* Data. *)

\* The walk reads names, sizes and modification times down to depth 20 and obeys
\* .gitignore.  RepoContentHash reads names, sizes and the first 4096 bytes, skips
\* every name that begins with a dot and stops at depth 10: the second part of a
\* content is what it does not see (a .gitignore, .github, deep directories, times).
Contents == [hashed : Hashed, rest : Unhashed]
RepoContentHash == tree.hashed

\* torn, which the code does not record: the hash of the tree changed between the walk
\* that made the listing and the hash stored with it.
Entry == [has : BOOLEAN, list : Contents, hash : Hashed, old : BOOLEAN, torn : BOOLEAN]
AnyContent == CHOOSE x \in Contents : TRUE
NoEntry ==
  [has |-> FALSE, list |-> AnyContent, hash |-> AnyContent.hashed,
   old |-> FALSE, torn |-> FALSE]
Steps == {"idle", "l1", "l2", "check", "walk", "put", "set", "answered"}

Init ==
  /\ tree = AnyContent
  /\ l1 = [k \in Keys |-> NoEntry] /\ order = <<>>
  /\ l2 = [k \in Keys |-> NoEntry]
  /\ pc = [c \in Callers |-> "idle"] /\ key = [c \in Callers |-> NoKey]
  /\ got = [c \in Callers |-> NoEntry]
  /\ during = [c \in Callers |-> {}]
  /\ edits = 0 /\ restarts = 0

Goto(c, step) == pc' = [pc EXCEPT ![c] = step]
Answer(c, e) == got' = [got EXCEPT ![c] = e] /\ Goto(c, "answered")

Leave(c) ==
  /\ Goto(c, "idle") /\ key' = [key EXCEPT ![c] = NoKey]
  /\ got' = [got EXCEPT ![c] = NoEntry] /\ during' = [during EXCEPT ![c] = {}]

-----------------------------------------------------------------------------
(* The LRU.  A repository has few keys, so the order is a short sequence. *)

Listed(k) == \E i \in 1 .. Len(order) : order[i] = k
Position(k) == CHOOSE i \in 1 .. Len(order) : order[i] = k
removeOrder(k) ==
  IF Listed(k)
  THEN SubSeq(order, 1, Position(k) - 1) \o SubSeq(order, Position(k) + 1, Len(order))
  ELSE order
touch(k) == Append(removeOrder(k), k)

Mut_deleteEntryLocked(k) == l1' = [l1 EXCEPT ![k] = NoEntry] /\ UNCHANGED order
deleteEntryLocked(k) ==
  /\ l1' = [l1 EXCEPT ![k] = NoEntry] /\ order' = removeOrder(k)

\* The least recently used entry goes when there is one too many.
insertEntryLocked(k, e) ==
  LET queue == touch(k) IN
  IF Len(queue) > MaxEntries
  THEN /\ order' = Tail(queue)
       /\ l1' = [[l1 EXCEPT ![k] = e] EXCEPT ![Head(queue)] = NoEntry]
  ELSE order' = queue /\ l1' = [l1 EXCEPT ![k] = e]

-----------------------------------------------------------------------------
(* get. *)

IngestRepo(c) ==
  /\ pc[c] = "idle" /\ Goto(c, "l1")
  /\ \E k \in Keys : key' = [key EXCEPT ![c] = k]
  /\ during' = [during EXCEPT ![c] = {RepoContentHash}]
  /\ UNCHANGED <<lru, l2, got, tree, bounds>>

Mut_OnlySameHash(e) == e.hash = RepoContentHash
\* ingestCacheTTL and the content hash.
Valid(e) == ~e.old /\ e.hash = RepoContentHash
\* The tree is hashed under the mutex.
getL1Locked(c) ==
  LET k == key[c] IN
  /\ pc[c] = "l1"
  /\ \/ /\ l1[k].has /\ Valid(l1[k])
        /\ order' = touch(k) /\ Answer(c, l1[k])
        /\ UNCHANGED l1
     \/ /\ l1[k].has /\ ~Valid(l1[k])
        /\ deleteEntryLocked(k) /\ Goto(c, "l2") /\ UNCHANGED got
     \/ ~l1[k].has /\ Goto(c, "l2") /\ UNCHANGED <<lru, got>>
  /\ UNCHANGED <<l2, key, env, bounds>>

\* Without Redis, without an answer or without an entry the call walks.
GetL2(c) ==
  /\ pc[c] = "l2"
  /\ \/ /\ l2[key[c]].has
        /\ got' = [got EXCEPT ![c] = l2[key[c]]] /\ Goto(c, "check")
     \/ Goto(c, "walk") /\ UNCHANGED got
  /\ UNCHANGED <<lru, l2, key, env, bounds>>

\* The tree is hashed, then the lock is taken, or Del sent, neither of which
\* depends on the tree any more.  The entry keeps its validatedAt, which may be long
\* ago; it is served all the same.
Promote(c) ==
  /\ \E old \in BOOLEAN : insertEntryLocked(key[c], [got[c] EXCEPT !.old = old])
  /\ Answer(c, got[c]) /\ UNCHANGED l2
\* Del is by key: it may meet a later entry than the one that was read.
DelL2(c) ==
  /\ Goto(c, "walk") /\ got' = [got EXCEPT ![c] = NoEntry]
  /\ l2' = [l2 EXCEPT ![key[c]] = NoEntry] \/ UNCHANGED l2
  /\ UNCHANGED lru
Mut_CheckL2(c) == pc[c] = "check" /\ Promote(c) /\ UNCHANGED <<key, env, bounds>>
CheckL2(c) ==
  /\ pc[c] = "check"
  /\ \/ got[c].hash = RepoContentHash /\ Promote(c)
     \/ got[c].hash # RepoContentHash /\ DelL2(c)
  /\ UNCHANGED <<key, env, bounds>>

-----------------------------------------------------------------------------
(* The walk and put. *)

\* The walk ends, or its context does.
Walk(c) ==
  /\ pc[c] = "walk"
  /\ \/ /\ got' = [got EXCEPT ![c].has = TRUE, ![c].list = tree]
        /\ Goto(c, "put") /\ UNCHANGED <<key, during>>
     \/ Leave(c)
  /\ UNCHANGED <<lru, l2, tree, bounds>>
\* put hashes the tree as it is after the walk, outside the lock.
PutL1(c) ==
  LET e == [got[c] EXCEPT !.hash = RepoContentHash] IN
  /\ pc[c] = "put" /\ got' = [got EXCEPT ![c] = e]
  /\ insertEntryLocked(key[c], e)
  /\ Goto(c, "set")
  /\ UNCHANGED <<l2, key, env, bounds>>
\* Set may fail, which nobody notices.
SetL2(c) ==
  /\ pc[c] = "set" /\ Answer(c, got[c])
  /\ \/ l2' = [l2 EXCEPT ![key[c]] = got[c]]
     \/ UNCHANGED l2
  /\ UNCHANGED <<lru, key, env, bounds>>
Return(c) ==
  /\ pc[c] = "answered" /\ Leave(c)
  /\ UNCHANGED <<lru, l2, tree, bounds>>

Step(c) ==
  \/ getL1Locked(c) \/ GetL2(c) \/ CheckL2(c)
  \/ Walk(c) \/ PutL1(c) \/ SetL2(c) \/ Return(c)

-----------------------------------------------------------------------------
(* The environment. *)

Tears(c) == pc[c] \in {"walk", "put"} /\ RepoContentHash' # RepoContentHash
Edit ==
  /\ edits < MaxEdits /\ edits' = edits + 1 /\ UNCHANGED restarts
  /\ tree' \in Contents \ {tree}
  /\ during' = [c \in Callers |-> IF pc[c] = "idle" THEN {}
                                  ELSE during[c] \cup {RepoContentHash'}]
  /\ got' = [c \in Callers |-> IF Tears(c) THEN [got[c] EXCEPT !.torn = TRUE] ELSE got[c]]
  /\ UNCHANGED <<lru, l2, pc, key>>

\* ingestCacheTTL after validatedAt, and after Set.
AgeL1(k) ==
  /\ l1[k].has /\ ~l1[k].old /\ l1' = [l1 EXCEPT ![k].old = TRUE]
  /\ UNCHANGED <<order, l2, call, env, bounds>>
ExpireL2(k) ==
  /\ l2[k].has /\ l2' = [l2 EXCEPT ![k] = NoEntry]
  /\ UNCHANGED <<lru, call, env, bounds>>

\* Redis survives the server.
Restart ==
  /\ restarts < MaxRestarts /\ restarts' = restarts + 1 /\ UNCHANGED edits
  /\ l1' = [k \in Keys |-> NoEntry] /\ order' = <<>>
  /\ pc' = [c \in Callers |-> "idle"] /\ key' = [c \in Callers |-> NoKey]
  /\ got' = [c \in Callers |-> NoEntry] /\ during' = [c \in Callers |-> {}]
  /\ UNCHANGED <<l2, tree>>

Next ==
  \/ \E c \in Callers : IngestRepo(c) \/ Step(c)
  \/ Edit \/ Restart
  \/ \E k \in Keys : AgeL1(k) \/ ExpireL2(k)
Spec == Init /\ [][Next]_vars

\* A call goes on once it has begun, and time passes.
Fairness ==
  /\ \A c \in Callers : WF_vars(Step(c))
  /\ \A k \in Keys : WF_vars(AgeL1(k)) /\ WF_vars(ExpireL2(k))
FairSpec == Spec /\ Fairness

-----------------------------------------------------------------------------
(* Properties. *)

\* Every variable has its type, and the order lists exactly the cached keys, each
\* once, and no more than there is room for: what eviction, removal and promotion
\* must keep between two maps (insertEntryLocked, deleteEntryLocked, touch).
OrderListsCache ==
  /\ \A k \in Keys : l1[k].has <=> Listed(k)
  /\ \A i, j \in 1 .. Len(order) : order[i] = order[j] => i = j
  /\ Len(order) <= MaxEntries
TypeOK ==
  /\ tree \in Contents
  /\ l1 \in [Keys -> Entry] /\ order \in Seq(Keys) /\ l2 \in [Keys -> Entry]
  /\ pc \in [Callers -> Steps] /\ key \in [Callers -> Keys \cup {NoKey}]
  /\ got \in [Callers -> Entry]
  /\ during \in [Callers -> SUBSET Hashed]
  /\ edits \in 0 .. MaxEdits /\ restarts \in 0 .. MaxRestarts
  /\ OrderListsCache

\* From whichever cache a call answers, the hash it trusted was that of the tree at
\* some moment of the call ("TTL not expired AND content hash unchanged", cache.go:141),
\* and the listing shows the tree that has this hash, unless the hash moved between the
\* listing's own walk and put.  That is less than ingest.go:121-123 says, "a git checkout
\* during a session invalidates the entry immediately": one that changes only what the
\* hash does not see (rest) leaves the old listing in place, and so does the torn one.
AnswerIsCurrent ==
  \A c \in Callers : pc[c] = "answered" =>
    /\ got[c].hash \in during[c]
    /\ ~got[c].torn => got[c].list.hashed = got[c].hash

\* A listing that was stored under the hash of another tree, or whose tree has changed
\* where the hash does not look, is not served for ever: once the edits stop, every
\* answer is in the end that of the tree.
StaleGoesAway ==
  <>[](\A c \in Callers : pc[c] = "answered" => got[c].list = tree)
=============================================================================
