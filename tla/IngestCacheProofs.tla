------------------------- MODULE IngestCacheProofs -------------------------
(***************************************************************************)
(* What holds of IngestCache for every set of keys, callers and contents,  *)
(* every capacity and every bound.                                         *)
(***************************************************************************)
EXTENDS IngestCache, SequenceTheorems, TLAPS

USE IngestAssumption

-----------------------------------------------------------------------------
(* Sequences without repetition. *)

In(s, x) == \E i \in 1 .. Len(s) : s[i] = x
Once(s) == \A i, j \in 1 .. Len(s) : s[i] = s[j] => i = j
\* t is s without x.
Less(s, x, t) ==
  /\ t \in Seq(Keys) /\ Once(t) /\ Len(t) <= Len(s)
  /\ \A y \in Keys : In(t, y) <=> In(s, y) /\ y # x

\* a and b are what is before and after the i-th element of s.
Around(s, i, a, b) ==
  /\ a \in Seq(Keys) /\ Len(a) = i - 1 /\ \A j \in 1 .. i - 1 : a[j] = s[j]
  /\ b \in Seq(Keys) /\ Len(b) = Len(s) - i /\ \A j \in 1 .. Len(s) - i : b[j] = s[i + j]
\* t is s without its i-th element.
Shortened(s, i, t) ==
  /\ t \in Seq(Keys) /\ Len(t) = Len(s) - 1
  /\ \A j \in 1 .. Len(s) - 1 : t[j] = IF j < i THEN s[j] ELSE s[j + 1]

\* The elements before and after one.
LEMMA Parts ==
  ASSUME NEW s \in Seq(Keys), NEW i \in 1 .. Len(s)
  PROVE  Around(s, i, SubSeq(s, 1, i - 1), SubSeq(s, i + 1, Len(s)))
<1>1. Len(s) \in Nat /\ \A j \in 1 .. Len(s) : s[j] \in Keys
  BY LenProperties, ElementOfSeq
<1>. DEFINE a == SubSeq(s, 1, i - 1)
            b == SubSeq(s, i + 1, Len(s))
<1>2. a \in Seq(Keys) /\ Len(a) = i - 1 /\ \A j \in 1 .. i - 1 : a[j] = s[j]
  <2>1. \A j \in 1 .. i - 1 : s[j] \in Keys
    BY <1>1
  <2>2. /\ a \in Seq(Keys) /\ Len(a) = (IF 1 <= i - 1 THEN i - 1 - 1 + 1 ELSE 0)
        /\ \A j \in 1 .. i - 1 - 1 + 1 : a[j] = s[1 + j - 1]
    BY <1>1, <2>1, SubSeqProperties
  <2>. QED BY <1>1, <2>2
<1>3. /\ b \in Seq(Keys) /\ Len(b) = Len(s) - i
      /\ \A j \in 1 .. Len(s) - i : b[j] = s[i + j]
  <2>1. \A j \in i + 1 .. Len(s) : s[j] \in Keys
    BY <1>1
  <2>2. /\ b \in Seq(Keys)
        /\ Len(b) = (IF i + 1 <= Len(s) THEN Len(s) - (i + 1) + 1 ELSE 0)
        /\ \A j \in 1 .. Len(s) - (i + 1) + 1 : b[j] = s[i + 1 + j - 1]
    BY <1>1, <2>1, SubSeqProperties
  <2>. QED BY <1>1, <2>2
<1>. QED BY <1>2, <1>3 DEF Around

\* The same parts put together.
LEMMA Joined ==
  ASSUME NEW s \in Seq(Keys), NEW i \in 1 .. Len(s), NEW a, NEW b, Around(s, i, a, b)
  PROVE  Shortened(s, i, a \o b)
<1>. USE DEF Around
<1>1. Len(s) \in Nat
  BY LenProperties
<1>2. Len(a) + Len(b) = Len(s) - 1
  BY <1>1
<1>3. a \o b \in Seq(Keys) /\ Len(a \o b) = Len(s) - 1
  BY <1>2, ConcatProperties
<1>4. ASSUME NEW j \in 1 .. Len(s) - 1
      PROVE  (a \o b)[j] = IF j < i THEN s[j] ELSE s[j + 1]
  <2>1. (a \o b)[j] = IF j <= Len(a) THEN a[j] ELSE b[j - Len(a)]
    BY <1>2, ConcatProperties
  <2>2. CASE j < i
    BY <1>1, <2>1, <2>2
  <2>3. CASE j >= i
    <3>1. ~(j <= Len(a)) /\ j - Len(a) \in 1 .. Len(s) - i /\ i + (j - Len(a)) = j + 1
      BY <1>1, <2>3
    <3>. QED BY <1>1, <2>1, <2>3, <3>1
  <2>. QED BY <1>1, <2>2, <2>3
<1>. QED BY <1>3, <1>4 DEF Shortened

\* A queue without one of its elements.
LEMMA Shifted ==
  ASSUME NEW s \in Seq(Keys), Once(s), NEW i \in 1 .. Len(s), NEW t, Shortened(s, i, t)
  PROVE  Less(s, s[i], t) /\ Len(t) = Len(s) - 1
<1>. USE DEF Shortened
<1>1. Len(s) \in Nat
  BY LenProperties
<1>2. Once(t)
  BY <1>1 DEF Once
<1>3. ASSUME NEW y \in Keys PROVE In(t, y) <=> In(s, y) /\ y # s[i]
  <2>1. ASSUME NEW j \in 1 .. Len(t), t[j] = y PROVE In(s, y) /\ y # s[i]
    <3>1. \E m \in 1 .. Len(s) : m # i /\ t[j] = s[m]
      <4>1. CASE j < i
        <5>1. j \in 1 .. Len(s) /\ j # i /\ t[j] = s[j]
          BY <1>1, <4>1
        <5>. QED BY <5>1
      <4>2. CASE j >= i
        <5>1. j + 1 \in 1 .. Len(s) /\ j + 1 # i /\ t[j] = s[j + 1]
          BY <1>1, <4>2
        <5>. QED BY <5>1
      <4>. QED BY <1>1, <4>1, <4>2
    <3>. QED BY <2>1, <3>1 DEF In, Once
  <2>2. ASSUME NEW j \in 1 .. Len(s), s[j] = y, y # s[i] PROVE In(t, y)
    <3>1. CASE j < i
      <4>1. j \in 1 .. Len(t) /\ t[j] = y
        BY <1>1, <2>2, <3>1
      <4>. QED BY <4>1 DEF In
    <3>2. CASE j > i
      <4>1. j - 1 \in 1 .. Len(t) /\ t[j - 1] = y
        BY <1>1, <2>2, <3>2
      <4>. QED BY <4>1 DEF In
    <3>. QED BY <1>1, <2>2, <3>1, <3>2
  <2>. QED BY <2>1, <2>2 DEF In
<1>. QED BY <1>1, <1>2, <1>3 DEF Less

LEMMA CutOne ==
  ASSUME NEW s \in Seq(Keys), Once(s), NEW i \in 1 .. Len(s)
  PROVE  /\ Less(s, s[i], SubSeq(s, 1, i - 1) \o SubSeq(s, i + 1, Len(s)))
         /\ Len(SubSeq(s, 1, i - 1) \o SubSeq(s, i + 1, Len(s))) = Len(s) - 1
<1>. DEFINE a == SubSeq(s, 1, i - 1)
            b == SubSeq(s, i + 1, Len(s))
<1>1. Around(s, i, a, b)
  BY Parts
<1>. HIDE DEF a, b
<1>2. Shortened(s, i, a \o b)
  BY <1>1, Joined
<1>3. Less(s, s[i], a \o b) /\ Len(a \o b) = Len(s) - 1
  BY <1>2, Shifted
<1>. QED BY <1>3 DEF a, b

\* removeOrder takes one key out.
LEMMA RemoveOrder ==
  ASSUME order \in Seq(Keys), Once(order), NEW k \in Keys
  PROVE  /\ Less(order, k, removeOrder(k))
         /\ Listed(k) => Len(removeOrder(k)) = Len(order) - 1
<1>1. CASE Listed(k)
  <2>1. Position(k) \in 1 .. Len(order) /\ order[Position(k)] = k
    BY <1>1 DEF Listed, Position
  <2>2. removeOrder(k) = SubSeq(order, 1, Position(k) - 1)
                           \o SubSeq(order, Position(k) + 1, Len(order))
    BY <1>1 DEF removeOrder
  <2>. QED BY <1>1, <2>1, <2>2, CutOne
<1>2. CASE ~Listed(k)
  <2>1. removeOrder(k) = order
    BY <1>2 DEF removeOrder
  <2>. QED BY <1>2, <2>1, LenProperties DEF Less, Listed, In
<1>. QED BY <1>1, <1>2

\* touch puts one key at the end.
LEMMA Touch ==
  ASSUME order \in Seq(Keys), Once(order), NEW k \in Keys
  PROVE  /\ touch(k) \in Seq(Keys) /\ Once(touch(k)) /\ touch(k) # <<>>
         /\ \A y \in Keys : In(touch(k), y) <=> In(order, y) \/ y = k
         /\ Len(touch(k)) = Len(removeOrder(k)) + 1
         /\ touch(k)[Len(touch(k))] = k
<1>. DEFINE r == removeOrder(k)
            q == touch(k)
<1>1. Less(order, k, r)
  BY RemoveOrder
<1>2. r \in Seq(Keys) /\ Len(r) \in Nat
  BY <1>1, LenProperties DEF Less
<1>3. /\ q \in Seq(Keys) /\ Len(q) = Len(r) + 1 /\ q # <<>>
      /\ \A i \in 1 .. Len(r) : q[i] = r[i]
      /\ q[Len(r) + 1] = k
  <2>. HIDE DEF r
  <2>. QED BY <1>2 DEF touch, r
<1>. HIDE DEF r, q
<1>4. \A i \in 1 .. Len(r) : r[i] # k
  <2>1. ~In(r, k)
    BY <1>1 DEF Less
  <2>. QED BY <2>1 DEF In
<1>5. Once(q)
  BY <1>1, <1>2, <1>3, <1>4 DEF Once, Less
<1>6. ASSUME NEW y \in Keys PROVE In(q, y) <=> In(r, y) \/ y = k
  BY <1>2, <1>3 DEF In
<1>7. \A y \in Keys : In(q, y) <=> In(order, y) \/ y = k
  BY <1>1, <1>6 DEF Less
<1>. QED BY <1>2, <1>3, <1>5, <1>7 DEF q, r

\* The first of a queue is gone from its tail.
LEMMA TailOf ==
  ASSUME NEW q \in Seq(Keys), Once(q), q # <<>>
  PROVE  Less(q, Head(q), Tail(q)) /\ Len(Tail(q)) = Len(q) - 1 /\ Head(q) = q[1]
<1>1. Len(q) \in Nat \ {0} /\ Head(q) = q[1]
  BY EmptySeq
<1>2. SubSeq(q, 1, 0) = <<>> /\ SubSeq(q, 2, Len(q)) \in Seq(Keys)
  <2>1. \A j \in 2 .. Len(q) : q[j] \in Keys
    BY <1>1, ElementOfSeq
  <2>. QED BY <1>1, <2>1, SubSeqEmpty, SubSeqProperties
<1>3. SubSeq(q, 1, 1 - 1) \o SubSeq(q, 1 + 1, Len(q)) = Tail(q)
  BY <1>1, <1>2, TailIsSubSeq, ConcatEmptySeq
<1>4. 1 \in 1 .. Len(q)
  BY <1>1
<1>. QED BY <1>1, <1>3, <1>4, CutOne

-----------------------------------------------------------------------------
(* The LRU. *)

Lru == l1 \in [Keys -> Entry] /\ order \in Seq(Keys) /\ OrderListsCache

LEMMA Capacity == MaxEntries \in Nat /\ MaxEntries >= 1
BY DEF IngestAssumption

LEMMA Crowded ==
  ASSUME NEW n \in Nat, NEW m \in Nat, m >= 1, n > m
  PROVE  1 \in 1 .. n /\ n \in 1 .. n /\ n # 1
OBVIOUS

LEMMA SomeContent == AnyContent \in Contents /\ AnyContent.hashed \in Hashed
<1>1. PICK h \in Hashed, u \in Unhashed : TRUE
  BY DEF IngestAssumption
<1>2. [hashed |-> h, rest |-> u] \in Contents
  BY DEF Contents
<1>3. AnyContent \in Contents
  BY <1>2 DEF AnyContent
<1>. QED BY <1>3 DEF Contents

LEMMA Values == NoEntry \in Entry /\ ~NoEntry.has
BY SomeContent DEF NoEntry, Entry

LEMMA Distinct ==
  ASSUME Lru
  PROVE  Once(order) /\ \A k \in Keys : Listed(k) <=> In(order, k)
BY DEF Lru, OrderListsCache, Once, Listed, In

\* An invalid entry goes, from both maps.
LEMMA Deleted ==
  ASSUME Lru, NEW k \in Keys, deleteEntryLocked(k)
  PROVE  Lru' /\ \A y \in Keys : l1'[y] \in {l1[y], NoEntry}
<1>1. l1' \in [Keys -> Entry] /\ \A y \in Keys : l1'[y] = IF y = k THEN NoEntry ELSE l1[y]
  BY Values DEF deleteEntryLocked, Lru
<1>2. Less(order, k, order')
  BY Distinct, RemoveOrder DEF deleteEntryLocked, Lru
<1>3. ASSUME NEW y \in Keys PROVE l1'[y].has <=> Listed(y)'
  <2>1. Listed(y)' <=> In(order, y) /\ y # k
    BY <1>2 DEF Less, Listed, In
  <2>2. l1[y].has <=> In(order, y)
    BY Distinct DEF Lru, OrderListsCache
  <2>. QED BY <1>1, <2>1, <2>2, Values
<1>4. order' \in Seq(Keys) /\ Once(order') /\ Len(order') <= MaxEntries
  <2>1. Len(order') <= Len(order) /\ Len(order) <= MaxEntries
    BY <1>2 DEF Less, Lru, OrderListsCache
  <2>2. order' \in Seq(Keys) /\ Len(order') \in Nat /\ Len(order) \in Nat
    BY <1>2, LenProperties DEF Less, Lru
  <2>. QED BY <1>2, <2>1, <2>2 DEF Less
<1>5. OrderListsCache'
  BY <1>3, <1>4 DEF OrderListsCache, Once
<1>. QED BY <1>1, <1>4, <1>5 DEF Lru

\* A hit moves its key to the end.
LEMMA Touched ==
  ASSUME Lru, NEW k \in Keys, l1[k].has, order' = touch(k), UNCHANGED l1
  PROVE  Lru'
<1>1. Once(order) /\ In(order, k) /\ Listed(k)
  BY Distinct DEF Lru, OrderListsCache
<1>2. /\ order' \in Seq(Keys) /\ Once(order')
      /\ \A y \in Keys : In(order', y) <=> In(order, y)
      /\ Len(order') = Len(removeOrder(k)) + 1
  BY <1>1, Touch DEF Lru
<1>3. Len(order') <= MaxEntries
  <2>1. Len(removeOrder(k)) = Len(order) - 1
    BY <1>1, RemoveOrder DEF Lru
  <2>2. Len(order) \in Nat /\ Len(order) <= MaxEntries
    BY LenProperties DEF Lru, OrderListsCache
  <2>. QED BY <1>2, <2>1, <2>2
<1>4. \A y \in Keys : l1'[y].has <=> Listed(y)'
  BY <1>2, Distinct DEF Lru, OrderListsCache, Listed, In
<1>5. OrderListsCache'
  BY <1>2, <1>3, <1>4 DEF OrderListsCache, Once
<1>. QED BY <1>2, <1>5 DEF Lru

\* A new entry displaces the oldest, never itself.
LEMMA Inserted ==
  ASSUME Lru, NEW k \in Keys, NEW e \in Entry, e.has, insertEntryLocked(k, e)
  PROVE  Lru' /\ \A y \in Keys : l1'[y] \in {l1[y], NoEntry, e}
<1>. DEFINE q == touch(k)
<1>1. /\ q \in Seq(Keys) /\ Once(q) /\ q # <<>>
      /\ \A y \in Keys : In(q, y) <=> In(order, y) \/ y = k
      /\ Len(q) = Len(removeOrder(k)) + 1 /\ q[Len(q)] = k
  BY Distinct, Touch DEF Lru
<1>2. Len(q) \in Nat /\ Len(q) <= MaxEntries + 1
  <2>1. Len(removeOrder(k)) <= Len(order) /\ Len(order) <= MaxEntries
    BY Distinct, RemoveOrder DEF Less, Lru, OrderListsCache
  <2>2. removeOrder(k) \in Seq(Keys)
    BY Distinct, RemoveOrder DEF Less, Lru
  <2>3. Len(removeOrder(k)) \in Nat /\ Len(order) \in Nat /\ Len(q) \in Nat
    BY <1>1, <2>2, LenProperties DEF Lru
  <2>. QED BY <1>1, <2>1, <2>3
<1>3. \A y \in Keys : l1[y].has <=> In(order, y)
  BY Distinct DEF Lru, OrderListsCache
<1>4. \/ /\ Len(q) > MaxEntries /\ order' = Tail(q)
         /\ l1' = [[l1 EXCEPT ![k] = e] EXCEPT ![Head(q)] = NoEntry]
      \/ ~(Len(q) > MaxEntries) /\ order' = q /\ l1' = [l1 EXCEPT ![k] = e]
  BY DEF insertEntryLocked
<1>. HIDE DEF q
<1>5. CASE Len(q) > MaxEntries
  <2>1. Less(q, Head(q), Tail(q)) /\ Len(Tail(q)) = Len(q) - 1 /\ Head(q) = q[1]
    BY <1>1, TailOf
  <2>2. Head(q) # k /\ Head(q) \in Keys
    <3>1. 1 \in 1 .. Len(q) /\ Len(q) \in 1 .. Len(q) /\ Len(q) # 1
      BY <1>2, <1>5, Capacity, Crowded
    <3>2. q[1] # q[Len(q)]
      BY <1>1, <3>1 DEF Once
    <3>3. q[1] \in Keys
      BY <1>1, <3>1, ElementOfSeq
    <3>. QED BY <1>1, <2>1, <3>2, <3>3
  <2>3. /\ l1' \in [Keys -> Entry]
        /\ \A y \in Keys : l1'[y] = IF y = Head(q) THEN NoEntry
                                    ELSE IF y = k THEN e ELSE l1[y]
    BY <1>4, <1>5, <2>2, Values DEF Lru
  <2>4. order' \in Seq(Keys) /\ Once(order') /\ Len(order') <= MaxEntries
    <3>1. order' = Tail(q) /\ Len(q) - 1 <= MaxEntries
      BY <1>2, <1>4, <1>5, Capacity
    <3>. QED BY <2>1, <3>1 DEF Less
  <2>5. ASSUME NEW y \in Keys PROVE l1'[y].has <=> Listed(y)'
    <3>1. Listed(y)' <=> (In(order, y) \/ y = k) /\ y # Head(q)
      <4>1. order' = Tail(q)
        BY <1>4, <1>5
      <4>2. Listed(y)' <=> In(Tail(q), y)
        BY <4>1 DEF Listed, In
      <4>3. In(Tail(q), y) <=> In(q, y) /\ y # Head(q)
        BY <2>1 DEF Less
      <4>. QED BY <1>1, <4>2, <4>3
    <3>2. l1'[y].has <=> (In(order, y) \/ y = k) /\ y # Head(q)
      BY <1>3, <2>2, <2>3, Values
    <3>. QED BY <3>1, <3>2
  <2>6. OrderListsCache'
    BY <2>4, <2>5 DEF OrderListsCache, Once
  <2>. QED BY <2>3, <2>4, <2>6 DEF Lru
<1>6. CASE ~(Len(q) > MaxEntries)
  <2>1. /\ l1' \in [Keys -> Entry]
        /\ \A y \in Keys : l1'[y] = IF y = k THEN e ELSE l1[y]
    BY <1>4, <1>6 DEF Lru
  <2>2. order' \in Seq(Keys) /\ Once(order') /\ Len(order') <= MaxEntries
    BY <1>1, <1>2, <1>4, <1>6
  <2>3. ASSUME NEW y \in Keys PROVE l1'[y].has <=> Listed(y)'
    <3>1. Listed(y)' <=> In(order, y) \/ y = k
      BY <1>1, <1>4, <1>6 DEF Listed, In
    <3>. QED BY <1>3, <2>1, <3>1
  <2>4. OrderListsCache'
    BY <2>2, <2>3 DEF OrderListsCache, Once
  <2>. QED BY <2>1, <2>2, <2>4 DEF Lru
<1>. QED BY <1>5, <1>6

-----------------------------------------------------------------------------
(* The invariant.  What keeps an answer current is that an entry's listing shows   *)
(* the tree whose hash it carries: put alone makes entries, and only an edit       *)
(* between the walk and the hash could part the two.                               *)

Exact(e) == e.has /\ ~e.torn => e.list.hashed = e.hash
CachesExact == \A k \in Keys : Exact(l1[k]) /\ Exact(l2[k])

\* A call that runs has a key, and has seen the present tree.
Running(c) == pc[c] # "idle" => key[c] \in Keys /\ RepoContentHash \in during[c]
\* What a call holds.
Holds(c) ==
  /\ pc[c] \in {"check", "put", "set", "answered"} => got[c].has
  /\ pc[c] \in {"check", "set", "answered"} => Exact(got[c])
  /\ pc[c] = "put" /\ ~got[c].torn => got[c].list.hashed = RepoContentHash
  /\ pc[c] \in {"set", "answered"} => got[c].hash \in during[c]

Inv ==
  /\ TypeOK /\ CachesExact
  /\ \A c \in Callers : Running(c) /\ Holds(c)

LEMMA InvInit ==
  Init => Inv
<1>. SUFFICES ASSUME Init PROVE Inv
  OBVIOUS
<1>1. OrderListsCache
  BY Values, Capacity DEF Init, OrderListsCache, Listed
<1>2. TypeOK
  BY <1>1, SomeContent, Values DEF Init, TypeOK, Steps, IngestAssumption
<1>3. CachesExact
  BY Values DEF Init, CachesExact, Exact
<1>. QED BY <1>2, <1>3 DEF Init, Inv, Running, Holds

LEMMA TypeLru == TypeOK => Lru
BY DEF TypeOK, Lru

\* A call's step keeps the invariant if it keeps the caches and its own part.
LEMMA CallStep ==
  ASSUME Inv, NEW c \in Callers, UNCHANGED <<tree, bounds>>,
         NEW p \in Steps, NEW q \in Keys \cup {NoKey}, NEW g \in Entry,
         NEW d \in SUBSET Hashed,
         pc' = [pc EXCEPT ![c] = p], key' = [key EXCEPT ![c] = q],
         got' = [got EXCEPT ![c] = g], during' = [during EXCEPT ![c] = d],
         Lru', l2' \in [Keys -> Entry], CachesExact',
         p # "idle" => q \in Keys /\ RepoContentHash \in d,
         p \in {"check", "put", "set", "answered"} => g.has,
         p \in {"check", "set", "answered"} => Exact(g),
         p = "put" /\ ~g.torn => g.list.hashed = RepoContentHash,
         p \in {"set", "answered"} => g.hash \in d
  PROVE  Inv'
<1>1. TypeOK'
  BY DEF Inv, TypeOK, Lru, bounds
<1>2. RepoContentHash' = RepoContentHash
  BY DEF RepoContentHash
<1>3. /\ pc'[c] = p /\ key'[c] = q /\ got'[c] = g /\ during'[c] = d
      /\ \A b \in Callers \ {c} :
           /\ pc'[b] = pc[b] /\ key'[b] = key[b] /\ got'[b] = got[b]
           /\ during'[b] = during[b]
  BY DEF Inv, TypeOK
<1>4. Running(c)' /\ Holds(c)'
  BY <1>2, <1>3 DEF Running, Holds, Exact
<1>5. ASSUME NEW b \in Callers \ {c} PROVE Running(b)' /\ Holds(b)'
  BY <1>2, <1>3 DEF Inv, Running, Holds, Exact
<1>. QED BY <1>1, <1>4, <1>5 DEF Inv

\* What the steps find: a call that runs, with values of their types.
LEMMA Present ==
  ASSUME Inv, NEW c \in Callers
  PROVE  /\ Lru /\ l2 \in [Keys -> Entry] /\ CachesExact
         /\ tree \in Contents /\ RepoContentHash \in Hashed
         /\ pc[c] \in Steps /\ key[c] \in Keys \cup {NoKey} /\ got[c] \in Entry
         /\ during[c] \in SUBSET Hashed
         /\ pc = [pc EXCEPT ![c] = pc[c]] /\ key = [key EXCEPT ![c] = key[c]]
         /\ got = [got EXCEPT ![c] = got[c]]
         /\ during = [during EXCEPT ![c] = during[c]]
         /\ Running(c) /\ Holds(c)
<1>1. Lru
  BY TypeLru DEF Inv
<1>2. RepoContentHash \in Hashed
  BY DEF Inv, TypeOK, Contents, RepoContentHash
<1>. QED BY <1>1, <1>2 DEF Inv, TypeOK

\* A step that leaves the caches alone.
LEMMA CachesAlone ==
  ASSUME Inv, NEW c \in Callers, UNCHANGED <<lru, l2>>
  PROVE  Lru' /\ l2' \in [Keys -> Entry] /\ CachesExact'
BY Present DEF lru, Lru, OrderListsCache, Listed, CachesExact, Exact

\* A step that puts an exact entry into a cache, or takes one out.
LEMMA CachesStayExact ==
  ASSUME NEW e \in Entry, Exact(e), CachesExact,
         \A y \in Keys : l1'[y] \in {l1[y], NoEntry, e},
         \A y \in Keys : l2'[y] \in {l2[y], NoEntry, e}
  PROVE  CachesExact'
BY Values DEF CachesExact, Exact

LEMMA IngestRepoStep ==
  ASSUME Inv, NEW c \in Callers, IngestRepo(c)
  PROVE  Inv'
<1>1. PICK k \in Keys : key' = [key EXCEPT ![c] = k]
  BY DEF IngestRepo
<1>2. Lru' /\ l2' \in [Keys -> Entry] /\ CachesExact'
  BY CachesAlone DEF IngestRepo
<1>3. /\ UNCHANGED <<tree, bounds>>
      /\ pc' = [pc EXCEPT ![c] = "l1"] /\ got' = [got EXCEPT ![c] = got[c]]
      /\ during' = [during EXCEPT ![c] = {RepoContentHash}]
  BY Present DEF IngestRepo, Goto
<1>4. {RepoContentHash} \in SUBSET Hashed /\ got[c] \in Entry /\ "l1" \in Steps
  BY Present DEF Steps
<1>. QED BY <1>1, <1>2, <1>3, <1>4, CallStep

LEMMA GetL1Step ==
  ASSUME Inv, NEW c \in Callers, getL1Locked(c)
  PROVE  Inv'
<1>. DEFINE k == key[c]
<1>1. /\ pc[c] = "l1" /\ k \in Keys /\ RepoContentHash \in during[c]
      /\ UNCHANGED <<tree, bounds, l2>>
      /\ key' = [key EXCEPT ![c] = k] /\ during' = [during EXCEPT ![c] = during[c]]
  BY Present DEF getL1Locked, env, Running
<1>2. /\ l1[k] \in Entry /\ Exact(l1[k]) /\ l2' \in [Keys -> Entry]
      /\ got[c] \in Entry /\ during[c] \in SUBSET Hashed
      /\ {"answered", "l2"} \subseteq Steps
  BY <1>1, Present DEF Steps, Lru, CachesExact
<1>3. CASE /\ l1[k].has /\ Valid(l1[k])
           /\ order' = touch(k) /\ Answer(c, l1[k]) /\ UNCHANGED l1
  <2>1. Lru'
    BY <1>1, <1>3, Present, Touched
  <2>2. CachesExact' /\ l1[k].hash \in during[c]
    BY <1>1, <1>3, Present DEF CachesExact, Exact, Valid
  <2>3. pc' = [pc EXCEPT ![c] = "answered"] /\ got' = [got EXCEPT ![c] = l1[k]]
    BY <1>3 DEF Answer, Goto
  <2>. QED BY <1>1, <1>2, <1>3, <2>1, <2>2, <2>3, CallStep
<1>4. CASE /\ l1[k].has /\ ~Valid(l1[k])
           /\ deleteEntryLocked(k) /\ Goto(c, "l2") /\ UNCHANGED got
  <2>1. Lru' /\ \A y \in Keys : l1'[y] \in {l1[y], NoEntry}
    BY <1>1, <1>4, Present, Deleted
  <2>2. CachesExact'
    BY <1>1, <2>1, Present, Values DEF CachesExact, Exact
  <2>3. pc' = [pc EXCEPT ![c] = "l2"] /\ got' = [got EXCEPT ![c] = got[c]]
    BY <1>4, Present DEF Goto
  <2>. QED BY <1>1, <1>2, <2>1, <2>2, <2>3, CallStep
<1>5. CASE ~l1[k].has /\ Goto(c, "l2") /\ UNCHANGED <<lru, got>>
  <2>1. Lru' /\ CachesExact'
    BY <1>1, <1>5, CachesAlone
  <2>2. pc' = [pc EXCEPT ![c] = "l2"] /\ got' = [got EXCEPT ![c] = got[c]]
    BY <1>5, Present DEF Goto
  <2>. QED BY <1>1, <1>2, <2>1, <2>2, CallStep
<1>. QED BY <1>3, <1>4, <1>5 DEF getL1Locked

LEMMA GetL2Step ==
  ASSUME Inv, NEW c \in Callers, GetL2(c)
  PROVE  Inv'
<1>1. /\ pc[c] = "l2" /\ key[c] \in Keys /\ RepoContentHash \in during[c]
      /\ UNCHANGED <<tree, bounds>>
      /\ key' = [key EXCEPT ![c] = key[c]]
      /\ during' = [during EXCEPT ![c] = during[c]]
      /\ during[c] \in SUBSET Hashed
  BY Present DEF GetL2, env, Running
<1>2. Lru' /\ l2' \in [Keys -> Entry] /\ CachesExact'
  BY CachesAlone DEF GetL2
<1>3. CASE /\ l2[key[c]].has
           /\ got' = [got EXCEPT ![c] = l2[key[c]]] /\ Goto(c, "check")
  <2>1. l2[key[c]] \in Entry /\ Exact(l2[key[c]])
    BY <1>1, Present DEF CachesExact
  <2>2. pc' = [pc EXCEPT ![c] = "check"] /\ "check" \in Steps
    BY <1>3 DEF Goto, Steps
  <2>. QED BY <1>1, <1>2, <1>3, <2>1, <2>2, CallStep
<1>4. CASE Goto(c, "walk") /\ UNCHANGED got
  <2>1. got' = [got EXCEPT ![c] = got[c]] /\ got[c] \in Entry
    BY <1>4, Present
  <2>2. pc' = [pc EXCEPT ![c] = "walk"] /\ "walk" \in Steps
    BY <1>4 DEF Goto, Steps
  <2>. QED BY <1>1, <1>2, <2>1, <2>2, CallStep
<1>. QED BY <1>3, <1>4 DEF GetL2

LEMMA CheckL2Step ==
  ASSUME Inv, NEW c \in Callers, CheckL2(c)
  PROVE  Inv'
<1>1. /\ pc[c] = "check" /\ key[c] \in Keys /\ RepoContentHash \in during[c]
      /\ got[c].has /\ Exact(got[c])
      /\ UNCHANGED <<tree, bounds>>
      /\ key' = [key EXCEPT ![c] = key[c]]
      /\ during' = [during EXCEPT ![c] = during[c]]
      /\ got[c] \in Entry /\ during[c] \in SUBSET Hashed
      /\ l2 \in [Keys -> Entry] /\ CachesExact
  BY Present DEF CheckL2, env, Running, Holds
<1>2. CASE got[c].hash = RepoContentHash /\ Promote(c)
  <2>1. PICK old \in BOOLEAN : insertEntryLocked(key[c], [got[c] EXCEPT !.old = old])
    BY <1>2 DEF Promote
  <2>. DEFINE e == [got[c] EXCEPT !.old = old]
  <2>2. e \in Entry /\ e.has /\ Exact(e)
    BY <1>1 DEF Entry, Exact
  <2>. HIDE DEF e
  <2>3. Lru' /\ \A y \in Keys : l1'[y] \in {l1[y], NoEntry, e}
    BY <1>1, <2>1, <2>2, Present, Inserted DEF e
  <2>4. l2' = l2 /\ l2' \in [Keys -> Entry]
    BY <1>1, <1>2 DEF Promote
  <2>5. CachesExact' /\ got[c].hash \in during[c]
    BY <1>1, <1>2, <2>2, <2>3, <2>4, CachesStayExact
  <2>6. /\ pc' = [pc EXCEPT ![c] = "answered"] /\ got' = [got EXCEPT ![c] = got[c]]
        /\ "answered" \in Steps
    BY <1>2 DEF Promote, Answer, Goto, Steps
  <2>. QED BY <1>1, <2>3, <2>4, <2>5, <2>6, CallStep
<1>3. CASE got[c].hash # RepoContentHash /\ DelL2(c)
  <2>1. UNCHANGED lru /\ l2' \in [Keys -> Entry] /\ \A y \in Keys : l2'[y] \in {l2[y], NoEntry}
    BY <1>1, <1>3, Values DEF DelL2
  <2>2. Lru' /\ CachesExact'
    BY <1>1, <2>1, Present, Values DEF lru, Lru, OrderListsCache, Listed, CachesExact, Exact
  <2>3. /\ pc' = [pc EXCEPT ![c] = "walk"] /\ got' = [got EXCEPT ![c] = NoEntry]
        /\ "walk" \in Steps
    BY <1>3, Present DEF DelL2, Goto, Steps
  <2>. QED BY <1>1, <2>1, <2>2, <2>3, Values, CallStep
<1>. QED BY <1>2, <1>3 DEF CheckL2

LEMMA LeaveStep ==
  ASSUME Inv, NEW c \in Callers, Leave(c), UNCHANGED <<lru, l2, tree, bounds>>
  PROVE  Inv'
<1>1. Lru' /\ l2' \in [Keys -> Entry] /\ CachesExact'
  BY CachesAlone
<1>2. /\ pc' = [pc EXCEPT ![c] = "idle"] /\ key' = [key EXCEPT ![c] = NoKey]
      /\ got' = [got EXCEPT ![c] = NoEntry] /\ during' = [during EXCEPT ![c] = {}]
      /\ "idle" \in Steps /\ NoKey \in Keys \cup {NoKey} /\ {} \in SUBSET Hashed
  BY DEF Leave, Goto, Steps
<1>. QED BY <1>1, <1>2, Values, CallStep

LEMMA WalkStep ==
  ASSUME Inv, NEW c \in Callers, Walk(c)
  PROVE  Inv'
<1>1. UNCHANGED <<lru, l2, tree, bounds>>
  BY DEF Walk
<1>2. CASE Leave(c)
  BY <1>1, <1>2, LeaveStep
<1>3. CASE /\ got' = [got EXCEPT ![c].has = TRUE, ![c].list = tree]
           /\ Goto(c, "put") /\ UNCHANGED <<key, during>>
  <2>1. /\ key[c] \in Keys /\ RepoContentHash \in during[c] /\ tree \in Contents
        /\ key' = [key EXCEPT ![c] = key[c]]
        /\ during' = [during EXCEPT ![c] = during[c]]
        /\ got[c] \in Entry /\ during[c] \in SUBSET Hashed
    BY <1>3, Present DEF Walk, Running
  <2>. DEFINE e == [got[c] EXCEPT !.has = TRUE, !.list = tree]
  <2>2. e \in Entry /\ e.has /\ e.list = tree
    BY <2>1 DEF Entry
  <2>3. /\ pc' = [pc EXCEPT ![c] = "put"] /\ got' = [got EXCEPT ![c] = e]
        /\ "put" \in Steps
    BY <1>3, Present DEF Goto, Steps
  <2>4. Lru' /\ l2' \in [Keys -> Entry] /\ CachesExact'
    BY <1>1, CachesAlone
  <2>. HIDE DEF e
  <2>5. e.list.hashed = RepoContentHash
    BY <2>2 DEF RepoContentHash
  <2>. QED BY <1>1, <2>1, <2>2, <2>3, <2>4, <2>5, CallStep
<1>. QED BY <1>2, <1>3 DEF Walk

LEMMA PutL1Step ==
  ASSUME Inv, NEW c \in Callers, PutL1(c)
  PROVE  Inv'
<1>. DEFINE e == [got[c] EXCEPT !.hash = RepoContentHash]
<1>1. /\ pc[c] = "put" /\ key[c] \in Keys /\ RepoContentHash \in during[c]
      /\ got[c].has /\ RepoContentHash \in Hashed
      /\ (~got[c].torn => got[c].list.hashed = RepoContentHash)
      /\ UNCHANGED <<tree, bounds, l2>>
      /\ key' = [key EXCEPT ![c] = key[c]]
      /\ during' = [during EXCEPT ![c] = during[c]]
      /\ got[c] \in Entry /\ during[c] \in SUBSET Hashed
      /\ l2 \in [Keys -> Entry] /\ CachesExact
  BY Present DEF PutL1, env, Running, Holds
<1>2. e \in Entry /\ e.has /\ e.hash = RepoContentHash /\ Exact(e)
  BY <1>1 DEF Entry, Exact
<1>3. /\ pc' = [pc EXCEPT ![c] = "set"] /\ "set" \in Steps
      /\ insertEntryLocked(key[c], e) /\ got' = [got EXCEPT ![c] = e]
  BY <1>1 DEF PutL1, Goto, Steps
<1>. HIDE DEF e
<1>4. Lru' /\ \A y \in Keys : l1'[y] \in {l1[y], NoEntry, e}
  BY <1>1, <1>2, <1>3, Present, Inserted
<1>5. l2' \in [Keys -> Entry] /\ CachesExact'
  BY <1>1, <1>2, <1>4, CachesStayExact
<1>. QED BY <1>1, <1>2, <1>3, <1>4, <1>5, CallStep

LEMMA SetL2Step ==
  ASSUME Inv, NEW c \in Callers, SetL2(c)
  PROVE  Inv'
<1>1. /\ pc[c] = "set" /\ key[c] \in Keys /\ RepoContentHash \in during[c]
      /\ got[c].has /\ Exact(got[c]) /\ got[c].hash \in during[c]
      /\ UNCHANGED <<tree, bounds, lru>>
      /\ key' = [key EXCEPT ![c] = key[c]]
      /\ during' = [during EXCEPT ![c] = during[c]]
      /\ got[c] \in Entry /\ during[c] \in SUBSET Hashed
      /\ l2 \in [Keys -> Entry] /\ CachesExact
  BY Present DEF SetL2, env, Running, Holds
<1>2. l2' \in [Keys -> Entry] /\ \A y \in Keys : l2'[y] \in {l2[y], NoEntry, got[c]}
  BY <1>1 DEF SetL2
<1>3. Lru' /\ l1' = l1
  BY <1>1, Present DEF lru, Lru, OrderListsCache, Listed
<1>4. CachesExact'
  BY <1>1, <1>2, <1>3, CachesStayExact
<1>5. /\ pc' = [pc EXCEPT ![c] = "answered"] /\ got' = [got EXCEPT ![c] = got[c]]
      /\ "answered" \in Steps
  BY DEF SetL2, Answer, Goto, Steps
<1>. QED BY <1>1, <1>2, <1>3, <1>4, <1>5, CallStep

LEMMA EditStep ==
  ASSUME Inv, Edit
  PROVE  Inv'
<1>1. /\ UNCHANGED <<l1, order, l2, pc, key, restarts>>
      /\ edits' \in 0 .. MaxEdits /\ tree' \in Contents
  BY DEF Inv, TypeOK, Edit, lru, IngestAssumption
<1>2. RepoContentHash' \in Hashed
  BY <1>1 DEF Contents, RepoContentHash
<1>3. /\ \A c \in Callers : during'[c] = IF pc[c] = "idle" THEN {}
                                         ELSE during[c] \cup {RepoContentHash'}
      /\ during' \in [Callers -> SUBSET Hashed]
  BY <1>2 DEF Inv, TypeOK, Edit
<1>4. ASSUME NEW c \in Callers
      PROVE  /\ got'[c] \in Entry /\ got'[c].has = got[c].has
             /\ got'[c].list = got[c].list /\ got'[c].hash = got[c].hash
             /\ got'[c].torn = (got[c].torn \/ Tears(c))
  <2>1. got[c] \in Entry
    BY DEF Inv, TypeOK
  <2>2. got'[c] = IF Tears(c) THEN [got[c] EXCEPT !.torn = TRUE] ELSE got[c]
    BY DEF Edit
  <2>. QED BY <2>1, <2>2 DEF Entry, Tears
<1>5. got' \in [Callers -> Entry]
  <2>1. got' = [c \in Callers |-> IF Tears(c) THEN [got[c] EXCEPT !.torn = TRUE] ELSE got[c]]
    BY DEF Edit
  <2>. QED BY <1>4, <2>1
<1>6. TypeOK'
  BY <1>1, <1>3, <1>5 DEF Inv, TypeOK, OrderListsCache, Listed
<1>7. ASSUME NEW c \in Callers PROVE Running(c)' /\ Holds(c)'
  <2>1. Running(c)'
    BY <1>1, <1>3 DEF Inv, Running
  <2>2. pc[c] \in {"check", "put", "set", "answered"} => got'[c].has
    BY <1>4 DEF Inv, Holds
  <2>3. pc[c] \in {"check", "set", "answered"} => Exact(got'[c])
    BY <1>4 DEF Inv, Holds, Exact
  <2>4. pc[c] = "put" /\ ~got'[c].torn => got'[c].list.hashed = RepoContentHash'
    BY <1>4 DEF Inv, Holds, Tears
  <2>5. pc[c] \in {"set", "answered"} => got'[c].hash \in during'[c]
    BY <1>3, <1>4 DEF Inv, Holds
  <2>. QED BY <1>1, <2>1, <2>2, <2>3, <2>4, <2>5 DEF Holds, Exact
<1>8. CachesExact'
  BY <1>1 DEF Inv, CachesExact, Exact
<1>. QED BY <1>6, <1>7, <1>8 DEF Inv

\* Steps that only touch entries of the caches.
LEMMA CachesStep ==
  ASSUME Inv, UNCHANGED <<call, env, bounds>>, Lru', l2' \in [Keys -> Entry],
         CachesExact'
  PROVE  Inv'
<1>1. TypeOK'
  BY DEF Inv, TypeOK, Lru, call, env, bounds
<1>2. \A c \in Callers : Running(c)' /\ Holds(c)'
  BY DEF Inv, call, env, Running, Holds, Exact, RepoContentHash
<1>. QED BY <1>1, <1>2 DEF Inv

LEMMA AgeL1Step ==
  ASSUME Inv, NEW k \in Keys, AgeL1(k)
  PROVE  Inv'
<1>1. Lru /\ l2 \in [Keys -> Entry] /\ CachesExact
  BY TypeLru DEF Inv, TypeOK
<1>2. /\ l1' \in [Keys -> Entry]
      /\ \A y \in Keys : /\ l1'[y].has = l1[y].has /\ l1'[y].list = l1[y].list
                         /\ l1'[y].hash = l1[y].hash /\ l1'[y].torn = l1[y].torn
  BY <1>1 DEF AgeL1, Lru, Entry
<1>3. Lru'
  BY <1>1, <1>2 DEF AgeL1, Lru, OrderListsCache, Listed
<1>4. CachesExact'
  BY <1>1, <1>2 DEF AgeL1, CachesExact, Exact
<1>. QED BY <1>1, <1>3, <1>4, CachesStep DEF AgeL1

LEMMA ExpireL2Step ==
  ASSUME Inv, NEW k \in Keys, ExpireL2(k)
  PROVE  Inv'
<1>1. Lru /\ l2 \in [Keys -> Entry] /\ CachesExact
  BY TypeLru DEF Inv, TypeOK
<1>2. l2' \in [Keys -> Entry] /\ \A y \in Keys : l2'[y] \in {l2[y], NoEntry}
  BY <1>1, Values DEF ExpireL2
<1>3. Lru'
  BY <1>1 DEF ExpireL2, lru, Lru, OrderListsCache, Listed
<1>4. CachesExact'
  BY <1>1, <1>2, Values DEF ExpireL2, lru, CachesExact, Exact
<1>. QED BY <1>2, <1>3, <1>4, CachesStep DEF ExpireL2

LEMMA RestartStep ==
  ASSUME Inv, Restart
  PROVE  Inv'
<1>1. Lru'
  <2>1. order' = <<>> /\ l1' = [k \in Keys |-> NoEntry]
    BY DEF Restart
  <2>. QED BY <2>1, Values, Capacity DEF Lru, OrderListsCache, Listed
<1>2. CachesExact'
  BY Values DEF Restart, Inv, CachesExact, Exact
<1>3. TypeOK'
  <2>1. l1' \in [Keys -> Entry] /\ order' \in Seq(Keys) /\ OrderListsCache'
    BY <1>1 DEF Lru
  <2>2. /\ UNCHANGED <<l2, tree, edits>> /\ restarts' \in 0 .. MaxRestarts
        /\ pc' \in [Callers -> Steps] /\ key' \in [Callers -> Keys \cup {NoKey}]
        /\ got' \in [Callers -> Entry] /\ during' \in [Callers -> SUBSET Hashed]
    BY Values DEF Inv, TypeOK, Restart, Steps, IngestAssumption
  <2>. QED BY <2>1, <2>2 DEF Inv, TypeOK
<1>4. \A c \in Callers : Running(c)' /\ Holds(c)'
  BY DEF Restart, Running, Holds
<1>. QED BY <1>2, <1>3, <1>4 DEF Inv

LEMMA InvNext ==
  Inv /\ [Next]_vars => Inv'
<1>. SUFFICES ASSUME Inv, [Next]_vars PROVE Inv'
  OBVIOUS
<1>1. ASSUME NEW c \in Callers, IngestRepo(c) PROVE Inv'
  BY <1>1, IngestRepoStep
<1>2. ASSUME NEW c \in Callers, Step(c) PROVE Inv'
  <2>1. CASE getL1Locked(c)
    BY <2>1, GetL1Step
  <2>2. CASE GetL2(c)
    BY <2>2, GetL2Step
  <2>3. CASE CheckL2(c)
    BY <2>3, CheckL2Step
  <2>4. CASE Walk(c)
    BY <2>4, WalkStep
  <2>5. CASE PutL1(c)
    BY <2>5, PutL1Step
  <2>6. CASE SetL2(c)
    BY <2>6, SetL2Step
  <2>7. CASE Return(c)
    BY <2>7, LeaveStep DEF Return
  <2>. QED BY <1>2, <2>1, <2>2, <2>3, <2>4, <2>5, <2>6, <2>7 DEF Step
<1>3. CASE Edit
  BY <1>3, EditStep
<1>4. CASE Restart
  BY <1>4, RestartStep
<1>5. ASSUME NEW k \in Keys, AgeL1(k) \/ ExpireL2(k) PROVE Inv'
  BY <1>5, AgeL1Step, ExpireL2Step
<1>6. CASE UNCHANGED vars
  <2>1. UNCHANGED <<call, env, bounds, l1, order, l2>>
    BY <1>6 DEF vars, lru
  <2>2. Lru' /\ l2' \in [Keys -> Entry] /\ CachesExact'
    BY <2>1, TypeLru DEF Inv, TypeOK, Lru, OrderListsCache, Listed, CachesExact, Exact
  <2>. QED BY <2>1, <2>2, CachesStep
<1>. QED BY <1>1, <1>2, <1>3, <1>4, <1>5, <1>6 DEF Next

-----------------------------------------------------------------------------
(* The theorems. *)

\* Every variable has its type, and however calls, evictions, invalidations and
\* restarts interleave the order of the LRU lists exactly what it caches
\* (insertEntryLocked, deleteEntryLocked, touch).
THEOREM TypeCorrect == Spec => []TypeOK
<1>1. Inv => TypeOK
  BY DEF Inv
<1>. QED BY <1>1, InvInit, InvNext, PTL DEF Spec

\* For every set of contents a hash may tell apart or not, and whatever edits, calls,
\* evictions, expiries and restarts interleave: the hash under which get or IngestRepo
\* answers was that of the tree at some moment of the call, and what the hash covers of
\* the answered listing is what the tree with this hash has, unless the hash moved
\* between the listing's own walk and put.
THEOREM AnswersAreCurrent == Spec => []AnswerIsCurrent
<1>1. Inv => AnswerIsCurrent
  BY DEF Inv, AnswerIsCurrent, Holds, Exact
<1>. QED BY <1>1, InvInit, InvNext, PTL DEF Spec
=============================================================================
