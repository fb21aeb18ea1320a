---------------------------- MODULE HashMapProofs ---------------------------
(***************************************************************************)
(* What holds of the hash map for any number of threads, any keys, any      *)
(* hash function, any key type and any sizes of the table; with it, as the  *)
(* first thing needed, what holds of its lock for any number of threads and *)
(* any of the nestings that the saved-state fields can bear.                *)
(*                                                                         *)
(* 1. The table.  IsHash says where entries are, that no key has two and    *)
(*    that they are counted; every function of Hash is shown to keep it and *)
(*    to change the set of entries as a plain set would change.  Sound adds *)
(*    when the table grows.                                                 *)
(* 2. The locks.  None of their three properties is inductive alone.  That  *)
(*    a region can be closed needs to know who may wait for what (Waiting,  *)
(*    ReadersAreAlike, ConditionIsPlain); that its end gives the right      *)
(*    cancel state back needs to know what was saved (SavedByCaller,        *)
(*    SavedInMutex, SavedInRwlock); that nobody dies with a lock needs      *)
(*    both.                                                                 *)
(* 3. The map.  A call finds out about its key in one step and acts in the  *)
(*    next.  That its finding still fits (CallsFit) needs the lock: while a *)
(*    call works, others only read, or there are no others (Regions).       *)
(* 4. The refinement.  Image() is what a set of entries stands for; every   *)
(*    call changes it as the abstract map changes its contents.             *)
(***************************************************************************)
EXTENDS HashMap, SequenceTheorems, FiniteSetTheorems, TLAPS

\* an entry: a key and its value
Entry == [key : Keys, value : Values \cup {null}]

(***************************************************************************)
(* Induction over the numbers, and with it: a function that is defined by  *)
(* recursion over an interval exists.                                      *)
(***************************************************************************)
LEMMA LeastNumber ==
  ASSUME NEW S, S \subseteq Nat, S # {}
  PROVE  \E x \in S : \A y \in S : x <= y
<1>1. PICK x \in S : \A y \in S : ~(<<y, x>> \in OpToRel(<, Nat))
  BY NatLessThanWellFounded, WFMin
<1>2. \A y \in S : ~(y < x)
  BY <1>1 DEF OpToRel
<1>3. ASSUME NEW y \in S
      PROVE  x <= y
  <2>1. x \in Nat /\ y \in Nat /\ ~(y < x)
    BY <1>2
  <2>2. QED
    BY <2>1
<1>4. QED
  BY <1>3

(* Induction: what holds of 0 and passes from a number to the next. *)
LEMMA AllNumbers ==
  ASSUME NEW S, 0 \in S, \A i \in Nat : i \in S => i + 1 \in S
  PROVE  Nat \subseteq S
<1> DEFINE Others == Nat \ S
<1>1. SUFFICES ASSUME Others # {} PROVE FALSE
  OBVIOUS
<1>2. PICK x \in Others : \A y \in Others : x <= y
  BY <1>1, LeastNumber
<1>3. x # 0 /\ x \in Nat
  OBVIOUS
<1>4. x - 1 \in Nat /\ x - 1 \notin Others
  BY <1>2, <1>3
<1>5. QED
  BY <1>3, <1>4

\* f starts with base, and each further value is made by G from its place and the value before it
Follows(f, lo, hi, base, G) ==
  f = [i \in lo .. hi |-> IF i = lo THEN base ELSE G[<<i, f[i - 1]>>]]

(* So there is a function with a given first value and a given step. *)
LEMMA RecursionExists ==
  ASSUME NEW lo \in Nat, NEW hi \in Nat, lo <= hi, NEW S, NEW base \in S,
         NEW G \in [(lo + 1 .. hi) \X S -> S]
  PROVE  \E f \in [lo .. hi -> S] : Follows(f, lo, hi, base, G)
<1> DEFINE Goes(f, k) == /\ f \in [lo .. lo + k -> S]
                         /\ \A i \in lo .. lo + k : f[i] = IF i = lo THEN base ELSE G[<<i, f[i - 1]>>]
           N == {k \in Nat : lo + k <= hi => \E f : Goes(f, k)}
<1>1. 0 \in N
  <2> DEFINE f == [i \in lo .. lo + 0 |-> base]
  <2>1. \A i \in lo .. lo + 0 : i = lo
    OBVIOUS
  <2>2. Goes(f, 0)
    BY <2>1
  <2>3. QED
    BY <2>2
<1>2. ASSUME NEW k \in Nat, k \in N
      PROVE  k + 1 \in N
  <2>1. SUFFICES ASSUME lo + (k + 1) <= hi PROVE \E f : Goes(f, k + 1)
    OBVIOUS
  <2>2. PICK g : Goes(g, k)
    BY <1>2, <2>1
  <2> DEFINE last == lo + (k + 1)
             f == [i \in lo .. last |-> IF i <= lo + k THEN g[i] ELSE G[<<last, g[lo + k]>>]]
  <2>3. /\ last \in lo + 1 .. hi /\ lo + k \in lo .. lo + k /\ last - 1 = lo + k
        /\ lo .. last = (lo .. lo + k) \cup {last} /\ last \notin lo .. lo + k /\ ~(last <= lo + k)
    BY <2>1
  <2>4. g[lo + k] \in S
    BY <2>2, <2>3
  <2>5. G[<<last, g[lo + k]>>] \in S
    BY <2>3, <2>4
  <2>6. f \in [lo .. last -> S]
    BY <2>2, <2>3, <2>5
  <2>7. ASSUME NEW i \in lo .. last
        PROVE  f[i] = IF i = lo THEN base ELSE G[<<i, f[i - 1]>>]
    <3>1. CASE i = last
      <4>1. i # lo /\ i - 1 = lo + k /\ i - 1 \in lo .. last /\ i - 1 <= lo + k
        BY <2>3, <3>1
      <4>2. f[i - 1] = g[lo + k] /\ f[i] = G[<<last, g[lo + k]>>]
        BY <2>3, <3>1, <4>1
      <4>3. QED
        BY <3>1, <4>1, <4>2
    <3>2. CASE i # last
      <4>1. i \in lo .. lo + k /\ i <= lo + k
        BY <2>3, <3>2
      <4>2. f[i] = g[i] /\ g[i] = IF i = lo THEN base ELSE G[<<i, g[i - 1]>>]
        BY <2>2, <4>1
      <4>3. i # lo => f[i - 1] = g[i - 1]
        <5>1. i # lo => i - 1 \in lo .. last /\ i - 1 <= lo + k
          BY <4>1
        <5>2. QED
          BY <5>1
      <4>4. QED
        BY <4>2, <4>3
    <3>3. QED
      BY <3>1, <3>2
  <2> HIDE DEF f
  <2>8. Goes(f, k + 1)
    BY <2>6, <2>7
  <2>9. QED
    BY <2>8
<1>3. hi - lo \in N
  <2> HIDE DEF N
  <2>1. QED
    BY <1>1, <1>2, AllNumbers
<1>4. PICK f : Goes(f, hi - lo)
  BY <1>3
<1>5. lo + (hi - lo) = hi
  OBVIOUS
<1>6. f \in [lo .. hi -> S] /\ f = [i \in lo .. hi |-> IF i = lo THEN base ELSE G[<<i, f[i - 1]>>]]
  BY <1>4, <1>5
<1>7. QED
  BY <1>6 DEF Follows

(* The same induction over an interval. *)
LEMMA UpTo ==
  ASSUME NEW lo \in Nat, NEW hi \in Nat, lo <= hi, NEW S,
         lo \in S, \A i \in lo + 1 .. hi : i - 1 \in S => i \in S
  PROVE  lo .. hi \subseteq S
<1> DEFINE N == {k \in Nat : lo + k <= hi => lo + k \in S}
<1>1. 0 \in N
  OBVIOUS
<1>2. ASSUME NEW k \in Nat, k \in N
      PROVE  k + 1 \in N
  <2>1. SUFFICES ASSUME lo + (k + 1) <= hi PROVE lo + (k + 1) \in S
    OBVIOUS
  <2>2. lo + (k + 1) \in lo + 1 .. hi /\ lo + (k + 1) - 1 = lo + k /\ lo + k <= hi
    BY <2>1
  <2>3. lo + k \in S
    BY <1>2, <2>2
  <2>4. QED
    BY <2>2, <2>3
<1>3. Nat \subseteq N
  <2> HIDE DEF N
  <2>1. QED
    BY <1>1, <1>2, AllNumbers
<1>4. ASSUME NEW i \in lo .. hi
      PROVE  i \in S
  <2>1. i - lo \in Nat /\ lo + (i - lo) = i /\ i <= hi
    OBVIOUS
  <2>2. i - lo \in N
    BY <1>3, <2>1
  <2>3. QED
    BY <2>1, <2>2
<1>5. QED
  BY <1>4

\* the indices of the buckets
Places(t) == 0 .. numBuckets(t) - 1

IsTable(t) ==
  /\ numBuckets(t) \in Nat \ {0} /\ numBuckets(t) <= Top
  /\ t \in [buckets : [Places(t) -> Seq(Entry)], numEntries : Nat, rebuildSize : Nat \ {0}]

Placed(t) ==
  \A i \in Places(t) : \A j \in 1 .. Len(t.buckets[i]) : IndexOf(t, t.buckets[i][j].key) = i

Same(e, f) == KeyOf(e.key) = KeyOf(f.key)

Apart(t) ==
  \A i \in Places(t) : \A j, l \in 1 .. Len(t.buckets[i]) :
    Same(t.buckets[i][j], t.buckets[i][l]) => j = l

Counted(t) == IsFiniteSet(EntrySet(t)) /\ t.numEntries = Cardinality(EntrySet(t))

IsHash(t) == IsTable(t) /\ Placed(t) /\ Apart(t) /\ Counted(t)

(* What a table is made of. *)
LEMMA TableFacts ==
  ASSUME NEW t, IsTable(t)
  PROVE  /\ numBuckets(t) \in Nat \ {0} /\ numBuckets(t) <= Top
         /\ DOMAIN t.buckets = Places(t)
         /\ t.numEntries \in Nat /\ t.rebuildSize \in Nat \ {0}
         /\ \A i \in Places(t) : /\ t.buckets[i] \in Seq(Entry) /\ Len(t.buckets[i]) \in Nat
                                 /\ DOMAIN t.buckets[i] = 1 .. Len(t.buckets[i])
                                 /\ \A j \in 1 .. Len(t.buckets[i]) : t.buckets[i][j] \in Entry
<1>1. t.buckets \in [Places(t) -> Seq(Entry)] /\ t.numEntries \in Nat /\ t.rebuildSize \in Nat \ {0}
  BY DEF IsTable
<1>2. ASSUME NEW i \in Places(t)
      PROVE  /\ t.buckets[i] \in Seq(Entry) /\ Len(t.buckets[i]) \in Nat
             /\ DOMAIN t.buckets[i] = 1 .. Len(t.buckets[i])
             /\ \A j \in 1 .. Len(t.buckets[i]) : t.buckets[i][j] \in Entry
  <2>1. t.buckets[i] \in Seq(Entry)
    BY <1>1
  <2>2. QED
    BY <2>1, LenProperties, ElementOfSeq
<1>3. QED
  BY <1>1, <1>2 DEF IsTable

(* The number of buckets is that of their indices. *)
LEMMA BucketsCount ==
  ASSUME NEW t, NEW n \in Nat \ {0}, DOMAIN t.buckets = 0 .. n - 1
  PROVE  numBuckets(t) = n
<1>1. 0 \in Int /\ n - 1 \in Int /\ ~(0 > n - 1) /\ n - 1 - 0 + 1 = n
  OBVIOUS
<1>2. Cardinality(0 .. n - 1) = IF 0 > n - 1 THEN 0 ELSE n - 1 - 0 + 1
  BY <1>1, FS_Interval
<1>3. Cardinality(0 .. n - 1) = n
  BY <1>1, <1>2
<1>4. QED
  BY <1>3 DEF numBuckets

(* A whole quotient of a number and a smaller one is positive. *)
LEMMA DivRange ==
  ASSUME NEW a \in Nat, NEW b \in Nat \ {0}, b <= a
  PROVE  a \div b \in Nat \ {0}
OBVIOUS

(* Both ways to cut an index out of a hash stay among the buckets. *)
LEMMA HashRange ==
  ASSUME NEW h \in Nat, NEW d \in Nat \ {0}, NEW n \in Nat \ {0}
  PROVE  (h \div d) % n \in 0 .. n - 1 /\ h % n \in 0 .. n - 1
<1>1. h \div d \in Nat
  OBVIOUS
<1>2. QED
  BY <1>1

(* Every key has a hash. *)
LEMMA KeyHashes ==
  ASSUME NEW k \in Keys
  PROVE  HashOf[KeyOf(k)] \in Nat
<1>1. KeyOf(k) \in Keys \cup Range(ContentOf)
  BY HashAssumption DEF KeyOf, Range
<1>2. QED
  BY <1>1, HashAssumption

(* Every key has its place in the table. *)
LEMMA IndexRange ==
  ASSUME NEW t, IsTable(t), NEW k \in Keys
  PROVE  IndexOf(t, k) \in Places(t)
<1>1. Top \div numBuckets(t) \in Nat \ {0}
  BY TableFacts, DivRange, HashAssumption
<1>2. QED
  BY <1>1, KeyHashes, TableFacts, HashRange DEF IndexOf, StringIndex, RandomIndex, Places

(* Keys that are the same are looked for in the same place. *)
LEMMA SameIndex ==
  ASSUME NEW t, NEW k, NEW l, KeyOf(k) = KeyOf(l)
  PROVE  IndexOf(t, k) = IndexOf(t, l)
BY DEF IndexOf, StringIndex, RandomIndex

(* The least member of a set of places is a member. *)
LEMMA FirstOf ==
  ASSUME NEW n \in Nat, NEW I \in SUBSET (1 .. n), I # {}
  PROVE  Min(I) \in I
<1>1. I \subseteq Nat
  OBVIOUS
<1>2. \E x \in I : \A y \in I : x <= y
  BY <1>1, LeastNumber
<1>3. QED
  BY <1>2 DEF Min

(* All three ways to compare find the first entry with the key's content. *)
LEMMA FindIs ==
  ASSUME NEW t, NEW k
  PROVE  FindHashEntry(t, k) =
           LET I == {j \in 1 .. Len(Chain(t, k)) : KeyOf(Chain(t, k)[j].key) = KeyOf(k)}
           IN  IF I # {} THEN Min(I) ELSE 0
<1>1. STRING_KEYS # OneWord
  BY HashAssumption DEF STRING_KEYS
<1>2. CASE KeyLen = STRING_KEYS
  BY <1>1, <1>2 DEF FindHashEntry, StringFind, SelectInSeq, Chain, IndexOf, KeyOf
<1>3. CASE KeyLen = OneWord
  BY <1>1, <1>3 DEF FindHashEntry, OneWordFind, SelectInSeq, Chain, IndexOf, KeyOf
<1>4. CASE KeyLen # OneWord /\ KeyLen # STRING_KEYS
  BY <1>4 DEF FindHashEntry, ArrayFind, SelectInSeq, Chain, IndexOf, KeyOf
<1>5. QED
  BY <1>2, <1>3, <1>4

(* A lookup finds an entry with the key, or there is none in the chain. *)
LEMMA Found ==
  ASSUME NEW t, IsTable(t), NEW k \in Keys
  PROVE  \/ /\ FindHashEntry(t, k) = 0
            /\ \A j \in 1 .. Len(Chain(t, k)) : KeyOf(Chain(t, k)[j].key) # KeyOf(k)
         \/ /\ FindHashEntry(t, k) \in 1 .. Len(Chain(t, k))
            /\ KeyOf(Chain(t, k)[FindHashEntry(t, k)].key) = KeyOf(k)
<1> DEFINE I == {j \in 1 .. Len(Chain(t, k)) : KeyOf(Chain(t, k)[j].key) = KeyOf(k)}
<1>1. Len(Chain(t, k)) \in Nat
  BY IndexRange, TableFacts DEF Chain
<1>2. FindHashEntry(t, k) = IF I # {} THEN Min(I) ELSE 0
  BY FindIs
<1>3. CASE I = {}
  BY <1>2, <1>3
<1>4. CASE I # {}
  <2>1. I \in SUBSET (1 .. Len(Chain(t, k)))
    OBVIOUS
  <2>2. Min(I) \in I
    BY <1>1, <1>4, <2>1, FirstOf
  <2>3. QED
    BY <1>2, <1>4, <2>2
<1>5. QED
  BY <1>3, <1>4

(* The entries are what stands in the chains. *)
LEMMA EntryPlaces ==
  ASSUME NEW t, IsTable(t), NEW e
  PROVE  e \in EntrySet(t) <=> \E i \in Places(t) : \E j \in 1 .. Len(t.buckets[i]) : e = t.buckets[i][j]
<1>1. /\ DOMAIN t.buckets = Places(t)
      /\ \A i \in Places(t) : DOMAIN t.buckets[i] = 1 .. Len(t.buckets[i])
  BY TableFacts
<1>2. e \in EntrySet(t) <=> \E i \in DOMAIN t.buckets : e \in Range(t.buckets[i])
  BY DEF EntrySet
<1>3. \A i \in Places(t) : e \in Range(t.buckets[i]) <=> \E j \in 1 .. Len(t.buckets[i]) : e = t.buckets[i][j]
  BY <1>1 DEF Range
<1>4. QED
  BY <1>1, <1>2, <1>3

(* The entries of a table are entries. *)
LEMMA EntriesAreEntries ==
  ASSUME NEW t, IsTable(t)
  PROVE  EntrySet(t) \subseteq Entry
BY EntryPlaces, TableFacts

(* No key has two entries. *)
LEMMA OnlyOne ==
  ASSUME NEW t, IsTable(t), Placed(t), Apart(t), NEW e \in EntrySet(t), NEW f \in EntrySet(t), Same(e, f)
  PROVE  e = f
<1>1. PICK i \in Places(t) : \E j \in 1 .. Len(t.buckets[i]) : e = t.buckets[i][j]
  BY EntryPlaces
<1> PICK j \in 1 .. Len(t.buckets[i]) : e = t.buckets[i][j]
  BY <1>1
<1>2. PICK a \in Places(t) : \E b \in 1 .. Len(t.buckets[a]) : f = t.buckets[a][b]
  BY EntryPlaces
<1> PICK b \in 1 .. Len(t.buckets[a]) : f = t.buckets[a][b]
  BY <1>2
<1>3. IndexOf(t, e.key) = i /\ IndexOf(t, f.key) = a
  BY <1>1, <1>2 DEF Placed
<1>4. i = a
  BY <1>3, SameIndex DEF Same
<1>5. j = b
  BY <1>1, <1>2, <1>4 DEF Apart
<1>6. QED
  BY <1>1, <1>2, <1>4, <1>5

(* What a lookup finds is the entry of the key. *)
LEMMA Lookup ==
  ASSUME NEW t, IsTable(t), Placed(t), NEW k \in Keys
  PROVE  /\ FindHashEntry(t, k) # 0 <=> \E e \in EntrySet(t) : KeyOf(e.key) = KeyOf(k)
         /\ FindHashEntry(t, k) # 0 =>
              /\ IndexOf(t, k) \in Places(t) /\ FindHashEntry(t, k) \in 1 .. Len(Chain(t, k))
              /\ Chain(t, k)[FindHashEntry(t, k)] \in EntrySet(t)
              /\ KeyOf(Chain(t, k)[FindHashEntry(t, k)].key) = KeyOf(k)
<1>1. IndexOf(t, k) \in Places(t)
  BY IndexRange
<1>2. ASSUME FindHashEntry(t, k) # 0
      PROVE  /\ FindHashEntry(t, k) \in 1 .. Len(Chain(t, k))
             /\ Chain(t, k)[FindHashEntry(t, k)] \in EntrySet(t)
             /\ KeyOf(Chain(t, k)[FindHashEntry(t, k)].key) = KeyOf(k)
  <2>1. /\ FindHashEntry(t, k) \in 1 .. Len(Chain(t, k))
        /\ KeyOf(Chain(t, k)[FindHashEntry(t, k)].key) = KeyOf(k)
    BY <1>2, Found
  <2>2. Chain(t, k)[FindHashEntry(t, k)] \in EntrySet(t)
    BY <1>1, <2>1, EntryPlaces DEF Chain
  <2>3. QED
    BY <2>1, <2>2
<1>3. ASSUME NEW e \in EntrySet(t), KeyOf(e.key) = KeyOf(k)
      PROVE  FindHashEntry(t, k) # 0
  <2>1. PICK i \in Places(t) : \E j \in 1 .. Len(t.buckets[i]) : e = t.buckets[i][j]
    BY EntryPlaces
  <2> PICK j \in 1 .. Len(t.buckets[i]) : e = t.buckets[i][j]
    BY <2>1
  <2>2. IndexOf(t, k) = i
    BY <1>3, <2>1, SameIndex DEF Placed
  <2>3. j \in 1 .. Len(Chain(t, k)) /\ KeyOf(Chain(t, k)[j].key) = KeyOf(k)
    BY <1>3, <2>1, <2>2 DEF Chain
  <2>4. ~(\A l \in 1 .. Len(Chain(t, k)) : KeyOf(Chain(t, k)[l].key) # KeyOf(k))
    BY <2>3
  <2>5. FindHashEntry(t, k) \in 1 .. Len(Chain(t, k))
    BY <2>4, Found
  <2>6. Len(Chain(t, k)) \in Nat
    BY <1>1, TableFacts DEF Chain
  <2>7. QED
    BY <2>5, <2>6
<1>4. QED
  BY <1>1, <1>2, <1>3

(* A table with as many buckets uses the same places. *)
LEMMA SameSize ==
  ASSUME NEW t, NEW u, NEW k, DOMAIN u.buckets = DOMAIN t.buckets
  PROVE  numBuckets(u) = numBuckets(t) /\ Places(u) = Places(t) /\ IndexOf(u, k) = IndexOf(t, k)
BY DEF numBuckets, Places, IndexOf, StringIndex, RandomIndex

(* What giving an entry another value changes. *)
LEMMA RevisedEntry ==
  ASSUME NEW e \in Entry, NEW ks, NEW v \in Values \cup {null}
  PROVE  /\ Revised(e, ks, v) \in Entry /\ Revised(e, ks, v).key = e.key
         /\ Revised(e, ks, v).value = IF e.key \in ks THEN v ELSE e.value
         /\ e.key \notin ks => Revised(e, ks, v) = e
BY DEF Revised, Entry

Records(S) == [buckets : S, numEntries : Nat, rebuildSize : Nat \ {0}]

(* What exchanging the buckets of a table changes. *)
LEMMA WithBuckets ==
  ASSUME NEW S, NEW t \in Records(S), NEW T, NEW b \in T, NEW u, u = [t EXCEPT !.buckets = b]
  PROVE  u \in Records(T) /\ u.buckets = b /\ u.numEntries = t.numEntries /\ u.rebuildSize = t.rebuildSize
BY DEF Records

(* Other values in the same places. *)
Revises(u, t, ks, v) ==
  /\ u \in Records([Places(t) -> Seq(Entry)]) /\ u.numEntries = t.numEntries /\ u.rebuildSize = t.rebuildSize
  /\ \A i \in Places(t) : /\ Len(u.buckets[i]) = Len(t.buckets[i])
                           /\ \A j \in 1 .. Len(u.buckets[i]) : u.buckets[i][j] = Revised(t.buckets[i][j], ks, v)

(* A table whose entries get values keeps its shape. *)
LEMMA RevisedTable ==
  ASSUME NEW t, IsHash(t), NEW ks, NEW v \in Values \cup {null}, NEW u, Revises(u, t, ks, v)
  PROVE  /\ IsHash(u) /\ numBuckets(u) = numBuckets(t)
         /\ \A e : e \in EntrySet(u) <=> \E f \in EntrySet(t) : e = Revised(f, ks, v)
<1>1. IsTable(t) /\ Placed(t) /\ Apart(t) /\ Counted(t)
  BY DEF IsHash
<1>2. \A i \in Places(t) : Len(u.buckets[i]) = Len(t.buckets[i])
  BY DEF Revises
<1> u \in Records([Places(t) -> Seq(Entry)]) /\ u.numEntries = t.numEntries
  BY DEF Revises
<1>3. DOMAIN u.buckets = DOMAIN t.buckets
  BY <1>1, TableFacts DEF Records
<1>4. numBuckets(u) = numBuckets(t) /\ Places(u) = Places(t) /\ \A k : IndexOf(u, k) = IndexOf(t, k)
  BY <1>3, SameSize
<1>5. IsTable(u)
  BY <1>1, <1>4 DEF IsTable, Records
<1>6. \A i \in Places(t) : \A j \in 1 .. Len(u.buckets[i]) :
        /\ t.buckets[i][j] \in Entry /\ u.buckets[i][j] = Revised(t.buckets[i][j], ks, v)
        /\ u.buckets[i][j].key = t.buckets[i][j].key
  BY <1>1, <1>2, TableFacts, RevisedEntry DEF Revises
<1>7. Placed(u)
  BY <1>1, <1>2, <1>4, <1>6 DEF Placed
<1>8. Apart(u)
  BY <1>1, <1>2, <1>4, <1>6 DEF Apart, Same
<1>9. \A e : e \in EntrySet(u) <=> \E f \in EntrySet(t) : e = Revised(f, ks, v)
  <2>1. ASSUME NEW e \in EntrySet(u)
        PROVE  \E f \in EntrySet(t) : e = Revised(f, ks, v)
    <3>1. PICK i \in Places(u) : \E j \in 1 .. Len(u.buckets[i]) : e = u.buckets[i][j]
      BY <1>5, EntryPlaces
    <3> PICK j \in 1 .. Len(u.buckets[i]) : e = u.buckets[i][j]
      BY <3>1
    <3>2. t.buckets[i][j] \in EntrySet(t)
      BY <1>1, <1>2, <1>4, EntryPlaces
    <3>3. QED
      BY <1>4, <1>6, <3>2
  <2>2. ASSUME NEW f \in EntrySet(t)
        PROVE  Revised(f, ks, v) \in EntrySet(u)
    <3>1. PICK i \in Places(t) : \E j \in 1 .. Len(t.buckets[i]) : f = t.buckets[i][j]
      BY <1>1, EntryPlaces
    <3> PICK j \in 1 .. Len(t.buckets[i]) : f = t.buckets[i][j]
      BY <3>1
    <3>2. i \in Places(u) /\ j \in 1 .. Len(u.buckets[i]) /\ u.buckets[i][j] = Revised(f, ks, v)
      BY <1>2, <1>4, <1>6
    <3>3. QED
      BY <1>5, <3>2, EntryPlaces
  <2>3. QED
    BY <2>1, <2>2
<1>10. Counted(u)
  <2> DEFINE f == [e \in EntrySet(t) |-> Revised(e, ks, v)]
  <2>1. \A e \in EntrySet(t) : e \in Entry /\ f[e].key = e.key
    BY <1>1, EntriesAreEntries, RevisedEntry
  <2>2. \A d, e \in EntrySet(t) : f[d] = f[e] => d = e
    <3>1. \A d, e \in EntrySet(t) : f[d] = f[e] => Same(d, e)
      BY <2>1 DEF Same
    <3>2. QED
      BY <1>1, <3>1, OnlyOne
  <2>3. f \in [EntrySet(t) -> EntrySet(u)] /\ \A e \in EntrySet(u) : \E d \in EntrySet(t) : f[d] = e
    BY <1>9
  <2> HIDE DEF f
  <2>4. f \in Bijection(EntrySet(t), EntrySet(u))
    BY <2>2, <2>3 DEF Bijection, Injection, IsInjective, Surjection
  <2>5. ExistsBijection(EntrySet(t), EntrySet(u))
    BY <2>4 DEF ExistsBijection
  <2>6. QED
    BY <1>1, <2>5, FS_Bijection DEF Counted
<1>11. IsHash(u)
  BY <1>5, <1>7, <1>8, <1>10 DEF IsHash
<1>12. QED
  BY <1>4, <1>9, <1>11

(* SetHashValues() is such a change. *)
LEMMA ValuesAreSet ==
  ASSUME NEW t, IsHash(t), NEW ks, NEW v \in Values \cup {null}
  PROVE  /\ IsHash(SetHashValues(t, ks, v))
         /\ SetHashValues(t, ks, v).numEntries = t.numEntries
         /\ SetHashValues(t, ks, v).rebuildSize = t.rebuildSize
         /\ numBuckets(SetHashValues(t, ks, v)) = numBuckets(t)
         /\ \A e : e \in EntrySet(SetHashValues(t, ks, v)) <=> \E f \in EntrySet(t) : e = Revised(f, ks, v)
<1> DEFINE b == [i \in Places(t) |-> [j \in 1 .. Len(t.buckets[i]) |-> Revised(t.buckets[i][j], ks, v)]]
<1>1. IsTable(t)
  BY DEF IsHash
<1>2. ASSUME NEW i \in Places(t)
      PROVE  /\ b[i] \in Seq(Entry) /\ Len(b[i]) = Len(t.buckets[i])
             /\ \A j \in 1 .. Len(b[i]) : b[i][j] = Revised(t.buckets[i][j], ks, v)
  <2> DEFINE c == [j \in 1 .. Len(t.buckets[i]) |-> Revised(t.buckets[i][j], ks, v)]
  <2>1. Len(t.buckets[i]) \in Nat /\ \A j \in 1 .. Len(t.buckets[i]) : Revised(t.buckets[i][j], ks, v) \in Entry
    BY <1>1, TableFacts, RevisedEntry
  <2>2. c \in Seq(Entry) /\ Len(c) = Len(t.buckets[i])
    BY <2>1
  <2>3. b[i] = c
    OBVIOUS
  <2>4. QED
    BY <2>2, <2>3
<1>3. b \in [Places(t) -> Seq(Entry)]
  BY <1>2
<1>4. SetHashValues(t, ks, v) = [t EXCEPT !.buckets = b]
  <2> DEFINE c == [i \in DOMAIN t.buckets |-> [j \in DOMAIN t.buckets[i] |-> Revised(t.buckets[i][j], ks, v)]]
  <2>1. /\ DOMAIN t.buckets = Places(t)
        /\ \A i \in Places(t) : DOMAIN t.buckets[i] = 1 .. Len(t.buckets[i])
    BY <1>1, TableFacts
  <2>2. c = b
    BY <2>1
  <2>3. SetHashValues(t, ks, v) = [t EXCEPT !.buckets = c]
    BY DEF SetHashValues
  <2> HIDE DEF b, c
  <2>4. QED
    BY <2>2, <2>3
<1>5. \A i \in Places(t) : /\ Len(b[i]) = Len(t.buckets[i])
                            /\ \A j \in 1 .. Len(b[i]) : b[i][j] = Revised(t.buckets[i][j], ks, v)
  BY <1>2
<1> HIDE DEF b
<1>6. t \in Records([Places(t) -> Seq(Entry)])
  BY <1>1 DEF IsTable, Records
<1>7. ASSUME NEW u, u = SetHashValues(t, ks, v)
      PROVE  /\ IsHash(u) /\ u.numEntries = t.numEntries /\ u.rebuildSize = t.rebuildSize
             /\ numBuckets(u) = numBuckets(t)
             /\ \A e : e \in EntrySet(u) <=> \E f \in EntrySet(t) : e = Revised(f, ks, v)
  <2>1. u = [t EXCEPT !.buckets = b]
    BY <1>4, <1>7
  <2>2. /\ u \in Records([Places(t) -> Seq(Entry)]) /\ u.buckets = b
        /\ u.numEntries = t.numEntries /\ u.rebuildSize = t.rebuildSize
    BY ONLY <1>3, <1>6, <2>1, WithBuckets
  <2>3. Revises(u, t, ks, v)
    BY ONLY <1>5, <2>2 DEF Revises
  <2>4. IsHash(t) /\ v \in Values \cup {null}
    OBVIOUS
  <2>5. IsHash(u)
    BY ONLY <2>3, <2>4, RevisedTable
  <2>6. numBuckets(u) = numBuckets(t)
    BY ONLY <2>3, <2>4, RevisedTable
  <2>7. \A e : e \in EntrySet(u) <=> \E f \in EntrySet(t) : e = Revised(f, ks, v)
    BY ONLY <2>3, <2>4, RevisedTable
  <2>8. QED
    BY <2>2, <2>5, <2>6, <2>7
<1>8. QED
  BY <1>7

(* The entry that a lookup finds gets the value. *)
LEMMA ValueIsSet ==
  ASSUME NEW t, IsHash(t), NEW k \in Keys, NEW v \in Values \cup {null}, FindHashEntry(t, k) # 0
  PROVE  SetHashValue(t, k, v) = SetHashValues(t, {Chain(t, k)[FindHashEntry(t, k)].key}, v)
<1> DEFINE i0 == IndexOf(t, k)
           j0 == FindHashEntry(t, k)
           e0 == t.buckets[i0][j0]
           b  == [t.buckets EXCEPT ![i0][j0].value = v]
           u  == SetHashValues(t, {e0.key}, v)
<1>1. IsTable(t) /\ Placed(t) /\ Apart(t)
  BY DEF IsHash
<1>2. i0 \in Places(t) /\ j0 \in 1 .. Len(t.buckets[i0]) /\ e0 \in EntrySet(t) /\ e0 \in Entry
  BY <1>1, Lookup, EntriesAreEntries DEF Chain
<1>3. \A i \in Places(t) : \A j \in 1 .. Len(t.buckets[i]) :
        t.buckets[i][j].key = e0.key => i = i0 /\ j = j0
  <2> SUFFICES ASSUME NEW i \in Places(t), NEW j \in 1 .. Len(t.buckets[i]), t.buckets[i][j].key = e0.key
               PROVE  i = i0 /\ j = j0
    OBVIOUS
  <2>1. i = i0
    BY <1>1, <1>2 DEF Placed
  <2>2. QED
    BY <1>1, <1>2, <2>1 DEF Apart, Same
<1>4. /\ DOMAIN t.buckets = Places(t)
      /\ \A i \in Places(t) : /\ DOMAIN t.buckets[i] = 1 .. Len(t.buckets[i]) /\ t.buckets[i] \in Seq(Entry)
                              /\ Len(t.buckets[i]) \in Nat
                              /\ \A j \in 1 .. Len(t.buckets[i]) : t.buckets[i][j] \in Entry
  BY <1>1, TableFacts
<1>5. SetHashValue(t, k, v) = [t EXCEPT !.buckets = b]
  BY <1>1, <1>4 DEF SetHashValue, IsTable
<1> DEFINE c == [i \in DOMAIN t.buckets |-> [j \in DOMAIN t.buckets[i] |-> Revised(t.buckets[i][j], {e0.key}, v)]]
<1>6. u = [t EXCEPT !.buckets = c]
  BY DEF SetHashValues
<1>7. ASSUME NEW i \in Places(t)
      PROVE  b[i] = c[i]
  <2> DEFINE s == t.buckets[i]
             d == [j \in 1 .. Len(s) |-> Revised(s[j], {e0.key}, v)]
  <2>1. c[i] = d
    BY <1>4
  <2>2. s = [j \in 1 .. Len(s) |-> s[j]]
    BY <1>4
  <2>3. \A j \in 1 .. Len(s) : s[j].key = e0.key <=> i = i0 /\ j = j0
    BY <1>3
  <2>4. d = [j \in 1 .. Len(s) |-> IF i = i0 /\ j = j0 THEN [s[j] EXCEPT !.value = v] ELSE s[j]]
    BY <2>3 DEF Revised
  <2>5. CASE i # i0
    <3>1. b[i] = s
      BY <2>5
    <3>2. d = [j \in 1 .. Len(s) |-> s[j]]
      BY <2>4, <2>5
    <3> HIDE DEF b, c, d, s
    <3>3. QED
      BY <2>1, <2>2, <3>1, <3>2
  <2>6. CASE i = i0
    <3>1. b[i] = [s EXCEPT ![j0] = [s[j0] EXCEPT !.value = v]]
      BY <1>4, <2>6
    <3> HIDE DEF b, c, d, s, j0
    <3>2. [s EXCEPT ![j0] = [s[j0] EXCEPT !.value = v]]
            = [j \in 1 .. Len(s) |-> IF j = j0 THEN [s[j] EXCEPT !.value = v] ELSE s[j]]
      BY <2>2
    <3>3. QED
      BY <2>1, <2>4, <2>6, <3>1, <3>2
  <2>7. QED
    BY <2>5, <2>6
<1>8. DOMAIN b = Places(t) /\ b = [i \in DOMAIN b |-> b[i]] /\ DOMAIN c = Places(t) /\ c = [i \in DOMAIN c |-> c[i]]
  BY <1>4
<1> HIDE DEF b, c
<1>9. b = c
  BY <1>7, <1>8
<1>10. QED
  BY <1>5, <1>6, <1>9 DEF Chain

(* A chain with a new head. *)
LEMMA HeadPut ==
  ASSUME NEW s \in Seq(Entry), NEW e \in Entry
  PROVE  /\ <<e>> \o s \in Seq(Entry) /\ Len(<<e>> \o s) = Len(s) + 1
         /\ (<<e>> \o s)[1] = e
         /\ \A j \in 1 .. Len(s) : (<<e>> \o s)[j + 1] = s[j]
         /\ \A j \in 1 .. Len(s) + 1 : j # 1 => j - 1 \in 1 .. Len(s) /\ (<<e>> \o s)[j] = s[j - 1]
OBVIOUS

(* A chain without one of its entries. *)
LEMMA Taken ==
  ASSUME NEW s \in Seq(Entry), NEW i \in 1 .. Len(s)
  PROVE  /\ RemoveAt(s, i) \in Seq(Entry) /\ Len(RemoveAt(s, i)) = Len(s) - 1
         /\ \A j \in 1 .. Len(s) - 1 : RemoveAt(s, i)[j] = s[IF j < i THEN j ELSE j + 1]
<1> DEFINE a == SubSeq(s, 1, i - 1)
           b == SubSeq(s, i + 1, Len(s))
<1>1. a \in Seq(Entry) /\ Len(a) = i - 1 /\ \A j \in 1 .. i - 1 : a[j] = s[j]
  OBVIOUS
<1>2. b \in Seq(Entry) /\ Len(b) = Len(s) - i /\ \A j \in 1 .. Len(s) - i : b[j] = s[i + j]
  OBVIOUS
<1>3. RemoveAt(s, i) = a \o b
  BY DEF RemoveAt
<1>4. i \in Nat /\ Len(s) \in Nat /\ i >= 1 /\ i <= Len(s)
  OBVIOUS
<1> HIDE DEF a, b
<1>5. /\ a \o b \in Seq(Entry) /\ Len(a \o b) = Len(a) + Len(b)
      /\ \A j \in 1 .. Len(a) + Len(b) : (a \o b)[j] = IF j <= Len(a) THEN a[j] ELSE b[j - Len(a)]
  BY <1>1, <1>2, ConcatProperties
<1>6. Len(a) + Len(b) = Len(s) - 1
  BY <1>1, <1>2, <1>4
<1>7. ASSUME NEW j \in 1 .. Len(s) - 1
      PROVE  (a \o b)[j] = s[IF j < i THEN j ELSE j + 1]
  <2>1. CASE j < i
    <3>1. j <= Len(a) /\ j \in 1 .. i - 1 /\ j \in 1 .. Len(a) + Len(b)
      BY <1>1, <1>4, <1>6, <2>1
    <3>2. QED
      BY <1>1, <1>5, <2>1, <3>1
  <2>2. CASE ~(j < i)
    <3>1. ~(j <= Len(a)) /\ j - Len(a) \in 1 .. Len(s) - i /\ j \in 1 .. Len(a) + Len(b) /\ i + (j - Len(a)) = j + 1
      BY <1>1, <1>4, <1>6, <2>2
    <3>2. QED
      BY <1>2, <1>5, <2>2, <3>1
  <2>3. QED
    BY <2>1, <2>2
<1>8. QED
  BY <1>3, <1>5, <1>6, <1>7

(* A new entry at the head of the chain of its key. *)
Pushes(u, t, e) ==
  /\ u \in Records([Places(t) -> Seq(Entry)]) /\ u.numEntries = t.numEntries + 1
  /\ \A i \in Places(t) :
       u.buckets[i] = IF i = IndexOf(t, e.key) THEN <<e>> \o t.buckets[i] ELSE t.buckets[i]

(* An entry with a new key at the head of its chain leaves a good table. *)
LEMMA PushedTable ==
  ASSUME NEW t, IsHash(t), NEW e \in Entry, \A f \in EntrySet(t) : ~Same(e, f), NEW u, Pushes(u, t, e)
  PROVE  /\ IsHash(u) /\ numBuckets(u) = numBuckets(t) /\ EntrySet(u) = EntrySet(t) \cup {e}
         /\ DOMAIN u.buckets = DOMAIN t.buckets
<1> DEFINE p == IndexOf(t, e.key)
<1>1. IsTable(t) /\ Placed(t) /\ Apart(t) /\ Counted(t) /\ e.key \in Keys
  BY DEF IsHash, Entry
<1> u \in Records([Places(t) -> Seq(Entry)]) /\ u.numEntries = t.numEntries + 1
  BY DEF Pushes
<1>2. DOMAIN u.buckets = DOMAIN t.buckets
  BY <1>1, TableFacts DEF Records
<1>3. numBuckets(u) = numBuckets(t) /\ Places(u) = Places(t) /\ \A k : IndexOf(u, k) = IndexOf(t, k)
  BY <1>2, SameSize
<1>4. IsTable(u)
  BY <1>1, <1>3 DEF IsTable, Records
<1>5. p \in Places(t)
  BY <1>1, IndexRange
<1>6. \A i \in Places(t) : t.buckets[i] \in Seq(Entry) /\ Len(t.buckets[i]) \in Nat
  BY <1>1, TableFacts
<1>7. \A i \in Places(t) : i # p => u.buckets[i] = t.buckets[i]
  BY DEF Pushes
<1>8. u.buckets[p] = <<e>> \o t.buckets[p]
  BY <1>5 DEF Pushes
<1> HIDE DEF p
<1>9. /\ Len(u.buckets[p]) = Len(t.buckets[p]) + 1 /\ u.buckets[p][1] = e
      /\ \A j \in 1 .. Len(t.buckets[p]) : u.buckets[p][j + 1] = t.buckets[p][j]
      /\ \A j \in 1 .. Len(u.buckets[p]) :
           j # 1 => j - 1 \in 1 .. Len(t.buckets[p]) /\ u.buckets[p][j] = t.buckets[p][j - 1]
  BY <1>5, <1>6, <1>8, HeadPut
<1>10. IndexOf(t, e.key) = p
  BY DEF p
<1>11. Placed(u)
  <2>1. ASSUME NEW i \in Places(t), NEW j \in 1 .. Len(u.buckets[i])
        PROVE  IndexOf(t, u.buckets[i][j].key) = i
    <3>1. CASE i # p
      BY <1>1, <1>7, <3>1 DEF Placed
    <3>2. CASE i = p /\ j = 1
      BY <1>9, <1>10, <3>2
    <3>3. CASE i = p /\ j # 1
      BY <1>1, <1>5, <1>9, <3>3 DEF Placed
    <3>4. QED
      BY <3>1, <3>2, <3>3
  <2>2. QED
    BY <1>3, <2>1 DEF Placed
<1>12. \A j \in 1 .. Len(t.buckets[p]) : ~Same(e, t.buckets[p][j]) /\ ~Same(t.buckets[p][j], e)
  <2>1. \A j \in 1 .. Len(t.buckets[p]) : t.buckets[p][j] \in EntrySet(t)
    BY <1>1, <1>5, EntryPlaces
  <2>2. QED
    BY <2>1 DEF Same
<1>13. Apart(u)
  <2>1. ASSUME NEW i \in Places(t), NEW j \in 1 .. Len(u.buckets[i]), NEW l \in 1 .. Len(u.buckets[i]),
               Same(u.buckets[i][j], u.buckets[i][l])
        PROVE  j = l
    <3>1. CASE i # p
      BY <1>1, <1>7, <2>1, <3>1 DEF Apart
    <3>2. CASE i = p /\ j = 1 /\ l # 1
      BY <1>9, <1>12, <2>1, <3>2
    <3>3. CASE i = p /\ j # 1 /\ l = 1
      BY <1>9, <1>12, <2>1, <3>3
    <3>4. CASE i = p /\ j # 1 /\ l # 1
      <4>1. j - 1 = l - 1
        BY <1>1, <1>5, <1>9, <2>1, <3>4 DEF Apart
      <4>2. j \in Int /\ l \in Int
        OBVIOUS
      <4>3. QED
        BY <4>1, <4>2
    <3>5. QED
      BY <3>1, <3>2, <3>3, <3>4
  <2>2. QED
    BY <1>3, <2>1 DEF Apart
<1>14. EntrySet(u) = EntrySet(t) \cup {e}
  <2>1. ASSUME NEW f \in EntrySet(u)
        PROVE  f \in EntrySet(t) \cup {e}
    <3>1. PICK i \in Places(u) : \E j \in 1 .. Len(u.buckets[i]) : f = u.buckets[i][j]
      BY <1>4, EntryPlaces
    <3> PICK j \in 1 .. Len(u.buckets[i]) : f = u.buckets[i][j]
      BY <3>1
    <3>2. CASE i # p
      BY <1>1, <1>3, <1>7, <3>2, EntryPlaces
    <3>3. CASE i = p /\ j = 1
      BY <1>9, <3>3
    <3>4. CASE i = p /\ j # 1
      <4>1. j - 1 \in 1 .. Len(t.buckets[p]) /\ f = t.buckets[p][j - 1]
        BY <1>9, <3>4
      <4>2. QED
        BY <1>1, <1>5, <4>1, EntryPlaces
    <3>5. QED
      BY <3>2, <3>3, <3>4
  <2>2. ASSUME NEW f \in EntrySet(t)
        PROVE  f \in EntrySet(u)
    <3>1. PICK i \in Places(t) : \E j \in 1 .. Len(t.buckets[i]) : f = t.buckets[i][j]
      BY <1>1, EntryPlaces
    <3> PICK j \in 1 .. Len(t.buckets[i]) : f = t.buckets[i][j]
      BY <3>1
    <3>2. CASE i # p
      BY <1>3, <1>4, <1>7, <3>2, EntryPlaces
    <3>3. CASE i = p
      <4>1. j + 1 \in 1 .. Len(u.buckets[p]) /\ f = u.buckets[p][j + 1]
        BY <1>6, <1>9, <3>3
      <4>2. QED
        BY <1>3, <1>4, <1>5, <4>1, EntryPlaces
    <3>4. QED
      BY <3>2, <3>3
  <2>3. e \in EntrySet(u)
    <3>1. 1 \in 1 .. Len(u.buckets[p]) /\ e = u.buckets[p][1]
      BY <1>5, <1>6, <1>9
    <3>2. QED
      BY <1>3, <1>4, <1>5, <3>1, EntryPlaces
  <2>4. QED
    BY <2>1, <2>2, <2>3
<1>15. Counted(u)
  <2>1. e \notin EntrySet(t)
    BY DEF Same
  <2>2. IsFiniteSet(EntrySet(t)) /\ t.numEntries = Cardinality(EntrySet(t))
    BY <1>1 DEF Counted
  <2>3. IsFiniteSet(EntrySet(t) \cup {e}) /\ Cardinality(EntrySet(t) \cup {e}) = Cardinality(EntrySet(t)) + 1
    BY <2>1, <2>2, FS_AddElement
  <2>4. QED
    BY <1>14, <2>2, <2>3 DEF Counted
<1>16. QED
  BY <1>2, <1>3, <1>4, <1>11, <1>13, <1>14, <1>15 DEF IsHash

(* The entry at place q of chain p taken away. *)
Removes(u, t, p, q) ==
  /\ u \in Records([Places(t) -> Seq(Entry)]) /\ u.numEntries = t.numEntries - 1
  /\ \A i \in Places(t) : u.buckets[i] = IF i = p THEN RemoveAt(t.buckets[i], q) ELSE t.buckets[i]

(* So does an entry that is unlinked. *)
LEMMA RemovedTable ==
  ASSUME NEW t, IsHash(t), NEW p \in Places(t), NEW q \in 1 .. Len(t.buckets[p]), NEW u, Removes(u, t, p, q)
  PROVE  /\ IsHash(u) /\ numBuckets(u) = numBuckets(t)
         /\ EntrySet(u) = EntrySet(t) \ {t.buckets[p][q]}
<1> DEFINE After(j) == IF j < q THEN j ELSE j + 1
           e == t.buckets[p][q]
<1>1. IsTable(t) /\ Placed(t) /\ Apart(t) /\ Counted(t)
  BY DEF IsHash
<1> u \in Records([Places(t) -> Seq(Entry)]) /\ u.numEntries = t.numEntries - 1
  BY DEF Removes
<1>2. DOMAIN u.buckets = DOMAIN t.buckets
  BY <1>1, TableFacts DEF Records
<1>3. numBuckets(u) = numBuckets(t) /\ Places(u) = Places(t) /\ \A k : IndexOf(u, k) = IndexOf(t, k)
  BY <1>2, SameSize
<1>4. IsTable(u)
  BY <1>1, <1>3 DEF IsTable, Records
<1>5. \A i \in Places(t) : t.buckets[i] \in Seq(Entry) /\ Len(t.buckets[i]) \in Nat
  BY <1>1, TableFacts
<1>6. \A i \in Places(t) : i # p => u.buckets[i] = t.buckets[i]
  BY DEF Removes
<1>7. u.buckets[p] = RemoveAt(t.buckets[p], q)
  BY DEF Removes
<1>8. /\ Len(u.buckets[p]) = Len(t.buckets[p]) - 1
      /\ \A j \in 1 .. Len(u.buckets[p]) : u.buckets[p][j] = t.buckets[p][After(j)]
  BY <1>5, <1>7, Taken
<1>9. \A j \in 1 .. Len(u.buckets[p]) : After(j) \in 1 .. Len(t.buckets[p]) /\ After(j) # q
  BY <1>5, <1>8
<1>10. \A j, l \in 1 .. Len(u.buckets[p]) : After(j) = After(l) => j = l
  BY <1>5, <1>8
<1>11. \A l \in 1 .. Len(t.buckets[p]) : l # q => \E j \in 1 .. Len(u.buckets[p]) : After(j) = l
  <2> SUFFICES ASSUME NEW l \in 1 .. Len(t.buckets[p]), l # q
               PROVE  \E j \in 1 .. Len(u.buckets[p]) : After(j) = l
    OBVIOUS
  <2> DEFINE j == IF l < q THEN l ELSE l - 1
  <2>1. j \in 1 .. Len(u.buckets[p]) /\ After(j) = l
    BY <1>5, <1>8
  <2>2. QED
    BY <2>1
<1> HIDE DEF After
<1>12. Placed(u)
  <2>1. ASSUME NEW i \in Places(t), NEW j \in 1 .. Len(u.buckets[i])
        PROVE  IndexOf(t, u.buckets[i][j].key) = i
    <3>1. CASE i # p
      BY <1>1, <1>6, <3>1 DEF Placed
    <3>2. CASE i = p
      BY <1>1, <1>8, <1>9, <3>2 DEF Placed
    <3>3. QED
      BY <3>1, <3>2
  <2>2. QED
    BY <1>3, <2>1 DEF Placed
<1>13. Apart(u)
  <2>1. ASSUME NEW i \in Places(t), NEW j \in 1 .. Len(u.buckets[i]), NEW l \in 1 .. Len(u.buckets[i]),
               Same(u.buckets[i][j], u.buckets[i][l])
        PROVE  j = l
    <3>1. CASE i # p
      BY <1>1, <1>6, <2>1, <3>1 DEF Apart
    <3>2. CASE i = p
      <4>1. /\ After(j) \in 1 .. Len(t.buckets[p]) /\ After(l) \in 1 .. Len(t.buckets[p])
            /\ Same(t.buckets[p][After(j)], t.buckets[p][After(l)])
        BY <1>8, <1>9, <2>1, <3>2
      <4>2. After(j) = After(l)
        BY <1>1, <4>1 DEF Apart
      <4>3. QED
        BY <1>10, <3>2, <4>2
    <3>3. QED
      BY <3>1, <3>2
  <2>2. QED
    BY <1>3, <2>1 DEF Apart
<1>14. e \in EntrySet(t)
  BY <1>1, EntryPlaces
<1>15. EntrySet(u) = EntrySet(t) \ {e}
  <2>1. ASSUME NEW i \in Places(t), NEW j \in 1 .. Len(t.buckets[i]), t.buckets[i][j] = e
        PROVE  i = p /\ j = q
    <3>1. i = p
      BY <1>1, <2>1 DEF Placed
    <3>2. QED
      BY <1>1, <2>1, <3>1 DEF Apart, Same
  <2>2. ASSUME NEW f \in EntrySet(u)
        PROVE  f \in EntrySet(t) \ {e}
    <3>1. PICK i \in Places(u) : \E j \in 1 .. Len(u.buckets[i]) : f = u.buckets[i][j]
      BY <1>4, EntryPlaces
    <3> PICK j \in 1 .. Len(u.buckets[i]) : f = u.buckets[i][j]
      BY <3>1
    <3>2. CASE i # p
      BY <1>1, <1>3, <1>6, <2>1, <3>2, EntryPlaces
    <3>3. CASE i = p
      <4>1. After(j) \in 1 .. Len(t.buckets[p]) /\ After(j) # q /\ f = t.buckets[p][After(j)]
        BY <1>8, <1>9, <3>3
      <4>2. QED
        BY <1>1, <2>1, <4>1, EntryPlaces
    <3>4. QED
      BY <3>2, <3>3
  <2>3. ASSUME NEW f \in EntrySet(t), f # e
        PROVE  f \in EntrySet(u)
    <3>1. PICK i \in Places(t) : \E j \in 1 .. Len(t.buckets[i]) : f = t.buckets[i][j]
      BY <1>1, EntryPlaces
    <3> PICK j \in 1 .. Len(t.buckets[i]) : f = t.buckets[i][j]
      BY <3>1
    <3>2. CASE i # p
      BY <1>3, <1>4, <1>6, <3>2, EntryPlaces
    <3>3. CASE i = p
      <4>1. j # q
        BY <2>3, <3>3
      <4>2. PICK l \in 1 .. Len(u.buckets[p]) : After(l) = j
        BY <1>11, <3>3, <4>1
      <4>3. f = u.buckets[p][l]
        BY <1>8, <3>3, <4>2
      <4>4. QED
        BY <1>3, <1>4, <4>3, EntryPlaces
    <3>4. QED
      BY <3>2, <3>3
  <2>4. QED
    BY <2>2, <2>3
<1> HIDE DEF e
<1>16. Counted(u)
  <2>1. IsFiniteSet(EntrySet(t)) /\ t.numEntries = Cardinality(EntrySet(t))
    BY <1>1 DEF Counted
  <2>2. IsFiniteSet(EntrySet(t) \ {e}) /\ Cardinality(EntrySet(t) \ {e}) = Cardinality(EntrySet(t)) - 1
    BY <1>14, <2>1, FS_RemoveElement
  <2>3. QED
    BY <1>15, <2>1, <2>2 DEF Counted
<1>17. QED
  BY <1>3, <1>4, <1>12, <1>13, <1>15, <1>16 DEF IsHash, e

(* s holds what stands in the first i chains, each key once. *)
Gathered(s, t, i) ==
  /\ s \in Seq(Entry)
  /\ \A x \in 1 .. Len(s) : \E l \in 0 .. i - 1 : \E j \in 1 .. Len(t.buckets[l]) : s[x] = t.buckets[l][j]
  /\ \A l \in 0 .. i - 1 : \A j \in 1 .. Len(t.buckets[l]) : \E x \in 1 .. Len(s) : s[x] = t.buckets[l][j]
  /\ \A x, y \in 1 .. Len(s) : Same(s[x], s[y]) => x = y

(* The walk through one more bucket. *)
LEMMA GatheredMore ==
  ASSUME NEW t, IsTable(t), Placed(t), Apart(t), NEW i \in 1 .. numBuckets(t) - 1, NEW s, Gathered(s, t, i)
  PROVE  Gathered(s \o t.buckets[i], t, i + 1)
<1> DEFINE c == t.buckets[i]
           r == s \o c
<1>1. numBuckets(t) \in Nat \ {0} /\ i \in Places(t) /\ \A l \in 0 .. i : l \in Places(t)
  BY TableFacts DEF Places
<1>2. s \in Seq(Entry) /\ c \in Seq(Entry) /\ Len(s) \in Nat /\ Len(c) \in Nat
  <2>1. s \in Seq(Entry)
    BY DEF Gathered
  <2>2. c \in Seq(Entry) /\ Len(c) \in Nat
    BY <1>1, TableFacts
  <2>3. QED
    BY <2>1, <2>2, LenProperties
<1>3. /\ r \in Seq(Entry) /\ Len(r) = Len(s) + Len(c)
      /\ \A x \in 1 .. Len(s) + Len(c) : r[x] = IF x <= Len(s) THEN s[x] ELSE c[x - Len(s)]
  BY <1>2, ConcatProperties
<1>4. \A x \in 1 .. Len(r) : \/ x \in 1 .. Len(s) /\ r[x] = s[x]
                             \/ x \notin 1 .. Len(s) /\ x - Len(s) \in 1 .. Len(c) /\ r[x] = c[x - Len(s)]
  BY <1>2, <1>3
<1>5. /\ \A x \in 1 .. Len(s) : x \in 1 .. Len(r) /\ r[x] = s[x]
      /\ \A x \in 1 .. Len(c) : x + Len(s) \in 1 .. Len(r) /\ r[x + Len(s)] = c[x]
  BY <1>2, <1>3
<1>6. 0 .. (i + 1) - 1 = (0 .. i - 1) \cup {i} /\ i \notin 0 .. i - 1
  BY <1>1
<1> HIDE DEF r
<1>7. ASSUME NEW x \in 1 .. Len(r)
      PROVE  \E l \in 0 .. (i + 1) - 1 : \E j \in 1 .. Len(t.buckets[l]) : r[x] = t.buckets[l][j]
  <2>1. CASE x \in 1 .. Len(s)
    BY <1>4, <1>6, <2>1 DEF Gathered
  <2>2. CASE x \notin 1 .. Len(s)
    BY <1>4, <1>6, <2>2
  <2>3. QED
    BY <2>1, <2>2
<1>8. ASSUME NEW l \in 0 .. (i + 1) - 1, NEW j \in 1 .. Len(t.buckets[l])
      PROVE  \E x \in 1 .. Len(r) : r[x] = t.buckets[l][j]
  <2>1. CASE l = i
    BY <1>5, <2>1
  <2>2. CASE l # i
    <3>1. PICK x \in 1 .. Len(s) : s[x] = t.buckets[l][j]
      BY <1>6, <2>2 DEF Gathered
    <3>2. QED
      BY <1>5, <3>1
  <2>3. QED
    BY <2>1, <2>2
<1>9. \A x \in 1 .. Len(s) : \A y \in 1 .. Len(c) : KeyOf(s[x].key) # KeyOf(c[y].key)
  <2> SUFFICES ASSUME NEW x \in 1 .. Len(s), NEW y \in 1 .. Len(c), KeyOf(s[x].key) = KeyOf(c[y].key)
               PROVE  FALSE
    OBVIOUS
  <2>1. PICK l \in 0 .. i - 1 : \E j \in 1 .. Len(t.buckets[l]) : s[x] = t.buckets[l][j]
    BY DEF Gathered
  <2> PICK j \in 1 .. Len(t.buckets[l]) : s[x] = t.buckets[l][j]
    BY <2>1
  <2>2. l \in Places(t)
    BY <1>1
  <2>3. IndexOf(t, s[x].key) = l /\ IndexOf(t, c[y].key) = i
    BY <1>1, <2>1, <2>2 DEF Placed
  <2>4. l = i
    BY <2>3, SameIndex
  <2>5. QED
    BY <1>6, <2>4
<1>10. ASSUME NEW x \in 1 .. Len(r), NEW y \in 1 .. Len(r), Same(r[x], r[y])
       PROVE  x = y
  <2>1. CASE x \in 1 .. Len(s) /\ y \in 1 .. Len(s)
    BY <1>4, <1>10, <2>1 DEF Gathered
  <2>2. CASE x \in 1 .. Len(s) /\ y \notin 1 .. Len(s)
    BY <1>4, <1>9, <1>10, <2>2 DEF Same
  <2>3. CASE x \notin 1 .. Len(s) /\ y \in 1 .. Len(s)
    BY <1>4, <1>9, <1>10, <2>3 DEF Same
  <2>4. CASE x \notin 1 .. Len(s) /\ y \notin 1 .. Len(s)
    <3>1. x - Len(s) = y - Len(s)
      BY <1>1, <1>4, <1>10, <2>4 DEF Apart
    <3>2. x \in Int /\ y \in Int
      OBVIOUS
    <3>3. QED
      BY <1>2, <3>1, <3>2
  <2>5. QED
    BY <2>1, <2>2, <2>3, <2>4
<1>11. QED
  BY <1>3, <1>7, <1>8, <1>10 DEF Gathered, r

Flat(g, ss) == g = [i \in 1 .. Len(ss) |-> IF i = 1 THEN ss[i] ELSE g[i - 1] \o ss[i]]

(* The order of a walk is what concatenating chain by chain gives. *)
LEMMA FlattenIs ==
  ASSUME NEW ss, NEW f, Len(ss) # 0, Flat(f, ss)
  PROVE \E g : Flat(g, ss) /\ FlattenSeq(ss) = g[Len(ss)]
<1> DEFINE h == CHOOSE g : g = [i \in 1 .. Len(ss) |-> IF i = 1 THEN ss[i] ELSE g[i - 1] \o ss[i]]
<1>1. h = [i \in 1 .. Len(ss) |-> IF i = 1 THEN ss[i] ELSE h[i - 1] \o ss[i]]
  BY DEF Flat
<1>2. FlattenSeq(ss) = h[Len(ss)]
  BY DEF FlattenSeq
<1> HIDE DEF h
<1>3. QED
  BY <1>1, <1>2 DEF Flat

(* The walk through the table meets every entry once. *)
LEMMA Walk ==
  ASSUME NEW t, IsTable(t), Placed(t), Apart(t)
  PROVE  /\ Entries(t) \in Seq(Entry)
         /\ \A e : e \in EntrySet(t) <=> \E x \in 1 .. Len(Entries(t)) : e = Entries(t)[x]
         /\ \A x, y \in 1 .. Len(Entries(t)) : Same(Entries(t)[x], Entries(t)[y]) => x = y
<1> DEFINE n  == numBuckets(t)
           ss == [i \in 1 .. n |-> t.buckets[i - 1]]
           G  == [p \in (1 + 1 .. n) \X Seq(Entry) |-> p[2] \o ss[p[1]]]
<1>1. n \in Nat \ {0} /\ \A i \in 0 .. n - 1 : i \in Places(t) /\ t.buckets[i] \in Seq(Entry)
  BY TableFacts DEF Places
<1>2. Len(ss) = n /\ \A i \in 1 .. n : ss[i] = t.buckets[i - 1] /\ ss[i] \in Seq(Entry)
  BY <1>1
<1>3. \E f : Flat(f, ss)
  <2>1. G \in [(1 + 1 .. n) \X Seq(Entry) -> Seq(Entry)]
    <3>1. \A p \in (1 + 1 .. n) \X Seq(Entry) : p[2] \in Seq(Entry) /\ ss[p[1]] \in Seq(Entry)
      BY <1>1, <1>2
    <3> HIDE DEF ss
    <3>2. \A p \in (1 + 1 .. n) \X Seq(Entry) : p[2] \o ss[p[1]] \in Seq(Entry)
      BY <3>1, ConcatProperties
    <3>3. QED
      BY <3>2
  <2> HIDE DEF G
  <2>2. ss[1] \in Seq(Entry) /\ 1 <= n
    BY <1>1, <1>2
  <2>3. PICK f \in [1 .. n -> Seq(Entry)] : Follows(f, 1, n, ss[1], G)
    BY <1>1, <2>1, <2>2, RecursionExists
  <2>4. \A i \in 1 .. n : i # 1 => i \in 1 + 1 .. n /\ i - 1 \in 1 .. n
    BY <1>1
  <2>5. \A i \in 1 .. n : i # 1 => G[<<i, f[i - 1]>>] = f[i - 1] \o ss[i]
    BY <2>4 DEF G
  <2>6. f = [i \in 1 .. n |-> IF i = 1 THEN ss[1] ELSE G[<<i, f[i - 1]>>]]
    BY <2>3 DEF Follows
  <2>7. f = [i \in 1 .. n |-> IF i = 1 THEN ss[i] ELSE f[i - 1] \o ss[i]]
    BY ONLY <2>5, <2>6
  <2>8. QED
    BY <1>2, <2>7 DEF Flat
<1>4. Entries(t) = FlattenSeq(ss)
  BY DEF Entries
<1> HIDE DEF ss, n
<1>5. PICK g : Flat(g, ss) /\ Entries(t) = g[n]
  BY <1>1, <1>2, <1>3, <1>4, FlattenIs
<1>6. \A i \in 1 .. n : g[i] = IF i = 1 THEN ss[i] ELSE g[i - 1] \o ss[i]
  BY <1>2, <1>5 DEF Flat
<1> DEFINE S == {i \in 1 .. n : Gathered(g[i], t, i)}
<1>7. 1 \in S
  <2>1. 1 \in 1 .. n /\ g[1] = t.buckets[0] /\ 0 \in Places(t) /\ t.buckets[0] \in Seq(Entry)
    BY <1>1, <1>2, <1>6
  <2>2. 0 .. 1 - 1 = {0}
    OBVIOUS
  <2>3. Gathered(t.buckets[0], t, 1)
    BY <2>1, <2>2 DEF Gathered, Apart
  <2>4. QED
    BY <2>1, <2>3
<1>8. \A i \in 1 + 1 .. n : i - 1 \in S => i \in S
  <2> SUFFICES ASSUME NEW i \in 1 + 1 .. n, i - 1 \in S
               PROVE  i \in S
    OBVIOUS
  <2>1. i \in 1 .. n /\ i # 1 /\ i - 1 \in 1 .. n - 1 /\ (i - 1) + 1 = i
    BY <1>1
  <2>2. g[i] = g[i - 1] \o t.buckets[i - 1]
    BY <1>2, <1>6, <2>1
  <2>3. Gathered(g[i - 1] \o t.buckets[i - 1], t, (i - 1) + 1)
    BY <2>1, GatheredMore DEF n
  <2>4. QED
    BY <2>1, <2>2, <2>3
<1>9. n \in S
  <2> HIDE DEF S
  <2>1. 1 \in Nat /\ n \in Nat /\ 1 <= n
    BY <1>1
  <2>2. 1 .. n \subseteq S
    BY ONLY <1>7, <1>8, <2>1, UpTo
  <2>3. QED
    BY <2>1, <2>2
<1>10. Gathered(Entries(t), t, n)
  BY <1>5, <1>9
<1>11. 0 .. n - 1 = Places(t)
  BY DEF Places, n
<1>12. \A e : e \in EntrySet(t) <=> \E i \in Places(t) : \E j \in 1 .. Len(t.buckets[i]) : e = t.buckets[i][j]
  BY EntryPlaces
<1>13. /\ Entries(t) \in Seq(Entry)
       /\ \A x, y \in 1 .. Len(Entries(t)) : Same(Entries(t)[x], Entries(t)[y]) => x = y
  BY <1>10 DEF Gathered
<1>14. ASSUME NEW x \in 1 .. Len(Entries(t))
       PROVE  Entries(t)[x] \in EntrySet(t)
  <2>1. \E i \in Places(t) : \E j \in 1 .. Len(t.buckets[i]) : Entries(t)[x] = t.buckets[i][j]
    BY <1>10, <1>11 DEF Gathered
  <2>2. QED
    BY <1>12, <2>1
<1>15. ASSUME NEW e \in EntrySet(t)
       PROVE  \E x \in 1 .. Len(Entries(t)) : e = Entries(t)[x]
  <2>1. \A i \in Places(t) : \A j \in 1 .. Len(t.buckets[i]) :
          \E x \in 1 .. Len(Entries(t)) : Entries(t)[x] = t.buckets[i][j]
    BY <1>10, <1>11 DEF Gathered
  <2>2. QED
    BY <1>12, <2>1
<1>16. QED
  BY <1>13, <1>14, <1>15

(* Empty buckets are a good table. *)
LEMMA EmptyTable ==
  ASSUME NEW n \in Nat \ {0}, n <= Top, NEW t \in Records([0 .. n - 1 -> {<<>>}]), t.numEntries = 0
  PROVE  IsHash(t) /\ EntrySet(t) = {} /\ numBuckets(t) = n
<1>1. /\ DOMAIN t.buckets = 0 .. n - 1 /\ \A i \in 0 .. n - 1 : t.buckets[i] = <<>>
      /\ t.numEntries \in Nat /\ t.rebuildSize \in Nat \ {0}
  BY DEF Records
<1>2. numBuckets(t) = n /\ Places(t) = 0 .. n - 1
  BY <1>1, BucketsCount DEF Places
<1>3. t \in [buckets : [0 .. n - 1 -> Seq(Entry)], numEntries : Nat, rebuildSize : Nat \ {0}]
  BY DEF Records
<1>4. IsTable(t)
  BY <1>2, <1>3 DEF IsTable
<1>5. \A i \in Places(t) : Len(t.buckets[i]) = 0 /\ 1 .. Len(t.buckets[i]) = {}
  BY <1>1, <1>2
<1>6. EntrySet(t) = {}
  BY <1>4, <1>5, EntryPlaces
<1>7. Placed(t) /\ Apart(t)
  BY <1>5 DEF Placed, Apart
<1>8. Counted(t)
  BY <1>6, FS_EmptySet DEF Counted
<1>9. QED
  BY <1>2, <1>4, <1>6, <1>7, <1>8 DEF IsHash

Moves(g, es, bs, t) ==
  g = [m \in 0 .. Len(es) |->
         IF m = 0 THEN bs ELSE [g[m - 1] EXCEPT ![IndexOf(t, es[m].key)] = <<es[m]>> \o @]]

(* Rehashing moves one entry after the other. *)
LEMMA RehashedIs ==
  ASSUME NEW es, NEW bs, NEW t, NEW f, Moves(f, es, bs, t)
  PROVE  \E g : Moves(g, es, bs, t) /\ Rehashed(es, bs, t) = g[Len(es)]
<1> DEFINE h == CHOOSE g : g = [m \in 0 .. Len(es) |->
         IF m = 0 THEN bs ELSE [g[m - 1] EXCEPT ![IndexOf(t, es[m].key)] = <<es[m]>> \o @]]
<1>1. h = [m \in 0 .. Len(es) |->
         IF m = 0 THEN bs ELSE [h[m - 1] EXCEPT ![IndexOf(t, es[m].key)] = <<es[m]>> \o @]]
  BY DEF Moves
<1>2. Rehashed(es, bs, t) = h[Len(es)]
  BY DEF Rehashed
<1> HIDE DEF h
<1>3. QED
  BY <1>1, <1>2 DEF Moves

(* What is moved, entry by entry, into the empty table t. *)
LEMMA AllMoved ==
  ASSUME NEW t, IsHash(t), EntrySet(t) = {}, NEW es \in Seq(Entry),
         \A x, y \in 1 .. Len(es) : Same(es[x], es[y]) => x = y,
         NEW v, DOMAIN v.buckets = DOMAIN t.buckets, NEW u,
         u = [buckets |-> Rehashed(es, t.buckets, v), numEntries |-> Len(es), rebuildSize |-> t.rebuildSize]
  PROVE  /\ IsHash(u) /\ numBuckets(u) = numBuckets(t)
         /\ \A e : e \in EntrySet(u) <=> \E x \in 1 .. Len(es) : e = es[x]
<1> DEFINE n == Len(es)
           B == [Places(t) -> Seq(Entry)]
           G == [p \in (0 + 1 .. n) \X B |-> [p[2] EXCEPT ![IndexOf(v, es[p[1]].key)] = <<es[p[1]]>> \o @]]
<1>1. IsTable(t) /\ DOMAIN t.buckets = Places(t) /\ t.rebuildSize \in Nat \ {0}
  BY TableFacts DEF IsHash
<1>2. t.buckets \in B /\ n \in Nat /\ \A m \in 1 .. n : es[m] \in Entry /\ es[m].key \in Keys
  <2>1. \A m \in 1 .. n : es[m] \in Entry
    OBVIOUS
  <2>2. \A m \in 1 .. n : es[m].key \in Keys
    BY <2>1 DEF Entry
  <2>3. t.buckets \in B
    BY <1>1 DEF IsTable
  <2>4. QED
    BY <2>1, <2>2, <2>3, LenProperties
<1> HIDE DEF n
<1>3. \A m \in 1 .. n : IndexOf(v, es[m].key) \in Places(t)
  <2>1. \A k : IndexOf(v, k) = IndexOf(t, k)
    BY SameSize
  <2>2. QED
    BY <1>1, <1>2, <2>1, IndexRange
<1>4. \E f : Moves(f, es, t.buckets, v)
  <2>1. G \in [(0 + 1 .. n) \X B -> B]
    <3>1. ASSUME NEW m \in 1 .. n, NEW b \in B
          PROVE  [b EXCEPT ![IndexOf(v, es[m].key)] = <<es[m]>> \o @] \in B
      <4> DEFINE i == IndexOf(v, es[m].key)
      <4>1. i \in Places(t) /\ b[i] \in Seq(Entry) /\ es[m] \in Entry
        BY <1>2, <1>3
      <4>2. <<es[m]>> \o b[i] \in Seq(Entry)
        BY <4>1, HeadPut
      <4> HIDE DEF i
      <4>3. [b EXCEPT ![i] = <<es[m]>> \o @] \in B
        BY <4>1, <4>2
      <4>4. QED
        BY <4>3 DEF i
    <3>2. \A p \in (0 + 1 .. n) \X B : p[1] \in 1 .. n /\ p[2] \in B
      BY <1>2
    <3> HIDE DEF B
    <3>3. QED
      BY <3>1, <3>2
  <2> HIDE DEF G, B
  <2>2. 0 \in Nat /\ n \in Nat /\ 0 <= n /\ t.buckets \in B
    BY <1>2
  <2>3. PICK f \in [0 .. n -> B] : Follows(f, 0, n, t.buckets, G)
    BY <2>1, <2>2, RecursionExists
  <2>4. \A m \in 0 .. n : m # 0 => m \in 0 + 1 .. n /\ m - 1 \in 0 .. n
    BY <1>2
  <2>5. \A m \in 0 .. n : m # 0 => G[<<m, f[m - 1]>>] = [f[m - 1] EXCEPT ![IndexOf(v, es[m].key)] = <<es[m]>> \o @]
    BY <2>4 DEF G
  <2>6. f = [m \in 0 .. n |-> IF m = 0 THEN t.buckets ELSE G[<<m, f[m - 1]>>]]
    BY <2>3 DEF Follows
  <2>7. f = [m \in 0 .. n |-> IF m = 0 THEN t.buckets
                              ELSE [f[m - 1] EXCEPT ![IndexOf(v, es[m].key)] = <<es[m]>> \o @]]
    BY ONLY <2>5, <2>6
  <2>8. QED
    BY <2>7 DEF Moves, n
<1>5. PICK g : Moves(g, es, t.buckets, v) /\ Rehashed(es, t.buckets, v) = g[n]
  BY <1>4, RehashedIs DEF n
<1>6. \A m \in 0 .. n : g[m] = IF m = 0 THEN t.buckets
                               ELSE [g[m - 1] EXCEPT ![IndexOf(v, es[m].key)] = <<es[m]>> \o @]
  BY <1>5 DEF Moves, n
<1> DEFINE T(m) == [buckets |-> g[m], numEntries |-> m, rebuildSize |-> t.rebuildSize]
           Reached(m) == /\ g[m] \in B /\ IsHash(T(m)) /\ numBuckets(T(m)) = numBuckets(t)
                      /\ \A e : e \in EntrySet(T(m)) <=> \E x \in 1 .. m : e = es[x]
           S == {m \in 0 .. n : Reached(m)}
<1>7. 0 \in S
  <2> 0 \in 0 .. n
    BY <1>2
  <2>1. g[0] = t.buckets
    BY <1>6
  <2>2. T(0) = t
    <3>1. t.numEntries = 0
      BY FS_EmptySet DEF IsHash, Counted
    <3>2. t \in [buckets : B, numEntries : Nat, rebuildSize : Nat \ {0}]
      BY <1>1 DEF IsTable
    <3>3. QED
      BY <2>1, <3>1, <3>2
  <2> HIDE DEF T, B
  <2>3. 1 .. 0 = {}
    OBVIOUS
  <2>4. \A e : e \in EntrySet(T(0)) <=> \E x \in 1 .. 0 : e = es[x]
    BY <2>2, <2>3
  <2>5. QED
    BY <1>2, <2>1, <2>2, <2>4
<1>8. \A m \in 0 + 1 .. n : m - 1 \in S => m \in S
  <2> SUFFICES ASSUME NEW m \in 0 + 1 .. n, m - 1 \in S
               PROVE  m \in S
    OBVIOUS
  <2>1. m \in 0 .. n /\ m # 0 /\ m \in 1 .. n /\ m - 1 \in Nat /\ (m - 1) + 1 = m
    BY <1>2
  <2> DEFINE i == IndexOf(v, es[m].key)
             a == T(m - 1)
  <2>2. /\ g[m - 1] \in B /\ IsHash(a) /\ numBuckets(a) = numBuckets(t)
        /\ \A e : e \in EntrySet(a) <=> \E x \in 1 .. m - 1 : e = es[x]
    OBVIOUS
  <2>3. DOMAIN a.buckets = DOMAIN t.buckets /\ a.buckets = g[m - 1] /\ a.numEntries = m - 1
    BY <1>1, <2>2
  <2>4. Places(a) = Places(t) /\ IndexOf(a, es[m].key) = i
    <3>1. Places(a) = Places(t) /\ IndexOf(a, es[m].key) = IndexOf(t, es[m].key)
      BY <2>3, SameSize
    <3>2. IndexOf(v, es[m].key) = IndexOf(t, es[m].key)
      BY SameSize
    <3>3. QED
      BY <3>1, <3>2
  <2>5. i \in Places(t) /\ es[m] \in Entry
    BY <1>2, <1>3, <2>1
  <2>6. g[m] = [g[m - 1] EXCEPT ![i] = <<es[m]>> \o @]
    BY <1>6, <2>1
  <2>7. g[m - 1][i] \in Seq(Entry) /\ <<es[m]>> \o g[m - 1][i] \in Seq(Entry)
    BY <2>2, <2>5, HeadPut
  <2> HIDE DEF i
  <2>8. g[m] \in B /\ \A l \in Places(t) : g[m][l] = IF l = i THEN <<es[m]>> \o g[m - 1][l] ELSE g[m - 1][l]
    BY <2>2, <2>5, <2>6, <2>7
  <2>9. Pushes(T(m), a, es[m])
    <3>1. /\ T(m) \in [buckets : B, numEntries : Nat, rebuildSize : Nat \ {0}]
          /\ T(m).numEntries = m /\ T(m).buckets = g[m]
      BY <1>1, <2>1, <2>8
    <3> HIDE DEF T, a
    <3>2. T(m) \in Records([Places(a) -> Seq(Entry)])
      BY <2>4, <3>1 DEF Records
    <3>3. QED
      BY <2>1, <2>3, <2>4, <2>8, <3>1, <3>2 DEF Pushes
  <2>10. \A f \in EntrySet(a) : ~Same(es[m], f)
    <3> SUFFICES ASSUME NEW f \in EntrySet(a), Same(es[m], f) PROVE FALSE
      OBVIOUS
    <3>1. PICK x \in 1 .. m - 1 : f = es[x]
      BY <2>2
    <3>2. x \in 1 .. n /\ x # m
      BY <1>2, <2>1
    <3>3. QED
      BY <2>1, <3>1, <3>2 DEF n
  <2> HIDE DEF a
  <2>11. /\ IsHash(T(m)) /\ numBuckets(T(m)) = numBuckets(a) /\ EntrySet(T(m)) = EntrySet(a) \cup {es[m]}
    <3> HIDE DEF T
    <3>1. IsHash(T(m))
      BY ONLY <2>2, <2>5, <2>9, <2>10, PushedTable
    <3>2. numBuckets(T(m)) = numBuckets(a)
      BY ONLY <2>2, <2>5, <2>9, <2>10, PushedTable
    <3>3. EntrySet(T(m)) = EntrySet(a) \cup {es[m]}
      BY ONLY <2>2, <2>5, <2>9, <2>10, PushedTable
    <3>4. QED
      BY <3>1, <3>2, <3>3
  <2> HIDE DEF T
  <2>12. 1 .. m = (1 .. m - 1) \cup {m}
    BY <2>1
  <2>13. \A e : e \in EntrySet(T(m)) <=> \E x \in 1 .. m : e = es[x]
    BY <2>2, <2>11, <2>12
  <2>14. QED
    BY <2>1, <2>2, <2>8, <2>11, <2>13
<1>9. n \in S
  <2> HIDE DEF S
  <2>1. 0 \in Nat /\ n \in Nat /\ 0 <= n /\ n \in 0 .. n
    BY <1>2
  <2>2. 0 .. n \subseteq S
    BY ONLY <1>7, <1>8, <2>1, UpTo
  <2>3. QED
    BY <2>1, <2>2
<1>10. u = T(n)
  BY <1>5 DEF n
<1> HIDE DEF T
<1>11. Reached(n)
  BY <1>9
<1>12. QED
  BY <1>10, <1>11 DEF n

\* a table with all keys is still indexed with bits that a hash has
ShiftsSuffice == SmallTable <= Top /\ 4 * Cardinality(Keys) <= Multiplier * Top

\* a good table that grows when it has to
Sound(t) ==
  IsHash(t) /\ t.rebuildSize = Multiplier * numBuckets(t) /\ t.numEntries < t.rebuildSize

(* There are no more entries than keys. *)
LEMMA AtMostTheKeys ==
  ASSUME NEW t, IsHash(t)
  PROVE  t.numEntries \in 0 .. Cardinality(Keys)
<1> DEFINE f == [e \in EntrySet(t) |-> e.key]
<1>1. IsTable(t) /\ Placed(t) /\ Apart(t) /\ Counted(t) /\ IsFiniteSet(Keys)
  BY HashAssumption DEF IsHash
<1>2. \A e \in EntrySet(t) : e.key \in Keys
  BY <1>1, EntriesAreEntries DEF Entry
<1>3. \A d, e \in EntrySet(t) : d.key = e.key => d = e
  BY <1>1, OnlyOne DEF Same
<1>4. f \in Injection(EntrySet(t), Keys)
  BY <1>2, <1>3 DEF Injection, IsInjective
<1> HIDE DEF f
<1>6. Cardinality(EntrySet(t)) <= Cardinality(Keys)
  BY <1>1, <1>4, FS_Injection
<1>7. Cardinality(Keys) \in Nat /\ t.numEntries \in Nat /\ t.numEntries = Cardinality(EntrySet(t))
  BY <1>1, TableFacts, FS_CardinalityType DEF Counted
<1>8. QED
  BY <1>6, <1>7

(* A new table is sound and empty. *)
LEMMA NewTable ==
  ASSUME ShiftsSuffice
  PROVE  Sound(InitHashTable) /\ EntrySet(InitHashTable) = {} /\ InitHashTable.numEntries = 0
<1> DEFINE t == InitHashTable
<1>1. SmallTable \in Nat \ {0} /\ SmallTable <= Top /\ Multiplier \in Nat \ {0}
  BY HashAssumption DEF ShiftsSuffice
<1>2. SmallTable * Multiplier \in Nat \ {0} /\ SmallTable * Multiplier = Multiplier * SmallTable
  BY <1>1
<1>3. t \in Records([0 .. SmallTable - 1 -> {<<>>}]) /\ t.numEntries = 0 /\ t.rebuildSize = SmallTable * Multiplier
  BY <1>2 DEF InitHashTable, Records
<1> HIDE DEF t
<1>4. IsHash(t) /\ EntrySet(t) = {} /\ numBuckets(t) = SmallTable
  BY <1>1, <1>3, EmptyTable
<1>5. QED
  BY <1>2, <1>3, <1>4 DEF Sound, t

(* A common factor can be dropped. *)
LEMMA Shorter ==
  ASSUME NEW a \in Nat \ {0}, NEW x \in Nat, NEW y \in Nat, a * x <= a * y
  PROVE  x <= y
<1>1. SUFFICES ASSUME y + 1 <= x PROVE FALSE
  OBVIOUS
<1>2. PICK d \in Nat : x = y + 1 + d
  <2>1. x - y - 1 \in Nat /\ x = y + 1 + (x - y - 1)
    BY <1>1
  <2>2. QED
    BY <2>1
<1>3. a * x = a * y + a + a * d
  BY <1>2
<1>4. a * d \in Nat /\ a * y \in Nat
  OBVIOUS
<1>5. QED
  BY <1>3, <1>4

(* Two tables with the same fields are the same. *)
LEMMA SameRecord ==
  ASSUME NEW S, NEW t \in Records(S), NEW u \in Records(S),
         t.buckets = u.buckets, t.numEntries = u.numEntries, t.rebuildSize = u.rebuildSize
  PROVE  t = u
BY DEF Records

(* What enlarging a table assigns. *)
LEMMA Assigned ==
  ASSUME NEW S, NEW t \in Records(S), NEW T, NEW b \in T, NEW r \in Nat \ {0}
  PROVE  [t EXCEPT !.buckets = b, !.rebuildSize = r] = [buckets |-> b, numEntries |-> t.numEntries, rebuildSize |-> r]
<1> DEFINE u == [t EXCEPT !.buckets = b, !.rebuildSize = r]
           w == [buckets |-> b, numEntries |-> t.numEntries, rebuildSize |-> r]
<1>1. u \in Records(T) /\ u.buckets = b /\ u.numEntries = t.numEntries /\ u.rebuildSize = r
  BY DEF Records
<1>2. w \in Records(T) /\ w.buckets = b /\ w.numEntries = t.numEntries /\ w.rebuildSize = r
  BY DEF Records
<1> HIDE DEF u, w
<1>3. u = w
  BY <1>1, <1>2, SameRecord
<1>4. QED
  BY <1>3 DEF u, w

(* The larger table has the same entries. *)
LEMMA Rebuilt ==
  ASSUME ShiftsSuffice, NEW t, IsHash(t), t.rebuildSize = Multiplier * numBuckets(t), t.numEntries = t.rebuildSize,
         NEW u, u = RebuildTable(t)
  PROVE  Sound(u) /\ EntrySet(u) = EntrySet(t) /\ u.numEntries = t.numEntries
<1> DEFINE n  == numBuckets(t)
           em == Enlarged(t)
           es == Entries(t)
<1>1. IsTable(t) /\ Placed(t) /\ Apart(t) /\ Counted(t)
  BY DEF IsHash
<1>2. /\ n \in Nat \ {0} /\ Multiplier \in Nat \ {0} /\ Top \in Nat /\ t.numEntries \in Nat
      /\ t.rebuildSize \in Nat \ {0} /\ t.rebuildSize = Multiplier * n
  BY <1>1, HashAssumption, TableFacts
<1> HIDE DEF n
<1>3. 4 * n \in Nat \ {0} /\ 4 * n <= Top
  <2>1. Cardinality(Keys) \in Nat /\ t.numEntries <= Cardinality(Keys)
    BY AtMostTheKeys, HashAssumption, FS_CardinalityType
  <2>2. Multiplier * n <= Cardinality(Keys) /\ 4 * Cardinality(Keys) <= Multiplier * Top
    BY <1>2, <2>1 DEF ShiftsSuffice
  <2>3. Multiplier * n \in Nat /\ Multiplier * Top \in Nat /\ 4 * (Multiplier * n) = Multiplier * (4 * n)
    BY <1>2
  <2>4. Multiplier * (4 * n) <= Multiplier * Top
    BY <2>1, <2>2, <2>3
  <2>5. QED
    BY <1>2, <2>4, Shorter
<1> DEFINE z == [em EXCEPT !.numEntries = 0]
           w == [buckets |-> Rehashed(es, em.buckets, em), numEntries |-> Len(es), rebuildSize |-> em.rebuildSize]
<1>4. /\ em.buckets = [i \in 0 .. 4 * n - 1 |-> <<>>] /\ em.rebuildSize = 4 * t.rebuildSize
      /\ em = [buckets |-> em.buckets, numEntries |-> t.numEntries, rebuildSize |-> 4 * t.rebuildSize]
  <2>1. t \in Records([Places(t) -> Seq(Entry)])
    BY <1>1 DEF IsTable, Records
  <2>2. em = [t EXCEPT !.buckets = [i \in 0 .. 4 * n - 1 |-> <<>>], !.rebuildSize = 4 * t.rebuildSize]
    BY <2>1 DEF Enlarged, n, Records
  <2> HIDE DEF em
  <2> 4 * t.rebuildSize \in Nat \ {0}
    BY <1>2
  <2>3. em = [buckets |-> [i \in 0 .. 4 * n - 1 |-> <<>>], numEntries |-> t.numEntries,
              rebuildSize |-> 4 * t.rebuildSize]
    BY ONLY <2>1, <2>2, 4 * t.rebuildSize \in Nat \ {0}, Assigned
  <2>4. QED
    BY <2>3
<1> HIDE DEF em
<1>5. /\ z.buckets = em.buckets /\ z.numEntries = 0 /\ z.rebuildSize = em.rebuildSize
      /\ z \in Records([0 .. 4 * n - 1 -> {<<>>}])
  BY <1>2, <1>4 DEF Records
<1> HIDE DEF z
<1>6. IsHash(z) /\ EntrySet(z) = {} /\ numBuckets(z) = 4 * n
  BY <1>3, <1>5, EmptyTable
<1>7. /\ es \in Seq(Entry) /\ \A x, y \in 1 .. Len(es) : Same(es[x], es[y]) => x = y
      /\ \A e : e \in EntrySet(t) <=> \E x \in 1 .. Len(es) : e = es[x]
  BY <1>1, Walk
<1> HIDE DEF es
<1>8. DOMAIN em.buckets = DOMAIN z.buckets
  BY <1>5
<1>9. w = [buckets |-> Rehashed(es, z.buckets, em), numEntries |-> Len(es), rebuildSize |-> z.rebuildSize]
  BY <1>5
<1> HIDE DEF w
<1>10. /\ IsHash(w) /\ numBuckets(w) = numBuckets(z)
       /\ \A e : e \in EntrySet(w) <=> \E x \in 1 .. Len(es) : e = es[x]
  BY <1>6, <1>7, <1>8, <1>9, AllMoved
<1>11. EntrySet(w) = EntrySet(t)
  BY <1>7, <1>10
<1>12. Len(es) = t.numEntries
  BY <1>1, <1>9, <1>10, <1>11 DEF IsHash, Counted
<1>13. u = w
  BY <1>4, <1>12 DEF RebuildTable, w, es, em
<1>14. u.numEntries = t.numEntries /\ u.rebuildSize = 4 * t.rebuildSize
  BY <1>4, <1>12, <1>13 DEF w
<1>15. u.rebuildSize = Multiplier * numBuckets(u) /\ u.numEntries < u.rebuildSize
  BY <1>2, <1>6, <1>10, <1>13, <1>14
<1>16. QED
  BY <1>10, <1>11, <1>13, <1>14, <1>15 DEF Sound

(* The entry of a key that has one. *)
\* the entry that a lookup finds
At(t, k) == Chain(t, k)[FindHashEntry(t, k)]

(* A lookup finds the one entry with the key's content. *)
LEMMA AtIs ==
  ASSUME NEW t, Sound(t), NEW k \in Keys
  PROVE  /\ FindHashEntry(t, k) # 0 <=> \E e \in EntrySet(t) : KeyOf(e.key) = KeyOf(k)
         /\ FindHashEntry(t, k) # 0 =>
              /\ At(t, k) \in EntrySet(t) /\ At(t, k) \in Entry /\ KeyOf(At(t, k).key) = KeyOf(k)
              /\ GetHashValue(t, k) = At(t, k).value
              /\ \A e \in EntrySet(t) : KeyOf(e.key) = KeyOf(k) => e = At(t, k)
<1>1. IsTable(t) /\ Placed(t) /\ Apart(t)
  BY DEF Sound, IsHash
<1>2. FindHashEntry(t, k) # 0 <=> \E e \in EntrySet(t) : KeyOf(e.key) = KeyOf(k)
  BY <1>1, Lookup
<1>3. ASSUME FindHashEntry(t, k) # 0
      PROVE  /\ At(t, k) \in EntrySet(t) /\ At(t, k) \in Entry /\ KeyOf(At(t, k).key) = KeyOf(k)
             /\ GetHashValue(t, k) = At(t, k).value
             /\ \A e \in EntrySet(t) : KeyOf(e.key) = KeyOf(k) => e = At(t, k)
  <2>1. At(t, k) \in EntrySet(t) /\ KeyOf(At(t, k).key) = KeyOf(k)
    BY <1>1, <1>3, Lookup DEF At
  <2>2. At(t, k) \in Entry
    BY <1>1, <2>1, EntriesAreEntries
  <2>3. \A e \in EntrySet(t) : KeyOf(e.key) = KeyOf(k) => e = At(t, k)
    BY <1>1, <2>1, OnlyOne DEF Same
  <2>4. QED
    BY <2>1, <2>2, <2>3 DEF GetHashValue, At
<1>4. QED
  BY <1>2, <1>3

(* What an insertion or a removal assigns. *)
LEMMA Recounted ==
  ASSUME NEW S, NEW t \in Records(S), NEW T, NEW b \in T, NEW n \in Nat, NEW u,
         u = [t EXCEPT !.buckets = b, !.numEntries = n]
  PROVE  u \in Records(T) /\ u.buckets = b /\ u.numEntries = n /\ u.rebuildSize = t.rebuildSize
BY DEF Records

(* An insertion, with the growth it may cause, adds the entry and nothing else. *)
LEMMA Inserted ==
  ASSUME ShiftsSuffice, NEW t, Sound(t), NEW e \in Entry, \A f \in EntrySet(t) : ~Same(e, f),
         NEW u, u = Insert(t, IndexOf(t, e.key), e)
  PROVE  Sound(u) /\ EntrySet(u) = EntrySet(t) \cup {e} /\ u.numEntries = t.numEntries + 1
<1> DEFINE i == IndexOf(t, e.key)
           b == [t.buckets EXCEPT ![i] = <<e>> \o @]
           w == [t EXCEPT !.buckets[i] = <<e>> \o @, !.numEntries = @ + 1]
           B == [Places(t) -> Seq(Entry)]
<1>1. /\ IsHash(t) /\ IsTable(t) /\ t.rebuildSize = Multiplier * numBuckets(t) /\ t.numEntries < t.rebuildSize
      /\ t.numEntries \in Nat /\ t.rebuildSize \in Nat \ {0} /\ t \in Records(B)
  BY TableFacts DEF Sound, IsHash, IsTable, Records
<1>2. i \in Places(t) /\ t.buckets \in B
  BY <1>1, IndexRange DEF Entry, Records
<1>3. w = [t EXCEPT !.buckets = b, !.numEntries = t.numEntries + 1]
  BY <1>1 DEF Records
<1>4. u = IF w.numEntries >= w.rebuildSize THEN RebuildTable(w) ELSE w
  BY DEF Insert
<1> HIDE DEF i, w
<1>5. t.buckets[i] \in Seq(Entry) /\ <<e>> \o t.buckets[i] \in Seq(Entry)
  BY <1>2, HeadPut
<1>6. b \in B /\ \A l \in Places(t) : b[l] = IF l = i THEN <<e>> \o t.buckets[l] ELSE t.buckets[l]
  BY <1>2, <1>5
<1>7. t.numEntries + 1 \in Nat
  BY <1>1
<1> HIDE DEF b, B
<1>8. w \in Records(B) /\ w.buckets = b /\ w.numEntries = t.numEntries + 1 /\ w.rebuildSize = t.rebuildSize
  <2>1. t \in Records(B) /\ b \in B
    BY <1>1, <1>6
  <2>2. QED
    BY ONLY <1>3, <1>7, <2>1 DEF Records
<1>9. Pushes(w, t, e)
  BY <1>6, <1>8 DEF Pushes, B, i
<1>10. IsHash(w) /\ numBuckets(w) = numBuckets(t) /\ EntrySet(w) = EntrySet(t) \cup {e}
  <2>1. IsHash(w)
    BY <1>1, <1>9, PushedTable
  <2>2. numBuckets(w) = numBuckets(t)
    BY <1>1, <1>9, PushedTable
  <2>3. EntrySet(w) = EntrySet(t) \cup {e}
    BY <1>1, <1>9, PushedTable
  <2>4. QED
    BY <2>1, <2>2, <2>3
<1>11. CASE w.numEntries >= w.rebuildSize
  <2>1. w.numEntries = w.rebuildSize /\ w.rebuildSize = Multiplier * numBuckets(w)
    BY <1>1, <1>8, <1>10, <1>11
  <2>2. Sound(u) /\ EntrySet(u) = EntrySet(w) /\ u.numEntries = w.numEntries
    BY <1>4, <1>10, <1>11, <2>1, Rebuilt
  <2>3. QED
    BY <1>8, <1>10, <2>2
<1>12. CASE ~(w.numEntries >= w.rebuildSize)
  <2>1. w.numEntries < w.rebuildSize /\ u = w
    BY <1>1, <1>4, <1>8, <1>12
  <2>2. QED
    BY <1>1, <1>8, <1>10, <2>1 DEF Sound
<1>13. QED
  BY <1>11, <1>12

(* Creating an entry adds it. *)
LEMMA Created ==
  ASSUME ShiftsSuffice, NEW t, Sound(t), NEW k \in Keys, NEW v \in Values \cup {null},
         FindHashEntry(t, k) = 0, NEW u, u = CreateHashEntry(t, k, v)
  PROVE  /\ Sound(u) /\ EntrySet(u) = EntrySet(t) \cup {[key |-> k, value |-> v]}
         /\ u.numEntries = t.numEntries + 1
<1> DEFINE e == [key |-> k, value |-> v]
<1>1. e \in Entry /\ e.key = k
  BY DEF Entry
<1>2. u = Insert(t, IndexOf(t, e.key), e)
  BY HashAssumption DEF CreateHashEntry, StringCreate, OneWordCreate, ArrayCreate, IndexOf, STRING_KEYS
<1> HIDE DEF e
<1>3. \A f \in EntrySet(t) : ~Same(e, f)
  BY <1>1, AtIs DEF Same
<1>4. Sound(u)
  BY ONLY <1>1, <1>2, <1>3, Sound(t), ShiftsSuffice, Inserted
<1>5. EntrySet(u) = EntrySet(t) \cup {e}
  BY ONLY <1>1, <1>2, <1>3, Sound(t), ShiftsSuffice, Inserted
<1>6. u.numEntries = t.numEntries + 1
  BY ONLY <1>1, <1>2, <1>3, Sound(t), ShiftsSuffice, Inserted
<1>7. QED
  BY <1>4, <1>5, <1>6 DEF e

(* Deleting an entry removes it. *)
LEMMA Removed ==
  ASSUME NEW t, Sound(t), NEW k \in Keys, FindHashEntry(t, k) # 0, NEW u, u = DeleteHashEntry(t, k)
  PROVE  Sound(u) /\ EntrySet(u) = EntrySet(t) \ {At(t, k)} /\ u.numEntries = t.numEntries - 1
<1> DEFINE p == IndexOf(t, k)
           q == FindHashEntry(t, k)
           b == [t.buckets EXCEPT ![p] = RemoveAt(@, q)]
           B == [Places(t) -> Seq(Entry)]
<1>1. /\ IsHash(t) /\ IsTable(t) /\ Placed(t) /\ Counted(t) /\ t.rebuildSize = Multiplier * numBuckets(t)
      /\ t.numEntries < t.rebuildSize /\ t.numEntries \in Nat /\ t.rebuildSize \in Nat \ {0} /\ t \in Records(B)
  BY TableFacts DEF Sound, IsHash, IsTable, Records
<1>2. p \in Places(t) /\ q \in 1 .. Len(t.buckets[p]) /\ t.buckets[p][q] \in EntrySet(t) /\ t.buckets \in B
  BY <1>1, Lookup DEF Chain, Records
<1>3. u = [t EXCEPT !.buckets = b, !.numEntries = t.numEntries - 1]
  BY <1>1 DEF DeleteHashEntry, Records
<1>4. At(t, k) = t.buckets[p][q]
  BY DEF At, Chain
<1> HIDE DEF p, q
<1>5. t.buckets[p] \in Seq(Entry) /\ RemoveAt(t.buckets[p], q) \in Seq(Entry)
  BY <1>2, Taken
<1>6. b \in B /\ \A l \in Places(t) : b[l] = IF l = p THEN RemoveAt(t.buckets[l], q) ELSE t.buckets[l]
  BY <1>2, <1>5
<1>7. t.numEntries - 1 \in Nat
  <2>1. Cardinality(EntrySet(t)) # 0
    BY <1>1, <1>2, FS_EmptySet DEF Counted
  <2>2. QED
    BY <1>1, <2>1 DEF Counted
<1> HIDE DEF b, B
<1>8. u \in Records(B) /\ u.buckets = b /\ u.numEntries = t.numEntries - 1 /\ u.rebuildSize = t.rebuildSize
  <2>1. t \in Records(B) /\ b \in B
    BY <1>1, <1>6
  <2>2. QED
    BY ONLY <1>3, <1>7, <2>1 DEF Records
<1>9. Removes(u, t, p, q)
  BY <1>6, <1>8 DEF Removes, B
<1>10. IsHash(u)
  BY <1>1, <1>2, <1>9, RemovedTable
<1>11. numBuckets(u) = numBuckets(t)
  BY <1>1, <1>2, <1>9, RemovedTable
<1>12. EntrySet(u) = EntrySet(t) \ {t.buckets[p][q]}
  BY <1>1, <1>2, <1>9, RemovedTable
<1>13. u.numEntries < u.rebuildSize
  BY <1>1, <1>8
<1>14. QED
  BY <1>1, <1>4, <1>8, <1>10, <1>11, <1>12, <1>13 DEF Sound

(* Setting the values of several keys. *)
LEMMA AllRevised ==
  ASSUME NEW t, Sound(t), NEW ks, NEW v \in Values \cup {null}, NEW u, u = SetHashValues(t, ks, v)
  PROVE  /\ Sound(u) /\ u.numEntries = t.numEntries
         /\ \A e : e \in EntrySet(u) <=> \E f \in EntrySet(t) : e = Revised(f, ks, v)
<1>1. IsHash(t)
  BY DEF Sound
<1>2. IsHash(u) /\ u.numEntries = t.numEntries /\ u.rebuildSize = t.rebuildSize /\ numBuckets(u) = numBuckets(t)
  BY <1>1, ValuesAreSet
<1>3. \A e : e \in EntrySet(u) <=> \E f \in EntrySet(t) : e = Revised(f, ks, v)
  BY <1>1, ValuesAreSet
<1>4. QED
  BY <1>2, <1>3 DEF Sound

(* Setting the value of one key. *)
LEMMA OneRevised ==
  ASSUME NEW t, Sound(t), NEW k \in Keys, NEW v \in Values \cup {null}, FindHashEntry(t, k) # 0,
         NEW u, u = SetHashValue(t, k, v)
  PROVE  /\ Sound(u) /\ u.numEntries = t.numEntries
         /\ EntrySet(u) = (EntrySet(t) \ {At(t, k)}) \cup {[key |-> At(t, k).key, value |-> v]}
<1> DEFINE a == At(t, k)
           r == [key |-> a.key, value |-> v]
<1>1. u = SetHashValues(t, {a.key}, v)
  BY ValueIsSet DEF Sound, At
<1>2. a \in EntrySet(t) /\ a \in Entry /\ EntrySet(t) \subseteq Entry
  BY AtIs, EntriesAreEntries DEF Sound, IsHash
<1>3. \A f \in EntrySet(t) : f.key = a.key => f = a
  BY <1>2, OnlyOne DEF Sound, IsHash, Same
<1>4. Revised(a, {a.key}, v) = r
  BY <1>2 DEF Revised, Entry
<1> HIDE DEF a, r
<1>5. \A f \in EntrySet(t) : Revised(f, {a.key}, v) = IF f = a THEN r ELSE f
  BY <1>3, <1>4 DEF Revised
<1>6. Sound(u) /\ u.numEntries = t.numEntries
  BY <1>1, AllRevised
<1> \A e : e \in EntrySet(u) <=> \E f \in EntrySet(t) : e = Revised(f, {a.key}, v)
  BY <1>1, AllRevised
<1>7. EntrySet(u) = (EntrySet(t) \ {a}) \cup {r}
  BY <1>2, <1>5
<1>8. QED
  BY <1>6, <1>7 DEF a, r

-----------------------------------------------------------------------------
\* the calls that wait for the read-write lock
OfRwlock == OfReader \cup OfWriter

\* who writes is alone
Exclusive == writer # NoOne => m_rwl = {}

\* locks that were destroyed are not in use
UnusedWhenGone ==
    ~exists => m_mtx = NoOne /\ writer = NoOne /\ m_rwl = {} /\ \A t \in Threads : call[t] = "none"

CallsOfTheLiving == \A t \in Threads : call[t] # "none" => t \in alive

\* what a thread does not hold while it waits
Waiting ==
    \A t \in Threads :
        /\ call[t] # "none" => ~HoldsRwl(t)
        /\ call[t] \in OfMutex \cup Waits => m_mtx # t

\* the mutex of a condition is only locked plainly
ConditionIsPlain ==
    /\ \A t \in Threads : call[t] \in Waits => mtx_use = "condition"
    /\ mtx_use = "condition" =>
         /\ mtx_prev_cancel_state = "unset" /\ mtx_kind = "plain"
         /\ \A t \in Threads : call[t] # "mutex_enter"

ReadersAreAlike ==
    \A t \in Threads : call[t] \in OfReader => (call[t] = "reader_enter") = (rwl_use = "critical")

\* the state that who enters a region had before
SavedByCaller ==
    \A t \in Threads :
        /\ call[t] = "mutex_enter" => m_mtx # t
        /\ call[t] = "reader_enter" /\ m_mtx = t => mtx_kind = "plain"
        /\ call[t] \in Critical => old[t] = IF m_mtx = t /\ mtx_kind = "critical" THEN "disable" ELSE "enable"
        /\ call[t] \in Critical /\ m_mtx = t /\ mtx_kind = "plain" => RegionsUnderMutex

\* the state that the fields give back
SavedInMutex == m_mtx # NoOne /\ mtx_kind = "critical" => mtx_prev_cancel_state = "enable"

SavedInRwlock ==
    /\ writer # NoOne /\ writer_kind = "critical" =>
         /\ rwl_prev_cancel_state = IF m_mtx = writer /\ mtx_kind = "critical" THEN "disable" ELSE "enable"
         /\ m_mtx = writer /\ mtx_kind = "plain" => RegionsUnderMutex
    /\ m_rwl # {} /\ rwl_use = "critical" =>
         /\ rwl_prev_cancel_state = "enable"
         /\ m_mtx \in m_rwl => mtx_kind = "plain" /\ RegionsUnderMutex

Use  == Exclusive /\ UnusedWhenGone /\ CallsOfTheLiving /\ Waiting /\ ConditionIsPlain /\ ReadersAreAlike
Saved == SavedByCaller /\ SavedInMutex /\ SavedInRwlock
LocksInv == LocksTypeOK /\ EveryHoldCanBeClosed /\ ProtectedInRegions /\ HeldByTheLiving /\ Use /\ Saved

USE LocksAssumption
    DEF Plain, Critical, OfMutex, OfReader, OfWriter, OfRwlock, Waits, Kinds, HoldsRwl, Orphaned
-----------------------------------------------------------------------------
(* What a step that leaves all but the requests as it is keeps.            *)
LEMMA RequestsKeep ==
  ASSUME LocksInv, pending' \in SUBSET Threads,
         UNCHANGED <<mtxVars, rwlVars, alive, cancel, call, old, useVars>>
  PROVE  LocksInv'
BY DEF LocksInv, Use, Saved, mtxVars, rwlVars, useVars, LocksTypeOK, EveryHoldCanBeClosed,
       ProtectedInRegions, InRegion, HeldByTheLiving, Exclusive, UnusedWhenGone, CallsOfTheLiving,
       Waiting, ConditionIsPlain, ReadersAreAlike, SavedByCaller, SavedInMutex, SavedInRwlock

(* The invariant holds at the start. *)
LEMMA InitLocksInv == Init => LocksInv
BY DEF Init, LocksInv, Use, Saved, LocksTypeOK, EveryHoldCanBeClosed, ProtectedInRegions, InRegion,
       HeldByTheLiving, Exclusive, UnusedWhenGone, CallsOfTheLiving, Waiting, ConditionIsPlain,
       ReadersAreAlike, SavedByCaller, SavedInMutex, SavedInRwlock

(* A call: whether the caller is in a region decides what it saves.         *)
LEMMA BeginKeeps ==
  ASSUME LocksInv, NEW t \in Threads, NEW c \in Plain \cup Critical, Begin(t, c)
  PROVE  LocksInv'
<1> USE DEF LocksInv, Use, Saved
<1>1. /\ m_mtx = t => c \in OfRwlock /\ (mtx_kind = "plain" \/ c # "reader_enter")
      /\ m_mtx = t /\ c \in Critical /\ mtx_kind = "plain" => RegionsUnderMutex
  BY DEF SafeNestings, Begin, MayOpenMutex, MayOpenRwl, RegionsUnderMutex, LocksTypeOK
<1>2. cancel[t] = IF m_mtx = t /\ mtx_kind = "critical" THEN "disable" ELSE "enable"
  BY DEF Begin, Idle, MayOpenMutex, MayOpenRwl, ProtectedInRegions, InRegion, LocksTypeOK
<1>c1. LocksTypeOK'
    BY DEF LocksTypeOK, Begin, Idle, MayOpenMutex, MayOpenRwl, mtxVars, rwlVars, useVars
<1>c2. EveryHoldCanBeClosed'
    BY DEF LocksTypeOK, EveryHoldCanBeClosed, Exclusive, Begin, Idle, MayOpenMutex, MayOpenRwl,
         mtxVars, rwlVars, useVars
<1>c3. ProtectedInRegions'
    BY DEF LocksTypeOK, ProtectedInRegions, Waiting, SavedByCaller, SavedInMutex,
         SavedInRwlock, Exclusive, EveryHoldCanBeClosed, InRegion, Begin, Idle, MayOpenMutex,
         MayOpenRwl, mtxVars, rwlVars, useVars
<1>c4. HeldByTheLiving'
    BY DEF LocksTypeOK, HeldByTheLiving, CallsOfTheLiving, Waiting, SavedInRwlock,
         EveryHoldCanBeClosed, Exclusive, Begin, Idle, MayOpenMutex, MayOpenRwl, mtxVars,
         rwlVars, useVars
<1>c5. Exclusive'
    BY DEF LocksTypeOK, Exclusive, Begin, Idle, MayOpenMutex, MayOpenRwl, mtxVars, rwlVars,
         useVars
<1>c6. UnusedWhenGone'
    BY DEF LocksTypeOK, UnusedWhenGone, HeldByTheLiving, CallsOfTheLiving, Begin, Idle,
         MayOpenMutex, MayOpenRwl, mtxVars, rwlVars, useVars
<1>c7. CallsOfTheLiving'
    BY DEF LocksTypeOK, CallsOfTheLiving, Begin, Idle, MayOpenMutex, MayOpenRwl, mtxVars,
         rwlVars, useVars
<1>c8. Waiting'
    BY DEF LocksTypeOK, Waiting, Begin, Idle, MayOpenMutex, MayOpenRwl, mtxVars, rwlVars,
         useVars
<1>c9. ConditionIsPlain'
    BY DEF LocksTypeOK, ConditionIsPlain, Begin, Idle, MayOpenMutex, MayOpenRwl, mtxVars,
         rwlVars, useVars
<1>c10. ReadersAreAlike'
    BY DEF LocksTypeOK, ReadersAreAlike, Begin, Idle, MayOpenMutex, MayOpenRwl, mtxVars,
         rwlVars, useVars
<1>c11. SavedByCaller'
    BY <1>1, <1>2 DEF LocksTypeOK, SavedByCaller, Waiting, Begin, Idle, MayOpenMutex,
         MayOpenRwl, mtxVars, rwlVars, useVars
<1>c12. SavedInMutex'
    BY DEF LocksTypeOK, SavedInMutex, Begin, Idle, MayOpenMutex, MayOpenRwl, mtxVars, rwlVars,
         useVars
<1>c13. SavedInRwlock'
    BY DEF LocksTypeOK, SavedInRwlock, Waiting, Exclusive, Begin, Idle, MayOpenMutex,
         MayOpenRwl, mtxVars, rwlVars, useVars
<1> QED
  BY <1>c1, <1>c2, <1>c3, <1>c4, <1>c5, <1>c6, <1>c7, <1>c8, <1>c9, <1>c10, <1>c11, <1>c12, <1>c13

(* The mutex is taken: plainly, or as a region by who had not disabled cancelation. *)
LEMMA TakeMutexKeeps ==
  ASSUME LocksInv, NEW t \in Threads, NEW prev, NEW kind, TakeMutex(t, prev, kind),
         exists, t \in alive, m_mtx # t, ~HoldsRwl(t),
         \/ prev = "unset" /\ kind = "plain" /\ call[t] \notin Critical
         \/ prev = "enable" /\ kind = "critical" /\ call[t] = "mutex_enter" /\ mtx_use # "condition"
  PROVE  LocksInv'
<1> USE DEF LocksInv, Use, Saved
<1>c1. LocksTypeOK'
    BY DEF LocksTypeOK, TakeMutex, Done, mtxVars, rwlVars, useVars
<1>c2. EveryHoldCanBeClosed'
    BY DEF LocksTypeOK, EveryHoldCanBeClosed, Exclusive, TakeMutex, Done, mtxVars, rwlVars,
         useVars
<1>c3. ProtectedInRegions'
    BY DEF LocksTypeOK, ProtectedInRegions, Waiting, SavedByCaller, SavedInMutex,
         SavedInRwlock, Exclusive, EveryHoldCanBeClosed, InRegion, TakeMutex, Done, mtxVars,
         rwlVars, useVars
<1>c4. HeldByTheLiving'
    BY DEF LocksTypeOK, HeldByTheLiving, CallsOfTheLiving, Waiting, SavedInRwlock,
         EveryHoldCanBeClosed, Exclusive, TakeMutex, Done, mtxVars, rwlVars, useVars
<1>c5. Exclusive'
    BY DEF LocksTypeOK, Exclusive, TakeMutex, Done, mtxVars, rwlVars, useVars
<1>c6. UnusedWhenGone'
    BY DEF LocksTypeOK, UnusedWhenGone, HeldByTheLiving, CallsOfTheLiving, TakeMutex, Done,
         mtxVars, rwlVars, useVars
<1>c7. CallsOfTheLiving'
    BY DEF LocksTypeOK, CallsOfTheLiving, TakeMutex, Done, mtxVars, rwlVars, useVars
<1>c8. Waiting'
    BY DEF LocksTypeOK, Waiting, TakeMutex, Done, mtxVars, rwlVars, useVars
<1>c9. ConditionIsPlain'
    BY DEF LocksTypeOK, ConditionIsPlain, TakeMutex, Done, mtxVars, rwlVars, useVars
<1>c10. ReadersAreAlike'
    BY DEF LocksTypeOK, ReadersAreAlike, TakeMutex, Done, mtxVars, rwlVars, useVars
<1>c11. SavedByCaller'
    BY DEF LocksTypeOK, SavedByCaller, Waiting, TakeMutex, Done, mtxVars, rwlVars, useVars
<1>c12. SavedInMutex'
    BY DEF LocksTypeOK, SavedInMutex, TakeMutex, Done, mtxVars, rwlVars, useVars
<1>c13. SavedInRwlock'
    BY DEF LocksTypeOK, SavedInRwlock, Waiting, Exclusive, TakeMutex, Done, mtxVars, rwlVars,
         useVars
<1> QED
  BY <1>c1, <1>c2, <1>c3, <1>c4, <1>c5, <1>c6, <1>c7, <1>c8, <1>c9, <1>c10, <1>c11, <1>c12, <1>c13

(* A reader takes the read-write lock as all its readers do.                *)
LEMMA TakeReaderKeeps ==
  ASSUME LocksInv, NEW t \in Threads, NEW prev, TakeReader(t, prev),
         exists, t \in alive, ~HoldsRwl(t),
         \/ prev = "unset" /\ rwl_use = "plain" /\ call[t] \notin Critical
         \/ prev = "enable" /\ rwl_use = "critical" /\ call[t] = "reader_enter"
            /\ (m_mtx = t => mtx_kind = "plain" /\ RegionsUnderMutex)
  PROVE  LocksInv'
<1> USE DEF LocksInv, Use, Saved
<1>c1. LocksTypeOK'
    BY DEF LocksTypeOK, TakeReader, Done, mtxVars, rwlVars, useVars
<1>c2. EveryHoldCanBeClosed'
    BY DEF LocksTypeOK, EveryHoldCanBeClosed, Exclusive, TakeReader, Done, mtxVars, rwlVars,
         useVars
<1>c3. ProtectedInRegions'
    BY DEF LocksTypeOK, ProtectedInRegions, Waiting, SavedByCaller, SavedInMutex,
         SavedInRwlock, Exclusive, EveryHoldCanBeClosed, InRegion, TakeReader, Done, mtxVars,
         rwlVars, useVars
<1>c4. HeldByTheLiving'
    BY DEF LocksTypeOK, HeldByTheLiving, CallsOfTheLiving, Waiting, SavedInRwlock,
         EveryHoldCanBeClosed, Exclusive, TakeReader, Done, mtxVars, rwlVars, useVars
<1>c5. Exclusive'
    BY DEF LocksTypeOK, Exclusive, TakeReader, Done, mtxVars, rwlVars, useVars
<1>c6. UnusedWhenGone'
    BY DEF LocksTypeOK, UnusedWhenGone, HeldByTheLiving, CallsOfTheLiving, TakeReader, Done,
         mtxVars, rwlVars, useVars
<1>c7. CallsOfTheLiving'
    BY DEF LocksTypeOK, CallsOfTheLiving, TakeReader, Done, mtxVars, rwlVars, useVars
<1>c8. Waiting'
    BY DEF LocksTypeOK, Waiting, TakeReader, Done, mtxVars, rwlVars, useVars
<1>c9. ConditionIsPlain'
    BY DEF LocksTypeOK, ConditionIsPlain, TakeReader, Done, mtxVars, rwlVars, useVars
<1>c10. ReadersAreAlike'
    BY DEF LocksTypeOK, ReadersAreAlike, TakeReader, Done, mtxVars, rwlVars, useVars
<1>c11. SavedByCaller'
    BY DEF LocksTypeOK, SavedByCaller, Waiting, TakeReader, Done, mtxVars, rwlVars, useVars
<1>c12. SavedInMutex'
    BY DEF LocksTypeOK, SavedInMutex, TakeReader, Done, mtxVars, rwlVars, useVars
<1>c13. SavedInRwlock'
    BY DEF LocksTypeOK, SavedInRwlock, Waiting, Exclusive, TakeReader, Done, mtxVars, rwlVars,
         useVars
<1> QED
  BY <1>c1, <1>c2, <1>c3, <1>c4, <1>c5, <1>c6, <1>c7, <1>c8, <1>c9, <1>c10, <1>c11, <1>c12, <1>c13

(* A writer takes the read-write lock.                                      *)
LEMMA TakeWriterKeeps ==
  ASSUME LocksInv, NEW t \in Threads, NEW prev, NEW kind, TakeWriter(t, prev, kind),
         exists, t \in alive, ~HoldsRwl(t),
         \/ prev = "unset" /\ kind = "plain" /\ call[t] \notin Critical
         \/ prev = old[t] /\ kind = "critical" /\ call[t] = "writer_enter"
  PROVE  LocksInv'
<1> USE DEF LocksInv, Use, Saved
<1>c1. LocksTypeOK'
    BY DEF LocksTypeOK, TakeWriter, Done, mtxVars, rwlVars, useVars
<1>c2. EveryHoldCanBeClosed'
    BY DEF LocksTypeOK, EveryHoldCanBeClosed, Exclusive, TakeWriter, Done, mtxVars, rwlVars,
         useVars
<1>c3. ProtectedInRegions'
    BY DEF LocksTypeOK, ProtectedInRegions, Waiting, SavedByCaller, SavedInMutex,
         SavedInRwlock, Exclusive, EveryHoldCanBeClosed, InRegion, TakeWriter, Done, mtxVars,
         rwlVars, useVars
<1>c4. HeldByTheLiving'
    BY DEF LocksTypeOK, HeldByTheLiving, CallsOfTheLiving, Waiting, SavedInRwlock,
         EveryHoldCanBeClosed, Exclusive, TakeWriter, Done, mtxVars, rwlVars, useVars
<1>c5. Exclusive'
    BY DEF LocksTypeOK, Exclusive, TakeWriter, Done, mtxVars, rwlVars, useVars
<1>c6. UnusedWhenGone'
    BY DEF LocksTypeOK, UnusedWhenGone, HeldByTheLiving, CallsOfTheLiving, TakeWriter, Done,
         mtxVars, rwlVars, useVars
<1>c7. CallsOfTheLiving'
    BY DEF LocksTypeOK, CallsOfTheLiving, TakeWriter, Done, mtxVars, rwlVars, useVars
<1>c8. Waiting'
    BY DEF LocksTypeOK, Waiting, TakeWriter, Done, mtxVars, rwlVars, useVars
<1>c9. ConditionIsPlain'
    BY DEF LocksTypeOK, ConditionIsPlain, TakeWriter, Done, mtxVars, rwlVars, useVars
<1>c10. ReadersAreAlike'
    BY DEF LocksTypeOK, ReadersAreAlike, TakeWriter, Done, mtxVars, rwlVars, useVars
<1>c11. SavedByCaller'
    BY DEF LocksTypeOK, SavedByCaller, Waiting, TakeWriter, Done, mtxVars, rwlVars, useVars
<1>c12. SavedInMutex'
    BY DEF LocksTypeOK, SavedInMutex, TakeWriter, Done, mtxVars, rwlVars, useVars
<1>c13. SavedInRwlock'
    BY DEF LocksTypeOK, SavedInRwlock, Waiting, Exclusive, SavedByCaller, TakeWriter, Done,
         mtxVars, rwlVars, useVars
<1> QED
  BY <1>c1, <1>c2, <1>c3, <1>c4, <1>c5, <1>c6, <1>c7, <1>c8, <1>c9, <1>c10, <1>c11, <1>c12, <1>c13

(* A call that timed out.                                                   *)
LEMMA GiveUpKeeps ==
  ASSUME LocksInv, NEW t \in Threads, call[t] \notin Critical, Done(t), UNCHANGED <<mtxVars, rwlVars>>
  PROVE  LocksInv'
<1> USE DEF LocksInv, Use, Saved
<1>c1. LocksTypeOK'
    BY DEF LocksTypeOK, Done, mtxVars, rwlVars, useVars
<1>c2. EveryHoldCanBeClosed'
    BY DEF LocksTypeOK, EveryHoldCanBeClosed, Exclusive, Done, mtxVars, rwlVars, useVars
<1>c3. ProtectedInRegions'
    BY DEF LocksTypeOK, ProtectedInRegions, Waiting, SavedByCaller, SavedInMutex,
         SavedInRwlock, Exclusive, EveryHoldCanBeClosed, InRegion, Done, mtxVars, rwlVars,
         useVars
<1>c4. HeldByTheLiving'
    BY DEF LocksTypeOK, HeldByTheLiving, CallsOfTheLiving, Waiting, SavedInRwlock,
         EveryHoldCanBeClosed, Exclusive, Done, mtxVars, rwlVars, useVars
<1>c5. Exclusive'
    BY DEF LocksTypeOK, Exclusive, Done, mtxVars, rwlVars, useVars
<1>c6. UnusedWhenGone'
    BY DEF LocksTypeOK, UnusedWhenGone, HeldByTheLiving, CallsOfTheLiving, Done, mtxVars,
         rwlVars, useVars
<1>c7. CallsOfTheLiving'
    BY DEF LocksTypeOK, CallsOfTheLiving, Done, mtxVars, rwlVars, useVars
<1>c8. Waiting'
    BY DEF LocksTypeOK, Waiting, Done, mtxVars, rwlVars, useVars
<1>c9. ConditionIsPlain'
    BY DEF LocksTypeOK, ConditionIsPlain, Done, mtxVars, rwlVars, useVars
<1>c10. ReadersAreAlike'
    BY DEF LocksTypeOK, ReadersAreAlike, Done, mtxVars, rwlVars, useVars
<1>c11. SavedByCaller'
    BY DEF LocksTypeOK, SavedByCaller, Waiting, Done, mtxVars, rwlVars, useVars
<1>c12. SavedInMutex'
    BY DEF LocksTypeOK, SavedInMutex, Done, mtxVars, rwlVars, useVars
<1>c13. SavedInRwlock'
    BY DEF LocksTypeOK, SavedInRwlock, Waiting, Exclusive, Done, mtxVars, rwlVars, useVars
<1> QED
  BY <1>c1, <1>c2, <1>c3, <1>c4, <1>c5, <1>c6, <1>c7, <1>c8, <1>c9, <1>c10, <1>c11, <1>c12, <1>c13

(* The mutex is released by its owner, who goes on or sleeps.               *)
LEMMA ReleaseMutexKeeps ==
  ASSUME LocksInv, NEW t \in Threads, m_mtx = t, ~HoldsRwl(t), call[t] = "none", mtx_kind = "plain", t \in alive, exists,
         call' = call \/ (mtx_use = "condition" /\ \E c \in {"cond_wait", "cond_timedwait"} : call' = [call EXCEPT ![t] = c]),
         ReleaseMutex, UNCHANGED <<rwlVars, alive, cancel, pending, old, useVars>>
  PROVE  LocksInv'
<1> USE DEF LocksInv, Use, Saved
<1>c1. LocksTypeOK'
    BY DEF LocksTypeOK, ReleaseMutex, mtxVars, rwlVars, useVars
<1>c2. EveryHoldCanBeClosed'
    BY DEF LocksTypeOK, EveryHoldCanBeClosed, Exclusive, ReleaseMutex, mtxVars, rwlVars,
         useVars
<1>c3. ProtectedInRegions'
    BY DEF LocksTypeOK, ProtectedInRegions, Waiting, SavedByCaller, SavedInMutex,
         SavedInRwlock, Exclusive, EveryHoldCanBeClosed, InRegion, ReleaseMutex, mtxVars,
         rwlVars, useVars
<1>c4. HeldByTheLiving'
    BY DEF LocksTypeOK, HeldByTheLiving, CallsOfTheLiving, Waiting, SavedInRwlock,
         EveryHoldCanBeClosed, Exclusive, ReleaseMutex, mtxVars, rwlVars, useVars
<1>c5. Exclusive'
    BY DEF LocksTypeOK, Exclusive, ReleaseMutex, mtxVars, rwlVars, useVars
<1>c6. UnusedWhenGone'
    BY DEF LocksTypeOK, UnusedWhenGone, HeldByTheLiving, CallsOfTheLiving, ReleaseMutex,
         mtxVars, rwlVars, useVars
<1>c7. CallsOfTheLiving'
    BY DEF LocksTypeOK, CallsOfTheLiving, ReleaseMutex, mtxVars, rwlVars, useVars
<1>c8. Waiting'
    BY DEF LocksTypeOK, Waiting, ReleaseMutex, mtxVars, rwlVars, useVars
<1>c9. ConditionIsPlain'
    BY DEF LocksTypeOK, ConditionIsPlain, ReleaseMutex, mtxVars, rwlVars, useVars
<1>c10. ReadersAreAlike'
    BY DEF LocksTypeOK, ReadersAreAlike, ReleaseMutex, mtxVars, rwlVars, useVars
<1>c11. SavedByCaller'
    BY DEF LocksTypeOK, SavedByCaller, Waiting, ReleaseMutex, mtxVars, rwlVars, useVars
<1>c12. SavedInMutex'
    BY DEF LocksTypeOK, SavedInMutex, ReleaseMutex, mtxVars, rwlVars, useVars
<1>c13. SavedInRwlock'
    BY DEF LocksTypeOK, SavedInRwlock, Waiting, Exclusive, ReleaseMutex, mtxVars, rwlVars,
         useVars
<1> QED
  BY <1>c1, <1>c2, <1>c3, <1>c4, <1>c5, <1>c6, <1>c7, <1>c8, <1>c9, <1>c10, <1>c11, <1>c12, <1>c13

(* The region of the mutex is left: its owner holds nothing then, so that it may end. *)
LEMMA LeaveMutexKeeps ==
  ASSUME LocksInv, NEW t \in Threads, mutex_leave_critical(t)
  PROVE  LocksInv'
<1> USE DEF LocksInv, Use, Saved
<1>1. mtx_prev_cancel_state = "enable" /\ mtx_kind = "critical" /\ m_mtx \in Threads /\ m_mtx # NoOne
  BY DEF mutex_leave_critical, LocksTypeOK, EveryHoldCanBeClosed, SavedInMutex
<1>c1. LocksTypeOK'
    BY DEF LocksTypeOK, mutex_leave_critical, Idle, Restore, ReleaseMutex, mtxVars, rwlVars,
         useVars
<1>c2. EveryHoldCanBeClosed'
    BY DEF LocksTypeOK, EveryHoldCanBeClosed, Exclusive, mutex_leave_critical, Idle, Restore,
         ReleaseMutex, mtxVars, rwlVars, useVars
<1>c3. ProtectedInRegions'
    BY <1>1 DEF LocksTypeOK, ProtectedInRegions, Waiting, SavedByCaller, SavedInMutex,
         SavedInRwlock, Exclusive, EveryHoldCanBeClosed, InRegion, mutex_leave_critical, Idle,
         Restore, ReleaseMutex, mtxVars, rwlVars, useVars
<1>c4. HeldByTheLiving'
    BY DEF LocksTypeOK, HeldByTheLiving, CallsOfTheLiving, Waiting, SavedInRwlock,
         EveryHoldCanBeClosed, Exclusive, mutex_leave_critical, Idle, Restore, ReleaseMutex,
         mtxVars, rwlVars, useVars
<1>c5. Exclusive'
    BY DEF LocksTypeOK, Exclusive, mutex_leave_critical, Idle, Restore, ReleaseMutex, mtxVars,
         rwlVars, useVars
<1>c6. UnusedWhenGone'
    BY DEF LocksTypeOK, UnusedWhenGone, HeldByTheLiving, CallsOfTheLiving,
         mutex_leave_critical, Idle, Restore, ReleaseMutex, mtxVars, rwlVars, useVars
<1>c7. CallsOfTheLiving'
    BY DEF LocksTypeOK, CallsOfTheLiving, mutex_leave_critical, Idle, Restore, ReleaseMutex,
         mtxVars, rwlVars, useVars
<1>c8. Waiting'
    BY DEF LocksTypeOK, Waiting, mutex_leave_critical, Idle, Restore, ReleaseMutex, mtxVars,
         rwlVars, useVars
<1>c9. ConditionIsPlain'
    BY DEF LocksTypeOK, ConditionIsPlain, mutex_leave_critical, Idle, Restore, ReleaseMutex,
         mtxVars, rwlVars, useVars
<1>c10. ReadersAreAlike'
    BY DEF LocksTypeOK, ReadersAreAlike, mutex_leave_critical, Idle, Restore, ReleaseMutex,
         mtxVars, rwlVars, useVars
<1>c11. SavedByCaller'
    BY <1>1 DEF LocksTypeOK, SavedByCaller, Waiting, mutex_leave_critical, Idle, Restore,
         ReleaseMutex, mtxVars, rwlVars, useVars
<1>c12. SavedInMutex'
    BY DEF LocksTypeOK, SavedInMutex, mutex_leave_critical, Idle, Restore, ReleaseMutex,
         mtxVars, rwlVars, useVars
<1>c13. SavedInRwlock'
    BY <1>1 DEF LocksTypeOK, SavedInRwlock, Waiting, Exclusive, mutex_leave_critical, Idle,
         Restore, ReleaseMutex, mtxVars, rwlVars, useVars
<1> QED
  BY <1>c1, <1>c2, <1>c3, <1>c4, <1>c5, <1>c6, <1>c7, <1>c8, <1>c9, <1>c10, <1>c11, <1>c12, <1>c13

(* Some that sleep wake up, or one of them begins to die.                   *)
LEMMA WakeKeeps ==
  ASSUME LocksInv, call' \in [Threads -> Plain \cup Critical \cup Waits \cup {"none"}],
         \A t \in Threads : call'[t] = call[t] \/ (call[t] \in Waits /\ call'[t] \in Waits),
         UNCHANGED <<mtxVars, rwlVars, alive, cancel, pending, old, useVars>>
  PROVE  LocksInv'
<1> USE DEF LocksInv, Use, Saved
<1>c1. LocksTypeOK'
    BY DEF LocksTypeOK, mtxVars, rwlVars, useVars
<1>c2. EveryHoldCanBeClosed'
    BY DEF LocksTypeOK, EveryHoldCanBeClosed, Exclusive, mtxVars, rwlVars, useVars
<1>c3. ProtectedInRegions'
    BY DEF LocksTypeOK, ProtectedInRegions, Waiting, SavedByCaller, SavedInMutex,
         SavedInRwlock, Exclusive, EveryHoldCanBeClosed, InRegion, mtxVars, rwlVars, useVars
<1>c4. HeldByTheLiving'
    BY DEF LocksTypeOK, HeldByTheLiving, CallsOfTheLiving, Waiting, SavedInRwlock,
         EveryHoldCanBeClosed, Exclusive, mtxVars, rwlVars, useVars
<1>c5. Exclusive'
    BY DEF LocksTypeOK, Exclusive, mtxVars, rwlVars, useVars
<1>c6. UnusedWhenGone'
    BY DEF LocksTypeOK, UnusedWhenGone, HeldByTheLiving, CallsOfTheLiving, mtxVars, rwlVars,
         useVars
<1>c7. CallsOfTheLiving'
    BY DEF LocksTypeOK, CallsOfTheLiving, mtxVars, rwlVars, useVars
<1>c8. Waiting'
    BY DEF LocksTypeOK, Waiting, mtxVars, rwlVars, useVars
<1>c9. ConditionIsPlain'
    BY DEF LocksTypeOK, ConditionIsPlain, mtxVars, rwlVars, useVars
<1>c10. ReadersAreAlike'
    BY DEF LocksTypeOK, ReadersAreAlike, mtxVars, rwlVars, useVars
<1>c11. SavedByCaller'
    BY DEF LocksTypeOK, SavedByCaller, Waiting, mtxVars, rwlVars, useVars
<1>c12. SavedInMutex'
    BY DEF LocksTypeOK, SavedInMutex, mtxVars, rwlVars, useVars
<1>c13. SavedInRwlock'
    BY DEF LocksTypeOK, SavedInRwlock, Waiting, Exclusive, mtxVars, rwlVars, useVars
<1> QED
  BY <1>c1, <1>c2, <1>c3, <1>c4, <1>c5, <1>c6, <1>c7, <1>c8, <1>c9, <1>c10, <1>c11, <1>c12, <1>c13

(* A canceled wait: the cleanup handler can unlock the mutex of a condition.*)
LEMMA CleanupKeeps ==
  ASSUME LocksInv, NEW t \in Threads, cond_cleanup(t)
  PROVE  LocksInv'
<1> USE DEF LocksInv, Use, Saved
<1>1. mtx_prev_cancel_state = "unset" /\ m_mtx' = NoOne /\ m_mtx = NoOne
  BY DEF cond_cleanup, ConditionIsPlain, LocksTypeOK
<1>c1. LocksTypeOK'
    BY <1>1 DEF LocksTypeOK, cond_cleanup, mtxVars, rwlVars, useVars
<1>c2. EveryHoldCanBeClosed'
    BY <1>1 DEF LocksTypeOK, EveryHoldCanBeClosed, Exclusive, cond_cleanup, mtxVars, rwlVars,
         useVars
<1>c3. ProtectedInRegions'
    BY <1>1 DEF LocksTypeOK, ProtectedInRegions, Waiting, SavedByCaller, SavedInMutex,
         SavedInRwlock, Exclusive, EveryHoldCanBeClosed, InRegion, cond_cleanup, mtxVars,
         rwlVars, useVars
<1>c4. HeldByTheLiving'
    BY <1>1 DEF LocksTypeOK, HeldByTheLiving, CallsOfTheLiving, Waiting, SavedInRwlock,
         EveryHoldCanBeClosed, Exclusive, cond_cleanup, mtxVars, rwlVars, useVars
<1>c5. Exclusive'
    BY <1>1 DEF LocksTypeOK, Exclusive, cond_cleanup, mtxVars, rwlVars, useVars
<1>c6. UnusedWhenGone'
    BY <1>1 DEF LocksTypeOK, UnusedWhenGone, HeldByTheLiving, CallsOfTheLiving, cond_cleanup,
         mtxVars, rwlVars, useVars
<1>c7. CallsOfTheLiving'
    BY <1>1 DEF LocksTypeOK, CallsOfTheLiving, cond_cleanup, mtxVars, rwlVars, useVars
<1>c8. Waiting'
    BY <1>1 DEF LocksTypeOK, Waiting, cond_cleanup, mtxVars, rwlVars, useVars
<1>c9. ConditionIsPlain'
    BY <1>1 DEF LocksTypeOK, ConditionIsPlain, cond_cleanup, mtxVars, rwlVars, useVars
<1>c10. ReadersAreAlike'
    BY <1>1 DEF LocksTypeOK, ReadersAreAlike, cond_cleanup, mtxVars, rwlVars, useVars
<1>c11. SavedByCaller'
    BY <1>1 DEF LocksTypeOK, SavedByCaller, Waiting, cond_cleanup, mtxVars, rwlVars, useVars
<1>c12. SavedInMutex'
    BY <1>1 DEF LocksTypeOK, SavedInMutex, cond_cleanup, mtxVars, rwlVars, useVars
<1>c13. SavedInRwlock'
    BY <1>1 DEF LocksTypeOK, SavedInRwlock, Waiting, Exclusive, cond_cleanup, mtxVars, rwlVars,
         useVars
<1> QED
  BY <1>c1, <1>c2, <1>c3, <1>c4, <1>c5, <1>c6, <1>c7, <1>c8, <1>c9, <1>c10, <1>c11, <1>c12, <1>c13

(* The read-write lock is unlocked.                                         *)
LEMMA UnlockRwlKeeps ==
  ASSUME LocksInv, NEW t \in Threads, rwlock_unlock(t)
  PROVE  LocksInv'
<1> USE DEF LocksInv, Use, Saved
<1>c1. LocksTypeOK'
    BY DEF LocksTypeOK, rwlock_unlock, Idle, threadVars, ReleaseRwl, mtxVars, rwlVars, useVars
<1>c2. EveryHoldCanBeClosed'
    BY DEF LocksTypeOK, EveryHoldCanBeClosed, Exclusive, rwlock_unlock, Idle, threadVars,
         ReleaseRwl, mtxVars, rwlVars, useVars
<1>c3. ProtectedInRegions'
    BY DEF LocksTypeOK, ProtectedInRegions, Waiting, SavedByCaller, SavedInMutex,
         SavedInRwlock, Exclusive, EveryHoldCanBeClosed, InRegion, rwlock_unlock, Idle,
         threadVars, ReleaseRwl, mtxVars, rwlVars, useVars
<1>c4. HeldByTheLiving'
    BY DEF LocksTypeOK, HeldByTheLiving, CallsOfTheLiving, Waiting, SavedInRwlock,
         EveryHoldCanBeClosed, Exclusive, rwlock_unlock, Idle, threadVars, ReleaseRwl, mtxVars,
         rwlVars, useVars
<1>c5. Exclusive'
    BY DEF LocksTypeOK, Exclusive, rwlock_unlock, Idle, threadVars, ReleaseRwl, mtxVars,
         rwlVars, useVars
<1>c6. UnusedWhenGone'
    BY DEF LocksTypeOK, UnusedWhenGone, HeldByTheLiving, CallsOfTheLiving, rwlock_unlock, Idle,
         threadVars, ReleaseRwl, mtxVars, rwlVars, useVars
<1>c7. CallsOfTheLiving'
    BY DEF LocksTypeOK, CallsOfTheLiving, rwlock_unlock, Idle, threadVars, ReleaseRwl, mtxVars,
         rwlVars, useVars
<1>c8. Waiting'
    BY DEF LocksTypeOK, Waiting, rwlock_unlock, Idle, threadVars, ReleaseRwl, mtxVars, rwlVars,
         useVars
<1>c9. ConditionIsPlain'
    BY DEF LocksTypeOK, ConditionIsPlain, rwlock_unlock, Idle, threadVars, ReleaseRwl, mtxVars,
         rwlVars, useVars
<1>c10. ReadersAreAlike'
    BY DEF LocksTypeOK, ReadersAreAlike, rwlock_unlock, Idle, threadVars, ReleaseRwl, mtxVars,
         rwlVars, useVars
<1>c11. SavedByCaller'
    BY DEF LocksTypeOK, SavedByCaller, Waiting, rwlock_unlock, Idle, threadVars, ReleaseRwl,
         mtxVars, rwlVars, useVars
<1>c12. SavedInMutex'
    BY DEF LocksTypeOK, SavedInMutex, rwlock_unlock, Idle, threadVars, ReleaseRwl, mtxVars,
         rwlVars, useVars
<1>c13. SavedInRwlock'
    BY DEF LocksTypeOK, SavedInRwlock, Waiting, Exclusive, rwlock_unlock, Idle, threadVars,
         ReleaseRwl, mtxVars, rwlVars, useVars
<1> QED
  BY <1>c1, <1>c2, <1>c3, <1>c4, <1>c5, <1>c6, <1>c7, <1>c8, <1>c9, <1>c10, <1>c11, <1>c12, <1>c13

(* A region of the read-write lock is left, maybe inside a region of the mutex. *)
LEMMA LeaveRwlKeeps ==
  ASSUME LocksInv, NEW t \in Threads, rwlock_leave_critical(t)
  PROVE  LocksInv'
<1> USE DEF LocksInv, Use, Saved
<1>1. \/ writer = t /\ writer_kind = "critical"
      \/ t \in m_rwl /\ rwl_use = "critical"
  BY DEF rwlock_leave_critical, LocksTypeOK, EveryHoldCanBeClosed
<1>2. IF m_mtx = t /\ mtx_kind = "critical" THEN rwl_prev_cancel_state = "disable" /\ writer = t
      ELSE rwl_prev_cancel_state = "enable" /\ (m_mtx = t => mtx_kind = "plain" /\ RegionsUnderMutex)
  BY <1>1 DEF SavedInRwlock, LocksTypeOK
<1>c1. LocksTypeOK'
    BY <1>1, <1>2 DEF LocksTypeOK, rwlock_leave_critical, Idle, Restore, ReleaseRwl, mtxVars,
         rwlVars, useVars
<1>c2. EveryHoldCanBeClosed'
    BY DEF LocksTypeOK, EveryHoldCanBeClosed, Exclusive, rwlock_leave_critical, Idle, Restore,
         ReleaseRwl, mtxVars, rwlVars, useVars
<1>c3. ProtectedInRegions'
    BY <1>1, <1>2 DEF LocksTypeOK, ProtectedInRegions, Waiting, SavedByCaller, SavedInMutex,
         SavedInRwlock, Exclusive, EveryHoldCanBeClosed, InRegion, rwlock_leave_critical, Idle,
         Restore, ReleaseRwl, mtxVars, rwlVars, useVars
<1>c4. HeldByTheLiving'
    BY <1>1, <1>2 DEF LocksTypeOK, HeldByTheLiving, CallsOfTheLiving, Waiting, SavedInRwlock,
         EveryHoldCanBeClosed, Exclusive, rwlock_leave_critical, Idle, Restore, ReleaseRwl,
         mtxVars, rwlVars, useVars
<1>c5. Exclusive'
    BY DEF LocksTypeOK, Exclusive, rwlock_leave_critical, Idle, Restore, ReleaseRwl, mtxVars,
         rwlVars, useVars
<1>c6. UnusedWhenGone'
    BY DEF LocksTypeOK, UnusedWhenGone, HeldByTheLiving, CallsOfTheLiving,
         rwlock_leave_critical, Idle, Restore, ReleaseRwl, mtxVars, rwlVars, useVars
<1>c7. CallsOfTheLiving'
    BY DEF LocksTypeOK, CallsOfTheLiving, rwlock_leave_critical, Idle, Restore, ReleaseRwl,
         mtxVars, rwlVars, useVars
<1>c8. Waiting'
    BY DEF LocksTypeOK, Waiting, rwlock_leave_critical, Idle, Restore, ReleaseRwl, mtxVars,
         rwlVars, useVars
<1>c9. ConditionIsPlain'
    BY DEF LocksTypeOK, ConditionIsPlain, rwlock_leave_critical, Idle, Restore, ReleaseRwl,
         mtxVars, rwlVars, useVars
<1>c10. ReadersAreAlike'
    BY DEF LocksTypeOK, ReadersAreAlike, rwlock_leave_critical, Idle, Restore, ReleaseRwl,
         mtxVars, rwlVars, useVars
<1>c11. SavedByCaller'
    BY DEF LocksTypeOK, SavedByCaller, Waiting, rwlock_leave_critical, Idle, Restore,
         ReleaseRwl, mtxVars, rwlVars, useVars
<1>c12. SavedInMutex'
    BY DEF LocksTypeOK, SavedInMutex, rwlock_leave_critical, Idle, Restore, ReleaseRwl,
         mtxVars, rwlVars, useVars
<1>c13. SavedInRwlock'
    BY DEF LocksTypeOK, SavedInRwlock, Waiting, Exclusive, rwlock_leave_critical, Idle,
         Restore, ReleaseRwl, mtxVars, rwlVars, useVars
<1> QED
  BY <1>c1, <1>c2, <1>c3, <1>c4, <1>c5, <1>c6, <1>c7, <1>c8, <1>c9, <1>c10, <1>c11, <1>c12, <1>c13

(* In the child there is one thread, and it holds nothing.                  *)
LEMMA ForkKeeps ==
  ASSUME LocksInv, NEW t \in Threads, Fork(t)
  PROVE  LocksInv'
<1> USE DEF LocksInv, Use, Saved
<1>c1. LocksTypeOK'
    BY DEF LocksTypeOK, Fork, Idle, mutex_reinitialize, rwlock_reinitialize, useVars
<1>c2. EveryHoldCanBeClosed'
    BY DEF LocksTypeOK, EveryHoldCanBeClosed, Exclusive, Fork, Idle, mutex_reinitialize,
         rwlock_reinitialize, useVars
<1>c3. ProtectedInRegions'
    BY DEF LocksTypeOK, ProtectedInRegions, Waiting, SavedByCaller, SavedInMutex,
         SavedInRwlock, Exclusive, EveryHoldCanBeClosed, InRegion, Fork, Idle,
         mutex_reinitialize, rwlock_reinitialize, useVars
<1>c4. HeldByTheLiving'
    BY DEF LocksTypeOK, HeldByTheLiving, CallsOfTheLiving, Waiting, SavedInRwlock,
         EveryHoldCanBeClosed, Exclusive, Fork, Idle, mutex_reinitialize, rwlock_reinitialize,
         useVars
<1>c5. Exclusive'
    BY DEF LocksTypeOK, Exclusive, Fork, Idle, mutex_reinitialize, rwlock_reinitialize, useVars
<1>c6. UnusedWhenGone'
    BY DEF LocksTypeOK, UnusedWhenGone, HeldByTheLiving, CallsOfTheLiving, Fork, Idle,
         mutex_reinitialize, rwlock_reinitialize, useVars
<1>c7. CallsOfTheLiving'
    BY DEF LocksTypeOK, CallsOfTheLiving, Fork, Idle, mutex_reinitialize, rwlock_reinitialize,
         useVars
<1>c8. Waiting'
    BY DEF LocksTypeOK, Waiting, Fork, Idle, mutex_reinitialize, rwlock_reinitialize, useVars
<1>c9. ConditionIsPlain'
    BY DEF LocksTypeOK, ConditionIsPlain, Fork, Idle, mutex_reinitialize, rwlock_reinitialize,
         useVars
<1>c10. ReadersAreAlike'
    BY DEF LocksTypeOK, ReadersAreAlike, Fork, Idle, mutex_reinitialize, rwlock_reinitialize,
         useVars
<1>c11. SavedByCaller'
    BY DEF LocksTypeOK, SavedByCaller, Waiting, Fork, Idle, mutex_reinitialize,
         rwlock_reinitialize, useVars
<1>c12. SavedInMutex'
    BY DEF LocksTypeOK, SavedInMutex, Fork, Idle, mutex_reinitialize, rwlock_reinitialize,
         useVars
<1>c13. SavedInRwlock'
    BY DEF LocksTypeOK, SavedInRwlock, Waiting, Exclusive, Fork, Idle, mutex_reinitialize,
         rwlock_reinitialize, useVars
<1> QED
  BY <1>c1, <1>c2, <1>c3, <1>c4, <1>c5, <1>c6, <1>c7, <1>c8, <1>c9, <1>c10, <1>c11, <1>c12, <1>c13

(* The locks are made again.                                                *)
LEMMA CreateKeeps ==
  ASSUME LocksInv, NEW t \in Threads, Create(t)
  PROVE  LocksInv'
<1> USE DEF LocksInv, Use, Saved
<1>c1. LocksTypeOK'
    BY DEF LocksTypeOK, UnusedWhenGone, Create, mutex_reinitialize, rwlock_reinitialize,
         threadVars
<1>c2. EveryHoldCanBeClosed'
    BY DEF LocksTypeOK, EveryHoldCanBeClosed, Exclusive, UnusedWhenGone, Create,
         mutex_reinitialize, rwlock_reinitialize, threadVars
<1>c3. ProtectedInRegions'
    BY DEF LocksTypeOK, ProtectedInRegions, Waiting, SavedByCaller, SavedInMutex,
         SavedInRwlock, Exclusive, EveryHoldCanBeClosed, InRegion, UnusedWhenGone, Create,
         mutex_reinitialize, rwlock_reinitialize, threadVars
<1>c4. HeldByTheLiving'
    BY DEF LocksTypeOK, HeldByTheLiving, CallsOfTheLiving, Waiting, SavedInRwlock,
         EveryHoldCanBeClosed, Exclusive, UnusedWhenGone, Create, mutex_reinitialize,
         rwlock_reinitialize, threadVars
<1>c5. Exclusive'
    BY DEF LocksTypeOK, Exclusive, UnusedWhenGone, Create, mutex_reinitialize,
         rwlock_reinitialize, threadVars
<1>c6. UnusedWhenGone'
    BY DEF LocksTypeOK, UnusedWhenGone, HeldByTheLiving, CallsOfTheLiving, Create,
         mutex_reinitialize, rwlock_reinitialize, threadVars
<1>c7. CallsOfTheLiving'
    BY DEF LocksTypeOK, CallsOfTheLiving, UnusedWhenGone, Create, mutex_reinitialize,
         rwlock_reinitialize, threadVars
<1>c8. Waiting'
    BY DEF LocksTypeOK, Waiting, UnusedWhenGone, Create, mutex_reinitialize,
         rwlock_reinitialize, threadVars
<1>c9. ConditionIsPlain'
    BY DEF LocksTypeOK, ConditionIsPlain, UnusedWhenGone, Create, mutex_reinitialize,
         rwlock_reinitialize, threadVars
<1>c10. ReadersAreAlike'
    BY DEF LocksTypeOK, ReadersAreAlike, UnusedWhenGone, Create, mutex_reinitialize,
         rwlock_reinitialize, threadVars
<1>c11. SavedByCaller'
    BY DEF LocksTypeOK, SavedByCaller, Waiting, UnusedWhenGone, Create, mutex_reinitialize,
         rwlock_reinitialize, threadVars
<1>c12. SavedInMutex'
    BY DEF LocksTypeOK, SavedInMutex, UnusedWhenGone, Create, mutex_reinitialize,
         rwlock_reinitialize, threadVars
<1>c13. SavedInRwlock'
    BY DEF LocksTypeOK, SavedInRwlock, Waiting, Exclusive, UnusedWhenGone, Create,
         mutex_reinitialize, rwlock_reinitialize, threadVars
<1> QED
  BY <1>c1, <1>c2, <1>c3, <1>c4, <1>c5, <1>c6, <1>c7, <1>c8, <1>c9, <1>c10, <1>c11, <1>c12, <1>c13

(* The locks are destroyed when nobody uses them.                           *)
LEMMA DestroyKeeps ==
  ASSUME LocksInv, NEW t \in Threads, Destroy(t)
  PROVE  LocksInv'
<1> USE DEF LocksInv, Use, Saved
<1>c1. LocksTypeOK'
    BY DEF LocksTypeOK, Destroy, Unused, Idle, mtxVars, rwlVars, threadVars
<1>c2. EveryHoldCanBeClosed'
    BY DEF LocksTypeOK, EveryHoldCanBeClosed, Exclusive, Destroy, Unused, Idle, mtxVars,
         rwlVars, threadVars
<1>c3. ProtectedInRegions'
    BY DEF LocksTypeOK, ProtectedInRegions, Waiting, SavedByCaller, SavedInMutex,
         SavedInRwlock, Exclusive, EveryHoldCanBeClosed, InRegion, Destroy, Unused, Idle,
         mtxVars, rwlVars, threadVars
<1>c4. HeldByTheLiving'
    BY DEF LocksTypeOK, HeldByTheLiving, CallsOfTheLiving, Waiting, SavedInRwlock,
         EveryHoldCanBeClosed, Exclusive, Destroy, Unused, Idle, mtxVars, rwlVars, threadVars
<1>c5. Exclusive'
    BY DEF LocksTypeOK, Exclusive, Destroy, Unused, Idle, mtxVars, rwlVars, threadVars
<1>c6. UnusedWhenGone'
    BY DEF LocksTypeOK, UnusedWhenGone, HeldByTheLiving, CallsOfTheLiving, Destroy, Unused,
         Idle, mtxVars, rwlVars, threadVars
<1>c7. CallsOfTheLiving'
    BY DEF LocksTypeOK, CallsOfTheLiving, Destroy, Unused, Idle, mtxVars, rwlVars, threadVars
<1>c8. Waiting'
    BY DEF LocksTypeOK, Waiting, Destroy, Unused, Idle, mtxVars, rwlVars, threadVars
<1>c9. ConditionIsPlain'
    BY DEF LocksTypeOK, ConditionIsPlain, Destroy, Unused, Idle, mtxVars, rwlVars, threadVars
<1>c10. ReadersAreAlike'
    BY DEF LocksTypeOK, ReadersAreAlike, Destroy, Unused, Idle, mtxVars, rwlVars, threadVars
<1>c11. SavedByCaller'
    BY DEF LocksTypeOK, SavedByCaller, Waiting, Destroy, Unused, Idle, mtxVars, rwlVars,
         threadVars
<1>c12. SavedInMutex'
    BY DEF LocksTypeOK, SavedInMutex, Destroy, Unused, Idle, mtxVars, rwlVars, threadVars
<1>c13. SavedInRwlock'
    BY DEF LocksTypeOK, SavedInRwlock, Waiting, Exclusive, Destroy, Unused, Idle, mtxVars,
         rwlVars, threadVars
<1> QED
  BY <1>c1, <1>c2, <1>c3, <1>c4, <1>c5, <1>c6, <1>c7, <1>c8, <1>c9, <1>c10, <1>c11, <1>c12, <1>c13

-----------------------------------------------------------------------------
(* A step of the mutex is one of those.                                    *)
LEMMA MutexKeeps ==
  ASSUME LocksInv, NEW t \in Threads, MutexStep(t)
  PROVE  LocksInv'
<1> USE DEF LocksInv, Use, Saved
<1>1. CASE mutex_lock(t) \/ mutex_timedlock(t) \/ mutex_trylock(t)
  <2>1. TakeMutex(t, "unset", "plain") /\ call[t] \notin Critical
    BY <1>1 DEF mutex_lock, mutex_timedlock, mutex_trylock, Idle
  <2>2. exists /\ t \in alive /\ m_mtx # t /\ ~HoldsRwl(t)
    BY <1>1 DEF mutex_lock, mutex_timedlock, mutex_trylock, Idle, MayOpenMutex, UnusedWhenGone,
                CallsOfTheLiving, Waiting
  <2>3. QED
    BY <2>1, <2>2, TakeMutexKeeps
<1>2. CASE mutex_timesout(t)
  BY <1>2, GiveUpKeeps DEF mutex_timesout
<1>3. CASE mutex_enter_critical(t)
  <2>1. TakeMutex(t, "enable", "critical") /\ call[t] = "mutex_enter" /\ mtx_use # "condition"
    BY <1>3 DEF mutex_enter_critical, SavedByCaller, ConditionIsPlain
  <2>2. exists /\ t \in alive /\ m_mtx # t /\ ~HoldsRwl(t)
    BY <2>1 DEF UnusedWhenGone, CallsOfTheLiving, Waiting
  <2>3. QED
    BY <2>1, <2>2, TakeMutexKeeps
<1>4. CASE mutex_unlock(t)
  <2>1. mtx_kind = "plain" /\ m_mtx # NoOne
    BY <1>4 DEF mutex_unlock, EveryHoldCanBeClosed, LocksTypeOK
  <2>2. QED
    BY <1>4, <2>1, ReleaseMutexKeeps DEF mutex_unlock, Idle, threadVars
<1>5. CASE mutex_leave_critical(t)
  BY <1>5, LeaveMutexKeeps
<1>6. QED
  BY <1>1, <1>2, <1>3, <1>4, <1>5 DEF MutexStep

(* A step of its condition.                                                *)
LEMMA CondKeeps ==
  ASSUME LocksInv, NEW t \in Threads, CondStep(t)
  PROVE  LocksInv'
<1> USE DEF LocksInv, Use, Saved
<1>1. CASE \E c \in {"cond_wait", "cond_timedwait"} : cond_wait(t, c)
  <2>1. mtx_kind = "plain"
    BY <1>1 DEF cond_wait, ConditionIsPlain
  <2>2. QED
    BY <1>1, <2>1, ReleaseMutexKeeps DEF cond_wait, Idle
<1>2. ASSUME NEW ts \in SUBSET Sleepers, Wake(ts)
      PROVE  LocksInv'
  <2>1. call' \in [Threads -> Plain \cup Critical \cup Waits \cup {"none"}]
    BY <1>2 DEF Wake, LocksTypeOK
  <2>2. \A u \in Threads : call'[u] = call[u] \/ (call[u] \in Waits /\ call'[u] \in Waits)
    BY <1>2 DEF Wake, Sleepers
  <2>3. QED
    BY <1>2, <2>1, <2>2, WakeKeeps DEF Wake
<1>3. CASE \E all \in BOOLEAN : cond_notify(t, all)
  <2>1. \E ts \in SUBSET Sleepers : Wake(ts)
    BY <1>3 DEF cond_notify
  <2>2. QED
    BY <2>1, <1>2
<1>4. CASE cond_wakes(t) \/ cond_timesout(t)
  <2>1. {t} \in SUBSET Sleepers /\ Wake({t})
    BY <1>4 DEF cond_wakes, cond_timesout, Sleepers
  <2>2. QED
    BY <2>1, <1>2
<1>5. CASE cond_relock(t)
  <2>1. TakeMutex(t, "unset", "plain") /\ call[t] = "woken"
    BY <1>5 DEF cond_relock, ConditionIsPlain
  <2>2. exists /\ t \in alive /\ m_mtx # t /\ ~HoldsRwl(t)
    BY <2>1 DEF UnusedWhenGone, CallsOfTheLiving, Waiting
  <2>3. QED
    BY <2>1, <2>2, TakeMutexKeeps
<1>6. CASE cond_canceled(t)
  <2>1. call' \in [Threads -> Plain \cup Critical \cup Waits \cup {"none"}]
    BY <1>6 DEF cond_canceled, LocksTypeOK
  <2>2. \A u \in Threads : call'[u] = call[u] \/ (call[u] \in Waits /\ call'[u] \in Waits)
    BY <1>6 DEF cond_canceled, Sleepers, LocksTypeOK
  <2>3. QED
    BY <1>6, <2>1, <2>2, WakeKeeps DEF cond_canceled
<1>7. CASE cond_cleanup(t)
  BY <1>7, CleanupKeeps
<1>8. QED
  BY <1>1, <1>3, <1>4, <1>5, <1>6, <1>7 DEF CondStep

(* A step of the read-write lock.                                          *)
LEMMA RwlockKeeps ==
  ASSUME LocksInv, NEW t \in Threads, RwlockStep(t)
  PROVE  LocksInv'
<1> USE DEF LocksInv, Use, Saved
<1>1. CASE \/ rwlock_reader_lock(t) \/ rwlock_reader_timedlock(t) \/ rwlock_reader_trylock(t)
           \/ rwlock_reader_enter_critical(t)
  <2>1. exists /\ t \in alive /\ ~HoldsRwl(t)
    BY <1>1 DEF rwlock_reader_lock, rwlock_reader_timedlock, rwlock_reader_trylock, Idle, MayOpenRwl,
                rwlock_reader_enter_critical, UnusedWhenGone, CallsOfTheLiving, Waiting
  <2>2. CASE rwlock_reader_enter_critical(t)
    BY <2>1, <2>2, TakeReaderKeeps DEF rwlock_reader_enter_critical, SavedByCaller, ReadersAreAlike
  <2>3. CASE ~rwlock_reader_enter_critical(t)
    <3>1. TakeReader(t, "unset") /\ call[t] \notin Critical
      BY <1>1, <2>3 DEF rwlock_reader_lock, rwlock_reader_timedlock, rwlock_reader_trylock, Idle
    <3>2. rwl_use = "plain"
      BY <1>1, <2>3 DEF rwlock_reader_lock, rwlock_reader_timedlock, rwlock_reader_trylock, MayOpenRwl,
                        ReadersAreAlike, LocksTypeOK
    <3>3. QED
      BY <2>1, <3>1, <3>2, TakeReaderKeeps
  <2>4. QED
    BY <2>2, <2>3
<1>2. CASE rwlock_reader_timesout(t) \/ rwlock_writer_timesout(t)
  BY <1>2, GiveUpKeeps DEF rwlock_reader_timesout, rwlock_writer_timesout
<1>3. CASE \/ rwlock_writer_lock(t) \/ rwlock_writer_timedlock(t) \/ rwlock_writer_trylock(t)
           \/ rwlock_writer_enter_critical(t)
  <2>1. exists /\ t \in alive /\ ~HoldsRwl(t)
    BY <1>3 DEF rwlock_writer_lock, rwlock_writer_timedlock, rwlock_writer_trylock, Idle, MayOpenRwl,
                rwlock_writer_enter_critical, UnusedWhenGone, CallsOfTheLiving, Waiting
  <2>2. CASE rwlock_writer_enter_critical(t)
    BY <2>1, <2>2, TakeWriterKeeps DEF rwlock_writer_enter_critical
  <2>3. CASE ~rwlock_writer_enter_critical(t)
    <3>1. TakeWriter(t, "unset", "plain") /\ call[t] \notin Critical
      BY <1>3, <2>3 DEF rwlock_writer_lock, rwlock_writer_timedlock, rwlock_writer_trylock, Idle
    <3>2. QED
      BY <2>1, <3>1, TakeWriterKeeps
  <2>4. QED
    BY <2>2, <2>3
<1>4. CASE rwlock_unlock(t)
  BY <1>4, UnlockRwlKeeps
<1>5. CASE rwlock_leave_critical(t)
  BY <1>5, LeaveRwlKeeps
<1>6. QED
  BY <1>1, <1>2, <1>3, <1>4, <1>5 DEF RwlockStep

(* Every step keeps it. *)
LEMMA NextLocksInv == LocksInv /\ [Next]_vars => LocksInv'
<1> SUFFICES ASSUME LocksInv, [Next]_vars PROVE LocksInv'
  OBVIOUS
<1>1. ASSUME NEW t \in Threads, Step(t) PROVE LocksInv'
  <2>1. CASE \E c \in Plain \cup Critical : Begin(t, c)
    BY <2>1, BeginKeeps
  <2>2. CASE MutexStep(t) \/ CondStep(t) \/ RwlockStep(t)
    BY <2>2, MutexKeeps, CondKeeps, RwlockKeeps
  <2>3. CASE Cancel(t)
    <3>1. pending' \in SUBSET Threads
      BY <2>3 DEF Cancel, LocksInv, LocksTypeOK
    <3>2. QED
      BY <2>3, <3>1, RequestsKeep DEF Cancel
  <2>4. CASE Fork(t) \/ Destroy(t) \/ Create(t)
    BY <2>4, ForkKeeps, DestroyKeeps, CreateKeeps
  <2>5. QED
    BY <1>1, <2>1, <2>2, <2>3, <2>4 DEF Step
<1>2. CASE UNCHANGED vars
  <2>1. pending' \in SUBSET Threads
    BY <1>2 DEF LocksInv, LocksTypeOK, vars, threadVars
  <2>2. QED
    BY <1>2, <2>1, RequestsKeep DEF vars, mtxVars, rwlVars, threadVars, useVars
<1>3. QED
  BY <1>1, <1>2 DEF Next, Over

(* The inductive invariant of the locks holds in every state. *)
THEOREM LocksInvariant == Spec => []LocksInv
BY InitLocksInv, NextLocksInv, PTL DEF Spec
-----------------------------------------------------------------------------
(* Every variable of the locks keeps to its values.                        *)
THEOREM LocksTypeCorrect == Spec => []LocksTypeOK
BY LocksInvariant, PTL DEF LocksInv

(* Every lock can be released by its owner, in the way it was taken, if all *)
(* readers are of one kind and a mutex that is waited on is taken plainly   *)
(* (rwl_use and mtx_use).                                                   *)
THEOREM HoldsCanBeClosed == Spec => []EveryHoldCanBeClosed
BY LocksInvariant, PTL DEF LocksInv

(* Cancelation is disabled exactly in the critical regions, and what their  *)
(* ends restore is each thread's own state.                                *)
THEOREM RegionsProtect == Spec => []ProtectedInRegions
BY LocksInvariant, PTL DEF LocksInv

(* No cancelation and no fork leaves a lock with an owner that is gone, but *)
(* for one: a mutex held plainly by a thread that was canceled where it left *)
(* a critical region inside.  Where Nestings has no such region there is    *)
(* none at all.                                                             *)
THEOREM OwnersLive == Spec => []HeldByTheLiving
BY LocksInvariant, PTL DEF LocksInv

HIDE LocksAssumption
     DEF Plain, Critical, OfMutex, OfReader, OfWriter, OfRwlock, Waits, Kinds, HoldsRwl, Orphaned

-----------------------------------------------------------------------------
\* a map that is closed has no entries, the table of an open one is sound
TableOK ==
  IF m_is_operational THEN Sound(table) /\ m_n_entries = table.numEntries
  ELSE table = Deleted /\ m_n_entries = 0

\* a value is at most once in the map
OnceIn(E) == \A e, f \in E : e.value = f.value /\ e.value # null => e = f

ValuesOf(E) == {e.value : e \in E}

DataOK ==
  /\ m_type \in Types /\ m_is_operational \in BOOLEAN /\ freed \subseteq Values /\ twice \in BOOLEAN
  /\ TableOK /\ OnceIn(EntrySet(table)) /\ FreedOnce

\* what a call found out about its key is still so
CallsFit ==
  \A t \in Threads : he[t] # None =>
    answer[t] = None /\ m_is_operational /\ he[t][2] = Has(he[t][1])

\* a call works on the map under the lock, or there is no other call
Regions ==
  \A t \in Threads :
    /\ call[t] # "none" => Quiet(t)
    /\ ~Quiet(t) => exists
    /\ ~Quiet(t) /\ ~HoldsRwl(t) =>
         \A s \in Threads : call[s] = "none" /\ ~HoldsRwl(s) /\ (s # t => Quiet(s))

CallsOK ==
  /\ he \in [Threads -> {None} \cup (Keys \X BOOLEAN)] /\ answer \in [Threads -> {None} \cup Answers]
  /\ CallsFit /\ Regions /\ (~exists => ~m_is_operational)

\* the inductive invariant
MapInv == LocksInv /\ DataOK /\ CallsOK
-----------------------------------------------------------------------------
(* A table that is primed part by part is the primed table, if the key type stays. *)
LEMMA SameTable ==
  ASSUME m_type' = m_type
  PROVE  /\ Sound(table)' <=> Sound(table')
         /\ EntrySet(table)' = EntrySet(table')
         /\ \A k : KeyOf(k)' = KeyOf(k)
<1>1. \A k : KeyOf(k)' = KeyOf(k)
  BY DEF KeyOf, KeyLen
<1>2. \A k : IndexOf(table, k)' = IndexOf(table', k)
  BY DEF IndexOf, StringIndex, RandomIndex, KeyOf, KeyLen, numBuckets
<1>3. EntrySet(table)' = EntrySet(table')
  BY DEF EntrySet
<1>4. numBuckets(table)' = numBuckets(table') /\ Places(table)' = Places(table')
  BY DEF numBuckets, Places
<1>5. IsTable(table)' <=> IsTable(table')
  BY <1>4 DEF IsTable, Entry
<1>6. Placed(table)' <=> Placed(table')
  BY <1>2, <1>4 DEF Placed
<1>7. Apart(table)' <=> Apart(table')
  BY <1>1, <1>4 DEF Apart, Same
<1>8. Counted(table)' <=> Counted(table')
  BY <1>3 DEF Counted
<1>9. IsHash(table)' <=> IsHash(table')
  BY <1>5, <1>6, <1>7, <1>8 DEF IsHash
<1>10. QED
  BY <1>1, <1>3, <1>4, <1>9 DEF Sound

(* The same table has the same keys. *)
LEMMA SameHas ==
  ASSUME m_type' = m_type, table' = table, NEW t
  PROVE  Has(he[t][1])' = Has(he'[t][1])
<1>1. /\ KeyLen' = KeyLen /\ numBuckets(table)' = numBuckets(table)
      /\ KeyOf(he[t][1])' = KeyOf(he'[t][1])
  BY DEF KeyLen, numBuckets, KeyOf
<1>2. /\ StringIndex(table, he[t][1])' = StringIndex(table, he'[t][1])
      /\ RandomIndex(table, he[t][1])' = RandomIndex(table, he'[t][1])
  BY <1>1 DEF StringIndex, RandomIndex
<1>3. StringFind(table, he[t][1])' = StringFind(table, he'[t][1])
  BY <1>2 DEF StringFind, SelectInSeq
<1>4. OneWordFind(table, he[t][1])' = OneWordFind(table, he'[t][1])
  BY <1>2 DEF OneWordFind, SelectInSeq
<1>5. ArrayFind(table, he[t][1])' = ArrayFind(table, he'[t][1])
  BY <1>2 DEF ArrayFind, SelectInSeq
<1>6. QED
  BY <1>1, <1>3, <1>4, <1>5 DEF Has, FindHashEntry

(* A sound table after a step, with the values counted. *)
LEMMA NewData ==
  ASSUME m_type' = m_type, m_type \in Types, NEW u, table' = u, Sound(u), m_n_entries' = u.numEntries,
         m_is_operational' = TRUE, freed' \subseteq Values, twice' = FALSE,
         OnceIn(EntrySet(u)), ValuesOf(EntrySet(u)) \cap freed' = {}
  PROVE  DataOK'
<1>1. Sound(table)' /\ EntrySet(table)' = EntrySet(u)
  BY SameTable
<1>2. TableOK'
  BY <1>1 DEF TableOK
<1>3. OnceIn(EntrySet(table))'
  BY <1>1 DEF OnceIn
<1>4. InMap' = ValuesOf(EntrySet(u))
  BY <1>1 DEF InMap, ValuesOf
<1>5. FreedOnce'
  BY <1>4 DEF FreedOnce
<1>6. QED
  BY <1>2, <1>3, <1>5 DEF DataOK

(* A deleted table has no entries. *)
LEMMA NoEntries ==
  ASSUME NEW t, t = Deleted
  PROVE  EntrySet(t) = {} /\ DOMAIN t.buckets = {} /\ t.numEntries = 0
<1>1. t.buckets = <<>> /\ t.numEntries = 0
  BY DEF Deleted
<1>2. DOMAIN t.buckets = {}
  BY <1>1
<1>3. QED
  BY <1>1, <1>2 DEF EntrySet

(* A map that is closed keeps the invariant. *)
LEMMA ClosedData ==
  ASSUME m_type' \in Types, table' = Deleted, m_n_entries' = 0,
         m_is_operational' = FALSE, freed' \subseteq Values, twice' = FALSE
  PROVE  DataOK'
<1>1. EntrySet(table') = {}
  BY NoEntries
<1>2. EntrySet(table)' = {}
  BY <1>1 DEF EntrySet
<1>3. QED
  BY <1>2 DEF DataOK, TableOK, Deleted, OnceIn, FreedOnce, InMap

(* So does a map that stays as it is. *)
LEMMA SameData ==
  ASSUME DataOK, UNCHANGED tableVars, freed' \subseteq freed, UNCHANGED twice
  PROVE  DataOK'
<1>1. m_type' = m_type /\ table' = table /\ m_n_entries' = m_n_entries /\ m_is_operational' = m_is_operational
  BY DEF tableVars
<1>2. (Sound(table)' <=> Sound(table)) /\ EntrySet(table)' = EntrySet(table)
  BY <1>1, SameTable
<1>3. TableOK'
  BY <1>1, <1>2 DEF DataOK, TableOK, Deleted
<1>4. OnceIn(EntrySet(table))'
  BY <1>2 DEF DataOK, OnceIn
<1>5. InMap' = InMap
  BY <1>2 DEF InMap
<1>6. FreedOnce'
  BY <1>5 DEF DataOK, FreedOnce
<1>7. QED
  BY <1>1, <1>3, <1>4, <1>6 DEF DataOK
-----------------------------------------------------------------------------
(* the operations on the table *)

(* What holds of an operational map. *)
LEMMA OpenIs ==
  ASSUME DataOK, m_is_operational
  PROVE  /\ Sound(table) /\ m_n_entries = table.numEntries /\ EntrySet(table) \subseteq Entry
         /\ InMap = ValuesOf(EntrySet(table)) /\ InMap \subseteq Values \cup {null}
         /\ ~twice /\ InMap \cap freed = {} /\ null \notin freed
         /\ \A e, f \in EntrySet(table) : KeyOf(e.key) = KeyOf(f.key) => e = f
<1>1. Sound(table) /\ m_n_entries = table.numEntries
  BY DEF DataOK, TableOK
<1>2. EntrySet(table) \subseteq Entry
  BY <1>1, EntriesAreEntries DEF Sound, IsHash
<1>3. InMap = ValuesOf(EntrySet(table)) /\ InMap \subseteq Values \cup {null}
  BY <1>2 DEF InMap, ValuesOf, Entry
<1>4. ~twice /\ InMap \cap freed = {} /\ null \notin freed
  BY MapAssumption DEF DataOK, FreedOnce
<1>5. \A e, f \in EntrySet(table) : KeyOf(e.key) = KeyOf(f.key) => e = f
  BY <1>1, OnlyOne DEF Sound, IsHash, Same
<1>6. QED
  BY <1>1, <1>2, <1>3, <1>4, <1>5

(* Overwriting the value of a key keeps the data sound, *)
LEMMA Replaced ==
  ASSUME DataOK, m_is_operational, NEW k \in Keys, Has(k), NEW v \in FreshOnes, Allocate(v),
         table' = SetHashValue(table, k, v), UNCHANGED <<m_type, m_n_entries, m_is_operational>>
  PROVE  DataOK'
<1> DEFINE u == SetHashValue(table, k, v)
           a == At(table, k)
           r == [key |-> a.key, value |-> v]
           E == EntrySet(table)
<1>1. /\ Sound(table) /\ m_n_entries = table.numEntries /\ E \subseteq Entry
      /\ InMap = ValuesOf(E) /\ InMap \subseteq Values \cup {null} /\ ~twice /\ InMap \cap freed = {} /\ null \notin freed
  BY OpenIs
<1>2. v \in Values \cup {null} /\ (v \in InMap => v = null)
  BY DEF FreshOnes
<1>3. FindHashEntry(table, k) # 0
  BY DEF Has
<1>4. Sound(u) /\ u.numEntries = table.numEntries /\ EntrySet(u) = (E \ {a}) \cup {r}
  BY <1>1, <1>2, <1>3, OneRevised
<1>5. r.value = v
  OBVIOUS
<1>6. table' = u
  OBVIOUS
<1> HIDE DEF u, a, r
<1>7. OnceIn(EntrySet(u))
  <2>1. \A e \in E : e.value \in InMap
    BY <1>1 DEF ValuesOf
  <2>2. OnceIn(E)
    BY DEF DataOK
  <2>3. QED
    BY <1>2, <1>4, <1>5, <2>1, <2>2 DEF OnceIn
<1>8. ValuesOf(EntrySet(u)) \subseteq InMap \cup {v}
  BY <1>1, <1>4, <1>5 DEF ValuesOf
<1>9. freed' \subseteq Values /\ twice' = FALSE /\ ValuesOf(EntrySet(u)) \cap freed' = {}
  BY <1>1, <1>8 DEF Allocate, DataOK
<1>10. QED
  BY <1>1, <1>4, <1>6, <1>7, <1>9, NewData DEF DataOK

(* A key that gets an entry and then its value. *)
LEMMA CreatedEntry ==
  ASSUME ShiftsSuffice, DataOK, m_is_operational, NEW k \in Keys, ~Has(k), NEW v \in Values \cup {null},
         NEW u, u = SetHashValue(CreateHashEntry(table, k, null), k, v)
  PROVE  /\ Sound(u) /\ u.numEntries = table.numEntries + 1
         /\ EntrySet(u) = EntrySet(table) \cup {[key |-> k, value |-> v]}
<1> DEFINE w == CreateHashEntry(table, k, null)
           n == [key |-> k, value |-> null]
           r == [key |-> k, value |-> v]
<1>1. Sound(table) /\ EntrySet(table) \subseteq Entry
  BY OpenIs
<1>2. FindHashEntry(table, k) = 0
  BY DEF Has
<1>3. Sound(w) /\ EntrySet(w) = EntrySet(table) \cup {n} /\ w.numEntries = table.numEntries + 1
  BY <1>1, <1>2, Created
<1>4. u = SetHashValue(w, k, v)
  OBVIOUS
<1>5. n.key = k /\ r.key = k
  OBVIOUS
<1> HIDE DEF w, n
<1>6. n \in EntrySet(w) /\ KeyOf(n.key) = KeyOf(k)
  BY <1>3, <1>5
<1>7. FindHashEntry(w, k) # 0
  BY <1>3, <1>6, AtIs
<1>8. At(w, k) = n
  BY <1>3, <1>6, <1>7, AtIs
<1>9. n \notin EntrySet(table)
  BY <1>1, <1>2, <1>5, AtIs
<1>10. /\ Sound(u) /\ u.numEntries = w.numEntries
       /\ EntrySet(u) = (EntrySet(w) \ {At(w, k)}) \cup {[key |-> At(w, k).key, value |-> v]}
  BY <1>3, <1>4, <1>7, OneRevised
<1>11. EntrySet(u) = EntrySet(table) \cup {r}
  BY <1>3, <1>5, <1>8, <1>9, <1>10
<1>12. QED
  BY <1>3, <1>10, <1>11

(* adding a key does, *)
LEMMA Added ==
  ASSUME ShiftsSuffice, DataOK, m_is_operational, NEW k \in Keys, ~Has(k), NEW v \in FreshOnes, Allocate(v),
         s_create_entry(k, v), UNCHANGED <<m_type, m_is_operational>>
  PROVE  DataOK'
<1> DEFINE u == SetHashValue(CreateHashEntry(table, k, null), k, v)
           r == [key |-> k, value |-> v]
           E == EntrySet(table)
<1>1. /\ Sound(table) /\ m_n_entries = table.numEntries /\ E \subseteq Entry
      /\ InMap = ValuesOf(E) /\ InMap \subseteq Values \cup {null} /\ ~twice /\ InMap \cap freed = {} /\ null \notin freed
  BY OpenIs
<1>2. v \in Values \cup {null} /\ (v \in InMap => v = null)
  BY DEF FreshOnes
<1>3. Sound(u) /\ u.numEntries = table.numEntries + 1 /\ EntrySet(u) = E \cup {r}
  BY <1>2, CreatedEntry
<1>4. table' = u /\ m_n_entries' = u.numEntries
  BY <1>1, <1>3 DEF s_create_entry
<1>5. r.value = v
  OBVIOUS
<1> HIDE DEF u, r
<1>6. OnceIn(EntrySet(u))
  <2>1. \A e \in E : e.value \in InMap
    BY <1>1 DEF ValuesOf
  <2>2. OnceIn(E)
    BY DEF DataOK
  <2>3. QED
    BY <1>2, <1>3, <1>5, <2>1, <2>2 DEF OnceIn
<1>7. ValuesOf(EntrySet(u)) \subseteq InMap \cup {v}
  BY <1>1, <1>3, <1>5 DEF ValuesOf
<1>8. freed' \subseteq Values /\ twice' = FALSE /\ ValuesOf(EntrySet(u)) \cap freed' = {}
  BY <1>1, <1>7 DEF Allocate, DataOK
<1>9. QED
  BY <1>3, <1>4, <1>6, <1>8, NewData DEF DataOK

-----------------------------------------------------------------------------
(* deleting one does, freed or not, *)
LEMMA Dropped ==
  ASSUME DataOK, m_is_operational, NEW k \in Keys, Has(k),
         FreeUp({ValueAt(k)}) \/ UNCHANGED valueVars,
         table' = DeleteHashEntry(table, k), m_n_entries' = m_n_entries - 1, UNCHANGED <<m_type, m_is_operational>>
  PROVE  DataOK'
<1> DEFINE u == DeleteHashEntry(table, k)
           a == At(table, k)
           E == EntrySet(table)
<1>1. /\ Sound(table) /\ m_n_entries = table.numEntries /\ E \subseteq Entry
      /\ InMap = ValuesOf(E) /\ InMap \subseteq Values \cup {null} /\ ~twice /\ InMap \cap freed = {} /\ null \notin freed
  BY OpenIs
<1>2. FindHashEntry(table, k) # 0
  BY DEF Has
<1>3. Sound(u) /\ u.numEntries = table.numEntries - 1 /\ EntrySet(u) = E \ {a}
  BY <1>1, <1>2, Removed
<1>4. a \in E /\ ValueAt(k) = a.value
  BY <1>1, <1>2, AtIs DEF ValueAt
<1>5. table' = u /\ m_n_entries' = u.numEntries
  BY <1>1, <1>3
<1> HIDE DEF u, a
<1>6. OnceIn(E)
  BY DEF DataOK
<1>7. OnceIn(EntrySet(u))
  BY <1>3, <1>6 DEF OnceIn
<1>8. a.value \in InMap /\ ValuesOf(EntrySet(u)) \subseteq InMap
  BY <1>1, <1>3, <1>4 DEF ValuesOf
<1>9. a.value # null => a.value \notin ValuesOf(EntrySet(u))
  BY <1>3, <1>4, <1>6 DEF ValuesOf, OnceIn
<1>10. freed' \subseteq Values /\ twice' = FALSE /\ ValuesOf(EntrySet(u)) \cap freed' = {}
  <2>1. CASE UNCHANGED valueVars
    BY <1>1, <1>8, <2>1 DEF valueVars, DataOK
  <2>2. CASE FreeUp({ValueAt(k)})
    <3>1. freed' = freed \cup ({a.value} \ {null}) /\ twice' = (twice \/ {a.value} \cap freed # {})
      BY <1>4, <2>2 DEF FreeUp
    <3>2. {a.value} \cap freed = {}
      BY <1>1, <1>8
    <3>3. twice' = FALSE
      BY <1>1, <3>1, <3>2
    <3>4. freed' \subseteq Values
      BY <1>1, <1>8, <3>1 DEF DataOK
    <3>5. ValuesOf(EntrySet(u)) \cap freed' = {}
      BY <1>1, <1>8, <1>9, <3>1
    <3>6. QED
      BY <3>3, <3>4, <3>5
  <2>3. QED
    BY <2>1, <2>2
<1>11. QED
  BY <1>1, <1>3, <1>5, <1>7, <1>10, NewData DEF DataOK

(* A set of at most one member has no two. *)
LEMMA NotTwo ==
  ASSUME NEW S, IsFiniteSet(S), Cardinality(S) <= 1, NEW x \in S, NEW y \in S
  PROVE  x = y
<1>1. SUFFICES ASSUME x # y PROVE FALSE
  OBVIOUS
<1>2. Cardinality({x, y}) <= Cardinality(S) /\ IsFiniteSet({x, y})
  BY FS_Subset
<1>3. IsFiniteSet({x}) /\ Cardinality({x}) = 1
  BY FS_Singleton
<1>4. Cardinality({x} \cup {y}) = Cardinality({x}) + 1
  BY <1>1, <1>3, FS_AddElement
<1>5. {x} \cup {y} = {x, y}
  OBVIOUS
<1>6. Cardinality(S) \in Nat
  BY FS_CardinalityType
<1>7. QED
  BY <1>2, <1>3, <1>4, <1>5, <1>6

(* What an entry becomes in an iteration. *)
LEMMA RevisedIs ==
  ASSUME NEW e \in Entry, NEW ks, NEW v
  PROVE  /\ Revised(e, ks, v).key = e.key
         /\ Revised(e, ks, v).value = IF e.key \in ks THEN v ELSE e.value
BY DEF Revised, Entry

(* iterating does, *)
LEMMA Iterated ==
  ASSUME DataOK, m_is_operational, NEW v \in FreshOnes, Allocate(v),
         NEW ks, ks \subseteq Keys, v # null => Cardinality(ks) <= 1,
         table' = SetHashValues(table, ks, v), UNCHANGED <<m_type, m_n_entries, m_is_operational>>
  PROVE  DataOK'
<1> DEFINE u == SetHashValues(table, ks, v)
           E == EntrySet(table)
<1>1. /\ Sound(table) /\ m_n_entries = table.numEntries /\ E \subseteq Entry
      /\ InMap = ValuesOf(E) /\ InMap \subseteq Values \cup {null} /\ ~twice /\ InMap \cap freed = {} /\ null \notin freed
      /\ \A e, f \in E : KeyOf(e.key) = KeyOf(f.key) => e = f
  BY OpenIs
<1>2. v \in Values \cup {null} /\ (v \in InMap => v = null)
  BY DEF FreshOnes
<1>3. Sound(u) /\ u.numEntries = table.numEntries
  BY <1>1, <1>2, AllRevised
<1>4. \A e : e \in EntrySet(u) <=> \E f \in E : e = Revised(f, ks, v)
  BY <1>1, <1>2, AllRevised
<1>5. table' = u
  OBVIOUS
<1> HIDE DEF u
<1>6. \A f \in E : Revised(f, ks, v).value = IF f.key \in ks THEN v ELSE f.value
  BY <1>1, RevisedIs
<1>7. \A f \in E : f.value \in InMap
  BY <1>1 DEF ValuesOf
<1>8. OnceIn(E)
  BY DEF DataOK
<1>9. v # null => \A x, y \in ks : x = y
  <2>1. IsFiniteSet(ks)
    BY HashAssumption, FS_Subset
  <2>2. QED
    BY <2>1, NotTwo
<1>10. \A e, f \in E :
        Revised(e, ks, v).value = Revised(f, ks, v).value /\ Revised(e, ks, v).value # null => e = f
  <2> SUFFICES ASSUME NEW e \in E, NEW f \in E, Revised(e, ks, v).value = Revised(f, ks, v).value,
                      Revised(e, ks, v).value # null
               PROVE  e = f
    OBVIOUS
  <2>1. CASE e.key \in ks /\ f.key \in ks
    BY <1>1, <1>6, <1>9, <2>1
  <2>2. CASE e.key \in ks /\ f.key \notin ks
    BY <1>2, <1>6, <1>7, <2>2
  <2>3. CASE e.key \notin ks /\ f.key \in ks
    BY <1>2, <1>6, <1>7, <2>3
  <2>4. CASE e.key \notin ks /\ f.key \notin ks
    BY <1>6, <1>8, <2>4 DEF OnceIn
  <2>5. QED
    BY <2>1, <2>2, <2>3, <2>4
<1>11. OnceIn(EntrySet(u))
  BY <1>4, <1>10 DEF OnceIn
<1>12. \A x \in ValuesOf(EntrySet(u)) : x \in InMap \cup {v}
  BY <1>4, <1>6, <1>7 DEF ValuesOf
<1>13. freed' \subseteq Values /\ twice' = FALSE /\ ValuesOf(EntrySet(u)) \cap freed' = {}
  BY <1>1, <1>12 DEF Allocate, DataOK
<1>14. QED
  BY <1>1, <1>3, <1>5, <1>11, <1>13, NewData DEF DataOK

(* Freeing all values frees none twice. *)
LEMMA CleanedValues ==
  ASSUME DataOK, m_is_operational, NEW free \in BOOLEAN, s_clean(free)
  PROVE  freed' \subseteq Values /\ twice' = FALSE /\ m_n_entries' = 0
<1>1. InMap \subseteq Values \cup {null} /\ ~twice /\ InMap \cap freed = {} /\ freed \subseteq Values
  BY OpenIs DEF DataOK
<1>2. m_n_entries' = 0 /\ (FreeUp(InMap) \/ UNCHANGED valueVars)
  BY DEF s_clean
<1>3. CASE UNCHANGED valueVars
  BY <1>1, <1>2, <1>3 DEF valueVars
<1>4. CASE FreeUp(InMap)
  <2>1. freed' = freed \cup (InMap \ {null}) /\ twice' = (twice \/ InMap \cap freed # {})
    BY <1>4 DEF FreeUp
  <2>2. twice' = FALSE
    BY <1>1, <2>1
  <2>3. QED
    BY <1>1, <1>2, <2>1, <2>2
<1>5. QED
  BY <1>2, <1>3, <1>4

(* clearing does, *)
LEMMA Cleared ==
  ASSUME ShiftsSuffice, DataOK, m_is_operational, NEW free \in BOOLEAN, s_clean(free), table' = InitHashTable,
         UNCHANGED <<m_type, m_is_operational>>
  PROVE  DataOK'
<1>1. freed' \subseteq Values /\ twice' = FALSE /\ m_n_entries' = 0
  BY CleanedValues
<1>2. Sound(InitHashTable) /\ EntrySet(InitHashTable) = {} /\ InitHashTable.numEntries = 0
  BY NewTable
<1>3. OnceIn(EntrySet(InitHashTable)) /\ ValuesOf(EntrySet(InitHashTable)) = {}
  BY <1>2 DEF OnceIn, ValuesOf
<1>4. m_type \in Types
  BY DEF DataOK
<1>5. QED
  BY <1>1, <1>2, <1>3, <1>4, NewData

(* and shutting the map down does. *)
LEMMA ShutDown ==
  ASSUME DataOK, m_is_operational, NEW free \in BOOLEAN, s_clean(free), table' = Deleted,
         m_is_operational' = FALSE, UNCHANGED m_type
  PROVE  DataOK'
<1>1. freed' \subseteq Values /\ twice' = FALSE /\ m_n_entries' = 0
  BY CleanedValues
<1>2. m_type' \in Types
  BY DEF DataOK
<1>3. QED
  BY <1>1, <1>2, ClosedData

(* A new map, whose table was made for its new type, is sound. *)
LEMMA NewMap ==
  ASSUME ShiftsSuffice, m_type' \in Types, table' = InitHashTable, m_n_entries' = 0, m_is_operational' = TRUE,
         freed' \subseteq Values, twice' = FALSE
  PROVE  DataOK'
<1>1. Sound(table') /\ EntrySet(table') = {}
  BY NewTable
<1>2. \A i \in Places(table') : table'.buckets[i] = <<>>
  <2>1. DOMAIN table'.buckets = Places(table')
    BY <1>1, TableFacts DEF Sound, IsHash
  <2>2. QED
    BY <2>1 DEF InitHashTable
<1>3. numBuckets(table)' = numBuckets(table') /\ Places(table)' = Places(table') /\ EntrySet(table)' = EntrySet(table')
  BY DEF numBuckets, Places, EntrySet
<1>4. IsTable(table)' /\ Counted(table)'
  BY <1>1, <1>3 DEF Sound, IsHash, IsTable, Counted, Entry
<1>5. \A i \in Places(table)' : 1 .. Len(table'.buckets[i]) = {}
  BY <1>2, <1>3
<1>6. Placed(table)' /\ Apart(table)'
  BY <1>5 DEF Placed, Apart
<1>7. Sound(table)'
  BY <1>1, <1>3, <1>4, <1>6 DEF Sound, IsHash
<1>8. table'.numEntries = 0
  BY NewTable
<1>9. TableOK'
  BY <1>7, <1>8 DEF TableOK
<1>10. EntrySet(table)' = {}
  BY <1>1, <1>3
<1>11. QED
  BY <1>9, <1>10 DEF DataOK, OnceIn, FreedOnce, InMap

-----------------------------------------------------------------------------
\* where the calls may look at the map, and where they may change it
MayRead(t)  == Idle(t) /\ (HoldsRwl(t) \/ Alone(t))
MayWrite(t) == Idle(t) /\ (writer = t \/ Alone(t))

(* Who is alone with the map finds it unlocked. *)
LEMMA AloneIs ==
  ASSUME LocksInv, NEW t \in Threads, Alone(t)
  PROVE  /\ exists /\ t \in alive
         /\ \A s \in Threads : call[s] = "none" /\ ~HoldsRwl(s) /\ m_mtx # s /\ (s # t => Quiet(s))
<1>1. m_mtx = NoOne /\ writer = NoOne /\ m_rwl = {} /\ \A s \in alive : call[s] = "none"
  BY DEF Alone, Unused
<1>2. \A s \in Threads : s \notin alive => call[s] = "none"
  BY DEF LocksInv, Use, CallsOfTheLiving
<1>3. QED
  BY <1>1, <1>2, LocksAssumption DEF Alone, Idle, HoldsRwl

(* Who writes has found no other call at work. *)
LEMMA WritesAlone ==
  ASSUME LocksInv, CallsOK, NEW t \in Threads, MayWrite(t), NEW s \in Threads, s # t
  PROVE  he[s] = None
<1>1. CASE Alone(t)
  BY <1>1 DEF Alone, Quiet
<1>2. CASE writer = t
  <2>1. m_rwl = {} /\ writer # s /\ HoldsRwl(t)
    BY <1>2, LocksAssumption DEF LocksInv, Use, Exclusive, HoldsRwl
  <2>2. ~HoldsRwl(s)
    BY <2>1 DEF HoldsRwl
  <2>3. Quiet(s)
    BY <2>1, <2>2 DEF CallsOK, Regions
  <2>4. QED
    BY <2>3 DEF Quiet
<1>3. QED
  BY <1>1, <1>2 DEF MayWrite

(* The calls fit the map after a step of one of them under the lock. *)
LEMMA CallKept ==
  ASSUME LocksInv, CallsOK, NEW t \in Threads, MayRead(t), UNCHANGED lockVars,
         NEW h \in {None} \cup (Keys \X BOOLEAN), he' = [he EXCEPT ![t] = h],
         NEW a \in {None} \cup Answers, answer' = [answer EXCEPT ![t] = a],
         h # None => a = None /\ m_is_operational' /\ h[2] = Has(he[t][1])',
         UNCHANGED tableVars \/ \A s \in Threads : s # t => he[s] = None
  PROVE  CallsOK'
<1>1. /\ he' \in [Threads -> {None} \cup (Keys \X BOOLEAN)] /\ answer' \in [Threads -> {None} \cup Answers]
      /\ he'[t] = h /\ answer'[t] = a
      /\ \A s \in Threads : s # t => he'[s] = he[s] /\ answer'[s] = answer[s]
  BY DEF CallsOK
<1>2. /\ exists' /\ call'[t] = "none" /\ call' = call /\ m_rwl' = m_rwl /\ writer' = writer
  BY DEF MayRead, Idle, lockVars, useVars, threadVars, rwlVars
<1>3. CallsFit'
  <2>1. ASSUME NEW s \in Threads
        PROVE  (he[s] # None => answer[s] = None /\ m_is_operational /\ he[s][2] = Has(he[s][1]))'
    <3>1. CASE s = t
      BY <1>1, <3>1
    <3>2. CASE s # t
      <4>1. SUFFICES ASSUME he'[s] # None
                     PROVE  answer'[s] = None /\ m_is_operational' /\ he'[s][2] = Has(he[s][1])'
        OBVIOUS
      <4>2. he'[s] = he[s] /\ answer'[s] = answer[s] /\ he[s] # None
        BY <1>1, <3>2, <4>1
      <4>3. m_type' = m_type /\ table' = table /\ m_is_operational' = m_is_operational
        BY <3>2, <4>2 DEF tableVars
      <4>4. answer[s] = None /\ m_is_operational /\ he[s][2] = Has(he[s][1])
        BY <4>2 DEF CallsOK, CallsFit
      <4>5. Has(he[s][1])' = Has(he[s][1])
        BY <4>2, <4>3, SameHas
      <4>6. QED
        BY <4>2, <4>3, <4>4, <4>5
    <3>3. QED
      BY <3>1, <3>2
  <2>2. QED
    BY <2>1 DEF CallsFit
<1>4. \A s \in Threads : s # t => (Quiet(s)' <=> Quiet(s))
  BY <1>1 DEF Quiet
<1>5. \A s \in Threads : HoldsRwl(s)' <=> HoldsRwl(s)
  BY <1>2 DEF HoldsRwl
<1>6. Regions'
  <2>1. ASSUME NEW s \in Threads
        PROVE  /\ call'[s] # "none" => Quiet(s)'
               /\ ~Quiet(s)' => exists'
               /\ ~Quiet(s)' /\ ~HoldsRwl(s)' =>
                    \A r \in Threads : call'[r] = "none" /\ ~HoldsRwl(r)' /\ (r # s => Quiet(r)')
    <3>1. call'[s] # "none" => Quiet(s)'
      BY <1>2, <1>4 DEF CallsOK, Regions
    <3>2. ASSUME ~Quiet(s)', ~HoldsRwl(s)', NEW r \in Threads
          PROVE  call'[r] = "none" /\ ~HoldsRwl(r)' /\ (r # s => Quiet(r)')
      <4>1. CASE s = t
        <5>1. Alone(t)
          BY <1>5, <3>2, <4>1 DEF MayRead
        <5>2. QED
          BY <1>2, <1>4, <1>5, <4>1, <5>1, AloneIs
      <4>2. CASE s # t
        <5>1. ~Quiet(s) /\ ~HoldsRwl(s)
          BY <1>4, <1>5, <3>2, <4>2
        <5>2. ~HoldsRwl(t)
          BY <5>1 DEF CallsOK, Regions
        <5>3. Alone(t)
          BY <5>2 DEF MayRead
        <5>4. QED
          BY <4>2, <5>1, <5>3 DEF Alone
      <4>3. QED
        BY <4>1, <4>2
    <3>3. QED
      BY <1>2, <3>1, <3>2
  <2>2. QED
    BY <2>1 DEF Regions
<1>7. QED
  BY <1>1, <1>2, <1>3, <1>6 DEF CallsOK

(* In particular after an answer. *)
LEMMA Answered ==
  ASSUME LocksInv, CallsOK, NEW t \in Threads, MayRead(t), UNCHANGED lockVars,
         NEW r \in Outcomes, NEW v \in Values \cup {null} \cup Nat, Answer(t, r, v),
         UNCHANGED tableVars \/ MayWrite(t)
  PROVE  CallsOK'
<1>1. <<r, v>> \in Answers
  BY DEF Answers
<1>2. MayWrite(t) => \A s \in Threads : s # t => he[s] = None
  BY WritesAlone
<1> DEFINE h == None
           a == <<r, v>>
<1>3. h \in {None} \cup (Keys \X BOOLEAN) /\ he' = [he EXCEPT ![t] = h]
  BY DEF Answer
<1>4. a \in {None} \cup Answers /\ answer' = [answer EXCEPT ![t] = a]
  BY <1>1 DEF Answer
<1>5. h = None
  OBVIOUS
<1> HIDE DEF h, a
<1>6. QED
  BY <1>2, <1>3, <1>4, <1>5, CallKept

(* The value that is handed out for a key in the map. *)
LEMMA ValueThere ==
  ASSUME DataOK, m_is_operational, NEW k \in Keys, Has(k)
  PROVE  ValueAt(k) \in Values \cup {null} /\ ValueAt(k) = At(table, k).value
         /\ At(table, k) \in EntrySet(table) /\ KeyOf(At(table, k).key) = KeyOf(k)
<1>1. Sound(table)
  BY OpenIs
<1>2. FindHashEntry(table, k) # 0
  BY DEF Has
<1>3. At(table, k) \in EntrySet(table) /\ KeyOf(At(table, k).key) = KeyOf(k)
      /\ At(table, k) \in Entry /\ GetHashValue(table, k) = At(table, k).value
  BY <1>1, <1>2, AtIs
<1>4. QED
  BY <1>3 DEF ValueAt, Entry

(* What the thread found. *)
LEMMA FoundOut ==
  ASSUME CallsOK, NEW t \in Threads, he[t] # None
  PROVE  /\ he[t][1] \in Keys /\ he[t][2] \in BOOLEAN /\ he[t][2] = Has(he[t][1])
         /\ m_is_operational /\ answer[t] = None
BY DEF CallsOK, CallsFit

(* The reading calls keep the invariant, *)
LEMMA ReadKeeps ==
  ASSUME MapInv, NEW t \in Threads, MayRead(t), answer[t] = None, Read(t), UNCHANGED lockVars
  PROVE  DataOK' /\ CallsOK'
<1> USE DEF MapInv
<1>1. UNCHANGED <<tableVars, valueVars>>
  BY DEF Read, Refuse, size, statistics, LookUp, s_find_entry, s_find
<1>2. DataOK'
  BY <1>1, SameData DEF valueVars
<1>3. CASE Refuse(t)
  BY <1>1, <1>2, <1>3, Answered DEF Refuse, Outcomes
<1>4. CASE size(t)
  <2>1. m_n_entries \in Nat
    BY <1>4, OpenIs, TableFacts DEF size, Sound, IsHash
  <2>2. QED
    BY <1>1, <1>2, <1>4, <2>1, Answered DEF size, Outcomes
<1>5. CASE statistics(t)
  BY <1>1, <1>2, <1>5, Answered DEF statistics, Outcomes
<1>6. CASE LookUp(t)
  <2>1. PICK k \in Keys : s_find_entry(t, k)
    BY <1>6 DEF LookUp
  <2> DEFINE h == <<k, Has(k)>>
  <2>2. h \in Keys \X BOOLEAN /\ h[1] = k /\ h[2] = Has(k)
    BY DEF Has
  <2>3. he' = [he EXCEPT ![t] = h]
    BY <2>1 DEF s_find_entry
  <2>4. answer' = [answer EXCEPT ![t] = None]
    BY <2>1 DEF s_find_entry, CallsOK
  <2>5. m_is_operational' /\ m_type' = m_type /\ table' = table
    BY <1>1, <2>1 DEF s_find_entry, tableVars
  <2>6. he'[t] = h
    BY <2>3 DEF CallsOK
  <2> HIDE DEF h
  <2>7. h[2] = Has(he[t][1])'
    <3>1. Has(he[t][1])' = Has(he'[t][1])
      BY <2>5, SameHas
    <3>2. QED
      BY <2>2, <2>6, <3>1
  <2>8. QED
    BY <1>1, <1>2, <2>2, <2>3, <2>4, <2>5, <2>7, CallKept
<1>7. CASE s_find(t)
  <2>1. /\ he[t][1] \in Keys /\ he[t][2] \in BOOLEAN /\ he[t][2] = Has(he[t][1]) /\ m_is_operational
    BY <1>7, FoundOut DEF s_find
  <2>2. CASE he[t][2]
    <3>1. ValueAt(he[t][1]) \in Values \cup {null} /\ Answer(t, "OK", ValueAt(he[t][1]))
      BY <1>7, <2>1, <2>2, ValueThere DEF s_find
    <3>2. QED
      BY <1>1, <1>2, <3>1, Answered DEF Outcomes
  <2>3. CASE ~he[t][2]
    <3>1. Answer(t, "NOT_FOUND", null)
      BY <1>7, <2>3 DEF s_find
    <3>2. QED
      BY <1>1, <1>2, <3>1, Answered DEF Outcomes
  <2>4. QED
    BY <2>1, <2>2, <2>3
<1>8. QED
  BY <1>2, <1>3, <1>4, <1>5, <1>6, <1>7 DEF Read

-----------------------------------------------------------------------------
(* adding does, *)
LEMMA AddKeeps ==
  ASSUME ShiftsSuffice, MapInv, NEW t \in Threads, MayWrite(t), UNCHANGED lockVars,
         NEW v \in Values \cup {null}, NEW allow_overwrite \in BOOLEAN, s_add(t, v, allow_overwrite)
  PROVE  DataOK' /\ CallsOK'
<1> USE DEF MapInv
<1> DEFINE k == he[t][1]
<1>1. k \in Keys /\ he[t][2] \in BOOLEAN /\ he[t][2] = Has(k) /\ m_is_operational
  BY FoundOut DEF s_add
<1>2. MayRead(t)
  BY DEF MayRead, MayWrite, HoldsRwl
<1>3. v \in FreshOnes /\ Allocate(v) /\ UNCHANGED <<m_type, m_is_operational>> /\ freed' \subseteq freed /\ twice' = twice
  BY DEF s_add, Allocate
<1> HIDE DEF k
<1>4. CASE he[t][2]
  <2>1. /\ table' = IF allow_overwrite /\ Has(k) THEN SetHashValue(table, k, v) ELSE table
        /\ Answer(t, IF allow_overwrite THEN "OK" ELSE "ALREADY_EXISTS", ValueAt(k))
        /\ UNCHANGED m_n_entries
    BY <1>4 DEF s_add, k
  <2>2. ValueAt(k) \in Values \cup {null}
    BY <1>1, <1>4, ValueThere
  <2>3. CallsOK'
    BY <1>2, <2>1, <2>2, Answered DEF Outcomes
  <2>4. CASE allow_overwrite
    BY <1>1, <1>3, <1>4, <2>1, <2>3, <2>4, Replaced
  <2>5. CASE ~allow_overwrite
    BY <1>3, <2>1, <2>3, <2>5, SameData DEF tableVars
  <2>6. QED
    BY <2>4, <2>5
<1>5. CASE ~he[t][2] /\ s_create_entry(k, v) /\ Answer(t, "OK", null)
  <2>1. CallsOK'
    BY <1>2, <1>5, Answered DEF Outcomes
  <2>2. DataOK'
    BY <1>1, <1>3, <1>5, Added
  <2>3. QED
    BY <2>1, <2>2
<1>6. CASE UNCHANGED <<table, m_n_entries>> /\ Answer(t, "NO_MEMORY", null)
  <2>1. CallsOK'
    BY <1>2, <1>6, Answered DEF Outcomes
  <2>2. DataOK'
    BY <1>3, <1>6, SameData DEF tableVars
  <2>3. QED
    BY <2>1, <2>2
<1>7. QED
  BY <1>4, <1>5, <1>6 DEF s_add, k

(* deleting does, *)
LEMMA DeleteKeeps ==
  ASSUME MapInv, NEW t \in Threads, MayWrite(t), UNCHANGED lockVars,
         NEW free_value \in BOOLEAN, s_delete(t, free_value)
  PROVE  DataOK' /\ CallsOK'
<1> USE DEF MapInv
<1> DEFINE k == he[t][1]
<1>1. k \in Keys /\ he[t][2] \in BOOLEAN /\ he[t][2] = Has(k) /\ m_is_operational
  BY FoundOut DEF s_delete
<1>2. MayRead(t)
  BY DEF MayRead, MayWrite, HoldsRwl
<1>3. UNCHANGED <<m_type, m_is_operational>>
  BY DEF s_delete
<1> HIDE DEF k
<1>4. CASE he[t][2]
  <2>1. /\ IF free_value THEN FreeUp({ValueAt(k)}) ELSE UNCHANGED valueVars
        /\ table' = DeleteHashEntry(table, k)
        /\ m_n_entries' = m_n_entries - 1 /\ Answer(t, "OK", ValueAt(k))
    BY <1>1, <1>4 DEF s_delete, k
  <2>2. ValueAt(k) \in Values \cup {null}
    BY <1>1, <1>4, ValueThere
  <2>3. CallsOK'
    BY <1>2, <2>1, <2>2, Answered DEF Outcomes
  <2>4. DataOK'
    BY <1>1, <1>3, <1>4, <2>1, Dropped
  <2>5. QED
    BY <2>3, <2>4
<1>5. CASE ~he[t][2]
  <2>1. UNCHANGED <<table, m_n_entries, valueVars>> /\ Answer(t, "OK", null)
    BY <1>5 DEF s_delete
  <2>2. CallsOK'
    BY <1>2, <2>1, Answered DEF Outcomes
  <2>3. DataOK'
    BY <1>3, <2>1, SameData DEF tableVars, valueVars
  <2>4. QED
    BY <2>2, <2>3
<1>6. QED
  BY <1>1, <1>4, <1>5

(* iterating does, *)
LEMMA IterateKeeps ==
  ASSUME MapInv, NEW t \in Threads, MayWrite(t), UNCHANGED lockVars,
         NEW n \in 0 .. Cardinality(Keys), NEW v \in Values \cup {null}, s_iterate(t, n, v)
  PROVE  DataOK' /\ CallsOK'
<1> USE DEF MapInv
<1> DEFINE order == Entries(table)
           seen  == {order[i].key : i \in 1 .. n}
<1>1. MayRead(t)
  BY DEF MayRead, MayWrite, HoldsRwl
<1>2. m_is_operational /\ v \in FreshOnes /\ Allocate(v) /\ UNCHANGED <<m_type, m_n_entries, m_is_operational>>
      /\ n <= Len(order)
  BY DEF s_iterate
<1>3. PICK ks \in SUBSET seen : (v # null => Cardinality(ks) <= 1) /\ table' = SetHashValues(table, ks, v)
  BY DEF s_iterate
<1>4. order \in Seq(Entry)
  BY <1>2, OpenIs, Walk DEF Sound, IsHash
<1> HIDE DEF order
<1>5. seen \subseteq Keys
  <2>1. \A i \in 1 .. n : i \in 1 .. Len(order)
    BY <1>2, <1>4
  <2>2. \A i \in 1 .. Len(order) : order[i] \in Entry
    BY <1>4
  <2>3. QED
    BY <2>1, <2>2 DEF Entry
<1>6. ks \subseteq Keys
  BY <1>5
<1>7. DataOK'
  BY <1>2, <1>3, <1>6, Iterated
<1>8. Answer(t, "ITERATION_HALTED", null) \/ Answer(t, "OK", null)
  BY DEF s_iterate
<1>9. CallsOK'
  BY <1>1, <1>8, Answered DEF Outcomes
<1>10. QED
  BY <1>7, <1>9

(* clear and shutdown do, *)
LEMMA EmptyKeeps ==
  ASSUME ShiftsSuffice, MapInv, NEW t \in Threads, MayWrite(t), UNCHANGED lockVars,
         NEW free_values \in BOOLEAN, clear(t, free_values) \/ shutdown(t, free_values)
  PROVE  DataOK' /\ CallsOK'
<1> USE DEF MapInv
<1>1. MayRead(t)
  BY DEF MayRead, MayWrite, HoldsRwl
<1>2. Answer(t, "OK", null)
  BY DEF clear, shutdown
<1>3. CallsOK'
  BY <1>1, <1>2, Answered DEF Outcomes
<1>4. CASE clear(t, free_values)
  BY <1>3, <1>4, Cleared DEF clear
<1>5. CASE shutdown(t, free_values)
  BY <1>3, <1>5, ShutDown DEF shutdown
<1>6. QED
  BY <1>4, <1>5

(* and so do all calls under the write lock. *)
LEMMA WriteKeeps ==
  ASSUME ShiftsSuffice, MapInv, NEW t \in Threads, MayWrite(t), answer[t] = None, Write(t), UNCHANGED lockVars
  PROVE  DataOK' /\ CallsOK'
<1>1. MayRead(t)
  BY DEF MayRead, MayWrite, HoldsRwl
<1>2. CASE Refuse(t) \/ LookUp(t)
  BY <1>1, <1>2, ReadKeeps DEF Read
<1>3. CASE \E v \in Values \cup {null}, allow_overwrite \in BOOLEAN : s_add(t, v, allow_overwrite)
  BY <1>3, AddKeeps
<1>4. CASE \E free_value \in BOOLEAN : s_delete(t, free_value)
  BY <1>4, DeleteKeeps
<1>5. CASE \E n \in 0 .. Cardinality(Keys), v \in Values \cup {null} : s_iterate(t, n, v)
  BY <1>5, IterateKeeps
<1>6. CASE \E free_values \in BOOLEAN : clear(t, free_values) \/ shutdown(t, free_values)
  BY <1>6, EmptyKeeps
<1>7. QED
  BY <1>2, <1>3, <1>4, <1>5, <1>6 DEF Write
-----------------------------------------------------------------------------
(* the steps around them *)

(* A step of the map is a step of its lock, or leaves it alone. *)
LEMMA IsLockStep ==
  ASSUME LocksInv, NEW t \in Threads, MapStep(t)
  PROVE  LocksInv'
<1>1. CASE UNCHANGED lockVars
  BY <1>1, NextLocksInv DEF lockVars, vars
<1>2. CASE Step(t)
  BY <1>2, NextLocksInv DEF Next
<1>3. CASE Call(t)
  <2>1. \E c \in Plain \cup Critical : Begin(t, c)
    BY <1>3 DEF Call, Critical
  <2>2. QED
    BY <1>2, <2>1 DEF Step
<1>4. CASE Enter(t)
  BY <1>2, <1>4 DEF Enter, Step, RwlockStep
<1>5. CASE Leave(t)
  BY <1>2, <1>5 DEF Leave, Step, RwlockStep
<1>6. CASE destroy(t) \/ create(t) \/ atfork_child(t)
  BY <1>2, <1>6 DEF destroy, create, atfork_child, Step
<1>7. CASE Work(t) \/ NoLock(t) \/ NoLockReturns(t)
  BY <1>1, <1>7 DEF Work, NoLock, NoLockReturns
<1>8. QED
  BY <1>3, <1>4, <1>5, <1>6, <1>7 DEF MapStep

(* Threads come and go while the map and the calls stay as they are. *)
LEMMA CallsStay ==
  ASSUME CallsOK, UNCHANGED <<he, m_type, table, m_is_operational>>,
         answer' \in [Threads -> {None} \cup Answers], \A s \in Threads : he[s] # None => answer'[s] = None,
         Regions', ~exists' => ~m_is_operational
  PROVE  CallsOK'
<1>1. ASSUME NEW s \in Threads
      PROVE  (he[s] # None => answer[s] = None /\ m_is_operational /\ he[s][2] = Has(he[s][1]))'
  <2>1. Has(he[s][1])' = Has(he'[s][1])
    BY SameHas
  <2>2. QED
    BY <2>1 DEF CallsOK, CallsFit
<1>2. CallsFit'
  BY <1>1 DEF CallsFit
<1>3. QED
  BY <1>2 DEF CallsOK

(* Asking for the lock keeps the invariant, *)
LEMMA CallKeeps ==
  ASSUME MapInv, NEW t \in Threads, Call(t)
  PROVE  DataOK' /\ CallsOK'
<1> USE DEF MapInv
<1>1. /\ UNCHANGED mapVars /\ Quiet(t) /\ ~NoLockRuns
      /\ \E c \in Critical : call' = [call EXCEPT ![t] = c]
      /\ exists' = exists /\ m_rwl' = m_rwl /\ writer' = writer /\ exists
  BY DEF Call, Begin, Idle, Critical, useVars, rwlVars
<1>2. \A s \in Threads : s # t => call'[s] = call[s]
  BY <1>1 DEF LocksInv, LocksTypeOK
<1>3. UNCHANGED <<he, answer, m_type, table, m_is_operational>>
  BY <1>1 DEF mapVars, tableVars, callVars
<1>4. \A s \in Threads : (Quiet(s)' <=> Quiet(s)) /\ (HoldsRwl(s)' <=> HoldsRwl(s))
  BY <1>1, <1>3 DEF Quiet, HoldsRwl
<1>5. Regions'
  BY <1>1, <1>2, <1>4 DEF CallsOK, Regions, NoLockRuns
<1>6. CallsOK'
  BY <1>1, <1>3, <1>5, CallsStay DEF CallsOK, CallsFit
<1>7. DataOK'
  BY <1>1, SameData DEF mapVars, valueVars
<1>8. QED
  BY <1>6, <1>7

(* getting it does, *)
LEMMA EnterKeeps ==
  ASSUME MapInv, NEW t \in Threads, Enter(t)
  PROVE  DataOK' /\ CallsOK'
<1> USE DEF MapInv
<1>1. /\ UNCHANGED mapVars /\ call[t] # "none" /\ call' = [call EXCEPT ![t] = "none"]
      /\ exists' = exists
      /\ \/ m_rwl' = m_rwl \cup {t} /\ writer' = writer
         \/ m_rwl' = m_rwl /\ writer = NoOne /\ writer' = t
  BY DEF Enter, rwlock_reader_enter_critical, rwlock_writer_enter_critical, TakeReader, TakeWriter, Done,
         useVars
<1>2. \A s \in Threads : s # t => call'[s] = call[s]
  BY <1>1 DEF LocksInv, LocksTypeOK
<1>3. UNCHANGED <<he, answer, m_type, table, m_is_operational>>
  BY <1>1 DEF mapVars, tableVars, callVars
<1>4. \A s \in Threads : (Quiet(s)' <=> Quiet(s)) /\ (s # t => (HoldsRwl(s)' <=> HoldsRwl(s)))
  BY <1>1, <1>3, LocksAssumption DEF Quiet, HoldsRwl
<1>5. call'[t] = "none" /\ Quiet(t) /\ \A s \in Threads : Quiet(s) \/ HoldsRwl(s)
  BY <1>1 DEF LocksInv, LocksTypeOK, CallsOK, Regions
<1>6. Regions'
  <2>1. \A s \in Threads : Quiet(s)' \/ HoldsRwl(s)'
    BY <1>4, <1>5
  <2>2. \A s \in Threads : call'[s] # "none" => Quiet(s)'
    BY <1>2, <1>4, <1>5 DEF CallsOK, Regions
  <2>3. QED
    BY <1>1, <1>4, <2>1, <2>2 DEF CallsOK, Regions
<1>7. CallsOK'
  BY <1>1, <1>3, <1>6, CallsStay DEF CallsOK, CallsFit
<1>8. DataOK'
  BY <1>1, SameData DEF mapVars, valueVars
<1>9. QED
  BY <1>7, <1>8

-----------------------------------------------------------------------------
(* leaving it with the answer does, *)
LEMMA LeaveKeeps ==
  ASSUME MapInv, NEW t \in Threads, Leave(t)
  PROVE  DataOK' /\ CallsOK'
<1> USE DEF MapInv
<1>1. /\ answer[t] # None /\ HoldsRwl(t) /\ answer' = [answer EXCEPT ![t] = None]
      /\ UNCHANGED <<tableVars, valueVars, he>>
      /\ call' = call /\ call[t] = "none" /\ exists' = exists /\ exists
      /\ m_rwl' = m_rwl \ {t} /\ writer' = IF writer = t THEN NoOne ELSE writer
  BY DEF Leave, rwlock_leave_critical, Idle, ReleaseRwl, Restore, useVars
<1>2. /\ answer' \in [Threads -> {None} \cup Answers] /\ answer'[t] = None /\ he[t] = None
      /\ \A s \in Threads : s # t => answer'[s] = answer[s]
  BY <1>1 DEF CallsOK, CallsFit
<1>3. \A s \in Threads : he[s] # None => answer'[s] = None
  BY <1>2 DEF CallsOK, CallsFit
<1>4. /\ Quiet(t)' /\ \A s \in Threads : s # t => (Quiet(s)' <=> Quiet(s)) /\ (HoldsRwl(s)' <=> HoldsRwl(s))
  BY <1>1, <1>2, LocksAssumption DEF Quiet, HoldsRwl
<1>5. \A s \in Threads : Quiet(s) \/ HoldsRwl(s)
  BY <1>1 DEF CallsOK, Regions
<1>6. Regions'
  <2>1. \A s \in Threads : Quiet(s)' \/ HoldsRwl(s)'
    BY <1>4, <1>5
  <2>2. \A s \in Threads : call'[s] # "none" => Quiet(s)'
    BY <1>1, <1>4 DEF CallsOK, Regions
  <2>3. QED
    BY <1>1, <2>1, <2>2 DEF Regions
<1>7. CallsOK'
  BY <1>1, <1>2, <1>3, <1>6, CallsStay DEF tableVars
<1>8. DataOK'
  BY <1>1, SameData DEF valueVars
<1>9. QED
  BY <1>7, <1>8

(* and so do the return of a function without lock, *)
LEMMA ReturnKeeps ==
  ASSUME MapInv, NEW t \in Threads, NoLockReturns(t)
  PROVE  DataOK' /\ CallsOK'
<1> USE DEF MapInv
<1>1. /\ answer[t] # None /\ ~HoldsRwl(t) /\ answer' = [answer EXCEPT ![t] = None]
      /\ UNCHANGED <<tableVars, valueVars, he>> /\ UNCHANGED lockVars
  BY DEF NoLockReturns
<1>2. /\ answer' \in [Threads -> {None} \cup Answers] /\ answer'[t] = None /\ he[t] = None
      /\ \A s \in Threads : s # t => answer'[s] = answer[s]
  BY <1>1 DEF CallsOK, CallsFit
<1>3. \A s \in Threads : he[s] # None => answer'[s] = None
  BY <1>2 DEF CallsOK, CallsFit
<1>4. call' = call /\ exists' = exists /\ \A s \in Threads : HoldsRwl(s)' <=> HoldsRwl(s)
  BY <1>1 DEF HoldsRwl, lockVars, threadVars, useVars, rwlVars
<1>5. ~Quiet(t) /\ Quiet(t)' /\ \A s \in Threads : s # t => (Quiet(s)' <=> Quiet(s))
  BY <1>1, <1>2 DEF Quiet
<1>6. \A s \in Threads : call[s] = "none" /\ (s # t => Quiet(s)) /\ exists
  BY <1>1, <1>5 DEF CallsOK, Regions
<1>7. Regions'
  BY <1>4, <1>5, <1>6 DEF Regions
<1>8. CallsOK'
  BY <1>1, <1>2, <1>3, <1>4, <1>6, <1>7, CallsStay DEF tableVars
<1>9. DataOK'
  BY <1>1, SameData DEF valueVars
<1>10. QED
  BY <1>8, <1>9

(* Nobody is in a call. *)
LEMMA AllQuiet ==
  ASSUME he' \in [Threads -> {None} \cup (Keys \X BOOLEAN)], answer' \in [Threads -> {None} \cup Answers],
         \A s \in Threads : Quiet(s)', ~exists' => ~m_is_operational'
  PROVE  CallsOK'
<1>1. Regions'
  BY DEF Regions
<1>2. CallsFit'
  BY DEF CallsFit, Quiet
<1>3. QED
  BY <1>1, <1>2 DEF CallsOK

(* a fork, *)
LEMMA ForkStays ==
  ASSUME MapInv, NEW t \in Threads, atfork_child(t)
  PROVE  DataOK' /\ CallsOK'
<1> USE DEF MapInv
<1>1. UNCHANGED mapVars /\ exists' = exists /\ exists /\ \A s \in Threads : Quiet(s)
  BY DEF atfork_child, Alone, Idle, Fork, useVars
<1>2. UNCHANGED <<tableVars, valueVars, he, answer>>
  BY <1>1 DEF mapVars, callVars
<1>3. \A s \in Threads : Quiet(s)'
  BY <1>1, <1>2 DEF Quiet
<1>4. CallsOK'
  BY <1>1, <1>2, <1>3, AllQuiet DEF CallsOK
<1>5. DataOK'
  BY <1>2, SameData DEF valueVars
<1>6. QED
  BY <1>4, <1>5

(* destruction *)
LEMMA DestroyStays ==
  ASSUME MapInv, NEW t \in Threads, destroy(t)
  PROVE  DataOK' /\ CallsOK'
<1> USE DEF MapInv
<1>1. /\ UNCHANGED callVars /\ exists' = FALSE /\ \A s \in Threads : Quiet(s)
      /\ table' = Deleted /\ m_is_operational' = FALSE /\ m_type' = m_type
  BY DEF destroy, Alone, Destroy
<1>2. \A s \in Threads : Quiet(s)'
  BY <1>1 DEF Quiet, callVars
<1>3. CallsOK'
  BY <1>1, <1>2, AllQuiet DEF CallsOK, callVars
<1>4. CASE m_is_operational
  BY <1>1, <1>3, <1>4, ShutDown DEF destroy
<1>5. CASE ~m_is_operational
  <2>1. m_n_entries' = m_n_entries /\ UNCHANGED valueVars
    BY <1>5 DEF destroy
  <2>2. m_n_entries' = 0 /\ freed' \subseteq Values /\ m_type' \in Types
    BY <1>1, <1>5, <2>1 DEF DataOK, TableOK, valueVars
  <2>3. twice' = FALSE
    BY <2>1 DEF DataOK, FreedOnce, valueVars
  <2>4. DataOK'
    BY <1>1, <2>2, <2>3, ClosedData
  <2>5. QED
    BY <1>3, <2>4
<1>6. QED
  BY <1>4, <1>5

(* and creation. *)
LEMMA CreateStays ==
  ASSUME ShiftsSuffice, MapInv, NEW t \in Threads, create(t)
  PROVE  DataOK' /\ CallsOK'
<1> USE DEF MapInv
<1>1. /\ UNCHANGED <<valueVars, callVars>> /\ ~exists /\ exists' = TRUE
      /\ m_type' \in Types /\ table' = InitHashTable /\ m_n_entries' = 0 /\ m_is_operational' = TRUE
  BY DEF create, Create, New
<1>2. \A s \in Threads : Quiet(s) /\ Quiet(s)'
  BY <1>1 DEF CallsOK, Regions, Quiet, callVars
<1>3. CallsOK'
  BY <1>1, <1>2, AllQuiet DEF CallsOK, callVars
<1>4. twice' = FALSE /\ freed' \subseteq Values
  BY <1>1 DEF DataOK, FreedOnce, valueVars
<1>5. DataOK'
  BY <1>1, <1>4, NewMap
<1>6. QED
  BY <1>3, <1>5

(* Every step of a thread keeps the invariant. *)
LEMMA MapStepKeeps ==
  ASSUME ShiftsSuffice, MapInv, NEW t \in Threads, MapStep(t)
  PROVE  MapInv'
<1>1. LocksInv'
  BY IsLockStep DEF MapInv
<1>2. CASE Work(t)
  <2>1. Idle(t) /\ answer[t] = None /\ UNCHANGED lockVars
    BY <1>2 DEF Work
  <2>2. CASE t \in m_rwl /\ Read(t)
    BY <1>1, <2>1, <2>2, ReadKeeps DEF MapInv, MayRead, HoldsRwl
  <2>3. CASE writer = t /\ Write(t)
    BY <1>1, <2>1, <2>3, WriteKeeps DEF MapInv, MayWrite
  <2>4. QED
    BY <1>2, <2>2, <2>3 DEF Work
<1>3. CASE NoLock(t)
  <2>1. Alone(t) /\ Idle(t) /\ answer[t] = None /\ UNCHANGED lockVars /\ (Read(t) \/ Write(t))
    BY <1>3 DEF NoLock, Alone
  <2>2. MayRead(t) /\ MayWrite(t)
    BY <2>1 DEF MayRead, MayWrite
  <2>3. DataOK' /\ CallsOK'
    BY <2>1, <2>2, ReadKeeps, WriteKeeps
  <2>4. QED
    BY <1>1, <2>3 DEF MapInv
<1>4. DataOK' /\ CallsOK' => MapInv'
  BY <1>1 DEF MapInv
<1>5. CASE Call(t) \/ Enter(t) \/ Leave(t) \/ NoLockReturns(t)
  BY <1>4, <1>5, CallKeeps, EnterKeeps, LeaveKeeps, ReturnKeeps
<1>6. CASE destroy(t) \/ create(t) \/ atfork_child(t)
  BY <1>4, <1>6, DestroyStays, CreateStays, ForkStays
<1>7. QED
  BY <1>2, <1>3, <1>5, <1>6 DEF MapStep

(* The invariant holds at the start. *)
LEMMA MapInitHolds ==
  ASSUME ShiftsSuffice, MapInit
  PROVE  MapInv
<1>1. LocksInv
  BY InitLocksInv DEF MapInit
<1>2. Sound(table) /\ EntrySet(table) = {} /\ table.numEntries = 0
  BY NewTable DEF MapInit
<1>3. DataOK
  BY <1>2 DEF MapInit, DataOK, TableOK, OnceIn, FreedOnce, InMap
<1>4. \A s \in Threads : he[s] = None /\ answer[s] = None
  BY DEF MapInit
<1>5. CallsOK
  BY <1>4 DEF CallsOK, CallsFit, Regions, Quiet, MapInit, Init
<1>6. QED
  BY <1>1, <1>3, <1>5 DEF MapInv

(* No step or stutter breaks it. *)
LEMMA MapNextKeeps ==
  ASSUME ShiftsSuffice, MapInv, [MapNext]_<<lockVars, mapVars>>
  PROVE  MapInv'
<1>1. CASE MapNext
  BY <1>1, MapStepKeeps DEF MapNext
<1>2. CASE UNCHANGED <<lockVars, mapVars>>
  <2>1. LocksInv'
    BY <1>2, NextLocksInv DEF MapInv, lockVars, vars
  <2>2. UNCHANGED <<tableVars, valueVars, he, answer>> /\ call' = call /\ exists' = exists
        /\ m_rwl' = m_rwl /\ writer' = writer
    BY <1>2 DEF mapVars, callVars, lockVars, threadVars, useVars, rwlVars
  <2>3. DataOK'
    BY <2>2, SameData DEF MapInv, valueVars
  <2>4. \A s \in Threads : (Quiet(s)' <=> Quiet(s)) /\ (HoldsRwl(s)' <=> HoldsRwl(s))
    BY <2>2 DEF Quiet, HoldsRwl
  <2>5. Regions'
    BY <2>2, <2>4 DEF MapInv, CallsOK, Regions
  <2>6. CallsOK'
    BY <2>2, <2>5, CallsStay DEF MapInv, CallsOK, CallsFit, tableVars
  <2>7. QED
    BY <2>1, <2>3, <2>6 DEF MapInv
<1>3. QED
  BY <1>1, <1>2

(* The inductive invariant of the hash map holds in every state, if the table never grows
   beyond the bits it is indexed with. *)
THEOREM MapInvariant ==
  ASSUME ShiftsSuffice
  PROVE  MapSpec => []MapInv
BY MapInitHolds, MapNextKeeps, PTL DEF MapSpec

(* It has the type invariant in it. *)
LEMMA InvIsType == MapInv => HashMapTypeOK
<1> SUFFICES ASSUME MapInv PROVE HashMapTypeOK
  OBVIOUS
<1>1. m_n_entries \in 0 .. Cardinality(Keys) /\ EntrySet(table) \subseteq Entry
  <2>1. CASE m_is_operational
    BY <2>1, OpenIs, AtMostTheKeys DEF MapInv, Sound
  <2>2. CASE ~m_is_operational
    <3>1. Cardinality(Keys) \in Nat
      BY HashAssumption, FS_CardinalityType
    <3>2. QED
      BY <2>2, <3>1, NoEntries DEF MapInv, DataOK, TableOK
  <2>3. QED
    BY <2>1, <2>2
<1>2. \A e \in EntrySet(table) : e.key \in Keys /\ e.value \in Values \cup {null}
  BY <1>1 DEF Entry
<1>3. LocksTypeOK
  BY DEF MapInv, LocksInv
<1>4. QED
  BY <1>1, <1>2, <1>3 DEF HashMapTypeOK, MapInv, DataOK, CallsOK

(* An entry is found at its own place. *)
LEMMA FirstFound ==
  ASSUME NEW t, IsHash(t), NEW i \in DOMAIN t.buckets, NEW j \in DOMAIN t.buckets[i]
  PROVE  IndexOf(t, t.buckets[i][j].key) = i /\ FindHashEntry(t, t.buckets[i][j].key) = j
<1> DEFINE k == t.buckets[i][j].key
<1>1. IsTable(t) /\ Placed(t) /\ Apart(t)
  BY DEF IsHash
<1>2. i \in Places(t) /\ j \in 1 .. Len(t.buckets[i]) /\ t.buckets[i][j] \in Entry
  BY <1>1, TableFacts
<1>3. k \in Keys /\ IndexOf(t, k) = i /\ Chain(t, k) = t.buckets[i]
  BY <1>1, <1>2 DEF Entry, Placed, Chain
<1> DEFINE l == FindHashEntry(t, k)
<1>4. l \in 1 .. Len(t.buckets[i]) /\ KeyOf(t.buckets[i][l].key) = KeyOf(k)
  BY <1>1, <1>2, <1>3, Found
<1>5. l = j
  BY <1>1, <1>2, <1>4 DEF Apart, Same
<1>6. QED
  BY <1>3, <1>5

(* A sound table is well-formed. *)
LEMMA InvIsWellFormed == MapInv => TableIsWellFormed
<1> SUFFICES ASSUME MapInv PROVE TableIsWellFormed
  OBVIOUS
<1>1. CASE m_is_operational
  <2>1. Sound(table) /\ IsHash(table) /\ m_n_entries = table.numEntries
    BY <1>1, OpenIs DEF MapInv, Sound
  <2>2. \A i \in DOMAIN table.buckets : \A j \in DOMAIN table.buckets[i] :
          /\ IndexOf(table, table.buckets[i][j].key) = i
          /\ FindHashEntry(table, table.buckets[i][j].key) = j
    BY <2>1, FirstFound
  <2>3. QED
    BY <2>1, <2>2 DEF TableIsWellFormed, Sound, IsHash, Counted
<1>2. CASE ~m_is_operational
  <2>1. table = Deleted /\ m_n_entries = 0
    BY <1>2 DEF MapInv, DataOK, TableOK
  <2>2. EntrySet(table) = {} /\ DOMAIN table.buckets = {} /\ table.numEntries = 0
    BY <2>1, NoEntries
  <2>3. QED
    BY <1>2, <2>1, <2>2, FS_EmptySet DEF TableIsWellFormed
<1>3. QED
  BY <1>1, <1>2

(* Every variable of the hash map keeps to its values, in particular every call gets one of
   the results the manual lists. *)
THEOREM MapTypeCorrect ==
  ASSUME ShiftsSuffice
  PROVE  MapSpec => []HashMapTypeOK
BY MapInvariant, InvIsType, PTL

(* For any keys, hash function, key type and number of threads: every entry is in its bucket
   and found there, no key has two, and the counters are right, however often the table
   grows. *)
THEOREM TablesAreWellFormed ==
  ASSUME ShiftsSuffice
  PROVE  MapSpec => []TableIsWellFormed
BY MapInvariant, InvIsWellFormed, PTL

(* No value is freed twice, and none that was freed is still in the map, whatever the calls. *)
THEOREM ValuesAreFreedOnce ==
  ASSUME ShiftsSuffice
  PROVE  MapSpec => []FreedOnce
<1>1. MapInv => FreedOnce
  BY DEF MapInv, DataOK
<1>2. QED
  BY <1>1, MapInvariant, PTL

-----------------------------------------------------------------------------
\* what a set of entries stands for
Image(E) == [c \in {KeyOf(e.key) : e \in E} |-> (CHOOSE e \in E : KeyOf(e.key) = c).value]

\* no key has two entries
Distinct(E) == \A e, f \in E : KeyOf(e.key) = KeyOf(f.key) => e = f

(* The image of an entry's key is its value. *)
LEMMA ImageAt ==
  ASSUME NEW E, Distinct(E), NEW e \in E
  PROVE  KeyOf(e.key) \in DOMAIN Image(E) /\ Image(E)[KeyOf(e.key)] = e.value
<1> DEFINE c == KeyOf(e.key)
           d == CHOOSE f \in E : KeyOf(f.key) = c
<1>1. c \in {KeyOf(f.key) : f \in E}
  OBVIOUS
<1>2. d \in E /\ KeyOf(d.key) = c
  OBVIOUS
<1>3. d = e
  BY <1>2 DEF Distinct
<1>4. Image(E)[c] = d.value /\ c \in DOMAIN Image(E)
  BY <1>1 DEF Image
<1>5. QED
  BY <1>3, <1>4

(* Every key of the image is that of an entry. *)
LEMMA ImageFrom ==
  ASSUME NEW E, NEW c \in DOMAIN Image(E)
  PROVE  \E e \in E : KeyOf(e.key) = c
BY DEF Image

(* The image is the one function that fits the entries. *)
LEMMA ImageIs ==
  ASSUME NEW E, Distinct(E), NEW f, f = [c \in DOMAIN f |-> f[c]],
         \A e \in E : KeyOf(e.key) \in DOMAIN f /\ f[KeyOf(e.key)] = e.value,
         \A c \in DOMAIN f : \E e \in E : KeyOf(e.key) = c
  PROVE  Image(E) = f
<1> DEFINE g == Image(E)
<1>1. g = [c \in DOMAIN g |-> g[c]]
  BY DEF Image
<1>2. DOMAIN g = DOMAIN f
  <2>1. ASSUME NEW c \in DOMAIN g PROVE c \in DOMAIN f
    <3>1. PICK e \in E : KeyOf(e.key) = c
      BY ImageFrom
    <3>2. QED
      BY <3>1
  <2>2. ASSUME NEW c \in DOMAIN f PROVE c \in DOMAIN g
    <3>1. PICK e \in E : KeyOf(e.key) = c
      OBVIOUS
    <3>2. KeyOf(e.key) \in DOMAIN Image(E)
      BY ImageAt
    <3>3. QED
      BY <3>1, <3>2
  <2> HIDE DEF g
  <2>3. QED
    BY <2>1, <2>2
<1>3. \A c \in DOMAIN f : g[c] = f[c]
  BY ImageAt
<1> HIDE DEF g
<1>4. g = f
  BY <1>1, <1>2, <1>3
<1>5. QED
  BY <1>4 DEF g

(* No entries, no keys. *)
LEMMA ImageEmpty == Image({}) = <<>>
<1>1. Distinct({}) /\ DOMAIN <<>> = {} /\ <<>> = [c \in DOMAIN <<>> |-> <<>>[c]]
  BY DEF Distinct
<1>2. QED
  BY <1>1, ImageIs

(* The contents of the map are the image of its entries. *)
LEMMA ContentsIs ==
  contents = Image(EntrySet(table)) /\ (m_type' = m_type => contents' = Image(EntrySet(table')))
<1>1. contents = Image(EntrySet(table))
  BY DEF contents, Image
<1>2. ASSUME m_type' = m_type
      PROVE  contents' = Image(EntrySet(table'))
  <2>1. EntrySet(table)' = EntrySet(table')
    BY DEF EntrySet
  <2>2. \A k : KeyOf(k)' = KeyOf(k)
    BY <1>2 DEF KeyOf, KeyLen
  <2>3. QED
    BY <1>2, <2>1 DEF contents, Image, KeyOf, KeyLen
<1>3. QED
  BY <1>1, <1>2

(* One more entry, *)
LEMMA ImageAdds ==
  ASSUME NEW E, Distinct(E), NEW r, KeyOf(r.key) \notin DOMAIN Image(E)
  PROVE  Image(E \cup {r}) = [d \in DOMAIN Image(E) \cup {KeyOf(r.key)} |->
                                IF d = KeyOf(r.key) THEN r.value ELSE Image(E)[d]]
<1> DEFINE c == KeyOf(r.key)
           f == [d \in DOMAIN Image(E) \cup {c} |-> IF d = c THEN r.value ELSE Image(E)[d]]
<1>1. \A e \in E : KeyOf(e.key) \in DOMAIN Image(E) /\ KeyOf(e.key) # c /\ Image(E)[KeyOf(e.key)] = e.value
  BY ImageAt
<1>2. Distinct(E \cup {r})
  BY <1>1 DEF Distinct
<1>3. \A e \in E \cup {r} : KeyOf(e.key) \in DOMAIN f /\ f[KeyOf(e.key)] = e.value
  BY <1>1
<1>4. \A d \in DOMAIN f : \E e \in E \cup {r} : KeyOf(e.key) = d
  BY ImageFrom
<1>5. f = [d \in DOMAIN f |-> f[d]]
  OBVIOUS
<1> HIDE DEF f
<1>6. Image(E \cup {r}) = f
  BY <1>2, <1>3, <1>4, <1>5, ImageIs
<1>7. QED
  BY <1>6 DEF f

(* one with another value, *)
LEMMA ImageReplaces ==
  ASSUME NEW E, Distinct(E), NEW a \in E, NEW r, KeyOf(r.key) = KeyOf(a.key)
  PROVE  Image((E \ {a}) \cup {r}) = [Image(E) EXCEPT ![KeyOf(a.key)] = r.value]
<1> DEFINE c == KeyOf(a.key)
           F == (E \ {a}) \cup {r}
           f == [Image(E) EXCEPT ![c] = r.value]
<1>1. \A e \in E : /\ KeyOf(e.key) \in DOMAIN Image(E) /\ Image(E)[KeyOf(e.key)] = e.value
                   /\ e # a => KeyOf(e.key) # c
  BY ImageAt DEF Distinct
<1>2. Distinct(F)
  BY <1>1 DEF Distinct
<1>3. DOMAIN f = DOMAIN Image(E) /\ f = [d \in DOMAIN f |-> f[d]]
      /\ \A d \in DOMAIN Image(E) : f[d] = IF d = c THEN r.value ELSE Image(E)[d]
  <2> DEFINE g == Image(E)
  <2>1. g = [d \in DOMAIN g |-> g[d]]
    BY DEF Image
  <2> HIDE DEF g, c
  <2> DEFINE h == [g EXCEPT ![c] = r.value]
  <2>2. h = [d \in DOMAIN g |-> IF d = c THEN r.value ELSE g[d]]
    BY <2>1
  <2>3. /\ DOMAIN h = DOMAIN g /\ h = [d \in DOMAIN h |-> h[d]]
        /\ \A d \in DOMAIN g : h[d] = IF d = c THEN r.value ELSE g[d]
    <3>1. DOMAIN h = DOMAIN g /\ \A d \in DOMAIN g : h[d] = IF d = c THEN r.value ELSE g[d]
      BY <2>2
    <3>2. h = [d \in DOMAIN h |-> h[d]]
      BY <2>2, <3>1
    <3>3. QED
      BY <3>1, <3>2
  <2>4. QED
    BY <2>3 DEF g
<1> HIDE DEF f, c
<1>4. KeyOf(r.key) = c /\ KeyOf(a.key) = c
  BY DEF c
<1>5. \A e \in F : KeyOf(e.key) \in DOMAIN f /\ f[KeyOf(e.key)] = e.value
  BY <1>1, <1>3, <1>4
<1>6. ASSUME NEW d \in DOMAIN f
      PROVE  \E e \in F : KeyOf(e.key) = d
  <2>1. PICK e \in E : KeyOf(e.key) = d
    BY <1>3, ImageFrom
  <2>2. QED
    BY <1>4, <2>1
<1> HIDE DEF F
<1>7. Image(F) = f
  BY <1>2, <1>3, <1>5, <1>6, ImageIs
<1>8. QED
  BY <1>7 DEF f, c, F

(* one less, *)
LEMMA ImageDrops ==
  ASSUME NEW E, Distinct(E), NEW a \in E
  PROVE  Image(E \ {a}) = [d \in DOMAIN Image(E) \ {KeyOf(a.key)} |-> Image(E)[d]]
<1> DEFINE c == KeyOf(a.key)
           F == E \ {a}
           f == [d \in DOMAIN Image(E) \ {c} |-> Image(E)[d]]
<1>1. \A e \in E : /\ KeyOf(e.key) \in DOMAIN Image(E) /\ Image(E)[KeyOf(e.key)] = e.value
                   /\ e # a => KeyOf(e.key) # c
  BY ImageAt DEF Distinct
<1>2. Distinct(F)
  BY DEF Distinct
<1>3. DOMAIN f = DOMAIN Image(E) \ {c} /\ f = [d \in DOMAIN f |-> f[d]] /\ \A d \in DOMAIN f : f[d] = Image(E)[d]
  OBVIOUS
<1> HIDE DEF f
<1>4. \A e \in F : KeyOf(e.key) \in DOMAIN f /\ f[KeyOf(e.key)] = e.value
  BY <1>1, <1>3
<1>5. ASSUME NEW d \in DOMAIN f
      PROVE  \E e \in F : KeyOf(e.key) = d
  <2>1. PICK e \in E : KeyOf(e.key) = d
    BY <1>3, ImageFrom
  <2>2. QED
    BY <1>3, <2>1
<1> HIDE DEF F
<1>6. Image(F) = f
  BY <1>2, <1>3, <1>4, <1>5, ImageIs
<1>7. QED
  BY <1>6 DEF f, F

(* several with the same new value, *)
LEMMA ImageRevises ==
  ASSUME NEW E, Distinct(E), NEW ks, NEW v, E \subseteq Entry, NEW F,
         \A e : e \in F <=> \E f \in E : e = Revised(f, ks, v),
         NEW ds, \A d : d \in ds <=> \E e \in E : KeyOf(e.key) = d /\ e.key \in ks
  PROVE  Image(F) = [d \in DOMAIN Image(E) |-> IF d \in ds THEN v ELSE Image(E)[d]]
<1> DEFINE f == [d \in DOMAIN Image(E) |-> IF d \in ds THEN v ELSE Image(E)[d]]
<1>1. \A e \in E : /\ Revised(e, ks, v).key = e.key
                   /\ Revised(e, ks, v).value = IF e.key \in ks THEN v ELSE e.value
  BY RevisedIs
<1>2. \A e \in E : KeyOf(e.key) \in DOMAIN Image(E) /\ Image(E)[KeyOf(e.key)] = e.value
  BY ImageAt
<1>3. \A e \in E : KeyOf(e.key) \in ds <=> e.key \in ks
  BY DEF Distinct
<1>4. Distinct(F)
  <2>1. \A g, h \in E : KeyOf(Revised(g, ks, v).key) = KeyOf(Revised(h, ks, v).key) => Revised(g, ks, v) = Revised(h, ks, v)
    BY <1>1 DEF Distinct
  <2>2. QED
    BY <2>1 DEF Distinct
<1>5. DOMAIN f = DOMAIN Image(E) /\ f = [d \in DOMAIN f |-> f[d]]
      /\ \A d \in DOMAIN f : f[d] = IF d \in ds THEN v ELSE Image(E)[d]
  OBVIOUS
<1> HIDE DEF f
<1>6. ASSUME NEW e \in F
      PROVE  KeyOf(e.key) \in DOMAIN f /\ f[KeyOf(e.key)] = e.value
  <2>1. PICK g \in E : e = Revised(g, ks, v)
    OBVIOUS
  <2>2. QED
    BY <1>1, <1>2, <1>3, <1>5, <2>1
<1>7. ASSUME NEW d \in DOMAIN f
      PROVE  \E e \in F : KeyOf(e.key) = d
  <2>1. PICK g \in E : KeyOf(g.key) = d
    BY <1>5, ImageFrom
  <2>2. Revised(g, ks, v) \in F /\ KeyOf(Revised(g, ks, v).key) = d
    BY <1>1, <2>1
  <2>3. QED
    BY <2>2
<1>8. Image(F) = f
  BY <1>4, <1>5, <1>6, <1>7, ImageIs
<1>9. QED
  BY <1>8 DEF f

(* all values *)
LEMMA ImageRange ==
  ASSUME NEW E, Distinct(E)
  PROVE  {Image(E)[c] : c \in DOMAIN Image(E)} = ValuesOf(E)
BY ImageAt, ImageFrom DEF ValuesOf

(* and their number. *)
LEMMA ImageSize ==
  ASSUME NEW E, Distinct(E), IsFiniteSet(E)
  PROVE  Cardinality(DOMAIN Image(E)) = Cardinality(E)
<1> DEFINE f == [e \in E |-> KeyOf(e.key)]
           D == DOMAIN Image(E)
<1>1. f \in [E -> D]
  BY ImageAt
<1>2. \A e, g \in E : f[e] = f[g] => e = g
  BY DEF Distinct
<1>3. \A d \in D : \E e \in E : f[e] = d
  BY ImageFrom
<1> HIDE DEF f, D
<1>4. f \in Bijection(E, D)
  BY <1>1, <1>2, <1>3 DEF Bijection, Injection, IsInjective, Surjection
<1>5. ExistsBijection(E, D)
  BY <1>4 DEF ExistsBijection
<1>6. Cardinality(E) = Cardinality(D)
  BY <1>5, FS_Bijection
<1>7. QED
  BY <1>6 DEF D

-----------------------------------------------------------------------------
(* What is compared is a pointer or what one points to. *)
LEMMA KeysAre ==
  ASSUME NEW k \in Keys
  PROVE  KeyOf(k) \in Keys \cup Range(ContentOf)
<1>1. ContentOf[k] \in Range(ContentOf)
  BY HashAssumption DEF Range
<1>2. QED
  BY <1>1 DEF KeyOf

(* The table of an operational map and its image. *)
LEMMA OpenImage ==
  ASSUME MapInv, m_is_operational
  PROVE  /\ Sound(table) /\ EntrySet(table) \subseteq Entry /\ Distinct(EntrySet(table))
         /\ contents = Image(EntrySet(table)) /\ m_n_entries = table.numEntries
BY OpenIs, ContentsIs DEF MapInv, Distinct

(* The table has a key exactly when the contents have it, with the same value. *)
LEMMA HasIs ==
  ASSUME MapInv, m_is_operational, NEW k \in Keys
  PROVE  /\ Has(k) <=> KeyOf(k) \in DOMAIN contents
         /\ Has(k) => /\ ValueAt(k) = contents[KeyOf(k)] /\ At(table, k) \in EntrySet(table)
                      /\ KeyOf(At(table, k).key) = KeyOf(k) /\ FindHashEntry(table, k) # 0
                      /\ ValueAt(k) \in Values \cup {null}
<1> DEFINE E == EntrySet(table)
<1>1. Sound(table) /\ Distinct(E) /\ contents = Image(E)
  BY OpenImage
<1>2. Has(k) <=> \E e \in E : KeyOf(e.key) = KeyOf(k)
  BY <1>1, AtIs DEF Has
<1> HIDE DEF E
<1>3. Has(k) <=> KeyOf(k) \in DOMAIN contents
  <2>1. ASSUME NEW e \in E, KeyOf(e.key) = KeyOf(k) PROVE KeyOf(k) \in DOMAIN contents
    <3>1. KeyOf(e.key) \in DOMAIN Image(E)
      BY <1>1, ImageAt
    <3>2. QED
      BY <1>1, <2>1, <3>1
  <2>2. ASSUME KeyOf(k) \in DOMAIN contents PROVE \E e \in E : KeyOf(e.key) = KeyOf(k)
    BY <1>1, <2>2, ImageFrom
  <2>3. QED
    BY <1>2, <2>1, <2>2
<1>4. ASSUME Has(k)
      PROVE  /\ ValueAt(k) = contents[KeyOf(k)] /\ At(table, k) \in EntrySet(table)
             /\ KeyOf(At(table, k).key) = KeyOf(k) /\ FindHashEntry(table, k) # 0
             /\ ValueAt(k) \in Values \cup {null}
  <2>1. /\ ValueAt(k) \in Values \cup {null} /\ ValueAt(k) = At(table, k).value
        /\ At(table, k) \in E /\ KeyOf(At(table, k).key) = KeyOf(k)
    BY <1>4, ValueThere DEF MapInv, E
  <2>2. Image(E)[KeyOf(At(table, k).key)] = At(table, k).value
    BY <1>1, <2>1, ImageAt
  <2>3. FindHashEntry(table, k) # 0
    BY <1>4 DEF Has
  <2>4. QED
    BY <1>1, <2>1, <2>2, <2>3 DEF E
<1>5. QED
  BY <1>3, <1>4

(* No entries stand for nothing. *)
LEMMA Emptied ==
  ASSUME EntrySet(table') = {}
  PROVE  contents' = <<>>
<1>1. EntrySet(table)' = {}
  BY DEF EntrySet
<1>2. contents' = [c \in {} |-> (CHOOSE e \in EntrySet(table') : KeyOf(e.key)' = c).value]
  BY <1>1 DEF contents
<1>3. QED
  BY <1>2

(* The same table stands for the same contents. *)
LEMMA ContentsStay ==
  ASSUME m_type' = m_type, table' = table
  PROVE  contents' = contents
BY ContentsIs
-----------------------------------------------------------------------------
(* One answer of a call. *)
LEMMA AnswerIs ==
  ASSUME CallsOK, NEW t \in Threads, NEW r \in Outcomes, NEW v \in Values \cup {null} \cup Nat, Answer(t, r, v)
  PROVE  Promised!Answer(t, r, v) /\ answer'[t] # None
<1>1. <<r, v>> \in Answers /\ answer' = [answer EXCEPT ![t] = <<r, v>>]
  BY DEF Answers, Answer
<1>2. answer'[t] = <<r, v>>
  BY <1>1 DEF CallsOK
<1>3. QED
  BY <1>1, <1>2, MapAssumption DEF Promised!Answer

(* The abstract map counts as this one does. *)
LEMMA SameCardinality ==
  ASSUME NEW S
  PROVE  Promised!Cardinality(S) = Cardinality(S)
BY Zenon DEF Promised!Cardinality, Cardinality

(* The reading calls are calls of the abstract map, or looking up that it does not see. *)
LEMMA ReadMaps ==
  ASSUME MapInv, NEW t \in Threads, answer[t] = None, Read(t)
  PROVE  Promised!Call(t) \/ UNCHANGED Promised!vars
<1> USE DEF MapInv
<1>1. UNCHANGED <<tableVars, valueVars>>
  BY DEF Read, Refuse, size, statistics, LookUp, s_find_entry, s_find
<1>2. UNCHANGED <<contents, m_is_operational, freed>>
  BY <1>1, ContentsStay DEF tableVars, valueVars
<1>3. CASE Refuse(t)
  <2>1. ~m_is_operational /\ Answer(t, "NOT_OPERATIONAL", null)
    BY <1>3 DEF Refuse
  <2>2. Promised!Answer(t, "NOT_OPERATIONAL", null) /\ answer'[t] # None
    BY <2>1, AnswerIs DEF Outcomes
  <2>3. Promised!Refuse(t)
    BY <1>2, <2>1, <2>2 DEF Promised!Refuse
  <2>4. QED
    BY <2>2, <2>3 DEF Promised!Call
<1>4. CASE size(t)
  <2>1. m_is_operational /\ Answer(t, "OK", m_n_entries)
    BY <1>4 DEF size
  <2>2. Sound(table) /\ Distinct(EntrySet(table)) /\ contents = Image(EntrySet(table)) /\ m_n_entries = table.numEntries
    BY <2>1, OpenImage
  <2>3. m_n_entries = Cardinality(EntrySet(table)) /\ IsFiniteSet(EntrySet(table)) /\ m_n_entries \in Nat
    BY <2>2, TableFacts, AtMostTheKeys DEF Sound, IsHash, Counted
  <2>4. m_n_entries = Cardinality(DOMAIN contents)
    BY <2>2, <2>3, ImageSize
  <2>5. Promised!Answer(t, "OK", m_n_entries) /\ answer'[t] # None
    BY <2>1, <2>3, AnswerIs DEF Outcomes
  <2>6. Promised!Answer(t, "OK", Promised!Cardinality(DOMAIN contents))
    BY <2>4, <2>5, SameCardinality DEF Promised!Answer
  <2>7. Promised!Size(t)
    BY <1>2, <2>1, <2>6 DEF Promised!Size
  <2>8. QED
    BY <2>5, <2>7 DEF Promised!Call
<1>5. CASE statistics(t)
  <2>1. m_is_operational
    BY <1>5 DEF statistics
  <2>2. PICK r \in {"OK", "NO_MEMORY"} : Answer(t, r, null)
    BY <1>5 DEF statistics
  <2>3. Promised!Answer(t, r, null) /\ answer'[t] # None
    BY <2>2, AnswerIs DEF Outcomes
  <2>4. Promised!Describe(t)
    BY <1>2, <2>1, <2>3 DEF Promised!Describe
  <2>5. QED
    BY <2>3, <2>4 DEF Promised!Call
<1>6. CASE LookUp(t)
  BY <1>2, <1>6 DEF LookUp, s_find_entry, Promised!vars
<1>7. CASE s_find(t)
  <2> DEFINE k == he[t][1]
  <2>1. k \in Keys /\ he[t][2] = Has(k) /\ m_is_operational
    BY <1>7, FoundOut DEF s_find
  <2>2. IF Has(k) THEN Answer(t, "OK", ValueAt(k)) ELSE Answer(t, "NOT_FOUND", null)
    BY <1>7, <2>1 DEF s_find
  <2> HIDE DEF k
  <2>3. /\ Has(k) <=> KeyOf(k) \in DOMAIN contents
        /\ Has(k) => ValueAt(k) = contents[KeyOf(k)] /\ ValueAt(k) \in Values \cup {null}
    BY <2>1, HasIs
  <2>4. /\ IF Has(k) THEN Promised!Answer(t, "OK", ValueAt(k)) ELSE Promised!Answer(t, "NOT_FOUND", null)
        /\ answer'[t] # None
    BY <2>2, <2>3, AnswerIs DEF Outcomes
  <2>5. Promised!Find(t, KeyOf(k))
    BY <1>2, <2>1, <2>3, <2>4 DEF Promised!Find, Promised!Has
  <2>6. QED
    BY <2>1, <2>4, <2>5, KeysAre DEF Promised!Call
<1>8. QED
  BY <1>3, <1>4, <1>5, <1>6, <1>7 DEF Read

-----------------------------------------------------------------------------
(* An entry that is created is one that is added, *)
LEMMA CreateMaps ==
  ASSUME ShiftsSuffice, MapInv, NEW t \in Threads, m_is_operational, NEW k \in Keys, ~Has(k),
         NEW v \in Values \cup {null}, Allocate(v), s_create_entry(k, v), Answer(t, "OK", null),
         UNCHANGED <<m_type, m_is_operational>>, NEW o \in BOOLEAN
  PROVE  Promised!Add(t, KeyOf(k), v, o)
<1> DEFINE E == EntrySet(table)
           r == [key |-> k, value |-> v]
           u == SetHashValue(CreateHashEntry(table, k, null), k, v)
<1>1. contents = Image(E) /\ Distinct(E) /\ KeyOf(k) \notin DOMAIN contents
  BY OpenImage, HasIs
<1>2. table' = u
  BY DEF s_create_entry
<1>3. EntrySet(u) = E \cup {r}
  BY CreatedEntry DEF MapInv
<1>4. r.key = k /\ r.value = v
  OBVIOUS
<1> HIDE DEF E, r, u
<1>5. contents' = Image(E \cup {r})
  BY <1>2, <1>3, ContentsIs
<1>6. Image(E \cup {r}) = [d \in DOMAIN Image(E) \cup {KeyOf(r.key)} |->
                             IF d = KeyOf(r.key) THEN r.value ELSE Image(E)[d]]
  BY <1>1, <1>4, ImageAdds
<1>7. contents' = [d \in DOMAIN contents \cup {KeyOf(k)} |-> IF d = KeyOf(k) THEN v ELSE contents[d]]
  BY <1>1, <1>4, <1>5, <1>6
<1>8. Promised!Answer(t, "OK", null)
  BY DEF Answer, Promised!Answer
<1>9. freed' = freed \ {v}
  BY DEF Allocate
<1>10. QED
  BY <1>1, <1>7, <1>8, <1>9 DEF Promised!Add, Promised!Has

(* a value that is set is one that is replaced. *)
LEMMA OverwriteMaps ==
  ASSUME MapInv, m_is_operational, NEW k \in Keys, Has(k), NEW v \in Values \cup {null}, m_type' = m_type,
         table' = SetHashValue(table, k, v)
  PROVE  contents' = [contents EXCEPT ![KeyOf(k)] = v]
<1> DEFINE E == EntrySet(table)
           a == At(table, k)
           r == [key |-> a.key, value |-> v]
           u == SetHashValue(table, k, v)
<1>1. Sound(table) /\ contents = Image(E) /\ Distinct(E)
  BY OpenImage
<1>2. a \in E /\ KeyOf(a.key) = KeyOf(k) /\ FindHashEntry(table, k) # 0
  BY HasIs
<1>3. EntrySet(u) = (E \ {a}) \cup {r}
  BY <1>1, <1>2, OneRevised
<1>4. r.key = a.key /\ r.value = v /\ table' = u
  OBVIOUS
<1> HIDE DEF E, a, r, u
<1>5. contents' = Image((E \ {a}) \cup {r})
  BY <1>3, <1>4, ContentsIs
<1>6. Image((E \ {a}) \cup {r}) = [Image(E) EXCEPT ![KeyOf(a.key)] = r.value]
  BY <1>1, <1>2, <1>4, ImageReplaces
<1>7. QED
  BY <1>1, <1>2, <1>4, <1>5, <1>6

(* So mccp_hashmap_add() is Add, *)
LEMMA AddMaps ==
  ASSUME ShiftsSuffice, MapInv, NEW t \in Threads, answer[t] = None, NEW v \in Values \cup {null},
         NEW allow_overwrite \in BOOLEAN, s_add(t, v, allow_overwrite)
  PROVE  Promised!Call(t)
<1> USE DEF MapInv
<1> DEFINE k == he[t][1]
           c == KeyOf(k)
<1>1. k \in Keys /\ he[t][2] \in BOOLEAN /\ he[t][2] = Has(k) /\ m_is_operational
  BY FoundOut DEF s_add
<1>2. Allocate(v) /\ UNCHANGED <<m_type, m_is_operational>> /\ freed' = freed \ {v}
  BY DEF s_add, Allocate
<1>3. c \in Keys \cup Range(ContentOf)
  BY <1>1, KeysAre
<1>4. CASE Has(k)
  <2>1. /\ table' = IF allow_overwrite THEN SetHashValue(table, k, v) ELSE table
        /\ Answer(t, IF allow_overwrite THEN "OK" ELSE "ALREADY_EXISTS", ValueAt(k))
    BY <1>1, <1>4 DEF s_add
  <2> HIDE DEF k
  <2>2. c \in DOMAIN contents /\ ValueAt(k) = contents[c] /\ ValueAt(k) \in Values \cup {null}
    BY <1>1, <1>4, HasIs
  <2>3. /\ Promised!Answer(t, IF allow_overwrite THEN "OK" ELSE "ALREADY_EXISTS", ValueAt(k))
        /\ answer'[t] # None
    BY <2>1, <2>2, AnswerIs DEF Outcomes
  <2>4. CASE allow_overwrite
    <3>1. contents' = [contents EXCEPT ![c] = v]
      BY <1>1, <1>2, <1>4, <2>1, <2>4, OverwriteMaps
    <3>2. Promised!Answer(t, "OK", contents[c])
      BY <2>2, <2>3, <2>4 DEF Promised!Answer
    <3> HIDE DEF c
    <3>3. Promised!Add(t, c, v, allow_overwrite)
      BY <1>1, <1>2, <2>2, <2>4, <3>1, <3>2 DEF Promised!Add, Promised!Has
    <3>4. QED
      BY <1>3, <2>3, <3>3 DEF Promised!Call
  <2>5. CASE ~allow_overwrite
    <3>1. contents' = contents
      BY <1>2, <2>1, <2>5, ContentsStay
    <3>2. Promised!Answer(t, "ALREADY_EXISTS", contents[c])
      BY <2>2, <2>3, <2>5 DEF Promised!Answer
    <3> HIDE DEF c
    <3>3. Promised!Add(t, c, v, allow_overwrite)
      BY <1>1, <1>2, <2>2, <2>5, <3>1, <3>2 DEF Promised!Add, Promised!Has
    <3>4. QED
      BY <1>3, <2>3, <3>3 DEF Promised!Call
  <2>6. QED
    BY <2>4, <2>5
<1>5. CASE ~Has(k) /\ s_create_entry(k, v) /\ Answer(t, "OK", null)
  <2> HIDE DEF k
  <2>1. answer'[t] # None
    BY <1>5, AnswerIs DEF Outcomes
  <2>2. Promised!Add(t, c, v, allow_overwrite)
    BY <1>1, <1>2, <1>5, CreateMaps
  <2> HIDE DEF c
  <2>3. QED
    BY <1>3, <2>1, <2>2 DEF Promised!Call
<1>6. CASE ~Has(k) /\ UNCHANGED <<table, m_n_entries>> /\ Answer(t, "NO_MEMORY", null)
  <2> HIDE DEF k
  <2>1. Promised!Answer(t, "NO_MEMORY", null) /\ answer'[t] # None
    BY <1>6, AnswerIs DEF Outcomes
  <2>2. contents' = contents /\ c \notin DOMAIN contents
    BY <1>1, <1>2, <1>6, ContentsStay, HasIs
  <2> HIDE DEF c
  <2>3. Promised!Add(t, c, v, allow_overwrite)
    BY <1>1, <1>2, <2>1, <2>2 DEF Promised!Add, Promised!Has
  <2>4. QED
    BY <1>3, <2>1, <2>3 DEF Promised!Call
<1>7. QED
  BY <1>1, <1>4, <1>5, <1>6 DEF s_add

(* mccp_hashmap_delete() is Delete, *)
LEMMA DeleteMaps ==
  ASSUME MapInv, NEW t \in Threads, answer[t] = None, NEW free_value \in BOOLEAN, s_delete(t, free_value)
  PROVE  Promised!Call(t)
<1> USE DEF MapInv
<1> DEFINE k == he[t][1]
           c == KeyOf(k)
           E == EntrySet(table)
           a == At(table, k)
<1>1. k \in Keys /\ he[t][2] \in BOOLEAN /\ he[t][2] = Has(k) /\ m_is_operational
  BY FoundOut DEF s_delete
<1>2. UNCHANGED <<m_type, m_is_operational>>
  BY DEF s_delete
<1>3. c \in Keys \cup Range(ContentOf)
  BY <1>1, KeysAre
<1>4. CASE Has(k)
  <2>1. /\ IF free_value THEN FreeUp({ValueAt(k)}) ELSE UNCHANGED valueVars
        /\ table' = DeleteHashEntry(table, k) /\ Answer(t, "OK", ValueAt(k))
    BY <1>1, <1>4 DEF s_delete
  <2> HIDE DEF k
  <2>2. /\ c \in DOMAIN contents /\ ValueAt(k) = contents[c] /\ ValueAt(k) \in Values \cup {null}
        /\ a \in E /\ KeyOf(a.key) = c /\ FindHashEntry(table, k) # 0
    BY <1>1, <1>4, HasIs
  <2>3. Promised!Answer(t, "OK", ValueAt(k)) /\ answer'[t] # None
    BY <2>1, <2>2, AnswerIs DEF Outcomes
  <2>4. Promised!Answer(t, "OK", contents[c])
    BY <2>2, <2>3 DEF Promised!Answer
  <2>5. Sound(table) /\ contents = Image(E) /\ Distinct(E)
    BY <1>1, OpenImage
  <2>6. EntrySet(table') = E \ {a}
    BY <1>1, <2>1, <2>2, <2>5, Removed
  <2> HIDE DEF E, a
  <2>7. contents' = Image(E \ {a})
    BY <1>2, <2>6, ContentsIs
  <2>8. Image(E \ {a}) = [d \in DOMAIN Image(E) \ {KeyOf(a.key)} |-> Image(E)[d]]
    BY <2>2, <2>5, ImageDrops
  <2>9. contents' = [d \in DOMAIN contents \ {c} |-> contents[d]]
    BY <2>2, <2>5, <2>7, <2>8
  <2>10. freed' = IF free_value THEN freed \cup ({contents[c]} \ {null}) ELSE freed
    BY <2>1, <2>2 DEF FreeUp, valueVars
  <2> HIDE DEF c
  <2>11. Promised!Delete(t, c, free_value)
    BY <1>1, <1>2, <2>2, <2>4, <2>9, <2>10
       DEF Promised!Delete, Promised!Has, Promised!Restrict, Promised!Free
  <2>12. QED
    BY <1>3, <2>3, <2>11 DEF Promised!Call
<1>5. CASE ~Has(k)
  <2>1. UNCHANGED <<table, m_n_entries, valueVars>> /\ Answer(t, "OK", null)
    BY <1>1, <1>5 DEF s_delete
  <2> HIDE DEF k
  <2>2. Promised!Answer(t, "OK", null) /\ answer'[t] # None
    BY <2>1, AnswerIs DEF Outcomes
  <2>3. contents' = contents /\ freed' = freed /\ c \notin DOMAIN contents
    BY <1>1, <1>2, <1>5, <2>1, ContentsStay, HasIs DEF valueVars
  <2> HIDE DEF c
  <2>4. Promised!Delete(t, c, free_value)
    BY <1>1, <1>2, <2>2, <2>3 DEF Promised!Delete, Promised!Has
  <2>5. QED
    BY <1>3, <2>2, <2>4 DEF Promised!Call
<1>6. QED
  BY <1>4, <1>5

-----------------------------------------------------------------------------
(* mccp_hashmap_iterate() is Modify *)
LEMMA IterateMaps ==
  ASSUME MapInv, NEW t \in Threads, answer[t] = None,
         NEW n \in 0 .. Cardinality(Keys), NEW v \in Values \cup {null}, s_iterate(t, n, v)
  PROVE  Promised!Call(t)
<1> USE DEF MapInv
<1> DEFINE order == Entries(table)
           seen  == {order[i].key : i \in 1 .. n}
           E     == EntrySet(table)
<1>1. m_is_operational /\ UNCHANGED <<m_type, m_is_operational>> /\ n <= Len(order) /\ freed' = freed \ {v}
  BY DEF s_iterate, Allocate
<1>2. PICK ks \in SUBSET seen : table' = SetHashValues(table, ks, v)
  BY DEF s_iterate
<1>3. PICK r \in {"OK", "ITERATION_HALTED"} :
        Answer(t, r, null) /\ (r = "OK" => n = Len(order) /\ n > 0)
  BY DEF s_iterate
<1>4. Sound(table) /\ E \subseteq Entry /\ Distinct(E) /\ contents = Image(E)
  BY <1>1, OpenImage
<1>5. order \in Seq(Entry) /\ \A e : e \in E <=> \E x \in 1 .. Len(order) : e = order[x]
  BY <1>4, Walk DEF Sound, IsHash
<1> DEFINE ds == {KeyOf(e.key) : e \in {e \in E : e.key \in ks}}
           u  == SetHashValues(table, ks, v)
<1>6. \A e : e \in EntrySet(u) <=> \E f \in E : e = Revised(f, ks, v)
  BY <1>4, AllRevised
<1>7. contents' = Image(EntrySet(u))
  BY <1>1, <1>2, ContentsIs
<1>8. r = "OK" => DOMAIN contents # {}
  <2>1. ASSUME r = "OK" PROVE order[1] \in E
    <3> HIDE DEF order, E
    <3>1. 1 \in 1 .. Len(order)
      BY <1>3, <1>5, <2>1
    <3>2. QED
      BY <1>5, <3>1
  <2> HIDE DEF E, order
  <2>2. QED
    BY <1>4, <2>1, ImageAt
<1> HIDE DEF order, seen, E, u
<1>9. ds \subseteq DOMAIN contents
  BY <1>4, ImageAt
<1>10. Image(EntrySet(u)) = [d \in DOMAIN Image(E) |-> IF d \in ds THEN v ELSE Image(E)[d]]
  <2> DEFINE F == EntrySet(u)
  <2>1. \A d : d \in ds <=> \E e \in E : KeyOf(e.key) = d /\ e.key \in ks
    OBVIOUS
  <2>2. \A e : e \in F <=> \E f \in E : e = Revised(f, ks, v)
    BY <1>6
  <2> HIDE DEF ds, F
  <2>3. Image(F) = [d \in DOMAIN Image(E) |-> IF d \in ds THEN v ELSE Image(E)[d]]
    BY ONLY <1>4, <2>1, <2>2, ImageRevises
  <2>4. QED
    BY <2>3 DEF F
<1> HIDE DEF ds
<1>11. contents' = [d \in DOMAIN contents |-> IF d \in ds THEN v ELSE contents[d]]
  BY <1>4, <1>7, <1>10
<1>12. r = "ITERATION_HALTED" \/ contents # <<>>
  <2>1. DOMAIN <<>> = {}
    OBVIOUS
  <2>2. QED
    BY <1>8, <2>1
<1>13. Promised!Answer(t, r, null) /\ answer'[t] # None
  BY <1>3, AnswerIs DEF Outcomes
<1>14. Promised!Modify(t, r)
  BY <1>1, <1>9, <1>11, <1>12, <1>13 DEF Promised!Modify
<1>15. QED
  BY <1>13, <1>14 DEF Promised!Call

(* The values that are freed with the map are those it holds. *)
LEMMA FreedAll ==
  ASSUME MapInv, m_is_operational, NEW free_values \in BOOLEAN, s_clean(free_values)
  PROVE  Promised!Free(Promised!Range(contents), free_values)
<1> DEFINE E == EntrySet(table)
<1>1. Distinct(E) /\ contents = Image(E) /\ InMap = ValuesOf(E)
  BY OpenImage, OpenIs DEF MapInv
<1> HIDE DEF E
<1>2. {contents[c] : c \in DOMAIN contents} = InMap
  BY <1>1, ImageRange
<1>3. freed' = IF free_values THEN freed \cup (InMap \ {null}) ELSE freed
  BY DEF s_clean, FreeUp, valueVars
<1>4. QED
  BY <1>2, <1>3 DEF Promised!Free, Promised!Range

(* and clear and shutdown are Empty. *)
LEMMA EmptyMaps ==
  ASSUME ShiftsSuffice, MapInv, NEW t \in Threads, answer[t] = None, NEW free_values \in BOOLEAN,
         clear(t, free_values) \/ shutdown(t, free_values)
  PROVE  Promised!Call(t)
<1>1. m_is_operational /\ s_clean(free_values) /\ Answer(t, "OK", null)
  BY DEF clear, shutdown
<1>2. PICK opens \in BOOLEAN : m_is_operational' = opens
  BY <1>1 DEF clear, shutdown
<1>3. Promised!Answer(t, "OK", null) /\ answer'[t] # None
  BY <1>1, AnswerIs DEF MapInv, Outcomes
<1>4. EntrySet(table') = {}
  <2>1. EntrySet(InitHashTable) = {} /\ EntrySet(Deleted) = {}
    BY NewTable, NoEntries
  <2>2. QED
    BY <2>1 DEF clear, shutdown
<1>5. contents' = <<>>
  BY <1>4, Emptied
<1>6. Promised!Free(Promised!Range(contents), free_values)
  BY <1>1, FreedAll
<1>7. Promised!Empty(t, opens, free_values)
  BY <1>1, <1>2, <1>3, <1>5, <1>6 DEF Promised!Empty
<1>8. QED
  BY <1>3, <1>7 DEF Promised!Call

(* All calls under the write lock are calls of the abstract map. *)
LEMMA WriteMaps ==
  ASSUME ShiftsSuffice, MapInv, NEW t \in Threads, answer[t] = None, Write(t)
  PROVE  Promised!Call(t) \/ UNCHANGED Promised!vars
<1>1. CASE Refuse(t) \/ LookUp(t)
  BY <1>1, ReadMaps DEF Read
<1>2. CASE \E v \in Values \cup {null}, allow_overwrite \in BOOLEAN : s_add(t, v, allow_overwrite)
  BY <1>2, AddMaps
<1>3. CASE \E free_value \in BOOLEAN : s_delete(t, free_value)
  BY <1>3, DeleteMaps
<1>4. CASE \E n \in 0 .. Cardinality(Keys), v \in Values \cup {null} : s_iterate(t, n, v)
  BY <1>4, IterateMaps
<1>5. CASE \E free_values \in BOOLEAN : clear(t, free_values) \/ shutdown(t, free_values)
  BY <1>5, EmptyMaps
<1>6. QED
  BY <1>1, <1>2, <1>3, <1>4, <1>5 DEF Write

(* The return is forgetting the answer, *)
LEMMA ReturnMaps ==
  ASSUME NEW t \in Threads, Leave(t) \/ NoLockReturns(t)
  PROVE  Promised!Forget(t)
<1>1. answer[t] # None /\ answer' = [answer EXCEPT ![t] = None] /\ UNCHANGED <<tableVars, valueVars>>
  BY DEF Leave, NoLockReturns
<1>2. UNCHANGED <<contents, m_is_operational, freed>>
  BY <1>1, ContentsStay DEF tableVars, valueVars
<1>3. QED
  BY <1>1, <1>2 DEF Promised!Forget

(* A closed map stands for nothing. *)
LEMMA ClosedIsEmpty ==
  ASSUME MapInv, ~m_is_operational
  PROVE  EntrySet(table) = {} /\ contents = <<>> /\ table = Deleted
<1>1. EntrySet(table) = {} /\ table = Deleted
  BY NoEntries DEF MapInv, DataOK, TableOK
<1>2. contents = Image({})
  BY <1>1, ContentsIs
<1>3. QED
  BY <1>1, <1>2, ImageEmpty

(* destruction is Discard, or unseen after a shutdown, *)
LEMMA DestroyMaps ==
  ASSUME MapInv, NEW t \in Threads, destroy(t)
  PROVE  (\E free \in BOOLEAN : Promised!Discard(free)) \/ UNCHANGED Promised!vars
<1>1. table' = Deleted /\ m_is_operational' = FALSE /\ answer' = answer
  BY DEF destroy, callVars
<1>2. EntrySet(table') = {}
  BY <1>1, NoEntries
<1>3. contents' = <<>>
  BY <1>2, Emptied
<1>4. CASE m_is_operational
  <2>1. PICK free \in BOOLEAN : s_clean(free)
    BY <1>4 DEF destroy
  <2>2. Promised!Free(Promised!Range(contents), free)
    BY <1>4, <2>1, FreedAll
  <2>3. Promised!Discard(free)
    BY <1>1, <1>3, <1>4, <2>2 DEF Promised!Discard
  <2>4. QED
    BY <2>3
<1>5. CASE ~m_is_operational
  <2>1. freed' = freed /\ m_is_operational' = m_is_operational
    BY <1>1, <1>5 DEF destroy, valueVars, MapInv, DataOK
  <2>2. QED
    BY <1>1, <1>3, <1>5, <2>1, ClosedIsEmpty DEF Promised!vars
<1>6. QED
  BY <1>4, <1>5

(* creation is Renew, *)
LEMMA CreateMapMaps ==
  ASSUME ShiftsSuffice, MapInv, NEW t \in Threads, create(t)
  PROVE  Promised!Renew
<1>1. ~exists /\ table' = InitHashTable /\ m_is_operational' = TRUE /\ UNCHANGED <<freed, answer>>
  BY DEF create, Create, New, valueVars, callVars
<1>2. ~m_is_operational
  BY <1>1 DEF MapInv, CallsOK
<1>3. EntrySet(table') = {}
  BY <1>1, NewTable
<1>4. contents' = contents
  BY <1>2, <1>3, Emptied, ClosedIsEmpty
<1>5. QED
  BY <1>1, <1>2, <1>4 DEF Promised!Renew

(* and what only concerns the lock is unseen. *)
LEMMA QuietMaps ==
  ASSUME UNCHANGED mapVars
  PROVE  UNCHANGED Promised!vars
<1>1. UNCHANGED <<m_type, table, m_is_operational, freed, answer>>
  BY DEF mapVars, tableVars, valueVars, callVars
<1>2. QED
  BY <1>1, ContentsStay DEF Promised!vars

(* Every step maps to a step or to none. *)
LEMMA StepMaps ==
  ASSUME ShiftsSuffice, MapInv, NEW t \in Threads, MapStep(t)
  PROVE  Promised!Next \/ UNCHANGED Promised!vars
<1>1. CASE Work(t) \/ NoLock(t)
  <2>1. answer[t] = None /\ (Read(t) \/ Write(t))
    BY <1>1 DEF Work, NoLock
  <2>2. Promised!Call(t) \/ UNCHANGED Promised!vars
    BY <2>1, ReadMaps, WriteMaps
  <2>3. QED
    BY <2>2 DEF Promised!Next
<1>2. CASE Call(t) \/ Enter(t) \/ atfork_child(t)
  BY <1>2, QuietMaps DEF Call, Enter, atfork_child
<1>3. CASE Leave(t) \/ NoLockReturns(t)
  BY <1>3, ReturnMaps DEF Promised!Next
<1>4. CASE destroy(t)
  BY <1>4, DestroyMaps DEF Promised!Next
<1>5. CASE create(t)
  BY <1>5, CreateMapMaps DEF Promised!Next
<1>6. QED
  BY <1>1, <1>2, <1>3, <1>4, <1>5 DEF MapStep

(* The hash map behind its lock and its buckets implements the map of module Map: calls take
   effect one at a time, with the answers of a plain function. *)
THEOREM MapRefined ==
  ASSUME ShiftsSuffice
  PROVE  MapSpec => IsMap
<1>1. MapInit => Promised!Init
  <2>1. SUFFICES ASSUME MapInit PROVE Promised!Init
    OBVIOUS
  <2>2. EntrySet(table) = {}
    BY <2>1, NewTable DEF MapInit
  <2>3. contents = <<>>
    BY <2>2, ContentsIs, ImageEmpty
  <2>4. QED
    BY <2>1, <2>3 DEF MapInit, Promised!Init
<1>2. MapInv /\ [MapNext]_<<lockVars, mapVars>> => [Promised!Next]_Promised!vars
  <2>1. SUFFICES ASSUME MapInv, [MapNext]_<<lockVars, mapVars>>
                 PROVE  [Promised!Next]_Promised!vars
    OBVIOUS
  <2>2. CASE MapNext
    BY <2>1, <2>2, StepMaps DEF MapNext
  <2>3. CASE UNCHANGED <<lockVars, mapVars>>
    BY <2>3, QuietMaps
  <2>4. QED
    BY <2>1, <2>2, <2>3
<1>3. QED
  BY <1>1, <1>2, MapInvariant, PTL DEF MapSpec, IsMap, Promised!Spec
=============================================================================
