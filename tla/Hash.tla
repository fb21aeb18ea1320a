-------------------------------- MODULE Hash --------------------------------
(***************************************************************************)
(* The hash table behind the hash maps (hash.c): buckets of chained entries *)
(* that grow fourfold when the chains get long.  A table is a record, its   *)
(* functions are operators on it.  A key is a pointer; what it points to    *)
(* matters for every kind of table but the one-word one.                    *)
(***************************************************************************)
EXTENDS Integers, SequencesExt

CONSTANTS
  Keys,               \* the pointers used as keys
  ContentOf,          \* what each points to
  HashOf,             \* the preliminary hash of a key or a content
  OneWord,            \* MCCP_HASHMAP_TYPE_ONE_WORD
  Types,              \* the key types the tables are created with
  SmallTable, Multiplier, Top   \* HASH_SMALL_HASH_TABLE, REBUILD_MULTIPLIER, SmallTable * 2^downShift

ASSUME HashAssumption ==
  /\ IsFiniteSet(Keys) /\ DOMAIN ContentOf = Keys /\ HashOf \in [Keys \cup Range(ContentOf) -> Nat]
  /\ Types \subseteq Nat /\ OneWord \in Nat \ {0}
  /\ SmallTable \in Nat \ {0} /\ Multiplier \in Nat \ {0} /\ Top \in Nat

VARIABLES
  m_type,             \* the key type of the table
  table               \* the table itself

STRING_KEYS == 0

\* keyLen: every other type up to a word means one-word keys
KeyLen == IF m_type = STRING_KEYS \/ m_type > OneWord THEN m_type ELSE OneWord

\* what tells two keys apart, and is hashed: the word itself or what it points to
KeyOf(k) == IF KeyLen = OneWord THEN k ELSE ContentOf[k]

InitHashTable ==
    [buckets     |-> [i \in 0 .. SmallTable - 1 |-> <<>>],
     numEntries  |-> 0,
     rebuildSize |-> SmallTable * Multiplier]

numBuckets(t) == Cardinality(DOMAIN t.buckets)

\* HashString() with the mask: the low bits
StringIndex(t, k) == HashOf[KeyOf(k)] % numBuckets(t)

\* RANDOM_INDEX(): the bits above downShift
RandomIndex(t, k) == (HashOf[KeyOf(k)] \div (Top \div numBuckets(t))) % numBuckets(t)

IndexOf(t, k) == IF KeyLen = STRING_KEYS THEN StringIndex(t, k) ELSE RandomIndex(t, k)

Chain(t, k) == t.buckets[IndexOf(t, k)]

\* the place of the first entry with the key in its chain, 0 if there is none: strcmp(), the word
\* itself or memcmp()
StringFind(t, k)  == SelectInSeq(t.buckets[StringIndex(t, k)], LAMBDA e : ContentOf[e.key] = ContentOf[k])
OneWordFind(t, k) == SelectInSeq(t.buckets[RandomIndex(t, k)], LAMBDA e : e.key = k)
ArrayFind(t, k)   == SelectInSeq(t.buckets[RandomIndex(t, k)], LAMBDA e : ContentOf[e.key] = ContentOf[k])

FindHashEntry(t, k) ==
    IF KeyLen = STRING_KEYS THEN StringFind(t, k)
    ELSE IF KeyLen = OneWord THEN OneWordFind(t, k)
    ELSE ArrayFind(t, k)

GetHashValue(t, k) == Chain(t, k)[FindHashEntry(t, k)].value

SetHashValue(t, k, v) ==
    [t EXCEPT !.buckets[IndexOf(t, k)][FindHashEntry(t, k)].value = v]

\* the entries whose keys are in ks get a value
Revised(e, ks, v) == IF e.key \in ks THEN [e EXCEPT !.value = v] ELSE e

SetHashValues(t, ks, v) ==
    [t EXCEPT !.buckets = [i \in DOMAIN t.buckets |->
        [j \in DOMAIN t.buckets[i] |-> Revised(t.buckets[i][j], ks, v)]]]

EntrySet(t) == UNION {Range(t.buckets[i]) : i \in DOMAIN t.buckets}

\* the order of FirstHashEntry() and NextHashEntry()
Entries(t) == FlattenSeq([i \in 1 .. numBuckets(t) |-> t.buckets[i - 1]])

\* the entries es moved into bs, each to the head of the chain that t has for its key
Rehashed(es, bs, t) ==
    LET moved[m \in 0 .. Len(es)] ==
            IF m = 0 THEN bs
            ELSE [moved[m - 1] EXCEPT ![IndexOf(t, es[m].key)] = <<es[m]>> \o @]
    IN  moved[Len(es)]

\* four times as many buckets, all empty
Enlarged(t) ==
    [t EXCEPT !.buckets = [i \in 0 .. 4 * numBuckets(t) - 1 |-> <<>>], !.rebuildSize = 4 * @]

\* Faulty: the index is computed with the old mask.
RebuildTable_OldMask(t) ==
    [Enlarged(t) EXCEPT !.buckets = Rehashed(Entries(t), @, t)]

RebuildTable(t) ==
    [Enlarged(t) EXCEPT !.buckets = Rehashed(Entries(t), @, Enlarged(t))]

\* the new entry becomes the head of its chain
Insert(t, i, e) ==
    LET u == [t EXCEPT !.buckets[i] = <<e>> \o @, !.numEntries = @ + 1]
    IN  IF u.numEntries >= u.rebuildSize THEN RebuildTable(u) ELSE u

StringCreate(t, k, v)  == Insert(t, StringIndex(t, k), [key |-> k, value |-> v])
OneWordCreate(t, k, v) == Insert(t, RandomIndex(t, k), [key |-> k, value |-> v])
ArrayCreate(t, k, v)   == Insert(t, RandomIndex(t, k), [key |-> k, value |-> v])

\* the key has no entry yet
CreateHashEntry(t, k, v) ==
    IF KeyLen = STRING_KEYS THEN StringCreate(t, k, v)
    ELSE IF KeyLen = OneWord THEN OneWordCreate(t, k, v)
    ELSE ArrayCreate(t, k, v)

DeleteHashEntry(t, k) ==
    [t EXCEPT !.buckets[IndexOf(t, k)] = RemoveAt(@, FindHashEntry(t, k)), !.numEntries = @ - 1]
=============================================================================
