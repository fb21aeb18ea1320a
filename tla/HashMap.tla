------------------------------ MODULE HashMap -------------------------------
(***************************************************************************)
(* mccp_hashmap (hashmap.c): the hash table of Hash behind the read-write  *)
(* lock of Locks, which every call holds as a critical region while it      *)
(* works on the table.  The callers keep to the manual: a value that is     *)
(* added is in no other place, iteration procedures change values only, the *)
(* functions without lock and the destroying one are used by one thread     *)
(* alone, and nobody forks while a call is under way.                       *)
(***************************************************************************)
EXTENDS Locks, Hash

CONSTANTS
  Values,   \* the values
  null,     \* NULL
  None      \* no answer yet

\* the results of the calls, and what they hand out besides
Outcomes == {"OK", "NOT_FOUND", "NOT_OPERATIONAL", "NO_MEMORY", "ALREADY_EXISTS", "ITERATION_HALTED"}
Answers  == Outcomes \X (Values \cup {null} \cup Nat)

ASSUME MapAssumption ==
  null \notin Values /\ None \notin Answers /\ None \notin Keys \X BOOLEAN

VARIABLES
  m_n_entries, m_is_operational,
  freed,    \* the values m_del_proc() was called for and that were not allocated again
  twice,    \* history: a value was freed that was already free
  he,       \* of the call under way: the key it looked up and whether that has an entry
  answer    \* its result and what it hands out

tableVars == <<m_type, table, m_n_entries, m_is_operational>>
valueVars == <<freed, twice>>
callVars  == <<he, answer>>
mapVars   == <<tableVars, valueVars, callVars>>
lockVars  == <<mtxVars, rwlVars, threadVars, useVars>>

\* mccp_hashmap_create()
New ==
    /\ m_type' \in Types /\ table' = InitHashTable
    /\ m_n_entries' = 0 /\ m_is_operational' = TRUE

MapInit ==
    /\ Init /\ mtx_use = "mixed" /\ rwl_use = "critical"
    /\ m_type \in Types /\ table = InitHashTable /\ m_n_entries = 0 /\ m_is_operational = TRUE
    /\ freed = {} /\ twice = FALSE
    /\ he = [t \in Threads |-> None] /\ answer = [t \in Threads |-> None]
-----------------------------------------------------------------------------
Answer(t, r, v) == answer' = [answer EXCEPT ![t] = <<r, v>>] /\ he' = [he EXCEPT ![t] = None]

Refuse(t) ==
    /\ ~m_is_operational /\ he[t] = None /\ Answer(t, "NOT_OPERATIONAL", null)
    /\ UNCHANGED <<tableVars, valueVars>>

Has(k)    == FindHashEntry(table, k) # 0
InMap     == {e.value : e \in EntrySet(table)}
FreshOnes == (Values \ InMap) \cup {null}

\* m_del_proc() for each value that is not NULL
FreeUp(vs) ==
    /\ freed' = freed \cup (vs \ {null})
    /\ twice' = (twice \/ vs \cap freed # {})

\* the memory of a new value may be that of a freed one
Allocate(v) == freed' = freed \ {v} /\ UNCHANGED twice

\* find, add and delete first look the key up
s_find_entry(t, k) ==
    /\ m_is_operational /\ he[t] = None /\ he' = [he EXCEPT ![t] = <<k, Has(k)>>]
    /\ UNCHANGED <<tableVars, valueVars, answer>>

\* what is at the entry that was found: anything, if it was deleted since then
ValueAt(k) == IF Has(k) THEN GetHashValue(table, k) ELSE "garbage"

s_find(t) ==
    /\ he[t] # None
    /\ LET k == he[t][1] IN
         IF he[t][2] THEN Answer(t, "OK", ValueAt(k)) ELSE Answer(t, "NOT_FOUND", null)
    /\ UNCHANGED <<tableVars, valueVars>>

size(t) ==
    /\ m_is_operational /\ he[t] = None /\ Answer(t, "OK", m_n_entries)
    /\ UNCHANGED <<tableVars, valueVars>>

\* the text with the statistics has to be allocated
statistics(t) ==
    /\ m_is_operational /\ he[t] = None
    /\ \E r \in {"OK", "NO_MEMORY"} : Answer(t, r, null)
    /\ UNCHANGED <<tableVars, valueVars>>

\* an entry that is created when there is one after all is that one
s_create_entry(k, v) ==
    /\ table' = SetHashValue(IF Has(k) THEN table ELSE CreateHashEntry(table, k, null), k, v)
    /\ m_n_entries' = m_n_entries + 1

s_add(t, v, allow_overwrite) ==
    /\ he[t] # None /\ v \in FreshOnes /\ Allocate(v)
    /\ LET k == he[t][1] IN
         IF he[t][2]
         THEN /\ table' = IF allow_overwrite /\ Has(k) THEN SetHashValue(table, k, v) ELSE table
              /\ Answer(t, IF allow_overwrite THEN "OK" ELSE "ALREADY_EXISTS", ValueAt(k))
              /\ UNCHANGED m_n_entries
         ELSE \/ s_create_entry(k, v) /\ Answer(t, "OK", null)
              \/ UNCHANGED <<table, m_n_entries>> /\ Answer(t, "NO_MEMORY", null)
    /\ UNCHANGED <<m_type, m_is_operational>>

s_delete(t, free_value) ==
    /\ he[t] # None
    /\ LET k == he[t][1] IN
         IF he[t][2]
         THEN /\ IF free_value THEN FreeUp({ValueAt(k)}) ELSE UNCHANGED valueVars
              /\ table' = IF Has(k) THEN DeleteHashEntry(table, k) ELSE table
              /\ m_n_entries' = m_n_entries - 1 /\ Answer(t, "OK", ValueAt(k))
         ELSE UNCHANGED <<table, m_n_entries, valueVars>> /\ Answer(t, "OK", null)
    /\ UNCHANGED <<m_type, m_is_operational>>

\* the procedure gets the entries in their order, gives some of them another value and may stop at
\* one; a map without entries counts as stopped
s_iterate(t, n, v) ==
    LET order == Entries(table)
        seen  == {order[i].key : i \in 1 .. n}
    IN  /\ m_is_operational /\ he[t] = None /\ n <= Len(order) /\ v \in FreshOnes
        /\ n = 0 => order = <<>>
        /\ \E ks \in SUBSET seen :
             /\ v # null => Cardinality(ks) <= 1
             /\ table' = SetHashValues(table, ks, v)
        /\ Allocate(v)
        /\ \/ Answer(t, "ITERATION_HALTED", null)
           \/ n = Len(order) /\ n > 0 /\ Answer(t, "OK", null)
        /\ UNCHANGED <<m_type, m_n_entries, m_is_operational>>

Deleted == [buckets |-> <<>>, numEntries |-> 0, rebuildSize |-> 0]

s_clean(free_values) ==
    /\ IF free_values THEN FreeUp(InMap) ELSE UNCHANGED valueVars
    /\ m_n_entries' = 0

\* Faulty: the values are freed and the entries, and their number, are kept.
clear_KeepsEntries(t, free_values) ==
    /\ m_is_operational /\ he[t] = None /\ Answer(t, "OK", null)
    /\ IF free_values THEN FreeUp(InMap) ELSE UNCHANGED valueVars
    /\ UNCHANGED tableVars

clear(t, free_values) ==
    /\ m_is_operational /\ he[t] = None /\ s_clean(free_values) /\ table' = InitHashTable
    /\ Answer(t, "OK", null) /\ UNCHANGED <<m_type, m_is_operational>>

shutdown(t, free_values) ==
    /\ m_is_operational /\ he[t] = None /\ s_clean(free_values) /\ table' = Deleted
    /\ m_is_operational' = FALSE /\ Answer(t, "OK", null) /\ UNCHANGED m_type

LookUp(t) == \E k \in Keys : s_find_entry(t, k)

Read(t) == Refuse(t) \/ size(t) \/ statistics(t) \/ LookUp(t) \/ s_find(t)

Write(t) ==
    \/ Refuse(t) \/ LookUp(t)
    \/ \E v \in Values \cup {null}, allow_overwrite \in BOOLEAN : s_add(t, v, allow_overwrite)
    \/ \E free_value \in BOOLEAN : s_delete(t, free_value)
    \/ \E n \in 0 .. Cardinality(Keys), v \in Values \cup {null} : s_iterate(t, n, v)
    \/ \E free_values \in BOOLEAN : clear(t, free_values) \/ shutdown(t, free_values)
-----------------------------------------------------------------------------
Quiet(t) == he[t] = None /\ answer[t] = None

\* a thread works on the map without its lock
NoLockRuns == \E t \in Threads : ~Quiet(t) /\ ~HoldsRwl(t)

\* s_read_lock() and s_write_lock()
Call(t) ==
    /\ Quiet(t) /\ ~NoLockRuns /\ \E c \in {"reader_enter", "writer_enter"} : Begin(t, c)
    /\ UNCHANGED mapVars

Enter(t) ==
    /\ rwlock_reader_enter_critical(t) \/ rwlock_writer_enter_critical(t)
    /\ UNCHANGED mapVars

Work(t) ==
    /\ Idle(t) /\ answer[t] = None
    /\ (t \in m_rwl /\ Read(t)) \/ (writer = t /\ Write(t))
    /\ UNCHANGED lockVars

\* s_unlock() and the return
Leave(t) ==
    /\ answer[t] # None /\ HoldsRwl(t) /\ rwlock_leave_critical(t)
    /\ answer' = [answer EXCEPT ![t] = None] /\ UNCHANGED <<tableVars, valueVars, he>>

Alone(t) == Idle(t) /\ Unused /\ \A s \in Threads \ {t} : Quiet(s)

\* one of the functions without lock
NoLock(t) == Alone(t) /\ answer[t] = None /\ (Read(t) \/ Write(t)) /\ UNCHANGED lockVars

NoLockReturns(t) ==
    /\ answer[t] # None /\ ~HoldsRwl(t) /\ answer' = [answer EXCEPT ![t] = None]
    /\ UNCHANGED <<lockVars, tableVars, valueVars, he>>

destroy(t) ==
    /\ Alone(t) /\ Quiet(t) /\ Destroy(t)
    /\ IF m_is_operational THEN \E free_values \in BOOLEAN : s_clean(free_values)
       ELSE UNCHANGED <<m_n_entries, valueVars>>
    /\ table' = Deleted /\ m_is_operational' = FALSE /\ UNCHANGED <<m_type, callVars>>

create(t) == Create(t) /\ New /\ UNCHANGED <<valueVars, callVars>>

\* the handler of the child, mccp_hashmap_atfork_child()
atfork_child(t) == Alone(t) /\ Quiet(t) /\ Fork(t) /\ UNCHANGED mapVars

MapStep(t) ==
    \/ Call(t) \/ Enter(t) \/ Work(t) \/ Leave(t) \/ NoLock(t) \/ NoLockReturns(t)
    \/ destroy(t) \/ create(t) \/ atfork_child(t)

MapNext == \E t \in Threads : MapStep(t)

MapSpec == MapInit /\ [][MapNext]_<<lockVars, mapVars>>
-----------------------------------------------------------------------------
\* Every variable keeps to its values, the lock's too.
HashMapTypeOK ==
    /\ LocksTypeOK
    /\ m_type \in Types /\ m_is_operational \in BOOLEAN /\ m_n_entries \in 0 .. Cardinality(Keys)
    /\ freed \subseteq Values /\ twice \in BOOLEAN
    /\ \A e \in EntrySet(table) : e.key \in Keys /\ e.value \in Values \cup {null}
    /\ he \in [Threads -> {None} \cup (Keys \X BOOLEAN)]
    /\ answer \in [Threads -> {None} \cup Answers]

\* Every entry is in the bucket its key hashes to, however often the table grew, no key has two
\* entries, both counters tell their number, and a chain never gets longer than growing allows.
TableIsWellFormed ==
    /\ \A i \in DOMAIN table.buckets : \A j \in DOMAIN table.buckets[i] :
         /\ IndexOf(table, table.buckets[i][j].key) = i
         /\ FindHashEntry(table, table.buckets[i][j].key) = j
    /\ m_n_entries = table.numEntries /\ m_n_entries = Cardinality(EntrySet(table))
    /\ m_is_operational => table.numEntries < table.rebuildSize

\* No value is freed twice, and none that was freed is still in the map.
FreedOnce == ~twice /\ InMap \cap freed = {}

\* what the table stands for
contents == [c \in {KeyOf(e.key) : e \in EntrySet(table)} |->
               (CHOOSE e \in EntrySet(table) : KeyOf(e.key) = c).value]

Promised == INSTANCE Map WITH Contents <- Keys \cup Range(ContentOf), open <- m_is_operational

\* Behind its lock and its buckets the hash map is a map whose calls take effect one at a time.
IsMap == Promised!Spec
=============================================================================
