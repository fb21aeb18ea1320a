---------------------------- MODULE CBufferData ----------------------------
(***************************************************************************)
(* The data of one mccp_cbuffer_record and what each operation of          *)
(* cbuffer.c does to it while it holds m_lock.  The operators are pure: a  *)
(* buffer is a record, an operation maps it to the next record.  CBuffer   *)
(* adds the threads, the lock and the conditions; QMuxer uses the same     *)
(* operators for every queue that is polled.                               *)
(***************************************************************************)
EXTENDS Integers, Sequences

CONSTANTS
  Values,       \* what a producer may put
  NoValue,      \* a slot cleared by memset(), or no value at all
  QMuxers,      \* the queue muxers that poll
  NoQMuxer,     \* NULL
  MaxElements,  \* maxelems of mccp_cbuffer_create_with_size()
  IndexLimit    \* stands for 2^63, the first int64_t that does not exist

AllocdElements == MaxElements + 1   \* maxelems + N_EMPTY_ROOM

ASSUME BufferAssumption ==
  /\ NoValue \notin Values
  /\ NoQMuxer \notin QMuxers
  /\ MaxElements \in Nat \ {0}
  /\ IndexLimit \in Nat
  /\ AllocdElements < IndexLimit

Slots == 0 .. AllocdElements - 1

\* mccp_qmuxer_poll_event_t: the two bits of an event as a set.
Readable  == "readable"
Writable  == "writable"
PollTypes == {{Readable}, {Writable}, {Readable, Writable}}
NoType    == {}

BufferType ==
  [m_r_idx          : Int,
   m_w_idx          : Int,
   m_n_elements     : Int,
   m_is_operational : BOOLEAN,
   m_qmuxer         : QMuxers \cup {NoQMuxer},
   m_type           : SUBSET {Readable, Writable},
   m_data           : [Slots -> Values \cup {NoValue}]]

EmptyData == [s \in Slots |-> NoValue]

FreshBuffer ==
  [m_r_idx |-> 0, m_w_idx |-> 0, m_n_elements |-> 0,
   m_is_operational |-> TRUE, m_qmuxer |-> NoQMuxer, m_type |-> NoType,
   m_data |-> EmptyData]

\* cb with other indices, another count and other data.
WithRing(cb, r, w, n, data) ==
  [m_r_idx |-> r, m_w_idx |-> w, m_n_elements |-> n,
   m_is_operational |-> cb.m_is_operational,
   m_qmuxer |-> cb.m_qmuxer, m_type |-> cb.m_type, m_data |-> data]

\* cb with another registration.
WithQMuxer(cb, qmx, type) ==
  [m_r_idx |-> cb.m_r_idx, m_w_idx |-> cb.m_w_idx,
   m_n_elements |-> cb.m_n_elements,
   m_is_operational |-> cb.m_is_operational,
   m_qmuxer |-> qmx, m_type |-> type, m_data |-> cb.m_data]
-----------------------------------------------------------------------------
\* idx++ on a volatile int64_t: the build wraps it to the most negative value.
Incremented(idx) == IF idx + 1 = IndexLimit THEN -IndexLimit ELSE idx + 1

\* The remainder of C, whose sign is the dividend's.
Rem(a, b) == IF a >= 0 THEN a % b ELSE -((-a) % b)

\* Faulty: only the write index is brought back.
AdjustIndices_KeepsReadIndex(cb) ==
  IF cb.m_w_idx >= 0
  THEN cb
  ELSE WithRing(cb, cb.m_r_idx, AllocdElements, cb.m_n_elements, cb.m_data)

AdjustIndices(cb) ==
  IF cb.m_w_idx >= 0
  THEN cb
  ELSE WithRing(cb, Rem(cb.m_r_idx, AllocdElements), AllocdElements,
                cb.m_n_elements, cb.m_data)

\* s_data_addr() returns NULL for a negative index.
HasAddr(idx) == idx >= 0

SlotOf(idx)  == idx % AllocdElements

IsFull(cb)  == cb.m_n_elements >= MaxElements
IsEmpty(cb) == ~(cb.m_n_elements > 0)

\* The locked section of put, once there is room.
Stored(cb, v) ==
  LET a == AdjustIndices(cb) IN
  WithRing(a, a.m_r_idx, Incremented(a.m_w_idx), a.m_n_elements + 1,
           [a.m_data EXCEPT ![SlotOf(a.m_w_idx)] = v])

\* What get and peek copy out, and what get leaves behind.
HeadIndex(cb) == AdjustIndices(cb).m_r_idx
HeadValue(cb) == cb.m_data[SlotOf(HeadIndex(cb))]

Fetched(cb) ==
  LET a == AdjustIndices(cb) IN
  WithRing(a, Incremented(a.m_r_idx), a.m_w_idx, a.m_n_elements - 1, a.m_data)

\* Faulty: the loop runs up to and including the write index.
FreedUp_OnePastEnd(cb) ==
  LET a == AdjustIndices(cb) IN
  [i \in 1 .. a.m_w_idx - a.m_r_idx + 1 |-> a.m_data[SlotOf(a.m_r_idx + i - 1)]]

\* The values s_freeup_all_values() hands to m_del_proc, in its order: every
\* index of [r, w) that has an address.
FreedUp(cb) ==
  LET a    == AdjustIndices(cb)
      from == IF HasAddr(a.m_r_idx) THEN a.m_r_idx ELSE 0
  IN  [i \in 1 .. a.m_w_idx - from |-> a.m_data[SlotOf(from + i - 1)]]

Cleaned(cb) == WithRing(cb, 0, 0, 0, EmptyData)

ShutDown(cb) == [Cleaned(cb) EXCEPT !.m_is_operational = FALSE]
-----------------------------------------------------------------------------
\* cbuffer_setup_for_qmuxer(): the event to wait for, readable before writable.
MustWaitFor(cb, type) ==
  IF Readable \in type /\ cb.m_n_elements = 0 THEN {Readable}
  ELSE IF Writable \in type /\ MaxElements - cb.m_n_elements = 0
  THEN {Writable}
  ELSE NoType

SetUpForQMuxer(cb, qmx, type, is_pre) ==
  LET wait == MustWaitFor(cb, type) IN
  IF is_pre /\ wait # NoType
  THEN WithQMuxer(cb, qmx, wait)
  ELSE WithQMuxer(cb, NoQMuxer, NoType)

IsRegistered(cb) == cb.m_qmuxer # NoQMuxer
NotifiesOn(cb, event) == IsRegistered(cb) /\ event \in cb.m_type
-----------------------------------------------------------------------------
\* The queue a buffer stands for: the m_n_elements values from m_r_idx on.
Contents(cb) ==
  [i \in 1 .. cb.m_n_elements |-> cb.m_data[SlotOf(cb.m_r_idx + i - 1)]]

\* The indices and the count agree: w is r + n, unless the last put overflowed
\* w, in which case r is the n-th index below the limit.
RingAgrees(cb) ==
  IF cb.m_w_idx >= 0
  THEN /\ cb.m_r_idx >= 0
       /\ cb.m_w_idx = cb.m_r_idx + cb.m_n_elements
       /\ cb.m_w_idx < IndexLimit
  ELSE /\ cb.m_w_idx = -IndexLimit
       /\ cb.m_n_elements > 0
       /\ cb.m_r_idx = IndexLimit - cb.m_n_elements
=============================================================================
