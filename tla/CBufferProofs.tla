--------------------------- MODULE CBufferProofs ---------------------------
(***************************************************************************)
(* Proofs about CBuffer for every set of threads and values, every         *)
(* capacity and every width of the indices.                                *)
(***************************************************************************)
EXTENDS CBuffer, SequenceTheorems, TLAPS

(* The remainder of an integer by a positive number is one of its          *)
(* residues; it is the index of a slot in s_data_addr().                   *)
LEMMA ModRange ==
  ASSUME NEW a \in Int, NEW b \in Nat \ {0}
  PROVE  a % b \in 0 .. b - 1
OBVIOUS

(* The number that leaves remainder c is congruent to c.                   *)
LEMMA ModUnique ==
  ASSUME NEW k \in Int, NEW b \in Nat \ {0}, NEW c \in 0 .. b - 1
  PROVE  (b * k + c) % b = c
OBVIOUS

LEMMA ModSmall ==
  ASSUME NEW b \in Nat \ {0}, NEW c \in 0 .. b - 1
  PROVE  c % b = c
OBVIOUS

(* Every index has a slot.                                                 *)
LEMMA SlotInRange ==
  ASSUME NEW idx \in Int
  PROVE  SlotOf(idx) \in Slots
BY ModRange, BufferAssumption DEF SlotOf, Slots, AllocdElements

(* s_adjust_indices() keeps the record well typed and touches the two      *)
(* indices only.                                                           *)
LEMMA AdjustKeepsType ==
  ASSUME NEW b \in BufferType
  PROVE  /\ AdjustIndices(b) \in BufferType
         /\ AdjustIndices(b).m_n_elements = b.m_n_elements
         /\ AdjustIndices(b).m_is_operational = b.m_is_operational
         /\ AdjustIndices(b).m_data = b.m_data
         /\ AdjustIndices(b).m_qmuxer = b.m_qmuxer
         /\ AdjustIndices(b).m_type = b.m_type
<1>1. AllocdElements \in Nat \ {0}
  BY BufferAssumption DEF AllocdElements
<1>2. Rem(b.m_r_idx, AllocdElements) \in Int
  BY <1>1, ModRange DEF BufferType, Rem
<1>3. QED
  BY <1>1, <1>2 DEF AdjustIndices, WithRing, BufferType

(* A put keeps the record well typed and adds one element.                 *)
LEMMA StoredKeepsType ==
  ASSUME NEW b \in BufferType, NEW v \in Values
  PROVE  /\ Stored(b, v) \in BufferType
         /\ Stored(b, v).m_n_elements = b.m_n_elements + 1
         /\ Stored(b, v).m_is_operational = b.m_is_operational
<1> DEFINE a == AdjustIndices(b)
<1>1. /\ a \in BufferType
      /\ a.m_n_elements = b.m_n_elements
      /\ a.m_is_operational = b.m_is_operational
  BY AdjustKeepsType
<1>2. SlotOf(a.m_w_idx) \in Slots
  BY <1>1, SlotInRange DEF BufferType
<1>3. Incremented(a.m_w_idx) \in Int
  BY <1>1, BufferAssumption DEF BufferType, Incremented
<1>4. [a.m_data EXCEPT ![SlotOf(a.m_w_idx)] = v]
         \in [Slots -> Values \cup {NoValue}]
  BY <1>1, <1>2 DEF BufferType
<1> HIDE DEF a
<1>5. QED
  BY <1>1, <1>3, <1>4 DEF Stored, WithRing, BufferType, a

(* A get keeps the record well typed and takes one element; the value it   *)
(* copies is that of a slot.                                               *)
LEMMA FetchedKeepsType ==
  ASSUME NEW b \in BufferType
  PROVE  /\ Fetched(b) \in BufferType
         /\ Fetched(b).m_n_elements = b.m_n_elements - 1
         /\ Fetched(b).m_is_operational = b.m_is_operational
         /\ HeadValue(b) \in Values \cup {NoValue}
<1> DEFINE a == AdjustIndices(b)
<1>1. /\ a \in BufferType
      /\ a.m_n_elements = b.m_n_elements
      /\ a.m_is_operational = b.m_is_operational
      /\ a.m_data = b.m_data
  BY AdjustKeepsType
<1>2. SlotOf(a.m_r_idx) \in Slots
  BY <1>1, SlotInRange DEF BufferType
<1>3. Incremented(a.m_r_idx) \in Int
  BY <1>1, BufferAssumption DEF BufferType, Incremented
<1>4. HeadValue(b) \in Values \cup {NoValue}
  BY <1>1, <1>2 DEF HeadValue, HeadIndex, BufferType
<1> HIDE DEF a
<1>5. QED
  BY <1>1, <1>3, <1>4 DEF Fetched, WithRing, BufferType, a

(* Cleaning keeps the record well typed and leaves no element; what goes   *)
(* to the free-up function is a sequence of slot contents.                 *)
LEMMA CleanedKeepsType ==
  ASSUME NEW b \in BufferType
  PROVE  /\ Cleaned(b) \in BufferType
         /\ Cleaned(b).m_n_elements = 0
         /\ Cleaned(b).m_is_operational = b.m_is_operational
         /\ ShutDown(b) \in BufferType
         /\ ShutDown(b).m_n_elements = 0
         /\ ShutDown(b).m_is_operational = FALSE
         /\ FreedUp(b) \in Seq(Values \cup {NoValue})
<1>1. EmptyData \in [Slots -> Values \cup {NoValue}]
  BY DEF EmptyData
<1>2. /\ Cleaned(b) \in BufferType
      /\ Cleaned(b).m_n_elements = 0
      /\ Cleaned(b).m_is_operational = b.m_is_operational
  BY <1>1 DEF Cleaned, WithRing, BufferType
<1>3. /\ ShutDown(b) \in BufferType
      /\ ShutDown(b).m_n_elements = 0
      /\ ShutDown(b).m_is_operational = FALSE
  BY <1>2 DEF ShutDown, BufferType
<1>4. FreedUp(b) \in Seq(Values \cup {NoValue})
  <2> DEFINE a == AdjustIndices(b)
             from == IF HasAddr(a.m_r_idx) THEN a.m_r_idx ELSE 0
             n == a.m_w_idx - from
             f == [i \in 1 .. n |-> a.m_data[SlotOf(from + i - 1)]]
  <2>1. a \in BufferType
    BY AdjustKeepsType
  <2>2. from \in Int /\ n \in Int
    BY <2>1 DEF BufferType
  <2>3. \A i \in 1 .. n : a.m_data[SlotOf(from + i - 1)] \in Values \cup {NoValue}
    BY <2>1, <2>2, SlotInRange DEF BufferType
  <2> HIDE DEF a, from, n
  <2>4. f \in Seq(Values \cup {NoValue})
    <3>1. CASE n >= 0
      <4>1. n \in Nat
        BY <2>2, <3>1
      <4>2. f \in [1 .. n -> Values \cup {NoValue}]
        BY <2>3
      <4>3. QED
        BY <4>1, <4>2
    <3>2. CASE n < 0
      <4>1. 1 .. n = 1 .. 0
        BY <2>2, <3>2
      <4>2. f \in [1 .. 0 -> Values \cup {NoValue}]
        BY <2>3, <4>1
      <4>3. QED
        BY <4>2, SeqDef, ZenonT(60)
    <3>3. QED
      BY <2>2, <3>1, <3>2
  <2>5. FreedUp(b) = f
    BY DEF FreedUp, f, n, from, a
  <2>6. QED
    BY <2>4, <2>5
<1>5. QED
  BY <1>2, <1>3, <1>4

(* The registration of a queue muxer keeps the record well typed and does  *)
(* not touch the queue.                                                    *)
LEMMA SetUpKeepsType ==
  ASSUME NEW b \in BufferType, NEW qmx \in QMuxers, NEW type \in PollTypes,
         NEW is_pre \in BOOLEAN
  PROVE  /\ SetUpForQMuxer(b, qmx, type, is_pre) \in BufferType
         /\ SetUpForQMuxer(b, qmx, type, is_pre).m_n_elements = b.m_n_elements
         /\ SetUpForQMuxer(b, qmx, type, is_pre).m_is_operational
              = b.m_is_operational
<1>1. MustWaitFor(b, type) \in SUBSET {Readable, Writable}
  BY DEF MustWaitFor, NoType
<1>2. QED
  BY <1>1 DEF SetUpForQMuxer, WithQMuxer, BufferType, NoType

(* The arguments of a call have the type its operation expects.            *)
LEMMA CallsAreTyped ==
  ASSUME NEW c \in Calls
  PROVE  /\ c.flag \in BOOLEAN
         /\ c.op = "put" => c.arg \in Values
         /\ c.op = "setup" => c.arg \in PollTypes
BY DEF Calls, CallType, QueryOps
-----------------------------------------------------------------------------
(***************************************************************************)
(* The inductive invariant.  NoLostWakeup needs the count's bounds (a      *)
(* producer that found the buffer full found exactly MaxElements), the     *)
(* type of a queried size needs them too, and the re-creation of a buffer  *)
(* preserves NoLostWakeup only because nobody was left in the old one.     *)
(***************************************************************************)
IInv ==
  /\ TypeOK
  /\ CountInBounds
  /\ NoLostWakeup
  /\ JanitorOwnsLock
  /\ DestroyedIsQuiet

(* A return keeps the program counters, calls and results well typed.      *)
LEMMA ReturnsKeepsType ==
  ASSUME TypeOK, NEW t \in Threads,
         NEW code \in {"OK", "TIMEDOUT", "NOT_OPERATIONAL"},
         NEW out \in Values \cup {NoValue} \cup Nat,
         NEW conds \in SUBSET {"wait_get", "wait_put"},
         Returns(t, code, out, conds)
  PROVE  /\ pc' \in [Threads -> PCs]
         /\ call' \in [Threads -> Calls \cup {NoCall}]
         /\ \A u \in Threads : pc'[u] \notin {"idle", "canceled", "ended"} => call'[u] \in Calls
         /\ ret' \in [Threads -> Results \cup {NoResult}]
         /\ pc'[t] = "idle"
         /\ \A u \in Threads \ {t} :
              pc'[u] = IF pc[u] \in conds THEN "entry" ELSE pc[u]
<1>1. Result(code, out) \in Results
  BY DEF Result, Results
<1>2. Awakened(conds) \in [Threads -> PCs]
  BY DEF Awakened, TypeOK, PCs
<1>3. QED
  BY <1>1, <1>2 DEF Returns, Awakened, TypeOK, PCs

(* A step that returns from a call preserves the invariant if it awakens   *)
(* every thread whose condition it does not leave as it must be.           *)
LEMMA ReturningStep ==
  ASSUME IInv, NEW t \in Threads,
         NEW code \in {"OK", "TIMEDOUT", "NOT_OPERATIONAL"},
         NEW out \in Values \cup {NoValue} \cup Nat,
         NEW conds \in SUBSET {"wait_get", "wait_put"},
         Returns(t, code, out, conds),
         pc[t] \notin {"idle", "canceled", "ended"},
         cb' \in BufferType, cb'.m_n_elements \in 0 .. MaxElements,
         freed' \in Seq(Values \cup {NoValue}), notified' \in BOOLEAN,
         UNCHANGED <<m_lock, alive, exited>>,
         \A u \in Threads : pc[u] = "wait_get" /\ "wait_get" \notin conds
           => cb'.m_is_operational /\ cb'.m_n_elements = 0,
         \A u \in Threads : pc[u] = "wait_put" /\ "wait_put" \notin conds
           => cb'.m_is_operational /\ cb'.m_n_elements = MaxElements
  PROVE  IInv'
<1>1. /\ pc' \in [Threads -> PCs]
      /\ call' \in [Threads -> Calls \cup {NoCall}]
      /\ \A u \in Threads : pc'[u] \notin {"idle", "canceled", "ended"} => call'[u] \in Calls
      /\ ret' \in [Threads -> Results \cup {NoResult}]
      /\ pc'[t] = "idle"
      /\ \A u \in Threads \ {t} :
           pc'[u] = IF pc[u] \in conds THEN "entry" ELSE pc[u]
  <2>1. TypeOK
    BY DEF IInv
  <2>2. QED
    BY <2>1, ReturnsKeepsType
<1>2. TypeOK'
  BY <1>1 DEF IInv, TypeOK
<1>3. NoLostWakeup'
  BY <1>1 DEF NoLostWakeup
<1>4. JanitorOwnsLock'
  BY <1>1 DEF IInv, JanitorOwnsLock
<1>5. DestroyedIsQuiet'
  BY <1>1 DEF IInv, DestroyedIsQuiet
<1>6. QED
  BY <1>2, <1>3, <1>4, <1>5 DEF IInv, CountInBounds

(* The initial state.                                                      *)
LEMMA InitIInv == Init => IInv
<1> SUFFICES ASSUME Init PROVE IInv
  OBVIOUS
<1>1. FreshBuffer \in BufferType
  BY DEF FreshBuffer, BufferType, EmptyData, NoType
<1>2. TypeOK
  <2>1. freed \in Seq(Values \cup {NoValue})
    BY DEF Init
  <2>2. QED
    BY <1>1, <2>1 DEF Init, TypeOK, PCs
<1>3. cb.m_n_elements = 0
  BY DEF Init, FreshBuffer
<1>4. QED
  BY <1>2, <1>3, BufferAssumption, ThreadAssumption
  DEF Init, IInv, CountInBounds, NoLostWakeup, JanitorOwnsLock, DestroyedIsQuiet

(* One step per action of Next.                                            *)
LEMMA NextIInv == IInv /\ [Next]_vars => IInv'
<1> SUFFICES ASSUME IInv, [Next]_vars PROVE IInv'
  OBVIOUS
<1>0. /\ TypeOK /\ NoLostWakeup
      /\ cb \in BufferType /\ cb.m_n_elements \in 0 .. MaxElements
      /\ freed \in Seq(Values \cup {NoValue}) /\ notified \in BOOLEAN
      /\ cb.m_is_operational \in BOOLEAN
      /\ MaxElements \in Nat \ {0} /\ 0 \in 0 .. MaxElements
      /\ <<>> \in Seq(Values \cup {NoValue})
  BY BufferAssumption DEF IInv, TypeOK, CountInBounds, BufferType
<1>a. ASSUME NEW t \in Threads, Enter(t)
      PROVE  IInv'
  BY <1>a DEF Enter, IInv, TypeOK, CountInBounds, NoLostWakeup, JanitorOwnsLock,
              DestroyedIsQuiet, PCs
<1>b. ASSUME NEW t \in Threads, NotOperational(t)
      PROVE  IInv'
  <2>1. /\ Returns(t, "NOT_OPERATIONAL", NoValue, {})
        /\ pc[t] = "entry"
        /\ UNCHANGED <<cb, m_lock, freed, notified, alive, exited>>
    BY <1>b DEF NotOperational, Locked
  <2>2. QED
    BY <1>0, <2>1, ReturningStep DEF NoLostWakeup
<1>c. ASSUME NEW t \in Threads, PutStores(t)
      PROVE  IInv'
  <2>1. /\ Returns(t, "OK", NoValue, {"wait_get"})
        /\ pc[t] = "entry" /\ call[t].op = "put"
        /\ ~IsFull(cb)
        /\ cb' = Stored(cb, call[t].arg)
        /\ notified' = (notified \/ NotifiesOn(cb, Readable))
        /\ UNCHANGED <<m_lock, freed, alive, exited>>
    BY <1>c DEF PutStores, Locked
  <2>2. call[t].arg \in Values
    BY <1>0, <2>1, CallsAreTyped DEF TypeOK
  <2>3. cb' \in BufferType /\ cb'.m_n_elements = cb.m_n_elements + 1
    BY <1>0, <2>1, <2>2, StoredKeepsType
  <2>4. cb.m_n_elements < MaxElements
    BY <1>0, <2>1 DEF IsFull
  <2>5. notified' \in BOOLEAN
    BY <1>0, <2>1
  <2>6. \A u \in Threads : pc[u] # "wait_put"
    BY <1>0, <2>4 DEF NoLostWakeup
  <2>7. cb'.m_n_elements \in 0 .. MaxElements
    BY <1>0, <2>3, <2>4
  <2>8. QED
    BY <1>0, <2>1, <2>3, <2>5, <2>6, <2>7, ReturningStep
<1>d. ASSUME NEW t \in Threads, PutWaits(t)
      PROVE  IInv'
  <2>1. pc[t] = "entry" /\ call[t] \in Calls
    BY <1>0, <1>d DEF PutWaits, Locked, TypeOK
  <2>2. /\ cb' \in BufferType
        /\ cb'.m_n_elements = cb.m_n_elements
        /\ cb'.m_is_operational = cb.m_is_operational
    BY <1>0, <1>d, AdjustKeepsType DEF PutWaits, Waits
  <2>3. cb.m_n_elements = MaxElements /\ cb.m_is_operational
    BY <1>0, <1>d DEF PutWaits, IsFull
  <2>4. QED
    BY <1>0, <1>d, <2>1, <2>2, <2>3
    DEF PutWaits, Waits, IInv, TypeOK, CountInBounds, NoLostWakeup,
        JanitorOwnsLock, DestroyedIsQuiet, PCs
<1>e. ASSUME NEW t \in Threads, GetFetches(t)
      PROVE  IInv'
  <2>1. /\ Returns(t, "OK", HeadValue(cb), {"wait_put"})
        /\ pc[t] = "entry"
        /\ ~IsEmpty(cb)
        /\ cb' = Fetched(cb)
        /\ notified' = (notified \/ NotifiesOn(cb, Writable))
        /\ UNCHANGED <<m_lock, freed, alive, exited>>
    BY <1>e DEF GetFetches, Locked
  <2>2. /\ cb' \in BufferType
        /\ cb'.m_n_elements = cb.m_n_elements - 1
        /\ HeadValue(cb) \in Values \cup {NoValue}
    BY <1>0, <2>1, FetchedKeepsType
  <2>3. cb.m_n_elements > 0
    BY <2>1 DEF IsEmpty
  <2>4. notified' \in BOOLEAN
    BY <1>0, <2>1
  <2>5. \A u \in Threads : pc[u] # "wait_get"
    BY <1>0, <2>3 DEF NoLostWakeup
  <2>6. cb'.m_n_elements \in 0 .. MaxElements
    BY <1>0, <2>2, <2>3
  <2>7. QED
    BY <1>0, <2>1, <2>2, <2>4, <2>5, <2>6, ReturningStep
<1>f. ASSUME NEW t \in Threads, PeekCopies(t)
      PROVE  IInv'
  <2>1. /\ Returns(t, "OK", HeadValue(cb), {})
        /\ pc[t] = "entry"
        /\ cb' = AdjustIndices(cb)
        /\ UNCHANGED <<m_lock, freed, notified, alive, exited>>
    BY <1>f DEF PeekCopies, Locked
  <2>2. /\ cb' \in BufferType
        /\ cb'.m_n_elements = cb.m_n_elements
        /\ cb'.m_is_operational = cb.m_is_operational
        /\ HeadValue(cb) \in Values \cup {NoValue}
    BY <1>0, <2>1, FetchedKeepsType, AdjustKeepsType
  <2>3. QED
    BY <1>0, <2>1, <2>2, ReturningStep DEF NoLostWakeup
<1>g. ASSUME NEW t \in Threads, GetOrPeekWaits(t)
      PROVE  IInv'
  <2>1. pc[t] = "entry" /\ call[t] \in Calls
    BY <1>0, <1>g DEF GetOrPeekWaits, Locked, TypeOK
  <2>2. /\ cb' \in BufferType
        /\ cb'.m_n_elements = cb.m_n_elements
        /\ cb'.m_is_operational = cb.m_is_operational
    BY <1>0, <1>g, AdjustKeepsType DEF GetOrPeekWaits, Waits
  <2>3. cb.m_n_elements = 0 /\ cb.m_is_operational
    BY <1>0, <1>g DEF GetOrPeekWaits, IsEmpty
  <2>4. QED
    BY <1>0, <1>g, <2>1, <2>2, <2>3
    DEF GetOrPeekWaits, Waits, IInv, TypeOK, CountInBounds, NoLostWakeup,
        JanitorOwnsLock, DestroyedIsQuiet, PCs
<1>h. ASSUME NEW t \in Threads, ReadPointerError(t)
      PROVE  IInv'
  BY <1>h DEF ReadPointerError, IInv, TypeOK, CountInBounds, NoLostWakeup,
              JanitorOwnsLock, DestroyedIsQuiet
<1>i. ASSUME NEW t \in Threads, Expires(t)
      PROVE  IInv'
  <2>1. /\ Returns(t, "TIMEDOUT", NoValue, {})
        /\ pc[t] \in {"wait_put", "wait_get"}
        /\ UNCHANGED <<cb, m_lock, freed, notified, alive, exited>>
    BY <1>i DEF Expires, ExpiredCode
  <2>2. QED
    BY <1>0, <2>1, ReturningStep DEF NoLostWakeup
<1>j. ASSUME NEW t \in Threads, SpuriousWakeup(t)
      PROVE  IInv'
  BY <1>j DEF SpuriousWakeup, IInv, TypeOK, CountInBounds, NoLostWakeup,
              JanitorOwnsLock, DestroyedIsQuiet, PCs
<1>k. ASSUME NEW t \in Threads, Clear(t)
      PROVE  IInv'
  <2>1. /\ Returns(t, "OK", NoValue, {"wait_put"})
        /\ pc[t] = "entry"
        /\ cb' = Cleaned(cb)
        /\ freed' = FreedUp(cb) \/ freed' = <<>>
        /\ notified' = (notified \/ NotifiesOn(cb, Readable))
        /\ UNCHANGED <<m_lock, alive, exited>>
    BY <1>k DEF Clear, Locked
  <2>2. /\ cb' \in BufferType
        /\ cb'.m_n_elements = 0
        /\ cb'.m_is_operational = cb.m_is_operational
        /\ freed' \in Seq(Values \cup {NoValue})
    BY <1>0, <2>1, CleanedKeepsType
  <2>3. notified' \in BOOLEAN /\ cb'.m_n_elements \in 0 .. MaxElements
    BY <1>0, <2>1, <2>2
  <2>4. \A u \in Threads :
          pc[u] = "wait_get" => cb'.m_is_operational /\ cb'.m_n_elements = 0
    BY <1>0, <2>2 DEF NoLostWakeup
  <2>5. QED
    BY <2>1, <2>2, <2>3, <2>4, ReturningStep
<1>l. ASSUME NEW t \in Threads, Shutdown(t)
      PROVE  IInv'
  <2>1. pc[t] = "entry" /\ UNCHANGED <<m_lock, alive, exited>>
    BY <1>l DEF Shutdown, Locked
  <2>2. CASE cb.m_is_operational
    <3>1. /\ Returns(t, "OK", NoValue, {"wait_get", "wait_put"})
          /\ cb' = ShutDown(cb)
          /\ freed' = FreedUp(cb) \/ freed' = <<>>
          /\ notified' = (notified \/ IsRegistered(cb))
      BY <1>l, <2>2 DEF Shutdown, ShutdownWakes, ShutdownNotifies
    <3>2. /\ cb' \in BufferType
          /\ cb'.m_n_elements = 0
          /\ freed' \in Seq(Values \cup {NoValue})
      BY <1>0, <3>1, CleanedKeepsType
    <3>3. notified' \in BOOLEAN /\ cb'.m_n_elements \in 0 .. MaxElements
      BY <1>0, <3>1, <3>2
    <3>4. QED
      BY <2>1, <3>1, <3>2, <3>3, ReturningStep
  <2>3. CASE ~cb.m_is_operational
    <3>1. Returns(t, "OK", NoValue, {}) /\ UNCHANGED <<cb, freed, notified>>
      BY <1>l, <2>3 DEF Shutdown
    <3>2. QED
      BY <1>0, <2>1, <3>1, ReturningStep DEF NoLostWakeup
  <2>4. QED
    BY <2>2, <2>3
<1>m. ASSUME NEW t \in Threads, Query(t) \/ IsOperational(t)
      PROVE  IInv'
  <2>1. PICK out \in Nat : Returns(t, "OK", out, {})
    BY <1>0, <1>m DEF Query, IsOperational
  <2>2. /\ pc[t] = "entry"
        /\ UNCHANGED <<cb, m_lock, freed, notified, alive, exited>>
    BY <1>m DEF Query, IsOperational, Locked
  <2>3. QED
    BY <1>0, <2>1, <2>2, ReturningStep DEF NoLostWakeup
<1>n. ASSUME NEW t \in Threads, SetupForQMuxer(t)
      PROVE  IInv'
  <2>1. PICK out \in Nat : Returns(t, "OK", out, {})
    BY <1>n DEF SetupForQMuxer
  <2>2. /\ pc[t] = "entry" /\ call[t].op = "setup"
        /\ notified' = FALSE
        /\ UNCHANGED <<m_lock, freed, alive, exited>>
    BY <1>n DEF SetupForQMuxer, Locked
  <2>3. PICK qmx \in QMuxers :
          cb' = SetUpForQMuxer(cb, qmx, call[t].arg, call[t].flag)
    BY <1>n DEF SetupForQMuxer
  <2>4. call[t].arg \in PollTypes /\ call[t].flag \in BOOLEAN
    BY <1>0, <2>2, CallsAreTyped DEF TypeOK
  <2>5. /\ cb' \in BufferType
        /\ cb'.m_n_elements = cb.m_n_elements
        /\ cb'.m_is_operational = cb.m_is_operational
    BY <1>0, <2>3, <2>4, SetUpKeepsType
  <2>6. QED
    BY <1>0, <2>1, <2>2, <2>5, ReturningStep DEF NoLostWakeup
<1>o. ASSUME NEW t \in Threads, Destroy(t)
      PROVE  IInv'
  <2>1. /\ cb' \in BufferType
        /\ cb'.m_n_elements \in 0 .. MaxElements
        /\ freed' \in Seq(Values \cup {NoValue})
        /\ notified' \in BOOLEAN
    <3>1. CASE cb.m_is_operational
      <4>1. /\ cb' = ShutDown(cb)
            /\ freed' = FreedUp(cb) \/ freed' = <<>>
            /\ notified' = (notified \/ IsRegistered(cb))
        BY <1>o, <3>1 DEF Destroy, ShutdownNotifies
      <4>2. QED
        BY <1>0, <4>1, CleanedKeepsType
    <3>2. CASE ~cb.m_is_operational
      <4>1. UNCHANGED <<cb, freed, notified>>
        BY <1>o, <3>2 DEF Destroy
      <4>2. QED
        BY <1>0, <4>1
    <3>3. QED
      BY <3>1, <3>2
  <2>2. /\ \A u \in Threads : pc[u] \in {"idle", "ended"}
        /\ alive' = FALSE
        /\ ret' = [ret EXCEPT ![t] = Result("OK", NoValue)]
        /\ UNCHANGED <<m_lock, pc, call, exited>>
    BY <1>o DEF Destroy
  <2>3. ret' \in [Threads -> Results \cup {NoResult}]
    BY <1>0, <2>2 DEF TypeOK, Result, Results
  <2>4. QED
    BY <1>0, <2>1, <2>2, <2>3
    DEF IInv, TypeOK, CountInBounds, NoLostWakeup, JanitorOwnsLock,
        DestroyedIsQuiet
<1>p. ASSUME NEW t \in Threads, Create(t)
      PROVE  IInv'
  <2>1. FreshBuffer \in BufferType /\ FreshBuffer.m_n_elements = 0
    BY DEF FreshBuffer, BufferType, EmptyData, NoType
  <2>2. /\ \A u \in Threads : pc[u] \in {"idle", "ended"}
        /\ cb' = FreshBuffer /\ alive' = TRUE /\ notified' = FALSE
        /\ UNCHANGED <<m_lock, pc, call, ret, freed, exited>>
    BY <1>p DEF Create, IInv, DestroyedIsQuiet
  <2>3. cb' \in BufferType /\ cb'.m_n_elements \in 0 .. MaxElements
    BY <1>0, <2>1, <2>2
  <2>4. QED
    BY <2>2, <2>3
    DEF IInv, TypeOK, CountInBounds, NoLostWakeup, JanitorOwnsLock,
        DestroyedIsQuiet
<1>q. ASSUME NEW t \in Threads, Cancel(t)
      PROVE  IInv'
  BY <1>q, ThreadAssumption
  DEF Cancel, IInv, TypeOK, CountInBounds, NoLostWakeup, JanitorOwnsLock,
      DestroyedIsQuiet, PCs
<1>r. ASSUME NEW t \in Threads, CancelJanitor(t)
      PROVE  IInv'
  BY <1>r, ThreadAssumption
  DEF CancelJanitor, IInv, TypeOK, CountInBounds, NoLostWakeup,
      JanitorOwnsLock, DestroyedIsQuiet, PCs
<1>s. CASE UNCHANGED vars
  BY <1>s DEF vars, IInv, TypeOK, CountInBounds, NoLostWakeup,
              JanitorOwnsLock, DestroyedIsQuiet
<1>t. QED
  BY <1>a, <1>b, <1>c, <1>d, <1>e, <1>f, <1>g, <1>h, <1>i, <1>j, <1>k, <1>l,
     <1>m, <1>n, <1>o, <1>p, <1>q, <1>r, <1>s
  DEF Next, Section, Exited

(* The type invariant and the bounds of the count hold in every execution, *)
(* also after an overflow of the indices.                                  *)
THEOREM TypeCorrect == Spec => [](TypeOK /\ CountInBounds)
<1>1. IInv => TypeOK /\ CountInBounds
  BY DEF IInv
<1>2. QED
  BY InitIInv, NextIInv, <1>1, PTL DEF Spec

(* No thread sleeps in put, get or peek while it could proceed, and none   *)
(* sleeps in a buffer that was shut down (cbuffer.c, the three waits and   *)
(* the broadcasts of put, get, clear and shutdown).                        *)
THEOREM WakeupsAreNotLost == Spec => []NoLostWakeup
<1>1. IInv => NoLostWakeup
  BY DEF IInv
<1>2. QED
  BY InitIInv, NextIInv, <1>1, PTL DEF Spec

(* The janitor always unlocks a mutex that its caller holds.               *)
THEOREM JanitorIsSound == Spec => []JanitorOwnsLock
<1>1. IInv => JanitorOwnsLock
  BY DEF IInv
<1>2. QED
  BY InitIInv, NextIInv, <1>1, PTL DEF Spec
-----------------------------------------------------------------------------
(***************************************************************************)
(* What a registered queue muxer is told.  The invariant is inductive with  *)
(* the types alone: a put notifies who waits to read, whoever is registered *)
(* later found the buffer without the event, and a shutdown tells everybody.*)
(***************************************************************************)
LEMMA RegistrationStays ==
  ASSUME NEW b \in BufferType, NEW v
  PROVE  /\ \A c \in {AdjustIndices(b), Stored(b, v), Fetched(b), Cleaned(b)} :
              c.m_qmuxer = b.m_qmuxer /\ c.m_type = b.m_type
         /\ ShutDown(b).m_qmuxer = b.m_qmuxer /\ ~ShutDown(b).m_is_operational
<1>1. AdjustIndices(b) \in BufferType
      /\ AdjustIndices(b).m_qmuxer = b.m_qmuxer /\ AdjustIndices(b).m_type = b.m_type
  BY AdjustKeepsType
<1>2. /\ Stored(b, v).m_qmuxer = b.m_qmuxer /\ Stored(b, v).m_type = b.m_type
      /\ Fetched(b).m_qmuxer = b.m_qmuxer /\ Fetched(b).m_type = b.m_type
  BY <1>1 DEF Stored, Fetched, WithRing
<1>3. /\ Cleaned(b).m_qmuxer = b.m_qmuxer /\ Cleaned(b).m_type = b.m_type
      /\ ShutDown(b).m_qmuxer = b.m_qmuxer /\ ~ShutDown(b).m_is_operational
  BY DEF Cleaned, ShutDown, WithRing
<1>4. QED
  BY <1>1, <1>2, <1>3

LEMMA NextNotifies == IInv /\ ReadinessIsNotified /\ [Next]_vars => ReadinessIsNotified'
<1> SUFFICES ASSUME IInv, ReadinessIsNotified, [Next]_vars PROVE ReadinessIsNotified'
  OBVIOUS
<1> USE DEF ReadinessIsNotified, IsRegistered
<1>1. /\ cb \in BufferType /\ cb.m_n_elements \in 0 .. MaxElements
      /\ \A t \in Threads : pc[t] = "entry" => call[t] \in Calls
  BY DEF IInv, TypeOK, CountInBounds
<1>2. CASE UNCHANGED <<cb, notified>>
  BY <1>2
<1>3. ASSUME NEW t \in Threads, PutStores(t) PROVE ReadinessIsNotified'
  <2>1. /\ cb.m_is_operational /\ cb' = Stored(cb, call[t].arg)
        /\ notified' = (notified \/ NotifiesOn(cb, Readable))
        /\ call[t].arg \in Values
    BY <1>1, <1>3, CallsAreTyped DEF PutStores, Locked
  <2>2. cb'.m_qmuxer = cb.m_qmuxer /\ cb'.m_type = cb.m_type /\ cb'.m_is_operational
    BY <1>1, <2>1, RegistrationStays, StoredKeepsType
  <2>3. QED
    BY <2>1, <2>2 DEF NotifiesOn
<1>4. ASSUME NEW t \in Threads, GetFetches(t) PROVE ReadinessIsNotified'
  <2>1. /\ cb.m_is_operational /\ cb' = Fetched(cb) /\ cb.m_n_elements > 0
        /\ notified' = (notified \/ NotifiesOn(cb, Writable))
    BY <1>4 DEF GetFetches, IsEmpty
  <2>2. cb'.m_qmuxer = cb.m_qmuxer /\ cb'.m_type = cb.m_type /\ cb'.m_is_operational
    BY <1>1, <2>1, RegistrationStays, FetchedKeepsType
  <2>3. cb.m_n_elements # 0
    BY <1>1, <2>1
  <2>4. ~notified' => ~notified
    BY <2>1
  <2>5. QED
    BY <2>1, <2>2, <2>3, <2>4
<1>5. ASSUME NEW t \in Threads, PutWaits(t) \/ GetOrPeekWaits(t) \/ PeekCopies(t)
      PROVE  ReadinessIsNotified'
  <2>1. cb' = AdjustIndices(cb) /\ notified' = notified
    BY <1>5 DEF PutWaits, GetOrPeekWaits, PeekCopies, Waits
  <2>2. QED
    BY <1>1, <2>1, AdjustKeepsType
<1>6. ASSUME NEW t \in Threads, Clear(t) PROVE ReadinessIsNotified'
  <2>1. /\ cb' = Cleaned(cb) /\ notified' = (notified \/ NotifiesOn(cb, Readable))
    BY <1>6 DEF Clear
  <2>2. /\ cb'.m_qmuxer = cb.m_qmuxer /\ cb'.m_type = cb.m_type /\ cb'.m_n_elements = 0
        /\ cb'.m_is_operational = cb.m_is_operational
    BY <2>1 DEF Cleaned, WithRing
  <2>3. QED
    BY <2>1, <2>2
<1>7. ASSUME NEW t \in Threads, Shutdown(t) \/ Destroy(t) PROVE ReadinessIsNotified'
  <2>1. CASE cb.m_is_operational
    <3>1. cb' = ShutDown(cb) /\ notified' = (notified \/ IsRegistered(cb))
      BY <1>7, <2>1 DEF Shutdown, Destroy, ShutdownNotifies
    <3>2. cb'.m_qmuxer = cb.m_qmuxer
      BY <3>1 DEF ShutDown, Cleaned, WithRing
    <3>3. QED
      BY <3>1, <3>2
  <2>2. CASE ~cb.m_is_operational
    BY <1>2, <1>7, <2>2 DEF Shutdown, Destroy
  <2>3. QED
    BY <2>1, <2>2
<1>8. ASSUME NEW t \in Threads, Create(t) PROVE ReadinessIsNotified'
  BY <1>8 DEF Create, FreshBuffer
<1>9. ASSUME NEW t \in Threads, SetupForQMuxer(t) PROVE ReadinessIsNotified'
  <2>1. PICK qmx \in QMuxers : cb' = SetUpForQMuxer(cb, qmx, call[t].arg, call[t].flag)
    BY <1>9 DEF SetupForQMuxer
  <2>2. cb.m_is_operational
    BY <1>9 DEF SetupForQMuxer
  <2>3. QED
    BY <1>1, <2>1, <2>2, BufferAssumption
    DEF SetUpForQMuxer, WithQMuxer, MustWaitFor, NoType, Readable, Writable
<1>10. ASSUME NEW t \in Threads,
              \/ Enter(t) \/ NotOperational(t) \/ Expires(t)
              \/ SpuriousWakeup(t) \/ Query(t) \/ IsOperational(t)
              \/ Cancel(t) \/ CancelJanitor(t) \/ ReadPointerError(t)
       PROVE  ReadinessIsNotified'
  BY <1>10 DEF Enter, NotOperational, Expires, SpuriousWakeup, Query,
               IsOperational, Cancel, CancelJanitor, ReadPointerError
<1>11. CASE UNCHANGED vars
  BY <1>2, <1>11 DEF vars
<1>12. QED
  BY <1>3, <1>4, <1>5, <1>6, <1>7, <1>8, <1>9, <1>10, <1>11 DEF Next, Section, Exited

(* A queue muxer that waits for an element hears of it, and of a shutdown,  *)
(* whatever happened to the queue since it was registered: a clear, a get   *)
(* by somebody else, an overflow of the indices (qmuxer_notify in cbuffer.c).*)
THEOREM ReadinessIsTold == Spec => []ReadinessIsNotified
<1>1. Init => ReadinessIsNotified
  BY DEF Init, FreshBuffer, ReadinessIsNotified, IsRegistered
<1>2. QED
  BY InitIInv, NextIInv, NextNotifies, <1>1, PTL DEF Spec
-----------------------------------------------------------------------------
(***************************************************************************)
(* When the number of slots divides 2^63, the overflow of the write index  *)
(* is harmless.  The theorem below is stated under that hypothesis; without *)
(* it the order of the values is lost and get can end the process, as it    *)
(* does in the run "contention".                                           *)
(***************************************************************************)
SlotsDivideRange == IndexLimit % AllocdElements = 0

(* The slot of the n-th index below the limit is the n-th slot from the    *)
(* end.                                                                    *)
LEMMA SlotBelowLimit ==
  ASSUME SlotsDivideRange, NEW n \in 1 .. MaxElements
  PROVE  (IndexLimit - n) % AllocdElements = AllocdElements - n
<1> DEFINE A == AllocdElements
           q == IndexLimit \div A
<1>1. A \in Nat \ {0} /\ IndexLimit \in Nat /\ A - n \in 0 .. A - 1
  BY BufferAssumption DEF AllocdElements
<1>2. q \in Int /\ IndexLimit = A * q + (IndexLimit % A)
  BY <1>1
<1> DEFINE k == q - 1
           c == A - n
<1>3. /\ k \in Int /\ c \in 0 .. A - 1
      /\ IndexLimit - n = A * k + c
  BY <1>1, <1>2 DEF SlotsDivideRange
<1> HIDE DEF A, k, c
<1>4. (A * k + c) % A = c
  BY <1>1, <1>3, ModUnique
<1>5. QED
  BY <1>3, <1>4 DEF A, c

(* s_adjust_indices() brings overflown indices back to agreement.          *)
LEMMA AdjustRestores ==
  ASSUME SlotsDivideRange,
         NEW b \in BufferType, b.m_n_elements \in 0 .. MaxElements,
         RingAgrees(b)
  PROVE  LET a == AdjustIndices(b) IN
         /\ a.m_w_idx >= 0 /\ a.m_r_idx >= 0
         /\ a.m_w_idx = a.m_r_idx + b.m_n_elements
         /\ a.m_w_idx < IndexLimit
         /\ RingAgrees(a)
<1>1. CASE b.m_w_idx >= 0
  BY <1>1 DEF AdjustIndices, RingAgrees
<1>2. CASE ~(b.m_w_idx >= 0)
  <2>1. /\ b.m_n_elements \in 1 .. MaxElements
        /\ b.m_r_idx = IndexLimit - b.m_n_elements
        /\ b.m_r_idx >= 0
    BY <1>2, BufferAssumption DEF RingAgrees, BufferType, AllocdElements
  <2>2. Rem(b.m_r_idx, AllocdElements) = AllocdElements - b.m_n_elements
    BY <2>1, SlotBelowLimit DEF Rem
  <2>3. /\ AdjustIndices(b).m_w_idx = AllocdElements
        /\ AdjustIndices(b).m_r_idx = AllocdElements - b.m_n_elements
        /\ AdjustIndices(b).m_n_elements = b.m_n_elements
    BY <1>2, <2>2 DEF AdjustIndices, WithRing
  <2>4. QED
    BY <2>1, <2>3, BufferAssumption DEF RingAgrees, AllocdElements
<1>3. QED
  BY <1>1, <1>2

(* A put into a buffer with room, and a get from one with an element, keep *)
(* the agreement; the head index has an address.                           *)
LEMMA StoredAgrees ==
  ASSUME SlotsDivideRange,
         NEW b \in BufferType, b.m_n_elements \in 0 .. MaxElements,
         RingAgrees(b), NEW v
  PROVE  RingAgrees(Stored(b, v))
<1> DEFINE a == AdjustIndices(b)
<1>1. /\ a \in BufferType /\ a.m_n_elements = b.m_n_elements
      /\ a.m_w_idx >= 0 /\ a.m_r_idx >= 0
      /\ a.m_w_idx = a.m_r_idx + a.m_n_elements
      /\ a.m_w_idx < IndexLimit
  BY AdjustKeepsType, AdjustRestores
<1>2. /\ a.m_w_idx \in Int /\ a.m_r_idx \in Int /\ a.m_n_elements \in 0 .. MaxElements
  BY <1>1 DEF BufferType
<1> HIDE DEF a
<1>3. /\ Stored(b, v).m_r_idx = a.m_r_idx
      /\ Stored(b, v).m_w_idx = Incremented(a.m_w_idx)
      /\ Stored(b, v).m_n_elements = a.m_n_elements + 1
  BY DEF Stored, WithRing, a
<1>4. QED
  BY <1>1, <1>2, <1>3, BufferAssumption DEF RingAgrees, Incremented

LEMMA FetchedAgrees ==
  ASSUME SlotsDivideRange,
         NEW b \in BufferType, b.m_n_elements \in 1 .. MaxElements,
         RingAgrees(b)
  PROVE  RingAgrees(Fetched(b)) /\ HasAddr(HeadIndex(b))
<1> DEFINE a == AdjustIndices(b)
<1>1. /\ a \in BufferType /\ a.m_n_elements = b.m_n_elements
      /\ a.m_w_idx >= 0 /\ a.m_r_idx >= 0
      /\ a.m_w_idx = a.m_r_idx + a.m_n_elements
      /\ a.m_w_idx < IndexLimit
  BY AdjustKeepsType, AdjustRestores
<1>2. /\ a.m_w_idx \in Int /\ a.m_r_idx \in Int /\ a.m_n_elements \in 1 .. MaxElements
  BY <1>1 DEF BufferType
<1>3. HasAddr(HeadIndex(b))
  BY <1>1 DEF HeadIndex, HasAddr
<1> HIDE DEF a
<1>4. /\ Fetched(b).m_r_idx = Incremented(a.m_r_idx)
      /\ Fetched(b).m_w_idx = a.m_w_idx
      /\ Fetched(b).m_n_elements = a.m_n_elements - 1
  BY DEF Fetched, WithRing, a
<1>5. QED
  BY <1>1, <1>2, <1>3, <1>4, BufferAssumption DEF RingAgrees, Incremented

(* The remaining operations.                                               *)
LEMMA CleanedAgrees ==
  ASSUME NEW b \in BufferType
  PROVE  RingAgrees(Cleaned(b)) /\ RingAgrees(ShutDown(b)) /\ RingAgrees(FreshBuffer)
<1>1. 0 < IndexLimit
  BY BufferAssumption DEF AllocdElements
<1>2. Cleaned(b) \in BufferType
  BY CleanedKeepsType
<1>3. /\ Cleaned(b).m_r_idx = 0 /\ Cleaned(b).m_w_idx = 0
      /\ Cleaned(b).m_n_elements = 0
  BY DEF Cleaned, WithRing
<1>4. /\ ShutDown(b).m_r_idx = 0 /\ ShutDown(b).m_w_idx = 0
      /\ ShutDown(b).m_n_elements = 0
  BY <1>2, <1>3 DEF ShutDown, BufferType
<1>5. QED
  BY <1>1, <1>3, <1>4 DEF RingAgrees, FreshBuffer

LEMMA SetUpAgrees ==
  ASSUME NEW b \in BufferType, NEW qmx, NEW type, NEW is_pre, RingAgrees(b)
  PROVE  RingAgrees(SetUpForQMuxer(b, qmx, type, is_pre))
BY DEF RingAgrees, SetUpForQMuxer, WithQMuxer

(* The steps of the buffer keep the agreement, and none ends the process.  *)
LEMMA NextAgrees ==
  ASSUME SlotsDivideRange
  PROVE  /\ IInv /\ IndicesAgree
         /\ [Next]_vars
         => IndicesAgree'
<1> SUFFICES ASSUME IInv, IndicesAgree, [Next]_vars
             PROVE  IndicesAgree'
  OBVIOUS
<1> USE DEF IndicesAgree
<1>1. /\ cb \in BufferType /\ cb.m_n_elements \in 0 .. MaxElements
      /\ cb.m_n_elements \in Int
  BY DEF IInv, TypeOK, CountInBounds
<1>2. ASSUME NEW t \in Threads,
             \/ Enter(t) \/ NotOperational(t) \/ Expires(t)
             \/ SpuriousWakeup(t) \/ Query(t) \/ IsOperational(t)
             \/ Cancel(t) \/ CancelJanitor(t)
      PROVE  IndicesAgree'
  BY <1>2 DEF Enter, NotOperational, Expires, SpuriousWakeup, Query,
              IsOperational, Cancel, CancelJanitor
<1>3. ASSUME NEW t \in Threads, PutStores(t)
      PROVE  IndicesAgree'
  <2>1. cb' = Stored(cb, call[t].arg) /\ exited' = exited
    BY <1>3 DEF PutStores
  <2>2. QED
    BY <1>1, <2>1, StoredAgrees
<1>4. ASSUME NEW t \in Threads, GetFetches(t)
      PROVE  IndicesAgree'
  <2>1. cb' = Fetched(cb) /\ exited' = exited /\ cb.m_n_elements > 0
    BY <1>4 DEF GetFetches, IsEmpty
  <2>2. QED
    BY <1>1, <2>1, FetchedAgrees
<1>5. ASSUME NEW t \in Threads, PutWaits(t) \/ GetOrPeekWaits(t) \/ PeekCopies(t)
      PROVE  IndicesAgree'
  <2>1. cb' = AdjustIndices(cb) /\ exited' = exited
    BY <1>5 DEF PutWaits, GetOrPeekWaits, PeekCopies, Waits
  <2>2. QED
    BY <1>1, <2>1, AdjustRestores
<1>6. ASSUME NEW t \in Threads, ReadPointerError(t)
      PROVE  FALSE
  BY <1>1, <1>6, FetchedAgrees DEF ReadPointerError, IsEmpty
<1>7. ASSUME NEW t \in Threads, Clear(t) \/ Shutdown(t) \/ Destroy(t) \/ Create(t)
      PROVE  IndicesAgree'
  <2>1. /\ cb' \in {cb, Cleaned(cb), ShutDown(cb), FreshBuffer}
        /\ exited' = exited
    BY <1>7 DEF Clear, Shutdown, Destroy, Create
  <2>2. QED
    BY <1>1, <2>1, CleanedAgrees
<1>8. ASSUME NEW t \in Threads, SetupForQMuxer(t)
      PROVE  IndicesAgree'
  <2>1. PICK qmx \in QMuxers :
          cb' = SetUpForQMuxer(cb, qmx, call[t].arg, call[t].flag)
    BY <1>8 DEF SetupForQMuxer
  <2>2. exited' = exited
    BY <1>8 DEF SetupForQMuxer
  <2>3. QED
    BY <1>1, <2>1, <2>2, SetUpAgrees
<1>9. CASE UNCHANGED vars
  BY <1>9 DEF vars
<1>10. QED
  BY <1>2, <1>3, <1>4, <1>5, <1>6, <1>7, <1>8, <1>9 DEF Next, Section, Exited

(* With a number of slots that divides 2^63, the indices agree with the    *)
(* count in every execution and no call reaches the fatal branches of put, *)
(* get and peek, however often the write index overflows.                  *)
THEOREM OverflowIsHarmless ==
  ASSUME SlotsDivideRange
  PROVE  Spec => [](IndicesAgree)
<1>1. Init => IndicesAgree
  <2> SUFFICES ASSUME Init PROVE IndicesAgree
    OBVIOUS
  <2>1. 0 < IndexLimit
    BY BufferAssumption DEF AllocdElements
  <2>2. QED
    BY <2>1 DEF Init, IndicesAgree, FreshBuffer, RingAgrees
<1>2. IInv /\ IndicesAgree /\ [Next]_vars
        => IndicesAgree'
  BY NextAgrees
<1>3. QED
  BY InitIInv, NextIInv, <1>1, <1>2, PTL DEF Spec
-----------------------------------------------------------------------------
(***************************************************************************)
(* The buffer implements the bounded queue.  First the data: what each      *)
(* operation does to the sequence of values a buffer stands for.            *)
(***************************************************************************)

(* Indices that are less than a turn apart have different slots.            *)
LEMMA SlotsApart ==
  ASSUME NEW x \in Int, NEW y \in Int, x < y, y < x + AllocdElements
  PROVE  SlotOf(x) # SlotOf(y)
<1> DEFINE A == AllocdElements
           d == (y \div A) - (x \div A)
<1>1. A \in Nat \ {0}
  BY BufferAssumption DEF AllocdElements
<1>2. /\ x \div A \in Int /\ y \div A \in Int /\ d \in Int
      /\ x = A * (x \div A) + (x % A) /\ y = A * (y \div A) + (y % A)
  BY <1>1
<1> SUFFICES ASSUME SlotOf(x) = SlotOf(y) PROVE FALSE
  OBVIOUS
<1>3. y - x = A * d
  <2> HIDE DEF A
  <2>1. x % A = y % A /\ x % A \in Int
    BY <1>1, ModRange DEF SlotOf, A
  <2>2. A * d = A * (y \div A) - A * (x \div A)
    BY <1>1, <1>2
  <2>3. QED
    BY <1>1, <1>2, <2>1, <2>2
<1> HIDE DEF d
<1>4. d <= 0 \/ d >= 1
  BY <1>2
<1>5. d <= 0 => A * d <= 0
  BY <1>1, <1>2
<1>6. d >= 1 => A * d >= A
  BY <1>1, <1>2
<1>7. QED
  BY <1>1, <1>2, <1>3, <1>4, <1>5, <1>6

(* The contents are a sequence as long as the count tells.                  *)
LEMMA ContentsIsSeq ==
  ASSUME NEW b \in BufferType, b.m_n_elements \in 0 .. MaxElements
  PROVE  /\ Contents(b) \in Seq(Values \cup {NoValue})
         /\ Len(Contents(b)) = b.m_n_elements
         /\ \A i \in 1 .. b.m_n_elements :
              Contents(b)[i] = b.m_data[SlotOf(b.m_r_idx + i - 1)]
         /\ b.m_n_elements = 0 <=> Contents(b) = <<>>
<1>1. b.m_n_elements \in Nat /\ b.m_r_idx \in Int
  BY BufferAssumption DEF BufferType
<1>2. \A i \in 1 .. b.m_n_elements :
        b.m_data[SlotOf(b.m_r_idx + i - 1)] \in Values \cup {NoValue}
  BY <1>1, SlotInRange DEF BufferType
<1>3. QED
  BY <1>1, <1>2 DEF Contents

(* Two sequences of the same length with the same elements are the same.    *)
LEMMA SameSequence ==
  ASSUME NEW S, NEW s \in Seq(S), NEW u \in Seq(S), Len(s) = Len(u),
         \A i \in 1 .. Len(s) : s[i] = u[i]
  PROVE  s = u
OBVIOUS

(* Adjusting the indices moves no value.                                    *)
LEMMA ContentsAdjusted ==
  ASSUME SlotsDivideRange,
         NEW b \in BufferType, b.m_n_elements \in 0 .. MaxElements,
         RingAgrees(b)
  PROVE  Contents(AdjustIndices(b)) = Contents(b)
<1>1. CASE b.m_w_idx >= 0
  BY <1>1 DEF AdjustIndices
<1>2. CASE ~(b.m_w_idx >= 0)
  <2> DEFINE n == b.m_n_elements
  <2>1. /\ n \in 1 .. MaxElements /\ n \in Nat
        /\ b.m_r_idx = IndexLimit - n /\ b.m_r_idx >= 0
    BY <1>2, BufferAssumption DEF RingAgrees, BufferType, AllocdElements
  <2>2. Rem(b.m_r_idx, AllocdElements) = AllocdElements - n
    BY <2>1, SlotBelowLimit DEF Rem
  <2>3. /\ AdjustIndices(b).m_r_idx = AllocdElements - n
        /\ AdjustIndices(b).m_n_elements = n
        /\ AdjustIndices(b).m_data = b.m_data
    BY <1>2, <2>2 DEF AdjustIndices, WithRing
  <2>4. ASSUME NEW i \in 1 .. n
        PROVE  SlotOf(AllocdElements - n + i - 1) = SlotOf(b.m_r_idx + i - 1)
    <3> DEFINE k == n - i + 1
    <3>1. k \in 1 .. MaxElements
      BY <2>1, BufferAssumption
    <3>2. (IndexLimit - k) % AllocdElements = AllocdElements - k
      BY <3>1, SlotBelowLimit
    <3>3. (AllocdElements - k) % AllocdElements = AllocdElements - k
      <4>1. /\ AllocdElements \in Nat \ {0} /\ k \in Nat
            /\ AllocdElements - k \in 0 .. AllocdElements - 1
        BY <3>1, BufferAssumption DEF AllocdElements
      <4>2. QED
        BY <4>1, ModSmall
    <3>4. /\ AllocdElements - n + i - 1 = AllocdElements - k
          /\ b.m_r_idx + i - 1 = IndexLimit - k
      BY <2>1, BufferAssumption DEF AllocdElements
    <3>5. QED
      BY <3>2, <3>3, <3>4 DEF SlotOf
  <2>5. QED
    BY <2>3, <2>4 DEF Contents
<1>3. QED
  BY <1>1, <1>2

(* A put appends its value.                                                 *)
LEMMA ContentsStored ==
  ASSUME SlotsDivideRange,
         NEW b \in BufferType, b.m_n_elements \in 0 .. MaxElements,
         RingAgrees(b), b.m_n_elements < MaxElements, NEW v \in Values
  PROVE  Contents(Stored(b, v)) = Append(Contents(b), v)
<1> DEFINE a == AdjustIndices(b)
           s == Stored(b, v)
           n == b.m_n_elements
           V == Values \cup {NoValue}
<1>1. /\ a \in BufferType /\ a.m_n_elements = n
      /\ a.m_w_idx = a.m_r_idx + n /\ Contents(a) = Contents(b)
  BY AdjustKeepsType, AdjustRestores, ContentsAdjusted
<1>2. /\ a.m_w_idx \in Int /\ a.m_r_idx \in Int /\ n \in Nat /\ n + 1 \in 0 .. MaxElements
      /\ a.m_data \in [Slots -> V]
  BY <1>1, BufferAssumption DEF BufferType
<1>3. s \in BufferType /\ s.m_n_elements = n + 1
  BY StoredKeepsType
<1>4. /\ s.m_r_idx = a.m_r_idx
      /\ s.m_data = [a.m_data EXCEPT ![SlotOf(a.m_w_idx)] = v]
  BY DEF Stored, WithRing
<1> HIDE DEF a, s, V
<1>5. /\ Contents(s) \in Seq(V) /\ Len(Contents(s)) = n + 1
      /\ \A i \in 1 .. n + 1 : Contents(s)[i] = s.m_data[SlotOf(a.m_r_idx + i - 1)]
  BY <1>2, <1>3, <1>4, ContentsIsSeq DEF V
<1>6. /\ Contents(b) \in Seq(V) /\ Len(Contents(b)) = n
      /\ \A i \in 1 .. n : Contents(b)[i] = a.m_data[SlotOf(a.m_r_idx + i - 1)]
  BY <1>1, <1>2, ContentsIsSeq DEF V
<1>7. ASSUME NEW i \in 1 .. n + 1
      PROVE  Contents(s)[i] = Append(Contents(b), v)[i]
  <2>1. CASE i = n + 1
    <3>1. SlotOf(a.m_r_idx + i - 1) = SlotOf(a.m_w_idx) /\ SlotOf(a.m_w_idx) \in Slots
      BY <1>1, <1>2, <2>1, SlotInRange
    <3>2. Contents(s)[i] = v
      BY <1>2, <1>4, <1>5, <3>1
    <3>3. QED
      BY <1>2, <1>6, <2>1, <3>2
  <2>2. CASE i # n + 1
    <3>1. i \in 1 .. n /\ a.m_r_idx + i - 1 \in Int
      BY <1>2, <2>2
    <3>2. SlotOf(a.m_r_idx + i - 1) # SlotOf(a.m_w_idx)
      BY <1>1, <1>2, <3>1, SlotsApart, BufferAssumption DEF AllocdElements
    <3>3. SlotOf(a.m_r_idx + i - 1) \in Slots
      BY <3>1, SlotInRange
    <3>4. Contents(s)[i] = a.m_data[SlotOf(a.m_r_idx + i - 1)]
      BY <1>2, <1>4, <1>5, <3>2, <3>3
    <3>5. QED
      BY <1>2, <1>6, <3>1, <3>4
  <2>3. QED
    BY <2>1, <2>2
<1>8. /\ Append(Contents(b), v) \in Seq(V) /\ Len(Append(Contents(b), v)) = n + 1
  BY <1>6 DEF V
<1>9. Contents(s) = Append(Contents(b), v)
  BY <1>5, <1>7, <1>8, SameSequence
<1>10. QED
  BY <1>9 DEF s

(* A get takes the first value, and hands it out.                           *)
LEMMA ContentsFetched ==
  ASSUME SlotsDivideRange,
         NEW b \in BufferType, b.m_n_elements \in 1 .. MaxElements,
         RingAgrees(b)
  PROVE  /\ Contents(b) # <<>>
         /\ HeadValue(b) = Head(Contents(b))
         /\ Contents(Fetched(b)) = Tail(Contents(b))
<1> DEFINE a == AdjustIndices(b)
           f == Fetched(b)
           n == b.m_n_elements
           V == Values \cup {NoValue}
<1>1. /\ a \in BufferType /\ a.m_n_elements = n /\ a.m_data = b.m_data
      /\ a.m_w_idx = a.m_r_idx + n /\ a.m_w_idx < IndexLimit /\ Contents(a) = Contents(b)
  BY AdjustKeepsType, AdjustRestores, ContentsAdjusted, BufferAssumption
<1>2. /\ a.m_r_idx \in Int /\ n \in Nat /\ n \in 1 .. MaxElements /\ {n, n - 1} \subseteq 0 .. MaxElements
  BY <1>1, BufferAssumption DEF BufferType
<1>3. f \in BufferType /\ f.m_n_elements = n - 1
  BY <1>2, FetchedKeepsType
<1>4. f.m_r_idx = Incremented(a.m_r_idx) /\ f.m_data = a.m_data
  BY DEF Fetched, WithRing
<1> HIDE DEF a, f, V
<1>5. f.m_r_idx = a.m_r_idx + 1
  BY <1>1, <1>2, <1>4, BufferAssumption DEF Incremented
<1>6. /\ Contents(b) \in Seq(V) /\ Len(Contents(b)) = n /\ Contents(b) # <<>>
      /\ \A i \in 1 .. n : Contents(b)[i] = a.m_data[SlotOf(a.m_r_idx + i - 1)]
  BY <1>1, <1>2, ContentsIsSeq DEF V
<1>7. HeadValue(b) = Head(Contents(b))
  <2>1. HeadValue(b) = a.m_data[SlotOf(a.m_r_idx)]
    BY <1>1 DEF HeadValue, HeadIndex, a
  <2>2. Contents(b)[1] = a.m_data[SlotOf(a.m_r_idx + 1 - 1)] /\ a.m_r_idx + 1 - 1 = a.m_r_idx
    BY <1>2, <1>6
  <2>3. QED
    BY <1>6, <2>1, <2>2
<1>8. /\ Contents(f) \in Seq(V) /\ Len(Contents(f)) = n - 1
      /\ \A i \in 1 .. n - 1 : Contents(f)[i] = a.m_data[SlotOf(a.m_r_idx + 1 + i - 1)]
  BY <1>2, <1>3, <1>4, <1>5, ContentsIsSeq DEF V
<1>9. /\ Tail(Contents(b)) \in Seq(V) /\ Len(Tail(Contents(b))) = n - 1
      /\ \A i \in 1 .. n - 1 : Tail(Contents(b))[i] = Contents(b)[i + 1]
  BY <1>2, <1>6
<1>10. \A i \in 1 .. n - 1 : Contents(f)[i] = Tail(Contents(b))[i]
  <2> TAKE i \in 1 .. n - 1
  <2>1. i + 1 \in 1 .. n /\ a.m_r_idx + 1 + i - 1 = a.m_r_idx + (i + 1) - 1
    BY <1>2
  <2>2. QED
    BY <1>6, <1>8, <1>9, <2>1
<1>11. Contents(f) = Tail(Contents(b))
  BY <1>8, <1>9, <1>10, SameSequence
<1>12. QED
  BY <1>6, <1>7, <1>11 DEF f

(* A clean empties the buffer and frees its values in their order.          *)
LEMMA ContentsCleaned ==
  ASSUME SlotsDivideRange,
         NEW b \in BufferType, b.m_n_elements \in 0 .. MaxElements,
         RingAgrees(b)
  PROVE  /\ FreedUp(b) = Contents(b)
         /\ Contents(Cleaned(b)) = <<>> /\ Contents(ShutDown(b)) = <<>>
         /\ Contents(FreshBuffer) = <<>>
<1> DEFINE a == AdjustIndices(b)
<1>1. /\ a \in BufferType /\ a.m_n_elements = b.m_n_elements
      /\ a.m_r_idx >= 0 /\ a.m_w_idx = a.m_r_idx + b.m_n_elements
      /\ Contents(a) = Contents(b)
  BY AdjustKeepsType, AdjustRestores, ContentsAdjusted
<1>2. a.m_r_idx \in Int /\ b.m_n_elements \in Int
  BY <1>1 DEF BufferType
<1> HIDE DEF a
<1>3. a.m_w_idx - a.m_r_idx = a.m_n_elements
  BY <1>1, <1>2
<1>4. FreedUp(b) = Contents(a)
  BY <1>1, <1>3 DEF FreedUp, Contents, HasAddr, a
<1>5. /\ Cleaned(b) \in BufferType /\ Cleaned(b).m_n_elements = 0
      /\ ShutDown(b) \in BufferType /\ ShutDown(b).m_n_elements = 0
      /\ FreshBuffer \in BufferType /\ FreshBuffer.m_n_elements = 0
  <2>1. FreshBuffer \in BufferType /\ FreshBuffer.m_n_elements = 0
    BY DEF FreshBuffer, BufferType, EmptyData, NoType
  <2>2. QED
    BY <2>1, CleanedKeepsType
<1>6. 0 \in 0 .. MaxElements
  BY BufferAssumption
<1>7. QED
  BY <1>1, <1>4, <1>5, <1>6, ContentsIsSeq

(* A registration moves no value.                                           *)
LEMMA ContentsSetUp ==
  ASSUME NEW b \in BufferType, NEW qmx, NEW type, NEW is_pre
  PROVE  Contents(SetUpForQMuxer(b, qmx, type, is_pre)) = Contents(b)
BY DEF Contents, SetUpForQMuxer, WithQMuxer
-----------------------------------------------------------------------------
(***************************************************************************)
(* The steps.  Only the refinement needs to know where a call stands: a     *)
(* thread outside the API has no call, one that waits has a call that       *)
(* waits, and a buffer that is shut down or destroyed is empty.             *)
(***************************************************************************)
CallsFit ==
  \A t \in Threads :
    /\ pc[t] \in {"idle", "canceled", "ended"} => call[t] = NoCall
    /\ pc[t] = "wait_put" => call[t].op = "put"
    /\ pc[t] = "wait_get" => call[t].op \in {"get", "peek"}

ClosedIsEmpty ==
  /\ ~cb.m_is_operational => cb.m_n_elements = 0
  /\ ~alive => ~cb.m_is_operational

LEMMA ReturnsFit ==
  ASSUME TypeOK, CallsFit, NEW t \in Threads, NEW code, NEW out,
         NEW conds \in SUBSET {"wait_get", "wait_put"}, Returns(t, code, out, conds)
  PROVE  CallsFit'
<1>1. /\ pc'[t] = "idle" /\ call'[t] = NoCall
      /\ \A u \in Threads \ {t} :
           pc'[u] = (IF pc[u] \in conds THEN "entry" ELSE pc[u]) /\ call'[u] = call[u]
  BY DEF Returns, Awakened, TypeOK
<1>2. QED
  BY <1>1 DEF CallsFit

LEMMA NextFits == IInv /\ CallsFit /\ [Next]_vars => CallsFit'
<1> SUFFICES ASSUME IInv, CallsFit, [Next]_vars PROVE CallsFit'
  OBVIOUS
<1>1. TypeOK
  BY DEF IInv
<1>2. ASSUME NEW t \in Threads,
             \/ NotOperational(t) \/ PutStores(t) \/ GetFetches(t) \/ PeekCopies(t)
             \/ Expires(t) \/ Clear(t) \/ Shutdown(t) \/ IsOperational(t)
             \/ Query(t) \/ SetupForQMuxer(t)
      PROVE  CallsFit'
  <2>1. \E code, out : \E conds \in SUBSET {"wait_get", "wait_put"} : Returns(t, code, out, conds)
    BY <1>2 DEF NotOperational, PutStores, GetFetches, PeekCopies, Expires, Clear, Shutdown,
                IsOperational, Query, SetupForQMuxer, ShutdownWakes
  <2>2. QED
    BY <1>1, <2>1, ReturnsFit
<1>3. ASSUME NEW t \in Threads, PutWaits(t) \/ GetOrPeekWaits(t)
      PROVE  CallsFit'
  BY <1>1, <1>3 DEF PutWaits, GetOrPeekWaits, Waits, Locked, CallsFit, TypeOK
<1>4. ASSUME NEW t \in Threads, Enter(t) \/ SpuriousWakeup(t)
      PROVE  CallsFit'
  BY <1>1, <1>4 DEF Enter, SpuriousWakeup, CallsFit, TypeOK
<1>5. ASSUME NEW t \in Threads, Cancel(t) \/ CancelJanitor(t)
      PROVE  CallsFit'
  BY <1>1, <1>5 DEF Cancel, CancelJanitor, CallsFit, TypeOK
<1>6. CASE UNCHANGED <<pc, call>>
  BY <1>6 DEF CallsFit
<1>7. ASSUME NEW t \in Threads, ReadPointerError(t) \/ Destroy(t) \/ Create(t)
      PROVE  CallsFit'
  BY <1>6, <1>7 DEF ReadPointerError, Destroy, Create
<1>8. QED
  BY <1>2, <1>3, <1>4, <1>5, <1>6, <1>7 DEF Next, Section, Exited, vars

LEMMA NextEmpties == IInv /\ ClosedIsEmpty /\ [Next]_vars => ClosedIsEmpty'
<1> SUFFICES ASSUME IInv, ClosedIsEmpty, [Next]_vars PROVE ClosedIsEmpty'
  OBVIOUS
<1>1. /\ cb \in BufferType /\ alive \in BOOLEAN
      /\ \A t \in Threads : pc[t] = "entry" => alive
  BY DEF IInv, TypeOK, DestroyedIsQuiet
<1>2. CASE UNCHANGED <<cb, alive>>
  BY <1>2 DEF ClosedIsEmpty
<1>3. ASSUME NEW t \in Threads, PutStores(t) PROVE ClosedIsEmpty'
  <2>1. /\ cb.m_is_operational /\ alive' = alive /\ alive /\ cb' = Stored(cb, call[t].arg)
    BY <1>1, <1>3 DEF PutStores, Locked
  <2>2. cb'.m_is_operational
    BY <1>1, <2>1, AdjustKeepsType DEF Stored, WithRing
  <2>3. QED
    BY <2>1, <2>2 DEF ClosedIsEmpty
<1>4. ASSUME NEW t \in Threads, GetFetches(t) PROVE ClosedIsEmpty'
  <2>1. /\ cb.m_is_operational /\ alive' = alive /\ alive /\ cb' = Fetched(cb)
    BY <1>1, <1>4 DEF GetFetches, Locked
  <2>2. QED
    BY <1>1, <2>1, FetchedKeepsType DEF ClosedIsEmpty
<1>5. ASSUME NEW t \in Threads, PutWaits(t) \/ GetOrPeekWaits(t) \/ PeekCopies(t)
      PROVE  ClosedIsEmpty'
  <2>1. cb' = AdjustIndices(cb) /\ alive' = alive
    BY <1>5 DEF PutWaits, GetOrPeekWaits, PeekCopies, Waits
  <2>2. QED
    BY <1>1, <2>1, AdjustKeepsType DEF ClosedIsEmpty
<1>6. ASSUME NEW t \in Threads, Clear(t) PROVE ClosedIsEmpty'
  <2>1. cb' = Cleaned(cb) /\ alive' = alive
    BY <1>6 DEF Clear
  <2>2. QED
    BY <1>1, <2>1, CleanedKeepsType DEF ClosedIsEmpty
<1>7. ASSUME NEW t \in Threads, Shutdown(t) \/ Destroy(t) PROVE ClosedIsEmpty'
  <2>1. cb' = IF cb.m_is_operational THEN ShutDown(cb) ELSE cb
    BY <1>7 DEF Shutdown, Destroy
  <2>2. ~cb'.m_is_operational /\ cb'.m_n_elements = 0
    BY <1>1, <2>1, CleanedKeepsType DEF ClosedIsEmpty
  <2>3. QED
    BY <2>2 DEF ClosedIsEmpty
<1>8. ASSUME NEW t \in Threads, Create(t) PROVE ClosedIsEmpty'
  BY <1>8 DEF Create, FreshBuffer, ClosedIsEmpty
<1>9. ASSUME NEW t \in Threads, SetupForQMuxer(t) PROVE ClosedIsEmpty'
  <2>1. PICK qmx \in QMuxers : cb' = SetUpForQMuxer(cb, qmx, call[t].arg, call[t].flag)
    BY <1>9 DEF SetupForQMuxer
  <2>2. /\ cb'.m_is_operational = cb.m_is_operational /\ cb'.m_n_elements = cb.m_n_elements
        /\ alive' = alive
    BY <1>9, <2>1 DEF SetupForQMuxer, SetUpForQMuxer, WithQMuxer
  <2>3. QED
    BY <2>2 DEF ClosedIsEmpty
<1>10. ASSUME NEW t \in Threads,
              \/ Enter(t) \/ NotOperational(t) \/ Expires(t)
              \/ SpuriousWakeup(t) \/ Query(t) \/ IsOperational(t)
              \/ Cancel(t) \/ CancelJanitor(t) \/ ReadPointerError(t)
       PROVE  ClosedIsEmpty'
  BY <1>2, <1>10 DEF Enter, NotOperational, Expires, SpuriousWakeup, Query,
                     IsOperational, Cancel, CancelJanitor, ReadPointerError
<1>11. QED
  BY <1>2, <1>3, <1>4, <1>5, <1>6, <1>7, <1>8, <1>9, <1>10 DEF Next, Section, Exited, vars

(* What all the steps below start from.                                     *)
RInv == IInv /\ IndicesAgree /\ CallsFit /\ ClosedIsEmpty

LEMMA Facts ==
  ASSUME RInv
  PROVE  /\ TypeOK /\ cb \in BufferType /\ cb.m_n_elements \in 0 .. MaxElements
         /\ MaxElements \in Nat \ {0} /\ cb.m_n_elements \in Nat
         /\ RingAgrees(cb) /\ ~exited
         /\ Len(Contents(cb)) = cb.m_n_elements
         /\ Contents(cb) = <<>> <=> cb.m_n_elements = 0
         /\ \A t \in Threads : pc[t] \notin {"idle", "canceled", "ended"}
              => call[t] \in Calls /\ call[t] # NoCall
BY BufferAssumption, CallAssumption, ContentsIsSeq
   DEF RInv, IInv, TypeOK, CountInBounds, IndicesAgree

(* A return is an answer.                                                   *)
LEMMA ReturnsAnswer ==
  ASSUME TypeOK, NEW t \in Threads, NEW code, NEW out, NEW conds, Returns(t, code, out, conds)
  PROVE  Queue!Answer(t, code, out)
BY DEF Returns, Queue!Answer, Queue!Result, Result

LEMMA StepsRefine ==
  ASSUME SlotsDivideRange, RInv, [Next]_vars
  PROVE  [Queue!Next]_(Queue!vars)
<1>1. /\ TypeOK /\ cb \in BufferType /\ cb.m_n_elements \in 0 .. MaxElements
      /\ MaxElements \in Nat \ {0} /\ cb.m_n_elements \in Nat
      /\ RingAgrees(cb) /\ ~exited
      /\ Len(Contents(cb)) = cb.m_n_elements
      /\ Contents(cb) = <<>> <=> cb.m_n_elements = 0
      /\ \A t \in Threads : pc[t] \notin {"idle", "canceled", "ended"}
           => call[t] \in Calls /\ call[t] # NoCall
  BY Facts
<1>2. CallsFit /\ ClosedIsEmpty /\ DestroyedIsQuiet
  BY DEF RInv, IInv
<1>a. ASSUME NEW t \in Threads, Enter(t)
      PROVE  Queue!Request(t)
  BY <1>2, <1>a DEF Enter, CallsFit, Queue!Request
<1>b. ASSUME NEW t \in Threads, NotOperational(t)
      PROVE  Queue!Refuse(t)
  <2>1. /\ Returns(t, "NOT_OPERATIONAL", NoValue, {}) /\ pc[t] = "entry"
        /\ ~cb.m_is_operational /\ UNCHANGED <<cb, freed>>
    BY <1>b DEF NotOperational, Locked
  <2>2. Queue!Answer(t, "NOT_OPERATIONAL", NoValue)
    BY <1>1, <2>1, ReturnsAnswer
  <2>3. QED
    BY <1>1, <2>1, <2>2 DEF Queue!Refuse
<1>c. ASSUME NEW t \in Threads, PutStores(t)
      PROVE  Queue!Put(t)
  <2>1. /\ Returns(t, "OK", NoValue, {"wait_get"}) /\ pc[t] = "entry" /\ call[t].op = "put"
        /\ cb.m_is_operational /\ cb.m_n_elements < MaxElements
        /\ cb' = Stored(cb, call[t].arg) /\ freed' = freed
    BY <1>1, <1>c DEF PutStores, Locked, IsFull
  <2>2. call[t] # NoCall /\ call[t].arg \in Values
    BY <1>1, <2>1, CallsAreTyped
  <2>3. Contents(cb') = Append(Contents(cb), call[t].arg)
    BY <1>1, <2>1, <2>2, ContentsStored
  <2>4. cb'.m_is_operational = cb.m_is_operational
    BY <1>1, <2>1, <2>2, StoredKeepsType
  <2>5. Queue!Answer(t, "OK", NoValue)
    BY <1>1, <2>1, ReturnsAnswer
  <2>6. QED
    BY <1>1, <2>1, <2>2, <2>3, <2>4, <2>5 DEF Queue!Put, Queue!Asks
<1>d. ASSUME NEW t \in Threads, GetFetches(t)
      PROVE  Queue!Get(t)
  <2>1. /\ Returns(t, "OK", HeadValue(cb), {"wait_put"}) /\ pc[t] = "entry" /\ call[t].op = "get"
        /\ cb.m_is_operational /\ cb.m_n_elements \in 1 .. MaxElements
        /\ cb' = Fetched(cb) /\ freed' = freed
    BY <1>1, <1>d DEF GetFetches, Locked, IsEmpty
  <2>2. call[t] # NoCall
    BY <1>1, <2>1
  <2>3. /\ Contents(cb) # <<>> /\ HeadValue(cb) = Head(Contents(cb))
        /\ Contents(cb') = Tail(Contents(cb))
    BY <1>1, <2>1, ContentsFetched
  <2>4. cb'.m_is_operational = cb.m_is_operational
    BY <1>1, <2>1, FetchedKeepsType
  <2>5. Queue!Answer(t, "OK", Head(Contents(cb)))
    BY <1>1, <2>1, <2>3, ReturnsAnswer
  <2>6. QED
    BY <2>1, <2>2, <2>3, <2>4, <2>5 DEF Queue!Get, Queue!Asks
<1>e. ASSUME NEW t \in Threads, PeekCopies(t)
      PROVE  Queue!Peek(t)
  <2>1. /\ Returns(t, "OK", HeadValue(cb), {}) /\ pc[t] = "entry" /\ call[t].op = "peek"
        /\ cb.m_is_operational /\ cb.m_n_elements \in 1 .. MaxElements
        /\ cb' = AdjustIndices(cb) /\ freed' = freed
    BY <1>1, <1>e DEF PeekCopies, Locked, IsEmpty
  <2>2. call[t] # NoCall
    BY <1>1, <2>1
  <2>3. Contents(cb) # <<>> /\ HeadValue(cb) = Head(Contents(cb))
    BY <1>1, <2>1, ContentsFetched
  <2>4. cb'.m_is_operational = cb.m_is_operational /\ Contents(cb') = Contents(cb)
    BY <1>1, <2>1, AdjustKeepsType, ContentsAdjusted
  <2>5. Queue!Answer(t, "OK", Head(Contents(cb)))
    BY <1>1, <2>1, <2>3, ReturnsAnswer
  <2>6. QED
    BY <2>1, <2>2, <2>3, <2>4, <2>5 DEF Queue!Peek, Queue!Asks
<1>f. ASSUME NEW t \in Threads, PutWaits(t) \/ GetOrPeekWaits(t)
      PROVE  UNCHANGED Queue!vars
  <2>1. cb' = AdjustIndices(cb) /\ UNCHANGED <<call, ret, freed>>
    BY <1>f DEF PutWaits, GetOrPeekWaits, Waits
  <2>2. cb'.m_is_operational = cb.m_is_operational /\ Contents(cb') = Contents(cb)
    BY <1>1, <2>1, AdjustKeepsType, ContentsAdjusted
  <2>3. QED
    BY <2>1, <2>2 DEF Queue!vars
<1>g. ASSUME NEW t \in Threads, ReadPointerError(t)
      PROVE  FALSE
  BY <1>1, <1>g, FetchedAgrees DEF ReadPointerError, IsEmpty
<1>h. ASSUME NEW t \in Threads, Expires(t)
      PROVE  Queue!Refuse(t)
  <2>1. /\ Returns(t, "TIMEDOUT", NoValue, {}) /\ pc[t] \in {"wait_put", "wait_get"}
        /\ call[t].flag /\ UNCHANGED <<cb, freed>>
    BY <1>h DEF Expires, ExpiredCode
  <2>2. Queue!Answer(t, "TIMEDOUT", NoValue)
    BY <1>1, <2>1, ReturnsAnswer
  <2>3. call[t] # NoCall /\ call[t].op \in {"put", "get", "peek"}
    BY <1>1, <1>2, <2>1 DEF CallsFit
  <2>4. QED
    BY <2>1, <2>2, <2>3 DEF Queue!Refuse
<1>i. ASSUME NEW t \in Threads, SpuriousWakeup(t) \/ CancelJanitor(t)
      PROVE  UNCHANGED Queue!vars
  BY <1>i DEF SpuriousWakeup, CancelJanitor, Queue!vars
<1>j. ASSUME NEW t \in Threads, Clear(t)
      PROVE  Queue!Clear(t)
  <2>1. /\ Returns(t, "OK", NoValue, {"wait_put"}) /\ pc[t] = "entry" /\ call[t].op = "clear"
        /\ cb' = Cleaned(cb) /\ freed' = IF call[t].flag THEN FreedUp(cb) ELSE <<>>
    BY <1>j DEF Clear, Locked
  <2>2. call[t] # NoCall
    BY <1>1, <2>1
  <2>3. FreedUp(cb) = Contents(cb) /\ Contents(cb') = <<>>
    BY <1>1, <2>1, ContentsCleaned
  <2>4. cb'.m_is_operational = cb.m_is_operational
    BY <1>1, <2>1, CleanedKeepsType
  <2>5. Queue!Answer(t, "OK", NoValue)
    BY <1>1, <2>1, ReturnsAnswer
  <2>6. QED
    BY <2>1, <2>2, <2>3, <2>4, <2>5 DEF Queue!Clear, Queue!Asks, Queue!Release
<1>k. ASSUME NEW t \in Threads, Shutdown(t)
      PROVE  Queue!Close(t)
  <2>1. pc[t] = "entry" /\ call[t].op = "shutdown" /\ call[t] # NoCall
    BY <1>1, <1>k DEF Shutdown, Locked
  <2>2. PICK conds : Returns(t, "OK", NoValue, conds)
    BY <1>k DEF Shutdown
  <2>3. Queue!Answer(t, "OK", NoValue)
    BY <1>1, <2>2, ReturnsAnswer
  <2>4. CASE cb.m_is_operational
    <3>1. cb' = ShutDown(cb) /\ freed' = IF call[t].flag THEN FreedUp(cb) ELSE <<>>
      BY <1>k, <2>4 DEF Shutdown
    <3>2. FreedUp(cb) = Contents(cb) /\ Contents(cb') = <<>>
      BY <1>1, <3>1, ContentsCleaned
    <3>3. cb'.m_is_operational = FALSE
      BY <1>1, <3>1, CleanedKeepsType
    <3>4. QED
      BY <2>1, <2>3, <2>4, <3>1, <3>2, <3>3 DEF Queue!Close, Queue!Asks, Queue!Release
  <2>5. CASE ~cb.m_is_operational
    <3>1. UNCHANGED <<cb, freed>> /\ cb.m_is_operational = FALSE
      BY <1>1, <1>k, <2>5 DEF Shutdown, BufferType
    <3>2. QED
      BY <2>1, <2>3, <3>1 DEF Queue!Close, Queue!Asks
  <2>6. QED
    BY <2>4, <2>5
<1>l. ASSUME NEW t \in Threads, IsOperational(t)
      PROVE  Queue!Measure(t)
  <2>1. /\ Returns(t, "OK", IF cb.m_is_operational THEN 1 ELSE 0, {})
        /\ pc[t] = "entry" /\ call[t].op = "is_operational" /\ UNCHANGED <<cb, freed>>
    BY <1>l DEF IsOperational, Locked
  <2>2. Queue!Answer(t, "OK", IF cb.m_is_operational THEN 1 ELSE 0)
    BY <1>1, <2>1, ReturnsAnswer
  <2>3. QED
    BY <1>1, <2>1, <2>2 DEF Queue!Measure, Queue!Asks
<1>m. ASSUME NEW t \in Threads, Query(t)
      PROVE  Queue!Measure(t)
  <2> DEFINE Given(op, out) == Locked(t, op) /\ Returns(t, "OK", out, {})
  <2>1. cb.m_is_operational /\ UNCHANGED <<cb, freed>>
    BY <1>m DEF Query
  <2>2. ASSUME NEW op, NEW out, Given(op, out)
        PROVE  Queue!Asks(t, op) /\ Queue!Answer(t, "OK", out)
    BY <1>1, <2>2, ReturnsAnswer DEF Locked, Queue!Asks
  <2>3. \/ Given("size", cb.m_n_elements)
        \/ Given("remaining", MaxElements - cb.m_n_elements)
        \/ Given("max", MaxElements)
        \/ Given("is_full", IF IsFull(cb) THEN 1 ELSE 0)
        \/ Given("is_empty", IF cb.m_n_elements = 0 THEN 1 ELSE 0)
    BY <1>m DEF Query
  <2>4. IsFull(cb) <=> Len(Contents(cb)) = MaxElements
    BY <1>1 DEF IsFull
  <2> HIDE DEF Given
  <2>5. \/ Queue!Asks(t, "size") /\ Queue!Answer(t, "OK", Len(Contents(cb)))
        \/ Queue!Asks(t, "remaining") /\ Queue!Answer(t, "OK", MaxElements - Len(Contents(cb)))
        \/ Queue!Asks(t, "max") /\ Queue!Answer(t, "OK", MaxElements)
        \/ /\ Queue!Asks(t, "is_full")
           /\ Queue!Answer(t, "OK", IF Len(Contents(cb)) = MaxElements THEN 1 ELSE 0)
        \/ /\ Queue!Asks(t, "is_empty")
           /\ Queue!Answer(t, "OK", IF Contents(cb) = <<>> THEN 1 ELSE 0)
    BY <1>1, <2>2, <2>3, <2>4
  <2>6. QED
    BY <2>1, <2>5 DEF Queue!Measure
<1>n. ASSUME NEW t \in Threads, SetupForQMuxer(t)
      PROVE  Queue!Measure(t)
  <2>1. PICK qmx \in QMuxers : cb' = SetUpForQMuxer(cb, qmx, call[t].arg, call[t].flag)
    BY <1>n DEF SetupForQMuxer
  <2>2. PICK events \in {0, 1, 2} : Returns(t, "OK", events, {})
    BY <1>n DEF SetupForQMuxer
  <2>3. /\ pc[t] = "entry" /\ call[t].op = "setup" /\ call[t] # NoCall
        /\ cb.m_is_operational /\ freed' = freed
    BY <1>1, <1>n DEF SetupForQMuxer, Locked
  <2>4. Contents(cb') = Contents(cb) /\ cb'.m_is_operational = cb.m_is_operational
    <3>1. Contents(cb') = Contents(cb)
      BY <1>1, <2>1, ContentsSetUp
    <3>2. QED
      BY <2>1, <3>1 DEF SetUpForQMuxer, WithQMuxer
  <2>5. Queue!Answer(t, "OK", events)
    BY <1>1, <2>2, ReturnsAnswer
  <2>6. QED
    BY <2>3, <2>4, <2>5 DEF Queue!Measure, Queue!Asks
<1>o. ASSUME NEW t \in Threads, Destroy(t)
      PROVE  Queue!Destroy(t)
  <2>1. /\ \A u \in Threads : call[u] = NoCall
        /\ ret' = [ret EXCEPT ![t] = Queue!Result("OK", NoValue)] /\ call' = call
    BY <1>2, <1>o DEF Destroy, CallsFit, Result, Queue!Result
  <2>2. CASE cb.m_is_operational
    <3>1. PICK free \in BOOLEAN : cb' = ShutDown(cb) /\ freed' = IF free THEN FreedUp(cb) ELSE <<>>
      BY <1>o, <2>2 DEF Destroy
    <3>2. FreedUp(cb) = Contents(cb) /\ Contents(cb') = <<>>
      BY <1>1, <3>1, ContentsCleaned
    <3>3. cb'.m_is_operational = FALSE
      BY <1>1, <3>1, CleanedKeepsType
    <3>4. QED
      BY <2>1, <2>2, <3>1, <3>2, <3>3 DEF Queue!Destroy, Queue!Release
  <2>3. CASE ~cb.m_is_operational
    <3>1. UNCHANGED <<cb, freed>> /\ cb.m_is_operational = FALSE
      BY <1>1, <1>o, <2>3 DEF Destroy, BufferType
    <3>2. QED
      BY <2>1, <3>1 DEF Queue!Destroy
  <2>4. QED
    BY <2>2, <2>3
<1>p. ASSUME NEW t \in Threads, Create(t)
      PROVE  Queue!Create
  <2>1. /\ cb' = FreshBuffer /\ UNCHANGED <<call, ret, freed>> /\ ~alive
    BY <1>p DEF Create
  <2>2. ~cb.m_is_operational /\ Contents(cb) = <<>>
    BY <1>1, <1>2, <2>1 DEF ClosedIsEmpty
  <2>3. Contents(cb') = <<>> /\ cb'.m_is_operational = TRUE
    BY <1>1, <2>1, ContentsCleaned DEF FreshBuffer
  <2>4. QED
    BY <2>1, <2>2, <2>3 DEF Queue!Create
<1>q. ASSUME NEW t \in Threads, Cancel(t)
      PROVE  Queue!Abandon(t)
  BY <1>1, <1>q DEF Cancel, Queue!Abandon
<1>r. CASE UNCHANGED vars
  BY <1>r DEF vars, Queue!vars
<1>s. QED
  BY <1>a, <1>b, <1>c, <1>d, <1>e, <1>f, <1>g, <1>h, <1>i, <1>j, <1>k, <1>l, <1>m, <1>n,
     <1>o, <1>p, <1>q, <1>r
  DEF Next, Section, Exited, Queue!Next

(* The circular buffer of any size, shared by any number of threads that    *)
(* put, get, peek, clear, time out, are canceled, shut it down, destroy and *)
(* create it, is a bounded FIFO queue: every call takes effect at one       *)
(* instant, also across an overflow of the indices, when the number of      *)
(* slots divides 2^63.                                                      *)
THEOREM BufferIsBoundedQueue ==
  ASSUME SlotsDivideRange
  PROVE  Spec => IsBoundedQueue
<1>1. Init => RInv
  <2> SUFFICES ASSUME Init PROVE RInv
    OBVIOUS
  <2>1. 0 < IndexLimit
    BY BufferAssumption DEF AllocdElements
  <2>2. QED
    BY <2>1, InitIInv
    DEF Init, RInv, IndicesAgree, FreshBuffer, RingAgrees, CallsFit, ClosedIsEmpty
<1>2. RInv /\ [Next]_vars => RInv'
  BY NextIInv, NextAgrees, NextFits, NextEmpties DEF RInv
<1>3. Init => Queue!Init
  <2> SUFFICES ASSUME Init PROVE Queue!Init
    OBVIOUS
  <2>1. cb \in BufferType /\ cb.m_n_elements = 0 /\ cb.m_n_elements \in 0 .. MaxElements
    BY InitIInv DEF IInv, TypeOK, CountInBounds, Init, FreshBuffer
  <2>2. Contents(cb) = <<>>
    BY <2>1, ContentsIsSeq
  <2>3. QED
    BY <2>2 DEF Init, FreshBuffer, Queue!Init
<1>4. RInv /\ [Next]_vars => [Queue!Next]_(Queue!vars)
  BY StepsRefine
<1>5. QED
  BY <1>1, <1>2, <1>3, <1>4, PTL DEF Spec, IsBoundedQueue, Queue!Spec
=============================================================================
