---------------------------- MODULE QMuxerProofs ----------------------------
(***************************************************************************)
(* What holds of the queue muxer for any number of pollers, queues and     *)
(* poll objects: no event is dropped outside the window that the           *)
(* documentation admits, and what a poll reports is there.                 *)
(***************************************************************************)
EXTENDS QMuxer, TLAPS

(* A poller does not destroy the muxer it polls with.                      *)
InPollIsAlive == \A p \in Pollers : pc[p] # "idle" => alive[p]

(* A poller locks its muxer and sleeps after a complete first scan.        *)
ScanIsDone ==
  \A p \in Pollers :
    pc[p] \in {"lock", "waiting"} => scan[p].is_pre /\ scan[p].next = NPolls + 1

HasVisited(p, q) ==
  \E i \in PollIndices : i < scan[p].next /\ polls[p][i].m_bbq = q

(* From its visit to a queue on, the poller has been notified of whatever  *)
(* happened there, or is no longer asleep.                                 *)
NewsIsSeen ==
  \A p \in Pollers, q \in Queues :
    /\ pc[p] \in {"scan", "lock", "waiting"} /\ scan[p].is_pre
    /\ HasVisited(p, q) /\ HasNews(p, q)
    => missed[p]

IInv == TypeOK /\ InPollIsAlive /\ ScanIsDone /\ NewsIsSeen

(* A queue of this record has an event other than room.                    *)
IsNews(cb) ==
  \/ ~cb.m_is_operational
  \/ cb.m_type = {Readable} /\ cb.m_n_elements > 0

LEMMA Ranges ==
  /\ NPolls \in Nat \ {0} /\ MaxElements \in Nat \ {0}
  /\ 1 \in PollIndices /\ 0 \in 0 .. MaxElements /\ 0 \in 0 .. NPolls
  /\ 1 \in 1 .. NPolls + 1
  /\ NoPoller \notin Pollers /\ NoQueue \notin Queues
  /\ Results \subseteq Int
  /\ NotPolled \in Results /\ NotOperational \in Results
  /\ TimedOut \in Results /\ InvalidArgs \in Results
BY QMuxerAssumption
DEF PollIndices, Results, NotPolled, NotOperational, TimedOut, InvalidArgs

LEMMA NewScanIsTyped ==
  \A is_pre \in BOOLEAN : NewScan(is_pre) \in ScanType
BY Ranges DEF NewScan, ScanRecord, ScanType

(* The initial state.                                                      *)
LEMMA InitIInv == Init => IInv
<1> SUFFICES ASSUME Init PROVE IInv
  OBVIOUS
<1>1. NewQueue \in QueueType
  BY Ranges DEF NewQueue, QueueRecord, QueueType, NoType
<1>2. \A q \in Queues, type \in Types : NewPoll(q, type) \in PollType
  BY Ranges DEF NewPoll, PollRecord, PollType
<1>3. polls \in [Pollers -> [PollIndices -> PollType]]
  BY <1>2 DEF Init
<1>4. scan \in [Pollers -> ScanType]
  BY NewScanIsTyped DEF Init
<1>5. \A p \in Pollers : scan[p].nev + scan[p].nulls <= scan[p].next - 1
  <2> TAKE p \in Pollers
  <2>1. scan[p].nev = 0 /\ scan[p].nulls = 0 /\ scan[p].next = 1
    BY DEF Init, NewScan, ScanRecord
  <2>2. 0 + 0 <= 1 - 1
    OBVIOUS
  <2>3. QED
    BY <2>1, <2>2
<1>6. TypeOK
  BY <1>1, <1>3, <1>4, <1>5, Ranges DEF Init, TypeOK, PCs
<1>7. QED
  BY <1>6 DEF Init, IInv, InPollIsAlive, ScanIsDone, NewsIsSeen

(***************************************************************************)
(* A queue operation that keeps the registration, and notifies it of every *)
(* new event but room.                                                     *)
(***************************************************************************)
LEMMA Operated ==
  ASSUME IInv, NEW q \in Queues, NEW cb \in QueueType, NEW notifies \in BOOLEAN,
         cb.m_qmuxer = queue[q].m_qmuxer, cb.m_type = queue[q].m_type,
         IsNews(cb) => notifies \/ IsNews(queue[q]),
         Operate(q, cb, notifies),
         ret' \in [Pollers -> Results]
  PROVE  IInv'
<1>1. /\ queue' = [queue EXCEPT ![q] = cb]
      /\ UNCHANGED <<polls, scan, timed, m_lock, alive>>
      /\ queue \in [Queues -> QueueType] /\ queue[q] \in QueueType
      /\ pc \in [Pollers -> PCs] /\ missed \in [Pollers -> BOOLEAN]
  BY DEF Operate, IInv, TypeOK
<1>2. CASE ~(IsRegistered(queue[q]) /\ notifies)
  <2>1. UNCHANGED <<pc, missed, exited>>
    BY <1>2 DEF Operate
  <2>2. TypeOK'
    BY <1>1, <2>1 DEF IInv, TypeOK
  <2>3. ASSUME NEW p \in Pollers, NEW r \in Queues, HasNews(p, r)'
        PROVE  HasNews(p, r)
    <3>1. CASE r # q
      BY <1>1, <2>3, <3>1 DEF HasNews
    <3>2. CASE r = q
      <4>1. queue'[q] = cb /\ cb.m_qmuxer = p /\ IsNews(cb)
        BY <1>1, <2>3, <3>2 DEF HasNews, IsNews
      <4>2. IsRegistered(queue[q]) /\ ~notifies
        BY <1>2, <4>1, Ranges DEF IsRegistered
      <4>3. queue[q].m_qmuxer = p /\ IsNews(queue[q])
        BY <4>1, <4>2
      <4>4. QED
        BY <3>2, <4>3 DEF HasNews, IsNews
    <3>3. QED
      BY <3>1, <3>2
  <2>4. NewsIsSeen'
    BY <1>1, <2>1, <2>3 DEF IInv, NewsIsSeen, HasVisited
  <2>5. QED
    BY <1>1, <2>1, <2>2, <2>4 DEF IInv, InPollIsAlive, ScanIsDone
<1>3. CASE IsRegistered(queue[q]) /\ notifies /\ ~alive[queue[q].m_qmuxer]
  <2> DEFINE owner == queue[q].m_qmuxer
  <2>1. UNCHANGED <<pc, missed>> /\ exited' \in BOOLEAN
    BY <1>3 DEF Operate, Notify
  <2>2. TypeOK'
    BY <1>1, <2>1 DEF IInv, TypeOK
  <2>3. owner \in Pollers /\ pc[owner] = "idle"
    BY <1>1, <1>3 DEF IsRegistered, QueueType, IInv, InPollIsAlive
  <2>4. ASSUME NEW p \in Pollers, NEW r \in Queues, HasNews(p, r)', p # owner
        PROVE  HasNews(p, r)
    BY <1>1, <2>4 DEF HasNews
  <2>5. NewsIsSeen'
    BY <1>1, <2>1, <2>3, <2>4 DEF IInv, NewsIsSeen, HasVisited
  <2>6. QED
    BY <1>1, <2>1, <2>2, <2>5 DEF IInv, InPollIsAlive, ScanIsDone
<1>4. CASE IsRegistered(queue[q]) /\ notifies /\ alive[queue[q].m_qmuxer]
  <2> DEFINE owner == queue[q].m_qmuxer
  <2>1. /\ owner \in Pollers
        /\ pc' = IF pc[owner] = "waiting" THEN [pc EXCEPT ![owner] = "awake"]
                 ELSE pc
        /\ missed' = [missed EXCEPT
             ![owner] = missed[owner] \/ pc[owner] \in {"scan", "lock"}]
        /\ exited' = FALSE
    BY <1>1, <1>4 DEF Operate, Notify, IsRegistered, QueueType
  <2>2. /\ pc' \in [Pollers -> PCs] /\ missed' \in [Pollers -> BOOLEAN]
        /\ exited' \in BOOLEAN
    BY <1>1, <2>1 DEF PCs
  <2>3. TypeOK'
    BY <1>1, <2>2 DEF IInv, TypeOK
  <2>4. \A p \in Pollers :
          /\ pc'[p] # "idle" => pc[p] # "idle"
          /\ pc'[p] \in {"scan", "lock", "waiting"} => pc'[p] = pc[p]
          /\ p # owner => missed'[p] = missed[p]
    BY <1>1, <2>1
  <2>5. pc'[owner] \in {"scan", "lock", "waiting"} => missed'[owner]
    BY <1>1, <2>1
  <2>6. ASSUME NEW p \in Pollers, NEW r \in Queues, HasNews(p, r)', p # owner
        PROVE  HasNews(p, r)
    BY <1>1, <2>6 DEF HasNews
  <2>7. NewsIsSeen'
    BY <1>1, <2>4, <2>5, <2>6 DEF IInv, NewsIsSeen, HasVisited
  <2>8. InPollIsAlive' /\ ScanIsDone'
    BY <1>1, <2>4 DEF IInv, InPollIsAlive, ScanIsDone
  <2>9. QED
    BY <2>3, <2>7, <2>8 DEF IInv
<1>5. QED
  BY <1>2, <1>3, <1>4

(***************************************************************************)
(* A step of a poller that touches neither the queues nor the poll         *)
(* objects: to where, with the scan s, having missed an event or not.      *)
(***************************************************************************)
LEMMA PollerMoved ==
  ASSUME IInv, NEW p \in Pollers, NEW where \in PCs, NEW s \in ScanType,
         NEW m \in BOOLEAN,
         s.nev + s.nulls <= s.next - 1,
         where # "idle" => alive[p],
         where \in {"lock", "waiting"} => s.is_pre /\ s.next = NPolls + 1,
         \A r \in Queues :
           /\ where \in {"scan", "lock", "waiting"} /\ s.is_pre
           /\ \E i \in PollIndices : i < s.next /\ polls[p][i].m_bbq = r
           /\ HasNews(p, r)
           => m,
         pc' = [pc EXCEPT ![p] = where],
         scan' = [scan EXCEPT ![p] = s],
         missed' = [missed EXCEPT ![p] = m],
         timed' \in [Pollers -> BOOLEAN],
         ret' \in [Pollers -> Results],
         m_lock' \in [Pollers -> Pollers \cup {NoPoller}],
         UNCHANGED <<queue, polls, alive, exited>>
  PROVE  IInv'
<1>1. /\ pc \in [Pollers -> PCs] /\ missed \in [Pollers -> BOOLEAN]
      /\ scan \in [Pollers -> ScanType]
  BY DEF IInv, TypeOK
<1>2. /\ pc'[p] = where /\ scan'[p] = s /\ missed'[p] = m
      /\ \A u \in Pollers \ {p} :
           pc'[u] = pc[u] /\ scan'[u] = scan[u] /\ missed'[u] = missed[u]
  BY <1>1
<1>3. \A u \in Pollers : scan'[u].nev + scan'[u].nulls <= scan'[u].next - 1
  <2> TAKE u \in Pollers
  <2>1. CASE u = p
    BY <1>2, <2>1
  <2>2. CASE u # p
    BY <1>2, <2>2 DEF IInv, TypeOK
  <2>3. QED
    BY <2>1, <2>2
<1>4. TypeOK'
  BY <1>1, <1>3 DEF IInv, TypeOK
<1>5. InPollIsAlive'
  BY <1>2 DEF IInv, InPollIsAlive
<1>6. ScanIsDone'
  BY <1>2 DEF IInv, ScanIsDone
<1>7. NewsIsSeen'
  BY <1>2 DEF IInv, NewsIsSeen, HasVisited, HasNews
<1>8. QED
  BY <1>4, <1>5, <1>6, <1>7 DEF IInv

(* A poll ends: its local variables are gone.                              *)
LEMMA PollEnds ==
  ASSUME IInv, NEW p \in Pollers, Leaves(p),
         ret' \in [Pollers -> Results],
         m_lock' \in [Pollers -> Pollers \cup {NoPoller}],
         UNCHANGED <<queue, polls, alive, exited>>
  PROVE  IInv'
<1>1. /\ NewScan(TRUE) \in ScanType
      /\ NewScan(TRUE).nev + NewScan(TRUE).nulls <= NewScan(TRUE).next - 1
  <2>1. /\ NewScan(TRUE).nev = 0 /\ NewScan(TRUE).nulls = 0
        /\ NewScan(TRUE).next = 1
    BY DEF NewScan, ScanRecord
  <2>2. 0 + 0 <= 1 - 1
    OBVIOUS
  <2>3. QED
    BY <2>1, <2>2, NewScanIsTyped
<1>2. /\ pc' = [pc EXCEPT ![p] = "idle"]
      /\ scan' = [scan EXCEPT ![p] = NewScan(TRUE)]
      /\ missed' = [missed EXCEPT ![p] = FALSE]
      /\ timed' \in [Pollers -> BOOLEAN]
  BY DEF Leaves, IInv, TypeOK
<1>3. "idle" \in PCs
  BY DEF PCs
<1>4. QED
  BY <1>1, <1>2, <1>3, PollerMoved

LEMMA PollReturns ==
  ASSUME IInv, NEW p \in Pollers, NEW r \in Results, Returns(p, r),
         UNCHANGED <<queue, polls, m_lock, alive, exited>>
  PROVE  IInv'
<1>1. /\ Leaves(p) /\ ret' \in [Pollers -> Results]
      /\ m_lock' \in [Pollers -> Pollers \cup {NoPoller}]
  BY DEF Returns, IInv, TypeOK
<1>2. QED
  BY <1>1, PollEnds

(* A change of a poll object between two polls.                            *)
LEMMA PollChanged ==
  ASSUME IInv, NEW p \in Pollers, NEW i \in PollIndices, NEW poll \in PollType,
         Between(p),
         polls' = [polls EXCEPT ![p][i] = poll],
         ret' \in [Pollers -> Results],
         UNCHANGED <<queue, pc, scan, timed, m_lock, alive, missed, exited>>
  PROVE  IInv'
<1>1. polls' \in [Pollers -> [PollIndices -> PollType]]
  BY DEF IInv, TypeOK
<1>2. TypeOK'
  BY <1>1 DEF IInv, TypeOK
<1>3. \A u \in Pollers : u # p => polls'[u] = polls[u]
  BY DEF IInv, TypeOK
<1>4. NewsIsSeen'
  BY <1>3 DEF IInv, NewsIsSeen, HasVisited, HasNews, Between
<1>5. QED
  BY <1>2, <1>4 DEF IInv, InPollIsAlive, ScanIsDone
-----------------------------------------------------------------------------
(* The actions of the queues.                                              *)
LEMMA QueueActions ==
  ASSUME IInv, NEW q \in Queues, Put(q) \/ Get(q) \/ Clear(q) \/ Shutdown(q)
  PROVE  IInv'
<1> DEFINE cb == queue[q]
<1>1. /\ cb \in QueueType /\ cb.m_n_elements \in 0 .. MaxElements
      /\ ret \in [Pollers -> Results]
  BY DEF IInv, TypeOK, QueueType
<1>2. CASE Put(q)
  <2> DEFINE new == [cb EXCEPT !.m_n_elements = @ + 1]
  <2>1. /\ cb.m_is_operational /\ cb.m_n_elements < MaxElements
        /\ Operate(q, new, Readable \in cb.m_type)
        /\ ret' = ret
    BY <1>2 DEF Put
  <2>2. /\ new \in QueueType /\ new.m_is_operational = cb.m_is_operational
        /\ new.m_qmuxer = cb.m_qmuxer /\ new.m_type = cb.m_type
    <3>1. cb.m_n_elements + 1 \in 0 .. MaxElements
      BY <1>1, <2>1, Ranges
    <3>2. QED
      BY <1>1, <3>1 DEF QueueType
  <2>3. IsNews(new) => Readable \in cb.m_type
    BY <2>1, <2>2 DEF IsNews
  <2>4. QED
    <3> HIDE DEF new
    <3>1. (Readable \in cb.m_type) \in BOOLEAN
      OBVIOUS
    <3>2. QED
      BY <1>1, <2>1, <2>2, <2>3, <3>1, Operated
<1>3. CASE Get(q)
  <2> DEFINE new == [cb EXCEPT !.m_n_elements = @ - 1]
  <2>1. /\ cb.m_n_elements > 0
        /\ Operate(q, new, Writable \in cb.m_type)
        /\ ret' = [p \in Pollers |-> IF p = Consumer[q] THEN NotPolled ELSE ret[p]]
    BY <1>3 DEF Get
  <2>2. /\ new \in QueueType /\ new.m_is_operational = cb.m_is_operational
        /\ new.m_qmuxer = cb.m_qmuxer /\ new.m_type = cb.m_type
    <3>1. cb.m_n_elements - 1 \in 0 .. MaxElements
      BY <1>1, <2>1, Ranges
    <3>2. QED
      BY <1>1, <3>1 DEF QueueType
  <2>3. IsNews(new) => IsNews(cb)
    BY <2>1, <2>2 DEF IsNews
  <2>4. ret' \in [Pollers -> Results]
    BY <1>1, <2>1, Ranges
  <2>5. QED
    <3> HIDE DEF new
    <3>1. (Writable \in cb.m_type) \in BOOLEAN
      OBVIOUS
    <3>2. QED
      BY <1>1, <2>1, <2>2, <2>3, <2>4, <3>1, Operated
<1>4. CASE Clear(q)
  <2> DEFINE new == [cb EXCEPT !.m_n_elements = 0]
  <2>1. ret' \in [Pollers -> Results]
    BY <1>1, <1>4 DEF Clear
  <2>2. /\ new \in QueueType /\ new.m_is_operational = cb.m_is_operational
        /\ new.m_qmuxer = cb.m_qmuxer /\ new.m_type = cb.m_type
        /\ new.m_n_elements = 0
    BY <1>1, Ranges DEF QueueType
  <2>3. IsNews(new) => IsNews(cb)
    BY <2>2 DEF IsNews
  <2>4. CASE Operate(q, new, Readable \in cb.m_type)
    <3> HIDE DEF new
    <3>1. (Readable \in cb.m_type) \in BOOLEAN
      OBVIOUS
    <3>2. QED
      BY <1>1, <2>1, <2>2, <2>3, <2>4, <3>1, Operated
  <2>5. CASE /\ queue' = [queue EXCEPT ![q] = new]
             /\ missed' = [missed EXCEPT ![cb.m_qmuxer] = TRUE]
             /\ UNCHANGED <<polls, pc, scan, timed, m_lock, alive, exited>>
    <3> HIDE DEF new
    <3>1. TypeOK'
      BY <2>1, <2>2, <2>5 DEF IInv, TypeOK
    <3>2. \A p \in Pollers, r \in Queues : HasNews(p, r)' => HasNews(p, r)
      BY <2>2, <2>3, <2>5 DEF HasNews, IsNews, IInv, TypeOK
    <3>3. \A p \in Pollers : missed[p] => missed'[p]
      BY <2>5 DEF IInv, TypeOK
    <3>4. NewsIsSeen'
      BY <2>5, <3>2, <3>3 DEF IInv, NewsIsSeen, HasVisited
    <3>5. QED
      BY <2>5, <3>1, <3>4 DEF IInv, InPollIsAlive, ScanIsDone
  <2>6. QED
    BY <1>4, <2>4, <2>5 DEF Clear
<1>5. CASE Shutdown(q)
  <2> DEFINE new == QueueRecord(0, FALSE, cb.m_qmuxer, cb.m_type)
  <2>1. /\ Operate(q, new, TRUE)
        /\ ret' = ret
    BY <1>5 DEF Shutdown, ShutdownNotifies
  <2>2. /\ new \in QueueType
        /\ new.m_qmuxer = cb.m_qmuxer /\ new.m_type = cb.m_type
    BY <1>1, Ranges DEF QueueType, QueueRecord
  <2>3. QED
    <3> HIDE DEF new
    <3>1. TRUE \in BOOLEAN
      OBVIOUS
    <3>2. QED
      BY <1>1, <2>1, <2>2, <3>1, Operated
<1>6. QED
  BY <1>2, <1>3, <1>4, <1>5

(***************************************************************************)
(* The visit of the next poll object: it may be measured, its queue may be *)
(* given a registration or lose one, and nobody is left unnotified.        *)
(***************************************************************************)
LEMMA PollVisited ==
  ASSUME IInv, NEW p \in Pollers, Visiting(p),
         NEW poll \in PollType, NEW events \in {0, 1}, NEW nulls \in {0, 1},
         events + nulls <= 1,
         poll.m_bbq = Visited(p).m_bbq,
         polls' = [polls EXCEPT ![p][scan[p].next] = poll],
         Visits(p, events, nulls),
         queue' \in [Queues -> QueueType],
         \A u \in Pollers, r \in Queues : HasNews(u, r)' => HasNews(u, r),
         \A r \in Queues : scan[p].is_pre /\ r = poll.m_bbq => ~HasNews(p, r)',
         UNCHANGED <<pc, timed, ret, m_lock, alive, missed, exited>>
  PROVE  IInv'
<1> DEFINE s == scan[p]
           new == ScanRecord(s.next + 1, s.nev + events, s.nulls + nulls, s.is_pre)
<1>1. /\ pc[p] = "scan" /\ s.next \in PollIndices
      /\ s \in ScanType /\ scan \in [Pollers -> ScanType]
      /\ s.nev + s.nulls <= s.next - 1
      /\ polls \in [Pollers -> [PollIndices -> PollType]]
      /\ s.nev \in Nat /\ s.nulls \in Nat /\ s.next \in Nat
  BY Ranges DEF Visiting, IInv, TypeOK, ScanType, PollIndices
<1>2. s.nev + events + s.nulls + nulls <= s.next
  BY <1>1
<1>3. /\ s.nev + events \in 0 .. NPolls /\ s.nulls + nulls \in 0 .. NPolls
      /\ s.next + 1 \in 1 .. NPolls + 1
  <2>1. s.next \in 1 .. NPolls
    BY <1>1 DEF PollIndices
  <2>2. s.nev + events \in Nat /\ s.nulls + nulls \in Nat
    BY <1>1
  <2>3. s.nev + events <= s.next /\ s.nulls + nulls <= s.next
    BY <1>1, <1>2
  <2>4. QED
    BY <1>1, <2>1, <2>2, <2>3, Ranges
<1>4. /\ new \in ScanType /\ new.nev + new.nulls <= new.next - 1
      /\ new.is_pre = s.is_pre /\ new.next = s.next + 1
  BY <1>1, <1>2, <1>3 DEF ScanRecord, ScanType
<1>5. /\ scan' = [scan EXCEPT ![p] = new]
      /\ scan'[p] = new /\ \A u \in Pollers \ {p} : scan'[u] = scan[u]
  BY <1>1 DEF Visits
<1> HIDE DEF new
<1>6. \A u \in Pollers : scan'[u].nev + scan'[u].nulls <= scan'[u].next - 1
  <2> TAKE u \in Pollers
  <2>1. CASE u = p
    BY <1>4, <1>5, <2>1
  <2>2. CASE u # p
    BY <1>5, <2>2 DEF IInv, TypeOK
  <2>3. QED
    BY <2>1, <2>2
<1>7. /\ polls' \in [Pollers -> [PollIndices -> PollType]]
      /\ scan' \in [Pollers -> ScanType]
  BY <1>1, <1>4, <1>5
<1>8. TypeOK'
  BY <1>6, <1>7 DEF IInv, TypeOK
<1>9. \A u \in Pollers : \A i \in PollIndices :
        polls'[u][i].m_bbq = polls[u][i].m_bbq
  BY <1>1 DEF Visited
<1>10. ASSUME NEW u \in Pollers, NEW r \in Queues,
              pc[u] \in {"scan", "lock", "waiting"}, scan'[u].is_pre,
              HasVisited(u, r)', HasNews(u, r)'
       PROVE  missed[u]
  <2>1. HasNews(u, r)
    BY <1>10
  <2>2. CASE u # p
    BY <1>5, <1>9, <1>10, <2>1, <2>2 DEF HasVisited, IInv, NewsIsSeen
  <2>3. CASE u = p
    <3>1. s.is_pre /\ r # poll.m_bbq
      BY <1>4, <1>5, <1>10, <2>3
    <3>2. PICK i \in PollIndices : i < new.next /\ polls[p][i].m_bbq = r
      BY <1>5, <1>9, <1>10, <2>3 DEF HasVisited
    <3>3. i # s.next
      BY <3>1, <3>2 DEF Visited
    <3>4. i < s.next
      BY <1>1, <1>4, <3>2, <3>3, Ranges DEF PollIndices
    <3>5. HasVisited(p, r)
      BY <3>2, <3>4 DEF HasVisited
    <3>6. QED
      BY <1>1, <2>1, <2>3, <3>1, <3>5 DEF IInv, NewsIsSeen
  <2>4. QED
    BY <2>2, <2>3
<1>11. NewsIsSeen'
  BY <1>10 DEF NewsIsSeen
<1>12. InPollIsAlive' /\ ScanIsDone'
  BY <1>1, <1>5 DEF IInv, InPollIsAlive, ScanIsDone
<1>13. QED
  BY <1>8, <1>11, <1>12 DEF IInv

(* The steps of a scan.                                                    *)
LEMMA ScanSteps ==
  ASSUME IInv, NEW p \in Pollers,
         VisitNull(p) \/ VisitQueue(p) \/ VisitShutDown(p)
  PROVE  IInv'
<1> DEFINE poll == Visited(p)
<1>1. /\ Visiting(p) /\ poll \in PollType
      /\ poll.m_bbq \in Queues \cup {NoQueue}
      /\ poll.m_type \in Types \cup {NoType}
      /\ queue \in [Queues -> QueueType]
  <2>1. Visiting(p)
    BY DEF VisitNull, VisitQueue, VisitShutDown
  <2>2. scan[p].next \in PollIndices
    BY <2>1, Ranges DEF Visiting, IInv, TypeOK, ScanType, PollIndices
  <2>3. poll \in PollType
    BY <2>2 DEF Visited, IInv, TypeOK
  <2>4. QED
    BY <2>1, <2>3 DEF PollType, IInv, TypeOK
<1>2. CASE VisitNull(p)
  <2> DEFINE new == NewPoll(NoQueue, poll.m_type)
  <2>1. /\ polls' = [polls EXCEPT ![p][scan[p].next] = new]
        /\ Visits(p, 0, 1) /\ poll.m_bbq = NoQueue
        /\ UNCHANGED <<queue, pc, timed, ret, m_lock, alive, missed, exited>>
    BY <1>2 DEF VisitNull
  <2>2. new \in PollType /\ new.m_bbq = poll.m_bbq
    BY <1>1, <2>1, Ranges DEF NewPoll, PollRecord, PollType
  <2>3. /\ \A u \in Pollers, r \in Queues : HasNews(u, r)' => HasNews(u, r)
        /\ \A r \in Queues : r # new.m_bbq
    BY <2>1, <2>2, Ranges DEF HasNews
  <2>4. 0 \in {0, 1} /\ 1 \in {0, 1} /\ 0 + 1 <= 1
    OBVIOUS
  <2>5. QED
    <3> HIDE DEF new
    <3>1. QED
      BY <1>1, <2>1, <2>2, <2>3, <2>4, PollVisited, ZenonT(60)
<1>3. CASE VisitQueue(p)
  <2>1. PICK q \in Queues : q = poll.m_bbq /\ queue[q] \in QueueType
    BY <1>1, <1>3 DEF VisitQueue
  <2> DEFINE cb == queue[q]
             new == Measured(poll, cb)
             events == IF MustWaitFor(cb, poll.m_type) = NoType THEN 1 ELSE 0
             after == SetUp(cb, p, poll.m_type, scan[p].is_pre)
  <2>2. /\ cb.m_is_operational
        /\ queue' = [queue EXCEPT ![q] = after]
        /\ polls' = [polls EXCEPT ![p][scan[p].next] = new]
        /\ Visits(p, events, 0)
        /\ UNCHANGED <<pc, timed, ret, m_lock, alive, missed, exited>>
    BY <1>3, <2>1 DEF VisitQueue
  <2>3. cb \in QueueType /\ cb.m_n_elements \in 0 .. MaxElements
    BY <2>1 DEF QueueType
  <2>4. MaxElements - cb.m_n_elements \in 0 .. MaxElements
    BY <2>3, Ranges
  <2>5. new \in PollType /\ new.m_bbq = poll.m_bbq
    BY <1>1, <2>3, <2>4 DEF Measured, PollRecord, PollType
  <2>6. MustWaitFor(cb, poll.m_type) \in SUBSET {Readable, Writable}
    BY DEF MustWaitFor, NoType
  <2>7. after \in QueueType
    BY <2>3, <2>6 DEF SetUp, QueueRecord, QueueType, NoType
  <2>8. queue' \in [Queues -> QueueType] /\ queue'[q] = after
        /\ \A r \in Queues \ {q} : queue'[r] = queue[r]
    BY <1>1, <2>2, <2>3, <2>7
  <2>9. /\ after.m_is_operational
        /\ after.m_type = {Readable} => after.m_n_elements = 0
    BY <2>3 DEF SetUp, MustWaitFor, QueueRecord, NoType, Readable, Writable
  <2>10. \A u \in Pollers : ~HasNews(u, q)'
    BY <2>3, <2>8, <2>9 DEF HasNews
  <2>11. \A u \in Pollers, r \in Queues : HasNews(u, r)' => HasNews(u, r)
    BY <2>8, <2>10 DEF HasNews
  <2>12. events \in {0, 1} /\ 0 \in {0, 1} /\ events + 0 <= 1
    OBVIOUS
  <2>13. \A r \in Queues : scan[p].is_pre /\ r = new.m_bbq => ~HasNews(p, r)'
    BY <2>1, <2>5, <2>10
  <2>14. new.m_bbq = Visited(p).m_bbq
    BY <2>5
  <2>15. QED
    <3> HIDE DEF new, events, after
    <3>1. QED
      BY <1>1, <2>2, <2>5, <2>8, <2>11, <2>12, <2>13, <2>14, PollVisited, ZenonT(60)
<1>4. CASE VisitShutDown(p)
  <2>1. /\ UNCHANGED <<queue, polls, m_lock, alive, exited>>
        /\ \/ Returns(p, NotOperational)
           \/ /\ ~scan[p].is_pre /\ Visits(p, 0, 0)
              /\ UNCHANGED <<pc, timed, ret, missed>>
    BY <1>4 DEF VisitShutDown
  <2>2. CASE Returns(p, NotOperational)
    BY <2>1, <2>2, Ranges, PollReturns
  <2>3. CASE /\ ~scan[p].is_pre /\ Visits(p, 0, 0)
             /\ UNCHANGED <<pc, timed, ret, missed>>
    <3>1. polls' = [polls EXCEPT ![p][scan[p].next] = poll]
      BY <2>1 DEF Visited, IInv, TypeOK
    <3>2. /\ \A u \in Pollers, r \in Queues : HasNews(u, r)' => HasNews(u, r)
          /\ queue' \in [Queues -> QueueType]
      BY <1>1, <2>1 DEF HasNews
    <3>3. 0 \in {0, 1} /\ 0 + 0 <= 1
      OBVIOUS
    <3>4. QED
      BY <1>1, <2>1, <2>3, <3>1, <3>2, <3>3, PollVisited
  <2>4. QED
    BY <2>1, <2>2, <2>3
<1>5. QED
  BY <1>2, <1>3, <1>4

(* The other steps of a poll.                                              *)
LEMMA PollSteps ==
  ASSUME IInv, NEW p \in Pollers,
         \/ Poll(p) \/ ScanEnds(p) \/ Sleep(p) \/ WakeUp(p) \/ Expires(p)
         \/ SpuriousWakeup(p) \/ Cancel(p) \/ CancelJanitor(p)
  PROVE  IInv'
<1>1. /\ pc \in [Pollers -> PCs] /\ missed \in [Pollers -> BOOLEAN]
      /\ scan \in [Pollers -> ScanType] /\ ret \in [Pollers -> Results]
      /\ timed \in [Pollers -> BOOLEAN]
      /\ m_lock \in [Pollers -> Pollers \cup {NoPoller}]
      /\ scan[p] \in ScanType /\ missed[p] \in BOOLEAN
      /\ scan[p].nev + scan[p].nulls <= scan[p].next - 1
      /\ pc[p] # "idle" => alive[p]
  BY DEF IInv, TypeOK, InPollIsAlive
<1>2. /\ scan = [scan EXCEPT ![p] = scan[p]]
      /\ missed = [missed EXCEPT ![p] = missed[p]]
  BY <1>1
<1>3. /\ "scan" \in PCs /\ "lock" \in PCs /\ "waiting" \in PCs
      /\ "awake" \in PCs /\ "canceled" \in PCs
  BY DEF PCs
<1>4. ASSUME NEW is_pre \in BOOLEAN
      PROVE  /\ NewScan(is_pre) \in ScanType
             /\ NewScan(is_pre).nev + NewScan(is_pre).nulls
                  <= NewScan(is_pre).next - 1
             /\ NewScan(is_pre).is_pre = is_pre
             /\ \A i \in PollIndices : ~(i < NewScan(is_pre).next)
  <2>1. /\ NewScan(is_pre).nev = 0 /\ NewScan(is_pre).nulls = 0
        /\ NewScan(is_pre).next = 1 /\ NewScan(is_pre).is_pre = is_pre
    BY DEF NewScan, ScanRecord
  <2>2. 0 + 0 <= 1 - 1
    OBVIOUS
  <2>3. \A i \in PollIndices : ~(i < 1)
    BY Ranges DEF PollIndices
  <2>4. QED
    BY <2>1, <2>2, <2>3, NewScanIsTyped
<1>5. TRUE \in BOOLEAN /\ FALSE \in BOOLEAN
  OBVIOUS
<1>6. CASE Poll(p)
  <2>1. /\ pc' = [pc EXCEPT ![p] = "scan"]
        /\ scan' = [scan EXCEPT ![p] = NewScan(TRUE)]
        /\ missed' = [missed EXCEPT ![p] = FALSE]
        /\ alive[p] /\ timed' \in [Pollers -> BOOLEAN]
        /\ ret' \in [Pollers -> Results]
        /\ UNCHANGED <<queue, polls, m_lock, alive, exited>>
    BY <1>1, <1>6, Ranges DEF Poll, Between
  <2>2. QED
    BY <1>1, <1>3, <1>4, <1>5, <2>1, PollerMoved
<1>7. CASE ScanEnds(p)
  <2>1. /\ pc[p] = "scan" /\ scan[p].next > NPolls
        /\ UNCHANGED <<queue, polls, m_lock, alive, exited>>
    BY <1>7 DEF ScanEnds
  <2>2. scan[p].next = NPolls + 1 /\ scan[p].nev \in 0 .. NPolls
    BY <1>1, <2>1, Ranges DEF ScanType
  <2>3. CASE Returns(p, InvalidArgs)
    BY <2>1, <2>3, Ranges, PollReturns
  <2>4. CASE scan[p].nev > 0 /\ Returns(p, scan[p].nev)
    <3>1. scan[p].nev \in Results
      BY <2>2, <2>4, Ranges DEF PollIndices, Results
    <3>2. QED
      BY <2>1, <2>4, <3>1, PollReturns
  <2>5. CASE /\ scan[p].is_pre /\ pc' = [pc EXCEPT ![p] = "lock"]
             /\ UNCHANGED <<scan, timed, ret, missed>>
    <3>1. \A r \in Queues :
            /\ scan[p].is_pre
            /\ \E i \in PollIndices : i < scan[p].next /\ polls[p][i].m_bbq = r
            /\ HasNews(p, r)
            => missed[p]
      BY <2>1 DEF IInv, NewsIsSeen, HasVisited
    <3>2. QED
      BY <1>1, <1>2, <1>3, <2>1, <2>2, <2>5, <3>1, PollerMoved, ZenonT(60)
  <2>6. CASE AfterNothing(p) /\ UNCHANGED <<timed, ret>>
    <3>1. /\ pc' = [pc EXCEPT ![p] = "scan"]
          /\ scan' = [scan EXCEPT ![p] = NewScan(TRUE)]
          /\ missed' = [missed EXCEPT ![p] = FALSE]
      BY <1>1, <2>1, <2>6 DEF AfterNothing
    <3>2. QED
      BY <1>1, <1>3, <1>4, <1>5, <2>1, <2>6, <3>1, PollerMoved
  <2>7. QED
    BY <1>7, <2>3, <2>4, <2>5, <2>6 DEF ScanEnds
<1>8. CASE Sleep(p)
  <2>1. /\ pc[p] = "lock" /\ pc' = [pc EXCEPT ![p] = "waiting"]
        /\ UNCHANGED <<queue, polls, scan, timed, ret, m_lock, alive, missed, exited>>
    BY <1>8 DEF Sleep
  <2>2. /\ scan[p].is_pre /\ scan[p].next = NPolls + 1
        /\ \A r \in Queues :
             /\ \E i \in PollIndices : i < scan[p].next /\ polls[p][i].m_bbq = r
             /\ HasNews(p, r)
             => missed[p]
    BY <2>1 DEF IInv, ScanIsDone, NewsIsSeen, HasVisited
  <2>3. QED
    BY <1>1, <1>2, <1>3, <2>1, <2>2, PollerMoved
<1>9. CASE WakeUp(p)
  <2>1. /\ pc[p] = "awake" /\ pc' = [pc EXCEPT ![p] = "scan"]
        /\ scan' = [scan EXCEPT ![p] = NewScan(FALSE)]
        /\ UNCHANGED <<queue, polls, timed, ret, m_lock, alive, missed, exited>>
    BY <1>9 DEF WakeUp
  <2>2. QED
    BY <1>1, <1>2, <1>3, <1>4, <1>5, <2>1, PollerMoved
<1>10. CASE Expires(p)
  BY <1>10, Ranges, PollReturns DEF Expires
<1>11. CASE SpuriousWakeup(p)
  <2>1. /\ pc[p] = "waiting" /\ pc' = [pc EXCEPT ![p] = "awake"]
        /\ UNCHANGED <<queue, polls, scan, timed, ret, m_lock, alive, missed, exited>>
    BY <1>11 DEF SpuriousWakeup
  <2>2. "awake" \notin {"scan", "lock", "waiting"} /\ "awake" # "idle"
    OBVIOUS
  <2>3. QED
    BY <1>1, <1>2, <1>3, <2>1, <2>2, PollerMoved, ZenonT(60)
<1>12. CASE Cancel(p)
  <2>1. /\ pc[p] = "waiting" /\ pc' = [pc EXCEPT ![p] = "canceled"]
        /\ m_lock' \in [Pollers -> Pollers \cup {NoPoller}]
        /\ UNCHANGED <<queue, polls, scan, timed, ret, alive, missed, exited>>
    BY <1>1, <1>12 DEF Cancel
  <2>2. "canceled" \notin {"scan", "lock", "waiting"} /\ "canceled" # "idle"
    OBVIOUS
  <2>3. QED
    BY <1>1, <1>2, <1>3, <2>1, <2>2, PollerMoved, ZenonT(60)
<1>13. CASE CancelJanitor(p)
  <2>1. /\ Leaves(p) /\ m_lock' \in [Pollers -> Pollers \cup {NoPoller}]
        /\ UNCHANGED <<queue, polls, ret, alive, exited>>
    BY <1>1, <1>13 DEF CancelJanitor
  <2>2. QED
    BY <1>1, <2>1, PollEnds
<1>14. QED
  BY <1>6, <1>7, <1>8, <1>9, <1>10, <1>11, <1>12, <1>13

(* What a poller does between two polls.                                   *)
LEMMA BetweenSteps ==
  ASSUME IInv, NEW p \in Pollers,
         \/ Destroy(p)
         \/ \E i \in PollIndices : SetQueue(p, i) \/ SetType(p, i) \/ Reset(p, i)
  PROVE  IInv'
<1>1. /\ ret \in [Pollers -> Results]
      /\ \A i \in PollIndices : polls[p][i] \in PollType
  BY DEF IInv, TypeOK
<1>2. CASE Destroy(p)
  <2>1. /\ alive' = [alive EXCEPT ![p] = FALSE] /\ pc[p] = "idle"
        /\ UNCHANGED <<queue, polls, pc, scan, timed, ret, m_lock, missed, exited>>
    BY <1>2 DEF Destroy, Between
  <2>2. TypeOK'
    BY <2>1 DEF IInv, TypeOK
  <2>3. NewsIsSeen'
    BY <2>1 DEF IInv, NewsIsSeen, HasVisited, HasNews
  <2>4. InPollIsAlive' /\ ScanIsDone'
    BY <2>1 DEF IInv, TypeOK, InPollIsAlive, ScanIsDone
  <2>5. QED
    BY <2>2, <2>3, <2>4 DEF IInv
<1>3. ASSUME NEW i \in PollIndices, SetQueue(p, i)
      PROVE  IInv'
  <2>1. PICK q \in Queues \cup {NoQueue} : polls' = [polls EXCEPT ![p][i].m_bbq = q]
    BY <1>3 DEF SetQueue
  <2> DEFINE new == [polls[p][i] EXCEPT !.m_bbq = q]
  <2>2. new \in PollType
    BY <1>1 DEF PollType
  <2>3. /\ polls' = [polls EXCEPT ![p][i] = new]
        /\ Between(p) /\ ret' \in [Pollers -> Results]
        /\ UNCHANGED <<queue, pc, scan, timed, m_lock, alive, missed, exited>>
    BY <1>1, <1>3, <2>1, Ranges DEF SetQueue
  <2>4. QED
    <3> HIDE DEF new
    <3>1. QED
      BY <2>2, <2>3, PollChanged
<1>4. ASSUME NEW i \in PollIndices, SetType(p, i)
      PROVE  IInv'
  <2>1. PICK type \in Types \cup {NoType} :
          polls' = [polls EXCEPT ![p][i].m_type = type]
    BY <1>4 DEF SetType
  <2> DEFINE new == [polls[p][i] EXCEPT !.m_type = type]
  <2>2. new \in PollType
    BY <1>1 DEF PollType
  <2>3. /\ polls' = [polls EXCEPT ![p][i] = new]
        /\ Between(p) /\ ret' \in [Pollers -> Results]
        /\ UNCHANGED <<queue, pc, scan, timed, m_lock, alive, missed, exited>>
    BY <1>1, <1>4, <2>1, Ranges DEF SetType
  <2>4. QED
    <3> HIDE DEF new
    <3>1. QED
      BY <2>2, <2>3, PollChanged
<1>5. ASSUME NEW i \in PollIndices, Reset(p, i)
      PROVE  IInv'
  <2> DEFINE new == NewPoll(polls[p][i].m_bbq, polls[p][i].m_type)
  <2>1. new \in PollType
    BY <1>1, Ranges DEF NewPoll, PollRecord, PollType
  <2>2. /\ polls' = [polls EXCEPT ![p][i] = new]
        /\ Between(p) /\ ret' \in [Pollers -> Results]
        /\ UNCHANGED <<queue, pc, scan, timed, m_lock, alive, missed, exited>>
    BY <1>1, <1>5 DEF Reset
  <2>3. QED
    <3> HIDE DEF new
    <3>1. QED
      BY <2>1, <2>2, PollChanged
<1>6. QED
  BY <1>2, <1>3, <1>4, <1>5
-----------------------------------------------------------------------------
LEMMA NextIInv == IInv /\ [Next]_vars => IInv'
<1> SUFFICES ASSUME IInv, [Next]_vars PROVE IInv'
  OBVIOUS
<1>1. CASE UNCHANGED vars
  <2>1. TypeOK'
    BY <1>1 DEF vars, IInv, TypeOK
  <2>2. InPollIsAlive' /\ ScanIsDone'
    BY <1>1 DEF vars, IInv, InPollIsAlive, ScanIsDone
  <2>3. NewsIsSeen'
    BY <1>1 DEF vars, IInv, NewsIsSeen, HasVisited, HasNews
  <2>4. QED
    BY <2>1, <2>2, <2>3 DEF IInv
<1>2. CASE Crashed
  BY <1>1, <1>2 DEF Crashed
<1>3. ASSUME NEW q \in Queues, Put(q) \/ Get(q) \/ Clear(q) \/ Shutdown(q)
      PROVE  IInv'
  BY <1>3, QueueActions
<1>4. ASSUME NEW p \in Pollers, Step(p)
      PROVE  IInv'
  BY <1>4, ScanSteps, PollSteps DEF Step
<1>5. ASSUME NEW p \in Pollers, Poll(p) \/ SpuriousWakeup(p) \/ Cancel(p)
      PROVE  IInv'
  BY <1>5, PollSteps
<1>6. ASSUME NEW p \in Pollers,
             \/ Destroy(p)
             \/ \E i \in PollIndices :
                  SetQueue(p, i) \/ SetType(p, i) \/ Reset(p, i)
      PROVE  IInv'
  BY <1>6, BetweenSteps
<1>7. QED
  BY <1>1, <1>2, <1>3, <1>4, <1>5, <1>6 DEF Next

(* For any pollers, queues, poll objects, capacities and event types: a    *)
(* scan (qmuxer.c:68) stays within its poll objects, counts each of them   *)
(* once, and mccp_qmuxer_poll() returns a number of events or an error.    *)
THEOREM TypeCorrect == Spec => []TypeOK
<1>1. IInv => TypeOK
  BY DEF IInv
<1>2. QED
  BY <1>1, InitIInv, NextIInv, PTL DEF Spec

(* For any pollers, queues, poll objects, capacities and event types, with *)
(* stolen events, stolen registrations, timeouts and cancellation: of a    *)
(* queue it is registered on, a sleeping poller misses an element or the   *)
(* shutdown only if it happened between its scan and its wait.             *)
THEOREM OnlyTheWindowDrops == Spec => []DropsOnlyInWindow
<1>1. IInv => DropsOnlyInWindow
  <2> SUFFICES ASSUME IInv, NEW p \in Pollers, NEW q \in Queues,
                      pc[p] = "waiting", PollsQueue(p, q), HasNews(p, q)
               PROVE  missed[p]
    BY DEF DropsOnlyInWindow
  <2>1. scan[p].is_pre /\ scan[p].next = NPolls + 1
    BY DEF IInv, ScanIsDone
  <2>2. \A i \in PollIndices : i < NPolls + 1
    BY Ranges DEF PollIndices
  <2>3. HasVisited(p, q)
    BY <2>1, <2>2 DEF PollsQueue, HasVisited
  <2>4. QED
    BY <2>1, <2>3 DEF IInv, NewsIsSeen
<1>2. QED
  BY <1>1, InitIInv, NextIInv, PTL DEF Spec
-----------------------------------------------------------------------------
(***************************************************************************)
(* What a poll measured.  Between the visit to a queue and the return of   *)
(* the events the count of a queue that only the poller takes from may     *)
(* grow and cannot shrink: the property has to hold from the visit on.     *)
(***************************************************************************)
SizeIsThere(p, i) ==
  LET q == polls[p][i].m_bbq IN
  q # NoQueue /\ Consumer[q] = p /\ queue[q].m_is_operational
  => queue[q].m_n_elements >= polls[p][i].m_q_size

IsMeasured(p, i) ==
  \/ pc[p] = "idle" /\ ret[p] > 0
  \/ pc[p] = "scan" /\ i < scan[p].next

MeasuresHold ==
  \A p \in Pollers, i \in PollIndices : IsMeasured(p, i) => SizeIsThere(p, i)

(* In a poll there is no result yet: one that is canceled has none.        *)
NoResultYet == \A p \in Pollers : pc[p] # "idle" => ret[p] = NotPolled

(* The queue of a poll object is the one that was measured, and nobody has *)
(* taken from it or reopened it.                                           *)
StillThere(p, i) ==
  /\ polls'[p][i].m_bbq = polls[p][i].m_bbq
  /\ polls'[p][i].m_q_size = polls[p][i].m_q_size
  /\ polls[p][i].m_bbq \in Queues /\ Consumer[polls[p][i].m_bbq] = p =>
       LET cb    == queue[polls[p][i].m_bbq]
           after == queue'[polls[p][i].m_bbq]
       IN  after.m_is_operational =>
             cb.m_is_operational /\ after.m_n_elements >= cb.m_n_elements

LEMMA MeasureStays ==
  ASSUME TypeOK, TypeOK', NEW p \in Pollers, NEW i \in PollIndices,
         SizeIsThere(p, i), StillThere(p, i)
  PROVE  SizeIsThere(p, i)'
<1> DEFINE q == polls[p][i].m_bbq
           size == polls[p][i].m_q_size
<1>1. q \in Queues \cup {NoQueue} /\ size \in Int
  <2>1. polls[p][i] \in PollType
    BY DEF TypeOK
  <2>2. QED
    BY <2>1, Ranges DEF PollType
<1>2. ASSUME q # NoQueue, Consumer[q] = p, queue'[q].m_is_operational
      PROVE  queue'[q].m_n_elements >= size
  <2>1. /\ queue[q].m_is_operational
        /\ queue'[q].m_n_elements >= queue[q].m_n_elements
    BY <1>1, <1>2 DEF StillThere
  <2>2. queue[q].m_n_elements >= size
    BY <1>2, <2>1 DEF SizeIsThere
  <2>3. queue[q] \in QueueType /\ queue'[q] \in QueueType
    BY <1>1, <1>2 DEF TypeOK
  <2>4. queue[q].m_n_elements \in Int /\ queue'[q].m_n_elements \in Int
    BY <2>3, Ranges DEF QueueType
  <2>5. QED
    <3> HIDE DEF q, size
    <3>1. QED
      BY <1>1, <2>1, <2>2, <2>4
<1>3. QED
  BY <1>2 DEF SizeIsThere, StillThere

(* A step in which whatever is measured after it stays or is measured by   *)
(* it.                                                                     *)
LEMMA MeasuresStay ==
  ASSUME TypeOK, TypeOK', MeasuresHold,
         \A p \in Pollers, i \in PollIndices :
           IsMeasured(p, i)' =>
             \/ SizeIsThere(p, i)'
             \/ IsMeasured(p, i) /\ StillThere(p, i)
  PROVE  MeasuresHold'
BY MeasureStays DEF MeasuresHold

(* Where no queue is changed but in its registration.                      *)
LEMMA SameCounts ==
  ASSUME TypeOK, NEW p \in Pollers, NEW i \in PollIndices,
         polls'[p][i] = polls[p][i],
         \A q \in Queues :
           /\ queue'[q].m_n_elements = queue[q].m_n_elements
           /\ queue'[q].m_is_operational = queue[q].m_is_operational
  PROVE  StillThere(p, i)
<1>1. \A q \in Queues : queue[q].m_n_elements \in Int
  BY Ranges DEF TypeOK, QueueType
<1>2. \A q \in Queues : queue'[q].m_n_elements >= queue[q].m_n_elements
  BY <1>1
<1>3. QED
  BY <1>2 DEF StillThere

(* What an operation on a queue does to the pollers.                       *)
LEMMA QueueAwakens ==
  ASSUME TypeOK, NEW q \in Queues, Put(q) \/ Get(q) \/ Clear(q) \/ Shutdown(q)
  PROVE  \/ UNCHANGED pc
         \/ \E o \in Pollers \cup {NoPoller} :
              pc[o] = "waiting" /\ pc' = [pc EXCEPT ![o] = "awake"]
<1> DEFINE owner == queue[q].m_qmuxer
<1>1. owner \in Pollers \cup {NoPoller}
  BY DEF TypeOK, QueueType
<1>2. UNCHANGED pc \/ Notify(owner)
  BY DEF Put, Get, Clear, Shutdown, Operate
<1>3. CASE Notify(owner)
  <2>1. \/ UNCHANGED pc
        \/ pc[owner] = "waiting" /\ pc' = [pc EXCEPT ![owner] = "awake"]
    BY <1>3 DEF Notify
  <2>2. QED
    <3> HIDE DEF owner
    <3>1. QED
      BY <1>1, <2>1
<1>4. QED
  BY <1>2, <1>3

LEMMA QueuesKeepMeasures ==
  ASSUME TypeOK, TypeOK', MeasuresHold, NEW q \in Queues,
         Put(q) \/ Get(q) \/ Clear(q) \/ Shutdown(q)
  PROVE  MeasuresHold'
<1> DEFINE cb == queue[q]
<1>1. /\ cb \in QueueType /\ cb.m_n_elements \in Int /\ queue \in [Queues -> QueueType]
      /\ pc \in [Pollers -> PCs] /\ ret \in [Pollers -> Results]
      /\ \A r \in Queues : queue[r].m_n_elements \in Int
  BY Ranges DEF TypeOK, QueueType
<1>2. /\ UNCHANGED <<polls, scan>>
      /\ \A r \in Queues \ {q} : queue'[r] = queue[r]
  BY <1>1 DEF Put, Get, Clear, Shutdown, Operate
<1>3. \A p \in Pollers :
        pc'[p] \in {"idle", "scan"} => pc'[p] = pc[p]
  BY <1>1, QueueAwakens
<1>4. ASSUME NEW p \in Pollers, NEW i \in PollIndices, IsMeasured(p, i)'
      PROVE  IsMeasured(p, i) /\ (Get(q) => p # Consumer[q])
  <2>1. Get(q) \/ ret' = ret
    BY DEF Put, Clear, Shutdown
  <2>2. CASE ret' = ret /\ ~Get(q)
    BY <1>2, <1>3, <1>4, <2>2 DEF IsMeasured
  <2>3. CASE Get(q)
    <3>1. /\ Consumer[q] # NoPoller => pc[Consumer[q]] = "idle"
          /\ ret'[p] = IF p = Consumer[q] THEN NotPolled ELSE ret[p]
      BY <2>3 DEF Get
    <3>2. p # Consumer[q]
      <4> SUFFICES ASSUME p = Consumer[q] PROVE FALSE
        OBVIOUS
      <4>1. pc[p] = "idle" /\ ret'[p] = NotPolled
        BY <3>1, Ranges
      <4>2. pc'[p] # "scan"
        BY <1>3, <4>1
      <4>3. NotPolled > 0
        BY <1>4, <4>1, <4>2 DEF IsMeasured
      <4>4. QED
        BY <4>3 DEF NotPolled
    <3>3. QED
      BY <1>2, <1>3, <1>4, <3>1, <3>2 DEF IsMeasured
  <2>4. QED
    BY <2>1, <2>2, <2>3
<1>5. ASSUME NEW p \in Pollers, Get(q) => p # Consumer[q],
             Consumer[q] = p, queue'[q].m_is_operational
      PROVE  cb.m_is_operational /\ queue'[q].m_n_elements >= cb.m_n_elements
  <2>1. CASE Put(q)
    <3>1. /\ cb.m_is_operational
          /\ queue' = [queue EXCEPT ![q] = [cb EXCEPT !.m_n_elements = @ + 1]]
      BY <2>1 DEF Put, Operate
    <3>2. queue'[q].m_n_elements = cb.m_n_elements + 1
      BY <1>1, <3>1 DEF QueueType
    <3>3. QED
      BY <1>1, <3>1, <3>2
  <2>2. CASE Clear(q)
    BY <1>5, <2>2, Ranges DEF Clear
  <2>3. CASE Shutdown(q)
    <3>1. ~queue'[q].m_is_operational
      BY <1>1, <2>3 DEF Shutdown, Operate, QueueRecord
    <3>2. QED
      BY <1>5, <3>1
  <2>4. QED
    BY <1>5, <2>1, <2>2, <2>3
<1>6. ASSUME NEW p \in Pollers, NEW i \in PollIndices, IsMeasured(p, i)'
      PROVE  IsMeasured(p, i) /\ StillThere(p, i)
  <2> DEFINE r == polls[p][i].m_bbq
  <2>1. r \in Queues /\ r # q =>
          /\ queue'[r] = queue[r]
          /\ queue'[r].m_n_elements >= queue[r].m_n_elements
    <3>1. r \in Queues => queue[r].m_n_elements >= queue[r].m_n_elements
      BY <1>1
    <3>2. QED
      BY <1>2, <3>1
  <2>2. r = q /\ Consumer[q] = p /\ queue'[q].m_is_operational =>
          /\ cb.m_is_operational
          /\ queue'[q].m_n_elements >= cb.m_n_elements
    BY <1>4, <1>5, <1>6
  <2>3. QED
    BY <1>2, <1>4, <1>6, <2>1, <2>2 DEF StillThere
<1>7. QED
  BY <1>6, MeasuresStay

(* The scan measures the poll object that it visits.                       *)
LEMMA VisitsMeasure ==
  ASSUME TypeOK, TypeOK', MeasuresHold, NEW p \in Pollers,
         VisitNull(p) \/ VisitQueue(p) \/ VisitShutDown(p)
  PROVE  MeasuresHold'
<1>0. /\ pc[p] = "scan" /\ scan[p].next <= NPolls
      /\ scan[p].next \in PollIndices
  <2>1. pc[p] = "scan" /\ scan[p].next <= NPolls
    BY DEF VisitNull, VisitQueue, VisitShutDown, Visiting
  <2>2. QED
    BY <2>1, Ranges DEF TypeOK, ScanType, PollIndices
<1> PICK n \in PollIndices : n = scan[p].next
  BY <1>0
<1> PICK q \in Queues \cup {NoQueue} : q = polls[p][n].m_bbq
  BY DEF TypeOK, PollType
<1>1. /\ pc[p] = "scan" /\ n \in Int
      /\ queue \in [Queues -> QueueType]
      /\ polls \in [Pollers -> [PollIndices -> PollType]]
      /\ polls[p][n] \in PollType
      /\ pc \in [Pollers -> PCs] /\ scan \in [Pollers -> ScanType]
      /\ ret \in [Pollers -> Results]
  BY <1>0, Ranges DEF TypeOK, PollIndices
<1>2. ASSUME NEW i \in PollIndices, i < n + 1, i # n
      PROVE  i < n
  BY <1>1, <1>2, Ranges DEF PollIndices
<1>3. CASE VisitNull(p) \/ VisitQueue(p) \/ ~scan[p].is_pre
  <2>1. /\ UNCHANGED <<pc, ret>>
        /\ scan'[p].next = n + 1
        /\ \A u \in Pollers \ {p} : scan'[u] = scan[u]
    BY <1>1, <1>3 DEF VisitNull, VisitQueue, VisitShutDown, Visits, ScanRecord
  <2>2. \A u \in Pollers, i \in PollIndices :
          u # p \/ i # n => polls'[u][i] = polls[u][i]
    <3>1. \/ polls' = polls
          \/ \E poll : polls' = [polls EXCEPT ![p][n] = poll]
      BY DEF VisitNull, VisitQueue, VisitShutDown
    <3>2. QED
      BY <1>1, <3>1
  <2>3. \A r \in Queues :
          /\ queue'[r].m_n_elements = queue[r].m_n_elements
          /\ queue'[r].m_is_operational = queue[r].m_is_operational
    <3>1. CASE queue' = queue
      BY <3>1
    <3>2. CASE VisitQueue(p)
      <4>1. /\ q \in Queues /\ queue[q].m_is_operational
            /\ queue' = [queue EXCEPT ![q] =
                 SetUp(queue[q], p, polls[p][n].m_type, scan[p].is_pre)]
        BY <1>1, <3>2 DEF VisitQueue, Visited
      <4>2. /\ queue'[q].m_n_elements = queue[q].m_n_elements
            /\ queue'[q].m_is_operational = TRUE
        BY <1>1, <4>1 DEF SetUp, QueueRecord
      <4>3. queue[q].m_is_operational = TRUE
        BY <1>1, <4>1 DEF QueueType
      <4>4. QED
        BY <1>1, <4>1, <4>2, <4>3
    <3>3. QED
      BY <3>1, <3>2 DEF VisitNull, VisitShutDown
  <2>4. SizeIsThere(p, n)'
    <3>1. CASE VisitNull(p)
      <4>1. polls'[p][n].m_bbq = NoQueue
        BY <1>1, <3>1 DEF VisitNull, NewPoll, PollRecord
      <4>2. QED
        BY <4>1 DEF SizeIsThere
    <3>2. CASE VisitQueue(p)
      <4>1. /\ polls'[p][n].m_bbq = q /\ q \in Queues
            /\ polls'[p][n].m_q_size = queue[q].m_n_elements
        BY <1>1, <3>2 DEF VisitQueue, Visited, Measured, PollRecord
      <4>2. queue'[q].m_n_elements = queue[q].m_n_elements
        BY <2>3, <4>1
      <4>3. queue[q].m_n_elements \in Int
        BY <1>1, <4>1, Ranges DEF QueueType
      <4>4. queue'[q].m_n_elements >= polls'[p][n].m_q_size
        BY <4>1, <4>2, <4>3
      <4>5. QED
        BY <4>1, <4>4 DEF SizeIsThere
    <3>3. CASE VisitShutDown(p)
      <4>1. UNCHANGED <<queue, polls>> /\ ~queue[q].m_is_operational
        BY <3>3 DEF VisitShutDown, Visited
      <4>2. QED
        BY <4>1 DEF SizeIsThere
    <3>4. QED
      BY <3>1, <3>2, <3>3
  <2>5. ASSUME NEW u \in Pollers, NEW i \in PollIndices, IsMeasured(u, i)'
        PROVE  \/ SizeIsThere(u, i)'
               \/ IsMeasured(u, i) /\ StillThere(u, i)
    <3>1. CASE u = p /\ i = n
      BY <2>4, <3>1
    <3>2. CASE u # p \/ i # n
      <4>1. IsMeasured(u, i)
        BY <1>1, <1>2, <2>1, <2>5, <3>2 DEF IsMeasured
      <4>2. StillThere(u, i)
        BY <2>2, <2>3, <3>2, SameCounts
      <4>3. QED
        BY <4>1, <4>2
    <3>3. QED
      BY <3>1, <3>2
  <2>6. QED
    BY <2>5, MeasuresStay
<1>4. CASE VisitShutDown(p) /\ scan[p].is_pre
  <2>1. /\ UNCHANGED <<queue, polls>>
        /\ pc' = [pc EXCEPT ![p] = "idle"]
        /\ scan' = [scan EXCEPT ![p] = NewScan(TRUE)]
        /\ ret' = [ret EXCEPT ![p] = NotOperational]
    BY <1>4 DEF VisitShutDown, Returns, Leaves
  <2>2. ASSUME NEW u \in Pollers, NEW i \in PollIndices, IsMeasured(u, i)'
        PROVE  IsMeasured(u, i) /\ StillThere(u, i)
    <3>1. u # p
      BY <1>1, <2>1, <2>2 DEF IsMeasured, NotOperational
    <3>2. QED
      BY <1>1, <2>1, <2>2, <3>1, SameCounts DEF IsMeasured
  <2>3. QED
    BY <2>2, MeasuresStay
<1>5. QED
  BY <1>3, <1>4

(* The other steps of a poller change no queue; one that leaves a poll     *)
(* with events has measured every poll object.                             *)
LEMMA PollersKeepMeasures ==
  ASSUME TypeOK, TypeOK', MeasuresHold, NoResultYet, NEW p \in Pollers,
         \/ Poll(p) \/ ScanEnds(p) \/ Sleep(p) \/ WakeUp(p) \/ Expires(p)
         \/ SpuriousWakeup(p) \/ Cancel(p) \/ CancelJanitor(p) \/ Destroy(p)
         \/ \E i \in PollIndices :
              SetQueue(p, i) \/ SetType(p, i) \/ Reset(p, i)
  PROVE  MeasuresHold'
<1>1. /\ pc \in [Pollers -> PCs] /\ scan \in [Pollers -> ScanType]
      /\ ret \in [Pollers -> Results] /\ queue \in [Queues -> QueueType]
      /\ polls \in [Pollers -> [PollIndices -> PollType]]
  BY DEF TypeOK
<1>2. \A i \in PollIndices : ~(i < 1) /\ i < NPolls + 1
  BY Ranges DEF PollIndices
<1>3. /\ NewScan(TRUE).next = 1 /\ NewScan(FALSE).next = 1
      /\ ~(NotPolled > 0) /\ ~(TimedOut > 0) /\ ~(InvalidArgs > 0)
  BY DEF NewScan, ScanRecord, NotPolled, TimedOut, InvalidArgs
<1>4. /\ UNCHANGED queue
      /\ \A u \in Pollers \ {p} :
           /\ pc'[u] = pc[u] /\ scan'[u] = scan[u] /\ ret'[u] = ret[u]
           /\ polls'[u] = polls[u]
  BY <1>1 DEF Poll, ScanEnds, Sleep, WakeUp, Expires, SpuriousWakeup, Cancel,
     CancelJanitor, Destroy, SetQueue, SetType, Reset, Returns, Leaves,
     AfterNothing
<1>5. ASSUME NEW i \in PollIndices, IsMeasured(p, i)'
      PROVE  \/ SizeIsThere(p, i)'
             \/ IsMeasured(p, i) /\ polls'[p][i] = polls[p][i]
  <2>1. CASE Poll(p)
    BY <1>1, <1>2, <1>3, <1>5, <2>1 DEF Poll, IsMeasured
  <2>2. CASE ScanEnds(p)
    <3>1. /\ polls' = polls /\ pc[p] = "scan" /\ scan[p].next = NPolls + 1
      BY <1>1, <2>2, Ranges DEF ScanEnds, ScanType
    <3>2. QED
      BY <1>2, <3>1 DEF IsMeasured
  <2>3. CASE Sleep(p) \/ SpuriousWakeup(p) \/ Cancel(p)
    BY <1>1, <1>5, <2>3 DEF Sleep, SpuriousWakeup, Cancel, IsMeasured
  <2>4. CASE WakeUp(p)
    BY <1>1, <1>2, <1>3, <1>5, <2>4 DEF WakeUp, IsMeasured
  <2>5. CASE Expires(p)
    BY <1>1, <1>3, <1>5, <2>5 DEF Expires, Returns, Leaves, IsMeasured
  <2>6. CASE CancelJanitor(p)
    <3>1. /\ polls' = polls /\ pc[p] = "canceled" /\ ret' = ret
          /\ pc'[p] = "idle" /\ ret[p] = NotPolled
      BY <1>1, <2>6 DEF CancelJanitor, Leaves, NoResultYet
    <3>2. QED
      BY <1>3, <1>5, <3>1 DEF IsMeasured
  <2>7. CASE Destroy(p)
    BY <1>5, <2>7 DEF Destroy, IsMeasured
  <2>8. ASSUME NEW j \in PollIndices, SetQueue(p, j) \/ SetType(p, j)
        PROVE  FALSE
    BY <1>1, <1>3, <1>5, <2>8 DEF SetQueue, SetType, Between, IsMeasured
  <2>9. ASSUME NEW j \in PollIndices, Reset(p, j)
        PROVE  \/ SizeIsThere(p, i)'
               \/ IsMeasured(p, i) /\ polls'[p][i] = polls[p][i]
    <3>1. IsMeasured(p, i)
      BY <1>5, <2>9 DEF Reset, IsMeasured
    <3>2. CASE i # j
      BY <1>1, <2>9, <3>1, <3>2 DEF Reset
    <3>3. CASE i = j
      <4>1. polls'[p][i].m_q_size = 0
        BY <1>1, <2>9, <3>3 DEF Reset, NewPoll, PollRecord
      <4>2. polls'[p][i].m_bbq \in Queues \cup {NoQueue}
        BY DEF TypeOK, PollType
      <4>3. \A q \in Queues : queue'[q].m_n_elements >= 0
        BY Ranges DEF TypeOK, QueueType
      <4>4. QED
        BY <4>1, <4>2, <4>3 DEF SizeIsThere
    <3>4. QED
      BY <3>2, <3>3
  <2>10. QED
    BY <2>1, <2>2, <2>3, <2>4, <2>5, <2>6, <2>7, <2>8, <2>9
<1>6. ASSUME NEW u \in Pollers, NEW i \in PollIndices, IsMeasured(u, i)'
      PROVE  \/ SizeIsThere(u, i)'
             \/ IsMeasured(u, i) /\ StillThere(u, i)
  <2>1. CASE u = p
    BY <1>4, <1>5, <1>6, <2>1, SameCounts
  <2>2. CASE u # p
    <3>1. IsMeasured(u, i) /\ polls'[u][i] = polls[u][i]
      BY <1>4, <1>6, <2>2 DEF IsMeasured
    <3>2. QED
      BY <1>4, <3>1, SameCounts
  <2>3. QED
    BY <2>1, <2>2
<1>7. QED
  BY <1>6, MeasuresStay

LEMMA NextNoResult == TypeOK /\ NoResultYet /\ [Next]_vars => NoResultYet'
<1> SUFFICES ASSUME TypeOK, NoResultYet, [Next]_vars PROVE NoResultYet'
  OBVIOUS
<1>1. pc \in [Pollers -> PCs] /\ ret \in [Pollers -> Results]
  BY DEF TypeOK
<1>2. CASE UNCHANGED vars
  BY <1>2 DEF vars, NoResultYet
<1>3. CASE Crashed
  BY <1>2, <1>3 DEF Crashed
<1>4. ASSUME NEW q \in Queues, Put(q) \/ Get(q) \/ Clear(q) \/ Shutdown(q)
      PROVE  NoResultYet'
  <2>1. \/ UNCHANGED pc
        \/ \E o \in Pollers \cup {NoPoller} :
             pc[o] = "waiting" /\ pc' = [pc EXCEPT ![o] = "awake"]
    BY <1>4, QueueAwakens
  <2>2. \A p \in Pollers : pc'[p] # "idle" => pc[p] # "idle"
    BY <1>1, <2>1
  <2>3. \A p \in Pollers : ret'[p] \in {ret[p], NotPolled}
    BY <1>1, <1>4 DEF Put, Get, Clear, Shutdown
  <2>4. QED
    BY <2>2, <2>3 DEF NoResultYet
<1>5. ASSUME NEW p \in Pollers,
             \/ Poll(p) \/ Step(p) \/ SpuriousWakeup(p) \/ Cancel(p)
             \/ Destroy(p)
             \/ \E i \in PollIndices :
                  SetQueue(p, i) \/ SetType(p, i) \/ Reset(p, i)
      PROVE  NoResultYet'
  <2>1. \A u \in Pollers \ {p} : pc'[u] = pc[u] /\ ret'[u] = ret[u]
    BY <1>1, <1>5 DEF Poll, Step, VisitNull, VisitQueue, VisitShutDown, ScanEnds,
       Sleep, WakeUp, Expires, SpuriousWakeup, Cancel, CancelJanitor, Destroy,
       SetQueue, SetType, Reset, Returns, Leaves, AfterNothing
  <2>2. pc'[p] # "idle" => ret'[p] = NotPolled
    <3>1. CASE Poll(p)
      BY <1>1, <3>1 DEF Poll
    <3>2. CASE pc'[p] = "idle"
      BY <3>2
    <3>3. CASE ret' = ret /\ pc[p] # "idle"
      BY <3>3 DEF NoResultYet
    <3>4. QED
      BY <1>1, <1>5, <3>1, <3>2, <3>3
      DEF Step, VisitNull, VisitQueue, VisitShutDown, ScanEnds, Sleep, WakeUp,
          Expires, SpuriousWakeup, Cancel, CancelJanitor, Destroy, SetQueue,
          SetType, Reset, Returns, Leaves, Visiting, Between
  <2>3. QED
    BY <2>1, <2>2 DEF NoResultYet
<1>6. QED
  BY <1>2, <1>3, <1>4, <1>5 DEF Next

LEMMA NextMeasures ==
  IInv /\ NoResultYet /\ MeasuresHold /\ [Next]_vars => MeasuresHold'
<1> SUFFICES ASSUME IInv, NoResultYet, MeasuresHold, [Next]_vars
             PROVE  MeasuresHold'
  OBVIOUS
<1>1. TypeOK /\ TypeOK'
  BY NextIInv DEF IInv
<1>2. CASE UNCHANGED vars
  BY <1>2 DEF vars, MeasuresHold, IsMeasured, SizeIsThere
<1>3. CASE Crashed
  BY <1>2, <1>3 DEF Crashed
<1>4. ASSUME NEW q \in Queues, Put(q) \/ Get(q) \/ Clear(q) \/ Shutdown(q)
      PROVE  MeasuresHold'
  BY <1>1, <1>4, QueuesKeepMeasures
<1>5. ASSUME NEW p \in Pollers,
             \/ Poll(p) \/ Step(p) \/ SpuriousWakeup(p) \/ Cancel(p)
             \/ Destroy(p)
             \/ \E i \in PollIndices :
                  SetQueue(p, i) \/ SetType(p, i) \/ Reset(p, i)
      PROVE  MeasuresHold'
  <2>1. CASE VisitNull(p) \/ VisitQueue(p) \/ VisitShutDown(p)
    BY <1>1, <2>1, VisitsMeasure
  <2>2. CASE ~(VisitNull(p) \/ VisitQueue(p) \/ VisitShutDown(p))
    BY <1>1, <1>5, <2>2, PollersKeepMeasures DEF Step
  <2>3. QED
    BY <2>1, <2>2
<1>6. QED
  BY <1>2, <1>3, <1>4, <1>5 DEF Next

(* For any pollers, queues, poll objects, capacities and consumers: when a *)
(* poll has returned events, the poller that alone takes from a queue      *)
(* finds at least as many elements in it as mccp_qmuxer_poll_size() says,  *)
(* until it takes some, changes the poll object or the queue is shut down. *)
THEOREM ReportsAreThere == Spec => []ReportedSizeIsThere
<1>1. Init => NoResultYet /\ MeasuresHold
  <2> SUFFICES ASSUME Init PROVE NoResultYet /\ MeasuresHold
    OBVIOUS
  <2>1. \A p \in Pollers : pc[p] = "idle" /\ ret[p] = NotPolled
    BY DEF Init
  <2>2. ~(NotPolled > 0)
    BY DEF NotPolled
  <2>3. QED
    BY <2>1, <2>2 DEF NoResultYet, MeasuresHold, IsMeasured
<1>2. MeasuresHold => ReportedSizeIsThere
  BY DEF MeasuresHold, IsMeasured, SizeIsThere, ReportedSizeIsThere
<1>3. QED
  <2>1. IInv => TypeOK
    BY DEF IInv
  <2>2. QED
    BY <1>1, <1>2, <2>1, InitIInv, NextIInv, NextNoResult, NextMeasures, PTL
    DEF Spec
=============================================================================
