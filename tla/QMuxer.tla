------------------------------- MODULE QMuxer -------------------------------
(***************************************************************************)
(* mccp_qmuxer and mccp_qmuxer_poll: threads that sleep until one of       *)
(* several queues has an event (qmuxer.c, qpoll.c), together with the part *)
(* of the queues that they see (cbuffer.c).                                *)
(*                                                                         *)
(* A poller registers its muxer on its queues one after the other, each    *)
(* under the lock of that queue, and then sleeps under the lock of the     *)
(* muxer; nothing covers both.  A queue operation is one step: it holds    *)
(* the lock of its queue, and takes the lock of the muxer it notifies.     *)
(* What matters of a queue here is its element count, which CBuffer shows  *)
(* to be that of a bounded FIFO; threads blocked in put and get are        *)
(* CBuffer's.                                                              *)
(***************************************************************************)
EXTENDS Integers

CONSTANTS
  Pollers,      \* the threads that poll, each with a muxer of its own
  NoPoller,     \* no muxer (NULL), or a queue anybody may take from
  Queues,
  NoQueue,      \* a poll object without a queue (NULL)
  MaxElements,  \* the capacity of each queue
  NPolls,       \* the number of poll objects of each poller
  Consumer,     \* Consumer[q]: the poller that alone takes from q, or NoPoller
  Types,        \* the event types the clients poll for
  Ops           \* the operations the clients use

Readable == "readable"
Writable == "writable"
NoType   == {}

ASSUME QMuxerAssumption ==
  /\ NoPoller \notin Pollers
  /\ NoQueue \notin Queues
  /\ MaxElements \in Nat \ {0}
  /\ NPolls \in Nat \ {0}
  /\ Consumer \in [Queues -> Pollers \cup {NoPoller}]
  /\ Types \subseteq {{Readable}, {Writable}, {Readable, Writable}}

VARIABLES
  queue,   \* each queue: its element count, flag and registration
  polls,   \* the poll objects of each poller
  pc,      \* where each poller is
  scan,    \* its scan over the poll objects: next one, events, NULLs, is_pre
  timed,   \* nsec >= 0
  ret,     \* what the last poll returned
  m_lock,  \* who holds the lock of each muxer between two steps
  alive,   \* the muxer of each poller is allocated
  missed,  \* since the scan began, an event did not awaken the poller
  exited   \* the process crashed

vars == <<queue, polls, pc, scan, timed, ret, m_lock, alive, missed, exited>>

QueueType ==
  [m_n_elements : 0 .. MaxElements, m_is_operational : BOOLEAN,
   m_qmuxer : Pollers \cup {NoPoller}, m_type : SUBSET {Readable, Writable}]

PollType ==
  [m_bbq : Queues \cup {NoQueue}, m_type : Types \cup {NoType},
   m_q_size : 0 .. MaxElements, m_q_rem_capacity : 0 .. MaxElements]

PollIndices == 1 .. NPolls

PCs == {"idle", "scan", "lock", "waiting", "awake", "canceled"}

\* The results of a poll: a number of events or an error.
NotPolled      == -1
NotOperational == -2
TimedOut       == -3
InvalidArgs    == -4
Results == PollIndices \cup {NotPolled, NotOperational, TimedOut, InvalidArgs}

ScanType ==
  [next : 1 .. NPolls + 1, nev : 0 .. NPolls, nulls : 0 .. NPolls,
   is_pre : BOOLEAN]

ScanRecord(next, nev, nulls, is_pre) ==
  [next |-> next, nev |-> nev, nulls |-> nulls, is_pre |-> is_pre]

NewScan(is_pre) == ScanRecord(1, 0, 0, is_pre)

QueueRecord(n, is_operational, p, type) ==
  [m_n_elements |-> n, m_is_operational |-> is_operational,
   m_qmuxer |-> p, m_type |-> type]

NewQueue == QueueRecord(0, TRUE, NoPoller, NoType)

PollRecord(q, type, size, rem) ==
  [m_bbq |-> q, m_type |-> type, m_q_size |-> size, m_q_rem_capacity |-> rem]

\* mccp_qmuxer_poll_create()
NewPoll(q, type) == PollRecord(q, type, 0, 0)

Init ==
  /\ queue = [q \in Queues |-> NewQueue]
  /\ polls \in [Pollers -> [PollIndices ->
                  {NewPoll(q, type) : q \in Queues, type \in Types}]]
  /\ pc = [p \in Pollers |-> "idle"]
  /\ scan = [p \in Pollers |-> NewScan(TRUE)]
  /\ timed = [p \in Pollers |-> TRUE]
  /\ ret = [p \in Pollers |-> NotPolled]
  /\ m_lock = [p \in Pollers |-> NoPoller]
  /\ alive = [p \in Pollers |-> TRUE]
  /\ missed = [p \in Pollers |-> FALSE]
  /\ exited = FALSE
-----------------------------------------------------------------------------
(* What the queues do for the muxers (cbuffer.c). *)

\* The event a poll for type has to wait for: readable before writable.
MustWaitFor(cb, type) ==
  IF Readable \in type /\ cb.m_n_elements = 0 THEN {Readable}
  ELSE IF Writable \in type /\ cb.m_n_elements = MaxElements THEN {Writable}
  ELSE NoType

SetUp(cb, p, type, is_pre) ==
  IF is_pre /\ MustWaitFor(cb, type) # NoType
  THEN QueueRecord(cb.m_n_elements, TRUE, p, MustWaitFor(cb, type))
  ELSE QueueRecord(cb.m_n_elements, TRUE, NoPoller, NoType)

IsRegistered(cb) == cb.m_qmuxer # NoPoller

\* qmuxer_notify(): whoever sleeps on muxer p is awakened.
Notify(p) ==
  IF alive[p]
  THEN /\ m_lock[p] = NoPoller
       /\ pc' = IF pc[p] = "waiting" THEN [pc EXCEPT ![p] = "awake"] ELSE pc
       /\ missed' = [missed EXCEPT ![p] = @ \/ pc[p] \in {"scan", "lock"}]
       /\ exited' = FALSE
  ELSE \* The muxer was freed: nothing happens, or the process crashes.
       /\ exited' \in BOOLEAN
       /\ UNCHANGED <<pc, missed>>

\* An operation leaves cb in q and notifies the muxer if it must.
Operate(q, cb, notifies) ==
  /\ ~exited
  /\ queue' = [queue EXCEPT ![q] = cb]
  /\ IF IsRegistered(queue[q]) /\ notifies
     THEN Notify(queue[q].m_qmuxer)
     ELSE UNCHANGED <<pc, missed, exited>>
  /\ UNCHANGED <<polls, scan, timed, m_lock, alive>>

Put(q) ==
  LET cb == queue[q] IN
  /\ cb.m_is_operational /\ cb.m_n_elements < MaxElements
  /\ Operate(q, [cb EXCEPT !.m_n_elements = @ + 1], Readable \in cb.m_type)
  /\ UNCHANGED ret

Get(q) ==
  LET cb == queue[q] IN
  /\ Consumer[q] # NoPoller => pc[Consumer[q]] = "idle"
  /\ cb.m_is_operational /\ cb.m_n_elements > 0
  /\ Operate(q, [cb EXCEPT !.m_n_elements = @ - 1], Writable \in cb.m_type)
  /\ ret' = [p \in Pollers |-> IF p = Consumer[q] THEN NotPolled ELSE ret[p]]

\* As the code has it, clear tells a muxer that waits for elements, and not one
\* that waits for room.
Clear(q) ==
  LET cb == queue[q] IN
  /\ "clear" \in Ops
  /\ Consumer[q] = NoPoller
  /\ \/ /\ cb.m_type # {Writable}
        /\ Operate(q, [cb EXCEPT !.m_n_elements = 0], Readable \in cb.m_type)
     \/ /\ ~exited /\ cb.m_type = {Writable}
        /\ queue' = [queue EXCEPT ![q].m_n_elements = 0]
        /\ missed' = [missed EXCEPT ![cb.m_qmuxer] = TRUE]
        /\ UNCHANGED <<polls, pc, scan, timed, m_lock, alive, exited>>
  /\ UNCHANGED ret

\* Faulty: the muxer is told of a shutdown only if it waits for elements.
ShutdownNotifies_Readers(cb) == Readable \in cb.m_type

ShutdownNotifies(cb) == TRUE

Shutdown(q) ==
  LET cb == queue[q] IN
  /\ "shutdown" \in Ops
  /\ cb.m_is_operational
  /\ Operate(q, QueueRecord(0, FALSE, cb.m_qmuxer, cb.m_type),
             ShutdownNotifies(cb))
  /\ UNCHANGED ret
-----------------------------------------------------------------------------
(* Poll objects, which a poller changes between its polls (qpoll.c). *)

Between(p) == ~exited /\ pc[p] = "idle" /\ alive[p]

\* The size and the remaining capacity stay those of the former queue.
SetQueue(p, i) ==
  /\ "set_queue" \in Ops
  /\ Between(p)
  /\ \E q \in Queues \cup {NoQueue} : polls' = [polls EXCEPT ![p][i].m_bbq = q]
  /\ ret' = [ret EXCEPT ![p] = NotPolled]
  /\ UNCHANGED <<queue, pc, scan, timed, m_lock, alive, missed, exited>>

SetType(p, i) ==
  /\ "set_type" \in Ops
  /\ Between(p)
  /\ \E type \in Types :
       polls' = [polls EXCEPT ![p][i].m_type =
                   IF polls[p][i].m_bbq = NoQueue THEN NoType ELSE type]
  /\ ret' = [ret EXCEPT ![p] = NotPolled]
  /\ UNCHANGED <<queue, pc, scan, timed, m_lock, alive, missed, exited>>

Reset(p, i) ==
  /\ "reset" \in Ops
  /\ Between(p)
  /\ polls' = [polls EXCEPT ![p][i] = NewPoll(polls[p][i].m_bbq, polls[p][i].m_type)]
  /\ UNCHANGED <<queue, pc, scan, timed, ret, m_lock, alive, missed, exited>>
-----------------------------------------------------------------------------
(* mccp_qmuxer_poll(). *)

\* Its local variables are gone.
Leaves(p) ==
  /\ pc' = [pc EXCEPT ![p] = "idle"]
  /\ scan' = [scan EXCEPT ![p] = NewScan(TRUE)]
  /\ timed' = [timed EXCEPT ![p] = TRUE]
  /\ missed' = [missed EXCEPT ![p] = FALSE]

Returns(p, r) ==
  /\ Leaves(p)
  /\ ret' = [ret EXCEPT ![p] = r]

Poll(p) ==
  /\ Between(p)
  /\ pc' = [pc EXCEPT ![p] = "scan"]
  /\ scan' = [scan EXCEPT ![p] = NewScan(TRUE)]
  /\ timed' \in {[timed EXCEPT ![p] = flag] : flag \in BOOLEAN}
  /\ ret' = [ret EXCEPT ![p] = NotPolled]
  /\ missed' = [missed EXCEPT ![p] = FALSE]
  /\ UNCHANGED <<queue, polls, m_lock, alive, exited>>

\* s_qmx_setup_for_poll() visits the poll object scan[p].next.
Visiting(p) == ~exited /\ pc[p] = "scan" /\ scan[p].next <= NPolls
Visited(p)  == polls[p][scan[p].next]

\* On to the next one, with so many events and NULLs more.
Visits(p, events, nulls) ==
  scan' = [scan EXCEPT ![p] =
             ScanRecord(scan[p].next + 1, scan[p].nev + events,
                        scan[p].nulls + nulls, scan[p].is_pre)]

VisitNull(p) ==
  /\ Visiting(p)
  /\ Visited(p).m_bbq = NoQueue
  /\ polls' = [polls EXCEPT
                 ![p][scan[p].next] = NewPoll(NoQueue, Visited(p).m_type)]
  /\ Visits(p, 0, 1)
  /\ UNCHANGED <<queue, pc, timed, ret, m_lock, alive, missed, exited>>

\* Faulty: the two results are swapped.
Measured_Swapped(poll, cb) ==
  PollRecord(poll.m_bbq, poll.m_type,
             MaxElements - cb.m_n_elements, cb.m_n_elements)

Measured(poll, cb) ==
  PollRecord(poll.m_bbq, poll.m_type,
             cb.m_n_elements, MaxElements - cb.m_n_elements)

VisitQueue(p) ==
  /\ Visiting(p)
  /\ Visited(p).m_bbq # NoQueue
  /\ LET q    == Visited(p).m_bbq
         cb   == queue[q]
         type == Visited(p).m_type
     IN  /\ cb.m_is_operational
         /\ queue' = [queue EXCEPT ![q] = SetUp(cb, p, type, scan[p].is_pre)]
         /\ polls' = [polls EXCEPT ![p][scan[p].next] = Measured(Visited(p), cb)]
         /\ Visits(p, IF MustWaitFor(cb, type) = NoType THEN 1 ELSE 0, 0)
  /\ UNCHANGED <<pc, timed, ret, m_lock, alive, missed, exited>>

\* A queue that was shut down ends the scan before the wait, and is skipped in
\* the scan after it.  What was registered before stays registered.
VisitShutDown(p) ==
  /\ Visiting(p)
  /\ Visited(p).m_bbq # NoQueue
  /\ ~queue[Visited(p).m_bbq].m_is_operational
  /\ IF scan[p].is_pre
     THEN Returns(p, NotOperational)
     ELSE /\ Visits(p, 0, 0)
          /\ UNCHANGED <<pc, timed, ret, missed>>
  /\ UNCHANGED <<queue, polls, m_lock, alive, exited>>

\* Faulty: after a wakeup without an event, the poller goes back to sleep.
AfterNothing_Sleeps(p) ==
  /\ pc' = [pc EXCEPT ![p] = "lock"]
  /\ UNCHANGED <<scan, missed>>

\* goto recheck
AfterNothing(p) ==
  /\ scan' = [scan EXCEPT ![p] = NewScan(TRUE)]
  /\ missed' = [missed EXCEPT ![p] = FALSE]
  /\ UNCHANGED pc

\* The scan is complete: return, sleep, or scan again.
ScanEnds(p) ==
  /\ ~exited /\ pc[p] = "scan" /\ scan[p].next > NPolls
  /\ \/ /\ scan[p].nulls = NPolls
        /\ Returns(p, InvalidArgs)
     \/ /\ scan[p].nulls < NPolls /\ scan[p].nev > 0
        /\ Returns(p, scan[p].nev)
     \/ /\ scan[p].nulls < NPolls /\ scan[p].nev = 0 /\ scan[p].is_pre
        /\ pc' = [pc EXCEPT ![p] = "lock"]
        /\ UNCHANGED <<scan, timed, ret, missed>>
     \/ /\ scan[p].nulls < NPolls /\ scan[p].nev = 0 /\ ~scan[p].is_pre
        /\ AfterNothing(p)
        /\ UNCHANGED <<timed, ret>>
  /\ UNCHANGED <<queue, polls, m_lock, alive, exited>>

\* The lock of the muxer is taken and released in the wait.
Sleep(p) ==
  /\ ~exited /\ pc[p] = "lock" /\ m_lock[p] = NoPoller
  /\ pc' = [pc EXCEPT ![p] = "waiting"]
  /\ UNCHANGED <<queue, polls, scan, timed, ret, m_lock, alive, missed, exited>>

WakeUp(p) ==
  /\ ~exited /\ pc[p] = "awake" /\ m_lock[p] = NoPoller
  /\ pc' = [pc EXCEPT ![p] = "scan"]
  /\ scan' = [scan EXCEPT ![p] = NewScan(FALSE)]
  /\ UNCHANGED <<queue, polls, timed, ret, m_lock, alive, missed, exited>>

\* The registrations stay where they are.
Expires(p) ==
  /\ ~exited /\ pc[p] = "waiting" /\ timed[p] /\ m_lock[p] = NoPoller
  /\ Returns(p, TimedOut)
  /\ UNCHANGED <<queue, polls, m_lock, alive, exited>>

SpuriousWakeup(p) ==
  /\ ~exited /\ pc[p] = "waiting"
  /\ pc' = [pc EXCEPT ![p] = "awake"]
  /\ UNCHANGED <<queue, polls, scan, timed, ret, m_lock, alive, missed, exited>>

Cancel(p) ==
  /\ ~exited /\ "cancel" \in Ops
  /\ pc[p] = "waiting" /\ m_lock[p] = NoPoller
  /\ m_lock' = [m_lock EXCEPT ![p] = p]
  /\ pc' = [pc EXCEPT ![p] = "canceled"]
  /\ UNCHANGED <<queue, polls, scan, timed, ret, alive, missed, exited>>

\* mccp_qmuxer_cancel_janitor(), in the cleanup handler of the poller.
CancelJanitor(p) ==
  /\ ~exited /\ pc[p] = "canceled"
  /\ m_lock' = [m_lock EXCEPT ![p] = NoPoller]
  /\ Leaves(p)
  /\ UNCHANGED <<queue, polls, ret, alive, exited>>

\* mccp_qmuxer_destroy() by its poller, between two polls.
Destroy(p) ==
  /\ "destroy" \in Ops
  /\ Between(p)
  /\ alive' = [alive EXCEPT ![p] = FALSE]
  /\ UNCHANGED <<queue, polls, pc, scan, timed, ret, m_lock, missed, exited>>

Crashed == exited /\ UNCHANGED vars
-----------------------------------------------------------------------------
\* The steps a poller takes by itself inside a poll.
Step(p) ==
  \/ VisitNull(p) \/ VisitQueue(p) \/ VisitShutDown(p) \/ ScanEnds(p)
  \/ Sleep(p) \/ WakeUp(p) \/ Expires(p) \/ CancelJanitor(p)

Next ==
  \/ \E q \in Queues : Put(q) \/ Get(q) \/ Clear(q) \/ Shutdown(q)
  \/ \E p \in Pollers :
       \/ Poll(p) \/ Step(p) \/ SpuriousWakeup(p) \/ Cancel(p)
       \/ Destroy(p)
       \/ \E i \in PollIndices : SetQueue(p, i) \/ SetType(p, i) \/ Reset(p, i)
  \/ Crashed

Spec == Init /\ [][Next]_vars

(***************************************************************************)
(* A poller that can go on does, and an armed timer fires.  The queue      *)
(* operations, the calls of poll and spurious wakeups are not fair.        *)
(***************************************************************************)
FairSpec == Spec /\ \A p \in Pollers : WF_vars(Step(p))
-----------------------------------------------------------------------------
(* Type invariant. *)
TypeOK ==
  /\ queue \in [Queues -> QueueType]
  /\ polls \in [Pollers -> [PollIndices -> PollType]]
  /\ pc \in [Pollers -> PCs]
  /\ scan \in [Pollers -> ScanType]
  /\ \A p \in Pollers : scan[p].nev + scan[p].nulls <= scan[p].next - 1
  /\ ret \in [Pollers -> Results]
  /\ m_lock \in [Pollers -> Pollers \cup {NoPoller}]
  /\ timed \in [Pollers -> BOOLEAN] /\ alive \in [Pollers -> BOOLEAN]
  /\ missed \in [Pollers -> BOOLEAN] /\ exited \in BOOLEAN

PollsQueue(p, q) == \E i \in PollIndices : polls[p][i].m_bbq = q

\* p is registered on q, which has an event other than room.
HasNews(p, q) ==
  /\ queue[q].m_qmuxer = p
  /\ \/ ~queue[q].m_is_operational
     \/ queue[q].m_type = {Readable} /\ queue[q].m_n_elements > 0

(* The only events a sleeping poller misses of a queue it is registered on *)
(* are those the documentation admits, between its scan and its wait: an   *)
(* element put into a queue it waits to read, or the shutdown of a queue.  *)
DropsOnlyInWindow ==
  \A p \in Pollers, q \in Queues :
    pc[p] = "waiting" /\ PollsQueue(p, q) /\ HasNews(p, q) => missed[p]

(* What a poll reports is there: when it returned events, the only         *)
(* consumer of a queue finds at least mccp_qmuxer_poll_size() elements.    *)
ReportedSizeIsThere ==
  \A p \in Pollers : \A i \in PollIndices :
    LET q == polls[p][i].m_bbq IN
    /\ pc[p] = "idle" /\ ret[p] > 0
    /\ q # NoQueue
    /\ Consumer[q] = p /\ queue[q].m_is_operational
    => queue[q].m_n_elements >= polls[p][i].m_q_size

(* A poller, with or without a timeout, is not kept forever from a queue   *)
(* that stays ready or shut down, unless the event was dropped in the      *)
(* window or was the clearing of a full queue it waits to write to, which  *)
(* the code tells nobody.  A queue has room for one registration: nobody   *)
(* else polls it.                                                          *)
Ready(p, q) ==
  \E i \in PollIndices :
    /\ polls[p][i].m_bbq = q
    /\ \/ ~queue[q].m_is_operational
       \/ MustWaitFor(queue[q], polls[p][i].m_type) = NoType
PollsAlone(p, q) == \A o \in Pollers \ {p} : ~PollsQueue(o, q)
InPoll(p) == ~exited /\ pc[p] \notin {"idle", "canceled"}
EventIsServed ==
  \A p \in Pollers, q \in Queues :
    []<>~(InPoll(p) /\ Ready(p, q) /\ PollsAlone(p, q) /\ ~missed[p])
=============================================================================
