------------------------------ MODULE CBuffer ------------------------------
(***************************************************************************)
(* mccp_cbuffer: a circular buffer used by many threads (cbuffer.c).       *)
(*                                                                         *)
(* Every operation runs between s_lock() and s_unlock() except where       *)
(* mccp_cond_wait() releases m_lock, so one action stands for one locked   *)
(* section: from s_lock(), or from a wakeup that re-acquires m_lock, to    *)
(* the next wait or to the return.  m_lock is explicit only because a      *)
(* thread canceled inside mccp_cond_wait() keeps holding it until its      *)
(* cleanup handler calls mccp_cbuffer_cancel_janitor().                    *)
(***************************************************************************)
EXTENDS CBufferData

CONSTANTS
  Threads,   \* the threads of the process
  NoThread,  \* nobody holds m_lock
  Ops,       \* the operations the clients use
  NoCall,    \* a thread outside the API
  NoResult   \* the result of a call that has not returned

ASSUME ThreadAssumption == NoThread \notin Threads 

VARIABLES
  cb,         \* the mccp_cbuffer_record
  m_lock,     \* who holds m_lock between two steps
  pc,         \* where each thread is
  call,       \* the call each thread is executing
  ret,        \* what each thread's last call returned
  freed,      \* what the last clean passed to m_del_proc, until a call begins
  notified,   \* qmuxer_notify() was called since the qmuxer was registered
  alive,      \* the record is allocated
  exited      \* mccp_exit_fatal() ended the process

vars == <<cb, m_lock, pc, call, ret, freed, notified, alive, exited>>

WaitingOps == {"put", "get", "peek"}
QueryOps   == {"size", "remaining", "max", "is_full", "is_empty",
               "is_operational"}

(***************************************************************************)
(* A call: its operation, its argument (the value of a put, the event type *)
(* of a setup) and its flag (nsec >= 0 for put, get and peek, free_values  *)
(* for clear and shutdown, is_pre for setup).                              *)
(***************************************************************************)
CallType(ops, args, flags) == [op : ops, arg : args, flag : flags]

Calls ==
  {c \in      CallType({"put"}, Values, BOOLEAN)
         \cup CallType({"get", "peek", "clear", "shutdown"}, {NoValue}, BOOLEAN)
         \cup CallType(QueryOps, {NoValue}, {FALSE})
         \cup CallType({"setup"}, PollTypes, BOOLEAN)
     : c.op \in Ops}

ASSUME CallAssumption == NoCall \notin Calls

Result(code, out) == [code |-> code, out |-> out]
Results == [code : {"OK", "TIMEDOUT", "NOT_OPERATIONAL"},
            out  : Values \cup {NoValue} \cup Nat]

PCs == {"idle", "entry", "wait_put", "wait_get", "canceled", "ended"}

Init ==
  /\ cb = FreshBuffer
  /\ m_lock = NoThread
  /\ pc = [t \in Threads |-> "idle"]
  /\ call = [t \in Threads |-> NoCall]
  /\ ret = [t \in Threads |-> NoResult]
  /\ freed = <<>>
  /\ notified = FALSE
  /\ alive = TRUE
  /\ exited = FALSE
-----------------------------------------------------------------------------
\* t has m_lock and executes op.
Locked(t, op) ==
  /\ ~exited
  /\ pc[t] = "entry"
  /\ call[t].op = op
  /\ m_lock = NoThread

\* Faulty: pthread_cond_signal() instead of pthread_cond_broadcast().
Awakened_Signal(conds) ==
  IF \E u \in Threads : pc[u] \in conds
  THEN [pc EXCEPT ![CHOOSE u \in Threads : pc[u] \in conds] = "entry"]
  ELSE pc

\* mccp_cond_notify(cond, true): every waiter goes back to its recheck label.
Awakened(conds) ==
  [u \in Threads |-> IF pc[u] \in conds THEN "entry" ELSE pc[u]]

\* t returns; the waiters of conds have been awakened.
Returns(t, code, out, conds) ==
  /\ pc' = [Awakened(conds) EXCEPT ![t] = "idle"]
  /\ call' = [call EXCEPT ![t] = NoCall]
  /\ ret' = [ret EXCEPT ![t] = Result(code, out)]

\* t releases m_lock and waits on cond; the indices were adjusted before.
Waits(t, cond) ==
  /\ cb' = AdjustIndices(cb)
  /\ pc' = [pc EXCEPT ![t] = cond]
  /\ UNCHANGED <<m_lock, call, ret, freed, notified, alive, exited>>

\* A call of the API by a thread.
Enter(t) ==
  /\ ~exited /\ alive
  /\ pc[t] = "idle"
  /\ \E c \in Calls : call' = [call EXCEPT ![t] = c]
  /\ pc' = [pc EXCEPT ![t] = "entry"]
  /\ ret' = [ret EXCEPT ![t] = NoResult]
  /\ freed' = <<>>
  /\ UNCHANGED <<cb, m_lock, notified, alive, exited>>

NotOperational(t) ==
  /\ \E op \in (WaitingOps \cup QueryOps \cup {"setup"}) \ {"is_operational"} :
       Locked(t, op)
  /\ ~cb.m_is_operational
  /\ Returns(t, "NOT_OPERATIONAL", NoValue, {})
  /\ UNCHANGED <<cb, m_lock, freed, notified, alive, exited>>
-----------------------------------------------------------------------------
PutStores(t) ==
  /\ Locked(t, "put")
  /\ cb.m_is_operational
  /\ ~IsFull(cb)
  /\ cb' = Stored(cb, call[t].arg)
  /\ notified' = (notified \/ NotifiesOn(cb, Readable))
  /\ Returns(t, "OK", NoValue, {"wait_get"})
  /\ UNCHANGED <<m_lock, freed, alive, exited>>

PutWaits(t) ==
  /\ Locked(t, "put")
  /\ cb.m_is_operational
  /\ IsFull(cb)
  /\ Waits(t, "wait_put")

GetFetches(t) ==
  /\ Locked(t, "get")
  /\ cb.m_is_operational
  /\ ~IsEmpty(cb)
  /\ HasAddr(HeadIndex(cb))
  /\ cb' = Fetched(cb)
  /\ notified' = (notified \/ NotifiesOn(cb, Writable))
  /\ Returns(t, "OK", HeadValue(cb), {"wait_put"})
  /\ UNCHANGED <<m_lock, freed, alive, exited>>

PeekCopies(t) ==
  /\ Locked(t, "peek")
  /\ cb.m_is_operational
  /\ ~IsEmpty(cb)
  /\ HasAddr(HeadIndex(cb))
  /\ cb' = AdjustIndices(cb)
  /\ Returns(t, "OK", HeadValue(cb), {})
  /\ UNCHANGED <<m_lock, freed, notified, alive, exited>>

\* Get and peek wait on m_cond_get while the buffer is empty.
GetOrPeekWaits(t) ==
  /\ \E op \in {"get", "peek"} : Locked(t, op)
  /\ cb.m_is_operational
  /\ IsEmpty(cb)
  /\ Waits(t, "wait_get")

\* "Circular buffer read pointer error": the head index has no address.  The
\* write index has one whenever it was adjusted, so put has no such step.
ReadPointerError(t) ==
  /\ \E op \in {"get", "peek"} : Locked(t, op)
  /\ cb.m_is_operational
  /\ ~IsEmpty(cb)
  /\ ~HasAddr(HeadIndex(cb))
  /\ exited' = TRUE
  /\ UNCHANGED <<cb, m_lock, pc, call, ret, freed, notified, alive>>

ExpiredCode == "TIMEDOUT"

\* The time of a timed wait is over: the thread gets m_lock back and returns
\* without another look at the buffer.
Expires(t) ==
  /\ ~exited
  /\ pc[t] \in {"wait_put", "wait_get"}
  /\ call[t].flag
  /\ m_lock = NoThread
  /\ Returns(t, ExpiredCode, NoValue, {})
  /\ UNCHANGED <<cb, m_lock, freed, notified, alive, exited>>

\* pthread_cond_wait() may return although nobody notified.
SpuriousWakeup(t) ==
  /\ ~exited
  /\ pc[t] \in {"wait_put", "wait_get"}
  /\ pc' = [pc EXCEPT ![t] = "entry"]
  /\ UNCHANGED <<cb, m_lock, call, ret, freed, notified, alive, exited>>
-----------------------------------------------------------------------------
Clear(t) ==
  /\ Locked(t, "clear")
  /\ cb' = Cleaned(cb)
  /\ freed' = IF call[t].flag THEN FreedUp(cb) ELSE <<>>
  /\ notified' = (notified \/ NotifiesOn(cb, Readable))
  /\ Returns(t, "OK", NoValue, {"wait_put"})
  /\ UNCHANGED <<m_lock, alive, exited>>

\* Faulty: the producers are not awakened.
ShutdownWakes_GettersOnly == {"wait_get"}

ShutdownWakes == {"wait_get", "wait_put"}

\* Faulty: the muxer is told of a shutdown as it is told of an element.
ShutdownNotifies_Readers(b) == NotifiesOn(b, Readable)

ShutdownNotifies(b) == IsRegistered(b)

Shutdown(t) ==
  /\ Locked(t, "shutdown")
  /\ IF cb.m_is_operational
     THEN /\ cb' = ShutDown(cb)
          /\ freed' = IF call[t].flag THEN FreedUp(cb) ELSE <<>>
          /\ notified' = (notified \/ ShutdownNotifies(cb))
          /\ Returns(t, "OK", NoValue, ShutdownWakes)
     ELSE /\ Returns(t, "OK", NoValue, {})
          /\ UNCHANGED <<cb, freed, notified>>
  /\ UNCHANGED <<m_lock, alive, exited>>

\* Nothing in the code keeps a thread off a record that is being freed, so its
\* clients destroy a buffer only when no other thread is inside a call.
Destroy(t) ==
  /\ ~exited /\ alive
  /\ "destroy" \in Ops
  /\ \A u \in Threads : pc[u] \in {"idle", "ended"}
  /\ IF cb.m_is_operational
     THEN \E free_values \in BOOLEAN :
            /\ cb' = ShutDown(cb)
            /\ freed' = IF free_values THEN FreedUp(cb) ELSE <<>>
            /\ notified' = (notified \/ ShutdownNotifies(cb))
     ELSE UNCHANGED <<cb, freed, notified>>
  /\ alive' = FALSE
  /\ ret' = [ret EXCEPT ![t] = Result("OK", NoValue)]
  /\ UNCHANGED <<m_lock, pc, call, exited>>

Create(t) ==
  /\ ~exited /\ ~alive
  /\ alive' = TRUE
  /\ cb' = FreshBuffer
  /\ notified' = FALSE
  /\ UNCHANGED <<m_lock, pc, call, ret, freed, exited>>

IsOperational(t) ==
  /\ Locked(t, "is_operational")
  /\ Returns(t, "OK", IF cb.m_is_operational THEN 1 ELSE 0, {})
  /\ UNCHANGED <<cb, m_lock, freed, notified, alive, exited>>

Query(t) ==
  /\ cb.m_is_operational
  /\ \/ Locked(t, "size") /\ Returns(t, "OK", cb.m_n_elements, {})
     \/ /\ Locked(t, "remaining")
        /\ Returns(t, "OK", MaxElements - cb.m_n_elements, {})
     \/ Locked(t, "max") /\ Returns(t, "OK", MaxElements, {})
     \/ /\ Locked(t, "is_full")
        /\ Returns(t, "OK", IF IsFull(cb) THEN 1 ELSE 0, {})
     \/ /\ Locked(t, "is_empty")
        /\ Returns(t, "OK", IF cb.m_n_elements = 0 THEN 1 ELSE 0, {})
  /\ UNCHANGED <<cb, m_lock, freed, notified, alive, exited>>

SetupForQMuxer(t) ==
  /\ Locked(t, "setup")
  /\ cb.m_is_operational
  /\ LET wait == MustWaitFor(cb, call[t].arg) IN
     /\ \E qmx \in QMuxers :
          cb' = SetUpForQMuxer(cb, qmx, call[t].arg, call[t].flag)
     /\ notified' = FALSE
     /\ Returns(t, "OK",
          IF wait = {Readable} THEN 1 ELSE IF wait = {Writable} THEN 2 ELSE 0,
          {})
  /\ UNCHANGED <<m_lock, freed, alive, exited>>
-----------------------------------------------------------------------------
\* pthread_cancel() acts on a thread inside mccp_cond_wait(), which returns to
\* the cleanup handler with m_lock held.
Cancel(t) ==
  /\ ~exited
  /\ "cancel" \in Ops
  /\ pc[t] \in {"wait_put", "wait_get"}
  /\ m_lock = NoThread
  /\ m_lock' = t
  /\ pc' = [pc EXCEPT ![t] = "canceled"]
  /\ call' = [call EXCEPT ![t] = NoCall]
  /\ UNCHANGED <<cb, ret, freed, notified, alive, exited>>

\* Faulty: the cleanup handler does not call the janitor.
CancelJanitor_Forgotten(t) ==
  /\ ~exited
  /\ pc[t] = "canceled"
  /\ pc' = [pc EXCEPT ![t] = "idle"]
  /\ UNCHANGED <<cb, m_lock, call, ret, freed, notified, alive, exited>>

\* The handler unlocks and the thread ends.
CancelJanitor(t) ==
  /\ ~exited
  /\ pc[t] = "canceled"
  /\ m_lock' = NoThread
  /\ pc' = [pc EXCEPT ![t] = "ended"]
  /\ UNCHANGED <<cb, call, ret, freed, notified, alive, exited>>

\* The process is gone, or all its threads were canceled.
Exited ==
  /\ exited \/ \A t \in Threads : pc[t] = "ended"
  /\ UNCHANGED vars
-----------------------------------------------------------------------------
\* A locked section, which a thread that has entered it runs to its end.
Section(t) ==
  \/ NotOperational(t)
  \/ PutStores(t) \/ PutWaits(t)
  \/ GetFetches(t) \/ PeekCopies(t) \/ GetOrPeekWaits(t)
  \/ ReadPointerError(t)
  \/ Clear(t) \/ Shutdown(t) \/ IsOperational(t) \/ Query(t)
  \/ SetupForQMuxer(t)

Next ==
  \/ \E t \in Threads :
       \/ Enter(t) \/ Section(t) \/ Expires(t) \/ SpuriousWakeup(t)
       \/ Destroy(t) \/ Create(t) \/ Cancel(t) \/ CancelJanitor(t)
  \/ Exited

Spec == Init /\ [][Next]_vars

(***************************************************************************)
(* The kernel runs a thread that can run and fires a timer that is armed;  *)
(* nothing makes a client call, a notification come or a wakeup happen     *)
(* spuriously.                                                             *)
(***************************************************************************)
FairSpec ==
  /\ Spec
  /\ \A t \in Threads :
       /\ WF_vars(Section(t))
       /\ WF_vars(Expires(t))
       /\ WF_vars(CancelJanitor(t))
-----------------------------------------------------------------------------
(* Type invariant. *)
TypeOK ==
  /\ cb \in BufferType
  /\ m_lock \in Threads \cup {NoThread}
  /\ pc \in [Threads -> PCs]
  /\ call \in [Threads -> Calls \cup {NoCall}]
  /\ \A t \in Threads : pc[t] \notin {"idle", "canceled", "ended"} => call[t] \in Calls
  /\ ret \in [Threads -> Results \cup {NoResult}]
  /\ freed \in Seq(Values \cup {NoValue})
  /\ notified \in BOOLEAN /\ alive \in BOOLEAN /\ exited \in BOOLEAN

(* The element count that guards every slot stays within the capacity,     *)
(* whatever the indices do when they overflow (cbuffer.c put and get).     *)
CountInBounds == cb.m_n_elements \in 0 .. MaxElements

(* The two indices and the count always agree, also between the put that   *)
(* overflows m_w_idx and the operation that adjusts it (s_adjust_indices), *)
(* so no sequence of calls reaches the "read pointer error" of get and     *)
(* peek, which ends the process.                                           *)
IndicesAgree == RingAgrees(cb) /\ ~exited

(* No lost wakeup: a thread is parked on a condition only while what it    *)
(* waits for is not there.  Peek takes a wakeup without taking the         *)
(* element, so this depends on every notification being a broadcast.       *)
NoLostWakeup ==
  \A t \in Threads :
    /\ pc[t] = "wait_get" =>
         cb.m_is_operational /\ cb.m_n_elements = 0
    /\ pc[t] = "wait_put" =>
         cb.m_is_operational /\ cb.m_n_elements = MaxElements

(* A queue muxer registered for readability is notified before the queue   *)
(* has an element, and of a shutdown, whoever causes them.                 *)
ReadinessIsNotified ==
  IsRegistered(cb) /\ ~notified =>
    /\ cb.m_is_operational
    /\ cb.m_type = {Readable} => cb.m_n_elements = 0

(* m_lock is kept only by a canceled thread, so that the janitor's unlock  *)
(* releases what its caller holds.                                         *)
JanitorOwnsLock == \A t \in Threads : m_lock = t <=> pc[t] = "canceled"

(* Nobody is inside a call of a buffer that was destroyed.                 *)
DestroyedIsQuiet == ~alive => \A t \in Threads : pc[t] \in {"idle", "ended"}

(* The buffer implements the bounded FIFO queue.                           *)
Queue == INSTANCE BoundedQueue
           WITH queue <- Contents(cb), open <- cb.m_is_operational,
                request <- call, reply <- ret, released <- freed,
                Capacity <- MaxElements
IsBoundedQueue == Queue!Spec

(* A thread inside a call never stays there for ever while the buffer has  *)
(* what the call asks for and the process lives.                           *)
Asks(t, op) == call[t] # NoCall /\ call[t].op = op
NobodyIsIgnored ==
  \A t \in Threads :
    /\ []<>(exited \/ ~(cb.m_n_elements > 0 /\ (Asks(t, "get") \/ Asks(t, "peek"))))
    /\ []<>(exited \/ ~(cb.m_n_elements < MaxElements /\ Asks(t, "put")))

(* A shutdown releases every thread blocked in put, get or peek.           *)
ShutdownReleases ==
  \A t \in Threads :
    ~cb.m_is_operational /\ call[t] # NoCall ~> call[t] = NoCall \/ exited
=============================================================================
