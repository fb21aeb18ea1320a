------------------------------- MODULE Locks --------------------------------
(***************************************************************************)
(* lock.c: a mutex, a read-write lock and a condition of the mutex, used by *)
(* threads that can be canceled.  A lock remembers in ONE field,           *)
(* m_prev_cancel_state, both how it was taken (unset: plainly) and, for a   *)
(* critical region, the cancel state its owner gets back.  A read-write    *)
(* lock has one such field for all its readers.                            *)
(*                                                                         *)
(* The functions do not check that they are used as that field allows; the *)
(* constants and the two "use" variables say which uses the threads keep to.*)
(* An operation that waits is two steps, Begin and the step named for it.  *)
(***************************************************************************)
EXTENDS FiniteSets

CONSTANTS
  Threads,    \* the threads
  NoOne,      \* nobody
  Nestings    \* <<h, o>>: with the mutex held as h, the read-write lock is taken with o

Plain    == {"mutex_lock", "mutex_timedlock", "reader_lock", "reader_timedlock", "writer_lock",
             "writer_timedlock"}
Critical == {"mutex_enter", "reader_enter", "writer_enter"}
OfMutex  == {"mutex_lock", "mutex_timedlock", "mutex_enter"}
OfReader == {"reader_lock", "reader_timedlock", "reader_enter"}
OfWriter == {"writer_lock", "writer_timedlock", "writer_enter"}
Waits    == {"cond_wait", "cond_timedwait", "woken", "dying"}
Kinds    == {"plain", "critical"}

\* Nestings that the two saved-state fields can bear: from within a region of the mutex nobody enters
\* a reader's region.  (A plainly held mutex over a region, as pipeline_stage.c has it with m_lock over
\* the calls that look a thread up in a hash map, can lose its owner: HeldByTheLiving.)
SafeNestings == (Kinds \X (OfReader \cup OfWriter)) \ {<<"critical", "reader_enter">>}

ASSUME LocksAssumption ==
  /\ NoOne \notin Threads
  /\ Nestings \subseteq SafeNestings

VARIABLES
  exists,           \* the objects are created and not destroyed
  alive,            \* the threads that were not canceled
  cancel, pending,  \* the cancel state of each thread; a cancel was requested
  call, old,        \* what each thread waits for; its local oldstate
  m_mtx, mtx_prev_cancel_state,             \* the owner of the mutex
  m_rwl, writer, rwl_prev_cancel_state,     \* the readers and the writer of the read-write lock
  mtx_kind, writer_kind,                    \* history: how mutex and write lock were taken
  mtx_use,          \* "condition": waited on and only locked plainly; "mixed": never waited on
  rwl_use           \* its readers are all "plain" or all "critical"

mtxVars    == <<m_mtx, mtx_prev_cancel_state, mtx_kind>>
rwlVars    == <<m_rwl, writer, rwl_prev_cancel_state, writer_kind>>
threadVars == <<alive, cancel, pending, call, old>>
useVars    == <<exists, mtx_use, rwl_use>>
vars       == <<mtxVars, rwlVars, threadVars, useVars>>

mutex_reinitialize ==
    m_mtx' = NoOne /\ mtx_prev_cancel_state' = "unset" /\ mtx_kind' = "plain"

rwlock_reinitialize ==
    /\ m_rwl' = {} /\ writer' = NoOne
    /\ rwl_prev_cancel_state' = "unset" /\ writer_kind' = "plain"

Init ==
    /\ exists = TRUE /\ alive = Threads
    /\ cancel = [t \in Threads |-> "enable"] /\ pending = {}
    /\ call = [t \in Threads |-> "none"] /\ old = [t \in Threads |-> "enable"]
    /\ m_mtx = NoOne /\ mtx_prev_cancel_state = "unset" /\ mtx_kind = "plain"
    /\ m_rwl = {} /\ writer = NoOne /\ rwl_prev_cancel_state = "unset" /\ writer_kind = "plain"
    /\ mtx_use \in {"condition", "mixed"} /\ rwl_use \in Kinds
-----------------------------------------------------------------------------
HoldsRwl(t) == t \in m_rwl \/ writer = t
Idle(t)     == exists /\ t \in alive /\ call[t] = "none"
Unused      == m_mtx = NoOne /\ writer = NoOne /\ m_rwl = {} /\ \A t \in alive : call[t] = "none"

\* regions are entered under a plainly held mutex; a mutex died with its owner
RegionsUnderMutex == \E o \in Critical : <<"plain", o>> \in Nestings
Orphaned          == m_mtx # NoOne /\ m_mtx \notin alive

\* the mutex is taken before the read-write lock
MayOpenMutex(t, c) ==
    m_mtx # t /\ ~HoldsRwl(t) /\ (mtx_use = "condition" => c # "mutex_enter")

MayOpenRwl(t, c) ==
    /\ ~HoldsRwl(t)
    /\ m_mtx = t => <<mtx_kind, c>> \in Nestings
    /\ c \in OfReader => (c = "reader_enter") = (rwl_use = "critical")

\* a thread calls; to enter a critical region it first disables its cancelation
Begin(t, c) ==
    /\ Idle(t)
    /\ IF c \in OfMutex THEN MayOpenMutex(t, c) ELSE MayOpenRwl(t, c)
    /\ call' = [call EXCEPT ![t] = c]
    /\ IF c \in Critical
       THEN old' = [old EXCEPT ![t] = cancel[t]] /\ cancel' = [cancel EXCEPT ![t] = "disable"]
       ELSE UNCHANGED <<old, cancel>>
    /\ UNCHANGED <<mtxVars, rwlVars, useVars, alive, pending>>

\* the call returns
Done(t) ==
    /\ call' = [call EXCEPT ![t] = "none"] /\ old' = [old EXCEPT ![t] = "enable"]
    /\ UNCHANGED <<alive, cancel, pending, useVars>>
-----------------------------------------------------------------------------
(* the mutex *)

TakeMutex(t, prev, kind) ==
    /\ m_mtx = NoOne /\ m_mtx' = t /\ mtx_prev_cancel_state' = prev /\ mtx_kind' = kind
    /\ Done(t) /\ UNCHANGED rwlVars

mutex_lock(t)           == call[t] = "mutex_lock" /\ TakeMutex(t, "unset", "plain")
mutex_timedlock(t)      == call[t] = "mutex_timedlock" /\ TakeMutex(t, "unset", "plain")
mutex_timesout(t)       == call[t] = "mutex_timedlock" /\ Done(t) /\ UNCHANGED <<mtxVars, rwlVars>>
\* Faulty: a successful try leaves the field as it is.
mutex_trylock_Keeps(t)  == Idle(t) /\ MayOpenMutex(t, "mutex_lock") /\ TakeMutex(t, mtx_prev_cancel_state, "plain")
mutex_trylock(t)        == Idle(t) /\ MayOpenMutex(t, "mutex_lock") /\ TakeMutex(t, "unset", "plain")
\* Faulty: the state is read after the cancelation was disabled.
mutex_enter_critical_Late(t) == call[t] = "mutex_enter" /\ TakeMutex(t, cancel[t], "critical")
mutex_enter_critical(t) == call[t] = "mutex_enter" /\ TakeMutex(t, old[t], "critical")

ReleaseMutex == m_mtx' = NoOne /\ mtx_kind' = "plain" /\ UNCHANGED mtx_prev_cancel_state

\* a critical region is not closed by an unlock
mutex_unlock(t) ==
    /\ Idle(t) /\ m_mtx = t /\ ~HoldsRwl(t) /\ mtx_prev_cancel_state = "unset"
    /\ ReleaseMutex /\ UNCHANGED <<rwlVars, threadVars, useVars>>

\* pthread_setcancelstate(prev) and pthread_testcancel()
Restore(t, prev) ==
    /\ cancel' = [cancel EXCEPT ![t] = prev]
    /\ alive' = IF prev = "enable" /\ t \in pending THEN alive \ {t} ELSE alive
    /\ UNCHANGED <<pending, call, old, useVars>>

\* Faulty: the cancel state is restored, and tested, before the mutex is unlocked.
mutex_leave_critical_TestFirst(t) ==
    /\ Idle(t) /\ m_mtx = t /\ ~HoldsRwl(t) /\ mtx_prev_cancel_state # "unset"
    /\ Restore(t, mtx_prev_cancel_state) /\ UNCHANGED rwlVars
    /\ IF t \in alive' THEN ReleaseMutex ELSE UNCHANGED mtxVars

mutex_leave_critical(t) ==
    /\ Idle(t) /\ m_mtx = t /\ ~HoldsRwl(t) /\ mtx_prev_cancel_state # "unset"
    /\ ReleaseMutex /\ Restore(t, mtx_prev_cancel_state) /\ UNCHANGED rwlVars
-----------------------------------------------------------------------------
(* its condition *)

cond_wait(t, c) ==
    /\ Idle(t) /\ m_mtx = t /\ ~HoldsRwl(t) /\ mtx_use = "condition"
    /\ call' = [call EXCEPT ![t] = c]
    /\ ReleaseMutex /\ UNCHANGED <<rwlVars, alive, cancel, pending, old, useVars>>

Sleepers == {t \in Threads : call[t] \in {"cond_wait", "cond_timedwait"}}

Wake(ts) ==
    /\ call' = [t \in Threads |-> IF t \in ts THEN "woken" ELSE call[t]]
    /\ UNCHANGED <<mtxVars, rwlVars, alive, cancel, pending, old, useVars>>

\* by anybody, whether it holds the mutex or not
cond_notify(t, all) ==
    /\ Idle(t) /\ Sleepers # {}
    /\ IF all THEN Wake(Sleepers) ELSE \E s \in Sleepers : Wake({s})

\* a spurious wakeup
cond_wakes(t) == call[t] = "cond_wait" /\ Wake({t})

\* the timeout, also a spurious wakeup
cond_timesout(t) == call[t] = "cond_timedwait" /\ Wake({t})

\* the wait takes the mutex without mccp_mutex_lock(): the field stays as others left it
cond_relock(t) == call[t] = "woken" /\ TakeMutex(t, mtx_prev_cancel_state, "plain")

cond_canceled(t) ==
    /\ t \in Sleepers /\ t \in pending /\ cancel[t] = "enable"
    /\ call' = [call EXCEPT ![t] = "dying"]
    /\ UNCHANGED <<mtxVars, rwlVars, alive, cancel, pending, old, useVars>>

\* a canceled wait takes the mutex back too; the caller's cleanup handler unlocks it
cond_cleanup(t) ==
    /\ call[t] = "dying" /\ m_mtx = NoOne
    /\ m_mtx' = IF mtx_prev_cancel_state = "unset" THEN NoOne ELSE t
    /\ alive' = alive \ {t} /\ call' = [call EXCEPT ![t] = "none"]
    /\ UNCHANGED <<mtx_prev_cancel_state, mtx_kind, rwlVars, cancel, pending, old, useVars>>
-----------------------------------------------------------------------------
(* the read-write lock *)

TakeReader(t, prev) ==
    /\ writer = NoOne /\ m_rwl' = m_rwl \cup {t} /\ rwl_prev_cancel_state' = prev
    /\ Done(t) /\ UNCHANGED <<writer, writer_kind, mtxVars>>

\* Faulty: a writer does not wait for the readers.
TakeWriter_OverReaders(t, prev, kind) ==
    /\ writer = NoOne
    /\ writer' = t /\ rwl_prev_cancel_state' = prev /\ writer_kind' = kind
    /\ Done(t) /\ UNCHANGED <<m_rwl, mtxVars>>

TakeWriter(t, prev, kind) ==
    /\ writer = NoOne /\ m_rwl = {}
    /\ writer' = t /\ rwl_prev_cancel_state' = prev /\ writer_kind' = kind
    /\ Done(t) /\ UNCHANGED <<m_rwl, mtxVars>>

rwlock_reader_lock(t)           == call[t] = "reader_lock" /\ TakeReader(t, "unset")
rwlock_reader_timedlock(t)      == call[t] = "reader_timedlock" /\ TakeReader(t, "unset")
rwlock_reader_timesout(t)       == call[t] = "reader_timedlock" /\ Done(t) /\ UNCHANGED <<mtxVars, rwlVars>>
rwlock_reader_trylock(t)        == Idle(t) /\ MayOpenRwl(t, "reader_lock") /\ TakeReader(t, "unset")
rwlock_reader_enter_critical(t) == call[t] = "reader_enter" /\ TakeReader(t, old[t])

rwlock_writer_lock(t)           == call[t] = "writer_lock" /\ TakeWriter(t, "unset", "plain")
rwlock_writer_timedlock(t)      == call[t] = "writer_timedlock" /\ TakeWriter(t, "unset", "plain")
rwlock_writer_timesout(t)       == call[t] = "writer_timedlock" /\ Done(t) /\ UNCHANGED <<mtxVars, rwlVars>>
rwlock_writer_trylock(t)        == Idle(t) /\ MayOpenRwl(t, "writer_lock") /\ TakeWriter(t, "unset", "plain")
rwlock_writer_enter_critical(t) == call[t] = "writer_enter" /\ TakeWriter(t, old[t], "critical")

ReleaseRwl(t) ==
    /\ m_rwl' = m_rwl \ {t} /\ writer' = IF writer = t THEN NoOne ELSE writer
    /\ writer_kind' = "plain" /\ UNCHANGED rwl_prev_cancel_state

rwlock_unlock(t) ==
    /\ Idle(t) /\ HoldsRwl(t) /\ rwl_prev_cancel_state = "unset"
    /\ ReleaseRwl(t) /\ UNCHANGED <<mtxVars, threadVars, useVars>>

rwlock_leave_critical(t) ==
    /\ Idle(t) /\ HoldsRwl(t) /\ rwl_prev_cancel_state # "unset"
    /\ ReleaseRwl(t) /\ Restore(t, rwl_prev_cancel_state) /\ UNCHANGED mtxVars
-----------------------------------------------------------------------------
\* pthread_cancel()
Cancel(t) ==
    /\ t \in alive \ pending /\ pending' = pending \cup {t}
    /\ UNCHANGED <<mtxVars, rwlVars, alive, cancel, call, old, useVars>>

\* the child of a fork() has only the forking thread; its handler makes the locks new
Fork(t) ==
    /\ Idle(t) /\ m_mtx # t /\ ~HoldsRwl(t) /\ alive # {t}
    /\ alive' = {t} /\ pending' = {}
    /\ call' = [s \in Threads |-> "none"] /\ old' = [s \in Threads |-> "enable"]
    /\ mutex_reinitialize /\ rwlock_reinitialize
    /\ UNCHANGED <<cancel, useVars>>

\* when nobody uses them
Destroy(t) ==
    /\ Idle(t) /\ Unused /\ exists' = FALSE
    /\ UNCHANGED <<mtxVars, rwlVars, threadVars, mtx_use, rwl_use>>

Create(t) ==
    /\ t \in alive /\ ~exists /\ exists' = TRUE
    /\ mutex_reinitialize /\ rwlock_reinitialize
    /\ UNCHANGED <<threadVars, mtx_use, rwl_use>>

MutexStep(t) ==
    \/ mutex_lock(t) \/ mutex_timedlock(t) \/ mutex_timesout(t) \/ mutex_trylock(t)
    \/ mutex_enter_critical(t) \/ mutex_unlock(t) \/ mutex_leave_critical(t)

CondStep(t) ==
    \/ \E c \in {"cond_wait", "cond_timedwait"} : cond_wait(t, c)
    \/ \E all \in BOOLEAN : cond_notify(t, all)
    \/ cond_wakes(t) \/ cond_timesout(t) \/ cond_relock(t) \/ cond_canceled(t) \/ cond_cleanup(t)

RwlockStep(t) ==
    \/ rwlock_reader_lock(t) \/ rwlock_reader_timedlock(t) \/ rwlock_reader_timesout(t)
    \/ rwlock_reader_trylock(t) \/ rwlock_reader_enter_critical(t)
    \/ rwlock_writer_lock(t) \/ rwlock_writer_timedlock(t) \/ rwlock_writer_timesout(t)
    \/ rwlock_writer_trylock(t) \/ rwlock_writer_enter_critical(t)
    \/ rwlock_unlock(t) \/ rwlock_leave_critical(t)

Step(t) ==
    \/ \E c \in Plain \cup Critical : Begin(t, c)
    \/ MutexStep(t) \/ CondStep(t) \/ RwlockStep(t)
    \/ Cancel(t) \/ Fork(t) \/ Destroy(t) \/ Create(t)

\* all threads were canceled, or may wait for a mutex whose owner was
Over == (alive = {} \/ Orphaned) /\ UNCHANGED vars

Next == (\E t \in Threads : Step(t)) \/ Over

Spec == Init /\ [][Next]_vars
-----------------------------------------------------------------------------
\* Every variable keeps to its values.
LocksTypeOK ==
    /\ exists \in BOOLEAN /\ alive \subseteq Threads /\ pending \subseteq Threads
    /\ cancel \in [Threads -> {"enable", "disable"}] /\ old \in [Threads -> {"enable", "disable"}]
    /\ call \in [Threads -> Plain \cup Critical \cup Waits \cup {"none"}]
    /\ m_mtx \in Threads \cup {NoOne} /\ writer \in Threads \cup {NoOne} /\ m_rwl \subseteq Threads
    /\ mtx_prev_cancel_state \in {"unset", "enable", "disable"}
    /\ rwl_prev_cancel_state \in {"unset", "enable", "disable"}
    /\ mtx_kind \in Kinds /\ writer_kind \in Kinds
    /\ mtx_use \in {"condition", "mixed"} /\ rwl_use \in Kinds

\* Who took a lock plainly can unlock it, who entered a critical region can leave it, although others
\* wrote the field they share (m_prev_cancel_state) in between: timed, tried and waited locks, readers
\* that came and went.  (As far as rwl_use and mtx_use allow: no plain lock beside regions in a field
\* that readers or a waiter of the condition rely on.)
EveryHoldCanBeClosed ==
    /\ m_mtx # NoOne => (mtx_prev_cancel_state = "unset") = (mtx_kind = "plain")
    /\ writer # NoOne => (rwl_prev_cancel_state = "unset") = (writer_kind = "plain")
    /\ m_rwl # {} => (rwl_prev_cancel_state = "unset") = (rwl_use = "plain")

InRegion(t) ==
    \/ call[t] \in Critical
    \/ m_mtx = t /\ mtx_kind = "critical"
    \/ writer = t /\ writer_kind = "critical"
    \/ t \in m_rwl /\ rwl_use = "critical"

\* A thread is protected from cancelation exactly while it is in a critical region: when it leaves
\* the last one it gets its own cancel state back, not that of another thread.
ProtectedInRegions == \A t \in alive : cancel[t] = "disable" <=> InRegion(t)

\* No lock is held by a thread that was canceled or, in the child of a fork, does not exist, with one
\* exception: leaving a region is a cancellation point, and a thread that does it while it holds the
\* mutex plainly may die with the mutex.  So only a program that nests so can lose a mutex, never
\* one that was taken as a region, and never the read-write lock.
HeldByTheLiving ==
    /\ writer # NoOne => writer \in alive
    /\ m_rwl \subseteq alive
    /\ Orphaned => /\ mtx_kind = "plain" /\ mtx_prev_cancel_state = "unset"
                   /\ RegionsUnderMutex
=============================================================================
