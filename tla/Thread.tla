------------------------------- MODULE Thread -------------------------------
(***************************************************************************)
(* mccp_thread: one thread record, the pthreads that are started on it one  *)
(* after the other, and the callers that create, start, cancel, wait for,   *)
(* ask and destroy it (thread.c).                                          *)
(*                                                                         *)
(* m_wait_lock guards the flags; the start handshake and the waits sleep on *)
(* its two conditions, and the finalize procedure runs with it.  m_op_lock  *)
(* and m_cancel_lock guard one assignment each, so that holding them is one *)
(* step.  Every call looks the record up in s_thd_tbl before it locks it:   *)
(* two steps.                                                              *)
(***************************************************************************)
EXTENDS Integers

CONSTANTS
  Callers,     \* the threads of the creator's process that use the record
  NoOne,       \* nobody holds the lock
  Ops,         \* the operations they use
  Cancelable,  \* a finalize procedure has cancellation points, a waiting caller is canceled
  TakeTurns,   \* no two callers start the record at the same time
  MaxStarts,   \* bound: the pthreads of a behaviour
  Limit        \* bound: the calls of a behaviour

Threads == 1..MaxStarts
Actors  == Callers \cup Threads

AllOps == {"start", "start_autodelete", "cancel", "wait", "timedwait", "destroy", "get_pthread_id",
           "set_result_code", "get_result_code", "free_when_destroy"}
Waits  == {"wait", "timedwait", "get_result_code"}

\* the result codes: none yet, a caller's, or that of the n-th main procedure
NOT_STARTED == 0
SET         == MaxStarts + 1

\* MCCP_INVALID_THREAD
INVALID_THREAD == 0

ASSUME ThreadAssumption ==
  /\ MaxStarts \in Nat /\ Limit \in Nat
  /\ Callers \cap Threads = {} /\ NoOne \notin Actors
  /\ Ops \subseteq AllOps /\ Cancelable \in BOOLEAN /\ TakeTurns \in BOOLEAN

VARIABLES
  record,           \* "live" is in s_thd_tbl; "raw" is memory of the caller; "freed" is gone
  alloc_marked,     \* it is in s_alloc_tbl
  m_is_started, m_is_activated, m_is_canceled, m_is_destroying, m_do_autodelete,
  m_pthd, m_result_code,
  m_wait_lock,      \* who holds it
  pending,          \* pthread_cancel() was called for the pthread
  pc,               \* where each caller and each pthread is
  op, ret, code,    \* of the call of each caller that is under way or was a wait that succeeded
  ended,            \* history: how the main procedure of each pthread was left
  autodeletes,      \* history: a pthread was started with autodelete
  begun,            \* history: the last pthread of the record when a call that waits began
  last, before,     \* history: the last pthread that ran, ever and before the record was created
  calls             \* the calls so far, up to Limit

flags      == <<m_is_started, m_is_activated, m_is_canceled, m_is_destroying, m_do_autodelete>>
recordVars == <<record, alloc_marked, flags, m_pthd, m_result_code, m_wait_lock>>
callVars   == <<op, ret, code, begun, calls>>
runVars    == <<pending, ended, autodeletes, last, before>>
vars       == <<recordVars, runVars, pc, callVars>>

CallerPlaces == {"idle", "called", "starting", "started", "asleep", "woken", "read", "cancel", "wait",
                 "freeup", "delete", "stuck"}
ThreadPlaces == {"none", "born", "main", "returned", "ending", "final", "cancel", "wait", "asleep",
                 "woken", "freeup", "delete", "gone", "stuck"}
Results      == {"OK", "NONE"}

Init ==
    /\ record = "raw" /\ alloc_marked = FALSE
    /\ m_is_started = FALSE /\ m_is_activated = FALSE /\ m_is_canceled = FALSE
    /\ m_is_destroying = FALSE /\ m_do_autodelete = FALSE
    /\ m_pthd = INVALID_THREAD /\ m_result_code = NOT_STARTED /\ m_wait_lock = NoOne
    /\ pending = [t \in Threads |-> FALSE] /\ ended = [t \in Threads |-> "not"]
    /\ autodeletes = FALSE
    /\ pc = [a \in Actors |-> IF a \in Callers THEN "idle" ELSE "none"]
    /\ op = [c \in Callers |-> "cancel"] /\ ret = [c \in Callers |-> "NONE"]
    /\ code = [c \in Callers |-> NOT_STARTED] /\ begun = [c \in Callers |-> 0]
    /\ last = 0 /\ before = 0 /\ calls = 0
-----------------------------------------------------------------------------
GoTo(a, place) == pc' = [pc EXCEPT ![a] = place]

\* the lock of a record that exists can be taken
Free == record = "live" /\ m_wait_lock = NoOne

\* mccp_cond_notify(wait_cond, true): the others that sleep
Notified(q, from, to) == [a \in Actors |-> IF q[a] = from THEN to ELSE q[a]]

\* what a call returned is remembered of a wait that succeeded: nothing depends on the others
Return(c, r) ==
    /\ IF op[c] \in Waits /\ r = "OK"
       THEN ret' = [ret EXCEPT ![c] = r] /\ UNCHANGED <<op, begun>>
       ELSE op' = [op EXCEPT ![c] = "cancel"] /\ begun' = [begun EXCEPT ![c] = 0] /\ UNCHANGED ret
    /\ GoTo(c, "idle") /\ UNCHANGED <<code, calls>>

\* who destroys a record uses it alone
Destroying == \E c \in Callers : op[c] = "destroy" /\ pc[c] # "idle"

StartOps == {"start", "start_autodelete"}

Turn(o) ==
    TakeTurns /\ o \in StartOps => \A c \in Callers : op[c] \notin StartOps \/ pc[c] = "idle"

\* s_initialize()
Initialize ==
    /\ record' = "live"
    /\ m_is_started' = FALSE /\ m_is_activated' = FALSE /\ m_is_canceled' = FALSE
    /\ m_is_destroying' = FALSE /\ m_do_autodelete' = FALSE
    /\ m_pthd' = INVALID_THREAD /\ m_result_code' = NOT_STARTED /\ m_wait_lock' = NoOne

\* in memory of the caller or in memory that is allocated and marked
Create(c) ==
    /\ pc[c] = "idle" /\ calls < Limit /\ record = "raw"
    /\ Initialize /\ alloc_marked' \in BOOLEAN
    /\ calls' = calls + 1 /\ before' = last
    /\ UNCHANGED <<pending, ended, autodeletes, last, pc, op, ret, code, begun>>

\* what each call does before it takes a lock
\* (a call on a record that is not in s_thd_tbl is refused and changes nothing)
FirstPlace(o) == IF o = "destroy" THEN "cancel" ELSE IF o \in Waits THEN "wait" ELSE "called"

Begin(c, o) ==
    /\ pc[c] = "idle" /\ o \in Ops /\ calls < Limit /\ record = "live" /\ ~Destroying /\ Turn(o)
    /\ o = "destroy" => \A d \in Callers : pc[d] = "idle"
    /\ calls' = calls + 1 /\ op' = [op EXCEPT ![c] = o] /\ GoTo(c, FirstPlace(o))
    /\ begun' = [begun EXCEPT ![c] = IF o \in Waits /\ last > before THEN last ELSE 0]
    /\ ret' = [ret EXCEPT ![c] = "NONE"] /\ code' = [code EXCEPT ![c] = NOT_STARTED]
    /\ UNCHANGED <<recordVars, runVars>>
-----------------------------------------------------------------------------
(* mccp_thread_start() *)

Starts(c) == pc[c] = "called" /\ op[c] \in StartOps /\ Free

\* the pthread waits for m_wait_lock until the starter sleeps
Spawn(c, t) ==
    /\ Starts(c) /\ ~m_is_activated
    /\ pc[t] = "none" /\ \A u \in Threads : u < t => pc[u] # "none"
    /\ m_do_autodelete' = (op[c] = "start_autodelete") /\ m_pthd' = t
    /\ m_is_activated' = FALSE /\ m_is_destroying' = FALSE /\ m_is_canceled' = FALSE /\ m_is_started' = FALSE
    /\ autodeletes' = (autodeletes \/ op[c] = "start_autodelete")
    /\ pc' = [pc EXCEPT ![c] = "starting", ![t] = "born"]
    /\ UNCHANGED <<record, alloc_marked, m_result_code, m_wait_lock, pending, ended, last, before, callVars>>

\* pthread_create() fails
SpawnFails(c) ==
    /\ Starts(c) /\ ~m_is_activated
    /\ m_do_autodelete' = (op[c] = "start_autodelete") /\ m_pthd' = INVALID_THREAD
    /\ Return(c, "POSIX_API_ERROR")
    /\ UNCHANGED <<record, alloc_marked, m_is_started, m_is_activated, m_is_canceled, m_is_destroying,
                   m_result_code, m_wait_lock, runVars>>

AlreadyStarted(c) ==
    /\ Starts(c) /\ m_is_activated
    /\ Return(c, "ALREADY_EXISTS") /\ UNCHANGED <<recordVars, runVars>>

\* startcheck, when m_startup_cond is notified
Started(c) ==
    /\ pc[c] = "started" /\ Free
    /\ IF m_is_started THEN Return(c, "OK") ELSE GoTo(c, "starting") /\ UNCHANGED callVars
    /\ UNCHANGED <<recordVars, runVars>>
-----------------------------------------------------------------------------
(* The pthread *)

\* s_pthd_entry_point(), with cancellation disabled
Entry(t) ==
    /\ pc[t] = "born" /\ Free
    /\ m_is_canceled' = FALSE /\ m_is_activated' = TRUE /\ m_is_started' = TRUE /\ last' = t
    /\ pc' = [Notified(pc, "starting", "started") EXCEPT ![t] = "main"]
    /\ UNCHANGED <<record, alloc_marked, m_is_destroying, m_do_autodelete, m_pthd, m_result_code, m_wait_lock,
                   pending, ended, autodeletes, before, callVars>>

MainReturns(t) ==
    /\ pc[t] = "main"
    /\ ended' = [ended EXCEPT ![t] = "clean"] /\ GoTo(t, "returned")
    /\ UNCHANGED <<recordVars, pending, autodeletes, last, before, callVars>>

\* s_pthd_cancel_handler()
ActOnCancel(t) ==
    /\ pc[t] = "main" /\ pending[t] /\ record = "live"
    /\ m_is_canceled' = TRUE
    /\ ended' = [ended EXCEPT ![t] = "canceled"] /\ GoTo(t, "ending")
    /\ UNCHANGED <<record, alloc_marked, m_is_started, m_is_activated, m_is_destroying, m_do_autodelete,
                   m_pthd, m_result_code, m_wait_lock, pending, autodeletes, last, before, callVars>>

\* Faulty: what main returned is forgotten.
ResultOf_Forgotten(t) == m_result_code

ResultOf(t) == t

StoreResult(t) ==
    /\ pc[t] = "returned" /\ record = "live"
    /\ m_result_code' = ResultOf(t) /\ GoTo(t, "ending")
    /\ UNCHANGED <<record, alloc_marked, flags, m_pthd, m_wait_lock, runVars, callVars>>

\* s_finalize() up to the finalize procedure
Finalize(t) ==
    /\ pc[t] = "ending" /\ Free
    /\ m_wait_lock' = t /\ GoTo(t, "final")
    /\ UNCHANGED <<record, alloc_marked, flags, m_pthd, m_result_code, runVars, callVars>>

\* A cancel that came after the cleanup handler was popped is acted on in the
\* finalize procedure: the pthread ends and keeps m_wait_lock.
DiesInFinal(t) ==
    /\ Cancelable /\ pc[t] = "final" /\ pending[t] /\ ended[t] = "clean"
    /\ GoTo(t, "stuck")
    /\ UNCHANGED <<recordVars, runVars, callVars>>

\* Faulty: only one of the waiting threads is woken.
WakeWaiters_One ==
    IF \E a \in Actors : pc[a] = "asleep"
    THEN [pc EXCEPT ![CHOOSE a \in Actors : pc[a] = "asleep"] = "woken"] ELSE pc

WakeWaiters == Notified(pc, "asleep", "woken")

\* Faulty: every thread destroys its record.
DoAutodelete_Always == m_do_autodelete \in BOOLEAN

DoAutodelete == m_do_autodelete

\* the rest of s_finalize(): with autodelete the pthread destroys the record
Finalized(t) ==
    /\ pc[t] = "final"
    /\ m_pthd' = INVALID_THREAD /\ m_is_activated' = FALSE /\ m_wait_lock' = NoOne
    /\ pc' = [WakeWaiters EXCEPT ![t] = IF DoAutodelete THEN "cancel" ELSE "gone"]
    /\ UNCHANGED <<record, alloc_marked, m_is_started, m_is_canceled, m_is_destroying, m_do_autodelete,
                   m_result_code, runVars, callVars>>
-----------------------------------------------------------------------------
(* mccp_thread_cancel(), also the first step of mccp_thread_destroy() *)

Canceled == [t \in Threads |-> pending[t] \/ (m_is_activated /\ ~m_is_canceled /\ m_pthd = t)]

Cancel(c) ==
    /\ pc[c] = "called" /\ op[c] = "cancel" /\ Free
    /\ pending' = Canceled /\ Return(c, "OK")
    /\ UNCHANGED <<recordVars, ended, autodeletes, last, before>>
-----------------------------------------------------------------------------
(* mccp_thread_wait(), alone and in get_result_code() and destroy() *)

\* after the wait: destroy() goes on whatever it returned
Waited(a, r) ==
    IF a \in Threads \/ op[a] = "destroy" THEN GoTo(a, "freeup") /\ UNCHANGED callVars
    ELSE IF r = "OK" /\ op[a] = "get_result_code" THEN GoTo(a, "read") /\ UNCHANGED callVars
    ELSE Return(a, r)

\* m_do_autodelete is read without a lock
WaitAutodelete(a) ==
    /\ pc[a] = "wait" /\ record = "live" /\ m_do_autodelete
    /\ Waited(a, "NOT_OPERATIONAL")
    /\ UNCHANGED <<recordVars, runVars>>

\* Faulty: a canceled thread is not waited for.
Running_NotCanceled == m_is_activated /\ ~m_is_canceled

Running == m_is_activated

\* waitcheck, first and whenever m_wait_cond is notified
WaitCheck(a) ==
    /\ pc[a] = "woken" \/ (pc[a] = "wait" /\ ~m_do_autodelete)
    /\ Free
    /\ IF Running THEN GoTo(a, "asleep") /\ UNCHANGED callVars ELSE Waited(a, "OK")
    /\ UNCHANGED <<recordVars, runVars>>

WaitTimesOut(c) ==
    /\ pc[c] \in {"asleep", "woken"} /\ op[c] \in {"timedwait", "get_result_code"} /\ Free
    /\ Return(c, "TIMEDOUT")
    /\ UNCHANGED <<recordVars, runVars>>

\* the caller is canceled while it sleeps, which takes the lock back first
WaiterDies(c) ==
    /\ Cancelable /\ pc[c] = "asleep" /\ Free
    /\ m_wait_lock' = c /\ GoTo(c, "stuck")
    /\ UNCHANGED <<record, alloc_marked, flags, m_pthd, m_result_code, runVars, callVars>>

ReadResult(c) ==
    /\ pc[c] = "read" /\ record = "live"
    /\ code' = [code EXCEPT ![c] = m_result_code]
    /\ ret' = [ret EXCEPT ![c] = "OK"] /\ GoTo(c, "idle")
    /\ UNCHANGED <<recordVars, runVars, op, begun, calls>>
-----------------------------------------------------------------------------
(* mccp_thread_destroy(), by a caller or by a pthread that autodeletes *)

DestroyCancels(a) ==
    /\ pc[a] = "cancel" /\ Free
    /\ pending' = Canceled /\ GoTo(a, "wait")
    /\ UNCHANGED <<recordVars, ended, autodeletes, last, before, callVars>>

\* the freeup procedure runs once
Freeup(a) ==
    /\ pc[a] = "freeup" /\ Free
    /\ m_is_destroying' = TRUE /\ GoTo(a, "delete")
    /\ UNCHANGED <<record, alloc_marked, m_is_started, m_is_activated, m_is_canceled, m_do_autodelete,
                   m_pthd, m_result_code, m_wait_lock, runVars, callVars>>

\* s_destroy(): free() only what s_alloc_tbl has
Delete(a) ==
    /\ pc[a] = "delete" /\ Free
    /\ record' = (IF alloc_marked THEN "freed" ELSE "raw") /\ alloc_marked' = FALSE
    /\ GoTo(a, IF a \in Threads THEN "gone" ELSE "idle")
    /\ UNCHANGED <<flags, m_pthd, m_result_code, m_wait_lock, runVars, callVars>>
-----------------------------------------------------------------------------
(* The other calls *)

PthreadIdResult == IF ~m_is_started THEN "NOT_STARTED"
                   ELSE IF m_pthd # INVALID_THREAD THEN "OK" ELSE "ALREADY_HALTED"

GetPthreadId(c) ==
    /\ pc[c] = "called" /\ op[c] = "get_pthread_id" /\ Free
    /\ Return(c, PthreadIdResult)
    /\ UNCHANGED <<recordVars, runVars>>

SetResultCode(c) ==
    /\ pc[c] = "called" /\ op[c] = "set_result_code" /\ record = "live"
    /\ m_result_code' = SET /\ Return(c, "OK")
    /\ UNCHANGED <<record, alloc_marked, flags, m_pthd, m_wait_lock, runVars>>

FreeWhenDestroy(c) ==
    /\ pc[c] = "called" /\ op[c] = "free_when_destroy"
    /\ alloc_marked' = TRUE /\ Return(c, "OK")
    /\ UNCHANGED <<record, flags, m_pthd, m_result_code, m_wait_lock, runVars>>

CallStep(c) ==
    \/ \E t \in Threads : Spawn(c, t)
    \/ SpawnFails(c) \/ AlreadyStarted(c) \/ Started(c) \/ Cancel(c)
    \/ WaitTimesOut(c) \/ ReadResult(c)
    \/ GetPthreadId(c) \/ SetResultCode(c) \/ FreeWhenDestroy(c)

ThreadStep(t) ==
    \/ Entry(t) \/ MainReturns(t) \/ ActOnCancel(t) \/ StoreResult(t)
    \/ Finalize(t) \/ Finalized(t)

\* steps of wait and destroy, which both kinds of actors take
SharedStep(a) ==
    \/ WaitAutodelete(a) \/ WaitCheck(a) \/ DestroyCancels(a) \/ Freeup(a) \/ Delete(a)

Next ==
    \/ \E c \in Callers : Create(c) \/ CallStep(c) \/ WaiterDies(c) \/ \E o \in Ops : Begin(c, o)
    \/ \E t \in Threads : ThreadStep(t) \/ DiesInFinal(t)
    \/ \E a \in Actors : SharedStep(a)

Spec == Init /\ [][Next]_vars

(* The threads run, and every main procedure returns or is canceled. *)
FairSpec ==
    /\ Spec
    /\ \A c \in Callers : WF_vars(CallStep(c) \/ SharedStep(c))
    /\ \A t \in Threads : WF_vars(ThreadStep(t) \/ SharedStep(t))
-----------------------------------------------------------------------------
RecordTypes ==
    /\ record \in {"raw", "live", "freed"} /\ alloc_marked \in BOOLEAN
    /\ m_is_started \in BOOLEAN /\ m_is_activated \in BOOLEAN /\ m_is_canceled \in BOOLEAN
    /\ m_is_destroying \in BOOLEAN /\ m_do_autodelete \in BOOLEAN
    /\ m_pthd \in Threads \cup {INVALID_THREAD}
    /\ m_result_code \in Threads \cup {NOT_STARTED, SET}
    /\ m_wait_lock \in Actors \cup {NoOne}

ActorTypes ==
    /\ pending \in [Threads -> BOOLEAN] /\ ended \in [Threads -> {"not", "clean", "canceled"}]
    /\ autodeletes \in BOOLEAN /\ last \in 0..MaxStarts /\ before \in 0..MaxStarts
    /\ pc \in [Actors -> CallerPlaces \cup ThreadPlaces]
    /\ \A t \in Threads : pc[t] \in ThreadPlaces

CallTypes ==
    /\ op \in [Callers -> AllOps] /\ ret \in [Callers -> Results]
    /\ code \in [Callers -> Threads \cup {NOT_STARTED, SET}]
    /\ begun \in [Callers -> 0..MaxStarts] /\ calls \in Nat

(* Every variable has its type. *)
ThreadTypeOK == RecordTypes /\ ActorTypes /\ CallTypes

Over(t) == pc[t] \in {"cancel", "wait", "asleep", "woken", "freeup", "delete", "gone"}

(* A wait that succeeds has waited: whatever ran when the call began has      *)
(* left its finalize procedure, also when the record was started again.      *)
(* (A record that autodeletes is not waited for: it may be destroyed and     *)
(* created again while its pthread runs.)                                   *)
WaitSeesTheEnd ==
  ~autodeletes =>
    \A c \in Callers : op[c] \in Waits /\ ret[c] = "OK" /\ begun[c] > 0 => Over(begun[c])

\* the last pthread that was started on the record
Newest(t) == t > before /\ pc[t] # "none" /\ \A u \in Threads : u > t => pc[u] = "none"

(* What get_result_code() and is_canceled() tell.  A successful               *)
(* get_result_code() has a caller's code, or that of a main procedure that    *)
(* has returned, and no earlier one than the last that returned up to the     *)
(* run it waited for.  (A canceled run stores no code, thread.c:355: after    *)
(* it the answer is the code of a run before it, or NOT_STARTED.)  The flag   *)
(* is up exactly if the newest run was canceled: while it runs, through       *)
(* s_finalize() and after every wait, until the record is started again.      *)
(* (A record that autodeletes may have been created again meanwhile.)        *)
EndIsReported ==
  ~autodeletes =>
    /\ \A c \in Callers : op[c] = "get_result_code" /\ ret[c] = "OK" =>
          /\ code[c] \in Threads => ended[code[c]] = "clean"
          /\ \A t \in Threads :
                t > before /\ t <= begun[c] /\ ended[t] = "clean" => code[c] >= t
    /\ \A t \in Threads :
          record = "live" /\ Newest(t) => (m_is_canceled <=> ended[t] = "canceled")

(* Nobody is left with a record that was destroyed or freed: no caller, and   *)
(* no pthread on its way through s_finalize().  (With autodelete somebody    *)
(* may be: the starter that has not woken up, a second destroyer.)           *)
FreedIsLeftAlone ==
    record # "live" /\ ~autodeletes =>
        /\ \A c \in Callers : pc[c] = "idle"
        /\ \A t \in Threads : pc[t] \in {"none", "gone"}

\* a canceled thread took m_wait_lock to its grave
Stuck == \E a \in Actors : pc[a] = "stuck"

(* Nobody sleeps who would not be woken: while a starter sleeps its pthread  *)
(* has still to enter, and while somebody sleeps in a wait a living pthread   *)
(* of the record has still to pass s_finalize() and to notify, also when the  *)
(* record was started again between a notification and the check of the      *)
(* woken.  (Unless a thread was canceled with m_wait_lock, thread.c:240;     *)
(* then everybody sleeps for ever.)                                          *)
NobodyOversleeps ==
  ~autodeletes /\ ~Stuck =>
    \A c \in Callers :
        /\ pc[c] = "starting" => \E t \in Threads : pc[t] = "born"
        /\ pc[c] = "asleep" => \E t \in Threads : pc[t] \in {"main", "returned", "ending", "final"}

(* Who waits for a thread or destroys it returns when it ends, unless the    *)
(* lock was taken to the grave or the record autodeleted.                    *)
WaitersReturn ==
    \A c \in Callers :
        (pc[c] \in {"asleep", "woken", "cancel", "starting"})
            ~> (pc[c] = "idle" \/ Stuck \/ autodeletes)
=============================================================================
