------------------------------- MODULE Stage -------------------------------
(***************************************************************************)
(* mccp_pipeline_stage: a pool of workers that fetch, handle and throw      *)
(* batches of events, and the calls that set up, start, pause, resume, shut *)
(* down, cancel, wait for and destroy it (pipeline_stage.c and              *)
(* pipeline_worker.c).                                                     *)
(*                                                                         *)
(* A call holds m_lock from its first to its last step, even while it       *)
(* sleeps.  The workers never take m_lock: they read m_do_loop, m_sg_lvl    *)
(* and m_pause_requested without a lock, meet at m_pause_barrier and sleep  *)
(* on m_resume_cond under m_pause_lock, which is also free whenever nobody  *)
(* is between two steps with it.  The threads are those of thread.c, seen   *)
(* from outside: started, canceled, waited for.                            *)
(***************************************************************************)
EXTENDS Integers, FiniteSets

CONSTANTS
  NWorkers,   \* m_n_workers
  Callers,    \* the threads that call the stage
  NoOne,      \* nobody holds a lock
  Ops,        \* the operations they use
  HasSetup,   \* the stage has a m_setup_proc
  ClockSteps, \* CLOCK_REALTIME may be set while a call waits, or not move between
              \* the two readings around a wait for a worker that was gone already
  Limit       \* bound: the calls of a behaviour

Workers == 1..NWorkers

\* mccp_pipeline_stage_state_t, without the states no code sets; GONE is a
\* stage that s_is_stage() does not find.
States == {"INITIALIZED", "SETUP", "STARTED", "PAUSED", "CANCELED", "SHUTDOWN", "DESTROYING", "GONE"}
Levels == {"UNKNOWN", "RIGHT_NOW", "GRACEFULLY"}
AllOps == {"setup", "start", "cancel", "shutdown_now", "shutdown_gracefully", "wait", "timedwait",
           "pause", "timedpause", "resume", "destroy"}

\* mccp_global_state_t, as far as the workers tell its values apart
STARTING         == 3
STARTED          == 4
REQUEST_SHUTDOWN == 5

ASSUME StageAssumption ==
  /\ NWorkers \in Nat \ {0}
  /\ Ops \subseteq AllOps
  /\ NoOne \notin Callers \cup Workers
  /\ Callers \cap Workers = {}
  /\ HasSetup \in BOOLEAN /\ ClockSteps \in BOOLEAN
  /\ Limit \in Nat

VARIABLES
  m_status, m_sg_lvl, m_do_loop, m_pause_requested,
  m_n_canceled_workers, m_n_shutdown_workers,
  m_lock,      \* who holds m_lock
  m_pause_lock,\* who holds m_pause_lock between two steps
  gs,          \* s_gs of gstate.c
  s_lck,       \* the worker that was canceled with the lock of gstate.c
  fatal,       \* the mccp_exit_fatal() that ended the process
  wpc,         \* where each worker is
  st,          \* the st of its loop
  pending,     \* pthread_cancel() was called
  is_canceled, \* it acts on the cancel
  m_is_started,
  is_master,   \* the worker the barrier chose
  cpc, op,     \* where each caller is, in which operation
  ci,          \* its worker index
  ret,         \* what its last call returned
  calls        \* the calls so far, up to Limit

flags      == <<m_sg_lvl, m_do_loop, m_pause_requested>>
counters   == <<m_n_canceled_workers, m_n_shutdown_workers>>
locks      == <<m_lock, m_pause_lock, s_lck>>
workerVars == <<wpc, st, pending, is_canceled, m_is_started, is_master>>
callerVars == <<cpc, op, ci, ret, calls>>
vars == <<m_status, flags, counters, locks, gs, fatal, workerVars, callerVars>>

WorkerPlaces == {"off", "gala", "loop", "ops", "barrier", "open", "resume", "woken", "end"}
CallerPlaces == {"idle", "starting", "undoing", "waiting", "pausing", "destroying", "canceled"}
Results      == {"OK", "FAILED", "TIMEDOUT", "INVALID_STATE", "INVALID_OBJECT", "NONE"}

\* s_init_stage(): a created stage
Init ==
    /\ m_status = "INITIALIZED" /\ m_sg_lvl = "UNKNOWN"
    /\ m_do_loop = FALSE /\ m_pause_requested = FALSE
    /\ m_n_canceled_workers = 0 /\ m_n_shutdown_workers = 0
    /\ m_lock = NoOne /\ m_pause_lock = NoOne /\ s_lck = NoOne
    /\ gs = STARTING /\ fatal = "no"
    /\ wpc = [w \in Workers |-> "off"] /\ st = [w \in Workers |-> 0]
    /\ pending = [w \in Workers |-> FALSE] /\ is_canceled = [w \in Workers |-> FALSE]
    /\ m_is_started = [w \in Workers |-> FALSE] /\ is_master = NoOne
    /\ cpc = [c \in Callers |-> "idle"] /\ op = [c \in Callers |-> "setup"]
    /\ ci = [c \in Callers |-> 1] /\ ret = [c \in Callers |-> "NONE"] /\ calls = 0
-----------------------------------------------------------------------------
(* The workers *)

GoTo(w, place) == wpc' = [wpc EXCEPT ![w] = place]

\* Faulty: a worker without events goes on whatever was requested.
GoesOn_Endless(w) == st[w] >= 0

\* the condition of the loop
GoesOn(w) == m_do_loop /\ (st[w] > 0 \/ (st[w] = 0 /\ m_sg_lvl = "UNKNOWN"))

\* s_worker_main(): mccp_global_state_wait_for(STARTED) returns OK for every
\* state from STARTED on.
Gala(w) ==
    /\ wpc[w] = "gala" /\ s_lck = NoOne /\ gs >= STARTED
    /\ IF gs = STARTED
       THEN /\ m_is_started' = [m_is_started EXCEPT ![w] = TRUE]
            /\ GoTo(w, "loop") /\ UNCHANGED fatal
       ELSE fatal' = "gala" /\ UNCHANGED <<wpc, m_is_started>>
    /\ UNCHANGED <<m_status, flags, counters, locks, gs, st, pending, is_canceled, is_master, callerVars>>

\* WORKER_LOOP between two batches
Loop(w) ==
    /\ wpc[w] = "loop"
    /\ GoTo(w, IF ~GoesOn(w) THEN "end" ELSE IF m_pause_requested THEN "barrier" ELSE "ops")
    /\ UNCHANGED <<m_status, flags, counters, locks, gs, fatal, st, pending, is_canceled, m_is_started,
                   is_master, callerVars>>

\* the fetch, main and throw procedures: the last one that ran gives st, and
\* an error leaves the loop
Batch(w, result) ==
    /\ wpc[w] = "ops"
    /\ st' = [st EXCEPT ![w] = result]
    /\ GoTo(w, IF result < 0 THEN "end" ELSE "loop")
    /\ UNCHANGED <<m_status, flags, counters, locks, gs, fatal, pending, is_canceled, m_is_started,
                   is_master, callerVars>>

\* Faulty: the barrier counts one worker less.
AtBarrier_OneLess == Cardinality({w \in Workers : wpc[w] = "barrier"}) >= NWorkers - 1

\* pthread_barrier_wait(): all have arrived, one of them is told so
AtBarrier == \A w \in Workers : wpc[w] = "barrier"

BarrierOpens(m) ==
    /\ AtBarrier /\ wpc[m] = "barrier"
    /\ wpc' = [w \in Workers |-> IF wpc[w] = "barrier" THEN "open" ELSE wpc[w]]
    /\ is_master' = m
    /\ UNCHANGED <<m_status, flags, counters, locks, gs, fatal, st, pending, is_canceled, m_is_started, callerVars>>

\* s_worker_pause() behind the barrier, and again when m_resume_cond is notified
SleepOrGo(w) == GoTo(w, IF m_pause_requested THEN "resume" ELSE "loop")

Paused(w) ==
    /\ wpc[w] = "open" /\ m_pause_lock = NoOne
    /\ IF is_master = w
       THEN m_status' = "PAUSED" /\ is_master' = NoOne
       ELSE UNCHANGED <<m_status, is_master>>
    /\ SleepOrGo(w)
    /\ UNCHANGED <<flags, counters, locks, gs, fatal, st, pending, is_canceled, m_is_started, callerVars>>

Recheck(w) ==
    /\ wpc[w] = "woken" /\ m_pause_lock = NoOne
    /\ SleepOrGo(w)
    /\ UNCHANGED <<m_status, flags, counters, locks, gs, fatal, st, pending, is_canceled, m_is_started,
                   is_master, callerVars>>

\* A pending cancel is acted on inside the procedures and in the two condition
\* waits, which take their mutex back first; the barrier and the locks are no
\* cancellation points.
ActOnCancel(w) ==
    /\ pending[w] /\ wpc[w] \in {"ops", "gala", "resume", "woken"}
    /\ wpc[w] = "gala" => s_lck = NoOne /\ gs < STARTED
    /\ wpc[w] \in {"resume", "woken"} => m_pause_lock = NoOne
    /\ s_lck' = IF wpc[w] = "gala" THEN w ELSE s_lck
    /\ m_pause_lock' = IF wpc[w] \in {"resume", "woken"} THEN w ELSE m_pause_lock
    /\ is_canceled' = [is_canceled EXCEPT ![w] = TRUE]
    /\ GoTo(w, "end")
    /\ UNCHANGED <<m_status, flags, counters, m_lock, gs, fatal, st, pending, m_is_started, is_master, callerVars>>

\* Faulty: a worker canceled before the gala keeps the lock of gstate.c.
Janitor_Forgotten(w) == s_lck

\* mccp_global_state_cancel_janitor() by a worker that was canceled unstarted
Janitor(w) == IF is_canceled[w] /\ ~m_is_started[w] THEN NoOne ELSE s_lck

\* s_pause_unlock_stage() by every canceled worker, whoever holds the lock
PauseUnlock(w) == IF is_canceled[w] THEN NoOne ELSE m_pause_lock

CountShutdown(w) == m_n_shutdown_workers + 1
CountCanceled(w) == m_n_canceled_workers + (IF is_canceled[w] THEN 1 ELSE 0)

\* s_worker_finalize(), and the end of the thread
Finalize(w) ==
    /\ wpc[w] = "end"
    /\ s_lck' = Janitor(w) /\ m_pause_lock' = PauseUnlock(w)
    /\ m_n_canceled_workers' = CountCanceled(w) /\ m_n_shutdown_workers' = CountShutdown(w)
    /\ GoTo(w, "off")
    /\ UNCHANGED <<m_status, flags, m_lock, gs, fatal, st, pending, is_canceled, m_is_started, is_master, callerVars>>

WorkerStep(w) ==
    /\ fatal = "no"
    /\ \/ Gala(w) \/ Loop(w) \/ (\E r \in {-1, 0, 1} : Batch(w, r))
       \/ BarrierOpens(w) \/ Paused(w) \/ Recheck(w)
       \/ ActOnCancel(w) \/ Finalize(w)
-----------------------------------------------------------------------------
(* The calls *)

Ready(c, o) == cpc[c] = "idle" /\ o \in Ops /\ calls < Limit /\ m_lock = NoOne /\ m_status # "GONE"

Return(c, r) ==
    /\ ret' = [ret EXCEPT ![c] = r] /\ cpc' = [cpc EXCEPT ![c] = "idle"]
    /\ op' = [op EXCEPT ![c] = "setup"] /\ ci' = [ci EXCEPT ![c] = 1]
    /\ calls' = calls + 1 /\ m_lock' = NoOne

\* the call keeps m_lock and goes on from place
Proceed(c, o, place) ==
    /\ cpc' = [cpc EXCEPT ![c] = place] /\ op' = [op EXCEPT ![c] = o] /\ m_lock' = c
    /\ UNCHANGED <<ci, ret, calls>>

\* s_cancel_stage() for the first k workers
CancelStage(k) ==
    /\ pending' = [w \in Workers |-> pending[w] \/ (w <= k /\ wpc[w] # "off" /\ ~is_canceled[w])]
    /\ m_sg_lvl' = "RIGHT_NOW" /\ m_do_loop' = FALSE

\* s_resume_notify_stage()
NotifyResume == wpc' = [w \in Workers |-> IF wpc[w] = "resume" THEN "woken" ELSE wpc[w]]

AllOff == \A w \in Workers : wpc[w] = "off"

Setup(c) ==
    /\ Ready(c, "setup")
    /\ \/ m_status = "INITIALIZED" /\ HasSetup /\ m_status' = "SETUP" /\ Return(c, "OK")
       \/ m_status = "INITIALIZED" /\ Return(c, "FAILED") /\ UNCHANGED m_status
       \/ m_status = "SETUP" /\ Return(c, "OK") /\ UNCHANGED m_status
       \/ m_status \notin {"INITIALIZED", "SETUP"} /\ Return(c, "INVALID_STATE") /\ UNCHANGED m_status
    /\ UNCHANGED <<flags, counters, m_pause_lock, s_lck, gs, fatal, workerVars>>

Reset == m_n_canceled_workers' = 0 /\ m_n_shutdown_workers' = 0

Start(c) ==
    /\ Ready(c, "start")
    /\ IF m_status \in {"INITIALIZED", "SETUP"}
       THEN Reset /\ m_do_loop' = TRUE /\ Proceed(c, "start", "starting")
       ELSE Return(c, "INVALID_STATE") /\ UNCHANGED <<m_do_loop, counters>>
    /\ UNCHANGED <<m_status, m_sg_lvl, m_pause_requested, m_pause_lock, s_lck, gs, fatal, workerVars>>

Left(c) == ci[c] <= NWorkers

\* s_worker_start(): the thread runs when it returns
StartWorker(c) ==
    /\ cpc[c] = "starting" /\ Left(c)
    /\ GoTo(ci[c], "gala") /\ st' = [st EXCEPT ![ci[c]] = 0]
    /\ pending' = [pending EXCEPT ![ci[c]] = FALSE] /\ is_canceled' = [is_canceled EXCEPT ![ci[c]] = FALSE]
    /\ ci' = [ci EXCEPT ![c] = ci[c] + 1]
    /\ UNCHANGED <<m_status, flags, counters, locks, gs, fatal, m_is_started, is_master, cpc, op, ret, calls>>

\* pthread_create() fails: what was started is canceled and waited for
StartFails(c) ==
    /\ cpc[c] = "starting" /\ Left(c)
    /\ CancelStage(ci[c])
    /\ cpc' = [cpc EXCEPT ![c] = "undoing"]
    /\ UNCHANGED <<m_status, m_pause_requested, counters, locks, gs, fatal, wpc, st, is_canceled, m_is_started,
                   is_master, op, ci, ret, calls>>

StartUndone(c) ==
    /\ cpc[c] = "undoing" /\ AllOff
    /\ Reset /\ Return(c, "FAILED")
    /\ UNCHANGED <<m_status, flags, m_pause_lock, s_lck, gs, fatal, workerVars>>

StartDone(c) ==
    /\ cpc[c] = "starting" /\ ~Left(c)
    /\ m_status' = "STARTED" /\ Return(c, "OK")
    /\ UNCHANGED <<flags, counters, m_pause_lock, s_lck, gs, fatal, workerVars>>

Cancel(c) ==
    /\ Ready(c, "cancel")
    /\ IF m_status = "STARTED"
       THEN CancelStage(NWorkers) /\ Return(c, "OK")
       ELSE Return(c, "INVALID_STATE") /\ UNCHANGED <<m_sg_lvl, m_do_loop, pending>>
    /\ UNCHANGED <<m_status, m_pause_requested, counters, m_pause_lock, s_lck, gs, fatal, wpc, st, is_canceled,
                   m_is_started, is_master>>

\* a paused stage is resumed before it is shut down
ResumeBeforeShutdown ==
    IF m_status = "PAUSED"
    THEN m_pause_lock = NoOne /\ m_pause_requested' = FALSE /\ NotifyResume /\ m_status' = "STARTED"
    ELSE UNCHANGED <<m_pause_requested, wpc, m_status>>

Shutdown(c, o, lvl) ==
    /\ Ready(c, o)
    /\ IF m_status \in {"STARTED", "PAUSED"}
       THEN /\ ResumeBeforeShutdown
            /\ IF lvl = "RIGHT_NOW" THEN CancelStage(NWorkers)
                                    ELSE m_sg_lvl' = lvl /\ UNCHANGED <<m_do_loop, pending>>
            /\ Return(c, "OK")
       ELSE Return(c, "INVALID_STATE") /\ UNCHANGED <<m_status, flags, wpc, pending>>
    /\ UNCHANGED <<counters, m_pause_lock, s_lck, gs, fatal, st, is_canceled, m_is_started, is_master>>

Wait(c, o) ==
    /\ Ready(c, o)
    /\ IF m_status = "STARTED" THEN Proceed(c, o, "waiting") ELSE Return(c, "INVALID_STATE")
    /\ UNCHANGED <<m_status, flags, counters, m_pause_lock, s_lck, gs, fatal, workerVars>>

\* Faulty: the wait ends with the first worker.
Waited_First(c) == wpc[1] = "off"

\* s_wait_stage() returns OK.  With a time limit it stops early when the time
\* it measured for a worker, which it takes for the time that is left, is zero
\* or negative.
Waited(c) ==
    \/ AllOff
    \/ ClockSteps /\ op[c] = "timedwait" /\ wpc[1] = "off"

WaitDone(c) ==
    /\ cpc[c] = "waiting" /\ Waited(c)
    /\ IF m_n_shutdown_workers = NWorkers
       THEN /\ m_status' = IF m_n_canceled_workers > 0 THEN "CANCELED" ELSE "SHUTDOWN"
            /\ m_do_loop' = FALSE /\ Return(c, "OK") /\ UNCHANGED fatal
       ELSE fatal' = "wait" /\ UNCHANGED <<m_status, m_do_loop, m_lock, callerVars>>
    /\ UNCHANGED <<m_sg_lvl, m_pause_requested, counters, m_pause_lock, s_lck, gs, workerVars>>

\* a worker was not finished in the time that is left for it
WaitTimesOut(c) ==
    /\ cpc[c] = "waiting" /\ op[c] = "timedwait" /\ ~AllOff
    /\ Return(c, "TIMEDOUT")
    /\ UNCHANGED <<m_status, flags, counters, m_pause_lock, s_lck, gs, fatal, workerVars>>

\* m_pause_requested is set and the caller sleeps on m_pause_cond
Pause(c, o) ==
    /\ Ready(c, o)
    /\ IF m_status = "STARTED"
       THEN m_pause_lock = NoOne /\ m_pause_requested' = TRUE /\ Proceed(c, o, "pausing")
       ELSE /\ Return(c, IF m_status = "PAUSED" THEN "OK" ELSE "INVALID_STATE")
            /\ UNCHANGED m_pause_requested
    /\ UNCHANGED <<m_status, m_sg_lvl, m_do_loop, counters, m_pause_lock, s_lck, gs, fatal, workerVars>>

PauseDone(c) ==
    /\ cpc[c] = "pausing" /\ m_pause_lock = NoOne /\ m_status = "PAUSED"
    /\ Return(c, "OK")
    /\ UNCHANGED <<m_status, flags, counters, m_pause_lock, s_lck, gs, fatal, workerVars>>

\* the request stays
PauseTimesOut(c) ==
    /\ cpc[c] = "pausing" /\ op[c] = "timedpause" /\ m_pause_lock = NoOne
    /\ Return(c, "TIMEDOUT")
    /\ UNCHANGED <<m_status, flags, counters, m_pause_lock, s_lck, gs, fatal, workerVars>>

\* the sleeping caller is canceled, and its handler calls
\* mccp_pipeline_stage_cancel_janitor()
PauserCanceled(c) ==
    /\ fatal = "no" /\ cpc[c] = "pausing" /\ m_pause_lock = NoOne
    /\ m_pause_lock' = c /\ cpc' = [cpc EXCEPT ![c] = "canceled"]
    /\ UNCHANGED <<m_status, flags, counters, m_lock, s_lck, gs, fatal, workerVars, op, ci, ret, calls>>

CancelJanitor(c) ==
    /\ cpc[c] = "canceled"
    /\ m_pause_lock' = NoOne /\ Return(c, "NONE")
    /\ UNCHANGED <<m_status, flags, counters, s_lck, gs, fatal, workerVars>>

Resume(c) ==
    /\ Ready(c, "resume")
    /\ IF m_status = "PAUSED"
       THEN /\ m_pause_lock = NoOne /\ m_pause_requested' = FALSE /\ NotifyResume
            /\ m_status' = "STARTED" /\ Return(c, "OK")
       ELSE /\ Return(c, IF m_status = "STARTED" THEN "OK" ELSE "INVALID_STATE")
            /\ UNCHANGED <<m_status, m_pause_requested, wpc>>
    /\ UNCHANGED <<m_sg_lvl, m_do_loop, counters, m_pause_lock, s_lck, gs, fatal, st, pending, is_canceled,
                   m_is_started, is_master>>

\* s_destroy_stage(): nobody else may be in a call, the stage is freed
Destroy(c) ==
    /\ Ready(c, "destroy") /\ \A d \in Callers : cpc[d] = "idle"
    /\ m_status' = "DESTROYING" /\ CancelStage(NWorkers) /\ Proceed(c, "destroy", "destroying")
    /\ UNCHANGED <<m_pause_requested, counters, m_pause_lock, s_lck, gs, fatal, wpc, st, is_canceled, m_is_started,
                   is_master>>

Destroyed(c) ==
    /\ cpc[c] = "destroying" /\ AllOff
    /\ m_status' = "GONE" /\ Return(c, "NONE")
    /\ UNCHANGED <<flags, counters, m_pause_lock, s_lck, gs, fatal, workerVars>>

\* s_is_stage() finds nothing
NoStage(c) ==
    /\ cpc[c] = "idle" /\ m_status = "GONE" /\ calls < Limit
    /\ ret' = [ret EXCEPT ![c] = "INVALID_OBJECT"] /\ calls' = calls + 1
    /\ UNCHANGED <<m_status, flags, counters, locks, gs, fatal, workerVars, cpc, op, ci>>

CallerStep(c) ==
    /\ fatal = "no"
    /\ \/ Setup(c) \/ Start(c) \/ StartWorker(c) \/ StartFails(c) \/ StartUndone(c) \/ StartDone(c)
       \/ Cancel(c) \/ Shutdown(c, "shutdown_now", "RIGHT_NOW") \/ Shutdown(c, "shutdown_gracefully", "GRACEFULLY")
       \/ Wait(c, "wait") \/ Wait(c, "timedwait") \/ WaitDone(c) \/ WaitTimesOut(c)
       \/ Pause(c, "pause") \/ Pause(c, "timedpause") \/ PauseDone(c) \/ PauseTimesOut(c)
       \/ CancelJanitor(c) \/ Resume(c) \/ Destroy(c) \/ Destroyed(c) \/ NoStage(c)

\* mccp_global_state_set() and _request_shutdown() by the rest of the program
SetGlobal(s) ==
    /\ fatal = "no" /\ gs < s /\ gs' = s
    /\ UNCHANGED <<m_status, flags, counters, locks, fatal, workerVars, callerVars>>

Next ==
    \/ \E w \in Workers : WorkerStep(w)
    \/ \E c \in Callers : CallerStep(c) \/ PauserCanceled(c)
    \/ \E s \in {STARTED, REQUEST_SHUTDOWN} : SetGlobal(s)

Spec == Init /\ [][Next]_vars

(* The threads run; a call under way goes on; a worker that is asked again  *)
(* and again finds no more events at last.                                 *)
FairSpec ==
    /\ Spec
    /\ \A w \in Workers :
          /\ WF_vars(WorkerStep(w))
          /\ SF_vars(fatal = "no" /\ Batch(w, 0))
    /\ \A c \in Callers : WF_vars(cpc[c] # "idle" /\ CallerStep(c))
-----------------------------------------------------------------------------
FlagTypes ==
    /\ m_status \in States /\ m_sg_lvl \in Levels
    /\ m_do_loop \in BOOLEAN /\ m_pause_requested \in BOOLEAN
    /\ m_n_canceled_workers \in Nat /\ m_n_shutdown_workers \in Nat
    /\ m_pause_lock \in Callers \cup Workers \cup {NoOne} /\ s_lck \in Workers \cup {NoOne}
    /\ gs \in {STARTING, STARTED, REQUEST_SHUTDOWN} /\ fatal \in {"no", "gala", "wait"}

WorkerTypes ==
    /\ wpc \in [Workers -> WorkerPlaces] /\ st \in [Workers -> {-1, 0, 1}]
    /\ pending \in [Workers -> BOOLEAN] /\ is_canceled \in [Workers -> BOOLEAN]
    /\ m_is_started \in [Workers -> BOOLEAN] /\ is_master \in Workers \cup {NoOne}

CallerTypes ==
    /\ m_lock \in Callers \cup {NoOne}
    /\ cpc \in [Callers -> CallerPlaces] /\ op \in [Callers -> AllOps]
    /\ ci \in [Callers -> 1..(NWorkers + 1)] /\ ret \in [Callers -> Results] /\ calls \in Nat

(* Every variable has its type. *)
StageTypeOK == FlagTypes /\ WorkerTypes /\ CallerTypes

(* A wait that succeeds has seen every worker end: mccp_exit_fatal() at     *)
(* pipeline_stage.c:888 "must not happen", and what the status tells of the *)
(* end is so: no worker runs, and one was canceled or none was.  (On a clock *)
(* that is neither set nor too coarse to move during a wait: ~ClockSteps.)   *)
EndIsTold ==
    /\ fatal # "wait"
    /\ m_status \in {"CANCELED", "SHUTDOWN"} =>
          AllOff /\ (m_status = "CANCELED" <=> \E w \in Workers : is_canceled[w])

(* In a paused stage no worker is inside the procedures or on its way there *)
(* without being told to resume, whoever was slow behind the barrier.       *)
PausedIsQuiet ==
    m_status = "PAUSED" => \A w \in Workers : wpc[w] \notin {"gala", "loop", "ops", "barrier"}

(* A worker that has ended, however it was canceled, holds no lock the other *)
(* workers or the rest of the program wait for, and none runs when the stage *)
(* is freed.                                                                *)
NothingIsLeft ==
    /\ \A w \in Workers : wpc[w] = "off" => s_lck # w /\ m_pause_lock # w
    /\ m_status = "GONE" => AllOff

(* A worker of a stage that is told to shut down or is canceled ends, unless *)
(* a pause is requested too (then it may wait at the barrier for ever).      *)
ShutdownEnds ==
    \A w \in Workers :
        (m_sg_lvl # "UNKNOWN" /\ wpc[w] # "off" /\ gs >= STARTED /\ ~m_pause_requested)
            ~> (wpc[w] = "off" \/ m_pause_requested \/ fatal # "no")

(* "Then all the workers enter the barrier ... a worker sets the             *)
(* ps->m_status to STAGE_STATE_PAUSED and wakes this thread up",             *)
(* pipeline_stage.c:955: who pauses without a time limit wakes up.           *)
PauseIsReached == \A c \in Callers : (cpc[c] = "pausing") ~> (cpc[c] # "pausing" \/ fatal # "no")
=============================================================================
