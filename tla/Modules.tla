------------------------------ MODULE Modules ------------------------------
(***************************************************************************)
(* The module manager (module.c), and the threads of the modules it        *)
(* manages, which are written like check/dummy-module.c: wait for the gala, *)
(* loop until told to stop, end.                                           *)
(*                                                                         *)
(* The operations on all modules go from one to the next under s_lck, which *)
(* only their one caller takes; the procedures of the modules run inside    *)
(* them and may fail.  A program calls each of them in its order, so that the  *)
(* answer INVALID_STATE_TRANSITION is left out.  The threads are those of Thread: they act on a       *)
(* pending cancel where they sleep.                                        *)
(***************************************************************************)
EXTENDS Integers, Sequences

CONSTANTS
  MAX_MODULES,
  Names,       \* the names modules are registered under
  WaitLimit    \* mccp_module_wait_all() is given a time limit

ModuleIds == 1..MAX_MODULES

\* mccp_global_state_t
UNKNOWN          == 0
INITIALIZING     == 1
STARTING         == 3
STARTED          == 4
REQUEST_SHUTDOWN == 5
ACCEPT_SHUTDOWN  == 6
GlobalStates     == {UNKNOWN, INITIALIZING, STARTING, STARTED, REQUEST_SHUTDOWN, ACCEPT_SHUTDOWN}
Levels           == {"UNKNOWN", "RIGHT_NOW", "GRACEFULLY"}

\* a_module_state_t
ModuleStates == {"UNKNOWN", "REGISTERED", "INITIALIZED", "STARTED", "SHUTDOWN", "CANCELLING", "STOPPED"}
Results      == {"OK", "FAILED", "TIMEDOUT", "INVALID_STATE_TRANSITION", "NO_MEMORY", "ALREADY_EXISTS"}
Jobs         == {"none", "initialize", "start", "shutdown", "stop", "wait", "finalize"}

ASSUME ModulesAssumption == MAX_MODULES \in Nat /\ WaitLimit \in BOOLEAN

VARIABLES
  s_modules,   \* the names, in the order of the registrations
  m_status, m_thdptr,
  m_freed,     \* its finalize procedure has run
  mpc,         \* where the thread of each module is
  s_do_loop, s_is_started, s_is_gracefull, is_canceled, \* of each module
  pending,     \* pthread_cancel() was called
  gs, s_gl,    \* the global state and the level of the shutdown
  gs_lock,     \* the module whose thread was canceled with the lock of gstate.c
  job, left,   \* the operation on all modules, and how many it has not done
  st           \* its result so far: the first error

threadVars == <<mpc, s_is_started, is_canceled, gs_lock>>
flagVars   == <<s_do_loop, s_is_gracefull, pending>>
tableVars  == <<s_modules, m_status, m_thdptr, m_freed>>
jobVars    == <<job, left, st>>
stateVars  == <<gs, s_gl>>
moduleVars == <<threadVars, flagVars, tableVars, jobVars, stateVars>>

NoModule == 0

ModulesInit ==
    /\ s_modules = <<>> /\ m_status = [m \in ModuleIds |-> "UNKNOWN"]
    /\ m_thdptr = [m \in ModuleIds |-> FALSE] /\ m_freed = [m \in ModuleIds |-> FALSE]
    /\ mpc = [m \in ModuleIds |-> "off"]
    /\ s_do_loop = [m \in ModuleIds |-> FALSE] /\ s_is_started = [m \in ModuleIds |-> FALSE]
    /\ s_is_gracefull = [m \in ModuleIds |-> FALSE] /\ is_canceled = [m \in ModuleIds |-> FALSE]
    /\ pending = [m \in ModuleIds |-> FALSE]
    /\ gs = UNKNOWN /\ s_gl = "UNKNOWN" /\ gs_lock = NoModule
    /\ job = "none" /\ left = 0 /\ st = "OK"

s_n_modules == Len(s_modules)
-----------------------------------------------------------------------------
(* Registration *)

NOT_FOUND == 0

\* s_find_module(): a module is only reported when there is a place for it
FindModule(name, retmptr) ==
    IF retmptr /\ \E m \in 1..s_n_modules : s_modules[m] = name
    THEN CHOOSE m \in 1..s_n_modules : s_modules[m] = name
    ELSE NOT_FOUND

\* Faulty: the table may be full.
RegisterResult_NoLimit(name) == IF FindModule(name, FALSE) = NOT_FOUND THEN "OK" ELSE "ALREADY_EXISTS"

RegisterResult(name) ==
    IF s_n_modules = MAX_MODULES THEN "NO_MEMORY"
    ELSE IF FindModule(name, FALSE) = NOT_FOUND THEN "OK" ELSE "ALREADY_EXISTS"

Register(name) ==
    /\ st' = RegisterResult(name)
    /\ IF RegisterResult(name) = "OK"
       THEN /\ s_modules' = Append(s_modules, name)
            /\ m_status' = [m_status EXCEPT ![s_n_modules + 1] = "REGISTERED"]
       ELSE UNCHANGED <<s_modules, m_status>>
    /\ UNCHANGED <<threadVars, flagVars, stateVars, m_thdptr, m_freed, job, left>>
-----------------------------------------------------------------------------
(* The operations on all modules *)

\* forwards until the first error, or backwards through all
Forwards == job \in {"initialize", "start"}
Current  == IF Forwards THEN s_n_modules - left + 1 ELSE left
HasNext  == left > 0 /\ (Forwards => st = "OK")

Begin(j) == job' = j /\ left' = s_n_modules /\ st' = "OK"
JobDone  == job # "none" /\ ~HasNext

\* the loop goes on with the next module and keeps the first error
FirstErr(r) == IF st = "OK" THEN r ELSE st
Goes(r)     == st' = FirstErr(r) /\ left' = left - 1 /\ job' = job
Doing(j)    == job = j /\ HasNext

\* s_initialize_module(): what dummy_module_initialize() creates
InitializeModule(m) ==
    /\ Doing("initialize")
    /\ \/ m_status[m] = "REGISTERED" /\ Goes("OK")
          /\ m_status' = [m_status EXCEPT ![m] = "INITIALIZED"]
          /\ \E thread \in BOOLEAN : m_thdptr' = [m_thdptr EXCEPT ![m] = thread]
       \/ m_status[m] = "REGISTERED" /\ Goes("FAILED") /\ UNCHANGED <<m_status, m_thdptr>>
    /\ UNCHANGED <<threadVars, flagVars, stateVars, s_modules, m_freed>>

\* s_start_module(): dummy_module_start()
StartModule(m) ==
    /\ Doing("start")
    /\ \/ m_status[m] = "INITIALIZED" /\ Goes("OK")
          /\ m_status' = [m_status EXCEPT ![m] = "STARTED"]
          /\ s_do_loop' = [s_do_loop EXCEPT ![m] = TRUE]
          /\ mpc' = [mpc EXCEPT ![m] = IF m_thdptr[m] THEN "gala" ELSE "off"]
       \/ m_status[m] = "INITIALIZED" /\ Goes("FAILED") /\ UNCHANGED <<m_status, s_do_loop, mpc>>
    /\ UNCHANGED <<stateVars, s_is_started, is_canceled, gs_lock, s_is_gracefull, pending, s_modules,
                   m_thdptr, m_freed>>

\* s_shutdown_module(): without a thread the state changes whatever the
\* procedure returned
ShutdownModule(m) ==
    /\ Doing("shutdown") /\ m_status[m] = "STARTED"
    /\ \/ Goes("OK") /\ s_do_loop' = [s_do_loop EXCEPT ![m] = FALSE]
          /\ s_is_gracefull' = [s_is_gracefull EXCEPT ![m] = @ \/ s_gl = "GRACEFULLY"]
       \/ Goes("FAILED") /\ UNCHANGED <<s_do_loop, s_is_gracefull>>
    /\ m_status' = [m_status EXCEPT ![m] = IF m_thdptr[m] THEN @ ELSE "SHUTDOWN"]
    /\ UNCHANGED <<threadVars, stateVars, pending, s_modules, m_thdptr, m_freed>>

\* s_stop_module(): dummy_module_stop() only cancels the thread of its own
\* module, which does not fail
StopModule(m) ==
    /\ Doing("stop") /\ Goes("OK")
    /\ IF m_status[m] = "STARTED"
       THEN /\ m_status' = [m_status EXCEPT ![m] = IF m_thdptr[m] THEN "CANCELLING" ELSE "SHUTDOWN"]
            /\ pending' = [pending EXCEPT ![m] = mpc[m] # "off"]
       ELSE UNCHANGED <<m_status, pending>>
    /\ UNCHANGED <<threadVars, stateVars, s_do_loop, s_is_gracefull, s_modules, m_thdptr, m_freed>>

Waitable(m) == m_status[m] \in {"CANCELLING", "STARTED"} /\ m_thdptr[m]

\* Faulty: the module is taken for ended once it was told to end.
ThreadEnded_Told(m) == mpc[m] = "off" \/ ~s_do_loop[m]

\* mccp_thread_wait() returns OK
ThreadEnded(m) == mpc[m] = "off"

\* s_wait_module()
WaitModule(m) ==
    /\ Doing("wait")
    /\ \/ Waitable(m) /\ ThreadEnded(m) /\ Goes("OK")
          /\ m_status' = [m_status EXCEPT ![m] = IF is_canceled[m] THEN "STOPPED" ELSE "SHUTDOWN"]
       \/ Waitable(m) /\ WaitLimit /\ ~ThreadEnded(m) /\ Goes("TIMEDOUT") /\ UNCHANGED m_status
       \/ m_status[m] \in {"SHUTDOWN", "STOPPED"} /\ Goes("OK") /\ UNCHANGED m_status
    /\ UNCHANGED <<threadVars, flagVars, stateVars, s_modules, m_thdptr, m_freed>>

Destructible(m) == m_status[m] \notin {"STARTED", "CANCELLING"}

\* s_finalize_module(): returns nothing, and st stays that of the program
FinalizeModule(m) ==
    /\ Doing("finalize") /\ left' = left - 1
    /\ m_freed' = [m_freed EXCEPT ![m] = @ \/ Destructible(m)]
    /\ UNCHANGED <<threadVars, flagVars, stateVars, s_modules, m_status, m_thdptr, job, st>>

JobStep ==
    \E m \in {Current} :
        \/ InitializeModule(m) \/ StartModule(m) \/ ShutdownModule(m)
        \/ StopModule(m) \/ WaitModule(m) \/ FinalizeModule(m)
-----------------------------------------------------------------------------
(* The thread of a module: s_dummy_thd_main() *)

GoTo(m, place) == mpc' = [mpc EXCEPT ![m] = place]

\* mccp_global_state_wait_for(STARTED); after a shutdown request there is
\* nothing to do
Gala(m) ==
    /\ mpc[m] = "gala" /\ gs >= STARTED /\ gs_lock = NoModule
    /\ s_is_started' = [s_is_started EXCEPT ![m] = gs = STARTED]
    /\ GoTo(m, IF gs = STARTED THEN "loop" ELSE "end")
    /\ UNCHANGED <<flagVars, tableVars, jobVars, stateVars, is_canceled, gs_lock>>

LeaveLoop(m) ==
    /\ mpc[m] = "loop" /\ ~s_do_loop[m]
    /\ GoTo(m, IF s_is_gracefull[m] THEN "graceful" ELSE "end")
    /\ UNCHANGED <<flagVars, tableVars, jobVars, stateVars, s_is_started, is_canceled, gs_lock>>

GracefulDone(m) ==
    /\ mpc[m] = "graceful" /\ GoTo(m, "end")
    /\ UNCHANGED <<flagVars, tableVars, jobVars, stateVars, s_is_started, is_canceled, gs_lock>>

\* in the gala the lock of gstate.c is taken back first
ActOnCancel(m) ==
    /\ pending[m] /\ mpc[m] \in {"gala", "loop", "graceful"}
    /\ mpc[m] = "gala" => gs_lock = NoModule
    /\ gs_lock' = IF mpc[m] = "gala" THEN m ELSE gs_lock
    /\ is_canceled' = [is_canceled EXCEPT ![m] = TRUE] /\ GoTo(m, "end")
    /\ UNCHANGED <<flagVars, tableVars, jobVars, stateVars, s_is_started>>

\* s_dummy_thd_finalize() with the janitor, and the end
ThreadEnds(m) ==
    /\ mpc[m] = "end" /\ GoTo(m, "off")
    /\ gs_lock' = IF is_canceled[m] /\ ~s_is_started[m] THEN NoModule ELSE gs_lock
    /\ UNCHANGED <<flagVars, tableVars, jobVars, stateVars, s_is_started, is_canceled>>

ModuleThread(m) == Gala(m) \/ LeaveLoop(m) \/ GracefulDone(m) \/ ActOnCancel(m) \/ ThreadEnds(m)
-----------------------------------------------------------------------------
ModulesTypeOK ==
    /\ s_modules \in Seq(Names) /\ Len(s_modules) <= MAX_MODULES
    /\ m_status \in [ModuleIds -> ModuleStates]
    /\ m_thdptr \in [ModuleIds -> BOOLEAN] /\ m_freed \in [ModuleIds -> BOOLEAN]
    /\ mpc \in [ModuleIds -> {"off", "gala", "loop", "graceful", "end"}]
    /\ s_do_loop \in [ModuleIds -> BOOLEAN] /\ s_is_started \in [ModuleIds -> BOOLEAN]
    /\ s_is_gracefull \in [ModuleIds -> BOOLEAN] /\ is_canceled \in [ModuleIds -> BOOLEAN]
    /\ pending \in [ModuleIds -> BOOLEAN]
    /\ gs \in GlobalStates /\ s_gl \in Levels /\ gs_lock \in ModuleIds \cup {NoModule}
    /\ job \in Jobs /\ left \in 0..s_n_modules /\ st \in Results
=============================================================================
