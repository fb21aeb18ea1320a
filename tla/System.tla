------------------------------- MODULE System -------------------------------
(***************************************************************************)
(* The program of check/dummy-main.c: the main thread, which takes the      *)
(* modules through their life, the threads of the modules, and the signal   *)
(* thread, whose handler asks for the shutdown.  The three meet in the      *)
(* global state, of which GState models each call; here a call is a step,   *)
(* and only the request for a shutdown sleeps.                             *)
(***************************************************************************)
EXTENDS Modules, Signals

VARIABLES
  main,           \* where the main thread is
  s_got_term_sig,
  seen,           \* the global state the handler has read
  said            \* what the program printed at its end

mainVars == <<main, s_got_term_sig, seen, said>>
vars == <<moduleVars, signalVars, mainVars>>

Init ==
    /\ ModulesInit /\ SignalsInit
    /\ main = "ctors" /\ s_got_term_sig = FALSE /\ seen = UNKNOWN /\ said = "nothing"

Running == process = "runs"

\* the order of the program
MainGoes(from, to) == main = from /\ main' = to
-----------------------------------------------------------------------------
(* The main thread *)

\* the constructors of the modules
Ctor(name) ==
    /\ main = "ctors" /\ Register(name) /\ st' = "OK"
    /\ UNCHANGED <<signalVars, mainVars>>

CtorsDone ==
    /\ MainGoes("ctors", "signals") /\ s_n_modules > 0
    /\ UNCHANGED <<moduleVars, signalVars, s_got_term_sig, seen, said>>

InstallHandler(s) ==
    /\ main = "signals" /\ m_sigprocs[s] = NULL
    /\ Signal(s, "s_term_handler")
    /\ UNCHANGED <<moduleVars, mainVars, changed>>

\* mccp_global_state_set()
SetState(s) == gs_lock = NoModule /\ gs' = s /\ UNCHANGED s_gl
UnchangedButStateAndJob == UNCHANGED <<signalVars, threadVars, flagVars, tableVars, s_got_term_sig, seen>>

\* mccp_module_initialize_all()
InitializeAll ==
    /\ MainGoes("signals", "initialize") /\ \A s \in Signums : m_sigprocs[s] # NULL
    /\ SetState(INITIALIZING) /\ Begin("initialize")
    /\ UNCHANGED said /\ UnchangedButStateAndJob

FinalizeAll == main' = "finalize" /\ job' = "finalize" /\ left' = s_n_modules /\ UNCHANGED st

\* the result of the last call, and no signal yet
GoesOn == st = "OK" /\ ~s_got_term_sig

StartAll ==
    /\ main = "initialize" /\ JobDone
    /\ IF GoesOn
       THEN main' = "start" /\ SetState(STARTING) /\ Begin("start")
       ELSE FinalizeAll /\ UNCHANGED stateVars
    /\ UNCHANGED said /\ UnchangedButStateAndJob

\* the flag is read, and after that the gala is opened
AllStarted ==
    /\ main = "start" /\ JobDone
    /\ IF GoesOn THEN main' = "open" /\ UNCHANGED jobVars ELSE FinalizeAll
    /\ UNCHANGED <<stateVars, said>> /\ UnchangedButStateAndJob

Open ==
    /\ MainGoes("open", "requests") /\ SetState(STARTED) /\ job' = "none"
    /\ UNCHANGED <<left, st, said>> /\ UnchangedButStateAndJob

\* wait_for_shutdown_request() and ACCEPT_SHUTDOWN, which wakes the requester
Accept ==
    /\ MainGoes("requests", "accepted") /\ gs >= REQUEST_SHUTDOWN
    /\ SetState(ACCEPT_SHUTDOWN)
    /\ UNCHANGED <<jobVars, said>> /\ UnchangedButStateAndJob

ShutdownAll ==
    /\ MainGoes("accepted", "shutdown") /\ Begin("shutdown")
    /\ UNCHANGED <<stateVars, said>> /\ UnchangedButStateAndJob

WaitAll ==
    /\ main = "shutdown" /\ JobDone
    /\ IF st = "OK" THEN main' = "wait" /\ Begin("wait") ELSE FinalizeAll
    /\ UNCHANGED <<stateVars, said>> /\ UnchangedButStateAndJob

WaitedAll ==
    /\ main = "wait" /\ JobDone
    /\ \/ st = "OK" /\ said' = "Finished cleanly" /\ FinalizeAll
       \/ st = "TIMEDOUT" /\ main' = "stop" /\ Begin("stop") /\ UNCHANGED said
    /\ UNCHANGED stateVars /\ UnchangedButStateAndJob

StoppedAll ==
    /\ MainGoes("stop", "wait again") /\ JobDone /\ Begin("wait")
    /\ UNCHANGED <<stateVars, said>> /\ UnchangedButStateAndJob

WaitedAgain ==
    /\ main = "wait again" /\ JobDone /\ FinalizeAll
    /\ said' = IF st = "OK" THEN "Stopped forcibly" ELSE said
    /\ UNCHANGED stateVars /\ UnchangedButStateAndJob

\* main() returns, the destructors stop the signal thread
Returns ==
    /\ MainGoes("finalize", "dtors") /\ JobDone /\ job' = "none"
    /\ StopSignals
    /\ UNCHANGED <<threadVars, flagVars, tableVars, stateVars, left, st, s_got_term_sig, seen, said>>

\* and wait for it
Exits ==
    /\ main = "dtors" /\ spc = "off" /\ process' = "exited"
    /\ UNCHANGED <<moduleVars, signalThreadVars, tableVars_, sigpending, sent, changed, mainVars>>

MainJob ==
    /\ main \in {"initialize", "start", "shutdown", "stop", "wait", "wait again", "finalize"}
    /\ JobStep /\ UNCHANGED <<signalVars, mainVars>>

MainThread ==
    \/ CtorsDone \/ (\E s \in Signums : InstallHandler(s))
    \/ InitializeAll \/ StartAll \/ AllStarted \/ Open \/ Accept \/ ShutdownAll \/ WaitAll
    \/ WaitedAll \/ StoppedAll \/ WaitedAgain \/ Returns \/ Exits \/ MainJob
-----------------------------------------------------------------------------
(* The signal handlers *)

\* s_term_handler() reads the global state
HandlerReads ==
    /\ spc = "handler" /\ SGoTo("decide") /\ seen' = gs
    /\ UNCHANGED <<moduleVars, tableVars_, mask, waitset, sig, sigpending, process, sent, changed, main,
                   s_got_term_sig, said>>

\* and asks for the shutdown, or leaves a note
LevelOf(s) == IF s = "SIGQUIT" THEN "RIGHT_NOW" ELSE "GRACEFULLY"

HandlerAsks ==
    /\ spc = "decide" /\ seen >= STARTED
    /\ IF gs < REQUEST_SHUTDOWN
       THEN gs' = REQUEST_SHUTDOWN /\ s_gl' = LevelOf(sig) /\ SGoTo("asleep")
            /\ UNCHANGED sig
       ELSE SReturns /\ UNCHANGED stateVars
    /\ seen' = UNKNOWN
    /\ UNCHANGED <<threadVars, flagVars, tableVars, jobVars, tableVars_, mask, waitset, sigpending,
                   process, sent, changed, main, s_got_term_sig, said>>

HandlerNotes ==
    /\ spc = "decide" /\ seen < STARTED
    /\ s_got_term_sig' = TRUE /\ SReturns /\ seen' = UNKNOWN
    /\ UNCHANGED <<moduleVars, tableVars_, mask, waitset, sigpending, process, sent, changed, main, said>>

\* Faulty: the requester sleeps until the program is shut down.
IsShutdown_Later == gs > ACCEPT_SHUTDOWN

\* IS_MCCP_GLOBAL_STATE_SHUTDOWN()
IsShutdown == gs >= ACCEPT_SHUTDOWN

HandlerWakes ==
    /\ spc = "asleep" /\ IsShutdown /\ SReturns
    /\ UNCHANGED <<moduleVars, tableVars_, mask, waitset, sigpending, process, sent, changed, mainVars>>

\* the lock of gstate.c can be taken, which a canceled thread may hold
Handler == gs_lock = NoModule /\ (HandlerReads \/ HandlerAsks \/ HandlerNotes \/ HandlerWakes)

\* the handler that is installed for a while only returns
HandlerPlace == IF m_sigprocs[sig] = "s_term_handler" THEN "handler" ELSE "top"

TheSignalThread ==
    \/ Handler
    \/ SignalThread(IF sig \in Signums THEN HandlerPlace ELSE "top") /\ UNCHANGED <<moduleVars, mainVars>>

\* another thread calls mccp_signal() while the program runs
Change(s, new) ==
    /\ main = "requests" /\ changed < NChanges /\ changed' = changed + 1
    /\ Signal(s, new) /\ UNCHANGED <<moduleVars, mainVars>>

Threads == \E m \in ModuleIds : ModuleThread(m) /\ UNCHANGED <<signalVars, mainVars>>

Next ==
    Running /\
    \/ \E name \in Names : Ctor(name)
    \/ MainThread \/ TheSignalThread \/ Threads
    \/ \E s \in Signums : Send(s) /\ UNCHANGED <<moduleVars, mainVars>>
    \/ DefaultAction /\ UNCHANGED <<moduleVars, mainVars>>
    \/ \E s \in Signums, new \in Handlers \cup {"SIG_IGN", "SIG_DFL"} : Change(s, new)

Spec == Init /\ [][Next]_vars

(* Every thread runs. *)
FairSpec ==
    /\ Spec
    /\ WF_vars(Running /\ MainThread)
    /\ WF_vars(Running /\ TheSignalThread)
    /\ \A m \in ModuleIds : WF_vars(Running /\ ModuleThread(m) /\ UNCHANGED <<signalVars, mainVars>>)
-----------------------------------------------------------------------------
(* Every variable has its type. *)
SystemTypeOK ==
    /\ ModulesTypeOK /\ SignalsTypeOK
    /\ main \in {"ctors", "signals", "initialize", "start", "open", "requests", "accepted", "shutdown", "wait",
                 "stop", "wait again", "finalize", "dtors"}
    /\ s_got_term_sig \in BOOLEAN /\ seen \in GlobalStates
    /\ said \in {"nothing", "Finished cleanly", "Stopped forcibly"}

(* What the program says at its end is so: no module runs then, each is told *)
(* apart by its status as shut down or stopped, and "cleanly" means that none *)
(* was canceled.  No module is destroyed while its thread runs.              *)
TheEndIsTold ==
    /\ \A m \in ModuleIds :
          /\ m_status[m] \in {"SHUTDOWN", "STOPPED"} =>
                mpc[m] = "off" /\ (m_status[m] = "STOPPED" <=> is_canceled[m])
          /\ m_freed[m] => mpc[m] = "off"
    /\ said # "nothing" => \A m \in 1..s_n_modules : m_status[m] \in {"SHUTDOWN", "STOPPED"}
    /\ said = "Finished cleanly" => \A m \in ModuleIds : ~is_canceled[m]

(* A signal that mccp_signal() asks for comes to be waited for: the thread   *)
(* does not sleep on with its old set.                                      *)
ChangesAreSeen ==
    \A s \in Signums :
        (s \in m_sigset) ~> (s \in mask \cap waitset \/ s \notin m_sigset \/ ~m_do_loop \/ ~Running)

(* A program that was asked to shut down ends, and so does one that was told *)
(* so before it has started its modules, or that leaves main(): nobody       *)
(* sleeps for ever, the requester in the signal thread included, and no      *)
(* canceled thread keeps the lock of the global state.                       *)
TheProgramEnds ==
    (gs >= REQUEST_SHUTDOWN \/ main = "dtors" \/ (s_got_term_sig /\ main \in {"initialize", "start"}))
        ~> ~Running
=============================================================================
