------------------------------ MODULE Signals ------------------------------
(***************************************************************************)
(* The signal thread (signal.c): every other thread blocks all signals, and *)
(* this one takes them with sigwait() and calls the handlers that          *)
(* mccp_signal() has put into its table.                                   *)
(*                                                                         *)
(* mccp_signal() changes the table and m_sigset under m_lock and sends      *)
(* SIGUSR2 to make the thread look at them; the thread reads both without   *)
(* m_lock where it waits and where it calls.  A signal that is pending and  *)
(* not in its mask gets what the system does by default: the process ends.  *)
(***************************************************************************)
EXTENDS Integers

CONSTANTS
  Signums,   \* the signals that are handled
  SIGUSR2,   \* the one that interrupts sigwait()
  Handlers,  \* the handlers that are installed
  NULL,
  NSends,    \* bound: the signals that arrive
  NChanges   \* bound: the calls of mccp_signal()

AllSignals == Signums \cup {SIGUSR2}

ASSUME SignalsAssumption ==
  /\ SIGUSR2 \notin Signums /\ NULL \notin Handlers
  /\ NSends \in Nat /\ NChanges \in Nat

VARIABLES
  m_sigprocs,  \* the handlers
  m_sigset,    \* the signals to wait for
  mask,        \* the signals the thread blocks
  waitset,     \* those its sigwait() waits for
  sigpending,  \* those that have arrived
  m_do_loop,
  spc,         \* where the thread is
  sig,         \* the signal it handles
  process,     \* "runs", "killed" by default, "crashed" in a call of NULL, "exited"
  sent, changed

signalThreadVars == <<mask, waitset, spc, sig>>
tableVars_       == <<m_sigprocs, m_sigset, m_do_loop>>
signalVars == <<signalThreadVars, tableVars_, sigpending, process, sent, changed>>

\* s_create() with no signals and no handlers, started with all blocked
SignalsInit ==
    /\ m_sigprocs = [s \in Signums |-> NULL] /\ m_sigset = {} /\ m_do_loop = TRUE
    /\ mask = AllSignals /\ waitset = {} /\ sigpending = {}
    /\ spc = "top" /\ sig = SIGUSR2 /\ process = "runs" /\ sent = 0 /\ changed = 0
-----------------------------------------------------------------------------
SGoTo(place) == spc' = place

\* a variable that is read no more gets its first value back
SReturns == spc' = "top" /\ sig' = SIGUSR2

\* the thread blocks what it waits for, or ends
Top ==
    /\ spc = "top"
    /\ IF m_do_loop
       THEN /\ m_sigset' = m_sigset \cup {SIGUSR2} /\ mask' = m_sigset \cup {SIGUSR2}
            /\ SGoTo("wait")
       ELSE SGoTo("off") /\ UNCHANGED <<m_sigset, mask>>
    /\ UNCHANGED <<m_sigprocs, m_do_loop, waitset, sig, sigpending, process, sent, changed>>

\* sigwait() reads m_sigset, without the lock
Wait ==
    /\ spc = "wait" /\ waitset' = m_sigset /\ SGoTo("sigwait")
    /\ UNCHANGED <<tableVars_, mask, sig, sigpending, process, sent, changed>>

Take(s) ==
    /\ spc = "sigwait" /\ s \in sigpending \cap waitset
    /\ sig' = s /\ sigpending' = sigpending \ {s} /\ waitset' = {} /\ SGoTo("taken")
    /\ UNCHANGED <<tableVars_, mask, process, sent, changed>>

HandlerOf(s) == IF s = SIGUSR2 THEN NULL ELSE m_sigprocs[s]

\* the table is read a first time: is there a handler?
Look ==
    /\ spc = "taken"
    /\ IF HandlerOf(sig) # NULL THEN SGoTo("call") /\ UNCHANGED sig ELSE SReturns
    /\ UNCHANGED <<tableVars_, mask, waitset, sigpending, process, sent, changed>>

\* and a second time, for the call, which goes on at place
Call(h, place) ==
    /\ spc = "call" /\ HandlerOf(sig) = h
    /\ IF h = NULL THEN process' = "crashed" /\ UNCHANGED spc ELSE SGoTo(place) /\ UNCHANGED process
    /\ UNCHANGED <<tableVars_, mask, waitset, sig, sigpending, sent, changed>>

\* a signal that is not blocked
DefaultAction ==
    /\ \E s \in sigpending : s \notin mask
    /\ process' = "killed"
    /\ UNCHANGED <<signalThreadVars, tableVars_, sigpending, sent, changed>>

Send(s) ==
    /\ sent < NSends /\ sent' = sent + 1 /\ sigpending' = sigpending \cup {s}
    /\ UNCHANGED <<signalThreadVars, tableVars_, process, changed>>

\* Faulty: the thread is not told of the change.
Notify_Not == sigpending

Notify == sigpending \cup {SIGUSR2}

\* mccp_signal(): new is a handler, SIG_IGN or SIG_DFL
Signal(signum, new) ==
    /\ m_sigprocs' = [m_sigprocs EXCEPT ![signum] = IF new \in Handlers THEN new ELSE NULL]
    /\ m_sigset' = IF new = "SIG_DFL" THEN m_sigset \ {signum} ELSE m_sigset \cup {signum}
    /\ sigpending' = Notify
    /\ UNCHANGED <<signalThreadVars, m_do_loop, process, sent>>

\* s_once_final_proc() stops the thread; SIGUSR2 stays pending as everybody
\* blocks it
StopSignals ==
    /\ m_do_loop' = FALSE /\ sigpending' = Notify
    /\ UNCHANGED <<signalThreadVars, m_sigprocs, m_sigset, process, sent, changed>>

SignalThread(place) ==
    \/ Top \/ Wait \/ (\E s \in AllSignals : Take(s)) \/ Look
    \/ \E h \in Handlers \cup {NULL} : Call(h, place)
-----------------------------------------------------------------------------
SignalsTypeOK ==
    /\ m_sigprocs \in [Signums -> Handlers \cup {NULL}] /\ m_sigset \subseteq AllSignals
    /\ mask \subseteq AllSignals /\ waitset \subseteq AllSignals /\ sigpending \subseteq AllSignals
    /\ m_do_loop \in BOOLEAN /\ sig \in AllSignals
    /\ spc \in {"top", "wait", "sigwait", "taken", "call", "handler", "decide", "asleep", "off"}
    /\ process \in {"runs", "killed", "crashed", "exited"} /\ sent \in 0..NSends /\ changed \in 0..NChanges
=============================================================================
