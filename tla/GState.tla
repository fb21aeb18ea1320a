------------------------------- MODULE GState -------------------------------
(***************************************************************************)
(* mccp_global_state: the life-cycle state of the process (gstate.c).      *)
(*                                                                         *)
(* One mutex protects the state and the shutdown grace level; everybody    *)
(* who waits, for whatever state, waits on the same condition.  As in      *)
(* CBuffer an action is one section between getting s_lck and releasing    *)
(* it, and s_lck is explicit because a thread canceled in                  *)
(* mccp_cond_wait() keeps it until its handler calls the janitor.          *)
(***************************************************************************)
EXTENDS Integers, FiniteSets

CONSTANTS
  Threads,   \* the threads of the process
  NoThread,  \* nobody holds s_lck
  Ops,       \* the operations the clients use
  Targets,   \* the states the clients set and wait for
  Levels,    \* SHUTDOWN_RIGHT_NOW and SHUTDOWN_GRACEFULLY
  NoLevel,   \* SHUTDOWN_UNKNOWN
  NoCall,    \* a thread that has not called yet
  NoResult   \* the result of a call that has not returned

\* mccp_global_state_t
UNKNOWN          == 0
INITIALIZING     == 1
INITIALIZED      == 2
STARTING         == 3
STARTED          == 4
REQUEST_SHUTDOWN == 5
ACCEPT_SHUTDOWN  == 6
SHUTTINGDOWN     == 7
SHUTDOWN         == 8
FINALIZING       == 9
FINALIZED        == 10

GlobalStates == UNKNOWN .. FINALIZED

ASSUME GStateAssumption ==
  /\ NoThread \notin Threads
  /\ NoLevel \notin Levels
  /\ Targets \subseteq Int

VARIABLES
  gs,     \* s_gs
  gl,     \* s_gl
  s_lck,  \* who holds s_lck between two steps
  pc,     \* where each thread is
  call,   \* the last call of each thread
  ret     \* what that call returned

vars == <<gs, gl, s_lck, pc, call, ret>>

\* IS_MCCP_GLOBAL_STATE_SHUTDOWN
IsShutdown(s) == s >= ACCEPT_SHUTDOWN

\* IS_VALID_MCCP_GLOBAL_STATE
IsValid(s) == s > UNKNOWN /\ s <= FINALIZED

\* A call: its operation, its state or level, and whether nsec >= 0.
CallType(ops, args, flags) == [op : ops, arg : args, timed : flags]

Calls ==
  {c \in      CallType({"set"}, Targets, {FALSE})
         \cup CallType({"wait_for"}, Targets, BOOLEAN)
         \cup CallType({"request"}, Levels \cup {NoLevel}, {FALSE})
         \cup CallType({"get", "reset"}, {UNKNOWN}, {FALSE})
     : c.op \in Ops}

\* A result: its code and the state and the level reported with it.
Result(code, s, g) == [code |-> code, state |-> s, level |-> g]
Codes == {"OK", "TIMEDOUT", "INVALID_ARGS", "INVALID_STATE_TRANSITION",
          "NOT_OPERATIONAL", "ANY_FAILURES"}
Results == [code : Codes, state : GlobalStates, level : Levels \cup {NoLevel}]

PCs == {"idle", "entry", "waiting", "recheck", "canceled"}

Init ==
  /\ gs = UNKNOWN
  /\ gl = NoLevel
  /\ s_lck = NoThread
  /\ pc = [t \in Threads |-> "idle"]
  /\ call = [t \in Threads |-> NoCall]
  /\ ret = [t \in Threads |-> NoResult]
-----------------------------------------------------------------------------
\* t has s_lck and executes op, for the first time or after a wakeup.
Locked(t, op) ==
  /\ pc[t] \in {"entry", "recheck"}
  /\ call[t].op = op
  /\ s_lck = NoThread

\* Faulty: one waiter is awakened, whatever it waits for.
Awakened_Signal ==
  IF \E u \in Threads : pc[u] = "waiting"
  THEN [pc EXCEPT ![CHOOSE u \in Threads : pc[u] = "waiting"] = "recheck"]
  ELSE pc

\* mccp_cond_notify(&s_cond, true): every waiter goes to its recheck label.
Awakened ==
  [u \in Threads |-> IF pc[u] = "waiting" THEN "recheck" ELSE pc[u]]

Returns(t, code, s, g) ==
  /\ pc' = [pc EXCEPT ![t] = "idle"]
  /\ ret' = [ret EXCEPT ![t] = Result(code, s, g)]

Enter(t) ==
  /\ pc[t] = "idle"
  /\ \E c \in Calls : call' = [call EXCEPT ![t] = c]
  /\ pc' = [pc EXCEPT ![t] = "entry"]
  /\ ret' = [ret EXCEPT ![t] = NoResult]
  /\ UNCHANGED <<gs, gl, s_lck>>

\* The argument is checked before s_lck is taken.
InvalidArgs(t) ==
  /\ pc[t] = "entry"
  /\ \/ call[t].op \in {"set", "wait_for"} /\ ~IsValid(call[t].arg)
     \/ call[t].op = "request" /\ call[t].arg = NoLevel
  /\ Returns(t, "INVALID_ARGS", UNKNOWN, NoLevel)
  /\ UNCHANGED <<gs, gl, s_lck, call>>

\* Faulty: any valid state may be set.
MaySet_Any(s) == TRUE

\* s_is_valid_state(): one way only.
MaySet(s) == s >= gs

Set(t) ==
  /\ Locked(t, "set")
  /\ IsValid(call[t].arg)
  /\ MaySet(call[t].arg)
  /\ gs' = call[t].arg
  /\ pc' = [Awakened EXCEPT ![t] = "idle"]
  /\ ret' = [ret EXCEPT ![t] = Result("OK", UNKNOWN, NoLevel)]
  /\ UNCHANGED <<gl, s_lck, call>>

SetRejected(t) ==
  /\ Locked(t, "set")
  /\ IsValid(call[t].arg)
  /\ ~MaySet(call[t].arg)
  /\ Returns(t, "INVALID_STATE_TRANSITION", UNKNOWN, NoLevel)
  /\ UNCHANGED <<gs, gl, s_lck, call>>

Get(t) ==
  /\ Locked(t, "get")
  /\ Returns(t, "OK", gs, NoLevel)
  /\ UNCHANGED <<gs, gl, s_lck, call>>

\* Faulty: a shutdown does not end the wait for a later state.
MustWait_ThroughShutdown(s) == gs < s

\* A waiter for s stays as long as s is ahead and no shutdown was accepted.
MustWait(s) == gs < s /\ ~IsShutdown(gs)

\* The result once there is nothing to wait for.
WaitCode(s) ==
  IF gs < s /\ IsShutdown(gs) /\ ~IsShutdown(s) THEN "NOT_OPERATIONAL" ELSE "OK"

WaitForReturns(t) ==
  /\ Locked(t, "wait_for")
  /\ IsValid(call[t].arg)
  /\ ~MustWait(call[t].arg)
  /\ Returns(t, WaitCode(call[t].arg), gs, gl)
  /\ UNCHANGED <<gs, gl, s_lck, call>>

WaitForWaits(t) ==
  /\ Locked(t, "wait_for")
  /\ IsValid(call[t].arg)
  /\ MustWait(call[t].arg)
  /\ pc' = [pc EXCEPT ![t] = "waiting"]
  /\ UNCHANGED <<gs, gl, s_lck, call, ret>>
-----------------------------------------------------------------------------
\* Faulty: a second request is taken although the first one is pending.
MayRequest_Again == ~IsShutdown(gs)

MayRequest == ~IsShutdown(gs) /\ gs # REQUEST_SHUTDOWN

\* The request is published and the caller waits for its acceptance.  The
\* state is still below REQUEST_SHUTDOWN here, so s_is_valid_state() holds.
Request(t) ==
  /\ Locked(t, "request") /\ pc[t] = "entry"
  /\ call[t].arg # NoLevel
  /\ MayRequest
  /\ gs' = REQUEST_SHUTDOWN
  /\ gl' = call[t].arg
  /\ pc' = [Awakened EXCEPT ![t] = "waiting"]
  /\ UNCHANGED <<s_lck, call, ret>>

\* A shutdown was requested before: ret still has its initial value.
RequestIgnored(t) ==
  /\ Locked(t, "request") /\ pc[t] = "entry"
  /\ call[t].arg # NoLevel
  /\ ~MayRequest
  /\ Returns(t, "ANY_FAILURES", UNKNOWN, NoLevel)
  /\ UNCHANGED <<gs, gl, s_lck, call>>

\* The requester was awakened and has s_lck again.
RequestAccepted(t) ==
  /\ Locked(t, "request") /\ pc[t] = "recheck"
  /\ IsShutdown(gs)
  /\ Returns(t, "OK", UNKNOWN, NoLevel)
  /\ UNCHANGED <<gs, gl, s_lck, call>>

RequestWaits(t) ==
  /\ Locked(t, "request") /\ pc[t] = "recheck"
  /\ ~IsShutdown(gs)
  /\ pc' = [pc EXCEPT ![t] = "waiting"]
  /\ UNCHANGED <<gs, gl, s_lck, call, ret>>
-----------------------------------------------------------------------------
\* The timed wait of wait_for() is over; cur_sptr and cur_gptr are not written.
Expires(t) ==
  /\ pc[t] = "waiting"
  /\ call[t].timed
  /\ s_lck = NoThread
  /\ Returns(t, "TIMEDOUT", UNKNOWN, NoLevel)
  /\ UNCHANGED <<gs, gl, s_lck, call>>

SpuriousWakeup(t) ==
  /\ pc[t] = "waiting"
  /\ pc' = [pc EXCEPT ![t] = "recheck"]
  /\ UNCHANGED <<gs, gl, s_lck, call, ret>>

\* A thread canceled in mccp_cond_wait() enters its handler with s_lck held.
Cancel(t) ==
  /\ "cancel" \in Ops
  /\ pc[t] = "waiting"
  /\ s_lck = NoThread
  /\ s_lck' = t
  /\ pc' = [pc EXCEPT ![t] = "canceled"]
  /\ UNCHANGED <<gs, gl, call, ret>>

\* Faulty: the handler does not call the janitor.
CancelJanitor_Forgotten(t) ==
  /\ pc[t] = "canceled"
  /\ pc' = [pc EXCEPT ![t] = "idle"]
  /\ UNCHANGED <<gs, gl, s_lck, call, ret>>

CancelJanitor(t) ==
  /\ pc[t] = "canceled"
  /\ s_lck' = NoThread
  /\ pc' = [pc EXCEPT ![t] = "idle"]
  /\ UNCHANGED <<gs, gl, call, ret>>

\* mccp_global_state_reset(), for unit tests: nobody is notified and the grace
\* level of an earlier shutdown stays.
Reset(t) ==
  /\ Locked(t, "reset")
  /\ gs' = UNKNOWN
  /\ Returns(t, "OK", UNKNOWN, NoLevel)
  /\ UNCHANGED <<gl, s_lck, call>>

Section(t) ==
  \/ InvalidArgs(t)
  \/ Set(t) \/ SetRejected(t) \/ Get(t) \/ Reset(t)
  \/ WaitForReturns(t) \/ WaitForWaits(t)
  \/ Request(t) \/ RequestIgnored(t)
  \/ RequestAccepted(t) \/ RequestWaits(t)

Next ==
  \E t \in Threads :
    \/ Enter(t) \/ Section(t) \/ Expires(t) \/ SpuriousWakeup(t)
    \/ Cancel(t) \/ CancelJanitor(t)

Spec == Init /\ [][Next]_vars

(***************************************************************************)
(* As in CBuffer: running threads run, armed timers fire, cleanup handlers *)
(* finish.  Calls, cancellation and spurious wakeups are not fair.         *)
(***************************************************************************)
FairSpec ==
  /\ Spec
  /\ \A t \in Threads :
       /\ WF_vars(Section(t))
       /\ WF_vars(Expires(t))
       /\ WF_vars(CancelJanitor(t))
-----------------------------------------------------------------------------
(* Type invariant. *)
TypeOK ==
  /\ gs \in GlobalStates
  /\ gl \in Levels \cup {NoLevel}
  /\ s_lck \in Threads \cup {NoThread}
  /\ pc \in [Threads -> PCs]
  /\ call \in [Threads -> Calls \cup {NoCall}]
  /\ \A t \in Threads :
       pc[t] # "idle" => call[t] \in Calls /\ ret[t] = NoResult
  /\ ret \in [Threads -> Results \cup {NoResult}]

Answered(t, op) ==
  pc[t] = "idle" /\ ret[t] # NoResult /\ call[t].op = op /\ ret[t].code = "OK"

(* What a waiter was told is true for ever: the process is in the state it *)
(* asked for, or in a shutdown state, and in no state before the one       *)
(* reported (mccp_global_state_wait_for, s_is_valid_state).                *)
ReportsStayTrue ==
  \A t \in Threads :
    Answered(t, "wait_for") =>
      /\ gs >= ret[t].state
      /\ ret[t].state >= call[t].arg \/ IsShutdown(ret[t].state)

(* Everybody who learns of a shutdown learns the same grace level, however *)
(* many threads request one (mccp_global_state_request_shutdown).          *)
LevelIsAgreed ==
  \A t, u \in Threads :
    /\ Answered(t, "wait_for") /\ ret[t].state >= REQUEST_SHUTDOWN
    /\ Answered(u, "wait_for") /\ ret[u].state >= REQUEST_SHUTDOWN
    => ret[t].level = ret[u].level

(* Nobody sleeps through the state it waits for, although states may be    *)
(* skipped and all waiters share one condition.                            *)
NobodyMissesAState ==
  \A t \in Threads :
    pc[t] = "waiting" =>
      IF call[t].op = "request" THEN ~IsShutdown(gs) ELSE MustWait(call[t].arg)

(* At most one thread is blocked in a shutdown request, its level is the   *)
(* one published, and it waits in no state but REQUEST_SHUTDOWN.           *)
Requesting(t) == pc[t] \in {"waiting", "recheck"} /\ call[t].op = "request"
OneRequester ==
  \A t \in Threads :
    Requesting(t) =>
      /\ gs >= REQUEST_SHUTDOWN
      /\ gl = call[t].arg
      /\ \A u \in Threads \ {t} : ~Requesting(u)

(* s_lck is kept by a canceled thread only, so the janitor's unlock        *)
(* releases what its caller holds.                                         *)
JanitorOwnsLock == \A t \in Threads : s_lck = t <=> pc[t] = "canceled"

(* A state reached releases those who wait for it, and an accepted         *)
(* shutdown releases everybody, the requester included.                    *)
WaitersFollow ==
  \A t \in Threads :
    []<>~(/\ pc[t] \notin {"idle", "canceled"}
          /\ \/ call[t].op = "wait_for" /\ gs >= call[t].arg
             \/ IsShutdown(gs))
=============================================================================
