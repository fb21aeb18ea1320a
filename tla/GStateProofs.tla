---------------------------- MODULE GStateProofs ----------------------------
(***************************************************************************)
(* What holds of the global state tracker for any number of threads, any   *)
(* operations, states and levels its clients use.                          *)
(***************************************************************************)
EXTENDS GState, TLAPS

(* The arguments of a call have the type its operation expects.            *)
LEMMA CallsAreTyped ==
  ASSUME NEW c \in Calls
  PROVE  /\ c.op \in Ops
         /\ c.op # "request" => c.arg \in Int
         /\ c.op = "request" => c.arg \in Levels \cup {NoLevel}
<1>1. CASE c \in CallType({"set"}, Targets, {FALSE})
  BY <1>1, GStateAssumption DEF Calls, CallType
<1>2. CASE c \in CallType({"wait_for"}, Targets, BOOLEAN)
  BY <1>2, GStateAssumption DEF Calls, CallType
<1>3. CASE c \in CallType({"request"}, Levels \cup {NoLevel}, {FALSE})
  BY <1>3 DEF Calls, CallType
<1>4. CASE c \in CallType({"get", "reset"}, {UNKNOWN}, {FALSE})
  BY <1>4 DEF Calls, CallType, UNKNOWN
<1>5. QED
  BY <1>1, <1>2, <1>3, <1>4 DEF Calls

USE DEF UNKNOWN, INITIALIZING, INITIALIZED, STARTING, STARTED,
        REQUEST_SHUTDOWN, ACCEPT_SHUTDOWN, SHUTTINGDOWN, SHUTDOWN,
        FINALIZING, FINALIZED
-----------------------------------------------------------------------------
(***************************************************************************)
(* The first invariant needs no assumption on the clients: it holds with   *)
(* the reset of the unit tests too.                                        *)
(***************************************************************************)
IInv == TypeOK /\ JanitorOwnsLock /\ NobodyMissesAState

(* A call that returns without changing the state.                         *)
LEMMA QuietReturn ==
  ASSUME IInv, NEW t \in Threads, NEW code \in Codes,
         NEW s \in GlobalStates, NEW g \in Levels \cup {NoLevel},
         pc[t] \in {"entry", "recheck", "waiting"},
         Returns(t, code, s, g),
         UNCHANGED <<gs, gl, s_lck, call>>
  PROVE  IInv'
<1>1. Result(code, s, g) \in Results
  BY DEF Result, Results
<1>2. TypeOK'
  BY <1>1 DEF IInv, TypeOK, Returns, PCs
<1>3. JanitorOwnsLock'
  BY DEF IInv, TypeOK, JanitorOwnsLock, Returns
<1>4. NobodyMissesAState'
  BY DEF IInv, TypeOK, NobodyMissesAState, MustWait, Returns
<1>5. QED
  BY <1>2, <1>3, <1>4 DEF IInv

(* A step of a thread that leaves the state, the calls and the results.    *)
LEMMA QuietMove ==
  ASSUME IInv, NEW t \in Threads, NEW where \in PCs,
         pc[t] # "idle",
         pc' = [pc EXCEPT ![t] = where],
         s_lck' \in Threads \cup {NoThread},
         \A u \in Threads : s_lck' = u <=> pc'[u] = "canceled",
         where = "waiting" =>
           IF call[t].op = "request" THEN ~IsShutdown(gs)
           ELSE MustWait(call[t].arg),
         UNCHANGED <<gs, gl, call, ret>>
  PROVE  IInv'
<1>1. TypeOK'
  BY DEF IInv, TypeOK, PCs
<1>2. JanitorOwnsLock'
  BY DEF JanitorOwnsLock
<1>3. NobodyMissesAState'
  BY DEF IInv, TypeOK, NobodyMissesAState, MustWait
<1>4. QED
  BY <1>1, <1>2, <1>3 DEF IInv

(* The initial state.                                                      *)
LEMMA InitIInv == Init => IInv
BY GStateAssumption
DEF Init, IInv, TypeOK, JanitorOwnsLock, NobodyMissesAState, GlobalStates, PCs

(* One step per action of Next.                                            *)
LEMMA NextIInv == IInv /\ [Next]_vars => IInv'
<1> SUFFICES ASSUME IInv, [Next]_vars PROVE IInv'
  OBVIOUS
<1>0. /\ TypeOK /\ gs \in GlobalStates /\ gl \in Levels \cup {NoLevel}
      /\ UNKNOWN \in GlobalStates /\ NoLevel \in Levels \cup {NoLevel}
      /\ \A u \in Threads : s_lck = u <=> pc[u] = "canceled"
      /\ \A u \in Threads : pc[u] # "idle" => call[u] \in Calls
      /\ \A u \in Threads : NoThread # u
  BY GStateAssumption DEF IInv, TypeOK, JanitorOwnsLock, GlobalStates
<1>1. ASSUME NEW t \in Threads, Enter(t)
      PROVE  IInv'
  BY <1>1 DEF Enter, IInv, TypeOK, JanitorOwnsLock, NobodyMissesAState,
              MustWait, PCs
<1>2. ASSUME NEW t \in Threads, InvalidArgs(t)
      PROVE  IInv'
  BY <1>0, <1>2, QuietReturn DEF InvalidArgs, Codes
<1>3. ASSUME NEW t \in Threads, Set(t)
      PROVE  IInv'
  <2>1. /\ pc[t] \in {"entry", "recheck"} /\ call[t] \in Calls
        /\ call[t].op = "set" /\ IsValid(call[t].arg)
        /\ gs' = call[t].arg
        /\ pc' = [Awakened EXCEPT ![t] = "idle"]
        /\ ret' = [ret EXCEPT ![t] = Result("OK", UNKNOWN, NoLevel)]
        /\ UNCHANGED <<gl, s_lck, call>>
    BY <1>0, <1>3 DEF Set, Locked
  <2>2. gs' \in GlobalStates
    BY <2>1, CallsAreTyped DEF IsValid, GlobalStates
  <2>3. Result("OK", UNKNOWN, NoLevel) \in Results
    BY <1>0 DEF Result, Results, Codes
  <2>4. pc' \in [Threads -> PCs] /\ \A u \in Threads : pc'[u] # "waiting"
    BY <1>0, <2>1 DEF Awakened, TypeOK, PCs
  <2>5. \A u \in Threads : /\ pc'[u] # "idle" => pc[u] # "idle"
                           /\ pc'[u] = "canceled" <=> pc[u] = "canceled"
    BY <2>1 DEF Awakened
  <2>6. QED
    BY <1>0, <2>1, <2>2, <2>3, <2>4, <2>5
    DEF IInv, TypeOK, JanitorOwnsLock, NobodyMissesAState
<1>4. ASSUME NEW t \in Threads, SetRejected(t)
      PROVE  IInv'
  BY <1>0, <1>4, QuietReturn DEF SetRejected, Locked, Codes
<1>5. ASSUME NEW t \in Threads, Get(t)
      PROVE  IInv'
  BY <1>0, <1>5, QuietReturn DEF Get, Locked, Codes
<1>6. ASSUME NEW t \in Threads, WaitForReturns(t)
      PROVE  IInv'
  <2>1. WaitCode(call[t].arg) \in Codes
    BY DEF WaitCode, Codes
  <2>2. QED
    BY <1>0, <1>6, <2>1, QuietReturn DEF WaitForReturns, Locked
<1>7. ASSUME NEW t \in Threads, WaitForWaits(t)
      PROVE  IInv'
  <2>1. /\ pc' = [pc EXCEPT ![t] = "waiting"] /\ "waiting" \in PCs
        /\ pc[t] \in {"entry", "recheck"} /\ s_lck = NoThread
        /\ call[t].op # "request" /\ MustWait(call[t].arg)
        /\ UNCHANGED <<gs, gl, s_lck, call, ret>>
    BY <1>7 DEF WaitForWaits, Locked, PCs
  <2>2. \A u \in Threads : s_lck' = u <=> pc'[u] = "canceled"
    BY <1>0, <2>1 DEF TypeOK
  <2>3. QED
    BY <1>0, <2>1, <2>2, QuietMove
<1>8. ASSUME NEW t \in Threads, Request(t)
      PROVE  IInv'
  <2>1. /\ pc[t] = "entry" /\ call[t] \in Calls
        /\ call[t].op = "request"
        /\ gs' = REQUEST_SHUTDOWN /\ gl' = call[t].arg
        /\ pc' = [Awakened EXCEPT ![t] = "waiting"]
        /\ UNCHANGED <<s_lck, call, ret>>
    BY <1>0, <1>8 DEF Request, Locked
  <2>2. gs' \in GlobalStates /\ gl' \in Levels \cup {NoLevel}
    BY <2>1, CallsAreTyped DEF GlobalStates
  <2>3. /\ pc' \in [Threads -> PCs]
        /\ \A u \in Threads : pc'[u] = "waiting" => u = t
    BY <1>0, <2>1 DEF Awakened, TypeOK, PCs
  <2>4. \A u \in Threads : /\ pc'[u] # "idle" => pc[u] # "idle"
                           /\ pc'[u] = "canceled" <=> pc[u] = "canceled"
    BY <1>0, <2>1 DEF Awakened, TypeOK
  <2>5. ~IsShutdown(gs')
    BY <2>1 DEF IsShutdown
  <2>6. TypeOK' /\ JanitorOwnsLock'
    BY <1>0, <2>1, <2>2, <2>3, <2>4 DEF TypeOK, JanitorOwnsLock
  <2>7. NobodyMissesAState'
    BY <2>1, <2>3, <2>5 DEF NobodyMissesAState, IsShutdown
  <2>8. QED
    BY <2>6, <2>7 DEF IInv
<1>9. ASSUME NEW t \in Threads, RequestIgnored(t)
      PROVE  IInv'
  BY <1>0, <1>9, QuietReturn DEF RequestIgnored, Locked, Codes
<1>10. ASSUME NEW t \in Threads, RequestAccepted(t)
       PROVE  IInv'
  BY <1>0, <1>10, QuietReturn DEF RequestAccepted, Locked, Codes
<1>11. ASSUME NEW t \in Threads, RequestWaits(t)
       PROVE  IInv'
  <2>1. /\ pc' = [pc EXCEPT ![t] = "waiting"] /\ "waiting" \in PCs
        /\ pc[t] = "recheck"
        /\ call[t].op = "request" /\ ~IsShutdown(gs)
        /\ UNCHANGED <<gs, gl, s_lck, call, ret>>
    BY <1>11 DEF RequestWaits, Locked, PCs
  <2>2. \A u \in Threads : s_lck' = u <=> pc'[u] = "canceled"
    BY <1>0, <2>1 DEF TypeOK
  <2>3. QED
    BY <1>0, <2>1, <2>2, QuietMove DEF TypeOK
<1>12. ASSUME NEW t \in Threads, Expires(t)
       PROVE  IInv'
  BY <1>0, <1>12, QuietReturn DEF Expires, Codes
<1>13. ASSUME NEW t \in Threads, SpuriousWakeup(t)
       PROVE  IInv'
  <2>1. /\ pc' = [pc EXCEPT ![t] = "recheck"] /\ "recheck" \in PCs
        /\ pc[t] = "waiting" /\ UNCHANGED <<gs, gl, s_lck, call, ret>>
    BY <1>13 DEF SpuriousWakeup, PCs
  <2>2. \A u \in Threads : s_lck' = u <=> pc'[u] = "canceled"
    BY <1>0, <2>1 DEF TypeOK
  <2>3. QED
    BY <1>0, <2>1, <2>2, QuietMove DEF TypeOK
<1>14. ASSUME NEW t \in Threads, Cancel(t)
       PROVE  IInv'
  <2>1. /\ pc' = [pc EXCEPT ![t] = "canceled"] /\ "canceled" \in PCs
        /\ pc[t] = "waiting" /\ s_lck = NoThread /\ s_lck' = t
        /\ UNCHANGED <<gs, gl, call, ret>>
    BY <1>14 DEF Cancel, PCs
  <2>2. \A u \in Threads : s_lck' = u <=> pc'[u] = "canceled"
    BY <1>0, <2>1 DEF TypeOK
  <2>3. QED
    BY <1>0, <2>1, <2>2, QuietMove
<1>15. ASSUME NEW t \in Threads, CancelJanitor(t)
       PROVE  IInv'
  <2>1. /\ pc' = [pc EXCEPT ![t] = "idle"] /\ "idle" \in PCs
        /\ pc[t] = "canceled" /\ s_lck' = NoThread
        /\ UNCHANGED <<gs, gl, call, ret>>
    BY <1>15 DEF CancelJanitor, PCs
  <2>2. \A u \in Threads : s_lck' = u <=> pc'[u] = "canceled"
    BY <1>0, <2>1 DEF TypeOK
  <2>3. QED
    BY <1>0, <2>1, <2>2, QuietMove
<1>16. ASSUME NEW t \in Threads, Reset(t)
       PROVE  IInv'
  <2>1. /\ pc[t] \in {"entry", "recheck"} /\ s_lck = NoThread
        /\ pc' = [pc EXCEPT ![t] = "idle"]
        /\ ret' = [ret EXCEPT ![t] = Result("OK", UNKNOWN, NoLevel)]
        /\ gs' = UNKNOWN /\ UNCHANGED <<gl, s_lck, call>>
    BY <1>16 DEF Reset, Locked, Returns
  <2>2. Result("OK", UNKNOWN, NoLevel) \in Results
    BY <1>0 DEF Result, Results, Codes
  <2>3. TypeOK' /\ JanitorOwnsLock'
    BY <1>0, <2>1, <2>2 DEF TypeOK, JanitorOwnsLock, PCs
  <2>4. ASSUME NEW u \in Threads, pc'[u] = "waiting"
        PROVE  IF call'[u].op = "request" THEN ~IsShutdown(gs')
               ELSE MustWait(call[u].arg)'
    <3>1. pc[u] = "waiting"
      BY <1>0, <2>1, <2>4 DEF TypeOK
    <3>2. CASE call[u].op = "request"
      BY <2>1, <3>2 DEF IsShutdown
    <3>3. CASE call[u].op # "request"
      <4>1. gs < call[u].arg
        BY <3>1, <3>3 DEF IInv, NobodyMissesAState, MustWait
      <4>2. call[u].arg \in Int
        BY <1>0, <3>1, <3>3, CallsAreTyped
      <4>3. QED
        BY <1>0, <2>1, <3>3, <4>1, <4>2 DEF MustWait, IsShutdown, GlobalStates
    <3>4. QED
      BY <3>2, <3>3
  <2>5. QED
    BY <2>3, <2>4 DEF IInv, NobodyMissesAState
<1>17. CASE UNCHANGED vars
  BY <1>17 DEF vars, IInv, TypeOK, JanitorOwnsLock, NobodyMissesAState, MustWait
<1>18. QED
  BY <1>1, <1>2, <1>3, <1>4, <1>5, <1>6, <1>7, <1>8, <1>9, <1>10, <1>11, <1>12,
     <1>13, <1>14, <1>15, <1>16, <1>17
  DEF Next, Section

(* Types, whatever states and levels the clients pass.                     *)
THEOREM TypeCorrect == Spec => []TypeOK
<1>1. IInv => TypeOK
  BY DEF IInv
<1>2. QED
  BY InitIInv, NextIInv, <1>1, PTL DEF Spec

(* Nobody sleeps through a state: skipped states, many waiters on one      *)
(* condition, cancellation and the reset included.                         *)
THEOREM NoStateIsMissed == Spec => []NobodyMissesAState
<1>1. IInv => NobodyMissesAState
  BY DEF IInv
<1>2. QED
  BY InitIInv, NextIInv, <1>1, PTL DEF Spec

(* A canceled thread's janitor unlocks a lock that it holds, and nobody     *)
(* else keeps s_lck (mccp_global_state_cancel_janitor).                     *)
THEOREM JanitorIsSound == Spec => []JanitorOwnsLock
<1>1. IInv => JanitorOwnsLock
  BY DEF IInv
<1>2. QED
  BY InitIInv, NextIInv, <1>1, PTL DEF Spec
-----------------------------------------------------------------------------
(***************************************************************************)
(* What the threads learn.  ReportsStayTrue and LevelIsAgreed relate what  *)
(* was reported to different threads at different times; the invariant     *)
(* behind them relates each report to the state and the level of now: the  *)
(* state only grows, and a level reported with a shutdown is the one that  *)
(* is still published, because nothing replaces it once a shutdown was     *)
(* requested.                                                              *)
(***************************************************************************)
ReportsAreCurrent ==
  \A t \in Threads :
    Answered(t, "wait_for") =>
      /\ gs >= ret[t].state
      /\ ret[t].state >= call[t].arg \/ IsShutdown(ret[t].state)
      /\ ret[t].state >= REQUEST_SHUTDOWN => ret[t].level = gl

HInv == ReportsAreCurrent /\ OneRequester

(* Without a reset, the state never goes back, and the level is written    *)
(* only by the step that takes the first shutdown request.                 *)
LEMMA StepsGoForward ==
  ASSUME "reset" \notin Ops, IInv, [Next]_vars
  PROVE  /\ gs' \in GlobalStates /\ gs' >= gs
         /\ gl' = gl \/ gs < REQUEST_SHUTDOWN
<1>1. gs' \in GlobalStates
  BY NextIInv DEF IInv, TypeOK
<1>2. \A t \in Threads : ~Reset(t)
  <2>1. \A t \in Threads : pc[t] # "idle" => call[t].op \in Ops
    BY CallsAreTyped DEF IInv, TypeOK
  <2>2. QED
    BY <2>1 DEF Reset, Locked
<1>3. ASSUME NEW t \in Threads, Request(t)
      PROVE  gs < REQUEST_SHUTDOWN /\ gs' = REQUEST_SHUTDOWN
  BY <1>3 DEF Request, MayRequest, IsShutdown, IInv, TypeOK, GlobalStates
<1>4. gs' >= gs
  BY <1>2, <1>3
  DEF Next, Section, vars, Enter, InvalidArgs, Set, MaySet, SetRejected, Get,
      WaitForReturns, WaitForWaits, RequestIgnored, RequestAccepted,
      RequestWaits, Expires, SpuriousWakeup, Cancel, CancelJanitor,
      IInv, TypeOK, GlobalStates
<1>5. gl' = gl \/ gs < REQUEST_SHUTDOWN
  BY <1>2, <1>3
  DEF Next, Section, vars, Enter, InvalidArgs, Set, SetRejected, Get,
      WaitForReturns, WaitForWaits, RequestIgnored, RequestAccepted,
      RequestWaits, Expires, SpuriousWakeup, Cancel, CancelJanitor
<1>6. QED
  BY <1>1, <1>4, <1>5

(* A thread that has an answer after the step had it before, or got it in  *)
(* WaitForReturns.                                                         *)
LEMMA AnswersComeFromReturns ==
  ASSUME IInv, [Next]_vars, NEW t \in Threads, Answered(t, "wait_for")'
  PROVE  \/ Answered(t, "wait_for") /\ ret'[t] = ret[t] /\ call'[t] = call[t]
         \/ WaitForReturns(t)
<1>0. /\ pc \in [Threads -> PCs] /\ ret \in [Threads -> Results \cup {NoResult}]
      /\ call \in [Threads -> Calls \cup {NoCall}]
  BY DEF IInv, TypeOK
<1>1. CASE UNCHANGED vars
  BY <1>1 DEF vars, Answered
<1>2. ASSUME NEW u \in Threads, Enter(u)
      PROVE  u # t /\ Answered(t, "wait_for") /\ ret'[t] = ret[t] /\ call'[t] = call[t]
  BY <1>0, <1>2 DEF Enter, Answered
<1>3. ASSUME NEW u \in Threads, u # t, ~Enter(u),
             Section(u) \/ Expires(u) \/ SpuriousWakeup(u) \/ Cancel(u)
               \/ CancelJanitor(u)
      PROVE  /\ pc'[t] = "idle" => pc[t] = "idle"
             /\ ret'[t] = ret[t] /\ call'[t] = call[t]
  BY <1>0, <1>3
  DEF Section, InvalidArgs, Set, Awakened, SetRejected, Get, Reset,
      WaitForReturns, WaitForWaits, Request, RequestIgnored, RequestAccepted,
      RequestWaits, Expires, SpuriousWakeup, Cancel, CancelJanitor, Returns
<1>4. ASSUME Section(t) \/ Expires(t) \/ SpuriousWakeup(t) \/ Cancel(t)
               \/ CancelJanitor(t)
      PROVE  WaitForReturns(t)
  <2>0. /\ pc[t] # "idle" => ret[t] = NoResult
        /\ pc'[t] = "idle" /\ ret'[t] # NoResult /\ call'[t].op = "wait_for"
        /\ ret'[t].code = "OK"
    BY DEF IInv, TypeOK, Answered
  <2>1. ASSUME InvalidArgs(t) PROVE FALSE
    BY <1>0, <2>0, <2>1 DEF InvalidArgs, Returns, Result
  <2>2. ASSUME Set(t) \/ SetRejected(t) \/ Get(t) \/ Reset(t) PROVE FALSE
    BY <1>0, <2>0, <2>2 DEF Set, SetRejected, Get, Reset, Locked
  <2>3. ASSUME Request(t) \/ RequestIgnored(t) \/ RequestAccepted(t)
                 \/ RequestWaits(t)
        PROVE  FALSE
    BY <1>0, <2>0, <2>3
    DEF Request, RequestIgnored, RequestAccepted, RequestWaits, Locked
  <2>4. ASSUME WaitForWaits(t) \/ SpuriousWakeup(t) \/ Cancel(t) PROVE FALSE
    BY <1>0, <2>0, <2>4 DEF WaitForWaits, SpuriousWakeup, Cancel
  <2>5. ASSUME Expires(t) PROVE FALSE
    BY <1>0, <2>0, <2>5 DEF Expires, Returns, Result
  <2>6. ASSUME CancelJanitor(t) PROVE FALSE
    BY <1>0, <2>0, <2>6 DEF CancelJanitor
  <2>7. QED
    BY <1>4, <2>1, <2>2, <2>3, <2>4, <2>5, <2>6 DEF Section
<1>5. QED
  BY <1>1, <1>2, <1>3, <1>4 DEF Next, Answered

LEMMA ReportsStep ==
  ASSUME "reset" \notin Ops, IInv, ReportsAreCurrent, [Next]_vars
  PROVE  ReportsAreCurrent'
<1> SUFFICES ASSUME NEW t \in Threads, Answered(t, "wait_for")'
             PROVE  /\ gs' >= ret'[t].state
                    /\ \/ ret'[t].state >= call'[t].arg
                       \/ IsShutdown(ret'[t].state)
                    /\ ret'[t].state >= REQUEST_SHUTDOWN => ret'[t].level = gl'
  BY DEF ReportsAreCurrent
<1>0. /\ gs \in GlobalStates /\ gs' \in GlobalStates /\ gs' >= gs
      /\ gl' = gl \/ gs < REQUEST_SHUTDOWN
      /\ ret \in [Threads -> Results \cup {NoResult}]
      /\ pc \in [Threads -> PCs]
  BY StepsGoForward DEF IInv, TypeOK
<1>1. CASE Answered(t, "wait_for") /\ ret'[t] = ret[t] /\ call'[t] = call[t]
  <2>1. /\ gs >= ret[t].state
        /\ ret[t].state >= call[t].arg \/ IsShutdown(ret[t].state)
        /\ ret[t].state >= REQUEST_SHUTDOWN => ret[t].level = gl
    BY <1>1 DEF ReportsAreCurrent
  <2>2. ret[t].state \in Int
    BY <1>0, <1>1 DEF Answered, Results, GlobalStates
  <2>3. QED
    BY <1>0, <1>1, <2>1, <2>2 DEF GlobalStates
<1>2. CASE WaitForReturns(t)
  <2>1. /\ ret'[t] = Result(WaitCode(call[t].arg), gs, gl)
        /\ UNCHANGED <<gs, gl, call>>
        /\ ~MustWait(call[t].arg)
        /\ call[t] \in Calls /\ call[t].op = "wait_for"
    BY <1>0, <1>2 DEF WaitForReturns, Returns, Locked, IInv, TypeOK
  <2>2. call[t].arg \in Int
    BY <2>1, CallsAreTyped
  <2>3. ret'[t].state = gs /\ ret'[t].level = gl
    BY <2>1 DEF Result
  <2>4. QED
    BY <1>0, <2>1, <2>2, <2>3 DEF MustWait, IsShutdown, GlobalStates
<1>3. QED
  BY <1>1, <1>2, AnswersComeFromReturns

(* Only Request makes a requester.                                         *)
LEMMA RequestersComeFromRequest ==
  ASSUME IInv, [Next]_vars, NEW t \in Threads, Requesting(t)'
  PROVE  (Requesting(t) /\ call'[t] = call[t]) \/ Request(t)
<1>0. /\ pc \in [Threads -> PCs] /\ call \in [Threads -> Calls \cup {NoCall}]
  BY DEF IInv, TypeOK
<1>1. CASE UNCHANGED vars
  BY <1>1 DEF vars, Requesting
<1>2. ASSUME NEW u \in Threads, u # t, Next, ~Section(t),
             Enter(u) \/ Section(u) \/ Expires(u) \/ SpuriousWakeup(u)
               \/ Cancel(u) \/ CancelJanitor(u)
      PROVE  Requesting(t) /\ call'[t] = call[t]
  BY <1>0, <1>2
  DEF Section, Enter, InvalidArgs, Set, Awakened, SetRejected, Get, Reset,
      WaitForReturns, WaitForWaits, Request, RequestIgnored, RequestAccepted,
      RequestWaits, Expires, SpuriousWakeup, Cancel, CancelJanitor, Returns,
      Requesting
<1>3. ASSUME Enter(t) \/ Expires(t) \/ SpuriousWakeup(t) \/ Cancel(t)
               \/ CancelJanitor(t)
      PROVE  Requesting(t) /\ call'[t] = call[t]
  BY <1>0, <1>3
  DEF Enter, Expires, SpuriousWakeup, Cancel, CancelJanitor, Returns, Requesting
<1>4. ASSUME Section(t)
      PROVE  (Requesting(t) /\ call'[t] = call[t]) \/ Request(t)
  BY <1>0, <1>4
  DEF Section, InvalidArgs, Set, SetRejected, Get, Reset,
      WaitForReturns, WaitForWaits, Request, RequestIgnored, RequestAccepted,
      RequestWaits, Returns, Requesting, Locked
<1>5. QED
  BY <1>1, <1>2, <1>3, <1>4 DEF Next

LEMMA RequesterStep ==
  ASSUME "reset" \notin Ops, IInv, OneRequester, [Next]_vars
  PROVE  OneRequester'
<1>0. /\ gs \in GlobalStates /\ gs' \in GlobalStates /\ gs' >= gs
      /\ gl' = gl \/ gs < REQUEST_SHUTDOWN
  BY StepsGoForward DEF IInv, TypeOK
<1>1. ASSUME NEW t \in Threads, Request(t)
      PROVE  /\ gs' = REQUEST_SHUTDOWN /\ gl' = call'[t].arg
             /\ \A u \in Threads : ~Requesting(u)
             /\ \A u \in Threads \ {t} : ~Request(u)
  <2>1. gs < REQUEST_SHUTDOWN
    BY <1>0, <1>1 DEF Request, MayRequest, IsShutdown, GlobalStates
  <2>2. \A u \in Threads \ {t} : ~Request(u)
    BY <1>1 DEF Request, Awakened, Locked, IInv, TypeOK
  <2>3. \A u \in Threads : ~Requesting(u)
    BY <1>0, <2>1 DEF OneRequester, GlobalStates
  <2>4. gs' = REQUEST_SHUTDOWN /\ gl' = call'[t].arg
    BY <1>1 DEF Request
  <2>5. QED
    BY <2>2, <2>3, <2>4
<1>2. SUFFICES ASSUME NEW t \in Threads, Requesting(t)'
               PROVE  /\ gs' >= REQUEST_SHUTDOWN
                      /\ gl' = call'[t].arg
                      /\ \A u \in Threads \ {t} : ~Requesting(u)'
  BY DEF OneRequester
<1>3. CASE Request(t)
  BY <1>1, <1>3, RequestersComeFromRequest
<1>4. CASE ~Request(t)
  <2>1. Requesting(t) /\ call'[t] = call[t]
    BY <1>2, <1>4, RequestersComeFromRequest
  <2>2. /\ gs >= REQUEST_SHUTDOWN /\ gl = call[t].arg
        /\ \A u \in Threads \ {t} : ~Requesting(u)
    BY <2>1 DEF OneRequester
  <2>3. \A u \in Threads : ~Request(u)
    BY <1>1, <2>1
  <2>4. \A u \in Threads \ {t} : ~Requesting(u)'
    BY <2>2, <2>3, RequestersComeFromRequest
  <2>5. QED
    BY <1>0, <2>1, <2>2, <2>4 DEF GlobalStates
<1>5. QED
  BY <1>3, <1>4

LEMMA InitHInv == Init => HInv
BY DEF Init, HInv, ReportsAreCurrent, OneRequester, Answered, Requesting

(* However many threads request a shutdown, one of them waits for its      *)
(* acceptance and everybody is told its level; and what a waiter was told  *)
(* of the state stays true.  The clients do not call the reset of the unit *)
(* tests.                                                                  *)
THEOREM ShutdownIsAgreed ==
  ASSUME "reset" \notin Ops
  PROVE  Spec => [](ReportsStayTrue /\ LevelIsAgreed /\ OneRequester)
<1>1. Init => IInv /\ HInv
  BY InitIInv, InitHInv
<1>2. IInv /\ HInv /\ [Next]_vars => (IInv /\ HInv)'
  BY NextIInv, ReportsStep, RequesterStep DEF HInv
<1>3. IInv /\ HInv => ReportsStayTrue /\ LevelIsAgreed /\ OneRequester
  BY DEF HInv, ReportsAreCurrent, ReportsStayTrue, LevelIsAgreed
<1>4. QED
  BY <1>1, <1>2, <1>3, PTL DEF Spec

(* What a waiter was told stays true for ever (mccp_global_state_wait_for). *)
THEOREM ReportsAreTrue ==
  ASSUME "reset" \notin Ops
  PROVE  Spec => []ReportsStayTrue
BY ShutdownIsAgreed, PTL
=============================================================================
