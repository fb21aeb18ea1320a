---------------------------- MODULE ThreadProofs ----------------------------
(***************************************************************************)
(* What holds of a thread record for any number of callers, pthreads and   *)
(* calls, when the callers take turns to start it: who destroys it leaves  *)
(* nobody behind, a wait that succeeds has waited, the codes and the flag   *)
(* it is asked for are of the runs they should be of, and no wakeup is lost. *)
(*                                                                         *)
(* They rest on one fact about the handshake: at most one pthread is on its *)
(* way, it is m_pthd, and from its entry to the end of its finalize         *)
(* procedure m_is_activated is up (LiveIsActive); before its entry the      *)
(* starter sleeps, so that nobody else can be destroying (BornIsAwaited).   *)
(***************************************************************************)
EXTENDS Thread, TLAPS

Live == {"main", "returned", "ending", "final", "stuck"}

\* the pthread that runs is that of the record
LiveIsActive ==
    \A t \in Threads : pc[t] \in Live =>
        m_is_activated /\ m_pthd = t /\ ~m_do_autodelete /\ record = "live"

\* the starter of a pthread that has not run yet is asleep
BornIsAwaited ==
    \A t \in Threads : pc[t] = "born" =>
        /\ m_pthd = t /\ record = "live"
        /\ ~m_is_activated /\ ~m_is_started /\ ~m_is_canceled /\ ~m_do_autodelete
        /\ \E c \in Callers : op[c] \in StartOps /\ pc[c] = "starting"

OneStarter ==
    \A c, d \in Callers :
        op[c] \in StartOps /\ op[d] \in StartOps /\ pc[c] # "idle" /\ pc[d] # "idle" => c = d

ThreadsAreWhere == \A t \in Threads : pc[t] \in {"none", "born", "gone"} \cup Live

\* where a caller is tells its operation
Places ==
    \A c \in Callers :
        /\ pc[c] \in CallerPlaces
        /\ pc[c] \in {"starting", "started"} => op[c] \in StartOps
        /\ pc[c] \in {"wait", "asleep", "woken", "stuck"} => op[c] \in Waits \cup {"destroy"}
        /\ pc[c] = "read" => op[c] = "get_result_code"
        /\ pc[c] \in {"cancel", "freeup", "delete"} => op[c] = "destroy"

DestroyerIsAlone ==
    \A c, d \in Callers : op[c] = "destroy" /\ pc[c] # "idle" /\ c # d => pc[d] = "idle"

NobodyRuns == \A t \in Threads : pc[t] \in {"none", "gone"}

DestroyedAtTheEnd == \A c \in Callers : pc[c] \in {"freeup", "delete"} => NobodyRuns

LeftAlone == record # "live" => NobodyRuns /\ \A c \in Callers : pc[c] = "idle"

\* the pthreads are started in their order, when those before are over
InOrder == \A t, u \in Threads : pc[t] = "none" /\ t < u => pc[u] = "none"

LaterOnesWait == \A t, u \in Threads : pc[t] \in Live \cup {"born"} /\ t < u => pc[u] = "none"

LastRan ==
    /\ \A t \in Threads : pc[t] \notin {"none", "born"} => t <= last
    /\ last > 0 => pc[last] \notin {"none", "born"}

\* who waits knows a pthread of this record that did run
WaitsForOne ==
    \A c \in Callers : begun[c] > 0 =>
        /\ pc[begun[c]] \notin {"none", "born"}
        /\ pc[c] # "idle" => begun[c] > before
        /\ pc[c] = "read" \/ (op[c] \in Waits /\ ret[c] = "OK") => pc[begun[c]] = "gone"

\* a call that is under way has no result yet
NoResultYet == \A c \in Callers : pc[c] # "idle" => ret[c] = "NONE"

\* the result is that of the last main procedure that returned, or a later one
ResultIsStored ==
    \A t \in Threads :
        pc[t] \in {"ending", "final", "stuck", "gone"} /\ ended[t] = "clean" /\ t > before => m_result_code >= t

\* no result is stored before its main procedure has returned
ResultIsClean == m_result_code \in Threads => ended[m_result_code] = "clean"

\* who stores the result has returned
ReturnedIsClean == \A t \in Threads : pc[t] = "returned" => ended[t] = "clean"

NotEnded == \A t \in Threads : pc[t] \in {"none", "born", "main"} => ended[t] = "not"

\* what was read is no earlier than what was stored when the wait was over
CodesAreTrue ==
    \A c \in Callers : op[c] = "get_result_code" /\ ret[c] = "OK" =>
        /\ code[c] \in Threads => ended[code[c]] = "clean"
        /\ \A t \in Threads : t > before /\ t <= begun[c] /\ ended[t] = "clean" => code[c] >= t

FlagIsTrue ==
    \A t \in Threads : record = "live" /\ Newest(t) => (m_is_canceled <=> ended[t] = "canceled")

Handshake == LiveIsActive /\ BornIsAwaited /\ OneStarter /\ ThreadsAreWhere /\ Places
Alone     == DestroyerIsAlone /\ DestroyedAtTheEnd /\ LeftAlone
Orderly   == Handshake /\ Alone /\ InOrder /\ LaterOnesWait /\ LastRan
ResultsFit == ResultIsStored /\ ResultIsClean /\ ReturnedIsClean
Reported  == WaitsForOne /\ NoResultYet /\ ResultsFit /\ NotEnded /\ CodesAreTrue /\ FlagIsTrue

IInv == ThreadTypeOK /\ (~autodeletes => Orderly /\ Reported)

USE ThreadAssumption
    DEF Threads, Actors, AllOps, Waits, StartOps, CallerPlaces, ThreadPlaces, NOT_STARTED, SET,
        INVALID_THREAD
-----------------------------------------------------------------------------
(* A caller goes on with its call.                                          *)
LEMMA MoveKeeps ==
  ASSUME ThreadTypeOK, Orderly, Reported, NEW c \in Callers, NEW p \in CallerPlaces,
         pc' = [pc EXCEPT ![c] = p], pc[c] \notin {"idle", "starting"}, p # "idle",
         p \in {"starting", "started"} => op[c] \in StartOps,
         p \in {"wait", "asleep", "woken", "stuck"} => op[c] \in Waits \cup {"destroy"},
         p = "read" => op[c] = "get_result_code" /\ (begun[c] > 0 => pc[begun[c]] = "gone"),
         p \in {"cancel", "freeup", "delete"} => op[c] = "destroy",
         p \in {"freeup", "delete"} => NobodyRuns,
         UNCHANGED <<record, m_is_started, m_is_activated, m_is_canceled, m_do_autodelete, m_pthd, ended, last, before, m_result_code, op, ret, code, begun>>
  PROVE  Orderly' /\ Reported'
<1> USE DEF Orderly, Handshake, Alone, Reported, ResultsFit
<1>p. \A u \in Threads : pc'[u] = pc[u]
  BY DEF ThreadTypeOK, RecordTypes, ActorTypes, CallTypes
<1>l. last' = last /\ last \in 0..MaxStarts
  BY DEF flags, recordVars, runVars, callVars, ThreadTypeOK, ActorTypes
<1>1. LiveIsActive'
  BY DEF LiveIsActive, Places, ThreadsAreWhere, BornIsAwaited, Live, LeftAlone, flags, recordVars,
     runVars, callVars, ThreadTypeOK, RecordTypes, ActorTypes, CallTypes, Results
<1>2. BornIsAwaited'
  BY DEF BornIsAwaited, Places, ThreadsAreWhere, LiveIsActive, Live, LeftAlone, flags, recordVars,
     runVars, callVars, ThreadTypeOK, RecordTypes, ActorTypes, CallTypes, Results
<1>3. OneStarter'
  BY DEF OneStarter, flags, recordVars, runVars, callVars, ThreadTypeOK, RecordTypes, ActorTypes,
     CallTypes, Results
<1>4. ThreadsAreWhere'
  BY <1>p, <1>l DEF ThreadsAreWhere, Live
<1>5. Places'
  BY DEF Places, flags, recordVars, runVars, callVars, ThreadTypeOK, RecordTypes, ActorTypes,
     CallTypes, Results
<1>6. DestroyerIsAlone'
  BY DEF DestroyerIsAlone, Places, ThreadsAreWhere, ThreadsAreWhere, flags, recordVars, runVars,
     callVars, ThreadTypeOK, RecordTypes, ActorTypes, CallTypes, Results
<1>7. DestroyedAtTheEnd'
  BY DEF DestroyedAtTheEnd, NobodyRuns, Places, ThreadsAreWhere, Live, DestroyerIsAlone, flags,
     recordVars, runVars, callVars, ThreadTypeOK, RecordTypes, ActorTypes, CallTypes, Results
<1>8. LeftAlone'
  BY DEF LeftAlone, NobodyRuns, flags, recordVars, runVars, callVars, ThreadTypeOK, RecordTypes,
     ActorTypes, CallTypes, Results
<1>9. InOrder'
  BY <1>p, <1>l DEF InOrder
<1>10. LaterOnesWait'
  BY <1>p, <1>l DEF InOrder, LaterOnesWait, Live
<1>11. LastRan'
  BY <1>p, <1>l DEF LaterOnesWait, LastRan, Live
<1>12. WaitsForOne'
  BY DEF WaitsForOne, Places, ThreadsAreWhere, Live, LeftAlone, NoResultYet, flags, recordVars,
     runVars, callVars, ThreadTypeOK, RecordTypes, ActorTypes, CallTypes, Results
<1>13. NoResultYet'
  BY DEF NoResultYet, LeftAlone, flags, recordVars, runVars, callVars, ThreadTypeOK, RecordTypes,
     ActorTypes, CallTypes, Results
<1>14. ResultIsStored'
  BY ZenonT(60) DEF ResultIsStored, Places, ThreadsAreWhere, InOrder, LaterOnesWait, LastRan, Live, flags,
     recordVars, runVars, callVars, ThreadTypeOK, RecordTypes, ActorTypes, CallTypes, Results
<1>15. NotEnded'
  BY DEF NotEnded, ThreadsAreWhere, Live, flags, recordVars, runVars, callVars, ThreadTypeOK,
     RecordTypes, ActorTypes, CallTypes, Results
<1>16. CodesAreTrue'
  BY DEF CodesAreTrue, ThreadsAreWhere, WaitsForOne, NoResultYet, flags, recordVars, runVars,
     callVars, ThreadTypeOK, RecordTypes, ActorTypes, CallTypes, Results
<1>17. FlagIsTrue'
  BY <1>p DEF FlagIsTrue, Newest, InOrder, LaterOnesWait, LastRan, ThreadsAreWhere,
     Live, LiveIsActive, BornIsAwaited, LeftAlone, NobodyRuns,
     NotEnded, flags, recordVars, runVars, callVars, ThreadTypeOK, RecordTypes, ActorTypes,
     CallTypes, Results
<1>18. ResultIsClean'
  BY DEF ResultIsClean, ReturnedIsClean, ThreadsAreWhere,
     Live, LiveIsActive, BornIsAwaited, LeftAlone, NobodyRuns,
     NotEnded, flags, recordVars, runVars, callVars, ThreadTypeOK, RecordTypes, ActorTypes,
     CallTypes, Results
<1>19. ReturnedIsClean'
  BY DEF ReturnedIsClean, ThreadsAreWhere, Live, LiveIsActive, BornIsAwaited, LeftAlone, NobodyRuns,
     NotEnded, flags, recordVars, runVars, callVars, ThreadTypeOK, RecordTypes, ActorTypes,
     CallTypes, Results
<1> QED
  BY <1>1, <1>2, <1>3, <1>4, <1>5, <1>6, <1>7, <1>8, <1>9, <1>10, <1>11, <1>12, <1>13, <1>14, <1>15, <1>16, <1>17, <1>18, <1>19

(* A call returns, and what it returns of a wait that succeeded is true.    *)
LEMMA ReturnKeeps ==
  ASSUME ThreadTypeOK, Orderly, Reported, NEW c \in Callers, NEW r, Return(c, r),
         pc[c] \notin {"idle", "starting"},
         op[c] \in Waits /\ r = "OK" => op[c] # "get_result_code" /\ (begun[c] > 0 => pc[begun[c]] = "gone"),
         m_result_code' \in {m_result_code, SET},
         UNCHANGED <<record, m_is_started, m_is_activated, m_is_canceled, m_do_autodelete, m_pthd, ended, last, before>>
  PROVE  Orderly' /\ Reported'
<1> USE DEF Orderly, Handshake, Alone, Reported, ResultsFit
<1>a. \A d \in Callers : d # c => op'[d] = op[d] /\ ret'[d] = ret[d] /\ begun'[d] = begun[d] /\ pc'[d] = pc[d]
  BY DEF Return, GoTo, ThreadTypeOK, ActorTypes, CallTypes
<1>p. \A u \in Threads : pc'[u] = pc[u]
  BY DEF Return, GoTo, ThreadTypeOK, RecordTypes, ActorTypes, CallTypes
<1>l. last' = last /\ last \in 0..MaxStarts
  BY DEF Return, GoTo, flags, recordVars, runVars, callVars, ThreadTypeOK, ActorTypes
<1>1. LiveIsActive'
  BY DEF LiveIsActive, Places, ThreadsAreWhere, BornIsAwaited, Live, LeftAlone, Return, GoTo,
     flags, recordVars, runVars, callVars, ThreadTypeOK, RecordTypes, ActorTypes, CallTypes,
     Results
<1>2. BornIsAwaited'
  BY <1>a DEF BornIsAwaited, Places, ThreadsAreWhere, LiveIsActive, Live, LeftAlone, Return, GoTo,
     flags, recordVars, runVars, callVars, ThreadTypeOK, RecordTypes, ActorTypes, CallTypes,
     Results
<1>3. OneStarter'
  BY DEF OneStarter, Return, GoTo, flags, recordVars, runVars, callVars, ThreadTypeOK,
     RecordTypes, ActorTypes, CallTypes, Results
<1>4. ThreadsAreWhere'
  BY <1>p, <1>l DEF ThreadsAreWhere, Live, Return
<1>5. Places'
  BY <1>a DEF Places, Return, GoTo, flags, recordVars, runVars, callVars, ThreadTypeOK,
     RecordTypes, ActorTypes, CallTypes, Results
<1>6. DestroyerIsAlone'
  BY DEF DestroyerIsAlone, Places, ThreadsAreWhere, ThreadsAreWhere, Return, GoTo, flags,
     recordVars, runVars, callVars, ThreadTypeOK, RecordTypes, ActorTypes, CallTypes, Results
<1>7. DestroyedAtTheEnd'
  BY DEF DestroyedAtTheEnd, NobodyRuns, Places, ThreadsAreWhere, Live, DestroyerIsAlone, Return,
     GoTo, flags, recordVars, runVars, callVars, ThreadTypeOK, RecordTypes, ActorTypes, CallTypes,
     Results
<1>8. LeftAlone'
  BY DEF LeftAlone, NobodyRuns, Return, GoTo, flags, recordVars, runVars, callVars, ThreadTypeOK,
     RecordTypes, ActorTypes, CallTypes, Results
<1>9. InOrder'
  BY <1>p, <1>l DEF InOrder, Return
<1>10. LaterOnesWait'
  BY <1>p, <1>l DEF InOrder, LaterOnesWait, Live, Return
<1>11. LastRan'
  BY <1>p, <1>l DEF LaterOnesWait, LastRan, Live, Return
<1>12. WaitsForOne'
  BY DEF WaitsForOne, Places, ThreadsAreWhere, Live, LeftAlone, NoResultYet, Return, GoTo, flags,
     recordVars, runVars, callVars, ThreadTypeOK, RecordTypes, ActorTypes, CallTypes, Results
<1>13. NoResultYet'
  BY DEF NoResultYet, LeftAlone, Return, GoTo, flags, recordVars, runVars, callVars, ThreadTypeOK,
     RecordTypes, ActorTypes, CallTypes, Results
<1>14. ResultIsStored'
  BY DEF ResultIsStored, Places, ThreadsAreWhere, InOrder, LaterOnesWait, LastRan, Live, Return,
     GoTo, flags, recordVars, runVars, callVars, ThreadTypeOK, RecordTypes, ActorTypes, CallTypes,
     Results
<1>15. NotEnded'
  BY DEF NotEnded, ThreadsAreWhere, Live, Return, GoTo, flags, recordVars, runVars, callVars,
     ThreadTypeOK, RecordTypes, ActorTypes, CallTypes, Results
<1>16. CodesAreTrue'
  BY DEF CodesAreTrue, ThreadsAreWhere, WaitsForOne, NoResultYet, Return, GoTo, flags, recordVars,
     runVars, callVars, ThreadTypeOK, RecordTypes, ActorTypes, CallTypes, Results
<1>17. FlagIsTrue'
  BY DEF FlagIsTrue, Newest, InOrder, LaterOnesWait, LastRan, ThreadsAreWhere,
     Live, LiveIsActive, BornIsAwaited, LeftAlone, NobodyRuns,
     NotEnded, Return, GoTo, flags, recordVars, runVars, callVars, ThreadTypeOK, RecordTypes,
     ActorTypes, CallTypes, Results
<1>18. ResultIsClean'
  BY DEF ResultIsClean, ReturnedIsClean, ThreadsAreWhere,
     Live, LiveIsActive, BornIsAwaited, LeftAlone, NobodyRuns,
     NotEnded, Return, GoTo, flags, recordVars, runVars, callVars, ThreadTypeOK, RecordTypes,
     ActorTypes, CallTypes, Results
<1>19. ReturnedIsClean'
  BY DEF ReturnedIsClean, ThreadsAreWhere, Live, LiveIsActive, BornIsAwaited, LeftAlone, NobodyRuns,
     NotEnded, Return, GoTo, flags, recordVars, runVars, callVars, ThreadTypeOK, RecordTypes,
     ActorTypes, CallTypes, Results
<1> QED
  BY <1>1, <1>2, <1>3, <1>4, <1>5, <1>6, <1>7, <1>8, <1>9, <1>10, <1>11, <1>12, <1>13, <1>14, <1>15, <1>16, <1>17, <1>18, <1>19

(* The result code is read when the wait is over.                           *)
LEMMA ReadResultKeeps ==
  ASSUME ThreadTypeOK, Orderly, Reported, NEW c \in Callers, ReadResult(c)
  PROVE  Orderly' /\ Reported'
<1> USE DEF Orderly, Handshake, Alone, Reported, ResultsFit
<1>a. \A t \in Threads : t > before /\ t <= begun[c] /\ ended[t] = "clean" => m_result_code >= t
  <2> SUFFICES ASSUME NEW t \in Threads, t > before, t <= begun[c], ended[t] = "clean" PROVE m_result_code >= t
    OBVIOUS
  <2>1. begun[c] \in Threads /\ pc[begun[c]] = "gone"
    BY DEF ReadResult, WaitsForOne, ThreadTypeOK, CallTypes
  <2>2. pc[t] \in {"gone"}
    BY <2>1 DEF InOrder, LaterOnesWait, ThreadsAreWhere
  <2>3. QED
    BY <2>2 DEF ResultIsStored
<1>b. m_result_code \in Threads => ended[m_result_code] = "clean"
  BY DEF ResultIsClean
<1>1. LiveIsActive'
  BY DEF LiveIsActive, Places, ThreadsAreWhere, BornIsAwaited, Live, LeftAlone, ReadResult, GoTo,
     flags, recordVars, runVars, callVars, ThreadTypeOK, RecordTypes, ActorTypes, CallTypes,
     Results
<1>2. BornIsAwaited'
  BY DEF BornIsAwaited, Places, ThreadsAreWhere, LiveIsActive, Live, LeftAlone, ReadResult, GoTo,
     flags, recordVars, runVars, callVars, ThreadTypeOK, RecordTypes, ActorTypes, CallTypes,
     Results
<1>3. OneStarter'
  BY DEF OneStarter, ReadResult, GoTo, flags, recordVars, runVars, callVars, ThreadTypeOK,
     RecordTypes, ActorTypes, CallTypes, Results
<1>4. ThreadsAreWhere'
  BY DEF ThreadsAreWhere, Live, ReadResult, GoTo, flags, recordVars, runVars, callVars,
     ThreadTypeOK, RecordTypes, ActorTypes, CallTypes, Results
<1>5. Places'
  BY DEF Places, ReadResult, GoTo, flags, recordVars, runVars, callVars, ThreadTypeOK,
     RecordTypes, ActorTypes, CallTypes, Results
<1>6. DestroyerIsAlone'
  BY DEF DestroyerIsAlone, Places, ThreadsAreWhere, ThreadsAreWhere, ReadResult, GoTo, flags,
     recordVars, runVars, callVars, ThreadTypeOK, RecordTypes, ActorTypes, CallTypes, Results
<1>7. DestroyedAtTheEnd'
  BY DEF DestroyedAtTheEnd, NobodyRuns, Places, ThreadsAreWhere, Live, DestroyerIsAlone,
     ReadResult, GoTo, flags, recordVars, runVars, callVars, ThreadTypeOK, RecordTypes,
     ActorTypes, CallTypes, Results
<1>8. LeftAlone'
  BY DEF LeftAlone, NobodyRuns, ReadResult, GoTo, flags, recordVars, runVars, callVars,
     ThreadTypeOK, RecordTypes, ActorTypes, CallTypes, Results
<1>9. InOrder'
  BY DEF InOrder, Places, ThreadsAreWhere, Live, BornIsAwaited, LiveIsActive, LeftAlone,
     NobodyRuns, ReadResult, GoTo, flags, recordVars, runVars, callVars, ThreadTypeOK,
     RecordTypes, ActorTypes, CallTypes, Results
<1>10. LaterOnesWait'
  BY DEF LaterOnesWait, ThreadsAreWhere, Live, InOrder, LeftAlone, NobodyRuns, ReadResult, GoTo,
     flags, recordVars, runVars, callVars, ThreadTypeOK, RecordTypes, ActorTypes, CallTypes,
     Results
<1>11. LastRan'
  BY DEF LastRan, ThreadsAreWhere, Live, InOrder, LaterOnesWait, LeftAlone, NobodyRuns,
     ReadResult, GoTo, flags, recordVars, runVars, callVars, ThreadTypeOK, RecordTypes,
     ActorTypes, CallTypes, Results
<1>12. WaitsForOne'
  BY DEF WaitsForOne, Places, ThreadsAreWhere, Live, LeftAlone, NoResultYet, ReadResult, GoTo,
     flags, recordVars, runVars, callVars, ThreadTypeOK, RecordTypes, ActorTypes, CallTypes,
     Results
<1>13. NoResultYet'
  BY DEF NoResultYet, LeftAlone, ReadResult, GoTo, flags, recordVars, runVars, callVars,
     ThreadTypeOK, RecordTypes, ActorTypes, CallTypes, Results
<1>14. ResultIsStored'
  BY DEF ResultIsStored, Places, ThreadsAreWhere, InOrder, LaterOnesWait, LastRan, Live,
     ReadResult, GoTo, flags, recordVars, runVars, callVars, ThreadTypeOK, RecordTypes,
     ActorTypes, CallTypes, Results
<1>15. NotEnded'
  BY DEF NotEnded, ThreadsAreWhere, Live, ReadResult, GoTo, flags, recordVars, runVars, callVars,
     ThreadTypeOK, RecordTypes, ActorTypes, CallTypes, Results
<1>16. CodesAreTrue'
  BY <1>a, <1>b DEF CodesAreTrue, ThreadsAreWhere, WaitsForOne, NoResultYet, Places, ReadResult, GoTo,
     flags, recordVars, runVars, callVars, ThreadTypeOK, RecordTypes, ActorTypes, CallTypes,
     Results
<1>17. FlagIsTrue'
  BY DEF FlagIsTrue, Newest, InOrder, LaterOnesWait, LastRan, ThreadsAreWhere,
     Live, LiveIsActive, BornIsAwaited, LeftAlone, NobodyRuns,
     NotEnded, ReadResult, GoTo, flags, recordVars, runVars, callVars, ThreadTypeOK, RecordTypes,
     ActorTypes, CallTypes, Results
<1>18. ResultIsClean'
  BY DEF ResultIsClean, ReturnedIsClean, ThreadsAreWhere,
     Live, LiveIsActive, BornIsAwaited, LeftAlone, NobodyRuns,
     NotEnded, ReadResult, GoTo, flags, recordVars, runVars, callVars, ThreadTypeOK, RecordTypes,
     ActorTypes, CallTypes, Results
<1>19. ReturnedIsClean'
  BY DEF ReturnedIsClean, ThreadsAreWhere, Live, LiveIsActive, BornIsAwaited, LeftAlone, NobodyRuns,
     NotEnded, ReadResult, GoTo, flags, recordVars, runVars, callVars, ThreadTypeOK, RecordTypes,
     ActorTypes, CallTypes, Results
<1> QED
  BY <1>1, <1>2, <1>3, <1>4, <1>5, <1>6, <1>7, <1>8, <1>9, <1>10, <1>11, <1>12, <1>13, <1>14, <1>15, <1>16, <1>17, <1>18, <1>19

(* A record is created where there was none.                                *)
LEMMA CreateKeeps ==
  ASSUME ThreadTypeOK, Orderly, Reported, NEW c \in Callers, Create(c)
  PROVE  Orderly' /\ Reported'
<1> USE DEF Orderly, Handshake, Alone, Reported, ResultsFit
<1>1. LiveIsActive'
  BY DEF LiveIsActive, Places, ThreadsAreWhere, BornIsAwaited, Live, LeftAlone, NobodyRuns,
     Create, Initialize, flags, recordVars, runVars, callVars, ThreadTypeOK, RecordTypes,
     ActorTypes, CallTypes, Results
<1>2. BornIsAwaited'
  BY DEF BornIsAwaited, Places, ThreadsAreWhere, LiveIsActive, Live, LeftAlone, NobodyRuns,
     Create, Initialize, flags, recordVars, runVars, callVars, ThreadTypeOK, RecordTypes,
     ActorTypes, CallTypes, Results
<1>3. OneStarter'
  BY DEF OneStarter, LeftAlone, NobodyRuns, Create, Initialize, flags, recordVars, runVars,
     callVars, ThreadTypeOK, RecordTypes, ActorTypes, CallTypes, Results
<1>4. ThreadsAreWhere'
  BY DEF ThreadsAreWhere, Live, LeftAlone, NobodyRuns, Create, Initialize, flags, recordVars,
     runVars, callVars, ThreadTypeOK, RecordTypes, ActorTypes, CallTypes, Results
<1>5. Places'
  BY DEF Places, LeftAlone, NobodyRuns, Create, Initialize, flags, recordVars, runVars, callVars,
     ThreadTypeOK, RecordTypes, ActorTypes, CallTypes, Results
<1>6. DestroyerIsAlone'
  BY DEF DestroyerIsAlone, Places, ThreadsAreWhere, ThreadsAreWhere, LeftAlone, NobodyRuns,
     Create, Initialize, flags, recordVars, runVars, callVars, ThreadTypeOK, RecordTypes,
     ActorTypes, CallTypes, Results
<1>7. DestroyedAtTheEnd'
  BY DEF DestroyedAtTheEnd, NobodyRuns, Places, ThreadsAreWhere, Live, DestroyerIsAlone,
     LeftAlone, Create, Initialize, flags, recordVars, runVars, callVars, ThreadTypeOK,
     RecordTypes, ActorTypes, CallTypes, Results
<1>8. LeftAlone'
  BY DEF LeftAlone, NobodyRuns, Create, Initialize, flags, recordVars, runVars, callVars,
     ThreadTypeOK, RecordTypes, ActorTypes, CallTypes, Results
<1>9. InOrder'
  BY DEF InOrder, Places, ThreadsAreWhere, Live, BornIsAwaited, LiveIsActive, LeftAlone,
     NobodyRuns, Create, Initialize, flags, recordVars, runVars, callVars, ThreadTypeOK,
     RecordTypes, ActorTypes, CallTypes, Results
<1>10. LaterOnesWait'
  BY DEF LaterOnesWait, ThreadsAreWhere, Live, InOrder, LeftAlone, NobodyRuns, Create, Initialize,
     flags, recordVars, runVars, callVars, ThreadTypeOK, RecordTypes, ActorTypes, CallTypes,
     Results
<1>11. LastRan'
  BY DEF LastRan, ThreadsAreWhere, Live, InOrder, LaterOnesWait, LeftAlone, NobodyRuns, Create,
     Initialize, flags, recordVars, runVars, callVars, ThreadTypeOK, RecordTypes, ActorTypes,
     CallTypes, Results
<1>12. WaitsForOne'
  BY DEF WaitsForOne, Places, ThreadsAreWhere, Live, LeftAlone, NoResultYet, NobodyRuns, Create,
     Initialize, flags, recordVars, runVars, callVars, ThreadTypeOK, RecordTypes, ActorTypes,
     CallTypes, Results
<1>13. NoResultYet'
  BY DEF NoResultYet, LeftAlone, NobodyRuns, Create, Initialize, flags, recordVars, runVars,
     callVars, ThreadTypeOK, RecordTypes, ActorTypes, CallTypes, Results
<1>14. ResultIsStored'
  BY DEF ResultIsStored, Places, ThreadsAreWhere, InOrder, LaterOnesWait, LastRan, Live,
     LeftAlone, NobodyRuns, Create, Initialize, flags, recordVars, runVars, callVars,
     ThreadTypeOK, RecordTypes, ActorTypes, CallTypes, Results
<1>15. NotEnded'
  BY DEF NotEnded, ThreadsAreWhere, Live, LeftAlone, NobodyRuns, Create, Initialize, flags,
     recordVars, runVars, callVars, ThreadTypeOK, RecordTypes, ActorTypes, CallTypes, Results
<1>16. CodesAreTrue'
  BY DEF CodesAreTrue, LastRan, ThreadsAreWhere, WaitsForOne, NoResultYet, LeftAlone, NobodyRuns, Create,
     Initialize, flags, recordVars, runVars, callVars, ThreadTypeOK, RecordTypes, ActorTypes,
     CallTypes, Results
<1>17. FlagIsTrue'
  BY DEF FlagIsTrue, Newest, InOrder, LaterOnesWait, LastRan, ThreadsAreWhere,
     Live, LiveIsActive, BornIsAwaited, LeftAlone, NobodyRuns,
     NotEnded, Create, Initialize, flags, recordVars, runVars, callVars, ThreadTypeOK,
     RecordTypes, ActorTypes, CallTypes, Results
<1>18. ResultIsClean'
  BY DEF ResultIsClean, ReturnedIsClean, ThreadsAreWhere,
     Live, LiveIsActive, BornIsAwaited, LeftAlone, NobodyRuns,
     NotEnded, Create, Initialize, flags, recordVars, runVars, callVars, ThreadTypeOK,
     RecordTypes, ActorTypes, CallTypes, Results
<1>19. ReturnedIsClean'
  BY DEF ReturnedIsClean, ThreadsAreWhere, Live, LiveIsActive, BornIsAwaited, LeftAlone, NobodyRuns,
     NotEnded, Create, Initialize, flags, recordVars, runVars, callVars, ThreadTypeOK,
     RecordTypes, ActorTypes, CallTypes, Results
<1> QED
  BY <1>1, <1>2, <1>3, <1>4, <1>5, <1>6, <1>7, <1>8, <1>9, <1>10, <1>11, <1>12, <1>13, <1>14, <1>15, <1>16, <1>17, <1>18, <1>19

(* A call begins; two callers do not start the record at the same time.     *)
LEMMA BeginKeeps ==
  ASSUME ThreadTypeOK, Orderly, Reported, TakeTurns, NEW c \in Callers, NEW o \in Ops, Begin(c, o)
  PROVE  Orderly' /\ Reported'
<1> USE DEF Orderly, Handshake, Alone, Reported, ResultsFit
<1>1. LiveIsActive'
  BY DEF LiveIsActive, Places, ThreadsAreWhere, BornIsAwaited, Live, LeftAlone, Begin, GoTo,
     FirstPlace, Turn, Destroying, flags, recordVars, runVars, callVars, ThreadTypeOK,
     RecordTypes, ActorTypes, CallTypes, Results
<1>2. BornIsAwaited'
  BY ZenonT(60) DEF BornIsAwaited, Places, ThreadsAreWhere, LiveIsActive, Live, LeftAlone, Begin, GoTo,
     FirstPlace, Turn, Destroying, flags, recordVars, runVars, callVars, ThreadTypeOK,
     RecordTypes, ActorTypes, CallTypes, Results
<1>3. OneStarter'
  BY DEF OneStarter, Begin, GoTo, FirstPlace, Turn, Destroying, flags, recordVars, runVars,
     callVars, ThreadTypeOK, RecordTypes, ActorTypes, CallTypes, Results
<1>4. ThreadsAreWhere'
  BY DEF ThreadsAreWhere, Live, Begin, GoTo, FirstPlace, Turn, Destroying, flags, recordVars,
     runVars, callVars, ThreadTypeOK, RecordTypes, ActorTypes, CallTypes, Results
<1>5. Places'
  BY DEF Places, Begin, GoTo, FirstPlace, Turn, Destroying, flags, recordVars, runVars, callVars,
     ThreadTypeOK, RecordTypes, ActorTypes, CallTypes, Results
<1>6. DestroyerIsAlone'
  BY DEF DestroyerIsAlone, Places, ThreadsAreWhere, ThreadsAreWhere, Begin, GoTo, FirstPlace,
     Turn, Destroying, flags, recordVars, runVars, callVars, ThreadTypeOK, RecordTypes,
     ActorTypes, CallTypes, Results
<1>7. DestroyedAtTheEnd'
  BY DEF DestroyedAtTheEnd, NobodyRuns, Places, ThreadsAreWhere, Live, DestroyerIsAlone, Begin,
     GoTo, FirstPlace, Turn, Destroying, flags, recordVars, runVars, callVars, ThreadTypeOK,
     RecordTypes, ActorTypes, CallTypes, Results
<1>8. LeftAlone'
  BY DEF LeftAlone, NobodyRuns, Begin, GoTo, FirstPlace, Turn, Destroying, flags, recordVars,
     runVars, callVars, ThreadTypeOK, RecordTypes, ActorTypes, CallTypes, Results
<1>9. InOrder'
  BY DEF InOrder, Places, ThreadsAreWhere, Live, BornIsAwaited, LiveIsActive, LeftAlone,
     NobodyRuns, Begin, GoTo, FirstPlace, Turn, Destroying, flags, recordVars, runVars, callVars,
     ThreadTypeOK, RecordTypes, ActorTypes, CallTypes, Results
<1>10. LaterOnesWait'
  BY DEF LaterOnesWait, ThreadsAreWhere, Live, InOrder, LeftAlone, NobodyRuns, Begin, GoTo,
     FirstPlace, Turn, Destroying, flags, recordVars, runVars, callVars, ThreadTypeOK,
     RecordTypes, ActorTypes, CallTypes, Results
<1>11. LastRan'
  BY DEF LastRan, ThreadsAreWhere, Live, InOrder, LaterOnesWait, LeftAlone, NobodyRuns, Begin,
     GoTo, FirstPlace, Turn, Destroying, flags, recordVars, runVars, callVars, ThreadTypeOK,
     RecordTypes, ActorTypes, CallTypes, Results
<1>12. WaitsForOne'
  BY DEF WaitsForOne, Places, ThreadsAreWhere, Live, LeftAlone, NoResultYet, LastRan, Begin, GoTo,
     FirstPlace, Turn, Destroying, flags, recordVars, runVars, callVars, ThreadTypeOK,
     RecordTypes, ActorTypes, CallTypes, Results
<1>13. NoResultYet'
  BY DEF NoResultYet, LeftAlone, Begin, GoTo, FirstPlace, Turn, Destroying, flags, recordVars,
     runVars, callVars, ThreadTypeOK, RecordTypes, ActorTypes, CallTypes, Results
<1>14. ResultIsStored'
  BY DEF ResultIsStored, Places, ThreadsAreWhere, InOrder, LaterOnesWait, LastRan, Live, Begin,
     GoTo, FirstPlace, Turn, Destroying, flags, recordVars, runVars, callVars, ThreadTypeOK,
     RecordTypes, ActorTypes, CallTypes, Results
<1>15. NotEnded'
  BY DEF NotEnded, ThreadsAreWhere, Live, Begin, GoTo, FirstPlace, Turn, Destroying, flags,
     recordVars, runVars, callVars, ThreadTypeOK, RecordTypes, ActorTypes, CallTypes, Results
<1>16. CodesAreTrue'
  BY DEF CodesAreTrue, ThreadsAreWhere, WaitsForOne, NoResultYet, Begin, GoTo, FirstPlace, Turn,
     Destroying, flags, recordVars, runVars, callVars, ThreadTypeOK, RecordTypes, ActorTypes,
     CallTypes, Results
<1>17. FlagIsTrue'
  BY DEF FlagIsTrue, Newest, InOrder, LaterOnesWait, LastRan, ThreadsAreWhere,
     Live, LiveIsActive, BornIsAwaited, LeftAlone, NobodyRuns,
     NotEnded, Begin, GoTo, FirstPlace, Turn, Destroying, flags, recordVars, runVars, callVars,
     ThreadTypeOK, RecordTypes, ActorTypes, CallTypes, Results
<1>18. ResultIsClean'
  BY DEF ResultIsClean, ReturnedIsClean, ThreadsAreWhere,
     Live, LiveIsActive, BornIsAwaited, LeftAlone, NobodyRuns,
     NotEnded, Begin, GoTo, FirstPlace, Turn, Destroying, flags, recordVars, runVars, callVars,
     ThreadTypeOK, RecordTypes, ActorTypes, CallTypes, Results
<1>19. ReturnedIsClean'
  BY DEF ReturnedIsClean, ThreadsAreWhere, Live, LiveIsActive, BornIsAwaited, LeftAlone, NobodyRuns,
     NotEnded, Begin, GoTo, FirstPlace, Turn, Destroying, flags, recordVars, runVars, callVars,
     ThreadTypeOK, RecordTypes, ActorTypes, CallTypes, Results
<1> QED
  BY <1>1, <1>2, <1>3, <1>4, <1>5, <1>6, <1>7, <1>8, <1>9, <1>10, <1>11, <1>12, <1>13, <1>14, <1>15, <1>16, <1>17, <1>18, <1>19

(* A pthread is started when none is on its way.                            *)
LEMMA SpawnKeeps ==
  ASSUME ThreadTypeOK, Orderly, Reported, NEW c \in Callers, NEW t \in Threads, Spawn(c, t), ~autodeletes'
  PROVE  Orderly' /\ Reported'
<1> USE DEF Orderly, Handshake, Alone, Reported, ResultsFit
<1>a. \A u \in Threads : pc[u] \in {"none", "gone"}
  BY DEF Spawn, Starts, ThreadsAreWhere, Places, LiveIsActive, BornIsAwaited, OneStarter, Live
<1>b. pc[t] = "none" /\ \A u \in Threads : u < t => pc[u] # "none"
  BY DEF Spawn
<1>p. \A u \in Threads : pc'[u] = IF u = t THEN "born" ELSE pc[u]
  BY DEF Spawn, Starts, Free, ThreadTypeOK, RecordTypes, ActorTypes, CallTypes
<1>l. last' = last /\ last \in 0..MaxStarts
  BY DEF Spawn, Starts, Free, flags, recordVars, runVars, callVars, ThreadTypeOK, ActorTypes
<1>1. LiveIsActive'
  BY <1>a, <1>b DEF LiveIsActive, Places, ThreadsAreWhere, BornIsAwaited, Live, LeftAlone, Spawn,
     Starts, Free, flags, recordVars, runVars, callVars, ThreadTypeOK, RecordTypes, ActorTypes,
     CallTypes, Results
<1>2. BornIsAwaited'
  BY <1>a, <1>b DEF BornIsAwaited, Places, ThreadsAreWhere, LiveIsActive, Live, LeftAlone, Spawn,
     Starts, Free, flags, recordVars, runVars, callVars, ThreadTypeOK, RecordTypes, ActorTypes,
     CallTypes, Results
<1>3. OneStarter'
  BY <1>a, <1>b, ZenonT(60) DEF OneStarter, Places, Spawn, Starts, Free, flags, recordVars, runVars, callVars,
     ThreadTypeOK, RecordTypes, ActorTypes, CallTypes, Results
<1>4. ThreadsAreWhere'
  BY <1>p, <1>l, <1>a, <1>b DEF ThreadsAreWhere, Live
<1>5. Places'
  BY <1>a, <1>b DEF Places, Spawn, Starts, Free, flags, recordVars, runVars, callVars,
     ThreadTypeOK, RecordTypes, ActorTypes, CallTypes, Results
<1>6. DestroyerIsAlone'
  BY <1>a, <1>b DEF DestroyerIsAlone, Places, ThreadsAreWhere, ThreadsAreWhere, Spawn, Starts,
     Free, flags, recordVars, runVars, callVars, ThreadTypeOK, RecordTypes, ActorTypes, CallTypes,
     Results
<1>7. DestroyedAtTheEnd'
  BY <1>a, <1>b DEF DestroyedAtTheEnd, NobodyRuns, Places, ThreadsAreWhere, Live,
     DestroyerIsAlone, Spawn, Starts, Free, flags, recordVars, runVars, callVars, ThreadTypeOK,
     RecordTypes, ActorTypes, CallTypes, Results
<1>8. LeftAlone'
  BY <1>a, <1>b DEF LeftAlone, NobodyRuns, Spawn, Starts, Free, flags, recordVars, runVars,
     callVars, ThreadTypeOK, RecordTypes, ActorTypes, CallTypes, Results
<1>9. InOrder'
  BY <1>p, <1>l, <1>a, <1>b DEF InOrder
<1>10. LaterOnesWait'
  BY <1>p, <1>l, <1>a, <1>b DEF InOrder, LaterOnesWait, Live
<1>11. LastRan'
  BY <1>p, <1>l, <1>a, <1>b DEF LaterOnesWait, LastRan, Live
<1>12. WaitsForOne'
  BY <1>a, <1>b DEF WaitsForOne, Places, ThreadsAreWhere, Live, LeftAlone, NoResultYet, Spawn,
     Starts, Free, flags, recordVars, runVars, callVars, ThreadTypeOK, RecordTypes, ActorTypes,
     CallTypes, Results
<1>13. NoResultYet'
  BY <1>a, <1>b DEF NoResultYet, LeftAlone, Spawn, Starts, Free, flags, recordVars, runVars,
     callVars, ThreadTypeOK, RecordTypes, ActorTypes, CallTypes, Results
<1>14. ResultIsStored'
  BY <1>a, <1>b DEF ResultIsStored, Places, ThreadsAreWhere, InOrder, LaterOnesWait, LastRan,
     Live, Spawn, Starts, Free, flags, recordVars, runVars, callVars, ThreadTypeOK, RecordTypes,
     ActorTypes, CallTypes, Results
<1>15. NotEnded'
  BY <1>a, <1>b DEF NotEnded, ThreadsAreWhere, Live, Spawn, Starts, Free, flags, recordVars,
     runVars, callVars, ThreadTypeOK, RecordTypes, ActorTypes, CallTypes, Results
<1>16. CodesAreTrue'
  BY <1>a, <1>b DEF CodesAreTrue, ThreadsAreWhere, WaitsForOne, NoResultYet, Spawn, Starts, Free,
     flags, recordVars, runVars, callVars, ThreadTypeOK, RecordTypes, ActorTypes, CallTypes,
     Results
<1>17. FlagIsTrue'
  BY <1>a, <1>b DEF FlagIsTrue, Newest, InOrder, LaterOnesWait, LastRan, ThreadsAreWhere,
     Live, LiveIsActive, BornIsAwaited, LeftAlone,
     NobodyRuns, NotEnded, Spawn, Starts, Free, flags, recordVars, runVars, callVars,
     ThreadTypeOK, RecordTypes, ActorTypes, CallTypes, Results
<1>18. ResultIsClean'
  BY <1>a, <1>b DEF ResultIsClean, ReturnedIsClean, ThreadsAreWhere,
     Live, LiveIsActive, BornIsAwaited, LeftAlone,
     NobodyRuns, NotEnded, Spawn, Starts, Free, flags, recordVars, runVars, callVars,
     ThreadTypeOK, RecordTypes, ActorTypes, CallTypes, Results
<1>19. ReturnedIsClean'
  BY <1>a, <1>b DEF ReturnedIsClean, ThreadsAreWhere, Live, LiveIsActive, BornIsAwaited, LeftAlone,
     NobodyRuns, NotEnded, Spawn, Starts, Free, flags, recordVars, runVars, callVars,
     ThreadTypeOK, RecordTypes, ActorTypes, CallTypes, Results
<1> QED
  BY <1>1, <1>2, <1>3, <1>4, <1>5, <1>6, <1>7, <1>8, <1>9, <1>10, <1>11, <1>12, <1>13, <1>14, <1>15, <1>16, <1>17, <1>18, <1>19

(* pthread_create() fails.                                                  *)
LEMMA SpawnFailsKeeps ==
  ASSUME ThreadTypeOK, Orderly, Reported, NEW c \in Callers, SpawnFails(c)
  PROVE  Orderly' /\ Reported'
<1> USE DEF Orderly, Handshake, Alone, Reported, ResultsFit
<1>a. \A u \in Threads : pc[u] \in {"none", "gone"}
  BY DEF SpawnFails, Starts, ThreadsAreWhere, Places, LiveIsActive, BornIsAwaited, OneStarter, Live
<1>b. m_pthd' \notin Threads
  BY DEF SpawnFails
<1>p. \A u \in Threads : pc'[u] = pc[u]
  BY DEF SpawnFails, Starts, Free, Return, GoTo, ThreadTypeOK, RecordTypes, ActorTypes, CallTypes
<1>l. last' = last /\ last \in 0..MaxStarts
  BY DEF SpawnFails, Starts, Free, Return, GoTo, flags, recordVars, runVars, callVars,
     ThreadTypeOK, ActorTypes
<1>1. LiveIsActive'
  BY <1>a DEF LiveIsActive, Places, ThreadsAreWhere, BornIsAwaited, Live, LeftAlone, SpawnFails,
     Starts, Free, Return, GoTo, flags, recordVars, runVars, callVars, ThreadTypeOK, RecordTypes,
     ActorTypes, CallTypes, Results
<1>2. BornIsAwaited'
  BY <1>a DEF BornIsAwaited, Places, ThreadsAreWhere, LiveIsActive, Live, LeftAlone, SpawnFails,
     Starts, Free, Return, GoTo, flags, recordVars, runVars, callVars, ThreadTypeOK, RecordTypes,
     ActorTypes, CallTypes, Results
<1>3. OneStarter'
  BY <1>a DEF OneStarter, SpawnFails, Starts, Free, Return, GoTo, flags, recordVars, runVars,
     callVars, ThreadTypeOK, RecordTypes, ActorTypes, CallTypes, Results
<1>4. ThreadsAreWhere'
  BY <1>p, <1>l, <1>a DEF ThreadsAreWhere, Live, SpawnFails
<1>5. Places'
  BY <1>a DEF Places, SpawnFails, Starts, Free, Return, GoTo, flags, recordVars, runVars,
     callVars, ThreadTypeOK, RecordTypes, ActorTypes, CallTypes, Results
<1>6. DestroyerIsAlone'
  BY <1>a DEF DestroyerIsAlone, Places, ThreadsAreWhere, ThreadsAreWhere, SpawnFails, Starts,
     Free, Return, GoTo, flags, recordVars, runVars, callVars, ThreadTypeOK, RecordTypes,
     ActorTypes, CallTypes, Results
<1>7. DestroyedAtTheEnd'
  BY <1>a DEF DestroyedAtTheEnd, NobodyRuns, Places, ThreadsAreWhere, Live, DestroyerIsAlone,
     SpawnFails, Starts, Free, Return, GoTo, flags, recordVars, runVars, callVars, ThreadTypeOK,
     RecordTypes, ActorTypes, CallTypes, Results
<1>8. LeftAlone'
  BY <1>a DEF LeftAlone, NobodyRuns, SpawnFails, Starts, Free, Return, GoTo, flags, recordVars,
     runVars, callVars, ThreadTypeOK, RecordTypes, ActorTypes, CallTypes, Results
<1>9. InOrder'
  BY <1>p, <1>l, <1>a DEF InOrder, SpawnFails
<1>10. LaterOnesWait'
  BY <1>p, <1>l, <1>a DEF InOrder, LaterOnesWait, Live, SpawnFails
<1>11. LastRan'
  BY <1>p, <1>l, <1>a DEF LaterOnesWait, LastRan, Live, SpawnFails
<1>12. WaitsForOne'
  BY <1>a DEF WaitsForOne, Places, ThreadsAreWhere, Live, LeftAlone, NoResultYet, SpawnFails,
     Starts, Free, Return, GoTo, flags, recordVars, runVars, callVars, ThreadTypeOK, RecordTypes,
     ActorTypes, CallTypes, Results
<1>13. NoResultYet'
  BY <1>a DEF NoResultYet, LeftAlone, SpawnFails, Starts, Free, Return, GoTo, flags, recordVars,
     runVars, callVars, ThreadTypeOK, RecordTypes, ActorTypes, CallTypes, Results
<1>14. ResultIsStored'
  BY <1>a DEF ResultIsStored, Places, ThreadsAreWhere, InOrder, LaterOnesWait, LastRan, Live,
     SpawnFails, Starts, Free, Return, GoTo, flags, recordVars, runVars, callVars, ThreadTypeOK,
     RecordTypes, ActorTypes, CallTypes, Results
<1>15. NotEnded'
  BY <1>a DEF NotEnded, ThreadsAreWhere, Live, SpawnFails, Starts, Free, Return, GoTo, flags,
     recordVars, runVars, callVars, ThreadTypeOK, RecordTypes, ActorTypes, CallTypes, Results
<1>16. CodesAreTrue'
  BY <1>a DEF CodesAreTrue, ThreadsAreWhere, WaitsForOne, NoResultYet, SpawnFails, Starts, Free,
     Return, GoTo, flags, recordVars, runVars, callVars, ThreadTypeOK, RecordTypes, ActorTypes,
     CallTypes, Results
<1>17. FlagIsTrue'
  BY <1>b, <1>a DEF FlagIsTrue, Newest, InOrder, LaterOnesWait, LastRan, ThreadsAreWhere,
     Live, LiveIsActive, BornIsAwaited, LeftAlone,
     NobodyRuns, NotEnded, SpawnFails, Starts, Free, Return, GoTo, flags, recordVars, runVars,
     callVars, ThreadTypeOK, RecordTypes, ActorTypes, CallTypes, Results
<1>18. ResultIsClean'
  BY <1>b, <1>a DEF ResultIsClean, ReturnedIsClean, ThreadsAreWhere,
     Live, LiveIsActive, BornIsAwaited, LeftAlone,
     NobodyRuns, NotEnded, SpawnFails, Starts, Free, Return, GoTo, flags, recordVars, runVars,
     callVars, ThreadTypeOK, RecordTypes, ActorTypes, CallTypes, Results
<1>19. ReturnedIsClean'
  BY <1>b, <1>a DEF ReturnedIsClean, ThreadsAreWhere, Live, LiveIsActive, BornIsAwaited, LeftAlone,
     NobodyRuns, NotEnded, SpawnFails, Starts, Free, Return, GoTo, flags, recordVars, runVars,
     callVars, ThreadTypeOK, RecordTypes, ActorTypes, CallTypes, Results
<1> QED
  BY <1>1, <1>2, <1>3, <1>4, <1>5, <1>6, <1>7, <1>8, <1>9, <1>10, <1>11, <1>12, <1>13, <1>14, <1>15, <1>16, <1>17, <1>18, <1>19

(* The pthread enters and wakes its starter.                                *)
LEMMA EntryKeeps ==
  ASSUME ThreadTypeOK, Orderly, Reported, NEW t \in Threads, Entry(t)
  PROVE  Orderly' /\ Reported'
<1> USE DEF Orderly, Handshake, Alone, Reported, ResultsFit
<1>a. \A u \in Threads : u # t => pc[u] \in {"none", "gone"}
  BY DEF Entry, ThreadsAreWhere, LiveIsActive, BornIsAwaited, Live, ThreadTypeOK, RecordTypes
<1>p. \A u \in Threads : pc'[u] = IF u = t THEN "main" ELSE pc[u]
  BY DEF Entry, Free, Notified, ThreadTypeOK, RecordTypes, ActorTypes, CallTypes
<1>l. last' = t /\ last \in 0..MaxStarts
  BY DEF Entry, Free, Notified, flags, recordVars, runVars, callVars, ThreadTypeOK, ActorTypes
<1>1. LiveIsActive'
  BY <1>a, ZenonT(60) DEF LiveIsActive, Places, ThreadsAreWhere, BornIsAwaited, Live, LeftAlone, Entry, Free,
     Notified, flags, recordVars, runVars, callVars, ThreadTypeOK, RecordTypes, ActorTypes,
     CallTypes, Results
<1>2. BornIsAwaited'
  BY <1>a DEF BornIsAwaited, Places, ThreadsAreWhere, LiveIsActive, Live, LeftAlone, Entry, Free,
     Notified, flags, recordVars, runVars, callVars, ThreadTypeOK, RecordTypes, ActorTypes,
     CallTypes, Results
<1>3. OneStarter'
  BY <1>a DEF OneStarter, Entry, Free, Notified, flags, recordVars, runVars, callVars,
     ThreadTypeOK, RecordTypes, ActorTypes, CallTypes, Results
<1>4. ThreadsAreWhere'
  BY <1>p, <1>l, <1>a DEF ThreadsAreWhere, Live, Entry, Free, Notified
<1>5. Places'
  BY <1>a DEF Places, Entry, Free, Notified, flags, recordVars, runVars, callVars, ThreadTypeOK,
     RecordTypes, ActorTypes, CallTypes, Results
<1>6. DestroyerIsAlone'
  BY <1>a DEF DestroyerIsAlone, Places, ThreadsAreWhere, ThreadsAreWhere, Entry, Free, Notified,
     flags, recordVars, runVars, callVars, ThreadTypeOK, RecordTypes, ActorTypes, CallTypes,
     Results
<1>7. DestroyedAtTheEnd'
  BY <1>a DEF DestroyedAtTheEnd, NobodyRuns, Places, ThreadsAreWhere, Live, DestroyerIsAlone,
     Entry, Free, Notified, flags, recordVars, runVars, callVars, ThreadTypeOK, RecordTypes,
     ActorTypes, CallTypes, Results
<1>8. LeftAlone'
  BY <1>a DEF LeftAlone, NobodyRuns, Entry, Free, Notified, flags, recordVars, runVars, callVars,
     ThreadTypeOK, RecordTypes, ActorTypes, CallTypes, Results
<1>9. InOrder'
  BY <1>p, <1>l, <1>a DEF InOrder, Entry, Free, Notified
<1>10. LaterOnesWait'
  BY <1>p, <1>l, <1>a DEF InOrder, LaterOnesWait, Live, Entry, Free, Notified
<1>11. LastRan'
  BY <1>p, <1>l, <1>a DEF LaterOnesWait, LastRan, Live, Entry, Free, Notified
<1>12. WaitsForOne'
  BY <1>a DEF WaitsForOne, Places, ThreadsAreWhere, Live, LeftAlone, NoResultYet, Entry, Free,
     Notified, flags, recordVars, runVars, callVars, ThreadTypeOK, RecordTypes, ActorTypes,
     CallTypes, Results
<1>13. NoResultYet'
  BY <1>a DEF NoResultYet, LeftAlone, Entry, Free, Notified, flags, recordVars, runVars, callVars,
     ThreadTypeOK, RecordTypes, ActorTypes, CallTypes, Results
<1>14. ResultIsStored'
  BY <1>a DEF ResultIsStored, Places, ThreadsAreWhere, InOrder, LaterOnesWait, LastRan, Live,
     NotEnded, Entry, Free, Notified, flags, recordVars, runVars, callVars, ThreadTypeOK,
     RecordTypes, ActorTypes, CallTypes, Results
<1>15. NotEnded'
  BY <1>a DEF NotEnded, ThreadsAreWhere, Live, Entry, Free, Notified, flags, recordVars, runVars,
     callVars, ThreadTypeOK, RecordTypes, ActorTypes, CallTypes, Results
<1>16. CodesAreTrue'
  BY <1>a DEF CodesAreTrue, ThreadsAreWhere, WaitsForOne, NoResultYet, Entry, Free, Notified,
     flags, recordVars, runVars, callVars, ThreadTypeOK, RecordTypes, ActorTypes, CallTypes,
     Results
<1>17. FlagIsTrue'
  BY <1>a DEF FlagIsTrue, Newest, InOrder, LaterOnesWait, LastRan, ThreadsAreWhere,
     Live, LiveIsActive, BornIsAwaited, LeftAlone,
     NobodyRuns, NotEnded, Entry, Free, Notified, flags, recordVars, runVars, callVars,
     ThreadTypeOK, RecordTypes, ActorTypes, CallTypes, Results
<1>18. ResultIsClean'
  BY <1>a DEF ResultIsClean, ReturnedIsClean, ThreadsAreWhere,
     Live, LiveIsActive, BornIsAwaited, LeftAlone,
     NobodyRuns, NotEnded, Entry, Free, Notified, flags, recordVars, runVars, callVars,
     ThreadTypeOK, RecordTypes, ActorTypes, CallTypes, Results
<1>19. ReturnedIsClean'
  BY <1>a DEF ReturnedIsClean, ThreadsAreWhere, Live, LiveIsActive, BornIsAwaited, LeftAlone,
     NobodyRuns, NotEnded, Entry, Free, Notified, flags, recordVars, runVars, callVars,
     ThreadTypeOK, RecordTypes, ActorTypes, CallTypes, Results
<1> QED
  BY <1>1, <1>2, <1>3, <1>4, <1>5, <1>6, <1>7, <1>8, <1>9, <1>10, <1>11, <1>12, <1>13, <1>14, <1>15, <1>16, <1>17, <1>18, <1>19

(* The main procedure returns.                                              *)
LEMMA MainReturnsKeeps ==
  ASSUME ThreadTypeOK, Orderly, Reported, NEW t \in Threads, MainReturns(t)
  PROVE  Orderly' /\ Reported'
<1> USE DEF Orderly, Handshake, Alone, Reported, ResultsFit
<1>p. \A u \in Threads : pc'[u] = IF u = t THEN "returned" ELSE pc[u]
  BY DEF MainReturns, GoTo, Free, ThreadTypeOK, RecordTypes, ActorTypes, CallTypes
<1>l. last' = last /\ last \in 0..MaxStarts
  BY DEF MainReturns, GoTo, Free, flags, recordVars, runVars, callVars, ThreadTypeOK, ActorTypes
<1>1. LiveIsActive'
  BY DEF LiveIsActive, Places, ThreadsAreWhere, BornIsAwaited, Live, LeftAlone, MainReturns, GoTo,
     Free, flags, recordVars, runVars, callVars, ThreadTypeOK, RecordTypes, ActorTypes, CallTypes,
     Results
<1>2. BornIsAwaited'
  BY DEF BornIsAwaited, Places, ThreadsAreWhere, LiveIsActive, Live, LeftAlone, MainReturns, GoTo,
     Free, flags, recordVars, runVars, callVars, ThreadTypeOK, RecordTypes, ActorTypes, CallTypes,
     Results
<1>3. OneStarter'
  BY DEF OneStarter, MainReturns, GoTo, Free, flags, recordVars, runVars, callVars, ThreadTypeOK,
     RecordTypes, ActorTypes, CallTypes, Results
<1>4. ThreadsAreWhere'
  BY <1>p, <1>l DEF ThreadsAreWhere, Live, MainReturns
<1>5. Places'
  BY DEF Places, MainReturns, GoTo, Free, flags, recordVars, runVars, callVars, ThreadTypeOK,
     RecordTypes, ActorTypes, CallTypes, Results
<1>6. DestroyerIsAlone'
  BY DEF DestroyerIsAlone, Places, ThreadsAreWhere, ThreadsAreWhere, MainReturns, GoTo, Free,
     flags, recordVars, runVars, callVars, ThreadTypeOK, RecordTypes, ActorTypes, CallTypes,
     Results
<1>7. DestroyedAtTheEnd'
  BY DEF DestroyedAtTheEnd, NobodyRuns, Places, ThreadsAreWhere, Live, DestroyerIsAlone,
     MainReturns, GoTo, Free, flags, recordVars, runVars, callVars, ThreadTypeOK, RecordTypes,
     ActorTypes, CallTypes, Results
<1>8. LeftAlone'
  BY DEF LeftAlone, NobodyRuns, MainReturns, GoTo, Free, flags, recordVars, runVars, callVars,
     ThreadTypeOK, RecordTypes, ActorTypes, CallTypes, Results
<1>9. InOrder'
  BY <1>p, <1>l DEF InOrder, MainReturns
<1>10. LaterOnesWait'
  BY <1>p, <1>l DEF InOrder, LaterOnesWait, Live, MainReturns
<1>11. LastRan'
  BY <1>p, <1>l DEF LaterOnesWait, LastRan, Live, MainReturns
<1>12. WaitsForOne'
  BY DEF WaitsForOne, Places, ThreadsAreWhere, Live, LeftAlone, NoResultYet, MainReturns, GoTo,
     Free, flags, recordVars, runVars, callVars, ThreadTypeOK, RecordTypes, ActorTypes, CallTypes,
     Results
<1>13. NoResultYet'
  BY DEF NoResultYet, LeftAlone, MainReturns, GoTo, Free, flags, recordVars, runVars, callVars,
     ThreadTypeOK, RecordTypes, ActorTypes, CallTypes, Results
<1>14. ResultIsStored'
  BY DEF ResultIsStored, Places, ThreadsAreWhere, InOrder, LaterOnesWait, LastRan, Live,
     MainReturns, GoTo, Free, flags, recordVars, runVars, callVars, ThreadTypeOK, RecordTypes,
     ActorTypes, CallTypes, Results
<1>15. NotEnded'
  BY DEF NotEnded, ThreadsAreWhere, Live, MainReturns, GoTo, Free, flags, recordVars, runVars,
     callVars, ThreadTypeOK, RecordTypes, ActorTypes, CallTypes, Results
<1>16. CodesAreTrue'
  <2>1. ended[t] = "not" /\ \A u \in Threads : ended'[u] = IF u = t THEN "clean" ELSE ended[u]
    BY DEF MainReturns, NotEnded, ThreadTypeOK, ActorTypes
  <2>2. ASSUME NEW c \in Callers, op[c] = "get_result_code", ret[c] = "OK", t <= begun[c] PROVE FALSE
    <3>1. begun[c] \in Threads /\ pc[begun[c]] = "gone"
      BY <2>2 DEF WaitsForOne, ThreadTypeOK, CallTypes
    <3>2. QED
      BY <2>2, <3>1 DEF MainReturns, LaterOnesWait, Live
  <2>3. \A c \in Callers : code[c] \in Threads \cup {NOT_STARTED, SET}
    BY DEF ThreadTypeOK, CallTypes
  <2>4. UNCHANGED <<op, ret, code, begun, before>>
    BY DEF MainReturns, callVars
  <2>5. QED
    BY <2>1, <2>2, <2>3, <2>4 DEF CodesAreTrue
<1>17. FlagIsTrue'
  BY DEF FlagIsTrue, Newest, InOrder, LaterOnesWait, LastRan, ThreadsAreWhere,
     Live, LiveIsActive, BornIsAwaited, LeftAlone, NobodyRuns,
     NotEnded, MainReturns, GoTo, Free, flags, recordVars, runVars, callVars, ThreadTypeOK,
     RecordTypes, ActorTypes, CallTypes, Results
<1>18. ResultIsClean'
  BY DEF ResultIsClean, ReturnedIsClean, ThreadsAreWhere,
     Live, LiveIsActive, BornIsAwaited, LeftAlone, NobodyRuns,
     NotEnded, MainReturns, GoTo, Free, flags, recordVars, runVars, callVars, ThreadTypeOK,
     RecordTypes, ActorTypes, CallTypes, Results
<1>19. ReturnedIsClean'
  BY DEF ReturnedIsClean, ThreadsAreWhere, Live, LiveIsActive, BornIsAwaited, LeftAlone, NobodyRuns,
     NotEnded, MainReturns, GoTo, Free, flags, recordVars, runVars, callVars, ThreadTypeOK,
     RecordTypes, ActorTypes, CallTypes, Results
<1> QED
  BY <1>1, <1>2, <1>3, <1>4, <1>5, <1>6, <1>7, <1>8, <1>9, <1>10, <1>11, <1>12, <1>13, <1>14, <1>15, <1>16, <1>17, <1>18, <1>19

(* The main procedure is canceled.                                          *)
LEMMA ActOnCancelKeeps ==
  ASSUME ThreadTypeOK, Orderly, Reported, NEW t \in Threads, ActOnCancel(t)
  PROVE  Orderly' /\ Reported'
<1> USE DEF Orderly, Handshake, Alone, Reported, ResultsFit
<1>p. \A u \in Threads : pc'[u] = IF u = t THEN "ending" ELSE pc[u]
  BY DEF ActOnCancel, GoTo, Free, ThreadTypeOK, RecordTypes, ActorTypes, CallTypes
<1>l. last' = last /\ last \in 0..MaxStarts
  BY DEF ActOnCancel, GoTo, Free, flags, recordVars, runVars, callVars, ThreadTypeOK, ActorTypes
<1>1. LiveIsActive'
  BY DEF LiveIsActive, Places, ThreadsAreWhere, BornIsAwaited, Live, LeftAlone, ActOnCancel, GoTo,
     Free, flags, recordVars, runVars, callVars, ThreadTypeOK, RecordTypes, ActorTypes, CallTypes,
     Results
<1>2. BornIsAwaited'
  BY DEF BornIsAwaited, Places, ThreadsAreWhere, LiveIsActive, Live, LeftAlone, ActOnCancel, GoTo,
     Free, flags, recordVars, runVars, callVars, ThreadTypeOK, RecordTypes, ActorTypes, CallTypes,
     Results
<1>3. OneStarter'
  BY DEF OneStarter, ActOnCancel, GoTo, Free, flags, recordVars, runVars, callVars, ThreadTypeOK,
     RecordTypes, ActorTypes, CallTypes, Results
<1>4. ThreadsAreWhere'
  BY <1>p, <1>l DEF ThreadsAreWhere, Live, ActOnCancel
<1>5. Places'
  BY DEF Places, ActOnCancel, GoTo, Free, flags, recordVars, runVars, callVars, ThreadTypeOK,
     RecordTypes, ActorTypes, CallTypes, Results
<1>6. DestroyerIsAlone'
  BY DEF DestroyerIsAlone, Places, ThreadsAreWhere, ThreadsAreWhere, ActOnCancel, GoTo, Free,
     flags, recordVars, runVars, callVars, ThreadTypeOK, RecordTypes, ActorTypes, CallTypes,
     Results
<1>7. DestroyedAtTheEnd'
  BY DEF DestroyedAtTheEnd, NobodyRuns, Places, ThreadsAreWhere, Live, DestroyerIsAlone,
     ActOnCancel, GoTo, Free, flags, recordVars, runVars, callVars, ThreadTypeOK, RecordTypes,
     ActorTypes, CallTypes, Results
<1>8. LeftAlone'
  BY DEF LeftAlone, NobodyRuns, ActOnCancel, GoTo, Free, flags, recordVars, runVars, callVars,
     ThreadTypeOK, RecordTypes, ActorTypes, CallTypes, Results
<1>9. InOrder'
  BY <1>p, <1>l DEF InOrder, ActOnCancel
<1>10. LaterOnesWait'
  BY <1>p, <1>l DEF InOrder, LaterOnesWait, Live, ActOnCancel
<1>11. LastRan'
  BY <1>p, <1>l DEF LaterOnesWait, LastRan, Live, ActOnCancel
<1>12. WaitsForOne'
  BY DEF WaitsForOne, Places, ThreadsAreWhere, Live, LeftAlone, NoResultYet, ActOnCancel, GoTo,
     Free, flags, recordVars, runVars, callVars, ThreadTypeOK, RecordTypes, ActorTypes, CallTypes,
     Results
<1>13. NoResultYet'
  BY DEF NoResultYet, LeftAlone, ActOnCancel, GoTo, Free, flags, recordVars, runVars, callVars,
     ThreadTypeOK, RecordTypes, ActorTypes, CallTypes, Results
<1>14. ResultIsStored'
  BY DEF ResultIsStored, Places, ThreadsAreWhere, InOrder, LaterOnesWait, LastRan, Live,
     ActOnCancel, GoTo, Free, flags, recordVars, runVars, callVars, ThreadTypeOK, RecordTypes,
     ActorTypes, CallTypes, Results
<1>15. NotEnded'
  BY DEF NotEnded, ThreadsAreWhere, Live, ActOnCancel, GoTo, Free, flags, recordVars, runVars,
     callVars, ThreadTypeOK, RecordTypes, ActorTypes, CallTypes, Results
<1>16. CodesAreTrue'
  BY DEF CodesAreTrue, ThreadsAreWhere, WaitsForOne, NoResultYet, NotEnded, ActOnCancel, GoTo,
     Free, flags, recordVars, runVars, callVars, ThreadTypeOK, RecordTypes, ActorTypes, CallTypes,
     Results
<1>17. FlagIsTrue'
  BY DEF FlagIsTrue, Newest, InOrder, LaterOnesWait, LastRan, ThreadsAreWhere,
     Live, LiveIsActive, BornIsAwaited, LeftAlone, NobodyRuns,
     NotEnded, ActOnCancel, GoTo, Free, flags, recordVars, runVars, callVars, ThreadTypeOK,
     RecordTypes, ActorTypes, CallTypes, Results
<1>18. ResultIsClean'
  BY DEF ResultIsClean, ReturnedIsClean, ThreadsAreWhere,
     Live, LiveIsActive, BornIsAwaited, LeftAlone, NobodyRuns,
     NotEnded, ActOnCancel, GoTo, Free, flags, recordVars, runVars, callVars, ThreadTypeOK,
     RecordTypes, ActorTypes, CallTypes, Results
<1>19. ReturnedIsClean'
  BY DEF ReturnedIsClean, ThreadsAreWhere, Live, LiveIsActive, BornIsAwaited, LeftAlone, NobodyRuns,
     NotEnded, ActOnCancel, GoTo, Free, flags, recordVars, runVars, callVars, ThreadTypeOK,
     RecordTypes, ActorTypes, CallTypes, Results
<1> QED
  BY <1>1, <1>2, <1>3, <1>4, <1>5, <1>6, <1>7, <1>8, <1>9, <1>10, <1>11, <1>12, <1>13, <1>14, <1>15, <1>16, <1>17, <1>18, <1>19

(* The result of the main procedure is stored: it is the latest.            *)
LEMMA StoreResultKeeps ==
  ASSUME ThreadTypeOK, Orderly, Reported, NEW t \in Threads, StoreResult(t)
  PROVE  Orderly' /\ Reported'
<1> USE DEF Orderly, Handshake, Alone, Reported, ResultsFit
<1>p. \A u \in Threads : pc'[u] = IF u = t THEN "ending" ELSE pc[u]
  BY DEF StoreResult, GoTo, Free, ResultOf, ThreadTypeOK, RecordTypes, ActorTypes, CallTypes
<1>l. last' = last /\ last \in 0..MaxStarts
  BY DEF StoreResult, GoTo, Free, ResultOf, flags, recordVars, runVars, callVars, ThreadTypeOK,
     ActorTypes
<1>1. LiveIsActive'
  BY DEF LiveIsActive, Places, ThreadsAreWhere, BornIsAwaited, Live, LeftAlone, StoreResult, GoTo,
     Free, ResultOf, flags, recordVars, runVars, callVars, ThreadTypeOK, RecordTypes, ActorTypes,
     CallTypes, Results
<1>2. BornIsAwaited'
  BY DEF BornIsAwaited, Places, ThreadsAreWhere, LiveIsActive, Live, LeftAlone, StoreResult, GoTo,
     Free, ResultOf, flags, recordVars, runVars, callVars, ThreadTypeOK, RecordTypes, ActorTypes,
     CallTypes, Results
<1>3. OneStarter'
  BY DEF OneStarter, StoreResult, GoTo, Free, ResultOf, flags, recordVars, runVars, callVars,
     ThreadTypeOK, RecordTypes, ActorTypes, CallTypes, Results
<1>4. ThreadsAreWhere'
  BY <1>p, <1>l DEF ThreadsAreWhere, Live, StoreResult
<1>5. Places'
  BY DEF Places, StoreResult, GoTo, Free, ResultOf, flags, recordVars, runVars, callVars,
     ThreadTypeOK, RecordTypes, ActorTypes, CallTypes, Results
<1>6. DestroyerIsAlone'
  BY DEF DestroyerIsAlone, Places, ThreadsAreWhere, ThreadsAreWhere, StoreResult, GoTo, Free,
     ResultOf, flags, recordVars, runVars, callVars, ThreadTypeOK, RecordTypes, ActorTypes,
     CallTypes, Results
<1>7. DestroyedAtTheEnd'
  BY DEF DestroyedAtTheEnd, NobodyRuns, Places, ThreadsAreWhere, Live, DestroyerIsAlone,
     StoreResult, GoTo, Free, ResultOf, flags, recordVars, runVars, callVars, ThreadTypeOK,
     RecordTypes, ActorTypes, CallTypes, Results
<1>8. LeftAlone'
  BY DEF LeftAlone, NobodyRuns, StoreResult, GoTo, Free, ResultOf, flags, recordVars, runVars,
     callVars, ThreadTypeOK, RecordTypes, ActorTypes, CallTypes, Results
<1>9. InOrder'
  BY <1>p, <1>l DEF InOrder, StoreResult
<1>10. LaterOnesWait'
  BY <1>p, <1>l DEF InOrder, LaterOnesWait, Live, StoreResult
<1>11. LastRan'
  BY <1>p, <1>l DEF LaterOnesWait, LastRan, Live, StoreResult
<1>12. WaitsForOne'
  BY DEF WaitsForOne, Places, ThreadsAreWhere, Live, LeftAlone, NoResultYet, StoreResult, GoTo,
     Free, ResultOf, flags, recordVars, runVars, callVars, ThreadTypeOK, RecordTypes, ActorTypes,
     CallTypes, Results
<1>13. NoResultYet'
  BY DEF NoResultYet, LeftAlone, StoreResult, GoTo, Free, ResultOf, flags, recordVars, runVars,
     callVars, ThreadTypeOK, RecordTypes, ActorTypes, CallTypes, Results
<1>14. ResultIsStored'
  BY DEF ResultIsStored, Places, ThreadsAreWhere, InOrder, LaterOnesWait, LastRan, Live,
     StoreResult, GoTo, Free, ResultOf, flags, recordVars, runVars, callVars, ThreadTypeOK,
     RecordTypes, ActorTypes, CallTypes, Results
<1>15. NotEnded'
  BY DEF NotEnded, ThreadsAreWhere, Live, StoreResult, GoTo, Free, ResultOf, flags, recordVars,
     runVars, callVars, ThreadTypeOK, RecordTypes, ActorTypes, CallTypes, Results
<1>16. CodesAreTrue'
  BY DEF CodesAreTrue, ThreadsAreWhere, WaitsForOne, NoResultYet, NotEnded, StoreResult, GoTo,
     Free, ResultOf, flags, recordVars, runVars, callVars, ThreadTypeOK, RecordTypes, ActorTypes,
     CallTypes, Results
<1>17. FlagIsTrue'
  BY DEF FlagIsTrue, Newest, InOrder, LaterOnesWait, LastRan, ThreadsAreWhere,
     Live, LiveIsActive, BornIsAwaited, LeftAlone, NobodyRuns,
     NotEnded, StoreResult, GoTo, Free, ResultOf, flags, recordVars, runVars, callVars,
     ThreadTypeOK, RecordTypes, ActorTypes, CallTypes, Results
<1>18. ResultIsClean'
  BY DEF ResultIsClean, ReturnedIsClean, ThreadsAreWhere,
     Live, LiveIsActive, BornIsAwaited, LeftAlone, NobodyRuns,
     NotEnded, StoreResult, GoTo, Free, ResultOf, flags, recordVars, runVars, callVars,
     ThreadTypeOK, RecordTypes, ActorTypes, CallTypes, Results
<1>19. ReturnedIsClean'
  BY DEF ReturnedIsClean, ThreadsAreWhere, Live, LiveIsActive, BornIsAwaited, LeftAlone, NobodyRuns,
     NotEnded, StoreResult, GoTo, Free, ResultOf, flags, recordVars, runVars, callVars,
     ThreadTypeOK, RecordTypes, ActorTypes, CallTypes, Results
<1> QED
  BY <1>1, <1>2, <1>3, <1>4, <1>5, <1>6, <1>7, <1>8, <1>9, <1>10, <1>11, <1>12, <1>13, <1>14, <1>15, <1>16, <1>17, <1>18, <1>19

(* The pthread takes the lock to finalize.                                  *)
LEMMA FinalizeKeeps ==
  ASSUME ThreadTypeOK, Orderly, Reported, NEW t \in Threads, Finalize(t)
  PROVE  Orderly' /\ Reported'
<1> USE DEF Orderly, Handshake, Alone, Reported, ResultsFit
<1>p. \A u \in Threads : pc'[u] = IF u = t THEN "final" ELSE pc[u]
  BY DEF Finalize, GoTo, Free, ThreadTypeOK, RecordTypes, ActorTypes, CallTypes
<1>l. last' = last /\ last \in 0..MaxStarts
  BY DEF Finalize, GoTo, Free, flags, recordVars, runVars, callVars, ThreadTypeOK, ActorTypes
<1>1. LiveIsActive'
  BY DEF LiveIsActive, Places, ThreadsAreWhere, BornIsAwaited, Live, LeftAlone, Finalize, GoTo,
     Free, flags, recordVars, runVars, callVars, ThreadTypeOK, RecordTypes, ActorTypes, CallTypes,
     Results
<1>2. BornIsAwaited'
  BY DEF BornIsAwaited, Places, ThreadsAreWhere, LiveIsActive, Live, LeftAlone, Finalize, GoTo,
     Free, flags, recordVars, runVars, callVars, ThreadTypeOK, RecordTypes, ActorTypes, CallTypes,
     Results
<1>3. OneStarter'
  BY DEF OneStarter, Finalize, GoTo, Free, flags, recordVars, runVars, callVars, ThreadTypeOK,
     RecordTypes, ActorTypes, CallTypes, Results
<1>4. ThreadsAreWhere'
  BY <1>p, <1>l DEF ThreadsAreWhere, Live, Finalize
<1>5. Places'
  BY DEF Places, Finalize, GoTo, Free, flags, recordVars, runVars, callVars, ThreadTypeOK,
     RecordTypes, ActorTypes, CallTypes, Results
<1>6. DestroyerIsAlone'
  BY DEF DestroyerIsAlone, Places, ThreadsAreWhere, ThreadsAreWhere, Finalize, GoTo, Free, flags,
     recordVars, runVars, callVars, ThreadTypeOK, RecordTypes, ActorTypes, CallTypes, Results
<1>7. DestroyedAtTheEnd'
  BY DEF DestroyedAtTheEnd, NobodyRuns, Places, ThreadsAreWhere, Live, DestroyerIsAlone, Finalize,
     GoTo, Free, flags, recordVars, runVars, callVars, ThreadTypeOK, RecordTypes, ActorTypes,
     CallTypes, Results
<1>8. LeftAlone'
  BY DEF LeftAlone, NobodyRuns, Finalize, GoTo, Free, flags, recordVars, runVars, callVars,
     ThreadTypeOK, RecordTypes, ActorTypes, CallTypes, Results
<1>9. InOrder'
  BY <1>p, <1>l DEF InOrder, Finalize
<1>10. LaterOnesWait'
  BY <1>p, <1>l DEF InOrder, LaterOnesWait, Live, Finalize
<1>11. LastRan'
  BY <1>p, <1>l DEF LaterOnesWait, LastRan, Live, Finalize
<1>12. WaitsForOne'
  BY DEF WaitsForOne, Places, ThreadsAreWhere, Live, LeftAlone, NoResultYet, Finalize, GoTo, Free,
     flags, recordVars, runVars, callVars, ThreadTypeOK, RecordTypes, ActorTypes, CallTypes,
     Results
<1>13. NoResultYet'
  BY DEF NoResultYet, LeftAlone, Finalize, GoTo, Free, flags, recordVars, runVars, callVars,
     ThreadTypeOK, RecordTypes, ActorTypes, CallTypes, Results
<1>14. ResultIsStored'
  BY DEF ResultIsStored, Places, ThreadsAreWhere, InOrder, LaterOnesWait, LastRan, Live, Finalize,
     GoTo, Free, flags, recordVars, runVars, callVars, ThreadTypeOK, RecordTypes, ActorTypes,
     CallTypes, Results
<1>15. NotEnded'
  BY DEF NotEnded, ThreadsAreWhere, Live, Finalize, GoTo, Free, flags, recordVars, runVars,
     callVars, ThreadTypeOK, RecordTypes, ActorTypes, CallTypes, Results
<1>16. CodesAreTrue'
  BY DEF CodesAreTrue, ThreadsAreWhere, WaitsForOne, NoResultYet, NotEnded, Finalize, GoTo, Free,
     flags, recordVars, runVars, callVars, ThreadTypeOK, RecordTypes, ActorTypes, CallTypes,
     Results
<1>17. FlagIsTrue'
  BY DEF FlagIsTrue, Newest, InOrder, LaterOnesWait, LastRan, ThreadsAreWhere,
     Live, LiveIsActive, BornIsAwaited, LeftAlone, NobodyRuns,
     NotEnded, Finalize, GoTo, Free, flags, recordVars, runVars, callVars, ThreadTypeOK,
     RecordTypes, ActorTypes, CallTypes, Results
<1>18. ResultIsClean'
  BY DEF ResultIsClean, ReturnedIsClean, ThreadsAreWhere,
     Live, LiveIsActive, BornIsAwaited, LeftAlone, NobodyRuns,
     NotEnded, Finalize, GoTo, Free, flags, recordVars, runVars, callVars, ThreadTypeOK,
     RecordTypes, ActorTypes, CallTypes, Results
<1>19. ReturnedIsClean'
  BY DEF ReturnedIsClean, ThreadsAreWhere, Live, LiveIsActive, BornIsAwaited, LeftAlone, NobodyRuns,
     NotEnded, Finalize, GoTo, Free, flags, recordVars, runVars, callVars, ThreadTypeOK,
     RecordTypes, ActorTypes, CallTypes, Results
<1> QED
  BY <1>1, <1>2, <1>3, <1>4, <1>5, <1>6, <1>7, <1>8, <1>9, <1>10, <1>11, <1>12, <1>13, <1>14, <1>15, <1>16, <1>17, <1>18, <1>19

(* A late cancel ends the pthread in its finalize procedure.                *)
LEMMA DiesInFinalKeeps ==
  ASSUME ThreadTypeOK, Orderly, Reported, NEW t \in Threads, DiesInFinal(t)
  PROVE  Orderly' /\ Reported'
<1> USE DEF Orderly, Handshake, Alone, Reported, ResultsFit
<1>p. \A u \in Threads : pc'[u] = IF u = t THEN "stuck" ELSE pc[u]
  BY DEF DiesInFinal, GoTo, Free, ThreadTypeOK, RecordTypes, ActorTypes, CallTypes
<1>l. last' = last /\ last \in 0..MaxStarts
  BY DEF DiesInFinal, GoTo, Free, flags, recordVars, runVars, callVars, ThreadTypeOK, ActorTypes
<1>1. LiveIsActive'
  BY DEF LiveIsActive, Places, ThreadsAreWhere, BornIsAwaited, Live, LeftAlone, DiesInFinal, GoTo,
     Free, flags, recordVars, runVars, callVars, ThreadTypeOK, RecordTypes, ActorTypes, CallTypes,
     Results
<1>2. BornIsAwaited'
  BY DEF BornIsAwaited, Places, ThreadsAreWhere, LiveIsActive, Live, LeftAlone, DiesInFinal, GoTo,
     Free, flags, recordVars, runVars, callVars, ThreadTypeOK, RecordTypes, ActorTypes, CallTypes,
     Results
<1>3. OneStarter'
  BY DEF OneStarter, DiesInFinal, GoTo, Free, flags, recordVars, runVars, callVars, ThreadTypeOK,
     RecordTypes, ActorTypes, CallTypes, Results
<1>4. ThreadsAreWhere'
  BY <1>p, <1>l DEF ThreadsAreWhere, Live, DiesInFinal
<1>5. Places'
  BY DEF Places, DiesInFinal, GoTo, Free, flags, recordVars, runVars, callVars, ThreadTypeOK,
     RecordTypes, ActorTypes, CallTypes, Results
<1>6. DestroyerIsAlone'
  BY DEF DestroyerIsAlone, Places, ThreadsAreWhere, ThreadsAreWhere, DiesInFinal, GoTo, Free,
     flags, recordVars, runVars, callVars, ThreadTypeOK, RecordTypes, ActorTypes, CallTypes,
     Results
<1>7. DestroyedAtTheEnd'
  BY DEF DestroyedAtTheEnd, NobodyRuns, Places, ThreadsAreWhere, Live, DestroyerIsAlone,
     DiesInFinal, GoTo, Free, flags, recordVars, runVars, callVars, ThreadTypeOK, RecordTypes,
     ActorTypes, CallTypes, Results
<1>8. LeftAlone'
  BY DEF LeftAlone, NobodyRuns, DiesInFinal, GoTo, Free, flags, recordVars, runVars, callVars,
     ThreadTypeOK, RecordTypes, ActorTypes, CallTypes, Results
<1>9. InOrder'
  BY <1>p, <1>l DEF InOrder, DiesInFinal
<1>10. LaterOnesWait'
  BY <1>p, <1>l DEF InOrder, LaterOnesWait, Live, DiesInFinal
<1>11. LastRan'
  BY <1>p, <1>l DEF LaterOnesWait, LastRan, Live, DiesInFinal
<1>12. WaitsForOne'
  BY DEF WaitsForOne, Places, ThreadsAreWhere, Live, LeftAlone, NoResultYet, DiesInFinal, GoTo,
     Free, flags, recordVars, runVars, callVars, ThreadTypeOK, RecordTypes, ActorTypes, CallTypes,
     Results
<1>13. NoResultYet'
  BY DEF NoResultYet, LeftAlone, DiesInFinal, GoTo, Free, flags, recordVars, runVars, callVars,
     ThreadTypeOK, RecordTypes, ActorTypes, CallTypes, Results
<1>14. ResultIsStored'
  BY DEF ResultIsStored, Places, ThreadsAreWhere, InOrder, LaterOnesWait, LastRan, Live,
     DiesInFinal, GoTo, Free, flags, recordVars, runVars, callVars, ThreadTypeOK, RecordTypes,
     ActorTypes, CallTypes, Results
<1>15. NotEnded'
  BY DEF NotEnded, ThreadsAreWhere, Live, DiesInFinal, GoTo, Free, flags, recordVars, runVars,
     callVars, ThreadTypeOK, RecordTypes, ActorTypes, CallTypes, Results
<1>16. CodesAreTrue'
  BY DEF CodesAreTrue, ThreadsAreWhere, WaitsForOne, NoResultYet, NotEnded, DiesInFinal, GoTo,
     Free, flags, recordVars, runVars, callVars, ThreadTypeOK, RecordTypes, ActorTypes, CallTypes,
     Results
<1>17. FlagIsTrue'
  BY DEF FlagIsTrue, Newest, InOrder, LaterOnesWait, LastRan, ThreadsAreWhere,
     Live, LiveIsActive, BornIsAwaited, LeftAlone, NobodyRuns,
     NotEnded, DiesInFinal, GoTo, Free, flags, recordVars, runVars, callVars, ThreadTypeOK,
     RecordTypes, ActorTypes, CallTypes, Results
<1>18. ResultIsClean'
  BY DEF ResultIsClean, ReturnedIsClean, ThreadsAreWhere,
     Live, LiveIsActive, BornIsAwaited, LeftAlone, NobodyRuns,
     NotEnded, DiesInFinal, GoTo, Free, flags, recordVars, runVars, callVars, ThreadTypeOK,
     RecordTypes, ActorTypes, CallTypes, Results
<1>19. ReturnedIsClean'
  BY DEF ReturnedIsClean, ThreadsAreWhere, Live, LiveIsActive, BornIsAwaited, LeftAlone, NobodyRuns,
     NotEnded, DiesInFinal, GoTo, Free, flags, recordVars, runVars, callVars, ThreadTypeOK,
     RecordTypes, ActorTypes, CallTypes, Results
<1> QED
  BY <1>1, <1>2, <1>3, <1>4, <1>5, <1>6, <1>7, <1>8, <1>9, <1>10, <1>11, <1>12, <1>13, <1>14, <1>15, <1>16, <1>17, <1>18, <1>19

(* The pthread is over and wakes who waits for it.                          *)
LEMMA FinalizedKeeps ==
  ASSUME ThreadTypeOK, Orderly, Reported, NEW t \in Threads, Finalized(t)
  PROVE  Orderly' /\ Reported'
<1> USE DEF Orderly, Handshake, Alone, Reported, ResultsFit
<1>a. ~m_do_autodelete /\ \A u \in Threads : u # t => pc[u] \in {"none", "gone"}
  BY DEF Finalized, ThreadsAreWhere, LiveIsActive, BornIsAwaited, Live, ThreadTypeOK, RecordTypes
<1>b. m_pthd' \notin Threads
  BY DEF Finalized
<1>p. \A u \in Threads : pc'[u] = IF u = t THEN "gone" ELSE pc[u]
  BY <1>a DEF Finalized, WakeWaiters, Notified, DoAutodelete, ThreadTypeOK, RecordTypes,
     ActorTypes, CallTypes, ThreadsAreWhere, Live
<1>l. last' = last /\ last \in 0..MaxStarts
  BY DEF Finalized, WakeWaiters, Notified, DoAutodelete, flags, recordVars, runVars, callVars,
     ThreadTypeOK, ActorTypes
<1>1. LiveIsActive'
  BY <1>a DEF LiveIsActive, Places, ThreadsAreWhere, BornIsAwaited, Live, LeftAlone, Finalized,
     WakeWaiters, Notified, DoAutodelete, flags, recordVars, runVars, callVars, ThreadTypeOK,
     RecordTypes, ActorTypes, CallTypes, Results
<1>2. BornIsAwaited'
  BY <1>a DEF BornIsAwaited, Places, ThreadsAreWhere, LiveIsActive, Live, LeftAlone, Finalized,
     WakeWaiters, Notified, DoAutodelete, flags, recordVars, runVars, callVars, ThreadTypeOK,
     RecordTypes, ActorTypes, CallTypes, Results
<1>3. OneStarter'
  BY <1>a DEF OneStarter, Finalized, WakeWaiters, Notified, DoAutodelete, flags, recordVars,
     runVars, callVars, ThreadTypeOK, RecordTypes, ActorTypes, CallTypes, Results
<1>4. ThreadsAreWhere'
  BY <1>p, <1>l, <1>a DEF ThreadsAreWhere, Live, Finalized
<1>5. Places'
  BY <1>a DEF Places, Finalized, WakeWaiters, Notified, DoAutodelete, flags, recordVars, runVars,
     callVars, ThreadTypeOK, RecordTypes, ActorTypes, CallTypes, Results
<1>6. DestroyerIsAlone'
  BY <1>a DEF DestroyerIsAlone, Places, ThreadsAreWhere, ThreadsAreWhere, Finalized, WakeWaiters,
     Notified, DoAutodelete, flags, recordVars, runVars, callVars, ThreadTypeOK, RecordTypes,
     ActorTypes, CallTypes, Results
<1>7. DestroyedAtTheEnd'
  BY <1>a DEF DestroyedAtTheEnd, NobodyRuns, Places, ThreadsAreWhere, Live, DestroyerIsAlone,
     Finalized, WakeWaiters, Notified, DoAutodelete, flags, recordVars, runVars, callVars,
     ThreadTypeOK, RecordTypes, ActorTypes, CallTypes, Results
<1>8. LeftAlone'
  BY <1>a DEF LeftAlone, NobodyRuns, Finalized, WakeWaiters, Notified, DoAutodelete, flags,
     recordVars, runVars, callVars, ThreadTypeOK, RecordTypes, ActorTypes, CallTypes, Results
<1>9. InOrder'
  BY <1>p, <1>l, <1>a DEF InOrder, Finalized
<1>10. LaterOnesWait'
  BY <1>p, <1>l, <1>a DEF InOrder, LaterOnesWait, Live, Finalized
<1>11. LastRan'
  BY <1>p, <1>l, <1>a DEF LaterOnesWait, LastRan, Live, Finalized
<1>12. WaitsForOne'
  BY <1>a DEF WaitsForOne, Places, ThreadsAreWhere, Live, LeftAlone, NoResultYet, Finalized,
     WakeWaiters, Notified, DoAutodelete, flags, recordVars, runVars, callVars, ThreadTypeOK,
     RecordTypes, ActorTypes, CallTypes, Results
<1>13. NoResultYet'
  BY <1>a DEF NoResultYet, LeftAlone, Finalized, WakeWaiters, Notified, DoAutodelete, flags,
     recordVars, runVars, callVars, ThreadTypeOK, RecordTypes, ActorTypes, CallTypes, Results
<1>14. ResultIsStored'
  BY <1>a DEF ResultIsStored, Places, ThreadsAreWhere, InOrder, LaterOnesWait, LastRan, Live,
     Finalized, WakeWaiters, Notified, DoAutodelete, flags, recordVars, runVars, callVars,
     ThreadTypeOK, RecordTypes, ActorTypes, CallTypes, Results
<1>15. NotEnded'
  BY <1>a DEF NotEnded, ThreadsAreWhere, Live, Finalized, WakeWaiters, Notified, DoAutodelete,
     flags, recordVars, runVars, callVars, ThreadTypeOK, RecordTypes, ActorTypes, CallTypes,
     Results
<1>16. CodesAreTrue'
  BY <1>a DEF CodesAreTrue, ThreadsAreWhere, WaitsForOne, NoResultYet, Finalized, WakeWaiters,
     Notified, DoAutodelete, flags, recordVars, runVars, callVars, ThreadTypeOK, RecordTypes,
     ActorTypes, CallTypes, Results
<1>17. FlagIsTrue'
  BY <1>b, <1>a DEF FlagIsTrue, Newest, InOrder, LaterOnesWait, LastRan, ThreadsAreWhere,
     Live, LiveIsActive, BornIsAwaited, LeftAlone,
     NobodyRuns, NotEnded, Finalized, WakeWaiters, Notified, DoAutodelete, flags, recordVars,
     runVars, callVars, ThreadTypeOK, RecordTypes, ActorTypes, CallTypes, Results
<1>18. ResultIsClean'
  BY <1>b, <1>a DEF ResultIsClean, ReturnedIsClean, ThreadsAreWhere,
     Live, LiveIsActive, BornIsAwaited, LeftAlone,
     NobodyRuns, NotEnded, Finalized, WakeWaiters, Notified, DoAutodelete, flags, recordVars,
     runVars, callVars, ThreadTypeOK, RecordTypes, ActorTypes, CallTypes, Results
<1>19. ReturnedIsClean'
  BY <1>b, <1>a DEF ReturnedIsClean, ThreadsAreWhere, Live, LiveIsActive, BornIsAwaited, LeftAlone,
     NobodyRuns, NotEnded, Finalized, WakeWaiters, Notified, DoAutodelete, flags, recordVars,
     runVars, callVars, ThreadTypeOK, RecordTypes, ActorTypes, CallTypes, Results
<1> QED
  BY <1>1, <1>2, <1>3, <1>4, <1>5, <1>6, <1>7, <1>8, <1>9, <1>10, <1>11, <1>12, <1>13, <1>14, <1>15, <1>16, <1>17, <1>18, <1>19

(* The record is deleted when its destroyer is alone.                       *)
LEMMA DeleteKeeps ==
  ASSUME ThreadTypeOK, Orderly, Reported, NEW c \in Callers, Delete(c)
  PROVE  Orderly' /\ Reported'
<1> USE DEF Orderly, Handshake, Alone, Reported, ResultsFit
<1>a. NobodyRuns /\ \A d \in Callers : d # c => pc[d] = "idle"
  BY DEF Delete, Places, DestroyedAtTheEnd, DestroyerIsAlone, NobodyRuns
<1>1. LiveIsActive'
  BY <1>a DEF LiveIsActive, Places, ThreadsAreWhere, BornIsAwaited, Live, LeftAlone, NobodyRuns,
     Delete, GoTo, Free, flags, recordVars, runVars, callVars, ThreadTypeOK, RecordTypes,
     ActorTypes, CallTypes, Results
<1>2. BornIsAwaited'
  BY <1>a DEF BornIsAwaited, Places, ThreadsAreWhere, LiveIsActive, Live, LeftAlone, NobodyRuns,
     Delete, GoTo, Free, flags, recordVars, runVars, callVars, ThreadTypeOK, RecordTypes,
     ActorTypes, CallTypes, Results
<1>3. OneStarter'
  BY <1>a DEF OneStarter, Delete, GoTo, Free, flags, recordVars, runVars, callVars, ThreadTypeOK,
     RecordTypes, ActorTypes, CallTypes, Results
<1>4. ThreadsAreWhere'
  BY <1>a DEF ThreadsAreWhere, Live, Delete, GoTo, Free, flags, recordVars, runVars, callVars,
     ThreadTypeOK, RecordTypes, ActorTypes, CallTypes, Results
<1>5. Places'
  BY <1>a DEF Places, Delete, GoTo, Free, flags, recordVars, runVars, callVars, ThreadTypeOK,
     RecordTypes, ActorTypes, CallTypes, Results
<1>6. DestroyerIsAlone'
  BY <1>a DEF DestroyerIsAlone, Places, ThreadsAreWhere, ThreadsAreWhere, Delete, GoTo, Free,
     flags, recordVars, runVars, callVars, ThreadTypeOK, RecordTypes, ActorTypes, CallTypes,
     Results
<1>7. DestroyedAtTheEnd'
  BY <1>a DEF DestroyedAtTheEnd, NobodyRuns, Places, ThreadsAreWhere, Live, DestroyerIsAlone,
     Delete, GoTo, Free, flags, recordVars, runVars, callVars, ThreadTypeOK, RecordTypes,
     ActorTypes, CallTypes, Results
<1>8. LeftAlone'
  BY <1>a DEF LeftAlone, NobodyRuns, Delete, GoTo, Free, flags, recordVars, runVars, callVars,
     ThreadTypeOK, RecordTypes, ActorTypes, CallTypes, Results
<1>9. InOrder'
  BY <1>a DEF InOrder, Places, ThreadsAreWhere, Live, BornIsAwaited, LiveIsActive, LeftAlone,
     NobodyRuns, Delete, GoTo, Free, flags, recordVars, runVars, callVars, ThreadTypeOK,
     RecordTypes, ActorTypes, CallTypes, Results
<1>10. LaterOnesWait'
  BY <1>a DEF LaterOnesWait, ThreadsAreWhere, Live, InOrder, LeftAlone, NobodyRuns, Delete, GoTo,
     Free, flags, recordVars, runVars, callVars, ThreadTypeOK, RecordTypes, ActorTypes, CallTypes,
     Results
<1>11. LastRan'
  BY <1>a DEF LastRan, ThreadsAreWhere, Live, InOrder, LaterOnesWait, LeftAlone, NobodyRuns,
     Delete, GoTo, Free, flags, recordVars, runVars, callVars, ThreadTypeOK, RecordTypes,
     ActorTypes, CallTypes, Results
<1>12. WaitsForOne'
  BY <1>a DEF WaitsForOne, Places, ThreadsAreWhere, Live, LeftAlone, NoResultYet, Delete, GoTo,
     Free, flags, recordVars, runVars, callVars, ThreadTypeOK, RecordTypes, ActorTypes, CallTypes,
     Results
<1>13. NoResultYet'
  BY <1>a DEF NoResultYet, LeftAlone, Delete, GoTo, Free, flags, recordVars, runVars, callVars,
     ThreadTypeOK, RecordTypes, ActorTypes, CallTypes, Results
<1>14. ResultIsStored'
  BY <1>a DEF ResultIsStored, Places, ThreadsAreWhere, InOrder, LaterOnesWait, LastRan, Live,
     Delete, GoTo, Free, flags, recordVars, runVars, callVars, ThreadTypeOK, RecordTypes,
     ActorTypes, CallTypes, Results
<1>15. NotEnded'
  BY <1>a DEF NotEnded, ThreadsAreWhere, Live, Delete, GoTo, Free, flags, recordVars, runVars,
     callVars, ThreadTypeOK, RecordTypes, ActorTypes, CallTypes, Results
<1>16. CodesAreTrue'
  BY <1>a DEF CodesAreTrue, ThreadsAreWhere, WaitsForOne, NoResultYet, Delete, GoTo, Free, flags,
     recordVars, runVars, callVars, ThreadTypeOK, RecordTypes, ActorTypes, CallTypes, Results
<1>17. FlagIsTrue'
  BY <1>a DEF FlagIsTrue, Newest, InOrder, LaterOnesWait, LastRan, ThreadsAreWhere,
     Live, LiveIsActive, BornIsAwaited, LeftAlone,
     NobodyRuns, NotEnded, Delete, GoTo, Free, flags, recordVars, runVars, callVars, ThreadTypeOK,
     RecordTypes, ActorTypes, CallTypes, Results
<1>18. ResultIsClean'
  BY <1>a DEF ResultIsClean, ReturnedIsClean, ThreadsAreWhere,
     Live, LiveIsActive, BornIsAwaited, LeftAlone,
     NobodyRuns, NotEnded, Delete, GoTo, Free, flags, recordVars, runVars, callVars, ThreadTypeOK,
     RecordTypes, ActorTypes, CallTypes, Results
<1>19. ReturnedIsClean'
  BY <1>a DEF ReturnedIsClean, ThreadsAreWhere, Live, LiveIsActive, BornIsAwaited, LeftAlone,
     NobodyRuns, NotEnded, Delete, GoTo, Free, flags, recordVars, runVars, callVars, ThreadTypeOK,
     RecordTypes, ActorTypes, CallTypes, Results
<1> QED
  BY <1>1, <1>2, <1>3, <1>4, <1>5, <1>6, <1>7, <1>8, <1>9, <1>10, <1>11, <1>12, <1>13, <1>14, <1>15, <1>16, <1>17, <1>18, <1>19

-----------------------------------------------------------------------------
LEMMA InitIInv == Init => IInv
<1> SUFFICES ASSUME Init PROVE IInv
  OBVIOUS
<1>1. RecordTypes
  BY DEF Init, RecordTypes
<1>2. /\ pc \in [Actors -> {"idle", "none"}]
      /\ (\A t \in Threads : pc[t] = "none") /\ \A c \in Callers : pc[c] = "idle" /\ op[c] = "cancel"
  BY DEF Init
<1>3. /\ ended = [t \in Threads |-> "not"] /\ pending = [t \in Threads |-> FALSE] /\ last = 0 /\ before = 0
      /\ ret = [c \in Callers |-> "NONE"] /\ begun = [c \in Callers |-> 0]
      /\ code = [c \in Callers |-> NOT_STARTED] /\ op = [c \in Callers |-> "cancel"]
      /\ autodeletes = FALSE /\ calls = 0
  BY DEF Init
<1>a. ActorTypes
  <2>1. pc \in [Actors -> CallerPlaces \cup ThreadPlaces] /\ \A t \in Threads : pc[t] \in ThreadPlaces
    BY <1>2
  <2>2. 0 \in 0..MaxStarts
    OBVIOUS
  <2>3. QED
    BY <1>3, <2>1, <2>2 DEF ActorTypes
<1>b. CallTypes
  BY <1>3 DEF CallTypes, Results
<1>4. Handshake
  BY <1>2 DEF Handshake, LiveIsActive, BornIsAwaited, OneStarter, ThreadsAreWhere, Places, Live
<1>5. Alone /\ InOrder /\ LaterOnesWait
  BY <1>2 DEF Alone, DestroyerIsAlone, DestroyedAtTheEnd, LeftAlone, NobodyRuns, InOrder, LaterOnesWait, Live
<1>6. LastRan
  BY <1>2, <1>3 DEF LastRan
<1>7. WaitsForOne /\ NoResultYet
  BY <1>3 DEF WaitsForOne, NoResultYet
<1>8. ResultsFit /\ NotEnded
  <2>1. m_result_code = NOT_STARTED
    BY DEF Init
  <2>2. QED
    BY <1>2, <1>3, <2>1 DEF ResultsFit, ResultIsStored, ResultIsClean, ReturnedIsClean, NotEnded
<1>c. CodesAreTrue
  BY <1>3 DEF CodesAreTrue
<1>d. FlagIsTrue
  BY <1>2 DEF FlagIsTrue, Newest
<1>9. QED
  BY <1>1, <1>a, <1>b, <1>4, <1>5, <1>6, <1>7, <1>8, <1>c, <1>d DEF IInv, Orderly, Reported, ThreadTypeOK

(* The types, of any callers: no assumption on their turns.                *)
LEMMA CallerTypes ==
  ASSUME ThreadTypeOK, NEW a \in Actors, NEW p \in CallerPlaces \cup ThreadPlaces, GoTo(a, p),
         a \in Threads => p \in ThreadPlaces
  PROVE  pc' \in [Actors -> CallerPlaces \cup ThreadPlaces] /\ \A t \in Threads : pc'[t] \in ThreadPlaces
BY DEF ThreadTypeOK, ActorTypes, GoTo

LEMMA ReturnTypes ==
  ASSUME ThreadTypeOK, NEW c \in Callers, NEW r, Return(c, r)
  PROVE  /\ CallTypes'
         /\ pc' \in [Actors -> CallerPlaces \cup ThreadPlaces] /\ \A t \in Threads : pc'[t] \in ThreadPlaces
<1>1. CallTypes'
  BY DEF Return, ThreadTypeOK, CallTypes, Results
<1>2. c \notin Threads /\ "idle" \in CallerPlaces
  OBVIOUS
<1>3. QED
  BY <1>1, <1>2, CallerTypes DEF Return

LEMMA CreateTypes ==
  ASSUME ThreadTypeOK, NEW c \in Callers, Create(c)
  PROVE  ThreadTypeOK'
<1>1. RecordTypes'
  BY DEF Create, Initialize, ThreadTypeOK, flags, recordVars, runVars, callVars, RecordTypes
<1>2. ActorTypes'
  BY DEF Create, Initialize, ThreadTypeOK, flags, recordVars, runVars, callVars, ActorTypes
<1>3. CallTypes'
  BY DEF Create, Initialize, ThreadTypeOK, flags, recordVars, runVars, callVars, CallTypes
<1>4. QED
  BY <1>1, <1>2, <1>3 DEF ThreadTypeOK

LEMMA BeginTypes ==
  ASSUME ThreadTypeOK, NEW c \in Callers, NEW o \in Ops, Begin(c, o)
  PROVE  ThreadTypeOK'
<1>1. RecordTypes'
  BY DEF Begin, FirstPlace, GoTo, Results, ThreadTypeOK, flags, recordVars, runVars, callVars,
     RecordTypes
<1>2. ActorTypes'
  BY DEF Begin, FirstPlace, GoTo, Results, ThreadTypeOK, flags, recordVars, runVars, callVars,
     ActorTypes
<1>3. CallTypes'
  BY DEF Begin, FirstPlace, GoTo, Results, ThreadTypeOK, flags, recordVars, runVars, callVars,
     ActorTypes, CallTypes
<1>4. QED
  BY <1>1, <1>2, <1>3 DEF ThreadTypeOK

LEMMA SpawnTypes ==
  ASSUME ThreadTypeOK, NEW c \in Callers, NEW t \in Threads, Spawn(c, t)
  PROVE  ThreadTypeOK'
<1>1. RecordTypes'
  BY DEF Spawn, ThreadTypeOK, flags, recordVars, runVars, callVars, RecordTypes
<1>2. ActorTypes'
  BY DEF Spawn, ThreadTypeOK, flags, recordVars, runVars, callVars, ActorTypes
<1>3. CallTypes'
  BY DEF Spawn, ThreadTypeOK, flags, recordVars, runVars, callVars, CallTypes
<1>4. QED
  BY <1>1, <1>2, <1>3 DEF ThreadTypeOK

LEMMA SpawnFailsTypes ==
  ASSUME ThreadTypeOK, NEW c \in Callers, SpawnFails(c)
  PROVE  ThreadTypeOK'
<1>1. RecordTypes'
  BY DEF SpawnFails, ThreadTypeOK, flags, recordVars, runVars, callVars, RecordTypes
<1>2. ActorTypes'
  BY ReturnTypes DEF SpawnFails, ThreadTypeOK, flags, recordVars, runVars, callVars, ActorTypes
<1>3. CallTypes'
  BY ReturnTypes DEF SpawnFails, ThreadTypeOK, flags, recordVars, runVars, callVars, CallTypes
<1>4. QED
  BY <1>1, <1>2, <1>3 DEF ThreadTypeOK

LEMMA AlreadyStartedTypes ==
  ASSUME ThreadTypeOK, NEW c \in Callers, AlreadyStarted(c)
  PROVE  ThreadTypeOK'
<1>1. RecordTypes'
  BY DEF AlreadyStarted, ThreadTypeOK, flags, recordVars, runVars, callVars, RecordTypes
<1>2. ActorTypes'
  BY ReturnTypes DEF AlreadyStarted, ThreadTypeOK, flags, recordVars, runVars, callVars,
     ActorTypes
<1>3. CallTypes'
  BY ReturnTypes DEF AlreadyStarted, ThreadTypeOK, flags, recordVars, runVars, callVars,
     CallTypes
<1>4. QED
  BY <1>1, <1>2, <1>3 DEF ThreadTypeOK

LEMMA StartedTypes ==
  ASSUME ThreadTypeOK, NEW c \in Callers, Started(c)
  PROVE  ThreadTypeOK'
<1>1. RecordTypes'
  BY DEF Started, GoTo, ThreadTypeOK, flags, recordVars, runVars, callVars, RecordTypes
<1>2. ActorTypes'
  BY ReturnTypes DEF Started, GoTo, ThreadTypeOK, flags, recordVars, runVars, callVars,
     ActorTypes
<1>3. CallTypes'
  BY ReturnTypes DEF Started, GoTo, ThreadTypeOK, flags, recordVars, runVars, callVars,
     CallTypes
<1>4. QED
  BY <1>1, <1>2, <1>3 DEF ThreadTypeOK

LEMMA CancelTypes ==
  ASSUME ThreadTypeOK, NEW c \in Callers, Cancel(c)
  PROVE  ThreadTypeOK'
<1>1. RecordTypes'
  BY DEF Cancel, Canceled, ThreadTypeOK, flags, recordVars, runVars, callVars, RecordTypes
<1>2. ActorTypes'
  BY ReturnTypes DEF Cancel, Canceled, ThreadTypeOK, flags, recordVars, runVars, callVars,
     ActorTypes
<1>3. CallTypes'
  BY ReturnTypes DEF Cancel, Canceled, ThreadTypeOK, flags, recordVars, runVars, callVars,
     CallTypes
<1>4. QED
  BY <1>1, <1>2, <1>3 DEF ThreadTypeOK

LEMMA WaitTimesOutTypes ==
  ASSUME ThreadTypeOK, NEW c \in Callers, WaitTimesOut(c)
  PROVE  ThreadTypeOK'
<1>1. RecordTypes'
  BY DEF WaitTimesOut, ThreadTypeOK, flags, recordVars, runVars, callVars, RecordTypes
<1>2. ActorTypes'
  BY ReturnTypes DEF WaitTimesOut, ThreadTypeOK, flags, recordVars, runVars, callVars,
     ActorTypes
<1>3. CallTypes'
  BY ReturnTypes DEF WaitTimesOut, ThreadTypeOK, flags, recordVars, runVars, callVars, CallTypes
<1>4. QED
  BY <1>1, <1>2, <1>3 DEF ThreadTypeOK

LEMMA ReadResultTypes ==
  ASSUME ThreadTypeOK, NEW c \in Callers, ReadResult(c)
  PROVE  ThreadTypeOK'
<1>1. RecordTypes'
  BY DEF ReadResult, GoTo, Results, ThreadTypeOK, flags, recordVars, runVars, callVars,
     RecordTypes
<1>2. ActorTypes'
  BY DEF ReadResult, GoTo, Results, ThreadTypeOK, flags, recordVars, runVars, callVars,
     ActorTypes
<1>3. CallTypes'
  BY DEF ReadResult, GoTo, Results, ThreadTypeOK, flags, recordVars, runVars, callVars,
     RecordTypes, CallTypes
<1>4. QED
  BY <1>1, <1>2, <1>3 DEF ThreadTypeOK

LEMMA GetPthreadIdTypes ==
  ASSUME ThreadTypeOK, NEW c \in Callers, GetPthreadId(c)
  PROVE  ThreadTypeOK'
<1>1. RecordTypes'
  BY DEF GetPthreadId, ThreadTypeOK, flags, recordVars, runVars, callVars, RecordTypes
<1>2. ActorTypes'
  BY ReturnTypes DEF GetPthreadId, ThreadTypeOK, flags, recordVars, runVars, callVars,
     ActorTypes
<1>3. CallTypes'
  BY ReturnTypes DEF GetPthreadId, ThreadTypeOK, flags, recordVars, runVars, callVars, CallTypes
<1>4. QED
  BY <1>1, <1>2, <1>3 DEF ThreadTypeOK

LEMMA SetResultCodeTypes ==
  ASSUME ThreadTypeOK, NEW c \in Callers, SetResultCode(c)
  PROVE  ThreadTypeOK'
<1>1. RecordTypes'
  BY DEF SetResultCode, ThreadTypeOK, flags, recordVars, runVars, callVars, RecordTypes
<1>2. ActorTypes'
  BY ReturnTypes DEF SetResultCode, ThreadTypeOK, flags, recordVars, runVars, callVars,
     ActorTypes
<1>3. CallTypes'
  BY ReturnTypes DEF SetResultCode, ThreadTypeOK, flags, recordVars, runVars, callVars,
     CallTypes
<1>4. QED
  BY <1>1, <1>2, <1>3 DEF ThreadTypeOK

LEMMA FreeWhenDestroyTypes ==
  ASSUME ThreadTypeOK, NEW c \in Callers, FreeWhenDestroy(c)
  PROVE  ThreadTypeOK'
<1>1. RecordTypes'
  BY DEF FreeWhenDestroy, ThreadTypeOK, flags, recordVars, runVars, callVars, RecordTypes
<1>2. ActorTypes'
  BY ReturnTypes DEF FreeWhenDestroy, ThreadTypeOK, flags, recordVars, runVars, callVars,
     ActorTypes
<1>3. CallTypes'
  BY ReturnTypes DEF FreeWhenDestroy, ThreadTypeOK, flags, recordVars, runVars, callVars,
     CallTypes
<1>4. QED
  BY <1>1, <1>2, <1>3 DEF ThreadTypeOK

LEMMA WaiterDiesTypes ==
  ASSUME ThreadTypeOK, NEW c \in Callers, WaiterDies(c)
  PROVE  ThreadTypeOK'
<1>1. RecordTypes'
  BY DEF WaiterDies, GoTo, ThreadTypeOK, flags, recordVars, runVars, callVars, RecordTypes
<1>2. ActorTypes'
  BY DEF WaiterDies, GoTo, ThreadTypeOK, flags, recordVars, runVars, callVars, ActorTypes
<1>3. CallTypes'
  BY DEF WaiterDies, GoTo, ThreadTypeOK, flags, recordVars, runVars, callVars, CallTypes
<1>4. QED
  BY <1>1, <1>2, <1>3 DEF ThreadTypeOK

LEMMA EntryTypes ==
  ASSUME ThreadTypeOK, NEW t \in Threads, Entry(t)
  PROVE  ThreadTypeOK'
<1>1. RecordTypes'
  BY DEF Entry, Notified, ThreadTypeOK, flags, recordVars, runVars, callVars, RecordTypes
<1>2. ActorTypes'
  BY DEF Entry, Notified, ThreadTypeOK, flags, recordVars, runVars, callVars, ActorTypes
<1>3. CallTypes'
  BY DEF Entry, Notified, ThreadTypeOK, flags, recordVars, runVars, callVars, CallTypes
<1>4. QED
  BY <1>1, <1>2, <1>3 DEF ThreadTypeOK

LEMMA MainReturnsTypes ==
  ASSUME ThreadTypeOK, NEW t \in Threads, MainReturns(t)
  PROVE  ThreadTypeOK'
<1>1. RecordTypes'
  BY DEF MainReturns, GoTo, ThreadTypeOK, flags, recordVars, runVars, callVars, RecordTypes
<1>2. ActorTypes'
  BY DEF MainReturns, GoTo, ThreadTypeOK, flags, recordVars, runVars, callVars, ActorTypes
<1>3. CallTypes'
  BY DEF MainReturns, GoTo, ThreadTypeOK, flags, recordVars, runVars, callVars, CallTypes
<1>4. QED
  BY <1>1, <1>2, <1>3 DEF ThreadTypeOK

LEMMA ActOnCancelTypes ==
  ASSUME ThreadTypeOK, NEW t \in Threads, ActOnCancel(t)
  PROVE  ThreadTypeOK'
<1>1. RecordTypes'
  BY DEF ActOnCancel, GoTo, ThreadTypeOK, flags, recordVars, runVars, callVars, RecordTypes
<1>2. ActorTypes'
  BY DEF ActOnCancel, GoTo, ThreadTypeOK, flags, recordVars, runVars, callVars, ActorTypes
<1>3. CallTypes'
  BY DEF ActOnCancel, GoTo, ThreadTypeOK, flags, recordVars, runVars, callVars, CallTypes
<1>4. QED
  BY <1>1, <1>2, <1>3 DEF ThreadTypeOK

LEMMA FinalizeTypes ==
  ASSUME ThreadTypeOK, NEW t \in Threads, Finalize(t)
  PROVE  ThreadTypeOK'
<1>1. RecordTypes'
  BY DEF Finalize, GoTo, ThreadTypeOK, flags, recordVars, runVars, callVars, RecordTypes
<1>2. ActorTypes'
  BY DEF Finalize, GoTo, ThreadTypeOK, flags, recordVars, runVars, callVars, ActorTypes
<1>3. CallTypes'
  BY DEF Finalize, GoTo, ThreadTypeOK, flags, recordVars, runVars, callVars, CallTypes
<1>4. QED
  BY <1>1, <1>2, <1>3 DEF ThreadTypeOK

LEMMA DiesInFinalTypes ==
  ASSUME ThreadTypeOK, NEW t \in Threads, DiesInFinal(t)
  PROVE  ThreadTypeOK'
<1>1. RecordTypes'
  BY DEF DiesInFinal, GoTo, ThreadTypeOK, flags, recordVars, runVars, callVars, RecordTypes
<1>2. ActorTypes'
  BY DEF DiesInFinal, GoTo, ThreadTypeOK, flags, recordVars, runVars, callVars, ActorTypes
<1>3. CallTypes'
  BY DEF DiesInFinal, GoTo, ThreadTypeOK, flags, recordVars, runVars, callVars, CallTypes
<1>4. QED
  BY <1>1, <1>2, <1>3 DEF ThreadTypeOK

LEMMA StoreResultTypes ==
  ASSUME ThreadTypeOK, NEW t \in Threads, StoreResult(t)
  PROVE  ThreadTypeOK'
<1>1. RecordTypes'
  BY DEF StoreResult, GoTo, ResultOf, ThreadTypeOK, flags, recordVars, runVars, callVars,
     RecordTypes
<1>2. ActorTypes'
  BY DEF StoreResult, GoTo, ResultOf, ThreadTypeOK, flags, recordVars, runVars, callVars,
     ActorTypes
<1>3. CallTypes'
  BY DEF StoreResult, GoTo, ResultOf, ThreadTypeOK, flags, recordVars, runVars, callVars,
     CallTypes
<1>4. QED
  BY <1>1, <1>2, <1>3 DEF ThreadTypeOK

LEMMA FinalizedTypes ==
  ASSUME ThreadTypeOK, NEW t \in Threads, Finalized(t)
  PROVE  ThreadTypeOK'
<1>1. RecordTypes'
  BY DEF Finalized, WakeWaiters, Notified, ThreadTypeOK, flags, recordVars, runVars, callVars,
     RecordTypes
<1>2. ActorTypes'
  BY DEF Finalized, WakeWaiters, Notified, ThreadTypeOK, flags, recordVars, runVars, callVars,
     ActorTypes
<1>3. CallTypes'
  BY DEF Finalized, WakeWaiters, Notified, ThreadTypeOK, flags, recordVars, runVars, callVars,
     CallTypes
<1>4. QED
  BY <1>1, <1>2, <1>3 DEF ThreadTypeOK

LEMMA WaitAutodeleteTypes ==
  ASSUME ThreadTypeOK, NEW a \in Actors, WaitAutodelete(a)
  PROVE  ThreadTypeOK'
<1>1. RecordTypes'
  BY DEF WaitAutodelete, Waited, GoTo, ThreadTypeOK, flags, recordVars, runVars, callVars,
     RecordTypes
<1>2. ActorTypes'
  BY ReturnTypes DEF WaitAutodelete, Waited, GoTo, ThreadTypeOK, flags, recordVars, runVars,
     callVars, ActorTypes
<1>3. CallTypes'
  BY ReturnTypes DEF WaitAutodelete, Waited, GoTo, ThreadTypeOK, flags, recordVars, runVars,
     callVars, CallTypes
<1>4. QED
  BY <1>1, <1>2, <1>3 DEF ThreadTypeOK

LEMMA WaitCheckTypes ==
  ASSUME ThreadTypeOK, NEW a \in Actors, WaitCheck(a)
  PROVE  ThreadTypeOK'
<1>1. RecordTypes'
  BY DEF WaitCheck, Waited, GoTo, ThreadTypeOK, flags, recordVars, runVars, callVars,
     RecordTypes
<1>2. ActorTypes'
  BY ReturnTypes DEF WaitCheck, Waited, GoTo, ThreadTypeOK, flags, recordVars, runVars,
     callVars, ActorTypes
<1>3. CallTypes'
  BY ReturnTypes DEF WaitCheck, Waited, GoTo, ThreadTypeOK, flags, recordVars, runVars,
     callVars, CallTypes
<1>4. QED
  BY <1>1, <1>2, <1>3 DEF ThreadTypeOK

LEMMA DestroyCancelsTypes ==
  ASSUME ThreadTypeOK, NEW a \in Actors, DestroyCancels(a)
  PROVE  ThreadTypeOK'
<1>1. RecordTypes'
  BY DEF DestroyCancels, Canceled, GoTo, ThreadTypeOK, flags, recordVars, runVars, callVars,
     RecordTypes
<1>2. ActorTypes'
  BY DEF DestroyCancels, Canceled, GoTo, ThreadTypeOK, flags, recordVars, runVars, callVars,
     ActorTypes
<1>3. CallTypes'
  BY DEF DestroyCancels, Canceled, GoTo, ThreadTypeOK, flags, recordVars, runVars, callVars,
     CallTypes
<1>4. QED
  BY <1>1, <1>2, <1>3 DEF ThreadTypeOK

LEMMA FreeupTypes ==
  ASSUME ThreadTypeOK, NEW a \in Actors, Freeup(a)
  PROVE  ThreadTypeOK'
<1>1. RecordTypes'
  BY DEF Freeup, GoTo, ThreadTypeOK, flags, recordVars, runVars, callVars, RecordTypes
<1>2. ActorTypes'
  BY DEF Freeup, GoTo, ThreadTypeOK, flags, recordVars, runVars, callVars, ActorTypes
<1>3. CallTypes'
  BY DEF Freeup, GoTo, ThreadTypeOK, flags, recordVars, runVars, callVars, CallTypes
<1>4. QED
  BY <1>1, <1>2, <1>3 DEF ThreadTypeOK

LEMMA DeleteTypes ==
  ASSUME ThreadTypeOK, NEW a \in Actors, Delete(a)
  PROVE  ThreadTypeOK'
<1>1. RecordTypes'
  BY DEF Delete, GoTo, ThreadTypeOK, flags, recordVars, runVars, callVars, RecordTypes
<1>2. ActorTypes'
  BY DEF Delete, GoTo, ThreadTypeOK, flags, recordVars, runVars, callVars, ActorTypes
<1>3. CallTypes'
  BY DEF Delete, GoTo, ThreadTypeOK, flags, recordVars, runVars, callVars, CallTypes
<1>4. QED
  BY <1>1, <1>2, <1>3 DEF ThreadTypeOK

LEMMA TypeNext ==
  ASSUME ThreadTypeOK, [Next]_vars
  PROVE  ThreadTypeOK'
<1>1. ASSUME NEW c \in Callers, CallStep(c) PROVE ThreadTypeOK'
  BY <1>1, SpawnTypes, SpawnFailsTypes, AlreadyStartedTypes, StartedTypes, CancelTypes, WaitTimesOutTypes,
     ReadResultTypes, GetPthreadIdTypes, SetResultCodeTypes, FreeWhenDestroyTypes DEF CallStep
<1>2. ASSUME NEW t \in Threads, ThreadStep(t) PROVE ThreadTypeOK'
  BY <1>2, EntryTypes, MainReturnsTypes, ActOnCancelTypes, StoreResultTypes, FinalizeTypes, FinalizedTypes
  DEF ThreadStep
<1>3. ASSUME NEW a \in Actors, SharedStep(a) PROVE ThreadTypeOK'
  BY <1>3, WaitAutodeleteTypes, WaitCheckTypes, DestroyCancelsTypes, FreeupTypes, DeleteTypes DEF SharedStep
<1>4. CASE UNCHANGED vars
  BY <1>4 DEF vars, flags, recordVars, runVars, callVars, ThreadTypeOK, RecordTypes, ActorTypes, CallTypes
<1>5. QED
  BY <1>1, <1>2, <1>3, <1>4, CreateTypes, BeginTypes, WaiterDiesTypes, DiesInFinalTypes DEF Next

(* Every variable of the record has its type, for any callers.             *)
THEOREM ThreadTypeCorrect == Spec => []ThreadTypeOK
<1>1. Init => ThreadTypeOK
  BY InitIInv DEF IInv
<1>2. ThreadTypeOK /\ [Next]_vars => ThreadTypeOK'
  BY TypeNext
<1>3. QED
  BY <1>1, <1>2, PTL DEF Spec
-----------------------------------------------------------------------------
(* A step of a call.                                                       *)
LEMMA CallKeeps ==
  ASSUME ThreadTypeOK, Orderly, Reported, ~autodeletes', NEW c \in Callers, CallStep(c)
  PROVE  Orderly' /\ Reported'
<1>1. CASE \E t \in Threads : Spawn(c, t)
  BY <1>1, SpawnKeeps
<1>2. CASE SpawnFails(c)
  BY <1>2, SpawnFailsKeeps
<1>3. CASE AlreadyStarted(c) \/ Cancel(c) \/ GetPthreadId(c) \/ FreeWhenDestroy(c)
  <2>1. \E r : Return(c, r)
    BY <1>3 DEF AlreadyStarted, Cancel, GetPthreadId, FreeWhenDestroy
  <2>2. pc[c] = "called" /\ op[c] \notin Waits
    BY <1>3 DEF AlreadyStarted, Cancel, GetPthreadId, FreeWhenDestroy, Starts
  <2>3. QED
    BY <1>3, <2>1, <2>2, ReturnKeeps
    DEF AlreadyStarted, Cancel, GetPthreadId, FreeWhenDestroy, recordVars, runVars, flags
<1>4. CASE SetResultCode(c)
  BY <1>4, ReturnKeeps DEF SetResultCode, runVars, flags
<1>5. CASE Started(c)
  <2>1. op[c] \in StartOps /\ pc[c] = "started"
    BY <1>5 DEF Started, Orderly, Handshake, Places
  <2>2. CASE m_is_started
    BY <1>5, <2>1, <2>2, ReturnKeeps DEF Started, recordVars, runVars, flags
  <2>3. CASE ~m_is_started
    BY <1>5, <2>1, <2>3, MoveKeeps DEF Started, GoTo, recordVars, runVars, flags, callVars
  <2>4. QED
    BY <2>2, <2>3
<1>6. CASE WaitTimesOut(c)
  BY <1>6, ReturnKeeps DEF WaitTimesOut, recordVars, runVars, flags
<1>7. CASE ReadResult(c)
  BY <1>7, ReadResultKeeps
<1>8. QED
  BY <1>1, <1>2, <1>3, <1>4, <1>5, <1>6, <1>7 DEF CallStep

(* A step of a wait or of a destruction: without autodelete no pthread     *)
(* takes one.  Whose main procedure was running when the wait began is over *)
(* when the record is not active.                                          *)
LEMMA SharedKeeps ==
  ASSUME ThreadTypeOK, Orderly, Reported, NEW a \in Actors, SharedStep(a)
  PROVE  Orderly' /\ Reported'
<1>1. a \in Callers
  BY DEF SharedStep, WaitAutodelete, WaitCheck, DestroyCancels, Freeup, Delete, Orderly, Handshake,
         ThreadsAreWhere, Live
<1>2. a \notin Threads
  BY <1>1
<1>3. (op[a] = "destroy" /\ pc[a] # "idle" /\ (m_do_autodelete \/ ~m_is_activated)) => NobodyRuns
  BY <1>1 DEF Orderly, Handshake, Alone, ThreadsAreWhere, LiveIsActive, BornIsAwaited, DestroyerIsAlone,
              NobodyRuns, Live
<1>4. CASE WaitAutodelete(a)
  <2>1. CASE op[a] = "destroy"
    BY <1>1, <1>2, <1>3, <1>4, <2>1, MoveKeeps DEF WaitAutodelete, Waited, GoTo, recordVars, runVars, flags, callVars
  <2>2. CASE op[a] # "destroy"
    BY <1>1, <1>2, <1>4, <2>2, ReturnKeeps DEF WaitAutodelete, Waited, recordVars, runVars, flags
  <2>3. QED
    BY <2>1, <2>2
<1>5. CASE WaitCheck(a)
  <2>1. pc[a] \in {"wait", "woken"} /\ op[a] \in Waits \cup {"destroy"}
    BY <1>1, <1>5 DEF WaitCheck, Orderly, Handshake, Places
  <2>2. CASE m_is_activated
    BY <1>1, <1>5, <2>1, <2>2, MoveKeeps DEF WaitCheck, Running, GoTo, recordVars, runVars, flags, callVars
  <2>3. CASE ~m_is_activated
    <3>1. Waited(a, "OK") /\ UNCHANGED <<recordVars, runVars>>
      BY <1>5, <2>3 DEF WaitCheck, Running
    <3>2. begun[a] > 0 => pc[begun[a]] = "gone"
      BY <1>1, <2>3 DEF Reported, WaitsForOne, Orderly, Handshake, ThreadsAreWhere, LiveIsActive, ThreadTypeOK,
                        CallTypes
    <3>3. CASE op[a] = "destroy"
      BY <1>1, <1>2, <1>3, <2>1, <2>3, <3>1, <3>3, MoveKeeps
      DEF Waited, GoTo, recordVars, runVars, flags, callVars
    <3>4. CASE op[a] = "get_result_code"
      BY <1>1, <1>2, <2>1, <3>1, <3>2, <3>4, MoveKeeps DEF Waited, GoTo, recordVars, runVars, flags, callVars
    <3>5. CASE op[a] \notin {"destroy", "get_result_code"}
      BY <1>1, <1>2, <2>1, <3>1, <3>2, <3>5, ReturnKeeps DEF Waited, recordVars, runVars, flags
    <3>6. QED
      BY <3>3, <3>4, <3>5
  <2>4. QED
    BY <2>2, <2>3
<1>6. CASE DestroyCancels(a)
  <2>1. op[a] = "destroy"
    BY <1>1, <1>6 DEF DestroyCancels, Orderly, Handshake, Places
  <2>2. QED
    BY <1>1, <1>6, <2>1, MoveKeeps DEF DestroyCancels, GoTo, recordVars, flags, callVars
<1>7. CASE Freeup(a)
  <2>1. op[a] = "destroy" /\ NobodyRuns
    BY <1>1, <1>7 DEF Freeup, Orderly, Handshake, Alone, Places, DestroyedAtTheEnd
  <2>2. QED
    BY <1>1, <1>7, <2>1, MoveKeeps DEF Freeup, GoTo, runVars, callVars
<1>8. CASE Delete(a)
  BY <1>1, <1>8, DeleteKeeps
<1>9. QED
  BY <1>4, <1>5, <1>6, <1>7, <1>8 DEF SharedStep

(* A record that never autodeletes has not done so before.                  *)
LEMMA AutodeletesStays ==
  ASSUME [Next]_vars, ~autodeletes'
  PROVE  ~autodeletes
<1>1. CASE \E c \in Callers, t \in Threads : Spawn(c, t)
  BY <1>1 DEF Spawn
<1>2. CASE UNCHANGED autodeletes
  BY <1>2
<1>3. CASE \E c \in Callers : CallStep(c) /\ ~\E t \in Threads : Spawn(c, t)
  BY <1>3 DEF CallStep, SpawnFails, AlreadyStarted, Started, Cancel, WaitTimesOut, ReadResult,
                    GetPthreadId, SetResultCode, FreeWhenDestroy, runVars
<1>4. CASE \E c \in Callers : Create(c) \/ WaiterDies(c) \/ \E o \in Ops : Begin(c, o)
  BY <1>4 DEF Create, WaiterDies, Begin, runVars
<1>5. CASE \E t \in Threads : ThreadStep(t) \/ DiesInFinal(t)
  BY <1>5 DEF ThreadStep, DiesInFinal, Entry, MainReturns, ActOnCancel, StoreResult, Finalize,
                    Finalized, runVars
<1>6. CASE \E a \in Actors : SharedStep(a)
  BY <1>6 DEF SharedStep, WaitAutodelete, WaitCheck, DestroyCancels, Freeup, Delete, runVars
<1>7. CASE UNCHANGED vars
  BY <1>7 DEF vars, runVars
<1>8. QED
  BY <1>1, <1>3, <1>4, <1>5, <1>6, <1>7 DEF Next

LEMMA NextIInv ==
  ASSUME TakeTurns, IInv, [Next]_vars
  PROVE  IInv'
<1>1. ThreadTypeOK'
  BY TypeNext DEF IInv
<1>2. SUFFICES ASSUME ~autodeletes'
               PROVE  Orderly' /\ Reported'
  BY <1>1 DEF IInv
<1>3. ~autodeletes
  BY <1>2, AutodeletesStays
<1>4. ThreadTypeOK /\ Orderly /\ Reported
  BY <1>3 DEF IInv
<1>5. ASSUME NEW c \in Callers, WaiterDies(c) PROVE Orderly' /\ Reported'
  <2>1. op[c] \in Waits \cup {"destroy"}
    BY <1>4, <1>5 DEF WaiterDies, Orderly, Handshake, Places
  <2>2. QED
    BY <1>4, <1>5, <2>1, MoveKeeps DEF WaiterDies, GoTo, flags, runVars, callVars
<1>6. ASSUME NEW t \in Threads, ThreadStep(t) \/ DiesInFinal(t) PROVE Orderly' /\ Reported'
  BY <1>4, <1>6, EntryKeeps, MainReturnsKeeps, ActOnCancelKeeps, StoreResultKeeps, FinalizeKeeps,
     FinalizedKeeps, DiesInFinalKeeps DEF ThreadStep
<1>7. CASE UNCHANGED vars
  BY <1>4, <1>7 DEF vars, flags, recordVars, runVars, callVars, Orderly, Handshake, Alone, Reported,
     LiveIsActive, BornIsAwaited, OneStarter, ThreadsAreWhere, Places, DestroyerIsAlone, DestroyedAtTheEnd,
     LeftAlone, NobodyRuns, InOrder, LaterOnesWait, LastRan, WaitsForOne, NoResultYet, ResultsFit,
     ResultIsStored, ResultIsClean, ReturnedIsClean, NotEnded, CodesAreTrue, FlagIsTrue, Newest
<1>8. QED
  BY <1>2, <1>4, <1>5, <1>6, <1>7, CreateKeeps, BeginKeeps, CallKeeps, SharedKeeps DEF Next

LEMMA ThreadInvariant ==
  ASSUME TakeTurns
  PROVE  Spec => []IInv
<1>1. IInv /\ [Next]_vars => IInv'
  BY NextIInv
<1>2. QED
  BY <1>1, InitIInv, PTL DEF Spec
-----------------------------------------------------------------------------
(* A wait for a thread that succeeds has waited for its end.               *)
THEOREM WaitsAreHonest ==
  ASSUME TakeTurns
  PROVE  Spec => []WaitSeesTheEnd
<1>1. IInv => WaitSeesTheEnd
  BY DEF IInv, Reported, WaitsForOne, WaitSeesTheEnd, Over
<1>2. QED
  BY <1>1, ThreadInvariant, PTL

(* A code that get_result_code() answers is no earlier one than that of the  *)
(* last main procedure that returned up to the run waited for, and no code    *)
(* of a run that was canceled or has not ended; the cancel flag is that of    *)
(* the newest run until the next start.                                      *)
THEOREM ReportsAreOfTheRun ==
  ASSUME TakeTurns
  PROVE  Spec => []EndIsReported
<1>1. IInv => EndIsReported
  BY DEF IInv, Reported, CodesAreTrue, FlagIsTrue, EndIsReported
<1>2. QED
  BY <1>1, ThreadInvariant, PTL

(* A record that is gone has nobody on the way to it.                      *)
THEOREM NobodyUsesFreed ==
  ASSUME TakeTurns
  PROVE  Spec => []FreedIsLeftAlone
<1>1. IInv => FreedIsLeftAlone
  BY DEF IInv, Orderly, Alone, LeftAlone, NobodyRuns, FreedIsLeftAlone
<1>2. QED
  BY <1>1, ThreadInvariant, PTL
-----------------------------------------------------------------------------
(***************************************************************************)
(* Who sleeps is woken.  An active record has a pthread that has still to   *)
(* notify, and callers sleep in a wait only while it is active: what         *)
(* activates it, ends it or puts somebody to sleep keeps that.              *)
(***************************************************************************)
ActiveRuns     == m_is_activated => \E t \in Threads : pc[t] \in Live
AsleepOnActive == \A c \in Callers : pc[c] = "asleep" => m_is_activated
StarterIsHeard == \A c \in Callers : pc[c] = "starting" => \E t \in Threads : pc[t] = "born"
StartedRan     == \A c \in Callers : pc[c] = "started" => m_is_started

Awake == ActiveRuns /\ AsleepOnActive /\ StarterIsHeard /\ StartedRan

(* A caller moves on, and no flag that sleepers look at changes.            *)
LEMMA CallerStaysAwake ==
  ASSUME ThreadTypeOK, Awake, NEW c \in Callers, NEW p \in CallerPlaces, pc' = [pc EXCEPT ![c] = p],
         UNCHANGED <<m_is_started, m_is_activated>>,
         p = "asleep" => m_is_activated, p = "started" => m_is_started,
         p = "starting" => \E t \in Threads : pc[t] = "born"
  PROVE  Awake'
<1>1. pc \in [Actors -> CallerPlaces \cup ThreadPlaces]
  BY DEF ThreadTypeOK, ActorTypes
<1>2. \A t \in Threads : pc'[t] = pc[t]
  BY <1>1
<1>3. \A d \in Callers : pc'[d] = IF d = c THEN p ELSE pc[d]
  BY <1>1
<1>4. ActiveRuns' /\ AsleepOnActive' /\ StarterIsHeard' /\ StartedRan'
  BY <1>2, <1>3 DEF Awake, ActiveRuns, AsleepOnActive, StarterIsHeard, StartedRan, Live
<1>5. QED
  BY <1>4 DEF Awake

(* A call returns.                                                          *)
LEMMA ReturnStaysAwake ==
  ASSUME ThreadTypeOK, Awake, NEW c \in Callers, NEW r, Return(c, r), UNCHANGED <<m_is_started, m_is_activated>>
  PROVE  Awake'
<1>1. "idle" \in CallerPlaces /\ pc' = [pc EXCEPT ![c] = "idle"]
  BY DEF Return, GoTo
<1>2. QED
  BY <1>1, CallerStaysAwake

(* A pthread of the record moves on in its run.                             *)
LEMMA RunnerStaysAwake ==
  ASSUME ThreadTypeOK, Awake, NEW t \in Threads, NEW p \in Live, pc' = [pc EXCEPT ![t] = p], pc[t] # "born",
         UNCHANGED <<m_is_started, m_is_activated>>
  PROVE  Awake'
<1>1. pc \in [Actors -> CallerPlaces \cup ThreadPlaces]
  BY DEF ThreadTypeOK, ActorTypes
<1>2. \A u \in Threads : pc'[u] = IF u = t THEN p ELSE pc[u]
  BY <1>1
<1>3. \A c \in Callers : pc'[c] = pc[c]
  BY <1>1
<1>4. ActiveRuns' /\ AsleepOnActive' /\ StarterIsHeard' /\ StartedRan'
  BY <1>2, <1>3 DEF Awake, ActiveRuns, AsleepOnActive, StarterIsHeard, StartedRan
<1>5. QED
  BY <1>4 DEF Awake

LEMMA SpawnStaysAwake ==
  ASSUME ThreadTypeOK, Orderly, Awake, NEW c \in Callers, NEW t \in Threads, Spawn(c, t)
  PROVE  Awake'
<1>1. pc \in [Actors -> CallerPlaces \cup ThreadPlaces]
  BY DEF ThreadTypeOK, ActorTypes
<1>2. /\ ~m_is_activated /\ ~m_is_activated' /\ pc' = [pc EXCEPT ![c] = "starting", ![t] = "born"]
      /\ pc[c] = "called" /\ op[c] \in StartOps
  BY DEF Spawn, Starts
<1>3. pc'[t] = "born" /\ \A d \in Callers : pc'[d] = IF d = c THEN "starting" ELSE pc[d]
  BY <1>1, <1>2
<1>4. \A d \in Callers : pc[d] # "started"
  BY <1>2 DEF Orderly, Handshake, OneStarter, Places
<1>5. \A d \in Callers : pc[d] # "asleep"
  BY <1>2 DEF Awake, AsleepOnActive
<1>6. ActiveRuns' /\ AsleepOnActive' /\ StartedRan'
  <2>1. ActiveRuns'
    BY <1>2 DEF ActiveRuns
  <2>2. AsleepOnActive'
    BY <1>3, <1>5 DEF AsleepOnActive
  <2>3. \A d \in Callers : pc'[d] # "started"
    BY <1>3, <1>4
  <2>4. StartedRan'
    BY <2>3 DEF StartedRan
  <2>5. QED
    BY <2>1, <2>2, <2>4
<1>7. StarterIsHeard'
  BY <1>3 DEF StarterIsHeard
<1>8. QED
  BY <1>6, <1>7 DEF Awake

LEMMA EntryStaysAwake ==
  ASSUME ThreadTypeOK, Awake, NEW t \in Threads, Entry(t)
  PROVE  Awake'
<1>1. pc \in [Actors -> CallerPlaces \cup ThreadPlaces]
  BY DEF ThreadTypeOK, ActorTypes
<1>2. m_is_activated' /\ m_is_started' /\ pc' = [Notified(pc, "starting", "started") EXCEPT ![t] = "main"]
  BY DEF Entry
<1>3. pc'[t] = "main" /\ \A c \in Callers : pc'[c] = IF pc[c] = "starting" THEN "started" ELSE pc[c]
  BY <1>1, <1>2 DEF Notified
<1>4. ActiveRuns' /\ AsleepOnActive' /\ StarterIsHeard' /\ StartedRan'
  BY <1>2, <1>3 DEF ActiveRuns, AsleepOnActive, StarterIsHeard, StartedRan, Live
<1>5. QED
  BY <1>4 DEF Awake

LEMMA FinalizedStaysAwake ==
  ASSUME ThreadTypeOK, Awake, NEW t \in Threads, Finalized(t)
  PROVE  Awake'
<1>1. pc \in [Actors -> CallerPlaces \cup ThreadPlaces]
  BY DEF ThreadTypeOK, ActorTypes
<1>2. /\ ~m_is_activated' /\ m_is_started' = m_is_started /\ pc[t] = "final"
      /\ \E p : pc' = [Notified(pc, "asleep", "woken") EXCEPT ![t] = p]
  BY DEF Finalized, WakeWaiters, flags
<1>3. /\ \A u \in Threads : u # t /\ pc[u] = "born" => pc'[u] = "born"
      /\ \A c \in Callers : pc'[c] = IF pc[c] = "asleep" THEN "woken" ELSE pc[c]
  BY <1>1, <1>2 DEF Notified
<1>4. ActiveRuns' /\ AsleepOnActive' /\ StarterIsHeard' /\ StartedRan'
  BY <1>2, <1>3 DEF Awake, ActiveRuns, AsleepOnActive, StarterIsHeard, StartedRan
<1>5. QED
  BY <1>4 DEF Awake

LEMMA CallStaysAwake ==
  ASSUME ThreadTypeOK, Orderly, Awake, NEW c \in Callers, CallStep(c)
  PROVE  Awake'
<1>1. CASE \E t \in Threads : Spawn(c, t)
  BY <1>1, SpawnStaysAwake
<1>2. CASE SpawnFails(c) \/ AlreadyStarted(c) \/ Cancel(c) \/ GetPthreadId(c) \/ SetResultCode(c)
           \/ FreeWhenDestroy(c) \/ WaitTimesOut(c)
  <2>1. (\E r : Return(c, r)) /\ UNCHANGED <<m_is_started, m_is_activated>>
    BY <1>2 DEF SpawnFails, AlreadyStarted, Cancel, GetPthreadId, SetResultCode, FreeWhenDestroy, WaitTimesOut,
                recordVars, flags
  <2>2. QED
    BY <2>1, ReturnStaysAwake
<1>3. CASE Started(c)
  <2>1. UNCHANGED <<m_is_started, m_is_activated>> /\ pc[c] = "started"
    BY <1>3 DEF Started, recordVars, flags
  <2>2. m_is_started
    BY <2>1 DEF Awake, StartedRan
  <2>3. Return(c, "OK")
    BY <1>3, <2>2 DEF Started
  <2>4. QED
    BY <2>1, <2>3, ReturnStaysAwake
<1>4. CASE ReadResult(c)
  <2>1. UNCHANGED <<m_is_started, m_is_activated>> /\ pc' = [pc EXCEPT ![c] = "idle"]
    BY <1>4 DEF ReadResult, GoTo, recordVars, flags
  <2>2. QED
    BY <2>1, CallerStaysAwake
<1>5. QED
  BY <1>1, <1>2, <1>3, <1>4 DEF CallStep

LEMMA SharedStaysAwake ==
  ASSUME ThreadTypeOK, Orderly, Awake, NEW a \in Actors, SharedStep(a)
  PROVE  Awake'
<1>1. a \in Callers
  BY DEF SharedStep, WaitAutodelete, WaitCheck, DestroyCancels, Freeup, Delete, Orderly, Handshake,
         ThreadsAreWhere, Live
<1>2. a \notin Threads
  BY <1>1
<1>3. UNCHANGED <<m_is_started, m_is_activated>>
  BY DEF SharedStep, WaitAutodelete, WaitCheck, DestroyCancels, Freeup, Delete, recordVars, flags
<1>4. ASSUME NEW r, Waited(a, r) PROVE Awake'
  <2>1. (\E p \in {"freeup", "read"} : pc' = [pc EXCEPT ![a] = p]) \/ Return(a, r)
    BY <1>2, <1>4 DEF Waited, GoTo
  <2>2. QED
    BY <1>1, <1>3, <2>1, CallerStaysAwake, ReturnStaysAwake
<1>5. CASE WaitAutodelete(a)
  BY <1>4, <1>5 DEF WaitAutodelete
<1>6. CASE WaitCheck(a)
  <2>1. CASE m_is_activated
    <3>1. pc' = [pc EXCEPT ![a] = "asleep"]
      BY <1>6, <2>1 DEF WaitCheck, Running, GoTo
    <3>2. QED
      BY <1>1, <1>3, <2>1, <3>1, CallerStaysAwake
  <2>2. CASE ~m_is_activated
    BY <1>4, <1>6, <2>2 DEF WaitCheck, Running
  <2>3. QED
    BY <2>1, <2>2
<1>7. CASE DestroyCancels(a) \/ Freeup(a) \/ Delete(a)
  <2>1. \E p \in {"wait", "delete", "idle"} : pc' = [pc EXCEPT ![a] = p]
    BY <1>2, <1>7 DEF DestroyCancels, Freeup, Delete, GoTo
  <2>2. QED
    BY <1>1, <1>3, <2>1, CallerStaysAwake
<1>8. QED
  BY <1>5, <1>6, <1>7 DEF SharedStep

LEMMA RunStaysAwake ==
  ASSUME ThreadTypeOK, Awake, NEW t \in Threads, ThreadStep(t) \/ DiesInFinal(t)
  PROVE  Awake'
<1>1. CASE Entry(t)
  BY <1>1, EntryStaysAwake
<1>2. CASE Finalized(t)
  BY <1>2, FinalizedStaysAwake
<1>3. CASE MainReturns(t) \/ ActOnCancel(t) \/ StoreResult(t) \/ Finalize(t) \/ DiesInFinal(t)
  <2>1. /\ pc[t] # "born" /\ UNCHANGED <<m_is_started, m_is_activated>>
        /\ \E p \in {"returned", "ending", "final", "stuck"} : pc' = [pc EXCEPT ![t] = p]
    BY <1>3 DEF MainReturns, ActOnCancel, StoreResult, Finalize, DiesInFinal, GoTo, recordVars, flags
  <2>2. QED
    BY <2>1, RunnerStaysAwake DEF Live
<1>4. QED
  BY <1>1, <1>2, <1>3 DEF ThreadStep

LEMMA NextStaysAwake ==
  ASSUME ThreadTypeOK, Orderly, Awake, [Next]_vars
  PROVE  Awake'
<1>1. ASSUME NEW c \in Callers, Create(c) PROVE Awake'
  <2>1. ~m_is_activated' /\ pc' = pc /\ record # "live"
    BY <1>1 DEF Create, Initialize
  <2>2. \A d \in Callers : pc[d] = "idle"
    BY <2>1 DEF Orderly, Alone, LeftAlone
  <2>3. QED
    BY <2>1, <2>2 DEF Awake, ActiveRuns, AsleepOnActive, StarterIsHeard, StartedRan
<1>2. ASSUME NEW c \in Callers, WaiterDies(c) PROVE Awake'
  BY <1>2, CallerStaysAwake DEF WaiterDies, GoTo, flags
<1>3. ASSUME NEW c \in Callers, NEW o \in Ops, Begin(c, o) PROVE Awake'
  <2>1. /\ UNCHANGED <<m_is_started, m_is_activated>> /\ pc' = [pc EXCEPT ![c] = FirstPlace(o)]
        /\ FirstPlace(o) \in {"cancel", "wait", "called"}
    BY <1>3 DEF Begin, GoTo, FirstPlace, recordVars, flags
  <2>2. QED
    BY <2>1, CallerStaysAwake
<1>4. CASE UNCHANGED vars
  BY <1>4 DEF vars, recordVars, flags, Awake, ActiveRuns, AsleepOnActive, StarterIsHeard, StartedRan
<1>5. QED
  BY <1>1, <1>2, <1>3, <1>4, CallStaysAwake, SharedStaysAwake, RunStaysAwake DEF Next

(* Unless a canceled thread holds m_wait_lock, who sleeps in a wait has a    *)
(* living pthread that has still to notify, and who sleeps in a start one     *)
(* that has still to enter.                                                  *)
THEOREM SleepersAreWoken ==
  ASSUME TakeTurns
  PROVE  Spec => []NobodyOversleeps
<1> DEFINE AInv == IInv /\ (~autodeletes => Awake)
<1>1. Init => AInv
  <2>1. Init => Awake
    BY DEF Init, Awake, ActiveRuns, AsleepOnActive, StarterIsHeard, StartedRan
  <2>2. QED
    BY <2>1, InitIInv
<1>2. AInv /\ [Next]_vars => AInv'
  <2> SUFFICES ASSUME AInv, [Next]_vars PROVE AInv'
    OBVIOUS
  <2>1. IInv'
    BY NextIInv
  <2>2. ASSUME ~autodeletes' PROVE Awake'
    <3>1. ~autodeletes
      BY <2>2, AutodeletesStays
    <3>2. QED
      BY <3>1, NextStaysAwake DEF IInv
  <2>3. QED
    BY <2>1, <2>2
<1>3. AInv => NobodyOversleeps
  BY DEF Awake, ActiveRuns, AsleepOnActive, StarterIsHeard, NobodyOversleeps, Stuck, Live
<1>4. QED
  BY <1>1, <1>2, <1>3, PTL DEF Spec
=============================================================================
