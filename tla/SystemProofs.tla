---------------------------- MODULE SystemProofs ----------------------------
(***************************************************************************)
(* What holds of the whole program for any number of modules, of signals   *)
(* that arrive and of calls of mccp_signal(): its variables have their     *)
(* types, and what it says at its end is so.                               *)
(***************************************************************************)
EXTENDS System, TLAPS

(* The module an operation on all modules comes to is a registered one.    *)
LEMMA CurrentIsRegistered ==
  ASSUME ModulesTypeOK, HasNext
  PROVE  /\ s_n_modules \in Nat /\ left \in 1 .. s_n_modules
         /\ Current \in 1 .. s_n_modules /\ Current \in ModuleIds
         /\ left - 1 \in 0 .. s_n_modules
<1>1. s_n_modules \in Nat /\ s_n_modules <= MAX_MODULES /\ left \in 0 .. s_n_modules
  BY DEF ModulesTypeOK, s_n_modules
<1>2. left > 0
  BY DEF HasNext
<1>3. s_n_modules - left + 1 \in 1 .. s_n_modules /\ left \in 1 .. s_n_modules
      /\ left - 1 \in 0 .. s_n_modules
  BY <1>1, <1>2
<1>4. 1 .. s_n_modules \subseteq ModuleIds
  BY <1>1, ModulesAssumption DEF ModuleIds
<1>5. Current \in 1 .. s_n_modules
  BY <1>3 DEF Current
<1>6. QED
  BY <1>1, <1>3, <1>4, <1>5

(* The states and results that the operations write.                       *)
LEMMA Values ==
  /\ {"REGISTERED", "INITIALIZED", "STARTED", "SHUTDOWN", "CANCELLING", "STOPPED"}
       \subseteq ModuleStates
  /\ {"OK", "FAILED", "TIMEDOUT", "NO_MEMORY", "ALREADY_EXISTS"} \subseteq Results
  /\ {"none", "initialize", "start", "shutdown", "stop", "wait", "finalize"} = Jobs
  /\ UNKNOWN \in GlobalStates /\ INITIALIZING \in GlobalStates
  /\ STARTING \in GlobalStates /\ STARTED \in GlobalStates
  /\ REQUEST_SHUTDOWN \in GlobalStates /\ ACCEPT_SHUTDOWN \in GlobalStates
  /\ \A s : LevelOf(s) \in Levels
BY DEF ModuleStates, Results, Jobs, GlobalStates, Levels, LevelOf

LEMMA JobStepIsTyped ==
  ASSUME ModulesTypeOK, JobStep
  PROVE  ModulesTypeOK'
<1> PICK m \in {Current} :
      \/ InitializeModule(m) \/ StartModule(m) \/ ShutdownModule(m)
      \/ StopModule(m) \/ WaitModule(m) \/ FinalizeModule(m)
  BY DEF JobStep
<1>1. HasNext
  BY DEF InitializeModule, StartModule, ShutdownModule, StopModule, WaitModule,
     FinalizeModule, Doing
<1>2. m \in ModuleIds /\ left - 1 \in 0 .. s_n_modules
  BY <1>1, CurrentIsRegistered
<1>3. /\ st \in Results /\ \A r \in {"OK", "FAILED", "TIMEDOUT"} : FirstErr(r) \in Results
      /\ m_status[m] \in ModuleStates
  BY <1>2, Values DEF ModulesTypeOK, FirstErr
<1>4. /\ UNCHANGED <<s_modules, stateVars, s_is_started, is_canceled, gs_lock, job>>
      /\ left' = left - 1 /\ st' \in Results
  BY <1>3 DEF InitializeModule, StartModule, ShutdownModule, StopModule, WaitModule,
     FinalizeModule, Goes, threadVars, flagVars
<1>5. /\ s_n_modules' = s_n_modules
      /\ left' \in 0 .. s_n_modules
  BY <1>2, <1>4 DEF s_n_modules
<1>6. /\ m_status' \in [ModuleIds -> ModuleStates]
      /\ m_thdptr' \in [ModuleIds -> BOOLEAN]
      /\ m_freed' \in [ModuleIds -> BOOLEAN]
  <2>1. CASE InitializeModule(m)
    BY <2>1, Values DEF InitializeModule, ModulesTypeOK
  <2>2. CASE StartModule(m)
    BY <2>2, Values DEF StartModule, ModulesTypeOK
  <2>3. CASE ShutdownModule(m)
    BY <1>3, <2>3, Values DEF ShutdownModule, ModulesTypeOK
  <2>4. CASE StopModule(m)
    BY <1>3, <2>4, Values DEF StopModule, ModulesTypeOK
  <2>5. CASE WaitModule(m)
    BY <2>5, Values DEF WaitModule, ModulesTypeOK
  <2>6. CASE FinalizeModule(m)
    BY <2>6 DEF FinalizeModule, Destructible, ModulesTypeOK
  <2>7. QED
    BY <2>1, <2>2, <2>3, <2>4, <2>5, <2>6
<1>7. /\ mpc' \in [ModuleIds -> {"off", "gala", "loop", "graceful", "end"}]
      /\ s_do_loop' \in [ModuleIds -> BOOLEAN]
      /\ s_is_gracefull' \in [ModuleIds -> BOOLEAN]
      /\ pending' \in [ModuleIds -> BOOLEAN]
  <2>1. CASE StartModule(m)
    BY <2>1 DEF StartModule, ModulesTypeOK
  <2>2. CASE ShutdownModule(m)
    BY <1>2, <2>2 DEF ShutdownModule, ModulesTypeOK, threadVars
  <2>3. CASE StopModule(m)
    BY <2>3 DEF StopModule, ModulesTypeOK, threadVars
  <2>4. CASE InitializeModule(m) \/ WaitModule(m) \/ FinalizeModule(m)
    BY <2>4 DEF InitializeModule, WaitModule, FinalizeModule, ModulesTypeOK,
       threadVars, flagVars
  <2>5. QED
    BY <2>1, <2>2, <2>3, <2>4
<1>8. QED
  BY <1>4, <1>5, <1>6, <1>7 DEF ModulesTypeOK, stateVars

LEMMA ModuleThreadIsTyped ==
  ASSUME ModulesTypeOK, NEW m \in ModuleIds, ModuleThread(m)
  PROVE  ModulesTypeOK'
<1>1. UNCHANGED <<flagVars, tableVars, jobVars, stateVars>>
  BY DEF ModuleThread, Gala, LeaveLoop, GracefulDone, ActOnCancel, ThreadEnds
<1>2. /\ mpc' \in [ModuleIds -> {"off", "gala", "loop", "graceful", "end"}]
      /\ s_is_started' \in [ModuleIds -> BOOLEAN]
      /\ is_canceled' \in [ModuleIds -> BOOLEAN]
      /\ gs_lock' \in ModuleIds \cup {NoModule}
  BY DEF ModuleThread, Gala, LeaveLoop, GracefulDone, ActOnCancel, ThreadEnds, GoTo,
     ModulesTypeOK
<1>3. s_n_modules' = s_n_modules
  BY <1>1 DEF tableVars, s_n_modules
<1>4. QED
  BY <1>1, <1>2, <1>3
  DEF ModulesTypeOK, flagVars, tableVars, jobVars, stateVars

LEMMA CtorIsTyped ==
  ASSUME ModulesTypeOK, NEW name \in Names, Ctor(name)
  PROVE  ModulesTypeOK'
<1>1. /\ Register(name) /\ RegisterResult(name) = "OK" /\ st' = "OK"
  BY DEF Ctor, Register
<1>2. /\ s_modules' = Append(s_modules, name)
      /\ m_status' = [m_status EXCEPT ![s_n_modules + 1] = "REGISTERED"]
      /\ UNCHANGED <<threadVars, flagVars, stateVars, m_thdptr, m_freed, job, left>>
  BY <1>1 DEF Register
<1>3. s_n_modules \in Nat /\ s_n_modules + 1 <= MAX_MODULES
  <2>1. s_n_modules # MAX_MODULES
    BY <1>1 DEF RegisterResult
  <2>2. QED
    BY <2>1, ModulesAssumption DEF ModulesTypeOK, s_n_modules
<1>4. s_modules' \in Seq(Names) /\ s_n_modules' = s_n_modules + 1
  BY <1>2 DEF ModulesTypeOK, s_n_modules
<1>5. left' \in 0 .. s_n_modules'
  BY <1>2, <1>3, <1>4 DEF ModulesTypeOK
<1>6. m_status' \in [ModuleIds -> ModuleStates]
  BY <1>2, Values DEF ModulesTypeOK
<1>7. QED
  BY <1>1, <1>2, <1>3, <1>4, <1>5, <1>6, Values
  DEF ModulesTypeOK, threadVars, flagVars, stateVars, s_n_modules

(* The steps of the main thread that begin an operation or set the global  *)
(* state.                                                                  *)
LEMMA MainStepIsTyped ==
  ASSUME ModulesTypeOK,
         UNCHANGED <<threadVars, flagVars, tableVars, s_gl>>,
         gs' \in GlobalStates, job' \in Jobs, st' \in Results,
         left' \in {left, s_n_modules}
  PROVE  ModulesTypeOK'
<1>1. s_n_modules' = s_n_modules /\ s_n_modules \in Nat
  BY DEF ModulesTypeOK, s_n_modules, tableVars
<1>2. left' \in 0 .. s_n_modules
  BY <1>1 DEF ModulesTypeOK
<1>3. QED
  BY <1>1, <1>2 DEF ModulesTypeOK, threadVars, flagVars, tableVars, s_n_modules

LEMMA SignalIsTyped ==
  ASSUME SignalsTypeOK, NEW signum \in Signums, NEW new, Signal(signum, new),
         changed' \in 0 .. NChanges
  PROVE  SignalsTypeOK'
<1>1. m_sigprocs' \in [Signums -> Handlers \cup {NULL}]
  BY DEF Signal, SignalsTypeOK
<1>2. m_sigset' \subseteq AllSignals /\ sigpending' \subseteq AllSignals
  BY DEF Signal, Notify, SignalsTypeOK, AllSignals
<1>3. QED
  BY <1>1, <1>2 DEF Signal, SignalsTypeOK, signalThreadVars

LEMMA SignalThreadIsTyped ==
  ASSUME SignalsTypeOK, NEW place \in {"handler", "top"}, SignalThread(place)
  PROVE  SignalsTypeOK'
<1>1. CASE Top
  BY <1>1 DEF Top, SGoTo, SignalsTypeOK, AllSignals
<1>2. CASE Wait
  BY <1>2 DEF Wait, SGoTo, SignalsTypeOK, tableVars_
<1>3. CASE \E s \in AllSignals : Take(s)
  BY <1>3 DEF Take, SGoTo, SignalsTypeOK, tableVars_
<1>4. CASE Look
  BY <1>4 DEF Look, SGoTo, SReturns, SignalsTypeOK, tableVars_, AllSignals
<1>5. CASE \E h \in Handlers \cup {NULL} : Call(h, place)
  BY <1>5 DEF Call, SGoTo, SignalsTypeOK, tableVars_
<1>6. QED
  BY <1>1, <1>2, <1>3, <1>4, <1>5 DEF SignalThread

(* A step that keeps the modules and their threads.                        *)
LEMMA ModulesKept ==
  ASSUME ModulesTypeOK, UNCHANGED moduleVars
  PROVE  ModulesTypeOK'
BY DEF ModulesTypeOK, moduleVars, threadVars, flagVars, tableVars, jobVars,
   stateVars, s_n_modules

LEMMA SignalsKept ==
  ASSUME SignalsTypeOK, UNCHANGED signalVars
  PROVE  SignalsTypeOK'
BY DEF SignalsTypeOK, signalVars, signalThreadVars, tableVars_

(* The places of the main thread.                                          *)
Places ==
  {"ctors", "signals", "initialize", "start", "open", "requests", "accepted",
   "shutdown", "wait", "stop", "wait again", "finalize", "dtors"}

MainTypeOK ==
  /\ main \in Places
  /\ s_got_term_sig \in BOOLEAN /\ seen \in GlobalStates
  /\ said \in {"nothing", "Finished cleanly", "Stopped forcibly"}

LEMMA TypeParts ==
  /\ SystemTypeOK <=> ModulesTypeOK /\ SignalsTypeOK /\ MainTypeOK
  /\ SystemTypeOK' <=> ModulesTypeOK' /\ SignalsTypeOK' /\ MainTypeOK'
BY DEF SystemTypeOK, MainTypeOK, Places

LEMMA MainThreadIsTyped ==
  ASSUME SystemTypeOK, MainThread
  PROVE  SystemTypeOK'
<1>1. ModulesTypeOK /\ SignalsTypeOK /\ MainTypeOK
  BY TypeParts
<1>2. /\ gs \in GlobalStates /\ job \in Jobs /\ st \in Results
  BY <1>1 DEF ModulesTypeOK
<1>3. MainTypeOK'
  <2>1. main' \in Places
    BY <1>1 DEF MainThread, CtorsDone, InstallHandler, InitializeAll, StartAll,
       AllStarted, Open, Accept, ShutdownAll, WaitAll, WaitedAll, StoppedAll,
       WaitedAgain, Returns, Exits, MainJob, MainGoes, FinalizeAll, mainVars,
       MainTypeOK, Places
  <2>2. UNCHANGED <<s_got_term_sig, seen>>
    BY DEF MainThread, CtorsDone, InstallHandler, InitializeAll, StartAll,
       AllStarted, Open, Accept, ShutdownAll, WaitAll, WaitedAll, StoppedAll,
       WaitedAgain, Returns, Exits, MainJob, UnchangedButStateAndJob, mainVars
  <2>3. said' \in {said, "Finished cleanly", "Stopped forcibly"}
    BY DEF MainThread, CtorsDone, InstallHandler, InitializeAll, StartAll,
       AllStarted, Open, Accept, ShutdownAll, WaitAll, WaitedAll, StoppedAll,
       WaitedAgain, Returns, Exits, MainJob, mainVars
  <2>4. QED
    BY <1>1, <2>1, <2>2, <2>3 DEF MainTypeOK
<1>4. CASE CtorsDone \/ \E s \in Signums : InstallHandler(s)
  <2>1. UNCHANGED moduleVars
    BY <1>4 DEF CtorsDone, InstallHandler
  <2>2. SignalsTypeOK'
    <3>1. CASE CtorsDone
      BY <1>1, <3>1, SignalsKept DEF CtorsDone
    <3>2. ASSUME NEW s \in Signums, InstallHandler(s)
          PROVE  SignalsTypeOK'
      <4>1. changed' \in 0 .. NChanges
        BY <1>1, <3>2 DEF InstallHandler, SignalsTypeOK
      <4>2. QED
        BY <1>1, <3>2, <4>1, SignalIsTyped DEF InstallHandler
    <3>3. QED
      BY <1>4, <3>1, <3>2
  <2>3. QED
    BY <1>1, <1>3, <2>1, <2>2, ModulesKept, TypeParts
<1>5. CASE \/ InitializeAll \/ StartAll \/ AllStarted \/ Open \/ Accept
           \/ ShutdownAll \/ WaitAll \/ WaitedAll \/ StoppedAll \/ WaitedAgain
  <2>1. UNCHANGED <<threadVars, flagVars, tableVars, s_gl, signalVars>>
    BY <1>5 DEF InitializeAll, StartAll, AllStarted, Open, Accept, ShutdownAll,
       WaitAll, WaitedAll, StoppedAll, WaitedAgain, UnchangedButStateAndJob,
       SetState, stateVars
  <2>2. gs' \in {gs, INITIALIZING, STARTING, STARTED, ACCEPT_SHUTDOWN}
    BY <1>5 DEF InitializeAll, StartAll, AllStarted, Open, Accept, ShutdownAll,
       WaitAll, WaitedAll, StoppedAll, WaitedAgain, SetState, stateVars
  <2>3. /\ job' \in {job, "initialize", "start", "shutdown", "wait", "stop",
                     "finalize", "none"}
        /\ st' \in {st, "OK"}
        /\ left' \in {left, s_n_modules}
    BY <1>5 DEF InitializeAll, StartAll, AllStarted, Open, Accept, ShutdownAll,
       WaitAll, WaitedAll, StoppedAll, WaitedAgain, Begin, FinalizeAll, jobVars
  <2>4. gs' \in GlobalStates /\ job' \in Jobs /\ st' \in Results
    BY <1>2, <2>2, <2>3, Values
  <2>5. ModulesTypeOK'
    BY <1>1, <2>1, <2>3, <2>4, MainStepIsTyped
  <2>6. QED
    BY <1>1, <1>3, <2>1, <2>5, SignalsKept, TypeParts
<1>6. CASE Returns
  <2>1. ModulesTypeOK'
    <3>1. /\ UNCHANGED <<threadVars, flagVars, tableVars, s_gl, gs, st, left>>
          /\ job' = "none"
      BY <1>6 DEF Returns, stateVars
    <3>2. QED
      BY <1>1, <1>2, <3>1, MainStepIsTyped, Values
  <2>2. SignalsTypeOK'
    BY <1>1, <1>6
    DEF Returns, StopSignals, Notify, SignalsTypeOK, signalThreadVars, AllSignals
  <2>3. QED
    BY <1>3, <2>1, <2>2, TypeParts
<1>7. CASE Exits
  <2>1. UNCHANGED moduleVars
    BY <1>7 DEF Exits
  <2>2. SignalsTypeOK'
    BY <1>1, <1>7 DEF Exits, SignalsTypeOK, signalThreadVars, tableVars_
  <2>3. QED
    BY <1>1, <1>3, <2>1, <2>2, ModulesKept, TypeParts
<1>8. CASE MainJob
  <2>1. JobStep /\ UNCHANGED signalVars
    BY <1>8 DEF MainJob
  <2>2. QED
    BY <1>1, <1>3, <2>1, JobStepIsTyped, SignalsKept, TypeParts
<1>9. QED
  BY <1>4, <1>5, <1>6, <1>7, <1>8 DEF MainThread

LEMMA TheSignalThreadIsTyped ==
  ASSUME SystemTypeOK, TheSignalThread
  PROVE  SystemTypeOK'
<1>1. ModulesTypeOK /\ SignalsTypeOK /\ MainTypeOK
  BY TypeParts
<1>2. CASE \E place \in {"handler", "top"} :
             SignalThread(place) /\ UNCHANGED <<moduleVars, mainVars>>
  <2>1. SignalsTypeOK' /\ UNCHANGED moduleVars
    BY <1>1, <1>2, SignalThreadIsTyped
  <2>2. MainTypeOK'
    BY <1>1, <1>2 DEF MainTypeOK, mainVars
  <2>3. QED
    BY <1>1, <2>1, <2>2, ModulesKept, TypeParts
<1>3. CASE Handler
  <2>1. SignalsTypeOK'
    BY <1>1, <1>3
    DEF Handler, HandlerReads, HandlerAsks, HandlerNotes, HandlerWakes, SGoTo,
        SReturns, SignalsTypeOK, tableVars_, AllSignals
  <2>2. MainTypeOK'
    <3>1. /\ UNCHANGED <<main, said>>
          /\ seen' \in {gs, seen, UNKNOWN} /\ s_got_term_sig' \in {s_got_term_sig, TRUE}
      BY <1>3 DEF Handler, HandlerReads, HandlerAsks, HandlerNotes, HandlerWakes,
         mainVars
    <3>2. gs \in GlobalStates /\ UNKNOWN \in GlobalStates
      BY <1>1, Values DEF ModulesTypeOK
    <3>3. QED
      BY <1>1, <3>1, <3>2 DEF MainTypeOK
  <2>3. ModulesTypeOK'
    <3>1. CASE UNCHANGED moduleVars
      BY <1>1, <3>1, ModulesKept
    <3>2. CASE UNCHANGED <<threadVars, flagVars, tableVars, jobVars>>
               /\ gs' = REQUEST_SHUTDOWN /\ s_gl' = LevelOf(sig)
      <4>1. gs' \in GlobalStates /\ s_gl' \in Levels
        BY <3>2, Values
      <4>2. QED
        BY <1>1, <3>2, <4>1
        DEF ModulesTypeOK, threadVars, flagVars, tableVars, jobVars, s_n_modules
    <3>3. QED
      BY <1>3, <3>1, <3>2
      DEF Handler, HandlerReads, HandlerAsks, HandlerNotes, HandlerWakes, moduleVars
  <2>4. QED
    BY <2>1, <2>2, <2>3, TypeParts
<1>4. QED
  <2>1. HandlerPlace \in {"handler", "top"}
    BY DEF HandlerPlace
  <2>2. QED
    BY <1>2, <1>3, <2>1 DEF TheSignalThread

LEMMA NextIsTyped == SystemTypeOK /\ [Next]_vars => SystemTypeOK'
<1> SUFFICES ASSUME SystemTypeOK, [Next]_vars PROVE SystemTypeOK'
  OBVIOUS
<1>1. ModulesTypeOK /\ SignalsTypeOK /\ MainTypeOK
  BY TypeParts
<1>2. ASSUME UNCHANGED mainVars PROVE MainTypeOK'
  BY <1>1, <1>2 DEF mainVars, MainTypeOK
<1>3. CASE UNCHANGED vars
  BY <1>1, <1>2, <1>3, ModulesKept, SignalsKept, TypeParts DEF vars
<1>4. CASE \E name \in Names : Ctor(name)
  BY <1>1, <1>2, <1>4, CtorIsTyped, SignalsKept, TypeParts DEF Ctor
<1>5. CASE MainThread
  BY <1>5, MainThreadIsTyped
<1>6. CASE TheSignalThread
  BY <1>6, TheSignalThreadIsTyped
<1>7. CASE Threads
  BY <1>1, <1>2, <1>7, ModuleThreadIsTyped, SignalsKept, TypeParts DEF Threads
<1>8. CASE /\ (\E s \in Signums : Send(s)) \/ DefaultAction
           /\ UNCHANGED <<moduleVars, mainVars>>
  <2>1. SignalsTypeOK'
    <3>1. CASE DefaultAction
      BY <1>1, <3>1 DEF DefaultAction, SignalsTypeOK, signalThreadVars, tableVars_
    <3>2. CASE \E s \in Signums : Send(s)
      BY <1>1, <3>2, SignalsAssumption
      DEF Send, SignalsTypeOK, signalThreadVars, tableVars_, AllSignals
    <3>3. QED
      BY <1>8, <3>1, <3>2
  <2>2. QED
    BY <1>1, <1>2, <1>8, <2>1, ModulesKept, TypeParts
<1>9. CASE \E s \in Signums, new \in Handlers \cup {"SIG_IGN", "SIG_DFL"} :
             Change(s, new)
  <2>1. PICK s \in Signums, new \in Handlers \cup {"SIG_IGN", "SIG_DFL"} :
          Change(s, new)
    BY <1>9
  <2>2. /\ Signal(s, new) /\ changed' \in 0 .. NChanges
        /\ UNCHANGED <<moduleVars, mainVars>>
    BY <1>1, <2>1, SignalsAssumption DEF Change, SignalsTypeOK
  <2>3. QED
    BY <1>1, <1>2, <2>2, SignalIsTyped, ModulesKept, TypeParts
<1>10. QED
  BY <1>3, <1>4, <1>5, <1>6, <1>7, <1>8, <1>9 DEF Next

LEMMA InitIsTyped == Init => SystemTypeOK
<1> SUFFICES ASSUME Init PROVE SystemTypeOK
  OBVIOUS
<1>1. ModulesTypeOK
  BY ModulesAssumption, Values
  DEF Init, ModulesInit, ModulesTypeOK, s_n_modules, NoModule, Levels, ModuleStates
<1>2. SignalsTypeOK
  BY SignalsAssumption DEF Init, SignalsInit, SignalsTypeOK, AllSignals
<1>3. MainTypeOK
  BY Values DEF Init, MainTypeOK, Places
<1>4. QED
  BY <1>1, <1>2, <1>3, TypeParts

(* For any number of modules, signals and calls of mccp_signal(): every    *)
(* variable has its type; an operation on all modules (module.c:529) never *)
(* leaves the table of modules, and the table has room for what it         *)
(* registers.                                                              *)
THEOREM TypeCorrect == Spec => []SystemTypeOK
BY InitIsTyped, NextIsTyped, PTL DEF Spec
-----------------------------------------------------------------------------
(***************************************************************************)
(* The end of the program.  What makes it hold is spread over the whole    *)
(* life: how the status of a module follows its thread, that the operation *)
(* on all modules is the one the main thread is at, what a wait has        *)
(* established so far, and that nothing is canceled before the stop.       *)
(***************************************************************************)
EndStates == {"SHUTDOWN", "STOPPED"}

(* The status of a module and the state of its thread.                     *)
StatusFits ==
  \A m \in ModuleIds :
    /\ m_status[m] \in EndStates =>
         mpc[m] = "off" /\ (m_status[m] = "STOPPED" <=> is_canceled[m])
    /\ mpc[m] # "off" \/ is_canceled[m] =>
         m_thdptr[m] /\ m_status[m] \in {"STARTED", "CANCELLING"} \cup EndStates

(* Nothing happens to a module that is not registered.                     *)
UnregisteredIsUnknown ==
  \A m \in ModuleIds : m > s_n_modules => m_status[m] = "UNKNOWN"

(* The operation that goes over the modules at each place of the program.  *)
JobAt(place) ==
  IF place \in {"ctors", "signals", "requests", "accepted", "dtors"} THEN "none"
  ELSE IF place = "open" THEN "start"
  ELSE IF place = "wait again" THEN "wait"
  ELSE place
JobFits == job = JobAt(main)

FreedAtTheEnd ==
  \A m \in ModuleIds :
    m_freed[m] => mpc[m] = "off" /\ main \in {"finalize", "dtors"}

(* A wait that has met no error has found each module it went over at its  *)
(* end.                                                                    *)
WaitedFor ==
  job = "wait" /\ st = "OK" =>
    \A m \in left + 1 .. s_n_modules : m_status[m] \in EndStates

EndFits ==
  said # "nothing" =>
    /\ main \in {"finalize", "dtors"}
    /\ \A m \in 1 .. s_n_modules : m_status[m] \in EndStates

OnlyStopCancels ==
  \A m \in ModuleIds :
    pending[m] \/ is_canceled[m] =>
      /\ main \in {"stop", "wait again", "finalize", "dtors"}
      /\ said # "Finished cleanly"

IInv ==
  /\ SystemTypeOK /\ StatusFits /\ UnregisteredIsUnknown /\ JobFits
  /\ FreedAtTheEnd /\ WaitedFor /\ EndFits /\ OnlyStopCancels

(* The types that the proofs below use.                                    *)
LEMMA Facts ==
  ASSUME SystemTypeOK
  PROVE  /\ m_status \in [ModuleIds -> ModuleStates]
         /\ m_thdptr \in [ModuleIds -> BOOLEAN] /\ m_freed \in [ModuleIds -> BOOLEAN]
         /\ mpc \in [ModuleIds -> {"off", "gala", "loop", "graceful", "end"}]
         /\ is_canceled \in [ModuleIds -> BOOLEAN] /\ pending \in [ModuleIds -> BOOLEAN]
         /\ s_n_modules \in Nat /\ s_n_modules <= MAX_MODULES
         /\ left \in 0 .. s_n_modules /\ main \in Places
         /\ 1 .. s_n_modules \subseteq ModuleIds
         /\ \A m \in ModuleIds : m \in Int
<1>1. ModulesTypeOK /\ MainTypeOK
  BY TypeParts
<1>2. s_n_modules \in Nat /\ s_n_modules <= MAX_MODULES
  BY <1>1 DEF ModulesTypeOK, s_n_modules
<1>3. 1 .. s_n_modules \subseteq ModuleIds /\ \A m \in ModuleIds : m \in Int
  BY <1>2, ModulesAssumption DEF ModuleIds
<1>4. QED
  BY <1>1, <1>2, <1>3 DEF ModulesTypeOK, MainTypeOK, s_n_modules

LEMMA InitEnd == Init => IInv
<1> SUFFICES ASSUME Init PROVE IInv
  OBVIOUS
<1>1. SystemTypeOK
  BY InitIsTyped
<1>2. /\ \A m \in ModuleIds :
           /\ m_status[m] = "UNKNOWN" /\ mpc[m] = "off" /\ ~is_canceled[m]
           /\ ~m_freed[m] /\ ~pending[m]
      /\ main = "ctors" /\ job = "none" /\ said = "nothing"
  BY DEF Init, ModulesInit
<1>3. StatusFits /\ UnregisteredIsUnknown /\ FreedAtTheEnd /\ OnlyStopCancels
  BY <1>2
  DEF StatusFits, UnregisteredIsUnknown, FreedAtTheEnd, OnlyStopCancels, EndStates
<1>4. JobFits /\ WaitedFor /\ EndFits
  BY <1>2 DEF JobFits, JobAt, WaitedFor, EndFits
<1>5. QED
  BY <1>1, <1>3, <1>4 DEF IInv

(* A step of another thread than those of the modules and the main one.    *)
LEMMA OthersKeepEnd ==
  ASSUME IInv, SystemTypeOK',
         UNCHANGED <<threadVars, flagVars, tableVars, jobVars, main, said>>
  PROVE  IInv'
<1>1. /\ UNCHANGED <<mpc, is_canceled, pending, m_status, m_thdptr, m_freed,
                     job, left, st, main, said>>
      /\ s_n_modules' = s_n_modules
  BY DEF threadVars, flagVars, tableVars, jobVars, s_n_modules
<1>2. /\ StatusFits' /\ UnregisteredIsUnknown' /\ FreedAtTheEnd'
      /\ OnlyStopCancels'
  BY <1>1
  DEF IInv, StatusFits, UnregisteredIsUnknown, FreedAtTheEnd, OnlyStopCancels
<1>3. JobFits' /\ WaitedFor' /\ EndFits'
  BY <1>1 DEF IInv, JobFits, WaitedFor, EndFits
<1>4. QED
  BY <1>2, <1>3 DEF IInv

(* A constructor registers a module that nothing has happened to.          *)
LEMMA CtorKeepsEnd ==
  ASSUME IInv, SystemTypeOK', NEW name \in Names, Ctor(name)
  PROVE  IInv'
<1> DEFINE n == s_n_modules
<1>1. /\ Register(name) /\ RegisterResult(name) = "OK" /\ main = "ctors"
      /\ UNCHANGED <<main, said>>
  BY DEF Ctor, Register, mainVars
<1>2. /\ s_modules' = Append(s_modules, name)
      /\ m_status' = [m_status EXCEPT ![n + 1] = "REGISTERED"]
      /\ UNCHANGED <<mpc, is_canceled, pending, m_thdptr, m_freed, job, left>>
  BY <1>1 DEF Register, threadVars, flagVars
<1>3. s_n_modules' = n + 1 /\ n \in Nat
  BY <1>2, TypeParts DEF IInv, ModulesTypeOK, s_n_modules
<1>4. \A m \in ModuleIds : m # n + 1 => m_status'[m] = m_status[m]
  BY <1>2, Facts DEF IInv
<1>5. n + 1 \in ModuleIds => m_status'[n + 1] = "REGISTERED"
  BY <1>2, Facts DEF IInv
<1>6. n + 1 \in ModuleIds => mpc[n + 1] = "off" /\ ~is_canceled[n + 1]
  <2>1. n + 1 \in ModuleIds => m_status[n + 1] = "UNKNOWN"
    BY <1>3 DEF IInv, UnregisteredIsUnknown
  <2>2. QED
    BY <2>1 DEF IInv, StatusFits, EndStates
<1>7. StatusFits'
  BY <1>2, <1>4, <1>5, <1>6 DEF IInv, StatusFits, EndStates
<1>8. UnregisteredIsUnknown'
  <2> SUFFICES ASSUME NEW m \in ModuleIds, m > n + 1 PROVE m_status'[m] = "UNKNOWN"
    BY <1>3 DEF UnregisteredIsUnknown
  <2>1. m # n + 1 /\ m > n
    BY <1>3, Facts DEF IInv
  <2>2. QED
    BY <1>4, <2>1 DEF IInv, UnregisteredIsUnknown
<1>9. FreedAtTheEnd' /\ OnlyStopCancels'
  BY <1>1, <1>2 DEF IInv, FreedAtTheEnd, OnlyStopCancels
<1>10. JobFits' /\ WaitedFor' /\ EndFits'
  BY <1>1, <1>2 DEF IInv, JobFits, JobAt, WaitedFor, EndFits
<1>11. QED
  BY <1>7, <1>8, <1>9, <1>10 DEF IInv

(* The thread of a module.                                                 *)
LEMMA ModuleThreadsKeepEnd ==
  ASSUME IInv, SystemTypeOK', NEW m \in ModuleIds, ModuleThread(m),
         UNCHANGED mainVars
  PROVE  IInv'
<1>1. /\ UNCHANGED <<m_status, m_thdptr, m_freed, pending, job, left, st, main, said>>
      /\ s_n_modules' = s_n_modules
  BY DEF ModuleThread, Gala, LeaveLoop, GracefulDone, ActOnCancel, ThreadEnds,
     flagVars, tableVars, jobVars, mainVars, s_n_modules
<1>2. /\ mpc[m] # "off"
      /\ \A k \in ModuleIds \ {m} :
           mpc'[k] = mpc[k] /\ is_canceled'[k] = is_canceled[k]
      /\ is_canceled'[m] => is_canceled[m] \/ pending[m]
  BY Facts DEF IInv, ModuleThread, Gala, LeaveLoop, GracefulDone, ActOnCancel,
     ThreadEnds, GoTo
<1>3. /\ m_thdptr[m] /\ m_status[m] \in {"STARTED", "CANCELLING"}
      /\ ~m_freed[m]
  BY <1>2 DEF IInv, StatusFits, FreedAtTheEnd
<1>4. StatusFits'
  BY <1>1, <1>2, <1>3 DEF IInv, StatusFits, EndStates
<1>5. FreedAtTheEnd' /\ OnlyStopCancels'
  BY <1>1, <1>2, <1>3 DEF IInv, FreedAtTheEnd, OnlyStopCancels
<1>6. UnregisteredIsUnknown' /\ JobFits' /\ WaitedFor' /\ EndFits'
  BY <1>1 DEF IInv, UnregisteredIsUnknown, JobFits, WaitedFor, EndFits
<1>7. QED
  BY <1>4, <1>5, <1>6 DEF IInv

(* An operation on all modules comes to the next one.                      *)
LEMMA JobsKeepEnd ==
  ASSUME IInv, SystemTypeOK', MainJob
  PROVE  IInv'
<1> PICK m \in {Current} :
      \/ InitializeModule(m) \/ StartModule(m) \/ ShutdownModule(m)
      \/ StopModule(m) \/ WaitModule(m) \/ FinalizeModule(m)
  BY DEF MainJob, JobStep
<1>1. /\ UNCHANGED <<main, said, job, s_modules, is_canceled>>
      /\ HasNext /\ left' = left - 1
      /\ s_n_modules' = s_n_modules
  BY DEF MainJob, mainVars, InitializeModule, StartModule, ShutdownModule,
     StopModule, WaitModule, FinalizeModule, Doing, Goes, threadVars, s_n_modules
<1>2. /\ m \in 1 .. s_n_modules /\ m \in ModuleIds /\ ModulesTypeOK
      /\ ~(m > s_n_modules)
  <2>1. ModulesTypeOK
    BY TypeParts DEF IInv
  <2>2. m \in 1 .. s_n_modules /\ m \in ModuleIds
    BY <1>1, <2>1, CurrentIsRegistered
  <2>3. QED
    BY <2>1, <2>2, Facts DEF IInv
<1>3. /\ job = "initialize" => main = "initialize"
      /\ job = "start" => main \in {"start", "open"}
      /\ job = "shutdown" => main = "shutdown"
      /\ job = "stop" => main = "stop"
      /\ job = "wait" => main \in {"wait", "wait again"}
      /\ job = "finalize" => main = "finalize"
  BY DEF IInv, JobFits, JobAt
<1>4. JobFits'
  BY <1>1 DEF IInv, JobFits
<1>5. CASE InitializeModule(m)
  <2>1. /\ main = "initialize" /\ job = "initialize"
        /\ m_status[m] = "REGISTERED" /\ m_status'[m] \in {"REGISTERED", "INITIALIZED"}
        /\ \A k \in ModuleIds \ {m} :
             m_status'[k] = m_status[k] /\ m_thdptr'[k] = m_thdptr[k]
        /\ UNCHANGED <<mpc, m_freed, pending>>
    BY <1>2, <1>3, <1>5, Facts
    DEF IInv, InitializeModule, Doing, threadVars, flagVars
  <2>2. mpc[m] = "off" /\ ~is_canceled[m]
    BY <1>2, <2>1 DEF IInv, StatusFits, EndStates
  <2>3. StatusFits'
    BY <1>1, <2>1, <2>2 DEF IInv, StatusFits, EndStates
  <2>4. UnregisteredIsUnknown' /\ FreedAtTheEnd' /\ OnlyStopCancels'
    BY <1>1, <1>2, <2>1
    DEF IInv, UnregisteredIsUnknown, FreedAtTheEnd, OnlyStopCancels
  <2>5. WaitedFor' /\ EndFits'
    BY <1>1, <2>1 DEF IInv, WaitedFor, EndFits
  <2>6. QED
    BY <1>4, <2>3, <2>4, <2>5 DEF IInv
<1>6. CASE StartModule(m)
  <2>1. /\ main \in {"start", "open"} /\ job = "start"
        /\ m_status[m] = "INITIALIZED"
        /\ \/ m_status'[m] = "STARTED"
              /\ mpc'[m] = IF m_thdptr[m] THEN "gala" ELSE "off"
           \/ m_status'[m] = "INITIALIZED" /\ mpc'[m] = mpc[m]
        /\ \A k \in ModuleIds \ {m} :
             m_status'[k] = m_status[k] /\ mpc'[k] = mpc[k]
        /\ UNCHANGED <<m_thdptr, m_freed, pending>>
    BY <1>2, <1>3, <1>6, Facts DEF IInv, StartModule, Doing
  <2>2. mpc[m] = "off" /\ ~is_canceled[m]
    BY <1>2, <2>1 DEF IInv, StatusFits, EndStates
  <2>3. StatusFits'
    BY <1>1, <2>1, <2>2 DEF IInv, StatusFits, EndStates
  <2>4. \A k \in ModuleIds : ~m_freed[k]
    BY <2>1 DEF IInv, FreedAtTheEnd
  <2>5. UnregisteredIsUnknown' /\ FreedAtTheEnd' /\ OnlyStopCancels'
    BY <1>1, <1>2, <2>1, <2>4
    DEF IInv, UnregisteredIsUnknown, FreedAtTheEnd, OnlyStopCancels
  <2>6. WaitedFor' /\ EndFits'
    BY <1>1, <2>1 DEF IInv, WaitedFor, EndFits
  <2>7. QED
    BY <1>4, <2>3, <2>5, <2>6 DEF IInv
<1>7. CASE ShutdownModule(m)
  <2>1. /\ main = "shutdown" /\ job = "shutdown" /\ m_status[m] = "STARTED"
        /\ m_status'[m] = IF m_thdptr[m] THEN "STARTED" ELSE "SHUTDOWN"
        /\ \A k \in ModuleIds \ {m} : m_status'[k] = m_status[k]
        /\ UNCHANGED <<mpc, m_thdptr, m_freed, pending>>
    BY <1>2, <1>3, <1>7, Facts DEF IInv, ShutdownModule, Doing, threadVars
  <2>2. ~m_thdptr[m] => mpc[m] = "off" /\ ~is_canceled[m]
    BY <1>2 DEF IInv, StatusFits
  <2>3. StatusFits'
    BY <1>1, <2>1, <2>2 DEF IInv, StatusFits, EndStates
  <2>4. UnregisteredIsUnknown' /\ FreedAtTheEnd' /\ OnlyStopCancels'
    BY <1>1, <1>2, <2>1
    DEF IInv, UnregisteredIsUnknown, FreedAtTheEnd, OnlyStopCancels
  <2>5. WaitedFor' /\ EndFits'
    BY <1>1, <2>1 DEF IInv, WaitedFor, EndFits
  <2>6. QED
    BY <1>4, <2>3, <2>4, <2>5 DEF IInv
<1>8. CASE StopModule(m)
  <2>1. /\ main = "stop" /\ job = "stop"
        /\ \/ UNCHANGED m_status
           \/ /\ m_status[m] = "STARTED"
              /\ m_status'[m] = IF m_thdptr[m] THEN "CANCELLING" ELSE "SHUTDOWN"
        /\ \A k \in ModuleIds \ {m} : m_status'[k] = m_status[k]
        /\ UNCHANGED <<mpc, m_thdptr, m_freed>>
    BY <1>2, <1>3, <1>8, Facts DEF IInv, StopModule, Doing, threadVars
  <2>2. ~m_thdptr[m] => mpc[m] = "off" /\ ~is_canceled[m]
    BY <1>2 DEF IInv, StatusFits
  <2>3. StatusFits'
    BY <1>1, <2>1, <2>2 DEF IInv, StatusFits, EndStates
  <2>4. said = "nothing"
    BY <2>1 DEF IInv, EndFits
  <2>5. UnregisteredIsUnknown' /\ FreedAtTheEnd' /\ OnlyStopCancels'
    BY <1>1, <1>2, <2>1, <2>4
    DEF IInv, UnregisteredIsUnknown, FreedAtTheEnd, OnlyStopCancels
  <2>6. WaitedFor' /\ EndFits'
    BY <1>1, <2>1 DEF IInv, WaitedFor, EndFits
  <2>7. QED
    BY <1>4, <2>3, <2>5, <2>6 DEF IInv
<1>9. CASE WaitModule(m)
  <2>1. /\ main \in {"wait", "wait again"} /\ job = "wait" /\ m = left
        /\ \/ /\ m_status[m] \in {"CANCELLING", "STARTED"} /\ mpc[m] = "off"
              /\ m_status'[m] = IF is_canceled[m] THEN "STOPPED" ELSE "SHUTDOWN"
              /\ st' = FirstErr("OK")
           \/ UNCHANGED m_status /\ st' = FirstErr("TIMEDOUT")
           \/ /\ UNCHANGED m_status /\ m_status[m] \in EndStates
              /\ st' = FirstErr("OK")
        /\ \A k \in ModuleIds \ {m} : m_status'[k] = m_status[k]
        /\ UNCHANGED <<mpc, m_thdptr, m_freed, pending>>
    BY <1>2, <1>3, <1>9, Facts
    DEF IInv, WaitModule, Doing, Goes, Waitable, ThreadEnded, EndStates, threadVars,
        flagVars, Current, Forwards
  <2>2. StatusFits'
    BY <1>1, <2>1 DEF IInv, StatusFits, EndStates
  <2>3. UnregisteredIsUnknown' /\ FreedAtTheEnd' /\ OnlyStopCancels'
    BY <1>1, <1>2, <2>1
    DEF IInv, UnregisteredIsUnknown, FreedAtTheEnd, OnlyStopCancels
  <2>4. WaitedFor'
    <3> SUFFICES ASSUME st' = "OK", NEW k \in left' + 1 .. s_n_modules
                 PROVE  m_status'[k] \in EndStates
      BY <1>1 DEF WaitedFor
    <3>1. st = "OK" /\ m_status'[m] \in EndStates
      BY <2>1 DEF FirstErr, EndStates
    <3>2. k \in ModuleIds /\ (k = m \/ k \in left + 1 .. s_n_modules)
      <4>1. left \in 1 .. s_n_modules /\ s_n_modules \in Nat
        BY <1>1, <1>2, CurrentIsRegistered
      <4>2. k \in Int /\ left <= k /\ k <= s_n_modules
        BY <1>1, <4>1
      <4>3. k \in 1 .. s_n_modules
        BY <4>1, <4>2
      <4>4. k \in ModuleIds
        BY <4>3, Facts DEF IInv
      <4>5. k = left \/ k \in left + 1 .. s_n_modules
        BY <4>1, <4>2
      <4>6. QED
        BY <2>1, <4>4, <4>5
    <3>3. CASE k = m
      BY <3>1, <3>3
    <3>4. CASE k # m
      BY <2>1, <3>1, <3>2, <3>4 DEF IInv, WaitedFor
    <3>5. QED
      BY <3>3, <3>4
  <2>5. EndFits'
    BY <1>1, <2>1 DEF IInv, EndFits
  <2>6. QED
    BY <1>4, <2>2, <2>3, <2>4, <2>5 DEF IInv
<1>10. CASE FinalizeModule(m)
  <2>1. /\ main = "finalize" /\ job = "finalize"
        /\ m_freed' = [m_freed EXCEPT ![m] = m_freed[m] \/ Destructible(m)]
        /\ UNCHANGED <<mpc, m_thdptr, m_status, pending>>
    BY <1>3, <1>10 DEF FinalizeModule, Doing, threadVars, flagVars
  <2>2. Destructible(m) => mpc[m] = "off"
    BY <1>2 DEF IInv, StatusFits, Destructible
  <2>3. FreedAtTheEnd'
    BY <1>1, <2>1, <2>2, Facts DEF IInv, FreedAtTheEnd
  <2>4. StatusFits' /\ UnregisteredIsUnknown' /\ OnlyStopCancels'
    BY <1>1, <2>1 DEF IInv, StatusFits, UnregisteredIsUnknown, OnlyStopCancels
  <2>5. WaitedFor' /\ EndFits'
    BY <1>1, <2>1 DEF IInv, WaitedFor, EndFits
  <2>6. QED
    BY <1>4, <2>3, <2>4, <2>5 DEF IInv
<1>11. QED
  BY <1>5, <1>6, <1>7, <1>8, <1>9, <1>10

(* The main thread goes on to the next operation, or says how it ended.    *)
LEMMA MainKeepsEnd ==
  ASSUME IInv, SystemTypeOK',
         \/ CtorsDone \/ InitializeAll \/ StartAll \/ AllStarted \/ Open \/ Accept
         \/ ShutdownAll \/ WaitAll \/ WaitedAll \/ StoppedAll \/ WaitedAgain
         \/ Returns
  PROVE  IInv'
<1>1. /\ UNCHANGED <<mpc, is_canceled, pending, m_status, m_thdptr, m_freed>>
      /\ s_n_modules' = s_n_modules
  BY DEF CtorsDone, InitializeAll, StartAll, AllStarted, Open, Accept, ShutdownAll,
     WaitAll, WaitedAll, StoppedAll, WaitedAgain, Returns, UnchangedButStateAndJob,
     moduleVars, threadVars, flagVars, tableVars, s_n_modules
<1>2. StatusFits' /\ UnregisteredIsUnknown'
  BY <1>1 DEF IInv, StatusFits, UnregisteredIsUnknown
<1>3. JobFits'
  BY DEF IInv, JobFits, JobAt, CtorsDone, InitializeAll, StartAll, AllStarted, Open,
     Accept, ShutdownAll, WaitAll, WaitedAll, StoppedAll, WaitedAgain, Returns,
     MainGoes, Begin, FinalizeAll, moduleVars, jobVars
<1>4. /\ main \in {"finalize", "dtors"} => main' = "dtors"
      /\ main \in {"stop", "wait again", "finalize", "dtors"} =>
           main' \in {"stop", "wait again", "finalize", "dtors"}
  BY DEF CtorsDone, InitializeAll, StartAll, AllStarted, Open, Accept, ShutdownAll,
     WaitAll, WaitedAll, StoppedAll, WaitedAgain, Returns, MainGoes, FinalizeAll
<1>5. FreedAtTheEnd'
  BY <1>1, <1>4 DEF IInv, FreedAtTheEnd
<1>6. \/ UNCHANGED said
      \/ main = "wait" /\ WaitedAll /\ st = "OK" /\ said' = "Finished cleanly"
      \/ main = "wait again" /\ WaitedAgain /\ st = "OK" /\ said' = "Stopped forcibly"
  BY DEF CtorsDone, InitializeAll, StartAll, AllStarted, Open, Accept, ShutdownAll,
     WaitAll, WaitedAll, StoppedAll, WaitedAgain, Returns
<1>7. OnlyStopCancels'
  BY <1>1, <1>4, <1>6 DEF IInv, OnlyStopCancels
<1>8. WaitedFor'
  <2>1. job' = "wait" => left' = s_n_modules
    BY DEF IInv, JobFits, JobAt, CtorsDone, InitializeAll, StartAll, AllStarted,
       Open, Accept, ShutdownAll, WaitAll, WaitedAll, StoppedAll, WaitedAgain,
       Returns, MainGoes, Begin, FinalizeAll, moduleVars, jobVars
  <2>2. s_n_modules + 1 .. s_n_modules = {}
    BY Facts DEF IInv
  <2>3. QED
    BY <1>1, <2>1, <2>2 DEF WaitedFor
<1>9. EndFits'
  <2>1. CASE UNCHANGED said
    BY <1>1, <1>4, <2>1 DEF IInv, EndFits
  <2>2. CASE WaitedAll \/ WaitedAgain
    <3>1. main' \in {"finalize", "stop"} /\ (main' = "stop" => said' = said)
      BY <2>2 DEF WaitedAll, WaitedAgain, FinalizeAll
    <3>2. ASSUME st = "OK"
          PROVE  \A m \in 1 .. s_n_modules : m_status[m] \in EndStates
      <4>1. job = "wait" /\ JobDone
        BY <2>2 DEF WaitedAll, WaitedAgain, IInv, JobFits, JobAt
      <4>2. left = 0
        BY <4>1, Facts DEF IInv, JobDone, HasNext, Forwards
      <4>3. QED
        BY <3>2, <4>1, <4>2 DEF IInv, WaitedFor
    <3>3. CASE UNCHANGED said
      BY <2>1, <3>3
    <3>4. CASE st = "OK" /\ main' = "finalize"
      BY <1>1, <3>2, <3>4 DEF EndFits
    <3>5. QED
      BY <1>6, <2>2, <3>1, <3>3, <3>4 DEF WaitedAll, WaitedAgain, FinalizeAll
  <2>3. QED
    BY <1>6, <2>1, <2>2
<1>10. QED
  BY <1>2, <1>3, <1>5, <1>7, <1>8, <1>9 DEF IInv

LEMMA NextEnd == IInv /\ [Next]_vars => IInv'
<1> SUFFICES ASSUME IInv, [Next]_vars PROVE IInv'
  OBVIOUS
<1>1. SystemTypeOK'
  BY NextIsTyped DEF IInv
<1>2. ASSUME UNCHANGED <<moduleVars, main, said>> PROVE IInv'
  BY <1>1, <1>2, OthersKeepEnd DEF moduleVars
<1>3. CASE UNCHANGED vars
  BY <1>2, <1>3 DEF vars, mainVars
<1>4. ASSUME NEW name \in Names, Ctor(name) PROVE IInv'
  BY <1>1, <1>4, CtorKeepsEnd
<1>5. CASE MainThread
  <2>1. CASE (\E s \in Signums : InstallHandler(s)) \/ Exits
    BY <1>2, <2>1 DEF InstallHandler, Exits, mainVars
  <2>2. CASE MainJob
    BY <1>1, <2>2, JobsKeepEnd
  <2>3. QED
    BY <1>1, <1>5, <2>1, <2>2, MainKeepsEnd DEF MainThread
<1>6. CASE TheSignalThread
  <2>1. UNCHANGED <<threadVars, flagVars, tableVars, jobVars, main, said>>
    BY <1>6
    DEF TheSignalThread, Handler, HandlerReads, HandlerAsks, HandlerNotes,
        HandlerWakes, moduleVars, mainVars
  <2>2. QED
    BY <1>1, <2>1, OthersKeepEnd
<1>7. CASE Threads
  BY <1>1, <1>7, ModuleThreadsKeepEnd DEF Threads
<1>8. CASE \/ \E s \in Signums : Send(s) /\ UNCHANGED <<moduleVars, mainVars>>
           \/ DefaultAction /\ UNCHANGED <<moduleVars, mainVars>>
           \/ \E s \in Signums, new \in Handlers \cup {"SIG_IGN", "SIG_DFL"} :
                Change(s, new)
  BY <1>2, <1>8 DEF Change, mainVars
<1>9. QED
  BY <1>3, <1>4, <1>5, <1>6, <1>7, <1>8 DEF Next

(* For any number of modules, and with procedures that fail, threads that  *)
(* do not end in time and signals at any moment: when the program prints   *)
(* "Finished cleanly" or "Stopped forcibly" (dummy-main.c:154) every       *)
(* module has ended, in the first case by itself; its status               *)
(* (module.c:351) tells which; and no module is destroyed while its thread *)
(* runs.                                                                   *)
THEOREM TheEndIsSo == Spec => []TheEndIsTold
<1>1. IInv => TheEndIsTold
  <2> SUFFICES ASSUME IInv PROVE TheEndIsTold
    OBVIOUS
  <2>1. \A m \in ModuleIds :
          /\ m_status[m] \in {"SHUTDOWN", "STOPPED"} =>
               mpc[m] = "off" /\ (m_status[m] = "STOPPED" <=> is_canceled[m])
          /\ m_freed[m] => mpc[m] = "off"
    BY DEF IInv, StatusFits, FreedAtTheEnd, EndStates
  <2>2. said # "nothing" =>
          \A m \in 1 .. s_n_modules : m_status[m] \in {"SHUTDOWN", "STOPPED"}
    BY DEF IInv, EndFits, EndStates
  <2>3. said = "Finished cleanly" => \A m \in ModuleIds : ~is_canceled[m]
    BY DEF IInv, OnlyStopCancels
  <2>4. QED
    BY <2>1, <2>2, <2>3 DEF TheEndIsTold
<1>2. QED
  BY <1>1, InitEnd, NextEnd, PTL DEF Spec
=============================================================================
