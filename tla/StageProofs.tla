----------------------------- MODULE StageProofs ----------------------------
(***************************************************************************)
(* What holds of a stage with any number of workers and callers, whatever  *)
(* they call, and on a clock that may be set too.                          *)
(***************************************************************************)
EXTENDS Stage, TLAPS, FiniteSetTheorems

USE DEF STARTING, STARTED, REQUEST_SHUTDOWN

Quiet == \A w \in Workers : wpc[w] \notin {"gala", "loop", "ops", "barrier"}

(* A call is under way only with m_lock.                                   *)
CallsHoldTheLock ==
    \A c \in Callers : IF cpc[c] = "idle" THEN ci[c] = 1 ELSE m_lock = c

(* Before a stage is started nobody pauses it, and only a start that is     *)
(* under way has workers.                                                  *)
Unpaused == m_status \in {"INITIALIZED", "SETUP"} => ~m_pause_requested

OnlyStarting ==
    m_status \in {"INITIALIZED", "SETUP"} =>
        \A w \in Workers : wpc[w] # "off" =>
            \E c \in Callers : cpc[c] = "undoing" \/ (cpc[c] = "starting" /\ w < ci[c])

StartsFresh == \A c \in Callers : cpc[c] \in {"starting",
     "undoing"} => m_status \in {"INITIALIZED", "SETUP"}

(* From the moment the barrier opens until somebody resumes, the request    *)
(* stands and all workers are behind the barrier.                          *)
PauseHolds ==
    /\ is_master # NoOne => wpc[is_master] = "open" /\ Quiet /\ m_pause_requested
    /\ m_status = "PAUSED" => is_master = NoOne /\ Quiet /\ m_pause_requested
    /\ \A w \in Workers : wpc[w] = "barrier" => m_pause_requested

(* Only a worker that is about to run its finalizer holds a lock.           *)
LocksAreReturned ==
    /\ \A w \in Workers : s_lck = w => wpc[w] = "end" /\ is_canceled[w] /\ ~m_is_started[w]
    /\ \A w \in Workers : m_pause_lock = w => wpc[w] = "end" /\ is_canceled[w]
    /\ \A w \in Workers : m_is_started[w] => gs >= STARTED

GoneIsOff == m_status = "GONE" => AllOff

Fresh == Unpaused /\ OnlyStarting /\ StartsFresh

StageInv == StageTypeOK /\ CallsHoldTheLock /\ Fresh /\ PauseHolds /\ LocksAreReturned /\ GoneIsOff

LEMMA StageInitInv == Init => StageInv
<1> SUFFICES ASSUME Init PROVE StageInv
  OBVIOUS
<1>1. FlagTypes
  BY DEF Init, FlagTypes, States, Levels
<1>2. WorkerTypes
  BY DEF Init, WorkerTypes, WorkerPlaces
<1>3. CallerTypes
  BY StageAssumption DEF Init, CallerTypes, CallerPlaces, AllOps, Results
<1>4. CallsHoldTheLock /\ Fresh
  BY DEF Init, CallsHoldTheLock, Fresh, Unpaused, OnlyStarting, StartsFresh
<1>5. PauseHolds
  BY DEF Init, PauseHolds
<1>6. LocksAreReturned /\ GoneIsOff
  BY StageAssumption DEF Init, LocksAreReturned, GoneIsOff
<1>7. QED
  BY <1>1, <1>2, <1>3, <1>4, <1>5, <1>6 DEF StageInv, StageTypeOK
-----------------------------------------------------------------------------
(***************************************************************************)
(* How the calls begin and end.                                            *)
(***************************************************************************)

(* A call begins only while no other is under way. *)
LEMMA ReadyAlone ==
  ASSUME StageInv, NEW c \in Callers, NEW o, Ready(c, o)
  PROVE  m_lock = NoOne /\ \A d \in Callers : cpc[d] = "idle" /\ ci[d] = 1
  BY StageAssumption DEF StageInv, CallsHoldTheLock, Ready

(* A call that is under way is the only one. *)
LEMMA BusyAlone ==
  ASSUME StageInv, NEW c \in Callers, cpc[c] # "idle"
  PROVE  m_lock = c /\ \A d \in Callers : d # c => cpc[d] = "idle" /\ ci[d] = 1
  BY StageAssumption DEF StageInv, CallsHoldTheLock

(* When a call returns, none is under way. *)
LEMMA Returned ==
  ASSUME StageInv, NEW c \in Callers, NEW r \in Results, Return(c, r), m_lock \in {NoOne, c}
  PROVE  CallerTypes' /\ m_lock' = NoOne /\ \A d \in Callers : cpc'[d] = "idle" /\ ci'[d] = 1
<1>1. \A d \in Callers : d # c => cpc[d] = "idle" /\ ci[d] = 1
  BY StageAssumption DEF StageInv, CallsHoldTheLock
<1>2. "setup" \in AllOps /\ "idle" \in CallerPlaces /\ 1 \in 1..(NWorkers + 1)
  BY StageAssumption DEF AllOps, CallerPlaces
<1>3. QED
  BY <1>1, <1>2 DEF StageInv, StageTypeOK, CallerTypes, Return

(* When a call goes on, it alone is under way. *)
LEMMA Proceeded ==
  ASSUME StageInv, NEW c \in Callers, NEW o \in AllOps, NEW p \in CallerPlaces, Proceed(c,
       o, p), m_lock = NoOne
  PROVE  CallerTypes' /\ m_lock' = c /\ cpc'[c] = p
         /\ \A d \in Callers : (d # c => cpc'[d] = "idle") /\ ci'[d] = 1
<1>1. \A d \in Callers : cpc[d] = "idle" /\ ci[d] = 1
  BY StageAssumption DEF StageInv, CallsHoldTheLock
<1>2. QED
  BY <1>1 DEF StageInv, StageTypeOK, CallerTypes, Proceed

(* Before a call of a stage that was not started, no worker runs. *)
LEMMA NoneRuns ==
  ASSUME StageInv, NEW c \in Callers, NEW o, Ready(c, o), m_status \in {"INITIALIZED",
       "SETUP"}
  PROVE  \A w \in Workers : wpc[w] = "off"
  BY ReadyAlone DEF StageInv, Fresh, OnlyStarting

(* After a call that ended, or that goes on but is no start, what remains of *)
(* the invariant is about the flags and the workers.                        *)
CallersQuiet ==
    /\ CallerTypes
    /\ \A d \in Callers : cpc[d] \notin {"starting", "undoing"}
    /\ CallsHoldTheLock

LEMMA QuietReturn ==
  ASSUME StageInv, NEW c \in Callers, NEW r \in Results, Return(c, r), m_lock \in {NoOne, c}
  PROVE  CallersQuiet'
  BY Returned DEF CallersQuiet, CallsHoldTheLock

LEMMA QuietProceed ==
  ASSUME StageInv, NEW c \in Callers, NEW o \in AllOps,
       NEW p \in CallerPlaces \ {"starting", "undoing", "idle"},
         Proceed(c, o, p), m_lock = NoOne
  PROVE  CallersQuiet'
  BY Proceeded DEF CallersQuiet, CallsHoldTheLock
-----------------------------------------------------------------------------
(***************************************************************************)
(* Every step keeps the invariant: first what the workers do, then the     *)
(* calls.                                                                  *)
(***************************************************************************)

LEMMA GalaInv ==
  ASSUME StageInv, NEW w \in Workers, Gala(w)
  PROVE  StageInv'
<1>1. CallerTypes' /\ CallsHoldTheLock'
  BY DEF StageInv, StageTypeOK, Gala, vars, flags, counters, locks, workerVars, callerVars,
       CallerTypes, CallsHoldTheLock
<1>2. StartsFresh'
  BY StageAssumption DEF StageInv, StageTypeOK, WorkerTypes, Fresh, StartsFresh, Gala,
       vars, flags, counters, locks, workerVars, callerVars, PauseHolds, Unpaused
<1>3. FlagTypes'
  BY StageAssumption DEF StageInv, StageTypeOK, Fresh, Workers, Gala, GoTo, vars, flags,
       counters, locks, workerVars, callerVars, FlagTypes, WorkerTypes, CallerTypes, States
<1>4. WorkerTypes'
  BY StageAssumption, ZenonT(60) DEF StageInv, StageTypeOK, Fresh, Workers, Gala, GoTo, vars, flags,
       counters, locks, workerVars, callerVars, WorkerTypes, WorkerPlaces
<1>5. Unpaused'
  BY StageAssumption DEF StageInv, StageTypeOK, Fresh, Workers, Gala, GoTo, vars, flags,
       counters, locks, workerVars, callerVars, Unpaused, PauseHolds
<1>6. OnlyStarting'
  BY StageAssumption DEF StageInv, StageTypeOK, Fresh, Workers, Gala, GoTo, vars, flags,
       counters, locks, workerVars, callerVars, OnlyStarting, WorkerTypes, PauseHolds,
       Unpaused
<1>7. PauseHolds'
  BY StageAssumption DEF StageInv, StageTypeOK, Fresh, Workers, Gala, GoTo, vars, flags,
       counters, locks, workerVars, callerVars, PauseHolds, Quiet, WorkerTypes, Unpaused
<1>8. LocksAreReturned'
  BY StageAssumption DEF StageInv, StageTypeOK, Fresh, Workers, Gala, GoTo, vars, flags,
       counters, locks, workerVars, callerVars, LocksAreReturned, WorkerTypes, FlagTypes
<1>9. GoneIsOff'
  BY StageAssumption DEF StageInv, StageTypeOK, Fresh, Workers, Gala, GoTo, vars, flags,
       counters, locks, workerVars, callerVars, GoneIsOff, AllOff
<1>10. QED
  BY <1>1, <1>2, <1>3, <1>4, <1>5, <1>6, <1>7, <1>8, <1>9 DEF StageInv, StageTypeOK, Fresh

LEMMA LoopInv ==
  ASSUME StageInv, NEW w \in Workers, Loop(w)
  PROVE  StageInv'
<1>1. CallerTypes' /\ CallsHoldTheLock'
  BY DEF StageInv, StageTypeOK, Loop, vars, flags, counters, locks, workerVars, callerVars,
       CallerTypes, CallsHoldTheLock
<1>2. StartsFresh'
  BY StageAssumption DEF StageInv, StageTypeOK, WorkerTypes, Fresh, StartsFresh, Loop,
       vars, flags, counters, locks, workerVars, callerVars, PauseHolds, Unpaused
<1>3. FlagTypes'
  BY StageAssumption DEF StageInv, StageTypeOK, Fresh, Workers, Loop, GoTo, vars, flags,
       counters, locks, workerVars, callerVars, FlagTypes, WorkerTypes, CallerTypes,
       States, GoesOn
<1>4. WorkerTypes'
  BY StageAssumption DEF StageInv, StageTypeOK, Fresh, Workers, Loop, GoTo, vars, flags,
       counters, locks, workerVars, callerVars, WorkerTypes, WorkerPlaces, GoesOn
<1>5. Unpaused'
  BY StageAssumption DEF StageInv, StageTypeOK, Fresh, Workers, Loop, GoTo, vars, flags,
       counters, locks, workerVars, callerVars, Unpaused, PauseHolds, GoesOn
<1>6. OnlyStarting'
  BY StageAssumption DEF StageInv, StageTypeOK, Fresh, Workers, Loop, GoTo, vars, flags,
       counters, locks, workerVars, callerVars, OnlyStarting, WorkerTypes, PauseHolds,
       Unpaused, GoesOn
<1>7. PauseHolds'
  BY StageAssumption DEF StageInv, StageTypeOK, Fresh, Workers, Loop, GoTo, vars, flags,
       counters, locks, workerVars, callerVars, PauseHolds, Quiet, WorkerTypes, Unpaused,
       GoesOn
<1>8. LocksAreReturned'
  BY StageAssumption DEF StageInv, StageTypeOK, Fresh, Workers, Loop, GoTo, vars, flags,
       counters, locks, workerVars, callerVars, LocksAreReturned, WorkerTypes, FlagTypes,
       GoesOn
<1>9. GoneIsOff'
  BY StageAssumption DEF StageInv, StageTypeOK, Fresh, Workers, Loop, GoTo, vars, flags,
       counters, locks, workerVars, callerVars, GoneIsOff, AllOff, GoesOn
<1>10. QED
  BY <1>1, <1>2, <1>3, <1>4, <1>5, <1>6, <1>7, <1>8, <1>9 DEF StageInv, StageTypeOK, Fresh

LEMMA BarrierOpensInv ==
  ASSUME StageInv, NEW w \in Workers, BarrierOpens(w)
  PROVE  StageInv'
<1>1. CallerTypes' /\ CallsHoldTheLock'
  BY DEF StageInv, StageTypeOK, BarrierOpens, vars, flags, counters, locks, workerVars,
       callerVars, CallerTypes, CallsHoldTheLock
<1>2. StartsFresh'
  BY StageAssumption DEF StageInv, StageTypeOK, WorkerTypes, Fresh, StartsFresh,
       BarrierOpens, vars, flags, counters, locks, workerVars, callerVars, PauseHolds,
       Unpaused
<1>3. FlagTypes'
  BY StageAssumption DEF StageInv, StageTypeOK, Fresh, Workers, BarrierOpens, GoTo, vars,
       flags, counters, locks, workerVars, callerVars, FlagTypes, WorkerTypes, CallerTypes,
       States, AtBarrier
<1>4. WorkerTypes'
  BY StageAssumption DEF StageInv, StageTypeOK, Fresh, Workers, BarrierOpens, GoTo, vars,
       flags, counters, locks, workerVars, callerVars, WorkerTypes, WorkerPlaces, AtBarrier
<1>5. Unpaused'
  BY StageAssumption DEF StageInv, StageTypeOK, Fresh, Workers, BarrierOpens, GoTo, vars,
       flags, counters, locks, workerVars, callerVars, Unpaused, PauseHolds, AtBarrier
<1>6. OnlyStarting'
  BY StageAssumption DEF StageInv, StageTypeOK, Fresh, Workers, BarrierOpens, GoTo, vars,
       flags, counters, locks, workerVars, callerVars, OnlyStarting, WorkerTypes,
       PauseHolds, Unpaused, AtBarrier
<1>7. PauseHolds'
  BY StageAssumption DEF StageInv, StageTypeOK, Fresh, Workers, BarrierOpens, GoTo, vars,
       flags, counters, locks, workerVars, callerVars, PauseHolds, Quiet, WorkerTypes,
       Unpaused, AtBarrier
<1>8. LocksAreReturned'
  BY StageAssumption DEF StageInv, StageTypeOK, Fresh, Workers, BarrierOpens, GoTo, vars,
       flags, counters, locks, workerVars, callerVars, LocksAreReturned, WorkerTypes,
       FlagTypes, AtBarrier
<1>9. GoneIsOff'
  BY StageAssumption DEF StageInv, StageTypeOK, Fresh, Workers, BarrierOpens, GoTo, vars,
       flags, counters, locks, workerVars, callerVars, GoneIsOff, AllOff, AtBarrier
<1>10. QED
  BY <1>1, <1>2, <1>3, <1>4, <1>5, <1>6, <1>7, <1>8, <1>9 DEF StageInv, StageTypeOK, Fresh

LEMMA PausedInv ==
  ASSUME StageInv, NEW w \in Workers, Paused(w)
  PROVE  StageInv'
<1>1. CallerTypes' /\ CallsHoldTheLock'
  BY DEF StageInv, StageTypeOK, Paused, vars, flags, counters, locks, workerVars,
       callerVars, CallerTypes, CallsHoldTheLock
<1>2. StartsFresh'
  BY StageAssumption DEF StageInv, StageTypeOK, WorkerTypes, Fresh, StartsFresh, Paused,
       vars, flags, counters, locks, workerVars, callerVars, PauseHolds, Unpaused
<1>3. FlagTypes'
  BY StageAssumption DEF StageInv, StageTypeOK, Fresh, Workers, Paused, GoTo, vars, flags,
       counters, locks, workerVars, callerVars, FlagTypes, WorkerTypes, CallerTypes,
       States, SleepOrGo
<1>4. WorkerTypes'
  BY StageAssumption DEF StageInv, StageTypeOK, Fresh, Workers, Paused, GoTo, vars, flags,
       counters, locks, workerVars, callerVars, WorkerTypes, WorkerPlaces, SleepOrGo
<1>5. Unpaused'
  BY StageAssumption DEF StageInv, StageTypeOK, Fresh, Workers, Paused, GoTo, vars, flags,
       counters, locks, workerVars, callerVars, Unpaused, PauseHolds, SleepOrGo
<1>6. OnlyStarting'
  BY StageAssumption DEF StageInv, StageTypeOK, Fresh, Workers, Paused, GoTo, vars, flags,
       counters, locks, workerVars, callerVars, OnlyStarting, WorkerTypes, PauseHolds,
       Unpaused, SleepOrGo
<1>7. PauseHolds'
  BY StageAssumption DEF StageInv, StageTypeOK, Fresh, Workers, Paused, GoTo, vars, flags,
       counters, locks, workerVars, callerVars, PauseHolds, Quiet, WorkerTypes, Unpaused,
       SleepOrGo
<1>8. LocksAreReturned'
  BY StageAssumption DEF StageInv, StageTypeOK, Fresh, Workers, Paused, GoTo, vars, flags,
       counters, locks, workerVars, callerVars, LocksAreReturned, WorkerTypes, FlagTypes,
       SleepOrGo
<1>9. GoneIsOff'
  BY StageAssumption DEF StageInv, StageTypeOK, Fresh, Workers, Paused, GoTo, vars, flags,
       counters, locks, workerVars, callerVars, GoneIsOff, AllOff, SleepOrGo
<1>10. QED
  BY <1>1, <1>2, <1>3, <1>4, <1>5, <1>6, <1>7, <1>8, <1>9 DEF StageInv, StageTypeOK, Fresh

LEMMA RecheckInv ==
  ASSUME StageInv, NEW w \in Workers, Recheck(w)
  PROVE  StageInv'
<1>1. CallerTypes' /\ CallsHoldTheLock'
  BY DEF StageInv, StageTypeOK, Recheck, vars, flags, counters, locks, workerVars,
       callerVars, CallerTypes, CallsHoldTheLock
<1>2. StartsFresh'
  BY StageAssumption DEF StageInv, StageTypeOK, WorkerTypes, Fresh, StartsFresh, Recheck,
       vars, flags, counters, locks, workerVars, callerVars, PauseHolds, Unpaused
<1>3. FlagTypes'
  BY StageAssumption DEF StageInv, StageTypeOK, Fresh, Workers, Recheck, GoTo, vars, flags,
       counters, locks, workerVars, callerVars, FlagTypes, WorkerTypes, CallerTypes,
       States, SleepOrGo
<1>4. WorkerTypes'
  BY StageAssumption DEF StageInv, StageTypeOK, Fresh, Workers, Recheck, GoTo, vars, flags,
       counters, locks, workerVars, callerVars, WorkerTypes, WorkerPlaces, SleepOrGo
<1>5. Unpaused'
  BY StageAssumption DEF StageInv, StageTypeOK, Fresh, Workers, Recheck, GoTo, vars, flags,
       counters, locks, workerVars, callerVars, Unpaused, PauseHolds, SleepOrGo
<1>6. OnlyStarting'
  BY StageAssumption DEF StageInv, StageTypeOK, Fresh, Workers, Recheck, GoTo, vars, flags,
       counters, locks, workerVars, callerVars, OnlyStarting, WorkerTypes, PauseHolds,
       Unpaused, SleepOrGo
<1>7. PauseHolds'
  BY StageAssumption DEF StageInv, StageTypeOK, Fresh, Workers, Recheck, GoTo, vars, flags,
       counters, locks, workerVars, callerVars, PauseHolds, Quiet, WorkerTypes, Unpaused,
       SleepOrGo
<1>8. LocksAreReturned'
  BY StageAssumption DEF StageInv, StageTypeOK, Fresh, Workers, Recheck, GoTo, vars, flags,
       counters, locks, workerVars, callerVars, LocksAreReturned, WorkerTypes, FlagTypes,
       SleepOrGo
<1>9. GoneIsOff'
  BY StageAssumption DEF StageInv, StageTypeOK, Fresh, Workers, Recheck, GoTo, vars, flags,
       counters, locks, workerVars, callerVars, GoneIsOff, AllOff, SleepOrGo
<1>10. QED
  BY <1>1, <1>2, <1>3, <1>4, <1>5, <1>6, <1>7, <1>8, <1>9 DEF StageInv, StageTypeOK, Fresh

LEMMA ActOnCancelInv ==
  ASSUME StageInv, NEW w \in Workers, ActOnCancel(w)
  PROVE  StageInv'
<1>1. CallerTypes' /\ CallsHoldTheLock'
  BY DEF StageInv, StageTypeOK, ActOnCancel, vars, flags, counters, locks, workerVars,
       callerVars, CallerTypes, CallsHoldTheLock
<1>2. StartsFresh'
  BY StageAssumption DEF StageInv, StageTypeOK, WorkerTypes, Fresh, StartsFresh,
       ActOnCancel, vars, flags, counters, locks, workerVars, callerVars, PauseHolds,
       Unpaused
<1>3. FlagTypes'
  BY StageAssumption DEF StageInv, StageTypeOK, Fresh, Workers, ActOnCancel, GoTo, vars,
       flags, counters, locks, workerVars, callerVars, FlagTypes, WorkerTypes, CallerTypes,
       States
<1>4. WorkerTypes'
  BY StageAssumption DEF StageInv, StageTypeOK, Fresh, Workers, ActOnCancel, GoTo, vars,
       flags, counters, locks, workerVars, callerVars, WorkerTypes, WorkerPlaces
<1>5. Unpaused'
  BY StageAssumption DEF StageInv, StageTypeOK, Fresh, Workers, ActOnCancel, GoTo, vars,
       flags, counters, locks, workerVars, callerVars, Unpaused, PauseHolds
<1>6. OnlyStarting'
  BY StageAssumption DEF StageInv, StageTypeOK, Fresh, Workers, ActOnCancel, GoTo, vars,
       flags, counters, locks, workerVars, callerVars, OnlyStarting, WorkerTypes,
       PauseHolds, Unpaused
<1>7. PauseHolds'
  BY StageAssumption DEF StageInv, StageTypeOK, Fresh, Workers, ActOnCancel, GoTo, vars,
       flags, counters, locks, workerVars, callerVars, PauseHolds, Quiet, WorkerTypes,
       Unpaused
<1>8. LocksAreReturned'
  BY StageAssumption DEF StageInv, StageTypeOK, Fresh, Workers, ActOnCancel, GoTo, vars,
       flags, counters, locks, workerVars, callerVars, LocksAreReturned, WorkerTypes,
       FlagTypes
<1>9. GoneIsOff'
  BY StageAssumption DEF StageInv, StageTypeOK, Fresh, Workers, ActOnCancel, GoTo, vars,
       flags, counters, locks, workerVars, callerVars, GoneIsOff, AllOff
<1>10. QED
  BY <1>1, <1>2, <1>3, <1>4, <1>5, <1>6, <1>7, <1>8, <1>9 DEF StageInv, StageTypeOK, Fresh

LEMMA FinalizeInv ==
  ASSUME StageInv, NEW w \in Workers, Finalize(w)
  PROVE  StageInv'
<1>1. CallerTypes' /\ CallsHoldTheLock'
  BY DEF StageInv, StageTypeOK, Finalize, vars, flags, counters, locks, workerVars,
       callerVars, CallerTypes, CallsHoldTheLock
<1>2. StartsFresh'
  BY StageAssumption DEF StageInv, StageTypeOK, WorkerTypes, Fresh, StartsFresh, Finalize,
       vars, flags, counters, locks, workerVars, callerVars, PauseHolds, Unpaused
<1>3. FlagTypes'
  BY StageAssumption DEF StageInv, StageTypeOK, Fresh, Workers, Finalize, GoTo, vars,
       flags, counters, locks, workerVars, callerVars, FlagTypes, WorkerTypes, CallerTypes,
       States, Janitor, PauseUnlock, CountShutdown, CountCanceled
<1>4. WorkerTypes'
  BY StageAssumption DEF StageInv, StageTypeOK, Fresh, Workers, Finalize, GoTo, vars,
       flags, counters, locks, workerVars, callerVars, WorkerTypes, WorkerPlaces, Janitor,
       PauseUnlock, CountShutdown, CountCanceled
<1>5. Unpaused'
  BY StageAssumption DEF StageInv, StageTypeOK, Fresh, Workers, Finalize, GoTo, vars,
       flags, counters, locks, workerVars, callerVars, Unpaused, PauseHolds, Janitor,
       PauseUnlock, CountShutdown, CountCanceled
<1>6. OnlyStarting'
  BY StageAssumption DEF StageInv, StageTypeOK, Fresh, Workers, Finalize, GoTo, vars,
       flags, counters, locks, workerVars, callerVars, OnlyStarting, WorkerTypes,
       PauseHolds, Unpaused, Janitor, PauseUnlock, CountShutdown, CountCanceled
<1>7. PauseHolds'
  BY StageAssumption DEF StageInv, StageTypeOK, Fresh, Workers, Finalize, GoTo, vars,
       flags, counters, locks, workerVars, callerVars, PauseHolds, Quiet, WorkerTypes,
       Unpaused, Janitor, PauseUnlock, CountShutdown, CountCanceled
<1>8. LocksAreReturned'
  BY StageAssumption DEF StageInv, StageTypeOK, Fresh, Workers, Finalize, GoTo, vars,
       flags, counters, locks, workerVars, callerVars, LocksAreReturned, WorkerTypes,
       FlagTypes, Janitor, PauseUnlock, CountShutdown, CountCanceled
<1>9. GoneIsOff'
  BY StageAssumption DEF StageInv, StageTypeOK, Fresh, Workers, Finalize, GoTo, vars,
       flags, counters, locks, workerVars, callerVars, GoneIsOff, AllOff, Janitor,
       PauseUnlock, CountShutdown, CountCanceled
<1>10. QED
  BY <1>1, <1>2, <1>3, <1>4, <1>5, <1>6, <1>7, <1>8, <1>9 DEF StageInv, StageTypeOK, Fresh

LEMMA BatchInv ==
  ASSUME StageInv, NEW w \in Workers, NEW r \in {-1, 0, 1}, Batch(w, r)
  PROVE  StageInv'
<1>1. CallerTypes' /\ CallsHoldTheLock'
  BY DEF StageInv, StageTypeOK, Batch, vars, flags, counters, locks, workerVars,
       callerVars, CallerTypes, CallsHoldTheLock
<1>2. StartsFresh'
  BY StageAssumption DEF StageInv, StageTypeOK, WorkerTypes, Fresh, StartsFresh, Batch,
       vars, flags, counters, locks, workerVars, callerVars, PauseHolds, Unpaused
<1>3. FlagTypes'
  BY StageAssumption DEF StageInv, StageTypeOK, Fresh, Workers, Batch, GoTo, vars, flags,
       counters, locks, workerVars, callerVars, FlagTypes, WorkerTypes, CallerTypes, States
<1>4. WorkerTypes'
  BY StageAssumption DEF StageInv, StageTypeOK, Fresh, Workers, Batch, GoTo, vars, flags,
       counters, locks, workerVars, callerVars, WorkerTypes, WorkerPlaces
<1>5. Unpaused'
  BY StageAssumption DEF StageInv, StageTypeOK, Fresh, Workers, Batch, GoTo, vars, flags,
       counters, locks, workerVars, callerVars, Unpaused, PauseHolds
<1>6. OnlyStarting'
  BY StageAssumption DEF StageInv, StageTypeOK, Fresh, Workers, Batch, GoTo, vars, flags,
       counters, locks, workerVars, callerVars, OnlyStarting, WorkerTypes, PauseHolds,
       Unpaused
<1>7. PauseHolds'
  BY StageAssumption DEF StageInv, StageTypeOK, Fresh, Workers, Batch, GoTo, vars, flags,
       counters, locks, workerVars, callerVars, PauseHolds, Quiet, WorkerTypes, Unpaused
<1>8. LocksAreReturned'
  BY StageAssumption DEF StageInv, StageTypeOK, Fresh, Workers, Batch, GoTo, vars, flags,
       counters, locks, workerVars, callerVars, LocksAreReturned, WorkerTypes, FlagTypes
<1>9. GoneIsOff'
  BY StageAssumption DEF StageInv, StageTypeOK, Fresh, Workers, Batch, GoTo, vars, flags,
       counters, locks, workerVars, callerVars, GoneIsOff, AllOff
<1>10. QED
  BY <1>1, <1>2, <1>3, <1>4, <1>5, <1>6, <1>7, <1>8, <1>9 DEF StageInv, StageTypeOK, Fresh

LEMMA SetupInv ==
  ASSUME StageInv, NEW c \in Callers, Setup(c)
  PROVE  StageInv'
<1>1. m_lock \in {NoOne, c} /\ \A d \in Callers : d # c => cpc[d] = "idle" /\ ci[d] = 1
  BY ReadyAlone DEF Setup
<1>2. CallersQuiet'
  BY <1>1, QuietReturn DEF Setup, Results
<1>3. FlagTypes'
  BY <1>1, <1>2, StageAssumption DEF StageInv, StageTypeOK, Fresh, Workers, Setup, vars,
       flags, counters, locks, workerVars, callerVars, CallersQuiet, FlagTypes,
       WorkerTypes, CallerTypes, States
<1>4. WorkerTypes'
  BY <1>1, <1>2, StageAssumption DEF StageInv, StageTypeOK, Fresh, Workers, Setup, vars,
       flags, counters, locks, workerVars, callerVars, CallersQuiet, WorkerTypes,
       WorkerPlaces
<1>5. Unpaused'
  BY <1>1, <1>2, StageAssumption DEF StageInv, StageTypeOK, Fresh, Workers, Setup, vars,
       flags, counters, locks, workerVars, callerVars, CallersQuiet, Unpaused, PauseHolds
<1>6. OnlyStarting'
  <2>1. m_status' \in {"INITIALIZED", "SETUP"} => m_status \in {"INITIALIZED",
       "SETUP"} /\ wpc' = wpc
    BY DEF Setup, workerVars
  <2>2. m_status \in {"INITIALIZED", "SETUP"} => \A w \in Workers : wpc[w] = "off"
    BY NoneRuns DEF Setup
  <2>3. QED
    BY <2>1, <2>2 DEF OnlyStarting
<1>7. PauseHolds'
  BY <1>1, <1>2, StageAssumption DEF StageInv, StageTypeOK, Fresh, Workers, Setup, vars,
       flags, counters, locks, workerVars, callerVars, CallersQuiet, PauseHolds, Quiet,
       WorkerTypes, Unpaused
<1>8. LocksAreReturned'
  BY <1>1, <1>2, StageAssumption DEF StageInv, StageTypeOK, Fresh, Workers, Setup, vars,
       flags, counters, locks, workerVars, callerVars, CallersQuiet, LocksAreReturned,
       WorkerTypes, FlagTypes
<1>9. GoneIsOff'
  BY <1>1, <1>2, StageAssumption DEF StageInv, StageTypeOK, Fresh, Workers, Setup, vars,
       flags, counters, locks, workerVars, callerVars, CallersQuiet, GoneIsOff, AllOff
<1>10. QED
  BY <1>2, <1>3, <1>4, <1>5, <1>6, <1>7, <1>8, <1>9 DEF StageInv, StageTypeOK, Fresh,
       CallersQuiet, StartsFresh

LEMMA StartUndoneInv ==
  ASSUME StageInv, NEW c \in Callers, StartUndone(c)
  PROVE  StageInv'
<1>1. m_lock \in {NoOne, c} /\ \A d \in Callers : d # c => cpc[d] = "idle" /\ ci[d] = 1
  BY BusyAlone DEF StartUndone
<1>2. CallersQuiet'
  BY <1>1, QuietReturn DEF StartUndone, Results
<1>3. FlagTypes'
  BY <1>1, <1>2, StageAssumption DEF StageInv, StageTypeOK, Fresh, Workers, StartUndone,
       vars, flags, counters, locks, workerVars, callerVars, CallersQuiet, FlagTypes,
       WorkerTypes, CallerTypes, States, Reset, AllOff
<1>4. WorkerTypes'
  BY <1>1, <1>2, StageAssumption DEF StageInv, StageTypeOK, Fresh, Workers, StartUndone,
       vars, flags, counters, locks, workerVars, callerVars, CallersQuiet, WorkerTypes,
       WorkerPlaces, Reset, AllOff
<1>5. Unpaused'
  BY <1>1, <1>2, StageAssumption DEF StageInv, StageTypeOK, Fresh, Workers, StartUndone,
       vars, flags, counters, locks, workerVars, callerVars, CallersQuiet, Unpaused,
       PauseHolds, Reset, AllOff
<1>6. OnlyStarting'
  BY <1>1, <1>2, StageAssumption DEF StageInv, StageTypeOK, Fresh, Workers, StartUndone,
       vars, flags, counters, locks, workerVars, callerVars, CallersQuiet, OnlyStarting,
       WorkerTypes, PauseHolds, Unpaused, Reset, AllOff
<1>7. PauseHolds'
  BY <1>1, <1>2, StageAssumption DEF StageInv, StageTypeOK, Fresh, Workers, StartUndone,
       vars, flags, counters, locks, workerVars, callerVars, CallersQuiet, PauseHolds,
       Quiet, WorkerTypes, Unpaused, Reset, AllOff
<1>8. LocksAreReturned'
  BY <1>1, <1>2, StageAssumption DEF StageInv, StageTypeOK, Fresh, Workers, StartUndone,
       vars, flags, counters, locks, workerVars, callerVars, CallersQuiet,
       LocksAreReturned, WorkerTypes, FlagTypes, Reset, AllOff
<1>9. GoneIsOff'
  BY <1>1, <1>2, StageAssumption DEF StageInv, StageTypeOK, Fresh, Workers, StartUndone,
       vars, flags, counters, locks, workerVars, callerVars, CallersQuiet, GoneIsOff,
       AllOff, Reset, AllOff
<1>10. QED
  BY <1>2, <1>3, <1>4, <1>5, <1>6, <1>7, <1>8, <1>9 DEF StageInv, StageTypeOK, Fresh,
       CallersQuiet, StartsFresh

LEMMA StartDoneInv ==
  ASSUME StageInv, NEW c \in Callers, StartDone(c)
  PROVE  StageInv'
<1>1. m_lock \in {NoOne, c} /\ \A d \in Callers : d # c => cpc[d] = "idle" /\ ci[d] = 1
  BY BusyAlone DEF StartDone
<1>2. CallersQuiet'
  BY <1>1, QuietReturn DEF StartDone, Results
<1>3. FlagTypes'
  BY <1>1, <1>2, StageAssumption DEF StageInv, StageTypeOK, Fresh, Workers, StartDone,
       vars, flags, counters, locks, workerVars, callerVars, CallersQuiet, FlagTypes,
       WorkerTypes, CallerTypes, States
<1>4. WorkerTypes'
  BY <1>1, <1>2, StageAssumption DEF StageInv, StageTypeOK, Fresh, Workers, StartDone,
       vars, flags, counters, locks, workerVars, callerVars, CallersQuiet, WorkerTypes,
       WorkerPlaces
<1>5. Unpaused'
  BY <1>1, <1>2, StageAssumption DEF StageInv, StageTypeOK, Fresh, Workers, StartDone,
       vars, flags, counters, locks, workerVars, callerVars, CallersQuiet, Unpaused,
       PauseHolds
<1>6. OnlyStarting'
  BY <1>1, <1>2, StageAssumption DEF StageInv, StageTypeOK, Fresh, Workers, StartDone,
       vars, flags, counters, locks, workerVars, callerVars, CallersQuiet, OnlyStarting,
       WorkerTypes, PauseHolds, Unpaused
<1>7. PauseHolds'
  BY <1>1, <1>2, StageAssumption DEF StageInv, StageTypeOK, Fresh, Workers, StartDone,
       vars, flags, counters, locks, workerVars, callerVars, CallersQuiet, PauseHolds,
       Quiet, WorkerTypes, Unpaused
<1>8. LocksAreReturned'
  BY <1>1, <1>2, StageAssumption DEF StageInv, StageTypeOK, Fresh, Workers, StartDone,
       vars, flags, counters, locks, workerVars, callerVars, CallersQuiet,
       LocksAreReturned, WorkerTypes, FlagTypes
<1>9. GoneIsOff'
  BY <1>1, <1>2, StageAssumption DEF StageInv, StageTypeOK, Fresh, Workers, StartDone,
       vars, flags, counters, locks, workerVars, callerVars, CallersQuiet, GoneIsOff, AllOff
<1>10. QED
  BY <1>2, <1>3, <1>4, <1>5, <1>6, <1>7, <1>8, <1>9 DEF StageInv, StageTypeOK, Fresh,
       CallersQuiet, StartsFresh

LEMMA CancelInv ==
  ASSUME StageInv, NEW c \in Callers, Cancel(c)
  PROVE  StageInv'
<1>1. m_lock \in {NoOne, c} /\ \A d \in Callers : d # c => cpc[d] = "idle" /\ ci[d] = 1
  BY ReadyAlone DEF Cancel
<1>2. CallersQuiet'
  BY <1>1, QuietReturn DEF Cancel, Results
<1>3. FlagTypes'
  <2>1. UNCHANGED <<m_status, m_pause_requested, counters, m_pause_lock, s_lck, gs, fatal>>
    BY DEF Cancel
  <2>2. m_sg_lvl' \in Levels /\ m_do_loop' \in BOOLEAN
    BY DEF StageInv, StageTypeOK, FlagTypes, Cancel, CancelStage, Levels
  <2>3. QED
    BY <2>1, <2>2 DEF StageInv, StageTypeOK, FlagTypes, counters
<1>4. WorkerTypes'
  BY <1>1, <1>2, StageAssumption, ZenonT(60) DEF StageInv, StageTypeOK, Fresh, Workers, Cancel, vars,
       flags, counters, locks, workerVars, callerVars, CallersQuiet, WorkerTypes,
       WorkerPlaces, CancelStage, Levels
<1>5. Unpaused'
  BY <1>1, <1>2, StageAssumption DEF StageInv, StageTypeOK, Fresh, Workers, Cancel, vars,
       flags, counters, locks, workerVars, callerVars, CallersQuiet, Unpaused, PauseHolds,
       CancelStage, Levels
<1>6. OnlyStarting'
  <2>1. m_status' \in {"INITIALIZED", "SETUP"} => m_status \in {"INITIALIZED",
       "SETUP"} /\ wpc' = wpc
    BY DEF Cancel, workerVars, CancelStage, Levels
  <2>2. m_status \in {"INITIALIZED", "SETUP"} => \A w \in Workers : wpc[w] = "off"
    BY NoneRuns DEF Cancel
  <2>3. QED
    BY <2>1, <2>2 DEF OnlyStarting
<1>7. PauseHolds'
  BY <1>1, <1>2, StageAssumption DEF StageInv, StageTypeOK, Fresh, Workers, Cancel, vars,
       flags, counters, locks, workerVars, callerVars, CallersQuiet, PauseHolds, Quiet,
       WorkerTypes, Unpaused, CancelStage, Levels
<1>8. LocksAreReturned'
  BY <1>1, <1>2, StageAssumption DEF StageInv, StageTypeOK, Fresh, Workers, Cancel, vars,
       flags, counters, locks, workerVars, callerVars, CallersQuiet, LocksAreReturned,
       WorkerTypes, FlagTypes, CancelStage, Levels
<1>9. GoneIsOff'
  BY <1>1, <1>2, StageAssumption DEF StageInv, StageTypeOK, Fresh, Workers, Cancel, vars,
       flags, counters, locks, workerVars, callerVars, CallersQuiet, GoneIsOff, AllOff,
       CancelStage, Levels
<1>10. QED
  BY <1>2, <1>3, <1>4, <1>5, <1>6, <1>7, <1>8, <1>9 DEF StageInv, StageTypeOK, Fresh,
       CallersQuiet, StartsFresh

LEMMA WaitTimesOutInv ==
  ASSUME StageInv, NEW c \in Callers, WaitTimesOut(c)
  PROVE  StageInv'
<1>1. m_lock \in {NoOne, c} /\ \A d \in Callers : d # c => cpc[d] = "idle" /\ ci[d] = 1
  BY BusyAlone DEF WaitTimesOut
<1>2. CallersQuiet'
  BY <1>1, QuietReturn DEF WaitTimesOut, Results
<1>3. FlagTypes'
  BY <1>1, <1>2, StageAssumption DEF StageInv, StageTypeOK, Fresh, Workers, WaitTimesOut,
       vars, flags, counters, locks, workerVars, callerVars, CallersQuiet, FlagTypes,
       WorkerTypes, CallerTypes, States
<1>4. WorkerTypes'
  BY <1>1, <1>2, StageAssumption DEF StageInv, StageTypeOK, Fresh, Workers, WaitTimesOut,
       vars, flags, counters, locks, workerVars, callerVars, CallersQuiet, WorkerTypes,
       WorkerPlaces
<1>5. Unpaused'
  BY <1>1, <1>2, StageAssumption DEF StageInv, StageTypeOK, Fresh, Workers, WaitTimesOut,
       vars, flags, counters, locks, workerVars, callerVars, CallersQuiet, Unpaused,
       PauseHolds
<1>6. OnlyStarting'
  BY <1>1, <1>2, StageAssumption DEF StageInv, StageTypeOK, Fresh, Workers, WaitTimesOut,
       vars, flags, counters, locks, workerVars, callerVars, CallersQuiet, OnlyStarting,
       WorkerTypes, PauseHolds, Unpaused
<1>7. PauseHolds'
  BY <1>1, <1>2, StageAssumption DEF StageInv, StageTypeOK, Fresh, Workers, WaitTimesOut,
       vars, flags, counters, locks, workerVars, callerVars, CallersQuiet, PauseHolds,
       Quiet, WorkerTypes, Unpaused
<1>8. LocksAreReturned'
  BY <1>1, <1>2, StageAssumption DEF StageInv, StageTypeOK, Fresh, Workers, WaitTimesOut,
       vars, flags, counters, locks, workerVars, callerVars, CallersQuiet,
       LocksAreReturned, WorkerTypes, FlagTypes
<1>9. GoneIsOff'
  BY <1>1, <1>2, StageAssumption DEF StageInv, StageTypeOK, Fresh, Workers, WaitTimesOut,
       vars, flags, counters, locks, workerVars, callerVars, CallersQuiet, GoneIsOff, AllOff
<1>10. QED
  BY <1>2, <1>3, <1>4, <1>5, <1>6, <1>7, <1>8, <1>9 DEF StageInv, StageTypeOK, Fresh,
       CallersQuiet, StartsFresh

LEMMA PauseDoneInv ==
  ASSUME StageInv, NEW c \in Callers, PauseDone(c)
  PROVE  StageInv'
<1>1. m_lock \in {NoOne, c} /\ \A d \in Callers : d # c => cpc[d] = "idle" /\ ci[d] = 1
  BY BusyAlone DEF PauseDone
<1>2. CallersQuiet'
  BY <1>1, QuietReturn DEF PauseDone, Results
<1>3. FlagTypes'
  BY <1>1, <1>2, StageAssumption DEF StageInv, StageTypeOK, Fresh, Workers, PauseDone,
       vars, flags, counters, locks, workerVars, callerVars, CallersQuiet, FlagTypes,
       WorkerTypes, CallerTypes, States
<1>4. WorkerTypes'
  BY <1>1, <1>2, StageAssumption DEF StageInv, StageTypeOK, Fresh, Workers, PauseDone,
       vars, flags, counters, locks, workerVars, callerVars, CallersQuiet, WorkerTypes,
       WorkerPlaces
<1>5. Unpaused'
  BY <1>1, <1>2, StageAssumption DEF StageInv, StageTypeOK, Fresh, Workers, PauseDone,
       vars, flags, counters, locks, workerVars, callerVars, CallersQuiet, Unpaused,
       PauseHolds
<1>6. OnlyStarting'
  BY <1>1, <1>2, StageAssumption DEF StageInv, StageTypeOK, Fresh, Workers, PauseDone,
       vars, flags, counters, locks, workerVars, callerVars, CallersQuiet, OnlyStarting,
       WorkerTypes, PauseHolds, Unpaused
<1>7. PauseHolds'
  BY <1>1, <1>2, StageAssumption DEF StageInv, StageTypeOK, Fresh, Workers, PauseDone,
       vars, flags, counters, locks, workerVars, callerVars, CallersQuiet, PauseHolds,
       Quiet, WorkerTypes, Unpaused
<1>8. LocksAreReturned'
  BY <1>1, <1>2, StageAssumption DEF StageInv, StageTypeOK, Fresh, Workers, PauseDone,
       vars, flags, counters, locks, workerVars, callerVars, CallersQuiet,
       LocksAreReturned, WorkerTypes, FlagTypes
<1>9. GoneIsOff'
  BY <1>1, <1>2, StageAssumption DEF StageInv, StageTypeOK, Fresh, Workers, PauseDone,
       vars, flags, counters, locks, workerVars, callerVars, CallersQuiet, GoneIsOff, AllOff
<1>10. QED
  BY <1>2, <1>3, <1>4, <1>5, <1>6, <1>7, <1>8, <1>9 DEF StageInv, StageTypeOK, Fresh,
       CallersQuiet, StartsFresh

LEMMA PauseTimesOutInv ==
  ASSUME StageInv, NEW c \in Callers, PauseTimesOut(c)
  PROVE  StageInv'
<1>1. m_lock \in {NoOne, c} /\ \A d \in Callers : d # c => cpc[d] = "idle" /\ ci[d] = 1
  BY BusyAlone DEF PauseTimesOut
<1>2. CallersQuiet'
  BY <1>1, QuietReturn DEF PauseTimesOut, Results
<1>3. FlagTypes'
  BY <1>1, <1>2, StageAssumption DEF StageInv, StageTypeOK, Fresh, Workers, PauseTimesOut,
       vars, flags, counters, locks, workerVars, callerVars, CallersQuiet, FlagTypes,
       WorkerTypes, CallerTypes, States
<1>4. WorkerTypes'
  BY <1>1, <1>2, StageAssumption DEF StageInv, StageTypeOK, Fresh, Workers, PauseTimesOut,
       vars, flags, counters, locks, workerVars, callerVars, CallersQuiet, WorkerTypes,
       WorkerPlaces
<1>5. Unpaused'
  BY <1>1, <1>2, StageAssumption DEF StageInv, StageTypeOK, Fresh, Workers, PauseTimesOut,
       vars, flags, counters, locks, workerVars, callerVars, CallersQuiet, Unpaused,
       PauseHolds
<1>6. OnlyStarting'
  BY <1>1, <1>2, StageAssumption DEF StageInv, StageTypeOK, Fresh, Workers, PauseTimesOut,
       vars, flags, counters, locks, workerVars, callerVars, CallersQuiet, OnlyStarting,
       WorkerTypes, PauseHolds, Unpaused
<1>7. PauseHolds'
  BY <1>1, <1>2, StageAssumption DEF StageInv, StageTypeOK, Fresh, Workers, PauseTimesOut,
       vars, flags, counters, locks, workerVars, callerVars, CallersQuiet, PauseHolds,
       Quiet, WorkerTypes, Unpaused
<1>8. LocksAreReturned'
  BY <1>1, <1>2, StageAssumption DEF StageInv, StageTypeOK, Fresh, Workers, PauseTimesOut,
       vars, flags, counters, locks, workerVars, callerVars, CallersQuiet,
       LocksAreReturned, WorkerTypes, FlagTypes
<1>9. GoneIsOff'
  BY <1>1, <1>2, StageAssumption DEF StageInv, StageTypeOK, Fresh, Workers, PauseTimesOut,
       vars, flags, counters, locks, workerVars, callerVars, CallersQuiet, GoneIsOff, AllOff
<1>10. QED
  BY <1>2, <1>3, <1>4, <1>5, <1>6, <1>7, <1>8, <1>9 DEF StageInv, StageTypeOK, Fresh,
       CallersQuiet, StartsFresh

LEMMA CancelJanitorInv ==
  ASSUME StageInv, NEW c \in Callers, CancelJanitor(c)
  PROVE  StageInv'
<1>1. m_lock \in {NoOne, c} /\ \A d \in Callers : d # c => cpc[d] = "idle" /\ ci[d] = 1
  BY BusyAlone DEF CancelJanitor
<1>2. CallersQuiet'
  BY <1>1, QuietReturn DEF CancelJanitor, Results
<1>3. FlagTypes'
  BY <1>1, <1>2, StageAssumption DEF StageInv, StageTypeOK, Fresh, Workers, CancelJanitor,
       vars, flags, counters, locks, workerVars, callerVars, CallersQuiet, FlagTypes,
       WorkerTypes, CallerTypes, States
<1>4. WorkerTypes'
  BY <1>1, <1>2, StageAssumption DEF StageInv, StageTypeOK, Fresh, Workers, CancelJanitor,
       vars, flags, counters, locks, workerVars, callerVars, CallersQuiet, WorkerTypes,
       WorkerPlaces
<1>5. Unpaused'
  BY <1>1, <1>2, StageAssumption DEF StageInv, StageTypeOK, Fresh, Workers, CancelJanitor,
       vars, flags, counters, locks, workerVars, callerVars, CallersQuiet, Unpaused,
       PauseHolds
<1>6. OnlyStarting'
  BY <1>1, <1>2, StageAssumption DEF StageInv, StageTypeOK, Fresh, Workers, CancelJanitor,
       vars, flags, counters, locks, workerVars, callerVars, CallersQuiet, OnlyStarting,
       WorkerTypes, PauseHolds, Unpaused
<1>7. PauseHolds'
  BY <1>1, <1>2, StageAssumption DEF StageInv, StageTypeOK, Fresh, Workers, CancelJanitor,
       vars, flags, counters, locks, workerVars, callerVars, CallersQuiet, PauseHolds,
       Quiet, WorkerTypes, Unpaused
<1>8. LocksAreReturned'
  BY <1>1, <1>2, StageAssumption DEF StageInv, StageTypeOK, Fresh, Workers, CancelJanitor,
       vars, flags, counters, locks, workerVars, callerVars, CallersQuiet,
       LocksAreReturned, WorkerTypes, FlagTypes
<1>9. GoneIsOff'
  BY <1>1, <1>2, StageAssumption DEF StageInv, StageTypeOK, Fresh, Workers, CancelJanitor,
       vars, flags, counters, locks, workerVars, callerVars, CallersQuiet, GoneIsOff, AllOff
<1>10. QED
  BY <1>2, <1>3, <1>4, <1>5, <1>6, <1>7, <1>8, <1>9 DEF StageInv, StageTypeOK, Fresh,
       CallersQuiet, StartsFresh

LEMMA ResumeInv ==
  ASSUME StageInv, NEW c \in Callers, Resume(c)
  PROVE  StageInv'
<1>1. m_lock \in {NoOne, c} /\ \A d \in Callers : d # c => cpc[d] = "idle" /\ ci[d] = 1
  BY ReadyAlone DEF Resume
<1>2. CallersQuiet'
  BY <1>1, QuietReturn DEF Resume, Results
<1>3. FlagTypes'
  BY <1>1, <1>2, StageAssumption, ZenonT(60) DEF StageInv, StageTypeOK, Fresh, Workers, Resume, vars,
       flags, counters, locks, workerVars, callerVars, CallersQuiet, FlagTypes,
       WorkerTypes, CallerTypes, States, NotifyResume
<1>4. WorkerTypes'
  BY <1>1, <1>2, StageAssumption DEF StageInv, StageTypeOK, Fresh, Workers, Resume, vars,
       flags, counters, locks, workerVars, callerVars, CallersQuiet, WorkerTypes,
       WorkerPlaces, NotifyResume
<1>5. Unpaused'
  BY <1>1, <1>2, StageAssumption DEF StageInv, StageTypeOK, Fresh, Workers, Resume, vars,
       flags, counters, locks, workerVars, callerVars, CallersQuiet, Unpaused, PauseHolds,
       NotifyResume
<1>6. OnlyStarting'
  <2>1. m_status' \in {"INITIALIZED", "SETUP"} => m_status \in {"INITIALIZED",
       "SETUP"} /\ wpc' = wpc
    BY DEF Resume, workerVars, NotifyResume
  <2>2. m_status \in {"INITIALIZED", "SETUP"} => \A w \in Workers : wpc[w] = "off"
    BY NoneRuns DEF Resume
  <2>3. QED
    BY <2>1, <2>2 DEF OnlyStarting
<1>7. PauseHolds'
  BY <1>1, <1>2, StageAssumption DEF StageInv, StageTypeOK, Fresh, Workers, Resume, vars,
       flags, counters, locks, workerVars, callerVars, CallersQuiet, PauseHolds, Quiet,
       WorkerTypes, Unpaused, NotifyResume
<1>8. LocksAreReturned'
  BY <1>1, <1>2, StageAssumption DEF StageInv, StageTypeOK, Fresh, Workers, Resume, vars,
       flags, counters, locks, workerVars, callerVars, CallersQuiet, LocksAreReturned,
       WorkerTypes, FlagTypes, NotifyResume
<1>9. GoneIsOff'
  BY <1>1, <1>2, StageAssumption DEF StageInv, StageTypeOK, Fresh, Workers, Resume, vars,
       flags, counters, locks, workerVars, callerVars, CallersQuiet, GoneIsOff, AllOff,
       NotifyResume
<1>10. QED
  BY <1>2, <1>3, <1>4, <1>5, <1>6, <1>7, <1>8, <1>9 DEF StageInv, StageTypeOK, Fresh,
       CallersQuiet, StartsFresh

LEMMA DestroyedInv ==
  ASSUME StageInv, NEW c \in Callers, Destroyed(c)
  PROVE  StageInv'
<1>1. m_lock \in {NoOne, c} /\ \A d \in Callers : d # c => cpc[d] = "idle" /\ ci[d] = 1
  BY BusyAlone DEF Destroyed
<1>2. CallersQuiet'
  BY <1>1, QuietReturn DEF Destroyed, Results
<1>3. FlagTypes'
  BY <1>1, <1>2, StageAssumption DEF StageInv, StageTypeOK, Fresh, Workers, Destroyed,
       vars, flags, counters, locks, workerVars, callerVars, CallersQuiet, FlagTypes,
       WorkerTypes, CallerTypes, States, AllOff
<1>4. WorkerTypes'
  BY <1>1, <1>2, StageAssumption DEF StageInv, StageTypeOK, Fresh, Workers, Destroyed,
       vars, flags, counters, locks, workerVars, callerVars, CallersQuiet, WorkerTypes,
       WorkerPlaces, AllOff
<1>5. Unpaused'
  BY <1>1, <1>2, StageAssumption DEF StageInv, StageTypeOK, Fresh, Workers, Destroyed,
       vars, flags, counters, locks, workerVars, callerVars, CallersQuiet, Unpaused,
       PauseHolds, AllOff
<1>6. OnlyStarting'
  BY <1>1, <1>2, StageAssumption DEF StageInv, StageTypeOK, Fresh, Workers, Destroyed,
       vars, flags, counters, locks, workerVars, callerVars, CallersQuiet, OnlyStarting,
       WorkerTypes, PauseHolds, Unpaused, AllOff
<1>7. PauseHolds'
  BY <1>1, <1>2, StageAssumption DEF StageInv, StageTypeOK, Fresh, Workers, Destroyed,
       vars, flags, counters, locks, workerVars, callerVars, CallersQuiet, PauseHolds,
       Quiet, WorkerTypes, Unpaused, AllOff
<1>8. LocksAreReturned'
  BY <1>1, <1>2, StageAssumption DEF StageInv, StageTypeOK, Fresh, Workers, Destroyed,
       vars, flags, counters, locks, workerVars, callerVars, CallersQuiet,
       LocksAreReturned, WorkerTypes, FlagTypes, AllOff
<1>9. GoneIsOff'
  BY <1>1, <1>2, StageAssumption DEF StageInv, StageTypeOK, Fresh, Workers, Destroyed,
       vars, flags, counters, locks, workerVars, callerVars, CallersQuiet, GoneIsOff,
       AllOff, AllOff
<1>10. QED
  BY <1>2, <1>3, <1>4, <1>5, <1>6, <1>7, <1>8, <1>9 DEF StageInv, StageTypeOK, Fresh,
       CallersQuiet, StartsFresh

LEMMA ShutdownInv ==
  ASSUME StageInv, NEW c \in Callers, NEW o \in AllOps, NEW lvl \in {"RIGHT_NOW",
       "GRACEFULLY"}, Shutdown(c, o, lvl)
  PROVE  StageInv'
<1>1. m_lock \in {NoOne, c} /\ \A d \in Callers : d # c => cpc[d] = "idle" /\ ci[d] = 1
  BY ReadyAlone DEF Shutdown
<1>2. CallersQuiet'
  BY <1>1, QuietReturn DEF Shutdown, Results
<1>3. FlagTypes'
  <2>1. m_sg_lvl' \in Levels /\ m_do_loop' \in BOOLEAN
    BY DEF StageInv, StageTypeOK, FlagTypes, Shutdown, flags, CancelStage, Levels
  <2>2. m_status' \in States /\ m_pause_requested' \in BOOLEAN
    BY DEF StageInv, StageTypeOK, FlagTypes, Shutdown, flags, ResumeBeforeShutdown, States
  <2>3. QED
    BY <2>1, <2>2 DEF StageInv, StageTypeOK, FlagTypes, Shutdown, counters
<1>4. WorkerTypes'
  <2>1. UNCHANGED <<st, is_canceled, m_is_started, is_master>>
    BY DEF Shutdown
  <2>2. wpc' \in [Workers -> WorkerPlaces]
    BY DEF StageInv, StageTypeOK, WorkerTypes, Shutdown, ResumeBeforeShutdown, NotifyResume, WorkerPlaces
  <2>3. pending' \in [Workers -> BOOLEAN]
    BY DEF StageInv, StageTypeOK, WorkerTypes, Shutdown, CancelStage
  <2>4. QED
    BY <2>1, <2>2, <2>3 DEF StageInv, StageTypeOK, WorkerTypes
<1>5. Unpaused'
  BY <1>1, <1>2, StageAssumption DEF StageInv, StageTypeOK, Fresh, Workers, Shutdown, vars,
       flags, counters, locks, workerVars, callerVars, CallersQuiet, Unpaused, PauseHolds,
       ResumeBeforeShutdown, CancelStage, NotifyResume, Levels
<1>6. OnlyStarting'
  <2>1. m_status' \in {"INITIALIZED", "SETUP"} => m_status \in {"INITIALIZED",
       "SETUP"} /\ wpc' = wpc
    BY DEF Shutdown, workerVars, ResumeBeforeShutdown, CancelStage, NotifyResume, Levels
  <2>2. m_status \in {"INITIALIZED", "SETUP"} => \A w \in Workers : wpc[w] = "off"
    BY NoneRuns DEF Shutdown
  <2>3. QED
    BY <2>1, <2>2 DEF OnlyStarting
<1>7. PauseHolds'
  BY <1>1, <1>2, StageAssumption DEF StageInv, StageTypeOK, Fresh, Workers, Shutdown, vars,
       flags, counters, locks, workerVars, callerVars, CallersQuiet, PauseHolds, Quiet,
       WorkerTypes, Unpaused, ResumeBeforeShutdown, CancelStage, NotifyResume, Levels
<1>8. LocksAreReturned'
  BY <1>1, <1>2, StageAssumption DEF StageInv, StageTypeOK, Fresh, Workers, Shutdown, vars,
       flags, counters, locks, workerVars, callerVars, CallersQuiet, LocksAreReturned,
       WorkerTypes, FlagTypes, ResumeBeforeShutdown, CancelStage, NotifyResume, Levels
<1>9. GoneIsOff'
  BY <1>1, <1>2, StageAssumption DEF StageInv, StageTypeOK, Fresh, Workers, Shutdown, vars,
       flags, counters, locks, workerVars, callerVars, CallersQuiet, GoneIsOff, AllOff,
       ResumeBeforeShutdown, CancelStage, NotifyResume, Levels
<1>10. QED
  BY <1>2, <1>3, <1>4, <1>5, <1>6, <1>7, <1>8, <1>9 DEF StageInv, StageTypeOK, Fresh,
       CallersQuiet, StartsFresh

LEMMA WaitInv ==
  ASSUME StageInv, NEW c \in Callers, NEW o \in AllOps, Wait(c, o)
  PROVE  StageInv'
<1>1. m_lock \in {NoOne, c} /\ \A d \in Callers : d # c => cpc[d] = "idle" /\ ci[d] = 1
  BY ReadyAlone DEF Wait
<1>2. CallersQuiet'
  <2>1. CASE \E r \in Results : Return(c, r)
    BY <1>1, <2>1, QuietReturn
  <2>2. CASE Proceed(c, o, "waiting")
    BY ReadyAlone, <2>2, QuietProceed DEF Wait, CallerPlaces, AllOps
  <2>3. QED
    BY <2>1, <2>2 DEF Wait, Results
<1>3. FlagTypes'
  BY <1>1, <1>2, StageAssumption DEF StageInv, StageTypeOK, Fresh, Workers, Wait, vars,
       flags, counters, locks, workerVars, callerVars, CallersQuiet, FlagTypes,
       WorkerTypes, CallerTypes, States
<1>4. WorkerTypes'
  BY <1>1, <1>2, StageAssumption DEF StageInv, StageTypeOK, Fresh, Workers, Wait, vars,
       flags, counters, locks, workerVars, callerVars, CallersQuiet, WorkerTypes,
       WorkerPlaces
<1>5. Unpaused'
  BY <1>1, <1>2, StageAssumption DEF StageInv, StageTypeOK, Fresh, Workers, Wait, vars,
       flags, counters, locks, workerVars, callerVars, CallersQuiet, Unpaused, PauseHolds
<1>6. OnlyStarting'
  <2>1. m_status' \in {"INITIALIZED", "SETUP"} => m_status \in {"INITIALIZED",
       "SETUP"} /\ wpc' = wpc
    BY DEF Wait, workerVars
  <2>2. m_status \in {"INITIALIZED", "SETUP"} => \A w \in Workers : wpc[w] = "off"
    BY NoneRuns DEF Wait
  <2>3. QED
    BY <2>1, <2>2 DEF OnlyStarting
<1>7. PauseHolds'
  BY <1>1, <1>2, StageAssumption DEF StageInv, StageTypeOK, Fresh, Workers, Wait, vars,
       flags, counters, locks, workerVars, callerVars, CallersQuiet, PauseHolds, Quiet,
       WorkerTypes, Unpaused
<1>8. LocksAreReturned'
  BY <1>1, <1>2, StageAssumption DEF StageInv, StageTypeOK, Fresh, Workers, Wait, vars,
       flags, counters, locks, workerVars, callerVars, CallersQuiet, LocksAreReturned,
       WorkerTypes, FlagTypes
<1>9. GoneIsOff'
  BY <1>1, <1>2, StageAssumption DEF StageInv, StageTypeOK, Fresh, Workers, Wait, vars,
       flags, counters, locks, workerVars, callerVars, CallersQuiet, GoneIsOff, AllOff
<1>10. QED
  BY <1>2, <1>3, <1>4, <1>5, <1>6, <1>7, <1>8, <1>9 DEF StageInv, StageTypeOK, Fresh,
       CallersQuiet, StartsFresh

LEMMA PauseInv ==
  ASSUME StageInv, NEW c \in Callers, NEW o \in AllOps, Pause(c, o)
  PROVE  StageInv'
<1>1. m_lock \in {NoOne, c} /\ \A d \in Callers : d # c => cpc[d] = "idle" /\ ci[d] = 1
  BY ReadyAlone DEF Pause
<1>2. CallersQuiet'
  <2>1. CASE \E r \in Results : Return(c, r)
    BY <1>1, <2>1, QuietReturn
  <2>2. CASE Proceed(c, o, "pausing")
    BY ReadyAlone, <2>2, QuietProceed DEF Pause, CallerPlaces, AllOps
  <2>3. QED
    BY <2>1, <2>2 DEF Pause, Results
<1>3. FlagTypes'
  BY <1>1, <1>2, StageAssumption, ZenonT(60) DEF StageInv, StageTypeOK, Fresh, Workers, Pause, vars,
       flags, counters, locks, workerVars, callerVars, CallersQuiet, FlagTypes,
       WorkerTypes, CallerTypes, States
<1>4. WorkerTypes'
  BY <1>1, <1>2, StageAssumption DEF StageInv, StageTypeOK, Fresh, Workers, Pause, vars,
       flags, counters, locks, workerVars, callerVars, CallersQuiet, WorkerTypes,
       WorkerPlaces
<1>5. Unpaused'
  BY <1>1, <1>2, StageAssumption DEF StageInv, StageTypeOK, Fresh, Workers, Pause, vars,
       flags, counters, locks, workerVars, callerVars, CallersQuiet, Unpaused, PauseHolds
<1>6. OnlyStarting'
  <2>1. m_status' \in {"INITIALIZED", "SETUP"} => m_status \in {"INITIALIZED",
       "SETUP"} /\ wpc' = wpc
    BY DEF Pause, workerVars
  <2>2. m_status \in {"INITIALIZED", "SETUP"} => \A w \in Workers : wpc[w] = "off"
    BY NoneRuns DEF Pause
  <2>3. QED
    BY <2>1, <2>2 DEF OnlyStarting
<1>7. PauseHolds'
  BY <1>1, <1>2, StageAssumption DEF StageInv, StageTypeOK, Fresh, Workers, Pause, vars,
       flags, counters, locks, workerVars, callerVars, CallersQuiet, PauseHolds, Quiet,
       WorkerTypes, Unpaused
<1>8. LocksAreReturned'
  BY <1>1, <1>2, StageAssumption DEF StageInv, StageTypeOK, Fresh, Workers, Pause, vars,
       flags, counters, locks, workerVars, callerVars, CallersQuiet, LocksAreReturned,
       WorkerTypes, FlagTypes
<1>9. GoneIsOff'
  BY <1>1, <1>2, StageAssumption DEF StageInv, StageTypeOK, Fresh, Workers, Pause, vars,
       flags, counters, locks, workerVars, callerVars, CallersQuiet, GoneIsOff, AllOff
<1>10. QED
  BY <1>2, <1>3, <1>4, <1>5, <1>6, <1>7, <1>8, <1>9 DEF StageInv, StageTypeOK, Fresh,
       CallersQuiet, StartsFresh

LEMMA DestroyInv ==
  ASSUME StageInv, NEW c \in Callers, Destroy(c)
  PROVE  StageInv'
<1>1. m_lock \in {NoOne, c} /\ \A d \in Callers : d # c => cpc[d] = "idle" /\ ci[d] = 1
  BY ReadyAlone DEF Destroy
<1>2. CallersQuiet'
  BY ReadyAlone, QuietProceed DEF Destroy, CallerPlaces, AllOps
<1>3. FlagTypes'
  BY <1>1, <1>2, StageAssumption DEF StageInv, StageTypeOK, Fresh, Workers, Destroy, vars,
       flags, counters, locks, workerVars, callerVars, CallersQuiet, FlagTypes,
       WorkerTypes, CallerTypes, States, CancelStage, Levels
<1>4. WorkerTypes'
  BY <1>1, <1>2, StageAssumption DEF StageInv, StageTypeOK, Fresh, Workers, Destroy, vars,
       flags, counters, locks, workerVars, callerVars, CallersQuiet, WorkerTypes,
       WorkerPlaces, CancelStage, Levels
<1>5. Unpaused'
  BY <1>1, <1>2, StageAssumption DEF StageInv, StageTypeOK, Fresh, Workers, Destroy, vars,
       flags, counters, locks, workerVars, callerVars, CallersQuiet, Unpaused, PauseHolds,
       CancelStage, Levels
<1>6. OnlyStarting'
  <2>1. m_status' \in {"INITIALIZED", "SETUP"} => m_status \in {"INITIALIZED",
       "SETUP"} /\ wpc' = wpc
    BY DEF Destroy, workerVars, CancelStage, Levels
  <2>2. m_status \in {"INITIALIZED", "SETUP"} => \A w \in Workers : wpc[w] = "off"
    BY NoneRuns DEF Destroy
  <2>3. QED
    BY <2>1, <2>2 DEF OnlyStarting
<1>7. PauseHolds'
  BY <1>1, <1>2, StageAssumption DEF StageInv, StageTypeOK, Fresh, Workers, Destroy, vars,
       flags, counters, locks, workerVars, callerVars, CallersQuiet, PauseHolds, Quiet,
       WorkerTypes, Unpaused, CancelStage, Levels
<1>8. LocksAreReturned'
  BY <1>1, <1>2, StageAssumption DEF StageInv, StageTypeOK, Fresh, Workers, Destroy, vars,
       flags, counters, locks, workerVars, callerVars, CallersQuiet, LocksAreReturned,
       WorkerTypes, FlagTypes, CancelStage, Levels
<1>9. GoneIsOff'
  BY <1>1, <1>2, StageAssumption DEF StageInv, StageTypeOK, Fresh, Workers, Destroy, vars,
       flags, counters, locks, workerVars, callerVars, CallersQuiet, GoneIsOff, AllOff,
       CancelStage, Levels
<1>10. QED
  BY <1>2, <1>3, <1>4, <1>5, <1>6, <1>7, <1>8, <1>9 DEF StageInv, StageTypeOK, Fresh,
       CallersQuiet, StartsFresh

LEMMA WaitDoneInv ==
  ASSUME StageInv, NEW c \in Callers, WaitDone(c)
  PROVE  StageInv'
<1>1. m_lock \in {NoOne, c} /\ \A d \in Callers : d # c => cpc[d] = "idle" /\ ci[d] = 1
  BY BusyAlone DEF WaitDone
<1>2. CallersQuiet'
  <2>1. CASE Return(c, "OK")
    BY <1>1, <2>1, QuietReturn DEF Results
  <2>2. CASE UNCHANGED <<m_lock, callerVars>>
    BY <1>1, <2>2 DEF WaitDone, StageInv, StageTypeOK, CallerTypes, CallersQuiet,
         CallsHoldTheLock, callerVars
  <2>3. QED
    BY <2>1, <2>2 DEF WaitDone
<1>3. FlagTypes'
  BY <1>1, <1>2, StageAssumption, ZenonT(60) DEF StageInv, StageTypeOK, Fresh, Workers, WaitDone, vars,
       flags, counters, locks, workerVars, callerVars, CallersQuiet, FlagTypes,
       WorkerTypes, CallerTypes, States
<1>4. WorkerTypes'
  BY <1>1, <1>2, StageAssumption DEF StageInv, StageTypeOK, Fresh, Workers, WaitDone, vars,
       flags, counters, locks, workerVars, callerVars, CallersQuiet, WorkerTypes,
       WorkerPlaces
<1>5. Unpaused'
  BY <1>1, <1>2, StageAssumption DEF StageInv, StageTypeOK, Fresh, Workers, WaitDone, vars,
       flags, counters, locks, workerVars, callerVars, CallersQuiet, Unpaused, PauseHolds
<1>6. OnlyStarting'
  BY <1>1, <1>2, StageAssumption DEF StageInv, StageTypeOK, Fresh, Workers, WaitDone, vars,
       flags, counters, locks, workerVars, callerVars, CallersQuiet, OnlyStarting,
       WorkerTypes, PauseHolds, Unpaused
<1>7. PauseHolds'
  BY <1>1, <1>2, StageAssumption DEF StageInv, StageTypeOK, Fresh, Workers, WaitDone, vars,
       flags, counters, locks, workerVars, callerVars, CallersQuiet, PauseHolds, Quiet,
       WorkerTypes, Unpaused
<1>8. LocksAreReturned'
  BY <1>1, <1>2, StageAssumption DEF StageInv, StageTypeOK, Fresh, Workers, WaitDone, vars,
       flags, counters, locks, workerVars, callerVars, CallersQuiet, LocksAreReturned,
       WorkerTypes, FlagTypes
<1>9. GoneIsOff'
  BY <1>1, <1>2, StageAssumption DEF StageInv, StageTypeOK, Fresh, Workers, WaitDone, vars,
       flags, counters, locks, workerVars, callerVars, CallersQuiet, GoneIsOff, AllOff
<1>10. QED
  BY <1>2, <1>3, <1>4, <1>5, <1>6, <1>7, <1>8, <1>9 DEF StageInv, StageTypeOK, Fresh,
       CallersQuiet, StartsFresh

LEMMA PauserCanceledInv ==
  ASSUME StageInv, NEW c \in Callers, PauserCanceled(c)
  PROVE  StageInv'
<1>1. m_lock \in {NoOne, c} /\ \A d \in Callers : d # c => cpc[d] = "idle" /\ ci[d] = 1
  BY BusyAlone DEF PauserCanceled
<1>2. CallersQuiet'
  BY <1>1, BusyAlone DEF PauserCanceled, StageInv, StageTypeOK, CallerTypes, CallerPlaces,
       CallersQuiet, CallsHoldTheLock
<1>3. FlagTypes'
  BY <1>1, <1>2, StageAssumption DEF StageInv, StageTypeOK, Fresh, Workers, PauserCanceled,
       vars, flags, counters, locks, workerVars, callerVars, CallersQuiet, FlagTypes,
       WorkerTypes, CallerTypes, States
<1>4. WorkerTypes'
  BY <1>1, <1>2, StageAssumption DEF StageInv, StageTypeOK, Fresh, Workers, PauserCanceled,
       vars, flags, counters, locks, workerVars, callerVars, CallersQuiet, WorkerTypes,
       WorkerPlaces
<1>5. Unpaused'
  BY <1>1, <1>2, StageAssumption DEF StageInv, StageTypeOK, Fresh, Workers, PauserCanceled,
       vars, flags, counters, locks, workerVars, callerVars, CallersQuiet, Unpaused,
       PauseHolds
<1>6. OnlyStarting'
  BY <1>1, <1>2, StageAssumption DEF StageInv, StageTypeOK, Fresh, Workers, PauserCanceled,
       vars, flags, counters, locks, workerVars, callerVars, CallersQuiet, OnlyStarting,
       WorkerTypes, PauseHolds, Unpaused
<1>7. PauseHolds'
  BY <1>1, <1>2, StageAssumption DEF StageInv, StageTypeOK, Fresh, Workers, PauserCanceled,
       vars, flags, counters, locks, workerVars, callerVars, CallersQuiet, PauseHolds,
       Quiet, WorkerTypes, Unpaused
<1>8. LocksAreReturned'
  BY <1>1, <1>2, StageAssumption DEF StageInv, StageTypeOK, Fresh, Workers, PauserCanceled,
       vars, flags, counters, locks, workerVars, callerVars, CallersQuiet,
       LocksAreReturned, WorkerTypes, FlagTypes
<1>9. GoneIsOff'
  BY <1>1, <1>2, StageAssumption DEF StageInv, StageTypeOK, Fresh, Workers, PauserCanceled,
       vars, flags, counters, locks, workerVars, callerVars, CallersQuiet, GoneIsOff, AllOff
<1>10. QED
  BY <1>2, <1>3, <1>4, <1>5, <1>6, <1>7, <1>8, <1>9 DEF StageInv, StageTypeOK, Fresh,
       CallersQuiet, StartsFresh

-----------------------------------------------------------------------------
(***************************************************************************)
(* The start, its undoing, and the steps without a call.                   *)
(***************************************************************************)
LEMMA StartInv ==
  ASSUME StageInv, NEW c \in Callers, Start(c)
  PROVE  StageInv'
<1>1. m_lock = NoOne /\ \A d \in Callers : cpc[d] = "idle" /\ ci[d] = 1
  BY ReadyAlone DEF Start
<1>2. CASE m_status \in {"INITIALIZED", "SETUP"}
  <2>1. Proceed(c, "start", "starting")
    BY <1>2 DEF Start
  <2>2. CallerTypes' /\ m_lock' = c /\ cpc'[c] = "starting" /\ \A d \in Callers : d # c => cpc'[d] = "idle" /\ ci'[d] = 1
    BY <1>1, <2>1, Proceeded DEF AllOps, CallerPlaces
  <2>3. CallsHoldTheLock'
    BY <2>2 DEF CallsHoldTheLock
  <2>4. FlagTypes' /\ WorkerTypes'
    BY <1>2 DEF StageInv, StageTypeOK, FlagTypes, WorkerTypes, Start, workerVars, Reset
  <2>5. \A w \in Workers : wpc[w] = "off"
    BY <1>2, NoneRuns DEF Start
  <2>6. Fresh'
    BY <1>2, <2>5 DEF Start, workerVars, StageInv, Fresh, Unpaused, OnlyStarting,
         StartsFresh
  <2>7. PauseHolds' /\ LocksAreReturned' /\ GoneIsOff'
    BY DEF Start, workerVars, StageInv, PauseHolds, Quiet, LocksAreReturned, GoneIsOff,
         AllOff
  <2>8. QED
    BY <2>2, <2>3, <2>4, <2>6, <2>7 DEF StageInv, StageTypeOK
<1>3. CASE m_status \notin {"INITIALIZED", "SETUP"}
  <2>1. CallersQuiet'
    BY <1>1, <1>3, QuietReturn DEF Start, Results
  <2>2. FlagTypes' /\ WorkerTypes' /\ PauseHolds' /\ LocksAreReturned' /\ GoneIsOff'
    BY <1>3 DEF StageInv, StageTypeOK, FlagTypes, WorkerTypes, Start, flags, counters,
         workerVars, PauseHolds, Quiet,
       LocksAreReturned, GoneIsOff, AllOff
  <2>3. Unpaused' /\ OnlyStarting' /\ StartsFresh'
    BY <1>3, <2>1 DEF Start, Unpaused, OnlyStarting, StartsFresh, CallersQuiet
  <2>4. QED
    BY <2>1, <2>2, <2>3 DEF StageInv, StageTypeOK, CallersQuiet, Fresh
<1>4. QED
  BY <1>2, <1>3

(* A worker is started only where none runs, so nothing is taken from it.   *)
LEMMA StartWorkerInv ==
  ASSUME StageInv, NEW c \in Callers, StartWorker(c)
  PROVE  StageInv'
<1>1. m_lock = c /\ \A d \in Callers : d # c => cpc[d] = "idle" /\ ci[d] = 1
  BY BusyAlone DEF StartWorker
<1>2. ci[c] \in Workers /\ m_status \in {"INITIALIZED", "SETUP"} /\ ~m_pause_requested
  BY StageAssumption DEF StageInv, StageTypeOK, CallerTypes, Fresh, StartsFresh, Unpaused,
       StartWorker, Left, Workers
<1>3. wpc[ci[c]] = "off"
  BY <1>1, <1>2 DEF StageInv, StageTypeOK, CallerTypes, Fresh, OnlyStarting, StartWorker,
       Workers
<1>4. CallerTypes'
  BY StageAssumption, <1>2 DEF StageInv, StageTypeOK, CallerTypes, StartWorker, locks,
       Workers
<1>5. CallsHoldTheLock'
  BY <1>1 DEF StageInv, StageTypeOK, CallerTypes, CallsHoldTheLock, StartWorker, locks
<1>6. FlagTypes' /\ WorkerTypes'
  BY DEF StageInv, StageTypeOK, FlagTypes, WorkerTypes, StartWorker, GoTo, flags, counters,
       locks, WorkerPlaces
<1>7. Unpaused' /\ StartsFresh'
  BY <1>2 DEF StageInv, Fresh, Unpaused, StartsFresh, StartWorker, flags
<1>8. OnlyStarting'
  <2>1. cpc'[c] = "starting" /\ ci'[c] = ci[c] + 1
    BY DEF StartWorker, StageInv, StageTypeOK, CallerTypes
  <2>2. \A w \in Workers : w # ci[c] /\ wpc[w] # "off" => w < ci[c]
    BY <1>1, <1>2 DEF StageInv, Fresh, OnlyStarting, StartWorker
  <2>3. \A w \in Workers : wpc'[w] # "off" => w < ci'[c]
    BY <1>2, <2>1, <2>2 DEF StartWorker, GoTo, StageInv, StageTypeOK, WorkerTypes, Workers
  <2>4. QED
    BY <2>1, <2>3 DEF OnlyStarting
<1>9. PauseHolds'
  BY <1>2, <1>3 DEF StageInv, StageTypeOK, WorkerTypes, PauseHolds, Quiet, StartWorker,
       GoTo, flags
<1>10. LocksAreReturned'
  BY <1>2, <1>3, StageAssumption DEF StageInv, StageTypeOK, WorkerTypes, LocksAreReturned,
       StartWorker, GoTo, locks
<1>11. GoneIsOff'
  BY <1>2 DEF GoneIsOff, StartWorker
<1>12. QED
  BY <1>4, <1>5, <1>6, <1>7, <1>8, <1>9, <1>10, <1>11 DEF StageInv, StageTypeOK, Fresh

LEMMA StartFailsInv ==
  ASSUME StageInv, NEW c \in Callers, StartFails(c)
  PROVE  StageInv'
<1>1. m_lock = c /\ \A d \in Callers : d # c => cpc[d] = "idle" /\ ci[d] = 1
  BY BusyAlone DEF StartFails
<1>2. CallerTypes' /\ CallsHoldTheLock'
  BY <1>1 DEF StageInv, StageTypeOK, CallerTypes, CallerPlaces, CallsHoldTheLock,
       StartFails, locks
<1>3. FlagTypes' /\ WorkerTypes'
  BY DEF StageInv, StageTypeOK, FlagTypes, WorkerTypes, StartFails, CancelStage, counters,
       locks, Levels
<1>4. Fresh'
  BY DEF StageInv, StageTypeOK, CallerTypes, Fresh, Unpaused, StartsFresh, OnlyStarting,
       StartFails
<1>5. PauseHolds' /\ LocksAreReturned' /\ GoneIsOff'
  BY DEF StageInv, PauseHolds, Quiet, LocksAreReturned, GoneIsOff, AllOff, StartFails, locks
<1>6. QED
  BY <1>2, <1>3, <1>4, <1>5 DEF StageInv, StageTypeOK

LEMMA NoStageInv ==
  ASSUME StageInv, NEW c \in Callers, NoStage(c)
  PROVE  StageInv'
<1>1. StageTypeOK'
  BY DEF StageInv, StageTypeOK, FlagTypes, WorkerTypes, CallerTypes, NoStage, flags,
       counters, locks, workerVars, Results
<1>2. CallsHoldTheLock' /\ Fresh'
  BY DEF StageInv, CallsHoldTheLock, Fresh, Unpaused, StartsFresh, OnlyStarting, NoStage,
       flags, locks, workerVars
<1>3. PauseHolds' /\ LocksAreReturned' /\ GoneIsOff'
  BY DEF StageInv, PauseHolds, Quiet, LocksAreReturned, GoneIsOff, AllOff, NoStage, flags,
       locks, workerVars
<1>4. QED
  BY <1>1, <1>2, <1>3 DEF StageInv

LEMMA SetGlobalInv ==
  ASSUME StageInv, NEW s \in {STARTED, REQUEST_SHUTDOWN}, SetGlobal(s)
  PROVE  StageInv'
<1>1. StageTypeOK'
  BY DEF StageInv, StageTypeOK, FlagTypes, WorkerTypes, CallerTypes, SetGlobal, flags,
       counters, locks, workerVars, callerVars
<1>2. CallsHoldTheLock' /\ Fresh'
  BY DEF StageInv, CallsHoldTheLock, Fresh, Unpaused, StartsFresh, OnlyStarting, SetGlobal,
       flags, locks, workerVars, callerVars
<1>3. PauseHolds' /\ GoneIsOff'
  BY DEF StageInv, PauseHolds, Quiet, GoneIsOff, AllOff, SetGlobal, flags, locks, workerVars
<1>4. LocksAreReturned'
  BY DEF StageInv, StageTypeOK, FlagTypes, LocksAreReturned, SetGlobal, locks, workerVars
<1>5. QED
  BY <1>1, <1>2, <1>3, <1>4 DEF StageInv

LEMMA StageStutter == StageInv /\ UNCHANGED vars => StageInv'
<1> SUFFICES ASSUME StageInv, UNCHANGED vars PROVE StageInv'
  OBVIOUS
<1>1. StageTypeOK'
  BY DEF StageInv, StageTypeOK, FlagTypes, WorkerTypes, CallerTypes, vars, flags, counters,
       locks, workerVars, callerVars
<1>2. CallsHoldTheLock' /\ Fresh'
  BY DEF StageInv, CallsHoldTheLock, Fresh, Unpaused, StartsFresh, OnlyStarting, vars,
       flags, locks, workerVars, callerVars
<1>3. PauseHolds' /\ LocksAreReturned' /\ GoneIsOff'
  BY DEF StageInv, PauseHolds, Quiet, LocksAreReturned, GoneIsOff, AllOff, vars, flags,
       locks, workerVars
<1>4. QED
  BY <1>1, <1>2, <1>3 DEF StageInv
-----------------------------------------------------------------------------
LEMMA StageStepInv == StageInv /\ [Next]_vars => StageInv'
<1> SUFFICES ASSUME StageInv, [Next]_vars PROVE StageInv'
  OBVIOUS
<1>1. ASSUME NEW w \in Workers, WorkerStep(w) PROVE StageInv'
  BY <1>1, GalaInv, LoopInv, BatchInv, BarrierOpensInv, PausedInv, RecheckInv,
       ActOnCancelInv, FinalizeInv DEF WorkerStep
<1>2. ASSUME NEW c \in Callers, CallerStep(c) PROVE StageInv'
  <2>1. "shutdown_now" \in AllOps /\ "shutdown_gracefully" \in AllOps /\ "wait" \in AllOps /\ "timedwait" \in AllOps
        /\ "pause" \in AllOps /\ "timedpause" \in AllOps
    BY DEF AllOps
  <2>2. CASE Shutdown(c, "shutdown_now", "RIGHT_NOW") \/ Shutdown(c, "shutdown_gracefully",
       "GRACEFULLY")
    BY <2>1, <2>2, ShutdownInv
  <2>3. CASE Wait(c, "wait") \/ Wait(c, "timedwait") \/ Pause(c, "pause") \/ Pause(c,
       "timedpause")
    BY <2>1, <2>3, WaitInv, PauseInv
  <2>4. QED
    BY <1>2, <2>2, <2>3, SetupInv, StartInv, StartWorkerInv, StartFailsInv, StartUndoneInv,
         StartDoneInv, CancelInv,
       WaitDoneInv, WaitTimesOutInv, PauseDoneInv, PauseTimesOutInv, CancelJanitorInv,
            ResumeInv, DestroyInv,
       DestroyedInv, NoStageInv DEF CallerStep
<1>3. QED
  BY <1>1, <1>2, PauserCanceledInv, SetGlobalInv, StageStutter DEF Next

(* For any number of workers and callers every variable has its type. *)
THEOREM StageTypeCorrect == Spec => []StageTypeOK
<1>1. StageInv => StageTypeOK
  BY DEF StageInv
<1>2. QED
  BY <1>1, StageInitInv, StageStepInv, PTL DEF Spec

(* However slow a worker is behind the barrier, whatever timed out before   *)
(* and whoever was canceled: in a paused stage no worker works.             *)
THEOREM PausedStagesAreQuiet == Spec => []PausedIsQuiet
<1>1. StageInv => PausedIsQuiet
  BY DEF StageInv, PauseHolds, Quiet, PausedIsQuiet
<1>2. QED
  BY <1>1, StageInitInv, StageStepInv, PTL DEF Spec

(* A worker that has ended holds no lock, and a stage that is freed has no  *)
(* worker that runs.                                                       *)
THEOREM WorkersLeaveNothing == Spec => []NothingIsLeft
<1>1. StageInv => NothingIsLeft
  BY DEF StageInv, LocksAreReturned, GoneIsOff, NothingIsLeft
<1>2. QED
  BY <1>1, StageInitInv, StageStepInv, PTL DEF Spec
-----------------------------------------------------------------------------
(***************************************************************************)
(* What the counters count, on a steady clock: the workers of the present   *)
(* start that have ended, and those of them that were canceled.            *)
(***************************************************************************)
IsFresh == m_status \in {"INITIALIZED", "SETUP"}

HasBegun(w) == IsFresh => \E c \in Callers : cpc[c] \in {"starting", "undoing"} /\ w < ci[c]

Finished == {w \in Workers : wpc[w] = "off" /\ HasBegun(w)}
Stopped  == {w \in Finished : is_canceled[w]}

IsDestroyed == m_status = "GONE" \/ \E c \in Callers : cpc[c] = "destroying"

BegunRun   == \A w \in Workers : wpc[w] # "off" => HasBegun(w)
Counted    ==
    ~IsDestroyed =>
        m_n_shutdown_workers = Cardinality(Finished) /\ m_n_canceled_workers = Cardinality(Stopped)
WaitsForIt == \A c \in Callers : cpc[c] = "waiting" => m_status \in {"STARTED", "PAUSED"}

CountInv == BegunRun /\ Counted /\ WaitsForIt /\ EndIsTold

LEMMA FinishedIsFinite ==
  /\ IsFiniteSet(Workers) /\ Cardinality(Workers) = NWorkers
  /\ IsFiniteSet(Finished) /\ IsFiniteSet(Stopped)
<1>1. IsFiniteSet(Workers) /\ Cardinality(Workers) = NWorkers
  BY StageAssumption, FS_Interval DEF Workers
<1>2. Finished \in SUBSET Workers /\ Stopped \in SUBSET Workers
  BY DEF Finished, Stopped
<1>3. QED
  BY <1>1, <1>2, FS_Subset

(* A step that starts and ends no worker leaves the counts true.            *)
LEMMA CountsStay ==
  ASSUME CountInv, UNCHANGED counters, IsDestroyed => IsDestroyed',
         \A w \in Workers : wpc'[w] = "off" <=> wpc[w] = "off",
         \A w \in Workers : HasBegun(w)' <=> HasBegun(w),
         \A w \in Workers : wpc[w] = "off" => is_canceled'[w] = is_canceled[w]
  PROVE  BegunRun' /\ Counted'
<1>1. BegunRun'
  BY DEF CountInv, BegunRun
<1>2. Finished' = Finished
  BY DEF Finished
<1>3. Stopped' = Stopped
  BY <1>2 DEF Stopped, Finished
<1>4. QED
  BY <1>1, <1>2, <1>3 DEF CountInv, Counted, counters

(* Before a stage is told to have ended, nothing needs to be told.          *)
LEMMA StillRuns ==
  ASSUME CountInv, NEW w \in Workers, wpc[w] # "off"
  PROVE  m_status \notin {"CANCELED", "SHUTDOWN"} /\ fatal # "wait"
  BY DEF CountInv, EndIsTold, AllOff

LEMMA GoneRunsNobody ==
  ASSUME StageInv, NEW w \in Workers, wpc[w] # "off"
  PROVE  m_status # "GONE"
  BY DEF StageInv, GoneIsOff, AllOff

(* The steps of a worker, but its last one.                                 *)
LEMMA WorkerCounts ==
  ASSUME StageInv, CountInv, NEW w \in Workers,
         Gala(w) \/ Loop(w) \/ (\E r \in {-1, 0, 1} : Batch(w, r)) \/ BarrierOpens(w)
         \/ Paused(w) \/ Recheck(w) \/ ActOnCancel(w)
  PROVE  CountInv'
<1>1. wpc[w] # "off" /\ UNCHANGED <<counters, cpc, ci>>
  BY DEF Gala, Loop, Batch, BarrierOpens, Paused, Recheck, ActOnCancel, counters, callerVars
<1>2. \A u \in Workers : wpc'[u] = "off" <=> wpc[u] = "off"
  BY <1>1 DEF StageInv, StageTypeOK, WorkerTypes, Gala, Loop, Batch, BarrierOpens, Paused, Recheck,
       ActOnCancel, GoTo, SleepOrGo
<1>3. \A u \in Workers : wpc[u] = "off" => is_canceled'[u] = is_canceled[u]
  BY <1>1 DEF StageInv, StageTypeOK, WorkerTypes, Gala, Loop, Batch, BarrierOpens, Paused, Recheck,
       ActOnCancel
<1>4. m_status' = m_status \/ (~IsFresh /\ m_status' = "PAUSED")
  <2>1. CASE Paused(w)
    BY <2>1, StageAssumption DEF Paused, StageInv, PauseHolds, Fresh, Unpaused, IsFresh
  <2>2. CASE ~Paused(w)
    BY <2>2 DEF Gala, Loop, Batch, BarrierOpens, Recheck, ActOnCancel
  <2>3. QED
    BY <2>1, <2>2
<1>5. \A u \in Workers : HasBegun(u)' <=> HasBegun(u)
  BY <1>1, <1>4 DEF HasBegun, IsFresh
<1>11. IsDestroyed => IsDestroyed'
  BY <1>1, <1>4, GoneRunsNobody DEF IsDestroyed
<1>6. BegunRun' /\ Counted'
  BY <1>1, <1>2, <1>3, <1>5, <1>11, CountsStay
<1>7. WaitsForIt'
  BY <1>1, <1>4 DEF CountInv, WaitsForIt
<1>8. fatal' # "wait"
  BY <1>1, StillRuns DEF Gala, Loop, Batch, BarrierOpens, Paused, Recheck, ActOnCancel
<1>9. m_status' \notin {"CANCELED", "SHUTDOWN"}
  BY <1>1, <1>4, StillRuns
<1>10. QED
  BY <1>6, <1>7, <1>8, <1>9 DEF CountInv, EndIsTold

(* The last step of a worker counts it.                                     *)
LEMMA FinalizeCounts ==
  ASSUME StageInv, CountInv, NEW w \in Workers, Finalize(w)
  PROVE  CountInv'
<1>1. wpc[w] = "end" /\ wpc'[w] = "off" /\ \A u \in Workers \ {w} : wpc'[u] = wpc[u]
  BY DEF Finalize, GoTo, StageInv, StageTypeOK, WorkerTypes
<1>2. \A u \in Workers : HasBegun(u)' <=> HasBegun(u)
  BY DEF Finalize, HasBegun, IsFresh, callerVars
<1>3. HasBegun(w)
  BY <1>1 DEF CountInv, BegunRun
<1>4. Finished' = Finished \cup {w} /\ w \notin Finished
  BY <1>1, <1>2, <1>3 DEF Finished
<1>5. is_canceled' = is_canceled
  BY DEF Finalize
<1>6. Stopped' = (IF is_canceled[w] THEN Stopped \cup {w} ELSE Stopped) /\ w \notin Stopped
  BY <1>4, <1>5 DEF Stopped
<1>7. Cardinality(Finished \cup {w}) = Cardinality(Finished) + 1
  BY <1>4, FinishedIsFinite, FS_AddElement
<1>8. Cardinality(Stopped \cup {w}) = Cardinality(Stopped) + 1
  BY <1>6, FinishedIsFinite, FS_AddElement
<1>14. IsDestroyed' <=> IsDestroyed
  BY DEF Finalize, IsDestroyed, callerVars
<1>9. ~IsDestroyed => m_n_shutdown_workers' = Cardinality(Finished')
  BY <1>4, <1>7 DEF Finalize, CountShutdown, CountInv, Counted
<1>10. ~IsDestroyed => m_n_canceled_workers' = Cardinality(Stopped')
  <2>1. m_n_canceled_workers' = m_n_canceled_workers + (IF is_canceled[w] THEN 1 ELSE 0)
    BY DEF Finalize, CountCanceled
  <2>2. m_n_canceled_workers \in Nat
    BY DEF StageInv, StageTypeOK, FlagTypes
  <2>3. QED
    BY <1>6, <1>8, <2>1, <2>2 DEF CountInv, Counted
<1>11. BegunRun'
  BY <1>1, <1>2 DEF CountInv, BegunRun
<1>12. WaitsForIt' /\ fatal' # "wait" /\ m_status' \notin {"CANCELED", "SHUTDOWN"}
  BY <1>1, StillRuns DEF Finalize, CountInv, WaitsForIt, callerVars
<1>13. QED
  BY <1>9, <1>10, <1>11, <1>12, <1>14 DEF CountInv, Counted, EndIsTold

(* The calls that begin while no other is under way, start nothing and leave *)
(* the stage.                                                              *)
Beginning(c) ==
    \/ Setup(c) \/ Cancel(c) \/ Shutdown(c, "shutdown_now", "RIGHT_NOW")
    \/ Shutdown(c, "shutdown_gracefully", "GRACEFULLY") \/ Wait(c, "wait") \/ Wait(c, "timedwait")
    \/ Pause(c, "pause") \/ Pause(c, "timedpause") \/ Resume(c)

LEMMA BeginningCounts ==
  ASSUME StageInv, CountInv, NEW c \in Callers, Beginning(c)
  PROVE  CountInv'
<1>1. \E o : Ready(c, o)
  BY DEF Beginning, Setup, Cancel, Shutdown, Wait, Pause, Resume
<1>2. m_status # "GONE" /\ \A d \in Callers : cpc[d] = "idle"
  BY <1>1, ReadyAlone DEF Ready
<1>3. UNCHANGED <<counters, is_canceled, fatal>>
  BY DEF Beginning, Setup, Cancel, Shutdown, Wait, Pause, Resume, counters, workerVars
<1>4. \A u \in Workers : wpc'[u] = "off" <=> wpc[u] = "off"
  BY DEF StageInv, StageTypeOK, WorkerTypes, Beginning, Setup, Cancel, Shutdown, Wait, Pause, Resume,
       ResumeBeforeShutdown, NotifyResume, workerVars
<1>5. \A d \in Callers :
          /\ cpc'[d] \notin {"starting", "undoing"}
          /\ cpc'[d] = "waiting" => m_status = "STARTED" /\ m_status' = "STARTED"
  BY <1>2 DEF StageInv, StageTypeOK, CallerTypes, Beginning, Setup, Cancel, Shutdown, Wait, Pause, Resume,
       Return, Proceed
<1>6. m_status' = m_status \/ (IsFresh /\ m_status' = "SETUP") \/ (m_status = "PAUSED" /\ m_status' = "STARTED")
  BY DEF Beginning, Setup, Cancel, Shutdown, Wait, Pause, Resume, ResumeBeforeShutdown, IsFresh
<1>7. \A u \in Workers : HasBegun(u)' <=> HasBegun(u)
  BY <1>2, <1>5, <1>6 DEF HasBegun, IsFresh
<1>8. BegunRun' /\ Counted'
  BY <1>2, <1>3, <1>4, <1>7, CountsStay DEF IsDestroyed
<1>9. WaitsForIt'
  BY <1>5 DEF WaitsForIt
<1>10. EndIsTold'
  BY <1>3, <1>4, <1>6 DEF CountInv, EndIsTold, AllOff, IsFresh
<1>11. QED
  BY <1>8, <1>9, <1>10 DEF CountInv

(* The steps in which a call goes on or ends, and starts nothing.           *)
LEMMA GoingOnCounts ==
  ASSUME StageInv, CountInv, NEW c \in Callers,
         WaitTimesOut(c) \/ PauseDone(c) \/ PauseTimesOut(c) \/ CancelJanitor(c) \/ PauserCanceled(c)
  PROVE  CountInv'
<1>1. cpc[c] \in {"waiting", "pausing", "canceled"} /\ \A d \in Callers : d # c => cpc[d] = "idle"
  BY BusyAlone DEF WaitTimesOut, PauseDone, PauseTimesOut, CancelJanitor, PauserCanceled
<1>2. UNCHANGED <<counters, wpc, is_canceled, fatal, m_status>>
  BY DEF WaitTimesOut, PauseDone, PauseTimesOut, CancelJanitor, PauserCanceled, counters, workerVars
<1>3. \A d \in Callers : cpc'[d] \notin {"starting", "undoing", "waiting"}
  BY <1>1 DEF StageInv, StageTypeOK, CallerTypes, WaitTimesOut, PauseDone, PauseTimesOut, CancelJanitor,
       PauserCanceled, Return
<1>4. \A u \in Workers : HasBegun(u)' <=> HasBegun(u)
  BY <1>1, <1>2, <1>3 DEF HasBegun, IsFresh
<1>5. IsDestroyed => IsDestroyed'
  BY <1>1, <1>2 DEF IsDestroyed
<1>6. BegunRun' /\ Counted'
  BY <1>2, <1>4, <1>5, CountsStay
<1>7. WaitsForIt' /\ EndIsTold'
  BY <1>2, <1>3 DEF CountInv, WaitsForIt, EndIsTold, AllOff
<1>8. QED
  BY <1>6, <1>7 DEF CountInv

(* Who waited has seen all workers end, so the counts are of all.           *)
LEMMA WaitDoneCounts ==
  ASSUME ~ClockSteps, StageInv, CountInv, NEW c \in Callers, WaitDone(c)
  PROVE  CountInv'
<1>1. cpc[c] = "waiting" /\ m_status \in {"STARTED", "PAUSED"} /\ \A d \in Callers : d # c => cpc[d] = "idle"
  BY BusyAlone DEF WaitDone, CountInv, WaitsForIt
<1>2. AllOff
  BY DEF WaitDone, Waited
<1>3. Finished = Workers /\ Stopped = {w \in Workers : is_canceled[w]}
  BY <1>1, <1>2 DEF Finished, Stopped, AllOff, HasBegun, IsFresh
<1>4. m_n_shutdown_workers = NWorkers /\ m_n_canceled_workers = Cardinality(Stopped)
  BY <1>1, <1>3, FinishedIsFinite DEF CountInv, Counted, IsDestroyed
<1>5. m_n_canceled_workers > 0 <=> \E w \in Workers : is_canceled[w]
  <2>1. Cardinality(Stopped) = 0 <=> Stopped = {}
    BY FinishedIsFinite, FS_EmptySet
  <2>2. Cardinality(Stopped) \in Nat
    BY FinishedIsFinite, FS_CardinalityType
  <2>3. Stopped = {} <=> ~\E w \in Workers : is_canceled[w]
    BY <1>3
  <2>4. QED
    BY <1>4, <2>1, <2>2, <2>3
<1>6. /\ m_status' = IF m_n_canceled_workers > 0 THEN "CANCELED" ELSE "SHUTDOWN"
      /\ UNCHANGED <<fatal, counters, wpc, is_canceled>> /\ Return(c, "OK")
  BY <1>4 DEF WaitDone, counters, workerVars
<1>7. \A d \in Callers : cpc'[d] = "idle"
  BY <1>1, <1>6 DEF Return, StageInv, StageTypeOK, CallerTypes
<1>8. \A u \in Workers : HasBegun(u)' <=> HasBegun(u)
  BY <1>1, <1>6 DEF HasBegun, IsFresh
<1>9. BegunRun' /\ Counted'
  BY <1>1, <1>6, <1>8, CountsStay DEF IsDestroyed
<1>10. EndIsTold'
  BY <1>2, <1>5, <1>6 DEF CountInv, EndIsTold, AllOff
<1>11. QED
  BY <1>7, <1>9, <1>10 DEF CountInv, WaitsForIt

(* A start begins with no worker, and counts from nought.                   *)
LEMMA StartCounts ==
  ASSUME StageInv, CountInv, NEW c \in Callers, Start(c)
  PROVE  CountInv'
<1>1. m_status # "GONE" /\ \A d \in Callers : cpc[d] = "idle" /\ ci[d] = 1
  BY ReadyAlone DEF Start, Ready
<1>2. UNCHANGED <<m_status, wpc, is_canceled, fatal>>
  BY DEF Start, workerVars
<1>3. CASE IsFresh
  <2>1. Proceed(c, "start", "starting") /\ Reset
    BY <1>3 DEF Start, IsFresh
  <2>2. \A d \in Callers : cpc'[d] \in {"idle", "starting"} /\ ci'[d] = 1
    BY <1>1, <2>1 DEF Proceed, StageInv, StageTypeOK, CallerTypes
  <2>3. \A w \in Workers : wpc[w] = "off"
    BY <1>3, NoneRuns DEF Start, IsFresh
  <2>4. Finished' = {} /\ Stopped' = {}
    BY <1>2, <1>3, <2>2 DEF Finished, Stopped, HasBegun, IsFresh, Workers
  <2>5. BegunRun' /\ Counted'
    BY <1>2, <2>1, <2>3, <2>4, FS_EmptySet DEF BegunRun, Counted, Reset
  <2>6. QED
    BY <1>2, <2>2, <2>5 DEF CountInv, WaitsForIt, EndIsTold, AllOff
<1>4. CASE ~IsFresh
  <2>1. Return(c, "INVALID_STATE") /\ UNCHANGED counters
    BY <1>4 DEF Start, IsFresh
  <2>2. \A d \in Callers : cpc'[d] = "idle"
    BY <1>1, <2>1 DEF Return, StageInv, StageTypeOK, CallerTypes
  <2>3. \A u \in Workers : HasBegun(u)' <=> HasBegun(u)
    BY <1>2, <1>4 DEF HasBegun, IsFresh
  <2>4. BegunRun' /\ Counted'
    BY <1>1, <1>2, <2>1, <2>3, CountsStay DEF IsDestroyed
  <2>5. QED
    BY <1>2, <2>2, <2>4 DEF CountInv, WaitsForIt, EndIsTold, AllOff
<1>5. QED
  BY <1>3, <1>4

(* A worker that is started has not ended; the one before it may have.      *)
LEMMA StartWorkerCounts ==
  ASSUME StageInv, CountInv, NEW c \in Callers, StartWorker(c)
  PROVE  CountInv'
<1>1. cpc[c] = "starting" /\ \A d \in Callers : d # c => cpc[d] = "idle"
  BY BusyAlone DEF StartWorker
<1>2. ci[c] \in Workers /\ IsFresh
  BY StageAssumption, <1>1 DEF StageInv, StageTypeOK, CallerTypes, Fresh, StartsFresh, StartWorker, Left,
       Workers, IsFresh
<1>3. UNCHANGED <<m_status, counters, fatal, cpc>> /\ ci' = [ci EXCEPT ![c] = ci[c] + 1]
  BY DEF StartWorker, counters
<1>4. \A u \in Workers : (HasBegun(u) <=> u < ci[c]) /\ (HasBegun(u)' <=> u < ci[c] + 1)
  BY <1>1, <1>2, <1>3 DEF HasBegun, IsFresh, StageInv, StageTypeOK, CallerTypes
<1>5. /\ wpc'[ci[c]] = "gala"
      /\ \A u \in Workers \ {ci[c]} : wpc'[u] = wpc[u] /\ is_canceled'[u] = is_canceled[u]
  BY <1>2 DEF StartWorker, GoTo, StageInv, StageTypeOK, WorkerTypes
<1>6. \A u \in Workers \ {ci[c]} : u < ci[c] + 1 <=> u < ci[c]
  BY <1>2 DEF Workers
<1>7. Finished' = Finished
  BY <1>2, <1>4, <1>5, <1>6 DEF Finished, Workers
<1>8. Stopped' = Stopped
  BY <1>4, <1>5, <1>7, <1>2 DEF Stopped, Finished, Workers
<1>9. BegunRun'
  BY <1>2, <1>4, <1>5, <1>6 DEF CountInv, BegunRun, Workers
<1>10. Counted'
  BY <1>3, <1>7, <1>8 DEF CountInv, Counted, IsDestroyed, counters
<1>11. WaitsForIt' /\ EndIsTold'
  BY <1>2, <1>3 DEF CountInv, WaitsForIt, EndIsTold, IsFresh
<1>12. QED
  BY <1>9, <1>10, <1>11 DEF CountInv

(* All workers are started, or those that were end again.                   *)
LEMMA StartEndsCounts ==
  ASSUME StageInv, CountInv, NEW c \in Callers, StartFails(c) \/ StartUndone(c) \/ StartDone(c)
  PROVE  CountInv'
<1>1. /\ cpc[c] \in {"starting", "undoing"} /\ \A d \in Callers : d # c => cpc[d] = "idle"
      /\ ci[c] \in 1..(NWorkers + 1) /\ IsFresh
  BY BusyAlone DEF StartFails, StartUndone, StartDone, StageInv, StageTypeOK, CallerTypes, Fresh, StartsFresh,
       IsFresh
<1>2. \A u \in Workers : HasBegun(u) <=> u < ci[c]
  BY <1>1 DEF HasBegun
<1>3. UNCHANGED <<wpc, is_canceled, fatal>>
  BY DEF StartFails, StartUndone, StartDone, workerVars
<1>4. CASE StartFails(c)
  <2>1. UNCHANGED <<m_status, counters, ci>> /\ cpc' = [cpc EXCEPT ![c] = "undoing"]
    BY <1>4 DEF StartFails, counters
  <2>2. \A u \in Workers : HasBegun(u)' <=> HasBegun(u)
    BY <1>1, <1>2, <2>1 DEF HasBegun, IsFresh, StageInv, StageTypeOK, CallerTypes
  <2>3. BegunRun' /\ Counted'
    BY <1>1, <1>3, <2>1, <2>2, CountsStay DEF IsDestroyed, IsFresh
  <2>4. WaitsForIt' /\ EndIsTold'
    BY <1>1, <1>3, <2>1 DEF CountInv, WaitsForIt, EndIsTold, IsFresh, StageInv, StageTypeOK, CallerTypes
  <2>5. QED
    BY <2>3, <2>4 DEF CountInv
<1>5. CASE StartUndone(c)
  <2>1. AllOff /\ Reset /\ Return(c, "FAILED") /\ m_status' = m_status
    BY <1>5 DEF StartUndone
  <2>2. \A d \in Callers : cpc'[d] = "idle"
    BY <1>1, <2>1 DEF Return, StageInv, StageTypeOK, CallerTypes
  <2>3. Finished' = {} /\ Stopped' = {}
    BY <1>1, <2>1, <2>2 DEF Finished, Stopped, HasBegun, IsFresh
  <2>4. BegunRun' /\ Counted'
    BY <1>3, <2>1, <2>3, FS_EmptySet DEF BegunRun, Counted, Reset, AllOff
  <2>5. WaitsForIt' /\ EndIsTold'
    BY <1>1, <1>3, <2>1, <2>2 DEF CountInv, WaitsForIt, EndIsTold, IsFresh
  <2>6. QED
    BY <2>4, <2>5 DEF CountInv
<1>6. CASE StartDone(c)
  <2>1. m_status' = "STARTED" /\ Return(c, "OK") /\ UNCHANGED counters /\ ~Left(c)
    BY <1>6 DEF StartDone, counters
  <2>2. \A d \in Callers : cpc'[d] = "idle"
    BY <1>1, <2>1 DEF Return, StageInv, StageTypeOK, CallerTypes
  <2>3. \A u \in Workers : HasBegun(u)' /\ HasBegun(u)
    BY StageAssumption, <1>1, <1>2, <2>1 DEF HasBegun, IsFresh, Left, Workers
  <2>4. BegunRun' /\ Counted'
    BY <1>1, <1>3, <2>1, <2>3, CountsStay DEF IsDestroyed, IsFresh
  <2>5. WaitsForIt' /\ EndIsTold'
    BY <1>3, <2>1, <2>2 DEF CountInv, WaitsForIt, EndIsTold
  <2>6. QED
    BY <2>4, <2>5 DEF CountInv
<1>7. QED
  BY <1>4, <1>5, <1>6

(* What is destroyed is not counted any more.                               *)
LEMMA DestroyCounts ==
  ASSUME StageInv, CountInv, NEW c \in Callers, Destroy(c) \/ Destroyed(c) \/ NoStage(c)
  PROVE  CountInv'
<1>1. UNCHANGED <<wpc, fatal>>
  BY DEF Destroy, Destroyed, NoStage, workerVars
<1>2. \A d \in Callers : d # c => cpc[d] = "idle" \/ m_status = "GONE"
  BY BusyAlone DEF Destroy, Destroyed, NoStage
<1>3. m_status' \in {"DESTROYING", "GONE"} /\ IsDestroyed'
  BY DEF Destroy, Destroyed, NoStage, IsDestroyed, Proceed, StageInv, StageTypeOK, CallerTypes
<1>4. \A d \in Callers : cpc'[d] # "waiting"
  BY <1>2 DEF Destroy, Destroyed, NoStage, Proceed, Return, StageInv, StageTypeOK, CallerTypes, CountInv,
       WaitsForIt
<1>5. QED
  BY <1>1, <1>3, <1>4 DEF CountInv, BegunRun, Counted, WaitsForIt, EndIsTold, HasBegun, IsFresh

LEMMA OutsideCounts ==
  ASSUME CountInv, UNCHANGED vars \/ \E s \in {STARTED, REQUEST_SHUTDOWN} : SetGlobal(s)
  PROVE  CountInv'
<1>1. UNCHANGED <<m_status, counters, fatal, wpc, is_canceled, cpc, ci>>
  BY DEF vars, SetGlobal, workerVars, callerVars
<1>2. BegunRun' /\ Counted'
  BY <1>1, CountsStay DEF HasBegun, IsFresh, IsDestroyed
<1>3. QED
  BY <1>1, <1>2 DEF CountInv, WaitsForIt, EndIsTold, AllOff

LEMMA CountInit == Init => CountInv
<1> SUFFICES ASSUME Init PROVE CountInv
  OBVIOUS
<1>1. Finished = {} /\ Stopped = {}
  BY DEF Init, Finished, Stopped, HasBegun, IsFresh
<1>2. QED
  BY <1>1, FS_EmptySet DEF Init, CountInv, BegunRun, Counted, WaitsForIt, EndIsTold

LEMMA CountStep == ~ClockSteps /\ StageInv /\ CountInv /\ [Next]_vars => CountInv'
<1> SUFFICES ASSUME ~ClockSteps, StageInv, CountInv, [Next]_vars PROVE CountInv'
  OBVIOUS
<1>1. ASSUME NEW w \in Workers, WorkerStep(w) PROVE CountInv'
  BY <1>1, WorkerCounts, FinalizeCounts DEF WorkerStep
<1>2. ASSUME NEW c \in Callers, CallerStep(c) PROVE CountInv'
  BY <1>2, BeginningCounts, GoingOnCounts, WaitDoneCounts, StartCounts, StartWorkerCounts, StartEndsCounts,
     DestroyCounts DEF CallerStep, Beginning
<1>3. ASSUME NEW c \in Callers, PauserCanceled(c) PROVE CountInv'
  BY <1>3, GoingOnCounts
<1>4. QED
  BY <1>1, <1>2, <1>3, OutsideCounts DEF Next

(* On a steady clock a wait that succeeds has seen every worker end, and     *)
(* the status tells whether one was canceled, for any number of workers.    *)
THEOREM TheEndIsToldRight == ASSUME ~ClockSteps PROVE Spec => []EndIsTold
<1>1. Init => StageInv /\ CountInv
  BY StageInitInv, CountInit
<1>2. StageInv /\ CountInv /\ [Next]_vars => StageInv' /\ CountInv'
  BY StageStepInv, CountStep
<1>3. CountInv => EndIsTold
  BY DEF CountInv
<1>4. QED
  BY <1>1, <1>2, <1>3, PTL DEF Spec
=============================================================================
