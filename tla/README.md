# TLA+ verification of mccp

mccp is a C library for multithreaded programs that are built from pipelines of
worker threads.  It wraps pthreads (locks, conditions, barriers, threads),
connects threads by bounded queues that can be polled, tracks one
process-wide life-cycle state, and starts, pauses and stops modules and
pipeline stages made of several workers.  This directory holds TLA+ models of
its implementation (`src/src/lib`), the TLC configurations that check them and
the TLAPS proofs about them.

Sections: 1 the system, 2 how the project is built, 3 the modules, 4 the runs,
5 the proofs, 6 where code and documents differ, 7 what is not modelled.

## 1. Inventory

"->" reads "calls or shares state with".

| Component | Source | State it keeps | Operations | Interacts with |
|---|---|---|---|---|
| Locks | `lock.c` | pthread mutex / rwlock, the cancel state to restore (`m_prev_cancel_state`), the creator's pid; condition; barrier | lock, trylock, timedlock, unlock, enter/leave critical, cond wait/notify, barrier wait | everything below |
| Circular buffer | `cbuffer.c` | read and write index, element count, slots, operational flag, one registered queue muxer and the event it waits for | create, put, get, peek (each with a time limit), clear, shutdown, destroy, queries, cancel janitor, setup for a queue muxer | -> locks, -> queue muxer (`qmuxer_notify`) |
| Queue muxer and poll objects | `qmuxer.c`, `qpoll.c` | a mutex and a condition; per poll object the queue, the event type and the size seen last | create, destroy, poll, notify, cancel janitor | -> circular buffer (`cbuffer_setup_for_qmuxer`), called by it under its lock |
| Global state tracker | `gstate.c` | one global state, one shutdown grace level | set, get, wait for, request shutdown, cancel janitor, reset | everybody waits on it |
| Thread | `thread.c` | pthread id, flags activated / started / canceled / destroying / autodelete, result code, locks and two conditions | create, start, cancel, wait, destroy, is_canceled, result code | -> locks |
| Pipeline stage and workers | `pipeline_stage.c`, `pipeline_worker.c` | status, shutdown level, loop and pause flags, counts of canceled and stopped workers, pause barrier | setup, start, pause, resume, cancel, shutdown, wait, destroy; the worker loop | -> thread, -> global state tracker, -> locks |
| Module manager | `module.c` | a table of modules and their states | register; initialize, start, shutdown, stop, wait, finalize all | -> thread, -> global state tracker (through the program) |
| Hash map | `hashmap.c` over `hash.c` (Tcl) | table, operational flag, rwlock | create, find, add, delete, iterate, statistics, clear, shutdown, destroy | -> rwlock critical regions |
| Signal thread | `signal.c` | signal set, handlers, a thread in `sigwait` | install a handler, deliver, stop | -> thread, -> global state tracker (through handlers) |
| Strings and numbers | `strutils.c` | - | tokenize, unescape, trim, parse integers | - |
| Test program | `check/dummy-main.c`, `check/dummy-module.c` | - | the life cycle of a program with modules and a signal handler | modules, signal thread, global state |
| Logger, time, errors, heap check | `logger.c`, `chrono.c`, `error.c`, `heapcheck.c` | log destination | formatting, I/O | - |

### What is hard, and what makes each part correct

* **Circular buffer.** Any number of threads block in put, get and peek; a
  wakeup may be stolen, come late, be spurious or belong to somebody else; a
  waiter can be canceled and leaves the lock to its cleanup handler; both
  indices grow for ever and are renumbered when the 64-bit write index
  overflows.  Correct means: a linearizable bounded FIFO queue, no thread
  asleep while what it waits for is there, a shutdown that releases everybody.
* **Global state tracker.** Waiters for different states share one condition;
  a state may be skipped; a shutdown request blocks until somebody else accepts
  it.  Correct means: the state never goes back, nobody misses a state, the
  first request decides the grace level, every request is answered.
* **Queue muxer.** A poller registers itself on several queues one after the
  other and sleeps afterwards, without a lock over both; queues change and
  shut down in between; a queue holds one registration.  Correct means: a
  poller is awakened when one of its queues becomes ready, up to the events
  the documentation admits are dropped.
* **Locks.** The cancel state saved by a critical region is stored in the
  lock and not in the thread; readers share it; the same field tells plain
  locks from critical regions.  Correct means: whoever took a lock can release
  it, and has the cancel state it had before.
* **Thread.** Start hands over to the new thread; cancellation, normal return,
  wait and destruction race; a thread may free its own record.  Correct means:
  a waiter returns only after the run it waited for, what it is told is of
  that run, nobody touches a freed record.
* **Pipeline stage.** Pause needs all workers at one barrier; a worker may be
  canceled or may have left its loop; shutdown and resume race with pause; the
  stage lock is held while the caller waits.  Correct means: a paused stage
  has no worker in its procedures, the counters account for every worker,
  a canceled worker leaves no lock, a shutdown ends.
* **Module manager, signal thread, program.** Any module may fail to
  initialize, start or end; a signal may arrive at any moment, its handler
  sleeps until the main thread accepts the shutdown, and the destructors wait
  for it.  Correct means: what was started is ended or canceled, the program
  says so truly, and it ends.
* **Hash map.** A lookup and its use are two steps, the table grows in between
  others, values are owned by the caller or by the map.  Correct means: a map
  whose calls take effect one at a time, and no value freed twice.
* **Strings and numbers.** Pointers run over texts up to their ends, results
  go into arrays of the caller, numbers into types of several widths.

The full list, each at its source line with the properties that cover it, is
`PROJECT.json` "hazards".

## 2. How the project is built

The order follows the dependencies of the program: the objects that other
parts block on, then the threads that block on them, then the life cycle that
drives everything.  Every module takes its sizes as CONSTANTS under a named
assumption, has one action per locked section or operation, and uses no
RECURSIVE operator, so that it can be proved about as well as checked.

| Modules | What they model | Composes | Abstract specification | Proofs |
|---|---|---|---|---|
| `CBufferData`, `CBuffer` | circular buffer | data of one buffer, threads that use it | `BoundedQueue` | `CBufferProofs` |
| `GState` | global state tracker | - | - | `GStateProofs` |
| `QMuxer` | queue muxer, poll objects | a poller and the queues it polls | - | `QMuxerProofs` |
| `Locks` | mutex, condition, rwlock | - | - | in `HashMapProofs` |
| `Hash`, `HashMap` | hash table, hash map | `Locks` and `Hash` | `Map` | `HashMapProofs` |
| `Thread` | thread record | - | - | `ThreadProofs` |
| `Stage` | stage and workers | workers, callers, the global state | - | `StageProofs` |
| `Modules`, `Signals`, `System` | module manager, signal thread, the program | all three meet in the global state | - | `SystemProofs` |
| `StrUtils`, `StrNumbers` | strings, integers | - | the grammar of numbers (`IsSentence`, `TextOf`, `ValueOf`) | `StrUtilsProofs` |

`MC*.tla` and `MC*.cfg` instantiate them for TLC.

## 3. The modules

In all of them an action is one section of code that no other thread can
interfere with: from a lock, or the wakeup that takes the lock again, to the
next wait, the unlock or the return.  A condition wait is two actions; in
between the thread is parked, and can be awakened, time out or be canceled.
Reads and writes without a lock are actions of their own.

### Circular buffer: `BoundedQueue`, `CBufferData`, `CBuffer`

`BoundedQueue` is what a user sees: a sequence of values, an open flag, for each
thread the call it makes and the answer it got, and the values released to the
destructor.  `CBufferData` is the data structure: a record with the fields of
`mccp_cbuffer_record` and one operator per step on it (`AdjustIndices` for
`s_adjust_indices()`, `Stored`, `Fetched`, `Cleaned`, `FreedUp`).  The 64-bit signed
indices are integers in `-IndexLimit .. IndexLimit - 1` and wrap like the code's.

`CBuffer` adds the threads.  `pc[t]` says whether a thread is outside (`idle`),
about to take the lock or awakened (`entry`), parked on `m_cond_put` or
`m_cond_get`, canceled with the lock held, or gone (`ended`, after its janitor).
A notification moves every parked thread to `entry`, where it competes for the lock.
A timeout, a spurious wakeup and a cancellation are actions of a parked thread.
`exited` says that get or peek found the "read pointer error" and ended the
process; `IndicesAgree` includes that this is unreachable, and the liveness
properties, whose run reaches it on purpose, are about processes that live.
`CBuffer!Destroy` requires that nobody is inside a call, as any use of a freed
buffer is undefined.

### Global state: `GState`

`gs` and `gl` are the file's state and grace level, `s_lck` its lock.  The states
are their numbers, so skipping and going backward mean what they mean in the
code.  A caller may pass a state out of range.  `Reset` is
`mccp_global_state_reset()`, which only unit tests use.

### Queue muxer: `QMuxer`

The state is one record per queue (element count, operational flag, `m_qmuxer`,
`m_type`), the poll objects of each poller, and the local variables of
`mccp_qmuxer_poll()` and `s_qmx_setup_for_poll()`: the index, the event count, the
NULL count and `is_pre`.  Each visit of a poll object is an action, because each takes
and releases the lock of its queue; so are the end of the scan, the lock of the
muxer with the wait, and the wakeup.  A queue operation is one action and includes the
`qmuxer_notify()` it makes under its lock.  Queues are reduced to their element
count, which `CBuffer` shows to be right; blocked producers and consumers are left to it.
The history variable `missed` records that an event did not awaken the poller.
A notification through a pointer to a destroyed muxer does nothing or crashes the
process.

### Locks: `Locks`

One mutex with its condition and one read-write lock, each with its ONE field
`m_prev_cancel_state`, which says both how the lock was taken (unset: plainly)
and which cancel state the owner of a critical region gets back.  The code does
not check that it is used as one field allows.  Three constants and variables
name the discipline under which it works, and the runs and proofs are under it:

* `Nestings`, assumed to be within `SafeNestings`: which lock is taken while the
  mutex is held.  One nesting is left out, `<<"critical", "reader_enter">>`: with it
  `ProtectedInRegions` fails, as readers that came with different cancel states get
  each other's.  A region inside a plainly held mutex is in: `pipeline_stage.c` holds
  `m_lock` plainly over `mccp_thread_cancel()` and `mccp_thread_wait()`, which look the
  thread up in a hash map.  Leaving the region is a cancellation point, and the
  thread may die with the mutex (`Orphaned`, which the run reaches).
  `HeldByTheLiving` says that nothing else is lost: no region's mutex, no read-write
  lock, and no mutex at all in a program that does not nest so.
* `rwl_use`: readers use the read-write lock all plainly or all critically.
* `mtx_use`: a mutex whose condition is waited for is not used critically.

`mtx_kind`, `writer_kind` are history: how the present owner took the lock.
`Fork` leaves one thread in a child whose other lock owners do not exist.

### Hash map: `Map`, `Hash`, `HashMap`

`Hash` is the table of `hash.c`: chains, growth by a factor, the three kinds of
keys (`KeyLen`; `KeyOf` is what tells two keys apart) and the two ways from hash to
bucket.  `HashMap` puts it behind the read-write lock of `Locks`, every call in a critical region; the lookup
(`LookUp`) and what is done with it are two actions, so that only the lock keeps
others out in between.  `freed` and `twice` follow the values.  Its callers keep
to the manual: a value is in the map once, the functions without lock and the
destruction are used by one thread alone, nobody forks during a call.  `Map` is
the promise: a function from keys to values and one atomic step per call.

### Threads: `Thread`

One record and the pthreads that are started on it.  The start handshake (the
starter sleeps on `m_startup_cond` until the pthread has entered), the main
procedure, its two ways to end, `s_finalize()` with the finalize procedure under
`m_wait_lock`, the destruction by the pthread itself (autodelete), and the calls of
the creator's process are actions.  `ended`, `begun`, `last`, `before` are
history: how each run was left, which run a waiter found when it began.
A thread that is canceled inside the finalize procedure, or a caller canceled while it
waits, keeps `m_wait_lock` (`stuck`).

### Pipeline stage: `Stage`

`wpc[w]` is the place of each worker: before the gala, in the loop, in its
procedures, at the barrier, through it (`open`), asleep in the pause, awakened,
ending, off.  `cpc[c]` is the place of a caller, which holds `m_lock` from the first
step of a call to its last.  The workers read `m_do_loop`, `m_sg_lvl` and
`m_pause_requested` without a lock, so each read is of the current value.  A start may
fail after any number of workers.  `fatal` says that `mccp_exit_fatal()` was
called, by a late worker or by a wait whose count is wrong.

### The program: `Modules`, `Signals`, `System`

`Modules` is the module table with its operations on all modules (forwards until
the first error, backwards through all), one step per module, and the module threads of
`check/dummy-module.c`.  `Signals` is the thread in `sigwait()`, its mask and the
set it waits for, the handler table it reads without the lock, and
`mccp_signal()` with its notification.  `System` is `check/dummy-main.c`: the main thread takes
the modules through their life; a signal handler requests the shutdown and sleeps
until it is accepted; the destructors stop the signal thread and wait for it.

### Strings and numbers: `StrUtils`, `StrNumbers`

A behaviour of `StrUtils` is one call, a step one turn of a loop of the code, over
every text of a set.  `StrNumbers` is one step: from the text to the stored
integer, by prefix, digits and multiplier, through the range check, and through
the two 32-bit halves of the other build.  How many values a type has (`Words`) and
the bases of the multipliers (`Si`) are constants.  A character is a string; `"space"`
stands for any white space.  A caller that names the base names one of up to 16 digits.

What a text means is said apart from the parser: a sentence is a record of its
spaces, sign, prefix, digits, letter and `i`, `TextOf` writes it down, and `ValueOf`
is its number.  The sentences are those of `strutils.c:416` the code can read: a
multiplier is one letter with or without `i`, and `0b` is not read.  One text is left
out as it has two meanings: `0x` is the hex prefix, not zero with the multiplier `x`.

## 4. The runs

| Run | Instance | What it shows |
|---|---|---|
| `cbuffer_life` | 2 threads, 2 values, capacity 2 (3 slots), 12 index values, every operation but cancellation | `IsBoundedQueue`: every step of the buffer is a step of the FIFO queue or a stutter, across overflows; `IndicesAgree`; `ReadinessIsNotified` |
| `cbuffer_contention` | 3 threads, capacity 2, 8 index values, which 3 slots do not divide; cancellation; fair | `NoLostWakeup`, `JanitorOwnsLock`, `NobodyIsIgnored`, `ShutdownReleases`, also when the order of the values is lost |
| `gstate_all` | 2 threads, every operation and an invalid state, fair | `WaitersFollow` |
| `gstate_agree` | 3 threads, 2 levels, cancellation | `NobodyMissesAState`, `ReportsStayTrue`, `LevelIsAgreed`, `JanitorOwnsLock` |
| `qmuxer_life` | 1 poller, 2 poll objects, 2 queues of capacity 1, every operation, fair | `DropsOnlyInWindow`, `EventIsServed`, `ReportedSizeIsThere` |
| `locks_all` | 3 threads, every operation, all safe nestings | `EveryHoldCanBeClosed`, `ProtectedInRegions`, `HeldByTheLiving` |
| `hashmap_life` | 2 threads, 3 pointers to 2 different keys, 2 values, 3 kinds of keys | `IsMap`: the map is the abstract map; `TableIsWellFormed`, `FreedOnce` |
| `thread_life` | 2 callers, every operation, 2 starts, 5 calls, fair | `WaitSeesTheEnd`, `EndIsReported`, `FreedIsLeftAlone`, `NobodyOversleeps`, `WaitersReturn` |
| `stage_life` | 2 workers, 1 caller, every operation, 5 calls, fair | `EndIsTold`, `PausedIsQuiet`, `NothingIsLeft`, `ShutdownEnds` |
| `stage_pause` | the same, start, pause and resume | counterexample to `PauseIsReached`: a pause without a time limit need not return |
| `system_life` | 2 places for modules, 1 signal, 1 change of a handler, fair | `TheEndIsTold`, `ChangesAreSeen`, `TheProgramEnds`, `SystemTypeOK` |
| `strutils_all` | texts up to 4 letters of 5 kinds, arrays of 0 to 3 places; numbers of the grammar and all texts up to 3 of 10 characters | `InBounds`, `TokensAreTheRuns`, `QuotesHold`, `EscapingIsUndone`, `NumbersAreRead`, `EveryCallReturns` |

**Bounds.**  `IndexLimit` stands for 2^63; with 6 an overflow is reached in
every phase of a ring of three slots, with 4 the slots do not divide it.
Three threads are the least with which a wakeup can be stolen by a third one, or two
readers and a writer meet; capacity 2 lets an order be wrong, and capacity 1 makes
a queue full and empty at once after one step.  Two poll objects are the
least with which a scan can be interrupted between two visits.  The calls of a
thread or stage are counted (`Limit`): five reach create, start, wait, start
and get_result_code, the shortest way to take one run for another, and start,
pause, resume, shutdown and wait.  Two workers are the
least for a barrier that one of them does not reach.  The hash table starts
with one bucket and grows by four at its second entry; two of the keys collide
in it.  The integer types have 16, 64 and 4096 values and the multipliers are powers
of 3 and 4, so that every boundary of every type is passed by some text.

**Deadlock** is checked in the runs of buffer, global state, queue muxer, locks
and hash map.  In the other configurations the system really stops: a call
returns, the program exits, the bounded calls are used up.  As a parked thread
can be awakened spuriously, everybody waiting on everybody is not a deadlock for
TLC: `NoLostWakeup`, `NobodyMissesAState` and the liveness properties rule it out.

**Fairness.**  A thread that is able to run its locked section does so (weak
fairness of its steps), a timer that was started fires, a canceled thread runs
its cleanup handler.  That is what an operating system scheduler and a mutex give.
Clients are not fair: nobody has to put, poll, start or shut down anything, and
nobody is canceled fairly.  A canceled thread does not call again
(`ended`), so that others take the lock away from a thread only finitely often by
being canceled.  Two fairness conditions go further and are about the
user's procedures: a worker that asks for events again and again finds none at
last (strong fairness of `Batch(w, 0)`), and every main procedure returns or
acts on its cancellation.

**Where a property is qualified.**  `EventIsServed` excludes events dropped in the
window between the scan and the wait (`mccp_qmuxer.h:209-213` admits them), the
clearing of a full queue and queues that another poller polls too.
`ReportedSizeIsThere` is about a queue from which only the poller takes.
`ShutdownEnds` excludes a pause that is requested too, one that timed out included, for
which `stage_pause` has the counterexample; `EndIsTold` a clock that is set, or that has
not moved between two readings, during a wait (`ClockSteps`: `pipeline_stage.c:355` then
stops waiting early and the process ends in `mccp_exit_fatal()`). The properties of
`Thread` exclude records that were started with autodelete, which may be freed while the
starter wakes up, and assume with `TakeTurns` that no two callers start the record at
the same time. `WaitersReturn` and `NobodyOversleeps` exclude threads that died with
`m_wait_lock` (`Stuck`: every waiter sleeps for ever then). `EndIsReported` says of the
result code only that a caller set it, or that it is of a main procedure that returned,
the last one up to the run that was waited for or a later one: a canceled run stores no code, and after it
`mccp_thread_get_result_code()` answers with an older code or NOT_STARTED.
`HeldByTheLiving` excepts the mutex named above under Locks; `EveryHoldCanBeClosed` and
`ProtectedInRegions` are under the discipline named there. `InBounds` admits one start
more than `max` (`Room`), `QuotesHold` leaves out texts that end in an escaped mark, as
no document says what either call must do there. `TheProgramEnds` counts a process that
crashed in the handler table or was killed by a signal that is not blocked yet as ended,
and leaves out a signal that is noted between the last look at the flag and the state
STARTED.
Each is a hazard in `PROJECT.json`.

## 5. The proofs

The theorems hold for every value of the constants under the named assumptions:
model values are distinct from the members of the sets they extend, capacities and
counts are numbers, `IndexLimit` exceeds the slots, `Nestings` is within `SafeNestings`.  Every component has its type
invariant proved.

* `CBufferProofs`.  `IInv` joins the types, the bounds of the count
  (`CountInBounds`), no lost wakeup, the owner of the lock and that nobody is
  left in a destroyed buffer.  They depend on each other: a producer parks when the
  count is not below the capacity, which means full only because the count is
  bounded; a new buffer is empty, and nobody may be parked on the old one.
  `TypeCorrect`, `WakeupsAreNotLost` and `JanitorIsSound` follow, overflows
  included.  `OverflowIsHarmless` adds `SlotsDivideRange`: the indices agree with
  the count for ever and the exit branches are dead.  Its lemmas are about `%`:
  the slot of an adjusted index is the slot of the index.
  `ReadinessIsTold`: `ReadinessIsNotified` is inductive over the types, as a put
  notifies and whoever registers finds the buffer without the event.
  `BufferIsBoundedQueue` is the refinement under the same `SlotsDivideRange`: each step is
  a step of `BoundedQueue` or a stutter.  `RInv` adds to the above where a call stands
  (`CallsFit`) and that a closed buffer is empty (`ClosedIsEmpty`).  The abstract queue
  is a function of the indices (`Contents`), so what storing, fetching and clearing do to it
  follows from the slots being apart (`SlotsApart`), without induction.
* `GStateProofs`.  `IInv` (types, owner of the lock, nobody parked at a state that
  was reached) is inductive for any operations.  `ShutdownIsAgreed` and
  `ReportsAreTrue` assume that no client resets the state, and add that at most
  one thread waits for the acceptance of its request (`OneRequester`), that
  reported states are never above the current one and that everybody who
  learned of the shutdown learned its level.
* `QMuxerProofs`.  A sleeping poller misses nothing (`DropsOnlyInWindow`) is
  not inductive: it must be known of each queue from the moment the scan visits it.
  `NewsIsSeen` says so; `ScanIsDone` makes it a statement about all queues when
  the poller sleeps, and `InPollIsAlive` makes a notification reach a poller in its
  poll.  `OnlyTheWindowDrops` holds for any number of pollers, which may steal
  events and registrations from each other.
  `ReportsAreThere`: what a poll measured must hold from the visit of the queue to the return
  (`MeasuresHold`); nobody but the poller takes from the queue, and a poll that was
  canceled has no result that could be read (`NoResultYet`).
* `HashMapProofs`, the locks.  To the three properties `LocksInv` adds what the field
  holds: `Saved` says that a saved state is "enable" or the state of the thread's outer region,
  and `Use` who may share a field (writers exclude readers, readers are
  alike, the waiters of the condition were plain).  Without `SafeNestings` it is not inductive.
  `OwnersLive` has the exception of `HeldByTheLiving`: a mutex lost by a thread that
  held it plainly over a region.
* `HashMapProofs`, the hash map, for any number of threads, any keys and hash function.
  `IsHash` says where entries are, that no key has two and that they are counted.
  Each function of `Hash` keeps it and changes the set of entries as a plain set would
  change; for the walk and the rehash this is an induction over numbers, which also
  shows that the recursion behind them is defined.  `MapInv` joins a sound table, values
  that are in one place, and calls that fit: what a lookup found is still so when it
  is used (`CallsFit`), as a call at work has the lock or has no other call beside it
  (`Regions`), for which the invariant of the lock is needed.  `MapRefined` (`IsMap`) shows that each
  step is a step of `Map` or a stutter: `Image` is what a set of entries stands for, and adding,
  replacing and dropping an entry is adding, replacing and dropping a key.
  All assume `ShiftsSuffice`: with all keys in it a table is still indexed by bits
  that a hash has.  `hash.c` starts with four buckets and a shift of 28 and takes two
  bits off at each growth, so this is so up to 3 * 2^28 entries (with four times as many the
  shift would get negative).
* `ThreadProofs`.  `Orderly` says which places can be occupied together (who
  sleeps in the handshake, that at most one pthread is between its entry
  and the end of `s_finalize()`, that a destroyer is alone) and `Reported` ties result code and flags
  to the runs: every code is that of a main procedure that returned (`CodesAreTrue`,
  `ResultsFit`), and the cancel flag is that of the newest pthread while there is one
  (`FlagIsTrue`).  `WaitsAreHonest`, `ReportsAreOfTheRun` and `NobodyUsesFreed` assume
  `TakeTurns`; they break without it.  `SleepersAreWoken` adds `Awake`: unless a thread
  died with the lock, a record that is active has a living pthread that has still to notify, callers sleep in a wait only while it is
  active, and a starter only while its pthread has still to enter.  It is the safety core of
  `WaitersReturn`: no wakeup is lost, and what is left to fairness is that the pthread ends.
* `StageProofs`.  `PausedIsQuiet` needs that between the opening of the barrier
  and the status nobody can come back into the loop, and that there is
  one master; `NothingIsLeft` that a worker holds a lock only where its
  janitor is still to run.  Both hold for any number of workers and callers.
  `TheEndIsToldRight` assumes a steady clock (`~ClockSteps`).  Its invariant `CountInv` says what
  the counters count: the cardinalities of the workers of the present start that ended
  (`Finished`) and of those that were canceled (`Stopped`).  `HasBegun` keeps apart the
  workers a start has not reached yet, whose flags are those of an earlier run.
* `SystemProofs`, for any number of modules and signals.  What the program says at its
  end is spread over its whole life: the status of a module follows its thread
  (`StatusFits`), what is not registered is left alone, the operation under way is
  the one the main thread is at (`JobFits`), a wait without error has found the end of every
  module it went over (`WaitedFor`), and only the stop cancels (`OnlyStopCancels`).
* `StrUtilsProofs`.  `CallsStayInBounds`: the tokenizers and the unescaping
  stay in the text and in the caller's array, for texts and arrays of any length, but for
  the one start more than `max` that a quotation behind letters makes.
  `QuotationsHold` rests on `ScanInv`, what the scan has established behind it: only
  delimiters and marks were cut out (`CutsAreEnds`), every token ends where it
  should (`TokensEnd`), every letter is accounted for (`NothingIsLost`).
  `TokensAreFound` adds the order (`InOrder`) and that no run was passed over
  (`AllFound`); that the k-th token is the k-th run is then a bijection (`AscendingCount`).
  `UnescapingUndoes` compares what was copied with `Kept`, a recursive function: that it is
  defined for a text of any length is shown by induction over numbers (`LeastNumber`,
  `AllNumbers`), which follows from their order being well founded.
  `CallsAreBounded` is the safety core of `EveryCallReturns`: the letters left, six steps
  each, and the loops left at this letter get fewer with every step (`CallGoesOn`), so a call
  with k letters takes at most 6k + 5 steps (`CallsComeNearer`, an action property that no run
  needs beside `EveryCallReturns`).
  `NumbersAreReadRight` needs nothing but that a call was not made yet or has the result of
  one of the builds (`Called`); it is about what the operators compute.  `StoredHolds`: both
  builds store a number in the range of its type, from `Words[3] = Words[2] * Words[2]`, two
  halves to a word, and that the numbers of values are even.  `SentenceIsRead` takes a sentence
  apart from both ends: `SkipFront` and `TrimBehind` say that spaces there change nothing,
  `SignIsFound` and `CoreIsBased` that the sign and the prefix are found and what is behind
  them is left, `MultiplierIsFound` that the letter and the `i` are.  The hard place is what one
  part could be taken for by the next: a digit for a prefix, `0` and the letter `x` behind
  it for hex, an `i` for a digit (`NumberBegins`, `DigitFacts`).  `NumbersAssumption` and
  `ArgsAssumption` say that the widths fit each other and that the known texts are sentences.

Every safety invariant and action property of the runs is proved; the type invariants of the
other modules and `CallsComeNearer` are proved without a run of their own.  Model-checked only are
the liveness properties, as fairness and ENABLED are out of the prover's reach:
`NobodyIsIgnored`, `ShutdownReleases`, `WaitersFollow`, `EventIsServed`, `WaitersReturn`,
`ShutdownEnds`, `ChangesAreSeen`, `TheProgramEnds` and `EveryCallReturns`.

## 6. Where the code and its documents differ

One difference has a run of its own and is listed under "findings":
`pipeline_stage.c:955` says that all workers enter the barrier and one wakes the
caller of pause up; a worker that failed, was canceled or belongs to a stage that was started again
after a failed start has left its loop and never does (`stage_pause`).

The others were met while modelling.  The models follow the code; no property
claims what the code does not do here.

* `pipeline_stage.c:888` "must not happen": it does when the time measured for a
  worker (`pipeline_stage.c:355`) is zero or negative.
* `mccp_thread.h:142` "Wait for a thread finishes": a thread that is canceled
  between the pop of its cleanup handler and its finalize procedure (`thread.c:240`)
  is over with `m_wait_lock` held, and waits for it never end (`DiesInFinal`).
* `mccp_thread.h:117`: a second start during the handshake starts a second
  pthread instead of `ALREADY_EXISTS` (with `TakeTurns` FALSE).
* `mccp_module_apis.h:165`: a name is registered twice, as the search
  (`module.c:174`) reports nothing without a place for its result.
* `mccp_signal.h:20` calls `mccp_signal()` MT-safe; the signal thread reads the
  handler twice without the lock, which `-O0` of `mk/vars.mk.in:80` keeps, and may call NULL.
* `mccp_qmuxer.h:75` polls a queue writable; clearing a full queue
  (`cbuffer.c:248`) makes room and notifies no poller that waits for it.
* `cbuffer.c:51-57`: after an overflow of the write index the order of the
  values is kept only if the number of slots, one more than the capacity, divides
  2^63; else the read index is renumbered to another slot, and get may end the process.
  `cbuffer_contention` runs in such a ring, `OverflowIsHarmless` assumes the other kind.
* `cbuffer.c:319`, `mccp_cbuffer.h:117`: the "wait time" starts again at each wakeup.
* `gstate.c:179`, `mccp_gstate.h:98-104`: a shutdown that overtakes a waiter is
  reported as `OK`, not as `NOT_OPERATIONAL`; the caller must compare the state.
* `pipeline_worker.c:226`: so a worker that is started when a shutdown was already requested ends the process.
* `qmuxer.c:126`: a poll that failed, timed out or was canceled leaves its
  registrations on the queues; they point to a muxer that may be destroyed.
* `strutils.c:419`: the grammar has the binary prefix `0b`; the code refuses it and takes `\b` and `b`.
  It has several letters in a row as a multiplier; the code reads one, and `x`, `z` and `y` too.
* `strutils.c:1186-1190`: a text that ends with an escaped mark ends the search for
  the closing mark without a token; the quoted letters are lost.
* `strutils.c:1176`: a quotation right behind letters can write one start more than the array has places for.
* `thread.c:355`: a canceled run stores no result code; `mccp_thread_get_result_code()` answers `OK` with that of an earlier run.
* `module.c:661`: the time limit of the wait for all modules is measured from the last wait alone.
* `mccp_hashmap.h:87`: the type of an arbitrary key is documented in ints and used in bytes.

## 7. What is not modelled

* `logger.c` (output under one lock), `chrono.c`, `error.c`, `heapcheck.c`
  (conversions and texts without state of their own), the build files.
* Locks: the barrier stands in `Stage`, where it is used (`AtBarrier`,
  `BarrierOpens`); creation of objects with recursive or process-shared
  attributes and the checks of arguments are left out.
* Threads: fork handlers, NUMA and name settings, the set-up of the tables.
  Stage: the table of names; maintenance and scheduling, for which the sources hold
  only declarations.  Signal thread: fork handlers, the result `oldptr`.
* Modules: a stop procedure that fails (`module.c:305-317`); `dummy_module_stop()` only
  cancels the thread of its module, which does not fail.
* Hash map: the hash functions (a constant), custom key types, texts of
  statistics; a growth that finds no memory, which `hash.c:960` does not test; what a caller
  does with a value it found after the lock is gone, when another may delete and free it.
* Strings: floating point, booleans, readable forms of numbers.
* Everywhere: invalid arguments and failed allocations that return before they change
  state.
