---------------------------- MODULE SchedulerPt ----------------------------
(***************************************************************************)
(* The threaded scheduler, scheduler_pt.c.  In every tick the thread       *)
(* inside sched_start creates one worker thread per task that is due, then *)
(* joins them all.  Workers and scan share the task table under            *)
(* sched_mutex; log_hook and shutdown_requested are read without it.       *)
(*                                                                         *)
(* A worker is named by the index of its handle in worker_threads.  A      *)
(* critical section that calls no foreign code and reads the clock at most *)
(* once is one action, which needs the mutex free.                         *)
(***************************************************************************)
EXTENDS SchedTask, FiniteSets

CONSTANTS Intervals,      \* interval_ms arguments of sched_add_task
          Priorities,     \* priority arguments of sched_add_task
          StartTime,      \* the uptime when the program starts
          MaxTime,        \* bound: the clock stops here
          CreateMayFail,  \* TRUE: pthread_create and calloc may fail
          HookMayChange   \* TRUE: callbacks may call sched_set_log_hook

ASSUME IntervalsAssumption  == Intervals \subseteq Words
ASSUME PrioritiesAssumption == Priorities \subseteq 0 .. 255
ASSUME TimeAssumption       == StartTime \in Nat /\ MaxTime \in Nat
ASSUME FlagsAssumption      == CreateMayFail \in BOOLEAN /\ HookMayChange \in BOOLEAN

VARIABLES
  tasks,                \* the calloc'ed table, all zero when it is not allocated
  max_tasks,
  tasks_count,
  running,
  log_hook,             \* TRUE: a hook is set
  shutdown_requested,   \* set by handle_signal, never cleared
  mutex,                \* sched_mutex: the worker that holds it, or Unlocked
  pc,                   \* where the thread that runs sched_start is
  i,                    \* the index of the loop it is in, from 1
  now_ms,               \* millis() at the start of the tick
  next_due_ms,
  thread_count,
  handles,              \* the length of the array worker_threads
  sleep_ms,             \* whole milliseconds in the argument of usleep
  thread,               \* the worker threads, with their contexts and locals
  clock,                \* the uptime in milliseconds, unwrapped
  \* History variables, read only by properties and by the wake-up time.
  now_at,               \* the unwrapped time of now_ms
  slept_at,             \* when usleep was called
  started               \* threads created per entry

sched   == << tasks, max_tasks, tasks_count, running, log_hook >>
locals  == << i, now_ms, next_due_ms, thread_count, handles, sleep_ms >>
history == << now_at, slept_at, started >>
vars    == << sched, shutdown_requested, mutex, pc, locals, thread, clock, history >>

Unlocked == 0

Phases == { "idle", "ready", "check", "scan", "spawn", "join", "sleep",
            "stopped", "undefined" }

\* Where a worker is.  failed: the handle of a thread that was not created.
\* hooked: log_hook was found set and is about to be read again and called.
WorkerPhases == { "none", "deadline", "begin", "callback", "record", "locked",
                  "hooked", "inhook", "release", "ended", "joined", "failed" }

Thread == [ pc          : WorkerPhases,
            task        : 0 .. MaxTasks,   \* the index of the entry it runs
            now_ms      : Words,           \* ctx->now_ms
            start_ms    : Words,
            duration_ms : Words,
            now_at      : Nat,             \* history: the unwrapped ctx->now_ms
            due_at      : Nat ]            \* history: the unwrapped deadline

NoThread == [ pc |-> "none", task |-> 0, now_ms |-> 0, start_ms |-> 0,
              duration_ms |-> 0, now_at |-> 0, due_at |-> 0 ]

Init ==
  /\ tasks = [ k \in Slots |-> ZeroTask ]
  /\ max_tasks = 0
  /\ tasks_count = 0
  /\ running = FALSE
  /\ log_hook = FALSE
  /\ shutdown_requested = FALSE
  /\ mutex = Unlocked
  /\ pc = "idle"
  /\ i = 1
  /\ now_ms = 0
  /\ next_due_ms = UINT32_MAX
  /\ thread_count = 0
  /\ handles = 0
  /\ sleep_ms = 0
  /\ thread = [ s \in Slots |-> NoThread ]
  /\ clock = StartTime
  /\ now_at = 0
  /\ slept_at = 0
  /\ started = [ k \in Slots |-> 0 ]

-----------------------------------------------------------------------------
\* The API around the loop

\* Some worker is in a callback or in the hook, and may call the API.
InForeignCode ==
  pc # "undefined" /\ \E s \in Slots : thread[s].pc \in { "callback", "inhook" }

sched_init(n) ==
  /\ pc = "idle"
  /\ tasks' = [ k \in Slots |-> ZeroTask ]
  /\ max_tasks' = n
  /\ tasks_count' = 0
  /\ running' = FALSE
  /\ log_hook' = FALSE
  /\ pc' = "ready"
  /\ UNCHANGED << shutdown_requested, mutex, locals, thread, clock, history >>

\* A call that finds the table full returns -1 and changes nothing.
sched_add_task(interval, prio) ==
  /\ pc = "ready"
  /\ tasks_count < max_tasks
  /\ tasks_count' = tasks_count + 1
  /\ tasks' = [ tasks EXCEPT ![tasks_count'] = AddedTask(interval, prio, clock) ]
  /\ UNCHANGED << max_tasks, running, log_hook, shutdown_requested, mutex, pc,
                  locals, thread, clock, history >>

\* Takes no lock, whoever calls it.
sched_set_log_hook(hook) ==
  /\ pc = "ready" \/ (HookMayChange /\ InForeignCode)
  /\ log_hook' = hook
  /\ UNCHANGED << tasks, max_tasks, tasks_count, running, shutdown_requested,
                  mutex, pc, locals, thread, clock, history >>

sched_stop ==
  /\ InForeignCode
  /\ running' = FALSE
  /\ UNCHANGED << tasks, max_tasks, tasks_count, log_hook, shutdown_requested,
                  mutex, pc, locals, thread, clock, history >>

sched_destroy ==
  /\ pc \in { "ready", "stopped" }
  /\ tasks' = [ k \in Slots |-> ZeroTask ]
  /\ max_tasks' = 0
  /\ tasks_count' = 0
  /\ pc' = "idle"
  /\ UNCHANGED << running, log_hook, shutdown_requested, mutex, locals, thread,
                  clock, history >>

-----------------------------------------------------------------------------
\* sched_start

sort_tasks_by_priority ==
  \E p \in Sortings(tasks, tasks_count) : tasks' = Rearranged(tasks, p)

\* Without memory for the handles sched_start returns at once.
Enter ==
  /\ pc = "ready"
  /\ running' = TRUE
  /\ sort_tasks_by_priority
  /\ \/ pc' = "check" /\ handles' = tasks_count
     \/ CreateMayFail /\ pc' = "stopped" /\ UNCHANGED handles
  /\ started' = [ k \in Slots |-> 0 ]
  /\ UNCHANGED << max_tasks, tasks_count, log_hook, shutdown_requested, mutex, i,
                  now_ms, next_due_ms, thread_count, sleep_ms, thread, clock,
                  now_at, slept_at >>

\* Variant with a bug: the running flag is tested in place of the signal's.
ShouldExit_WhenNotRunning == ~ running

sched_should_exit == shutdown_requested

BeginTick ==
  /\ pc = "check"
  /\ ~ sched_should_exit
  /\ now_ms' = millis(clock)
  /\ now_at' = clock
  /\ next_due_ms' = UINT32_MAX
  /\ thread_count' = 0
  /\ i' = 1
  /\ pc' = "scan"
  /\ UNCHANGED << sched, shutdown_requested, mutex, handles, sleep_ms, thread,
                  clock, slept_at, started >>

Leave ==
  /\ pc = "check"
  /\ sched_should_exit
  /\ handles' = 0
  /\ pc' = "stopped"
  /\ UNCHANGED << sched, shutdown_requested, mutex, i, now_ms, next_due_ms,
                  thread_count, sleep_ms, thread, clock, history >>

\* One entry is looked at, under the mutex.
Scan ==
  /\ pc = "scan"
  /\ i =< tasks_count
  /\ mutex = Unlocked
  /\ IF IsDue(tasks[i], now_ms)
     THEN pc' = "spawn" /\ UNCHANGED << i, next_due_ms >>
     ELSE /\ next_due_ms' = EarlierDue(tasks[i], now_ms, next_due_ms)
          /\ i' = i + 1
          /\ UNCHANGED pc
  /\ UNCHANGED << sched, shutdown_requested, mutex, now_ms, thread_count, handles,
                  sleep_ms, thread, clock, history >>

\* Variant with a bug: the index is left on the entry that was just started.
TakeHandle_SameEntry(outcome) ==
  /\ pc = "spawn"
  /\ thread_count' = thread_count + 1
  /\ thread' = [ thread EXCEPT ![thread_count'] =
       [ NoThread EXCEPT !.pc     = outcome,
                         !.task   = i,
                         !.now_ms = now_ms,
                         !.now_at = now_at,
                         !.due_at = tasks[i].last_run_at + tasks[i].interval_ms ] ]
  /\ pc' = "scan"
  /\ UNCHANGED << sched, shutdown_requested, mutex, i, now_ms, next_due_ms, handles,
                  sleep_ms, clock, now_at, slept_at >>

\* A handle is taken and the loop goes on, whether or not the thread exists.
TakeHandle(outcome) ==
  /\ pc = "spawn"
  /\ thread_count' = thread_count + 1
  /\ thread' = [ thread EXCEPT ![thread_count'] =
       [ NoThread EXCEPT !.pc     = outcome,
                         !.task   = i,
                         !.now_ms = now_ms,
                         !.now_at = now_at,
                         !.due_at = tasks[i].last_run_at + tasks[i].interval_ms ] ]
  /\ i' = i + 1
  /\ pc' = "scan"
  /\ UNCHANGED << sched, shutdown_requested, mutex, now_ms, next_due_ms, handles,
                  sleep_ms, clock, now_at, slept_at >>

Spawn ==
  /\ TakeHandle("deadline")
  /\ started' = [ started EXCEPT ![i] = @ + 1 ]

SpawnFails ==
  /\ CreateMayFail
  /\ TakeHandle("failed")
  /\ UNCHANGED started

\* Variants with a bug: the joins skip the first handle, the scan the last entry.
EndScan_JoinsFromSecond ==
  /\ pc = "scan"
  /\ i > tasks_count
  /\ i' = 2
  /\ pc' = "join"
  /\ UNCHANGED << sched, shutdown_requested, mutex, now_ms, next_due_ms,
                  thread_count, handles, sleep_ms, thread, clock, history >>

EndScan_SkipsLast ==
  /\ pc = "scan"
  /\ i >= tasks_count
  /\ i' = 1
  /\ pc' = "join"
  /\ UNCHANGED << sched, shutdown_requested, mutex, now_ms, next_due_ms,
                  thread_count, handles, sleep_ms, thread, clock, history >>

EndScan ==
  /\ pc = "scan"
  /\ i > tasks_count
  /\ i' = 1
  /\ pc' = "join"
  /\ UNCHANGED << sched, shutdown_requested, mutex, now_ms, next_due_ms,
                  thread_count, handles, sleep_ms, thread, clock, history >>

Join ==
  /\ pc = "join"
  /\ i =< thread_count
  /\ thread[i].pc = "ended"
  /\ thread' = [ thread EXCEPT ![i].pc = "joined" ]
  /\ i' = i + 1
  /\ UNCHANGED << sched, shutdown_requested, mutex, pc, now_ms, next_due_ms,
                  thread_count, handles, sleep_ms, clock, history >>

\* The handle holds whatever was there before: pthread_join returns an error,
\* which the loop ignores, or the program's behaviour is undefined.
JoinNoThread ==
  /\ pc = "join"
  /\ i =< thread_count
  /\ thread[i].pc = "failed"
  /\ \/ i' = i + 1 /\ UNCHANGED pc
     \/ pc' = "undefined" /\ UNCHANGED i
  /\ UNCHANGED << sched, shutdown_requested, mutex, now_ms, next_due_ms,
                  thread_count, handles, sleep_ms, thread, clock, history >>

\* The argument of usleep, in microseconds.
SleepMicros(due_ms) == IF due_ms = UINT32_MAX THEN 1 ELSE due_ms

EndTick ==
  /\ pc = "join"
  /\ i > thread_count
  /\ sleep_ms' = SleepMicros(next_due_ms) \div 1000
  /\ slept_at' = clock
  /\ pc' = "sleep"
  /\ UNCHANGED << sched, shutdown_requested, mutex, i, now_ms, next_due_ms,
                  thread_count, handles, thread, clock, now_at, started >>

\* The variables of the loop's body go out of scope with the iteration.
EndOfBody ==
  /\ i' = 1
  /\ now_ms' = 0
  /\ next_due_ms' = UINT32_MAX
  /\ thread_count' = 0
  /\ sleep_ms' = 0
  /\ thread' = [ s \in Slots |->
       IF thread[s].pc \in { "joined", "failed" } THEN NoThread ELSE thread[s] ]
  /\ now_at' = 0
  /\ slept_at' = 0

\* usleep lasts at least as long as asked.  The end of the modelled time ends
\* a sleep that would outlast it.
Wake ==
  /\ pc = "sleep"
  /\ clock - slept_at >= sleep_ms \/ clock = MaxTime
  /\ pc' = "check"
  /\ EndOfBody
  /\ UNCHANGED << sched, shutdown_requested, mutex, handles, clock, started >>
-----------------------------------------------------------------------------
\* sched_task_thread, for the worker with handle s

\* Worker s is at from and goes on to to.
Moves(s, from, to) ==
  /\ pc # "undefined"
  /\ thread[s].pc = from
  /\ thread' = [ thread EXCEPT ![s].pc = to ]

\* A worker's step leaves the variables of sched_start alone.
MainUnchanged ==
  UNCHANGED << max_tasks, tasks_count, running, log_hook, shutdown_requested,
               locals, clock, history >>

SetDeadline(s) ==
  /\ Moves(s, "deadline", "begin")
  /\ mutex = Unlocked
  /\ tasks' = [ tasks EXCEPT ![thread[s].task] = WithDeadline(@) ]
  /\ UNCHANGED << mutex, pc >> /\ MainUnchanged

CallTask(s) ==
  /\ pc # "undefined"
  /\ thread[s].pc = "begin"
  /\ thread' = [ thread EXCEPT ![s].pc = "callback",
                               ![s].start_ms = millis(clock) ]
  /\ UNCHANGED << tasks, mutex, pc >> /\ MainUnchanged

TaskReturns(s) ==
  /\ pc # "undefined"
  /\ thread[s].pc = "callback"
  /\ thread' = [ thread EXCEPT
                   ![s].pc = "record",
                   ![s].start_ms = 0,
                   ![s].duration_ms = U32(millis(clock) - thread[s].start_ms) ]
  /\ UNCHANGED << tasks, mutex, pc >> /\ MainUnchanged

\* Variant with a bug: the mutex is given back before the overrun test and the hook.
Record_Unlocks(s) ==
  /\ Moves(s, "record", "locked")
  /\ mutex = Unlocked
  /\ tasks' = [ tasks EXCEPT ![thread[s].task] =
                  Accounted(@, thread[s].now_ms, thread[s].now_at,
                            thread[s].duration_ms) ]
  /\ UNCHANGED << mutex, pc >> /\ MainUnchanged

\* The second critical section begins; it lasts until Release.
Record(s) ==
  /\ Moves(s, "record", "locked")
  /\ mutex = Unlocked
  /\ mutex' = s
  /\ tasks' = [ tasks EXCEPT ![thread[s].task] =
                  Accounted(@, thread[s].now_ms, thread[s].now_at,
                            thread[s].duration_ms) ]
  /\ UNCHANGED pc /\ MainUnchanged

CheckOverrun(s) ==
  /\ Moves(s, "locked", IF log_hook THEN "hooked" ELSE "release")
  /\ tasks' = [ tasks EXCEPT ![thread[s].task] = OverrunCounted(@, clock) ]
  /\ UNCHANGED << mutex, pc >> /\ MainUnchanged

\* log_hook is read a second time to be called, and is not called twice the same
\* when it was changed meanwhile: a call through NULL is undefined.
CallHook(s) ==
  /\ \/ /\ log_hook
        /\ Moves(s, "hooked", "inhook")
        /\ UNCHANGED pc
     \/ /\ ~ log_hook
        /\ Moves(s, "hooked", "hooked")
        /\ pc' = "undefined"
  /\ UNCHANGED << tasks, mutex >> /\ MainUnchanged

HookReturns(s) ==
  /\ Moves(s, "inhook", "release")
  /\ UNCHANGED << tasks, mutex, pc >> /\ MainUnchanged

\* The mutex is unlocked, the context freed, and the thread ends.
Release(s) ==
  /\ Moves(s, "release", "ended")
  /\ mutex' = Unlocked
  /\ UNCHANGED << tasks, pc >> /\ MainUnchanged

-----------------------------------------------------------------------------
\* The environment

\* The flag is set wherever the threads are.  The thread that takes the signal
\* may be the one in usleep, which then returns, or another of the program's.
handle_signal ==
  /\ pc \notin { "idle", "undefined" }
  /\ shutdown_requested' = TRUE
  /\ \/ UNCHANGED << pc, i, now_ms, next_due_ms, thread_count, sleep_ms, thread,
                     now_at, slept_at >>
     \/ pc = "sleep" /\ pc' = "check" /\ EndOfBody
  /\ UNCHANGED << sched, mutex, handles, clock, started >>

TimePasses ==
  /\ clock < MaxTime
  /\ clock' = clock + 1
  /\ UNCHANGED << sched, shutdown_requested, mutex, pc, locals, thread, history >>

\* After undefined behaviour nothing more is said of the program.
Undefined == pc = "undefined" /\ UNCHANGED vars

-----------------------------------------------------------------------------
Main == \/ BeginTick \/ Leave \/ Scan \/ Spawn \/ SpawnFails \/ EndScan
        \/ Join \/ JoinNoThread \/ EndTick \/ Wake

Worker(s) == \/ SetDeadline(s) \/ CallTask(s) \/ TaskReturns(s) \/ Record(s)
             \/ CheckOverrun(s) \/ CallHook(s) \/ HookReturns(s) \/ Release(s)

Next ==
  \/ \E n \in 0 .. MaxTasks : sched_init(n)
  \/ \E interval \in Intervals, prio \in Priorities : sched_add_task(interval, prio)
  \/ \E hook \in BOOLEAN : sched_set_log_hook(hook)
  \/ sched_stop
  \/ sched_destroy
  \/ Enter
  \/ Main
  \/ \E s \in Slots : Worker(s)
  \/ handle_signal
  \/ TimePasses
  \/ Undefined

\* Every thread is scheduled, the callbacks and the hook return, and the clock goes
\* on.  Weak fairness is enough for the mutex too: in a tick each thread takes it
\* a bounded number of times, so it does not stay contended.
Fairness ==
  /\ WF_vars(Main)
  /\ \A s \in Slots : WF_vars(Worker(s))
  /\ WF_vars(TimePasses)

Spec == Init /\ [][Next]_vars /\ Fairness

-----------------------------------------------------------------------------
\* Properties

\* Every variable keeps its C type, and the table holds no more than max_tasks.
TypeOK ==
  /\ tasks \in [Slots -> Task]
  /\ max_tasks \in 0 .. MaxTasks
  /\ tasks_count \in 0 .. max_tasks
  /\ running \in BOOLEAN
  /\ log_hook \in BOOLEAN
  /\ shutdown_requested \in BOOLEAN
  /\ mutex \in 0 .. MaxTasks
  /\ pc \in Phases
  /\ i \in 1 .. MaxTasks + 1
  /\ now_ms \in Words
  /\ next_due_ms \in Words
  /\ thread_count \in 0 .. MaxTasks
  /\ handles \in 0 .. MaxTasks
  /\ sleep_ms \in Nat
  /\ thread \in [Slots -> Thread]
  /\ clock \in Nat
  /\ now_at \in Nat
  /\ slept_at \in Nat
  /\ started \in [Slots -> Nat]

InLoop == pc \in Phases \ { "idle", "ready", "stopped" }

Entries == 1 .. tasks_count

\* Worker s has been created and has not ended.
Live(s) == thread[s].pc \notin { "none", "ended", "joined", "failed" }

\* Worker s has not yet accounted for its run.
Unrecorded(s) == thread[s].pc \in { "deadline", "begin", "callback", "record" }

\* "Wait for all threads to finish before the next scheduler ticks": outside the
\* scan and the joins of the tick it was created in no worker is alive.
TickBarrier ==
  \A s \in Slots :
    Live(s) => /\ pc \in { "scan", "spawn", "join", "undefined" }
               /\ s =< thread_count
               /\ thread[s].now_at = now_at

\* No two threads ever run the same entry at the same time, so a callback needs
\* no lock of its own against itself.
OneWorkerPerTask ==
  \A s, t \in Slots :
    Live(s) /\ Live(t) /\ s # t => thread[s].task # thread[t].task

\* A thread is created for an entry only when its interval has really passed
\* since the tick of its previous run, whatever the wrapping of the counter does,
\* and that stays so until the run is recorded.
NoEarlyRun ==
  \A s \in Slots :
    Unrecorded(s) =>
      LET task == tasks[thread[s].task]
      IN  thread[s].now_at - task.last_run_at >= task.interval_ms

\* The handle written by pthread_create lies inside worker_threads, whose length
\* was fixed when the loop was entered.
HandlesInBounds == thread_count =< handles

\* No statistic is lost or counted twice, though several workers write the
\* table: what was started has been accounted for or is still to be, as far as a
\* counter of 32 bits can tell.
NoRunLost ==
  InLoop =>
    \A k \in Entries :
      LET pending == { s \in Slots : Unrecorded(s) /\ thread[s].task = k }
      IN  U32(started[k]) = U32(tasks[k].run_count + Cardinality(pending))

\* The log hook is never entered by two threads, whatever tasks they ran.
HookExclusive ==
  \A s, t \in Slots :
    thread[s].pc = "inhook" /\ thread[t].pc = "inhook" => s = t

\* An overrun is counted only for a run that is really late, and, as long as
\* millis() has not wrapped between the deadline and the test of line 85, for
\* each such run.
OverrunsAreLate ==
  [][ \A s \in Slots :
        CheckOverrun(s) =>
          LET k       == thread[s].task
              late    == clock > thread[s].due_at
              counted == tasks'[k].overrun_count # tasks[k].overrun_count
          IN  /\ counted => late
              /\ clock \div WORD = thread[s].due_at \div WORD => (late => counted) ]_vars

\* A signal ends sched_start, wherever it finds the loop and the workers.
ShutdownExits == (InLoop /\ shutdown_requested) ~> (pc = "stopped")

\* A task whose time has come gets a thread that calls it, or has called it and is
\* about to record the run, unless the loop is told to end.
DueTasksRun ==
  \A k \in Slots :
    (InLoop /\ k =< tasks_count
            /\ clock >= tasks[k].last_run_at + tasks[k].interval_ms)
      ~> \/ \E s \in Slots : /\ thread[s].pc \in { "callback", "record" }
                            /\ thread[s].task = k
         \/ shutdown_requested

-----------------------------------------------------------------------------
\* The threads implement the rounds of module Rounds: no interleaving of workers,
\* scan and joins shows a run that comes early, twice in a tick or outlasts it.

InTick == pc \in { "scan", "spawn", "join", "undefined" }

RunState(k) ==
  IF ~ InTick THEN "waiting"
  ELSE LET phases == { thread[s].pc : s \in { t \in Slots : thread[t].task = k } }
       IN  CASE phases \cap { "deadline", "begin", "callback", "record" } # {} -> "running"
             [] phases \cap { "locked", "hooked", "inhook", "release" } # {} -> "recorded"
             [] phases \cap { "ended", "joined", "failed" } # {} -> "done"
             [] OTHER -> "waiting"

Ticks == INSTANCE Rounds
  WITH looping  <- InLoop,
       in_tick  <- InTick,
       tick_at  <- IF InTick THEN now_at ELSE 0,
       count    <- tasks_count,
       interval <- [ k \in Slots |-> tasks[k].interval_ms ],
       last     <- [ k \in Slots |-> tasks[k].last_run_at ],
       run      <- [ k \in Slots |-> RunState(k) ],
       Horizon  <- WORD

ImplementsRounds == Ticks!Spec
=============================================================================
