----------------------------- MODULE Scheduler -----------------------------
(***************************************************************************)
(* The cooperative scheduler, scheduler.c: one thread, one static sched_t, *)
(* a table of tasks that sched_start scans once per tick, and a flag that  *)
(* the signal handler sets.  The program around it (the examples' main,    *)
(* the callbacks and the log hook) is the environment: it calls the API    *)
(* before sched_start, from the code the loop calls, and after the loop.   *)
(*                                                                         *)
(* The actions that model sched_start are the pieces of its body between   *)
(* two reads of millis() or two calls of foreign code, because time passes *)
(* and signals arrive between them.                                        *)
(***************************************************************************)
EXTENDS SchedTask

CONSTANTS Intervals,     \* interval_ms arguments of sched_add_task
          Priorities,    \* priority arguments of sched_add_task
          StartTime,     \* the uptime when the program starts
          MaxTime,       \* bound: the clock stops here
          CallbacksAdd   \* TRUE: callbacks and hooks may call sched_add_task

ASSUME IntervalsAssumption  == Intervals \subseteq Words
ASSUME PrioritiesAssumption == Priorities \subseteq 0 .. 255
ASSUME TimeAssumption       == StartTime \in Nat /\ MaxTime \in Nat
ASSUME AddsAssumption       == CallbacksAdd \in BOOLEAN

VARIABLES
  tasks,                \* the calloc'ed table, all zero when it is not allocated
  max_tasks,
  tasks_count,
  running,
  log_hook,             \* TRUE: a hook is set
  shutdown_requested,   \* set by handle_signal, never cleared
  pc,                   \* where the thread is
  i,                    \* the scan's index, from 1
  now_ms,               \* millis() at the start of the tick
  next_due_ms,
  start_ms,             \* millis() before the callback
  sleep_ms,             \* whole milliseconds in the argument of usleep
  clock,                \* the uptime in milliseconds, unwrapped
  \* History variables, read only by properties and by the wake-up time.
  now_at,               \* the unwrapped time of now_ms
  slept_at,             \* when usleep was called
  served                \* the entries whose callback was begun in this tick

sched   == << tasks, max_tasks, tasks_count, running, log_hook >>
locals  == << i, now_ms, next_due_ms, start_ms, sleep_ms >>
history == << now_at, slept_at, served >>
vars    == << sched, shutdown_requested, pc, locals, clock, history >>

Phases == { "idle", "ready", "check", "scan", "callback", "overrun", "hook",
            "sleep", "stopped" }

Init ==
  /\ tasks = [ k \in Slots |-> ZeroTask ]
  /\ max_tasks = 0
  /\ tasks_count = 0
  /\ running = FALSE
  /\ log_hook = FALSE
  /\ shutdown_requested = FALSE
  /\ pc = "idle"
  /\ i = 1
  /\ now_ms = 0
  /\ next_due_ms = UINT32_MAX
  /\ start_ms = 0
  /\ sleep_ms = 0
  /\ clock = StartTime
  /\ now_at = 0
  /\ slept_at = 0
  /\ served = {}

-----------------------------------------------------------------------------
\* The API around the loop

sched_init(n) ==
  /\ pc = "idle"
  /\ tasks' = [ k \in Slots |-> ZeroTask ]
  /\ max_tasks' = n
  /\ tasks_count' = 0
  /\ running' = FALSE
  /\ pc' = "ready"
  /\ UNCHANGED << log_hook, shutdown_requested, locals, clock, history >>

\* The loop is calling foreign code, which may call back into the API.
InForeignCode == pc \in { "callback", "hook" }

\* A call that finds the table full returns -1 and changes nothing.
sched_add_task(interval, prio) ==
  /\ pc = "ready" \/ (CallbacksAdd /\ InForeignCode)
  /\ tasks_count < max_tasks
  /\ tasks_count' = tasks_count + 1
  /\ tasks' = [ tasks EXCEPT ![tasks_count'] = AddedTask(interval, prio, clock) ]
  /\ UNCHANGED << max_tasks, running, log_hook, shutdown_requested, pc, locals,
                  clock, history >>

sched_set_log_hook(hook) ==
  /\ pc = "ready" \/ InForeignCode
  /\ log_hook' = hook
  /\ UNCHANGED << tasks, max_tasks, tasks_count, running, shutdown_requested,
                  pc, locals, clock, history >>

sched_stop ==
  /\ InForeignCode
  /\ running' = FALSE
  /\ UNCHANGED << tasks, max_tasks, tasks_count, log_hook, shutdown_requested,
                  pc, locals, clock, history >>

sched_destroy ==
  /\ pc \in { "ready", "stopped" }
  /\ tasks' = [ k \in Slots |-> ZeroTask ]
  /\ max_tasks' = 0
  /\ tasks_count' = 0
  /\ pc' = "idle"
  /\ UNCHANGED << running, log_hook, shutdown_requested, locals, clock, history >>

-----------------------------------------------------------------------------
\* sched_start

Enter ==
  /\ pc = "ready"
  /\ running' = TRUE
  /\ \E p \in Sortings(tasks, tasks_count) : tasks' = Rearranged(tasks, p)
  /\ pc' = "check"
  /\ UNCHANGED << max_tasks, tasks_count, log_hook, shutdown_requested, locals,
                  clock, now_at, slept_at, served >>

\* Variant with a bug: the running flag is tested in place of the signal's.
ShouldExit_WhenNotRunning == ~ running

sched_should_exit == shutdown_requested

BeginTick ==
  /\ pc = "check"
  /\ ~ sched_should_exit
  /\ now_ms' = millis(clock)
  /\ now_at' = clock
  /\ next_due_ms' = UINT32_MAX
  /\ i' = 1
  /\ served' = {}
  /\ pc' = "scan"
  /\ UNCHANGED << sched, shutdown_requested, start_ms, sleep_ms, clock,
                  slept_at >>

Leave ==
  /\ pc = "check"
  /\ sched_should_exit
  /\ pc' = "stopped"
  /\ UNCHANGED << sched, shutdown_requested, locals, clock, history >>

\* The task is due: its deadline is fixed and its callback entered.
RunTask ==
  /\ pc = "scan"
  /\ i =< tasks_count
  /\ IsDue(tasks[i], now_ms)
  /\ tasks' = [ tasks EXCEPT ![i] = WithDeadline(@) ]
  /\ start_ms' = millis(clock)
  /\ served' = served \cup { i }
  /\ pc' = "callback"
  /\ UNCHANGED << max_tasks, tasks_count, running, log_hook, shutdown_requested,
                  i, now_ms, next_due_ms, sleep_ms, clock, now_at, slept_at >>

SkipTask ==
  /\ pc = "scan"
  /\ i =< tasks_count
  /\ ~ IsDue(tasks[i], now_ms)
  /\ next_due_ms' = EarlierDue(tasks[i], now_ms, next_due_ms)
  /\ i' = i + 1
  /\ UNCHANGED << sched, shutdown_requested, pc, now_ms, start_ms, sleep_ms,
                  clock, history >>

\* The callback returns and the run is accounted to the task.
CallbackReturns ==
  /\ pc = "callback"
  /\ tasks' = [ tasks EXCEPT ![i] =
                  Accounted(@, now_ms, now_at, U32(millis(clock) - start_ms)) ]
  /\ start_ms' = 0
  /\ pc' = "overrun"
  /\ UNCHANGED << max_tasks, tasks_count, running, log_hook, shutdown_requested,
                  i, now_ms, next_due_ms, sleep_ms, clock, history >>

CheckOverrun ==
  /\ pc = "overrun"
  /\ tasks' = [ tasks EXCEPT ![i] = OverrunCounted(@, clock) ]
  /\ IF log_hook
     THEN pc' = "hook" /\ i' = i
     ELSE pc' = "scan" /\ i' = i + 1
  /\ UNCHANGED << max_tasks, tasks_count, running, log_hook, shutdown_requested,
                  now_ms, next_due_ms, start_ms, sleep_ms, clock, now_at,
                  slept_at, served >>

HookReturns ==
  /\ pc = "hook"
  /\ i' = i + 1
  /\ pc' = "scan"
  /\ UNCHANGED << sched, shutdown_requested, now_ms, next_due_ms, start_ms,
                  sleep_ms, clock, history >>

\* The argument of usleep: a product of uint32_t, in microseconds.
SleepMicros(due_ms) ==
  LET usleep_mul == IF due_ms = UINT32_MAX THEN 1 ELSE due_ms
  IN  U32(usleep_mul * 100)

\* Variant with a bug: the scan stops before the last entry.
EndTick_SkipsLast ==
  /\ pc = "scan"
  /\ i >= tasks_count
  /\ sleep_ms' = SleepMicros(next_due_ms) \div 1000
  /\ slept_at' = clock
  /\ pc' = "sleep"
  /\ UNCHANGED << sched, shutdown_requested, i, now_ms, next_due_ms, start_ms,
                  clock, now_at, served >>

EndTick ==
  /\ pc = "scan"
  /\ i > tasks_count
  /\ sleep_ms' = SleepMicros(next_due_ms) \div 1000
  /\ slept_at' = clock
  /\ pc' = "sleep"
  /\ UNCHANGED << sched, shutdown_requested, i, now_ms, next_due_ms, start_ms,
                  clock, now_at, served >>

\* The variables of the loop's body go out of scope with the iteration.
EndOfBody ==
  /\ i' = 1
  /\ now_ms' = 0
  /\ next_due_ms' = UINT32_MAX
  /\ sleep_ms' = 0
  /\ now_at' = 0
  /\ slept_at' = 0
  /\ served' = {}

\* usleep lasts at least as long as asked.  The end of the modelled time ends
\* a sleep that would outlast it.
Wake ==
  /\ pc = "sleep"
  /\ clock - slept_at >= sleep_ms \/ clock = MaxTime
  /\ pc' = "check"
  /\ EndOfBody
  /\ UNCHANGED << sched, shutdown_requested, start_ms, clock >>

-----------------------------------------------------------------------------
\* The environment

\* A signal sets the flag wherever the thread is, and interrupts usleep.
handle_signal ==
  /\ pc # "idle"
  /\ shutdown_requested' = TRUE
  /\ IF pc = "sleep"
     THEN pc' = "check" /\ EndOfBody
     ELSE UNCHANGED << pc, i, now_ms, next_due_ms, sleep_ms, now_at, slept_at,
                       served >>
  /\ UNCHANGED << sched, start_ms, clock >>

TimePasses ==
  /\ clock < MaxTime
  /\ clock' = clock + 1
  /\ UNCHANGED << sched, shutdown_requested, pc, locals, history >>

Loop == \/ BeginTick \/ Leave \/ RunTask \/ SkipTask \/ CallbackReturns
        \/ CheckOverrun \/ HookReturns \/ EndTick \/ Wake

Next ==
  \/ \E n \in 0 .. MaxTasks : sched_init(n)
  \/ \E interval \in Intervals, prio \in Priorities : sched_add_task(interval, prio)
  \/ \E hook \in BOOLEAN : sched_set_log_hook(hook)
  \/ sched_stop
  \/ sched_destroy
  \/ Enter
  \/ Loop
  \/ handle_signal
  \/ TimePasses

\* The thread inside sched_start is scheduled, the callbacks and the hook return,
\* and the clock goes on: without the last a sleep would not end.
Fairness == WF_vars(Loop) /\ WF_vars(TimePasses)

Spec == Init /\ [][Next]_vars /\ Fairness

-----------------------------------------------------------------------------
\* Properties

\* Every variable keeps its C type, and the table holds no more than max_tasks.
TypeOK ==
  /\ tasks \in [Slots -> Task]
  /\ max_tasks \in 0 .. MaxTasks
  /\ tasks_count \in 0 .. max_tasks
  /\ running \in BOOLEAN
  /\ log_hook \in BOOLEAN
  /\ shutdown_requested \in BOOLEAN
  /\ pc \in Phases
  /\ i \in 1 .. MaxTasks + 1
  /\ now_ms \in Words
  /\ next_due_ms \in Words
  /\ start_ms \in Words
  /\ sleep_ms \in Nat
  /\ clock \in Nat
  /\ now_at \in Nat
  /\ slept_at \in Nat
  /\ served \subseteq Slots

InLoop == pc \in Phases \ { "idle", "ready", "stopped" }

Entries == 1 .. tasks_count

\* A callback is entered only when its interval has really passed since the tick
\* of its previous run, whatever the wrapping of the 32-bit counter does to the
\* subtraction of line 71.
NoEarlyRun ==
  pc = "callback" => now_at - tasks[i].last_run_at >= tasks[i].interval_ms

Due(k) == tasks[k].last_run_at + tasks[k].interval_ms

\* The entries that the scan passed over.  A wait of WORD or more is misread.
PassedBy == { k \in Entries \ served : now_at - tasks[k].last_run_at < WORD }

\* The sleep begins after the callbacks, but its length was found from the time of the
\* tick: it is a tenth of the shortest wait of the entries passed over (scheduler.c:97-111).
\* So it makes one of them late only if the callbacks and the hook took more than nine
\* tenths of its wait, wherever the counter wraps.  Of those that ran in the tick the
\* length knows nothing: see SleepsUntilDue.
SleepSparesWaiting ==
  pc = "sleep" =>
    \A k \in PassedBy :
      10 * (slept_at - now_at) =< 9 * (Due(k) - now_at) => slept_at + sleep_ms =< Due(k)

\* The statistics of an entry fit together: a run overruns at most once, and the
\* average that sched_avg_ms returns is no more than the maximum.  Holds until
\* run_count wraps; the sum of the durations may.
StatisticsAgree ==
  \A k \in Entries :
    /\ tasks[k].overrun_count =< tasks[k].run_count
    /\ sched_avg_ms(tasks[k]) =< tasks[k].max_duration_ms

\* A signal ends sched_start, wherever it finds the loop.
ShutdownExits == (InLoop /\ shutdown_requested) ~> (pc = "stopped")

\* A task whose time has come is run, unless the loop is told to end.
DueTasksRun ==
  \A k \in Slots :
    (InLoop /\ k =< tasks_count
            /\ clock >= tasks[k].last_run_at + tasks[k].interval_ms)
      ~> ((pc = "callback" /\ i = k) \/ shutdown_requested)

-----------------------------------------------------------------------------
\* The scan implements the rounds of module Rounds, as long as the callbacks add no
\* tasks: however long they take and wherever the counter wraps, nobody is run
\* early or twice in a tick, or passed over while due.

InTick == pc \in { "scan", "callback", "overrun", "hook" }

RunState(k) ==
  CASE ~ InTick \/ k \notin served             -> "waiting"
    [] k = i /\ pc = "callback"               -> "running"
    [] k = i /\ pc \in { "overrun", "hook" }  -> "recorded"
    [] OTHER                                  -> "done"

Ticks == INSTANCE Rounds
  WITH looping  <- InLoop,
       in_tick  <- InTick,
       tick_at  <- IF InTick THEN now_at ELSE 0,
       count    <- tasks_count,
       interval <- [ k \in Slots |-> tasks[k].interval_ms ],
       last     <- [ k \in Slots |-> tasks[k].last_run_at ],
       run      <- [ k \in Slots |-> RunState(k) ],
       Horizon  <- WORD

ImplementsRounds == Ticks!Spec

-----------------------------------------------------------------------------
\* What the documentation says of the scheduler and the code does not do

\* sched_util.h: the tasks are sorted "in descending order of priority, ensuring
\* that higher-priority tasks are scheduled first".
HighPriorityFirst ==
  pc = "callback" =>
    \A k \in i + 1 .. tasks_count :
      IsDue(tasks[k], now_ms) => tasks[k].priority =< tasks[i].priority

\* scheduler.c:104: "Sleep until the next task is due".  No sleep goes on past a due
\* time.  An entry that ran in the tick is due again at its next interval and does not
\* enter next_due_ms.
SleepsUntilDue ==
  pc = "sleep" /\ sleep_ms > 0 => \A k \in Entries : slept_at + sleep_ms =< Due(k)
=============================================================================
