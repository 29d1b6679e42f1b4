----------------------------- MODULE SchedTask -----------------------------
(***************************************************************************)
(* The task record shared by the two schedulers of RJOS (scheduler.c and   *)
(* scheduler_pt.c declare the same sched_task_t) and the arithmetic both   *)
(* perform on it.  All times are uint32_t milliseconds: WORD stands for    *)
(* 2^32 and is small in the model-checked instances, so that the counter   *)
(* returned by millis() wraps within a few steps.                          *)
(*                                                                         *)
(* The field last_run_at is not in the code: it is the unwrapped time of   *)
(* which last_run_ms keeps the low word, and only properties read it.      *)
(***************************************************************************)
EXTENDS Integers

CONSTANTS WORD,      \* 2^32: the modulus of uint32_t
          MaxTasks   \* the largest max_tasks given to sched_init

ASSUME WordAssumption  == WORD \in Nat \ {0, 1}
ASSUME TasksAssumption == MaxTasks \in Nat

Slots == 1 .. MaxTasks
Words == 0 .. WORD - 1

U32(x)     == x % WORD
UINT32_MAX == WORD - 1

\* The low word of the uptime in milliseconds.
millis(clock) == U32(clock)

Task == [ callback          : BOOLEAN,    \* FALSE: the pointer is still NULL
          interval_ms       : Words,
          last_run_ms       : Words,
          priority          : 0 .. 255,
          run_count         : Words,
          total_duration_ms : Words,
          max_duration_ms   : Words,
          deadline_ms       : Words,
          overrun_count     : Words,
          last_run_at       : Nat ]

\* An entry of the table as calloc leaves it.
ZeroTask == [ callback          |-> FALSE,
              interval_ms       |-> 0,
              last_run_ms       |-> 0,
              priority          |-> 0,
              run_count         |-> 0,
              total_duration_ms |-> 0,
              max_duration_ms   |-> 0,
              deadline_ms       |-> 0,
              overrun_count     |-> 0,
              last_run_at       |-> 0 ]

\* An entry as sched_add_task fills it: its first interval starts now.
AddedTask(interval, prio, clock) ==
  [ ZeroTask EXCEPT !.callback    = TRUE,
                    !.interval_ms = interval,
                    !.last_run_ms = millis(clock),
                    !.priority    = prio,
                    !.last_run_at = clock ]

-----------------------------------------------------------------------------
\* Due times

Elapsed(task, now_ms) == U32(now_ms - task.last_run_ms)

\* Variant with a bug: compares points in time, not the distance between them.
IsDue_ByDeadline(task, now_ms) ==
  U32(task.last_run_ms + task.interval_ms) =< now_ms

IsDue(task, now_ms) == Elapsed(task, now_ms) >= task.interval_ms

\* Variant with a bug: keeps the latest due time instead of the earliest.
LaterDue(task, now_ms, next_due_ms) ==
  LET diff_ms == task.interval_ms - Elapsed(task, now_ms)
  IN  IF next_due_ms = UINT32_MAX \/ diff_ms > next_due_ms
      THEN diff_ms ELSE next_due_ms

\* next_due_ms after the loop has seen a task that is not due.
EarlierDue(task, now_ms, next_due_ms) ==
  LET diff_ms == task.interval_ms - Elapsed(task, now_ms)
  IN  IF diff_ms < next_due_ms THEN diff_ms ELSE next_due_ms

\* Variant with a bug: the deadline is computed in a wider integer.
WithDeadline_Wide(task) ==
  [ task EXCEPT !.deadline_ms = task.last_run_ms + task.interval_ms ]

\* The deadline of the run that is about to begin.
WithDeadline(task) ==
  [ task EXCEPT !.deadline_ms = U32(task.last_run_ms + task.interval_ms) ]

-----------------------------------------------------------------------------
\* Statistics

\* Variant with a bug: the maximum is replaced by the latest duration.
Accounted_LastDuration(task, now_ms, now_at, duration) ==
  [ task EXCEPT !.last_run_ms       = now_ms,
                !.run_count         = U32(@ + 1),
                !.total_duration_ms = U32(@ + duration),
                !.max_duration_ms   = duration,
                !.last_run_at       = now_at ]

\* The bookkeeping after a callback: now_ms is the time the tick began.
Accounted(task, now_ms, now_at, duration) ==
  [ task EXCEPT !.last_run_ms       = now_ms,
                !.run_count         = U32(@ + 1),
                !.total_duration_ms = U32(@ + duration),
                !.max_duration_ms   = IF duration > @ THEN duration ELSE @,
                !.last_run_at       = now_at ]

\* Variant with a bug: a run that ends on its deadline counts as late.
Overran_OnTime(task, clock) == millis(clock) >= task.deadline_ms

Overran(task, clock) == millis(clock) > task.deadline_ms

OverrunCounted(task, clock) ==
  IF Overran(task, clock)
  THEN [ task EXCEPT !.overrun_count = U32(@ + 1) ]
  ELSE task

sched_avg_ms(task) ==
  IF task.run_count # 0 THEN task.total_duration_ms \div task.run_count ELSE 0

-----------------------------------------------------------------------------
\* Priorities

sched_task_cmp(a, b) ==
  CASE a.priority < b.priority -> -1
    [] a.priority > b.priority -> 1
    [] OTHER -> 0

\* The ways qsort, which is not stable, may rearrange the first count entries.
Sortings(tasks, count) ==
  { p \in [Slots -> Slots] :
      /\ \A a, b \in Slots : a # b => p[a] # p[b]
      /\ \A a \in Slots : a > count => p[a] = a
      /\ \A a, b \in 1 .. count :
           a < b => sched_task_cmp(tasks[p[a]], tasks[p[b]]) =< 0 }

Rearranged(tasks, p) == [ k \in Slots |-> tasks[p[k]] ]
=============================================================================
