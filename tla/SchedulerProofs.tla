-------------------------- MODULE SchedulerProofs --------------------------
(***************************************************************************)
(* The cooperative scheduler, for every word size, table size, set of      *)
(* intervals and length of time: type correctness whatever the callbacks   *)
(* do, and, when they add no tasks, that its steps are those of module     *)
(* Rounds.                                                                 *)
(***************************************************************************)
EXTENDS Scheduler, SchedTaskProofs

\* The loop body that handles an entry.
Serving == { "callback", "overrun", "hook" }

\* The phases in which the variables of the loop body have their values.
Body == Serving \union { "scan", "sleep" }

\* The entry that is handled is in the table, and those that were served lie behind it.
Scanning ==
  /\ pc \in Serving => i =< tasks_count /\ i \in served
  /\ pc = "scan" => \A k \in served : k < i
  /\ pc \in Serving => \A k \in served : k =< i

TInv == TypeOK /\ Scanning

\* Every wrapped time is the low word of its history variable, and in the body of the
\* loop no run is younger than the tick.
Times ==
  /\ \A k \in Slots : /\ tasks[k].last_run_ms = U32(tasks[k].last_run_at)
                      /\ tasks[k].last_run_at =< clock
  /\ pc \in Body => /\ now_at =< clock
                    /\ now_ms = U32(now_at)
                    /\ \A k \in Slots : tasks[k].last_run_at =< now_at

\* The scan has passed over entry k rightly: it is not due, and next_due_ms is no more
\* than what is left of its interval.
Spared(k) ==
  /\ ~ IsDue(tasks[k], now_ms)
  /\ next_due_ms =< tasks[k].interval_ms - Elapsed(tasks[k], now_ms)

PassedOver ==
  /\ pc \in Body => \A k \in Slots \ served : k < i /\ k =< tasks_count => Spared(k)
  /\ pc = "sleep" => i > tasks_count /\ sleep_ms = SleepMicros(next_due_ms) \div 1000

IInv == TInv /\ Times /\ PassedOver

-----------------------------------------------------------------------------
\* Type correctness

\* The program starts with well-typed variables.
LEMMA InitTInv == Init => TInv
<1> SUFFICES ASSUME Init PROVE TInv
  OBVIOUS
<1>1. tasks \in [Slots -> Task]
  BY ZeroTaskType DEF Init
<1>2. now_ms \in Words /\ next_due_ms \in Words /\ start_ms \in Words
  BY WordAssumption DEF Init, Words, UINT32_MAX
<1>3. /\ tasks_count \in 0 .. max_tasks /\ max_tasks \in 0 .. MaxTasks
      /\ i \in 1 .. MaxTasks + 1
  BY TasksAssumption DEF Init
<1>4. clock \in Nat /\ now_at \in Nat /\ slept_at \in Nat /\ sleep_ms \in Nat
  BY TimeAssumption DEF Init
<1> QED
  BY <1>1, <1>2, <1>3, <1>4 DEF Init, TInv, TypeOK, Scanning, Serving, Phases

\* What the loop is in the middle of survives a step that leaves the scan alone, or
\* that lets the table grow.
LEMMA ScanningKept ==
  ASSUME TInv, UNCHANGED << pc, i, served >>,
         tasks_count' \in Nat, tasks_count =< tasks_count' \/ pc \notin Serving
  PROVE  Scanning'
<1>1. tasks_count \in Nat /\ i \in Nat
  BY DEF TInv, TypeOK
<1> QED
  BY <1>1 DEF TInv, Scanning

\* Microseconds and milliseconds of the sleep are natural numbers.
LEMMA SleepType ==
  ASSUME NEW due \in Words
  PROVE  SleepMicros(due) \div 1000 \in Nat
<1> DEFINE micros == (IF due = UINT32_MAX THEN 1 ELSE due) * 100
<1>1. micros \in Nat
  BY WordAssumption DEF Words
<1>2. SleepMicros(due) \in Nat
  <2>1. SleepMicros(due) = U32(micros)
    BY DEF SleepMicros
  <2> HIDE DEF micros
  <2> QED
    BY <1>1, <2>1, DivMod, WordAssumption DEF Words
<1> QED
  BY <1>2

\* Every step keeps the types and the place in the scan.
LEMMA TInvStep ==
  ASSUME TInv, [Next]_vars
  PROVE  TInv'
<1> USE DEF TypeOK, Phases
<1>0. /\ TypeOK /\ Scanning /\ tasks_count \in 0 .. MaxTasks
      /\ 0 \in Words /\ UINT32_MAX \in Words
  BY WordAssumption, TasksAssumption DEF TInv, Words, UINT32_MAX
<1>1. ASSUME NEW n \in 0 .. MaxTasks, sched_init(n) PROVE TInv'
  <2>1. tasks' \in [Slots -> Task]
    BY <1>1, ZeroTaskType DEF sched_init
  <2>2. Scanning'
    BY <1>1 DEF sched_init, Scanning, Serving
  <2>3. max_tasks' \in 0 .. MaxTasks /\ tasks_count' \in 0 .. max_tasks'
    BY <1>1, TasksAssumption DEF sched_init
  <2> QED
    BY <1>0, <1>1, <2>1, <2>2, <2>3 DEF sched_init, locals, history, TInv
<1>2. ASSUME NEW interval \in Intervals, NEW prio \in Priorities,
             sched_add_task(interval, prio)
      PROVE  TInv'
  <2>1. AddedTask(interval, prio, clock) \in Task
    BY <1>0, AddedTaskType, IntervalsAssumption, PrioritiesAssumption
  <2>2. tasks' \in [Slots -> Task]
    BY <1>0, <1>2, <2>1 DEF sched_add_task
  <2>3. tasks_count' \in 0 .. max_tasks /\ tasks_count =< tasks_count'
    BY <1>0, <1>2 DEF sched_add_task
  <2>4. Scanning'
    BY <1>0, <1>2, <2>3, ScanningKept DEF sched_add_task, locals, history, TInv
  <2> QED
    BY <1>0, <1>2, <2>2, <2>3, <2>4 DEF sched_add_task, locals, history, TInv
<1>3. ASSUME NEW hook \in BOOLEAN, sched_set_log_hook(hook) PROVE TInv'
  BY <1>0, <1>3, ScanningKept DEF sched_set_log_hook, locals, history, TInv
<1>4. CASE sched_stop
  <2>1. Scanning'
    BY <1>0, <1>4, ScanningKept DEF sched_stop, locals, history, TInv
  <2> QED
    BY <1>0, <1>4, <2>1 DEF sched_stop, locals, history, TInv
<1>5. CASE sched_destroy
  BY <1>0, <1>5, ZeroTaskType, TasksAssumption
  DEF sched_destroy, locals, history, TInv, Scanning, Serving
<1>6. CASE Enter
  <2>1. tasks' \in [Slots -> Task]
    BY <1>0, <1>6, RearrangedType DEF Enter
  <2>2. Scanning'
    BY <1>6 DEF Enter, Scanning, Serving
  <2>3. /\ UNCHANGED << max_tasks, tasks_count, log_hook, shutdown_requested, locals >>
        /\ UNCHANGED << clock, now_at, slept_at, served >>
        /\ running' = TRUE /\ pc' = "check"
    BY <1>6 DEF Enter
  <2> QED
    BY <1>0, <2>1, <2>2, <2>3 DEF locals, TInv
<1>7. CASE BeginTick
  BY <1>0, <1>7, MillisType, TasksAssumption DEF BeginTick, sched, TInv, Scanning, Serving
<1>8. CASE Leave
  BY <1>0, <1>8 DEF Leave, sched, locals, history, TInv, Scanning, Serving
<1>9. CASE RunTask
  <2>1. i \in Slots
    BY <1>0, <1>9, TasksAssumption DEF RunTask, Slots
  <2>2. tasks' \in [Slots -> Task]
    BY <1>0, <1>9, <2>1, WithDeadlineType DEF RunTask
  <2>3. Scanning'
    BY <1>0, <1>9, <2>1 DEF RunTask, Scanning, Serving, Slots
  <2> QED
    BY <1>0, <1>9, <2>1, <2>2, <2>3, MillisType DEF RunTask, TInv
<1>10. CASE SkipTask
  <2>1. i \in Slots
    BY <1>0, <1>10, TasksAssumption DEF SkipTask, Slots
  <2>2. next_due_ms' \in Words
    BY <1>0, <1>10, <2>1, EarlierDueType DEF SkipTask
  <2>3. Scanning'
    BY <1>0, <1>10, <2>1, TasksAssumption DEF SkipTask, Scanning, Serving, Slots, history
  <2> QED
    BY <1>0, <1>10, <2>1, <2>2, <2>3, TasksAssumption
    DEF SkipTask, TInv, sched, history, Slots
<1>11. CASE CallbackReturns
  <2>1. i \in Slots
    BY <1>0, <1>11, TasksAssumption DEF CallbackReturns, Scanning, Serving, Slots
  <2>2. U32(millis(clock) - start_ms) \in Words
    BY <1>0, MillisType, WordArithmetic
  <2>3. Accounted(tasks[i], now_ms, now_at, U32(millis(clock) - start_ms)) \in Task
    BY <1>0, <2>1, <2>2, AccountedType
  <2>4. tasks' \in [Slots -> Task]
    BY <1>0, <1>11, <2>1, <2>3 DEF CallbackReturns
  <2>5. Scanning'
    BY <1>0, <1>11 DEF CallbackReturns, Scanning, Serving, history
  <2> QED
    BY <1>0, <1>11, <2>4, <2>5 DEF CallbackReturns, TInv, history
<1>12. CASE CheckOverrun
  <2>1. i \in Slots
    BY <1>0, <1>12, TasksAssumption DEF CheckOverrun, Scanning, Serving, Slots
  <2>2. OverrunCounted(tasks[i], clock) \in Task
    BY <1>0, <2>1, OverrunCountedType
  <2>3. tasks' \in [Slots -> Task]
    BY <1>0, <1>12, <2>1, <2>2 DEF CheckOverrun
  <2>4. Scanning'
    BY <1>0, <1>12, <2>1 DEF CheckOverrun, Scanning, Serving, Slots
  <2> QED
    BY <1>0, <1>12, <2>1, <2>3, <2>4, TasksAssumption DEF CheckOverrun, TInv, Slots
<1>13. CASE HookReturns
  <2>1. i \in Slots
    BY <1>0, <1>13, TasksAssumption DEF HookReturns, Scanning, Serving, Slots
  <2>2. Scanning'
    BY <1>0, <1>13, <2>1 DEF HookReturns, Scanning, Serving, Slots, history
  <2> QED
    BY <1>0, <1>13, <2>1, <2>2, TasksAssumption
    DEF HookReturns, TInv, Slots, sched, history
<1>14. CASE EndTick
  BY <1>0, <1>14, SleepType DEF EndTick, TInv, Scanning, Serving, sched
<1>15. CASE Wake
  BY <1>0, <1>15, TasksAssumption DEF Wake, EndOfBody, TInv, Scanning, Serving, sched
<1>16. CASE handle_signal
  <2>1. CASE pc = "sleep"
    BY <1>0, <1>16, <2>1, TasksAssumption
    DEF handle_signal, EndOfBody, TInv, Scanning, Serving, sched
  <2>2. CASE pc # "sleep"
    BY <1>0, <1>16, <2>2, ScanningKept DEF handle_signal, TInv, sched
  <2> QED
    BY <2>1, <2>2
<1>17. CASE TimePasses
  BY <1>0, <1>17, ScanningKept DEF TimePasses, TInv, sched, locals, history
<1>18. CASE UNCHANGED vars
  BY <1>0, <1>18, ScanningKept DEF vars, TInv, sched, locals, history
<1> QED
  BY <1>1, <1>2, <1>3, <1>4, <1>5, <1>6, <1>7, <1>8, <1>9, <1>10, <1>11, <1>12, <1>13,
     <1>14, <1>15, <1>16, <1>17, <1>18 DEF Next, Loop

\* TInv is an invariant of the specification, whatever the callbacks call.
LEMMA SpecTInv == Spec => []TInv
BY InitTInv, TInvStep, PTL DEF Spec

\* The fields of sched_t and the locals of sched_start keep their types, also when
\* callbacks add tasks, and the table never holds more than max_tasks.
THEOREM CoopTypes == Spec => []TypeOK
<1>1. TInv => TypeOK
  BY DEF TInv
<1> QED
  BY <1>1, SpecTInv, PTL

-----------------------------------------------------------------------------
\* The invariant of the scan

\* Entry k keeps what the scan looks at.
Same(k) ==
  /\ tasks'[k].interval_ms = tasks[k].interval_ms
  /\ tasks'[k].last_run_ms = tasks[k].last_run_ms
  /\ tasks'[k].last_run_at = tasks[k].last_run_at

\* An entry that was passed over rightly stays so while next_due_ms only falls.
LEMMA SparedKept ==
  ASSUME NEW k \in Slots, Same(k), tasks[k] \in Task, now_ms \in Words, now_ms' = now_ms,
         next_due_ms \in Words, next_due_ms' \in Words, next_due_ms' =< next_due_ms,
         Spared(k)
  PROVE  Spared(k)'
<1>1. /\ Elapsed(tasks[k], now_ms) \in Words /\ tasks[k].interval_ms \in Words
      /\ Elapsed(tasks[k], now_ms)' = Elapsed(tasks[k], now_ms)
  BY WordArithmetic DEF Elapsed, Same, Task
<1>2. IsDue(tasks[k], now_ms)' = IsDue(tasks[k], now_ms)
  BY DEF IsDue, Elapsed, Same
<1> QED
  BY <1>1, <1>2, WordAssumption DEF Spared, Same, Words

\* The entry that SkipTask passes over is spared, and next_due_ms falls.
LEMMA SkipSpares ==
  ASSUME NEW task \in Task, NEW ms \in Words, NEW due \in Words, ~ IsDue(task, ms)
  PROVE  /\ EarlierDue(task, ms, due) =< due
         /\ EarlierDue(task, ms, due) =< task.interval_ms - Elapsed(task, ms)
<1>1. Elapsed(task, ms) \in Words /\ task.interval_ms \in Words
  BY WordArithmetic DEF Elapsed, Task
<1> QED
  BY <1>1, WordAssumption DEF EarlierDue, Words

\* Before a tick everything but the low words is trivial.
LEMMA OutsideStep ==
  ASSUME pc' \notin Body,
         \A k \in Slots : /\ tasks'[k].last_run_ms = U32(tasks'[k].last_run_at)
                          /\ tasks'[k].last_run_at =< clock'
  PROVE  Times' /\ PassedOver'
BY DEF Times, PassedOver, Body

\* A step that neither moves the scan nor touches the table, and at most lets time pass.
LEMMA QuietStep ==
  ASSUME IInv, clock' \in Nat, clock =< clock',
         UNCHANGED << tasks, tasks_count, pc, i, now_ms, next_due_ms, sleep_ms, now_at,
                      served >>
  PROVE  Times' /\ PassedOver'
<1>1. /\ clock \in Nat /\ now_at \in Nat /\ \A k \in Slots : tasks[k].last_run_at \in Nat
  BY DEF IInv, TInv, TypeOK, Task
<1>2. Times'
  BY <1>1 DEF IInv, Times
<1>3. PassedOver'
  BY DEF IInv, PassedOver, Spared
<1> QED
  BY <1>2, <1>3

\* Every step keeps the invariant, if callbacks and hook add no tasks.
LEMMA IInvStep ==
  ASSUME ~ CallbacksAdd, IInv, [Next]_vars
  PROVE  IInv'
<1>0. /\ TypeOK /\ Scanning /\ Times /\ PassedOver
      /\ tasks \in [Slots -> Task] /\ tasks_count \in 0 .. MaxTasks
      /\ clock \in Nat /\ now_at \in Nat /\ i \in Nat /\ now_ms \in Words
      /\ next_due_ms \in Words /\ served \subseteq Slots
  <2>1. /\ TypeOK /\ Scanning /\ Times /\ PassedOver
    BY DEF IInv, TInv
  <2>2. tasks_count \in 0 .. MaxTasks /\ i \in Nat
    BY <2>1, TasksAssumption DEF TypeOK
  <2> QED
    BY <2>1, <2>2 DEF TypeOK
<1>t. TInv'
  BY TInvStep DEF IInv
<1>n. /\ next_due_ms' \in Words /\ tasks' \in [Slots -> Task] /\ served' \subseteq Slots
  BY <1>t DEF TInv, TypeOK
<1>z. ZeroTask.last_run_at = 0 /\ ZeroTask.last_run_ms = U32(0)
  BY ModSmall, WordAssumption DEF ZeroTask, Words
<1>s. \A k \in Slots : k \in Nat /\ tasks[k].last_run_at \in Nat
  BY <1>0 DEF Slots, Task
<1>g. SUFFICES Times' /\ PassedOver'
  BY <1>t DEF IInv
<1>1. ASSUME NEW n \in 0 .. MaxTasks, sched_init(n) PROVE Times' /\ PassedOver'
  BY <1>0, <1>1, <1>z, OutsideStep DEF sched_init, Body, Serving
<1>2. ASSUME NEW interval \in Intervals, NEW prio \in Priorities,
             sched_add_task(interval, prio)
      PROVE  Times' /\ PassedOver'
  <2> DEFINE added == AddedTask(interval, prio, clock)
  <2>1. added.last_run_at = clock /\ added.last_run_ms = U32(clock)
    BY <1>0, AddedTaskType, IntervalsAssumption, PrioritiesAssumption
  <2> HIDE DEF added
  <2>2. /\ tasks' = [ tasks EXCEPT ![tasks_count'] = added ]
        /\ clock' = clock /\ pc' = "ready"
    BY <1>2 DEF sched_add_task, added
  <2>3. \A k \in Slots : /\ tasks'[k].last_run_ms = U32(tasks'[k].last_run_at)
                         /\ tasks'[k].last_run_at =< clock'
    BY <1>0, <2>1, <2>2 DEF Times
  <2> QED
    BY <2>2, <2>3, OutsideStep DEF Body, Serving
<1>3. ASSUME NEW hook \in BOOLEAN, sched_set_log_hook(hook)
      PROVE  Times' /\ PassedOver'
  BY <1>0, <1>3, QuietStep DEF sched_set_log_hook, locals, history
<1>4. CASE sched_stop
  BY <1>0, <1>4, QuietStep DEF sched_stop, locals, history
<1>5. CASE sched_destroy
  BY <1>0, <1>5, <1>z, OutsideStep DEF sched_destroy, Body, Serving
<1>6. CASE Enter
  <2>1. PICK p \in Sortings(tasks, tasks_count) : tasks' = Rearranged(tasks, p)
    BY <1>6 DEF Enter
  <2>2. \A k \in Slots : p[k] \in Slots /\ tasks'[k] = tasks[p[k]]
    BY <1>0, <2>1, RearrangedType
  <2>3. clock' = clock /\ pc' = "check"
    BY <1>6 DEF Enter
  <2> QED
    BY <1>0, <2>2, <2>3, OutsideStep DEF Body, Serving, Times
<1>7. CASE BeginTick
  <2>1. /\ tasks' = tasks /\ clock' = clock /\ now_at' = clock /\ now_ms' = U32(clock)
        /\ served' = {} /\ i' = 1 /\ pc' = "scan"
    BY <1>7 DEF BeginTick, sched, millis
  <2>2. Times'
    BY <1>0, <2>1 DEF Times
  <2> QED
    BY <1>s, <2>1, <2>2 DEF PassedOver, Slots
<1>8. CASE Leave
  BY <1>0, <1>8, OutsideStep DEF Leave, sched, locals, history, Body, Serving, Times
<1>9. CASE RunTask
  <2>1. /\ i \in Slots /\ pc = "scan" /\ pc' = "callback" /\ served' = served \union { i }
        /\ tasks' = [ tasks EXCEPT ![i] = WithDeadline(tasks[i]) ]
        /\ UNCHANGED << tasks_count, i, now_ms, next_due_ms, clock, now_at >>
    BY <1>0, <1>9, TasksAssumption DEF RunTask, Slots, TypeOK
  <2>2. \A k \in Slots : Same(k)
    BY <1>0, <2>1, WithDeadlineType DEF Same
  <2>3. Times'
    BY <1>0, <2>1, <2>2 DEF Times, Same, Body
  <2>4. PassedOver'
    <3> SUFFICES ASSUME NEW k \in Slots, k \notin served, k < i, k =< tasks_count
                 PROVE  Spared(k)'
      BY <2>1 DEF PassedOver
    <3>1. Spared(k)
      BY <1>0, <2>1 DEF PassedOver, Body
    <3> QED
      BY <1>0, <1>n, <2>1, <2>2, <3>1, SparedKept, WordAssumption DEF Words
  <2> QED
    BY <2>3, <2>4
<1>10. CASE SkipTask
  <2>1. /\ i \in Slots /\ pc = "scan" /\ pc' = "scan" /\ i' = i + 1
        /\ ~ IsDue(tasks[i], now_ms)
        /\ next_due_ms' = EarlierDue(tasks[i], now_ms, next_due_ms)
        /\ UNCHANGED << tasks, tasks_count, now_ms, clock, now_at, served >>
    BY <1>0, <1>10, TasksAssumption DEF SkipTask, Slots, TypeOK, sched, history
  <2>2. /\ next_due_ms' =< next_due_ms
        /\ next_due_ms' =< tasks[i].interval_ms - Elapsed(tasks[i], now_ms)
    BY <1>0, <2>1, SkipSpares
  <2>3. Times'
    BY <1>0, <2>1 DEF Times, Body
  <2>4. PassedOver'
    <3> SUFFICES ASSUME NEW k \in Slots, k \notin served, k < i + 1, k =< tasks_count
                 PROVE  Spared(k)'
      BY <2>1 DEF PassedOver
    <3>1. CASE k = i
      BY <2>1, <2>2, <3>1 DEF Spared
    <3>2. CASE k # i
      <4>1. Spared(k)
        BY <1>0, <1>s, <2>1, <3>2 DEF PassedOver, Body
      <4> QED
        BY <1>0, <1>n, <2>1, <2>2, <4>1, SparedKept DEF Same
    <3> QED
      BY <3>1, <3>2
  <2> QED
    BY <2>3, <2>4
<1>11. ASSUME i \in Slots, pc \in Serving, pc' \in Serving \union { "scan" },
              pc # "callback" => Same(i),
              pc = "callback" => /\ tasks'[i].last_run_at = now_at
                                 /\ tasks'[i].last_run_ms = now_ms,
              pc' # "callback", i' \in { i, i + 1 },
              \A k \in Slots : k # i => tasks'[k] = tasks[k],
              UNCHANGED << tasks_count, now_ms, next_due_ms, clock, now_at, served >>
       PROVE  Times' /\ PassedOver'
  <2>1. i \in served
    BY <1>0, <1>11 DEF Scanning
  <2>2. Times'
    BY <1>0, <1>11 DEF Times, Same, Body
  <2>3. PassedOver'
    <3> SUFFICES ASSUME NEW k \in Slots, k \notin served, k < i', k =< tasks_count
                 PROVE  Spared(k)'
      BY <1>11 DEF PassedOver, Serving
    <3>1. k # i /\ k < i
      BY <1>0, <1>s, <1>11, <2>1
    <3>2. Spared(k)
      BY <1>0, <1>11, <3>1 DEF PassedOver, Body
    <3> QED
      BY <1>0, <1>11, <3>1, <3>2 DEF Spared
  <2> QED
    BY <2>2, <2>3
<1>c. pc \in Serving => i \in Slots
  BY <1>0, TasksAssumption DEF Scanning, Slots, TypeOK
<1>12. CASE CallbackReturns
  <2>1. i \in Slots /\ U32(millis(clock) - start_ms) \in Words
    BY <1>0, <1>12, <1>c, MillisType, WordArithmetic
    DEF CallbackReturns, Serving, TypeOK
  <2> DEFINE done == Accounted(tasks[i], now_ms, now_at, U32(millis(clock) - start_ms))
  <2>2. done.last_run_at = now_at /\ done.last_run_ms = now_ms
    <3> DEFINE task == tasks[i]
               duration == U32(millis(clock) - start_ms)
    <3>1. task \in Task /\ duration \in Words /\ now_ms \in Words /\ now_at \in Nat
      BY <1>0, <2>1
    <3> HIDE DEF task, duration
    <3>2. LET r == Accounted(task, now_ms, now_at, duration)
          IN  r.last_run_at = now_at /\ r.last_run_ms = now_ms
      BY <3>1, AccountedType, SMTT(30)
    <3> QED
      BY <3>2 DEF task, duration
  <2>3. tasks' = [ tasks EXCEPT ![i] = done ]
    BY <1>12 DEF CallbackReturns
  <2> HIDE DEF done
  <2>4. /\ tasks'[i].last_run_at = now_at /\ tasks'[i].last_run_ms = now_ms
        /\ \A k \in Slots : k # i => tasks'[k] = tasks[k]
    BY <1>0, <2>1, <2>2, <2>3
  <2>5. /\ pc = "callback" /\ pc' = "overrun" /\ i' = i
        /\ UNCHANGED << tasks_count, now_ms, next_due_ms, clock, now_at, served >>
    BY <1>12 DEF CallbackReturns, history
  <2> QED
    BY <1>11, <2>1, <2>4, <2>5 DEF Serving
<1>13. CASE CheckOverrun
  <2>1. i \in Slots
    BY <1>13, <1>c DEF CheckOverrun, Serving
  <2>2. Same(i) /\ \A k \in Slots : k # i => tasks'[k] = tasks[k]
    BY <1>0, <1>13, <2>1, OverrunCountedType DEF CheckOverrun, Same
  <2>3. /\ pc = "overrun" /\ pc' \in { "hook", "scan" } /\ i' \in { i, i + 1 }
        /\ UNCHANGED << tasks_count, now_ms, next_due_ms, clock, now_at, served >>
    BY <1>13 DEF CheckOverrun
  <2> QED
    BY <1>11, <2>1, <2>2, <2>3 DEF Serving
<1>14. CASE HookReturns
  BY <1>11, <1>14, <1>c DEF HookReturns, Serving, Same, sched, history
<1>15. CASE EndTick
  <2>1. /\ pc = "scan" /\ pc' = "sleep" /\ i > tasks_count
        /\ sleep_ms' = SleepMicros(next_due_ms) \div 1000
        /\ UNCHANGED << tasks, tasks_count, i, now_ms, next_due_ms, clock, now_at, served >>
    BY <1>15 DEF EndTick, sched
  <2>2. Times'
    BY <1>0, <2>1 DEF Times, Body
  <2> QED
    BY <1>0, <2>1, <2>2 DEF PassedOver, Body, Spared
<1>16. CASE Wake
  BY <1>0, <1>16, OutsideStep DEF Wake, sched, Body, Serving, Times
<1>17. CASE handle_signal
  <2>1. CASE pc = "sleep"
    BY <1>0, <1>17, <2>1, OutsideStep DEF handle_signal, sched, Body, Serving, Times
  <2>2. CASE pc # "sleep"
    BY <1>0, <1>17, <2>2, QuietStep DEF handle_signal, sched
  <2> QED
    BY <2>1, <2>2
<1>18. CASE TimePasses
  BY <1>0, <1>18, QuietStep DEF TimePasses, sched, locals, history
<1>19. CASE UNCHANGED vars
  BY <1>0, <1>19, QuietStep DEF vars, sched, locals, history
<1> QED
  BY <1>1, <1>2, <1>3, <1>4, <1>5, <1>6, <1>7, <1>8, <1>9, <1>10, <1>12, <1>13, <1>14,
     <1>15, <1>16, <1>17, <1>18, <1>19 DEF Next, Loop

\* The invariant holds from the start.
LEMMA InitIInv == Init => IInv
<1>1. U32(0) = 0
  BY ModSmall, WordAssumption DEF Words
<1>2. ZeroTask.last_run_at = 0 /\ ZeroTask.last_run_ms = 0
  BY DEF ZeroTask
<1> QED
  BY <1>1, <1>2, InitTInv, TimeAssumption
  DEF IInv, Init, Times, PassedOver, Body, Serving

\* IInv is an invariant of a program whose callbacks add no tasks.
LEMMA SpecIInv == ASSUME ~ CallbacksAdd PROVE Spec => []IInv
BY InitIInv, IInvStep, PTL DEF Spec

\* The argument of usleep is no more than a tenth of next_due_ms.
LEMMA SleepBound ==
  ASSUME NEW due \in Words
  PROVE  10 * (SleepMicros(due) \div 1000) =< due
<1> DEFINE mul    == IF due = UINT32_MAX THEN 1 ELSE due
           micros == U32(mul * 100)
<1>1. mul \in Nat /\ mul * 100 \in Nat /\ mul =< due /\ due \in Nat
  BY WordAssumption DEF Words, UINT32_MAX
<1>2. SleepMicros(due) = micros
  BY DEF SleepMicros
<1> HIDE DEF mul
<1>3. micros \in Nat /\ micros =< mul * 100
  BY <1>1, WordIsLow
<1> HIDE DEF micros
<1>4. 1000 * (micros \div 1000) =< micros /\ micros \div 1000 \in Nat
  BY <1>3
<1> QED
  BY <1>1, <1>2, <1>3, <1>4

\* Whatever wraps and however the intervals differ, the sleep that follows the callbacks
\* makes a task late that the tick passed over only if the callbacks and the hook took
\* more than nine tenths of that task's wait.
THEOREM SleepIsShort == ASSUME ~ CallbacksAdd PROVE Spec => []SleepSparesWaiting
<1>1. ASSUME IInv PROVE SleepSparesWaiting
  <2> SUFFICES ASSUME pc = "sleep", NEW k \in PassedBy,
                      10 * (slept_at - now_at) =< 9 * (Due(k) - now_at)
               PROVE  slept_at + sleep_ms =< Due(k)
    BY DEF SleepSparesWaiting
  <2>1. /\ k \in Slots /\ k =< tasks_count /\ k < i /\ tasks[k] \in Task
        /\ now_at \in Nat /\ slept_at \in Nat /\ next_due_ms \in Words /\ sleep_ms \in Nat
        /\ now_at - tasks[k].last_run_at < WORD
    <3>1. TypeOK /\ i > tasks_count
      BY <1>1 DEF IInv, TInv, PassedOver
    <3>2. tasks_count \in 0 .. MaxTasks /\ i \in Nat
      BY <3>1, TasksAssumption DEF TypeOK
    <3>3. k \in Slots /\ k =< tasks_count /\ k < i
      BY <3>1, <3>2, TasksAssumption DEF PassedBy, Entries, Slots
    <3> QED
      BY <3>1, <3>3 DEF TypeOK, PassedBy
  <2>2. Spared(k)
    BY <1>1, <2>1 DEF IInv, PassedOver, PassedBy, Body
  <2>3. Elapsed(tasks[k], now_ms) = now_at - tasks[k].last_run_at
    BY <1>1, <2>1, ElapsedIsExact DEF IInv, Times, Body
  <2>4. 10 * sleep_ms =< next_due_ms
    BY <1>1, <2>1, SleepBound DEF IInv, PassedOver
  <2>5. tasks[k].last_run_at \in Nat /\ tasks[k].interval_ms \in Nat /\ next_due_ms \in Nat
    BY <2>1, WordAssumption DEF Task, Words
  <2>6. next_due_ms =< Due(k) - now_at /\ Due(k) \in Nat
    BY <2>1, <2>2, <2>3, <2>5 DEF Spared, Due
  <2> QED
    BY <2>1, <2>4, <2>5, <2>6
<1> QED
  BY <1>1, SpecIInv, PTL

-----------------------------------------------------------------------------
\* Early runs

\* A callback is entered when its entry has waited, and nothing touches the entry before
\* it returns.
LEMMA NoEarlyStep ==
  ASSUME ~ CallbacksAdd, IInv, NoEarlyRun, [Next]_vars
  PROVE  NoEarlyRun'
<1> USE DEF NoEarlyRun
<1>1. CASE RunTask
  <2>1. /\ i \in Slots /\ tasks[i] \in Task /\ now_at \in Nat /\ Times
    BY <1>1, TasksAssumption DEF RunTask, IInv, TInv, TypeOK, Slots
  <2>2. /\ pc = "scan" /\ IsDue(tasks[i], now_ms) /\ i' = i /\ now_at' = now_at
        /\ tasks'[i] = WithDeadline(tasks[i])
    BY <1>1, <2>1 DEF RunTask, IInv, TInv, TypeOK
  <2>3. now_at - tasks[i].last_run_at >= tasks[i].interval_ms
    BY <2>1, <2>2, DueMeansWaited DEF Times, Body
  <2>4. /\ tasks'[i].last_run_at = tasks[i].last_run_at
        /\ tasks'[i].interval_ms = tasks[i].interval_ms
    BY <2>1, <2>2, WithDeadlineType
  <2> QED
    BY <2>2, <2>3, <2>4
<1>2. ASSUME pc' # "callback" PROVE NoEarlyRun'
  BY <1>2
<1>3. ASSUME UNCHANGED << pc, i, now_at, tasks >> PROVE NoEarlyRun'
  BY <1>3
<1>4. ASSUME NEW interval \in Intervals, NEW prio \in Priorities,
             sched_add_task(interval, prio)
      PROVE  NoEarlyRun'
  BY <1>2, <1>4 DEF sched_add_task
<1>5. ASSUME NEW hook \in BOOLEAN, sched_set_log_hook(hook) PROVE NoEarlyRun'
  BY <1>3, <1>5 DEF sched_set_log_hook, locals, history
<1>6. CASE sched_stop \/ TimePasses
  BY <1>3, <1>6 DEF sched_stop, TimePasses, sched, locals, history
<1>7. CASE \/ Enter \/ sched_destroy \/ BeginTick \/ Leave \/ CallbackReturns
           \/ CheckOverrun \/ HookReturns \/ EndTick \/ Wake \/ SkipTask
  BY <1>2, <1>7 DEF Enter, sched_destroy, BeginTick, Leave, CallbackReturns, CheckOverrun,
                    HookReturns, EndTick, Wake, SkipTask
<1>8. CASE handle_signal
  BY <1>2, <1>3, <1>8 DEF handle_signal, sched
<1>9. ASSUME NEW n \in 0 .. MaxTasks, sched_init(n) PROVE NoEarlyRun'
  BY <1>2, <1>9 DEF sched_init
<1>10. CASE UNCHANGED vars
  BY <1>3, <1>10 DEF vars, sched, locals, history
<1> QED
  BY <1>1, <1>4, <1>5, <1>6, <1>7, <1>8, <1>9, <1>10 DEF Next, Loop

\* What the run with adding callbacks refutes holds without them: no callback is entered
\* before its interval has passed since the tick of its last run.
THEOREM CoopNeverEarly == ASSUME ~ CallbacksAdd PROVE Spec => []NoEarlyRun
<1>1. Init => NoEarlyRun
  BY DEF Init, NoEarlyRun
<1> QED
  BY <1>1, NoEarlyStep, SpecIInv, PTL DEF Spec

-----------------------------------------------------------------------------
\* Statistics

\* Every entry's statistics are sound, and between the return of the callback and the
\* test for an overrun there is a run that no overrun was counted for.
Booked ==
  \A k \in Slots :
    /\ Sound(tasks[k])
    /\ pc = "overrun" /\ k = i => tasks[k].overrun_count < tasks[k].run_count

\* No entry has run 2^32 - 1 times.
CountersLeft == \A k \in Slots : tasks[k].run_count # UINT32_MAX

\* An entry that is made or left by calloc has sound statistics.
LEMMA FreshSound ==
  ASSUME NEW interval, NEW prio, NEW at
  PROVE  Sound(ZeroTask) /\ Sound(AddedTask(interval, prio, at))
BY DEF Sound, ZeroTask, AddedTask

\* Every step keeps the statistics sound while no counter of runs is at its end.
LEMMA BookedStep ==
  ASSUME TInv, Booked, CountersLeft, [Next]_vars
  PROVE  Booked'
<1> USE DEF Booked
<1>0. /\ TypeOK /\ Scanning /\ tasks \in [Slots -> Task] /\ clock \in Nat
      /\ tasks_count \in 0 .. MaxTasks /\ i \in Nat /\ i >= 1
  <2>1. TypeOK /\ Scanning
    BY DEF TInv
  <2> QED
    BY <2>1, TasksAssumption DEF TypeOK
<1>c. pc \in Serving => i \in Slots
  BY <1>0, TasksAssumption DEF Scanning, Slots
\* Steps that put other sound entries into the table.
<1>1. ASSUME pc' # "overrun", \A k \in Slots : Sound(tasks'[k])
      PROVE  Booked'
  BY <1>1
<1>2. ASSUME UNCHANGED tasks, pc' = "overrun" => pc = "overrun" /\ i' = i
      PROVE  Booked'
  BY <1>2
<1>3. ASSUME NEW n \in 0 .. MaxTasks, sched_init(n) PROVE Booked'
  BY <1>1, <1>3, FreshSound DEF sched_init
<1>4. ASSUME NEW interval \in Intervals, NEW prio \in Priorities,
             sched_add_task(interval, prio)
      PROVE  Booked'
  <2>1. /\ pc' = pc /\ i' = i /\ pc # "overrun"
        /\ tasks' = [ tasks EXCEPT ![tasks_count'] = AddedTask(interval, prio, clock) ]
    BY <1>4 DEF sched_add_task, locals, InForeignCode
  <2>2. \A k \in Slots : \/ tasks'[k] = tasks[k]
                         \/ tasks'[k] = AddedTask(interval, prio, clock)
    BY <1>0, <2>1
  <2> QED
    BY <1>1, <2>1, <2>2, FreshSound
<1>5. ASSUME NEW hook \in BOOLEAN, sched_set_log_hook(hook) PROVE Booked'
  BY <1>2, <1>5 DEF sched_set_log_hook, locals
<1>6. CASE sched_stop \/ TimePasses
  BY <1>2, <1>6 DEF sched_stop, TimePasses, sched, locals
<1>7. CASE sched_destroy
  BY <1>1, <1>7, FreshSound DEF sched_destroy
<1>8. CASE Enter
  <2>1. PICK p \in Sortings(tasks, tasks_count) : tasks' = Rearranged(tasks, p)
    BY <1>8 DEF Enter
  <2>2. \A k \in Slots : p[k] \in Slots /\ tasks'[k] = tasks[p[k]]
    BY <1>0, <2>1, RearrangedType
  <2>3. pc' # "overrun"
    BY <1>8 DEF Enter
  <2> QED
    BY <1>1, <2>2, <2>3
<1>9. CASE BeginTick \/ Leave \/ SkipTask \/ HookReturns \/ EndTick \/ Wake
  BY <1>2, <1>9 DEF BeginTick, Leave, SkipTask, HookReturns, EndTick, Wake, sched
<1>10. CASE RunTask
  <2>1. /\ i \in Slots /\ pc' = "callback"
        /\ tasks' = [ tasks EXCEPT ![i] = WithDeadline(tasks[i]) ]
    BY <1>0, <1>10, TasksAssumption DEF RunTask, Slots
  <2> DEFINE task == tasks[i]
             fixed == WithDeadline(task)
  <2>2. task \in Task /\ Sound(task)
    BY <1>0, <2>1
  <2>3. Sound(fixed)
    <3> HIDE DEF task
    <3>1. /\ fixed.run_count = task.run_count
          /\ fixed.overrun_count = task.overrun_count
          /\ fixed.total_duration_ms = task.total_duration_ms
          /\ fixed.max_duration_ms = task.max_duration_ms
      BY <2>2 DEF WithDeadline, Task
    <3> HIDE DEF fixed
    <3> QED
      BY <2>2, <3>1 DEF Sound
  <2>4. \A k \in Slots : tasks'[k] = tasks[k] \/ tasks'[k] = fixed
    BY <1>0, <2>1
  <2> HIDE DEF fixed
  <2> QED
    BY <1>1, <2>1, <2>3, <2>4
<1>11. CASE CallbackReturns
  <2> DEFINE duration == U32(millis(clock) - start_ms)
             done == Accounted(tasks[i], now_ms, now_at, duration)
  <2>1. /\ i \in Slots /\ i' = i /\ tasks' = [ tasks EXCEPT ![i] = done ]
        /\ duration \in Words
    BY <1>0, <1>11, <1>c, MillisType, WordArithmetic DEF CallbackReturns, Serving, TypeOK
  <2>2. Sound(done) /\ done.overrun_count < done.run_count
    <3> DEFINE task == tasks[i]
    <3>1. task \in Task /\ Sound(task) /\ task.run_count # UINT32_MAX
      BY <1>0, <2>1 DEF CountersLeft
    <3> HIDE DEF duration, task
    <3>2. LET d == Accounted(task, now_ms, now_at, duration)
          IN  Sound(d) /\ d.overrun_count < d.run_count
      BY <2>1, <3>1, AccountedSound
    <3> QED
      BY <3>2 DEF task
  <2>3. tasks'[i] = done /\ \A k \in Slots : k # i => tasks'[k] = tasks[k]
    BY <1>0, <2>1
  <2> HIDE DEF done
  <2> QED
    BY <2>1, <2>2, <2>3
<1>12. CASE CheckOverrun
  <2>1. /\ i \in Slots /\ pc = "overrun" /\ pc' # "overrun"
        /\ tasks' = [ tasks EXCEPT ![i] = OverrunCounted(tasks[i], clock) ]
    BY <1>0, <1>12, <1>c DEF CheckOverrun, Serving
  <2>2. Sound(OverrunCounted(tasks[i], clock))
    BY <1>0, <2>1, OverrunSound
  <2>3. \A k \in Slots : \/ tasks'[k] = tasks[k]
                         \/ tasks'[k] = OverrunCounted(tasks[i], clock)
    BY <1>0, <2>1
  <2> QED
    BY <1>1, <2>1, <2>2, <2>3
<1>13. CASE handle_signal
  BY <1>2, <1>13 DEF handle_signal, sched
<1>14. CASE UNCHANGED vars
  BY <1>2, <1>14 DEF vars, sched, locals
<1> QED
  BY <1>3, <1>4, <1>5, <1>6, <1>7, <1>8, <1>9, <1>10, <1>11, <1>12, <1>13, <1>14
  DEF Next, Loop

\* No statistic is wrong before a task has started.
LEMMA InitBooked == Init => Booked
BY FreshSound DEF Init, Booked

\* Sound statistics agree.
LEMMA BookedAgrees ==
  ASSUME TInv, Booked
  PROVE  StatisticsAgree
<1> SUFFICES ASSUME NEW k \in Entries
             PROVE  /\ tasks[k].overrun_count =< tasks[k].run_count
                    /\ sched_avg_ms(tasks[k]) =< tasks[k].max_duration_ms
  BY DEF StatisticsAgree
<1>1. k \in Slots /\ tasks[k] \in Task
  BY TasksAssumption DEF TInv, TypeOK, Entries, Slots
<1>2. Sound(tasks[k])
  BY <1>1 DEF Booked
<1> QED
  BY <1>1, <1>2, AverageBound DEF Sound

\* The statistics agree as long as no task has run 2^32 - 1 times, whatever the callbacks
\* do and although the sums of the durations wrap.
THEOREM StatisticsUntilWrap == Spec /\ []CountersLeft => []StatisticsAgree
<1>1. TInv /\ Booked => StatisticsAgree
  BY BookedAgrees
<1>2. TInv /\ Booked /\ CountersLeft /\ [Next]_vars => Booked'
  BY BookedStep
<1> QED
  BY <1>1, <1>2, InitBooked, SpecTInv, PTL DEF Spec

-----------------------------------------------------------------------------
\* How long no counter of runs wraps

\* Every run of an entry took a millisecond of the time since the program started.
Paced ==
  /\ StartTime =< clock /\ (clock =< StartTime \/ clock =< MaxTime)
  /\ \A k \in Slots :
       /\ k =< tasks_count => /\ tasks[k].interval_ms >= 1
                             /\ StartTime + tasks[k].run_count =< tasks[k].last_run_at
       /\ k > tasks_count => tasks[k].run_count = 0

\* Sorting keeps the entries in front.
LEMMA SortingsKeepEntries ==
  ASSUME NEW T \in [Slots -> Task], NEW count \in 0 .. MaxTasks,
         NEW p \in Sortings(T, count), NEW k \in Slots
  PROVE  p[k] =< count <=> k =< count
<1>1. /\ p[k] \in Slots /\ \A a \in Slots : a > count => p[a] = a
      /\ \A a, b \in Slots : a # b => p[a] # p[b]
  BY DEF Sortings
<1>2. k \in Nat /\ p[k] \in Nat /\ count \in Nat
  BY <1>1, TasksAssumption DEF Slots
<1>3. k > count => p[k] > count
  BY <1>1
<1>4. p[k] > count => p[p[k]] = p[k]
  BY <1>1
<1>5. p[k] > count => k = p[k]
  BY <1>1, <1>4
<1> QED
  BY <1>2, <1>3, <1>5

\* Every step of a program without tasks of interval 0 keeps the pace.
LEMMA PacedStep ==
  ASSUME ~ CallbacksAdd, 0 \notin Intervals, IInv, NoEarlyRun, Paced, [Next]_vars
  PROVE  Paced'
<1> USE DEF Paced
<1>0. /\ TypeOK /\ Scanning /\ Times /\ tasks \in [Slots -> Task] /\ clock \in Nat
      /\ tasks_count \in 0 .. MaxTasks /\ tasks_count \in Nat /\ i \in Nat
      /\ StartTime \in Nat /\ MaxTime \in Nat /\ now_at \in Nat
  <2>1. TypeOK /\ Scanning /\ Times
    BY DEF IInv, TInv
  <2> QED
    BY <2>1, TasksAssumption, TimeAssumption DEF TypeOK
<1>s. \A k \in Slots : k \in Nat /\ k >= 1 /\ tasks[k].run_count \in Nat
                      /\ tasks[k].last_run_at \in Nat /\ tasks[k].interval_ms \in Nat
  BY <1>0, WordAssumption DEF Slots, Task, Words
<1>c. pc \in Serving => i \in Slots
  BY <1>0, TasksAssumption DEF Scanning, Slots, TypeOK
\* Steps that count no run.
<1>1. ASSUME UNCHANGED << clock, tasks_count >>,
             \A k \in Slots : /\ tasks'[k].run_count = tasks[k].run_count
                             /\ tasks'[k].interval_ms = tasks[k].interval_ms
                             /\ tasks'[k].last_run_at = tasks[k].last_run_at
      PROVE  Paced'
  BY <1>1
<1>2. ASSUME UNCHANGED << clock, tasks_count, tasks >> PROVE Paced'
  BY <1>1, <1>2
<1>3. ASSUME UNCHANGED clock, tasks_count' = 0, \A k \in Slots : tasks'[k].run_count = 0
      PROVE  Paced'
  BY <1>s, <1>3
<1>4. ASSUME NEW n \in 0 .. MaxTasks, sched_init(n) PROVE Paced'
  BY <1>3, <1>4 DEF sched_init, ZeroTask
<1>5. ASSUME NEW interval \in Intervals, NEW prio \in Priorities,
             sched_add_task(interval, prio)
      PROVE  Paced'
  <2> DEFINE added == AddedTask(interval, prio, clock)
  <2>1. added.last_run_at = clock /\ added.run_count = 0 /\ added.interval_ms = interval
    BY DEF AddedTask, ZeroTask
  <2>2. interval >= 1 /\ interval \in Nat
    BY IntervalsAssumption, WordAssumption DEF Words
  <2>3. /\ tasks' = [ tasks EXCEPT ![tasks_count'] = added ]
        /\ clock' = clock /\ tasks_count' = tasks_count + 1
    BY <1>5 DEF sched_add_task
  <2> HIDE DEF added
  <2>4. ASSUME NEW k \in Slots
        PROVE  tasks'[k] = IF k = tasks_count + 1 THEN added ELSE tasks[k]
    BY <1>0, <2>3, <2>4
  <2> QED
    BY <1>0, <1>s, <2>1, <2>2, <2>3, <2>4
<1>6. ASSUME NEW hook \in BOOLEAN, sched_set_log_hook(hook) PROVE Paced'
  BY <1>2, <1>6 DEF sched_set_log_hook
<1>7. CASE sched_stop
  BY <1>2, <1>7 DEF sched_stop
<1>8. CASE sched_destroy
  BY <1>3, <1>8 DEF sched_destroy, ZeroTask
<1>9. CASE Enter
  <2>1. PICK p \in Sortings(tasks, tasks_count) : tasks' = Rearranged(tasks, p)
    BY <1>9 DEF Enter
  <2>2. UNCHANGED << clock, tasks_count >>
    BY <1>9 DEF Enter
  <2>3. ASSUME NEW k \in Slots
        PROVE  /\ k =< tasks_count =>
                    /\ tasks'[k].interval_ms >= 1
                    /\ StartTime + tasks'[k].run_count =< tasks'[k].last_run_at
               /\ k > tasks_count => tasks'[k].run_count = 0
    <3>1. /\ p[k] \in Slots /\ tasks'[k] = tasks[p[k]]
          /\ p[k] =< tasks_count <=> k =< tasks_count
      BY <1>0, <2>1, RearrangedType, SortingsKeepEntries
    <3>2. PICK j \in Slots : j = p[k]
      BY <3>1
    <3>3. /\ j =< tasks_count <=> k =< tasks_count
          /\ j > tasks_count <=> k > tasks_count
      BY <1>0, <1>s, <3>1, <3>2
    <3> QED
      BY <3>1, <3>2, <3>3
  <2> QED
    BY <1>0, <2>2, <2>3
<1>10. CASE BeginTick \/ Leave \/ SkipTask \/ HookReturns \/ EndTick \/ Wake \/ handle_signal
  BY <1>2, <1>10
  DEF BeginTick, Leave, SkipTask, HookReturns, EndTick, Wake, handle_signal, sched
<1>11. CASE RunTask
  <2>1. /\ i \in Slots /\ UNCHANGED << clock, tasks_count >>
        /\ tasks' = [ tasks EXCEPT ![i] = WithDeadline(tasks[i]) ]
    BY <1>0, <1>11, TasksAssumption DEF RunTask, Slots, TypeOK
  <2>2. /\ WithDeadline(tasks[i]).run_count = tasks[i].run_count
        /\ WithDeadline(tasks[i]).interval_ms = tasks[i].interval_ms
        /\ WithDeadline(tasks[i]).last_run_at = tasks[i].last_run_at
    BY <1>0, <2>1, WithDeadlineType, WithDeadlineFixes DEF Times
  <2>3. \A k \in Slots : tasks'[k] = IF k = i THEN WithDeadline(tasks[i]) ELSE tasks[k]
    BY <1>0, <2>1
  <2> QED
    BY <1>1, <2>1, <2>2, <2>3
<1>12. CASE CallbackReturns
  <2> DEFINE task == tasks[i]
             duration == U32(millis(clock) - start_ms)
             done == Accounted(task, now_ms, now_at, duration)
  <2>1. /\ i \in Slots /\ UNCHANGED << clock, tasks_count >> /\ i =< tasks_count
        /\ tasks' = [ tasks EXCEPT ![i] = done ] /\ duration \in Words
        /\ now_ms \in Words /\ task \in Task
        /\ now_at - task.last_run_at >= task.interval_ms
    BY <1>0, <1>12, <1>c, MillisType, WordArithmetic
    DEF CallbackReturns, Serving, TypeOK, NoEarlyRun, Scanning
  <2>2. tasks' = [ tasks EXCEPT ![i] = done ]
    BY <2>1
  <2>3. /\ StartTime + task.run_count =< task.last_run_at /\ task.interval_ms >= 1
        /\ task.run_count \in Nat /\ task.last_run_at \in Nat /\ task.interval_ms \in Nat
    BY <1>s, <2>1
  <2> HIDE DEF duration, task
  <2>4. /\ done.run_count = U32(task.run_count + 1)
        /\ done.interval_ms = task.interval_ms /\ done.last_run_at = now_at
    <3>1. done.run_count = U32(task.run_count + 1)
      BY <2>1, AccountedBooks
    <3>2. LET d == Accounted(task, now_ms, now_at, duration)
          IN  d.interval_ms = task.interval_ms /\ d.last_run_at = now_at
      BY <1>0, <2>1, AccountedType, SMTT(30)
    <3> QED
      BY <3>1, <3>2
  <2> HIDE DEF done
  <2>5. U32(task.run_count + 1) \in Nat /\ U32(task.run_count + 1) =< task.run_count + 1
    BY <2>3, WordIsLow
  <2>6. StartTime + done.run_count =< done.last_run_at /\ done.interval_ms >= 1
    BY <1>0, <2>1, <2>3, <2>4, <2>5
  <2>7. \A k \in Slots : tasks'[k] = IF k = i THEN done ELSE tasks[k]
    BY <1>0, <2>2
  <2> QED
    BY <1>0, <1>s, <2>1, <2>6, <2>7
<1>13. CASE CheckOverrun
  <2>1. /\ i \in Slots /\ UNCHANGED << clock, tasks_count >>
        /\ tasks' = [ tasks EXCEPT ![i] = OverrunCounted(tasks[i], clock) ]
    BY <1>0, <1>13, <1>c DEF CheckOverrun, Serving
  <2>2. /\ OverrunCounted(tasks[i], clock).run_count = tasks[i].run_count
        /\ OverrunCounted(tasks[i], clock).interval_ms = tasks[i].interval_ms
        /\ OverrunCounted(tasks[i], clock).last_run_at = tasks[i].last_run_at
    BY <1>0, <2>1, OverrunCountedType, OverrunBooks
  <2>3. \A k \in Slots :
          tasks'[k] = IF k = i THEN OverrunCounted(tasks[i], clock) ELSE tasks[k]
    BY <1>0, <2>1
  <2> QED
    BY <1>1, <2>1, <2>2, <2>3
<1>14. CASE TimePasses
  BY <1>0, <1>14 DEF TimePasses, sched
<1>15. CASE UNCHANGED vars
  BY <1>2, <1>15 DEF vars, sched
<1> QED
  BY <1>4, <1>5, <1>6, <1>7, <1>8, <1>9, <1>10, <1>11, <1>12, <1>13, <1>14, <1>15
  DEF Next, Loop

\* The statistics agree in the first 2^32 milliseconds after the program started, if no
\* callback adds tasks and no task asks for the interval 0.
THEOREM StatisticsInFirstWrap ==
  ASSUME ~ CallbacksAdd, 0 \notin Intervals, MaxTime - StartTime < UINT32_MAX
  PROVE  Spec => []StatisticsAgree
<1>1. Init => Paced
  BY TimeAssumption, TasksAssumption DEF Init, Paced, ZeroTask, Slots
<1>2. IInv /\ NoEarlyRun /\ Paced /\ [Next]_vars => Paced'
  BY PacedStep
<1>3. ASSUME IInv, Paced PROVE CountersLeft
  <2> SUFFICES ASSUME NEW k \in Slots PROVE tasks[k].run_count # UINT32_MAX
    BY DEF CountersLeft
  <2>1. /\ tasks[k].run_count \in Nat /\ tasks[k].last_run_at \in Nat
        /\ tasks[k].last_run_at =< clock /\ clock \in Nat /\ k \in Nat
        /\ tasks_count \in Nat
    BY <1>3, WordAssumption, TasksAssumption
    DEF IInv, TInv, TypeOK, Times, Task, Words, Slots
  <2>2. UINT32_MAX \in Nat /\ UINT32_MAX > 0
    BY WordAssumption DEF UINT32_MAX
  <2> QED
    BY <1>3, <2>1, <2>2, TimeAssumption DEF Paced
<1>4. Spec => []NoEarlyRun
  BY CoopNeverEarly
<1>5. Spec => []IInv
  BY SpecIInv
<1>6. Spec => []CountersLeft
  BY <1>1, <1>2, <1>3, <1>4, <1>5, PTL DEF Spec
<1> QED
  BY <1>6, StatisticsUntilWrap, PTL

-----------------------------------------------------------------------------
\* The refinement

\* What the mapping makes of an entry, phase by phase.
Phased(k) ==
  /\ ~ InTick => RunState(k) = "waiting"
  /\ k \notin served /\ (k # i \/ pc \notin Serving) => RunState(k) = "waiting"
  /\ pc = "callback" /\ k = i /\ k \in served => RunState(k) = "running"
  /\ pc \in { "overrun", "hook" } /\ k = i /\ k \in served => RunState(k) = "recorded"
  /\ InTick /\ k \in served /\ (k # i \/ pc = "scan") => RunState(k) = "done"

\* The mapping has a state for each phase.
LEMMA Mapped == ASSUME NEW k PROVE Phased(k)
<1>0. ~ InTick => RunState(k) = "waiting"
  BY DEF RunState, InTick
<1>1. k \notin served /\ (k # i \/ pc \notin Serving) => RunState(k) = "waiting"
  BY DEF RunState, InTick, Serving
<1>2. pc = "callback" /\ k = i /\ k \in served => RunState(k) = "running"
  BY DEF RunState, InTick
<1>3. pc \in { "overrun", "hook" } /\ k = i /\ k \in served => RunState(k) = "recorded"
  BY DEF RunState, InTick
<1>4. InTick /\ k \in served /\ (k # i \/ pc = "scan") => RunState(k) = "done"
  BY DEF RunState
<1> QED
  BY <1>0, <1>1, <1>2, <1>3, <1>4 DEF Phased

\* A step that the rounds do not show.
LEMMA Unseen ==
  ASSUME UNCHANGED << clock, tasks_count >>, InLoop' = InLoop, InTick' = InTick,
         InTick => now_at' = now_at,
         \A k \in Slots : Same(k) /\ RunState(k)' = RunState(k)
  PROVE  UNCHANGED Ticks!vars
BY DEF Ticks!vars, Same

\* The program's preparations are those of the rounds.
LEMMA Prepares ==
  ASSUME ~ InLoop, ~ InTick, ~ InTick', clock' = clock
  PROVE  Ticks!Next
<1>1. ASSUME NEW k \in Slots PROVE RunState(k) = "waiting" /\ RunState(k)' = "waiting"
  BY DEF RunState, InTick
<1>2. InLoop' \in BOOLEAN
  BY DEF InLoop
<1>3. [ k \in Slots |-> RunState(k) ]' = [ k \in Slots |-> RunState(k) ]
  BY <1>1
<1>4. InTick' = InTick
  BY DEF InTick
<1>5. (IF InTick THEN now_at ELSE 0)' = (IF InTick THEN now_at ELSE 0)
  BY Zenon
<1>6. Ticks!Configure
  BY <1>2, <1>3, <1>4, <1>5 DEF Ticks!Configure
<1> QED
  BY <1>6 DEF Ticks!Next

\* The first state is one of the rounds.
LEMMA RoundsInit == Init => Ticks!Init
<1> SUFFICES ASSUME Init PROVE Ticks!Init
  OBVIOUS
<1>1. /\ ~ InTick /\ InLoop = FALSE /\ InTick = FALSE /\ clock \in Nat /\ tasks_count = 0
  BY TimeAssumption DEF Init, InTick, InLoop
<1>2. ASSUME NEW k \in Slots PROVE RunState(k) = "waiting"
  BY <1>1 DEF RunState, InTick
<1>3. \A k \in Slots : tasks[k].interval_ms = 0 /\ tasks[k].last_run_at = 0
  BY DEF Init, ZeroTask
<1> QED
  BY <1>1, <1>2, <1>3 DEF Ticks!Init, Ticks!AllWaiting

\* The abstract actions change the run state of one entry, and nothing but it.
LEMMA RunsOn ==
  ASSUME NEW k \in Slots, NEW to,
         UNCHANGED << clock, tasks_count >>, InLoop' = InLoop, InTick' = InTick,
         InTick => now_at' = now_at,
         \A j \in Slots : Same(j),
         RunState(k)' = to,
         \A j \in Slots : j # k => RunState(j)' = RunState(j)
  PROVE  /\ [ j \in Slots |-> RunState(j) ]' =
              [ [ j \in Slots |-> RunState(j) ] EXCEPT ![k] = to ]
         /\ UNCHANGED << clock, InLoop, InTick, IF InTick THEN now_at ELSE 0, tasks_count,
                         [ j \in Slots |-> tasks[j].interval_ms ],
                         [ j \in Slots |-> tasks[j].last_run_at ] >>
<1>1. [ j \in Slots |-> RunState(j) ]' =
        [ [ j \in Slots |-> RunState(j) ] EXCEPT ![k] = to ]
  OBVIOUS
<1>2. /\ [ j \in Slots |-> tasks[j].interval_ms ]' = [ j \in Slots |-> tasks[j].interval_ms ]
      /\ [ j \in Slots |-> tasks[j].last_run_at ]' = [ j \in Slots |-> tasks[j].last_run_at ]
  BY DEF Same
<1> QED
  BY <1>1, <1>2

\* A run begins in the code as in the rounds: the entry had waited its interval and had
\* not run in the tick.
LEMMA StartsInRound ==
  ASSUME IInv, RunTask
  PROVE  Ticks!Next
<1>0. /\ TypeOK /\ Scanning /\ Times /\ i \in Slots /\ tasks[i] \in Task
  BY TasksAssumption DEF IInv, TInv, RunTask, TypeOK, Slots
<1>1. /\ pc = "scan" /\ pc' = "callback" /\ i' = i /\ served' = served \union { i }
      /\ tasks' = [ tasks EXCEPT ![i] = WithDeadline(tasks[i]) ]
      /\ i =< tasks_count /\ IsDue(tasks[i], now_ms)
      /\ UNCHANGED << tasks_count, clock, now_at >>
  BY DEF RunTask
<1>2. \A k \in Slots : Same(k)
  BY <1>0, <1>1, WithDeadlineType DEF Same, TypeOK
<1>3. i \notin served
  BY <1>0, <1>1 DEF Scanning, Slots
<1>4. RunState(i) = "waiting" /\ RunState(i)' = "running"
  BY <1>1, <1>3, Mapped DEF Phased, RunState, InTick, Serving
<1>5. ASSUME NEW k \in Slots, k # i PROVE RunState(k)' = RunState(k)
  BY <1>1, <1>5 DEF RunState, InTick
<1>6. InTick = TRUE /\ InTick' = TRUE /\ InLoop' = InLoop
  BY <1>1 DEF InTick, InLoop, Phases
<1>7. now_at - tasks[i].last_run_at >= tasks[i].interval_ms
  BY <1>0, <1>1, DueMeansWaited DEF Times, TypeOK, Body
<1>8. Ticks!Start(i)
  <2>1. Ticks!Waited(i) >= [ k \in Slots |-> tasks[k].interval_ms ][i]
    BY <1>0, <1>6, <1>7 DEF Ticks!Waited
  <2>2. [ k \in Slots |-> RunState(k) ][i] = "waiting"
    BY <1>0, <1>4
  <2>3. /\ [ k \in Slots |-> RunState(k) ]' =
             [ [ k \in Slots |-> RunState(k) ] EXCEPT ![i] = "running" ]
        /\ UNCHANGED << clock, InLoop, InTick, IF InTick THEN now_at ELSE 0, tasks_count,
                        [ k \in Slots |-> tasks[k].interval_ms ],
                        [ k \in Slots |-> tasks[k].last_run_at ] >>
    BY <1>0, <1>1, <1>2, <1>4, <1>5, <1>6, RunsOn
  <2> QED
    BY <1>1, <1>6, <2>1, <2>2, <2>3 DEF Ticks!Start, Ticks!table
<1> QED
  BY <1>0, <1>8 DEF Ticks!Next

\* The return of the callback records the run at the time of the tick.
LEMMA RecordsInRound ==
  ASSUME IInv, CallbackReturns
  PROVE  Ticks!Next
<1>0. /\ TypeOK /\ Scanning /\ i \in Slots /\ tasks[i] \in Task /\ i \in served
  BY TasksAssumption DEF IInv, TInv, CallbackReturns, TypeOK, Slots, Scanning, Serving
<1>1. /\ pc = "callback" /\ pc' = "overrun"
      /\ UNCHANGED << i, served, tasks_count, clock, now_at >>
  BY DEF CallbackReturns, history
<1>2. /\ tasks'[i].interval_ms = tasks[i].interval_ms
      /\ tasks'[i].last_run_at = now_at
      /\ \A k \in Slots : k # i => tasks'[k] = tasks[k]
  <2> DEFINE duration == U32(millis(clock) - start_ms)
             task     == tasks[i]
             done     == Accounted(task, now_ms, now_at, duration)
  <2>1. duration \in Words /\ task \in Task /\ now_ms \in Words /\ now_at \in Nat
    BY <1>0, MillisType, WordArithmetic DEF TypeOK
  <2>2. tasks' = [ tasks EXCEPT ![i] = done ]
    BY DEF CallbackReturns
  <2> HIDE DEF duration, task
  <2>3. done.interval_ms = task.interval_ms /\ done.last_run_at = now_at
    BY <2>1, AccountedType, SMTT(30)
  <2> HIDE DEF done
  <2> QED
    BY <1>0, <2>2, <2>3 DEF task, TypeOK
<1> PICK k \in Slots : k = i
  BY <1>0
<1>3. RunState(k) = "running" /\ RunState(k)' = "recorded"
  BY <1>0, <1>1 DEF RunState, InTick
<1>4. ASSUME NEW j \in Slots, j # k PROVE RunState(j)' = RunState(j)
  BY <1>1, <1>4 DEF RunState, InTick
<1>5. InTick = TRUE /\ InTick' = TRUE /\ InLoop' = InLoop
  BY <1>1 DEF InTick, InLoop, Phases
<1>6. Ticks!Record(k)
  <2>1. [ j \in Slots |-> RunState(j) ][k] = "running"
    BY <1>3
  <2>2. [ j \in Slots |-> RunState(j) ]' =
          [ [ j \in Slots |-> RunState(j) ] EXCEPT ![k] = "recorded" ]
    BY <1>3, <1>4
  <2>3. [ j \in Slots |-> tasks[j].last_run_at ]' =
          [ [ j \in Slots |-> tasks[j].last_run_at ] EXCEPT ![k] = now_at ]
    BY <1>2
  <2>4. [ j \in Slots |-> tasks[j].interval_ms ]' = [ j \in Slots |-> tasks[j].interval_ms ]
    BY <1>2
  <2> QED
    BY <1>1, <1>5, <2>1, <2>2, <2>3, <2>4 DEF Ticks!Record
<1> QED
  BY <1>6 DEF Ticks!Next

\* The run ends, and with it the entry's turn in the tick, where the scan goes on.
LEMMA FinishesInRound ==
  ASSUME IInv, pc \in { "overrun", "hook" }, pc' = "scan", i' = i + 1,
         \A k \in Slots : Same(k),
         UNCHANGED << served, tasks_count, clock, now_at >>
  PROVE  Ticks!Next
<1>0. /\ i \in Slots /\ i \in served /\ \A k \in served : k =< i
      /\ served \subseteq Slots /\ \A k \in Slots : k \in Nat
  BY TasksAssumption DEF IInv, TInv, TypeOK, Slots, Scanning, Serving
<1> PICK k \in Slots : k = i
  BY <1>0
<1>1. RunState(k) = "recorded" /\ RunState(k)' = "done"
  <2>1. k # i'
    BY <1>0
  <2>2. RunState(k) = "recorded"
    BY <1>0 DEF RunState, InTick
  <2>3. RunState(k)' = "done"
    BY <1>0, <2>1 DEF RunState, InTick
  <2> QED
    BY <2>2, <2>3
<1>2. ASSUME NEW j \in Slots, j # k PROVE RunState(j)' = RunState(j)
  BY <1>0, <1>2 DEF RunState, InTick
<1>3. InTick = TRUE /\ InTick' = TRUE /\ InLoop' = InLoop
  BY DEF InTick, InLoop, Phases
<1>4. Ticks!Finish(k)
  <2>1. [ j \in Slots |-> RunState(j) ][k] = "recorded"
    BY <1>1
  <2>2. /\ [ j \in Slots |-> RunState(j) ]' =
             [ [ j \in Slots |-> RunState(j) ] EXCEPT ![k] = "done" ]
        /\ UNCHANGED << clock, InLoop, InTick, IF InTick THEN now_at ELSE 0, tasks_count,
                        [ j \in Slots |-> tasks[j].interval_ms ],
                        [ j \in Slots |-> tasks[j].last_run_at ] >>
    BY <1>1, <1>2, <1>3, RunsOn
  <2> QED
    BY <2>1, <2>2 DEF Ticks!Finish, Ticks!table
<1> QED
  BY <1>4 DEF Ticks!Next

\* The end of the scan is the end of the round: who has not run was passed over, and
\* has not waited its interval, or has waited a whole wrap.
LEMMA EndsRound ==
  ASSUME IInv, EndTick
  PROVE  Ticks!Next
<1>0. /\ TypeOK /\ Times /\ PassedOver /\ tasks_count \in Nat /\ i \in Nat
      /\ \A k \in Slots : k \in Nat
  BY TasksAssumption DEF IInv, TInv, TypeOK, Slots
<1>1. /\ pc = "scan" /\ pc' = "sleep" /\ i > tasks_count
      /\ UNCHANGED << tasks, tasks_count, clock, now_at >>
  BY DEF EndTick, sched
<1>2. ASSUME NEW k \in Slots PROVE RunState(k) \in { "waiting", "done" }
  BY <1>1 DEF RunState, InTick
<1>3. ASSUME NEW k \in Slots PROVE RunState(k)' = "waiting"
  BY <1>1 DEF RunState, InTick
<1>4. InTick = TRUE /\ InTick' = FALSE /\ InLoop' = InLoop
  BY <1>1 DEF InTick, InLoop, Phases
<1>5. ASSUME NEW k \in Slots, k =< tasks_count, RunState(k) = "waiting",
             ~ (now_at - tasks[k].last_run_at >= WORD)
      PROVE  now_at - tasks[k].last_run_at < tasks[k].interval_ms
  <2>1. k \notin served
    BY <1>1, <1>5 DEF RunState, InTick
  <2>2. Spared(k)
    BY <1>0, <1>1, <1>5, <2>1 DEF PassedOver, Body
  <2>3. /\ tasks[k] \in Task /\ tasks[k].last_run_at \in Nat /\ now_at \in Nat
        /\ tasks[k].interval_ms \in Nat /\ WORD \in Nat
    BY <1>0, WordAssumption DEF TypeOK, Task, Words
  <2>4. Elapsed(tasks[k], now_ms) = now_at - tasks[k].last_run_at
    BY <1>0, <1>1, <1>5, <2>3, ElapsedIsExact DEF Times, Body
  <2> QED
    BY <2>2, <2>3, <2>4 DEF Spared, IsDue
<1>6. Ticks!EndTick
  <2>1. \A k \in Slots : [ j \in Slots |-> RunState(j) ][k] \in { "waiting", "done" }
    BY <1>2
  <2>2. ASSUME NEW k \in Slots, k =< tasks_count,
               [ j \in Slots |-> RunState(j) ][k] = "waiting"
        PROVE  \/ Ticks!Waited(k) < [ j \in Slots |-> tasks[j].interval_ms ][k]
               \/ Ticks!Waited(k) >= WORD
    BY <1>4, <1>5, <2>2 DEF Ticks!Waited
  <2>3. [ j \in Slots |-> RunState(j) ]' = Ticks!AllWaiting
    BY <1>3 DEF Ticks!AllWaiting
  <2> QED
    BY <1>1, <1>4, <2>1, <2>2, <2>3 DEF Ticks!EndTick, Ticks!table
<1> QED
  BY <1>6 DEF Ticks!Next

\* A tick begins with a round, in which everybody waits.
LEMMA BeginsRound ==
  ASSUME IInv, BeginTick
  PROVE  Ticks!Next
<1>1. /\ pc = "check" /\ pc' = "scan" /\ served' = {} /\ now_at' = clock
      /\ UNCHANGED << tasks, tasks_count, clock >>
  BY DEF BeginTick, sched
<1>2. ASSUME NEW k \in Slots PROVE RunState(k) = "waiting" /\ RunState(k)' = "waiting"
  BY <1>1 DEF RunState, InTick
<1>3. InTick = FALSE /\ InTick' = TRUE /\ InLoop' = InLoop /\ InLoop
  BY <1>1 DEF InTick, InLoop, Phases
<1>4. [ k \in Slots |-> RunState(k) ]' = [ k \in Slots |-> RunState(k) ]
  BY <1>2
<1>5. Ticks!BeginTick
  BY <1>1, <1>3, <1>4 DEF Ticks!BeginTick, Ticks!table
<1> QED
  BY <1>5 DEF Ticks!Next

\* Each step of the scheduler is a step of the rounds or none.
LEMMA RoundsStep ==
  ASSUME ~ CallbacksAdd, IInv, [Next]_vars
  PROVE  [Ticks!Next]_Ticks!vars
<1>0. /\ TypeOK /\ Scanning /\ served \subseteq Slots /\ i \in Nat
      /\ \A k \in Slots : k \in Nat
  BY TasksAssumption DEF IInv, TInv, TypeOK, Slots
<1>1. ASSUME NEW n \in 0 .. MaxTasks, sched_init(n) PROVE [Ticks!Next]_Ticks!vars
  BY <1>1, Prepares DEF sched_init, InLoop, InTick, Phases
<1>2. ASSUME NEW interval \in Intervals, NEW prio \in Priorities,
             sched_add_task(interval, prio)
      PROVE  [Ticks!Next]_Ticks!vars
  BY <1>2, Prepares DEF sched_add_task, InLoop, InTick, Phases
<1>q. ASSUME UNCHANGED << clock, tasks, tasks_count, pc, i, now_at, served >>
      PROVE  [Ticks!Next]_Ticks!vars
  <2>1. ASSUME NEW k \in Slots PROVE Same(k) /\ RunState(k)' = RunState(k)
    BY <1>q DEF Same, RunState, InTick
  <2>2. InLoop' = InLoop /\ InTick' = InTick
    BY <1>q DEF InLoop, InTick
  <2> QED
    BY <1>q, <2>1, <2>2, Unseen
<1>3. ASSUME NEW hook \in BOOLEAN, sched_set_log_hook(hook) PROVE [Ticks!Next]_Ticks!vars
  BY <1>3, <1>q DEF sched_set_log_hook, locals, history
<1>4. CASE sched_stop
  BY <1>4, <1>q DEF sched_stop, locals, history
<1>5. CASE sched_destroy
  BY <1>5, Prepares DEF sched_destroy, InLoop, InTick, Phases
<1>6. CASE Enter
  BY <1>6, Prepares DEF Enter, InLoop, InTick, Phases
<1>7. CASE BeginTick
  BY <1>7, BeginsRound
<1>8. CASE Leave
  <2>1. /\ pc = "check" /\ pc' = "stopped" /\ UNCHANGED << clock, tasks, tasks_count >>
    BY <1>8 DEF Leave, sched
  <2>2. InLoop = TRUE /\ InLoop' = FALSE /\ InTick = FALSE /\ InTick' = FALSE
    BY <2>1 DEF InLoop, InTick, Phases
  <2>3. ASSUME NEW k \in Slots PROVE RunState(k) = "waiting" /\ RunState(k)' = "waiting"
    BY <2>1 DEF RunState, InTick
  <2>4. [ k \in Slots |-> RunState(k) ]' = [ k \in Slots |-> RunState(k) ]
    BY <2>3
  <2>5. Ticks!Leave
    BY <2>1, <2>2, <2>4 DEF Ticks!Leave, Ticks!table
  <2> QED
    BY <2>5 DEF Ticks!Next
<1>9. CASE RunTask
  BY <1>9, StartsInRound
<1>10. CASE SkipTask
  <2>1. /\ pc = "scan" /\ pc' = "scan"
        /\ UNCHANGED << clock, tasks, tasks_count, now_at, served >>
    BY <1>10 DEF SkipTask, sched, history
  <2>2. ASSUME NEW k \in Slots PROVE Same(k) /\ RunState(k)' = RunState(k)
    BY <2>1 DEF Same, RunState, InTick
  <2>3. InLoop' = InLoop /\ InTick' = InTick
    BY <2>1 DEF InLoop, InTick
  <2> QED
    BY <2>1, <2>2, <2>3, Unseen
<1>11. CASE CallbackReturns
  BY <1>11, RecordsInRound
<1>12. CASE CheckOverrun
  <2>1. /\ pc = "overrun" /\ UNCHANGED << clock, tasks_count, now_at, served >>
        /\ \/ pc' = "hook" /\ i' = i
           \/ pc' = "scan" /\ i' = i + 1
    BY <1>12 DEF CheckOverrun
  <2>2. i \in Slots
    BY <1>0, <2>1, TasksAssumption DEF Scanning, Serving, TypeOK, Slots
  <2>3. \A k \in Slots : Same(k)
    <3> DEFINE counted == OverrunCounted(tasks[i], clock)
    <3>1. /\ counted.interval_ms = tasks[i].interval_ms
          /\ counted.last_run_at = tasks[i].last_run_at
          /\ counted.last_run_ms = tasks[i].last_run_ms
      BY <1>0, <2>2, OverrunCountedType DEF TypeOK
    <3>2. tasks' = [ tasks EXCEPT ![i] = counted ]
      BY <1>12 DEF CheckOverrun
    <3> HIDE DEF counted
    <3> QED
      BY <1>0, <2>2, <3>1, <3>2 DEF Same, TypeOK
  <2>4. CASE pc' = "hook" /\ i' = i
    <3>1. ASSUME NEW k \in Slots PROVE RunState(k)' = RunState(k)
      BY <2>1, <2>4 DEF RunState, InTick
    <3>2. InLoop' = InLoop /\ InTick' = InTick
      BY <2>1, <2>4 DEF InLoop, InTick, Phases
    <3> QED
      BY <2>1, <2>3, <3>1, <3>2, Unseen
  <2>5. CASE pc' = "scan" /\ i' = i + 1
    BY <2>1, <2>3, <2>5, FinishesInRound
  <2> QED
    BY <2>1, <2>4, <2>5
<1>13. CASE HookReturns
  BY <1>13, FinishesInRound DEF HookReturns, Same, sched, history
<1>14. CASE EndTick
  BY <1>14, EndsRound
<1>w. ASSUME pc = "sleep", pc' = "check", UNCHANGED << clock, tasks, tasks_count >>
      PROVE  [Ticks!Next]_Ticks!vars
  <2>1. ASSUME NEW k \in Slots PROVE Same(k) /\ RunState(k)' = RunState(k)
    BY <1>w DEF Same, RunState, InTick
  <2>2. InLoop' = InLoop /\ InTick' = InTick /\ ~ InTick
    BY <1>w DEF InLoop, InTick, Phases
  <2> QED
    BY <1>w, <2>1, <2>2, Unseen
<1>15. CASE Wake
  BY <1>15, <1>w DEF Wake, sched
<1>16. CASE handle_signal
  <2>1. CASE pc = "sleep"
    BY <1>16, <1>w, <2>1 DEF handle_signal, sched
  <2>2. CASE pc # "sleep"
    BY <1>16, <1>q, <2>2 DEF handle_signal, sched
  <2> QED
    BY <2>1, <2>2
<1>17. CASE TimePasses
  <2>1. clock' = clock + 1 /\ UNCHANGED << tasks, tasks_count, pc, i, now_at, served >>
    BY <1>17 DEF TimePasses, sched, locals, history
  <2>2. ASSUME NEW k \in Slots PROVE RunState(k)' = RunState(k)
    BY <2>1 DEF RunState, InTick
  <2>3. [ k \in Slots |-> RunState(k) ]' = [ k \in Slots |-> RunState(k) ]
    BY <2>2
  <2>4. InLoop' = InLoop /\ InTick' = InTick
    BY <2>1 DEF InLoop, InTick
  <2>5. Ticks!TimePasses
    BY <2>1, <2>3, <2>4 DEF Ticks!TimePasses, Ticks!table
  <2> QED
    BY <2>5 DEF Ticks!Next
<1>18. CASE UNCHANGED vars
  BY <1>18, <1>q DEF vars, sched, locals, history
<1> QED
  BY <1>1, <1>2, <1>3, <1>4, <1>5, <1>6, <1>7, <1>8, <1>9, <1>10, <1>11, <1>12, <1>13,
     <1>14, <1>15, <1>16, <1>17, <1>18 DEF Next, Loop

\* The cooperative scheduler implements the rounds, as long as its callbacks add no
\* tasks: nobody runs early or twice in a tick, and nobody due is passed over, wherever
\* the counter wraps and however long the callbacks take.
THEOREM CoopRounds == ASSUME ~ CallbacksAdd PROVE Spec => ImplementsRounds
<1>1. Init => Ticks!Init
  BY RoundsInit
<1>2. IInv /\ [Next]_vars => [Ticks!Next]_Ticks!vars
  BY RoundsStep
<1> QED
  BY <1>1, <1>2, SpecIInv, PTL DEF Spec, ImplementsRounds, Ticks!Spec
=============================================================================
