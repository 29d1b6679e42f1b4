------------------------- MODULE SchedulerPtProofs -------------------------
(***************************************************************************)
(* The safety of the threaded scheduler, for every word size, table size,  *)
(* set of intervals and length of time: the inductive invariant IInv and   *)
(* the properties of SchedulerPt that follow from it.                      *)
(***************************************************************************)
EXTENDS SchedulerPt, SchedTaskProofs, FiniteSetTheorems

\* The handles in use are the first thread_count, and no more than the entries
\* that the scan has passed.
HandlesInOrder ==
  /\ \A s \in Slots : thread[s].pc # "none" => s =< thread_count
  /\ pc \in { "idle", "ready", "check", "stopped" } => thread_count = 0
  /\ InLoop => handles = tasks_count
  /\ thread_count =< tasks_count
  /\ pc \in { "scan", "spawn" } => thread_count < i /\ i =< tasks_count + 1
  /\ pc = "spawn" => i =< tasks_count

Past == { "none", "joined", "failed" }

\* The joins have passed only threads that are gone.
JoinedInOrder ==
  /\ pc = "join" => \A s \in Slots : s < i => thread[s].pc \in Past
  /\ pc = "sleep" => \A s \in Slots : thread[s].pc \in Past

\* Each handle belongs to an entry of its own, one that the scan has passed, and
\* carries the time of the tick.
Assigned ==
  /\ \A s \in Slots :
       thread[s].pc # "none" =>
         /\ thread[s].task \in 1 .. tasks_count
         /\ thread[s].now_at = now_at
         /\ pc \in { "scan", "spawn" } => thread[s].task < i
  /\ \A s, t \in Slots :
       thread[s].pc # "none" /\ thread[t].pc # "none" /\ s # t =>
         thread[s].task # thread[t].task

Critical == { "locked", "hooked", "inhook", "release" }

\* A worker in the critical section that calls the hook holds the mutex.
MutexHeld == \A s \in Slots : thread[s].pc \in Critical => mutex = s

\* Every wrapped time is the low word of its history variable, and in the scan no
\* run is younger than the tick.
Times ==
  /\ now_at =< clock
  /\ now_ms = U32(now_at)
  /\ \A k \in Slots : /\ tasks[k].last_run_ms = U32(tasks[k].last_run_at)
                      /\ tasks[k].last_run_at =< clock
                      /\ pc \in { "scan", "spawn" } => tasks[k].last_run_at =< now_at
  /\ \A s \in Slots : thread[s].now_ms = U32(thread[s].now_at)

\* An entry found due has waited its interval, until its run is recorded.
Waited ==
  /\ pc = "spawn" => now_at - tasks[i].last_run_at >= tasks[i].interval_ms
  /\ NoEarlyRun

IInv == /\ TypeOK /\ HandlesInOrder /\ JoinedInOrder /\ Assigned
        /\ MutexHeld /\ Times /\ Waited

-----------------------------------------------------------------------------
\* Type correctness

\* The program starts with well-typed variables.
LEMMA InitTypeOK == Init => TypeOK
<1> SUFFICES ASSUME Init PROVE TypeOK
  OBVIOUS
<1>1. tasks \in [Slots -> Task]
  BY ZeroTaskType DEF Init
<1>2. thread \in [Slots -> Thread]
  BY TasksAssumption, WordAssumption DEF Init, NoThread, Thread, WorkerPhases, Words
<1>3. now_ms \in Words /\ next_due_ms \in Words
  BY WordAssumption DEF Init, Words, UINT32_MAX
<1>4. /\ started \in [Slots -> Nat]
      /\ tasks_count \in 0 .. max_tasks /\ max_tasks \in 0 .. MaxTasks
      /\ i \in 1 .. MaxTasks + 1 /\ mutex \in 0 .. MaxTasks
      /\ thread_count \in 0 .. MaxTasks /\ handles \in 0 .. MaxTasks
  BY TasksAssumption DEF Init, Unlocked
<1>5. clock \in Nat /\ now_at \in Nat /\ slept_at \in Nat /\ sleep_ms \in Nat
  BY TimeAssumption DEF Init
<1> QED
  BY <1>1, <1>2, <1>3, <1>4, <1>5 DEF Init, TypeOK, Phases

\* What a worker's step does to the variables of other threads, to its entry and
\* to its own record.
LEMMA WorkerStep ==
  ASSUME TypeOK, NEW s \in Slots, thread[s].task \in Slots, Worker(s)
  PROVE  /\ thread' \in [Slots -> Thread]
         /\ tasks' \in [Slots -> Task]
         /\ \A t \in Slots : t # s => thread'[t] = thread[t]
         /\ thread'[s].pc \in WorkerPhases \ Past
         /\ thread[s].pc \in WorkerPhases \ (Past \cup {"ended"})
         /\ thread'[s].task = thread[s].task
         /\ thread'[s].now_ms = thread[s].now_ms
         /\ thread'[s].now_at = thread[s].now_at
         /\ \A k \in Slots : k # thread[s].task => tasks'[k] = tasks[k]
         /\ \A k \in Slots : tasks'[k].interval_ms = tasks[k].interval_ms
         /\ \A k \in Slots : \/ /\ tasks'[k].last_run_at = tasks[k].last_run_at
                                /\ tasks'[k].last_run_ms = tasks[k].last_run_ms
                             \/ /\ k = thread[s].task
                                /\ ~ (thread'[s].pc \in { "deadline", "begin", "callback", "record" })
                                /\ tasks'[k].last_run_at = thread[s].now_at
                                /\ tasks'[k].last_run_ms = thread[s].now_ms
         /\ Unrecorded(s)' => Unrecorded(s)
         /\ pc' \in { pc, "undefined" }
         /\ mutex' \in 0 .. MaxTasks
         /\ MainUnchanged
<1> USE DEF Past, WorkerPhases, Unrecorded
<1> DEFINE k == thread[s].task
<1>0. /\ thread \in [Slots -> Thread] /\ tasks \in [Slots -> Task]
      /\ mutex \in 0 .. MaxTasks /\ clock \in Nat
      /\ tasks[k] \in Task /\ thread[s] \in Thread
  BY DEF TypeOK
<1>1. CASE SetDeadline(s)
  BY <1>0, <1>1, WithDeadlineType DEF SetDeadline, Moves, Thread
<1>2. CASE CallTask(s)
  BY <1>0, <1>2, MillisType DEF CallTask, Thread
<1>3. CASE TaskReturns(s)
  <2>1. U32(millis(clock) - thread[s].start_ms) \in Words
    BY <1>0, MillisType, WordArithmetic DEF Thread
  <2> DEFINE duration == U32(millis(clock) - thread[s].start_ms)
             returned == [ thread[s] EXCEPT !.pc          = "record",
                                            !.start_ms    = 0,
                                            !.duration_ms = duration ]
  <2>2. thread' = [ thread EXCEPT ![s] = returned ]
    BY <1>0, <1>3 DEF TaskReturns, Thread
  <2>4. returned \in Thread
    <3>1. 0 \in Words
      BY WordAssumption DEF Words
    <3>2. duration \in Words
      BY <2>1
    <3> HIDE DEF duration
    <3> QED
      BY <1>0, <3>1, <3>2 DEF Thread
  <2>5. /\ returned.pc = "record" /\ returned.task = thread[s].task
        /\ returned.now_ms = thread[s].now_ms /\ returned.now_at = thread[s].now_at
    BY <1>0 DEF Thread
  <2> HIDE DEF returned
  <2>3. /\ tasks' = tasks /\ mutex' = mutex /\ pc' = pc /\ MainUnchanged
        /\ thread[s].pc = "callback"
    BY <1>3 DEF TaskReturns
  <2> QED
    BY <1>0, <2>2, <2>3, <2>4, <2>5
<1>4. CASE Record(s)
  <2> DEFINE recorded == Accounted(tasks[k], thread[s].now_ms, thread[s].now_at,
                                   thread[s].duration_ms)
  <2>0. /\ thread[s].now_ms \in Words /\ thread[s].now_at \in Nat
        /\ thread[s].duration_ms \in Words
    BY <1>0 DEF Thread
  <2>1. /\ recorded \in Task
        /\ recorded.interval_ms = tasks[k].interval_ms
        /\ recorded.last_run_at = thread[s].now_at
        /\ recorded.last_run_ms = thread[s].now_ms
    <3> DEFINE task == tasks[k]
    <3>1. task \in Task
      BY <1>0
    <3> HIDE DEF task
    <3>2. LET r == Accounted(task, thread[s].now_ms, thread[s].now_at,
                             thread[s].duration_ms)
          IN  /\ r \in Task
              /\ r.interval_ms = task.interval_ms
              /\ r.last_run_at = thread[s].now_at
              /\ r.last_run_ms = thread[s].now_ms
      BY <2>0, <3>1, AccountedType, SMTT(30)
    <3> QED
      BY <3>2 DEF task
  <2>2. /\ tasks' = [ tasks EXCEPT ![k] = recorded ]
        /\ mutex' = s /\ pc' = pc /\ MainUnchanged
    BY <1>4 DEF Record
  <2>3. /\ thread' = [ thread EXCEPT ![s].pc = "locked" ]
        /\ thread[s].pc = "record"
    BY <1>4 DEF Record, Moves
  <2> HIDE DEF recorded
  <2>4. /\ tasks' \in [Slots -> Task]
        /\ tasks'[k] = recorded
        /\ \A j \in Slots : j # k => tasks'[j] = tasks[j]
    BY <1>0, <2>1, <2>2
  <2>5. /\ thread' \in [Slots -> Thread]
        /\ \A t \in Slots : t # s => thread'[t] = thread[t]
        /\ thread'[s] = [ thread[s] EXCEPT !.pc = "locked" ]
    BY <1>0, <2>3 DEF Thread
  <2>6. mutex' \in 0 .. MaxTasks
    BY <2>2, TasksAssumption DEF Slots
  <2> QED
    BY <1>0, <2>1, <2>2, <2>3, <2>4, <2>5, <2>6 DEF Thread
<1>5. CASE CheckOverrun(s)
  <2>1. PICK to \in { "hooked", "release" } : Moves(s, "locked", to)
    BY <1>5 DEF CheckOverrun
  <2>2. /\ tasks' = [ tasks EXCEPT ![k] = OverrunCounted(tasks[k], clock) ]
        /\ mutex' = mutex /\ pc' = pc /\ MainUnchanged
    BY <1>5 DEF CheckOverrun
  <2>3. /\ OverrunCounted(tasks[k], clock) \in Task
        /\ OverrunCounted(tasks[k], clock).interval_ms = tasks[k].interval_ms
        /\ OverrunCounted(tasks[k], clock).last_run_at = tasks[k].last_run_at
        /\ OverrunCounted(tasks[k], clock).last_run_ms = tasks[k].last_run_ms
    BY <1>0, OverrunCountedType
  <2>4. /\ tasks' \in [Slots -> Task]
        /\ tasks'[k] = OverrunCounted(tasks[k], clock)
        /\ \A j \in Slots : j # k => tasks'[j] = tasks[j]
    BY <1>0, <2>2, <2>3
  <2> QED
    BY <1>0, <2>1, <2>2, <2>3, <2>4 DEF Moves, Thread
<1>6. CASE CallHook(s)
  <2>1. PICK to \in { "hooked", "inhook" } : Moves(s, "hooked", to)
    BY <1>6 DEF CallHook
  <2>2. pc' \in { pc, "undefined" }
    BY <1>6 DEF CallHook
  <2> QED
    BY <1>0, <1>6, <2>1, <2>2 DEF CallHook, Moves, Thread
<1>7. CASE HookReturns(s)
  BY <1>0, <1>7 DEF HookReturns, Moves, Thread
<1>8. CASE Release(s)
  BY <1>0, <1>8, TasksAssumption DEF Release, Moves, Thread, Unlocked
<1> QED
  BY <1>1, <1>2, <1>3, <1>4, <1>5, <1>6, <1>7, <1>8 DEF Worker

\* A thread that runs has an entry of the table to run.
LEMMA WorkerAssigned ==
  ASSUME TypeOK, Assigned, NEW s \in Slots, Worker(s)
  PROVE  thread[s].pc # "none" /\ thread[s].task \in Slots /\ thread[s].now_at = now_at
<1>1. thread[s].pc # "none"
  BY DEF Worker, SetDeadline, CallTask, TaskReturns, Record, CheckOverrun, CallHook,
         HookReturns, Release, Moves
<1> QED
  BY <1>1, TasksAssumption DEF Assigned, TypeOK, Slots

\* The record that a new handle is given.
LEMMA TakenHandle ==
  ASSUME NEW outcome \in { "deadline", "failed" }, NEW k \in Slots,
         NEW ms \in Words, NEW at \in Nat, NEW due \in Nat
  PROVE  [ NoThread EXCEPT !.pc = outcome, !.task = k, !.now_ms = ms,
                           !.now_at = at, !.due_at = due ] \in Thread
<1>1. 0 \in Words /\ k \in 0 .. MaxTasks
  BY WordAssumption, TasksAssumption DEF Words, Slots
<1> QED
  BY <1>1 DEF NoThread, Thread, WorkerPhases

\* The variables that only TypeOK speaks of, and those of the loop's body.
LEMMA TypeOKStep ==
  ASSUME IInv, [Next]_vars
  PROVE  TypeOK'
<1> USE DEF TypeOK, Phases
<1>0. /\ TypeOK /\ HandlesInOrder /\ Assigned
      /\ tasks_count \in 0 .. MaxTasks /\ 0 \in Words /\ UINT32_MAX \in Words
      /\ NoThread \in Thread
  BY WordAssumption, TasksAssumption
  DEF IInv, Words, UINT32_MAX, NoThread, Thread, WorkerPhases
<1>1. ASSUME NEW n \in 0 .. MaxTasks, sched_init(n) PROVE TypeOK'
  <2>1. tasks' \in [Slots -> Task]
    BY <1>1, ZeroTaskType DEF sched_init
  <2>2. max_tasks' \in 0 .. MaxTasks /\ tasks_count' \in 0 .. max_tasks'
    BY <1>1, TasksAssumption DEF sched_init
  <2> QED
    BY <1>0, <1>1, <2>1, <2>2 DEF sched_init, locals, history
<1>2. ASSUME NEW interval \in Intervals, NEW prio \in Priorities,
             sched_add_task(interval, prio)
      PROVE  TypeOK'
  <2>1. AddedTask(interval, prio, clock) \in Task
    BY <1>0, AddedTaskType, IntervalsAssumption, PrioritiesAssumption
  <2>2. tasks' \in [Slots -> Task]
    BY <1>0, <1>2, <2>1 DEF sched_add_task
  <2> QED
    BY <1>0, <1>2, <2>2 DEF sched_add_task, locals, history
<1>3. ASSUME NEW hook \in BOOLEAN, sched_set_log_hook(hook) PROVE TypeOK'
  BY <1>0, <1>3 DEF sched_set_log_hook, locals, history
<1>4. CASE sched_stop
  BY <1>0, <1>4 DEF sched_stop, locals, history
<1>5. CASE sched_destroy
  BY <1>0, <1>5, ZeroTaskType, TasksAssumption DEF sched_destroy, locals, history
<1>6. CASE Enter
  <2>1. tasks' \in [Slots -> Task]
    BY <1>0, <1>6, RearrangedType DEF Enter, sort_tasks_by_priority
  <2> QED
    BY <1>0, <1>6, <2>1 DEF Enter
<1>7. CASE BeginTick
  BY <1>0, <1>7, MillisType, TasksAssumption DEF BeginTick, sched
<1>8. CASE Leave
  BY <1>0, <1>8, TasksAssumption DEF Leave, sched, history
<1>9. CASE Scan
  BY <1>0, <1>9, EarlierDueType, TasksAssumption DEF Scan, sched, history, Slots
<1>10. ASSUME NEW outcome \in { "deadline", "failed" }, TakeHandle(outcome),
              started' \in [Slots -> Nat]
       PROVE  TypeOK'
  <2>1. /\ i \in Slots /\ thread_count' = thread_count + 1
        /\ thread_count' \in Slots /\ i' = i + 1
    BY <1>0, <1>10, TasksAssumption DEF TakeHandle, HandlesInOrder, Slots
  <2>2. tasks[i].last_run_at + tasks[i].interval_ms \in Nat
    BY <1>0, <2>1, WordAssumption DEF Task, Words
  <2>3. thread' \in [Slots -> Thread]
    BY <1>0, <1>10, <2>1, <2>2, TakenHandle DEF TakeHandle
  <2>4. thread_count' \in 0 .. MaxTasks /\ i' \in 1 .. MaxTasks + 1
    BY <2>1, TasksAssumption DEF Slots
  <2> QED
    BY <1>0, <1>10, <2>3, <2>4 DEF TakeHandle, sched
<1>11. CASE EndScan
  BY <1>0, <1>11, TasksAssumption DEF EndScan, sched, history
<1>12. CASE Join
  <2>1. i \in Slots
    BY <1>0, <1>12, TasksAssumption DEF Join, Slots
  <2> DEFINE joined == [ thread[i] EXCEPT !.pc = "joined" ]
  <2>4. thread' = [ thread EXCEPT ![i] = joined ]
    BY <1>12 DEF Join
  <2>5. thread[i] \in Thread
    BY <1>0, <2>1
  <2>6. joined \in Thread
    BY <2>5 DEF Thread, WorkerPhases
  <2> HIDE DEF joined
  <2>2. thread' \in [Slots -> Thread]
    BY <1>0, <2>1, <2>4, <2>6
  <2>3. i' \in 1 .. MaxTasks + 1
    BY <1>12, <2>1, TasksAssumption DEF Join, Slots
  <2> QED
    BY <1>0, <1>12, <2>2, <2>3 DEF Join, sched, history
<1>13. CASE JoinNoThread
  BY <1>0, <1>13, TasksAssumption DEF JoinNoThread, sched, history
<1>14. CASE EndTick
  BY <1>0, <1>14 DEF EndTick, sched, SleepMicros, Words
<1>15. CASE Wake
  BY <1>0, <1>15, TasksAssumption DEF Wake, EndOfBody, sched
<1>16. ASSUME NEW s \in Slots, Worker(s) PROVE TypeOK'
  BY <1>0, <1>16, WorkerStep, WorkerAssigned DEF MainUnchanged, locals, history
<1>17. CASE handle_signal
  BY <1>0, <1>17, TasksAssumption DEF handle_signal, EndOfBody, sched
<1>18. CASE TimePasses
  BY <1>0, <1>18 DEF TimePasses, sched, locals, history
<1>19. CASE UNCHANGED vars
  BY <1>0, <1>19 DEF vars, sched, locals, history
<1>20. CASE Spawn
  <2>1. i \in Slots
    BY <1>0, <1>20, TasksAssumption DEF Spawn, TakeHandle, HandlesInOrder, Slots
  <2>2. started[i] + 1 \in Nat
    BY <1>0, <2>1
  <2>3. started' \in [Slots -> Nat]
    BY <1>0, <1>20, <2>2 DEF Spawn
  <2> QED
    BY <1>10, <1>20, <2>3 DEF Spawn
<1>21. CASE SpawnFails
  BY <1>0, <1>10, <1>21 DEF SpawnFails
<1> QED
  BY <1>1, <1>2, <1>3, <1>4, <1>5, <1>6, <1>7, <1>8, <1>9, <1>11, <1>12, <1>13,
     <1>14, <1>15, <1>16, <1>17, <1>18, <1>19, <1>20, <1>21
  DEF Next, Main, Undefined

-----------------------------------------------------------------------------
\* The handles

\* Every step keeps the handles in use the first ones, behind the scan.
LEMMA HandlesInOrderStep ==
  ASSUME IInv, [Next]_vars
  PROVE  HandlesInOrder'
<1> USE DEF HandlesInOrder, InLoop, Phases
<1>0. /\ HandlesInOrder /\ JoinedInOrder /\ TypeOK
      /\ tasks_count \in Nat /\ thread_count \in Nat /\ i \in Nat /\ i >= 1
      /\ \A s \in Slots : s \in Nat /\ s >= 1
  BY TasksAssumption DEF IInv, TypeOK, Slots
<1>1. ASSUME NEW n \in 0 .. MaxTasks, sched_init(n) PROVE HandlesInOrder'
  BY <1>0, <1>1 DEF sched_init, locals
<1>2. ASSUME NEW interval \in Intervals, NEW prio \in Priorities,
             sched_add_task(interval, prio)
      PROVE  HandlesInOrder'
  BY <1>0, <1>2 DEF sched_add_task, locals
<1>3. ASSUME NEW hook \in BOOLEAN, sched_set_log_hook(hook) PROVE HandlesInOrder'
  BY <1>0, <1>3 DEF sched_set_log_hook, locals
<1>4. CASE sched_stop
  BY <1>0, <1>4 DEF sched_stop, locals
<1>5. CASE sched_destroy
  BY <1>0, <1>5 DEF sched_destroy, locals
<1>6. CASE Enter
  BY <1>0, <1>6 DEF Enter
<1>7. CASE BeginTick
  BY <1>0, <1>7 DEF BeginTick, sched
<1>8. CASE Leave
  BY <1>0, <1>8 DEF Leave, sched
<1>9. CASE Scan
  BY <1>0, <1>9 DEF Scan, sched
<1>10. ASSUME NEW outcome \in { "deadline", "failed" }, TakeHandle(outcome)
       PROVE  HandlesInOrder'
  <2>1. /\ thread_count' = thread_count + 1 /\ i' = i + 1 /\ pc' = "scan"
        /\ handles' = handles /\ tasks_count' = tasks_count
        /\ thread_count < i /\ i =< tasks_count
    BY <1>0, <1>10 DEF TakeHandle, sched
  <2>2. \A s \in Slots : s # thread_count + 1 => thread'[s] = thread[s]
    BY <1>0, <1>10 DEF TakeHandle, TypeOK
  <2> QED
    BY <1>0, <1>10, <2>1, <2>2 DEF TakeHandle
<1>11. CASE EndScan
  BY <1>0, <1>11 DEF EndScan, sched
<1>12. CASE Join
  BY <1>0, <1>12 DEF Join, sched, TypeOK
<1>13. CASE JoinNoThread
  BY <1>0, <1>13 DEF JoinNoThread, sched
<1>14. CASE EndTick
  BY <1>0, <1>14 DEF EndTick, sched
<1>15. ASSUME pc = "sleep", pc' = "check", EndOfBody, UNCHANGED << sched, handles >>
       PROVE  HandlesInOrder'
  BY <1>0, <1>15 DEF EndOfBody, sched, JoinedInOrder, Past, NoThread
<1>16. ASSUME NEW s \in Slots, Worker(s) PROVE HandlesInOrder'
  <2>1. /\ thread[s].pc # "none"
        /\ \A t \in Slots : t # s => thread'[t] = thread[t]
        /\ pc' \in { pc, "undefined" }
        /\ MainUnchanged
    BY <1>16, WorkerStep, WorkerAssigned DEF IInv
  <2>2. pc \notin { "idle", "ready", "check", "stopped" } /\ pc \in Phases
    BY <1>0, <2>1 DEF TypeOK
  <2>3. InLoop /\ thread' \in [Slots -> Thread] /\ thread \in [Slots -> Thread]
    BY <1>0, <1>16, <2>2, WorkerStep, WorkerAssigned DEF IInv, TypeOK
  <2>4. \A t \in Slots : thread'[t].pc # "none" => t =< thread_count
    BY <1>0, <2>1
  <2> QED
    BY <1>0, <2>1, <2>2, <2>3, <2>4 DEF MainUnchanged, locals
<1>17. CASE Wake
  BY <1>15, <1>17 DEF Wake
<1>18. CASE handle_signal
  BY <1>0, <1>15, <1>18 DEF handle_signal, sched
<1>19. CASE TimePasses
  BY <1>0, <1>19 DEF TimePasses, sched, locals
<1>20. CASE UNCHANGED vars
  BY <1>0, <1>20 DEF vars, sched, locals
<1> QED
  BY <1>1, <1>2, <1>3, <1>4, <1>5, <1>6, <1>7, <1>8, <1>9, <1>10, <1>11, <1>12,
     <1>13, <1>14, <1>16, <1>17, <1>18, <1>19, <1>20
  DEF Next, Main, Spawn, SpawnFails, Undefined

\* Every step of the joins leaves only ended threads behind it, and no worker
\* comes back from there.
LEMMA JoinedInOrderStep ==
  ASSUME IInv, [Next]_vars
  PROVE  JoinedInOrder'
<1> USE DEF JoinedInOrder, Past
<1>0. /\ HandlesInOrder /\ JoinedInOrder /\ TypeOK
      /\ thread_count \in Nat /\ i \in Nat /\ i >= 1
      /\ \A s \in Slots : s \in Nat /\ s >= 1
  BY TasksAssumption DEF IInv, TypeOK, Slots
<1>1. ASSUME pc' \notin { "join", "sleep" } PROVE JoinedInOrder'
  BY <1>1
<1>2. CASE EndScan
  BY <1>0, <1>2 DEF EndScan
<1>3. CASE Join
  BY <1>0, <1>3 DEF Join, TypeOK
<1>4. CASE JoinNoThread
  BY <1>0, <1>4 DEF JoinNoThread
<1>5. CASE EndTick
  BY <1>0, <1>5 DEF EndTick, HandlesInOrder
<1>6. ASSUME NEW s \in Slots, Worker(s) PROVE JoinedInOrder'
  <2>1. /\ thread[s].pc \notin Past
        /\ \A t \in Slots : t # s => thread'[t] = thread[t]
        /\ pc' \in { pc, "undefined" }
        /\ MainUnchanged
    BY <1>6, WorkerStep, WorkerAssigned DEF IInv
  <2> QED
    BY <1>0, <2>1 DEF MainUnchanged, locals
<1>7. ASSUME NEW hook \in BOOLEAN, sched_set_log_hook(hook) PROVE JoinedInOrder'
  BY <1>0, <1>7 DEF sched_set_log_hook, locals
<1>8. CASE sched_stop
  BY <1>0, <1>8 DEF sched_stop, locals
<1>9. CASE handle_signal
  BY <1>0, <1>1, <1>9 DEF handle_signal
<1>10. CASE TimePasses
  BY <1>0, <1>10 DEF TimePasses, locals
<1>11. CASE UNCHANGED vars
  BY <1>0, <1>11 DEF vars, locals
<1> QED
  BY <1>1, <1>2, <1>3, <1>4, <1>5, <1>6, <1>7, <1>8, <1>9, <1>10, <1>11
  DEF Next, Main, Spawn, SpawnFails, TakeHandle, Undefined, sched_init,
      sched_add_task, sched_destroy, Enter, BeginTick, Leave, Scan, Wake

\* Every step keeps the entries of different handles different: the scan hands out
\* each index once, in ascending order.
LEMMA AssignedStep ==
  ASSUME IInv, [Next]_vars
  PROVE  Assigned'
<1> USE DEF Assigned
<1>0. /\ HandlesInOrder /\ JoinedInOrder /\ Assigned /\ TypeOK
      /\ thread_count \in Nat /\ i \in Nat /\ i >= 1 /\ tasks_count \in Nat
      /\ \A s \in Slots : s \in Nat /\ s >= 1
  BY TasksAssumption DEF IInv, TypeOK, Slots
<1>1. ASSUME \A s \in Slots : thread'[s].pc = "none" PROVE Assigned'
  BY <1>1
<1>2. ASSUME pc \in { "idle", "ready", "check", "stopped" } PROVE \A s \in Slots : thread[s].pc = "none"
  BY <1>0, <1>2 DEF HandlesInOrder
<1>3. ASSUME UNCHANGED thread, pc \in { "idle", "ready", "check", "stopped" }
      PROVE  Assigned'
  BY <1>1, <1>2, <1>3
<1>4. ASSUME UNCHANGED << thread, tasks_count, now_at >>,
             pc' \in { "scan", "spawn" } => pc \in { "scan", "spawn" },
             i' >= i \/ pc' \notin { "scan", "spawn" }, i' \in Nat
      PROVE  Assigned'
  BY <1>0, <1>4 DEF TypeOK, Thread
<1>5. CASE sched_stop
  BY <1>0, <1>4, <1>5 DEF sched_stop, locals, history
<1>6. ASSUME NEW hook \in BOOLEAN, sched_set_log_hook(hook) PROVE Assigned'
  BY <1>0, <1>4, <1>6 DEF sched_set_log_hook, locals, history
<1>7. CASE Scan
  BY <1>0, <1>4, <1>7 DEF Scan, sched, history
<1>8. ASSUME NEW outcome \in { "deadline", "failed" }, TakeHandle(outcome)
      PROVE  Assigned'
  <2>1. /\ thread_count' = thread_count + 1 /\ i' = i + 1 /\ pc' = "scan"
        /\ tasks_count' = tasks_count /\ now_at' = now_at
        /\ thread_count < i /\ i =< tasks_count /\ pc = "spawn"
    BY <1>0, <1>8 DEF TakeHandle, sched, HandlesInOrder
  <2>2. \A s \in Slots : s # thread_count + 1 => thread'[s] = thread[s]
    BY <1>0, <1>8 DEF TakeHandle, TypeOK
  <2>3. thread_count + 1 \in Slots =>
          /\ thread'[thread_count + 1].task = i
          /\ thread'[thread_count + 1].now_at = now_at
    BY <1>0, <1>8 DEF TakeHandle, TypeOK, NoThread
  <2>4. \A s \in Slots : s # thread_count + 1 /\ thread[s].pc # "none" =>
          thread[s].task \in Nat /\ thread[s].task < i
    BY <1>0, <2>1 DEF TypeOK, Thread
  <2> QED
    BY <1>0, <2>1, <2>2, <2>3, <2>4
<1>9. CASE EndScan
  BY <1>0, <1>4, <1>9 DEF EndScan, sched, history
<1>10. CASE Join
  BY <1>0, <1>10 DEF Join, sched, history, TypeOK
<1>11. CASE JoinNoThread
  BY <1>0, <1>4, <1>11 DEF JoinNoThread, sched, history
<1>12. CASE EndTick
  BY <1>0, <1>4, <1>12 DEF EndTick, sched
<1>13. ASSUME pc = "sleep", EndOfBody PROVE Assigned'
  BY <1>0, <1>1, <1>13 DEF EndOfBody, JoinedInOrder, Past, NoThread
<1>14. ASSUME NEW s \in Slots, Worker(s) PROVE Assigned'
  <2>1. /\ thread[s].pc # "none"
        /\ \A t \in Slots : t # s => thread'[t] = thread[t]
        /\ thread'[s].task = thread[s].task
        /\ thread'[s].now_at = thread[s].now_at
        /\ pc' \in { pc, "undefined" }
        /\ MainUnchanged
    BY <1>14, WorkerStep, WorkerAssigned DEF IInv
  <2> QED
    BY <1>0, <2>1 DEF MainUnchanged, locals, history
<1>15. CASE handle_signal
  <2>1. CASE pc = "sleep" /\ EndOfBody
    BY <1>13, <2>1
  <2>2. CASE UNCHANGED << pc, i, thread, now_at >>
    BY <1>0, <1>4, <1>15, <2>2 DEF handle_signal, sched
  <2> QED
    BY <1>15, <2>1, <2>2 DEF handle_signal
<1>16. CASE TimePasses
  BY <1>0, <1>4, <1>16 DEF TimePasses, sched, locals, history
<1>17. CASE UNCHANGED vars
  BY <1>0, <1>4, <1>17 DEF vars, sched, locals, history
<1> QED
  BY <1>3, <1>5, <1>6, <1>7, <1>8, <1>9, <1>10, <1>11, <1>12, <1>13, <1>14, <1>15,
     <1>16, <1>17
  DEF Next, Main, Spawn, SpawnFails, Undefined, sched_init, sched_add_task,
      sched_destroy, Enter, BeginTick, Leave, Wake

-----------------------------------------------------------------------------
\* The mutex

\* Every step of the second critical section is made by the holder of the mutex.
LEMMA MutexHeldStep ==
  ASSUME IInv, [Next]_vars
  PROVE  MutexHeld'
<1> USE DEF MutexHeld, Critical
<1>0. MutexHeld /\ TypeOK /\ \A s \in Slots : s # Unlocked
  BY TasksAssumption DEF IInv, Slots, Unlocked
<1>1. ASSUME NEW s \in Slots, Worker(s) PROVE MutexHeld'
  <2>1. \A t \in Slots : t # s => thread'[t] = thread[t]
    BY <1>1, WorkerStep, WorkerAssigned DEF IInv
  <2>2. CASE Record(s)
    BY <1>0, <2>1, <2>2 DEF Record, Moves
  <2>3. CASE Release(s)
    BY <1>0, <2>1, <2>3 DEF Release, Moves, TypeOK
  <2>4. ASSUME mutex' = mutex, thread'[s].pc \in Critical => thread[s].pc \in Critical
        PROVE  MutexHeld'
    BY <1>0, <2>1, <2>4
  <2>5. CASE SetDeadline(s) \/ CallTask(s) \/ TaskReturns(s)
    <3>1. mutex' = mutex
      BY <2>5 DEF SetDeadline, CallTask, TaskReturns
    <3>2. thread'[s].pc \in { "begin", "callback", "record" }
      <4> thread \in [Slots -> Thread] /\ DOMAIN thread[s] = DOMAIN NoThread
        BY <1>0 DEF TypeOK, Thread, NoThread
      <4>1. CASE SetDeadline(s)
        BY <4>1 DEF SetDeadline, Moves, NoThread
      <4>2. CASE CallTask(s)
        BY <4>2 DEF CallTask, NoThread
      <4>3. CASE TaskReturns(s)
        BY <4>3 DEF TaskReturns, NoThread
      <4> QED
        BY <2>5, <4>1, <4>2, <4>3
    <3> QED
      BY <2>4, <3>1, <3>2
  <2>6. CASE CheckOverrun(s) \/ CallHook(s) \/ HookReturns(s)
    <3>1. mutex' = mutex /\ thread[s].pc \in Critical
      BY <2>6 DEF CheckOverrun, CallHook, HookReturns, Moves
    <3> QED
      BY <2>4, <3>1
  <2> QED
    BY <1>1, <2>2, <2>3, <2>5, <2>6 DEF Worker
<1>2. ASSUME mutex' = mutex,
             \A s \in Slots : thread'[s].pc \in Critical => thread'[s] = thread[s]
      PROVE  MutexHeld'
  BY <1>0, <1>2
<1>3. ASSUME NEW outcome \in { "deadline", "failed" }, TakeHandle(outcome)
      PROVE  MutexHeld'
  BY <1>0, <1>2, <1>3 DEF TakeHandle, NoThread, TypeOK
<1>4. CASE Join
  BY <1>0, <1>2, <1>4 DEF Join, TypeOK
<1>5. CASE Wake \/ handle_signal
  <2>1. /\ mutex' = mutex
        /\ EndOfBody \/ UNCHANGED thread
    BY <1>5 DEF Wake, handle_signal
  <2>2. ASSUME EndOfBody, NEW s \in Slots, thread'[s].pc \in Critical
        PROVE  thread'[s] = thread[s]
    BY <2>2 DEF EndOfBody, NoThread
  <2> QED
    BY <1>2, <2>1, <2>2
<1>6. ASSUME UNCHANGED << mutex, thread >> PROVE MutexHeld'
  BY <1>2, <1>6
<1> QED
  BY <1>1, <1>3, <1>4, <1>5, <1>6
  DEF Next, Main, Undefined, vars, sched_init, sched_add_task, sched_set_log_hook,
      sched_stop, sched_destroy, Enter, BeginTick, Leave, Scan, EndScan,
      JoinNoThread, EndTick, TimePasses, Spawn, SpawnFails

-----------------------------------------------------------------------------
\* Time

\* Every step keeps the wrapped times and their history variables together.
LEMMA TimesStep ==
  ASSUME IInv, [Next]_vars
  PROVE  Times'
<1> USE DEF Times
<1>0. /\ Times /\ HandlesInOrder /\ Assigned /\ JoinedInOrder /\ TypeOK
      /\ clock \in Nat /\ now_at \in Nat
      /\ \A k \in Slots : tasks[k] \in Task /\ tasks[k].last_run_at \in Nat
      /\ U32(0) = 0
  BY WordAssumption, ModSmall DEF IInv, TypeOK, Task, Words
\* Steps that read or write no time.
<1>1. ASSUME UNCHANGED << tasks, thread, clock, now_ms, now_at >>,
             pc' \in { "scan", "spawn" } => pc \in { "scan", "spawn" }
      PROVE  Times'
  BY <1>0, <1>1
\* Outside the loop only the table changes.
<1>2. ASSUME UNCHANGED << thread, clock, now_ms, now_at >>,
             pc' \notin { "scan", "spawn" },
             \A k \in Slots : /\ tasks'[k].last_run_ms = U32(tasks'[k].last_run_at)
                              /\ tasks'[k].last_run_at =< clock
      PROVE  Times'
  BY <1>0, <1>2
<1>3. ASSUME NEW n \in 0 .. MaxTasks, sched_init(n) PROVE Times'
  BY <1>0, <1>2, <1>3 DEF sched_init, locals, history, ZeroTask
<1>4. ASSUME NEW interval \in Intervals, NEW prio \in Priorities,
             sched_add_task(interval, prio)
      PROVE  Times'
  <2>1. /\ AddedTask(interval, prio, clock).last_run_at = clock
        /\ AddedTask(interval, prio, clock).last_run_ms = U32(clock)
    BY <1>0, AddedTaskType, IntervalsAssumption, PrioritiesAssumption
  <2>2. \A k \in Slots : \/ tasks'[k] = tasks[k]
                         \/ tasks'[k] = AddedTask(interval, prio, clock)
    BY <1>0, <1>4 DEF sched_add_task, TypeOK
  <2> QED
    BY <1>0, <1>2, <1>4, <2>1, <2>2 DEF sched_add_task, locals, history
<1>5. CASE sched_destroy
  BY <1>0, <1>2, <1>5 DEF sched_destroy, locals, history, ZeroTask
<1>6. CASE Enter
  <2>1. \A k \in Slots : \E j \in Slots : tasks'[k] = tasks[j]
    BY <1>0, <1>6, RearrangedType DEF Enter, sort_tasks_by_priority, TypeOK
  <2> QED
    BY <1>0, <1>2, <1>6, <2>1 DEF Enter
<1>7. CASE BeginTick
  BY <1>0, <1>7 DEF BeginTick, sched, millis
<1>8. ASSUME NEW outcome \in { "deadline", "failed" }, TakeHandle(outcome)
      PROVE  Times'
  <2>1. \A s \in Slots : \/ thread'[s] = thread[s]
                         \/ /\ thread'[s].now_ms = now_ms
                            /\ thread'[s].now_at = now_at
    BY <1>0, <1>8 DEF TakeHandle, NoThread, TypeOK
  <2> QED
    BY <1>0, <1>8, <2>1 DEF TakeHandle, sched
<1>9. CASE Join
  BY <1>0, <1>9 DEF Join, sched, history, TypeOK
<1>10. ASSUME EndOfBody, pc' = "check", UNCHANGED << sched, clock >> PROVE Times'
  <2>1. \A s \in Slots : thread'[s] = thread[s] \/ thread'[s] = NoThread
    BY <1>10 DEF EndOfBody
  <2> QED
    BY <1>0, <1>10, <2>1 DEF EndOfBody, sched, NoThread
<1>11. ASSUME NEW s \in Slots, Worker(s) PROVE Times'
  <2>1. /\ thread[s].now_at = now_at
        /\ thread[s].now_ms = U32(now_at)
        /\ pc' \in { pc, "undefined" }
        /\ MainUnchanged
    BY <1>0, <1>11, WorkerStep, WorkerAssigned DEF IInv
  <2>2. \A k \in Slots : \/ /\ tasks'[k].last_run_at = tasks[k].last_run_at
                            /\ tasks'[k].last_run_ms = tasks[k].last_run_ms
                         \/ /\ tasks'[k].last_run_at = thread[s].now_at
                            /\ tasks'[k].last_run_ms = thread[s].now_ms
    BY <1>11, WorkerStep, WorkerAssigned DEF IInv
  <2>3. \A t \in Slots : /\ thread'[t].now_ms = thread[t].now_ms
                         /\ thread'[t].now_at = thread[t].now_at
    BY <1>11, WorkerStep, WorkerAssigned DEF IInv
  <2> QED
    BY <1>0, <2>1, <2>2, <2>3 DEF MainUnchanged, locals, history
<1>12. CASE handle_signal
  BY <1>1, <1>10, <1>12 DEF handle_signal, sched
<1>13. CASE TimePasses
  BY <1>0, <1>13 DEF TimePasses, sched, locals, history
<1>14. ASSUME NEW hook \in BOOLEAN, sched_set_log_hook(hook) PROVE Times'
  BY <1>1, <1>14 DEF sched_set_log_hook, locals, history
<1>15. CASE sched_stop \/ Leave \/ Scan \/ EndScan \/ JoinNoThread \/ EndTick
  BY <1>1, <1>15 DEF sched_stop, Leave, Scan, EndScan, JoinNoThread, EndTick, sched,
                     locals, history
<1>16. CASE UNCHANGED vars
  BY <1>1, <1>16 DEF vars, sched, locals, history
<1> QED
  BY <1>3, <1>4, <1>5, <1>6, <1>7, <1>8, <1>9, <1>10, <1>11, <1>12, <1>13, <1>14,
     <1>15, <1>16
  DEF Next, Main, Spawn, SpawnFails, Wake, Undefined

\* Where DueMeansWaited is used: the test is made in Scan, the thread created in
\* Spawn, and in between and until Record nobody touches the entry.
LEMMA WaitedStep ==
  ASSUME IInv, [Next]_vars
  PROVE  Waited'
<1> USE DEF Waited, NoEarlyRun, Unrecorded
<1>0. /\ Times /\ HandlesInOrder /\ Assigned /\ JoinedInOrder /\ Waited /\ TypeOK
      /\ now_at \in Nat /\ tasks_count \in Nat /\ i \in Nat /\ i >= 1
      /\ 1 .. tasks_count \subseteq Slots
      /\ \A s \in Slots : s \in Nat /\ s >= 1
  BY TasksAssumption DEF IInv, TypeOK, Slots
<1>1. ASSUME \A s \in Slots : thread'[s].pc \in Past, pc' # "spawn" PROVE Waited'
  BY <1>1 DEF Past
<1>2. ASSUME pc \in { "idle", "ready", "check", "stopped" }, UNCHANGED thread,
             pc' # "spawn"
      PROVE  Waited'
  <2>1. \A s \in Slots : thread[s].pc = "none"
    BY <1>0, <1>2 DEF HandlesInOrder
  <2> QED
    BY <1>1, <1>2, <2>1 DEF Past
<1>3. ASSUME UNCHANGED << tasks, thread, now_at >>, pc' = "spawn" => pc = "spawn" /\ i' = i
      PROVE  Waited'
  BY <1>0, <1>3
<1>4. CASE Scan
  <2>1. ASSUME pc' = "spawn"
        PROVE  now_at - tasks[i].last_run_at >= tasks[i].interval_ms
    <3>1. i \in Slots /\ IsDue(tasks[i], U32(now_at)) /\ pc = "scan"
      BY <1>0, <1>4, <2>1 DEF Scan, Times
    <3>2. /\ tasks[i] \in Task
          /\ tasks[i].last_run_ms = U32(tasks[i].last_run_at)
          /\ tasks[i].last_run_at =< now_at
      BY <1>0, <3>1 DEF Times, TypeOK
    <3> QED
      BY <1>0, <3>1, <3>2, DueMeansWaited
  <2>2. pc' = "spawn" => i' = i
    BY <1>4 DEF Scan
  <2> QED
    BY <1>0, <1>4, <2>1, <2>2 DEF Scan, sched, history
<1>5. ASSUME NEW outcome \in { "deadline", "failed" }, TakeHandle(outcome)
      PROVE  Waited'
  <2>1. \A s \in Slots : \/ thread'[s] = thread[s]
                         \/ thread'[s].task = i /\ thread'[s].now_at = now_at
    BY <1>0, <1>5 DEF TakeHandle, NoThread, TypeOK
  <2>2. tasks' = tasks /\ pc = "spawn" /\ pc' = "scan"
    BY <1>5 DEF TakeHandle, sched
  <2> QED
    BY <1>0, <2>1, <2>2
<1>6. CASE Join
  BY <1>0, <1>6 DEF Join, sched, history, TypeOK
<1>7. ASSUME EndOfBody, pc = "sleep", pc' = "check" PROVE Waited'
  <2>1. \A s \in Slots : thread'[s].pc \in Past
    BY <1>0, <1>7 DEF EndOfBody, JoinedInOrder, Past, NoThread
  <2> QED
    BY <1>1, <1>7, <2>1
<1>8. ASSUME NEW s \in Slots, Worker(s) PROVE Waited'
  <2> DEFINE k == thread[s].task
  <2>1. /\ pc' \in { pc, "undefined" } /\ i' = i /\ now_at' = now_at
        /\ thread[s].pc # "none" /\ k \in Slots
        /\ \A t \in Slots : t # s => thread'[t] = thread[t]
        /\ thread'[s].task = k
        /\ thread'[s].now_at = thread[s].now_at
        /\ Unrecorded(s)' => Unrecorded(s)
    BY <1>8, WorkerStep, WorkerAssigned DEF IInv, MainUnchanged, locals, history
  <2>2. /\ \A j \in Slots : j # k => tasks'[j] = tasks[j]
        /\ tasks'[k].interval_ms = tasks[k].interval_ms
        /\ Unrecorded(s)' => tasks'[k].last_run_at = tasks[k].last_run_at
    BY <1>8, <2>1, WorkerStep, WorkerAssigned DEF IInv
  <2> HIDE DEF k
  <2>3. pc = "spawn" => i \in Slots /\ i # k
    BY <1>0, <2>1 DEF HandlesInOrder, Assigned, k
  <2>4. ASSUME NEW t \in Slots, t # s, thread[t].pc # "none"
        PROVE  thread[t].task \in Slots /\ thread[t].task # k
    BY <1>0, <2>1, <2>4 DEF Assigned, k
  <2>5. ASSUME NEW t \in Slots, Unrecorded(t)'
        PROVE  LET task == tasks'[thread'[t].task]
               IN  thread'[t].now_at - task.last_run_at >= task.interval_ms
    <3>1. CASE t = s
      BY <1>0, <2>1, <2>2, <2>5, <3>1 DEF k
    <3>2. CASE t # s
      BY <1>0, <2>1, <2>2, <2>4, <2>5, <3>2
    <3> QED
      BY <3>1, <3>2
  <2> QED
    BY <1>0, <2>1, <2>2, <2>3, <2>5
<1>9. CASE handle_signal
  BY <1>3, <1>7, <1>9 DEF handle_signal, sched
<1>10. ASSUME NEW hook \in BOOLEAN, sched_set_log_hook(hook) PROVE Waited'
  BY <1>3, <1>10 DEF sched_set_log_hook, locals, history
<1>11. CASE sched_stop \/ EndScan \/ JoinNoThread \/ EndTick \/ TimePasses
  BY <1>3, <1>11 DEF sched_stop, EndScan, JoinNoThread, EndTick, TimePasses, sched,
                     locals, history
<1>12. CASE UNCHANGED vars
  BY <1>3, <1>12 DEF vars, sched, locals, history
<1> QED
  BY <1>2, <1>4, <1>5, <1>6, <1>7, <1>8, <1>9, <1>10, <1>11, <1>12
  DEF Next, Main, Spawn, SpawnFails, Wake, Undefined, sched_init, sched_add_task,
      sched_destroy, Enter, BeginTick, Leave

-----------------------------------------------------------------------------
\* The books: deadlines and counters

\* The due time of a run is what the table says until the run is recorded, and the
\* deadline that is compared in CheckOverrun is its low word.
Deadlines ==
  \A s \in Slots :
    thread[s].pc # "none" =>
      LET task == tasks[thread[s].task]
      IN  /\ thread[s].due_at =< now_at
          /\ Unrecorded(s) => thread[s].due_at = task.last_run_at + task.interval_ms
          /\ thread[s].pc \in { "begin", "callback", "record", "locked" } =>
               task.deadline_ms = U32(thread[s].due_at)

\* A thread for entry k was started whose run is not recorded yet.
Pending(k) == \E s \in Slots : Unrecorded(s) /\ thread[s].task = k

Owed(k) == IF Pending(k) THEN 1 ELSE 0

\* The counters of the table start from zero and miss only the runs that are pending.
Counted ==
  /\ pc = "ready" => \A k \in Slots : tasks[k].run_count = 0
  /\ InLoop => \A k \in Entries : U32(started[k]) = U32(tasks[k].run_count + Owed(k))

\* What a worker's step does to its deadline and to the counter of its entry.
LEMMA WorkerBooks ==
  ASSUME TypeOK, Times, NEW s \in Slots, thread[s].task \in Slots, Worker(s),
         NEW k \in Slots, k = thread[s].task
  PROVE  /\ thread'[s].due_at = thread[s].due_at
         /\ thread'[s].pc \in { "begin", "callback", "record", "locked" } =>
              thread[s].pc \in { "deadline", "begin", "callback", "record" }
         /\ thread[s].pc = "deadline" =>
              tasks'[k].deadline_ms = U32(tasks[k].last_run_at + tasks[k].interval_ms)
         /\ thread[s].pc # "deadline" => tasks'[k].deadline_ms = tasks[k].deadline_ms
         /\ thread[s].pc = "record" => /\ tasks'[k].run_count = U32(tasks[k].run_count + 1)
                                       /\ thread'[s].pc = "locked"
         /\ thread[s].pc # "record" => /\ tasks'[k].run_count = tasks[k].run_count
                                       /\ Unrecorded(s)' <=> Unrecorded(s)
<1> USE DEF Unrecorded
<1>0. /\ thread \in [Slots -> Thread] /\ tasks \in [Slots -> Task]
      /\ tasks[k] \in Task /\ thread[s] \in Thread /\ clock \in Nat
      /\ tasks[k].last_run_ms = U32(tasks[k].last_run_at)
  BY DEF TypeOK, Times
<1>1. CASE SetDeadline(s)
  <2>1. /\ tasks' = [ tasks EXCEPT ![k] = WithDeadline(tasks[k]) ]
        /\ thread' = [ thread EXCEPT ![s].pc = "begin" ] /\ thread[s].pc = "deadline"
    BY <1>1 DEF SetDeadline, Moves
  <2>2. tasks'[k] = WithDeadline(tasks[k])
    BY <1>0, <2>1
  <2>3. thread'[s].pc = "begin" /\ thread'[s].due_at = thread[s].due_at
    BY <1>0, <2>1 DEF Thread
  <2>4. /\ tasks'[k].deadline_ms = U32(tasks[k].last_run_at + tasks[k].interval_ms)
        /\ tasks'[k].run_count = tasks[k].run_count
    BY <1>0, <2>2, WithDeadlineFixes
  <2> QED
    BY <2>1, <2>3, <2>4
<1>2. CASE CallTask(s) \/ TaskReturns(s)
  <2>1. tasks' = tasks /\ thread[s].pc \in { "begin", "callback" }
    BY <1>2 DEF CallTask, TaskReturns
  <2>2. thread'[s].pc \in { "callback", "record" } /\ thread'[s].due_at = thread[s].due_at
    <3> DOMAIN thread = Slots /\ DOMAIN thread[s] = DOMAIN NoThread
      BY <1>0 DEF Thread, NoThread
    <3>1. CASE CallTask(s)
      BY <3>1 DEF CallTask, NoThread
    <3>2. CASE TaskReturns(s)
      BY <3>2 DEF TaskReturns, NoThread
    <3> QED
      BY <1>2, <3>1, <3>2
  <2> QED
    BY <2>1, <2>2
<1>3. CASE Record(s)
  <2> DEFINE task == tasks[k]
             done == Accounted(task, thread[s].now_ms, thread[s].now_at,
                               thread[s].duration_ms)
  <2>1. /\ tasks' = [ tasks EXCEPT ![k] = done ]
        /\ thread' = [ thread EXCEPT ![s].pc = "locked" ] /\ thread[s].pc = "record"
    BY <1>3 DEF Record, Moves
  <2>2. /\ done.run_count = U32(task.run_count + 1)
        /\ done.deadline_ms = task.deadline_ms
    <3> task \in Task
      BY <1>0
    <3> HIDE DEF task
    <3> QED
      BY AccountedBooks
  <2>3. tasks'[k] = done
    BY <1>0, <2>1
  <2> HIDE DEF done
  <2>4. thread'[s].pc = "locked" /\ thread'[s].due_at = thread[s].due_at
    BY <1>0, <2>1 DEF Thread
  <2> QED
    BY <2>1, <2>2, <2>3, <2>4
<1>4. CASE CheckOverrun(s)
  <2>1. PICK to \in { "hooked", "release" } : Moves(s, "locked", to)
    BY <1>4 DEF CheckOverrun
  <2>2. tasks'[k] = OverrunCounted(tasks[k], clock)
    BY <1>0, <1>4 DEF CheckOverrun
  <2>3. /\ tasks'[k].run_count = tasks[k].run_count
        /\ tasks'[k].deadline_ms = tasks[k].deadline_ms
    BY <1>0, <2>2, OverrunBooks
  <2>4. thread'[s].pc = to /\ thread'[s].due_at = thread[s].due_at /\ thread[s].pc = "locked"
    BY <1>0, <2>1 DEF Moves, Thread
  <2> QED
    BY <2>3, <2>4
<1>5. CASE CallHook(s) \/ HookReturns(s) \/ Release(s)
  <2>1. PICK from \in { "hooked", "inhook", "release" },
             to \in { "hooked", "inhook", "release", "ended" } : Moves(s, from, to)
    BY <1>5 DEF CallHook, HookReturns, Release
  <2>2. tasks' = tasks
    BY <1>5 DEF CallHook, HookReturns, Release
  <2>3. thread'[s].pc = to /\ thread'[s].due_at = thread[s].due_at /\ thread[s].pc = from
    BY <1>0, <2>1 DEF Moves, Thread
  <2> QED
    BY <2>2, <2>3
<1> QED
  BY <1>1, <1>2, <1>3, <1>4, <1>5 DEF Worker

\* No step moves the deadline of a run that is under way.
LEMMA DeadlinesStep ==
  ASSUME IInv, Deadlines, [Next]_vars
  PROVE  Deadlines'
<1> USE DEF Deadlines, Unrecorded
<1>0. /\ Times /\ HandlesInOrder /\ Assigned /\ JoinedInOrder /\ Waited /\ TypeOK
      /\ now_at \in Nat /\ i \in Nat
  BY DEF IInv, TypeOK
\* Without a worker there is nothing to show.
<1>1. ASSUME \A s \in Slots : thread'[s].pc = "none" PROVE Deadlines'
  BY <1>1
<1>2. ASSUME pc \in { "idle", "ready", "check", "stopped" }, UNCHANGED thread
      PROVE  Deadlines'
  <2>1. \A s \in Slots : thread[s].pc = "none"
    BY <1>0, <1>2, TasksAssumption DEF HandlesInOrder, Slots
  <2> QED
    BY <1>1, <1>2, <2>1
<1>3. ASSUME UNCHANGED << tasks, thread, now_at >> PROVE Deadlines'
  BY <1>3
<1>4. ASSUME NEW outcome \in { "deadline", "failed" }, TakeHandle(outcome)
      PROVE  Deadlines'
  <2>1. i \in Slots
    BY <1>0, <1>4, TasksAssumption DEF TakeHandle, HandlesInOrder, Slots, TypeOK
  <2> DEFINE due == tasks[i].last_run_at + tasks[i].interval_ms
  <2>2. due =< now_at
    BY <1>0, <1>4, <2>1, WordAssumption DEF TakeHandle, Waited, TypeOK, Task, Words
  <2>3. \A s \in Slots : \/ thread'[s] = thread[s]
                         \/ /\ thread'[s].task = i /\ thread'[s].due_at = due
                            /\ thread'[s].pc = outcome
    BY <1>0, <1>4 DEF TakeHandle, NoThread, TypeOK
  <2>4. tasks' = tasks /\ now_at' = now_at
    BY <1>4 DEF TakeHandle, sched
  <2> QED
    BY <2>2, <2>3, <2>4
<1>5. CASE Join
  <2>1. \A s \in Slots : \/ thread'[s] = thread[s]
                         \/ /\ thread'[s].pc = "joined" /\ thread[s].pc = "ended"
                            /\ thread'[s].due_at = thread[s].due_at
    BY <1>0, <1>5 DEF Join, TypeOK, Thread
  <2> QED
    BY <1>5, <2>1 DEF Join, sched, history
<1>6. ASSUME EndOfBody, pc = "sleep" PROVE Deadlines'
  <2>1. \A s \in Slots : thread'[s].pc = "none"
    BY <1>0, <1>6 DEF EndOfBody, JoinedInOrder, Past, NoThread
  <2> QED
    BY <1>1, <2>1
<1>7. ASSUME NEW s \in Slots, Worker(s) PROVE Deadlines'
  <2>1. PICK k \in Slots : k = thread[s].task
    BY <1>7, WorkerAssigned DEF IInv
  <2>2. /\ thread[s].pc # "none" /\ now_at' = now_at
        /\ \A t \in Slots : t # s => thread'[t] = thread[t]
        /\ thread'[s].task = k
        /\ Unrecorded(s)' => Unrecorded(s)
    BY <1>7, <2>1, WorkerStep, WorkerAssigned DEF IInv, MainUnchanged, history
  <2>3. /\ \A j \in Slots : j # k => tasks'[j] = tasks[j]
        /\ tasks'[k].interval_ms = tasks[k].interval_ms
        /\ Unrecorded(s)' => tasks'[k].last_run_at = tasks[k].last_run_at
    BY <1>7, <2>1, <2>2, WorkerStep, WorkerAssigned DEF IInv
  <2>4. /\ thread'[s].due_at = thread[s].due_at
        /\ thread'[s].pc \in { "begin", "callback", "record", "locked" } =>
             thread[s].pc \in { "deadline", "begin", "callback", "record" }
        /\ thread[s].pc = "deadline" =>
             tasks'[k].deadline_ms = U32(tasks[k].last_run_at + tasks[k].interval_ms)
        /\ thread[s].pc # "deadline" => tasks'[k].deadline_ms = tasks[k].deadline_ms
    BY <1>0, <1>7, <2>1, WorkerBooks
  <2>5. ASSUME NEW t \in Slots, t # s, thread[t].pc # "none"
        PROVE  thread[t].task \in Slots /\ thread[t].task # k
    BY <1>0, <2>1, <2>2, <2>5, TasksAssumption DEF Assigned, TypeOK, Slots
  <2> SUFFICES ASSUME NEW t \in Slots, thread'[t].pc # "none"
               PROVE  LET task == tasks'[thread'[t].task]
                      IN  /\ thread'[t].due_at =< now_at'
                          /\ Unrecorded(t)' =>
                               thread'[t].due_at = task.last_run_at + task.interval_ms
                          /\ thread'[t].pc \in { "begin", "callback", "record", "locked" } =>
                               task.deadline_ms = U32(thread'[t].due_at)
    OBVIOUS
  <2>6. CASE t = s
    BY <2>1, <2>2, <2>3, <2>4, <2>6
  <2>7. CASE t # s
    BY <2>2, <2>3, <2>5, <2>7
  <2> QED
    BY <2>6, <2>7
<1>8. CASE handle_signal
  BY <1>3, <1>6, <1>8 DEF handle_signal, sched
<1>9. ASSUME NEW hook \in BOOLEAN, sched_set_log_hook(hook) PROVE Deadlines'
  BY <1>3, <1>9 DEF sched_set_log_hook, locals, history
<1>10. CASE \/ sched_stop \/ Scan \/ EndScan \/ JoinNoThread \/ EndTick \/ TimePasses
  BY <1>3, <1>10 DEF sched_stop, Scan, EndScan, JoinNoThread, EndTick, TimePasses, sched,
                     locals, history
<1>11. CASE UNCHANGED vars
  BY <1>3, <1>11 DEF vars, sched, locals, history
<1> QED
  BY <1>2, <1>4, <1>5, <1>6, <1>7, <1>8, <1>9, <1>10, <1>11
  DEF Next, Main, Spawn, SpawnFails, Wake, Undefined, sched_init, sched_add_task,
      sched_destroy, Enter, BeginTick, Leave

\* A counter that agrees stays so while nobody starts or records a run.
LEMMA CountedKept ==
  ASSUME Counted, UNCHANGED << started, tasks_count >>,
         pc' = "ready" => pc = "ready", InLoop' => InLoop,
         \A k \in Slots : tasks'[k].run_count = tasks[k].run_count,
         \A k \in Slots : Pending(k)' <=> Pending(k),
         tasks_count \in 0 .. MaxTasks
  PROVE  Counted'
<1>1. ASSUME NEW k \in Slots PROVE Owed(k)' = Owed(k)
  BY <1>1 DEF Owed
<1>2. Entries \subseteq Slots /\ Entries' = Entries
  BY TasksAssumption DEF Entries, Slots
<1> QED
  BY <1>1, <1>2 DEF Counted

\* Every run that is started is counted once, when it is recorded, and no worker
\* overwrites what another has counted.
LEMMA CountedStep ==
  ASSUME IInv, Counted, [Next]_vars
  PROVE  Counted'
<1> USE DEF Unrecorded, Phases
<1>0. /\ Times /\ HandlesInOrder /\ Assigned /\ JoinedInOrder /\ TypeOK
      /\ i \in Nat /\ tasks_count \in 0 .. MaxTasks /\ Entries \subseteq Slots
      /\ tasks_count \in Nat
      /\ \A k \in Slots : /\ k \in Nat /\ k >= 1 /\ started[k] \in Nat
                          /\ tasks[k].run_count \in Int
  <2>1. TypeOK /\ tasks_count \in 0 .. MaxTasks
    BY TasksAssumption DEF IInv, TypeOK
  <2>2. \A k \in Slots : tasks[k].run_count \in Int
    BY <2>1, WordAssumption DEF TypeOK, Task, Words
  <2> QED
    BY <2>1, <2>2, TasksAssumption DEF IInv, TypeOK, Entries, Slots
\* Threads that come and go without a run pending.
<1>1. ASSUME UNCHANGED << tasks, tasks_count, started >>,
             pc' = "ready" => pc = "ready", InLoop' => InLoop,
             \A s \in Slots : \/ thread'[s] = thread[s]
                             \/ ~ (Unrecorded(s) \/ Unrecorded(s)')
      PROVE  Counted'
  <2>1. ASSUME NEW k \in Slots PROVE Pending(k)' <=> Pending(k)
    BY <1>1 DEF Pending
  <2> QED
    BY <1>0, <1>1, <2>1, CountedKept
<1>2. ASSUME NEW n \in 0 .. MaxTasks, sched_init(n) PROVE Counted'
  BY <1>2 DEF sched_init, Counted, InLoop, ZeroTask
<1>3. ASSUME NEW interval \in Intervals, NEW prio \in Priorities,
             sched_add_task(interval, prio)
      PROVE  Counted'
  <2>1. AddedTask(interval, prio, clock).run_count = 0
    BY DEF AddedTask, ZeroTask
  <2>2. \A k \in Slots : \/ tasks'[k] = tasks[k]
                         \/ tasks'[k] = AddedTask(interval, prio, clock)
    BY <1>0, <1>3 DEF sched_add_task, TypeOK
  <2> QED
    BY <1>3, <2>1, <2>2 DEF sched_add_task, Counted, InLoop
<1>4. CASE sched_destroy
  BY <1>4 DEF sched_destroy, Counted, InLoop
<1>5. CASE Enter
  <2>1. PICK p \in Sortings(tasks, tasks_count) : tasks' = Rearranged(tasks, p)
    BY <1>5 DEF Enter, sort_tasks_by_priority
  <2>2. \A k \in Slots : p[k] \in Slots /\ tasks'[k] = tasks[p[k]]
    BY <1>0, <2>1, RearrangedType DEF TypeOK
  <2>3. \A k \in Slots : tasks'[k].run_count = 0 /\ started'[k] = 0
    BY <1>5, <2>2 DEF Enter, Counted
  <2>4. \A s \in Slots : thread[s].pc = "none"
    BY <1>0, <1>5, TasksAssumption DEF Enter, HandlesInOrder, TypeOK, Slots
  <2>5. ASSUME NEW k \in Slots PROVE ~ Pending(k)'
    BY <1>5, <2>4 DEF Enter, Pending
  <2>6. ASSUME NEW k \in Slots PROVE Owed(k)' = 0
    BY <2>5 DEF Owed
  <2>7. Entries' = Entries /\ pc' # "ready"
    BY <1>5 DEF Enter, Entries
  <2> QED
    BY <1>0, <2>3, <2>6, <2>7 DEF Counted
<1>6. ASSUME pc \notin { "idle", "stopped" }, UNCHANGED << tasks, tasks_count, started, thread >>,
             pc' = "ready" => pc = "ready", InLoop' => InLoop
      PROVE  Counted'
  BY <1>1, <1>6
<1>7. CASE BeginTick \/ Leave \/ Scan \/ EndScan \/ EndTick
  BY <1>6, <1>7 DEF BeginTick, Leave, Scan, EndScan, EndTick, sched, history, InLoop
<1>8. CASE JoinNoThread
  BY <1>6, <1>8 DEF JoinNoThread, sched, history, InLoop
<1>9. ASSUME TakeHandle("failed"), UNCHANGED started PROVE Counted'
  <2>1. thread[thread_count'].pc = "none" /\ thread_count' \in Slots
    BY <1>0, <1>9, TasksAssumption DEF TakeHandle, HandlesInOrder, TypeOK, Slots
  <2>2. \A s \in Slots : \/ thread'[s] = thread[s]
                         \/ thread'[s].pc = "failed" /\ thread[s].pc = "none"
    BY <1>0, <1>9, <2>1 DEF TakeHandle, NoThread, TypeOK
  <2> QED
    BY <1>1, <1>9, <2>2 DEF TakeHandle, sched, InLoop
<1>10. CASE Spawn
  <2>1. /\ thread_count' \in Slots /\ thread[thread_count'].pc = "none"
        /\ i \in Slots /\ i =< tasks_count
    BY <1>0, <1>10, TasksAssumption
    DEF Spawn, TakeHandle, HandlesInOrder, TypeOK, Slots
  <2>2. /\ thread'[thread_count'].pc = "deadline" /\ thread'[thread_count'].task = i
        /\ \A s \in Slots : s # thread_count' => thread'[s] = thread[s]
    BY <1>0, <1>10, <2>1 DEF Spawn, TakeHandle, NoThread, TypeOK
  <2>3. /\ UNCHANGED << tasks, tasks_count >> /\ pc = "spawn" /\ pc' = "scan"
        /\ started'[i] = started[i] + 1
        /\ \A k \in Slots : k # i => started'[k] = started[k]
    BY <1>0, <1>10, <2>1 DEF Spawn, TakeHandle, sched, TypeOK
  <2>4. PICK j \in Slots : j = i
    BY <2>1
  <2>5. PICK w \in Slots : w = thread_count'
    BY <2>1
  <2>6. ~ Pending(j)
    BY <1>0, <2>3, <2>4 DEF Pending, Assigned
  <2>7. Pending(j)'
    BY <2>2, <2>4, <2>5 DEF Pending
  <2>8. ASSUME NEW k \in Slots, k # j PROVE Pending(k)' <=> Pending(k)
    BY <2>1, <2>2, <2>4, <2>8 DEF Pending
  <2>9. Owed(j) = 0 /\ Owed(j)' = 1
    BY <2>6, <2>7 DEF Owed
  <2>10. ASSUME NEW k \in Slots, k # j PROVE Owed(k)' = Owed(k)
    BY <2>8, <2>10 DEF Owed
  <2>11. U32(started[j] + 1) = U32(tasks[j].run_count + 1)
    <3>1. j \in Entries /\ InLoop
      BY <1>0, <2>1, <2>3, <2>4 DEF Entries, InLoop
    <3>2. U32(started[j]) = U32(tasks[j].run_count)
      BY <1>0, <2>9, <3>1 DEF Counted
    <3> QED
      BY <1>0, <3>2, WrappedCount
  <2>12. Entries' = Entries /\ InLoop
    BY <2>3 DEF Entries, InLoop
  <2>13. ASSUME NEW k \in Entries
         PROVE  U32(started'[k]) = U32(tasks'[k].run_count + Owed(k)')
    <3>1. CASE k = j
      BY <2>3, <2>4, <2>9, <2>11, <3>1
    <3>2. CASE k # j
      BY <1>0, <2>3, <2>4, <2>10, <2>12, <2>13, <3>2 DEF Counted
    <3> QED
      BY <3>1, <3>2
  <2> QED
    BY <2>3, <2>12, <2>13 DEF Counted
<1>11. CASE Join
  <2>1. \A s \in Slots : \/ thread'[s] = thread[s]
                         \/ thread'[s].pc = "joined" /\ thread[s].pc = "ended"
    BY <1>0, <1>11 DEF Join, TypeOK, Thread
  <2> QED
    BY <1>1, <1>11, <2>1 DEF Join, sched, history, InLoop
<1>12. ASSUME pc = "sleep", pc' = "check", EndOfBody, UNCHANGED << sched, started >>
       PROVE  Counted'
  <2>1. \A s \in Slots : thread'[s] = thread[s] \/ ~ (Unrecorded(s) \/ Unrecorded(s)')
    BY <1>0, <1>12 DEF EndOfBody, NoThread
  <2> QED
    BY <1>1, <1>12, <2>1 DEF sched, InLoop
<1>13. ASSUME NEW s \in Slots, Worker(s) PROVE Counted'
  <2>1. PICK k \in Slots : k = thread[s].task
    BY <1>13, WorkerAssigned DEF IInv
  <2>2. /\ thread[s].pc # "none" /\ UNCHANGED << tasks_count, started >>
        /\ \A t \in Slots : t # s => thread'[t] = thread[t]
        /\ thread'[s].task = k
        /\ pc' \in { pc, "undefined" }
        /\ \A j \in Slots : j # k => tasks'[j] = tasks[j]
    BY <1>13, <2>1, WorkerStep, WorkerAssigned DEF IInv, MainUnchanged, history
  <2>3. InLoop /\ pc' # "ready" /\ Entries' = Entries
    <3>1. pc \notin { "idle", "ready", "check", "stopped" }
      BY <1>0, <2>2, TasksAssumption DEF HandlesInOrder, TypeOK, Slots
    <3> QED
      BY <1>0, <2>2, <3>1 DEF InLoop, TypeOK, Entries
  <2>4. ASSUME NEW t \in Slots, t # s, thread[t].pc # "none"
        PROVE  thread[t].task # k
    BY <1>0, <2>1, <2>2, <2>4 DEF Assigned
  <2>5. ASSUME NEW j \in Slots, j # k PROVE Pending(j)' <=> Pending(j)
    BY <2>1, <2>2, <2>5 DEF Pending
  <2>6. CASE thread[s].pc = "record"
    <3>1. /\ tasks'[k].run_count = U32(tasks[k].run_count + 1)
          /\ thread'[s].pc = "locked"
      BY <1>0, <1>13, <2>1, <2>6, WorkerBooks
    <3>2. Pending(k)
      BY <2>1, <2>6 DEF Pending
    <3>3. ~ Pending(k)'
      BY <2>2, <2>4, <3>1 DEF Pending
    <3>4. Owed(k) = 1 /\ Owed(k)' = 0
      BY <3>2, <3>3 DEF Owed
    <3>5. ASSUME NEW j \in Slots, j # k PROVE Owed(j)' = Owed(j)
      BY <2>5, <3>5 DEF Owed
    <3>6. U32(U32(tasks[k].run_count + 1)) = U32(tasks[k].run_count + 1)
      BY <1>0, DivMod, ModSmall
    <3>7. ASSUME NEW j \in Entries
          PROVE  U32(started'[j]) = U32(tasks'[j].run_count + Owed(j)')
      <4>1. CASE j = k
        <5>1. U32(started[k]) = U32(tasks[k].run_count + 1)
          BY <2>3, <3>4, <3>7, <4>1 DEF Counted
        <5>2. tasks'[k].run_count + 0 = tasks'[k].run_count
          BY <1>0, <3>1, DivMod, WordAssumption DEF Words
        <5> QED
          BY <2>2, <3>1, <3>4, <3>6, <4>1, <5>1, <5>2
      <4>2. CASE j # k
        BY <1>0, <2>2, <2>3, <3>5, <3>7, <4>2 DEF Counted
      <4> QED
        BY <4>1, <4>2
    <3> QED
      BY <2>3, <3>7 DEF Counted
  <2>7. CASE thread[s].pc # "record"
    <3>1. /\ tasks'[k].run_count = tasks[k].run_count
          /\ Unrecorded(s)' <=> Unrecorded(s)
      BY <1>0, <1>13, <2>1, <2>7, WorkerBooks
    <3>2. Pending(k)' <=> Pending(k)
      BY <2>1, <2>2, <3>1 DEF Pending
    <3>3. \A j \in Slots : tasks'[j].run_count = tasks[j].run_count
      BY <2>2, <3>1
    <3>4. \A j \in Slots : Pending(j)' <=> Pending(j)
      BY <2>5, <3>2
    <3> QED
      BY <1>0, <2>2, <2>3, <3>3, <3>4, CountedKept
  <2> QED
    BY <2>6, <2>7
<1>14. CASE handle_signal
  <2>1. CASE pc = "sleep" /\ pc' = "check" /\ EndOfBody
    BY <1>12, <1>14, <2>1 DEF handle_signal
  <2>2. CASE UNCHANGED << pc, thread >>
    BY <1>1, <1>14, <2>2 DEF handle_signal, sched, InLoop
  <2> QED
    BY <1>14, <2>1, <2>2 DEF handle_signal
<1>15. ASSUME NEW hook \in BOOLEAN, sched_set_log_hook(hook) PROVE Counted'
  BY <1>1, <1>15 DEF sched_set_log_hook, locals, history, InLoop
<1>16. CASE sched_stop \/ TimePasses
  BY <1>1, <1>16 DEF sched_stop, TimePasses, sched, locals, history, InLoop
<1>17. CASE UNCHANGED vars
  BY <1>1, <1>17 DEF vars, sched, locals, history, InLoop
<1>18. CASE Wake
  BY <1>12, <1>18 DEF Wake
<1> QED
  BY <1>2, <1>3, <1>4, <1>5, <1>7, <1>8, <1>9, <1>10, <1>11, <1>13, <1>14, <1>15,
     <1>16, <1>17, <1>18
  DEF Next, Main, SpawnFails, Undefined

-----------------------------------------------------------------------------
\* The theorems

\* The inductive invariant holds when the program starts.
LEMMA InitIInv == Init => IInv
<1> SUFFICES ASSUME Init PROVE IInv
  OBVIOUS
<1>1. TypeOK
  BY InitTypeOK
<1>2. 0 = U32(0)
  BY WordAssumption, ModSmall DEF Words
<1> QED
  BY <1>1, <1>2, TimeAssumption
  DEF Init, IInv, HandlesInOrder, InLoop, JoinedInOrder, Assigned, MutexHeld,
      Critical, Times, Waited, NoEarlyRun, Unrecorded, ZeroTask, NoThread

\* Every step preserves the inductive invariant.
LEMMA NextIInv == IInv /\ [Next]_vars => IInv'
BY TypeOKStep, HandlesInOrderStep, JoinedInOrderStep, AssignedStep, MutexHeldStep,
   TimesStep, WaitedStep DEF IInv

\* The inductive invariant holds in every behaviour.
LEMMA SpecIInv == Spec => []IInv
BY InitIInv, NextIInv, PTL DEF Spec

\* Every variable of the scheduler, each task and each context keeps its C type.
THEOREM TypeCorrect == Spec => []TypeOK
<1>1. IInv => TypeOK
  BY DEF IInv
<1> QED
  BY <1>1, SpecIInv, PTL

\* A task never runs before its interval has passed since the tick of its last run,
\* although the test is made on counters that wrap.
THEOREM NeverEarly == Spec => []NoEarlyRun
<1>1. IInv => NoEarlyRun
  BY DEF IInv, Waited
<1> QED
  BY <1>1, SpecIInv, PTL

\* No thread outlives the tick that created it.
THEOREM Barrier == Spec => []TickBarrier
<1>1. IInv => TickBarrier
  <2> SUFFICES ASSUME IInv, NEW s \in Slots, Live(s)
               PROVE  /\ pc \in { "scan", "spawn", "join", "undefined" }
                      /\ s =< thread_count
                      /\ thread[s].now_at = now_at
    BY DEF TickBarrier
  <2>1. s =< thread_count /\ s >= 1 /\ s \in Nat /\ thread_count \in Nat
    BY TasksAssumption DEF IInv, HandlesInOrder, Live, TypeOK, Slots
  <2>2. pc \in Phases \ { "idle", "ready", "check", "stopped", "sleep" }
    BY <2>1 DEF IInv, HandlesInOrder, JoinedInOrder, Past, Live, TypeOK
  <2> QED
    BY <2>1, <2>2 DEF IInv, Assigned, Live, Phases
<1> QED
  BY <1>1, SpecIInv, PTL

\* No entry of the table is ever run by two threads at once.
THEOREM OneWorker == Spec => []OneWorkerPerTask
<1>1. IInv => OneWorkerPerTask
  BY DEF IInv, Assigned, OneWorkerPerTask, Live
<1> QED
  BY <1>1, SpecIInv, PTL

\* pthread_create never writes a handle past the end of worker_threads.
THEOREM InBounds == Spec => []HandlesInBounds
<1>1. IInv => HandlesInBounds
  <2> SUFFICES ASSUME IInv PROVE thread_count =< handles
    BY DEF HandlesInBounds
  <2>1. CASE InLoop
    BY <2>1 DEF IInv, HandlesInOrder
  <2>2. CASE ~ InLoop
    BY <2>2 DEF IInv, HandlesInOrder, InLoop, TypeOK
  <2> QED
    BY <2>1, <2>2
<1> QED
  BY <1>1, SpecIInv, PTL

\* Two threads are never in the log hook together.
THEOREM HookMutex == Spec => []HookExclusive
<1>1. IInv => HookExclusive
  BY DEF IInv, MutexHeld, Critical, HookExclusive
<1> QED
  BY <1>1, SpecIInv, PTL

\* The deadlines and the counters agree with what was started, in every behaviour.
LEMMA SpecBooks == Spec => [](IInv /\ Deadlines /\ Counted)
<1>1. Init => Deadlines /\ Counted
  BY DEF Init, Deadlines, Counted, NoThread, InLoop
<1>2. IInv /\ Deadlines /\ Counted /\ [Next]_vars => (IInv /\ Deadlines /\ Counted)'
  BY NextIInv, DeadlinesStep, CountedStep
<1> QED
  BY <1>1, <1>2, InitIInv, PTL DEF Spec

\* No run is lost from the table or counted twice: the threads started for an entry are
\* those it has counted and the one, if any, that is still to be recorded.
THEOREM RunsCounted == Spec => []NoRunLost
<1>1. ASSUME IInv, Counted PROVE NoRunLost
  <2> SUFFICES ASSUME InLoop, NEW k \in Entries
               PROVE  LET pending == { s \in Slots : Unrecorded(s) /\ thread[s].task = k }
                      IN  U32(started[k]) = U32(tasks[k].run_count + Cardinality(pending))
    BY DEF NoRunLost
  <2> DEFINE pending == { s \in Slots : Unrecorded(s) /\ thread[s].task = k }
  <2>1. U32(started[k]) = U32(tasks[k].run_count + Owed(k))
    BY <1>1 DEF Counted
  <2>2. Cardinality(pending) = Owed(k)
    <3>1. CASE Pending(k)
      <4>1. PICK s \in Slots : Unrecorded(s) /\ thread[s].task = k
        BY <3>1 DEF Pending
      <4>2. ASSUME NEW t \in Slots, Unrecorded(t), thread[t].task = k PROVE t = s
        BY <1>1, <4>1, <4>2 DEF IInv, Assigned, Unrecorded
      <4>3. pending = { s }
        BY <4>1, <4>2
      <4>4. Cardinality({ s }) = 1
        BY FS_Singleton
      <4> HIDE DEF pending
      <4> QED
        BY <3>1, <4>3, <4>4 DEF Owed
    <3>2. CASE ~ Pending(k)
      <4>1. pending = {}
        BY <3>2 DEF Pending
      <4> HIDE DEF pending
      <4> QED
        BY <3>2, <4>1, FS_EmptySet DEF Owed
    <3> QED
      BY <3>1, <3>2
  <2> HIDE DEF pending
  <2>3. U32(started[k]) = U32(tasks[k].run_count + Cardinality(pending))
    BY <2>1, <2>2
  <2> QED
    BY <2>3 DEF pending
<1> QED
  BY <1>1, SpecBooks, PTL

\* The test of the wrapped clock against the wrapped deadline never counts an overrun
\* that is none, and misses one only when the counter wrapped in between.
THEOREM OverrunsReal == Spec => OverrunsAreLate
<1>1. ASSUME IInv, Deadlines, NEW s \in Slots, CheckOverrun(s)
      PROVE  LET k       == thread[s].task
                 late    == clock > thread[s].due_at
                 counted == tasks'[k].overrun_count # tasks[k].overrun_count
             IN  /\ counted => late
                 /\ clock \div WORD = thread[s].due_at \div WORD => (late => counted)
  <2>1. PICK k \in Slots : k = thread[s].task
    BY <1>1, WorkerAssigned DEF IInv, Worker
  <2>2. /\ thread[s].pc = "locked" /\ tasks'[k] = OverrunCounted(tasks[k], clock)
        /\ tasks[k] \in Task /\ clock \in Nat /\ thread[s].due_at \in Nat
    BY <1>1, <2>1 DEF CheckOverrun, Moves, IInv, TypeOK, Thread
  <2>3. tasks[k].deadline_ms = U32(thread[s].due_at) /\ thread[s].due_at =< clock
    BY <1>1, <2>1, <2>2 DEF Deadlines, IInv, Times, TypeOK
  <2>4. tasks'[k].overrun_count # tasks[k].overrun_count
          <=> U32(clock) > tasks[k].deadline_ms
    BY <2>2, OverrunBooks
  <2>5. /\ U32(clock) > U32(thread[s].due_at) => clock > thread[s].due_at
        /\ clock \div WORD = thread[s].due_at \div WORD =>
             (clock > thread[s].due_at => U32(clock) > U32(thread[s].due_at))
    BY <2>2, <2>3, LaterByLowWord
  <2> QED
    BY <2>1, <2>3, <2>4, <2>5
<1>2. IInv /\ Deadlines /\ [Next]_vars =>
        [ \A s \in Slots :
            CheckOverrun(s) =>
              LET k       == thread[s].task
                  late    == clock > thread[s].due_at
                  counted == tasks'[k].overrun_count # tasks[k].overrun_count
              IN  /\ counted => late
                  /\ clock \div WORD = thread[s].due_at \div WORD => (late => counted) ]_vars
  BY <1>1
<1> QED
  BY <1>2, SpecBooks, PTL DEF Spec, OverrunsAreLate
=============================================================================
