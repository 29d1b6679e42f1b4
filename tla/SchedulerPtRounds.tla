------------------------- MODULE SchedulerPtRounds -------------------------
(***************************************************************************)
(* The threaded scheduler implements the rounds of module Rounds, for      *)
(* every word size, table size, set of intervals and length of time, with  *)
(* failing thread creation and changes of the hook.                        *)
(***************************************************************************)
EXTENDS SchedulerPtProofs

\* Handle s was taken for entry k in this tick.
Holds(s, k) == thread[s].pc # "none" /\ thread[s].task = k

\* The scan of the tick has looked at entry k.
Scanned(k) == pc = "join" \/ (pc \in { "scan", "spawn" } /\ k < i)

\* An entry that the scan passed over without taking a handle is not due at the time of
\* the tick, and no run is younger than the tick before the joins end.
Skipped ==
  /\ \A k \in Slots :
       k =< tasks_count /\ Scanned(k) =>
         (\E s \in Slots : Holds(s, k)) \/ ~ IsDue(tasks[k], now_ms)
  /\ pc = "join" => \A k \in Slots : tasks[k].last_run_at =< now_at

JInv == IInv /\ Skipped

-----------------------------------------------------------------------------
\* The invariant of the scan

\* Handles keep their entries, and entries without a handle are left alone.
LEMMA SkippedKept ==
  ASSUME Skipped, tasks_count' = tasks_count, now_ms' = now_ms, now_at' = now_at,
         pc' = pc, i' = i \/ pc = "join",
         \A s \in Slots, k \in Slots : Holds(s, k) => Holds(s, k)',
         \A k \in Slots : tasks'[k] = tasks[k] \/ \E s \in Slots : Holds(s, k),
         \A k \in Slots : pc = "join" => \/ tasks'[k].last_run_at = tasks[k].last_run_at
                                         \/ tasks'[k].last_run_at =< now_at
  PROVE  Skipped'
<1>1. ASSUME NEW k \in Slots, k =< tasks_count, Scanned(k)'
      PROVE  (\E s \in Slots : Holds(s, k)') \/ ~ IsDue(tasks'[k], now_ms)
  <2>1. Scanned(k)
    BY <1>1 DEF Scanned
  <2>2. (\E s \in Slots : Holds(s, k)) \/ ~ IsDue(tasks[k], now_ms)
    BY <1>1, <2>1 DEF Skipped
  <2>3. CASE \E s \in Slots : Holds(s, k)
    BY <1>1, <2>3
  <2>4. CASE ~ \E s \in Slots : Holds(s, k)
    BY <1>1, <2>2, <2>4
  <2> QED
    BY <2>3, <2>4
<1>2. pc' = "join" => \A k \in Slots : tasks'[k].last_run_at =< now_at'
  BY DEF Skipped
<1> QED
  BY <1>1, <1>2 DEF Skipped

\* Every step keeps what was passed over harmless.
LEMMA SkippedStep ==
  ASSUME IInv, Skipped, [Next]_vars
  PROVE  Skipped'
<1>0. /\ TypeOK /\ HandlesInOrder /\ Assigned /\ Times
      /\ tasks \in [Slots -> Task] /\ thread \in [Slots -> Thread]
      /\ now_at \in Nat /\ clock \in Nat
      /\ \A k \in Slots : k \in Nat /\ k >= 1
  BY TasksAssumption DEF IInv, TypeOK, Slots
<1>1. ASSUME pc' \notin { "scan", "spawn", "join" } PROVE Skipped'
  BY <1>1 DEF Skipped, Scanned
<1>2. ASSUME UNCHANGED << tasks, tasks_count, now_ms, now_at, pc, i, thread >>
      PROVE  Skipped'
  <2>1. \A s \in Slots, k \in Slots : Holds(s, k) => Holds(s, k)'
    BY <1>2 DEF Holds
  <2> QED
    BY <1>2, <2>1, SkippedKept
<1>3. ASSUME NEW hook \in BOOLEAN, sched_set_log_hook(hook) PROVE Skipped'
  BY <1>2, <1>3 DEF sched_set_log_hook, locals, history
<1>4. CASE sched_stop \/ TimePasses \/ UNCHANGED vars
  BY <1>2, <1>4 DEF sched_stop, TimePasses, vars, sched, locals, history
<1>5. CASE BeginTick
  <2>1. pc' = "scan" /\ i' = 1
    BY <1>5 DEF BeginTick
  <2> QED
    BY <1>0, <2>1 DEF Skipped, Scanned
<1>6. CASE Scan
  <2>1. /\ pc = "scan" /\ i =< tasks_count
        /\ UNCHANGED << tasks, tasks_count, now_ms, now_at, thread >>
        /\ \/ pc' = "spawn" /\ i' = i
           \/ pc' = "scan" /\ i' = i + 1 /\ ~ IsDue(tasks[i], now_ms)
    BY <1>6 DEF Scan, sched, history
  <2>2. ASSUME NEW k \in Slots, k =< tasks_count, Scanned(k)'
        PROVE  (\E s \in Slots : Holds(s, k)') \/ ~ IsDue(tasks[k], now_ms)
    <3>1. Scanned(k) \/ (k = i /\ ~ IsDue(tasks[i], now_ms))
      BY <1>0, <2>1, <2>2 DEF Scanned, TypeOK
    <3>2. ASSUME Scanned(k) PROVE (\E s \in Slots : Holds(s, k)) \/ ~ IsDue(tasks[k], now_ms)
      BY <2>2, <3>2 DEF Skipped
    <3> QED
      BY <2>1, <3>1, <3>2 DEF Holds
  <2> QED
    BY <2>1, <2>2 DEF Skipped
<1>7. ASSUME NEW outcome \in { "deadline", "failed" }, TakeHandle(outcome)
      PROVE  Skipped'
  <2>0. thread_count + 1 \in Slots
    BY <1>0, <1>7, TasksAssumption DEF TakeHandle, HandlesInOrder, TypeOK, Slots
  <2> PICK h \in Slots : h = thread_count + 1
    BY <2>0
  <2>1. /\ pc = "spawn" /\ pc' = "scan" /\ i' = i + 1 /\ i \in Slots
        /\ UNCHANGED << tasks, tasks_count, now_ms, now_at >>
        /\ thread[h].pc = "none"
    BY <1>0, <1>7, TasksAssumption DEF TakeHandle, sched, HandlesInOrder, TypeOK, Slots
  <2> PICK e \in Slots : e = i
    BY <2>1
  <2>2. /\ \A s \in Slots : s # h => thread'[s] = thread[s]
        /\ thread'[h].pc = outcome /\ thread'[h].task = e
    BY <1>0, <1>7, <2>1 DEF TakeHandle, NoThread
  <2>3. ASSUME NEW k \in Slots, k =< tasks_count, Scanned(k)'
        PROVE  (\E s \in Slots : Holds(s, k)') \/ ~ IsDue(tasks[k], now_ms)
    <3>1. CASE k = e
      <4>1. Holds(h, k)'
        BY <2>2, <3>1 DEF Holds
      <4> QED
        BY <2>1, <4>1
    <3>2. CASE k # e
      <4>1. Scanned(k)
        BY <1>0, <2>1, <2>3, <3>2 DEF Scanned
      <4>2. (\E s \in Slots : Holds(s, k)) \/ ~ IsDue(tasks[k], now_ms)
        BY <2>3, <4>1 DEF Skipped
      <4>3. \A s \in Slots : Holds(s, k) => Holds(s, k)'
        BY <2>1, <2>2 DEF Holds
      <4> QED
        BY <4>2, <4>3
    <3> QED
      BY <3>1, <3>2
  <2> QED
    BY <2>1, <2>3 DEF Skipped
<1>8. CASE EndScan
  <2>1. /\ pc = "scan" /\ pc' = "join" /\ i > tasks_count
        /\ UNCHANGED << tasks, tasks_count, now_ms, now_at, thread >>
    BY <1>8 DEF EndScan, sched, history
  <2>2. ASSUME NEW k \in Slots, k =< tasks_count
        PROVE  (\E s \in Slots : Holds(s, k)') \/ ~ IsDue(tasks[k], now_ms)
    <3>1. Scanned(k)
      BY <1>0, <2>1, <2>2, TasksAssumption DEF Scanned, TypeOK
    <3>2. (\E s \in Slots : Holds(s, k)) \/ ~ IsDue(tasks[k], now_ms)
      BY <2>2, <3>1 DEF Skipped
    <3> QED
      BY <2>1, <3>2 DEF Holds
  <2> QED
    BY <1>0, <2>1, <2>2 DEF Skipped, Times
<1>9. CASE Join
  <2>1. /\ pc = "join" /\ pc' = pc /\ i \in Slots
        /\ UNCHANGED << tasks, tasks_count, now_ms, now_at >>
        /\ thread' = [ thread EXCEPT ![i].pc = "joined" ]
    BY <1>0, <1>9, TasksAssumption DEF Join, sched, history, TypeOK, Slots
  <2>2. \A s \in Slots, k \in Slots : Holds(s, k) => Holds(s, k)'
    BY <1>0, <2>1 DEF Holds, Thread
  <2> QED
    BY <2>1, <2>2, SkippedKept
<1>10. CASE JoinNoThread
  <2>1. CASE pc' = "undefined"
    BY <1>1, <2>1
  <2>2. CASE pc' # "undefined"
    <3>1. /\ pc = "join" /\ pc' = pc
          /\ UNCHANGED << tasks, tasks_count, now_ms, now_at, thread >>
      BY <1>10, <2>2 DEF JoinNoThread, sched, history
    <3>2. \A s \in Slots, k \in Slots : Holds(s, k) => Holds(s, k)'
      BY <3>1 DEF Holds
    <3> QED
      BY <3>1, <3>2, SkippedKept
  <2> QED
    BY <2>1, <2>2
<1>11. ASSUME NEW s \in Slots, Worker(s) PROVE Skipped'
  <2>1. /\ thread[s].pc # "none" /\ thread[s].task \in Slots /\ thread[s].now_at = now_at
    BY <1>0, <1>11, WorkerAssigned
  <2>2. /\ \A t \in Slots : t # s => thread'[t] = thread[t]
        /\ thread'[s].pc # "none" /\ thread'[s].task = thread[s].task
        /\ \A k \in Slots : k # thread[s].task => tasks'[k] = tasks[k]
        /\ \A k \in Slots : \/ tasks'[k].last_run_at = tasks[k].last_run_at
                            \/ tasks'[k].last_run_at = now_at
        /\ pc' \in { pc, "undefined" } /\ MainUnchanged
    BY <1>0, <1>11, <2>1, WorkerStep DEF Past
  <2>3. \A t \in Slots, k \in Slots : Holds(t, k) => Holds(t, k)'
    BY <2>1, <2>2 DEF Holds
  <2>4. \A k \in Slots : tasks'[k] = tasks[k] \/ \E t \in Slots : Holds(t, k)
    BY <2>1, <2>2 DEF Holds
  <2>5. UNCHANGED << tasks_count, now_ms, now_at, i >>
    BY <2>2 DEF MainUnchanged, locals, history
  <2>6. CASE pc' = "undefined"
    BY <1>1, <2>6
  <2>7. CASE pc' = pc
    <3>1. \A k \in Slots : pc = "join" => \/ tasks'[k].last_run_at = tasks[k].last_run_at
                                         \/ tasks'[k].last_run_at =< now_at
      BY <1>0, <2>2
    <3> QED
      BY <2>3, <2>4, <2>5, <2>7, <3>1, SkippedKept
  <2> QED
    BY <2>2, <2>6, <2>7
<1>12. CASE handle_signal
  <2>1. CASE pc' = "check"
    BY <1>1, <2>1
  <2>2. CASE pc' # "check"
    BY <1>2, <1>12, <2>2 DEF handle_signal, sched
  <2> QED
    BY <2>1, <2>2
<1>13. ASSUME NEW interval \in Intervals, NEW prio \in Priorities,
              sched_add_task(interval, prio)
       PROVE  Skipped'
  BY <1>1, <1>13 DEF sched_add_task
<1>14. ASSUME NEW n \in 0 .. MaxTasks, sched_init(n) PROVE Skipped'
  BY <1>1, <1>14 DEF sched_init
<1>15. CASE sched_destroy \/ Enter \/ Leave \/ EndTick \/ Wake
  BY <1>1, <1>15 DEF sched_destroy, Enter, Leave, EndTick, Wake
<1> QED
  BY <1>3, <1>4, <1>5, <1>6, <1>7, <1>8, <1>9, <1>10, <1>11, <1>12, <1>13, <1>14, <1>15
  DEF Next, Main, Spawn, SpawnFails, Undefined

\* Both invariants hold in every behaviour.
LEMMA SpecJInv == Spec => []JInv
<1>1. Init => Skipped
  BY DEF Init, Skipped, Scanned
<1>2. JInv /\ [Next]_vars => JInv'
  BY NextIInv, SkippedStep DEF JInv
<1> QED
  BY <1>1, <1>2, InitIInv, PTL DEF Spec, JInv

-----------------------------------------------------------------------------
\* The mapping

\* The run state of an entry whose worker is at p.
Stage(p) ==
  CASE p \in { "deadline", "begin", "callback", "record" } -> "running"
    [] p \in { "locked", "hooked", "inhook", "release" } -> "recorded"
    [] OTHER -> "done"

\* The mapping reads the worker of the entry, if there is one.
Staged ==
  \A k \in Slots :
    /\ ~ InTick => RunState(k) = "waiting"
    /\ InTick /\ (\A s \in Slots : ~ Holds(s, k)) => RunState(k) = "waiting"
    /\ InTick => \A s \in Slots : Holds(s, k) => RunState(k) = Stage(thread[s].pc)

\* No entry has two handles, so its worker decides.
LEMMA MappedByWorker == IInv => Staged
<1> SUFFICES ASSUME IInv, NEW k \in Slots
             PROVE  /\ ~ InTick => RunState(k) = "waiting"
                    /\ InTick /\ (\A s \in Slots : ~ Holds(s, k)) => RunState(k) = "waiting"
                    /\ InTick => \A s \in Slots :
                                   Holds(s, k) => RunState(k) = Stage(thread[s].pc)
  BY DEF Staged
<1> DEFINE phases == { thread[s].pc : s \in { t \in Slots : thread[t].task = k } }
<1>1. ~ InTick => RunState(k) = "waiting"
  BY DEF RunState
<1>2. ASSUME InTick, \A s \in Slots : ~ Holds(s, k) PROVE RunState(k) = "waiting"
  <2>1. \A p \in phases : p = "none"
    BY <1>2 DEF Holds
  <2> QED
    BY <1>2, <2>1 DEF RunState
<1>3. ASSUME InTick, NEW s \in Slots, Holds(s, k) PROVE RunState(k) = Stage(thread[s].pc)
  <2>1. thread[s].pc \in phases /\ \A p \in phases : p = thread[s].pc \/ p = "none"
    BY <1>3 DEF Holds, IInv, Assigned
  <2>2. thread[s].pc \in WorkerPhases \ { "none" }
    BY <1>3 DEF Holds, IInv, TypeOK, Thread
  <2> DEFINE at == thread[s].pc
  <2>3. CASE at \in { "deadline", "begin", "callback", "record" }
    <3>1. /\ phases \cap { "deadline", "begin", "callback", "record" } # {}
          /\ phases \cap { "locked", "hooked", "inhook", "release" } = {}
          /\ phases \cap { "ended", "joined", "failed" } = {}
      BY <2>1, <2>3
    <3>2. RunState(k) = "running"
      BY <1>3, <3>1 DEF RunState
    <3>3. Stage(thread[s].pc) = "running"
      BY <2>3 DEF Stage
    <3> QED
      BY <3>2, <3>3
  <2>4. CASE at \in { "locked", "hooked", "inhook", "release" }
    <3>1. /\ phases \cap { "deadline", "begin", "callback", "record" } = {}
          /\ phases \cap { "locked", "hooked", "inhook", "release" } # {}
          /\ phases \cap { "ended", "joined", "failed" } = {}
      BY <2>1, <2>4
    <3>2. RunState(k) = "recorded"
      BY <1>3, <3>1 DEF RunState
    <3>3. Stage(thread[s].pc) = "recorded"
      BY <2>4 DEF Stage
    <3> QED
      BY <3>2, <3>3
  <2>5. CASE at \in { "ended", "joined", "failed" }
    <3>1. /\ phases \cap { "deadline", "begin", "callback", "record" } = {}
          /\ phases \cap { "locked", "hooked", "inhook", "release" } = {}
          /\ phases \cap { "ended", "joined", "failed" } # {}
      BY <2>1, <2>5
    <3>2. RunState(k) = "done"
      BY <1>3, <3>1 DEF RunState
    <3>3. Stage(thread[s].pc) = "done"
      BY <2>5 DEF Stage
    <3> QED
      BY <3>2, <3>3
  <2> QED
    BY <2>2, <2>3, <2>4, <2>5 DEF WorkerPhases
<1> QED
  BY <1>1, <1>2, <1>3

\* The same after a step.
LEMMA MappedNext == IInv' => Staged'
BY MappedByWorker, PTL

\* Handle s stays with its entry and in its stage.
Kept(s) ==
  /\ thread[s].pc = "none" <=> thread'[s].pc = "none"
  /\ thread[s].pc # "none" => thread'[s].task = thread[s].task
  /\ Stage(thread'[s].pc) = Stage(thread[s].pc)

\* A step in which the worker of an entry, if any, stays in its stage.
LEMMA StateKept ==
  ASSUME Staged, Staged', InTick' = InTick, NEW k \in Slots,
         \A s \in Slots : Holds(s, k) \/ Holds(s, k)' => Kept(s)
  PROVE  RunState(k)' = RunState(k)
<1>1. CASE ~ InTick
  BY <1>1 DEF Staged
<1>2. CASE InTick /\ \E s \in Slots : Holds(s, k)
  <2> PICK s \in Slots : Holds(s, k)
    BY <1>2
  <2>1. Kept(s)
    OBVIOUS
  <2>2. Holds(s, k)' /\ Stage(thread[s].pc)' = Stage(thread[s].pc)
    BY <2>1 DEF Kept, Holds, Stage
  <2> QED
    BY <1>2, <2>2 DEF Staged
<1>3. CASE InTick /\ \A s \in Slots : ~ Holds(s, k)
  <2>1. \A s \in Slots : ~ Holds(s, k)'
    BY <1>3 DEF Kept, Holds
  <2> QED
    BY <1>3, <2>1 DEF Staged
<1> QED
  BY <1>1, <1>2, <1>3

-----------------------------------------------------------------------------
\* The refinement

\* Entry k keeps what the rounds speak of.
Same(k) ==
  /\ tasks'[k].interval_ms = tasks[k].interval_ms
  /\ tasks'[k].last_run_at = tasks[k].last_run_at

\* A step that the rounds do not show.
LEMMA Unseen ==
  ASSUME UNCHANGED << clock, tasks_count >>, InLoop' = InLoop, InTick' = InTick,
         InTick => now_at' = now_at,
         \A k \in Slots : Same(k) /\ RunState(k)' = RunState(k)
  PROVE  UNCHANGED Ticks!vars
BY DEF Ticks!vars, Same

\* The program's preparations are those of the rounds.
LEMMA Prepares ==
  ASSUME ~ InLoop, ~ InTick, ~ InTick', clock' = clock
  PROVE  Ticks!Next
<1>1. ASSUME NEW k \in Slots PROVE RunState(k) = "waiting" /\ RunState(k)' = "waiting"
  BY DEF RunState, InTick
<1>2. InLoop' \in BOOLEAN
  BY DEF InLoop
<1>3. [ k \in Slots |-> RunState(k) ]' = [ k \in Slots |-> RunState(k) ]
  BY <1>1
<1>4. InTick' = InTick
  BY DEF InTick
<1>5. (IF InTick THEN now_at ELSE 0)' = (IF InTick THEN now_at ELSE 0)
  BY Zenon
<1>6. Ticks!Configure
  BY <1>2, <1>3, <1>4, <1>5 DEF Ticks!Configure
<1> QED
  BY <1>6 DEF Ticks!Next

\* The first state is one of the rounds.
LEMMA RoundsInit == Init => Ticks!Init
<1> SUFFICES ASSUME Init PROVE Ticks!Init
  OBVIOUS
<1>1. /\ ~ InTick /\ InLoop = FALSE /\ InTick = FALSE /\ clock \in Nat /\ tasks_count = 0
  BY TimeAssumption DEF Init, InTick, InLoop
<1>2. ASSUME NEW k \in Slots PROVE RunState(k) = "waiting"
  BY <1>1 DEF RunState
<1>3. \A k \in Slots : tasks[k].interval_ms = 0 /\ tasks[k].last_run_at = 0
  BY DEF Init, ZeroTask
<1> QED
  BY <1>1, <1>2, <1>3 DEF Ticks!Init, Ticks!AllWaiting

\* The abstract actions change the run state of one entry, and nothing but it.
LEMMA RunsOn ==
  ASSUME NEW k \in Slots, NEW to,
         UNCHANGED << clock, tasks_count >>, InLoop' = InLoop, InTick' = InTick,
         InTick => now_at' = now_at,
         \A j \in Slots : Same(j),
         RunState(k)' = to,
         \A j \in Slots : j # k => RunState(j)' = RunState(j)
  PROVE  /\ [ j \in Slots |-> RunState(j) ]' =
              [ [ j \in Slots |-> RunState(j) ] EXCEPT ![k] = to ]
         /\ UNCHANGED << clock, InLoop, InTick, IF InTick THEN now_at ELSE 0, tasks_count,
                         [ j \in Slots |-> tasks[j].interval_ms ],
                         [ j \in Slots |-> tasks[j].last_run_at ] >>
<1>1. [ j \in Slots |-> RunState(j) ]' =
        [ [ j \in Slots |-> RunState(j) ] EXCEPT ![k] = to ]
  OBVIOUS
<1>2. /\ [ j \in Slots |-> tasks[j].interval_ms ]' = [ j \in Slots |-> tasks[j].interval_ms ]
      /\ [ j \in Slots |-> tasks[j].last_run_at ]' = [ j \in Slots |-> tasks[j].last_run_at ]
  BY DEF Same
<1> QED
  BY <1>1, <1>2

\* A worker that runs belongs to the tick, and its entry to the table.
LEMMA WorkerInTick ==
  ASSUME IInv, NEW s \in Slots, Live(s)
  PROVE  /\ InTick = TRUE /\ InLoop = TRUE
         /\ thread[s].task \in Slots /\ thread[s].task =< tasks_count
         /\ Holds(s, thread[s].task)
         /\ thread[s].now_at = now_at
<1>1. s =< thread_count /\ s >= 1 /\ s \in Nat /\ thread_count \in Nat
  BY TasksAssumption DEF IInv, HandlesInOrder, Live, TypeOK, Slots
<1>2. pc \in Phases \ { "idle", "ready", "check", "stopped", "sleep" }
  BY <1>1 DEF IInv, HandlesInOrder, JoinedInOrder, Past, Live, TypeOK
<1>3. InTick = TRUE /\ InLoop = TRUE
  BY <1>2 DEF InTick, InLoop, Phases
<1> QED
  BY <1>3, TasksAssumption DEF IInv, Assigned, Live, TypeOK, Slots, Holds

\* The creation of a thread begins a run, and its failure gives the run up: the entry
\* had waited its interval, and had no thread in the tick.
LEMMA StartsInRound ==
  ASSUME IInv, IInv', NEW outcome \in { "deadline", "failed" }, TakeHandle(outcome)
  PROVE  Ticks!Next
<1>0. /\ TypeOK /\ HandlesInOrder /\ Assigned /\ Waited /\ Staged /\ Staged'
  BY MappedByWorker, MappedNext DEF IInv
<1>1. thread_count + 1 \in Slots /\ i \in Slots
  BY <1>0, TasksAssumption DEF TakeHandle, HandlesInOrder, TypeOK, Slots
<1> PICK h \in Slots : h = thread_count + 1
  BY <1>1
<1> PICK k \in Slots : k = i
  BY <1>1
<1>2. /\ pc = "spawn" /\ pc' = "scan" /\ k =< tasks_count
      /\ UNCHANGED << tasks, tasks_count, now_at, clock >>
      /\ now_at - tasks[k].last_run_at >= tasks[k].interval_ms
  BY <1>0 DEF TakeHandle, sched, HandlesInOrder, Waited
<1>3. /\ thread[h].pc = "none"
      /\ \A s \in Slots : thread[s].pc # "none" => thread[s].task # k
  BY <1>0, <1>1, <1>2 DEF HandlesInOrder, Assigned, TypeOK, Slots
<1>4. /\ \A s \in Slots : s # h => thread'[s] = thread[s]
      /\ thread'[h].pc = outcome /\ thread'[h].task = k
  BY <1>0 DEF TakeHandle, NoThread, TypeOK
<1>5. InTick = TRUE /\ InTick' = TRUE /\ InLoop' = InLoop
  BY <1>2 DEF InTick, InLoop, Phases
<1>6. RunState(k) = "waiting"
  BY <1>0, <1>3, <1>5 DEF Staged, Holds
<1>7. RunState(k)' = Stage(outcome)
  <2>1. Holds(h, k)' /\ Stage(thread[h].pc)' = Stage(outcome)
    BY <1>4 DEF Holds, Stage
  <2> QED
    BY <1>0, <1>5, <2>1 DEF Staged
<1>8. ASSUME NEW j \in Slots, j # k PROVE RunState(j)' = RunState(j)
  <2>1. ASSUME NEW s \in Slots, Holds(s, j) \/ Holds(s, j)' PROVE Kept(s)
    <3>1. s # h
      BY <1>3, <1>4, <1>8, <2>1 DEF Holds
    <3> QED
      BY <1>4, <3>1 DEF Kept
  <2> QED
    BY <1>0, <1>5, <2>1, StateKept
<1>9. \A j \in Slots : Same(j)
  BY <1>2 DEF Same
<1>10. /\ [ j \in Slots |-> RunState(j) ]' =
            [ [ j \in Slots |-> RunState(j) ] EXCEPT ![k] = Stage(outcome) ]
       /\ UNCHANGED << clock, InLoop, InTick, IF InTick THEN now_at ELSE 0, tasks_count,
                       [ j \in Slots |-> tasks[j].interval_ms ],
                       [ j \in Slots |-> tasks[j].last_run_at ] >>
  BY <1>2, <1>5, <1>7, <1>8, <1>9, RunsOn
<1>11. /\ Ticks!Waited(k) >= [ j \in Slots |-> tasks[j].interval_ms ][k]
       /\ [ j \in Slots |-> RunState(j) ][k] = "waiting"
  BY <1>2, <1>5, <1>6 DEF Ticks!Waited
<1>12. CASE outcome = "deadline"
  <2>1. Stage(outcome) = "running"
    BY <1>12 DEF Stage
  <2>2. Ticks!Start(k)
    BY <1>2, <1>5, <1>10, <1>11, <2>1 DEF Ticks!Start, Ticks!table
  <2> QED
    BY <2>2 DEF Ticks!Next
<1>13. CASE outcome = "failed"
  <2>1. Stage(outcome) = "done"
    BY <1>13 DEF Stage
  <2>2. Ticks!GiveUp(k)
    BY <1>2, <1>5, <1>10, <1>11, <2>1 DEF Ticks!GiveUp, Ticks!table
  <2> QED
    BY <2>2 DEF Ticks!Next
<1> QED
  BY <1>12, <1>13

\* What each step of a worker leaves alone, for the entries of the other workers.
LEMMA OthersKept ==
  ASSUME IInv, IInv', NEW s \in Slots, Worker(s)
  PROVE  /\ Live(s) /\ Staged /\ Staged'
         /\ UNCHANGED << clock, tasks_count, now_at >>
         /\ InTick' = TRUE /\ InLoop' = InLoop
         /\ thread'[s].pc # "none" /\ thread'[s].task = thread[s].task
         /\ \A k \in Slots : k # thread[s].task => RunState(k)' = RunState(k)
<1>0. TypeOK /\ Assigned /\ Staged /\ Staged'
  BY MappedByWorker, MappedNext DEF IInv
<1>1. thread[s].pc # "none" /\ thread[s].task \in Slots
  BY <1>0, WorkerAssigned
<1>2. /\ \A t \in Slots : t # s => thread'[t] = thread[t]
      /\ thread'[s].pc \notin Past
      /\ thread[s].pc \in WorkerPhases \ (Past \cup { "ended" })
      /\ thread'[s].task = thread[s].task
      /\ pc' \in { pc, "undefined" }
      /\ MainUnchanged
  BY <1>0, <1>1, WorkerStep
<1>3. Live(s)
  BY <1>2 DEF Live, Past
<1>4. InTick = TRUE /\ InLoop = TRUE
  BY <1>3, WorkerInTick
<1>5. InTick' = TRUE /\ InLoop' = TRUE
  BY <1>2, <1>4 DEF InTick, InLoop, Phases
<1>6. thread'[s].pc # "none"
  BY <1>2 DEF Past
<1>7. ASSUME NEW k \in Slots, k # thread[s].task PROVE RunState(k)' = RunState(k)
  <2>1. ASSUME NEW t \in Slots, Holds(t, k) \/ Holds(t, k)' PROVE Kept(t)
    <3>1. t # s
      BY <1>2, <1>7, <2>1 DEF Holds
    <3> QED
      BY <1>2, <3>1 DEF Kept
  <2> QED
    BY <1>0, <1>4, <1>5, <2>1, StateKept
<1> QED
  BY <1>0, <1>2, <1>3, <1>4, <1>5, <1>6, <1>7 DEF MainUnchanged, locals, history

\* The second critical section records the run at the time of the tick.
LEMMA RecordsInRound ==
  ASSUME IInv, IInv', NEW s \in Slots, Record(s)
  PROVE  Ticks!Next
<1>0. /\ TypeOK /\ Staged /\ Staged' /\ Live(s) /\ InTick' = TRUE /\ InLoop' = InLoop
      /\ UNCHANGED << clock, tasks_count, now_at >>
      /\ thread'[s].pc # "none" /\ thread'[s].task = thread[s].task
      /\ \A j \in Slots : j # thread[s].task => RunState(j)' = RunState(j)
  BY OthersKept DEF Worker, IInv
<1>1. /\ InTick = TRUE /\ thread[s].task \in Slots /\ Holds(s, thread[s].task)
      /\ thread[s].now_at = now_at
  BY <1>0, WorkerInTick
<1> PICK k \in Slots : k = thread[s].task
  BY <1>1
<1>2. /\ thread[s].pc = "record" /\ thread'[s].pc = "locked" /\ Holds(s, k) /\ Holds(s, k)'
  <2>1. thread[s].pc = "record" /\ thread' = [ thread EXCEPT ![s].pc = "locked" ]
    BY DEF Record, Moves
  <2>2. thread[s] \in Thread /\ thread \in [Slots -> Thread]
    BY <1>0 DEF TypeOK
  <2> QED
    BY <1>0, <1>1, <2>1, <2>2 DEF Holds, Thread
<1>3. RunState(k) = "running"
  <2>1. Stage(thread[s].pc) = "running"
    BY <1>2 DEF Stage
  <2> QED
    BY <1>0, <1>1, <1>2, <2>1 DEF Staged
<1>4. RunState(k)' = "recorded"
  <2>1. Stage(thread[s].pc)' = "recorded"
    BY <1>2 DEF Stage
  <2> QED
    BY <1>0, <1>2, <2>1 DEF Staged
<1>5. /\ tasks'[k].interval_ms = tasks[k].interval_ms
      /\ tasks'[k].last_run_at = now_at
      /\ \A j \in Slots : j # k => tasks'[j] = tasks[j]
  <2> DEFINE task == tasks[k]
             ms   == thread[s].now_ms
             dur  == thread[s].duration_ms
             done == Accounted(task, ms, now_at, dur)
  <2>1. task \in Task /\ ms \in Words /\ now_at \in Nat /\ dur \in Words
    BY <1>0 DEF TypeOK, Thread
  <2>2. tasks' = [ tasks EXCEPT ![k] = done ]
    BY <1>1 DEF Record
  <2> HIDE DEF task, ms, dur
  <2>3. done.interval_ms = task.interval_ms /\ done.last_run_at = now_at
    BY <2>1, AccountedType, SMTT(30)
  <2> HIDE DEF done
  <2> QED
    BY <1>0, <2>2, <2>3 DEF task, TypeOK
<1>6. Ticks!Record(k)
  <2>1. [ j \in Slots |-> RunState(j) ][k] = "running"
    BY <1>3
  <2>2. [ j \in Slots |-> RunState(j) ]' =
          [ [ j \in Slots |-> RunState(j) ] EXCEPT ![k] = "recorded" ]
    BY <1>0, <1>4
  <2>3. [ j \in Slots |-> tasks[j].last_run_at ]' =
          [ [ j \in Slots |-> tasks[j].last_run_at ] EXCEPT ![k] = now_at ]
    BY <1>5
  <2>4. [ j \in Slots |-> tasks[j].interval_ms ]' = [ j \in Slots |-> tasks[j].interval_ms ]
    BY <1>5
  <2> QED
    BY <1>0, <1>1, <2>1, <2>2, <2>3, <2>4 DEF Ticks!Record
<1> QED
  BY <1>6 DEF Ticks!Next

\* The end of the thread is the end of the run.
LEMMA FinishesInRound ==
  ASSUME IInv, IInv', NEW s \in Slots, Release(s)
  PROVE  Ticks!Next
<1>0. /\ TypeOK /\ Staged /\ Staged' /\ Live(s) /\ InTick' = TRUE /\ InLoop' = InLoop
      /\ UNCHANGED << clock, tasks_count, now_at >>
      /\ thread'[s].pc # "none" /\ thread'[s].task = thread[s].task
      /\ \A j \in Slots : j # thread[s].task => RunState(j)' = RunState(j)
  BY OthersKept DEF Worker, IInv
<1>1. InTick = TRUE /\ thread[s].task \in Slots /\ Holds(s, thread[s].task)
  BY <1>0, WorkerInTick
<1> PICK k \in Slots : k = thread[s].task
  BY <1>1
<1>2. /\ thread[s].pc = "release" /\ thread'[s].pc = "ended" /\ Holds(s, k) /\ Holds(s, k)'
  <2>1. thread[s].pc = "release" /\ thread' = [ thread EXCEPT ![s].pc = "ended" ]
    BY DEF Release, Moves
  <2>2. thread[s] \in Thread /\ thread \in [Slots -> Thread]
    BY <1>0 DEF TypeOK
  <2> QED
    BY <1>0, <1>1, <2>1, <2>2 DEF Holds, Thread
<1>3. RunState(k) = "recorded"
  <2>1. Stage(thread[s].pc) = "recorded"
    BY <1>2 DEF Stage
  <2> QED
    BY <1>0, <1>1, <1>2, <2>1 DEF Staged
<1>4. RunState(k)' = "done"
  <2>1. Stage(thread[s].pc)' = "done"
    BY <1>2 DEF Stage
  <2> QED
    BY <1>0, <1>2, <2>1 DEF Staged
<1>5. \A j \in Slots : Same(j)
  BY DEF Release, Same
<1>6. Ticks!Finish(k)
  <2>1. [ j \in Slots |-> RunState(j) ][k] = "recorded"
    BY <1>3
  <2>2. /\ [ j \in Slots |-> RunState(j) ]' =
             [ [ j \in Slots |-> RunState(j) ] EXCEPT ![k] = "done" ]
        /\ UNCHANGED << clock, InLoop, InTick, IF InTick THEN now_at ELSE 0, tasks_count,
                        [ j \in Slots |-> tasks[j].interval_ms ],
                        [ j \in Slots |-> tasks[j].last_run_at ] >>
    BY <1>0, <1>1, <1>4, <1>5, RunsOn
  <2> QED
    BY <2>1, <2>2 DEF Ticks!Finish, Ticks!table
<1> QED
  BY <1>6 DEF Ticks!Next

\* The other steps of a worker stay inside its stage of the run.
LEMMA HiddenInRound ==
  ASSUME IInv, IInv', NEW s \in Slots, Worker(s), ~ Record(s), ~ Release(s)
  PROVE  UNCHANGED Ticks!vars
<1>0. /\ TypeOK /\ Staged /\ Staged' /\ Live(s) /\ InTick' = TRUE /\ InLoop' = InLoop
      /\ UNCHANGED << clock, tasks_count, now_at >>
      /\ thread'[s].pc # "none" /\ thread'[s].task = thread[s].task
      /\ \A j \in Slots : j # thread[s].task => RunState(j)' = RunState(j)
      /\ thread \in [Slots -> Thread] /\ tasks \in [Slots -> Task] /\ clock \in Nat
  BY OthersKept DEF IInv, TypeOK
<1>1. InTick = TRUE /\ thread[s].task \in Slots /\ Holds(s, thread[s].task)
  BY <1>0, WorkerInTick
<1> PICK k \in Slots : k = thread[s].task
  BY <1>1
<1>2. /\ \A j \in Slots : Same(j)
      /\ Stage(thread'[s].pc) = Stage(thread[s].pc)
  <2>1. CASE SetDeadline(s)
    <3> DEFINE set == WithDeadline(tasks[k])
    <3>1. set.interval_ms = tasks[k].interval_ms /\ set.last_run_at = tasks[k].last_run_at
      BY <1>0, WithDeadlineType
    <3>2. tasks' = [ tasks EXCEPT ![k] = set ]
      BY <2>1 DEF SetDeadline
    <3> HIDE DEF set
    <3>3. \A j \in Slots : Same(j)
      BY <1>0, <3>1, <3>2 DEF Same
    <3>4. thread[s].pc = "deadline" /\ thread'[s].pc = "begin"
      BY <1>0, <2>1 DEF SetDeadline, Moves, Thread
    <3> QED
      BY <3>3, <3>4 DEF Stage
  <2>2. CASE CallTask(s)
    <3>1. thread[s].pc = "begin" /\ thread'[s].pc = "callback" /\ tasks' = tasks
      BY <1>0, <2>2 DEF CallTask, Thread
    <3> QED
      BY <3>1 DEF Stage, Same
  <2>3. CASE TaskReturns(s)
    <3>1. thread[s].pc = "callback" /\ thread'[s].pc = "record" /\ tasks' = tasks
      BY <1>0, <2>3 DEF TaskReturns, Thread
    <3> QED
      BY <3>1 DEF Stage, Same
  <2>4. CASE CheckOverrun(s)
    <3> DEFINE counted == OverrunCounted(tasks[k], clock)
    <3>1. /\ counted.interval_ms = tasks[k].interval_ms
          /\ counted.last_run_at = tasks[k].last_run_at
      BY <1>0, OverrunCountedType
    <3>2. tasks' = [ tasks EXCEPT ![k] = counted ]
      BY <2>4 DEF CheckOverrun
    <3> HIDE DEF counted
    <3>3. \A j \in Slots : Same(j)
      BY <1>0, <3>1, <3>2 DEF Same
    <3>4. thread[s].pc = "locked" /\ thread'[s].pc \in { "hooked", "release" }
      BY <1>0, <2>4 DEF CheckOverrun, Moves, Thread
    <3> QED
      BY <3>3, <3>4 DEF Stage
  <2>5. CASE CallHook(s)
    <3>1. thread[s].pc = "hooked" /\ thread'[s].pc \in { "hooked", "inhook" } /\ tasks' = tasks
      BY <1>0, <2>5 DEF CallHook, Moves, Thread
    <3> QED
      BY <3>1 DEF Stage, Same
  <2>6. CASE HookReturns(s)
    <3>1. thread[s].pc = "inhook" /\ thread'[s].pc = "release" /\ tasks' = tasks
      BY <1>0, <2>6 DEF HookReturns, Moves, Thread
    <3> QED
      BY <3>1 DEF Stage, Same
  <2> QED
    BY <2>1, <2>2, <2>3, <2>4, <2>5, <2>6 DEF Worker
<1>3. RunState(k)' = RunState(k)
  <2>1. Holds(s, k) /\ Holds(s, k)' /\ Stage(thread[s].pc)' = Stage(thread[s].pc)
    BY <1>0, <1>1, <1>2 DEF Holds, Stage
  <2> QED
    BY <1>0, <1>1, <2>1 DEF Staged
<1> QED
  BY <1>0, <1>1, <1>2, <1>3, Unseen

\* The end of the joins is the end of the round: every thread is gone, and who has
\* none was passed over, and has not waited its interval, or has waited a whole wrap.
LEMMA EndsRound ==
  ASSUME JInv, EndTick
  PROVE  Ticks!Next
<1>0. /\ TypeOK /\ HandlesInOrder /\ JoinedInOrder /\ Times /\ Skipped /\ Staged
      /\ now_at \in Nat /\ \A k \in Slots : k \in Nat
  BY MappedByWorker DEF JInv, IInv, TypeOK, Slots
<1>1. /\ pc = "join" /\ pc' = "sleep" /\ i > thread_count
      /\ UNCHANGED << tasks, tasks_count, clock, now_at >>
  BY DEF EndTick, sched
<1>2. InTick = TRUE /\ InTick' = FALSE /\ InLoop' = InLoop
  BY <1>1 DEF InTick, InLoop, Phases
<1>3. ASSUME NEW s \in Slots, thread[s].pc # "none"
      PROVE  thread[s].pc \in { "joined", "failed" } /\ Stage(thread[s].pc) = "done"
  <2>1. s < i
    BY <1>0, <1>1, <1>3, TasksAssumption DEF HandlesInOrder, TypeOK
  <2>2. thread[s].pc \in { "joined", "failed" }
    BY <1>0, <1>1, <1>3, <2>1 DEF JoinedInOrder, Past
  <2> QED
    BY <2>2 DEF Stage
<1>4. ASSUME NEW k \in Slots
      PROVE  \/ RunState(k) = "done" /\ \E s \in Slots : Holds(s, k)
             \/ RunState(k) = "waiting" /\ \A s \in Slots : ~ Holds(s, k)
  BY <1>0, <1>2, <1>3 DEF Staged, Holds
<1>5. ASSUME NEW k \in Slots PROVE RunState(k)' = "waiting"
  BY <1>2 DEF RunState
<1>6. ASSUME NEW k \in Slots, k =< tasks_count, RunState(k) = "waiting",
             ~ (now_at - tasks[k].last_run_at >= WORD)
      PROVE  now_at - tasks[k].last_run_at < tasks[k].interval_ms
  <2>1. ~ IsDue(tasks[k], now_ms) /\ tasks[k].last_run_at =< now_at
    BY <1>0, <1>1, <1>4, <1>6 DEF Skipped, Scanned
  <2>2. /\ tasks[k] \in Task /\ tasks[k].last_run_at \in Nat
        /\ tasks[k].interval_ms \in Nat /\ WORD \in Nat
    BY <1>0, WordAssumption DEF TypeOK, Task, Words
  <2>3. Elapsed(tasks[k], now_ms) = now_at - tasks[k].last_run_at
    BY <1>0, <1>6, <2>1, <2>2, ElapsedIsExact DEF Times
  <2> QED
    BY <1>0, <2>1, <2>2, <2>3 DEF IsDue
<1>7. Ticks!EndTick
  <2>1. \A k \in Slots : [ j \in Slots |-> RunState(j) ][k] \in { "waiting", "done" }
    BY <1>4
  <2>2. ASSUME NEW k \in Slots, k =< tasks_count,
               [ j \in Slots |-> RunState(j) ][k] = "waiting"
        PROVE  \/ Ticks!Waited(k) < [ j \in Slots |-> tasks[j].interval_ms ][k]
               \/ Ticks!Waited(k) >= WORD
    BY <1>2, <1>6, <2>2 DEF Ticks!Waited
  <2>3. [ j \in Slots |-> RunState(j) ]' = Ticks!AllWaiting
    BY <1>5 DEF Ticks!AllWaiting
  <2> QED
    BY <1>1, <1>2, <2>1, <2>2, <2>3 DEF Ticks!EndTick, Ticks!table
<1> QED
  BY <1>7 DEF Ticks!Next

\* A tick begins with a round, in which no entry has a thread yet.
LEMMA BeginsRound ==
  ASSUME IInv, IInv', BeginTick
  PROVE  Ticks!Next
<1>0. HandlesInOrder /\ TypeOK /\ Staged'
  BY MappedNext DEF IInv
<1>1. /\ pc = "check" /\ pc' = "scan" /\ now_at' = clock
      /\ UNCHANGED << tasks, tasks_count, clock, thread >>
  BY DEF BeginTick, sched
<1>2. InTick = FALSE /\ InTick' = TRUE /\ InLoop' = InLoop /\ InLoop
  BY <1>1 DEF InTick, InLoop, Phases
<1>3. ASSUME NEW k \in Slots PROVE RunState(k) = "waiting" /\ RunState(k)' = "waiting"
  <2>1. \A s \in Slots : thread[s].pc = "none"
    BY <1>0, <1>1 DEF HandlesInOrder, Slots
  <2>2. \A s \in Slots : ~ Holds(s, k)'
    BY <1>1, <2>1 DEF Holds
  <2> QED
    BY <1>0, <1>2, <2>2 DEF Staged, RunState
<1>4. [ k \in Slots |-> RunState(k) ]' = [ k \in Slots |-> RunState(k) ]
  BY <1>3
<1>5. Ticks!BeginTick
  BY <1>1, <1>2, <1>4 DEF Ticks!BeginTick, Ticks!table
<1> QED
  BY <1>5 DEF Ticks!Next

\* Each step of the threaded scheduler is a step of the rounds or none.
LEMMA RoundsStep ==
  ASSUME JInv, JInv', [Next]_vars
  PROVE  [Ticks!Next]_Ticks!vars
<1>0. /\ IInv /\ IInv' /\ TypeOK /\ Staged /\ Staged'
      /\ thread \in [Slots -> Thread]
  BY MappedByWorker, MappedNext DEF JInv, IInv, TypeOK
<1>1. ASSUME NEW n \in 0 .. MaxTasks, sched_init(n) PROVE [Ticks!Next]_Ticks!vars
  BY <1>1, Prepares DEF sched_init, InLoop, InTick, Phases
<1>2. ASSUME NEW interval \in Intervals, NEW prio \in Priorities,
             sched_add_task(interval, prio)
      PROVE  [Ticks!Next]_Ticks!vars
  BY <1>2, Prepares DEF sched_add_task, InLoop, InTick, Phases
\* A step inside the tick that leaves the threads in their stages.
<1>q. ASSUME UNCHANGED << clock, tasks, tasks_count, now_at >>,
             InLoop' = InLoop, InTick' = InTick, \A s \in Slots : Kept(s)
      PROVE  [Ticks!Next]_Ticks!vars
  <2>1. ASSUME NEW k \in Slots PROVE Same(k) /\ RunState(k)' = RunState(k)
    BY <1>0, <1>q, StateKept DEF Same
  <2> QED
    BY <1>q, <2>1, Unseen
<1>r. ASSUME UNCHANGED << clock, tasks, tasks_count, now_at, thread >>,
             InLoop' = InLoop, InTick' = InTick
      PROVE  [Ticks!Next]_Ticks!vars
  BY <1>q, <1>r DEF Kept
<1>3. ASSUME NEW hook \in BOOLEAN, sched_set_log_hook(hook) PROVE [Ticks!Next]_Ticks!vars
  BY <1>3, <1>r DEF sched_set_log_hook, locals, history, InLoop, InTick
<1>4. CASE sched_stop
  BY <1>4, <1>r DEF sched_stop, locals, history, InLoop, InTick
<1>5. CASE sched_destroy
  BY <1>5, Prepares DEF sched_destroy, InLoop, InTick, Phases
<1>6. CASE Enter
  BY <1>6, Prepares DEF Enter, InLoop, InTick, Phases
<1>7. CASE BeginTick
  BY <1>0, <1>7, BeginsRound
<1>8. CASE Leave
  <2>1. /\ pc = "check" /\ pc' = "stopped" /\ UNCHANGED << clock, tasks, tasks_count >>
    BY <1>8 DEF Leave, sched
  <2>2. InLoop = TRUE /\ InLoop' = FALSE /\ InTick = FALSE /\ InTick' = FALSE
    BY <2>1 DEF InLoop, InTick, Phases
  <2>3. ASSUME NEW k \in Slots PROVE RunState(k) = "waiting" /\ RunState(k)' = "waiting"
    BY <2>2 DEF RunState
  <2>4. [ k \in Slots |-> RunState(k) ]' = [ k \in Slots |-> RunState(k) ]
    BY <2>3
  <2>5. Ticks!Leave
    BY <2>1, <2>2, <2>4 DEF Ticks!Leave, Ticks!table
  <2> QED
    BY <2>5 DEF Ticks!Next
<1>9. CASE Scan
  <2>1. pc = "scan" /\ pc' \in { "scan", "spawn" }
    BY <1>9 DEF Scan
  <2>2. InLoop' = InLoop /\ InTick' = InTick
    BY <2>1 DEF InLoop, InTick, Phases
  <2> QED
    BY <1>9, <1>r, <2>2 DEF Scan, sched, history
<1>10. CASE Spawn \/ SpawnFails
  BY <1>0, <1>10, StartsInRound DEF Spawn, SpawnFails
<1>11. CASE EndScan
  <2>1. InLoop' = InLoop /\ InTick' = InTick
    BY <1>11 DEF EndScan, InLoop, InTick, Phases
  <2> QED
    BY <1>11, <1>r, <2>1 DEF EndScan, sched, history
<1>12. CASE Join
  <2>1. /\ i \in Slots /\ thread[i].pc = "ended" /\ pc' = pc
        /\ thread' = [ thread EXCEPT ![i].pc = "joined" ]
    BY <1>0, <1>12, TasksAssumption DEF Join, TypeOK, Slots
  <2>2. InLoop' = InLoop /\ InTick' = InTick
    BY <2>1 DEF InLoop, InTick
  <2>3. ASSUME NEW s \in Slots PROVE Kept(s)
    <3>1. CASE s # i
      BY <1>0, <2>1, <3>1 DEF Kept
    <3>2. CASE s = i
      <4>1. thread'[s].pc = "joined" /\ thread'[s].task = thread[s].task
        BY <1>0, <2>1, <3>2 DEF Thread
      <4> QED
        BY <2>1, <3>2, <4>1 DEF Kept, Stage
    <3> QED
      BY <3>1, <3>2
  <2> QED
    BY <1>12, <1>q, <2>2, <2>3 DEF Join, sched, history
<1>13. CASE JoinNoThread
  <2>1. InLoop' = InLoop /\ InTick' = InTick
    BY <1>13 DEF JoinNoThread, InLoop, InTick, Phases
  <2> QED
    BY <1>13, <1>r, <2>1 DEF JoinNoThread, sched, history
<1>14. CASE EndTick
  BY <1>14, EndsRound
\* A step between two ticks shows only what it does to the table and the clock.
<1>w. ASSUME pc = "sleep", pc' = "check", UNCHANGED << clock, tasks, tasks_count >>
      PROVE  [Ticks!Next]_Ticks!vars
  <2>1. InLoop' = InLoop /\ InTick' = InTick /\ ~ InTick
    BY <1>w DEF InLoop, InTick, Phases
  <2>2. ASSUME NEW k \in Slots PROVE Same(k) /\ RunState(k)' = RunState(k)
    BY <1>0, <1>w, <2>1 DEF Same, Staged
  <2> QED
    BY <1>w, <2>1, <2>2, Unseen
<1>15. CASE Wake
  BY <1>15, <1>w DEF Wake, sched
<1>16. ASSUME NEW s \in Slots, Worker(s) PROVE [Ticks!Next]_Ticks!vars
  BY <1>0, <1>16, RecordsInRound, FinishesInRound, HiddenInRound
<1>17. CASE handle_signal
  <2>1. CASE UNCHANGED << pc, thread, now_at >>
    BY <1>17, <1>r, <2>1 DEF handle_signal, sched, InLoop, InTick
  <2>2. CASE pc = "sleep" /\ pc' = "check"
    BY <1>17, <1>w, <2>2 DEF handle_signal, sched
  <2> QED
    BY <1>17, <2>1, <2>2 DEF handle_signal
<1>18. CASE TimePasses
  <2>1. clock' = clock + 1 /\ UNCHANGED << tasks, tasks_count, pc, now_at, thread >>
    BY <1>18 DEF TimePasses, sched, locals, history
  <2>2. InLoop' = InLoop /\ InTick' = InTick
    BY <2>1 DEF InLoop, InTick
  <2>3. ASSUME NEW k \in Slots PROVE RunState(k)' = RunState(k)
    BY <1>0, <2>1, <2>2, StateKept DEF Kept
  <2>4. [ k \in Slots |-> RunState(k) ]' = [ k \in Slots |-> RunState(k) ]
    BY <2>3
  <2>5. Ticks!TimePasses
    BY <2>1, <2>2, <2>4 DEF Ticks!TimePasses, Ticks!table
  <2> QED
    BY <2>5 DEF Ticks!Next
<1>19. CASE UNCHANGED vars
  BY <1>19, <1>r DEF vars, sched, locals, history, InLoop, InTick
<1> QED
  BY <1>1, <1>2, <1>3, <1>4, <1>5, <1>6, <1>7, <1>8, <1>9, <1>10, <1>11, <1>12, <1>13,
     <1>14, <1>15, <1>16, <1>17, <1>18, <1>19 DEF Next, Main, Undefined

\* The threaded scheduler implements the rounds: whatever the threads do and however
\* they interleave, nobody runs early or twice in a tick, nobody due is passed over
\* unless its thread could not be created, and no run outlasts its tick.
THEOREM PtRounds == Spec => ImplementsRounds
<1>1. Init => Ticks!Init
  BY RoundsInit
<1>2. JInv /\ JInv' /\ [Next]_vars => [Ticks!Next]_Ticks!vars
  BY RoundsStep
<1> QED
  BY <1>1, <1>2, SpecJInv, PTL DEF Spec, ImplementsRounds, Ticks!Spec
=============================================================================
