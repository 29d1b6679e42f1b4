-------------------------- MODULE SchedTaskProofs --------------------------
(***************************************************************************)
(* What the task record's operators return and preserve, and the fact on   *)
(* wrapped times that both schedulers rest on.                             *)
(***************************************************************************)
EXTENDS SchedTask, TLAPS

\* A time is a number of whole wraps and its low word.
LEMMA DivMod ==
  ASSUME NEW a \in Int
  PROVE  /\ U32(a) \in Words
         /\ a \div WORD \in Int
         /\ a = WORD * (a \div WORD) + U32(a)
BY WordAssumption, SMTT(30) DEF U32, Words

\* A word is its own low word.
LEMMA ModSmall ==
  ASSUME NEW d \in Words
  PROVE  U32(d) = d
BY WordAssumption DEF U32, Words

\* The difference of two uint32_t that comes out negative wraps once.
LEMMA ModNeg ==
  ASSUME NEW d \in Int, -WORD < d, d < 0
  PROVE  U32(d) = d + WORD
BY WordAssumption, SMTT(30) DEF U32, Words

\* Products with the modulus, which the solver does not bound by itself.
LEMMA Mul ==
  ASSUME NEW q \in Int, NEW W \in Nat, W > 0
  PROVE  /\ q <= -1 => W * q <= -W
         /\ q >= 0 => W * q >= 0
         /\ q >= 1 => W * q >= W
  BY SMTT(30)

\* The low word of a number is no more than the number.
LEMMA WordIsLow ==
  ASSUME NEW a \in Nat
  PROVE  U32(a) \in Nat /\ U32(a) =< a
<1>1. U32(a) \in Words /\ a \div WORD \in Int /\ a = WORD * (a \div WORD) + U32(a)
  BY DivMod
<1>2. WORD \in Nat /\ WORD > 0 /\ U32(a) \in Nat /\ U32(a) < WORD
  BY <1>1, WordAssumption DEF Words
<1>3. a \div WORD >= 0
  BY <1>1, <1>2, Mul
<1>4. WORD * (a \div WORD) >= 0
  BY <1>1, <1>2, <1>3, Mul
<1> QED
  BY <1>1, <1>2, <1>4

\* The wrapped difference of two wrapped times never exceeds the real one.
LEMMA WrappedDifference ==
  ASSUME NEW a \in Nat, NEW b \in Nat, b =< a
  PROVE  U32(U32(a) - U32(b)) =< a - b
<1> DEFINE d  == U32(a) - U32(b)
           qa == a \div WORD
           qb == b \div WORD
           q  == qa - qb
<1>1. /\ U32(a) \in Words /\ U32(b) \in Words /\ qa \in Int /\ qb \in Int
      /\ a = WORD * qa + U32(a) /\ b = WORD * qb + U32(b)
  BY DivMod
<1>2. WORD \in Nat /\ WORD > 0
  BY WordAssumption
<1>3. d \in Int /\ -WORD < d /\ d < WORD /\ q \in Int
  BY <1>1, <1>2 DEF Words
<1>4. a - b = WORD * q + d /\ WORD * q \in Int
  BY <1>1, <1>2 DEF Words
<1> HIDE DEF q, d
<1>5. CASE d >= 0
  <2>1. q >= 0
    BY <1>2, <1>3, <1>4, <1>5, Mul
  <2>2. WORD * q >= 0
    BY <1>2, <1>3, <2>1, Mul
  <2>3. d \in Words
    BY <1>2, <1>3, <1>5 DEF Words
  <2>4. U32(d) = d
    BY <2>3, ModSmall
  <2>5. U32(d) =< a - b
    BY <1>3, <1>4, <2>2, <2>4
  <2> QED
    BY <2>5 DEF d
<1>6. CASE d < 0
  <2>1. q >= 1
    BY <1>2, <1>3, <1>4, <1>6, Mul
  <2>2. WORD * q >= WORD
    BY <1>2, <1>3, <2>1, Mul
  <2>3. U32(d) = d + WORD
    BY <1>3, <1>6, ModNeg
  <2>4. U32(d) =< a - b
    BY <1>2, <1>3, <1>4, <2>2, <2>3
  <2> QED
    BY <2>4 DEF d
<1> QED
  BY <1>3, <1>5, <1>6

-----------------------------------------------------------------------------
\* What the updates of an entry preserve

\* millis() returns a word.
LEMMA MillisType ==
  ASSUME NEW a \in Nat
  PROVE  millis(a) \in Words /\ U32(a) \in Words
BY DivMod DEF millis

\* Sums, differences and increments of uint32_t are words again.
LEMMA WordArithmetic ==
  ASSUME NEW x \in Words, NEW y \in Words
  PROVE  U32(x + y) \in Words /\ U32(x - y) \in Words /\ U32(x + 1) \in Words
<1>1. x + y \in Int /\ x - y \in Int /\ x + 1 \in Int
  BY WordAssumption DEF Words
<1> QED
  BY <1>1, DivMod

\* calloc leaves well-typed entries.
LEMMA ZeroTaskType == ZeroTask \in Task
BY WordAssumption DEF ZeroTask, Task, Words

\* sched_add_task writes a well-typed entry whose last run is now.
LEMMA AddedTaskType ==
  ASSUME NEW interval \in Words, NEW prio \in 0 .. 255, NEW clock \in Nat
  PROVE  /\ AddedTask(interval, prio, clock) \in Task
         /\ AddedTask(interval, prio, clock).last_run_at = clock
         /\ AddedTask(interval, prio, clock).last_run_ms = U32(clock)
BY ZeroTaskType, MillisType DEF AddedTask, Task, ZeroTask, millis

\* Fixing the deadline leaves the interval and the last run alone.
LEMMA WithDeadlineType ==
  ASSUME NEW task \in Task
  PROVE  /\ WithDeadline(task) \in Task
         /\ WithDeadline(task).interval_ms = task.interval_ms
         /\ WithDeadline(task).last_run_at = task.last_run_at
         /\ WithDeadline(task).last_run_ms = task.last_run_ms
<1>1. U32(task.last_run_ms + task.interval_ms) \in Words
  BY WordArithmetic DEF Task
<1> QED
  BY <1>1 DEF WithDeadline, Task

\* Accounting for a run moves the last run to the tick and keeps the interval.
LEMMA AccountedType ==
  ASSUME NEW task \in Task, NEW now_ms \in Words, NEW now_at \in Nat,
         NEW duration \in Words
  PROVE  /\ Accounted(task, now_ms, now_at, duration) \in Task
         /\ Accounted(task, now_ms, now_at, duration).interval_ms = task.interval_ms
         /\ Accounted(task, now_ms, now_at, duration).last_run_at = now_at
         /\ Accounted(task, now_ms, now_at, duration).last_run_ms = now_ms
<1>1. /\ U32(task.run_count + 1) \in Words
      /\ U32(task.total_duration_ms + duration) \in Words
  BY WordArithmetic DEF Task
<1> QED
  BY <1>1 DEF Accounted, Task

\* Counting an overrun leaves the interval and the last run alone.
LEMMA OverrunCountedType ==
  ASSUME NEW task \in Task, NEW clock \in Nat
  PROVE  /\ OverrunCounted(task, clock) \in Task
         /\ OverrunCounted(task, clock).interval_ms = task.interval_ms
         /\ OverrunCounted(task, clock).last_run_at = task.last_run_at
         /\ OverrunCounted(task, clock).last_run_ms = task.last_run_ms
<1>1. U32(task.overrun_count + 1) \in Words
  BY WordArithmetic DEF Task
<1> QED
  BY <1>1 DEF OverrunCounted, Task

\* next_due_ms stays a word: who is not due has some of its interval left.
LEMMA EarlierDueType ==
  ASSUME NEW task \in Task, NEW now_ms \in Words, NEW next_due_ms \in Words,
         ~ IsDue(task, now_ms)
  PROVE  EarlierDue(task, now_ms, next_due_ms) \in Words
<1>1. Elapsed(task, now_ms) \in Words
  BY WordArithmetic DEF Elapsed, Task
<1> QED
  BY <1>1, WordAssumption DEF EarlierDue, IsDue, Task, Words

\* Sorting rearranges entries that were there before.
LEMMA RearrangedType ==
  ASSUME NEW tasks \in [Slots -> Task], NEW count, NEW p \in Sortings(tasks, count)
  PROVE  /\ Rearranged(tasks, p) \in [Slots -> Task]
         /\ \A k \in Slots : p[k] \in Slots /\ Rearranged(tasks, p)[k] = tasks[p[k]]
BY DEF Rearranged, Sortings

\* The test of sched_start, made on wrapped times, never fires early: a task found
\* due has waited at least its interval since its last run.
LEMMA DueMeansWaited ==
  ASSUME NEW task \in Task, NEW now_at \in Nat,
         task.last_run_ms = U32(task.last_run_at),
         task.last_run_at =< now_at,
         IsDue(task, U32(now_at))
  PROVE  now_at - task.last_run_at >= task.interval_ms
<1>1. task.last_run_at \in Nat /\ task.interval_ms \in Words
  BY DEF Task
<1>2. U32(U32(now_at) - U32(task.last_run_at)) =< now_at - task.last_run_at
  BY <1>1, WrappedDifference
<1>3. U32(U32(now_at) - U32(task.last_run_at)) >= task.interval_ms
  BY DEF IsDue, Elapsed
<1>4. U32(now_at) \in Words /\ U32(task.last_run_at) \in Words
  BY <1>1, MillisType
<1>5. U32(U32(now_at) - U32(task.last_run_at)) \in Words
  BY <1>4, WordArithmetic
<1> QED
  BY <1>1, <1>2, <1>3, <1>5, WordAssumption DEF Words

\* Below a whole wrap the test is exact: what the code computes is the time since the
\* task's last run.
LEMMA ElapsedIsExact ==
  ASSUME NEW task \in Task, NEW now_at \in Nat,
         task.last_run_ms = U32(task.last_run_at),
         task.last_run_at =< now_at,
         now_at - task.last_run_at < WORD
  PROVE  Elapsed(task, U32(now_at)) = now_at - task.last_run_at
<1> DEFINE b == task.last_run_at
<1>1. b \in Nat /\ b =< now_at /\ now_at - b < WORD
  BY DEF Task
<1>6. Elapsed(task, U32(now_at)) = U32(U32(now_at) - U32(b))
  BY DEF Elapsed
<1> HIDE DEF b
<1> DEFINE d  == U32(now_at) - U32(b)
           qa == now_at \div WORD
           qb == b \div WORD
           q  == qa - qb
<1>2. /\ U32(now_at) \in Words /\ U32(b) \in Words /\ qa \in Int /\ qb \in Int
      /\ now_at = WORD * qa + U32(now_at) /\ b = WORD * qb + U32(b)
  BY <1>1, DivMod
<1>3. WORD \in Nat /\ WORD > 0
  BY WordAssumption
<1>4. d \in Int /\ -WORD < d /\ d < WORD /\ q \in Int
  BY <1>2, <1>3 DEF Words
<1>5. now_at - b = WORD * q + d /\ WORD * q \in Int
  <2>1. /\ WORD * qa \in Int /\ WORD * qb \in Int
        /\ WORD * q = WORD * qa - WORD * qb
    BY <1>2, <1>3
  <2>2. U32(now_at) \in Int /\ U32(b) \in Int
    BY <1>2, <1>3 DEF Words
  <2> HIDE DEF q, qa, qb
  <2> QED
    BY <1>1, <1>2, <2>1, <2>2
<1>9. Elapsed(task, U32(now_at)) = U32(d)
  BY <1>6
<1> HIDE DEF q, d
<1>7. CASE d >= 0
  <2>1. WORD * q < WORD /\ WORD * q > -WORD
    BY <1>1, <1>3, <1>4, <1>5, <1>7
  <2>2. q = 0
    BY <1>3, <1>4, <2>1, Mul
  <2>3. WORD * q = 0
    BY <1>3, <2>2
  <2>4. U32(d) = d
    BY <1>3, <1>4, <1>7, ModSmall DEF Words
  <2> QED
    BY <1>4, <1>5, <1>9, <2>3, <2>4 DEF b
<1>8. CASE d < 0
  <2>1. WORD * q > 0 /\ WORD * (q - 2) < WORD
    BY <1>1, <1>3, <1>4, <1>5, <1>8
  <2>2. q = 1
    <3>1. q >= 1
      BY <1>3, <1>4, <2>1, Mul
    <3>2. q - 2 \in Int /\ WORD * (q - 2) = WORD * q - 2 * WORD
      BY <1>3, <1>4, <1>5
    <3>3. WORD * q < 2 * WORD
      BY <1>1, <1>3, <1>4, <1>5
    <3>4. WORD * (q - 2) < 0
      BY <1>3, <1>5, <3>2, <3>3
    <3>5. ~ (q - 2 >= 0)
      BY <1>3, <3>2, <3>4, Mul
    <3> QED
      BY <1>4, <3>1, <3>5
  <2>3. WORD * q = WORD
    BY <1>3, <2>2
  <2>4. U32(d) = d + WORD
    BY <1>4, <1>8, ModNeg
  <2> QED
    BY <1>3, <1>4, <1>5, <1>9, <2>3, <2>4 DEF b
<1> QED
  BY <1>4, <1>7, <1>8

-----------------------------------------------------------------------------
\* Counters that wrap

\* A number is written in one way only as a multiple of WORD and a word.
LEMMA LowWordUnique ==
  ASSUME NEW a \in Int, NEW q \in Int, NEW r \in Words, a = WORD * q + r
  PROVE  U32(a) = r /\ a \div WORD = q
<1> DEFINE u == U32(a)
           p == a \div WORD
           d == q - p
<1>1. u \in Words /\ p \in Int /\ a = WORD * p + u
  BY DivMod
<1>2. WORD \in Nat /\ WORD > 0 /\ r \in Int /\ u \in Int /\ 0 =< r /\ r < WORD
      /\ 0 =< u /\ u < WORD
  BY <1>1, WordAssumption DEF Words
<1>3. d \in Int /\ WORD * d = WORD * q - WORD * p
  BY <1>1, <1>2
<1>4. WORD * d = u - r /\ WORD * d \in Int
  <2>1. WORD * q \in Int /\ WORD * p \in Int
    BY <1>1, <1>2
  <2> HIDE DEF d, p, u
  <2> QED
    BY <1>1, <1>2, <1>3, <2>1
<1>5. d = 0
  <2> HIDE DEF d, p, u
  <2> QED
    BY <1>2, <1>3, <1>4, Mul
<1>6. WORD * d = 0
  BY <1>2, <1>5
<1>7. q = p
  BY <1>1, <1>5
<1> HIDE DEF d, p, u
<1>8. u = r
  BY <1>2, <1>4, <1>6
<1> QED
  BY <1>7, <1>8 DEF u, p

\* Adding to a low word and cutting off again is the same as adding to the number.
LEMMA LowWordAdds ==
  ASSUME NEW a \in Int, NEW b \in Int
  PROVE  U32(U32(a) + b) = U32(a + b)
<1> DEFINE qa == a \div WORD
           s  == U32(a) + b
           qs == s \div WORD
<1>1. U32(a) \in Words /\ qa \in Int /\ a = WORD * qa + U32(a) /\ WORD \in Nat
  BY DivMod, WordAssumption
<1>2. s \in Int
  BY <1>1 DEF Words
<1>3. U32(s) \in Words /\ qs \in Int /\ s = WORD * qs + U32(s)
  BY <1>2, DivMod
<1>4. /\ WORD * qa \in Int /\ WORD * qs \in Int /\ U32(a) \in Int /\ U32(s) \in Int
      /\ WORD * (qa + qs) = WORD * qa + WORD * qs
  <2> HIDE DEF s, qs, qa
  <2>1. U32(a) \in Int /\ U32(s) \in Int
    BY <1>1, <1>3 DEF Words
  <2>2. WORD * qa \in Int /\ WORD * qs \in Int
    BY <1>1, <1>3
  <2>3. WORD * (qa + qs) = WORD * qa + WORD * qs
    BY <1>1, <1>3
  <2> QED
    BY <2>1, <2>2, <2>3
<1>5. a + b = WORD * (qa + qs) + U32(s)
  <2>1. s = U32(a) + b
    OBVIOUS
  <2> HIDE DEF s, qs, qa
  <2> QED
    BY <1>1, <1>3, <1>4, <2>1
<1>6. a + b \in Int /\ qa + qs \in Int
  BY <1>1, <1>3
<1> HIDE DEF s, qs, qa
<1> QED
  BY <1>3, <1>5, <1>6, LowWordUnique DEF s

\* A counter that is incremented differs from what it was.
LEMMA IncrementDiffers ==
  ASSUME NEW x \in Words
  PROVE  U32(x + 1) # x
<1>1. WORD \in Nat /\ WORD > 1 /\ x \in Nat /\ x < WORD
  BY WordAssumption DEF Words
<1>2. CASE x + 1 < WORD
  BY <1>1, <1>2, ModSmall DEF Words
<1>3. CASE x + 1 = WORD
  <2>1. 0 \in Words /\ WORD = WORD * 1 + 0 /\ WORD \in Int /\ 1 \in Int
    BY <1>1 DEF Words
  <2>2. \A a, q \in Int : \A r \in Words : a = WORD * q + r => U32(a) = r
    BY LowWordUnique
  <2>3. U32(WORD) = 0
    BY <2>1, <2>2, Zenon
  <2> QED
    BY <1>1, <1>3, <2>3
<1> QED
  BY <1>1, <1>2, <1>3

\* Where the code compares low words: a later time may look earlier, but what looks
\* later is later, and within one wrap the comparison is exact.
LEMMA LaterByLowWord ==
  ASSUME NEW a \in Nat, NEW b \in Nat, b =< a
  PROVE  /\ U32(a) > U32(b) => a > b
         /\ a \div WORD = b \div WORD => (a > b => U32(a) > U32(b))
<1>1. /\ U32(a) \in Words /\ a \div WORD \in Int /\ a = WORD * (a \div WORD) + U32(a)
      /\ U32(b) \in Words /\ b \div WORD \in Int /\ b = WORD * (b \div WORD) + U32(b)
  BY DivMod
<1>2. WORD \in Nat /\ U32(a) \in Int /\ U32(b) \in Int
  BY <1>1, WordAssumption DEF Words
<1>3. WORD * (a \div WORD) \in Int /\ WORD * (b \div WORD) \in Int
  BY <1>1, <1>2
<1>4. U32(a) > U32(b) => a # b
  BY <1>2
<1>5. a \div WORD = b \div WORD => a - b = U32(a) - U32(b)
  <2> DEFINE p == a \div WORD
             q == b \div WORD
  <2>1. a = WORD * p + U32(a) /\ b = WORD * q + U32(b) /\ WORD * p \in Int /\ WORD * q \in Int
    BY <1>1, <1>3
  <2> HIDE DEF p, q
  <2>2. p = q => a - b = U32(a) - U32(b)
    BY <1>2, <2>1
  <2> QED
    BY <2>2 DEF p, q
<1> QED
  BY <1>2, <1>4, <1>5

\* What an uint32_t counter counts, when it is incremented, stays the low word of it.
LEMMA WrappedCount ==
  ASSUME NEW n \in Int, NEW m \in Int, U32(n) = U32(m)
  PROVE  U32(n + 1) = U32(m + 1)
<1>1. \A x \in Int : U32(U32(x) + 1) = U32(x + 1)
  BY LowWordAdds
<1>2. U32(U32(n) + 1) = U32(n + 1) /\ U32(U32(m) + 1) = U32(m + 1)
  BY <1>1, Zenon
<1> QED
  BY <1>2, Zenon

-----------------------------------------------------------------------------
\* What the operators on a task do to its deadline and its statistics

\* The deadline of the run that begins is the low word of its due time.
LEMMA WithDeadlineFixes ==
  ASSUME NEW task \in Task, task.last_run_ms = U32(task.last_run_at)
  PROVE  /\ WithDeadline(task).deadline_ms = U32(task.last_run_at + task.interval_ms)
         /\ WithDeadline(task).run_count = task.run_count
         /\ WithDeadline(task).overrun_count = task.overrun_count
         /\ WithDeadline(task).total_duration_ms = task.total_duration_ms
         /\ WithDeadline(task).max_duration_ms = task.max_duration_ms
<1>1. task.last_run_at \in Int /\ task.interval_ms \in Int
  BY WordAssumption DEF Task, Words
<1>2. U32(task.last_run_ms + task.interval_ms) = U32(task.last_run_at + task.interval_ms)
  BY <1>1, LowWordAdds
<1>3. WithDeadline(task).deadline_ms = U32(task.last_run_ms + task.interval_ms)
  BY DEF WithDeadline, Task
<1> QED
  BY <1>2, <1>3 DEF WithDeadline, Task

\* A run is counted once, and its duration goes into the sum and the maximum.
LEMMA AccountedBooks ==
  ASSUME NEW task \in Task, NEW now_ms, NEW now_at, NEW duration
  PROVE  LET done == Accounted(task, now_ms, now_at, duration)
         IN  /\ done.run_count = U32(task.run_count + 1)
             /\ done.total_duration_ms = U32(task.total_duration_ms + duration)
             /\ done.max_duration_ms =
                  IF duration > task.max_duration_ms THEN duration ELSE task.max_duration_ms
             /\ done.overrun_count = task.overrun_count
             /\ done.deadline_ms = task.deadline_ms
BY DEF Accounted, Task

\* The test for an overrun changes nothing but the count of overruns, and that exactly
\* when the run is found late.
LEMMA OverrunBooks ==
  ASSUME NEW task \in Task, NEW clock \in Nat
  PROVE  /\ OverrunCounted(task, clock).run_count = task.run_count
         /\ OverrunCounted(task, clock).total_duration_ms = task.total_duration_ms
         /\ OverrunCounted(task, clock).max_duration_ms = task.max_duration_ms
         /\ OverrunCounted(task, clock).deadline_ms = task.deadline_ms
         /\ OverrunCounted(task, clock).overrun_count \in
              { task.overrun_count, U32(task.overrun_count + 1) }
         /\ OverrunCounted(task, clock).overrun_count # task.overrun_count
              <=> U32(clock) > task.deadline_ms
<1>1. task.overrun_count \in Words /\ U32(task.overrun_count + 1) # task.overrun_count
  BY IncrementDiffers DEF Task
<1>2. CASE Overran(task, clock)
  <2> DEFINE late == [ task EXCEPT !.overrun_count = U32(task.overrun_count + 1) ]
  <2>1. OverrunCounted(task, clock) = late /\ U32(clock) > task.deadline_ms
    BY <1>2 DEF OverrunCounted, Overran, millis
  <2>2. /\ late.run_count = task.run_count
        /\ late.total_duration_ms = task.total_duration_ms
        /\ late.max_duration_ms = task.max_duration_ms
        /\ late.deadline_ms = task.deadline_ms
        /\ late.overrun_count = U32(task.overrun_count + 1)
    BY DEF Task
  <2> HIDE DEF late
  <2> QED
    BY <1>1, <2>1, <2>2
<1>3. CASE ~ Overran(task, clock)
  BY <1>3 DEF OverrunCounted, Overran, millis
<1> QED
  BY <1>2, <1>3

-----------------------------------------------------------------------------
\* Sums and averages

\* A quotient is no more than the factor that is missing.
LEMMA QuotientBound ==
  ASSUME NEW a \in Nat, NEW b \in Nat, b > 0, NEW c \in Nat, a =< b * c
  PROVE  a \div b =< c
<1> DEFINE q == a \div b
           r == a % b
<1>1. q \in Int /\ r \in Nat /\ a = b * q + r
  BY SMTT(30)
<1> HIDE DEF q, r
<1>2. b * q \in Int /\ b * c \in Int /\ b * (q - c) = b * q - b * c
  BY <1>1, SMTT(30)
<1>3. b * (q - c) =< 0
  BY <1>1, <1>2
<1>4. q - c \in Int /\ ~ (q - c >= 1)
  BY <1>1, <1>3, Mul
<1> QED
  BY <1>1, <1>4 DEF q

\* A sum of n durations, none longer than m, takes one more.
LEMMA SumBound ==
  ASSUME NEW n \in Nat, NEW m \in Nat, NEW total \in Nat, total =< n * m,
         NEW max \in Nat, NEW duration \in Nat, m =< max, duration =< max
  PROVE  total + duration =< (n + 1) * max
<1>1. (n + 1) * max = n * max + max /\ n * max \in Int /\ n * m \in Int
  BY SMTT(30)
<1>2. n * max >= n * m
  <2>1. CASE n = 0
    BY <2>1
  <2>2. CASE n > 0
    <3>1. n * (max - m) >= 0 /\ n * (max - m) = n * max - n * m
      BY <2>2, Mul
    <3> QED
      BY <1>1, <3>1
  <2> QED
    BY <2>1, <2>2
<1> QED
  BY <1>1, <1>2

\* The statistics of a task fit together: the sum of the durations is one of run_count
\* durations, and no run overran twice.
Sound(task) ==
  /\ task.total_duration_ms =< task.run_count * task.max_duration_ms
  /\ task.overrun_count =< task.run_count

\* Of a sum of run_count durations the average is no more than the maximum.
LEMMA AverageBound ==
  ASSUME NEW task \in Task, Sound(task)
  PROVE  sched_avg_ms(task) =< task.max_duration_ms
<1>1. /\ task.total_duration_ms \in Nat /\ task.run_count \in Nat
      /\ task.max_duration_ms \in Nat
  BY WordAssumption DEF Task, Words
<1>2. CASE task.run_count = 0
  BY <1>1, <1>2 DEF sched_avg_ms
<1>3. CASE task.run_count # 0
  <2>1. task.total_duration_ms \div task.run_count =< task.max_duration_ms
    BY <1>1, <1>3, QuotientBound DEF Sound
  <2> QED
    BY <1>3, <2>1 DEF sched_avg_ms
<1> QED
  BY <1>2, <1>3

\* Accounting for a run keeps the statistics sound, also when the sum of the durations
\* wraps, unless the counter of runs does.
LEMMA AccountedSound ==
  ASSUME NEW task \in Task, Sound(task), task.run_count # UINT32_MAX,
         NEW now_ms, NEW now_at, NEW duration \in Words
  PROVE  LET done == Accounted(task, now_ms, now_at, duration)
         IN  Sound(done) /\ done.overrun_count < done.run_count
<1> DEFINE done == Accounted(task, now_ms, now_at, duration)
           n     == task.run_count
           total == task.total_duration_ms
           max   == done.max_duration_ms
<1>1. /\ done.run_count = U32(n + 1)
      /\ done.total_duration_ms = U32(total + duration)
      /\ done.max_duration_ms =
           IF duration > task.max_duration_ms THEN duration ELSE task.max_duration_ms
      /\ done.overrun_count = task.overrun_count
  BY AccountedBooks
<1>2. /\ n \in Nat /\ n + 1 \in Words /\ total \in Nat /\ task.max_duration_ms \in Nat
      /\ duration \in Nat /\ task.overrun_count \in Nat
  BY WordAssumption DEF Task, Words, UINT32_MAX
<1>3. U32(n + 1) = n + 1
  BY <1>2, ModSmall
<1>4. max \in Nat /\ task.max_duration_ms =< max /\ duration =< max
  BY <1>1, <1>2
<1>5. total + duration =< (n + 1) * max
  <2> HIDE DEF n, total, max
  <2> QED
    BY <1>2, <1>4, SumBound DEF Sound, n, total
<1>6. U32(total + duration) \in Nat /\ U32(total + duration) =< total + duration
  BY <1>2, WordIsLow
<1>7. done.total_duration_ms =< done.run_count * done.max_duration_ms
  <2> HIDE DEF n, total
  <2>1. (n + 1) * max \in Int
    BY <1>2, <1>4
  <2> HIDE DEF max, done
  <2>2. U32(total + duration) =< (n + 1) * max
    BY <1>2, <1>5, <1>6, <2>1
  <2> QED
    BY <1>1, <1>3, <2>2 DEF max
<1>8. done.overrun_count < done.run_count /\ done.overrun_count =< done.run_count
  BY <1>1, <1>2, <1>3 DEF Sound
<1> QED
  BY <1>7, <1>8 DEF Sound

\* So does counting one overrun of a run that was counted.
LEMMA OverrunSound ==
  ASSUME NEW task \in Task, Sound(task), task.overrun_count < task.run_count,
         NEW clock \in Nat
  PROVE  Sound(OverrunCounted(task, clock))
<1> DEFINE late == OverrunCounted(task, clock)
<1>1. /\ late.run_count = task.run_count
      /\ late.total_duration_ms = task.total_duration_ms
      /\ late.max_duration_ms = task.max_duration_ms
      /\ late.overrun_count \in { task.overrun_count, U32(task.overrun_count + 1) }
  BY OverrunBooks
<1>2. task.overrun_count \in Nat /\ task.run_count \in Nat
  BY WordAssumption DEF Task, Words
<1>3. U32(task.overrun_count + 1) \in Nat /\ U32(task.overrun_count + 1) =< task.overrun_count + 1
  BY <1>2, WordIsLow
<1> HIDE DEF late
<1>4. late.overrun_count =< late.run_count
  BY <1>1, <1>2, <1>3
<1> QED
  BY <1>1, <1>4 DEF Sound, late
=============================================================================
