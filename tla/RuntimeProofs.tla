--------------------------- MODULE RuntimeProofs ---------------------------
(***************************************************************************)
(* What the global parts of RJOS keep for every number of threads, of      *)
(* calls, of names, keys and lines: the logger's file and its buffer, the  *)
(* configuration's answers and the uptime.                                 *)
(***************************************************************************)
EXTENDS Runtime, SequenceTheorems, TLAPS

Phases == {"idle"} \union LoggerPhases \union ConfigPhases \union ClockPhases

PcType == pc \in [Threads -> Phases]

-----------------------------------------------------------------------------
\* The places of a thread, and who moves

\* Thread t goes from a place in from to one in to.
Moves(t, from, to) ==
  /\ pc[t] \in from
  /\ \E phase \in to : pc' = [ pc EXCEPT ![t] = phase ]

LEMMA MovesType ==
  ASSUME PcType, NEW t \in Threads, NEW from, NEW to \in SUBSET Phases, Moves(t, from, to)
  PROVE  /\ PcType'
         /\ pc'[t] \in to
         /\ \A u \in Threads \ {t} : pc'[u] = pc[u]
BY DEF PcType, Moves

LEMMA LoggerMoves ==
  ASSUME NEW t \in Threads, LoggerCalls(t)
  PROVE  UNCHANGED pc \/ Moves(t, {"idle"} \union LoggerPhases, {"idle"} \union LoggerPhases)
BY DEF LoggerCalls, LoggerBegin, LoggerContinue, TestLevel, logger_set_log_level,
   LockAndClose, logger_enable, Fopen, SetLevel, SetEnabled, Unlock, TestEnabled, Lock,
   WritePiece, Flush, Goes, Call, Moves, LoggerPhases

LEMMA ConfigMoves ==
  ASSUME NEW t \in Threads, ConfigCalls(t)
  PROVE  Moves(t, {"idle"} \union ConfigPhases, {"idle"} \union ConfigPhases)
BY DEF ConfigCalls, ConfigBegin, ConfigContinue, GetLock, Scan, Found, ReadValue, Goes,
   Call, Moves, ConfigPhases

LEMMA ClockMoves ==
  ASSUME NEW t \in Threads, ClockCalls(t)
  PROVE  Moves(t, {"idle"} \union ClockPhases, {"idle"} \union ClockPhases)
BY DEF ClockCalls, ClockContinue, micros64, LazyRead, LazySet, Since, Elapsed, Goes,
   Call, Moves, ClockPhases

\* Outside of the calls only rjos_init moves a thread, into logger_init.
LEMMA MainMoves ==
  ASSUME MainSteps \/ LoadGoesOn \/ TimePasses
  PROVE  UNCHANGED pc \/ (InitLogger /\ Moves(Main, {"idle"}, {"open"}))
BY DEF MainSteps, SystemInit, LoadFirst, InitLogger, InitFails, InitReturns, NoInit,
   Reload, ReloadReturns, CleanUpConfig, CleanUpLogger, LoadReturns, LoadGoesOn,
   ConfigLoad, Realloc, Store, EndOfFile, TimePasses, Tick, LockAndClose, Goes, Moves,
   config_load, config_destroy, logger_destroy, system_init, shared

LEMMA PcStep ==
  ASSUME PcType, [Next]_vars
  PROVE  PcType'
<1>1. CASE UNCHANGED pc
  BY <1>1 DEF PcType
<1>2. ASSUME NEW t \in Threads, LoggerCalls(t) \/ ConfigCalls(t) \/ ClockCalls(t)
      PROVE  PcType'
  BY <1>1, <1>2, LoggerMoves, ConfigMoves, ClockMoves, MovesType DEF Phases
<1>3. CASE Moves(Main, {"idle"}, {"open"})
  BY <1>3, ThreadsAssumption, MovesType DEF Phases, LoggerPhases
<1> QED
  BY <1>1, <1>2, <1>3, MainMoves DEF Next, vars, shared

-----------------------------------------------------------------------------
\* The uptime

LEMMA DivMonotone ==
  ASSUME NEW n \in Nat \ {0}, NEW a \in Nat, NEW b \in Nat, a =< b
  PROVE  a \div n =< b \div n
<1> DEFINE p == a \div n
           q == b \div n
<1>1. p \in Nat /\ q \in Nat /\ n * p =< a /\ b < n * (q + 1)
  OBVIOUS
<1> HIDE DEF p, q
<1>2. ASSUME p > q PROVE FALSE
  <2>1. n * (q + 1) =< n * p
    BY <1>1, <1>2
  <2> QED
    BY <1>1, <2>1
<1>3. p =< q
  BY <1>1, <1>2
<1> QED
  BY <1>3 DEF p, q

\* The clock's part of the state.
ClockType ==
  /\ now \in Nat \ {0} /\ start_time_ns \in Nat
  /\ ns \in [Threads -> Nat] /\ uptime \in [Threads -> Nat]

\* Before rjos_init nobody has asked; after it the start time stays.
Started ==
  IF stage = "start"
  THEN \A t \in Threads : pc[t] = "idle" /\ uptime[t] = 0
  ELSE /\ 0 < start_time_ns /\ start_time_ns =< now
       /\ \A t \in Threads :
            /\ pc[t] \notin { "lazy_read", "lazy_set" }
            /\ pc[t] = "elapsed" => ns[t] = start_time_ns
            /\ uptime[t] =< (now - start_time_ns) \div NsPerUs

ClockInv == PcType /\ ~ lazy /\ ClockType /\ Started

\* What the other parts of the program may do to the clock's variables: nothing.
LEMMA ClockFrame ==
  ASSUME ClockInv, UNCHANGED << clockVars, lazy, stage >>, stage # "start",
         NEW t \in Threads,
         Moves(t, Phases \ ClockPhases, Phases \ ClockPhases)
  PROVE  ClockInv'
<1>1. PcType' /\ pc'[t] \notin ClockPhases /\ \A u \in Threads \ {t} : pc'[u] = pc[u]
  BY MovesType DEF ClockInv
<1> QED
  BY <1>1 DEF ClockInv, ClockType, Started, ClockPhases, clockVars

LEMMA ClockStill ==
  ASSUME ClockInv, UNCHANGED << pc, clockVars, lazy, stage >>
  PROVE  ClockInv'
BY DEF ClockInv, ClockType, Started, PcType, clockVars

\* A thread that is in a call, or may begin one, is past rjos_init.
LEMMA WorkingStage ==
  ASSUME ClockInv, NEW t \in Threads,
         \/ Free(t)
         \/ LoggerContinue(t) \/ ConfigContinue(t) \/ ClockContinue(t)
  PROVE  stage # "start"
BY DEF ClockInv, Started, Free, LoggerContinue, Fopen, SetLevel, SetEnabled, Unlock,
   TestEnabled, Lock, WritePiece, Flush, ConfigContinue, Scan, Found, ReadValue,
   ClockContinue, LazyRead, LazySet, Since, Elapsed, Goes

LEMMA ClockCallStep ==
  ASSUME ClockInv, NEW t \in Threads, ClockCalls(t)
  PROVE  ClockInv'
<1>1. stage # "start" /\ UNCHANGED << stage, lazy >>
  BY WorkingStage DEF ClockCalls, main
<1>2. PcType' /\ \A u \in Threads \ {t} : pc'[u] = pc[u]
  BY ClockMoves, MovesType DEF ClockInv, Phases
<1>3. /\ ClockType /\ 0 < start_time_ns /\ start_time_ns =< now
      /\ \A u \in Threads :
           /\ pc[u] \notin { "lazy_read", "lazy_set" }
           /\ pc[u] = "elapsed" => ns[u] = start_time_ns
           /\ uptime[u] =< (now - start_time_ns) \div NsPerUs
  BY <1>1 DEF ClockInv, Started
<1>4. CASE micros64(t)
  <2>1. pc'[t] = "since" /\ UNCHANGED clockVars
    BY <1>3, <1>4 DEF micros64, Goes, ClockInv, PcType
  <2> QED
    BY <1>1, <1>2, <1>3, <2>1 DEF ClockInv, ClockType, Started, clockVars
<1>5. CASE Since(t)
  <2>1. /\ pc'[t] = "elapsed" /\ ns' = [ ns EXCEPT ![t] = start_time_ns ]
        /\ UNCHANGED << now, start_time_ns, uptime >>
    BY <1>5 DEF Since, Goes, ClockInv, PcType
  <2>2. /\ ns'[t] = start_time_ns /\ ns' \in [Threads -> Nat]
        /\ \A u \in Threads \ {t} : ns'[u] = ns[u]
    BY <1>3, <2>1 DEF ClockType
  <2> QED
    BY <1>1, <1>2, <1>3, <2>1, <2>2 DEF ClockInv, ClockType, Started
<1>6. CASE Elapsed(t)
  <2>1. /\ pc'[t] = "idle" /\ ns' = [ ns EXCEPT ![t] = 0 ]
        /\ uptime' = [ uptime EXCEPT ![t] = (now - start_time_ns) \div NsPerUs ]
        /\ UNCHANGED << now, start_time_ns >>
    BY <1>3, <1>6 DEF Elapsed, Goes, ClockInv, PcType
  <2> DEFINE up == (now - start_time_ns) \div NsPerUs
  <2>2. up \in Nat
    BY <1>3, ClockAssumption DEF ClockType
  <2> HIDE DEF up
  <2>3. uptime' = [ uptime EXCEPT ![t] = up ]
    BY <2>1 DEF up
  <2>4. /\ uptime'[t] = up /\ uptime' \in [Threads -> Nat]
        /\ \A u \in Threads \ {t} : uptime'[u] = uptime[u]
        /\ ns' \in [Threads -> Nat] /\ \A u \in Threads \ {t} : ns'[u] = ns[u]
    BY <1>3, <2>1, <2>2, <2>3 DEF ClockType
  <2>5. \A u \in Threads : uptime'[u] =< up
    BY <1>3, <2>2, <2>4 DEF up
  <2>6. ((now - start_time_ns) \div NsPerUs)' = up
    BY <2>1 DEF up
  <2> QED
    BY <1>1, <1>2, <1>3, <2>1, <2>4, <2>5, <2>6 DEF ClockInv, ClockType, Started
<1>7. ~ LazyRead(t) /\ ~ LazySet(t)
  BY <1>3 DEF LazyRead, LazySet, Goes
<1> QED
  BY <1>4, <1>5, <1>6, <1>7 DEF ClockCalls, ClockContinue

LEMMA TickStep ==
  ASSUME ClockInv, TimePasses
  PROVE  ClockInv'
<1>1. now' = now + 1 /\ UNCHANGED << pc, start_time_ns, ns, uptime, stage, lazy >>
  BY DEF TimePasses, Tick, main
<1>2. CASE stage = "start"
  BY <1>1, <1>2 DEF ClockInv, PcType, ClockType, Started
<1>3. CASE stage # "start"
  <2>1. now - start_time_ns \in Nat /\ now' - start_time_ns' = now - start_time_ns + 1
    BY <1>1, <1>3 DEF ClockInv, ClockType, Started
  <2>2. /\ (now - start_time_ns) \div NsPerUs =< (now' - start_time_ns') \div NsPerUs
        /\ (now - start_time_ns) \div NsPerUs \in Int
        /\ (now' - start_time_ns') \div NsPerUs \in Int
    BY <2>1, DivMonotone, ClockAssumption
  <2> QED
    BY <1>1, <1>3, <2>2 DEF ClockInv, PcType, ClockType, Started
<1> QED
  BY <1>2, <1>3

LEMMA MainClockStep ==
  ASSUME ClockInv, ~ lazy', MainSteps \/ LoadGoesOn
  PROVE  ClockInv'
<1>1. CASE SystemInit
  <2>1. /\ stage = "start" /\ stage' = "load" /\ start_time_ns' = now
        /\ UNCHANGED << pc, now, ns, uptime, lazy >>
    BY <1>1 DEF SystemInit, Stage, system_init
  <2>2. (now' - start_time_ns') \div NsPerUs = 0
    BY <2>1, ClockAssumption DEF ClockInv, ClockType
  <2> QED
    BY <2>1, <2>2 DEF ClockInv, PcType, ClockType, Started
<1>2. CASE InitLogger
  <2>1. /\ stage = "load" /\ stage' = "logging" /\ UNCHANGED << clockVars, lazy >>
        /\ pc[Main] = "idle" /\ pc' = [ pc EXCEPT ![Main] = "open" ]
    BY <1>2 DEF InitLogger, Stage, LockAndClose, Goes
  <2>2. PcType' /\ pc'[Main] = "open" /\ \A u \in Threads \ {Main} : pc'[u] = pc[u]
    BY <2>1, ThreadsAssumption DEF ClockInv, PcType, Phases, LoggerPhases
  <2> QED
    BY <2>1, <2>2 DEF ClockInv, ClockType, Started, clockVars
<1>3. CASE UNCHANGED << pc, clockVars, lazy, stage >>
  BY <1>3, ClockStill
<1>4. CASE /\ UNCHANGED << pc, clockVars, lazy >>
           /\ stage # "start" /\ stage' # "start"
  BY <1>4 DEF ClockInv, PcType, ClockType, Started, clockVars
<1>5. \/ SystemInit \/ InitLogger
      \/ UNCHANGED << pc, clockVars, lazy, stage >>
      \/ UNCHANGED << pc, clockVars, lazy >> /\ stage # "start" /\ stage' # "start"
  BY DEF MainSteps, LoadFirst, InitFails, InitReturns, NoInit, Reload, ReloadReturns,
     CleanUpConfig, CleanUpLogger, LoadReturns, LoadGoesOn, ConfigLoad, Realloc, Store,
     EndOfFile, config_load, config_destroy, logger_destroy, Stage, shared, main
<1> QED
  BY <1>1, <1>2, <1>3, <1>4, <1>5

LEMMA ClockStep ==
  ASSUME ~ lazy => ClockInv, ~ lazy', [Next]_vars
  PROVE  ClockInv'
<1>1. ~ lazy
  BY DEF Next, MainSteps, SystemInit, LoadFirst, InitLogger, InitFails, InitReturns,
     NoInit, Reload, ReloadReturns, CleanUpConfig, CleanUpLogger, LoadGoesOn, TimePasses,
     LoggerCalls, ConfigCalls, ClockCalls, Stage, vars, main
<1>2. ClockInv
  BY <1>1
<1>3. CASE UNCHANGED vars
  BY <1>2, <1>3, ClockStill DEF vars, shared, main
<1>4. CASE MainSteps \/ LoadGoesOn
  BY <1>2, <1>4, MainClockStep
<1>5. CASE TimePasses
  BY <1>2, <1>5, TickStep
<1>6. ASSUME NEW t \in Threads, LoggerCalls(t) PROVE ClockInv'
  <2>1. UNCHANGED << clockVars, lazy, stage >> /\ stage # "start"
    BY <1>2, <1>6, WorkingStage DEF LoggerCalls, main
  <2>2. CASE UNCHANGED pc
    BY <1>2, <2>1, <2>2, ClockStill
  <2>3. CASE Moves(t, {"idle"} \union LoggerPhases, {"idle"} \union LoggerPhases)
    <3>1. {"idle"} \union LoggerPhases \subseteq Phases \ ClockPhases
      BY DEF Phases, LoggerPhases, ClockPhases
    <3>2. Moves(t, Phases \ ClockPhases, Phases \ ClockPhases)
      BY <2>3, <3>1 DEF Moves
    <3> QED
      BY <1>2, <2>1, <3>2, ClockFrame
  <2> QED
    BY <1>6, <2>2, <2>3, LoggerMoves
<1>7. ASSUME NEW t \in Threads, ConfigCalls(t) PROVE ClockInv'
  <2>1. UNCHANGED << clockVars, lazy, stage >> /\ stage # "start"
    BY <1>2, <1>7, WorkingStage DEF ConfigCalls, main
  <2>2. {"idle"} \union ConfigPhases \subseteq Phases \ ClockPhases
    BY DEF Phases, ConfigPhases, ClockPhases
  <2>3. Moves(t, Phases \ ClockPhases, Phases \ ClockPhases)
    BY <1>7, <2>2, ConfigMoves DEF Moves
  <2> QED
    BY <1>2, <2>1, <2>3, ClockFrame
<1>8. ASSUME NEW t \in Threads, ClockCalls(t) PROVE ClockInv'
  BY <1>2, <1>8, ClockCallStep
<1> QED
  BY <1>3, <1>4, <1>5, <1>6, <1>7, <1>8 DEF Next

\* No step sets a thread's uptime back.
LEMMA UptimeRises ==
  ASSUME ~ lazy => ClockInv, ~ lazy, [Next]_vars, NEW t \in Threads
  PROVE  uptime'[t] >= uptime[t]
<1>1. ClockInv
  OBVIOUS
<1>2. uptime[t] \in Nat
  BY <1>1 DEF ClockInv, ClockType
<1>3. CASE UNCHANGED uptime
  BY <1>2, <1>3
<1>4. ASSUME NEW u \in Threads, Elapsed(u) PROVE uptime'[t] >= uptime[t]
  <2>1. stage # "start"
    BY <1>1, <1>4, WorkingStage DEF ClockContinue
  <2>2. ns[u] = start_time_ns /\ uptime[u] =< (now - start_time_ns) \div NsPerUs
    BY <1>1, <1>4, <2>1 DEF ClockInv, Started, Elapsed, Goes
  <2>3. uptime' = [ uptime EXCEPT ![u] = (now - start_time_ns) \div NsPerUs ]
    BY <1>4, <2>2 DEF Elapsed
  <2>4. (now - start_time_ns) \div NsPerUs \in Int
    BY <1>1, <2>1, ClockAssumption DEF ClockInv, ClockType, Started
  <2> QED
    BY <1>1, <1>2, <2>2, <2>3, <2>4 DEF ClockInv, ClockType
<1>5. UNCHANGED uptime \/ \E u \in Threads : Elapsed(u)
  BY DEF Next, MainSteps, SystemInit, LoadFirst, InitLogger, InitFails, InitReturns,
     NoInit, Reload, ReloadReturns, CleanUpConfig, CleanUpLogger, LoadGoesOn, TimePasses,
     LoggerCalls, ConfigCalls, ClockCalls, ClockContinue, micros64, LazyRead, LazySet,
     Since, Tick, system_init, LoadReturns, vars, clockVars
<1> QED
  BY <1>3, <1>4, <1>5

\* In a program that called rjos_init the uptime that a thread reads never goes back,
\* however many threads ask at once (system.c:51-60).
THEOREM UptimesRise == Spec => UptimeMonotone
<1>1. Init => (~ lazy => ClockInv)
  BY DEF Init, ClockInit, ClockInv, ClockType, Started, PcType, Phases
<1>2. (~ lazy => ClockInv) /\ [Next]_vars => (~ lazy => ClockInv)'
  BY ClockStep
<1>3. (~ lazy => ClockInv) /\ [Next]_vars =>
         [ ~ lazy => \A t \in Threads : uptime'[t] >= uptime[t] ]_vars
  BY UptimeRises
<1> QED
  BY <1>1, <1>2, <1>3, PTL DEF Spec, UptimeMonotone

-----------------------------------------------------------------------------
\* The logger

\* The places where a thread has glog.mutex.
Held == { "write", "flush", "open", "set", "enable", "unlock" }

HasMutex(t) == pc[t] \in Held

\* The pointer and the stream agree but while logger_init is between fclose and fopen;
\* only the thread that writes a line leaves text in the buffer.
LogInv ==
  /\ PcType
  /\ \A t \in Threads : HasMutex(t) <=> mutex = t
  /\ \A t \in Threads :
       /\ pc[t] = "open" => stream = NULL
       /\ pc[t] \in { "write", "flush" } => file # NULL
  /\ (\A t \in Threads : pc[t] # "open") => file = stream
  /\ (\A t \in Threads : pc[t] \notin { "write", "flush" }) => buffer = << >>

\* Nobody is in the logger when the mutex is free.
LEMMA NobodyLogs ==
  ASSUME LogInv, mutex = Unlocked
  PROVE  /\ \A t \in Threads : pc[t] \notin Held
         /\ file = stream /\ buffer = << >>
BY ThreadsAssumption DEF LogInv, HasMutex, Held

\* The one that has the mutex is alone.
LEMMA AloneLogs ==
  ASSUME LogInv, NEW t \in Threads, pc[t] \in Held
  PROVE  mutex = t /\ \A u \in Threads \ {t} : pc[u] \notin Held
BY DEF LogInv, HasMutex

\* A thread moves outside of the logger's lock.
LEMMA LogFrame ==
  ASSUME LogInv, UNCHANGED << mutex, file, stream, buffer >>, NEW t \in Threads,
         Moves(t, Phases \ Held, Phases \ Held)
  PROVE  LogInv'
<1>1. PcType' /\ pc'[t] \in Phases \ Held /\ \A u \in Threads \ {t} : pc'[u] = pc[u]
  BY MovesType DEF LogInv
<1>2. pc[t] \notin Held
  BY DEF Moves
<1> QED
  BY <1>1, <1>2 DEF LogInv, HasMutex, Held

LEMMA LogStill ==
  ASSUME LogInv, UNCHANGED << pc, mutex, file, stream, buffer >>
  PROVE  LogInv'
BY DEF LogInv, HasMutex, PcType

\* logger_init takes the mutex and closes the file.
LEMMA CloseFileStep ==
  ASSUME LogInv, NEW t \in Threads, NEW name, NEW level, LockAndClose(t, name, level)
  PROVE  LogInv'
<1>1. /\ mutex = Unlocked /\ mutex' = t /\ file' = file
      /\ pc' = [ pc EXCEPT ![t] = "open" ]
  BY DEF LockAndClose, Goes, glog
<1>2. (\A u \in Threads : pc[u] \notin Held) /\ file = stream /\ buffer = << >>
  BY <1>1, NobodyLogs
<1>3. stream' = NULL /\ buffer' = << >>
  BY <1>2 DEF LockAndClose, Closed, library
<1>4. PcType' /\ pc'[t] = "open" /\ \A u \in Threads \ {t} : pc'[u] = pc[u]
  BY <1>1 DEF LogInv, PcType, Phases, LoggerPhases
<1> QED
  BY <1>1, <1>2, <1>3, <1>4 DEF LogInv, HasMutex, Held

LEMMA LoggerStep ==
  ASSUME LogInv, NEW t \in Threads, LoggerCalls(t)
  PROVE  LogInv'
<1>1. ASSUME NEW phase \in Phases, pc' = [ pc EXCEPT ![t] = phase ]
      PROVE  PcType' /\ pc'[t] = phase /\ \A u \in Threads \ {t} : pc'[u] = pc[u]
  BY <1>1 DEF LogInv, PcType
<1>2. LoggerPhases \subseteq Phases /\ "idle" \in Phases
  BY DEF Phases
<1>3. ASSUME NEW level \in Levels, TestLevel(t, level) PROVE LogInv'
  <2>1. /\ Moves(t, Phases \ Held, Phases \ Held)
        /\ UNCHANGED << mutex, file, stream, buffer >>
    BY <1>3 DEF TestLevel, Goes, Moves, Phases, LoggerPhases, Held, glog, library
  <2> QED
    BY <2>1, LogFrame
<1>4. CASE TestEnabled(t)
  <2>1. /\ Moves(t, Phases \ Held, Phases \ Held)
        /\ UNCHANGED << mutex, file, stream, buffer >>
    BY <1>4 DEF TestEnabled, Goes, Moves, Phases, LoggerPhases, Held, glog, library
  <2> QED
    BY <2>1, LogFrame
<1>5. ASSUME UNCHANGED pc, mutex = Unlocked, UNCHANGED << mutex, file, stream, buffer >>
      PROVE  LogInv'
  BY <1>5, LogStill
<1>6. ASSUME NEW level, NEW name, LockAndClose(t, name, level) PROVE LogInv'
  BY <1>6, CloseFileStep
<1>7. CASE Fopen(t)
  <2>1. /\ pc[t] = "open" /\ UNCHANGED << mutex, buffer >>
        /\ \/ pc' = [ pc EXCEPT ![t] = "set" ] /\ file' = stream'
           \/ pc' = [ pc EXCEPT ![t] = "unlock" ] /\ file' = NULL /\ stream' = stream
    BY <1>7 DEF Fopen, Goes
  <2>2. mutex = t /\ (\A u \in Threads \ {t} : pc[u] \notin Held) /\ stream = NULL
    BY <2>1, AloneLogs DEF LogInv, Held
  <2>3. file' = stream' /\ buffer = << >>
    BY <2>1, <2>2 DEF LogInv, Held
  <2>4. /\ PcType' /\ pc'[t] \in { "set", "unlock" }
        /\ \A u \in Threads \ {t} : pc'[u] = pc[u]
    BY <1>1, <1>2, <2>1 DEF LoggerPhases
  <2> QED
    BY <2>1, <2>2, <2>3, <2>4 DEF LogInv, HasMutex, Held
<1>8. CASE SetLevel(t) \/ SetEnabled(t)
  <2>1. /\ pc[t] \in { "set", "enable" } /\ UNCHANGED << mutex, file, stream, buffer >>
        /\ \E phase \in { "enable", "unlock" } : pc' = [ pc EXCEPT ![t] = phase ]
    BY <1>8 DEF SetLevel, SetEnabled, Goes, library
  <2>2. mutex = t /\ (\A u \in Threads \ {t} : pc[u] \notin Held)
    BY <2>1, AloneLogs DEF Held
  <2>3. file = stream /\ buffer = << >>
    BY <2>1, <2>2 DEF LogInv, Held
  <2>4. /\ PcType' /\ pc'[t] \in { "enable", "unlock" }
        /\ \A u \in Threads \ {t} : pc'[u] = pc[u]
    BY <1>1, <1>2, <2>1 DEF LoggerPhases
  <2> QED
    BY <2>1, <2>2, <2>3, <2>4 DEF LogInv, HasMutex, Held
<1>9. CASE Unlock(t)
  <2>1. /\ pc[t] = "unlock" /\ mutex' = Unlocked /\ UNCHANGED << file, stream, buffer >>
        /\ pc' = [ pc EXCEPT ![t] = "idle" ]
    BY <1>9 DEF Unlock, Goes, glog, library
  <2>2. mutex = t /\ (\A u \in Threads \ {t} : pc[u] \notin Held)
    BY <2>1, AloneLogs DEF Held
  <2>3. file = stream /\ buffer = << >>
    BY <2>1, <2>2 DEF LogInv, Held
  <2>4. PcType' /\ pc'[t] = "idle" /\ \A u \in Threads \ {t} : pc'[u] = pc[u]
    BY <1>1, <1>2, <2>1
  <2> QED
    BY <2>1, <2>2, <2>3, <2>4, ThreadsAssumption DEF LogInv, HasMutex, Held
<1>10. CASE Lock(t)
  <2>1. /\ mutex = Unlocked /\ mutex' = t /\ UNCHANGED << file, stream, buffer >>
        /\ \/ pc' = [ pc EXCEPT ![t] = "unlock" ]
           \/ pc' = [ pc EXCEPT ![t] = "write" ] /\ file # NULL
    BY <1>10 DEF Lock, Goes, glog, library
  <2>2. (\A u \in Threads : pc[u] \notin Held) /\ file = stream /\ buffer = << >>
    BY <2>1, NobodyLogs
  <2>3. /\ PcType' /\ \A u \in Threads \ {t} : pc'[u] = pc[u]
        /\ pc'[t] = "unlock" \/ (pc'[t] = "write" /\ file # NULL)
    BY <1>1, <1>2, <2>1 DEF LoggerPhases
  <2> QED
    BY <2>1, <2>2, <2>3 DEF LogInv, HasMutex, Held
<1>11. CASE WritePiece(t)
  <2>1. /\ pc[t] = "write" /\ UNCHANGED << mutex, file, stream >>
        /\ \E phase \in { "write", "flush" } : pc' = [ pc EXCEPT ![t] = phase ]
    BY <1>11 DEF WritePiece, Goes, glog
  <2>2. mutex = t /\ (\A u \in Threads \ {t} : pc[u] \notin Held)
    BY <2>1, AloneLogs DEF Held
  <2>3. file = stream /\ file # NULL
    BY <2>1, <2>2 DEF LogInv, Held
  <2>4. /\ PcType' /\ pc'[t] \in { "write", "flush" }
        /\ \A u \in Threads \ {t} : pc'[u] = pc[u]
    BY <1>1, <1>2, <2>1 DEF LoggerPhases
  <2> QED
    BY <2>1, <2>2, <2>3, <2>4 DEF LogInv, HasMutex, Held
<1>12. CASE Flush(t)
  <2>1. /\ pc[t] = "flush" /\ UNCHANGED << mutex, file, stream >> /\ buffer' = << >>
        /\ pc' = [ pc EXCEPT ![t] = "unlock" ]
    BY <1>12 DEF Flush, Goes, glog
  <2>2. mutex = t /\ (\A u \in Threads \ {t} : pc[u] \notin Held)
    BY <2>1, AloneLogs DEF Held
  <2>3. file = stream
    BY <2>1, <2>2 DEF LogInv, Held
  <2>4. PcType' /\ pc'[t] = "unlock" /\ \A u \in Threads \ {t} : pc'[u] = pc[u]
    BY <1>1, <1>2, <2>1 DEF LoggerPhases
  <2> QED
    BY <2>1, <2>2, <2>3, <2>4 DEF LogInv, HasMutex, Held
<1>13. CASE \/ \E level \in Levels : logger_set_log_level(t, level)
            \/ \E enable \in BOOLEAN : logger_enable(t, enable)
  BY <1>5, <1>13 DEF logger_set_log_level, logger_enable, library
<1> QED
  BY <1>3, <1>4, <1>6, <1>7, <1>8, <1>9, <1>10, <1>11, <1>12, <1>13
  DEF LoggerCalls, LoggerBegin, LoggerContinue

LEMMA LogStep ==
  ASSUME LogInv, [Next]_vars
  PROVE  LogInv'
<1>1. CASE UNCHANGED << pc, mutex, file, stream, buffer >>
  BY <1>1, LogStill
<1>2. CASE InitLogger
  BY <1>2, CloseFileStep, ThreadsAssumption DEF InitLogger
<1>3. CASE CleanUpLogger
  <2>1. mutex = Unlocked /\ UNCHANGED << pc, mutex >>
    BY <1>3 DEF CleanUpLogger, logger_destroy
  <2>2. (\A u \in Threads : pc[u] \notin Held) /\ file = stream /\ buffer = << >>
    BY <2>1, NobodyLogs
  <2>3. file' = NULL /\ stream' = NULL /\ buffer' = << >>
    BY <1>3, <2>2 DEF CleanUpLogger, logger_destroy, Closed, library
  <2> QED
    BY <2>1, <2>2, <2>3 DEF LogInv, PcType, HasMutex, Held
<1>4. ASSUME NEW t \in Threads, LoggerCalls(t) PROVE LogInv'
  BY <1>4, LoggerStep
<1>5. ASSUME NEW t \in Threads, ConfigCalls(t) \/ ClockCalls(t) PROVE LogInv'
  <2>1. /\ {"idle"} \union ConfigPhases \subseteq Phases \ Held
        /\ {"idle"} \union ClockPhases \subseteq Phases \ Held
    BY DEF Phases, ConfigPhases, ClockPhases, Held
  <2>2. Moves(t, Phases \ Held, Phases \ Held)
    BY <1>5, <2>1, ConfigMoves, ClockMoves DEF Moves
  <2>3. UNCHANGED << mutex, file, stream, buffer >>
    BY <1>5 DEF ConfigCalls, ClockCalls, loggerVars, glog, library
  <2> QED
    BY <2>2, <2>3, LogFrame
<1>6. \/ UNCHANGED << pc, mutex, file, stream, buffer >> \/ InitLogger \/ CleanUpLogger
      \/ \E t \in Threads : LoggerCalls(t) \/ ConfigCalls(t) \/ ClockCalls(t)
  BY DEF Next, MainSteps, SystemInit, LoadFirst, InitFails, InitReturns, NoInit, Reload,
     ReloadReturns, CleanUpConfig, LoadReturns, LoadGoesOn, ConfigLoad, Realloc, Store,
     EndOfFile, TimePasses, Tick, config_load, config_destroy, system_init, vars,
     shared, loggerVars, glog, library
<1> QED
  BY <1>1, <1>2, <1>3, <1>4, <1>5, <1>6

LEMMA LogInit == Init => LogInv
BY ThreadsAssumption DEF Init, LoggerInit, LogInv, PcType, Phases, HasMutex, Held

\* The pointer that logger_log tests and writes to is that of an open stream, whoever
\* reopens the file and also after a reopening that failed (logger.c:19-31, 65-92).
THEOREM LoggerFileIsOpen == Spec => []FileIsOpen
<1>1. ASSUME LogInv PROVE FileIsOpen
  <2>1. ASSUME NEW t \in Threads, pc[t] \in { "write", "flush" } PROVE stream # NULL
    <3>1. \A u \in Threads : pc[u] # "open"
      BY <1>1, <2>1, AloneLogs DEF Held
    <3> QED
      BY <1>1, <2>1, <3>1 DEF LogInv
  <2> QED
    BY <1>1, <2>1, NobodyLogs DEF FileIsOpen
<1> QED
  BY <1>1, LogInit, LogStep, PTL DEF Spec

\* When nobody is in the logger a crash of the program loses no line, also when the
\* file was just replaced (logger.c:92).
THEOREM LoggerFlushes == Spec => []LinesOnDisk
<1>1. LogInv => LinesOnDisk
  BY NobodyLogs DEF LinesOnDisk
<1> QED
  BY <1>1, LogInit, LogStep, PTL DEF Spec

-----------------------------------------------------------------------------
\* The configuration

Entry == [ key : Keys \union {NULL}, val : Nat ]

ConfigType ==
  /\ table \in Seq(Entry) /\ Len(table) = num_entries
  /\ line \in Keys \union {NULL}
  /\ get \in [Threads -> [ key : Keys \union {NULL}, i : Nat, from : Nat ]]
  /\ block \in Nat /\ entries \in Nat

\* What a thread that searches for the key has already passed over.
Searched(t) ==
  /\ 1 =< get[t].i /\ get[t].i =< num_entries + 1
  /\ ~ dangling => \A j \in 1 .. num_entries : j < get[t].i => table[j].key # get[t].key

\* While the table is not loaded anew, everybody looks at the block that is allocated.
Settled ==
  /\ ~ dangling
  /\ loading # "no" => stage \in { "load", "exited" }
  /\ loading # "store" => entries = block
  /\ \A t \in Threads : pc[t] = "holding" => get[t].from = block

CfgInv ==
  /\ PcType /\ ConfigType
  /\ stage # "running" => \A t \in Threads : pc[t] \notin ConfigPhases
  /\ \A t \in Threads : pc[t] = "scan" => Searched(t)
  /\ ~ reloaded => Settled

\* The rest of the program leaves the table alone.
LEMMA CfgStill ==
  ASSUME CfgInv, UNCHANGED << pc, configVars, main >>
  PROVE  CfgInv'
BY DEF CfgInv, PcType, ConfigType, Searched, Settled, configVars, main

LEMMA CfgFrame ==
  ASSUME CfgInv, UNCHANGED << configVars, main >>, NEW t \in Threads,
         Moves(t, Phases \ ConfigPhases, Phases \ ConfigPhases)
  PROVE  CfgInv'
<1>1. /\ PcType' /\ pc'[t] \in Phases \ ConfigPhases
      /\ \A u \in Threads \ {t} : pc'[u] = pc[u]
  BY MovesType DEF CfgInv
<1>2. UNCHANGED << table, num_entries, line, get, block, entries, loading, dangling,
                   stage, reloaded >>
  BY DEF configVars, main
<1>3. ConfigType' /\ \A u \in Threads : Searched(u) => Searched(u)'
  BY <1>2 DEF CfgInv, ConfigType, Searched
<1>4. Settled => Settled'
  BY <1>1, <1>2 DEF Settled, ConfigPhases
<1> QED
  BY <1>1, <1>2, <1>3, <1>4 DEF CfgInv, ConfigPhases

\* Only a program that works has a thread in config_get.
LEMMA CfgWorking ==
  ASSUME CfgInv, NEW t \in Threads, ConfigCalls(t)
  PROVE  stage = "running"
BY DEF CfgInv, ConfigCalls, ConfigBegin, ConfigContinue, Free, Scan, Found, ReadValue,
   Goes, ConfigPhases

\* config_get: where it finds an entry or gives up.
LEMMA GetStep ==
  ASSUME CfgInv, NEW t \in Threads, NEW key \in Keys, GetLock(t, key), stage = "running",
         UNCHANGED main
  PROVE  CfgInv'
<1>1. /\ UNCHANGED << table, num_entries, line, block, entries, loading, dangling, stage,
                      reloaded >>
      /\ get' = [ get EXCEPT ![t].key = key, ![t].i = 1 ]
      /\ pc' = [ pc EXCEPT ![t] = "scan" ]
  BY DEF GetLock, Goes, main
<1>2. PcType' /\ pc'[t] = "scan" /\ \A u \in Threads \ {t} : pc'[u] = pc[u]
  BY <1>1 DEF CfgInv, PcType, Phases, ConfigPhases
<1>3. /\ get' \in [Threads -> [ key : Keys \union {NULL}, i : Nat, from : Nat ]]
      /\ get'[t].key = key /\ get'[t].i = 1
      /\ \A u \in Threads \ {t} : get'[u] = get[u]
  BY <1>1 DEF CfgInv, ConfigType
<1>4. num_entries \in Nat
  BY LenProperties DEF CfgInv, ConfigType
<1>5. Searched(t)'
  BY <1>1, <1>3, <1>4 DEF Searched
<1>6. \A u \in Threads : pc'[u] = "scan" => Searched(u)'
  BY <1>1, <1>2, <1>3, <1>5 DEF CfgInv, Searched
<1>7. ConfigType'
  BY <1>1, <1>3 DEF CfgInv, ConfigType
<1>8. Settled => Settled'
  BY <1>1, <1>2, <1>3 DEF Settled
<1> QED
  BY <1>1, <1>2, <1>6, <1>7, <1>8 DEF CfgInv

\* The three ways on from an entry.
LEMMA ScanCases ==
  ASSUME CfgInv, NEW t \in Threads, Scan(t)
  PROVE  /\ pc[t] = "scan" /\ Searched(t)
         /\ UNCHANGED << table, num_entries, line, block, entries, loading >>
         /\ num_entries \in Nat /\ get[t].i \in Nat
         /\ \/ /\ get[t].i > num_entries
               /\ pc' = [ pc EXCEPT ![t] = "idle" ]
               /\ get' = [ get EXCEPT ![t] = NoGet ]
               /\ dangling' = dangling
            \/ /\ get[t].i =< num_entries
               /\ dangling' = (dangling \/ entries # block)
               /\ \/ /\ pc' = [ pc EXCEPT ![t] = "found" ]
                     /\ entries = block => table[get[t].i].key = get[t].key
                     /\ get' = get
                  \/ /\ pc' = [ pc EXCEPT ![t] = "scan" ]
                     /\ entries = block => table[get[t].i].key # get[t].key
                     /\ get' = [ get EXCEPT ![t].i = @ + 1 ]
<1>1. pc[t] = "scan" /\ Searched(t)
  BY DEF Scan, Goes, CfgInv
<1>2. num_entries \in Nat /\ get[t].i \in Nat
  BY LenProperties DEF CfgInv, ConfigType
<1> QED
  BY <1>1, <1>2 DEF Scan, AtEnd, Goes

LEMMA ScanStep ==
  ASSUME CfgInv, NEW t \in Threads, Scan(t), stage = "running", UNCHANGED main
  PROVE  CfgInv'
<1>1. /\ UNCHANGED << table, num_entries, line, block, entries, loading, stage, reloaded >>
      /\ pc[t] = "scan" /\ Searched(t) /\ num_entries \in Nat /\ get[t].i \in Nat
      /\ ~ dangling' => ~ dangling
  BY ScanCases DEF main
<1>2. /\ PcType' /\ \A u \in Threads \ {t} : pc'[u] = pc[u]
      /\ pc'[t] \in { "idle", "found", "scan" }
  BY ScanCases DEF CfgInv, PcType, Phases, ConfigPhases
<1>3. /\ get' \in [Threads -> [ key : Keys \union {NULL}, i : Nat, from : Nat ]]
      /\ \A u \in Threads \ {t} : get'[u] = get[u]
  <2>1. get \in [Threads -> [ key : Keys \union {NULL}, i : Nat, from : Nat ]]
    BY DEF CfgInv, ConfigType
  <2>2. CASE get' = get
    BY <2>1, <2>2
  <2>3. CASE get' = [ get EXCEPT ![t] = NoGet ]
    BY <2>1, <2>3 DEF NoGet
  <2>4. CASE get' = [ get EXCEPT ![t].i = @ + 1 ]
    BY <2>1, <2>4
  <2> QED
    BY <2>2, <2>3, <2>4, ScanCases
<1>4. ConfigType'
  BY <1>1, <1>3 DEF CfgInv, ConfigType
<1>5. ASSUME pc'[t] = "scan" PROVE Searched(t)'
  <2>1. /\ get[t].i =< num_entries /\ dangling' = (dangling \/ entries # block)
        /\ entries = block => table[get[t].i].key # get[t].key
        /\ get' = [ get EXCEPT ![t].i = @ + 1 ]
    BY <1>5, ScanCases DEF CfgInv, PcType
  <2>2. get'[t].i = get[t].i + 1 /\ get'[t].key = get[t].key
    BY <2>1 DEF CfgInv, ConfigType
  <2>3. ASSUME ~ dangling', NEW j \in 1 .. num_entries, j < get[t].i + 1
        PROVE  table[j].key # get[t].key
    <3>1. CASE j = get[t].i
      BY <2>1, <2>3, <3>1
    <3>2. CASE j < get[t].i
      BY <1>1, <2>3, <3>2 DEF Searched
    <3> QED
      BY <1>1, <2>3, <3>1, <3>2
  <2> QED
    BY <1>1, <2>1, <2>2, <2>3 DEF Searched
<1>6. ASSUME NEW u \in Threads \ {t}, pc'[u] = "scan" PROVE Searched(u)'
  <2>1. Searched(u)
    BY <1>2, <1>6 DEF CfgInv
  <2> QED
    BY <1>1, <1>3, <2>1 DEF Searched
<1>7. ASSUME ~ reloaded' PROVE Settled'
  <2>1. Settled
    BY <1>1, <1>7 DEF CfgInv
  <2>2. entries = block
    BY <2>1 DEF Settled
  <2>3. ~ dangling'
    BY <2>1, <2>2, ScanCases DEF Settled
  <2> QED
    BY <1>1, <1>2, <1>3, <2>1, <2>3 DEF Settled
<1> QED
  BY <1>1, <1>2, <1>4, <1>5, <1>6, <1>7 DEF CfgInv

LEMMA FoundStep ==
  ASSUME CfgInv, NEW t \in Threads, Found(t), stage = "running", UNCHANGED main
  PROVE  CfgInv'
<1>1. /\ UNCHANGED << table, num_entries, line, block, entries, loading, dangling, stage,
                      reloaded >>
      /\ get' = [ get EXCEPT ![t].from = entries ]
      /\ pc' = [ pc EXCEPT ![t] = "holding" ]
  BY DEF Found, Goes, main
<1>2. PcType' /\ pc'[t] = "holding" /\ \A u \in Threads \ {t} : pc'[u] = pc[u]
  BY <1>1 DEF CfgInv, PcType, Phases, ConfigPhases
<1>3. /\ get' \in [Threads -> [ key : Keys \union {NULL}, i : Nat, from : Nat ]]
      /\ get'[t].from = entries
      /\ \A u \in Threads \ {t} : get'[u] = get[u]
  BY <1>1 DEF CfgInv, ConfigType
<1>4. \A u \in Threads : pc'[u] = "scan" => Searched(u)'
  BY <1>1, <1>2, <1>3 DEF CfgInv, Searched
<1>5. ConfigType'
  BY <1>1, <1>3 DEF CfgInv, ConfigType
<1>6. Settled => Settled'
  BY <1>1, <1>2, <1>3 DEF Settled
<1> QED
  BY <1>1, <1>2, <1>4, <1>5, <1>6 DEF CfgInv

LEMMA ReadStep ==
  ASSUME CfgInv, NEW t \in Threads, ReadValue(t), stage = "running", UNCHANGED main
  PROVE  CfgInv'
<1>1. /\ UNCHANGED << table, num_entries, line, block, entries, loading, stage, reloaded >>
      /\ get' = [ get EXCEPT ![t] = NoGet ]
      /\ pc[t] = "holding" /\ pc' = [ pc EXCEPT ![t] = "idle" ]
      /\ dangling' = (dangling \/ get[t].from # block)
  BY DEF ReadValue, Goes, main
<1>2. PcType' /\ pc'[t] = "idle" /\ \A u \in Threads \ {t} : pc'[u] = pc[u]
  BY <1>1 DEF CfgInv, PcType, Phases, ConfigPhases
<1>3. /\ get' \in [Threads -> [ key : Keys \union {NULL}, i : Nat, from : Nat ]]
      /\ \A u \in Threads \ {t} : get'[u] = get[u]
  BY <1>1 DEF CfgInv, ConfigType, NoGet
<1>4. \A u \in Threads : pc'[u] = "scan" => Searched(u)'
  BY <1>1, <1>2, <1>3 DEF CfgInv, Searched
<1>5. ConfigType'
  BY <1>1, <1>3 DEF CfgInv, ConfigType
<1>6. Settled => Settled'
  BY <1>1, <1>2, <1>3 DEF Settled
<1> QED
  BY <1>1, <1>2, <1>4, <1>5, <1>6 DEF CfgInv

LEMMA ConfigCallStep ==
  ASSUME CfgInv, NEW t \in Threads, ConfigCalls(t)
  PROVE  CfgInv'
<1>1. stage = "running" /\ UNCHANGED main
  BY CfgWorking DEF ConfigCalls
<1> QED
  BY <1>1, GetStep, ScanStep, FoundStep, ReadStep
  DEF ConfigCalls, ConfigBegin, ConfigContinue

\* config_load
LEMMA ReallocStep ==
  ASSUME CfgInv, NEW key \in Keys, Realloc(key), UNCHANGED main
  PROVE  CfgInv'
<1>1. /\ UNCHANGED << pc, table, num_entries, entries, get, dangling, stage, reloaded >>
      /\ loading = "lines" /\ loading' \in { "failed", "store" }
      /\ loading' = "failed" => block' = block
      /\ block' \in Nat /\ line' \in Keys \union {NULL}
  BY DEF Realloc, CfgInv, ConfigType, main
<1>2. ConfigType' /\ PcType'
  BY <1>1 DEF CfgInv, ConfigType, PcType
<1>3. \A u \in Threads : Searched(u) => Searched(u)'
  BY <1>1 DEF Searched
<1>4. ASSUME Settled, ~ reloaded PROVE Settled'
  <2>1. stage # "running" /\ \A u \in Threads : pc[u] \notin ConfigPhases
    BY <1>1, <1>4 DEF CfgInv, Settled
  <2> QED
    BY <1>1, <1>4, <2>1 DEF Settled, ConfigPhases
<1> QED
  BY <1>1, <1>2, <1>3, <1>4 DEF CfgInv

LEMMA StoreStep ==
  ASSUME CfgInv, Store, UNCHANGED main
  PROVE  CfgInv'
<1> DEFINE new == [ key |-> line, val |-> num_entries + 1 ]
<1>1. /\ UNCHANGED << pc, block, get, dangling, stage, reloaded >>
      /\ loading = "store" /\ loading' = "lines" /\ line' = NULL /\ entries' = block
      /\ table' = Append(table, new) /\ num_entries' = num_entries + 1
  BY DEF Store, main
<1>2. num_entries \in Nat
  BY LenProperties DEF CfgInv, ConfigType
<1>3. new \in Entry
  BY <1>2 DEF CfgInv, ConfigType, Entry
<1> HIDE DEF new
<1>4. /\ table' \in Seq(Entry) /\ Len(table') = num_entries + 1
      /\ \A j \in 1 .. num_entries : table'[j] = table[j]
  BY <1>1, <1>3, AppendProperties DEF CfgInv, ConfigType
<1>5. ConfigType' /\ PcType'
  BY <1>1, <1>4 DEF CfgInv, ConfigType, PcType
<1>6. ASSUME NEW u \in Threads, pc'[u] = "scan" PROVE Searched(u)'
  <2>1. Searched(u) /\ get[u].i \in Nat
    BY <1>1, <1>6 DEF CfgInv, ConfigType
  <2>2. ASSUME ~ dangling', NEW j \in 1 .. num_entries', j < get[u].i
        PROVE  table'[j].key # get[u].key
    <3>1. j \in 1 .. num_entries
      BY <1>1, <1>2, <2>1, <2>2 DEF Searched
    <3> QED
      BY <1>1, <1>4, <2>1, <2>2, <3>1 DEF Searched
  <2>3. 1 =< get'[u].i /\ get'[u].i =< num_entries' + 1
    BY <1>1, <1>2, <2>1 DEF Searched
  <2> QED
    BY <1>1, <2>2, <2>3 DEF Searched
<1>7. ASSUME Settled, ~ reloaded PROVE Settled'
  <2>1. stage # "running" /\ \A u \in Threads : pc[u] \notin ConfigPhases
    BY <1>1, <1>7 DEF CfgInv, Settled
  <2> QED
    BY <1>1, <1>7, <2>1 DEF Settled, ConfigPhases
<1> QED
  BY <1>1, <1>5, <1>6, <1>7 DEF CfgInv

\* config_load begins or its result is taken, or the program enters a stage.
LEMMA LoadingStep ==
  ASSUME CfgInv,
         UNCHANGED << pc, entries, num_entries, block, table, line, get, dangling >>,
         stage' # "running" => stage # "running",
         ~ reloaded' => ~ reloaded,
         ~ reloaded' /\ Settled => /\ loading # "store" /\ loading' # "store"
                                   /\ loading' # "no" => stage' \in { "load", "exited" }
  PROVE  CfgInv'
<1>1. PcType' /\ ConfigType' /\ \A t \in Threads : Searched(t) => Searched(t)'
  BY DEF CfgInv, PcType, ConfigType, Searched
<1>2. ~ reloaded' => Settled'
  BY DEF CfgInv, Settled
<1> QED
  BY <1>1, <1>2 DEF CfgInv

LEMMA DestroyStep ==
  ASSUME CfgInv, CleanUpConfig
  PROVE  CfgInv'
<1>1. /\ stage = "running" /\ stage' = "destroy" /\ UNCHANGED << pc, line, get, dangling,
                                                                 loading, reloaded >>
      /\ loading = "no" /\ \A t \in Threads : pc[t] = "idle"
      /\ entries' = 0 /\ num_entries' = 0 /\ block' = 0 /\ table' = << >>
  BY DEF CleanUpConfig, Stage, AllIdle, config_destroy
<1>2. ConfigType' /\ PcType'
  BY <1>1 DEF CfgInv, ConfigType, PcType
<1> QED
  BY <1>1, <1>2 DEF CfgInv, Settled, ConfigPhases

LEMMA StartLogger ==
  ASSUME CfgInv, InitLogger
  PROVE  CfgInv'
<1>1. /\ UNCHANGED << entries, num_entries, block, table, line, get, dangling, reloaded >>
      /\ stage = "load" /\ stage' = "logging" /\ loading = "loaded" /\ loading' = "no"
      /\ pc' = [ pc EXCEPT ![Main] = "open" ]
  BY DEF InitLogger, Stage, LockAndClose, Goes
<1>2. PcType' /\ pc'[Main] = "open" /\ \A u \in Threads \ {Main} : pc'[u] = pc[u]
  BY <1>1, ThreadsAssumption DEF CfgInv, PcType, Phases, LoggerPhases
<1>3. ConfigType' /\ \A t \in Threads : pc'[t] \notin ConfigPhases
  BY <1>1, <1>2 DEF CfgInv, ConfigType, ConfigPhases
<1>4. Settled => Settled'
  BY <1>1, <1>3 DEF Settled, ConfigPhases
<1> QED
  BY <1>1, <1>2, <1>3, <1>4 DEF CfgInv, ConfigPhases

LEMMA MainCfgStep ==
  ASSUME CfgInv, MainSteps
  PROVE  CfgInv'
<1>1. CASE SystemInit \/ InitFails \/ InitReturns \/ NoInit \/ CleanUpLogger
  <2>1. /\ UNCHANGED << pc, configVars, reloaded >>
        /\ stage' # "running" => stage # "running"
        /\ \/ stage \in { "start", "logging", "destroy" }
           \/ stage = "load" /\ loading = "failed" /\ stage' = "exited"
    BY <1>1 DEF SystemInit, InitFails, InitReturns, NoInit, CleanUpLogger, Stage,
       system_init, logger_destroy, shared
  <2>2. UNCHANGED << pc, entries, num_entries, block, table, line, get, dangling, loading >>
    BY <2>1 DEF configVars
  <2>3. Settled => /\ loading # "store" /\ loading' # "store"
                   /\ loading' # "no" => stage' \in { "load", "exited" }
    BY <2>1, <2>2 DEF Settled
  <2> QED
    BY <2>1, <2>2, <2>3, LoadingStep
<1>2. CASE LoadFirst
  <2>1. /\ UNCHANGED << pc, entries, num_entries, block, table, line, get, dangling,
                        stage, reloaded >>
        /\ stage = "load" /\ loading = "no" /\ loading' \in { "lines", "failed" }
    BY <1>2 DEF LoadFirst, config_load, main
  <2> QED
    BY <2>1, LoadingStep
<1>3. CASE Reload
  <2>1. /\ UNCHANGED << pc, entries, num_entries, block, table, line, get, dangling, stage >>
        /\ reloaded' = TRUE
    BY <1>3 DEF Reload, config_load
  <2> QED
    BY <2>1, LoadingStep
<1>4. CASE ReloadReturns
  <2>1. /\ UNCHANGED << pc, entries, num_entries, block, table, line, get, dangling,
                        stage, reloaded >>
        /\ loading \in { "loaded", "failed" } /\ loading' = "no"
    BY <1>4 DEF ReloadReturns, LoadReturns, shared, main
  <2> QED
    BY <2>1, LoadingStep
<1> QED
  BY <1>1, <1>2, <1>3, <1>4, StartLogger, DestroyStep DEF MainSteps

LEMMA CfgStep ==
  ASSUME CfgInv, [Next]_vars
  PROVE  CfgInv'
<1>1. CASE UNCHANGED << pc, configVars, main >>
  BY <1>1, CfgStill
<1>2. CASE MainSteps
  BY <1>2, MainCfgStep
<1>3. CASE LoadGoesOn
  <2>1. CASE EndOfFile
    <3>1. /\ UNCHANGED << pc, entries, num_entries, block, table, line, get, dangling,
                          stage, reloaded >>
          /\ loading = "lines" /\ loading' = "loaded"
      BY <1>3, <2>1 DEF LoadGoesOn, EndOfFile, main
    <3> QED
      BY <3>1, LoadingStep DEF Settled
  <2> QED
    BY <1>3, <2>1, ReallocStep, StoreStep DEF LoadGoesOn, ConfigLoad
<1>4. ASSUME NEW t \in Threads, LoggerCalls(t) \/ ClockCalls(t) PROVE CfgInv'
  <2>1. UNCHANGED << configVars, main >>
    BY <1>4 DEF LoggerCalls, ClockCalls
  <2>2. /\ {"idle"} \union LoggerPhases \subseteq Phases \ ConfigPhases
        /\ {"idle"} \union ClockPhases \subseteq Phases \ ConfigPhases
    BY DEF Phases, ConfigPhases, ClockPhases, LoggerPhases
  <2>3. UNCHANGED pc \/ Moves(t, Phases \ ConfigPhases, Phases \ ConfigPhases)
    BY <1>4, <2>2, LoggerMoves, ClockMoves DEF Moves
  <2> QED
    BY <2>1, <2>3, CfgFrame, CfgStill
<1> QED
  BY <1>1, <1>2, <1>3, <1>4, ConfigCallStep DEF Next, vars, shared, TimePasses, Tick

LEMMA CfgInit == Init => CfgInv
<1> SUFFICES ASSUME Init PROVE CfgInv
  OBVIOUS
<1>1. PcType /\ \A t \in Threads : pc[t] = "idle"
  BY DEF Init, PcType, Phases
<1>2. ConfigType
  BY DEF Init, ConfigInit, ConfigType, NoGet
<1>3. Settled
  BY <1>1 DEF Init, ConfigInit, Settled
<1> QED
  BY <1>1, <1>2, <1>3 DEF CfgInv, ConfigPhases

\* What a search that has passed over all entries before i says of Lookup.
LEMMA LookupFirst ==
  ASSUME num_entries \in Nat, NEW key, NEW i \in Nat, 1 =< i,
         \A j \in 1 .. num_entries : j < i => table[j].key # key
  PROVE  /\ i > num_entries => Lookup(key) = 0
         /\ i =< num_entries /\ table[i].key = key => Lookup(key) = i
<1> DEFINE hits == { j \in 1 .. num_entries : table[j].key = key }
<1>1. CASE i > num_entries
  BY <1>1 DEF Lookup
<1>2. CASE i =< num_entries /\ table[i].key = key
  <2>1. i \in hits /\ \A j \in hits : i =< j /\ j \in Nat
    BY <1>2
  <2>2. (CHOOSE m \in hits : \A j \in hits : m =< j) = i
    BY <2>1
  <2> QED
    BY <2>1, <2>2 DEF Lookup
<1> QED
  BY <1>1, <1>2

\* Each part of the promise, for a step.
LEMMA DanglesOnReload ==
  ASSUME CfgInv, [Next]_vars, dangling'
  PROVE  reloaded
<1> SUFFICES ASSUME ~ reloaded PROVE FALSE
  OBVIOUS
<1>1. Settled
  BY DEF CfgInv
<1>2. dangling' # dangling
  BY <1>1 DEF Settled
<1>3. PICK t \in Threads : (Scan(t) \/ ReadValue(t)) /\ ConfigCalls(t)
  BY <1>2 DEF Next, MainSteps, SystemInit, LoadFirst, InitLogger, InitFails,
     InitReturns, NoInit, Reload, ReloadReturns, CleanUpConfig, CleanUpLogger, LoadReturns,
     LoadGoesOn, ConfigLoad, Realloc, Store, EndOfFile, TimePasses, LoggerCalls,
     ConfigCalls, ClockCalls, ConfigBegin, ConfigContinue, GetLock, Found, config_load,
     config_destroy, vars, configVars
<1>4. loading = "no" /\ entries = block
  BY <1>1, <1>3, CfgWorking DEF Settled
<1>5. CASE Scan(t)
  BY <1>1, <1>4, <1>5, ScanCases DEF Settled
<1>6. CASE ReadValue(t)
  BY <1>1, <1>6 DEF ReadValue, Goes, Settled
<1> QED
  BY <1>3, <1>5, <1>6

LEMMA AnswerRight ==
  ASSUME CfgInv, [Next]_vars, ~ dangling', NEW t \in Threads, pc[t] = "scan",
         pc'[t] \in { "idle", "found" }
  PROVE  Lookup(get[t].key) = IF pc'[t] = "idle" THEN 0 ELSE get[t].i
<1>1. pc'[t] # pc[t]
  OBVIOUS
<1>2. Scan(t)
  <2>1. ASSUME NEW u \in Threads \ {t}, NEW from, NEW to, Moves(u, from, to) PROVE FALSE
    BY <1>1, <2>1 DEF Moves, CfgInv, PcType
  <2>2. ~ Moves(t, {"idle"} \union LoggerPhases, {"idle"} \union LoggerPhases)
    BY DEF Moves, LoggerPhases
  <2>3. ~ Moves(t, {"idle"} \union ClockPhases, {"idle"} \union ClockPhases)
    BY DEF Moves, ClockPhases
  <2>4. ~ Moves(Main, {"idle"}, {"open"})
    BY <1>1, ThreadsAssumption DEF Moves, CfgInv, PcType
  <2>5. ConfigCalls(t)
    BY <1>1, <2>1, <2>2, <2>3, <2>4, LoggerMoves, ConfigMoves, ClockMoves, MainMoves
    DEF Next, vars, shared
  <2> QED
    BY <2>5 DEF ConfigCalls, ConfigBegin, ConfigContinue, GetLock, Found, ReadValue,
       Call, Goes
<1>3. /\ num_entries \in Nat /\ get[t].i \in Nat /\ Searched(t) /\ ~ dangling
  BY <1>2, ScanCases
<1>4. CASE pc'[t] = "idle"
  <2>1. get[t].i > num_entries
    BY <1>2, <1>4, ScanCases DEF CfgInv, PcType
  <2> QED
    BY <1>3, <1>4, <2>1, LookupFirst DEF Searched
<1>5. CASE pc'[t] = "found"
  <2>1. get[t].i =< num_entries /\ table[get[t].i].key = get[t].key
    BY <1>2, <1>5, ScanCases DEF CfgInv, PcType
  <2> QED
    BY <1>3, <1>5, <2>1, LookupFirst DEF Searched
<1> QED
  BY <1>4, <1>5

LEMMA TableGrows ==
  ASSUME CfgInv, [Next]_vars, stage' # "destroy"
  PROVE  SubSeq(table', 1, num_entries) = table
<1>1. /\ table \in Seq(Entry) /\ Len(table) = num_entries /\ num_entries \in Nat
      /\ \A j \in 1 .. num_entries : table[j] \in Entry
  BY LenProperties, ElementOfSeq DEF CfgInv, ConfigType
<1>2. ASSUME \A j \in 1 .. num_entries : table'[j] = table[j]
      PROVE  SubSeq(table', 1, num_entries) = table
  <2> DEFINE old == SubSeq(table', 1, num_entries)
  <2>1. /\ old \in Seq(Entry) /\ Len(old) = num_entries
        /\ \A j \in 1 .. num_entries : old[j] = table[j]
    BY <1>1, <1>2, SubSeqProperties
  <2> HIDE DEF old
  <2>2. old = table
    BY <1>1, <2>1, SeqEqual
  <2> QED
    BY <2>2 DEF old
<1>3. CASE table' = table
  BY <1>2, <1>3
<1>4. CASE Store
  <2> DEFINE new == [ key |-> line, val |-> num_entries + 1 ]
  <2>1. new \in Entry
    BY <1>1 DEF CfgInv, ConfigType, Entry
  <2>2. table' = Append(table, new)
    BY <1>4 DEF Store
  <2> HIDE DEF new
  <2> QED
    BY <1>1, <1>2, <2>1, <2>2, AppendProperties
<1>5. table' = table \/ Store
  BY DEF Next, MainSteps, SystemInit, LoadFirst, InitLogger, InitFails,
     InitReturns, NoInit, Reload, ReloadReturns, CleanUpConfig, CleanUpLogger, LoadReturns,
     LoadGoesOn, ConfigLoad, Realloc, EndOfFile, TimePasses, LoggerCalls, ConfigCalls,
     ClockCalls, ConfigBegin, ConfigContinue, GetLock, Scan, Found, ReadValue, Stage,
     config_load, vars, configVars
<1> QED
  BY <1>3, <1>4, <1>5

\* Only a configuration that is loaded while threads run can make config_get touch
\* memory that was freed; until it does, config_get finds the first entry with the key
\* and fails only if there is none, and no entry changes (config.c:57-77, 83-91).
THEOREM ConfigIsRight == Spec => ConfigAnswers
<1> DEFINE Promise ==
      /\ dangling' => reloaded
      /\ ~ dangling' =>
           \A t \in Threads :
             /\ pc[t] = "scan" /\ pc'[t] = "idle" => Lookup(get[t].key) = 0
             /\ pc[t] = "scan" /\ pc'[t] = "found" => get[t].i = Lookup(get[t].key)
      /\ stage' # "destroy" => SubSeq(table', 1, num_entries) = table
<1>1. CfgInv /\ [Next]_vars => [ Promise ]_vars
  <2> SUFFICES ASSUME CfgInv, [Next]_vars PROVE Promise
    OBVIOUS
  <2>1. dangling' => reloaded
    BY DanglesOnReload
  <2>2. ASSUME ~ dangling', NEW t \in Threads, pc[t] = "scan"
        PROVE  /\ pc'[t] = "idle" => Lookup(get[t].key) = 0
               /\ pc'[t] = "found" => get[t].i = Lookup(get[t].key)
    BY <2>2, AnswerRight
  <2> QED
    BY <2>1, <2>2, TableGrows
<1>2. CfgInv /\ [Next]_vars => CfgInv'
  BY CfgStep
<1> QED
  BY <1>1, <1>2, CfgInit, PTL DEF Spec, ConfigAnswers

-----------------------------------------------------------------------------
\* The types

\* What the C library writes out has the type of what the files hold.
LEMMA WrittenOut ==
  ASSUME LoggerTypes, NEW text \in Seq(Piece)
  PROVE  [ disk EXCEPT ![stream] = @ \o text ] \in [Names -> Seq(Piece)]
<1>1. \A f \in Names : disk[f] \o text \in Seq(Piece)
  BY ConcatProperties DEF LoggerTypes
<1> QED
  BY <1>1 DEF LoggerTypes

LEMMA CloseTypes ==
  ASSUME LoggerTypes, NEW t \in Threads, NEW name \in Names, NEW level \in Int,
         LockAndClose(t, name, level)
  PROVE  LoggerTypes'
<1>1. /\ buffer' \in Seq(Piece) /\ disk' \in [Names -> Seq(Piece)]
      /\ stream' \in Names \union {NULL}
  <2>1. CASE Closed
    BY <2>1, WrittenOut, EmptySeq DEF LoggerTypes, Closed
  <2>2. CASE UNCHANGED library
    BY <2>2 DEF LoggerTypes, library
  <2> QED
    BY <2>1, <2>2 DEF LockAndClose
<1>2. args' \in [Threads -> [ level : Int, name : Names \union {NULL} ]]
  BY DEF LoggerTypes, LockAndClose
<1> QED
  BY <1>1, <1>2 DEF LoggerTypes, LockAndClose, glog

\* The logger's fields, whoever calls it.
LEMMA LoggerCallTypes ==
  ASSUME LoggerTypes, NEW t \in Threads,
         LoggerBegin(t) \/ LoggerContinue(t)
  PROVE  LoggerTypes'
<1>1. ASSUME NEW level \in Levels, NEW name \in Names, LockAndClose(t, name, level)
      PROVE  LoggerTypes'
  BY <1>1, CloseTypes, LevelsAssumption
<1>2. CASE Fopen(t) \/ Lock(t)
  BY <1>2 DEF LoggerTypes, Fopen, Lock, glog, library
<1>3. CASE SetLevel(t) \/ SetEnabled(t) \/ TestEnabled(t)
  BY <1>3 DEF LoggerTypes, SetLevel, SetEnabled, TestEnabled, glog, library
<1>4. CASE \/ \E level \in Levels : TestLevel(t, level) \/ logger_set_log_level(t, level)
           \/ \E enable \in BOOLEAN : logger_enable(t, enable)
  BY <1>4, LevelsAssumption
  DEF LoggerTypes, TestLevel, logger_set_log_level, logger_enable, glog, library
<1>5. CASE WritePiece(t)
  <2> DEFINE new == [ by |-> t, part |-> piece ]
  <2>1. new \in Piece /\ piece' \in Pieces
    BY <1>5 DEF LoggerTypes, WritePiece, NextPiece, Piece, Pieces
  <2>2. Append(buffer, new) \in Seq(Piece)
    BY <2>1, AppendProperties DEF LoggerTypes
  <2>3. \/ buffer' = Append(buffer, new) /\ disk' = disk
        \/ /\ buffer' = << >>
           /\ disk' = [ disk EXCEPT ![stream] = @ \o Append(buffer, new) ]
    BY <1>5 DEF WritePiece
  <2> HIDE DEF new
  <2>4. buffer' \in Seq(Piece) /\ disk' \in [Names -> Seq(Piece)]
    BY <2>2, <2>3, WrittenOut, EmptySeq DEF LoggerTypes
  <2> QED
    BY <1>5, <2>1, <2>4 DEF LoggerTypes, WritePiece, glog
<1>6. CASE Unlock(t)
  <2>1. args' \in [Threads -> [ level : Int, name : Names \union {NULL} ]]
    BY <1>6 DEF LoggerTypes, Unlock, NoArgs, LOG_LEVEL_DEBUG
  <2> QED
    BY <1>6, <2>1 DEF LoggerTypes, Unlock, glog, library
<1>7. CASE Flush(t)
  <2>1. buffer' = << >> /\ disk' = [ disk EXCEPT ![stream] = @ \o buffer ]
    BY <1>7 DEF Flush
  <2>2. buffer' \in Seq(Piece) /\ disk' \in [Names -> Seq(Piece)]
    BY <2>1, WrittenOut, EmptySeq DEF LoggerTypes
  <2> QED
    BY <1>7, <2>2 DEF LoggerTypes, Flush, glog
<1> QED
  BY <1>1, <1>2, <1>3, <1>4, <1>5, <1>6, <1>7 DEF LoggerBegin, LoggerContinue

LEMMA LoggerTypesStep ==
  ASSUME LoggerTypes, [Next]_vars
  PROVE  LoggerTypes'
<1>1. CASE UNCHANGED loggerVars
  BY <1>1 DEF LoggerTypes, loggerVars, glog, library
<1>2. CASE InitLogger
  BY <1>2, CloseTypes, ThreadsAssumption DEF InitLogger, LOG_LEVEL_DEBUG
<1>3. CASE CleanUpLogger
  <2>1. /\ buffer' \in Seq(Piece) /\ disk' \in [Names -> Seq(Piece)]
        /\ stream' \in Names \union {NULL}
    <3>1. CASE Closed
      BY <3>1, WrittenOut, EmptySeq DEF LoggerTypes, Closed
    <3>2. CASE UNCHANGED library
      BY <3>2 DEF LoggerTypes, library
    <3> QED
      BY <1>3, <3>1, <3>2 DEF CleanUpLogger, logger_destroy
  <2> QED
    BY <1>3, <2>1 DEF LoggerTypes, CleanUpLogger, logger_destroy
<1>4. ASSUME NEW t \in Threads, LoggerCalls(t) PROVE LoggerTypes'
  BY <1>4, LoggerCallTypes DEF LoggerCalls
<1>5. \/ UNCHANGED loggerVars \/ InitLogger \/ CleanUpLogger
      \/ \E t \in Threads : LoggerCalls(t)
  BY DEF Next, MainSteps, SystemInit, LoadFirst, InitFails, InitReturns, NoInit, Reload,
     ReloadReturns, CleanUpConfig, LoadReturns, LoadGoesOn, TimePasses, ConfigCalls,
     ClockCalls, vars
<1> QED
  BY <1>1, <1>2, <1>3, <1>4, <1>5

\* config_load stores a key that it read, where the table has room.
CfgTypes ==
  /\ ConfigTypes
  /\ loading = "store" => line \in Keys /\ num_entries < MaxEntries

\* config_get looks at most one entry past the last.
LEMMA GetTypes ==
  ASSUME CfgTypes, NEW t \in Threads, ConfigBegin(t) \/ ConfigContinue(t)
  PROVE  CfgTypes'
<1> DEFINE Gets == [ key : Keys \union { NULL }, i : 0 .. MaxEntries + 1, from : Nat ]
<1>1. get \in [Threads -> Gets] /\ MaxEntries \in Nat /\ num_entries \in 0 .. MaxEntries
  BY EntriesAssumption DEF CfgTypes, ConfigTypes
<1>2. ASSUME NEW key \in Keys, GetLock(t, key) PROVE CfgTypes'
  <2>1. get[t] \in Gets /\ 1 \in 0 .. MaxEntries + 1
    BY <1>1
  <2>2. [ get[t] EXCEPT !.key = key, !.i = 1 ] \in Gets
    BY <2>1
  <2>3. get' = [ get EXCEPT ![t] = [ @ EXCEPT !.key = key, !.i = 1 ] ]
    BY <1>1, <1>2 DEF GetLock
  <2>4. get' \in [Threads -> Gets]
    BY <1>1, <2>2, <2>3
  <2> QED
    BY <1>2, <2>4 DEF CfgTypes, ConfigTypes, GetLock
<1>3. CASE Scan(t)
  <2>1. get' \in [Threads -> Gets]
    <3>1. CASE get' = [ get EXCEPT ![t] = NoGet ]
      BY <1>1, <3>1 DEF NoGet
    <3>2. CASE get' = [ get EXCEPT ![t].i = @ + 1 ] /\ ~ get[t].i > num_entries
      BY <1>1, <3>2
    <3> QED
      BY <1>1, <1>3, <3>1, <3>2 DEF Scan, AtEnd
  <2>2. /\ config_mutex' \in Threads \union { Unlocked } /\ dangling' \in BOOLEAN
        /\ UNCHANGED << entries, num_entries, block, table, loading, line >>
    BY <1>3 DEF Scan, CfgTypes, ConfigTypes
  <2> QED
    BY <2>1, <2>2 DEF CfgTypes, ConfigTypes
<1>4. CASE Found(t)
  <2>1. get' \in [Threads -> Gets]
    BY <1>1, <1>4 DEF Found, CfgTypes, ConfigTypes
  <2> QED
    BY <1>4, <2>1 DEF CfgTypes, ConfigTypes, Found
<1>5. CASE ReadValue(t)
  <2>1. get' \in [Threads -> Gets]
    BY <1>1, <1>5 DEF ReadValue, NoGet
  <2> QED
    BY <1>5, <2>1 DEF CfgTypes, ConfigTypes, ReadValue
<1> QED
  BY <1>2, <1>3, <1>4, <1>5 DEF ConfigBegin, ConfigContinue

LEMMA LoadTypes ==
  ASSUME CfgTypes, ConfigLoad
  PROVE  CfgTypes'
<1>1. ASSUME NEW key \in Keys, Realloc(key) PROVE CfgTypes'
  BY <1>1 DEF Realloc, CfgTypes, ConfigTypes
<1>2. CASE Store
  <2> DEFINE Stored == [ key : Keys, val : 1 .. MaxEntries ]
             new == [ key |-> line, val |-> num_entries + 1 ]
  <2>1. table \in Seq(Stored) /\ Len(table) = num_entries /\ new \in Stored
    BY <1>2, EntriesAssumption DEF Store, CfgTypes, ConfigTypes
  <2>2. table' = Append(table, new)
    BY <1>2 DEF Store
  <2> HIDE DEF new, Stored
  <2>3. table' \in Seq(Stored) /\ Len(table') = num_entries + 1
    BY <2>1, <2>2, AppendProperties
  <2> USE DEF Stored
  <2>4. num_entries' = num_entries + 1 /\ num_entries + 1 \in 0 .. MaxEntries
    BY <1>2, EntriesAssumption DEF Store, CfgTypes, ConfigTypes
  <2> QED
    BY <1>2, <2>3, <2>4 DEF Store, CfgTypes, ConfigTypes
<1>3. CASE EndOfFile
  BY <1>3 DEF EndOfFile, CfgTypes, ConfigTypes
<1> QED
  BY <1>1, <1>2, <1>3 DEF ConfigLoad

LEMMA CfgTypesStep ==
  ASSUME CfgTypes, [Next]_vars
  PROVE  CfgTypes'
<1>1. CASE UNCHANGED configVars
  BY <1>1 DEF CfgTypes, ConfigTypes, configVars
<1>2. CASE config_load \/ LoadReturns \/ InitLogger
  BY <1>2 DEF config_load, LoadReturns, InitLogger, CfgTypes, ConfigTypes
<1>3. CASE config_destroy /\ loading = "no"
  BY <1>3, EntriesAssumption DEF config_destroy, CfgTypes, ConfigTypes
<1>4. CASE ConfigLoad
  BY <1>4, LoadTypes
<1>5. ASSUME NEW t \in Threads, ConfigCalls(t) PROVE CfgTypes'
  BY <1>5, GetTypes DEF ConfigCalls
<1>6. \/ UNCHANGED configVars \/ config_load \/ LoadReturns \/ InitLogger \/ ConfigLoad
      \/ config_destroy /\ loading = "no"
      \/ \E t \in Threads : ConfigCalls(t)
  BY DEF Next, MainSteps, SystemInit, LoadFirst, InitFails, InitReturns, NoInit, Reload,
     ReloadReturns, CleanUpConfig, CleanUpLogger, LoadGoesOn, TimePasses, LoggerCalls,
     ClockCalls, vars
<1> QED
  BY <1>1, <1>2, <1>3, <1>4, <1>5, <1>6

\* A difference of two times, in microseconds, is within the clock's range.
LEMMA DivInRange ==
  ASSUME NEW n \in Nat \ {0}, NEW a \in Nat
  PROVE  a \div n \in 0 .. a
<1> DEFINE p == a \div n
<1>1. p \in Nat /\ n * p =< a
  OBVIOUS
<1> HIDE DEF p
<1>2. p =< n * p
  BY <1>1
<1> QED
  BY <1>1, <1>2 DEF p

LEMMA ClockTypesStep ==
  ASSUME ClockTypes, [Next]_vars
  PROVE  ClockTypes'
<1>1. now \in Nat \ {0} /\ MaxNow \in Nat /\ now =< MaxNow
  BY ClockAssumption DEF ClockTypes
<1>2. CASE UNCHANGED clockVars
  BY <1>2 DEF ClockTypes, clockVars
<1>3. CASE Tick
  <2>1. now' = now + 1 /\ now' \in 1 .. MaxNow /\ UNCHANGED << start_time_ns, ns, uptime >>
    BY <1>1, <1>3 DEF Tick
  <2>2. 0 .. now \subseteq 0 .. now'
    BY <1>1, <2>1
  <2> QED
    BY <2>1, <2>2 DEF ClockTypes
<1>4. CASE system_init
  BY <1>1, <1>4 DEF system_init, ClockTypes
<1>5. ASSUME NEW t \in Threads, LazyRead(t) \/ LazySet(t) \/ Since(t) PROVE ClockTypes'
  BY <1>1, <1>5 DEF LazyRead, LazySet, Since, ClockTypes
<1>6. ASSUME NEW t \in Threads, Elapsed(t) PROVE ClockTypes'
  <2> DEFINE up == (now - ns[t]) \div NsPerUs
  <2>1. now - ns[t] \in Nat /\ now - ns[t] =< MaxNow
    BY <1>1 DEF ClockTypes
  <2>2. up \in 0 .. now - ns[t]
    BY <2>1, DivInRange, ClockAssumption
  <2> HIDE DEF up
  <2>3. up \in 0 .. MaxNow
    BY <1>1, <2>1, <2>2
  <2>4. uptime' = [ uptime EXCEPT ![t] = up ] /\ ns' = [ ns EXCEPT ![t] = 0 ]
    BY <1>6 DEF Elapsed, up
  <2>5. uptime' \in [Threads -> 0 .. MaxNow] /\ ns' \in [Threads -> 0 .. now]
    BY <1>1, <2>3, <2>4 DEF ClockTypes
  <2> QED
    BY <1>6, <2>5 DEF Elapsed, ClockTypes
<1>7. \/ UNCHANGED clockVars \/ Tick \/ system_init
      \/ \E t \in Threads : LazyRead(t) \/ LazySet(t) \/ Since(t) \/ Elapsed(t)
  BY DEF Next, MainSteps, SystemInit, LoadFirst, InitLogger, InitFails, InitReturns,
     NoInit, Reload, ReloadReturns, CleanUpConfig, CleanUpLogger, LoadReturns, LoadGoesOn,
     TimePasses, LoggerCalls, ConfigCalls, ClockCalls, ClockContinue, micros64, vars
<1> QED
  BY <1>2, <1>3, <1>4, <1>5, <1>6, <1>7

\* The program's own variables.
MainTypes ==
  /\ calls \in 0 .. MaxCalls
  /\ stage \in Stages /\ lazy \in BOOLEAN /\ reloaded \in BOOLEAN

LEMMA MainTypesStep ==
  ASSUME MainTypes, [Next]_vars
  PROVE  MainTypes'
<1>1. stage' \in Stages /\ lazy' \in BOOLEAN /\ reloaded' \in BOOLEAN
  <2>1. CASE UNCHANGED main
    BY <2>1 DEF MainTypes, main
  <2>2. CASE MainSteps
    BY <2>2 DEF MainTypes, MainSteps, SystemInit, LoadFirst, InitLogger, InitFails,
       InitReturns, NoInit, Reload, ReloadReturns, CleanUpConfig, CleanUpLogger, Stage,
       Stages, main
  <2> QED
    BY <2>1, <2>2 DEF Next, LoadGoesOn, TimePasses, LoggerCalls, ConfigCalls, ClockCalls,
       vars
<1>2. calls' \in 0 .. MaxCalls
  <2>1. UNCHANGED calls \/ (calls < MaxCalls /\ calls' = calls + 1)
    <3>1. CASE MainSteps \/ LoadGoesOn \/ TimePasses
      BY <3>1 DEF MainSteps, SystemInit, LoadFirst, InitLogger, InitFails, InitReturns,
         NoInit, Reload, ReloadReturns, CleanUpConfig, CleanUpLogger, LoadReturns,
         LoadGoesOn, ConfigLoad, Realloc, Store, EndOfFile, TimePasses, Tick,
         LockAndClose, Call, config_load, config_destroy, logger_destroy, system_init,
         shared
    <3>2. ASSUME NEW t \in Threads, LoggerCalls(t)
          PROVE  UNCHANGED calls \/ (calls < MaxCalls /\ calls' = calls + 1)
      BY <3>2 DEF LoggerCalls, LoggerBegin, LoggerContinue, TestLevel,
         logger_set_log_level, LockAndClose, logger_enable, Fopen, SetLevel, SetEnabled,
         Unlock, TestEnabled, Lock, WritePiece, Flush, Call
    <3>3. ASSUME NEW t \in Threads, ConfigCalls(t) \/ ClockCalls(t)
          PROVE  UNCHANGED calls \/ (calls < MaxCalls /\ calls' = calls + 1)
      BY <3>3 DEF ConfigCalls, ConfigBegin, ConfigContinue, GetLock, Scan, Found,
         ReadValue, ClockCalls, ClockContinue, micros64, LazyRead, LazySet, Since,
         Elapsed, Call
    <3> QED
      BY <3>1, <3>2, <3>3 DEF Next, vars, shared
  <2> QED
    BY <2>1, CallsAssumption DEF MainTypes
<1> QED
  BY <1>1, <1>2 DEF MainTypes

TypeInv == LoggerTypes /\ CfgTypes /\ ClockTypes /\ MainTypes /\ PcType

LEMMA TypeInit == Init => TypeInv
<1> SUFFICES ASSUME Init PROVE TypeInv
  OBVIOUS
<1>1. LoggerTypes
  BY EmptySeq DEF Init, LoggerInit, LoggerTypes, NoArgs, LOG_LEVEL_DEBUG, Pieces
<1>2. CfgTypes
  <2>1. get \in [Threads -> [ key : Keys \union { NULL }, i : 0 .. MaxEntries + 1,
                              from : Nat ]]
    BY EntriesAssumption DEF Init, ConfigInit, NoGet
  <2>2. << >> \in Seq([ key : Keys, val : 1 .. MaxEntries ]) /\ Len(<< >>) = 0
    BY EmptySeq
  <2>3. /\ num_entries = 0 /\ entries = 0 /\ block = 0 /\ table = << >>
        /\ config_mutex = Unlocked /\ loading = "no" /\ line = NULL /\ dangling = FALSE
    BY DEF Init, ConfigInit
  <2>4. num_entries \in 0 .. MaxEntries
    BY <2>3, EntriesAssumption
  <2> QED
    BY <2>1, <2>2, <2>3, <2>4 DEF CfgTypes, ConfigTypes
<1>3. ClockTypes
  BY ClockAssumption DEF Init, ClockInit, ClockTypes
<1>4. MainTypes
  <2>1. calls \in 0 .. MaxCalls
    BY CallsAssumption DEF Init
  <2>2. stage = "start" /\ lazy = FALSE /\ reloaded = FALSE
    BY DEF Init
  <2> QED
    BY <2>1, <2>2 DEF MainTypes, Stages
<1>5. PcType
  BY DEF Init, PcType, Phases
<1> QED
  BY <1>1, <1>2, <1>3, <1>4, <1>5 DEF TypeInv

\* The static structs have their types whatever the threads do, the table is never
\* longer than what was loaded nor its index past it by more than one, and the
\* difference that micros64 divides is not below zero, also when two threads set the
\* start time (system.c:51-60, config.c:57-86, logger.c:15-34).
THEOREM RuntimeTypes == Spec => []TypeOK
<1>1. TypeInv /\ [Next]_vars => TypeInv'
  BY LoggerTypesStep, CfgTypesStep, ClockTypesStep, MainTypesStep, PcStep DEF TypeInv
<1>2. TypeInv => TypeOK
  BY DEF TypeInv, CfgTypes, MainTypes, PcType, Phases, TypeOK
<1> QED
  BY <1>1, <1>2, TypeInit, PTL DEF Spec

-----------------------------------------------------------------------------
\* The lines of the log

\* The pieces of a text are those of whole lines, one after the other.
Lines(text) ==
  /\ text # << >> => text[1].part = 1
  /\ \A j \in 1 .. Len(text) - 1 :
       IF text[j].part < 4
       THEN text[j + 1].by = text[j].by /\ text[j + 1].part = text[j].part + 1
       ELSE text[j + 1].part = 1

Ended(text) == text # << >> => text[Len(text)].part = 4

\* The text ends within a line of thread t, of which p is the next piece.
Within(text, t, p) ==
  text # << >> /\ text[Len(text)].by = t /\ text[Len(text)].part = p - 1

\* Between two pieces of a line a thread is in logger_log and has the mutex; the
\* unfinished line is at the end of the file in use.
LineInv ==
  /\ LoggerTypes /\ LogInv
  /\ piece # 1 => \E t \in Threads : pc[t] = "write"
  /\ \A f \in Names :
       /\ Lines(Contents(f))
       /\ IF f = stream /\ piece # 1 THEN Within(Contents(f), mutex, piece)
                                     ELSE Ended(Contents(f))

LEMMA LinesAppend ==
  ASSUME NEW text \in Seq(Piece), NEW new \in Piece, Lines(text),
         IF new.part = 1 THEN Ended(text) ELSE Within(text, new.by, new.part)
  PROVE  /\ Lines(Append(text, new))
         /\ IF new.part = 4 THEN Ended(Append(text, new))
                            ELSE Within(Append(text, new), new.by, new.part + 1)
<1> DEFINE n == Len(text)
           longer == Append(text, new)
<1>1. /\ n \in Nat /\ longer # << >> /\ Len(longer) = n + 1 /\ longer[n + 1] = new
      /\ \A i \in 1 .. n : longer[i] = text[i]
      /\ (text = << >> <=> n = 0)
  BY AppendProperties, EmptySeq, LenProperties
<1>2. \A i \in 1 .. n : text[i] \in Piece
  BY ElementOfSeq
<1>3. new.part \in 1 .. 4
  BY DEF Piece, Pieces
<1> HIDE DEF longer, n
<1>4. longer[1].part = 1
  <2>1. CASE n = 0
    BY <1>1, <2>1 DEF Within
  <2>2. CASE n # 0
    BY <1>1, <2>2 DEF Lines
  <2> QED
    BY <2>1, <2>2
<1>5. ASSUME NEW j \in 1 .. n
      PROVE  IF longer[j].part < 4
             THEN longer[j + 1].by = longer[j].by /\ longer[j + 1].part = longer[j].part + 1
             ELSE longer[j + 1].part = 1
  <2>1. CASE j < n
    <3>1. longer[j] = text[j] /\ longer[j + 1] = text[j + 1] /\ j \in 1 .. n - 1
      BY <1>1, <2>1
    <3> QED
      BY <3>1 DEF Lines, n
  <2>2. CASE j = n
    <3>1. longer[j] = text[n] /\ longer[j + 1] = new /\ text # << >>
      BY <1>1, <1>5, <2>2
    <3>2. CASE new.part = 1
      <4>1. text[n].part = 4
        BY <3>1, <3>2 DEF Ended, n
      <4> QED
        BY <3>1, <3>2, <4>1
    <3>3. CASE new.part # 1
      <4>1. text[n].by = new.by /\ text[n].part = new.part - 1
        BY <3>1, <3>3 DEF Within, n
      <4> QED
        BY <1>3, <3>1, <3>3, <4>1
    <3> QED
      BY <3>2, <3>3
  <2> QED
    BY <1>1, <1>5, <2>1, <2>2
<1>6. Lines(longer)
  BY <1>1, <1>4, <1>5 DEF Lines
<1>7. IF new.part = 4 THEN Ended(longer) ELSE Within(longer, new.by, new.part + 1)
  BY <1>1, <1>3 DEF Ended, Within
<1> QED
  BY <1>6, <1>7 DEF longer

\* Nothing is in the buffer: the contents are those of the disk.
LEMMA ContentsOnDisk ==
  ASSUME LoggerTypes, buffer = << >>, NEW f \in Names
  PROVE  Contents(f) = disk[f]
<1>1. disk[f] \in Seq(Piece)
  BY DEF LoggerTypes
<1> QED
  BY <1>1, ConcatEmptySeq DEF Contents

LEMMA ContentsType ==
  ASSUME LoggerTypes, NEW f \in Names
  PROVE  Contents(f) \in Seq(Piece)
<1>1. disk[f] \in Seq(Piece) /\ buffer \in Seq(Piece)
  BY DEF LoggerTypes
<1> QED
  BY <1>1, ConcatProperties DEF Contents

\* When nobody writes every file has whole lines only.
LEMMA NobodyWrites ==
  ASSUME LineInv, \A t \in Threads : pc[t] \notin { "write", "flush" }
  PROVE  /\ piece = 1 /\ buffer = << >>
         /\ \A f \in Names : Lines(disk[f]) /\ Ended(disk[f])
<1>1. piece = 1 /\ buffer = << >>
  BY DEF LineInv, LogInv
<1>2. \A f \in Names : Contents(f) = disk[f]
  BY <1>1, ContentsOnDisk DEF LineInv
<1> QED
  BY <1>1, <1>2 DEF LineInv

\* The disk holds whole lines and nothing is begun, whichever file is open.
LEMMA WholeOnDisk ==
  ASSUME LineInv, [Next]_vars,
         \A t \in Threads : pc[t] \notin { "write", "flush" },
         piece' = piece, disk' = disk, buffer' = << >>
  PROVE  LineInv'
<1>1. piece = 1 /\ \A f \in Names : Lines(disk[f]) /\ Ended(disk[f])
  BY NobodyWrites
<1>2. LoggerTypes' /\ LogInv'
  BY LoggerTypesStep, LogStep DEF LineInv
<1>3. \A f \in Names : Contents(f)' = disk[f]
  <2>1. \A f \in Names : disk'[f] \o << >> = disk'[f]
    BY <1>2, ConcatEmptySeq DEF LoggerTypes
  <2> QED
    BY <2>1 DEF Contents
<1> QED
  BY <1>1, <1>2, <1>3 DEF LineInv

\* The files, the buffer and the place in the line stay.
LEMMA LinesStill ==
  ASSUME LineInv, [Next]_vars,
         UNCHANGED << piece, disk, buffer, stream, mutex >>,
         \A t \in Threads : pc[t] = "write" => pc'[t] = "write"
  PROVE  LineInv'
<1>1. LoggerTypes' /\ LogInv'
  BY LoggerTypesStep, LogStep DEF LineInv
<1>2. \A f \in Names : Contents(f)' = Contents(f)
  BY DEF Contents
<1> QED
  BY <1>1, <1>2 DEF LineInv

\* A thread that has the mutex, but writes no line, changes nothing in the files.
LEMMA LinesHeld ==
  ASSUME LineInv, [Next]_vars, NEW t \in Threads,
         pc[t] \in Held \ { "write", "flush" },
         UNCHANGED << piece, disk, buffer >>
  PROVE  LineInv'
<1>1. \A u \in Threads : pc[u] \notin { "write", "flush" }
  BY AloneLogs DEF LineInv, Held
<1>2. buffer = << >>
  BY <1>1, NobodyWrites
<1> QED
  BY <1>1, <1>2, WholeOnDisk

\* fclose finds an empty buffer.
LEMMA LinesClosed ==
  ASSUME LineInv, [Next]_vars, mutex = Unlocked, UNCHANGED piece,
         Closed \/ UNCHANGED library
  PROVE  LineInv'
<1>1. (\A t \in Threads : pc[t] \notin { "write", "flush" }) /\ buffer = << >>
  BY NobodyLogs DEF LineInv, Held
<1>2. disk' = disk /\ buffer' = << >>
  <2>1. CASE Closed
    <3>1. \A f \in Names : disk[f] \o << >> = disk[f]
      BY ConcatEmptySeq DEF LineInv, LoggerTypes
    <3>2. disk' = [ disk EXCEPT ![stream] = @ \o << >> ] /\ buffer' = << >>
      BY <1>1, <2>1 DEF Closed
    <3> QED
      BY <3>1, <3>2 DEF LineInv, LoggerTypes
  <2>2. CASE UNCHANGED library
    BY <1>1, <2>2 DEF library
  <2> QED
    BY <2>1, <2>2
<1> QED
  BY <1>1, <1>2, WholeOnDisk

\* The writer of a line has an open stream.
LEMMA WriterStream ==
  ASSUME LineInv, NEW t \in Threads, pc[t] \in { "write", "flush" }
  PROVE  /\ stream \in Names /\ mutex = t
         /\ \A u \in Threads \ {t} : pc[u] \notin Held
<1>1. mutex = t /\ \A u \in Threads \ {t} : pc[u] \notin Held
  BY AloneLogs DEF LineInv, Held
<1>2. file # NULL /\ file = stream
  BY <1>1 DEF LineInv, LogInv, Held
<1> QED
  BY <1>1, <1>2 DEF LineInv, LoggerTypes

\* A piece goes behind what the reader of the file in use would find.
LEMMA PieceBehind ==
  ASSUME LineInv, [Next]_vars, NEW t \in Threads, WritePiece(t)
  PROVE  /\ [ by |-> t, part |-> piece ] \in Piece
         /\ \A f \in Names :
              Contents(f)' = IF f = stream
                             THEN Append(Contents(f), [ by |-> t, part |-> piece ])
                             ELSE Contents(f)
<1> DEFINE new == [ by |-> t, part |-> piece ]
<1>1. stream \in Names /\ UNCHANGED stream
  BY WriterStream DEF WritePiece, Goes
<1>2. LoggerTypes' /\ LoggerTypes
  BY LoggerTypesStep DEF LineInv
<1>3. new \in Piece
  BY <1>2 DEF LoggerTypes, Piece
<1>4. \/ buffer' = Append(buffer, new) /\ disk' = disk
      \/ /\ buffer' = << >>
         /\ disk' = [ disk EXCEPT ![stream] = @ \o Append(buffer, new) ]
  BY DEF WritePiece
<1> HIDE DEF new
<1>5. /\ disk[stream] \in Seq(Piece) /\ buffer \in Seq(Piece)
      /\ disk[stream] \o Append(buffer, new) = Append(disk[stream] \o buffer, new)
  <2>1. disk[stream] \in Seq(Piece) /\ buffer \in Seq(Piece)
    BY <1>1, <1>2 DEF LoggerTypes
  <2>2. << new >> \in Seq(Piece)
    BY <1>3
  <2>3. Append(buffer, new) = buffer \o << new >>
    BY <1>3, <2>1, AppendIsConcat
  <2>4. disk[stream] \o buffer \in Seq(Piece)
    BY <2>1, ConcatProperties
  <2>5. Append(disk[stream] \o buffer, new) = (disk[stream] \o buffer) \o << new >>
    BY <1>3, <2>4, AppendIsConcat
  <2>6. (disk[stream] \o buffer) \o << new >> = disk[stream] \o (buffer \o << new >>)
    <3>1. \A a, b, c \in Seq(Piece) : (a \o b) \o c = a \o (b \o c)
      BY ConcatAssociative
    <3> QED
      BY <2>1, <2>2, <3>1, Zenon
  <2> QED
    BY <2>1, <2>3, <2>5, <2>6
<1>6. Contents(stream)' = Append(Contents(stream), new)
  <2>1. Contents(stream) = disk[stream] \o buffer
        /\ Contents(stream)' = disk'[stream] \o buffer'
    BY <1>1 DEF Contents
  <2>2. CASE buffer' = Append(buffer, new) /\ disk' = disk
    BY <1>5, <2>1, <2>2
  <2>3. CASE /\ buffer' = << >>
             /\ disk' = [ disk EXCEPT ![stream] = @ \o Append(buffer, new) ]
    <3>1. disk'[stream] = disk[stream] \o Append(buffer, new)
      BY <1>1, <1>2, <2>3 DEF LoggerTypes
    <3>2. disk'[stream] \in Seq(Piece)
      BY <1>1, <1>2 DEF LoggerTypes
    <3>3. disk'[stream] \o buffer' = disk'[stream]
      BY <2>3, <3>2, ConcatEmptySeq
    <3> QED
      BY <1>5, <2>1, <3>1, <3>3
  <2> QED
    BY <1>4, <2>2, <2>3
<1>7. ASSUME NEW f \in Names, f = stream PROVE Contents(f)' = Append(Contents(f), new)
  <2>1. Contents(f)' = Contents(stream)' /\ Contents(f) = Contents(stream)
    BY <1>1, <1>7 DEF Contents
  <2> QED
    BY <1>6, <2>1
<1>8. ASSUME NEW f \in Names, f # stream PROVE Contents(f)' = Contents(f)
  <2>1. disk'[f] = disk[f]
    BY <1>2, <1>4, <1>8 DEF LoggerTypes
  <2> QED
    BY <1>1, <1>8, <2>1 DEF Contents
<1> QED
  BY <1>3, <1>7, <1>8 DEF new

LEMMA PieceStep ==
  ASSUME LineInv, [Next]_vars, NEW t \in Threads, WritePiece(t)
  PROVE  LineInv'
<1> DEFINE new == [ by |-> t, part |-> piece ]
<1>1. /\ pc[t] = "write" /\ stream \in Names /\ mutex = t
      /\ UNCHANGED << stream, mutex >>
      /\ \A u \in Threads \ {t} : pc[u] \notin Held
  BY WriterStream DEF WritePiece, Goes
<1>2. LoggerTypes' /\ LogInv' /\ LoggerTypes
  BY LoggerTypesStep, LogStep DEF LineInv
<1>3. new \in Piece /\ new.by = t /\ new.part = piece /\ piece \in 1 .. 4
  BY <1>2 DEF LoggerTypes, Piece, Pieces
<1>4. piece' = IF piece = 4 THEN 1 ELSE piece + 1
  BY DEF WritePiece, NextPiece
<1>5. /\ Contents(stream)' = Append(Contents(stream), new)
      /\ \A f \in Names \ {stream} : Contents(f)' = Contents(f)
  BY <1>1, PieceBehind
<1> HIDE DEF new
<1>6. /\ Lines(Contents(stream))
      /\ IF piece = 1 THEN Ended(Contents(stream)) ELSE Within(Contents(stream), t, piece)
  BY <1>1 DEF LineInv
<1>7. /\ Lines(Append(Contents(stream), new))
      /\ IF piece = 4 THEN Ended(Append(Contents(stream), new))
                      ELSE Within(Append(Contents(stream), new), t, piece + 1)
  <2>1. Contents(stream) \in Seq(Piece)
    BY <1>1, <1>2, ContentsType
  <2> QED
    BY <1>3, <1>6, <2>1, LinesAppend
<1>8. /\ Lines(Contents(stream)')
      /\ IF piece' # 1 THEN Within(Contents(stream)', mutex', piece')
                       ELSE Ended(Contents(stream)')
  <2>1. CASE piece = 4
    BY <1>4, <1>5, <1>7, <2>1
  <2>2. CASE piece # 4
    <3>1. piece' = piece + 1 /\ piece' # 1
      BY <1>3, <1>4, <2>2
    <3> QED
      BY <1>1, <1>5, <1>7, <2>2, <3>1
  <2> QED
    BY <2>1, <2>2
<1>9. piece' # 1 => pc'[t] = "write"
  BY <1>4 DEF WritePiece, Goes, LineInv, LogInv, PcType
<1>10. ASSUME NEW f \in Names, f # stream
       PROVE  Lines(Contents(f)') /\ Ended(Contents(f)')
  BY <1>5, <1>10 DEF LineInv
<1>11. \A f \in Names :
         /\ Lines(Contents(f)')
         /\ IF f = stream' /\ piece' # 1 THEN Within(Contents(f)', mutex', piece')
                                         ELSE Ended(Contents(f)')
  BY <1>1, <1>8, <1>10
<1> QED
  BY <1>2, <1>9, <1>11 DEF LineInv

\* fflush moves the buffer behind the file: the reader finds the same.
LEMMA FlushKeeps ==
  ASSUME LineInv, [Next]_vars, NEW t \in Threads, Flush(t), NEW f \in Names
  PROVE  Contents(f)' = Contents(f)
<1>1. LoggerTypes' /\ LoggerTypes
  BY LoggerTypesStep DEF LineInv
<1>2. /\ buffer' = << >> /\ disk' = [ disk EXCEPT ![stream] = @ \o buffer ]
      /\ stream' = stream
  BY DEF Flush
<1>3. disk'[f] \o << >> = disk'[f]
  BY <1>1, ConcatEmptySeq DEF LoggerTypes
<1>4. disk'[f] = IF f = stream THEN disk[f] \o buffer ELSE disk[f]
  BY <1>1, <1>2 DEF LoggerTypes
<1> QED
  BY <1>2, <1>3, <1>4 DEF Contents

LEMMA FlushStep ==
  ASSUME LineInv, [Next]_vars, NEW t \in Threads, Flush(t)
  PROVE  LineInv'
<1>1. /\ pc[t] = "flush" /\ mutex = t /\ UNCHANGED << stream, mutex, piece >>
      /\ \A u \in Threads \ {t} : pc[u] \notin Held
  BY WriterStream DEF Flush, Goes
<1>2. LoggerTypes' /\ LogInv'
  BY LoggerTypesStep, LogStep DEF LineInv
<1>3. piece = 1
  BY <1>1 DEF LineInv, Held
<1> QED
  BY <1>1, <1>2, <1>3, FlushKeeps DEF LineInv

LEMMA LineCallStep ==
  ASSUME LineInv, [Next]_vars, NEW t \in Threads, LoggerCalls(t)
  PROVE  LineInv'
<1>1. CASE \/ \E level \in Levels : TestLevel(t, level) \/ logger_set_log_level(t, level)
           \/ \E enable \in BOOLEAN : logger_enable(t, enable)
           \/ TestEnabled(t)
  <2>1. UNCHANGED << piece, disk, buffer, stream, mutex >>
    BY <1>1 DEF TestLevel, logger_set_log_level, logger_enable, TestEnabled, library
  <2>2. \A u \in Threads : pc[u] = "write" => pc'[u] = "write"
    BY <1>1 DEF TestLevel, logger_set_log_level, logger_enable, TestEnabled, Goes,
       LineInv, LogInv, PcType
  <2> QED
    BY <2>1, <2>2, LinesStill
<1>2. ASSUME NEW level, NEW name, LockAndClose(t, name, level) PROVE LineInv'
  BY <1>2, LinesClosed DEF LockAndClose
<1>3. CASE Fopen(t) \/ SetLevel(t) \/ SetEnabled(t) \/ Unlock(t)
  <2>1. /\ pc[t] \in Held \ { "write", "flush" }
        /\ UNCHANGED << piece, disk, buffer >>
    BY <1>3 DEF Fopen, SetLevel, SetEnabled, Unlock, Goes, Held, library
  <2> QED
    BY <2>1, LinesHeld
<1>4. CASE Lock(t)
  <2>1. mutex = Unlocked /\ UNCHANGED << piece, library >>
    BY <1>4 DEF Lock
  <2> QED
    BY <2>1, LinesClosed
<1> QED
  BY <1>1, <1>2, <1>3, <1>4, PieceStep, FlushStep
  DEF LoggerCalls, LoggerBegin, LoggerContinue

LEMMA LineStep ==
  ASSUME LineInv, [Next]_vars
  PROVE  LineInv'
<1>1. CASE UNCHANGED << pc, loggerVars >>
  BY <1>1, LinesStill DEF loggerVars, library
<1>2. CASE InitLogger
  BY <1>2, LinesClosed DEF InitLogger, LockAndClose
<1>3. CASE CleanUpLogger
  BY <1>3, LinesClosed DEF CleanUpLogger, logger_destroy
<1>4. ASSUME NEW t \in Threads, LoggerCalls(t) PROVE LineInv'
  BY <1>4, LineCallStep
<1>5. ASSUME NEW t \in Threads, ConfigCalls(t) \/ ClockCalls(t) PROVE LineInv'
  <2>1. UNCHANGED << piece, disk, buffer, stream, mutex >>
    BY <1>5 DEF ConfigCalls, ClockCalls, loggerVars, library
  <2>2. /\ "write" \notin {"idle"} \union ConfigPhases
        /\ "write" \notin {"idle"} \union ClockPhases
    BY DEF ConfigPhases, ClockPhases
  <2>3. pc[t] # "write" /\ \E phase : pc' = [ pc EXCEPT ![t] = phase ]
    BY <1>5, <2>2, ConfigMoves, ClockMoves DEF Moves
  <2>4. \A u \in Threads : pc[u] = "write" => pc'[u] = "write"
    BY <2>3 DEF LineInv, LogInv, PcType
  <2> QED
    BY <2>1, <2>4, LinesStill
<1>6. \/ UNCHANGED << pc, loggerVars >> \/ InitLogger \/ CleanUpLogger
      \/ \E t \in Threads : LoggerCalls(t) \/ ConfigCalls(t) \/ ClockCalls(t)
  BY DEF Next, MainSteps, SystemInit, LoadFirst, InitFails, InitReturns, NoInit, Reload,
     ReloadReturns, CleanUpConfig, LoadReturns, LoadGoesOn, ConfigLoad, Realloc, Store,
     EndOfFile, TimePasses, Tick, config_load, config_destroy, system_init, vars, shared
<1> QED
  BY <1>1, <1>2, <1>3, <1>4, <1>5, <1>6

LEMMA LineInit == Init => LineInv
<1> SUFFICES ASSUME Init PROVE LineInv
  OBVIOUS
<1>1. LoggerTypes /\ LogInv
  BY TypeInit, LogInit DEF TypeInv
<1>2. piece = 1 /\ stream = NULL /\ \A f \in Names : disk[f] = << >>
  BY DEF Init, LoggerInit
<1>3. \A f \in Names : Contents(f) = << >>
  BY <1>2, NamesAssumption DEF Contents
<1>4. Lines(<< >>) /\ Ended(<< >>)
  BY EmptySeq DEF Lines, Ended
<1> QED
  BY <1>1, <1>2, <1>3, <1>4 DEF LineInv

\* Whole lines, one after the other, are what WholeLines asks for.
LEMMA LinesAreWhole ==
  ASSUME LineInv
  PROVE  WholeLines
<1> SUFFICES ASSUME NEW f \in Names, NEW j \in DOMAIN Contents(f)
             PROVE  /\ Contents(f)[j].part > 1 =>
                         /\ j > 1
                         /\ Contents(f)[j - 1] = [ Contents(f)[j] EXCEPT !.part = @ - 1 ]
                    /\ Contents(f)[j].part < 4 =>
                         IF j < Len(Contents(f))
                         THEN Contents(f)[j + 1] = [ Contents(f)[j] EXCEPT !.part = @ + 1 ]
                         ELSE f = stream /\ mutex = Contents(f)[j].by
  BY DEF WholeLines
<1> DEFINE text == Contents(f)
           n == Len(text)
<1>1. text \in Seq(Piece) /\ n \in Nat /\ j \in 1 .. n /\ Lines(text) /\ text # << >>
  BY ContentsType, LenProperties, EmptySeq DEF LineInv
<1>2. \A i \in 1 .. n : /\ text[i] \in [ by : Threads, part : 1 .. 4 ]
                        /\ text[i].part \in 1 .. 4
  <2>1. \A i \in 1 .. n : text[i] \in Piece
    BY <1>1, ElementOfSeq
  <2> QED
    BY <2>1 DEF Piece, Pieces
<1>3. IF f = stream /\ piece # 1 THEN Within(text, mutex, piece) ELSE Ended(text)
  BY DEF LineInv
<1> HIDE DEF text
<1>4. ASSUME text[j].part > 1
      PROVE  j > 1 /\ text[j - 1] = [ text[j] EXCEPT !.part = @ - 1 ]
  <2>1. j # 1
    BY <1>1, <1>4 DEF Lines
  <2> DEFINE i == j - 1
  <2>2. i \in 1 .. n /\ i \in 1 .. n - 1 /\ i + 1 = j
    BY <1>1, <2>1
  <2> HIDE DEF i
  <2>3. IF text[i].part < 4
        THEN text[i + 1].by = text[i].by /\ text[i + 1].part = text[i].part + 1
        ELSE text[i + 1].part = 1
    BY <1>1, <2>2 DEF Lines
  <2>4. text[j].by = text[i].by /\ text[i].part = text[j].part - 1
    BY <1>2, <1>4, <2>2, <2>3
  <2>5. text[i] = [ text[j] EXCEPT !.part = @ - 1 ]
    BY <1>1, <1>2, <2>2, <2>4
  <2> QED
    BY <1>1, <2>1, <2>5 DEF i
<1>5. ASSUME text[j].part < 4, j < n
      PROVE  text[j + 1] = [ text[j] EXCEPT !.part = @ + 1 ]
  <2>1. j \in 1 .. n - 1 /\ j + 1 \in 1 .. n
    BY <1>1, <1>5
  <2>2. text[j + 1].by = text[j].by /\ text[j + 1].part = text[j].part + 1
    BY <1>1, <1>5, <2>1 DEF Lines
  <2> QED
    BY <1>1, <1>2, <2>1, <2>2
<1>6. ASSUME text[j].part < 4, ~ j < n
      PROVE  f = stream /\ mutex = text[j].by
  <2>1. j = n
    BY <1>1, <1>6
  <2> QED
    BY <1>1, <1>2, <1>3, <1>6, <2>1 DEF Within, Ended
<1> QED
  BY <1>4, <1>5, <1>6 DEF text

\* The lines of different threads are never mixed, whoever reopens the file, switches
\* the logger or destroys it: only the last line of the file in use can be incomplete,
\* while the thread that writes it has the mutex (logger.c:52-94).
THEOREM LogIsWhole == Spec => []WholeLines
BY LineInit, LineStep, LinesAreWhole, PTL DEF Spec

\* What the reader of a file finds is what he found before, with no more than a piece
\* behind it.
LEMMA OnlyGrows ==
  ASSUME LineInv, [Next]_vars, NEW f \in Names
  PROVE  \/ Contents(f)' = Contents(f)
         \/ \E new \in Piece : Contents(f)' = Append(Contents(f), new)
<1>1. ASSUME mutex = Unlocked, Closed \/ UNCHANGED library
      PROVE  Contents(f)' = Contents(f)
  <2>1. buffer = << >> /\ Contents(f) = disk[f] /\ disk[f] \o << >> = disk[f]
    BY <1>1, NobodyLogs, ContentsOnDisk, ConcatEmptySeq DEF LineInv, LoggerTypes
  <2>2. buffer' = << >> /\ disk'[f] = disk[f]
    BY <1>1, <2>1 DEF Closed, library, LineInv, LoggerTypes
  <2> QED
    BY <2>1, <2>2 DEF Contents
<1>2. ASSUME NEW t \in Threads, Fopen(t) PROVE Contents(f)' = Contents(f)
  <2>1. \A u \in Threads : pc[u] \notin { "write", "flush" }
    BY <1>2, AloneLogs DEF Fopen, Goes, LineInv, Held
  <2>2. buffer = << >> /\ disk' = disk /\ buffer' = buffer
    BY <1>2, <2>1, NobodyWrites DEF Fopen
  <2>3. Contents(f) = disk[f] /\ disk[f] \o << >> = disk[f]
    BY <2>2, ContentsOnDisk, ConcatEmptySeq DEF LineInv, LoggerTypes
  <2> QED
    BY <2>2, <2>3 DEF Contents
<1>3. CASE UNCHANGED library
  BY <1>3 DEF Contents, library
<1>4. ASSUME NEW t \in Threads, WritePiece(t)
      PROVE  \/ Contents(f)' = Contents(f)
             \/ \E new \in Piece : Contents(f)' = Append(Contents(f), new)
  BY <1>4, PieceBehind
<1>5. ASSUME NEW t \in Threads, Flush(t) PROVE Contents(f)' = Contents(f)
  BY <1>5, FlushKeeps
<1>6. \/ mutex = Unlocked /\ (Closed \/ UNCHANGED library)
      \/ UNCHANGED library
      \/ \E t \in Threads : Fopen(t) \/ WritePiece(t) \/ Flush(t)
  <2>1. CASE MainSteps
    BY <2>1 DEF MainSteps, SystemInit, LoadFirst, InitLogger, InitFails, InitReturns,
       NoInit, Reload, ReloadReturns, CleanUpConfig, CleanUpLogger, LoadReturns,
       LockAndClose, logger_destroy, loggerVars
  <2>2. ASSUME NEW t \in Threads, LoggerCalls(t)
        PROVE  \/ mutex = Unlocked /\ (Closed \/ UNCHANGED library)
               \/ UNCHANGED library
               \/ Fopen(t) \/ WritePiece(t) \/ Flush(t)
    BY <2>2 DEF LoggerCalls, LoggerBegin, LoggerContinue, TestLevel, LockAndClose,
       logger_set_log_level, logger_enable, SetLevel, SetEnabled, Unlock, TestEnabled, Lock
  <2> QED
    BY <2>1, <2>2 DEF Next, LoadGoesOn, TimePasses, ConfigCalls, ClockCalls, vars,
       loggerVars
<1> QED
  BY <1>1, <1>2, <1>3, <1>4, <1>5, <1>6

\* Nothing that was written is lost or overwritten while the library keeps it in the
\* buffer, when the file is closed, opened again or exchanged for another, or when the
\* logger is destroyed (logger.c:19-23, 65-93, 97-103).
THEOREM LogGrows ==
  Spec => [][ \A f \in Names :
                \/ Contents(f)' = Contents(f)
                \/ \E new \in Piece : Contents(f)' = Append(Contents(f), new) ]_vars
<1> DEFINE Grows == \A f \in Names :
                      \/ Contents(f)' = Contents(f)
                      \/ \E new \in Piece : Contents(f)' = Append(Contents(f), new)
<1>1. LineInv /\ [Next]_vars => [ Grows ]_vars
  BY OnlyGrows
<1>2. LineInv /\ [Next]_vars => LineInv'
  BY LineStep
<1> QED
  BY <1>1, <1>2, LineInit, PTL DEF Spec

-----------------------------------------------------------------------------
\* The locks

\* The thread that searches the table has config.mutex, and no other.
ScanLock == \A t \in Threads : pc[t] = "scan" <=> config_mutex = t

LEMMA ScanLockStep ==
  ASSUME PcType, ScanLock, [Next]_vars
  PROVE  ScanLock'
<1>1. ASSUME NEW t \in Threads, NEW from, NEW to \in SUBSET Phases, Moves(t, from, to),
             "scan" \notin from, "scan" \notin to, UNCHANGED config_mutex
      PROVE  ScanLock'
  <2>1. pc'[t] # "scan" /\ pc[t] # "scan" /\ \A u \in Threads \ {t} : pc'[u] = pc[u]
    BY <1>1, MovesType DEF Moves
  <2> QED
    BY <1>1, <2>1 DEF ScanLock
<1>2. CASE UNCHANGED << pc, config_mutex >>
  BY <1>2 DEF ScanLock
<1>3. ASSUME NEW t \in Threads, ConfigCalls(t) PROVE ScanLock'
  <2>1. \A u \in Threads \ {t} : pc'[u] = pc[u]
    BY <1>3, ConfigMoves, MovesType DEF Phases
  <2>2. \/ pc'[t] = "scan" /\ config_mutex' = t
           /\ config_mutex \in { t, Unlocked }
        \/ pc[t] = "scan" /\ pc'[t] # "scan" /\ config_mutex' = Unlocked
        \/ pc[t] # "scan" /\ pc'[t] # "scan" /\ config_mutex' = config_mutex
    <3>1. CASE \E key \in Keys : GetLock(t, key)
      BY <3>1 DEF GetLock, Goes, PcType
    <3>2. CASE Scan(t)
      <4>1. pc[t] = "scan" /\ config_mutex = t
        BY <3>2 DEF Scan, Goes, ScanLock
      <4> QED
        BY <3>2, <4>1 DEF Scan, Goes, PcType
    <3>3. CASE Found(t) \/ ReadValue(t)
      BY <3>3 DEF Found, ReadValue, Goes, PcType
    <3> QED
      BY <1>3, <3>1, <3>2, <3>3 DEF ConfigCalls, ConfigBegin, ConfigContinue
  <2> QED
    BY <2>1, <2>2, ThreadsAssumption DEF ScanLock
<1>4. ASSUME NEW t \in Threads, LoggerCalls(t) \/ ClockCalls(t) PROVE ScanLock'
  <2>1. UNCHANGED config_mutex
    BY <1>4 DEF LoggerCalls, ClockCalls, configVars
  <2>2. /\ {"idle"} \union LoggerPhases \in SUBSET Phases
        /\ {"idle"} \union ClockPhases \in SUBSET Phases
        /\ "scan" \notin {"idle"} \union LoggerPhases
        /\ "scan" \notin {"idle"} \union ClockPhases
    BY DEF Phases, LoggerPhases, ClockPhases
  <2> QED
    BY <1>1, <1>2, <1>4, <2>1, <2>2, LoggerMoves, ClockMoves
<1>5. CASE InitLogger
  <2>1. Moves(Main, {"idle"}, {"open"}) /\ UNCHANGED config_mutex
    BY <1>5 DEF InitLogger, LockAndClose, Goes, Moves
  <2>2. {"open"} \in SUBSET Phases
    BY DEF Phases, LoggerPhases
  <2> QED
    BY <1>1, <2>1, <2>2, ThreadsAssumption
<1>6. \/ UNCHANGED << pc, config_mutex >> \/ InitLogger
      \/ \E t \in Threads : LoggerCalls(t) \/ ConfigCalls(t) \/ ClockCalls(t)
  BY DEF Next, MainSteps, SystemInit, LoadFirst, InitFails, InitReturns, NoInit, Reload,
     ReloadReturns, CleanUpConfig, CleanUpLogger, LoadReturns, LoadGoesOn, ConfigLoad,
     Realloc, Store, EndOfFile, TimePasses, Tick, config_load, config_destroy,
     logger_destroy, system_init, vars, shared, configVars
<1> QED
  BY <1>2, <1>3, <1>4, <1>5, <1>6

\* Once the threads have been joined, nobody enters the library any more.
Joined == stage \in { "destroy", "done" } => AllIdle

LEMMA JoinedStep ==
  ASSUME Joined, [Next]_vars
  PROVE  Joined'
<1>1. CASE stage' \in { "destroy", "done" } /\ stage' # stage
  <2>1. CleanUpConfig \/ CleanUpLogger
    BY <1>1 DEF Next, MainSteps, SystemInit, LoadFirst, InitLogger, InitFails,
       InitReturns, NoInit, Reload, ReloadReturns, LoadGoesOn, TimePasses, LoggerCalls,
       ConfigCalls, ClockCalls, Stage, vars, main
  <2>2. AllIdle /\ UNCHANGED pc
    BY <2>1 DEF CleanUpConfig, CleanUpLogger, Stage, Joined, config_destroy,
       logger_destroy
  <2> QED
    BY <2>2 DEF Joined, AllIdle
<1>2. CASE stage' \in { "destroy", "done" } /\ stage' = stage
  <2>1. AllIdle /\ stage \notin { "running", "load" }
    BY <1>2 DEF Joined
  <2>2. UNCHANGED pc
    BY <2>1, ThreadsAssumption
    DEF Next, MainSteps, SystemInit, LoadFirst, InitLogger, InitFails, InitReturns,
       NoInit, Reload, ReloadReturns, CleanUpConfig, CleanUpLogger, LoadGoesOn,
       ConfigLoad, Realloc, Store, EndOfFile, TimePasses, Tick, LoggerCalls, ConfigCalls,
       ClockCalls, Free, LoggerContinue, Fopen, SetLevel, SetEnabled, Unlock, TestEnabled,
       Lock, WritePiece, Flush, ConfigContinue, Scan, Found, ReadValue, ClockContinue,
       LazyRead, LazySet, Since, Elapsed, Goes, Stage, AllIdle, system_init,
       config_destroy, logger_destroy, shared, vars
  <2> QED
    BY <2>1, <2>2 DEF Joined, AllIdle
<1> QED
  BY <1>1, <1>2 DEF Joined

\* No path through the logger or the configuration keeps a lock: when every thread is
\* out of the library both are free, and rjos_cleanup destroys them free and unused
\* (logger.c:16-104, config.c:83-98, rjos.c:14-17).
THEOREM LocksReturned ==
  Spec => [](/\ AllIdle => mutex = Unlocked /\ config_mutex = Unlocked
             /\ stage \in { "destroy", "done" } => AllIdle)
<1> DEFINE Inv == TypeInv /\ LogInv /\ ScanLock /\ Joined
<1>1. Init => Inv
  <2>1. Init => ScanLock /\ Joined
    BY ThreadsAssumption DEF Init, ConfigInit, ScanLock, Joined
  <2> QED
    BY <2>1, TypeInit, LogInit
<1>2. TypeInv /\ [Next]_vars => TypeInv'
  BY LoggerTypesStep, CfgTypesStep, ClockTypesStep, MainTypesStep, PcStep DEF TypeInv
<1>3. Inv /\ [Next]_vars => Inv'
  BY <1>2, LogStep, ScanLockStep, JoinedStep DEF TypeInv
<1>4. ASSUME Inv
      PROVE  /\ AllIdle => mutex = Unlocked /\ config_mutex = Unlocked
             /\ stage \in { "destroy", "done" } => AllIdle
  <2>1. mutex \in Threads \union { Unlocked } /\ config_mutex \in Threads \union { Unlocked }
    BY <1>4 DEF TypeInv, LoggerTypes, CfgTypes, ConfigTypes
  <2>2. ASSUME AllIdle PROVE mutex = Unlocked /\ config_mutex = Unlocked
    BY <1>4, <2>1, <2>2 DEF AllIdle, LogInv, HasMutex, Held, ScanLock
  <2> QED
    BY <1>4, <2>2 DEF Joined
<1> QED
  BY <1>1, <1>3, <1>4, PTL DEF Spec
=============================================================================
