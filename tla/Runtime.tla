------------------------------ MODULE Runtime ------------------------------
(***************************************************************************)
(* A program around the global parts of RJOS, rjos.c: it calls rjos_init,  *)
(* or does without it, then its threads log, ask the configuration and     *)
(* read the clock in any interleaving, while the main thread may load      *)
(* another configuration file; the main thread joins the others and calls  *)
(* rjos_cleanup.                                                           *)
(***************************************************************************)
EXTENDS Logger, Config, SystemClock

VARIABLES
  stage,      \* the progress of the main thread
  lazy,       \* the program did not call rjos_init
  reloaded    \* history: config_load was called while the threads ran

shared == << pc, calls >>
main   == << stage, lazy, reloaded >>
vars   == << shared, loggerVars, configVars, clockVars, main >>

Stages == { "start", "load", "logging", "running", "destroy", "done", "exited" }

Init ==
  /\ pc = [ t \in Threads |-> "idle" ] /\ calls = 0
  /\ LoggerInit /\ ConfigInit /\ ClockInit
  /\ stage = "start" /\ lazy = FALSE /\ reloaded = FALSE

Stage(from, to) == stage = from /\ stage' = to /\ UNCHANGED << lazy, reloaded >>

-----------------------------------------------------------------------------
\* rjos_init

SystemInit ==
  /\ Stage("start", "load")
  /\ system_init
  /\ UNCHANGED << loggerVars, configVars >>

LoadFirst ==
  /\ stage = "load"
  /\ config_load
  /\ UNCHANGED << loggerVars, clockVars, main >>

\* config_load returns 0 or -1; the entries that were read before an error stay.
LoadReturns ==
  /\ loading \in { "loaded", "failed" }
  /\ loading' = "no"
  /\ UNCHANGED << shared, entries, num_entries, config_mutex, block, table, line, get,
                  dangling, loggerVars, clockVars >>

InitLogger ==
  /\ Stage("load", "logging")
  /\ loading = "loaded"
  /\ loading' = "no"
  /\ \E name \in Names : LockAndClose(Main, name, LOG_LEVEL_DEBUG)
  /\ UNCHANGED << entries, num_entries, config_mutex, block, table, line, get, dangling,
                  clockVars >>

\* Without the configuration or the log file the program exits.
InitFails ==
  /\ \/ Stage("load", "exited") /\ loading = "failed"
     \/ Stage("logging", "exited") /\ pc[Main] = "idle" /\ file = NULL
  /\ UNCHANGED << shared, loggerVars, configVars, clockVars >>

InitReturns ==
  /\ Stage("logging", "running")
  /\ pc[Main] = "idle" /\ file # NULL
  /\ UNCHANGED << shared, loggerVars, configVars, clockVars >>

\* The other way into the program's work.
NoInit ==
  /\ stage = "start"
  /\ stage' = "running"
  /\ lazy' = TRUE
  /\ UNCHANGED << shared, loggerVars, configVars, clockVars, reloaded >>

-----------------------------------------------------------------------------
\* The work.  A thread calls one function at a time; config_load is the main thread's.

Free(t) == stage = "running" /\ (t = Main => loading = "no")

Reload ==
  /\ stage = "running" /\ pc[Main] = "idle"
  /\ config_load
  /\ reloaded' = TRUE
  /\ UNCHANGED << loggerVars, clockVars, stage, lazy >>

ReloadReturns == stage = "running" /\ LoadReturns /\ UNCHANGED main

LoadGoesOn == ConfigLoad /\ UNCHANGED << loggerVars, clockVars, main >>

LoggerCalls(t) ==
  /\ \/ Free(t) /\ LoggerBegin(t)
     \/ LoggerContinue(t)
  /\ UNCHANGED << configVars, clockVars, main >>

ConfigCalls(t) ==
  /\ \/ Free(t) /\ ConfigBegin(t)
     \/ ConfigContinue(t)
  /\ UNCHANGED << loggerVars, clockVars, main >>

ClockCalls(t) ==
  /\ \/ Free(t) /\ micros64(t)
     \/ ClockContinue(t)
  /\ UNCHANGED << loggerVars, configVars, main >>

TimePasses == Tick /\ UNCHANGED << loggerVars, configVars, main >>

-----------------------------------------------------------------------------
\* rjos_cleanup, when the other threads have ended.  Both functions destroy their
\* mutex, and nobody uses it again.

CleanUpConfig ==
  /\ Stage("running", "destroy")
  /\ AllIdle /\ loading = "no"
  /\ config_destroy
  /\ UNCHANGED << loggerVars, clockVars >>

CleanUpLogger ==
  /\ Stage("destroy", "done")
  /\ mutex = Unlocked
  /\ logger_destroy
  /\ UNCHANGED << configVars, clockVars >>

-----------------------------------------------------------------------------
MainSteps ==
  \/ SystemInit \/ LoadFirst \/ InitLogger \/ InitFails \/ InitReturns \/ NoInit
  \/ Reload \/ ReloadReturns \/ CleanUpConfig \/ CleanUpLogger

Next ==
  \/ MainSteps \/ LoadGoesOn \/ TimePasses
  \/ \E t \in Threads : LoggerCalls(t) \/ ConfigCalls(t) \/ ClockCalls(t)

Spec == Init /\ [][Next]_vars

\* A call that has begun goes on.
GoesOn(t) ==
  \/ LoggerContinue(t) /\ UNCHANGED << configVars, clockVars, main >>
  \/ ConfigContinue(t) /\ UNCHANGED << loggerVars, clockVars, main >>
  \/ ClockContinue(t) /\ UNCHANGED << loggerVars, configVars, main >>

\* The operating system runs the threads.
Fairness == \A t \in Threads : WF_vars(GoesOn(t))

FairSpec == Spec /\ Fairness

-----------------------------------------------------------------------------
\* The fields of the three static structs and the places in the code have their types,
\* and what micros64 returns is never a difference below zero, which would wrap
\* (system.c:59), whoever sets the start time.
TypeOK ==
  /\ LoggerTypes /\ ConfigTypes /\ ClockTypes
  /\ pc \in [Threads -> {"idle"} \union LoggerPhases \union ConfigPhases
                                 \union ClockPhases]
  /\ calls \in 0 .. MaxCalls
  /\ stage \in Stages /\ lazy \in BOOLEAN /\ reloaded \in BOOLEAN

\* Only a configuration that is loaded while threads run makes config_get read, or
\* return a pointer into, memory that was freed (config.c:57, 88): the load of
\* rjos_init and the cleanup never do.  Until that happens config_get is right although
\* config_load changes the table under it: it finds the first entry with the key,
\* answers NULL only if there is none, and what a key stands for never changes, also
\* when the loading of a file breaks off half way (config.c:57-77, 83-91).
ConfigAnswers ==
  [][ /\ dangling' => reloaded
      /\ ~ dangling' =>
           \A t \in Threads :
             /\ pc[t] = "scan" /\ pc'[t] = "idle" => Lookup(get[t].key) = 0
             /\ pc[t] = "scan" /\ pc'[t] = "found" => get[t].i = Lookup(get[t].key)
      /\ stage' # "destroy" => SubSeq(table', 1, num_entries) = table ]_vars

\* In a program that called rjos_init the uptime of a thread never goes back; without
\* it two threads that find the start time zero may do that (system.c:51-56).
UptimeMonotone ==
  [][ ~ lazy => \A t \in Threads : uptime'[t] >= uptime[t] ]_vars

\* A function of the library that a thread has called returns.
CallsReturn == \A t \in Threads : pc[t] # "idle" ~> pc[t] = "idle"
=============================================================================
