---------------------------- MODULE SystemClock ----------------------------
(***************************************************************************)
(* The uptime of RJOS, system.c: one start time for the whole program, set *)
(* by system_init or by the first micros64 that finds it zero, and read    *)
(* without a lock.  The monotonic clock of the system is taken to answer.  *)
(***************************************************************************)
EXTENDS Calls

CONSTANTS NsPerUs,   \* 1000, smaller in the checked instance
          MaxNow     \* bound: the time at which the behaviour is cut

ASSUME ClockAssumption == NsPerUs \in Nat \ {0} /\ MaxNow \in Nat \ {0}

VARIABLES now,             \* the monotonic clock, in nanoseconds since the system's boot
          start_time_ns,
          ns,              \* per thread: the time that it read last, in this call
          uptime           \* per thread: what its last micros64 returned

clockVars == << now, start_time_ns, ns, uptime >>

ClockPhases == { "lazy_read", "lazy_set", "since", "elapsed" }

ClockInit ==
  /\ now = 1
  /\ start_time_ns = 0
  /\ ns = [ t \in Threads |-> 0 ]
  /\ uptime = [ t \in Threads |-> 0 ]

Tick ==
  /\ now < MaxNow
  /\ now' = now + 1
  /\ UNCHANGED << pc, calls, start_time_ns, ns, uptime >>

system_init ==
  /\ start_time_ns' = now
  /\ UNCHANGED << pc, calls, now, ns, uptime >>

\* Variant with a bug: every call begins a new uptime.
Micros_Restarts(t) ==
  /\ Call(t)
  /\ Goes(t, "idle", "lazy_read")
  /\ UNCHANGED clockVars

micros64(t) ==
  /\ Call(t)
  /\ Goes(t, "idle", IF start_time_ns = 0 THEN "lazy_read" ELSE "since")
  /\ UNCHANGED clockVars

LazyRead(t) ==
  /\ Goes(t, "lazy_read", "lazy_set")
  /\ ns' = [ ns EXCEPT ![t] = now ]
  /\ UNCHANGED << calls, now, start_time_ns, uptime >>

LazySet(t) ==
  /\ Goes(t, "lazy_set", "since")
  /\ start_time_ns' = ns[t]
  /\ UNCHANGED << calls, now, ns, uptime >>

\* The start time first, then the clock: the difference is not negative.
Since(t) ==
  /\ Goes(t, "since", "elapsed")
  /\ ns' = [ ns EXCEPT ![t] = start_time_ns ]
  /\ UNCHANGED << calls, now, start_time_ns, uptime >>

Elapsed(t) ==
  /\ Goes(t, "elapsed", "idle")
  /\ uptime' = [ uptime EXCEPT ![t] = (now - ns[t]) \div NsPerUs ]
  /\ ns' = [ ns EXCEPT ![t] = 0 ]
  /\ UNCHANGED << calls, now, start_time_ns >>

ClockContinue(t) == LazyRead(t) \/ LazySet(t) \/ Since(t) \/ Elapsed(t)

ClockTypes ==
  /\ now \in 1 .. MaxNow
  /\ start_time_ns \in 0 .. now
  /\ ns \in [Threads -> 0 .. now]
  /\ uptime \in [Threads -> 0 .. MaxNow]
=============================================================================
