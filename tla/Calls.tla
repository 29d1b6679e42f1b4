------------------------------- MODULE Calls -------------------------------
(***************************************************************************)
(* The threads of a program that uses the global parts of RJOS (the        *)
(* logger, the configuration and the clock): each is in at most one        *)
(* function of the library, and pc says where.                             *)
(***************************************************************************)
EXTENDS Integers, Sequences

CONSTANTS Threads,
          Main,       \* the thread that calls rjos_init and rjos_cleanup
          NULL,       \* no file, no key, no entry
          Unlocked,   \* nobody has a mutex
          MaxCalls    \* bound: calls of the library in a behaviour

ASSUME ThreadsAssumption == Main \in Threads /\ Unlocked \notin Threads
ASSUME CallsAssumption   == MaxCalls \in Nat

VARIABLES pc, calls

\* Thread t calls a function.
Call(t) ==
  /\ pc[t] = "idle"
  /\ calls < MaxCalls
  /\ calls' = calls + 1

\* Thread t goes from a phase to the next.
Goes(t, from, to) == pc[t] = from /\ pc' = [ pc EXCEPT ![t] = to ]

AllIdle == \A t \in Threads : pc[t] = "idle"
=============================================================================
