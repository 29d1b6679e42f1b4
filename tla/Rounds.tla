------------------------------- MODULE Rounds -------------------------------
(***************************************************************************)
(* What both schedulers promise the program, without counters that wrap,   *)
(* threads, locks or an order of execution: time is cut into ticks, and a  *)
(* tick runs each task that has waited its interval, runs it once, and     *)
(* does not end before all of its runs have ended.                         *)
(***************************************************************************)
EXTENDS Integers

CONSTANTS Slots,     \* the places of the task table
          Horizon    \* waits of this length or more are beyond the promise

VARIABLES clock,
          looping,   \* the scheduler has been started and has not ended
          in_tick,
          tick_at,   \* the time at which the tick began
          count,     \* how many places are taken, from the first
          interval,
          last,      \* the tick of the last run of each entry, or its creation
          run        \* the state of each entry in the tick

vars  == << clock, looping, in_tick, tick_at, count, interval, last, run >>
table == << count, interval, last >>

States == { "waiting", "running", "recorded", "done" }

AllWaiting == [ k \in Slots |-> "waiting" ]

Waited(k) == tick_at - last[k]

Init ==
  /\ clock \in Nat
  /\ looping = FALSE
  /\ in_tick = FALSE
  /\ tick_at = 0
  /\ count = 0
  /\ interval = [ k \in Slots |-> 0 ]
  /\ last = [ k \in Slots |-> 0 ]
  /\ run = AllWaiting

\* Outside the loop the program fills, reorders and empties the table, and starts
\* the loop.
Configure ==
  /\ ~ looping
  /\ looping' \in BOOLEAN
  /\ UNCHANGED << clock, in_tick, tick_at, run >>

\* Only between two ticks does the loop end.
Leave ==
  /\ looping /\ ~ in_tick
  /\ looping' = FALSE
  /\ UNCHANGED << clock, in_tick, tick_at, table, run >>

BeginTick ==
  /\ looping /\ ~ in_tick
  /\ in_tick' = TRUE
  /\ tick_at' = clock
  /\ UNCHANGED << clock, looping, table, run >>

\* The entry is not run a second time in the tick, nor before its interval.
Start(k) ==
  /\ in_tick
  /\ k =< count
  /\ run[k] = "waiting"
  /\ Waited(k) >= interval[k]
  /\ run' = [ run EXCEPT ![k] = "running" ]
  /\ UNCHANGED << clock, looping, in_tick, tick_at, table >>

\* The run could not be started and is left for another tick.
GiveUp(k) ==
  /\ in_tick
  /\ k =< count
  /\ run[k] = "waiting"
  /\ Waited(k) >= interval[k]
  /\ run' = [ run EXCEPT ![k] = "done" ]
  /\ UNCHANGED << clock, looping, in_tick, tick_at, table >>

Record(k) ==
  /\ run[k] = "running"
  /\ run' = [ run EXCEPT ![k] = "recorded" ]
  /\ last' = [ last EXCEPT ![k] = tick_at ]
  /\ UNCHANGED << clock, looping, in_tick, tick_at, count, interval >>

Finish(k) ==
  /\ run[k] = "recorded"
  /\ run' = [ run EXCEPT ![k] = "done" ]
  /\ UNCHANGED << clock, looping, in_tick, tick_at, table >>

\* Nobody is running, and who has not run had not waited long enough.
EndTick ==
  /\ in_tick
  /\ \A k \in Slots : run[k] \in { "waiting", "done" }
  /\ \A k \in Slots :
       k =< count /\ run[k] = "waiting" => \/ Waited(k) < interval[k]
                                           \/ Waited(k) >= Horizon
  /\ in_tick' = FALSE
  /\ tick_at' = 0
  /\ run' = AllWaiting
  /\ UNCHANGED << clock, looping, table >>

TimePasses ==
  /\ clock' = clock + 1
  /\ UNCHANGED << looping, in_tick, tick_at, table, run >>

Next ==
  \/ Configure \/ Leave \/ BeginTick \/ EndTick \/ TimePasses
  \/ \E k \in Slots : Start(k) \/ GiveUp(k) \/ Record(k) \/ Finish(k)

Spec == Init /\ [][Next]_vars
=============================================================================
