# RJOS: models and proofs

RJOS is a small C library for embedded-style programs on POSIX systems: two
periodic task schedulers, a millisecond clock, a logger, a configuration table,
drivers for serial ports, UDP sockets and named pipes, and a codec for the
Pelco-D camera protocol. This directory holds TLA+ models of its code, the TLC
configurations that check them, and proofs for TLAPS.

## 1. The system

| Part | Source | State | Operations | What is hard |
|---|---|---|---|---|
| Cooperative scheduler | `scheduler.c` | one static `sched_t` (task table, counts, running flag, hook), `shutdown_requested` | init, add, start, stop, destroy, set hook, signal handler | time passes and signals arrive between any two steps of the loop; callbacks and the hook call back into the API; 32-bit times wrap |
| Threaded scheduler | `scheduler_pt.c` | the caller's `sched_t`, one mutex, an array of thread handles per loop, one context per worker | the same, plus one thread per due task and tick | interleaving of scan, workers and joins; failing `pthread_create`; unlocked reads |
| Task arithmetic | `scheduler.h`, `scheduler_pt.h`, `util/sched_util.c` | - | due test, deadline, statistics, comparison, sort | unsigned wrap-around |
| System clock | `system.c` | the start time | `system_init`, `micros64`, `millis` | lazy initialisation by several threads |
| Logger | `logger.c` | one static logger: file, level, enabled, mutex | init, log, set level, enable, destroy | checks outside the mutex, destroy while in use |
| Configuration | `config.c` | a growing table and a mutex | load, get, destroy | load without the mutex, pointers into the table |
| Serial port | `serial.c` | a struct that mirrors the settings of the kernel's tty | open, settings, read, write, close | failing half way, struct and kernel drifting apart |
| UDP socket | `udp.c` | descriptor, host, port | init over a list of addresses, send, recv, close | descriptors lost, retries without end |
| Named pipe | `ipc.c` | descriptor, path, mode | init, send, recv, close | two processes create, open and unlink one path |
| Pelco-D | `pelco_d.c` | - (pure) | build, validate, encode, decode, angles | checksum, integer conversions |
| Runtime | `rjos.c` | - | init and cleanup of configuration and logger | order against users of both |

The program (the files in `src/example`) calls `rjos_init`, sets up the signal
handlers, fills the table with `sched_add_task`, and stays in `sched_start`
until a signal comes. Both schedulers read time through `millis()` and call the
program's callbacks and log hook; a callback may call the API again. They log
overruns through the logger. Drivers are used from callbacks.

What makes each part correct: a task is never run before its interval has
passed and never skipped once it has; a tick runs a task once; no thread of a
tick survives it; statistics add up; a signal ends the loop (schedulers);
`millis()` never goes back but by wrapping (clock); a line is written whole, by
one thread at a time, to an open file (logger); the first entry of a key is
returned and the pointer stays valid (configuration); no descriptor is lost and
struct and kernel agree (serial, UDP); one FIFO serves both sides (pipe); what
is encoded decodes to the same message and one wrong byte is noticed (Pelco-D).

## 2. The modules

| Module | What it is |
|---|---|
| `SchedTask` | The task record and the arithmetic that both schedulers do on it, modulo `WORD`. |
| `Scheduler` | The cooperative scheduler. |
| `SchedulerPt` | The threaded scheduler: the thread in `sched_start` and one worker per handle. |
| `Rounds` | What both promise, without wrapping counters, threads or locks: ticks, and in each tick one run of each task that has waited its interval. |
| `Calls`, `Logger`, `Config`, `SystemClock` | The global parts of the library, each called by several threads; `Calls` holds the place of each thread. |
| `Runtime` | The program around them: `rjos_init`, the threads' work, `rjos_cleanup`. |
| `Descriptors`, `Serial`, `Udp` | The descriptor table of the process, and the two devices that take numbers from it. |
| `Devices` | A program with a serial port and a socket. |
| `Ipc` | Processes that share one FIFO. |
| `PelcoD` | The functions of `pelco_d.c` as operators. |
| `CameraLink` | A program that uses them over a line with noise, and the camera. |
| `SchedTaskProofs`, `SchedulerProofs`, `SchedulerPtProofs`, `SchedulerPtRounds`, `RuntimeProofs`, `DevicesProofs`, `IpcProofs`, `PelcoDProofs` | The lemmas and theorems. |

### SchedTask

`WORD` stands for 2^32. `IsDue`, `EarlierDue`, `WithDeadline`, `Accounted`,
`Overran` are the expressions of the loop body, kept modulo `WORD` where the
code's `uint32_t` wraps. The record has one field the code lacks, `last_run_at`:
the unwrapped time whose low word is `last_run_ms`. Only properties read it.
`Sortings` gives every order `qsort` may leave, since it is not stable.

### Scheduler

The body of `sched_start` is cut where it reads the clock, calls foreign code or
sleeps, since time passes and signals arrive there: `BeginTick`, then per entry
`SkipTask` or `RunTask`, `CallbackReturns`, `CheckOverrun`, `HookReturns`, and
`EndTick`, `Wake`. While `pc` is `callback` or `hook` the program may call
`sched_stop`, `sched_set_log_hook` and, when `CallbacksAdd` is TRUE,
`sched_add_task`. `handle_signal` may come at any point and interrupts `usleep`.
The history variables keep unwrapped times and the entries served in the tick.

### SchedulerPt

The thread in `sched_start` is `pc`, the workers are `thread[s]`, one for each
handle of `worker_threads`. A critical section is one action when it reads the
clock at most once and calls nothing; the second one of `sched_task_thread`
lasts from `Record` to `Release`, because it reads `millis()` again and calls the
hook. `CallHook` is apart from `CheckOverrun` because the code reads `log_hook`
twice. A failed creation leaves a handle `failed` (the code counts it), and
joining it either returns an error that is ignored or is undefined:
`pc = "undefined"` ends what the model says. The same phase follows a call
through a NULL hook.

### Rounds and the refinement

`Rounds` has a clock, a set of entries with their interval and last run, and a
run state per entry: waiting, running, recorded, done. `Start` needs the real
interval to have passed, `EndTick` needs nobody to be running and nobody waiting
who is due. `Ticks` in each scheduler's module is the refinement mapping: the
table's intervals and unwrapped last runs, `now_at` as the tick's time, and the
run state read off `pc` and `served` (cooperative) or off the phases of the
worker that has the entry (threaded). A thread that could not be created gives
its run up (`GiveUp`). A wait of `WORD` milliseconds or more, 49 days, looks
shorter to the code than it was: `Horizon` excludes it from the promise that
nobody due is passed over, not from the promise that nobody runs early.

### Logger, Config, SystemClock and Runtime

A thread is in at most one function of the library, and `pc[t]` says where.

`Logger`: a section under the mutex is cut where another thread can look.
`logger_log` reads `log_level` and `enabled` without the mutex (`TestLevel`,
`TestEnabled`), so `logger_init` writes them in two steps (`SetLevel`,
`SetEnabled`). A line is four pieces, one per call of stdio; the library keeps each
in the stream's buffer or writes the buffer out. `file` is the pointer in the
struct, `stream` what is really open, so that a stale pointer is visible.

`Config`: `config_load` reads the file line by line and may move the table
when it grows, without the mutex that `config_get` holds. `block` numbers the
memory of the table: a thread that reads in an older block, or uses a pointer into
one, sets `dangling`. The value of an entry is the number of its line; the
cutting of a line into key and value is left out.

`SystemClock`: `micros64` reads the start time, and sets it when it is zero, in
separate steps (`LazyRead`, `LazySet`, `Since`, `Elapsed`), since no lock
protects it.

`Runtime`: the main thread calls `rjos_init`, whose two parts may fail, or goes
without it (`NoInit`); then all threads use the three parts in any interleaving
and the main thread may load another file; it joins the others and calls
`rjos_cleanup`. That the threaded scheduler leaves no worker behind for that is
`TickBarrier`.

### Descriptors, Serial, Udp and Devices

One thread makes one call at a time. The descriptor table hands out the lowest
free number, so a number that one device gave back is soon the other's: a stale
number in a struct would name it. Every system call may fail, and a failure
leaves what the code leaves: `serial_open` loses the descriptor when `strdup` fails,
`serial_set_blocking` changes the flag before the settings.

`Serial` has two copies of the settings: `port`, the program's struct, and `tty`,
the kernel's. `Tuned` is what `apply_termios` makes of a struct. The speed, the
frame and the flow control are one value, the line, of which the code accepts
some (`GoodLines`). The kernel takes a buffer in pieces of any size, and the
device drains it meanwhile. `INT_MODULUS` stands for 2^32: a `uint32_t` timeout is
stored in an `int`.

`Udp` tries the addresses of a host one after the other and, like the code, goes
on after the first that connects. `udp_send` and `udp_recv` try again after every
error; the network reports at most one error per datagram sent (`owed`), except for
a datagram that is too big, which is refused for ever.

`Devices` puts both over one table.

### Ipc

`ipc_pipe_init` is three steps, `access`, `mkfifo` and `open`, between which other
processes run. A reader passes mode 0, which is also the permission bits of a
FIFO that it creates; a writer passes a mode with bits. The path names a FIFO or
none; a FIFO that was removed lives on while somebody has it open. A process may
crash in every phase and is started again; SIGPIPE ends a writer without readers.
Messages are no longer than `PIPE_BUF`, so a write is whole (the library's limit
`IPC_MAX_MSG_SIZE` is declared and not enforced).

### PelcoD and CameraLink

`pelco_d.c` keeps no state: a function that stores a message is the operator that
gives it, and what makes it refuse its arguments is an operator too
(`SpeedsRefused`, `BufferRefused`). An address is never refused, since a `uint8_t`
is at most `PELCO_D_MAX_ADDRESS`. `CameraLink` calls them in the order of their use:
build, convert to bytes, convert back, validate, read an angle. The line may change
one byte or lose the last ones; the camera answers with its position as the two
angle functions understand it.

## 3. The runs

| Run | Bounds | Question |
|---|---|---|
| `sched_coop` | 2 tasks, intervals 2 and 30, clock 4094..4098 over `WORD` 4096 | the cooperative scheduler |
| `sched_pt_faults` | 2 tasks, intervals 1 and 2, clock 4095..4097, creation may fail, hook may change | the safety of the threaded scheduler |
| `sched_pt_live` | 2 tasks, intervals 1 and 2000, clock 4095..4097 | its liveness |
| `runtime` | 2 threads, 3 calls, 1 log file, 2 levels, 2 keys, 2 entries | logger, configuration and clock in one program |
| `devices` | 3 descriptors, 2 addresses, 2 lines of which the device takes one, buffers of 2 bytes, timeouts that fit an `int` and that do not | both devices over one table |
| `ipc` | 1 reader, 2 writers, 2 FIFOs, 2 messages of 2 bytes each, pipes of 4 bytes, 2 crashes | the named pipe |
| `camera_link` | 2 addresses, 4 speeds around the maximum, 11 positions on each axis, 5 noise bytes | the Pelco-D messages |
| `sched_priority`, `sched_sleep`, `sched_adds`, `serial_timeout`, `ipc_reader` | 1 or 2 tasks, 2 to 4 ms; the smallest devices and pipe | the disagreements of section 6 |

Why these are enough. Two tasks show everything that one does to another: order
in the scan, two workers in any interleaving, one failing while the other runs.
The clock crosses the wrap in each passing run of a scheduler, so that times before
and after it meet; a few milliseconds are enough for a callback to take none, one or
several of them, for a task to become due again, and for it to overrun. The
interval of 30 makes the cooperative sleep 2 or 3 ms, as long as the other task waits;
2000 is never due in the threaded run but makes its sleep 2 ms. `MaxTime` stops
the clock (a sleep that would outlast it ends there), so that the runs are finite.
Priorities only decide the order in the table, which `Sortings` leaves open
among equals, so one priority is enough except where the order is the question.

Three calls in `runtime` are two lines and a reopening, or a search, a clock read
and a line, in two threads or one; each can come between any two steps of another,
while the main thread reloads. Two entries let a table grow, move and have a key
twice. Three descriptors are one for each device and one lost; two addresses
let a connected socket be left behind for the next. `INT_MODULUS` is 80000 so that
60000 becomes a negative `int`, and 25600 ms are 256 tenths, one more than the byte of
`VTIME`. In `ipc` two writers mix if anything can, two messages fill a pipe, a second FIFO is
what a recreated path gives, and with two crashes each side can crash once. The
noise of `camera_link` has the neighbours and the ends of the range of a byte, the
positions lie at the horizon, at whole degrees and next to them, and just short of
a half turn; at 18000 hundredths the code's tilt angle is 0, which is out of the
range of a camera.

What they check, beside one type invariant per composition:

* `ImplementsRounds` (both schedulers): the whole behaviour against `Rounds`: nobody
  early, nobody twice, nobody due skipped, no run that outlasts its tick.
* `SleepSparesWaiting`: the sleep begins after the callbacks, with a length found from
  the time of the tick, a tenth of the shortest wait among the tasks passed over. It
  makes one of these late only if the callbacks and the hook took more than nine tenths
  of its wait, as long as that is shorter than a whole wrap. Of the tasks that ran in
  the tick the code does not think: `sched_sleep` in section 6.
* `StatisticsAgree`: overruns against runs, average against maximum.
* `NoEarlyRun`, `TickBarrier`, `OneWorkerPerTask`, `HandlesInBounds`, `NoRunLost`,
  `HookExclusive`, `OverrunsAreLate`: the threads of a tick, and the test for
  overruns, which is exact unless the clock has wrapped in between.
* `ShutdownExits`, `DueTasksRun`: a signal ends the loop; a due task is run.
* `WholeLines`, `LinesOnDisk`, `FileIsOpen`: lines are not mixed and not lost, the
  stream written to is open, also after a failed reopening.
* `ConfigAnswers`: right answers although the table changes under the search, and
  dangling memory only after a reload during the work.
* `UptimeMonotone`: no uptime goes back in a program that called `rjos_init`.
* `DescriptorsOwned`, `LossesAreKnown`: the number in a struct is that struct's, and
  a descriptor is lost in two ways only.
* `ModeAgrees`, `SettingsAgree`: struct and kernel agree, through failing setters.
* `WriteHonest`: bytes go out once and in order, and the return value tells how many.
* `WholeMessages`, `WriterMeetsReader`: the pipe keeps messages whole, and a writer
  that waits is let go by a reader.
* `CallsReturn` (devices, runtime): no call waits for ever but those that may, and no
  path out of a function keeps a mutex.
* `AcceptedIsSent`, `UndisturbedIsAccepted`: validation accepts exactly what was sent.
* `Obeyed`, `AnglesAgree`: the camera's bits mean what was asked; an angle is read
  from a reply of its own kind only, and is right.

Each property is shown to have force by a variant of the code with a plausible
bug, kept next to the definition it replaces under the comment "Variant with a
bug", which makes TLC report that property.

### Fairness

Schedulers: the thread in `sched_start` and each worker have weak fairness: the
operating system schedules them, and the program's callbacks and hook return (if
one did not, the cooperative loop would stop there by design). The clock has weak
fairness, or a sleep would not end. Nothing is assumed of the program's calls or
of signals. Weak fairness is enough for the mutex, because a thread takes it a
bounded number of times per tick and so does not keep the others out.
`sched_pt_live` is run without failures of `pthread_create` and without changes of
the hook, which lead to undefined behaviour.

Runtime: a call that has begun goes on; the mutex is contended by at most
`MaxCalls` calls, so weak fairness is enough there too. Devices: the thread runs,
the device takes the bytes it was given, the timer of a read runs out; peers may
be silent. Ipc: each process runs, is started again after a crash, retries
`ipc_pipe_init` and goes on reading; nobody has to send, to close or to crash.

Deadlock is checked in the runs of the schedulers, the devices and the pipe, and of
`camera_link`. It is not in `runtime`, where the program ends after
`rjos_cleanup`; `CallsReturn` says that nobody is left waiting.

## 4. The proofs

All theorems hold for every value of the constants that the named assumptions of
the modules allow (they give the constants their types and little more).

### Arithmetic

`SchedTaskProofs` proves what the operators return and the arithmetic everything
rests on. The difference of two wrapped times is never more than the real one
(`WrappedDifference`), hence a task found due has waited its interval
(`DueMeansWaited`): this direction holds for any wait. Below a whole wrap the
difference is exact (`ElapsedIsExact`), hence a task that is passed over has not
waited its interval. Both need the decomposition of a time into whole wraps and a
word (`DivMod`) and the case split on the sign of the difference of the words.
A time is a number of whole wraps and a word in one way only (`LowWordUnique`), on which
the test for overruns and the counts modulo the word rest.

### The cooperative scheduler

`SchedulerProofs`: `CoopTypes` (`TypeOK`, whatever the callbacks do), and, when
callbacks add no tasks, `CoopNeverEarly` (`NoEarlyRun`), `SleepIsShort`
(`SleepSparesWaiting`) and `CoopRounds` (`Spec => ImplementsRounds`). The assumption is
needed: `sched_adds` is the counterexample without it, and `CoopNeverEarly` says that
nothing else can cause what that run shows. The invariant `IInv` is the conjunction of

* `TypeOK` and `Scanning`: the entry that is handled is in the table, and those
  that were served lie behind the index;
* `Times`: each wrapped time is the low word of its history variable, and no run is
  younger than the tick. This is what `sched_add_task` in a callback breaks;
* `PassedOver`: who was not served and lies behind the index is not due, and
  `next_due_ms` is no more than what is left of its interval. The end of the
  round and the length of the sleep, no more than a tenth of `next_due_ms`
  (`SleepBound`), follow from it.

`StatisticsAgree` does not hold for ever: after 2^32 runs `run_count` is 0 again, and
the overruns are more than the runs. Two theorems say when it does hold.
`StatisticsUntilWrap` takes that as a hypothesis on the behaviour, `[]CountersLeft`: no
count is at the end of its word. Nothing is asked of the sum of the durations, which
may wrap. Its invariant, `Booked`, knows that between the return of a callback and the
test for an overrun there is a run that no overrun was counted for.
`StatisticsInFirstWrap` has no hypothesis on the behaviour: within 2^32 - 1
milliseconds of the start, 49 days, and with no task of interval 0, the counters
cannot get that far, since a run needs a millisecond of its own (`Paced`: an entry has
run at most once per millisecond up to its last run). An interval of 0 is legal, runs
as often as the loop turns, and is left to the first theorem.

### The threaded scheduler

`SchedulerPtProofs` proves `TypeCorrect` (`TypeOK`), `NeverEarly` (`NoEarlyRun`),
`Barrier` (`TickBarrier`), `OneWorker` (`OneWorkerPerTask`), `InBounds`
(`HandlesInBounds`) and `HookMutex` (`HookExclusive`) from one inductive invariant,
`IInv`, the conjunction of

* `TypeOK`;
* `HandlesInOrder`: the handles in use are the first `thread_count`, fewer than the
  entries the scan has passed. Without it a second handle could overwrite the first,
  or lie beyond the array;
* `JoinedInOrder`: behind the index of the joins nobody is alive. This is what
  makes the barrier inductive: at the end of the joins the index has passed all;
* `Assigned`: each handle has an entry of its own, behind the index of the scan, and
  the time of the tick;
* `MutexHeld`: who is in the second critical section holds the mutex;
* `Times`: every word is the low word of its history variable, and no run is younger
  than the tick while the scan lasts;
* `Waited`: an entry found due has waited, until its run is recorded. It bridges
  the steps between the test in `Scan` and the creation in `Spawn`.

`RunsCounted` (`NoRunLost`) adds `Counted`: the threads started for an entry are, modulo
the word, what its record counts and what is `Owed`, one if a worker has not yet
recorded and none otherwise. Since an entry has one worker at most (`Assigned`) the set
of those workers is empty or a singleton, and its cardinality is `Owed`. `OverrunsReal`
(`OverrunsAreLate`) adds `Deadlines`: between the first critical section of a worker and
its test, `deadline_ms` is the low word of the unwrapped deadline. That the low word of
the clock is greater then says that the clock is past the deadline, and the converse
needs both in one wrap, as the property says.

`SchedulerPtRounds` proves `PtRounds`, `Spec => ImplementsRounds`, with failing thread
creation and a changing hook. It adds `Skipped` to the invariant: an entry
behind the scan has a handle or is not due at the time of the tick. `Staged` reads the run
state of an entry off the one worker that has it (`Assigned`): the creation of the
thread starts the run, `Record` records it, `Release` finishes it, and all other
steps of a worker are invisible. At the end of the joins everybody with a handle
is done (`JoinedInOrder`), and the others were rightly skipped.

### The global parts

`RuntimeProofs`: `UptimesRise` (`UptimeMonotone`) from `ClockInv`: in a program that
called `rjos_init` the start time is set before a thread reads it and does not
change, and every local reading lies between it and now. `LoggerFileIsOpen`
(`FileIsOpen`) and `LoggerFlushes` (`LinesOnDisk`) from `LogInv`: who is inside a
section has the mutex, `file` and `stream` agree outside of a reopening, and only a line in progress
is in the buffer. `ConfigIsRight` (`ConfigAnswers`) from `CfgInv`: the search
has passed only entries of other keys, and its block is the table's unless
somebody has reloaded.

`RuntimeTypes` (`TypeOK`) needs one fact beside the types: between `Realloc` and `Store`
there is a key, and room for it (`CfgTypes`). It covers the lazy start time too, which
`ClockInv` leaves out: whoever sets it, no thread sees a start time later than now.

`LogIsWhole` (`WholeLines`) comes from `LineInv`: what a reader of a file would find, the
disk and, for the open stream, the buffer behind it, is a row of whole lines
(`Lines`), but for the file in use while a line is written, whose end is the piece before
`piece`, by the thread that has the mutex (`Within`); and between two pieces somebody is
in `write`. A piece goes behind what the reader would find wherever the library
keeps it (`PieceBehind`), a flush changes nothing for him (`FlushKeeps`), and a
reopening meets an empty buffer (`NobodyWrites`). From the same lemmas follows
`LogGrows`: a step adds one piece to one file or none, so nothing that was written is
lost or overwritten.

`LocksReturned`: when all threads are out of the library both mutexes are free,
whichever path each call took, and `rjos_cleanup` destroys both free and unused. It
is the part of `CallsReturn` that needs no fairness: a thread that waits for a lock
waits for one that is inside.

### The devices

`DevicesProofs`: `WritesHonest` (`WriteHonest`),
`SettingsFollowStruct` (`SettingsAgree`), `StructsOwnTheirs` (`DescriptorsOwned`),
`ModeFollowsStruct` (`ModeAgrees`), `LossesKnown` (`LossesAreKnown`) and `DevicesTypes`
(`TypeOK`). Each
has a small invariant of its own, since the parts hardly depend on each
other: that the bytes on the wire are the buffer's first ones, and, for the table,
that the numbers in the two structs and in the loop of `udp_init` are different and
name the right kind of file.

A descriptor is lost where a step forgets its number: the lemma `ForgetsNone` leaves for
each step only the numbers that it forgets, which must be closed or excused. The loop
of `udp_init` forgets the socket that it connected when it makes the next one;
`PeerBehind` says that this socket's address lies before those not yet tried, so it is
never the last of the list, and a host with one address loses nothing.

### The named pipe

`IpcProofs`: `IpcTypes` (`TypeOK`) and `MessagesWhole` (`WholeMessages`), for any
number of readers, writers, FIFOs and crashes. The invariant says that the content
of a FIFO is a whole number of messages, each of one writer; a read of one
message's length at its front keeps that.

### Pelco-D

`PelcoDProofs` proves, for every message, that what is created is valid (`Created`),
that the conversions are inverse (`RoundTrip`), and that a change of one byte is
noticed (`OneByteNoticed`): two sums of five bytes that differ in one of them differ
modulo 256. From these and the invariant `LinkInv`, which says at each stage of a
message whether the line has touched it, follow `LinkTypes`, `OnlySentAccepted`,
`SentAccepted` and `SpeedsBounded` (no refused speed reaches the line), for every set of
addresses, speeds, positions and noise bytes.

`MovesObeyed` (`Obeyed`) and `AnglesRight` (`AnglesAgree`) are about what a message means
to the one who reads it. `Tells` relates a message to what was asked: a move has the
bits of its directions and no others, a reply has the position, and no other message
has a reply's second command byte. That the sums of `PanBits`, `TiltBits` and
the zoom's bit keep each bit is a case split over the directions (`PanTiltMoves`,
`ZoomMoves`). That an angle is the camera's is the arithmetic of the two functions:
a position below zero goes over the line as its complement to a turn, and comes
back (`PanBack`, `TiltBack`), for every position of less than half a turn.
`Meaning` carries this from the building of a message to its reading.

### Checked by TLC only

Every invariant and every action property that the runs check is proved for all values
of the constants, `StatisticsAgree` and the cooperative scheduler's properties under the
hypotheses above. What stays with TLC is liveness (`ShutdownExits`, `DueTasksRun`,
`CallsReturn`, `WriterMeetsReader`): fairness and ENABLED are out of the prover's reach.
The order that `qsort` gives (`HighPriorityFirst`) and the other refuted statements have
their counterexamples, which need no proof.

## 5. What is left out

* Callbacks that call `sched_destroy`, or, in the threaded scheduler, `sched_add_task`:
  both corrupt memory that the loop still uses. They are listed as hazards.
* The use of logger and configuration after `rjos_cleanup`: it locks a destroyed mutex.
* `malloc` of a worker's context failing (the code writes through NULL).
* The text of log lines and of configuration lines, the tasks' names and data.
* The tests for NULL pointers, and the functions of `pelco_d.c` that print.
* Opening a port or a socket that is open already: the struct is written over, and the
  descriptor and the copy of the name that it had are lost. The headers speak of a struct
  to initialize, so `serial_open` and `Resolve` have a guard that keeps the program of
  the model from it.
* That a line may be logged after a `logger_enable(0)` has returned, that a failed reopening
  ends the log without a word, and that an uptime may go back when two threads set the
  start time: the models have all three, and no property forbids what the code does.
* `sched_avg_us`, which always returns 0; `serial_flush`, which is declared and has no
  definition; the functions of `net_util.c` that nothing calls.
* Callers of `sched_start` in two threads at once: no example does it.
* The examples and the build files, which only show how the parts are used.

## 6. Where code and comments disagree

Each of these is a run that TLC ends with a violation.

1. `sched_priority` - the table is sorted in ascending order of priority
   (`sched_util.c:23`, `scheduler_pt.c:48`), the comments say descending.
2. `sched_sleep` - only tasks that are not due enter `next_due_ms` (`scheduler.c:97`), so a
   task that ran in the tick is forgotten: with intervals of 1 and 30 ms the thread sleeps
   a tenth of the long wait, 2 ms, and the first is due again in the middle of it. The
   comment says "Sleep until the next task is due" (`scheduler.c:104`). That a sleep
   is only a tenth of the wait makes the thread wake early and look again, which delays
   nobody. The threaded loop forgets the task too (`scheduler_pt.c:163`); it sleeps a
   thousandth of the wait (`scheduler_pt.c:175`).
3. `sched_adds` - a task added by a callback is compared with a time before its
   creation (`scheduler.c:71`), the difference wraps, and the task runs in the same scan.
4. `serial_timeout` - `serial_open` stores a timeout of a second in the struct
   (`serial.c:194`) and does not apply it, so a read waits for ever; `serial.h:64` says of
   a positive timeout "return when any data arrives, else timeout".
5. `ipc_reader` - a reader that comes first creates the FIFO with its mode, 0, as
   permission bits (`ipc.c:20`); the header says that the path is created or used
   (`ipc.h:25`), and nobody without privileges can open it.

Observed while modelling, in the models, and without a run of their own:

* Nothing in the loops reads the running flag (`scheduler.c:64`), so they go on after
  `sched_stop`, of which `scheduler.h:69` says that it stops the scheduler. Only the
  signal's flag ends them (`ShutdownExits`).
* `send` is tried again after every error (`udp.c:77`), so `udp_send` of a datagram that is
  too big never returns, where `udp.h:57` promises "-1 on failure"; `CallsReturn` excludes
  it (`too_big`). The loop of `udp_recv` (`udp.c:96`) passes over a refused connection in
  the same way, against `udp.h:80`.
* A timeout that is set while the port does not block is stored as 0, and the call returns
  0 (`serial.c:203-206`); when the port blocks again, its reads wait for ever.
  `serial.h:77-86` says that the call configures the timeout, and that 0 is what means none.
* A thread that could not be created is joined (`scheduler_pt.c:159`); the log hook is
  tested and read again while another thread may clear it (`scheduler_pt.c:91`).
* Level and enabled are tested before the mutex is taken, so a line may follow a
  `logger_enable(0)` that has returned (`logger.c:49`).
* `pelco_d_bytes_to_message` returns the checksum (`pelco_d.c:202`) where its header
  promises `PELCO_D_SUCCESS`; `PELCO_D_ZOOM` has no case, so asking for the zoom position
  builds a message without a command.

## 7. What could follow

* Pelco-D messages over `Serial` and `Udp` in place of the line of `CameraLink`.
* The threaded scheduler and the logger composed through the log hook.
* An abstract log, to which a thread appends a line in one step, as a specification that
  `Logger` implements; `LineInv` and `LogGrows` hold what its refinement needs.
* What `Rounds` promises, proved of `Rounds`, for whatever implements it.
