-------------------------------- MODULE Ipc --------------------------------
(***************************************************************************)
(* Processes that talk through one FIFO of the file system with ipc.c.     *)
(* Each opens the path for reading (mode 0) or for writing (a mode with    *)
(* permission bits), and creates the FIFO first when it finds none; each   *)
(* removes the path when it closes.  A process may crash at any point, and *)
(* the program starts it again.  The file system and the pipes are the     *)
(* environment: a path is looked up once, by open, and what is removed     *)
(* lives on while somebody has it open.                                    *)
(***************************************************************************)
EXTENDS Integers, Sequences

CONSTANTS Readers, Writers,
          Privileged,   \* the processes may open what no permission bit lets them
          MsgLen,       \* bytes of every message, at most PIPE_BUF
          MaxFifos,     \* bound: FIFOs created in a behaviour
          MaxMsgs,      \* bound: messages of a writer
          PipeSize,     \* bytes that a FIFO holds
          MaxCrashes    \* bound: crashes in a behaviour

ASSUME RolesAssumption  == Readers \intersect Writers = {}
ASSUME PrivAssumption   == Privileged \in BOOLEAN
ASSUME BoundsAssumption == MaxFifos \in Nat \ {0} /\ MaxMsgs \in Nat /\ MaxCrashes \in Nat
ASSUME SizesAssumption  == MsgLen \in Nat \ {0} /\ PipeSize \in Nat

VARIABLES
  path,      \* the FIFO that the path names, or None
  made,      \* how many FIFOs were created: they are numbered in this order
  usable,    \* the FIFOs whose permission bits let the processes open them
  pipe,      \* the bytes in each FIFO
  pc, fd,    \* per process: where it is in ipc.c, and the FIFO that it has open
  sent,      \* per writer: the messages that it began to send
  last,      \* per reader: what its last ipc_pipe_recv returned
  crashes

files == << path, made, usable >>
vars  == << files, pipe, pc, fd, sent, last, crashes >>

Procs == Readers \union Writers
Fifos == 1 .. MaxFifos
None  == 0

\* "shut": not opened, or ipc_pipe_init has failed, or the process was started again.
Phases == { "shut", "creating", "opening", "waiting", "open", "writing", "dead" }

\* One byte of the n-th message of a writer.
Byte == [ by : Writers, msg : 1 .. MaxMsgs, at : 1 .. MsgLen ]

Message(w, n) == [ i \in 1 .. MsgLen |-> [ by |-> w, msg |-> n, at |-> i ] ]

Init ==
  /\ path = None /\ made = 0 /\ usable = {}
  /\ pipe = [ f \in Fifos |-> << >> ]
  /\ pc = [ p \in Procs |-> "shut" ]
  /\ fd = [ p \in Procs |-> None ]
  /\ sent = [ w \in Writers |-> 0 ]
  /\ last = [ r \in Readers |-> << >> ]
  /\ crashes = 0

Goes(p, from, to) == pc[p] = from /\ pc' = [ pc EXCEPT ![p] = to ]

HasReader(f) == \E r \in Readers : fd[r] = f

\* Process p gives up its descriptor; what is in a FIFO that nobody has open is lost.
Releases(p) ==
  /\ fd' = [ fd EXCEPT ![p] = None ]
  /\ pipe' = [ f \in Fifos |-> IF \E q \in Procs : fd'[q] = f THEN pipe[f] ELSE << >> ]

-----------------------------------------------------------------------------
\* ipc_pipe_init

\* Variant with a bug: the path is not looked for first.
access_Skipped(p) ==
  /\ Goes(p, "shut", "creating")
  /\ UNCHANGED << files, pipe, fd, sent, last, crashes >>

access(p) ==
  /\ Goes(p, "shut", IF path = None THEN "creating" ELSE "opening")
  /\ UNCHANGED << files, pipe, fd, sent, last, crashes >>

\* The permission bits are those of the mode, and 0 has none.  It fails when another
\* process was faster.
mkfifo(p) ==
  /\ \/ /\ path = None
        /\ Goes(p, "creating", "opening")
        /\ made' = made + 1
        /\ path' = made + 1
        /\ usable' = IF p \in Writers THEN usable \union {made + 1} ELSE usable
     \/ path # None /\ Goes(p, "creating", "shut") /\ UNCHANGED files
  /\ UNCHANGED << pipe, fd, sent, last, crashes >>

\* A reader does not wait, a writer waits for a reader of the FIFO that it found.
open(p) ==
  /\ IF path # None /\ (path \in usable \/ Privileged)
     THEN /\ Goes(p, "opening", IF p \in Readers THEN "open" ELSE "waiting")
          /\ fd' = [ fd EXCEPT ![p] = path ]
     ELSE Goes(p, "opening", "shut") /\ UNCHANGED fd
  /\ UNCHANGED << files, pipe, sent, last, crashes >>

Met(w) ==
  /\ Goes(w, "waiting", "open")
  /\ HasReader(fd[w])
  /\ UNCHANGED << files, pipe, fd, sent, last, crashes >>

-----------------------------------------------------------------------------
\* ipc_pipe_send and ipc_pipe_recv

BeginSend(w) ==
  /\ Goes(w, "open", "writing")
  /\ sent[w] < MaxMsgs
  /\ sent' = [ sent EXCEPT ![w] = @ + 1 ]
  /\ UNCHANGED << files, pipe, fd, last, crashes >>

\* Variant with a bug: a short write counts as a message that was sent.
Write_Short(w) ==
  LET f == fd[w]
  IN  /\ Goes(w, "writing", "open")
      /\ HasReader(f)
      /\ \E n \in 1 .. MsgLen :
           /\ Len(pipe[f]) + n =< PipeSize
           /\ pipe' = [ pipe EXCEPT ![f] = @ \o SubSeq(Message(w, sent[w]), 1, n) ]
      /\ UNCHANGED << files, fd, sent, last, crashes >>

\* One write of a whole message, which waits for room.
Write(w) ==
  LET f == fd[w]
  IN  /\ Goes(w, "writing", "open")
      /\ HasReader(f)
      /\ Len(pipe[f]) + MsgLen =< PipeSize
      /\ pipe' = [ pipe EXCEPT ![f] = @ \o Message(w, sent[w]) ]
      /\ UNCHANGED << files, fd, sent, last, crashes >>

\* The readers have left: SIGPIPE, for which nobody has a handler, ends the program.
BrokenPipe(w) ==
  /\ Goes(w, "writing", "dead")
  /\ ~ HasReader(fd[w])
  /\ Releases(w)
  /\ UNCHANGED << files, sent, last, crashes >>

Smaller(a, b) == IF a < b THEN a ELSE b

\* A read into a buffer of one message; without bytes it returns at once, with 0 or
\* an error.
ipc_pipe_recv(r) ==
  LET f == fd[r]
      n == Smaller(MsgLen, Len(pipe[f]))
  IN  /\ pc[r] = "open"
      /\ last' = [ last EXCEPT ![r] = SubSeq(pipe[f], 1, n) ]
      /\ pipe' = [ pipe EXCEPT ![f] = SubSeq(@, n + 1, Len(@)) ]
      /\ UNCHANGED << files, pc, fd, sent, crashes >>

-----------------------------------------------------------------------------
\* Variant with a bug: the descriptor is not closed.
Close_KeepsDescriptor(p) ==
  /\ Goes(p, "open", "shut")
  /\ made < MaxFifos
  /\ path' = None
  /\ UNCHANGED << made, usable, pipe, fd, sent, last, crashes >>

\* The path is removed, whatever it names by now and whoever uses it.
ipc_pipe_close(p) ==
  /\ Goes(p, "open", "shut")
  /\ made < MaxFifos   \* the bound: another FIFO may be created after it
  /\ Releases(p)
  /\ path' = None
  /\ UNCHANGED << made, usable, sent, last, crashes >>

\* A crash closes the descriptor and leaves the path.
Crash(p) ==
  /\ pc[p] \notin { "shut", "dead" }
  /\ crashes < MaxCrashes
  /\ crashes' = crashes + 1
  /\ pc' = [ pc EXCEPT ![p] = "dead" ]
  /\ Releases(p)
  /\ UNCHANGED << files, sent, last >>

Restart(p) ==
  /\ Goes(p, "dead", "shut")
  /\ UNCHANGED << files, pipe, fd, sent, last, crashes >>

-----------------------------------------------------------------------------
\* ipc_pipe_init, which a program that needs the FIFO calls again when it fails.
Opens(p) == access(p) \/ mkfifo(p) \/ open(p)

Next ==
  \/ \E p \in Procs : Opens(p) \/ ipc_pipe_close(p) \/ Crash(p) \/ Restart(p)
  \/ \E w \in Writers : Met(w) \/ BeginSend(w) \/ Write(w) \/ BrokenPipe(w)
  \/ \E r \in Readers : ipc_pipe_recv(r)

Spec == Init /\ [][Next]_vars

\* Each process runs, and its program tries again and goes on reading.
Fairness ==
  /\ \A p \in Procs : WF_vars(Opens(p)) /\ WF_vars(Restart(p))
  /\ \A w \in Writers : WF_vars(Met(w)) /\ WF_vars(Write(w)) /\ WF_vars(BrokenPipe(w))
  /\ \A r \in Readers : WF_vars(ipc_pipe_recv(r))

FairSpec == Spec /\ Fairness

-----------------------------------------------------------------------------
\* The FIFOs that were created are those numbered so far, a process has one open just
\* in the phases after its open call, and no FIFO holds more than its size.
TypeOK ==
  /\ made \in 0 .. MaxFifos /\ path \in 0 .. made /\ usable \subseteq 1 .. made
  /\ pipe \in [Fifos -> Seq(Byte)]
  /\ \A f \in Fifos : Len(pipe[f]) =< PipeSize
  /\ pc \in [Procs -> Phases]
  /\ fd \in [Procs -> 0 .. made]
  /\ \A p \in Procs : fd[p] # None <=> pc[p] \in { "waiting", "open", "writing" }
  /\ sent \in [Writers -> 0 .. MaxMsgs]
  /\ last \in [Readers -> Seq(Byte)]
  /\ crashes \in 0 .. MaxCrashes

\* A receiver whose buffer has the size of a message gets whole messages, never the
\* end of one and the beginning of another, and never a mixture of two writers, also
\* after a writer has crashed in ipc_pipe_send (ipc.c:42, 55).
WholeMessages ==
  \A r \in Readers :
    last[r] = << >> \/ \E w \in Writers, n \in 1 .. MaxMsgs : last[r] = Message(w, n)

\* A writer that waits in ipc_pipe_init for the FIFO of the path is let go when a
\* reader comes, whatever crashes and races of two creators come between; unless
\* somebody removes the path, or the reader is busy with a FIFO removed before
\* (ipc.c:19-28, 68).
WriterMeetsReader ==
  \A w \in Writers :
    /\ pc[w] = "waiting" /\ fd[w] = path
    /\ \A r \in Readers : fd[r] \in { None, path }
    ~> pc[w] # "waiting" \/ fd[w] # path

\* ipc.h says that the path is that of a FIFO "that will be created or used": what
\* ipc_pipe_init has created can be opened (ipc.h:25).  Called with mode 0 it
\* creates a FIFO without permission bits.
CreatedIsUsable == path # None => path \in usable \/ Privileged
=============================================================================
