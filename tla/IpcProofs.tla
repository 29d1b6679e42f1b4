----------------------------- MODULE IpcProofs -----------------------------
(***************************************************************************)
(* What ipc.c gives to the programs on one FIFO, for every number of       *)
(* processes, of FIFOs and of messages, and every length of a message:     *)
(* a reader gets the messages whole, whoever crashes.                      *)
(***************************************************************************)
EXTENDS Ipc, SequenceTheorems, TLAPS

-----------------------------------------------------------------------------
\* Sequences of whole messages

\* s is made of k messages.
Built(s, k) ==
  /\ Len(s) = k * MsgLen
  /\ \A j \in 1 .. k : \E w \in Writers, n \in 1 .. MaxMsgs :
       \A i \in 1 .. MsgLen : s[(j - 1) * MsgLen + i] = [ by |-> w, msg |-> n, at |-> i ]

Whole(s) == \E k \in Nat : Built(s, k)

LEMMA MessageType ==
  ASSUME NEW w \in Writers, NEW n \in 1 .. MaxMsgs
  PROVE  /\ Message(w, n) \in Seq(Byte) /\ Len(Message(w, n)) = MsgLen
         /\ \A i \in 1 .. MsgLen : Message(w, n)[i] = [ by |-> w, msg |-> n, at |-> i ]
<1>1. \A i \in 1 .. MsgLen : [ by |-> w, msg |-> n, at |-> i ] \in Byte
  BY DEF Byte
<1> QED
  BY <1>1, IsASeq, SizesAssumption DEF Message

LEMMA EmptyWhole == Whole(<< >>)
<1>1. Built(<< >>, 0)
  BY SizesAssumption DEF Built
<1> QED
  BY <1>1 DEF Whole

\* The beginning of the j-th message lies in the sequence.
LEMMA Places ==
  ASSUME NEW k \in Nat, NEW j \in 1 .. k, NEW i \in 1 .. MsgLen
  PROVE  /\ (j - 1) * MsgLen + i \in 1 .. k * MsgLen
         /\ k * MsgLen \in Nat /\ (k + 1) * MsgLen = k * MsgLen + MsgLen
<1>1. k * MsgLen \in Nat /\ j * MsgLen \in Nat /\ (j - 1) * MsgLen \in Nat
  BY SizesAssumption
<1>2. (j - 1) * MsgLen + MsgLen = j * MsgLen /\ (k + 1) * MsgLen = k * MsgLen + MsgLen
  BY SizesAssumption
<1>3. j * MsgLen =< k * MsgLen
  BY SizesAssumption
<1> QED
  BY <1>1, <1>2, <1>3, SizesAssumption

\* A message more.
LEMMA WriteWhole ==
  ASSUME NEW s \in Seq(Byte), Whole(s), NEW w \in Writers, NEW n \in 1 .. MaxMsgs
  PROVE  Whole(s \o Message(w, n))
<1> DEFINE m == Message(w, n)
           t == s \o m
<1>1. PICK k \in Nat : Built(s, k)
  BY DEF Whole
<1>2. /\ m \in Seq(Byte) /\ Len(m) = MsgLen
      /\ \A i \in 1 .. MsgLen : m[i] = [ by |-> w, msg |-> n, at |-> i ]
  BY MessageType
<1> HIDE DEF m
<1>3. /\ Len(t) = Len(s) + MsgLen
      /\ \A i \in 1 .. Len(s) : t[i] = s[i]
      /\ \A i \in 1 .. MsgLen : t[Len(s) + i] = m[i]
  <2>1. /\ Len(t) = Len(s) + Len(m)
        /\ \A i \in 1 .. Len(s) + Len(m) : t[i] = IF i =< Len(s) THEN s[i] ELSE m[i - Len(s)]
    BY <1>2, ConcatProperties
  <2>2. Len(s) \in Nat
    BY LenProperties
  <2> HIDE DEF t
  <2> QED
    BY <1>2, <2>1, <2>2, SizesAssumption
<1> HIDE DEF t
<1>4. Len(s) = k * MsgLen /\ k * MsgLen \in Nat /\ (k + 1) * MsgLen = k * MsgLen + MsgLen
  BY <1>1, SizesAssumption DEF Built
<1>5. ASSUME NEW j \in 1 .. k + 1
      PROVE  \E v \in Writers, l \in 1 .. MaxMsgs : \A i \in 1 .. MsgLen :
               t[(j - 1) * MsgLen + i] = [ by |-> v, msg |-> l, at |-> i ]
  <2>1. CASE j \in 1 .. k
    <3>1. PICK v \in Writers, l \in 1 .. MaxMsgs : \A i \in 1 .. MsgLen :
               s[(j - 1) * MsgLen + i] = [ by |-> v, msg |-> l, at |-> i ]
      BY <1>1, <2>1 DEF Built
    <3>2. \A i \in 1 .. MsgLen : (j - 1) * MsgLen + i \in 1 .. Len(s)
      BY <1>4, <2>1, Places
    <3> QED
      BY <1>3, <3>1, <3>2
  <2>2. CASE j = k + 1
    <3>1. (j - 1) * MsgLen = Len(s)
      BY <1>4, <2>2
    <3>2. \A i \in 1 .. MsgLen : t[(j - 1) * MsgLen + i] = m[i]
      BY <1>3, <3>1
    <3>3. \A i \in 1 .. MsgLen :
            t[(j - 1) * MsgLen + i] = [ by |-> w, msg |-> n, at |-> i ]
      BY <1>2, <3>2
    <3> QED
      BY <3>3
  <2> QED
    BY <2>1, <2>2
<1>6. Built(t, k + 1)
  BY <1>3, <1>4, <1>5 DEF Built
<1> QED
  BY <1>6 DEF Whole, m, t

\* The first message taken away.
LEMMA ReadWhole ==
  ASSUME NEW s \in Seq(Byte), Whole(s), NEW n, n = Smaller(MsgLen, Len(s))
  PROVE  /\ SubSeq(s, n + 1, Len(s)) \in Seq(Byte) /\ SubSeq(s, 1, n) \in Seq(Byte)
         /\ Len(SubSeq(s, n + 1, Len(s))) =< Len(s)
         /\ Whole(SubSeq(s, n + 1, Len(s)))
         /\ \/ SubSeq(s, 1, n) = << >>
            \/ \E w \in Writers, l \in 1 .. MaxMsgs : SubSeq(s, 1, n) = Message(w, l)
<1> DEFINE head == SubSeq(s, 1, n)
           tail == SubSeq(s, n + 1, Len(s))
<1>1. PICK k \in Nat : Built(s, k)
  BY DEF Whole
<1>2. Len(s) = k * MsgLen /\ Len(s) \in Nat /\ \A i \in 1 .. Len(s) : s[i] \in Byte
  BY <1>1, LenProperties, ElementOfSeq DEF Built
<1>3. n \in 0 .. Len(s)
  BY <1>2, SizesAssumption DEF Smaller
<1>4. /\ head \in Seq(Byte) /\ Len(head) = n /\ \A i \in 1 .. n : head[i] = s[i]
  <2>1. /\ SubSeq(s, 1, n) \in Seq(Byte)
        /\ Len(SubSeq(s, 1, n)) = IF 1 =< n THEN n - 1 + 1 ELSE 0
        /\ \A i \in 1 .. n - 1 + 1 : SubSeq(s, 1, n)[i] = s[1 + i - 1]
    BY <1>2, <1>3, SubSeqProperties
  <2> HIDE DEF head
  <2> QED
    BY <1>2, <1>3, <2>1 DEF head
<1>5. /\ tail \in Seq(Byte) /\ Len(tail) = Len(s) - n
      /\ \A i \in 1 .. Len(s) - n : tail[i] = s[n + i]
  <2>1. /\ SubSeq(s, n + 1, Len(s)) \in Seq(Byte)
        /\ Len(SubSeq(s, n + 1, Len(s))) = IF n + 1 =< Len(s) THEN Len(s) - (n + 1) + 1 ELSE 0
        /\ \A i \in 1 .. Len(s) - (n + 1) + 1 :
             SubSeq(s, n + 1, Len(s))[i] = s[n + 1 + i - 1]
    BY <1>2, <1>3, SubSeqProperties
  <2> QED
    BY <1>2, <1>3, <2>1
<1> HIDE DEF head, tail
<1> SUFFICES /\ Len(tail) =< Len(s) /\ Whole(tail)
             /\ \/ head = << >>
                \/ \E w \in Writers, l \in 1 .. MaxMsgs : head = Message(w, l)
  BY <1>4, <1>5 DEF head, tail
<1>6. CASE k = 0
  <2>1. Len(s) = 0 /\ n = 0
    BY <1>2, <1>6, SizesAssumption DEF Smaller
  <2>2. head = << >> /\ tail = << >>
    BY <1>4, <1>5, <2>1, EmptySeq
  <2>3. Whole(tail) /\ Len(tail) =< Len(s)
    BY <1>5, <2>1, <2>2, EmptyWhole
  <2> QED
    BY <2>2, <2>3
<1>7. CASE k > 0
  <2>1. /\ k - 1 \in Nat /\ Len(s) = (k - 1) * MsgLen + MsgLen /\ (k - 1) * MsgLen \in Nat
    BY <1>2, <1>7, SizesAssumption
  <2>2. n = MsgLen
    BY <2>1, SizesAssumption DEF Smaller
  <2>3. Len(tail) = (k - 1) * MsgLen
    BY <1>5, <2>1, <2>2, SizesAssumption
  <2>4. ASSUME NEW j \in 1 .. k - 1
        PROVE  \E v \in Writers, l \in 1 .. MaxMsgs : \A i \in 1 .. MsgLen :
                 tail[(j - 1) * MsgLen + i] = [ by |-> v, msg |-> l, at |-> i ]
    <3>1. j + 1 \in 1 .. k
      BY <1>7
    <3>2. PICK v \in Writers, l \in 1 .. MaxMsgs : \A i \in 1 .. MsgLen :
             s[(j + 1 - 1) * MsgLen + i] = [ by |-> v, msg |-> l, at |-> i ]
      BY <1>1, <3>1 DEF Built
    <3>3. ASSUME NEW i \in 1 .. MsgLen
          PROVE  tail[(j - 1) * MsgLen + i] = s[(j + 1 - 1) * MsgLen + i]
      <4>1. (j - 1) * MsgLen + i \in 1 .. (k - 1) * MsgLen
        BY <2>1, Places
      <4>2. MsgLen + ((j - 1) * MsgLen + i) = (j + 1 - 1) * MsgLen + i
        BY SizesAssumption
      <4> DEFINE x == (j - 1) * MsgLen + i
      <4>3. x \in 1 .. Len(s) - n
        BY <2>1, <2>2, <4>1, SizesAssumption
      <4> HIDE DEF x
      <4>4. tail[x] = s[n + x]
        BY <1>5, <4>3
      <4>5. n + x = (j + 1 - 1) * MsgLen + i
        BY <2>2, <4>2 DEF x
      <4> QED
        BY <4>4, <4>5 DEF x
    <3> QED
      BY <3>2, <3>3
  <2>5. Whole(tail)
    BY <2>1, <2>3, <2>4 DEF Whole, Built
  <2>6. PICK v \in Writers, l \in 1 .. MaxMsgs : \A i \in 1 .. MsgLen :
          s[(1 - 1) * MsgLen + i] = [ by |-> v, msg |-> l, at |-> i ]
    BY <1>1, <1>7 DEF Built
  <2>7. \A i \in 1 .. MsgLen : head[i] = Message(v, l)[i]
    <3>1. \A i \in 1 .. MsgLen : (1 - 1) * MsgLen + i = i
      BY SizesAssumption
    <3> QED
      BY <1>4, <2>2, <2>6, <3>1, MessageType
  <2>8. head = Message(v, l)
    BY <1>4, <2>2, <2>7, MessageType, SeqEqual
  <2> QED
    BY <1>2, <1>3, <1>5, <2>5, <2>8
<1> QED
  BY <1>6, <1>7

-----------------------------------------------------------------------------
\* The invariant

Connected == { "waiting", "open", "writing" }

\* The file system: while there is no FIFO, another may be created.
FilesInv ==
  /\ made \in 0 .. MaxFifos /\ path \in 0 .. made /\ usable \subseteq 1 .. made
  /\ path = None => made < MaxFifos
  /\ crashes \in 0 .. MaxCrashes

ProcsInv ==
  /\ pc \in [Procs -> Phases] /\ fd \in [Procs -> 0 .. made]
  /\ \A p \in Procs : fd[p] # None <=> pc[p] \in Connected

\* Every FIFO holds whole messages.
PipesInv ==
  /\ pipe \in [Fifos -> Seq(Byte)]
  /\ \A f \in Fifos : Len(pipe[f]) =< PipeSize /\ Whole(pipe[f])

\* A writer that writes has a message.
SentInv ==
  /\ sent \in [Writers -> 0 .. MaxMsgs]
  /\ \A w \in Writers : pc[w] = "writing" => sent[w] \in 1 .. MaxMsgs

LastInv == last \in [Readers -> Seq(Byte)] /\ WholeMessages

IInv == FilesInv /\ ProcsInv /\ PipesInv /\ SentInv /\ LastInv

-----------------------------------------------------------------------------
\* What the steps do to a process

LEMMA GoesTo ==
  ASSUME ProcsInv, NEW p \in Procs, NEW from, NEW to \in Phases, Goes(p, from, to)
  PROVE  /\ pc' \in [Procs -> Phases] /\ pc[p] = from /\ pc'[p] = to
         /\ \A q \in Procs \ {p} : pc'[q] = pc[q]
BY DEF ProcsInv, Goes

\* A process goes on, with the descriptor that it has.
LEMMA ProcsMove ==
  ASSUME ProcsInv, UNCHANGED << made, fd >>, NEW p \in Procs, NEW from,
         NEW to \in Phases, Goes(p, from, to), from \in Connected <=> to \in Connected
  PROVE  ProcsInv'
BY GoesTo DEF ProcsInv

LEMMA ReleaseStep ==
  ASSUME made \in Nat, ProcsInv, PipesInv, NEW p \in Procs, Releases(p)
  PROVE  /\ fd' \in [Procs -> 0 .. made] /\ fd'[p] = None
         /\ \A q \in Procs \ {p} : fd'[q] = fd[q]
         /\ PipesInv'
<1>1. /\ fd' \in [Procs -> 0 .. made] /\ fd'[p] = None
      /\ \A q \in Procs \ {p} : fd'[q] = fd[q]
  <2>1. fd' = [ fd EXCEPT ![p] = None ] /\ fd \in [Procs -> 0 .. made]
    BY DEF Releases, ProcsInv
  <2>2. None \in 0 .. made
    BY DEF None
  <2> QED
    BY <2>1, <2>2
<1>2. ASSUME NEW f \in Fifos
      PROVE  /\ pipe'[f] \in Seq(Byte) /\ Len(pipe'[f]) =< PipeSize /\ Whole(pipe'[f])
  <2>1. pipe'[f] = pipe[f] \/ pipe'[f] = << >>
    BY DEF Releases
  <2>2. << >> \in Seq(Byte) /\ Len(<< >>) =< PipeSize
    BY SizesAssumption
  <2> QED
    BY <2>1, <2>2, EmptyWhole DEF PipesInv
<1>3. pipe' \in [Fifos -> Seq(Byte)]
  <2>1. pipe' = [ f \in Fifos |-> pipe'[f] ]
    BY DEF Releases
  <2> QED
    BY <1>2, <2>1
<1> QED
  BY <1>1, <1>2, <1>3 DEF PipesInv

-----------------------------------------------------------------------------
\* The steps

LEMMA OpensStep ==
  ASSUME IInv, NEW p \in Procs, Opens(p)
  PROVE  IInv'
<1> USE DEF IInv
<1>1. UNCHANGED << pipe, sent, last, crashes >>
  BY DEF Opens, access, mkfifo, open
<1>2. pc[p] \notin { "writing", "open" }
  BY DEF Opens, access, mkfifo, open, Goes
<1>3. CASE access(p)
  <2>1. PICK to \in { "creating", "opening" } : Goes(p, "shut", to)
    BY <1>3 DEF access
  <2>2. pc'[p] = to /\ \A q \in Procs \ {p} : pc'[q] = pc[q]
    BY <2>1, GoesTo DEF Phases
  <2>3. ProcsInv'
    BY <1>3, <2>1, ProcsMove DEF access, files, Phases, Connected
  <2> QED
    BY <1>1, <1>3, <2>1, <2>2, <2>3
    DEF access, files, FilesInv, PipesInv, SentInv, LastInv, WholeMessages, Procs
<1>4. CASE mkfifo(p)
  <2>1. PICK to \in { "opening", "shut" } : Goes(p, "creating", to)
    BY <1>4 DEF mkfifo
  <2>2. pc' \in [Procs -> Phases] /\ pc[p] = "creating" /\ pc'[p] = to
        /\ \A q \in Procs \ {p} : pc'[q] = pc[q]
    BY <2>1, GoesTo DEF Phases
  <2>3. FilesInv' /\ made' >= made /\ made' \in Nat /\ made \in Nat
    <3>1. made \in Nat /\ MaxFifos \in Nat
      BY BoundsAssumption DEF FilesInv
    <3>2. CASE UNCHANGED files
      BY <1>1, <3>1, <3>2 DEF files, FilesInv
    <3>3. CASE /\ path = None /\ made' = made + 1 /\ path' = made + 1
               /\ usable' = IF p \in Writers THEN usable \union {made + 1} ELSE usable
      <4>1. usable' \subseteq 1 .. made'
        BY <3>1, <3>3 DEF FilesInv
      <4> QED
        BY <1>1, <3>1, <3>3, <4>1 DEF FilesInv, None
    <3> QED
      BY <1>4, <3>2, <3>3 DEF mkfifo
  <2>4. UNCHANGED fd
    BY <1>4 DEF mkfifo
  <2>5. ProcsInv'
    BY <2>2, <2>3, <2>4 DEF ProcsInv, Connected
  <2> QED
    BY <1>1, <2>2, <2>3, <2>5 DEF PipesInv, SentInv, LastInv, WholeMessages, Procs
<1>5. CASE open(p)
  <2>1. PICK to \in { "open", "waiting", "shut" } : Goes(p, "opening", to)
    BY <1>5 DEF open
  <2>2. pc' \in [Procs -> Phases] /\ pc[p] = "opening" /\ pc'[p] = to
        /\ \A q \in Procs \ {p} : pc'[q] = pc[q]
    BY <2>1, GoesTo DEF Phases
  <2>3. \/ path # None /\ to # "shut" /\ fd' = [ fd EXCEPT ![p] = path ]
        \/ to = "shut" /\ fd' = fd
    <3>1. CASE path # None /\ (path \in usable \/ Privileged)
      BY <1>5, <2>2, <3>1, GoesTo DEF open, Phases
    <3>2. CASE ~ (path # None /\ (path \in usable \/ Privileged))
      BY <1>5, <2>2, <3>2, GoesTo DEF open, Phases
    <3> QED
      BY <3>1, <3>2
  <2>4. ProcsInv'
    BY <1>5, <2>1, <2>2, <2>3 DEF open, files, FilesInv, ProcsInv, Connected
  <2> QED
    BY <1>1, <1>5, <2>1, <2>2, <2>4
    DEF open, files, FilesInv, PipesInv, SentInv, LastInv, WholeMessages, Procs
<1> QED
  BY <1>3, <1>4, <1>5 DEF Opens

\* A process lets its descriptor go and is shut or dead.
LEMMA LeavesStep ==
  ASSUME IInv, FilesInv', NEW p \in Procs, Releases(p), UNCHANGED << made, sent, last >>,
         NEW to \in { "shut", "dead" }, pc' = [ pc EXCEPT ![p] = to ]
  PROVE  IInv'
<1> USE DEF IInv
<1>1. /\ pc' \in [Procs -> Phases] /\ pc'[p] = to
      /\ \A q \in Procs \ {p} : pc'[q] = pc[q]
  BY DEF ProcsInv, Phases
<1>2. made \in Nat
  BY BoundsAssumption DEF FilesInv
<1>3. ProcsInv' /\ PipesInv'
  BY <1>1, <1>2, ReleaseStep DEF ProcsInv, Connected
<1> QED
  BY <1>1, <1>3 DEF SentInv, LastInv, WholeMessages, Procs

LEMMA CloseStep ==
  ASSUME IInv, NEW p \in Procs, ipc_pipe_close(p)
  PROVE  IInv'
<1>1. FilesInv'
  BY DEF ipc_pipe_close, IInv, FilesInv, None
<1> QED
  BY <1>1, LeavesStep DEF ipc_pipe_close, Goes

LEMMA CrashStep ==
  ASSUME IInv, NEW p \in Procs, Crash(p)
  PROVE  IInv'
<1>1. FilesInv'
  BY BoundsAssumption DEF Crash, files, IInv, FilesInv
<1> QED
  BY <1>1, LeavesStep DEF Crash, files

LEMMA BrokenStep ==
  ASSUME IInv, NEW w \in Writers, BrokenPipe(w)
  PROVE  IInv'
<1>1. FilesInv'
  BY DEF BrokenPipe, files, IInv, FilesInv
<1> QED
  BY <1>1, LeavesStep DEF BrokenPipe, files, Goes, Procs

\* The steps that move a process and touch no file.
LEMMA MovesStep ==
  ASSUME IInv, NEW p \in Procs,
         Restart(p) \/ (p \in Writers /\ (Met(p) \/ BeginSend(p)))
  PROVE  IInv'
<1> USE DEF IInv
<1>1. UNCHANGED << files, made, pipe, fd, last, crashes >>
  BY DEF Restart, Met, BeginSend, files
<1>2. PICK from \in { "dead", "waiting", "open" }, to \in { "shut", "open", "writing" } :
         /\ Goes(p, from, to)
         /\ from \in Connected <=> to \in Connected
         /\ to = "writing" => BeginSend(p) /\ p \in Writers
         /\ to # "writing" => UNCHANGED sent
  BY DEF Restart, Met, BeginSend, Connected
<1>3. /\ pc' \in [Procs -> Phases] /\ pc'[p] = to
      /\ \A q \in Procs \ {p} : pc'[q] = pc[q]
  BY <1>2, GoesTo DEF Phases
<1>4. ProcsInv'
  BY <1>1, <1>2, ProcsMove DEF Phases
<1>5. SentInv'
  <2>1. CASE to # "writing"
    BY <1>2, <1>3, <2>1 DEF SentInv, Procs
  <2>2. CASE to = "writing"
    <3>1. /\ p \in Writers /\ sent[p] < MaxMsgs /\ sent' = [ sent EXCEPT ![p] = @ + 1 ]
      BY <1>2, <2>2 DEF BeginSend
    <3>2. /\ sent' \in [Writers -> 0 .. MaxMsgs] /\ sent'[p] \in 1 .. MaxMsgs
          /\ \A w \in Writers \ {p} : sent'[w] = sent[w]
      BY <3>1, BoundsAssumption DEF SentInv
    <3> QED
      BY <1>3, <3>1, <3>2 DEF SentInv, Procs
  <2> QED
    BY <2>1, <2>2
<1> QED
  BY <1>1, <1>4, <1>5 DEF files, FilesInv, PipesInv, LastInv, WholeMessages

\* The FIFO that a process has open.
LEMMA OpenFifo ==
  ASSUME IInv, NEW p \in Procs, pc[p] \in Connected
  PROVE  fd[p] \in Fifos
BY BoundsAssumption DEF IInv, FilesInv, ProcsInv, Fifos, None

\* One FIFO gets other contents.
LEMMA PipeChanged ==
  ASSUME PipesInv, NEW f \in Fifos, NEW s \in Seq(Byte), Len(s) =< PipeSize, Whole(s),
         pipe' = [ pipe EXCEPT ![f] = s ]
  PROVE  PipesInv'
BY DEF PipesInv

LEMMA WriteStep ==
  ASSUME IInv, NEW w \in Writers, Write(w)
  PROVE  IInv'
<1> USE DEF IInv
<1> DEFINE f == fd[w]
           n == sent[w]
<1>1. /\ Goes(w, "writing", "open") /\ UNCHANGED << files, fd, sent, last, crashes >>
      /\ Len(pipe[f]) + MsgLen =< PipeSize
      /\ pipe' = [ pipe EXCEPT ![f] = pipe[f] \o Message(w, n) ]
  BY DEF Write
<1>2. w \in Procs /\ pc[w] = "writing" /\ f \in Fifos /\ n \in 1 .. MaxMsgs
  BY <1>1, OpenFifo DEF Goes, Procs, Connected, SentInv
<1> HIDE DEF f, n
<1>3. pipe[f] \in Seq(Byte) /\ Whole(pipe[f])
  BY <1>2 DEF PipesInv
<1>4. Message(w, n) \in Seq(Byte) /\ Len(Message(w, n)) = MsgLen
  BY <1>2, MessageType
<1>5. /\ pipe[f] \o Message(w, n) \in Seq(Byte)
      /\ Len(pipe[f] \o Message(w, n)) = Len(pipe[f]) + MsgLen
  BY <1>3, <1>4, ConcatProperties
<1>6. Whole(pipe[f] \o Message(w, n))
  BY <1>2, <1>3, WriteWhole
<1>7. PipesInv'
  BY <1>1, <1>2, <1>5, <1>6, PipeChanged
<1>8. ProcsInv'
  BY <1>1, <1>2, ProcsMove DEF files, Phases, Connected
<1>9. pc'[w] = "open" /\ \A q \in Procs \ {w} : pc'[q] = pc[q]
  BY <1>1, <1>2, GoesTo DEF Phases
<1> QED
  BY <1>1, <1>7, <1>8, <1>9 DEF files, FilesInv, SentInv, LastInv, WholeMessages, Procs

LEMMA RecvStep ==
  ASSUME IInv, NEW r \in Readers, ipc_pipe_recv(r)
  PROVE  IInv'
<1> USE DEF IInv
<1> DEFINE f == fd[r]
           n == Smaller(MsgLen, Len(pipe[f]))
<1>1. /\ pc[r] = "open" /\ UNCHANGED << files, pc, fd, sent, crashes >>
      /\ last' = [ last EXCEPT ![r] = SubSeq(pipe[f], 1, n) ]
      /\ pipe' = [ pipe EXCEPT ![f] = SubSeq(pipe[f], n + 1, Len(pipe[f])) ]
  BY DEF ipc_pipe_recv
<1>2. f \in Fifos
  BY <1>1, OpenFifo DEF Procs, Connected
<1>3. pipe[f] \in Seq(Byte) /\ Whole(pipe[f]) /\ Len(pipe[f]) =< PipeSize
  BY <1>2 DEF PipesInv
<1> DEFINE head == SubSeq(pipe[f], 1, n)
           tail == SubSeq(pipe[f], n + 1, Len(pipe[f]))
<1>4. /\ tail \in Seq(Byte) /\ head \in Seq(Byte) /\ Len(tail) =< Len(pipe[f])
      /\ Whole(tail)
      /\ head = << >> \/ \E w \in Writers, l \in 1 .. MaxMsgs : head = Message(w, l)
  BY <1>3, ReadWhole
<1>5. last' = [ last EXCEPT ![r] = head ] /\ pipe' = [ pipe EXCEPT ![f] = tail ]
  BY <1>1
<1> HIDE DEF head, tail, n, f
<1>6. Len(tail) =< PipeSize
  BY <1>3, <1>4, LenProperties, SizesAssumption
<1>7. PipesInv'
  BY <1>2, <1>4, <1>5, <1>6, PipeChanged
<1>8. LastInv'
  BY <1>4, <1>5 DEF LastInv, WholeMessages
<1> QED
  BY <1>1, <1>7, <1>8 DEF files, FilesInv, ProcsInv, SentInv

LEMMA InvStep ==
  ASSUME IInv, [Next]_vars
  PROVE  IInv'
<1>1. CASE UNCHANGED vars
  BY <1>1 DEF vars, files, IInv, FilesInv, ProcsInv, PipesInv, SentInv, LastInv,
     WholeMessages
<1> QED
  BY <1>1, OpensStep, CloseStep, CrashStep, MovesStep, WriteStep, BrokenStep, RecvStep
  DEF Next, Procs

LEMMA InitInv == Init => IInv
<1> SUFFICES ASSUME Init PROVE IInv
  OBVIOUS
<1>1. FilesInv
  BY BoundsAssumption DEF Init, FilesInv, None
<1>2. ProcsInv
  BY DEF Init, ProcsInv, None, Phases, Connected
<1>3. SentInv
  BY BoundsAssumption DEF Init, SentInv, Procs
<1>4. PipesInv
  <2>1. << >> \in Seq(Byte) /\ Len(<< >>) =< PipeSize
    BY SizesAssumption
  <2> QED
    BY <2>1, EmptyWhole DEF Init, PipesInv
<1>5. LastInv
  BY DEF Init, LastInv, WholeMessages
<1> QED
  BY <1>1, <1>2, <1>3, <1>4, <1>5 DEF IInv

\* No FIFO holds more than its size, and a process has a FIFO open just in the phases
\* after its open call, whoever creates, removes and crashes (ipc.c:17-71).
THEOREM IpcTypes == Spec => []TypeOK
<1>1. IInv => TypeOK
  BY DEF IInv, FilesInv, ProcsInv, PipesInv, SentInv, LastInv, Connected, TypeOK
<1> QED
  BY <1>1, InitInv, InvStep, PTL DEF Spec

\* What a receiver gets is one message of one writer, whole, for every number of
\* writers and every length of a message that the system writes at once, also after
\* crashes (ipc.c:42, 55).
THEOREM MessagesWhole == Spec => []WholeMessages
<1>1. IInv => WholeMessages
  BY DEF IInv, LastInv
<1> QED
  BY <1>1, InitInv, InvStep, PTL DEF Spec
=============================================================================
