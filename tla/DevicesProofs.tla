--------------------------- MODULE DevicesProofs ---------------------------
(***************************************************************************)
(* What serial.c and udp.c keep for every number of descriptors, of        *)
(* addresses and of bytes, and whatever system call fails: descriptors are *)
(* not mixed up, struct and kernel agree, and bytes go out once.           *)
(***************************************************************************)
EXTENDS Devices, SequenceTheorems, TLAPS

-----------------------------------------------------------------------------
\* Which part of the program may take a step

\* The serial port leaves a call of the socket alone, and a call that is over.
LEMMA SerialQuiet ==
  ASSUME SerialNext
  PROVE  /\ pc \in { "returned", "resolving", "sending", "receiving" } => UNCHANGED << pc, rc >>
         /\ pc' \in { "idle", "returned", "writing", "reading", pc }
<1>1. CASE SerialCall
  BY <1>1 DEF SerialCall, serial_open, SetLine, serial_close, serial_set_timeout,
     serial_set_blocking, BeginWrite, BeginRead, serial_bytes_available, SerialRefuses,
     apply_termios, Returns, shared
<1>2. CASE SerialStep
  BY <1>2 DEF SerialStep, WriteSome, ReadSome, WriteRefused, WriteFails, ReadNothing,
     Returns
<1>3. CASE SerialFailure \/ Device
  BY <1>3 DEF SerialFailure, Device, WriteFails, ReadFails, ByteArrives, ByteLeaves,
     Returns, shared
<1> QED
  BY <1>1, <1>2, <1>3 DEF SerialNext

\* The socket leaves a call of the serial port alone, and a call that is over.
LEMMA UdpQuiet ==
  ASSUME UdpNext
  PROVE  /\ pc \in { "returned", "writing", "reading" } => UNCHANGED << pc, rc >>
         /\ pc' \in { "idle", "returned", "resolving", "sending", "receiving", pc }
<1>1. CASE UdpCall
  BY <1>1 DEF UdpCall, Resolve, BeginSend, BeginRecv, udp_close, UdpRefuses, Returns,
     shared
<1>2. CASE UdpStep
  BY <1>2 DEF UdpStep, TryAddress, FinishInit, TryAgain, SendOnce, Returns, shared
<1>3. CASE Network
  BY <1>3 DEF Network, Unreachable, Receive, Returns, shared
<1> QED
  BY <1>1, <1>2, <1>3 DEF UdpNext

-----------------------------------------------------------------------------
\* What a write hands over

\* Only serial_write leaves offsets, and only until it has returned.
WireBuilt ==
  /\ len \in Nat /\ wire \in Seq(Nat)
  /\ \A i \in DOMAIN wire : wire[i] = i
  /\ pc \notin { "writing", "returned" } => wire = << >>
  /\ pc = "returned" /\ rc >= 0 /\ wire # << >> =>
       /\ rc = Len(wire)
       /\ port.blocking => rc = len

\* The loop goes on where it was.
LEMMA Continued ==
  ASSUME wire \in Seq(Nat), \A i \in DOMAIN wire : wire[i] = i,
         NEW n \in Nat, wire' = wire \o [ i \in 1 .. n |-> Offset(i) ]
  PROVE  wire' \in Seq(Nat) /\ \A i \in DOMAIN wire' : wire'[i] = i
<1> DEFINE more == [ i \in 1 .. n |-> Offset(i) ]
<1>1. Len(wire) \in Nat /\ DOMAIN wire = 1 .. Len(wire)
  BY LenProperties
<1>2. \A i \in 1 .. n : Offset(i) \in Nat
  BY <1>1 DEF Offset
<1>3. more \in Seq(Nat) /\ Len(more) = n /\ \A i \in 1 .. n : more[i] = Len(wire) + i
  BY <1>2, IsASeq DEF Offset
<1> HIDE DEF more
<1>4. wire' = wire \o more
  BY DEF more
<1>5. wire' \in Seq(Nat) /\ DOMAIN wire' = 1 .. (Len(wire) + n)
  <2>1. wire' \in Seq(Nat) /\ Len(wire') = Len(wire) + n
    BY <1>3, <1>4, ConcatProperties
  <2> QED
    BY <2>1, LenProperties
<1>6. ASSUME NEW i \in DOMAIN wire' PROVE wire'[i] = i
  <2>1. CASE i =< Len(wire)
    BY <1>1, <1>3, <1>4, <1>5, <2>1, ConcatProperties
  <2>2. CASE i > Len(wire)
    BY <1>1, <1>3, <1>4, <1>5, <2>2, ConcatProperties
  <2> QED
    BY <1>1, <1>5, <2>1, <2>2
<1> QED
  BY <1>5, <1>6

LEMMA WireStep ==
  ASSUME WireBuilt, [Next]_vars
  PROVE  WireBuilt'
<1>1. CASE UNCHANGED vars
  BY <1>1 DEF WireBuilt, vars, shared, serialVars
<1>2. CASE Returned
  BY <1>2 DEF Returned, Return, SerialReturn, WireBuilt
<1>3. CASE SerialPart
  <2>1. CASE \E n \in 1 .. MaxLen : BeginWrite(n) \/ BeginRead(n)
    BY <2>1, BuffersAssumption DEF BeginWrite, BeginRead, WireBuilt
  <2>2. CASE SerialCall /\ UNCHANGED << wire, len >>
    BY <2>2 DEF SerialCall, serial_open, SetLine, serial_close, serial_set_timeout,
       serial_set_blocking, BeginWrite, BeginRead, serial_bytes_available,
       SerialRefuses, apply_termios, Returns, shared, WireBuilt
  <2>3. ASSUME NEW n \in 0 .. MaxRoom, WriteSome(n) PROVE WireBuilt'
    <3>1. n \in Nat /\ wire' = wire \o [ i \in 1 .. n |-> Offset(i) ]
      BY <2>3, BuffersAssumption DEF WriteSome
    <3>2. wire' \in Seq(Nat) /\ \A i \in DOMAIN wire' : wire'[i] = i
      BY <3>1, Continued DEF WireBuilt
    <3> QED
      BY <2>3, <3>2 DEF WriteSome, Returns, WireBuilt
  <2>4. CASE SerialStep /\ ~ \E n \in 0 .. MaxRoom : WriteSome(n)
    BY <2>4 DEF SerialStep, ReadSome, WriteRefused, WriteFails, ReadNothing, Returns,
       serialVars, WireBuilt
  <2>5. CASE SerialFailure \/ Device
    BY <2>5 DEF SerialFailure, Device, WriteFails, ReadFails, ByteArrives, ByteLeaves,
       Returns, shared, serialVars, WireBuilt
  <2>6. SerialCall => UNCHANGED << wire, len >> \/ \E n \in 1 .. MaxLen : BeginWrite(n) \/ BeginRead(n)
    BY DEF SerialCall, serial_open, SetLine, serial_close, serial_set_timeout,
       serial_set_blocking, serial_bytes_available, SerialRefuses, serialVars
  <2> QED
    BY <1>3, <2>1, <2>2, <2>3, <2>4, <2>5, <2>6 DEF SerialPart, SerialNext
<1>4. CASE UdpPart
  BY <1>4, UdpQuiet DEF UdpPart, serialVars, WireBuilt
<1> QED
  BY <1>1, <1>2, <1>3, <1>4 DEF Next

\* However the kernel cuts what it takes, serial_write hands over the buffer from its
\* start, each byte once and in order, and returns how many (serial.c:233-244).
THEOREM WritesHonest == Spec => []WriteHonest
<1>1. Init => WireBuilt
  BY DEF Init, SerialInit, WireBuilt
<1>2. WireBuilt => WriteHonest
  BY DEF WireBuilt, WriteHonest
<1> QED
  BY <1>1, <1>2, WireStep, PTL DEF Spec

-----------------------------------------------------------------------------
\* Types

\* What open and socket hand out.
NewTty       == set_cloexec([ Free EXCEPT !.kind = "tty" ])
NewSocket(n) == set_cloexec([ Free EXCEPT !.kind = "socket", !.peer = n ])

LEMMA NewFiles ==
  /\ NewTty \in File /\ NewTty.kind = "tty" /\ ~ NewTty.nonblock
  /\ Free \in File /\ Free.kind = "free"
BY DEF NewTty, Free, File, set_cloexec

LEMMA NewSockets ==
  ASSUME NEW n \in Nat
  PROVE  /\ NewSocket(n) \in File /\ NewSocket(n).kind = "socket"
         /\ NewSocket(n).peer = n /\ NewSocket(n).cloexec
BY DEF NewSocket, Free, File, set_cloexec

LEMMA Flagged ==
  ASSUME NEW file \in File, NEW enable \in BOOLEAN
  PROVE  /\ set_nonblocking_flag(file, enable) \in File
         /\ set_nonblocking_flag(file, enable).nonblock = enable
         /\ set_nonblocking_flag(file, enable).kind = file.kind
BY DEF set_nonblocking_flag, File

\* The values of the three structs.
FdsType    == fds \in [Numbers -> File]
PortType   == port \in serial_t
TtyType    == tty \in termios
SocketType == udp \in udp_t /\ fd \in {NoFd} \union Numbers

Times == { AsInt(t) : t \in Timeouts } \union {0, 1000}

LEMMA TimesType == Times \subseteq Int
<1>1. ASSUME NEW n \in Timeouts PROVE AsInt(n) \in Int
  BY TimeoutsAssumption, ModulusAssumption DEF AsInt
<1> QED
  BY <1>1 DEF Times

LEMMA NoPortType == NoPort \in serial_t
BY DEF NoPort, serial_t

\* The timer fits its byte.
LEMMA TunedType ==
  ASSUME NEW p \in serial_t, p.line \in GoodLines
  PROVE  Tuned(p) \in termios
<1>1. p.timeout_ms \in Int /\ p.blocking \in BOOLEAN
  BY TimesType DEF serial_t, Times
<1>2. p.timeout_ms > 0 => Tenths(p.timeout_ms) \in 0 .. 255
  BY <1>1 DEF Tenths
<1> QED
  BY <1>1, <1>2 DEF Tuned, termios

\* What the calls of the program do to the struct of the port.
LEMMA PortStep ==
  ASSUME PortType, [Next]_vars
  PROVE  PortType'
<1>1. CASE UNCHANGED port
  BY <1>1 DEF PortType
<1>2. ASSUME NEW line \in Lines, serial_open(line) PROVE PortType'
  <2>1. port' = NoPort \/ \E n \in Numbers : port' = [ fd |-> n, line |-> line,
                              blocking |-> TRUE, timeout_ms |-> 1000 ]
    BY <1>2 DEF serial_open
  <2>2. \A n \in Numbers : [ fd |-> n, line |-> line, blocking |-> TRUE,
                              timeout_ms |-> 1000 ] \in serial_t
    BY DEF serial_t
  <2> QED
    BY <2>1, <2>2, NoPortType DEF PortType
<1>3. ASSUME serial_close PROVE PortType'
  <2>1. port' = NoPort \/ port' = port
    BY <1>3 DEF serial_close
  <2> QED
    BY <2>1, NoPortType DEF PortType
<1>4. ASSUME NEW t \in Timeouts, serial_set_timeout(t) PROVE PortType'
  <2>1. 0 \in Times /\ AsInt(t) \in Times
    BY DEF Times
  <2>2. \E ms \in Times : port' = [ port EXCEPT !.timeout_ms = ms ]
    BY <1>4, <2>1 DEF serial_set_timeout
  <2> QED
    BY <2>2 DEF PortType, serial_t, Times
<1>5. ASSUME NEW blocking \in BOOLEAN, serial_set_blocking(blocking) PROVE PortType'
  BY <1>5 DEF serial_set_blocking, PortType, serial_t
<1>6. ASSUME NEW line \in Lines, SetLine(line) PROVE PortType'
  BY <1>6 DEF SetLine, PortType, serial_t
<1>7. UNCHANGED port \/ SerialCall
  BY DEF Next, vars, Returned, SerialReturn, SerialPart, SerialNext, SerialStep,
     SerialFailure, Device, WriteSome, ReadSome, WriteRefused, WriteFails, ReadFails,
     ReadNothing, ByteArrives, ByteLeaves, UdpPart, serialVars
<1>8. SerialCall => \/ UNCHANGED port
                    \/ \E line \in Lines : serial_open(line) \/ SetLine(line)
                    \/ serial_close
                    \/ \E t \in Timeouts : serial_set_timeout(t)
                    \/ \E blocking \in BOOLEAN : serial_set_blocking(blocking)
  BY DEF SerialCall, BeginWrite, BeginRead, serial_bytes_available, SerialRefuses,
     serialVars
<1> QED
  BY <1>1, <1>2, <1>3, <1>4, <1>5, <1>6, <1>7, <1>8

-----------------------------------------------------------------------------
\* Struct and kernel

\* The settings that the kernel keeps.
LEMMA TtyStep ==
  ASSUME PortType, PortType', SettingsAgree, [Next]_vars
  PROVE  SettingsAgree'
<1>1. CASE UNCHANGED << port, tty, applied >>
  BY <1>1 DEF SettingsAgree, IsOpen
<1>2. CASE applied' = FALSE
  BY <1>2 DEF SettingsAgree
<1>3. ASSUME apply_termios(port') PROVE SettingsAgree'
  BY <1>3 DEF apply_termios, SettingsAgree
<1>4. ASSUME NEW t \in Timeouts, serial_set_timeout(t), ~ port.blocking
      PROVE  SettingsAgree'
  <2>1. port' = [ port EXCEPT !.timeout_ms = 0 ] /\ UNCHANGED << tty, applied >>
    BY <1>4 DEF serial_set_timeout
  <2>2. /\ port'.line = port.line /\ port'.blocking = port.blocking
        /\ port'.fd = port.fd
    BY <2>1 DEF PortType, serial_t
  <2>3. Tuned(port)' = Tuned(port)
    BY <1>4, <2>2 DEF Tuned
  <2> QED
    BY <2>1, <2>2, <2>3 DEF SettingsAgree, IsOpen
<1>5. SerialCall => \/ UNCHANGED << port, tty, applied >>
                    \/ applied' = FALSE
                    \/ apply_termios(port')
                    \/ \E t \in Timeouts : serial_set_timeout(t) /\ ~ port.blocking
  BY DEF SerialCall, serial_open, SetLine, serial_close, serial_set_timeout,
     serial_set_blocking, BeginWrite, BeginRead, serial_bytes_available, SerialRefuses,
     serialVars
<1>6. UNCHANGED << port, tty, applied >> \/ SerialCall
  BY DEF Next, vars, Returned, SerialReturn, SerialPart, SerialNext, SerialStep,
     SerialFailure, Device, WriteSome, ReadSome, WriteRefused, WriteFails, ReadFails,
     ReadNothing, ByteArrives, ByteLeaves, UdpPart, serialVars
<1> QED
  BY <1>1, <1>2, <1>3, <1>4, <1>5, <1>6

LEMMA TtyTypeStep ==
  ASSUME PortType', TtyType, [Next]_vars
  PROVE  TtyType'
<1>1. UNCHANGED tty \/ apply_termios(port')
  BY DEF Next, vars, Returned, SerialReturn, SerialPart, SerialNext, SerialStep,
     SerialFailure, Device, WriteSome, ReadSome, WriteRefused, WriteFails, ReadFails,
     ReadNothing, ByteArrives, ByteLeaves, UdpPart, SerialCall, serial_open, SetLine,
     serial_close, serial_set_timeout, serial_set_blocking, BeginWrite, BeginRead,
     serial_bytes_available, SerialRefuses, serialVars
<1>2. UNCHANGED tty \/ (tty' = Tuned(port') /\ port'.line \in GoodLines)
  BY <1>1 DEF apply_termios
<1> QED
  BY <1>2, TunedType DEF PortType, TtyType

LEMMA PortInit == Init => PortType
BY NoPortType DEF Init, SerialInit, PortType

\* After a call that applied the settings with success, the device is tuned as the
\* struct says, whatever order of modes and timeouts led there (serial.c:198-221).
THEOREM SettingsFollowStruct == Spec => []SettingsAgree
<1>1. Init => PortType /\ SettingsAgree
  BY PortInit DEF Init, SerialInit, SettingsAgree
<1> QED
  BY <1>1, PortStep, TtyStep, PTL DEF Spec

-----------------------------------------------------------------------------
\* Descriptors

\* File n is a socket that udp_init may hand out.
Usable(n) == fds[n].kind = "socket" /\ fds[n].peer > 0 /\ fds[n].cloexec

\* A socket of udp_init or of a struct; the one at hand is in no struct yet.
SocketsOwned ==
  /\ IsConnected => Usable(udp.sockfd) /\ udp.host
  /\ fd # NoFd => Usable(fd)
  /\ pc = "resolving" => udp = NoSocket
  /\ pc # "resolving" => fd = NoFd
  /\ left \in Nat

PortOwned == IsOpen => fds[port.fd].kind = "tty"

Owned == FdsType /\ PortType /\ SocketType /\ SocketsOwned /\ PortOwned /\ ModeAgrees

\* A step that leaves the table and the four numbers alone.
LEMMA OwnedFrame ==
  ASSUME Owned, PortType', UNCHANGED << fds, udp, fd, left >>,
         (pc' = "resolving") <=> (pc = "resolving"),
         port'.fd = port.fd /\ port'.blocking = port.blocking
  PROVE  Owned'
BY DEF Owned, FdsType, SocketType, SocketsOwned, Usable, PortOwned, ModeAgrees, IsOpen,
   IsConnected

\* A number that is not the port's nor a socket's gets another file.
LEMMA OtherFile ==
  ASSUME Owned, NEW n \in Numbers, NEW file \in File,
         fds' = [ fds EXCEPT ![n] = file ]
  PROVE  /\ FdsType'
         /\ fds'[n] = file
         /\ \A m \in Numbers \ {n} : fds'[m] = fds[m]
BY DEF Owned, FdsType

\* The table is changed where no socket is.
LEMMA SerialTable ==
  ASSUME Owned, UNCHANGED << udp, fd, left >>, pc # "resolving", pc' # "resolving",
         NEW n \in Numbers, fds[n].kind # "socket", NEW file \in File,
         fds' = [ fds EXCEPT ![n] = file ]
  PROVE  FdsType' /\ SocketType' /\ SocketsOwned'
<1>1. FdsType' /\ \A m \in Numbers \ {n} : fds'[m] = fds[m]
  BY OtherFile
<1>2. IsConnected => udp.sockfd \in Numbers \ {n}
  BY DEF IsConnected, Owned, SocketType, SocketsOwned, Usable, udp_t
<1>3. IsConnected => fds'[udp.sockfd] = fds[udp.sockfd]
  BY <1>1, <1>2
<1> QED
  BY <1>1, <1>3 DEF Owned, SocketType, SocketsOwned, IsConnected, Usable

LEMMA OpenStep ==
  ASSUME Owned, PortType', UNCHANGED udpVars, NEW line \in Lines, serial_open(line)
  PROVE  Owned'
<1>1. pc = "idle" /\ pc' = "returned" /\ UNCHANGED << udp, fd, left >>
  BY DEF serial_open, Returns, udpVars
<1>2. CASE fds' = fds /\ port' = NoPort
  BY <1>1, <1>2 DEF Owned, FdsType, SocketType, SocketsOwned, Usable, PortOwned,
     ModeAgrees, IsOpen, IsConnected, NoPort
<1>3. ASSUME NEW n \in Numbers, Lowest(n), fds' = Opened(n, NewTty),
             \/ port' = NoPort
             \/ port' = [ fd |-> n, line |-> line, blocking |-> TRUE,
                          timeout_ms |-> 1000 ]
      PROVE  Owned'
  <2>1. fds[n].kind # "socket" /\ fds' = [ fds EXCEPT ![n] = NewTty ]
    BY <1>3 DEF Lowest, Unused, Opened
  <2>2. FdsType' /\ SocketType' /\ SocketsOwned' /\ fds'[n] = NewTty
    BY <1>1, <2>1, NewFiles, SerialTable, OtherFile
  <2>3. fds'[n].kind = "tty" /\ ~ fds'[n].nonblock
    BY <2>2, NewFiles
  <2>4. port'.fd = NoFd \/ (port'.fd = n /\ port'.blocking)
    BY <1>3 DEF NoPort
  <2>5. PortOwned'
    BY <2>3, <2>4 DEF PortOwned, IsOpen
  <2>6. fds'[n].nonblock = FALSE
    BY <2>2, NewFiles DEF File
  <2>7. port'.blocking \in BOOLEAN
    BY DEF PortType, serial_t
  <2>8. ModeAgrees'
    BY <2>4, <2>6, <2>7 DEF ModeAgrees, IsOpen
  <2> QED
    BY <2>2, <2>5, <2>8 DEF Owned
<1> QED
  BY <1>2, <1>3 DEF serial_open, NewTty

LEMMA CloseStep ==
  ASSUME Owned, PortType', UNCHANGED udpVars, serial_close
  PROVE  Owned'
<1>1. pc = "idle" /\ pc' = "returned" /\ UNCHANGED << udp, fd, left >>
  BY DEF serial_close, Returns, udpVars
<1>2. CASE ~ IsOpen
  BY <1>1, <1>2, OwnedFrame DEF serial_close
<1>3. CASE IsOpen
  <2>1. port.fd \in Numbers /\ fds[port.fd].kind # "socket"
    BY <1>3 DEF Owned, PortType, serial_t, IsOpen, PortOwned
  <2>2. fds' = [ fds EXCEPT ![port.fd] = Free ] /\ port' = NoPort
    BY <1>3 DEF serial_close, Closed
  <2>3. FdsType' /\ SocketType' /\ SocketsOwned'
    BY <1>1, <2>1, <2>2, NewFiles, SerialTable
  <2> QED
    BY <2>2, <2>3 DEF Owned, PortOwned, ModeAgrees, IsOpen, NoPort
<1> QED
  BY <1>2, <1>3

LEMMA BlockingStep ==
  ASSUME Owned, PortType', UNCHANGED udpVars, NEW blocking \in BOOLEAN,
         serial_set_blocking(blocking)
  PROVE  Owned'
<1>1. /\ pc = "idle" /\ pc' = "returned" /\ UNCHANGED << udp, fd, left >>
      /\ IsOpen
  BY DEF serial_set_blocking, apply_termios, Returns, udpVars
<1>2. CASE UNCHANGED << fds, port >>
  BY <1>1, <1>2, OwnedFrame
<1>3. CASE /\ fds' = [ fds EXCEPT ![port.fd] = set_nonblocking_flag(@, ~ blocking) ]
           /\ port' = [ port EXCEPT !.blocking = blocking ]
  <2>1. port.fd \in Numbers /\ fds[port.fd].kind = "tty" /\ fds[port.fd] \in File
    BY <1>1 DEF Owned, FdsType, PortType, serial_t, IsOpen, PortOwned
  <2> DEFINE file == set_nonblocking_flag(fds[port.fd], ~ blocking)
  <2>2. file \in File /\ file.nonblock = ~ blocking /\ file.kind = "tty"
    BY <2>1, Flagged
  <2>3. fds' = [ fds EXCEPT ![port.fd] = file ]
    BY <1>3
  <2> HIDE DEF file
  <2>4. FdsType' /\ SocketType' /\ SocketsOwned' /\ fds'[port.fd] = file
    BY <1>1, <2>1, <2>2, <2>3, SerialTable, OtherFile
  <2>5. port'.fd = port.fd /\ port'.blocking = blocking
    BY <1>3 DEF Owned, PortType, serial_t
  <2>6. PortOwned' /\ ModeAgrees'
    BY <2>2, <2>4, <2>5 DEF PortOwned, ModeAgrees
  <2> QED
    BY <2>4, <2>6 DEF Owned
<1> QED
  BY <1>2, <1>3 DEF serial_set_blocking

\* The steps of the serial port.
LEMMA SerialOwned ==
  ASSUME Owned, PortType', SerialPart
  PROVE  Owned'
<1>1. UNCHANGED udpVars /\ UNCHANGED << udp, fd, left >>
  BY DEF SerialPart, udpVars
<1>2. (pc' = "resolving") <=> (pc = "resolving")
  BY SerialQuiet DEF SerialPart
<1>3. CASE UNCHANGED << fds, port >>
  BY <1>1, <1>2, <1>3, OwnedFrame
<1>4. ASSUME NEW t \in Timeouts, serial_set_timeout(t) PROVE Owned'
  <2>1. PICK ms : port' = [ port EXCEPT !.timeout_ms = ms ]
    BY <1>4 DEF serial_set_timeout
  <2>2. port'.fd = port.fd /\ port'.blocking = port.blocking
    BY <2>1 DEF Owned, PortType, serial_t
  <2> QED
    BY <1>1, <1>2, <1>4, <2>2, OwnedFrame DEF serial_set_timeout
<1>5. ASSUME NEW line \in Lines, SetLine(line) PROVE Owned'
  <2>1. port'.fd = port.fd /\ port'.blocking = port.blocking
    BY <1>5 DEF SetLine, Owned, PortType, serial_t
  <2> QED
    BY <1>1, <1>2, <1>5, <2>1, OwnedFrame DEF SetLine, shared
<1>6. \/ UNCHANGED << fds, port >>
      \/ \E line \in Lines : serial_open(line) \/ SetLine(line)
      \/ serial_close
      \/ \E t \in Timeouts : serial_set_timeout(t)
      \/ \E blocking \in BOOLEAN : serial_set_blocking(blocking)
  BY DEF SerialPart, SerialNext, SerialCall, SerialStep, SerialFailure, Device,
     WriteSome, ReadSome, WriteRefused, WriteFails, ReadFails, ReadNothing,
     ByteArrives, ByteLeaves, BeginWrite, BeginRead, serial_bytes_available,
     SerialRefuses, serialVars, shared
<1> QED
  BY <1>1, <1>3, <1>4, <1>5, <1>6, OpenStep, CloseStep, BlockingStep

\* The table is changed where the port is not.
LEMMA UdpTable ==
  ASSUME Owned, UNCHANGED port, NEW n \in Numbers, fds[n].kind # "tty",
         NEW file \in File, fds' = [ fds EXCEPT ![n] = file ]
  PROVE  PortOwned' /\ ModeAgrees'
<1>1. IsOpen => port.fd \in Numbers \ {n}
  BY DEF IsOpen, Owned, PortType, serial_t, PortOwned
<1>2. IsOpen => fds'[port.fd] = fds[port.fd]
  BY <1>1, OtherFile
<1>3. PortOwned /\ ModeAgrees
  BY DEF Owned
<1>4. PortOwned'
  BY <1>2, <1>3 DEF PortOwned, IsOpen
<1>5. ModeAgrees'
  BY <1>2, <1>3 DEF ModeAgrees, IsOpen
<1> QED
  BY <1>4, <1>5

LEMMA ResolveStep ==
  ASSUME Owned, PortType', UNCHANGED serialVars, NEW n \in 1 .. MaxAddrs, Resolve(n)
  PROVE  Owned'
<1>1. /\ pc = "idle" /\ ~ IsConnected /\ UNCHANGED << fds, port >>
      /\ udp' = NoSocket /\ fd' = NoFd /\ left' \in Nat
  BY AddrsAssumption DEF Resolve, serialVars, Owned, SocketsOwned
<1>2. SocketType' /\ SocketsOwned'
  BY <1>1 DEF SocketType, SocketsOwned, IsConnected, NoSocket, udp_t
<1> QED
  BY <1>1, <1>2 DEF Owned, FdsType, PortOwned, ModeAgrees, IsOpen

LEMMA TryStep ==
  ASSUME Owned, PortType', UNCHANGED serialVars, TryAddress
  PROVE  Owned'
<1>1. /\ pc = "resolving" /\ pc' = "resolving" /\ UNCHANGED << port, udp >>
      /\ left \in Nat \ {0} /\ left' \in Nat /\ udp = NoSocket
  BY DEF TryAddress, serialVars, Owned, SocketsOwned
<1>2. CASE fd' = NoFd /\ UNCHANGED fds
  BY <1>1, <1>2 DEF Owned, FdsType, SocketType, SocketsOwned, PortOwned, ModeAgrees,
     IsOpen, IsConnected, NoSocket
<1>3. ASSUME NEW n \in Numbers, Lowest(n), fd' = n, fds' = Opened(n, NewSocket(left))
      PROVE  Owned'
  <2>1. fds[n].kind # "tty" /\ fds' = [ fds EXCEPT ![n] = NewSocket(left) ]
    BY <1>3 DEF Lowest, Unused, Opened
  <2>2. /\ NewSocket(left) \in File /\ NewSocket(left).kind = "socket"
        /\ NewSocket(left).peer > 0 /\ NewSocket(left).cloexec
    BY <1>1, NewSockets
  <2>3. FdsType' /\ fds'[n] = NewSocket(left)
    BY <2>1, <2>2, OtherFile
  <2>4. PortOwned' /\ ModeAgrees'
    BY <1>1, <2>1, <2>2, UdpTable
  <2>5. SocketType' /\ SocketsOwned'
    BY <1>1, <1>3, <2>2, <2>3
    DEF Owned, SocketType, SocketsOwned, IsConnected, NoSocket, Usable
  <2> QED
    BY <2>3, <2>4, <2>5 DEF Owned
<1> QED
  BY <1>2, <1>3 DEF TryAddress, NewSocket

LEMMA FinishStep ==
  ASSUME Owned, PortType', UNCHANGED serialVars, FinishInit
  PROVE  Owned'
<1>1. /\ pc = "resolving" /\ pc' = "returned" /\ UNCHANGED << port, left >>
      /\ udp = NoSocket /\ fd' = NoFd
  BY DEF FinishInit, Returns, serialVars, Owned, SocketsOwned
<1>2. CASE UNCHANGED << fds, udp >>
  BY <1>1, <1>2 DEF Owned, FdsType, SocketType, SocketsOwned, PortOwned, ModeAgrees,
     IsOpen, IsConnected, NoSocket
<1>3. CASE fd # NoFd /\ fds' = Closed(fd) /\ UNCHANGED udp
  <2>1. fd \in Numbers /\ fds[fd].kind # "tty" /\ fds' = [ fds EXCEPT ![fd] = Free ]
    BY <1>3 DEF Owned, SocketType, SocketsOwned, Usable, Closed
  <2>2. FdsType' /\ PortOwned' /\ ModeAgrees'
    BY <1>1, <2>1, NewFiles, OtherFile, UdpTable
  <2> QED
    BY <1>1, <1>3, <2>2 DEF Owned, SocketType, SocketsOwned, IsConnected, NoSocket
<1>4. CASE fd # NoFd /\ udp' = [ sockfd |-> fd, host |-> TRUE ] /\ UNCHANGED fds
  <2>1. SocketType' /\ SocketsOwned'
    BY <1>1, <1>4 DEF Owned, SocketType, SocketsOwned, IsConnected, Usable, udp_t
  <2> QED
    BY <1>1, <1>4, <2>1 DEF Owned, FdsType, PortOwned, ModeAgrees, IsOpen
<1> QED
  BY <1>2, <1>3, <1>4 DEF FinishInit

LEMMA UdpCloseStep ==
  ASSUME Owned, PortType', UNCHANGED serialVars, udp_close
  PROVE  Owned'
<1>1. /\ pc = "idle" /\ pc' = "returned" /\ UNCHANGED << port, fd, left >>
      /\ udp' = NoSocket
  BY DEF udp_close, Returns, serialVars
<1>2. SocketType'
  BY <1>1 DEF Owned, SocketType, SocketsOwned, IsConnected, NoSocket, udp_t
<1>3. SocketsOwned'
  BY <1>1 DEF Owned, SocketsOwned, IsConnected, NoSocket
<1>4. CASE UNCHANGED fds
  BY <1>1, <1>2, <1>3, <1>4 DEF Owned, FdsType, PortOwned, ModeAgrees, IsOpen
<1>5. CASE IsConnected /\ fds' = Closed(udp.sockfd)
  <2>1. /\ udp.sockfd \in Numbers /\ fds[udp.sockfd].kind # "tty"
        /\ fds' = [ fds EXCEPT ![udp.sockfd] = Free ]
    BY <1>5 DEF Owned, SocketType, SocketsOwned, IsConnected, Usable, udp_t, Closed
  <2>2. FdsType' /\ PortOwned' /\ ModeAgrees'
    BY <1>1, <2>1, NewFiles, OtherFile, UdpTable
  <2> QED
    BY <1>2, <1>3, <2>2 DEF Owned
<1> QED
  BY <1>4, <1>5 DEF udp_close

\* The steps of the socket.
LEMMA UdpOwned ==
  ASSUME Owned, PortType', UdpPart
  PROVE  Owned'
<1>1. UNCHANGED serialVars /\ UNCHANGED port
  BY DEF UdpPart, serialVars
<1>2. CASE /\ UNCHANGED << fds, udp, fd, left >>
           /\ (pc' = "resolving") <=> (pc = "resolving")
  BY <1>1, <1>2, OwnedFrame
<1>3. \/ /\ UNCHANGED << fds, udp, fd, left >>
         /\ (pc' = "resolving") <=> (pc = "resolving")
      \/ \E n \in 1 .. MaxAddrs : Resolve(n)
      \/ TryAddress \/ FinishInit \/ udp_close
  BY DEF UdpPart, UdpNext, UdpCall, UdpStep, Network, BeginSend, BeginRecv, UdpRefuses,
     TryAgain, SendOnce, Unreachable, Receive, Returns, shared, udpVars
<1> QED
  BY <1>1, <1>2, <1>3, ResolveStep, TryStep, FinishStep, UdpCloseStep

LEMMA OwnedStep ==
  ASSUME Owned, [Next]_vars
  PROVE  Owned'
<1>1. PortType'
  BY PortStep DEF Owned
<1>2. CASE UNCHANGED vars
  BY <1>1, <1>2, OwnedFrame DEF vars, shared, serialVars, udpVars
<1>3. CASE Returned
  BY <1>1, <1>3, OwnedFrame DEF Returned, Return, SerialReturn, UdpReturn
<1>4. CASE SerialPart
  BY <1>1, <1>4, SerialOwned
<1>5. CASE UdpPart
  BY <1>1, <1>5, UdpOwned
<1> QED
  BY <1>2, <1>3, <1>4, <1>5 DEF Next

LEMMA OwnedInit == Init => Owned
<1> SUFFICES ASSUME Init PROVE Owned
  OBVIOUS
<1>1. FdsType
  BY NewFiles DEF Init, FdsType
<1>2. PortType /\ ~ IsOpen
  BY PortInit DEF Init, SerialInit, NoPort, IsOpen
<1>3. SocketType /\ SocketsOwned
  BY DEF Init, UdpInit, NoSocket, SocketType, SocketsOwned, udp_t, IsConnected
<1> QED
  BY <1>1, <1>2, <1>3 DEF Owned, PortOwned, ModeAgrees

\* The number in a struct names what that struct opened, whatever numbers were given
\* back and handed out again and whatever open failed half way, for every number of
\* addresses and of descriptors (serial.c:176-187, udp.c:41-65).
THEOREM StructsOwnTheirs == Spec => []DescriptorsOwned
<1>1. Owned => DescriptorsOwned
  BY DEF Owned, DescriptorsOwned, PortOwned, SocketsOwned, Usable
<1> QED
  BY <1>1, OwnedInit, OwnedStep, PTL DEF Spec

\* A descriptor waits exactly when the struct says that the port is blocking, also
\* after a serial_set_blocking that failed in either step (serial.c:216-220).
THEOREM ModeFollowsStruct == Spec => []ModeAgrees
<1>1. Owned => ModeAgrees
  BY DEF Owned
<1> QED
  BY <1>1, OwnedInit, OwnedStep, PTL DEF Spec

-----------------------------------------------------------------------------
\* Descriptors that nobody knows any more

\* The numbers that a struct or a call knows.
Known == { port.fd, udp.sockfd, fd }

\* Why file n may be lost.
Excused(n) ==
  \/ fds[n].kind = "tty" /\ no_memory
  \/ fds[n].kind = "socket" /\ fds[n].peer > 1

\* The socket at hand is connected to an address before those not yet tried.
PeerBehind == fd # NoFd => fds[fd].peer > left

Losses == LossesAreKnown /\ PeerBehind

\* A step that forgets no number but of a file that is closed or excused.
LEMMA ForgetsNone ==
  ASSUME LossesAreKnown, no_memory => no_memory',
         \A n \in Numbers :
           \/ fds'[n] = fds[n] /\ (n \in Known => n \in Known')
           \/ n \in Known' \/ fds'[n].kind = "free" \/ Excused(n)'
  PROVE  LossesAreKnown'
BY DEF LossesAreKnown, Lost, Excused, Known

LEMMA MemoryStep ==
  ASSUME [Next]_vars
  PROVE  no_memory => no_memory'
<1>1. no_memory' = no_memory \/ no_memory' = TRUE
  BY DEF Next, vars, Returned, SerialReturn, SerialPart, SerialNext, SerialCall,
     serial_open, SetLine, serial_close, serial_set_timeout, serial_set_blocking,
     BeginWrite, BeginRead, serial_bytes_available, SerialRefuses,
     SerialStep, SerialFailure, Device, WriteSome, ReadSome, WriteRefused, WriteFails,
     ReadFails, ReadNothing, ByteArrives, ByteLeaves, UdpPart, serialVars
<1> QED
  BY <1>1

\* Table and numbers are left alone.
LEMMA LossFrame ==
  ASSUME Losses, [Next]_vars, UNCHANGED << fds, fd, left >>,
         port'.fd = port.fd, udp'.sockfd = udp.sockfd
  PROVE  Losses'
<1>1. LossesAreKnown'
  BY MemoryStep, ForgetsNone DEF Losses, Known
<1> QED
  BY <1>1 DEF Losses, PeerBehind

\* What the calls of the serial port do to the table.
LEMMA SerialLoss ==
  ASSUME Owned, Losses, [Next]_vars, SerialPart
  PROVE  Losses'
<1>1. UNCHANGED << udp, fd, left >> /\ FdsType /\ (IsOpen => port.fd \in Numbers)
  BY DEF SerialPart, udpVars, Owned, PortType, serial_t, IsOpen
<1>2. ASSUME NEW n \in Numbers, NEW file \in File, fds[n].kind # "socket",
             fds' = [ fds EXCEPT ![n] = file ]
      PROVE  PeerBehind' /\ \A m \in Numbers \ {n} : fds'[m] = fds[m]
  <2>1. fds'[n] = file /\ \A m \in Numbers \ {n} : fds'[m] = fds[m]
    BY <1>2, OtherFile
  <2>2. fd # NoFd => fd \in Numbers \ {n}
    BY <1>2 DEF Owned, SocketType, SocketsOwned, Usable
  <2> QED
    BY <1>1, <2>1, <2>2 DEF Losses, PeerBehind
<1>3. ASSUME NEW line \in Lines, serial_open(line) PROVE Losses'
  <2>1. ~ IsOpen
    BY <1>3 DEF serial_open
  <2>2. CASE UNCHANGED fds /\ port' = NoPort
    BY <1>1, <2>1, <2>2, LossFrame DEF IsOpen, NoPort
  <2>3. ASSUME NEW n \in Numbers, Lowest(n), fds' = Opened(n, NewTty),
               port'.fd = n \/ no_memory'
        PROVE  Losses'
    <3>1. fds[n].kind # "socket" /\ fds' = [ fds EXCEPT ![n] = NewTty ]
      BY <2>3 DEF Lowest, Unused, Opened
    <3>2. PeerBehind' /\ \A m \in Numbers \ {n} : fds'[m] = fds[m]
      BY <1>2, <3>1, NewFiles
    <3>3. fds'[n].kind = "tty"
      BY <1>1, <3>1, NewFiles DEF FdsType
    <3>4. \A m \in Numbers \ {n} : m \in Known => m \in Known'
      BY <1>1, <2>1 DEF IsOpen, Known, NoFd, Numbers
    <3>5. n \in Known' \/ Excused(n)'
      BY <2>3, <3>3 DEF Known, Excused
    <3>6. LossesAreKnown'
      BY <3>2, <3>4, <3>5, MemoryStep, ForgetsNone DEF Losses
    <3> QED
      BY <3>2, <3>6 DEF Losses
  <2> QED
    BY <1>3, <2>2, <2>3 DEF serial_open, NewTty
<1>4. ASSUME serial_close, IsOpen PROVE Losses'
  <2>1. /\ fds' = [ fds EXCEPT ![port.fd] = Free ]
        /\ port.fd \in Numbers /\ fds[port.fd].kind # "socket"
    BY <1>1, <1>4 DEF serial_close, Closed, Owned, PortOwned
  <2>2. PeerBehind' /\ \A m \in Numbers \ {port.fd} : fds'[m] = fds[m]
    BY <1>2, <2>1, NewFiles
  <2>3. fds'[port.fd].kind = "free"
    BY <1>1, <2>1, NewFiles DEF FdsType
  <2>4. \A m \in Numbers \ {port.fd} : m \in Known => m \in Known'
    BY <1>1 DEF Known
  <2>5. LossesAreKnown'
    BY <2>2, <2>3, <2>4, MemoryStep, ForgetsNone DEF Losses
  <2> QED
    BY <2>2, <2>5 DEF Losses
<1>5. ASSUME NEW blocking \in BOOLEAN, serial_set_blocking(blocking), ~ UNCHANGED fds
      PROVE  Losses'
  <2> DEFINE file == set_nonblocking_flag(fds[port.fd], ~ blocking)
  <2>1. /\ port.fd \in Numbers /\ fds[port.fd].kind # "socket" /\ fds[port.fd] \in File
        /\ port' = [ port EXCEPT !.blocking = blocking ]
        /\ fds' = [ fds EXCEPT ![port.fd] = file ]
    BY <1>1, <1>5 DEF serial_set_blocking, Owned, PortOwned, FdsType
  <2>2. file \in File /\ port'.fd = port.fd
    <3>1. (~ blocking) \in BOOLEAN
      BY Zenon
    <3>2. file \in File
      BY <2>1, <3>1, Flagged
    <3> QED
      BY <2>1, <3>2 DEF Owned, PortType, serial_t
  <2> HIDE DEF file
  <2>3. PeerBehind' /\ \A m \in Numbers \ {port.fd} : fds'[m] = fds[m]
    BY <1>2, <2>1, <2>2
  <2>4. Known' = Known
    BY <1>1, <2>2 DEF Known
  <2>5. port.fd \in Known'
    BY <2>2 DEF Known
  <2>6. LossesAreKnown'
    BY <2>3, <2>4, <2>5, MemoryStep, ForgetsNone DEF Losses
  <2> QED
    BY <2>3, <2>6 DEF Losses
<1>6. CASE UNCHANGED fds /\ port'.fd = port.fd
  BY <1>1, <1>6, LossFrame
<1>7. port' = [ port EXCEPT !.line = port'.line ] => port'.fd = port.fd
  BY DEF Owned, PortType, serial_t
<1>8. \A b \in BOOLEAN : serial_set_blocking(b) /\ UNCHANGED fds => port'.fd = port.fd
  BY DEF serial_set_blocking, Owned, PortType, serial_t
<1>9. \A t \in Timeouts : serial_set_timeout(t) => UNCHANGED fds /\ port'.fd = port.fd
  BY DEF serial_set_timeout, Owned, PortType, serial_t
<1>10. \A line \in Lines : SetLine(line) => UNCHANGED fds /\ port'.fd = port.fd
  BY DEF SetLine, shared, Owned, PortType, serial_t
<1>11. \/ UNCHANGED << fds, port >>
       \/ \E line \in Lines : serial_open(line) \/ SetLine(line)
       \/ serial_close /\ IsOpen
       \/ \E t \in Timeouts : serial_set_timeout(t)
       \/ \E blocking \in BOOLEAN : serial_set_blocking(blocking)
  BY DEF SerialPart, SerialNext, SerialCall, SerialStep, SerialFailure, Device,
     WriteSome, ReadSome, WriteRefused, WriteFails, ReadFails, ReadNothing,
     ByteArrives, ByteLeaves, BeginWrite, BeginRead, serial_bytes_available,
     SerialRefuses, serialVars, shared, serial_close
<1> QED
  BY <1>3, <1>4, <1>5, <1>6, <1>8, <1>9, <1>10, <1>11

\* A socket that another takes the place of was connected to an earlier address.
LEMMA TryLoss ==
  ASSUME Owned, Losses, [Next]_vars, UNCHANGED serialVars, TryAddress
  PROVE  Losses'
<1>1. /\ UNCHANGED << port, udp >> /\ FdsType /\ left \in Nat \ {0} /\ left' = left - 1
      /\ fd # NoFd => fd \in Numbers /\ fds[fd].kind = "socket" /\ fds[fd].peer > left
  BY DEF TryAddress, serialVars, Owned, SocketType, SocketsOwned, Usable, Losses,
     PeerBehind
<1>2. fd # NoFd => fds[fd] \in File /\ fds[fd].peer \in Nat
  BY <1>1 DEF FdsType, File
<1>3. fd # NoFd => fds[fd].kind = "socket" /\ fds[fd].peer > 1
  BY <1>1, <1>2
<1>4. \A m \in Numbers \ {fd} : m \in Known => m \in Known'
  BY <1>1 DEF Known
<1>5. CASE fd' = NoFd /\ UNCHANGED fds
  <2>1. \A m \in Numbers : m = fd => Excused(m)'
    BY <1>3, <1>5 DEF Excused, Numbers, NoFd
  <2>2. LossesAreKnown'
    BY <1>4, <1>5, <2>1, MemoryStep, ForgetsNone DEF Losses
  <2> QED
    BY <1>5, <2>2 DEF Losses, PeerBehind
<1>6. ASSUME NEW n \in Numbers, Lowest(n), fd' = n, fds' = Opened(n, NewSocket(left))
      PROVE  Losses'
  <2>1. NewSocket(left) \in File /\ NewSocket(left).peer = left
    BY <1>1, NewSockets
  <2>2. fds'[n] = NewSocket(left) /\ \A m \in Numbers \ {n} : fds'[m] = fds[m]
    BY <1>6, <2>1, OtherFile DEF Opened
  <2>3. fds[n].kind # "socket" /\ n \in Known'
    BY <1>6 DEF Lowest, Unused, Known
  <2>4. \A m \in Numbers : m = fd => Excused(m)'
    BY <1>1, <1>3, <2>2, <2>3 DEF Excused, Numbers, NoFd
  <2>5. LossesAreKnown'
    BY <1>4, <2>2, <2>3, <2>4, MemoryStep, ForgetsNone DEF Losses
  <2>6. PeerBehind'
    BY <1>1, <1>6, <2>1, <2>2 DEF PeerBehind
  <2> QED
    BY <2>5, <2>6 DEF Losses
<1> QED
  BY <1>5, <1>6 DEF TryAddress, NewSocket

\* A number that udp.c closes is forgotten with its file.
LEMMA ClosedLoss ==
  ASSUME Owned, Losses, [Next]_vars, NEW n \in Numbers, fds' = Closed(n), fd' = NoFd,
         \A m \in Numbers \ {n} : m \in Known => m \in Known'
  PROVE  Losses'
<1>1. fds'[n] = Free /\ \A m \in Numbers \ {n} : fds'[m] = fds[m]
  BY NewFiles, OtherFile DEF Closed
<1>2. fds'[n].kind = "free"
  BY <1>1, NewFiles
<1>3. LossesAreKnown'
  BY <1>1, <1>2, MemoryStep, ForgetsNone DEF Losses
<1> QED
  BY <1>3 DEF Losses, PeerBehind

\* What the calls of the socket do to the table.
LEMMA UdpLoss ==
  ASSUME Owned, Losses, [Next]_vars, UdpPart
  PROVE  Losses'
<1>1. UNCHANGED serialVars /\ UNCHANGED port
  BY DEF UdpPart, serialVars
<1>2. CASE UNCHANGED << fds, udp, fd, left >>
  BY <1>1, <1>2, LossFrame
<1>3. ASSUME NEW n \in 1 .. MaxAddrs, Resolve(n) PROVE Losses'
  <2>1. fd = NoFd /\ fd' = NoFd /\ UNCHANGED fds /\ udp'.sockfd = udp.sockfd
    BY <1>3 DEF Resolve, Owned, SocketsOwned, IsConnected, NoSocket
  <2>2. LossesAreKnown'
    BY <1>1, <2>1, MemoryStep, ForgetsNone DEF Losses, Known
  <2> QED
    BY <2>1, <2>2 DEF Losses, PeerBehind
<1>4. ASSUME FinishInit PROVE Losses'
  <2>1. udp = NoSocket /\ udp.sockfd = NoFd /\ fd' = NoFd
    BY <1>4 DEF FinishInit, Owned, SocketsOwned, NoSocket
  <2>2. CASE fd = NoFd /\ UNCHANGED << fds, udp >>
    <3>1. LossesAreKnown'
      BY <1>1, <2>1, <2>2, MemoryStep, ForgetsNone DEF Losses, Known
    <3> QED
      BY <2>1, <3>1 DEF Losses, PeerBehind
  <2>3. CASE fd # NoFd /\ fds' = Closed(fd) /\ UNCHANGED udp
    <3>1. fd \in Numbers /\ \A m \in Numbers \ {fd} : m \in Known => m \in Known'
      BY <1>1, <2>3 DEF Owned, SocketType, Known
    <3> QED
      BY <2>1, <2>3, <3>1, ClosedLoss
  <2>4. CASE udp' = [ sockfd |-> fd, host |-> TRUE ] /\ UNCHANGED fds
    <3>1. \A m \in Numbers : m \in Known => m \in Known'
      BY <1>1, <2>1, <2>4 DEF Known, Numbers, NoFd
    <3>2. LossesAreKnown'
      BY <2>4, <3>1, MemoryStep, ForgetsNone DEF Losses
    <3> QED
      BY <2>1, <3>2 DEF Losses, PeerBehind
  <2> QED
    BY <1>4, <2>2, <2>3, <2>4 DEF FinishInit
<1>5. ASSUME udp_close PROVE Losses'
  <2>1. fd = NoFd /\ UNCHANGED << fd, left >> /\ udp'.sockfd = NoFd
    BY <1>5 DEF udp_close, Owned, SocketsOwned, NoSocket
  <2>2. CASE ~ IsConnected
    BY <1>1, <1>5, <2>1, <2>2, LossFrame DEF udp_close, IsConnected
  <2>3. CASE IsConnected
    <3>1. udp.sockfd \in Numbers /\ fds' = Closed(udp.sockfd)
      BY <1>5, <2>3 DEF udp_close, Owned, SocketType, udp_t, IsConnected
    <3>2. \A m \in Numbers \ {udp.sockfd} : m \in Known => m \in Known'
      BY <1>1, <2>1 DEF Known
    <3> QED
      BY <2>1, <3>1, <3>2, ClosedLoss
  <2> QED
    BY <2>2, <2>3
<1>6. \/ UNCHANGED << fds, udp, fd, left >>
      \/ \E n \in 1 .. MaxAddrs : Resolve(n)
      \/ TryAddress \/ FinishInit \/ udp_close
  BY DEF UdpPart, UdpNext, UdpCall, UdpStep, Network, BeginSend, BeginRecv, UdpRefuses,
     TryAgain, SendOnce, Unreachable, Receive, Returns, shared, udpVars
<1> QED
  BY <1>1, <1>2, <1>3, <1>4, <1>5, <1>6, TryLoss

\* However many numbers and addresses there are and whatever call fails, a descriptor
\* is lost in two ways only: a serial device when strdup failed (serial.c:183), and a
\* socket connected to an address before the last of its host (udp.c:41-50).
THEOREM LossesKnown == Spec => []LossesAreKnown
<1>1. Init => Losses
  BY DEF Init, UdpInit, Losses, LossesAreKnown, Lost, PeerBehind, Free
<1>2. ASSUME Owned, Losses, [Next]_vars PROVE Losses'
  <2>1. CASE UNCHANGED vars
    BY <1>2, <2>1, LossFrame DEF vars, shared, serialVars, udpVars
  <2>2. CASE Returned
    BY <1>2, <2>2, LossFrame DEF Returned, Return, SerialReturn, UdpReturn
  <2> QED
    BY <1>2, <2>1, <2>2, SerialLoss, UdpLoss DEF Next
<1>3. Losses => LossesAreKnown
  BY DEF Losses
<1> QED
  BY <1>1, <1>2, <1>3, OwnedInit, OwnedStep, PTL DEF Spec

-----------------------------------------------------------------------------
\* All the types together

SerialTypes ==
  /\ rx \in 0 .. MaxRx /\ room \in 0 .. MaxRoom /\ len \in 0 .. MaxLen

UdpTypes ==
  /\ left \in 0 .. MaxAddrs /\ owed \in 0 .. MaxOwed

Flags ==
  /\ applied \in BOOLEAN /\ no_memory \in BOOLEAN
  /\ too_big \in BOOLEAN /\ error \in BOOLEAN

CallTypes ==
  /\ pc \in { "idle", "returned", "writing", "reading", "resolving", "sending",
              "receiving" }
  /\ rc \in Int

LEMMA SerialTypesStep ==
  ASSUME SerialTypes, [Next]_vars
  PROVE  SerialTypes'
<1> USE BuffersAssumption
<1>1. CASE UNCHANGED serialVars
  BY <1>1 DEF serialVars, SerialTypes
<1>2. CASE Returned
  BY <1>2 DEF Returned, SerialReturn, SerialTypes
<1>3. CASE SerialCall
  <2>1. CASE \E line \in Lines : serial_open(line) \/ SetLine(line)
    BY <2>1 DEF serial_open, SetLine, SerialTypes
  <2>2. CASE serial_close \/ serial_bytes_available \/ SerialRefuses
    BY <2>2 DEF serial_close, serial_bytes_available, SerialRefuses, serialVars,
       SerialTypes
  <2>3. CASE \E t \in Timeouts : serial_set_timeout(t)
    BY <2>3 DEF serial_set_timeout, apply_termios, SerialTypes
  <2>4. CASE \E blocking \in BOOLEAN : serial_set_blocking(blocking)
    BY <2>4 DEF serial_set_blocking, apply_termios, SerialTypes
  <2>5. CASE \E n \in 1 .. MaxLen : BeginWrite(n) \/ BeginRead(n)
    BY <2>5 DEF BeginWrite, BeginRead, SerialTypes
  <2> QED
    BY <1>3, <2>1, <2>2, <2>3, <2>4, <2>5 DEF SerialCall
<1>4. CASE SerialStep
  BY <1>4 DEF SerialStep, WriteSome, ReadSome, WriteRefused, WriteFails, ReadNothing,
     serialVars, SerialTypes
<1>5. CASE SerialFailure \/ Device
  BY <1>5 DEF SerialFailure, Device, WriteFails, ReadFails, ByteArrives, ByteLeaves,
     serialVars, SerialTypes
<1> QED
  BY <1>1, <1>2, <1>3, <1>4, <1>5 DEF Next, SerialPart, SerialNext, UdpPart, vars

LEMMA UdpTypesStep ==
  ASSUME UdpTypes, [Next]_vars
  PROVE  UdpTypes'
<1> USE AddrsAssumption
<1>1. CASE UNCHANGED udpVars
  BY <1>1 DEF udpVars, UdpTypes
<1>2. CASE Returned
  BY <1>2 DEF Returned, UdpReturn, UdpTypes
<1>3. CASE UdpCall
  BY <1>3 DEF UdpCall, Resolve, BeginSend, BeginRecv, udp_close, UdpRefuses, udpVars,
     UdpTypes
<1>4. CASE UdpStep
  BY <1>4 DEF UdpStep, TryAddress, FinishInit, TryAgain, SendOnce, UdpTypes
<1>5. CASE Network
  BY <1>5 DEF Network, Unreachable, Receive, udpVars, UdpTypes
<1> QED
  BY <1>1, <1>2, <1>3, <1>4, <1>5 DEF Next, SerialPart, UdpNext, UdpPart, vars

LEMMA FlagsStep ==
  ASSUME Flags, [Next]_vars
  PROVE  Flags'
<1>1. UNCHANGED applied \/ applied' = FALSE \/ applied' = TRUE
  BY DEF Next, vars, Returned, SerialReturn, SerialPart, SerialNext, SerialCall,
     serial_open, SetLine, serial_close, serial_set_timeout, serial_set_blocking,
     apply_termios, BeginWrite, BeginRead, serial_bytes_available, SerialRefuses,
     SerialStep, SerialFailure, Device, WriteSome, ReadSome, WriteRefused, WriteFails,
     ReadFails, ReadNothing, ByteArrives, ByteLeaves, UdpPart, serialVars
<1>2. UNCHANGED no_memory \/ no_memory' = TRUE
  BY DEF Next, vars, Returned, SerialReturn, SerialPart, SerialNext, SerialCall,
     serial_open, SetLine, serial_close, serial_set_timeout, serial_set_blocking,
     BeginWrite, BeginRead, serial_bytes_available, SerialRefuses,
     SerialStep, SerialFailure, Device, WriteSome, ReadSome, WriteRefused, WriteFails,
     ReadFails, ReadNothing, ByteArrives, ByteLeaves, UdpPart, serialVars
<1>3. UNCHANGED too_big \/ too_big' \in BOOLEAN
  BY DEF Next, vars, Returned, UdpReturn, SerialPart, UdpPart, UdpNext, UdpCall, Resolve,
     BeginSend, BeginRecv, udp_close, UdpRefuses, UdpStep, TryAddress, FinishInit,
     TryAgain, SendOnce, Network, Unreachable, Receive, udpVars
<1>4. UNCHANGED error \/ error' = FALSE \/ error' = TRUE
  BY DEF Next, vars, Returned, UdpReturn, SerialPart, UdpPart, UdpNext, UdpCall, Resolve,
     BeginSend, BeginRecv, udp_close, UdpRefuses, UdpStep, TryAddress, FinishInit,
     TryAgain, SendOnce, Network, Unreachable, Receive, udpVars
<1> QED
  BY <1>1, <1>2, <1>3, <1>4, Zenon DEF Flags

LEMMA CallTypesStep ==
  ASSUME CallTypes, WireBuilt', SerialTypes, [Next]_vars
  PROVE  CallTypes'
<1>1. CASE UNCHANGED << pc, rc >>
  BY <1>1 DEF CallTypes
<1>2. CASE Returned
  BY <1>2 DEF Returned, Return, CallTypes
<1>3. CASE SerialCall
  BY <1>3 DEF SerialCall, serial_open, SetLine, serial_close, serial_set_timeout,
     serial_set_blocking, BeginWrite, BeginRead, serial_bytes_available, SerialRefuses,
     apply_termios, Returns, shared, CallTypes
<1>4. CASE SerialStep
  <2>1. Len(wire') \in Int
    BY LenProperties DEF WireBuilt
  <2> QED
    BY <1>4, <2>1, BuffersAssumption DEF SerialStep, WriteSome, ReadSome, WriteRefused,
       WriteFails, ReadNothing, Returns, CallTypes
<1>5. CASE SerialFailure
  BY <1>5 DEF SerialFailure, WriteFails, ReadFails, Returns, CallTypes
<1>6. CASE UdpCall
  BY <1>6 DEF UdpCall, Resolve, BeginSend, BeginRecv, udp_close, UdpRefuses, Returns,
     CallTypes
<1>7. CASE UdpStep
  BY <1>7 DEF UdpStep, TryAddress, FinishInit, TryAgain, SendOnce, Returns, shared,
     CallTypes
<1>8. CASE Receive
  BY <1>8 DEF Receive, Returns, CallTypes
<1>9. CASE Device \/ Unreachable
  BY <1>9 DEF Device, ByteArrives, ByteLeaves, Unreachable, shared, CallTypes
<1>10. \/ UNCHANGED << pc, rc >> \/ Returned \/ SerialCall \/ SerialStep
       \/ SerialFailure \/ UdpCall \/ UdpStep \/ Receive \/ Device \/ Unreachable
  BY DEF Next, SerialPart, SerialNext, UdpPart, UdpNext, Network, vars, shared
<1> QED
  BY <1>1, <1>2, <1>3, <1>4, <1>5, <1>6, <1>7, <1>8, <1>9, <1>10

\* What the types rest on: the descriptors and the bytes handed over.
IInv ==
  /\ SerialTypes /\ UdpTypes /\ Flags /\ CallTypes
  /\ Owned /\ TtyType /\ WireBuilt

LEMMA InitIInv == Init => IInv
<1> SUFFICES ASSUME Init PROVE IInv
  OBVIOUS
<1>1. SerialTypes /\ TtyType /\ WireBuilt
  BY BuffersAssumption DEF Init, SerialInit, SerialTypes, TtyType, termios, WireBuilt
<1>2. UdpTypes
  BY AddrsAssumption DEF Init, UdpInit, UdpTypes
<1>3. CallTypes
  BY DEF Init, CallTypes
<1>4. Flags
  BY Zenon DEF Init, SerialInit, UdpInit, Flags
<1> QED
  BY <1>1, <1>2, <1>3, <1>4, OwnedInit DEF IInv

\* The structs, the kernel's settings and the table have the types of serial.h and
\* udp.h, and the timer of a read fits its byte (serial.c:143).
THEOREM DevicesTypes == Spec => []TypeOK
<1>1. ASSUME IInv, [Next]_vars PROVE IInv'
  <2>1. SerialTypes' /\ UdpTypes' /\ Flags' /\ WireBuilt'
    BY <1>1, SerialTypesStep, UdpTypesStep, FlagsStep, WireStep DEF IInv
  <2>2. Owned'
    BY <1>1, OwnedStep DEF IInv
  <2>3. CallTypes'
    BY <1>1, <2>1, CallTypesStep DEF IInv
  <2>4. TtyType'
    BY <1>1, <2>2, TtyTypeStep DEF IInv, Owned
  <2> QED
    BY <2>1, <2>2, <2>3, <2>4 DEF IInv
<1>2. IInv => TypeOK
  BY DEF IInv, SerialTypes, UdpTypes, Flags, CallTypes, Owned, FdsType, PortType, SocketType,
     TtyType, WireBuilt, TypeOK
<1> QED
  BY <1>1, <1>2, InitIInv, PTL DEF Spec
=============================================================================
