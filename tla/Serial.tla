------------------------------- MODULE Serial -------------------------------
(***************************************************************************)
(* The serial port of RJOS, serial.c: the program's struct, the settings   *)
(* that the kernel keeps for the device, and the loops of serial_write and *)
(* serial_read.  Each system call may fail.  The speed, the data and stop  *)
(* bits, the parity and the flow control are one value, the line, of which *)
(* apply_termios accepts those in GoodLines.                               *)
(***************************************************************************)
EXTENDS Descriptors, Sequences

CONSTANTS Lines,       \* speeds and frames that the program may ask for
          GoodLines,   \* those that map_baud and the two switches accept
          Timeouts,    \* given to serial_set_timeout
          INT_MODULUS, \* 2^32: a uint32_t becomes an int modulo this
          MaxLen,      \* of a buffer given to serial_write and serial_read
          MaxRx,       \* bytes that the kernel keeps for the program
          MaxRoom      \* bytes that the kernel takes from the program

ASSUME LinesAssumption    == GoodLines \subseteq Lines /\ "cooked" \notin Lines
                             /\ "none" \notin Lines
ASSUME ModulusAssumption  == INT_MODULUS \in Nat \ {0} /\ INT_MODULUS % 2 = 0
ASSUME TimeoutsAssumption == Timeouts \subseteq 0 .. INT_MODULUS - 1
ASSUME BuffersAssumption  == MaxLen \in Nat /\ MaxRx \in Nat /\ MaxRoom \in Nat

VARIABLES port,
          tty,       \* the kernel's settings of the device: they outlive a close
          rx, room,  \* bytes to read, and room for bytes to write
          len,       \* of the buffer of the call
          wire,      \* the offsets of the bytes that the kernel took in the call
          applied,   \* history: the settings of the struct were last applied with success
          no_memory  \* history: strdup has failed in serial_open

serialVars == << port, tty, rx, room, len, wire, applied, no_memory >>

\* A uint32_t stored in an int.
AsInt(n) == IF n < INT_MODULUS \div 2 THEN n ELSE n - INT_MODULUS

serial_t == [ fd         : {NoFd} \union Numbers,
              line       : Lines \union {"none"},
              blocking   : BOOLEAN,
              timeout_ms : { AsInt(t) : t \in Timeouts } \union { 0, 1000 } ]

termios == [ line : GoodLines \union {"cooked"}, VMIN : {0, 1}, VTIME : 0 .. 255 ]

NoPort == [ fd |-> NoFd, line |-> "none", blocking |-> TRUE, timeout_ms |-> 0 ]

IsOpen == port.fd # NoFd

SerialInit ==
  /\ port = NoPort
  /\ tty = [ line |-> "cooked", VMIN |-> 1, VTIME |-> 0 ]
  /\ rx = 0 /\ room = MaxRoom
  /\ len = 0 /\ wire = << >>
  /\ applied = FALSE /\ no_memory = FALSE

-----------------------------------------------------------------------------
\* Opening and closing

\* A failure of set_cloexec is ignored, and no property looks for the flag on a tty.
serial_open(line) ==
  /\ pc = "idle" /\ ~ IsOpen
  /\ \/ /\ Returns(-1)                                    \* open fails
        /\ port' = NoPort
        /\ UNCHANGED << fds, no_memory >>
     \/ \E n \in Numbers :
          /\ Lowest(n)
          /\ fds' = Opened(n, set_cloexec([ Free EXCEPT !.kind = "tty" ]))
          /\ \/ /\ Returns(0)
                /\ port' = [ fd |-> n, line |-> line, blocking |-> TRUE,
                             timeout_ms |-> 1000 ]
                /\ UNCHANGED no_memory
             \/ /\ Returns(-1)                            \* strdup fails
                /\ port' = NoPort
                /\ no_memory' = TRUE
  /\ applied' = FALSE
  /\ UNCHANGED << tty, rx, room, len, wire >>

\* Variant with a bug: the struct keeps the number of the closed descriptor.
Close_KeepsNumber ==
  /\ pc = "idle"
  /\ IF IsOpen
     THEN Returns(0) /\ fds' = Closed(port.fd) /\ port' = [ NoPort EXCEPT !.fd = port.fd ]
     ELSE Returns(-1) /\ UNCHANGED << fds, port >>
  /\ applied' = FALSE
  /\ UNCHANGED << tty, rx, room, len, wire, no_memory >>

serial_close ==
  /\ pc = "idle"
  /\ IF IsOpen
     THEN Returns(0) /\ fds' = Closed(port.fd) /\ port' = NoPort
     ELSE Returns(-1) /\ UNCHANGED << fds, port >>
  /\ applied' = FALSE
  /\ UNCHANGED << tty, rx, room, len, wire, no_memory >>

-----------------------------------------------------------------------------
\* Settings

\* Variant with a bug: a tenth of a second too many for a byte is not cut off.
Tenths_Unbounded(timeout_ms) ==
  IF timeout_ms \div 100 = 0 THEN 1 ELSE timeout_ms \div 100

\* The timer of a read, in tenths of a second.
Tenths(timeout_ms) ==
  LET ds == timeout_ms \div 100
  IN  IF ds = 0 THEN 1 ELSE IF ds > 255 THEN 255 ELSE ds

\* The settings that apply_termios makes of a struct.
Tuned(p) ==
  LET forever == p.blocking /\ p.timeout_ms =< 0
      timed   == p.blocking /\ p.timeout_ms > 0
  IN  [ line  |-> p.line,
        VMIN  |-> IF forever THEN 1 ELSE 0,
        VTIME |-> IF timed THEN Tenths(p.timeout_ms) ELSE 0 ]

\* Applies the struct p; the input that waits is thrown away.
apply_termios(p) ==
  \/ /\ p.line \in GoodLines
     /\ Returns(0)
     /\ tty' = Tuned(p)
     /\ rx' = 0
     /\ applied' = TRUE
  \/ /\ Returns(-1)
     /\ applied' = FALSE
     /\ UNCHANGED << tty, rx >>

\* Variant with a bug: the new timeout is stored and not applied.
SetTimeout_Stored(timeout_ms) ==
  /\ pc = "idle" /\ IsOpen
  /\ port' = [ port EXCEPT !.timeout_ms = AsInt(timeout_ms) ]
  /\ Returns(0)
  /\ UNCHANGED << fds, tty, rx, applied, room, len, wire, no_memory >>

serial_set_timeout(timeout_ms) ==
  /\ pc = "idle" /\ IsOpen
  /\ IF port.blocking
     THEN /\ port' = [ port EXCEPT !.timeout_ms = AsInt(timeout_ms) ]
          /\ apply_termios(port')
     ELSE /\ port' = [ port EXCEPT !.timeout_ms = 0 ]
          /\ Returns(0)
          /\ UNCHANGED << tty, rx, applied >>
  /\ UNCHANGED << fds, room, len, wire, no_memory >>

\* Variant with a bug: the struct is changed before the flag, which may fail.
SetBlocking_StructFirst(blocking) ==
  /\ pc = "idle" /\ IsOpen
  /\ port' = [ port EXCEPT !.blocking = blocking ]
  /\ \/ Returns(-1) /\ UNCHANGED << fds, tty, rx, applied >>
     \/ /\ fds' = [ fds EXCEPT ![port.fd] = set_nonblocking_flag(@, ~ blocking) ]
        /\ apply_termios(port')
  /\ UNCHANGED << room, len, wire, no_memory >>

serial_set_blocking(blocking) ==
  /\ pc = "idle" /\ IsOpen
  /\ \/ Returns(-1) /\ UNCHANGED << fds, port, tty, rx, applied >>   \* fcntl fails
     \/ /\ fds' = [ fds EXCEPT ![port.fd] = set_nonblocking_flag(@, ~ blocking) ]
        /\ port' = [ port EXCEPT !.blocking = blocking ]
        /\ apply_termios(port')
  /\ UNCHANGED << room, len, wire, no_memory >>

\* The program writes the other fields of the struct, for which there is no function.
SetLine(line) ==
  /\ pc = "idle" /\ IsOpen
  /\ port' = [ port EXCEPT !.line = line ]
  /\ applied' = FALSE
  /\ UNCHANGED << shared, tty, rx, room, len, wire, no_memory >>

-----------------------------------------------------------------------------
\* Writing

BeginWrite(n) ==
  /\ pc = "idle" /\ IsOpen
  /\ pc' = "writing"
  /\ len' = n
  /\ UNCHANGED << fds, rc, port, tty, rx, room, wire, applied, no_memory >>

\* Variant with a bug: every write begins at the start of the buffer.
Offset_Start(i) == i

\* The offset of the i-th byte of the next write: the loop goes on after total bytes.
Offset(i) == Len(wire) + i

\* write takes n bytes, perhaps none; a non-blocking port does not try again.
WriteSome(n) ==
  /\ pc = "writing"
  /\ n =< room /\ Len(wire) + n =< len
  /\ wire' = wire \o [ i \in 1 .. n |-> Offset(i) ]
  /\ room' = room - n
  /\ IF Len(wire') = len \/ ~ port.blocking
     THEN Returns(Len(wire'))
     ELSE UNCHANGED << pc, rc >>
  /\ UNCHANGED << fds, port, tty, rx, len, applied, no_memory >>

WriteFails ==
  /\ pc = "writing"
  /\ Returns(-1)
  /\ UNCHANGED << fds, serialVars >>

\* EAGAIN: there is no room, and the descriptor does not wait.
WriteRefused ==
  /\ pc = "writing"
  /\ fds[port.fd].nonblock /\ room = 0
  /\ WriteFails

-----------------------------------------------------------------------------
\* Reading

BeginRead(n) ==
  /\ pc = "idle" /\ IsOpen
  /\ pc' = "reading"
  /\ len' = n
  /\ UNCHANGED << fds, rc, port, tty, rx, room, wire, applied, no_memory >>

ReadSome(n) ==
  /\ pc = "reading"
  /\ n =< rx /\ n =< len
  /\ rx' = rx - n
  /\ Returns(n)
  /\ UNCHANGED << fds, port, tty, room, len, wire, applied, no_memory >>

ReadFails ==
  /\ pc = "reading"
  /\ Returns(-1)
  /\ UNCHANGED << fds, serialVars >>

\* The kernel makes the read wait until a byte comes, and without a timer.
WaitsForever == rx = 0 /\ tty.VMIN = 1 /\ ~ fds[port.fd].nonblock

\* Nothing came: 0 when the timer has run out or is 0, else EAGAIN.
ReadNothing ==
  /\ pc = "reading"
  /\ rx = 0 /\ ~ WaitsForever
  /\ Returns(IF fds[port.fd].nonblock /\ tty.VMIN + tty.VTIME > 0 THEN -1 ELSE 0)
  /\ UNCHANGED << fds, serialVars >>

serial_bytes_available ==
  /\ pc = "idle" /\ IsOpen
  /\ \E value \in {0, -1} : Returns(value)
  /\ UNCHANGED << fds, serialVars >>

\* Bad arguments, or a port that is not open, -1; a buffer of no bytes, 0: nothing
\* happens.
SerialRefuses ==
  /\ pc = "idle"
  /\ Returns(-1) \/ (IsOpen /\ Returns(0))
  /\ UNCHANGED << fds, serialVars >>

-----------------------------------------------------------------------------
\* The device sends and takes bytes.
ByteArrives ==
  /\ IsOpen /\ rx < MaxRx
  /\ rx' = rx + 1
  /\ UNCHANGED << shared, port, tty, room, len, wire, applied, no_memory >>

ByteLeaves ==
  /\ room < MaxRoom
  /\ room' = room + 1
  /\ UNCHANGED << shared, port, tty, rx, len, wire, applied, no_memory >>

\* What the call left is forgotten.
SerialReturn == len' = 0 /\ wire' = << >>
             /\ UNCHANGED << port, tty, rx, room, applied, no_memory >>

SerialCall ==
  \/ \E line \in Lines :
       \/ serial_open(line)
       \/ SetLine(line)
  \/ serial_close
  \/ \E t \in Timeouts : serial_set_timeout(t)
  \/ \E blocking \in BOOLEAN : serial_set_blocking(blocking)
  \/ \E n \in 1 .. MaxLen : BeginWrite(n) \/ BeginRead(n)
  \/ serial_bytes_available
  \/ SerialRefuses

\* The steps of a call that has begun, which end unless the device keeps it waiting.
SerialStep ==
  \/ \E n \in 0 .. MaxRoom : WriteSome(n)
  \/ \E n \in 1 .. MaxRx : ReadSome(n)
  \/ WriteRefused
  \/ ReadNothing

SerialFailure == WriteFails \/ ReadFails

Device == ByteArrives \/ ByteLeaves

SerialNext == SerialCall \/ SerialStep \/ SerialFailure \/ Device
=============================================================================
