------------------------------ MODULE Devices ------------------------------
(***************************************************************************)
(* A program with a serial port and a datagram socket, as the examples of  *)
(* RJOS: one thread, one call at a time, and one descriptor table, in      *)
(* which the numbers that a device gave back are handed out again.  Bytes  *)
(* and datagrams come and go while a call runs and between calls.          *)
(***************************************************************************)
EXTENDS Serial, Udp

vars == << shared, serialVars, udpVars >>

Init ==
  /\ fds = [ n \in Numbers |-> Free ]
  /\ pc = "idle" /\ rc = 0
  /\ SerialInit
  /\ UdpInit

Returned == Return /\ SerialReturn /\ UdpReturn

SerialPart == SerialNext /\ UNCHANGED udpVars

UdpPart == UdpNext /\ UNCHANGED serialVars

Next == Returned \/ SerialPart \/ UdpPart

Spec == Init /\ [][Next]_vars

\* The program's thread runs, the device takes the bytes that it was given, and the
\* timer of a read runs out.  Nothing is assumed of what the peers send.
Fairness ==
  /\ WF_vars(Returned)
  /\ WF_vars(SerialStep /\ UNCHANGED udpVars)
  /\ WF_vars(UdpStep /\ UNCHANGED serialVars)
  /\ WF_vars(ByteLeaves /\ UNCHANGED udpVars)

FairSpec == Spec /\ Fairness

-----------------------------------------------------------------------------
\* The fields of the two structs, of the kernel's settings and of the table have the
\* types of serial.h and udp.h, and the timer fits the byte of VTIME (serial.c:143).
TypeOK ==
  /\ fds \in [Numbers -> File]
  /\ pc \in { "idle", "returned", "writing", "reading", "resolving", "sending",
              "receiving" }
  /\ rc \in Int
  /\ port \in serial_t /\ tty \in termios
  /\ rx \in 0 .. MaxRx /\ room \in 0 .. MaxRoom
  /\ len \in 0 .. MaxLen /\ wire \in Seq(Nat)
  /\ applied \in BOOLEAN /\ no_memory \in BOOLEAN
  /\ udp \in udp_t
  /\ fd \in {NoFd} \union Numbers /\ left \in 0 .. MaxAddrs
  /\ too_big \in BOOLEAN
  /\ owed \in 0 .. MaxOwed /\ error \in BOOLEAN

\* The number in a struct names what that struct opened: a serial device for the port,
\* and for the socket one that is connected, closed by exec, and has a copy of its
\* host; also after numbers were given back and handed out again, and after every
\* open that failed half way (serial.c:176-187, udp.c:41-65).
DescriptorsOwned ==
  /\ IsOpen => fds[port.fd].kind = "tty"
  /\ IsConnected => /\ fds[udp.sockfd].kind = "socket"
                    /\ fds[udp.sockfd].peer > 0
                    /\ fds[udp.sockfd].cloexec
                    /\ udp.host

\* The open descriptors that no struct and no call knows any more.
Lost ==
  { n \in Numbers : fds[n].kind # "free" /\ n \notin { port.fd, udp.sockfd, fd } }

\* A descriptor is lost in two ways only: a serial device when strdup failed
\* (serial.c:183), and a socket that udp_init had connected to an address before the
\* last of the list (udp.c:41-50).  For a host with one address nothing is lost.
LossesAreKnown ==
  \A n \in Lost :
    \/ fds[n].kind = "tty" /\ no_memory
    \/ fds[n].kind = "socket" /\ fds[n].peer > 1

\* What the program believes of the blocking mode is what the descriptor does, also
\* after a serial_set_blocking that failed in either of its steps (serial.c:216-220):
\* a port that the struct calls non-blocking never makes the program wait.
ModeAgrees == IsOpen => fds[port.fd].nonblock = ~ port.blocking

\* After a call that applied the settings with success, and until the program writes
\* the struct or a later one fails, the device is tuned as the struct says, whatever
\* order of modes and timeouts led there (serial.c:198-221).
SettingsAgree == IsOpen /\ applied => tty = Tuned(port)

\* What serial_write hands to the device is the buffer from its start, each byte once
\* and in order, however the kernel cuts it; it returns the number of bytes taken, and
\* on a blocking port only after all of them (serial.c:233-244).
WriteHonest ==
  /\ \A i \in DOMAIN wire : wire[i] = i
  /\ pc = "returned" /\ rc >= 0 /\ wire # << >> =>
       /\ rc = Len(wire)
       /\ port.blocking => rc = len

\* udp_init ends, and so do the calls that need not wait: a write, once the device
\* takes its bytes; a read that the port's own settings limit, when these are applied;
\* a send of a datagram that the network can take, after finitely many errors.
CallsReturn ==
  /\ pc = "resolving" ~> pc = "returned"
  /\ pc = "writing" ~> pc = "returned"
  /\ pc = "reading" /\ applied /\ (~ port.blocking \/ port.timeout_ms > 0)
       ~> pc = "returned"
  /\ pc = "sending" /\ ~ too_big ~> pc = "returned"

\* A read of a blocking port waits without a timer only if its timeout is 0, as serial.h
\* says of timeout_ms (serial.h:62-64).  serial_open stores a timeout of 1000 in the
\* struct and does not apply it.
TimeoutLimitsReads ==
  pc = "reading" /\ WaitsForever => port.timeout_ms =< 0
=============================================================================
