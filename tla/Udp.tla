-------------------------------- MODULE Udp --------------------------------
(***************************************************************************)
(* The datagram socket of RJOS, udp.c: the loop of udp_init over the       *)
(* addresses of a host, and udp_send and udp_recv, which try again after   *)
(* every error.  The network reports, at most once for each datagram, that *)
(* nobody listens at the peer.                                             *)
(***************************************************************************)
EXTENDS Descriptors

CONSTANTS MaxAddrs,   \* addresses that getaddrinfo finds for a host
          MaxOwed     \* datagrams of which the network may still report an error

ASSUME AddrsAssumption == MaxAddrs \in Nat /\ MaxOwed \in Nat

VARIABLES udp,
          fd, left,     \* in udp_init: the socket at hand, the addresses not yet tried
          too_big,      \* the datagram of the call is one that send always refuses
          owed, error   \* datagrams that may bring an error, and one that was reported

udpVars == << udp, fd, left, too_big, owed, error >>

udp_t == [ sockfd : {NoFd} \union Numbers, host : BOOLEAN ]

NoSocket == [ sockfd |-> NoFd, host |-> FALSE ]

IsConnected == udp.sockfd # NoFd

UdpInit ==
  /\ udp = NoSocket
  /\ fd = NoFd /\ left = 0
  /\ too_big = FALSE
  /\ owed = 0 /\ error = FALSE

-----------------------------------------------------------------------------
\* udp_init: getaddrinfo finds n addresses or fails.
Resolve(n) ==
  /\ pc = "idle" /\ ~ IsConnected
  /\ udp' = NoSocket
  /\ \/ Returns(-1) /\ UNCHANGED << fd, left >>
     \/ pc' = "resolving" /\ rc' = rc /\ fd' = NoFd /\ left' = n
  /\ UNCHANGED << fds, too_big, owed, error >>

\* Variant with a bug: an address that failed is tried again.
TryAddress_Again ==
  /\ pc = "resolving" /\ left > 0
  /\ \/ fd' = NoFd /\ UNCHANGED << fds, left >>
     \/ \E n \in Numbers :
          /\ Lowest(n)
          /\ fd' = n /\ left' = left - 1
          /\ fds' = Opened(n, set_cloexec([ Free EXCEPT !.kind = "socket", !.peer = left ]))
  /\ UNCHANGED << pc, rc, udp, too_big, owed, error >>

\* A socket for the next address, which takes the place of the one at hand: the loop
\* goes on after a success, and does not close it.
TryAddress ==
  /\ pc = "resolving" /\ left > 0
  /\ left' = left - 1
  /\ \/ fd' = NoFd /\ UNCHANGED fds           \* socket, set_cloexec or connect fails
     \/ \E n \in Numbers :
          /\ Lowest(n)
          /\ fd' = n
          /\ fds' = Opened(n, set_cloexec([ Free EXCEPT !.kind = "socket", !.peer = left ]))
  /\ UNCHANGED << pc, rc, udp, too_big, owed, error >>

\* Variant with a bug: the descriptor stays open when strdup fails.
Finish_Forgets ==
  /\ pc = "resolving" /\ left = 0
  /\ \/ Returns(-1) /\ UNCHANGED << fds, udp >>
     \/ /\ fd # NoFd
        /\ Returns(0)
        /\ udp' = [ sockfd |-> fd, host |-> TRUE ]
        /\ UNCHANGED fds
  /\ fd' = NoFd
  /\ UNCHANGED << left, too_big, owed, error >>

FinishInit ==
  /\ pc = "resolving" /\ left = 0
  /\ \/ fd = NoFd /\ Returns(-1) /\ UNCHANGED << fds, udp >>
     \/ /\ fd # NoFd                          \* strdup fails
        /\ Returns(-1)
        /\ fds' = Closed(fd)
        /\ UNCHANGED udp
     \/ /\ fd # NoFd
        /\ Returns(0)
        /\ udp' = [ sockfd |-> fd, host |-> TRUE ]
        /\ UNCHANGED fds
  /\ fd' = NoFd
  /\ UNCHANGED << left, too_big, owed, error >>

-----------------------------------------------------------------------------
\* Sending and receiving

BeginSend(big) ==
  /\ pc = "idle" /\ IsConnected
  /\ pc' = "sending"
  /\ too_big' = big
  /\ UNCHANGED << fds, rc, udp, fd, left, owed, error >>

\* send or recv reports the error and clears it; the loop tries again, also after an
\* error that will come again.
TryAgain ==
  /\ \/ pc \in { "sending", "receiving" } /\ error
     \/ pc = "sending" /\ too_big
  /\ error' = FALSE
  /\ UNCHANGED << shared, udp, fd, left, too_big, owed >>

\* The network takes the datagram.
SendOnce ==
  /\ pc = "sending"
  /\ ~ error /\ ~ too_big
  /\ owed' = IF owed < MaxOwed THEN owed + 1 ELSE owed
  /\ Returns(1)
  /\ UNCHANGED << fds, udp, fd, left, too_big, error >>

BeginRecv ==
  /\ pc = "idle" /\ IsConnected
  /\ pc' = "receiving"
  /\ UNCHANGED << fds, rc, udpVars >>

\* The peer has sent a datagram.
Receive ==
  /\ pc = "receiving"
  /\ ~ error
  /\ Returns(1)
  /\ UNCHANGED << fds, udpVars >>

\* udp_close also takes a socket that is closed; close frees the number even if it fails.
udp_close ==
  /\ pc = "idle"
  /\ IF IsConnected
     THEN fds' = Closed(udp.sockfd) /\ \E value \in {0, -1} : Returns(value)
     ELSE Returns(0) /\ UNCHANGED fds
  /\ udp' = NoSocket
  /\ owed' = 0 /\ error' = FALSE
  /\ UNCHANGED << fd, left, too_big >>

\* Bad arguments, or a socket that is not open, -1; a buffer of no bytes, 0: nothing
\* happens.
UdpRefuses ==
  /\ pc = "idle"
  /\ Returns(-1) \/ (IsConnected /\ Returns(0))
  /\ UNCHANGED << fds, udpVars >>

-----------------------------------------------------------------------------
\* The peer's host answers a datagram with an error.
Unreachable ==
  /\ owed > 0 /\ ~ error
  /\ owed' = owed - 1
  /\ error' = TRUE
  /\ UNCHANGED << shared, udp, fd, left, too_big >>

UdpReturn == too_big' = FALSE /\ UNCHANGED << udp, fd, left, owed, error >>

UdpCall ==
  \/ \E n \in 1 .. MaxAddrs : Resolve(n)
  \/ \E big \in BOOLEAN : BeginSend(big)
  \/ BeginRecv
  \/ udp_close
  \/ UdpRefuses

UdpStep == TryAddress \/ FinishInit \/ TryAgain \/ SendOnce

Network == Unreachable \/ Receive

UdpNext == UdpCall \/ UdpStep \/ Network
=============================================================================
