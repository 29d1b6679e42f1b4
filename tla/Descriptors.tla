---------------------------- MODULE Descriptors ----------------------------
(***************************************************************************)
(* What the device modules of RJOS share: the descriptor table of the      *)
(* process, the flags that util/net_util.c and serial.c set on a           *)
(* descriptor, and the one call of the library that the program's thread   *)
(* is in.  The table hands out the lowest number that is free.             *)
(***************************************************************************)
EXTENDS Integers

CONSTANT MaxFds   \* how many more descriptors the process may open

ASSUME MaxFdsAssumption == MaxFds \in Nat

VARIABLES fds,
          pc,   \* "idle", the loop that the call is in, or "returned"
          rc    \* what the call returns, while pc is "returned"

shared == << fds, pc, rc >>

Numbers == 0 .. MaxFds - 1

NoFd == -1

\* What a descriptor stands for; peer is the address that a socket is connected to,
\* counted from the end of the list of addresses of its host.
File == [ kind     : { "free", "tty", "socket" },
          cloexec  : BOOLEAN,
          nonblock : BOOLEAN,
          peer     : Nat ]

Free == [ kind |-> "free", cloexec |-> FALSE, nonblock |-> FALSE, peer |-> 0 ]

Unused == { n \in Numbers : fds[n].kind = "free" }

\* n is the number that open or socket returns.
Lowest(n) == n \in Unused /\ \A m \in Unused : n =< m

\* The table after open, socket and close.
Opened(n, file) == [ fds EXCEPT ![n] = file ]
Closed(n)       == [ fds EXCEPT ![n] = Free ]

\* The flags of a descriptor after a call that returned 0.
set_cloexec(file)                   == [ file EXCEPT !.cloexec = TRUE ]
set_nonblocking_flag(file, enable)  == [ file EXCEPT !.nonblock = enable ]

\* The call is over.
Returns(value) == pc' = "returned" /\ rc' = value

\* The program goes on.
Return ==
  /\ pc = "returned"
  /\ pc' = "idle"
  /\ rc' = 0
  /\ UNCHANGED fds
=============================================================================
