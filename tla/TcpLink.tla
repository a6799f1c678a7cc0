------------------------------- MODULE TcpLink ------------------------------
(***************************************************************************)
(* The TCP connections between the client and the server, as the sockets   *)
(* of tcp_client.cpp and tcp_server.cpp see them. The kernels and the      *)
(* cable are external to the repository; this module keeps what the code   *)
(* relies on: a connection is complete before it is accepted, each         *)
(* direction is a FIFO stream, data written while the cable is out stays   *)
(* in the sender's kernel until it is back, a cable that is out produces   *)
(* no error, and the end that closes is noticed only through the link.     *)
(***************************************************************************)
EXTENDS Protocol, Sequences

CONSTANTS
  Conns,      \* connections that can exist at the same time
  NoFd,       \* the -1 of _fd and _clientFd
  Backlog,    \* completed connections that can wait for accept()
  StreamCap   \* blocks the kernels hold in one direction before send() blocks

ASSUME LinkAssumption ==
  /\ NoFd \notin Conns
  /\ Backlog \in Nat \ {0}
  /\ StreamCap \in Nat \ {0}

VARIABLES
  cable,      \* TRUE when the cable is plugged in
  listening,  \* the server process holds its listening socket
  backlog,    \* connections completed and not yet accepted, oldest first
  cfd, sfd,   \* the connection each program holds, or NoFd
  c2s, s2c,   \* what was written to each connection and not yet read
  c2sIn,      \* how much of c2s has reached the server's kernel
  s2cIn,      \* how much of s2c has reached the client's kernel
  cGone,      \* the server's kernel has learnt that the client closed
  sGone       \* the client's kernel has learnt that the server closed

linkVars == <<cable, listening, backlog, cfd, sfd,
              c2s, s2c, c2sIn, s2cIn, cGone, sGone>>

LinkInit ==
  /\ cable = TRUE /\ listening = TRUE /\ backlog = <<>>
  /\ cfd = NoFd /\ sfd = NoFd
  /\ c2s = [k \in Conns |-> <<>>] /\ s2c = [k \in Conns |-> <<>>]
  /\ c2sIn = [k \in Conns |-> 0] /\ s2cIn = [k \in Conns |-> 0]
  /\ cGone = [k \in Conns |-> FALSE] /\ sGone = [k \in Conns |-> FALSE]

Backlogged(k) == \E i \in 1 .. Len(backlog) : backlog[i] = k

ServerHolds(k) == k = sfd \/ Backlogged(k)

-----------------------------------------------------------------------------
(* What the calls of the two programs do to the link.                      *)

\* Data is in the reader's kernel at once when the link is up and nothing
\* written before it is still on the way.
Arrived(in, stream) == IF cable /\ in = Len(stream) THEN in + 1 ELSE in

\* connect(): the server's kernel completes the handshake on its own and queues
\* the connection; the program has not accepted it yet.
Reachable == cable /\ listening /\ Len(backlog) < Backlog

ClientConnect(k) ==
  /\ k # cfd /\ ~ServerHolds(k)
  /\ cfd' = k
  /\ backlog' = Append(backlog, k)
  /\ c2s' = [c2s EXCEPT ![k] = <<>>] /\ c2sIn' = [c2sIn EXCEPT ![k] = 0]
  /\ s2c' = [s2c EXCEPT ![k] = <<>>] /\ s2cIn' = [s2cIn EXCEPT ![k] = 0]
  /\ cGone' = [cGone EXCEPT ![k] = FALSE]
  /\ sGone' = [sGone EXCEPT ![k] = FALSE]
  /\ UNCHANGED <<cable, listening, sfd>>

\* send() on the client's socket. A server that has closed answers with a reset.
ClientWrite(cmd) ==
  /\ IF ServerHolds(cfd)
       THEN /\ c2s' = [c2s EXCEPT ![cfd] = Append(@, cmd)]
            /\ c2sIn' = [c2sIn EXCEPT ![cfd] = Arrived(@, c2s[cfd])]
            /\ UNCHANGED sGone
       ELSE /\ sGone' = [sGone EXCEPT ![cfd] = @ \/ cable]
            /\ UNCHANGED <<c2s, c2sIn>>
  /\ UNCHANGED <<cable, listening, backlog, cfd, sfd, s2c, s2cIn, cGone>>

\* recv() on the client's socket, with data there.
ClientRead ==
  /\ s2cIn[cfd] > 0
  /\ s2c' = [s2c EXCEPT ![cfd] = Tail(@)]
  /\ s2cIn' = [s2cIn EXCEPT ![cfd] = @ - 1]
  /\ UNCHANGED <<cable, listening, backlog, cfd, sfd, c2s, c2sIn, cGone, sGone>>

\* recv() on the client's socket returns 0 or an error once the data is read.
ClientSeesClose == s2cIn[cfd] = 0 /\ sGone[cfd]

\* close() by the client. What its kernel had received is discarded, and if
\* there was any the close is a reset, which also drops what its own kernel had
\* not delivered yet.
ClientClose ==
  /\ cfd' = NoFd
  /\ s2c' = [s2c EXCEPT ![cfd] = IF ServerHolds(cfd)
                                   THEN SubSeq(@, s2cIn[cfd] + 1, Len(@))
                                   ELSE <<>>]
  /\ s2cIn' = [s2cIn EXCEPT ![cfd] = 0]
  /\ c2s' = [c2s EXCEPT ![cfd] = IF s2cIn[cfd] > 0
                                   THEN SubSeq(@, 1, c2sIn[cfd]) ELSE @]
  /\ cGone' = [cGone EXCEPT ![cfd] =
       ServerHolds(cfd) /\ cable /\ (s2cIn[cfd] > 0 \/ c2sIn[cfd] = Len(c2s[cfd]))]
  /\ sGone' = [sGone EXCEPT ![cfd] = FALSE]
  /\ UNCHANGED <<cable, listening, backlog, sfd, c2sIn>>

\* accept(): the oldest completed connection.
ServerAccept ==
  /\ backlog # <<>>
  /\ sfd' = Head(backlog)
  /\ backlog' = Tail(backlog)
  /\ UNCHANGED <<cable, listening, cfd, c2s, s2c, c2sIn, s2cIn, cGone, sGone>>

\* recv() on the server's socket, with a command there.
ServerRead ==
  /\ c2sIn[sfd] > 0
  /\ c2s' = [c2s EXCEPT ![sfd] = Tail(@)]
  /\ c2sIn' = [c2sIn EXCEPT ![sfd] = @ - 1]
  /\ UNCHANGED <<cable, listening, backlog, cfd, sfd, s2c, s2cIn, cGone, sGone>>

ServerSeesClose == c2sIn[sfd] = 0 /\ cGone[sfd]

\* send() on the server's socket: it blocks while the kernels hold StreamCap
\* blocks. A client that has closed answers with a reset when the data arrives.
ServerWrite(p) ==
  /\ Len(s2c[sfd]) < StreamCap
  /\ IF cfd # sfd /\ cable
       THEN /\ cGone' = [cGone EXCEPT ![sfd] = TRUE]
            /\ UNCHANGED <<s2c, s2cIn>>
       ELSE /\ s2c' = [s2c EXCEPT ![sfd] = Append(@, p)]
            /\ s2cIn' = [s2cIn EXCEPT ![sfd] = Arrived(@, s2c[sfd])]
            /\ UNCHANGED cGone
  /\ UNCHANGED <<cable, listening, backlog, cfd, sfd, c2s, c2sIn, sGone>>

\* The server's ends of the connections in K close. Commands received and not
\* read make the close a reset, which drops the answers still in its kernel.
ServerDrop(K) ==
  /\ c2s' = [k \in Conns |-> IF k \in K THEN <<>> ELSE c2s[k]]
  /\ c2sIn' = [k \in Conns |-> IF k \in K THEN 0 ELSE c2sIn[k]]
  /\ s2c' = [k \in Conns |->
       CASE k \notin K -> s2c[k]
         [] k \in K /\ k # cfd -> <<>>
         [] k \in K /\ k = cfd -> IF c2sIn[k] > 0
                                  THEN SubSeq(s2c[k], 1, s2cIn[k]) ELSE s2c[k]]
  /\ s2cIn' = [k \in Conns |-> IF k \in K /\ k # cfd THEN 0 ELSE s2cIn[k]]
  /\ cGone' = [k \in Conns |-> cGone[k] /\ k \notin K]
  /\ sGone' = [k \in Conns |-> \/ sGone[k]
                               \/ /\ k \in K /\ k = cfd /\ cable
                                  /\ c2sIn[k] > 0 \/ s2cIn[k] = Len(s2c[k])]
  /\ UNCHANGED <<cable, cfd>>

\* closeClient(): the listening socket and its queue survive.
ServerClose ==
  /\ sfd' = NoFd
  /\ ServerDrop({sfd})
  /\ UNCHANGED <<listening, backlog>>

\* The server process ends: its kernel closes everything it held.
ServerVanish ==
  /\ sfd' = NoFd /\ listening' = FALSE /\ backlog' = <<>>
  /\ ServerDrop({k \in Conns : ServerHolds(k)})

ServerListen ==
  /\ listening' = TRUE
  /\ UNCHANGED <<cable, backlog, cfd, sfd, c2s, s2c, c2sIn, s2cIn, cGone, sGone>>

-----------------------------------------------------------------------------
(* The link itself.                                                        *)

CutCable ==
  /\ cable
  /\ cable' = FALSE
  /\ UNCHANGED <<listening, backlog, cfd, sfd, c2s, s2c, c2sIn, s2cIn, cGone, sGone>>

PlugCable ==
  /\ ~cable
  /\ cable' = TRUE
  /\ UNCHANGED <<listening, backlog, cfd, sfd, c2s, s2c, c2sIn, s2cIn, cGone, sGone>>

\* The kernels deliver what the cut held back, in each direction on its own: data, and
\* the news of the close that follows it. Data that reaches a socket its owner has
\* closed is discarded, and answered with a reset.
RetransmitCommands(k) ==
  /\ c2sIn' = [c2sIn EXCEPT ![k] = Len(c2s[k])]
  /\ cGone' = [cGone EXCEPT ![k] = ServerHolds(k) /\ k # cfd]
  /\ UNCHANGED <<s2c, s2cIn, sGone>>

RetransmitAnswers(k) ==
  /\ s2c' = [s2c EXCEPT ![k] = IF k = cfd THEN @ ELSE <<>>]
  /\ s2cIn' = [s2cIn EXCEPT ![k] = IF k = cfd THEN Len(s2c[k]) ELSE 0]
  /\ sGone' = [sGone EXCEPT ![k] = k = cfd /\ ~ServerHolds(k)]
  /\ cGone' = [cGone EXCEPT ![k] =
                 @ \/ (ServerHolds(k) /\ k # cfd /\ s2c[k] # <<>>)]
  /\ UNCHANGED c2sIn

Retransmit(k) ==
  /\ cable
  /\ RetransmitCommands(k) \/ RetransmitAnswers(k)
  /\ UNCHANGED <<cable, listening, backlog, cfd, sfd, c2s>>
=============================================================================
