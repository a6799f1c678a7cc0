----------------------------- MODULE BlockStream ----------------------------
(***************************************************************************)
(* What the programs rely on from sendAll() and receiveAll(): one          *)
(* direction of a connection as a queue of whole blocks, written in the    *)
(* order of the protocol and taken one by one, none split, joined, lost or *)
(* repeated. TcpLink's streams are such queues; Transfer shows that the    *)
(* loops over send() and recv() provide one.                               *)
(***************************************************************************)
EXTENDS Protocol, Sequences

CONSTANTS Counters, NoBlock

VARIABLES queue, taken   \* the blocks on their way; the last one taken

blockVars == <<queue, taken>>

BlocksOnTheWire == {Part(kind, h, n) : kind \in PartKinds, h \in FrameAnswers, n \in Counters}

BlockInit == queue = <<>> /\ taken = NoBlock

\* b comes next in the protocol after everything written so far.
ComesNext(b) ==
  CASE queue # <<>>                      -> Follows(queue[Len(queue)], b)
    [] queue = <<>> /\ taken # NoBlock   -> Follows(taken, b)
    [] OTHER                             -> b.part = "header"

Write ==
  \E b \in BlocksOnTheWire :
    ComesNext(b) /\ queue' = Append(queue, b) /\ UNCHANGED taken

Take == queue # <<>> /\ taken' = Head(queue) /\ queue' = Tail(queue)

BlockNext == Write \/ Take

BlockSpec == BlockInit /\ [][BlockNext]_blockVars
=============================================================================
