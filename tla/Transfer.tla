------------------------------ MODULE Transfer ------------------------------
(***************************************************************************)
(* An answer byte by byte: the loops of sendAll() (tcp_server.cpp:97-109)  *)
(* and receiveAll() (tcp_client.cpp:111-135) over one connection, with the *)
(* calls of sendFrame(), handleResponse() and receiveImage() that decide   *)
(* how much each block is.                                                 *)
(*                                                                         *)
(* send() and recv() may take any part of what they are given. A call that *)
(* takes m bytes is here m steps of one byte: the loops look at nothing in *)
(* between. A byte carries the block it belongs to and its place in it, so *)
(* that a byte read for another is seen.                                   *)
(***************************************************************************)
EXTENDS Protocol, Sequences

CONSTANTS
  FieldWidth,   \* sizeof(uint32_t), the bytes of frameId and of jpegSize
  JpegSizes,    \* bound: the sizes of an encoded image, which is never empty
  Ids,          \* bound: values of the image counter
  KernelBytes,  \* bytes the kernels hold before send() blocks
  RecvPeriod,   \* RECV_TIMEOUT_MS
  Deadline      \* LINK_TIMEOUT_MS, as receiveAll() is given it

ASSUME TransferAssumption ==
  /\ FieldWidth \in Nat \ {0} /\ Ids \in Nat \ {0} /\ KernelBytes \in Nat \ {0}
  /\ JpegSizes \subseteq Nat \ {0}
  /\ RecvPeriod \in Nat \ {0} /\ Deadline \in Nat \ {0}

VARIABLES
  link,      \* the cable is in
  wire,      \* the bytes sent and not read, oldest first
  arrived,   \* how many of them are in the client's kernel
  sPart,     \* the block in sendAll(), "idle", or "closed" after the session
  sAnswer,   \* the answer being sent: header, counter, and size of the last image
  sent,      \* sent, in sendAll()
  rPart,     \* the block the client reads
  rAnswer,   \* the header, frameId and jpegSize it has read
  buffer,    \* the bytes of the block already received
  block,     \* the last block wholly received, as the client understands it
  open,      \* the client has not given up
  recvAge,   \* time in this recv()
  readAge    \* time in this receiveAll()

serverPart == <<sPart, sAnswer, sent>>
clientPart == <<rPart, rAnswer, buffer, block, open, recvAge, readAge>>
transferVars == <<link, wire, arrived, serverPart, clientPart>>

NoBlock == Part("none", "none", 0)

\* size of the sendAll() of a block, and of the receiveAll() that takes it; the
\* header is read by receive().
Width(part, size) ==
  CASE part = "header" -> 1
    [] part = "image"  -> size
    [] OTHER           -> FieldWidth

Byte(part, a, at) == [part |-> part, of |-> a.of, n |-> a.n, size |-> a.size, at |-> at]

TransferInit ==
  /\ link = TRUE /\ wire = <<>> /\ arrived = 0
  /\ sPart = "idle" /\ sAnswer = [of |-> "NO_LIGHT", n |-> 0, size |-> 1] /\ sent = 0
  /\ rPart = "header" /\ rAnswer = sAnswer /\ buffer = <<>> /\ block = NoBlock
  /\ open = TRUE /\ recvAge = 0 /\ readAge = 0

\* The block after this one in an answer, or done.
After(part, a, done) ==
  CASE part = "header"                             -> "frameId"
    [] part = "frameId" /\ a.of \in ImageAnswers   -> "jpegSize"
    [] part = "jpegSize"                           -> "image"
    [] OTHER                                       -> done

-----------------------------------------------------------------------------
(* The server.                                                             *)

\* handleGetFrame() has an answer: an image with the next counter, or the scene,
\* which leaves the counter alone and has no size.
BeginAnswer ==
  /\ sPart = "idle"
  /\ \/ \E h \in ImageAnswers, size \in JpegSizes :
          sAnswer' = [of |-> h, n |-> (sAnswer.n + 1) % Ids, size |-> size]
     \/ \E h \in SceneErrors : sAnswer' = [sAnswer EXCEPT !.of = h]
  /\ sPart' = "header"
  /\ UNCHANGED <<link, wire, arrived, sent, clientPart>>

\* Mutant of Offset: send() is given the start of the block each time.
OffsetForgotten == 1

\* bytes + sent: the place in the block of the next byte.
Offset == sent + 1

\* Mutant of SendByte: sendAll() goes on until one byte past the end.
SendBytePastEnd ==
  /\ sPart \in PartKinds /\ Len(wire) < KernelBytes
  /\ wire' = Append(wire, Byte(sPart, sAnswer, Offset))
  /\ IF sent < Width(sPart, sAnswer.size)
       THEN sent' = sent + 1 /\ UNCHANGED sPart
       ELSE sent' = 0 /\ sPart' = After(sPart, sAnswer, "idle")
  /\ UNCHANGED <<link, arrived, sAnswer, clientPart>>

\* send() takes a byte. At the last one sendAll() returns and the next block of the
\* answer follows.
SendByte ==
  /\ sPart \in PartKinds /\ Len(wire) < KernelBytes
  /\ wire' = Append(wire, Byte(sPart, sAnswer, Offset))
  /\ IF sent + 1 < Width(sPart, sAnswer.size)
       THEN sent' = sent + 1 /\ UNCHANGED sPart
       ELSE sent' = 0 /\ sPart' = After(sPart, sAnswer, "idle")
  /\ UNCHANGED <<link, arrived, sAnswer, clientPart>>

\* Mutant of SendFails: an error of send() is taken for a send() of no bytes.
SendFailsRetries ==
  /\ sPart \in PartKinds /\ ~open /\ link
  /\ UNCHANGED transferVars

\* send() fails once the client's kernel has answered with a reset; the rest of the
\* answer is dropped with the session.
SendFails ==
  /\ sPart \in PartKinds /\ ~open /\ link
  /\ sPart' = "closed" /\ sent' = 0
  /\ UNCHANGED <<link, wire, arrived, sAnswer, clientPart>>

-----------------------------------------------------------------------------
(* The client.                                                             *)

Wanted == Width(rPart, rAnswer.size)

\* What the bytes of a block tell the client.
Learn(part, a, byte) ==
  CASE part = "header"   -> [a EXCEPT !.of = byte.of]
    [] part = "frameId"  -> [a EXCEPT !.n = byte.n]
    [] part = "jpegSize" -> [a EXCEPT !.size = byte.size]
    [] OTHER             -> a

\* The block a byte belongs to, as the protocol names it.
BlockOf(b) == Part(b.part, b.of, b.n)

\* Mutant of ReceiveByte: recv() is taken to fill the buffer.
ReceiveByteOnce ==
  /\ open /\ arrived > 0
  /\ LET byte == Head(wire)
         a    == Learn(rPart, rAnswer, byte)
     IN  /\ buffer' = <<>> /\ readAge' = 0 /\ rAnswer' = a
         /\ rPart' = After(rPart, a, "header")
         /\ block' = Part(rPart, byte.of, byte.n)
  /\ wire' = Tail(wire) /\ arrived' = arrived - 1 /\ recvAge' = 0
  /\ UNCHANGED <<link, serverPart, open>>

\* recv() returns a byte. At the last one wanted the block is whole, and what it says
\* decides the next one.
ReceiveByte ==
  /\ open /\ arrived > 0
  /\ LET byte == Head(wire)
         a    == Learn(rPart, rAnswer, byte)
     IN  IF Len(buffer) + 1 < Wanted
           THEN /\ buffer' = Append(buffer, byte)
                /\ UNCHANGED <<rPart, rAnswer, block, readAge>>
           ELSE /\ buffer' = <<>> /\ readAge' = 0 /\ rAnswer' = a
                /\ rPart' = After(rPart, a, "header")
                /\ block' = Part(rPart, byte.of, byte.n)
  /\ wire' = Tail(wire) /\ arrived' = arrived - 1 /\ recvAge' = 0
  /\ UNCHANGED <<link, serverPart, open>>

\* recv() expires. receive() returns to the exchange, whose own limit is left to
\* ClientApp; receiveAll() tries again.
ReceiveAgain ==
  /\ open /\ arrived = 0 /\ recvAge = RecvPeriod
  /\ rPart = "header" \/ readAge < Deadline
  /\ recvAge' = 0
  /\ UNCHANGED <<link, wire, arrived, serverPart, rPart, rAnswer, buffer, block, open, readAge>>

\* Mutant of GiveUpRead: the deadline is not looked at.
GiveUpReadNever ==
  /\ open /\ arrived = 0 /\ recvAge = RecvPeriod
  /\ rPart # "header" /\ readAge >= Deadline
  /\ recvAge' = 0
  /\ UNCHANGED <<link, wire, arrived, serverPart, rPart, rAnswer, buffer, block, open, readAge>>

\* recv() expires past the deadline: the session is lost.
GiveUpRead ==
  /\ open /\ arrived = 0 /\ recvAge = RecvPeriod
  /\ rPart # "header" /\ readAge >= Deadline
  /\ open' = FALSE
  /\ UNCHANGED <<link, wire, arrived, serverPart, rPart, rAnswer, buffer, block, recvAge, readAge>>

-----------------------------------------------------------------------------
(* The kernels, the cable and the clock.                                   *)

Deliver ==
  /\ link /\ arrived < Len(wire)
  /\ arrived' = arrived + 1
  /\ UNCHANGED <<link, wire, serverPart, clientPart>>

Cable ==
  /\ link' = ~link
  /\ UNCHANGED <<wire, arrived, serverPart, clientPart>>

\* Time passes while the client waits in recv(), which returns as soon as there is
\* a byte.
TransferTick ==
  /\ open /\ arrived = 0 /\ recvAge < RecvPeriod
  /\ recvAge' = recvAge + 1
  /\ readAge' = IF rPart = "header" THEN 0 ELSE readAge + 1
  /\ UNCHANGED <<link, wire, arrived, serverPart, rPart, rAnswer, buffer, block, open>>

Client == ReceiveByte \/ ReceiveAgain \/ GiveUpRead

Server == SendByte \/ SendFails

TransferNext == BeginAnswer \/ Server \/ Client \/ Deliver \/ Cable \/ TransferTick

TransferSpec == TransferInit /\ [][TransferNext]_transferVars

\* Both programs run, TCP delivers while the cable is in, time passes. Nobody has to
\* ask for an answer or to touch the cable.
TransferFairSpec ==
  /\ TransferSpec
  /\ WF_transferVars(Server) /\ WF_transferVars(Client)
  /\ WF_transferVars(Deliver) /\ WF_transferVars(TransferTick)

-----------------------------------------------------------------------------
(* Properties.                                                             *)

Answer == [of : FrameAnswers, n : 0 .. Ids - 1, size : Nat \ {0}]

Bytes == [part : PartKinds, of : FrameAnswers, n : 0 .. Ids - 1,
          size : Nat \ {0}, at : Nat \ {0}]

\* The state is well formed: neither loop is ever past the end of its block
\* (tcp_server.cpp:100, tcp_client.cpp:117).
TransferTypeOK ==
  /\ link \in BOOLEAN /\ open \in BOOLEAN
  /\ wire \in Seq(Bytes) /\ Len(wire) <= KernelBytes /\ arrived \in 0 .. Len(wire)
  /\ sPart \in PartKinds \cup {"idle", "closed"} /\ sAnswer \in Answer /\ sent \in Nat
  /\ rPart \in PartKinds /\ rAnswer \in Answer /\ buffer \in Seq(Bytes)
  /\ recvAge \in 0 .. RecvPeriod /\ readAge \in Nat
  /\ IF sPart \in PartKinds THEN sent < Width(sPart, sAnswer.size) ELSE sent = 0
  /\ Len(buffer) < Width(rPart, rAnswer.size)

\* The byte that comes after b: the next one of its block, the first one of the next
\* block of its answer, or the header of another answer.
NextByte(b, c) ==
  LET a == [of |-> b.of, n |-> b.n, size |-> b.size]
  IN  IF b.at < Width(b.part, b.size)
        THEN c = Byte(b.part, a, b.at + 1)
        ELSE IF After(b.part, a, "header") = "header"
               THEN c.part = "header" /\ c.at = 1
               ELSE c = Byte(After(b.part, a, "header"), a, 1)

\* Byte c is the one the client takes it for: the next of the block it is reading.
Due(c) ==
  /\ c.part = rPart /\ c.at = Len(buffer) + 1
  /\ rPart # "header" => c.of = rAnswer.of
  /\ rPart \in {"jpegSize", "image"} => c.n = rAnswer.n
  /\ rPart = "image" => c.size = rAnswer.size
  /\ \A i \in 1 .. Len(buffer) : buffer[i] = [c EXCEPT !.at = i]

\* What receiveAll() is reassembling is always the beginning of one block, and the
\* bytes on the wire are the rest of it and then what the protocol says, however
\* send() and recv() cut them, whatever the sizes, and whatever the cable does
\* (tcp_server.cpp:97-109, tcp_client.cpp:111-135).
BytesAligned ==
  /\ \A i \in 1 .. Len(wire) - 1 : NextByte(wire[i], wire[i + 1])
  /\ wire # <<>> => Due(wire[1])

\* The deadline of receiveAll() is looked at only when a recv() expires
\* (tcp_client.cpp:122-131): data that trickles in stretches it, by one recv() for
\* each byte at most, and a read without data ends one recv() after it.
ReadBounded == readAge <= Deadline + RecvPeriod * (Len(buffer) + 1)

\* Transfer implements whole blocks: a block is on its way from its last byte sent to
\* its last byte read.
EndsBlock(b) == b.at = Width(b.part, b.size)

OnTheWay ==
  LET ends == SelectSeq(wire, EndsBlock)
  IN  [i \in 1 .. Len(ends) |-> BlockOf(ends[i])]

Whole == INSTANCE BlockStream WITH
  Counters <- 0 .. Ids - 1, queue <- OnTheWay, taken <- block

\* Every behaviour of the two loops is one of a queue of whole blocks.
WholeBlocks == Whole!BlockSpec

\* With the cable back for good sendAll() ends: either the client reads the answer or
\* the server learns that it has gone (tcp_server.cpp:100-107).
AnswerLeaves == <>[]link => (sPart \in PartKinds ~> sPart \notin PartKinds)
=============================================================================
