--------------------------- MODULE TransferProofs ---------------------------
(***************************************************************************)
(* Transfer for every size of image, every width of a field, every buffer  *)
(* of the kernels and every limit: its types, the bound of receiveAll()    *)
(* and the alignment of the bytes.                                         *)
(***************************************************************************)
EXTENDS Transfer, TLAPS

-----------------------------------------------------------------------------
(* The blocks of an answer.                                                *)

\* No block is empty.
LEMMA WidthPositive ==
  ASSUME NEW part \in PartKinds, NEW size \in Nat \ {0}
  PROVE  Width(part, size) \in Nat /\ Width(part, size) > 0
BY TransferAssumption DEF Width, PartKinds

\* After a block comes another one or the end.
LEMMA AfterIsPart ==
  ASSUME NEW part \in PartKinds, NEW a \in Answer, NEW done
  PROVE  After(part, a, done) \in PartKinds \cup {done}
BY DEF After, PartKinds

\* What is learnt from a byte is an answer.
LEMMA LearnIsAnswer ==
  ASSUME NEW part \in PartKinds, NEW a \in Answer, NEW b \in Bytes
  PROVE  Learn(part, a, b) \in Answer
BY DEF Learn, PartKinds, Answer, Bytes

\* A byte of a block of an answer.
LEMMA ByteIsByte ==
  ASSUME NEW part \in PartKinds, NEW a \in Answer, NEW at \in Nat \ {0}
  PROVE  Byte(part, a, at) \in Bytes
BY DEF Byte, Answer, Bytes

-----------------------------------------------------------------------------
(* Types.                                                                  *)

\* The initial state is well formed.
LEMMA InitType == TransferInit => TransferTypeOK
<1> SUFFICES ASSUME TransferInit PROVE TransferTypeOK
  OBVIOUS
<1>1. sAnswer \in Answer /\ rAnswer \in Answer
  BY TransferAssumption DEF TransferInit, Answer, FrameAnswers, SceneErrors
<1>2. Len(buffer) < Width(rPart, rAnswer.size)
  BY DEF TransferInit, Width
<1>3. rPart \in PartKinds /\ sPart = "idle" /\ sPart \notin PartKinds
  BY DEF TransferInit, PartKinds
<1> QED
  BY <1>1, <1>2, <1>3, TransferAssumption DEF TransferInit, TransferTypeOK

\* sendAll() keeps to its block.
LEMMA SendByteType == TransferTypeOK /\ SendByte => TransferTypeOK'
<1> SUFFICES ASSUME TransferTypeOK, SendByte PROVE TransferTypeOK'
  OBVIOUS
<1>1. /\ sPart \in PartKinds /\ sAnswer \in Answer /\ sent \in Nat
      /\ sAnswer.size \in Nat \ {0}
  BY DEF TransferTypeOK, SendByte, Answer
<1>2. wire' \in Seq(Bytes) /\ Len(wire') = Len(wire) + 1
  BY <1>1, ByteIsByte DEF TransferTypeOK, SendByte, Offset
<1>3. sPart' \in PartKinds \cup {"idle", "closed"} /\ sent' \in Nat
  BY <1>1, AfterIsPart DEF SendByte
<1>4. IF sPart' \in PartKinds THEN sent' < Width(sPart', sAnswer'.size) ELSE sent' = 0
  <2>1. CASE sent + 1 < Width(sPart, sAnswer.size)
    BY <1>1, <2>1 DEF SendByte
  <2>2. CASE ~(sent + 1 < Width(sPart, sAnswer.size))
    <3>1. sent' = 0 /\ sAnswer' = sAnswer
      BY <2>2 DEF SendByte
    <3> QED
      BY <1>1, <3>1, WidthPositive
  <2> QED
    BY <2>1, <2>2
<1> QED
  BY <1>2, <1>3, <1>4, TransferAssumption
     DEF TransferTypeOK, SendByte, clientPart

\* receiveAll() keeps to its block.
LEMMA ReceiveByteType == TransferTypeOK /\ ReceiveByte => TransferTypeOK'
<1> SUFFICES ASSUME TransferTypeOK, ReceiveByte PROVE TransferTypeOK'
  OBVIOUS
<1> DEFINE b == Head(wire)
           a == Learn(rPart, rAnswer, b)
<1>1. /\ wire \in Seq(Bytes) /\ wire # <<>> /\ b \in Bytes
      /\ Tail(wire) \in Seq(Bytes) /\ Len(Tail(wire)) = Len(wire) - 1
  BY DEF TransferTypeOK, ReceiveByte
<1>2. /\ wire' = Tail(wire) /\ arrived' \in 0 .. Len(wire') /\ Len(wire') <= KernelBytes
      /\ recvAge' = 0
  BY <1>1, TransferAssumption DEF TransferTypeOK, ReceiveByte
<1>3. rPart \in PartKinds /\ rAnswer \in Answer /\ buffer \in Seq(Bytes)
  BY DEF TransferTypeOK
<1>4. /\ rPart' \in PartKinds /\ rAnswer' \in Answer /\ buffer' \in Seq(Bytes)
      /\ readAge' \in Nat
      /\ Len(buffer') < Width(rPart', rAnswer'.size)
  <2>1. CASE Len(buffer) + 1 < Wanted
    <3>1. /\ buffer' = Append(buffer, b) /\ rPart' = rPart /\ rAnswer' = rAnswer
          /\ readAge' = readAge
      BY <2>1 DEF ReceiveByte
    <3> QED
      BY <1>1, <1>3, <2>1, <3>1 DEF Wanted, TransferTypeOK
  <2>2. CASE ~(Len(buffer) + 1 < Wanted)
    <3>1. /\ buffer' = <<>> /\ rPart' = After(rPart, a, "header") /\ rAnswer' = a
          /\ readAge' = 0
      BY <2>2 DEF ReceiveByte
    <3>2. a \in Answer /\ a.size \in Nat \ {0}
      BY <1>1, <1>3, LearnIsAnswer DEF Answer
    <3>3. rPart' \in PartKinds
      BY <1>3, <3>1, <3>2, AfterIsPart DEF PartKinds
    <3> QED
      BY <3>1, <3>2, <3>3, WidthPositive
  <2> QED
    BY <2>1, <2>2
<1> QED
  BY <1>1, <1>2, <1>4, TransferAssumption DEF TransferTypeOK, ReceiveByte, serverPart

\* Every step keeps the state well formed.
LEMMA NextType == TransferTypeOK /\ [TransferNext]_transferVars => TransferTypeOK'
<1> SUFFICES ASSUME TransferTypeOK, [TransferNext]_transferVars PROVE TransferTypeOK'
  OBVIOUS
<1>1. CASE BeginAnswer
  <2>1. sAnswer' \in Answer
    <3>1. sAnswer \in Answer
      BY DEF TransferTypeOK
    <3>2. CASE \E h \in SceneErrors : sAnswer' = [sAnswer EXCEPT !.of = h]
      BY <3>1, <3>2 DEF Answer, FrameAnswers
    <3>3. CASE \E h \in ImageAnswers, size \in JpegSizes :
                 sAnswer' = [of |-> h, n |-> (sAnswer.n + 1) % Ids, size |-> size]
      <4>1. (sAnswer.n + 1) % Ids \in 0 .. Ids - 1
        BY <3>1, TransferAssumption DEF Answer
      <4> QED
        BY <3>3, <4>1, TransferAssumption DEF Answer, FrameAnswers
    <3> QED
      BY <1>1, <3>2, <3>3 DEF BeginAnswer
  <2>2. sPart' = "header" /\ sPart' \in PartKinds /\ sent = 0 /\ sent' = sent
    BY <1>1 DEF BeginAnswer, TransferTypeOK, PartKinds
  <2> QED
    BY <1>1, <2>1, <2>2 DEF BeginAnswer, TransferTypeOK, clientPart, Width
<1>2. CASE SendFails
  <2>1. "closed" \notin PartKinds
    BY DEF PartKinds
  <2> QED
    BY <1>2, <2>1 DEF SendFails, TransferTypeOK, clientPart
<1>3. CASE ReceiveAgain
  BY <1>3, TransferAssumption DEF ReceiveAgain, TransferTypeOK, serverPart
<1>4. CASE GiveUpRead
  <2>1. open' \in BOOLEAN /\ link' \in BOOLEAN
    BY <1>4 DEF GiveUpRead, TransferTypeOK
  <2> QED
    BY <1>4, <2>1 DEF GiveUpRead, TransferTypeOK, serverPart
<1>5. CASE Deliver
  <2>1. arrived' \in 0 .. Len(wire')
    BY <1>5 DEF Deliver, TransferTypeOK
  <2> QED
    BY <1>5, <2>1 DEF Deliver, TransferTypeOK, serverPart, clientPart
<1>6. CASE Cable
  <2>1. link' \in BOOLEAN
    BY <1>6 DEF Cable, TransferTypeOK
  <2> QED
    BY <1>6, <2>1 DEF Cable, TransferTypeOK, serverPart, clientPart
<1>7. CASE TransferTick
  BY <1>7, TransferAssumption DEF TransferTick, TransferTypeOK, serverPart
<1>8. CASE UNCHANGED transferVars
  BY <1>8 DEF transferVars, serverPart, clientPart, TransferTypeOK
<1> QED
  BY <1>1, <1>2, <1>3, <1>4, <1>5, <1>6, <1>7, <1>8, SendByteType, ReceiveByteType
     DEF TransferNext, Server, Client

\* Neither loop is ever past the end of its block, whatever the sizes.
THEOREM TransferTypeCorrect == TransferSpec => []TransferTypeOK
<1> QED
  BY InitType, NextType, PTL DEF TransferSpec

-----------------------------------------------------------------------------
(* How long a receiveAll() lasts.                                          *)

\* One more byte is worth one more recv().
LEMMA OneMore ==
  ASSUME NEW p \in Nat, NEW n \in Nat
  PROVE  p * (n + 1) = p * n + p /\ p * n \in Nat
OBVIOUS

\* What ReadBounded needs to be inductive: the time of the recv() in progress is on
\* top of what the bytes received so far account for, and a header has no deadline.
ReadClock ==
  /\ readAge <= Deadline + RecvPeriod * Len(buffer) + recvAge
  /\ rPart = "header" => readAge = 0

\* A recv() that expires past the deadline ends the read; every other step adds to
\* the age no more than to the account.
LEMMA NextReadClock ==
  TransferTypeOK /\ ReadClock /\ [TransferNext]_transferVars => ReadClock'
<1> SUFFICES ASSUME TransferTypeOK, ReadClock, [TransferNext]_transferVars
             PROVE  ReadClock'
  OBVIOUS
<1> DEFINE n == Len(buffer)
<1>1. /\ RecvPeriod \in Nat /\ Deadline \in Nat /\ n \in Nat
      /\ recvAge \in 0 .. RecvPeriod /\ readAge \in Nat
      /\ readAge <= Deadline + RecvPeriod * n + recvAge
      /\ rPart = "header" => readAge = 0
  BY TransferAssumption DEF TransferTypeOK, ReadClock
<1>2. /\ RecvPeriod * (n + 1) = RecvPeriod * n + RecvPeriod
      /\ RecvPeriod * n \in Nat
  BY <1>1, OneMore
<1>3. CASE ReceiveByte
  <2>1. CASE Len(buffer) + 1 < Wanted
    <3>1. /\ Len(buffer') = n + 1 /\ readAge' = readAge /\ recvAge' = 0
          /\ rPart' = rPart
      BY <1>3, <2>1 DEF ReceiveByte, TransferTypeOK
    <3>2. readAge <= Deadline + RecvPeriod * (n + 1)
      BY <1>1, <1>2
    <3> QED
      BY <1>1, <1>2, <3>1, <3>2 DEF ReadClock
  <2>2. CASE ~(Len(buffer) + 1 < Wanted)
    <3>1. Len(buffer') = 0 /\ readAge' = 0 /\ recvAge' = 0
      BY <1>3, <2>2 DEF ReceiveByte
    <3>2. RecvPeriod * 0 = 0
      BY <1>1
    <3> QED
      BY <1>1, <3>1, <3>2 DEF ReadClock
  <2> QED
    BY <2>1, <2>2
<1>4. CASE ReceiveAgain
  <2>1. /\ buffer' = buffer /\ readAge' = readAge /\ recvAge' = 0
        /\ rPart' = rPart
    BY <1>4 DEF ReceiveAgain
  <2>2. readAge <= Deadline
    BY <1>1, <1>4 DEF ReceiveAgain
  <2> QED
    BY <1>1, <1>2, <2>1, <2>2 DEF ReadClock
<1>5. CASE TransferTick
  <2>1. buffer' = buffer /\ readAge' <= readAge + 1 /\ recvAge' = recvAge + 1
    BY <1>1, <1>5 DEF TransferTick
  <2>2. readAge' \in Nat /\ rPart' = rPart /\ (rPart = "header" => readAge' = 0)
    BY <1>1, <1>5 DEF TransferTick
  <2> QED
    BY <1>1, <1>2, <2>1, <2>2 DEF ReadClock
<1>6. CASE BeginAnswer \/ Server \/ GiveUpRead \/ Deliver \/ Cable
           \/ UNCHANGED transferVars
  <2>1. /\ buffer' = buffer /\ readAge' = readAge /\ recvAge' = recvAge
        /\ rPart' = rPart
    BY <1>6 DEF BeginAnswer, Server, SendByte, SendFails, GiveUpRead, Deliver, Cable,
                transferVars, clientPart
  <2> QED
    BY <2>1, <1>1 DEF ReadClock
<1> QED
  BY <1>3, <1>4, <1>5, <1>6 DEF TransferNext, Client

\* Whatever the sizes, the buffers, the cuts and the arrivals, a receiveAll() lasts no
\* longer than its deadline and one recv() for each byte it has received, and one more.
THEOREM ReadsStayBounded == TransferSpec => []ReadBounded
<1>1. TransferInit => ReadClock
  <2> SUFFICES ASSUME TransferInit PROVE ReadClock
    OBVIOUS
  <2>1. RecvPeriod * 0 = 0
    BY TransferAssumption
  <2> QED
    BY <2>1, TransferAssumption DEF TransferInit, ReadClock
<1>2. TransferTypeOK /\ ReadClock => ReadBounded
  <2> SUFFICES ASSUME TransferTypeOK, ReadClock PROVE ReadBounded
    OBVIOUS
  <2>1. /\ RecvPeriod \in Nat /\ Deadline \in Nat /\ Len(buffer) \in Nat
        /\ recvAge \in 0 .. RecvPeriod /\ readAge \in Nat
    BY TransferAssumption DEF TransferTypeOK
  <2>2. /\ RecvPeriod * (Len(buffer) + 1) = RecvPeriod * Len(buffer) + RecvPeriod
        /\ RecvPeriod * Len(buffer) \in Nat
    BY <2>1, OneMore
  <2> QED
    BY <2>1, <2>2 DEF ReadClock, ReadBounded
<1> QED
  BY <1>1, <1>2, NextReadClock, TransferTypeCorrect, PTL DEF TransferSpec

-----------------------------------------------------------------------------
(* The bytes stay aligned.                                                 *)

\* The answer a byte belongs to.
AnswerOf(b) == [of |-> b.of, n |-> b.n, size |-> b.size]

\* The byte the next send() takes.
NextSent == Byte(sPart, sAnswer, sent + 1)

\* b is the last byte of an answer.
LastOfAnswer(b) ==
  ~(b.at < Width(b.part, b.size)) /\ After(b.part, AnswerOf(b), "header") = "header"

\* What BytesAligned needs to be inductive: the server goes on where the wire ends,
\* or where the client is when the wire is empty.
SenderInStep ==
  /\ sPart \in PartKinds =>
       IF wire = <<>> THEN Due(NextSent) ELSE NextByte(wire[Len(wire)], NextSent)
  /\ sPart = "idle" =>
       IF wire = <<>> THEN rPart = "header" /\ buffer = <<>>
                      ELSE LastOfAnswer(wire[Len(wire)])

InStep == BytesAligned /\ SenderInStep

\* The end of a block is the same for the client and for the server.
LEMMA SameWidth ==
  ASSUME TransferTypeOK, NEW b \in Bytes, Due(b)
  PROVE  Width(b.part, b.size) = Wanted /\ b.part = rPart /\ b.at = Len(buffer) + 1
BY DEF Due, Wanted, Width, TransferTypeOK, PartKinds

\* So is the block that follows, once the client has learnt what the block says.
LEMMA SameNextPart ==
  ASSUME TransferTypeOK, NEW b \in Bytes, Due(b)
  PROVE  /\ After(rPart, Learn(rPart, rAnswer, b), "header")
              = After(b.part, AnswerOf(b), "header")
         /\ Learn(rPart, rAnswer, b).of = b.of
         /\ rPart \in {"frameId", "jpegSize"} => Learn(rPart, rAnswer, b).n = b.n
         /\ rPart = "jpegSize" => Learn(rPart, rAnswer, b).size = b.size
<1> rAnswer \in Answer /\ rPart \in PartKinds
  BY DEF TransferTypeOK
<1>1. CASE rPart = "header"
  BY <1>1 DEF Due, After, Learn, AnswerOf, Answer
<1>2. CASE rPart = "frameId"
  BY <1>2 DEF Due, After, Learn, AnswerOf, Answer
<1>3. CASE rPart = "jpegSize"
  BY <1>3 DEF Due, After, Learn, AnswerOf, Answer
<1>4. CASE rPart = "image"
  BY <1>4 DEF Due, After, Learn, AnswerOf, Answer
<1> QED
  BY <1>1, <1>2, <1>3, <1>4 DEF PartKinds

\* The client that took the byte it was due is due the one that comes next.
LEMMA TakeByte ==
  ASSUME TransferTypeOK, ReceiveByte, Due(Head(wire)),
         NEW c \in Bytes, NextByte(Head(wire), c)
  PROVE  Due(c)'
<1> DEFINE b == Head(wire)
           a == Learn(rPart, rAnswer, b)
<1>1. b \in Bytes /\ rPart \in PartKinds /\ rAnswer \in Answer /\ buffer \in Seq(Bytes)
  BY DEF TransferTypeOK, ReceiveByte
<1>2. Width(b.part, b.size) = Wanted /\ b.part = rPart /\ b.at = Len(buffer) + 1
  BY <1>1, SameWidth
<1>3. CASE Len(buffer) + 1 < Wanted
  <2>1. buffer' = Append(buffer, b) /\ rPart' = rPart /\ rAnswer' = rAnswer
    BY <1>3 DEF ReceiveByte
  <2>2. c = Byte(b.part, AnswerOf(b), b.at + 1)
    BY <1>2, <1>3 DEF NextByte, AnswerOf
  <2>3. /\ c.part = b.part /\ c.of = b.of /\ c.n = b.n /\ c.size = b.size
        /\ c.at = Len(buffer) + 2
    BY <1>1, <1>2, <2>2 DEF Byte, AnswerOf
  <2>4. \A i \in 1 .. Len(buffer) : buffer[i] = [c EXCEPT !.at = i]
    <3> TAKE i \in 1 .. Len(buffer)
    <3>1. buffer[i] = [b EXCEPT !.at = i]
      BY DEF Due
    <3> QED
      BY <1>1, <2>3, <3>1 DEF Bytes
  <2>5. b = [c EXCEPT !.at = Len(buffer) + 1]
    BY <1>1, <1>2, <2>3 DEF Bytes
  <2>6. \A i \in 1 .. Len(buffer') : buffer'[i] = [c EXCEPT !.at = i]
    BY <1>1, <2>1, <2>4, <2>5
  <2>7. Len(buffer') + 1 = Len(buffer) + 2
    BY <1>1, <2>1
  <2>8. /\ rPart # "header" => b.of = rAnswer.of
        /\ rPart \in {"jpegSize", "image"} => b.n = rAnswer.n
        /\ rPart = "image" => b.size = rAnswer.size
    BY DEF Due
  <2>9. /\ c.part = rPart' /\ c.at = Len(buffer') + 1
        /\ rPart' # "header" => c.of = rAnswer'.of
        /\ rPart' \in {"jpegSize", "image"} => c.n = rAnswer'.n
        /\ rPart' = "image" => c.size = rAnswer'.size
    BY <1>2, <2>1, <2>3, <2>7, <2>8
  <2> QED
    BY <2>6, <2>9 DEF Due
<1>4. CASE ~(Len(buffer) + 1 < Wanted)
  <2>1. buffer' = <<>> /\ rPart' = After(rPart, a, "header") /\ rAnswer' = a
    BY <1>4 DEF ReceiveByte
  <2>2. /\ rPart' = After(b.part, AnswerOf(b), "header")
        /\ a.of = b.of
        /\ rPart \in {"frameId", "jpegSize"} => a.n = b.n
        /\ rPart = "jpegSize" => a.size = b.size
    BY <1>1, <2>1, SameNextPart
  <2>3. IF rPart' = "header" THEN c.part = "header" /\ c.at = 1
                             ELSE c = Byte(rPart', AnswerOf(b), 1)
    BY <1>2, <1>4, <2>2 DEF NextByte, AnswerOf
  <2>4. CASE rPart' = "header"
    BY <2>1, <2>3, <2>4 DEF Due
  <2>5. CASE rPart' # "header"
    <3>1. /\ c.part = rPart' /\ c.at = 1
          /\ c.of = b.of /\ c.n = b.n /\ c.size = b.size
      BY <2>3, <2>5 DEF Byte, AnswerOf
    <3>2. /\ rPart' \in {"jpegSize", "image"} => rPart \in {"frameId", "jpegSize"}
          /\ rPart' = "image" => rPart = "jpegSize"
      BY <2>1 DEF After
    <3> QED
      BY <2>1, <2>2, <3>1, <3>2 DEF Due
  <2> QED
    BY <2>4, <2>5
<1> QED
  BY <1>3, <1>4

\* The same when there is no next byte yet.
LEMMA TakeLast ==
  ASSUME TransferTypeOK, ReceiveByte, Due(Head(wire)), LastOfAnswer(Head(wire))
  PROVE  rPart' = "header" /\ buffer' = <<>>
<1> DEFINE b == Head(wire)
<1>1. b \in Bytes
  BY DEF TransferTypeOK, ReceiveByte
<1>2. ~(Len(buffer) + 1 < Wanted)
  BY <1>1, SameWidth DEF LastOfAnswer
<1>3. buffer' = <<>> /\ rPart' = After(rPart, Learn(rPart, rAnswer, b), "header")
  BY <1>2 DEF ReceiveByte
<1> QED
  BY <1>1, <1>3, SameNextPart DEF LastOfAnswer

\* What the server sends next follows what it has just sent.
LEMMA SendGoesOn ==
  ASSUME TransferTypeOK, SendByte
  PROVE  /\ sPart' \in PartKinds => NextByte(NextSent, NextSent')
         /\ sPart' = "idle" => LastOfAnswer(NextSent)
<1>1. /\ sPart \in PartKinds /\ sAnswer \in Answer /\ sent \in Nat /\ sAnswer' = sAnswer
  BY DEF TransferTypeOK, SendByte
<1>2. /\ AnswerOf(NextSent) = sAnswer /\ NextSent.part = sPart
      /\ NextSent.size = sAnswer.size /\ NextSent.at = sent + 1
  BY <1>1 DEF AnswerOf, NextSent, Byte, Answer
<1>3. CASE sent + 1 < Width(sPart, sAnswer.size)
  <2>1. sPart' = sPart /\ sent' = sent + 1
    BY <1>3 DEF SendByte
  <2>2. NextSent' = Byte(sPart, sAnswer, (sent + 1) + 1)
    BY <1>1, <2>1 DEF NextSent
  <2>3. sPart' # "idle"
    BY <1>1, <2>1 DEF PartKinds
  <2> QED
    BY <1>2, <1>3, <2>2, <2>3 DEF NextByte, AnswerOf
<1>4. CASE ~(sent + 1 < Width(sPart, sAnswer.size))
  <2>1. sPart' = After(sPart, sAnswer, "idle") /\ sent' = 0
    BY <1>4 DEF SendByte
  <2>2. /\ sPart' = "idle" => After(sPart, sAnswer, "header") = "header"
        /\ sPart' # "idle" => /\ After(sPart, sAnswer, "header") = sPart'
                             /\ sPart' # "header"
    BY <1>1, <2>1 DEF After, PartKinds
  <2>3. NextSent' = Byte(sPart', sAnswer, 1)
    BY <1>1, <2>1 DEF NextSent
  <2>4. "idle" \notin PartKinds
    BY DEF PartKinds
  <2> QED
    BY <1>2, <1>4, <2>2, <2>3, <2>4 DEF NextByte, LastOfAnswer, AnswerOf
<1> QED
  BY <1>3, <1>4

\* A byte sent goes where the wire ends.
LEMMA SendByteInStep ==
  ASSUME TransferTypeOK, InStep, SendByte
  PROVE  InStep'
<1>1. /\ wire \in Seq(Bytes) /\ wire' = Append(wire, NextSent)
      /\ sPart \in PartKinds
      /\ UNCHANGED <<rPart, rAnswer, buffer>>
  BY DEF TransferTypeOK, SendByte, Offset, NextSent, clientPart
<1>2. /\ Len(wire') = Len(wire) + 1 /\ wire' # <<>>
      /\ \A i \in 1 .. Len(wire) : wire'[i] = wire[i]
      /\ wire'[Len(wire')] = NextSent
  BY <1>1
<1>3. CASE wire = <<>>
  <2>1. Due(NextSent) /\ wire'[1] = NextSent /\ Len(wire') = 1
    BY <1>1, <1>2, <1>3 DEF InStep, SenderInStep
  <2>2. Due(wire[1])'
    BY <1>1, <2>1 DEF Due
  <2>3. \A i \in 1 .. Len(wire') - 1 : NextByte(wire'[i], wire'[i + 1])
    BY <2>1
  <2>4. BytesAligned'
    BY <2>2, <2>3 DEF BytesAligned
  <2>5. SenderInStep'
    BY <1>2, SendGoesOn DEF SenderInStep
  <2> QED
    BY <2>4, <2>5 DEF InStep
<1>4. CASE wire # <<>>
  <2>1. NextByte(wire[Len(wire)], NextSent) /\ Len(wire) \in Nat \ {0}
    BY <1>1, <1>4 DEF InStep, SenderInStep
  <2>2. \A i \in 1 .. Len(wire') - 1 : NextByte(wire'[i], wire'[i + 1])
    <3> TAKE i \in 1 .. Len(wire') - 1
    <3>1. CASE i = Len(wire)
      BY <1>2, <2>1, <3>1
    <3>2. CASE i # Len(wire)
      <4>1. i \in 1 .. Len(wire) - 1 /\ i \in 1 .. Len(wire) /\ i + 1 \in 1 .. Len(wire)
        BY <1>2, <2>1, <3>2
      <4> QED
        BY <1>2, <4>1 DEF InStep, BytesAligned
    <3> QED
      BY <3>1, <3>2
  <2>3. wire'[1] = wire[1] /\ Due(wire[1])
    BY <1>2, <1>4, <2>1 DEF InStep, BytesAligned
  <2>4. Due(wire[1])'
    BY <1>1, <2>3 DEF Due
  <2> QED
    BY <1>2, <2>2, <2>4, SendGoesOn DEF InStep, BytesAligned, SenderInStep
<1> QED
  BY <1>3, <1>4

\* A byte read leaves the client due the one after it.
LEMMA ReceiveByteInStep ==
  ASSUME TransferTypeOK, InStep, ReceiveByte
  PROVE  InStep'
<1>1. /\ wire \in Seq(Bytes) /\ wire # <<>> /\ wire' = Tail(wire)
      /\ Head(wire) = wire[1] /\ Due(Head(wire))
      /\ UNCHANGED <<sPart, sAnswer, sent>>
  BY DEF TransferTypeOK, ReceiveByte, InStep, BytesAligned, serverPart
<1>2. /\ Len(wire) \in Nat \ {0} /\ Len(wire') = Len(wire) - 1
      /\ \A i \in 1 .. Len(wire') : wire'[i] = wire[i + 1]
  BY <1>1
<1>3. NextSent' = NextSent /\ (sPart \in PartKinds => NextSent \in Bytes)
  BY <1>1, ByteIsByte DEF NextSent, TransferTypeOK
<1>4. CASE wire' = <<>>
  <2>1. wire[Len(wire)] = Head(wire) /\ Len(wire') = 0
    <3>1. Len(wire') = 0
      BY <1>4
    <3>2. Len(wire) = 1
      BY <1>2, <3>1
    <3> QED
      BY <1>1, <3>1, <3>2
  <2>2. ASSUME sPart \in PartKinds PROVE Due(NextSent)'
    <3>1. PICK c \in Bytes : c = NextSent
      BY <1>3, <2>2
    <3>2. NextByte(Head(wire), c)
      BY <1>1, <2>1, <2>2, <3>1 DEF InStep, SenderInStep
    <3>3. Due(c)'
      BY <1>1, <3>2, TakeByte
    <3> QED
      BY <1>3, <3>1, <3>3 DEF Due
  <2>3. sPart = "idle" => rPart' = "header" /\ buffer' = <<>>
    BY <1>1, <2>1, TakeLast DEF InStep, SenderInStep
  <2> QED
    BY <1>1, <1>4, <2>1, <2>2, <2>3 DEF InStep, BytesAligned, SenderInStep
<1>5. CASE wire' # <<>>
  <2>1. Len(wire) > 1 /\ wire'[1] = wire[2] /\ wire'[Len(wire')] = wire[Len(wire)]
    BY <1>1, <1>2, <1>5
  <2>2. Due(wire[1])'
    <3>1. PICK c \in Bytes : c = wire[2]
      BY <1>1, <2>1
    <3>2. NextByte(Head(wire), c)
      BY <1>1, <1>2, <2>1, <3>1 DEF InStep, BytesAligned
    <3>3. Due(c)'
      BY <1>1, <3>2, TakeByte
    <3> QED
      BY <2>1, <3>1, <3>3 DEF Due
  <2>3. \A i \in 1 .. Len(wire') - 1 : NextByte(wire'[i], wire'[i + 1])
    <3> TAKE i \in 1 .. Len(wire') - 1
    <3>1. /\ i \in 1 .. Len(wire') /\ i + 1 \in 1 .. Len(wire')
          /\ i + 1 \in 1 .. Len(wire) - 1
      BY <1>2
    <3> QED
      BY <1>2, <3>1 DEF InStep, BytesAligned
  <2> QED
    BY <1>1, <1>3, <1>5, <2>1, <2>2, <2>3 DEF InStep, BytesAligned, SenderInStep
<1> QED
  BY <1>4, <1>5

\* The other steps touch neither the wire nor where the two programs are, but for an
\* answer that begins and one that is dropped.
LEMMA NextInStep ==
  TransferTypeOK /\ InStep /\ [TransferNext]_transferVars => InStep'
<1> SUFFICES ASSUME TransferTypeOK, InStep, [TransferNext]_transferVars
             PROVE  InStep'
  OBVIOUS
<1>1. ASSUME UNCHANGED <<wire, rPart, rAnswer, buffer>>
      PROVE  BytesAligned'
  BY <1>1 DEF InStep, BytesAligned, Due
<1>2. CASE BeginAnswer
  <2>1. /\ UNCHANGED <<wire, rPart, rAnswer, buffer, sent>>
        /\ sPart = "idle" /\ sPart' = "header" /\ sent = 0
    BY <1>2 DEF BeginAnswer, TransferTypeOK, PartKinds, clientPart
  <2>2. NextSent'.part = "header" /\ NextSent'.at = 1
    BY <2>1 DEF NextSent, Byte
  <2>3. CASE wire = <<>>
    <3>1. rPart = "header" /\ buffer = <<>>
      BY <2>1, <2>3 DEF InStep, SenderInStep
    <3>2. Due(NextSent)'
      BY <2>1, <2>2, <3>1 DEF Due
    <3> QED
      BY <1>1, <2>1, <2>3, <3>2 DEF InStep, SenderInStep
  <2>4. CASE wire # <<>>
    <3>1. LastOfAnswer(wire[Len(wire)])
      BY <2>1, <2>4 DEF InStep, SenderInStep
    <3>2. NextByte(wire[Len(wire)], NextSent')
      BY <2>2, <3>1 DEF LastOfAnswer, NextByte, AnswerOf
    <3> QED
      BY <1>1, <2>1, <2>4, <3>2 DEF InStep, SenderInStep
  <2> QED
    BY <2>3, <2>4
<1>3. CASE SendFails
  <2>1. /\ UNCHANGED <<wire, rPart, rAnswer, buffer>>
        /\ sPart' \notin PartKinds /\ sPart' # "idle"
    BY <1>3 DEF SendFails, PartKinds, clientPart
  <2> QED
    BY <1>1, <2>1 DEF InStep, SenderInStep
<1>4. CASE ReceiveAgain \/ GiveUpRead \/ Deliver \/ Cable \/ TransferTick
           \/ UNCHANGED transferVars
  <2>1. UNCHANGED <<wire, rPart, rAnswer, buffer, sPart, sAnswer, sent>>
    BY <1>4 DEF ReceiveAgain, GiveUpRead, Deliver, Cable, TransferTick, transferVars,
                serverPart, clientPart
  <2> QED
    BY <1>1, <2>1 DEF InStep, SenderInStep, NextSent, Due
<1> QED
  BY <1>2, <1>3, <1>4, SendByteInStep, ReceiveByteInStep
     DEF TransferNext, Server, Client

\* Whatever the sizes, the cuts of send() and recv() and the cable, what the client
\* reassembles is the beginning of one block of the server's, and the wire holds the
\* rest of it and then what the protocol says.
THEOREM BytesStayAligned == TransferSpec => []BytesAligned
<1>1. TransferInit => InStep
  <2> SUFFICES ASSUME TransferInit PROVE InStep
    OBVIOUS
  <2>1. wire = <<>> /\ sPart = "idle" /\ rPart = "header" /\ buffer = <<>>
    BY DEF TransferInit
  <2> QED
    BY <2>1 DEF InStep, BytesAligned, SenderInStep, PartKinds
<1>2. InStep => BytesAligned
  BY DEF InStep
<1> QED
  BY <1>1, <1>2, NextInStep, TransferTypeCorrect, PTL DEF TransferSpec
=============================================================================
