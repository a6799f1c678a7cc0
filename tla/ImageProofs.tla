------------------------------- MODULE ImageProofs -----------------------------
(***************************************************************************)
(* Theorems about the images of StreamingSystem: which one the window      *)
(* shows, in which order they come, which names they are saved under and   *)
(* which presses they report.                                              *)
(***************************************************************************)
EXTENDS StreamingSystemProofs, FiniteSetTheorems

-----------------------------------------------------------------------------
(* The image in the window.                                                *)

\* The block the client reads is the one it expects.
LEMMA HeadExpected ==
  ASSUME TypeOK, StreamAligned, cfd \in Conns, ClientRead
  PROVE  /\ s2c[cfd] \in Seq(Blocks) /\ s2c[cfd] # <<>>
         /\ Head(s2c[cfd]) = s2c[cfd][1] /\ ClientExpects(Head(s2c[cfd]))
<1>1. /\ s2c[cfd] \in Seq(Blocks) /\ s2cIn[cfd] \in Nat /\ s2cIn[cfd] > 0
      /\ s2cIn[cfd] <= Len(s2c[cfd])
  BY DEF TypeOK, LinkTypeOK, ArrivedOK, ClientRead
<1>2. s2c[cfd] # <<>> /\ Head(s2c[cfd]) = s2c[cfd][1]
  BY <1>1
<1> QED
  BY <1>1, <1>2, LinkAssumption DEF StreamAligned

\* The window and the counter agree from the end of one answer to the counter of the
\* next.
Shown ==
  display = "NORMAL" /\ cPc \in {"key", "send", "header", "await", "frameId"}
  => frame = cFrameId

LEMMA NextShown ==
  ASSUME TypeOK, StreamAligned, LiveOnlyIfAccepted, Shown, "decode" \notin Faults,
         [Next]_vars
  PROVE  Shown'
<1>1. CASE UNCHANGED <<cPc, display, frame, cFrameId>>
  BY <1>1 DEF Shown
<1>2. CASE (ClientStep \/ ClientEnv) /\ UNCHANGED serverVars
  <2>1. /\ cPc \notin Offline => cfd \in Conns
        /\ cPc = "frameId" => response \in FrameAnswers
    BY DEF TypeOK, LinkTypeOK, ClientTypeOK, ClientCallOK, Reading
  <2>2. ASSUME LinkLost \/ Finish \/ GivesUp \/ Abandon
        PROVE  Shown'
    BY <2>2 DEF LinkLost, Finish, GivesUp, Abandon, Shown
  <2>3. CASE Connect
    BY <2>3 DEF Connect, LiveOnlyIfAccepted, Shown
  <2>4. CASE ReceiveFrameId
    BY <2>1, <2>4 DEF ReceiveFrameId, Shown, FrameAnswers, SceneErrors
  <2>5. CASE ReceiveImage
    <3>1. Head(s2c[cfd]).n = cFrameId
      BY <2>1, <2>5, HeadExpected DEF ReceiveImage, ClientExpects, Offline, Part
    <3> QED
      BY <2>5, <3>1 DEF ReceiveImage, Shown
  <2>6. CASE \/ ClientSendFails \/ ReceiveStopAck \/ HeaderClosed \/ GiveUpServer
             \/ ReadFails \/ AckNotReceived
    BY <2>2, <2>6 DEF ClientSendFails, ReceiveStopAck, HeaderClosed, GiveUpServer,
       ReadFails,
       AckNotReceived
  <2>7. CASE HeaderTimeout
    BY <2>2, <2>7 DEF HeaderTimeout, Shown
  <2>8. CASE \/ ConnectFails \/ PauseOver \/ SendGetFrame \/ ReceiveHeader \/ PollNoKey
             \/ ReceiveJpegSize \/ AwaitAck \/ QuitOffline \/ QuitOnline \/ Relaunch
    BY <2>8 DEF ConnectFails, PauseOver, SendGetFrame, ReceiveHeader, ReceiveJpegSize,
       PollNoKey,
       AwaitAck, QuitOffline, QuitOnline, Relaunch, Shown
  <2> QED
    BY <1>2, <2>3, <2>4, <2>5, <2>6, <2>7, <2>8 DEF ClientStep, ClientEnv
<1> QED
  BY <1>1, <1>2 DEF Next, LinkStep, Tick, vars, clientVars

\* As long as no image fails to be decoded, the window shows the image whose counter
\* the client read last.
THEOREM WindowIsCurrent == "decode" \notin Faults /\ Spec => []ShownImageIsCurrent
<1> SUFFICES ASSUME "decode" \notin Faults
             PROVE  Spec => []ShownImageIsCurrent
  OBVIOUS
<1>1. Init => Shown
  BY DEF Init, ClientInit, Shown
<1>2. TypeOK /\ StreamAligned /\ LiveOnlyIfAccepted /\ Shown /\ [Next]_vars => Shown'
  BY NextShown
<1>3. Shown => ShownImageIsCurrent
  BY DEF Shown, ShownImageIsCurrent, ComposeFrame
<1> QED
  BY TypeCorrect, StreamStaysAligned, WindowIsHonest, <1>1, <1>2, <1>3, PTL DEF Spec

-----------------------------------------------------------------------------
(* The order of the counters.                                              *)

\* A block of an answer that carries a counter, and the header of an image.
FrameBlock(q) == q.of \in FrameAnswers

Opens(q) == q.part = "header" /\ q.of \in ImageAnswers

\* The counters of a stream do not decrease, and each image has a new one.
Rising(s) ==
  \A i, j \in 1 .. Len(s) :
    i < j /\ FrameBlock(s[i]) /\ FrameBlock(s[j]) =>
      /\ s[i].n <= s[j].n
      /\ Opens(s[j]) => s[i].n < s[j].n

AtLeast(s, m) == \A i \in 1 .. Len(s) : FrameBlock(s[i]) => m <= s[i].n

AtMost(s, m) == \A i \in 1 .. Len(s) : FrameBlock(s[i]) => s[i].n <= m

OpensAbove(s, m) == \A i \in 1 .. Len(s) : Opens(s[i]) => m < s[i].n

\* What send() does to the order.
LEMMA OrderAppend ==
  ASSUME NEW s \in Seq(Blocks), NEW q \in Blocks, NEW m \in Int
  PROVE  /\ Rising(s) /\ (FrameBlock(q) => AtMost(s, q.n) /\ (Opens(q) => AtMost(s, q.n - 1)))
            => Rising(Append(s, q))
         /\ AtLeast(s, m) /\ (FrameBlock(q) => m <= q.n) => AtLeast(Append(s, q), m)
         /\ AtMost(s, m) /\ (FrameBlock(q) => q.n <= m) => AtMost(Append(s, q), m)
         /\ OpensAbove(s, m) /\ (Opens(q) => m < q.n) => OpensAbove(Append(s, q), m)
<1> DEFINE t == Append(s, q)
<1>1. /\ Len(s) \in Nat /\ Len(t) = Len(s) + 1
      /\ \A i \in 1 .. Len(s) : t[i] = s[i] /\ s[i] \in Blocks
      /\ t[Len(s) + 1] = q
  OBVIOUS
<1>2. \A p \in Blocks : p.n \in Int
  BY ServerAssumption DEF Blocks
<1> HIDE DEF t
<1>3. \A i \in 1 .. Len(t) : i \in 1 .. Len(s) \/ i = Len(s) + 1
  BY <1>1
<1>4. ASSUME Rising(s), FrameBlock(q) => AtMost(s, q.n) /\ (Opens(q) => AtMost(s, q.n - 1))
      PROVE  Rising(t)
  <2> SUFFICES ASSUME NEW i \in 1 .. Len(t), NEW j \in 1 .. Len(t), i < j,
                      FrameBlock(t[i]), FrameBlock(t[j])
               PROVE  t[i].n <= t[j].n /\ (Opens(t[j]) => t[i].n < t[j].n)
    BY DEF Rising
  <2>1. i \in 1 .. Len(s) /\ t[i] = s[i] /\ s[i] \in Blocks
    BY <1>1, <1>3
  <2>2. CASE j \in 1 .. Len(s)
    BY <1>1, <1>4, <2>1, <2>2 DEF Rising
  <2>3. CASE j = Len(s) + 1
    BY <1>1, <1>2, <1>4, <2>1, <2>3 DEF AtMost
  <2> QED
    BY <1>3, <2>2, <2>3
<1>5. AtLeast(s, m) /\ (FrameBlock(q) => m <= q.n) => AtLeast(t, m)
  BY <1>1, <1>3 DEF AtLeast
<1>6. AtMost(s, m) /\ (FrameBlock(q) => q.n <= m) => AtMost(t, m)
  BY <1>1, <1>3 DEF AtMost
<1>7. OpensAbove(s, m) /\ (Opens(q) => m < q.n) => OpensAbove(t, m)
  BY <1>1, <1>3 DEF OpensAbove
<1> QED
  BY <1>4, <1>5, <1>6, <1>7 DEF t

\* What recv() does: the rest of the stream is ordered, and comes after its head.
LEMMA OrderTail ==
  ASSUME NEW s \in Seq(Blocks), s # <<>>, NEW m \in Int
  PROVE  /\ Rising(s) => Rising(Tail(s))
         /\ Rising(s) /\ FrameBlock(Head(s)) => /\ AtLeast(Tail(s), Head(s).n)
                                              /\ OpensAbove(Tail(s), Head(s).n)
         /\ AtLeast(s, m) => AtLeast(Tail(s), m)
         /\ AtMost(s, m) => AtMost(Tail(s), m)
         /\ OpensAbove(s, m) => OpensAbove(Tail(s), m)
<1> DEFINE t == Tail(s)
<1>1. /\ Len(s) \in Nat \ {0} /\ Len(t) = Len(s) - 1 /\ Head(s) = s[1]
      /\ \A i \in 1 .. Len(t) : t[i] = s[i + 1]
  OBVIOUS
<1> HIDE DEF t
<1>2. 1 \in 1 .. Len(s) /\ \A i \in 1 .. Len(t) : i + 1 \in 1 .. Len(s) /\ 1 < i + 1
  BY <1>1
<1>3. Rising(s) => Rising(t)
  BY <1>1, <1>2 DEF Rising
<1>4. Rising(s) /\ FrameBlock(Head(s)) => AtLeast(t, Head(s).n) /\ OpensAbove(t, Head(s).n)
  <2> SUFFICES ASSUME Rising(s), FrameBlock(s[1]), NEW i \in 1 .. Len(t), FrameBlock(t[i])
               PROVE  s[1].n <= t[i].n /\ (Opens(t[i]) => s[1].n < t[i].n)
    BY <1>1 DEF AtLeast, OpensAbove, Opens, FrameBlock, FrameAnswers
  <2>1. t[i] = s[i + 1] /\ i + 1 \in 1 .. Len(s) /\ 1 < i + 1
    BY <1>1, <1>2
  <2> QED
    BY <1>2, <2>1 DEF Rising
<1>5. /\ AtLeast(s, m) => AtLeast(t, m)
      /\ AtMost(s, m) => AtMost(t, m)
      /\ OpensAbove(s, m) => OpensAbove(t, m)
  BY <1>1, <1>2 DEF AtLeast, AtMost, OpensAbove
<1> QED
  BY <1>3, <1>4, <1>5 DEF t

\* What is lost is at the end.
LEMMA OrderPrefix ==
  ASSUME NEW s \in Seq(Blocks), NEW n \in 0 .. Len(s), NEW m \in Int
  PROVE  LET t == SubSeq(s, 1, n)
         IN  /\ Rising(s) => Rising(t)
             /\ AtLeast(s, m) => AtLeast(t, m)
             /\ AtMost(s, m) => AtMost(t, m)
             /\ OpensAbove(s, m) => OpensAbove(t, m)
<1> DEFINE t == SubSeq(s, 1, n)
<1>1. /\ Len(s) \in Nat /\ Len(t) = n
      /\ \A i \in 1 .. Len(t) : t[i] = s[i]
  OBVIOUS
<1> HIDE DEF t
<1>2. \A i \in 1 .. Len(t) : i \in 1 .. Len(s)
  BY <1>1
<1>3. Rising(s) => Rising(t)
  BY <1>1, <1>2 DEF Rising
<1>4. /\ AtLeast(s, m) => AtLeast(t, m)
      /\ AtMost(s, m) => AtMost(t, m)
      /\ OpensAbove(s, m) => OpensAbove(t, m)
  BY <1>1, <1>2 DEF AtLeast, AtMost, OpensAbove
<1> QED
  BY <1>3, <1>4 DEF t

\* The header of an image has been read, and its counter has not.
Asked == cPc = "frameId" /\ response \in ImageAnswers

\* An image has been taken, and nothing of it sent.
Taken == sPc = "sendHeader" /\ answer \in ImageAnswers

\* What the client has read, what is on its way and what the server has counted are in
\* this order; an image the client has not the counter of is beyond the last one it has.
Counters ==
  /\ cFrameId <= frameId
  /\ Asked \/ Taken => cFrameId < frameId
  /\ cfd # NoFd =>
       /\ Rising(s2c[cfd])
       /\ AtLeast(s2c[cfd], cFrameId) /\ OpensAbove(s2c[cfd], cFrameId)
       /\ Asked => AtLeast(s2c[cfd], cFrameId + 1)
       /\ AtMost(s2c[cfd], frameId)
       /\ Taken => AtMost(s2c[cfd], frameId - 1)

\* A step that moves no counter and at most loses the end of the stream.
LEMMA QuietCounters ==
  ASSUME TypeOK, Counters, UNCHANGED <<cFrameId, frameId>>,
         Asked' => Asked, Taken' => Taken,
         cfd' = cfd \/ cfd' = NoFd,
         cfd' \in Conns => \E n \in 0 .. Len(s2c[cfd]) : s2c'[cfd] = SubSeq(s2c[cfd], 1, n)
  PROVE  Counters'
<1>1. cFrameId \in Int /\ frameId \in Int /\ cFrameId + 1 \in Int /\ frameId - 1 \in Int
  BY ServerAssumption DEF TypeOK, ServerTypeOK, ClientTypeOK
<1>2. CASE cfd' = NoFd
  BY <1>2 DEF Counters
<1>3. CASE cfd' # NoFd
  <2>1. cfd' = cfd /\ cfd \in Conns /\ s2c[cfd] \in Seq(Blocks)
    BY <1>3 DEF TypeOK, LinkTypeOK
  <2>2. PICK n \in 0 .. Len(s2c[cfd]) : s2c'[cfd] = SubSeq(s2c[cfd], 1, n)
    BY <2>1
  <2> DEFINE t == SubSeq(s2c[cfd], 1, n)
  <2>3. /\ Rising(t)
        /\ AtLeast(t, cFrameId) /\ OpensAbove(t, cFrameId)
        /\ Asked => AtLeast(t, cFrameId + 1)
        /\ AtMost(t, frameId)
        /\ Taken => AtMost(t, frameId - 1)
    BY <1>1, <1>3, <2>1, OrderPrefix DEF Counters
  <2>4. s2c'[cfd'] = t
    BY <2>1, <2>2
  <2> HIDE DEF t
  <2> QED
    BY <2>3, <2>4 DEF Counters
<1> QED
  BY <1>2, <1>3

\* Nothing lost is the shortest loss.
LEMMA WholePrefix ==
  ASSUME NEW s \in Seq(Blocks)
  PROVE  \E n \in 0 .. Len(s) : s = SubSeq(s, 1, n)
<1>1. Len(s) \in 0 .. Len(s) /\ s = SubSeq(s, 1, Len(s))
  OBVIOUS
<1> QED
  BY <1>1

\* close() by the server loses at most the end of the client's stream.
LEMMA DropKeepsPrefix ==
  ASSUME TypeOK, NEW K, ServerDrop(K), cfd \in Conns
  PROVE  \E n \in 0 .. Len(s2c[cfd]) : s2c'[cfd] = SubSeq(s2c[cfd], 1, n)
<1>1. s2c[cfd] \in Seq(Blocks) /\ s2cIn[cfd] \in 0 .. Len(s2c[cfd])
  BY DEF TypeOK, LinkTypeOK, ArrivedOK
<1>2. s2c'[cfd] = s2c[cfd] \/ s2c'[cfd] = SubSeq(s2c[cfd], 1, s2cIn[cfd])
  BY DEF ServerDrop
<1> QED
  BY <1>1, <1>2, WholePrefix

\* send() on the server's socket adds a block at the end of the client's stream, if
\* the two hold the same connection, or leaves the stream as it is.
LEMMA WriteOnStream ==
  ASSUME TypeOK, sfd \in Conns, NEW p \in Blocks, ServerWrite(p), cfd \in Conns
  PROVE  /\ cfd' = cfd /\ sfd' = sfd /\ s2c[cfd] \in Seq(Blocks)
         /\ \/ s2c'[cfd] = s2c[cfd]
            \/ cfd = sfd /\ s2c'[cfd] = Append(s2c[cfd], p)
  BY DEF TypeOK, LinkTypeOK, ServerWrite

\* A write of the answer in hand keeps the order.
LEMMA WriteCounters ==
  ASSUME TypeOK, Counters, UNCHANGED <<cFrameId, frameId, cPc, response>>, sfd \in Conns,
         NEW p \in Blocks, ServerWrite(p), ~Taken',
         FrameBlock(p) => p.n = frameId, FrameBlock(p) /\ Opens(p) => Taken
  PROVE  Counters'
<1>1. /\ cFrameId \in Int /\ frameId \in Int /\ cFrameId + 1 \in Int /\ frameId - 1 \in Int
      /\ cfd' = cfd /\ cfd \in Conns \cup {NoFd}
  BY ServerAssumption DEF TypeOK, LinkTypeOK, ServerTypeOK, ClientTypeOK, ServerWrite
<1>2. Opens(p) => FrameBlock(p)
  BY DEF Opens, FrameBlock, FrameAnswers
<1>3. Asked' <=> Asked
  BY DEF Asked
<1>4. CASE cfd = NoFd \/ s2c'[cfd] = s2c[cfd]
  BY <1>1, <1>3, <1>4 DEF Counters
<1>5. CASE cfd \in Conns /\ s2c'[cfd] = Append(s2c[cfd], p)
  <2> DEFINE t == Append(s2c[cfd], p)
  <2>1. s2c[cfd] \in Seq(Blocks) /\ s2c'[cfd'] = t /\ cfd # NoFd
    BY <1>1, <1>5, LinkAssumption DEF TypeOK, LinkTypeOK
  <2>2. /\ Rising(t)
        /\ AtLeast(t, cFrameId) /\ OpensAbove(t, cFrameId)
        /\ AtMost(t, frameId)
    BY <1>1, <1>2, <2>1, OrderAppend DEF Counters
  <2>3. Asked => AtLeast(t, cFrameId + 1)
    <3>1. Asked => AtLeast(s2c[cfd], cFrameId + 1) /\ cFrameId + 1 <= frameId
      BY <1>1, <2>1 DEF Counters
    <3> QED
      BY <1>1, <2>1, <3>1, OrderAppend
  <2> HIDE DEF t
  <2> QED
    BY <1>1, <1>3, <2>1, <2>2, <2>3 DEF Counters
<1> QED
  BY <1>1, <1>4, <1>5, WriteOnStream

\* The server counts an image before it sends it.
LEMMA ServerCounters ==
  ASSUME TypeOK, Counters, sPc # "down", "crash" \notin Faults, "relaunch" \notin Faults,
         "wrap" \notin Faults, ServerStep \/ ServerEnv, UNCHANGED clientVars
  PROVE  Counters' /\ sPc' # "down"
<1>0. sPc' # "down"
  BY DEF ServerStep, ServerEnv, WaitForClient, ReceiveCommand, RecvTimeout, GiveUpClient,
     RecvClosed, CaptureFails, AnswerGetFrame, SendHeader, SendFrameId, SendJpegSize,
     SendImage,
     ServerSendFails, HandleStop, ServerExit, Press, Crash, Restart, EndSession
<1> SUFFICES Counters'
  BY <1>0
<1>1. /\ sPc \notin {"accept", "done", "down"} => sfd \in Conns
      /\ sPc \in Sending => answer \in FrameAnswers
      /\ frameId \in 0 .. FrameIds - 1 /\ cFrameId \in Nat
      /\ UNCHANGED <<cPc, response, cFrameId>>
      /\ cfd \in Conns \cup {NoFd} /\ s2c \in [Conns -> Seq(Blocks)]
      /\ Asked' <=> Asked
  BY ServerAssumption
  DEF TypeOK, LinkTypeOK, ServerTypeOK, ServerCallOK, ClientTypeOK, clientVars, Asked
<1>2. ASSUME NEW kind \in PartKinds, sPc \in Sending
      PROVE  Part(kind, answer, frameId) \in Blocks
  BY <1>1, <1>2 DEF Part, Blocks, Answers
<1>3. ASSUME UNCHANGED <<cfd, s2c, frameId>>, Taken' => Taken
      PROVE  Counters'
  <2>1. cfd' \in Conns => \E n \in 0 .. Len(s2c[cfd]) : s2c'[cfd] = SubSeq(s2c[cfd], 1, n)
    BY <1>1, <1>3, WholePrefix
  <2> QED
    BY <1>1, <1>3, <2>1, QuietCounters
<1>4. ASSUME NEW K, ServerDrop(K), UNCHANGED frameId, Taken' => Taken
      PROVE  Counters'
  <2>1. cfd' = cfd
    BY <1>4 DEF ServerDrop
  <2>2. cfd' \in Conns => \E n \in 0 .. Len(s2c[cfd]) : s2c'[cfd] = SubSeq(s2c[cfd], 1, n)
    BY <1>4, <2>1, DropKeepsPrefix
  <2> QED
    BY <1>1, <1>4, <2>1, <2>2, QuietCounters
<1>5. ASSUME sPc \in Sending, NEW kind \in PartKinds, UNCHANGED frameId,
             kind = "header" => sPc = "sendHeader", sPc' # "sendHeader",
             ServerWrite(Part(kind, answer, frameId))
      PROVE  Counters'
  <2> DEFINE p == Part(kind, answer, frameId)
  <2>1. p \in Blocks /\ sfd \in Conns /\ p.n = frameId
    BY <1>1, <1>2, <1>5 DEF Sending, Part
  <2>2. Opens(p) => Taken
    BY <1>5 DEF Opens, Taken, Part
  <2>3. ~Taken'
    BY <1>5 DEF Taken
  <2> HIDE DEF p
  <2> QED
    BY <1>1, <1>5, <2>1, <2>2, <2>3, WriteCounters DEF p
<1>6. CASE SendHeader
  BY <1>5, <1>6 DEF SendHeader, Sending, PartKinds
<1>7. CASE SendFrameId
  BY <1>5, <1>7 DEF SendFrameId, Sending, PartKinds
<1>8. CASE SendJpegSize \/ SendImage
  BY <1>5, <1>8 DEF SendJpegSize, SendImage, Sending, PartKinds
<1>9. CASE HandleStop
  <2> DEFINE p == Part("header", "STOP_ACK", 0)
  <2>1. sfd \in Conns /\ UNCHANGED frameId /\ ~Taken' /\ sPc' # "down"
    BY <1>1, <1>9 DEF HandleStop, Taken
  <2>2. p \in Blocks /\ ~FrameBlock(p)
    BY ServerAssumption
    DEF Part, Blocks, PartKinds, Answers, FrameBlock, FrameAnswers, ImageAnswers,
        SceneErrors
  <2>3. CASE ServerWrite(p)
    <3> HIDE DEF p
    <3> QED
      BY <1>1, <2>1, <2>2, <2>3, WriteCounters
  <2>4. CASE UNCHANGED linkVars
    BY <1>3, <2>1, <2>4 DEF linkVars
  <2> QED
    BY <1>9, <2>1, <2>3, <2>4 DEF HandleStop
<1>10. CASE AnswerGetFrame
  <2>1. cfd' = cfd /\ s2c' = s2c /\ ~Taken
    BY <1>10 DEF AnswerGetFrame, linkVars, Taken
  <2>2. frameId + 1 < FrameIds => (frameId + 1) % FrameIds = frameId + 1
    BY <1>1, ServerAssumption
  <2>3. \/ frameId' = frameId + 1
        \/ frameId' = frameId /\ answer' \in SceneErrors
    BY <1>10, <2>2 DEF AnswerGetFrame, NextFrameId
  <2>4. answer' \in SceneErrors => ~Taken'
    BY DEF Taken, SceneErrors, ImageAnswers
  <2>5. CASE frameId' = frameId + 1
    <3>1. ASSUME cfd # NoFd
          PROVE  AtMost(s2c[cfd], frameId + 1)
      <4>1. s2c[cfd] \in Seq(Blocks)
        BY <1>1, <3>1
      <4>2. \A i \in 1 .. Len(s2c[cfd]) : s2c[cfd][i] \in Blocks
        BY <4>1
      <4>3. \A p \in Blocks : p.n \in Int
        BY ServerAssumption DEF Blocks
      <4>4. AtMost(s2c[cfd], frameId)
        BY <3>1 DEF Counters
      <4> QED
        BY <1>1, <4>2, <4>3, <4>4 DEF AtMost
    <3>2. frameId' - 1 = frameId /\ frameId' \in Nat
      BY <1>1, <2>5
    <3>3. cFrameId < frameId'
      BY <1>1, <2>5 DEF Counters
    <3> QED
      BY <1>1, <2>1, <2>5, <3>1, <3>2, <3>3 DEF Counters
  <2>6. CASE frameId' = frameId /\ ~Taken'
    <3>1. UNCHANGED <<cfd, s2c, frameId>> /\ (Taken' => Taken)
      BY <2>1, <2>6
    <3> QED
      BY <1>3, <3>1
  <2> QED
    BY <2>3, <2>4, <2>5, <2>6
<1>11. CASE GiveUpClient \/ RecvClosed \/ ServerSendFails
  BY <1>4, <1>11
  DEF GiveUpClient, RecvClosed, ServerSendFails, EndSession, ServerClose, Taken
<1>12. CASE ServerExit
  BY <1>4, <1>12 DEF ServerExit, ServerVanish, Taken
<1>13. CASE WaitForClient \/ ReceiveCommand
  BY <1>3, <1>13 DEF WaitForClient, ReceiveCommand, ServerAccept, ServerRead, Taken
<1>14. CASE RecvTimeout \/ CaptureFails \/ Press
  BY <1>3, <1>14 DEF RecvTimeout, CaptureFails, Press, linkVars, Taken
<1> QED
  BY <1>6, <1>7, <1>8, <1>9, <1>10, <1>11, <1>12, <1>13, <1>14
  DEF ServerStep, ServerEnv, Crash, Restart

\* The client reads the counters in the order the server gave them.
LEMMA ClientCounters ==
  ASSUME TypeOK, StreamAligned, Counters, "relaunch" \notin Faults,
         ClientStep \/ ClientEnv, UNCHANGED serverVars
  PROVE  Counters'
<1>1. /\ cPc \notin Offline => cfd \in Conns
      /\ cPc = "frameId" => response \in FrameAnswers
      /\ frameId \in Nat /\ cFrameId \in Nat /\ frameId - 1 \in Int
      /\ cfd \in Conns \cup {NoFd} /\ s2c \in [Conns -> Seq(Blocks)]
      /\ frameId' = frameId /\ (Taken' <=> Taken)
  BY ServerAssumption
  DEF TypeOK, LinkTypeOK, ServerTypeOK, ClientTypeOK, ClientCallOK, Reading, serverVars,
      Taken
<1>2. ASSUME UNCHANGED <<cfd, s2c, cFrameId>>, Asked' => Asked
      PROVE  Counters'
  <2>1. cfd' \in Conns => \E n \in 0 .. Len(s2c[cfd]) : s2c'[cfd] = SubSeq(s2c[cfd], 1, n)
    BY <1>1, <1>2, WholePrefix
  <2> QED
    BY <1>1, <1>2, <2>1, QuietCounters
<1>3. ASSUME LinkLost \/ Finish
      PROVE  Counters'
  <2>1. cfd' = NoFd /\ ~Asked' /\ cFrameId' = cFrameId
    BY <1>3 DEF LinkLost, Finish, ClientClose, Asked
  <2> QED
    BY <1>1, <2>1, LinkAssumption, QuietCounters
<1>4. ASSUME GivesUp \/ LinkLost \/ Finish \/ Abandon
      PROVE  Counters'
  <2>1. CASE GivesUp
    BY <1>2, <2>1 DEF GivesUp, linkVars, Asked
  <2> QED
    BY <1>3, <1>4, <2>1 DEF Abandon
<1>5. CASE Connect
  <2>1. PICK k \in Conns : ClientConnect(k)
    BY <1>5 DEF Connect
  <2>2. cfd' = k /\ s2c'[k] = <<>> /\ ~Asked' /\ cFrameId' = cFrameId
    BY <1>1, <1>5, <2>1 DEF Connect, ClientConnect, Asked
  <2>3. \A m : Rising(<<>>) /\ AtLeast(<<>>, m) /\ OpensAbove(<<>>, m) /\ AtMost(<<>>, m)
    BY DEF Rising, AtLeast, OpensAbove, AtMost
  <2> QED
    BY <1>1, <2>2, <2>3 DEF Counters
<1>6. ASSUME cPc \in {"header", "frameId", "jpegSize", "image"}, ClientRead
      PROVE  LET s == s2c[cfd]
             IN  /\ cfd' = cfd /\ cfd # NoFd /\ s \in Seq(Blocks) /\ s # <<>>
                 /\ s2c'[cfd'] = Tail(s)
                 /\ Head(s) = s[1] /\ 1 \in 1 .. Len(s) /\ Head(s).n \in Nat
                 /\ ClientExpects(Head(s))
  <2>1. cfd \in Conns
    BY <1>1, <1>6 DEF Offline
  <2>2. s2c[cfd] \in Seq(Blocks) /\ s2c[cfd] # <<>> /\ Head(s2c[cfd]) = s2c[cfd][1]
    BY <1>6, <2>1, HeadExpected
  <2>3. Head(s2c[cfd]).n \in Nat /\ ClientExpects(Head(s2c[cfd]))
    BY <1>6, <2>1, HeadIsBlock, HeadExpected, ServerAssumption
  <2>4. cfd' = cfd /\ s2c'[cfd] = Tail(s2c[cfd])
    BY <1>1, <1>6, <2>1 DEF ClientRead
  <2> QED
    BY <2>1, <2>2, <2>3, <2>4, LinkAssumption
<1> DEFINE s == s2c[cfd]
<1>7. ASSUME cfd # NoFd, s \in Seq(Blocks), s # <<>>
      PROVE  /\ Rising(Tail(s)) /\ AtLeast(Tail(s), cFrameId) /\ OpensAbove(Tail(s), cFrameId)
             /\ Asked => AtLeast(Tail(s), cFrameId + 1)
             /\ AtMost(Tail(s), frameId)
             /\ Taken => AtMost(Tail(s), frameId - 1)
  <2>1. cFrameId \in Int /\ cFrameId + 1 \in Int /\ frameId \in Int /\ frameId - 1 \in Int
    BY <1>1
  <2> QED
    BY <1>7, <2>1, OrderTail DEF Counters
<1>8. ASSUME cfd # NoFd, s \in Seq(Blocks), s # <<>>, FrameBlock(Head(s))
      PROVE  AtLeast(Tail(s), Head(s).n) /\ OpensAbove(Tail(s), Head(s).n)
  <2>1. Rising(s)
    BY <1>8 DEF Counters
  <2> HIDE DEF s
  <2> QED
    BY <1>8, <2>1, OrderTail
<1>9. CASE ReceiveHeader
  <2>1. /\ cfd' = cfd /\ cfd # NoFd /\ s \in Seq(Blocks) /\ s # <<>>
        /\ s2c'[cfd'] = Tail(s)
        /\ Head(s) = s[1] /\ 1 \in 1 .. Len(s) /\ Head(s).n \in Nat
        /\ Head(s).part = "header"
    BY <1>6, <1>9 DEF ReceiveHeader, ClientExpects
  <2>2. Asked' => Head(s).of \in ImageAnswers
    BY <1>9 DEF ReceiveHeader, Asked
  <2>3. cFrameId' = cFrameId
    BY <1>9 DEF ReceiveHeader
  <2>4. CASE Head(s).of \in ImageAnswers
    <3>1. FrameBlock(Head(s)) /\ Opens(Head(s))
      BY <2>1, <2>4 DEF FrameBlock, FrameAnswers, Opens
    <3>2. cFrameId < Head(s).n /\ Head(s).n <= frameId
      BY <2>1, <3>1 DEF Counters, AtMost, OpensAbove
    <3>3. AtLeast(Tail(s), Head(s).n)
      BY <1>8, <2>1, <3>1
    <3> HIDE DEF s
    <3>4. \A i \in 1 .. Len(Tail(s)) : Tail(s)[i].n \in Int
      <4>1. \A i \in 1 .. Len(Tail(s)) : Tail(s)[i] \in Blocks
        BY <2>1
      <4>2. \A p \in Blocks : p.n \in Int
        BY ServerAssumption DEF Blocks
      <4> QED
        BY <4>1, <4>2
    <3>5. AtLeast(Tail(s), cFrameId + 1)
      BY <1>1, <2>1, <3>2, <3>3, <3>4 DEF AtLeast
    <3>6. cFrameId < frameId
      BY <1>1, <2>1, <3>2
    <3> QED
      BY <1>1, <1>7, <2>1, <2>3, <3>5, <3>6 DEF Counters, s
  <2>5. CASE ~Asked'
    BY <1>1, <1>7, <2>1, <2>3, <2>5 DEF Counters
  <2> QED
    BY <2>2, <2>4, <2>5
<1>10. CASE ReceiveFrameId
  <2>1. /\ cfd' = cfd /\ cfd # NoFd /\ s \in Seq(Blocks) /\ s # <<>>
        /\ s2c'[cfd'] = Tail(s)
        /\ Head(s) = s[1] /\ 1 \in 1 .. Len(s) /\ Head(s).n \in Nat
        /\ Head(s).of = response
    BY <1>6, <1>10 DEF ReceiveFrameId, ClientExpects
  <2>2. cFrameId' = Head(s).n /\ ~Asked'
    BY <1>10 DEF ReceiveFrameId, Asked, AfterAnswer
  <2>3. FrameBlock(Head(s))
    BY <1>1, <1>10, <2>1 DEF FrameBlock, ReceiveFrameId
  <2>4. Head(s).n <= frameId /\ (Taken => Head(s).n <= frameId - 1)
    BY <2>1, <2>3 DEF Counters, AtMost
  <2>5. cFrameId' <= frameId' /\ (Taken' => cFrameId' < frameId')
    BY <1>1, <2>1, <2>2, <2>4
  <2> QED
    BY <1>1, <1>7, <1>8, <2>1, <2>2, <2>3, <2>5 DEF Counters
<1>11. CASE ReceiveJpegSize \/ ReceiveImage
  <2>1. /\ cfd' = cfd /\ cfd # NoFd /\ s \in Seq(Blocks) /\ s # <<>>
        /\ s2c'[cfd'] = Tail(s)
    BY <1>6, <1>11 DEF ReceiveJpegSize, ReceiveImage
  <2>2. cFrameId' = cFrameId /\ ~Asked'
    BY <1>11 DEF ReceiveJpegSize, ReceiveImage, Asked, AfterAnswer
  <2> QED
    BY <1>1, <1>7, <2>1, <2>2 DEF Counters
<1>12. CASE \/ ClientSendFails \/ ReceiveStopAck \/ HeaderClosed \/ GiveUpServer
            \/ ReadFails \/ AckNotReceived
  BY <1>4, <1>12 DEF ClientSendFails, ReceiveStopAck, HeaderClosed, GiveUpServer, ReadFails,
     AckNotReceived
<1>13. CASE HeaderTimeout
  BY <1>2, <1>4, <1>13 DEF HeaderTimeout, linkVars, Asked
<1>14. CASE SendGetFrame \/ QuitOnline
  BY <1>2, <1>14 DEF SendGetFrame, QuitOnline, ClientWrite, linkVars, Asked
<1>15. CASE ConnectFails \/ PauseOver \/ PollNoKey \/ AwaitAck \/ QuitOffline
  BY <1>2, <1>15 DEF ConnectFails, PauseOver, PollNoKey, AwaitAck, QuitOffline, linkVars,
     Asked
<1> QED
  BY <1>5, <1>9, <1>10, <1>11, <1>12, <1>13, <1>14, <1>15
  DEF ClientStep, ClientEnv, Relaunch

\* The server is never killed.
NeverDown == sPc # "down"

\* Nothing has been counted or read at the start.
LEMMA InitCounters ==
  ASSUME Init
  PROVE  Counters /\ NeverDown
<1>1. /\ cFrameId = 0 /\ frameId = 0 /\ cfd = NoFd
      /\ cPc = "connect" /\ sPc = "accept"
  BY DEF Init, LinkInit, ServerInit, ClientInit
<1>2. ~Asked /\ ~Taken
  BY <1>1 DEF Asked, Taken
<1> QED
  BY <1>1, <1>2 DEF Counters, NeverDown

\* Every step keeps the order of the counters.
LEMMA NextCounters ==
  ASSUME TypeOK, StreamAligned, Counters, NeverDown, {"crash", "relaunch", "wrap"} \cap Faults = {},
         [Next]_vars
  PROVE  Counters' /\ NeverDown'
<1>1. "crash" \notin Faults /\ "relaunch" \notin Faults /\ "wrap" \notin Faults
  OBVIOUS
<1>2. CASE (ServerStep \/ ServerEnv) /\ UNCHANGED clientVars
  BY <1>1, <1>2, ServerCounters DEF NeverDown
<1>3. CASE (ClientStep \/ ClientEnv) /\ UNCHANGED serverVars
  BY <1>1, <1>3, ClientCounters DEF NeverDown, serverVars
<1>4. CASE LinkStep \/ Tick \/ UNCHANGED vars
  <2>1. /\ UNCHANGED <<cfd, cFrameId, frameId, cPc, response, sPc, answer>>
        /\ cfd \in Conns => s2c'[cfd] = s2c[cfd]
    BY <1>4 DEF LinkStep, CutCable, PlugCable, Retransmit, RetransmitCommands,
       RetransmitAnswers, Tick, vars, linkVars, serverVars,
       clientVars, TypeOK, LinkTypeOK
  <2>2. (Asked' <=> Asked) /\ (Taken' <=> Taken)
    BY <2>1 DEF Asked, Taken
  <2>3. cfd' \in Conns => \E n \in 0 .. Len(s2c[cfd]) : s2c'[cfd] = SubSeq(s2c[cfd], 1, n)
    <3> SUFFICES ASSUME cfd \in Conns
                 PROVE  \E n \in 0 .. Len(s2c[cfd]) : s2c'[cfd] = SubSeq(s2c[cfd], 1, n)
      BY <2>1
    <3>1. s2c[cfd] \in Seq(Blocks)
      BY DEF TypeOK, LinkTypeOK
    <3> QED
      BY <2>1, <3>1, WholePrefix
  <2> QED
    BY <2>1, <2>2, <2>3, QuietCounters DEF NeverDown
<1> QED
  BY <1>2, <1>3, <1>4 DEF Next

\* The counter of an answer is not below those read before, and the counter of an image
\* is above them.
LEMMA FrameIdRead ==
  ASSUME TypeOK, StreamAligned, Counters, ReceiveFrameId
  PROVE  /\ cFrameId \in Nat /\ cFrameId' \in Nat
         /\ cFrameId <= cFrameId'
         /\ response \in ImageAnswers => cFrameId < cFrameId'
<1>1. /\ cPc = "frameId" /\ ClientRead /\ cFrameId' = Head(s2c[cfd]).n
      /\ response \in FrameAnswers /\ cfd \in Conns /\ cfd # NoFd
      /\ cFrameId \in Nat
  BY LinkAssumption, ServerAssumption
  DEF ReceiveFrameId, TypeOK, LinkTypeOK, ClientTypeOK, ClientCallOK, Reading, Offline
<1> DEFINE s == s2c[cfd]
<1>2. s \in Seq(Blocks) /\ s # <<>> /\ Head(s) = s[1] /\ ClientExpects(Head(s))
  BY <1>1, HeadExpected
<1>3. Head(s).n \in Nat /\ 1 \in 1 .. Len(s)
  BY <1>1, <1>2, HeadIsBlock, ServerAssumption
<1>4. FrameBlock(s[1])
  BY <1>1, <1>2 DEF ClientExpects, FrameBlock
<1>5. AtLeast(s, cFrameId) /\ (response \in ImageAnswers => AtLeast(s, cFrameId + 1))
  BY <1>1 DEF Counters, Asked
<1> HIDE DEF s
<1> QED
  BY <1>1, <1>2, <1>3, <1>4, <1>5 DEF AtLeast, s

\* As long as the server is not started again and its counter does not wrap, the images
\* reach the client in the order they were taken.
THEOREM OrderIsKept == {"crash", "relaunch", "wrap"} \cap Faults = {} /\ Spec => ImagesInOrder
<1> SUFFICES ASSUME {"crash", "relaunch", "wrap"} \cap Faults = {}
             PROVE  Spec => ImagesInOrder
  OBVIOUS
<1>1. Init => Counters /\ NeverDown
  BY InitCounters
<1>2. TypeOK /\ StreamAligned /\ Counters /\ NeverDown /\ [Next]_vars
      => Counters' /\ NeverDown'
  BY NextCounters
<1>3. TypeOK /\ StreamAligned /\ Counters /\ [Next]_vars
      => [cPc = "frameId" /\ cPc' = "jpegSize" => cFrameId' > cFrameId]_vars
  <2> SUFFICES ASSUME TypeOK, StreamAligned, Counters, Next, cPc = "frameId",
                      cPc' = "jpegSize"
               PROVE  cFrameId' > cFrameId
    OBVIOUS
  <2>1. cPc' # cPc
    OBVIOUS
  <2>2. ClientStep \/ ClientEnv
    BY <2>1 DEF Next, LinkStep, Tick, clientVars
  <2>3. ReceiveFrameId
    BY <2>2
    DEF ClientStep, ClientEnv, Connect, ConnectFails, PauseOver, SendGetFrame,
        ClientSendFails,
        ReceiveHeader, ReceiveStopAck, HeaderTimeout, HeaderClosed, GiveUpServer,
        ReceiveJpegSize,
        ReceiveImage, ReadFails, PollNoKey, AwaitAck, AckNotReceived, QuitOffline,
        QuitOnline, Relaunch,
        LinkLost, Finish, GivesUp, Abandon, Reading
  <2>4. response \in ImageAnswers
    BY <2>3 DEF ReceiveFrameId, AfterAnswer
  <2> QED
    BY <2>3, <2>4, FrameIdRead
<1> QED
  BY TypeCorrect, StreamStaysAligned, <1>1, <1>2, <1>3, PTL DEF Spec, ImagesInOrder

-----------------------------------------------------------------------------
(* The files.                                                              *)

\* No file yet has a counter the client has not read, nor the one of the image it is
\* reading.
NameIsFree ==
  \A n \in 0 .. FrameIds - 1 :
    /\ disk[n] <= 1
    /\ n > cFrameId => disk[n] = 0
    /\ cPc \in {"jpegSize", "image"} /\ n = cFrameId => disk[n] = 0

LEMMA NextNameIsFree ==
  ASSUME TypeOK, StreamAligned, Counters, NameIsFree, "relaunch" \notin Faults, [Next]_vars
  PROVE  NameIsFree'
<1>1. /\ disk \in [0 .. FrameIds - 1 -> Nat]
      /\ cFrameId \in 0 .. FrameIds - 1 /\ FrameIds \in Nat
  BY ServerAssumption DEF TypeOK, ClientTypeOK
<1>2. ASSUME UNCHANGED <<disk, cFrameId>>,
             cPc' \in {"jpegSize", "image"} => cPc \in {"jpegSize", "image"}
      PROVE  NameIsFree'
  BY <1>2 DEF NameIsFree
<1>3. CASE (ClientStep \/ ClientEnv) /\ UNCHANGED serverVars
  <2>1. CASE ReceiveFrameId
    <3>1. /\ cFrameId \in Nat /\ cFrameId' \in Nat /\ cFrameId <= cFrameId'
          /\ response \in ImageAnswers => cFrameId < cFrameId'
      BY <2>1, FrameIdRead
    <3>2. /\ disk' = disk
          /\ cPc' \in {"jpegSize", "image"} => response \in ImageAnswers
      BY <2>1 DEF ReceiveFrameId, AfterAnswer
    <3> SUFFICES ASSUME NEW n \in 0 .. FrameIds - 1
                 PROVE  /\ disk[n] <= 1
                        /\ n > cFrameId' => disk[n] = 0
                        /\ cPc' \in {"jpegSize", "image"} /\ n = cFrameId' => disk[n] = 0
      BY <3>2 DEF NameIsFree
    <3>3. disk[n] <= 1 /\ (n > cFrameId => disk[n] = 0)
      BY DEF NameIsFree
    <3> QED
      BY <1>1, <3>1, <3>2, <3>3
  <2>2. CASE ReceiveImage
    <3>1. /\ cPc = "image" /\ cPc' \notin {"jpegSize", "image"} /\ cFrameId' = cFrameId
          /\ disk' = disk \/ disk' = [disk EXCEPT ![cFrameId] = @ + 1]
      BY <2>2 DEF ReceiveImage, AfterAnswer, SaveImage, SaveFails
    <3>2. ASSUME NEW n \in 0 .. FrameIds - 1
          PROVE  \/ disk'[n] = disk[n]
                 \/ n = cFrameId /\ disk'[n] = disk[n] + 1
      BY <1>1, <3>1
    <3> SUFFICES ASSUME NEW n \in 0 .. FrameIds - 1
                 PROVE  disk'[n] <= 1 /\ (n > cFrameId => disk'[n] = 0)
      BY <3>1 DEF NameIsFree
    <3>3. /\ disk[n] <= 1 /\ (n > cFrameId => disk[n] = 0)
          /\ n = cFrameId => disk[n] = 0
      BY <3>1 DEF NameIsFree
    <3> QED
      BY <1>1, <3>2, <3>3
  <2>3. ASSUME LinkLost \/ Finish \/ GivesUp \/ Abandon
        PROVE  NameIsFree'
    BY <1>2, <2>3 DEF LinkLost, Finish, GivesUp, Abandon
  <2>4. CASE \/ ClientSendFails \/ ReceiveStopAck \/ HeaderClosed \/ GiveUpServer
             \/ ReadFails \/ AckNotReceived
    BY <2>3, <2>4 DEF ClientSendFails, ReceiveStopAck, HeaderClosed, GiveUpServer,
       ReadFails,
       AckNotReceived
  <2>5. CASE HeaderTimeout
    BY <1>2, <2>3, <2>5 DEF HeaderTimeout
  <2>6. CASE \/ Connect \/ ConnectFails \/ PauseOver \/ SendGetFrame \/ ReceiveHeader
             \/ ReceiveJpegSize \/ PollNoKey \/ AwaitAck \/ QuitOffline \/ QuitOnline
    BY <1>2, <2>6 DEF Connect, ConnectFails, PauseOver, SendGetFrame, ReceiveHeader,
       ReceiveJpegSize, PollNoKey, AwaitAck, QuitOffline, QuitOnline
  <2> QED
    BY <1>3, <2>1, <2>2, <2>4, <2>5, <2>6 DEF ClientStep, ClientEnv, Relaunch
<1>4. CASE UNCHANGED <<cPc, disk, cFrameId>>
  BY <1>2, <1>4
<1> QED
  BY <1>3, <1>4 DEF Next, LinkStep, Tick, vars, clientVars

\* Under the same conditions no image takes the name of one already saved.
THEOREM NamesAreNew == {"crash", "relaunch", "wrap"} \cap Faults = {} /\ Spec => []NoOverwrite
<1> SUFFICES ASSUME {"crash", "relaunch", "wrap"} \cap Faults = {}
             PROVE  Spec => []NoOverwrite
  OBVIOUS
<1>1. Init => Counters /\ NeverDown /\ NameIsFree
  <2> SUFFICES ASSUME Init PROVE Counters /\ NeverDown /\ NameIsFree
    OBVIOUS
  <2>1. \A n \in 0 .. FrameIds - 1 : disk[n] = 0
    BY DEF Init, ClientInit, EmptyStore
  <2> QED
    BY <2>1, InitCounters DEF NameIsFree
<1>2. TypeOK /\ StreamAligned /\ Counters /\ NeverDown /\ [Next]_vars
      => Counters' /\ NeverDown'
  BY NextCounters
<1>3. TypeOK /\ StreamAligned /\ Counters /\ NameIsFree /\ [Next]_vars => NameIsFree'
  BY NextNameIsFree
<1>4. TypeOK /\ NameIsFree => NoOverwrite
  BY DEF TypeOK, ClientTypeOK, NameIsFree, NoOverwrite
<1> QED
  BY TypeCorrect, StreamStaysAligned, <1>1, <1>2, <1>3, <1>4, PTL DEF Spec

-----------------------------------------------------------------------------
(* How many blocks of a kind a stream holds.                               *)

Places(s, T) == {i \in 1 .. Len(s) : s[i] \in T}

Count(s, T) == Cardinality(Places(s, T))

LEMMA CountIsNat ==
  ASSUME NEW S, NEW s \in Seq(S), NEW T
  PROVE  IsFiniteSet(Places(s, T)) /\ Count(s, T) \in Nat
<1>1. Len(s) \in Nat
  OBVIOUS
<1>2. IsFiniteSet(1 .. Len(s)) /\ Places(s, T) \in SUBSET (1 .. Len(s))
  BY <1>1, FS_Interval DEF Places
<1>3. IsFiniteSet(Places(s, T))
  BY <1>2, FS_Subset
<1> QED
  BY <1>3, FS_CardinalityType DEF Count

\* One more at the end.
LEMMA CountAppend ==
  ASSUME NEW S, NEW s \in Seq(S), NEW e \in S, NEW T
  PROVE  Count(Append(s, e), T) = IF e \in T THEN Count(s, T) + 1 ELSE Count(s, T)
<1> DEFINE t == Append(s, e)
<1>1. /\ Len(s) \in Nat /\ Len(t) = Len(s) + 1
      /\ \A i \in 1 .. Len(s) : t[i] = s[i]
      /\ t[Len(s) + 1] = e
  OBVIOUS
<1> HIDE DEF t
<1>2. \A i : i \in 1 .. Len(t) <=> i \in 1 .. Len(s) \/ i = Len(s) + 1
  BY <1>1
<1>3. Len(s) + 1 \notin Places(s, T)
  BY <1>1 DEF Places
<1>4. CASE e \in T
  <2>1. Places(t, T) = Places(s, T) \cup {Len(s) + 1}
    BY <1>1, <1>2, <1>4 DEF Places
  <2> QED
    BY <1>3, <1>4, <2>1, CountIsNat, FS_AddElement DEF Count, t
<1>5. CASE e \notin T
  <2>1. Places(t, T) = Places(s, T)
    BY <1>1, <1>2, <1>5 DEF Places
  <2> QED
    BY <1>5, <2>1 DEF Count, t
<1> QED
  BY <1>4, <1>5

\* One less at the head.
LEMMA CountTail ==
  ASSUME NEW S, NEW s \in Seq(S), s # <<>>, NEW T
  PROVE  /\ Count(Tail(s), T) \in Nat
         /\ Count(Tail(s), T) <= Count(s, T)
         /\ Head(s) \in T => Count(Tail(s), T) <= Count(s, T) - 1
<1> DEFINE t == Tail(s)
           P == Places(s, T) \ {1}
           next == [i \in Places(t, T) |-> i + 1]
<1>1. /\ Len(s) \in Nat \ {0} /\ Len(t) = Len(s) - 1 /\ t \in Seq(S) /\ Head(s) = s[1]
      /\ \A i \in 1 .. Len(t) : t[i] = s[i + 1]
  OBVIOUS
<1> HIDE DEF t
<1>2. \A i \in Places(t, T) : i \in Nat /\ i + 1 \in P
  BY <1>1 DEF Places
<1>3. next \in Injection(Places(t, T), P)
  <2>1. next \in [Places(t, T) -> P]
    BY <1>2
  <2>2. \A i, j \in Places(t, T) : next[i] = next[j] => i = j
    BY <1>2
  <2> HIDE DEF next
  <2> QED
    BY <2>1, <2>2 DEF Injection, IsInjective
<1>4. IsFiniteSet(P)
  BY CountIsNat, FS_RemoveElement
<1>5. Cardinality(Places(t, T)) <= Cardinality(P)
  <2> HIDE DEF next, P
  <2> QED
    BY <1>3, <1>4, FS_Injection
<1>6. Cardinality(P) = IF 1 \in Places(s, T) THEN Count(s, T) - 1 ELSE Count(s, T)
  BY CountIsNat, FS_RemoveElement DEF Count
<1>7. Head(s) \in T => 1 \in Places(s, T)
  BY <1>1 DEF Places
<1>8. Count(t, T) \in Nat /\ Count(s, T) \in Nat
  BY <1>1, CountIsNat
<1> HIDE DEF P
<1> QED
  BY <1>5, <1>6, <1>7, <1>8 DEF Count, t

\* What is lost at the end is not counted.
LEMMA CountPrefix ==
  ASSUME NEW S, NEW s \in Seq(S), NEW n \in 0 .. Len(s), NEW T
  PROVE  Count(SubSeq(s, 1, n), T) \in Nat /\ Count(SubSeq(s, 1, n), T) <= Count(s, T)
<1> DEFINE t == SubSeq(s, 1, n)
<1>1. /\ Len(s) \in Nat /\ Len(t) = n /\ t \in Seq(S)
      /\ \A i \in 1 .. Len(t) : t[i] = s[i]
  OBVIOUS
<1> HIDE DEF t
<1>2. Places(t, T) \in SUBSET Places(s, T)
  BY <1>1 DEF Places
<1> QED
  BY <1>1, <1>2, CountIsNat, FS_Subset DEF Count, t

-----------------------------------------------------------------------------
(* The presses.                                                            *)

\* The images that report one.
PressImages == {q \in Blocks : q.part = "image" /\ q.of = "BUTTON_PRESS"}

\* Where a press can be: in the latch, in the hands of the server, on its way.
InLatch == IF pressed THEN 1 ELSE 0

InHand == IF sPc \in Sending /\ sfd = cfd /\ answer = "BUTTON_PRESS" THEN 1 ELSE 0

OnTheWay == IF cfd = NoFd THEN 0 ELSE Count(s2c[cfd], PressImages)

\* PressReportedOnce, over a finite number of files.
PressCount ==
  /\ IsFiniteSet(Writes)
  /\ Saves + InHand + OnTheWay + InLatch <= presses

\* The amounts are numbers.
LEMMA Amounts ==
  ASSUME TypeOK, PressCount
  PROVE  /\ Saves \in Nat /\ InHand \in 0 .. 1 /\ OnTheWay \in Nat /\ InLatch \in 0 .. 1
         /\ presses \in Nat
<1>1. cfd # NoFd => s2c[cfd] \in Seq(Blocks)
  BY DEF TypeOK, LinkTypeOK
<1>2. OnTheWay \in Nat
  BY <1>1, CountIsNat DEF OnTheWay
<1>3. Saves \in Nat
  BY FS_CardinalityType DEF PressCount, Saves
<1>4. presses \in Nat
  BY ServerAssumption DEF TypeOK, ServerTypeOK
<1> QED
  BY <1>2, <1>3, <1>4 DEF InHand, InLatch

\* A press moves from the latch to the server's hands, and from there to the stream.
LEMMA Exchange ==
  ASSUME NEW h \in 0 .. 1, NEW w \in Nat, NEW l \in 0 .. 1,
         NEW h1 \in 0 .. 1, NEW w1 \in Nat, NEW l1 \in 0 .. 1,
         \/ h1 <= h /\ w1 <= w /\ l1 <= l
         \/ h1 <= l /\ w1 <= w /\ l1 = 0
         \/ h1 = 0 /\ h = 1 /\ w1 <= w + 1 /\ l1 <= l,
         NEW f \in Nat, NEW p \in Nat, f + h + w + l <= p
  PROVE  f + h1 + w1 + l1 <= p
  OBVIOUS

\* A step that writes no file, and takes a press from where it was if it puts it
\* somewhere else.
LEMMA QuietPress ==
  ASSUME TypeOK, PressCount, UNCHANGED <<disk, presses>>, OnTheWay' \in Nat,
         \/ InHand' <= InHand /\ OnTheWay' <= OnTheWay /\ InLatch' <= InLatch
         \/ InHand' <= InLatch /\ OnTheWay' <= OnTheWay /\ InLatch' = 0
         \/ InHand' = 0 /\ InHand = 1 /\ OnTheWay' <= OnTheWay + 1 /\ InLatch' <= InLatch
  PROVE  PressCount'
<1>1. Writes' = Writes /\ Saves' = Saves
  BY DEF Writes, Saves
<1>2. InHand' \in 0 .. 1 /\ InLatch' \in 0 .. 1
  BY DEF InHand, InLatch
<1>3. Saves + InHand' + OnTheWay' + InLatch' <= presses
  BY <1>2, Amounts, Exchange DEF PressCount
<1> QED
  BY <1>1, <1>3 DEF PressCount

\* The server hands a press on, and never keeps a copy.
LEMMA ServerPress ==
  ASSUME TypeOK, PressCount, ServerStep \/ ServerEnv, UNCHANGED clientVars
  PROVE  PressCount'
<1>1. /\ sPc \notin {"accept", "done", "down"} => sfd \in Conns
      /\ sPc \in Sending => answer \in FrameAnswers
      /\ answer = NoAnswer <=> sPc \notin Sending
      /\ frameId \in 0 .. FrameIds - 1
      /\ cfd \in Conns \cup {NoFd} /\ s2c \in [Conns -> Seq(Blocks)]
      /\ disk' = disk
  BY DEF TypeOK, LinkTypeOK, ServerTypeOK, ServerCallOK, clientVars
<1>2. /\ InHand \in 0 .. 1 /\ OnTheWay \in Nat /\ InLatch \in 0 .. 1
      /\ InHand' \in 0 .. 1 /\ InLatch' \in 0 .. 1
  BY Amounts DEF InHand, InLatch
<1>3. ASSUME UNCHANGED <<cfd, s2c, pressed, presses>>, InHand' <= InHand
      PROVE  PressCount'
  <2>1. OnTheWay' = OnTheWay /\ InLatch' = InLatch
    BY <1>3 DEF OnTheWay, InLatch
  <2> QED
    BY <1>1, <1>2, <1>3, <2>1, QuietPress
<1>4. ASSUME NEW K, ServerDrop(K), UNCHANGED <<pressed, presses>>, InHand' = 0
      PROVE  PressCount'
  <2>1. cfd' = cfd
    BY <1>4 DEF ServerDrop
  <2>2. OnTheWay' \in Nat /\ OnTheWay' <= OnTheWay
    <3>1. CASE cfd = NoFd
      BY <2>1, <3>1 DEF OnTheWay
    <3>2. CASE cfd \in Conns
      <4>1. PICK n \in 0 .. Len(s2c[cfd]) : s2c'[cfd] = SubSeq(s2c[cfd], 1, n)
        BY <1>4, <3>2, DropKeepsPrefix
      <4>2. s2c[cfd] \in Seq(Blocks) /\ cfd # NoFd
        BY <1>1, <3>2, LinkAssumption
      <4> QED
        BY <2>1, <4>1, <4>2, CountPrefix DEF OnTheWay
    <3> QED
      BY <1>1, <3>1, <3>2
  <2>3. InLatch' = InLatch
    BY <1>4 DEF InLatch
  <2> QED
    BY <1>1, <1>2, <1>4, <2>2, <2>3, QuietPress
<1>5. ASSUME NEW p \in Blocks, sfd \in Conns, ServerWrite(p), UNCHANGED <<pressed, presses>>,
             p \in PressImages => sPc \in Sending /\ answer = "BUTTON_PRESS" /\ answer' = NoAnswer,
             answer' = answer \/ answer' = NoAnswer, sPc' \in Sending => sPc \in Sending
      PROVE  PressCount'
  <2>1. cfd' = cfd /\ sfd' = sfd /\ InLatch' = InLatch
    BY <1>5 DEF ServerWrite, InLatch
  <2>2. InHand' <= InHand
    BY <1>5, <2>1 DEF InHand, NoAnswer
  <2>3. CASE cfd = NoFd \/ s2c'[cfd] = s2c[cfd]
    <3>1. OnTheWay' = OnTheWay
      BY <2>1, <2>3 DEF OnTheWay
    <3> QED
      BY <1>1, <1>2, <1>5, <2>1, <2>2, <3>1, QuietPress
  <2>4. CASE cfd \in Conns /\ cfd = sfd /\ s2c'[cfd] = Append(s2c[cfd], p)
    <3>1. s2c[cfd] \in Seq(Blocks) /\ cfd # NoFd
      BY <1>1, <2>4, LinkAssumption
    <3>2. OnTheWay' = IF p \in PressImages THEN OnTheWay + 1 ELSE OnTheWay
      BY <2>1, <2>4, <3>1, CountAppend DEF OnTheWay
    <3>3. p \in PressImages => InHand = 1 /\ InHand' = 0
      BY <1>5, <2>4 DEF InHand, NoAnswer
    <3> QED
      BY <1>1, <1>2, <1>5, <2>1, <2>2, <3>2, <3>3, QuietPress
  <2> QED
    BY <1>1, <1>5, <2>3, <2>4, WriteOnStream
<1>6. ASSUME NEW kind \in PartKinds, sPc \in Sending
      PROVE  /\ Part(kind, answer, frameId) \in Blocks
             /\ Part(kind, answer, frameId) \in PressImages =>
                  kind = "image" /\ answer = "BUTTON_PRESS"
  BY <1>1, <1>6 DEF Part, Blocks, Answers, PressImages
<1>7. CASE SendHeader
  BY <1>1, <1>5, <1>6, <1>7 DEF SendHeader, Sending, PartKinds
<1>8. CASE SendFrameId
  BY <1>1, <1>5, <1>6, <1>8 DEF SendFrameId, Sending, PartKinds
<1>9. CASE SendJpegSize \/ SendImage
  BY <1>1, <1>5, <1>6, <1>9 DEF SendJpegSize, SendImage, Sending, PartKinds
<1>10. CASE HandleStop
  <2> DEFINE p == Part("header", "STOP_ACK", 0)
  <2>1. p \in Blocks /\ p \notin PressImages
    BY ServerAssumption DEF Part, Blocks, PartKinds, Answers, PressImages
  <2>2. sfd \in Conns /\ UNCHANGED <<pressed, presses, answer>> /\ sPc' \notin Sending
    BY <1>1, <1>10 DEF HandleStop, Sending
  <2>3. CASE ServerWrite(p)
    <3> HIDE DEF p
    <3> QED
      BY <1>5, <2>1, <2>2, <2>3
  <2>4. CASE UNCHANGED linkVars
    BY <1>2, <1>3, <2>2, <2>4 DEF linkVars, InHand
  <2> QED
    BY <1>10, <2>3, <2>4 DEF HandleStop
<1>11. CASE AnswerGetFrame
  <2>1. /\ UNCHANGED <<cfd, s2c, presses>> /\ pressed' = FALSE
        /\ answer' = "BUTTON_PRESS" => pressed
    BY <1>11 DEF AnswerGetFrame, linkVars, SceneErrors
  <2>2. OnTheWay' = OnTheWay /\ InLatch' = 0 /\ InHand' <= InLatch
    BY <2>1 DEF OnTheWay, InHand, InLatch
  <2> QED
    BY <1>1, <1>2, <2>1, <2>2, QuietPress
<1>12. CASE GiveUpClient \/ RecvClosed \/ ServerSendFails
  BY <1>4, <1>12 DEF GiveUpClient, RecvClosed, ServerSendFails, EndSession, ServerClose,
     InHand,
     NoAnswer
<1>13. CASE ServerExit \/ Crash
  BY <1>4, <1>13 DEF ServerExit, Crash, ServerVanish, InHand, Sending
<1>14. CASE WaitForClient \/ ReceiveCommand
  BY <1>2, <1>3, <1>14
  DEF WaitForClient, ReceiveCommand, ServerAccept, ServerRead, InHand, Sending
<1>15. CASE RecvTimeout \/ CaptureFails
  BY <1>2, <1>3, <1>15 DEF RecvTimeout, CaptureFails, linkVars, InHand, Sending
<1>16. CASE Restart
  <2>1. OnTheWay' = OnTheWay /\ InLatch' = 0 /\ InHand' = 0 /\ presses' = presses
    BY <1>16 DEF Restart, ServerListen, OnTheWay, InLatch, InHand, Sending
  <2> QED
    BY <1>1, <1>2, <2>1, QuietPress
<1>17. CASE Press
  <2>1. OnTheWay' = OnTheWay /\ InHand' = InHand /\ presses' = presses + 1
    BY <1>17 DEF Press, linkVars, OnTheWay, InHand
  <2>2. Writes' = Writes /\ Saves' = Saves
    BY <1>1 DEF Writes, Saves
  <2> QED
    BY <1>2, <2>1, <2>2, Amounts DEF PressCount, InLatch
<1> QED
  BY <1>7, <1>8, <1>9, <1>10, <1>11, <1>12, <1>13, <1>14, <1>15, <1>16, <1>17
  DEF ServerStep, ServerEnv

\* A save adds one file.
LEMMA SaveAddsOne ==
  ASSUME TypeOK, IsFiniteSet(Writes), NEW n \in 0 .. FrameIds - 1, SaveImage(n)
  PROVE  /\ IsFiniteSet(Writes)' /\ Saves' \in Nat /\ Saves \in Nat
         /\ Saves' <= Saves + 1
<1> DEFINE new == <<n, disk[n] + 1>>
<1>1. /\ disk \in [0 .. FrameIds - 1 -> Nat]
      /\ disk' = [disk EXCEPT ![n] = @ + 1]
  BY DEF TypeOK, ClientTypeOK, SaveImage
<1>2. \A w : w \in Writes <=> \E m \in 0 .. FrameIds - 1 : \E i \in 1 .. disk[m] : w = <<m, i>>
  BY <1>1 DEF Writes
<1>3. \A w : w \in Writes' <=> \E m \in 0 .. FrameIds - 1 : \E i \in 1 .. disk'[m] : w = <<m, i>>
  BY <1>1 DEF Writes
<1>4. Writes' = Writes \cup {new}
  <2>1. ASSUME NEW m \in 0 .. FrameIds - 1, NEW i
        PROVE  i \in 1 .. disk'[m] <=> i \in 1 .. disk[m] \/ (m = n /\ i = disk[n] + 1)
    BY <1>1
  <2>2. ASSUME NEW w
        PROVE  w \in Writes' <=> w \in Writes \/ w = new
    <3>1. ASSUME w \in Writes'
          PROVE  w \in Writes \/ w = new
      BY <1>2, <1>3, <2>1, <3>1
    <3>2. ASSUME w \in Writes
          PROVE  w \in Writes'
      BY <1>2, <1>3, <2>1, <3>2
    <3>3. new \in Writes'
      BY <1>3, <2>1, <1>1
    <3> QED
      BY <3>1, <3>2, <3>3
  <2> HIDE DEF new
  <2> QED
    BY <2>2
<1> HIDE DEF new
<1>5. IsFiniteSet(Writes') /\ Saves \in Nat /\ Saves' \in Nat
  BY <1>4, FS_AddElement, FS_CardinalityType DEF Saves
<1>6. Saves' = IF new \in Writes THEN Saves ELSE Saves + 1
  BY <1>4, FS_AddElement DEF Saves
<1> QED
  BY <1>5, <1>6

\* The client makes one file of an image, and forgets the others.
LEMMA ClientPress ==
  ASSUME TypeOK, StreamAligned, PressCount, ClientStep \/ ClientEnv, UNCHANGED serverVars
  PROVE  PressCount'
<1>1. /\ cPc \notin Offline => cfd \in Conns
      /\ cPc \in Offline => cfd = NoFd
      /\ (sPc \in Sending => sfd # NoFd)
      /\ cfd \in Conns \cup {NoFd} /\ s2c \in [Conns -> Seq(Blocks)]
      /\ UNCHANGED <<sPc, answer, presses, pressed>>
  BY DEF TypeOK, LinkTypeOK, ServerCallOK, ClientCallOK, serverVars, Sending
<1>2. /\ InHand \in 0 .. 1 /\ OnTheWay \in Nat /\ InLatch \in 0 .. 1
      /\ InHand' \in 0 .. 1 /\ InLatch' = InLatch
  BY <1>1, Amounts DEF InHand, InLatch
<1>3. ASSUME UNCHANGED <<cfd, sfd, s2c, disk>>
      PROVE  PressCount'
  <2>1. OnTheWay' = OnTheWay /\ InHand' = InHand
    BY <1>1, <1>3 DEF OnTheWay, InHand
  <2> QED
    BY <1>1, <1>2, <1>3, <2>1, QuietPress
<1>4. ASSUME ClientClose, disk' = disk
      PROVE  PressCount'
  <2>1. OnTheWay' = 0 /\ InHand' = 0
    BY <1>1, <1>4 DEF ClientClose, OnTheWay, InHand
  <2> QED
    BY <1>1, <1>2, <1>4, <2>1, QuietPress
<1>5. ASSUME LinkLost \/ Finish \/ GivesUp \/ Abandon
      PROVE  PressCount'
  BY <1>3, <1>4, <1>5 DEF LinkLost, Finish, GivesUp, Abandon, linkVars
<1>6. CASE Connect
  <2>1. PICK k \in Conns : ClientConnect(k)
    BY <1>6 DEF Connect
  <2>2. cfd' = k /\ sfd' = sfd /\ k # sfd /\ s2c'[k] = <<>> /\ disk' = disk /\ k # NoFd
    BY <1>1, <1>6, <2>1, LinkAssumption DEF Connect, ClientConnect, ServerHolds
  <2>3. Count(<<>>, PressImages) = 0
    BY FS_EmptySet DEF Count, Places
  <2>4. OnTheWay' = 0 /\ InHand' = 0
    BY <1>1, <2>2, <2>3 DEF OnTheWay, InHand
  <2> QED
    BY <1>1, <1>2, <2>2, <2>4, QuietPress
<1>7. ASSUME cPc \in {"header", "frameId", "jpegSize", "image"}, ClientRead
      PROVE  /\ cfd' = cfd /\ sfd' = sfd /\ InHand' = InHand
             /\ OnTheWay' \in Nat /\ OnTheWay' <= OnTheWay
             /\ Head(s2c[cfd]) \in PressImages => OnTheWay' <= OnTheWay - 1
  <2>1. cfd \in Conns /\ cfd # NoFd
    BY <1>1, <1>7, LinkAssumption DEF Offline
  <2>2. s2c[cfd] \in Seq(Blocks) /\ s2c[cfd] # <<>>
    BY <1>7, <2>1, HeadExpected
  <2>3. cfd' = cfd /\ sfd' = sfd /\ s2c'[cfd] = Tail(s2c[cfd])
    BY <1>1, <1>7, <2>1 DEF ClientRead
  <2>4. OnTheWay' = Count(Tail(s2c[cfd]), PressImages) /\ OnTheWay = Count(s2c[cfd], PressImages)
    BY <2>1, <2>3 DEF OnTheWay
  <2>5. InHand' = InHand
    BY <1>1, <2>3 DEF InHand
  <2> QED
    BY <2>2, <2>3, <2>4, <2>5, CountTail
<1>8. ASSUME cPc \in {"header", "frameId", "jpegSize", "image"}, ClientRead, disk' = disk
      PROVE  PressCount'
  BY <1>1, <1>2, <1>7, <1>8, QuietPress
<1>9. CASE ReceiveImage
  <2>1. cPc = "image" /\ ClientRead /\ cfd \in Conns
    BY <1>1, <1>9 DEF ReceiveImage, Offline
  <2>2. CASE disk' = disk
    BY <1>8, <2>1, <2>2
  <2>3. CASE response = "BUTTON_PRESS" /\ SaveImage(cFrameId)
    <3>1. Head(s2c[cfd]) \in PressImages
      BY <2>1, <2>3, HeadExpected, HeadIsBlock DEF ClientExpects, PressImages, Part
    <3>2. cFrameId \in 0 .. FrameIds - 1 /\ IsFiniteSet(Writes)
      BY DEF TypeOK, ClientTypeOK, PressCount
    <3>3. /\ IsFiniteSet(Writes)' /\ Saves' \in Nat /\ Saves \in Nat
          /\ Saves' <= Saves + 1
      BY <2>3, <3>2, SaveAddsOne
    <3>4. OnTheWay' \in Nat /\ OnTheWay' <= OnTheWay - 1 /\ InHand' = InHand
      BY <1>7, <2>1, <3>1
    <3>5. Saves + InHand + OnTheWay + InLatch <= presses /\ presses \in Nat
      BY Amounts DEF PressCount
    <3>6. Saves' + InHand + OnTheWay' + InLatch <= presses
      <4>1. ASSUME NEW f \in Nat, NEW f1 \in Nat, NEW h \in 0 .. 1, NEW w \in Nat, NEW w1 \in Nat,
                   NEW l \in 0 .. 1, NEW p \in Nat, f1 <= f + 1, w1 <= w - 1, f + h + w + l <= p
            PROVE  f1 + h + w1 + l <= p
        BY <4>1
      <4> QED
        BY <1>2, <3>3, <3>4, <3>5, <4>1
    <3> QED
      BY <1>1, <1>2, <3>3, <3>4, <3>6 DEF PressCount
  <2> QED
    BY <1>9, <2>2, <2>3 DEF ReceiveImage, SaveFails
<1>10. CASE Relaunch
  <2>1. disk' = [n \in 0 .. FrameIds - 1 |-> 0]
    BY <1>10 DEF Relaunch, EmptyStore
  <2>2. Writes' = {}
    BY <2>1 DEF Writes
  <2>3. IsFiniteSet(Writes') /\ Saves' = 0
    BY <2>2, FS_EmptySet DEF Saves
  <2>4. OnTheWay' = OnTheWay /\ InHand' = InHand
    BY <1>1, <1>10 DEF Relaunch, linkVars, OnTheWay, InHand
  <2>5. 0 + InHand + OnTheWay + InLatch <= presses
    <3>1. ASSUME NEW f \in Nat, NEW h \in 0 .. 1, NEW w \in Nat, NEW l \in 0 .. 1, NEW p \in Nat,
                 f + h + w + l <= p
          PROVE  0 + h + w + l <= p
      BY <3>1
    <3> QED
      BY <3>1, Amounts DEF PressCount
  <2> QED
    BY <1>1, <1>2, <2>3, <2>4, <2>5 DEF PressCount
<1>11. CASE ReceiveHeader \/ ReceiveFrameId \/ ReceiveJpegSize
  BY <1>8, <1>11 DEF ReceiveHeader, ReceiveFrameId, ReceiveJpegSize
<1>12. CASE \/ ClientSendFails \/ ReceiveStopAck \/ HeaderClosed \/ GiveUpServer
            \/ ReadFails \/ AckNotReceived
  BY <1>5, <1>12 DEF ClientSendFails, ReceiveStopAck, HeaderClosed, GiveUpServer, ReadFails,
     AckNotReceived
<1>13. CASE HeaderTimeout
  BY <1>3, <1>5, <1>13 DEF HeaderTimeout, linkVars
<1>14. CASE SendGetFrame \/ QuitOnline
  BY <1>3, <1>14 DEF SendGetFrame, QuitOnline, ClientWrite, linkVars
<1>15. CASE ConnectFails \/ PauseOver \/ PollNoKey \/ AwaitAck \/ QuitOffline
  BY <1>3, <1>15 DEF ConnectFails, PauseOver, PollNoKey, AwaitAck, QuitOffline, linkVars
<1> QED
  BY <1>6, <1>9, <1>10, <1>11, <1>12, <1>13, <1>14, <1>15 DEF ClientStep, ClientEnv

\* Every step keeps the account.
LEMMA NextPress ==
  ASSUME TypeOK, StreamAligned, PressCount, [Next]_vars
  PROVE  PressCount'
<1>1. CASE LinkStep \/ Tick \/ UNCHANGED vars
  <2>1. /\ UNCHANGED <<cfd, sfd, sPc, answer, pressed, presses, disk>>
        /\ cfd \in Conns => s2c'[cfd] = s2c[cfd]
        /\ cfd \in Conns \cup {NoFd}
    BY <1>1 DEF LinkStep, CutCable, PlugCable, Retransmit, RetransmitCommands,
       RetransmitAnswers, Tick, vars, linkVars, serverVars,
       clientVars, TypeOK, LinkTypeOK
  <2>2. OnTheWay' = OnTheWay /\ InHand' = InHand /\ InLatch' = InLatch
    BY <2>1 DEF OnTheWay, InHand, InLatch
  <2> QED
    BY <2>1, <2>2, Amounts, QuietPress
<1> QED
  BY <1>1, ServerPress, ClientPress DEF Next

\* Whatever fails, a press is never reported twice.
THEOREM PressOnce == Spec => []PressReportedOnce
<1>1. Init => PressCount
  <2> SUFFICES ASSUME Init PROVE PressCount
    OBVIOUS
  <2>1. /\ cfd = NoFd /\ pressed = FALSE /\ sPc = "accept" /\ presses = 0
        /\ disk = [n \in 0 .. FrameIds - 1 |-> 0]
    BY DEF Init, LinkInit, ServerInit, ClientInit, EmptyStore
  <2>2. Writes = {}
    BY <2>1 DEF Writes
  <2>3. IsFiniteSet(Writes) /\ Saves = 0
    BY <2>2, FS_EmptySet DEF Saves
  <2> QED
    BY <2>1, <2>3 DEF PressCount, InHand, OnTheWay, InLatch, Sending
<1>2. TypeOK /\ StreamAligned /\ PressCount /\ [Next]_vars => PressCount'
  BY NextPress
<1>3. TypeOK /\ PressCount => PressReportedOnce
  <2> SUFFICES ASSUME TypeOK, PressCount PROVE PressReportedOnce
    OBVIOUS
  <2>1. ReportsInFlight = InHand + OnTheWay
    <3>1. CASE cfd = NoFd
      BY <3>1 DEF ReportsInFlight, InHand, OnTheWay
    <3>2. CASE cfd # NoFd
      <4>1. s2c[cfd] \in Seq(Blocks)
        BY <3>2 DEF TypeOK, LinkTypeOK
      <4>2. \A i \in 1 .. Len(s2c[cfd]) :
              s2c[cfd][i] \in PressImages <=>
                s2c[cfd][i].part = "image" /\ s2c[cfd][i].of = "BUTTON_PRESS"
        BY <4>1 DEF PressImages
      <4>3. Places(s2c[cfd], PressImages)
            = {i \in 1 .. Len(s2c[cfd]) :
                 s2c[cfd][i].part = "image" /\ s2c[cfd][i].of = "BUTTON_PRESS"}
        BY <4>2 DEF Places
      <4> QED
        BY <3>2, <4>3 DEF ReportsInFlight, InHand, OnTheWay, Count
    <3> QED
      BY <3>1, <3>2
  <2>2. ASSUME NEW f \in Nat, NEW h \in 0 .. 1, NEW w \in Nat, NEW l \in 0 .. 1, NEW p \in Nat,
               f + h + w + l <= p
        PROVE  f + (h + w) + l <= p
    BY <2>2
  <2>3. Saves + (InHand + OnTheWay) + InLatch <= presses
    BY <2>2, Amounts DEF PressCount
  <2> QED
    BY <2>1, <2>3 DEF PressReportedOnce, InLatch
<1> QED
  BY TypeCorrect, StreamStaysAligned, <1>1, <1>2, <1>3, PTL DEF Spec
=============================================================================
