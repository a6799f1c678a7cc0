------------------------------ MODULE Protocol ------------------------------
(***************************************************************************)
(* The message vocabulary of protocol.h and the shape of an answer.        *)
(* TCP carries a byte stream; an answer is cut here where the code cuts    *)
(* it, in the blocks it sends and reads one by one: the header byte, the   *)
(* frameId and, for image answers only, jpegSize and the JPEG bytes.       *)
(***************************************************************************)
EXTENDS Naturals

Commands == {"GET_FRAME", "STOP"}

ImageAnswers == {"FRAME_HDR", "BUTTON_PRESS"}

SceneErrors == {"NO_LIGHT", "SENSOR_ERROR"}

FrameAnswers == ImageAnswers \cup SceneErrors

Answers == FrameAnswers \cup {"STOP_ACK"}

SceneStates == {"NORMAL"} \cup SceneErrors

DisplayStates == SceneStates \cup {"LINK_LOST"}

PartKinds == {"header", "frameId", "jpegSize", "image"}

\* One block of an answer: its kind, the answer it belongs to, and the value of
\* the server's image counter when it was written (0 for STOP_ACK).
Part(kind, h, n) == [part |-> kind, of |-> h, n |-> n]

\* p is the last block of its answer.
EndsAnswer(p) ==
  \/ p.part = "image"
  \/ p.part = "frameId" /\ p.of \in SceneErrors

\* q may come directly after p in the stream: the rest of the same answer, or
\* the header of the next one. Nothing follows STOP_ACK.
Follows(p, q) ==
  \/ /\ p.part = "header" /\ p.of \in FrameAnswers
     /\ q = Part("frameId", p.of, p.n)
  \/ /\ p.part = "frameId" /\ p.of \in ImageAnswers
     /\ q = Part("jpegSize", p.of, p.n)
  \/ p.part = "jpegSize" /\ q = Part("image", p.of, p.n)
  \/ EndsAnswer(p) /\ q.part = "header"
=============================================================================
