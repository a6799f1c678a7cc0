---------------------------- MODULE MCTimedSystem ---------------------------
(* Instances of TimedSystem for TLC, with the durations of the code.       *)
EXTENDS TimedSystem, Config, TLC

CONSTANTS k1, k2, k3, Millis  \* Millis: the length of a tick

OneConn == {k1}
ThreeConns == {k1, k2, k3}

RecvTicks == Ticks(RECV_TIMEOUT_MS, Millis)
ReconnectTicks == Ticks(RECONNECT_PERIOD_MS, Millis)
LinkTicks == Ticks(LINK_TIMEOUT_MS, Millis)
ShutdownTicks == Ticks(SHUTDOWN_TIMEOUT_MS, Millis)
IdleTicks == Ticks(CLIENT_IDLE_TIMEOUT_MS, Millis)

\* One image at the rate asked of the camera, and at half of it: CAMERA_FPS is a
\* request, and a camera that lengthens its exposure in the dark does not honour it.
CaptureTicks == Ticks(1000 \div CAMERA_FPS + 1, Millis)
SlowCaptureTicks == Ticks(2000 \div CAMERA_FPS + 1, Millis)

\* The longer the outage, the longer TCP may wait after it, and the sooner the client
\* gives the session up; then the recv() in which it ends.
ResumeTicks == (LinkTicks + Rto) \div 2 + RecvTicks

\* Only the identity of a connection is used.
ConnSymmetry == Permutations(Conns)
=============================================================================
