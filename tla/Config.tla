-------------------------------- MODULE Config ------------------------------
(***************************************************************************)
(* The durations of Client/inc/config.h and Serveur/inc/config.h that the  *)
(* two programs measure against one another, in milliseconds, and the     *)
(* rate asked of the camera.                                               *)
(***************************************************************************)
EXTENDS Naturals

\* SO_RCVTIMEO, the same on both sides.
RECV_TIMEOUT_MS == 60

\* The client.
LINK_TIMEOUT_MS == 3000
RECONNECT_PERIOD_MS == 500
CONNECT_TIMEOUT_MS == 400
SHUTDOWN_TIMEOUT_MS == 2000

\* The server.
CLIENT_IDLE_TIMEOUT_MS == 1000
CAMERA_FPS == 30

\* An attempt ends before the next is due (Client/inc/config.h:29-32), and the
\* server gives up before the client (Client/inc/config.h:22-23).
ASSUME ConfigAssumption ==
  /\ CONNECT_TIMEOUT_MS < RECONNECT_PERIOD_MS
  /\ CLIENT_IDLE_TIMEOUT_MS < LINK_TIMEOUT_MS

\* A duration in ticks of the given length, rounded up.
Ticks(ms, tick) == (ms + tick - 1) \div tick
=============================================================================
