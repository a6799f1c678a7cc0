-------------------------------- MODULE Clock -------------------------------
(***************************************************************************)
(* How the two programs use std::chrono::steady_clock: a date is only ever *)
(* subtracted from now() and the difference compared with one limit. The   *)
(* models keep the difference, an age that stops growing at the limit.     *)
(***************************************************************************)
EXTENDS Naturals

\* A clock reading against a limit: what is older than the limit stays as old.
Older(age, limit) == IF age < limit THEN age + 1 ELSE limit
=============================================================================
