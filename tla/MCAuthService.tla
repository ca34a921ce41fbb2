---------------------------- MODULE MCAuthService ----------------------------
(* Three calls of one console process. *)
EXTENDS AuthService, TLC
=============================================================================
