---------------------------- MODULE MCDaemonStart ----------------------------
(* DaemonStart with a few processes. *)
EXTENDS DaemonStart
=============================================================================
