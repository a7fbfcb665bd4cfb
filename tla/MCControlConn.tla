---------------------------- MODULE MCControlConn ----------------------------
(* ControlConn with frames of a few bytes. *)
EXTENDS ControlConn
=============================================================================
