------------------------------ MODULE MCBridge ------------------------------
(* One byte fits into each buffer, another one has to wait for it. *)
EXTENDS Bridge
=============================================================================
