--------------------------- MODULE MCDataChannel ---------------------------
(* DataChannel on small buffers.                                           *)
EXTENDS DataChannel
=============================================================================
