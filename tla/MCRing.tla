------------------------------- MODULE MCRing -------------------------------
(* Ring on small capacities. *)
EXTENDS Ring
=============================================================================
