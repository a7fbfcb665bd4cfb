------------------------------ MODULE MCDaemon ------------------------------
(* Daemon on small instances. *)
EXTENDS Daemon, TLC

\* Connections and pids are interchangeable.
Symmetry == Permutations(Conns) \union Permutations(Pids)
=============================================================================
