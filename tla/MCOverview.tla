----------------------------- MODULE MCOverview -----------------------------
(* Tabs and windows are interchangeable, ids are not: they start again at 1 *)
(* in the second daemon and name other sessions and groups there.           *)
EXTENDS Overview

Symmetry == Permutations(Pages) \union Permutations(Windows)

=============================================================================
