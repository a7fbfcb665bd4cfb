------------------------------- MODULE MCTabs -------------------------------
(* Three panes, so that a tree has an inner paned, in two tabs and windows. *)
EXTENDS Tabs, TLC

Symmetry == Permutations(Panes) \union Permutations(Pages) \union Permutations(Windows)

=============================================================================
