------------------------------ MODULE TermStore ------------------------------
(***************************************************************************)
(* What a term bank promises its users, without symbols, keys or a map: a  *)
(* growing list in which every finite tree has at most one position, which *)
(* it keeps, and which holds the subtrees of every tree it holds.          *)
(***************************************************************************)
EXTENDS Integers, Sequences

CONSTANT Subtrees(_)   \* the immediate subtrees of a tree

VARIABLE trees

Init == trees = <<>>

\* One new tree whose subtrees are known, at the next position.
Grow ==
  /\ Len(trees') = Len(trees) + 1
  /\ SubSeq(trees', 1, Len(trees)) = trees
  /\ \A i \in DOMAIN trees : trees[i] # trees'[Len(trees')]
  /\ Subtrees(trees'[Len(trees')]) \subseteq {trees[i] : i \in DOMAIN trees}

Spec == Init /\ [][Grow]_trees
=============================================================================
