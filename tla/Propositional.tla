---------------------------- MODULE Propositional ----------------------------
(***************************************************************************)
(* The propositional instance of the clause calculus: an atom is a 0-ary   *)
(* predicate, so unify() succeeds exactly on equal atoms and binds         *)
(* nothing, and there is nothing to substitute or to rename.               *)
(***************************************************************************)

PropUnify(a, b)       == IF a = b THEN "empty" ELSE "none"
PropApply(s, a)       == a
PropNumVariables(A)   == 0
PropRenaming(A, n)    == "empty"
PropHolds(I, v, a)    == a \in I

Pos(a) == [atom |-> a, is_positive |-> TRUE]
Neg(a) == [atom |-> a, is_positive |-> FALSE]
=============================================================================
