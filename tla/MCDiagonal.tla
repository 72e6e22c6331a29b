----------------------------- MODULE MCDiagonal ------------------------------
(***************************************************************************)
(* The prover on atoms p(x, x) and p(x, f(x)), where the occurs check      *)
(* decides what unify() answers.                                           *)
(***************************************************************************)
EXTENDS ProverProperties, Monadic

CONSTANT Cyclic   \* a substitution that binds a variable to a term it occurs in

Diag(x)    == [symbol |-> "p(x,x)", arg |-> x]
OffDiag(x) == [symbol |-> "p(x,f(x))", arg |-> x]
DiagAtoms == {Diag(x) : x \in Variables} \cup {OffDiag(x) : x \in Variables}

\* The first arguments make the two variables one, and then the second ones ask for
\* x = x, f(x) = f(x) or x = f(x), which only the occurs check refuses.
DiagUnify(a, b) ==
  CASE a.symbol = b.symbol                  -> Binding(a.arg, b.arg)
    [] a.symbol # b.symbol /\ OccursCheck   -> NotUnifiable
    [] a.symbol # b.symbol /\ ~OccursCheck  -> Cyclic

\* applySubstitution does not return on a variable of a cycle; in the clauses below
\* no literal is left to which Cyclic would be applied.
DiagApply(s, a) == IF s = Cyclic THEN a ELSE [a EXCEPT !.arg = s[a.arg]]

DiagSubsts ==
  {Cyclic} \cup {Binding(x, y) : x, y \in Variables}
    \cup {RenamingOf(V, n) : V \in SUBSET Variables \ {{}}, n \in 0..(NumFresh - 1)}

\* Two elements, any relation p and any function f.
DiagInterpretations == [p : SUBSET (Domain \X Domain), f : [Domain -> Domain]]

DiagHolds(I, v, a) ==
  LET x == v[a.arg]
  IN  <<x, IF a.symbol = "p(x,x)" THEN x ELSE I.f[x]>> \in I.p

\* p(X, X) and ~p(Y, f(Y)), which the identity and a function without a fixed
\* point satisfy; and two clauses that contradict each other.
X == <<"X", 0>>
Y == <<"Y", 0>>
DiagProblems ==
  { << <<Pos(Diag(X))>>, <<Neg(OffDiag(Y))>> >>,
    << <<Pos(Diag(X))>>, <<Neg(Diag(Y))>> >> }
=============================================================================
