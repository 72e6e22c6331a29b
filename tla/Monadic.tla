------------------------------ MODULE Monadic --------------------------------
(***************************************************************************)
(* A first-order instance of the clause calculus: a predicate p of one     *)
(* argument, a proposition q, a constant a, a variable X of the input and  *)
(* the variables renameVariables() hands out.  What unify() binds and      *)
(* renameVariables() makes is a function on variables, the identity on all *)
(* others.                                                                 *)
(***************************************************************************)
EXTENDS Integers, FiniteSets

CONSTANTS
  NumFresh,      \* how many variables renameVariables() has names for: CounterMod
  NotUnifiable   \* NoUnifier

Fresh(n)  == <<"_R", n % NumFresh>>
FreshVars == {Fresh(n) : n \in 0..(NumFresh - 1)}
Variables == {<<"X", 0>>, <<"Y", 0>>} \cup FreshVars
Constant  == <<"a", 0>>
MonTerms  == Variables \cup {Constant}

P(t) == [symbol |-> "p", arg |-> t]
Q    == [symbol |-> "q", arg |-> Constant]

MonAtoms == {P(t) : t \in MonTerms} \cup {Q}

Binding(x, t) == [v \in Variables |-> IF v = x THEN t ELSE v]
Identity      == [v \in Variables |-> v]

MonUnify(a, b) ==
  CASE a = b                                       -> Identity
    [] a.symbol # b.symbol                         -> NotUnifiable
    [] a.symbol = b.symbol /\ a.arg \in Variables  -> Binding(a.arg, b.arg)
    [] a.symbol = b.symbol /\ a.arg \notin Variables /\ b.arg \in Variables
                                                   -> Binding(b.arg, a.arg)
    [] OTHER                                       -> NotUnifiable

MonApply(s, a) == IF a.arg \in Variables THEN [a EXCEPT !.arg = s[a.arg]] ELSE a

VariablesIn(A)     == {a.arg : a \in A} \cap Variables
MonNumVariables(A) == Cardinality(VariablesIn(A))

\* In one order of the hash map of variables.
RenamingOf(V, n) ==
  LET rank == CHOOSE r \in [V -> 0..(Cardinality(V) - 1)] : \A x, y \in V : x # y => r[x] # r[y]
  IN  [v \in Variables |-> IF v \in V THEN Fresh(n + rank[v]) ELSE v]

MonRenaming(A, n) == RenamingOf(VariablesIn(A), n)

MonSubsts ==
  {Identity} \cup {Binding(x, t) : x \in Variables, t \in MonTerms}
    \cup {RenamingOf(V, n) : V \in SUBSET Variables \ {{}}, n \in 0..(NumFresh - 1)}

\* p is a set of elements, a is the first: with two elements every satisfiable
\* set of clauses of this signature has a model.
Domain             == {1, 2}
MonInterpretations == [p : SUBSET Domain, q : BOOLEAN]
MonValuations      == [Variables -> Domain]

ValueOf(v, t) == IF t \in Variables THEN v[t] ELSE 1

MonHolds(I, v, a) == IF a.symbol = "q" THEN I.q ELSE ValueOf(v, a.arg) \in I.p

Pos(a) == [atom |-> a, is_positive |-> TRUE]
Neg(a) == [atom |-> a, is_positive |-> FALSE]
=============================================================================
