--------------------------- MODULE MCUnification -----------------------------
(***************************************************************************)
(* A bank with two variables, a constant, a unary function and predicates, *)
(* and every way to read the variables as f^n(a) up to a height.           *)
(***************************************************************************)
EXTENDS Unification

CONSTANT MaxHeight

Var(x)     == [symbol |-> x, args |-> <<>>]
App(s, as) == [symbol |-> s, args |-> as]

X == Var("X")
Y == Var("Y")
a == App("a", <<>>)

Simple == {X, Y, a}
Deeper == Simple \cup {App("f", <<t>>) : t \in Simple}
Cyclic == {X, Y, App("f", <<X>>), App("f", <<Y>>)}

\* Two arguments of any shape; three for equations that close a cycle and then
\* use it; another predicate for a clash at the root.
P2 == {App("p", <<s, t>>) : s, t \in Deeper}
P3 == {App("r", <<s, t, u>>) : s, t \in Cyclic, u \in {X, Y}}
Q  == {App("q", <<s>>) : s \in Simple}

Bank == Deeper \cup P2 \cup P3 \cup Q

Pairs == (P2 \X P2) \cup (P3 \X P3) \cup (Q \X Q) \cup (Q \X {App("p", <<X, a>>)})

Calls == {<<pair[1], pair[2], check>> : pair \in Pairs, check \in BOOLEAN}

SymbolOf(t)     == t.symbol
ArgsOf(t)       == t.args
IsVariableOf(t) == t.symbol \in {"X", "Y"}

RECURSIVE Tower(_)
Tower(n) == IF n = 0 THEN a ELSE App("f", <<Tower(n - 1)>>)

Towers == {Tower(n) : n \in 0..MaxHeight}

RECURSIVE Ground(_, _, _)
Ground(t, x, y) ==
  CASE t = X -> x
    [] t = Y -> y
    [] OTHER -> App(t.symbol, [k \in DOMAIN t.args |-> Ground(t.args[k], x, y)])

Groundings == {[t \in Bank |-> Ground(t, x, y)] : x, y \in Towers}

RECURSIVE HeightOf(_)
HeightOf(t) ==
  LET heights == {HeightOf(t.args[k]) : k \in DOMAIN t.args}
  IN  IF heights = {} THEN 0 ELSE 1 + (CHOOSE h \in heights : \A i \in heights : i <= h)
=============================================================================
