---------------------------- MODULE MCSubstitute -----------------------------
(***************************************************************************)
(* X, Y, a, f(X), f(Y), p(X, f(Y)), p(Y, X), p(a, f(X)), and a problem that *)
(* uses a name renameVariables() will want.                                *)
(***************************************************************************)
EXTENDS SubstituteProperties

CONSTANTS
  Reserved    \* a constant of the problem

Info(name, kind, arity) == [name |-> name, kind |-> kind, arity |-> arity]

MCSymbols == << Info("X", "kVariable", 0), Info("Y", "kVariable", 0), Info("a", "kConstant", 0),
                Info("f", "kFunction", 1), Info("p", "kFunction", 2), Info(Reserved, "kConstant", 0) >>

MCTerms == << Term(1, <<>>), Term(2, <<>>), Term(3, <<>>), Term(4, <<1>>), Term(4, <<2>>),
              Term(5, <<1, 5>>), Term(5, <<2, 1>>), Term(5, <<3, 4>>), Term(6, <<>>) >>

MCInputs == {<<6>>, <<7, 8>>, <<4, 3>>, <<9>>}

\* X to Y, a, f(X) and f(Y), Y to X and a, and a fresh variable to Y and f(X).
MCBindable == {<<1, 2>>, <<1, 3>>, <<1, 4>>, <<1, 5>>, <<2, 1>>, <<2, 3>>, <<10, 2>>, <<10, 4>>}

MCFreshName(n) == CHOOSE name \in Name : name = <<"_R0", "_R1", "_R2", "_R3">>[n + 1]
=============================================================================
