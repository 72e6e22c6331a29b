------------------------------- MODULE MCAtp ---------------------------------
(***************************************************************************)
(* The whole program on small problems, with and without variables, with   *)
(* the default configuration but for the limits.                           *)
(***************************************************************************)
EXTENDS Atp, Monadic

p == P(Constant)
X == P(<<"X", 0>>)

\* Without variables.  Refutations by one and two resolutions, with factoring,
\* from an input that is the empty clause, with an input the proof does not need;
\* satisfiable ones, the last with more clauses than the limit of iterations.
GroundProblems ==
  { << <<>> >>,
    << <<Pos(p)>>, <<Neg(p)>> >>,
    << <<Pos(p), Pos(p)>>, <<Neg(p), Neg(p)>> >>,
    << <<Pos(p)>>, <<Neg(p), Neg(p)>> >>,
    << <<Pos(p), Pos(Q)>>, <<Neg(p)>>, <<Neg(Q)>>, <<Pos(Q)>> >>,
    << <<Pos(p)>>, <<Neg(p), Pos(Q)>>, <<Neg(Q)>> >>,
    << <<Pos(p), Pos(Q)>>, <<Neg(p), Neg(Q)>> >>,
    << <<Pos(p), Neg(p)>>, <<Neg(Q), Neg(Q)>> >>,
    << <<Pos(p)>>, <<Pos(p), Pos(Q)>>, <<Pos(Q)>>, <<Pos(p), Pos(p)>>, <<Neg(p), Pos(Q)>> >> }

\* With variables.  Refutations that rename once, a few times, and so often that
\* they meet a taken name; a satisfiable problem.
Problems ==
  GroundProblems \cup
  { << <<Pos(X)>>, <<Neg(p)>> >>,
    << <<Neg(X), Pos(Q)>>, <<Pos(p)>>, <<Neg(Q)>> >>,
    << <<Neg(X), Pos(Q)>>, <<Pos(X), Pos(Q)>>, <<Neg(Q)>> >>,
    << <<Neg(X), Pos(Q)>>, <<Pos(p)>> >> }
=============================================================================
