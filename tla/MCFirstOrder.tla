---------------------------- MODULE MCFirstOrder -----------------------------
(***************************************************************************)
(* The prover on clauses with variables, given piece by piece.             *)
(***************************************************************************)
EXTENDS ProverProperties, Monadic

X == P(<<"X", 0>>)
Y == P(<<"Y", 0>>)
a == P(Constant)

\* The search of the first piece alone ends with the fresh names only: p(X) | p(Y)
\* and ~p(X) | p(Y) yield p of one after the other, and identity subsumption keeps
\* them all.
\* It is refuted with the last piece, or by way of q with the other two.
MonPieces ==
  { << <<Pos(X), Pos(Y)>>, <<Neg(X), Pos(Y)>> >>,
    << <<Neg(a), Pos(Q)>> >>,
    << <<Neg(Q), Neg(Q)>> >>,
    << <<Neg(a)>> >> }
=============================================================================
