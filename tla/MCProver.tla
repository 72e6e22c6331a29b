------------------------------ MODULE MCProver -------------------------------
(***************************************************************************)
(* Propositional instances of the prover.                                  *)
(***************************************************************************)
EXTENDS ProverProperties, Propositional

Interpretations == SUBSET Atom

UnitClauses   == {<<l>> : l \in Literal}
BinaryClauses == {<<l, m>> : l, m \in Literal}
ShortClauses  == {<<>>} \cup UnitClauses \cup BinaryClauses

\* Every list of one or two clauses of up to two literals.
PairBatches == {<<c>> : c \in ShortClauses} \cup {<<c, d>> : c, d \in ShortClauses}

\* A refutation of several steps, and a problem with one model to be saturated.
LongerBatches ==
  { << <<Pos("p"), Pos("q")>>, <<Neg("p"), Pos("q")>>, <<Neg("q")>> >>,
    << <<Pos("p"), Pos("q")>>, <<Pos("p"), Neg("q")>>, <<Neg("p"), Pos("q")>> >> }

\* Two clauses of one literal each: some clash, none is the empty clause.
UnitPairs == {<<c, d>> : c, d \in UnitClauses}

MCBatches == PairBatches \cup LongerBatches
=============================================================================
