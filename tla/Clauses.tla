------------------------------- MODULE Clauses -------------------------------
(***************************************************************************)
(* The clause calculus the prover is built on: literals, clauses as        *)
(* sequences of literals, the two simplification tests                     *)
(* (src/simplify) and the two inference rules (src/infer/resolution.cc).   *)
(*                                                                         *)
(* Atoms are abstract.  Because terms are hash-consed, the code compares   *)
(* atoms by TermId only, so all the calculus needs to know about them is   *)
(* what unification, substitution and renaming do: the constants below.    *)
(* An instance gives them concrete values (propositional atoms, function-  *)
(* free first-order atoms); the theorems hold for every value.             *)
(***************************************************************************)
EXTENDS Integers, Sequences, SequencesExt

CONSTANTS
  Atom,                   \* the predicate terms a literal can carry
  Subst,                  \* the substitutions unification can return
  NoUnifier,              \* unify() == false
  Unify(_, _),            \* the substitution unify() computes, or NoUnifier
  ApplySubstitution(_, _),\* applySubstitution(subst, atom)
  NumVariables(_),        \* how many variables a set of atoms has
  Renaming(_, _),         \* the fresh renaming of a set of atoms at a counter
  CounterMod              \* 2^32: the width of the fresh-variable counter

\* The interface as the code relies on it: unify and applySubstitution are
\* total on atoms, and a clause with variables can be renamed at any counter.
ASSUME InferenceTyped ==
  /\ CounterMod \in Nat \ {0}
  /\ NoUnifier \notin Subst
  /\ \A a, b \in Atom : Unify(a, b) \in Subst \cup {NoUnifier}
  /\ \A s \in Subst, a \in Atom : ApplySubstitution(s, a) \in Atom
  /\ \A A \in SUBSET Atom : NumVariables(A) \in Nat
  /\ \A A \in SUBSET Atom, n \in 0..(CounterMod - 1) :
       NumVariables(A) # 0 => Renaming(A, n) \in Subst

Literal == [atom : Atom, is_positive : BOOLEAN]

Atoms(lits) == {lits[k].atom : k \in DOMAIN lits}

-----------------------------------------------------------------------------
(* Simplification *)

isTautology(lits) ==
  \E i, j \in DOMAIN lits : /\ i < j
                            /\ lits[i].atom = lits[j].atom
                            /\ lits[i].is_positive # lits[j].is_positive

\* Mutant of subsumes: without the comparison of sizes.
subsumesAnyLength(general, specific) ==
  \A i \in DOMAIN general : \E j \in DOMAIN specific : general[i] = specific[j]

\* Every literal of general occurs in specific, compared by identity: no
\* matching substitution is looked for.
subsumes(general, specific) ==
  /\ Len(general) <= Len(specific)
  /\ \A i \in DOMAIN general : \E j \in DOMAIN specific : general[i] = specific[j]

-----------------------------------------------------------------------------
(* Inference.  An optional result is a set of at most one clause.           *)

ApplyTo(s, lits) ==
  [k \in DOMAIN lits |-> [atom        |-> ApplySubstitution(s, lits[k].atom),
                          is_positive |-> lits[k].is_positive]]

renameVariables(lits, counter) ==
  IF NumVariables(Atoms(lits)) = 0
  THEN lits
  ELSE ApplyTo(Renaming(Atoms(lits), counter), lits)

\* The counter after renaming: one step per variable, in 32 bits.
NextCounter(lits, counter) == (counter + NumVariables(Atoms(lits))) % CounterMod

\* Mutant of resolve: the result of unify() is not looked at.
resolveWithoutUnifier(c1, i, c2, j, counter) ==
  LET c2r == renameVariables(c2, counter)
      s   == Unify(c1[i].atom, c2r[j].atom)
  IN  IF c1[i].is_positive = c2[j].is_positive
      THEN {}
      ELSE {ApplyTo(s, RemoveAt(c1, i) \o RemoveAt(c2r, j))}

resolve(c1, i, c2, j, counter) ==
  LET c2r == renameVariables(c2, counter)
      s   == Unify(c1[i].atom, c2r[j].atom)
  IN  IF c1[i].is_positive = c2[j].is_positive \/ s = NoUnifier
      THEN {}
      ELSE {ApplyTo(s, RemoveAt(c1, i) \o RemoveAt(c2r, j))}

\* Mutant of factor: the polarity is compared, the result of unify() is not.
factorWithoutUnifier(c, i, j) ==
  IF c[i].is_positive # c[j].is_positive
  THEN {}
  ELSE {ApplyTo(Unify(c[i].atom, c[j].atom), RemoveAt(c, j))}

factor(c, i, j) ==
  LET s == Unify(c[i].atom, c[j].atom)
  IN  IF c[i].is_positive # c[j].is_positive \/ s = NoUnifier
      THEN {}
      ELSE {ApplyTo(s, RemoveAt(c, j))}

\* The literal pairs allResolvents and factor try, in no order.
ComplementaryPairs(c1, c2) ==
  {ij \in (DOMAIN c1) \X (DOMAIN c2) :
     c1[ij[1]].is_positive # c2[ij[2]].is_positive}

FactorPairs(c) ==
  {ij \in (DOMAIN c) \X (DOMAIN c) :
     ij[1] < ij[2] /\ c[ij[1]].is_positive = c[ij[2]].is_positive}
=============================================================================
