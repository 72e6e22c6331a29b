-------------------------- MODULE ProverProperties ---------------------------
(***************************************************************************)
(* What the given-clause loop of module Prover has to guarantee.           *)
(***************************************************************************)
EXTENDS Prover

CONSTANTS
  Interpretation,   \* the interpretations of the atoms
  Valuation,        \* the assignments to the variables
  Holds(_, _, _)    \* whether an atom holds in one under the other

ASSUME ValuationExists == Valuation # {}

\* What makes the inference rules sound.  With the occurs check on, a unifier
\* makes two atoms one, and applying a substitution means the same as changing
\* the valuation.  With it off nothing is assumed of atoms with variables: unify()
\* then accepts X = f(X), what it answers need not unify, and applySubstitution
\* need not return.
ASSUME UnifierSound ==
  OccursCheck =>
    \A a, b \in Atom :
      Unify(a, b) # NoUnifier =>
        ApplySubstitution(Unify(a, b), a) = ApplySubstitution(Unify(a, b), b)

ASSUME SubstitutionLemma ==
  OccursCheck =>
    \A I \in Interpretation, v \in Valuation, s \in Subst :
      \E w \in Valuation :
        \A a \in Atom : Holds(I, v, ApplySubstitution(s, a)) = Holds(I, w, a)

\* The atoms without variables.  Substitutions leave them alone, unify() of two
\* succeeds exactly if they are one, whatever the occurs check, and (Herbrand)
\* any set of them may be the true ones.
Ground == {a \in Atom : NumVariables({a}) = 0}

ASSUME GroundAtoms ==
  /\ \A A \in SUBSET Ground : NumVariables(A) = 0
  /\ \A a \in Ground : /\ Unify(a, a) # NoUnifier
                        /\ \A s \in Subst : ApplySubstitution(s, a) = a
  /\ \A a, b \in Ground : Unify(a, b) # NoUnifier => a = b
  /\ \A S \in SUBSET Ground : \E I \in Interpretation :
       \A v \in Valuation, a \in Ground : Holds(I, v, a) = (a \in S)

\* Nothing but ground clauses is ever added.
GroundProblem == \A batch \in Batches : \A k \in DOMAIN batch : Atoms(batch[k]) \subseteq Ground

\* The universal closure of a clause holds in an interpretation.
Satisfies(I, lits) ==
  \A v \in Valuation :
    \E k \in DOMAIN lits : Holds(I, v, lits[k].atom) = lits[k].is_positive

SatisfiesInputs(I) ==
  \A id \in DOMAIN clauses : clauses[id].rule = "kInput" => Satisfies(I, Literals(id))

-----------------------------------------------------------------------------
(* The state relates to itself as its types say: ids are in the store, the  *)
(* tuples of todo name live premises and literals they have.                *)

\* Every record that names a clause or a literal names one there is.
InferenceOK(t) ==
  \/ /\ t[1] \in Live /\ t[2] \in {1, 2}
     /\ t[3] \in DOMAIN Literals(LeftParent(t)) /\ t[4] \in DOMAIN Literals(RightParent(t))
  \/ /\ t[1] = FactorRank /\ t[2] = 1
     /\ t[3] \in DOMAIN Literals(given) /\ t[4] \in DOMAIN Literals(given)
     /\ t[3] < t[4]

\* The type invariant of prove() and its store (Prover's members, and the
\* locals of one call): all ids are in bounds, which getClause only asserts.
TypeOK ==
  /\ clauses \in Seq(Clause)
  /\ var_counter \in 0..(CounterMod - 1)
  /\ unprocessed \subseteq DOMAIN clauses
  /\ processed \in Seq(DOMAIN clauses)
  /\ erased \subseteq DOMAIN processed
  /\ empty_clause_id \in DOMAIN clauses \cup {NoId}
  /\ pc \in {"ready", "select", "generate", "process"}
  /\ result \in {"none", "kTheorem", "kSaturation", "kTimeout"}
  /\ calls \in Nat /\ iterations \in Nat
  /\ given \in DOMAIN clauses \cup {NoId}
  /\ pc \in {"generate", "process"} => given # NoId
  /\ todo \in SUBSET (Nat \X Nat \X Nat \X Nat)
  /\ \A t \in todo : InferenceOK(t)
  /\ pc # "generate" => todo = {}
  /\ new_clauses \in Seq(Clause)
  /\ \A k \in DOMAIN new_clauses :
       {new_clauses[k].parent1, new_clauses[k].parent2} \subseteq DOMAIN clauses \cup {NoId}
  /\ pc \in {"ready", "select"} => new_clauses = <<>>

-----------------------------------------------------------------------------
(* Soundness *)

\* lits is what the recorded rule yields from the recorded parents.
InferredFrom(c, ids) ==
  \/ /\ c.rule = "kInput" /\ c.parent1 = NoId /\ c.parent2 = NoId
  \/ /\ c.rule = "kResolution" /\ c.parent1 \in ids /\ c.parent2 \in ids
     /\ \E i \in DOMAIN Literals(c.parent1), j \in DOMAIN Literals(c.parent2),
           n \in 0..(CounterMod - 1) :
          c.literals \in resolve(Literals(c.parent1), i, Literals(c.parent2), j, n)
  \/ /\ c.rule = "kFactoring" /\ c.parent1 \in ids /\ c.parent2 = NoId
     /\ \E i, j \in DOMAIN Literals(c.parent1) :
          i < j /\ c.literals \in factor(Literals(c.parent1), i, j)

\* Every stored clause is an input, or can be inferred again by the rule it
\* names from the parents it names, which were stored before it: the record
\* extractProof works from is a derivation, and acyclic.
Provenance ==
  \A id \in DOMAIN clauses : InferredFrom(clauses[id], 1..(id - 1))

\* Every interpretation that satisfies the input clauses satisfies everything
\* the search has derived from them.
Sound ==
  \A I \in Interpretation : SatisfiesInputs(I) =>
    \A id \in DOMAIN clauses : Satisfies(I, Literals(id))

\* A call returns kTheorem only with the id of an empty clause, and only if no
\* interpretation satisfies the clauses added so far.
TheoremIsUnsatisfiable ==
  pc = "ready" /\ result = "kTheorem" =>
    /\ empty_clause_id \in DOMAIN clauses /\ Literals(empty_clause_id) = <<>>
    /\ ~\E I \in Interpretation : SatisfiesInputs(I)

-----------------------------------------------------------------------------
(* Completeness *)

InFlight == IF pc = "generate" THEN {given} ELSE {}

\* The clauses that still take part in the search.
Active == {processed[k] : k \in Live} \cup unprocessed \cup InFlight

Redundant(lits) == isTautology(lits) \/ \E id \in Active : subsumes(Literals(id), lits)

\* Redundant, or about to be by what processNewClauses has not looked at yet.
Covered(lits) ==
  Redundant(lits) \/ \E k \in DOMAIN new_clauses : new_clauses[k].literals = lits

ResolventsCovered(lits1, lits2) ==
  \A ij \in ComplementaryPairs(lits1, lits2) :
    \E n \in 0..(CounterMod - 1) :
      \A r \in resolve(lits1, ij[1], lits2, ij[2], n) : Covered(r)

FactorsCovered(lits) ==
  \A ij \in FactorPairs(lits) : \A r \in factor(lits, ij[1], ij[2]) : Covered(r)

StoredCovered == \A id \in DOMAIN clauses : Redundant(Literals(id))

ProcessedCovered ==
  /\ \A k, l \in Live : k # l =>
       ResolventsCovered(Literals(processed[k]), Literals(processed[l]))
  /\ \A k \in Live : FactorsCovered(Literals(processed[k]))

\* The given clause, while its inferences are being made.
GivenCovered ==
  pc = "generate" =>
    /\ \A t \in Resolutions(given, Live) \ todo :
         \E n \in 0..(CounterMod - 1) :
           \A r \in resolve(Literals(LeftParent(t)), t[3], Literals(RightParent(t)), t[4], n) :
             Covered(r)
    /\ \A t \in Factorings(given) \ todo :
         \A r \in factor(Literals(given), t[3], t[4]) : Covered(r)

\* The invariant the given-clause loop is named for, as long as no empty clause
\* has been found: every clause stored, every resolvent of two different
\* processed clauses in both directions and every factor of one is redundant
\* given the processed and the queued clauses, or is waiting in new_clauses.
\* No simplification, timeout or later call loses a clause that is needed.
SearchLosesNothing ==
  empty_clause_id = NoId => StoredCovered /\ ProcessedCovered /\ GivenCovered

\* kSaturation on a clause set the caller added nothing to since means that the
\* clauses have a model.
SaturationIsSatisfiable ==
  pc = "ready" /\ result = "kSaturation" /\ unprocessed = {} =>
    \E I \in Interpretation : SatisfiesInputs(I)

\* The clauses inferences are made from: the processed ones and the given one.
Kept == {processed[k] : k \in Live} \cup InFlight

\* They are an antichain without tautologies: none is subsumed by another, nor
\* processed twice, so the search stays free of what simplification removes.
ProcessedIrredundant ==
  /\ \A id \in Kept : Literals(id) # <<>> /\ ~isTautology(Literals(id))
  /\ \A id, other \in Kept : id # other => ~subsumes(Literals(id), Literals(other))
  /\ \A k, l \in Live : k # l => processed[k] # processed[l]

-----------------------------------------------------------------------------
(* The abstract specification *)

InputSet == {Literals(id) : id \in {i \in DOMAIN clauses : clauses[i].rule = "kInput"}}

HasModel(S) == \E I \in Interpretation : \A lits \in S : Satisfies(I, lits)

Verdict == INSTANCE Decision WITH
  inputs <- InputSet, running <- (pc # "ready"), verdict <- result, Satisfiable <- HasModel

\* prover.h, ProverResult: seen from outside, the prover only takes clauses and
\* gives verdicts, each true of exactly the clauses it had been given by then,
\* however the calls before it ended.
ImplementsDecision == Verdict!Spec

-----------------------------------------------------------------------------
(* Scheduling *)

\* Under bfsCompare one call takes clauses in order of depth: nothing queued is
\* shallower than the given clause, before depth_ can wrap round.
BreadthFirst ==
  Comparator = "bfs" /\ pc # "ready" /\ given # NoId /\ Len(clauses) < DepthMod =>
    \A id \in unprocessed : clauses[id].depth >= clauses[given].depth

\* The limits are looked at between two given clauses only, so a search exceeds
\* max_clauses_ by what one given clause yields, and never again: whatever was
\* derived beyond the limit, in this call or a later one, has one common parent.
OvershootIsOneIteration ==
  \E g \in DOMAIN clauses \cup {NoId} :
    \A id \in DOMAIN clauses :
      id > MaxClauses /\ clauses[id].rule # "kInput" =>
        g \in {clauses[id].parent1, clauses[id].parent2}

\* A call of prove() returns, with no help from the caller.
ProveReturns == pc # "ready" ~> pc = "ready"

\* prover.h says of kSaturation: "Search space saturated - cannot prove".  So when
\* that is the last answer and nothing has been added since, no empty clause has
\* been derived.
SaturationMeansNotProved ==
  pc = "ready" /\ result = "kSaturation" /\ unprocessed = {} =>
    \A id \in DOMAIN clauses : Literals(id) # <<>>
=============================================================================
