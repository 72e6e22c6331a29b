---------------------------- MODULE SearchProofs ------------------------------
(***************************************************************************)
(* Theorems about the given-clause loop, for every inference interface,    *)
(* configuration and sequence of calls: what it derives follows, it loses  *)
(* nothing, it takes the clauses in order and stops in time, the processed *)
(* clauses are irredundant, and it is complete for ground clauses.         *)
(***************************************************************************)
EXTENDS Atp, SequenceTheorems, WellFoundedInduction, FiniteSetTheorems, TLAPS

(***************************************************************************)
(* The operators of module Clauses: what they return, and what makes       *)
(* simplification by them harmless.                                        *)
(***************************************************************************)

\* erase() of one literal keeps every other one, and nothing else.
LEMMA RemoveAtProperties ==
  ASSUME NEW S, NEW s \in Seq(S), NEW i \in DOMAIN s
  PROVE  /\ RemoveAt(s, i) \in Seq(S)
         /\ Len(RemoveAt(s, i)) = Len(s) - 1
         /\ \A k \in DOMAIN s : k # i => \E m \in DOMAIN RemoveAt(s, i) : RemoveAt(s, i)[m] = s[k]
         /\ \A m \in DOMAIN RemoveAt(s, i) : \E k \in DOMAIN s : k # i /\ RemoveAt(s, i)[m] = s[k]
<1> DEFINE front == SubSeq(s, 1, i - 1)
           back  == SubSeq(s, i + 1, Len(s))
<1>1. i \in 1..Len(s) /\ Len(s) \in Nat
  OBVIOUS
<1>2. front \in Seq(S) /\ Len(front) = i - 1 /\ \A k \in 1..(i - 1) : front[k] = s[k]
  BY <1>1
<1>3. back \in Seq(S) /\ Len(back) = Len(s) - i /\ \A k \in 1..(Len(s) - i) : back[k] = s[i + k]
  BY <1>1
<1> DEFINE rest == front \o back
<1>4. /\ rest \in Seq(S) /\ Len(rest) = Len(front) + Len(back)
      /\ \A k \in 1..(Len(front) + Len(back)) :
           rest[k] = IF k <= Len(front) THEN front[k] ELSE back[k - Len(front)]
  <2>1. front \in Seq(S) /\ back \in Seq(S)
    BY <1>2, <1>3
  <2> HIDE DEF front, back
  <2> QED BY <2>1, ConcatProperties, Zenon
<1>5. RemoveAt(s, i) = rest
  BY DEF RemoveAt
<1> HIDE DEF front, back, rest
<1>6. /\ rest \in Seq(S) /\ Len(rest) = Len(s) - 1 /\ DOMAIN rest = 1..(Len(s) - 1)
      /\ \A k \in 1..(i - 1) : rest[k] = s[k]
      /\ \A k \in i..(Len(s) - 1) : rest[k] = s[k + 1]
  <2>1. Len(front) = i - 1 /\ Len(back) = Len(s) - i
    BY <1>2, <1>3
  <2>2. rest \in Seq(S) /\ Len(rest) = Len(s) - 1 /\ DOMAIN rest = 1..(Len(s) - 1)
    BY <1>1, <1>4, <2>1
  <2>3. ASSUME NEW k \in 1..(i - 1)
        PROVE  rest[k] = s[k]
    <3>1. k \in 1..(Len(front) + Len(back)) /\ k <= Len(front)
      BY <1>1, <2>1
    <3> QED BY <1>2, <1>4, <3>1
  <2>4. ASSUME NEW k \in i..(Len(s) - 1)
        PROVE  rest[k] = s[k + 1]
    <3>1. /\ k \in 1..(Len(front) + Len(back)) /\ ~(k <= Len(front))
          /\ k - Len(front) \in 1..(Len(s) - i) /\ i + (k - Len(front)) = k + 1
      <4> DEFINE l == Len(s)
      <4>1. l \in Int /\ i \in Int /\ k \in Int /\ 1 <= i /\ i <= k /\ k <= l - 1
        BY <1>1
      <4> HIDE DEF l
      <4>2. /\ k \in 1..((i - 1) + (l - i)) /\ ~(k <= i - 1)
            /\ k - (i - 1) \in 1..(l - i) /\ i + (k - (i - 1)) = k + 1
        BY <4>1
      <4> QED BY <2>1, <4>2 DEF l
    <3>2. rest[k] = back[k - Len(front)]
      BY <1>4, <3>1
    <3> QED BY <1>3, <3>1, <3>2
  <2> QED BY <2>2, <2>3, <2>4
<1>7. ASSUME NEW k \in DOMAIN s, k # i
      PROVE  \E m \in DOMAIN rest : rest[m] = s[k]
  <2>1. CASE k < i
    <3>1. k \in 1..(i - 1) /\ k \in 1..(Len(s) - 1)
      BY <1>1, <2>1
    <3> QED BY <1>6, <3>1
  <2>2. CASE k > i
    <3>1. k - 1 \in i..(Len(s) - 1) /\ k - 1 \in 1..(Len(s) - 1) /\ (k - 1) + 1 = k
      BY <1>1, <2>2
    <3> QED BY <1>6, <3>1
  <2> QED BY <1>1, <1>7, <2>1, <2>2
<1>8. ASSUME NEW m \in 1..(Len(s) - 1)
      PROVE  \E k \in DOMAIN s : k # i /\ rest[m] = s[k]
  <2>1. CASE m < i
    <3>1. m \in 1..(i - 1) /\ m \in DOMAIN s /\ m # i
      BY <1>1, <2>1
    <3> QED BY <1>6, <3>1
  <2>2. CASE m >= i
    <3>1. m \in i..(Len(s) - 1) /\ m + 1 \in DOMAIN s /\ m + 1 # i
      BY <1>1, <2>2
    <3> QED BY <1>6, <3>1
  <2> QED BY <1>1, <2>1, <2>2
<1> QED BY <1>5, <1>6, <1>7, <1>8

-----------------------------------------------------------------------------
(* Simplification *)

\* A clause subsumes itself.
LEMMA SubsumesReflexive ==
  ASSUME NEW c \in Seq(Literal)
  PROVE  subsumes(c, c)
BY DEF subsumes

\* Subsumption is transitive, so a chain of deletions leaves a clause that
\* subsumes the first one deleted.
LEMMA SubsumesTransitive ==
  ASSUME NEW a \in Seq(Literal), NEW b \in Seq(Literal), NEW c \in Seq(Literal),
         subsumes(a, b), subsumes(b, c)
  PROVE  subsumes(a, c)
<1>1. Len(a) <= Len(c)
  BY DEF subsumes
<1>2. ASSUME NEW i \in DOMAIN a
      PROVE  \E k \in DOMAIN c : a[i] = c[k]
  <2>1. PICK j \in DOMAIN b : a[i] = b[j]
    BY DEF subsumes
  <2> QED BY <2>1 DEF subsumes
<1> QED BY <1>1, <1>2 DEF subsumes

\* What a tautology subsumes is a tautology.
LEMMA TautologyUpward ==
  ASSUME NEW a \in Seq(Literal), NEW b \in Seq(Literal), subsumes(a, b), isTautology(a)
  PROVE  isTautology(b)
<1>1. PICK i, j \in DOMAIN a : a[i].atom = a[j].atom /\ a[i].is_positive # a[j].is_positive
  BY DEF isTautology
<1>2. PICK m \in DOMAIN b : a[i] = b[m]
  BY DEF subsumes
<1>3. PICK n \in DOMAIN b : a[j] = b[n]
  BY DEF subsumes
<1>4. m \in Nat /\ n \in Nat /\ m # n
  BY <1>1, <1>2, <1>3
<1> QED BY <1>1, <1>2, <1>3, <1>4 DEF isTautology

-----------------------------------------------------------------------------
(* Inference *)

\* The fields of a clause's literals.
LEMMA LiteralFields ==
  ASSUME NEW c \in Seq(Literal), NEW k \in DOMAIN c
  PROVE  c[k] \in Literal /\ c[k].atom \in Atom /\ c[k].is_positive \in BOOLEAN
<1>1. c[k] \in Literal
  OBVIOUS
<1> QED BY <1>1 DEF Literal

\* The atoms of a clause.
LEMMA AtomsTyped ==
  ASSUME NEW c \in Seq(Literal)
  PROVE  Atoms(c) \in SUBSET Atom
BY LiteralFields DEF Atoms

\* A substitution maps a clause to a clause, literal by literal.
LEMMA ApplyToTyped ==
  ASSUME NEW s \in Subst, NEW c \in Seq(Literal)
  PROVE  /\ ApplyTo(s, c) \in Seq(Literal)
         /\ Len(ApplyTo(s, c)) = Len(c)
         /\ \A k \in DOMAIN c :
              /\ ApplyTo(s, c)[k].atom = ApplySubstitution(s, c[k].atom)
              /\ ApplyTo(s, c)[k].is_positive = c[k].is_positive
<1>1. \A k \in 1..Len(c) : c[k].atom \in Atom /\ c[k].is_positive \in BOOLEAN
  BY LiteralFields
<1>2. \A k \in 1..Len(c) :
        [atom |-> ApplySubstitution(s, c[k].atom), is_positive |-> c[k].is_positive] \in Literal
  BY <1>1, InferenceTyped DEF InferenceTyped, Literal
<1> QED BY <1>2 DEF ApplyTo

\* A renamed clause has the literals of the clause, with other atoms.
LEMMA RenameTyped ==
  ASSUME NEW c \in Seq(Literal), NEW n \in 0..(CounterMod - 1)
  PROVE  /\ renameVariables(c, n) \in Seq(Literal)
         /\ Len(renameVariables(c, n)) = Len(c)
         /\ \A k \in DOMAIN c : renameVariables(c, n)[k].is_positive = c[k].is_positive
<1>1. CASE NumVariables(Atoms(c)) = 0
  BY <1>1 DEF renameVariables
<1>2. CASE NumVariables(Atoms(c)) # 0
  <2>1. Renaming(Atoms(c), n) \in Subst
    BY <1>2, AtomsTyped, InferenceTyped DEF InferenceTyped
  <2> QED BY <1>2, <2>1, ApplyToTyped DEF renameVariables
<1> QED BY <1>1, <1>2

\* The fresh-variable counter stays in its width.
LEMMA NextCounterTyped ==
  ASSUME NEW c \in Seq(Literal), NEW n \in 0..(CounterMod - 1)
  PROVE  NextCounter(c, n) \in 0..(CounterMod - 1)
<1>1. NumVariables(Atoms(c)) \in Nat /\ CounterMod \in Nat \ {0}
  BY AtomsTyped, InferenceTyped DEF InferenceTyped
<1> QED BY <1>1 DEF NextCounter

\* A resolvent is a clause.
LEMMA ResolveTyped ==
  ASSUME NEW c1 \in Seq(Literal), NEW c2 \in Seq(Literal),
         NEW i \in DOMAIN c1, NEW j \in DOMAIN c2, NEW n \in 0..(CounterMod - 1)
  PROVE  resolve(c1, i, c2, j, n) \in SUBSET Seq(Literal)
<1> DEFINE c2r == renameVariables(c2, n)
           s   == Unify(c1[i].atom, c2r[j].atom)
           rest == RemoveAt(c1, i) \o RemoveAt(c2r, j)
<1>1. c2r \in Seq(Literal) /\ j \in DOMAIN c2r
  BY RenameTyped
<1>2. rest \in Seq(Literal)
  <2>1. RemoveAt(c1, i) \in Seq(Literal)
    BY RemoveAtProperties
  <2>2. RemoveAt(c2r, j) \in Seq(Literal)
    BY <1>1, RemoveAtProperties
  <2> QED BY <2>1, <2>2
<1>3. s \in Subst \cup {NoUnifier}
  BY <1>1, LiteralFields, InferenceTyped DEF InferenceTyped
<1>4. s # NoUnifier => ApplyTo(s, rest) \in Seq(Literal)
  BY <1>2, <1>3, ApplyToTyped
<1> QED BY <1>4 DEF resolve

\* A factor is a clause.
LEMMA FactorTyped ==
  ASSUME NEW c \in Seq(Literal), NEW i \in DOMAIN c, NEW j \in DOMAIN c
  PROVE  factor(c, i, j) \in SUBSET Seq(Literal)
<1>1. RemoveAt(c, j) \in Seq(Literal)
  BY RemoveAtProperties
<1>2. Unify(c[i].atom, c[j].atom) \in Subst \cup {NoUnifier}
  BY LiteralFields, InferenceTyped DEF InferenceTyped
<1>3. Unify(c[i].atom, c[j].atom) # NoUnifier =>
        ApplyTo(Unify(c[i].atom, c[j].atom), RemoveAt(c, j)) \in Seq(Literal)
  BY <1>1, <1>2, ApplyToTyped
<1> QED BY <1>3 DEF factor

(***************************************************************************)
(* Type correctness.  Ids are handed out in order, so everything that      *)
(* names a clause keeps naming it when the store grows.                    *)
(***************************************************************************)

\* The fields of a sequence of stored or new clauses.
LEMMA ClauseFields ==
  ASSUME NEW C \in Seq(Clause), NEW k \in DOMAIN C
  PROVE  /\ C[k] \in Clause
         /\ C[k].literals \in Seq(Literal)
         /\ C[k].rule \in Rule
         /\ C[k].parent1 \in Nat /\ C[k].parent2 \in Nat
         /\ C[k].depth \in 0..(DepthMod - 1)
<1>1. C[k] \in Clause
  OBVIOUS
<1> QED BY <1>1 DEF Clause

\* Every stored clause is a sequence of literals.
LEMMA LiteralsTyped ==
  ASSUME TypeOK, NEW id \in DOMAIN clauses
  PROVE  Literals(id) \in Seq(Literal)
BY ClauseFields DEF TypeOK, Literals

\* A new inference's clause is of the type of the store's records.
LEMMA DerivedTyped ==
  ASSUME NEW lits \in Seq(Literal), NEW id1 \in Nat, NEW id2 \in Nat
  PROVE  /\ Resolvent(lits, id1, id2) \in Clause
         /\ Factored(lits, id1) \in Clause
         /\ InputClause(lits) \in Clause
BY ConfigTyped DEF ConfigTyped, Resolvent, Factored, InputClause, Clause, Rule, NoId

\* computeDepth stays in 16 bits.
LEMMA DepthTyped ==
  ASSUME TypeOK, NEW c \in Clause,
         c.parent1 \in DOMAIN clauses \cup {NoId}, c.parent2 \in DOMAIN clauses \cup {NoId}
  PROVE  computeDepth(c) \in 0..(DepthMod - 1)
<1>1. \A id \in DOMAIN clauses : clauses[id].depth \in 0..(DepthMod - 1)
  BY ClauseFields DEF TypeOK
<1>2. DepthOf(c.parent1) \in Nat /\ DepthOf(c.parent2) \in Nat
  BY <1>1, ConfigTyped DEF ConfigTyped, DepthOf
<1> QED BY <1>2, ConfigTyped DEF ConfigTyped, computeDepth

\* The tuples of a fresh todo name live processed clauses and their literals.
LEMMA ExpandedTodo ==
  ASSUME TypeOK, NEW id \in DOMAIN clauses, NEW live \in SUBSET DOMAIN processed,
         NEW t \in Resolutions(id, live) \cup Factorings(id)
  PROVE  /\ t \in Nat \X Nat \X Nat \X Nat
         /\ \/ /\ t[1] \in live /\ t[2] = 1
               /\ t[3] \in DOMAIN Literals(id)
               /\ t[4] \in DOMAIN Literals(processed[t[1]])
               /\ Literals(id)[t[3]].is_positive # Literals(processed[t[1]])[t[4]].is_positive
            \/ /\ t[1] \in live /\ t[2] = 2
               /\ t[3] \in DOMAIN Literals(processed[t[1]])
               /\ t[4] \in DOMAIN Literals(id)
               /\ Literals(processed[t[1]])[t[3]].is_positive # Literals(id)[t[4]].is_positive
            \/ /\ t[1] = FactorRank /\ t[2] = 1
               /\ t[3] \in DOMAIN Literals(id) /\ t[4] \in DOMAIN Literals(id)
               /\ t[3] < t[4]
<1>1. /\ DOMAIN processed = 1..Len(processed) /\ Len(processed) \in Nat
      /\ \A k \in DOMAIN processed : processed[k] \in DOMAIN clauses
  BY DEF TypeOK
<1>2. \A c \in DOMAIN clauses : Literals(c) \in Seq(Literal)
  BY LiteralsTyped
<1>3. \A c \in DOMAIN clauses : DOMAIN Literals(c) \subseteq Nat
  BY <1>2
<1>4. CASE t \in Factorings(id)
  <2>1. PICK ij \in FactorPairs(Literals(id)) : t = <<FactorRank, 1, ij[1], ij[2]>>
    BY <1>4 DEF Factorings
  <2>2. ij[1] \in DOMAIN Literals(id) /\ ij[2] \in DOMAIN Literals(id) /\ ij[1] < ij[2]
    BY DEF FactorPairs
  <2>3. FactorRank \in Nat
    BY <1>1 DEF FactorRank
  <2> QED BY <1>3, <2>1, <2>2, <2>3
<1>5. CASE t \in Resolutions(id, live)
  <2>1. PICK k \in live :
          \/ \E ij \in ComplementaryPairs(Literals(id), Literals(processed[k])) :
               t = <<k, 1, ij[1], ij[2]>>
          \/ \E ij \in ComplementaryPairs(Literals(processed[k]), Literals(id)) :
               t = <<k, 2, ij[1], ij[2]>>
    BY <1>5 DEF Resolutions
  <2>2. k \in Nat /\ processed[k] \in DOMAIN clauses
    BY <1>1
  <2>3. CASE \E ij \in ComplementaryPairs(Literals(id), Literals(processed[k])) :
               t = <<k, 1, ij[1], ij[2]>>
    <3>1. PICK ij \in ComplementaryPairs(Literals(id), Literals(processed[k])) :
                t = <<k, 1, ij[1], ij[2]>>
      BY <2>3
    <3>2. /\ ij[1] \in DOMAIN Literals(id) /\ ij[2] \in DOMAIN Literals(processed[k])
          /\ Literals(id)[ij[1]].is_positive # Literals(processed[k])[ij[2]].is_positive
      BY DEF ComplementaryPairs
    <3> QED BY <1>3, <2>2, <3>1, <3>2
  <2>4. CASE \E ij \in ComplementaryPairs(Literals(processed[k]), Literals(id)) :
               t = <<k, 2, ij[1], ij[2]>>
    <3>1. PICK ij \in ComplementaryPairs(Literals(processed[k]), Literals(id)) :
                t = <<k, 2, ij[1], ij[2]>>
      BY <2>4
    <3>2. /\ ij[1] \in DOMAIN Literals(processed[k]) /\ ij[2] \in DOMAIN Literals(id)
          /\ Literals(processed[k])[ij[1]].is_positive # Literals(id)[ij[2]].is_positive
      BY DEF ComplementaryPairs
    <3> QED BY <1>3, <2>2, <3>1, <3>2
  <2> QED BY <2>1, <2>3, <2>4
<1> QED BY <1>4, <1>5

\* An engine begins with typed and empty queues.
THEOREM TypeInit == Init => TypeOK
<1> SUFFICES ASSUME Init PROVE TypeOK
  OBVIOUS
<1> USE DEF Init, TypeOK, NoId
<1>1. var_counter \in 0..(CounterMod - 1)
  BY InferenceTyped DEF InferenceTyped
<1> QED BY <1>1

\* Nothing changes but where the loop stands and the calls' bookkeeping.
LEMMA TypeCallBoundary ==
  ASSUME TypeOK, Prove \/ Saturate \/ Timeout \/ FinishProcess
  PROVE  TypeOK'
<1>1. UNCHANGED <<clauses, var_counter, unprocessed, processed, erased, empty_clause_id,
                  todo, new_clauses>>
  BY DEF Prove, Saturate, Timeout, FinishProcess, store, search
<1>2. /\ pc # "generate" /\ pc' \in {"ready", "select"} /\ todo = {} /\ new_clauses = <<>>
      /\ result' \in {"none", "kTheorem", "kSaturation", "kTimeout"}
      /\ calls' \in Nat /\ iterations' \in Nat /\ given' \in DOMAIN clauses \cup {NoId}
  BY SMTT(30) DEF TypeOK, Prove, Saturate, Timeout, FinishProcess, Return, caller
<1> QED BY <1>1, <1>2, SMTT(30) DEF TypeOK

\* addClauses stores its clauses and queues their ids.
LEMMA TypeAddClauses ==
  ASSUME TypeOK, NEW batch \in Batches, addClauses(batch)
  PROVE  TypeOK'
<1> DEFINE added == [k \in DOMAIN batch |-> InputClause(batch[k])]
<1>1. batch \in Seq(Seq(Literal))
  BY ConfigTyped DEF ConfigTyped
<1>2. added \in Seq(Clause) /\ Len(added) = Len(batch)
  <2>1. \A k \in 1..Len(batch) : InputClause(batch[k]) \in Clause
    <3>1. \A k \in 1..Len(batch) : batch[k] \in Seq(Literal)
      BY <1>1
    <3> QED BY <3>1, DerivedTyped
  <2> QED BY <1>1, <2>1
<1> HIDE DEF added
<1>3. /\ clauses' = clauses \o added
      /\ clauses' \in Seq(Clause) /\ Len(clauses') = Len(clauses) + Len(batch)
  <2>1. clauses' = clauses \o added /\ clauses \in Seq(Clause)
    BY DEF addClauses, TypeOK, added
  <2>2. /\ clauses \o added \in Seq(Clause)
        /\ Len(clauses \o added) = Len(clauses) + Len(added)
    BY <1>2, <2>1, ConcatProperties
  <2> QED BY <1>2, <2>1, <2>2
<1>4. DOMAIN clauses \subseteq DOMAIN clauses'
  BY <1>1, <1>3 DEF TypeOK
<1>5. unprocessed' \subseteq DOMAIN clauses'
  <2>1. \A k \in DOMAIN batch : Len(clauses) + k \in 1..Len(clauses')
    BY <1>1, <1>3 DEF TypeOK
  <2> QED BY <1>3, <1>4, <2>1 DEF TypeOK, addClauses
<1>6. processed' \in Seq(DOMAIN clauses') /\ erased' \subseteq DOMAIN processed'
  BY <1>4 DEF TypeOK, addClauses
<1>7. pc = "ready" /\ pc' = "ready" /\ todo' = {} /\ new_clauses' = <<>>
  BY DEF TypeOK, addClauses
<1>8. /\ UNCHANGED <<var_counter, processed, erased, empty_clause_id, result,
                     iterations, given, todo, new_clauses, pc>>
      /\ calls' = calls + 1 /\ todo = {} /\ new_clauses = <<>>
  <2>1. /\ UNCHANGED <<var_counter, processed, erased, empty_clause_id, result,
                       iterations, given, todo, new_clauses, pc>>
        /\ calls' = calls + 1
    BY DEF addClauses
  <2> QED BY <1>7, <2>1
<1> QED BY <1>3, <1>4, <1>5, <1>6, <1>7, <1>8, SMTT(30) DEF TypeOK

\* The loop head takes one clause from the queue.
LEMMA TypePop ==
  ASSUME TypeOK, NEW id \in unprocessed, popGivenClause(id)
  PROVE  /\ id \in DOMAIN clauses /\ iterations' \in Nat /\ given' = id
         /\ unprocessed' \subseteq unprocessed /\ todo = {} /\ new_clauses = <<>>
BY DEF TypeOK, popGivenClause

\* A given clause that is not expanded leaves the queue only.
LEMMA TypeRefuteOrSkip ==
  ASSUME TypeOK, NEW id \in unprocessed, RefuteByGiven(id) \/ SkipGiven(id)
  PROVE  TypeOK'
<1>1. popGivenClause(id) /\ pc = "select"
  BY DEF RefuteByGiven, SkipGiven, popGivenClause
<1>2. /\ UNCHANGED <<clauses, var_counter, processed, erased, todo, new_clauses, calls>>
      /\ empty_clause_id' \in {empty_clause_id, id} /\ pc' \in {"ready", "select"}
      /\ result' \in {result, "kTheorem"}
  BY <1>1 DEF RefuteByGiven, SkipGiven, store, caller, Return
<1> QED BY <1>1, <1>2, TypePop DEF TypeOK

\* Expanding the given clause lists inferences between stored clauses.
LEMMA TypeExpandGiven ==
  ASSUME TypeOK, NEW id \in unprocessed, ExpandGiven(id)
  PROVE  TypeOK'
<1> DEFINE live == Live \ BackwardSubsumed(Literals(id))
<1>1. popGivenClause(id)
  BY DEF ExpandGiven
<1>2. /\ UNCHANGED <<clauses, var_counter, processed, empty_clause_id, new_clauses, calls, result>>
      /\ erased' = erased \cup BackwardSubsumed(Literals(id))
      /\ todo' = Resolutions(id, live) \cup Factorings(id)
      /\ pc' = "generate"
  BY DEF ExpandGiven, store, caller
<1>3. id \in DOMAIN clauses /\ given' = id /\ unprocessed' \subseteq DOMAIN clauses
  BY <1>1, TypePop DEF TypeOK
<1>4. live \in SUBSET DOMAIN processed /\ Live' = live /\ erased' \subseteq DOMAIN processed
  BY <1>2 DEF Live, BackwardSubsumed, TypeOK
<1> HIDE DEF live
<1>5. \A t \in todo' : t \in Nat \X Nat \X Nat \X Nat /\ InferenceOK(t)'
  <2> SUFFICES ASSUME NEW t \in todo'
               PROVE  t \in Nat \X Nat \X Nat \X Nat /\ InferenceOK(t)'
    OBVIOUS
  <2>1. UNCHANGED <<clauses, processed>>
    BY <1>2
  <2>2. FactorRank' = FactorRank /\ (\A c : Literals(c)' = Literals(c))
    BY <2>1 DEF FactorRank, Literals
  <2>3. LeftParent(t)' = (IF t[2] = 1 THEN id ELSE processed[t[1]])
        /\ RightParent(t)' = (IF t[2] = 1 THEN processed[t[1]] ELSE id)
    BY <1>3, <2>1 DEF LeftParent, RightParent
  <2>4. InferenceOK(t)' <=>
          \/ /\ t[1] \in live /\ t[2] \in {1, 2}
             /\ t[3] \in DOMAIN Literals(IF t[2] = 1 THEN id ELSE processed[t[1]])
             /\ t[4] \in DOMAIN Literals(IF t[2] = 1 THEN processed[t[1]] ELSE id)
          \/ /\ t[1] = FactorRank /\ t[2] = 1
             /\ t[3] \in DOMAIN Literals(id) /\ t[4] \in DOMAIN Literals(id)
             /\ t[3] < t[4]
    BY <1>3, <1>4, <2>2, <2>3 DEF InferenceOK
  <2>5. t \in Resolutions(id, live) \cup Factorings(id)
    BY <1>2
  <2> QED BY <1>3, <1>4, <2>4, <2>5, ExpandedTodo
<1>6. TypeOK
  OBVIOUS
<1> QED BY <1>1, <1>2, <1>3, <1>4, <1>5, <1>6, TypePop, SMTT(30) DEF TypeOK, NoId

\* A step that takes one tuple off todo keeps the rest of it in order.
LEMMA TypeTodo ==
  ASSUME TypeOK, NEW t \in todo, todo' = todo \ {t},
         UNCHANGED <<clauses, processed, erased, given, pc>>
  PROVE  /\ todo' \in SUBSET (Nat \X Nat \X Nat \X Nat)
         /\ \A u \in todo' : InferenceOK(u)'
         /\ (pc # "generate" => todo = {})'
<1>1. \A u \in todo' : InferenceOK(u)' <=> InferenceOK(u)
  BY DEF InferenceOK, LeftParent, RightParent, FactorRank, Literals, Live
<1> QED BY <1>1 DEF TypeOK

\* The premises of an inference are in the store.
LEMMA PremisesTyped ==
  ASSUME TypeOK, NEW t \in todo, t[1] # FactorRank
  PROVE  /\ LeftParent(t) \in DOMAIN clauses /\ RightParent(t) \in DOMAIN clauses
         /\ t[3] \in DOMAIN Literals(LeftParent(t)) /\ t[4] \in DOMAIN Literals(RightParent(t))
<1>1. InferenceOK(t) /\ pc = "generate"
  BY DEF TypeOK
<1>2. t[1] \in DOMAIN processed /\ given \in DOMAIN clauses
  BY <1>1 DEF InferenceOK, TypeOK, Live
<1>3. processed[t[1]] \in DOMAIN clauses
  BY <1>2 DEF TypeOK
<1> QED BY <1>1, <1>2, <1>3 DEF InferenceOK, LeftParent, RightParent

\* What the next inference adds to new_clauses is a clause with stored parents.
LEMMA GeneratedResolvent ==
  ASSUME TypeOK, NEW t \in todo, GenerateResolvent(t)
  PROVE  /\ var_counter' \in 0..(CounterMod - 1)
         /\ \/ UNCHANGED new_clauses
            \/ \E lits \in resolve(Literals(LeftParent(t)), t[3],
                                  Literals(RightParent(t)), t[4], var_counter) :
                 /\ lits \in Seq(Literal)
                 /\ new_clauses' = Append(new_clauses, Resolvent(lits, LeftParent(t), RightParent(t)))
<1>1. /\ LeftParent(t) \in DOMAIN clauses /\ RightParent(t) \in DOMAIN clauses
      /\ t[3] \in DOMAIN Literals(LeftParent(t)) /\ t[4] \in DOMAIN Literals(RightParent(t))
  BY PremisesTyped DEF GenerateResolvent
<1>2. /\ Literals(LeftParent(t)) \in Seq(Literal) /\ Literals(RightParent(t)) \in Seq(Literal)
      /\ var_counter \in 0..(CounterMod - 1)
  BY <1>1, LiteralsTyped DEF TypeOK
<1>3. resolve(Literals(LeftParent(t)), t[3], Literals(RightParent(t)), t[4], var_counter)
        \in SUBSET Seq(Literal)
  BY <1>1, <1>2, ResolveTyped
<1>4. var_counter' \in 0..(CounterMod - 1)
  BY <1>2, NextCounterTyped DEF GenerateResolvent
<1> QED BY <1>3, <1>4 DEF GenerateResolvent

\* What a factoring step appends, if anything.
LEMMA GeneratedFactor ==
  ASSUME TypeOK, NEW t \in todo, GenerateFactor(t)
  PROVE  /\ given \in DOMAIN clauses
         /\ t[3] \in DOMAIN Literals(given) /\ t[4] \in DOMAIN Literals(given) /\ t[3] < t[4]
         /\ \/ UNCHANGED new_clauses
            \/ \E lits \in factor(Literals(given), t[3], t[4]) :
                 /\ lits \in Seq(Literal)
                 /\ new_clauses' = Append(new_clauses, Factored(lits, given))
<1>1. pc = "generate" /\ given \in DOMAIN clauses /\ InferenceOK(t) /\ t[1] = FactorRank
  BY DEF TypeOK, GenerateFactor
<1>2. FactorRank \notin Live
  BY DEF TypeOK, FactorRank, Live
<1>3. t[3] \in DOMAIN Literals(given) /\ t[4] \in DOMAIN Literals(given) /\ t[3] < t[4]
  BY <1>1, <1>2 DEF InferenceOK
<1>4. factor(Literals(given), t[3], t[4]) \in SUBSET Seq(Literal)
  BY <1>1, <1>3, LiteralsTyped, FactorTyped
<1> QED BY <1>1, <1>3, <1>4 DEF GenerateFactor

\* new_clauses stays well formed when a clause with stored parents is added.
LEMMA TypeAppendNew ==
  ASSUME TypeOK, NEW c \in Clause, new_clauses' = Append(new_clauses, c), UNCHANGED clauses,
         {c.parent1, c.parent2} \subseteq DOMAIN clauses \cup {NoId}
  PROVE  /\ new_clauses' \in Seq(Clause)
         /\ \A k \in DOMAIN new_clauses' :
              {new_clauses'[k].parent1, new_clauses'[k].parent2} \subseteq DOMAIN clauses' \cup {NoId}
<1>1. new_clauses \in Seq(Clause)
  BY DEF TypeOK
<1>2. new_clauses' \in Seq(Clause) /\ Len(new_clauses') = Len(new_clauses) + 1
  BY <1>1
<1>3. \A k \in DOMAIN new_clauses' :
        IF k = Len(new_clauses) + 1 THEN new_clauses'[k] = c
        ELSE k \in DOMAIN new_clauses /\ new_clauses'[k] = new_clauses[k]
  BY <1>1, <1>2
<1> QED BY <1>2, <1>3 DEF TypeOK

\* An inference appends a clause with parents from the store.
LEMMA TypeGenerate ==
  ASSUME TypeOK, NEW t \in todo, GenerateResolvent(t) \/ GenerateFactor(t)
  PROVE  TypeOK'
<1>1. /\ UNCHANGED <<clauses, unprocessed, processed, erased, empty_clause_id, pc, result,
                     calls, iterations, given>>
      /\ todo' = todo \ {t} /\ pc = "generate"
  BY DEF GenerateResolvent, GenerateFactor, store, search, caller
<1>2. var_counter' \in 0..(CounterMod - 1)
  BY GeneratedResolvent DEF GenerateFactor, store, TypeOK
<1>3. \/ UNCHANGED new_clauses
      \/ \E c \in Clause : /\ new_clauses' = Append(new_clauses, c)
                          /\ {c.parent1, c.parent2} \subseteq DOMAIN clauses \cup {NoId}
  <2>1. DOMAIN clauses \subseteq Nat
    BY DEF TypeOK
  <2>2. CASE GenerateResolvent(t)
    <3>1. CASE UNCHANGED new_clauses
      BY <3>1
    <3>2. CASE \E lits \in Seq(Literal) :
                 new_clauses' = Append(new_clauses, Resolvent(lits, LeftParent(t), RightParent(t)))
      <4>1. PICK lits \in Seq(Literal) :
                  new_clauses' = Append(new_clauses, Resolvent(lits, LeftParent(t), RightParent(t)))
        BY <3>2
      <4>2. LeftParent(t) \in DOMAIN clauses /\ RightParent(t) \in DOMAIN clauses
        BY <2>2, PremisesTyped DEF GenerateResolvent
      <4>3. Resolvent(lits, LeftParent(t), RightParent(t)) \in Clause
        BY <2>1, <4>2, DerivedTyped
      <4> QED BY <4>1, <4>2, <4>3 DEF Resolvent
    <3> QED BY <2>2, <3>1, <3>2, GeneratedResolvent
  <2>3. CASE GenerateFactor(t)
    <3>1. CASE UNCHANGED new_clauses
      BY <3>1
    <3>2. CASE \E lits \in Seq(Literal) : new_clauses' = Append(new_clauses, Factored(lits, given))
      <4>1. PICK lits \in Seq(Literal) : new_clauses' = Append(new_clauses, Factored(lits, given))
        BY <3>2
      <4>2. given \in DOMAIN clauses
        BY <2>3, GeneratedFactor
      <4>3. Factored(lits, given) \in Clause
        BY <2>1, <4>2, DerivedTyped
      <4> QED BY <4>1, <4>2, <4>3 DEF Factored
    <3> QED BY <2>3, <3>1, <3>2, GeneratedFactor
  <2> QED BY <2>2, <2>3
<1>4. /\ new_clauses' \in Seq(Clause)
      /\ \A k \in DOMAIN new_clauses' :
           {new_clauses'[k].parent1, new_clauses'[k].parent2} \subseteq DOMAIN clauses' \cup {NoId}
  <2>1. CASE UNCHANGED new_clauses
    BY <1>1, <2>1 DEF TypeOK
  <2>2. CASE ~ UNCHANGED new_clauses
    BY <1>1, <1>3, <2>2, TypeAppendNew
  <2> QED BY <2>1, <2>2
<1>5. /\ todo' \in SUBSET (Nat \X Nat \X Nat \X Nat)
      /\ \A u \in todo' : InferenceOK(u)'
  BY <1>1, TypeTodo
<1> QED BY <1>1, <1>2, <1>4, <1>5, SMTT(30) DEF TypeOK

\* When no inference is left the given clause becomes processed.
LEMMA TypeFinishGenerate ==
  ASSUME TypeOK, FinishGenerate
  PROVE  TypeOK'
<1>1. /\ UNCHANGED <<clauses, var_counter, unprocessed, erased, empty_clause_id, result, calls,
                     iterations, given, new_clauses>>
      /\ todo = {} /\ todo' = {} /\ pc = "generate" /\ pc' = "process"
      /\ processed' = Append(processed, given)
  BY DEF FinishGenerate, store, caller
<1>2. given \in DOMAIN clauses /\ processed \in Seq(DOMAIN clauses)
  BY <1>1 DEF TypeOK
<1>3. processed' \in Seq(DOMAIN clauses) /\ DOMAIN processed \subseteq DOMAIN processed'
  BY <1>1, <1>2
<1> QED BY <1>1, <1>2, <1>3 DEF TypeOK, NoId

\* The store grows by one clause.
LEMMA StoreAppend ==
  ASSUME TypeOK, NEW c \in Clause, clauses' = Append(clauses, c)
  PROVE  /\ clauses' \in Seq(Clause) /\ Len(clauses') = Len(clauses) + 1
         /\ Len(clauses') \in DOMAIN clauses' /\ DOMAIN clauses \subseteq DOMAIN clauses'
         /\ Len(clauses') \notin DOMAIN clauses /\ clauses'[Len(clauses')] = c
         /\ \A id \in DOMAIN clauses : clauses'[id] = clauses[id] /\ Literals(id)' = Literals(id)
         /\ DOMAIN clauses' = DOMAIN clauses \cup {Len(clauses')}
<1>1. clauses \in Seq(Clause)
  BY DEF TypeOK
<1>2. clauses' \in Seq(Clause) /\ Len(clauses') = Len(clauses) + 1 /\ Len(clauses) \in Nat
  BY <1>1
<1>3. \A id \in 1..Len(clauses') :
        clauses'[id] = IF id = Len(clauses) + 1 THEN c ELSE clauses[id]
  BY <1>1, <1>2
<1> QED BY <1>1, <1>2, <1>3 DEF Literals

\* The first of new_clauses, and what is left.
LEMMA HeadNew ==
  ASSUME TypeOK, new_clauses # <<>>
  PROVE  /\ Head(new_clauses) \in Clause /\ Head(new_clauses) = new_clauses[1]
         /\ Head(new_clauses).literals \in Seq(Literal)
         /\ Head(new_clauses).parent1 \in DOMAIN clauses \cup {NoId}
         /\ Head(new_clauses).parent2 \in DOMAIN clauses \cup {NoId}
         /\ Tail(new_clauses) \in Seq(Clause)
         /\ \A k \in DOMAIN Tail(new_clauses) :
              k + 1 \in DOMAIN new_clauses /\ Tail(new_clauses)[k] = new_clauses[k + 1]
         /\ \A k \in DOMAIN new_clauses :
              k # 1 => k - 1 \in DOMAIN Tail(new_clauses) /\ Tail(new_clauses)[k - 1] = new_clauses[k]
<1>1. new_clauses \in Seq(Clause) /\ 1 \in DOMAIN new_clauses
  BY DEF TypeOK
<1>2. Head(new_clauses) = new_clauses[1]
  BY <1>1
<1>3. /\ new_clauses[1] \in Clause /\ new_clauses[1].literals \in Seq(Literal)
      /\ new_clauses[1].parent1 \in DOMAIN clauses \cup {NoId}
      /\ new_clauses[1].parent2 \in DOMAIN clauses \cup {NoId}
  BY <1>1, ClauseFields DEF TypeOK
<1>4. Tail(new_clauses) \in Seq(Clause)
  BY <1>1
<1>5. \A k \in DOMAIN Tail(new_clauses) :
        k + 1 \in DOMAIN new_clauses /\ Tail(new_clauses)[k] = new_clauses[k + 1]
  BY <1>1
<1>6. \A k \in DOMAIN new_clauses :
        k # 1 => k - 1 \in DOMAIN Tail(new_clauses) /\ Tail(new_clauses)[k - 1] = new_clauses[k]
  BY <1>1
<1> QED BY <1>2, <1>3, <1>4, <1>5, <1>6

\* A stored new clause gets its depth and keeps its other fields.
LEMMA StoredNewClause ==
  ASSUME TypeOK, StoreNewClause
  PROVE  \E nc \in Clause :
           /\ clauses' = Append(clauses, nc)
           /\ nc.literals = Head(new_clauses).literals /\ nc.rule = Head(new_clauses).rule
           /\ nc.parent1 = Head(new_clauses).parent1 /\ nc.parent2 = Head(new_clauses).parent2
           /\ nc.depth = computeDepth(Head(new_clauses))
<1> DEFINE h  == Head(new_clauses)
           nc == [h EXCEPT !.depth = computeDepth(h)]
<1>1. h \in Clause /\ computeDepth(h) \in 0..(DepthMod - 1)
  BY HeadNew, DepthTyped DEF StoreNewClause
<1>2. clauses' = Append(clauses, nc)
  BY DEF StoreNewClause
<1> HIDE DEF h
<1>3. /\ nc \in Clause /\ nc.literals = h.literals /\ nc.rule = h.rule
      /\ nc.parent1 = h.parent1 /\ nc.parent2 = h.parent2 /\ nc.depth = computeDepth(h)
  BY <1>1 DEF Clause
<1> QED BY <1>2, <1>3 DEF h

\* A new clause is stored under the next id, or dropped.
LEMMA TypeProcess ==
  ASSUME TypeOK, DeriveEmpty \/ DiscardTautology \/ StoreNewClause
  PROVE  TypeOK'
<1>1. /\ UNCHANGED <<var_counter, processed, erased, calls, iterations, given, todo>>
      /\ pc = "process" /\ todo = {} /\ new_clauses # <<>>
      /\ pc' \in {"ready", "process"} /\ (pc' = "ready" => new_clauses' = <<>>)
      /\ result' \in {result, "kTheorem"}
  BY DEF DeriveEmpty, DiscardTautology, StoreNewClause, Return, store, search, caller, TypeOK
<1>2. new_clauses' \in {<<>>, Tail(new_clauses)}
  BY DEF DeriveEmpty, DiscardTautology, StoreNewClause
<1>3. \/ /\ UNCHANGED <<clauses, unprocessed, empty_clause_id>>
      \/ /\ \E c \in Clause : clauses' = Append(clauses, c)
         /\ unprocessed' \in {unprocessed, unprocessed \cup {Len(clauses')}}
         /\ empty_clause_id' \in {empty_clause_id, Len(clauses')}
  <2>1. CASE DeriveEmpty
    BY <2>1, HeadNew DEF DeriveEmpty
  <2>2. CASE DiscardTautology
    BY <2>2 DEF DiscardTautology, store, search
  <2>3. CASE StoreNewClause
    BY <2>3, StoredNewClause DEF StoreNewClause
  <2> QED BY <2>1, <2>2, <2>3
<1>4. /\ clauses' \in Seq(Clause) /\ DOMAIN clauses \subseteq DOMAIN clauses'
      /\ unprocessed' \subseteq DOMAIN clauses'
      /\ empty_clause_id' \in DOMAIN clauses' \cup {NoId}
  BY <1>3, StoreAppend DEF TypeOK
<1>5. /\ new_clauses' \in Seq(Clause)
      /\ \A k \in DOMAIN new_clauses' :
           {new_clauses'[k].parent1, new_clauses'[k].parent2} \subseteq DOMAIN clauses \cup {NoId}
  <2>1. CASE new_clauses' = <<>>
    <3>1. DOMAIN new_clauses' = {} /\ new_clauses' \in Seq(Clause)
      BY <2>1
    <3> QED BY <3>1
  <2>2. CASE new_clauses' = Tail(new_clauses)
    <3>1. \A k \in DOMAIN new_clauses :
            {new_clauses[k].parent1, new_clauses[k].parent2} \subseteq DOMAIN clauses \cup {NoId}
      BY DEF TypeOK
    <3>2. \A k \in DOMAIN new_clauses' :
            k + 1 \in DOMAIN new_clauses /\ new_clauses'[k] = new_clauses[k + 1]
      BY <1>1, <2>2, HeadNew
    <3>3. new_clauses' \in Seq(Clause)
      BY <1>1, <2>2, HeadNew
    <3> QED BY <3>1, <3>2, <3>3
  <2> QED BY <1>2, <2>1, <2>2
<1>6. processed' \in Seq(DOMAIN clauses')
  BY <1>1, <1>4 DEF TypeOK
<1> QED BY <1>1, <1>4, <1>5, <1>6 DEF TypeOK

\* Every step keeps the types.
LEMMA TypeNext ==
  ASSUME TypeOK, [Next]_vars
  PROVE  TypeOK'
<1>1. CASE Prove \/ Saturate \/ Timeout \/ FinishProcess
  BY <1>1, TypeCallBoundary
<1>2. CASE \E batch \in Batches : addClauses(batch)
  BY <1>2, TypeAddClauses
<1>3. CASE \E id \in unprocessed : RefuteByGiven(id) \/ SkipGiven(id)
  BY <1>3, TypeRefuteOrSkip
<1>4. CASE \E id \in unprocessed : ExpandGiven(id)
  BY <1>4, TypeExpandGiven
<1>5. CASE \E t \in todo : GenerateResolvent(t) \/ GenerateFactor(t)
  BY <1>5, TypeGenerate
<1>6. CASE FinishGenerate
  BY <1>6, TypeFinishGenerate
<1>7. CASE DeriveEmpty \/ DiscardTautology \/ StoreNewClause
  BY <1>7, TypeProcess
<1>8. CASE UNCHANGED vars
  <2>1. UNCHANGED <<clauses, var_counter, unprocessed, processed, erased, empty_clause_id, pc,
                    result, calls, iterations, given, todo, new_clauses>>
    BY <1>8 DEF vars
  <2> QED BY <2>1 DEF TypeOK, InferenceOK, LeftParent, RightParent, FactorRank, Literals, Live
<1> QED BY <1>1, <1>2, <1>3, <1>4, <1>5, <1>6, <1>7, <1>8
        DEF Next, ProverStep, CallerStep, LoopHead, Generate, Process

\* Type correctness: every id a running or finished call holds is in the store,
\* so no getClause of the loop is out of bounds.
THEOREM TypeCorrect == Spec => []TypeOK
<1>1. Init => TypeOK
  BY TypeInit
<1>2. TypeOK /\ [Next]_vars => TypeOK'
  BY TypeNext
<1> QED BY <1>1, <1>2, PTL DEF Spec

(***************************************************************************)
(* Provenance.  The clauses waiting in new_clauses must be inferences from *)
(* stored ones too; then each is one from earlier ones when it is stored.  *)
(***************************************************************************)

NewInferred == \A k \in DOMAIN new_clauses : InferredFrom(new_clauses[k], DOMAIN clauses)

ProvenanceInv == Provenance /\ NewInferred

\* A stored clause never changes, so what was inferred from ids of the store
\* stays so; only the fields that record the inference matter.
LEMMA InferredStable ==
  ASSUME NEW ids \in SUBSET DOMAIN clauses,
         \A id \in DOMAIN clauses : clauses'[id] = clauses[id],
         NEW c, NEW d, InferredFrom(c, ids),
         d.literals = c.literals, d.rule = c.rule,
         d.parent1 = c.parent1, d.parent2 = c.parent2
  PROVE  InferredFrom(d, ids)'
BY DEF InferredFrom, Literals

\* A step that leaves the store as it is leaves what is inferred from it.
LEMMA ProvenanceKept ==
  ASSUME Provenance, UNCHANGED clauses
  PROVE  Provenance'
BY DEF Provenance, InferredFrom, Literals

\* A step that stores the first new clause, or a variant with another depth.
LEMMA ProvenanceStored ==
  ASSUME TypeOK, ProvenanceInv, new_clauses # <<>>, NEW nc \in Clause,
         clauses' = Append(clauses, nc),
         nc.literals = Head(new_clauses).literals, nc.rule = Head(new_clauses).rule,
         nc.parent1 = Head(new_clauses).parent1, nc.parent2 = Head(new_clauses).parent2
  PROVE  Provenance'
<1>1. PICK n \in Nat :
        /\ n = Len(clauses) /\ DOMAIN clauses = 1..n /\ DOMAIN clauses' = 1..(n + 1)
        /\ \A id \in DOMAIN clauses : clauses'[id] = clauses[id]
        /\ clauses'[n + 1] = nc
  BY StoreAppend DEF TypeOK
<1>2. InferredFrom(Head(new_clauses), 1..n)
  <2>1. 1 \in DOMAIN new_clauses /\ Head(new_clauses) = new_clauses[1]
    BY HeadNew DEF TypeOK
  <2> QED BY <1>1, <2>1 DEF ProvenanceInv, NewInferred
<1>3. InferredFrom(nc, 1..n)'
  BY <1>1, <1>2, InferredStable
<1>4. InferredFrom(clauses[n + 1], 1..((n + 1) - 1))'
  <2>1. (n + 1) - 1 = n
    OBVIOUS
  <2>2. clauses'[n + 1] = nc
    BY <1>1
  <2> QED BY <1>3, <2>1, <2>2, ZenonT(30) DEF InferredFrom, Literals
<1>5. ASSUME NEW id \in 1..n
      PROVE  InferredFrom(clauses[id], 1..(id - 1))'
  <2>1. InferredFrom(clauses[id], 1..(id - 1))
    BY <1>1 DEF ProvenanceInv, Provenance
  <2>2. 1..(id - 1) \subseteq DOMAIN clauses
    BY <1>1
  <2> QED BY <1>1, <2>1, <2>2 DEF InferredFrom, Literals
<1>6. \A id \in 1..(n + 1) : id \in 1..n \/ id = n + 1
  OBVIOUS
<1> QED BY <1>1, <1>4, <1>5, <1>6 DEF Provenance

\* The other waiting clauses stay inferences from stored ones.
LEMMA NewInferredTail ==
  ASSUME TypeOK, NewInferred, new_clauses # <<>>, new_clauses' = Tail(new_clauses),
         DOMAIN clauses \subseteq DOMAIN clauses',
         \A id \in DOMAIN clauses : clauses'[id] = clauses[id]
  PROVE  NewInferred'
<1> SUFFICES ASSUME NEW k \in DOMAIN new_clauses'
             PROVE  InferredFrom(new_clauses[k], DOMAIN clauses)'
  BY DEF NewInferred
<1>1. k + 1 \in DOMAIN new_clauses /\ new_clauses'[k] = new_clauses[k + 1]
  BY HeadNew
<1>2. InferredFrom(new_clauses[k + 1], DOMAIN clauses)
  BY <1>1 DEF NewInferred
<1> QED BY <1>1, <1>2 DEF InferredFrom, Literals

\* A resolvent of the given and a processed clause is an inference from them.
LEMMA NewInferredGenerate ==
  ASSUME TypeOK, NewInferred, NEW t \in todo, GenerateResolvent(t) \/ GenerateFactor(t)
  PROVE  NewInferred'
<1>1. UNCHANGED clauses
  BY DEF GenerateResolvent, GenerateFactor, store
<1>2. CASE UNCHANGED new_clauses
  BY <1>1, <1>2 DEF NewInferred, InferredFrom, Literals
<1>3. CASE \E c \in Clause : new_clauses' = Append(new_clauses, c)
                            /\ InferredFrom(c, DOMAIN clauses)
  <2>1. PICK c \in Clause : new_clauses' = Append(new_clauses, c)
                            /\ InferredFrom(c, DOMAIN clauses)
    BY <1>3
  <2>2. new_clauses \in Seq(Clause)
    BY DEF TypeOK
  <2>3. \A k \in DOMAIN new_clauses' :
          new_clauses'[k] = c \/ (k \in DOMAIN new_clauses /\ new_clauses'[k] = new_clauses[k])
    BY <2>1, <2>2
  <2>4. ASSUME NEW k \in DOMAIN new_clauses'
        PROVE  InferredFrom(new_clauses[k], DOMAIN clauses)'
    <3>1. InferredFrom(new_clauses'[k], DOMAIN clauses)
      BY <2>1, <2>3 DEF NewInferred
    <3> QED BY <1>1, <3>1 DEF InferredFrom, Literals
  <2> QED BY <2>4 DEF NewInferred
<1>4. UNCHANGED new_clauses \/ \E c \in Clause : new_clauses' = Append(new_clauses, c)
                                               /\ InferredFrom(c, DOMAIN clauses)
  <2>1. DOMAIN clauses \subseteq Nat
    BY SMTT(30) DEF TypeOK
  <2>2. CASE GenerateResolvent(t)
    <3>1. SUFFICES ASSUME NEW lits \in resolve(Literals(LeftParent(t)), t[3],
                                  Literals(RightParent(t)), t[4], var_counter),
                          lits \in Seq(Literal),
                          new_clauses' = Append(new_clauses, Resolvent(lits, LeftParent(t), RightParent(t)))
                   PROVE  \E c \in Clause : new_clauses' = Append(new_clauses, c)
                                            /\ InferredFrom(c, DOMAIN clauses)
      BY <2>2, GeneratedResolvent
    <3> DEFINE c == Resolvent(lits, LeftParent(t), RightParent(t))
    <3>2. /\ LeftParent(t) \in DOMAIN clauses /\ RightParent(t) \in DOMAIN clauses
          /\ t[3] \in DOMAIN Literals(LeftParent(t)) /\ t[4] \in DOMAIN Literals(RightParent(t))
          /\ var_counter \in 0..(CounterMod - 1)
      BY <2>2, PremisesTyped DEF GenerateResolvent, TypeOK
    <3>3. /\ c.literals = lits /\ c.rule = "kResolution"
          /\ c.parent1 = LeftParent(t) /\ c.parent2 = RightParent(t)
      BY DEF Resolvent
    <3>4. c \in Clause
      BY <2>1, <3>1, <3>2, DerivedTyped
    <3> HIDE DEF c
    <3>5. InferredFrom(c, DOMAIN clauses)
      BY <3>1, <3>2, <3>3 DEF InferredFrom
    <3> QED BY <3>1, <3>4, <3>5 DEF c
  <2>3. CASE GenerateFactor(t)
    <3>1. SUFFICES ASSUME NEW lits \in factor(Literals(given), t[3], t[4]),
                          lits \in Seq(Literal),
                          new_clauses' = Append(new_clauses, Factored(lits, given))
                   PROVE  \E c \in Clause : new_clauses' = Append(new_clauses, c)
                                            /\ InferredFrom(c, DOMAIN clauses)
      BY <2>3, GeneratedFactor
    <3> DEFINE c == Factored(lits, given)
    <3>2. /\ given \in DOMAIN clauses
          /\ t[3] \in DOMAIN Literals(given) /\ t[4] \in DOMAIN Literals(given) /\ t[3] < t[4]
      BY <2>3, GeneratedFactor
    <3>3. /\ c.literals = lits /\ c.rule = "kFactoring" /\ c.parent1 = given /\ c.parent2 = NoId
      BY DEF Factored
    <3>4. c \in Clause
      BY <2>1, <3>1, <3>2, DerivedTyped
    <3> HIDE DEF c
    <3>5. InferredFrom(c, DOMAIN clauses)
      BY <3>1, <3>2, <3>3 DEF InferredFrom
    <3> QED BY <3>1, <3>4, <3>5 DEF c
  <2> QED BY <2>2, <2>3
<1> QED BY <1>2, <1>3, <1>4

\* The caller's clauses go to the end of the store, as inputs.
LEMMA StoreAdd ==
  ASSUME TypeOK, NEW batch \in Batches, addClauses(batch)
  PROVE  \E n \in Nat, m \in Nat :
           /\ n = Len(clauses) /\ DOMAIN clauses = 1..n /\ DOMAIN clauses' = 1..(n + m)
           /\ \A id \in 1..n : clauses'[id] = clauses[id]
           /\ unprocessed' = unprocessed \cup {n + k : k \in 1..m}
           /\ \A k \in 1..m : \E lits \in Seq(Literal) :
                /\ clauses'[n + k] = InputClause(lits)
                /\ \E b \in DOMAIN batch : lits = batch[b]
<1> DEFINE added == [k \in DOMAIN batch |-> InputClause(batch[k])]
<1>1. batch \in Seq(Seq(Literal)) /\ Len(batch) \in Nat /\ DOMAIN batch = 1..Len(batch)
  BY ConfigTyped DEF ConfigTyped
<1>2. \A k \in 1..Len(batch) : batch[k] \in Seq(Literal) /\ InputClause(batch[k]) \in Clause
  <2>1. \A k \in 1..Len(batch) : batch[k] \in Seq(Literal)
    BY <1>1
  <2> QED BY <2>1, DerivedTyped
<1>3. /\ added \in Seq(Clause) /\ Len(added) = Len(batch)
      /\ \A k \in 1..Len(batch) : added[k] = InputClause(batch[k])
  BY <1>1, <1>2
<1>4. clauses' = clauses \o added /\ clauses \in Seq(Clause)
  BY DEF addClauses, TypeOK
<1> HIDE DEF added
<1>5. PICK n \in Nat : n = Len(clauses) /\ DOMAIN clauses = 1..n
  BY <1>4
<1>6. /\ clauses' \in Seq(Clause) /\ Len(clauses') = n + Len(batch)
      /\ \A id \in 1..(n + Len(batch)) :
           clauses'[id] = IF id <= n THEN clauses[id] ELSE added[id - n]
  <2>1. /\ clauses \o added \in Seq(Clause) /\ Len(clauses \o added) = Len(clauses) + Len(added)
        /\ \A id \in 1..(Len(clauses) + Len(added)) :
             (clauses \o added)[id] = IF id <= Len(clauses) THEN clauses[id]
                                                            ELSE added[id - Len(clauses)]
    BY <1>3, <1>4, ConcatProperties, ZenonT(30)
  <2> QED BY <1>3, <1>4, <1>5, <2>1
<1>7. \A id \in 1..n : clauses'[id] = clauses[id]
  BY <1>1, <1>6
<1>8. \A k \in 1..Len(batch) : clauses'[n + k] = InputClause(batch[k])
  BY <1>1, <1>3, <1>6
<1>9. unprocessed' = unprocessed \cup {n + k : k \in 1..Len(batch)}
  BY <1>1, <1>5 DEF addClauses
<1>10. DOMAIN clauses' = 1..(n + Len(batch))
  BY <1>6
<1> QED BY <1>1, <1>2, <1>5, <1>7, <1>8, <1>9, <1>10

\* An input needs no parents.
LEMMA ProvenanceAdd ==
  ASSUME TypeOK, ProvenanceInv, NEW batch \in Batches, addClauses(batch)
  PROVE  ProvenanceInv'
<1>1. PICK n \in Nat, m \in Nat :
           /\ n = Len(clauses) /\ DOMAIN clauses = 1..n /\ DOMAIN clauses' = 1..(n + m)
           /\ \A id \in 1..n : clauses'[id] = clauses[id]
           /\ unprocessed' = unprocessed \cup {n + k : k \in 1..m}
           /\ \A k \in 1..m : \E lits \in Seq(Literal) : clauses'[n + k] = InputClause(lits)
  BY StoreAdd
<1>2. ASSUME NEW id \in 1..n
      PROVE  InferredFrom(clauses[id], 1..(id - 1))'
  <2>1. InferredFrom(clauses[id], 1..(id - 1)) /\ 1..(id - 1) \subseteq DOMAIN clauses
    BY <1>1 DEF ProvenanceInv, Provenance
  <2> QED BY <1>1, <2>1 DEF InferredFrom, Literals
<1>3. ASSUME NEW id \in (n + 1)..(n + m)
      PROVE  InferredFrom(clauses[id], 1..(id - 1))'
  <2>1. id - n \in 1..m /\ n + (id - n) = id
    OBVIOUS
  <2>2. PICK lits \in Seq(Literal) : clauses'[id] = InputClause(lits)
    BY <1>1, <2>1
  <2> QED BY <2>2 DEF InferredFrom, InputClause
<1>4. Provenance'
  <2>1. \A id \in 1..(n + m) : id \in 1..n \/ id \in (n + 1)..(n + m)
    OBVIOUS
  <2> QED BY <1>1, <1>2, <1>3, <2>1 DEF Provenance
<1>5. new_clauses' = <<>>
  BY DEF addClauses, TypeOK
<1>6. NewInferred'
  <2>1. DOMAIN new_clauses' = {}
    BY <1>5
  <2> QED BY <2>1 DEF NewInferred
<1> QED BY <1>4, <1>6 DEF ProvenanceInv

\* A waiting clause is stored after its parents.
LEMMA ProvenanceProcess ==
  ASSUME TypeOK, ProvenanceInv, DeriveEmpty \/ DiscardTautology \/ StoreNewClause
  PROVE  ProvenanceInv'
<1>1. new_clauses # <<>> /\ ProvenanceInv
  BY DEF DeriveEmpty, DiscardTautology, StoreNewClause
<1>2. CASE DeriveEmpty
  <2>1. Head(new_clauses) \in Clause /\ clauses' = Append(clauses, Head(new_clauses))
    BY <1>1, <1>2, HeadNew DEF DeriveEmpty
  <2>2. Provenance'
    BY <1>1, <2>1, ProvenanceStored
  <2>3. DOMAIN new_clauses' = {}
    BY <1>2 DEF DeriveEmpty
  <2> QED BY <2>2, <2>3 DEF ProvenanceInv, NewInferred
<1>3. CASE DiscardTautology
  <2>1. UNCHANGED clauses /\ new_clauses' = Tail(new_clauses)
    BY <1>3 DEF DiscardTautology, store
  <2>2. Provenance'
    BY <2>1, ProvenanceKept DEF ProvenanceInv
  <2>3. NewInferred'
    BY <1>1, <2>1, NewInferredTail DEF ProvenanceInv
  <2> QED BY <2>2, <2>3 DEF ProvenanceInv
<1>4. CASE StoreNewClause
  <2>1. PICK nc \in Clause :
           /\ clauses' = Append(clauses, nc)
           /\ nc.literals = Head(new_clauses).literals /\ nc.rule = Head(new_clauses).rule
           /\ nc.parent1 = Head(new_clauses).parent1 /\ nc.parent2 = Head(new_clauses).parent2
    BY <1>4, StoredNewClause
  <2>2. Provenance'
    BY <1>1, <2>1, ProvenanceStored
  <2>3. NewInferred'
    BY <1>1, <1>4, <2>1, StoreAppend, NewInferredTail DEF ProvenanceInv, StoreNewClause
  <2> QED BY <2>2, <2>3 DEF ProvenanceInv
<1> QED BY <1>2, <1>3, <1>4

\* Every other step leaves the store and the waiting clauses alone.
LEMMA OtherStepsKeep ==
  ASSUME TypeOK, 
         \/ Prove \/ Saturate \/ Timeout \/ FinishProcess \/ FinishGenerate
         \/ (\E id \in unprocessed : RefuteByGiven(id) \/ SkipGiven(id) \/ ExpandGiven(id))
         \/ UNCHANGED vars
  PROVE  UNCHANGED <<clauses, new_clauses, var_counter>>
BY DEF Prove, Saturate, Timeout, FinishProcess, FinishGenerate, RefuteByGiven, SkipGiven,
       ExpandGiven, store, vars

\* Every step keeps the record of inferences.
LEMMA ProvenanceNext ==
  ASSUME TypeOK, ProvenanceInv, [Next]_vars
  PROVE  ProvenanceInv'
<1>1. CASE \E batch \in Batches : addClauses(batch)
  BY <1>1, ProvenanceAdd
<1>2. CASE \E t \in todo : GenerateResolvent(t) \/ GenerateFactor(t)
  <2>1. UNCHANGED clauses
    BY <1>2 DEF GenerateResolvent, GenerateFactor, store
  <2> QED BY <1>2, <2>1, NewInferredGenerate, ProvenanceKept DEF ProvenanceInv
<1>3. CASE DeriveEmpty \/ DiscardTautology \/ StoreNewClause
  BY <1>3, ProvenanceProcess
<1>4. CASE UNCHANGED <<clauses, new_clauses>>
  BY <1>4 DEF ProvenanceInv, Provenance, NewInferred, InferredFrom, Literals
<1> QED BY <1>1, <1>2, <1>3, <1>4, OtherStepsKeep
        DEF Next, ProverStep, CallerStep, LoopHead, Generate, Process

\* Every clause of the store is an input or follows by its recorded rule from
\* its recorded, earlier parents, in every reachable state.
THEOREM ProvenanceCorrect == Spec => []Provenance
<1>1. Init => ProvenanceInv
  <2> SUFFICES ASSUME Init PROVE ProvenanceInv
    OBVIOUS
  <2>1. DOMAIN clauses = {} /\ DOMAIN new_clauses = {}
    BY DEF Init
  <2> QED BY <2>1 DEF ProvenanceInv, Provenance, NewInferred
<1>2. TypeOK /\ ProvenanceInv /\ [Next]_vars => ProvenanceInv'
  BY ProvenanceNext
<1>3. ProvenanceInv => Provenance
  BY DEF ProvenanceInv
<1> QED BY <1>1, <1>2, <1>3, TypeCorrect, PTL DEF Spec

(***************************************************************************)
(* Inputs, and problems without variables: nothing inferred is an input,   *)
(* and what is inferred from clauses without variables has none.           *)
(***************************************************************************)

\* Nothing the search infers is recorded as an input.
NewDerived == \A k \in DOMAIN new_clauses : new_clauses[k].rule # "kInput"

\* What waits in new_clauses is derived, never an input.
LEMMA NewDerivedNext ==
  ASSUME TypeOK, NewDerived, [Next]_vars
  PROVE  NewDerived'
<1>1. CASE UNCHANGED new_clauses \/ new_clauses' = <<>>
  BY <1>1 DEF NewDerived
<1>2. CASE /\ new_clauses # <<>> /\ new_clauses' = Tail(new_clauses)
  BY <1>2, HeadNew DEF NewDerived
<1>3. CASE \E t \in todo : GenerateResolvent(t) \/ GenerateFactor(t)
  <2>1. UNCHANGED new_clauses \/ \E c : /\ new_clauses' = Append(new_clauses, c)
                                        /\ c.rule # "kInput"
    <3>1. PICK t \in todo : GenerateResolvent(t) \/ GenerateFactor(t)
      BY <1>3
    <3>2. \A lits, id1, id2 : /\ Resolvent(lits, id1, id2).rule # "kInput"
                              /\ Factored(lits, id1).rule # "kInput"
      BY DEF Resolvent, Factored
    <3>3. CASE GenerateResolvent(t)
      BY <3>2, <3>3, GeneratedResolvent
    <3>4. CASE GenerateFactor(t)
      BY <3>2, <3>4, GeneratedFactor
    <3> QED BY <3>1, <3>3, <3>4
  <2>2. CASE UNCHANGED new_clauses
    BY <1>1, <2>2
  <2>3. CASE \E c : new_clauses' = Append(new_clauses, c) /\ c.rule # "kInput"
    <3>1. PICK c : new_clauses' = Append(new_clauses, c) /\ c.rule # "kInput"
      BY <2>3
    <3>2. \A k \in DOMAIN new_clauses' :
            new_clauses'[k] = c \/ (k \in DOMAIN new_clauses /\ new_clauses'[k] = new_clauses[k])
      BY <3>1 DEF TypeOK
    <3> QED BY <3>1, <3>2 DEF NewDerived
  <2> QED BY <2>1, <2>2, <2>3
<1>4. CASE Process
  BY <1>1, <1>2, <1>4 DEF Process, DeriveEmpty, DiscardTautology, StoreNewClause, FinishProcess
<1>5. CASE \E batch \in Batches : addClauses(batch)
  BY <1>1, <1>5 DEF addClauses
<1> QED BY <1>1, <1>3, <1>4, <1>5, OtherStepsKeep
        DEF Next, ProverStep, CallerStep, LoopHead, Generate

\* The input set changes only where addClauses adds to it.
LEMMA InputSetStored ==
  ASSUME TypeOK, NEW c \in Clause, c.rule # "kInput", clauses' = Append(clauses, c)
  PROVE  InputSet' = InputSet
<1>1. /\ \A id \in DOMAIN clauses : clauses'[id] = clauses[id]
      /\ DOMAIN clauses' = DOMAIN clauses \cup {Len(clauses')}
      /\ clauses'[Len(clauses')] = c
  BY StoreAppend
<1>2. {i \in DOMAIN clauses' : clauses'[i].rule = "kInput"}
        = {i \in DOMAIN clauses : clauses[i].rule = "kInput"}
  BY <1>1
<1> QED BY <1>1, <1>2 DEF InputSet, Literals

\* Only addClauses changes the inputs.
LEMMA InputSetNext ==
  ASSUME TypeOK, NewDerived, [Next]_vars
  PROVE  InputSet' = InputSet \/ \E batch \in Batches : addClauses(batch)
<1>1. ASSUME UNCHANGED clauses
      PROVE  InputSet' = InputSet
  BY <1>1 DEF InputSet, Literals
<1>2. CASE DeriveEmpty
  <2>1. new_clauses # <<>> /\ clauses' = Append(clauses, Head(new_clauses))
    BY <1>2 DEF DeriveEmpty
  <2>2. Head(new_clauses) \in Clause /\ Head(new_clauses).rule # "kInput"
    BY <2>1, HeadNew DEF NewDerived, TypeOK
  <2> QED BY <2>1, <2>2, InputSetStored
<1>3. CASE StoreNewClause
  <2>1. PICK nc \in Clause :
          clauses' = Append(clauses, nc) /\ nc.rule = Head(new_clauses).rule
    BY <1>3, StoredNewClause
  <2>2. Head(new_clauses).rule # "kInput"
    BY <1>3, HeadNew DEF StoreNewClause, NewDerived, TypeOK
  <2> QED BY <2>1, <2>2, InputSetStored
<1>4. CASE DiscardTautology \/ \E t \in todo : GenerateResolvent(t) \/ GenerateFactor(t)
  BY <1>1, <1>4 DEF DiscardTautology, GenerateResolvent, GenerateFactor, store
<1> QED BY <1>1, <1>2, <1>3, <1>4, OtherStepsKeep
        DEF Next, ProverStep, CallerStep, LoopHead, Generate, Process

InputsGround == \A lits \in InputSet : Atoms(lits) \subseteq Ground

\* Inputs of ground problems are ground.
LEMMA InputsGroundNext ==
  ASSUME GroundProblem, TypeOK, NewDerived, InputsGround, [Next]_vars
  PROVE  InputsGround'
<1>1. CASE InputSet' = InputSet
  BY <1>1 DEF InputsGround
<1>2. CASE \E batch \in Batches : addClauses(batch)
  <2>1. PICK batch \in Batches : addClauses(batch)
    BY <1>2
  <2>2. PICK n \in Nat, m \in Nat :
          /\ DOMAIN clauses = 1..n /\ DOMAIN clauses' = 1..(n + m)
          /\ \A id \in 1..n : clauses'[id] = clauses[id]
          /\ \A k \in 1..m : \E lits \in Seq(Literal) :
               clauses'[n + k] = InputClause(lits) /\ \E b \in DOMAIN batch : lits = batch[b]
    BY <2>1, StoreAdd
  <2>3. ASSUME NEW id \in DOMAIN clauses', clauses'[id].rule = "kInput"
        PROVE  Atoms(clauses'[id].literals) \subseteq Ground
    <3>1. CASE id \in 1..n
      BY <2>2, <2>3, <3>1 DEF InputsGround, InputSet, Literals
    <3>2. CASE id \notin 1..n
      <4>1. id - n \in 1..m /\ n + (id - n) = id
        BY <2>2, <3>2
      <4>2. PICK lits : clauses'[id] = InputClause(lits) /\ \E b \in DOMAIN batch : lits = batch[b]
        BY <2>2, <4>1
      <4> QED BY <4>2 DEF GroundProblem, InputClause
    <3> QED BY <3>1, <3>2
  <2> QED BY <2>3 DEF InputsGround, InputSet, Literals
<1> QED BY <1>1, <1>2, InputSetNext

\* A literal of either sequence is a literal of their concatenation.
LEMMA ConcatMembers ==
  ASSUME NEW a \in Seq(Literal), NEW b \in Seq(Literal)
  PROVE  /\ a \o b \in Seq(Literal)
         /\ \A k \in DOMAIN a : \E m \in DOMAIN (a \o b) : (a \o b)[m] = a[k]
         /\ \A k \in DOMAIN b : \E m \in DOMAIN (a \o b) : (a \o b)[m] = b[k]
<1>1. /\ a \o b \in Seq(Literal) /\ Len(a \o b) = Len(a) + Len(b)
      /\ \A i \in 1..(Len(a) + Len(b)) : (a \o b)[i] = IF i <= Len(a) THEN a[i] ELSE b[i - Len(a)]
  BY ConcatProperties
<1>2. \A k \in DOMAIN a : k \in DOMAIN (a \o b) /\ (a \o b)[k] = a[k]
  BY <1>1
<1>3. ASSUME NEW k \in DOMAIN b
      PROVE  Len(a) + k \in DOMAIN (a \o b) /\ (a \o b)[Len(a) + k] = b[k]
  <2>1. /\ Len(a) \in Nat /\ k \in Nat /\ k >= 1
        /\ Len(a) + k \in 1..(Len(a) + Len(b)) /\ ~(Len(a) + k <= Len(a))
        /\ (Len(a) + k) - Len(a) = k
    OBVIOUS
  <2> QED BY <1>1, <2>1
<1> QED BY <1>1, <1>2, <1>3

\* Every literal of a concatenation is one of the parts'.
LEMMA ConcatOnly ==
  ASSUME NEW a \in Seq(Literal), NEW b \in Seq(Literal), NEW m \in DOMAIN (a \o b)
  PROVE  (\E k \in DOMAIN a : (a \o b)[m] = a[k]) \/ (\E k \in DOMAIN b : (a \o b)[m] = b[k])
<1>1. /\ Len(a) \in Nat /\ Len(b) \in Nat /\ m \in 1..(Len(a) + Len(b))
      /\ (a \o b)[m] = IF m <= Len(a) THEN a[m] ELSE b[m - Len(a)]
  BY ConcatProperties
<1>2. m <= Len(a) => m \in DOMAIN a
  BY <1>1
<1>3. ~(m <= Len(a)) => m - Len(a) \in DOMAIN b
  BY <1>1
<1> QED BY <1>1, <1>2, <1>3

\* Induction over the naturals, as far as the provers take it: a set of them
\* has a least element.
LEMMA LeastNatural ==
  ASSUME NEW S \in SUBSET Nat, S # {}
  PROVE  \E n \in S : \A m \in S : n <= m
<1> DEFINE R == {ss \in Nat \X Nat : ss[1] < ss[2]}
<1>1. IsWellFoundedOn(R, Nat)
  BY NatLessThanWellFounded DEF OpToRel
<1>2. \A x, y \in Nat : y < x => <<y, x>> \in R
  OBVIOUS
<1>3. PICK x \in S : \A y \in S : ~(<<y, x>> \in R)
  <2> HIDE DEF R
  <2> QED BY <1>1, WFMin
<1>4. \A y \in S : ~(y < x)
  <2> HIDE DEF R
  <2> QED BY <1>2, <1>3
<1> QED BY <1>3, <1>4

\* No substitution changes a ground clause.
LEMMA GroundApply ==
  ASSUME NEW c \in Seq(Literal), Atoms(c) \subseteq Ground, NEW s \in Subst
  PROVE  ApplyTo(s, c) = c
<1>1. ASSUME NEW k \in DOMAIN c
      PROVE  [atom |-> ApplySubstitution(s, c[k].atom), is_positive |-> c[k].is_positive] = c[k]
  <2>1. c[k] \in Literal
    BY LiteralFields
  <2>2. c[k].atom \in Ground
    BY DEF Atoms
  <2>3. ApplySubstitution(s, c[k].atom) = c[k].atom
    BY <2>2, GroundAtoms DEF GroundAtoms
  <2> QED BY <2>1, <2>3 DEF Literal
<1>2. c = [k \in DOMAIN c |-> c[k]]
  OBVIOUS
<1> QED BY <1>1, <1>2 DEF ApplyTo

\* Part of a ground clause is ground.
LEMMA GroundParts ==
  ASSUME NEW c \in Seq(Literal), Atoms(c) \subseteq Ground, NEW i \in DOMAIN c
  PROVE  RemoveAt(c, i) \in Seq(Literal) /\ Atoms(RemoveAt(c, i)) \subseteq Ground
<1>1. RemoveAt(c, i) \in Seq(Literal)
  BY RemoveAtProperties
<1>2. \A m \in DOMAIN RemoveAt(c, i) : \E k \in DOMAIN c : RemoveAt(c, i)[m] = c[k]
  BY RemoveAtProperties
<1> QED BY <1>1, <1>2 DEF Atoms

\* Resolution of ground clauses: nothing is renamed and nothing is substituted,
\* and it succeeds on equal atoms.
LEMMA GroundResolvents ==
  ASSUME NEW c \in Seq(Literal), Atoms(c) \subseteq Ground, NEW i \in DOMAIN c,
         NEW d \in Seq(Literal), Atoms(d) \subseteq Ground, NEW j \in DOMAIN d, NEW n
  PROVE  /\ \A r \in resolve(c, i, d, j, n) : r \in Seq(Literal) /\ Atoms(r) \subseteq Ground
         /\ c[i].atom = d[j].atom /\ c[i].is_positive # d[j].is_positive =>
              RemoveAt(c, i) \o RemoveAt(d, j) \in resolve(c, i, d, j, n)
<1> DEFINE rest == RemoveAt(c, i) \o RemoveAt(d, j)
           s    == Unify(c[i].atom, d[j].atom)
<1>1. renameVariables(d, n) = d
  BY GroundAtoms DEF GroundAtoms, renameVariables
<1>2. RemoveAt(c, i) \in Seq(Literal) /\ RemoveAt(d, j) \in Seq(Literal)
      /\ Atoms(RemoveAt(c, i)) \subseteq Ground /\ Atoms(RemoveAt(d, j)) \subseteq Ground
  BY GroundParts
<1>3. rest \in Seq(Literal)
  BY <1>2
<1>4. Atoms(rest) \subseteq Ground
  <2> SUFFICES ASSUME NEW m \in DOMAIN rest PROVE rest[m].atom \in Ground
    BY DEF Atoms
  <2> QED BY <1>2, ConcatOnly DEF Atoms
<1>5. s \in Subst \cup {NoUnifier}
  BY LiteralFields, InferenceTyped DEF InferenceTyped
<1> HIDE DEF rest, s
<1>6. s # NoUnifier => ApplyTo(s, rest) = rest
  BY <1>3, <1>4, <1>5, GroundApply
<1>7. c[i].atom = d[j].atom => s # NoUnifier
  <2>1. c[i].atom \in Ground
    BY DEF Atoms
  <2> QED BY <2>1, GroundAtoms DEF GroundAtoms, s
<1> QED BY <1>1, <1>3, <1>4, <1>6, <1>7 DEF resolve, rest, s

\* Factors of a ground clause are ground; dropping a repeated literal is one.
LEMMA GroundFactors ==
  ASSUME NEW c \in Seq(Literal), Atoms(c) \subseteq Ground, NEW i \in DOMAIN c, NEW j \in DOMAIN c
  PROVE  /\ \A r \in factor(c, i, j) : r \in Seq(Literal) /\ Atoms(r) \subseteq Ground
         /\ c[i] = c[j] => RemoveAt(c, j) \in factor(c, i, j)
<1> DEFINE rest == RemoveAt(c, j)
           s    == Unify(c[i].atom, c[j].atom)
<1>1. rest \in Seq(Literal) /\ Atoms(rest) \subseteq Ground
  BY GroundParts
<1>2. s \in Subst \cup {NoUnifier}
  BY LiteralFields, InferenceTyped DEF InferenceTyped
<1> HIDE DEF rest, s
<1>3. s # NoUnifier => ApplyTo(s, rest) = rest
  BY <1>1, <1>2, GroundApply
<1>4. c[i] = c[j] => s # NoUnifier
  <2>1. c[i].atom \in Ground
    BY DEF Atoms
  <2> QED BY <2>1, GroundAtoms DEF GroundAtoms, s
<1> QED BY <1>1, <1>3, <1>4 DEF factor, rest, s

\* All that is derived from ground clauses is ground.
LEMMA StoredGround ==
  ASSUME TypeOK, Provenance, InputsGround
  PROVE  \A id \in DOMAIN clauses : Atoms(Literals(id)) \subseteq Ground
<1> DEFINE Bad == {id \in DOMAIN clauses : ~(Atoms(Literals(id)) \subseteq Ground)}
<1> SUFFICES ASSUME Bad # {} PROVE FALSE
  OBVIOUS
<1>1. DOMAIN clauses \in SUBSET Nat /\ \A id \in DOMAIN clauses : 1..(id - 1) \subseteq DOMAIN clauses
  BY DEF TypeOK
<1>2. PICK id \in Bad : \A m \in Bad : id <= m
  BY <1>1, LeastNatural
<1>3. id \in DOMAIN clauses /\ id \in Nat
  BY <1>1
<1>4. \A p \in 1..(id - 1) : p \in DOMAIN clauses /\ Literals(p) \in Seq(Literal)
                             /\ Atoms(Literals(p)) \subseteq Ground
  <2> TAKE p \in 1..(id - 1)
  <2>1. p \in DOMAIN clauses /\ ~(id <= p)
    BY <1>1, <1>3
  <2> QED BY <1>2, <2>1, LiteralsTyped
<1> DEFINE c == clauses[id]
<1>5. InferredFrom(c, 1..(id - 1)) /\ Literals(id) = c.literals
  BY <1>3 DEF Provenance, Literals
<1>6. CASE c.rule = "kInput"
  BY <1>3, <1>6 DEF InputsGround, InputSet
<1>7. CASE c.rule = "kResolution"
  <2>1. PICK i \in DOMAIN Literals(c.parent1), j \in DOMAIN Literals(c.parent2), n \in 0..(CounterMod - 1) :
          c.literals \in resolve(Literals(c.parent1), i, Literals(c.parent2), j, n)
    BY <1>5, <1>7 DEF InferredFrom
  <2>2. c.parent1 \in 1..(id - 1) /\ c.parent2 \in 1..(id - 1)
    BY <1>5, <1>7 DEF InferredFrom
  <2>3. Atoms(c.literals) \subseteq Ground
    BY <1>4, <2>1, <2>2, GroundResolvents
  <2> QED BY <1>2, <1>5, <2>3
<1>8. CASE c.rule = "kFactoring"
  <2>1. PICK i, j \in DOMAIN Literals(c.parent1) :
          c.literals \in factor(Literals(c.parent1), i, j)
    BY <1>5, <1>8 DEF InferredFrom
  <2>2. c.parent1 \in 1..(id - 1)
    BY <1>5, <1>8 DEF InferredFrom
  <2>3. Atoms(c.literals) \subseteq Ground
    BY <1>4, <2>1, <2>2, GroundFactors
  <2> QED BY <1>2, <1>5, <2>3
<1> QED BY <1>5, <1>6, <1>7, <1>8 DEF InferredFrom

\* The inputs of a ground problem stay without variables, whatever is called.
LEMMA StaysGround ==
  ASSUME GroundProblem
  PROVE  Spec => [](NewDerived /\ InputsGround)
<1>1. Init => NewDerived /\ InputsGround
  <2> SUFFICES ASSUME Init PROVE NewDerived /\ InputsGround
    OBVIOUS
  <2>1. DOMAIN clauses = {} /\ DOMAIN new_clauses = {}
    BY DEF Init
  <2> QED BY <2>1 DEF NewDerived, InputsGround, InputSet
<1>2. TypeOK /\ NewDerived /\ InputsGround /\ [Next]_vars => (NewDerived /\ InputsGround)'
  BY NewDerivedNext, InputsGroundNext
<1> QED BY <1>1, <1>2, TypeCorrect, PTL DEF Spec

\* What soundness needs of unify(): the occurs check, or no variables.
StoredSure == OccursCheck \/ \A id \in DOMAIN clauses : Atoms(Literals(id)) \subseteq Ground

\* A problem without variables stays so.
LEMMA StaysSure ==
  ASSUME OccursCheck \/ GroundProblem
  PROVE  Spec => []StoredSure
<1>1. CASE OccursCheck
  <2>1. StoredSure
    BY <1>1 DEF StoredSure
  <2> QED BY <2>1, PTL
<1>2. CASE GroundProblem
  <2>1. TypeOK /\ Provenance /\ NewDerived /\ InputsGround => StoredSure
    BY StoredGround DEF StoredSure
  <2>2. Spec => [](NewDerived /\ InputsGround)
    BY <1>2, StaysGround
  <2> QED BY <2>1, <2>2, TypeCorrect, ProvenanceCorrect, PTL
<1> QED BY <1>1, <1>2

(***************************************************************************)
(* Soundness: the inference rules preserve truth, hence so does the        *)
(* search, hence a Theorem verdict is right.                               *)
(***************************************************************************)

\* To instantiate atoms is to change the valuation; of atoms without variables
\* this needs no occurs check, as nothing is substituted.
LEMMA InstanceMeaning ==
  ASSUME NEW I \in Interpretation, NEW v \in Valuation, NEW s \in Subst,
         NEW A \in SUBSET Atom, OccursCheck \/ A \subseteq Ground
  PROVE  \E w \in Valuation :
           \A a \in A : Holds(I, v, ApplySubstitution(s, a)) = Holds(I, w, a)
<1>1. CASE OccursCheck
  BY <1>1, SubstitutionLemma DEF SubstitutionLemma
<1>2. CASE A \subseteq Ground
  <2>1. \A a \in A : ApplySubstitution(s, a) = a
    BY <1>2, GroundAtoms DEF GroundAtoms
  <2> QED BY <2>1
<1> QED BY <1>1, <1>2

\* An instance of a true clause is true.
LEMMA InstanceSound ==
  ASSUME NEW I \in Interpretation, NEW s \in Subst, NEW c \in Seq(Literal), Satisfies(I, c),
         OccursCheck \/ Atoms(c) \subseteq Ground
  PROVE  Satisfies(I, ApplyTo(s, c))
<1> SUFFICES ASSUME NEW v \in Valuation
             PROVE  \E k \in DOMAIN ApplyTo(s, c) :
                      Holds(I, v, ApplyTo(s, c)[k].atom) = ApplyTo(s, c)[k].is_positive
  BY DEF Satisfies
<1>1. PICK w \in Valuation :
        \A a \in Atoms(c) : Holds(I, v, ApplySubstitution(s, a)) = Holds(I, w, a)
  BY AtomsTyped, InstanceMeaning
<1>2. PICK k \in DOMAIN c : Holds(I, w, c[k].atom) = c[k].is_positive
  BY DEF Satisfies
<1>3. c[k].atom \in Atoms(c)
  BY DEF Atoms
<1>4. /\ k \in DOMAIN ApplyTo(s, c)
      /\ ApplyTo(s, c)[k].atom = ApplySubstitution(s, c[k].atom)
      /\ ApplyTo(s, c)[k].is_positive = c[k].is_positive
  BY ApplyToTyped
<1> QED BY <1>1, <1>2, <1>3, <1>4

\* So is a renamed clause, even where the counter has come round to names
\* the clause already uses.
LEMMA RenameSound ==
  ASSUME NEW I \in Interpretation, NEW c \in Seq(Literal), NEW n \in 0..(CounterMod - 1),
         Satisfies(I, c), OccursCheck \/ Atoms(c) \subseteq Ground
  PROVE  Satisfies(I, renameVariables(c, n))
<1>1. CASE NumVariables(Atoms(c)) = 0
  BY <1>1 DEF renameVariables
<1>2. CASE NumVariables(Atoms(c)) # 0
  <2>1. Renaming(Atoms(c), n) \in Subst
    BY <1>2, AtomsTyped, InferenceTyped DEF InferenceTyped
  <2> QED BY <1>2, <2>1, InstanceSound DEF renameVariables
<1> QED BY <1>1, <1>2

\* A successful unify() has made two atoms one: by the occurs check, or because
\* two atoms without variables were one before.
LEMMA UnifiedAtoms ==
  ASSUME NEW a \in Atom, NEW b \in Atom, Unify(a, b) # NoUnifier,
         OccursCheck \/ (a \in Ground /\ b \in Ground)
  PROVE  /\ Unify(a, b) \in Subst
         /\ ApplySubstitution(Unify(a, b), a) = ApplySubstitution(Unify(a, b), b)
<1>1. Unify(a, b) \in Subst
  BY InferenceTyped DEF InferenceTyped
<1>2. CASE OccursCheck
  BY <1>1, <1>2, UnifierSound DEF UnifierSound
<1>3. CASE a \in Ground /\ b \in Ground
  <2>1. a = b
    BY <1>3, GroundAtoms DEF GroundAtoms
  <2> QED BY <1>1, <2>1
<1> QED BY <1>2, <1>3

\* Binary resolution: whichever of the two complementary literals is false, the
\* rest of its clause is in the resolvent.
LEMMA ResolveSound ==
  ASSUME NEW I \in Interpretation, NEW c1 \in Seq(Literal), NEW c2 \in Seq(Literal),
         NEW i \in DOMAIN c1, NEW j \in DOMAIN c2, NEW n \in 0..(CounterMod - 1),
         OccursCheck \/ (Atoms(c1) \subseteq Ground /\ Atoms(c2) \subseteq Ground),
         Satisfies(I, c1), Satisfies(I, c2),
         NEW r \in resolve(c1, i, c2, j, n)
  PROVE  Satisfies(I, r)
<1> DEFINE c2r  == renameVariables(c2, n)
           s    == Unify(c1[i].atom, c2r[j].atom)
           rest == RemoveAt(c1, i) \o RemoveAt(c2r, j)
<1>1. /\ c2r \in Seq(Literal) /\ j \in DOMAIN c2r /\ Satisfies(I, c2r)
      /\ c2r[j].is_positive = c2[j].is_positive
  BY RenameTyped, RenameSound
<1>2. c1[i].atom \in Atom /\ c2r[j].atom \in Atom
  BY <1>1, LiteralFields
<1>3. /\ c1[i].is_positive # c2r[j].is_positive /\ s # NoUnifier /\ r = ApplyTo(s, rest)
  BY <1>1 DEF resolve
<1>4. s \in Subst /\ ApplySubstitution(s, c1[i].atom) = ApplySubstitution(s, c2r[j].atom)
  <2>1. OccursCheck \/ (c1[i].atom \in Ground /\ c2r[j].atom \in Ground)
    <3>1. Atoms(c2) \subseteq Ground => c2r = c2
      BY GroundAtoms DEF GroundAtoms, renameVariables
    <3> QED BY <3>1 DEF Atoms
  <2> QED BY <1>2, <1>3, <2>1, UnifiedAtoms
<1> HIDE DEF c2r, s
<1>5. /\ RemoveAt(c1, i) \in Seq(Literal)
      /\ \A k \in DOMAIN c1 : k # i =>
           \E m \in DOMAIN RemoveAt(c1, i) : RemoveAt(c1, i)[m] = c1[k]
  BY RemoveAtProperties
<1>6. /\ RemoveAt(c2r, j) \in Seq(Literal)
      /\ \A k \in DOMAIN c2r : k # j =>
           \E m \in DOMAIN RemoveAt(c2r, j) : RemoveAt(c2r, j)[m] = c2r[k]
  BY <1>1, RemoveAtProperties
<1>7. /\ rest \in Seq(Literal)
      /\ \A k \in DOMAIN c1 : k # i => \E m \in DOMAIN rest : rest[m] = c1[k]
      /\ \A k \in DOMAIN c2r : k # j => \E m \in DOMAIN rest : rest[m] = c2r[k]
  <2>1. /\ rest \in Seq(Literal)
        /\ \A m \in DOMAIN RemoveAt(c1, i) : \E l \in DOMAIN rest : rest[l] = RemoveAt(c1, i)[m]
        /\ \A m \in DOMAIN RemoveAt(c2r, j) : \E l \in DOMAIN rest : rest[l] = RemoveAt(c2r, j)[m]
    BY <1>5, <1>6, ConcatMembers
  <2> HIDE DEF rest
  <2> QED BY <1>5, <1>6, <2>1
<1> DEFINE A == Atoms(c1) \cup Atoms(c2r)
<1>14. \A m \in DOMAIN rest : rest[m].atom \in A
  <2>1. /\ \A m \in DOMAIN RemoveAt(c1, i) : RemoveAt(c1, i)[m].atom \in Atoms(c1)
        /\ \A m \in DOMAIN RemoveAt(c2r, j) : RemoveAt(c2r, j)[m].atom \in Atoms(c2r)
    <3>1. \A m \in DOMAIN RemoveAt(c1, i) : \E k \in DOMAIN c1 : RemoveAt(c1, i)[m] = c1[k]
      BY RemoveAtProperties
    <3>2. \A m \in DOMAIN RemoveAt(c2r, j) : \E k \in DOMAIN c2r : RemoveAt(c2r, j)[m] = c2r[k]
      BY <1>1, RemoveAtProperties
    <3> QED BY <3>1, <3>2 DEF Atoms
  <2> QED BY <1>5, <1>6, <2>1, ConcatOnly
<1>15. A \in SUBSET Atom /\ (OccursCheck \/ A \subseteq Ground)
  <2>1. Atoms(c2) \subseteq Ground => c2r = c2
    BY GroundAtoms DEF GroundAtoms, renameVariables, c2r
  <2> QED BY <1>1, <2>1, AtomsTyped
<1>16. c1[i].atom \in A /\ c2r[j].atom \in A
       /\ (\A k \in DOMAIN c1 : c1[k].atom \in A) /\ \A k \in DOMAIN c2r : c2r[k].atom \in A
  BY <1>1 DEF Atoms
<1> HIDE DEF rest, A
<1> SUFFICES ASSUME NEW v \in Valuation
             PROVE  \E k \in DOMAIN r : Holds(I, v, r[k].atom) = r[k].is_positive
  BY DEF Satisfies
<1>8. PICK w \in Valuation :
        \A a \in A : Holds(I, v, ApplySubstitution(s, a)) = Holds(I, w, a)
  BY <1>4, <1>15, InstanceMeaning
<1>9. \A m \in DOMAIN rest :
        Holds(I, w, rest[m].atom) = rest[m].is_positive =>
          m \in DOMAIN r /\ Holds(I, v, r[m].atom) = r[m].is_positive
  <2> SUFFICES ASSUME NEW m \in DOMAIN rest
               PROVE  Holds(I, w, rest[m].atom) = rest[m].is_positive =>
                        m \in DOMAIN r /\ Holds(I, v, r[m].atom) = r[m].is_positive
    OBVIOUS
  <2>1. rest[m].atom \in A
    BY <1>14
  <2>2. /\ m \in DOMAIN r /\ r[m].atom = ApplySubstitution(s, rest[m].atom)
        /\ r[m].is_positive = rest[m].is_positive
    BY <1>3, <1>4, <1>7, ApplyToTyped
  <2> QED BY <1>8, <2>1, <2>2
<1>10. PICK k1 \in DOMAIN c1 : Holds(I, w, c1[k1].atom) = c1[k1].is_positive
  BY DEF Satisfies
<1>11. PICK k2 \in DOMAIN c2r : Holds(I, w, c2r[k2].atom) = c2r[k2].is_positive
  BY <1>1 DEF Satisfies
<1>12. k1 # i \/ k2 # j
  BY <1>3, <1>4, <1>8, <1>10, <1>11, <1>16
<1>13. \E m \in DOMAIN rest : Holds(I, w, rest[m].atom) = rest[m].is_positive
  BY <1>7, <1>10, <1>11, <1>12
<1> QED BY <1>9, <1>13

\* Factoring: the literal dropped has become one that is kept.
LEMMA FactorSound ==
  ASSUME NEW I \in Interpretation, NEW c \in Seq(Literal), NEW i \in DOMAIN c, NEW j \in DOMAIN c,
         OccursCheck \/ Atoms(c) \subseteq Ground,
         i < j, Satisfies(I, c), NEW r \in factor(c, i, j)
  PROVE  Satisfies(I, r)
<1> DEFINE s    == Unify(c[i].atom, c[j].atom)
           rest == RemoveAt(c, j)
<1>1. c[i].is_positive = c[j].is_positive /\ s # NoUnifier /\ r = ApplyTo(s, rest)
  BY DEF factor
<1>2. c[i].atom \in Atom /\ c[j].atom \in Atom /\ i # j
  BY LiteralFields
<1>3. s \in Subst /\ ApplySubstitution(s, c[i].atom) = ApplySubstitution(s, c[j].atom)
  <2>1. OccursCheck \/ (c[i].atom \in Ground /\ c[j].atom \in Ground)
    BY DEF Atoms
  <2> QED BY <1>1, <1>2, <2>1, UnifiedAtoms
<1>4. /\ rest \in Seq(Literal)
      /\ \A k \in DOMAIN c : k # j => \E m \in DOMAIN rest : rest[m] = c[k]
      /\ \A m \in DOMAIN rest : rest[m].atom \in Atoms(c)
  <2>1. \A m \in DOMAIN rest : \E k \in DOMAIN c : rest[m] = c[k]
    BY RemoveAtProperties
  <2>2. \A m \in DOMAIN rest : rest[m].atom \in Atoms(c)
    BY <2>1 DEF Atoms
  <2> QED BY <2>2, RemoveAtProperties
<1> HIDE DEF s, rest
<1> SUFFICES ASSUME NEW v \in Valuation
             PROVE  \E k \in DOMAIN r : Holds(I, v, r[k].atom) = r[k].is_positive
  BY DEF Satisfies
<1>5. PICK w \in Valuation :
        \A a \in Atoms(c) : Holds(I, v, ApplySubstitution(s, a)) = Holds(I, w, a)
  BY <1>3, AtomsTyped, InstanceMeaning
<1>6. PICK k \in DOMAIN c : Holds(I, w, c[k].atom) = c[k].is_positive
  BY DEF Satisfies
<1>7. \E k1 \in DOMAIN c : k1 # j /\ Holds(I, w, c[k1].atom) = c[k1].is_positive
  <2>1. CASE k # j
    BY <1>6, <2>1
  <2>2. CASE k = j
    <3>1. c[i].atom \in Atoms(c) /\ c[j].atom \in Atoms(c)
      BY DEF Atoms
    <3> QED BY <1>1, <1>2, <1>3, <1>5, <1>6, <2>2, <3>1
  <2> QED BY <2>1, <2>2
<1>8. PICK m \in DOMAIN rest : Holds(I, w, rest[m].atom) = rest[m].is_positive
  BY <1>4, <1>7
<1>9. rest[m].atom \in Atoms(c)
  BY <1>4
<1>10. /\ m \in DOMAIN r /\ r[m].atom = ApplySubstitution(s, rest[m].atom)
       /\ r[m].is_positive = rest[m].is_positive
  BY <1>1, <1>3, <1>4, ApplyToTyped
<1> QED BY <1>5, <1>8, <1>9, <1>10

\* What is inferred from true clauses, by whichever rule, is true; an input is
\* true by assumption.
LEMMA InferenceSound ==
  ASSUME TypeOK, StoredSure, NEW ids \in SUBSET DOMAIN clauses,
         NEW I \in Interpretation, \A id \in ids : Satisfies(I, Literals(id)),
         NEW c, InferredFrom(c, ids), c.rule = "kInput" => Satisfies(I, c.literals)
  PROVE  Satisfies(I, c.literals)
<1>1. CASE c.rule = "kInput"
  BY <1>1
<1>2. CASE c.rule = "kResolution"
  <2>1. /\ c.parent1 \in ids /\ c.parent2 \in ids
        /\ \E i \in DOMAIN Literals(c.parent1), j \in DOMAIN Literals(c.parent2),
              n \in 0..(CounterMod - 1) :
             c.literals \in resolve(Literals(c.parent1), i, Literals(c.parent2), j, n)
    BY <1>2 DEF InferredFrom
  <2>2. /\ Literals(c.parent1) \in Seq(Literal) /\ Literals(c.parent2) \in Seq(Literal)
        /\ OccursCheck \/ (/\ Atoms(Literals(c.parent1)) \subseteq Ground
                           /\ Atoms(Literals(c.parent2)) \subseteq Ground)
    BY <2>1, LiteralsTyped DEF StoredSure
  <2> QED BY <2>1, <2>2, ResolveSound
<1>3. CASE c.rule = "kFactoring"
  <2>1. /\ c.parent1 \in ids
        /\ \E i, j \in DOMAIN Literals(c.parent1) :
             i < j /\ c.literals \in factor(Literals(c.parent1), i, j)
    BY <1>3 DEF InferredFrom
  <2>2. /\ Literals(c.parent1) \in Seq(Literal)
        /\ OccursCheck \/ Atoms(Literals(c.parent1)) \subseteq Ground
    BY <2>1, LiteralsTyped DEF StoredSure
  <2> QED BY <2>1, <2>2, FactorSound
<1> QED BY <1>1, <1>2, <1>3 DEF InferredFrom

\* Storing one inferred clause.
LEMMA SoundStored ==
  ASSUME TypeOK, StoredSure, ProvenanceInv, Sound, new_clauses # <<>>, NEW nc \in Clause,
         clauses' = Append(clauses, nc),
         nc.literals = Head(new_clauses).literals, nc.rule = Head(new_clauses).rule,
         nc.parent1 = Head(new_clauses).parent1, nc.parent2 = Head(new_clauses).parent2
  PROVE  Sound'
<1>1. PICK n \in Nat :
        /\ n = Len(clauses) /\ DOMAIN clauses = 1..n /\ DOMAIN clauses' = 1..(n + 1)
        /\ \A id \in DOMAIN clauses : clauses'[id] = clauses[id]
        /\ clauses'[n + 1] = nc
  BY StoreAppend DEF TypeOK
<1>2. InferredFrom(nc, DOMAIN clauses)
  <2>1. 1 \in DOMAIN new_clauses /\ Head(new_clauses) = new_clauses[1]
    BY HeadNew DEF TypeOK
  <2>2. InferredFrom(Head(new_clauses), DOMAIN clauses)
    BY <2>1 DEF ProvenanceInv, NewInferred
  <2> QED BY <2>2 DEF InferredFrom
<1> SUFFICES ASSUME NEW I \in Interpretation, SatisfiesInputs(I)',
                    NEW id \in 1..(n + 1)
             PROVE  Satisfies(I, clauses'[id].literals)
  BY <1>1 DEF Sound, Satisfies, Literals
<1>3. \A k \in 1..n : Satisfies(I, Literals(k))
  <2>1. SatisfiesInputs(I)
    BY <1>1 DEF SatisfiesInputs, Satisfies, Literals
  <2> QED BY <1>1, <2>1 DEF Sound
<1>4. nc.rule = "kInput" => Satisfies(I, nc.literals)
  BY <1>1 DEF SatisfiesInputs, Satisfies, Literals
<1>5. Satisfies(I, nc.literals)
  BY <1>1, <1>2, <1>3, <1>4, InferenceSound
<1>6. id \in 1..n \/ id = n + 1
  OBVIOUS
<1> QED BY <1>1, <1>3, <1>5, <1>6 DEF Literals

\* Adding inputs: they are true by assumption, and the assumption is stronger.
LEMMA SoundAdd ==
  ASSUME TypeOK, Sound, NEW batch \in Batches, addClauses(batch)
  PROVE  Sound'
<1>1. PICK n \in Nat, m \in Nat :
           /\ n = Len(clauses) /\ DOMAIN clauses = 1..n /\ DOMAIN clauses' = 1..(n + m)
           /\ \A id \in 1..n : clauses'[id] = clauses[id]
           /\ unprocessed' = unprocessed \cup {n + k : k \in 1..m}
           /\ \A k \in 1..m : \E lits \in Seq(Literal) : clauses'[n + k] = InputClause(lits)
  BY StoreAdd
<1> SUFFICES ASSUME NEW I \in Interpretation, SatisfiesInputs(I)',
                    NEW id \in 1..(n + m)
             PROVE  Satisfies(I, clauses'[id].literals)
  BY <1>1 DEF Sound, Satisfies, Literals
<1>2. CASE id \in 1..n
  <2>1. SatisfiesInputs(I)
    BY <1>1 DEF SatisfiesInputs, Satisfies, Literals
  <2>2. Satisfies(I, Literals(id))
    BY <1>1, <1>2, <2>1 DEF Sound
  <2> QED BY <1>1, <1>2, <2>2 DEF Literals
<1>3. CASE id \in (n + 1)..(n + m)
  <2>1. id - n \in 1..m /\ n + (id - n) = id
    BY <1>3
  <2>2. PICK lits \in Seq(Literal) : clauses'[id] = InputClause(lits)
    BY <1>1, <2>1
  <2>3. clauses'[id].rule = "kInput"
    BY <2>2 DEF InputClause
  <2> QED BY <1>1, <2>3 DEF SatisfiesInputs, Satisfies, Literals
<1> QED BY <1>2, <1>3

\* Every step stores consequences of the inputs only.
LEMMA SoundNext ==
  ASSUME TypeOK, StoredSure, ProvenanceInv, Sound, [Next]_vars
  PROVE  Sound'
<1>1. CASE \E batch \in Batches : addClauses(batch)
  BY <1>1, SoundAdd
<1>2. CASE UNCHANGED clauses
  BY <1>2 DEF Sound, SatisfiesInputs, Satisfies, Literals
<1>3. CASE DeriveEmpty
  <2>1. new_clauses # <<>> /\ clauses' = Append(clauses, Head(new_clauses))
    BY <1>3 DEF DeriveEmpty
  <2> QED BY <2>1, HeadNew, SoundStored
<1>4. CASE StoreNewClause
  <2>1. new_clauses # <<>>
    BY <1>4 DEF StoreNewClause
  <2> QED BY <1>4, <2>1, StoredNewClause, SoundStored
<1>5. CASE DiscardTautology \/ \E t \in todo : GenerateResolvent(t) \/ GenerateFactor(t)
  BY <1>2, <1>5 DEF DiscardTautology, GenerateResolvent, GenerateFactor, store
<1> QED BY <1>1, <1>2, <1>3, <1>4, <1>5, OtherStepsKeep
        DEF Next, ProverStep, CallerStep, LoopHead, Generate, Process

\* Soundness of the search: with the occurs check on, or on a problem without
\* variables (and then with the default configuration too), every clause it has
\* ever stored follows from the input clauses.
THEOREM Soundness ==
  ASSUME OccursCheck \/ GroundProblem
  PROVE  Spec => []Sound
<1>1. Init => Sound
  <2> SUFFICES ASSUME Init PROVE Sound
    OBVIOUS
  <2>1. DOMAIN clauses = {}
    BY DEF Init
  <2> QED BY <2>1 DEF Sound
<1>2. Init => ProvenanceInv
  <2> SUFFICES ASSUME Init PROVE ProvenanceInv
    OBVIOUS
  <2>1. DOMAIN clauses = {} /\ DOMAIN new_clauses = {}
    BY DEF Init
  <2> QED BY <2>1 DEF ProvenanceInv, Provenance, NewInferred
<1>3. TypeOK /\ ProvenanceInv /\ [Next]_vars => ProvenanceInv'
  BY ProvenanceNext
<1>4. TypeOK /\ StoredSure /\ ProvenanceInv /\ Sound /\ [Next]_vars => Sound'
  BY SoundNext
<1> QED BY <1>1, <1>2, <1>3, <1>4, TypeCorrect, StaysSure, PTL DEF Spec

-----------------------------------------------------------------------------
(* Derivations.  Sound speaks of all the inputs; a printed proof has only    *)
(* some of them.  So the same is said of every set of clauses that contains  *)
(* the premises of its own.                                                  *)

Derivation(D) == \A id \in D : InferredFrom(clauses[id], D)

SatisfiesInputsOf(I, D) ==
  \A id \in D : clauses[id].rule = "kInput" => Satisfies(I, Literals(id))

DerivationsSound ==
  \A D \in SUBSET DOMAIN clauses : Derivation(D) =>
    \A I \in Interpretation : SatisfiesInputsOf(I, D) =>
      \A id \in D : Satisfies(I, Literals(id))

\* What was stored before names none of the clauses stored since.
LEMMA OlderDerivation ==
  ASSUME TypeOK, Provenance, NEW n \in Nat, DOMAIN clauses = 1..n,
         \A id \in 1..n : clauses'[id] = clauses[id],
         NEW D \in SUBSET DOMAIN clauses', Derivation(D)'
  PROVE  Derivation(D \cap 1..n)
<1> SUFFICES ASSUME NEW id \in D \cap 1..n
             PROVE  InferredFrom(clauses[id], D \cap 1..n)
  BY DEF Derivation
<1>1. PICK c : c = clauses[id] /\ c = clauses'[id]
  OBVIOUS
<1>2. InferredFrom(c, 1..(id - 1))
  BY <1>1 DEF Provenance
<1>3. /\ c.rule = "kResolution" => c.parent1 \in D /\ c.parent2 \in D
      /\ c.rule = "kFactoring" => c.parent1 \in D
  BY <1>1 DEF Derivation, InferredFrom
<1>4. 1..(id - 1) \subseteq 1..n
  OBVIOUS
<1>5. QED
  BY <1>1, <1>2, <1>3, <1>4 DEF InferredFrom

\* Storing one inferred clause.
LEMMA DerivationsStored ==
  ASSUME TypeOK, StoredSure, ProvenanceInv, DerivationsSound, new_clauses # <<>>, NEW nc \in Clause,
         clauses' = Append(clauses, nc),
         nc.literals = Head(new_clauses).literals, nc.rule = Head(new_clauses).rule,
         nc.parent1 = Head(new_clauses).parent1, nc.parent2 = Head(new_clauses).parent2
  PROVE  DerivationsSound'
<1>1. PICK n \in Nat :
        /\ n = Len(clauses) /\ DOMAIN clauses = 1..n /\ DOMAIN clauses' = 1..(n + 1)
        /\ \A id \in 1..n : clauses'[id] = clauses[id]
        /\ clauses'[n + 1] = nc
  BY StoreAppend DEF TypeOK
<1>2. InferredFrom(nc, 1..n)
  <2>1. 1 \in DOMAIN new_clauses /\ Head(new_clauses) = new_clauses[1]
    BY HeadNew DEF TypeOK
  <2>2. InferredFrom(Head(new_clauses), DOMAIN clauses)
    BY <2>1 DEF ProvenanceInv, NewInferred
  <2> QED BY <1>1, <2>2 DEF InferredFrom
<1> SUFFICES ASSUME NEW D \in SUBSET (1..(n + 1)), Derivation(D)',
                    NEW I \in Interpretation, SatisfiesInputsOf(I, D)',
                    NEW id \in D
             PROVE  Satisfies(I, clauses'[id].literals)
  BY <1>1 DEF DerivationsSound, Satisfies, Literals
<1> DEFINE older == D \cap 1..n
<1>3. older \in SUBSET DOMAIN clauses /\ Derivation(older)
  BY <1>1, OlderDerivation DEF ProvenanceInv
<1>4. SatisfiesInputsOf(I, older)
  BY <1>1 DEF SatisfiesInputsOf, Satisfies, Literals
<1>5. \A k \in older : Satisfies(I, Literals(k))
  BY <1>3, <1>4 DEF DerivationsSound
<1>6. CASE id \in 1..n
  BY <1>1, <1>5, <1>6 DEF Literals
<1>7. CASE id = n + 1
  <2>1. /\ nc.rule = "kResolution" => nc.parent1 \in older /\ nc.parent2 \in older
        /\ nc.rule = "kFactoring" => nc.parent1 \in older
    BY <1>1, <1>2, <1>7 DEF Derivation, InferredFrom
  <2>2. InferredFrom(nc, older)
    BY <1>2, <2>1 DEF InferredFrom
  <2>3. nc.rule = "kInput" => Satisfies(I, nc.literals)
    BY <1>1, <1>7 DEF SatisfiesInputsOf, Satisfies, Literals
  <2>4. Satisfies(I, nc.literals)
    BY <1>3, <1>5, <2>2, <2>3, InferenceSound
  <2> QED BY <1>1, <1>7, <2>4
<1>8. id \in 1..n \/ id = n + 1
  OBVIOUS
<1> QED BY <1>6, <1>7, <1>8

\* Adding inputs.
LEMMA DerivationsAdd ==
  ASSUME TypeOK, Provenance, DerivationsSound, NEW batch \in Batches, addClauses(batch)
  PROVE  DerivationsSound'
<1>1. PICK n \in Nat, m \in Nat :
           /\ n = Len(clauses) /\ DOMAIN clauses = 1..n /\ DOMAIN clauses' = 1..(n + m)
           /\ \A id \in 1..n : clauses'[id] = clauses[id]
           /\ unprocessed' = unprocessed \cup {n + k : k \in 1..m}
           /\ \A k \in 1..m : \E lits \in Seq(Literal) : clauses'[n + k] = InputClause(lits)
  BY StoreAdd
<1> SUFFICES ASSUME NEW D \in SUBSET (1..(n + m)), Derivation(D)',
                    NEW I \in Interpretation, SatisfiesInputsOf(I, D)',
                    NEW id \in D
             PROVE  Satisfies(I, clauses'[id].literals)
  <2>1. \A id \in 1..(n + m), I \in Interpretation :
          Satisfies(I, Literals(id))' <=> Satisfies(I, clauses'[id].literals)
    BY DEF Satisfies, Literals
  <2>2. DOMAIN clauses' = 1..(n + m)
    BY <1>1
  <2> QED BY <2>1, <2>2 DEF DerivationsSound
<1>2. CASE id \in 1..n
  <2>1. D \cap 1..n \in SUBSET DOMAIN clauses /\ Derivation(D \cap 1..n)
    BY <1>1, OlderDerivation
  <2>2. SatisfiesInputsOf(I, D \cap 1..n)
    <3> SUFFICES ASSUME NEW k \in D \cap 1..n, clauses[k].rule = "kInput"
                 PROVE  Satisfies(I, Literals(k))
      BY DEF SatisfiesInputsOf
    <3>1. clauses'[k] = clauses[k]
      BY <1>1
    <3>2. Satisfies(I, clauses'[k].literals)
      BY <3>1 DEF SatisfiesInputsOf, Satisfies, Literals
    <3> QED BY <3>1, <3>2 DEF Literals
  <2>3. Satisfies(I, Literals(id))
    BY <1>2, <2>1, <2>2 DEF DerivationsSound
  <2> QED BY <1>1, <1>2, <2>3 DEF Literals
<1>3. CASE id \in (n + 1)..(n + m)
  <2>1. id - n \in 1..m /\ n + (id - n) = id
    BY <1>3
  <2>2. PICK lits \in Seq(Literal) : clauses'[id] = InputClause(lits)
    BY <1>1, <2>1
  <2>3. clauses'[id].rule = "kInput"
    BY <2>2 DEF InputClause
  <2> QED BY <2>3 DEF SatisfiesInputsOf, Satisfies, Literals
<1> QED BY <1>2, <1>3

\* Every step keeps the derivations within the store sound.
LEMMA DerivationsNext ==
  ASSUME TypeOK, StoredSure, ProvenanceInv, DerivationsSound, [Next]_vars
  PROVE  DerivationsSound'
<1>1. CASE \E batch \in Batches : addClauses(batch)
  BY <1>1, DerivationsAdd DEF ProvenanceInv
<1>2. CASE UNCHANGED clauses
  <2>1. \A c, D : InferredFrom(c, D)' <=> InferredFrom(c, D)
    BY <1>2 DEF InferredFrom, Literals
  <2>2. \A D : Derivation(D)' <=> Derivation(D)
    BY <1>2, <2>1 DEF Derivation
  <2>3. \A I, D : SatisfiesInputsOf(I, D)' <=> SatisfiesInputsOf(I, D)
    BY <1>2 DEF SatisfiesInputsOf, Satisfies, Literals
  <2> QED BY <1>2, <2>2, <2>3 DEF DerivationsSound, Satisfies, Literals
<1>3. CASE DeriveEmpty
  <2>1. new_clauses # <<>> /\ clauses' = Append(clauses, Head(new_clauses))
    BY <1>3 DEF DeriveEmpty
  <2> QED BY <2>1, HeadNew, DerivationsStored
<1>4. CASE StoreNewClause
  <2>1. new_clauses # <<>>
    BY <1>4 DEF StoreNewClause
  <2> QED BY <1>4, <2>1, StoredNewClause, DerivationsStored
<1>5. CASE DiscardTautology \/ \E t \in todo : GenerateResolvent(t) \/ GenerateFactor(t)
  BY <1>2, <1>5 DEF DiscardTautology, GenerateResolvent, GenerateFactor, store
<1> QED BY <1>1, <1>2, <1>3, <1>4, <1>5, OtherStepsKeep
        DEF Next, ProverStep, CallerStep, LoopHead, Generate, Process

\* Every part of the store that names no premise outside it is a derivation:
\* whatever satisfies its inputs satisfies all of it, with the occurs check or
\* without variables.
THEOREM DerivationsCorrect ==
  ASSUME OccursCheck \/ GroundProblem
  PROVE  Spec => []DerivationsSound
<1>1. Init => DerivationsSound /\ ProvenanceInv
  <2> SUFFICES ASSUME Init PROVE DerivationsSound /\ ProvenanceInv
    OBVIOUS
  <2>1. DOMAIN clauses = {} /\ DOMAIN new_clauses = {}
    BY DEF Init
  <2> QED BY <2>1 DEF DerivationsSound, ProvenanceInv, Provenance, NewInferred
<1>2. TypeOK /\ ProvenanceInv /\ [Next]_vars => ProvenanceInv'
  BY ProvenanceNext
<1>3. TypeOK /\ StoredSure /\ ProvenanceInv /\ DerivationsSound /\ [Next]_vars
        => DerivationsSound'
  BY DerivationsNext
<1> QED BY <1>1, <1>2, <1>3, TypeCorrect, StaysSure, PTL DEF Spec

-----------------------------------------------------------------------------
(* The verdict *)

\* kTheorem always comes with an id, and the id is that of an empty clause.
VerdictInv ==
  /\ result = "kTheorem" => empty_clause_id # NoId
  /\ empty_clause_id # NoId => Literals(empty_clause_id) = <<>>

\* kTheorem is returned with the empty clause stored.
LEMMA VerdictNext ==
  ASSUME TypeOK, VerdictInv, [Next]_vars
  PROVE  VerdictInv'
<1>1. CASE \E batch \in Batches : addClauses(batch)
  <2>1. PICK batch \in Batches : addClauses(batch)
    BY <1>1
  <2>2. \A id \in DOMAIN clauses : clauses'[id] = clauses[id]
    BY <2>1, StoreAdd
  <2>3. UNCHANGED <<result, empty_clause_id>>
    BY <2>1 DEF addClauses
  <2> QED BY <2>2, <2>3 DEF VerdictInv, Literals, TypeOK
<1>2. CASE \E id \in unprocessed : RefuteByGiven(id)
  <2>1. PICK id \in unprocessed : RefuteByGiven(id)
    BY <1>2
  <2>2. empty_clause_id' = id /\ Literals(id) = <<>> /\ UNCHANGED clauses
    BY <2>1 DEF RefuteByGiven, store
  <2>3. id # NoId
    BY DEF TypeOK, NoId
  <2> QED BY <2>2, <2>3 DEF VerdictInv, Literals
<1>3. CASE DeriveEmpty
  <2>1. /\ Head(new_clauses) \in Clause /\ clauses' = Append(clauses, Head(new_clauses))
        /\ Head(new_clauses).literals = <<>> /\ empty_clause_id' = Len(clauses')
    BY <1>3, HeadNew DEF DeriveEmpty
  <2>2. clauses'[Len(clauses')] = Head(new_clauses) /\ Len(clauses') # NoId
    BY <2>1, StoreAppend DEF TypeOK, NoId
  <2> QED BY <2>1, <2>2 DEF VerdictInv, Literals
<1>4. CASE StoreNewClause
  <2>1. \A id \in DOMAIN clauses : clauses'[id] = clauses[id]
    BY <1>4, StoredNewClause, StoreAppend
  <2>2. UNCHANGED <<result, empty_clause_id>>
    BY <1>4 DEF StoreNewClause, caller
  <2> QED BY <2>1, <2>2 DEF VerdictInv, Literals, TypeOK
<1>5. CASE /\ UNCHANGED <<clauses, empty_clause_id>>
           /\ result' \in {result, "kSaturation", "kTimeout"}
  BY <1>5 DEF VerdictInv, Literals
<1>6. CASE DiscardTautology \/ \E t \in todo : GenerateResolvent(t) \/ GenerateFactor(t)
  BY <1>5, <1>6 DEF DiscardTautology, GenerateResolvent, GenerateFactor, store, search, caller
<1>7. CASE \/ Prove \/ Saturate \/ Timeout \/ FinishProcess \/ FinishGenerate \/ UNCHANGED vars
           \/ \E id \in unprocessed : SkipGiven(id) \/ ExpandGiven(id)
  BY <1>5, <1>7 DEF Prove, Saturate, Timeout, FinishProcess, FinishGenerate, SkipGiven,
                    ExpandGiven, store, search, caller, Return, vars
<1> QED BY <1>1, <1>2, <1>3, <1>4, <1>6, <1>7
        DEF Next, ProverStep, CallerStep, LoopHead, Generate, Process

\* Whatever the configuration, kTheorem comes with the id of a stored empty clause.
THEOREM VerdictHasEmptyClause == Spec => []VerdictInv
<1>1. Init => VerdictInv
  BY DEF Init, VerdictInv
<1>2. TypeOK /\ VerdictInv /\ [Next]_vars => VerdictInv'
  BY VerdictNext
<1> QED BY <1>1, <1>2, TypeCorrect, PTL DEF Spec

\* A Theorem verdict is right if the occurs check is on or the problem has no
\* variables: no interpretation satisfies the clauses the caller has added.  In
\* the default configuration it may be wrong of other problems.
THEOREM TheoremVerdictCorrect ==
  ASSUME OccursCheck \/ GroundProblem
  PROVE  Spec => []TheoremIsUnsatisfiable
<1>1. TypeOK /\ VerdictInv /\ Sound => TheoremIsUnsatisfiable
  <2> SUFFICES ASSUME TypeOK, VerdictInv, Sound, result = "kTheorem"
               PROVE  /\ empty_clause_id \in DOMAIN clauses
                      /\ Literals(empty_clause_id) = <<>>
                      /\ ~\E I \in Interpretation : SatisfiesInputs(I)
    BY DEF TheoremIsUnsatisfiable
  <2>1. empty_clause_id \in DOMAIN clauses /\ Literals(empty_clause_id) = <<>>
    BY DEF TypeOK, VerdictInv
  <2>2. ASSUME NEW I \in Interpretation, SatisfiesInputs(I)
        PROVE  FALSE
    <3>1. Satisfies(I, <<>>)
      BY <2>1, <2>2 DEF Sound
    <3>2. DOMAIN <<>> = {}
      OBVIOUS
    <3> QED BY <3>1, <3>2, ValuationExists DEF Satisfies, ValuationExists
  <2> QED BY <2>1, <2>2
<1> QED BY <1>1, TypeCorrect, VerdictHasEmptyClause, Soundness, PTL


-----------------------------------------------------------------------------
(* Refinement: from outside, the prover is the abstract Decision.           *)

\* addClauses adds its batch to the inputs.
LEMMA InputSetAdded ==
  ASSUME TypeOK, NEW batch \in Batches, addClauses(batch)
  PROVE  InputSet \subseteq InputSet'
<1>1. /\ \A id \in DOMAIN clauses : id \in DOMAIN clauses' /\ clauses'[id] = clauses[id]
  BY StoreAdd
<1> QED BY <1>1 DEF InputSet, Literals

\* An interpretation satisfies the input set if it satisfies the input clauses.
LEMMA ModelOfInputs == \A I \in Interpretation :
  SatisfiesInputs(I) <=> \A lits \in InputSet : Satisfies(I, lits)
BY DEF SatisfiesInputs, InputSet

\* Every step of a call that does not return is invisible, and so is storing.
LEMMA ImplementsNext ==
  ASSUME TypeOK, NewDerived, [Next]_vars,
         TheoremIsUnsatisfiable', SaturationIsSatisfiable'
  PROVE  [Verdict!Next]_<<InputSet, pc # "ready", result>>
<1>1. CASE \E batch \in Batches : addClauses(batch)
  <2>1. PICK batch \in Batches : addClauses(batch)
    BY <1>1
  <2>2. InputSet \subseteq InputSet' /\ pc = "ready" /\ UNCHANGED <<pc, result>>
    BY <2>1, InputSetAdded DEF addClauses
  <2> QED BY <2>2 DEF Verdict!Next, Verdict!Give
<1>2. ASSUME UNCHANGED clauses
      PROVE  InputSet' = InputSet
  BY <1>2 DEF InputSet, Literals
<1>3. CASE Prove
  <2>1. UNCHANGED <<clauses, result>> /\ pc = "ready" /\ pc' = "select"
    BY <1>3 DEF Prove, store
  <2> QED BY <1>2, <2>1 DEF Verdict!Next, Verdict!Ask
<1>4. CASE Saturate
  <2>1. /\ UNCHANGED <<clauses, unprocessed>> /\ pc = "select" /\ pc' = "ready"
        /\ unprocessed = {} /\ result' = "kSaturation"
    BY <1>4 DEF Saturate, store, search, Return
  <2>2. \E I \in Interpretation : SatisfiesInputs(I)'
    BY <2>1 DEF SaturationIsSatisfiable
  <2>3. HasModel(InputSet)
    <3>1. PICK I \in Interpretation : SatisfiesInputs(I)'
      BY <2>2
    <3>2. SatisfiesInputs(I)
      BY <2>1, <3>1 DEF SatisfiesInputs, Literals
    <3> QED BY <3>2, ModelOfInputs DEF HasModel
  <2> QED BY <1>2, <2>1, <2>3 DEF Verdict!Next, Verdict!Answer
<1>5. CASE Timeout
  <2>1. UNCHANGED clauses /\ pc = "select" /\ pc' = "ready" /\ result' = "kTimeout"
    BY <1>5 DEF Timeout, store, Return
  <2> QED BY <1>2, <2>1 DEF Verdict!Next, Verdict!Answer
<1>6. ASSUME pc # "ready", pc' = "ready", result' = "kTheorem", InputSet' = InputSet
      PROVE  Verdict!Next
  <2>1. ~HasModel(InputSet)
    <3> SUFFICES ASSUME NEW I \in Interpretation, \A lits \in InputSet : Satisfies(I, lits)
                 PROVE  FALSE
      BY DEF HasModel
    <3>1. SatisfiesInputs(I)'
      <4>1. \A id \in DOMAIN clauses' :
              clauses'[id].rule = "kInput" => clauses'[id].literals \in InputSet'
        BY DEF InputSet, Literals
      <4> QED BY <1>6, <4>1 DEF SatisfiesInputs, Satisfies, Literals
    <3> QED BY <1>6, <3>1 DEF TheoremIsUnsatisfiable
  <2> QED BY <1>6, <2>1 DEF Verdict!Next, Verdict!Answer
<1>7. CASE \E id \in unprocessed : RefuteByGiven(id)
  <2>1. UNCHANGED clauses /\ pc = "select" /\ pc' = "ready" /\ result' = "kTheorem"
    BY <1>7 DEF RefuteByGiven, popGivenClause, store, Return
  <2> QED BY <1>2, <1>6, <2>1
<1>8. CASE DeriveEmpty
  <2>1. /\ new_clauses # <<>> /\ clauses' = Append(clauses, Head(new_clauses))
        /\ pc = "process" /\ pc' = "ready" /\ result' = "kTheorem"
    BY <1>8 DEF DeriveEmpty, Return
  <2>2. Head(new_clauses) \in Clause /\ Head(new_clauses).rule # "kInput"
    BY <2>1, HeadNew DEF NewDerived, TypeOK
  <2> QED BY <1>6, <2>1, <2>2, InputSetStored
<1>9. CASE StoreNewClause
  <2>1. PICK nc \in Clause :
          clauses' = Append(clauses, nc) /\ nc.rule = Head(new_clauses).rule
    BY <1>9, StoredNewClause
  <2>2. Head(new_clauses).rule # "kInput" /\ UNCHANGED <<pc, result>>
    BY <1>9, HeadNew DEF StoreNewClause, NewDerived, TypeOK, caller
  <2> QED BY <2>1, <2>2, InputSetStored
<1>10. CASE /\ UNCHANGED <<clauses, result>>
            /\ pc # "ready" /\ pc' # "ready"
  BY <1>2, <1>10
<1>11. CASE UNCHANGED vars
  BY <1>2, <1>11 DEF vars
<1>12. CASE \E id \in unprocessed : SkipGiven(id) \/ ExpandGiven(id)
  BY <1>10, <1>12 DEF SkipGiven, ExpandGiven, popGivenClause, store, caller
<1>13. CASE Generate \/ DiscardTautology \/ FinishProcess
  BY <1>10, <1>13 DEF Generate, FinishGenerate, GenerateResolvent, GenerateFactor,
                      DiscardTautology, FinishProcess, store, caller
<1> QED BY <1>1, <1>3, <1>4, <1>5, <1>7, <1>8, <1>9, <1>11, <1>12, <1>13
        DEF Next, ProverStep, CallerStep, LoopHead, Process

\* With the occurs check on, or without variables, the prover implements the
\* abstract Decision, given what the runs check of its saturation: whatever calls
\* are made, and however those before ended, a Theorem or Saturation verdict is
\* true of the clauses given by then.
THEOREM RefinesDecision ==
  ASSUME OccursCheck \/ GroundProblem
  PROVE  Spec /\ []SaturationIsSatisfiable => ImplementsDecision
<1>1. Init => Verdict!Init
  <2> SUFFICES ASSUME Init PROVE Verdict!Init
    OBVIOUS
  <2>1. DOMAIN clauses = {}
    BY DEF Init
  <2> QED BY <2>1 DEF Init, InputSet, Verdict!Init
<1>2. Init => NewDerived
  <2> SUFFICES ASSUME Init PROVE NewDerived
    OBVIOUS
  <2>1. DOMAIN new_clauses = {}
    BY DEF Init
  <2> QED BY <2>1 DEF NewDerived
<1>3. TypeOK /\ NewDerived /\ [Next]_vars => NewDerived'
  BY NewDerivedNext
<1>4. TypeOK /\ NewDerived /\ [Next]_vars /\ TheoremIsUnsatisfiable' /\ SaturationIsSatisfiable'
        => [Verdict!Next]_<<InputSet, pc # "ready", result>>
  BY ImplementsNext
<1> QED BY <1>1, <1>2, <1>3, <1>4, TypeCorrect, TheoremVerdictCorrect, PTL
        DEF Spec, ImplementsDecision, Verdict!Spec

-----------------------------------------------------------------------------
(***************************************************************************)
(* The invariant of the given-clause loop, SearchLosesNothing.  A clause   *)
(* may leave the queue or the processed set only if it is a tautology or a *)
(* clause that stays subsumes it; subsumption is transitive and            *)
(* tautologies are closed under it; so whatever was redundant stays        *)
(* redundant, and each step adds what it has to cover.                     *)
(***************************************************************************)

\* An inference has one conclusion at most.
LEMMA OneConclusion ==
  ASSUME NEW c1, NEW i, NEW c2, NEW j, NEW n
  PROVE  /\ \A a, b \in resolve(c1, i, c2, j, n) : a = b
         /\ \A a, b \in factor(c1, i, j) : a = b
BY DEF resolve, factor

\* The ids that take part in the search are in the store.
LEMMA ActiveTyped ==
  ASSUME TypeOK
  PROVE  Active \subseteq DOMAIN clauses
<1>1. \A k \in Live : processed[k] \in DOMAIN clauses
  BY DEF TypeOK, Live
<1> QED BY <1>1 DEF TypeOK, Active, InFlight, NoId

\* If each clause that leaves the search is a tautology or subsumed by one that
\* stays, then nothing redundant stops being so.
LEMMA RedundancyKept ==
  ASSUME TypeOK, TypeOK',
         \A id \in DOMAIN clauses : Literals(id)' = Literals(id),
         \A id \in Active :
           \/ isTautology(Literals(id))
           \/ \E other \in Active' : subsumes(Literals(other)', Literals(id)),
         NEW lits \in Seq(Literal), Redundant(lits)
  PROVE  Redundant(lits)'
<1>1. CASE isTautology(lits)
  BY <1>1 DEF Redundant
<1>2. CASE ~isTautology(lits)
  <2>1. PICK id \in Active : subsumes(Literals(id), lits)
    BY <1>2 DEF Redundant
  <2>2. id \in DOMAIN clauses /\ Literals(id) \in Seq(Literal)
    BY ActiveTyped, LiteralsTyped
  <2>3. ~isTautology(Literals(id))
    BY <1>2, <2>1, <2>2, TautologyUpward
  <2>4. PICK other \in Active' : subsumes(Literals(other)', Literals(id))
    BY <2>3
  <2>5. Literals(other)' \in Seq(Literal)
    <3>1. other \in DOMAIN clauses'
      <4>1. \A k \in Live' : processed'[k] \in DOMAIN clauses'
        BY DEF TypeOK, Live
      <4> QED BY <4>1 DEF TypeOK, Active, InFlight, NoId
    <3>2. clauses' \in Seq(Clause)
      BY DEF TypeOK
    <3> QED BY <3>1, <3>2, ClauseFields DEF Literals
  <2>6. subsumes(Literals(other)', lits)
    BY <2>1, <2>2, <2>4, <2>5, SubsumesTransitive
  <2> QED BY <2>6 DEF Redundant
<1> QED BY <1>1, <1>2

\* The same of a clause that new_clauses still has to deliver.
LEMMA CoveredKept ==
  ASSUME NEW lits \in Seq(Literal), Covered(lits),
         Redundant(lits) => Redundant(lits)',
         \A k \in DOMAIN new_clauses :
           \/ \E m \in DOMAIN new_clauses' : new_clauses'[m].literals = new_clauses[k].literals
           \/ new_clauses[k].literals = lits => Redundant(lits)'
  PROVE  Covered(lits)'
BY DEF Covered

\* Hence of all inferences from two clauses, or from one.
LEMMA InferencesKept ==
  ASSUME NEW a \in Seq(Literal), NEW b \in Seq(Literal),
         \A lits \in Seq(Literal) : Covered(lits) => Covered(lits)'
  PROVE  /\ ResolventsCovered(a, b) => ResolventsCovered(a, b)'
         /\ FactorsCovered(a) => FactorsCovered(a)'
<1>1. ASSUME ResolventsCovered(a, b), NEW ij \in ComplementaryPairs(a, b)
      PROVE  \E n \in 0..(CounterMod - 1) :
               \A r \in resolve(a, ij[1], b, ij[2], n) : Covered(r)'
  <2>1. PICK n \in 0..(CounterMod - 1) : \A r \in resolve(a, ij[1], b, ij[2], n) : Covered(r)
    BY <1>1 DEF ResolventsCovered
  <2>2. ij[1] \in DOMAIN a /\ ij[2] \in DOMAIN b
    BY DEF ComplementaryPairs
  <2>3. resolve(a, ij[1], b, ij[2], n) \in SUBSET Seq(Literal)
    BY <2>2, ResolveTyped
  <2> QED BY <2>1, <2>3
<1>2. ASSUME FactorsCovered(a), NEW ij \in FactorPairs(a), NEW r \in factor(a, ij[1], ij[2])
      PROVE  Covered(r)'
  <2>1. ij[1] \in DOMAIN a /\ ij[2] \in DOMAIN a
    BY DEF FactorPairs
  <2>2. r \in Seq(Literal)
    BY <2>1, FactorTyped
  <2> QED BY <1>2, <2>2 DEF FactorsCovered
<1> QED BY <1>1, <1>2 DEF ResolventsCovered, FactorsCovered

\* So the processed clauses stay closed under inference when some are erased.
LEMMA ProcessedKept ==
  ASSUME TypeOK, ProcessedCovered,
         \A lits \in Seq(Literal) : Covered(lits) => Covered(lits)',
         Live' \subseteq Live,
         \A k \in Live' : processed'[k] = processed[k],
         \A id \in DOMAIN clauses : Literals(id)' = Literals(id)
  PROVE  ProcessedCovered'
<1>1. \A k \in Live : processed[k] \in DOMAIN clauses
  BY DEF TypeOK, Live
<1>2. \A k \in Live : Literals(processed[k]) \in Seq(Literal)
  BY <1>1, LiteralsTyped
<1>3. \A k \in Live' : Literals(processed[k])' = Literals(processed[k])
  BY <1>1 DEF Literals
<1>4. ASSUME NEW k \in Live', NEW l \in Live', k # l
      PROVE  ResolventsCovered(Literals(processed[k]), Literals(processed[l]))'
  <2>1. PICK a \in Seq(Literal) : a = Literals(processed[k]) /\ a = Literals(processed[k])'
    BY <1>2, <1>3
  <2>2. PICK b \in Seq(Literal) : b = Literals(processed[l]) /\ b = Literals(processed[l])'
    BY <1>2, <1>3
  <2>3. ResolventsCovered(a, b)
    BY <1>4, <2>1, <2>2 DEF ProcessedCovered
  <2>4. ResolventsCovered(a, b)'
    BY <2>3, InferencesKept
  <2> QED BY <2>1, <2>2, <2>4 DEF ResolventsCovered, Covered, Redundant
<1>5. ASSUME NEW k \in Live'
      PROVE  FactorsCovered(Literals(processed[k]))'
  <2>1. PICK a \in Seq(Literal) : a = Literals(processed[k]) /\ a = Literals(processed[k])'
    BY <1>2, <1>3
  <2>2. FactorsCovered(a)
    BY <2>1 DEF ProcessedCovered
  <2>3. FactorsCovered(a)'
    BY <2>2, InferencesKept
  <2> QED BY <2>1, <2>3 DEF FactorsCovered, Covered, Redundant
<1> QED BY <1>4, <1>5 DEF ProcessedCovered

-----------------------------------------------------------------------------
(* One lemma per kind of step.  LosesNothing is SearchLosesNothing without   *)
(* its condition, so that a step that finds an empty clause needs no care.   *)

LosesNothing == StoredCovered /\ ProcessedCovered /\ GivenCovered

\* Where only the caller or the loop's position moves, nothing is lost.
LEMMA KeptOutside ==
  ASSUME TypeOK, TypeOK', LosesNothing, pc # "generate", pc' # "generate",
         UNCHANGED <<clauses, unprocessed, processed, erased, new_clauses>>
  PROVE  LosesNothing'
<1>1. Active' = Active
  BY DEF Active, InFlight, Live
<1>2. \A id : Literals(id)' = Literals(id)
  BY DEF Literals
<1>3. \A lits : Redundant(lits)' <=> Redundant(lits)
  BY <1>1, <1>2 DEF Redundant
<1>4. \A lits : Covered(lits)' <=> Covered(lits)
  BY <1>3 DEF Covered
<1>5. StoredCovered'
  BY <1>2, <1>3 DEF LosesNothing, StoredCovered, Redundant, Active, InFlight, Live, Literals
<1>6. ProcessedCovered'
  BY <1>2, <1>4, ProcessedKept DEF LosesNothing, Live
<1>7. GivenCovered'
  BY DEF GivenCovered
<1> QED BY <1>5, <1>6, <1>7 DEF LosesNothing

\* An input that is added is queued.
LEMMA KeptAdd ==
  ASSUME TypeOK, TypeOK', LosesNothing, NEW batch \in Batches, addClauses(batch)
  PROVE  LosesNothing'
<1>1. PICK n \in Nat, m \in Nat :
           /\ n = Len(clauses) /\ DOMAIN clauses = 1..n /\ DOMAIN clauses' = 1..(n + m)
           /\ \A id \in 1..n : clauses'[id] = clauses[id]
           /\ unprocessed' = unprocessed \cup {n + k : k \in 1..m}
           /\ \A k \in 1..m : \E lits \in Seq(Literal) : clauses'[n + k] = InputClause(lits)
  BY StoreAdd
<1>2. pc = "ready" /\ pc' = "ready" /\ UNCHANGED <<processed, erased, new_clauses>>
  BY DEF addClauses
<1>3. \A id \in DOMAIN clauses : Literals(id)' = Literals(id) /\ Literals(id) \in Seq(Literal)
  BY <1>1, LiteralsTyped DEF Literals
<1>4. Active \subseteq Active'
  BY <1>1, <1>2 DEF Active, InFlight, Live
<1>5. \A lits \in Seq(Literal) : Redundant(lits) => Redundant(lits)'
  <2>1. \A id \in Active : \E other \in Active' : subsumes(Literals(other)', Literals(id))
    BY <1>3, <1>4, ActiveTyped, SubsumesReflexive
  <2> QED BY <1>3, <2>1, RedundancyKept
<1>6. \A lits \in Seq(Literal) : Covered(lits) => Covered(lits)'
  BY <1>2, <1>5, CoveredKept
<1>7. ASSUME NEW id \in DOMAIN clauses'
      PROVE  Redundant(Literals(id))'
  <2>1. CASE id \in 1..n
    <3>1. PICK lits \in Seq(Literal) : lits = Literals(id) /\ lits = Literals(id)'
      BY <1>1, <1>3, <2>1
    <3>2. Redundant(lits)'
      BY <1>1, <1>5, <2>1, <3>1 DEF LosesNothing, StoredCovered
    <3> QED BY <3>1, <3>2 DEF Redundant
  <2>2. CASE id \in (n + 1)..(n + m)
    <3>1. id - n \in 1..m /\ n + (id - n) = id
      BY <2>2
    <3>2. PICK lits \in Seq(Literal) : clauses'[id] = InputClause(lits)
      BY <1>1, <3>1
    <3>3. id \in Active' /\ Literals(id)' = lits
      BY <1>1, <3>1, <3>2 DEF Active, Literals, InputClause
    <3> QED BY <3>3, SubsumesReflexive DEF Redundant
  <2> QED BY <1>1, <2>1, <2>2
<1>8. StoredCovered'
  BY <1>7 DEF StoredCovered
<1>9. ProcessedCovered'
  BY <1>2, <1>3, <1>6, ProcessedKept DEF LosesNothing, Live
<1>10. GivenCovered'
  BY <1>2 DEF GivenCovered
<1> QED BY <1>8, <1>9, <1>10 DEF LosesNothing

\* Popping the given clause, and erasing what it subsumes.
LEMMA KeptPop ==
  ASSUME TypeOK, TypeOK', LosesNothing, NEW id \in unprocessed, SkipGiven(id) \/ ExpandGiven(id)
  PROVE  LosesNothing'
<1>1. /\ UNCHANGED <<clauses, processed, new_clauses>>
      /\ unprocessed' = unprocessed \ {id} /\ given' = id
      /\ pc = "select" /\ new_clauses = <<>>
  BY DEF SkipGiven, ExpandGiven, popGivenClause, store, TypeOK
<1>2. \A c \in DOMAIN clauses : Literals(c)' = Literals(c) /\ Literals(c) \in Seq(Literal)
  BY <1>1, LiteralsTyped DEF Literals
<1>3. id \in DOMAIN clauses /\ Active \subseteq DOMAIN clauses
  BY ActiveTyped DEF TypeOK
<1>4. Live' \subseteq Live
  BY <1>1 DEF SkipGiven, ExpandGiven, Live
<1>5. ASSUME NEW c \in Active
      PROVE  \/ isTautology(Literals(c))
             \/ \E other \in Active' : subsumes(Literals(other)', Literals(c))
  <2>1. CASE SkipGiven(id)
    <3>1. Live' = Live /\ InFlight = {} /\ InFlight' = {}
      BY <1>1, <2>1 DEF SkipGiven, Live, InFlight
    <3>2. Active = Active' \cup {id}
      BY <1>1, <3>1 DEF Active
    <3>3. CASE c \in Active'
      BY <1>2, <1>3, <3>3, SubsumesReflexive
    <3>4. CASE c = id /\ ~isTautology(Literals(id))
      <4>1. PICK k \in Live : subsumes(Literals(processed[k]), Literals(id))
        BY <2>1, <3>4 DEF SkipGiven, shouldSkipGiven, isForwardSubsumedByProcessed
      <4>2. processed[k] \in Active' /\ processed[k] \in Active
        BY <1>1, <3>1, <4>1 DEF Active
      <4> QED BY <1>2, <1>3, <3>4, <4>1, <4>2
    <3> QED BY <3>2, <3>3, <3>4
  <2>2. CASE ExpandGiven(id)
    <3>1. /\ Live' = Live \ BackwardSubsumed(Literals(id)) /\ InFlight' = {id} /\ InFlight = {}
      BY <1>1, <2>2 DEF ExpandGiven, Live, InFlight
    <3>2. id \in Active'
      BY <3>1 DEF Active
    <3>3. CASE c \in Active'
      BY <1>2, <1>3, <3>3, SubsumesReflexive
    <3>4. CASE \E k \in BackwardSubsumed(Literals(id)) : c = processed[k]
      <4>1. subsumes(Literals(id), Literals(c))
        BY <3>4 DEF BackwardSubsumed
      <4> QED BY <1>2, <1>3, <3>2, <4>1
    <3>5. c \in Active' \/ \E k \in BackwardSubsumed(Literals(id)) : c = processed[k]
      BY <1>1, <3>1 DEF Active
    <3> QED BY <3>3, <3>4, <3>5
  <2> QED BY <2>1, <2>2
<1>6. \A lits \in Seq(Literal) : Redundant(lits) => Redundant(lits)'
  BY <1>2, <1>5, RedundancyKept
<1>7. \A lits \in Seq(Literal) : Covered(lits) => Covered(lits)'
  BY <1>1, <1>6, CoveredKept
<1>8. StoredCovered'
  <2> SUFFICES ASSUME NEW c \in DOMAIN clauses
               PROVE  Redundant(Literals(c))'
    BY <1>1 DEF StoredCovered
  <2>1. PICK lits \in Seq(Literal) : lits = Literals(c) /\ lits = Literals(c)'
    BY <1>2
  <2>2. Redundant(lits)'
    BY <1>6, <2>1 DEF LosesNothing, StoredCovered
  <2> QED BY <2>1, <2>2 DEF Redundant
<1>9. ProcessedCovered'
  BY <1>1, <1>2, <1>4, <1>7, ProcessedKept DEF LosesNothing
<1>10. GivenCovered'
  <2>1. CASE SkipGiven(id)
    BY <1>1, <2>1 DEF SkipGiven, GivenCovered
  <2>2. CASE ExpandGiven(id)
    <3>1. /\ todo' = Resolutions(id, Live \ BackwardSubsumed(Literals(id))) \cup Factorings(id)
          /\ Live' = Live \ BackwardSubsumed(Literals(id))
      BY <1>1, <2>2 DEF ExpandGiven, Live
    <3>2. todo' = Resolutions(given, Live)' \cup Factorings(given)'
      BY <1>1, <3>1 DEF Resolutions, Factorings, Literals, FactorRank
    <3> QED BY <3>2 DEF GivenCovered
  <2> QED BY <2>1, <2>2
<1> QED BY <1>8, <1>9, <1>10 DEF LosesNothing

\* What one inference yields is appended to new_clauses.
LEMMA KeptGenerate ==
  ASSUME TypeOK, TypeOK', LosesNothing, NEW t \in todo,
         GenerateResolvent(t) \/ GenerateFactor(t)
  PROVE  LosesNothing'
<1>1. /\ UNCHANGED <<clauses, unprocessed, processed, erased, given, pc>>
      /\ todo' = todo \ {t} /\ pc = "generate" /\ given \in DOMAIN clauses
  BY DEF GenerateResolvent, GenerateFactor, store, search, TypeOK, NoId
<1>2. /\ \A c : Literals(c)' = Literals(c)
      /\ Active' = Active /\ Live' = Live /\ FactorRank' = FactorRank /\ FactorRank \notin Live
      /\ \A u : LeftParent(u)' = LeftParent(u) /\ RightParent(u)' = RightParent(u)
      /\ Resolutions(given, Live)' = Resolutions(given, Live)
      /\ Factorings(given)' = Factorings(given)
  BY <1>1, SMTT(40) DEF Literals, Active, InFlight, Live, FactorRank, LeftParent, RightParent,
              Resolutions, Factorings, TypeOK
<1>3. \A lits \in Seq(Literal) : Redundant(lits) => Redundant(lits)'
  BY <1>2 DEF Redundant
<1>4. new_clauses \in Seq(Clause)
  BY DEF TypeOK
<1>5. ASSUME NEW c, new_clauses' = Append(new_clauses, c)
      PROVE  /\ \A k \in DOMAIN new_clauses : \E m \in DOMAIN new_clauses' : new_clauses'[m] = new_clauses[k]
             /\ \E m \in DOMAIN new_clauses' : new_clauses'[m] = c
  <2>1. Len(new_clauses) \in Nat /\ DOMAIN new_clauses = 1..Len(new_clauses)
    BY <1>4
  <2>2. DOMAIN new_clauses' = 1..(Len(new_clauses) + 1)
    BY <1>4, <1>5
  <2>3. \A k \in DOMAIN new_clauses : new_clauses'[k] = new_clauses[k]
    BY <1>4, <1>5
  <2>4. new_clauses'[Len(new_clauses) + 1] = c
    BY <1>4, <1>5
  <2> QED BY <2>1, <2>2, <2>3, <2>4
<1>6. \A k \in DOMAIN new_clauses : \E m \in DOMAIN new_clauses' : new_clauses'[m] = new_clauses[k]
  BY <1>5 DEF GenerateResolvent, GenerateFactor
<1>7. \A lits \in Seq(Literal) : Covered(lits) => Covered(lits)'
  BY <1>3, <1>6, CoveredKept
<1>8. StoredCovered'
  BY <1>1, <1>2 DEF LosesNothing, StoredCovered, Redundant
<1>9. ProcessedCovered'
  BY <1>1, <1>2, <1>7, ProcessedKept DEF LosesNothing
<1>10. ASSUME NEW u \in Resolutions(given, Live) \ todo'
       PROVE  \E n \in 0..(CounterMod - 1) :
                \A r \in resolve(Literals(LeftParent(u)), u[3], Literals(RightParent(u)), u[4], n) :
                  Covered(r)'
  <2>1. CASE u # t
    <3>1. PICK n \in 0..(CounterMod - 1) :
            \A r \in resolve(Literals(LeftParent(u)), u[3], Literals(RightParent(u)), u[4], n) :
              Covered(r)
      BY <1>1, <1>10, <2>1 DEF LosesNothing, GivenCovered
    <3>2. /\ LeftParent(u) \in DOMAIN clauses /\ RightParent(u) \in DOMAIN clauses
          /\ u[3] \in DOMAIN Literals(LeftParent(u)) /\ u[4] \in DOMAIN Literals(RightParent(u))
      <4>1. \A k \in Live : processed[k] \in DOMAIN clauses
        BY SMTT(40) DEF TypeOK, Live
      <4>2. /\ Live \in SUBSET DOMAIN processed
            /\ u \in Resolutions(given, Live) \cup Factorings(given)
        BY <1>10 DEF Live
      <4>3. u[1] # FactorRank
        BY <1>1, <1>2, <1>10 DEF Resolutions
      <4> QED BY <1>1, <4>1, <4>2, <4>3, ExpandedTodo DEF LeftParent, RightParent
    <3>3. resolve(Literals(LeftParent(u)), u[3], Literals(RightParent(u)), u[4], n)
            \in SUBSET Seq(Literal)
      BY <3>2, LiteralsTyped, ResolveTyped
    <3> QED BY <1>7, <3>1, <3>3
  <2>2. CASE u = t
    <3>1. t[1] # FactorRank
      BY <1>1, <1>2, <1>10, <2>2 DEF Resolutions
    <3>2. GenerateResolvent(t) /\ var_counter \in 0..(CounterMod - 1)
      BY <3>1 DEF GenerateFactor, TypeOK
    <3>3. ASSUME NEW r \in resolve(Literals(LeftParent(t)), t[3], Literals(RightParent(t)), t[4],
                                   var_counter)
          PROVE  Covered(r)'
      <4>1. PICK lits \in resolve(Literals(LeftParent(t)), t[3], Literals(RightParent(t)), t[4],
                                  var_counter) :
              new_clauses' = Append(new_clauses, Resolvent(lits, LeftParent(t), RightParent(t)))
        BY <3>2, <3>3 DEF GenerateResolvent
      <4>2. lits = r
        BY <3>3, OneConclusion
      <4>3. \E m \in DOMAIN new_clauses' :
              new_clauses'[m] = Resolvent(r, LeftParent(t), RightParent(t))
        BY <1>5, <4>1, <4>2
      <4> QED BY <4>3 DEF Covered, Resolvent
    <3> QED BY <2>2, <3>2, <3>3
  <2> QED BY <2>1, <2>2
<1>11. ASSUME NEW u \in Factorings(given) \ todo',
              NEW r \in factor(Literals(given), u[3], u[4])
       PROVE  Covered(r)'
  <2>1. CASE u # t
    <3>1. Covered(r)
      BY <1>1, <1>11, <2>1 DEF LosesNothing, GivenCovered
    <3>2. u[3] \in DOMAIN Literals(given) /\ u[4] \in DOMAIN Literals(given)
      BY <1>11 DEF Factorings, FactorPairs
    <3>3. r \in Seq(Literal)
      BY <1>1, <1>11, <3>2, LiteralsTyped, FactorTyped
    <3> QED BY <1>7, <3>1, <3>3
  <2>2. CASE u = t
    <3>1. GenerateFactor(t)
      BY <1>11, <2>2 DEF Factorings, GenerateResolvent
    <3>2. PICK lits \in factor(Literals(given), t[3], t[4]) :
            new_clauses' = Append(new_clauses, Factored(lits, given))
      BY <1>11, <2>2, <3>1 DEF GenerateFactor
    <3>3. lits = r
      BY <1>11, <2>2, OneConclusion
    <3>4. \E m \in DOMAIN new_clauses' : new_clauses'[m] = Factored(r, given)
      BY <1>5, <3>2, <3>3
    <3> QED BY <3>4 DEF Covered, Factored
  <2> QED BY <2>1, <2>2
<1>12. GivenCovered'
  <2>1. \A u \in Resolutions(given, Live)' \ todo' :
          \E n \in 0..(CounterMod - 1) :
            \A r \in resolve(Literals(LeftParent(u))', u[3], Literals(RightParent(u))', u[4], n) :
              Covered(r)'
    BY <1>1, <1>2, <1>10 DEF Literals
  <2>2. \A u \in Factorings(given)' \ todo' :
          \A r \in factor(Literals(given)', u[3], u[4]) : Covered(r)'
    BY <1>1, <1>2, <1>11 DEF Literals
  <2> QED BY <2>1, <2>2 DEF GivenCovered
<1> QED BY <1>8, <1>9, <1>12 DEF LosesNothing

\* When all inferences of the given clause are made it joins the processed ones.
LEMMA KeptFinishGenerate ==
  ASSUME TypeOK, TypeOK', LosesNothing, FinishGenerate
  PROVE  LosesNothing'
<1>1. /\ UNCHANGED <<clauses, unprocessed, erased, given, new_clauses>>
      /\ pc = "generate" /\ pc' = "process" /\ todo = {}
      /\ processed' = Append(processed, given)
      /\ given \in DOMAIN clauses /\ processed \in Seq(DOMAIN clauses)
  BY DEF FinishGenerate, store, TypeOK, NoId
<1>2. PICK f \in Nat : f = FactorRank /\ f = Len(processed) + 1 /\ f \notin DOMAIN processed
  BY <1>1 DEF FactorRank
<1>3. /\ DOMAIN processed' = DOMAIN processed \cup {f}
      /\ processed'[f] = given
      /\ \A k \in DOMAIN processed : processed'[k] = processed[k]
  BY <1>1, <1>2
<1>4. Live' = Live \cup {f} /\ f \notin Live /\ Live \subseteq DOMAIN processed
  <2>1. erased \subseteq DOMAIN processed
    BY DEF TypeOK
  <2> QED BY <1>1, <1>2, <1>3, <2>1 DEF Live
<1>5. Active' = Active
  <2>1. {processed'[k] : k \in Live'} = {processed[k] : k \in Live} \cup {given}
    BY <1>3, <1>4
  <2>2. InFlight = {given} /\ InFlight' = {}
    BY <1>1 DEF InFlight
  <2> QED BY <1>1, <2>1, <2>2 DEF Active
<1>6. \A c : Literals(c)' = Literals(c)
  BY <1>1 DEF Literals
<1>7. \A lits : Redundant(lits)' <=> Redundant(lits)
  BY <1>5, <1>6 DEF Redundant
<1>8. \A lits : Covered(lits)' <=> Covered(lits)
  BY <1>1, <1>7 DEF Covered
<1>9. StoredCovered'
  BY <1>1, <1>5, <1>6 DEF LosesNothing, StoredCovered, Redundant
<1>10. \A t \in Resolutions(given, Live) :
         \E n \in 0..(CounterMod - 1) :
           \A r \in resolve(Literals(LeftParent(t)), t[3], Literals(RightParent(t)), t[4], n) :
             Covered(r)
  BY <1>1 DEF LosesNothing, GivenCovered
<1>11. ASSUME NEW k \in Live
       PROVE  /\ ResolventsCovered(Literals(given), Literals(processed[k]))
              /\ ResolventsCovered(Literals(processed[k]), Literals(given))
  <2>1. ASSUME NEW ij \in ComplementaryPairs(Literals(given), Literals(processed[k]))
        PROVE  \E n \in 0..(CounterMod - 1) :
                 \A r \in resolve(Literals(given), ij[1], Literals(processed[k]), ij[2], n) : Covered(r)
    <3> DEFINE t == <<k, 1, ij[1], ij[2]>>
    <3>1. t \in Resolutions(given, Live)
      BY DEF Resolutions
    <3>2. LeftParent(t) = given /\ RightParent(t) = processed[k] /\ t[3] = ij[1] /\ t[4] = ij[2]
      BY DEF LeftParent, RightParent
    <3> HIDE DEF t
    <3> QED BY <1>10, <3>1, <3>2
  <2>2. ASSUME NEW ij \in ComplementaryPairs(Literals(processed[k]), Literals(given))
        PROVE  \E n \in 0..(CounterMod - 1) :
                 \A r \in resolve(Literals(processed[k]), ij[1], Literals(given), ij[2], n) : Covered(r)
    <3> DEFINE t == <<k, 2, ij[1], ij[2]>>
    <3>1. t \in Resolutions(given, Live)
      BY DEF Resolutions
    <3>2. LeftParent(t) = processed[k] /\ RightParent(t) = given /\ t[3] = ij[1] /\ t[4] = ij[2]
      BY DEF LeftParent, RightParent
    <3> HIDE DEF t
    <3> QED BY <1>10, <3>1, <3>2
  <2> QED BY <2>1, <2>2 DEF ResolventsCovered
<1>12. FactorsCovered(Literals(given))
  <2> SUFFICES ASSUME NEW ij \in FactorPairs(Literals(given)),
                      NEW r \in factor(Literals(given), ij[1], ij[2])
               PROVE  Covered(r)
    BY DEF FactorsCovered
  <2> DEFINE t == <<FactorRank, 1, ij[1], ij[2]>>
  <2>1. t \in Factorings(given) /\ t[3] = ij[1] /\ t[4] = ij[2]
    BY DEF Factorings
  <2> HIDE DEF t
  <2> QED BY <1>1, <2>1 DEF LosesNothing, GivenCovered
<1>13. ASSUME NEW k \in Live', NEW l \in Live', k # l
       PROVE  ResolventsCovered(Literals(processed'[k]), Literals(processed'[l]))
  <2>1. CASE k \in Live /\ l \in Live
    BY <1>3, <1>4, <1>13, <2>1 DEF LosesNothing, ProcessedCovered
  <2>2. CASE k = f /\ l \in Live
    BY <1>3, <1>4, <1>11, <2>2
  <2>3. CASE k \in Live /\ l = f
    BY <1>3, <1>4, <1>11, <2>3
  <2> QED BY <1>4, <1>13, <2>1, <2>2, <2>3
<1>14. ASSUME NEW k \in Live'
       PROVE  FactorsCovered(Literals(processed'[k]))
  BY <1>3, <1>4, <1>12 DEF LosesNothing, ProcessedCovered
<1>15. ProcessedCovered'
  <2>1. ASSUME NEW k \in Live', NEW l \in Live', k # l
        PROVE  ResolventsCovered(Literals(processed[k]), Literals(processed[l]))'
    <3>1. PICK a, b : /\ a = Literals(processed'[k]) /\ a = Literals(processed[k])'
                      /\ b = Literals(processed'[l]) /\ b = Literals(processed[l])'
      BY <1>1 DEF Literals
    <3>2. ResolventsCovered(a, b)
      BY <1>13, <2>1, <3>1
    <3>3. ResolventsCovered(a, b)'
      BY <1>8, <3>2 DEF ResolventsCovered
    <3> QED BY <3>1, <3>3 DEF ResolventsCovered
  <2>2. ASSUME NEW k \in Live'
        PROVE  FactorsCovered(Literals(processed[k]))'
    <3>1. PICK a : a = Literals(processed'[k]) /\ a = Literals(processed[k])'
      BY <1>1 DEF Literals
    <3>2. FactorsCovered(a)
      BY <1>14, <3>1
    <3>3. FactorsCovered(a)'
      BY <1>8, <3>2 DEF FactorsCovered
    <3> QED BY <3>1, <3>3 DEF FactorsCovered
  <2> QED BY <2>1, <2>2 DEF ProcessedCovered
<1>16. GivenCovered'
  BY <1>1 DEF GivenCovered
<1> QED BY <1>9, <1>15, <1>16 DEF LosesNothing

\* A new clause that is dropped or not queued is redundant; else it is queued.
LEMMA KeptProcess ==
  ASSUME TypeOK, TypeOK', LosesNothing, DiscardTautology \/ StoreNewClause
  PROVE  LosesNothing'
<1>1. /\ UNCHANGED <<processed, erased, given, pc, todo>>
      /\ pc = "process" /\ new_clauses # <<>> /\ new_clauses' = Tail(new_clauses)
      /\ unprocessed \subseteq unprocessed'
  BY DEF DiscardTautology, StoreNewClause, search
<1>2. /\ DOMAIN clauses \subseteq DOMAIN clauses'
      /\ \A id \in DOMAIN clauses : clauses'[id] = clauses[id]
  BY StoredNewClause, StoreAppend DEF DiscardTautology, store
<1>3. \A id \in DOMAIN clauses : Literals(id)' = Literals(id) /\ Literals(id) \in Seq(Literal)
  BY <1>2, LiteralsTyped DEF Literals
<1>4. Active \subseteq Active' /\ Live' = Live
  BY <1>1 DEF Active, InFlight, Live
<1>5. \A lits \in Seq(Literal) : Redundant(lits) => Redundant(lits)'
  <2>1. \A id \in Active : \E other \in Active' : subsumes(Literals(other)', Literals(id))
    BY <1>3, <1>4, ActiveTyped, SubsumesReflexive
  <2> QED BY <1>3, <2>1, RedundancyKept
<1>6. PICK h \in Seq(Literal) : h = Head(new_clauses).literals /\ h = new_clauses[1].literals
  BY <1>1, HeadNew
<1>7. Redundant(h)' /\ (StoreNewClause => \A id \in DOMAIN clauses' \ DOMAIN clauses : Literals(id)' = h)
  <2>1. CASE DiscardTautology
    BY <1>6, <2>1 DEF DiscardTautology, StoreNewClause, Redundant
  <2>2. CASE StoreNewClause
    <3>1. PICK nc \in Clause :
             clauses' = Append(clauses, nc) /\ nc.literals = h
      BY <1>6, <2>2, StoredNewClause
    <3>2. PICK new \in DOMAIN clauses' :
            /\ new = Len(clauses') /\ DOMAIN clauses' = DOMAIN clauses \cup {new}
            /\ clauses'[new] = nc
      BY <3>1, StoreAppend
    <3>3. Literals(new)' = h
      BY <3>1, <3>2 DEF Literals
    <3>4. CASE new \in unprocessed'
      <4>1. new \in Active'
        BY <3>4 DEF Active
      <4>2. Redundant(h)'
        BY <3>3, <4>1, SubsumesReflexive DEF Redundant
      <4> QED BY <3>2, <3>3, <4>2
    <3>5. CASE isForwardSubsumedByProcessed(h)
      <4>1. PICK k \in Live : subsumes(Literals(processed[k]), h)
        BY <3>5 DEF isForwardSubsumedByProcessed
      <4>2. PICK id : id = processed[k]
        OBVIOUS
      <4>3. id \in Active' /\ Literals(id)' = Literals(id)
        BY <1>3, <1>4, <4>2, ActiveTyped DEF Active
      <4>4. Redundant(h)'
        BY <4>1, <4>2, <4>3 DEF Redundant
      <4> QED BY <3>2, <3>3, <4>4
    <3>6. new \in unprocessed' \/ isForwardSubsumedByProcessed(h)
      <4>1. [Head(new_clauses) EXCEPT !.depth = computeDepth(Head(new_clauses))].literals = h
        BY <1>1, <1>6, HeadNew DEF Clause
      <4> QED BY <2>2, <3>2, <4>1 DEF StoreNewClause
    <3> QED BY <3>4, <3>5, <3>6
  <2> QED BY <2>1, <2>2
<1>8. ASSUME NEW lits \in Seq(Literal), Covered(lits)
      PROVE  Covered(lits)'
  <2>1. ASSUME NEW k \in DOMAIN new_clauses
        PROVE  \/ \E m \in DOMAIN new_clauses' : new_clauses'[m].literals = new_clauses[k].literals
               \/ new_clauses[k].literals = lits => Redundant(lits)'
    <3>1. CASE k = 1
      BY <1>6, <1>7, <3>1 DEF Redundant
    <3>2. CASE k # 1
      BY <1>1, <3>2, HeadNew
    <3> QED BY <3>1, <3>2
  <2> QED BY <1>5, <1>8, <2>1, CoveredKept
<1>9. StoredCovered'
  <2> SUFFICES ASSUME NEW id \in DOMAIN clauses'
               PROVE  Redundant(Literals(id))'
    BY DEF StoredCovered
  <2>1. CASE id \in DOMAIN clauses
    <3>1. PICK lits \in Seq(Literal) : lits = Literals(id) /\ lits = Literals(id)'
      BY <1>3, <2>1
    <3>2. Redundant(lits)'
      BY <1>5, <2>1, <3>1 DEF LosesNothing, StoredCovered
    <3> QED BY <3>1, <3>2 DEF Redundant
  <2>2. CASE id \notin DOMAIN clauses
    <3>1. StoreNewClause
      BY <2>2 DEF DiscardTautology, store
    <3> QED BY <1>7, <2>2, <3>1 DEF Redundant
  <2> QED BY <2>1, <2>2
<1>10. ProcessedCovered'
  BY <1>1, <1>3, <1>4, <1>8, ProcessedKept DEF LosesNothing
<1>11. GivenCovered'
  BY <1>1 DEF GivenCovered
<1> QED BY <1>9, <1>10, <1>11 DEF LosesNothing

\* Every step keeps the search complete.
LEMMA SearchNext ==
  ASSUME TypeOK, TypeOK', SearchLosesNothing, [Next]_vars
  PROVE  SearchLosesNothing'
<1> SUFFICES ASSUME empty_clause_id' = NoId
             PROVE  LosesNothing'
  BY DEF SearchLosesNothing, LosesNothing
<1>1. empty_clause_id = NoId
  <2>1. empty_clause_id' = empty_clause_id \/ empty_clause_id' # NoId
    <3>1. CASE \E id \in unprocessed : RefuteByGiven(id)
      BY <3>1 DEF RefuteByGiven, TypeOK, NoId
    <3>2. CASE DeriveEmpty
      <4>1. Head(new_clauses) \in Clause /\ clauses' = Append(clauses, Head(new_clauses))
        BY <3>2, HeadNew DEF DeriveEmpty
      <4> QED BY <3>2, <4>1, StoreAppend DEF DeriveEmpty, TypeOK, NoId
    <3>3. CASE ~DeriveEmpty /\ ~\E id \in unprocessed : RefuteByGiven(id)
      BY <3>3 DEF Next, ProverStep, CallerStep, LoopHead, Generate, Process, addClauses, Prove,
            Saturate, Timeout, SkipGiven, ExpandGiven, GenerateResolvent, GenerateFactor,
            FinishGenerate, DiscardTautology, StoreNewClause, FinishProcess, search, vars
    <3> QED BY <3>1, <3>2, <3>3
  <2> QED BY <2>1
<1>2. LosesNothing
  BY <1>1 DEF SearchLosesNothing, LosesNothing
<1>3. CASE \E batch \in Batches : addClauses(batch)
  BY <1>2, <1>3, KeptAdd
<1>4. CASE Prove \/ Saturate \/ Timeout \/ FinishProcess
  <2>1. /\ UNCHANGED <<clauses, unprocessed, processed, erased, new_clauses>>
        /\ pc # "generate" /\ pc' # "generate"
    BY <1>4 DEF Prove, Saturate, Timeout, FinishProcess, store, search, Return
  <2> QED BY <1>2, <2>1, KeptOutside
<1>5. CASE \E id \in unprocessed : SkipGiven(id) \/ ExpandGiven(id)
  BY <1>2, <1>5, KeptPop
<1>6. CASE \E t \in todo : GenerateResolvent(t) \/ GenerateFactor(t)
  BY <1>2, <1>6, KeptGenerate
<1>7. CASE FinishGenerate
  BY <1>2, <1>7, KeptFinishGenerate
<1>8. CASE DiscardTautology \/ StoreNewClause
  BY <1>2, <1>8, KeptProcess
<1>9. CASE DeriveEmpty \/ \E id \in unprocessed : RefuteByGiven(id)
  <2>1. CASE DeriveEmpty
    <3>1. Head(new_clauses) \in Clause /\ clauses' = Append(clauses, Head(new_clauses))
      BY <2>1, HeadNew DEF DeriveEmpty
    <3> QED BY <2>1, <3>1, StoreAppend DEF DeriveEmpty, TypeOK, NoId
  <2>2. CASE \E id \in unprocessed : RefuteByGiven(id)
    BY <2>2 DEF RefuteByGiven, TypeOK, NoId
  <2> QED BY <1>9, <2>1, <2>2
<1>10. CASE UNCHANGED vars
  <2>1. UNCHANGED <<clauses, unprocessed, processed, erased, given, todo, new_clauses, pc>>
    BY <1>10 DEF vars
  <2> QED BY <1>2, <2>1
          DEF LosesNothing, StoredCovered, ProcessedCovered, GivenCovered, ResolventsCovered,
              FactorsCovered, Covered, Redundant, Active, InFlight, Live, Literals, LeftParent,
              RightParent, Resolutions, Factorings, FactorRank
<1> QED BY <1>3, <1>4, <1>5, <1>6, <1>7, <1>8, <1>9, <1>10
        DEF Next, ProverStep, CallerStep, LoopHead, Generate, Process

\* The given-clause invariant holds throughout, for every inference interface,
\* clause comparator, limit and history of calls.
THEOREM SearchCorrect == Spec => []SearchLosesNothing
<1>1. Init => SearchLosesNothing
  <2> SUFFICES ASSUME Init PROVE SearchLosesNothing
    OBVIOUS
  <2>1. DOMAIN clauses = {} /\ Live = {} /\ pc = "ready"
    BY DEF Init, Live
  <2> QED BY <2>1 DEF SearchLosesNothing, StoredCovered, ProcessedCovered, GivenCovered
<1>2. TypeOK /\ TypeOK' /\ SearchLosesNothing /\ [Next]_vars => SearchLosesNothing'
  BY SearchNext
<1> QED BY <1>1, <1>2, TypeCorrect, PTL DEF Spec


(***************************************************************************)
(* Breadth-first.  A depth is less than the id, so while there are fewer   *)
(* ids than depths it does not wrap; and what waits in new_clauses has the *)
(* given clause as a parent, so it will be deeper.                         *)
(***************************************************************************)

DepthBelowId == \A id \in DOMAIN clauses : clauses[id].depth < id

NewFromGiven ==
  \A k \in DOMAIN new_clauses :
    given \in {new_clauses[k].parent1, new_clauses[k].parent2} /\ new_clauses[k].depth = 0

BreadthFirstInv == DepthBelowId /\ NewFromGiven /\ BreadthFirst

\* A clause inferred from a stored one is deeper, if that does not wrap, and
\* never deeper than there are stored clauses.
LEMMA DepthBounds ==
  ASSUME TypeOK, DepthBelowId, NEW c \in Clause,
         c.parent1 \in DOMAIN clauses \cup {NoId}, c.parent2 \in DOMAIN clauses \cup {NoId},
         NEW g \in DOMAIN clauses, g \in {c.parent1, c.parent2}
  PROVE  /\ computeDepth(c) <= Len(clauses)
         /\ Len(clauses) < DepthMod => computeDepth(c) > clauses[g].depth
<1>1. PICK n \in Nat : n = Len(clauses) /\ DOMAIN clauses = 1..n
  BY DEF TypeOK
<1>2. \A id \in 1..n : clauses[id].depth \in Nat /\ clauses[id].depth < id
  BY <1>1, ClauseFields DEF TypeOK, DepthBelowId
<1>3. DepthMod \in Nat \ {0} /\ NoId = 0 /\ g \in 1..n
  BY <1>1, ConfigTyped DEF ConfigTyped, NoId
<1>4. PICK d1 \in Nat : d1 = DepthOf(c.parent1) /\ d1 < n
  BY <1>1, <1>2, <1>3 DEF DepthOf
<1>5. PICK d2 \in Nat : d2 = DepthOf(c.parent2) /\ d2 < n
  BY <1>1, <1>2, <1>3 DEF DepthOf
<1>6. clauses[g].depth \in {d1, d2} /\ clauses[g].depth \in Nat
  BY <1>1, <1>2, <1>3, <1>4, <1>5 DEF DepthOf
<1>7. PICK d \in Nat : d = (IF d1 >= d2 THEN d1 ELSE d2) + 1 /\ computeDepth(c) = d % DepthMod
  BY <1>4, <1>5 DEF computeDepth
<1>8. d <= n /\ d > clauses[g].depth
  BY <1>4, <1>5, <1>6, <1>7
<1>9. d % DepthMod <= d /\ (d < DepthMod => d % DepthMod = d)
  BY <1>3
<1>10. d % DepthMod \in Nat
  BY <1>3
<1>11. computeDepth(c) <= n
  BY <1>7, <1>8, <1>9, <1>10
<1>12. n < DepthMod => computeDepth(c) > clauses[g].depth
  <2> SUFFICES ASSUME n < DepthMod PROVE computeDepth(c) > clauses[g].depth
    OBVIOUS
  <2>1. d < DepthMod
    BY <1>3, <1>8
  <2> QED BY <1>7, <1>8, <1>9, <2>1
<1> QED BY <1>1, <1>11, <1>12

\* The caller's clauses have depth 0, and no call is running to be disturbed.
LEMMA BreadthAdd ==
  ASSUME TypeOK, BreadthFirstInv, NEW batch \in Batches, addClauses(batch)
  PROVE  BreadthFirstInv'
<1>1. PICK n \in Nat, m \in Nat :
           /\ n = Len(clauses) /\ DOMAIN clauses = 1..n /\ DOMAIN clauses' = 1..(n + m)
           /\ \A id \in 1..n : clauses'[id] = clauses[id]
           /\ unprocessed' = unprocessed \cup {n + k : k \in 1..m}
           /\ \A k \in 1..m : \E lits \in Seq(Literal) : clauses'[n + k] = InputClause(lits)
  BY StoreAdd
<1>2. pc' = "ready" /\ DOMAIN new_clauses' = {}
  BY DEF addClauses, TypeOK
<1>3. ASSUME NEW id \in 1..(n + m)
      PROVE  clauses'[id].depth < id
  <2>1. CASE id \in 1..n
    BY <1>1, <2>1 DEF BreadthFirstInv, DepthBelowId
  <2>2. CASE id \in (n + 1)..(n + m)
    <3>1. id - n \in 1..m /\ n + (id - n) = id
      BY <2>2
    <3>2. PICK lits \in Seq(Literal) : clauses'[id] = InputClause(lits)
      BY <1>1, <3>1
    <3>3. clauses'[id].depth = 0
      BY <3>2 DEF InputClause
    <3> QED BY <3>3
  <2> QED BY <2>1, <2>2
<1> QED BY <1>1, <1>2, <1>3 DEF BreadthFirstInv, DepthBelowId, NewFromGiven, BreadthFirst

\* The heap's top is not deeper than anything it leaves in the queue.
LEMMA BreadthPop ==
  ASSUME TypeOK, BreadthFirstInv, NEW id \in unprocessed,
         RefuteByGiven(id) \/ SkipGiven(id) \/ ExpandGiven(id)
  PROVE  BreadthFirstInv'
<1>1. /\ UNCHANGED <<clauses, new_clauses>>
      /\ id \in Top /\ given' = id /\ unprocessed' \subseteq unprocessed /\ new_clauses = <<>>
  BY DEF RefuteByGiven, SkipGiven, ExpandGiven, popGivenClause, store, TypeOK
<1>2. Comparator = "bfs" => \A other \in unprocessed : ~(clauses[id].depth > clauses[other].depth)
  BY <1>1 DEF Top, bfsCompare
<1>3. \A c \in DOMAIN clauses : clauses[c].depth \in Nat
  BY ClauseFields DEF TypeOK
<1>4. BreadthFirst'
  BY <1>1, <1>2, <1>3 DEF BreadthFirst, TypeOK
<1>5. DOMAIN new_clauses' = {}
  BY <1>1
<1> QED BY <1>1, <1>4, <1>5 DEF BreadthFirstInv, DepthBelowId, NewFromGiven

\* Both premises, or the only one, include the given clause.
LEMMA BreadthGenerate ==
  ASSUME TypeOK, BreadthFirstInv, NEW t \in todo, GenerateResolvent(t) \/ GenerateFactor(t)
  PROVE  BreadthFirstInv'
<1>1. UNCHANGED <<clauses, unprocessed, given, pc>> /\ new_clauses \in Seq(Clause)
  BY DEF GenerateResolvent, GenerateFactor, store, search, TypeOK
<1>2. \/ UNCHANGED new_clauses
      \/ \E c : new_clauses' = Append(new_clauses, c) /\ given \in {c.parent1, c.parent2} /\ c.depth = 0
  <2>1. CASE GenerateResolvent(t)
    <3>1. given \in {LeftParent(t), RightParent(t)}
      BY DEF LeftParent, RightParent
    <3>2. \/ UNCHANGED new_clauses
          \/ \E lits : new_clauses' = Append(new_clauses, Resolvent(lits, LeftParent(t), RightParent(t)))
      BY <2>1 DEF GenerateResolvent
    <3>3. CASE UNCHANGED new_clauses
      BY <3>3
    <3>4. CASE \E lits : new_clauses' =
                 Append(new_clauses, Resolvent(lits, LeftParent(t), RightParent(t)))
      <4>1. PICK lits : new_clauses' =
              Append(new_clauses, Resolvent(lits, LeftParent(t), RightParent(t)))
        BY <3>4
      <4> DEFINE c == Resolvent(lits, LeftParent(t), RightParent(t))
      <4>2. c.parent1 = LeftParent(t) /\ c.parent2 = RightParent(t) /\ c.depth = 0
        BY DEF Resolvent
      <4> HIDE DEF c
      <4>3. new_clauses' = Append(new_clauses, c)
        BY <4>1 DEF c
      <4>4. given \in {c.parent1, c.parent2}
        BY <3>1, <4>2
      <4> QED BY <4>2, <4>3, <4>4
    <3> QED BY <3>2, <3>3, <3>4
  <2>2. CASE GenerateFactor(t)
    <3>1. \/ UNCHANGED new_clauses
          \/ \E lits : new_clauses' = Append(new_clauses, Factored(lits, given))
      BY <2>2 DEF GenerateFactor
    <3>2. \A lits : given \in {Factored(lits, given).parent1, Factored(lits, given).parent2}
                    /\ Factored(lits, given).depth = 0
      BY DEF Factored
    <3> QED BY <3>1, <3>2
  <2> QED BY <2>1, <2>2
<1>3. NewFromGiven'
  <2>1. CASE UNCHANGED new_clauses
    BY <1>1, <2>1 DEF BreadthFirstInv, NewFromGiven
  <2>2. CASE \E c : /\ new_clauses' = Append(new_clauses, c)
                    /\ given \in {c.parent1, c.parent2} /\ c.depth = 0
    <3>1. PICK c : /\ new_clauses' = Append(new_clauses, c)
                   /\ given \in {c.parent1, c.parent2} /\ c.depth = 0
      BY <2>2
    <3>2. \A k \in DOMAIN new_clauses' :
            new_clauses'[k] = c \/ (k \in DOMAIN new_clauses /\ new_clauses'[k] = new_clauses[k])
      BY <1>1, <3>1
    <3> QED BY <1>1, <3>1, <3>2 DEF BreadthFirstInv, NewFromGiven
  <2> QED BY <1>2, <2>1, <2>2
<1> QED BY <1>1, <1>3 DEF BreadthFirstInv, DepthBelowId, BreadthFirst

\* What is stored is deeper than the given clause; an empty clause is not queued.
LEMMA BreadthProcess ==
  ASSUME TypeOK, BreadthFirstInv, DeriveEmpty \/ DiscardTautology \/ StoreNewClause
  PROVE  BreadthFirstInv'
<1>1. /\ new_clauses # <<>> /\ pc = "process" /\ UNCHANGED given
      /\ new_clauses' \in {<<>>, Tail(new_clauses)} /\ given \in DOMAIN clauses
  BY DEF DeriveEmpty, DiscardTautology, StoreNewClause, TypeOK, NoId
<1>2. NewFromGiven'
  <2>1. CASE new_clauses' = <<>>
    <3>1. DOMAIN new_clauses' = {}
      BY <2>1
    <3> QED BY <3>1 DEF NewFromGiven
  <2>2. CASE new_clauses' = Tail(new_clauses)
    <3>1. \A k \in DOMAIN new_clauses' :
            k + 1 \in DOMAIN new_clauses /\ new_clauses'[k] = new_clauses[k + 1]
      BY <1>1, <2>2, HeadNew
    <3> QED BY <1>1, <3>1 DEF BreadthFirstInv, NewFromGiven
  <2> QED BY <1>1, <2>1, <2>2
<1>3. CASE DiscardTautology
  <2>1. UNCHANGED <<clauses, unprocessed, pc, given>>
    BY <1>3 DEF DiscardTautology, store, search
  <2> QED BY <1>2, <2>1 DEF BreadthFirstInv, DepthBelowId, BreadthFirst
<1>4. PICK n \in Nat : n = Len(clauses) /\ DOMAIN clauses = 1..n
  BY DEF TypeOK
<1>5. given \in {Head(new_clauses).parent1, Head(new_clauses).parent2} /\ Head(new_clauses).depth = 0
  <2>1. 1 \in DOMAIN new_clauses /\ Head(new_clauses) = new_clauses[1]
    BY <1>1, HeadNew DEF TypeOK
  <2> QED BY <2>1 DEF BreadthFirstInv, NewFromGiven
<1>6. CASE DeriveEmpty
  <2>1. /\ Head(new_clauses) \in Clause /\ clauses' = Append(clauses, Head(new_clauses))
        /\ pc' = "ready"
    BY <1>1, <1>6, HeadNew DEF DeriveEmpty, Return
  <2>2. /\ DOMAIN clauses' = 1..(n + 1) /\ clauses'[n + 1] = Head(new_clauses)
        /\ \A id \in 1..n : clauses'[id] = clauses[id]
    BY <1>4, <2>1, StoreAppend
  <2>3. Head(new_clauses).depth < n + 1
    <3>1. Head(new_clauses).depth = 0
      BY <1>5
    <3> QED BY <1>4, <3>1
  <2>4. DepthBelowId'
    <3>1. \A id \in 1..(n + 1) : id \in 1..n \/ id = n + 1
      OBVIOUS
    <3> QED BY <1>4, <2>2, <2>3, <3>1 DEF BreadthFirstInv, DepthBelowId
  <2> QED BY <1>2, <2>1, <2>4 DEF BreadthFirstInv, BreadthFirst
<1>7. CASE StoreNewClause
  <2>1. PICK nc \in Clause :
           clauses' = Append(clauses, nc) /\ nc.depth = computeDepth(Head(new_clauses))
    BY <1>7, StoredNewClause
  <2>2. /\ Len(clauses') = n + 1
        /\ DOMAIN clauses' = 1..(n + 1) /\ clauses'[n + 1] = nc
        /\ \A id \in 1..n : clauses'[id] = clauses[id]
    BY <1>4, <2>1, StoreAppend
  <2>3. /\ nc.depth <= n
        /\ n < DepthMod => nc.depth > clauses[given].depth
    BY <1>1, <1>4, <1>5, <2>1, HeadNew, DepthBounds DEF BreadthFirstInv
  <2>4. nc.depth \in Nat /\ clauses[given].depth \in Nat /\ DepthMod \in Nat
    <3>1. nc.depth \in 0..(DepthMod - 1)
      BY <2>1 DEF Clause
    <3>2. clauses[given].depth \in Nat
      BY <1>1, ClauseFields DEF TypeOK
    <3>3. DepthMod \in Nat
      BY ConfigTyped DEF ConfigTyped
    <3> QED BY <3>1, <3>2, <3>3
  <2>5. DepthBelowId'
    <3>1. \A id \in 1..(n + 1) : id \in 1..n \/ id = n + 1
      OBVIOUS
    <3>2. nc.depth < n + 1
      BY <2>3, <2>4
    <3> QED BY <1>4, <2>2, <3>1, <3>2 DEF BreadthFirstInv, DepthBelowId
  <2>6. BreadthFirst'
    <3>1. /\ UNCHANGED <<pc, given>>
          /\ unprocessed' \subseteq unprocessed \cup {n + 1}
      BY <1>7, <2>2 DEF StoreNewClause
    <3> SUFFICES ASSUME Comparator = "bfs", given # NoId, n + 1 < DepthMod,
                        NEW id \in unprocessed \cup {n + 1}
                 PROVE  clauses'[id].depth >= clauses'[given].depth
      BY <1>1, <2>2, <3>1 DEF BreadthFirst
    <3>2. clauses'[given] = clauses[given] /\ n < DepthMod
      BY <1>1, <1>4, <2>2, <2>4
    <3>3. CASE id \in unprocessed
      <4>1. clauses[id].depth >= clauses[given].depth
        BY <1>1, <1>4, <3>2, <3>3 DEF BreadthFirstInv, BreadthFirst
      <4>2. clauses'[id] = clauses[id]
        BY <1>4, <2>2, <3>3 DEF TypeOK
      <4> QED BY <3>2, <4>1, <4>2
    <3>4. CASE id = n + 1
      BY <2>2, <2>3, <2>4, <3>2, <3>4
    <3> QED BY <3>3, <3>4
  <2> QED BY <1>2, <2>5, <2>6 DEF BreadthFirstInv
<1> QED BY <1>3, <1>6, <1>7

\* Every step keeps the queue in the order of depths.
LEMMA BreadthNext ==
  ASSUME TypeOK, BreadthFirstInv, [Next]_vars
  PROVE  BreadthFirstInv'
<1>1. CASE \E batch \in Batches : addClauses(batch)
  BY <1>1, BreadthAdd
<1>2. CASE \E id \in unprocessed : RefuteByGiven(id) \/ SkipGiven(id) \/ ExpandGiven(id)
  BY <1>2, BreadthPop
<1>3. CASE \E t \in todo : GenerateResolvent(t) \/ GenerateFactor(t)
  BY <1>3, BreadthGenerate
<1>4. CASE DeriveEmpty \/ DiscardTautology \/ StoreNewClause
  BY <1>4, BreadthProcess
<1>5. CASE Saturate \/ Timeout \/ FinishGenerate \/ FinishProcess \/ UNCHANGED vars
  <2>1. /\ UNCHANGED <<clauses, unprocessed, given, new_clauses>>
        /\ pc' = "ready" \/ (pc # "ready" /\ pc' # "ready") \/ pc' = pc
    BY <1>5 DEF Saturate, Timeout, FinishGenerate, FinishProcess, Return, store, search, vars
  <2> QED BY <2>1 DEF BreadthFirstInv, DepthBelowId, NewFromGiven, BreadthFirst
<1>6. CASE Prove
  <2>1. UNCHANGED clauses /\ given' = NoId /\ DOMAIN new_clauses' = {}
    BY <1>6 DEF Prove, TypeOK, store
  <2> QED BY <2>1 DEF BreadthFirstInv, DepthBelowId, NewFromGiven, BreadthFirst
<1> QED BY <1>1, <1>2, <1>3, <1>4, <1>5, <1>6
        DEF Next, ProverStep, CallerStep, LoopHead, Generate, Process

\* Under bfsCompare a call of prove() never takes a clause while a shallower
\* one is queued, as long as fewer clauses are stored than depth_ has values.
THEOREM BreadthFirstCorrect == Spec => []BreadthFirst
<1>1. Init => BreadthFirstInv
  <2> SUFFICES ASSUME Init PROVE BreadthFirstInv
    OBVIOUS
  <2>1. DOMAIN clauses = {} /\ DOMAIN new_clauses = {} /\ pc = "ready"
    BY DEF Init
  <2> QED BY <2>1 DEF BreadthFirstInv, DepthBelowId, NewFromGiven, BreadthFirst
<1>2. TypeOK /\ BreadthFirstInv /\ [Next]_vars => BreadthFirstInv'
  BY BreadthNext
<1>3. BreadthFirstInv => BreadthFirst
  BY DEF BreadthFirstInv
<1> QED BY <1>1, <1>2, <1>3, TypeCorrect, PTL DEF Spec


(***************************************************************************)
(* The limits.  A given clause is taken only while fewer than MaxClauses    *)
(* clauses are stored, so while its inferences are stored all that was      *)
(* derived beyond the limit is its; after that none is taken again.         *)
(***************************************************************************)

DerivedBeyondLimit(id) ==
  id > MaxClauses /\ clauses[id].rule # "kInput"

Charged(g) ==
  \A id \in DOMAIN clauses :
    DerivedBeyondLimit(id) => g \in {clauses[id].parent1, clauses[id].parent2}

OvershootInv ==
  /\ \E g \in DOMAIN clauses \cup {NoId} : Charged(g)
  /\ pc \in {"generate", "process"} => Charged(given)

\* The caller's clauses count towards the limit and are charged to nobody.
LEMMA OvershootAdd ==
  ASSUME TypeOK, OvershootInv, NEW batch \in Batches, addClauses(batch)
  PROVE  OvershootInv'
<1>1. PICK n \in Nat, m \in Nat :
           /\ DOMAIN clauses = 1..n /\ DOMAIN clauses' = 1..(n + m)
           /\ \A id \in 1..n : clauses'[id] = clauses[id]
           /\ \A k \in 1..m : \E lits \in Seq(Literal) : clauses'[n + k] = InputClause(lits)
  BY StoreAdd
<1>2. PICK g \in DOMAIN clauses \cup {NoId} : Charged(g)
  BY DEF OvershootInv
<1>3. \A id \in 1..(n + m) : id \in 1..n \/ clauses'[id].rule = "kInput"
  <2> SUFFICES ASSUME NEW id \in (n + 1)..(n + m)
               PROVE  clauses'[id].rule = "kInput"
    OBVIOUS
  <2>1. id - n \in 1..m /\ n + (id - n) = id
    OBVIOUS
  <2>2. PICK lits \in Seq(Literal) : clauses'[id] = InputClause(lits)
    BY <1>1, <2>1
  <2> QED BY <2>2 DEF InputClause
<1>4. Charged(g)' /\ g \in DOMAIN clauses' \cup {NoId}
  BY <1>1, <1>2, <1>3 DEF Charged, DerivedBeyondLimit
<1>5. pc' = "ready"
  BY DEF addClauses
<1> QED BY <1>4, <1>5 DEF OvershootInv

\* Nothing lies beyond the limit when a clause is given.
LEMMA OvershootExpand ==
  ASSUME TypeOK, OvershootInv, NEW id \in unprocessed, ExpandGiven(id)
  PROVE  OvershootInv'
<1>1. UNCHANGED clauses /\ ~(Len(clauses) >= MaxClauses)
  BY DEF ExpandGiven, popGivenClause, hitResourceLimit, store
<1>2. PICK n \in Nat : n = Len(clauses) /\ DOMAIN clauses = 1..n
  BY DEF TypeOK
<1>3. MaxClauses \in Nat
  BY ConfigTyped DEF ConfigTyped
<1>4. \A c \in DOMAIN clauses : ~DerivedBeyondLimit(c)
  BY <1>1, <1>2, <1>3 DEF DerivedBeyondLimit
<1>5. \A g : Charged(g)'
  BY <1>1, <1>4 DEF Charged, DerivedBeyondLimit
<1> QED BY <1>5 DEF OvershootInv, NoId

\* What is stored has the given clause as a parent.
LEMMA OvershootStore ==
  ASSUME TypeOK, BreadthFirstInv, OvershootInv, DeriveEmpty \/ StoreNewClause
  PROVE  OvershootInv'
<1>1. new_clauses # <<>> /\ pc = "process" /\ UNCHANGED given /\ given \in DOMAIN clauses
  BY DEF DeriveEmpty, StoreNewClause, TypeOK, NoId
<1>2. given \in {Head(new_clauses).parent1, Head(new_clauses).parent2}
  <2>1. 1 \in DOMAIN new_clauses /\ Head(new_clauses) = new_clauses[1]
    BY <1>1, HeadNew DEF TypeOK
  <2> QED BY <2>1 DEF BreadthFirstInv, NewFromGiven
<1>3. PICK c \in Clause :
           /\ clauses' = Append(clauses, c)
           /\ c.parent1 = Head(new_clauses).parent1 /\ c.parent2 = Head(new_clauses).parent2
  BY <1>1, StoredNewClause, HeadNew DEF DeriveEmpty
<1>4. PICK n \in Nat :
           /\ DOMAIN clauses = 1..n /\ DOMAIN clauses' = 1..(n + 1) /\ clauses'[n + 1] = c
           /\ \A id \in 1..n : clauses'[id] = clauses[id]
  BY <1>3, StoreAppend DEF TypeOK
<1>5. Charged(given)
  BY <1>1 DEF OvershootInv
<1>6. \A id \in 1..(n + 1) : id \in 1..n \/ id = n + 1
  OBVIOUS
<1>7. Charged(given)'
  BY <1>1, <1>2, <1>3, <1>4, <1>5, <1>6 DEF Charged, DerivedBeyondLimit
<1>8. given' \in DOMAIN clauses'
  BY <1>1, <1>4
<1> QED BY <1>7, <1>8 DEF OvershootInv

\* Every step keeps the overshoot to one iteration.
LEMMA OvershootNext ==
  ASSUME TypeOK, BreadthFirstInv, OvershootInv, [Next]_vars
  PROVE  OvershootInv'
<1>1. CASE \E batch \in Batches : addClauses(batch)
  BY <1>1, OvershootAdd
<1>2. CASE \E id \in unprocessed : ExpandGiven(id)
  BY <1>2, OvershootExpand
<1>3. CASE DeriveEmpty \/ StoreNewClause
  BY <1>3, OvershootStore
<1>4. CASE \/ Prove \/ Saturate \/ Timeout \/ FinishProcess
           \/ \E id \in unprocessed : RefuteByGiven(id) \/ SkipGiven(id)
  <2>1. UNCHANGED clauses /\ pc' \in {"ready", "select"}
    BY <1>4 DEF Prove, Saturate, Timeout, FinishProcess, RefuteByGiven, SkipGiven,
                popGivenClause, Return, store
  <2> QED BY <2>1 DEF OvershootInv, Charged, DerivedBeyondLimit
<1>5. CASE \/ \E t \in todo : GenerateResolvent(t) \/ GenerateFactor(t)
           \/ FinishGenerate \/ DiscardTautology \/ UNCHANGED vars
  <2>1. /\ UNCHANGED <<clauses, given>>
        /\ pc' \in {"generate", "process"} => pc \in {"generate", "process"}
    BY <1>5 DEF GenerateResolvent, GenerateFactor, FinishGenerate, DiscardTautology,
                store, search, vars
  <2> QED BY <2>1 DEF OvershootInv, Charged, DerivedBeyondLimit
<1> QED BY <1>1, <1>2, <1>3, <1>4, <1>5
        DEF Next, ProverStep, CallerStep, LoopHead, Generate, Process

\* However often it is called, the prover exceeds max_clauses_ by the inferences
\* of a single given clause.
THEOREM OvershootCorrect == Spec => []OvershootIsOneIteration
<1>1. Init => BreadthFirstInv /\ OvershootInv
  <2> SUFFICES ASSUME Init PROVE BreadthFirstInv /\ OvershootInv
    OBVIOUS
  <2>1. DOMAIN clauses = {} /\ DOMAIN new_clauses = {} /\ pc = "ready"
    BY DEF Init
  <2> QED BY <2>1 DEF BreadthFirstInv, DepthBelowId, NewFromGiven, BreadthFirst,
                      OvershootInv, Charged
<1>2. TypeOK /\ BreadthFirstInv /\ OvershootInv /\ [Next]_vars => BreadthFirstInv' /\ OvershootInv'
  BY BreadthNext, OvershootNext
<1>3. OvershootInv => OvershootIsOneIteration
  BY DEF OvershootInv, Charged, DerivedBeyondLimit, OvershootIsOneIteration
<1> QED BY <1>1, <1>2, <1>3, TypeCorrect, PTL DEF Spec


(***************************************************************************)
(* Irredundance.  A clause is queued when it is new and leaves the queue   *)
(* when it is given, so the given clause is none of the processed ones;    *)
(* shouldSkipGiven and the backward subsumption of the same loop head      *)
(* leave it and them incomparable.                                         *)
(***************************************************************************)

Apart ==
  /\ \A k \in Live : processed[k] \notin unprocessed
  /\ pc = "generate" => /\ given \notin unprocessed
                        /\ \A k \in Live : processed[k] # given

IrredundantInv == Apart /\ ProcessedIrredundant

\* The clauses that stay are stored ones.
LEMMA KeptTyped ==
  ASSUME TypeOK
  PROVE  /\ Kept \subseteq DOMAIN clauses
         /\ Live \subseteq DOMAIN processed
         /\ \A k \in Live : processed[k] \in DOMAIN clauses /\ processed[k] \in Kept
BY DEF TypeOK, Kept, Live, InFlight, NoId

\* Keeping no more clauses than before, in the same places.
LEMMA IrredundantKept ==
  ASSUME TypeOK, ProcessedIrredundant, Kept' \subseteq Kept, Live' \subseteq Live,
         \A k \in Live' : processed'[k] = processed[k],
         \A id \in DOMAIN clauses : Literals(id)' = Literals(id)
  PROVE  ProcessedIrredundant'
<1>1. \A id \in Kept' : id \in Kept /\ Literals(id)' = Literals(id)
  BY KeptTyped
<1> QED BY <1>1 DEF ProcessedIrredundant

\* Whatever happens outside the generation of inferences: at most new ids are
\* queued.
LEMMA IrredundantOutside ==
  ASSUME TypeOK, IrredundantInv, pc # "generate", pc' # "generate",
         UNCHANGED <<processed, erased>>,
         \A id \in unprocessed' : id \in unprocessed \/ id \notin DOMAIN clauses,
         \A id \in DOMAIN clauses : Literals(id)' = Literals(id)
  PROVE  IrredundantInv'
<1>1. Live' = Live /\ Kept' = Kept
  BY DEF Live, Kept, InFlight
<1>2. ProcessedIrredundant'
  BY <1>1, IrredundantKept DEF IrredundantInv
<1>3. Apart'
  BY <1>1, KeptTyped DEF IrredundantInv, Apart
<1> QED BY <1>2, <1>3 DEF IrredundantInv

\* The given clause has passed the forward test, and erases what it subsumes.
LEMMA IrredundantExpand ==
  ASSUME TypeOK, IrredundantInv, NEW id \in unprocessed, ExpandGiven(id)
  PROVE  IrredundantInv'
<1>1. /\ UNCHANGED <<clauses, processed>> /\ pc' = "generate" /\ given' = id
      /\ pc = "select" /\ unprocessed' = unprocessed \ {id}
      /\ erased' = erased \cup BackwardSubsumed(Literals(id))
      /\ Literals(id) # <<>> /\ ~isTautology(Literals(id))
      /\ ~isForwardSubsumedByProcessed(Literals(id))
  BY DEF ExpandGiven, popGivenClause, shouldSkipGiven, store
<1>2. id \in DOMAIN clauses /\ \A c \in DOMAIN clauses : Literals(c)' = Literals(c)
  BY <1>1 DEF TypeOK, Literals
<1>3. Live' = Live \ BackwardSubsumed(Literals(id))
  BY <1>1 DEF Live
<1>4. \A k \in Live' : /\ k \in Live /\ processed'[k] = processed[k]
                       /\ ~subsumes(Literals(id), Literals(processed[k]))
                       /\ ~subsumes(Literals(processed[k]), Literals(id))
                       /\ processed[k] # id
  BY <1>1, <1>3 DEF BackwardSubsumed, isForwardSubsumedByProcessed, IrredundantInv, Apart
<1>5. Kept' = {processed[k] : k \in Live'} \cup {id}
  <2>1. InFlight' = {id}
    BY <1>1 DEF InFlight
  <2> QED BY <1>1, <2>1 DEF Kept
<1>6. \A c \in Kept' : c = id \/ \E k \in Live' : c = processed[k] /\ c \in Kept
  BY <1>4, <1>5, KeptTyped
<1>7. \A c \in Kept' : /\ Literals(c)' = Literals(c)
                       /\ Literals(c) # <<>> /\ ~isTautology(Literals(c))
  BY <1>1, <1>2, <1>6, KeptTyped DEF IrredundantInv, ProcessedIrredundant
<1>8. ASSUME NEW c \in Kept', NEW d \in Kept', c # d
      PROVE  ~subsumes(Literals(c), Literals(d))
  <2>1. CASE c = id
    BY <1>4, <1>6, <1>8, <2>1
  <2>2. CASE d = id
    BY <1>4, <1>6, <1>8, <2>2
  <2>3. CASE c # id /\ d # id
    BY <1>6, <1>8, <2>3 DEF IrredundantInv, ProcessedIrredundant
  <2> QED BY <2>1, <2>2, <2>3
<1>9. \A k, l \in Live' : k # l => processed'[k] # processed'[l]
  BY <1>4 DEF IrredundantInv, ProcessedIrredundant
<1>10. ProcessedIrredundant'
  BY <1>7, <1>8, <1>9 DEF ProcessedIrredundant
<1>11. Apart'
  BY <1>1, <1>4 DEF IrredundantInv, Apart
<1> QED BY <1>10, <1>11 DEF IrredundantInv

\* The given clause moves to the end of processed_.
LEMMA IrredundantFinish ==
  ASSUME TypeOK, IrredundantInv, FinishGenerate
  PROVE  IrredundantInv'
<1>1. /\ pc = "generate" /\ pc' = "process" /\ processed' = Append(processed, given)
      /\ UNCHANGED <<clauses, unprocessed, erased>>
      /\ processed \in Seq(DOMAIN clauses) /\ given \in DOMAIN clauses
  BY DEF FinishGenerate, store, TypeOK, NoId
<1>2. PICK n \in Nat : n = Len(processed) /\ DOMAIN processed = 1..n
  BY <1>1
<1>3. /\ DOMAIN processed' = 1..(n + 1) /\ processed'[n + 1] = given
      /\ \A k \in 1..n : processed'[k] = processed[k]
  BY <1>1, <1>2
<1>4. n + 1 \notin Live /\ Live \subseteq 1..n /\ n + 1 \notin erased
  BY <1>2 DEF Live, TypeOK
<1>5. Live' = Live \cup {n + 1}
  <2>1. 1..(n + 1) = (1..n) \cup {n + 1}
    BY <1>2
  <2> QED BY <1>1, <1>2, <1>3, <1>4, <2>1 DEF Live
<1>6. \A k \in Live : processed'[k] = processed[k] /\ processed[k] # given
  BY <1>1, <1>3, <1>4 DEF IrredundantInv, Apart
<1>7. Kept' = Kept
  <2>1. InFlight = {given} /\ InFlight' = {}
    BY <1>1 DEF InFlight
  <2>2. Kept' = {processed'[k] : k \in Live \cup {n + 1}}
    BY <1>5, <2>1 DEF Kept
  <2> QED BY <1>3, <1>6, <2>1, <2>2 DEF Kept
<1>8. \A id \in Kept : Literals(id)' = Literals(id)
  BY <1>1 DEF Literals
<1>9. \A k, l \in Live' : k # l => processed'[k] # processed'[l]
  BY <1>3, <1>5, <1>6 DEF IrredundantInv, ProcessedIrredundant
<1>10. ProcessedIrredundant'
  BY <1>7, <1>8, <1>9 DEF IrredundantInv, ProcessedIrredundant
<1>11. Apart'
  BY <1>1, <1>3, <1>5, <1>6 DEF IrredundantInv, Apart
<1> QED BY <1>10, <1>11 DEF IrredundantInv

\* The steps that store clauses queue nothing but ids they hand out.
LEMMA IrredundantStore ==
  ASSUME TypeOK, IrredundantInv,
         \/ DeriveEmpty \/ StoreNewClause
         \/ \E batch \in Batches : addClauses(batch)
  PROVE  IrredundantInv'
<1>1. CASE DeriveEmpty \/ StoreNewClause
  <2>1. PICK c \in Clause : clauses' = Append(clauses, c)
    BY <1>1, StoredNewClause, HeadNew DEF DeriveEmpty
  <2>2. /\ \A id \in DOMAIN clauses : Literals(id)' = Literals(id)
        /\ Len(clauses') \notin DOMAIN clauses
    BY <2>1, StoreAppend
  <2>3. unprocessed' \subseteq unprocessed \cup {Len(clauses')}
    BY <1>1 DEF DeriveEmpty, StoreNewClause
  <2>4. pc = "process" /\ pc' # "generate" /\ UNCHANGED <<processed, erased>>
    BY <1>1 DEF DeriveEmpty, StoreNewClause, Return
  <2> QED BY <2>2, <2>3, <2>4, IrredundantOutside
<1>2. CASE \E batch \in Batches : addClauses(batch)
  <2>1. PICK batch \in Batches : addClauses(batch)
    BY <1>2
  <2>2. PICK n \in Nat, m \in Nat :
           /\ DOMAIN clauses = 1..n
           /\ \A id \in 1..n : clauses'[id] = clauses[id]
           /\ unprocessed' = unprocessed \cup {n + k : k \in 1..m}
    BY <2>1, StoreAdd
  <2>3. \A id \in DOMAIN clauses : Literals(id)' = Literals(id)
    BY <2>2 DEF Literals
  <2>4. \A id \in unprocessed' : id \in unprocessed \/ id \notin DOMAIN clauses
    BY <2>2
  <2>5. pc = "ready" /\ pc' = "ready" /\ UNCHANGED <<processed, erased>>
    BY <2>1 DEF addClauses
  <2> QED BY <2>3, <2>4, <2>5, IrredundantOutside
<1> QED BY <1>1, <1>2

\* Every step keeps the processed clauses free of subsumed ones.
LEMMA IrredundantNext ==
  ASSUME TypeOK, IrredundantInv, [Next]_vars
  PROVE  IrredundantInv'
<1>1. CASE \E id \in unprocessed : ExpandGiven(id)
  BY <1>1, IrredundantExpand
<1>2. CASE FinishGenerate
  BY <1>2, IrredundantFinish
<1>3. CASE DeriveEmpty \/ StoreNewClause \/ \E batch \in Batches : addClauses(batch)
  BY <1>3, IrredundantStore
<1>4. CASE \/ Prove \/ Saturate \/ Timeout \/ FinishProcess \/ DiscardTautology
           \/ \E id \in unprocessed : RefuteByGiven(id) \/ SkipGiven(id)
  <2>1. /\ pc # "generate" /\ pc' # "generate" /\ UNCHANGED <<clauses, processed, erased>>
        /\ unprocessed' \subseteq unprocessed
    BY <1>4 DEF Prove, Saturate, Timeout, FinishProcess, DiscardTautology, RefuteByGiven,
                SkipGiven, popGivenClause, Return, store, search
  <2>2. \A id \in DOMAIN clauses : Literals(id)' = Literals(id)
    BY <2>1 DEF Literals
  <2> QED BY <2>1, <2>2, IrredundantOutside
<1>5. CASE (\E t \in todo : GenerateResolvent(t) \/ GenerateFactor(t)) \/ UNCHANGED vars
  <2>1. UNCHANGED <<clauses, unprocessed, processed, erased, pc, given>>
    BY <1>5 DEF GenerateResolvent, GenerateFactor, store, search, vars
  <2>2. Live' = Live /\ Kept' = Kept /\ \A id \in DOMAIN clauses : Literals(id)' = Literals(id)
    BY <2>1 DEF Live, Kept, InFlight, Literals
  <2>3. Apart'
    BY <2>1, <2>2 DEF IrredundantInv, Apart
  <2>4. ProcessedIrredundant'
    BY <2>1, <2>2, IrredundantKept DEF IrredundantInv
  <2> QED BY <2>3, <2>4 DEF IrredundantInv
<1> QED BY <1>1, <1>2, <1>3, <1>4, <1>5
        DEF Next, ProverStep, CallerStep, LoopHead, Generate, Process

\* At every moment the processed clauses and the given one are free of
\* tautologies and of each other's subsumption, and none is there twice.
THEOREM IrredundantCorrect == Spec => []ProcessedIrredundant
<1>1. Init => IrredundantInv
  <2> SUFFICES ASSUME Init PROVE IrredundantInv
    OBVIOUS
  <2>1. Live = {} /\ Kept = {} /\ pc = "ready"
    BY DEF Init, Live, Kept, InFlight
  <2> QED BY <2>1 DEF IrredundantInv, Apart, ProcessedIrredundant
<1>2. TypeOK /\ IrredundantInv /\ [Next]_vars => IrredundantInv'
  BY IrredundantNext
<1>3. IrredundantInv => ProcessedIrredundant
  BY DEF IrredundantInv
<1> QED BY <1>1, <1>2, <1>3, TypeCorrect, PTL DEF Spec


(***************************************************************************)
(* Refutational completeness, for ground clauses.  The clauses processed   *)
(* when the queue is empty are closed under the two rules, up to what is   *)
(* dispensable.  Such a set has a model: its atoms are decided one after   *)
(* the other, and if no clause is false so far and some clause would be    *)
(* false either way, a shortest one of each kind contains the next atom    *)
(* once (or its factor would be shorter), so their resolvent, or the       *)
(* clause that subsumes it, was false before.                              *)
(***************************************************************************)

\* Every atom of c is decided, and every literal of c is false where exactly
\* the atoms in J are true.
Falsifies(J, decided, c) ==
  \A m \in DOMAIN c : /\ c[m].atom \in decided
                      /\ c[m].is_positive <=> c[m].atom \notin J

\* No clause of N is false yet.
Consistent(N, J, decided) == \A c \in N : ~Falsifies(J, decided, c)

Once(c, a) == \E i \in DOMAIN c : /\ c[i].atom = a
                                 /\ \A k \in DOMAIN c : k # i => c[k].atom # a

Dispensable(N, c) == isTautology(c) \/ \E d \in N : subsumes(d, c)

\* What the search leaves when its queue is empty: no clause of N is empty or a
\* tautology, and what two of them yield on equal atoms, and one of them without
\* a repeated literal, is dispensable.
SaturatedSet(N) ==
  /\ \A c \in N : c # <<>> /\ ~isTautology(c)
  /\ \A c, d \in N : \A i \in DOMAIN c, j \in DOMAIN d :
       /\ c # d /\ c[i].atom = d[j].atom /\ c[i].is_positive # d[j].is_positive
       => Dispensable(N, RemoveAt(c, i) \o RemoveAt(d, j))
  /\ \A c \in N : \A i, j \in DOMAIN c :
       i < j /\ c[i] = c[j] => Dispensable(N, RemoveAt(c, j))

\* What falsifies a clause falsifies each clause that subsumes it, which is no longer.
LEMMA FalseSubsumer ==
  ASSUME NEW J, NEW decided, NEW c \in Seq(Literal), NEW d \in Seq(Literal),
         Falsifies(J, decided, c), subsumes(d, c)
  PROVE  Falsifies(J, decided, d) /\ Len(d) <= Len(c)
BY DEF Falsifies, subsumes

\* Nothing falsifies a tautology.
LEMMA FalseNoTautology ==
  ASSUME NEW J, NEW decided, NEW c \in Seq(Literal), Falsifies(J, decided, c)
  PROVE  ~isTautology(c)
<1> SUFFICES ASSUME NEW i \in DOMAIN c, NEW j \in DOMAIN c, c[i].atom = c[j].atom,
                    c[i].is_positive # c[j].is_positive
             PROVE  FALSE
  BY DEF isTautology
<1>1. c[i].is_positive \in BOOLEAN /\ c[j].is_positive \in BOOLEAN
  BY LiteralFields
<1>2. c[i].is_positive <=> c[j].is_positive
  BY DEF Falsifies
<1> QED BY <1>1, <1>2

\* A shortest clause of N that is false once atom a has the value of J decides
\* it by one literal only: by the factors, it would not be shortest otherwise.
LEMMA ShortestFalse ==
  ASSUME NEW N \in SUBSET Seq(Literal), SaturatedSet(N), NEW J, NEW decided, NEW a,
         Consistent(N, J \ {a}, decided \ {a}), ~Consistent(N, J, decided)
  PROVE  \E c \in N : Falsifies(J, decided, c) /\ Once(c, a)
<1> DEFINE Lens == {Len(c) : c \in {d \in N : Falsifies(J, decided, d)}}
<1>1. Lens \in SUBSET Nat /\ Lens # {}
  <2>1. \A c \in N : Len(c) \in Nat
    OBVIOUS
  <2>2. PICK c \in N : Falsifies(J, decided, c)
    BY DEF Consistent
  <2>3. Len(c) \in Lens
    BY <2>2
  <2> QED BY <2>1, <2>3
<1>2. PICK n \in Lens : \A m \in Lens : n <= m
  BY <1>1, LeastNatural
<1>3. PICK c \in N : Falsifies(J, decided, c) /\ Len(c) = n
  BY <1>2
<1>4. \A d \in N : Falsifies(J, decided, d) => Len(c) <= Len(d)
  BY <1>2, <1>3
<1> HIDE DEF Lens
<1>5. c \in Seq(Literal)
  OBVIOUS
<1>6. PICK i \in DOMAIN c : c[i].atom = a
  BY <1>3 DEF Consistent, Falsifies
<1>7. ASSUME NEW x \in DOMAIN c, NEW y \in DOMAIN c, x < y, c[x].atom = a, c[y].atom = a
      PROVE  FALSE
  <2>1. c[x] = c[y]
    <3>1. c[x].is_positive \in BOOLEAN /\ c[y].is_positive \in BOOLEAN /\ c[x] \in Literal /\ c[y] \in Literal
      BY <1>5, LiteralFields
    <3>2. c[x].is_positive <=> c[y].is_positive
      BY <1>3, <1>7 DEF Falsifies
    <3>3. c[x].is_positive = c[y].is_positive
      BY <3>1, <3>2
    <3> QED BY <1>7, <3>1, <3>3 DEF Literal
  <2>2. Dispensable(N, RemoveAt(c, y))
    BY <1>7, <2>1 DEF SaturatedSet
  <2>3. RemoveAt(c, y) \in Seq(Literal) /\ Len(RemoveAt(c, y)) = Len(c) - 1
    BY <1>5, RemoveAtProperties
  <2>4. Falsifies(J, decided, RemoveAt(c, y))
    <3>1. \A m \in DOMAIN RemoveAt(c, y) : \E k \in DOMAIN c : RemoveAt(c, y)[m] = c[k]
      BY <1>5, RemoveAtProperties
    <3> QED BY <1>3, <3>1 DEF Falsifies
  <2>5. PICK d \in N : subsumes(d, RemoveAt(c, y))
    BY <2>2, <2>3, <2>4, FalseNoTautology DEF Dispensable
  <2>6. Falsifies(J, decided, d) /\ Len(d) <= Len(c) - 1
    BY <2>3, <2>4, <2>5, FalseSubsumer
  <2>7. Len(c) \in Nat /\ Len(d) \in Nat /\ Len(c) <= Len(d)
    BY <1>4, <1>5, <2>6
  <2> QED BY <2>6, <2>7
<1>8. \A k \in DOMAIN c : k # i => c[k].atom # a
  <2> SUFFICES ASSUME NEW k \in DOMAIN c, k # i, c[k].atom = a PROVE FALSE
    OBVIOUS
  <2>1. k < i \/ i < k
    BY <1>5
  <2> QED BY <1>6, <1>7, <2>1
<1> QED BY <1>3, <1>6, <1>8 DEF Once

\* One more atom can be decided: a shortest clause that is false if it is true
\* and a shortest one that is false if it is not have a false resolvent.
LEMMA DecideOneMore ==
  ASSUME NEW N \in SUBSET Seq(Literal), SaturatedSet(N), NEW decided, NEW a, a \notin decided,
         NEW J \in SUBSET decided, Consistent(N, J, decided)
  PROVE  \E K \in SUBSET (decided \cup {a}) : Consistent(N, K, decided \cup {a})
<1>0. PICK more, K : more = decided \cup {a} /\ K = J \cup {a}
  OBVIOUS
<1> SUFFICES ASSUME ~Consistent(N, J, more), ~Consistent(N, K, more)
             PROVE  FALSE
  BY <1>0
<1>1. J \ {a} = J /\ K \ {a} = J /\ more \ {a} = decided /\ a \notin J
  BY <1>0
<1>c. PICK c \in N : Falsifies(K, more, c) /\ Once(c, a)
  <2>1. Consistent(N, K \ {a}, more \ {a})
    BY <1>1
  <2> QED BY <2>1, ShortestFalse
<1>d. PICK d \in N : Falsifies(J, more, d) /\ Once(d, a)
  <2>1. Consistent(N, J \ {a}, more \ {a})
    BY <1>1
  <2> QED BY <2>1, ShortestFalse
<1>2. PICK i \in DOMAIN c : /\ Falsifies(K, more, c) /\ c[i].atom = a
                            /\ \A k \in DOMAIN c : k # i => c[k].atom # a
  BY <1>c DEF Once
<1>3. PICK j \in DOMAIN d : /\ Falsifies(J, more, d) /\ d[j].atom = a
                            /\ \A k \in DOMAIN d : k # j => d[k].atom # a
  BY <1>d DEF Once
<1>4. c \in Seq(Literal) /\ d \in Seq(Literal)
  OBVIOUS
<1>5. ~c[i].is_positive /\ d[j].is_positive /\ c[i].is_positive # d[j].is_positive
  BY <1>0, <1>1, <1>2, <1>3 DEF Falsifies
<1>6. c # d
  BY <1>2, <1>3, <1>5
<1> DEFINE lits == RemoveAt(c, i) \o RemoveAt(d, j)
<1>7. Dispensable(N, lits)
  BY <1>2, <1>3, <1>5, <1>6 DEF SaturatedSet
<1>8. RemoveAt(c, i) \in Seq(Literal) /\ RemoveAt(d, j) \in Seq(Literal)
  BY <1>4, RemoveAtProperties
<1>9. lits \in Seq(Literal)
  BY <1>8
<1>10. Falsifies(J, decided, lits)
  <2>1. ASSUME NEW k \in DOMAIN c, k # i
        PROVE  /\ c[k].atom \in decided
               /\ c[k].is_positive <=> c[k].atom \notin J
    <3>1. c[k].atom \in more /\ c[k].atom # a
      BY <1>2, <2>1 DEF Falsifies
    <3>2. c[k].is_positive <=> c[k].atom \notin J \cup {a}
      BY <1>0, <1>2, <2>1 DEF Falsifies
    <3> QED BY <1>0, <3>1, <3>2
  <2>2. ASSUME NEW k \in DOMAIN d, k # j
        PROVE  /\ d[k].atom \in decided
               /\ d[k].is_positive <=> d[k].atom \notin J
    <3>1. d[k].atom \in more /\ d[k].atom # a
      BY <1>3, <2>2 DEF Falsifies
    <3>2. d[k].is_positive <=> d[k].atom \notin J
      BY <1>3, <2>2 DEF Falsifies
    <3> QED BY <1>0, <3>1, <3>2
  <2>3. \A m \in DOMAIN RemoveAt(c, i) : \E k \in DOMAIN c : k # i /\ RemoveAt(c, i)[m] = c[k]
    BY <1>4, RemoveAtProperties
  <2>4. \A m \in DOMAIN RemoveAt(d, j) : \E k \in DOMAIN d : k # j /\ RemoveAt(d, j)[m] = d[k]
    BY <1>4, RemoveAtProperties
  <2>5. ASSUME NEW m \in DOMAIN lits
        PROVE  /\ lits[m].atom \in decided
               /\ lits[m].is_positive <=> lits[m].atom \notin J
    <3>1. \/ \E k \in DOMAIN RemoveAt(c, i) : lits[m] = RemoveAt(c, i)[k]
          \/ \E k \in DOMAIN RemoveAt(d, j) : lits[m] = RemoveAt(d, j)[k]
      BY <1>8, ConcatOnly
    <3>2. \/ \E k \in DOMAIN c : k # i /\ lits[m] = c[k]
          \/ \E k \in DOMAIN d : k # j /\ lits[m] = d[k]
      BY <2>3, <2>4, <3>1
    <3> HIDE DEF lits
    <3> QED BY <2>1, <2>2, <3>2
  <2> QED BY <2>5 DEF Falsifies
<1> HIDE DEF lits
<1>11. PICK e \in N : subsumes(e, lits)
  BY <1>7, <1>9, <1>10, FalseNoTautology DEF Dispensable
<1>12. Falsifies(J, decided, e)
  BY <1>9, <1>10, <1>11, FalseSubsumer
<1> QED BY <1>12 DEF Consistent

\* A saturated set of clauses over finitely many atoms has a model: its atoms
\* are decided one after the other.
LEMMA SaturatedHasModel ==
  ASSUME NEW N \in SUBSET Seq(Literal), SaturatedSet(N),
         NEW basis, IsFiniteSet(basis), \A c \in N : Atoms(c) \subseteq basis
  PROVE  \E J \in SUBSET basis : \A c \in N : \E k \in DOMAIN c : (c[k].atom \in J) = c[k].is_positive
<1>1. PICK n \in Nat : ExistsBijection(1..n, basis)
  BY FS_NatBijection
<1>2. PICK f \in Bijection(1..n, basis) : TRUE
  BY <1>1 DEF ExistsBijection
<1>3. /\ f \in [1..n -> basis] /\ \A b \in basis : \E k \in 1..n : f[k] = b
      /\ \A k, l \in 1..n : f[k] = f[l] => k = l
  BY <1>2 DEF Bijection, Injection, Surjection, IsInjective
<1> DEFINE First(k) == {f[l] : l \in 1..k}
           Decidable(k) == \E J \in SUBSET First(k) : Consistent(N, J, First(k))
           Bad == {k \in 0..n : ~Decidable(k)}
<1>4. Decidable(0)
  <2>1. First(0) = {}
    OBVIOUS
  <2>2. \A c \in N : c # <<>> /\ c \in Seq(Literal)
    BY DEF SaturatedSet
  <2>3. \A c \in N : 1 \in DOMAIN c
    BY <2>2
  <2> QED BY <2>1, <2>3 DEF Consistent, Falsifies
<1>5. ASSUME NEW k \in 0..(n - 1), Decidable(k)
      PROVE  Decidable(k + 1)
  <2>1. k + 1 \in 1..n /\ k \in Nat /\ 1..(k + 1) = 1..k \cup {k + 1} /\ k + 1 \notin 1..k
        /\ 1..k \subseteq 1..n
    BY <1>1
  <2>2. First(k + 1) = First(k) \cup {f[k + 1]} /\ f[k + 1] \notin First(k)
    BY <1>3, <2>1
  <2>3. PICK decided : decided = First(k)
    OBVIOUS
  <2>4. PICK a : a = f[k + 1]
    OBVIOUS
  <2>5. First(k + 1) = decided \cup {a} /\ a \notin decided
    BY <2>2, <2>3, <2>4
  <2> HIDE DEF First
  <2>6. PICK J \in SUBSET decided : Consistent(N, J, decided)
    BY <1>5, <2>3
  <2>7. \E K \in SUBSET (decided \cup {a}) : Consistent(N, K, decided \cup {a})
    BY <2>5, <2>6, DecideOneMore
  <2> QED BY <2>5, <2>7
<1>6. Bad = {}
  <2> SUFFICES ASSUME Bad # {} PROVE FALSE
    OBVIOUS
  <2>1. Bad \in SUBSET Nat
    BY <1>1
  <2>2. PICK k \in Bad : \A m \in Bad : k <= m
    BY <2>1, LeastNatural
  <2> HIDE DEF Decidable
  <2>3. k # 0 /\ k \in 0..n /\ ~Decidable(k)
    BY <1>4, <2>2
  <2>4. k - 1 \in 0..(n - 1) /\ (k - 1) + 1 = k /\ ~(k <= k - 1) /\ k - 1 \in 0..n
    BY <1>1, <2>3
  <2>5. Decidable(k - 1)
    BY <2>2, <2>4
  <2>6. Decidable((k - 1) + 1)
    BY <1>5, <2>4, <2>5
  <2> QED BY <2>3, <2>4, <2>6
<1>7. First(n) = basis
  BY <1>3
<1>8. PICK J \in SUBSET basis : Consistent(N, J, basis)
  <2>1. Decidable(n)
    <3>1. n \in 0..n
      BY <1>1
    <3> HIDE DEF Decidable
    <3> QED BY <1>6, <3>1
  <2> HIDE DEF First, Bad
  <2> QED BY <1>7, <2>1
<1>9. ASSUME NEW c \in N
      PROVE  \E k \in DOMAIN c : (c[k].atom \in J) = c[k].is_positive
  <2>1. PICK k \in DOMAIN c : ~(/\ c[k].atom \in basis
                                 /\ c[k].is_positive <=> c[k].atom \notin J)
    BY <1>8 DEF Consistent, Falsifies
  <2>2. c[k].atom \in basis
    BY DEF Atoms
  <2>3. c[k].is_positive \in BOOLEAN
    BY LiteralFields
  <2>4. c[k].is_positive <=> c[k].atom \in J
    BY <2>1, <2>2
  <2> QED BY <2>3, <2>4
<1> QED BY <1>8, <1>9

-----------------------------------------------------------------------------
(* Saturation *)

\* When the queue is empty between two calls, the processed clauses are a
\* saturated set, and everything stored follows from it.
LEMMA SaturatedState ==
  ASSUME TypeOK, SearchLosesNothing, ProcessedIrredundant, Provenance, InputsGround,
         pc = "ready", unprocessed = {}, empty_clause_id = NoId,
         NEW N, N = {Literals(processed[k]) : k \in Live}
  PROVE  /\ N \in SUBSET Seq(Literal) /\ SaturatedSet(N)
         /\ \A id \in DOMAIN clauses : Dispensable(N, Literals(id))
<1>1. /\ StoredCovered /\ ProcessedCovered /\ new_clauses = <<>>
      /\ Active = {processed[k] : k \in Live} /\ Kept = {processed[k] : k \in Live}
  BY DEF SearchLosesNothing, TypeOK, Active, Kept, InFlight
<1>2. \A lits : Redundant(lits) <=> Dispensable(N, lits)
  BY <1>1 DEF Redundant, Dispensable
<1>3. \A lits : Covered(lits) => Dispensable(N, lits)
  BY <1>1, <1>2 DEF Covered
<1>4. ASSUME NEW k \in Live
      PROVE  /\ processed[k] \in DOMAIN clauses /\ processed[k] \in Kept
             /\ Literals(processed[k]) \in Seq(Literal)
             /\ Atoms(Literals(processed[k])) \subseteq Ground
  BY KeptTyped, LiteralsTyped, StoredGround
<1>5. N \in SUBSET Seq(Literal)
  BY <1>4
<1>6. \A c \in N : c # <<>> /\ ~isTautology(c)
  BY <1>4 DEF ProcessedIrredundant
<1>7. ASSUME NEW c \in N, NEW d \in N, NEW i \in DOMAIN c, NEW j \in DOMAIN d,
             c # d, c[i].atom = d[j].atom, c[i].is_positive # d[j].is_positive
      PROVE  Dispensable(N, RemoveAt(c, i) \o RemoveAt(d, j))
  <2>1. PICK k \in Live : c = Literals(processed[k])
    OBVIOUS
  <2>2. PICK l \in Live : d = Literals(processed[l])
    OBVIOUS
  <2>3. ResolventsCovered(c, d)
    BY <1>1, <1>7, <2>1, <2>2 DEF ProcessedCovered
  <2>4. PICK n \in 0..(CounterMod - 1) : \A r \in resolve(c, i, d, j, n) : Covered(r)
    <3>1. <<i, j>> \in ComplementaryPairs(c, d)
      BY <1>7 DEF ComplementaryPairs
    <3> QED BY <2>3, <3>1 DEF ResolventsCovered
  <2>5. RemoveAt(c, i) \o RemoveAt(d, j) \in resolve(c, i, d, j, n)
    BY <1>4, <1>7, <2>1, <2>2, GroundResolvents
  <2> QED BY <1>3, <2>4, <2>5
<1>8. ASSUME NEW c \in N, NEW i \in DOMAIN c, NEW j \in DOMAIN c, i < j, c[i] = c[j]
      PROVE  Dispensable(N, RemoveAt(c, j))
  <2>1. PICK k \in Live : c = Literals(processed[k])
    OBVIOUS
  <2>2. FactorsCovered(c)
    BY <1>1, <2>1 DEF ProcessedCovered
  <2>3. \A r \in factor(c, i, j) : Covered(r)
    <3>1. <<i, j>> \in FactorPairs(c)
      BY <1>8 DEF FactorPairs
    <3> QED BY <2>2, <3>1 DEF FactorsCovered
  <2>4. RemoveAt(c, j) \in factor(c, i, j)
    BY <1>4, <1>8, <2>1, GroundFactors
  <2> QED BY <1>3, <2>3, <2>4
<1>9. SaturatedSet(N)
  BY <1>6, <1>7, <1>8 DEF SaturatedSet
<1> QED BY <1>1, <1>2, <1>5, <1>9 DEF StoredCovered

\* There are finitely many atoms in finitely many clauses.
LEMMA FiniteBasis ==
  ASSUME TypeOK
  PROVE  IsFiniteSet(UNION {Atoms(Literals(processed[k])) : k \in Live})
<1>1. ASSUME NEW c \in Seq(Literal)
      PROVE  IsFiniteSet(Atoms(c))
  <2> DEFINE f == [k \in DOMAIN c |-> c[k].atom]
  <2>1. f \in Surjection(DOMAIN c, Atoms(c))
    BY DEF Surjection, Atoms
  <2>2. IsFiniteSet(DOMAIN c)
    <3>1. DOMAIN c = 1..Len(c) /\ Len(c) \in Int /\ 1 \in Int
      OBVIOUS
    <3> QED BY <3>1, FS_Interval
  <2> QED BY <2>1, <2>2, FS_Surjection
<1> DEFINE parts == {Atoms(Literals(processed[k])) : k \in Live}
           g     == [k \in Live |-> Atoms(Literals(processed[k]))]
<1>2. g \in Surjection(Live, parts)
  BY DEF Surjection
<1>3. IsFiniteSet(Live)
  <2>1. Live \in SUBSET (1..Len(processed)) /\ Len(processed) \in Int /\ 1 \in Int
    BY DEF TypeOK, Live
  <2>2. IsFiniteSet(1..Len(processed))
    BY <2>1, FS_Interval
  <2> QED BY <2>1, <2>2, FS_Subset
<1>4. IsFiniteSet(parts)
  <2> HIDE DEF g, parts
  <2> QED BY <1>2, <1>3, FS_Surjection
<1>5. \A A \in parts : IsFiniteSet(A)
  BY <1>1, KeptTyped, LiteralsTyped
<1> HIDE DEF parts
<1> QED BY <1>4, <1>5, FS_UNION DEF parts

\* Inputs without variables have a model when the queue runs out without a refutation.
LEMMA SaturationHasModel ==
  ASSUME TypeOK, SearchLosesNothing, ProcessedIrredundant, Provenance, InputsGround,
         pc = "ready", unprocessed = {}, empty_clause_id = NoId
  PROVE  \E I \in Interpretation : SatisfiesInputs(I)
<1>1. PICK N : N = {Literals(processed[k]) : k \in Live}
  OBVIOUS
<1>2. PICK basis : basis = UNION {Atoms(Literals(processed[k])) : k \in Live}
  OBVIOUS
<1>3. IsFiniteSet(basis)
  BY <1>2, FiniteBasis
<1>4. \A c \in N : Atoms(c) \subseteq basis
  BY <1>1, <1>2
<1>5. basis \subseteq Ground
  BY <1>2, StoredGround, KeptTyped
<1>6. /\ N \in SUBSET Seq(Literal) /\ SaturatedSet(N)
      /\ \A id \in DOMAIN clauses : Dispensable(N, Literals(id))
  BY <1>1, SaturatedState
<1>7. PICK J \in SUBSET basis :
        \A c \in N : \E k \in DOMAIN c : (c[k].atom \in J) = c[k].is_positive
  BY <1>3, <1>4, <1>6, SaturatedHasModel
<1>8. PICK I \in Interpretation : \A v \in Valuation, a \in Ground : Holds(I, v, a) = (a \in J)
  <2>1. J \in SUBSET Ground
    BY <1>5
  <2> QED BY <2>1, GroundAtoms DEF GroundAtoms
<1>9. ASSUME NEW id \in DOMAIN clauses
      PROVE  Satisfies(I, Literals(id))
  <2>1. Literals(id) \in Seq(Literal) /\ Atoms(Literals(id)) \subseteq Ground
    BY LiteralsTyped, StoredGround
  <2> DEFINE c == Literals(id)
  <2>2. \A k \in DOMAIN c : c[k].atom \in Ground /\ c[k].is_positive \in BOOLEAN
    BY <2>1, LiteralFields DEF Atoms
  <2> HIDE DEF c
  <2>3. \E k \in DOMAIN c : (c[k].atom \in J) = c[k].is_positive
    <3>1. CASE isTautology(c)
      <4>1. PICK i, j \in DOMAIN c : c[i].atom = c[j].atom /\ c[i].is_positive # c[j].is_positive
        BY <3>1 DEF isTautology
      <4>2. c[i].is_positive \in BOOLEAN /\ c[j].is_positive \in BOOLEAN
        BY <2>2
      <4>3. (c[i].atom \in J) = c[i].is_positive \/ (c[j].atom \in J) = c[j].is_positive
        BY <4>1, <4>2
      <4> QED BY <4>3
    <3>2. CASE \E d \in N : subsumes(d, c)
      BY <1>7, <3>2 DEF subsumes
    <3> QED BY <1>6, <3>1, <3>2 DEF Dispensable, c
  <2>4. ASSUME NEW v \in Valuation
        PROVE  \E k \in DOMAIN c : Holds(I, v, c[k].atom) = c[k].is_positive
    BY <1>8, <2>2, <2>3
  <2> QED BY <2>4 DEF Satisfies, c
<1> QED BY <1>9 DEF SatisfiesInputs

-----------------------------------------------------------------------------
(* A caller that has its empty clause does not ask again.                    *)

\* The call that finds an empty clause returns.
RefutationEnds == empty_clause_id # NoId => pc = "ready" /\ result = "kTheorem"

\* No call goes on once the empty clause is known.
LEMMA RefutationEndsNext ==
  ASSUME RefutationEnds, [Next]_vars, Prove => empty_clause_id = NoId
  PROVE  RefutationEnds'
<1>1. CASE Prove
  BY <1>1 DEF Prove, search, RefutationEnds
<1>2. CASE (\E batch \in Batches : addClauses(batch)) \/ UNCHANGED vars
  BY <1>2 DEF addClauses, vars, RefutationEnds
<1>3. CASE DeriveEmpty \/ \E id \in unprocessed : RefuteByGiven(id)
  BY <1>3 DEF DeriveEmpty, RefuteByGiven, Return, RefutationEnds
<1>4. CASE \/ Saturate \/ Timeout \/ Generate \/ DiscardTautology \/ StoreNewClause \/ FinishProcess
           \/ \E id \in unprocessed : SkipGiven(id) \/ ExpandGiven(id)
  <2>1. pc # "ready" /\ UNCHANGED empty_clause_id
    BY <1>4 DEF Saturate, Timeout, Generate, FinishGenerate, GenerateResolvent, GenerateFactor,
                DiscardTautology, StoreNewClause, FinishProcess, SkipGiven, ExpandGiven,
                popGivenClause, search
  <2> QED BY <2>1 DEF RefutationEnds
<1> QED BY <1>1, <1>2, <1>3, <1>4 DEF Next, ProverStep, CallerStep, LoopHead, Process

\* Refutational completeness, for ground problems: if the queue runs empty
\* (kSaturation) the clauses added so far have a model.  What simplification
\* deleted, what a timeout interrupted and what was added between two calls
\* notwithstanding.
THEOREM GroundCompleteness ==
  ASSUME GroundProblem, ~ReproveAfterTheorem
  PROVE  Spec => []SaturationIsSatisfiable
<1>1. RefutationEnds /\ [Next]_vars => RefutationEnds'
  <2>1. Prove => empty_clause_id = NoId
    BY DEF Prove
  <2> QED BY <2>1, RefutationEndsNext
<1>2. TypeOK /\ SearchLosesNothing /\ ProcessedIrredundant /\ Provenance
        /\ NewDerived /\ InputsGround /\ RefutationEnds => SaturationIsSatisfiable
  <2> SUFFICES ASSUME TypeOK, SearchLosesNothing, ProcessedIrredundant, Provenance,
                      NewDerived, InputsGround, RefutationEnds,
                      pc = "ready", result = "kSaturation", unprocessed = {}
               PROVE  \E I \in Interpretation : SatisfiesInputs(I)
    BY DEF SaturationIsSatisfiable
  <2>1. empty_clause_id = NoId
    BY DEF RefutationEnds
  <2> QED BY <2>1, SaturationHasModel
<1>3. Init => RefutationEnds
  BY DEF Init, RefutationEnds
<1> QED BY <1>1, <1>2, <1>3, TypeCorrect, SearchCorrect, IrredundantCorrect, ProvenanceCorrect,
           StaysGround, PTL DEF Spec

\* For ground problems nothing is left to the runs or asked of the configuration:
\* the prover implements the abstract Decision, with the occurs check off too.
THEOREM RefinesDecisionGround ==
  ASSUME GroundProblem, ~ReproveAfterTheorem
  PROVE  Spec => ImplementsDecision
BY GroundCompleteness, RefinesDecision, PTL

-----------------------------------------------------------------------------
(***************************************************************************)
(* The program: what is printed after "Theorem" is a refutation, and       *)
(* "Satisfiable" is true of ground problems.  The theorems about the       *)
(* search and about the extraction are put together.                       *)
(***************************************************************************)

Walk == INSTANCE ProofTraceProofs

\* What the theorems about the prover say of every state of the program.
ProverInv == TypeOK /\ Provenance /\ VerdictInv

\* The walk belongs to the one call that answered kTheorem, and nothing is
\* printed before it ends.
AtpInv ==
  /\ Walk!TraceInv
  /\ stage \in {"started", "loaded", "proving"} => Walk!TraceInit
  /\ phase # "idle" => pc = "ready" /\ result = "kTheorem" /\ root = empty_clause_id
  /\ szs = "Theorem" => phase # "idle"
  /\ stage = "exited" => phase # "walking"

-----------------------------------------------------------------------------
(* The two components *)

\* main() is a caller of the prover.
THEOREM AtpIsProver == AtpSpec => Spec
<1>1. AtpInit => Init
  BY DEF AtpInit
<1>2. [AtpNext]_atp_vars => [Next]_vars
  BY DEF AtpNext, Usage, RejectInput, LoadProblem, CallProve, RunProver, FailToRename,
         ReportTheorem, ReportNoProof, ExtractProof, PrintProof, Next, CallerStep, atp_vars
<1> QED BY <1>1, <1>2, PTL DEF AtpSpec, Spec

\* What is invariant of Prover is invariant of the engine in Atp.
LEMMA AtpProverInv == AtpSpec => []ProverInv
<1>1. TypeOK /\ Provenance /\ VerdictInv => ProverInv
  BY DEF ProverInv
<1> QED BY <1>1, AtpIsProver, TypeCorrect, ProvenanceCorrect, VerdictHasEmptyClause, PTL

\* What Trace and Walk name is the same.
LEMMA SameWalk ==
  /\ Trace!TraceInit <=> Walk!TraceInit
  /\ Trace!ExtractStep <=> Walk!ExtractStep
  /\ Trace!extractProof(empty_clause_id) <=> Walk!extractProof(empty_clause_id)
  /\ Trace!ProofIsAncestry <=> Walk!ProofIsAncestry
  /\ Trace!ProofIsReadable <=> Walk!ProofIsReadable
<1>1. Trace!TraceInit <=> Walk!TraceInit
  BY DEF Trace!TraceInit, Walk!TraceInit, Trace!NoId, Walk!NoId
<1>2. Trace!ExtractStep <=> Walk!ExtractStep
  <2>1. Trace!SkipId <=> Walk!SkipId
    BY DEF Trace!SkipId, Walk!SkipId, Trace!Pop, Walk!Pop, Trace!NoId, Walk!NoId
  <2>2. Trace!VisitId <=> Walk!VisitId
    BY DEF Trace!VisitId, Walk!VisitId, Trace!Pop, Walk!Pop, Trace!NoId, Walk!NoId
  <2>3. Trace!ReverseSteps <=> Walk!ReverseSteps
    BY DEF Trace!ReverseSteps, Walk!ReverseSteps, Trace!Reverse, Walk!Reverse
  <2> QED BY <2>1, <2>2, <2>3 DEF Trace!ExtractStep, Walk!ExtractStep
<1>3. Trace!extractProof(empty_clause_id) <=> Walk!extractProof(empty_clause_id)
  BY DEF Trace!extractProof, Walk!extractProof
<1>4. Trace!ProofIsAncestry <=> Walk!ProofIsAncestry
  <2>1. \A S : Trace!ParentClosed(S) <=> Walk!ParentClosed(S)
    BY DEF Trace!ParentClosed, Walk!ParentClosed, Trace!Parents, Walk!Parents,
           Trace!NoId, Walk!NoId
  <2> QED BY <2>1 DEF Trace!ProofIsAncestry, Walk!ProofIsAncestry, Trace!ToSet, Walk!ToSet
<1>5. Trace!ProofIsReadable <=> Walk!ProofIsReadable
  BY DEF Trace!ProofIsReadable, Walk!ProofIsReadable, Trace!formatProof, Walk!formatProof,
         Trace!Parents, Walk!Parents, Trace!id_to_step, Walk!id_to_step,
         Trace!NoId, Walk!NoId, Trace!Fallback, Walk!Fallback
<1> QED BY <1>1, <1>2, <1>3, <1>4, <1>5

\* The store the prover fills is one that extractProof can walk.
LEMMA StoreIsTraceable == TypeOK /\ Provenance => Walk!StoreOK
<1> SUFFICES ASSUME TypeOK, Provenance PROVE Walk!StoreOK
  OBVIOUS
<1>1. Len(clauses) \in Nat /\ DOMAIN clauses = 1..Len(clauses)
  BY DEF TypeOK
<1>2. ASSUME NEW id \in DOMAIN clauses
      PROVE  /\ clauses[id].parent1 \in 0..(id - 1) /\ clauses[id].parent2 \in 0..(id - 1)
             /\ clauses[id].parent1 = 0 => clauses[id].parent2 = 0
  <2>1. id \in Nat \ {0}
    BY <1>1
  <2>2. InferredFrom(clauses[id], 1..(id - 1))
    BY DEF Provenance
  <2> QED BY <2>1, <2>2 DEF InferredFrom, NoId
<1> QED BY <1>1, <1>2 DEF Walk!StoreOK, Walk!NoId

\* Before the walk the store may change.
LEMMA IdleWalk == TypeOK /\ Provenance /\ Walk!TraceInit => Walk!TraceInv
BY StoreIsTraceable, Walk!TraceInvInit

-----------------------------------------------------------------------------
(* The program's steps *)

\* Loading and proving leave the walk where it is.
LEMMA AtpBefore ==
  ASSUME ProverInv', AtpInv, LoadProblem \/ CallProve \/ RunProver
  PROVE  AtpInv'
<1>1. /\ stage \in {"started", "loaded", "proving"} /\ stage' \in {"loaded", "proving"}
      /\ UNCHANGED <<szs, root, worklist, visited, steps, phase>>
  BY DEF LoadProblem, CallProve, RunProver, trace
<1>2. Walk!TraceInit /\ Walk!TraceInit'
  BY <1>1 DEF AtpInv, Walk!TraceInit, Walk!NoId
<1>3. (TypeOK /\ Provenance /\ Walk!TraceInit => Walk!TraceInv)'
  BY IdleWalk, PTL
<1>4. Walk!TraceInv'
  BY <1>2, <1>3 DEF ProverInv
<1>5. phase = "idle" /\ phase' = "idle"
  BY <1>2 DEF Walk!TraceInit
<1> QED BY <1>1, <1>2, <1>4, <1>5 DEF AtpInv

\* kTheorem comes with the id of an empty clause, so the walk begins.
LEMMA AtpReport ==
  ASSUME ProverInv, AtpInv, ReportTheorem
  PROVE  AtpInv'
<1>1. /\ stage = "proving" /\ pc = "ready" /\ result = "kTheorem" /\ szs' = "Theorem"
      /\ UNCHANGED <<clauses, pc, result, empty_clause_id>>
  BY DEF ReportTheorem, vars, store, search, caller
<1>2. empty_clause_id \in DOMAIN clauses /\ empty_clause_id # NoId
  BY <1>1 DEF ProverInv, VerdictInv, TypeOK, NoId
<1>3. Walk!extractProof(empty_clause_id) /\ stage' = "extracting"
  BY <1>2, SameWalk DEF ReportTheorem
<1>4. Walk!TraceNext
  BY <1>1, <1>2, <1>3 DEF Walk!TraceNext
<1>5. Walk!TraceInv'
  BY <1>4, Walk!WalkNext DEF AtpInv
<1>6. phase' = "walking" /\ root' = empty_clause_id
  BY <1>3 DEF Walk!extractProof
<1> QED BY <1>1, <1>3, <1>5, <1>6 DEF AtpInv

\* A step of the walk.
LEMMA AtpExtract ==
  ASSUME AtpInv, ExtractProof
  PROVE  AtpInv'
<1>1. /\ stage = "extracting" /\ stage' = "extracting" /\ Walk!ExtractStep
      /\ UNCHANGED <<clauses, pc, result, empty_clause_id, szs>>
  BY SameWalk DEF ExtractProof, vars, store, search, caller
<1>2. Walk!TraceNext
  BY <1>1 DEF Walk!TraceNext
<1>3. Walk!TraceInv'
  BY <1>2, Walk!WalkNext DEF AtpInv
<1>4. phase = "walking" /\ phase' \in {"walking", "done"} /\ root' = root
  BY <1>1 DEF Walk!ExtractStep, Walk!SkipId, Walk!VisitId, Walk!ReverseSteps
<1> QED BY <1>1, <1>3, <1>4 DEF AtpInv

\* The ends of main().
LEMMA AtpEnds ==
  ASSUME AtpInv, Usage \/ RejectInput \/ FailToRename \/ ReportNoProof \/ PrintProof
  PROVE  AtpInv'
<1>1. /\ stage' = "exited" /\ phase # "walking"
      /\ UNCHANGED <<clauses, pc, result, empty_clause_id, root, worklist, visited, steps, phase>>
      /\ szs' = "Theorem" => szs = "Theorem"
  BY DEF AtpInv, Usage, RejectInput, FailToRename, ReportNoProof, PrintProof, Exit, trace, vars,
         store, search, caller, Walk!TraceInit
<1>2. UNCHANGED <<clauses, Walk!trace_vars>>
  BY <1>1 DEF Walk!trace_vars
<1>3. Walk!TraceInv'
  BY <1>2, Walk!WalkNext DEF AtpInv
<1> QED BY <1>1, <1>3 DEF AtpInv

\* Every step of main keeps the walk to the call that answered kTheorem.
LEMMA AtpInvNext ==
  ASSUME ProverInv, ProverInv', AtpInv, [AtpNext]_atp_vars
  PROVE  AtpInv'
<1>1. CASE UNCHANGED atp_vars
  <2>1. UNCHANGED <<clauses, pc, result, empty_clause_id, stage, szs,
                    root, worklist, visited, steps, phase>>
    BY <1>1 DEF atp_vars, vars, store, search, caller
  <2>2. UNCHANGED <<clauses, Walk!trace_vars>>
    BY <2>1 DEF Walk!trace_vars
  <2>3. Walk!TraceInv'
    BY <2>2, Walk!WalkNext DEF AtpInv
  <2>4. Walk!TraceInit => Walk!TraceInit'
    BY <2>1 DEF Walk!TraceInit, Walk!NoId
  <2> QED BY <2>1, <2>3, <2>4 DEF AtpInv
<1> QED BY <1>1, AtpBefore, AtpReport, AtpExtract, AtpEnds DEF AtpNext

-----------------------------------------------------------------------------
(* The printed proof *)

\* A set of stored clauses with their parents is a derivation.
LEMMA AncestryIsDerivation ==
  ASSUME TypeOK, Provenance, NEW D \in SUBSET DOMAIN clauses, Walk!ParentClosed(D)
  PROVE  Derivation(D)
<1> SUFFICES ASSUME NEW id \in D PROVE InferredFrom(clauses[id], D)
  BY DEF Derivation
<1>1. PICK c : c = clauses[id]
  OBVIOUS
<1>2. InferredFrom(c, 1..(id - 1)) /\ id \in Nat
  BY <1>1 DEF Provenance, TypeOK
<1>3. \A p \in {c.parent1, c.parent2} : p \in 1..(id - 1) => p \in D
  <2>1. {c.parent1, c.parent2} \ {0} \subseteq D
    BY <1>1 DEF Walk!ParentClosed, Walk!Parents, Walk!NoId
  <2> QED BY <1>2, <2>1
<1> QED BY <1>1, <1>2, <1>3 DEF InferredFrom

\* The listed clauses are a derivation of the empty clause from its inputs.
LEMMA DoneIsDerivation ==
  ASSUME ProverInv, AtpInv, phase = "done"
  PROVE  /\ steps # <<>> /\ Trace!ProofIsAncestry /\ Trace!ProofIsReadable
         /\ Literals(steps[Len(steps)]) = <<>>
         /\ ToSet(steps) \in SUBSET DOMAIN clauses /\ Derivation(ToSet(steps))
<1>1. Walk!ProofIsAncestry /\ Walk!ProofIsReadable
  BY Walk!ReadableAtEnd DEF AtpInv, Walk!TraceInv, Walk!DoneInv
<1>2. /\ steps # <<>> /\ steps[Len(steps)] = root /\ root = empty_clause_id
      /\ steps \in Seq(DOMAIN clauses)
  BY DEF AtpInv, Walk!TraceInv, Walk!DoneInv, Walk!TraceOK
<1>3. empty_clause_id \in DOMAIN clauses /\ Literals(empty_clause_id) = <<>>
  BY DEF AtpInv, ProverInv, TypeOK, VerdictInv
<1>4. ToSet(steps) \in SUBSET DOMAIN clauses
  BY <1>2 DEF ToSet
<1>5. Walk!ParentClosed(ToSet(steps))
  BY <1>1 DEF Walk!ProofIsAncestry, Walk!ToSet, ToSet
<1>6. Derivation(ToSet(steps))
  BY <1>4, <1>5, AncestryIsDerivation DEF ProverInv
<1> QED BY <1>1, <1>2, <1>3, <1>4, <1>6, SameWalk

\* The walk of main() ends in such a derivation.
LEMMA AtpInvAlways == AtpSpec => []AtpInv
<1>1. AtpInit /\ ProverInv => AtpInv
  <2> SUFFICES ASSUME AtpInit, ProverInv PROVE AtpInv
    OBVIOUS
  <2>1. Walk!TraceInit /\ stage = "started" /\ szs = "none"
    BY SameWalk DEF AtpInit
  <2>2. phase = "idle"
    BY <2>1 DEF Walk!TraceInit
  <2>3. Walk!TraceInv
    BY <2>1, IdleWalk DEF ProverInv
  <2> QED BY <2>1, <2>2, <2>3 DEF AtpInv
<1>2. ProverInv /\ ProverInv' /\ AtpInv /\ [AtpNext]_atp_vars => AtpInv'
  BY AtpInvNext
<1> QED BY <1>1, <1>2, AtpProverInv, PTL DEF AtpSpec

\* Whatever the problem and the configuration, and however the search and the
\* walk go: when the program has printed "Theorem" and exited, it has printed a
\* derivation of the empty clause by the rules as the code applies them.
THEOREM PrintedDerivationCorrect == AtpSpec => []PrintedProofIsDerivation
<1>1. ProverInv /\ AtpInv => PrintedProofIsDerivation
  <2> SUFFICES ASSUME ProverInv, AtpInv, Printed PROVE PrintedProofIsDerivation
    BY DEF PrintedProofIsDerivation
  <2>1. phase = "done"
    BY DEF Printed, AtpInv, Walk!TraceInv, Walk!TraceOK
  <2>2. \A n \in DOMAIN steps : InferredFrom(clauses[steps[n]], ToSet(steps))
    <3>1. \A n \in DOMAIN steps : steps[n] \in ToSet(steps)
      BY DEF ToSet
    <3> QED BY <2>1, <3>1, DoneIsDerivation DEF Derivation
  <2> QED BY <2>1, <2>2, DoneIsDerivation DEF PrintedProofIsDerivation
<1> QED BY <1>1, AtpProverInv, AtpInvAlways, PTL

\* And it is a refutation of the problem, if the occurs check is on or the
\* problem has no variables, as main() does not turn the check on.
THEOREM PrintedProofCorrect ==
  ASSUME OccursCheck \/ GroundProblem
  PROVE  AtpSpec => []PrintedProofIsRefutation
<1>1. ProverInv /\ AtpInv /\ DerivationsSound /\ PrintedProofIsDerivation
        => PrintedProofIsRefutation
  <2> SUFFICES ASSUME ProverInv, AtpInv, DerivationsSound, Printed,
                      NEW I \in Interpretation,
                      \A n \in DOMAIN steps :
                        clauses[steps[n]].rule = "kInput" => Satisfies(I, Literals(steps[n]))
               PROVE  FALSE
    BY DEF PrintedProofIsRefutation
  <2>1. phase = "done"
    BY DEF Printed, AtpInv, Walk!TraceInv, Walk!TraceOK
  <2>2. PICK D : D = ToSet(steps)
    OBVIOUS
  <2>3. /\ steps # <<>> /\ Literals(steps[Len(steps)]) = <<>>
        /\ D \in SUBSET DOMAIN clauses /\ Derivation(D)
    BY <2>1, <2>2, DoneIsDerivation
  <2>4. \A id \in D : \E n \in DOMAIN steps : id = steps[n]
    BY <2>2 DEF ToSet
  <2>5. SatisfiesInputsOf(I, D)
    BY <2>4 DEF SatisfiesInputsOf
  <2>6. steps[Len(steps)] \in D
    <3>1. steps \in Seq(DOMAIN clauses)
      BY DEF AtpInv, Walk!TraceInv, Walk!TraceOK
    <3>2. Len(steps) \in DOMAIN steps
      BY <2>3, <3>1
    <3> QED BY <2>2, <3>2 DEF ToSet
  <2>7. Satisfies(I, <<>>)
    BY <2>3, <2>5, <2>6 DEF DerivationsSound
  <2>8. DOMAIN <<>> = {}
    OBVIOUS
  <2> QED BY <2>7, <2>8, ValuationExists DEF Satisfies, ValuationExists
<1> QED BY <1>1, AtpProverInv, AtpInvAlways, PrintedDerivationCorrect, AtpIsProver,
           DerivationsCorrect, PTL

-----------------------------------------------------------------------------
(* The status line "Satisfiable" *)

\* prove() is called once, so its verdict is about all the clauses there are.
OneCall ==
  /\ stage \in {"started", "loaded"} => empty_clause_id = NoId /\ result = "none"
  /\ RefutationEnds
  /\ result = "kSaturation" => pc = "ready" /\ unprocessed = {}
  /\ szs = "Satisfiable" => result = "kSaturation"

\* Every step keeps what is known of the one call of prove().
LEMMA OneCallNext ==
  ASSUME OneCall, [AtpNext]_atp_vars
  PROVE  OneCall'
<1>1. ProverStep => pc # "ready" /\ (result' = "kSaturation" =>
                      result = "kSaturation" \/ (pc' = "ready" /\ unprocessed' = {}))
  BY DEF ProverStep, LoopHead, Generate, Process, Saturate, Timeout, RefuteByGiven, SkipGiven,
         ExpandGiven, popGivenClause, FinishGenerate, GenerateResolvent, GenerateFactor,
         DeriveEmpty, DiscardTautology, StoreNewClause, FinishProcess, Return, search, caller
<1>2. RefutationEnds'
  <2>1. [Next]_vars
    BY DEF AtpNext, Usage, RejectInput, LoadProblem, CallProve, RunProver, FailToRename,
           ReportTheorem, ReportNoProof, ExtractProof, PrintProof, Next, CallerStep, atp_vars
  <2>2. Prove => stage = "loaded"
    BY <1>1 DEF AtpNext, Usage, RejectInput, LoadProblem, addClauses, CallProve, RunProver,
           FailToRename, ReportTheorem, ReportNoProof, ExtractProof, PrintProof, atp_vars,
           vars, Prove
  <2>3. Prove => empty_clause_id = NoId
    BY <2>2 DEF OneCall
  <2> QED BY <2>1, <2>3, RefutationEndsNext DEF OneCall
<1>3. CASE LoadProblem
  BY <1>2, <1>3 DEF LoadProblem, addClauses, OneCall
<1>4. CASE CallProve
  BY <1>2, <1>4 DEF CallProve, Prove, search, OneCall
<1>5. CASE RunProver
  BY <1>1, <1>2, <1>5 DEF RunProver, OneCall
<1>6. CASE \/ Usage \/ RejectInput \/ FailToRename \/ ReportTheorem \/ ReportNoProof
           \/ ExtractProof \/ PrintProof \/ UNCHANGED atp_vars
  <2>1. UNCHANGED <<pc, result, unprocessed, empty_clause_id>>
    BY <1>6 DEF Usage, RejectInput, FailToRename, ReportTheorem, ReportNoProof, ExtractProof,
                PrintProof, atp_vars, vars
  <2>2. /\ stage' \in {"started", "loaded"} => stage' = stage
        /\ szs' = "Satisfiable" => szs = "Satisfiable" \/ result = "kSaturation"
    BY <1>6 DEF Usage, RejectInput, FailToRename, ReportTheorem, ReportNoProof, ExtractProof,
                PrintProof, Exit, atp_vars
  <2> QED BY <1>2, <2>1, <2>2 DEF OneCall
<1> QED BY <1>3, <1>4, <1>5, <1>6 DEF AtpNext

\* "Satisfiable" is printed of a ground problem only if its clauses have a
\* model: completeness of the search, with the one call main() makes.
THEOREM SatisfiableCorrect ==
  ASSUME GroundProblem
  PROVE  AtpSpec => []SatisfiableHasModel
<1>1. AtpInit => OneCall
  BY DEF AtpInit, Init, OneCall, RefutationEnds
<1>2. OneCall /\ [AtpNext]_atp_vars => OneCall'
  BY OneCallNext
<1>3. TypeOK /\ SearchLosesNothing /\ ProcessedIrredundant /\ Provenance
        /\ NewDerived /\ InputsGround /\ OneCall => SatisfiableHasModel
  <2> SUFFICES ASSUME TypeOK, SearchLosesNothing, ProcessedIrredundant, Provenance,
                      NewDerived, InputsGround, OneCall, szs = "Satisfiable"
               PROVE  \E I \in Interpretation : SatisfiesInputs(I)
    BY DEF SatisfiableHasModel
  <2>1. pc = "ready" /\ unprocessed = {} /\ empty_clause_id = NoId
    BY DEF OneCall, RefutationEnds
  <2> QED BY <2>1, SaturationHasModel
<1> QED BY <1>1, <1>2, <1>3, AtpIsProver, TypeCorrect, SearchCorrect, IrredundantCorrect,
           ProvenanceCorrect, StaysGround, PTL DEF AtpSpec
=============================================================================
