-------------------------- MODULE SubstituteProofs ----------------------------
(***************************************************************************)
(* Theorems about renameVariables() and applySubstitution(), for every     *)
(* problem the parser can leave and every substitution unify() can make:   *)
(* the bank stays hash-consed, renamed clauses have variables of their     *)
(* own, and what is built is the instance.                                 *)
(***************************************************************************)
EXTENDS SubstituteProperties, BankProofs, FiniteSetTheorems

Ids == DOMAIN terms

-----------------------------------------------------------------------------
(* The variables of a term                                                  *)

VariablesOf ==
  LET In[id \in DOMAIN terms] ==
        IF isVariable(id) THEN {id} ELSE UNION {In[arg] : arg \in Members(terms[id].args)}
  IN  In

\* V has the variables of each of the first n terms S over the symbols I.
Collects(V, I, S, n) ==
  V = [i \in 1..n |-> IF I[S[i].symbol].kind = "kVariable" THEN {i}
                      ELSE UNION {V[a] : a \in Members(S[i].args)}]

\* The recursion over the arguments has a solution.
LEMMA CollectExists ==
  ASSUME NEW n \in Nat, NEW I, NEW S, ArgsOlder(S, n)
  PROVE  \E V : Collects(V, I, S, n)
<1> DEFINE Bad == {m \in 0..n : ~\E V : Collects(V, I, S, m)}
<1> SUFFICES ASSUME Bad # {} PROVE FALSE
  OBVIOUS
<1>1. PICK m \in Bad : \A l \in Bad : m <= l
  <2>1. Bad \in SUBSET Nat
    OBVIOUS
  <2> QED BY <2>1, LeastNatural
<1>2. m \in 0..n /\ ~\E V : Collects(V, I, S, m)
  OBVIOUS
<1>3. m # 0
  <2>1. 1..0 = {}
    OBVIOUS
  <2>2. Collects([i \in {} |-> {}], I, S, 0)
    BY <2>1 DEF Collects
  <2> QED BY <1>2, <2>2
<1>4. m \in Nat /\ m - 1 \in 0..n /\ ~(m <= m - 1) /\ m - 1 \in Nat
  BY <1>2, <1>3
<1>5. PICK V : Collects(V, I, S, m - 1)
  BY <1>1, <1>4
<1> HIDE DEF Bad
<1> DEFINE Set(i) == IF I[S[i].symbol].kind = "kVariable" THEN {i}
                     ELSE UNION {V[a] : a \in Members(S[i].args)}
           U == [i \in 1..m |-> Set(i)]
<1>6. \A i \in 1..(m - 1) : U[i] = V[i]
  <2>1. \A i \in 1..(m - 1) : i \in 1..m
    BY <1>4
  <2>2. \A i \in 1..(m - 1) : V[i] = Set(i)
    BY <1>5 DEF Collects
  <2> QED BY <2>1, <2>2
<1>7. \A i \in 1..m : \A a \in Members(S[i].args) : U[a] = V[a]
  <2> TAKE i \in 1..m
  <2>1. \A a \in Members(S[i].args) : a \in 1..(m - 1)
    BY <1>2, <1>4 DEF ArgsOlder, Members
  <2> HIDE DEF U
  <2> QED BY <1>6, <2>1
<1>8. Collects(U, I, S, m)
  <2>1. \A i \in 1..m : Set(i) = IF I[S[i].symbol].kind = "kVariable" THEN {i}
                                 ELSE UNION {U[a] : a \in Members(S[i].args)}
    <3> HIDE DEF U
    <3>1. ASSUME NEW i \in 1..m
          PROVE  UNION {V[a] : a \in Members(S[i].args)} = UNION {U[a] : a \in Members(S[i].args)}
      BY <1>7, Zenon
    <3> QED BY <3>1, Zenon
  <2>2. U = [i \in 1..m |-> Set(i)]
    OBVIOUS
  <2> HIDE DEF U, Set
  <2> QED BY <2>1, <2>2 DEF Collects
<1> QED BY <1>2, <1>8

\* It is the definition, unfolded once.
LEMMA Collected ==
  ASSUME BankOK
  PROVE  /\ \A i \in Ids : VariablesOf[i] = IF isVariable(i) THEN {i}
                                            ELSE UNION {VariablesOf[a] : a \in Members(terms[i].args)}
         /\ \A c : collectVariables(c) = UNION {VariablesOf[i] : i \in Members(c)}
<1>1. DOMAIN terms = 1..Len(terms) /\ Len(terms) \in Nat /\ ArgsOlder(terms, Len(terms))
  BY TreesUnfold
<1>2. PICK V : Collects(V, infos, terms, Len(terms))
  BY <1>1, CollectExists
<1> DEFINE Is(v) == v = [id \in DOMAIN terms |->
              IF isVariable(id) THEN {id} ELSE UNION {v[arg] : arg \in Members(terms[id].args)}]
           In == CHOOSE v : Is(v)
<1>3. Is(V)
  BY <1>1, <1>2 DEF Collects, isVariable
<1>4. VariablesOf = In
  BY DEF VariablesOf
<1>5. Is(In)
  <2> HIDE DEF Is
  <2> QED BY <1>3
<1>6. \A c : collectVariables(c) = UNION {In[i] : i \in Members(c)}
  BY DEF collectVariables
<1> HIDE DEF In
<1>7. \A i \in Ids : In[i] = IF isVariable(i) THEN {i}
                             ELSE UNION {In[a] : a \in Members(terms[i].args)}
  BY <1>5 DEF Ids
<1> QED BY <1>4, <1>6, <1>7

VariablesByTerm ==
  \A i \in Ids : VariablesOf[i] = IF isVariable(i) THEN {i}
                                  ELSE UNION {VariablesOf[a] : a \in Members(terms[i].args)}

\* A term's variables are its own or those of its arguments.
LEMMA VariablesCollected == BankOK => VariablesByTerm
BY Collected DEF VariablesByTerm

VariablesOfSequence == \A c : collectVariables(c) = UNION {VariablesOf[i] : i \in Members(c)}

\* A list's variables are those of its members.
LEMMA SequenceCollected == BankOK => VariablesOfSequence
BY Collected DEF VariablesOfSequence

\* The arguments of a term are in the bank and older.
LEMMA Arguments ==
  ASSUME BankOK, NEW i \in Ids
  PROVE  /\ \A a \in Members(terms[i].args) : a \in Ids /\ a < i
         /\ terms[i].args \in Seq(Ids) /\ Ids = 1..Len(terms) /\ Len(terms) \in Nat
<1>1. terms[i].args \in Seq(Ids) /\ \A k \in DOMAIN terms[i].args : terms[i].args[k] < i
  BY StoredFields DEF BankOK, TermsOK, Ids
<1>2. Ids = 1..Len(terms) /\ Len(terms) \in Nat
  BY TreesUnfold DEF Ids
<1> QED BY <1>1, <1>2 DEF Members

\* What is collected are variables of the bank.
LEMMA VariablesAreVariables ==
  ASSUME BankOK
  PROVE  \A i \in Ids : \A v \in VariablesOf[i] : v \in Ids /\ isVariable(v)
<1> DEFINE Bad == {i \in Ids : ~\A v \in VariablesOf[i] : v \in Ids /\ isVariable(v)}
<1> SUFFICES ASSUME Bad # {} PROVE FALSE
  OBVIOUS
<1>1. Ids = 1..Len(terms) /\ Len(terms) \in Nat
  BY TreesUnfold DEF Ids
<1>2. PICK i \in Bad : \A l \in Bad : i <= l
  <2>1. Bad \in SUBSET Nat
    BY <1>1
  <2> QED BY <2>1, LeastNatural
<1>3. \A a \in Members(terms[i].args) : a \in Ids /\ a \notin Bad
  <2>1. \A a \in Members(terms[i].args) : a \in Ids /\ a < i
    BY Arguments
  <2> HIDE DEF Bad
  <2> QED BY <1>1, <1>2, <2>1 DEF Bad
<1>4. VariablesOf[i] = IF isVariable(i) THEN {i}
                       ELSE UNION {VariablesOf[a] : a \in Members(terms[i].args)}
  BY Collected
<1> QED BY <1>3, <1>4

\* A bank that grows keeps the variables of its terms.
LEMMA VariablesKept ==
  ASSUME BankOK, BankOK', SymbolsGrow, TermsGrow
  PROVE  /\ Ids \subseteq Ids'
         /\ \A i \in Ids : isVariable(i)' = isVariable(i)
         /\ \A i \in Ids : VariablesOf'[i] = VariablesOf[i]
<1>1. Ids = 1..Len(terms) /\ Len(terms) \in Nat
  BY TreesUnfold DEF Ids
<1>2. Ids \subseteq Ids' /\ \A i \in Ids : terms'[i] = terms[i]
  BY DEF TermsGrow, Ids
<1>3. \A i \in Ids : infos'[terms'[i].symbol] = infos[terms[i].symbol]
  BY <1>2, StoredFields DEF BankOK, SymbolsGrow, Ids
<1>4. \A i \in Ids : isVariable(i)' = isVariable(i)
  BY <1>3 DEF isVariable
<1> DEFINE Bad == {i \in Ids : VariablesOf'[i] # VariablesOf[i]}
<1> SUFFICES ASSUME Bad # {} PROVE FALSE
  BY <1>2, <1>4
<1>5. PICK i \in Bad : \A l \in Bad : i <= l
  <2>1. Bad \in SUBSET Nat
    BY <1>1
  <2> QED BY <2>1, LeastNatural
<1>6. \A a \in Members(terms[i].args) : VariablesOf'[a] = VariablesOf[a]
  <2>1. \A a \in Members(terms[i].args) : a \in Ids /\ a < i
    BY Arguments
  <2>2. \A a \in Members(terms[i].args) : a \notin Bad
    <3> HIDE DEF Bad
    <3> QED BY <1>1, <1>5, <2>1 DEF Bad
  <2> QED BY <2>1, <2>2
<1>7. VariablesOf[i] = IF isVariable(i) THEN {i}
                       ELSE UNION {VariablesOf[a] : a \in Members(terms[i].args)}
  BY Collected
<1>8. VariablesOf'[i] = IF isVariable(i)' THEN {i}
                        ELSE UNION {VariablesOf'[a] : a \in Members(terms'[i].args)}
  <2>1. (BankOK => VariablesByTerm)'
    BY VariablesCollected, PTL
  <2>2. i \in Ids'
    BY <1>2
  <2> HIDE DEF Bad
  <2> QED BY <2>1, <2>2 DEF VariablesByTerm
<1>9. Members(terms'[i].args) = Members(terms[i].args) /\ i \in Ids /\ isVariable(i)' = isVariable(i)
  BY <1>2, <1>4
<1>10. UNION {VariablesOf'[a] : a \in Members(terms[i].args)}
         = UNION {VariablesOf[a] : a \in Members(terms[i].args)}
  BY <1>6
<1>11. VariablesOf'[i] = VariablesOf[i]
  BY <1>7, <1>8, <1>9, <1>10
<1> QED BY <1>11

\* The bank only grows, and keeps the terms it has.
LEMMA BankGrows ==
  ASSUME BankOK, [BankNext]_bank
  PROVE  BankOK' /\ SymbolsGrow /\ TermsGrow
<1>1. SymbolsGrow /\ (UNCHANGED terms \/ \E t : terms' = Append(terms, t))
  BY BankAppends
<1>2. terms \in Seq(StoredTerm(DOMAIN infos, DOMAIN terms))
  BY DEF BankOK, TermsOK
<1>3. TermsGrow
  <2>1. CASE UNCHANGED terms
    BY <2>1 DEF TermsGrow
  <2>2. CASE \E t : terms' = Append(terms, t)
    BY <1>2, <2>2 DEF TermsGrow
  <2> QED BY <1>1, <2>1, <2>2
<1> QED BY <1>1, <1>3, BankStepKeeps

\* Variables have no arguments.
LEMMA VariablesAreLeaves ==
  ASSUME BankOK, NEW i \in Ids, isVariable(i)
  PROVE  terms[i].args = <<>>
BY DEF BankOK, TermsOK, WellSorted, isVariable, Ids

-----------------------------------------------------------------------------
(* The instances of terms                                                   *)

BindingsTyped ==
  /\ bindings \in [DOMAIN bindings -> Ids]
  /\ \A v \in DOMAIN bindings : v \in Ids /\ isVariable(v)

\* What the value of a term under bindings depends on.
Needs(t) == IF t \in DOMAIN bindings THEN {bindings[t]} ELSE Members(terms[t].args)

\* Without a cycle in the bindings no terms only depend on each other.
LEMMA NoneLeft ==
  ASSUME BankOK, BindingsTyped, Acyclic, NEW C \in SUBSET Ids,
         \A t \in C : Needs(t) \cap C # {}
  PROVE  C = {}
<1> DEFINE S == C \cap DOMAIN bindings
           Bad == {u \in C : VariablesOf[u] \cap S = {}}
<1>1. Ids = 1..Len(terms) /\ Len(terms) \in Nat
  BY TreesUnfold DEF Ids
<1>2. Bad = {}
  <2> SUFFICES ASSUME Bad # {} PROVE FALSE
    OBVIOUS
  <2>1. PICK u \in Bad : \A l \in Bad : u <= l
    <3>1. Bad \in SUBSET Nat
      <4>1. Ids \subseteq Nat
        BY <1>1
      <4> QED BY <4>1
    <3> QED BY <3>1, LeastNatural
  <2>2. u \in C /\ u \in Ids /\ VariablesOf[u] \cap S = {}
    OBVIOUS
  <2>3. VariablesOf[u] = IF isVariable(u) THEN {u}
                         ELSE UNION {VariablesOf[a] : a \in Members(terms[u].args)}
    BY <2>2, Collected
  <2>4. u \notin DOMAIN bindings
    BY <2>2, <2>3 DEF BindingsTyped
  <2>5. PICK a \in Members(terms[u].args) : a \in C
    BY <2>2, <2>4 DEF Needs
  <2>6. ~isVariable(u)
    <3>1. DOMAIN <<>> = {}
      OBVIOUS
    <3> QED BY <2>2, <2>5, <3>1, VariablesAreLeaves DEF Members
  <2>7. a \in Ids /\ a < u /\ ~(u <= a)
    BY <1>1, <2>2, <2>5, Arguments
  <2>8. VariablesOf[a] \cap S # {}
    <3> HIDE DEF S
    <3> QED BY <2>1, <2>5, <2>7
  <2>9. VariablesOf[a] \subseteq VariablesOf[u]
    BY <2>3, <2>5, <2>6
  <2> QED BY <2>2, <2>8, <2>9
<1>3. \A u \in C : VariablesOf[u] \cap S # {}
  BY <1>2
<1> SUFFICES ASSUME C # {} PROVE FALSE
  OBVIOUS
<1>4. S # {} /\ S \in SUBSET DOMAIN bindings
  BY <1>3
<1>5. PICK v \in S : collectVariables(<<bindings[v]>>) \cap S = {}
  BY <1>4 DEF Acyclic
<1>6. Members(<<bindings[v]>>) = {bindings[v]}
  BY DEF Members
<1>7. collectVariables(<<bindings[v]>>) = VariablesOf[bindings[v]]
  <2>1. collectVariables(<<bindings[v]>>) = UNION {VariablesOf[i] : i \in {bindings[v]}}
    BY <1>6, Collected
  <2> QED BY <2>1
<1>8. bindings[v] \in C
  BY DEF Needs
<1> QED BY <1>3, <1>5, <1>7, <1>8

Value(F, t) ==
  IF t \in DOMAIN bindings THEN F[bindings[t]]
  ELSE [head  |-> infos[terms[t].symbol],
        parts |-> [k \in DOMAIN terms[t].args |-> F[terms[t].args[k]]]]

Solves(F, D) ==
  /\ F = [t \in D |-> Value(F, t)]
  /\ \A t \in D : Needs(t) \subseteq D

\* Values that are the same where they are needed give the same value.
LEMMA SameValue ==
  ASSUME NEW F, NEW G, NEW t, \A a \in Needs(t) : F[a] = G[a]
  PROVE  Value(F, t) = Value(G, t)
<1>1. CASE t \in DOMAIN bindings
  BY <1>1 DEF Value, Needs
<1>2. CASE t \notin DOMAIN bindings
  <2>1. \A k \in DOMAIN terms[t].args : F[terms[t].args[k]] = G[terms[t].args[k]]
    BY <1>2 DEF Needs, Members
  <2> QED BY <1>2, <2>1 DEF Value
<1> QED BY <1>1, <1>2

\* A solved set of terms can be enlarged by a term that depends on solved ones.
LEMMA SolvableMore ==
  ASSUME NEW D, NEW F, Solves(F, D), NEW t, t \notin D, Needs(t) \subseteq D
  PROVE  \E G : Solves(G, D \cup {t})
<1> DEFINE G == [u \in D \cup {t} |-> Value(F, u)]
<1>1. \A u \in D : G[u] = F[u]
  BY DEF Solves
<1>2. \A u \in D \cup {t} : Needs(u) \subseteq D
  BY DEF Solves
<1>3. \A u \in D \cup {t} : Value(G, u) = Value(F, u)
  <2> HIDE DEF G
  <2> QED BY <1>1, <1>2, SameValue
<1>4. G = [u \in D \cup {t} |-> Value(G, u)]
  <2>1. G = [u \in D \cup {t} |-> Value(F, u)]
    OBVIOUS
  <2> HIDE DEF G
  <2> QED BY <1>3, <2>1
<1> HIDE DEF G
<1> QED BY <1>2, <1>4 DEF Solves

\* Without a cycle every term has an instance.
LEMMA InstancesExist ==
  ASSUME BankOK, BindingsTyped, Acyclic
  PROVE  \E F : Solves(F, Ids)
<1> DEFINE n == Len(terms)
           Solvable(D) == \E F : Solves(F, D)
           Missing == {m \in 0..n : \E D \in SUBSET Ids : Cardinality(D) = n - m /\ Solvable(D)}
<1>1. Ids = 1..n /\ n \in Nat
  BY TreesUnfold DEF Ids
<1> HIDE DEF n
<1>2. IsFiniteSet(Ids) /\ Cardinality(Ids) = n
  BY <1>1, FS_Interval
<1>3. n \in Missing
  <2>1. Solvable({})
    <3>1. Solves([t \in {} |-> 0], {})
      BY DEF Solves
    <3> QED BY <3>1
  <2>2. Cardinality({}) = n - n /\ n \in 0..n
    BY <1>1, FS_EmptySet
  <2> HIDE DEF Solvable
  <2> QED BY <2>1, <2>2
<1>4. PICK m \in Missing : \A l \in Missing : m <= l
  <2>1. Missing \in SUBSET Nat
    OBVIOUS
  <2> HIDE DEF Missing
  <2> QED BY <1>3, <2>1, LeastNatural
<1>5. PICK D \in SUBSET Ids : Cardinality(D) = n - m /\ Solvable(D)
  OBVIOUS
<1>6. m \in 0..n
  OBVIOUS
<1>7. D = Ids
  <2> SUFFICES ASSUME Ids \ D # {} PROVE FALSE
    OBVIOUS
  <2>1. PICK t \in Ids \ D : Needs(t) \cap (Ids \ D) = {}
    BY NoneLeft
  <2>2. Needs(t) \subseteq Ids
    BY Arguments DEF Needs, BindingsTyped
  <2>3. Needs(t) \subseteq D
    BY <2>1, <2>2
  <2>4. Solvable(D \cup {t})
    BY <1>5, <2>1, <2>3, SolvableMore
  <2>5. Cardinality(D \cup {t}) = n - m + 1
    BY <1>2, <1>5, <2>1, FS_Subset, FS_AddElement
  <2>6. D \cup {t} \in SUBSET Ids /\ IsFiniteSet(D \cup {t}) /\ Cardinality(D \cup {t}) <= n
    BY <1>2, <2>1, FS_Subset
  <2>7. m - 1 \in 0..n /\ n - (m - 1) = n - m + 1 /\ ~(m <= m - 1)
    BY <1>1, <1>6, <2>5, <2>6
  <2> HIDE DEF Solvable
  <2>8. m - 1 \in Missing
    BY <2>4, <2>5, <2>6, <2>7
  <2> QED BY <1>4, <2>7, <2>8
<1> QED BY <1>5, <1>7

InstancesByTerm == \A t \in Ids : Instances[t] = Value(Instances, t)

\* Instances satisfies its recursive equation.
LEMMA InstancesSolve == BankOK /\ BindingsTyped /\ Acyclic => InstancesByTerm
<1> SUFFICES ASSUME BankOK, BindingsTyped, Acyclic PROVE InstancesByTerm
  OBVIOUS
<1>1. PICK F : Solves(F, Ids)
  BY InstancesExist
<1> DEFINE Is(f) == f = [t \in DOMAIN terms |->
              IF t \in DOMAIN bindings /\ isVariable(t) THEN f[bindings[t]]
              ELSE [head  |-> infos[terms[t].symbol],
                    parts |-> [k \in DOMAIN terms[t].args |-> f[terms[t].args[k]]]]]
           Instance == CHOOSE f : Is(f)
<1>2. Is(F)
  BY <1>1 DEF Solves, Value, Ids, BindingsTyped
<1>3. Instances = [t \in DOMAIN terms |-> Instance[t]]
  BY DEF Instances
<1>4. Is(Instance)
  <2> HIDE DEF Is
  <2> QED BY <1>2
<1> HIDE DEF Instance
<1>5. Instances = Instance
  BY <1>3, <1>4
<1> QED BY <1>4, <1>5 DEF InstancesByTerm, Value, Ids, BindingsTyped

\* A term's tree does not change when the bank grows.
LEMMA TreesKept ==
  ASSUME BankOK, BankOK', SymbolsGrow, TermsGrow
  PROVE  \A i \in Ids : Trees'[i] = Trees[i]
<1> DEFINE n == Len(terms)
           m == Len(terms')
<1>1. Unfolds(Trees, infos, terms, n) /\ Ids = 1..n /\ n \in Nat /\ ArgsOlder(terms, n)
  BY TreesUnfold DEF Ids
<1>2. Unfolds(Trees', infos', terms', m) /\ Ids' = 1..m /\ m \in Nat
  <2>1. (BankOK => Unfolds(Trees, infos, terms, n) /\ DOMAIN terms = 1..n /\ n \in Nat
                   /\ ArgsOlder(terms, n))'
    BY TreesUnfold, PTL
  <2> QED BY <2>1 DEF Unfolds, Ids
<1>3. Ids \subseteq Ids' /\ \A i \in Ids : terms'[i] = terms[i]
  BY DEF TermsGrow, Ids
<1>4. \A i \in Ids : infos'[terms[i].symbol] = infos[terms[i].symbol]
  BY StoredFields DEF BankOK, SymbolsGrow, Ids
<1> HIDE DEF n, m
<1>5. n <= m
  BY <1>1, <1>2, <1>3
<1> QED BY <1>1, <1>2, <1>3, <1>4, <1>5, UnfoldSame

\* A bank that grows keeps the instances of its terms.
LEMMA InstancesKept ==
  ASSUME BankOK, BankOK', SymbolsGrow, TermsGrow, BindingsTyped, bindings' = bindings
  PROVE  /\ BindingsTyped'
         /\ Acyclic' <=> Acyclic
         /\ Acyclic => \A t \in Ids : Instances'[t] = Instances[t]
<1>1. /\ Ids \subseteq Ids'
      /\ \A i \in Ids : isVariable(i)' = isVariable(i)
      /\ \A i \in Ids : VariablesOf'[i] = VariablesOf[i]
  BY VariablesKept
<1>2. BindingsTyped'
  BY <1>1 DEF BindingsTyped
<1>3. \A v \in DOMAIN bindings : collectVariables(<<bindings[v]>>)' = collectVariables(<<bindings[v]>>)
  <2> TAKE v \in DOMAIN bindings
  <2>1. collectVariables(<<bindings[v]>>) = UNION {VariablesOf[i] : i \in Members(<<bindings[v]>>)}
    BY Collected
  <2>2. collectVariables(<<bindings[v]>>)' = UNION {VariablesOf'[i] : i \in Members(<<bindings[v]>>)}
    <3>1. (BankOK => VariablesOfSequence)'
      BY SequenceCollected, PTL
    <3> QED BY <3>1 DEF VariablesOfSequence
  <2>3. \A i \in Members(<<bindings[v]>>) : i \in Ids
    BY DEF Members, BindingsTyped
  <2> QED BY <1>1, <2>1, <2>2, <2>3
<1>4. Acyclic' <=> Acyclic
  <2>1. ASSUME NEW S \in SUBSET DOMAIN bindings
        PROVE  (\E v \in S : collectVariables(<<bindings[v]>>)' \cap S = {})
                 <=> (\E v \in S : collectVariables(<<bindings[v]>>) \cap S = {})
    BY <1>3
  <2>2. Acyclic' <=> \A S \in SUBSET DOMAIN bindings :
                       S # {} => \E v \in S : collectVariables(<<bindings[v]>>)' \cap S = {}
    BY DEF Acyclic
  <2> QED BY <2>1, <2>2 DEF Acyclic
<1>5. ASSUME Acyclic PROVE \A t \in Ids : Instances'[t] = Instances[t]
  <2>1. InstancesByTerm
    BY <1>5, InstancesSolve
  <2>2. InstancesByTerm'
    <3>1. (BankOK /\ BindingsTyped /\ Acyclic => InstancesByTerm)'
      BY InstancesSolve, PTL
    <3> QED BY <1>2, <1>4, <1>5, <3>1
  <2> DEFINE C == {t \in Ids : Instances'[t] # Instances[t]}
  <2>3. ASSUME NEW t \in C PROVE Needs(t) \cap C # {}
    <3> SUFFICES ASSUME Needs(t) \cap C = {} PROVE FALSE
      OBVIOUS
    <3>1. t \in Ids /\ Instances'[t] # Instances[t]
      OBVIOUS
    <3>2. Needs(t) \subseteq Ids
      BY <3>1, Arguments DEF Needs, BindingsTyped
    <3>3. \A a \in Needs(t) : Instances'[a] = Instances[a]
      BY <3>2
    <3>4. Value(Instances', t) = Value(Instances, t)
      BY <3>3, SameValue
    <3>5. Value(Instances, t)' = Value(Instances', t)
      <4>1. terms'[t] = terms[t]
        BY <3>1 DEF TermsGrow, Ids
      <4>2. infos'[terms[t].symbol] = infos[terms[t].symbol]
        BY <3>1, StoredFields DEF BankOK, SymbolsGrow, Ids
      <4> QED BY <4>1, <4>2 DEF Value
    <3>6. Instances[t] = Value(Instances, t)
      BY <2>1, <3>1 DEF InstancesByTerm
    <3>7. Instances'[t] = Value(Instances, t)'
      BY <1>1, <2>2, <3>1 DEF InstancesByTerm
    <3> QED BY <3>1, <3>4, <3>5, <3>6, <3>7
  <2>4. C \in SUBSET Ids
    OBVIOUS
  <2> HIDE DEF C
  <2>5. C = {}
    BY <1>5, <2>3, <2>4, NoneLeft
  <2> QED BY <2>5 DEF C
<1> QED BY <1>2, <1>4, <1>5

-----------------------------------------------------------------------------
(* The state of the two functions                                           *)

\* A call that waits for its next argument, or has them all.
FrameOK(f) ==
  /\ f \in [term : Ids, args : Seq(Ids)]
  /\ ~isVariable(f.term) /\ Len(f.args) <= Len(terms[f.term].args)

Waits(f) == Len(f.args) < Len(terms[f.term].args)

SubstituteTyped ==
  /\ BankOK /\ BindingsTyped
  /\ clauses \subseteq Seq(Ids) /\ input \in Seq(Ids) /\ output \in Seq(Ids)
  /\ \A v \in unnamed : v \in Ids /\ isVariable(v)
  /\ known \in 0..Len(terms)
  /\ var_counter \in 0..(CounterMod - 1) /\ freshened \in Nat
  /\ pc \in {"idle", "rename", "atom", "resolve", "args", "thrown"}
  /\ stack \in Seq([term : Ids, args : Seq(Ids)])

\* The calls under way: the innermost may have all its arguments, every other
\* waits for the value of the one above it.
StackOK ==
  /\ \A j \in 1..Len(stack) : FrameOK(stack[j])
  /\ \A j \in 1..Len(stack) : j # 1 \/ pc = "resolve" => Waits(stack[j])
  /\ pc \notin {"resolve", "args"} => stack = <<>>
  /\ pc = "args" => stack # <<>>
  /\ pc = "resolve" => term \in Ids
  /\ pc \in {"resolve", "args"} => Len(output) < Len(input)
  /\ pc = "atom" => Len(output) <= Len(input)
  /\ pc = "rename" => output = <<>>

\* What call j of the stack is the value of: an argument of the call below it, or
\* an atom of the clause.
Wanted(j) ==
  IF j > Len(stack) THEN input[Len(output) + 1]
  ELSE terms[stack[j].term].args[Len(stack[j].args) + 1]

\* The calls of renameVariables() RenamedApart speaks of.
Renaming == operation = "rename" /\ freshened <= CounterMod
Bound    == {bindings[v] : v \in DOMAIN bindings}

\* r is the value of t.
Done(r, t) ==
  /\ Acyclic => Trees[r] = Instances[t] /\ VariablesOf[r] \cap DOMAIN bindings = {}
  /\ Renaming => VariablesOf[r] \subseteq Bound

\* The value of t is that of w.
Doing(t, w) ==
  /\ Acyclic => Instances[t] = Instances[w]
  /\ Renaming => VariablesOf[t] \subseteq DOMAIN bindings \/ t \in Bound

WalkOK ==
  /\ \A k \in 1..Len(output) : Done(output[k], input[k])
  /\ \A j \in 1..Len(stack) :
       /\ Doing(stack[j].term, Wanted(j + 1))
       /\ \A k \in 1..Len(stack[j].args) : Done(stack[j].args[k], terms[stack[j].term].args[k])
  /\ pc = "resolve" => Doing(term, Wanted(1))

\* A name is given only once before the counter starts again, so the term it makes
\* is new to the bank.
NamesOnce ==
  /\ pc # "thrown" /\ freshened < CounterMod => var_counter = freshened
  /\ freshened <= CounterMod =>
       \A s \in DOMAIN infos : \A n \in 0..(CounterMod - 1) :
         infos[s].kind = "kVariable" /\ infos[s].name = FreshName(n) => n < freshened

RenamingOK ==
  Renaming =>
    /\ \A v \in DOMAIN bindings : bindings[v] > known /\ isVariable(bindings[v])
    /\ \A v, w \in DOMAIN bindings : bindings[v] = bindings[w] => v = w
    /\ \A v \in DOMAIN bindings \cup unnamed : v <= known
    /\ pc # "thrown" => DOMAIN bindings \cup unnamed = collectVariables(input)
    /\ pc \in {"atom", "resolve", "args"} => unnamed = {}

SubstituteInv == SubstituteTyped /\ StackOK /\ WalkOK /\ NamesOnce /\ RenamingOK

-----------------------------------------------------------------------------
(* Values                                                                   *)

\* A call is done when its arguments are.
LEMMA DoneDoing ==
  ASSUME NEW r, NEW t, NEW w, Done(r, t), Doing(t, w)
  PROVE  Done(r, w)
BY DEF Done, Doing

\* One link of a chain of variables.
LEMMA DoingBinding ==
  ASSUME SubstituteTyped, NEW t \in DOMAIN bindings, NEW w, Doing(t, w)
  PROVE  Doing(bindings[t], w)
<1>1. t \in Ids
  BY DEF SubstituteTyped, BindingsTyped
<1>2. Acyclic => Instances[t] = Instances[bindings[t]]
  BY <1>1, InstancesSolve DEF InstancesByTerm, Value, SubstituteTyped
<1> QED BY <1>2 DEF Doing, Bound

\* A variable at the end of a chain is its own value.
LEMMA DoneFree ==
  ASSUME SubstituteTyped, NEW t \in Ids, isVariable(t), t \notin DOMAIN bindings, NEW w, Doing(t, w)
  PROVE  Done(t, w)
<1>1. VariablesOf[t] = {t}
  BY Collected DEF SubstituteTyped
<1>2. ASSUME Acyclic PROVE Trees[t] = Instances[t]
  <2>1. terms[t].args = <<>> /\ DOMAIN <<>> = {}
    BY VariablesAreLeaves DEF SubstituteTyped
  <2>2. Instances[t] = [head  |-> infos[terms[t].symbol],
                        parts |-> [k \in DOMAIN terms[t].args |-> Instances[terms[t].args[k]]]]
    BY <1>2, InstancesSolve DEF InstancesByTerm, Value, SubstituteTyped
  <2>3. Trees[t] = [head  |-> infos[terms[t].symbol],
                    parts |-> [k \in DOMAIN terms[t].args |-> Trees[terms[t].args[k]]]]
    BY TreesUnfold DEF Unfolds, Ids, SubstituteTyped
  <2>4. [k \in DOMAIN terms[t].args |-> Instances[terms[t].args[k]]]
          = [k \in DOMAIN terms[t].args |-> Trees[terms[t].args[k]]]
    BY <2>1
  <2> QED BY <2>2, <2>3, <2>4
<1>3. Done(t, t)
  <2>1. Renaming => t \in Bound
    BY <1>1 DEF Doing
  <2> QED BY <1>1, <1>2, <2>1 DEF Done
<1> QED BY <1>3, DoneDoing

\* A term of the same symbol with the values of the arguments is the value.
LEMMA DoneBuilt ==
  ASSUME BankOK, BindingsTyped, NEW t \in Ids, NEW r \in Ids, ~isVariable(t),
         terms[r].symbol = terms[t].symbol,
         DOMAIN terms[r].args = DOMAIN terms[t].args,
         \A k \in DOMAIN terms[t].args : Done(terms[r].args[k], terms[t].args[k])
  PROVE  Done(r, t)
<1>1. ~isVariable(r) /\ t \notin DOMAIN bindings
  BY DEF isVariable, BindingsTyped
<1>2. VariablesOf[r] = UNION {VariablesOf[a] : a \in Members(terms[r].args)}
  BY <1>1, Collected
<1>3. \A a \in Members(terms[r].args) : \E b : Done(a, b)
  BY DEF Members
<1>4. ASSUME Acyclic PROVE Trees[r] = Instances[t]
  <2>1. Instances[t] = [head  |-> infos[terms[t].symbol],
                        parts |-> [k \in DOMAIN terms[t].args |-> Instances[terms[t].args[k]]]]
    BY <1>1, <1>4, InstancesSolve DEF InstancesByTerm, Value
  <2>2. Trees[r] = [head  |-> infos[terms[r].symbol],
                    parts |-> [k \in DOMAIN terms[r].args |-> Trees[terms[r].args[k]]]]
    BY TreesUnfold DEF Unfolds, Ids
  <2>3. \A k \in DOMAIN terms[t].args : Trees[terms[r].args[k]] = Instances[terms[t].args[k]]
    BY <1>4 DEF Done
  <2>4. [k \in DOMAIN terms[r].args |-> Trees[terms[r].args[k]]]
          = [k \in DOMAIN terms[t].args |-> Instances[terms[t].args[k]]]
    BY <2>3
  <2> QED BY <2>1, <2>2, <2>4
<1>5. Acyclic => VariablesOf[r] \cap DOMAIN bindings = {}
  BY <1>2, <1>3 DEF Done
<1>6. Renaming => VariablesOf[r] \subseteq Bound
  BY <1>2, <1>3 DEF Done
<1> QED BY <1>4, <1>5, <1>6 DEF Done

ArgumentsMakeValue ==
  \A t, r \in Ids :
    /\ ~isVariable(t) /\ terms[r].symbol = terms[t].symbol
    /\ DOMAIN terms[r].args = DOMAIN terms[t].args
    /\ \A k \in DOMAIN terms[t].args : Done(terms[r].args[k], terms[t].args[k])
    => Done(r, t)

\* A value built from instances is an instance.
LEMMA ValueBuilt == BankOK /\ BindingsTyped => ArgumentsMakeValue
BY DoneBuilt DEF ArgumentsMakeValue

\* The arguments of a term that is not a variable.
LEMMA DoingArgument ==
  ASSUME SubstituteTyped, RenamingOK, NEW t \in Ids, ~isVariable(t), NEW w, Doing(t, w),
         NEW a \in Members(terms[t].args)
  PROVE  Doing(a, a)
<1>1. Renaming => t \notin Bound
  BY DEF RenamingOK, Bound
<1>2. VariablesOf[a] \subseteq VariablesOf[t]
  <2>1. VariablesOf[t] = UNION {VariablesOf[b] : b \in Members(terms[t].args)}
    BY Collected DEF SubstituteTyped
  <2> QED BY <2>1
<1> QED BY <1>1, <1>2 DEF Doing

\* The atoms of the clause.
LEMMA DoingAtom ==
  ASSUME SubstituteTyped, RenamingOK, pc \in {"atom", "resolve", "args"}, NEW a \in Members(input)
  PROVE  Doing(a, a)
<1>1. VariablesOf[a] \subseteq collectVariables(input)
  BY Collected DEF SubstituteTyped
<1>2. Renaming => collectVariables(input) = DOMAIN bindings
  BY DEF RenamingOK
<1> QED BY <1>1, <1>2 DEF Doing

-----------------------------------------------------------------------------
(* The steps                                                                *)

\* Both functions call the bank only as any client does.
LEMMA CallsBank ==
  ASSUME SubstituteTyped, StackOK, [Next]_vars
  PROVE  [BankNext]_bank
<1>1. ASSUME NEW v \in unnamed, Freshen(v) PROVE BankNext
  BY <1>1, NamesFresh DEF NamesFresh, Freshen, BankNext, SubstituteTyped
<1>2. ASSUME BuildTerm PROVE BankNext
  <2>1. stack # <<>> /\ stack \in Seq([term : Ids, args : Seq(Ids)])
    BY <1>2 DEF BuildTerm, StackOK, SubstituteTyped
  <2>2. Frame \in [term : Ids, args : Seq(Ids)]
    BY <2>1, HeadTailProperties DEF Frame
  <2>3. Frame.term \in DOMAIN terms /\ Frame.args \in Seq(DOMAIN terms)
        /\ Len(Frame.args) = Len(terms[Frame.term].args) /\ Rebuild(Frame.term, Frame.args)
    BY <1>2, <2>2 DEF BuildTerm, OldArgs, Ids
  <2> QED BY <2>3 DEF BankNext
<1>3. CASE UNCHANGED bank
  BY <1>3
<1> QED BY <1>1, <1>2, <1>3 DEF Next, Running, applySubstitution, renameVariables, ApplyUnifier,
        FreshenThrows, ApplyRenaming, NextAtom, Resolve, FreeVariable, Enter, NextArgument,
        ShareTerm, Finish, vars, bank

\* What every step leaves as it is.
LEMMA Steady ==
  ASSUME SubstituteTyped, StackOK, [Next]_vars
  PROVE  /\ BankOK' /\ SymbolsGrow /\ TermsGrow
         /\ Ids \subseteq Ids' /\ Seq(Ids) \subseteq Seq(Ids')
         /\ \A i \in Ids : terms'[i] = terms[i] /\ isVariable(i)' = isVariable(i)
         /\ \A f : FrameOK(f) => FrameOK(f)' /\ (Waits(f)' <=> Waits(f))
         /\ Len(terms) \in Nat /\ Len(terms') \in Nat /\ Len(terms) <= Len(terms')
         /\ \A i \in Ids : VariablesOf'[i] = VariablesOf[i]
         /\ \A i \in Ids : Trees'[i] = Trees[i]
<1>1. [BankNext]_bank
  BY CallsBank
<1>2. BankOK' /\ SymbolsGrow /\ TermsGrow
  BY <1>1, BankGrows DEF SubstituteTyped
<1>3. /\ Ids \subseteq Ids'
      /\ \A i \in Ids : terms'[i] = terms[i] /\ isVariable(i)' = isVariable(i)
      /\ \A i \in Ids : VariablesOf'[i] = VariablesOf[i]
  BY <1>2, VariablesKept DEF SubstituteTyped, TermsGrow, Ids
<1>4. Seq(Ids) \subseteq Seq(Ids')
  BY <1>3, SeqMonotonic
<1>5. Len(terms) \in Nat /\ Len(terms') \in Nat /\ Len(terms) <= Len(terms')
  <2>1. Ids = 1..Len(terms) /\ Len(terms) \in Nat
    BY TreesUnfold DEF Ids, SubstituteTyped
  <2>2. Ids' = 1..Len(terms') /\ Len(terms') \in Nat
    <3>1. terms' \in Seq(StoredTerm(DOMAIN infos', DOMAIN terms'))
      BY <1>2 DEF BankOK, TermsOK
    <3> QED BY <3>1 DEF Ids
  <2>3. Len(terms) # 0 => Len(terms) \in Ids'
    BY <1>3, <2>1
  <2> QED BY <2>1, <2>2, <2>3
<1>6. \A f : FrameOK(f) => FrameOK(f)' /\ (Waits(f)' <=> Waits(f))
  <2> SUFFICES ASSUME NEW f, FrameOK(f) PROVE FrameOK(f)' /\ (Waits(f)' <=> Waits(f))
    OBVIOUS
  <2>1. f \in [term : Ids, args : Seq(Ids)] /\ f.term \in Ids
    BY DEF FrameOK
  <2>2. f \in [term : Ids', args : Seq(Ids')]
    BY <1>3, <1>4, <2>1
  <2>3. terms'[f.term] = terms[f.term] /\ isVariable(f.term)' = isVariable(f.term)
    BY <1>3, <2>1
  <2> QED BY <2>2, <2>3 DEF FrameOK, Waits
<1>7. \A i \in Ids : Trees'[i] = Trees[i]
  BY <1>2, TreesKept DEF SubstituteTyped
<1> QED BY <1>2, <1>3, <1>4, <1>5, <1>6, <1>7

\* Values stay values while the bindings are the same.
LEMMA ValuesKept ==
  ASSUME SubstituteTyped, StackOK, [Next]_vars, UNCHANGED <<bindings, operation, freshened>>
  PROVE  /\ BindingsTyped'
         /\ \A r, t \in Ids : Done(r, t) => Done(r, t)'
         /\ \A t, w \in Ids : Doing(t, w) => Doing(t, w)'
<1>1. /\ BankOK' /\ SymbolsGrow /\ TermsGrow
      /\ \A i \in Ids : VariablesOf'[i] = VariablesOf[i]
      /\ \A i \in Ids : Trees'[i] = Trees[i]
  BY Steady
<1>2. /\ BindingsTyped'
      /\ Acyclic' <=> Acyclic
      /\ Acyclic => \A t \in Ids : Instances'[t] = Instances[t]
  BY <1>1, InstancesKept DEF SubstituteTyped
<1>3. (Renaming' <=> Renaming) /\ Bound' = Bound
  BY DEF Renaming, Bound
<1>4. \A r, t \in Ids : Done(r, t) => Done(r, t)'
  BY <1>1, <1>2, <1>3 DEF Done
<1>5. \A t, w \in Ids : Doing(t, w) => Doing(t, w)'
  BY <1>1, <1>2, <1>3 DEF Doing
<1> QED BY <1>2, <1>4, <1>5

-----------------------------------------------------------------------------
(* Walking down and up a term                                               *)

\* What a call waits for is a term of the bank.
LEMMA WantedTyped ==
  ASSUME SubstituteTyped, StackOK, pc \in {"resolve", "args"},
         NEW j \in 1..(Len(stack) + 1), j = 1 => pc = "resolve" \/ Waits(stack[1])
  PROVE  Wanted(j) \in Ids
<1>1. stack \in Seq([term : Ids, args : Seq(Ids)]) /\ Len(stack) \in Nat
  BY DEF SubstituteTyped
<1>2. CASE j > Len(stack)
  <2>1. Len(output) < Len(input) /\ input \in Seq(Ids) /\ output \in Seq(Ids)
    BY DEF StackOK, SubstituteTyped
  <2>2. Len(output) + 1 \in 1..Len(input)
    BY <2>1
  <2>3. input[Len(output) + 1] \in Ids
    BY <2>1, <2>2, ElementOfSeq
  <2> QED BY <1>2, <2>3 DEF Wanted
<1>3. CASE j <= Len(stack)
  <2>1. j \in 1..Len(stack)
    BY <1>1, <1>3
  <2>2. FrameOK(stack[j]) /\ Waits(stack[j])
    BY <1>1, <2>1 DEF StackOK
  <2>3. stack[j].term \in Ids /\ stack[j].args \in Seq(Ids)
    BY <2>2 DEF FrameOK
  <2>4. terms[stack[j].term].args \in Seq(Ids)
    BY <2>3, Arguments DEF SubstituteTyped
  <2>5. Len(stack[j].args) + 1 \in 1..Len(terms[stack[j].term].args)
    BY <2>2, <2>3, <2>4, SMTT(20) DEF Waits
  <2>6. terms[stack[j].term].args[Len(stack[j].args) + 1] \in Ids
    BY <2>4, <2>5, ElementOfSeq
  <2> QED BY <1>1, <2>1, <2>6 DEF Wanted
<1> QED BY <1>1, <1>2, <1>3

\* Positions that move by o.
LEMMA Shift ==
  ASSUME NEW m \in Int, NEW n \in Int, NEW lo \in Int, NEW o \in Int, m = n - o, lo + o >= 1
  PROVE  /\ \A j \in lo..m : /\ j + o \in 1..n /\ ~(j > m) /\ ~(j + o > n)
                             /\ j + 1 \in lo..(m + 1) /\ (j + 1) + o = j + o + 1
         /\ \A j \in lo..(m + 1) : j + o \in 1..(n + 1) /\ (j + o = 1 => lo + o = 1)
OBVIOUS

\* The calls below the innermost: o of them, at the top, have gone or (-1) come.
LEMMA BelowKept ==
  ASSUME SubstituteInv, [Next]_vars, UNCHANGED <<bindings, operation, freshened, input, output>>,
         pc \in {"resolve", "args"},
         NEW o \in {-1, 0, 1}, Len(stack') = Len(stack) - o, o = 1 => Len(stack) > 0,
         NEW lo \in {1, 2}, lo + o >= 1, lo + o = 1 => pc = "resolve" \/ Waits(stack[1]),
         stack' \in Seq([term : Ids', args : Seq(Ids')]),
         \A j \in lo..Len(stack') : stack'[j] = stack[j + o]
  PROVE  /\ \A j \in lo..Len(stack') :
              /\ FrameOK(stack[j])'
              /\ (Waits(stack[j + o]) => Waits(stack[j])')
         /\ \A j \in lo..(Len(stack') + 1) : Wanted(j)' = Wanted(j + o) /\ Wanted(j + o) \in Ids
         /\ \A j \in lo..Len(stack') :
              /\ Doing(stack[j].term, Wanted(j + 1))'
              /\ \A k \in 1..Len(stack'[j].args) :
                   Done(stack[j].args[k], terms[stack[j].term].args[k])'
<1>1. /\ stack \in Seq([term : Ids, args : Seq(Ids)]) /\ Len(stack) \in Nat
      /\ Len(stack') \in Nat /\ lo \in Int /\ o \in Int /\ lo + o >= 1
      /\ Len(stack') = Len(stack) - o
  BY SMTT(20) DEF SubstituteInv, SubstituteTyped
<1>2. /\ \A i \in Ids : terms'[i] = terms[i]
      /\ \A f : FrameOK(f) => FrameOK(f)' /\ (Waits(f)' <=> Waits(f))
  BY Steady DEF SubstituteInv
<1>3. \A j \in lo..Len(stack') : /\ j + o \in 1..Len(stack) /\ stack'[j] = stack[j + o]
                                 /\ FrameOK(stack[j + o])
  <2> TAKE j \in lo..Len(stack')
  <2>1. j + o \in 1..Len(stack)
    <3>1. Len(stack) \in Int /\ Len(stack') \in Int
      BY <1>1
    <3> QED BY <1>1, <3>1, Shift
  <2> QED BY <2>1 DEF SubstituteInv, StackOK
<1>4. ASSUME NEW j \in lo..Len(stack')
      PROVE  FrameOK(stack[j])' /\ (Waits(stack[j + o]) => Waits(stack[j])')
  <2>1. PICK f : f = stack[j + o]
    OBVIOUS
  <2>2. stack'[j] = f /\ FrameOK(f)
    BY <1>3, <2>1
  <2>3. FrameOK(f)' /\ (Waits(f)' <=> Waits(f))
    BY <1>2, <2>2
  <2>4. (FrameOK(stack[j])' <=> FrameOK(f)') /\ (Waits(stack[j])' <=> Waits(f)')
    BY <2>2 DEF FrameOK, Waits
  <2> QED BY <2>1, <2>3, <2>4
<1>5. ASSUME NEW j \in lo..(Len(stack') + 1)
      PROVE  Wanted(j)' = Wanted(j + o) /\ Wanted(j + o) \in Ids
  <2>1. j + o \in 1..(Len(stack) + 1) /\ (j + o = 1 => pc = "resolve" \/ Waits(stack[1]))
    BY <1>1
  <2>2. Wanted(j + o) \in Ids
    BY <2>1, WantedTyped DEF SubstituteInv
  <2>3. CASE j = Len(stack') + 1
    <3>1. j > Len(stack') /\ j + o > Len(stack)
      BY <1>1, <2>3
    <3> QED BY <2>2, <3>1 DEF Wanted
  <2>4. CASE j \in lo..Len(stack')
    <3>1. ~(j > Len(stack')) /\ ~(j + o > Len(stack))
      <4>1. Len(stack) \in Int /\ Len(stack') \in Int
        BY <1>1
      <4> QED BY <1>1, <2>4, <4>1, Shift
    <3>2. stack'[j] = stack[j + o] /\ stack[j + o].term \in Ids
      BY <1>3, <2>4 DEF FrameOK
    <3>3. terms'[stack'[j].term] = terms[stack[j + o].term]
      BY <1>2, <3>2
    <3> QED BY <2>2, <3>1, <3>2, <3>3 DEF Wanted
  <2> QED BY <1>1, <2>3, <2>4
<1>6. ASSUME NEW j \in lo..Len(stack')
      PROVE  /\ Doing(stack[j].term, Wanted(j + 1))'
             /\ \A k \in 1..Len(stack'[j].args) :
                  Done(stack[j].args[k], terms[stack[j].term].args[k])'
  <2>1. PICK f : f = stack[j + o]
    OBVIOUS
  <2>2. stack'[j] = f /\ FrameOK(f) /\ j + o \in 1..Len(stack)
    BY <1>3, <2>1
  <2>3. f.term \in Ids /\ f.args \in Seq(Ids) /\ Len(f.args) <= Len(terms[f.term].args)
        /\ terms'[f.term] = terms[f.term]
    BY <1>2, <2>2 DEF FrameOK
  <2>4. PICK w : w = Wanted(j + o + 1)
    OBVIOUS
  <2>5. w \in Ids /\ Wanted(j + 1)' = w
    <3>1. j + 1 \in lo..(Len(stack') + 1) /\ (j + 1) + o = j + o + 1
      <4>1. PICK m, n : m = Len(stack') /\ n = Len(stack)
        OBVIOUS
      <4>2. m \in Int /\ n \in Int /\ m = n - o /\ lo + o >= 1 /\ j \in lo..m
        BY <1>1, <4>1
      <4>3. j + 1 \in lo..(m + 1) /\ (j + 1) + o = j + o + 1
        BY <1>1, <4>2, Shift
      <4> QED BY <4>1, <4>3
    <3> QED BY <1>5, <2>4, <3>1
  <2>6. /\ Doing(f.term, w)
        /\ \A k \in 1..Len(f.args) : Done(f.args[k], terms[f.term].args[k])
    BY <2>1, <2>2, <2>4 DEF SubstituteInv, WalkOK
  <2>7. Doing(f.term, w)'
    BY <2>3, <2>5, <2>6, ValuesKept DEF SubstituteInv
  <2>8. Doing(stack[j].term, Wanted(j + 1))'
    BY <2>2, <2>5, <2>7 DEF Doing
  <2>9. ASSUME NEW k \in 1..Len(f.args)
        PROVE  Done(stack[j].args[k], terms[stack[j].term].args[k])'
    <3>1. PICK r, t : r = f.args[k] /\ t = terms[f.term].args[k]
      OBVIOUS
    <3>2. r \in Ids /\ t \in Ids
      <4>1. terms[f.term].args \in Seq(Ids)
        BY <2>3, Arguments DEF SubstituteInv, SubstituteTyped
      <4>2. k \in 1..Len(terms[f.term].args)
        BY <2>3, <4>1
      <4> QED BY <2>3, <3>1, <4>1, <4>2, ElementOfSeq
    <3>3. Done(r, t)'
      BY <2>6, <3>1, <3>2, ValuesKept DEF SubstituteInv
    <3>4. stack'[j].args[k] = r /\ terms'[stack'[j].term].args[k] = t
      BY <2>2, <2>3, <3>1
    <3> QED BY <3>3, <3>4 DEF Done
  <2> QED BY <2>2, <2>8, <2>9
<1> QED BY <1>4, <1>5, <1>6

-----------------------------------------------------------------------------
(* Walks *)

\* The variables of the clause a call was made with.
LEMMA VariablesOfCall ==
  ASSUME SubstituteInv, [Next]_vars, UNCHANGED input
  PROVE  collectVariables(input)' = collectVariables(input)
<1>1. collectVariables(input) = UNION {VariablesOf[i] : i \in Members(input)}
  BY Collected DEF SubstituteInv, SubstituteTyped
<1>2. BankOK' /\ \A i \in Ids : VariablesOf'[i] = VariablesOf[i]
  BY Steady DEF SubstituteInv
<1>3. collectVariables(input)' = UNION {VariablesOf'[i] : i \in Members(input)}
  <2>1. (BankOK => VariablesOfSequence)'
    BY SequenceCollected, PTL
  <2> QED BY <1>2, <2>1 DEF VariablesOfSequence
<1>4. \A i \in Members(input) : i \in Ids
  BY ElementOfSeq DEF Members, SubstituteInv, SubstituteTyped
<1> QED BY <1>1, <1>2, <1>3, <1>4

\* Returning from the innermost call.
LEMMA Pop ==
  ASSUME NEW S, NEW s \in Seq(S), s # <<>>
  PROVE  /\ Head(s) = s[1] /\ s[1] \in S /\ Tail(s) \in Seq(S) /\ Len(s) >= 1
         /\ Len(Tail(s)) = Len(s) - 1 /\ \A j \in 1..Len(Tail(s)) : Tail(s)[j] = s[j + 1]
BY HeadTailProperties, EmptySeq, ElementOfSeq

\* Entering a call.
LEMMA Push ==
  ASSUME NEW S, NEW s \in Seq(S), NEW x \in S
  PROVE  /\ <<x>> \o s \in Seq(S) /\ Len(<<x>> \o s) = Len(s) + 1
         /\ (<<x>> \o s)[1] = x /\ \A j \in 2..(Len(s) + 1) : (<<x>> \o s)[j] = s[j - 1]
OBVIOUS

\* A step that leaves the bindings and the call as they are keeps the types and
\* what is known of the names.
LEMMA NamingKept ==
  ASSUME SubstituteInv, [Next]_vars,
         UNCHANGED <<infos, var_counter, args_of_call, freshened, bindings, unnamed>>,
         pc \in {"atom", "resolve", "args"} \/ (pc = "rename" /\ unnamed = {}),
         pc' \in {"idle", "atom", "resolve", "args"},
         output' \in Seq(Ids'), clauses' \subseteq Seq(Ids'),
         stack' \in Seq([term : Ids', args : Seq(Ids')])
  PROVE  SubstituteTyped' /\ NamesOnce' /\ RenamingOK'
<1>1. /\ BankOK' /\ Ids \subseteq Ids' /\ Seq(Ids) \subseteq Seq(Ids')
      /\ \A i \in Ids : isVariable(i)' = isVariable(i) /\ VariablesOf'[i] = VariablesOf[i]
      /\ Len(terms) \in Nat /\ Len(terms') \in Nat /\ Len(terms) <= Len(terms')
  BY Steady DEF SubstituteInv
<1>2. SubstituteTyped'
  <2>1. BindingsTyped'
    BY ValuesKept DEF SubstituteInv, args_of_call
  <2>2. input' \in Seq(Ids') /\ known' \in 0..Len(terms')
    BY <1>1 DEF SubstituteInv, SubstituteTyped, args_of_call
  <2>3. \A v \in unnamed' : v \in Ids' /\ isVariable(v)'
    BY <1>1 DEF SubstituteInv, SubstituteTyped
  <2>4. var_counter' \in 0..(CounterMod - 1) /\ freshened' \in Nat
    BY DEF SubstituteInv, SubstituteTyped
  <2> QED BY <1>1, <2>1, <2>2, <2>3, <2>4 DEF SubstituteTyped
<1>3. NamesOnce'
  BY DEF NamesOnce, SubstituteInv
<1>4. RenamingOK'
  <2>1. collectVariables(input)' = collectVariables(input)
    BY VariablesOfCall DEF args_of_call
  <2>2. \A v \in DOMAIN bindings : isVariable(bindings[v]) => isVariable(bindings[v])'
    BY <1>1 DEF SubstituteInv, SubstituteTyped, BindingsTyped
  <2> QED BY <2>1, <2>2 DEF RenamingOK, Renaming, SubstituteInv, args_of_call
<1> QED BY <1>2, <1>3, <1>4

\* The atoms made so far.
LEMMA OutputKept ==
  ASSUME SubstituteInv, [Next]_vars, UNCHANGED <<bindings, operation, freshened, input>>,
         Len(output) <= Len(input)
  PROVE  \A k \in 1..Len(output) :
           \A r : r = output[k] => r \in Ids /\ Done(r, input[k])'
<1> SUFFICES ASSUME NEW k \in 1..Len(output), NEW r, r = output[k]
             PROVE  r \in Ids /\ Done(r, input[k])'
  OBVIOUS
<1>1. PICK t : t = input[k]
  OBVIOUS
<1>2. r \in Ids /\ t \in Ids
  <2>1. output \in Seq(Ids) /\ input \in Seq(Ids) /\ k \in 1..Len(input)
    BY DEF SubstituteInv, SubstituteTyped
  <2> QED BY <1>1, <2>1, ElementOfSeq
<1>3. Done(r, t)'
  BY <1>1, <1>2, ValuesKept DEF SubstituteInv, WalkOK
<1>4. input'[k] = t
  BY <1>1
<1> QED BY <1>2, <1>3, <1>4 DEF Done

\* A value is given to the clause, no call being under way.
LEMMA GiveAtom ==
  ASSUME SubstituteInv, [Next]_vars, UNCHANGED <<bindings, operation, freshened, input>>,
         Seq(Ids) \subseteq Seq(Ids'), Len(output) < Len(input),
         NEW r \in Ids', NEW w, w = input[Len(output) + 1], Done(r, w)',
         output' = Append(output, r), stack' = <<>>, pc' = "atom"
  PROVE  output' \in Seq(Ids') /\ StackOK' /\ WalkOK'
<1>1. output \in Seq(Ids) /\ input \in Seq(Ids) /\ Len(output) \in Nat /\ Len(input) \in Nat
  BY DEF SubstituteInv, SubstituteTyped
<1>2. /\ output' \in Seq(Ids') /\ Len(output') = Len(output) + 1
      /\ \A k \in 1..Len(output) : output'[k] = output[k]
      /\ output'[Len(output) + 1] = r
  <2>1. output \in Seq(Ids')
    BY <1>1
  <2> QED BY <2>1
<1>3. StackOK'
  BY <1>1, <1>2 DEF StackOK
<1>4. \A k \in 1..Len(output') : Done(output[k], input[k])'
  <2> TAKE k \in 1..Len(output')
  <2>1. PICK q : q = output'[k]
    OBVIOUS
  <2>2. CASE k \in 1..Len(output)
    <3>1. q = output[k]
      BY <1>2, <2>1, <2>2
    <3>2. Done(q, input[k])'
      BY <1>1, <2>2, <3>1, OutputKept, SMTT(20)
    <3> QED BY <2>1, <3>2 DEF Done
  <2>3. CASE k = Len(output) + 1
    <3>1. q = r /\ w = input'[k]
      BY <1>2, <2>1, <2>3
    <3> QED BY <2>1, <3>1 DEF Done
  <2> QED BY <1>1, <1>2, <2>2, <2>3
<1>5. WalkOK'
  <2>1. Len(stack') = 0 /\ 1..0 = {}
    OBVIOUS
  <2> QED BY <1>4, <2>1 DEF WalkOK
<1> QED BY <1>2, <1>3, <1>5

\* A value is given to the innermost call that waits for an argument.
LEMMA GiveArgument ==
  ASSUME SubstituteInv, [Next]_vars, UNCHANGED <<bindings, operation, freshened, input, output>>,
         pc \in {"resolve", "args"},
         NEW o \in {0, 1}, o = 0 => pc = "resolve",
         NEW waiting \in Seq([term : Ids, args : Seq(Ids)]), waiting # <<>>,
         Len(waiting) = Len(stack) - o, \A j \in 1..Len(waiting) : waiting[j] = stack[j + o],
         NEW r \in Ids', NEW w \in Ids, w = Wanted(o + 1), Done(r, w)',
         stack' = <<[Head(waiting) EXCEPT !.args = Append(@, r)]>> \o Tail(waiting), pc' = "args"
  PROVE  stack' \in Seq([term : Ids', args : Seq(Ids')]) /\ StackOK' /\ WalkOK'
<1> DEFINE Frames == [term : Ids', args : Seq(Ids')]
           f == waiting[1]
           top == [f EXCEPT !.args = Append(@, r)]
<1>1. /\ Ids \subseteq Ids' /\ Seq(Ids) \subseteq Seq(Ids')
      /\ \A i \in Ids : terms'[i] = terms[i] /\ isVariable(i)' = isVariable(i)
  BY Steady DEF SubstituteInv
<1>2. /\ Head(waiting) = f /\ f \in [term : Ids, args : Seq(Ids)] /\ Len(waiting) >= 1
      /\ Tail(waiting) \in Seq([term : Ids, args : Seq(Ids)])
      /\ Len(Tail(waiting)) = Len(waiting) - 1 /\ Len(waiting) \in Nat
      /\ \A j \in 1..Len(Tail(waiting)) : Tail(waiting)[j] = waiting[j + 1]
  <2> DEFINE Old == [term : Ids, args : Seq(Ids)]
  <2>1. waiting \in Seq(Old) /\ waiting # <<>>
    OBVIOUS
  <2> HIDE DEF Old
  <2>2. Len(waiting) \in Nat
    BY <2>1
  <2>3. /\ Head(waiting) = waiting[1] /\ waiting[1] \in Old /\ Tail(waiting) \in Seq(Old)
        /\ Len(waiting) >= 1 /\ Len(Tail(waiting)) = Len(waiting) - 1
        /\ \A j \in 1..Len(Tail(waiting)) : Tail(waiting)[j] = waiting[j + 1]
    BY <2>1, Pop
  <2> QED BY <2>2, <2>3 DEF Old
<1>3. /\ f = stack[1 + o] /\ 1 + o \in 1..Len(stack) /\ Len(stack) \in Nat
      /\ Len(stack) >= 1 /\ o \in Int
  BY <1>2 DEF SubstituteInv, SubstituteTyped
<1>4. /\ FrameOK(f) /\ Waits(f) /\ f.term \in Ids /\ f.args \in Seq(Ids)
      /\ Len(f.args) \in Nat /\ Len(f.args) < Len(terms[f.term].args) /\ ~isVariable(f.term)
      /\ terms[f.term].args \in Seq(Ids) /\ Len(terms[f.term].args) \in Nat
  <2>1. FrameOK(f) /\ Waits(f)
    BY <1>3 DEF SubstituteInv, StackOK
  <2>2. f.term \in Ids /\ f.args \in Seq(Ids)
    BY <2>1 DEF FrameOK
  <2>3. terms[f.term].args \in Seq(Ids)
    BY <2>2, Arguments DEF SubstituteInv, SubstituteTyped
  <2> QED BY <2>1, <2>2, <2>3 DEF FrameOK, Waits
<1>5. /\ top \in Frames /\ top.term = f.term /\ top.args = Append(f.args, r)
      /\ Len(top.args) = Len(f.args) + 1 /\ top.args[Len(f.args) + 1] = r
      /\ \A k \in 1..Len(f.args) : top.args[k] = f.args[k]
  <2>1. f.args \in Seq(Ids') /\ f.term \in Ids'
    BY <1>1, <1>4
  <2>2. Append(f.args, r) \in Seq(Ids')
    BY <2>1
  <2>3. top.term = f.term /\ top.args = Append(f.args, r)
    BY <1>2
  <2>4. top \in Frames
    BY <1>2, <2>1, <2>2
  <2>5. PICK args, S : args = f.args /\ S = Ids'
    OBVIOUS
  <2>6. /\ Len(Append(args, r)) = Len(args) + 1 /\ Append(args, r)[Len(args) + 1] = r
        /\ \A k \in 1..Len(args) : Append(args, r)[k] = args[k]
    <3>1. args \in Seq(S) /\ r \in S
      BY <2>1, <2>5
    <3> QED BY <3>1
  <2> HIDE DEF top, f
  <2> QED BY <2>3, <2>4, <2>5, <2>6
<1>6. /\ stack' \in Seq(Frames) /\ Len(stack') = Len(stack) - o /\ stack'[1] = top
      /\ \A j \in 2..Len(stack') : stack'[j] = stack[j + o]
  <2>1. Tail(waiting) \in Seq(Frames)
    <3>1. [term : Ids, args : Seq(Ids)] \subseteq Frames
      BY <1>1
    <3> QED BY <1>2, <3>1, SeqMonotonic
  <2> DEFINE rest == Tail(waiting)
  <2>2. stack' = <<top>> \o rest
    BY <1>2
  <2>3. rest \in Seq(Frames) /\ top \in Frames
    BY <1>5, <2>1
  <2>4. Len(rest) = Len(waiting) - 1 /\ \A j \in 1..Len(rest) : rest[j] = waiting[j + 1]
    BY <1>2
  <2> HIDE DEF top, Frames, rest, f
  <2>5. /\ stack' \in Seq(Frames) /\ Len(stack') = Len(rest) + 1 /\ stack'[1] = top
        /\ \A j \in 2..(Len(rest) + 1) : stack'[j] = rest[j - 1]
    <3>1. PICK S, x, s : S = Frames /\ x = top /\ s = rest
      OBVIOUS
    <3>2. s \in Seq(S) /\ x \in S /\ stack' = <<x>> \o s
      BY <2>2, <2>3, <3>1
    <3>3. /\ <<x>> \o s \in Seq(S) /\ Len(<<x>> \o s) = Len(s) + 1
          /\ (<<x>> \o s)[1] = x /\ \A j \in 2..(Len(s) + 1) : (<<x>> \o s)[j] = s[j - 1]
      BY <3>2, Push
    <3> QED BY <3>1, <3>2, <3>3
  <2>6. ASSUME NEW j \in 2..Len(stack') PROVE stack'[j] = stack[j + o]
    <3>1. j - 1 \in 1..Len(rest) /\ j \in 2..(Len(rest) + 1) /\ j \in 1..Len(waiting) /\ (j - 1) + 1 = j
      BY <1>2, <2>4, <2>5
    <3>2. stack'[j] = waiting[(j - 1) + 1]
      BY <2>4, <2>5, <3>1
    <3> QED BY <3>1, <3>2
  <2> QED BY <1>2, <1>3, <2>4, <2>5, <2>6
<1> HIDE DEF top, f
<1>7. /\ \A j \in 2..Len(stack') :
           FrameOK(stack[j])' /\ (Waits(stack[j + o]) => Waits(stack[j])')
      /\ \A j \in 2..(Len(stack') + 1) : Wanted(j)' = Wanted(j + o) /\ Wanted(j + o) \in Ids
      /\ \A j \in 2..Len(stack') :
           /\ Doing(stack[j].term, Wanted(j + 1))'
           /\ \A k \in 1..Len(stack'[j].args) :
                Done(stack[j].args[k], terms[stack[j].term].args[k])'
  <2>1. /\ o \in {-1, 0, 1} /\ 2 \in {1, 2} /\ 2 + o >= 1
        /\ 2 + o = 1 => pc = "resolve" \/ Waits(stack[1])
        /\ Len(stack') = Len(stack) - o /\ (o = 1 => Len(stack) > 0)
    BY <1>3, <1>6
  <2>2. stack' \in Seq([term : Ids', args : Seq(Ids')])
    BY <1>6
  <2>3. \A j \in 2..Len(stack') : stack'[j] = stack[j + o]
    BY <1>6
  <2> HIDE DEF Frames
  <2> QED BY <2>1, <2>2, <2>3, BelowKept, ZenonT(60)
<1>8. StackOK'
  <2>1. FrameOK(top)'
    <3>1. ~isVariable(f.term)' /\ terms'[f.term] = terms[f.term]
      BY <1>1, <1>4
    <3>2. Len(top.args) <= Len(terms'[top.term].args)
      BY <1>4, <1>5, <3>1, SMTT(20)
    <3> QED BY <1>5, <3>1, <3>2 DEF FrameOK, isVariable
  <2>2. FrameOK(stack[1])'
    BY <1>6, <2>1 DEF FrameOK, isVariable
  <2>3. \A j \in 1..Len(stack') : FrameOK(stack[j])'
    <3>1. \A j \in 1..Len(stack') : j = 1 \/ j \in 2..Len(stack')
      OBVIOUS
    <3> QED BY <1>7, <2>2, <3>1
  <2>4. \A j \in 2..Len(stack') : Waits(stack[j])'
    <3>1. \A j \in 2..Len(stack') : j + o \in 1..Len(stack) /\ j + o # 1
      <4>1. Len(stack') \in Int /\ 2 + o >= 1
        BY <1>3, <1>6
      <4>2. \A j \in 2..Len(stack') : j + o \in 1..Len(stack)
        BY <1>3, <1>6, <4>1, Shift
      <4>3. \A j \in 2..Len(stack') : j + o # 1
        BY <1>3
      <4> QED BY <4>2, <4>3
    <3> QED BY <1>7, <3>1 DEF SubstituteInv, StackOK
  <2>5. \A j \in 1..Len(stack') : j # 1 => j \in 2..Len(stack')
    OBVIOUS
  <2>6. stack' # <<>> /\ Len(output') < Len(input')
    <3>1. Len(stack') # 0
      BY <1>2, <1>3, <1>6
    <3> QED BY <3>1 DEF SubstituteInv, StackOK
  <2> QED BY <2>3, <2>4, <2>5, <2>6 DEF StackOK
<1>9. WalkOK'
  <2>1. Len(output) < Len(input) /\ Len(output) \in Nat /\ Len(input) \in Nat
    BY DEF SubstituteInv, StackOK, SubstituteTyped
  <2>2. \A k \in 1..Len(output') : Done(output[k], input[k])'
    <3> TAKE k \in 1..Len(output')
    <3>1. PICK q : q = output[k]
      OBVIOUS
    <3>2. Done(q, input[k])'
      BY <2>1, <3>1, OutputKept, SMTT(20)
    <3> QED BY <3>1, <3>2 DEF Done
  <2>3. Doing(stack[1].term, Wanted(2))'
    <3>1. PICK u : u = Wanted(2 + o)
      OBVIOUS
    <3>2. u \in Ids /\ Wanted(2)' = u
      <4>1. 2 \in 2..(Len(stack') + 1)
        BY <1>2, <1>3, <1>6
      <4> QED BY <1>7, <3>1, <4>1
    <3>3. Doing(f.term, u)
      <4>1. (1 + o) + 1 = 2 + o
        BY <1>3
      <4> QED BY <1>3, <3>1, <4>1 DEF SubstituteInv, WalkOK
    <3>4. Doing(f.term, u)'
      BY <1>4, <3>2, <3>3, ValuesKept DEF SubstituteInv
    <3>5. stack'[1].term = f.term
      BY <1>5, <1>6
    <3> QED BY <3>2, <3>4, <3>5 DEF Doing
  <2>4. \A k \in 1..Len(stack'[1].args) : Done(stack[1].args[k], terms[stack[1].term].args[k])'
    <3> TAKE k \in 1..Len(stack'[1].args)
    <3>1. stack'[1] = top /\ terms'[top.term].args = terms[f.term].args
      BY <1>1, <1>4, <1>5, <1>6
    <3>2. PICK q, u : q = top.args[k] /\ u = terms[f.term].args[k]
      OBVIOUS
    <3>3. CASE k \in 1..Len(f.args)
      <4>1. q = f.args[k] /\ k \in 1..Len(terms[f.term].args)
        BY <1>4, <1>5, <3>2, <3>3, SMTT(20)
      <4>2. q \in Ids /\ u \in Ids
        BY <1>4, <3>2, <3>3, <4>1, ElementOfSeq
      <4>3. Done(q, u)
        BY <1>3, <3>2, <3>3, <4>1 DEF SubstituteInv, WalkOK
      <4>4. Done(q, u)'
        BY <4>2, <4>3, ValuesKept DEF SubstituteInv
      <4> QED BY <3>1, <3>2, <4>4 DEF Done
    <3>4. CASE k = Len(f.args) + 1
      <4>1. q = r
        BY <1>5, <3>2, <3>4
      <4>2. u = w
        <5>1. ~(o + 1 > Len(stack)) /\ o + 1 = 1 + o
          BY <1>3
        <5> QED BY <1>3, <3>2, <3>4, <5>1 DEF Wanted
      <4> QED BY <3>1, <3>2, <4>1, <4>2 DEF Done
    <3>5. k \in 1..(Len(f.args) + 1)
      BY <1>5, <3>1
    <3> QED BY <1>4, <3>3, <3>4, <3>5
  <2>5. \A j \in 1..Len(stack') :
          /\ Doing(stack[j].term, Wanted(j + 1))'
          /\ \A k \in 1..Len(stack'[j].args) :
               Done(stack[j].args[k], terms[stack[j].term].args[k])'
    <3>1. \A j \in 1..Len(stack') : j = 1 \/ j \in 2..Len(stack')
      OBVIOUS
    <3>2. 1 + 1 = 2
      OBVIOUS
    <3> QED BY <1>7, <2>3, <2>4, <3>1, <3>2
  <2> QED BY <2>2, <2>5 DEF WalkOK
<1> QED BY <1>6, <1>8, <1>9

\* Whoever gets the value: r is that of the innermost call (o = 0), or of the call
\* that is at the top of the stack (o = 1).
LEMMA GiveKeeps ==
  ASSUME SubstituteInv, [Next]_vars,
         UNCHANGED <<infos, clauses, var_counter, args_of_call, freshened, bindings, unnamed>>,
         pc \in {"resolve", "args"},
         NEW o \in {0, 1}, o = 0 => pc = "resolve",
         NEW waiting \in Seq([term : Ids, args : Seq(Ids)]),
         Len(waiting) = Len(stack) - o, \A j \in 1..Len(waiting) : waiting[j] = stack[j + o],
         NEW r \in Ids', NEW w \in Ids, w = Wanted(o + 1), Done(r, w)', Give(r, waiting)
  PROVE  SubstituteInv'
<1>1. UNCHANGED <<bindings, operation, freshened, input>>
  BY DEF args_of_call
<1>2. /\ Ids \subseteq Ids' /\ Seq(Ids) \subseteq Seq(Ids')
      /\ output \in Seq(Ids') /\ clauses' \subseteq Seq(Ids')
      /\ Len(output) < Len(input)
  BY Steady DEF SubstituteInv, SubstituteTyped, StackOK
<1>3. CASE waiting = <<>>
  <2>1. output' = Append(output, r) /\ stack' = <<>> /\ pc' = "atom"
    BY <1>3 DEF Give
  <2>2. w = input[Len(output) + 1]
    <3>1. Len(stack) \in Nat
      BY DEF SubstituteInv, SubstituteTyped
    <3>2. o + 1 > Len(stack)
      BY <1>3, <3>1
    <3> QED BY <3>2 DEF Wanted
  <2>3. output' \in Seq(Ids') /\ StackOK' /\ WalkOK'
    BY <1>1, <1>2, <2>1, <2>2, GiveAtom
  <2>4. stack' \in Seq([term : Ids', args : Seq(Ids')])
    BY <2>1
  <2>5. /\ pc \in {"atom", "resolve", "args"} \/ (pc = "rename" /\ unnamed = {})
        /\ pc' \in {"idle", "atom", "resolve", "args"}
        /\ UNCHANGED <<infos, var_counter, args_of_call, freshened, bindings, unnamed>>
    BY <2>1
  <2>6. SubstituteTyped' /\ NamesOnce' /\ RenamingOK'
    BY <1>2, <2>3, <2>4, <2>5, NamingKept, Zenon
  <2> QED BY <2>3, <2>6 DEF SubstituteInv
<1>4. CASE waiting # <<>>
  <2>1. /\ stack' = <<[Head(waiting) EXCEPT !.args = Append(@, r)]>> \o Tail(waiting)
        /\ pc' = "args" /\ UNCHANGED output
    BY <1>4 DEF Give
  <2>2. UNCHANGED <<bindings, operation, freshened, input, output>>
    BY <1>1, <2>1
  <2>3. stack' \in Seq([term : Ids', args : Seq(Ids')]) /\ StackOK' /\ WalkOK'
    BY <1>4, <2>1, <2>2, GiveArgument
  <2>4. /\ pc \in {"atom", "resolve", "args"} \/ (pc = "rename" /\ unnamed = {})
        /\ pc' \in {"idle", "atom", "resolve", "args"} /\ output' \in Seq(Ids')
        /\ UNCHANGED <<infos, var_counter, args_of_call, freshened, bindings, unnamed>>
    BY <1>2, <2>1
  <2>5. SubstituteTyped' /\ NamesOnce' /\ RenamingOK'
    BY <1>2, <2>3, <2>4, NamingKept, Zenon
  <2> QED BY <2>3, <2>5 DEF SubstituteInv
<1> QED BY <1>3, <1>4

\* A step that only goes to another term, or link of a chain.
LEMMA WalkKeeps ==
  ASSUME SubstituteInv, [Next]_vars,
         UNCHANGED <<bank, clauses, args_of_call, var_counter, freshened, bindings, unnamed,
                     stack, output>>,
         pc \in {"resolve", "args"}, pc = "args" => Waits(stack[1]), pc' = "resolve",
         NEW t \in Ids, term' = t, Doing(t, Wanted(1))
  PROVE  SubstituteInv'
<1>1. /\ Ids \subseteq Ids' /\ Seq(Ids) \subseteq Seq(Ids')
      /\ \A i \in Ids : terms'[i] = terms[i] /\ isVariable(i)' = isVariable(i)
  BY Steady DEF SubstituteInv
<1>2. /\ output' \in Seq(Ids') /\ clauses' \subseteq Seq(Ids')
      /\ stack' \in Seq([term : Ids', args : Seq(Ids')])
  BY DEF bank, Ids, SubstituteInv, SubstituteTyped
<1>3. UNCHANGED <<bindings, operation, freshened, input, output>>
  BY DEF args_of_call
<1>4. /\ \A j \in 1..Len(stack') : FrameOK(stack[j])' /\ (Waits(stack[j + 0]) => Waits(stack[j])')
      /\ \A j \in 1..(Len(stack') + 1) : Wanted(j)' = Wanted(j + 0) /\ Wanted(j + 0) \in Ids
      /\ \A j \in 1..Len(stack') :
           /\ Doing(stack[j].term, Wanted(j + 1))'
           /\ \A k \in 1..Len(stack'[j].args) :
                Done(stack[j].args[k], terms[stack[j].term].args[k])'
  <2>1. /\ 0 \in {-1, 0, 1} /\ 1 \in {1, 2} /\ 1 + 0 >= 1
        /\ 1 + 0 = 1 => pc = "resolve" \/ Waits(stack[1])
        /\ Len(stack') = Len(stack) - 0 /\ (0 = 1 => Len(stack) > 0)
        /\ \A j \in 1..Len(stack') : stack'[j] = stack[j + 0]
    BY DEF SubstituteInv, SubstituteTyped
  <2> QED BY <1>2, <1>3, <2>1, BelowKept, ZenonT(60)
<1>5. /\ Len(stack) \in Nat /\ \A j \in 1..Len(stack) : j + 0 = j
      /\ 1 \in 1..(Len(stack') + 1) /\ 1 + 0 = 1
  BY DEF SubstituteInv, SubstituteTyped
<1>6. StackOK'
  <2>1. \A j \in 1..Len(stack) : Waits(stack[j])
    BY DEF SubstituteInv, StackOK
  <2>2. \A j \in 1..Len(stack') : FrameOK(stack[j])' /\ Waits(stack[j])'
    BY <1>4, <1>5, <2>1
  <2> QED BY <1>1, <2>2 DEF StackOK, SubstituteInv, args_of_call
<1>7. WalkOK'
  <2>1. Len(output) < Len(input) /\ Len(output) \in Nat /\ Len(input) \in Nat
    BY DEF SubstituteInv, StackOK, SubstituteTyped
  <2>2. \A k \in 1..Len(output') : Done(output[k], input[k])'
    <3> TAKE k \in 1..Len(output')
    <3>1. PICK q : q = output[k]
      OBVIOUS
    <3>2. Done(q, input[k])'
      BY <1>3, <2>1, <3>1, OutputKept, SMTT(20)
    <3> QED BY <3>1, <3>2 DEF Done
  <2>3. Doing(term, Wanted(1))'
    <3>1. PICK w : w = Wanted(1)
      OBVIOUS
    <3>2. w \in Ids /\ Wanted(1)' = w
      BY <1>4, <1>5, <3>1
    <3>3. Doing(t, w)'
      BY <1>3, <3>1, <3>2, ValuesKept DEF SubstituteInv
    <3> QED BY <3>2, <3>3 DEF Doing
  <2> QED BY <1>4, <2>2, <2>3 DEF WalkOK
<1>8. /\ pc \in {"atom", "resolve", "args"} \/ (pc = "rename" /\ unnamed = {})
      /\ pc' \in {"idle", "atom", "resolve", "args"}
      /\ UNCHANGED <<infos, var_counter, args_of_call, freshened, bindings, unnamed>>
  BY DEF bank
<1>9. SubstituteTyped' /\ NamesOnce' /\ RenamingOK'
  BY <1>2, <1>8, NamingKept, Zenon
<1> QED BY <1>6, <1>7, <1>9 DEF SubstituteInv

\* A link of resolve() leads to a term with the same instance.
LEMMA ResolveKeeps ==
  ASSUME SubstituteInv, Resolve
  PROVE  SubstituteInv'
<1>1. bindings[term] \in Ids /\ Doing(bindings[term], Wanted(1))
  BY DoingBinding DEF Resolve, SubstituteInv, SubstituteTyped, BindingsTyped, WalkOK
<1>2. [Next]_vars
  BY DEF Next, Running, applySubstitution
<1> QED BY <1>1, <1>2, WalkKeeps DEF Resolve

\* A finished argument is the next value.
LEMMA NextArgumentKeeps ==
  ASSUME SubstituteInv, NextArgument
  PROVE  SubstituteInv'
<1>1. pc = "args" /\ stack # <<>> /\ stack \in Seq([term : Ids, args : Seq(Ids)])
  BY DEF NextArgument, SubstituteInv, SubstituteTyped, StackOK
<1>2. PICK f : f = stack[1]
  OBVIOUS
<1>3. Frame = f /\ 1 \in 1..Len(stack) /\ FrameOK(f)
  BY <1>1, <1>2, Pop DEF Frame, SubstituteInv, StackOK
<1>4. /\ f.term \in Ids /\ f.args \in Seq(Ids) /\ ~isVariable(f.term)
      /\ Len(f.args) < Len(terms[f.term].args) /\ term' = terms[f.term].args[Len(f.args) + 1]
  BY <1>3 DEF NextArgument, OldArgs, FrameOK
<1>5. PICK t : t = terms[f.term].args[Len(f.args) + 1]
  OBVIOUS
<1>6. t \in Members(terms[f.term].args) /\ t \in Ids
  <2>1. terms[f.term].args \in Seq(Ids)
    BY <1>4, Arguments DEF SubstituteInv, SubstituteTyped
  <2>2. Len(f.args) + 1 \in 1..Len(terms[f.term].args)
    BY <1>4, <2>1
  <2> QED BY <1>5, <2>1, <2>2, ElementOfSeq DEF Members
<1>7. t = Wanted(1)
  <2>1. ~(1 > Len(stack))
    BY <1>3
  <2> QED BY <1>2, <1>5, <2>1 DEF Wanted
<1>8. Doing(t, t)
  <2>1. Doing(f.term, Wanted(2))
    <3>1. 1 + 1 = 2
      OBVIOUS
    <3> QED BY <1>2, <1>3, <3>1 DEF SubstituteInv, WalkOK
  <2> QED BY <1>4, <1>6, <2>1, DoingArgument DEF SubstituteInv
<1>9. [Next]_vars
  BY DEF Next, Running, applySubstitution
<1>10. Waits(stack[1])
  BY <1>2, <1>4 DEF Waits
<1> QED BY <1>1, <1>4, <1>5, <1>6, <1>7, <1>8, <1>9, <1>10, WalkKeeps DEF NextArgument

\* Steps between the atoms of the clause, when no call is under way.
LEMMA BetweenKeeps ==
  ASSUME SubstituteInv, [Next]_vars,
         UNCHANGED <<infos, args_of_call, var_counter, freshened, bindings, unnamed, stack, output>>,
         pc = "atom" \/ (pc = "rename" /\ unnamed = {}), clauses' \subseteq clauses \cup {output},
         pc' \in {"idle", "atom", "resolve"},
         pc' = "resolve" => Len(output) < Len(input) /\ term' \in Members(input) /\ pc = "atom"
                            /\ term' = input[Len(output) + 1]
  PROVE  SubstituteInv'
<1>1. Ids \subseteq Ids' /\ Seq(Ids) \subseteq Seq(Ids')
  BY Steady DEF SubstituteInv
<1>2. /\ stack = <<>> /\ output \in Seq(Ids) /\ input \in Seq(Ids)
      /\ Len(output) \in Nat /\ Len(input) \in Nat /\ Len(output) <= Len(input)
  <2>1. Len(<<>>) = 0
    OBVIOUS
  <2> QED BY <2>1 DEF SubstituteInv, SubstituteTyped, StackOK
<1>3. /\ output' \in Seq(Ids') /\ clauses' \subseteq Seq(Ids')
      /\ stack' \in Seq([term : Ids', args : Seq(Ids')])
  BY <1>1, <1>2 DEF SubstituteInv, SubstituteTyped
<1>4. /\ pc \in {"atom", "resolve", "args"} \/ (pc = "rename" /\ unnamed = {})
      /\ pc' \in {"idle", "atom", "resolve", "args"}
      /\ UNCHANGED <<infos, var_counter, args_of_call, freshened, bindings, unnamed>>
  OBVIOUS
<1>5. SubstituteTyped' /\ NamesOnce' /\ RenamingOK'
  BY <1>3, <1>4, NamingKept, Zenon
<1>6. \A a \in Members(input) : a \in Ids
  BY <1>2, ElementOfSeq DEF Members
<1>7. Len(stack') = 0 /\ 1..0 = {}
  BY <1>2
<1>8. StackOK'
  BY <1>1, <1>2, <1>6, <1>7 DEF StackOK, args_of_call
<1>9. UNCHANGED <<bindings, operation, freshened, input>>
  BY DEF args_of_call
<1>10. WalkOK'
  <2>1. \A k \in 1..Len(output') : Done(output[k], input[k])'
    <3> TAKE k \in 1..Len(output')
    <3>1. PICK q : q = output[k]
      OBVIOUS
    <3>2. Done(q, input[k])'
      BY <1>2, <1>9, <3>1, OutputKept, SMTT(20)
    <3> QED BY <3>1, <3>2 DEF Done
  <2>2. ASSUME pc' = "resolve" PROVE Doing(term, Wanted(1))'
    <3>1. PICK t : t = term'
      OBVIOUS
    <3>2. t \in Members(input) /\ t \in Ids /\ t = input[Len(output) + 1] /\ pc = "atom"
      BY <1>6, <2>2, <3>1
    <3>3. Doing(t, t)
      BY <3>2, DoingAtom DEF SubstituteInv
    <3>4. Doing(t, t)'
      BY <1>9, <3>2, <3>3, ValuesKept DEF SubstituteInv
    <3>5. Wanted(1)' = t
      BY <1>7, <1>9, <3>2 DEF Wanted
    <3> QED BY <3>1, <3>4, <3>5 DEF Doing
  <2> QED BY <1>7, <2>1, <2>2 DEF WalkOK
<1> QED BY <1>5, <1>8, <1>10 DEF SubstituteInv

\* A finished atom is the next of the result.
LEMMA NextAtomKeeps ==
  ASSUME SubstituteInv, NextAtom
  PROVE  SubstituteInv'
<1>1. [Next]_vars
  BY DEF Next, Running, applySubstitution
<1>2. input[Len(output) + 1] \in Members(input)
  <2>1. Len(output) \in Nat /\ Len(input) \in Nat /\ input \in Seq(Ids)
    BY DEF SubstituteInv, SubstituteTyped
  <2>2. Len(output) + 1 \in DOMAIN input
    BY <2>1 DEF NextAtom
  <2> QED BY <2>2 DEF Members
<1> QED BY <1>1, <1>2, BetweenKeeps DEF NextAtom, bank

\* With the last atom the call ends.
LEMMA FinishKeeps ==
  ASSUME SubstituteInv, Finish
  PROVE  SubstituteInv'
<1>1. [Next]_vars
  BY DEF Next, Running, applySubstitution
<1> QED BY <1>1, BetweenKeeps DEF Finish, bank, apply_state

\* With every variable bound to a fresh one, the atoms are gone through.
LEMMA ApplyRenamingKeeps ==
  ASSUME SubstituteInv, ApplyRenaming
  PROVE  SubstituteInv'
<1>1. [Next]_vars
  BY DEF Next, Running
<1> QED BY <1>1, BetweenKeeps DEF ApplyRenaming, bank, apply_state

\* apply() turns to the arguments of a term that is not a variable.
LEMMA EnterKeeps ==
  ASSUME SubstituteInv, Enter
  PROVE  SubstituteInv'
<1> DEFINE Frames == [term : Ids', args : Seq(Ids')]
<1>1. [Next]_vars
  BY DEF Next, Running, applySubstitution
<1>2. PICK f : f = [term |-> term, args |-> <<>>]
  OBVIOUS
<1>3. /\ Ids \subseteq Ids' /\ Seq(Ids) \subseteq Seq(Ids')
      /\ \A i \in Ids : terms'[i] = terms[i] /\ isVariable(i)' = isVariable(i)
  BY <1>1, Steady DEF SubstituteInv
<1>4. /\ pc = "resolve" /\ term \in Ids /\ ~isVariable(term) /\ f.term = term /\ f.args = <<>>
      /\ stack \in Seq([term : Ids, args : Seq(Ids)]) /\ Len(stack) \in Nat /\ pc' = "args"
      /\ stack' = <<f>> \o stack /\ terms' = terms
      /\ UNCHANGED <<bindings, operation, freshened, input, output>>
  BY <1>2 DEF Enter, SubstituteInv, SubstituteTyped, StackOK, args_of_call, bank
<1>5. f \in Frames /\ stack \in Seq(Frames)
  <2>1. [term : Ids, args : Seq(Ids)] \subseteq Frames /\ f \in Frames
    BY <1>2, <1>3, <1>4
  <2> QED BY <1>4, <2>1, SeqMonotonic
<1>6. /\ stack' \in Seq(Frames) /\ Len(stack') = Len(stack) + 1 /\ stack'[1] = f
      /\ \A j \in 2..(Len(stack) + 1) : stack'[j] = stack[j - 1]
  <2>1. PICK S, s : S = Frames /\ s = stack
    OBVIOUS
  <2>2. s \in Seq(S) /\ f \in S
    BY <1>5, <2>1
  <2>3. /\ <<f>> \o s \in Seq(S) /\ Len(<<f>> \o s) = Len(s) + 1
        /\ (<<f>> \o s)[1] = f /\ \A j \in 2..(Len(s) + 1) : (<<f>> \o s)[j] = s[j - 1]
    BY <2>2, Push
  <2> HIDE DEF Frames
  <2> QED BY <1>4, <2>1, <2>3
<1>7. /\ \A j \in 2..Len(stack') : FrameOK(stack[j])' /\ (Waits(stack[j + -1]) => Waits(stack[j])')
      /\ \A j \in 2..(Len(stack') + 1) : Wanted(j)' = Wanted(j + -1) /\ Wanted(j + -1) \in Ids
      /\ \A j \in 2..Len(stack') :
           /\ Doing(stack[j].term, Wanted(j + 1))'
           /\ \A k \in 1..Len(stack'[j].args) :
                Done(stack[j].args[k], terms[stack[j].term].args[k])'
  <2>1. /\ -1 \in {-1, 0, 1} /\ 2 \in {1, 2} /\ 2 + -1 >= 1
        /\ 2 + -1 = 1 => pc = "resolve" \/ Waits(stack[1])
        /\ Len(stack') = Len(stack) - -1 /\ (-1 = 1 => Len(stack) > 0)
        /\ pc \in {"resolve", "args"}
    BY <1>4, <1>6
  <2>2. \A j \in 2..Len(stack') : stack'[j] = stack[j + -1]
    <3> HIDE DEF Frames
    <3>1. \A j \in 2..Len(stack') : j \in 2..(Len(stack) + 1) /\ j + -1 = j - 1
      BY <1>4, <1>6
    <3> QED BY <1>6, <3>1
  <2>3. stack' \in Seq([term : Ids', args : Seq(Ids')])
    BY <1>6
  <2>4. UNCHANGED <<bindings, operation, freshened, input, output>>
    BY <1>4
  <2> HIDE DEF Frames
  <2> QED BY <1>1, <2>1, <2>2, <2>3, <2>4, BelowKept, ZenonT(60)
<1> HIDE DEF Frames
<1>8. StackOK'
  <2>1. FrameOK(f)'
    <3>1. f \in [term : Ids', args : Seq(Ids')]
      BY <1>5 DEF Frames
    <3>2. ~isVariable(f.term)' /\ Len(f.args) = 0 /\ Len(terms'[f.term].args) \in Nat
      <4>1. terms[term].args \in Seq(Ids)
        BY <1>4, Arguments DEF SubstituteInv, SubstituteTyped
      <4> QED BY <1>3, <1>4, <4>1
    <3> QED BY <3>1, <3>2 DEF FrameOK, isVariable
  <2>2. FrameOK(stack[1])'
    BY <1>6, <2>1 DEF FrameOK, isVariable
  <2>3. \A j \in 1..Len(stack') : FrameOK(stack[j])'
    <3>1. \A j \in 1..Len(stack') : j = 1 \/ j \in 2..Len(stack')
      OBVIOUS
    <3> QED BY <1>7, <2>2, <3>1
  <2>4. \A j \in 2..Len(stack') : Waits(stack[j])'
    <3>1. \A j \in 2..Len(stack') : j + -1 \in 1..Len(stack)
      BY <1>4, <1>6
    <3>2. \A j \in 1..Len(stack) : Waits(stack[j])
      BY <1>4 DEF SubstituteInv, StackOK
    <3> QED BY <1>7, <3>1, <3>2
  <2>5. \A j \in 1..Len(stack') : j # 1 => j \in 2..Len(stack')
    OBVIOUS
  <2>6. stack' # <<>> /\ Len(output') < Len(input')
    <3>1. Len(stack') # 0
      BY <1>4, <1>6
    <3> QED BY <1>4, <3>1 DEF SubstituteInv, StackOK
  <2> QED BY <1>4, <2>3, <2>4, <2>5, <2>6 DEF StackOK
<1>9. WalkOK'
  <2>1. Len(output) < Len(input) /\ Len(output) \in Nat /\ Len(input) \in Nat
    BY <1>4 DEF SubstituteInv, StackOK, SubstituteTyped
  <2>2. \A k \in 1..Len(output') : Done(output[k], input[k])'
    <3> TAKE k \in 1..Len(output')
    <3>1. PICK q : q = output[k]
      OBVIOUS
    <3>2. Done(q, input[k])'
      BY <1>1, <1>4, <2>1, <3>1, OutputKept, SMTT(20)
    <3> QED BY <1>4, <3>1, <3>2 DEF Done
  <2>3. Doing(stack[1].term, Wanted(2))'
    <3>1. PICK t, w : t = term /\ w = Wanted(1)
      OBVIOUS
    <3>2. w \in Ids /\ Wanted(2)' = w
      <4>1. 2 \in 2..(Len(stack') + 1) /\ 2 + -1 = 1
        BY <1>4, <1>6
      <4> QED BY <1>7, <3>1, <4>1
    <3>3. Doing(t, w) /\ t \in Ids
      BY <1>4, <3>1 DEF SubstituteInv, WalkOK
    <3>4. Doing(t, w)'
      BY <1>1, <1>4, <3>2, <3>3, ValuesKept DEF SubstituteInv
    <3>5. stack'[1].term = t
      BY <1>4, <1>6, <3>1
    <3> QED BY <3>2, <3>4, <3>5 DEF Doing
  <2>4. stack'[1].args = <<>> /\ 1..Len(<<>>) = {}
    BY <1>4, <1>6
  <2>5. \A j \in 1..Len(stack') :
          /\ Doing(stack[j].term, Wanted(j + 1))'
          /\ \A k \in 1..Len(stack'[j].args) :
               Done(stack[j].args[k], terms[stack[j].term].args[k])'
    <3>1. \A j \in 1..Len(stack') : j = 1 \/ j \in 2..Len(stack')
      OBVIOUS
    <3>2. 1 + 1 = 2
      OBVIOUS
    <3> QED BY <1>7, <2>3, <2>4, <3>1, <3>2
  <2> QED BY <1>4, <2>2, <2>5 DEF WalkOK
<1>10. /\ pc \in {"atom", "resolve", "args"} \/ (pc = "rename" /\ unnamed = {})
       /\ pc' \in {"idle", "atom", "resolve", "args"}
       /\ UNCHANGED <<infos, var_counter, args_of_call, freshened, bindings, unnamed>>
       /\ output' \in Seq(Ids') /\ clauses' \subseteq Seq(Ids')
       /\ stack' \in Seq([term : Ids', args : Seq(Ids')])
  BY <1>3, <1>6 DEF Enter, bank, Frames, SubstituteInv, SubstituteTyped
<1>11. SubstituteTyped' /\ NamesOnce' /\ RenamingOK'
  BY <1>1, <1>10, NamingKept, Zenon
<1> QED BY <1>8, <1>9, <1>11 DEF SubstituteInv

\* An unbound variable is its own instance.
LEMMA FreeVariableKeeps ==
  ASSUME SubstituteInv, FreeVariable
  PROVE  SubstituteInv'
<1>1. [Next]_vars
  BY DEF Next, Running, applySubstitution
<1>2. PICK r, w : r = term /\ w = Wanted(1)
  OBVIOUS
<1>3. /\ pc = "resolve" /\ r \in Ids /\ Give(r, stack)
      /\ stack \in Seq([term : Ids, args : Seq(Ids)]) /\ Len(stack) \in Nat
      /\ UNCHANGED <<infos, clauses, var_counter, args_of_call, freshened, bindings, unnamed>>
  BY <1>2 DEF FreeVariable, bank, SubstituteInv, SubstituteTyped, StackOK
<1>4. w \in Ids
  <2>1. 1 \in 1..(Len(stack) + 1)
    BY <1>3
  <2> QED BY <1>2, <1>3, <2>1, WantedTyped DEF SubstituteInv
<1>5. Done(r, w)
  BY <1>2, <1>3, DoneFree DEF FreeVariable, SubstituteInv, WalkOK
<1>6. Done(r, w)' /\ r \in Ids'
  BY <1>1, <1>3, <1>4, <1>5, ValuesKept, Steady DEF SubstituteInv, args_of_call
<1>7. /\ 0 \in {0, 1} /\ (0 = 0 => pc = "resolve") /\ pc \in {"resolve", "args"}
      /\ Len(stack) = Len(stack) - 0 /\ \A j \in 1..Len(stack) : stack[j] = stack[j + 0]
      /\ w = Wanted(0 + 1)
  BY <1>2, <1>3
<1> QED BY <1>1, <1>3, <1>4, <1>6, <1>7, GiveKeeps, ZenonT(60)

\* The innermost call and what it has been given.
LEMMA InnerCall ==
  ASSUME SubstituteInv, pc = "args"
  PROVE  /\ stack # <<>> /\ Frame = stack[1] /\ Len(stack) \in Nat /\ Len(stack) >= 1
         /\ Tail(stack) \in Seq([term : Ids, args : Seq(Ids)])
         /\ Len(Tail(stack)) = Len(stack) - 1
         /\ \A j \in 1..Len(Tail(stack)) : Tail(stack)[j] = stack[j + 1]
         /\ Frame.term \in Ids /\ Frame.args \in Seq(Ids) /\ ~isVariable(Frame.term)
         /\ terms[Frame.term].args \in Seq(Ids)
         /\ Wanted(2) \in Ids /\ Doing(Frame.term, Wanted(2))
         /\ \A k \in 1..Len(Frame.args) : Done(Frame.args[k], terms[Frame.term].args[k])
<1>1. stack # <<>> /\ stack \in Seq([term : Ids, args : Seq(Ids)]) /\ Len(stack) \in Nat
  BY DEF SubstituteInv, SubstituteTyped, StackOK
<1>2. /\ Head(stack) = stack[1] /\ Len(stack) >= 1 /\ Len(Tail(stack)) = Len(stack) - 1
      /\ Tail(stack) \in Seq([term : Ids, args : Seq(Ids)])
      /\ \A j \in 1..Len(Tail(stack)) : Tail(stack)[j] = stack[j + 1]
  <2>1. PICK S : S = [term : Ids, args : Seq(Ids)]
    OBVIOUS
  <2>2. stack \in Seq(S) /\ stack # <<>>
    BY <1>1, <2>1
  <2>3. /\ Head(stack) = stack[1] /\ Len(stack) >= 1 /\ Len(Tail(stack)) = Len(stack) - 1
        /\ Tail(stack) \in Seq(S)
        /\ \A j \in 1..Len(Tail(stack)) : Tail(stack)[j] = stack[j + 1]
    BY <2>2, Pop
  <2> QED BY <2>1, <2>3
<1>3. FrameOK(Frame) /\ 1 \in 1..Len(stack) /\ Frame = stack[1]
  BY <1>1, <1>2 DEF Frame, SubstituteInv, StackOK
<1>4. Frame.term \in Ids /\ Frame.args \in Seq(Ids) /\ ~isVariable(Frame.term)
  BY <1>3 DEF FrameOK
<1>5. terms[Frame.term].args \in Seq(Ids)
  BY <1>4, Arguments DEF SubstituteInv, SubstituteTyped
<1>6. Wanted(2) \in Ids
  <2>1. 2 \in 1..(Len(stack) + 1) /\ 2 # 1
    BY <1>1, <1>2
  <2> QED BY <2>1, WantedTyped DEF SubstituteInv
<1>7. /\ Doing(Frame.term, Wanted(2))
      /\ \A k \in 1..Len(Frame.args) : Done(Frame.args[k], terms[Frame.term].args[k])
  <2>1. 1 + 1 = 2
    OBVIOUS
  <2> QED BY <1>3, <2>1 DEF SubstituteInv, WalkOK
<1> QED BY <1>1, <1>2, <1>3, <1>4, <1>5, <1>6, <1>7

\* A term whose arguments are unchanged is returned as it is.
LEMMA ShareTermKeeps ==
  ASSUME SubstituteInv, ShareTerm
  PROVE  SubstituteInv'
<1>1. [Next]_vars
  BY DEF Next, Running, applySubstitution
<1>2. PICK r, w : r = Frame.term /\ w = Wanted(2)
  OBVIOUS
<1>3. /\ pc = "args" /\ Frame.args = terms[r].args /\ Give(r, Tail(stack))
      /\ UNCHANGED <<infos, clauses, var_counter, args_of_call, freshened, bindings, unnamed>>
  BY <1>2 DEF ShareTerm, OldArgs, bank
<1>4. /\ r \in Ids /\ w \in Ids /\ ~isVariable(r) /\ terms[r].args \in Seq(Ids)
      /\ Doing(r, w) /\ \A k \in 1..Len(terms[r].args) : Done(terms[r].args[k], terms[r].args[k])
  BY <1>2, <1>3, InnerCall
<1>5. Done(r, w)
  <2>1. DOMAIN terms[r].args = 1..Len(terms[r].args)
    BY <1>4
  <2>2. Done(r, r)
    BY <1>4, <2>1, DoneBuilt DEF SubstituteInv, SubstituteTyped
  <2> QED BY <1>4, <2>2, DoneDoing
<1>6. Done(r, w)' /\ r \in Ids'
  BY <1>1, <1>3, <1>4, <1>5, ValuesKept, Steady DEF SubstituteInv, args_of_call
<1>7. /\ 1 \in {0, 1} /\ (1 = 0 => pc = "resolve") /\ pc \in {"resolve", "args"}
      /\ w = Wanted(1 + 1)
  BY <1>2, <1>3
<1>8. /\ Tail(stack) \in Seq([term : Ids, args : Seq(Ids)])
      /\ Len(Tail(stack)) = Len(stack) - 1
      /\ \A j \in 1..Len(Tail(stack)) : Tail(stack)[j] = stack[j + 1]
  BY <1>3, InnerCall
<1> QED BY <1>1, <1>3, <1>4, <1>6, <1>7, <1>8, GiveKeeps, ZenonT(60)

\* What makeTerm() returns is the id of the term.
LEMMA Makes ==
  ASSUME BankOK, NEW t, makeTerm(t)
  PROVE  IdOf(t) \in DOMAIN terms' /\ terms'[IdOf(t)] = t
<1>1. CASE t \in DOMAIN term_to_id
  <2>1. PICK i \in DOMAIN terms : terms[i] = t
    BY <1>1 DEF BankOK, TermsOK
  <2>2. IdOf(t) = i
    BY <1>1, <2>1 DEF BankOK, TermsOK, IdOf
  <2> QED BY <1>1, <2>1, <2>2 DEF makeTerm
<1>2. CASE t \notin DOMAIN term_to_id
  <2>1. terms' = Append(terms, t) /\ IdOf(t) = Len(terms) + 1
    BY <1>2 DEF makeTerm, IdOf
  <2>2. PICK S : terms \in Seq(S)
    BY DEF BankOK, TermsOK
  <2>3. terms \in Seq(S \cup {t})
    BY <2>2
  <2> QED BY <2>1, <2>3
<1> QED BY <1>1, <1>2

\* A term with a changed argument is made anew.
LEMMA BuildTermKeeps ==
  ASSUME SubstituteInv, BuildTerm
  PROVE  SubstituteInv'
<1>1. [Next]_vars
  BY DEF Next, Running, applySubstitution
<1>2. PICK t, args, w : t = Frame.term /\ args = Frame.args /\ w = Wanted(2)
  OBVIOUS
<1>3. PICK key : key = Term(terms[t].symbol, args)
  OBVIOUS
<1>4. PICK r : r = IdOf(key)
  OBVIOUS
<1>5. /\ pc = "args" /\ Len(args) = Len(terms[t].args) /\ makeTerm(key) /\ infos' = infos
      /\ Give(r, Tail(stack))
      /\ UNCHANGED <<infos, clauses, var_counter, args_of_call, freshened, bindings, unnamed>>
  BY <1>2, <1>3, <1>4 DEF BuildTerm, OldArgs, Rebuild
<1>6. /\ t \in Ids /\ w \in Ids /\ args \in Seq(Ids) /\ ~isVariable(t) /\ terms[t].args \in Seq(Ids)
      /\ Doing(t, w) /\ \A k \in 1..Len(args) : Done(args[k], terms[t].args[k])
  BY <1>2, <1>5, InnerCall
<1>7. r \in Ids' /\ terms'[r].symbol = terms[t].symbol /\ terms'[r].args = args
  <2>1. r \in Ids' /\ terms'[r] = key
    BY <1>4, <1>5, Makes DEF Ids, SubstituteInv, SubstituteTyped
  <2> QED BY <1>3, <2>1 DEF Term
<1>8. UNCHANGED <<bindings, operation, freshened>>
  BY <1>5 DEF args_of_call
<1>9. Done(r, w)'
  <2>1. BankOK' /\ BindingsTyped'
    BY <1>1, <1>8, Steady, ValuesKept DEF SubstituteInv
  <2>2. ArgumentsMakeValue'
    <3>1. (BankOK /\ BindingsTyped => ArgumentsMakeValue)'
      BY ValueBuilt, PTL
    <3> QED BY <2>1, <3>1
  <2>3. t \in Ids' /\ terms'[t] = terms[t] /\ ~isVariable(t)'
    BY <1>1, <1>6, Steady DEF SubstituteInv
  <2>4. DOMAIN terms'[r].args = DOMAIN terms'[t].args /\ DOMAIN terms[t].args = 1..Len(args)
    BY <1>5, <1>6, <1>7, <2>3
  <2>5. ASSUME NEW k \in DOMAIN terms'[t].args
        PROVE  Done(terms[r].args[k], terms[t].args[k])'
    <3>1. PICK q, u : q = args[k] /\ u = terms[t].args[k]
      OBVIOUS
    <3>2. k \in 1..Len(args) /\ q \in Ids /\ u \in Ids
      <4>1. k \in 1..Len(args) /\ k \in 1..Len(terms[t].args)
        BY <1>5, <2>3, <2>4
      <4> QED BY <1>6, <3>1, <4>1, ElementOfSeq
    <3>3. Done(q, u)'
      BY <1>1, <1>6, <1>8, <3>1, <3>2, ValuesKept DEF SubstituteInv
    <3>4. terms'[r].args[k] = q /\ terms'[t].args[k] = u
      BY <1>7, <2>3, <3>1
    <3> QED BY <3>3, <3>4 DEF Done
  <2>6. Done(r, t)'
    BY <1>7, <2>2, <2>3, <2>4, <2>5 DEF ArgumentsMakeValue
  <2>7. Doing(t, w)'
    BY <1>1, <1>6, <1>8, ValuesKept DEF SubstituteInv
  <2> QED BY <2>6, <2>7 DEF Done, Doing
<1>10. /\ 1 \in {0, 1} /\ (1 = 0 => pc = "resolve") /\ pc \in {"resolve", "args"}
       /\ w = Wanted(1 + 1)
  BY <1>2, <1>5
<1>11. /\ Tail(stack) \in Seq([term : Ids, args : Seq(Ids)])
       /\ Len(Tail(stack)) = Len(stack) - 1
       /\ \A j \in 1..Len(Tail(stack)) : Tail(stack)[j] = stack[j + 1]
  BY <1>5, InnerCall
<1> QED BY <1>1, <1>5, <1>6, <1>7, <1>9, <1>10, <1>11, GiveKeeps, ZenonT(60)

-----------------------------------------------------------------------------
(* Calls *)

\* No walk is under way and nothing has been made.
LEMMA NoWalk ==
  ASSUME stack' = <<>>, output' = <<>>, pc' \in {"idle", "rename", "atom", "thrown"}, input' \in Seq(Ids')
  PROVE  StackOK' /\ WalkOK'
<1>1. Len(stack') = 0 /\ Len(output') = 0 /\ 1..0 = {} /\ Len(input') \in Nat
  OBVIOUS
<1> QED BY <1>1 DEF StackOK, WalkOK

\* renameVariables begins with every variable of the clause unnamed.
LEMMA renameVariablesKeeps ==
  ASSUME SubstituteInv, NEW c \in clauses, renameVariables(c)
  PROVE  SubstituteInv'
<1>1. [Next]_vars
  BY DEF Next
<1>2. /\ pc = "idle" /\ c \in Seq(Ids) /\ stack = <<>> /\ pc' \in {"idle", "rename"}
      /\ UNCHANGED <<infos, terms, clauses, var_counter, freshened, stack>>
      /\ operation' = "rename" /\ input' = c /\ known' = Len(terms) /\ output' = <<>>
      /\ unnamed' = collectVariables(c) /\ bindings' = <<>>
  BY DEF renameVariables, Call, bank, SubstituteInv, SubstituteTyped, StackOK
<1>3. /\ BankOK' /\ Ids' = Ids /\ Len(terms) \in Nat /\ Ids = 1..Len(terms)
      /\ \A i \in Ids : isVariable(i)' = isVariable(i) /\ VariablesOf'[i] = VariablesOf[i]
  <2>1. Ids = 1..Len(terms)
    BY TreesUnfold DEF Ids, SubstituteInv, SubstituteTyped
  <2> QED BY <1>1, <1>2, <2>1, Steady DEF SubstituteInv, Ids
<1>4. \A v \in unnamed' : v \in Ids /\ isVariable(v) /\ v <= Len(terms)
  <2>1. collectVariables(c) = UNION {VariablesOf[i] : i \in Members(c)}
    BY Collected DEF SubstituteInv, SubstituteTyped
  <2>2. \A i \in Members(c) : i \in Ids
    BY <1>2, ElementOfSeq DEF Members
  <2> QED BY <1>2, <1>3, <2>1, <2>2, VariablesAreVariables DEF SubstituteInv, SubstituteTyped
<1>5. DOMAIN bindings' = {}
  BY <1>2
<1>6. SubstituteTyped'
  <2>1. BindingsTyped'
    BY <1>5 DEF BindingsTyped
  <2>2. known' \in 0..Len(terms')
    BY <1>2, <1>3
  <2>3. \A v \in unnamed' : v \in Ids' /\ isVariable(v)'
    BY <1>3, <1>4
  <2> QED BY <1>2, <1>3, <2>1, <2>2, <2>3 DEF SubstituteTyped, SubstituteInv
<1>7. StackOK' /\ WalkOK'
  BY <1>2, <1>3, NoWalk
<1>8. NamesOnce'
  BY <1>2 DEF NamesOnce, SubstituteInv
<1>9. RenamingOK'
  <2>1. collectVariables(input)' = unnamed'
    BY <1>2 DEF collectVariables, isVariable
  <2> QED BY <1>2, <1>4, <1>5, <2>1 DEF RenamingOK
<1> QED BY <1>6, <1>7, <1>8, <1>9 DEF SubstituteInv

\* applySubstitution begins with what unify left.
LEMMA ApplyUnifierKeeps ==
  ASSUME SubstituteInv, NEW c \in clauses, NEW s \in Unifiers,
         NEW op \in {"applySubstitution", "apply"}, ApplyUnifier(op, c, s)
  PROVE  SubstituteInv'
<1>1. [Next]_vars
  BY DEF Next
<1>2. /\ pc = "idle" /\ c \in Seq(Ids) /\ stack = <<>> /\ pc' = "atom"
      /\ UNCHANGED <<infos, terms, clauses, var_counter, freshened, unnamed, stack>>
      /\ operation' = op /\ input' = c /\ known' = Len(terms) /\ output' = <<>> /\ bindings' = s
  BY DEF ApplyUnifier, Call, bank, SubstituteInv, SubstituteTyped, StackOK
<1>3. /\ BankOK' /\ Ids' = Ids /\ Len(terms) \in Nat
      /\ \A i \in Ids : isVariable(i)' = isVariable(i)
  BY <1>1, <1>2, Steady DEF SubstituteInv, Ids
<1>4. BindingsTyped'
  <2>1. \A v \in DOMAIN s : v \in Ids /\ s[v] \in Ids /\ isVariable(v)
    BY DEF Unifiers, Ids
  <2>2. s = [v \in DOMAIN s |-> s[v]]
    BY DEF Unifiers
  <2> QED BY <1>2, <1>3, <2>1, <2>2 DEF BindingsTyped
<1>5. SubstituteTyped'
  <2>1. known' \in 0..Len(terms')
    BY <1>2, <1>3
  <2> QED BY <1>2, <1>3, <1>4, <2>1 DEF SubstituteTyped, SubstituteInv
<1>6. StackOK' /\ WalkOK'
  BY <1>2, <1>3, NoWalk
<1>7. NamesOnce'
  BY <1>2 DEF NamesOnce, SubstituteInv
<1>8. RenamingOK'
  BY <1>2 DEF RenamingOK, Renaming
<1> QED BY <1>5, <1>6, <1>7, <1>8 DEF SubstituteInv

\* A fresh name that is taken ends the call.
LEMMA FreshenThrowsKeeps ==
  ASSUME SubstituteInv, FreshenThrows
  PROVE  SubstituteInv'
<1>1. [Next]_vars
  BY DEF Next, Running
<1>2. /\ pc = "rename" /\ pc' = "thrown" /\ stack = <<>> /\ output = <<>>
      /\ var_counter' = (var_counter + 1) % CounterMod
      /\ UNCHANGED <<infos, terms, clauses, operation, input, known, freshened, bindings,
                     unnamed, stack, output>>
  BY DEF FreshenThrows, bank, args_of_call, apply_state, SubstituteInv, StackOK
<1>3. /\ BankOK' /\ Ids' = Ids /\ BindingsTyped'
      /\ \A i \in Ids : isVariable(i)' = isVariable(i)
  BY <1>1, <1>2, Steady, ValuesKept DEF SubstituteInv, Ids
<1>4. var_counter' \in 0..(CounterMod - 1)
  BY <1>2, NamesFresh DEF NamesFresh, SubstituteInv, SubstituteTyped
<1>5. SubstituteTyped'
  BY <1>2, <1>3, <1>4 DEF SubstituteTyped, SubstituteInv
<1>6. StackOK' /\ WalkOK'
  BY <1>2, <1>5, NoWalk DEF SubstituteTyped
<1>7. NamesOnce'
  BY <1>2 DEF NamesOnce, SubstituteInv
<1>8. RenamingOK'
  <2>1. \A v \in DOMAIN bindings : isVariable(bindings[v]) => isVariable(bindings[v])'
    BY <1>2, <1>3 DEF isVariable, SubstituteInv, SubstituteTyped, BindingsTyped
  <2> QED BY <1>2, <2>1 DEF RenamingOK, Renaming, SubstituteInv
<1> QED BY <1>5, <1>6, <1>7, <1>8 DEF SubstituteInv

\* As long as no name has been given twice the name of the counter is no symbol's
\* yet, so the variable is new to the bank.
LEMMA FreshIsNew ==
  ASSUME SubstituteInv, freshened < CounterMod, pc = "rename", Variable(FreshName(var_counter))
  PROVE  /\ IdOf(Term(SymbolOf(FreshName(var_counter)), <<>>)) = Len(terms) + 1
         /\ infos' = Append(infos, [name |-> FreshName(var_counter), kind |-> "kVariable", arity |-> 0])
         /\ terms' = Append(terms, Term(Len(infos) + 1, <<>>))
<1> DEFINE name == FreshName(var_counter)
<1>1. var_counter = freshened /\ var_counter \in 0..(CounterMod - 1) /\ freshened \in Nat /\ BankOK
  BY DEF SubstituteInv, SubstituteTyped, NamesOnce
<1>2. name \notin DOMAIN name_to_id
  <2> SUFFICES ASSUME name \in DOMAIN name_to_id PROVE FALSE
    OBVIOUS
  <2>1. PICK s \in DOMAIN infos : infos[s].name = name /\ name_to_id[name] = s
    BY <1>1 DEF BankOK, SymbolsOK
  <2>2. infos[s].kind = "kVariable"
    BY <2>1 DEF Variable, intern, Mismatch
  <2>3. freshened <= CounterMod
    BY <1>1, NamesFresh DEF NamesFresh
  <2>4. var_counter < freshened
    BY <1>1, <2>1, <2>2, <2>3 DEF SubstituteInv, NamesOnce
  <2> QED BY <1>1, <2>4
<1>3. SymbolOf(name) = Len(infos) + 1 /\ intern(name, "kVariable", 0)
      /\ makeTerm(Term(SymbolOf(name), <<>>))
  BY <1>2 DEF SymbolOf, Variable
<1>4. infos' = Append(infos, [name |-> name, kind |-> "kVariable", arity |-> 0])
  <2>1. 0 % ArityMod = 0
    BY ArityModTyped DEF ArityModTyped
  <2> QED BY <1>2, <1>3, <2>1 DEF intern
<1>5. Term(Len(infos) + 1, <<>>) \notin DOMAIN term_to_id
  <2> SUFFICES ASSUME NEW i \in DOMAIN terms PROVE terms[i].symbol # Len(infos) + 1
    BY <1>1 DEF BankOK, TermsOK, Term
  <2>1. terms[i].symbol \in DOMAIN infos /\ infos \in Seq(SymbolInfo)
    BY <1>1, StoredFields DEF BankOK, SymbolsOK
  <2> QED BY <2>1
<1> QED BY <1>3, <1>4, <1>5 DEF makeTerm, IdOf

\* A variable is bound to a fresh one.
LEMMA FreshenKeeps ==
  ASSUME SubstituteInv, NEW v \in unnamed, Freshen(v)
  PROVE  SubstituteInv'
<1>1. [Next]_vars
  BY DEF Next, Running
<1>2. PICK id : id = IdOf(Term(SymbolOf(FreshName(var_counter)), <<>>))
  OBVIOUS
<1>3. /\ pc = "rename" /\ pc' = "rename" /\ stack = <<>> /\ output = <<>>
      /\ Variable(FreshName(var_counter)) /\ bindings' = Extend(bindings, v, id)
      /\ unnamed' = unnamed \ {v}
      /\ var_counter' = (var_counter + 1) % CounterMod /\ freshened' = freshened + 1
      /\ UNCHANGED <<clauses, operation, input, known, stack, output>>
  BY <1>2 DEF Freshen, args_of_call, apply_state, SubstituteInv, StackOK
<1>4. /\ BankOK' /\ Ids \subseteq Ids' /\ Seq(Ids) \subseteq Seq(Ids')
      /\ Len(terms) \in Nat /\ Len(terms') \in Nat /\ Len(terms) <= Len(terms')
      /\ \A i \in Ids : terms'[i] = terms[i] /\ isVariable(i)' = isVariable(i)
  BY <1>1, Steady DEF SubstituteInv
<1>5. id \in Ids'
  <2>1. FreshName(var_counter) \in Name
    BY NamesFresh DEF NamesFresh, SubstituteInv, SubstituteTyped
  <2> QED BY <1>2, <1>3, <2>1, VariableKeeps DEF Ids, SubstituteInv, SubstituteTyped
<1>6. /\ DOMAIN bindings' = DOMAIN bindings \cup {v}
      /\ \A w \in DOMAIN bindings : bindings'[w] = bindings[w]
      /\ v \notin DOMAIN bindings => bindings'[v] = id
      /\ bindings' = [w \in DOMAIN bindings' |-> bindings'[w]]
  BY <1>3 DEF Extend
<1>7. BindingsTyped'
  <2>1. \A w \in DOMAIN bindings' : w \in Ids' /\ isVariable(w)' /\ bindings'[w] \in Ids'
    BY <1>4, <1>5, <1>6 DEF SubstituteInv, SubstituteTyped, BindingsTyped
  <2> QED BY <1>6, <2>1 DEF BindingsTyped
<1>8. SubstituteTyped'
  <2>1. var_counter' \in 0..(CounterMod - 1) /\ freshened' \in Nat
    BY <1>3, NamesFresh DEF NamesFresh, SubstituteInv, SubstituteTyped
  <2>2. input' \in Seq(Ids') /\ output' \in Seq(Ids') /\ clauses' \subseteq Seq(Ids')
    BY <1>3, <1>4 DEF SubstituteInv, SubstituteTyped
  <2>3. \A w \in unnamed' : w \in Ids' /\ isVariable(w)'
    BY <1>3, <1>4 DEF SubstituteInv, SubstituteTyped
  <2>4. stack' \in Seq([term : Ids', args : Seq(Ids')]) /\ known' \in 0..Len(terms')
    BY <1>3, <1>4 DEF SubstituteInv, SubstituteTyped
  <2> QED BY <1>3, <1>4, <1>7, <2>1, <2>2, <2>3, <2>4 DEF SubstituteTyped
<1>9. StackOK' /\ WalkOK'
  BY <1>3, <1>8, NoWalk DEF SubstituteTyped
<1>10. /\ CounterMod \in Nat \ {0} /\ freshened \in Nat /\ var_counter \in 0..(CounterMod - 1)
       /\ (freshened < CounterMod => var_counter = freshened)
  BY <1>3, NamesFresh DEF NamesFresh, SubstituteInv, SubstituteTyped, NamesOnce
<1>11. ASSUME freshened' <= CounterMod
       PROVE  /\ id = Len(terms) + 1 /\ terms' = Append(terms, Term(Len(infos) + 1, <<>>))
              /\ infos' = Append(infos, [name |-> FreshName(freshened), kind |-> "kVariable", arity |-> 0])
              /\ freshened < CounterMod /\ var_counter = freshened
  BY <1>2, <1>3, <1>10, <1>11, FreshIsNew
<1>12. NamesOnce'
  <2>1. ASSUME freshened' < CounterMod PROVE var_counter' = freshened'
    <3>1. freshened + 1 < CounterMod /\ var_counter = freshened
      BY <1>3, <1>10, <2>1
    <3>2. (freshened + 1) % CounterMod = freshened + 1
      BY <1>10, <3>1
    <3> QED BY <1>3, <3>1, <3>2
  <2>2. ASSUME freshened' <= CounterMod, NEW s \in DOMAIN infos', NEW n \in 0..(CounterMod - 1),
               infos'[s].kind = "kVariable", infos'[s].name = FreshName(n)
        PROVE  n < freshened'
    <3>1. infos \in Seq(SymbolInfo)
      BY DEF SubstituteInv, SubstituteTyped, BankOK, SymbolsOK
    <3>2. CASE s \in DOMAIN infos
      <4>1. infos'[s] = infos[s]
        BY <1>11, <2>2, <3>1, <3>2
      <4>2. n < freshened
        <5>1. freshened <= CounterMod
          BY <1>3, <1>10, <2>2
        <5> QED BY <2>2, <3>2, <4>1, <5>1 DEF SubstituteInv, NamesOnce
      <4> QED BY <1>3, <1>10, <4>2
    <3>3. CASE s = Len(infos) + 1
      <4>1. infos'[s].name = FreshName(freshened)
        BY <1>11, <2>2, <3>1, <3>3
      <4>2. n = freshened
        BY <1>10, <1>11, <2>2, <4>1, NamesFresh DEF NamesFresh
      <4> QED BY <1>3, <1>10, <4>2
    <3>4. s \in 1..(Len(infos) + 1) /\ Len(infos) \in Nat /\ DOMAIN infos = 1..Len(infos)
      BY <1>11, <2>2, <3>1
    <3> QED BY <3>2, <3>3, <3>4
  <2> QED BY <2>1, <2>2 DEF NamesOnce
<1>13. RenamingOK'
  <2> SUFFICES ASSUME Renaming'
               PROVE  /\ \A w \in DOMAIN bindings' : bindings'[w] > known' /\ isVariable(bindings[w])'
                      /\ \A u, w \in DOMAIN bindings' : bindings'[u] = bindings'[w] => u = w
                      /\ \A w \in DOMAIN bindings' \cup unnamed' : w <= known'
                      /\ DOMAIN bindings' \cup unnamed' = collectVariables(input)'
    BY <1>3 DEF RenamingOK
  <2>1. freshened' <= CounterMod /\ freshened <= CounterMod /\ operation = "rename" /\ Renaming
    BY <1>3, <1>10 DEF Renaming
  <2>2. /\ id = Len(terms) + 1 /\ terms' = Append(terms, Term(Len(infos) + 1, <<>>))
        /\ infos' = Append(infos, [name |-> FreshName(freshened), kind |-> "kVariable", arity |-> 0])
    BY <1>11, <2>1
  <2>3. /\ \A w \in DOMAIN bindings : /\ bindings[w] > known /\ isVariable(bindings[w])
                                      /\ bindings[w] \in Ids /\ bindings[w] # id
        /\ \A u, w \in DOMAIN bindings : bindings[u] = bindings[w] => u = w
        /\ \A w \in DOMAIN bindings \cup unnamed : w <= known
        /\ DOMAIN bindings \cup unnamed = collectVariables(input)
        /\ known \in 0..Len(terms) /\ id > known
    <3>1. Ids = 1..Len(terms) /\ Len(terms) \in Nat
      BY TreesUnfold DEF Ids, SubstituteInv, SubstituteTyped
    <3>2. \A w \in DOMAIN bindings : bindings[w] \in Ids
      BY DEF SubstituteInv, SubstituteTyped, BindingsTyped
    <3>3. known \in 0..Len(terms)
      BY DEF SubstituteInv, SubstituteTyped
    <3> QED BY <1>3, <2>1, <2>2, <3>1, <3>2, <3>3 DEF SubstituteInv, RenamingOK
  <2>4. isVariable(id)'
    <3>1. terms \in Seq(StoredTerm(DOMAIN infos, DOMAIN terms)) /\ infos \in Seq(SymbolInfo)
      BY DEF SubstituteInv, SubstituteTyped, BankOK, TermsOK, SymbolsOK
    <3>2. terms'[id] = Term(Len(infos) + 1, <<>>)
      BY <2>2, <3>1
    <3>3. infos'[Len(infos) + 1].kind = "kVariable"
      BY <2>2, <3>1
    <3> QED BY <3>2, <3>3 DEF isVariable, Term
  <2>5. \A w \in DOMAIN bindings' : bindings'[w] > known' /\ isVariable(bindings[w])'
    <3>1. \A i \in Ids : isVariable(i) => isVariable(i)'
      BY <1>4
    <3>2. ASSUME NEW w \in DOMAIN bindings' PROVE bindings'[w] > known' /\ isVariable(bindings[w])'
      <4>1. PICK b : b = bindings'[w]
        OBVIOUS
      <4>2. b > known /\ isVariable(b)'
        <5>1. CASE w \in DOMAIN bindings
          BY <1>6, <2>3, <3>1, <4>1, <5>1
        <5>2. CASE w \notin DOMAIN bindings
          <6>1. b = id
            BY <1>6, <3>2, <4>1, <5>2
          <6> QED BY <2>3, <2>4, <6>1 DEF isVariable
        <5> QED BY <5>1, <5>2
      <4> QED BY <1>3, <4>1, <4>2 DEF isVariable
    <3> QED BY <3>2
  <2>6. \A u, w \in DOMAIN bindings' : bindings'[u] = bindings'[w] => u = w
    BY <1>6, <2>3
  <2>7. DOMAIN bindings' \cup unnamed' = DOMAIN bindings \cup unnamed
    BY <1>3, <1>6
  <2>8. collectVariables(input)' = collectVariables(input)
    BY <1>1, <1>3, VariablesOfCall
  <2> QED BY <1>3, <2>3, <2>5, <2>6, <2>7, <2>8
<1> QED BY <1>8, <1>9, <1>12, <1>13 DEF SubstituteInv

-----------------------------------------------------------------------------
(* The theorems *)

\* The bank of a parsed problem satisfies the invariant.
LEMMA SubstituteStart == Init => SubstituteInv
<1> SUFFICES ASSUME Init PROVE SubstituteInv
  OBVIOUS
<1>1. /\ infos = Symbols /\ name_to_id = SymbolIds /\ terms = Terms /\ term_to_id = TermIds
      /\ clauses = Inputs /\ var_counter = 0 /\ freshened = 0 /\ operation = "none"
      /\ input = <<>> /\ known = Len(Terms) /\ bindings = <<>> /\ unnamed = {}
      /\ stack = <<>> /\ output = <<>> /\ pc = "idle"
  BY DEF Init
<1>2. SymbolsOK
  <2>1. /\ Symbols \in Seq(SymbolInfo)
        /\ \A i, j \in DOMAIN Symbols : Symbols[i].name = Symbols[j].name => i = j
    BY ProblemParsed DEF ProblemParsed
  <2>2. DOMAIN SymbolIds = {Symbols[s].name : s \in DOMAIN Symbols}
    BY DEF SymbolIds, Members
  <2>3. \A n \in DOMAIN SymbolIds :
          SymbolIds[n] = CHOOSE i \in DOMAIN Symbols : Symbols[i].name = n
    BY DEF SymbolIds
  <2>4. \A s \in DOMAIN Symbols : SymbolIds[Symbols[s].name] = s
    BY <2>1, <2>2, <2>3
  <2>5. SymbolIds \in [DOMAIN SymbolIds -> DOMAIN Symbols]
    <3>1. SymbolIds = [n \in DOMAIN SymbolIds |-> SymbolIds[n]]
      BY DEF SymbolIds
    <3>2. \A n \in DOMAIN SymbolIds : SymbolIds[n] \in DOMAIN Symbols
      BY <2>2, <2>4
    <3> QED BY <3>1, <3>2
  <2> QED BY <1>1, <2>1, <2>2, <2>4, <2>5 DEF SymbolsOK
<1>3. TermsOK
  <2>1. /\ Terms \in Seq(StoredTerm(DOMAIN Symbols, DOMAIN Terms))
        /\ \A i, j \in DOMAIN Terms : Terms[i] = Terms[j] => i = j
        /\ \A i \in DOMAIN Terms :
             /\ \A k \in DOMAIN Terms[i].args : Terms[i].args[k] < i
             /\ Symbols[Terms[i].symbol].arity = Len(Terms[i].args) % ArityMod
             /\ Symbols[Terms[i].symbol].kind # "kFunction" => Terms[i].args = <<>>
    BY ProblemParsed DEF ProblemParsed, StoredTerm
  <2>2. DOMAIN TermIds = {Terms[i] : i \in DOMAIN Terms}
    BY DEF TermIds, Members
  <2>3. \A t \in DOMAIN TermIds : TermIds[t] = CHOOSE i \in DOMAIN Terms : Terms[i] = t
    BY DEF TermIds
  <2>4. \A i \in DOMAIN Terms : TermIds[Terms[i]] = i
    BY <2>1, <2>2, <2>3
  <2>5. TermIds \in [DOMAIN TermIds -> DOMAIN Terms]
    <3>1. TermIds = [t \in DOMAIN TermIds |-> TermIds[t]]
      BY DEF TermIds
    <3>2. \A t \in DOMAIN TermIds : TermIds[t] \in DOMAIN Terms
      BY <2>2, <2>4
    <3> QED BY <3>1, <3>2
  <2> QED BY <1>1, <2>1, <2>2, <2>4, <2>5 DEF TermsOK, WellSorted
<1>4. DOMAIN bindings = {} /\ Len(stack) = 0 /\ Len(output) = 0 /\ Len(input) = 0 /\ 1..0 = {}
  BY <1>1
<1>5. SubstituteTyped
  <2>1. BindingsTyped
    BY <1>1, <1>4 DEF BindingsTyped
  <2>2. clauses \subseteq Seq(Ids) /\ known \in 0..Len(terms)
    BY <1>1, ProblemParsed DEF ProblemParsed, Ids
  <2>3. var_counter \in 0..(CounterMod - 1)
    BY <1>1, NamesFresh DEF NamesFresh
  <2> QED BY <1>1, <1>2, <1>3, <2>1, <2>2, <2>3 DEF SubstituteTyped, BankOK
<1>6. StackOK /\ WalkOK
  BY <1>1, <1>4 DEF StackOK, WalkOK
<1>7. NamesOnce
  <2>1. \A s \in DOMAIN Symbols : Symbols[s] \in Members(Symbols)
    BY DEF Members
  <2> QED BY <1>1, <2>1, NamesFresh DEF NamesFresh, NamesOnce
<1>8. RenamingOK
  BY <1>1 DEF RenamingOK, Renaming
<1> QED BY <1>5, <1>6, <1>7, <1>8 DEF SubstituteInv

\* Every step keeps the invariant.
LEMMA SubstituteStep == SubstituteInv /\ [Next]_vars => SubstituteInv'
<1> SUFFICES ASSUME SubstituteInv, [Next]_vars PROVE SubstituteInv'
  OBVIOUS
<1>1. CASE applySubstitution
  BY <1>1, NextAtomKeeps, ResolveKeeps, FreeVariableKeeps, EnterKeeps, NextArgumentKeeps,
     ShareTermKeeps, BuildTermKeeps, FinishKeeps DEF applySubstitution
<1>2. CASE ApplyRenaming \/ FreshenThrows \/ \E v \in unnamed : Freshen(v)
  BY <1>2, ApplyRenamingKeeps, FreshenThrowsKeeps, FreshenKeeps
<1>3. CASE \E c \in clauses : \/ renameVariables(c)
                              \/ \E s \in Unifiers, op \in {"applySubstitution", "apply"} :
                                   ApplyUnifier(op, c, s)
  BY <1>3, renameVariablesKeeps, ApplyUnifierKeeps
<1>4. CASE UNCHANGED vars
  <2>1. BankOK' /\ (BindingsTyped' <=> BindingsTyped)
    BY <1>4, Steady DEF vars, bank, SubstituteInv, BindingsTyped, isVariable, Ids
  <2>2. SubstituteTyped'
    BY <1>4, <2>1 DEF vars, bank, SubstituteInv, SubstituteTyped, args_of_call, apply_state, Ids, isVariable
  <2>3. StackOK' /\ NamesOnce'
    BY <1>4 DEF vars, bank, SubstituteInv, StackOK, NamesOnce, FrameOK, Waits, args_of_call,
                apply_state, Ids, isVariable
  <2>4. WalkOK'
    <3>1. /\ infos' = infos /\ terms' = terms /\ bindings' = bindings /\ stack' = stack
          /\ output' = output /\ input' = input /\ pc' = pc /\ term' = term
          /\ operation' = operation /\ freshened' = freshened
      BY <1>4 DEF vars, bank, args_of_call, apply_state
    <3>2. Trees' = Trees /\ Instances' = Instances /\ VariablesOf' = VariablesOf
      BY <3>1 DEF Trees, Instances, VariablesOf, isVariable
    <3>3. \A c : collectVariables(c)' = collectVariables(c)
      BY <3>1 DEF collectVariables, isVariable
    <3>4. (Acyclic' <=> Acyclic) /\ (Renaming' <=> Renaming) /\ Bound' = Bound
      BY <3>1, <3>3 DEF Acyclic, Renaming, Bound
    <3>5. /\ \A r, t : Done(r, t)' <=> Done(r, t)
          /\ \A t, w : Doing(t, w)' <=> Doing(t, w)
          /\ \A k : Wanted(k)' = Wanted(k)
      BY <3>1, <3>2, <3>4 DEF Done, Doing, Wanted
    <3>6. /\ \A k : Done(output[k], input[k])' <=> Done(output[k], input[k])
          /\ \A j : Doing(stack[j].term, Wanted(j + 1))' <=> Doing(stack[j].term, Wanted(j + 1))
          /\ \A j, k : Done(stack[j].args[k], terms[stack[j].term].args[k])'
                         <=> Done(stack[j].args[k], terms[stack[j].term].args[k])
          /\ Doing(term, Wanted(1))' <=> Doing(term, Wanted(1))
      BY <3>1, <3>2, <3>4, <3>5 DEF Done, Doing
    <3> QED BY <3>1, <3>6 DEF SubstituteInv, WalkOK
  <2>5. RenamingOK'
    <3>1. collectVariables(input)' = collectVariables(input)
      BY <1>4, VariablesOfCall DEF vars, args_of_call
    <3> QED BY <1>4, <3>1 DEF vars, bank, args_of_call, apply_state, SubstituteInv, RenamingOK,
                              Renaming, isVariable
  <2> QED BY <2>2, <2>3, <2>4, <2>5 DEF SubstituteInv
<1> QED BY <1>1, <1>2, <1>3, <1>4 DEF Next, Running

\* SubstituteInv is an inductive invariant of the two functions.
LEMMA SubstituteInvariant == Spec => []SubstituteInv
BY SubstituteStart, SubstituteStep, PTL DEF Spec

\* Whatever clauses are renamed and instantiated, and however many of the terms
\* made are in the bank already, it stays hash-consed: applySubstitution() reads
\* and extends the bank in the middle of its recursion.
THEOREM SubstituteHashCons == Spec => []HashConsed
<1>1. SubstituteInv => HashConsed
  BY BankParts DEF SubstituteInv, SubstituteTyped
<1> QED BY <1>1, SubstituteInvariant, PTL

\* renameVariables() gives the variables of a clause names of their own, which no
\* term had that was in the bank before, until the counter has wrapped around.
THEOREM RenamingCorrect == Spec => []RenamedApart
<1>1. SubstituteInv => RenamedApart
  <2> SUFFICES ASSUME SubstituteInv, operation = "rename", freshened <= CounterMod
               PROVE  /\ \A v \in DOMAIN bindings : bindings[v] > known
                      /\ \A v, w \in DOMAIN bindings : bindings[v] = bindings[w] => v = w
                      /\ Returned => collectVariables(output) \subseteq {bindings[v] : v \in DOMAIN bindings}
    BY DEF RenamedApart
  <2>1. Renaming
    BY DEF Renaming
  <2>2. collectVariables(output) \subseteq Bound
    <3>1. collectVariables(output) = UNION {VariablesOf[i] : i \in Members(output)}
      BY Collected DEF SubstituteInv, SubstituteTyped
    <3>2. \A k \in 1..Len(output) : VariablesOf[output[k]] \subseteq Bound
      BY <2>1 DEF SubstituteInv, WalkOK, Done
    <3>3. DOMAIN output = 1..Len(output)
      BY DEF SubstituteInv, SubstituteTyped
    <3> QED BY <3>1, <3>2, <3>3 DEF Members
  <2> QED BY <2>1, <2>2 DEF SubstituteInv, RenamingOK, Bound
<1> QED BY <1>1, SubstituteInvariant, PTL

\* What applySubstitution() and Substitution::apply() return is the instance of the
\* clause under the bindings, all chains followed, and no variable in it is bound:
\* for every clause, all bindings without a cycle, and every bank.
THEOREM ApplyCorrect == Spec => []AppliedIsInstance
<1>1. SubstituteInv => AppliedIsInstance
  <2> SUFFICES ASSUME SubstituteInv, Returned, Acyclic
               PROVE  /\ \A k \in DOMAIN input : Trees[output[k]] = Instances[input[k]]
                      /\ collectVariables(output) \cap DOMAIN bindings = {}
    BY DEF AppliedIsInstance
  <2>1. Len(output) = Len(input) /\ DOMAIN output = 1..Len(output) /\ DOMAIN input = 1..Len(input)
    BY DEF Returned, SubstituteInv, SubstituteTyped
  <2>2. \A k \in 1..Len(output) : Done(output[k], input[k])
    BY DEF SubstituteInv, WalkOK
  <2>3. collectVariables(output) = UNION {VariablesOf[i] : i \in Members(output)}
    BY Collected DEF SubstituteInv, SubstituteTyped
  <2> QED BY <2>1, <2>2, <2>3 DEF Done, Members
<1> QED BY <1>1, SubstituteInvariant, PTL
=============================================================================
