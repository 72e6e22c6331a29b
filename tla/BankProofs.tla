---------------------------- MODULE BankProofs --------------------------------
(***************************************************************************)
(* Theorems about the term bank, for every set of names and every sequence *)
(* of calls: its maps and vectors, and the trees its terms stand for.      *)
(***************************************************************************)
EXTENDS TermBank, SequenceTheorems, WellFoundedInduction, TLAPS

(* The symbol table *)

SymbolsOK ==
  /\ infos \in Seq(SymbolInfo)
  /\ name_to_id \in [DOMAIN name_to_id -> DOMAIN infos]
  /\ DOMAIN name_to_id = {infos[s].name : s \in DOMAIN infos}
  /\ \A s \in DOMAIN infos : name_to_id[infos[s].name] = s

\* What the term bank relies on: intern() never changes a symbol there is.
SymbolsGrow ==
  /\ DOMAIN infos \subseteq DOMAIN infos'
  /\ \A s \in DOMAIN infos : infos'[s] = infos[s]

\* A symbol appended to a sequence of them.
LEMMA AppendInfo ==
  ASSUME NEW s \in Seq(SymbolInfo), NEW e \in SymbolInfo
  PROVE  /\ Append(s, e) \in Seq(SymbolInfo)
         /\ DOMAIN Append(s, e) = DOMAIN s \cup {Len(s) + 1}
         /\ Len(s) + 1 \notin DOMAIN s
         /\ \A k \in DOMAIN s : Append(s, e)[k] = s[k]
         /\ Append(s, e)[Len(s) + 1] = e
OBVIOUS

\* A call of intern() that does not throw keeps the maps of the table each
\* other's inverses, and SymbolOf is the id of a symbol as asked for.
LEMMA InternKeeps ==
  ASSUME SymbolsOK, NEW name \in Name, NEW kind \in SymbolKind, NEW arity \in Nat,
         intern(name, kind, arity)
  PROVE  /\ SymbolsOK' /\ SymbolsGrow
         /\ SymbolOf(name) \in DOMAIN infos'
         /\ infos'[SymbolOf(name)].kind = kind
         /\ infos'[SymbolOf(name)].arity = arity % ArityMod
<1>1. CASE name \in DOMAIN name_to_id
  <2>1. UNCHANGED <<infos, name_to_id>> /\ SymbolOf(name) = name_to_id[name]
    BY <1>1 DEF intern, SymbolOf
  <2>2. SymbolOf(name) \in DOMAIN infos
    BY <1>1, <2>1 DEF SymbolsOK
  <2>3. infos[SymbolOf(name)].kind = kind /\ infos[SymbolOf(name)].arity = arity % ArityMod
    BY <1>1, <2>1 DEF intern, Mismatch
  <2> QED BY <2>1, <2>2, <2>3 DEF SymbolsOK, SymbolsGrow
<1>2. CASE name \notin DOMAIN name_to_id
  <2> DEFINE e == [name |-> name, kind |-> kind, arity |-> arity % ArityMod]
             n == Len(infos) + 1
  <2>1. infos' = Append(infos, e) /\ name_to_id' = Extend(name_to_id, name, n) /\ SymbolOf(name) = n
    BY <1>2 DEF intern, SymbolOf
  <2>2. e \in SymbolInfo /\ e.name = name /\ e.kind = kind /\ e.arity = arity % ArityMod
    BY ArityModTyped DEF ArityModTyped, SymbolInfo
  <2> HIDE DEF e
  <2>3. /\ infos' \in Seq(SymbolInfo) /\ DOMAIN infos' = DOMAIN infos \cup {n}
        /\ n \notin DOMAIN infos
        /\ \A k \in DOMAIN infos : infos'[k] = infos[k]
        /\ infos'[n] = e
    BY <2>1, <2>2, AppendInfo DEF SymbolsOK
  <2>4. /\ DOMAIN name_to_id' = DOMAIN name_to_id \cup {name}
        /\ \A k \in DOMAIN name_to_id : name_to_id'[k] = name_to_id[k]
        /\ name_to_id'[name] = n
        /\ name_to_id' = [k \in DOMAIN name_to_id' |-> name_to_id'[k]]
    BY <1>2, <2>1 DEF Extend
  <2> HIDE DEF n
  <2>5. name_to_id' \in [DOMAIN name_to_id' -> DOMAIN infos']
    BY <2>3, <2>4 DEF SymbolsOK
  <2>6. DOMAIN name_to_id' = {infos'[s].name : s \in DOMAIN infos'}
    BY <2>2, <2>3, <2>4 DEF SymbolsOK
  <2>7. \A s \in DOMAIN infos' : name_to_id'[infos'[s].name] = s
    <3> SUFFICES ASSUME NEW s \in DOMAIN infos' PROVE name_to_id'[infos'[s].name] = s
      OBVIOUS
    <3>1. CASE s = n
      BY <2>2, <2>3, <2>4, <3>1
    <3>2. CASE s \in DOMAIN infos
      BY <2>3, <2>4, <3>2 DEF SymbolsOK
    <3> QED BY <2>3, <3>1, <3>2
  <2> QED BY <2>1, <2>2, <2>3, <2>5, <2>6, <2>7 DEF SymbolsOK, SymbolsGrow
<1> QED BY <1>1, <1>2

-----------------------------------------------------------------------------
(* The terms *)

StoredTerm(symbols, ids) == [symbol : symbols, args : Seq(ids)]

TermsOK ==
  /\ terms \in Seq(StoredTerm(DOMAIN infos, DOMAIN terms))
  /\ term_to_id \in [DOMAIN term_to_id -> DOMAIN terms]
  /\ \A i \in DOMAIN terms : \A k \in DOMAIN terms[i].args : terms[i].args[k] < i
  /\ DOMAIN term_to_id = {terms[i] : i \in DOMAIN terms}
  /\ \A i \in DOMAIN terms : term_to_id[terms[i]] = i
  /\ WellSorted

TermsGrow ==
  /\ DOMAIN terms \subseteq DOMAIN terms'
  /\ \A i \in DOMAIN terms : terms'[i] = terms[i]

BankOK == SymbolsOK /\ TermsOK

\* The fields of a stored term.
LEMMA StoredFields ==
  ASSUME TermsOK, NEW i \in DOMAIN terms
  PROVE  terms[i].symbol \in DOMAIN infos /\ terms[i].args \in Seq(DOMAIN terms)
<1>1. terms[i] \in StoredTerm(DOMAIN infos, DOMAIN terms)
  BY ElementOfSeq DEF TermsOK
<1> QED BY <1>1 DEF StoredTerm

\* New symbols make no difference to the terms there are.
LEMMA TermsUnderNewSymbols ==
  ASSUME TermsOK, SymbolsGrow, UNCHANGED <<terms, term_to_id>>
  PROVE  TermsOK'
<1>1. StoredTerm(DOMAIN infos, DOMAIN terms) \subseteq StoredTerm(DOMAIN infos', DOMAIN terms)
  BY DEF SymbolsGrow, StoredTerm
<1>2. terms \in Seq(StoredTerm(DOMAIN infos', DOMAIN terms))
  BY <1>1, SeqMonotonic DEF TermsOK
<1>3. \A i \in DOMAIN terms : terms[i].symbol \in DOMAIN infos
  BY StoredFields
<1>4. WellSorted'
  BY <1>3 DEF TermsOK, WellSorted, SymbolsGrow
<1> QED BY <1>2, <1>4 DEF TermsOK

\* A call of makeTerm() with a symbol of the table and terms of the bank keeps
\* the bank, and IdOf is the id of that term.
LEMMA MakeTermKeeps ==
  ASSUME TermsOK, SymbolsGrow, NEW symbol \in DOMAIN infos', NEW args \in Seq(DOMAIN terms),
         infos'[symbol].arity = Len(args) % ArityMod,
         infos'[symbol].kind # "kFunction" => args = <<>>,
         makeTerm(Term(symbol, args))
  PROVE  TermsOK' /\ TermsGrow /\ IdOf(Term(symbol, args)) \in DOMAIN terms'
<1> DEFINE t == Term(symbol, args)
           n == Len(terms) + 1
           T == StoredTerm(DOMAIN infos', DOMAIN terms')
<1>1. CASE t \in DOMAIN term_to_id
  <2>1. UNCHANGED <<terms, term_to_id>> /\ IdOf(t) = term_to_id[t]
    BY <1>1 DEF makeTerm, IdOf
  <2>2. term_to_id[t] \in DOMAIN terms
    BY <1>1 DEF TermsOK
  <2> QED BY <2>1, <2>2, TermsUnderNewSymbols DEF TermsGrow
<1>2. CASE t \notin DOMAIN term_to_id
  <2>1. terms' = Append(terms, t) /\ term_to_id' = Extend(term_to_id, t, n) /\ IdOf(t) = n
    BY <1>2 DEF makeTerm, IdOf
  <2>2. t.symbol = symbol /\ t.args = args /\ t = [symbol |-> symbol, args |-> args]
    BY DEF Term
  <2> HIDE DEF t
  <2>3. /\ terms \in Seq(StoredTerm(DOMAIN infos, DOMAIN terms))
        /\ Len(terms) \in Nat /\ DOMAIN terms = 1..Len(terms)
    BY DEF TermsOK
  <2>4. /\ Len(terms') = n /\ DOMAIN terms' = 1..n /\ DOMAIN terms' = DOMAIN terms \cup {n}
        /\ n \notin DOMAIN terms
        /\ \A i \in DOMAIN terms : terms'[i] = terms[i]
        /\ terms'[n] = t
    BY <2>1, <2>3
  <2>5. terms' \in Seq(T)
    <3>1. Seq(DOMAIN terms) \subseteq Seq(DOMAIN terms')
      BY <2>4, SeqMonotonic
    <3>2. StoredTerm(DOMAIN infos, DOMAIN terms) \subseteq T
      BY <3>1 DEF SymbolsGrow, StoredTerm
    <3>3. terms \in Seq(T)
      BY <2>3, <3>2, SeqMonotonic
    <3>4. t \in T
      BY <2>2, <3>1 DEF StoredTerm
    <3> HIDE DEF T
    <3> QED BY <2>1, <3>3, <3>4
  <2>6. /\ DOMAIN term_to_id' = DOMAIN term_to_id \cup {t}
        /\ \A k \in DOMAIN term_to_id : term_to_id'[k] = term_to_id[k]
        /\ term_to_id'[t] = n
        /\ term_to_id' = [k \in DOMAIN term_to_id' |-> term_to_id'[k]]
    BY <1>2, <2>1 DEF Extend
  <2>7. term_to_id' \in [DOMAIN term_to_id' -> DOMAIN terms']
    BY <2>4, <2>6 DEF TermsOK
  <2>8. \A i \in DOMAIN terms' : \A k \in DOMAIN terms'[i].args : terms'[i].args[k] < i
    <3>1. \A k \in DOMAIN args : args[k] \in 1..Len(terms)
      BY <2>3
    <3>2. \A k \in DOMAIN args : args[k] < n
      BY <2>3, <3>1
    <3> QED BY <2>2, <2>4, <3>2 DEF TermsOK
  <2>9. DOMAIN term_to_id' = {terms'[i] : i \in DOMAIN terms'}
    <3>1. DOMAIN term_to_id = {terms[i] : i \in DOMAIN terms}
      BY DEF TermsOK
    <3>2. {terms'[i] : i \in DOMAIN terms'} = {terms'[i] : i \in DOMAIN terms} \cup {t}
      BY <2>4
    <3>3. {terms'[i] : i \in DOMAIN terms} = {terms[i] : i \in DOMAIN terms}
      BY <2>4
    <3> QED BY <2>6, <3>1, <3>2, <3>3
  <2>10. \A i \in DOMAIN terms' : term_to_id'[terms'[i]] = i
    <3> SUFFICES ASSUME NEW i \in DOMAIN terms' PROVE term_to_id'[terms'[i]] = i
      OBVIOUS
    <3>1. CASE i = n
      BY <2>4, <2>6, <3>1
    <3>2. CASE i \in DOMAIN terms
      BY <2>4, <2>6, <3>2, ZenonT(40) DEF TermsOK
    <3> QED BY <2>4, <3>1, <3>2
  <2>11. WellSorted'
    <3>1. \A i \in DOMAIN terms : terms[i].symbol \in DOMAIN infos
      BY StoredFields
    <3> SUFFICES ASSUME NEW i \in DOMAIN terms'
                 PROVE  /\ infos'[terms'[i].symbol].arity = Len(terms'[i].args) % ArityMod
                        /\ infos'[terms'[i].symbol].kind # "kFunction" => terms'[i].args = <<>>
      BY DEF WellSorted
    <3>2. CASE i = n
      BY <2>2, <2>4, <3>2
    <3>3. CASE i \in DOMAIN terms
      BY <2>4, <3>1, <3>3 DEF TermsOK, WellSorted, SymbolsGrow
    <3> QED BY <2>4, <3>2, <3>3
  <2>12. TermsOK'
    BY <2>5, <2>7, <2>8, <2>9, <2>10, <2>11 DEF TermsOK
  <2> QED BY <2>1, <2>4, <2>12 DEF TermsGrow, t
<1> QED BY <1>1, <1>2


-----------------------------------------------------------------------------
(* The bank and whoever calls it                                            *)

\* intern() and then makeTerm(), as for every term the parser makes.
LEMMA NamedTermKeeps ==
  ASSUME BankOK, NEW name \in Name, NEW kind \in SymbolKind, NEW args \in Seq(DOMAIN terms),
         kind # "kFunction" => args = <<>>,
         intern(name, kind, Len(args)), makeTerm(Term(SymbolOf(name), args))
  PROVE  /\ BankOK' /\ TermsGrow /\ SymbolsGrow
         /\ IdOf(Term(SymbolOf(name), args)) \in DOMAIN terms'
<1>1. /\ SymbolsOK' /\ SymbolsGrow /\ SymbolOf(name) \in DOMAIN infos'
      /\ infos'[SymbolOf(name)].kind = kind
      /\ infos'[SymbolOf(name)].arity = Len(args) % ArityMod
  <2>1. Len(args) \in Nat
    OBVIOUS
  <2> QED BY <2>1, InternKeeps DEF BankOK
<1> QED BY <1>1, MakeTermKeeps DEF BankOK

\* makeVariable or makeConstant adds a term without arguments, or finds the one there is.
LEMMA VariableKeeps ==
  ASSUME BankOK, NEW name \in Name, Variable(name) \/ Constant(name)
  PROVE  /\ BankOK' /\ TermsGrow /\ SymbolsGrow
         /\ IdOf(Term(SymbolOf(name), <<>>)) \in DOMAIN terms'
<1>1. <<>> \in Seq(DOMAIN terms) /\ Len(<<>>) = 0
  OBVIOUS
<1>2. {"kVariable", "kConstant"} \subseteq SymbolKind
  BY DEF SymbolKind
<1> QED BY <1>1, <1>2, NamedTermKeeps DEF Variable, Constant

\* makeTerm adds an application of terms of the bank, or finds it.
LEMMA ApplicationKeeps ==
  ASSUME BankOK, NEW name \in Name, NEW args \in Seq(DOMAIN terms), Application(name, args)
  PROVE  /\ BankOK' /\ TermsGrow /\ SymbolsGrow
         /\ IdOf(Term(SymbolOf(name), args)) \in DOMAIN terms'
BY NamedTermKeeps DEF Application, SymbolKind

\* makeTermFromId adds a term with the head of an old one, so of its sort.
LEMMA RebuildKeeps ==
  ASSUME BankOK, NEW id \in DOMAIN terms, NEW args \in Seq(DOMAIN terms),
         Len(args) = Len(terms[id].args), Rebuild(id, args)
  PROVE  BankOK'
<1>1. SymbolsOK' /\ SymbolsGrow /\ infos' = infos
  BY DEF Rebuild, BankOK, SymbolsOK, SymbolsGrow
<1>2. terms[id].symbol \in DOMAIN infos /\ terms[id].args \in Seq(DOMAIN terms)
  BY StoredFields DEF BankOK
<1>3. /\ infos[terms[id].symbol].arity = Len(args) % ArityMod
      /\ infos[terms[id].symbol].kind # "kFunction" => terms[id].args = <<>>
  BY DEF BankOK, TermsOK, WellSorted
<1>4. terms[id].args = <<>> => args = <<>>
  BY <1>2
<1>5. TermsOK'
  BY <1>1, <1>2, <1>3, <1>4, MakeTermKeeps DEF Rebuild, BankOK
<1> QED BY <1>1, <1>5 DEF BankOK

\* Every operation of the bank keeps its invariant.
LEMMA BankStepKeeps ==
  ASSUME BankOK, [BankNext]_bank
  PROVE  BankOK'
<1>1. CASE UNCHANGED bank
  BY <1>1 DEF bank, BankOK, SymbolsOK, TermsOK, WellSorted
<1>2. CASE \E name \in Name : \/ Variable(name) \/ Constant(name)
                              \/ \E args \in Seq(DOMAIN terms) : Application(name, args)
  BY <1>2, VariableKeeps, ApplicationKeeps
<1>3. CASE \E id \in DOMAIN terms, args \in Seq(DOMAIN terms) :
             Len(args) = Len(terms[id].args) /\ Rebuild(id, args)
  BY <1>3, RebuildKeeps
<1> QED BY <1>1, <1>2, <1>3 DEF BankNext

\* An empty bank satisfies it.
LEMMA BankStart == ASSUME BankInit PROVE BankOK
<1>1. DOMAIN <<>> = {}
  OBVIOUS
<1> QED BY <1>1 DEF BankInit, BankOK, SymbolsOK, TermsOK, WellSorted

\* The invariant says each of the properties.
LEMMA BankParts == BankOK => BankTyped /\ HashConsed /\ WellSorted
BY DEF BankOK, SymbolsOK, TermsOK, StoredTerm, BankTyped, HashConsed

\* However its callers mix variables, constants, applications and rebuilt terms,
\* every id in the symbol table and in the bank is in bounds, and the arguments
\* of a term are older than the term.
THEOREM BankTypeCorrect == BankSpec => []BankTyped
<1>1. BankInit => BankOK
  BY BankStart
<1>2. BankOK /\ [BankNext]_bank => BankOK'
  BY BankStepKeeps
<1>3. BankOK => BankTyped
  BY BankParts
<1> QED BY <1>1, <1>2, <1>3, PTL DEF BankSpec

\* Hash-consing: the maps stay the inverses of the vectors, so that no name and
\* no term ever has two ids.
THEOREM HashConsCorrect == BankSpec => []HashConsed
<1>1. BankInit => BankOK
  BY BankStart
<1>2. BankOK /\ [BankNext]_bank => BankOK'
  BY BankStepKeeps
<1>3. BankOK => HashConsed
  BY BankParts
<1> QED BY <1>1, <1>2, <1>3, PTL DEF BankSpec

\* Every term has as many arguments as its symbol's arity says, modulo 2^16, and
\* variables and constants have none.
THEOREM SortsCorrect == BankSpec => []WellSorted
<1>1. BankInit => BankOK
  BY BankStart
<1>2. BankOK /\ [BankNext]_bank => BankOK'
  BY BankStepKeeps
<1>3. BankOK => WellSorted
  BY BankParts
<1> QED BY <1>1, <1>2, <1>3, PTL DEF BankSpec

-----------------------------------------------------------------------------
(* The trees the terms unfold to                                            *)

\* A set of natural numbers has a least one: the induction of the lemmas below.
LEMMA LeastNatural ==
  ASSUME NEW S \in SUBSET Nat, S # {}
  PROVE  \E n \in S : \A m \in S : n <= m
<1> DEFINE R == {ss \in Nat \X Nat : ss[1] < ss[2]}
<1>1. IsWellFoundedOn(R, Nat)
  BY NatLessThanWellFounded DEF OpToRel
<1>2. \A x, y \in Nat : y < x => <<y, x>> \in R
  OBVIOUS
<1>3. PICK x \in S : \A y \in S : ~(<<y, x>> \in R)
  <2> HIDE DEF R
  <2> QED BY <1>1, WFMin
<1>4. \A y \in S : ~(y < x)
  <2> HIDE DEF R
  <2> QED BY <1>2, <1>3
<1> QED BY <1>3, <1>4

\* T has the tree of each of the first n terms S over the symbols I.
Unfolds(T, I, S, n) ==
  T = [i \in 1..n |-> [head  |-> I[S[i].symbol],
                       parts |-> [k \in DOMAIN S[i].args |-> T[S[i].args[k]]]]]

\* Each argument of the first n terms is one of the terms before.
ArgsOlder(S, n) == \A i \in 1..n : \A k \in DOMAIN S[i].args : S[i].args[k] \in 1..(i - 1)

\* Terms whose arguments are older have trees: the shortest bank without them
\* would lack that of its last term only.
LEMMA UnfoldExists ==
  ASSUME NEW n \in Nat, NEW I, NEW S, ArgsOlder(S, n)
  PROVE  \E T : Unfolds(T, I, S, n)
<1> DEFINE Bad == {m \in 0..n : ~\E T : Unfolds(T, I, S, m)}
<1> SUFFICES ASSUME Bad # {} PROVE FALSE
  OBVIOUS
<1>1. PICK m \in Bad : \A l \in Bad : m <= l
  <2>1. Bad \in SUBSET Nat
    OBVIOUS
  <2> QED BY <2>1, LeastNatural
<1>2. m \in 0..n /\ ~\E T : Unfolds(T, I, S, m)
  OBVIOUS
<1>3. m # 0
  <2>1. 1..0 = {}
    OBVIOUS
  <2>2. Unfolds([i \in {} |-> 0], I, S, 0)
    BY <2>1 DEF Unfolds
  <2> QED BY <1>2, <2>2
<1>4. m \in Nat /\ m - 1 \in 0..n /\ ~(m <= m - 1) /\ m - 1 \in Nat
  BY <1>2, <1>3
<1>5. PICK T : Unfolds(T, I, S, m - 1)
  BY <1>1, <1>4
<1> HIDE DEF Bad
<1> DEFINE Node(i) == [head |-> I[S[i].symbol], parts |-> [k \in DOMAIN S[i].args |-> T[S[i].args[k]]]]
           U == [i \in 1..m |-> Node(i)]
<1>6. \A i \in 1..(m - 1) : U[i] = T[i]
  <2>1. \A i \in 1..(m - 1) : i \in 1..m
    BY <1>4
  <2>2. \A i \in 1..(m - 1) : T[i] = Node(i)
    BY <1>5 DEF Unfolds
  <2> QED BY <2>1, <2>2
<1>7. \A i \in 1..m : \A k \in DOMAIN S[i].args : U[S[i].args[k]] = T[S[i].args[k]]
  <2> TAKE i \in 1..m
  <2>1. \A k \in DOMAIN S[i].args : S[i].args[k] \in 1..(m - 1)
    BY <1>2, <1>4 DEF ArgsOlder
  <2> HIDE DEF U
  <2> QED BY <1>6, <2>1
<1>8. Unfolds(U, I, S, m)
  <2>1. \A i \in 1..m : Node(i) = [head  |-> I[S[i].symbol],
                                  parts |-> [k \in DOMAIN S[i].args |-> U[S[i].args[k]]]]
    <3> HIDE DEF U
    <3> QED BY <1>7
  <2>2. U = [i \in 1..m |-> Node(i)]
    OBVIOUS
  <2> HIDE DEF U, Node
  <2> QED BY <2>1, <2>2 DEF Unfolds
<1> QED BY <1>2, <1>8

\* So the recursion of Trees is well-founded in every bank there can be.
LEMMA TreesUnfold ==
  ASSUME BankOK
  PROVE  Unfolds(Trees, infos, terms, Len(terms)) /\ DOMAIN terms = 1..Len(terms) /\ Len(terms) \in Nat
         /\ ArgsOlder(terms, Len(terms))
<1>1. DOMAIN terms = 1..Len(terms) /\ Len(terms) \in Nat
  BY DEF BankOK, TermsOK
<1>2. ArgsOlder(terms, Len(terms))
  <2> SUFFICES ASSUME NEW i \in DOMAIN terms, NEW k \in DOMAIN terms[i].args
               PROVE  terms[i].args[k] \in 1..(i - 1)
    BY <1>1 DEF ArgsOlder
  <2>1. terms[i].args \in Seq(DOMAIN terms) /\ terms[i].args[k] < i
    BY StoredFields DEF BankOK, TermsOK
  <2>2. terms[i].args[k] \in DOMAIN terms
    BY <2>1
  <2> QED BY <1>1, <2>1, <2>2
<1>3. PICK T : Unfolds(T, infos, terms, Len(terms))
  BY <1>1, <1>2, UnfoldExists
<1> DEFINE Is(t) == t = [i \in DOMAIN terms |->
              [head |-> infos[terms[i].symbol],
               parts |-> [k \in DOMAIN terms[i].args |-> t[terms[i].args[k]]]]]
           Tree == CHOOSE t : Is(t)
<1>4. Is(T)
  BY <1>1, <1>3 DEF Unfolds
<1>5. Trees = [i \in DOMAIN terms |-> Tree[i]]
  BY DEF Trees
<1>6. Is(Tree)
  <2> HIDE DEF Is
  <2> QED BY <1>4
<1> HIDE DEF Tree
<1>7. Trees = Tree
  BY <1>5, <1>6
<1> QED BY <1>1, <1>2, <1>6, <1>7 DEF Unfolds

\* Trees of the same terms are the same.
LEMMA UnfoldSame ==
  ASSUME NEW n \in Nat, NEW m \in Nat, n <= m, NEW I, NEW J, NEW S, NEW R, NEW T, NEW U,
         Unfolds(T, I, S, n), Unfolds(U, J, R, m), ArgsOlder(S, n),
         \A i \in 1..n : R[i] = S[i] /\ J[S[i].symbol] = I[S[i].symbol]
  PROVE  \A i \in 1..n : U[i] = T[i]
<1> DEFINE Bad == {i \in 1..n : U[i] # T[i]}
<1> SUFFICES ASSUME Bad # {} PROVE FALSE
  OBVIOUS
<1>1. PICK i \in Bad : \A l \in Bad : i <= l
  <2>1. Bad \in SUBSET Nat
    OBVIOUS
  <2> QED BY <2>1, LeastNatural
<1>2. i \in 1..n /\ i \in 1..m /\ U[i] # T[i]
  OBVIOUS
<1>3. ASSUME NEW k \in DOMAIN S[i].args
      PROVE  U[S[i].args[k]] = T[S[i].args[k]]
  <2>1. S[i].args[k] \in 1..(i - 1)
    BY <1>2 DEF ArgsOlder
  <2>2. S[i].args[k] \in 1..n /\ ~(i <= S[i].args[k])
    BY <1>2, <2>1
  <2>3. S[i].args[k] \notin Bad
    BY <1>1, <2>2
  <2> QED BY <2>2, <2>3
<1>4. T[i] = [head |-> I[S[i].symbol], parts |-> [k \in DOMAIN S[i].args |-> T[S[i].args[k]]]]
  BY <1>2 DEF Unfolds
<1>5. U[i] = [head |-> J[S[i].symbol], parts |-> [k \in DOMAIN S[i].args |-> U[S[i].args[k]]]]
  <2>1. U[i] = [head |-> J[R[i].symbol], parts |-> [k \in DOMAIN R[i].args |-> U[R[i].args[k]]]]
    BY <1>2 DEF Unfolds
  <2>2. R[i] = S[i]
    BY <1>2
  <2> QED BY <2>1, <2>2
<1> HIDE DEF Bad
<1> QED BY <1>2, <1>3, <1>4, <1>5

\* No tree is that of two terms.
LEMMA TreesDiffer ==
  ASSUME BankOK
  PROVE  \A i, j \in DOMAIN terms : Trees[i] = Trees[j] => i = j
<1> DEFINE n == Len(terms)
           Bad == {i \in 1..n : \E j \in 1..n : j # i /\ Trees[i] = Trees[j]}
<1>1. Unfolds(Trees, infos, terms, n) /\ DOMAIN terms = 1..n /\ n \in Nat /\ ArgsOlder(terms, n)
  BY TreesUnfold
<1> HIDE DEF n
<1> SUFFICES ASSUME Bad # {} PROVE FALSE
  BY <1>1
<1>2. PICK i \in Bad : \A l \in Bad : i <= l
  <2>1. Bad \in SUBSET Nat
    OBVIOUS
  <2> QED BY <2>1, LeastNatural
<1>3. PICK j \in 1..n : j # i /\ Trees[i] = Trees[j]
  OBVIOUS
<1>4. i \in 1..n
  OBVIOUS
<1>5. \A l \in 1..n : Trees[l] = [head |-> infos[terms[l].symbol],
                                  parts |-> [k \in DOMAIN terms[l].args |-> Trees[terms[l].args[k]]]]
  BY <1>1 DEF Unfolds
<1>6. /\ infos[terms[i].symbol] = infos[terms[j].symbol]
      /\ [k \in DOMAIN terms[i].args |-> Trees[terms[i].args[k]]]
           = [k \in DOMAIN terms[j].args |-> Trees[terms[j].args[k]]]
  <2> DEFINE Parts(l) == [k \in DOMAIN terms[l].args |-> Trees[terms[l].args[k]]]
  <2>1. \A l \in 1..n : Trees[l] = [head |-> infos[terms[l].symbol], parts |-> Parts(l)]
    BY <1>5
  <2> HIDE DEF Parts
  <2>2. \A l \in 1..n : Trees[l].head = infos[terms[l].symbol] /\ Trees[l].parts = Parts(l)
    <3> TAKE l \in 1..n
    <3>1. Trees[l] = [head |-> infos[terms[l].symbol], parts |-> Parts(l)]
      BY <2>1
    <3> QED BY <3>1
  <2>3. infos[terms[i].symbol] = infos[terms[j].symbol] /\ Parts(i) = Parts(j)
    BY <1>3, <1>4, <2>2
  <2> QED BY <2>3 DEF Parts
<1>7. terms[i].symbol = terms[j].symbol
  <2>1. terms[i].symbol \in DOMAIN infos /\ terms[j].symbol \in DOMAIN infos
    BY <1>1, <1>4, StoredFields DEF BankOK
  <2> QED BY <1>6, <2>1 DEF BankOK, SymbolsOK
<1>8. terms[i].args \in Seq(DOMAIN terms) /\ terms[j].args \in Seq(DOMAIN terms)
  BY <1>1, <1>4, StoredFields DEF BankOK
<1>9. DOMAIN terms[i].args = DOMAIN terms[j].args
  BY <1>6
<1>10. ASSUME NEW k \in DOMAIN terms[i].args
       PROVE  terms[i].args[k] = terms[j].args[k]
  <2>1. Trees[terms[i].args[k]] = Trees[terms[j].args[k]]
    BY <1>6, <1>9
  <2>2. terms[i].args[k] \in 1..(i - 1) /\ terms[j].args[k] \in 1..(j - 1)
    BY <1>1, <1>4, <1>9 DEF ArgsOlder
  <2>3. terms[i].args[k] \in 1..n /\ terms[j].args[k] \in 1..n /\ ~(i <= terms[i].args[k])
    BY <1>1, <1>4, <2>2
  <2>4. terms[i].args[k] \notin Bad
    BY <1>2, <2>3
  <2> QED BY <2>1, <2>3, <2>4
<1>11. terms[i].args = terms[j].args
  BY <1>8, <1>9, <1>10
<1>12. terms[i] = terms[j]
  <2>1. terms[i] \in StoredTerm(DOMAIN infos, DOMAIN terms) /\ terms[j] \in StoredTerm(DOMAIN infos, DOMAIN terms)
    BY <1>1, <1>4, ElementOfSeq DEF BankOK, TermsOK
  <2> QED BY <1>7, <1>11, <2>1 DEF StoredTerm
<1>13. term_to_id[terms[i]] = i /\ term_to_id[terms[j]] = j
  BY <1>1, <1>4 DEF BankOK, TermsOK
<1> QED BY <1>3, <1>12, <1>13

\* A step of the bank adds one symbol and one term at most, and changes none.
LEMMA BankAppends ==
  ASSUME BankOK, [BankNext]_bank
  PROVE  SymbolsGrow /\ (UNCHANGED terms \/ \E t : terms' = Append(terms, t))
<1>1. ASSUME NEW name \in Name, NEW kind \in SymbolKind, NEW arity \in Nat, intern(name, kind, arity)
      PROVE  SymbolsGrow
  BY <1>1, InternKeeps DEF BankOK
<1>2. UNCHANGED infos => SymbolsGrow
  BY DEF SymbolsGrow
<1>3. {"kVariable", "kConstant", "kFunction"} \subseteq SymbolKind /\ 0 \in Nat
  BY DEF SymbolKind
<1>4. \A args \in Seq(DOMAIN terms) : Len(args) \in Nat
  OBVIOUS
<1>5. SymbolsGrow
  BY <1>1, <1>2, <1>3, <1>4 DEF BankNext, Variable, Constant, Application, Rebuild, bank
<1>6. UNCHANGED terms \/ \E t : terms' = Append(terms, t)
  BY DEF BankNext, Variable, Constant, Application, Rebuild, makeTerm, bank
<1> QED BY <1>5, <1>6

\* The trees are a sequence, as the store has them.
LEMMA UnfoldIsSeq ==
  ASSUME NEW n \in Nat, NEW I, NEW S, NEW T, Unfolds(T, I, S, n)
  PROVE  T \in Seq({T[i] : i \in 1..n}) /\ Len(T) = n
<1>1. DOMAIN T = 1..n /\ T = [i \in 1..n |-> T[i]]
  BY DEF Unfolds
<1>2. T \in [1..n -> {T[i] : i \in 1..n}]
  BY <1>1
<1> QED BY <1>2

\* What a step of the bank does to the trees: nothing, or one more that no term
\* had, with all its parts there already.
LEMMA StoreGrows ==
  ASSUME BankOK, BankOK', [BankNext]_bank
  PROVE  [Store!Grow]_Trees
<1> DEFINE n == Len(terms)
           m == Len(terms')
<1>1. Unfolds(Trees, infos, terms, n) /\ DOMAIN terms = 1..n /\ n \in Nat /\ ArgsOlder(terms, n)
  BY TreesUnfold
<1>2. Unfolds(Trees', infos', terms', m) /\ DOMAIN terms' = 1..m /\ m \in Nat /\ ArgsOlder(terms', m)
  <2>1. (BankOK => Unfolds(Trees, infos, terms, n) /\ DOMAIN terms = 1..n /\ n \in Nat
                   /\ ArgsOlder(terms, n))'
    BY TreesUnfold, PTL
  <2> QED BY <2>1 DEF Unfolds, ArgsOlder
<1>3. \A i \in 1..n : terms[i].symbol \in DOMAIN infos
  BY <1>1, StoredFields DEF BankOK
<1>4. SymbolsGrow
  BY BankAppends
<1> HIDE DEF n, m
<1>5. CASE UNCHANGED terms
  <2>1. m = n
    BY <1>5 DEF m, n
  <2>2. \A i \in 1..n : Trees'[i] = Trees[i]
    BY <1>1, <1>2, <1>3, <1>4, <1>5, <2>1, UnfoldSame DEF SymbolsGrow
  <2>3. Trees' = [i \in 1..n |-> Trees'[i]] /\ Trees = [i \in 1..n |-> Trees[i]]
    BY <1>1, <1>2, <2>1 DEF Unfolds
  <2> QED BY <2>2, <2>3
<1>6. CASE \E t : terms' = Append(terms, t)
  <2>1. m = n + 1 /\ \A i \in 1..n : terms'[i] = terms[i]
    BY <1>1, <1>6 DEF m, n, BankOK, TermsOK
  <2>2. \A i \in 1..n : Trees'[i] = Trees[i]
    BY <1>1, <1>2, <1>3, <1>4, <2>1, UnfoldSame, SMTT(40) DEF SymbolsGrow
  <2>3. /\ Trees \in Seq({Trees[i] : i \in 1..n}) /\ Len(Trees) = n
        /\ Trees' \in Seq({Trees'[i] : i \in 1..m}) /\ Len(Trees') = m
    BY <1>1, <1>2, UnfoldIsSeq
  <2>4. SubSeq(Trees', 1, n) = Trees
    BY <2>1, <2>2, <2>3, SMTT(40)
  <2>5. \A i \in 1..n : Trees[i] # Trees'[m]
    <3>1. (BankOK => \A i, j \in DOMAIN terms : Trees[i] = Trees[j] => i = j)'
      BY TreesDiffer, PTL
    <3>2. \A i, j \in 1..m : Trees'[i] = Trees'[j] => i = j
      BY <1>2, <3>1
    <3> QED BY <1>1, <1>2, <2>1, <2>2, <3>2
  <2>6. PartsOf(Trees'[m]) \subseteq {Trees[i] : i \in 1..n}
    <3>1. m \in 1..m /\ m - 1 = n
      BY <1>1, <2>1
    <3>2. Trees'[m] = [head |-> infos'[terms'[m].symbol],
                       parts |-> [k \in DOMAIN terms'[m].args |-> Trees'[terms'[m].args[k]]]]
      BY <1>2, <3>1 DEF Unfolds
    <3>3. \A k \in DOMAIN terms'[m].args : terms'[m].args[k] \in 1..n
      BY <1>2, <3>1 DEF ArgsOlder
    <3> QED BY <2>2, <3>2, <3>3 DEF PartsOf
  <2> QED BY <2>1, <2>3, <2>4, <2>5, <2>6 DEF Store!Grow
<1> QED BY <1>5, <1>6, BankAppends

\* term_bank.h: every structurally identical term maps to the same TermId.  The
\* trees the terms of the bank unfold to, compared as trees of names and not as
\* keys of a map, only become more, and none is ever there twice.
THEOREM BankRefines == BankSpec => BankImplementsStore
<1>1. BankInit => Store!Init
  <2> SUFFICES ASSUME BankInit PROVE Trees = <<>>
    BY DEF Store!Init
  <2>1. BankOK
    BY BankStart
  <2>2. Unfolds(Trees, infos, terms, 0)
    BY <2>1, TreesUnfold DEF BankInit
  <2>3. 1..0 = {}
    OBVIOUS
  <2> QED BY <2>2, <2>3 DEF Unfolds
<1>2. BankInit => BankOK
  BY BankStart
<1>3. BankOK /\ [BankNext]_bank => BankOK'
  BY BankStepKeeps
<1>4. BankOK /\ BankOK' /\ [BankNext]_bank => [Store!Grow]_Trees
  BY StoreGrows
<1> QED BY <1>1, <1>2, <1>3, <1>4, PTL DEF BankSpec, BankImplementsStore, Store!Spec
=============================================================================
