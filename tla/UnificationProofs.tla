-------------------------- MODULE UnificationProofs --------------------------
(***************************************************************************)
(* unify() keeps the solutions of its problem, and never binds variables   *)
(* in a circle, for every bank, every problem and with or without the      *)
(* occurs check.  With it, a success means that there is a solution.       *)
(***************************************************************************)
EXTENDS Unification, FiniteSetTheorems, WellFoundedInduction, TLAPS

\* What the occurs check goes by: under every solution of the bindings, the
\* terms it looks into are parts of the term to be bound.
InspectedAreParts ==
  pc = "occurs" =>
    \A g \in Grounding : SatisfiesBindings(g) =>
      \A k \in DOMAIN inspect :
        \/ inspect[k] = Oriented[2]
        \/ Height(g[inspect[k]]) < Height(g[Oriented[2]])

IdleIsFresh == pc = "idle" => bindings = <<>>

AllUnify(g, pairs) == \A k \in DOMAIN pairs : Unifies(g, pairs[k])

-----------------------------------------------------------------------------
(* Lists of pairs *)

\* A list is unified when its head and its tail are.
LEMMA AllUnifyHead ==
  ASSUME NEW g, NEW pairs \in Seq(TermId \X TermId), pairs # <<>>
  PROVE  AllUnify(g, pairs) <=> Unifies(g, Head(pairs)) /\ AllUnify(g, Tail(pairs))
<1>1. /\ Len(pairs) \in Nat \ {0} /\ DOMAIN pairs = 1..Len(pairs)
      /\ Head(pairs) = pairs[1]
      /\ DOMAIN Tail(pairs) = 1..(Len(pairs) - 1)
      /\ \A k \in DOMAIN Tail(pairs) : Tail(pairs)[k] = pairs[k + 1]
  OBVIOUS
<1>2. ASSUME AllUnify(g, pairs)
      PROVE  Unifies(g, Head(pairs)) /\ AllUnify(g, Tail(pairs))
  <2>1. \A k \in DOMAIN Tail(pairs) : k + 1 \in DOMAIN pairs
    BY <1>1
  <2> QED BY <1>1, <1>2, <2>1 DEF AllUnify
<1>3. ASSUME Unifies(g, Head(pairs)), AllUnify(g, Tail(pairs))
      PROVE  AllUnify(g, pairs)
  <2> SUFFICES ASSUME NEW k \in DOMAIN pairs PROVE Unifies(g, pairs[k])
    BY DEF AllUnify
  <2>1. CASE k = 1
    BY <1>1, <1>3, <2>1
  <2>2. CASE k # 1
    <3>1. k - 1 \in DOMAIN Tail(pairs) /\ Tail(pairs)[k - 1] = pairs[k]
      BY <1>1, <2>2
    <3> QED BY <1>3, <3>1 DEF AllUnify
  <2> QED BY <2>1, <2>2
<1> QED BY <1>2, <1>3

\* A concatenation is unified when both its parts are.
LEMMA AllUnifyConcat ==
  ASSUME NEW g, NEW s \in Seq(TermId \X TermId), NEW t \in Seq(TermId \X TermId)
  PROVE  AllUnify(g, s \o t) <=> AllUnify(g, s) /\ AllUnify(g, t)
<1>1. /\ Len(s) \in Nat /\ Len(t) \in Nat
      /\ DOMAIN s = 1..Len(s) /\ DOMAIN t = 1..Len(t)
      /\ DOMAIN (s \o t) = 1..(Len(s) + Len(t))
      /\ \A k \in 1..Len(s) : (s \o t)[k] = s[k]
      /\ \A k \in 1..Len(t) : (s \o t)[Len(s) + k] = t[k]
  OBVIOUS
<1>2. ASSUME AllUnify(g, s \o t)
      PROVE  AllUnify(g, s) /\ AllUnify(g, t)
  <2>1. /\ \A k \in 1..Len(s) : k \in DOMAIN (s \o t)
        /\ \A k \in 1..Len(t) : Len(s) + k \in DOMAIN (s \o t)
    BY <1>1
  <2> QED BY <1>1, <1>2, <2>1 DEF AllUnify
<1>3. ASSUME AllUnify(g, s), AllUnify(g, t)
      PROVE  AllUnify(g, s \o t)
  <2> SUFFICES ASSUME NEW k \in DOMAIN (s \o t) PROVE Unifies(g, (s \o t)[k])
    BY DEF AllUnify
  <2>1. CASE k \in 1..Len(s)
    BY <1>1, <1>3, <2>1 DEF AllUnify
  <2>2. CASE k \notin 1..Len(s)
    <3>1. k - Len(s) \in 1..Len(t) /\ Len(s) + (k - Len(s)) = k
      BY <1>1, <2>2
    <3>2. (s \o t)[k] = t[k - Len(s)]
      BY <1>1, <3>1
    <3> QED BY <1>1, <1>3, <3>1, <3>2 DEF AllUnify
  <2> QED BY <2>1, <2>2
<1> QED BY <1>2, <1>3

-----------------------------------------------------------------------------
(* Types *)

\* unify() begins with nothing bound and nothing pending.
LEMMA TypeInit == Init => TypeOK
<1> SUFFICES ASSUME Init PROVE TypeOK
  OBVIOUS
<1>1. DOMAIN bindings = {} /\ bindings \in [DOMAIN bindings -> TermId]
  <2>1. bindings = <<>> /\ DOMAIN << >> = {}
    BY DEF Init
  <2> QED BY <2>1
<1>2. agenda = << >> /\ inspect = << >>
  BY DEF Init
<1>3. agenda \in Seq(TermId \X TermId) /\ inspect \in Seq(TermId)
  BY <1>2
<1> QED BY <1>1, <1>3 DEF Init, TypeOK

\* The current pair is one of terms of the bank.
LEMMA AgendaHead ==
  ASSUME TypeOK, agenda # <<>>
  PROVE  /\ t1 \in TermId /\ t2 \in TermId
         /\ Head(agenda) = <<t1, t2>>
         /\ Tail(agenda) \in Seq(TermId \X TermId)
<1>1. Head(agenda) \in TermId \X TermId /\ Tail(agenda) \in Seq(TermId \X TermId)
  BY DEF TypeOK
<1> QED BY <1>1 DEF t1, t2

\* bind() of an unbound variable adds it and nothing else.
LEMMA BindAdds ==
  ASSUME NEW v, NEW t, v \notin DOMAIN bindings, bind(v, t)
  PROVE  /\ DOMAIN bindings' = DOMAIN bindings \cup {v}
         /\ bindings'[v] = t
         /\ \A w \in DOMAIN bindings : bindings'[w] = bindings[w]
BY DEF bind

\* The pair that is bound: an unbound variable and another unbound term.
LEMMA OrientedPair ==
  ASSUME TypeOK, agenda # <<>>, t1 # t2, ~IsBound(t1), ~IsBound(t2),
         IsVariable(t1) \/ IsVariable(t2)
  PROVE  /\ Oriented[1] \in TermId /\ Oriented[2] \in TermId
         /\ IsVariable(Oriented[1])
         /\ Oriented[1] # Oriented[2]
         /\ Oriented[1] \notin DOMAIN bindings
         /\ Oriented[2] \notin DOMAIN bindings
         /\ \A g : Unifies(g, Head(agenda)) <=> g[Oriented[1]] = g[Oriented[2]]
<1>1. t1 \in TermId /\ t2 \in TermId /\ Head(agenda) = <<t1, t2>>
  BY AgendaHead
<1>2. t1 \notin DOMAIN bindings /\ t2 \notin DOMAIN bindings
  BY <1>1 DEF TypeOK, IsBound
<1>3. CASE IsVariable(t1)
  BY <1>1, <1>2, <1>3 DEF Oriented, Unifies
<1>4. CASE ~IsVariable(t1)
  BY <1>1, <1>2, <1>4 DEF Oriented, Unifies
<1> QED BY <1>3, <1>4

\* bind() of a variable to a term keeps the types of the bindings.
LEMMA BoundTyped ==
  ASSUME TypeOK, NEW v \in TermId, NEW t \in TermId, IsVariable(v),
         v \notin DOMAIN bindings, bind(v, t)
  PROVE  /\ bindings' \in [DOMAIN bindings' -> TermId]
         /\ \A w \in DOMAIN bindings' : w \in TermId /\ IsVariable(w)
BY BindAdds DEF TypeOK, bind

\* The arguments of two terms of one arity make pairs of terms.
LEMMA ArgPairsTyped ==
  ASSUME NEW s \in TermId, NEW t \in TermId, Len(Args(s)) = Len(Args(t))
  PROVE  ArgPairs(s, t) \in Seq(TermId \X TermId)
<1>1. Args(s) \in Seq(TermId) /\ Args(t) \in Seq(TermId)
  BY BankTyped
<1>2. /\ Len(Args(s)) \in Nat
      /\ DOMAIN Args(s) = 1..Len(Args(s)) /\ DOMAIN Args(t) = 1..Len(Args(s))
  BY <1>1
<1>3. \A k \in 1..Len(Args(s)) : <<Args(s)[k], Args(t)[k]>> \in TermId \X TermId
  BY <1>1, <1>2
<1>4. ArgPairs(s, t) = [k \in 1..Len(Args(s)) |-> <<Args(s)[k], Args(t)[k]>>]
  BY <1>2 DEF ArgPairs
<1> QED BY <1>2, <1>3, <1>4

\* Every step keeps the types.
LEMMA TypeStep == TypeOK /\ [Next]_vars => TypeOK'
<1> SUFFICES ASSUME TypeOK, [Next]_vars PROVE TypeOK'
  OBVIOUS
<1> USE BankTyped
<1>1. CASE Call
  <2>1. problem[1] \in TermId /\ problem[2] \in TermId
    BY DEF TypeOK
  <2> QED BY <1>1, <2>1 DEF Call, TypeOK
<1>2. CASE Walk
  <2>1. agenda # <<>> BY <1>2 DEF Walk
  <2>2. t1 \in TermId /\ t2 \in TermId /\ Tail(agenda) \in Seq(TermId \X TermId)
    BY <2>1, AgendaHead
  <2>3. CASE IsBound(t1)
    <3>1. bindings[t1] \in TermId BY <2>3 DEF IsBound, TypeOK
    <3>2. agenda' = <<<<bindings[t1], t2>>>> \o Tail(agenda) BY <1>2, <2>3 DEF Walk
    <3>3. agenda' \in Seq(TermId \X TermId) BY <2>2, <3>1, <3>2
    <3> QED BY <1>2, <3>3 DEF Walk, TypeOK
  <2>4. CASE ~IsBound(t1) /\ IsBound(t2)
    <3>1. bindings[t2] \in TermId BY <2>4 DEF IsBound, TypeOK
    <3>2. agenda' = <<<<t1, bindings[t2]>>>> \o Tail(agenda) BY <1>2, <2>4 DEF Walk
    <3>3. agenda' \in Seq(TermId \X TermId) BY <2>2, <3>1, <3>2
    <3> QED BY <1>2, <3>3 DEF Walk, TypeOK
  <2> QED BY <1>2, <2>3, <2>4 DEF Walk
<1>3. CASE Same
  <2>1. Tail(agenda) \in Seq(TermId \X TermId)
    BY <1>3, AgendaHead DEF Same, Resolved
  <2> QED BY <1>3, <2>1 DEF Same, Resolved, TypeOK
<1>4. CASE Bind
  <2>1. Tail(agenda) \in Seq(TermId \X TermId)
    BY <1>4, AgendaHead DEF Bind, Resolved
  <2>2. /\ Oriented[1] \in TermId /\ Oriented[2] \in TermId
        /\ IsVariable(Oriented[1]) /\ Oriented[1] \notin DOMAIN bindings
    BY <1>4, OrientedPair DEF Bind, Resolved
  <2>3. /\ bindings' \in [DOMAIN bindings' -> TermId]
        /\ \A w \in DOMAIN bindings' : w \in TermId /\ IsVariable(w)
    BY <1>4, <2>2, BoundTyped DEF Bind
  <2> QED BY <1>4, <2>1, <2>3 DEF Bind, Resolved, TypeOK
<1>5. CASE StartOccursCheck
  <2>1. Oriented[2] \in TermId
    BY <1>5, OrientedPair DEF StartOccursCheck, Resolved
  <2>2. t1' = t1 /\ t2' = t2 /\ IsBound(t1)' = IsBound(t1) /\ IsBound(t2)' = IsBound(t2)
    BY <1>5 DEF StartOccursCheck, t1, t2, IsBound
  <2> QED BY <1>5, <2>1, <2>2 DEF StartOccursCheck, Resolved, TypeOK
<1>6. CASE Clash
  BY <1>6 DEF Clash, Fail, TypeOK
<1>7. CASE Decompose
  <2>1. /\ t1 \in TermId /\ t2 \in TermId
        /\ Tail(agenda) \in Seq(TermId \X TermId)
    BY <1>7, AgendaHead DEF Decompose, Resolved
  <2>2. ArgPairs(t1, t2) \in Seq(TermId \X TermId)
    BY <1>7, <2>1, ArgPairsTyped DEF Decompose
  <2>3. agenda' \in Seq(TermId \X TermId)
    BY <1>7, <2>1, <2>2 DEF Decompose
  <2> QED BY <1>7, <2>3 DEF Decompose, Resolved, TypeOK
<1>8. CASE Succeed
  BY <1>8 DEF Succeed, TypeOK
<1>9. CASE OccursWalk
  <2>1. bindings[Head(inspect)] \in TermId /\ Tail(inspect) \in Seq(TermId)
    BY <1>9 DEF OccursWalk, IsBound, TypeOK
  <2>2. inspect' \in Seq(TermId)
    BY <1>9, <2>1 DEF OccursWalk
  <2>3. t1' = t1 /\ t2' = t2 /\ IsBound(t1)' = IsBound(t1) /\ IsBound(t2)' = IsBound(t2)
    BY <1>9 DEF OccursWalk, t1, t2, IsBound
  <2> QED BY <1>9, <2>2, <2>3 DEF OccursWalk, TypeOK
<1>10. CASE OccursFound
  BY <1>10 DEF OccursFound, Fail, TypeOK
<1>11. CASE OccursDescend
  <2>1. Head(inspect) \in TermId /\ Tail(inspect) \in Seq(TermId)
    BY <1>11 DEF OccursDescend, TypeOK
  <2>2. inspect' \in Seq(TermId)
    BY <1>11, <2>1 DEF OccursDescend
  <2>3. t1' = t1 /\ t2' = t2 /\ IsBound(t1)' = IsBound(t1) /\ IsBound(t2)' = IsBound(t2)
    BY <1>11 DEF OccursDescend, t1, t2, IsBound
  <2> QED BY <1>11, <2>2, <2>3 DEF OccursDescend, TypeOK
<1>12. CASE OccursNowhere
  <2>1. Tail(agenda) \in Seq(TermId \X TermId)
    BY <1>12, AgendaHead DEF OccursNowhere, TypeOK
  <2>2. /\ Oriented[1] \in TermId /\ Oriented[2] \in TermId
        /\ IsVariable(Oriented[1]) /\ Oriented[1] \notin DOMAIN bindings
    BY <1>12, OrientedPair DEF OccursNowhere, TypeOK
  <2>3. /\ bindings' \in [DOMAIN bindings' -> TermId]
        /\ \A w \in DOMAIN bindings' : w \in TermId /\ IsVariable(w)
    BY <1>12, <2>2, BoundTyped DEF OccursNowhere
  <2> QED BY <1>12, <2>1, <2>3 DEF OccursNowhere, TypeOK
<1>13. CASE UNCHANGED vars
  BY <1>13 DEF vars, TypeOK, t1, t2, IsBound
<1> QED
  BY <1>1, <1>2, <1>3, <1>4, <1>5, <1>6, <1>7, <1>8, <1>9, <1>10, <1>11, <1>12, <1>13
  DEF Next, unify, occursIn

\* unify() handles terms of the bank and binds only variables.
THEOREM UnificationTypeCorrect == Spec => []TypeOK
<1>1. Init => TypeOK BY TypeInit
<1>2. TypeOK /\ [Next]_vars => TypeOK' BY TypeStep
<1> QED BY <1>1, <1>2, PTL DEF Spec


-----------------------------------------------------------------------------
(* Chains *)

\* The new binding leads to a term that is not bound, so it closes no circle.
LEMMA BindingClosesNoCircle ==
  ASSUME VariableChainsEnd, NEW v, NEW t, bind(v, t),
         v \notin DOMAIN bindings, t \notin DOMAIN bindings, v # t
  PROVE  VariableChainsEnd'
<1> SUFFICES ASSUME NEW S \in SUBSET DOMAIN bindings', S # {}
             PROVE  \E w \in S : bindings'[w] \notin S
  BY DEF VariableChainsEnd
<1>1. CASE v \in S
  <2>1. t \notin S
    BY BindAdds
  <2> QED BY <1>1, <2>1, BindAdds, ZenonT(40)
<1>2. CASE v \notin S
  <2>1. S \in SUBSET DOMAIN bindings
    BY <1>2, BindAdds
  <2>2. PICK w \in S : bindings[w] \notin S
    BY <2>1 DEF VariableChainsEnd
  <2> QED BY <2>1, <2>2, BindAdds
<1> QED BY <1>1, <1>2

\* Every step keeps the chains of variables ending.
LEMMA ChainsStep == TypeOK /\ VariableChainsEnd /\ [Next]_vars => VariableChainsEnd'
<1> SUFFICES ASSUME TypeOK, VariableChainsEnd, [Next]_vars PROVE VariableChainsEnd'
  OBVIOUS
<1>1. CASE Bind
  <2>1. /\ Oriented[1] # Oriented[2]
        /\ Oriented[1] \notin DOMAIN bindings /\ Oriented[2] \notin DOMAIN bindings
    BY <1>1, OrientedPair DEF Bind, Resolved
  <2> QED BY <1>1, <2>1, BindingClosesNoCircle DEF Bind
<1>2. CASE OccursNowhere
  <2>1. /\ Oriented[1] # Oriented[2]
        /\ Oriented[1] \notin DOMAIN bindings /\ Oriented[2] \notin DOMAIN bindings
    BY <1>2, OrientedPair DEF OccursNowhere, TypeOK
  <2> QED BY <1>2, <2>1, BindingClosesNoCircle DEF OccursNowhere
<1>3. CASE UNCHANGED bindings
  BY <1>3 DEF VariableChainsEnd
<1> QED
  BY <1>1, <1>2, <1>3 DEF Next, unify, occursIn, vars, Call, Walk, Same, StartOccursCheck,
     Clash, Decompose, Succeed, OccursWalk, OccursFound, OccursDescend

\* Following bindings from variable to variable always ends: resolve() returns,
\* with the occurs check and without.
THEOREM ResolveEnds == Spec => []VariableChainsEnd
<1>1. Init => VariableChainsEnd
  BY DEF Init, VariableChainsEnd
<1>2. TypeOK /\ VariableChainsEnd /\ [Next]_vars => VariableChainsEnd'
  BY ChainsStep
<1> QED BY <1>1, <1>2, UnificationTypeCorrect, PTL DEF Spec

-----------------------------------------------------------------------------
(* Solutions *)

\* The two halves of SolutionsPreserved, for one grounding.
Pending(g) ==
  Unifies(g, problem) <=> SatisfiesBindings(g) /\ AllUnify(g, agenda)

\* SolutionsPreserved speaks of each grounding by itself.
LEMMA SolutionsByGrounding ==
  SolutionsPreserved <=>
    \A g \in Grounding :
      /\ pc \in {"unify", "occurs"} \/ (pc = "done" /\ result) => Pending(g)
      /\ pc = "done" /\ ~result => ~Unifies(g, problem)
BY DEF SolutionsPreserved, Pending, AllUnify

\* A new binding adds one equation.
LEMMA BindingIsEquation ==
  ASSUME NEW g, NEW v, NEW t, v \notin DOMAIN bindings, bind(v, t)
  PROVE  SatisfiesBindings(g)' <=> SatisfiesBindings(g) /\ g[v] = g[t]
BY BindAdds, ZenonT(40) DEF SatisfiesBindings

\* Binding the variable of the current pair takes that pair off the agenda.
LEMMA BindPending ==
  ASSUME TypeOK, agenda # <<>>, t1 # t2, ~IsBound(t1), ~IsBound(t2),
         IsVariable(t1) \/ IsVariable(t2), NEW g, Pending(g),
         bind(Oriented[1], Oriented[2]), agenda' = Tail(agenda), UNCHANGED problem
  PROVE  Pending(g)'
<1>1. AllUnify(g, agenda) <=> Unifies(g, Head(agenda)) /\ AllUnify(g, Tail(agenda))
  BY AllUnifyHead DEF TypeOK
<1>2. Unifies(g, Head(agenda)) <=> g[Oriented[1]] = g[Oriented[2]]
  BY OrientedPair
<1>3. SatisfiesBindings(g)' <=> SatisfiesBindings(g) /\ g[Oriented[1]] = g[Oriented[2]]
  BY OrientedPair, BindingIsEquation, ZenonT(40)
<1>4. Unifies(g, problem)' <=> Unifies(g, problem)
  BY DEF Unifies
<1>5. AllUnify(g, agenda)' <=> AllUnify(g, Tail(agenda))
  BY DEF AllUnify, Unifies
<1> QED BY <1>1, <1>2, <1>3, <1>4, <1>5 DEF Pending

\* A step that leaves problem, bindings and agenda alone.
LEMMA SamePending ==
  ASSUME NEW g, Pending(g), UNCHANGED <<problem, bindings, agenda>>
  PROVE  Pending(g)'
BY DEF Pending, SatisfiesBindings, AllUnify, Unifies

\* When the agenda alone changes, what matters is that it asks for the same.
LEMMA AgendaPending ==
  ASSUME NEW g, Pending(g), UNCHANGED <<problem, bindings>>,
         SatisfiesBindings(g) => (AllUnify(g, agenda) <=> AllUnify(g, agenda'))
  PROVE  Pending(g)'
BY DEF Pending, SatisfiesBindings, AllUnify, Unifies

\* A link of resolve() replaces a term by the one it is bound to.
LEMMA WalkPending ==
  ASSUME TypeOK, Walk, NEW g, Pending(g)
  PROVE  Pending(g)'
<1>1. agenda # <<>>
  BY DEF Walk
<1>2. /\ t1 \in TermId /\ t2 \in TermId
      /\ Head(agenda) = <<t1, t2>>
      /\ Tail(agenda) \in Seq(TermId \X TermId)
  BY <1>1, AgendaHead
<1>3. AllUnify(g, agenda) <=> g[t1] = g[t2] /\ AllUnify(g, Tail(agenda))
  <2>1. agenda \in Seq(TermId \X TermId)
    BY DEF TypeOK
  <2>2. AllUnify(g, agenda) <=> Unifies(g, Head(agenda)) /\ AllUnify(g, Tail(agenda))
    BY <1>1, <2>1, AllUnifyHead
  <2>3. Unifies(g, Head(agenda)) <=> g[t1] = g[t2]
    BY <1>2 DEF Unifies
  <2> QED BY <2>2, <2>3
<1>4. ASSUME NEW s \in TermId, NEW t \in TermId, agenda' = <<<<s, t>>>> \o Tail(agenda)
      PROVE  AllUnify(g, agenda') <=> g[s] = g[t] /\ AllUnify(g, Tail(agenda))
  <2>1. agenda' \in Seq(TermId \X TermId) /\ agenda' # <<>> /\ Head(agenda') = <<s, t>>
    BY <1>2, <1>4
  <2>2. Tail(agenda') = Tail(agenda)
    BY <1>2, <1>4
  <2>3. AllUnify(g, agenda') <=> Unifies(g, Head(agenda')) /\ AllUnify(g, Tail(agenda'))
    BY <2>1, AllUnifyHead
  <2>4. Unifies(g, Head(agenda')) <=> g[s] = g[t]
    BY <2>1 DEF Unifies
  <2> QED BY <2>2, <2>3, <2>4
<1>5. CASE IsBound(t1)
  <2>1. bindings[t1] \in TermId /\ (SatisfiesBindings(g) => g[t1] = g[bindings[t1]])
    BY <1>5 DEF IsBound, TypeOK, SatisfiesBindings
  <2>2. agenda' = <<<<bindings[t1], t2>>>> \o Tail(agenda)
    BY <1>5 DEF Walk
  <2> QED BY <1>2, <1>3, <1>4, <2>1, <2>2, AgendaPending DEF Walk
<1>6. CASE ~IsBound(t1) /\ IsBound(t2)
  <2>1. bindings[t2] \in TermId /\ (SatisfiesBindings(g) => g[t2] = g[bindings[t2]])
    BY <1>6 DEF IsBound, TypeOK, SatisfiesBindings
  <2>2. agenda' = <<<<t1, bindings[t2]>>>> \o Tail(agenda)
    BY <1>6 DEF Walk
  <2> QED BY <1>2, <1>3, <1>4, <2>1, <2>2, AgendaPending DEF Walk
<1> QED BY <1>5, <1>6 DEF Walk

\* A pair of one term says nothing.
LEMMA SamePairPending ==
  ASSUME TypeOK, Same, NEW g, Pending(g)
  PROVE  Pending(g)'
<1>1. agenda # <<>> /\ t1 = t2 /\ agenda' = Tail(agenda)
  BY DEF Same, Resolved
<1>2. AllUnify(g, agenda) <=> AllUnify(g, Tail(agenda))
  BY <1>1, AgendaHead, AllUnifyHead DEF TypeOK, Unifies
<1> QED BY <1>1, <1>2, AgendaPending DEF Same

\* Terms with one head are equal when their arguments are.
LEMMA DecomposePending ==
  ASSUME TypeOK, Decompose, NEW g \in Grounding, Pending(g)
  PROVE  Pending(g)'
<1>1. agenda # <<>> /\ ~IsVariable(t1) /\ ~IsVariable(t2) /\ Symbol(t1) = Symbol(t2)
      /\ Len(Args(t1)) = Len(Args(t2)) /\ agenda' = ArgPairs(t1, t2) \o Tail(agenda)
  BY DEF Decompose, Resolved
<1>2. /\ t1 \in TermId /\ t2 \in TermId
      /\ Head(agenda) = <<t1, t2>>
      /\ Tail(agenda) \in Seq(TermId \X TermId)
  BY <1>1, AgendaHead
<1>3. AllUnify(g, agenda) <=> g[t1] = g[t2] /\ AllUnify(g, Tail(agenda))
  <2>1. agenda \in Seq(TermId \X TermId)
    BY DEF TypeOK
  <2>2. AllUnify(g, agenda) <=> Unifies(g, Head(agenda)) /\ AllUnify(g, Tail(agenda))
    BY <1>1, <2>1, AllUnifyHead
  <2>3. Unifies(g, Head(agenda)) <=> g[t1] = g[t2]
    BY <1>2 DEF Unifies
  <2> QED BY <2>2, <2>3
<1>4. g[t1] = g[t2] <=> \A k \in DOMAIN Args(t1) : g[Args(t1)[k]] = g[Args(t2)[k]]
  BY <1>1, <1>2, TreesAreFree
<1>5. AllUnify(g, ArgPairs(t1, t2)) <=> \A k \in DOMAIN Args(t1) : g[Args(t1)[k]] = g[Args(t2)[k]]
  BY DEF AllUnify, ArgPairs, Unifies
<1>6. AllUnify(g, agenda') <=> AllUnify(g, ArgPairs(t1, t2)) /\ AllUnify(g, Tail(agenda))
  BY <1>1, <1>2, ArgPairsTyped, AllUnifyConcat
<1> QED BY <1>3, <1>4, <1>5, <1>6, AgendaPending DEF Decompose


\* Terms with different heads are never equal.
LEMMA ClashHasNoSolution ==
  ASSUME TypeOK, Clash, NEW g \in Grounding, Pending(g)
  PROVE  ~Unifies(g, problem)
<1>1. agenda # <<>> /\ ~IsVariable(t1) /\ ~IsVariable(t2)
      /\ (Symbol(t1) # Symbol(t2) \/ Len(Args(t1)) # Len(Args(t2)))
  BY DEF Clash, Resolved
<1>2. t1 \in TermId /\ t2 \in TermId /\ Head(agenda) = <<t1, t2>>
  BY <1>1, AgendaHead
<1>3. g[t1] # g[t2]
  BY <1>1, <1>2, TreesAreFree
<1>4. ~Unifies(g, Head(agenda))
  BY <1>2, <1>3 DEF Unifies
<1>5. AllUnify(g, agenda) => Unifies(g, Head(agenda))
  BY <1>1, AllUnifyHead DEF TypeOK
<1> QED BY <1>4, <1>5 DEF Pending

\* A variable that is a proper part of a tree does not equal it.
LEMMA FoundHasNoSolution ==
  ASSUME TypeOK, InspectedAreParts, OccursFound, NEW g \in Grounding, Pending(g)
  PROVE  ~Unifies(g, problem)
<1> SUFFICES ASSUME Unifies(g, problem) PROVE FALSE
  OBVIOUS
<1>1. agenda # <<>> /\ pc = "occurs"
  BY DEF OccursFound, TypeOK
<1>2. /\ Oriented[1] # Oriented[2] /\ Oriented[1] \in TermId /\ Oriented[2] \in TermId
      /\ Unifies(g, Head(agenda)) <=> g[Oriented[1]] = g[Oriented[2]]
  BY <1>1, OrientedPair DEF TypeOK
<1>3. SatisfiesBindings(g) /\ Unifies(g, Head(agenda))
  BY <1>1, AllUnifyHead DEF Pending, TypeOK
<1>4. 1 \in DOMAIN inspect /\ inspect[1] = Oriented[1]
  BY DEF OccursFound, TypeOK
<1>5. Height(g[Oriented[1]]) < Height(g[Oriented[2]])
  BY <1>1, <1>2, <1>3, <1>4 DEF InspectedAreParts
<1>6. Height(g[Oriented[2]]) \in Nat
  BY <1>2, TreesAreFree
<1> QED BY <1>2, <1>3, <1>5, <1>6

-----------------------------------------------------------------------------
(* The occurs check *)

Below(g, u) ==
  u = Oriented[2] \/ Height(g[u]) < Height(g[Oriented[2]])

\* InspectedAreParts in terms of Below.
LEMMA PartsByBelow ==
  InspectedAreParts <=>
    (pc = "occurs" => \A g \in Grounding : SatisfiesBindings(g) =>
                        \A k \in DOMAIN inspect : Below(g, inspect[k]))
BY DEF InspectedAreParts, Below

\* What is known of all terms to look into holds of the first and the rest.
LEMMA BelowHeadTail ==
  ASSUME NEW g, inspect \in Seq(TermId), inspect # <<>>,
         \A k \in DOMAIN inspect : Below(g, inspect[k])
  PROVE  /\ Below(g, Head(inspect))
         /\ \A k \in DOMAIN Tail(inspect) : Below(g, Tail(inspect)[k])
<1>1. /\ Len(inspect) \in Nat \ {0} /\ DOMAIN inspect = 1..Len(inspect)
      /\ Head(inspect) = inspect[1]
      /\ DOMAIN Tail(inspect) = 1..(Len(inspect) - 1)
      /\ \A k \in DOMAIN Tail(inspect) : Tail(inspect)[k] = inspect[k + 1]
  OBVIOUS
<1>2. \A k \in DOMAIN Tail(inspect) : k + 1 \in DOMAIN inspect
  BY <1>1
<1> QED BY <1>1, <1>2

\* What is known of two lists holds of their concatenation.
LEMMA BelowConcat ==
  ASSUME NEW g, NEW s \in Seq(TermId), NEW t \in Seq(TermId),
         \A k \in DOMAIN s : Below(g, s[k]),
         \A k \in DOMAIN t : Below(g, t[k])
  PROVE  \A k \in DOMAIN (s \o t) : Below(g, (s \o t)[k])
<1>1. /\ Len(s) \in Nat /\ Len(t) \in Nat
      /\ DOMAIN s = 1..Len(s) /\ DOMAIN t = 1..Len(t)
      /\ DOMAIN (s \o t) = 1..(Len(s) + Len(t))
      /\ \A k \in 1..Len(s) : (s \o t)[k] = s[k]
      /\ \A k \in 1..Len(t) : (s \o t)[Len(s) + k] = t[k]
  OBVIOUS
<1> SUFFICES ASSUME NEW k \in DOMAIN (s \o t) PROVE Below(g, (s \o t)[k])
  OBVIOUS
<1>2. CASE k \in 1..Len(s)
  BY <1>1, <1>2
<1>3. CASE k \notin 1..Len(s)
  <2>1. k - Len(s) \in 1..Len(t) /\ Len(s) + (k - Len(s)) = k
    BY <1>1, <1>3
  <2> QED BY <1>1, <2>1
<1> QED BY <1>2, <1>3

\* occursIn() only descends.
LEMMA PartsStep == TypeOK /\ InspectedAreParts /\ [Next]_vars => InspectedAreParts'
<1> SUFFICES ASSUME TypeOK, InspectedAreParts, [Next]_vars, pc' = "occurs",
                    NEW g \in Grounding, SatisfiesBindings(g)'
             PROVE  \A k \in DOMAIN inspect' :
                       inspect'[k] = Oriented[2]' \/ Height(g[inspect'[k]]) < Height(g[Oriented[2]'])
  BY DEF InspectedAreParts
<1>1. CASE StartOccursCheck
  <2>1. inspect' = <<Oriented[2]>> /\ Oriented' = Oriented
    BY <1>1 DEF StartOccursCheck, Oriented, t1, t2
  <2> QED BY <2>1
<1>2. ASSUME pc = "occurs", UNCHANGED <<bindings, agenda>>,
             inspect # <<>>,
             NEW new \in Seq(TermId), inspect' = new \o Tail(inspect),
             SatisfiesBindings(g) /\ Below(g, Head(inspect)) =>
               \A k \in DOMAIN new : Below(g, new[k])
      PROVE  \A k \in DOMAIN inspect' :
               inspect'[k] = Oriented[2]' \/ Height(g[inspect'[k]]) < Height(g[Oriented[2]'])
  <2>1. SatisfiesBindings(g) /\ Oriented' = Oriented
    BY <1>2 DEF SatisfiesBindings, Oriented, t1, t2
  <2>2. inspect \in Seq(TermId) /\ Tail(inspect) \in Seq(TermId)
    BY <1>2 DEF TypeOK
  <2>3. \A k \in DOMAIN inspect : Below(g, inspect[k])
    BY <1>2, <2>1, PartsByBelow
  <2>4. Below(g, Head(inspect)) /\ \A k \in DOMAIN Tail(inspect) : Below(g, Tail(inspect)[k])
    BY <1>2, <2>2, <2>3, BelowHeadTail
  <2>5. \A k \in DOMAIN new : Below(g, new[k])
    BY <1>2, <2>1, <2>4
  <2>6. \A k \in DOMAIN inspect' : Below(g, inspect'[k])
    BY <1>2, <2>2, <2>4, <2>5, BelowConcat
  <2> QED BY <2>1, <2>6 DEF Below
<1>3. CASE OccursWalk
  <2> DEFINE u == Head(inspect)
  <2>1. /\ pc = "occurs" /\ inspect # <<>> /\ IsBound(u)
        /\ inspect' = <<bindings[u]>> \o Tail(inspect)
        /\ UNCHANGED <<bindings, agenda>>
    BY <1>3 DEF OccursWalk
  <2>2. u \in DOMAIN bindings /\ bindings[u] \in TermId
    BY <2>1 DEF IsBound, TypeOK
  <2>3. Oriented[2] \notin DOMAIN bindings
    BY <2>1, OrientedPair DEF TypeOK
  <2>4. SatisfiesBindings(g) /\ Below(g, u) => Below(g, bindings[u])
    BY <2>2, <2>3 DEF SatisfiesBindings, Below
  <2>5. \A k \in DOMAIN <<bindings[u]>> : <<bindings[u]>>[k] = bindings[u]
    OBVIOUS
  <2>6. <<bindings[u]>> \in Seq(TermId)
    BY <2>2
  <2> HIDE DEF u
  <2>7. SatisfiesBindings(g) /\ Below(g, u) =>
          \A k \in DOMAIN <<bindings[u]>> : Below(g, <<bindings[u]>>[k])
    BY <2>4, <2>5
  <2> QED BY <1>2, <2>1, <2>6, <2>7 DEF u
<1>4. CASE OccursDescend
  <2> DEFINE u == Head(inspect)
             parts == IF IsVariable(u) THEN <<>> ELSE Args(u)
  <2>1. /\ pc = "occurs" /\ inspect # <<>>
        /\ inspect' = parts \o Tail(inspect)
        /\ UNCHANGED <<bindings, agenda>>
    BY <1>4 DEF OccursDescend
  <2>2. u \in TermId /\ Oriented[2] \in TermId
    BY <2>1, OrientedPair DEF TypeOK
  <2>3. parts \in Seq(TermId)
    BY <2>2, BankTyped
  <2>4. ASSUME Below(g, u), NEW k \in DOMAIN parts
        PROVE  Below(g, parts[k])
    <3>1. ~IsVariable(u) /\ parts = Args(u) /\ k \in DOMAIN Args(u)
      BY <2>4
    <3>2. Args(u)[k] \in TermId
      BY <2>2, <3>1, BankTyped
    <3>3. Height(g[Args(u)[k]]) < Height(g[u])
      BY <2>2, <3>1, TreesAreFree
    <3>4. /\ Height(g[Args(u)[k]]) \in Nat /\ Height(g[u]) \in Nat
          /\ Height(g[Oriented[2]]) \in Nat
      BY <2>2, <3>2, TreesAreFree
    <3> QED BY <2>4, <3>1, <3>3, <3>4 DEF Below
  <2> QED BY <1>2, <2>1, <2>3, <2>4
<1>5. CASE UNCHANGED vars
  <2>1. SatisfiesBindings(g) /\ Oriented' = Oriented /\ inspect' = inspect /\ pc = "occurs"
    BY <1>5 DEF vars, SatisfiesBindings, Oriented, t1, t2
  <2> QED BY <2>1 DEF InspectedAreParts
<1>6. ~Call /\ ~Walk /\ ~Same /\ ~Bind /\ ~Clash /\ ~Decompose /\ ~Succeed /\ ~OccursFound
      /\ ~OccursNowhere
  BY DEF Call, Walk, Same, Bind, Clash, Decompose, Succeed, OccursFound, OccursNowhere, Fail,
     Resolved
<1> QED BY <1>1, <1>3, <1>4, <1>5, <1>6 DEF Next, unify, occursIn


-----------------------------------------------------------------------------
(* The theorem *)

SolutionsInv == SolutionsPreserved /\ InspectedAreParts /\ IdleIsFresh

\* At first the problem itself is all that is pending.
LEMMA CallPending ==
  ASSUME TypeOK, IdleIsFresh, Call, NEW g
  PROVE  Pending(g)'
<1>1. bindings' = <<>> /\ agenda' = <<<<problem[1], problem[2]>>>> /\ problem' = problem
  BY DEF Call, IdleIsFresh
<1>2. SatisfiesBindings(g)'
  BY <1>1 DEF SatisfiesBindings
<1>3. AllUnify(g, agenda)' <=> Unifies(g, problem)
  BY <1>1 DEF AllUnify, Unifies
<1> QED BY <1>1, <1>2, <1>3 DEF Pending, Unifies

\* Every step keeps the solutions of the problem.
LEMMA SolutionsStep ==
  TypeOK /\ SolutionsPreserved /\ InspectedAreParts /\ IdleIsFresh /\ [Next]_vars
    => SolutionsPreserved'
<1> SUFFICES ASSUME TypeOK, SolutionsPreserved, InspectedAreParts, IdleIsFresh, [Next]_vars,
                    NEW g \in Grounding
             PROVE  /\ pc' \in {"unify", "occurs"} \/ (pc' = "done" /\ result') => Pending(g)'
                    /\ pc' = "done" /\ ~result' => ~Unifies(g, problem')
  <2>1. SolutionsPreserved' <=>
          \A g \in Grounding :
            /\ pc' \in {"unify", "occurs"} \/ (pc' = "done" /\ result') => Pending(g)'
            /\ pc' = "done" /\ ~result' => ~Unifies(g, problem')
    BY DEF SolutionsPreserved, Pending, AllUnify, Unifies, SatisfiesBindings
  <2> QED BY <2>1
<1>0. /\ pc \in {"unify", "occurs"} \/ (pc = "done" /\ result) => Pending(g)
      /\ pc = "done" /\ ~result => ~Unifies(g, problem)
  BY SolutionsByGrounding
<1>1. CASE Call
  BY <1>1, CallPending DEF Call
<1>2. CASE Walk
  BY <1>0, <1>2, WalkPending DEF Walk
<1>3. CASE Same
  BY <1>0, <1>3, SamePairPending DEF Same, Resolved
<1>4. CASE Bind
  <2>1. /\ agenda # <<>> /\ t1 # t2 /\ ~IsBound(t1) /\ ~IsBound(t2) /\ pc = "unify"
        /\ IsVariable(t1) \/ IsVariable(t2)
        /\ bind(Oriented[1], Oriented[2]) /\ agenda' = Tail(agenda)
        /\ UNCHANGED <<problem, pc>>
    BY <1>4 DEF Bind, Resolved
  <2> QED BY <1>0, <2>1, BindPending
<1>5. CASE StartOccursCheck
  <2>1. pc = "unify" /\ pc' = "occurs" /\ UNCHANGED <<problem, bindings, agenda>>
    BY <1>5 DEF StartOccursCheck, Resolved
  <2> QED BY <1>0, <2>1, SamePending
<1>6. CASE Clash
  <2>1. pc = "unify" /\ pc' = "done" /\ result' = FALSE /\ problem' = problem
    BY <1>6 DEF Clash, Resolved, Fail
  <2> QED BY <1>0, <1>6, <2>1, ClashHasNoSolution
<1>7. CASE Decompose
  BY <1>0, <1>7, DecomposePending DEF Decompose, Resolved
<1>8. CASE Succeed
  <2>1. pc = "unify" /\ pc' = "done" /\ result' = TRUE /\ UNCHANGED <<problem, bindings, agenda>>
    BY <1>8 DEF Succeed
  <2> QED BY <1>0, <2>1, SamePending
<1>9. CASE OccursWalk
  <2>1. pc = "occurs" /\ UNCHANGED <<problem, bindings, agenda, pc>>
    BY <1>9 DEF OccursWalk
  <2> QED BY <1>0, <2>1, SamePending
<1>10. CASE OccursFound
  <2>1. pc = "occurs" /\ pc' = "done" /\ result' = FALSE /\ problem' = problem
    BY <1>10 DEF OccursFound, Fail
  <2> QED BY <1>0, <1>10, <2>1, FoundHasNoSolution
<1>11. CASE OccursDescend
  <2>1. pc = "occurs" /\ UNCHANGED <<problem, bindings, agenda, pc>>
    BY <1>11 DEF OccursDescend
  <2> QED BY <1>0, <2>1, SamePending
<1>12. CASE OccursNowhere
  <2>1. /\ agenda # <<>> /\ t1 # t2 /\ ~IsBound(t1) /\ ~IsBound(t2) /\ pc = "occurs"
        /\ IsVariable(t1) \/ IsVariable(t2)
        /\ bind(Oriented[1], Oriented[2]) /\ agenda' = Tail(agenda) /\ pc' = "unify"
        /\ problem' = problem
    BY <1>12 DEF OccursNowhere, TypeOK
  <2> QED BY <1>0, <2>1, BindPending
<1>13. CASE UNCHANGED vars
  <2>1. UNCHANGED <<problem, bindings, agenda, pc, result>>
    BY <1>13 DEF vars
  <2> QED BY <1>0, <2>1, SamePending
<1> QED
  BY <1>1, <1>2, <1>3, <1>4, <1>5, <1>6, <1>7, <1>8, <1>9, <1>10, <1>11, <1>12, <1>13
  DEF Next, unify, occursIn

\* Nothing is bound before the call.
LEMMA IdleStep == IdleIsFresh /\ [Next]_vars => IdleIsFresh'
BY DEF IdleIsFresh, Next, unify, occursIn, vars, Call, Walk, Same, Bind, StartOccursCheck,
   Clash, Decompose, Succeed, OccursWalk, OccursFound, OccursDescend, OccursNowhere, Fail,
   Resolved

\* When unify() succeeds, its bindings have exactly the solutions of the pair it
\* was called for, and when it fails there is none: what it returns is a most
\* general unifier wherever there is one.
THEOREM MostGeneral == Spec => []SolutionsPreserved
<1>1. Init => SolutionsInv
  BY DEF Init, SolutionsInv, SolutionsPreserved, InspectedAreParts, IdleIsFresh
<1>2. TypeOK /\ SolutionsInv /\ [Next]_vars => SolutionsInv'
  BY SolutionsStep, PartsStep, IdleStep DEF SolutionsInv
<1>3. SolutionsInv => SolutionsPreserved
  BY DEF SolutionsInv
<1> QED BY <1>1, <1>2, <1>3, UnificationTypeCorrect, PTL DEF Spec

-----------------------------------------------------------------------------
(***************************************************************************)
(* Success                                                                 *)
(*                                                                         *)
(* The occurs check keeps the whole graph of terms and bindings acyclic,   *)
(* so that there is a tree for every term that satisfies the bindings, put *)
(* together from the leaves.                                               *)
(***************************************************************************)

\* What occursIn() looks into after u: the term it is bound to, or its arguments.
Children(u) ==
  IF IsVariable(u) THEN {bindings[v] : v \in {u} \cap DOMAIN bindings}
  ELSE {Args(u)[k] : k \in DOMAIN Args(u)}

Acyclic == \A S \in SUBSET TermId : S # {} => \E u \in S : Children(u) \cap S = {}

Inspected == {inspect[k] : k \in DOMAIN inspect}

\* The occurs check has looked into some terms, none of them the variable, and
\* their children are among them or still to be looked into.
LookedInto(D) ==
  /\ Oriented[1] \notin D
  /\ Oriented[2] \in D \cup Inspected
  /\ \A u \in D : Children(u) \subseteq D \cup Inspected

OccursInv ==
  /\ OccursCheck => Acyclic
  /\ pc = "occurs" => OccursCheck /\ \E D \in SUBSET TermId : LookedInto(D)

\* A term's arguments were in the bank before it.
ArgumentsFirst(rank) ==
  /\ rank \in [TermId -> Nat]
  /\ \A t \in TermId : \A k \in DOMAIN Args(t) : rank[Args(t)[k]] < rank[t]

\* A set of natural numbers has a least one.
LEMMA LeastNumber ==
  ASSUME NEW S \in SUBSET Nat, S # {}
  PROVE  \E n \in S : \A m \in S : n <= m
<1> DEFINE R == {ss \in Nat \X Nat : ss[1] < ss[2]}
<1>1. IsWellFoundedOn(R, Nat)
  BY NatLessThanWellFounded DEF OpToRel
<1>2. \A x, y \in Nat : y < x => <<y, x>> \in R
  OBVIOUS
<1> HIDE DEF R
<1>3. PICK n \in S : \A m \in S : ~(<<m, n>> \in R)
  BY <1>1, WFMin
<1>4. \A m \in S : ~(m < n)
  BY <1>2, <1>3
<1> QED BY <1>4

\* The graph changes with the bindings only.
LEMMA ChildrenSame ==
  ASSUME UNCHANGED bindings
  PROVE  (\A u : Children(u)' = Children(u)) /\ (Acyclic' <=> Acyclic)
<1>1. \A u : Children(u)' = Children(u)
  BY DEF Children
<1> QED BY <1>1 DEF Acyclic

\* It is a graph on the terms of the bank.
LEMMA ChildrenTyped ==
  ASSUME TypeOK, NEW u \in TermId
  PROVE  Children(u) \subseteq TermId
<1>1. CASE IsVariable(u)
  BY <1>1 DEF Children, TypeOK
<1>2. CASE ~IsVariable(u)
  <2>1. \A k \in DOMAIN Args(u) : Args(u)[k] \in TermId
    BY BankTyped
  <2> QED BY <1>2, <2>1 DEF Children
<1> QED BY <1>1, <1>2

\* Before anything is bound, the children of a term are older than it.
LEMMA AcyclicInit ==
  ASSUME Init, NEW rank, ArgumentsFirst(rank)
  PROVE  Acyclic
<1> SUFFICES ASSUME NEW S \in SUBSET TermId, S # {}
             PROVE  \E u \in S : Children(u) \cap S = {}
  BY DEF Acyclic
<1>1. PICK u \in S : \A w \in S : rank[u] <= rank[w]
  <2> DEFINE ranks == {rank[w] : w \in S}
  <2>1. ranks \in SUBSET Nat /\ ranks # {}
    BY DEF ArgumentsFirst
  <2>2. \A w \in S : rank[w] \in ranks
    OBVIOUS
  <2>3. \A n \in ranks : \E u \in S : n = rank[u]
    OBVIOUS
  <2> HIDE DEF ranks
  <2>4. PICK n \in ranks : \A m \in ranks : n <= m
    BY <2>1, LeastNumber
  <2> QED BY <2>2, <2>3, <2>4
<1>2. CASE IsVariable(u)
  <2>1. bindings = << >> /\ DOMAIN << >> = {}
    BY DEF Init
  <2> QED BY <1>2, <2>1 DEF Children
<1>3. CASE ~IsVariable(u)
  <2>1. ASSUME NEW k \in DOMAIN Args(u), Args(u)[k] \in S
        PROVE  FALSE
    <3>1. rank[Args(u)[k]] < rank[u]
      BY DEF ArgumentsFirst
    <3>2. rank[u] <= rank[Args(u)[k]]
      BY <1>1, <2>1
    <3>3. rank[u] \in Nat /\ rank[Args(u)[k]] \in Nat
      BY <2>1 DEF ArgumentsFirst
    <3> QED BY <3>1, <3>2, <3>3
  <2> QED BY <1>3, <2>1 DEF Children
<1> QED BY <1>2, <1>3

\* When a variable is bound to a term from which it is not reached, a set
\* without a childless member, cut down to what is reached from the term, would
\* have been one before.
LEMMA BindKeepsAcyclic ==
  ASSUME TypeOK, Acyclic, NEW v \in TermId, NEW t \in TermId, IsVariable(v),
         v \notin DOMAIN bindings, bind(v, t),
         NEW D \in SUBSET TermId, v \notin D, t \in D, \A u \in D : Children(u) \subseteq D
  PROVE  Acyclic'
<1>0. /\ DOMAIN bindings' = DOMAIN bindings \cup {v} /\ bindings'[v] = t
      /\ \A w \in DOMAIN bindings : bindings'[w] = bindings[w]
  BY BindAdds
<1>1. ASSUME NEW u, u # v
      PROVE  Children(u)' = Children(u)
  <2>1. {u} \cap DOMAIN bindings' = {u} \cap DOMAIN bindings
    BY <1>0, <1>1
  <2>2. \A w \in {u} \cap DOMAIN bindings : bindings'[w] = bindings[w]
    BY <1>0
  <2>3. {bindings'[w] : w \in {u} \cap DOMAIN bindings'} = {bindings[w] : w \in {u} \cap DOMAIN bindings}
    BY <2>1, <2>2
  <2> QED BY <2>3 DEF Children
<1>2. Children(v)' = {t}
  <2>1. {v} \cap DOMAIN bindings' = {v}
    BY <1>0
  <2>2. {bindings'[w] : w \in {v} \cap DOMAIN bindings'} = {t}
    BY <1>0, <2>1
  <2> QED BY <2>2 DEF Children
<1> SUFFICES ASSUME NEW S \in SUBSET TermId, S # {},
                    \A u \in S : Children(u)' \cap S # {}
             PROVE  FALSE
  BY DEF Acyclic
<1>3. t \in S
  <2>1. CASE v \in S
    BY <1>2, <2>1
  <2>2. CASE v \notin S
    <3>1. \A u \in S : Children(u) \cap S # {}
      BY <1>1, <2>2
    <3> QED BY <3>1 DEF Acyclic
  <2> QED BY <2>1, <2>2
<1>4. PICK u \in S \cap D : Children(u) \cap (S \cap D) = {}
  <2>1. S \cap D # {} /\ S \cap D \in SUBSET TermId
    BY <1>3
  <2> QED BY <2>1 DEF Acyclic
<1>5. Children(u)' = Children(u) /\ Children(u) \subseteq D
  BY <1>1
<1> QED BY <1>4, <1>5

\* Replacing the first term to look into by others loses no other.
LEMMA InspectedHead ==
  ASSUME inspect \in Seq(TermId), inspect # <<>>, NEW new \in Seq(TermId),
         inspect' = new \o Tail(inspect)
  PROVE  /\ Inspected \subseteq {Head(inspect)} \cup Inspected'
         /\ {new[k] : k \in DOMAIN new} \subseteq Inspected'
<1>1. PICK n \in Nat, tail \in Seq(TermId) :
           /\ DOMAIN inspect = 1..(n + 1) /\ Head(inspect) = inspect[1]
           /\ tail = Tail(inspect) /\ DOMAIN tail = 1..n /\ Len(tail) = n
           /\ \A k \in 1..n : tail[k] = inspect[k + 1]
  <2>1. /\ Len(inspect) \in Nat \ {0} /\ DOMAIN inspect = 1..Len(inspect)
        /\ Head(inspect) = inspect[1]
    OBVIOUS
  <2>2. Len(inspect) - 1 \in Nat /\ (Len(inspect) - 1) + 1 = Len(inspect)
    BY <2>1
  <2>3. Tail(inspect) \in Seq(TermId) /\ Len(Tail(inspect)) = Len(inspect) - 1
    OBVIOUS
  <2>4. DOMAIN Tail(inspect) = 1..(Len(inspect) - 1)
    BY <2>1, <2>3
  <2>5. \A k \in 1..(Len(inspect) - 1) : Tail(inspect)[k] = inspect[k + 1]
    BY <2>1
  <2> QED BY <2>1, <2>2, <2>3, <2>4, <2>5
<1>2. PICK m \in Nat : m = Len(new) /\ DOMAIN new = 1..m
  OBVIOUS
<1>3. /\ DOMAIN inspect' = 1..(m + n)
      /\ \A k \in 1..m : inspect'[k] = new[k]
      /\ \A k \in 1..n : inspect'[m + k] = tail[k]
  <2>1. inspect' = new \o tail
    BY <1>1
  <2>2. DOMAIN inspect' = 1..(m + n) /\ \A k \in 1..m : inspect'[k] = new[k]
    BY <1>1, <1>2, <2>1
  <2>3. ASSUME NEW k \in 1..n
        PROVE  inspect'[m + k] = tail[k]
    <3>1. m + k \in 1..(m + n) /\ ~(m + k <= m) /\ (m + k) - m = k
      OBVIOUS
    <3>2. \A i \in 1..(m + n) : inspect'[i] = IF i <= m THEN new[i] ELSE tail[i - m]
      BY <1>1, <1>2, <2>1
    <3> QED BY <3>1, <3>2
  <2> QED BY <2>2, <2>3
<1>4. ASSUME NEW k \in 1..(n + 1)
      PROVE  inspect[k] \in {Head(inspect)} \cup Inspected'
  <2>1. CASE k = 1
    BY <1>1, <2>1
  <2>2. CASE k # 1
    <3>1. k - 1 \in 1..n /\ (k - 1) + 1 = k /\ m + (k - 1) \in 1..(m + n)
      BY <2>2
    <3>2. inspect'[m + (k - 1)] = inspect[k]
      BY <1>1, <1>3, <3>1
    <3> QED BY <1>3, <3>1, <3>2 DEF Inspected
  <2> QED BY <2>1, <2>2
<1>5. ASSUME NEW k \in 1..m
      PROVE  new[k] \in Inspected'
  <2>1. k \in 1..(m + n)
    OBVIOUS
  <2> QED BY <1>3, <2>1 DEF Inspected
<1>6. Inspected \subseteq {Head(inspect)} \cup Inspected'
  BY <1>1, <1>4 DEF Inspected
<1> QED BY <1>2, <1>5, <1>6

\* One call of occursIn() that does not find the variable.
LEMMA LookedIntoHead ==
  ASSUME TypeOK, pc = "occurs", inspect # <<>>, NEW D \in SUBSET TermId, LookedInto(D),
         Head(inspect) # Oriented[1], NEW new \in Seq(TermId),
         inspect' = new \o Tail(inspect), UNCHANGED <<bindings, agenda>>,
         Children(Head(inspect)) \subseteq {new[k] : k \in DOMAIN new}
  PROVE  \E E \in SUBSET TermId : LookedInto(E)'
<1>1. Head(inspect) \in TermId /\ inspect \in Seq(TermId)
  BY DEF TypeOK
<1>2. /\ Inspected \subseteq {Head(inspect)} \cup Inspected'
      /\ {new[k] : k \in DOMAIN new} \subseteq Inspected'
  BY <1>1, InspectedHead
<1>3. Oriented' = Oriented /\ \A u : Children(u)' = Children(u)
  BY ChildrenSame DEF Oriented, t1, t2
<1>4. PICK E \in SUBSET TermId : E = D \cup {Head(inspect)}
  BY <1>1
<1>5. Oriented[1] \notin E /\ Oriented[2] \in E \cup Inspected'
  BY <1>2, <1>4 DEF LookedInto
<1>6. ASSUME NEW u \in E
      PROVE  Children(u) \subseteq E \cup Inspected'
  <2>1. CASE u \in D
    BY <1>2, <1>4, <2>1 DEF LookedInto
  <2>2. CASE u = Head(inspect)
    BY <1>2, <2>2
  <2> QED BY <1>4, <2>1, <2>2
<1>7. LookedInto(E)'
  BY <1>3, <1>5, <1>6 DEF LookedInto
<1> QED BY <1>7

\* Every step keeps the graph acyclic under the occurs check.
LEMMA OccursStep == TypeOK /\ OccursInv /\ [Next]_vars => OccursInv'
<1> SUFFICES ASSUME TypeOK, OccursInv, [Next]_vars PROVE OccursInv'
  OBVIOUS
<1>1. CASE UNCHANGED <<problem, bindings>> /\ pc' # "occurs"
  BY <1>1, ChildrenSame DEF OccursInv, OccursCheck
<1>2. CASE Bind
  BY <1>2 DEF Bind, Resolved, OccursInv, OccursCheck
<1>3. CASE StartOccursCheck
  <2>1. UNCHANGED <<problem, bindings, agenda>> /\ OccursCheck /\ inspect' = <<Oriented[2]>>
    BY <1>3 DEF StartOccursCheck
  <2>2. Acyclic' /\ OccursCheck'
    BY <2>1, ChildrenSame DEF OccursInv, OccursCheck
  <2>3. Oriented' = Oriented
    BY <2>1 DEF Oriented, t1, t2
  <2>4. Oriented[2] \in Inspected'
    BY <2>1 DEF Inspected
  <2>5. LookedInto({})'
    BY <2>3, <2>4 DEF LookedInto
  <2> QED BY <2>2, <2>5 DEF OccursInv
<1>4. CASE OccursWalk
  <2> DEFINE u == Head(inspect)
  <2>1. /\ pc = "occurs" /\ pc' = "occurs" /\ inspect # <<>> /\ IsBound(u)
        /\ inspect' = <<bindings[u]>> \o Tail(inspect)
        /\ UNCHANGED <<problem, bindings, agenda>>
    BY <1>4 DEF OccursWalk
  <2>2. bindings[u] \in TermId /\ Children(u) = {bindings[u]}
    BY <2>1 DEF IsBound, TypeOK, Children
  <2>3. u # Oriented[1]
    BY <2>1, OrientedPair DEF TypeOK, IsBound
  <2>4. /\ <<bindings[u]>> \in Seq(TermId)
        /\ {bindings[u]} = {<<bindings[u]>>[k] : k \in DOMAIN <<bindings[u]>>}
    BY <2>2
  <2>5. PICK D \in SUBSET TermId : LookedInto(D)
    BY <2>1 DEF OccursInv
  <2> HIDE DEF u
  <2>6. \E E \in SUBSET TermId : LookedInto(E)'
    BY <2>1, <2>2, <2>3, <2>4, <2>5, LookedIntoHead DEF u
  <2>7. Acyclic' /\ OccursCheck'
    BY <2>1, ChildrenSame DEF OccursInv, OccursCheck
  <2> QED BY <2>6, <2>7 DEF OccursInv
<1>5. CASE OccursDescend
  <2> DEFINE u == Head(inspect)
             parts == IF IsVariable(u) THEN <<>> ELSE Args(u)
  <2>1. /\ pc = "occurs" /\ pc' = "occurs" /\ inspect # <<>> /\ ~IsBound(u) /\ u # Oriented[1]
        /\ inspect' = parts \o Tail(inspect)
        /\ UNCHANGED <<problem, bindings, agenda>>
    BY <1>5 DEF OccursDescend
  <2>2. u \in TermId /\ parts \in Seq(TermId)
    BY <2>1, BankTyped DEF TypeOK
  <2>3. Children(u) \subseteq {parts[k] : k \in DOMAIN parts}
    BY <2>1 DEF Children, IsBound
  <2>4. PICK D \in SUBSET TermId : LookedInto(D)
    BY <2>1 DEF OccursInv
  <2> HIDE DEF u, parts
  <2>5. \E E \in SUBSET TermId : LookedInto(E)'
    BY <2>1, <2>2, <2>3, <2>4, LookedIntoHead DEF u
  <2>6. Acyclic' /\ OccursCheck'
    BY <2>1, ChildrenSame DEF OccursInv, OccursCheck
  <2> QED BY <2>5, <2>6 DEF OccursInv
<1>6. CASE OccursNowhere
  <2>1. /\ pc = "occurs" /\ pc' = "unify" /\ inspect = <<>> /\ problem' = problem
        /\ bind(Oriented[1], Oriented[2])
    BY <1>6 DEF OccursNowhere
  <2>2. PICK D \in SUBSET TermId : LookedInto(D)
    BY <2>1 DEF OccursInv
  <2>3. Inspected = {}
    BY <2>1 DEF Inspected
  <2>4. /\ Oriented[1] \in TermId /\ Oriented[2] \in TermId /\ IsVariable(Oriented[1])
        /\ Oriented[1] \notin DOMAIN bindings
    BY <2>1, OrientedPair DEF TypeOK
  <2>5. Acyclic
    BY <2>1 DEF OccursInv
  <2>6. Acyclic'
    BY <2>1, <2>2, <2>3, <2>4, <2>5, BindKeepsAcyclic DEF LookedInto
  <2> QED BY <2>1, <2>6 DEF OccursInv
<1>7. CASE UNCHANGED vars
  <2>1. UNCHANGED <<problem, bindings, agenda, inspect, pc>>
    BY <1>7 DEF vars
  <2>2. OccursCheck' = OccursCheck /\ Oriented' = Oriented /\ Inspected' = Inspected
    BY <2>1 DEF OccursCheck, Oriented, t1, t2, Inspected
  <2>3. (\A u : Children(u)' = Children(u)) /\ (Acyclic' <=> Acyclic)
    BY <2>1, ChildrenSame
  <2>4. \A D \in SUBSET TermId : LookedInto(D) => LookedInto(D)'
    BY <2>2, <2>3 DEF LookedInto
  <2> QED BY <2>1, <2>2, <2>3, <2>4 DEF OccursInv
<1>8. ASSUME Call \/ Walk \/ Same \/ Clash \/ Decompose \/ Succeed \/ OccursFound
      PROVE  UNCHANGED <<problem, bindings>> /\ pc' # "occurs"
  BY <1>8 DEF Call, Walk, Same, Clash, Decompose, Succeed, OccursFound, Fail, Resolved
<1> QED BY <1>1, <1>2, <1>3, <1>4, <1>5, <1>6, <1>7, <1>8 DEF Next, unify, occursIn

\* The tree build makes for a term whose arguments read as g says.
Built(build, g, t) == build[<<Symbol(t), [k \in DOMAIN Args(t) |-> g[Args(t)[k]]]>>]

\* Grounding leaves out no way to read the terms as the trees that build makes,
\* for any trees the variables are read as.
AllReadings(Tree, build) ==
  /\ Tree # {}
  /\ build \in [{Symbol(t) : t \in TermId} \X Seq(Tree) -> Tree]
  /\ \A g \in [TermId -> Tree] :
       (\A t \in TermId : ~IsVariable(t) => g[t] = Built(build, g, t)) => g \in Grounding

\* g reads the terms of D, and all that is below them, under the bindings.
Reads(Tree, build, D, g) ==
  /\ g \in [D -> Tree]
  /\ \A t \in D : /\ Children(t) \subseteq D
                  /\ t \in DOMAIN bindings => g[t] = g[bindings[t]]
                  /\ ~IsVariable(t) => g[t] = Built(build, g, t)

\* build makes a tree from trees.
LEMMA BuiltTyped ==
  ASSUME TypeOK, NEW Tree, NEW build, AllReadings(Tree, build), NEW D \in SUBSET TermId,
         NEW g \in [D -> Tree], NEW u \in TermId, ~IsVariable(u), Children(u) \subseteq D
  PROVE  Built(build, g, u) \in Tree
<1>1. Args(u) \in Seq(TermId) /\ \A k \in DOMAIN Args(u) : Args(u)[k] \in D
  BY BankTyped DEF Children
<1>2. PICK n \in Nat : n = Len(Args(u)) /\ DOMAIN Args(u) = 1..n
  BY <1>1
<1>3. [k \in DOMAIN Args(u) |-> g[Args(u)[k]]] \in Seq(Tree)
  <2>1. \A k \in 1..n : g[Args(u)[k]] \in Tree
    BY <1>1, <1>2
  <2> QED BY <1>2, <2>1
<1> QED BY <1>3 DEF Built, AllReadings

\* A term all of whose children have been read can be read too.
LEMMA ReadOneMore ==
  ASSUME TypeOK, NEW Tree, NEW build, AllReadings(Tree, build),
         NEW D \in SUBSET TermId, NEW g, Reads(Tree, build, D, g),
         NEW u \in TermId, u \notin D, Children(u) \subseteq D
  PROVE  \E h : Reads(Tree, build, D \cup {u}, h)
<1>1. PICK tree \in Tree : /\ u \in DOMAIN bindings => tree = g[bindings[u]]
                           /\ ~IsVariable(u) => tree = Built(build, g, u)
  <2>1. CASE u \in DOMAIN bindings
    <3>1. IsVariable(u) /\ bindings[u] \in D
      BY <2>1 DEF TypeOK, Children
    <3>2. g[bindings[u]] \in Tree
      BY <3>1 DEF Reads
    <3> QED BY <3>1, <3>2
  <2>2. CASE ~IsVariable(u)
    <3>1. Built(build, g, u) \in Tree
      BY <2>2, BuiltTyped DEF Reads
    <3>2. u \notin DOMAIN bindings
      BY <2>2 DEF TypeOK
    <3> QED BY <2>2, <3>1, <3>2
  <2>3. CASE u \notin DOMAIN bindings /\ IsVariable(u)
    BY <2>3 DEF AllReadings
  <2> QED BY <2>1, <2>2, <2>3
<1>2. PICK h : h = [t \in D \cup {u} |-> IF t = u THEN tree ELSE g[t]]
  OBVIOUS
<1>3. h \in [D \cup {u} -> Tree] /\ h[u] = tree /\ \A t \in D : h[t] = g[t]
  BY <1>2 DEF Reads
<1>4. ASSUME NEW t \in TermId, ~IsVariable(t), Children(t) \subseteq D
      PROVE  Built(build, h, t) = Built(build, g, t)
  <2>1. \A k \in DOMAIN Args(t) : h[Args(t)[k]] = g[Args(t)[k]]
    BY <1>3, <1>4 DEF Children
  <2> QED BY <2>1 DEF Built
<1>5. ASSUME NEW t \in DOMAIN bindings, Children(t) \subseteq D
      PROVE  bindings[t] \in D /\ h[bindings[t]] = g[bindings[t]]
  BY <1>3, <1>5 DEF Children, TypeOK
<1>6. ASSUME NEW t \in D \cup {u}
      PROVE  /\ Children(t) \subseteq D \cup {u}
             /\ t \in DOMAIN bindings => h[t] = h[bindings[t]]
             /\ ~IsVariable(t) => h[t] = Built(build, h, t)
  <2>1. CASE t = u
    BY <1>1, <1>3, <1>4, <1>5, <2>1
  <2>2. CASE t \in D
    <3>1. /\ Children(t) \subseteq D
          /\ t \in DOMAIN bindings => g[t] = g[bindings[t]]
          /\ ~IsVariable(t) => g[t] = Built(build, g, t)
      BY <2>2 DEF Reads
    <3> QED BY <1>3, <1>4, <1>5, <2>2, <3>1
  <2> QED BY <2>1, <2>2
<1>7. Reads(Tree, build, D \cup {u}, h)
  BY <1>3, <1>6 DEF Reads
<1> QED BY <1>7

\* Acyclic bindings of a finite bank have a solution: a reading of most terms
\* reads them all.
LEMMA AcyclicHasSolution ==
  ASSUME TypeOK, Acyclic, IsFiniteSet(TermId), NEW Tree, NEW build, AllReadings(Tree, build)
  PROVE  \E g \in Grounding : SatisfiesBindings(g)
<1> DEFINE Readable == {D \in SUBSET TermId : \E g : Reads(Tree, build, D, g)}
           unread   == {Cardinality(TermId \ D) : D \in Readable}
<1>1. \A D \in SUBSET TermId : IsFiniteSet(TermId \ D) /\ Cardinality(TermId \ D) \in Nat
  <2> SUFFICES ASSUME NEW D \in SUBSET TermId
               PROVE  IsFiniteSet(TermId \ D) /\ Cardinality(TermId \ D) \in Nat
    OBVIOUS
  <2>1. IsFiniteSet(TermId \ D)
    BY FS_Subset
  <2> QED BY <2>1, FS_CardinalityType
<1>2. {} \in Readable
  <2>1. PICK g : g = [t \in {} |-> t]
    OBVIOUS
  <2>2. Reads(Tree, build, {}, g)
    BY <2>1 DEF Reads
  <2> QED BY <2>2
<1>3. PICK D \in Readable : \A E \in Readable : Cardinality(TermId \ D) <= Cardinality(TermId \ E)
  <2>1. unread \in SUBSET Nat /\ unread # {}
    BY <1>1, <1>2
  <2>2. \A E \in Readable : Cardinality(TermId \ E) \in unread
    OBVIOUS
  <2>3. \A n \in unread : \E E \in Readable : n = Cardinality(TermId \ E)
    OBVIOUS
  <2> HIDE DEF unread, Readable
  <2>4. PICK n \in unread : \A m \in unread : n <= m
    BY <2>1, LeastNumber
  <2> QED BY <2>2, <2>3, <2>4
<1>4. PICK g : Reads(Tree, build, D, g)
  OBVIOUS
<1>5. TermId \subseteq D
  <2> SUFFICES ASSUME TermId \ D # {} PROVE FALSE
    OBVIOUS
  <2>1. PICK u \in TermId \ D : Children(u) \cap (TermId \ D) = {}
    BY DEF Acyclic
  <2>2. Children(u) \subseteq D
    BY <2>1, ChildrenTyped
  <2>3. \E h : Reads(Tree, build, D \cup {u}, h)
    BY <1>4, <2>2, ReadOneMore
  <2>4. D \cup {u} \in Readable
    BY <2>3
  <2>5. PICK rest : rest = TermId \ D
    OBVIOUS
  <2>6. TermId \ (D \cup {u}) = rest \ {u} /\ u \in rest
    BY <2>5
  <2>7. IsFiniteSet(rest) /\ Cardinality(rest) \in Nat
    BY <1>1, <2>5
  <2>8. Cardinality(rest \ {u}) = Cardinality(rest) - 1
    BY <2>6, <2>7, FS_RemoveElement
  <2>9. Cardinality(rest) <= Cardinality(rest \ {u})
    BY <1>3, <2>4, <2>5, <2>6
  <2> QED BY <2>7, <2>8, <2>9
<1>6. D = TermId
  BY <1>5
<1>7. g \in Grounding
  BY <1>4, <1>6 DEF AllReadings, Reads
<1>8. SatisfiesBindings(g)
  BY <1>4, <1>6 DEF SatisfiesBindings, Reads, TypeOK
<1> QED BY <1>7, <1>8

\* With the occurs check, a success of unify() always means that there is a
\* unifier, and not only an unending one: the check keeps what is bound acyclic,
\* for every finite bank in which the arguments of a term come before it.
THEOREM SuccessCorrect ==
  ASSUME IsFiniteSet(TermId), NEW rank, ArgumentsFirst(rank),
         NEW Tree, NEW build, AllReadings(Tree, build)
  PROVE  Spec => []SuccessIsUnifiable
<1>1. Init => OccursInv
  BY AcyclicInit DEF Init, OccursInv
<1>2. TypeOK /\ OccursInv /\ [Next]_vars => OccursInv'
  BY OccursStep
<1>3. TypeOK /\ OccursInv /\ SolutionsPreserved => SuccessIsUnifiable
  <2> SUFFICES ASSUME TypeOK, OccursInv, SolutionsPreserved, OccursCheck, pc = "done", result
               PROVE  Unifiable
    BY DEF SuccessIsUnifiable
  <2>1. PICK g \in Grounding : SatisfiesBindings(g)
    BY AcyclicHasSolution DEF OccursInv
  <2>2. agenda = <<>> /\ DOMAIN << >> = {}
    BY DEF TypeOK
  <2>3. Unifies(g, problem)
    BY <2>1, <2>2 DEF SolutionsPreserved
  <2> QED BY <2>3 DEF Unifiable
<1> QED BY <1>1, <1>2, <1>3, UnificationTypeCorrect, MostGeneral, PTL DEF Spec
=============================================================================
