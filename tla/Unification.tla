---------------------------- MODULE Unification ------------------------------
(***************************************************************************)
(* unify() of src/infer/unification.cc over a Substitution, on the terms   *)
(* of a term bank.  The bank is hash-consed, so a term is its id, and      *)
(* unify() creates none.  Its recursion is unfolded into steps: agenda     *)
(* holds the calls that are still to be made, the current one first, and   *)
(* inspect the calls of occursIn(); the loops of Substitution::resolve     *)
(* are taken link by link.  That the loops end is then something to prove. *)
(***************************************************************************)
EXTENDS Integers, Sequences

CONSTANTS
  TermId,          \* the terms in the bank
  Symbol(_),       \* Term::symbol_id_
  Args(_),         \* Term::args_
  IsVariable(_),   \* TermBank::isVariable
  Problems,        \* the arguments unify() is called with: two terms and its config
  Grounding,       \* ways to read every term as a finite tree
  Height(_)        \* of a tree

ASSUME BankTyped ==
  /\ \A t \in TermId : Args(t) \in Seq(TermId) /\ IsVariable(t) \in BOOLEAN
  /\ Problems \subseteq TermId \X TermId \X BOOLEAN

\* A grounding replaces the variables and keeps all else: terms are equal as
\* trees iff their symbols and arguments are, and a tree is higher than its parts.
ASSUME TreesAreFree ==
  \A g \in Grounding :
    /\ \A s, t \in TermId : ~IsVariable(s) /\ ~IsVariable(t) =>
         (g[s] = g[t] <=> /\ Symbol(s) = Symbol(t) /\ Len(Args(s)) = Len(Args(t))
                          /\ \A k \in DOMAIN Args(s) : g[Args(s)[k]] = g[Args(t)[k]])
    /\ \A t \in TermId : Height(g[t]) \in Nat
    /\ \A t \in TermId : ~IsVariable(t) =>
         \A k \in DOMAIN Args(t) : Height(g[Args(t)[k]]) < Height(g[t])

VARIABLES
  problem,    \* the arguments of the outermost call
  bindings,   \* Substitution::bindings_
  agenda,     \* pairs still to be unified
  inspect,    \* terms occursIn() still has to look into
  pc,         \* "idle", "unify", "occurs" or "done"
  result

vars == <<problem, bindings, agenda, inspect, pc, result>>

-----------------------------------------------------------------------------
\* UnificationConfig::enable_occurs_check_
OccursCheck == problem[3]

t1 == Head(agenda)[1]
t2 == Head(agenda)[2]

IsBound(t) == IsVariable(t) /\ t \in DOMAIN bindings

\* Mutant: the pair is not turned round for a variable on the right.
OrientedAsGiven == <<t1, t2>>

\* The pair as bind() will take it: the variable first.
Oriented == IF IsVariable(t1) THEN <<t1, t2>> ELSE <<t2, t1>>

bind(var, term) ==
  bindings' = [v \in DOMAIN bindings \cup {var} |->
                 IF v \in DOMAIN bindings THEN bindings[v] ELSE term]

Init ==
  /\ problem \in Problems
  /\ bindings = <<>> /\ agenda = <<>> /\ inspect = <<>>
  /\ pc = "idle" /\ result = FALSE

Call ==
  /\ pc = "idle"
  /\ agenda' = <<<<problem[1], problem[2]>>>> /\ pc' = "unify"
  /\ UNCHANGED <<problem, bindings, inspect, result>>

\* One link of resolve(t1), then of resolve(t2).
Walk ==
  /\ pc = "unify" /\ agenda # <<>>
  /\ \/ /\ IsBound(t1)
        /\ agenda' = <<<<bindings[t1], t2>>>> \o Tail(agenda)
     \/ /\ ~IsBound(t1) /\ IsBound(t2)
        /\ agenda' = <<<<t1, bindings[t2]>>>> \o Tail(agenda)
  /\ UNCHANGED <<problem, bindings, inspect, pc, result>>

\* Mutant: the right-hand term is not resolved.
LeftResolved == pc = "unify" /\ agenda # <<>> /\ ~IsBound(t1)

Resolved == pc = "unify" /\ agenda # <<>> /\ ~IsBound(t1) /\ ~IsBound(t2)

Same ==
  /\ Resolved /\ t1 = t2
  /\ agenda' = Tail(agenda)
  /\ UNCHANGED <<problem, bindings, inspect, pc, result>>

Bind ==
  /\ Resolved /\ t1 # t2 /\ (IsVariable(t1) \/ IsVariable(t2))
  /\ ~OccursCheck
  /\ bind(Oriented[1], Oriented[2])
  /\ agenda' = Tail(agenda)
  /\ UNCHANGED <<problem, inspect, pc, result>>

StartOccursCheck ==
  /\ Resolved /\ t1 # t2 /\ (IsVariable(t1) \/ IsVariable(t2))
  /\ OccursCheck
  /\ inspect' = <<Oriented[2]>> /\ pc' = "occurs"
  /\ UNCHANGED <<problem, bindings, agenda, result>>

Fail == pc' = "done" /\ result' = FALSE

Clash ==
  /\ Resolved /\ t1 # t2 /\ ~IsVariable(t1) /\ ~IsVariable(t2)
  /\ Symbol(t1) # Symbol(t2) \/ Len(Args(t1)) # Len(Args(t2))
  /\ Fail
  /\ UNCHANGED <<problem, bindings, agenda, inspect>>

ArgPairs(s, t) == [k \in DOMAIN Args(s) |-> <<Args(s)[k], Args(t)[k]>>]

\* Mutant: the outer loop over arguments ends with the inner one.
DecomposeInnermost ==
  /\ Resolved /\ t1 # t2 /\ ~IsVariable(t1) /\ ~IsVariable(t2)
  /\ Symbol(t1) = Symbol(t2) /\ Len(Args(t1)) = Len(Args(t2))
  /\ agenda' = ArgPairs(t1, t2)
  /\ UNCHANGED <<problem, bindings, inspect, pc, result>>

Decompose ==
  /\ Resolved /\ t1 # t2 /\ ~IsVariable(t1) /\ ~IsVariable(t2)
  /\ Symbol(t1) = Symbol(t2) /\ Len(Args(t1)) = Len(Args(t2))
  /\ agenda' = ArgPairs(t1, t2) \o Tail(agenda)
  /\ UNCHANGED <<problem, bindings, inspect, pc, result>>

Succeed ==
  /\ pc = "unify" /\ agenda = <<>>
  /\ pc' = "done" /\ result' = TRUE
  /\ UNCHANGED <<problem, bindings, agenda, inspect>>

-----------------------------------------------------------------------------
(* occursIn(var, term), for the variable of the current pair *)

\* Mutant: occursIn() does not look through a bound variable.
OccursStopsAtBound ==
  /\ pc = "occurs" /\ inspect # <<>> /\ IsBound(Head(inspect))
  /\ inspect' = Tail(inspect)
  /\ UNCHANGED <<problem, bindings, agenda, pc, result>>

OccursWalk ==
  /\ pc = "occurs" /\ inspect # <<>> /\ IsBound(Head(inspect))
  /\ inspect' = <<bindings[Head(inspect)]>> \o Tail(inspect)
  /\ UNCHANGED <<problem, bindings, agenda, pc, result>>

OccursFound ==
  /\ pc = "occurs" /\ inspect # <<>> /\ ~IsBound(Head(inspect))
  /\ Head(inspect) = Oriented[1]
  /\ Fail
  /\ UNCHANGED <<problem, bindings, agenda, inspect>>

\* An unbound variable has no arguments.
OccursDescend ==
  /\ pc = "occurs" /\ inspect # <<>> /\ ~IsBound(Head(inspect))
  /\ Head(inspect) # Oriented[1]
  /\ inspect' = (IF IsVariable(Head(inspect)) THEN <<>> ELSE Args(Head(inspect))) \o Tail(inspect)
  /\ UNCHANGED <<problem, bindings, agenda, pc, result>>

OccursNowhere ==
  /\ pc = "occurs" /\ inspect = <<>>
  /\ bind(Oriented[1], Oriented[2])
  /\ agenda' = Tail(agenda) /\ pc' = "unify"
  /\ UNCHANGED <<problem, inspect, result>>

unify == \/ Walk \/ Same \/ Bind \/ StartOccursCheck \/ Clash \/ Decompose \/ Succeed
occursIn == OccursWalk \/ OccursFound \/ OccursDescend \/ OccursNowhere

Next == Call \/ unify \/ occursIn

Spec == Init /\ [][Next]_vars /\ WF_vars(Next)

-----------------------------------------------------------------------------
(* Properties *)

\* The type invariant: what is pending and what is bound are terms of the bank,
\* only variables are bound, and the occurs check is made for a variable.
TypeOK ==
  /\ problem \in Problems
  /\ bindings \in [DOMAIN bindings -> TermId]
  /\ \A v \in DOMAIN bindings : v \in TermId /\ IsVariable(v)
  /\ agenda \in Seq(TermId \X TermId)
  /\ inspect \in Seq(TermId)
  /\ pc \in {"idle", "unify", "occurs", "done"} /\ result \in BOOLEAN
  /\ pc = "occurs" => /\ agenda # <<>> /\ t1 # t2 /\ ~IsBound(t1) /\ ~IsBound(t2)
                      /\ IsVariable(t1) \/ IsVariable(t2)
  /\ pc = "done" /\ result => agenda = <<>>

Unifies(g, pair) == g[pair[1]] = g[pair[2]]

SatisfiesBindings(g) == \A v \in DOMAIN bindings : g[v] = g[bindings[v]]

\* What the call was made for is at every moment equivalent to the bindings made
\* and the pairs left.  So when unify() succeeds, the bindings have exactly the
\* solutions of the problem (they are a unifier, and a most general one), and
\* when it fails, there are none; with the occurs check and without.
SolutionsPreserved ==
  /\ pc \in {"unify", "occurs"} \/ (pc = "done" /\ result) =>
       \A g \in Grounding :
         Unifies(g, problem) <=>
           SatisfiesBindings(g) /\ \A k \in DOMAIN agenda : Unifies(g, agenda[k])
  /\ pc = "done" /\ ~result => \A g \in Grounding : ~Unifies(g, problem)

\* resolve() never walks in a circle: no set of variables is bound within itself.
VariableChainsEnd ==
  \A S \in SUBSET DOMAIN bindings : S # {} => \E v \in S : bindings[v] \notin S

Unifiable == \E g \in Grounding : Unifies(g, problem)

\* With the occurs check success means that there is a unifier.
SuccessIsUnifiable == OccursCheck /\ pc = "done" /\ result => Unifiable

\* unify() returns: always with the occurs check, and without it at least on
\* terms that have a unifier.
UnifyReturns == (OccursCheck \/ Unifiable) ~> pc = "done"
=============================================================================
