------------------------ MODULE SubstituteProperties -------------------------
(***************************************************************************)
(* What renameVariables() and applySubstitution() of module Substitute     *)
(* have to guarantee.                                                      *)
(***************************************************************************)
EXTENDS Substitute

Returned == pc = "idle" /\ operation # "none" /\ Len(output) = Len(input)

\* No set of variables is bound to terms that all contain one of it.
Acyclic ==
  \A S \in SUBSET DOMAIN bindings : S # {} =>
    \E v \in S : collectVariables(<<bindings[v]>>) \cap S = {}

\* The tree of a term with every variable replaced by what it is bound to, through
\* all chains.
Instances ==
  LET Instance[t \in DOMAIN terms] ==
        IF t \in DOMAIN bindings /\ isVariable(t) THEN Instance[bindings[t]]
        ELSE [head  |-> infos[terms[t].symbol],
              parts |-> [k \in DOMAIN terms[t].args |-> Instance[terms[t].args[k]]]]
  IN  [t \in DOMAIN terms |-> Instance[t]]

\* architecture.md, 4.3: the result of applying a substitution is the instance of
\* the term, and no variable in it is bound, so that applying it again changes
\* nothing.  Sharing unchanged terms makes no difference to that.
AppliedIsInstance ==
  Returned /\ Acyclic =>
    /\ \A k \in DOMAIN input : Trees[output[k]] = Instances[input[k]]
    /\ collectVariables(output) \cap DOMAIN bindings = {}

\* resolution.h: "Rename all variables in a clause to fresh ones, avoiding
\* conflicts with variables already in the bank".  Different variables get
\* different names, of which none was in the bank when the call was made; until
\* the counter has handed out every name once.
RenamedApart ==
  operation = "rename" /\ freshened <= CounterMod =>
    /\ \A v \in DOMAIN bindings : bindings[v] > known
    /\ \A v, w \in DOMAIN bindings : bindings[v] = bindings[w] => v = w
    /\ Returned => collectVariables(output) \subseteq {bindings[v] : v \in DOMAIN bindings}

\* applySubstitution returns if no variable is bound to a term it occurs in, which
\* the occurs check sees to.
ApplyReturns == pc # "idle" /\ Acyclic ~> pc \in {"idle", "thrown"}
=============================================================================
