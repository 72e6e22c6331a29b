----------------------------- MODULE Substitute ------------------------------
(***************************************************************************)
(* What resolve() and factor() do with a clause besides unification:       *)
(* renameVariables() of src/infer/resolution.cc and applySubstitution() of *)
(* src/infer/unification.cc, with its variant Substitution::apply(), over  *)
(* a TermBank.  The recursion of applySubstitution() is unfolded: stack    *)
(* holds the calls under way, the innermost first, term is what the next   *)
(* one is called with.  A clause is the sequence of its atoms.             *)
(***************************************************************************)
EXTENDS TermBank

CONSTANTS
  Symbols, Terms, \* infos_ and terms_ as the parser has left them
  Inputs,         \* the clauses of the problem
  FreshName(_),   \* "_R" + to_string(n)
  CounterMod,     \* 2^32: the width of the counter
  MaxDepth,       \* calls of applySubstitution() the machine stack holds
  MaxCalls,       \* bounds the model
  Bindable        \* which ids are bound to which (bounds the model)

VARIABLES
  clauses,        \* what can be an argument: the problem and what was made of it
  var_counter,    \* the static counter of resolve()
  operation, input,  \* the last call: "rename", "applySubstitution" or "apply"
  known,          \* how many terms there were when it was made
  freshened,      \* how many variables have been made
  bindings,       \* the Substitution
  unnamed,        \* variables that renameVariables() has not bound yet
  term, stack,    \* of applySubstitution()
  output,         \* the atoms made so far
  pc,             \* "idle", "rename", "atom", "resolve", "args" or "thrown"
  calls

args_of_call == <<operation, input, known>>
apply_state  == <<term, stack, output>>
vars == <<bank, clauses, var_counter, operation, input, known, freshened, bindings,
          unnamed, term, stack, output, pc, calls>>

NoTerm == 0

Members(seq) == {seq[k] : k \in DOMAIN seq}

SymbolIds == [n \in {s.name : s \in Members(Symbols)} |->
                CHOOSE i \in DOMAIN Symbols : Symbols[i].name = n]
TermIds   == [t \in Members(Terms) |-> CHOOSE i \in DOMAIN Terms : Terms[i] = t]

\* The problem is one the parser can have left: its tables are those of a bank.
ASSUME ProblemParsed ==
  /\ Symbols \in Seq(SymbolInfo)
  /\ \A i, j \in DOMAIN Symbols : Symbols[i].name = Symbols[j].name => i = j
  /\ Terms \in Seq([symbol : DOMAIN Symbols, args : Seq(DOMAIN Terms)])
  /\ \A i, j \in DOMAIN Terms : Terms[i] = Terms[j] => i = j
  /\ \A i \in DOMAIN Terms :
       /\ \A k \in DOMAIN Terms[i].args : Terms[i].args[k] < i
       /\ Symbols[Terms[i].symbol].arity = Len(Terms[i].args) % ArityMod
       /\ Symbols[Terms[i].symbol].kind # "kFunction" => Terms[i].args = <<>>
  /\ Inputs \subseteq Seq(DOMAIN Terms)

\* Different numbers make different names.  No variable of a problem has one of
\* them: its name begins with a capital (tptp_parser.cc, parseTerm).
ASSUME NamesFresh ==
  /\ CounterMod \in Nat \ {0}
  /\ \A n \in 0..(CounterMod - 1) :
       /\ FreshName(n) \in Name
       /\ \A m \in 0..(CounterMod - 1) : FreshName(m) = FreshName(n) => m = n
       /\ \A s \in Members(Symbols) : s.kind = "kVariable" => s.name # FreshName(n)

Init ==
  /\ infos = Symbols /\ name_to_id = SymbolIds
  /\ terms = Terms /\ term_to_id = TermIds
  /\ clauses = Inputs /\ var_counter = 0 /\ freshened = 0
  /\ operation = "none" /\ input = <<>> /\ known = Len(terms)
  /\ bindings = <<>> /\ unnamed = {} /\ term = NoTerm /\ stack = <<>> /\ output = <<>>
  /\ pc = "idle" /\ calls = 0

-----------------------------------------------------------------------------
(* renameVariables                                                          *)

collectVariables(c) ==
  LET In[id \in DOMAIN terms] ==
        IF isVariable(id) THEN {id} ELSE UNION {In[arg] : arg \in Members(terms[id].args)}
  IN  UNION {In[id] : id \in Members(c)}

Call(op, c) ==
  /\ pc = "idle" /\ calls < MaxCalls /\ calls' = calls + 1
  /\ operation' = op /\ input' = c /\ known' = Len(terms) /\ output' = <<>>

renameVariables(c) ==
  /\ Call("rename", c)
  /\ unnamed' = collectVariables(c) /\ bindings' = <<>>
  /\ pc' = IF unnamed' = {} THEN "idle" ELSE "rename"
  /\ UNCHANGED <<bank, clauses, var_counter, freshened, term, stack>>

\* Mutant of Freshen: one name for all variables of the clause.
FreshenTogether(v) ==
  /\ pc = "rename" /\ v \in unnamed
  /\ Variable(FreshName(var_counter))
  /\ bindings' = [w \in unnamed |-> IdOf(Term(SymbolOf(FreshName(var_counter)), <<>>))]
  /\ unnamed' = {}
  /\ var_counter' = (var_counter + 1) % CounterMod /\ freshened' = freshened + 1
  /\ UNCHANGED <<clauses, args_of_call, apply_state, pc, calls>>

\* In the order of a hash map, which is not specified.
Freshen(v) ==
  /\ pc = "rename" /\ v \in unnamed
  /\ Variable(FreshName(var_counter))
  /\ bindings' = Extend(bindings, v, IdOf(Term(SymbolOf(FreshName(var_counter)), <<>>)))
  /\ unnamed' = unnamed \ {v}
  /\ var_counter' = (var_counter + 1) % CounterMod /\ freshened' = freshened + 1
  /\ UNCHANGED <<clauses, args_of_call, apply_state, pc, calls>>

\* The counter has moved on when intern() throws; nobody in src/ catches it
\* before main() does.
FreshenThrows ==
  /\ pc = "rename" /\ unnamed # {}
  /\ Mismatch(FreshName(var_counter), "kVariable", 0)
  /\ var_counter' = (var_counter + 1) % CounterMod /\ pc' = "thrown"
  /\ UNCHANGED <<bank, clauses, args_of_call, apply_state, freshened, bindings, unnamed, calls>>

ApplyRenaming ==
  /\ pc = "rename" /\ unnamed = {}
  /\ pc' = "atom"
  /\ UNCHANGED <<bank, clauses, var_counter, args_of_call, apply_state, freshened,
                 bindings, unnamed, calls>>

-----------------------------------------------------------------------------
(* applySubstitution, and Substitution::apply when unchanged terms are shared *)

\* Every binding of variables, of the clause and others, chains of variables and
\* cycles through terms included, but no circle of variables: unify() makes none,
\* because it binds what resolve() has come to.
Unifiers ==
  LET pairs == {p \in Bindable : {p[1], p[2]} \subseteq DOMAIN terms /\ isVariable(p[1])}
  IN  {s \in UNION {[S -> {p[2] : p \in pairs}] : S \in SUBSET {p[1] : p \in pairs}} :
         /\ \A v \in DOMAIN s : <<v, s[v]>> \in pairs
         /\ \A S \in SUBSET DOMAIN s : S # {} => \E v \in S : s[v] \notin S}

ApplyUnifier(op, c, s) ==
  /\ Call(op, c)
  /\ bindings' = s /\ pc' = "atom"
  /\ UNCHANGED <<bank, clauses, var_counter, freshened, unnamed, term, stack>>

NextAtom ==
  /\ pc = "atom" /\ Len(output) < Len(input)
  /\ term' = input[Len(output) + 1] /\ pc' = "resolve"
  /\ UNCHANGED <<bank, clauses, var_counter, args_of_call, freshened, bindings,
                 unnamed, stack, output, calls>>

\* The value of the current call goes to the call that waits for an argument, or
\* to the clause.
Give(id, waiting) ==
  \/ /\ waiting = <<>>
     /\ output' = Append(output, id) /\ stack' = <<>> /\ pc' = "atom"
  \/ /\ waiting # <<>>
     /\ stack' = <<[Head(waiting) EXCEPT !.args = Append(@, id)]>> \o Tail(waiting)
     /\ pc' = "args" /\ UNCHANGED output

\* One link of Substitution::resolve().
Resolve ==
  /\ pc = "resolve" /\ term \in DOMAIN bindings /\ isVariable(term)
  /\ term' = bindings[term]
  /\ UNCHANGED <<bank, clauses, var_counter, args_of_call, freshened, bindings,
                 unnamed, stack, output, pc, calls>>

\* Mutant of FreeVariable: the walk does not stop at a variable without a binding.
FreeVariableLooping ==
  /\ pc = "resolve" /\ term \notin DOMAIN bindings /\ isVariable(term)
  /\ UNCHANGED vars

FreeVariable ==
  /\ pc = "resolve" /\ term \notin DOMAIN bindings /\ isVariable(term)
  /\ Give(term, stack)
  /\ UNCHANGED <<bank, clauses, var_counter, args_of_call, freshened, bindings,
                 unnamed, term, calls>>

\* Beyond MaxDepth calls the program ends for want of stack.
Enter ==
  /\ pc = "resolve" /\ ~isVariable(term) /\ Len(stack) < MaxDepth
  /\ stack' = <<[term |-> term, args |-> <<>>]>> \o stack
  /\ pc' = "args"
  /\ UNCHANGED <<bank, clauses, var_counter, args_of_call, freshened, bindings,
                 unnamed, term, output, calls>>

Frame    == Head(stack)
OldArgs  == terms[Frame.term].args

NextArgument ==
  /\ pc = "args" /\ Len(Frame.args) < Len(OldArgs)
  /\ term' = OldArgs[Len(Frame.args) + 1] /\ pc' = "resolve"
  /\ UNCHANGED <<bank, clauses, var_counter, args_of_call, freshened, bindings,
                 unnamed, stack, output, calls>>

\* Mutant of ShareTerm: sharing is decided by the last argument.
ShareByLastArgument ==
  /\ pc = "args" /\ Len(Frame.args) = Len(OldArgs)
  /\ operation = "apply" /\ (OldArgs # <<>> => Frame.args[Len(OldArgs)] = OldArgs[Len(OldArgs)])
  /\ Give(Frame.term, Tail(stack))
  /\ UNCHANGED <<bank, clauses, var_counter, args_of_call, freshened, bindings,
                 unnamed, term, calls>>

ShareTerm ==
  /\ pc = "args" /\ operation = "apply" /\ Frame.args = OldArgs
  /\ Give(Frame.term, Tail(stack))
  /\ UNCHANGED <<bank, clauses, var_counter, args_of_call, freshened, bindings,
                 unnamed, term, calls>>

BuildTerm ==
  /\ pc = "args" /\ Len(Frame.args) = Len(OldArgs)
  /\ operation = "apply" => Frame.args # OldArgs
  /\ Rebuild(Frame.term, Frame.args)
  /\ Give(IdOf(Term(terms[Frame.term].symbol, Frame.args)), Tail(stack))
  /\ UNCHANGED <<clauses, var_counter, args_of_call, freshened, bindings,
                 unnamed, term, calls>>

\* The clause that was made can be an argument of the next call.
Finish ==
  /\ pc = "atom" /\ Len(output) = Len(input)
  /\ clauses' = clauses \cup {output} /\ pc' = "idle"
  /\ UNCHANGED <<bank, var_counter, args_of_call, apply_state, freshened, bindings,
                 unnamed, calls>>

applySubstitution == \/ NextAtom \/ Resolve \/ FreeVariable \/ Enter \/ NextArgument
                     \/ ShareTerm \/ BuildTerm \/ Finish
Running == \/ ApplyRenaming \/ FreshenThrows \/ applySubstitution
           \/ \E v \in unnamed : Freshen(v)

Next == \/ Running
        \/ \E c \in clauses : \/ renameVariables(c)
                              \/ \E s \in Unifiers, op \in {"applySubstitution", "apply"} :
                                   ApplyUnifier(op, c, s)

\* A call that has begun goes on.
Spec == Init /\ [][Next]_vars /\ WF_vars(Running)
=============================================================================
