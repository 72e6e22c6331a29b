------------------------------ MODULE ProofText ------------------------------
(***************************************************************************)
(* The text of a clause in a printed proof: clauseToString() and           *)
(* termToPretty() of src/proof/proof_trace.cc, with the readable names of  *)
(* variables that a clause hands out as it is printed.  The recursion over *)
(* arguments is unfolded: agenda is what is still to be printed.  A text   *)
(* is a sequence of marks.  Clauses are printed one after the other, as    *)
(* the lines of a proof are, to see what their texts tell a reader.        *)
(***************************************************************************)
EXTENDS Integers, FiniteSets, Texts

CONSTANTS
  Symbols, Terms,   \* the bank: infos and terms of module TermBank
  BaseCount,        \* kBaseCount, 6: how many letters there are for variables
  Lines             \* the clauses to be printed, in the order of a proof

VARIABLES
  lines,      \* the clauses of this proof
  agenda,     \* marks and terms still to be printed of the current one
  var_map,    \* the names of its variables so far
  result,     \* its text so far
  results     \* the texts of the lines before it

print_vars == <<lines, agenda, var_map, result, results>>

Mark(m)     == [mark |-> m]
Printed(id) == [term |-> id]

IsVariable(t) == Symbols[Terms[t].symbol].kind = "kVariable"
getName(t)    == Symbols[Terms[t].symbol].name

\* The marks that are no names: the code prints not, or and box in Unicode.
Punctuation == {"(", ")", ",", "not", "or", "box"}

Literal == [atom : DOMAIN Terms, is_positive : BOOLEAN]

\* The clauses are over a bank the parser can have left (module TermBank), whose names
\* are words of the lexer.
ASSUME LinesPrintable ==
  /\ BaseCount \in Nat \ {0}
  /\ Terms \in Seq([symbol : DOMAIN Symbols, args : Seq(Nat)])
  /\ \A t \in DOMAIN Terms :
       /\ \A k \in DOMAIN Terms[t].args : Terms[t].args[k] \in 1..(t - 1)
       /\ IsVariable(t) => Terms[t].args = <<>>
  /\ \A i, j \in DOMAIN Symbols : Symbols[i].name = Symbols[j].name => i = j
  /\ \A i \in DOMAIN Symbols : Symbols[i].name \notin Punctuation
  /\ \A l \in Lines : l \in Seq(Seq(Literal)) /\ l # <<>>

\* A letter, followed by a number when the letters have been used up.
prettyVarName(index) == [letter |-> index % BaseCount, suffix |-> index \div BaseCount]

LiteralItems(l) == (IF l.is_positive THEN <<>> ELSE <<Mark("not")>>) \o <<Printed(l.atom)>>

clauseToString(c) ==
  IF c = <<>> THEN <<Mark("box")>>
  ELSE Separated([k \in DOMAIN c |-> LiteralItems(c[k])], Mark("or"))

PrintInit ==
  /\ lines \in Lines
  /\ agenda = clauseToString(lines[1])
  /\ var_map = <<>> /\ result = <<>> /\ results = <<>>

AtMark == agenda # <<>> /\ "mark" \in DOMAIN Head(agenda)
AtPrinted == agenda # <<>> /\ "term" \in DOMAIN Head(agenda)
Current == Head(agenda).term

PrintMark ==
  /\ AtMark
  /\ result' = Append(result, Head(agenda)) /\ agenda' = Tail(agenda)
  /\ UNCHANGED <<lines, var_map, results>>

PrintKnownVariable ==
  /\ AtPrinted /\ IsVariable(Current) /\ Current \in DOMAIN var_map
  /\ result' = Append(result, var_map[Current]) /\ agenda' = Tail(agenda)
  /\ UNCHANGED <<lines, var_map, results>>

PrintNewVariable ==
  /\ AtPrinted /\ IsVariable(Current) /\ Current \notin DOMAIN var_map
  /\ LET name == prettyVarName(Cardinality(DOMAIN var_map))
     IN  /\ var_map' = [v \in DOMAIN var_map \cup {Current} |->
                          IF v = Current THEN name ELSE var_map[v]]
         /\ result' = Append(result, name)
  /\ agenda' = Tail(agenda)
  /\ UNCHANGED <<lines, results>>

\* The arguments in parentheses, if there are any.
Arguments(args) ==
  IF args = <<>> THEN <<>>
  ELSE <<Mark("(")>> \o Separated([k \in DOMAIN args |-> <<Printed(args[k])>>], Mark(","))
         \o <<Mark(")")>>

PrintApplication ==
  /\ AtPrinted /\ ~IsVariable(Current)
  /\ agenda' = <<Mark(getName(Current))>> \o Arguments(Terms[Current].args) \o Tail(agenda)
  /\ UNCHANGED <<lines, var_map, result, results>>

termToPretty == PrintKnownVariable \/ PrintNewVariable \/ PrintApplication

\* Mutant of EndLine: the names go on in the next line.
EndLineKeepingNames ==
  /\ agenda = <<>> /\ Len(results) < Len(lines)
  /\ results' = Append(results, result) /\ result' = <<>>
  /\ agenda' = IF Len(results') < Len(lines) THEN clauseToString(lines[Len(results') + 1]) ELSE <<>>
  /\ UNCHANGED <<lines, var_map>>

\* The map is local to clauseToString: the next line begins with X again.
EndLine ==
  /\ agenda = <<>> /\ Len(results) < Len(lines)
  /\ results' = Append(results, result) /\ result' = <<>> /\ var_map' = <<>>
  /\ agenda' = IF Len(results') < Len(lines) THEN clauseToString(lines[Len(results') + 1]) ELSE <<>>
  /\ UNCHANGED lines

PrintNext == PrintMark \/ termToPretty \/ EndLine

PrintSpec == PrintInit /\ [][PrintNext]_print_vars

-----------------------------------------------------------------------------
(* Properties *)

Variables == {t \in DOMAIN Terms : IsVariable(t)}

\* A renaming gives some variables, each another one.
Renamings ==
  {rho \in UNION {[S -> Variables] : S \in SUBSET Variables} :
     \A v, w \in DOMAIN rho : rho[v] = rho[w] => v = w}

\* Does t read like s when its variables are renamed?
SameUnder(rho, s, t) ==
  LET Same[x \in DOMAIN Terms] ==
        [y \in DOMAIN Terms |->
           IF IsVariable(x) THEN x \in DOMAIN rho /\ rho[x] = y
           ELSE /\ ~IsVariable(y) /\ Terms[x].symbol = Terms[y].symbol
                /\ Len(Terms[x].args) = Len(Terms[y].args)
                /\ \A k \in DOMAIN Terms[x].args : Same[Terms[x].args[k]][Terms[y].args[k]]]
  IN  Same[s][t]

\* Literal by literal the same clause, but for the names of variables.
Variants(c, d) ==
  /\ Len(c) = Len(d)
  /\ \E rho \in Renamings :
       \A k \in DOMAIN c : /\ c[k].is_positive = d[k].is_positive
                           /\ SameUnder(rho, c[k].atom, d[k].atom)

\* Two lines of a proof read the same if and only if they are the same clause up
\* to the names of variables: readable names neither confuse two variables of a
\* clause nor tell two copies of it apart.
TextIsFaithful ==
  \A m, n \in DOMAIN results : results[m] = results[n] <=> Variants(lines[m], lines[n])
=============================================================================
