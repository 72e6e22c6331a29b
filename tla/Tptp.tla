-------------------------------- MODULE Tptp ---------------------------------
(***************************************************************************)
(* The TPTP front end, src/frontend/tptp_parser.cc: the recursive-descent  *)
(* parser over the tokens of a text, and prepareForProving.  It interns    *)
(* symbols and makes terms while it reads (TermBank), so a text that is    *)
(* rejected halfway leaves its traces in the tables.  The recursion of     *)
(* parseTerm() is unfolded: stack holds the calls under way, the innermost *)
(* first.  Callers parse any number of texts into one bank.                *)
(***************************************************************************)
EXTENDS TermBank

CONSTANTS
  Texts,          \* what may be parsed: sequences of tokens, as module Lexer yields
  UpperCase,      \* the words that begin with an upper-case letter
  MaxParses       \* how many texts a caller parses (bounds the model)

ASSUME TextsTyped ==
  /\ MaxParses \in Nat
  /\ \A t \in Texts :
       /\ t \in Seq([type : {"kWord", "symbol"}, value : STRING])
       /\ \A k \in DOMAIN t : t[k].type = "kWord" => t[k].value \in Name

VARIABLES
  text,             \* the text of the current or last call
  known,            \* how many symbols there were when it was made
  ahead,           \* what is left of the text, the current token first
  stack,            \* calls of parseTerm() that wait for an argument
  variable_cache,   \* the variables of the current clause
  header,           \* name_ and role_ of the current formula
  clause,           \* its literals so far
  is_positive,      \* of the current literal
  formulas,         \* ParsedProblem::formulas_
  prepared,         \* what prepareForProving() has returned
  pc,               \* "idle", "formula", "literal", "term", "argument",
                    \* "literals", "parsed", "failed" or "prepared"
  parses

problem == <<header, clause, is_positive, formulas>>
call    == <<text, known, parses>>
vars == <<bank, text, known, ahead, stack, variable_cache, header, clause,
          is_positive, formulas, prepared, pc, parses>>

\* A token is a record; the value of a word is the word.
Word(w)     == [type |-> "kWord", value |-> w]
Symbol(c)   == [type |-> "symbol", value |-> c]
EndOfFile   == [type |-> "kEOF", value |-> ""]

Token(k)    == IF k <= Len(ahead) THEN ahead[k] ELSE EndOfFile
IsSymbol(c) == Token(1) = Symbol(c)
advance(n)  == ahead' = SubSeq(ahead, n + 1, Len(ahead))

FormulaRole == {"axiom", "hypothesis", "definition", "assumption", "lemma",
                "theorem", "conjecture", "negated_conjecture", "plain"}

parseRole(word) == IF word \in FormulaRole THEN word ELSE "plain"

Init ==
  /\ BankInit
  /\ text = <<>> /\ known = 0 /\ ahead = <<>> /\ stack = <<>>
  /\ variable_cache = <<>> /\ header = <<>> /\ clause = <<>> /\ is_positive = TRUE
  /\ formulas = <<>> /\ prepared = <<>> /\ pc = "idle" /\ parses = 0

parseTptpString(t) ==
  /\ pc \in {"idle", "parsed", "failed", "prepared"} /\ parses < MaxParses
  /\ text' = t /\ ahead' = t /\ known' = Len(infos) /\ parses' = parses + 1
  /\ stack' = <<>> /\ variable_cache' = <<>> /\ header' = <<>> /\ clause' = <<>>
  /\ is_positive' = TRUE /\ formulas' = <<>> /\ prepared' = <<>>
  /\ pc' = "formula"
  /\ UNCHANGED bank

-----------------------------------------------------------------------------
(* parseProblem                                                             *)

\* cnf ( name , role ,
IsHeader ==
  /\ Token(1) = Word("cnf") /\ Token(2) = Symbol("(")
  /\ Token(3).type = "kWord" /\ Token(4) = Symbol(",")
  /\ Token(5).type = "kWord" /\ Token(6) = Symbol(",")

BeginFormula ==
  /\ pc = "formula" /\ IsHeader
  /\ header' = [name |-> Token(3).value, role |-> parseRole(Token(5).value)]
  /\ advance(6) /\ pc' = "literal"
  /\ UNCHANGED <<bank, call, stack, variable_cache, clause, is_positive, formulas, prepared>>

NextLiteral ==
  /\ pc = "literals" /\ IsSymbol("|")
  /\ advance(1) /\ pc' = "literal"
  /\ UNCHANGED <<bank, call, stack, variable_cache, problem, prepared>>

EndFormula ==
  /\ pc = "literals" /\ IsSymbol(")") /\ Token(2) = Symbol(".")
  /\ advance(2) /\ pc' = "formula"
  /\ formulas' = Append(formulas, [name |-> header.name, role |-> header.role, clause |-> clause])
  /\ clause' = <<>> /\ variable_cache' = <<>>
  /\ UNCHANGED <<bank, call, stack, header, is_positive, prepared>>

EndProblem ==
  /\ pc = "formula" /\ ahead = <<>>
  /\ pc' = "parsed"
  /\ UNCHANGED <<bank, call, ahead, stack, variable_cache, problem, prepared>>

-----------------------------------------------------------------------------
(* parseLiteral and parseTerm                                               *)

BeginLiteral ==
  /\ pc = "literal"
  /\ is_positive' = ~IsSymbol("~")
  /\ IF IsSymbol("~") THEN advance(1) ELSE UNCHANGED ahead
  /\ pc' = "term"
  /\ UNCHANGED <<bank, call, stack, variable_cache, header, clause, formulas, prepared>>

\* Mutant of Return: the arguments are collected in reverse.
ReturnReversed(id, calls) ==
  \/ /\ calls = <<>>
     /\ clause' = Append(clause, [atom |-> id, is_positive |-> is_positive])
     /\ pc' = "literals" /\ stack' = <<>>
  \/ /\ calls # <<>>
     /\ stack' = <<[Head(calls) EXCEPT !.args = <<id>> \o @]>> \o Tail(calls)
     /\ pc' = "argument" /\ UNCHANGED clause

\* A call of parseTerm() returns id: to the call that waits for an argument, or
\* to parseLiteral().
Return(id, calls) ==
  \/ /\ calls = <<>>
     /\ clause' = Append(clause, [atom |-> id, is_positive |-> is_positive])
     /\ pc' = "literals" /\ stack' = <<>>
  \/ /\ calls # <<>>
     /\ stack' = <<[Head(calls) EXCEPT !.args = Append(@, id)]>> \o Tail(calls)
     /\ pc' = "argument" /\ UNCHANGED clause

AtWord      == pc = "term" /\ Token(1).type = "kWord"
AtVariable  == AtWord /\ Token(1).value \in UpperCase
AtName      == AtWord /\ Token(1).value \notin UpperCase

KnownVariable ==
  /\ AtVariable /\ Token(1).value \in DOMAIN variable_cache
  /\ advance(1) /\ Return(variable_cache[Token(1).value], stack)
  /\ UNCHANGED <<bank, call, variable_cache, header, is_positive, formulas, prepared>>

\* Mutant of NewVariable: the variable is taken to be a new term.
NewVariableOfBank ==
  /\ AtVariable /\ Token(1).value \notin DOMAIN variable_cache
  /\ LET name == Token(1).value
     IN  /\ Variable(name)
         /\ variable_cache' = Extend(variable_cache, name, Len(terms) + 1)
         /\ Return(Len(terms) + 1, stack)
  /\ advance(1)
  /\ UNCHANGED <<call, header, is_positive, formulas, prepared>>

NewVariable ==
  /\ AtVariable /\ Token(1).value \notin DOMAIN variable_cache
  /\ LET name == Token(1).value
         id   == IdOf(Term(SymbolOf(name), <<>>))
     IN  /\ Variable(name)
         /\ variable_cache' = Extend(variable_cache, name, id)
         /\ Return(id, stack)
  /\ advance(1)
  /\ UNCHANGED <<call, header, is_positive, formulas, prepared>>

ParseConstant ==
  /\ AtName /\ Token(2) # Symbol("(")
  /\ Constant(Token(1).value)
  /\ Return(IdOf(Term(SymbolOf(Token(1).value), <<>>)), stack)
  /\ advance(1)
  /\ UNCHANGED <<call, variable_cache, header, is_positive, formulas, prepared>>

\* Mutant of OpenTerm: no term without arguments.
OpenTermWithArgument ==
  /\ AtName /\ Token(2) = Symbol("(")
  /\ stack' = <<[name |-> Token(1).value, args |-> <<>>]>> \o stack
  /\ pc' = "term"
  /\ advance(2)
  /\ UNCHANGED <<bank, call, variable_cache, problem, prepared>>

\* name ( , and then an argument unless a parenthesis follows
OpenTerm ==
  /\ AtName /\ Token(2) = Symbol("(")
  /\ stack' = <<[name |-> Token(1).value, args |-> <<>>]>> \o stack
  /\ pc' = IF Token(3) = Symbol(")") THEN "argument" ELSE "term"
  /\ advance(2)
  /\ UNCHANGED <<bank, call, variable_cache, problem, prepared>>

\* Mutant of NextArgument: the comma is not consumed.
NextArgumentAgain ==
  /\ pc = "argument" /\ IsSymbol(",")
  /\ UNCHANGED vars

NextArgument ==
  /\ pc = "argument" /\ IsSymbol(",")
  /\ advance(1) /\ pc' = "term"
  /\ UNCHANGED <<bank, call, stack, variable_cache, problem, prepared>>

CloseTerm ==
  /\ pc = "argument" /\ IsSymbol(")")
  /\ LET f == Head(stack)
     IN  /\ Application(f.name, f.args)
         /\ Return(IdOf(Term(SymbolOf(f.name), f.args)), Tail(stack))
  /\ advance(1)
  /\ UNCHANGED <<call, variable_cache, header, is_positive, formulas, prepared>>

-----------------------------------------------------------------------------
(* What throws: the problem is lost, the tables stay as they are.           *)

\* A token the parser does not expect. A fof at the head of an entry throws like
\* any word there but cnf.
Unexpected ==
  \/ pc = "formula" /\ ahead # <<>> /\ ~IsHeader
  \/ pc = "literals" /\ ~IsSymbol("|") /\ ~(IsSymbol(")") /\ Token(2) = Symbol("."))
  \/ pc = "term" /\ ~AtWord
  \/ pc = "argument" /\ ~IsSymbol(",") /\ ~IsSymbol(")")

\* A name that is known with another kind or arity.
Clash ==
  \/ AtVariable /\ Token(1).value \notin DOMAIN variable_cache
                /\ Mismatch(Token(1).value, "kVariable", 0)
  \/ AtName /\ Token(2) # Symbol("(") /\ Mismatch(Token(1).value, "kConstant", 0)
  \/ pc = "argument" /\ IsSymbol(")")
       /\ Mismatch(Head(stack).name, "kFunction", Len(Head(stack).args))

Throw ==
  /\ Unexpected \/ Clash
  /\ pc' = "failed" /\ formulas' = <<>>
  /\ UNCHANGED <<bank, call, ahead, stack, variable_cache, header, clause, is_positive, prepared>>

parseTerm == \/ KnownVariable \/ NewVariable \/ ParseConstant
             \/ OpenTerm \/ NextArgument \/ CloseTerm

parseProblem == \/ BeginFormula \/ BeginLiteral \/ parseTerm \/ NextLiteral
                \/ EndFormula \/ EndProblem \/ Throw

\* The clauses in the order of the text, moved out of the problem, so that a
\* caller prepares it once; the roles are not looked at.
prepareForProving ==
  /\ pc = "parsed"
  /\ prepared' = [n \in DOMAIN formulas |-> formulas[n].clause]
  /\ formulas' = [n \in DOMAIN formulas |-> [formulas[n] EXCEPT !.clause = <<>>]]
  /\ pc' = "prepared"
  /\ UNCHANGED <<bank, call, ahead, stack, variable_cache, header, clause, is_positive>>

Next == parseProblem \/ prepareForProving \/ \E t \in Texts : parseTptpString(t)

\* A call that has begun goes on; a caller need not make another.
Spec == Init /\ [][Next]_vars /\ WF_vars(parseProblem)

-----------------------------------------------------------------------------
(* Properties (the others are in module TptpProperties)                     *)

FormulaHeader == [name : Name, role : FormulaRole]
ParsedLiteral == [atom : DOMAIN terms, is_positive : BOOLEAN]

\* The type invariant of the parser and what it returns: every TermId it holds,
\* on the call stack, in the cache of the clause or in a formula, is the id of a
\* term, although the bank outlives every parse and makes no term twice.
ParserTyped ==
  /\ known \in 0..Len(infos) /\ parses \in 0..MaxParses
  /\ ahead \in Seq([type : {"kWord", "symbol"}, value : STRING])
  /\ \A k \in DOMAIN ahead : ahead[k].type = "kWord" => ahead[k].value \in Name
  /\ stack \in Seq([name : Name, args : Seq(DOMAIN terms)])
  /\ pc = "argument" => stack # <<>>
  /\ variable_cache \in [DOMAIN variable_cache -> DOMAIN terms]
  /\ is_positive \in BOOLEAN /\ clause \in Seq(ParsedLiteral)
  /\ pc \in {"literal", "term", "argument", "literals"} => header \in FormulaHeader
  /\ formulas \in Seq([name : Name, role : FormulaRole, clause : Seq(ParsedLiteral)])
  /\ prepared \in Seq(Seq(ParsedLiteral))
=============================================================================
