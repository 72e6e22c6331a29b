--------------------------- MODULE FrontEndProofs ----------------------------
(***************************************************************************)
(* Theorems about the parser, for every set of texts: what it holds is in  *)
(* the bank it fills, it calls the bank only as a client may, and what it  *)
(* has read, printed from the bank, is what was written.                   *)
(***************************************************************************)
EXTENDS TptpText, BankProofs

(* The parser                                                               *)

OpenCall      == [name : Name, args : Seq(DOMAIN terms)]
ParsedFormula == [name : Name, role : FormulaRole, clause : Seq(ParsedLiteral)]

SourceToken == [type : {"kWord", "symbol"}, value : STRING]
SourceOK(s) ==
  s \in Seq(SourceToken) /\ \A k \in DOMAIN s : s[k].type = "kWord" => s[k].value \in Name

BankGrows == TermsGrow /\ BankOK /\ BankOK' /\ DOMAIN infos \subseteq DOMAIN infos'

\* What the parser holds stays good when the bank grows under it.
LEMMA HoldingsKept ==
  ASSUME ParserTyped, BankGrows
  PROVE  /\ known \in 0..Len(infos')
         /\ OpenCall \subseteq OpenCall' /\ stack \in Seq(OpenCall')
         /\ variable_cache \in [DOMAIN variable_cache -> DOMAIN terms']
         /\ ParsedLiteral \subseteq ParsedLiteral' /\ clause \in Seq(ParsedLiteral')
         /\ formulas \in Seq(ParsedFormula')
         /\ prepared \in Seq(Seq(ParsedLiteral'))
<1>1. Len(infos) <= Len(infos') /\ Len(infos') \in Nat
  <2>1. infos \in Seq(SymbolInfo) /\ infos' \in Seq(SymbolInfo)
    BY DEF BankGrows, BankOK, SymbolsOK
  <2>2. 1..Len(infos) \subseteq 1..Len(infos') /\ Len(infos) \in Nat /\ Len(infos') \in Nat
    BY <2>1 DEF BankGrows
  <2> QED BY <2>2
<1>2. OpenCall \subseteq OpenCall'
  <2>1. Seq(DOMAIN terms) \subseteq Seq(DOMAIN terms')
    BY SeqMonotonic DEF BankGrows, TermsGrow
  <2> QED BY <2>1 DEF OpenCall
<1>3. ParsedLiteral \subseteq ParsedLiteral'
  BY DEF ParsedLiteral, BankGrows, TermsGrow
<1>4. Seq(ParsedLiteral) \subseteq Seq(ParsedLiteral')
  BY <1>3, SeqMonotonic
<1>5. ParsedFormula \subseteq ParsedFormula'
  BY <1>4 DEF ParsedFormula
<1>6. /\ stack \in Seq(OpenCall) /\ formulas \in Seq(ParsedFormula)
      /\ prepared \in Seq(Seq(ParsedLiteral)) /\ clause \in Seq(ParsedLiteral)
  BY DEF ParserTyped, OpenCall, ParsedFormula
<1>7. stack \in Seq(OpenCall') /\ formulas \in Seq(ParsedFormula') /\ clause \in Seq(ParsedLiteral')
  BY <1>2, <1>3, <1>5, <1>6, SeqMonotonic
<1>8. prepared \in Seq(Seq(ParsedLiteral'))
  BY <1>4, <1>6, SeqMonotonic
<1>9. variable_cache \in [DOMAIN variable_cache -> DOMAIN terms']
  BY DEF ParserTyped, BankGrows, TermsGrow
<1> QED BY <1>1, <1>2, <1>3, <1>7, <1>8, <1>9 DEF ParserTyped

\* A step that leaves the bank alone keeps what is known of it.
LEMMA SameBank ==
  ASSUME BankOK, UNCHANGED bank
  PROVE  BankGrows
BY DEF bank, BankGrows, TermsGrow, BankOK, SymbolsOK, TermsOK, WellSorted

\* Consuming tokens leaves tokens.
LEMMA Advanced ==
  ASSUME ParserTyped, NEW n \in Nat, advance(n)
  PROVE  SourceOK(ahead')
<1> DEFINE T == {t \in SourceToken : t.type = "kWord" => t.value \in Name}
<1>1. ahead \in Seq(SourceToken) /\ \A k \in DOMAIN ahead : ahead[k] \in T
  <2>1. /\ ahead \in Seq(SourceToken)
        /\ \A k \in DOMAIN ahead : ahead[k].type = "kWord" => ahead[k].value \in Name
    BY DEF ParserTyped, SourceToken
  <2>2. \A k \in DOMAIN ahead : ahead[k] \in SourceToken
    BY <2>1, ElementOfSeq
  <2> QED BY <2>1, <2>2
<1>2. \A i \in (n + 1)..Len(ahead) : ahead[i] \in T
  <2>1. \A i \in (n + 1)..Len(ahead) : i \in DOMAIN ahead
    BY <1>1
  <2> QED BY <1>1, <2>1
<1>3. n + 1 \in Int /\ Len(ahead) \in Int
  BY <1>1
<1> HIDE DEF T
<1>4. SubSeq(ahead, n + 1, Len(ahead)) \in Seq(T)
  BY <1>2, <1>3, SubSeqProperties
<1>5. ahead' \in Seq(T)
  BY <1>4 DEF advance
<1>6. T \subseteq SourceToken /\ \A t \in T : t.type = "kWord" => t.value \in Name
  BY DEF T
<1>7. ahead' \in Seq(SourceToken)
  BY <1>5, <1>6, SeqMonotonic
<1> QED BY <1>5, <1>6, <1>7 DEF SourceOK

\* What the parser takes for a name is one.
LEMMA WordIsName ==
  ASSUME ParserTyped, NEW k \in Nat \ {0}, Token(k).type = "kWord"
  PROVE  Token(k).value \in Name
<1>1. k <= Len(ahead)
  BY DEF Token, EndOfFile
<1>2. k \in DOMAIN ahead /\ Token(k) = ahead[k]
  BY <1>1 DEF Token, ParserTyped
<1> QED BY <1>2 DEF ParserTyped

\* The value of a call of parseTerm() goes to where values of its type are.
LEMMA Returned ==
  ASSUME ParserTyped, BankGrows, NEW id \in DOMAIN terms', NEW calls \in Seq(OpenCall'),
         Return(id, calls)
  PROVE  /\ stack' \in Seq(OpenCall') /\ clause' \in Seq(ParsedLiteral')
         /\ pc' \in {"literals", "argument"}
         /\ pc' = "argument" => stack' # <<>>
<1>1. clause \in Seq(ParsedLiteral') /\ is_positive \in BOOLEAN
  BY HoldingsKept DEF ParserTyped
<1>2. CASE calls = <<>>
  <2>1. [atom |-> id, is_positive |-> is_positive] \in ParsedLiteral'
    BY <1>1 DEF ParsedLiteral
  <2>2. clause' = Append(clause, [atom |-> id, is_positive |-> is_positive])
        /\ pc' = "literals" /\ stack' = <<>>
    BY <1>2 DEF Return
  <2> QED BY <1>1, <2>1, <2>2
<1>3. CASE calls # <<>>
  <2> DEFINE f == [Head(calls) EXCEPT !.args = Append(@, id)]
  <2>1. Head(calls) \in OpenCall' /\ Tail(calls) \in Seq(OpenCall')
    BY <1>3, HeadTailProperties
  <2>2. Head(calls).args \in Seq(DOMAIN terms')
    BY <2>1 DEF OpenCall
  <2>3. Append(Head(calls).args, id) \in Seq(DOMAIN terms')
    BY <2>2
  <2>4. f \in OpenCall'
    BY <2>1, <2>3 DEF OpenCall
  <2>5. stack' = <<f>> \o Tail(calls) /\ pc' = "argument" /\ clause' = clause
    BY <1>3 DEF Return
  <2> HIDE DEF f
  <2>6. <<f>> \in Seq(OpenCall') /\ Len(<<f>>) = 1
    BY <2>4
  <2>7. stack' \in Seq(OpenCall') /\ Len(stack') = 1 + Len(Tail(calls))
    BY <2>1, <2>5, <2>6, ConcatProperties
  <2>8. stack' # <<>>
    BY <2>1, <2>7
  <2> QED BY <1>1, <2>5, <2>7, <2>8
<1> QED BY <1>2, <1>3

\* Steps that only move on in the text, or give up.
LEMMA TypedReading ==
  ASSUME ParserTyped, BankOK,
         \/ BeginFormula \/ NextLiteral \/ EndProblem \/ BeginLiteral \/ NextArgument
         \/ Throw \/ prepareForProving \/ UNCHANGED vars
  PROVE  ParserTyped' /\ UNCHANGED bank
<1>1. UNCHANGED <<bank, known, parses, stack, variable_cache, clause>>
  BY DEF BeginFormula, NextLiteral, EndProblem, BeginLiteral, NextArgument, Throw,
         prepareForProving, vars, call, problem
<1>2. UNCHANGED <<infos, terms>> /\ ParsedLiteral' = ParsedLiteral
  BY <1>1 DEF bank, ParsedLiteral
<1>3. /\ known' \in 0..Len(infos') /\ parses' \in 0..MaxParses
      /\ stack' \in Seq([name : Name, args : Seq(DOMAIN terms')])
      /\ variable_cache' \in [DOMAIN variable_cache' -> DOMAIN terms']
      /\ clause' \in Seq(ParsedLiteral')
  BY <1>1, <1>2 DEF ParserTyped
<1>4. SourceOK(ahead')
  <2>1. SourceOK(ahead)
    BY DEF ParserTyped, SourceOK, SourceToken
  <2>2. UNCHANGED ahead \/ advance(1) \/ advance(6)
    BY DEF BeginFormula, NextLiteral, EndProblem, BeginLiteral, NextArgument, Throw,
           prepareForProving, vars
  <2> QED BY <2>1, <2>2, Advanced
<1>5. is_positive' \in BOOLEAN
  BY DEF BeginFormula, NextLiteral, EndProblem, BeginLiteral, NextArgument, Throw,
         prepareForProving, vars, problem, ParserTyped
<1>6. pc' = "argument" => stack' # <<>>
  BY <1>1 DEF BeginFormula, NextLiteral, EndProblem, BeginLiteral, NextArgument, Throw,
              prepareForProving, vars, ParserTyped
<1>7. pc' \in {"literal", "term", "argument", "literals"} => header' \in FormulaHeader
  <2>1. CASE BeginFormula
    <3>1. Token(3).value \in Name
      <4>1. Token(3).type = "kWord"
        BY <2>1 DEF BeginFormula, IsHeader
      <4>2. 3 \in Nat \ {0}
        OBVIOUS
      <4> QED BY <4>1, <4>2, WordIsName
    <3>2. parseRole(Token(5).value) \in FormulaRole
      BY DEF parseRole, FormulaRole
    <3> QED BY <2>1, <3>1, <3>2 DEF BeginFormula, FormulaHeader
  <2> QED BY <2>1 DEF NextLiteral, EndProblem, BeginLiteral, NextArgument, Throw,
                      prepareForProving, vars, problem, ParserTyped
<1>8. /\ formulas' \in Seq([name : Name, role : FormulaRole, clause : Seq(ParsedLiteral')])
      /\ prepared' \in Seq(Seq(ParsedLiteral'))
  <2>1. CASE UNCHANGED <<formulas, prepared>>
    BY <1>2, <2>1 DEF ParserTyped
  <2>2. CASE Throw
    BY <1>2, <2>2 DEF Throw, ParserTyped
  <2>3. CASE prepareForProving
    <3>1. formulas \in Seq(ParsedFormula)
      BY DEF ParserTyped, ParsedFormula
    <3>2. \A n \in DOMAIN formulas : formulas[n].clause \in Seq(ParsedLiteral)
      <4>1. \A n \in DOMAIN formulas : formulas[n] \in ParsedFormula
        BY <3>1, ElementOfSeq
      <4> QED BY <4>1 DEF ParsedFormula
    <3>3. DOMAIN formulas = 1..Len(formulas) /\ Len(formulas) \in Nat
      BY <3>1
    <3>4. prepared' = [n \in 1..Len(formulas) |-> formulas[n].clause]
      BY <2>3, <3>3 DEF prepareForProving
    <3>5. prepared' \in Seq(Seq(ParsedLiteral))
      BY <3>2, <3>3, <3>4, IsASeq
    <3>6. \A n \in DOMAIN formulas : [formulas[n] EXCEPT !.clause = <<>>] \in ParsedFormula
      <4>1. \A n \in DOMAIN formulas : formulas[n] \in ParsedFormula
        BY <3>1, ElementOfSeq
      <4>2. <<>> \in Seq(ParsedLiteral)
        OBVIOUS
      <4> QED BY <4>1, <4>2 DEF ParsedFormula
    <3>7. formulas' = [n \in 1..Len(formulas) |-> [formulas[n] EXCEPT !.clause = <<>>]]
      BY <2>3, <3>3 DEF prepareForProving
    <3>8. formulas' \in Seq(ParsedFormula)
      BY <3>3, <3>6, <3>7, IsASeq
    <3> QED BY <1>2, <3>5, <3>8 DEF ParsedFormula
  <2> QED BY <2>1, <2>2, <2>3 DEF BeginFormula, NextLiteral, EndProblem, BeginLiteral,
                                  NextArgument, vars, problem
<1> QED BY <1>1, <1>3, <1>4, <1>5, <1>6, <1>7, <1>8 DEF ParserTyped, SourceOK, SourceToken

\* A call starts with nothing but the bank.
LEMMA TypedCall ==
  ASSUME ParserTyped, BankOK, NEW t \in Texts, parseTptpString(t)
  PROVE  ParserTyped' /\ UNCHANGED bank
<1>1. /\ UNCHANGED bank /\ ahead' = t /\ known' = Len(infos) /\ parses' = parses + 1
      /\ parses < MaxParses /\ stack' = <<>> /\ variable_cache' = <<>> /\ clause' = <<>>
      /\ is_positive' = TRUE /\ formulas' = <<>> /\ prepared' = <<>> /\ pc' = "formula"
  BY DEF parseTptpString
<1>2. SourceOK(t)
  BY TextsTyped DEF TextsTyped, SourceOK, SourceToken
<1>3. known' \in 0..Len(infos') /\ parses' \in 0..MaxParses
  BY <1>1, TextsTyped DEF TextsTyped, bank, BankOK, SymbolsOK, ParserTyped
<1> QED BY <1>1, <1>2, <1>3 DEF ParserTyped, SourceOK, SourceToken

\* The finished formula takes its literals and its header with it.
LEMMA TypedEndFormula ==
  ASSUME ParserTyped, BankOK, EndFormula
  PROVE  ParserTyped' /\ UNCHANGED bank
<1>1. /\ UNCHANGED <<bank, known, parses, stack, is_positive, prepared>> /\ pc' = "formula"
      /\ clause' = <<>> /\ variable_cache' = <<>> /\ SourceOK(ahead')
  BY Advanced DEF EndFormula, call
<1> DEFINE f == [name |-> header.name, role |-> header.role, clause |-> clause]
<1>2. f \in ParsedFormula
  BY DEF EndFormula, ParserTyped, FormulaHeader, ParsedFormula
<1>3. formulas \in Seq(ParsedFormula) /\ formulas' = Append(formulas, f)
  BY DEF EndFormula, ParserTyped, ParsedFormula
<1> HIDE DEF f
<1>4. formulas' \in Seq(ParsedFormula)
  BY <1>2, <1>3
<1>5. ParsedFormula' = ParsedFormula /\ UNCHANGED <<infos, terms>> /\ ParsedLiteral' = ParsedLiteral
  BY <1>1 DEF bank, ParsedFormula, ParsedLiteral
<1> QED BY <1>1, <1>4, <1>5 DEF ParserTyped, ParsedFormula, SourceOK, SourceToken

\* A term that ends, whichever way, is a client's step of the bank.
LEMMA TypedTerm ==
  ASSUME ParserTyped, BankOK, KnownVariable \/ NewVariable \/ ParseConstant \/ CloseTerm
  PROVE  ParserTyped' /\ BankOK' /\ [BankNext]_bank
<1>1. SourceOK(ahead') /\ UNCHANGED <<known, parses, header, is_positive, formulas, prepared>>
  BY Advanced DEF KnownVariable, NewVariable, ParseConstant, CloseTerm, call
<1>2. ASSUME BankGrows, NEW id \in DOMAIN terms', NEW calls \in Seq(OpenCall'), Return(id, calls),
             variable_cache' \in [DOMAIN variable_cache' -> DOMAIN terms'],
             pc \in {"term", "argument"}
      PROVE  ParserTyped'
  <2>1. /\ stack' \in Seq(OpenCall') /\ clause' \in Seq(ParsedLiteral')
        /\ pc' \in {"literals", "argument"} /\ pc' = "argument" => stack' # <<>>
    BY <1>2, Returned
  <2>2. /\ known \in 0..Len(infos') /\ formulas \in Seq(ParsedFormula')
        /\ prepared \in Seq(Seq(ParsedLiteral'))
    BY <1>2, HoldingsKept
  <2>3. header \in FormulaHeader
    BY <1>2 DEF ParserTyped
  <2> QED BY <1>1, <1>2, <2>1, <2>2, <2>3 DEF ParserTyped, OpenCall, ParsedFormula, SourceOK, SourceToken
<1>3. ASSUME BankOK', TermsGrow, SymbolsGrow
      PROVE  BankGrows /\ stack \in Seq(OpenCall')
  <2>1. BankGrows
    BY <1>3 DEF BankGrows, SymbolsGrow
  <2> QED BY <2>1, HoldingsKept
<1>4. ASSUME AtWord
      PROVE  Token(1).value \in Name /\ pc \in {"term", "argument"}
  <2>1. Token(1).type = "kWord" /\ 1 \in Nat \ {0}
    BY <1>4 DEF AtWord
  <2> QED BY <1>4, <2>1, WordIsName DEF AtWord
<1>5. CASE KnownVariable
  <2>1. BankGrows /\ UNCHANGED <<terms, bank>>
    BY <1>5, SameBank DEF KnownVariable, bank
  <2>2. variable_cache[Token(1).value] \in DOMAIN terms'
    BY <1>5, <2>1 DEF KnownVariable, ParserTyped
  <2>3. stack \in Seq(OpenCall') /\ variable_cache \in [DOMAIN variable_cache -> DOMAIN terms']
    BY <2>1, HoldingsKept
  <2>4. /\ Return(variable_cache[Token(1).value], stack) /\ variable_cache' = variable_cache
        /\ pc \in {"term", "argument"}
    BY <1>4, <1>5 DEF KnownVariable, AtVariable
  <2> QED BY <1>2, <2>1, <2>2, <2>3, <2>4 DEF BankGrows
<1>6. CASE NewVariable \/ ParseConstant
  <2> DEFINE name == Token(1).value
             id   == IdOf(Term(SymbolOf(name), <<>>))
  <2>1. name \in Name /\ pc \in {"term", "argument"}
    BY <1>4, <1>6 DEF NewVariable, ParseConstant, AtVariable, AtName
  <2>2. /\ Variable(name) \/ Constant(name)
        /\ Return(id, stack)
        /\ variable_cache' = variable_cache \/ variable_cache' = Extend(variable_cache, name, id)
    BY <1>6 DEF NewVariable, ParseConstant
  <2> HIDE DEF name
  <2>3. BankOK' /\ TermsGrow /\ SymbolsGrow /\ id \in DOMAIN terms'
    BY <2>1, <2>2, VariableKeeps
  <2> HIDE DEF id
  <2>4. BankGrows /\ stack \in Seq(OpenCall')
    BY <1>3, <2>3
  <2>5. variable_cache' \in [DOMAIN variable_cache' -> DOMAIN terms']
    <3>1. variable_cache \in [DOMAIN variable_cache -> DOMAIN terms']
      BY <2>4, HoldingsKept
    <3> QED BY <2>2, <2>3, <3>1 DEF Extend
  <2>6. ParserTyped'
    BY <1>2, <2>1, <2>2, <2>3, <2>4, <2>5
  <2> QED BY <2>1, <2>2, <2>3, <2>6 DEF BankNext
<1>7. CASE CloseTerm
  <2> DEFINE f  == Head(stack)
             id == IdOf(Term(SymbolOf(f.name), f.args))
  <2>1. stack \in Seq(OpenCall) /\ stack # <<>> /\ pc = "argument"
    BY <1>7 DEF CloseTerm, ParserTyped, OpenCall
  <2>2. f \in OpenCall /\ Tail(stack) \in Seq(OpenCall)
    BY <2>1, HeadTailProperties
  <2>3. f.name \in Name /\ f.args \in Seq(DOMAIN terms)
    BY <2>2 DEF OpenCall
  <2>4. Application(f.name, f.args) /\ Return(id, Tail(stack)) /\ UNCHANGED variable_cache
    BY <1>7 DEF CloseTerm
  <2> HIDE DEF f
  <2>5. BankOK' /\ TermsGrow /\ SymbolsGrow /\ id \in DOMAIN terms'
    BY <2>3, <2>4, ApplicationKeeps
  <2> HIDE DEF id
  <2>6. BankGrows
    BY <1>3, <2>5
  <2>7. /\ Tail(stack) \in Seq(OpenCall')
        /\ variable_cache' \in [DOMAIN variable_cache' -> DOMAIN terms']
    <3>1. OpenCall \subseteq OpenCall' /\ variable_cache \in [DOMAIN variable_cache -> DOMAIN terms']
      BY <2>6, HoldingsKept
    <3>2. Seq(OpenCall) \subseteq Seq(OpenCall')
      BY <3>1, SeqMonotonic
    <3> QED BY <2>2, <2>4, <3>1, <3>2
  <2>8. ParserTyped'
    BY <1>2, <2>1, <2>4, <2>5, <2>6, <2>7
  <2> QED BY <2>3, <2>4, <2>5, <2>8 DEF BankNext
<1> QED BY <1>5, <1>6, <1>7

\* Opening an argument list keeps the parser's types.
LEMMA TypedOpenTerm ==
  ASSUME ParserTyped, BankOK, OpenTerm
  PROVE  ParserTyped' /\ UNCHANGED bank
<1> DEFINE f == [name |-> Token(1).value, args |-> <<>>]
<1>1. /\ UNCHANGED <<bank, known, parses, variable_cache, header, clause, is_positive,
                     formulas, prepared>>
      /\ SourceOK(ahead') /\ stack' = <<f>> \o stack /\ pc = "term"
  BY Advanced DEF OpenTerm, call, problem, AtName, AtWord
<1>2. Token(1).value \in Name
  <2>1. Token(1).type = "kWord" /\ 1 \in Nat \ {0}
    BY DEF OpenTerm, AtName, AtWord
  <2> QED BY <2>1, WordIsName
<1>3. f \in OpenCall /\ stack \in Seq(OpenCall)
  BY <1>2 DEF OpenCall, ParserTyped
<1> HIDE DEF f
<1>4. <<f>> \in Seq(OpenCall) /\ Len(<<f>>) = 1
  BY <1>3
<1>5. stack' \in Seq(OpenCall) /\ Len(stack') = 1 + Len(stack)
  BY <1>1, <1>3, <1>4, ConcatProperties
<1>6. stack' # <<>>
  BY <1>3, <1>5
<1>7. UNCHANGED <<infos, terms>> /\ OpenCall' = OpenCall /\ ParsedLiteral' = ParsedLiteral
  BY <1>1 DEF bank, OpenCall, ParsedLiteral
<1> QED BY <1>1, <1>5, <1>6, <1>7 DEF ParserTyped, OpenCall, SourceOK, SourceToken

\* Every step of the parser keeps the types and the bank.
LEMMA ParserStep ==
  ASSUME ParserTyped, BankOK, [Next]_vars
  PROVE  ParserTyped' /\ BankOK' /\ [BankNext]_bank
<1>1. ASSUME UNCHANGED bank PROVE BankOK' /\ [BankNext]_bank
  BY <1>1, SameBank DEF BankGrows
<1>2. CASE KnownVariable \/ NewVariable \/ ParseConstant \/ CloseTerm
  BY <1>2, TypedTerm
<1>3. CASE OpenTerm
  BY <1>1, <1>3, TypedOpenTerm
<1>4. CASE EndFormula
  BY <1>1, <1>4, TypedEndFormula
<1>5. CASE \E t \in Texts : parseTptpString(t)
  BY <1>1, <1>5, TypedCall
<1>6. CASE \/ BeginFormula \/ NextLiteral \/ EndProblem \/ BeginLiteral \/ NextArgument
           \/ Throw \/ prepareForProving \/ UNCHANGED vars
  BY <1>1, <1>6, TypedReading
<1> QED BY <1>2, <1>3, <1>4, <1>5, <1>6 DEF Next, parseProblem, parseTerm

\* The parser begins with an empty bank and nothing read.
LEMMA ParserStart == ASSUME Init PROVE ParserTyped /\ BankOK
<1>1. BankOK /\ Len(infos) \in Nat
  BY BankStart DEF Init, BankOK, SymbolsOK
<1> QED BY <1>1, TextsTyped DEF Init, ParserTyped, TextsTyped

\* Every id the parser holds or returns is that of a term in the bank, for all
\* texts, however many are parsed and wherever one of them fails.
THEOREM ParserTypeCorrect == Spec => []ParserTyped
<1>1. Init => ParserTyped /\ BankOK
  BY ParserStart
<1>2. ParserTyped /\ BankOK /\ [Next]_vars => ParserTyped' /\ BankOK'
  BY ParserStep
<1> QED BY <1>1, <1>2, PTL DEF Spec

\* The parser is a client of the bank: it does nothing to the tables that the
\* specification of the bank does not allow, even where it throws.
THEOREM ParserIsBankClient == Spec => BankSpec
<1>1. Init => BankInit /\ ParserTyped /\ BankOK
  BY ParserStart DEF Init
<1>2. ParserTyped /\ BankOK /\ [Next]_vars => ParserTyped' /\ BankOK' /\ [BankNext]_bank
  BY ParserStep
<1> QED BY <1>1, <1>2, PTL DEF Spec, BankSpec

\* So the tables the prover gets from the parser are hash-consed and well sorted.
THEOREM ParsedBankCorrect == Spec => [](BankTyped /\ HashConsed /\ WellSorted)
BY ParserIsBankClient, BankTypeCorrect, HashConsCorrect, SortsCorrect, PTL

\* The store of terms the parser fills is the abstract one too.
THEOREM ParsedBankRefines == Spec => BankImplementsStore
BY ParserIsBankClient, BankRefines, PTL

-----------------------------------------------------------------------------
(* Pieces of text                                                           *)

\* f has the first i of the pieces s put together, for each i up to n.
Flattens(f, s, n) == f = [i \in 1..n |-> IF i = 1 THEN s[i] ELSE f[i - 1] \o s[i]]

\* The recursion of FlattenSeq ends.
LEMMA FlattenExists ==
  ASSUME NEW n \in Nat, NEW s
  PROVE  \E f : Flattens(f, s, n)
<1> DEFINE Bad == {m \in 0..n : ~\E f : Flattens(f, s, m)}
<1> SUFFICES ASSUME Bad # {} PROVE FALSE
  OBVIOUS
<1>1. PICK m \in Bad : \A l \in Bad : m <= l
  <2>1. Bad \in SUBSET Nat
    OBVIOUS
  <2> QED BY <2>1, LeastNatural
<1>2. m \in 0..n /\ ~\E f : Flattens(f, s, m)
  OBVIOUS
<1>3. m # 0
  <2>1. 1..0 = {}
    OBVIOUS
  <2>2. Flattens([i \in {} |-> 0], s, 0)
    BY <2>1 DEF Flattens
  <2> QED BY <1>2, <2>2
<1>4. m \in Nat /\ m - 1 \in 0..n /\ ~(m <= m - 1) /\ m - 1 \in Nat
  BY <1>2, <1>3
<1>5. PICK f : Flattens(f, s, m - 1)
  BY <1>1, <1>4
<1> HIDE DEF Bad
<1> DEFINE g == [i \in 1..m |-> IF i = 1 THEN s[i] ELSE f[i - 1] \o s[i]]
<1>6. \A i \in 1..(m - 1) : g[i] = f[i]
  <2>1. \A i \in 1..(m - 1) : i \in 1..m
    BY <1>4
  <2>2. \A i \in 1..(m - 1) : f[i] = IF i = 1 THEN s[i] ELSE f[i - 1] \o s[i]
    BY <1>5 DEF Flattens
  <2> QED BY <2>1, <2>2
<1>7. \A i \in 1..m : i # 1 => f[i - 1] = g[i - 1]
  <2>1. \A i \in 1..m : i # 1 => i - 1 \in 1..(m - 1)
    BY <1>4
  <2> HIDE DEF g
  <2> QED BY <1>6, <2>1
<1>8. g = [i \in 1..m |-> IF i = 1 THEN s[i] ELSE g[i - 1] \o s[i]]
  <2>1. \A i \in 1..m : (IF i = 1 THEN s[i] ELSE f[i - 1] \o s[i])
                           = (IF i = 1 THEN s[i] ELSE g[i - 1] \o s[i])
    <3> HIDE DEF g
    <3> QED BY <1>7
  <2> QED BY <2>1
<1> HIDE DEF g
<1>9. Flattens(g, s, m)
  BY <1>8 DEF Flattens
<1> QED BY <1>2, <1>9

\* Two sequences with the same first pieces have the same text of them.
LEMMA FlattenSame ==
  ASSUME NEW n \in Nat, NEW m \in Nat, n <= m, NEW s, NEW r, NEW f, NEW g,
         Flattens(f, s, n), Flattens(g, r, m), \A i \in 1..n : r[i] = s[i]
  PROVE  \A i \in 1..n : g[i] = f[i]
<1> DEFINE Bad == {i \in 1..n : g[i] # f[i]}
<1> SUFFICES ASSUME Bad # {} PROVE FALSE
  OBVIOUS
<1>1. PICK i \in Bad : \A l \in Bad : i <= l
  <2>1. Bad \in SUBSET Nat
    OBVIOUS
  <2> QED BY <2>1, LeastNatural
<1>2. i \in 1..n /\ i \in 1..m /\ g[i] # f[i]
  OBVIOUS
<1>3. f[i] = (IF i = 1 THEN s[i] ELSE f[i - 1] \o s[i])
      /\ g[i] = (IF i = 1 THEN r[i] ELSE g[i - 1] \o r[i])
  BY <1>2 DEF Flattens
<1>4. i # 1
  BY <1>2, <1>3
<1>5. i - 1 \in 1..n /\ ~(i <= i - 1)
  BY <1>2, <1>4
<1>6. i - 1 \notin Bad
  BY <1>1, <1>5
<1>7. g[i - 1] = f[i - 1]
  BY <1>5, <1>6
<1> HIDE DEF Bad
<1> QED BY <1>2, <1>3, <1>4, <1>7

\* What FlattenSeq computes.
LEMMA FlattenIs ==
  ASSUME NEW T, NEW s \in Seq(Seq(T)), s # <<>>
  PROVE  \E f : Flattens(f, s, Len(s)) /\ FlattenSeq(s) = f[Len(s)]
<1> DEFINE F == CHOOSE f : f = [i \in 1..Len(s) |-> IF i = 1 THEN s[i] ELSE f[i - 1] \o s[i]]
<1>1. Len(s) \in Nat /\ Len(s) # 0
  BY EmptySeq
<1>2. \E f : f = [i \in 1..Len(s) |-> IF i = 1 THEN s[i] ELSE f[i - 1] \o s[i]]
  BY <1>1, FlattenExists DEF Flattens
<1>3. F = [i \in 1..Len(s) |-> IF i = 1 THEN s[i] ELSE F[i - 1] \o s[i]]
  BY <1>2
<1>4. FlattenSeq(s) = F[Len(s)]
  BY <1>1 DEF FlattenSeq
<1> HIDE DEF F
<1>5. Flattens(F, s, Len(s))
  BY <1>3 DEF Flattens
<1> QED BY <1>4, <1>5

\* Pieces put together are a text.
LEMMA FlattenTyped ==
  ASSUME NEW T, NEW s \in Seq(Seq(T))
  PROVE  FlattenSeq(s) \in Seq(T)
<1>1. CASE s = <<>>
  BY <1>1 DEF FlattenSeq
<1>2. CASE s # <<>>
  <2>1. PICK f : Flattens(f, s, Len(s)) /\ FlattenSeq(s) = f[Len(s)]
    BY <1>2, FlattenIs
  <2> DEFINE n == Len(s)
             Bad == {i \in 1..n : f[i] \notin Seq(T)}
  <2>2. n \in Nat /\ n \in 1..n
    BY <1>2, EmptySeq
  <2>3. \A i \in 1..n : s[i] \in Seq(T)
    BY ElementOfSeq
  <2>4. Flattens(f, s, n)
    BY <2>1
  <2> HIDE DEF n
  <2>5. ASSUME Bad # {} PROVE FALSE
    <3>1. PICK i \in Bad : \A l \in Bad : i <= l
      <4>1. Bad \in SUBSET Nat
        BY <2>2
      <4> QED BY <2>5, <4>1, LeastNatural
    <3>2. i \in 1..n /\ f[i] \notin Seq(T)
      OBVIOUS
    <3>3. f[i] = (IF i = 1 THEN s[i] ELSE f[i - 1] \o s[i])
      BY <2>4, <3>2 DEF Flattens
    <3>4. i # 1
      BY <2>3, <3>2, <3>3
    <3>5. i - 1 \in 1..n /\ ~(i <= i - 1)
      BY <2>2, <3>2, <3>4
    <3>6. i - 1 \notin Bad
      BY <3>1, <3>5
    <3>7. f[i - 1] \in Seq(T)
      BY <3>5, <3>6
    <3> HIDE DEF Bad
    <3>8. s[i] \in Seq(T)
      BY <2>3, <3>2
    <3>9. f[i - 1] \o s[i] \in Seq(T)
      BY <3>7, <3>8, ConcatProperties
    <3> QED BY <3>2, <3>3, <3>4, <3>9
  <2>6. f[n] \in Seq(T)
    BY <2>2, <2>5
  <2> QED BY <2>1, <2>6 DEF n
<1> QED BY <1>1, <1>2

\* One more piece is put at the end.
LEMMA FlattenAppend ==
  ASSUME NEW T, NEW s \in Seq(Seq(T)), NEW x \in Seq(T)
  PROVE  FlattenSeq(Append(s, x)) = FlattenSeq(s) \o x
<1>r. PICK r : r = Append(s, x)
  OBVIOUS
<1>n. PICK n \in Nat : n = Len(s)
  BY LenProperties
<1>m. PICK m \in Nat : m = n + 1
  OBVIOUS
<1>1. /\ r \in Seq(Seq(T)) /\ r # <<>> /\ Len(r) = m
      /\ r[m] = x /\ \A i \in 1..n : r[i] = s[i]
  BY <1>r, <1>n, <1>m, AppendProperties
<1>2. PICK g : Flattens(g, r, m) /\ FlattenSeq(r) = g[m]
  <2>1. PICK g : Flattens(g, r, Len(r)) /\ FlattenSeq(r) = g[Len(r)]
    BY <1>1, FlattenIs
  <2> QED BY <1>1, <2>1
<1>3. g[m] = (IF m = 1 THEN r[m] ELSE g[m - 1] \o r[m])
  <2>1. m \in 1..m
    BY <1>m
  <2> QED BY <1>2, <2>1 DEF Flattens
<1>4. CASE s = <<>>
  <2>1. n = 0 /\ FlattenSeq(s) = <<>>
    BY <1>4, <1>n DEF FlattenSeq
  <2>2. FlattenSeq(r) = x
    BY <1>1, <1>2, <1>3, <1>m, <2>1
  <2> QED BY <2>1, <2>2, <1>r, ConcatEmptySeq
<1>5. CASE s # <<>>
  <2>1. PICK f : Flattens(f, s, n) /\ FlattenSeq(s) = f[n]
    BY <1>5, <1>n, FlattenIs
  <2>2. n # 0 /\ n \in 1..n /\ n <= m /\ m # 1 /\ m - 1 = n
    BY <1>n, <1>m, <1>5, EmptySeq
  <2>3. \A i \in 1..n : g[i] = f[i]
    <3>1. Flattens(f, s, n) /\ Flattens(g, r, m) /\ n <= m
      BY <1>2, <2>1, <2>2
    <3>2. \A i \in 1..n : r[i] = s[i]
      BY <1>1
    <3> HIDE <1>1, <1>2, <2>1, <2>2
    <3> QED BY <3>1, <3>2, FlattenSame
  <2>4. g[n] = f[n]
    BY <2>2, <2>3
  <2> QED BY <1>1, <1>2, <1>3, <2>1, <2>2, <2>4, <1>r
<1> QED BY <1>4, <1>5

\* A sequence is another with one more element if it says so place by place.
LEMMA IsAppend ==
  ASSUME NEW T, NEW s \in Seq(T), NEW e \in T, NEW n \in Nat, n = Len(s),
         NEW f \in Seq(T), Len(f) = n + 1, \A k \in 1..n : f[k] = s[k], f[n + 1] = e
  PROVE  f = Append(s, e)
<1>1. /\ Append(s, e) \in Seq(T) /\ Len(Append(s, e)) = n + 1
      /\ \A k \in 1..n : Append(s, e)[k] = s[k]
      /\ Append(s, e)[n + 1] = e
  BY AppendProperties
<1>2. \A k \in 1..(n + 1) : k # n + 1 => k \in 1..n
  OBVIOUS
<1>3. \A k \in 1..(n + 1) : f[k] = Append(s, e)[k]
  BY <1>1, <1>2
<1> QED BY <1>1, <1>3, SeqEqual

\* Pieces, and something after them.
Followed(pieces, sep) == IF pieces = <<>> THEN <<>> ELSE Separated(pieces, sep) \o <<sep>>

\* Of no pieces nothing is made, and the separator goes before all but the first.
LEMMA SeparatedAppend ==
  ASSUME NEW T, NEW p \in Seq(Seq(T)), NEW x \in Seq(T), NEW sep \in T
  PROVE  /\ Separated(<<>>, sep) = <<>>
         /\ Separated(p, sep) \in Seq(T) /\ Followed(p, sep) \in Seq(T)
         /\ Separated(Append(p, x), sep) = Followed(p, sep) \o x
<1> DEFINE Piece(q, k) == IF k = 1 THEN q[k] ELSE <<sep>> \o q[k]
           Pieces(q)   == [k \in DOMAIN q |-> Piece(q, k)]
<1>n. PICK n \in Nat : n = Len(p) /\ DOMAIN p = 1..n
  BY LenProperties
<1>r. PICK r : r = Append(p, x)
  OBVIOUS
<1>1. /\ r \in Seq(Seq(T)) /\ DOMAIN r = 1..(n + 1) /\ r[n + 1] = x
      /\ \A i \in 1..n : r[i] = p[i]
  BY <1>n, <1>r, AppendProperties, LenProperties
<1>2. Separated(p, sep) = FlattenSeq(Pieces(p)) /\ Separated(r, sep) = FlattenSeq(Pieces(r))
  BY DEF Separated
<1>t. \A k \in 1..n : Piece(p, k) \in Seq(T)
  <2> TAKE k \in 1..n
  <2>1. p[k] \in Seq(T)
    BY <1>n, ElementOfSeq
  <2>2. <<sep>> \in Seq(T)
    OBVIOUS
  <2>3. <<sep>> \o p[k] \in Seq(T)
    BY <2>1, <2>2, ConcatProperties
  <2> QED BY <2>1, <2>3
<1>3. Pieces(p) \in Seq(Seq(T)) /\ Len(Pieces(p)) = n
  <2>1. Pieces(p) = [k \in 1..n |-> Piece(p, k)]
    BY <1>n
  <2> HIDE DEF Piece, Pieces
  <2> QED BY <1>t, <2>1, IsASeq
<1>4. Pieces(r) = Append(Pieces(p), IF n = 0 THEN x ELSE <<sep>> \o x)
  <2>y. PICK y \in Seq(T) : y = IF n = 0 THEN x ELSE <<sep>> \o x
    <3>1. <<sep>> \in Seq(T)
      OBVIOUS
    <3>2. <<sep>> \o x \in Seq(T)
      BY <3>1, ConcatProperties
    <3> QED BY <3>2
  <2>1. \A k \in 1..n : Pieces(r)[k] = Pieces(p)[k]
    BY <1>1, <1>n
  <2>2. Pieces(r)[n + 1] = y
    BY <1>1, <2>y
  <2>3. Pieces(r) \in Seq(Seq(T)) /\ Len(Pieces(r)) = n + 1
    <3>1. \A k \in 1..(n + 1) : Piece(r, k) \in Seq(T)
      <4>1. \A k \in 1..n : Piece(p, k) \in Seq(T) /\ Piece(r, k) = Piece(p, k)
        BY <1>1, <1>t
      <4>2. Piece(r, n + 1) = y
        BY <1>1, <2>y
      <4>3. \A k \in 1..(n + 1) : k # n + 1 => k \in 1..n
        OBVIOUS
      <4> HIDE DEF Piece
      <4> QED BY <4>1, <4>2, <4>3
    <3>2. Pieces(r) = [k \in 1..(n + 1) |-> Piece(r, k)]
      BY <1>1
    <3> HIDE DEF Piece, Pieces
    <3> QED BY <3>1, <3>2, IsASeq
  <2>4. PICK f, s : f = Pieces(r) /\ s = Pieces(p)
    OBVIOUS
  <2> HIDE DEF Pieces, Piece
  <2>5. /\ s \in Seq(Seq(T)) /\ n = Len(s) /\ f \in Seq(Seq(T)) /\ Len(f) = n + 1
        /\ \A k \in 1..n : f[k] = s[k]
        /\ f[n + 1] = y
    BY <1>3, <2>1, <2>2, <2>3, <2>4
  <2>6. f = Append(s, y)
    BY <2>5, IsAppend
  <2> QED BY <2>4, <2>6, <2>y
<1> HIDE DEF Pieces
<1>5. Separated(p, sep) \in Seq(T)
  BY <1>2, <1>3, FlattenTyped
<1>6. <<sep>> \in Seq(T)
  OBVIOUS
<1>7. Followed(p, sep) \in Seq(T)
  BY <1>5, <1>6, ConcatProperties DEF Followed
<1>8. Separated(<<>>, sep) = <<>>
  <2>1. DOMAIN <<>> = {} /\ Len(<<>>) = 0
    OBVIOUS
  <2>2. [k \in DOMAIN <<>> |-> IF k = 1 THEN <<>>[k] ELSE <<sep>> \o <<>>[k]] = <<>>
    BY <2>1
  <2> QED BY <2>1, <2>2 DEF Separated, FlattenSeq
<1>9. Separated(r, sep) = Separated(p, sep) \o (IF n = 0 THEN x ELSE <<sep>> \o x)
  <2>1. (IF n = 0 THEN x ELSE <<sep>> \o x) \in Seq(T)
    BY <1>6, ConcatProperties
  <2> QED BY <1>2, <1>3, <1>4, <2>1, FlattenAppend
<1>10. Separated(r, sep) = Followed(p, sep) \o x
  <2>1. CASE n = 0
    <3>1. p = <<>>
      BY <1>n, <2>1, EmptySeq
    <3> QED BY <1>8, <1>9, <2>1, <3>1, ConcatEmptySeq DEF Followed
  <2>2. CASE n # 0
    <3>1. p # <<>>
      BY <1>n, <2>2, EmptySeq
    <3>2. Separated(r, sep) = Separated(p, sep) \o (<<sep>> \o x)
      BY <1>9, <2>2
    <3>3. (Separated(p, sep) \o <<sep>>) \o x = Separated(p, sep) \o (<<sep>> \o x)
      BY <1>5, <1>6, ConcatAssociative
    <3> QED BY <3>1, <3>2, <3>3 DEF Followed
  <2> QED BY <2>1, <2>2
<1> QED BY <1>5, <1>7, <1>8, <1>10, <1>r

-----------------------------------------------------------------------------
(* The text that has been read                                              *)

\* The words of the language that are spelled out, and every word and name.
Spelled  == {"cnf", "(", ")", ",", "|", "~", "."}
AnyToken == [type : {"kWord", "symbol"}, value : Spelled \cup STRING \cup Name]
Tokens   == Seq(AnyToken)

\* One text after the other: an operator of its own, for the laws below say all
\* that is used of it.
x ++ y == x \o y

\* Texts put together are a text, and how they are grouped makes no difference.
LEMMA JoinTyped == \A x, y \in Tokens : x ++ y \in Tokens
BY ConcatProperties DEF Tokens, ++

LEMMA Joined == \A x, y, z \in Tokens : (x ++ y) ++ z = x ++ (y ++ z)
<1> SUFFICES ASSUME NEW x \in Tokens, NEW y \in Tokens, NEW z \in Tokens
             PROVE  (x ++ y) ++ z = x ++ (y ++ z)
  OBVIOUS
<1> QED BY ConcatAssociative DEF Tokens, ++

LEMMA JoinEmpty == \A x \in Tokens : x ++ <<>> = x /\ <<>> ++ x = x
BY ConcatEmptySeq DEF Tokens, ++

\* The texts of arguments, literals and open calls, when W[id] is the text of
\* the term id.
ArgTexts(W, args) == [k \in DOMAIN args |-> W[args[k]]]
SignText(pos)     == IF pos THEN <<>> ELSE <<Symbol("~")>>
LitText(W, l)     == SignText(l.is_positive) ++ W[l.atom]
LitTexts(W, c)    == [k \in DOMAIN c |-> LitText(W, c[k])]
Opened(c)         == <<Word(c.name), Symbol("(")>>
CallText(W, c)    == Opened(c) ++ Followed(ArgTexts(W, c.args), Symbol(","))
CallTexts(W, s)   == [k \in 1..Len(s) |-> CallText(W, s[Len(s) + 1 - k])]

Lits(D)  == [atom : D, is_positive : BOOLEAN]
Calls(D) == [name : Name, args : Seq(D)]

\* Words of names and symbols are tokens.
LEMMA TokenTexts ==
  ASSUME NEW x \in Spelled \cup STRING \cup Name, NEW y \in Spelled
  PROVE  /\ Word(x) \in AnyToken /\ Symbol(y) \in AnyToken
         /\ <<Word(x)>> \in Tokens /\ <<Symbol(y)>> \in Tokens /\ <<>> \in Tokens
         /\ <<Word(x), Symbol(y)>> \in Tokens
<1>1. Word(x) \in AnyToken /\ Symbol(y) \in AnyToken
  BY DEF Word, Symbol, AnyToken
<1>2. \A u, v \in AnyToken : <<u>> \in Tokens /\ <<u, v>> \in Tokens
  BY DEF Tokens
<1> QED BY <1>1, <1>2 DEF Tokens

\* One more argument is one more text.
LEMMA ArgTextsAppend ==
  ASSUME NEW D, NEW W \in [D -> Tokens], NEW args \in Seq(D), NEW id \in D
  PROVE  /\ ArgTexts(W, args) \in Seq(Tokens)
         /\ ArgTexts(W, Append(args, id)) = Append(ArgTexts(W, args), W[id])
         /\ ArgTexts(W, args) = <<>> <=> args = <<>>
<1>n. PICK n \in Nat : n = Len(args) /\ DOMAIN args = 1..n /\ \A k \in 1..n : args[k] \in D
  BY LenProperties, ElementOfSeq
<1>r. PICK r : r = Append(args, id)
  OBVIOUS
<1>1. /\ DOMAIN r = 1..(n + 1) /\ r[n + 1] = id
      /\ \A k \in 1..n : r[k] = args[k]
      /\ \A k \in 1..(n + 1) : r[k] \in D
  BY <1>n, <1>r, AppendProperties, LenProperties, ElementOfSeq
<1>2. PICK f, s : f = ArgTexts(W, r) /\ s = ArgTexts(W, args)
  OBVIOUS
<1>3. s = [k \in 1..n |-> W[args[k]]] /\ f = [k \in 1..(n + 1) |-> W[r[k]]]
  BY <1>n, <1>1, <1>2 DEF ArgTexts
<1>4. \A k \in 1..n : W[args[k]] \in Tokens
  BY <1>n
<1>5. \A k \in 1..(n + 1) : W[r[k]] \in Tokens
  BY <1>1
<1>6. s \in Seq(Tokens) /\ Len(s) = n
  BY <1>3, <1>4, IsASeq
<1>7. f \in Seq(Tokens) /\ Len(f) = n + 1
  BY <1>3, <1>5, IsASeq
<1>8. W[id] \in Tokens /\ f[n + 1] = W[id] /\ \A k \in 1..n : f[k] = s[k]
  BY <1>1, <1>3
<1>9. f = Append(s, W[id])
  BY <1>6, <1>7, <1>8, IsAppend
<1>10. s = <<>> <=> args = <<>>
  BY <1>n, <1>6, EmptySeq
<1> QED BY <1>2, <1>6, <1>9, <1>10, <1>r

\* The text of a literal.
LEMMA LitTextTyped ==
  ASSUME NEW D, NEW W \in [D -> Tokens], NEW l \in Lits(D)
  PROVE  LitText(W, l) \in Tokens /\ SignText(l.is_positive) \in Tokens
<1>1. W[l.atom] \in Tokens
  BY DEF Lits
<1>2. SignText(l.is_positive) \in Tokens
  <2>1. "~" \in Spelled /\ "~" \in Spelled \cup STRING \cup Name
    BY DEF Spelled
  <2>2. <<Symbol("~")>> \in Tokens /\ <<>> \in Tokens
    BY <2>1, TokenTexts
  <2> QED BY <2>2 DEF SignText
<1> QED BY <1>1, <1>2, JoinTyped DEF LitText

\* One more literal is one more text.
LEMMA LitTextsAppend ==
  ASSUME NEW D, NEW W \in [D -> Tokens], NEW c \in Seq(Lits(D)), NEW l \in Lits(D)
  PROVE  /\ LitTexts(W, c) \in Seq(Tokens)
         /\ LitTexts(W, Append(c, l)) = Append(LitTexts(W, c), LitText(W, l))
         /\ LitTexts(W, c) = <<>> <=> c = <<>>
<1>n. PICK n \in Nat : n = Len(c) /\ DOMAIN c = 1..n /\ \A k \in 1..n : c[k] \in Lits(D)
  BY LenProperties, ElementOfSeq
<1>r. PICK r : r = Append(c, l)
  OBVIOUS
<1>1. /\ DOMAIN r = 1..(n + 1) /\ r[n + 1] = l
      /\ \A k \in 1..n : r[k] = c[k]
      /\ \A k \in 1..(n + 1) : r[k] \in Lits(D)
  BY <1>n, <1>r, AppendProperties, LenProperties, ElementOfSeq
<1>2. PICK f, s : f = LitTexts(W, r) /\ s = LitTexts(W, c)
  OBVIOUS
<1>3. s = [k \in 1..n |-> LitText(W, c[k])] /\ f = [k \in 1..(n + 1) |-> LitText(W, r[k])]
  BY <1>n, <1>1, <1>2 DEF LitTexts
<1>4. \A k \in 1..n : LitText(W, c[k]) \in Tokens
  BY <1>n, LitTextTyped
<1>5. \A k \in 1..(n + 1) : LitText(W, r[k]) \in Tokens
  BY <1>1, LitTextTyped
<1>6. s \in Seq(Tokens) /\ Len(s) = n
  BY <1>3, <1>4, IsASeq
<1>7. f \in Seq(Tokens) /\ Len(f) = n + 1
  BY <1>3, <1>5, IsASeq
<1>8. LitText(W, l) \in Tokens /\ f[n + 1] = LitText(W, l) /\ \A k \in 1..n : f[k] = s[k]
  BY <1>1, <1>3, LitTextTyped
<1>9. f = Append(s, LitText(W, l))
  BY <1>6, <1>7, <1>8, IsAppend
<1>10. s = <<>> <=> c = <<>>
  BY <1>n, <1>6, EmptySeq
<1> QED BY <1>2, <1>6, <1>9, <1>10, <1>r

\* The text of an open call, which has its parenthesis and its arguments so far.
LEMMA CallTextTyped ==
  ASSUME NEW D, NEW W \in [D -> Tokens], NEW c \in Calls(D)
  PROVE  /\ CallText(W, c) \in Tokens /\ Opened(c) \in Tokens
         /\ Followed(ArgTexts(W, c.args), Symbol(",")) \in Tokens
         /\ Separated(ArgTexts(W, c.args), Symbol(",")) \in Tokens
<1>1. c.name \in Name /\ c.args \in Seq(D)
  BY DEF Calls
<1>2. Opened(c) \in Tokens
  <2>1. c.name \in Spelled \cup STRING \cup Name /\ "(" \in Spelled
    BY <1>1 DEF Spelled
  <2>2. <<Word(c.name), Symbol("(")>> \in Tokens
    BY <2>1, TokenTexts
  <2> QED BY <2>2 DEF Opened
<1>3. ArgTexts(W, c.args) \in Seq(Tokens)
  <2>1. CASE D = {}
    <3>1. c.args = <<>>
      BY <1>1, <2>1
    <3> QED BY <3>1 DEF ArgTexts
  <2>2. CASE D # {}
    BY <1>1, <2>2, ArgTextsAppend
  <2> QED BY <2>1, <2>2
<1>4. /\ Followed(ArgTexts(W, c.args), Symbol(",")) \in Tokens
      /\ Separated(ArgTexts(W, c.args), Symbol(",")) \in Tokens
  <2>1. Symbol(",") \in AnyToken
    <3>1. "," \in Spelled /\ "," \in Spelled \cup STRING \cup Name
      BY DEF Spelled
    <3> QED BY <3>1, TokenTexts
  <2>2. <<>> \in Tokens
    BY DEF Tokens
  <2> QED BY <1>3, <2>1, <2>2, SeparatedAppend DEF Tokens
<1> QED BY <1>2, <1>4, JoinTyped DEF CallText

\* The innermost call stands first in the stack and last in the text.
LEMMA CallTextsPush ==
  ASSUME NEW D, NEW W \in [D -> Tokens], NEW s \in Seq(Calls(D)), NEW c \in Calls(D)
  PROVE  /\ CallTexts(W, s) \in Seq(Tokens) /\ CallTexts(W, <<>>) = <<>>
         /\ CallTexts(W, <<c>> \o s) = Append(CallTexts(W, s), CallText(W, c))
<1>n. PICK n \in Nat : n = Len(s) /\ DOMAIN s = 1..n /\ \A k \in 1..n : s[k] \in Calls(D)
  BY LenProperties, ElementOfSeq
<1>r. PICK r : r = <<c>> \o s
  OBVIOUS
<1>1. /\ r \in Seq(Calls(D)) /\ Len(r) = n + 1 /\ r[1] = c
      /\ \A k \in 1..n : r[k + 1] = s[k]
      /\ \A k \in 1..(n + 1) : r[k] \in Calls(D)
  <2>1. <<c>> \in Seq(Calls(D)) /\ Len(<<c>>) = 1 /\ <<c>>[1] = c
    OBVIOUS
  <2>2. /\ r \in Seq(Calls(D)) /\ Len(r) = 1 + n
        /\ \A i \in 1..(1 + n) : r[i] = IF i <= 1 THEN <<c>>[i] ELSE s[i - 1]
    BY <1>n, <1>r, <2>1, ConcatProperties
  <2>3. \A k \in 1..(n + 1) : r[k] \in Calls(D)
    BY <2>2, ElementOfSeq
  <2> QED BY <1>n, <2>1, <2>2, <2>3
<1>2. PICK f, t : f = CallTexts(W, r) /\ t = CallTexts(W, s)
  OBVIOUS
<1>3. t = [k \in 1..n |-> CallText(W, s[n + 1 - k])]
      /\ f = [k \in 1..(n + 1) |-> CallText(W, r[n + 1 + 1 - k])]
  BY <1>n, <1>1, <1>2 DEF CallTexts
<1>4. \A k \in 1..n : n + 1 - k \in 1..n /\ (n + 1 - k) + 1 = n + 1 + 1 - k
  OBVIOUS
<1>5. \A k \in 1..n : CallText(W, s[n + 1 - k]) \in Tokens
  BY <1>n, <1>4, CallTextTyped
<1>6. \A k \in 1..(n + 1) : CallText(W, r[n + 1 + 1 - k]) \in Tokens
  <2>1. \A k \in 1..(n + 1) : n + 1 + 1 - k \in 1..(n + 1)
    OBVIOUS
  <2> QED BY <1>1, <2>1, CallTextTyped
<1>7. t \in Seq(Tokens) /\ Len(t) = n
  <2>1. t \in [1..n -> Tokens]
    BY <1>3, <1>5
  <2> QED BY <2>1
<1>8. f \in Seq(Tokens) /\ Len(f) = n + 1
  <2>1. f \in [1..(n + 1) -> Tokens] /\ n + 1 \in Nat
    BY <1>3, <1>6
  <2> QED BY <2>1
<1>9. \A k \in 1..n : r[n + 1 + 1 - k] = s[n + 1 - k]
  BY <1>1, <1>4
<1>10. CallText(W, c) \in Tokens /\ f[n + 1] = CallText(W, c) /\ \A k \in 1..n : f[k] = t[k]
  <2>1. n + 1 + 1 - (n + 1) = 1 /\ n + 1 \in 1..(n + 1)
    OBVIOUS
  <2>2. f[n + 1] = CallText(W, c)
    BY <1>1, <1>3, <2>1
  <2>3. \A k \in 1..n : f[k] = t[k]
    <3> TAKE k \in 1..n
    <3>1. k \in 1..(n + 1)
      OBVIOUS
    <3>2. f[k] = CallText(W, r[n + 1 + 1 - k]) /\ t[k] = CallText(W, s[n + 1 - k])
      BY <1>3, <3>1
    <3> QED BY <1>9, <3>2
  <2> QED BY <2>2, <2>3, CallTextTyped
<1>11. f = Append(t, CallText(W, c))
  BY <1>7, <1>8, <1>10, IsAppend
<1>12. CallTexts(W, <<>>) = <<>>
  <2>1. Len(<<>>) = 0 /\ 1..0 = {}
    OBVIOUS
  <2> QED BY <2>1 DEF CallTexts
<1> QED BY <1>2, <1>7, <1>11, <1>12, <1>r

\* One more text put at the end.
LEMMA FlattenLast ==
  ASSUME NEW p \in Seq(Tokens), NEW x \in Tokens
  PROVE  FlattenSeq(p) \in Tokens /\ FlattenSeq(Append(p, x)) = FlattenSeq(p) ++ x
BY FlattenTyped, FlattenAppend DEF Tokens, ++

\* What has been read of a formula whose header ends with b: in front of its next
\* literal; in front of a term, with its sign and the open calls s; in the arguments
\* of the first of them; and behind a literal.
AtLiteral(W, b, c)      == b ++ Followed(LitTexts(W, c), Symbol("|"))
AtTerm(W, b, c, pos, s) == AtLiteral(W, b, c) ++ (SignText(pos) ++ FlattenSeq(CallTexts(W, s)))
AtArgument(W, b, c, pos, s) ==
  AtTerm(W, b, c, pos, Tail(s)) ++ (Opened(Head(s)) ++ Separated(ArgTexts(W, Head(s).args), Symbol(",")))
AtLiterals(W, b, c)     == b ++ Separated(LitTexts(W, c), Symbol("|"))

\* Separators are tokens.
LEMMA Separators ==
  /\ \A y \in Spelled : Symbol(y) \in AnyToken /\ <<Symbol(y)>> \in Tokens
  /\ <<>> \in Tokens
BY TokenTexts DEF Tokens, Spelled

\* A list of texts with separators, and one more.
LEMMA ListAppend ==
  ASSUME NEW p \in Seq(Tokens), NEW x \in Tokens, NEW y \in Spelled
  PROVE  /\ Separated(p, Symbol(y)) \in Tokens /\ Followed(p, Symbol(y)) \in Tokens
         /\ Separated(Append(p, x), Symbol(y)) = Followed(p, Symbol(y)) ++ x
<1>1. PICK sep \in AnyToken : sep = Symbol(y)
  BY Separators
<1>2. p \in Seq(Seq(AnyToken)) /\ x \in Seq(AnyToken)
  BY DEF Tokens
<1> QED BY <1>1, <1>2, SeparatedAppend DEF Tokens, ++

\* All of it is text.
LEMMA ReadTyped ==
  ASSUME NEW D, NEW W \in [D -> Tokens], NEW b \in Tokens, NEW c \in Seq(Lits(D)),
         NEW pos \in BOOLEAN, NEW s \in Seq(Calls(D))
  PROVE  /\ LitTexts(W, c) \in Seq(Tokens)
         /\ Separated(LitTexts(W, c), Symbol("|")) \in Tokens
         /\ Followed(LitTexts(W, c), Symbol("|")) \in Tokens
         /\ SignText(pos) \in Tokens /\ CallTexts(W, s) \in Seq(Tokens)
         /\ FlattenSeq(CallTexts(W, s)) \in Tokens
         /\ AtLiteral(W, b, c) \in Tokens /\ AtTerm(W, b, c, pos, s) \in Tokens
         /\ AtLiterals(W, b, c) \in Tokens
<1>1. LitTexts(W, c) \in Seq(Tokens)
  <2>1. \A k \in 1..Len(c) : LitText(W, c[k]) \in Tokens
    BY LitTextTyped, ElementOfSeq
  <2>2. LitTexts(W, c) \in [1..Len(c) -> Tokens] /\ Len(c) \in Nat
    BY <2>1 DEF LitTexts
  <2> QED BY <2>2
<1>2. CallTexts(W, s) \in Seq(Tokens)
  <2>1. \A k \in 1..Len(s) : Len(s) + 1 - k \in 1..Len(s)
    BY LenProperties
  <2>2. \A k \in 1..Len(s) : CallText(W, s[Len(s) + 1 - k]) \in Tokens
    BY <2>1, CallTextTyped, ElementOfSeq
  <2>3. CallTexts(W, s) \in [1..Len(s) -> Tokens] /\ Len(s) \in Nat
    BY <2>2 DEF CallTexts
  <2> QED BY <2>3
<1>3. FlattenSeq(CallTexts(W, s)) \in Tokens
  BY <1>2, FlattenTyped DEF Tokens
<1>4. /\ Separated(LitTexts(W, c), Symbol("|")) \in Tokens
      /\ Followed(LitTexts(W, c), Symbol("|")) \in Tokens
  <2>1. Symbol("|") \in AnyToken /\ <<>> \in Tokens
    BY Separators DEF Spelled
  <2> QED BY <1>1, <2>1, SeparatedAppend DEF Tokens
<1>5. SignText(pos) \in Tokens
  <2>1. <<Symbol("~")>> \in Tokens /\ <<>> \in Tokens
    BY Separators DEF Spelled
  <2> QED BY <2>1 DEF SignText
<1> QED BY <1>1, <1>2, <1>3, <1>4, <1>5, JoinTyped DEF AtLiteral, AtTerm, AtLiterals

\* A literal ends with its atom.
LEMMA ReadLiteral ==
  ASSUME NEW D, NEW W \in [D -> Tokens], NEW b \in Tokens, NEW c \in Seq(Lits(D)),
         NEW pos \in BOOLEAN, NEW id \in D
  PROVE  AtLiterals(W, b, Append(c, [atom |-> id, is_positive |-> pos]))
           = AtTerm(W, b, c, pos, <<>>) ++ W[id]
<1>1. PICK l \in Lits(D) : l = [atom |-> id, is_positive |-> pos]
  BY DEF Lits
<1>2. LitText(W, l) = SignText(pos) ++ W[id] /\ LitText(W, l) \in Tokens
  BY <1>1, LitTextTyped DEF LitText
<1>3. /\ LitTexts(W, c) \in Seq(Tokens) /\ SignText(pos) \in Tokens
      /\ Followed(LitTexts(W, c), Symbol("|")) \in Tokens
      /\ AtLiteral(W, b, c) \in Tokens /\ W[id] \in Tokens
  <2>1. <<>> \in Seq(Calls(D))
    OBVIOUS
  <2> QED BY <2>1, ReadTyped
<1>4. LitTexts(W, Append(c, l)) = Append(LitTexts(W, c), LitText(W, l))
  BY LitTextsAppend
<1>5. Separated(Append(LitTexts(W, c), LitText(W, l)), Symbol("|"))
        = Followed(LitTexts(W, c), Symbol("|")) ++ LitText(W, l)
  BY <1>2, <1>3, ListAppend DEF Spelled
<1>6. AtLiterals(W, b, Append(c, l)) = AtLiteral(W, b, c) ++ LitText(W, l)
  BY <1>2, <1>3, <1>4, <1>5, Joined DEF AtLiteral, AtLiterals
<1>7. AtTerm(W, b, c, pos, <<>>) = AtLiteral(W, b, c) ++ SignText(pos)
  <2>1. FlattenSeq(CallTexts(W, <<>>)) = <<>>
    <3>1. Len(<<>>) = 0 /\ 1..0 = {}
      OBVIOUS
    <3>2. CallTexts(W, <<>>) = <<>>
      BY <3>1 DEF CallTexts
    <3> QED BY <3>1, <3>2 DEF FlattenSeq
  <2> QED BY <1>3, <2>1, JoinEmpty DEF AtTerm
<1> QED BY <1>1, <1>2, <1>3, <1>6, <1>7, Joined

\* An open call goes on the stack.
LEMMA ReadOpened ==
  ASSUME NEW D, NEW W \in [D -> Tokens], NEW b \in Tokens, NEW c \in Seq(Lits(D)),
         NEW pos \in BOOLEAN, NEW s \in Seq(Calls(D)), NEW f \in Calls(D)
  PROVE  AtTerm(W, b, c, pos, <<f>> \o s) = AtTerm(W, b, c, pos, s) ++ CallText(W, f)
<1>1. /\ CallTexts(W, s) \in Seq(Tokens) /\ FlattenSeq(CallTexts(W, s)) \in Tokens
      /\ AtLiteral(W, b, c) \in Tokens /\ SignText(pos) \in Tokens
  BY ReadTyped
<1>2. CallText(W, f) \in Tokens
  BY CallTextTyped
<1>3. CallTexts(W, <<f>> \o s) = Append(CallTexts(W, s), CallText(W, f))
  BY CallTextsPush
<1>4. FlattenSeq(CallTexts(W, <<f>> \o s)) = FlattenSeq(CallTexts(W, s)) ++ CallText(W, f)
  BY <1>1, <1>2, <1>3, FlattenLast
<1> QED BY <1>1, <1>2, <1>4, Joined, JoinTyped DEF AtTerm

\* So the text of the calls ends with that of the innermost.
LEMMA ReadTop ==
  ASSUME NEW D, NEW W \in [D -> Tokens], NEW b \in Tokens, NEW c \in Seq(Lits(D)),
         NEW pos \in BOOLEAN, NEW s \in Seq(Calls(D)), s # <<>>
  PROVE  /\ Head(s) \in Calls(D) /\ Tail(s) \in Seq(Calls(D))
         /\ AtTerm(W, b, c, pos, s) \in Tokens /\ AtTerm(W, b, c, pos, Tail(s)) \in Tokens
         /\ AtTerm(W, b, c, pos, s) = AtTerm(W, b, c, pos, Tail(s)) ++ CallText(W, Head(s))
<1>1. PICK f \in Calls(D), t \in Seq(Calls(D)) : f = Head(s) /\ t = Tail(s) /\ s = <<f>> \o t
  <2>1. Head(s) \in Calls(D) /\ Tail(s) \in Seq(Calls(D)) /\ s = <<Head(s)>> \o Tail(s)
    BY HeadTailProperties
  <2> QED BY <2>1
<1>2. AtTerm(W, b, c, pos, <<f>> \o t) = AtTerm(W, b, c, pos, t) ++ CallText(W, f)
  BY ReadOpened
<1>3. AtTerm(W, b, c, pos, s) \in Tokens /\ AtTerm(W, b, c, pos, t) \in Tokens
  BY ReadTyped
<1> QED BY <1>1, <1>2, <1>3

\* What stands behind an argument is a text.
LEMMA ArgumentTyped ==
  ASSUME NEW D, NEW W \in [D -> Tokens], NEW b \in Tokens, NEW c \in Seq(Lits(D)),
         NEW pos \in BOOLEAN, NEW s \in Seq(Calls(D)), s # <<>>
  PROVE  AtArgument(W, b, c, pos, s) \in Tokens
<1>1. /\ AtTerm(W, b, c, pos, Tail(s)) \in Tokens /\ Head(s) \in Calls(D)
  BY ReadTop
<1>2. Opened(Head(s)) \in Tokens /\ Separated(ArgTexts(W, Head(s).args), Symbol(",")) \in Tokens
  BY <1>1, CallTextTyped
<1> QED BY <1>1, <1>2, JoinTyped DEF AtArgument

\* The texts of arguments, and of one more.
LEMMA ArgTextsNext ==
  ASSUME NEW D, NEW W \in [D -> Tokens], NEW args \in Seq(D), NEW id \in D
  PROVE  Separated(ArgTexts(W, Append(args, id)), Symbol(","))
           = Followed(ArgTexts(W, args), Symbol(",")) ++ W[id]
<1>1. /\ ArgTexts(W, args) \in Seq(Tokens) /\ W[id] \in Tokens
      /\ ArgTexts(W, Append(args, id)) = Append(ArgTexts(W, args), W[id])
  BY ArgTextsAppend
<1>2. PICK q, v : q = ArgTexts(W, args) /\ v = W[id] /\ q \in Seq(Tokens) /\ v \in Tokens
  BY <1>1
<1>3. \A p \in Seq(Tokens), x \in Tokens :
        Separated(Append(p, x), Symbol(",")) = Followed(p, Symbol(",")) ++ x
  BY ListAppend DEF Spelled
<1>4. Separated(Append(q, v), Symbol(",")) = Followed(q, Symbol(",")) ++ v
  BY <1>2, <1>3
<1> QED BY <1>1, <1>2, <1>4

\* The argument is the next of the innermost call.
LEMMA ReadArgument ==
  ASSUME NEW D, NEW W \in [D -> Tokens], NEW b \in Tokens, NEW c \in Seq(Lits(D)),
         NEW pos \in BOOLEAN, NEW s \in Seq(Calls(D)), s # <<>>, NEW id \in D, NEW r,
         Tail(r) = Tail(s), Head(r).name = Head(s).name, Head(r).args = Append(Head(s).args, id)
  PROVE  AtArgument(W, b, c, pos, r) = AtTerm(W, b, c, pos, s) ++ W[id]
<1>1. PICK f \in Calls(D), t \in Seq(Calls(D)), x, y \in Tokens :
        /\ f = Head(s) /\ t = Tail(s) /\ x = AtTerm(W, b, c, pos, s) /\ y = AtTerm(W, b, c, pos, t)
        /\ x = y ++ CallText(W, f)
  <2>1. /\ Head(s) \in Calls(D) /\ Tail(s) \in Seq(Calls(D))
        /\ AtTerm(W, b, c, pos, s) \in Tokens /\ AtTerm(W, b, c, pos, Tail(s)) \in Tokens
        /\ AtTerm(W, b, c, pos, s) = AtTerm(W, b, c, pos, Tail(s)) ++ CallText(W, Head(s))
    BY ReadTop
  <2> QED BY <2>1
<1>2. PICK p, a, w : /\ p = f.args /\ p \in Seq(D) /\ a = Append(p, id)
                     /\ w = W[id] /\ w \in Tokens
  BY DEF Calls
<1>3. ArgTexts(W, Head(r).args) = ArgTexts(W, a) /\ Opened(Head(r)) = Opened(f)
  BY <1>1, <1>2 DEF Opened
<1>4. Separated(ArgTexts(W, a), Symbol(",")) = Followed(ArgTexts(W, p), Symbol(",")) ++ w
  <2>1. \A k \in D : Separated(ArgTexts(W, Append(p, k)), Symbol(","))
                       = Followed(ArgTexts(W, p), Symbol(",")) ++ W[k]
    BY <1>2, ArgTextsNext
  <2> QED BY <1>2, <2>1
<1>5. PICK o, u, e \in Tokens :
        o = Opened(f) /\ u = Followed(ArgTexts(W, p), Symbol(",")) /\ e = CallText(W, f)
  <2>1. /\ Opened(f) \in Tokens /\ Followed(ArgTexts(W, f.args), Symbol(",")) \in Tokens
        /\ CallText(W, f) \in Tokens
    BY CallTextTyped
  <2> QED BY <1>2, <2>1
<1>6. AtArgument(W, b, c, pos, r) = y ++ (o ++ (u ++ w))
  BY <1>1, <1>3, <1>4, <1>5 DEF AtArgument
<1>7. (o ++ u) ++ w = o ++ (u ++ w)
  BY <1>2, Joined
<1>8. (y ++ e) ++ w = y ++ (e ++ w)
  BY <1>2, Joined
<1>9. e = o ++ u
  BY <1>2, <1>5 DEF CallText
<1> QED BY <1>1, <1>2, <1>5, <1>6, <1>7, <1>8, <1>9

\* The header of a formula, and all of it.
HeadText(name, role) ==
  <<Word("cnf"), Symbol("("), Word(name), Symbol(","), Word(role), Symbol(",")>>
FormulaText(W, name, role, c) ==
  (HeadText(name, role) ++ Separated(LitTexts(W, c), Symbol("|"))) ++ <<Symbol(")"), Symbol(".")>>

\* The text of a term with this head and these texts of its arguments.
NodeText(info, pieces) ==
  <<Word(info.name)>> \o
  IF info.kind # "kFunction" THEN <<>>
  ELSE <<Symbol("(")>> \o Separated(pieces, Symbol(",")) \o <<Symbol(")")>>

\* A formula begins with its header.
LEMMA ReadHeader ==
  ASSUME NEW W, NEW b \in Tokens
  PROVE  AtLiteral(W, b, <<>>) = b
<1>1. LitTexts(W, <<>>) = <<>>
  <2>1. DOMAIN <<>> = {}
    OBVIOUS
  <2> QED BY <2>1 DEF LitTexts
<1> QED BY <1>1, JoinEmpty DEF AtLiteral, Followed

\* A literal begins with its sign.
LEMMA ReadSign ==
  ASSUME NEW D, NEW W \in [D -> Tokens], NEW b \in Tokens, NEW c \in Seq(Lits(D)), NEW pos \in BOOLEAN
  PROVE  AtTerm(W, b, c, pos, <<>>) = AtLiteral(W, b, c) ++ SignText(pos)
<1>1. AtLiteral(W, b, c) \in Tokens /\ SignText(pos) \in Tokens
  <2>1. <<>> \in Seq(Calls(D))
    OBVIOUS
  <2> QED BY <2>1, ReadTyped
<1>2. FlattenSeq(CallTexts(W, <<>>)) = <<>>
  <2>1. Len(<<>>) = 0 /\ 1..0 = {}
    OBVIOUS
  <2>2. CallTexts(W, <<>>) = <<>>
    BY <2>1 DEF CallTexts
  <2> QED BY <2>1, <2>2 DEF FlattenSeq
<1> QED BY <1>1, <1>2, JoinEmpty DEF AtTerm

\* Behind a literal a bar leads to the next.
LEMMA ReadBar ==
  ASSUME NEW D, NEW W \in [D -> Tokens], NEW b \in Tokens, NEW c \in Seq(Lits(D)), c # <<>>
  PROVE  AtLiteral(W, b, c) = AtLiterals(W, b, c) ++ <<Symbol("|")>>
<1>1. PICK l \in Lits(D) : TRUE
  <2>1. 1 \in 1..Len(c)
    BY EmptySeq
  <2> QED BY <2>1, ElementOfSeq
<1>2. LitTexts(W, c) # <<>>
  BY <1>1, LitTextsAppend
<1>3. Separated(LitTexts(W, c), Symbol("|")) \in Tokens /\ <<Symbol("|")>> \in Tokens
  <2>1. <<>> \in Seq(Calls(D)) /\ TRUE \in BOOLEAN
    OBVIOUS
  <2>2. Separated(LitTexts(W, c), Symbol("|")) \in Tokens
    BY <2>1, ReadTyped
  <2> QED BY <2>2, Separators DEF Spelled
<1>4. Followed(LitTexts(W, c), Symbol("|")) = Separated(LitTexts(W, c), Symbol("|")) ++ <<Symbol("|")>>
  BY <1>2 DEF Followed, ++
<1> QED BY <1>3, <1>4, Joined DEF AtLiteral, AtLiterals

\* An application begins with its name and a parenthesis, whether arguments follow or not.
LEMMA ReadOpening ==
  ASSUME NEW D, NEW W \in [D -> Tokens], NEW b \in Tokens, NEW c \in Seq(Lits(D)),
         NEW pos \in BOOLEAN, NEW s \in Seq(Calls(D)), NEW f \in Calls(D), f.args = <<>>
  PROVE  /\ AtTerm(W, b, c, pos, <<f>> \o s) = AtTerm(W, b, c, pos, s) ++ Opened(f)
         /\ AtArgument(W, b, c, pos, <<f>> \o s) = AtTerm(W, b, c, pos, s) ++ Opened(f)
<1>1. ArgTexts(W, f.args) = <<>>
  <2>1. DOMAIN <<>> = {}
    OBVIOUS
  <2> QED BY <2>1 DEF ArgTexts
<1>2. Opened(f) \in Tokens
  BY CallTextTyped
<1>3. CallText(W, f) = Opened(f)
  BY <1>1, <1>2, JoinEmpty DEF CallText, Followed
<1>4. Separated(ArgTexts(W, f.args), Symbol(",")) = <<>>
  <2>1. DOMAIN <<>> = {} /\ Len(<<>>) = 0
    OBVIOUS
  <2>2. [k \in DOMAIN <<>> |-> IF k = 1 THEN <<>>[k] ELSE <<Symbol(",")>> \o <<>>[k]] = <<>>
    BY <2>1
  <2> QED BY <1>1, <2>1, <2>2 DEF Separated, FlattenSeq
<1>5. Head(<<f>> \o s) = f /\ Tail(<<f>> \o s) = s
  OBVIOUS
<1>6. AtArgument(W, b, c, pos, <<f>> \o s) = AtTerm(W, b, c, pos, s) ++ (Opened(f) ++ <<>>)
  BY <1>4, <1>5 DEF AtArgument
<1> QED BY <1>2, <1>3, <1>6, ReadOpened, JoinEmpty

\* The comma as a text.
Comma == <<Symbol(",")>>

\* Behind an argument a comma leads to the next.
LEMMA ReadComma ==
  ASSUME NEW D, NEW W \in [D -> Tokens], NEW b \in Tokens, NEW c \in Seq(Lits(D)),
         NEW pos \in BOOLEAN, NEW s \in Seq(Calls(D)), s # <<>>, Head(s).args # <<>>
  PROVE  AtTerm(W, b, c, pos, s) = AtArgument(W, b, c, pos, s) ++ Comma
<1>1. PICK f \in Calls(D), t \in Seq(Calls(D)), x, y \in Tokens :
        /\ f = Head(s) /\ t = Tail(s) /\ x = AtTerm(W, b, c, pos, s) /\ y = AtTerm(W, b, c, pos, t)
        /\ x = y ++ CallText(W, f)
  <2>1. /\ Head(s) \in Calls(D) /\ Tail(s) \in Seq(Calls(D))
        /\ AtTerm(W, b, c, pos, s) \in Tokens /\ AtTerm(W, b, c, pos, Tail(s)) \in Tokens
        /\ AtTerm(W, b, c, pos, s) = AtTerm(W, b, c, pos, Tail(s)) ++ CallText(W, Head(s))
    BY ReadTop
  <2> QED BY <2>1
<1>2. f.args \in Seq(D) /\ f.args # <<>>
  BY <1>1 DEF Calls
<1>3. ArgTexts(W, f.args) # <<>>
  <2>1. PICK id \in D : TRUE
    <3>1. 1 \in 1..Len(f.args)
      BY <1>2, EmptySeq
    <3> QED BY <1>2, <3>1, ElementOfSeq
  <2> QED BY <1>2, <2>1, ArgTextsAppend
<1>4. Followed(ArgTexts(W, f.args), Symbol(","))
        = Separated(ArgTexts(W, f.args), Symbol(",")) ++ <<Symbol(",")>>
  BY <1>3 DEF Followed, ++
<1>5. PICK o, A, e \in Tokens :
        o = Opened(f) /\ A = Separated(ArgTexts(W, f.args), Symbol(",")) /\ e = <<Symbol(",")>>
  <2>1. <<Symbol(",")>> \in Tokens
    BY Separators DEF Spelled
  <2> QED BY <2>1, CallTextTyped
<1>6. CallText(W, f) = o ++ (A ++ e)
  BY <1>4, <1>5 DEF CallText
<1>7. AtArgument(W, b, c, pos, s) = y ++ (o ++ A)
  BY <1>1, <1>5 DEF AtArgument
<1>8. (y ++ (o ++ A)) ++ e = y ++ (o ++ (A ++ e))
  <2>1. o ++ A \in Tokens
    BY JoinTyped
  <2>2. (y ++ (o ++ A)) ++ e = y ++ ((o ++ A) ++ e)
    BY <2>1, Joined
  <2>3. (o ++ A) ++ e = o ++ (A ++ e)
    BY Joined
  <2> QED BY <2>2, <2>3
<1>9. e = Comma
  BY <1>5 DEF Comma
<1> QED BY <1>1, <1>6, <1>7, <1>8, <1>9

\* A parenthesis ends the application, whose text then stands where its call was.
LEMMA ReadClosing ==
  ASSUME NEW D, NEW W \in [D -> Tokens], NEW b \in Tokens, NEW c \in Seq(Lits(D)),
         NEW pos \in BOOLEAN, NEW t \in Seq(Calls(D)), NEW f \in Calls(D),
         NEW info, info.name = f.name, info.kind = "kFunction"
  PROVE  AtArgument(W, b, c, pos, <<f>> \o t) ++ <<Symbol(")")>>
           = AtTerm(W, b, c, pos, t) ++ NodeText(info, ArgTexts(W, f.args))
<1>1. Head(<<f>> \o t) = f /\ Tail(<<f>> \o t) = t
  OBVIOUS
<1> DEFINE A == Separated(ArgTexts(W, f.args), Symbol(","))
<1>2. /\ AtTerm(W, b, c, pos, t) \in Tokens /\ Opened(f) \in Tokens /\ A \in Tokens
      /\ <<Symbol(")")>> \in Tokens /\ <<Symbol("(")>> \in Tokens
  <2>1. <<Symbol(")")>> \in Tokens /\ <<Symbol("(")>> \in Tokens
    BY Separators DEF Spelled
  <2> QED BY <2>1, ReadTyped, CallTextTyped
<1>3. <<Word(f.name)>> \in Tokens
  <2>1. f.name \in Name
    BY DEF Calls
  <2> QED BY <2>1, TokenTexts DEF Spelled
<1>4. Opened(f) = <<Word(f.name)>> ++ <<Symbol("(")>>
  BY DEF Opened, ++
<1>5. NodeText(info, ArgTexts(W, f.args)) = <<Word(f.name)>> ++ ((<<Symbol("(")>> ++ A) ++ <<Symbol(")")>>)
  BY DEF NodeText, ++
<1> HIDE DEF A
<1>6. (<<Symbol("(")>> ++ A) ++ <<Symbol(")")>> = <<Symbol("(")>> ++ (A ++ <<Symbol(")")>>)
  BY <1>2, Joined
<1>7. A ++ <<Symbol(")")>> \in Tokens
  BY <1>2, JoinTyped
<1>8. (<<Word(f.name)>> ++ <<Symbol("(")>>) ++ (A ++ <<Symbol(")")>>)
        = <<Word(f.name)>> ++ (<<Symbol("(")>> ++ (A ++ <<Symbol(")")>>))
  <2>1. \A y, z \in Tokens : (<<Word(f.name)>> ++ y) ++ z = <<Word(f.name)>> ++ (y ++ z)
    BY <1>3, Joined
  <2> QED BY <1>2, <1>7, <2>1
<1>9. (Opened(f) ++ A) ++ <<Symbol(")")>> = Opened(f) ++ (A ++ <<Symbol(")")>>)
  BY <1>2, Joined
<1>10. Opened(f) ++ A \in Tokens
  BY <1>2, JoinTyped
<1>11. (AtTerm(W, b, c, pos, t) ++ (Opened(f) ++ A)) ++ <<Symbol(")")>>
         = AtTerm(W, b, c, pos, t) ++ ((Opened(f) ++ A) ++ <<Symbol(")")>>)
  <2>1. \A y, z \in Tokens :
          (AtTerm(W, b, c, pos, t) ++ y) ++ z = AtTerm(W, b, c, pos, t) ++ (y ++ z)
    BY <1>2, Joined
  <2> QED BY <1>2, <1>10, <2>1
<1>12. AtArgument(W, b, c, pos, <<f>> \o t) = AtTerm(W, b, c, pos, t) ++ (Opened(f) ++ A)
  BY <1>1 DEF AtArgument, A
<1> QED BY <1>4, <1>5, <1>6, <1>8, <1>9, <1>11, <1>12

\* A parenthesis and a full stop end the formula.
LEMMA ReadFormula ==
  ASSUME NEW D, NEW W \in [D -> Tokens], NEW d \in Tokens, NEW c \in Seq(Lits(D)),
         NEW name \in Name, NEW role \in STRING \cup Name
  PROVE  /\ HeadText(name, role) \in Tokens /\ FormulaText(W, name, role, c) \in Tokens
         /\ AtLiterals(W, d ++ HeadText(name, role), c) ++ <<Symbol(")"), Symbol(".")>>
              = d ++ FormulaText(W, name, role, c)
<1>1. HeadText(name, role) \in Tokens /\ <<Symbol(")"), Symbol(".")>> \in Tokens
  <2>1. /\ Word("cnf") \in AnyToken /\ Word(name) \in AnyToken /\ Word(role) \in AnyToken
        /\ \A y \in Spelled : Symbol(y) \in AnyToken
    <3>1. "cnf" \in Spelled
      BY DEF Spelled
    <3> QED BY <3>1, TokenTexts
  <2>2. /\ Symbol("(") \in AnyToken /\ Symbol(",") \in AnyToken
        /\ Symbol(")") \in AnyToken /\ Symbol(".") \in AnyToken
    BY <2>1 DEF Spelled
  <2>3. \A y, z, u, v, x, w \in AnyToken :
          <<y, z, u, v, x, w>> \in Seq(AnyToken) /\ <<y, z>> \in Seq(AnyToken)
    OBVIOUS
  <2>4. <<Symbol(")"), Symbol(".")>> \in Tokens
    BY <2>2, <2>3 DEF Tokens
  <2>5. HeadText(name, role) \in Seq(AnyToken)
    BY <2>1, <2>2, <2>3 DEF HeadText
  <2> QED BY <2>4, <2>5 DEF Tokens
<1>2. Separated(LitTexts(W, c), Symbol("|")) \in Tokens
  <2>1. <<>> \in Seq(Calls(D)) /\ TRUE \in BOOLEAN
    OBVIOUS
  <2> QED BY <2>1, ReadTyped
<1> DEFINE h == HeadText(name, role)
           S == Separated(LitTexts(W, c), Symbol("|"))
           e == <<Symbol(")"), Symbol(".")>>
<1>3. FormulaText(W, name, role, c) = (h ++ S) ++ e /\ AtLiterals(W, d ++ h, c) = (d ++ h) ++ S
  BY DEF FormulaText, AtLiterals
<1>4. h \in Tokens /\ S \in Tokens /\ e \in Tokens
  BY <1>1, <1>2
<1> HIDE DEF h, S, e
<1>5. h ++ S \in Tokens /\ (h ++ S) ++ e \in Tokens
  BY <1>4, JoinTyped
<1>6. (d ++ h) ++ S = d ++ (h ++ S)
  BY <1>4, Joined
<1>7. (d ++ (h ++ S)) ++ e = d ++ ((h ++ S) ++ e)
  <2>1. \A y, z \in Tokens : (d ++ y) ++ z = d ++ (y ++ z)
    BY Joined
  <2> QED BY <1>4, <1>5, <2>1
<1> QED BY <1>1, <1>3, <1>5, <1>6, <1>7 DEF h, e

\* Where two maps from terms to texts agree, all that is made of them does.
LEMMA SameTexts ==
  ASSUME NEW D, NEW W, NEW V, \A i \in D : V[i] = W[i]
  PROVE  /\ \A args \in Seq(D) : ArgTexts(V, args) = ArgTexts(W, args)
         /\ \A c \in Seq(Lits(D)) : LitTexts(V, c) = LitTexts(W, c)
         /\ \A s \in Seq(Calls(D)) : CallTexts(V, s) = CallTexts(W, s)
<1>1. \A args \in Seq(D) : ArgTexts(V, args) = ArgTexts(W, args)
  <2> TAKE args \in Seq(D)
  <2>1. \A k \in DOMAIN args : V[args[k]] = W[args[k]]
    BY ElementOfSeq
  <2> QED BY <2>1 DEF ArgTexts
<1>2. \A c \in Seq(Lits(D)) : LitTexts(V, c) = LitTexts(W, c)
  <2> TAKE c \in Seq(Lits(D))
  <2>1. \A k \in DOMAIN c : c[k] \in Lits(D)
    BY ElementOfSeq
  <2>2. \A l \in Lits(D) : V[l.atom] = W[l.atom]
    BY DEF Lits
  <2>3. \A k \in DOMAIN c : LitText(V, c[k]) = LitText(W, c[k])
    BY <2>1, <2>2 DEF LitText
  <2> QED BY <2>3 DEF LitTexts
<1>3. \A s \in Seq(Calls(D)) : CallTexts(V, s) = CallTexts(W, s)
  <2> TAKE s \in Seq(Calls(D))
  <2>1. \A k \in 1..Len(s) : Len(s) + 1 - k \in 1..Len(s)
    BY LenProperties
  <2>2. \A k \in 1..Len(s) : s[Len(s) + 1 - k] \in Calls(D)
    BY <2>1, ElementOfSeq
  <2>3. \A f \in Calls(D) : CallText(V, f) = CallText(W, f)
    <3> TAKE f \in Calls(D)
    <3>1. f.args \in Seq(D)
      BY DEF Calls
    <3> QED BY <1>1, <3>1 DEF CallText
  <2>4. \A k \in 1..Len(s) : CallText(V, s[Len(s) + 1 - k]) = CallText(W, s[Len(s) + 1 - k])
    BY <2>2, <2>3
  <2> QED BY <2>4 DEF CallTexts
<1> QED BY <1>1, <1>2, <1>3

-----------------------------------------------------------------------------
(* The texts of the terms of a bank                                         *)

\* W has the text of each of the first n terms S over the symbols I.
Spells(W, I, S, n) ==
  W = [i \in 1..n |-> NodeText(I[S[i].symbol], ArgTexts(W, S[i].args))]

\* Terms whose arguments are older have texts, as they have trees.
LEMMA SpellExists ==
  ASSUME NEW n \in Nat, NEW I, NEW S, ArgsOlder(S, n)
  PROVE  \E W : Spells(W, I, S, n)
<1> DEFINE Bad == {m \in 0..n : ~\E W : Spells(W, I, S, m)}
<1> SUFFICES ASSUME Bad # {} PROVE FALSE
  OBVIOUS
<1>1. PICK m \in Bad : \A l \in Bad : m <= l
  <2>1. Bad \in SUBSET Nat
    OBVIOUS
  <2> QED BY <2>1, LeastNatural
<1>2. m \in 0..n /\ ~\E W : Spells(W, I, S, m)
  OBVIOUS
<1>3. m # 0
  <2>1. 1..0 = {}
    OBVIOUS
  <2>2. Spells([i \in {} |-> 0], I, S, 0)
    BY <2>1 DEF Spells
  <2> QED BY <1>2, <2>2
<1>4. m \in Nat /\ m - 1 \in 0..n /\ ~(m <= m - 1) /\ m - 1 \in Nat
  BY <1>2, <1>3
<1>5. PICK W : Spells(W, I, S, m - 1)
  BY <1>1, <1>4
<1> HIDE DEF Bad
<1> DEFINE Node(i) == NodeText(I[S[i].symbol], ArgTexts(W, S[i].args))
           U == [i \in 1..m |-> Node(i)]
<1>6. \A i \in 1..(m - 1) : U[i] = W[i]
  <2>1. \A i \in 1..(m - 1) : i \in 1..m
    BY <1>4
  <2>2. \A i \in 1..(m - 1) : W[i] = Node(i)
    BY <1>5 DEF Spells
  <2> QED BY <2>1, <2>2
<1>7. \A i \in 1..m : ArgTexts(U, S[i].args) = ArgTexts(W, S[i].args)
  <2> TAKE i \in 1..m
  <2>1. \A k \in DOMAIN S[i].args : S[i].args[k] \in 1..(m - 1)
    BY <1>2, <1>4 DEF ArgsOlder
  <2> HIDE DEF U
  <2>2. \A k \in DOMAIN S[i].args : U[S[i].args[k]] = W[S[i].args[k]]
    BY <1>6, <2>1
  <2> QED BY <2>2 DEF ArgTexts
<1>8. Spells(U, I, S, m)
  <2>1. \A i \in 1..m : Node(i) = NodeText(I[S[i].symbol], ArgTexts(U, S[i].args))
    <3> HIDE DEF U
    <3> QED BY <1>7
  <2>2. U = [i \in 1..m |-> Node(i)]
    OBVIOUS
  <2> HIDE DEF U, Node
  <2> QED BY <2>1, <2>2 DEF Spells
<1> QED BY <1>2, <1>8

\* Texts of the same terms are the same.
LEMMA SpellSame ==
  ASSUME NEW n \in Nat, NEW m \in Nat, n <= m, NEW I, NEW J, NEW S, NEW R, NEW W, NEW V,
         Spells(W, I, S, n), Spells(V, J, R, m), ArgsOlder(S, n),
         \A i \in 1..n : R[i] = S[i] /\ J[S[i].symbol] = I[S[i].symbol]
  PROVE  \A i \in 1..n : V[i] = W[i]
<1> DEFINE Bad == {i \in 1..n : V[i] # W[i]}
<1> SUFFICES ASSUME Bad # {} PROVE FALSE
  OBVIOUS
<1>1. PICK i \in Bad : \A l \in Bad : i <= l
  <2>1. Bad \in SUBSET Nat
    OBVIOUS
  <2> QED BY <2>1, LeastNatural
<1>2. i \in 1..n /\ i \in 1..m /\ V[i] # W[i]
  OBVIOUS
<1>3. ASSUME NEW k \in DOMAIN S[i].args
      PROVE  V[S[i].args[k]] = W[S[i].args[k]]
  <2>1. S[i].args[k] \in 1..(i - 1)
    BY <1>2 DEF ArgsOlder
  <2>2. S[i].args[k] \in 1..n /\ ~(i <= S[i].args[k])
    BY <1>2, <2>1
  <2>3. S[i].args[k] \notin Bad
    BY <1>1, <2>2
  <2> QED BY <2>2, <2>3
<1>4. W[i] = NodeText(I[S[i].symbol], ArgTexts(W, S[i].args))
  BY <1>2 DEF Spells
<1>5. V[i] = NodeText(J[S[i].symbol], ArgTexts(V, S[i].args))
  <2>1. V[i] = NodeText(J[R[i].symbol], ArgTexts(V, R[i].args))
    BY <1>2 DEF Spells
  <2> QED BY <1>2, <2>1
<1>6. ArgTexts(V, S[i].args) = ArgTexts(W, S[i].args)
  BY <1>3 DEF ArgTexts
<1> HIDE DEF Bad
<1> QED BY <1>2, <1>4, <1>5, <1>6

\* The text of a term is a text.
LEMMA NodeTextTyped ==
  ASSUME NEW info, info.name \in Name, NEW p \in Seq(Tokens)
  PROVE  NodeText(info, p) \in Tokens
<1>1. /\ <<Word(info.name)>> \in Tokens /\ <<Symbol("(")>> \in Tokens
      /\ <<Symbol(")")>> \in Tokens /\ <<>> \in Tokens
  BY Separators, TokenTexts DEF Spelled
<1>2. Separated(p, Symbol(",")) \in Tokens
  BY <1>1, ListAppend DEF Spelled
<1>3. (<<Symbol("(")>> ++ Separated(p, Symbol(","))) ++ <<Symbol(")")>> \in Tokens
  BY <1>1, <1>2, JoinTyped
<1>4. CASE info.kind = "kFunction"
  <2>1. NodeText(info, p)
          = <<Word(info.name)>> ++ ((<<Symbol("(")>> ++ Separated(p, Symbol(","))) ++ <<Symbol(")")>>)
    BY <1>4 DEF NodeText, ++
  <2> QED BY <1>1, <1>3, <2>1, JoinTyped
<1>5. CASE info.kind # "kFunction"
  <2>1. NodeText(info, p) = <<Word(info.name)>> ++ <<>>
    BY <1>5 DEF NodeText, ++
  <2> QED BY <1>1, <2>1, JoinTyped
<1> QED BY <1>4, <1>5

\* And so are the texts of all.
LEMMA SpellTyped ==
  ASSUME NEW n \in Nat, NEW I, NEW S, NEW W, Spells(W, I, S, n), ArgsOlder(S, n),
         \A i \in 1..n : I[S[i].symbol].name \in Name /\ S[i].args \in Seq(1..n)
  PROVE  W \in [1..n -> Tokens]
<1> DEFINE Bad == {i \in 1..n : W[i] \notin Tokens}
<1>0. W = [i \in 1..n |-> W[i]]
  BY DEF Spells
<1> SUFFICES ASSUME Bad # {} PROVE FALSE
  BY <1>0
<1>1. PICK i \in Bad : \A l \in Bad : i <= l
  <2>1. Bad \in SUBSET Nat
    OBVIOUS
  <2> QED BY <2>1, LeastNatural
<1>2. i \in 1..n /\ W[i] \notin Tokens
  OBVIOUS
<1>3. \A k \in DOMAIN S[i].args : W[S[i].args[k]] \in Tokens
  <2> TAKE k \in DOMAIN S[i].args
  <2>1. S[i].args[k] \in 1..(i - 1)
    BY <1>2 DEF ArgsOlder
  <2>2. S[i].args[k] \in 1..n /\ ~(i <= S[i].args[k])
    <3>1. \A a \in 1..(i - 1) : a \in 1..n /\ ~(i <= a)
      BY <1>2
    <3> HIDE DEF Bad
    <3> QED BY <2>1, <3>1
  <2>3. S[i].args[k] \notin Bad
    BY <1>1, <2>2
  <2> QED BY <2>2, <2>3
<1> HIDE DEF Bad
<1>4. PICK m \in Nat : DOMAIN S[i].args = 1..m
  <2>1. S[i].args \in Seq(1..n)
    BY <1>2
  <2> QED BY <2>1, LenProperties
<1>5. ArgTexts(W, S[i].args) \in Seq(Tokens)
  <2>1. ArgTexts(W, S[i].args) \in [1..m -> Tokens]
    BY <1>3, <1>4 DEF ArgTexts
  <2> QED BY <2>1
<1>6. W[i] = NodeText(I[S[i].symbol], ArgTexts(W, S[i].args))
  BY <1>2 DEF Spells
<1> QED BY <1>2, <1>5, <1>6, NodeTextTyped

\* What module TptpText writes for the terms of the bank.
Texted == [i \in DOMAIN terms |-> Written(i)]

\* Its recursion is well-founded in every bank there can be.
LEMMA TextedSpells ==
  ASSUME BankOK
  PROVE  /\ Spells(Texted, infos, terms, Len(terms)) /\ Texted \in [DOMAIN terms -> Tokens]
         /\ \A i \in DOMAIN terms :
              /\ Texted[i] = Written(i)
              /\ Texted[i] = NodeText(infos[terms[i].symbol], ArgTexts(Texted, terms[i].args))
<1>1. DOMAIN terms = 1..Len(terms) /\ Len(terms) \in Nat /\ ArgsOlder(terms, Len(terms))
  BY TreesUnfold
<1>2. PICK W : Spells(W, infos, terms, Len(terms))
  BY <1>1, SpellExists
<1> DEFINE Is(w) == w = [i \in DOMAIN terms |->
              <<Word(infos[terms[i].symbol].name)>> \o
              IF infos[terms[i].symbol].kind # "kFunction" THEN <<>>
              ELSE <<Symbol("(")>> \o
                   Separated([k \in DOMAIN terms[i].args |-> w[terms[i].args[k]]], Symbol(",")) \o
                   <<Symbol(")")>>]
           T == CHOOSE w : Is(w)
<1>3. \A w : Is(w) <=> Spells(w, infos, terms, Len(terms))
  BY <1>1 DEF Spells, NodeText, ArgTexts
<1>4. Texted = [i \in DOMAIN terms |-> T[i]]
  BY DEF Texted, Written
<1>5. Is(T)
  <2>1. Is(W)
    BY <1>2, <1>3
  <2> HIDE DEF Is
  <2> QED BY <2>1
<1> HIDE DEF Is, T
<1>6. Spells(T, infos, terms, Len(terms))
  BY <1>3, <1>5
<1>7. T = [i \in DOMAIN terms |-> T[i]]
  BY <1>1, <1>6 DEF Spells
<1>8. Texted = T
  BY <1>4, <1>7
<1>9. \A i \in 1..Len(terms) :
        infos[terms[i].symbol].name \in Name /\ terms[i].args \in Seq(1..Len(terms))
  <2> TAKE i \in 1..Len(terms)
  <2>1. terms[i].symbol \in DOMAIN infos /\ terms[i].args \in Seq(1..Len(terms))
    BY <1>1, StoredFields DEF BankOK
  <2>2. infos[terms[i].symbol] \in SymbolInfo
    BY <2>1, ElementOfSeq DEF BankOK, SymbolsOK
  <2> QED BY <2>1, <2>2 DEF SymbolInfo
<1>10. Texted \in [DOMAIN terms -> Tokens]
  BY <1>1, <1>6, <1>8, <1>9, SpellTyped
<1>11. \A i \in DOMAIN terms : Texted[i] = Written(i)
  BY DEF Texted
<1>12. \A i \in DOMAIN terms :
         Texted[i] = NodeText(infos[terms[i].symbol], ArgTexts(Texted, terms[i].args))
  BY <1>1, <1>6, <1>8 DEF Spells
<1> QED BY <1>6, <1>8, <1>10, <1>11, <1>12

\* A term is written as before when the bank grows.
LEMMA TextedGrows ==
  ASSUME BankOK, BankOK', TermsGrow, SymbolsGrow
  PROVE  \A i \in DOMAIN terms : i \in DOMAIN terms' /\ Texted'[i] = Texted[i]
<1>1. /\ Spells(Texted, infos, terms, Len(terms)) /\ DOMAIN terms = 1..Len(terms)
      /\ Len(terms) \in Nat /\ ArgsOlder(terms, Len(terms))
  BY TextedSpells, TreesUnfold
<1>2. /\ Spells(Texted', infos', terms', Len(terms')) /\ DOMAIN terms' = 1..Len(terms')
      /\ Len(terms') \in Nat
  <2>1. (BankOK => Spells(Texted, infos, terms, Len(terms)))'
    BY TextedSpells, PTL
  <2>2. (BankOK => DOMAIN terms = 1..Len(terms) /\ Len(terms) \in Nat)'
    BY TreesUnfold, PTL
  <2> QED BY <2>1, <2>2 DEF Spells, ArgTexts
<1>3. \A i \in 1..Len(terms) : terms'[i] = terms[i] /\ infos'[terms[i].symbol] = infos[terms[i].symbol]
  BY <1>1, StoredFields DEF TermsGrow, SymbolsGrow, BankOK
<1>4. 1..Len(terms) \subseteq 1..Len(terms')
  BY <1>1, <1>2 DEF TermsGrow
<1>5. Len(terms) <= Len(terms')
  BY <1>1, <1>2, <1>4
<1> QED BY <1>1, <1>2, <1>3, <1>4, <1>5, SpellSame

\* The symbol intern() yields has the name and the kind that were asked for.
LEMMA InternNames ==
  ASSUME SymbolsOK, NEW name \in Name, NEW kind \in SymbolKind, NEW arity \in Nat,
         intern(name, kind, arity)
  PROVE  infos'[SymbolOf(name)].name = name
<1>1. CASE name \in DOMAIN name_to_id
  <2>1. UNCHANGED infos /\ SymbolOf(name) = name_to_id[name]
    BY <1>1 DEF intern, SymbolOf
  <2>2. PICK s \in DOMAIN infos : infos[s].name = name
    BY <1>1 DEF SymbolsOK
  <2>3. name_to_id[name] = s
    BY <2>2 DEF SymbolsOK
  <2> QED BY <2>1, <2>2, <2>3
<1>2. CASE name \notin DOMAIN name_to_id
  <2> DEFINE e == [name |-> name, kind |-> kind, arity |-> arity % ArityMod]
  <2>1. infos' = Append(infos, e) /\ SymbolOf(name) = Len(infos) + 1
    BY <1>2 DEF intern, SymbolOf
  <2>2. e \in SymbolInfo /\ e.name = name
    BY ArityModTyped DEF ArityModTyped, SymbolInfo
  <2> HIDE DEF e
  <2>3. infos'[Len(infos) + 1] = e
    BY <2>1, <2>2, AppendInfo DEF SymbolsOK
  <2> QED BY <2>1, <2>2, <2>3
<1> QED BY <1>1, <1>2

\* makeTerm() yields the id of the term that was asked for.
LEMMA MakeTermIs ==
  ASSUME TermsOK, NEW t, makeTerm(t)
  PROVE  terms'[IdOf(t)] = t
<1>1. CASE t \in DOMAIN term_to_id
  <2>1. UNCHANGED terms /\ IdOf(t) = term_to_id[t]
    BY <1>1 DEF makeTerm, IdOf
  <2>2. PICK i \in DOMAIN terms : terms[i] = t
    BY <1>1 DEF TermsOK
  <2>3. term_to_id[t] = i
    BY <2>2 DEF TermsOK
  <2> QED BY <2>1, <2>2, <2>3
<1>2. CASE t \notin DOMAIN term_to_id
  <2>1. terms' = Append(terms, t) /\ IdOf(t) = Len(terms) + 1
    BY <1>2 DEF makeTerm, IdOf
  <2>2. terms \in Seq(StoredTerm(DOMAIN infos, DOMAIN terms))
    BY DEF TermsOK
  <2> QED BY <2>1, <2>2
<1> QED BY <1>1, <1>2

\* So the term the parser makes is written as it was asked for.
LEMMA NamedTermText ==
  ASSUME BankOK, NEW name \in Name, NEW kind \in SymbolKind, NEW args \in Seq(DOMAIN terms),
         kind # "kFunction" => args = <<>>,
         intern(name, kind, Len(args)), makeTerm(Term(SymbolOf(name), args))
  PROVE  /\ BankOK' /\ TermsGrow /\ SymbolsGrow
         /\ IdOf(Term(SymbolOf(name), args)) \in DOMAIN terms'
         /\ \E info : /\ info.name = name /\ info.kind = kind
                      /\ Texted'[IdOf(Term(SymbolOf(name), args))]
                           = NodeText(info, ArgTexts(Texted', args))
<1>1. /\ BankOK' /\ TermsGrow /\ SymbolsGrow
      /\ IdOf(Term(SymbolOf(name), args)) \in DOMAIN terms'
  BY NamedTermKeeps
<1>2. Len(args) \in Nat
  OBVIOUS
<1>3. infos'[SymbolOf(name)].name = name /\ infos'[SymbolOf(name)].kind = kind
  BY <1>2, InternKeeps, InternNames DEF BankOK
<1> DEFINE t  == Term(SymbolOf(name), args)
           id == IdOf(t)
<1>4. terms'[id] = t /\ t.symbol = SymbolOf(name) /\ t.args = args
  BY MakeTermIs DEF BankOK, Term
<1>5. Spells(Texted', infos', terms', Len(terms')) /\ DOMAIN terms' = 1..Len(terms')
  <2>1. (BankOK => Spells(Texted, infos, terms, Len(terms)))'
    BY TextedSpells, PTL
  <2>2. (BankOK => DOMAIN terms = 1..Len(terms))'
    BY TreesUnfold, PTL
  <2> QED BY <1>1, <2>1, <2>2 DEF Spells, ArgTexts
<1>6. \A i \in DOMAIN terms' :
        Texted'[i] = NodeText(infos'[terms'[i].symbol], ArgTexts(Texted', terms'[i].args))
  BY <1>5 DEF Spells
<1> HIDE DEF id, t
<1>7. Texted'[id] = NodeText(infos'[SymbolOf(name)], ArgTexts(Texted', args))
  <2>1. id \in DOMAIN terms'
    BY <1>1 DEF id, t
  <2> QED BY <1>4, <1>6, <2>1
<1> QED BY <1>1, <1>3, <1>7 DEF id, t

\* Names alone, when they are variables or constants.
LEMMA NameText ==
  ASSUME BankOK, NEW name \in Name, Variable(name) \/ Constant(name)
  PROVE  /\ BankOK' /\ TermsGrow /\ SymbolsGrow
         /\ IdOf(Term(SymbolOf(name), <<>>)) \in DOMAIN terms'
         /\ Texted'[IdOf(Term(SymbolOf(name), <<>>))] = <<Word(name)>>
<1>1. <<>> \in Seq(DOMAIN terms) /\ Len(<<>>) = 0
  OBVIOUS
<1>2. PICK kind \in SymbolKind :
        /\ kind # "kFunction" /\ intern(name, kind, Len(<<>>))
        /\ makeTerm(Term(SymbolOf(name), <<>>))
  <2>1. {"kVariable", "kConstant"} \subseteq SymbolKind
    BY DEF SymbolKind
  <2> QED BY <1>1, <2>1 DEF Variable, Constant
<1>3. /\ BankOK' /\ TermsGrow /\ SymbolsGrow
      /\ IdOf(Term(SymbolOf(name), <<>>)) \in DOMAIN terms'
      /\ \E info : /\ info.name = name /\ info.kind = kind
                   /\ Texted'[IdOf(Term(SymbolOf(name), <<>>))]
                        = NodeText(info, ArgTexts(Texted', <<>>))
  <2>1. PICK args \in Seq(DOMAIN terms) :
          /\ args = <<>> /\ intern(name, kind, Len(args))
          /\ makeTerm(Term(SymbolOf(name), args))
    BY <1>1, <1>2
  <2>2. /\ BankOK' /\ TermsGrow /\ SymbolsGrow
        /\ IdOf(Term(SymbolOf(name), args)) \in DOMAIN terms'
        /\ \E info : /\ info.name = name /\ info.kind = kind
                     /\ Texted'[IdOf(Term(SymbolOf(name), args))]
                          = NodeText(info, ArgTexts(Texted', args))
    BY <2>1, NamedTermText
  <2> QED BY <2>1, <2>2
<1>4. \A info, p : info.name = name /\ info.kind = kind => NodeText(info, p) = <<Word(name)>>
  <2> TAKE info, p
  <2> HAVE info.name = name /\ info.kind = kind
  <2>1. NodeText(info, p) = <<Word(name)>> \o <<>>
    BY <1>2 DEF NodeText
  <2> QED BY <2>1
<1> QED BY <1>3, <1>4

\* An application of terms there are.
LEMMA ApplicationText ==
  ASSUME BankOK, NEW name \in Name, NEW args \in Seq(DOMAIN terms), Application(name, args)
  PROVE  /\ BankOK' /\ TermsGrow /\ SymbolsGrow
         /\ IdOf(Term(SymbolOf(name), args)) \in DOMAIN terms'
         /\ \E info : /\ info.name = name /\ info.kind = "kFunction"
                      /\ Texted'[IdOf(Term(SymbolOf(name), args))]
                           = NodeText(info, ArgTexts(Texted', args))
<1>1. "kFunction" \in SymbolKind
  BY DEF SymbolKind
<1> QED BY <1>1, NamedTermText DEF Application

-----------------------------------------------------------------------------
(* Tokens that are consumed                                                 *)

\* The tokens ahead are tokens, and a word is that of its value.
LEMMA SourceTokens ==
  ASSUME SourceOK(ahead)
  PROVE  /\ ahead \in Tokens /\ ahead \in Seq(AnyToken) /\ Len(ahead) \in Nat
         /\ \A k \in 1..Len(ahead) : Token(k) = ahead[k] /\ ahead[k] \in AnyToken
         /\ \A k \in Nat \ {0} : Token(k) # EndOfFile => k \in 1..Len(ahead)
         /\ \A k \in Nat \ {0} : Token(k).type = "kWord" =>
              k \in 1..Len(ahead) /\ Token(k) = Word(Token(k).value) /\ Token(k).value \in Name
<1>1. ahead \in Seq(SourceToken) /\ Len(ahead) \in Nat
  BY DEF SourceOK
<1>2. SourceToken \subseteq AnyToken
  BY DEF SourceToken, AnyToken
<1>3. ahead \in Seq(AnyToken)
  BY <1>1, <1>2, SeqMonotonic
<1>4. \A k \in 1..Len(ahead) : Token(k) = ahead[k] /\ ahead[k] \in AnyToken
  BY <1>1, <1>3, ElementOfSeq DEF Token
<1>5. \A k \in Nat \ {0} : Token(k) # EndOfFile => k \in 1..Len(ahead)
  BY <1>1 DEF Token
<1>6. ASSUME NEW k \in Nat \ {0}, Token(k).type = "kWord"
      PROVE  k \in 1..Len(ahead) /\ Token(k) = Word(Token(k).value) /\ Token(k).value \in Name
  <2>1. Token(k) # EndOfFile
    <3>1. EndOfFile.type = "kEOF"
      BY DEF EndOfFile
    <3> QED BY <1>6, <3>1
  <2>2. k \in 1..Len(ahead) /\ Token(k) = ahead[k]
    BY <1>4, <1>5, <2>1
  <2>3. ahead[k] \in SourceToken /\ k \in DOMAIN ahead
    BY <1>1, <2>2, ElementOfSeq
  <2>4. ahead[k].value \in Name
    BY <1>6, <2>2, <2>3 DEF SourceOK
  <2>5. ahead[k] = Word(ahead[k].value)
    BY <1>6, <2>2, <2>3 DEF SourceToken, Word
  <2> QED BY <2>2, <2>4, <2>5
<1> QED BY <1>1, <1>3, <1>4, <1>5, <1>6 DEF Tokens

\* What advance(n) consumes and what it leaves make what was ahead.
LEMMA Consumed ==
  ASSUME SourceOK(ahead), NEW n \in Nat, n <= Len(ahead), advance(n)
  PROVE  /\ ahead = SubSeq(ahead, 1, n) ++ ahead'
         /\ ahead' \in Tokens /\ SubSeq(ahead, 1, n) \in Tokens
         /\ Len(SubSeq(ahead, 1, n)) = n
         /\ \A k \in 1..n : SubSeq(ahead, 1, n)[k] = Token(k)
<1>1. ahead \in Seq(AnyToken) /\ Len(ahead) \in Nat
  BY SourceTokens
<1>2. ahead' = SubSeq(ahead, n + 1, Len(ahead))
  BY DEF advance
<1>3. /\ SubSeq(ahead, 1, n) \in Seq(AnyToken) /\ Len(SubSeq(ahead, 1, n)) = n
      /\ \A k \in 1..n : SubSeq(ahead, 1, n)[k] = ahead[k]
  BY <1>1, SMTT(30)
<1>4. /\ ahead' \in Seq(AnyToken) /\ Len(ahead') = Len(ahead) - n
      /\ \A k \in 1..(Len(ahead) - n) : ahead'[k] = ahead[n + k]
  BY <1>1, <1>2, SMTT(30)
<1>5. ahead = SubSeq(ahead, 1, n) \o ahead'
  <2> DEFINE c == SubSeq(ahead, 1, n) \o ahead'
  <2>1. c \in Seq(AnyToken) /\ Len(c) = Len(ahead)
    BY <1>1, <1>3, <1>4, ConcatProperties
  <2>2. \A k \in 1..Len(ahead) : c[k] = ahead[k]
    <3> TAKE k \in 1..Len(ahead)
    <3>1. c[k] = IF k <= n THEN SubSeq(ahead, 1, n)[k] ELSE ahead'[k - n]
      BY <1>1, <1>3, <1>4, ConcatProperties
    <3>2. CASE k <= n
      BY <1>3, <3>1, <3>2
    <3>3. CASE ~(k <= n)
      <4>1. k - n \in 1..(Len(ahead) - n) /\ n + (k - n) = k
        BY <1>1, <3>3
      <4> QED BY <1>4, <3>1, <3>3, <4>1
    <3> QED BY <3>2, <3>3
  <2> HIDE DEF c
  <2>3. c = ahead
    BY <1>1, <2>1, <2>2, SeqEqual
  <2> QED BY <2>3 DEF c
<1>6. \A k \in 1..n : Token(k) = ahead[k]
  BY <1>1, SourceTokens
<1> QED BY <1>3, <1>4, <1>5, <1>6 DEF Tokens, ++

\* One token, two, or the six of a header.
LEMMA Consumed1 ==
  ASSUME SourceOK(ahead), Token(1) # EndOfFile, advance(1)
  PROVE  ahead = <<Token(1)>> ++ ahead' /\ ahead' \in Tokens /\ <<Token(1)>> \in Tokens
<1>1. 1 <= Len(ahead) /\ Len(ahead) \in Nat
  BY SourceTokens
<1>2. PICK c \in Tokens : Len(c) = 1 /\ c[1] = Token(1) /\ ahead = c ++ ahead' /\ ahead' \in Tokens
  <2>1. 1 \in Nat /\ 1 \in 1..1
    OBVIOUS
  <2> QED BY <1>1, <2>1, Consumed
<1>3. c = <<Token(1)>>
  BY <1>2 DEF Tokens
<1> QED BY <1>2, <1>3

LEMMA Consumed2 ==
  ASSUME SourceOK(ahead), Token(2) # EndOfFile, advance(2)
  PROVE  ahead = <<Token(1), Token(2)>> ++ ahead' /\ ahead' \in Tokens
<1>1. 2 <= Len(ahead) /\ Len(ahead) \in Nat
  BY SourceTokens
<1>2. PICK c \in Tokens : /\ Len(c) = 2 /\ c[1] = Token(1) /\ c[2] = Token(2)
                          /\ ahead = c ++ ahead' /\ ahead' \in Tokens
  <2>1. 2 \in Nat /\ 1 \in 1..2 /\ 2 \in 1..2
    OBVIOUS
  <2> QED BY <1>1, <2>1, Consumed
<1>3. c = <<Token(1), Token(2)>>
  BY <1>2 DEF Tokens
<1> QED BY <1>2, <1>3

LEMMA Consumed6 ==
  ASSUME SourceOK(ahead), Token(6) # EndOfFile, advance(6)
  PROVE  /\ ahead' \in Tokens
         /\ ahead = <<Token(1), Token(2), Token(3), Token(4), Token(5), Token(6)>> ++ ahead'
<1>1. 6 <= Len(ahead) /\ Len(ahead) \in Nat
  BY SourceTokens
<1>2. PICK c \in Tokens : /\ Len(c) = 6 /\ ahead = c ++ ahead' /\ ahead' \in Tokens
                          /\ \A k \in 1..6 : c[k] = Token(k)
  BY <1>1, Consumed
<1>3. /\ c[1] = Token(1) /\ c[2] = Token(2) /\ c[3] = Token(3)
      /\ c[4] = Token(4) /\ c[5] = Token(5) /\ c[6] = Token(6)
  BY <1>2
<1>4. c = <<Token(1), Token(2), Token(3), Token(4), Token(5), Token(6)>>
  BY <1>2, <1>3 DEF Tokens
<1> QED BY <1>2, <1>4

-----------------------------------------------------------------------------
(* The words of a text                                                      *)

RolesOf(s) == {t.value : t \in {u \in ToSet(s) : u.type = "kWord"}}

\* A word of what is left of a text is a word of the text.
LEMMA WordOfText ==
  ASSUME SourceOK(ahead), NEW x \in Tokens, text = x ++ ahead,
         NEW k \in Nat \ {0}, Token(k).type = "kWord"
  PROVE  Token(k).value \in RolesOf(text)
<1>1. /\ k \in 1..Len(ahead) /\ Token(k) = ahead[k] /\ Len(ahead) \in Nat
      /\ ahead \in Seq(AnyToken) /\ x \in Seq(AnyToken) /\ Len(x) \in Nat
  BY SourceTokens DEF Tokens
<1>2. PICK n \in Nat : n = Len(x) + k
  BY <1>1
<1>3. /\ text = x \o ahead /\ text \in Seq(AnyToken) /\ Len(text) = Len(x) + Len(ahead)
      /\ \A i \in 1..(Len(x) + Len(ahead)) :
           text[i] = IF i <= Len(x) THEN x[i] ELSE ahead[i - Len(x)]
  BY <1>1, ConcatProperties DEF ++
<1>4. n \in 1..(Len(x) + Len(ahead)) /\ ~(n <= Len(x)) /\ n - Len(x) = k
  BY <1>1, <1>2
<1>5. text[n] = ahead[k] /\ n \in DOMAIN text
  BY <1>3, <1>4
<1>6. Token(k) \in ToSet(text)
  BY <1>1, <1>5 DEF ToSet
<1> QED BY <1>6 DEF RolesOf

-----------------------------------------------------------------------------
(* The invariant                                                            *)

Between == {"formula", "parsed", "prepared"}
Inside  == {"literal", "term", "argument", "literals"}

\* What was read of the current formula, whose header ends with b, and the rest.
IsRead(b) ==
  /\ pc = "literal"  => text = AtLiteral(Texted, b, clause) ++ ahead
  /\ pc = "term"     => text = AtTerm(Texted, b, clause, is_positive, stack) ++ ahead
  /\ pc = "argument" => text = AtArgument(Texted, b, clause, is_positive, stack) ++ ahead
  /\ pc = "literals" => text = AtLiterals(Texted, b, clause) ++ ahead

\* The formulas that were read, when roles are the words of their roles.
Parsed(roles) ==
  [n \in DOMAIN formulas |-> FormulaText(Texted, formulas[n].name, roles[n], ClauseOf(n))]
Done(roles)   == FlattenSeq(Parsed(roles))

Remembered(roles) ==
  /\ \A n \in DOMAIN formulas : formulas[n].role = parseRole(roles[n])
  /\ pc \in Between => text = Done(roles) ++ ahead
  /\ pc \in Inside =>
       \E role \in RolesOf(text) :
         header.role = parseRole(role) /\ IsRead(Done(roles) ++ HeadText(header.name, role))

\* What is empty when, and what the cache has.
ReadingShape ==
  /\ text \in Texts \cup {<<>>}
  /\ pc \in Between \cup Inside \cup {"idle", "failed"}
  /\ pc \in Between => clause = <<>>
  /\ pc \in {"parsed", "prepared"} => ahead = <<>>
  /\ pc \in Between \cup {"literal", "literals"} => stack = <<>>
  /\ pc = "literals" => clause # <<>>
  /\ pc = "argument" /\ Head(stack).args = <<>> => IsSymbol(")")
  /\ pc = "prepared" => DOMAIN prepared = DOMAIN formulas
  /\ \A x \in DOMAIN variable_cache : Texted[variable_cache[x]] = <<Word(x)>>

ReadingOK ==
  /\ ReadingShape
  /\ pc \in Between \cup Inside => \E roles \in [DOMAIN formulas -> RolesOf(text)] : Remembered(roles)

\* The types of the parser's state as the lemmas about texts have them.
LEMMA StateTexts ==
  ASSUME ParserTyped, BankOK
  PROVE  /\ Texted \in [DOMAIN terms -> Tokens]
         /\ clause \in Seq(Lits(DOMAIN terms)) /\ is_positive \in BOOLEAN
         /\ stack \in Seq(Calls(DOMAIN terms)) /\ SourceOK(ahead) /\ ahead \in Tokens
         /\ pc = "argument" => /\ Head(stack) \in Calls(DOMAIN terms)
                               /\ Tail(stack) \in Seq(Calls(DOMAIN terms))
                               /\ stack = <<Head(stack)>> \o Tail(stack)
<1>1. ParsedLiteral = Lits(DOMAIN terms) /\ SourceOK(ahead)
  BY DEF ParserTyped, ParsedLiteral, Lits, SourceOK, SourceToken
<1>2. stack \in Seq(Calls(DOMAIN terms))
  BY DEF ParserTyped, Calls
<1>3. pc = "argument" => /\ Head(stack) \in Calls(DOMAIN terms)
                         /\ Tail(stack) \in Seq(Calls(DOMAIN terms))
                         /\ stack = <<Head(stack)>> \o Tail(stack)
  <2>1. pc = "argument" => stack # <<>>
    BY DEF ParserTyped
  <2> QED BY <1>2, <2>1, HeadTailProperties
<1> QED BY <1>1, <1>2, <1>3, TextedSpells, SourceTokens DEF ParserTyped

\* The words of a text are names.
LEMMA RolesAreNames ==
  ASSUME text \in Texts \cup {<<>>}
  PROVE  RolesOf(text) \subseteq Name
<1> SUFFICES ASSUME NEW u \in ToSet(text), u.type = "kWord" PROVE u.value \in Name
  BY DEF RolesOf
<1>1. PICK k \in DOMAIN text : u = text[k]
  BY DEF ToSet
<1>2. text # <<>>
  BY <1>1
<1> QED BY <1>1, <1>2, TextsTyped DEF TextsTyped

\* The formulas there are make a text.
LEMMA DoneTyped ==
  ASSUME ParserTyped, BankOK, text \in Texts \cup {<<>>}, pc # "prepared",
         NEW roles \in [DOMAIN formulas -> RolesOf(text)]
  PROVE  Parsed(roles) \in Seq(Tokens) /\ Len(Parsed(roles)) = Len(formulas) /\ Done(roles) \in Tokens
<1>1. PICK m \in Nat : m = Len(formulas) /\ DOMAIN formulas = 1..m
  <2>1. formulas \in Seq(ParsedFormula)
    BY DEF ParserTyped, ParsedFormula
  <2> QED BY <2>1, LenProperties
<1>2. ASSUME NEW n \in DOMAIN formulas
      PROVE  FormulaText(Texted, formulas[n].name, roles[n], ClauseOf(n)) \in Tokens
  <2>1. formulas \in Seq(ParsedFormula)
    BY DEF ParserTyped, ParsedFormula
  <2>2. formulas[n] \in ParsedFormula
    BY <2>1, ElementOfSeq
  <2>3. formulas[n].name \in Name /\ formulas[n].clause \in Seq(Lits(DOMAIN terms))
    BY <2>2 DEF ParsedFormula, ParsedLiteral, Lits
  <2>4. ClauseOf(n) = formulas[n].clause
    BY DEF ClauseOf
  <2>5. roles[n] \in STRING \cup Name
    BY RolesAreNames
  <2>6. <<>> \in Tokens /\ Texted \in [DOMAIN terms -> Tokens]
    BY StateTexts, Separators
  <2> QED BY <2>3, <2>4, <2>5, <2>6, ReadFormula
<1>3. Parsed(roles) \in [1..m -> Tokens]
  BY <1>1, <1>2 DEF Parsed
<1>4. Parsed(roles) \in Seq(Tokens) /\ Len(Parsed(roles)) = m
  BY <1>3
<1>5. Done(roles) \in Tokens
  BY <1>4, FlattenTyped DEF Done, Tokens
<1> QED BY <1>1, <1>4, <1>5

\* The texts of the formulas are the same when the bank grows under them.
LEMMA DoneGrows ==
  ASSUME ParserTyped, BankOK, BankOK', TermsGrow, SymbolsGrow, formulas' = formulas,
         pc # "prepared", pc' # "prepared", NEW roles
  PROVE  Done(roles)' = Done(roles)
<1>1. ASSUME NEW n \in DOMAIN formulas
      PROVE  FormulaText(Texted', formulas[n].name, roles[n], formulas[n].clause)
               = FormulaText(Texted, formulas[n].name, roles[n], formulas[n].clause)
  <2>1. formulas \in Seq(ParsedFormula)
    BY DEF ParserTyped, ParsedFormula
  <2>2. formulas[n] \in ParsedFormula
    BY <2>1, ElementOfSeq
  <2>3. formulas[n].clause \in Seq(Lits(DOMAIN terms))
    BY <2>2 DEF ParsedFormula, ParsedLiteral, Lits
  <2>4. LitTexts(Texted', formulas[n].clause) = LitTexts(Texted, formulas[n].clause)
    BY <2>3, TextedGrows, SameTexts
  <2> QED BY <2>4 DEF FormulaText
<1>2. Parsed(roles)' = Parsed(roles)
  BY <1>1 DEF Parsed, ClauseOf
<1> QED BY <1>2 DEF Done

\* And what was read of the current one.
LEMMA ReadGrows ==
  ASSUME ParserTyped, BankOK, BankOK', TermsGrow, SymbolsGrow, NEW b
  PROVE  /\ AtTerm(Texted', b, clause, is_positive, stack)
              = AtTerm(Texted, b, clause, is_positive, stack)
         /\ pc = "argument" =>
              /\ AtTerm(Texted', b, clause, is_positive, Tail(stack))
                   = AtTerm(Texted, b, clause, is_positive, Tail(stack))
              /\ ArgTexts(Texted', Head(stack).args) = ArgTexts(Texted, Head(stack).args)
<1>1. /\ clause \in Seq(Lits(DOMAIN terms)) /\ stack \in Seq(Calls(DOMAIN terms))
      /\ pc = "argument" => /\ Head(stack) \in Calls(DOMAIN terms)
                            /\ Tail(stack) \in Seq(Calls(DOMAIN terms))
  BY StateTexts
<1>2. \A i \in DOMAIN terms : Texted'[i] = Texted[i]
  BY TextedGrows
<1>3. /\ LitTexts(Texted', clause) = LitTexts(Texted, clause)
      /\ CallTexts(Texted', stack) = CallTexts(Texted, stack)
      /\ pc = "argument" =>
           /\ CallTexts(Texted', Tail(stack)) = CallTexts(Texted, Tail(stack))
           /\ ArgTexts(Texted', Head(stack).args) = ArgTexts(Texted, Head(stack).args)
  <2>1. pc = "argument" => Head(stack).args \in Seq(DOMAIN terms)
    BY <1>1 DEF Calls
  <2>2. PICK D, V, W : D = DOMAIN terms /\ V = Texted' /\ W = Texted
    OBVIOUS
  <2>3. /\ \A args \in Seq(D) : ArgTexts(V, args) = ArgTexts(W, args)
        /\ \A c \in Seq(Lits(D)) : LitTexts(V, c) = LitTexts(W, c)
        /\ \A s \in Seq(Calls(D)) : CallTexts(V, s) = CallTexts(W, s)
    BY <1>2, <2>2, SameTexts
  <2> QED BY <1>1, <2>1, <2>2, <2>3
<1> QED BY <1>3 DEF AtTerm, AtLiteral

\* A step inside a formula that reads on in it keeps what is remembered.
LEMMA InsideStep ==
  ASSUME ParserTyped, BankOK, BankOK', TermsGrow, SymbolsGrow, ReadingOK,
         pc \in Inside, pc' \in Inside, UNCHANGED <<text, formulas, header>>,
         \A b \in Tokens : IsRead(b) => IsRead(b)'
  PROVE  \E roles \in [DOMAIN formulas' -> RolesOf(text')] : Remembered(roles)'
<1>1. /\ pc # "prepared" /\ pc' # "prepared" /\ pc' \notin Between
      /\ text \in Texts \cup {<<>>}
  BY DEF Inside, Between, ReadingOK, ReadingShape
<1>2. PICK roles \in [DOMAIN formulas -> RolesOf(text)] : Remembered(roles)
  BY DEF ReadingOK
<1>3. PICK role \in RolesOf(text) :
        header.role = parseRole(role) /\ IsRead(Done(roles) ++ HeadText(header.name, role))
  BY <1>2 DEF Remembered
<1>4. Done(roles)' = Done(roles)
  BY <1>1, DoneGrows
<1>5. Done(roles) ++ HeadText(header.name, role) \in Tokens
  <2>1. Done(roles) \in Tokens
    BY <1>1, <1>2, DoneTyped
  <2>2. header.name \in Name
    BY DEF ParserTyped, Inside, FormulaHeader
  <2>3. role \in STRING \cup Name
    BY <1>1, <1>3, RolesAreNames
  <2>4. <<>> \in Tokens /\ <<>> \in Seq(Lits(DOMAIN terms)) /\ Texted \in [DOMAIN terms -> Tokens]
    BY StateTexts, Separators
  <2>5. HeadText(header.name, role) \in Tokens
    BY <2>2, <2>3, <2>4, ReadFormula
  <2> QED BY <2>1, <2>5, JoinTyped
<1>6. \A b : b = Done(roles) ++ HeadText(header.name, role) =>
               IsRead(b) /\ b \in Tokens /\ b = Done(roles)' ++ HeadText(header'.name, role)
  BY <1>3, <1>4, <1>5
<1>7. IsRead(Done(roles) ++ HeadText(header.name, role))'
  <2>1. PICK b : b = Done(roles) ++ HeadText(header.name, role)
    OBVIOUS
  <2>2. IsRead(b)' /\ b = Done(roles)' ++ HeadText(header'.name, role)
    BY <1>6, <2>1
  <2> QED BY <2>2 DEF IsRead
<1>8. Remembered(roles)'
  <2>1. \A n \in DOMAIN formulas' : formulas'[n].role = parseRole(roles[n])
    BY <1>2 DEF Remembered
  <2> QED BY <1>1, <1>3, <1>7, <2>1 DEF Remembered
<1> QED BY <1>2, <1>8

\* Nothing of the bank, nothing of the texts.
LEMMA SameBankTexts ==
  ASSUME BankOK, UNCHANGED bank
  PROVE  BankOK' /\ TermsGrow /\ SymbolsGrow /\ Texted' = Texted
<1>1. UNCHANGED <<infos, terms>> /\ BankOK' /\ TermsGrow
  BY SameBank DEF bank, BankGrows
<1>2. Texted' = Texted
  BY <1>1 DEF Texted, Written
<1> QED BY <1>1, <1>2 DEF SymbolsGrow

\* Texts in a row, however they are grouped.
LEMMA Regroup ==
  ASSUME NEW x \in Tokens, NEW y \in Tokens, NEW z \in Tokens
  PROVE  x ++ (y ++ z) = (x ++ y) ++ z
BY Joined

-----------------------------------------------------------------------------
(* The steps between terms                                                  *)

\* A header is consumed and remembered.
LEMMA ReadBegin ==
  ASSUME ParserTyped, BankOK, ReadingOK, BeginFormula
  PROVE  ReadingOK'
<1>1. /\ pc = "formula" /\ pc' = "literal" /\ IsHeader /\ advance(6)
      /\ header' = [name |-> Token(3).value, role |-> parseRole(Token(5).value)]
      /\ UNCHANGED <<bank, text, stack, variable_cache, clause, is_positive, formulas, prepared>>
  BY DEF BeginFormula, call
<1>2. Texted' = Texted
  BY <1>1, SameBankTexts
<1>3. /\ clause = <<>> /\ stack = <<>> /\ text \in Texts \cup {<<>>}
      /\ pc # "prepared" /\ pc \in Between /\ pc' \in Inside /\ pc' \notin Between
      /\ \A x \in DOMAIN variable_cache : Texted[variable_cache[x]] = <<Word(x)>>
  BY <1>1 DEF ReadingOK, ReadingShape, Between, Inside
<1>4. ReadingShape'
  BY <1>1, <1>2, <1>3 DEF ReadingShape, Inside, Between
<1>5. PICK roles \in [DOMAIN formulas -> RolesOf(text)] :
        /\ \A n \in DOMAIN formulas : formulas[n].role = parseRole(roles[n])
        /\ text = Done(roles) ++ ahead
  BY <1>3 DEF ReadingOK, Remembered
<1>6. Done(roles) \in Tokens /\ SourceOK(ahead) /\ <<>> \in Tokens /\ Texted \in [DOMAIN terms -> Tokens]
  BY <1>3, DoneTyped, StateTexts, Separators
<1>7. PICK name \in Name, role \in Name \cap RolesOf(text) :
        /\ name = Token(3).value /\ role = Token(5).value
        /\ Token(3) = Word(name) /\ Token(5) = Word(role)
  <2>1. 3 \in Nat \ {0} /\ 5 \in Nat \ {0}
    OBVIOUS
  <2>2. Token(3).type = "kWord" /\ Token(5).type = "kWord"
    BY <1>1 DEF IsHeader
  <2> QED BY <1>5, <1>6, <2>1, <2>2, SourceTokens, WordOfText
<1>8. ahead = HeadText(name, role) ++ ahead' /\ ahead' \in Tokens
  <2>1. Token(6) # EndOfFile
    <3>1. Symbol(",").type = "symbol" /\ EndOfFile.type = "kEOF"
      BY DEF Symbol, EndOfFile
    <3> QED BY <1>1, <3>1 DEF IsHeader
  <2>2. /\ ahead' \in Tokens
        /\ ahead = <<Token(1), Token(2), Token(3), Token(4), Token(5), Token(6)>> ++ ahead'
    BY <1>1, <1>6, <2>1, Consumed6
  <2>3. /\ Token(1) = Word("cnf") /\ Token(2) = Symbol("(") /\ Token(4) = Symbol(",")
        /\ Token(6) = Symbol(",")
    BY <1>1 DEF IsHeader
  <2> QED BY <1>7, <2>2, <2>3 DEF HeadText
<1>9. HeadText(name, role) \in Tokens
  <2>1. <<>> \in Seq(Lits(DOMAIN terms))
    OBVIOUS
  <2> QED BY <1>6, <1>7, <2>1, ReadFormula
<1>10. text = (Done(roles) ++ HeadText(name, role)) ++ ahead'
  BY <1>5, <1>6, <1>8, <1>9, Regroup
<1>11. AtLiteral(Texted, Done(roles) ++ HeadText(name, role), <<>>) = Done(roles) ++ HeadText(name, role)
  <2>1. Done(roles) ++ HeadText(name, role) \in Tokens
    BY <1>6, <1>9, JoinTyped
  <2> QED BY <2>1, ReadHeader
<1>12. Done(roles)' = Done(roles)
  <2>1. BankOK' /\ TermsGrow /\ SymbolsGrow
    BY <1>1, SameBankTexts
  <2>2. pc # "prepared" /\ pc' # "prepared"
    BY <1>1
  <2> QED BY <1>1, <2>1, <2>2, DoneGrows
<1>13. header'.name = name /\ header'.role = parseRole(role)
  BY <1>1, <1>7
<1>14. IsRead(Done(roles) ++ HeadText(header.name, role))'
  BY <1>1, <1>2, <1>3, <1>10, <1>11, <1>12, <1>13 DEF IsRead
<1>15. Remembered(roles)'
  BY <1>1, <1>3, <1>5, <1>7, <1>13, <1>14 DEF Remembered
<1> QED BY <1>1, <1>4, <1>5, <1>15 DEF ReadingOK

\* The bar between two literals.
LEMMA ReadNext ==
  ASSUME ParserTyped, BankOK, ReadingOK, NextLiteral
  PROVE  ReadingOK'
<1>1. /\ pc = "literals" /\ pc' = "literal" /\ IsSymbol("|") /\ advance(1)
      /\ UNCHANGED <<bank, text, stack, variable_cache, header, clause, is_positive, formulas, prepared>>
  BY DEF NextLiteral, call, problem
<1>2. BankOK' /\ TermsGrow /\ SymbolsGrow /\ Texted' = Texted
  BY <1>1, SameBankTexts
<1>3. clause # <<>> /\ pc \in Inside /\ pc' \in Inside /\ pc' \notin Between
  BY <1>1 DEF ReadingOK, ReadingShape, Between, Inside
<1>4. ReadingShape'
  BY <1>1, <1>2 DEF ReadingOK, ReadingShape, Inside, Between
<1>5. ahead = <<Symbol("|")>> ++ ahead' /\ ahead' \in Tokens /\ <<Symbol("|")>> \in Tokens
  <2>1. Symbol("|").type = "symbol" /\ EndOfFile.type = "kEOF"
    BY DEF Symbol, EndOfFile
  <2>2. Token(1) = Symbol("|") /\ Token(1) # EndOfFile
    BY <1>1, <2>1 DEF IsSymbol
  <2>3. SourceOK(ahead)
    BY StateTexts
  <2> QED BY <1>1, <2>2, <2>3, Consumed1
<1>6. ASSUME NEW b \in Tokens, IsRead(b) PROVE IsRead(b)'
  <2>1. text = AtLiterals(Texted, b, clause) ++ ahead
    BY <1>1, <1>6 DEF IsRead
  <2>2. AtLiteral(Texted, b, clause) = AtLiterals(Texted, b, clause) ++ <<Symbol("|")>>
    BY <1>3, ReadBar, StateTexts
  <2>3. AtLiterals(Texted, b, clause) \in Tokens
    BY ReadTyped, StateTexts
  <2>4. text = AtLiteral(Texted, b, clause) ++ ahead'
    BY <1>5, <2>1, <2>2, <2>3, Regroup
  <2> QED BY <1>1, <1>2, <2>4 DEF IsRead
<1>7. \E roles \in [DOMAIN formulas' -> RolesOf(text')] : Remembered(roles)'
  BY <1>1, <1>2, <1>3, <1>6, InsideStep
<1> QED BY <1>4, <1>7 DEF ReadingOK

\* The sign of a literal.
LEMMA ReadSigned ==
  ASSUME ParserTyped, BankOK, ReadingOK, BeginLiteral
  PROVE  ReadingOK'
<1>1. /\ pc = "literal" /\ pc' = "term" /\ is_positive' = ~IsSymbol("~")
      /\ IF IsSymbol("~") THEN advance(1) ELSE UNCHANGED ahead
      /\ UNCHANGED <<bank, text, stack, variable_cache, header, clause, formulas, prepared>>
  BY DEF BeginLiteral, call
<1>2. BankOK' /\ TermsGrow /\ SymbolsGrow /\ Texted' = Texted
  BY <1>1, SameBankTexts
<1>3. stack = <<>> /\ pc \in Inside /\ pc' \in Inside /\ pc' \notin Between
  BY <1>1 DEF ReadingOK, ReadingShape, Between, Inside
<1>4. ReadingShape'
  BY <1>1, <1>2 DEF ReadingOK, ReadingShape, Inside, Between
<1>5. /\ ahead = SignText(is_positive') ++ ahead' /\ ahead' \in Tokens
      /\ SignText(is_positive') \in Tokens /\ is_positive' \in BOOLEAN
  <2>1. SourceOK(ahead) /\ ahead \in Tokens
    BY StateTexts
  <2>2. CASE IsSymbol("~")
    <3>1. Symbol("~").type = "symbol" /\ EndOfFile.type = "kEOF"
      BY DEF Symbol, EndOfFile
    <3>2. Token(1) = Symbol("~") /\ Token(1) # EndOfFile
      BY <2>2, <3>1 DEF IsSymbol
    <3>3. is_positive' = FALSE /\ advance(1)
      BY <1>1, <2>2
    <3> QED BY <2>1, <3>2, <3>3, Consumed1 DEF SignText
  <2>3. CASE ~IsSymbol("~")
    <3>1. is_positive' = TRUE /\ ahead' = ahead
      BY <1>1, <2>3
    <3> QED BY <2>1, <3>1, JoinEmpty, Separators DEF SignText
  <2> QED BY <2>2, <2>3
<1>6. ASSUME NEW b \in Tokens, IsRead(b) PROVE IsRead(b)'
  <2>1. text = AtLiteral(Texted, b, clause) ++ ahead
    BY <1>1, <1>6 DEF IsRead
  <2>2. AtTerm(Texted, b, clause, is_positive', <<>>) = AtLiteral(Texted, b, clause) ++ SignText(is_positive')
    BY <1>5, ReadSign, StateTexts
  <2>3. AtLiteral(Texted, b, clause) \in Tokens
    BY ReadTyped, StateTexts
  <2>4. text = AtTerm(Texted, b, clause, is_positive', <<>>) ++ ahead'
    BY <1>5, <2>1, <2>2, <2>3, Regroup
  <2> QED BY <1>1, <1>2, <1>3, <2>4 DEF IsRead
<1>7. \E roles \in [DOMAIN formulas' -> RolesOf(text')] : Remembered(roles)'
  BY <1>1, <1>2, <1>3, <1>6, InsideStep
<1> QED BY <1>4, <1>7 DEF ReadingOK

\* The text of the current formula, once it ends.
LEMMA StateFormula ==
  ASSUME ParserTyped, BankOK, pc = "literals", NEW role \in STRING \cup Name, NEW d \in Tokens
  PROVE  /\ HeadText(header.name, role) \in Tokens
         /\ FormulaText(Texted, header.name, role, clause) \in Tokens
         /\ AtLiterals(Texted, d ++ HeadText(header.name, role), clause) ++ <<Symbol(")"), Symbol(".")>>
              = d ++ FormulaText(Texted, header.name, role, clause)
<1>1. PICK name \in Name : name = header.name
  BY DEF ParserTyped, FormulaHeader
<1>2. PICK D, W, c : /\ D = DOMAIN terms /\ W = Texted /\ c = clause
                     /\ W \in [D -> Tokens] /\ c \in Seq(Lits(D))
  BY StateTexts
<1>3. /\ HeadText(name, role) \in Tokens /\ FormulaText(W, name, role, c) \in Tokens
      /\ AtLiterals(W, d ++ HeadText(name, role), c) ++ <<Symbol(")"), Symbol(".")>>
           = d ++ FormulaText(W, name, role, c)
  BY <1>2, ReadFormula
<1> QED BY <1>1, <1>2, <1>3

\* The formula that ends is one more text.
LEMMA ReadEnd ==
  ASSUME ParserTyped, BankOK, ReadingOK, EndFormula
  PROVE  ReadingOK'
<1> DEFINE new == [name |-> header.name, role |-> header.role, clause |-> clause]
<1>1. /\ pc = "literals" /\ pc' = "formula" /\ advance(2)
      /\ Token(1) = Symbol(")") /\ Token(2) = Symbol(".")
      /\ formulas' = Append(formulas, new) /\ clause' = <<>> /\ variable_cache' = <<>>
      /\ UNCHANGED <<bank, text, stack, header, is_positive, prepared>>
  BY DEF EndFormula, call, IsSymbol
<1>2. Texted' = Texted /\ new.name = header.name /\ new.role = header.role /\ new.clause = clause
  BY <1>1, SameBankTexts
<1> HIDE DEF new
<1>3. /\ stack = <<>> /\ pc \in Inside /\ pc # "prepared" /\ pc' \in Between /\ pc' \notin Inside
      /\ text \in Texts \cup {<<>>}
  BY <1>1 DEF ReadingOK, ReadingShape, Between, Inside
<1>4. ReadingShape'
  <2>1. DOMAIN <<>> = {}
    OBVIOUS
  <2> QED BY <1>1, <1>3, <2>1 DEF ReadingShape, Inside, Between
<1>5. PICK roles \in [DOMAIN formulas -> RolesOf(text)] : Remembered(roles)
  BY <1>3 DEF ReadingOK
<1>6. PICK role \in RolesOf(text) :
        /\ header.role = parseRole(role)
        /\ text = AtLiterals(Texted, Done(roles) ++ HeadText(header.name, role), clause) ++ ahead
  BY <1>1, <1>3, <1>5 DEF Remembered, IsRead
<1>7. /\ Parsed(roles) \in Seq(Tokens) /\ Len(Parsed(roles)) = Len(formulas) /\ Done(roles) \in Tokens
      /\ SourceOK(ahead) /\ Texted \in [DOMAIN terms -> Tokens]
      /\ clause \in Seq(Lits(DOMAIN terms)) /\ header.name \in Name /\ role \in STRING \cup Name
  <2>1. header.name \in Name
    BY <1>1 DEF ParserTyped, FormulaHeader
  <2> QED BY <1>3, <1>5, <1>6, <2>1, DoneTyped, StateTexts, RolesAreNames
<1> DEFINE last == FormulaText(Texted, header.name, role, clause)
<1>8. ahead = <<Symbol(")"), Symbol(".")>> ++ ahead' /\ ahead' \in Tokens
  <2>1. Symbol(".").type = "symbol" /\ EndOfFile.type = "kEOF"
    BY DEF Symbol, EndOfFile
  <2>2. Token(2) # EndOfFile
    BY <1>1, <2>1
  <2> QED BY <1>1, <1>7, <2>2, Consumed2
<1>9. last \in Tokens /\ text = (Done(roles) ++ last) ++ ahead'
  <2>1. /\ HeadText(header.name, role) \in Tokens /\ last \in Tokens
        /\ AtLiterals(Texted, Done(roles) ++ HeadText(header.name, role), clause)
             ++ <<Symbol(")"), Symbol(".")>> = Done(roles) ++ last
    BY <1>1, <1>7, StateFormula
  <2>2. PICK q \in Tokens : q = AtLiterals(Texted, Done(roles) ++ HeadText(header.name, role), clause)
    <3>1. Done(roles) ++ HeadText(header.name, role) \in Tokens
      BY <1>7, <2>1, JoinTyped
    <3>2. <<>> \in Seq(Calls(DOMAIN terms)) /\ TRUE \in BOOLEAN
      OBVIOUS
    <3> QED BY <1>7, <3>1, <3>2, ReadTyped
  <2>3. PICK e \in Tokens : e = <<Symbol(")"), Symbol(".")>>
    <3>1. Symbol(")") \in AnyToken /\ Symbol(".") \in AnyToken
      BY Separators DEF Spelled
    <3>2. \A y, z \in AnyToken : <<y, z>> \in Seq(AnyToken)
      OBVIOUS
    <3> QED BY <3>1, <3>2 DEF Tokens
  <2>4. text = q ++ (e ++ ahead') /\ q ++ e = Done(roles) ++ last
    BY <1>6, <1>8, <2>1, <2>2, <2>3
  <2> HIDE DEF last
  <2>5. q ++ (e ++ ahead') = (q ++ e) ++ ahead'
    BY <1>8, Regroup
  <2> QED BY <2>1, <2>4, <2>5
<1>10. PICK m \in Nat : /\ m = Len(formulas) /\ DOMAIN formulas = 1..m /\ DOMAIN formulas' = 1..(m + 1)
                        /\ formulas'[m + 1] = new /\ \A n \in 1..m : formulas'[n] = formulas[n]
  <2>1. formulas \in Seq(ParsedFormula)
    BY DEF ParserTyped, ParsedFormula
  <2>2. new \in ParsedFormula
    BY <1>1 DEF ParserTyped, FormulaHeader, ParsedFormula, new
  <2>3. /\ Len(formulas) \in Nat /\ DOMAIN formulas = 1..Len(formulas)
        /\ DOMAIN Append(formulas, new) = 1..(Len(formulas) + 1)
        /\ Append(formulas, new)[Len(formulas) + 1] = new
        /\ \A n \in 1..Len(formulas) : Append(formulas, new)[n] = formulas[n]
    BY <2>1, <2>2
  <2> QED BY <1>1, <2>3
<1> DEFINE roles2 == [n \in 1..(m + 1) |-> IF n \in 1..m THEN roles[n] ELSE role]
<1>11. /\ m + 1 \notin 1..m /\ m + 1 \in 1..(m + 1) /\ \A n \in 1..m : n \in 1..(m + 1)
       /\ \A n \in 1..(m + 1) : n = m + 1 \/ n \in 1..m
  BY <1>10
<1>12. /\ roles2 \in [DOMAIN formulas' -> RolesOf(text')] /\ roles2[m + 1] = role
       /\ \A n \in 1..m : roles2[n] = roles[n]
  BY <1>1, <1>5, <1>6, <1>10, <1>11
<1> HIDE DEF roles2
<1>13. \A n \in DOMAIN formulas' : formulas'[n].role = parseRole(roles2[n])
  <2>1. \A n \in 1..m : formulas[n].role = parseRole(roles[n])
    BY <1>5, <1>10 DEF Remembered
  <2> QED BY <1>2, <1>6, <1>10, <1>11, <1>12, <2>1
<1>14. Parsed(roles2)' = Append(Parsed(roles), last)
  <2>1. PICK f, s : f = Parsed(roles2)' /\ s = Parsed(roles)
    OBVIOUS
  <2>2. s = [n \in 1..m |-> FormulaText(Texted, formulas[n].name, roles[n], formulas[n].clause)]
    BY <1>3, <1>10, <2>1 DEF Parsed, ClauseOf
  <2>3. f = [n \in 1..(m + 1) |->
               FormulaText(Texted, formulas'[n].name, roles2[n], formulas'[n].clause)]
    BY <1>1, <1>2, <1>10, <2>1 DEF Parsed, ClauseOf
  <2>4. \A n \in 1..m : f[n] = s[n]
    BY <1>10, <1>11, <1>12, <2>2, <2>3
  <2>5. f[m + 1] = last
    BY <1>2, <1>10, <1>11, <1>12, <2>3
  <2>6. s \in Seq(Tokens) /\ Len(s) = m
    BY <1>7, <1>10, <2>1
  <2> HIDE DEF last
  <2>7. f \in Seq(Tokens) /\ Len(f) = m + 1
    <3>1. \A n \in 1..m : f[n] \in Tokens
      BY <2>4, <2>6, ElementOfSeq
    <3>2. \A n \in 1..(m + 1) : f[n] \in Tokens
      BY <1>9, <1>11, <2>5, <3>1
    <3>3. f = [n \in 1..(m + 1) |-> f[n]]
      BY <2>3
    <3>4. f \in [1..(m + 1) -> Tokens] /\ m + 1 \in Nat
      BY <3>2, <3>3
    <3> QED BY <3>4
  <2> QED BY <1>9, <2>1, <2>4, <2>5, <2>6, <2>7, IsAppend
<1> HIDE DEF last
<1>15. Done(roles2)' = Done(roles) ++ last
  BY <1>7, <1>9, <1>14, FlattenLast DEF Done
<1>16. Remembered(roles2)'
  BY <1>1, <1>3, <1>9, <1>13, <1>15 DEF Remembered
<1> QED BY <1>4, <1>12, <1>16 DEF ReadingOK

\* The end of the text, and the clauses on their way to the prover.
LEMMA ReadParsed ==
  ASSUME ParserTyped, BankOK, ReadingOK, EndProblem \/ prepareForProving
  PROVE  ReadingOK'
<1>1. /\ UNCHANGED <<bank, text, ahead, stack, variable_cache, clause>>
      /\ ahead = <<>> /\ pc \in Between /\ pc # "prepared" /\ pc' \in {"parsed", "prepared"}
  BY DEF EndProblem, prepareForProving, call, problem, ReadingOK, ReadingShape, Between
<1>2. Texted' = Texted
  BY <1>1, SameBankTexts
<1>3. /\ DOMAIN formulas' = DOMAIN formulas
      /\ \A n \in DOMAIN formulas : /\ formulas'[n].name = formulas[n].name
                                    /\ formulas'[n].role = formulas[n].role
                                    /\ ClauseOf(n)' = formulas[n].clause
      /\ pc' = "prepared" => DOMAIN prepared' = DOMAIN formulas
  <2>1. CASE EndProblem
    BY <2>1 DEF EndProblem, problem, ClauseOf
  <2>2. CASE prepareForProving
    <3>1. /\ formulas' = [n \in DOMAIN formulas |-> [formulas[n] EXCEPT !.clause = <<>>]]
          /\ prepared' = [n \in DOMAIN formulas |-> formulas[n].clause] /\ pc' = "prepared"
      BY <2>2 DEF prepareForProving
    <3>2. \A n \in DOMAIN formulas : formulas[n] \in ParsedFormula
      <4>1. formulas \in Seq(ParsedFormula)
        BY DEF ParserTyped, ParsedFormula
      <4> QED BY <4>1, ElementOfSeq
    <3>3. \A n \in DOMAIN formulas :
            /\ [formulas[n] EXCEPT !.clause = <<>>].name = formulas[n].name
            /\ [formulas[n] EXCEPT !.clause = <<>>].role = formulas[n].role
      BY <3>2 DEF ParsedFormula
    <3> QED BY <3>1, <3>3 DEF ClauseOf
  <2> QED BY <2>1, <2>2
<1>4. ReadingShape'
  BY <1>1, <1>2, <1>3 DEF ReadingOK, ReadingShape, Inside, Between
<1>5. PICK roles \in [DOMAIN formulas -> RolesOf(text)] : Remembered(roles)
  BY <1>1 DEF ReadingOK
<1>6. Parsed(roles)' = Parsed(roles)
  BY <1>1, <1>2, <1>3 DEF Parsed, ClauseOf
<1>7. Remembered(roles)'
  BY <1>1, <1>3, <1>5, <1>6 DEF Remembered, Done, Between, Inside
<1> QED BY <1>1, <1>3, <1>4, <1>5, <1>7 DEF ReadingOK

\* Nothing is remembered of a text that is rejected.
LEMMA ReadThrown ==
  ASSUME ParserTyped, BankOK, ReadingOK, Throw
  PROVE  ReadingOK'
<1>1. pc' = "failed" /\ UNCHANGED <<bank, text, ahead, stack, variable_cache, clause>>
  BY DEF Throw, call
<1>2. Texted' = Texted
  BY <1>1, SameBankTexts
<1> QED BY <1>1, <1>2 DEF ReadingOK, ReadingShape, Inside, Between

\* Nothing has been read of a new text.
LEMMA ReadCall ==
  ASSUME NEW t \in Texts, parseTptpString(t)
  PROVE  ReadingOK'
<1>1. /\ text' = t /\ ahead' = t /\ stack' = <<>> /\ variable_cache' = <<>> /\ clause' = <<>>
      /\ formulas' = <<>> /\ pc' = "formula"
  BY DEF parseTptpString
<1>2. DOMAIN <<>> = {}
  OBVIOUS
<1>3. ReadingShape'
  BY <1>1, <1>2 DEF ReadingShape, Inside, Between
<1>4. PICK roles : roles = [n \in {} |-> 0]
  OBVIOUS
<1>5. roles \in [DOMAIN formulas' -> RolesOf(text')]
  BY <1>1, <1>2, <1>4
<1>6. Done(roles)' = <<>>
  <2>1. Parsed(roles)' = <<>>
    BY <1>1, <1>2 DEF Parsed
  <2>2. Len(<<>>) = 0
    OBVIOUS
  <2> QED BY <2>1, <2>2 DEF Done, FlattenSeq
<1>7. t \in Tokens
  <2>1. t \in Seq(SourceToken) /\ SourceToken \subseteq AnyToken
    BY TextsTyped DEF TextsTyped, SourceToken, AnyToken
  <2> QED BY <2>1, SeqMonotonic DEF Tokens
<1>8. Remembered(roles)'
  BY <1>1, <1>2, <1>6, <1>7, JoinEmpty DEF Remembered, Inside
<1> QED BY <1>3, <1>5, <1>8 DEF ReadingOK

\* A step that changes nothing.
LEMMA ReadNothing ==
  ASSUME ParserTyped, BankOK, ReadingOK, UNCHANGED vars
  PROVE  ReadingOK'
<1>1. /\ UNCHANGED <<bank, text, ahead, stack, variable_cache, header, clause, is_positive,
                     formulas, prepared, pc>>
      /\ Texted' = Texted
  BY SameBankTexts DEF vars
<1>2. ReadingShape' = ReadingShape
  BY <1>1 DEF ReadingShape, IsSymbol, Token
<1>3. \A roles : Remembered(roles)' = Remembered(roles)
  <2> TAKE roles
  <2>1. Done(roles)' = Done(roles)
    BY <1>1 DEF Done, Parsed, ClauseOf
  <2>2. \A b : IsRead(b)' = IsRead(b)
    BY <1>1 DEF IsRead
  <2> QED BY <1>1, <2>1, <2>2 DEF Remembered, IsRead
<1> QED BY <1>1, <1>2, <1>3 DEF ReadingOK

-----------------------------------------------------------------------------
(* The steps of parseTerm()                                                 *)

\* The value of a call of parseTerm() is the next argument or the atom of a literal.
LEMMA ReturnReads ==
  ASSUME BankOK', NEW id \in DOMAIN terms', NEW calls \in Seq(Calls(DOMAIN terms')),
         clause \in Seq(Lits(DOMAIN terms')), is_positive' = is_positive, is_positive \in BOOLEAN,
         NEW b \in Tokens, Return(id, calls),
         text' = (AtTerm(Texted', b, clause, is_positive, calls) ++ Texted'[id]) ++ ahead'
  PROVE  IsRead(b)'
<1>1. PICK D, W : D = DOMAIN terms' /\ W = Texted' /\ W \in [D -> Tokens]
  <2>1. (BankOK => Spells(Texted, infos, terms, Len(terms)) /\ Texted \in [DOMAIN terms -> Tokens])'
    BY TextedSpells, PTL
  <2> QED BY <2>1
<1>2. CASE calls = <<>>
  <2>1. clause' = Append(clause, [atom |-> id, is_positive |-> is_positive]) /\ pc' = "literals"
    BY <1>2 DEF Return
  <2>2. AtLiterals(W, b, clause') = AtTerm(W, b, clause, is_positive, <<>>) ++ W[id]
    BY <1>1, <2>1, ReadLiteral
  <2> QED BY <1>1, <1>2, <2>1, <2>2 DEF IsRead
<1>3. CASE calls # <<>>
  <2>1. PICK c, s : /\ c = clause /\ c \in Seq(Lits(D)) /\ id \in D
                    /\ s = calls /\ s \in Seq(Calls(D)) /\ s # <<>>
    BY <1>1, <1>3
  <2>2. Head(s) \in Calls(D) /\ Tail(s) \in Seq(Calls(D))
    BY <2>1, HeadTailProperties
  <2>3. /\ stack' = <<[Head(s) EXCEPT !.args = Append(@, id)]>> \o Tail(s)
        /\ pc' = "argument" /\ clause' = clause
    BY <1>3, <2>1 DEF Return
  <2>4. PICK r : /\ r = stack' /\ Tail(r) = Tail(s) /\ Head(r).name = Head(s).name
                 /\ Head(r).args = Append(Head(s).args, id)
    <3>1. PICK f, t : f = Head(s) /\ t = Tail(s) /\ f \in Calls(D) /\ t \in Seq(Calls(D))
      BY <2>2
    <3>2. PICK g : g = [f EXCEPT !.args = Append(@, id)] /\ g.name = f.name /\ g.args = Append(f.args, id)
      <4>1. f \in [name : Name, args : Seq(D)]
        BY <3>1 DEF Calls
      <4>2. /\ [f EXCEPT !.args = Append(@, id)].name = f.name
            /\ [f EXCEPT !.args = Append(@, id)].args = Append(f.args, id)
        BY <4>1
      <4> QED BY <4>2
    <3>3. Head(<<g>> \o t) = g /\ Tail(<<g>> \o t) = t
      BY <3>1
    <3> QED BY <2>3, <3>1, <3>2, <3>3
  <2>5. AtArgument(W, b, clause, is_positive, stack')
          = AtTerm(W, b, clause, is_positive, calls) ++ W[id]
    <3>1. AtArgument(W, b, c, is_positive, r) = AtTerm(W, b, c, is_positive, s) ++ W[id]
      <4>1. \A pos \in BOOLEAN : AtArgument(W, b, c, pos, r) = AtTerm(W, b, c, pos, s) ++ W[id]
        BY <1>1, <2>1, <2>4, ReadArgument
      <4> QED BY <1>1, <4>1
    <3> QED BY <2>1, <2>4, <3>1
  <2> QED BY <1>1, <2>3, <2>5 DEF IsRead
<1> QED BY <1>2, <1>3

\* And what the parser's state looks like then.
LEMMA ReturnShape ==
  ASSUME ReadingShape, ParserTyped, BankOK, NEW id, NEW calls \in Seq(OpenCall), Return(id, calls),
         text' = text,
         \A x \in DOMAIN variable_cache' : Texted'[variable_cache'[x]] = <<Word(x)>>
  PROVE  ReadingShape' /\ pc' \in Inside
<1>1. CASE calls = <<>>
  <2>1. /\ clause' = Append(clause, [atom |-> id, is_positive |-> is_positive])
        /\ pc' = "literals" /\ stack' = <<>>
    BY <1>1 DEF Return
  <2>2. clause' # <<>>
    <3>1. clause \in Seq(ParsedLiteral)
      BY DEF ParserTyped
    <3>2. Len(clause') = Len(clause) + 1 /\ Len(clause) \in Nat
      BY <2>1, <3>1
    <3>3. Len(<<>>) = 0
      OBVIOUS
    <3> QED BY <3>2, <3>3
  <2> QED BY <2>1, <2>2 DEF ReadingShape, Inside, Between
<1>2. CASE calls # <<>>
  <2> DEFINE f == [Head(calls) EXCEPT !.args = Append(@, id)]
  <2>1. stack' = <<f>> \o Tail(calls) /\ pc' = "argument"
    BY <1>2 DEF Return
  <2>2. Head(calls) \in OpenCall /\ Tail(calls) \in Seq(OpenCall)
    BY <1>2, HeadTailProperties
  <2>3. f.args = Append(Head(calls).args, id) /\ Head(calls).args \in Seq(DOMAIN terms)
    BY <2>2 DEF OpenCall
  <2>4. f.args # <<>>
    <3>1. \A a \in Seq(DOMAIN terms) : Append(a, id) # <<>>
      BY AppendProperties
    <3> HIDE DEF f
    <3> QED BY <2>3, <3>1
  <2> HIDE DEF f
  <2>5. Head(stack') = f
    <3>1. PICK t \in Seq(OpenCall) : t = Tail(calls)
      BY <2>2
    <3>2. \A g : Head(<<g>> \o t) = g
      OBVIOUS
    <3> QED BY <2>1, <3>1, <3>2
  <2> QED BY <2>1, <2>4, <2>5 DEF ReadingShape, Inside, Between
<1> QED BY <1>1, <1>2

\* A word at the start of a term, consumed.
LEMMA WordRead ==
  ASSUME ParserTyped, BankOK, AtWord, advance(1)
  PROVE  /\ pc = "term" /\ pc \in Inside /\ Token(1).value \in Name
         /\ ahead = <<Word(Token(1).value)>> ++ ahead' /\ ahead' \in Tokens
         /\ <<Word(Token(1).value)>> \in Tokens
<1>1. 1 \in Nat \ {0} /\ Token(1).type = "kWord" /\ pc = "term"
  BY DEF AtWord
<1>2. SourceOK(ahead)
  BY StateTexts
<1>3. Token(1) = Word(Token(1).value) /\ Token(1).value \in Name /\ Token(1) # EndOfFile
  <2>1. EndOfFile.type = "kEOF"
    BY DEF EndOfFile
  <2> QED BY <1>1, <1>2, <2>1, SourceTokens
<1>4. ahead = <<Token(1)>> ++ ahead' /\ ahead' \in Tokens /\ <<Token(1)>> \in Tokens
  BY <1>2, <1>3, Consumed1
<1> QED BY <1>1, <1>3, <1>4 DEF Inside

\* A variable or a constant, known or new: the term returned is its name.
LEMMA ReadName ==
  ASSUME ParserTyped, BankOK, ReadingOK, KnownVariable \/ NewVariable \/ ParseConstant
  PROVE  ReadingOK'
<1>1. /\ AtWord /\ advance(1)
      /\ UNCHANGED <<text, header, is_positive, formulas>>
  BY DEF KnownVariable, NewVariable, ParseConstant, AtVariable, AtName, call
<1>2. PICK name \in Name :
        /\ name = Token(1).value /\ ahead = <<Word(name)>> ++ ahead' /\ ahead' \in Tokens
        /\ <<Word(name)>> \in Tokens /\ pc = "term" /\ pc \in Inside
  BY <1>1, WordRead
<1>3. /\ ReadingShape
      /\ \A x \in DOMAIN variable_cache : Texted[variable_cache[x]] = <<Word(x)>>
      /\ \A x \in DOMAIN variable_cache : variable_cache[x] \in DOMAIN terms
  BY DEF ReadingOK, ReadingShape, ParserTyped
<1>4. PICK id : /\ BankOK' /\ TermsGrow /\ SymbolsGrow /\ id \in DOMAIN terms'
                /\ Texted'[id] = <<Word(name)>> /\ Return(id, stack)
                /\ variable_cache' = variable_cache \/ variable_cache' = Extend(variable_cache, name, id)
  <2>1. CASE KnownVariable
    <3>1. /\ name \in DOMAIN variable_cache /\ Return(variable_cache[name], stack)
          /\ UNCHANGED <<bank, variable_cache>>
      BY <1>2, <2>1 DEF KnownVariable
    <3>2. BankOK' /\ TermsGrow /\ SymbolsGrow /\ Texted' = Texted /\ UNCHANGED terms
      BY <3>1, SameBankTexts DEF bank
    <3> QED BY <1>3, <3>1, <3>2
  <2>2. CASE NewVariable \/ ParseConstant
    <3>1. /\ Variable(name) \/ Constant(name)
          /\ Return(IdOf(Term(SymbolOf(name), <<>>)), stack)
          /\ \/ variable_cache' = variable_cache
             \/ variable_cache' = Extend(variable_cache, name, IdOf(Term(SymbolOf(name), <<>>)))
      BY <1>2, <2>2 DEF NewVariable, ParseConstant
    <3> QED BY <3>1, NameText
  <2> QED BY <2>1, <2>2
<1>5. \A i \in DOMAIN terms : i \in DOMAIN terms' /\ Texted'[i] = Texted[i]
  BY <1>4, TextedGrows
<1>6. \A x \in DOMAIN variable_cache' : Texted'[variable_cache'[x]] = <<Word(x)>>
  <2>1. \A x \in DOMAIN variable_cache : Texted'[variable_cache[x]] = <<Word(x)>>
    BY <1>3, <1>5
  <2>2. CASE variable_cache' = variable_cache
    BY <2>1, <2>2
  <2>3. CASE variable_cache' = Extend(variable_cache, name, id)
    <3>1. /\ DOMAIN variable_cache' = DOMAIN variable_cache \cup {name}
          /\ \A x \in DOMAIN variable_cache' :
               variable_cache'[x] = IF x \in DOMAIN variable_cache THEN variable_cache[x] ELSE id
      BY <2>3 DEF Extend
    <3> QED BY <1>4, <2>1, <3>1
  <2> QED BY <1>4, <2>2, <2>3
<1>7. ReadingShape' /\ pc' \in Inside
  <2>1. stack \in Seq(OpenCall)
    BY DEF ParserTyped, OpenCall
  <2> QED BY <1>1, <1>3, <1>4, <1>6, <2>1, ReturnShape
<1>8. ASSUME NEW b \in Tokens, IsRead(b) PROVE IsRead(b)'
  <2>1. text = AtTerm(Texted, b, clause, is_positive, stack) ++ ahead
    BY <1>2, <1>8 DEF IsRead
  <2>2. PICK q \in Tokens : q = AtTerm(Texted, b, clause, is_positive, stack)
    BY ReadTyped, StateTexts
  <2>3. text = (q ++ <<Word(name)>>) ++ ahead'
    BY <1>2, <2>1, <2>2, Regroup
  <2>4. q = AtTerm(Texted', b, clause, is_positive, stack)
    BY <1>4, <2>2, ReadGrows
  <2>5. stack \in Seq(Calls(DOMAIN terms')) /\ clause \in Seq(Lits(DOMAIN terms')) /\ is_positive \in BOOLEAN
    BY <1>4, HoldingsKept DEF BankGrows, SymbolsGrow, OpenCall, Calls, ParsedLiteral, Lits, ParserTyped
  <2>6. text' = (AtTerm(Texted', b, clause, is_positive, stack) ++ Texted'[id]) ++ ahead'
    BY <1>1, <1>4, <2>3, <2>4
  <2> QED BY <1>1, <1>4, <2>5, <2>6, ReturnReads
<1>9. \E roles \in [DOMAIN formulas' -> RolesOf(text')] : Remembered(roles)'
  BY <1>1, <1>2, <1>4, <1>7, <1>8, InsideStep
<1> QED BY <1>7, <1>9 DEF ReadingOK

\* The end of an application, which is returned in its turn.
LEMMA ReadClose ==
  ASSUME ParserTyped, BankOK, ReadingOK, CloseTerm
  PROVE  ReadingOK'
<1>1. /\ pc = "argument" /\ Token(1) = Symbol(")") /\ advance(1)
      /\ UNCHANGED <<text, variable_cache, header, is_positive, formulas>>
  BY DEF CloseTerm, call, IsSymbol
<1>2. PICK f \in OpenCall, t \in Seq(OpenCall) : f = Head(stack) /\ t = Tail(stack) /\ stack = <<f>> \o t
  BY <1>1, StateTexts DEF OpenCall, Calls
<1>3. f.name \in Name /\ f.args \in Seq(DOMAIN terms)
  BY DEF OpenCall
<1>4. PICK id : id = IdOf(Term(SymbolOf(f.name), f.args)) /\ Application(f.name, f.args) /\ Return(id, t)
  BY <1>2 DEF CloseTerm
<1>5. /\ BankOK' /\ TermsGrow /\ SymbolsGrow /\ id \in DOMAIN terms'
      /\ \E info : /\ info.name = f.name /\ info.kind = "kFunction"
                   /\ Texted'[id] = NodeText(info, ArgTexts(Texted', f.args))
  BY <1>3, <1>4, ApplicationText
<1>6. PICK info : /\ info.name = f.name /\ info.kind = "kFunction"
                  /\ Texted'[id] = NodeText(info, ArgTexts(Texted', f.args))
  BY <1>5
<1>7. \A i \in DOMAIN terms : i \in DOMAIN terms' /\ Texted'[i] = Texted[i]
  BY <1>5, TextedGrows
<1>8. ReadingShape' /\ pc' \in Inside /\ pc \in Inside
  <2>1. /\ ReadingShape
        /\ \A x \in DOMAIN variable_cache : Texted[variable_cache[x]] = <<Word(x)>>
        /\ \A x \in DOMAIN variable_cache : variable_cache[x] \in DOMAIN terms
    BY DEF ReadingOK, ReadingShape, ParserTyped
  <2>2. \A x \in DOMAIN variable_cache' : Texted'[variable_cache'[x]] = <<Word(x)>>
    BY <1>1, <1>7, <2>1
  <2>3. pc \in Inside
    BY <1>1 DEF Inside
  <2> QED BY <1>1, <1>4, <2>1, <2>2, <2>3, ReturnShape
<1>9. ahead = <<Symbol(")")>> ++ ahead' /\ ahead' \in Tokens /\ <<Symbol(")")>> \in Tokens
  <2>1. Symbol(")").type = "symbol" /\ EndOfFile.type = "kEOF"
    BY DEF Symbol, EndOfFile
  <2>2. Token(1) # EndOfFile
    BY <1>1, <2>1
  <2>3. SourceOK(ahead)
    BY StateTexts
  <2> QED BY <1>1, <2>2, <2>3, Consumed1
<1>10. ASSUME NEW b \in Tokens, IsRead(b) PROVE IsRead(b)'
  <2>1. text = AtArgument(Texted, b, clause, is_positive, stack) ++ ahead
    BY <1>1, <1>10 DEF IsRead
  <2>2. PICK D, W : /\ D = DOMAIN terms /\ W = Texted /\ W \in [D -> Tokens] /\ is_positive \in BOOLEAN
                    /\ clause \in Seq(Lits(D)) /\ t \in Seq(Calls(D)) /\ f \in Calls(D)
    BY StateTexts DEF OpenCall, Calls
  <2>3. AtArgument(W, b, clause, is_positive, <<f>> \o t) ++ <<Symbol(")")>>
          = AtTerm(W, b, clause, is_positive, t) ++ NodeText(info, ArgTexts(W, f.args))
    BY <1>6, <2>2, ReadClosing
  <2>4. PICK q : q = AtArgument(W, b, clause, is_positive, <<f>> \o t) /\ q \in Tokens
    <3>1. /\ AtTerm(W, b, clause, is_positive, t) \in Tokens
          /\ Opened(f) \in Tokens /\ Separated(ArgTexts(W, f.args), Symbol(",")) \in Tokens
      BY <2>2, ReadTyped, CallTextTyped
    <3>2. Head(<<f>> \o t) = f /\ Tail(<<f>> \o t) = t
      BY <1>2
    <3> QED BY <3>1, <3>2, JoinTyped DEF AtArgument
  <2>5. text = (q ++ <<Symbol(")")>>) ++ ahead'
    BY <1>2, <1>9, <2>1, <2>2, <2>4, Regroup
  <2>6. /\ AtTerm(W, b, clause, is_positive, t) = AtTerm(Texted', b, clause, is_positive, t)
        /\ ArgTexts(W, f.args) = ArgTexts(Texted', f.args)
    BY <1>1, <1>2, <1>5, <2>2, ReadGrows
  <2>7. text' = (AtTerm(Texted', b, clause, is_positive, t) ++ Texted'[id]) ++ ahead'
    BY <1>1, <1>6, <2>3, <2>4, <2>5, <2>6
  <2>8. t \in Seq(Calls(DOMAIN terms')) /\ clause \in Seq(Lits(DOMAIN terms'))
    <3>1. clause \in Seq(ParsedLiteral') /\ OpenCall \subseteq OpenCall'
      BY <1>5, HoldingsKept DEF BankGrows, SymbolsGrow
    <3>2. t \in Seq(OpenCall')
      BY <1>2, <3>1, SeqMonotonic
    <3> QED BY <3>1, <3>2 DEF OpenCall, Calls, ParsedLiteral, Lits
  <2> QED BY <1>1, <1>4, <1>5, <2>2, <2>7, <2>8, ReturnReads
<1>11. \E roles \in [DOMAIN formulas' -> RolesOf(text')] : Remembered(roles)'
  BY <1>1, <1>5, <1>8, <1>10, InsideStep
<1> QED BY <1>8, <1>11 DEF ReadingOK

\* The comma between two arguments.
LEMMA ReadNextArgument ==
  ASSUME ParserTyped, BankOK, ReadingOK, NextArgument
  PROVE  ReadingOK'
<1>1. /\ pc = "argument" /\ pc' = "term" /\ Token(1) = Symbol(",") /\ advance(1)
      /\ UNCHANGED <<bank, text, stack, variable_cache, header, clause, is_positive, formulas, prepared>>
  BY DEF NextArgument, call, problem, IsSymbol
<1>2. BankOK' /\ TermsGrow /\ SymbolsGrow /\ Texted' = Texted
  BY <1>1, SameBankTexts
<1>3. /\ ReadingShape' /\ pc \in Inside /\ pc' \in Inside
  BY <1>1, <1>2 DEF ReadingOK, ReadingShape, Inside, Between
<1>4. stack # <<>> /\ Head(stack).args # <<>>
  <2>1. Symbol(",").value = "," /\ Symbol(")").value = ")"
    BY DEF Symbol
  <2>2. Token(1) # Symbol(")")
    BY <1>1, <2>1
  <2> QED BY <1>1, <2>2 DEF ReadingOK, ReadingShape, IsSymbol, ParserTyped
<1>5. ahead = Comma ++ ahead' /\ ahead' \in Tokens /\ Comma \in Tokens
  <2>1. Symbol(",").type = "symbol" /\ EndOfFile.type = "kEOF"
    BY DEF Symbol, EndOfFile
  <2>2. Token(1) # EndOfFile
    BY <1>1, <2>1
  <2>3. SourceOK(ahead)
    BY StateTexts
  <2> QED BY <1>1, <2>2, <2>3, Consumed1 DEF Comma
<1>6. ASSUME NEW b \in Tokens, IsRead(b) PROVE IsRead(b)'
  <2>1. text = AtArgument(Texted, b, clause, is_positive, stack) ++ ahead
    BY <1>1, <1>6 DEF IsRead
  <2>2. PICK D, W, c, s :
          /\ W \in [D -> Tokens] /\ is_positive \in BOOLEAN
          /\ c \in Seq(Lits(D)) /\ s \in Seq(Calls(D)) /\ s # <<>> /\ Head(s).args # <<>>
          /\ W = Texted /\ c = clause /\ s = stack
    BY <1>4, StateTexts
  <2>3. AtTerm(W, b, c, is_positive, s) = AtArgument(W, b, c, is_positive, s) ++ Comma
    BY <2>2, ReadComma
  <2>4. PICK q \in Tokens : q = AtArgument(W, b, c, is_positive, s)
    BY <2>2, ArgumentTyped
  <2>5. text = (q ++ Comma) ++ ahead'
    <3>1. text = q ++ (Comma ++ ahead')
      BY <1>5, <2>1, <2>2, <2>4
    <3> QED BY <1>5, <2>4, <3>1, Regroup
  <2>6. text' = AtTerm(Texted', b, clause', is_positive', stack') ++ ahead'
    BY <1>1, <1>2, <2>2, <2>3, <2>4, <2>5
  <2> QED BY <1>1, <2>6 DEF IsRead
<1>7. \E roles \in [DOMAIN formulas' -> RolesOf(text')] : Remembered(roles)'
  BY <1>1, <1>2, <1>3, <1>6, InsideStep
<1> QED BY <1>3, <1>7 DEF ReadingOK

\* The start of an application.
LEMMA ReadOpen ==
  ASSUME ParserTyped, BankOK, ReadingOK, OpenTerm
  PROVE  ReadingOK'
<1>1. /\ AtWord /\ Token(2) = Symbol("(") /\ advance(2) /\ pc = "term"
      /\ stack' = <<[name |-> Token(1).value, args |-> <<>>]>> \o stack
      /\ pc' = IF Token(3) = Symbol(")") THEN "argument" ELSE "term"
      /\ UNCHANGED <<bank, text, variable_cache, header, clause, is_positive, formulas, prepared>>
  BY DEF OpenTerm, AtName, AtWord, call, problem
<1>2. BankOK' /\ TermsGrow /\ SymbolsGrow /\ Texted' = Texted
  BY <1>1, SameBankTexts
<1>3. PICK D, W : /\ D = DOMAIN terms /\ W = Texted /\ W \in [D -> Tokens] /\ is_positive \in BOOLEAN
                  /\ clause \in Seq(Lits(D)) /\ stack \in Seq(Calls(D)) /\ SourceOK(ahead)
  BY StateTexts
<1>4. Token(1).value \in Name /\ Token(1) = Word(Token(1).value)
  <2>1. 1 \in Nat \ {0} /\ Token(1).type = "kWord"
    BY <1>1 DEF AtWord
  <2> QED BY <1>3, <2>1, SourceTokens
<1>5. PICK f \in Calls(D) : /\ f = [name |-> Token(1).value, args |-> <<>>]
                            /\ f.name = Token(1).value /\ f.args = <<>>
  <2>1. <<>> \in Seq(D)
    OBVIOUS
  <2>2. [name |-> Token(1).value, args |-> <<>>] \in Calls(D)
    BY <1>4, <2>1 DEF Calls
  <2>3. \A x, y : [name |-> x, args |-> y].name = x /\ [name |-> x, args |-> y].args = y
    OBVIOUS
  <2> QED BY <2>2, <2>3
<1>6. ahead = Opened(f) ++ ahead' /\ ahead' \in Tokens
  <2>1. Symbol("(").type = "symbol" /\ EndOfFile.type = "kEOF"
    BY DEF Symbol, EndOfFile
  <2>2. Token(2) # EndOfFile
    BY <1>1, <2>1
  <2>3. ahead = <<Token(1), Token(2)>> ++ ahead' /\ ahead' \in Tokens
    BY <1>1, <1>3, <2>2, Consumed2
  <2> QED BY <1>1, <1>4, <1>5, <2>3 DEF Opened
<1>7. /\ pc \in Inside /\ pc' \in Inside /\ pc' \in {"term", "argument"}
      /\ pc' = "argument" => IsSymbol(")")'
  <2>1. pc \in Inside /\ pc' \in Inside /\ pc' \in {"term", "argument"}
    BY <1>1 DEF Inside
  <2>2. ASSUME pc' = "argument" PROVE IsSymbol(")")'
    <3>1. Token(3) = Symbol(")")
      BY <1>1, <2>2
    <3>2. Token(3) # EndOfFile
      <4>1. Symbol(")").type = "symbol" /\ EndOfFile.type = "kEOF"
        BY DEF Symbol, EndOfFile
      <4> QED BY <3>1, <4>1
    <3>3. 3 \in 1..Len(ahead) /\ ahead \in Seq(AnyToken) /\ Len(ahead) \in Nat /\ Token(3) = ahead[3]
      <4>1. 3 \in Nat \ {0}
        OBVIOUS
      <4> QED BY <1>3, <3>2, <4>1, SourceTokens
    <3>4. ahead' = SubSeq(ahead, 3, Len(ahead))
      BY <1>1 DEF advance
    <3>5. 1 <= Len(ahead') /\ ahead'[1] = ahead[3]
      BY <3>3, <3>4, SMTT(30)
    <3> QED BY <3>1, <3>3, <3>5 DEF IsSymbol, Token
  <2> QED BY <2>1, <2>2
<1>8. ReadingShape'
  <2>1. pc' \notin Between \cup {"literal", "literals"} /\ pc' # "literals" /\ pc' # "prepared"
        /\ pc' \notin {"parsed", "prepared"}
    BY <1>7 DEF Between
  <2>2. /\ text \in Texts \cup {<<>>}
        /\ \A x \in DOMAIN variable_cache : Texted[variable_cache[x]] = <<Word(x)>>
    BY DEF ReadingOK, ReadingShape
  <2> QED BY <1>1, <1>2, <1>7, <2>1, <2>2 DEF ReadingShape
<1>9. ASSUME NEW b \in Tokens, IsRead(b) PROVE IsRead(b)'
  <2>1. text = AtTerm(W, b, clause, is_positive, stack) ++ ahead
    BY <1>1, <1>3, <1>9 DEF IsRead
  <2>2. PICK q \in Tokens : q = AtTerm(W, b, clause, is_positive, stack)
    BY <1>3, ReadTyped
  <2>3. Opened(f) \in Tokens
    BY <1>3, CallTextTyped
  <2>4. text = (q ++ Opened(f)) ++ ahead'
    BY <1>6, <2>1, <2>2, <2>3, Regroup
  <2>5. /\ AtTerm(W, b, clause, is_positive, <<f>> \o stack) = q ++ Opened(f)
        /\ AtArgument(W, b, clause, is_positive, <<f>> \o stack) = q ++ Opened(f)
    BY <1>3, <1>5, <2>2, ReadOpening
  <2>6. stack' = <<f>> \o stack /\ Texted' = W
    BY <1>1, <1>2, <1>3, <1>5
  <2> QED BY <1>1, <1>7, <2>4, <2>5, <2>6 DEF IsRead
<1>10. \E roles \in [DOMAIN formulas' -> RolesOf(text')] : Remembered(roles)'
  BY <1>1, <1>2, <1>7, <1>9, InsideStep
<1> QED BY <1>8, <1>10 DEF ReadingOK

-----------------------------------------------------------------------------
(* The theorem                                                              *)

\* Every step keeps what is remembered of the text.
LEMMA ReadingStep ==
  ASSUME ParserTyped, BankOK, ReadingOK, [Next]_vars
  PROVE  ReadingOK'
<1>1. CASE \E t \in Texts : parseTptpString(t)
  BY <1>1, ReadCall
<1>2. CASE parseTerm
  BY <1>2, ReadName, ReadOpen, ReadNextArgument, ReadClose DEF parseTerm
<1>3. CASE parseProblem
  BY <1>2, <1>3, ReadBegin, ReadSigned, ReadNext, ReadEnd, ReadParsed, ReadThrown DEF parseProblem
<1> QED BY <1>1, <1>3, ReadParsed, ReadNothing DEF Next

\* A parser that has not begun remembers nothing.
LEMMA ReadingStart == ASSUME Init PROVE ReadingOK
<1>1. DOMAIN <<>> = {}
  OBVIOUS
<1> QED BY <1>1 DEF Init, ReadingOK, ReadingShape, Inside, Between

\* The literals of a clause as module TptpText writes them.
LEMMA LiteralsWritten ==
  ASSUME BankOK, NEW c \in Seq(Lits(DOMAIN terms))
  PROVE  LitTexts(Texted, c) = [k \in DOMAIN c |-> WrittenLiteral(c[k])]
<1>1. \A l \in Lits(DOMAIN terms) : LitText(Texted, l) = WrittenLiteral(l)
  BY TextedSpells DEF LitText, SignText, WrittenLiteral, Lits, ++
<1>2. \A k \in DOMAIN c : c[k] \in Lits(DOMAIN terms)
  BY ElementOfSeq
<1> QED BY <1>1, <1>2 DEF LitTexts

\* What is remembered when the text has been read is that it was read as written.
LEMMA ReadingParsed ==
  ASSUME ParserTyped, BankOK, ReadingOK
  PROVE  ReadAsWritten
<1> SUFFICES ASSUME pc \in {"parsed", "prepared"}
             PROVE  \E roles \in [DOMAIN formulas -> RolesOf(text)] :
                      /\ \A n \in DOMAIN formulas : formulas[n].role = parseRole(roles[n])
                      /\ text = FlattenSeq([n \in DOMAIN formulas |-> WrittenFormula(n, roles[n])])
  BY DEF ReadAsWritten, RolesOf
<1>1. /\ pc \in Between /\ ahead = <<>> /\ text \in Texts \cup {<<>>}
      /\ pc = "prepared" => DOMAIN prepared = DOMAIN formulas
  BY DEF ReadingOK, ReadingShape, Between
<1>2. PICK roles \in [DOMAIN formulas -> RolesOf(text)] : Remembered(roles)
  BY <1>1 DEF ReadingOK
<1>3. \A n \in DOMAIN formulas : ClauseOf(n) \in Seq(Lits(DOMAIN terms))
  <2> TAKE n \in DOMAIN formulas
  <2>1. formulas \in Seq(ParsedFormula)
    BY DEF ParserTyped, ParsedFormula
  <2>2. formulas[n] \in ParsedFormula
    BY <2>1, ElementOfSeq
  <2>3. formulas[n].clause \in Seq(ParsedLiteral)
    BY <2>2 DEF ParsedFormula
  <2>4. pc = "prepared" => prepared[n] \in Seq(ParsedLiteral)
    <3>1. prepared \in Seq(Seq(ParsedLiteral))
      BY DEF ParserTyped
    <3> QED BY <1>1, <3>1, ElementOfSeq
  <2> QED BY <2>3, <2>4 DEF ClauseOf, ParsedLiteral, Lits
<1>4. \A n \in DOMAIN formulas : \A role :
        FormulaText(Texted, formulas[n].name, role, ClauseOf(n)) = WrittenFormula(n, role)
  BY <1>3, LiteralsWritten DEF FormulaText, HeadText, WrittenFormula, ++
<1>5. Parsed(roles) = [n \in DOMAIN formulas |-> WrittenFormula(n, roles[n])]
  BY <1>4 DEF Parsed
<1>6. text = Done(roles) \o <<>> /\ \A n \in DOMAIN formulas : formulas[n].role = parseRole(roles[n])
  BY <1>1, <1>2 DEF Remembered, ++
<1>7. Done(roles) \o <<>> = Done(roles)
  <2>1. Done(roles) \in Tokens
    <3>1. \A n \in DOMAIN formulas :
            FormulaText(Texted, formulas[n].name, roles[n], ClauseOf(n)) \in Tokens
      <4> TAKE n \in DOMAIN formulas
      <4>1. formulas \in Seq(ParsedFormula)
        BY DEF ParserTyped, ParsedFormula
      <4>2. formulas[n] \in ParsedFormula
        BY <4>1, ElementOfSeq
      <4>3. formulas[n].name \in Name /\ roles[n] \in STRING \cup Name
        BY <1>1, <1>2, <4>2, RolesAreNames DEF ParsedFormula
      <4>4. Texted \in [DOMAIN terms -> Tokens] /\ <<>> \in Tokens
        BY TextedSpells, Separators
      <4> QED BY <1>3, <4>3, <4>4, ReadFormula
    <3>2. PICK m \in Nat : DOMAIN formulas = 1..m
      <4>1. formulas \in Seq(ParsedFormula)
        BY DEF ParserTyped, ParsedFormula
      <4> QED BY <4>1, LenProperties
    <3>3. Parsed(roles) \in [1..m -> Tokens]
      BY <3>1, <3>2 DEF Parsed
    <3>4. Parsed(roles) \in Seq(Tokens)
      BY <3>3
    <3> QED BY <3>4, FlattenTyped DEF Done, Tokens
  <2> QED BY <2>1, JoinEmpty DEF ++
<1> QED BY <1>2, <1>5, <1>6, <1>7 DEF Done

\* What is parsed is what was written, for every text and however many were parsed
\* before: the clauses the prover receives, printed from the bank, give the text
\* again, whatever the terms share and whatever was in the bank.
THEOREM ReadCorrect == Spec => []ReadAsWritten
<1>1. Init => ParserTyped /\ BankOK /\ ReadingOK
  BY ParserStart, ReadingStart
<1>2. ParserTyped /\ BankOK /\ ReadingOK /\ [Next]_vars => ParserTyped' /\ BankOK' /\ ReadingOK'
  BY ParserStep, ReadingStep
<1>3. ParserTyped /\ BankOK /\ ReadingOK => ReadAsWritten
  BY ReadingParsed
<1> QED BY <1>1, <1>2, <1>3, PTL DEF Spec
=============================================================================
