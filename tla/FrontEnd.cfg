SPECIFICATION MCFrontEndSpec
CONSTANTS
  Name = {"cnf", "fof", "n", "p", "q", "f", "a", "X", "Y", "axiom", "plain", "conjecture", "other", "lemma"}
  ArityMod = 2
  Texts <- MCTexts
  UpperCase <- Variables
  MaxParses = 2
  Char <- MCChar
  Alpha <- MCAlpha
  Digit <- MCDigit
  Space <- MCSpace
  Files <- MCFiles
  NameOf <- MCNameOf
CHECK_DEADLOCK FALSE
INVARIANTS TokensAreLexemes BankTyped WellSorted ParserTyped AcceptsExactly ReadAsWritten
PROPERTIES LexerEnds ParserReturns BankImplementsStore
