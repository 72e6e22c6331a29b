SPECIFICATION MCSpec
CONSTANTS
  MaxStore = 5
  Symbols <- MCSymbols
  Terms <- MCTerms
  BaseCount = 2
  Lines <- MCLines
INVARIANTS TraceOK ProofIsAncestry ProofIsReadable TextIsFaithful
PROPERTY ExtractionReturns
CHECK_DEADLOCK FALSE
