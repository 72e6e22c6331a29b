SPECIFICATION Spec
CONSTANTS
  Name = {"X", "Y", "a", "f", "p", "_R0", "_R1", "_R2", "_R3"}
  ArityMod = 65536
  Symbols <- MCSymbols
  Terms <- MCTerms
  Inputs <- MCInputs
  Bindable <- MCBindable
  FreshName <- MCFreshName
  CounterMod = 4
  MaxDepth = 6
  MaxCalls = 2
  Reserved = "_R3"
CHECK_DEADLOCK FALSE
INVARIANTS HashConsed AppliedIsInstance RenamedApart
PROPERTY ApplyReturns
