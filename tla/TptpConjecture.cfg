SPECIFICATION MCSpec
CONSTANTS
  Name = {"cnf", "fof", "n", "p", "q", "f", "a", "X", "Y", "axiom", "plain", "conjecture", "other", "lemma"}
  ArityMod = 65536
  Texts <- MCTexts
  UpperCase <- Variables
  MaxParses = 1
CHECK_DEADLOCK FALSE
INVARIANTS ConjectureIsNegated
