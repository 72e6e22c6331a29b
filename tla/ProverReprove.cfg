SPECIFICATION Spec
CONSTANTS
  Atom = {"p", "q"}
  Subst = {"empty"}
  NoUnifier = "none"
  Unify <- PropUnify
  ApplySubstitution <- PropApply
  NumVariables <- PropNumVariables
  Renaming <- PropRenaming
  CounterMod = 1
  Interpretation <- Interpretations
  Valuation = {"v"}
  Holds <- PropHolds
  Comparator = "bfs"
  OccursCheck = FALSE
  MaxClauses = 1000
  MaxIterations = 1000
  DepthMod = 65536
  Batches <- UnitPairs
  MaxCalls = 3
  ReproveAfterTheorem = TRUE
INVARIANT SaturationMeansNotProved
CHECK_DEADLOCK FALSE
