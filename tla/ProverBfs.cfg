SPECIFICATION FairSpec
CONSTANTS
  Atom = {"p", "q"}
  Subst = {"empty"}
  NoUnifier = "none"
  Unify <- PropUnify
  ApplySubstitution <- PropApply
  NumVariables <- PropNumVariables
  Renaming <- PropRenaming
  CounterMod = 1
  Interpretation <- Interpretations
  Valuation = {"v"}
  Holds <- PropHolds
  Comparator = "bfs"
  OccursCheck = FALSE
  MaxClauses = 1000
  MaxIterations = 1000
  DepthMod = 65536
  Batches <- MCBatches
  MaxCalls = 2
  ReproveAfterTheorem = FALSE
INVARIANTS
  TypeOK
  Provenance
  Sound
  TheoremIsUnsatisfiable
  SearchLosesNothing
  SaturationIsSatisfiable
  ProcessedIrredundant
  BreadthFirst
PROPERTY ProveReturns
CHECK_DEADLOCK FALSE
