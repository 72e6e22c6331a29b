SPECIFICATION Spec
CONSTANTS
  NumFresh = 4
  NotUnifiable = NotUnifiable
  Atom <- MonAtoms
  Subst <- MonSubsts
  NoUnifier = NotUnifiable
  Unify <- MonUnify
  ApplySubstitution <- MonApply
  NumVariables <- MonNumVariables
  Renaming <- MonRenaming
  CounterMod = 4
  Interpretation <- MonInterpretations
  Valuation <- MonValuations
  Holds <- MonHolds
  Comparator = "weight"
  OccursCheck = TRUE
  MaxClauses = 8
  MaxIterations = 2
  DepthMod = 65536
  Batches <- MonPieces
  MaxCalls = 5
  ReproveAfterTheorem = FALSE
INVARIANTS
  SearchLosesNothing
  OvershootIsOneIteration
PROPERTY ImplementsDecision
CHECK_DEADLOCK FALSE
