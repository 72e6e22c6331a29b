SPECIFICATION AtpSpec
CONSTANTS
  NumFresh = 4
  NotUnifiable = NotUnifiable
  Atom <- MonAtoms
  Subst <- MonSubsts
  NoUnifier = NotUnifiable
  Unify <- MonUnify
  ApplySubstitution <- MonApply
  NumVariables <- MonNumVariables
  Renaming <- MonRenaming
  CounterMod = 4
  TakenNames = {3}
  Interpretation <- MonInterpretations
  Valuation <- MonValuations
  Holds <- MonHolds
  Comparator = "bfs"
  OccursCheck = FALSE
  MaxClauses = 1000
  MaxIterations = 4
  DepthMod = 65536
  Batches <- Problems
  MaxCalls = 2
  ReproveAfterTheorem = FALSE
CHECK_DEADLOCK FALSE
INVARIANT ParentsBeforeChildren
