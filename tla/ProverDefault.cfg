SPECIFICATION Spec
CONSTANTS
  NumFresh = 2
  NotUnifiable = NotUnifiable
  Cyclic = Cyclic
  Atom <- DiagAtoms
  Subst <- DiagSubsts
  NoUnifier = NotUnifiable
  Unify <- DiagUnify
  ApplySubstitution <- DiagApply
  NumVariables <- MonNumVariables
  Renaming <- MonRenaming
  CounterMod = 2
  Interpretation <- DiagInterpretations
  Valuation <- MonValuations
  Holds <- DiagHolds
  Comparator = "bfs"
  OccursCheck = FALSE
  MaxClauses = 100000
  MaxIterations = 500000
  DepthMod = 65536
  Batches <- DiagProblems
  MaxCalls = 2
  ReproveAfterTheorem = FALSE
INVARIANT TheoremIsUnsatisfiable
CHECK_DEADLOCK FALSE
