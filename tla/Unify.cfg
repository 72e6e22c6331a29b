SPECIFICATION Spec
CONSTANTS
  TermId <- Bank
  Symbol <- SymbolOf
  Args <- ArgsOf
  IsVariable <- IsVariableOf
  Problems <- Calls
  Grounding <- Groundings
  Height <- HeightOf
  MaxHeight = 2
INVARIANTS TypeOK SolutionsPreserved VariableChainsEnd SuccessIsUnifiable
PROPERTY UnifyReturns
CHECK_DEADLOCK FALSE
