CONSTANTS
  Funcs <- MCFuncs
  Exprs = {e1, e2}
  KeyExprs = {k1}
  MaxAggs = 3
  MaxKeys = 1
  InputArity = 2
  InputPermutations <- MCInputPermutations
  GroupSizeHints <- MCGroupSizeHints
  DefaultGroupSizeLimit = 65535
  U64Max <- MCU64Max
  UsizeModulus = 65536
  NewerPlanners = FALSE

SPECIFICATION Spec

INVARIANT TypeOK

PROPERTY ImplementsReduceSemantics

\* A compiled plan has no step after the replica decoded it.
CHECK_DEADLOCK FALSE
