CONSTANTS
  Funcs <- MCFuncs
  Exprs = {e1, e2}
  KeyExprs = {k1}
  MaxAggs = 3
  MaxKeys = 0
  InputArity = 2
  InputPermutations <- MCNoPermutation
  GroupSizeHints = {1}
  DefaultGroupSizeLimit = 65535
  U64Max <- MCU64Max
  UsizeModulus = 65536
  NewerPlanners = TRUE

SPECIFICATION Spec

INVARIANT DecodedPlanFaithful

\* A compiled plan has no step after the replica decoded it.
CHECK_DEADLOCK FALSE
