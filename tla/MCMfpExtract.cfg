\* Every MFP over a reduction of arity up to 3 with up to two expressions,
\* two predicates and three projected columns.
CONSTANTS
    MaxInputArity = 3
    MaxExprs = 2
    MaxPreds = 2
    MaxProjection = 3
SPECIFICATION Spec
INVARIANT ExtractPreservesMeaning
INVARIANT FusedIsSafe
\* extract_mfp_after is called once and returns.
CHECK_DEADLOCK FALSE
