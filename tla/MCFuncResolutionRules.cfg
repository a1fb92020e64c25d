CONSTANTS
    Catalog <- MCCatalog
    ArgTypes <- MCArgTypes
    MaxArgs = 2
SPECIFICATION Spec
INVARIANT FollowsRules
CHECK_DEADLOCK FALSE
