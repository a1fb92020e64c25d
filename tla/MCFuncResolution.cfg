CONSTANTS
    Catalog <- MCCatalog
    ArgTypes <- MCArgTypes
    MaxArgs = 3
SPECIFICATION Spec
INVARIANT CoercedArgsFitImpl
INVARIANT SumOfUnknownIsAmbiguous
CHECK_DEADLOCK FALSE
