CONSTANT MaxMessages = 4
SPECIFICATION Spec
INVARIANT NoCleartextPasswordWithoutTls
INVARIANT RelayOnlyAuthenticated
CHECK_DEADLOCK FALSE
