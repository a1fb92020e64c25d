CONSTANT MaxMessages = 3
SPECIFICATION Spec
INVARIANT NoBalancerMessageAfterRelay
CHECK_DEADLOCK FALSE
