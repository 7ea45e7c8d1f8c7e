CONSTANTS
  k1 = k1
  k2 = k2
  Keys <- TwoKeys
  MaxCalls = 2
  Window = 2
  Horizon = 5
SPECIFICATION LimiterSpec
CHECK_DEADLOCK FALSE
INVARIANTS LimiterInv WindowBound RetryAdmitted
PROPERTIES ImplementsWindow
