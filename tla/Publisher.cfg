SPECIFICATION FairSpec
CONSTANTS
  None = None
  MaxBuffer = 1
  MaxRetries = 1
  MaxSubmissions = 3
  MaxLate = 1
  Transports <- Both
INVARIANTS Accounted Bounded SentIsHandled
PROPERTIES ImplementsLedger EverySubmissionSettles
CHECK_DEADLOCK FALSE
