\* Two calls, and a process pool in which one request may wait.
SPECIFICATION Spec
CONSTANTS
  AttestationNames = {"AddressValidity", "Web2Json"}
  SourceIds = {"BTC", "testBTC", "DOGE", "testDOGE", "XRP", "Configured", "PublicWeb2"}
  SourceId = "BTC"
  NO_TIMESTAMP_SENTINEL = 99
  securityParams <- MCSecurityParams
  sources <- MCSources
  JsonValues <- MCJsonValues
  MAX_AST_NODES = 4
  Calls = {"first", "second"}
  Requests <- MCRequests
  MaxWaiting = 1
  LookupAnswers <- MCLookupAnswers
INVARIANTS
  Web2JsonSound
  Web2JsonWithinLimits
  AddressAsSpecified
PROPERTIES
  AlwaysAnswered
