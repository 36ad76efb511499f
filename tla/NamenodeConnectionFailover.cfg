SPECIFICATION Spec
CONSTANTS
  Callers = {"c1", "c2"}
  NHosts = 2
  Kerberos = TRUE
  CanClose = TRUE
  MaxRequests = 2
  MaxConns = 3
  MaxFaults = 3
INVARIANTS
  NoConnectionLeak
  AnswerIsOwn
CHECK_DEADLOCK FALSE
