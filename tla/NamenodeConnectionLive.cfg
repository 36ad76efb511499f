SPECIFICATION FairSpec
CONSTANTS
  Callers = {"c1", "c2"}
  NHosts = 2
  Kerberos = FALSE
  CanClose = FALSE
  MaxRequests = 2
  MaxConns = 4
  MaxFaults = 2
INVARIANT CallIdIdentifies
PROPERTY ExecuteReturns
CHECK_DEADLOCK FALSE
