SPECIFICATION Spec
CONSTANTS
  DBusClients = {}
  XSMPClients = {x1}
  OtherNames = {}
  Releasers = {}
  MaxCalls = 1
INVARIANTS
  NoAssertFailure
