SPECIFICATION FairSpec
CONSTANTS
  DBusClients = {}
  XSMPClients = {x1}
  OtherNames = {o1}
  Releasers = {o1}
  MaxCalls = 1
PROPERTIES
  QueryIsReported
  SaveEnds
  ForcedLogoutEnds
