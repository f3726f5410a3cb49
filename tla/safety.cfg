SPECIFICATION Spec
CONSTANTS
  DBusClients = {d1}
  XSMPClients = {x1}
  OtherNames = {}
  Releasers = {}
  MaxCalls = 1
INVARIANTS
  TypeOK
  RunningIsClean
  PendingClientsAlive
  QueryNeverSilent
  TimersFitPhase
  ClientsInStep
  HoldersKept
PROPERTIES
  ImplementsProtocol
