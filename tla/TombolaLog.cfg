SPECIFICATION FairSpec
CONSTANTS
  Thread = {t1, t2, t3}
  Settings <- All
  Connections = 2
  QueueSize = 2
  DiscardingThreshold = 1
  PageSize = 2
  MaxEvents = 5
  MaxPage = 2
INVARIANTS
  TypeOK
  AuditInOrder
  ScreenIsTrue
  NoneMissed
PROPERTY EventsArrive
CHECK_DEADLOCK FALSE
