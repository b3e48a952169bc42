SPECIFICATION AuditSpec
CONSTANTS
  Prize = {1, 2}
  Name = {n1, n2, n3}
  MaxTicketId = 3
  MaxRevision = 6
SYMMETRY NameSymmetry
INVARIANTS
  AuditTypeOK
  LedgerAgrees
  PrizesTold
  TicketsTold
PROPERTIES
  WinIsFinal
  ToldSpec
