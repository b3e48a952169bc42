SPECIFICATION Spec
CONSTANTS
  Prize = {1, 2}
  Name = {n1, n2, n3}
  MaxTicketId = 3
  FormClients = {f1, f2}
  RestClients = {r1}
  Late = {}
  Settings <- Alone
  NoName = NoName
  Nobody = Nobody
INVARIANTS
  TypeOK
PROPERTIES
  StoreSpec
