SPECIFICATION ManagerSpec
CONSTANTS
  Prize = {1}
  Name = {n1}
  MaxTicketId = 4
  FormClients = {t1, t2}
  RestClients = {r1}
  Settings <- Adding
  NoName = NoName
  Nobody = Nobody
  Cnt <- OneAndTwo
  Session = {s1}
  NoSession = NoSession
INVARIANT OverIssueBounded
