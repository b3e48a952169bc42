SPECIFICATION NamedSpec
CONSTANTS
  Prize = {1, 2}
  Name = {n1, n2, n3}
  MaxTicketId = 3
  FormClients = {t1}
  RestClients = {r1}
  Settings <- All
  NoName = NoName
  Nobody = Nobody
  Cnt <- OneAndTwo
  Session = {s1}
  NoSession = NoSession
INVARIANTS
  ManagerTypeOK
  NeverOverIssued
PROPERTY RaffleEnds
