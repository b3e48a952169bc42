SPECIFICATION DrawnSpec
CONSTANTS
  Prize = {1, 2}
  Name = {n1, n2, n3}
  MaxTicketId = 2
  FormClients = {}
  RestClients = {r1, r2}
  Late = {}
  Settings <- Deletions
  NoName = NoName
  Nobody = Nobody
PROPERTY DeleteReturnsPrize
