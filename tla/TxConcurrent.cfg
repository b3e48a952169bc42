SPECIFICATION Spec
CONSTANTS
  Prize = {1, 2}
  Name = {n1, n2, n3}
  MaxTicketId = 3
  FormClients = {f1}
  RestClients = {r1, r2}
  Late = {r2}
  Settings <- All
  NoName = NoName
  Nobody = Nobody
CONSTRAINT ThirdTicket
INVARIANTS
  FreeIsUnlisted
  ListingCoversIssued

  
