SPECIFICATION FairSpec
CONSTANTS
  PrizeCount = 2
  PutTicket = 2
  MaxTickets = 3
  MaxFailures = 3
  Schemas = {"migrated", "created"}
INVARIANTS
  TypeOK
  ServesComplete
  RowShowsItsPrize
PROPERTIES
  StartKeepsRaffle
  ComesUp
