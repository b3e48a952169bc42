SPECIFICATION FairSpec
CONSTANTS
  Thread = {t1, t2}
  Kinds = {"basicLogin", "getIndex", "getManager", "setManager", "getTombolaLog",
           "getAudit", "getLogin", "getError", "signin", "getUserInfo", "getRoleInfo",
           "getPrizes", "getTicketsPage", "patchPrizeTicket", "patchPrizeName",
           "putTickets", "deleteTicket", "getProperties"}
  Pools = {1, 2}
  Nobody = Nobody
INVARIANTS
  TypeOK
  NothingLeaks
  NoDeadlock
PROPERTY RequestsEnd
