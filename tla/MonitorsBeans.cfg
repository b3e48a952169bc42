SPECIFICATION Spec
CONSTANTS
  Thread = {t1, t2}
  Kinds = {"getProperties", "getPrize"}
  Pools = {2}
  Nobody = Nobody
INVARIANT NoDeadlock
