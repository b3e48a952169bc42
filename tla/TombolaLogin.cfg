SPECIFICATION FairSpec
CONSTANTS
  Thread = {t1, t2, t3}
  Address = {a1}
  Uses = {{"form"}, {"form", "basic"}}
  MaxAttempt = 2
  Wait = 2
  InvalidateKey = TRUE
  Nobody = Nobody
INVARIANTS
  TypeOK
  GuessesBounded
  FormNeverFails
PROPERTIES
  BlockLasts
  Unblocks
