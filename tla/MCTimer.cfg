CONSTANTS
  Timer = {t1, t2, t3}
  Owned = {t1}
  TickMax = 7
  Times = {0, 2}
  Nobody = nobody
SPECIFICATION FairSpec
INVARIANT TypeOK
INVARIANT ActiveExact
PROPERTY OnTime
PROPERTY TickEnds
