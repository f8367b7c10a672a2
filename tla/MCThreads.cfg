SPECIFICATION FairSpec
CONSTANTS
  t1 = t1
  t2 = t2
  t3 = t3
  Thread <- MCThread
  Rank <- MCRank
  RankOf <- MCRankOf
  Programs <- Untangled
  Free = Free
INVARIANTS
  TypeOK
  LockExclusive
  NotStale
  ExactWhenAlone
PROPERTY ThreadsFinish
CHECK_DEADLOCK FALSE
