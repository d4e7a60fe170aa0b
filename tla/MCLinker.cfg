SPECIFICATION FairSpec
CONSTANTS
  Links = {l1, l2}
  MaxUid = 2
  MaxData = 2
INVARIANTS
  LinksMatch
  NothingCutShort
PROPERTY
  EndsReach
