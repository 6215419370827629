SPECIFICATION FairSpec
CONSTANTS
  Ids = {s1, s2, s3, s4}
  maxParentWalkDepth = 3
  MaxWrites = 1
INVARIANTS TypeOK OnlyRelated RefReported WholeTree
PROPERTY PollEnds
CHECK_DEADLOCK FALSE
