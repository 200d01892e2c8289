SPECIFICATION FairSpec
CONSTANTS
  Keys = {k1, k2}
  Absent = Absent
  Never = Never
  MaxTTL = 1
  MaxSize = 1
  MaxSamples = 2
INVARIANTS DeadlineHasKey QueriesAgree
PROPERTIES CollectionUnseen NoResurrection TypeKept ExpiredCollected
