SPECIFICATION FairSpec
CONSTANT MaxTime = 400
INVARIANTS
  TypeOK
  AcquiredSame
PROPERTIES
  ResolutionAdapts
