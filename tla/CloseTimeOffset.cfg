SPECIFICATION ClockFairSpec
CONSTANTS
  MaxSkew = 10
  MaxReports = 4
INVARIANT OffsetWithin
PROPERTIES
  ReturnsToWallTime
