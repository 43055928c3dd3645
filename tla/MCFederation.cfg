CONSTANTS
  s1 = s1
  s2 = s2
  s3 = s3
  c1 = c1
  Servers = {s1, s2, s3}
  Changes = {c1}
  Origin <- MCOrigin
  NoRow = NoRow
  MaxKey = 2
  MaxAdds = 1
  MaxFaults = 1
SPECIFICATION MCSpec
INVARIANTS TypeOK Vouched  SpreadWhenQuiet
PROPERTIES TrafficEnds EventuallySpread
CHECK_DEADLOCK FALSE
