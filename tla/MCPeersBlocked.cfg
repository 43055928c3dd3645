CONSTANTS
  Peers = {a}
  Keys = {k1}
  Requests = {r1}
  Scores = {320}
  NoPeer = NoPeer
  MaxAdds = 1
  MaxMessages = 1
  MaxHealthy = 0
  MaxFaults = 0
SPECIFICATION Spec
PROPERTIES BlockedRefused
CHECK_DEADLOCK FALSE
