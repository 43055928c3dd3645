CONSTANTS
  Peers = {a}
  Keys = {k1, k2}
  Requests = {r1}
  Scores <- Assorted
  NoPeer = NoPeer
  MaxAdds = 2
  MaxMessages = 1
  MaxHealthy = 1
  MaxFaults = 1
SPECIFICATION FairSpec
INVARIANTS TypeOK 
PROPERTIES BlockingLasts DownWearsOut DownIsBlocked
CHECK_DEADLOCK FALSE
