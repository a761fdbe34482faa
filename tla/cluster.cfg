CONSTANTS a = a  b = b  Master = Master
          Servers <- ThreeServers
          MaxFaults = 2
SPECIFICATION FairSpec
INVARIANTS NothingMissed StartOverWhenAllStarted
PROPERTIES ViewsConverge
CHECK_DEADLOCK FALSE
