CONSTANTS HeadSize = 2
          PackageTypes = {1, 2, 3, 4, 5}
          Packages <- AllPackages
          MaxPackages = 4
          CloseMethod = "end"
          Heartbeat = TRUE
SPECIFICATION FairSpec
INVARIANTS FramesIntact GreetingFirst GoneForGood
PROPERTIES SilentIsDropped
CHECK_DEADLOCK FALSE
