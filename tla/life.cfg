\* Every kind of server; a call of start and two of stop at any moment.
CONSTANTS MaxStarts = 1
          MaxStops = 2
          Schedulers = {"buffer", "direct", "selectable"}
          Connectors = {"mqtt", "other"}
          HookSets = {{}, {"beforeStartup"}, {"afterStartup"}, {"beforeShutdown"}, {"beforeStartup", "afterStartup", "beforeShutdown"}}
SPECIFICATION FairLifeSpec
INVARIANT StartsAndStopsCleanly
PROPERTY ForcedStopExits
CHECK_DEADLOCK FALSE
