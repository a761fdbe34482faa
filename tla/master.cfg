\* Two servers, a command of any kind or two stops.
CONSTANTS s1 = s1  s2 = s2  self = self
          Servers <- TwoServers
          Self = self
          AutoRestart <- OneServer
          Forced <- OneServer
          ForceSet <- OneServer
          Commands <- TwoCommands
          Scripts <- OneOrTwoStops
          MaxFaults = 1
SPECIFICATION FairSpec
INVARIANTS CompleteAnswers OneAnswer StoppedStaysDown
PROPERTIES CommandAnswered CrashedComesBack
CHECK_DEADLOCK FALSE
