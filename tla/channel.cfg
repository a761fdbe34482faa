CONSTANTS o1 = o1  o2 = o2  u1 = u1  u2 = u2  f1 = f1  f2 = f2
          Objects <- TwoObjects
          Users <- TwoUsers
          Servers <- TwoServers
          NoServer = NoServer
          NoObject = NoObject
          MaxAmount = 3
SPECIFICATION ChannelSpec
SYMMETRY Symmetry
INVARIANTS GroupsAgree StoreFollowsMembers
CHECK_DEADLOCK FALSE
