CONSTANTS m1 = m1  f1 = f1  f2 = f2  f3 = f3  u1 = u1
          Messages <- OneMessage
          Servers <- ThreeServers
          Users <- OneUser
          Here = f1
SPECIFICATION FairSpec
INVARIANTS AnsweredAfterAll AnswerIsTrue
PROPERTY EveryPushAnswered
CHECK_DEADLOCK FALSE
