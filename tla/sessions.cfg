\* One session per user.
CONSTANTS s1 = s1  s2 = s2  s3 = s3  u1 = u1  u2 = u2
          Sids <- ThreeSids
          Uids <- TwoUids
          FalsyUids = {}
          NoUid = NoUid
          SingleSession = TRUE
SPECIFICATION Spec
INVARIANTS IndexConsistent OneSessionPerUser
PROPERTY ImplementsRegistry
CHECK_DEADLOCK FALSE
