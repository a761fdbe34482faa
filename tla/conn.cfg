CONSTANTS s1 = s1  s2 = s2  s3 = s3  u1 = u1  u2 = u2
          Sids <- ThreeSids
          Uids <- TwoUids
          FalsyUids = {}
          NoUid = NoUid
          SingleSession = FALSE
          MaxConnections = 2
          HostFilter = TRUE
          SyncSids = {s1}
SPECIFICATION FairSpec
INVARIANTS CountCoversConnections SessionsAreCounted NoGhostLogin
PROPERTIES ClosedIsCountedOut
CHECK_DEADLOCK FALSE
