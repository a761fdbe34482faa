CONSTANTS s1 = s1  s2 = s2  s3 = s3  u1 = u1  u2 = u2
          Sids <- TwoSids
          Uids <- OneUid
          FalsyUids = {}
          NoUid = NoUid
          SingleSession = TRUE
          MaxConnections = 2
          HostFilter = TRUE
          SyncSids <- TwoSids
SPECIFICATION Spec
INVARIANT SessionHasConnection
CHECK_DEADLOCK FALSE
