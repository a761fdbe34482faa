\* One session, one copy in a backend server and one in the frontend.
CONSTANTS s1 = s1  u1 = u1  u2 = u2  b1 = b1  f1 = f1  k1 = k1  k2 = k2
          Sids <- OneSid
          Uids <- TwoUids
          Handles <- TwoHandles
          Local <- OneHandle
          Keys <- TwoKeys
          FalsyUids = {}
          NoUid = NoUid
          SingleSession = TRUE
          MaxWrites = 2
          MaxCalls = 1
          MaxRestarts = 1
SPECIFICATION CopiesSpec
INVARIANTS CopyAgrees UnpushedIsLocal
PROPERTY ClosedIsFinal
SYMMETRY Symmetry
CHECK_DEADLOCK FALSE
