CONSTANTS s1 = s1  s2 = s2  u1 = u1
          Sids <- TwoSids
          Uids <- OneUid
          NoUid = NoUid
          Schedulers <- Selectable
          MaxMessages = 3
SPECIFICATION FairSchedulerSpec
INVARIANTS InOrderAtMostOnce QueuesOfOpenSessions
PROPERTIES StreamOnlyGrows QueuedIsFlushed
CHECK_DEADLOCK FALSE
