SPECIFICATION FairSpec
CONSTANTS
    r1 = r1
    r2 = r2
    r3 = r3
    s1 = s1
    s2 = s2
    Requests = {r1, r2, r3}
    Sessions = {s1}
    SessionOf <- MCSessionOf
    Notifies = {r3}
    Silent = {r1}
    MaxSize = 1
    None = None
INVARIANTS OneResponse OneAtATime LateIsError AnswersInOrder TimersOfPending
PROPERTY EveryRequestAnswered
CHECK_DEADLOCK FALSE
