SPECIFICATION FairSpec
CONSTANTS
    Requests = {r1, r2, r3}
    Carries = {r1, r3}
    Slots = {s1, s2}
    MaxInFlight = 1
    Priorities = {0, 1}
    MaxEmptyWaits = 2
    Lives = 1
    None = None
    r1 = r1  r2 = r2  r3 = r3  s1 = s1  s2 = s2  s3 = s3
INVARIANTS SlotsExact BudgetExact DeliveredRight
PROPERTIES Answered ShutdownReturns
