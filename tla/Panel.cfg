\* One server whose host changes once, two requests, the monitor and a job.
SPECIFICATION FairSpec
CONSTANTS
    s1 = s1  k1 = k1  k2 = k2  r1 = r1  r2 = r2
    Servers = {s1}
    Keys = {k1, k2}
    Requests = {r1, r2}
    Monitor = Monitor  Worker = Worker
    MaxRequests = 3
    MaxHostChanges = 1
    MaxFaults = 1
    MaxJobLogEntries = 2
    Down = Down  NoKey = NoKey  NoRow = NoRow  NoServer = NoServer  NoStatus = NoStatus
INVARIANTS TypeOK TrustApproved LogFollowed
PROPERTIES StatusSettles
CHECK_DEADLOCK FALSE
