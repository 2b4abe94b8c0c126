\* Requests, sweep and installer overlap, pushes fail in either way, and the
\* process dies once.  Two users of one name exist when their creates overlap.
SPECIFICATION FairSpec
CONSTANTS
    Users = {u1, u2}
    Names = {n1}
    Exps = {0, 2}
    Requests = {r1, r2}
    Sweep = Sweep
    Installer = Installer
    MaxDay = 1
    MaxRequests = 3
    MaxInFlight = 2
    PushFailures = {"clean", "applied"}
    MaxCrashes = 1
    NoUser = NoUser
    NoRow = NoRow
    NoConfig = NoConfig
INVARIANTS TypeOK HashTruthful NoOrphanUser
PROPERTIES InactiveUserLeaves EventuallyInSync
CHECK_DEADLOCK FALSE
