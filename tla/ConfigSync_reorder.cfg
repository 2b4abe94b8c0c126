SPECIFICATION Spec
CONSTANTS
    Users = {u1}
    Names = {n1}
    Exps = {0, 2}
    Requests = {r1, r2}
    Sweep = Sweep
    Installer = Installer
    MaxDay = 1
    MaxRequests = 3
    MaxInFlight = 3
    PushFailures = {}
    MaxCrashes = 0
    NoUser = NoUser
    NoRow = NoRow
    NoConfig = NoConfig
INVARIANTS InactiveUserAbsent
CHECK_DEADLOCK FALSE
