\* One request and one user; a push fails after its effect.
SPECIFICATION Spec
CONSTANTS
    Users = {u1}
    Names = {n1}
    Exps = {0, 2}
    Requests = {r1}
    Sweep = Sweep
    Installer = Installer
    MaxDay = 1
    MaxRequests = 1
    MaxInFlight = 1
    PushFailures = {"applied"}
    MaxCrashes = 0
    NoUser = NoUser
    NoRow = NoRow
    NoConfig = NoConfig
INVARIANTS AcceptedUserHasRow
CHECK_DEADLOCK FALSE
