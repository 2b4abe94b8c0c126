\* Progress and refinement: a server that is deployed to twice, and a chain.
SPECIFICATION FairSpec
CONSTANTS
    s1 = s1  s2 = s2  d1 = d1  d2 = d2  d3 = d3  c1 = c1  c2 = c2
    NoJob = NoJob  NoTarget = NoTarget
    Servers = {s1, s2}
    Deps = {d1, d2}
    Chains = {c1}
    Jobs = {j1, j2}
    Requests = {r1}
    Home <- TwoServerHome
    Path <- ChainPath
    Installed = {d1}
    SshFails = TRUE
    MaxCrashes = 1
PROPERTIES JobsFinish LocksReleased DeleteCompletes ImplementsMutex
CHECK_DEADLOCK FALSE
