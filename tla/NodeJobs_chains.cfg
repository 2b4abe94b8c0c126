\* Two chains over the same two ready nodes, in opposite directions.
SPECIFICATION Spec
CONSTANTS
    s1 = s1  s2 = s2  d1 = d1  d2 = d2  d3 = d3  c1 = c1  c2 = c2
    NoJob = NoJob  NoTarget = NoTarget
    Servers = {s1, s2}
    Deps = {d1, d2}
    Chains = {c1, c2}
    Jobs = {j1, j2}
    Requests = {r1}
    Home <- TwoServerHome
    Path <- TwoChainPath
    Installed = {d1, d2}
    SshFails = TRUE
    MaxCrashes = 1
SYMMETRY Symmetric
INVARIANTS TypeOK LocksMirrorWorkers NoStuckStatus JobsExclusive ReadyIsInstalled
CHECK_DEADLOCK FALSE
