\* Deployments, a chain and deletes overlap: three deployment ids, two of them
\* on one server, and two requests.
SPECIFICATION Spec
CONSTANTS
    s1 = s1  s2 = s2  d1 = d1  d2 = d2  d3 = d3  c1 = c1  c2 = c2
    NoJob = NoJob  NoTarget = NoTarget
    Servers = {s1, s2}
    Deps = {d1, d2, d3}
    Chains = {c1}
    Jobs = {j1, j2}
    Requests = {r1, r2}
    Home <- ThreeHome
    Path <- ChainPath
    Installed = {d2}
    SshFails = TRUE
    MaxCrashes = 0
SYMMETRY Symmetric
INVARIANTS LocksMirrorWorkers JobsExclusive NoStuckStatus ReadyIsInstalled
PROPERTY ExitBeforeEntry
CHECK_DEADLOCK FALSE
