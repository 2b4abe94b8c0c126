\* Two start requests for the same server.
SPECIFICATION Spec
CONSTANTS
    s1 = s1  s2 = s2  d1 = d1  d2 = d2  d3 = d3  c1 = c1  c2 = c2
    NoJob = NoJob  NoTarget = NoTarget
    Servers = {s1}
    Deps = {d1, d2}
    Chains = {}
    Jobs = {j1, j2}
    Requests = {r1, r2}
    Home <- OneServerHome
    Path <- NoPath
    Installed = {}
    SshFails = TRUE
    MaxCrashes = 0
SYMMETRY Symmetric
INVARIANT OneNativePerServer
CHECK_DEADLOCK FALSE
