\* Two requests at once, over two deployments.
SPECIFICATION Spec
CONSTANTS
    d1 = d1  d2 = d2  h1 = h1  h2 = h2
    p1 = p1  p2 = p2  p3 = p3  u1 = u1
    Deps = {d1, d2}
    Chains = {c1, c2}
    Users = {u1}
    Subs = {s1}
    Hosts = {h1, h2}
    Ports = {p1, p2, p3}
    Host <- MCHost
    SshPort <- MCSshPort
    NodeOf <- MCNodeOf
    Threads = {t1, t2}
    MaxRequests = 3
    NoRow = NoRow
    NoUrl = NoUrl
SYMMETRY Symmetric
INVARIANTS TypeOK ChainEndpointsDisjoint RowsWhole RevokedIsDead EntriesLinked
CHECK_DEADLOCK FALSE
