\* Every protocol, with and without a domain; a chain over the node.
SPECIFICATION Spec
CONSTANTS
    u1 = u1  u2 = u2
    EnvDest <- MCEnvDest
    EnvSni = "cdn.front.example"
    EnvCandidates <- MCNoCandidates
    Users = {u1, u2}
    Requests = {r1}
    Installer = Installer
    ManualTargets <- MCManualTargets
    Displays <- MCDisplays
    MaxRequests = 2
    InstallFails = TRUE
    HopProtocols = {"vless", "shadowsocks", "hysteria2", "vmess"}
    MaxDeploys = 2
    MaxCrashes = 1
    NoConfig = NoConfig
    NoLink = NoLink
    NoProxy = NoProxy
    NoUser = NoUser
    NoRow = NoRow
    NoDep = NoDep
SYMMETRY Symmetric
INVARIANTS TypeOK LinksConnect SubscriptionRenders HopsConnect ChainLinkFits PortsOpen
CHECK_DEADLOCK FALSE
