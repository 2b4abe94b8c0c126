-------------------------- MODULE ChainHops_proofs --------------------------
(***************************************************************************)
(* What the panel renders fits together, for any users, requests, targets, *)
(* deployments and restarts: the links of the users with the node, the     *)
(* hops of a chain with each other, the chain's link with its entry, and   *)
(* the firewall with all of them.                                          *)
(***************************************************************************)
EXTENDS ChainHops, FunctionTheorems, FiniteSetTheorems, SequenceTheorems, WellFoundedInduction, TLAPS

-----------------------------------------------------------------------------
(* The node's part of the inductive invariant.                             *)

DepFields == {"protocol", "domain", "mode", "dest", "sni", "host", "port", "key", "sid", "ss",
              "obfs", "cert", "hash", "status"}
ThreadFields == {"pc", "user", "row", "dep", "cfg", "pin"}
LinkFields == {"scheme", "host", "port", "cred", "name", "psk", "pbk", "sid", "sni", "tls",
               "insecure", "pin", "obfs"}
RowFields == {"enabled", "link", "ss", "auth"}
ServiceFields == {"inbound", "outbound", "cert"}

DepShape ==
    /\ DOMAIN dep = DepFields /\ dep.protocol \in Protocols
    /\ dep.status \in {"provisioning", "ready", "failed"}
    /\ dep.mode \in {"auto", "manual"}
    /\ dep.protocol = "vless" => dep.key # 0
UserShape ==
    /\ DOMAIN user = Users /\ \A u \in Users : user[u] # NoRow => DOMAIN user[u] = RowFields
    /\ early \subseteq ids
Shapes ==
    /\ DepShape /\ UserShape
    /\ DOMAIN th = Threads /\ \A t \in Threads : DOMAIN th[t] = ThreadFields
    /\ DOMAIN service = ServiceFields
    /\ started \in 0..MaxRequests

\* A REALITY node whose target is chosen stores the target and server name
\* that it runs with, and one that is being installed has chosen.
Reality == dep.protocol = "vless"
Settled ==
    Reality /\ ~SelectionPending(dep) => dep.dest # <<>> /\ reality_settings(dep).sni = dep.sni
InstallerPcs == {"idle", "i_resolve", "i_render", "i_run", "i_open", "i_ready"}
Chosen ==
    Reality /\ (th[Installer].pc \in {"i_render", "i_run", "i_open", "i_ready"} \/ dep.status = "ready")
      => ~SelectionPending(dep)

\* A thread's copy of the deployment is never wrong in what it is used for: all
\* but the target, while that is not chosen, and the pin, while there is none.
SameNode(d) ==
    /\ d.protocol = dep.protocol /\ d.domain = dep.domain /\ d.mode = dep.mode
    /\ d.host = dep.host /\ d.port = dep.port /\ d.key = dep.key /\ d.sid = dep.sid
    /\ d.ss = dep.ss /\ d.obfs = dep.obfs
Fresh(d) ==
    /\ SameNode(d) /\ d.cert \in {0, dep.cert}
    /\ d.status = "ready" => dep.status = "ready"
    /\ Reality /\ ~SelectionPending(d) =>
         ~SelectionPending(dep) /\ d.dest = dep.dest /\ d.sni = dep.sni
    /\ Reality /\ d.status = "ready" => ~SelectionPending(d)

\* None is not a configuration.  It is a hypothesis, and not an assumption,
\* because it speaks of every inbound.
NoneIsNoInbound ==
    \A type, port, clients, psk, obfs, tls : Inbound(type, port, clients, psk, obfs, tls) # NoConfig

\* What a configuration of the node is, but for its users.
Mode(row) == CASE row.protocol = "vless" -> "reality"
               [] row.protocol = "shadowsocks" -> "none"
               [] OTHER -> IF row.domain # "" THEN "acme" ELSE "file"
Fits(cfg) ==
    /\ NoneIsNoInbound => cfg # NoConfig
    /\ cfg.type = dep.protocol /\ cfg.port = dep.port
    /\ cfg.psk = IF dep.protocol = "shadowsocks" THEN dep.ss ELSE 0
    /\ cfg.obfs = IF dep.protocol = "hysteria2" THEN dep.obfs ELSE 0
    /\ cfg.tls.mode = Mode(dep)
    /\ cfg.tls.mode = "acme" => cfg.tls.name = dep.domain
    /\ Reality => /\ ~SelectionPending(dep) /\ cfg.tls.name = dep.sni
                  /\ cfg.tls.key = dep.key /\ cfg.tls.sid = dep.sid

\* What a user's link is, but for the server name of a REALITY node, and that.
LinkFits(u, row) ==
    LET l == row.link
    IN  /\ l # NoLink /\ DOMAIN l = LinkFields /\ l.name = Name(u)
        /\ l.host \in NodeNames /\ l.port = dep.port /\ l.cred = Cred(u, row)
        /\ l.scheme = CASE dep.protocol = "shadowsocks" -> "ss"
                        [] dep.protocol = "hysteria2" -> "hy2"
                        [] OTHER -> dep.protocol
        /\ l.psk = IF dep.protocol = "shadowsocks" THEN dep.ss ELSE 0
        /\ l.obfs = IF dep.protocol = "hysteria2" THEN dep.obfs ELSE 0
        /\ dep.protocol # "shadowsocks" => l.tls
        /\ Reality => l.pbk = dep.key /\ l.sid = dep.sid
        /\ dep.protocol \in TlsDomainProtocols =>
             /\ l.sni = dep.domain /\ l.insecure = (dep.domain = "")
             /\ dep.domain = "" => l.pin # 0 /\ l.pin = dep.cert
Named(row) == Reality => ~SelectionPending(dep) /\ row.link.sni = dep.sni

\* What the two steps of the install script leave behind.
CertMade == PinNeeded => service.cert # 0
InPlace == NodePorts \subseteq open /\ CertMade

\* A request thread with a user at hand.
Carries(q) ==
    /\ q.user \in Users /\ q.user \in ids /\ DOMAIN q.row = RowFields
    /\ Fresh(q.dep) /\ LinkFits(q.user, q.row)
    /\ ~SelectionPending(q.dep) => Named(q.row)
RequestFits(q) ==
    /\ q.pc \in {"idle", "render_new", "push", "insert", "write", "apply", "render", "record"}
    /\ q.pc \in {"render_new", "insert", "write"} \/ (q.pc = "push" /\ q.user # NoUser) => Carries(q)
    /\ q.pc \in {"render_new", "render"} => Fresh(q.dep) /\ q.dep.status = "ready"
    /\ q.pc \in {"apply", "render"} => q.user = NoUser
    /\ q.pc \in {"push", "record"} => dep.status = "ready" /\ Fits(q.cfg)
InstallerFits(q) ==
    /\ q.pc \in InstallerPcs
    /\ q.pc # "idle" => dep.status = "provisioning"
    /\ q.pc = "i_resolve" => Reality /\ (dep.mode = "auto" => dep.dest = <<>>)
    /\ q.pc \in {"i_run", "i_open", "i_ready"} => Fits(q.cfg)
    /\ q.pc = "i_open" => CertMade
    /\ q.pc = "i_ready" => InPlace /\ q.pin = IF PinNeeded THEN service.cert ELSE 0

Up ==
    /\ dep.status = "ready" => InPlace /\ (PinNeeded => dep.cert = service.cert)
    /\ dep.cert # 0 => dep.status = "ready"
    /\ service.inbound # NoConfig => Fits(service.inbound) /\ th[Installer].pc # "i_resolve"

UsersFit ==
    \A u \in Users : user[u] # NoRow =>
      /\ u \in ids /\ LinkFits(u, user[u])
      /\ u \notin early => Named(user[u])

NodeInv ==
    /\ Shapes /\ Settled /\ Chosen /\ Up /\ UsersFit
    /\ \A t \in Requests : RequestFits(th[t])
    /\ InstallerFits(th[Installer])

-----------------------------------------------------------------------------
(* The chain's part.                                                       *)

HopFields == {"protocol", "port", "uuid", "key", "sid", "ss", "hy2", "service"}
RunSteps == {Idling, <<"finish", Entry>>} \cup ({"prepare", "install", "open", "rollback"} \X Hops)
ChainShapes ==
    /\ DOMAIN hop = Hops /\ DOMAIN hopService = Hops /\ DOMAIN hopOpen = Hops
    /\ hop[Entry].protocol = "vless"
    /\ \A h \in Hops : /\ DOMAIN hop[h] = HopFields /\ hop[h].protocol \in ChainProtocols
                       /\ DOMAIN hopService[h] = ServiceFields
    /\ DOMAIN chain = {"status", "link"}
    /\ chain.status \in {"planned", "deploying", "ready", "failed"}
    /\ run \in RunSteps
    /\ run[1] \in {"prepare", "install", "open", "finish"} <=> chain.status = "deploying"
    /\ deploys \in 0..MaxDeploys /\ crashes \in 0..MaxCrashes
    /\ run # Idling => deploys > 0
    /\ deploys > 0 => dep.status = "ready"

\* A hop whose secrets are made; none of them is ever made again.
Prepared(h) ==
    /\ hop[h].service = TRUE
    /\ hop[h].protocol = "vless" => hop[h].uuid # 0 /\ hop[h].sid # 0 /\ hop[h].key # 0
    /\ hop[h].protocol = "shadowsocks" => hop[h].ss # 0
    /\ hop[h].protocol = "hysteria2" => hop[h].hy2 # 0
    /\ hop[h].protocol = "vmess" => hop[h].uuid # 0
SecretsKept ==
    /\ run[1] \in {"install", "open", "finish"} => Prepared(Entry) /\ Prepared(Exit)
    /\ run = <<"prepare", Exit>> => Prepared(Entry)

\* What runs on a host, and what was handed out, is what the rows say now.
Running(h) == hopService[h].inbound # NoConfig
HopsFit ==
    \A h \in Hops : Running(h) =>
      /\ Prepared(Entry) /\ Prepared(Exit) /\ deploys > 0
      /\ hopService[h].inbound = chain_inbound(FullHop(h))
      /\ h = Entry => hopService[h].outbound = chain_outbound(FullHop(Exit))
      /\ hop[h].protocol = "hysteria2" => hopService[h].cert # 0
LinkKept ==
    chain.link # NoLink =>
      Prepared(Entry) /\ deploys > 0 /\ chain.link = chain_share_link(FullHop(Entry))

\* The exit's ports are opened before the entry is touched, and both before the
\* first link; they are never closed.
Opened(h) == HopPorts(h) \subseteq hopOpen[h]
PortsKept ==
    /\ chain.link # NoLink \/ run[1] = "finish" => Opened(Entry) /\ Opened(Exit)
    /\ run \in {<<"install", Entry>>, <<"open", Entry>>} => Opened(Exit)

ChainInv == ChainShapes /\ SecretsKept /\ HopsFit /\ LinkKept /\ PortsKept
Inv == NodeInv /\ ChainInv

-----------------------------------------------------------------------------
(* What the renderers produce.                                             *)

LEMMA ConfigFields ==
    ASSUME NEW row, row.protocol \in Protocols, NEW users,
           NEW c, c = build_node_config(row, users)
    PROVE  /\ NoneIsNoInbound => c # NoConfig
           /\ c.type = row.protocol /\ c.port = row.port /\ c.users = users
           /\ c.psk = IF row.protocol = "shadowsocks" THEN row.ss ELSE 0
           /\ c.obfs = IF row.protocol = "hysteria2" THEN row.obfs ELSE 0
           /\ c.tls.mode = Mode(row)
           /\ c.tls.mode = "acme" => c.tls.name = row.domain
           /\ row.protocol = "vless" =>
                c.tls.name = reality_settings(row).sni /\ c.tls.key = row.key /\ c.tls.sid = row.sid
  <1>1. CASE row.protocol = "vless"
    <2>1. c = vless_reality_inbound(row, users)
      BY <1>1 DEF build_node_config
    <2>2. NoneIsNoInbound => c # NoConfig
      BY <2>1 DEF vless_reality_inbound, NoneIsNoInbound
    <2> QED BY <1>1, <2>1, <2>2 DEF vless_reality_inbound, Inbound, reality_tls, Mode
  <1>2. CASE row.protocol = "shadowsocks"
    <2>1. c = shadowsocks_inbound(row, users)
      BY <1>2 DEF build_node_config
    <2>2. NoneIsNoInbound => c # NoConfig
      BY <2>1 DEF shadowsocks_inbound, NoneIsNoInbound
    <2> QED BY <1>2, <2>1, <2>2 DEF shadowsocks_inbound, Inbound, NoTls, Mode
  <1>3. CASE row.protocol \in TlsDomainProtocols
    <2>1. c = Inbound(row.protocol, row.port, users, 0,
                      IF row.protocol = "hysteria2" THEN row.obfs ELSE 0, tls_from_domain(row))
      BY <1>3 DEF build_node_config, TlsDomainProtocols, anytls_inbound, hysteria2_inbound, vmess_inbound
    <2>2. /\ tls_from_domain(row).mode = IF row.domain # "" THEN "acme" ELSE "file"
          /\ row.domain # "" => tls_from_domain(row).name = row.domain
      BY DEF tls_from_domain, self_signed_tls
    <2>3. /\ row.protocol # "vless" /\ row.protocol # "shadowsocks"
          /\ Mode(row) = IF row.domain # "" THEN "acme" ELSE "file"
      BY <1>3 DEF TlsDomainProtocols, Mode
    <2>4. /\ c.type = row.protocol /\ c.port = row.port /\ c.users = users /\ c.psk = 0
          /\ c.obfs = (IF row.protocol = "hysteria2" THEN row.obfs ELSE 0)
          /\ c.tls = tls_from_domain(row)
      BY <2>1 DEF Inbound
    <2>5. NoneIsNoInbound => c # NoConfig
      BY <2>1 DEF NoneIsNoInbound
    <2> QED BY <2>2, <2>3, <2>4, <2>5
  <1> QED BY <1>1, <1>2, <1>3 DEF Protocols, TlsDomainProtocols

\* A link before its certificate is known.
Unpinned(scheme, host, port, cred, name, obfs) ==
    [Link(scheme, host, port, cred, name) EXCEPT !.obfs = obfs]

\* The link of a user, from a copy of the row that is not wrong.
LEMMA LinkRendered ==
    ASSUME DepShape, NEW d, Fresh(d), NEW u, NEW old, DOMAIN old = RowFields,
           NEW row, row = WithLink(u, old, d), row.link # NoLink
    PROVE  /\ DOMAIN row = RowFields /\ LinkFits(u, row)
           /\ ~SelectionPending(d) => Named(row)
  <1> DEFINE cred == Cred(u, old)
             l == default_share_link(d, cred, Name(u))
             at == IF d.domain # "" THEN d.domain ELSE d.host
  <1>1. /\ DOMAIN row = RowFields /\ row.link = l
        /\ row.ss = old.ss /\ row.auth = old.auth
    BY DEF WithLink, RowFields
  <1>2. Cred(u, row) = cred
    BY <1>1 DEF Cred
  <1>3. SameNode(d) /\ d.cert \in {0, dep.cert} /\ l # NoLink
    BY <1>1 DEF Fresh
  <1>4. at \in NodeNames /\ d.host \in NodeNames
    BY <1>3 DEF SameNode, NodeNames
  <1>5. CASE Reality
    <2>1. l = vless_reality_share_link(cred, d.host, d.port, Name(u), d.key, d.sid, d.sni)
      BY <1>3, <1>5 DEF SameNode, Reality, default_share_link
    <2>2. /\ l.host = d.host /\ l.port = d.port /\ l.cred = cred /\ l.scheme = "vless"
          /\ l.psk = 0 /\ l.obfs = 0 /\ l.tls /\ l.pbk = d.key /\ l.sid = d.sid /\ l.sni = d.sni
          /\ DOMAIN l = LinkFields /\ l.name = Name(u)
      BY <2>1 DEF vless_reality_share_link, Link, LinkFields
    <2>3. ~SelectionPending(d) => Named(row)
      BY <1>1, <1>5, <2>2 DEF Fresh, Named
    <2>4. LinkFits(u, row)
      BY <1>1, <1>2, <1>3, <1>4, <1>5, <2>2 DEF SameNode, Reality, LinkFits, TlsDomainProtocols
    <2> QED BY <1>1, <2>3, <2>4
  <1>6. CASE dep.protocol = "shadowsocks"
    <2>1. l = ss_share_link(d.ss, cred, d.host, d.port, Name(u))
      BY <1>3, <1>6 DEF SameNode, default_share_link
    <2>2. /\ l.host = d.host /\ l.port = d.port /\ l.cred = cred /\ l.scheme = "ss"
          /\ l.psk = d.ss /\ l.obfs = 0 /\ DOMAIN l = LinkFields /\ l.name = Name(u)
      BY <2>1 DEF ss_share_link, Link, LinkFields
    <2> QED BY <1>1, <1>2, <1>3, <1>4, <1>6, <2>2 DEF SameNode, Reality, LinkFits, Named, TlsDomainProtocols
  <1>7. CASE dep.protocol \in TlsDomainProtocols
    <2>a. d.protocol = dep.protocol /\ d.domain = dep.domain /\ d.port = dep.port /\ d.obfs = dep.obfs
      BY <1>3 DEF SameNode
    <2>0. PICK scheme, obfs : /\ scheme = (IF d.protocol = "hysteria2" THEN "hy2" ELSE d.protocol)
                              /\ obfs = (IF d.protocol = "hysteria2" THEN d.obfs ELSE 0)
      OBVIOUS
    <2>b. PICK link : link = Unpinned(scheme, at, d.port, cred, Name(u), obfs)
      OBVIOUS
    <2>1. l = Pinned(link, d.domain, d.cert)
      <3>1. CASE d.protocol = "hysteria2"
        <4>1. l = hy2_share_link(cred, at, d.port, Name(u), d.domain, d.obfs, d.cert)
          BY <3>1 DEF default_share_link
        <4> QED BY <2>0, <2>b, <3>1, <4>1 DEF hy2_share_link, Unpinned
      <3>2. CASE d.protocol \in {"anytls", "vmess"}
        <4>1. l = Pinned(Link(d.protocol, at, d.port, cred, Name(u)), d.domain, d.cert)
          BY <3>2 DEF default_share_link, anytls_share_link, vmess_share_link
        <4>2. link = Link(d.protocol, at, d.port, cred, Name(u))
          BY <2>0, <2>b, <3>2 DEF Link, Unpinned
        <4> QED BY <4>1, <4>2
      <3> QED BY <1>7, <2>a, <3>1, <3>2 DEF TlsDomainProtocols
    <2> HIDE DEF l, cred, at
    <2>2. /\ l.host = at /\ l.port = d.port /\ l.cred = cred /\ l.scheme = scheme
          /\ l.psk = 0 /\ l.obfs = obfs /\ l.tls /\ l.sni = d.domain /\ l.insecure = (d.domain = "")
          /\ d.domain = "" => l.pin = d.cert /\ d.cert # 0
          /\ DOMAIN l = LinkFields /\ l.name = Name(u)
      <3>1. /\ l = [link EXCEPT !.tls = TRUE, !.sni = d.domain, !.insecure = (d.domain = ""),
                                !.pin = IF d.domain = "" THEN d.cert ELSE 0]
            /\ d.domain = "" => d.cert # 0
        BY <1>3, <2>1 DEF Pinned
      <3> QED BY <3>1, <2>b DEF Unpinned, Link, LinkFields
    <2>3. ~Reality /\ dep.protocol # "shadowsocks"
      BY <1>7 DEF TlsDomainProtocols, Reality
    <2>5. LinkFits(u, row)
      BY <1>1, <1>2, <1>3, <1>4, <2>0, <2>2, <2>3, <2>a DEF LinkFits
    <2> QED BY <1>1, <2>3, <2>5 DEF Named
  <1>8. Reality \/ dep.protocol = "shadowsocks" \/ dep.protocol \in TlsDomainProtocols
    BY DEF DepShape, Protocols, TlsDomainProtocols, Reality
  <1> QED BY <1>5, <1>6, <1>7, <1>8

\* A configuration from such a copy, once the target is chosen.
LEMMA ConfigRendered ==
    ASSUME DepShape, Settled, NEW d, Fresh(d), Reality => ~SelectionPending(d), NEW users,
           NEW c, c = build_node_config(d, users)
    PROVE  Fits(c)
  <1>1. SameNode(d) /\ d.protocol \in Protocols
    BY DEF Fresh, SameNode, DepShape
  <1>2. Mode(d) = Mode(dep)
    BY <1>1 DEF SameNode, Mode
  <1>3. Reality => ~SelectionPending(dep) /\ reality_settings(d).sni = dep.sni
    <2>1. SUFFICES ASSUME Reality
                   PROVE  ~SelectionPending(dep) /\ reality_settings(d).sni = dep.sni
      OBVIOUS
    <2>2. /\ ~SelectionPending(dep) /\ d.dest = dep.dest /\ d.sni = dep.sni
          /\ reality_settings(dep).sni = dep.sni
      BY <2>1 DEF Fresh, Settled
    <2> QED BY <2>2 DEF reality_settings
  <1> QED BY <1>1, <1>2, <1>3, ConfigFields DEF Fits, SameNode, Reality

\* What get_deployment returns is such a copy.
LEMMA ReadIsFresh ==
    ASSUME DepShape, Settled, Chosen, NEW d, d = get_deployment
    PROVE  /\ Fresh(d) /\ d.status = dep.status
           /\ Reality /\ ~SelectionPending(dep) => ~SelectionPending(d)
  <1>1. CASE SelectionPending(dep)
    BY <1>1 DEF get_deployment, Fresh, SameNode, Chosen, Reality
  <1>2. CASE ~SelectionPending(dep)
    <2>1. d = [dep EXCEPT !.dest = reality_settings(dep).dest, !.sni = reality_settings(dep).sni]
      BY <1>2 DEF get_deployment
    <2>2. /\ SameNode(d) /\ d.cert = dep.cert /\ d.status = dep.status
          /\ d.dest = reality_settings(dep).dest /\ d.sni = reality_settings(dep).sni
      BY <2>1 DEF DepShape, DepFields, SameNode
    <2>3. Reality => d.dest = dep.dest /\ d.sni = dep.sni /\ dep.dest # <<>>
      BY <1>2, <2>2 DEF Settled, reality_settings
    <2>4. Reality => ~SelectionPending(d)
      BY <2>3 DEF SelectionPending
    <2> QED BY <1>2, <2>2, <2>3, <2>4 DEF Fresh
  <1> QED BY <1>1, <1>2

-----------------------------------------------------------------------------
(* What no step takes back.                                                *)

\* The row of the node keeps its secrets and address, its target once chosen,
\* its pin once known, and stays ready.
NodeKept ==
    /\ DOMAIN dep' = DepFields /\ dep'.status \in {"provisioning", "ready", "failed"}
    /\ dep'.protocol = dep.protocol /\ dep'.domain = dep.domain /\ dep'.mode = dep.mode
    /\ dep'.host = dep.host /\ dep'.port = dep.port /\ dep'.key = dep.key /\ dep'.sid = dep.sid
    /\ dep'.ss = dep.ss /\ dep'.obfs = dep.obfs
    /\ dep.cert \in {0, dep'.cert}
    /\ dep.status = "ready" => dep'.status = "ready" /\ dep'.dest = dep.dest /\ dep'.sni = dep.sni
    /\ Reality /\ ~SelectionPending(dep) => dep'.dest = dep.dest /\ dep'.sni = dep.sni
    /\ ids \subseteq ids'

LEMMA KeptPending ==
    ASSUME NodeKept
    PROVE  /\ Reality' = Reality /\ PinNeeded' = PinNeeded /\ NodePorts' = NodePorts
           /\ NodeNames' = NodeNames
           /\ Reality /\ ~SelectionPending(dep) => ~SelectionPending(dep)'
  BY DEF NodeKept, Reality, PinNeeded, NodePorts, NodeNames, SelectionPending, node_install_options

LEMMA KeptFresh ==
    ASSUME NodeKept, NEW d, Fresh(d)
    PROVE  Fresh(d)'
  BY KeptPending DEF NodeKept, Fresh, SameNode, Reality, SelectionPending

LEMMA KeptConfig ==
    ASSUME NodeKept, NEW c, Fits(c)
    PROVE  Fits(c)'
  <1>1. Mode(dep)' = Mode(dep)
    BY DEF NodeKept, Mode
  <1> QED BY <1>1, KeptPending DEF NodeKept, Fits, Reality

LEMMA KeptNamed ==
    ASSUME NodeKept, NEW row, Named(row)
    PROVE  Named(row)'
  BY KeptPending DEF NodeKept, Named, Reality

LEMMA KeptLink ==
    ASSUME NodeKept, NEW u, NEW row, LinkFits(u, row)
    PROVE  LinkFits(u, row)'
  <1>1. Cred(u, row)' = Cred(u, row)
    BY DEF NodeKept, Cred
  <1>2. dep.domain = "" /\ dep.protocol \in TlsDomainProtocols => dep'.cert = dep.cert
    BY DEF NodeKept, LinkFits
  <1> QED BY <1>1, <1>2, KeptPending DEF NodeKept, LinkFits, Reality

LEMMA KeptUsers ==
    ASSUME NodeKept, UsersFit, user' = user, early \subseteq early'
    PROVE  UsersFit'
  BY KeptLink, KeptNamed DEF NodeKept, UsersFit

LEMMA KeptRequest ==
    ASSUME NodeKept, NEW q, RequestFits(q)
    PROVE  RequestFits(q)'
  <1>1. Carries(q) => Carries(q)'
    BY KeptFresh, KeptLink, KeptNamed DEF NodeKept, Carries
  <1>2. Fresh(q.dep) => Fresh(q.dep)'
    BY KeptFresh
  <1>3. Fits(q.cfg) => Fits(q.cfg)'
    BY KeptConfig
  <1>4. dep.status = "ready" => dep'.status = "ready"
    BY DEF NodeKept
  <1> QED BY <1>1, <1>2, <1>3, <1>4 DEF RequestFits

-----------------------------------------------------------------------------
(* The steps of the requests.                                              *)

\* The row keeps all but its hash.
HashOnly == dep' = dep \/ \E c : dep' = [dep EXCEPT !.hash = c]

LEMMA HashKeeps ==
    ASSUME DepShape, HashOnly, ids \subseteq ids'
    PROVE  /\ NodeKept /\ dep'.dest = dep.dest /\ dep'.sni = dep.sni
           /\ dep'.status = dep.status /\ dep'.cert = dep.cert
  <1>1. CASE dep' = dep
    BY <1>1 DEF NodeKept, DepShape
  <1>2. CASE \E c : dep' = [dep EXCEPT !.hash = c]
    BY <1>2 DEF NodeKept, DepShape, DepFields
  <1> QED BY <1>1, <1>2 DEF HashOnly

LEMMA RequestStep ==
    ASSUME NodeInv, HashOnly, ids \subseteq ids', open' = open, UserShape', UsersFit',
           started' \in 0..MaxRequests,
           NEW t \in Requests, NEW q, th' = [th EXCEPT ![t] = q], DOMAIN q = ThreadFields,
           RequestFits(q)',
           NEW c, c = service.inbound \/ (dep.status = "ready" /\ Fits(c)),
           DOMAIN service' = ServiceFields, service'.cert = service.cert, service'.inbound = c
    PROVE  NodeInv' /\ NodeKept
  <1>1. /\ NodeKept /\ dep'.dest = dep.dest /\ dep'.sni = dep.sni
        /\ dep'.status = dep.status /\ dep'.cert = dep.cert
    BY HashKeeps DEF NodeInv, Shapes
  <1>2. /\ th'[Installer] = th[Installer] /\ th'[t] = q
        /\ \A r \in Requests \ {t} : th'[r] = th[r]
        /\ DOMAIN th' = Threads /\ \A r \in Threads : DOMAIN th'[r] = ThreadFields
    BY ThreadsAssumption DEF NodeInv, Shapes, Threads
  <1>3. DOMAIN service' = ServiceFields /\ service'.cert = service.cert /\ service'.inbound = c
    OBVIOUS
  <1>4. /\ Reality' = Reality /\ PinNeeded' = PinNeeded /\ NodePorts' = NodePorts
        /\ SelectionPending(dep)' = SelectionPending(dep) /\ InPlace' = InPlace /\ CertMade' = CertMade
    BY <1>1, <1>3, KeptPending DEF NodeKept, SelectionPending, InPlace, CertMade
  <1>5. Shapes'
    BY <1>1, <1>2, <1>3 DEF NodeInv, Shapes, DepShape, NodeKept
  <1>6. Settled' /\ Chosen'
    BY <1>1, <1>2, <1>4 DEF NodeInv, Settled, Chosen, reality_settings
  <1>7. dep.status = "ready" => th[Installer].pc = "idle"
    BY DEF NodeInv, InstallerFits, Up
  <1>8. Up'
    <2>1. c # NoConfig => Fits(c) /\ th[Installer].pc # "i_resolve"
      BY <1>7 DEF NodeInv, Up
    <2> QED BY <1>1, <1>2, <1>3, <1>4, <2>1, KeptConfig DEF NodeInv, Up
  <1>9. \A r \in Requests : RequestFits(th[r])'
    <2> SUFFICES ASSUME NEW r \in Requests PROVE RequestFits(th[r])'
      OBVIOUS
    <2>1. PICK p : p = th'[r]
      OBVIOUS
    <2>2. RequestFits(p)'
      BY <1>1, <1>2, <2>1, KeptRequest DEF NodeInv
    <2> QED BY <2>1, <2>2
  <1>10. InstallerFits(th[Installer])'
    <2>1. PICK p : p = th[Installer]
      OBVIOUS
    <2>2. InstallerFits(p)'
      BY <1>1, <1>3, <1>4, <2>1, KeptConfig DEF NodeInv, InstallerFits, NodeKept
    <2> QED BY <1>2, <2>1, <2>2
  <1> QED BY <1>1, <1>5, <1>6, <1>8, <1>9, <1>10 DEF NodeInv

\* A step that only moves a thread, and may count it or give out an id.
LEMMA QuietStep ==
    ASSUME NodeInv, UNCHANGED <<dep, user, service, open, early>>, ids \subseteq ids',
           started' \in 0..MaxRequests,
           NEW t \in Requests, NEW q, th' = [th EXCEPT ![t] = q], DOMAIN q = ThreadFields,
           RequestFits(q)'
    PROVE  NodeInv' /\ NodeKept
  <1>1. HashOnly /\ NodeKept
    BY HashKeeps DEF HashOnly, NodeInv, Shapes
  <1>2. UserShape' /\ UsersFit'
    BY <1>1, KeptUsers DEF NodeInv, Shapes, UserShape
  <1>3. PICK c : c = service.inbound
    OBVIOUS
  <1>4. DOMAIN service' = ServiceFields /\ service'.cert = service.cert /\ service'.inbound = c
    BY <1>3 DEF NodeInv, Shapes
  <1> QED BY <1>1, <1>2, <1>3, <1>4, RequestStep

LEMMA IdleFits == DOMAIN IdleThread = ThreadFields /\ RequestFits(IdleThread)'
  BY DEF IdleThread, ThreadFields, RequestFits

\* A request that has rendered a link from the row it read.
LEMMA LinkCarried ==
    ASSUME NodeInv, dep' = dep, ids \subseteq ids', NEW u \in Users, u \in ids',
           NEW old, DOMAIN old = RowFields, NEW read, read = get_deployment,
           NEW row, row = WithLink(u, old, read), row.link # NoLink,
           NEW q, q.user = u, q.row = row, q.dep = read
    PROVE  Carries(q)'
  <1>1. Fresh(read)
    BY ReadIsFresh DEF NodeInv, Shapes
  <1>2. DOMAIN row = RowFields /\ LinkFits(u, row) /\ (~SelectionPending(read) => Named(row))
    BY <1>1, LinkRendered DEF NodeInv, Shapes
  <1>3. NodeKept
    BY HashKeeps DEF HashOnly, NodeInv, Shapes
  <1>4. Fresh(read)' /\ LinkFits(u, row)' /\ (~SelectionPending(read) => Named(row)')
    BY <1>1, <1>2, <1>3, KeptFresh, KeptLink, KeptNamed
  <1> QED BY <1>2, <1>4 DEF Carries

LEMMA CreateStep ==
    ASSUME NodeInv, NEW t \in Requests, NEW u \in Users, create_client(t, u)
    PROVE  NodeInv' /\ NodeKept
  <1>1. PICK read : read = get_deployment
    OBVIOUS
  <1>2. PICK old : old = NewRow(u, TRUE)
    OBVIOUS
  <1>3. PICK row : row = WithLink(u, old, read)
    OBVIOUS
  <1>4. PICK q : q = IF row.link = NoLink THEN IdleThread
                     ELSE [IdleThread EXCEPT !.user = u, !.row = row, !.dep = read,
                             !.pc = IF read.status = "ready" THEN "render_new" ELSE "insert"]
    OBVIOUS
  <1>5. /\ th' = [th EXCEPT ![t] = q] /\ ids' = ids \cup {u} /\ started' = started + 1
        /\ started < MaxRequests
        /\ UNCHANGED <<dep, user, service, open, early>>
    BY <1>1, <1>2, <1>3, <1>4 DEF create_client, Goto, Begin
  <1>6. DOMAIN old = RowFields
    BY <1>2 DEF NewRow, RowFields
  <1>7. DOMAIN q = ThreadFields /\ RequestFits(q)'
    <2>1. CASE row.link = NoLink
      BY <1>4, <2>1, IdleFits
    <2>2. CASE row.link # NoLink
      <3>1. /\ DOMAIN q = ThreadFields /\ q.user = u /\ q.row = row /\ q.dep = read
            /\ q.pc = IF read.status = "ready" THEN "render_new" ELSE "insert"
        BY <1>4, <2>2 DEF IdleThread, ThreadFields
      <3>2. Carries(q)'
        BY <1>1, <1>3, <1>5, <1>6, <2>2, <3>1, LinkCarried
      <3> QED BY <3>1, <3>2 DEF RequestFits, Carries
    <2> QED BY <2>1, <2>2
  <1>8. started' \in 0..MaxRequests
    BY <1>5, LimitsAssumption DEF NodeInv, Shapes
  <1> QED BY <1>5, <1>7, <1>8, QuietStep

LEMMA UpdateStep ==
    ASSUME NodeInv, NEW t \in Requests, NEW u \in Users, NEW enabled \in BOOLEAN,
           update_client(t, u, enabled)
    PROVE  NodeInv' /\ NodeKept
  <1>1. PICK read : read = get_deployment
    OBVIOUS
  <1>2. PICK old : old = [user[u] EXCEPT !.enabled = enabled]
    OBVIOUS
  <1>3. PICK row : row = WithLink(u, old, read)
    OBVIOUS
  <1>4. PICK q : q = IF row.link = NoLink THEN IdleThread
                     ELSE [IdleThread EXCEPT !.pc = "write", !.user = u, !.row = row, !.dep = read]
    OBVIOUS
  <1>5. /\ th' = [th EXCEPT ![t] = q] /\ ids' = ids /\ started' = started + 1
        /\ started < MaxRequests /\ user[u] # NoRow
        /\ UNCHANGED <<dep, user, service, open, early>>
    BY <1>1, <1>2, <1>3, <1>4 DEF update_client, Goto, Begin
  <1>6. DOMAIN old = RowFields /\ u \in ids'
    BY <1>2, <1>5 DEF NodeInv, Shapes, UserShape, UsersFit, RowFields
  <1>7. DOMAIN q = ThreadFields /\ RequestFits(q)'
    <2>1. CASE row.link = NoLink
      BY <1>4, <2>1, IdleFits
    <2>2. CASE row.link # NoLink
      <3>1. /\ DOMAIN q = ThreadFields /\ q.user = u /\ q.row = row /\ q.dep = read
            /\ q.pc = "write"
        BY <1>4, <2>2 DEF IdleThread, ThreadFields
      <3>2. Carries(q)'
        BY <1>1, <1>3, <1>5, <1>6, <2>2, <3>1, LinkCarried
      <3> QED BY <3>1, <3>2 DEF RequestFits
    <2> QED BY <2>1, <2>2
  <1>8. started' \in 0..MaxRequests
    BY <1>5, LimitsAssumption DEF NodeInv, Shapes
  <1> QED BY <1>5, <1>7, <1>8, QuietStep

LEMMA RenderNewStep ==
    ASSUME NodeInv, NEW t \in Requests, render_with_new_user(t)
    PROVE  NodeInv' /\ NodeKept
  <1>1. PICK p : p = th[t]
    OBVIOUS
  <1>2. PICK c : c = build_node_config(p.dep, active_client_users \cup {Cred(p.user, p.row)})
    OBVIOUS
  <1>3. PICK q : q = [p EXCEPT !.pc = "push", !.cfg = c]
    OBVIOUS
  <1>4. /\ p.pc = "render_new" /\ th' = [th EXCEPT ![t] = q]
        /\ UNCHANGED <<dep, user, service, open, ids, started, early>>
    BY <1>1, <1>2, <1>3 DEF render_with_new_user, Goto
  <1>5. /\ RequestFits(p) /\ DOMAIN p = ThreadFields
        /\ started \in 0..MaxRequests
    BY <1>1 DEF NodeInv, Shapes, Threads
  <1>6. /\ DOMAIN q = ThreadFields /\ q.pc = "push" /\ q.cfg = c
        /\ q.user = p.user /\ q.row = p.row /\ q.dep = p.dep
    BY <1>3, <1>5 DEF ThreadFields
  <1>7. Fresh(p.dep) /\ p.dep.status = "ready" /\ Carries(p)
    BY <1>4, <1>5 DEF RequestFits
  <1>8. dep.status = "ready" /\ Fits(c)
    BY <1>2, <1>7, ConfigRendered DEF NodeInv, Shapes, Fresh
  <1>9. RequestFits(q)
    BY <1>6, <1>7, <1>8 DEF RequestFits, Carries
  <1>10. RequestFits(q)'
    BY <1>4, <1>9, HashKeeps, KeptRequest DEF HashOnly, NodeInv, Shapes
  <1> QED BY <1>4, <1>5, <1>6, <1>10, QuietStep

\* A row is inserted or written with the link its thread has rendered.
LEMMA UserStep ==
    ASSUME NodeInv, NEW t \in Requests, th[t].pc \in {"insert", "write"}, HashOnly,
           user' = [user EXCEPT ![th[t].user] = th[t].row], early' = Early(t),
           UNCHANGED <<service, open, ids, started>>,
           NEW q, th' = [th EXCEPT ![t] = q], DOMAIN q = ThreadFields, RequestFits(q)'
    PROVE  NodeInv' /\ NodeKept
  <1>1. PICK p : p = th[t]
    OBVIOUS
  <1>2. PICK w : w = p.user
    OBVIOUS
  <1>3. PICK row : row = p.row
    OBVIOUS
  <1>4. Carries(p)
    BY <1>1 DEF NodeInv, RequestFits
  <1>5. /\ w \in Users /\ w \in ids /\ DOMAIN row = RowFields /\ LinkFits(w, row)
        /\ ~SelectionPending(p.dep) => Named(row)
    BY <1>2, <1>3, <1>4 DEF Carries
  <1>6. /\ user' = [user EXCEPT ![w] = row]
        /\ early' = IF SelectionPending(p.dep) THEN early \cup {w} ELSE early \ {w}
    BY <1>1, <1>2, <1>3 DEF Early
  <1>7. NodeKept
    BY HashKeeps DEF NodeInv, Shapes
  <1>8. UserShape'
    BY <1>5, <1>6 DEF NodeInv, Shapes, UserShape
  <1>9. UsersFit'
    <2> SUFFICES ASSUME NEW u \in Users, user'[u] # NoRow
                 PROVE  u \in ids' /\ LinkFits(u, user[u])' /\ (u \notin early' => Named(user[u])')
      BY DEF UsersFit
    <2>1. PICK r : r = user'[u]
      OBVIOUS
    <2>2. /\ u \in ids /\ LinkFits(u, r)
          /\ u \notin early' => Named(r)
      <3>1. CASE u = w
        BY <1>5, <1>6, <2>1, <3>1 DEF NodeInv, Shapes, UserShape
      <3>2. CASE u # w
        BY <1>6, <2>1, <3>2 DEF NodeInv, Shapes, UserShape, UsersFit
      <3> QED BY <3>1, <3>2
    <2>3. LinkFits(u, r)' /\ (u \notin early' => Named(r)')
      BY <1>7, <2>2, KeptLink, KeptNamed
    <2> QED BY <2>1, <2>2, <2>3
  <1>10. PICK c : c = service.inbound
    OBVIOUS
  <1>11. /\ DOMAIN service' = ServiceFields /\ service'.cert = service.cert /\ service'.inbound = c
         /\ started' \in 0..MaxRequests
    BY <1>10 DEF NodeInv, Shapes
  <1> QED BY <1>8, <1>9, <1>10, <1>11, RequestStep

LEMMA InsertStep ==
    ASSUME NodeInv, NEW t \in Requests, insert_client(t)
    PROVE  NodeInv' /\ NodeKept
  <1>1. PICK q : q = IdleThread
    OBVIOUS
  <1>2. PICK c : c = th[t].cfg
    OBVIOUS
  <1>3. HashOnly
    BY <1>2 DEF insert_client, HashOnly
  <1>4. DOMAIN q = ThreadFields /\ RequestFits(q)'
    BY <1>1, IdleFits
  <1> QED BY <1>1, <1>3, <1>4, UserStep DEF insert_client, Goto

LEMMA WriteStep ==
    ASSUME NodeInv, NEW t \in Requests, write_client(t)
    PROVE  NodeInv' /\ NodeKept
  <1>1. PICK q : q = [IdleThread EXCEPT !.pc = "apply"]
    OBVIOUS
  <1>2. DOMAIN q = ThreadFields /\ RequestFits(q)'
    BY <1>1 DEF IdleThread, ThreadFields, RequestFits
  <1> QED BY <1>1, <1>2, UserStep DEF write_client, Goto, HashOnly

LEMMA ApplyStep ==
    ASSUME NodeInv, NEW t \in Requests, apply_node_config(t)
    PROVE  NodeInv' /\ NodeKept
  <1>1. PICK d : d = get_deployment
    OBVIOUS
  <1>2. PICK q : q = IF dep.status # "ready" THEN IdleThread
                     ELSE [IdleThread EXCEPT !.pc = "render", !.dep = d]
    OBVIOUS
  <1>3. /\ th' = [th EXCEPT ![t] = q]
        /\ UNCHANGED <<dep, user, service, open, ids, started, early>>
    BY <1>1, <1>2 DEF apply_node_config, Goto
  <1>4. Fresh(d) /\ d.status = dep.status
    BY <1>1, ReadIsFresh DEF NodeInv, Shapes
  <1>5. DOMAIN q = ThreadFields /\ RequestFits(q)
    BY <1>2, <1>4 DEF IdleThread, ThreadFields, RequestFits
  <1>6. RequestFits(q)'
    BY <1>3, <1>5, HashKeeps, KeptRequest DEF HashOnly, NodeInv, Shapes
  <1>7. started \in 0..MaxRequests
    BY DEF NodeInv, Shapes
  <1> QED BY <1>3, <1>5, <1>6, <1>7, QuietStep

LEMMA RenderStep ==
    ASSUME NodeInv, NEW t \in Requests, render_node_config(t)
    PROVE  NodeInv' /\ NodeKept
  <1>1. PICK p : p = th[t]
    OBVIOUS
  <1>2. PICK c : c = build_node_config(p.dep, active_client_users)
    OBVIOUS
  <1>3. PICK q : q = IF c = p.dep.hash THEN IdleThread ELSE [p EXCEPT !.pc = "push", !.cfg = c]
    OBVIOUS
  <1>4. /\ p.pc = "render" /\ th' = [th EXCEPT ![t] = q]
        /\ UNCHANGED <<dep, user, service, open, ids, started, early>>
    BY <1>1, <1>2, <1>3 DEF render_node_config, Goto
  <1>5. RequestFits(p) /\ DOMAIN p = ThreadFields /\ started \in 0..MaxRequests
    BY <1>1 DEF NodeInv, Shapes, Threads
  <1>6. Fresh(p.dep) /\ p.dep.status = "ready"
    BY <1>4, <1>5 DEF RequestFits
  <1>7. dep.status = "ready" /\ Fits(c)
    BY <1>2, <1>6, ConfigRendered DEF NodeInv, Shapes, Fresh
  <1>8. DOMAIN q = ThreadFields /\ RequestFits(q)'
    <2>1. CASE c = p.dep.hash
      BY <1>3, <2>1, IdleFits
    <2>2. CASE c # p.dep.hash
      <3>1. /\ DOMAIN q = ThreadFields /\ q.pc = "push" /\ q.cfg = c
            /\ q.user = p.user /\ q.row = p.row /\ q.dep = p.dep
        BY <1>3, <1>5, <2>2 DEF ThreadFields
      <3>2. q.user = NoUser
        BY <1>4, <1>5, <3>1 DEF RequestFits
      <3>3. RequestFits(q)
        BY <1>7, <3>1, <3>2 DEF RequestFits
      <3> QED BY <1>4, <3>1, <3>3, HashKeeps, KeptRequest DEF HashOnly, NodeInv, Shapes
    <2> QED BY <2>1, <2>2
  <1> QED BY <1>4, <1>5, <1>8, QuietStep

LEMMA PushOkStep ==
    ASSUME NodeInv, NEW t \in Requests, push_ok(t)
    PROVE  NodeInv' /\ NodeKept
  <1>1. PICK p : p = th[t]
    OBVIOUS
  <1>2. PICK c : c = p.cfg
    OBVIOUS
  <1>3. PICK q : q = [p EXCEPT !.pc = IF p.user = NoUser THEN "record" ELSE "insert"]
    OBVIOUS
  <1>4. /\ p.pc = "push" /\ th' = [th EXCEPT ![t] = q]
        /\ service' = [service EXCEPT !.inbound = c]
        /\ UNCHANGED <<dep, user, open, ids, started, early>>
    BY <1>1, <1>2, <1>3 DEF push_ok, Goto
  <1>5. RequestFits(p) /\ DOMAIN p = ThreadFields /\ started \in 0..MaxRequests
    BY <1>1 DEF NodeInv, Shapes, Threads
  <1>6. /\ DOMAIN q = ThreadFields /\ q.cfg = c /\ q.user = p.user /\ q.row = p.row /\ q.dep = p.dep
        /\ q.pc = IF p.user = NoUser THEN "record" ELSE "insert"
    BY <1>2, <1>3, <1>5 DEF ThreadFields
  <1>7. dep.status = "ready" /\ Fits(c) /\ (p.user # NoUser => Carries(p))
    BY <1>2, <1>4, <1>5 DEF RequestFits
  <1>8. RequestFits(q)
    BY <1>6, <1>7 DEF RequestFits, Carries
  <1>9. HashOnly /\ NodeKept
    BY <1>4, HashKeeps DEF HashOnly, NodeInv, Shapes
  <1>10. RequestFits(q)' /\ UsersFit' /\ UserShape'
    BY <1>4, <1>8, <1>9, KeptRequest, KeptUsers DEF NodeInv, Shapes, UserShape
  <1>11. DOMAIN service' = ServiceFields /\ service'.cert = service.cert /\ service'.inbound = c
    BY <1>4 DEF NodeInv, Shapes, ServiceFields
  <1> QED BY <1>4, <1>5, <1>6, <1>7, <1>9, <1>10, <1>11, RequestStep

LEMMA PushFailedStep ==
    ASSUME NodeInv, NEW t \in Requests, push_failed(t)
    PROVE  NodeInv' /\ NodeKept
  <1>1. PICK q : q = IdleThread
    OBVIOUS
  <1>2. DOMAIN q = ThreadFields /\ RequestFits(q)' /\ started \in 0..MaxRequests
    BY <1>1, IdleFits DEF NodeInv, Shapes
  <1> QED BY <1>1, <1>2, QuietStep DEF push_failed, Goto

LEMMA RecordStep ==
    ASSUME NodeInv, NEW t \in Requests, record_config_hash(t)
    PROVE  NodeInv' /\ NodeKept
  <1>1. PICK q : q = IdleThread
    OBVIOUS
  <1>2. PICK h : h = th[t].cfg
    OBVIOUS
  <1>3. /\ th' = [th EXCEPT ![t] = q] /\ dep' = [dep EXCEPT !.hash = h]
        /\ UNCHANGED <<user, service, open, ids, started, early>>
    BY <1>1, <1>2 DEF record_config_hash, Goto
  <1>4. HashOnly /\ NodeKept
    BY <1>3, HashKeeps DEF HashOnly, NodeInv, Shapes
  <1>5. UsersFit' /\ UserShape'
    BY <1>3, <1>4, KeptUsers DEF NodeInv, Shapes, UserShape
  <1>6. PICK c : c = service.inbound
    OBVIOUS
  <1>7. /\ DOMAIN q = ThreadFields /\ RequestFits(q)' /\ started' \in 0..MaxRequests
        /\ DOMAIN service' = ServiceFields /\ service'.cert = service.cert /\ service'.inbound = c
    BY <1>1, <1>3, <1>6, IdleFits DEF NodeInv, Shapes
  <1> QED BY <1>3, <1>4, <1>5, <1>6, <1>7, RequestStep

-----------------------------------------------------------------------------
(* The steps of the installer.                                             *)

\* Requests and users fit whatever the installer does to the row and host.
LEMMA InstallerStep ==
    ASSUME NodeInv, NodeKept, UNCHANGED <<user, ids, started, early>>,
           NEW q, th' = [th EXCEPT ![Installer] = q], DOMAIN q = ThreadFields,
           DOMAIN service' = ServiceFields,
           Settled', Chosen', Up', InstallerFits(q)'
    PROVE  NodeInv' /\ NodeKept
  <1>1. /\ th'[Installer] = q /\ \A r \in Requests : th'[r] = th[r]
        /\ DOMAIN th' = Threads /\ \A r \in Threads : DOMAIN th'[r] = ThreadFields
    BY ThreadsAssumption DEF NodeInv, Shapes, Threads
  <1>2. Shapes'
    BY <1>1 DEF NodeInv, Shapes, UserShape, DepShape, NodeKept
  <1>3. UsersFit'
    BY KeptUsers DEF NodeInv
  <1>4. \A r \in Requests : RequestFits(th[r])'
    <2> SUFFICES ASSUME NEW r \in Requests PROVE RequestFits(th[r])'
      OBVIOUS
    <2>1. PICK p : p = th[r]
      OBVIOUS
    <2>2. RequestFits(p)'
      BY <2>1, KeptRequest DEF NodeInv
    <2> QED BY <1>1, <2>1, <2>2
  <1>5. InstallerFits(th[Installer])'
    BY <1>1
  <1> QED BY <1>2, <1>3, <1>4, <1>5 DEF NodeInv

\* A chosen target has a host.
LEMMA CandidatesChosen ==
    ASSUME NEW p \in reality_candidates
    PROVE  p[1] # <<>> /\ (p[2] = "" => p[1][1] = "")
  <1> DEFINE single == EnvDest # <<>> /\ (EnvDest # DefaultDest \/ EnvSni # "")
             raw == IF EnvCandidates # <<>> THEN EnvCandidates
                    ELSE IF single THEN <<EnvDest>> ELSE DefaultCandidates
             sni(i) == IF i = 1 /\ EnvCandidates = <<>> /\ EnvSni # "" THEN EnvSni ELSE raw[i][1]
  <1>1. PICK i \in DOMAIN raw : p = <<raw[i], sni(i)>>
    BY DEF reality_candidates
  <1>2. raw[i] # <<>>
    <2>1. CASE EnvCandidates # <<>>
      BY <2>1, <1>1, CandidatesAssumption
    <2>2. CASE EnvCandidates = <<>> /\ single
      <3>1. raw = <<EnvDest>>
        BY <2>2
      <3> HIDE DEF raw, sni
      <3>2. i = 1 /\ raw[1] = EnvDest
        BY <1>1, <3>1
      <3> QED BY <2>2, <3>2
    <2>3. CASE EnvCandidates = <<>> /\ ~single
      <3>1. raw = DefaultCandidates
        BY <2>3
      <3> HIDE DEF raw, sni
      <3>2. PICK a, b : raw = <<DefaultDest, <<a, 443>>, <<b, 443>>>>
        BY <3>1 DEF DefaultCandidates
      <3>3. i \in {1, 2, 3}
        BY <1>1, <3>2
      <3>4. Len(DefaultDest) = 2 /\ Len(<<a, 443>>) = 2 /\ Len(<<b, 443>>) = 2 /\ Len(<<>>) = 0
        BY DEF DefaultDest
      <3> QED BY <3>2, <3>3, <3>4
    <2> QED BY <2>1, <2>2, <2>3
  <1>3. sni(i) = "" => raw[i][1] = ""
    OBVIOUS
  <1> HIDE DEF raw, sni, single
  <1> QED BY <1>1, <1>2, <1>3

LEMMA ResolveStep ==
    ASSUME NodeInv, resolve_reality_target
    PROVE  NodeInv' /\ NodeKept
  <1>1. PICK q : q = [IdleThread EXCEPT !.pc = "i_render"]
    OBVIOUS
  <1>2. PICK p : /\ p \in IF dep.mode = "manual"
                          THEN {<<reality_settings(dep).dest, reality_settings(dep).sni>>}
                          ELSE reality_candidates
                 /\ dep' = [dep EXCEPT !.dest = p[1], !.sni = p[2]]
    BY DEF resolve_reality_target
  <1>3. /\ th[Installer].pc = "i_resolve" /\ th' = [th EXCEPT ![Installer] = q]
        /\ UNCHANGED <<user, service, open, ids, started, early>>
    BY <1>1 DEF resolve_reality_target, Goto
  <1>4. /\ DepShape /\ Settled /\ dep.status = "provisioning" /\ Reality
        /\ dep.mode = "auto" => dep.dest = <<>>
    BY <1>3 DEF NodeInv, Shapes, InstallerFits
  <1>5. /\ dep'.dest = p[1] /\ dep'.sni = p[2] /\ DOMAIN dep' = DepFields
        /\ \A f \in DepFields \ {"dest", "sni"} : dep'[f] = dep[f]
    BY <1>2, <1>4 DEF DepShape, DepFields
  <1>6. /\ p[1] # <<>> /\ (p[2] = "" => p[1][1] = "")
        /\ ~SelectionPending(dep) => p[1] = dep.dest /\ p[2] = dep.sni
    <2>1. CASE dep.mode = "manual"
      <3>1. p[1] = reality_settings(dep).dest /\ p[2] = reality_settings(dep).sni
        BY <1>2, <2>1
      <3>2. dep.dest # <<>> /\ reality_settings(dep).sni = dep.sni
        BY <1>4, <2>1 DEF Settled, SelectionPending
      <3> QED BY <3>1, <3>2 DEF reality_settings
    <2>2. CASE dep.mode # "manual"
      <3>1. p \in reality_candidates
        BY <1>2, <2>2
      <3>2. SelectionPending(dep)
        BY <1>4, <2>2 DEF DepShape, SelectionPending
      <3> QED BY <3>1, <3>2, CandidatesChosen
    <2> QED BY <2>1, <2>2
  <1>7. /\ dep'.protocol = dep.protocol /\ dep'.domain = dep.domain /\ dep'.mode = dep.mode
        /\ dep'.host = dep.host /\ dep'.port = dep.port /\ dep'.key = dep.key /\ dep'.sid = dep.sid
        /\ dep'.ss = dep.ss /\ dep'.obfs = dep.obfs /\ dep'.cert = dep.cert /\ dep'.status = dep.status
    BY <1>5 DEF DepFields
  <1>8. NodeKept
    BY <1>3, <1>4, <1>5, <1>6, <1>7 DEF NodeKept
  <1>9. Settled' /\ ~SelectionPending(dep)'
    BY <1>5, <1>6 DEF Settled, SelectionPending, reality_settings
  <1>10. DOMAIN q = ThreadFields /\ q.pc = "i_render"
    BY <1>1 DEF IdleThread, ThreadFields
  <1>11. InstallerFits(q)' /\ Chosen'
    BY <1>4, <1>7, <1>9, <1>10 DEF InstallerFits, InstallerPcs, Chosen
  <1>12. Up'
    <2>1. dep.cert = 0 /\ service.inbound = NoConfig
      BY <1>3, <1>4 DEF NodeInv, Up
    <2> QED BY <1>3, <1>4, <1>7, <2>1 DEF Up
  <1>13. DOMAIN service' = ServiceFields
    BY <1>3 DEF NodeInv, Shapes
  <1> QED BY <1>3, <1>8, <1>9, <1>10, <1>11, <1>12, <1>13, InstallerStep

LEMMA RenderInstallStep ==
    ASSUME NodeInv, install_render
    PROVE  NodeInv' /\ NodeKept
  <1>1. PICK d : d = get_deployment
    OBVIOUS
  <1>2. PICK c : c = build_node_config(d, active_client_users)
    OBVIOUS
  <1>3. PICK q : q = [IdleThread EXCEPT !.pc = "i_run", !.cfg = c]
    OBVIOUS
  <1>4. /\ th[Installer].pc = "i_render" /\ th' = [th EXCEPT ![Installer] = q]
        /\ UNCHANGED <<dep, user, service, open, ids, started, early>>
    BY <1>1, <1>2, <1>3 DEF install_render, Goto
  <1>5. NodeKept
    BY <1>4, HashKeeps DEF HashOnly, NodeInv, Shapes
  <1>6. Reality => ~SelectionPending(dep)
    BY <1>4 DEF NodeInv, Chosen
  <1>7. Fits(c)
    <2>1. Fresh(d) /\ (Reality => ~SelectionPending(d))
      BY <1>1, <1>6, ReadIsFresh DEF NodeInv, Shapes
    <2> QED BY <1>2, <2>1, ConfigRendered DEF NodeInv, Shapes
  <1>8. DOMAIN q = ThreadFields /\ q.pc = "i_run" /\ q.cfg = c
    BY <1>3 DEF IdleThread, ThreadFields
  <1>9. dep.status = "provisioning"
    BY <1>4 DEF NodeInv, InstallerFits
  <1>10. InstallerFits(q)'
    BY <1>4, <1>5, <1>7, <1>8, <1>9, KeptConfig DEF InstallerFits, InstallerPcs
  <1>11. Settled'
    BY <1>4 DEF NodeInv, Settled, Reality, SelectionPending, reality_settings
  <1>12. Chosen'
    BY <1>4, <1>6 DEF Chosen, Reality, SelectionPending
  <1>13. Up'
    <2>1. InPlace' = InPlace
      BY <1>4 DEF InPlace, CertMade, NodePorts, PinNeeded
    <2>2. th'[Installer].pc # "i_resolve"
      BY <1>4, <1>8 DEF NodeInv, Shapes, Threads
    <2>3. PICK s : s = service.inbound
      OBVIOUS
    <2>4. s # NoConfig => Fits(s)'
      BY <1>5, <2>3, KeptConfig DEF NodeInv, Up
    <2> QED BY <1>4, <1>9, <2>1, <2>2, <2>3, <2>4 DEF NodeInv, Up
  <1>14. DOMAIN service' = ServiceFields
    BY <1>4 DEF NodeInv, Shapes
  <1> QED BY <1>4, <1>5, <1>8, <1>10, <1>11, <1>12, <1>13, <1>14, InstallerStep

\* The script starts the service,
LEMMA InstallServiceStep ==
    ASSUME NodeInv, install_service
    PROVE  NodeInv' /\ NodeKept
  <1>1. PICK p : p = th[Installer]
    OBVIOUS
  <1>2. PICK q : q = [p EXCEPT !.pc = "i_open"]
    OBVIOUS
  <1>3. /\ p.pc = "i_run" /\ th' = [th EXCEPT ![Installer] = q]
        /\ service' = Installed(service, p.cfg, Direct, node_install_options(dep), 5)
        /\ UNCHANGED <<dep, user, open, ids, started, early>>
    BY <1>1, <1>2 DEF install_service, Goto
  <1>4. NodeKept
    BY <1>3, HashKeeps DEF HashOnly, NodeInv, Shapes
  <1>5. node_install_options(dep).cert = PinNeeded
    BY DEF node_install_options, PinNeeded
  <1>6. /\ DOMAIN service' = ServiceFields /\ service'.inbound = p.cfg
        /\ PinNeeded => service'.cert # 0
    BY <1>3, <1>5 DEF Installed, ServiceFields
  <1>7. /\ DOMAIN p = ThreadFields /\ Fits(p.cfg) /\ dep.status = "provisioning"
        /\ Reality => ~SelectionPending(dep)
    <2>1. DOMAIN p = ThreadFields /\ InstallerFits(p) /\ Chosen
      BY <1>1 DEF NodeInv, Shapes, Threads
    <2> QED BY <1>1, <1>3, <2>1 DEF InstallerFits, Chosen
  <1>8. DOMAIN q = ThreadFields /\ q.pc = "i_open" /\ q.cfg = p.cfg
    BY <1>2, <1>7 DEF ThreadFields
  <1>9. CertMade'
    BY <1>3, <1>6 DEF CertMade, PinNeeded
  <1>10. Fits(p.cfg)'
    BY <1>4, <1>7, KeptConfig
  <1>11. InstallerFits(q)'
    BY <1>3, <1>7, <1>8, <1>9, <1>10 DEF InstallerFits, InstallerPcs
  <1>12. Settled'
    BY <1>3 DEF NodeInv, Settled, Reality, SelectionPending, reality_settings
  <1>13. Chosen'
    BY <1>3, <1>7 DEF Chosen, Reality, SelectionPending
  <1>14. Up'
    <2>1. th'[Installer].pc # "i_resolve"
      BY <1>3, <1>8 DEF NodeInv, Shapes, Threads
    <2>2. dep.cert = 0
      BY <1>7 DEF NodeInv, Up
    <2> QED BY <1>3, <1>6, <1>7, <1>10, <2>1, <2>2 DEF Up
  <1> QED BY <1>3, <1>4, <1>6, <1>8, <1>11, <1>12, <1>13, <1>14, InstallerStep

\* and opens its ports.
LEMMA InstallPortsStep ==
    ASSUME NodeInv, install_ports
    PROVE  NodeInv' /\ NodeKept
  <1>1. PICK p : p = th[Installer]
    OBVIOUS
  <1>2. PICK pin : pin = IF node_install_options(dep).cert THEN service.cert ELSE 0
    OBVIOUS
  <1>3. PICK q : q = [p EXCEPT !.pc = "i_ready", !.pin = pin]
    OBVIOUS
  <1>4. /\ p.pc = "i_open" /\ th' = [th EXCEPT ![Installer] = q]
        /\ open' = open \cup NodePorts
        /\ UNCHANGED <<dep, user, service, ids, started, early>>
    BY <1>1, <1>2, <1>3 DEF install_ports, Goto
  <1>5. NodeKept
    BY <1>4, HashKeeps DEF HashOnly, NodeInv, Shapes
  <1>6. node_install_options(dep).cert = PinNeeded
    BY DEF node_install_options, PinNeeded
  <1>7. /\ DOMAIN p = ThreadFields /\ Fits(p.cfg) /\ dep.status = "provisioning" /\ CertMade
        /\ Reality => ~SelectionPending(dep)
    <2>1. DOMAIN p = ThreadFields /\ InstallerFits(p) /\ Chosen
      BY <1>1 DEF NodeInv, Shapes, Threads
    <2> QED BY <1>1, <1>4, <2>1 DEF InstallerFits, Chosen
  <1>8. DOMAIN q = ThreadFields /\ q.pc = "i_ready" /\ q.cfg = p.cfg /\ q.pin = pin
    BY <1>3, <1>7 DEF ThreadFields
  <1>9. InPlace' /\ PinNeeded' = PinNeeded
    BY <1>4, <1>7 DEF InPlace, CertMade, NodePorts, PinNeeded
  <1>10. Fits(p.cfg)'
    BY <1>5, <1>7, KeptConfig
  <1>11. InstallerFits(q)'
    BY <1>2, <1>4, <1>6, <1>7, <1>8, <1>9, <1>10 DEF InstallerFits, InstallerPcs
  <1>12. Settled'
    BY <1>4 DEF NodeInv, Settled, Reality, SelectionPending, reality_settings
  <1>13. Chosen'
    BY <1>4, <1>7 DEF Chosen, Reality, SelectionPending
  <1>14. Up'
    <2>1. th'[Installer].pc # "i_resolve"
      BY <1>4, <1>8 DEF NodeInv, Shapes, Threads
    <2>2. PICK s : s = service.inbound
      OBVIOUS
    <2>3. s # NoConfig => Fits(s)'
      BY <1>5, <2>2, KeptConfig DEF NodeInv, Up
    <2> QED BY <1>4, <1>7, <2>1, <2>2, <2>3 DEF NodeInv, Up
  <1>15. DOMAIN service' = ServiceFields
    BY <1>4 DEF NodeInv, Shapes
  <1> QED BY <1>4, <1>5, <1>8, <1>11, <1>12, <1>13, <1>14, <1>15, InstallerStep

LEMMA InstallReadyStep ==
    ASSUME NodeInv, install_ready
    PROVE  NodeInv' /\ NodeKept
  <1>1. PICK p : p = th[Installer]
    OBVIOUS
  <1>2. PICK q : q = IdleThread
    OBVIOUS
  <1>3. /\ p.pc = "i_ready" /\ th' = [th EXCEPT ![Installer] = q]
        /\ dep' = [dep EXCEPT !.status = "ready", !.hash = p.cfg, !.cert = p.pin]
        /\ UNCHANGED <<user, service, open, ids, started, early>>
    BY <1>1, <1>2 DEF install_ready, Goto
  <1>4. /\ DepShape /\ dep.status = "provisioning" /\ dep.cert = 0
        /\ InPlace /\ p.pin = (IF PinNeeded THEN service.cert ELSE 0)
        /\ Reality => ~SelectionPending(dep)
    BY <1>1, <1>3 DEF NodeInv, Shapes, InstallerFits, Chosen, Up
  <1>5. /\ DOMAIN dep' = DepFields /\ dep'.status = "ready" /\ dep'.cert = p.pin
        /\ \A f \in DepFields \ {"status", "hash", "cert"} : dep'[f] = dep[f]
    BY <1>3, <1>4 DEF DepShape, DepFields
  <1>6. /\ dep'.protocol = dep.protocol /\ dep'.domain = dep.domain /\ dep'.mode = dep.mode
        /\ dep'.host = dep.host /\ dep'.port = dep.port /\ dep'.key = dep.key /\ dep'.sid = dep.sid
        /\ dep'.ss = dep.ss /\ dep'.obfs = dep.obfs /\ dep'.dest = dep.dest /\ dep'.sni = dep.sni
    BY <1>5 DEF DepFields
  <1>7. NodeKept
    BY <1>3, <1>4, <1>5, <1>6 DEF NodeKept
  <1>8. DOMAIN q = ThreadFields /\ q.pc = "idle"
    BY <1>2 DEF IdleThread, ThreadFields
  <1>9. InstallerFits(q)'
    BY <1>8 DEF InstallerFits, InstallerPcs
  <1>10. Settled' /\ Chosen'
    BY <1>4, <1>6 DEF NodeInv, Settled, Chosen, Reality, SelectionPending, reality_settings
  <1>11. InPlace' = InPlace /\ PinNeeded' = PinNeeded
    BY <1>3, <1>6 DEF InPlace, CertMade, NodePorts, PinNeeded, node_install_options
  <1>12. Up'
    <2>1. th'[Installer].pc # "i_resolve"
      BY <1>3, <1>8 DEF NodeInv, Shapes, Threads
    <2>2. PICK s : s = service.inbound
      OBVIOUS
    <2>3. s # NoConfig => Fits(s)'
      BY <1>7, <2>2, KeptConfig DEF NodeInv, Up
    <2> QED BY <1>3, <1>4, <1>5, <1>11, <2>1, <2>2, <2>3 DEF Up
  <1>13. DOMAIN service' = ServiceFields
    BY <1>3 DEF NodeInv, Shapes
  <1> QED BY <1>3, <1>7, <1>8, <1>9, <1>10, <1>12, <1>13, InstallerStep

\* The row fails, and the service stays or goes.
LEMMA FailedRow ==
    ASSUME NodeInv, dep.status # "ready", dep' = [dep EXCEPT !.status = "failed"],
           UNCHANGED ids, service' \in {service, NoService}
    PROVE  /\ NodeKept /\ DOMAIN service' = ServiceFields /\ Settled' /\ dep'.status = "failed"
           /\ dep'.cert = 0
           /\ service'.inbound # NoConfig =>
                Fits(service.inbound)' /\ service'.inbound = service.inbound
  <1>1. DepShape /\ dep.cert = 0
    BY DEF NodeInv, Shapes, Up
  <1>2. /\ DOMAIN dep' = DepFields /\ dep'.status = "failed"
        /\ \A f \in DepFields \ {"status"} : dep'[f] = dep[f]
    BY <1>1 DEF DepShape, DepFields
  <1>3. /\ dep'.protocol = dep.protocol /\ dep'.domain = dep.domain /\ dep'.mode = dep.mode
        /\ dep'.host = dep.host /\ dep'.port = dep.port /\ dep'.key = dep.key /\ dep'.sid = dep.sid
        /\ dep'.ss = dep.ss /\ dep'.obfs = dep.obfs /\ dep'.dest = dep.dest /\ dep'.sni = dep.sni
        /\ dep'.cert = dep.cert
    BY <1>2 DEF DepFields
  <1>4. NodeKept
    BY <1>2, <1>3 DEF NodeKept
  <1>5. Settled'
    BY <1>3 DEF NodeInv, Settled, Reality, SelectionPending, reality_settings
  <1>6. DOMAIN service' = ServiceFields
    BY DEF NodeInv, Shapes, NoService, ServiceFields
  <1>7. ASSUME service'.inbound # NoConfig
        PROVE  Fits(service.inbound)' /\ service'.inbound = service.inbound
    <2>1. service' = service
      BY <1>7 DEF NoService
    <2>2. PICK s : s = service.inbound
      OBVIOUS
    <2>3. Fits(s)
      BY <1>7, <2>1, <2>2 DEF NodeInv, Up
    <2>4. Fits(s)'
      BY <1>4, <2>3, KeptConfig
    <2> QED BY <2>1, <2>2, <2>4
  <1> QED BY <1>1, <1>2, <1>3, <1>4, <1>5, <1>6, <1>7

LEMMA InstallFailedStep ==
    ASSUME NodeInv, install_failed
    PROVE  NodeInv' /\ NodeKept
  <1>1. PICK q : q = IdleThread
    OBVIOUS
  <1>2. /\ th[Installer].pc \in {"i_resolve", "i_run", "i_open", "i_render", "i_ready"}
        /\ th' = [th EXCEPT ![Installer] = q] /\ dep' = [dep EXCEPT !.status = "failed"]
        /\ service' \in {service, NoService}
        /\ UNCHANGED <<user, ids, started, early>>
    BY <1>1 DEF install_failed, Goto
  <1>3. dep.status = "provisioning"
    BY <1>2 DEF NodeInv, InstallerFits
  <1>4. /\ NodeKept /\ DOMAIN service' = ServiceFields /\ Settled' /\ dep'.status = "failed"
        /\ dep'.cert = 0
        /\ service'.inbound # NoConfig =>
             Fits(service.inbound)' /\ service'.inbound = service.inbound
    BY <1>2, <1>3, FailedRow
  <1>5. DOMAIN q = ThreadFields /\ q.pc = "idle" /\ th'[Installer].pc = "idle"
    BY <1>1, <1>2 DEF IdleThread, ThreadFields, NodeInv, Shapes, Threads
  <1>6. InstallerFits(q)'
    BY <1>5 DEF InstallerFits, InstallerPcs
  <1>7. Chosen' /\ Up'
    BY <1>4, <1>5 DEF Chosen, Up
  <1> QED BY <1>2, <1>4, <1>5, <1>6, <1>7, InstallerStep

LEMMA NodeStep ==
    ASSUME NodeInv, NodeNext
    PROVE  NodeInv' /\ NodeKept
  <1>1. CASE \E t \in Requests, u \in Users : create_client(t, u)
    BY <1>1, CreateStep
  <1>2. CASE \E t \in Requests, u \in Users, enabled \in BOOLEAN : update_client(t, u, enabled)
    BY <1>2, UpdateStep
  <1>3. CASE \E t \in Requests : render_with_new_user(t) \/ insert_client(t) \/ write_client(t)
    BY <1>3, RenderNewStep, InsertStep, WriteStep
  <1>4. CASE \E t \in Requests : Apply(t)
    BY <1>4, ApplyStep, RenderStep, PushOkStep, PushFailedStep, RecordStep DEF Apply
  <1>5. CASE \/ resolve_reality_target \/ install_render \/ install_service \/ install_ports
             \/ install_ready \/ install_failed
    BY <1>5, ResolveStep, RenderInstallStep, InstallServiceStep, InstallPortsStep,
       InstallReadyStep, InstallFailedStep
  <1> QED BY <1>1, <1>2, <1>3, <1>4, <1>5 DEF NodeNext

LEMMA NodeCrashStep ==
    ASSUME NodeInv, crash
    PROVE  NodeInv' /\ NodeKept
  <1>1. /\ dep' = [dep EXCEPT !.status = IF @ = "provisioning" THEN "failed" ELSE @]
        /\ th' = [t \in Threads |-> IdleThread]
        /\ UNCHANGED <<user, service, open, ids, started, early>>
    BY DEF crash
  <1>2. DOMAIN IdleThread = ThreadFields /\ RequestFits(IdleThread)' /\ InstallerFits(IdleThread)'
    BY IdleFits DEF IdleThread, InstallerFits, InstallerPcs
  <1>3. /\ DOMAIN th' = Threads /\ th'[Installer].pc = "idle"
        /\ \A t \in Threads : th'[t] = IdleThread
    BY <1>1 DEF Threads, IdleThread
  <1>4. /\ DepShape /\ DOMAIN dep' = DepFields
        /\ dep'.status = IF dep.status = "provisioning" THEN "failed" ELSE dep.status
        /\ \A f \in DepFields \ {"status"} : dep'[f] = dep[f]
    BY <1>1 DEF NodeInv, Shapes, DepShape, DepFields
  <1>5. /\ dep'.protocol = dep.protocol /\ dep'.domain = dep.domain /\ dep'.mode = dep.mode
        /\ dep'.host = dep.host /\ dep'.port = dep.port /\ dep'.key = dep.key /\ dep'.sid = dep.sid
        /\ dep'.ss = dep.ss /\ dep'.obfs = dep.obfs /\ dep'.dest = dep.dest /\ dep'.sni = dep.sni
        /\ dep'.cert = dep.cert
    BY <1>4 DEF DepFields
  <1>6. NodeKept
    BY <1>1, <1>4, <1>5 DEF NodeKept, DepShape
  <1>7. Shapes'
    BY <1>1, <1>2, <1>3, <1>4, <1>5 DEF NodeInv, Shapes, UserShape, DepShape
  <1>8. Settled' /\ Chosen'
    BY <1>3, <1>4, <1>5 DEF NodeInv, Settled, Chosen, Reality, SelectionPending, reality_settings
  <1>9. Up'
    <2>1. InPlace' = InPlace /\ PinNeeded' = PinNeeded
      BY <1>1, <1>5 DEF InPlace, CertMade, NodePorts, PinNeeded, node_install_options
    <2>2. PICK s : s = service.inbound
      OBVIOUS
    <2>3. s # NoConfig => Fits(s)'
      BY <1>6, <2>2, KeptConfig DEF NodeInv, Up
    <2> QED BY <1>1, <1>3, <1>4, <1>5, <2>1, <2>2, <2>3 DEF NodeInv, Up
  <1>10. UsersFit'
    BY <1>1, <1>6, KeptUsers DEF NodeInv
  <1>11. (\A t \in Requests : RequestFits(th[t])') /\ InstallerFits(th[Installer])'
    BY <1>2, <1>3 DEF Threads
  <1> QED BY <1>6, <1>7, <1>8, <1>9, <1>10, <1>11 DEF NodeInv

LEMMA NewDeploymentFields ==
    ASSUME NEW protocol, NEW domain, NEW mode, NEW dest, NEW sni,
           dep = NewDeployment(protocol, domain, mode, dest, sni)
    PROVE  /\ DOMAIN dep = DepFields
           /\ dep.protocol = protocol /\ dep.mode = mode /\ dep.dest = dest /\ dep.sni = sni
           /\ dep.cert = 0 /\ dep.status = "provisioning"
           /\ protocol = "vless" => dep.key # 0
  <1>1. PICK key, sid, ss, obfs : /\ key = (IF protocol = "vless" THEN 1 ELSE 0)
                                  /\ sid = (IF protocol = "vless" THEN 2 ELSE 0)
                                  /\ ss = (IF protocol = "shadowsocks" THEN 3 ELSE 0)
                                  /\ obfs = (IF protocol = "hysteria2" THEN 4 ELSE 0)
    OBVIOUS
  <1>2. dep = [protocol |-> protocol, domain |-> domain, mode |-> mode, dest |-> dest, sni |-> sni,
               host |-> "node", port |-> 443, key |-> key, sid |-> sid, ss |-> ss,
               obfs |-> obfs, cert |-> 0, hash |-> NoConfig, status |-> "provisioning"]
    BY <1>1 DEF NewDeployment
  <1>3. protocol = "vless" => key # 0
    BY <1>1
  <1> QED BY <1>2, <1>3 DEF DepFields

RowStarts ==
    /\ DepShape /\ dep.cert = 0 /\ dep.status = "provisioning"
    /\ dep.mode = "auto" => dep.dest = <<>>
    /\ Reality /\ dep.mode = "manual" => dep.dest # <<>> /\ dep.sni # ""

LEMMA NodeStarts ==
    ASSUME NodeInit
    PROVE  NodeInv
  <1>1. PICK row \in NewDeployments : dep = row
    BY DEF NodeInit
  <1>2. RowStarts
    <2>1. CASE row = NewDeployment("vless", "", "auto", <<>>, "")
      <3>1. /\ DOMAIN dep = DepFields
            /\ dep.protocol = "vless" /\ dep.mode = "auto" /\ dep.dest = <<>> /\ dep.sni = ""
            /\ dep.cert = 0 /\ dep.status = "provisioning"
            /\ "vless" = "vless" => dep.key # 0
        BY <1>1, <2>1, NewDeploymentFields
      <3> QED BY <3>1 DEF Protocols, RowStarts, DepShape, Reality
    <2>2. CASE \E p \in ManualTargets : row = NewDeployment("vless", "", "manual", p[1], p[2])
      <3>1. PICK p \in ManualTargets : row = NewDeployment("vless", "", "manual", p[1], p[2])
        BY <2>2
      <3>2. PICK dest, sni : dest = p[1] /\ sni = p[2]
        OBVIOUS
      <3>3. dep = NewDeployment("vless", "", "manual", dest, sni)
        BY <1>1, <3>1, <3>2
      <3>4. dest # <<>> /\ sni # ""
        BY <3>2, TargetsAssumption
      <3>5. /\ DOMAIN dep = DepFields
            /\ dep.protocol = "vless" /\ dep.mode = "manual" /\ dep.dest = dest /\ dep.sni = sni
            /\ dep.cert = 0 /\ dep.status = "provisioning"
            /\ "vless" = "vless" => dep.key # 0
        BY <3>3, NewDeploymentFields
      <3> QED BY <3>5, <3>4 DEF Protocols, RowStarts, DepShape, Reality
    <2>3. CASE row = NewDeployment("shadowsocks", "", "manual", <<>>, "")
      <3>1. /\ DOMAIN dep = DepFields
            /\ dep.protocol = "shadowsocks" /\ dep.mode = "manual" /\ dep.dest = <<>> /\ dep.sni = ""
            /\ dep.cert = 0 /\ dep.status = "provisioning"
            /\ "shadowsocks" = "vless" => dep.key # 0
        BY <1>1, <2>3, NewDeploymentFields
      <3> QED BY <3>1 DEF Protocols, RowStarts, DepShape, Reality
    <2>4. CASE \E p \in TlsDomainProtocols, d \in {"", "domain"} :
                 row = NewDeployment(p, d, "manual", <<>>, "")
      <3>1. PICK p \in TlsDomainProtocols, d \in {"", "domain"} :
                dep = NewDeployment(p, d, "manual", <<>>, "")
        BY <1>1, <2>4
      <3>2. p \in Protocols /\ p # "vless"
        BY DEF Protocols, TlsDomainProtocols
      <3>3. /\ DOMAIN dep = DepFields
            /\ dep.protocol = p /\ dep.mode = "manual" /\ dep.dest = <<>> /\ dep.sni = ""
            /\ dep.cert = 0 /\ dep.status = "provisioning"
            /\ p = "vless" => dep.key # 0
        BY <3>1, NewDeploymentFields
      <3> QED BY <3>3, <3>2 DEF Protocols, RowStarts, DepShape, Reality
    <2> DEFINE manual == {NewDeployment("vless", "", "manual", p[1], p[2]) : p \in ManualTargets}
               tls(d) == {NewDeployment(p, d, "manual", <<>>, "") : p \in TlsDomainProtocols}
               auto == NewDeployment("vless", "", "auto", <<>>, "")
               shadow == NewDeployment("shadowsocks", "", "manual", <<>>, "")
    <2>5. NewDeployments = {auto} \cup manual \cup {shadow} \cup tls("") \cup tls("domain")
      BY Zenon DEF NewDeployments
    <2>6. row \in manual => RowStarts
      BY <2>2
    <2>7. row \in tls("") \/ row \in tls("domain") => RowStarts
      BY <2>4
    <2> HIDE DEF manual, tls, auto, shadow
    <2>8. row = auto \/ row = shadow \/ row \in manual \/ row \in tls("") \/ row \in tls("domain")
      BY <2>5
    <2> QED BY <2>1, <2>3, <2>6, <2>7, <2>8 DEF auto, shadow
  <1>3. /\ DOMAIN th = Threads /\ \A t \in Threads : DOMAIN th[t] = ThreadFields
        /\ \A t \in Requests : th[t].pc = "idle"
        /\ th[Installer].pc = IF Reality THEN "i_resolve" ELSE "i_render"
    <2>1. PICK q : q = [IdleThread EXCEPT !.pc = IF dep.protocol = "vless" THEN "i_resolve"
                                                                            ELSE "i_render"]
      OBVIOUS
    <2>2. th = [t \in Threads |-> IF t # Installer THEN IdleThread ELSE q]
      BY <2>1 DEF NodeInit
    <2>3. /\ DOMAIN q = ThreadFields /\ q.pc = IF Reality THEN "i_resolve" ELSE "i_render"
          /\ DOMAIN IdleThread = ThreadFields /\ IdleThread.pc = "idle"
      BY <2>1 DEF Reality, IdleThread, ThreadFields
    <2> QED BY <2>2, <2>3, ThreadsAssumption DEF Threads
  <1>4. /\ DOMAIN service = ServiceFields /\ service.inbound = NoConfig
        /\ early = {} /\ started = 0
        /\ DOMAIN user = Users /\ \A u \in Users : user[u] = NoRow
    BY DEF NodeInit, NoService, ServiceFields
  <1>5. Shapes
    <2>1. UserShape
      BY <1>4 DEF UserShape
    <2>2. started \in 0..MaxRequests
      BY <1>4, LimitsAssumption
    <2> QED BY <1>2, <1>3, <1>4, <2>1, <2>2 DEF RowStarts, Shapes
  <1>6. Settled /\ Chosen /\ Up
    BY <1>2, <1>3, <1>4 DEF RowStarts, DepShape, Settled, Chosen, Up, Reality, SelectionPending, reality_settings
  <1>7. UsersFit
    BY <1>4 DEF UsersFit
  <1>8. \A t \in Requests : RequestFits(th[t])
    BY <1>3 DEF RequestFits
  <1>9. InstallerFits(th[Installer])
    BY <1>2, <1>3 DEF RowStarts, InstallerFits, InstallerPcs
  <1> QED BY <1>5, <1>6, <1>7, <1>8, <1>9 DEF NodeInv

-----------------------------------------------------------------------------
(* The steps of the chain.                                                 *)

\* The node's variables stay, so its invariant does.
LEMMA NodeStays ==
    ASSUME NodeInv, UNCHANGED nodeVars
    PROVE  NodeInv' /\ NodeKept
  <1>1. /\ dep' = dep /\ user' = user /\ service' = service /\ open' = open /\ th' = th
        /\ ids' = ids /\ started' = started /\ early' = early
    BY DEF nodeVars
  <1>2. NodeKept
    BY <1>1, HashKeeps DEF HashOnly, NodeInv, Shapes
  <1>3. Shapes' /\ Settled' /\ Chosen'
    BY <1>1 DEF NodeInv, Shapes, DepShape, UserShape, Settled, Chosen, Reality, SelectionPending,
                reality_settings
  <1>4. InPlace' = InPlace /\ PinNeeded' = PinNeeded /\ CertMade' = CertMade
    BY <1>1 DEF InPlace, CertMade, NodePorts, PinNeeded
  <1>5. Up'
    <2>1. PICK s : s = service.inbound
      OBVIOUS
    <2>2. s # NoConfig => Fits(s)'
      BY <1>2, <2>1, KeptConfig DEF NodeInv, Up
    <2> QED BY <1>1, <1>4, <2>1, <2>2 DEF NodeInv, Up
  <1>6. UsersFit'
    BY <1>1, <1>2, KeptUsers DEF NodeInv
  <1>7. \A t \in Requests : RequestFits(th[t])'
    <2> SUFFICES ASSUME NEW r \in Requests PROVE RequestFits(th[r])'
      OBVIOUS
    <2>1. PICK p : p = th[r]
      OBVIOUS
    <2>2. RequestFits(p)'
      BY <1>2, <2>1, KeptRequest DEF NodeInv
    <2> QED BY <1>1, <2>1, <2>2
  <1>8. InstallerFits(th[Installer])'
    <2>1. PICK p : p = th[Installer]
      OBVIOUS
    <2>2. InstallerFits(p)'
      BY <1>1, <1>2, <1>4, <2>1, KeptConfig DEF NodeInv, InstallerFits, Reality
    <2> QED BY <1>1, <2>1, <2>2
  <1> QED BY <1>2, <1>3, <1>5, <1>6, <1>7, <1>8 DEF NodeInv

\* A row that keeps its fields is the same hop, over a node that is ready.
LEMMA SameHop ==
    ASSUME NodeKept, dep.status = "ready", NEW h, \A f \in HopFields : hop'[h][f] = hop[h][f]
    PROVE  FullHop(h)' = FullHop(h) /\ Prepared(h)' = Prepared(h)
  <1>1. /\ dep'.host = dep.host /\ dep'.dest = dep.dest /\ dep'.sni = dep.sni
    BY DEF NodeKept
  <1>2. /\ hop'[h].protocol = hop[h].protocol /\ hop'[h].port = hop[h].port
        /\ hop'[h].uuid = hop[h].uuid /\ hop'[h].key = hop[h].key /\ hop'[h].sid = hop[h].sid
        /\ hop'[h].ss = hop[h].ss /\ hop'[h].hy2 = hop[h].hy2 /\ hop'[h].service = hop[h].service
    BY DEF HopFields
  <1> QED BY <1>1, <1>2 DEF FullHop, HostOf, Prepared

\* A step that installs nothing, of the node or the chain, and makes no secret
\* a second time.
LEMMA NoInstall ==
    ASSUME ChainInv, NodeKept, deploys > 0 => deploys' > 0,
           \A h \in Hops : Prepared(h) => \A f \in HopFields : hop'[h][f] = hop[h][f],
           \A h \in Hops : Running(h)' => hopService'[h] = hopService[h],
           ChainShapes', SecretsKept', PortsKept', chain'.link = chain.link \/ LinkKept'
    PROVE  ChainInv'
  <1>1. ASSUME deploys > 0
        PROVE  \A h \in Hops : Prepared(h) => FullHop(h)' = FullHop(h) /\ Prepared(h)'
    BY <1>1, SameHop DEF ChainInv, ChainShapes
  <1>3. HopsFit'
    <2> SUFFICES ASSUME NEW h \in Hops, Running(h)'
                 PROVE  /\ Prepared(Entry)' /\ Prepared(Exit)' /\ deploys' > 0
                        /\ hopService'[h].inbound = chain_inbound(FullHop(h)')
                        /\ h = Entry => hopService'[h].outbound = chain_outbound(FullHop(Exit)')
                        /\ hop'[h].protocol = "hysteria2" => hopService'[h].cert # 0
      BY DEF HopsFit
    <2>1. Running(h)
      BY DEF Running
    <2>2. /\ Prepared(Entry) /\ Prepared(Exit) /\ deploys > 0
          /\ hopService[h].inbound = chain_inbound(FullHop(h))
          /\ h = Entry => hopService[h].outbound = chain_outbound(FullHop(Exit))
          /\ hop[h].protocol = "hysteria2" => hopService[h].cert # 0
      BY <2>1 DEF ChainInv, HopsFit
    <2>3. FullHop(h)' = FullHop(h) /\ FullHop(Exit)' = FullHop(Exit)
      BY <1>1, <2>2 DEF Hops
    <2>4. Prepared(Entry)' /\ Prepared(Exit)'
      BY <1>1, <2>2 DEF Hops
    <2>5. hop'[h].protocol = hop[h].protocol
      BY <2>2 DEF Hops, HopFields
    <2> QED BY <2>2, <2>3, <2>4, <2>5
  <1>4. LinkKept'
    <2>1. Entry \in Hops
      BY DEF Hops
    <2> QED BY <1>1, <2>1 DEF ChainInv, LinkKept
  <1> QED BY <1>3, <1>4 DEF ChainInv

\* Ports stay open, and a step that is no end of an installation asks for none.
LEMMA PortsStay ==
    ASSUME ChainInv,
           \A h \in Hops : /\ hop'[h].port = hop[h].port /\ hop'[h].protocol = hop[h].protocol
                           /\ hopOpen[h] \subseteq hopOpen'[h],
           chain'.link = chain.link \/ run[1] = "finish",
           run' = run \/ (run'[1] # "finish" /\ run' \notin {<<"install", Entry>>, <<"open", Entry>>})
    PROVE  PortsKept'
  <1>1. \A h \in Hops : Opened(h) => Opened(h)'
    BY DEF Opened, HopPorts, chain_install_options, firewall_rules
  <1>2. Entry \in Hops /\ Exit \in Hops
    BY DEF Hops
  <1> QED BY <1>1, <1>2 DEF ChainInv, PortsKept

LEMMA ChainUnderNode ==
    ASSUME ChainInv, NodeKept, UNCHANGED chainVars
    PROVE  ChainInv'
  <1>1. UNCHANGED <<hop, chain, run, hopService, hopOpen, deploys, crashes>>
    BY DEF chainVars
  <1>2. ChainShapes' /\ SecretsKept'
    BY <1>1 DEF ChainInv, ChainShapes, SecretsKept, Prepared, NodeKept
  <1>3. PortsKept'
    BY <1>1, PortsStay
  <1> QED BY <1>1, <1>2, <1>3, NoInstall

LEMMA ChainCrashStep ==
    ASSUME ChainInv, NodeKept, crash
    PROVE  ChainInv'
  <1>1. /\ crashes < MaxCrashes /\ crashes' = crashes + 1
        /\ chain' = [chain EXCEPT !.status = IF @ = "deploying" THEN "failed" ELSE @]
        /\ run' = Idling /\ UNCHANGED <<hop, hopService, hopOpen, deploys>>
    BY DEF crash
  <1>2. /\ DOMAIN chain' = {"status", "link"} /\ chain'.link = chain.link
        /\ chain'.status \in {"planned", "ready", "failed"}
    BY <1>1 DEF ChainInv, ChainShapes
  <1>3. run' \in RunSteps /\ run'[1] = "idle"
    BY <1>1 DEF RunSteps, Idling
  <1>4. crashes' \in 0..MaxCrashes
    BY <1>1, HopsAssumption DEF ChainInv, ChainShapes
  <1>5. ChainShapes'
    BY <1>1, <1>2, <1>3, <1>4 DEF ChainInv, ChainShapes, NodeKept
  <1>6. SecretsKept'
    BY <1>3 DEF SecretsKept
  <1>7. PortsKept'
    BY <1>1, <1>2, <1>3, PortsStay DEF Entry
  <1> QED BY <1>1, <1>2, <1>5, <1>6, <1>7, NoInstall

LEMMA StartStep ==
    ASSUME ChainInv, NodeKept, start_proxy_chain_deployment
    PROVE  ChainInv'
  <1>1. /\ dep.status = "ready" /\ run = Idling /\ deploys < MaxDeploys /\ deploys' = deploys + 1
        /\ chain' = [chain EXCEPT !.status = "deploying"] /\ run' = <<"prepare", Entry>>
        /\ UNCHANGED <<hop, hopService, hopOpen, crashes>>
    BY DEF start_proxy_chain_deployment
  <1>2. /\ DOMAIN chain' = {"status", "link"} /\ chain'.link = chain.link
        /\ chain'.status = "deploying"
    BY <1>1 DEF ChainInv, ChainShapes
  <1>3. run' \in RunSteps /\ run'[1] = "prepare" /\ run'[2] = Entry
    BY <1>1 DEF RunSteps, Hops
  <1>4. deploys' \in 0..MaxDeploys /\ deploys' > 0
    BY <1>1, HopsAssumption DEF ChainInv, ChainShapes
  <1>5. ChainShapes'
    BY <1>1, <1>2, <1>3, <1>4 DEF ChainInv, ChainShapes, NodeKept
  <1>6. SecretsKept'
    BY <1>3 DEF SecretsKept, Entry, Exit
  <1>7. PortsKept'
    BY <1>1, <1>2, <1>3, PortsStay
  <1> QED BY <1>1, <1>2, <1>4, <1>5, <1>6, <1>7, NoInstall

LEMMA FinishStep ==
    ASSUME ChainInv, NodeKept, finish_proxy_chain_deployment
    PROVE  ChainInv'
  <1>1. /\ run[1] = "finish" /\ run' = Idling
        /\ chain' = [status |-> "ready", link |-> chain_share_link(FullHop(Entry))]
        /\ UNCHANGED <<hop, hopService, hopOpen, deploys, crashes>>
    BY DEF finish_proxy_chain_deployment
  <1>2. /\ DOMAIN chain' = {"status", "link"} /\ chain'.status = "ready"
        /\ chain'.link = chain_share_link(FullHop(Entry))
    BY <1>1
  <1>3. run' \in RunSteps /\ run'[1] = "idle" /\ run # Idling
    BY <1>1 DEF RunSteps, Idling
  <1>4. deploys > 0 /\ dep.status = "ready" /\ Prepared(Entry)
    BY <1>1, <1>3 DEF ChainInv, ChainShapes, SecretsKept
  <1>5. ChainShapes'
    BY <1>1, <1>2, <1>3, <1>4 DEF ChainInv, ChainShapes, NodeKept
  <1>6. SecretsKept'
    BY <1>3 DEF SecretsKept
  <1>7. LinkKept'
    <2>1. FullHop(Entry)' = FullHop(Entry) /\ Prepared(Entry)'
      BY <1>1, <1>4, SameHop
    <2> QED BY <1>1, <1>2, <1>4, <2>1 DEF LinkKept
  <1>8. PortsKept'
    BY <1>1, <1>3, PortsStay
  <1> QED BY <1>1, <1>5, <1>6, <1>7, <1>8, NoInstall

LEMMA FailStep ==
    ASSUME ChainInv, NodeKept, NEW h \in Hops, chain_failed(h)
    PROVE  ChainInv'
  <1>1. /\ run \in {<<"install", h>>, <<"open", h>>} /\ run' = <<"rollback", Entry>>
        /\ chain' = [chain EXCEPT !.status = "failed"]
        /\ hopOpen' = hopOpen \/ \E some : hopOpen' = [hopOpen EXCEPT ![h] = @ \cup some]
        /\ UNCHANGED <<hop, hopService, deploys, crashes>>
    BY DEF chain_failed
  <1>2. /\ DOMAIN chain' = {"status", "link"} /\ chain'.link = chain.link
        /\ chain'.status = "failed"
    BY <1>1 DEF ChainInv, ChainShapes
  <1>3. run' \in RunSteps /\ run'[1] = "rollback" /\ run # Idling
    BY <1>1 DEF RunSteps, Hops, Idling
  <1>4. deploys > 0 /\ dep.status = "ready"
    BY <1>3 DEF ChainInv, ChainShapes
  <1>5. DOMAIN hopOpen' = Hops /\ \A g \in Hops : hopOpen[g] \subseteq hopOpen'[g]
    BY <1>1 DEF ChainInv, ChainShapes
  <1>6. ChainShapes'
    BY <1>1, <1>2, <1>3, <1>4, <1>5 DEF ChainInv, ChainShapes, NodeKept
  <1>7. SecretsKept'
    BY <1>1 DEF SecretsKept
  <1>8. PortsKept'
    BY <1>1, <1>2, <1>3, <1>5, PortsStay
  <1> QED BY <1>1, <1>2, <1>6, <1>7, <1>8, NoInstall

LEMMA RollbackStep ==
    ASSUME ChainInv, NodeKept, NEW h \in Hops, rollback_chain_service(h)
    PROVE  ChainInv'
  <1>1. /\ run = <<"rollback", h>>
        /\ hopService' = hopService \/ hopService' = [hopService EXCEPT ![h] = NoService]
        /\ run' = IF h = Exit THEN Idling ELSE <<"rollback", h + 1>>
        /\ UNCHANGED <<hop, chain, hopOpen, deploys, crashes>>
    BY DEF rollback_chain_service
  <1>2. /\ DOMAIN hopService' = Hops
        /\ \A g \in Hops : /\ DOMAIN hopService'[g] = ServiceFields
                           /\ hopService'[g] = hopService[g] \/ hopService'[g] = NoService
    BY <1>1 DEF ChainInv, ChainShapes, NoService, ServiceFields
  <1>3. \A g \in Hops : Running(g)' => hopService'[g] = hopService[g]
    BY <1>2 DEF Running, NoService
  <1>4. run' \in RunSteps /\ run'[1] \in {"idle", "rollback"} /\ run # Idling /\ run[1] = "rollback"
    BY <1>1 DEF RunSteps, Hops, Idling, Entry, Exit
  <1>5. chain.status # "deploying" /\ deploys > 0 /\ dep.status = "ready"
    BY <1>4 DEF ChainInv, ChainShapes
  <1>6. ChainShapes'
    BY <1>1, <1>2, <1>4, <1>5 DEF ChainInv, ChainShapes, NodeKept
  <1>7. SecretsKept'
    <2>1. run' # <<"prepare", Exit>>
      BY <1>4
    <2> QED BY <1>4, <2>1 DEF SecretsKept
  <1>8. PortsKept'
    BY <1>1, <1>4, PortsStay
  <1> QED BY <1>1, <1>3, <1>6, <1>7, <1>8, NoInstall

LEMMA PrepareStep ==
    ASSUME ChainInv, NodeKept, NEW h \in Hops, prepare_proxy_chain_node(h)
    PROVE  ChainInv'
  <1>1. PICK fresh : fresh = 10 * deploys + h
    OBVIOUS
  <1>2. PICK row : row = hop[h]
    OBVIOUS
  <1>3. PICK made :
          made = CASE row.protocol = "vless" ->
                        [row EXCEPT !.uuid = Kept(row.uuid, fresh), !.sid = Kept(row.sid, fresh),
                                    !.key = Kept(row.key, fresh)]
                   [] row.protocol = "shadowsocks" -> [row EXCEPT !.ss = Kept(row.ss, fresh)]
                   [] row.protocol = "hysteria2"   -> [row EXCEPT !.hy2 = Kept(row.hy2, fresh)]
                   [] row.protocol = "vmess"       -> [row EXCEPT !.uuid = Kept(row.uuid, fresh)]
    OBVIOUS
  <1>4. PICK new : new = [made EXCEPT !.service = TRUE]
    OBVIOUS
  <1>5. /\ run = <<"prepare", h>> /\ hop' = [hop EXCEPT ![h] = new]
        /\ run' = IF h = Exit THEN <<"install", Exit>> ELSE <<"prepare", h + 1>>
        /\ UNCHANGED <<chain, hopService, hopOpen, deploys, crashes>>
    BY <1>1, <1>2, <1>3, <1>4 DEF prepare_proxy_chain_node
  <1>6. /\ DOMAIN row = HopFields /\ row.protocol \in ChainProtocols
        /\ hop'[h] = new /\ \A g \in Hops \ {h} : hop'[g] = hop[g]
        /\ DOMAIN hop' = Hops
    BY <1>2, <1>5 DEF ChainInv, ChainShapes
  <1>7. deploys > 0 /\ fresh # 0
    <2>1. run # Idling
      BY <1>5 DEF Idling, Hops, Entry, Exit
    <2>2. deploys > 0 /\ deploys \in Nat /\ h \in Nat
      BY <2>1, HopsAssumption DEF ChainInv, ChainShapes, Hops, Entry, Exit
    <2> QED BY <1>1, <2>2
  <1>8. \A value : Kept(value, fresh) # 0 /\ (value # 0 => Kept(value, fresh) = value)
    BY <1>7 DEF Kept
  <1>9. /\ DOMAIN new = HopFields /\ new.protocol = row.protocol /\ new.service = TRUE /\ new.port = row.port
        /\ new.protocol = "vless" => new.uuid # 0 /\ new.sid # 0 /\ new.key # 0
        /\ new.protocol = "shadowsocks" => new.ss # 0
        /\ new.protocol = "hysteria2" => new.hy2 # 0
        /\ new.protocol = "vmess" => new.uuid # 0
        /\ Prepared(h) => \A f \in HopFields : new[f] = row[f]
    <2>1. CASE row.protocol = "vless"
      <3>1. made = [row EXCEPT !.uuid = Kept(row.uuid, fresh), !.sid = Kept(row.sid, fresh),
                               !.key = Kept(row.key, fresh)]
        BY <1>3, <2>1
      <3>2. /\ DOMAIN new = HopFields /\ new.service = TRUE /\ new.protocol = row.protocol
            /\ new.port = row.port
            /\ new.uuid = Kept(row.uuid, fresh) /\ new.sid = Kept(row.sid, fresh) /\ new.key = Kept(row.key, fresh)
            /\ \A f \in HopFields \ {"uuid", "sid", "key", "service"} : new[f] = row[f]
        BY <1>4, <1>6, <3>1 DEF HopFields
      <3>3. Prepared(h) => row.service = TRUE /\ row.uuid # 0 /\ row.sid # 0 /\ row.key # 0
        BY <1>2, <2>1 DEF Prepared
      <3>4. Prepared(h) => \A f \in HopFields : new[f] = row[f]
        BY <1>8, <3>2, <3>3
      <3> QED BY <1>8, <2>1, <3>2, <3>4
    <2>2. CASE row.protocol = "shadowsocks"
      <3>1. made = [row EXCEPT !.ss = Kept(row.ss, fresh)]
        BY <1>3, <2>2
      <3>2. /\ DOMAIN new = HopFields /\ new.service = TRUE /\ new.protocol = row.protocol
            /\ new.port = row.port
            /\ new.ss = Kept(row.ss, fresh)
            /\ \A f \in HopFields \ {"ss", "service"} : new[f] = row[f]
        BY <1>4, <1>6, <3>1 DEF HopFields
      <3>3. Prepared(h) => row.service = TRUE /\ row.ss # 0
        BY <1>2, <2>2 DEF Prepared
      <3>4. Prepared(h) => \A f \in HopFields : new[f] = row[f]
        BY <1>8, <3>2, <3>3
      <3> QED BY <1>8, <2>2, <3>2, <3>4
    <2>3. CASE row.protocol = "hysteria2"
      <3>1. made = [row EXCEPT !.hy2 = Kept(row.hy2, fresh)]
        BY <1>3, <2>3
      <3>2. /\ DOMAIN new = HopFields /\ new.service = TRUE /\ new.protocol = row.protocol
            /\ new.port = row.port
            /\ new.hy2 = Kept(row.hy2, fresh)
            /\ \A f \in HopFields \ {"hy2", "service"} : new[f] = row[f]
        BY <1>4, <1>6, <3>1 DEF HopFields
      <3>3. Prepared(h) => row.service = TRUE /\ row.hy2 # 0
        BY <1>2, <2>3 DEF Prepared
      <3>4. Prepared(h) => \A f \in HopFields : new[f] = row[f]
        BY <1>8, <3>2, <3>3
      <3> QED BY <1>8, <2>3, <3>2, <3>4
    <2>4. CASE row.protocol = "vmess"
      <3>1. made = [row EXCEPT !.uuid = Kept(row.uuid, fresh)]
        BY <1>3, <2>4
      <3>2. /\ DOMAIN new = HopFields /\ new.service = TRUE /\ new.protocol = row.protocol
            /\ new.port = row.port
            /\ new.uuid = Kept(row.uuid, fresh)
            /\ \A f \in HopFields \ {"uuid", "service"} : new[f] = row[f]
        BY <1>4, <1>6, <3>1 DEF HopFields
      <3>3. Prepared(h) => row.service = TRUE /\ row.uuid # 0
        BY <1>2, <2>4 DEF Prepared
      <3>4. Prepared(h) => \A f \in HopFields : new[f] = row[f]
        BY <1>8, <3>2, <3>3
      <3> QED BY <1>8, <2>4, <3>2, <3>4
    <2> QED BY <1>6, <2>1, <2>2, <2>3, <2>4 DEF ChainProtocols
  <1>10. Prepared(h)'
    BY <1>6, <1>9 DEF Prepared
  <1>11. \A g \in Hops : Prepared(g) => \A f \in HopFields : hop'[g][f] = hop[g][f]
    BY <1>2, <1>6, <1>9
  <1>12. ChainShapes'
    <2>1. /\ run' \in RunSteps /\ run'[1] \in {"prepare", "install"} /\ chain.status = "deploying"
      BY <1>5 DEF ChainInv, ChainShapes, RunSteps, Hops, Entry, Exit
    <2>2. /\ hop'[Entry].protocol = "vless"
          /\ \A g \in Hops : DOMAIN hop'[g] = HopFields /\ hop'[g].protocol \in ChainProtocols
      BY <1>2, <1>6, <1>9 DEF ChainInv, ChainShapes, Hops
    <2> QED BY <1>5, <1>6, <1>7, <2>1, <2>2 DEF ChainInv, ChainShapes, NodeKept
  <1>13. SecretsKept'
    <2>1. CASE h = Entry
      <3>1. run'[1] = "prepare" /\ Prepared(Entry)'
        BY <1>5, <1>10, <2>1 DEF Entry, Exit
      <3> QED BY <3>1 DEF SecretsKept
    <2>2. CASE h = Exit
      <3>1. Prepared(Entry) /\ hop'[Entry] = hop[Entry]
        BY <1>5, <1>6, <2>2 DEF ChainInv, SecretsKept, Hops, Entry, Exit
      <3>2. Prepared(Entry)' /\ Prepared(Exit)'
        BY <1>10, <2>2, <3>1 DEF Prepared
      <3> QED BY <3>2 DEF SecretsKept
    <2> QED BY <2>1, <2>2 DEF Hops
  <1>14. PortsKept'
    <2>1. \A g \in Hops : hop'[g].port = hop[g].port /\ hop'[g].protocol = hop[g].protocol
      BY <1>2, <1>6, <1>9
    <2>2. run'[1] # "finish" /\ run' \notin {<<"install", Entry>>, <<"open", Entry>>}
      BY <1>5 DEF Entry, Exit
    <2> QED BY <1>5, <2>1, <2>2, PortsStay
  <1> QED BY <1>5, <1>11, <1>12, <1>13, <1>14, NoInstall

LEMMA InstallStep ==
    ASSUME ChainInv, NodeKept, NEW h \in Hops, install_chain_service(h)
    PROVE  ChainInv'
  <1>1. PICK options : options = chain_install_options(hop[h])
    OBVIOUS
  <1>2. PICK outbound : outbound = IF h = Exit THEN Direct ELSE chain_outbound(FullHop(h + 1))
    OBVIOUS
  <1>3. PICK s : s = Installed(hopService[h], chain_inbound(FullHop(h)), outbound, options,
                               10 * deploys + h)
    OBVIOUS
  <1>4. /\ run = <<"install", h>> /\ hopService' = [hopService EXCEPT ![h] = s]
        /\ run' = <<"open", h>> /\ UNCHANGED <<hop, chain, hopOpen, deploys, crashes>>
    BY <1>1, <1>2, <1>3 DEF install_chain_service
  <1>5. /\ Prepared(Entry) /\ Prepared(Exit) /\ deploys > 0 /\ deploys \in Nat
        /\ dep.status = "ready" /\ chain.status = "deploying"
    <2>1. run # Idling /\ run[1] = "install"
      BY <1>4 DEF Idling, Hops, Entry, Exit
    <2> QED BY <2>1, HopsAssumption DEF ChainInv, ChainShapes, SecretsKept
  <1>6. /\ DOMAIN s = ServiceFields /\ s.inbound = chain_inbound(FullHop(h)) /\ s.outbound = outbound
        /\ options.cert => s.cert # 0
    <2>1. 10 * deploys + h # 0
      BY <1>5 DEF Hops, Entry, Exit
    <2>2. PICK inbound, fresh : inbound = chain_inbound(FullHop(h)) /\ fresh = 10 * deploys + h
      OBVIOUS
    <2>3. s = [inbound |-> inbound, outbound |-> outbound,
               cert |-> IF options.cert /\ hopService[h].cert = 0 THEN fresh ELSE hopService[h].cert]
      BY <1>3, <2>2 DEF Installed
    <2> QED BY <2>1, <2>2, <2>3 DEF ServiceFields
  <1>7. /\ DOMAIN hopService' = Hops /\ hopService'[h] = s
        /\ \A g \in Hops \ {h} : hopService'[g] = hopService[g]
    BY <1>4 DEF ChainInv, ChainShapes
  <1>8. /\ Prepared(Entry)' /\ Prepared(Exit)'
        /\ \A g \in Hops : FullHop(g)' = FullHop(g)
    BY <1>4, <1>5, SameHop DEF Prepared
  <1>9. ChainShapes'
    <2>1. run' \in RunSteps /\ run'[1] = "open"
      BY <1>4 DEF RunSteps, Hops
    <2>2. \A g \in Hops : DOMAIN hopService'[g] = ServiceFields
      BY <1>6, <1>7 DEF ChainInv, ChainShapes
    <2> QED BY <1>4, <1>5, <1>7, <2>1, <2>2 DEF ChainInv, ChainShapes, NodeKept
  <1>10. SecretsKept'
    BY <1>8 DEF SecretsKept
  <1>11. HopsFit'
    <2> SUFFICES ASSUME NEW g \in Hops, Running(g)'
                 PROVE  /\ Prepared(Entry)' /\ Prepared(Exit)' /\ deploys' > 0
                        /\ hopService'[g].inbound = chain_inbound(FullHop(g)')
                        /\ g = Entry => hopService'[g].outbound = chain_outbound(FullHop(Exit)')
                        /\ hop'[g].protocol = "hysteria2" => hopService'[g].cert # 0
      BY DEF HopsFit
    <2>1. CASE g = h
      <3>1. h = Entry => s.outbound = chain_outbound(FullHop(Exit))
        BY <1>2, <1>6 DEF Entry, Exit
      <3>2. hop[h].protocol = "hysteria2" => s.cert # 0
        BY <1>1, <1>6 DEF chain_install_options
      <3>3. FullHop(Exit)' = FullHop(Exit) /\ FullHop(h)' = FullHop(h)
        BY <1>8 DEF Hops
      <3> QED BY <1>1, <1>4, <1>5, <1>6, <1>7, <1>8, <2>1, <3>1, <3>2, <3>3
    <2>2. CASE g # h
      <3>1. Running(g) /\ hopService'[g] = hopService[g]
        BY <1>7, <2>2 DEF Running
      <3>2. FullHop(Exit)' = FullHop(Exit) /\ FullHop(g)' = FullHop(g)
        BY <1>8 DEF Hops
      <3> QED BY <1>4, <1>5, <1>8, <3>1, <3>2 DEF ChainInv, HopsFit
    <2> QED BY <2>1, <2>2
  <1>12. LinkKept'
    <2>1. FullHop(Entry)' = FullHop(Entry)
      BY <1>8 DEF Hops
    <2> QED BY <1>4, <1>8, <2>1 DEF ChainInv, LinkKept
  <1>13. PortsKept'
    <2>1. \A g \in Hops : Opened(g)' = Opened(g)
      BY <1>4 DEF Opened, HopPorts
    <2>2. run' = <<"open", Entry>> => run = <<"install", Entry>>
      BY <1>4
    <2> QED BY <1>4, <2>1, <2>2 DEF ChainInv, PortsKept, Hops, Entry, Exit
  <1> QED BY <1>9, <1>10, <1>11, <1>12, <1>13 DEF ChainInv

LEMMA OpenStep ==
    ASSUME ChainInv, NodeKept, NEW h \in Hops, open_chain_ports(h)
    PROVE  ChainInv'
  <1>1. /\ run = <<"open", h>> /\ hopOpen' = [hopOpen EXCEPT ![h] = @ \cup HopPorts(h)]
        /\ run' = IF h = Entry THEN <<"finish", Entry>> ELSE <<"install", h - 1>>
        /\ UNCHANGED <<hop, chain, hopService, deploys, crashes>>
    BY DEF open_chain_ports
  <1>2. /\ Prepared(Entry) /\ Prepared(Exit) /\ deploys > 0
        /\ dep.status = "ready" /\ chain.status = "deploying"
    <2>1. run # Idling /\ run[1] = "open"
      BY <1>1 DEF Idling, Hops, Entry, Exit
    <2> QED BY <2>1 DEF ChainInv, ChainShapes, SecretsKept
  <1>3. /\ DOMAIN hopOpen' = Hops /\ hopOpen'[h] = hopOpen[h] \cup HopPorts(h)
        /\ \A g \in Hops \ {h} : hopOpen'[g] = hopOpen[g]
    BY <1>1 DEF ChainInv, ChainShapes
  <1>4. ChainShapes'
    <2>1. run' \in RunSteps /\ run'[1] \in {"install", "finish"}
      BY <1>1 DEF RunSteps, Hops, Entry, Exit
    <2> QED BY <1>1, <1>2, <1>3, <2>1 DEF ChainInv, ChainShapes, NodeKept
  <1>5. SecretsKept'
    <2>1. Prepared(Entry)' /\ Prepared(Exit)' /\ run'[1] # "prepare"
      BY <1>1, <1>2 DEF Prepared, Hops
    <2> QED BY <2>1 DEF SecretsKept
  <1>6. PortsKept'
    <2>1. Opened(h)' /\ \A g \in Hops : Opened(g) => Opened(g)'
      BY <1>1, <1>3 DEF Opened, HopPorts
    <2>2. CASE h = Entry
      <3>1. Opened(Exit)
        BY <1>1, <2>2 DEF ChainInv, PortsKept
      <3> QED BY <2>1, <2>2, <3>1 DEF PortsKept, Hops
    <2>3. CASE h = Exit
      <3>1. run' = <<"install", Entry>> /\ chain' = chain
        BY <1>1, <2>3 DEF Entry, Exit
      <3> QED BY <2>1, <2>3, <3>1 DEF ChainInv, PortsKept, Hops
    <2> QED BY <2>2, <2>3 DEF Hops
  <1> QED BY <1>1, <1>4, <1>5, <1>6, NoInstall

LEMMA ChainStep ==
    ASSUME Inv, ChainNext, UNCHANGED nodeVars
    PROVE  Inv'
  <1>1. NodeInv' /\ NodeKept
    BY NodeStays DEF Inv
  <1>2. ChainInv'
    BY <1>1, StartStep, PrepareStep, InstallStep, OpenStep, RollbackStep, FinishStep, FailStep
       DEF Inv, ChainNext
  <1> QED BY <1>1, <1>2 DEF Inv

LEMMA ChainStarts ==
    ASSUME ChainInit
    PROVE  ChainInv
  <1>1. /\ chain.status = "planned" /\ chain.link = NoLink /\ DOMAIN chain = {"status", "link"}
        /\ run = Idling /\ deploys = 0 /\ crashes = 0
        /\ DOMAIN hopService = Hops /\ DOMAIN hopOpen = Hops
        /\ \A h \in Hops : hopService[h] = NoService
    BY DEF ChainInit
  <1>2. /\ DOMAIN hop = Hops /\ hop[Entry].protocol = "vless"
        /\ \A h \in Hops : DOMAIN hop[h] = HopFields /\ hop[h].protocol \in ChainProtocols
    <2>1. PICK p \in HopProtocols : hop = [h \in Hops |-> NewHop(IF h = Entry THEN "vless" ELSE p)]
      BY DEF ChainInit
    <2>2. \A q : DOMAIN NewHop(q) = HopFields /\ NewHop(q).protocol = q
      BY DEF NewHop, HopFields
    <2>3. p \in ChainProtocols /\ "vless" \in ChainProtocols
      BY HopsAssumption DEF ChainProtocols
    <2> QED BY <2>1, <2>2, <2>3 DEF Hops
  <1>3. \A h \in Hops : DOMAIN hopService[h] = ServiceFields /\ hopService[h].inbound = NoConfig
    BY <1>1 DEF NoService, ServiceFields
  <1>4. run \in RunSteps /\ run[1] = "idle"
    BY <1>1 DEF RunSteps, Idling
  <1>5. ChainShapes
    BY <1>1, <1>2, <1>3, <1>4, HopsAssumption DEF ChainShapes
  <1>6. SecretsKept
    BY <1>4 DEF SecretsKept
  <1>7. HopsFit /\ LinkKept /\ PortsKept
    BY <1>1, <1>3, <1>4 DEF HopsFit, LinkKept, PortsKept, Running, Idling
  <1> QED BY <1>5, <1>6, <1>7 DEF ChainInv

-----------------------------------------------------------------------------
(* The invariant of both.                                                  *)

\* The inductive invariant: what each row, thread, service and link says of the
\* others (services/deployments.py, services/chains.py).
THEOREM InvHolds == Spec => []Inv
  <1>1. Init => Inv
    BY NodeStarts, ChainStarts DEF Init, Inv
  <1>2. Inv /\ [Next]_vars => Inv'
    <2> SUFFICES ASSUME Inv, [Next]_vars PROVE Inv'
      OBVIOUS
    <2>1. CASE NodeNext /\ UNCHANGED chainVars
      BY <2>1, NodeStep, ChainUnderNode DEF Inv
    <2>2. CASE ChainNext /\ UNCHANGED nodeVars
      BY <2>2, ChainStep
    <2>3. CASE crash
      BY <2>3, NodeCrashStep, ChainCrashStep DEF Inv
    <2>4. CASE UNCHANGED vars
      <3>1. UNCHANGED nodeVars /\ UNCHANGED chainVars
        BY <2>4 DEF vars
      <3> QED BY <3>1, NodeStays, ChainUnderNode DEF Inv
    <2> QED BY <2>1, <2>2, <2>3, <2>4 DEF Next
  <1> QED BY <1>1, <1>2, PTL DEF Spec

\* A service that fits the row lets in a link that fits it.
LEMMA LinkGetsIn ==
    ASSUME NEW s, Fits(s.inbound), s.inbound # NoConfig, NEW u, NEW row, LinkFits(u, row), Named(row),
           row.link # NoLink, Cred(u, row) \in s.inbound.users,
           dep.protocol \in Protocols, Reality => dep.key # 0,
           PinNeeded => s.cert # 0 /\ dep.cert = s.cert
    PROVE  Accepts(s, NodeNames, mihomo_proxy_from_link(row.link))
  <1>1. PICK in : in = s.inbound
    OBVIOUS
  <1>2. PICK l : l = row.link
    OBVIOUS
  <1>3. PICK p : p = mihomo_proxy_from_link(l)
    OBVIOUS
  <1>4. /\ in # NoConfig /\ in.type = dep.protocol /\ in.port = dep.port
        /\ in.psk = IF dep.protocol = "shadowsocks" THEN dep.ss ELSE 0
        /\ in.obfs = IF dep.protocol = "hysteria2" THEN dep.obfs ELSE 0
        /\ in.tls.mode = Mode(dep)
        /\ in.tls.mode = "acme" => in.tls.name = dep.domain
        /\ Reality => in.tls.name = dep.sni /\ in.tls.key = dep.key /\ in.tls.sid = dep.sid
    BY <1>1 DEF Fits
  <1>5. /\ l.host \in NodeNames /\ l.port = dep.port /\ l.cred \in in.users
        /\ l.psk = IF dep.protocol = "shadowsocks" THEN dep.ss ELSE 0
        /\ l.obfs = IF dep.protocol = "hysteria2" THEN dep.obfs ELSE 0
    BY <1>1, <1>2 DEF LinkFits
  <1>6. CASE Reality
    <2>1. l.scheme = "vless" /\ l.tls /\ l.pbk = dep.key /\ l.sid = dep.sid /\ l.sni = dep.sni
      BY <1>2, <1>6 DEF LinkFits, Named, Reality
    <2>2. p = [Parsed(l, "vless") EXCEPT !.tls = TRUE, !.pbk = l.pbk, !.sid = l.sid, !.sni = l.sni]
      BY <1>3, <1>6, <2>1 DEF mihomo_proxy_from_link, mihomo_proxy_from_vless
    <2>3. /\ p.type = "vless" /\ p.server = l.host /\ p.port = l.port /\ p.cred = l.cred
          /\ p.psk = 0 /\ p.obfs = 0 /\ p.tls = TRUE /\ p.pbk = l.pbk /\ p.sid = l.sid /\ p.sni = l.sni
      BY <2>2 DEF Parsed, BareProxy
    <2>4. in.tls.mode = "reality"
      BY <1>4, <1>6 DEF Mode, Reality
    <2>5. in.type = "vless" /\ in.psk = 0 /\ in.obfs = 0
      BY <1>4, <1>6 DEF Reality
    <2> QED BY <1>1, <1>2, <1>3, <1>4, <1>5, <1>6, <2>1, <2>3, <2>4, <2>5 DEF Accepts
  <1>7. CASE dep.protocol = "shadowsocks"
    <2>1. l.scheme = "ss"
      BY <1>2, <1>7 DEF LinkFits
    <2>2. p = [Parsed(l, "shadowsocks") EXCEPT !.psk = l.psk]
      BY <1>3, <2>1 DEF mihomo_proxy_from_link, mihomo_proxy_from_ss
    <2>3. /\ p.type = "shadowsocks" /\ p.server = l.host /\ p.port = l.port /\ p.cred = l.cred
          /\ p.psk = l.psk /\ p.obfs = 0 /\ p.tls = FALSE
      BY <2>2 DEF Parsed, BareProxy
    <2>4. in.tls.mode = "none"
      BY <1>4, <1>7 DEF Mode
    <2> QED BY <1>1, <1>2, <1>3, <1>4, <1>5, <1>7, <2>3, <2>4 DEF Accepts
  <1>8. CASE dep.protocol \in TlsDomainProtocols
    <2>1. /\ l.scheme = IF dep.protocol = "hysteria2" THEN "hy2" ELSE dep.protocol
          /\ l.tls /\ l.sni = dep.domain /\ l.insecure = (dep.domain = "")
          /\ dep.domain = "" => l.pin # 0 /\ l.pin = dep.cert
      BY <1>2, <1>8 DEF LinkFits, TlsDomainProtocols
    <2>2. /\ in.tls.mode = IF dep.domain # "" THEN "acme" ELSE "file"
          /\ in.psk = 0 /\ ~(l.insecure /\ l.pin = 0)
      BY <1>4, <1>8, <2>1 DEF Mode, TlsDomainProtocols
    <2>3. PICK bare :
            /\ p = WithPin(l, bare)
            /\ bare.type = dep.protocol /\ bare.server = l.host /\ bare.port = l.port
            /\ bare.cred = l.cred /\ bare.psk = 0 /\ bare.tls = TRUE
            /\ bare.obfs = IF dep.protocol = "hysteria2" THEN l.obfs ELSE 0
            /\ DOMAIN bare = DOMAIN BareProxy
      <3>1. CASE dep.protocol = "hysteria2"
        <4>1. PICK bare : bare = [Parsed(l, "hysteria2") EXCEPT !.tls = TRUE, !.obfs = l.obfs]
          OBVIOUS
        <4>2. p = WithPin(l, bare)
          BY <1>3, <2>1, <3>1, <4>1 DEF mihomo_proxy_from_link, mihomo_proxy_from_hy2
        <4>3. /\ bare.type = "hysteria2" /\ bare.server = l.host /\ bare.port = l.port
              /\ bare.cred = l.cred /\ bare.psk = 0 /\ bare.tls = TRUE /\ bare.obfs = l.obfs
              /\ DOMAIN bare = DOMAIN BareProxy
          BY <4>1 DEF Parsed, BareProxy
        <4> QED BY <3>1, <4>2, <4>3
      <3>2. CASE dep.protocol \in {"anytls", "vmess"}
        <4>1. PICK bare : bare = [Parsed(l, dep.protocol) EXCEPT !.tls = TRUE]
          OBVIOUS
        <4>2. p = WithPin(l, bare)
          BY <1>3, <2>1, <3>2, <4>1
             DEF mihomo_proxy_from_link, mihomo_proxy_from_anytls, mihomo_proxy_from_vmess
        <4>3. /\ bare.type = dep.protocol /\ bare.server = l.host /\ bare.port = l.port
              /\ bare.cred = l.cred /\ bare.psk = 0 /\ bare.tls = TRUE /\ bare.obfs = 0
              /\ DOMAIN bare = DOMAIN BareProxy
          BY <4>1 DEF Parsed, BareProxy
        <4> QED BY <3>2, <4>2, <4>3
      <3> QED BY <1>8, <3>1, <3>2 DEF TlsDomainProtocols
    <2>5. p = [bare EXCEPT !.sni = l.sni, !.skip = l.insecure,
                           !.pin = IF l.insecure THEN l.pin ELSE 0]
      BY <2>2, <2>3 DEF WithPin
    <2>6. /\ p.type = dep.protocol /\ p.server = l.host /\ p.port = l.port /\ p.cred = l.cred
          /\ p.psk = 0 /\ p.obfs = bare.obfs /\ p.tls = TRUE /\ p.sni = l.sni /\ p.skip = l.insecure
          /\ p.pin = IF l.insecure THEN l.pin ELSE 0
      BY <2>3, <2>5 DEF BareProxy
    <2>7. bare.obfs = in.obfs
      BY <1>4, <1>5, <2>3
    <2>8. in.tls.mode = "file" => s.cert # 0 /\ dep.cert = s.cert
      BY <1>8, <2>2 DEF PinNeeded
    <2> QED BY <1>1, <1>2, <1>3, <1>4, <1>5, <2>1, <2>2, <2>6, <2>7, <2>8 DEF Accepts
  <1> QED BY <1>6, <1>7, <1>8 DEF Protocols, TlsDomainProtocols, Reality

\* The link of every user the node accepts gets in, whatever the order of the
\* requests and the installer (services/clients.py, services/singbox.py).
THEOREM LinksGetIn == Spec => []LinksConnect
  <1>1. ASSUME Inv
        PROVE  LinksConnect
    <2> SUFFICES ASSUME dep.status = "ready", service.inbound # NoConfig,
                        NEW u \in Users \ early, user[u] # NoRow,
                        Cred(u, user[u]) \in service.inbound.users
                 PROVE  Accepts(service, NodeNames, mihomo_proxy_from_link(user[u].link))
      BY DEF LinksConnect
    <2>1. /\ Fits(service.inbound) /\ InPlace /\ (PinNeeded => dep.cert = service.cert)
          /\ dep.protocol \in Protocols /\ (Reality => dep.key # 0)
      BY <1>1 DEF Inv, NodeInv, Up, Shapes, DepShape, Reality
    <2>2. LinkFits(u, user[u]) /\ Named(user[u])
      BY <1>1 DEF Inv, NodeInv, UsersFit
    <2>3. user[u].link # NoLink
      BY <2>2 DEF LinkFits
    <2> QED BY <2>1, <2>2, <2>3, LinkGetsIn DEF InPlace, CertMade
  <1> QED BY <1>1, InvHolds, PTL

\* Two running neighbours of a chain fit, also between two deployments and after
\* a restart: the secrets are made once (services/chains.py).
THEOREM NeighboursConnect == Spec => []HopsConnect
  <1>1. ASSUME Inv
        PROVE  HopsConnect
    <2> SUFFICES ASSUME Running(Entry), Running(Exit)
                 PROVE  Accepts(hopService[Exit], {HostOf(Exit)}, hopService[Entry].outbound)
      BY DEF HopsConnect, Running
    <2>1. PICK f : f = FullHop(Exit)
      OBVIOUS
    <2>2. PICK s : s = hopService[Exit]
      OBVIOUS
    <2>3. /\ s.inbound = chain_inbound(f) /\ hopService[Entry].outbound = chain_outbound(f)
          /\ s.inbound # NoConfig /\ (f.protocol = "hysteria2" => s.cert # 0)
      BY <1>1, <2>1, <2>2 DEF Inv, ChainInv, HopsFit, Running, FullHop, Hops, Entry, Exit
    <2>4. /\ f.protocol \in ChainProtocols /\ f.host = HostOf(Exit)
      BY <1>1, <2>1 DEF Inv, ChainInv, ChainShapes, FullHop, Hops
    <2>5. PICK p : p = chain_outbound(f)
      OBVIOUS
    <2>6. Accepts(s, {f.host}, p)
      <3>1. PICK to : to = [BareProxy EXCEPT !.type = f.protocol, !.server = f.host, !.port = f.port]
        OBVIOUS
      <3>2. /\ to.type = f.protocol /\ to.server = f.host /\ to.port = f.port /\ to.cred = <<>>
            /\ to.psk = 0 /\ to.obfs = 0 /\ to.tls = FALSE /\ to.skip = FALSE /\ to.pin = 0
            /\ DOMAIN to = DOMAIN BareProxy
        BY <3>1 DEF BareProxy
      <3>3. CASE f.protocol = "shadowsocks"
        <4>1. /\ s.inbound = Inbound("shadowsocks", f.port, {<<>>}, f.ss, 0, NoTls)
              /\ p = [to EXCEPT !.psk = f.ss]
          BY <2>3, <2>5, <3>1, <3>3 DEF chain_inbound, chain_outbound
        <4>2. PICK in : in = s.inbound
          OBVIOUS
        <4>3. /\ in.type = f.protocol /\ in.port = f.port /\ in.users = {<<>>}
              /\ in.psk = f.ss /\ in.obfs = 0 /\ in.tls.mode = "none"
          BY <3>3, <4>1, <4>2 DEF Inbound, NoTls
        <4>4. /\ p.type = f.protocol /\ p.server = f.host /\ p.port = f.port /\ p.cred = <<>>
              /\ p.psk = f.ss /\ p.obfs = 0 /\ p.tls = FALSE
          BY <3>2, <4>1 DEF BareProxy
        <4> QED BY <2>3, <3>3, <4>2, <4>3, <4>4 DEF Accepts
      <3>4. CASE f.protocol = "hysteria2"
        <4>1. /\ s.inbound = Inbound("hysteria2", f.port, {<<"hy2", f.hy2>>}, 0, 0, self_signed_tls)
              /\ p = [to EXCEPT !.cred = <<"hy2", f.hy2>>, !.tls = TRUE, !.skip = TRUE]
          BY <2>3, <2>5, <3>1, <3>4 DEF chain_inbound, chain_outbound
        <4>2. PICK in : in = s.inbound
          OBVIOUS
        <4>3. /\ in.type = f.protocol /\ in.port = f.port /\ in.users = {<<"hy2", f.hy2>>}
              /\ in.psk = 0 /\ in.obfs = 0 /\ in.tls.mode = "file"
          BY <3>4, <4>1, <4>2 DEF Inbound, self_signed_tls
        <4>4. /\ p.type = f.protocol /\ p.server = f.host /\ p.port = f.port /\ p.cred = <<"hy2", f.hy2>>
              /\ p.psk = 0 /\ p.obfs = 0 /\ p.tls = TRUE /\ p.skip = TRUE /\ p.pin = 0
          BY <3>2, <4>1 DEF BareProxy
        <4> QED BY <2>3, <3>4, <4>2, <4>3, <4>4 DEF Accepts
      <3>5. CASE f.protocol = "vmess"
        <4>1. /\ s.inbound = Inbound("vmess", f.port, {<<"uuid", f.uuid>>}, 0, 0, NoTls)
              /\ p = [to EXCEPT !.cred = <<"uuid", f.uuid>>]
          BY <2>3, <2>5, <3>1, <3>5 DEF chain_inbound, chain_outbound
        <4>2. PICK in : in = s.inbound
          OBVIOUS
        <4>3. /\ in.type = f.protocol /\ in.port = f.port /\ in.users = {<<"uuid", f.uuid>>}
              /\ in.psk = 0 /\ in.obfs = 0 /\ in.tls.mode = "none"
          BY <3>5, <4>1, <4>2 DEF Inbound, NoTls
        <4>4. /\ p.type = f.protocol /\ p.server = f.host /\ p.port = f.port /\ p.cred = <<"uuid", f.uuid>>
              /\ p.psk = 0 /\ p.obfs = 0 /\ p.tls = FALSE
          BY <3>2, <4>1 DEF BareProxy
        <4> QED BY <2>3, <3>5, <4>2, <4>3, <4>4 DEF Accepts
      <3>6. CASE f.protocol = "vless"
        <4>1. /\ s.inbound = Inbound("vless", f.port, {<<"uuid", f.uuid>>}, 0, 0, reality_tls(f))
              /\ p = [to EXCEPT !.cred = <<"uuid", f.uuid>>, !.tls = TRUE,
                                !.sni = reality_settings(f).sni, !.pbk = f.key, !.sid = f.sid]
          BY <2>3, <2>5, <3>1, <3>6 DEF chain_inbound, chain_outbound
        <4>2. PICK in : in = s.inbound
          OBVIOUS
        <4>3. /\ in.type = f.protocol /\ in.port = f.port /\ in.users = {<<"uuid", f.uuid>>}
              /\ in.psk = 0 /\ in.obfs = 0 /\ in.tls.mode = "reality"
              /\ in.tls.name = reality_settings(f).sni /\ in.tls.key = f.key /\ in.tls.sid = f.sid
          BY <3>6, <4>1, <4>2 DEF Inbound, reality_tls
        <4>4. /\ p.type = f.protocol /\ p.server = f.host /\ p.port = f.port /\ p.cred = <<"uuid", f.uuid>>
              /\ p.psk = 0 /\ p.obfs = 0 /\ p.tls = TRUE
              /\ p.sni = reality_settings(f).sni /\ p.pbk = f.key /\ p.sid = f.sid
          BY <3>2, <4>1 DEF BareProxy
        <4> QED BY <2>3, <3>6, <4>2, <4>3, <4>4 DEF Accepts
      <3> QED BY <2>4, <3>3, <3>4, <3>5, <3>6 DEF ChainProtocols
    <2> QED BY <2>2, <2>3, <2>4, <2>5, <2>6
  <1> QED BY <1>1, InvHolds, PTL

\* The chain's link gets into every entry that is installed later
\* (services/chains.py).
THEOREM ChainLinkLasts == Spec => []ChainLinkFits
  <1>1. ASSUME Inv
        PROVE  ChainLinkFits
    <2> SUFFICES ASSUME chain.link # NoLink, Running(Entry)
                 PROVE  Accepts(hopService[Entry], {HostOf(Entry)}, mihomo_proxy_from_link(chain.link))
      BY DEF ChainLinkFits, Running
    <2>1. PICK f : f = FullHop(Entry)
      OBVIOUS
    <2>2. PICK s : s = hopService[Entry]
      OBVIOUS
    <2>3. PICK l : l = chain.link
      OBVIOUS
    <2>4. /\ s.inbound = chain_inbound(f) /\ s.inbound # NoConfig /\ l = chain_share_link(f)
      BY <1>1, <2>1, <2>2, <2>3 DEF Inv, ChainInv, HopsFit, LinkKept, Running, Hops
    <2>5. f.protocol = "vless" /\ f.host = HostOf(Entry) /\ f.key # 0
      BY <1>1, <2>1 DEF Inv, ChainInv, ChainShapes, LinkKept, Prepared, FullHop
    <2>6. s.inbound = Inbound("vless", f.port, {<<"uuid", f.uuid>>}, 0, 0, reality_tls(f))
      BY <2>4, <2>5 DEF chain_inbound
    <2>7. /\ l.scheme = "vless" /\ l.tls = TRUE /\ l.pbk = f.key /\ l.sid = f.sid
          /\ l.sni = reality_settings(f).sni /\ l.host = f.host /\ l.port = f.port
          /\ l.cred = <<"uuid", f.uuid>>
      BY <2>4 DEF chain_share_link, vless_reality_share_link, Link
    <2>8. PICK p : p = mihomo_proxy_from_link(l)
      OBVIOUS
    <2>9. p = [Parsed(l, "vless") EXCEPT !.tls = TRUE, !.pbk = l.pbk, !.sid = l.sid, !.sni = l.sni]
      BY <2>5, <2>7, <2>8 DEF mihomo_proxy_from_link, mihomo_proxy_from_vless
    <2>10. /\ p.type = "vless" /\ p.server = l.host /\ p.port = l.port /\ p.cred = l.cred
           /\ p.psk = 0 /\ p.obfs = 0 /\ p.tls = TRUE /\ p.pbk = l.pbk /\ p.sid = l.sid /\ p.sni = l.sni
      BY <2>9 DEF Parsed, BareProxy
    <2>11. Accepts(s, {f.host}, p)
      <3>1. PICK in : in = s.inbound
        OBVIOUS
      <3>2. /\ in.type = "vless" /\ in.port = f.port /\ in.users = {<<"uuid", f.uuid>>}
            /\ in.psk = 0 /\ in.obfs = 0 /\ in.tls.mode = "reality"
            /\ in.tls.name = reality_settings(f).sni /\ in.tls.key = f.key /\ in.tls.sid = f.sid
        BY <2>6, <3>1 DEF Inbound, reality_tls
      <3> QED BY <2>4, <2>7, <2>10, <3>1, <3>2 DEF Accepts
    <2> QED BY <2>2, <2>3, <2>5, <2>8, <2>11
  <1> QED BY <1>1, InvHolds, PTL

\* The firewall lets in what a node that is ready listens on, and what the hops
\* of a chain listen on once its link was handed out, and a certificate that is
\* read is there (provisioning.py).
THEOREM PortsStayOpen == Spec => []PortsOpen
  <1>1. ASSUME Inv, dep.status = "ready"
        PROVE  Reachable(service, open)
    <2> SUFFICES ASSUME service.inbound # NoConfig
                 PROVE  /\ PortsUsed(service.inbound) \subseteq open
                        /\ service.inbound.tls.mode = "file" => service.cert # 0
      BY DEF Reachable
    <2>1. PICK in : in = service.inbound
      OBVIOUS
    <2>2. /\ in.type = dep.protocol /\ in.port = dep.port /\ in.tls.mode = Mode(dep)
          /\ NodePorts \subseteq open /\ (PinNeeded => service.cert # 0)
          /\ dep.protocol \in Protocols
      BY <1>1, <2>1 DEF Inv, NodeInv, Shapes, DepShape, Up, Fits, InPlace, CertMade
    <2>3. PortsUsed(in) \subseteq NodePorts
      BY <2>2 DEF PortsUsed, NodePorts, firewall_rules, node_install_options, Mode, Protocols,
                  TlsDomainProtocols
    <2>4. in.tls.mode = "file" => PinNeeded
      BY <2>2 DEF Mode, PinNeeded, Protocols, TlsDomainProtocols
    <2> QED BY <2>1, <2>2, <2>3, <2>4
  <1>2. ASSUME Inv, chain.link # NoLink, NEW h \in Hops
        PROVE  Reachable(hopService[h], hopOpen[h])
    <2> SUFFICES ASSUME Running(h)
                 PROVE  /\ PortsUsed(hopService[h].inbound) \subseteq hopOpen[h]
                        /\ hopService[h].inbound.tls.mode = "file" => hopService[h].cert # 0
      BY DEF Reachable, Running
    <2>1. PICK f, in : f = FullHop(h) /\ in = hopService[h].inbound
      OBVIOUS
    <2>2. /\ in = chain_inbound(f) /\ f.protocol = hop[h].protocol /\ f.port = hop[h].port
          /\ f.protocol \in ChainProtocols
          /\ hop[h].protocol = "hysteria2" => hopService[h].cert # 0
      BY <1>2, <2>1 DEF Inv, ChainInv, ChainShapes, HopsFit, FullHop
    <2>5. HopPorts(h) \subseteq hopOpen[h]
      BY <1>2 DEF Inv, ChainInv, PortsKept, Opened, Hops
    <2>3. /\ in.type = f.protocol /\ in.port = f.port
          /\ in.tls.mode = IF f.protocol = "hysteria2" THEN "file"
                           ELSE IF f.protocol = "vless" THEN "reality" ELSE "none"
      BY <2>2 DEF chain_inbound, Inbound, NoTls, self_signed_tls, reality_tls, ChainProtocols
    <2>4. PortsUsed(in) \subseteq HopPorts(h)
      BY <2>2, <2>3 DEF PortsUsed, HopPorts, firewall_rules, chain_install_options, ChainProtocols
    <2> QED BY <2>1, <2>2, <2>3, <2>4, <2>5
  <1>3. Inv => PortsOpen
    BY <1>1, <1>2 DEF PortsOpen
  <1> QED BY <1>3, InvHolds, PTL

\* Rows, services and threads keep their shapes, and only what was rendered is
\* handed on.
THEOREM TypeCorrect ==
    ASSUME NoneIsNoInbound
    PROVE  Spec => []TypeOK
  <1>1. ASSUME Inv
        PROVE  TypeOK
    <2>1. /\ dep.protocol \in Protocols /\ dep.status \in {"provisioning", "ready", "failed"}
          /\ early \subseteq ids /\ started \in 0..MaxRequests
      BY <1>1 DEF Inv, NodeInv, Shapes, DepShape, UserShape
    <2>2. \A u \in Users : user[u] # NoRow => user[u].link # NoLink /\ u \in ids
      BY <1>1 DEF Inv, NodeInv, UsersFit, LinkFits
    <2>3. \A t \in Threads : th[t].pc \in {"push", "record", "i_run", "i_open", "i_ready"} => th[t].cfg # NoConfig
      BY <1>1 DEF Inv, NodeInv, Threads, RequestFits, InstallerFits, InstallerPcs, Fits
    <2>4. /\ chain.status \in {"planned", "deploying", "ready", "failed"}
          /\ deploys \in 0..MaxDeploys /\ crashes \in 0..MaxCrashes
          /\ (run = Idling) = (chain.status # "deploying" /\ run[1] # "rollback")
      BY <1>1 DEF Inv, ChainInv, ChainShapes, RunSteps, Hops, Idling
    <2> QED BY <2>1, <2>2, <2>3, <2>4 DEF TypeOK
  <1> QED BY <1>1, InvHolds, PTL

-----------------------------------------------------------------------------
(* The names of the proxies in a subscription.                             *)

\* A set of naturals has a least one.
LEMMA Least ==
    ASSUME NEW S \in SUBSET Nat, S # {}
    PROVE  \E k \in S : \A l \in S : k <= l
  <1> DEFINE below == {0..k : k \in S}
  <1>1. below \subseteq FiniteSubsetsOf(Nat) /\ below # {}
    <2>1. \A k \in Nat : IsFiniteSet(0..k)
      BY FS_Interval
    <2>2. below \subseteq FiniteSubsetsOf(Nat)
      BY <2>1 DEF FiniteSubsetsOf
    <2>3. below # {}
      OBVIOUS
    <2> QED BY <2>2, <2>3
  <1>2. PICK X \in below : \A Y \in below : <<Y, X>> \notin StrictSubsetOrdering(Nat)
    <2>1. IsWellFoundedOn(StrictSubsetOrdering(Nat), FiniteSubsetsOf(Nat))
      BY FS_StrictSubsetOrderingWellFounded
    <2> HIDE DEF below
    <2> QED BY <1>1, <2>1, WFMin
  <1>3. PICK k \in S : X = 0..k
    OBVIOUS
  <1>4. ASSUME NEW l \in S, l < k
        PROVE  FALSE
    <2>1. 0..l \in below
      OBVIOUS
    <2>2. 0..l \subseteq X /\ 0..l # X
      <3>1. k \in X /\ k \notin 0..l
        BY <1>3, <1>4
      <3> QED BY <1>3, <1>4, <3>1
    <2>3. <<0..l, X>> \in StrictSubsetOrdering(Nat)
      <3>1. 0..l \in SUBSET Nat /\ X \in SUBSET Nat
        BY <1>3
      <3> QED BY <2>2, <3>1 DEF StrictSubsetOrdering
    <2> QED BY <1>2, <2>1, <2>3
  <1> QED BY <1>4

\* A name that subscriptions show: suffixes can be put behind it.
IsName(name) == DOMAIN name = {"word", "suffixes"} /\ name.suffixes \in Seq(Nat)

LEMMA SuffixedNames ==
    ASSUME NEW name, IsName(name)
    PROVE  /\ \A k \in Nat : Suffixed(name, k) \notin Reserved
           /\ \A k, l \in Nat : Suffixed(name, k) = Suffixed(name, l) => k = l
  <1>1. \A k : Suffixed(name, k).suffixes = Append(name.suffixes, k)
    BY DEF Suffixed, IsName
  <1>2. \A k \in Nat : /\ Append(name.suffixes, k) # <<>>
                       /\ Append(name.suffixes, k)[Len(name.suffixes) + 1] = k
    BY AppendProperties DEF IsName
  <1>3. \A r \in Reserved : r.suffixes = <<>>
    BY DEF Reserved, Name
  <1> QED BY <1>1, <1>2, <1>3

\* There is always a suffix that no proxy has yet.
LEMMA UniqueName ==
    ASSUME NEW name, IsName(name), NEW used, IsFiniteSet(used)
    PROVE  unique_proxy_name(name, used) \notin used \cup Reserved
  <1>1. CASE name \notin used \cup Reserved
    BY <1>1 DEF unique_proxy_name
  <1>2. CASE name \in used \cup Reserved
    <2> DEFINE n == Cardinality(used)
               free == {k \in 2..(n + 2) : Suffixed(name, k) \notin used \cup Reserved}
               k == CHOOSE j \in free : \A l \in free : j <= l
    <2>1. n \in Nat
      BY FS_CardinalityType
    <2>2. free # {}
      <3> SUFFICES ASSUME free = {} PROVE FALSE
        OBVIOUS
      <3> DEFINE f == [j \in 2..(n + 2) |-> Suffixed(name, j)]
      <3>1. \A j \in 2..(n + 2) : j \in Nat /\ Suffixed(name, j) \in used
        BY <2>1, SuffixedNames
      <3>2. \A i, j \in 2..(n + 2) : Suffixed(name, i) = Suffixed(name, j) => i = j
        BY <3>1, SuffixedNames
      <3>3. f \in Injection(2..(n + 2), used)
        <4>1. f \in [2..(n + 2) -> used]
          BY <3>1
        <4>2. \A i, j \in 2..(n + 2) : f[i] = f[j] => i = j
          BY <3>2
        <4> HIDE DEF f, n
        <4> QED BY <4>1, <4>2 DEF Injection, IsInjective
      <3> HIDE DEF f
      <3>4. Cardinality(2..(n + 2)) <= n
        BY <3>3, FS_Injection
      <3>5. Cardinality(2..(n + 2)) = n + 1
        BY <2>1, FS_Interval
      <3> QED BY <2>1, <3>4, <3>5
    <2>3. free \in SUBSET Nat
      BY <2>1
    <2>4. k \in free
      <3> HIDE DEF free
      <3>1. \E j \in free : \A l \in free : j <= l
        BY <2>2, <2>3, Least
      <3> QED BY <3>1
    <2>5. unique_proxy_name(name, used) = Suffixed(name, k)
      BY <1>2 DEF unique_proxy_name
    <2> QED BY <2>4, <2>5
  <1> QED BY <1>1, <1>2

\* What the recursion of ProxyNames tabulates for the first n links.
NamesFit(f, links, n) ==
    f = [i \in 1..n |-> unique_proxy_name(links[i].name, {f[j] : j \in 1..(i - 1)})]

LEMMA NamesExist ==
    ASSUME NEW links, NEW n \in Nat
    PROVE  \E f : NamesFit(f, links, n)
  <1> DEFINE S == {m \in Nat : ~\E f : NamesFit(f, links, m)}
  <1> SUFFICES ASSUME S # {} PROVE FALSE
    OBVIOUS
  <1>1. PICK k \in S : \A l \in S : k <= l
    <2>1. S \in SUBSET Nat
      OBVIOUS
    <2> HIDE DEF S
    <2> QED BY <2>1, Least
  <1>2. k # 0
    <2>1. NamesFit([i \in 1..0 |-> 0], links, 0)
      BY DEF NamesFit
    <2> QED BY <2>1
  <1>3. PICK f : NamesFit(f, links, k - 1)
    BY <1>1, <1>2
  <1> DEFINE last == unique_proxy_name(links[k].name, {f[j] : j \in 1..(k - 1)})
             g == [i \in 1..k |-> IF i = k THEN last ELSE f[i]]
  <1>4. \A i \in 1..k : g[i] = unique_proxy_name(links[i].name, {g[j] : j \in 1..(i - 1)})
    <2> TAKE i \in 1..k
    <2>1. \A j \in 1..(i - 1) : g[j] = f[j]
      OBVIOUS
    <2>2. {g[j] : j \in 1..(i - 1)} = {f[j] : j \in 1..(i - 1)}
      <3> HIDE DEF g
      <3> QED BY <2>1
    <2>3. CASE i = k
      <3>1. g[i] = last
        BY <2>3
      <3> HIDE DEF g
      <3> QED BY <2>2, <2>3, <3>1
    <2>4. CASE i # k
      <3>1. i \in 1..(k - 1) /\ g[i] = f[i]
        BY <2>4
      <3>2. f[i] = unique_proxy_name(links[i].name, {f[j] : j \in 1..(i - 1)})
        BY <1>3, <3>1 DEF NamesFit
      <3> HIDE DEF g
      <3> QED BY <2>2, <3>1, <3>2
    <2> QED BY <2>3, <2>4
  <1>5. NamesFit(g, links, k)
    <2>1. g = [i \in 1..k |-> g[i]]
      OBVIOUS
    <2> HIDE DEF g
    <2> QED BY <1>4, <2>1 DEF NamesFit
  <1> QED BY <1>5

\* No two proxies share a name, and none has the name of a group.
LEMMA NamesDiffer ==
    ASSUME NEW links, NEW n \in Nat, DOMAIN links = 1..n, \A i \in 1..n : IsName(links[i].name)
    PROVE  \A i \in 1..n : /\ ProxyNames(links)[i] \notin Reserved
                           /\ \A j \in 1..n : ProxyNames(links)[i] = ProxyNames(links)[j] => i = j
  <1>1. PICK f : f = ProxyNames(links)
    OBVIOUS
  <1>2. NamesFit(f, links, n)
    <2>1. f = CHOOSE g : NamesFit(g, links, n)
      BY <1>1 DEF ProxyNames, NamesFit
    <2>2. \E g : NamesFit(g, links, n)
      BY NamesExist
    <2> HIDE DEF NamesFit
    <2> QED BY <2>1, <2>2
  <1>3. ASSUME NEW i \in 1..n
        PROVE  f[i] \notin Reserved /\ \A j \in 1..(i - 1) : f[i] # f[j]
    <2> DEFINE used == {f[j] : j \in 1..(i - 1)}
    <2>1. f[i] = unique_proxy_name(links[i].name, used)
      BY <1>2 DEF NamesFit
    <2>2. IsFiniteSet(used)
      <3> DEFINE h == [j \in 1..(i - 1) |-> f[j]]
      <3>1. h \in Surjection(1..(i - 1), used)
        <4>1. h \in [1..(i - 1) -> used] /\ \A x \in used : \E j \in 1..(i - 1) : h[j] = x
          OBVIOUS
        <4> HIDE DEF h, used
        <4> QED BY <4>1 DEF Surjection
      <3>2. IsFiniteSet(1..(i - 1))
        BY FS_Interval
      <3> HIDE DEF h, used
      <3> QED BY <3>1, <3>2, FS_Surjection
    <2>3. f[i] \notin used \cup Reserved
      <3> HIDE DEF used
      <3> QED BY <2>1, <2>2, UniqueName
    <2> QED BY <2>3
  <1>4. \A i, j \in 1..n : f[i] = f[j] => i = j
    <2> TAKE i, j \in 1..n
    <2>1. j < i => f[i] # f[j]
      BY <1>3
    <2>2. i < j => f[i] # f[j]
      BY <1>3
    <2> QED BY <2>1, <2>2
  <1> QED BY <1>1, <1>3, <1>4

\* None is no proxy, as it is no inbound.
NoneIsNoProxy == DOMAIN NoProxy # DOMAIN BareProxy

\* A link that fits the row parses, under any display name.
LEMMA LinkParses ==
    ASSUME NoneIsNoProxy, NEW u, NEW row, LinkFits(u, row), NEW name,
           dep.protocol \in Protocols, Reality => dep.key # 0,
           NEW l, l = share_link_with_display_name(row.link, name)
    PROVE  /\ mihomo_proxy_from_link(l) # NoProxy
           /\ l.name = IF name = NoName THEN Name(u) ELSE name
  <1>1. PICK k : k = row.link
    OBVIOUS
  <1>2. DOMAIN k = LinkFields /\ k.name = Name(u)
    BY <1>1 DEF LinkFits
  <1>3. /\ l.scheme = k.scheme /\ l.tls = k.tls /\ l.pbk = k.pbk /\ l.insecure = k.insecure
        /\ l.pin = k.pin
        /\ l.name = IF name = NoName THEN Name(u) ELSE name
    <2>1. l = IF name = NoName THEN k ELSE [k EXCEPT !.name = name]
      BY <1>1 DEF share_link_with_display_name
    <2> QED BY <1>2, <2>1 DEF LinkFields
  <1>4. PICK p : p = mihomo_proxy_from_link(l)
    OBVIOUS
  <1>5. DOMAIN p = DOMAIN BareProxy
    <2>0. \A t : DOMAIN Parsed(l, t) = DOMAIN BareProxy
      BY DEF Parsed
    <2>1. CASE Reality
      <3>1. l.scheme = "vless" /\ l.tls /\ l.pbk # 0
        BY <1>1, <1>3, <2>1 DEF LinkFits, Reality
      <3>2. p = [Parsed(l, "vless") EXCEPT !.tls = TRUE, !.pbk = l.pbk, !.sid = l.sid, !.sni = l.sni]
        BY <1>4, <3>1 DEF mihomo_proxy_from_link, mihomo_proxy_from_vless
      <3> QED BY <2>0, <3>2
    <2>2. CASE dep.protocol = "shadowsocks"
      <3>1. l.scheme = "ss"
        BY <1>1, <1>3, <2>2 DEF LinkFits
      <3>2. p = [Parsed(l, "shadowsocks") EXCEPT !.psk = l.psk]
        BY <1>4, <3>1 DEF mihomo_proxy_from_link, mihomo_proxy_from_ss
      <3> QED BY <2>0, <3>2
    <2>3. CASE dep.protocol \in TlsDomainProtocols
      <3>1. /\ l.scheme = IF dep.protocol = "hysteria2" THEN "hy2" ELSE dep.protocol
            /\ l.tls /\ ~(l.insecure /\ l.pin = 0)
        BY <1>1, <1>3, <2>3 DEF LinkFits, TlsDomainProtocols
      <3>2. \A q : DOMAIN q = DOMAIN BareProxy => DOMAIN WithPin(l, q) = DOMAIN BareProxy
        BY <3>1 DEF WithPin
      <3>3. CASE dep.protocol = "hysteria2"
        <4>1. p = WithPin(l, [Parsed(l, "hysteria2") EXCEPT !.tls = TRUE, !.obfs = l.obfs])
          BY <1>4, <3>1, <3>3 DEF mihomo_proxy_from_link, mihomo_proxy_from_hy2
        <4> QED BY <2>0, <3>2, <4>1
      <3>4. CASE dep.protocol \in {"anytls", "vmess"}
        <4>1. p = WithPin(l, [Parsed(l, dep.protocol) EXCEPT !.tls = TRUE])
          BY <1>4, <3>1, <3>4
             DEF mihomo_proxy_from_link, mihomo_proxy_from_anytls, mihomo_proxy_from_vmess
        <4> QED BY <2>0, <3>2, <4>1
      <3> QED BY <2>3, <3>3, <3>4 DEF TlsDomainProtocols
    <2> QED BY <2>1, <2>2, <2>3 DEF Protocols, TlsDomainProtocols, Reality
  <1> QED BY <1>3, <1>4, <1>5 DEF NoneIsNoProxy

\* A subscription over any of the stored links renders, and its proxies have
\* names of their own (services/helpers.py, services/subscriptions.py).
THEOREM SubscriptionsRender ==
    ASSUME NoneIsNoProxy, IsFiniteSet(Users)
    PROVE  Spec => []SubscriptionRenders
  <1>1. ASSUME Inv
        PROVE  SubscriptionRenders
    <2> DEFINE active == {u \in Users : user[u] # NoRow /\ user[u].enabled}
    <2> SUFFICES
          ASSUME NEW order \in [1..Cardinality(active) -> active], NEW shown \in [Users -> Displays],
                 NEW links, links = [i \in DOMAIN order |->
                              share_link_with_display_name(user[order[i]].link, shown[order[i]])]
          PROVE  /\ Renders(links)
                 /\ \A i, j \in DOMAIN links : ProxyNames(links)[i] = ProxyNames(links)[j] => i = j
                 /\ \A i \in DOMAIN links : ProxyNames(links)[i] \notin Reserved
      BY DEF SubscriptionRenders
    <2>1. PICK n \in Nat : n = Cardinality(active)
      <3>1. active \in SUBSET Users
        OBVIOUS
      <3> HIDE DEF active
      <3> QED BY <3>1, FS_Subset, FS_CardinalityType
    <2>2. DOMAIN links = 1..n /\ \A i \in 1..n : order[i] \in active
      BY <2>1
    <2>3. \A i \in 1..n : mihomo_proxy_from_link(links[i]) # NoProxy /\ IsName(links[i].name)
      <3> SUFFICES ASSUME NEW i \in 1..n
                   PROVE  mihomo_proxy_from_link(links[i]) # NoProxy /\ IsName(links[i].name)
        OBVIOUS
      <3>1. PICK u \in active, name \in Displays : u = order[i] /\ name = shown[u]
        BY <2>2
      <3>2. PICK l : l = links[i]
        OBVIOUS
      <3>3. l = share_link_with_display_name(user[u].link, name)
        BY <2>1, <3>1, <3>2
      <3>4. LinkFits(u, user[u]) /\ dep.protocol \in Protocols /\ (Reality => dep.key # 0)
        BY <1>1, <3>1 DEF Inv, NodeInv, UsersFit, Shapes, DepShape, Reality
      <3>5. mihomo_proxy_from_link(l) # NoProxy /\ l.name = IF name = NoName THEN Name(u) ELSE name
        BY <3>3, <3>4, LinkParses
      <3>6. IsName(l.name)
        BY <3>5, DisplaysAssumption DEF IsName, Name
      <3> QED BY <3>2, <3>5, <3>6
    <2>4. Renders(links)
      BY <2>2, <2>3 DEF Renders
    <2>5. DOMAIN links = 1..n /\ \A i \in 1..n : IsName(links[i].name)
      BY <2>2, <2>3
    <2>6. \A i \in 1..n : /\ ProxyNames(links)[i] \notin Reserved
                         /\ \A j \in 1..n : ProxyNames(links)[i] = ProxyNames(links)[j] => i = j
      <3>1. PICK l : l = links
        OBVIOUS
      <3>2. DOMAIN l = 1..n /\ \A i \in 1..n : IsName(l[i].name)
        BY <2>5, <3>1
      <3>3. \A i \in 1..n : /\ ProxyNames(l)[i] \notin Reserved
                           /\ \A j \in 1..n : ProxyNames(l)[i] = ProxyNames(l)[j] => i = j
        BY <3>2, NamesDiffer
      <3> QED BY <3>1, <3>3
    <2> HIDE DEF active
    <2> QED BY <2>4, <2>5, <2>6
  <1> QED BY <1>1, InvHolds, PTL
=============================================================================
