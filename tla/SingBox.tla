------------------------------ MODULE SingBox ------------------------------
(***************************************************************************)
(* What the panel renders: the inbound a node runs, the inbound and the    *)
(* outbound of a chain's hop (services/singbox.py), the share link of a    *)
(* user, and the Mihomo proxy a link becomes in a subscription             *)
(* (services/helpers.py).  Each is rendered on its own from the same row;  *)
(* that they fit together is what NodeLinks and ChainHops check.           *)
(*                                                                         *)
(* A text is a string and "" is empty; a secret is a number and 0 is       *)
(* missing; a REALITY target is <<host, port>> and <<>> is empty; a        *)
(* credential is a tuple.  A key pair is one value.                        *)
(***************************************************************************)
EXTENDS Naturals, Sequences, FiniteSets

CONSTANTS
    EnvDest,       \* REALITY_DEST, <<>> when unset
    EnvSni,        \* REALITY_SNI, "" when unset
    EnvCandidates, \* REALITY_CANDIDATES, a sequence, <<>> when unset
    NoConfig, NoLink, NoProxy

\* parse_reality_destination returns a host and a port, or raises.
ASSUME CandidatesAssumption == \A i \in DOMAIN EnvCandidates : EnvCandidates[i] # <<>>

DefaultDest == <<"www.yahoo.com", 443>>
DefaultCandidates == <<DefaultDest, <<"www.apple.com", 443>>, <<"www.amazon.com", 443>>>>

Protocols == {"vless", "shadowsocks", "anytls", "hysteria2", "vmess"}
TlsDomainProtocols == {"anytls", "hysteria2", "vmess"}
ChainProtocols == {"vless", "shadowsocks", "hysteria2", "vmess"}

-----------------------------------------------------------------------------
(* REALITY targets.                                                        *)

reality_dest == IF EnvDest = <<>> THEN DefaultDest ELSE EnvDest

reality_server_name == IF EnvSni # "" THEN EnvSni ELSE reality_dest[1]

\* The target and server name of a row: what is stored, else the process's.
reality_settings(row) ==
    [dest |-> IF row.dest = <<>> THEN reality_dest ELSE row.dest,
     sni  |-> IF row.sni # "" THEN row.sni
              ELSE IF row.dest # <<>> THEN row.dest[1] ELSE reality_server_name]

\* <<target, server name>> pairs for the automatic choice; a target counts once.
reality_candidates ==
    LET single == EnvDest # <<>> /\ (EnvDest # DefaultDest \/ EnvSni # "")
        raw == IF EnvCandidates # <<>> THEN EnvCandidates
               ELSE IF single THEN <<EnvDest>> ELSE DefaultCandidates
        sni(i) == IF i = 1 /\ EnvCandidates = <<>> /\ EnvSni # "" THEN EnvSni ELSE raw[i][1]
    IN  {<<raw[i], sni(i)>> : i \in {k \in DOMAIN raw : \A j \in 1..(k - 1) : raw[j] # raw[k]}}

-----------------------------------------------------------------------------
(* Inbounds.                                                               *)

NoTls == [mode |-> "none"]

reality_tls(row) ==
    LET s == reality_settings(row)
    IN  [mode |-> "reality", name |-> s.sni, dest |-> s.dest, key |-> row.key, sid |-> row.sid]

self_signed_tls == [mode |-> "file"]

\* ACME when a domain is set, else the certificate of the service's directory.
tls_from_domain(row) ==
    IF row.domain # "" THEN [mode |-> "acme", name |-> row.domain] ELSE self_signed_tls

Inbound(type, port, users, psk, obfs, tls) ==
    [type |-> type, port |-> port, users |-> users, psk |-> psk, obfs |-> obfs, tls |-> tls]

vless_reality_inbound(row, users) == Inbound("vless", row.port, users, 0, 0, reality_tls(row))
shadowsocks_inbound(row, users)   == Inbound("shadowsocks", row.port, users, row.ss, 0, NoTls)
anytls_inbound(row, users)        == Inbound("anytls", row.port, users, 0, 0, tls_from_domain(row))
hysteria2_inbound(row, users) ==
    Inbound("hysteria2", row.port, users, 0, row.obfs, tls_from_domain(row))
vmess_inbound(row, users)         == Inbound("vmess", row.port, users, 0, 0, tls_from_domain(row))

\* The builders raise when a secret of their protocol is missing.
SecretsPresent(row) ==
    /\ row.protocol = "vless" => row.key # 0 /\ row.sid # 0
    /\ row.protocol = "shadowsocks" => row.ss # 0
    /\ row.protocol = "hysteria2" => row.obfs # 0

build_node_config(row, users) ==
    CASE row.protocol = "vless"       -> vless_reality_inbound(row, users)
      [] row.protocol = "shadowsocks" -> shadowsocks_inbound(row, users)
      [] row.protocol = "anytls"      -> anytls_inbound(row, users)
      [] row.protocol = "hysteria2"   -> hysteria2_inbound(row, users)
      [] row.protocol = "vmess"       -> vmess_inbound(row, users)

-----------------------------------------------------------------------------
(* What dials: a Mihomo proxy, or the outbound of a hop.                   *)

BareProxy ==
    [type |-> "", server |-> "", port |-> 0, cred |-> <<>>, psk |-> 0, obfs |-> 0,
     tls |-> FALSE, sni |-> "", pbk |-> 0, sid |-> 0, skip |-> FALSE, pin |-> 0]

Direct == [BareProxy EXCEPT !.type = "direct"]

\* A hop accepts the previous one: with one user, or in Shadowsocks with the
\* server's password alone, which the empty credential stands for.
chain_inbound(hop) ==
    CASE hop.protocol = "shadowsocks" -> Inbound("shadowsocks", hop.port, {<<>>}, hop.ss, 0, NoTls)
      [] hop.protocol = "hysteria2" ->
           Inbound("hysteria2", hop.port, {<<"hy2", hop.hy2>>}, 0, 0, self_signed_tls)
      [] hop.protocol = "vmess" -> Inbound("vmess", hop.port, {<<"uuid", hop.uuid>>}, 0, 0, NoTls)
      [] hop.protocol = "vless" ->
           Inbound("vless", hop.port, {<<"uuid", hop.uuid>>}, 0, 0, reality_tls(hop))

HopSecretsPresent(hop) ==
    CASE hop.protocol = "shadowsocks" -> hop.ss # 0
      [] hop.protocol = "hysteria2"   -> hop.hy2 # 0 /\ hop.service
      [] hop.protocol = "vmess"       -> hop.uuid # 0
      [] hop.protocol = "vless"       -> hop.key # 0

chain_outbound(next) ==
    LET to == [BareProxy EXCEPT !.type = next.protocol, !.server = next.host, !.port = next.port]
    IN  CASE next.protocol = "shadowsocks" -> [to EXCEPT !.psk = next.ss]
          [] next.protocol = "hysteria2" ->
               [to EXCEPT !.cred = <<"hy2", next.hy2>>, !.tls = TRUE, !.skip = TRUE]
          [] next.protocol = "vmess" -> [to EXCEPT !.cred = <<"uuid", next.uuid>>]
          [] next.protocol = "vless" ->
               [to EXCEPT !.cred = <<"uuid", next.uuid>>, !.tls = TRUE,
                          !.sni = reality_settings(next).sni, !.pbk = next.key, !.sid = next.sid]

-----------------------------------------------------------------------------
(* Share links.                                                            *)

Link(scheme, host, port, cred, name) ==
    [scheme |-> scheme, host |-> host, port |-> port, cred |-> cred, name |-> name, psk |-> 0,
     pbk |-> 0, sid |-> 0, sni |-> "", tls |-> FALSE, insecure |-> FALSE, pin |-> 0, obfs |-> 0]

vless_reality_share_link(cred, host, port, name, key, sid, sni) ==
    [Link("vless", host, port, cred, name) EXCEPT !.pbk = key, !.sid = sid, !.sni = sni, !.tls = TRUE]

ss_share_link(psk, cred, host, port, name) == [Link("ss", host, port, cred, name) EXCEPT !.psk = psk]

\* Mutant: a link without a pin is handed out.
Pinned_optional(link, domain, pin) ==
    [link EXCEPT !.tls = TRUE, !.sni = domain, !.insecure = (domain = ""),
                 !.pin = IF domain = "" THEN pin ELSE 0]

\* The TLS links: with a domain its name is verified; without one the link is
\* "insecure" and pins the certificate, and there is no link without the pin.
Pinned(link, domain, pin) ==
    IF domain = "" /\ pin = 0 THEN NoLink
    ELSE [link EXCEPT !.tls = TRUE, !.sni = domain, !.insecure = (domain = ""),
                      !.pin = IF domain = "" THEN pin ELSE 0]

anytls_share_link(cred, host, port, name, domain, pin) ==
    Pinned(Link("anytls", host, port, cred, name), domain, pin)
hy2_share_link(cred, host, port, name, domain, obfs, pin) ==
    Pinned([Link("hy2", host, port, cred, name) EXCEPT !.obfs = obfs], domain, pin)
vmess_share_link(cred, host, port, name, domain, pin) ==
    Pinned(Link("vmess", host, port, cred, name), domain, pin)

default_share_link(row, cred, name) ==
    LET at == IF row.domain # "" THEN row.domain ELSE row.host
    IN  CASE row.protocol = "shadowsocks" -> ss_share_link(row.ss, cred, row.host, row.port, name)
          [] row.protocol = "anytls" -> anytls_share_link(cred, at, row.port, name, row.domain, row.cert)
          [] row.protocol = "hysteria2" ->
               hy2_share_link(cred, at, row.port, name, row.domain, row.obfs, row.cert)
          [] row.protocol = "vmess" -> vmess_share_link(cred, at, row.port, name, row.domain, row.cert)
          [] row.protocol = "vless" ->
               vless_reality_share_link(cred, row.host, row.port, name, row.key, row.sid, row.sni)

-----------------------------------------------------------------------------
(* Subscriptions in the Mihomo format.                                     *)

\* A name is a word and the suffix numbers put behind it: "n", "n 2", "n 2 2".
Name(word) == [word |-> word, suffixes |-> <<>>]
NoName == Name("")
Suffixed(name, k) == [name EXCEPT !.suffixes = Append(name.suffixes, k)]
Reserved == {Name(w) : w \in {"AUTO", "DIRECT", "PROXY", "REJECT"}}

share_link_with_display_name(link, name) ==
    IF name = NoName THEN link ELSE [link EXCEPT !.name = name]

\* The parsers read back what the link carries, and raise on an insecure link
\* without a pin or a VLESS link without a key.
Parsed(link, type) ==
    [BareProxy EXCEPT !.type = type, !.server = link.host, !.port = link.port, !.cred = link.cred]

mihomo_proxy_from_vless(link) ==
    IF ~link.tls \/ link.pbk = 0 THEN NoProxy
    ELSE [Parsed(link, "vless") EXCEPT !.tls = TRUE, !.pbk = link.pbk, !.sid = link.sid, !.sni = link.sni]

mihomo_proxy_from_ss(link) == [Parsed(link, "shadowsocks") EXCEPT !.psk = link.psk]

WithPin(link, proxy) ==
    IF link.insecure /\ link.pin = 0 THEN NoProxy
    ELSE [proxy EXCEPT !.sni = link.sni, !.skip = link.insecure,
                       !.pin = IF link.insecure THEN link.pin ELSE 0]

mihomo_proxy_from_anytls(link) ==
    WithPin(link, [Parsed(link, "anytls") EXCEPT !.tls = TRUE])
mihomo_proxy_from_hy2(link) ==
    WithPin(link, [Parsed(link, "hysteria2") EXCEPT !.tls = TRUE, !.obfs = link.obfs])
mihomo_proxy_from_vmess(link) ==
    IF link.tls THEN WithPin(link, [Parsed(link, "vmess") EXCEPT !.tls = TRUE])
    ELSE Parsed(link, "vmess")

mihomo_proxy_from_link(link) ==
    CASE link.scheme = "ss"     -> mihomo_proxy_from_ss(link)
      [] link.scheme = "anytls" -> mihomo_proxy_from_anytls(link)
      [] link.scheme = "hy2"    -> mihomo_proxy_from_hy2(link)
      [] link.scheme = "vmess"  -> mihomo_proxy_from_vmess(link)
      [] link.scheme = "vless"  -> mihomo_proxy_from_vless(link)

\* The name itself, or with the first suffix from 2 on that makes it unique.
unique_proxy_name(name, used) ==
    IF name \notin used \cup Reserved THEN name
    ELSE LET free == {k \in 2..(Cardinality(used) + 2) : Suffixed(name, k) \notin used \cup Reserved}
         IN  Suffixed(name, CHOOSE k \in free : \A l \in free : k <= l)

\* One link that does not parse fails the rendering; the names in their order.
Renders(links) == \A i \in DOMAIN links : mihomo_proxy_from_link(links[i]) # NoProxy
ProxyNames(links) ==
    LET names[i \in DOMAIN links] ==
          unique_proxy_name(links[i].name, {names[j] : j \in 1..(i - 1)})
    IN  names

-----------------------------------------------------------------------------
(* The installer (provisioning.py).                                        *)

\* Firewall and certificate switches of a node,
node_install_options(row) ==
    [udp |-> row.protocol \in {"shadowsocks", "hysteria2"},
     cert |-> row.protocol \in TlsDomainProtocols /\ row.domain = "",
     acme |-> row.protocol \in TlsDomainProtocols /\ row.domain # ""]

\* Mutant: QUIC is taken for TCP.
chain_install_options_tcp(hop) ==
    [udp |-> hop.protocol = "shadowsocks", cert |-> hop.protocol = "hysteria2", acme |-> FALSE]

\* and of a chain's hop.
chain_install_options(hop) ==
    [udp |-> hop.protocol \in {"shadowsocks", "hysteria2"},
     cert |-> hop.protocol = "hysteria2", acme |-> FALSE]

firewall_rules(port, options) ==
    {<<port, "tcp">>} \cup (IF options.udp THEN {<<port, "udp">>} ELSE {})
                      \cup (IF options.acme THEN {<<80, "tcp">>} ELSE {})

\* A service on a host: the inbound and outbound it runs, its certificate.
\* The certificate is made when it is wanted and missing.
NoService == [inbound |-> NoConfig, outbound |-> Direct, cert |-> 0]
Installed(service, inbound, outbound, options, fresh) ==
    [inbound |-> inbound, outbound |-> outbound,
     cert |-> IF options.cert /\ service.cert = 0 THEN fresh ELSE service.cert]

-----------------------------------------------------------------------------
(* What sing-box does with it: used by the properties.                     *)

\* The inbound of a service lets the dialling proxy in.
Accepts(service, names, p) ==
    LET in == service.inbound
    IN  /\ in # NoConfig
        /\ p.type = in.type /\ p.server \in names /\ p.port = in.port
        /\ p.cred \in in.users /\ p.psk = in.psk /\ p.obfs = in.obfs
        /\ p.tls = (in.tls.mode # "none")
        /\ in.tls.mode = "reality" =>
             p.pbk = in.tls.key /\ p.sid = in.tls.sid /\ p.sni = in.tls.name
        /\ in.tls.mode = "acme" => ~p.skip /\ p.sni = in.tls.name
        /\ in.tls.mode = "file" => p.skip /\ service.cert # 0 /\ p.pin \in {0, service.cert}

\* The ports it listens on, or that its certificate needs.
PortsUsed(in) ==
    (IF in.type = "hysteria2" THEN {<<in.port, "udp">>}
     ELSE IF in.type = "shadowsocks" THEN {<<in.port, "tcp">>, <<in.port, "udp">>}
     ELSE {<<in.port, "tcp">>})
    \cup (IF in.tls.mode = "acme" THEN {<<80, "tcp">>} ELSE {})
=============================================================================
