----------------------------- MODULE ChainHops -----------------------------
(***************************************************************************)
(* A proxy chain over the node of NodeLinks, its entry, and a second node: *)
(* the credentials each hop keeps, the services that are installed from    *)
(* the exit to the entry, and the link of the chain (services/chains.py).  *)
(* A chain is deployed again while its old services run, fails half-way    *)
(* and is rolled back, and the process restarts under it.                  *)
(***************************************************************************)
EXTENDS NodeLinks

CONSTANTS
    HopProtocols, \* protocols of the second hop
    MaxDeploys,   \* deployments of the chain
    MaxCrashes    \* restarts

ASSUME HopsAssumption ==
    HopProtocols \subseteq ChainProtocols /\ MaxDeploys \in Nat /\ MaxCrashes \in Nat

Entry == 1
Exit == 2
Hops == {Entry, Exit}

VARIABLES
    hop,       \* the rows of proxy_chain_nodes
    chain,     \* status and share link of the chain
    run,       \* the worker: the step it is at, and the hop
    hopService,\* the chain's service on each host
    hopOpen,   \* the ports open for it
    deploys, crashes

chainVars == <<hop, chain, run, hopService, hopOpen, deploys, crashes>>
vars == <<nodeVars, chainVars>>

Idling == <<"idle", 0>>

\* create_proxy_chain: the entry is VLESS; no secret is made yet.
NewHop(protocol) == [protocol |-> protocol, port |-> 8443, uuid |-> 0, key |-> 0, sid |-> 0,
                     ss |-> 0, hy2 |-> 0, service |-> FALSE]

ChainInit ==
    /\ hop \in {[h \in Hops |-> NewHop(IF h = Entry THEN "vless" ELSE p)] : p \in HopProtocols}
    /\ chain = [status |-> "planned", link |-> NoLink]
    /\ run = Idling
    /\ hopService = [h \in Hops |-> NoService] /\ hopOpen = [h \in Hops |-> {}]
    /\ deploys = 0 /\ crashes = 0

\* _proxy_chain_full_nodes: a hop joined with its deployment and server.  The
\* second node is no REALITY node of its own and has no target stored.
HostOf(h) == IF h = Entry THEN dep.host ELSE "exit"
FullHop(h) ==
    [protocol |-> hop[h].protocol, port |-> hop[h].port, uuid |-> hop[h].uuid, key |-> hop[h].key,
     sid |-> hop[h].sid, ss |-> hop[h].ss, hy2 |-> hop[h].hy2, service |-> hop[h].service,
     host |-> HostOf(h),
     dest |-> IF h = Entry THEN dep.dest ELSE <<>>, sni |-> IF h = Entry THEN dep.sni ELSE ""]

-----------------------------------------------------------------------------
\* A deployment of the chain starts: over ready nodes, and not twice at once.
start_proxy_chain_deployment ==
    /\ dep.status = "ready" /\ run = Idling /\ deploys < MaxDeploys
    /\ chain' = [chain EXCEPT !.status = "deploying"]
    /\ run' = <<"prepare", Entry>>
    /\ deploys' = deploys + 1
    /\ UNCHANGED <<hop, hopService, hopOpen, crashes>>

\* Mutant: every deployment makes new secrets.
Kept_never(value, fresh) == fresh
Kept(value, fresh) == IF value = 0 THEN fresh ELSE value

\* _prepare_proxy_chain_nodes, hop by hop: what is missing is made, what is
\* there is kept.  Secrets of different hops and deployments differ.

prepare_proxy_chain_node(h) ==
    LET fresh == 10 * deploys + h
        row == hop[h]
        made == CASE row.protocol = "vless" ->
                       [row EXCEPT !.uuid = Kept(row.uuid, fresh), !.sid = Kept(row.sid, fresh),
                                   !.key = Kept(row.key, fresh)]
                  [] row.protocol = "shadowsocks" -> [row EXCEPT !.ss = Kept(row.ss, fresh)]
                  [] row.protocol = "hysteria2"   -> [row EXCEPT !.hy2 = Kept(row.hy2, fresh)]
                  [] row.protocol = "vmess"       -> [row EXCEPT !.uuid = Kept(row.uuid, fresh)]
    IN  /\ run = <<"prepare", h>>
        /\ hop' = [hop EXCEPT ![h] = [made EXCEPT !.service = TRUE]]
        /\ run' = IF h = Exit THEN <<"install", Exit>> ELSE <<"prepare", h + 1>>
        /\ UNCHANGED <<chain, hopService, hopOpen, deploys, crashes>>

\* _install_proxy_chain_service: build_chain_config and the install script,
\* which starts the service
HopPorts(h) == firewall_rules(hop[h].port, chain_install_options(hop[h]))
install_chain_service(h) ==
    LET options == chain_install_options(hop[h])
        outbound == IF h = Exit THEN Direct ELSE chain_outbound(FullHop(h + 1))
    IN  /\ run = <<"install", h>>
        /\ HopSecretsPresent(hop[h])
        /\ hopService' = [hopService EXCEPT
                            ![h] = Installed(@, chain_inbound(FullHop(h)), outbound, options, 10 * deploys + h)]
        /\ run' = <<"open", h>>
        /\ UNCHANGED <<hop, chain, hopOpen, deploys, crashes>>

\* and then opens the firewall for it.
open_chain_ports(h) ==
    /\ run = <<"open", h>>
    /\ hopOpen' = [hopOpen EXCEPT ![h] = @ \cup HopPorts(h)]
    /\ run' = IF h = Entry THEN <<"finish", Entry>> ELSE <<"install", h - 1>>
    /\ UNCHANGED <<hop, chain, hopService, deploys, crashes>>

\* Mutant: the link names the server of REALITY_SNI, not the node's.
chain_share_link_default(h) ==
    vless_reality_share_link(<<"uuid", h.uuid>>, h.host, h.port, Name("chain"), h.key, h.sid,
                             reality_server_name)

chain_share_link(h) ==
    vless_reality_share_link(<<"uuid", h.uuid>>, h.host, h.port, Name("chain"), h.key, h.sid,
                             reality_settings(h).sni)

finish_proxy_chain_deployment ==
    /\ run[1] = "finish"
    /\ chain' = [status |-> "ready", link |-> chain_share_link(FullHop(Entry))]
    /\ run' = Idling
    /\ UNCHANGED <<hop, hopService, hopOpen, deploys, crashes>>

\* A secret is missing, or a script fails, before the service is started or
\* with some of the ports open: the chain is failed,
chain_failed(h) ==
    /\ \/ run = <<"install", h>> /\ (InstallFails \/ ~HopSecretsPresent(hop[h])) /\ UNCHANGED hopOpen
       \/ run = <<"open", h>> /\ InstallFails
          /\ \E some \in SUBSET HopPorts(h) : hopOpen' = [hopOpen EXCEPT ![h] = @ \cup some]
    /\ chain' = [chain EXCEPT !.status = "failed"]
    /\ run' = <<"rollback", Entry>>
    /\ UNCHANGED <<hop, hopService, deploys, crashes>>

\* and all its services are removed, host by host, where the host is reached.
\* The link stays.
rollback_chain_service(h) ==
    /\ run = <<"rollback", h>>
    /\ \/ hop[h].service /\ hopService' = [hopService EXCEPT ![h] = NoService]
       \/ (~hop[h].service \/ InstallFails) /\ UNCHANGED hopService
    /\ run' = IF h = Exit THEN Idling ELSE <<"rollback", h + 1>>
    /\ UNCHANGED <<hop, chain, hopOpen, deploys, crashes>>

\* Mutant: the chain is not recovered.
crash_forgets_chain ==
    /\ crashes < MaxCrashes /\ crashes' = crashes + 1
    /\ dep' = [dep EXCEPT !.status = IF @ = "provisioning" THEN "failed" ELSE @]
    /\ run' = Idling /\ th' = [t \in Threads |-> IdleThread]
    /\ UNCHANGED <<user, service, open, ids, started, early, hop, chain, hopService, hopOpen, deploys>>

\* The process restarts: what was being deployed is failed, nothing is removed.
crash ==
    /\ crashes < MaxCrashes /\ crashes' = crashes + 1
    /\ chain' = [chain EXCEPT !.status = IF @ = "deploying" THEN "failed" ELSE @]
    /\ dep' = [dep EXCEPT !.status = IF @ = "provisioning" THEN "failed" ELSE @]
    /\ run' = Idling /\ th' = [t \in Threads |-> IdleThread]
    /\ UNCHANGED <<user, service, open, ids, started, early, hop, hopService, hopOpen, deploys>>

ChainNext ==
    \/ start_proxy_chain_deployment
    \/ \E h \in Hops : \/ prepare_proxy_chain_node(h)
                      \/ install_chain_service(h) \/ open_chain_ports(h)
                      \/ chain_failed(h) \/ rollback_chain_service(h)
    \/ finish_proxy_chain_deployment

-----------------------------------------------------------------------------
\* The chain only reads the node's row, the node knows nothing of the chain.
Init == NodeInit /\ ChainInit
Next ==
    \/ NodeNext /\ UNCHANGED chainVars
    \/ ChainNext /\ UNCHANGED nodeVars
    \/ crash
Spec == Init /\ [][Next]_vars

-----------------------------------------------------------------------------
(* Properties.                                                             *)

\* Rows, services and threads keep their shapes, and a configuration or a link
\* is only ever handed on by a thread that has rendered it.
TypeOK ==
    /\ dep.protocol \in Protocols /\ dep.status \in {"provisioning", "ready", "failed"}
    /\ \A u \in Users : user[u] # NoRow => user[u].link # NoLink /\ u \in ids
    /\ \A t \in Threads : th[t].pc \in {"push", "record", "i_run", "i_open", "i_ready"} => th[t].cfg # NoConfig
    /\ early \subseteq ids /\ started \in 0..MaxRequests
    /\ chain.status \in {"planned", "deploying", "ready", "failed"}
    /\ (run = Idling) = (chain.status # "deploying" /\ run[1] # "rollback")
    /\ deploys \in 0..MaxDeploys /\ crashes \in 0..MaxCrashes

\* Whenever two neighbouring services of a chain run, the outbound of the one
\* gets into the inbound of the other: also half-way through a redeployment,
\* where one is old and the other new, and after a crash.
HopsConnect ==
    hopService[Entry].inbound # NoConfig /\ hopService[Exit].inbound # NoConfig =>
      Accepts(hopService[Exit], {HostOf(Exit)}, hopService[Entry].outbound)

\* A chain's link that was ever handed out gets into every entry service that
\* is installed later.
ChainLinkFits ==
    chain.link # NoLink /\ hopService[Entry].inbound # NoConfig =>
      Accepts(hopService[Entry], {HostOf(Entry)}, mihomo_proxy_from_link(chain.link))

\* What users are sent to is open: the services of a node that is ready, and
\* those of a chain whose link was ever handed out, also half-way through a
\* redeployment, after its rollback and after a restart.  It does not cover a
\* service that is installed for the first time: it is started before its ports
\* are opened, and stays behind closed ports when the script ends in between
\* and its removal fails.  A service that reads its certificate has one.
Reachable(s, ports) ==
    s.inbound # NoConfig =>
      PortsUsed(s.inbound) \subseteq ports /\ (s.inbound.tls.mode = "file" => s.cert # 0)
PortsOpen ==
    /\ dep.status = "ready" => Reachable(service, open)
    /\ chain.link # NoLink => \A h \in Hops : Reachable(hopService[h], hopOpen[h])
=============================================================================
