----------------------------- MODULE NodeLinks -----------------------------
(***************************************************************************)
(* One node and the share links of its users: the row of a deployment as   *)
(* it is filled in by the request that starts it, by the choice of the     *)
(* REALITY target and by the installer (services/teardown.py,              *)
(* services/deployments.py), and the users who are created and updated     *)
(* meanwhile with links rendered from the row they read                    *)
(* (services/clients.py).                                                  *)
(*                                                                         *)
(* ConfigSync has the users of a node, the sweep, and the pushes that fail *)
(* or overtake each other; here is what is pushed, and what is handed out. *)
(***************************************************************************)
EXTENDS SingBox

CONSTANTS
    Users,        \* ids of client rows
    Requests,     \* request threads
    Installer,    \* the worker of the deployment's job
    ManualTargets,\* <<target, server name>> pairs a user may enter
    MaxRequests,  \* requests in a behaviour
    InstallFails, \* whether scripts may fail
    Displays,     \* display names a subscription may give its entries
    NoUser, NoRow, NoDep

Threads == Requests \cup {Installer}

ASSUME ThreadsAssumption == Installer \notin Requests
ASSUME TargetsAssumption == \A p \in ManualTargets : p[1] # <<>> /\ p[2] # ""
ASSUME DisplaysAssumption ==
    \A name \in Displays : DOMAIN name = {"word", "suffixes"} /\ name.suffixes \in Seq(Nat)
ASSUME LimitsAssumption == MaxRequests \in Nat /\ InstallFails \in BOOLEAN

VARIABLES
    dep,      \* the row of deployments, joined with its server
    user,     \* clients
    service,  \* the node's service on the host
    open,     \* the ports its firewall lets in
    th,       \* the threads
    ids,      \* the ids new_id has given out
    started,  \* requests so far
    early     \* history: users whose link was rendered before the target was chosen

nodeVars == <<dep, user, service, open, th, ids, started, early>>

\* A thread: the user and row it works on, the deployment it read, the
\* configuration it rendered, the fingerprint the installer printed.
IdleThread ==
    [pc |-> "idle", user |-> NoUser, row |-> NoRow, dep |-> NoDep, cfg |-> NoConfig, pin |-> 0]
Idle(t) == th[t].pc = "idle"
Goto(t, next) == th' = [th EXCEPT ![t] = next]

-----------------------------------------------------------------------------
(* The deployment's row.                                                   *)

\* start_deployment: protocol, domain and target come from the payload, the
\* secrets are made here.  In the automatic mode the target is still empty.
NewDeployment(protocol, domain, mode, dest, sni) ==
    [protocol |-> protocol, domain |-> domain, mode |-> mode, dest |-> dest, sni |-> sni,
     host |-> "node", port |-> 443,
     key |-> IF protocol = "vless" THEN 1 ELSE 0, sid |-> IF protocol = "vless" THEN 2 ELSE 0,
     ss |-> IF protocol = "shadowsocks" THEN 3 ELSE 0,
     obfs |-> IF protocol = "hysteria2" THEN 4 ELSE 0,
     cert |-> 0, hash |-> NoConfig, status |-> "provisioning"]

NewDeployments ==
    {NewDeployment("vless", "", "auto", <<>>, "")}
    \cup {NewDeployment("vless", "", "manual", p[1], p[2]) : p \in ManualTargets}
    \cup {NewDeployment("shadowsocks", "", "manual", <<>>, "")}
    \cup {NewDeployment(p, "", "manual", <<>>, "") : p \in TlsDomainProtocols}
    \cup {NewDeployment(p, "domain", "manual", <<>>, "") : p \in TlsDomainProtocols}

\* get_deployment: the row with the defaults of the process filled in, unless
\* the automatic choice is still to come.
SelectionPending(row) == row.mode = "auto" /\ row.dest = <<>>
get_deployment ==
    IF SelectionPending(dep) THEN dep
    ELSE [dep EXCEPT !.dest = reality_settings(dep).dest, !.sni = reality_settings(dep).sni]

NodeInit ==
    /\ dep \in NewDeployments
    /\ user = [u \in Users |-> NoRow]
    /\ service = NoService /\ open = {}
    /\ th = [t \in Threads |->
               IF t # Installer THEN IdleThread
               ELSE [IdleThread EXCEPT
                       !.pc = IF dep.protocol = "vless" THEN "i_resolve" ELSE "i_render"]]
    /\ ids = {} /\ started = 0 /\ early = {}

-----------------------------------------------------------------------------
(* Rendering for the users.                                                *)

\* What authenticates a user, from the columns of his row.
Cred(u, row) ==
    CASE dep.protocol = "shadowsocks" -> row.ss
      [] dep.protocol \in {"anytls", "hysteria2"} -> row.auth
      [] OTHER -> <<"uuid", u>>

\* create_client makes the password of the protocol; the link is rendered from
\* the deployment the request read.
NewRow(u, enabled) ==
    [enabled |-> enabled, link |-> NoLink,
     ss |-> IF dep.protocol = "shadowsocks" THEN <<"ss", u>> ELSE <<>>,
     auth |-> IF dep.protocol \in {"anytls", "hysteria2"} THEN <<"auth", u>> ELSE <<>>]
WithLink(u, row, read) ==
    [row EXCEPT !.link = default_share_link(read, Cred(u, row), Name(u))]

\* Who is active; AnyTLS and Hysteria2 users without a password are left out.
active_client_users ==
    {Cred(u, user[u]) : u \in {v \in Users :
        /\ user[v] # NoRow /\ user[v].enabled
        /\ dep.protocol \in {"anytls", "hysteria2"} => user[v].auth # <<>>}}

-----------------------------------------------------------------------------
(* Users.                                                                  *)

Begin(t) == /\ t \in Requests /\ Idle(t) /\ started < MaxRequests
            /\ started' = started + 1

\* create_client: read the deployment and render the link; without a pin for a
\* self-signed certificate that raises.
create_client(t, u) ==
    LET read == get_deployment
        row == WithLink(u, NewRow(u, TRUE), read)
    IN  /\ Begin(t)
        /\ u \notin ids /\ ids' = ids \cup {u}
        /\ Goto(t, IF row.link = NoLink THEN IdleThread
                   ELSE [IdleThread EXCEPT !.user = u, !.row = row, !.dep = read,
                           !.pc = IF read.status = "ready" THEN "render_new" ELSE "insert"])
        /\ UNCHANGED <<dep, user, service, open, early>>

render_with_new_user(t) ==
    /\ th[t].pc = "render_new"
    /\ LET new == Cred(th[t].user, th[t].row)
       IN  Goto(t, [th[t] EXCEPT !.pc = "push",
                      !.cfg = build_node_config(th[t].dep, active_client_users \cup {new})])
    /\ UNCHANGED <<dep, user, service, open, ids, started, early>>

Early(t) == IF SelectionPending(th[t].dep) THEN early \cup {th[t].user}
                                           ELSE early \ {th[t].user}

insert_client(t) ==
    /\ th[t].pc = "insert"
    /\ user' = [user EXCEPT ![th[t].user] = th[t].row]
    /\ dep' = IF th[t].cfg = NoConfig THEN dep ELSE [dep EXCEPT !.hash = th[t].cfg]
    /\ early' = Early(t)
    /\ Goto(t, IdleThread)
    /\ UNCHANGED <<service, open, ids, started>>

\* update_client: the link is rendered again, with what is then known,
update_client(t, u, enabled) ==
    LET read == get_deployment
        row == WithLink(u, [user[u] EXCEPT !.enabled = enabled], read)
    IN  /\ user[u] # NoRow
        /\ Begin(t)
        /\ Goto(t, IF row.link = NoLink THEN IdleThread
                   ELSE [IdleThread EXCEPT !.pc = "write", !.user = u, !.row = row, !.dep = read])
        /\ UNCHANGED <<dep, user, service, open, ids, early>>

\* Mutant: an update keeps the link.
write_client_keeps_link(t) ==
    /\ th[t].pc = "write"
    /\ user' = [user EXCEPT ![th[t].user].enabled = th[t].row.enabled]
    /\ early' = Early(t)
    /\ Goto(t, [IdleThread EXCEPT !.pc = "apply"])
    /\ UNCHANGED <<dep, service, open, ids, started>>

\* and written with the row.
write_client(t) ==
    /\ th[t].pc = "write"
    /\ user' = [user EXCEPT ![th[t].user] = th[t].row]
    /\ early' = Early(t)
    /\ Goto(t, [IdleThread EXCEPT !.pc = "apply"])
    /\ UNCHANGED <<dep, service, open, ids, started>>

\* _apply_node_config reads the deployment,
apply_node_config(t) ==
    /\ th[t].pc = "apply"
    /\ Goto(t, IF dep.status # "ready" THEN IdleThread
               ELSE [IdleThread EXCEPT !.pc = "render", !.dep = get_deployment])
    /\ UNCHANGED <<dep, user, service, open, ids, started, early>>

\* renders, compares with the hash it read, pushes and records.
render_node_config(t) ==
    /\ th[t].pc = "render"
    /\ LET cfg == build_node_config(th[t].dep, active_client_users)
       IN  Goto(t, IF cfg = th[t].dep.hash THEN IdleThread
                   ELSE [th[t] EXCEPT !.pc = "push", !.cfg = cfg])
    /\ UNCHANGED <<dep, user, service, open, ids, started, early>>

\* The push script rewrites the configuration and nothing else: the service's
\* directory with its certificate and the firewall stay.
push_ok(t) ==
    /\ th[t].pc = "push"
    /\ service' = [service EXCEPT !.inbound = th[t].cfg]
    /\ Goto(t, [th[t] EXCEPT !.pc = IF th[t].user = NoUser THEN "record" ELSE "insert"])
    /\ UNCHANGED <<dep, user, open, ids, started, early>>

push_failed(t) ==
    /\ th[t].pc = "push" /\ InstallFails
    /\ Goto(t, IdleThread)
    /\ UNCHANGED <<dep, user, service, open, ids, started, early>>

record_config_hash(t) ==
    /\ th[t].pc = "record"
    /\ dep' = [dep EXCEPT !.hash = th[t].cfg]
    /\ Goto(t, IdleThread)
    /\ UNCHANGED <<user, service, open, ids, started, early>>

-----------------------------------------------------------------------------
(* The installer.                                                          *)

\* _resolve_reality_target: the probe picks the first pair that passes.
resolve_reality_target ==
    /\ th[Installer].pc = "i_resolve"
    /\ \E p \in IF dep.mode = "manual"
                THEN {<<reality_settings(dep).dest, reality_settings(dep).sni>>}
                ELSE reality_candidates :
         dep' = [dep EXCEPT !.dest = p[1], !.sni = p[2]]
    /\ Goto(Installer, [IdleThread EXCEPT !.pc = "i_render"])
    /\ UNCHANGED <<user, service, open, ids, started, early>>

\* The deployment is read again, and rendered.
install_render ==
    /\ th[Installer].pc = "i_render" /\ SecretsPresent(dep)
    /\ Goto(Installer, [IdleThread EXCEPT !.pc = "i_run",
                          !.cfg = build_node_config(get_deployment, active_client_users)])
    /\ UNCHANGED <<dep, user, service, open, ids, started, early>>

\* The install script: certificate, configuration and unit, and the service is
\* started,
install_service ==
    LET options == node_install_options(dep)
    IN  /\ th[Installer].pc = "i_run"
        /\ service' = Installed(service, th[Installer].cfg, Direct, options, 5)
        /\ Goto(Installer, [th[Installer] EXCEPT !.pc = "i_open"])
        /\ UNCHANGED <<dep, user, open, ids, started, early>>

\* then the firewall is opened for it.  The script has printed the fingerprint
\* of the certificate.
NodePorts == firewall_rules(dep.port, node_install_options(dep))
install_ports ==
    /\ th[Installer].pc = "i_open"
    /\ open' = open \cup NodePorts
    /\ Goto(Installer, [th[Installer] EXCEPT !.pc = "i_ready",
                          !.pin = IF node_install_options(dep).cert THEN service.cert ELSE 0])
    /\ UNCHANGED <<dep, user, service, ids, started, early>>

PinNeeded == dep.protocol \in TlsDomainProtocols /\ dep.domain = ""

install_ready ==
    /\ th[Installer].pc = "i_ready"
    /\ PinNeeded => th[Installer].pin # 0
    /\ dep' = [dep EXCEPT !.status = "ready", !.hash = th[Installer].cfg, !.cert = th[Installer].pin]
    /\ Goto(Installer, IdleThread)
    /\ UNCHANGED <<user, service, open, ids, started, early>>

\* No target passes, the script fails before the service is started or with
\* some of the ports open, or it prints no fingerprint: the node fails, and what
\* was installed is removed if the host can be reached; the ports stay open.
install_failed ==
    /\ \/ th[Installer].pc \in {"i_resolve", "i_run", "i_open"} /\ InstallFails
       \/ th[Installer].pc = "i_render" /\ ~SecretsPresent(dep)
       \/ th[Installer].pc = "i_ready" /\ PinNeeded /\ th[Installer].pin = 0
    /\ dep' = [dep EXCEPT !.status = "failed"]
    /\ service' \in {service, NoService}
    /\ \/ UNCHANGED open
       \/ th[Installer].pc = "i_open" /\ \E some \in SUBSET NodePorts : open' = open \cup some
    /\ Goto(Installer, IdleThread)
    /\ UNCHANGED <<user, ids, started, early>>

-----------------------------------------------------------------------------
Apply(t) == apply_node_config(t) \/ render_node_config(t) \/ push_ok(t) \/ push_failed(t)
            \/ record_config_hash(t)

NodeNext ==
    \/ \E t \in Requests, u \in Users :
         create_client(t, u) \/ \E enabled \in BOOLEAN : update_client(t, u, enabled)
    \/ \E t \in Requests :
         render_with_new_user(t) \/ insert_client(t) \/ write_client(t) \/ Apply(t)
    \/ resolve_reality_target \/ install_render \/ install_service \/ install_ports
    \/ install_ready \/ install_failed

-----------------------------------------------------------------------------
(* Properties.                                                             *)

\* The names a link may use for the node's host.
NodeNames == {dep.host} \cup ({dep.domain} \ {""})

\* The link of every user the node accepts, imported into a client, gets in:
\* endpoint, credential, obfuscation, server name or pinned certificate are
\* those the node runs with, whatever the order of requests and installer.
\* Not so for a link rendered before the REALITY target was chosen, until the
\* user is updated (services/clients.py, create_client).
LinksConnect ==
    dep.status = "ready" /\ service.inbound # NoConfig =>
      \A u \in Users \ early :
        user[u] # NoRow /\ Cred(u, user[u]) \in service.inbound.users =>
          Accepts(service, NodeNames, mihomo_proxy_from_link(user[u].link))

\* A subscription over any of the stored links, in any order and with any
\* display names, renders in the Mihomo format: no stored link makes it raise,
\* and no two proxies, or a proxy and a group, share a name.
SubscriptionRenders ==
    LET active == {u \in Users : user[u] # NoRow /\ user[u].enabled}
    IN  \A order \in {f \in [1..Cardinality(active) -> active] :
                        {f[i] : i \in DOMAIN f} = active}, shown \in [Users -> Displays] :
          LET links == [i \in DOMAIN order |->
                          share_link_with_display_name(user[order[i]].link, shown[order[i]])]
              names == ProxyNames(links)
          IN  /\ Renders(links)
              /\ \A i, j \in DOMAIN links : names[i] = names[j] => i = j
              /\ \A i \in DOMAIN links : names[i] \notin Reserved
=============================================================================
