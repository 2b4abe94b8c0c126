------------------------------ MODULE Catalog ------------------------------
(***************************************************************************)
(* The rows that requests create, select and delete beside each other:     *)
(* deployments and their users, proxy chains with the endpoints they       *)
(* reserve (services/chains.py), the managed subscriptions that select     *)
(* users and chains (services/subscriptions.py) and the older subscription *)
(* of a deployment (services/clients.py), with the tokens that serve them. *)
(*                                                                         *)
(* A request reads and checks first, outside a transaction, and writes in  *)
(* one transaction later.  What it read may be gone by then: foreign keys  *)
(* make the transaction fail, or a cascade removes what was selected.      *)
(* Jobs, what they lock out (a chain under a job is neither deleted nor    *)
(* rotated) and remote services are in NodeJobs; here a deployment becomes *)
(* ready and a chain gets its link in one step.  The subscriptions named   *)
(* after a deployment, which only databases of older versions have, are    *)
(* left out (clients.py:226-243, subscriptions.py:262-282).                *)
(***************************************************************************)
EXTENDS Naturals, FiniteSets

CONSTANTS
    Deps, Chains, Users, Subs,  \* ids of rows
    Hosts, Ports,
    Host, SshPort, \* the host and SSH port of a deployment's server: two servers may share a host
    NodeOf,        \* the deployment of a user
    Threads,       \* request threads
    MaxRequests,   \* requests that select, in a behaviour
    NoRow, NoUrl

ASSUME HostAssumption == Host \in [Deps -> Hosts] /\ SshPort \in [Deps -> Ports]
ASSUME NodeAssumption == NodeOf \in [Users -> Deps]
ASSUME LimitAssumption == MaxRequests \in Nat

Tokens == Nat

\* A chain's node is a deployment and the port it listens on.
Nodes == Deps \X Ports
ChainRows == [nodes : SUBSET Nodes, token : Tokens, linked : BOOLEAN]
SubRows == [token : Tokens, users : SUBSET Users, chains : SUBSET Chains]

ASSUME NullAssumption ==
    NoRow \notin ChainRows \cup SubRows \cup Ports /\ \A users \in SUBSET Users : NoUrl # users

VARIABLES
    proxy,    \* deployments: the proxy port, or no row
    ready,    \* deployments with status ready
    client,   \* clients: the ids that have rows
    chain,    \* proxy_chains and proxy_chain_nodes
    sub,      \* subscriptions and the entries of each
    nodeSub,  \* the deployment's own subscription: its entries, NoUrl when not set up
    th,       \* the threads
    ids,      \* ids new_id has given out
    minted,   \* tokens made so far
    revoked,  \* history: tokens that a rotation has replaced or a deletion removed
    started

vars == <<proxy, ready, client, chain, sub, nodeSub, th, ids, minted, revoked, started>>

\* A thread: its step, the row it works on, what it selected, what it read.
Thread(pc, id, nodes, users, chains) ==
    [pc |-> pc, id |-> id, nodes |-> nodes, users |-> users, chains |-> chains]
IdleThread == Thread("idle", NoRow, {}, {}, {})
Goto(t, next) == th' = [th EXCEPT ![t] = next]

DepRow(d) == proxy[d] # NoRow
ChainRow(c) == chain[c] # NoRow
SubRow(s) == sub[s] # NoRow

Init ==
    /\ proxy = [d \in Deps |-> NoRow] /\ ready = {} /\ client = {}
    /\ chain = [c \in Chains |-> NoRow] /\ sub = [s \in Subs |-> NoRow]
    /\ nodeSub = [d \in Deps |-> NoUrl]
    /\ th = [t \in Threads |-> IdleThread]
    /\ ids = {} /\ minted = 0 /\ revoked = {} /\ started = 0

Begin(t) == /\ th[t].pc = "idle" /\ started < MaxRequests
            /\ started' = started + 1

\* Mutant: the PRAGMA is missing.
ForeignKeys_off(p) == TRUE
\* The connection has foreign keys on: a row that refers to a missing one fails
\* its transaction.
ForeignKeys(p) == p

-----------------------------------------------------------------------------
(* Deployments and their users.                                            *)

\* A deployment's port is compared with no chain.
start_deployment(d, p) ==
    /\ d \notin ids /\ ids' = ids \cup {d}
    /\ proxy' = [proxy EXCEPT ![d] = p]
    /\ UNCHANGED <<ready, client, chain, sub, nodeSub, th, minted, revoked, started>>

deployment_ready(d) ==
    /\ DepRow(d) /\ d \notin ready /\ ready' = ready \cup {d}
    /\ UNCHANGED <<proxy, client, chain, sub, nodeSub, th, ids, minted, revoked, started>>

\* create_client reads the deployment, and inserts the user with an entry in
\* the deployment's subscription if it had one when it was read.
create_client(t, u) ==
    /\ Begin(t)
    /\ DepRow(NodeOf[u]) /\ u \notin ids /\ ids' = ids \cup {u}
    /\ Goto(t, Thread("insert_client", u, {}, IF nodeSub[NodeOf[u]] # NoUrl THEN {u} ELSE {}, {}))
    /\ UNCHANGED <<proxy, ready, client, chain, sub, nodeSub, minted, revoked>>

insert_client(t) ==
    LET u == th[t].id
        d == NodeOf[u]
    IN  /\ th[t].pc = "insert_client"
        /\ IF ForeignKeys(DepRow(d))
           THEN /\ client' = client \cup {u}
                /\ nodeSub' = IF th[t].users = {} THEN nodeSub ELSE [nodeSub EXCEPT ![d] = @ \cup {u}]
           ELSE UNCHANGED <<client, nodeSub>>
        /\ Goto(t, IdleThread)
        /\ UNCHANGED <<proxy, ready, chain, sub, ids, minted, revoked, started>>

\* What the deletion of a deployment leaves of a chain: the trigger removes
\* the whole chain with any of its nodes.
CascadeChain(c, d) ==
    IF ChainRow(c) /\ \A n \in chain[c].nodes : n[1] # d THEN chain[c] ELSE NoRow

\* Deleting a deployment, with the cascades to its users and the entries.
\* delete_server does this for its deployments in one transaction.
delete_deployment(d) ==
    LET users == {u \in Users : NodeOf[u] = d}
        gone == {c \in Chains : ChainRow(c) /\ CascadeChain(c, d) = NoRow}
    IN  /\ DepRow(d)
        /\ proxy' = [proxy EXCEPT ![d] = NoRow] /\ ready' = ready \ {d}
        /\ client' = client \ users
        /\ chain' = [c \in Chains |-> CascadeChain(c, d)]
        /\ sub' = [s \in Subs |-> IF ~SubRow(s) THEN NoRow
                     ELSE [sub[s] EXCEPT !.users = @ \ users, !.chains = @ \ gone]]
        /\ nodeSub' = [e \in Deps |-> IF e = d \/ nodeSub[e] = NoUrl THEN NoUrl
                                      ELSE nodeSub[e] \ users]
        /\ revoked' = revoked \cup {chain[c].token : c \in gone}
        /\ UNCHANGED <<th, ids, minted, started>>

-----------------------------------------------------------------------------
(* Proxy chains.                                                           *)

\* create_proxy_chain: the deployments are read and checked,
create_proxy_chain(t, c, nodes) ==
    /\ Begin(t)
    /\ c \notin ids /\ ids' = ids \cup {c}
    /\ Cardinality(nodes) \in 2..6
    /\ \A m, n \in nodes : m[1] = n[1] => m = n
    /\ \A n \in nodes : n[1] \in ready
    /\ Goto(t, Thread("insert_chain", c, nodes, {}, {}))
    /\ UNCHANGED <<proxy, ready, client, chain, sub, nodeSub, minted, revoked>>

Endpoint(n) == <<Host[n[1]], n[2]>>
ChainEndpoints == UNION {{Endpoint(n) : n \in chain[c].nodes} : c \in {b \in Chains : ChainRow(b)}}

\* Mutant: only the chain's own ports are compared.
PortsAvailable_own(nodes) ==
    /\ \A n \in nodes : n[2] # SshPort[n[1]] /\ n[2] # proxy[n[1]]
    /\ \A m, n \in nodes : Endpoint(m) = Endpoint(n) => m = n

\* _assert_proxy_chain_ports_available: an endpoint is used once, and is not
\* that of SSH, of a proxy or of another chain on the same host.  Only servers
\* with a deployment are in the model.
PortsAvailable(nodes) ==
    /\ \A n \in nodes : n[2] # SshPort[n[1]] /\ n[2] # proxy[n[1]]
    /\ \A m, n \in nodes : Endpoint(m) = Endpoint(n) => m = n
    /\ \A n \in nodes :
         /\ \A d \in Deps : DepRow(d) => Endpoint(n) \notin {<<Host[d], SshPort[d]>>, <<Host[d], proxy[d]>>}
         /\ Endpoint(n) \notin ChainEndpoints

\* and the ports inside the transaction that inserts the rows.
insert_chain(t) ==
    LET nodes == th[t].nodes
    IN  /\ th[t].pc = "insert_chain"
        /\ IF PortsAvailable(nodes) /\ ForeignKeys(\A n \in nodes : DepRow(n[1]))
           THEN chain' = [chain EXCEPT ![th[t].id] =
                            [nodes |-> nodes, token |-> minted, linked |-> FALSE]]
           ELSE UNCHANGED chain
        /\ minted' = minted + 1
        /\ Goto(t, IdleThread)
        /\ UNCHANGED <<proxy, ready, client, sub, nodeSub, ids, revoked, started>>

\* A deployment of the chain succeeds; the link is there to stay.
finish_proxy_chain_deployment(c) ==
    /\ ChainRow(c) /\ ~chain[c].linked
    /\ chain' = [chain EXCEPT ![c].linked = TRUE]
    /\ UNCHANGED <<proxy, ready, client, sub, nodeSub, th, ids, minted, revoked, started>>

delete_proxy_chain(c) ==
    /\ ChainRow(c)
    /\ chain' = [chain EXCEPT ![c] = NoRow]
    /\ sub' = [s \in Subs |-> IF ~SubRow(s) THEN NoRow ELSE [sub[s] EXCEPT !.chains = @ \ {c}]]
    /\ revoked' = revoked \cup {chain[c].token}
    /\ UNCHANGED <<proxy, ready, client, nodeSub, th, ids, minted, started>>

\* rotate_proxy_chain_token: the row is read, then updated if it is still there.
rotate_proxy_chain_token(t, c) ==
    /\ Begin(t) /\ ChainRow(c)
    /\ Goto(t, Thread("rotate_chain", c, {}, {}, {}))
    /\ UNCHANGED <<proxy, ready, client, chain, sub, nodeSub, ids, minted, revoked>>

write_chain_token(t) ==
    LET c == th[t].id
    IN  /\ th[t].pc = "rotate_chain"
        /\ chain' = IF ChainRow(c) THEN [chain EXCEPT ![c].token = minted] ELSE chain
        /\ revoked' = IF ChainRow(c) THEN revoked \cup {chain[c].token} ELSE revoked
        /\ minted' = minted + 1
        /\ Goto(t, IdleThread)
        /\ UNCHANGED <<proxy, ready, client, sub, nodeSub, ids, started>>

-----------------------------------------------------------------------------
(* Managed subscriptions.                                                  *)

\* create_subscription: a new token, nothing selected.
create_subscription(s) ==
    /\ s \notin ids /\ ids' = ids \cup {s}
    /\ sub' = [sub EXCEPT ![s] = [token |-> minted, users |-> {}, chains |-> {}]]
    /\ minted' = minted + 1
    /\ UNCHANGED <<proxy, ready, client, chain, nodeSub, th, revoked, started>>

\* Mutant: a chain without a link can be selected.
update_managed_subscription_unready(t, s, users, chains) ==
    /\ Begin(t) /\ SubRow(s)
    /\ users \subseteq client /\ \A c \in chains : ChainRow(c)
    /\ Goto(t, Thread("update_sub", s, {}, users, chains))
    /\ UNCHANGED <<proxy, ready, client, chain, sub, nodeSub, ids, minted, revoked>>

\* update_managed_subscription reads users and chains: those selected must be
\* there, and a chain must have its link.
update_managed_subscription(t, s, users, chains) ==
    /\ Begin(t) /\ SubRow(s)
    /\ users \subseteq client
    /\ \A c \in chains : ChainRow(c) /\ chain[c].linked
    /\ Goto(t, Thread("update_sub", s, {}, users, chains))
    /\ UNCHANGED <<proxy, ready, client, chain, sub, nodeSub, ids, minted, revoked>>

\* A payload without chains keeps the entries read here.
update_managed_subscription_users(t, s, users) ==
    /\ Begin(t) /\ SubRow(s)
    /\ users \subseteq client
    /\ Goto(t, Thread("update_sub", s, {}, users, sub[s].chains))
    /\ UNCHANGED <<proxy, ready, client, chain, sub, nodeSub, ids, minted, revoked>>

\* All entries are replaced in one transaction.  Without entries the update of
\* a deleted subscription does nothing.
write_subscription(t) ==
    LET s == th[t].id
        refs == th[t].users \subseteq client /\ \A c \in th[t].chains : ChainRow(c)
    IN  /\ th[t].pc = "update_sub"
        /\ sub' = IF SubRow(s) /\ ForeignKeys(refs)
                  THEN [sub EXCEPT ![s].users = th[t].users, ![s].chains = th[t].chains]
                  ELSE sub
        /\ Goto(t, IdleThread)
        /\ UNCHANGED <<proxy, ready, client, chain, nodeSub, ids, minted, revoked, started>>

\* Mutant: the wrong table is updated.
rotate_subscription_token_chain(t, s) ==
    /\ Begin(t) /\ SubRow(s)
    /\ Goto(t, Thread("rotate_chain", s, {}, {}, {}))
    /\ UNCHANGED <<proxy, ready, client, chain, sub, nodeSub, ids, minted, revoked>>

\* rotate_subscription_token: read, then write.
rotate_subscription_token(t, s) ==
    /\ Begin(t) /\ SubRow(s)
    /\ Goto(t, Thread("rotate_sub", s, {}, {}, {}))
    /\ UNCHANGED <<proxy, ready, client, chain, sub, nodeSub, ids, minted, revoked>>

\* Mutant: the token that was given out is kept beside the new one.
write_subscription_token_lost(t) ==
    /\ th[t].pc = "rotate_sub"
    /\ revoked' = IF SubRow(th[t].id) THEN revoked \cup {sub[th[t].id].token} ELSE revoked
    /\ minted' = minted + 1
    /\ Goto(t, IdleThread)
    /\ UNCHANGED <<proxy, ready, client, chain, sub, nodeSub, ids, started>>

write_subscription_token(t) ==
    LET s == th[t].id
    IN  /\ th[t].pc = "rotate_sub"
        /\ sub' = IF SubRow(s) THEN [sub EXCEPT ![s].token = minted] ELSE sub
        /\ revoked' = IF SubRow(s) THEN revoked \cup {sub[s].token} ELSE revoked
        /\ minted' = minted + 1
        /\ Goto(t, IdleThread)
        /\ UNCHANGED <<proxy, ready, client, chain, nodeSub, ids, started>>

\* delete_subscription; its entries cascade.
delete_subscription(s) ==
    /\ SubRow(s)
    /\ sub' = [sub EXCEPT ![s] = NoRow]
    /\ revoked' = revoked \cup {sub[s].token}
    /\ UNCHANGED <<proxy, ready, client, chain, nodeSub, th, ids, minted, started>>

-----------------------------------------------------------------------------
(* The subscription of a deployment.                                       *)

\* update_subscription_config: the users are checked, then all entries replaced
\* and the address set.
update_subscription_config(t, d, users) ==
    /\ Begin(t) /\ DepRow(d) /\ users \subseteq client
    /\ Goto(t, Thread("update_node_sub", d, {}, users, {}))
    /\ UNCHANGED <<proxy, ready, client, chain, sub, nodeSub, ids, minted, revoked>>

write_subscription_config(t) ==
    LET d == th[t].id
    IN  /\ th[t].pc = "update_node_sub"
        /\ nodeSub' = IF DepRow(d) /\ ForeignKeys(th[t].users \subseteq client)
                      THEN [nodeSub EXCEPT ![d] = th[t].users] ELSE nodeSub
        /\ Goto(t, IdleThread)
        /\ UNCHANGED <<proxy, ready, client, chain, sub, ids, minted, revoked, started>>

-----------------------------------------------------------------------------
RequestNext(t) ==
    \/ \E u \in Users : create_client(t, u)
    \/ \E c \in Chains :
         rotate_proxy_chain_token(t, c) \/ \E nodes \in SUBSET Nodes : create_proxy_chain(t, c, nodes)
    \/ \E s \in Subs :
         \/ rotate_subscription_token(t, s)
         \/ \E users \in SUBSET Users :
              \/ update_managed_subscription_users(t, s, users)
              \/ \E chains \in SUBSET Chains : update_managed_subscription(t, s, users, chains)
    \/ \E d \in Deps, users \in SUBSET Users : update_subscription_config(t, d, users)
    \/ insert_client(t) \/ insert_chain(t) \/ write_chain_token(t)
    \/ write_subscription(t) \/ write_subscription_token(t) \/ write_subscription_config(t)

Next ==
    \/ \E t \in Threads : RequestNext(t)
    \/ \E d \in Deps : (\E p \in Ports : start_deployment(d, p)) \/ deployment_ready(d) \/ delete_deployment(d)
    \/ \E c \in Chains : finish_proxy_chain_deployment(c) \/ delete_proxy_chain(c)
    \/ \E s \in Subs : create_subscription(s) \/ delete_subscription(s)

Spec == Init /\ [][Next]_vars

-----------------------------------------------------------------------------
(* Properties.                                                             *)

ThreadPcs == {"idle", "insert_client", "insert_chain", "rotate_chain", "update_sub",
              "rotate_sub", "update_node_sub"}

\* The shape of the rows and the threads; an id at a step is of its kind.
TypeOK ==
    /\ proxy \in [Deps -> Ports \cup {NoRow}] /\ ready \subseteq Deps /\ client \subseteq Users
    /\ chain \in [Chains -> ChainRows \cup {NoRow}]
    /\ sub \in [Subs -> SubRows \cup {NoRow}]
    /\ nodeSub \in [Deps -> (SUBSET Users) \cup {NoUrl}]
    /\ th \in [Threads -> [pc : ThreadPcs, id : Deps \cup Chains \cup Users \cup Subs \cup {NoRow},
                           nodes : SUBSET Nodes, users : SUBSET Users, chains : SUBSET Chains]]
    /\ \A t \in Threads :
         /\ th[t].pc \in {"insert_chain", "rotate_chain"} => th[t].id \in Chains
         /\ th[t].pc \in {"update_sub", "rotate_sub"} => th[t].id \in Subs
         /\ th[t].pc = "insert_client" => th[t].id \in Users
         /\ th[t].pc = "update_node_sub" => th[t].id \in Deps
    /\ ids \subseteq Deps \cup Chains \cup Users \cup Subs
    /\ minted \in Nat /\ revoked \subseteq Tokens /\ started \in Nat

ChainNodes(c) == IF ChainRow(c) THEN chain[c].nodes ELSE {}

\* No two nodes of chains, of one or of several, listen on the same endpoint,
\* also when requests that choose the same port overlap.
ChainEndpointsDisjoint ==
    \A b, c \in Chains : \A m \in ChainNodes(b), n \in ChainNodes(c) :
      Endpoint(m) = Endpoint(n) => b = c /\ m = n

\* A chain is there with all its deployments or not at all, and entries refer
\* to rows that exist, whatever was deleted between a request's reads and its
\* transaction.
RowsWhole ==
    /\ \A c \in Chains : \A n \in ChainNodes(c) : DepRow(n[1])
    /\ \A c \in Chains : ChainRow(c) => Cardinality(chain[c].nodes) >= 2
    /\ \A u \in client : DepRow(NodeOf[u])
    /\ \A s \in Subs : SubRow(s) =>
         sub[s].users \subseteq client /\ \A c \in sub[s].chains : ChainRow(c)
    /\ \A d \in Deps : nodeSub[d] # NoUrl => DepRow(d) /\ nodeSub[d] \subseteq client

\* A token that was rotated or whose row was deleted resolves to nothing.
RevokedIsDead ==
    /\ \A c \in Chains : ChainRow(c) => chain[c].token \notin revoked
    /\ \A s \in Subs : SubRow(s) => sub[s].token \notin revoked

\* A chain that a subscription has selected has a link to serve, although it
\* was checked before the transaction and deleted ids come and go.
EntriesLinked ==
    \A s \in Subs : SubRow(s) => \A c \in sub[s].chains : ChainRow(c) => chain[c].linked
=============================================================================
