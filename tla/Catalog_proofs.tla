-------------------------- MODULE Catalog_proofs ---------------------------
(***************************************************************************)
(* Theorems about Catalog, for any rows, hosts, ports, threads and number  *)
(* of requests.                                                            *)
(***************************************************************************)
EXTENDS Catalog, TLAPS

Ids == Deps \cup Chains \cup Users \cup Subs
ThreadSet == [pc : ThreadPcs, id : Ids \cup {NoRow}, nodes : SUBSET Nodes,
              users : SUBSET Users, chains : SUBSET Chains]
\* A step and the kind of id it works on.
IdFits(next) ==
    /\ next.pc \in {"insert_chain", "rotate_chain"} => next.id \in Chains
    /\ next.pc \in {"update_sub", "rotate_sub"} => next.id \in Subs
    /\ next.pc = "insert_client" => next.id \in Users
    /\ next.pc = "update_node_sub" => next.id \in Deps

ThreadsOK == th \in [Threads -> ThreadSet] /\ \A t \in Threads : IdFits(th[t])
RowsOK ==
    /\ proxy \in [Deps -> Ports \cup {NoRow}] /\ ready \subseteq Deps /\ client \subseteq Users
    /\ chain \in [Chains -> ChainRows \cup {NoRow}]
    /\ sub \in [Subs -> SubRows \cup {NoRow}]
    /\ nodeSub \in [Deps -> (SUBSET Users) \cup {NoUrl}]
CountersOK == ids \subseteq Ids /\ minted \in Nat /\ revoked \subseteq Tokens /\ started \in Nat

\* An id is used once: a deployment that was deleted does not come back under
\* a user that is being created with an entry in its subscription.
FreshIds ==
    /\ \A d \in Deps : DepRow(d) => d \in ids
    /\ \A t \in Threads : th[t].pc = "insert_client" =>
         /\ NodeOf[th[t].id] \in ids
         /\ th[t].users # {} /\ DepRow(NodeOf[th[t].id]) => nodeSub[NodeOf[th[t].id]] # NoUrl

TypeInv == ThreadsOK /\ RowsOK /\ CountersOK /\ FreshIds

LEMMA TypeParts == TypeOK <=> ThreadsOK /\ RowsOK /\ CountersOK
BY DEF TypeOK, ThreadsOK, RowsOK, CountersOK, ThreadSet, Ids, IdFits

LEMMA InitType == Init => TypeInv
<1> SUFFICES ASSUME Init PROVE TypeInv
  OBVIOUS
<1>1. IdleThread \in ThreadSet /\ IdleThread.pc = "idle"
  BY DEF IdleThread, Thread, ThreadSet, ThreadPcs
<1>2. ThreadsOK
  BY <1>1 DEF Init, ThreadsOK, IdFits
<1>3. RowsOK
  BY DEF Init, RowsOK
<1>5. CountersOK
  BY DEF Init, CountersOK
<1>4. FreshIds
  BY <1>1 DEF Init, FreshIds, DepRow
<1> QED BY <1>2, <1>3, <1>4, <1>5 DEF TypeInv

\* A thread moves on.
LEMMA GotoType ==
  ASSUME ThreadsOK, NEW t \in Threads, NEW next \in ThreadSet, IdFits(next), Goto(t, next)
  PROVE  ThreadsOK'
BY DEF ThreadsOK, Goto, IdFits

LEMMA IdleType == IdleThread \in ThreadSet /\ IdFits(IdleThread) /\ IdleThread.pc = "idle"
BY DEF IdleThread, Thread, ThreadSet, ThreadPcs, IdFits

\* A step that only reads, and gives out an id perhaps.
LEMMA ReadKeepsType ==
  ASSUME TypeInv, NEW t \in Threads, NEW next \in ThreadSet, IdFits(next), Goto(t, next),
         next.pc # "insert_client",
         UNCHANGED <<proxy, ready, client, chain, sub, nodeSub, minted, revoked>>,
         ids' \subseteq Ids, ids \subseteq ids', started' \in Nat
  PROVE  TypeInv'
<1>1. ThreadsOK'
  BY GotoType DEF TypeInv
<1>2. RowsOK' /\ CountersOK'
  BY DEF TypeInv, RowsOK, CountersOK
<1>3. \A q \in Threads : th'[q] = th[q] \/ th'[q].pc # "insert_client"
  BY DEF Goto, TypeInv, ThreadsOK
<1>4. FreshIds'
  BY <1>3 DEF TypeInv, FreshIds, DepRow
<1> QED BY <1>1, <1>2, <1>4 DEF TypeInv

\* A write that ends a request: the thread is idle again.
LEMMA WriteKeepsType ==
  ASSUME TypeInv, NEW t \in Threads, Goto(t, IdleThread),
         UNCHANGED <<proxy, ids, started>>, RowsOK', minted' \in Nat, revoked' \subseteq Tokens,
         \A d \in Deps : nodeSub[d] # NoUrl => nodeSub'[d] # NoUrl
  PROVE  TypeInv'
<1>1. ThreadsOK'
  BY GotoType, IdleType DEF TypeInv
<1>2. CountersOK'
  BY DEF TypeInv, CountersOK
<1>3. \A q \in Threads : th'[q] = th[q] \/ th'[q].pc # "insert_client"
  BY IdleType DEF Goto, TypeInv, ThreadsOK
<1>4. \A q \in Threads : th[q].pc = "insert_client" => NodeOf[th[q].id] \in Deps
  BY NodeAssumption DEF TypeInv, ThreadsOK, IdFits
<1>5. FreshIds'
  BY <1>3, <1>4 DEF TypeInv, FreshIds, DepRow
<1> QED BY <1>1, <1>2, <1>5 DEF TypeInv

\* A step of no thread that keeps the deployments and their subscriptions.
LEMMA RowKeepsType ==
  ASSUME TypeInv, UNCHANGED <<th, proxy, nodeSub, started>>, RowsOK', ids \subseteq ids',
         ids' \subseteq Ids, minted' \in Nat, revoked' \subseteq Tokens
  PROVE  TypeInv'
BY DEF TypeInv, ThreadsOK, CountersOK, FreshIds, DepRow

\* Tokens are numbers, so is every token in a row.
LEMMA RowTokens ==
  ASSUME RowsOK
  PROVE  /\ \A c \in Chains : ChainRow(c) => chain[c] \in ChainRows /\ chain[c].token \in Tokens
         /\ \A s \in Subs : SubRow(s) => sub[s] \in SubRows /\ sub[s].token \in Tokens
BY NullAssumption DEF RowsOK, ChainRow, SubRow, ChainRows, SubRows

\* The reads of the requests.
LEMMA ReadsKeepType ==
  ASSUME TypeInv, NEW t \in Threads,
         \/ \E c \in Chains : rotate_proxy_chain_token(t, c)
         \/ \E c \in Chains, nodes \in SUBSET Nodes : create_proxy_chain(t, c, nodes)
         \/ \E s \in Subs : rotate_subscription_token(t, s)
         \/ \E s \in Subs, users \in SUBSET Users : update_managed_subscription_users(t, s, users)
         \/ \E s \in Subs, users \in SUBSET Users, chains \in SUBSET Chains :
              update_managed_subscription(t, s, users, chains)
         \/ \E d \in Deps, users \in SUBSET Users : update_subscription_config(t, d, users)
  PROVE  TypeInv'
<1>1. ids \subseteq Ids /\ started \in Nat /\ (started' = started + 1 => started' \in Nat)
  BY DEF TypeInv, CountersOK
<1>2. ASSUME NEW pc \in ThreadPcs \ {"insert_client"}, NEW id \in Ids, NEW nodes \in SUBSET Nodes,
             NEW users \in SUBSET Users, NEW chains \in SUBSET Chains,
             IdFits(Thread(pc, id, nodes, users, chains)),
             Goto(t, Thread(pc, id, nodes, users, chains)),
             UNCHANGED <<proxy, ready, client, chain, sub, nodeSub, minted, revoked>>,
             ids' = ids \/ ids' = ids \cup {id}, started' = started + 1
      PROVE  TypeInv'
  <2>1. Thread(pc, id, nodes, users, chains) \in ThreadSet
        /\ Thread(pc, id, nodes, users, chains).pc # "insert_client"
    BY <1>2 DEF Thread, ThreadSet
  <2> QED BY <1>1, <1>2, <2>1, ReadKeepsType
<1>3. CASE \E c \in Chains : rotate_proxy_chain_token(t, c)
  BY <1>2, <1>3 DEF rotate_proxy_chain_token, Begin, ThreadPcs, Ids, IdFits, Thread
<1>4. CASE \E c \in Chains, nodes \in SUBSET Nodes : create_proxy_chain(t, c, nodes)
  BY <1>2, <1>4 DEF create_proxy_chain, Begin, ThreadPcs, Ids, IdFits, Thread
<1>5. CASE \E s \in Subs : rotate_subscription_token(t, s)
  BY <1>2, <1>5 DEF rotate_subscription_token, Begin, ThreadPcs, Ids, IdFits, Thread
<1>6. CASE \E s \in Subs, users \in SUBSET Users : update_managed_subscription_users(t, s, users)
  <2>1. PICK s \in Subs, users \in SUBSET Users : update_managed_subscription_users(t, s, users)
    BY <1>6
  <2>2. sub[s].chains \in SUBSET Chains
    BY <2>1, RowTokens DEF update_managed_subscription_users, SubRows, TypeInv
  <2> QED
    BY <1>2, <2>1, <2>2 DEF update_managed_subscription_users, Begin, ThreadPcs, Ids, IdFits, Thread
<1>7. CASE \E s \in Subs, users \in SUBSET Users, chains \in SUBSET Chains :
             update_managed_subscription(t, s, users, chains)
  BY <1>2, <1>7 DEF update_managed_subscription, Begin, ThreadPcs, Ids, IdFits, Thread
<1>8. CASE \E d \in Deps, users \in SUBSET Users : update_subscription_config(t, d, users)
  BY <1>2, <1>8 DEF update_subscription_config, Begin, ThreadPcs, Ids, IdFits, Thread
<1> QED BY <1>3, <1>4, <1>5, <1>6, <1>7, <1>8

\* create_client: the deployment is there when it is read.
LEMMA CreateClientKeepsType ==
  ASSUME TypeInv, NEW t \in Threads, NEW u \in Users, create_client(t, u)
  PROVE  TypeInv'
<1> DEFINE d == NodeOf[u]
           users == IF nodeSub[d] # NoUrl THEN {u} ELSE {}
           next == Thread("insert_client", u, {}, users, {})
<1>1. DepRow(d) /\ d \in Deps /\ Goto(t, next) /\ ids' = ids \cup {u} /\ started' = started + 1
      /\ UNCHANGED <<proxy, ready, client, chain, sub, nodeSub, minted, revoked>>
  BY NodeAssumption DEF create_client, Begin
<1>2. next \in ThreadSet /\ IdFits(next)
  BY DEF Thread, ThreadSet, ThreadPcs, IdFits, Ids
<1>3. next.pc = "insert_client" /\ next.id = u /\ next.users = users
  BY DEF Thread
<1>4. ThreadsOK'
  BY <1>1, <1>2, GotoType DEF TypeInv
<1>5. RowsOK' /\ CountersOK'
  BY <1>1 DEF TypeInv, RowsOK, CountersOK, Ids
<1>6. \A q \in Threads : th'[q] = th[q] \/ th'[q] = next
  BY <1>1 DEF Goto, TypeInv, ThreadsOK
<1>7. users # {} => nodeSub[d] # NoUrl
  OBVIOUS
<1>8. d \in ids
  BY <1>1 DEF TypeInv, FreshIds
<1> HIDE DEF next, users
<1>9. FreshIds'
  BY <1>1, <1>3, <1>6, <1>7, <1>8 DEF TypeInv, FreshIds, DepRow
<1> QED BY <1>4, <1>5, <1>9 DEF TypeInv

\* The transactions that end requests.
LEMMA WritesKeepType ==
  ASSUME TypeInv, NEW t \in Threads,
         \/ insert_client(t) \/ insert_chain(t) \/ write_chain_token(t)
         \/ write_subscription(t) \/ write_subscription_token(t) \/ write_subscription_config(t)
  PROVE  TypeInv'
<1> DEFINE id == th[t].id
<1>1. th[t] \in ThreadSet /\ IdFits(th[t]) /\ RowsOK /\ CountersOK
  BY DEF TypeInv, ThreadsOK
<1>2. minted \in Nat /\ minted + 1 \in Nat /\ minted \in Tokens /\ revoked \subseteq Tokens
  BY <1>1 DEF CountersOK, Tokens
<1>3. CASE insert_client(t)
  <2> DEFINE d == NodeOf[id]
  <2>1. id \in Users /\ d \in Deps
    BY <1>1, <1>3, NodeAssumption DEF insert_client, IdFits
  <2>2. DepRow(d) /\ th[t].users # {} => nodeSub[d] # NoUrl /\ nodeSub[d] \in SUBSET Users
    BY <1>1, <1>3, <2>1 DEF insert_client, TypeInv, FreshIds, RowsOK
  <2>3. Goto(t, IdleThread) /\ UNCHANGED <<proxy, ready, chain, sub, ids, minted, revoked, started>>
    BY <1>3 DEF insert_client
  <2>4. CASE DepRow(d) /\ th[t].users # {}
    <3>1. client' = client \cup {id} /\ nodeSub' = [nodeSub EXCEPT ![d] = @ \cup {id}]
      BY <1>3, <2>4 DEF insert_client, ForeignKeys
    <3>2. nodeSub' \in [Deps -> (SUBSET Users) \cup {NoUrl}] /\ client' \subseteq Users
      BY <1>1, <2>1, <2>2, <2>4, <3>1 DEF RowsOK
    <3>3. RowsOK'
      BY <1>1, <2>3, <3>2 DEF RowsOK
    <3>4. \A e \in Deps : nodeSub[e] # NoUrl => nodeSub'[e] # NoUrl
      <4> SUFFICES ASSUME NEW e \in Deps, nodeSub[e] # NoUrl, nodeSub'[e] = NoUrl PROVE FALSE
        OBVIOUS
      <4>1. e = d /\ NoUrl = nodeSub[d] \cup {id}
        BY <1>1, <2>1, <3>1 DEF RowsOK
      <4>2. NoUrl \in SUBSET Users
        BY <2>1, <2>2, <2>4, <4>1
      <4> QED BY <4>2, NullAssumption
    <3> QED BY <1>2, <2>3, <3>3, <3>4, WriteKeepsType
  <2>5. CASE ~(DepRow(d) /\ th[t].users # {})
    <3>1. client' \in {client, client \cup {id}} /\ nodeSub' = nodeSub
      BY <1>3, <2>5 DEF insert_client, ForeignKeys
    <3>2. RowsOK'
      BY <1>1, <2>1, <2>3, <3>1 DEF RowsOK
    <3> QED BY <1>2, <2>3, <3>1, <3>2, WriteKeepsType
  <2> QED BY <2>4, <2>5
<1>4. CASE insert_chain(t)
  <2>1. id \in Chains /\ th[t].nodes \in SUBSET Nodes
    BY <1>1, <1>4 DEF insert_chain, IdFits, ThreadSet
  <2>2. [nodes |-> th[t].nodes, token |-> minted, linked |-> FALSE] \in ChainRows
    BY <1>2, <2>1 DEF ChainRows
  <2>3. chain' \in [Chains -> ChainRows \cup {NoRow}]
    BY <1>1, <1>4, <2>1, <2>2 DEF insert_chain, RowsOK
  <2>4. RowsOK'
    BY <1>1, <1>4, <2>3 DEF insert_chain, RowsOK
  <2> QED BY <1>2, <1>4, <2>4, WriteKeepsType DEF insert_chain
<1>5. CASE write_chain_token(t)
  <2>1. id \in Chains
    BY <1>1, <1>5 DEF write_chain_token, IdFits
  <2>2. chain' \in [Chains -> ChainRows \cup {NoRow}] /\ revoked' \subseteq Tokens
    <3>1. CASE ChainRow(id)
      <4>1. chain[id] \in ChainRows /\ chain[id].token \in Tokens
        BY <1>1, <2>1, <3>1, RowTokens
      <4>2. chain' = [chain EXCEPT ![id].token = minted] /\ revoked' = revoked \cup {chain[id].token}
        BY <1>5, <3>1 DEF write_chain_token
      <4> QED BY <1>1, <1>2, <2>1, <4>1, <4>2 DEF RowsOK, ChainRows
    <3>2. CASE ~ChainRow(id)
      BY <1>1, <1>2, <1>5, <3>2 DEF write_chain_token, RowsOK
    <3> QED BY <3>1, <3>2
  <2>3. RowsOK'
    BY <1>1, <1>5, <2>2 DEF write_chain_token, RowsOK
  <2> QED BY <1>2, <1>5, <2>2, <2>3, WriteKeepsType DEF write_chain_token
<1>6. CASE write_subscription(t)
  <2>1. id \in Subs /\ th[t].users \in SUBSET Users /\ th[t].chains \in SUBSET Chains
    BY <1>1, <1>6 DEF write_subscription, IdFits, ThreadSet
  <2>2. sub' \in [Subs -> SubRows \cup {NoRow}]
    <3>1. CASE SubRow(id) /\ sub' = [sub EXCEPT ![id].users = th[t].users, ![id].chains = th[t].chains]
      <4>1. sub[id] \in SubRows
        BY <1>1, <2>1, <3>1, RowTokens
      <4>2. [[sub[id] EXCEPT !.users = th[t].users] EXCEPT !.chains = th[t].chains] \in SubRows
        BY <2>1, <4>1 DEF SubRows
      <4>3. sub' = [sub EXCEPT ![id] = [[sub[id] EXCEPT !.users = th[t].users] EXCEPT !.chains = th[t].chains]]
        BY <1>1, <2>1, <3>1 DEF RowsOK
      <4> QED BY <1>1, <2>1, <4>2, <4>3 DEF RowsOK
    <3>2. CASE sub' = sub
      BY <1>1, <3>2 DEF RowsOK
    <3> QED BY <1>6, <3>1, <3>2 DEF write_subscription
  <2>3. RowsOK'
    BY <1>1, <1>6, <2>2 DEF write_subscription, RowsOK
  <2> QED BY <1>2, <1>6, <2>3, WriteKeepsType DEF write_subscription
<1>7. CASE write_subscription_token(t)
  <2>1. id \in Subs
    BY <1>1, <1>7 DEF write_subscription_token, IdFits
  <2>2. sub' \in [Subs -> SubRows \cup {NoRow}] /\ revoked' \subseteq Tokens
    <3>1. CASE SubRow(id)
      <4>1. sub[id] \in SubRows /\ sub[id].token \in Tokens
        BY <1>1, <2>1, <3>1, RowTokens
      <4>2. sub' = [sub EXCEPT ![id].token = minted] /\ revoked' = revoked \cup {sub[id].token}
        BY <1>7, <3>1 DEF write_subscription_token
      <4> QED BY <1>1, <1>2, <2>1, <4>1, <4>2 DEF RowsOK, SubRows
    <3>2. CASE ~SubRow(id)
      BY <1>1, <1>2, <1>7, <3>2 DEF write_subscription_token, RowsOK
    <3> QED BY <3>1, <3>2
  <2>3. RowsOK'
    BY <1>1, <1>7, <2>2 DEF write_subscription_token, RowsOK
  <2> QED BY <1>2, <1>7, <2>2, <2>3, WriteKeepsType DEF write_subscription_token
<1>8. CASE write_subscription_config(t)
  <2>1. id \in Deps /\ th[t].users \in SUBSET Users
    BY <1>1, <1>8 DEF write_subscription_config, IdFits, ThreadSet
  <2>2. nodeSub' = nodeSub \/ nodeSub' = [nodeSub EXCEPT ![id] = th[t].users]
    BY <1>8 DEF write_subscription_config
  <2>3. nodeSub' \in [Deps -> (SUBSET Users) \cup {NoUrl}]
    BY <1>1, <2>1, <2>2 DEF RowsOK
  <2>4. RowsOK'
    BY <1>1, <1>8, <2>3 DEF write_subscription_config, RowsOK
  <2>5. \A e \in Deps : nodeSub[e] # NoUrl => nodeSub'[e] # NoUrl
    BY <1>1, <2>1, <2>2, NullAssumption DEF RowsOK
  <2> QED BY <1>2, <1>8, <2>4, <2>5, WriteKeepsType DEF write_subscription_config
<1> QED BY <1>3, <1>4, <1>5, <1>6, <1>7, <1>8

\* What the deletion of a deployment leaves.
LEMMA DeleteDeploymentKeepsType ==
  ASSUME TypeInv, NEW d \in Deps, delete_deployment(d)
  PROVE  TypeInv'
<1> DEFINE users == {u \in Users : NodeOf[u] = d}
           gone == {c \in Chains : ChainRow(c) /\ CascadeChain(c, d) = NoRow}
<1>1. RowsOK /\ CountersOK
  BY DEF TypeInv
<1>2. /\ proxy' = [proxy EXCEPT ![d] = NoRow] /\ ready' = ready \ {d} /\ client' = client \ users
      /\ chain' = [c \in Chains |-> CascadeChain(c, d)]
      /\ sub' = [s \in Subs |-> IF ~SubRow(s) THEN NoRow
                   ELSE [sub[s] EXCEPT !.users = @ \ users, !.chains = @ \ gone]]
      /\ nodeSub' = [e \in Deps |-> IF e = d \/ nodeSub[e] = NoUrl THEN NoUrl ELSE nodeSub[e] \ users]
      /\ revoked' = revoked \cup {chain[c].token : c \in gone}
      /\ UNCHANGED <<th, ids, minted, started>>
  BY DEF delete_deployment
<1>3. proxy' \in [Deps -> Ports \cup {NoRow}] /\ ready' \subseteq Deps /\ client' \subseteq Users
  BY <1>1, <1>2 DEF RowsOK
<1>4. chain' \in [Chains -> ChainRows \cup {NoRow}]
  BY <1>1, <1>2 DEF RowsOK, CascadeChain
<1>5. sub' \in [Subs -> SubRows \cup {NoRow}]
  <2>1. ASSUME NEW s \in Subs, SubRow(s)
        PROVE  [sub[s] EXCEPT !.users = @ \ users, !.chains = @ \ gone] \in SubRows
    <3>1. sub[s] \in SubRows
      BY <1>1, <2>1, RowTokens
    <3> HIDE DEF users, gone
    <3> QED BY <3>1 DEF SubRows
  <2> HIDE DEF users, gone
  <2> QED BY <1>2, <2>1
<1>6. nodeSub' \in [Deps -> (SUBSET Users) \cup {NoUrl}]
  <2>1. ASSUME NEW e \in Deps, nodeSub[e] # NoUrl PROVE nodeSub[e] \ users \in SUBSET Users
    BY <1>1, <2>1 DEF RowsOK
  <2> HIDE DEF users
  <2> QED BY <1>2, <2>1
<1>7. RowsOK'
  BY <1>3, <1>4, <1>5, <1>6 DEF RowsOK
<1>8. CountersOK'
  BY <1>1, <1>2, RowTokens DEF CountersOK
<1>9. ThreadsOK'
  BY <1>2 DEF TypeInv, ThreadsOK
<1>10. FreshIds'
  <2>1. \A e \in Deps : DepRow(e)' => DepRow(e) /\ e # d
    BY <1>1, <1>2 DEF RowsOK, DepRow
  <2>2. \A e \in Deps : e # d /\ nodeSub[e] # NoUrl => nodeSub'[e] # NoUrl
    <3> SUFFICES ASSUME NEW e \in Deps, e # d, nodeSub[e] # NoUrl, nodeSub'[e] = NoUrl PROVE FALSE
      OBVIOUS
    <3>1. NoUrl = nodeSub[e] \ users /\ nodeSub[e] \in SUBSET Users
      BY <1>1, <1>2 DEF RowsOK
    <3>2. NoUrl \in SUBSET Users
      BY <3>1
    <3> QED BY <3>2, NullAssumption
  <2>3. \A t \in Threads : th[t].pc = "insert_client" => NodeOf[th[t].id] \in Deps
    BY NodeAssumption DEF TypeInv, ThreadsOK, IdFits
  <2> QED BY <1>2, <2>1, <2>2, <2>3 DEF TypeInv, FreshIds
<1> QED BY <1>7, <1>8, <1>9, <1>10 DEF TypeInv

\* The steps that belong to no request thread.
LEMMA RowStepsKeepType ==
  ASSUME TypeInv,
         \/ \E d \in Deps : deployment_ready(d)
         \/ \E c \in Chains : finish_proxy_chain_deployment(c) \/ delete_proxy_chain(c)
         \/ \E s \in Subs : create_subscription(s) \/ delete_subscription(s)
  PROVE  TypeInv'
<1>1. RowsOK /\ CountersOK
  BY DEF TypeInv
<1>2. ids \subseteq Ids /\ minted \in Nat /\ minted + 1 \in Nat /\ minted \in Tokens
      /\ revoked \subseteq Tokens
  BY <1>1 DEF CountersOK, Tokens
<1>3. ASSUME NEW d \in Deps, deployment_ready(d) PROVE TypeInv'
  <2>1. RowsOK'
    BY <1>1, <1>3 DEF deployment_ready, RowsOK
  <2> QED BY <1>2, <1>3, <2>1, RowKeepsType DEF deployment_ready
<1>4. ASSUME NEW c \in Chains, finish_proxy_chain_deployment(c) PROVE TypeInv'
  <2>1. chain[c] \in ChainRows
    BY <1>1, <1>4, RowTokens DEF finish_proxy_chain_deployment
  <2>2. RowsOK'
    BY <1>1, <1>4, <2>1 DEF finish_proxy_chain_deployment, RowsOK, ChainRows
  <2> QED BY <1>2, <1>4, <2>2, RowKeepsType DEF finish_proxy_chain_deployment
<1>5. ASSUME NEW c \in Chains, delete_proxy_chain(c) PROVE TypeInv'
  <2>1. chain[c].token \in Tokens
    BY <1>1, <1>5, RowTokens DEF delete_proxy_chain
  <2>2. sub' \in [Subs -> SubRows \cup {NoRow}]
    <3>1. ASSUME NEW s \in Subs, SubRow(s) PROVE [sub[s] EXCEPT !.chains = @ \ {c}] \in SubRows
      <4>1. sub[s] \in SubRows
        BY <1>1, <3>1, RowTokens
      <4> QED BY <4>1 DEF SubRows
    <3> QED BY <1>5, <3>1 DEF delete_proxy_chain
  <2>3. chain' \in [Chains -> ChainRows \cup {NoRow}]
    BY <1>1, <1>5 DEF delete_proxy_chain, RowsOK
  <2>4. RowsOK'
    BY <1>1, <1>5, <2>2, <2>3 DEF delete_proxy_chain, RowsOK
  <2> QED BY <1>2, <1>5, <2>1, <2>4, RowKeepsType DEF delete_proxy_chain
<1>6. ASSUME NEW s \in Subs, create_subscription(s) PROVE TypeInv'
  <2>1. [token |-> minted, users |-> {}, chains |-> {}] \in SubRows
    BY <1>2 DEF SubRows
  <2>2. sub' \in [Subs -> SubRows \cup {NoRow}]
    BY <1>1, <1>6, <2>1 DEF create_subscription, RowsOK
  <2>3. RowsOK' /\ ids \subseteq ids' /\ ids' \subseteq Ids
    BY <1>1, <1>2, <1>6, <2>2 DEF create_subscription, RowsOK, Ids
  <2> QED BY <1>2, <1>6, <2>3, RowKeepsType DEF create_subscription
<1>7. ASSUME NEW s \in Subs, delete_subscription(s) PROVE TypeInv'
  <2>1. sub[s].token \in Tokens
    BY <1>1, <1>7, RowTokens DEF delete_subscription
  <2>2. RowsOK'
    BY <1>1, <1>7 DEF delete_subscription, RowsOK
  <2> QED BY <1>2, <1>7, <2>1, <2>2, RowKeepsType DEF delete_subscription
<1> QED BY <1>3, <1>4, <1>5, <1>6, <1>7

\* A new deployment has an id that no thread knows.
LEMMA StartDeploymentKeepsType ==
  ASSUME TypeInv, NEW d \in Deps, NEW p \in Ports, start_deployment(d, p)
  PROVE  TypeInv'
<1>1. d \notin ids /\ ids' = ids \cup {d} /\ proxy' = [proxy EXCEPT ![d] = p]
      /\ UNCHANGED <<ready, client, chain, sub, nodeSub, th, minted, revoked, started>>
  BY DEF start_deployment
<1>2. RowsOK' /\ CountersOK' /\ ThreadsOK'
  BY <1>1 DEF TypeInv, RowsOK, CountersOK, ThreadsOK, Ids
<1>3. \A e \in Deps : e # d => (DepRow(e)' <=> DepRow(e))
  BY <1>1 DEF TypeInv, RowsOK, DepRow
<1>4. \A t \in Threads : th[t].pc = "insert_client" => NodeOf[th[t].id] \in Deps /\ NodeOf[th[t].id] # d
  BY <1>1, NodeAssumption DEF TypeInv, ThreadsOK, IdFits, FreshIds
<1>5. FreshIds'
  BY <1>1, <1>3, <1>4 DEF TypeInv, FreshIds
<1> QED BY <1>2, <1>5 DEF TypeInv

LEMMA StepKeepsType == TypeInv /\ [Next]_vars => TypeInv'
<1> SUFFICES ASSUME TypeInv, [Next]_vars PROVE TypeInv'
  OBVIOUS
<1>1. CASE UNCHANGED vars
  BY <1>1 DEF vars, TypeInv, ThreadsOK, RowsOK, CountersOK, FreshIds, DepRow
<1>2. ASSUME NEW t \in Threads, RequestNext(t) PROVE TypeInv'
  BY <1>2, ReadsKeepType, CreateClientKeepsType, WritesKeepType DEF RequestNext
<1>3. CASE \E d \in Deps : (\E p \in Ports : start_deployment(d, p)) \/ deployment_ready(d) \/ delete_deployment(d)
  BY <1>3, StartDeploymentKeepsType, DeleteDeploymentKeepsType, RowStepsKeepType
<1>4. CASE \/ \E c \in Chains : finish_proxy_chain_deployment(c) \/ delete_proxy_chain(c)
           \/ \E s \in Subs : create_subscription(s) \/ delete_subscription(s)
  BY <1>4, RowStepsKeepType
<1> QED BY <1>1, <1>2, <1>3, <1>4 DEF Next

\* Every reachable state is well typed: a thread's id is of the kind its step
\* needs, and no entry is added to a subscription that is not set up.
THEOREM TypeCorrect == Spec => []TypeOK
<1>1. TypeInv => TypeOK
  BY TypeParts DEF TypeInv
<1> QED BY InitType, StepKeepsType, <1>1, PTL DEF Spec
-----------------------------------------------------------------------------
(* Endpoints.  ChainEndpointsDisjoint is inductive once types are known.   *)

EndpointInv == TypeInv /\ ChainEndpointsDisjoint

\* A step that adds no node to any chain.
LEMMA FewerNodes ==
  ASSUME ChainEndpointsDisjoint, \A c \in Chains : ChainNodes(c)' \subseteq ChainNodes(c)
  PROVE  ChainEndpointsDisjoint'
BY DEF ChainEndpointsDisjoint, Endpoint

\* The transaction that inserts a chain compares ports with all chains there are.
LEMMA NewChainKeepsEndpoints ==
  ASSUME EndpointInv, NEW id \in Chains, NEW nodes \in SUBSET Nodes, PortsAvailable(nodes),
         chain' = [chain EXCEPT ![id] = [nodes |-> nodes, token |-> minted, linked |-> FALSE]]
  PROVE  ChainEndpointsDisjoint'
<1>1. chain \in [Chains -> ChainRows \cup {NoRow}]
  BY DEF EndpointInv, TypeInv, RowsOK
<1>2. \A c \in Chains \ {id} : ChainNodes(c)' = ChainNodes(c)
  BY <1>1 DEF ChainNodes, ChainRow
<1>3. ChainNodes(id)' \subseteq nodes
  BY <1>1 DEF ChainNodes, ChainRow
<1>4. \A c \in Chains : \A n \in ChainNodes(c) : Endpoint(n) \in ChainEndpoints
  BY DEF ChainNodes, ChainEndpoints
<1>5. /\ \A m, n \in nodes : Endpoint(m) = Endpoint(n) => m = n
      /\ \A n \in nodes : Endpoint(n) \notin ChainEndpoints
  BY DEF PortsAvailable
<1> SUFFICES ASSUME NEW b \in Chains, NEW c \in Chains,
                    NEW m \in ChainNodes(b)', NEW n \in ChainNodes(c)', Endpoint(m) = Endpoint(n)
             PROVE  b = c /\ m = n
  BY DEF ChainEndpointsDisjoint, Endpoint
<1>6. CASE b = id /\ c = id
  BY <1>3, <1>5, <1>6
<1>7. CASE b = id /\ c # id
  BY <1>2, <1>3, <1>4, <1>5, <1>7
<1>8. CASE b # id /\ c = id
  BY <1>2, <1>3, <1>4, <1>5, <1>8
<1>9. CASE b # id /\ c # id
  BY <1>2, <1>9 DEF EndpointInv, ChainEndpointsDisjoint
<1> QED BY <1>6, <1>7, <1>8, <1>9

LEMMA StepKeepsEndpoints == EndpointInv /\ [Next]_vars => EndpointInv'
<1> SUFFICES ASSUME EndpointInv, [Next]_vars PROVE ChainEndpointsDisjoint'
  BY StepKeepsType DEF EndpointInv
<1>1. chain \in [Chains -> ChainRows \cup {NoRow}]
  BY DEF EndpointInv, TypeInv, RowsOK
<1>2. ASSUME UNCHANGED chain PROVE ChainEndpointsDisjoint'
  BY <1>2, FewerNodes DEF EndpointInv, ChainNodes, ChainRow
<1>3. ASSUME NEW c \in Chains, NEW r \in ChainRows, ChainRow(c), r.nodes = chain[c].nodes,
             chain' = [chain EXCEPT ![c] = r]
      PROVE  ChainEndpointsDisjoint'
  <2>1. \A b \in Chains : ChainNodes(b)' \subseteq ChainNodes(b)
    BY <1>1, <1>3 DEF ChainNodes, ChainRow
  <2> QED BY <2>1, FewerNodes DEF EndpointInv
<1>4. ASSUME NEW t \in Threads, RequestNext(t) PROVE ChainEndpointsDisjoint'
  <2>1. CASE insert_chain(t)
    <3>1. th[t].id \in Chains /\ th[t].nodes \in SUBSET Nodes
      BY <2>1 DEF EndpointInv, TypeInv, ThreadsOK, IdFits, ThreadSet, insert_chain
    <3> QED BY <1>2, <2>1, <3>1, NewChainKeepsEndpoints DEF insert_chain
  <2>2. CASE write_chain_token(t)
    <3> DEFINE id == th[t].id
    <3>1. id \in Chains /\ minted \in Tokens
      BY <2>2 DEF EndpointInv, TypeInv, ThreadsOK, IdFits, CountersOK, Tokens, write_chain_token
    <3>2. CASE ChainRow(id)
      <4>1. chain[id] \in ChainRows
        BY <3>1, <3>2, RowTokens DEF EndpointInv, TypeInv
      <4>2. [chain[id] EXCEPT !.token = minted] \in ChainRows
            /\ [chain[id] EXCEPT !.token = minted].nodes = chain[id].nodes
        BY <3>1, <4>1 DEF ChainRows
      <4>3. chain' = [chain EXCEPT ![id] = [chain[id] EXCEPT !.token = minted]]
        BY <1>1, <2>2, <3>1, <3>2 DEF write_chain_token
      <4> QED BY <1>3, <3>1, <3>2, <4>2, <4>3
    <3>3. CASE ~ChainRow(id)
      BY <1>2, <2>2, <3>3 DEF write_chain_token
    <3> QED BY <3>2, <3>3
  <2>3. CASE ~insert_chain(t) /\ ~write_chain_token(t)
    <3>1. UNCHANGED chain
      BY <1>4, <2>3 DEF RequestNext, create_client, rotate_proxy_chain_token, create_proxy_chain,
        rotate_subscription_token, update_managed_subscription_users, update_managed_subscription,
        update_subscription_config, insert_client, write_subscription, write_subscription_token,
        write_subscription_config
    <3> QED BY <1>2, <3>1
  <2> QED BY <2>1, <2>2, <2>3
<1>5. ASSUME NEW d \in Deps, delete_deployment(d) PROVE ChainEndpointsDisjoint'
  <2>1. \A c \in Chains : ChainNodes(c)' \subseteq ChainNodes(c)
    BY <1>5 DEF delete_deployment, CascadeChain, ChainNodes, ChainRow
  <2> QED BY <2>1, FewerNodes DEF EndpointInv
<1>6. ASSUME NEW c \in Chains, finish_proxy_chain_deployment(c) PROVE ChainEndpointsDisjoint'
  <2>1. chain[c] \in ChainRows /\ ChainRow(c)
    BY <1>6, RowTokens DEF EndpointInv, TypeInv, finish_proxy_chain_deployment
  <2>2. [chain[c] EXCEPT !.linked = TRUE] \in ChainRows
        /\ [chain[c] EXCEPT !.linked = TRUE].nodes = chain[c].nodes
    BY <2>1 DEF ChainRows
  <2>3. chain' = [chain EXCEPT ![c] = [chain[c] EXCEPT !.linked = TRUE]]
    BY <1>1, <1>6 DEF finish_proxy_chain_deployment
  <2> QED BY <1>3, <2>1, <2>2, <2>3
<1>7. ASSUME NEW c \in Chains, delete_proxy_chain(c) PROVE ChainEndpointsDisjoint'
  <2>1. \A b \in Chains : ChainNodes(b)' \subseteq ChainNodes(b)
    BY <1>1, <1>7 DEF delete_proxy_chain, ChainNodes, ChainRow
  <2> QED BY <2>1, FewerNodes DEF EndpointInv
<1>8. CASE \/ UNCHANGED vars
           \/ \E d \in Deps : (\E p \in Ports : start_deployment(d, p)) \/ deployment_ready(d)
           \/ \E s \in Subs : create_subscription(s) \/ delete_subscription(s)
  BY <1>2, <1>8 DEF vars, start_deployment, deployment_ready, create_subscription, delete_subscription
<1> QED BY <1>4, <1>5, <1>6, <1>7, <1>8 DEF Next

\* No two chain nodes share an endpoint, whatever requests overlap: the ports
\* are compared in the transaction that inserts the chain.
THEOREM EndpointsApart == Spec => []ChainEndpointsDisjoint
<1>1. Init => EndpointInv
  <2> SUFFICES ASSUME Init PROVE ChainEndpointsDisjoint
    BY InitType DEF EndpointInv
  <2> QED BY DEF Init, ChainEndpointsDisjoint, ChainNodes, ChainRow
<1>2. EndpointInv => ChainEndpointsDisjoint
  BY DEF EndpointInv
<1> QED BY <1>1, <1>2, StepKeepsEndpoints, PTL DEF Spec
-----------------------------------------------------------------------------
(* Tokens.  A token is minted once, sits in one row, and is revoked when it  *)
(* leaves the row: RevokedIsDead is inductive with these.                    *)

\* A row that can hold a token: of chains or of subscriptions.
Holders == ({"chain"} \X Chains) \cup ({"sub"} \X Subs)
TokenAt(h) == IF h[1] = "chain"
              THEN IF ChainRow(h[2]) THEN {chain[h[2]].token} ELSE {}
              ELSE IF SubRow(h[2]) THEN {sub[h[2]].token} ELSE {}

TokenParts ==
    /\ \A k \in revoked : k < minted
    /\ \A h \in Holders : \A k \in TokenAt(h) : k < minted /\ k \notin revoked
    /\ \A g, h \in Holders : g # h => TokenAt(g) \cap TokenAt(h) = {}

TokenInv == TypeInv /\ TokenParts

LEMMA HoldersOf ==
  /\ \A c \in Chains : <<"chain", c>> \in Holders
       /\ TokenAt(<<"chain", c>>) = IF ChainRow(c) THEN {chain[c].token} ELSE {}
  /\ \A s \in Subs : <<"sub", s>> \in Holders
       /\ TokenAt(<<"sub", s>>) = IF SubRow(s) THEN {sub[s].token} ELSE {}
BY DEF Holders, TokenAt

\* A step that takes tokens away, and revokes none that stays.
LEMMA FewerTokens ==
  ASSUME TokenInv, minted' \in {minted, minted + 1},
         \A h \in Holders : TokenAt(h)' \subseteq TokenAt(h),
         \A k \in revoked' : k \in revoked \/ \E h \in Holders : k \in TokenAt(h) /\ k \notin TokenAt(h)'
  PROVE  TokenParts'
<1>1. minted \in Nat /\ revoked \subseteq Nat
  BY DEF TokenInv, TypeInv, CountersOK, Tokens
<1>2. \A h \in Holders : \A k \in TokenAt(h) : k \in Nat
  BY RowTokens DEF TokenInv, TypeInv, Holders, TokenAt, Tokens
<1>0. \A h \in Holders : \A k \in TokenAt(h) : k < minted
  BY DEF TokenInv, TokenParts
<1>3. ASSUME NEW k \in revoked' PROVE k < minted'
  <2>1. k \in Nat /\ k < minted
    BY <1>0, <1>1, <1>2 DEF TokenInv, TokenParts
  <2> QED BY <1>1, <2>1
<1>4. \A h \in Holders : \A k \in TokenAt(h)' : k < minted'
  BY <1>0, <1>1, <1>2
<1>5. ASSUME NEW h \in Holders, NEW k \in TokenAt(h)', k \in revoked' PROVE FALSE
  <2>1. k \in TokenAt(h) /\ k \notin revoked
    BY <1>5 DEF TokenInv, TokenParts
  <2>2. PICK g \in Holders : k \in TokenAt(g) /\ k \notin TokenAt(g)'
    BY <1>5, <2>1
  <2>3. g # h
    BY <1>5, <2>2
  <2> QED BY <2>1, <2>2, <2>3 DEF TokenInv, TokenParts
<1>6. \A g, h \in Holders : g # h => TokenAt(g)' \cap TokenAt(h)' = {}
  BY DEF TokenInv, TokenParts
<1> QED BY <1>3, <1>4, <1>5, <1>6 DEF TokenParts

\* A step that puts a new token into one row, and revokes what it replaces.
LEMMA NewToken ==
  ASSUME TokenInv, minted' = minted + 1, NEW g \in Holders,
         TokenAt(g)' = {minted},
         \A h \in Holders \ {g} : TokenAt(h)' = TokenAt(h),
         revoked' \subseteq revoked \cup TokenAt(g)
  PROVE  TokenParts'
<1>1. minted \in Nat /\ revoked \subseteq Nat
  BY DEF TokenInv, TypeInv, CountersOK, Tokens
<1>2. \A h \in Holders : \A k \in TokenAt(h) : k \in Nat /\ k < minted /\ k # minted
  BY RowTokens, <1>1 DEF TokenInv, TypeInv, TokenParts, Holders, TokenAt, Tokens
<1>3. \A k \in revoked' : k \in Nat /\ k < minted /\ k < minted'
  BY <1>1, <1>2 DEF TokenInv, TokenParts
<1>4. \A h \in Holders : \A k \in TokenAt(h)' : k < minted'
  BY <1>1, <1>2
<1>5. \A h \in Holders : \A k \in TokenAt(h)' : k \notin revoked'
  BY <1>1, <1>2, <1>3 DEF TokenInv, TokenParts
<1>6. \A e, h \in Holders : e # h => TokenAt(e)' \cap TokenAt(h)' = {}
  BY <1>2 DEF TokenInv, TokenParts
<1> QED BY <1>3, <1>4, <1>5, <1>6 DEF TokenParts

\* Nothing happens to tokens.
LEMMA SameTokens ==
  ASSUME TokenInv, minted' \in {minted, minted + 1}, UNCHANGED revoked,
         \A h \in Holders : TokenAt(h)' = TokenAt(h)
  PROVE  TokenParts'
BY FewerTokens

\* A step that leaves the chains, or the subscriptions, alone.
LEMMA UntouchedTokens ==
  /\ UNCHANGED chain => \A c \in Chains : TokenAt(<<"chain", c>>)' = TokenAt(<<"chain", c>>)
  /\ UNCHANGED sub => \A s \in Subs : TokenAt(<<"sub", s>>)' = TokenAt(<<"sub", s>>)
BY DEF TokenAt, ChainRow, SubRow

LEMMA EveryHolder ==
  \A h \in Holders : (\E c \in Chains : h = <<"chain", c>>) \/ (\E s \in Subs : h = <<"sub", s>>)
BY DEF Holders

\* The writes of the requests.
LEMMA WritesKeepTokens ==
  ASSUME TokenInv, NEW t \in Threads,
         insert_chain(t) \/ write_chain_token(t) \/ write_subscription(t) \/ write_subscription_token(t)
  PROVE  TokenParts'
<1>1. /\ chain \in [Chains -> ChainRows \cup {NoRow}]
      /\ sub \in [Subs -> SubRows \cup {NoRow}]
      /\ th[t] \in ThreadSet /\ IdFits(th[t]) /\ minted \in Tokens /\ RowsOK
  BY DEF TokenInv, TypeInv, RowsOK, ThreadsOK, CountersOK, Tokens
<1>2. ASSUME NEW c \in Chains, NEW r \in ChainRows, r.token = minted, chain' = [chain EXCEPT ![c] = r],
             UNCHANGED sub, minted' = minted + 1, revoked' \subseteq revoked \cup TokenAt(<<"chain", c>>)
      PROVE  TokenParts'
  <2>1. TokenAt(<<"chain", c>>)' = {minted}
    BY <1>1, <1>2, NullAssumption DEF TokenAt, ChainRow
  <2>2. \A b \in Chains : b # c => TokenAt(<<"chain", b>>)' = TokenAt(<<"chain", b>>)
    BY <1>1, <1>2 DEF TokenAt, ChainRow
  <2>3. \A h \in Holders \ {<<"chain", c>>} : TokenAt(h)' = TokenAt(h)
    BY <1>2, <2>2, UntouchedTokens, EveryHolder
  <2> QED BY <1>2, <2>1, <2>3, HoldersOf, NewToken
<1>3. ASSUME NEW s \in Subs, NEW r \in SubRows, r.token = minted, sub' = [sub EXCEPT ![s] = r],
             UNCHANGED chain, minted' = minted + 1, revoked' \subseteq revoked \cup TokenAt(<<"sub", s>>)
      PROVE  TokenParts'
  <2>1. TokenAt(<<"sub", s>>)' = {minted}
    BY <1>1, <1>3, NullAssumption DEF TokenAt, SubRow
  <2>2. \A b \in Subs : b # s => TokenAt(<<"sub", b>>)' = TokenAt(<<"sub", b>>)
    BY <1>1, <1>3 DEF TokenAt, SubRow
  <2>3. \A h \in Holders \ {<<"sub", s>>} : TokenAt(h)' = TokenAt(h)
    BY <1>3, <2>2, UntouchedTokens, EveryHolder
  <2> QED BY <1>3, <2>1, <2>3, HoldersOf, NewToken
<1>4. ASSUME UNCHANGED <<chain, sub, revoked>>, minted' \in {minted, minted + 1} PROVE TokenParts'
  BY <1>4, SameTokens, UntouchedTokens, EveryHolder
<1>5. CASE insert_chain(t)
  <2>1. th[t].id \in Chains /\ [nodes |-> th[t].nodes, token |-> minted, linked |-> FALSE] \in ChainRows
    BY <1>1, <1>5 DEF insert_chain, IdFits, ThreadSet, ChainRows
  <2> QED BY <1>2, <1>4, <1>5, <2>1 DEF insert_chain
<1>6. CASE write_chain_token(t)
  <2> DEFINE c == th[t].id
  <2>1. c \in Chains
    BY <1>1, <1>6 DEF write_chain_token, IdFits
  <2>2. CASE ChainRow(c)
    <3>1. [chain[c] EXCEPT !.token = minted] \in ChainRows /\ [chain[c] EXCEPT !.token = minted].token = minted
      BY <1>1, <2>1, <2>2, RowTokens DEF ChainRows
    <3>2. chain' = [chain EXCEPT ![c] = [chain[c] EXCEPT !.token = minted]]
      BY <1>1, <1>6, <2>1, <2>2 DEF write_chain_token
    <3>3. UNCHANGED sub /\ minted' = minted + 1 /\ revoked' \subseteq revoked \cup TokenAt(<<"chain", c>>)
      BY <1>6, <2>1, <2>2 DEF write_chain_token, TokenAt
    <3> QED BY <1>2, <2>1, <3>1, <3>2, <3>3
  <2>3. CASE ~ChainRow(c)
    BY <1>4, <1>6, <2>3 DEF write_chain_token
  <2> QED BY <2>2, <2>3
<1>7. CASE write_subscription_token(t)
  <2> DEFINE s == th[t].id
  <2>1. s \in Subs
    BY <1>1, <1>7 DEF write_subscription_token, IdFits
  <2>2. CASE SubRow(s)
    <3>1. [sub[s] EXCEPT !.token = minted] \in SubRows /\ [sub[s] EXCEPT !.token = minted].token = minted
      BY <1>1, <2>1, <2>2, RowTokens DEF SubRows
    <3>2. sub' = [sub EXCEPT ![s] = [sub[s] EXCEPT !.token = minted]]
      BY <1>1, <1>7, <2>1, <2>2 DEF write_subscription_token
    <3>3. UNCHANGED chain /\ minted' = minted + 1 /\ revoked' \subseteq revoked \cup TokenAt(<<"sub", s>>)
      BY <1>7, <2>1, <2>2 DEF write_subscription_token, TokenAt
    <3> QED BY <1>3, <2>1, <3>1, <3>2, <3>3
  <2>3. CASE ~SubRow(s)
    BY <1>4, <1>7, <2>3 DEF write_subscription_token
  <2> QED BY <2>2, <2>3
<1>8. CASE write_subscription(t)
  <2> DEFINE s == th[t].id
  <2>1. s \in Subs /\ UNCHANGED <<chain, minted, revoked>>
    BY <1>1, <1>8 DEF write_subscription, IdFits
  <2>2. CASE UNCHANGED sub
    BY <1>4, <2>1, <2>2
  <2>3. CASE SubRow(s) /\ sub' = [sub EXCEPT ![s].users = th[t].users, ![s].chains = th[t].chains]
    <3>1. sub[s] \in SubRows /\ th[t].users \in SUBSET Users /\ th[t].chains \in SUBSET Chains
      BY <1>1, <2>1, <2>3, RowTokens DEF ThreadSet
    <3>2. sub'[s] \in SubRows /\ sub'[s].token = sub[s].token
      BY <1>1, <2>1, <2>3, <3>1 DEF SubRows
    <3>3. \A b \in Subs : b # s => sub'[b] = sub[b]
      BY <1>1, <2>1, <2>3
    <3>4. \A b \in Subs : TokenAt(<<"sub", b>>)' = TokenAt(<<"sub", b>>)
      BY <2>3, <3>2, <3>3, NullAssumption DEF TokenAt, SubRow
    <3> QED BY <2>1, <3>4, SameTokens, UntouchedTokens, EveryHolder
  <2> QED BY <1>8, <2>2, <2>3 DEF write_subscription
<1> QED BY <1>5, <1>6, <1>7, <1>8

\* Rows that go, and the subscription that is new.
LEMMA RowStepsKeepTokens ==
  ASSUME TokenInv,
         \/ \E d \in Deps : delete_deployment(d)
         \/ \E c \in Chains : finish_proxy_chain_deployment(c) \/ delete_proxy_chain(c)
         \/ \E s \in Subs : create_subscription(s) \/ delete_subscription(s)
  PROVE  TokenParts'
<1>1. /\ chain \in [Chains -> ChainRows \cup {NoRow}]
      /\ sub \in [Subs -> SubRows \cup {NoRow}]
      /\ RowsOK /\ minted \in Tokens
  BY DEF TokenInv, TypeInv, RowsOK, CountersOK, Tokens
<1>2. ASSUME NEW d \in Deps, delete_deployment(d) PROVE TokenParts'
  <2> DEFINE users == {u \in Users : NodeOf[u] = d}
             gone == {c \in Chains : ChainRow(c) /\ CascadeChain(c, d) = NoRow}
  <2>1. /\ chain' = [c \in Chains |-> CascadeChain(c, d)]
        /\ sub' = [s \in Subs |-> IF ~SubRow(s) THEN NoRow
                     ELSE [sub[s] EXCEPT !.users = @ \ users, !.chains = @ \ gone]]
        /\ revoked' = revoked \cup {chain[c].token : c \in gone}
        /\ UNCHANGED minted
    BY <1>2 DEF delete_deployment
  <2>2. \A c \in Chains : TokenAt(<<"chain", c>>)' = IF c \in gone THEN {} ELSE TokenAt(<<"chain", c>>)
    BY <2>1 DEF TokenAt, ChainRow, CascadeChain
  <2>3. \A c \in gone : TokenAt(<<"chain", c>>) = {chain[c].token}
    BY DEF TokenAt
  <2> HIDE DEF users, gone
  <2>4. \A s \in Subs : TokenAt(<<"sub", s>>)' \subseteq TokenAt(<<"sub", s>>)
    <3>1. ASSUME NEW s \in Subs, SubRow(s) PROVE sub'[s].token = sub[s].token
      <4>1. sub[s] \in SubRows
        BY <1>1, <3>1, RowTokens
      <4> QED BY <2>1, <3>1, <4>1 DEF SubRows
    <3>2. ASSUME NEW s \in Subs, ~SubRow(s) PROVE sub'[s] = NoRow
      BY <2>1, <3>2
    <3> QED BY <3>1, <3>2 DEF TokenAt, SubRow
  <2>5. \A h \in Holders : TokenAt(h)' \subseteq TokenAt(h)
    BY <2>2, <2>4, EveryHolder
  <2>6. \A k \in revoked' : k \in revoked \/ \E h \in Holders : k \in TokenAt(h) /\ k \notin TokenAt(h)'
    <3> SUFFICES ASSUME NEW c \in gone
                 PROVE \E h \in Holders : chain[c].token \in TokenAt(h) /\ chain[c].token \notin TokenAt(h)'
      BY <2>1
    <3>1. <<"chain", c>> \in Holders
      BY HoldersOf DEF gone
    <3> QED BY <2>2, <2>3, <3>1 DEF gone
  <2> QED BY <2>1, <2>5, <2>6, FewerTokens
<1>3. ASSUME NEW c \in Chains, finish_proxy_chain_deployment(c) PROVE TokenParts'
  <2>1. chain[c] \in ChainRows /\ ChainRow(c) /\ UNCHANGED <<sub, minted, revoked>>
    BY <1>1, <1>3, RowTokens DEF finish_proxy_chain_deployment
  <2>2. chain'[c] \in ChainRows /\ chain'[c].token = chain[c].token
    BY <1>1, <1>3, <2>1 DEF finish_proxy_chain_deployment, ChainRows
  <2>3. \A b \in Chains : b # c => chain'[b] = chain[b]
    BY <1>1, <1>3 DEF finish_proxy_chain_deployment
  <2>4. \A b \in Chains : TokenAt(<<"chain", b>>)' = TokenAt(<<"chain", b>>)
    BY <2>1, <2>2, <2>3, NullAssumption DEF TokenAt, ChainRow
  <2> QED BY <2>1, <2>4, SameTokens, UntouchedTokens, EveryHolder
<1>4. ASSUME NEW c \in Chains, delete_proxy_chain(c) PROVE TokenParts'
  <2>1. /\ chain' = [chain EXCEPT ![c] = NoRow] /\ UNCHANGED minted
        /\ sub' = [s \in Subs |-> IF ~SubRow(s) THEN NoRow ELSE [sub[s] EXCEPT !.chains = @ \ {c}]]
        /\ revoked' = revoked \cup TokenAt(<<"chain", c>>)
    BY <1>4, HoldersOf DEF delete_proxy_chain
  <2>2. \A b \in Chains : TokenAt(<<"chain", b>>)' = IF b = c THEN {} ELSE TokenAt(<<"chain", b>>)
    BY <1>1, <2>1 DEF TokenAt, ChainRow
  <2>3. \A s \in Subs : TokenAt(<<"sub", s>>)' \subseteq TokenAt(<<"sub", s>>)
    <3>1. ASSUME NEW s \in Subs, SubRow(s) PROVE sub'[s].token = sub[s].token
      <4>1. sub[s] \in SubRows
        BY <1>1, <3>1, RowTokens
      <4> QED BY <2>1, <3>1, <4>1 DEF SubRows
    <3>2. ASSUME NEW s \in Subs, ~SubRow(s) PROVE sub'[s] = NoRow
      BY <2>1, <3>2
    <3> QED BY <3>1, <3>2 DEF TokenAt, SubRow
  <2>4. \A h \in Holders : TokenAt(h)' \subseteq TokenAt(h)
    BY <2>2, <2>3, EveryHolder
  <2> QED BY <2>1, <2>2, <2>4, HoldersOf, FewerTokens
<1>5. ASSUME NEW s \in Subs, create_subscription(s) PROVE TokenParts'
  <2> DEFINE row == [token |-> minted, users |-> {}, chains |-> {}]
  <2>1. sub' = [sub EXCEPT ![s] = row] /\ minted' = minted + 1 /\ UNCHANGED <<chain, revoked>>
    BY <1>5 DEF create_subscription
  <2>2. row \in SubRows /\ row.token = minted
    BY <1>1 DEF SubRows
  <2>3. TokenAt(<<"sub", s>>)' = {minted}
    BY <1>1, <2>1, <2>2, NullAssumption DEF TokenAt, SubRow
  <2>4. \A b \in Subs : b # s => TokenAt(<<"sub", b>>)' = TokenAt(<<"sub", b>>)
    BY <1>1, <2>1 DEF TokenAt, SubRow
  <2>5. \A h \in Holders \ {<<"sub", s>>} : TokenAt(h)' = TokenAt(h)
    BY <2>1, <2>4, UntouchedTokens, EveryHolder
  <2> QED BY <2>1, <2>3, <2>5, HoldersOf, NewToken
<1>6. ASSUME NEW s \in Subs, delete_subscription(s) PROVE TokenParts'
  <2>1. sub' = [sub EXCEPT ![s] = NoRow] /\ UNCHANGED <<chain, minted>>
        /\ revoked' = revoked \cup TokenAt(<<"sub", s>>)
    BY <1>6, HoldersOf DEF delete_subscription
  <2>2. \A b \in Subs : TokenAt(<<"sub", b>>)' = IF b = s THEN {} ELSE TokenAt(<<"sub", b>>)
    BY <1>1, <2>1 DEF TokenAt, SubRow
  <2>3. \A h \in Holders : TokenAt(h)' \subseteq TokenAt(h)
    BY <2>1, <2>2, UntouchedTokens, EveryHolder
  <2> QED BY <2>1, <2>2, <2>3, HoldersOf, FewerTokens
<1> QED BY <1>2, <1>3, <1>4, <1>5, <1>6

LEMMA StepKeepsTokens == TokenInv /\ [Next]_vars => TokenInv'
<1> SUFFICES ASSUME TokenInv, [Next]_vars PROVE TokenParts'
  BY StepKeepsType DEF TokenInv
<1>1. ASSUME UNCHANGED <<chain, sub, minted, revoked>> PROVE TokenParts'
  BY <1>1, SameTokens, UntouchedTokens, EveryHolder
<1>2. ASSUME NEW t \in Threads, RequestNext(t) PROVE TokenParts'
  <2>1. CASE insert_chain(t) \/ write_chain_token(t) \/ write_subscription(t) \/ write_subscription_token(t)
    BY <2>1, WritesKeepTokens
  <2>2. CASE ~(insert_chain(t) \/ write_chain_token(t) \/ write_subscription(t) \/ write_subscription_token(t))
    <3>1. UNCHANGED <<chain, sub, minted, revoked>>
      BY <1>2, <2>2 DEF RequestNext, create_client, rotate_proxy_chain_token, create_proxy_chain,
        rotate_subscription_token, update_managed_subscription_users, update_managed_subscription,
        update_subscription_config, insert_client, write_subscription_config
    <3> QED BY <1>1, <3>1
  <2> QED BY <2>1, <2>2
<1>3. CASE \/ \E d \in Deps : delete_deployment(d)
           \/ \E c \in Chains : finish_proxy_chain_deployment(c) \/ delete_proxy_chain(c)
           \/ \E s \in Subs : create_subscription(s) \/ delete_subscription(s)
  BY <1>3, RowStepsKeepTokens
<1>4. CASE \/ UNCHANGED vars
           \/ \E d \in Deps : (\E p \in Ports : start_deployment(d, p)) \/ deployment_ready(d)
  BY <1>1, <1>4 DEF vars, start_deployment, deployment_ready
<1> QED BY <1>2, <1>3, <1>4 DEF Next

\* A token that was replaced or whose row is gone is in no row again, though
\* rotations read their row long before they write it.
THEOREM RevokedStaysDead == Spec => []RevokedIsDead
<1>1. Init => TokenInv
  <2> SUFFICES ASSUME Init PROVE TokenParts
    BY InitType DEF TokenInv
  <2> QED BY DEF Init, TokenParts, TokenAt, Holders, ChainRow, SubRow
<1>2. TokenInv => RevokedIsDead
  BY HoldersOf DEF TokenInv, TokenParts, RevokedIsDead
<1> QED BY <1>1, <1>2, StepKeepsTokens, PTL DEF Spec
=============================================================================
