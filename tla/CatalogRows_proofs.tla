------------------------- MODULE CatalogRows_proofs -------------------------
(***************************************************************************)
(* Theorems about what the rows of Catalog refer to, whatever was deleted  *)
(* between the reads of a request and its transaction.                     *)
(***************************************************************************)
EXTENDS Catalog_proofs

\* A chain that is being inserted has an id nobody else knows: it has no row
\* yet, no request has selected it, no other request inserts it.
NewChains ==
    \A q \in Threads : th[q].pc = "insert_chain" =>
      /\ th[q].id \in ids /\ ~ChainRow(th[q].id) /\ Cardinality(th[q].nodes) >= 2
      /\ \A t \in Threads :
           /\ th[t].pc = "update_sub" => th[q].id \notin th[t].chains
           /\ th[t].pc = "insert_chain" /\ th[t].id = th[q].id => t = q

\* Ids are not given out again, so a chain that a request has selected is
\* linked or gone for good.
ChosenChains ==
    /\ \A c \in Chains : ChainRow(c) => c \in ids
    /\ \A t \in Threads : th[t].pc = "update_sub" =>
         \A c \in th[t].chains : c \in ids /\ (ChainRow(c) => chain[c].linked)

RowParts == RowsWhole /\ NewChains /\ ChosenChains /\ EntriesLinked
RowInv == TypeInv /\ RowParts

LEMMA RowTypes ==
  ASSUME TypeInv
  PROVE  /\ RowsOK /\ ThreadsOK /\ ids \subseteq Ids /\ minted \in Nat
         /\ \A t \in Threads : /\ th[t] \in ThreadSet
                               /\ th[t].pc = "insert_chain" => th[t].id \in Chains
         /\ \A c \in Chains : ChainRow(c) => chain[c] \in ChainRows
         /\ \A s \in Subs : SubRow(s) => sub[s] \in SubRows
BY RowTokens DEF TypeInv, ThreadsOK, CountersOK, IdFits

\* Threads that keep to their step or leave it, while no chain appears and
\* none loses its link.
LEMMA ThreadsKept ==
  ASSUME TypeInv, NewChains, ChosenChains, ids \subseteq ids',
         \A q \in Threads : th'[q] = th[q] \/ th'[q].pc \notin {"insert_chain", "update_sub"},
         \A c \in Chains : ChainRow(c)' => ChainRow(c) /\ (chain[c].linked => chain'[c].linked)
  PROVE  NewChains' /\ ChosenChains'
<1>1. NewChains'
  <2> SUFFICES ASSUME NEW q \in Threads, th'[q].pc = "insert_chain"
               PROVE  /\ th'[q].id \in ids' /\ ~ChainRow(th[q].id)' /\ Cardinality(th'[q].nodes) >= 2
                      /\ th'[q] = th[q]
                      /\ \A t \in Threads :
                           /\ th'[t].pc = "update_sub" => th'[q].id \notin th'[t].chains
                           /\ th'[t].pc = "insert_chain" /\ th'[t].id = th'[q].id => t = q
    BY DEF NewChains, ChainRow
  <2>1. th'[q] = th[q] /\ th[q].id \in Chains
    BY RowTypes
  <2> QED BY <2>1 DEF NewChains
<1>2. ChosenChains'
  <2>1. \A c \in Chains : ChainRow(c)' => c \in ids'
    BY DEF ChosenChains
  <2>2. ASSUME NEW t \in Threads, th'[t].pc = "update_sub", NEW c \in th'[t].chains
        PROVE  c \in ids' /\ (ChainRow(c)' => chain'[c].linked)
    <3>1. th'[t] = th[t] /\ c \in Chains
      BY <2>2, RowTypes DEF ThreadSet
    <3> QED BY <2>2, <3>1 DEF ChosenChains
  <2> QED BY <2>1, <2>2 DEF ChosenChains, ChainRow
<1> QED BY <1>1, <1>2

\* A thread moves to a step that neither inserts nor selects.
LEMMA LeavesSteps ==
  ASSUME TypeInv, NEW t \in Threads, NEW next, next.pc \notin {"insert_chain", "update_sub"},
         Goto(t, next)
  PROVE  \A q \in Threads : th'[q] = th[q] \/ th'[q].pc \notin {"insert_chain", "update_sub"}
BY DEF Goto, TypeInv, ThreadsOK

\* Rows as they were, a subscription apart perhaps.
LEMMA SameRows ==
  ASSUME RowInv, UNCHANGED <<proxy, client, chain, sub, nodeSub>>
  PROVE  RowsWhole' /\ EntriesLinked'
BY DEF RowInv, RowParts, RowsWhole, EntriesLinked, ChainNodes, ChainRow, SubRow, DepRow

\* The reads that select no chain.
LEMMA ReadsKeepRows ==
  ASSUME RowInv, NEW t \in Threads,
         \/ \E u \in Users : create_client(t, u)
         \/ \E c \in Chains : rotate_proxy_chain_token(t, c)
         \/ \E s \in Subs : rotate_subscription_token(t, s)
         \/ \E d \in Deps, users \in SUBSET Users : update_subscription_config(t, d, users)
  PROVE  RowParts'
<1>1. /\ UNCHANGED <<proxy, client, chain, sub, nodeSub>> /\ ids \subseteq ids'
      /\ \E next : next.pc \notin {"insert_chain", "update_sub"} /\ Goto(t, next)
  <2>1. \A pc, id, nodes, users, chains : Thread(pc, id, nodes, users, chains).pc = pc
    BY DEF Thread
  <2>2. ids' = ids => ids \subseteq ids'
    OBVIOUS
  <2>3. CASE \E u \in Users : create_client(t, u)
    <3>1. PICK u \in Users : create_client(t, u)
      BY <2>3
    <3> QED BY <2>1, <3>1 DEF create_client
  <2>4. CASE \E c \in Chains : rotate_proxy_chain_token(t, c)
    BY <2>1, <2>2, <2>4 DEF rotate_proxy_chain_token
  <2>5. CASE \E s \in Subs : rotate_subscription_token(t, s)
    BY <2>1, <2>2, <2>5 DEF rotate_subscription_token
  <2>6. CASE \E d \in Deps, users \in SUBSET Users : update_subscription_config(t, d, users)
    BY <2>1, <2>2, <2>6 DEF update_subscription_config
  <2> QED BY <2>3, <2>4, <2>5, <2>6
<1>2. RowsWhole' /\ EntriesLinked'
  BY <1>1, SameRows
<1>3. \A c \in Chains : ChainRow(c)' => ChainRow(c) /\ (chain[c].linked => chain'[c].linked)
  BY <1>1 DEF ChainRow
<1>4. NewChains' /\ ChosenChains'
  BY <1>1, <1>3, LeavesSteps, ThreadsKept DEF RowInv, RowParts
<1> QED BY <1>2, <1>4 DEF RowParts

\* create_proxy_chain takes an id that has not been used.
LEMMA CreateChainKeepsRows ==
  ASSUME RowInv, NEW t \in Threads, NEW c \in Chains, NEW nodes \in SUBSET Nodes,
         create_proxy_chain(t, c, nodes)
  PROVE  RowParts'
<1> DEFINE next == Thread("insert_chain", c, nodes, {}, {})
<1>1. /\ UNCHANGED <<proxy, client, chain, sub, nodeSub>> /\ c \notin ids /\ ids' = ids \cup {c}
      /\ Cardinality(nodes) >= 2 /\ Goto(t, next)
  BY DEF create_proxy_chain
<1>2. next.pc = "insert_chain" /\ next.id = c /\ next.nodes = nodes
  BY DEF Thread
<1>3. th'[t] = next /\ \A q \in Threads : q # t => th'[q] = th[q]
  BY <1>1, RowTypes DEF RowInv, Goto, ThreadsOK
<1> HIDE DEF next
<1>4. RowsWhole' /\ EntriesLinked'
  BY <1>1, SameRows
<1>5. ~ChainRow(c) /\ \A q \in Threads :
        /\ th[q].pc = "update_sub" => c \notin th[q].chains
        /\ th[q].pc = "insert_chain" => th[q].id # c
  BY <1>1 DEF RowInv, RowParts, NewChains, ChosenChains
<1>6. NewChains'
  BY <1>1, <1>2, <1>3, <1>5 DEF RowInv, RowParts, NewChains, ChainRow
<1>7. ChosenChains'
  BY <1>1, <1>2, <1>3 DEF RowInv, RowParts, ChosenChains, ChainRow
<1> QED BY <1>4, <1>6, <1>7 DEF RowParts

\* A request that selects chains reads them with their links, or reads the
\* entries there are.
LEMMA SelectKeepsRows ==
  ASSUME RowInv, NEW t \in Threads, NEW s \in Subs, NEW users \in SUBSET Users,
         \/ update_managed_subscription_users(t, s, users)
         \/ \E chains \in SUBSET Chains : update_managed_subscription(t, s, users, chains)
  PROVE  RowParts'
<1>1. /\ UNCHANGED <<proxy, client, chain, sub, nodeSub, ids>>
      /\ \E chains \in SUBSET Chains :
           /\ Goto(t, Thread("update_sub", s, {}, users, chains))
           /\ \A c \in chains : ChainRow(c) /\ chain[c].linked
  <2>1. CASE update_managed_subscription_users(t, s, users)
    <3>1. SubRow(s) /\ sub[s] \in SubRows
      BY <2>1, RowTypes DEF update_managed_subscription_users, RowInv
    <3>2. sub[s].chains \in SUBSET Chains /\ \A c \in sub[s].chains : ChainRow(c) /\ chain[c].linked
      BY <3>1 DEF RowInv, RowParts, RowsWhole, EntriesLinked, SubRows
    <3> QED BY <2>1, <3>2 DEF update_managed_subscription_users
  <2>2. CASE \E chains \in SUBSET Chains : update_managed_subscription(t, s, users, chains)
    BY <2>2 DEF update_managed_subscription
  <2> QED BY <2>1, <2>2
<1>2. PICK chains \in SUBSET Chains :
        /\ Goto(t, Thread("update_sub", s, {}, users, chains))
        /\ \A c \in chains : ChainRow(c) /\ chain[c].linked
  BY <1>1
<1> DEFINE next == Thread("update_sub", s, {}, users, chains)
<1>3. next.pc = "update_sub" /\ next.chains = chains
  BY DEF Thread
<1>4. th'[t] = next /\ \A q \in Threads : q # t => th'[q] = th[q]
  BY <1>2, RowTypes DEF RowInv, Goto, ThreadsOK
<1> HIDE DEF next
<1>5. RowsWhole' /\ EntriesLinked'
  BY <1>1, SameRows
<1>6. NewChains'
  <2> SUFFICES ASSUME NEW q \in Threads, th'[q].pc = "insert_chain"
               PROVE  /\ th'[q].id \in ids /\ ~ChainRow(th'[q].id) /\ Cardinality(th'[q].nodes) >= 2
                      /\ \A r \in Threads :
                           /\ th'[r].pc = "update_sub" => th'[q].id \notin th'[r].chains
                           /\ th'[r].pc = "insert_chain" /\ th'[r].id = th'[q].id => r = q
    BY <1>1 DEF NewChains, ChainRow
  <2>1. q # t /\ th'[q] = th[q]
    BY <1>3, <1>4
  <2>2. th[q].id \in ids /\ ~ChainRow(th[q].id) /\ Cardinality(th[q].nodes) >= 2
    BY <2>1 DEF RowInv, RowParts, NewChains
  <2>3. th[q].id \notin chains
    BY <1>2, <2>2
  <2> QED BY <1>3, <1>4, <2>1, <2>2, <2>3 DEF RowInv, RowParts, NewChains
<1>7. ChosenChains'
  BY <1>1, <1>2, <1>3, <1>4 DEF RowInv, RowParts, ChosenChains, ChainRow
<1> QED BY <1>5, <1>6, <1>7 DEF RowParts

\* The transaction of create_client: with the deployment, or not at all.
LEMMA InsertClientKeepsRows ==
  ASSUME RowInv, NEW t \in Threads, insert_client(t)
  PROVE  RowParts'
<1> DEFINE u == th[t].id
           d == NodeOf[u]
<1>1. /\ u \in Users /\ d \in Deps /\ UNCHANGED <<proxy, chain, sub, ids>> /\ Goto(t, IdleThread)
      /\ DepRow(d) /\ th[t].users # {} => nodeSub[d] # NoUrl
      /\ nodeSub \in [Deps -> (SUBSET Users) \cup {NoUrl}] /\ client \subseteq Users
  BY NodeAssumption DEF RowInv, TypeInv, ThreadsOK, RowsOK, IdFits, FreshIds, insert_client
<1>2. \/ UNCHANGED <<client, nodeSub>>
      \/ DepRow(d) /\ client' = client \cup {u} /\ nodeSub' = nodeSub
      \/ /\ DepRow(d) /\ client' = client \cup {u} /\ nodeSub[d] # NoUrl
         /\ nodeSub' = [nodeSub EXCEPT ![d] = @ \cup {u}]
  BY <1>1 DEF insert_client, ForeignKeys
<1> HIDE DEF u
<1>3. client \subseteq client' /\ \A v \in client' : DepRow(NodeOf[v])
  BY <1>2 DEF RowInv, RowParts, RowsWhole
<1>4. \A e \in Deps : nodeSub'[e] # NoUrl => DepRow(e) /\ nodeSub'[e] \subseteq client'
  BY <1>1, <1>2, <1>3 DEF RowInv, RowParts, RowsWhole
<1>5. RowsWhole'
  BY <1>1, <1>3, <1>4 DEF RowInv, RowParts, RowsWhole, DepRow, SubRow, ChainRow, ChainNodes
<1>6. EntriesLinked'
  BY <1>1 DEF RowInv, RowParts, EntriesLinked, SubRow, ChainRow
<1>7. \A c \in Chains : ChainRow(c)' => ChainRow(c) /\ (chain[c].linked => chain'[c].linked)
  BY <1>1 DEF ChainRow
<1>8. NewChains' /\ ChosenChains'
  BY <1>1, <1>7, IdleType, LeavesSteps, ThreadsKept DEF RowInv, RowParts
<1> QED BY <1>5, <1>6, <1>8 DEF RowParts

\* The transaction of create_proxy_chain: with all its deployments, or not at all.
LEMMA InsertChainKeepsRows ==
  ASSUME RowInv, NEW t \in Threads, insert_chain(t)
  PROVE  RowParts'
<1>0. PICK id \in Chains : id = th[t].id
  BY RowTypes DEF RowInv, insert_chain
<1> DEFINE new == [nodes |-> th[t].nodes, token |-> minted, linked |-> FALSE]
<1>1. /\ th[t].nodes \in SUBSET Nodes /\ new \in ChainRows
      /\ chain \in [Chains -> ChainRows \cup {NoRow}]
      /\ UNCHANGED <<proxy, client, sub, nodeSub, ids>> /\ Goto(t, IdleThread)
  BY RowTypes DEF RowInv, RowsOK, insert_chain, ThreadSet, ChainRows, Tokens
<1>2. ~ChainRow(id) /\ id \in ids /\ Cardinality(th[t].nodes) >= 2
  BY <1>0 DEF RowInv, RowParts, NewChains, insert_chain
<1>3. \A q \in Threads : q # t /\ th[q].pc = "insert_chain" => th[q].id # id
  BY <1>0 DEF RowInv, RowParts, NewChains, insert_chain
<1>4. \A q \in Threads : th[q].pc = "update_sub" => id \notin th[q].chains
  BY <1>0 DEF RowInv, RowParts, NewChains, insert_chain
<1>5. \/ UNCHANGED chain
      \/ (\A n \in th[t].nodes : DepRow(n[1])) /\ chain' = [chain EXCEPT ![id] = new]
  BY <1>0 DEF insert_chain, ForeignKeys
<1>6. th'[t] = IdleThread /\ \A q \in Threads : q # t => th'[q] = th[q]
  BY <1>1, RowTypes DEF RowInv, Goto, ThreadsOK
<1>7. \A c \in Chains : chain'[c] = chain[c] \/ (c = id /\ chain'[c] = new)
  BY <1>1, <1>5
<1>8. ChainRow(id)' => chain'[id] = new /\ \A n \in new.nodes : DepRow(n[1])
  BY <1>1, <1>2, <1>5 DEF ChainRow
<1>9. new.nodes = th[t].nodes
  OBVIOUS
<1> HIDE DEF new
<1>10. \A c \in Chains : ChainRow(c) => ChainRow(c)' /\ chain'[c] = chain[c]
  BY <1>2, <1>7 DEF ChainRow
<1>11. \A c \in Chains : ChainRow(c)' => ChainRow(c) \/ c = id
  BY <1>7 DEF ChainRow
<1>12. RowsWhole'
  <2>1. \A c \in Chains : \A n \in ChainNodes(c)' : DepRow(n[1])'
    <3> SUFFICES ASSUME NEW c \in Chains, ChainRow(c)', NEW n \in chain'[c].nodes PROVE DepRow(n[1])'
      BY DEF ChainNodes, ChainRow
    <3>1. CASE ChainRow(c)
      BY <1>1, <1>10, <3>1 DEF RowInv, RowParts, RowsWhole, ChainNodes, DepRow
    <3>2. CASE ~ChainRow(c)
      BY <1>1, <1>8, <1>11, <3>2 DEF DepRow
    <3> QED BY <3>1, <3>2
  <2>2. \A c \in Chains : ChainRow(c)' => Cardinality(chain'[c].nodes) >= 2
    BY <1>2, <1>8, <1>9, <1>10, <1>11 DEF RowInv, RowParts, RowsWhole
  <2>3. \A s \in Subs : SubRow(s)' =>
          sub'[s].users \subseteq client' /\ \A c \in sub'[s].chains : ChainRow(c)'
    <3> SUFFICES ASSUME NEW s \in Subs, SubRow(s)
                 PROVE  sub[s].users \subseteq client /\ \A c \in sub[s].chains : ChainRow(c)'
      BY <1>1 DEF SubRow
    <3>1. sub[s].chains \in SUBSET Chains
      BY RowTypes DEF RowInv, SubRows
    <3> QED BY <1>10, <3>1 DEF RowInv, RowParts, RowsWhole
  <2> QED BY <1>1, <2>1, <2>2, <2>3 DEF RowInv, RowParts, RowsWhole, DepRow, SubRow, ChainRow, ChainNodes
<1>13. EntriesLinked'
  <2> SUFFICES ASSUME NEW s \in Subs, SubRow(s), NEW c \in sub[s].chains, ChainRow(c)'
               PROVE  chain'[c].linked
    BY <1>1 DEF EntriesLinked, SubRow, ChainRow
  <2>1. ChainRow(c) /\ c \in Chains
    BY RowTypes DEF RowInv, RowParts, RowsWhole, SubRows
  <2> QED BY <1>10, <2>1 DEF RowInv, RowParts, EntriesLinked
<1>14. NewChains'
  <2> SUFFICES ASSUME NEW q \in Threads, th'[q].pc = "insert_chain"
               PROVE  /\ th'[q].id \in ids /\ ~ChainRow(th[q].id)' /\ Cardinality(th'[q].nodes) >= 2
                      /\ \A r \in Threads :
                           /\ th'[r].pc = "update_sub" => th'[q].id \notin th'[r].chains
                           /\ th'[r].pc = "insert_chain" /\ th'[r].id = th'[q].id => r = q
    BY <1>1 DEF NewChains, ChainRow
  <2>1. q # t /\ th'[q] = th[q] /\ th[q].id \in Chains
    BY <1>6, IdleType, RowTypes DEF RowInv
  <2>2. ~ChainRow(th[q].id)'
    BY <1>3, <1>11, <2>1 DEF RowInv, RowParts, NewChains
  <2> QED BY <1>6, IdleType, <2>1, <2>2 DEF RowInv, RowParts, NewChains
<1>15. ChosenChains'
  <2>1. \A c \in Chains : ChainRow(c)' => c \in ids'
    BY <1>1, <1>2, <1>11 DEF RowInv, RowParts, ChosenChains
  <2>2. ASSUME NEW q \in Threads, th'[q].pc = "update_sub", NEW c \in th'[q].chains
        PROVE  c \in ids' /\ (ChainRow(c)' => chain'[c].linked)
    <3>1. th'[q] = th[q] /\ c \in Chains
      BY <1>6, <2>2, IdleType, RowTypes DEF RowInv, ThreadSet
    <3>2. c # id
      BY <1>4, <2>2, <3>1
    <3> QED BY <1>1, <1>10, <1>11, <2>2, <3>1, <3>2 DEF RowInv, RowParts, ChosenChains
  <2> QED BY <2>1, <2>2 DEF ChosenChains, ChainRow
<1> QED BY <1>12, <1>13, <1>14, <1>15 DEF RowParts

\* A chain that keeps its nodes and its link, and entries that become fewer or
\* refer to what is there.
LEMMA RowsKept ==
  ASSUME RowInv, UNCHANGED <<proxy, client, nodeSub>>,
         \A c \in Chains : ChainRow(c)' <=> ChainRow(c),
         \A c \in Chains : ChainRow(c) => /\ chain'[c].nodes = chain[c].nodes
                                          /\ chain[c].linked => chain'[c].linked,
         \A s \in Subs : SubRow(s)' =>
           /\ sub'[s].users \subseteq client
           /\ \A c \in sub'[s].chains : c \in Chains /\ ChainRow(c) /\ chain[c].linked
  PROVE  RowsWhole' /\ EntriesLinked'
<1>1. \A c \in Chains : \A n \in ChainNodes(c)' : DepRow(n[1])'
  BY DEF RowInv, RowParts, RowsWhole, ChainNodes, DepRow
<1>2. \A c \in Chains : ChainRow(c)' => Cardinality(chain'[c].nodes) >= 2
  BY DEF RowInv, RowParts, RowsWhole
<1>3. \A s \in Subs : SubRow(s)' =>
        /\ sub'[s].users \subseteq client'
        /\ \A c \in sub'[s].chains : ChainRow(c)' /\ chain'[c].linked
  OBVIOUS
<1>4. RowsWhole'
  BY <1>1, <1>2, <1>3 DEF RowInv, RowParts, RowsWhole, DepRow, SubRow, ChainRow, ChainNodes
<1>5. EntriesLinked'
  BY <1>3 DEF EntriesLinked, SubRow, ChainRow
<1> QED BY <1>4, <1>5

\* The entries that are there before a step.
LEMMA EntriesNow ==
  ASSUME RowInv
  PROVE  \A s \in Subs : SubRow(s) =>
           /\ sub[s].users \subseteq client
           /\ \A c \in sub[s].chains : c \in Chains /\ ChainRow(c) /\ chain[c].linked
BY RowTypes DEF RowInv, RowParts, RowsWhole, EntriesLinked, SubRows

\* The transactions on rows that are there.
LEMMA WritesKeepRows ==
  ASSUME RowInv, NEW t \in Threads,
         \/ write_chain_token(t) \/ write_subscription(t)
         \/ write_subscription_token(t) \/ write_subscription_config(t)
  PROVE  RowParts'
<1>1. /\ chain \in [Chains -> ChainRows \cup {NoRow}] /\ sub \in [Subs -> SubRows \cup {NoRow}]
      /\ nodeSub \in [Deps -> (SUBSET Users) \cup {NoUrl}]
      /\ th[t] \in ThreadSet /\ IdFits(th[t]) /\ minted \in Tokens
  BY DEF RowInv, TypeInv, RowsOK, ThreadsOK, CountersOK, Tokens
<1>2. Goto(t, IdleThread) /\ UNCHANGED <<proxy, client, ids>>
  BY DEF write_chain_token, write_subscription, write_subscription_token, write_subscription_config
<1>3. ASSUME \A c \in Chains : ChainRow(c)' => ChainRow(c) /\ (chain[c].linked => chain'[c].linked),
             RowsWhole', EntriesLinked'
      PROVE  RowParts'
  <2>1. NewChains' /\ ChosenChains'
    BY <1>2, <1>3, IdleType, LeavesSteps, ThreadsKept DEF RowInv, RowParts
  <2> QED BY <1>3, <2>1 DEF RowParts
<1>4. UNCHANGED chain => /\ \A c \in Chains : ChainRow(c)' <=> ChainRow(c)
                         /\ \A c \in Chains : chain'[c] = chain[c]
  BY DEF ChainRow
<1>5. CASE write_chain_token(t)
  <2>1. PICK c \in Chains : c = th[t].id
    BY <1>1, <1>5 DEF write_chain_token, IdFits
  <2>2. UNCHANGED <<sub, nodeSub>>
    BY <1>5 DEF write_chain_token
  <2>3. CASE ChainRow(c)
    <3>1. chain[c] \in ChainRows /\ chain' = [chain EXCEPT ![c].token = minted]
      BY <1>5, <2>1, <2>3, RowTypes DEF write_chain_token, RowInv
    <3>2. chain'[c] \in ChainRows /\ chain'[c].nodes = chain[c].nodes /\ chain'[c].linked = chain[c].linked
      BY <1>1, <2>1, <3>1 DEF ChainRows
    <3>3. \A b \in Chains : b # c => chain'[b] = chain[b]
      BY <1>1, <3>1
    <3>4. \A b \in Chains : /\ ChainRow(b)' <=> ChainRow(b)
                            /\ chain'[b].nodes = chain[b].nodes /\ chain'[b].linked = chain[b].linked
      BY <2>3, <3>2, <3>3, NullAssumption DEF ChainRow
    <3>5. \A s \in Subs : SubRow(s)' <=> SubRow(s)
      BY <2>2 DEF SubRow
    <3>6. RowsWhole' /\ EntriesLinked'
      BY <1>2, <2>2, <3>4, <3>5, EntriesNow, RowsKept
    <3> QED BY <1>3, <3>4, <3>6
  <2>4. CASE ~ChainRow(c)
    <3>1. UNCHANGED chain
      BY <1>5, <2>1, <2>4 DEF write_chain_token
    <3> QED BY <1>2, <1>3, <1>4, <2>2, <3>1, SameRows
  <2> QED BY <2>3, <2>4
<1>6. CASE write_subscription(t)
  <2>1. PICK s \in Subs : s = th[t].id
    BY <1>1, <1>6 DEF write_subscription, IdFits
  <2>2. UNCHANGED <<chain, nodeSub>> /\ th[t].pc = "update_sub"
    BY <1>6 DEF write_subscription
  <2>3. CASE UNCHANGED sub
    BY <1>2, <1>3, <1>4, <2>2, <2>3, SameRows
  <2>4. CASE /\ SubRow(s) /\ th[t].users \subseteq client /\ \A c \in th[t].chains : ChainRow(c)
             /\ sub' = [sub EXCEPT ![s].users = th[t].users, ![s].chains = th[t].chains]
    <3>1. sub[s] \in SubRows
      BY <2>4, RowTypes DEF RowInv
    <3>2. sub'[s].users = th[t].users /\ sub'[s].chains = th[t].chains
      BY <1>1, <2>4, <3>1 DEF SubRows
    <3>3. \A r \in Subs : r # s => sub'[r] = sub[r]
      BY <1>1, <2>4
    <3>4. \A c \in th[t].chains : c \in Chains /\ ChainRow(c) /\ chain[c].linked
      BY <1>1, <2>2, <2>4 DEF RowInv, RowParts, ChosenChains, ThreadSet
    <3>5. \A r \in Subs : SubRow(r)' =>
            /\ sub'[r].users \subseteq client
            /\ \A c \in sub'[r].chains : c \in Chains /\ ChainRow(c) /\ chain[c].linked
      BY <2>4, <3>2, <3>3, <3>4, EntriesNow DEF SubRow
    <3>6. RowsWhole' /\ EntriesLinked'
      BY <1>2, <1>4, <2>2, <3>5, RowsKept
    <3> QED BY <1>3, <1>4, <2>2, <3>6
  <2> QED BY <1>6, <2>1, <2>3, <2>4 DEF write_subscription, ForeignKeys
<1>7. CASE write_subscription_token(t)
  <2>1. PICK s \in Subs : s = th[t].id
    BY <1>1, <1>7 DEF write_subscription_token, IdFits
  <2>2. UNCHANGED <<chain, nodeSub>>
    BY <1>7 DEF write_subscription_token
  <2>3. CASE SubRow(s)
    <3>1. sub[s] \in SubRows /\ sub' = [sub EXCEPT ![s].token = minted]
      BY <1>7, <2>1, <2>3, RowTypes DEF write_subscription_token, RowInv
    <3>2. sub'[s].users = sub[s].users /\ sub'[s].chains = sub[s].chains
      BY <1>1, <3>1 DEF SubRows
    <3>3. \A r \in Subs : r # s => sub'[r] = sub[r]
      BY <1>1, <3>1
    <3>4. \A r \in Subs : SubRow(r)' =>
            /\ sub'[r].users \subseteq client
            /\ \A c \in sub'[r].chains : c \in Chains /\ ChainRow(c) /\ chain[c].linked
      BY <2>3, <3>2, <3>3, EntriesNow DEF SubRow
    <3>5. RowsWhole' /\ EntriesLinked'
      BY <1>2, <1>4, <2>2, <3>4, RowsKept
    <3> QED BY <1>3, <1>4, <2>2, <3>5
  <2>4. CASE ~SubRow(s)
    <3>1. UNCHANGED sub
      BY <1>7, <2>1, <2>4 DEF write_subscription_token
    <3> QED BY <1>2, <1>3, <1>4, <2>2, <3>1, SameRows
  <2> QED BY <2>3, <2>4
<1>8. CASE write_subscription_config(t)
  <2>1. PICK d \in Deps : d = th[t].id
    BY <1>1, <1>8 DEF write_subscription_config, IdFits
  <2>2. /\ UNCHANGED <<chain, sub>>
        /\ \/ UNCHANGED nodeSub
           \/ /\ DepRow(d) /\ th[t].users \subseteq client
              /\ nodeSub' = [nodeSub EXCEPT ![d] = th[t].users]
    BY <1>8, <2>1 DEF write_subscription_config, ForeignKeys
  <2>3. \A e \in Deps : nodeSub'[e] # NoUrl => DepRow(e) /\ nodeSub'[e] \subseteq client
    BY <1>1, <2>2 DEF RowInv, RowParts, RowsWhole
  <2>4. RowsWhole'
    BY <1>2, <2>2, <2>3 DEF RowInv, RowParts, RowsWhole, DepRow, SubRow, ChainRow, ChainNodes
  <2>5. EntriesLinked'
    BY <2>2 DEF RowInv, RowParts, EntriesLinked, SubRow, ChainRow
  <2> QED BY <1>3, <1>4, <2>2, <2>4, <2>5
<1> QED BY <1>5, <1>6, <1>7, <1>8

\* The cascades of a deployment take its users, its chains and their entries along.
LEMMA DeleteDeploymentKeepsRows ==
  ASSUME RowInv, NEW d \in Deps, delete_deployment(d)
  PROVE  RowParts'
<1> DEFINE users == {u \in Users : NodeOf[u] = d}
           gone == {c \in Chains : ChainRow(c) /\ CascadeChain(c, d) = NoRow}
<1>1. /\ proxy' = [proxy EXCEPT ![d] = NoRow] /\ client' = client \ users
      /\ chain' = [c \in Chains |-> CascadeChain(c, d)]
      /\ sub' = [s \in Subs |-> IF ~SubRow(s) THEN NoRow
                   ELSE [sub[s] EXCEPT !.users = @ \ users, !.chains = @ \ gone]]
      /\ nodeSub' = [e \in Deps |-> IF e = d \/ nodeSub[e] = NoUrl THEN NoUrl ELSE nodeSub[e] \ users]
      /\ UNCHANGED <<th, ids>>
  BY DEF delete_deployment
<1>2. proxy \in [Deps -> Ports \cup {NoRow}] /\ client \subseteq Users
  BY DEF RowInv, TypeInv, RowsOK
<1>3. \A e \in Deps : e # d => (DepRow(e)' <=> DepRow(e))
  BY <1>1, <1>2 DEF DepRow
<1>4. \A c \in Chains : ChainRow(c)' => /\ ChainRow(c) /\ c \notin gone /\ chain'[c] = chain[c]
                                        /\ \A n \in chain[c].nodes : n[1] # d
  BY <1>1 DEF ChainRow, CascadeChain
<1>5. \A c \in Chains : ChainRow(c) /\ c \notin gone => ChainRow(c)'
  BY <1>1 DEF ChainRow
<1>6. \A u \in client : u \notin users => u \in client' /\ NodeOf[u] # d
  BY <1>1, <1>2
<1>7. \A u \in client' : NodeOf[u] # d /\ u \in client
  BY <1>1, <1>2
<1>8. ASSUME NEW s \in Subs, SubRow(s)'
      PROVE  SubRow(s) /\ sub'[s].users = sub[s].users \ users /\ sub'[s].chains = sub[s].chains \ gone
  <2>1. SubRow(s)
    BY <1>1, <1>8 DEF SubRow
  <2>2. sub[s] \in SubRows /\ sub'[s] = [sub[s] EXCEPT !.users = @ \ users, !.chains = @ \ gone]
    BY <1>1, <2>1, RowTypes DEF RowInv
  <2> HIDE DEF users, gone
  <2> QED BY <2>1, <2>2 DEF SubRows
<1> HIDE DEF users, gone
<1>9. \A c \in Chains : \A n \in ChainNodes(c)' : DepRow(n[1])'
  <2> SUFFICES ASSUME NEW c \in Chains, ChainRow(c)', NEW n \in chain'[c].nodes PROVE DepRow(n[1])'
    BY DEF ChainNodes, ChainRow
  <2>1. n \in ChainNodes(c) /\ n[1] # d
    BY <1>4 DEF ChainNodes
  <2>2. n[1] \in Deps /\ DepRow(n[1])
    BY <1>4, <2>1, RowTypes DEF RowInv, RowParts, RowsWhole, ChainNodes, ChainRows, Nodes
  <2> QED BY <1>3, <2>1, <2>2
<1>10. \A c \in Chains : ChainRow(c)' => Cardinality(chain'[c].nodes) >= 2
  BY <1>4 DEF RowInv, RowParts, RowsWhole
<1>11. \A u \in client' : DepRow(NodeOf[u])'
  BY <1>2, <1>3, <1>7, NodeAssumption DEF RowInv, RowParts, RowsWhole
<1>12. \A s \in Subs : SubRow(s)' =>
         /\ sub'[s].users \subseteq client'
         /\ \A c \in sub'[s].chains : ChainRow(c)' /\ chain'[c].linked
  BY <1>4, <1>5, <1>6, <1>8, EntriesNow
<1>13. \A e \in Deps : nodeSub'[e] # NoUrl => DepRow(e)' /\ nodeSub'[e] \subseteq client'
  BY <1>1, <1>3, <1>6 DEF RowInv, RowParts, RowsWhole
<1>14. RowsWhole' /\ EntriesLinked'
  BY <1>9, <1>10, <1>11, <1>12, <1>13
    DEF RowsWhole, EntriesLinked, DepRow, SubRow, ChainRow, ChainNodes
<1>15. NewChains' /\ ChosenChains'
  BY <1>1, <1>4, ThreadsKept DEF RowInv, RowParts
<1> QED BY <1>14, <1>15 DEF RowParts

\* The steps of no thread that keep the deployments.
LEMMA RowStepsKeepRows ==
  ASSUME RowInv,
         \/ \E c \in Chains : finish_proxy_chain_deployment(c) \/ delete_proxy_chain(c)
         \/ \E s \in Subs : create_subscription(s) \/ delete_subscription(s)
  PROVE  RowParts'
<1>1. /\ chain \in [Chains -> ChainRows \cup {NoRow}] /\ sub \in [Subs -> SubRows \cup {NoRow}]
      /\ minted \in Tokens
  BY DEF RowInv, TypeInv, RowsOK, CountersOK, Tokens
<1>2. UNCHANGED <<th, proxy, client, nodeSub>> /\ ids \subseteq ids'
  BY DEF finish_proxy_chain_deployment, delete_proxy_chain, create_subscription, delete_subscription
<1>3. ASSUME \A c \in Chains : ChainRow(c)' => ChainRow(c) /\ (chain[c].linked => chain'[c].linked),
             RowsWhole', EntriesLinked'
      PROVE  RowParts'
  <2>1. NewChains' /\ ChosenChains'
    BY <1>2, <1>3, ThreadsKept DEF RowInv, RowParts
  <2> QED BY <1>3, <2>1 DEF RowParts
<1>4. ASSUME NEW c \in Chains, finish_proxy_chain_deployment(c) PROVE RowParts'
  <2>1. chain[c] \in ChainRows /\ ChainRow(c) /\ chain' = [chain EXCEPT ![c].linked = TRUE] /\ UNCHANGED sub
    BY <1>4, RowTypes DEF finish_proxy_chain_deployment, RowInv
  <2>2. chain'[c] \in ChainRows /\ chain'[c].nodes = chain[c].nodes /\ chain'[c].linked
    BY <1>1, <2>1 DEF ChainRows
  <2>3. \A b \in Chains : b # c => chain'[b] = chain[b]
    BY <1>1, <2>1
  <2>4. \A b \in Chains : /\ ChainRow(b)' <=> ChainRow(b)
                          /\ chain'[b].nodes = chain[b].nodes
                          /\ chain[b].linked => chain'[b].linked
    BY <2>1, <2>2, <2>3, NullAssumption DEF ChainRow
  <2>5. \A s \in Subs : SubRow(s)' <=> SubRow(s)
    BY <2>1 DEF SubRow
  <2>6. RowsWhole' /\ EntriesLinked'
    BY <1>2, <2>1, <2>4, <2>5, EntriesNow, RowsKept
  <2> QED BY <1>3, <2>4, <2>6
<1>5. ASSUME NEW c \in Chains, delete_proxy_chain(c) PROVE RowParts'
  <2>1. /\ chain' = [chain EXCEPT ![c] = NoRow]
        /\ sub' = [s \in Subs |-> IF ~SubRow(s) THEN NoRow ELSE [sub[s] EXCEPT !.chains = @ \ {c}]]
    BY <1>5 DEF delete_proxy_chain
  <2>2. ~ChainRow(c)' /\ \A b \in Chains : b # c => chain'[b] = chain[b] /\ (ChainRow(b)' <=> ChainRow(b))
    BY <1>1, <2>1 DEF ChainRow
  <2>3. ASSUME NEW s \in Subs, SubRow(s)'
        PROVE  SubRow(s) /\ sub'[s].users = sub[s].users /\ sub'[s].chains = sub[s].chains \ {c}
    <3>1. SubRow(s)
      BY <2>1, <2>3 DEF SubRow
    <3>2. sub[s] \in SubRows /\ sub'[s] = [sub[s] EXCEPT !.chains = @ \ {c}]
      BY <2>1, <3>1, RowTypes DEF RowInv
    <3> QED BY <3>1, <3>2 DEF SubRows
  <2>4. \A s \in Subs : SubRow(s)' =>
          /\ sub'[s].users \subseteq client'
          /\ \A b \in sub'[s].chains : ChainRow(b)' /\ chain'[b].linked
    BY <1>2, <2>2, <2>3, EntriesNow
  <2>5. \A b \in Chains : ChainRow(b)' => ChainRow(b) /\ chain'[b] = chain[b]
    BY <2>2
  <2>6. \A b \in Chains : \A n \in ChainNodes(b)' : DepRow(n[1])'
    BY <1>2, <2>5 DEF RowInv, RowParts, RowsWhole, ChainNodes, ChainRow, DepRow
  <2>7. \A b \in Chains : ChainRow(b)' => Cardinality(chain'[b].nodes) >= 2
    BY <2>5 DEF RowInv, RowParts, RowsWhole
  <2>8. RowsWhole' /\ EntriesLinked'
    BY <1>2, <2>4, <2>6, <2>7
      DEF RowInv, RowParts, RowsWhole, EntriesLinked, DepRow, SubRow, ChainRow, ChainNodes
  <2> QED BY <1>3, <2>5, <2>8
<1>6. \A c \in Chains : UNCHANGED chain =>
        (ChainRow(c)' <=> ChainRow(c)) /\ chain'[c] = chain[c]
  BY DEF ChainRow
<1>7. ASSUME NEW s \in Subs, create_subscription(s) PROVE RowParts'
  <2>1. UNCHANGED chain /\ sub' = [sub EXCEPT ![s] = [token |-> minted, users |-> {}, chains |-> {}]]
    BY <1>7 DEF create_subscription
  <2>2. \A r \in Subs : SubRow(r)' =>
          /\ sub'[r].users \subseteq client
          /\ \A c \in sub'[r].chains : c \in Chains /\ ChainRow(c) /\ chain[c].linked
    BY <1>1, <2>1, EntriesNow DEF SubRow
  <2>3. RowsWhole' /\ EntriesLinked'
    BY <1>2, <1>6, <2>1, <2>2, RowsKept
  <2> QED BY <1>3, <1>6, <2>1, <2>3
<1>8. ASSUME NEW s \in Subs, delete_subscription(s) PROVE RowParts'
  <2>1. UNCHANGED chain /\ sub' = [sub EXCEPT ![s] = NoRow]
    BY <1>8 DEF delete_subscription
  <2>2. \A r \in Subs : SubRow(r)' =>
          /\ sub'[r].users \subseteq client
          /\ \A c \in sub'[r].chains : c \in Chains /\ ChainRow(c) /\ chain[c].linked
    BY <1>1, <2>1, EntriesNow DEF SubRow
  <2>3. RowsWhole' /\ EntriesLinked'
    BY <1>2, <1>6, <2>1, <2>2, RowsKept
  <2> QED BY <1>3, <1>6, <2>1, <2>3
<1> QED BY <1>4, <1>5, <1>7, <1>8

\* A deployment more, or one that becomes ready.
LEMMA DeploymentsKeepRows ==
  ASSUME RowInv, NEW d \in Deps, (\E p \in Ports : start_deployment(d, p)) \/ deployment_ready(d)
  PROVE  RowParts'
<1>1. UNCHANGED <<th, client, chain, sub, nodeSub>> /\ ids \subseteq ids'
  BY DEF start_deployment, deployment_ready
<1>2. \A e \in Deps : DepRow(e) => DepRow(e)'
  <2>1. CASE deployment_ready(d)
    BY <2>1 DEF deployment_ready, DepRow
  <2>2. CASE \E p \in Ports : start_deployment(d, p)
    BY <2>2, NullAssumption DEF start_deployment, DepRow, RowInv, TypeInv, RowsOK
  <2> QED BY <2>1, <2>2
<1>3. \A c \in Chains : \A n \in ChainNodes(c) : n[1] \in Deps
  BY RowTypes DEF RowInv, ChainNodes, ChainRows, Nodes
<1>4. \A u \in client : NodeOf[u] \in Deps
  BY NodeAssumption DEF RowInv, TypeInv, RowsOK
<1>5. \A c \in Chains : \A n \in ChainNodes(c)' : DepRow(n[1])'
  BY <1>1, <1>2, <1>3 DEF RowInv, RowParts, RowsWhole, ChainNodes, ChainRow
<1>6. \A u \in client' : DepRow(NodeOf[u])'
  BY <1>1, <1>2, <1>4 DEF RowInv, RowParts, RowsWhole
<1>7. \A e \in Deps : nodeSub'[e] # NoUrl => DepRow(e)' /\ nodeSub'[e] \subseteq client'
  BY <1>1, <1>2 DEF RowInv, RowParts, RowsWhole
<1>8. RowsWhole' /\ EntriesLinked'
  BY <1>1, <1>5, <1>6, <1>7
    DEF RowInv, RowParts, RowsWhole, EntriesLinked, SubRow, ChainRow, ChainNodes, DepRow
<1>9. \A c \in Chains : ChainRow(c)' => ChainRow(c) /\ (chain[c].linked => chain'[c].linked)
  BY <1>1 DEF ChainRow
<1>10. NewChains' /\ ChosenChains'
  BY <1>1, <1>9, ThreadsKept DEF RowInv, RowParts
<1> QED BY <1>8, <1>10 DEF RowParts

LEMMA StepKeepsRows == RowInv /\ [Next]_vars => RowInv'
<1> SUFFICES ASSUME RowInv, [Next]_vars PROVE RowParts'
  BY StepKeepsType DEF RowInv
<1>1. CASE UNCHANGED vars
  <2>1. UNCHANGED <<th, ids, proxy, client, chain, sub, nodeSub>>
    BY <1>1 DEF vars
  <2>2. \A c \in Chains : ChainRow(c)' => ChainRow(c) /\ (chain[c].linked => chain'[c].linked)
    BY <2>1 DEF ChainRow
  <2>3. NewChains' /\ ChosenChains'
    BY <2>1, <2>2, ThreadsKept DEF RowInv, RowParts
  <2> QED BY <2>1, <2>3, SameRows DEF RowParts
<1>2. ASSUME NEW t \in Threads, RequestNext(t) PROVE RowParts'
  BY <1>2, ReadsKeepRows, CreateChainKeepsRows, SelectKeepsRows, InsertClientKeepsRows,
     InsertChainKeepsRows, WritesKeepRows DEF RequestNext
<1>3. CASE \E d \in Deps : (\E p \in Ports : start_deployment(d, p)) \/ deployment_ready(d) \/ delete_deployment(d)
  BY <1>3, DeleteDeploymentKeepsRows, DeploymentsKeepRows
<1>4. CASE \/ \E c \in Chains : finish_proxy_chain_deployment(c) \/ delete_proxy_chain(c)
           \/ \E s \in Subs : create_subscription(s) \/ delete_subscription(s)
  BY <1>4, RowStepsKeepRows
<1> QED BY <1>1, <1>2, <1>3, <1>4 DEF Next

LEMMA InitRows == Init => RowInv
<1> SUFFICES ASSUME Init PROVE RowParts
  BY InitType DEF RowInv
<1>1. \A t \in Threads : th[t].pc = "idle"
  BY IdleType DEF Init
<1>2. NewChains /\ ChosenChains
  BY <1>1 DEF Init, NewChains, ChosenChains, ChainRow
<1>3. RowsWhole /\ EntriesLinked
  BY DEF Init, RowsWhole, EntriesLinked, ChainNodes, ChainRow, SubRow
<1> QED BY <1>2, <1>3 DEF RowParts

\* Chains are there with all their deployments, and users and entries refer to
\* rows that exist: requests check what they refer to long before they write it,
\* and what was deleted in between fails them or goes with the cascade.
THEOREM RowsStayWhole == Spec => []RowsWhole
<1>1. RowInv => RowsWhole
  BY DEF RowInv, RowParts
<1> QED BY <1>1, InitRows, StepKeepsRows, PTL DEF Spec

\* A chain that a subscription has selected has its link, though the link was
\* looked at before the transaction that writes the selection.
THEOREM EntriesStayLinked == Spec => []EntriesLinked
<1>1. RowInv => EntriesLinked
  BY DEF RowInv, RowParts
<1> QED BY <1>1, InitRows, StepKeepsRows, PTL DEF Spec
=============================================================================
