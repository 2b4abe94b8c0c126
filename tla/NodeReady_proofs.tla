-------------------------- MODULE NodeReady_proofs --------------------------
(***************************************************************************)
(* "ready" is true, and a chain's entry comes up last: for any servers,    *)
(* deployments, chains, jobs and requests.  The delete requests take no    *)
(* lock, so the proof must show that a delete that overlaps a job takes    *)
(* away only services whose rows it will delete as well.                   *)
(***************************************************************************)
EXTENDS NodeJobs_proofs

-----------------------------------------------------------------------------
(* The inductive invariant.                                                *)

\* What a chain stands on: deleting one of these deletes the chain.
Scope(c) == {c} \cup NodeDeps(c) \cup NodeServers(c)

\* A delete request cleans up only what goes with its target.
InScope(q) ==
    q.pc \in DeletePcs =>
      /\ \A d \in q.deps : q.target \in {d, Home[d]}
      /\ \A c \in q.chains : q.target \in Scope(c)
      /\ q.pc = "hops" => q.target \in Scope(q.cur)
DeleteScope == \A r \in Requests : InScope(rq[r])

\* A chain that a job or a start request works on has, or had, a row.
ChainsKnown ==
    /\ \A j \in Jobs : target[j] \in Chains => chain[target[j]] # "none"
    /\ \A r \in Requests : rq[r].pc = "start" /\ rq[r].target \in Chains =>
         chain[rq[r].target] # "none"

\* What a job still works on is not ready; what it rolls back even less so.
Unready ==
    \A j \in Jobs : pc[j] \notin {"idle", "finish", "release"} =>
      /\ target[j] \in Deps => dep[target[j]] # "ready"
      /\ target[j] \in Chains => chain[target[j]] # "ready"

\* A service is installed, or a delete request will take the row as well.
NodeSafe(d) == d \in nodeUp \/ DepDoomed(d)
HopSafe(c, i) == <<c, i>> \in chainUp \/ ChainDoomed(c)

\* What a job has installed so far is there when it comes to report it: the
\* node, or the hops from the exit up to the one it is at.
InstalledBy(j) ==
    /\ pc[j] = "ready" /\ DepRow(target[j]) => NodeSafe(target[j])
    /\ pc[j] = "install" /\ target[j] \in Chains /\ ChainRow(target[j]) =>
         \A i \in (hop[j] + 1)..Size(target[j]) : HopSafe(target[j], i)
    /\ pc[j] = "publish" /\ ChainRow(target[j]) =>
         \A i \in 1..Size(target[j]) : HopSafe(target[j], i)
InstalledSoFar == \A j \in Jobs : InstalledBy(j)

ReadyInv ==
    /\ TypeOK /\ LocksMirrorWorkers
    /\ DeleteScope /\ ChainsKnown /\ Unready /\ InstalledSoFar /\ ReadyIsInstalled

-----------------------------------------------------------------------------
(* What a step can do to each part of the state.                           *)

\* A step of a worker leaves the requests alone, and the other workers.
LEMMA WorkerAlone ==
    ASSUME TypeOK, NEW j \in Jobs, Worker(j)
    PROVE  /\ UNCHANGED <<rq, server, crashes>> /\ up /\ up' /\ Live(j)
           /\ \A k \in Jobs \ {j} : pc'[k] = pc[k] /\ target'[k] = target[k] /\ hop'[k] = hop[k]
  <1>0. DOMAIN pc = Jobs /\ DOMAIN target = Jobs /\ DOMAIN hop = Jobs
    BY DEF TypeOK, WorkersTyped
  <1>1. CASE spawn_worker(j) \/ prepare_deployment(j) \/ deployment_ready(j) \/ check_chain(j)
    BY <1>0, <1>1 DEF spawn_worker, prepare_deployment, deployment_ready, check_chain, Goto, db, Live
  <1>2. CASE spawn_failed(j) \/ release_worker(j)
    BY <1>0, <1>2 DEF spawn_failed, release_worker, CloseWorker, Live
  <1>3. CASE install_deployment(j)
    BY <1>0, <1>3 DEF install_deployment, Goto, GotoAt, db, Live
  <1>4. CASE prepare_chain_nodes(j) \/ publish_chain(j)
    BY <1>0, <1>4 DEF prepare_chain_nodes, publish_chain, Goto, GotoAt, Live
  <1>5. CASE install_chain_service(j)
    BY <1>0, <1>5 DEF install_chain_service, Goto, GotoAt, db, Live
  <1>6. CASE finish_success(j) \/ finish_failed(j)
    BY <1>0, <1>6 DEF finish_success, finish_failed, Goto, Live
  <1>7. CASE mark_failed(j)
    BY <1>0, <1>7 DEF mark_failed, Goto, GotoAt, Live
  <1>8. CASE rollback_deployment(j) \/ rollback_chain_service(j)
    BY <1>0, <1>8 DEF rollback_deployment, rollback_chain_service, Goto, GotoAt, db, Live
  <1> QED BY <1>1, <1>2, <1>3, <1>4, <1>5, <1>6, <1>7, <1>8 DEF Worker

\* Only a rollback takes a service away from under a worker's feet.
LEMMA WorkerRemoves ==
    ASSUME TypeOK, NEW j \in Jobs, Worker(j)
    PROVE  /\ \A d \in nodeUp : d \notin nodeUp' => pc[j] = "rollback" /\ target[j] = d
           /\ \A h \in chainUp : h \notin chainUp' => pc[j] = "rollback" /\ h = <<target[j], hop[j]>>
           /\ pc[j] = "rollback" => UNCHANGED <<dep, chain>>
  <1>1. CASE spawn_worker(j) \/ prepare_deployment(j) \/ deployment_ready(j) \/ check_chain(j)
    BY <1>1 DEF spawn_worker, prepare_deployment, deployment_ready, check_chain, db, remote
  <1>2. CASE spawn_failed(j) \/ release_worker(j) \/ finish_success(j) \/ finish_failed(j) \/ mark_failed(j)
    BY <1>2 DEF spawn_failed, release_worker, finish_success, finish_failed, mark_failed, remote
  <1>3. CASE install_deployment(j) \/ install_chain_service(j)
    BY <1>3 DEF install_deployment, install_chain_service, db
  <1>4. CASE prepare_chain_nodes(j) \/ publish_chain(j)
    BY <1>4 DEF prepare_chain_nodes, publish_chain, remote
  <1>5. CASE rollback_deployment(j)
    BY <1>5 DEF rollback_deployment, db
  <1>6. CASE rollback_chain_service(j)
    BY <1>6 DEF rollback_chain_service, db
  <1> QED BY <1>1, <1>2, <1>3, <1>4, <1>5, <1>6 DEF Worker

\* A worker reports its own target ready, from the step before "finish".
LEMMA WorkerReports ==
    ASSUME TypeOK, NEW j \in Jobs, Worker(j)
    PROVE  /\ \A d \in Deps :
                /\ dep'[d] = "ready" => dep[d] = "ready" \/
                     (deployment_ready(j) /\ target[j] = d /\ DepRow(d) /\ UNCHANGED remote)
                /\ DepRow(d)' => DepRow(d)
           /\ \A c \in Chains :
                /\ chain'[c] = "ready" => chain[c] = "ready" \/
                     (publish_chain(j) /\ target[j] = c /\ ChainRow(c) /\ UNCHANGED remote)
                /\ ChainRow(c)' => ChainRow(c)
                /\ chain'[c] = "none" => chain[c] = "none"
  <1>0. /\ DOMAIN dep = Deps /\ DOMAIN chain = Chains
        /\ pc[j] = "ready" => target[j] \in Deps
        /\ pc[j] = "publish" => target[j] \in Chains
    BY DEF TypeOK, DbTyped, WorkersTyped, WorkerShape
  <1>1. CASE UNCHANGED <<dep, chain>>
    BY <1>1 DEF DepRow, ChainRow
  <1>2. CASE spawn_failed(j) \/ mark_failed(j)
    <2>1. \/ SetDep(target[j], "failed") /\ UNCHANGED chain
          \/ SetChain(target[j], "failed") /\ UNCHANGED dep
      BY <1>2 DEF spawn_failed, mark_failed
    <2> QED BY <1>0, <2>1 DEF SetDep, SetChain, DepRow, ChainRow
  <1>3. CASE deployment_ready(j)
    BY <1>0, <1>3 DEF deployment_ready, SetDep, DepRow, ChainRow
  <1>4. CASE publish_chain(j)
    BY <1>0, <1>4 DEF publish_chain, SetChain, DepRow, ChainRow
  <1>5. CASE spawn_worker(j) \/ prepare_deployment(j) \/ install_deployment(j) \/ check_chain(j)
             \/ install_chain_service(j) \/ rollback_deployment(j) \/ rollback_chain_service(j)
    BY <1>1, <1>5 DEF spawn_worker, prepare_deployment, install_deployment, check_chain,
         install_chain_service, rollback_deployment, rollback_chain_service, db
  <1>6. CASE prepare_chain_nodes(j) \/ finish_success(j) \/ finish_failed(j) \/ release_worker(j)
    BY <1>1, <1>6 DEF prepare_chain_nodes, finish_success, finish_failed, release_worker
  <1> QED BY <1>2, <1>3, <1>4, <1>5, <1>6 DEF Worker

\* A step that is not a worker's: what the requests, the operator, a crash and
\* the recovery can do to the workers and to the rows.
LEMMA OthersReport ==
    ASSUME TypeOK, [Next]_vars, \A j \in Jobs : ~Worker(j)
    PROVE  /\ \A d \in Deps : dep'[d] = "ready" => dep[d] = "ready"
           /\ \A c \in Chains :
                /\ chain'[c] = "ready" => chain[c] = "ready"
                /\ ChainRow(c)' => ChainRow(c) \/ chain[c] = "none"
                /\ chain'[c] = "none" => chain[c] = "none"
  <1>0. DOMAIN dep = Deps /\ DOMAIN chain = Chains
    BY DEF TypeOK, DbTyped
  <1>1. CASE UNCHANGED <<dep, chain>>
    BY <1>1 DEF ChainRow
  <1>2. ASSUME NEW c \in Chains, create_proxy_chain(c)
        PROVE  /\ UNCHANGED dep
               /\ \A b \in Chains :
                    /\ chain'[b] = "ready" => chain[b] = "ready"
                    /\ ChainRow(b)' => ChainRow(b) \/ chain[b] = "none"
                    /\ chain'[b] = "none" => chain[b] = "none"
    BY <1>0, <1>2 DEF create_proxy_chain, ChainRow
  <1>3. ASSUME NEW r \in Requests, NEW j \in Jobs, start_deployment_tx(r, j)
        PROVE  UNCHANGED chain /\ \A d \in Deps : dep'[d] = "ready" => dep[d] = "ready"
    BY <1>0, <1>3 DEF start_deployment_tx
  <1>4. ASSUME NEW r \in Requests, NEW j \in Jobs, start_proxy_chain_deployment_tx(r, j)
        PROVE  /\ UNCHANGED dep
               /\ \A b \in Chains :
                    /\ chain'[b] = "ready" => chain[b] = "ready"
                    /\ ChainRow(b)' => ChainRow(b)
                    /\ chain'[b] = "none" => chain[b] = "none"
    BY <1>0, <1>4 DEF start_proxy_chain_deployment_tx, SetChain, ChainRow
  <1>5. ASSUME NEW r \in Requests, purge_rows(r)
        PROVE  /\ \A d \in Deps : dep'[d] = "ready" => dep[d] = "ready"
               /\ \A b \in Chains :
                    /\ chain'[b] = "ready" => chain[b] = "ready"
                    /\ ChainRow(b)' => ChainRow(b)
                    /\ chain'[b] = "none" => chain[b] = "none"
    <2>1. PICK C : PurgeChains(C)
      BY <1>5 DEF purge_rows
    <2>2. UNCHANGED dep \/ \E D : PurgeDeps(D)
      BY <1>5 DEF purge_rows
    <2>3. \A d \in Deps : dep'[d] = "ready" => dep[d] = "ready"
      BY <2>2 DEF PurgeDeps
    <2> QED BY <2>1, <2>3 DEF PurgeChains, ChainRow
  <1>6. CASE recover_orphaned_jobs
    BY <1>0, <1>6 DEF recover_orphaned_jobs, ChainRow
  <1>7. CASE crash \/ UNCHANGED vars \/ \E s \in Servers : create_server(s)
    BY <1>1, <1>7 DEF crash, vars, db, create_server
  <1>8. ASSUME NEW r \in Requests,
               \/ \E d \in Deps : start_deployment(r, d) \/ delete_deployment(r, d)
               \/ \E c \in Chains : start_proxy_chain_deployment(r, c) \/ delete_proxy_chain(r, c)
               \/ \E s \in Servers : delete_server(r, s)
               \/ start_rejected(r)
               \/ cleanup_next_chain(r) \/ cleanup_chain_service(r) \/ uninstall_node(r)
        PROVE  UNCHANGED <<dep, chain>>
    BY <1>8 DEF start_deployment, delete_deployment, start_proxy_chain_deployment,
         delete_proxy_chain, delete_server, BeginDelete, start_rejected, cleanup_next_chain,
         cleanup_chain_service, uninstall_node, db
  <1> QED BY <1>1, <1>2, <1>3, <1>4, <1>5, <1>6, <1>7, <1>8 DEF Next, StartTx, DeleteStep, ChainRow

-----------------------------------------------------------------------------
(* The delete requests.                                                    *)

\* A request that is deleting goes on deleting the same target until its
\* transaction, unless the process dies.
Deleting(r) == rq[r].pc \in DeletePcs
GoesOn(r) == rq'[r].pc \in DeletePcs /\ rq'[r].target = rq[r].target

LEMMA Fields ==
    ASSUME NEW w, NEW t, NEW C, NEW c, NEW i, NEW D
    PROVE  LET q == Request(w, t, C, c, i, D)
           IN  /\ q.pc = w /\ q.target = t /\ q.chains = C
               /\ q.cur = c /\ q.at = i /\ q.deps = D
  BY DEF Request

LEMMA ScopeMoves ==
    ASSUME TypeOK, DeleteScope, NEW r \in Requests, NEW q, InScope(q),
           rq' = [rq EXCEPT ![r] = q]
    PROVE  DeleteScope'
  <1>1. \A k \in Requests : rq'[k] = IF k = r THEN q ELSE rq[k]
    BY DEF TypeOK, RequestsTyped
  <1>2. \A k \in Requests : InScope(rq'[k])
    BY <1>1 DEF DeleteScope
  <1> QED BY <1>2 DEF DeleteScope, InScope, Scope, NodeServers, NodeDeps, DeletePcs

LEMMA IdleInScope == InScope(IdleRequest)
  <1>1. IdleRequest.pc = "idle"
    BY DEF IdleRequest, Request
  <1> QED BY <1>1 DEF InScope, DeletePcs

\* The steps of a delete request.
LEMMA DeleteMoves ==
    ASSUME TypeOK, DeleteScope, NEW r \in Requests, DeleteStep(r)
    PROVE  /\ DeleteScope' /\ Deleting(r)
           /\ purge_rows(r) \/ GoesOn(r)
           /\ \A k \in Requests \ {r} : rq'[k] = rq[k]
  <1>0. DOMAIN rq = Requests /\ InScope(rq[r])
    BY DEF TypeOK, RequestsTyped, DeleteScope
  <1>1. CASE cleanup_next_chain(r)
    <2> DEFINE q == rq[r]
    <2>1. q.pc = "chains" /\ \A c \in q.chains : q.target \in Scope(c)
      BY <1>0, <1>1 DEF cleanup_next_chain, InScope, DeletePcs
    <2>2. \A d \in q.deps : q.target \in {d, Home[d]}
      BY <1>0, <2>1 DEF InScope, DeletePcs
    <2>3. CASE q.chains = {}
      <3>1. PICK p : /\ p = Request(IF q.deps = {} THEN "purge" ELSE "uninstall",
                                    q.target, {}, NoTarget, 0, q.deps)
                     /\ rq' = [rq EXCEPT ![r] = p]
        BY <1>1, <2>3 DEF cleanup_next_chain
      <3>2. p.pc \in {"purge", "uninstall"} /\ p.target = q.target /\ p.chains = {} /\ p.deps = q.deps
        BY <3>1, Fields
      <3>3. InScope(p)
        BY <2>2, <3>2 DEF InScope
      <3>4. rq'[r] = p /\ \A k \in Requests \ {r} : rq'[k] = rq[k]
        BY <1>0, <3>1
      <3> QED BY <2>1, <3>1, <3>2, <3>3, <3>4, ScopeMoves DEF Deleting, GoesOn, DeletePcs
    <2>4. CASE q.chains # {}
      <3> DEFINE After(c) == IF ChainRow(c) /\ c \in named
                              THEN Request("hops", q.target, q.chains \ {c}, c, 1, q.deps)
                              ELSE Request("chains", q.target, q.chains \ {c}, NoTarget, 0, q.deps)
      <3>0. PICK c \in q.chains : rq' = [rq EXCEPT ![r] = After(c)]
        BY <1>1, <2>4 DEF cleanup_next_chain
      <3>1. PICK p : p = After(c) /\ rq' = [rq EXCEPT ![r] = p]
        BY <3>0
      <3>2. /\ p.pc \in {"hops", "chains"} /\ p.target = q.target /\ p.chains = q.chains \ {c}
            /\ p.deps = q.deps
            /\ p.pc = "hops" => p.cur = c
        <4>1. CASE ChainRow(c) /\ c \in named
          BY <3>1, <4>1, Fields
        <4>2. CASE ~(ChainRow(c) /\ c \in named)
          BY <3>1, <4>2, Fields
        <4> QED BY <4>1, <4>2
      <3>3. InScope(p)
        BY <2>1, <2>2, <3>2 DEF InScope
      <3>4. rq'[r] = p /\ \A k \in Requests \ {r} : rq'[k] = rq[k]
        BY <1>0, <3>1
      <3> QED BY <2>1, <3>1, <3>2, <3>3, <3>4, ScopeMoves DEF Deleting, GoesOn, DeletePcs
    <2> QED BY <2>3, <2>4
  <1>2. CASE cleanup_chain_service(r)
    <2> DEFINE q == rq[r]
    <2>1. /\ q.pc = "hops" /\ \A c \in q.chains : q.target \in Scope(c)
          /\ \A d \in q.deps : q.target \in {d, Home[d]}
          /\ q.target \in Scope(q.cur)
      BY <1>0, <1>2 DEF cleanup_chain_service, InScope, DeletePcs
    <2>2. PICK p : /\ p = IF q.at < Size(q.cur)
                            THEN Request("hops", q.target, q.chains, q.cur, q.at + 1, q.deps)
                            ELSE Request("chains", q.target, q.chains, NoTarget, 0, q.deps)
                   /\ rq' = [rq EXCEPT ![r] = p]
      BY <1>2 DEF cleanup_chain_service
    <2>3. /\ p.pc \in {"hops", "chains"} /\ p.target = q.target /\ p.chains = q.chains
          /\ p.deps = q.deps
          /\ p.pc = "hops" => p.cur = q.cur
      <3>1. CASE q.at < Size(q.cur)
        BY <2>2, <3>1, Fields
      <3>2. CASE ~(q.at < Size(q.cur))
        BY <2>2, <3>2, Fields
      <3> QED BY <3>1, <3>2
    <2>4. InScope(p)
      BY <1>0, <2>1, <2>3 DEF InScope, DeletePcs
    <2>5. rq'[r] = p /\ \A k \in Requests \ {r} : rq'[k] = rq[k]
      BY <1>0, <2>2
    <2> QED BY <2>1, <2>2, <2>3, <2>4, <2>5, ScopeMoves DEF Deleting, GoesOn, DeletePcs
  <1>3. CASE uninstall_node(r)
    <2> DEFINE q == rq[r]
    <2>1. q.pc = "uninstall" /\ \A d \in q.deps : q.target \in {d, Home[d]}
      BY <1>0, <1>3 DEF uninstall_node, InScope, DeletePcs
    <2>2. PICK p : /\ \E w \in {"purge", "uninstall"}, D \in SUBSET q.deps :
                         p = Request(w, q.target, {}, NoTarget, 0, D)
                   /\ rq' = [rq EXCEPT ![r] = p]
      BY <1>3 DEF uninstall_node
    <2>3. p.pc \in {"purge", "uninstall"} /\ p.target = q.target /\ p.chains = {} /\ p.deps \subseteq q.deps
      BY <2>2, Fields
    <2>4. InScope(p)
      BY <2>1, <2>3 DEF InScope
    <2>5. rq'[r] = p /\ \A k \in Requests \ {r} : rq'[k] = rq[k]
      BY <1>0, <2>2
    <2> QED BY <2>1, <2>2, <2>3, <2>4, <2>5, ScopeMoves DEF Deleting, GoesOn, DeletePcs
  <1>4. CASE purge_rows(r)
    <2>1. rq[r].pc = "purge" /\ rq' = [rq EXCEPT ![r] = IdleRequest]
      BY <1>4 DEF purge_rows
    <2> QED BY <1>0, <1>4, <2>1, IdleInScope, ScopeMoves DEF Deleting, DeletePcs
  <1> QED BY <1>1, <1>2, <1>3, <1>4 DEF DeleteStep
\* A request begins to delete only from idle, and its records fit its target.
LEMMA DeleteBegins ==
    ASSUME TypeOK, DeleteScope, NEW r \in Requests,
           \/ \E d \in Deps : delete_deployment(r, d)
           \/ \E c \in Chains : delete_proxy_chain(r, c)
           \/ \E s \in Servers : delete_server(r, s)
    PROVE  /\ DeleteScope' /\ ~Deleting(r) /\ rq'[r].pc = "chains"
           /\ \A k \in Requests \ {r} : rq'[k] = rq[k]
           /\ UNCHANGED <<db, remote, workers, up, crashes>>
  <1> DEFINE Begins(t, C, D) == /\ BeginDelete(r, t, C, D) /\ rq[r].pc = "idle"
                                /\ \A d \in D : t \in {d, Home[d]}
                                /\ \A c \in C : t \in Scope(c)
  <1>1. PICK t, C, D : Begins(t, C, D)
    <2>1. ASSUME NEW d \in Deps, delete_deployment(r, d)
          PROVE  Begins(d, ChainsOf({d}), {d})
      BY <2>1 DEF delete_deployment, ChainsOf, Scope
    <2>2. ASSUME NEW c \in Chains, delete_proxy_chain(r, c)
          PROVE  Begins(c, {c}, {})
      BY <2>2 DEF delete_proxy_chain, Scope
    <2>3. ASSUME NEW s \in Servers, delete_server(r, s)
          PROVE  \E D : Begins(s, ChainsOf(D), D)
      <3>1. PICK D : D = {d \in Deps : DepRow(d) /\ Home[d] = s}
        OBVIOUS
      <3>2. BeginDelete(r, s, ChainsOf(D), D) /\ rq[r].pc = "idle"
        BY <2>3, <3>1 DEF delete_server
      <3>3. ASSUME NEW c \in ChainsOf(D) PROVE s \in Scope(c)
        BY <3>1 DEF ChainsOf, Scope, NodeServers
      <3> QED BY <3>1, <3>2, <3>3
    <2> HIDE DEF Begins
    <2> QED BY <2>1, <2>2, <2>3
  <1>2. PICK q : q = Request("chains", t, C, NoTarget, 0, D) /\ rq' = [rq EXCEPT ![r] = q]
    BY <1>1 DEF BeginDelete
  <1>3. q.pc = "chains" /\ q.target = t /\ q.chains = C /\ q.deps = D
    BY <1>2, Fields
  <1>4. InScope(q)
    BY <1>1, <1>3 DEF InScope
  <1>5. rq'[r] = q /\ \A k \in Requests \ {r} : rq'[k] = rq[k]
    BY <1>2 DEF TypeOK, RequestsTyped
  <1> QED BY <1>1, <1>2, <1>3, <1>4, <1>5, ScopeMoves DEF BeginDelete, Deleting, DeletePcs

\* A request starts a job, or is refused; it is never a delete.
LEMMA StartMoves ==
    ASSUME TypeOK, DeleteScope, NEW r \in Requests,
           \/ StartTx(r)
           \/ \E d \in Deps : start_deployment(r, d)
           \/ \E c \in Chains : start_proxy_chain_deployment(r, c)
    PROVE  /\ DeleteScope' /\ ~Deleting(r) /\ rq'[r].pc \notin DeletePcs
           /\ \A k \in Requests \ {r} : rq'[k] = rq[k]
           /\ UNCHANGED remote
           /\ rq'[r].pc = "start" => UNCHANGED <<db, workers>> /\
                (rq'[r].target \in Chains => ChainRow(rq'[r].target))
  <1>1. PICK q : /\ rq' = [rq EXCEPT ![r] = q] /\ rq[r].pc \in {"idle", "start"}
                 /\ q.pc \in {"idle", "start"}
                 /\ q.pc = "start" => UNCHANGED <<db, workers>> /\
                      (q.target \in Chains => ChainRow(q.target))
    <2>1. CASE StartTx(r)
      <3>1. rq' = [rq EXCEPT ![r] = IdleRequest] /\ rq[r].pc = "start"
        BY <2>1 DEF StartTx, start_deployment_tx, start_proxy_chain_deployment_tx, start_rejected
      <3>2. IdleRequest.pc = "idle"
        BY Fields DEF IdleRequest
      <3> QED BY <3>1, <3>2
    <2>2. ASSUME NEW d \in Deps, start_deployment(r, d)
          PROVE  \E q : /\ rq' = [rq EXCEPT ![r] = q] /\ rq[r].pc = "idle"
                        /\ q.pc = "start" /\ q.target \notin Chains
                        /\ UNCHANGED <<db, workers>>
      <3>1. PICK q : q = Request("start", d, {}, NoTarget, 0, {}) /\ rq' = [rq EXCEPT ![r] = q]
        BY <2>2 DEF start_deployment
      <3>2. q.pc = "start" /\ q.target = d
        BY <3>1, Fields
      <3> QED BY <2>2, <3>1, <3>2, IdsDiffer DEF start_deployment
    <2>3. ASSUME NEW c \in Chains, start_proxy_chain_deployment(r, c)
          PROVE  \E q : /\ rq' = [rq EXCEPT ![r] = q] /\ rq[r].pc = "idle"
                        /\ q.pc = "start" /\ ChainRow(q.target)
                        /\ UNCHANGED <<db, workers>>
      <3>1. PICK q : q = Request("start", c, {}, NoTarget, 0, {}) /\ rq' = [rq EXCEPT ![r] = q]
        BY <2>3 DEF start_proxy_chain_deployment
      <3>2. q.pc = "start" /\ q.target = c
        BY <3>1, Fields
      <3> QED BY <2>3, <3>1, <3>2 DEF start_proxy_chain_deployment
    <2> QED BY <2>1, <2>2, <2>3
  <1>2. InScope(q)
    BY <1>1 DEF InScope, DeletePcs
  <1>3. rq'[r] = q /\ \A k \in Requests \ {r} : rq'[k] = rq[k]
    BY <1>1 DEF TypeOK, RequestsTyped
  <1>4. UNCHANGED remote
    BY DEF StartTx, start_deployment_tx, start_proxy_chain_deployment_tx, start_rejected,
         start_deployment, start_proxy_chain_deployment
  <1> QED BY <1>1, <1>2, <1>3, <1>4, ScopeMoves DEF Deleting, DeletePcs

\* What does not touch the requests keeps them in scope.
LEMMA ScopeFrame ==
    ASSUME DeleteScope, UNCHANGED rq
    PROVE  DeleteScope'
  BY DEF DeleteScope, InScope, Scope, NodeServers, NodeDeps, DeletePcs

LEMMA NextScope == TypeOK /\ DeleteScope /\ [Next]_vars => DeleteScope'
  <1> SUFFICES ASSUME TypeOK, DeleteScope, [Next]_vars PROVE DeleteScope'
    OBVIOUS
  <1>1. CASE \E j \in Jobs : Worker(j)
    BY <1>1, WorkerAlone, ScopeFrame
  <1>2. CASE recover_orphaned_jobs \/ UNCHANGED vars \/ (\E s \in Servers : create_server(s))
             \/ \E c \in Chains : create_proxy_chain(c)
    BY <1>2, ScopeFrame DEF recover_orphaned_jobs, vars, create_server, create_proxy_chain
  <1>3. CASE crash
    <2>1. \A r \in Requests : InScope(rq'[r])
      BY <1>3, IdleInScope DEF crash
    <2> QED BY <2>1 DEF DeleteScope, InScope, Scope, NodeServers, NodeDeps, DeletePcs
  <1> QED BY <1>1, <1>2, <1>3, DeleteMoves, DeleteBegins, StartMoves DEF Next

\* A request that is deleting goes on, or deletes the rows in this very step.
LEMMA RequestEffect ==
    ASSUME TypeOK, DeleteScope, [Next]_vars, ~crash, NEW r \in Requests, Deleting(r)
    PROVE  purge_rows(r) \/ GoesOn(r)
  <1>1. CASE UNCHANGED rq
    BY <1>1 DEF GoesOn, Deleting
  <1>2. CASE \E j \in Jobs : Worker(j)
    BY <1>1, <1>2, WorkerAlone
  <1>3. CASE recover_orphaned_jobs \/ UNCHANGED vars \/ (\E s \in Servers : create_server(s))
             \/ \E c \in Chains : create_proxy_chain(c)
    BY <1>1, <1>3 DEF recover_orphaned_jobs, vars, create_server, create_proxy_chain
  <1>5. ASSUME NEW k \in Requests, DeleteStep(k) PROVE purge_rows(r) \/ GoesOn(r)
    <2>1. k = r \/ rq'[r] = rq[r]
      BY <1>5, DeleteMoves
    <2> QED BY <1>5, <2>1, DeleteMoves DEF GoesOn, Deleting
  <1>6. ASSUME NEW k \in Requests,
               \/ StartTx(k)
               \/ \E d \in Deps : start_deployment(k, d) \/ delete_deployment(k, d)
               \/ \E c \in Chains : start_proxy_chain_deployment(k, c) \/ delete_proxy_chain(k, c)
               \/ \E s \in Servers : delete_server(k, s)
        PROVE  GoesOn(r)
    <2>1. ~Deleting(k) /\ \A m \in Requests \ {k} : rq'[m] = rq[m]
      BY <1>6, DeleteBegins, StartMoves
    <2>2. rq'[r] = rq[r]
      BY <2>1
    <2> QED BY <2>2 DEF GoesOn, Deleting
  <1> QED BY <1>2, <1>3, <1>5, <1>6 DEF Next

\* A request waits to start a chain only since it saw the chain's row.
LEMMA StartsAre ==
    ASSUME TypeOK, DeleteScope, [Next]_vars, NEW r \in Requests,
           rq'[r].pc = "start", rq'[r].target \in Chains
    PROVE  rq'[r] = rq[r] \/ (UNCHANGED db /\ ChainRow(rq'[r].target))
  <1>1. CASE \E j \in Jobs : Worker(j)
    BY <1>1, WorkerAlone
  <1>2. CASE recover_orphaned_jobs \/ UNCHANGED vars \/ (\E s \in Servers : create_server(s))
             \/ \E c \in Chains : create_proxy_chain(c)
    BY <1>2 DEF recover_orphaned_jobs, vars, create_server, create_proxy_chain
  <1>3. CASE crash
    BY <1>3, Fields DEF crash, IdleRequest
  <1>4. ASSUME NEW k \in Requests, DeleteStep(k) PROVE rq'[r] = rq[r]
    <2>1. CASE k = r /\ purge_rows(r)
      <3>1. rq'[r] = IdleRequest
        BY <2>1 DEF purge_rows, TypeOK, RequestsTyped
      <3> QED BY <3>1, Fields DEF IdleRequest
    <2>2. CASE k = r /\ ~purge_rows(r)
      BY <1>4, <2>2, DeleteMoves DEF GoesOn, DeletePcs
    <2>3. CASE k # r
      BY <1>4, <2>3, DeleteMoves
    <2> QED BY <2>1, <2>2, <2>3
  <1>5. ASSUME NEW k \in Requests,
               \/ \E d \in Deps : delete_deployment(k, d)
               \/ \E c \in Chains : delete_proxy_chain(k, c)
               \/ \E s \in Servers : delete_server(k, s)
        PROVE  rq'[r] = rq[r]
    BY <1>5, DeleteBegins
  <1>6. ASSUME NEW k \in Requests,
               \/ StartTx(k)
               \/ \E d \in Deps : start_deployment(k, d)
               \/ \E c \in Chains : start_proxy_chain_deployment(k, c)
        PROVE  rq'[r] = rq[r] \/ (UNCHANGED db /\ ChainRow(rq'[r].target))
    BY <1>6, StartMoves
  <1> QED BY <1>1, <1>2, <1>3, <1>4, <1>5, <1>6 DEF Next

\* The transaction takes every row that the request dooms.
LEMMA PurgeTakes ==
    ASSUME TypeOK, NEW r \in Requests, purge_rows(r)
    PROVE  /\ \A d \in Deps : rq[r].target \in {d, Home[d]} => ~DepRow(d)'
           /\ \A c \in Chains : rq[r].target \in Scope(c) => ~ChainRow(c)'
  <1> DEFINE t == rq[r].target
             D == IF t \in Servers THEN {d \in Deps : Home[d] = t} ELSE {t}
  <1>1. CASE t \in Chains /\ PurgeChains({t}) /\ UNCHANGED dep
    <2>1. ASSUME NEW d \in Deps, t \in {d, Home[d]} PROVE FALSE
      BY <1>1, <2>1, HomeAssumption, IdsDiffer
    <2>2. ASSUME NEW c \in Chains, t \in Scope(c) PROVE c = t
      BY <1>1, <2>2, PathFacts, IdsDiffer DEF Scope, NodeServers, NodeDeps
    <2> QED BY <1>1, <2>1, <2>2 DEF PurgeChains, ChainRow
  <1>2. CASE t \in Deps \cup Servers /\ PurgeDeps(D) /\ PurgeChains(ChainsOf(D))
    <2>1. ASSUME NEW d \in Deps, t \in {d, Home[d]} PROVE d \in D
      BY <1>2, <2>1, HomeAssumption, IdsDiffer
    <2>2. ASSUME NEW c \in Chains, t \in Scope(c), ChainRow(c) PROVE c \in ChainsOf(D)
      <3>1. PICK d \in NodeDeps(c) : t \in {d, Home[d]}
        BY <1>2, <2>2, IdsDiffer DEF Scope, NodeServers
      <3>2. d \in Deps
        BY PathFacts DEF NodeDeps
      <3>3. d \in D
        BY <2>1, <3>1, <3>2
      <3> QED BY <2>2, <3>1, <3>3 DEF ChainsOf
    <2>3. \A d \in Deps : t \in {d, Home[d]} => ~DepRow(d)'
      BY <1>2, <2>1 DEF PurgeDeps, DepRow
    <2>4. \A c \in Chains : t \in Scope(c) => ~ChainRow(c)'
      BY <1>2, <2>2 DEF PurgeChains, ChainRow
    <2> QED BY <2>3, <2>4
  <1> QED BY <1>1, <1>2 DEF purge_rows

\* So a row that is doomed stays doomed for as long as it is there.
LEMMA DoomLasts ==
    ASSUME TypeOK, DeleteScope, [Next]_vars, ~crash
    PROVE  /\ \A d \in Deps : DepDoomed(d) /\ DepRow(d)' => DepDoomed(d)'
           /\ \A c \in Chains : ChainDoomed(c) /\ ChainRow(c)' => ChainDoomed(c)'
  <1>1. ASSUME NEW d \in Deps, DepDoomed(d), DepRow(d)' PROVE DepDoomed(d)'
    <2>1. PICK r \in Requests : Deleting(r) /\ rq[r].target \in {d, Home[d]}
      BY <1>1 DEF DepDoomed, Deleting
    <2>2. GoesOn(r)
      BY <1>1, <2>1, RequestEffect, PurgeTakes
    <2> QED BY <2>1, <2>2 DEF DepDoomed, GoesOn, DeletePcs
  <1>2. ASSUME NEW c \in Chains, ChainDoomed(c), ChainRow(c)' PROVE ChainDoomed(c)'
    <2>1. PICK r \in Requests : Deleting(r) /\ rq[r].target \in Scope(c)
      BY <1>2 DEF ChainDoomed, Deleting, Scope
    <2>2. GoesOn(r)
      BY <1>2, <2>1, RequestEffect, PurgeTakes
    <2> QED BY <2>1, <2>2 DEF ChainDoomed, GoesOn, DeletePcs, Scope, NodeServers, NodeDeps
  <1> QED BY <1>1, <1>2

\* A service that goes away is rolled back, or goes with its row.
LEMMA ServicesGo ==
    ASSUME TypeOK, DeleteScope, [Next]_vars, ~crash
    PROVE  /\ \A d \in nodeUp : d \notin nodeUp' =>
                DepDoomed(d)' \/ \E j \in Jobs : Worker(j) /\ pc[j] = "rollback" /\ target[j] = d
           /\ \A c \in Chains, i \in Nat : <<c, i>> \in chainUp /\ <<c, i>> \notin chainUp' =>
                ChainDoomed(c)' \/ \E j \in Jobs : Worker(j) /\ pc[j] = "rollback" /\ target[j] = c
  <1>1. CASE UNCHANGED remote
    BY <1>1 DEF remote
  <1>2. ASSUME NEW j \in Jobs, Worker(j)
        PROVE  /\ \A d \in nodeUp : d \notin nodeUp' => pc[j] = "rollback" /\ target[j] = d
               /\ \A c \in Chains, i \in Nat : <<c, i>> \in chainUp /\ <<c, i>> \notin chainUp' =>
                    pc[j] = "rollback" /\ target[j] = c
    BY <1>2, WorkerRemoves
  <1>3. ASSUME NEW r \in Requests, uninstall_node(r)
        PROVE  UNCHANGED chainUp /\ \A d \in nodeUp : d \notin nodeUp' => DepDoomed(d)'
    <2>1. UNCHANGED chainUp /\ \A d \in nodeUp : d \notin nodeUp' => d \in rq[r].deps
      BY <1>3 DEF uninstall_node
    <2>2. ~purge_rows(r)
      BY <1>3 DEF uninstall_node, purge_rows
    <2>3. Deleting(r) /\ GoesOn(r) /\ InScope(rq[r])
      BY <1>3, <2>2, DeleteMoves DEF DeleteStep, DeleteScope
    <2>4. \A d \in rq[r].deps : DepDoomed(d)'
      BY <2>3 DEF InScope, Deleting, GoesOn, DepDoomed, DeletePcs
    <2> QED BY <2>1, <2>4
  <1>4. ASSUME NEW r \in Requests, cleanup_chain_service(r)
        PROVE  /\ UNCHANGED nodeUp
               /\ \A c \in Chains, i \in Nat :
                    <<c, i>> \in chainUp /\ <<c, i>> \notin chainUp' => ChainDoomed(c)'
    <2>1. /\ UNCHANGED nodeUp /\ rq[r].pc = "hops"
          /\ \A h \in chainUp : h \notin chainUp' => h = <<rq[r].cur, rq[r].at>>
      BY <1>4 DEF cleanup_chain_service
    <2>2. ~purge_rows(r)
      BY <1>4 DEF cleanup_chain_service, purge_rows
    <2>3. Deleting(r) /\ GoesOn(r) /\ InScope(rq[r])
      BY <1>4, <2>2, DeleteMoves DEF DeleteStep, DeleteScope
    <2>4. rq'[r].target \in Scope(rq[r].cur)
      BY <2>1, <2>3 DEF InScope, Deleting, GoesOn
    <2>5. ASSUME NEW c, c = rq[r].cur PROVE ChainDoomed(c)'
      BY <2>3, <2>4, <2>5 DEF GoesOn, ChainDoomed, DeletePcs, Scope, NodeServers, NodeDeps
    <2>6. ASSUME NEW c, NEW i, <<c, i>> \in chainUp, <<c, i>> \notin chainUp' PROVE c = rq[r].cur
      BY <2>1, <2>6
    <2> QED BY <2>1, <2>5, <2>6
  <1>5. ASSUME NEW r \in Requests,
               \/ StartTx(r) \/ cleanup_next_chain(r) \/ purge_rows(r)
               \/ \E d \in Deps : start_deployment(r, d) \/ delete_deployment(r, d)
               \/ \E c \in Chains : start_proxy_chain_deployment(r, c) \/ delete_proxy_chain(r, c)
               \/ \E s \in Servers : delete_server(r, s)
        PROVE  UNCHANGED remote
    <2>1. CASE cleanup_next_chain(r) \/ purge_rows(r)
      BY <2>1 DEF cleanup_next_chain, purge_rows
    <2> QED BY <1>5, <2>1, StartMoves, DeleteBegins
  <1>6. CASE recover_orphaned_jobs \/ UNCHANGED vars \/ (\E s \in Servers : create_server(s))
             \/ \E c \in Chains : create_proxy_chain(c)
    BY <1>1, <1>6 DEF recover_orphaned_jobs, vars, create_server, create_proxy_chain, remote
  <1> QED BY <1>1, <1>2, <1>3, <1>4, <1>5, <1>6 DEF Next, DeleteStep
-----------------------------------------------------------------------------
(* The workers.                                                            *)

\* How a worker gets to the states that InstalledSoFar and Unready are about.
LEMMA WorkerGoes ==
    ASSUME TypeOK, NEW j \in Jobs, Worker(j)
    PROVE  /\ target'[j] \in {target[j], NoTarget}
           /\ pc'[j] # "idle" => target'[j] = target[j]
           /\ pc'[j] \notin {"idle", "finish", "release"} =>
                /\ pc[j] \notin {"idle", "release"}
                /\ pc[j] = "finish" => target[j] \in Chains /\ ~ChainRow(target[j])
           /\ pc'[j] = "ready" => target[j] \in nodeUp'
           /\ pc'[j] = "install" /\ target[j] \in Chains =>
                \/ hop'[j] = Size(target[j])
                \/ pc[j] = "install" /\ hop'[j] = hop[j] - 1 /\ <<target[j], hop[j]>> \in chainUp'
           /\ pc'[j] = "publish" =>
                pc[j] = "install" /\ target[j] \in Chains /\ hop[j] = 1 /\ <<target[j], 1>> \in chainUp'
  <1>0. /\ DOMAIN pc = Jobs /\ DOMAIN target = Jobs /\ DOMAIN hop = Jobs
        /\ Deps \cap Chains = {}
    BY IdsDiffer DEF TypeOK, WorkersTyped
  <1>1. CASE spawn_worker(j) \/ deployment_ready(j) \/ check_chain(j)
    BY <1>0, <1>1 DEF spawn_worker, deployment_ready, check_chain, Goto
  <1>2. CASE prepare_deployment(j)
    BY <1>0, <1>2 DEF prepare_deployment, Goto
  <1>3. CASE spawn_failed(j) \/ release_worker(j)
    BY <1>0, <1>3 DEF spawn_failed, release_worker, CloseWorker
  <1>4. CASE install_deployment(j)
    BY <1>0, <1>4 DEF install_deployment, Goto, GotoAt
  <1>5. CASE prepare_chain_nodes(j) \/ publish_chain(j)
    BY <1>0, <1>5 DEF prepare_chain_nodes, publish_chain, Goto, GotoAt
  <1>6. CASE install_chain_service(j)
    <2>1. hop[j] \in Nat /\ hop[j] >= 1
      <3>1. Size(target[j]) \in 2..6 /\ hop[j] \in 1..Size(target[j])
        BY <1>6, PathFacts DEF install_chain_service, TypeOK, WorkersTyped, WorkerShape
      <3> QED BY <3>1
    <2> QED BY <1>0, <1>6, <2>1 DEF install_chain_service, Goto, GotoAt
  <1>7. CASE finish_success(j)
    BY <1>0, <1>7 DEF finish_success, Goto
  <1>8. CASE finish_failed(j) \/ mark_failed(j)
    BY <1>0, <1>8 DEF finish_failed, mark_failed, Goto, GotoAt
  <1>9. CASE rollback_deployment(j) \/ rollback_chain_service(j)
    BY <1>0, <1>9 DEF rollback_deployment, rollback_chain_service, Goto, GotoAt
  <1> QED BY <1>1, <1>2, <1>3, <1>4, <1>5, <1>6, <1>7, <1>8, <1>9 DEF Worker

\* Nobody but its own thread moves a worker, short of a crash or a new job.
LEMMA OthersMove ==
    ASSUME TypeOK, [Next]_vars, \A j \in Jobs : ~Worker(j)
    PROVE  \/ UNCHANGED workers /\ \A d \in Deps : DepRow(d)' => DepRow(d)
           \/ crash
           \/ \E r \in Requests, j \in Jobs : start_deployment_tx(r, j)
           \/ \E r \in Requests, j \in Jobs : start_proxy_chain_deployment_tx(r, j)
  <1>1. CASE \E r \in Requests : purge_rows(r)
    <2>1. UNCHANGED dep \/ \E D : PurgeDeps(D)
      BY <1>1 DEF purge_rows
    <2>2. \A d \in Deps : DepRow(d)' => DepRow(d)
      BY <2>1 DEF PurgeDeps, DepRow
    <2> QED BY <1>1, <2>2 DEF purge_rows
  <1>2. ASSUME NEW r \in Requests,
               \/ start_rejected(r) \/ cleanup_next_chain(r) \/ cleanup_chain_service(r)
               \/ uninstall_node(r)
               \/ \E d \in Deps : start_deployment(r, d) \/ delete_deployment(r, d)
               \/ \E c \in Chains : start_proxy_chain_deployment(r, c) \/ delete_proxy_chain(r, c)
               \/ \E s \in Servers : delete_server(r, s)
        PROVE  UNCHANGED workers /\ UNCHANGED dep
    BY <1>2 DEF start_rejected, cleanup_next_chain, cleanup_chain_service, uninstall_node,
         start_deployment, delete_deployment, start_proxy_chain_deployment, delete_proxy_chain,
         delete_server, BeginDelete, db
  <1>3. CASE recover_orphaned_jobs
    <2>1. UNCHANGED workers /\ \A d \in Deps : DepRow(d)' => DepRow(d)
      BY <1>3 DEF recover_orphaned_jobs, DepRow
    <2> QED BY <2>1
  <1>4. CASE UNCHANGED vars \/ (\E s \in Servers : create_server(s))
             \/ \E c \in Chains : create_proxy_chain(c)
    BY <1>4 DEF vars, workers, create_server, create_proxy_chain, DepRow
  <1> QED BY <1>1, <1>2, <1>3, <1>4 DEF Next, StartTx, DeleteStep, DepRow

\* Two jobs at work have different targets.
LEMMA OneJobPerTarget ==
    ASSUME TypeOK, LocksMirrorWorkers, NEW j \in Jobs, NEW k \in Jobs, Live(j), Live(k),
           target[j] = target[k]
    PROVE  j = k
  <1>1. target[j] \in Deps \cup Chains
    BY DEF TypeOK, WorkersTyped, WorkerShape, Live
  <1>2. Needs(target[j]) # {}
    BY <1>1 DEF Needs
  <1> QED BY <1>2, MirrorExcludes DEF JobsExclusive

\* A job that opens is the only one on its target.
LEMMA OpensAlone ==
    ASSUME TypeOK, LocksMirrorWorkers, up, NEW j \in Jobs, NEW t \in Deps \cup Chains, OpenJob(j, t)
    PROVE  /\ pc'[j] = "spawn" /\ target'[j] = t
           /\ \A k \in Jobs \ {j} : pc'[k] = pc[k] /\ target'[k] = target[k] /\ hop'[k] = hop[k]
           /\ \A k \in Jobs : Live(k) => target[k] # t
  <1>1. /\ pc'[j] = "spawn" /\ target'[j] = t
        /\ \A k \in Jobs \ {j} : pc'[k] = pc[k] /\ target'[k] = target[k] /\ hop'[k] = hop[k]
    BY DEF OpenJob, TypeOK, WorkersTyped
  <1>2. Needs(t) # {} /\ Needs(t) \subseteq Resources
    BY NeedsType DEF Needs
  <1>3. PICK x \in Resources : x \in Needs(t) /\ lock[x] = NoJob
    BY <1>2 DEF OpenJob, Busy
  <1>4. ASSUME NEW k \in Jobs, Live(k), target[k] = t PROVE FALSE
    <2>1. lock[x] = k
      BY <1>3, <1>4 DEF LocksMirrorWorkers
    <2> QED BY <1>3, <2>1, IdsDiffer
  <1> QED BY <1>1, <1>4

-----------------------------------------------------------------------------
(* The parts of the invariant, step by step.                               *)

LEMMA NextChainsKnown ==
    TypeOK /\ DeleteScope /\ ChainsKnown /\ [Next]_vars => ChainsKnown'
  <1> SUFFICES ASSUME TypeOK, DeleteScope, ChainsKnown, [Next]_vars PROVE ChainsKnown'
    OBVIOUS
  <1>0. \A c \in Chains : chain'[c] = "none" => chain[c] = "none"
    BY WorkerReports, OthersReport
  <1>1. NoTarget \notin Chains /\ Deps \cap Chains = {}
    BY IdsDiffer DEF Targets
  <1>2. ASSUME NEW j \in Jobs, target'[j] \in Chains PROVE chain'[target'[j]] # "none"
    <2>1. CASE target'[j] \in {target[j], NoTarget}
      BY <1>0, <1>1, <1>2, <2>1 DEF ChainsKnown
    <2>2. CASE \E k \in Jobs : Worker(k)
      BY <2>1, <2>2, WorkerAlone, WorkerGoes
    <2>3. CASE UNCHANGED workers \/ crash
      BY <2>1, <2>3 DEF workers, crash
    <2>4. ASSUME NEW r \in Requests, NEW k \in Jobs,
                 start_deployment_tx(r, k) \/ start_proxy_chain_deployment_tx(r, k)
          PROVE  chain'[target'[j]] # "none"
      <3>1. /\ target' = [target EXCEPT ![k] = rq[r].target]
            /\ rq[r].pc = "start" /\ DOMAIN target = Jobs
        BY <2>4 DEF start_deployment_tx, start_proxy_chain_deployment_tx, OpenJob, TypeOK, WorkersTyped
      <3>2. CASE j = k
        BY <1>0, <1>2, <3>1, <3>2 DEF ChainsKnown
      <3>3. CASE j # k
        BY <2>1, <3>1, <3>3
      <3> QED BY <3>2, <3>3
    <2> QED BY <2>2, <2>3, <2>4, OthersMove
  <1>3. ASSUME NEW r \in Requests, rq'[r].pc = "start", rq'[r].target \in Chains
        PROVE  chain'[rq'[r].target] # "none"
    <2>1. CASE rq'[r] = rq[r]
      BY <1>0, <1>3, <2>1 DEF ChainsKnown
    <2>2. CASE UNCHANGED db /\ ChainRow(rq'[r].target)
      BY <2>2 DEF db, ChainRow
    <2> QED BY <1>3, <2>1, <2>2, StartsAre
  <1> QED BY <1>2, <1>3 DEF ChainsKnown

LEMMA NextUnready ==
    TypeOK /\ LocksMirrorWorkers /\ Unready /\ [Next]_vars => Unready'
  <1> SUFFICES ASSUME TypeOK, LocksMirrorWorkers, Unready, [Next]_vars PROVE Unready'
    OBVIOUS
  <1>0. /\ \A j \in Jobs : Live(j) => target[j] \in Deps \cup Chains
        /\ Deps \cap Chains = {}
    BY IdsDiffer DEF TypeOK, WorkersTyped, WorkerShape, Live
  <1>1. ASSUME NEW j \in Jobs, Worker(j), NEW k \in Jobs,
               pc'[k] \notin {"idle", "finish", "release"}
        PROVE  /\ target'[k] \in Deps => dep'[target'[k]] # "ready"
               /\ target'[k] \in Chains => chain'[target'[k]] # "ready"
    <2>1. CASE k = j
      <3>1. target'[j] = target[j] /\ pc[j] \notin {"idle", "release"}
        BY <1>1, <2>1, WorkerGoes
      <3>2. /\ target[j] \in Deps => dep[target[j]] # "ready"
            /\ target[j] \in Chains => chain[target[j]] # "ready"
        BY <1>0, <1>1, <2>1, <3>1, WorkerGoes DEF Unready, ChainRow
      <3>3. DOMAIN pc = Jobs /\ pc'[j] \notin {"idle", "finish", "release"}
        BY <1>1, <2>1 DEF TypeOK, WorkersTyped
      <3>4. ~deployment_ready(j)
        BY <3>3 DEF deployment_ready, Goto
      <3>5. publish_chain(j) => ~ChainRow(target[j])
        BY <3>3 DEF publish_chain, Goto
      <3> QED BY <1>1, <2>1, <3>1, <3>2, <3>4, <3>5, WorkerReports
    <2>2. CASE k # j
      <3>1. pc'[k] = pc[k] /\ target'[k] = target[k] /\ Live(j) /\ Live(k)
        BY <1>1, <2>2, WorkerAlone DEF Live
      <3>2. target[j] # target[k]
        BY <2>2, <3>1, OneJobPerTarget
      <3>3. /\ target[k] \in Deps => dep[target[k]] # "ready"
            /\ target[k] \in Chains => chain[target[k]] # "ready"
        BY <1>1, <3>1 DEF Unready
      <3> QED BY <1>1, <3>1, <3>2, <3>3, WorkerReports
    <2> QED BY <2>1, <2>2
  <1>2. ASSUME \A j \in Jobs : ~Worker(j), NEW k \in Jobs, pc'[k] = pc[k], target'[k] = target[k],
               pc'[k] \notin {"idle", "finish", "release"}
        PROVE  /\ target'[k] \in Deps => dep'[target'[k]] # "ready"
               /\ target'[k] \in Chains => chain'[target'[k]] # "ready"
    BY <1>2, OthersReport DEF Unready
  <1>3. ASSUME \A j \in Jobs : ~Worker(j), NEW k \in Jobs,
               pc'[k] \notin {"idle", "finish", "release"}
        PROVE  /\ target'[k] \in Deps => dep'[target'[k]] # "ready"
               /\ target'[k] \in Chains => chain'[target'[k]] # "ready"
    <2>1. CASE UNCHANGED workers
      BY <1>2, <1>3, <2>1 DEF workers
    <2>2. CASE crash
      BY <1>3, <2>2 DEF crash
    <2>3. ASSUME NEW r \in Requests, NEW j \in Jobs, start_deployment_tx(r, j)
          PROVE  /\ target'[k] \in Deps => dep'[target'[k]] # "ready"
                 /\ target'[k] \in Chains => chain'[target'[k]] # "ready"
      <3>1. /\ up /\ rq[r].target \in Deps /\ OpenJob(j, rq[r].target)
            /\ dep' = [dep EXCEPT ![rq[r].target] = "provisioning"] /\ DOMAIN dep = Deps
        BY <2>3 DEF start_deployment_tx, TypeOK, DbTyped
      <3>2. CASE k = j
        BY <1>0, <3>1, <3>2, OpensAlone
      <3>3. CASE k # j
        BY <1>2, <1>3, <3>1, <3>3, OpensAlone
      <3> QED BY <3>2, <3>3
    <2>4. ASSUME NEW r \in Requests, NEW j \in Jobs, start_proxy_chain_deployment_tx(r, j)
          PROVE  /\ target'[k] \in Deps => dep'[target'[k]] # "ready"
                 /\ target'[k] \in Chains => chain'[target'[k]] # "ready"
      <3>1. /\ up /\ rq[r].target \in Chains /\ OpenJob(j, rq[r].target)
            /\ SetChain(rq[r].target, "deploying") /\ DOMAIN chain = Chains
        BY <2>4 DEF start_proxy_chain_deployment_tx, TypeOK, DbTyped
      <3>2. chain'[rq[r].target] # "ready"
        BY <3>1 DEF SetChain, ChainRow
      <3>3. CASE k = j
        BY <1>0, <3>1, <3>2, <3>3, OpensAlone
      <3>4. CASE k # j
        BY <1>2, <1>3, <3>1, <3>4, OpensAlone
      <3> QED BY <3>3, <3>4
    <2> QED BY <1>3, <2>1, <2>2, <2>3, <2>4, OthersMove
  <1> QED BY <1>1, <1>3 DEF Unready

\* A service stays safe as long as its row is there, unless its own job rolls
\* it back.
LEMMA StaysSafe ==
    ASSUME TypeOK, DeleteScope, [Next]_vars, ~crash
    PROVE  /\ \A d \in Deps : NodeSafe(d) /\ DepRow(d)' =>
                NodeSafe(d)' \/ \E j \in Jobs : Worker(j) /\ pc[j] = "rollback" /\ target[j] = d
           /\ \A c \in Chains, i \in Nat : HopSafe(c, i) /\ ChainRow(c)' =>
                HopSafe(c, i)' \/ \E j \in Jobs : Worker(j) /\ pc[j] = "rollback" /\ target[j] = c
  BY ServicesGo, DoomLasts DEF NodeSafe, HopSafe

\* What a job found in place stays, when the job itself does not move.
LEMMA InstalledStays ==
    ASSUME TypeOK, LocksMirrorWorkers, DeleteScope, ChainsKnown, InstalledSoFar, [Next]_vars, ~crash,
           NEW k \in Jobs, ~Worker(k), pc'[k] = pc[k], target'[k] = target[k], hop'[k] = hop[k],
           NEW t, t = target[k]
    PROVE  /\ pc[k] = "ready" /\ DepRow(t)' => NodeSafe(t)'
           /\ pc[k] = "install" /\ t \in Chains /\ ChainRow(t)' =>
                \A i \in (hop[k] + 1)..Size(t) : HopSafe(t, i)'
           /\ pc[k] = "publish" /\ ChainRow(t)' => \A i \in 1..Size(t) : HopSafe(t, i)'
  <1>1. Live(k) => ~\E j \in Jobs : Worker(j) /\ target[j] = t
    BY WorkerAlone, OneJobPerTarget
  <1>2. ASSUME pc[k] = "ready", DepRow(t)' PROVE NodeSafe(t)'
    <2>1. t \in Deps /\ Live(k)
      BY <1>2 DEF TypeOK, WorkersTyped, WorkerShape, Live
    <2>2. DepRow(t)
      <3>1. CASE \E j \in Jobs : Worker(j)
        BY <1>2, <2>1, <3>1, WorkerReports
      <3>2. CASE \A j \in Jobs : ~Worker(j)
        <4>1. ASSUME NEW r \in Requests, NEW j \in Jobs, start_deployment_tx(r, j) PROVE DepRow(t)
          <5>1. /\ up /\ rq[r].target \in Deps /\ OpenJob(j, rq[r].target) /\ DOMAIN dep = Deps
                /\ dep' = [dep EXCEPT ![rq[r].target] = "provisioning"]
            BY <4>1 DEF start_deployment_tx, TypeOK, DbTyped
          <5>2. t # rq[r].target
            BY <2>1, <5>1, OpensAlone
          <5> QED BY <1>2, <2>1, <5>1, <5>2 DEF DepRow
        <4>2. ASSUME NEW r \in Requests, NEW j \in Jobs, start_proxy_chain_deployment_tx(r, j)
              PROVE  DepRow(t)
          BY <1>2, <4>2 DEF start_proxy_chain_deployment_tx, DepRow
        <4> QED BY <1>2, <2>1, <3>2, <4>1, <4>2, OthersMove
      <3> QED BY <3>1, <3>2
    <2>3. NodeSafe(t)
      BY <1>2, <2>2 DEF InstalledSoFar, InstalledBy
    <2> QED BY <1>1, <1>2, <2>1, <2>3, StaysSafe
  <1>3. ASSUME t \in Chains, ChainRow(t)' PROVE ChainRow(t)
    <2>1. chain[t] # "none"
      BY <1>3 DEF ChainsKnown
    <2> QED BY <1>3, <2>1, WorkerReports, OthersReport
  <1>4. ASSUME pc[k] = "install", t \in Chains, ChainRow(t)', NEW i \in (hop[k] + 1)..Size(t)
        PROVE  HopSafe(t, i)'
    <2>1. Live(k) /\ i \in Nat
      BY <1>4, PathFacts DEF TypeOK, WorkersTyped, Live
    <2>2. HopSafe(t, i)
      BY <1>3, <1>4 DEF InstalledSoFar, InstalledBy
    <2> QED BY <1>1, <1>4, <2>1, <2>2, StaysSafe
  <1>5. ASSUME pc[k] = "publish", ChainRow(t)', NEW i \in 1..Size(t) PROVE HopSafe(t, i)'
    <2>1. Live(k) /\ t \in Chains
      BY <1>5 DEF TypeOK, WorkersTyped, WorkerShape, Live
    <2>2. HopSafe(t, i)
      BY <1>3, <1>5, <2>1 DEF InstalledSoFar, InstalledBy
    <2>3. i \in Nat
      BY <1>5, <2>1, PathFacts
    <2> QED BY <1>1, <1>5, <2>1, <2>2, <2>3, StaysSafe
  <1> QED BY <1>2, <1>4, <1>5

\* What the moving job has just installed is added to what it found in place.
LEMMA InstalledGrows ==
    ASSUME TypeOK, DeleteScope, ChainsKnown, InstalledSoFar, NEW k \in Jobs, Worker(k), [Next]_vars, ~crash,
           NEW t, t = target[k]
    PROVE  /\ pc'[k] = "ready" => NodeSafe(t)'
           /\ pc'[k] = "install" /\ t \in Chains /\ ChainRow(t)' =>
                \A i \in (hop'[k] + 1)..Size(t) : HopSafe(t, i)'
           /\ pc'[k] = "publish" /\ ChainRow(t)' => \A i \in 1..Size(t) : HopSafe(t, i)'
  <1>1. pc'[k] = "ready" => NodeSafe(t)'
    BY WorkerGoes DEF NodeSafe
  <1>2. ASSUME pc[k] = "install", t \in Chains, ChainRow(t)', NEW i \in hop[k]..Size(t),
               <<t, hop[k]>> \in chainUp'
        PROVE  HopSafe(t, i)'
    <2>1. Size(t) \in 2..6 /\ hop[k] \in 1..Size(t) /\ ChainRow(t)
      BY <1>2, PathFacts, WorkerReports DEF TypeOK, WorkersTyped, WorkerShape
    <2>2. CASE i = hop[k]
      BY <1>2, <2>2 DEF HopSafe
    <2>3. CASE i # hop[k]
      <3>1. i \in (hop[k] + 1)..Size(t) /\ i \in Nat
        BY <1>2, <2>1, <2>3
      <3>2. HopSafe(t, i)
        BY <1>2, <2>1, <3>1 DEF InstalledSoFar, InstalledBy
      <3>3. UNCHANGED rq /\ \A h \in chainUp : h \in chainUp'
        BY <1>2, WorkerAlone, WorkerRemoves
      <3> QED BY <3>2, <3>3 DEF HopSafe, ChainDoomed, NodeServers, NodeDeps, DeletePcs
    <2> QED BY <2>2, <2>3
  <1>3. ASSUME pc'[k] = "install", t \in Chains, ChainRow(t)', NEW i \in (hop'[k] + 1)..Size(t)
        PROVE  HopSafe(t, i)'
    <2>1. Size(t) \in 2..6
      BY <1>3, PathFacts
    <2>2. CASE hop'[k] = Size(t)
      BY <1>3, <2>1, <2>2
    <2>3. CASE pc[k] = "install" /\ hop'[k] = hop[k] - 1 /\ <<t, hop[k]>> \in chainUp'
      <3>1. hop[k] \in 0..6
        BY DEF TypeOK, WorkersTyped
      <3>2. i \in hop[k]..Size(t)
        BY <1>3, <2>3, <3>1
      <3> QED BY <1>2, <1>3, <2>3, <3>2
    <2> QED BY <1>3, <2>2, <2>3, WorkerGoes
  <1>4. ASSUME pc'[k] = "publish", ChainRow(t)', NEW i \in 1..Size(t) PROVE HopSafe(t, i)'
    <2>1. pc[k] = "install" /\ t \in Chains /\ hop[k] = 1 /\ <<t, hop[k]>> \in chainUp'
      BY <1>4, WorkerGoes
    <2> QED BY <1>2, <1>4, <2>1
  <1> QED BY <1>1, <1>3, <1>4

LEMMA NextInstalled ==
    TypeOK /\ LocksMirrorWorkers /\ DeleteScope /\ ChainsKnown /\ InstalledSoFar /\ [Next]_vars
      => InstalledSoFar'
  <1> SUFFICES ASSUME TypeOK, LocksMirrorWorkers, DeleteScope, ChainsKnown, InstalledSoFar,
                      [Next]_vars
               PROVE  InstalledSoFar'
    OBVIOUS
  <1> DEFINE Placed(k, t) ==
        /\ pc'[k] = "ready" /\ DepRow(t)' => NodeSafe(t)'
        /\ pc'[k] = "install" /\ t \in Chains /\ ChainRow(t)' =>
             \A i \in (hop'[k] + 1)..Size(t) : HopSafe(t, i)'
        /\ pc'[k] = "publish" /\ ChainRow(t)' => \A i \in 1..Size(t) : HopSafe(t, i)'
  <1>1. CASE crash
    BY <1>1 DEF crash, InstalledSoFar, InstalledBy
  <1>2. ASSUME ~crash, NEW k \in Jobs, NEW t, t = target'[k] PROVE Placed(k, t)
    <2>1. CASE Worker(k)
      <3>1. CASE pc'[k] = "idle"
        BY <3>1
      <3>2. CASE pc'[k] # "idle"
        <4>1. t = target[k]
          BY <1>2, <2>1, <3>2, WorkerGoes
        <4> QED BY <1>2, <2>1, <4>1, InstalledGrows
      <3> QED BY <3>1, <3>2
    <2>2. CASE ~Worker(k) /\ pc'[k] = pc[k] /\ target'[k] = target[k] /\ hop'[k] = hop[k]
      BY <1>2, <2>2, InstalledStays
    <2>3. CASE ~Worker(k) /\ \E j \in Jobs : Worker(j)
      BY <2>2, <2>3, WorkerAlone
    <2>4. CASE \A j \in Jobs : ~Worker(j)
      <3>1. CASE UNCHANGED workers
        BY <2>2, <2>4, <3>1 DEF workers
      <3>2. ASSUME NEW r \in Requests, NEW j \in Jobs,
                   start_deployment_tx(r, j) \/ start_proxy_chain_deployment_tx(r, j)
            PROVE  Placed(k, t)
        <4>1. up /\ rq[r].target \in Deps \cup Chains /\ OpenJob(j, rq[r].target)
          BY <3>2 DEF start_deployment_tx, start_proxy_chain_deployment_tx
        <4>2. CASE k = j
          BY <4>1, <4>2, OpensAlone
        <4>3. CASE k # j
          BY <2>2, <2>4, <4>1, <4>3, OpensAlone
        <4> QED BY <4>2, <4>3
      <3> QED BY <1>2, <2>4, <3>1, <3>2, OthersMove
    <2> QED BY <2>1, <2>3, <2>4
  <1>3. ASSUME ~crash, NEW k \in Jobs PROVE InstalledBy(k)'
    <2>1. PICK t : t = target'[k]
      OBVIOUS
    <2>2. Placed(k, t)
      BY <1>2, <1>3, <2>1
    <2> QED BY <2>1, <2>2 DEF InstalledBy, DepRow, ChainRow, NodeSafe, HopSafe, DepDoomed,
               ChainDoomed, Size, NodeServers, NodeDeps, DeletePcs
  <1> QED BY <1>1, <1>3 DEF InstalledSoFar

\* Only a crash counts as one.
LEMMA CrashesCount ==
    ASSUME TypeOK, [Next]_vars, crashes' = 0
    PROVE  ~crash /\ crashes = 0
  <1>1. ~crash
    BY BoundAssumption DEF TypeOK, crash
  <1>2. CASE (\E j \in Jobs : Worker(j)) \/ recover_orphaned_jobs \/ UNCHANGED vars
    BY <1>1, <1>2, WorkerAlone DEF recover_orphaned_jobs, vars
  <1>3. CASE (\E s \in Servers : create_server(s)) \/ \E c \in Chains : create_proxy_chain(c)
    BY <1>1, <1>3 DEF create_server, create_proxy_chain
  <1>4. ASSUME NEW r \in Requests,
               \/ StartTx(r) \/ DeleteStep(r)
               \/ \E d \in Deps : start_deployment(r, d) \/ delete_deployment(r, d)
               \/ \E c \in Chains : start_proxy_chain_deployment(r, c) \/ delete_proxy_chain(r, c)
               \/ \E s \in Servers : delete_server(r, s)
        PROVE  UNCHANGED crashes
    <2>1. CASE StartTx(r)
      BY <2>1 DEF StartTx, start_deployment_tx, start_proxy_chain_deployment_tx, start_rejected
    <2>2. CASE DeleteStep(r)
      BY <2>2 DEF DeleteStep, cleanup_next_chain, cleanup_chain_service, uninstall_node, purge_rows
    <2>3. CASE ~StartTx(r) /\ ~DeleteStep(r)
      BY <1>4, <2>3 DEF start_deployment, delete_deployment, start_proxy_chain_deployment,
           delete_proxy_chain, delete_server, BeginDelete
    <2> QED BY <2>1, <2>2, <2>3
  <1> QED BY <1>1, <1>2, <1>3, <1>4 DEF Next

LEMMA NextReady ==
    TypeOK /\ DeleteScope /\ Unready /\ InstalledSoFar /\ ReadyIsInstalled /\ [Next]_vars
      => ReadyIsInstalled'
  <1> SUFFICES ASSUME TypeOK, DeleteScope, Unready, InstalledSoFar, ReadyIsInstalled,
                      [Next]_vars, crashes' = 0
               PROVE  /\ \A d \in Deps : dep'[d] = "ready" => NodeSafe(d)'
                      /\ \A c \in Chains : chain'[c] = "ready" =>
                           ChainDoomed(c)' \/ \A i \in 1..Size(c) : <<c, i>> \in chainUp'
    BY DEF ReadyIsInstalled, NodeSafe
  <1>1. ~crash /\ crashes = 0
    BY CrashesCount
  <1>2. \A j \in Jobs : pc[j] = "rollback" =>
          /\ target[j] \in Deps => dep[target[j]] # "ready"
          /\ target[j] \in Chains => chain[target[j]] # "ready"
    BY DEF Unready
  <1>3. ASSUME NEW d \in Deps, dep'[d] = "ready" PROVE NodeSafe(d)'
    <2>1. CASE dep[d] = "ready"
      <3>1. NodeSafe(d) /\ DepRow(d)'
        BY <1>1, <1>3, <2>1 DEF ReadyIsInstalled, NodeSafe, DepRow
      <3> QED BY <1>1, <1>2, <2>1, <3>1, StaysSafe
    <2>2. CASE dep[d] # "ready"
      <3>1. PICK j \in Jobs : Worker(j) /\ deployment_ready(j) /\ target[j] = d /\ DepRow(d)
                              /\ UNCHANGED remote
        BY <1>3, <2>2, WorkerReports, OthersReport
      <3>2. NodeSafe(d)
        BY <3>1 DEF deployment_ready, InstalledSoFar, InstalledBy
      <3>3. UNCHANGED rq
        BY <3>1, WorkerAlone
      <3> QED BY <3>1, <3>2, <3>3 DEF NodeSafe, DepDoomed, DeletePcs, remote
    <2> QED BY <2>1, <2>2
  <1>4. ASSUME NEW c \in Chains, chain'[c] = "ready", NEW i \in 1..Size(c) PROVE HopSafe(c, i)'
    <2>0. i \in Nat
      BY PathFacts
    <2>1. CASE chain[c] = "ready"
      <3>1. HopSafe(c, i) /\ ChainRow(c)'
        BY <1>1, <1>4, <2>1 DEF ReadyIsInstalled, HopSafe, ChainRow
      <3> QED BY <1>1, <1>2, <2>0, <2>1, <3>1, StaysSafe
    <2>2. CASE chain[c] # "ready"
      <3>1. PICK j \in Jobs : Worker(j) /\ publish_chain(j) /\ target[j] = c /\ ChainRow(c)
                              /\ UNCHANGED remote
        BY <1>4, <2>2, WorkerReports, OthersReport
      <3>2. HopSafe(c, i)
        BY <3>1 DEF publish_chain, InstalledSoFar, InstalledBy
      <3>3. UNCHANGED rq
        BY <3>1, WorkerAlone
      <3> QED BY <3>1, <3>2, <3>3 DEF HopSafe, ChainDoomed, NodeServers, NodeDeps, DeletePcs, remote
    <2> QED BY <2>1, <2>2
  <1>5. ASSUME NEW c \in Chains, chain'[c] = "ready"
        PROVE  ChainDoomed(c)' \/ \A i \in 1..Size(c) : <<c, i>> \in chainUp'
    BY <1>4, <1>5 DEF HopSafe
  <1> QED BY <1>3, <1>5

LEMMA InitReady == Init => ReadyInv
  <1> SUFFICES ASSUME Init PROVE ReadyInv
    OBVIOUS
  <1>1. \A r \in Requests : rq[r] = IdleRequest /\ rq[r].pc = "idle"
    BY Fields DEF Init, IdleRequest
  <1>2. DeleteScope /\ ChainsKnown
    BY <1>1, IdleInScope, IdsDiffer DEF Init, DeleteScope, ChainsKnown, Targets
  <1>3. Unready /\ InstalledSoFar
    BY DEF Init, Unready, InstalledSoFar, InstalledBy
  <1>4. ReadyIsInstalled
    BY DEF Init, ReadyIsInstalled
  <1> QED BY <1>2, <1>3, <1>4, InitType, InitLocks DEF ReadyInv

LEMMA NextReadyInv == ReadyInv /\ [Next]_vars => ReadyInv'
  BY NextType, NextLocks, NextScope, NextChainsKnown, NextUnready, NextInstalled, NextReady
     DEF ReadyInv

\* No overlap of jobs, deletes and failures leaves a deployment or a chain
\* "ready" without its services.
THEOREM ReadyIsTrue == Spec => []ReadyIsInstalled
  <1>1. ReadyInv => ReadyIsInstalled
    BY DEF ReadyInv
  <1> QED BY InitReady, NextReadyInv, <1>1, PTL DEF Spec

\* Only a chain's worker brings one of its services up, the one it is at.
LEMMA WhoInstalls ==
    ASSUME TypeOK, DeleteScope, [Next]_vars, NEW h, h \notin chainUp, h \in chainUp'
    PROVE  \E j \in Jobs : install_chain_service(j) /\ h = <<target[j], hop[j]>>
  <1>1. ASSUME NEW j \in Jobs, Worker(j)
        PROVE  install_chain_service(j) /\ h = <<target[j], hop[j]>>
    <2>1. CASE install_chain_service(j)
      BY <2>1 DEF install_chain_service
    <2>2. CASE rollback_chain_service(j)
      BY <2>2 DEF rollback_chain_service
    <2>3. CASE UNCHANGED chainUp
      BY <2>3
    <2> QED BY <1>1, <2>1, <2>2, <2>3 DEF Worker, spawn_worker, spawn_failed, prepare_deployment,
               install_deployment, deployment_ready, check_chain, prepare_chain_nodes, publish_chain,
               finish_success, mark_failed, rollback_deployment, finish_failed, release_worker, remote
  <1>2. ASSUME NEW r \in Requests,
               \/ StartTx(r) \/ DeleteStep(r)
               \/ \E d \in Deps : start_deployment(r, d) \/ delete_deployment(r, d)
               \/ \E c \in Chains : start_proxy_chain_deployment(r, c) \/ delete_proxy_chain(r, c)
               \/ \E s \in Servers : delete_server(r, s)
        PROVE  FALSE
    <2>1. CASE DeleteStep(r)
      BY <2>1 DEF DeleteStep, cleanup_next_chain, cleanup_chain_service, uninstall_node, purge_rows, remote
    <2>2. CASE ~DeleteStep(r)
      BY <1>2, <2>2, StartMoves, DeleteBegins DEF remote
    <2> QED BY <2>1, <2>2
  <1>3. CASE (\E s \in Servers : create_server(s)) \/ (\E c \in Chains : create_proxy_chain(c))
             \/ crash \/ recover_orphaned_jobs \/ UNCHANGED vars
    BY <1>3 DEF create_server, create_proxy_chain, crash, recover_orphaned_jobs, vars, remote
  <1> QED BY <1>1, <1>2, <1>3 DEF Next

\* Users connect to the entry only: it comes up after the hops behind it.
THEOREM EntryComesLast == Spec => ExitBeforeEntry
  <1> DEFINE Ordered ==
        \A c \in Chains : ChainRow(c) /\ <<c, 1>> \notin chainUp /\ <<c, 1>> \in chainUp' =>
          ChainDoomed(c) \/ \A i \in 2..Size(c) : <<c, i>> \in chainUp
  <1>1. ASSUME ReadyInv, [Next]_vars PROVE Ordered
    <2>1. ASSUME NEW c \in Chains, ChainRow(c), <<c, 1>> \notin chainUp, <<c, 1>> \in chainUp',
                 NEW i \in 2..Size(c)
          PROVE  HopSafe(c, i)
      <3>1. PICK j \in Jobs : install_chain_service(j) /\ <<c, 1>> = <<target[j], hop[j]>>
        BY <1>1, <2>1, WhoInstalls DEF ReadyInv
      <3>2. pc[j] = "install" /\ target[j] = c /\ hop[j] = 1 /\ i \in (hop[j] + 1)..Size(c)
        BY <2>1, <3>1 DEF install_chain_service
      <3> QED BY <1>1, <2>1, <3>2 DEF ReadyInv, InstalledSoFar, InstalledBy
    <2> QED BY <2>1 DEF HopSafe
  <1>2. ReadyInv /\ [Next]_vars => [Ordered]_vars
    BY <1>1
  <1> QED BY InitReady, NextReadyInv, <1>2, PTL DEF Spec, ExitBeforeEntry
=============================================================================
