-------------------------- MODULE NodeJobs_proofs --------------------------
(***************************************************************************)
(* Proofs about NodeJobs, for any number of servers, deployments, chains,  *)
(* jobs, requests and crashes.                                             *)
(***************************************************************************)
EXTENDS NodeJobs, TLAPS

-----------------------------------------------------------------------------
(* Facts about the constants.                                              *)

\* A chain has two to six nodes, every one of them a deployment on a server.
LEMMA PathFacts ==
    ASSUME NEW c \in Chains
    PROVE  /\ Size(c) \in 2..6
           /\ \A i \in 1..Size(c) : Path[c][i] \in Deps /\ Home[Path[c][i]] \in Servers
  BY PathAssumption, HomeAssumption DEF Size

\* What a job locks are servers and chains.
LEMMA NeedsType == \A t : Needs(t) \subseteq Resources
  <1> SUFFICES ASSUME NEW t PROVE Needs(t) \subseteq Resources
    OBVIOUS
  <1>1. CASE t \in Chains
    BY <1>1, PathFacts DEF Needs, NodeServers, NodeDeps, Resources
  <1>2. CASE t \notin Chains
    BY <1>2, HomeAssumption DEF Needs, Resources
  <1> QED BY <1>1, <1>2

\* A request built within its types is well shaped.
LEMMA RequestBuilt ==
    ASSUME NEW w \in RequestPcs, NEW t \in Targets \cup {NoTarget}, NEW C \in SUBSET Chains,
           NEW c \in Chains \cup {NoTarget}, NEW i \in 0..6, NEW D \in SUBSET Deps,
           w # "idle" => t \in Targets,
           w = "start" => t \in Deps \cup Chains,
           w = "hops" => c \in Chains /\ i \in 1..Size(c)
    PROVE  /\ Request(w, t, C, c, i, D) \in RequestRecords
           /\ RequestShape(Request(w, t, C, c, i, D))
  <1> DEFINE q == Request(w, t, C, c, i, D)
  <1>1. q \in RequestRecords
    BY DEF Request, RequestRecords
  <1>2. q.pc = w /\ q.target = t /\ q.cur = c /\ q.at = i
    BY DEF Request
  <1> HIDE DEF q
  <1>3. RequestShape(q)
    BY <1>2 DEF RequestShape
  <1> QED BY <1>1, <1>3 DEF q

LEMMA IdleRequestType == IdleRequest \in RequestRecords /\ RequestShape(IdleRequest)
  BY RequestBuilt DEF IdleRequest, RequestPcs

-----------------------------------------------------------------------------
(* Type correctness, part by part.                                         *)

\* A worker that moves within the bounds of its target stays well typed.
LEMMA WorkerMoves ==
    ASSUME WorkersTyped, NEW j \in Jobs,
           NEW w \in WorkerPcs, NEW t \in Deps \cup Chains \cup {NoTarget}, NEW i \in 0..6,
           WorkerShape(w, t, i),
           pc' = [pc EXCEPT ![j] = w],
           target' = [target EXCEPT ![j] = t],
           hop' = [hop EXCEPT ![j] = i]
    PROVE  WorkersTyped'
  <1>1. ASSUME NEW k \in Jobs PROVE WorkerShape(pc'[k], target'[k], hop'[k])
    <2>1. CASE k = j
      BY <2>1 DEF WorkersTyped
    <2>2. CASE k # j
      BY <2>2 DEF WorkersTyped
    <2> QED BY <2>1, <2>2
  <1> QED BY <1>1 DEF WorkersTyped

\* A request that gets a well-shaped record stays well typed.
LEMMA RequestMoves ==
    ASSUME RequestsTyped, NEW r \in Requests, NEW q \in RequestRecords, RequestShape(q),
           rq' = [rq EXCEPT ![r] = q]
    PROVE  RequestsTyped'
  <1>1. ASSUME NEW k \in Requests PROVE RequestShape(rq'[k])
    BY <1>1 DEF RequestsTyped
  <1> QED BY <1>1 DEF RequestsTyped

LEMMA GotoTyped ==
    ASSUME WorkersTyped, NEW j \in Jobs, Live(j), NEW w \in WorkerPcs \ {"idle"},
           w = "ready" => target[j] \in Deps,
           w \in {"name", "publish"} => target[j] \in Chains,
           w \in {"install", "rollback"} => target[j] \in Deps,
           Goto(j, w)
    PROVE  WorkersTyped'
  <1>1. WorkerShape(w, target[j], hop[j])
    BY IdsDiffer DEF WorkersTyped, WorkerShape, Live, Targets
  <1>2. /\ pc' = [pc EXCEPT ![j] = w]
        /\ target' = [target EXCEPT ![j] = target[j]]
        /\ hop' = [hop EXCEPT ![j] = hop[j]]
    BY DEF Goto, WorkersTyped
  <1>3. target[j] \in Deps \cup Chains \cup {NoTarget} /\ hop[j] \in 0..6
    BY DEF WorkersTyped
  <1> QED BY <1>1, <1>2, <1>3, WorkerMoves

LEMMA GotoAtTyped ==
    ASSUME WorkersTyped, NEW j \in Jobs, Live(j), NEW w \in WorkerPcs \ {"idle"}, NEW i \in 0..6,
           w \notin {"ready", "name", "publish"},
           w \in {"install", "rollback"} /\ target[j] \in Chains =>
              i \in 1..Size(target[j]),
           GotoAt(j, w, i)
    PROVE  WorkersTyped'
  <1>1. WorkerShape(w, target[j], i)
    BY DEF WorkersTyped, WorkerShape, Live
  <1>2. /\ pc' = [pc EXCEPT ![j] = w]
        /\ target' = [target EXCEPT ![j] = target[j]]
        /\ hop' = [hop EXCEPT ![j] = i]
    BY DEF GotoAt, WorkersTyped
  <1>3. target[j] \in Deps \cup Chains \cup {NoTarget}
    BY DEF WorkersTyped
  <1> QED BY <1>1, <1>2, <1>3, WorkerMoves

LEMMA CloseTyped ==
    ASSUME WorkersTyped, NEW j \in Jobs, CloseWorker(j)
    PROVE  WorkersTyped'
  <1>1. WorkerShape("idle", NoTarget, 0) /\ "idle" \in WorkerPcs
    BY DEF WorkerShape, WorkerPcs
  <1>2. NoTarget \in Deps \cup Chains \cup {NoTarget} /\ 0 \in 0..6
    OBVIOUS
  <1>3. /\ pc' = [pc EXCEPT ![j] = "idle"]
        /\ target' = [target EXCEPT ![j] = NoTarget]
        /\ hop' = [hop EXCEPT ![j] = 0]
    BY DEF CloseWorker
  <1> QED BY <1>1, <1>2, <1>3, WorkerMoves

LEMMA OpenJobTyped ==
    ASSUME DbTyped, WorkersTyped, NEW j \in Jobs, NEW t \in Deps \cup Chains, OpenJob(j, t)
    PROVE  /\ WorkersTyped'
           /\ job' \in [Jobs -> {"none", "running", "success", "failed"}]
           /\ lock' \in [Resources -> Jobs \cup {NoJob}]
  <1>1. WorkerShape("spawn", t, 0) /\ "spawn" \in WorkerPcs
    BY DEF WorkerShape, WorkerPcs
  <1>2. WorkersTyped'
    <2>1. t \in Deps \cup Chains \cup {NoTarget} /\ 0 \in 0..6
      OBVIOUS
    <2>2. /\ pc' = [pc EXCEPT ![j] = "spawn"]
          /\ target' = [target EXCEPT ![j] = t]
          /\ hop' = [hop EXCEPT ![j] = 0]
      BY DEF OpenJob
    <2> QED BY <1>1, <2>1, <2>2, WorkerMoves
  <1> QED BY <1>2 DEF OpenJob, AcquireLocks, DbTyped

\* What nobody touches stays typed.
LEMMA Frames ==
    ASSUME TypeOK
    PROVE  /\ UNCHANGED db => DbTyped'
           /\ UNCHANGED remote => RemoteTyped'
           /\ UNCHANGED workers => WorkersTyped'
           /\ UNCHANGED rq => RequestsTyped'
  <1>1. UNCHANGED db => DbTyped'
    BY DEF TypeOK, DbTyped, db
  <1>2. UNCHANGED remote => RemoteTyped'
    BY DEF TypeOK, RemoteTyped, remote
  <1>3. UNCHANGED workers => WorkersTyped'
    BY DEF TypeOK, WorkersTyped, workers
  <1>4. UNCHANGED rq => RequestsTyped'
    BY DEF TypeOK, RequestsTyped
  <1> QED BY <1>1, <1>2, <1>3, <1>4
\* A step of a worker thread keeps every value typed.
LEMMA WorkerType ==
    ASSUME TypeOK, NEW j \in Jobs, Worker(j)
    PROVE  TypeOK'
  <1>1. CASE spawn_worker(j)
    <2>1. WorkersTyped'
      BY <1>1, GotoTyped DEF spawn_worker, TypeOK, Live, WorkerPcs
    <2>2. DbTyped'
      BY <1>1, Frames DEF spawn_worker
    <2>3. RemoteTyped'
      BY <1>1, Frames DEF spawn_worker
    <2> QED BY <1>1, <2>1, <2>2, <2>3, Frames DEF spawn_worker, TypeOK
  <1>2. CASE spawn_failed(j)
    <2>1. WorkersTyped'
      BY <1>2, CloseTyped DEF spawn_failed, TypeOK
    <2>2. DbTyped'
      BY <1>2 DEF spawn_failed, ReleaseLocks, FinishJob, SetDep, SetChain, TypeOK, DbTyped
    <2>3. RemoteTyped'
      BY <1>2, Frames DEF spawn_failed
    <2> QED BY <1>2, <2>1, <2>2, <2>3, Frames DEF spawn_failed, TypeOK
  <1>3. CASE prepare_deployment(j)
    <2>1. WorkersTyped'
      BY <1>3, GotoTyped DEF prepare_deployment, TypeOK, Live, WorkerPcs
    <2>2. DbTyped'
      BY <1>3, Frames DEF prepare_deployment
    <2>3. RemoteTyped'
      BY <1>3, Frames DEF prepare_deployment
    <2> QED BY <1>3, <2>1, <2>2, <2>3, Frames DEF prepare_deployment, TypeOK
  <1>4. CASE install_deployment(j)
    <2>1. WorkersTyped'
      <3>1. Live(j) /\ target[j] \in Deps /\ WorkersTyped
        BY <1>4 DEF install_deployment, TypeOK, Live
      <3>2. Goto(j, "ready") \/ GotoAt(j, "fail", 1)
        BY <1>4 DEF install_deployment
      <3> QED BY <3>1, <3>2, GotoTyped, GotoAtTyped DEF WorkerPcs
    <2>2. DbTyped'
      BY <1>4, Frames DEF install_deployment
    <2>3. RemoteTyped'
      BY <1>4 DEF install_deployment, TypeOK, RemoteTyped
    <2> QED BY <1>4, <2>1, <2>2, <2>3, Frames DEF install_deployment, TypeOK
  <1>5. CASE deployment_ready(j)
    <2>1. WorkersTyped'
      BY <1>5, GotoTyped DEF deployment_ready, TypeOK, Live, WorkerPcs
    <2>2. DbTyped'
      BY <1>5 DEF deployment_ready, SetDep, TypeOK, DbTyped
    <2>3. RemoteTyped'
      BY <1>5, Frames DEF deployment_ready
    <2> QED BY <1>5, <2>1, <2>2, <2>3, Frames DEF deployment_ready, TypeOK
  <1>15. CASE check_chain(j)
    <2>1. WorkersTyped'
      <3>1. Live(j) /\ target[j] \in Chains /\ WorkersTyped
        BY <1>15 DEF check_chain, TypeOK, Live
      <3>2. Goto(j, "name") \/ Goto(j, "fail")
        BY <1>15 DEF check_chain
      <3> QED BY <3>1, <3>2, GotoTyped DEF WorkerPcs
    <2>2. DbTyped'
      BY <1>15, Frames DEF check_chain
    <2>3. RemoteTyped'
      BY <1>15, Frames DEF check_chain
    <2> QED BY <1>15, <2>1, <2>2, <2>3, Frames DEF check_chain, TypeOK
  <1>6. CASE prepare_chain_nodes(j)
    <2>1. WorkersTyped'
      <3>1. /\ Live(j) /\ target[j] \in Chains /\ WorkersTyped
            /\ Size(target[j]) \in 2..6
        BY <1>6, PathFacts DEF prepare_chain_nodes, TypeOK, WorkersTyped, WorkerShape, Live
      <3>2. GotoAt(j, "install", Size(target[j])) \/ Goto(j, "fail")
        BY <1>6 DEF prepare_chain_nodes
      <3>3. CASE GotoAt(j, "install", Size(target[j]))
        <4>1. /\ Size(target[j]) \in 0..6
              /\ Size(target[j]) \in 1..Size(target[j])
          BY <3>1
        <4>2. "install" \in WorkerPcs \ {"idle"}
          BY DEF WorkerPcs
        <4> QED BY <3>1, <3>3, <4>1, <4>2, GotoAtTyped
      <3>4. CASE Goto(j, "fail")
        BY <3>1, <3>4, GotoTyped DEF WorkerPcs
      <3> QED BY <3>2, <3>3, <3>4
    <2>2. DbTyped'
      BY <1>6 DEF prepare_chain_nodes, TypeOK, DbTyped, WorkersTyped, WorkerShape
    <2>3. RemoteTyped'
      BY <1>6, Frames DEF prepare_chain_nodes
    <2> QED BY <1>6, <2>1, <2>2, <2>3, Frames DEF prepare_chain_nodes, TypeOK
  <1>7. CASE install_chain_service(j)
    <2>1. WorkersTyped'
      <3>1. /\ Live(j) /\ target[j] \in Chains /\ WorkersTyped
            /\ Size(target[j]) \in 2..6 /\ hop[j] \in 1..Size(target[j])
        BY <1>7, PathFacts DEF install_chain_service, TypeOK, WorkersTyped, WorkerShape, Live
      <3>2. \/ hop[j] > 1 /\ GotoAt(j, "install", hop[j] - 1)
            \/ Goto(j, "publish") \/ Goto(j, "fail")
        BY <1>7 DEF install_chain_service
      <3>3. CASE hop[j] > 1 /\ GotoAt(j, "install", hop[j] - 1)
        <4>1. /\ hop[j] - 1 \in 1..Size(target[j])
              /\ hop[j] - 1 \in 0..6
          BY <3>1, <3>3
        <4>2. "install" \in WorkerPcs \ {"idle"}
          BY DEF WorkerPcs
        <4> QED BY <3>1, <3>3, <4>1, <4>2, GotoAtTyped
      <3>4. CASE Goto(j, "publish") \/ Goto(j, "fail")
        BY <3>1, <3>4, GotoTyped DEF WorkerPcs
      <3> QED BY <3>2, <3>3, <3>4
    <2>2. DbTyped'
      BY <1>7, Frames DEF install_chain_service
    <2>3. RemoteTyped'
      <3>1. target[j] \in Chains /\ hop[j] \in 1..Size(target[j]) /\ hop[j] \in Nat
        BY <1>7, PathFacts DEF install_chain_service, TypeOK, WorkersTyped, WorkerShape
      <3>2. <<target[j], hop[j]>> \in Hops
        BY <3>1 DEF Hops
      <3> QED BY <1>7, <3>2 DEF install_chain_service, TypeOK, RemoteTyped
    <2> QED BY <1>7, <2>1, <2>2, <2>3, Frames DEF install_chain_service, TypeOK
  <1>8. CASE publish_chain(j)
    <2>1. WorkersTyped'
      <3>1. Live(j) /\ WorkersTyped
        BY <1>8 DEF publish_chain, TypeOK, Live
      <3>2. Goto(j, "finish") \/ Goto(j, "fail")
        BY <1>8 DEF publish_chain
      <3> QED BY <3>1, <3>2, GotoTyped DEF WorkerPcs
    <2>2. DbTyped'
      BY <1>8 DEF publish_chain, SetChain, TypeOK, DbTyped, WorkersTyped, WorkerShape
    <2>3. RemoteTyped'
      BY <1>8, Frames DEF publish_chain
    <2> QED BY <1>8, <2>1, <2>2, <2>3, Frames DEF publish_chain, TypeOK
  <1>9. CASE finish_success(j)
    <2>1. WorkersTyped'
      <3>1. Live(j) /\ WorkersTyped
        BY <1>9 DEF finish_success, TypeOK, Live
      <3>2. Goto(j, "fail") \/ Goto(j, "release")
        BY <1>9 DEF finish_success
      <3> QED BY <3>1, <3>2, GotoTyped DEF WorkerPcs
    <2>2. DbTyped'
      BY <1>9 DEF finish_success, FinishJob, TypeOK, DbTyped
    <2>3. RemoteTyped'
      BY <1>9, Frames DEF finish_success
    <2> QED BY <1>9, <2>1, <2>2, <2>3, Frames DEF finish_success, TypeOK
  <1>10. CASE mark_failed(j)
    <2>1. WorkersTyped'
      <3>1. /\ Live(j) /\ WorkersTyped /\ target[j] \in Deps \cup Chains
            /\ target[j] \in Chains => Size(target[j]) \in 2..6
        BY <1>10, PathFacts DEF mark_failed, TypeOK, WorkersTyped, WorkerShape, Live
      <3>2. \/ target[j] \in Deps /\ Goto(j, "rollback")
            \/ target[j] \notin Deps /\ GotoAt(j, "rollback", 1)
            \/ Goto(j, "fail_job")
        BY <1>10 DEF mark_failed
      <3>3. CASE target[j] \in Deps /\ Goto(j, "rollback")
        BY <3>1, <3>3, GotoTyped DEF WorkerPcs
      <3>4. CASE target[j] \notin Deps /\ GotoAt(j, "rollback", 1)
        <4>1. /\ 1 \in 0..6 /\ 1 \in 1..Size(target[j])
          BY <3>1, <3>4
        <4>2. "rollback" \in WorkerPcs \ {"idle"}
          BY DEF WorkerPcs
        <4> QED BY <3>1, <3>4, <4>1, <4>2, GotoAtTyped
      <3>5. CASE Goto(j, "fail_job")
        BY <3>1, <3>5, GotoTyped DEF WorkerPcs
      <3> QED BY <3>2, <3>3, <3>4, <3>5
    <2>2. DbTyped'
      BY <1>10 DEF mark_failed, SetDep, SetChain, TypeOK, DbTyped
    <2>3. RemoteTyped'
      BY <1>10, Frames DEF mark_failed
    <2> QED BY <1>10, <2>1, <2>2, <2>3, Frames DEF mark_failed, TypeOK
  <1>11. CASE rollback_deployment(j)
    <2>1. WorkersTyped'
      BY <1>11, GotoTyped DEF rollback_deployment, TypeOK, Live, WorkerPcs
    <2>2. DbTyped'
      BY <1>11, Frames DEF rollback_deployment
    <2>3. RemoteTyped'
      BY <1>11 DEF rollback_deployment, TypeOK, RemoteTyped
    <2> QED BY <1>11, <2>1, <2>2, <2>3, Frames DEF rollback_deployment, TypeOK
  <1>12. CASE rollback_chain_service(j)
    <2>1. WorkersTyped'
      <3>1. /\ Live(j) /\ target[j] \in Chains /\ WorkersTyped
            /\ Size(target[j]) \in 2..6 /\ hop[j] \in 1..Size(target[j])
        BY <1>12, PathFacts DEF rollback_chain_service, TypeOK, WorkersTyped, WorkerShape, Live
      <3>2. \/ hop[j] < Size(target[j]) /\ GotoAt(j, "rollback", hop[j] + 1)
            \/ Goto(j, "fail_job")
        BY <1>12 DEF rollback_chain_service
      <3>3. CASE hop[j] < Size(target[j]) /\ GotoAt(j, "rollback", hop[j] + 1)
        <4>1. /\ hop[j] + 1 \in 1..Size(target[j])
              /\ hop[j] + 1 \in 0..6
          BY <3>1, <3>3
        <4>2. "rollback" \in WorkerPcs \ {"idle"}
          BY DEF WorkerPcs
        <4> QED BY <3>1, <3>3, <4>1, <4>2, GotoAtTyped
      <3>4. CASE Goto(j, "fail_job")
        BY <3>1, <3>4, GotoTyped DEF WorkerPcs
      <3> QED BY <3>2, <3>3, <3>4
    <2>2. DbTyped'
      BY <1>12, Frames DEF rollback_chain_service
    <2>3. RemoteTyped'
      BY <1>12 DEF rollback_chain_service, TypeOK, RemoteTyped
    <2> QED BY <1>12, <2>1, <2>2, <2>3, Frames DEF rollback_chain_service, TypeOK
  <1>13. CASE finish_failed(j)
    <2>1. WorkersTyped'
      BY <1>13, GotoTyped DEF finish_failed, TypeOK, Live, WorkerPcs
    <2>2. DbTyped'
      BY <1>13 DEF finish_failed, FinishJob, TypeOK, DbTyped
    <2>3. RemoteTyped'
      BY <1>13, Frames DEF finish_failed
    <2> QED BY <1>13, <2>1, <2>2, <2>3, Frames DEF finish_failed, TypeOK
  <1>14. CASE release_worker(j)
    <2>1. WorkersTyped'
      BY <1>14, CloseTyped DEF release_worker, TypeOK
    <2>2. DbTyped'
      BY <1>14 DEF release_worker, ReleaseLocks, TypeOK, DbTyped
    <2>3. RemoteTyped'
      BY <1>14, Frames DEF release_worker
    <2> QED BY <1>14, <2>1, <2>2, <2>3, Frames DEF release_worker, TypeOK
  <1> QED BY <1>1, <1>2, <1>3, <1>4, <1>5, <1>6, <1>7, <1>8, <1>9, <1>10, <1>11, <1>12, <1>13, <1>14, <1>15 DEF Worker

\* A step of a delete request keeps every value typed.
LEMMA DeleteType ==
    ASSUME TypeOK, NEW r \in Requests, DeleteStep(r)
    PROVE  TypeOK'
  <1>0. rq[r] \in RequestRecords /\ RequestShape(rq[r]) /\ RequestsTyped
    BY DEF TypeOK, RequestsTyped
  <1>f. /\ rq[r].chains \in SUBSET Chains /\ rq[r].deps \in SUBSET Deps
        /\ {} \in SUBSET Chains /\ {} \in SUBSET Deps
        /\ NoTarget \in Chains \cup {NoTarget} /\ 0 \in 0..6
        /\ {"chains", "hops", "uninstall", "purge"} \subseteq RequestPcs
    BY <1>0 DEF RequestRecords, RequestPcs
  <1>t. ASSUME rq[r].pc \in {"chains", "hops", "uninstall", "purge"}
        PROVE  rq[r].target \in Targets /\ rq[r].target \in Targets \cup {NoTarget}
    BY <1>0, <1>t DEF RequestShape
  <1>1. CASE cleanup_next_chain(r)
    <2>0. rq[r].target \in Targets /\ rq[r].target \in Targets \cup {NoTarget}
      BY <1>1, <1>t DEF cleanup_next_chain
    <2>1. PICK q : rq' = [rq EXCEPT ![r] = q] /\ q \in RequestRecords /\ RequestShape(q)
      <3>1. CASE rq[r].chains = {}
        <4> DEFINE w == IF rq[r].deps = {} THEN "purge" ELSE "uninstall"
        <4>1. w \in RequestPcs /\ w # "start" /\ w # "hops"
          BY <1>f
        <4>2. rq' = [rq EXCEPT ![r] = Request(w, rq[r].target, {}, NoTarget, 0, rq[r].deps)]
          BY <1>1, <3>1 DEF cleanup_next_chain
        <4> HIDE DEF w
        <4> QED BY <1>f, <2>0, <4>1, <4>2, RequestBuilt
      <3>2. CASE rq[r].chains # {}
        <4> DEFINE next(c) == IF ChainRow(c) /\ c \in named
              THEN Request("hops", rq[r].target, rq[r].chains \ {c}, c, 1, rq[r].deps)
              ELSE Request("chains", rq[r].target, rq[r].chains \ {c}, NoTarget, 0, rq[r].deps)
        <4>1. PICK c \in rq[r].chains : rq' = [rq EXCEPT ![r] = next(c)]
          BY <1>1, <3>2, Zenon DEF cleanup_next_chain
        <4>2. /\ c \in Chains /\ c \in Chains \cup {NoTarget} /\ rq[r].chains \ {c} \in SUBSET Chains
              /\ 1 \in 0..6 /\ 1 \in 1..Size(c)
          BY <1>f, PathFacts
        <4>3. /\ Request("hops", rq[r].target, rq[r].chains \ {c}, c, 1, rq[r].deps) \in RequestRecords
              /\ RequestShape(Request("hops", rq[r].target, rq[r].chains \ {c}, c, 1, rq[r].deps))
          BY <1>f, <2>0, <4>2, RequestBuilt
        <4>4. /\ Request("chains", rq[r].target, rq[r].chains \ {c}, NoTarget, 0, rq[r].deps)
                   \in RequestRecords
              /\ RequestShape(Request("chains", rq[r].target, rq[r].chains \ {c}, NoTarget, 0, rq[r].deps))
          BY <1>f, <2>0, <4>2, RequestBuilt
        <4>5. next(c) \in RequestRecords /\ RequestShape(next(c))
          BY <4>3, <4>4
        <4> HIDE DEF next
        <4> QED BY <4>1, <4>5
      <3> QED BY <3>1, <3>2
    <2>2. RequestsTyped'
      BY <1>0, <2>1, RequestMoves
    <2> QED BY <1>1, <2>2, Frames DEF cleanup_next_chain, TypeOK
  <1>2. CASE cleanup_chain_service(r)
    <2>0. /\ rq[r].target \in Targets /\ rq[r].target \in Targets \cup {NoTarget}
          /\ rq[r].cur \in Chains /\ rq[r].at \in 1..Size(rq[r].cur)
          /\ rq[r].cur \in Chains \cup {NoTarget} /\ Size(rq[r].cur) \in 2..6
      BY <1>0, <1>2, <1>t, PathFacts DEF cleanup_chain_service, RequestShape
    <2>1. PICK q : rq' = [rq EXCEPT ![r] = q] /\ q \in RequestRecords /\ RequestShape(q)
      <3>1. CASE rq[r].at < Size(rq[r].cur)
        <4>1. rq[r].at + 1 \in 0..6 /\ rq[r].at + 1 \in 1..Size(rq[r].cur)
          BY <2>0, <3>1
        <4>2. rq' = [rq EXCEPT ![r] =
                Request("hops", rq[r].target, rq[r].chains, rq[r].cur, rq[r].at + 1, rq[r].deps)]
          BY <1>2, <3>1 DEF cleanup_chain_service
        <4> QED BY <1>f, <2>0, <4>1, <4>2, RequestBuilt
      <3>2. CASE ~(rq[r].at < Size(rq[r].cur))
        <4>1. rq' = [rq EXCEPT ![r] =
                Request("chains", rq[r].target, rq[r].chains, NoTarget, 0, rq[r].deps)]
          BY <1>2, <3>2 DEF cleanup_chain_service
        <4> QED BY <1>f, <2>0, <4>1, RequestBuilt
      <3> QED BY <3>1, <3>2
    <2>2. RequestsTyped'
      BY <1>0, <2>1, RequestMoves
    <2>3. RemoteTyped'
      BY <1>2 DEF cleanup_chain_service, TypeOK, RemoteTyped
    <2> QED BY <1>2, <2>2, <2>3, Frames DEF cleanup_chain_service, TypeOK
  <1>3. CASE uninstall_node(r)
    <2>0. rq[r].target \in Targets /\ rq[r].target \in Targets \cup {NoTarget}
      BY <1>3, <1>t DEF uninstall_node
    <2>1. PICK w \in {"purge", "uninstall"}, D \in SUBSET Deps :
            rq' = [rq EXCEPT ![r] = Request(w, rq[r].target, {}, NoTarget, 0, D)]
      <3>1. PICK d \in rq[r].deps :
              \/ rq' = [rq EXCEPT ![r] = Request(IF rq[r].deps \ {d} = {} THEN "purge" ELSE "uninstall",
                                                 rq[r].target, {}, NoTarget, 0, rq[r].deps \ {d})]
              \/ rq' = [rq EXCEPT ![r] = Request("purge", rq[r].target, {}, NoTarget, 0, {})]
        BY <1>3, Zenon DEF uninstall_node
      <3>2. rq[r].deps \ {d} \in SUBSET Deps
        BY <1>f
      <3> QED BY <1>f, <3>1, <3>2
    <2>2. RequestsTyped'
      <3>1. w \in RequestPcs /\ w # "start" /\ w # "hops"
        BY <1>f
      <3> QED BY <1>0, <1>f, <2>0, <2>1, <3>1, RequestBuilt, RequestMoves
    <2>3. RemoteTyped'
      BY <1>3 DEF uninstall_node, TypeOK, RemoteTyped
    <2> QED BY <1>3, <2>2, <2>3, Frames DEF uninstall_node, TypeOK
  <1>4. CASE purge_rows(r)
    <2>1. RequestsTyped'
      BY <1>0, <1>4, IdleRequestType, RequestMoves DEF purge_rows
    <2>2. /\ server' \in [Servers -> {"none", "present", "deleted"}]
          /\ dep' \in [Deps -> {"none", "provisioning", "ready", "failed", "deleted"}]
      BY <1>4 DEF purge_rows, PurgeDeps, TypeOK, DbTyped
    <2>3. /\ chain' \in [Chains -> {"none", "planned", "deploying", "ready", "failed", "deleted"}]
          /\ shareLink' \subseteq Chains /\ named' \subseteq Chains
      <3>1. PICK C : PurgeChains(C)
        BY <1>4 DEF purge_rows
      <3> QED BY <3>1 DEF PurgeChains, TypeOK, DbTyped
    <2>4. DbTyped'
      BY <1>4, <2>2, <2>3 DEF purge_rows, TypeOK, DbTyped
    <2> QED BY <1>4, <2>1, <2>4, Frames DEF purge_rows, TypeOK
  <1> QED BY <1>1, <1>2, <1>3, <1>4 DEF DeleteStep

\* A request that begins, with a record of the right shape.
LEMMA RequestBegins ==
    ASSUME TypeOK, NEW r \in Requests, NEW w \in {"start", "chains"}, NEW t \in Targets,
           NEW C \in SUBSET Chains, NEW D \in SUBSET Deps,
           w = "start" => t \in Deps \cup Chains,
           rq' = [rq EXCEPT ![r] = Request(w, t, C, NoTarget, 0, D)],
           UNCHANGED <<db, remote, workers, up, crashes>>
    PROVE  TypeOK'
  <1>1. /\ w \in RequestPcs /\ w # "hops" /\ t \in Targets \cup {NoTarget}
        /\ NoTarget \in Chains \cup {NoTarget} /\ 0 \in 0..6
    BY DEF RequestPcs
  <1>2. RequestsTyped'
    BY <1>1, RequestBuilt, RequestMoves DEF TypeOK
  <1> QED BY <1>2, Frames DEF TypeOK

\* Every other step of a request keeps every value typed.
LEMMA RequestType ==
    ASSUME TypeOK, NEW r \in Requests,
           \/ \E d \in Deps : start_deployment(r, d) \/ delete_deployment(r, d)
           \/ \E c \in Chains : start_proxy_chain_deployment(r, c) \/ delete_proxy_chain(r, c)
           \/ \E s \in Servers : delete_server(r, s)
           \/ StartTx(r)
    PROVE  TypeOK'
  <1>0. /\ DbTyped /\ RequestsTyped /\ WorkersTyped /\ RequestShape(rq[r])
        /\ {} \in SUBSET Chains /\ {} \in SUBSET Deps
    BY DEF TypeOK, RequestsTyped
  <1>1. ASSUME NEW d \in Deps, start_deployment(r, d) PROVE TypeOK'
    BY <1>0, <1>1, RequestBegins DEF start_deployment, Targets
  <1>2. ASSUME NEW d \in Deps, delete_deployment(r, d) PROVE TypeOK'
    <2>1. ChainsOf({d}) \in SUBSET Chains /\ {d} \in SUBSET Deps /\ d \in Targets
      BY DEF ChainsOf, Targets
    <2> QED BY <1>2, <2>1, RequestBegins DEF delete_deployment, BeginDelete
  <1>3. ASSUME NEW c \in Chains, start_proxy_chain_deployment(r, c) PROVE TypeOK'
    BY <1>0, <1>3, RequestBegins DEF start_proxy_chain_deployment, Targets
  <1>4. ASSUME NEW c \in Chains, delete_proxy_chain(r, c) PROVE TypeOK'
    <2>1. {c} \in SUBSET Chains /\ {} \in SUBSET Deps /\ c \in Targets
      BY DEF Targets
    <2> QED BY <1>4, <2>1, RequestBegins DEF delete_proxy_chain, BeginDelete
  <1>5. ASSUME NEW s \in Servers, delete_server(r, s) PROVE TypeOK'
    <2> DEFINE D == {d \in Deps : DepRow(d) /\ Home[d] = s}
    <2>1. ChainsOf(D) \in SUBSET Chains /\ D \in SUBSET Deps /\ s \in Targets
      BY DEF ChainsOf, Targets
    <2>2. BeginDelete(r, s, ChainsOf(D), D)
      BY <1>5 DEF delete_server
    <2> HIDE DEF D
    <2> QED BY <2>1, <2>2, RequestBegins DEF BeginDelete
  <1>6. ASSUME NEW j \in Jobs, start_deployment_tx(r, j) PROVE TypeOK'
    <2>1. RequestsTyped'
      BY <1>0, <1>6, IdleRequestType, RequestMoves DEF start_deployment_tx
    <2>2. rq[r].target \in Deps /\ OpenJob(j, rq[r].target)
      BY <1>6 DEF start_deployment_tx
    <2>3. /\ WorkersTyped'
          /\ job' \in [Jobs -> {"none", "running", "success", "failed"}]
          /\ lock' \in [Resources -> Jobs \cup {NoJob}]
      BY <1>0, <2>2, OpenJobTyped
    <2>4. DbTyped'
      BY <1>0, <1>6, <2>3 DEF start_deployment_tx, DbTyped
    <2> QED BY <1>6, <2>1, <2>3, <2>4, Frames DEF start_deployment_tx, TypeOK
  <1>7. ASSUME NEW j \in Jobs, start_proxy_chain_deployment_tx(r, j) PROVE TypeOK'
    <2>1. RequestsTyped'
      BY <1>0, <1>7, IdleRequestType, RequestMoves DEF start_proxy_chain_deployment_tx
    <2>2. rq[r].target \in Chains /\ OpenJob(j, rq[r].target)
      BY <1>7 DEF start_proxy_chain_deployment_tx
    <2>3. /\ WorkersTyped'
          /\ job' \in [Jobs -> {"none", "running", "success", "failed"}]
          /\ lock' \in [Resources -> Jobs \cup {NoJob}]
      BY <1>0, <2>2, OpenJobTyped
    <2>4. DbTyped'
      BY <1>0, <1>7, <2>3 DEF start_proxy_chain_deployment_tx, SetChain, DbTyped
    <2> QED BY <1>7, <2>1, <2>3, <2>4, Frames DEF start_proxy_chain_deployment_tx, TypeOK
  <1>8. ASSUME start_rejected(r) PROVE TypeOK'
    <2>1. RequestsTyped'
      BY <1>0, <1>8, IdleRequestType, RequestMoves DEF start_rejected
    <2> QED BY <1>8, <2>1, Frames DEF start_rejected, TypeOK
  <1> QED BY <1>1, <1>2, <1>3, <1>4, <1>5, <1>6, <1>7, <1>8 DEF StartTx

\* The remaining actions: rows are created, the process dies, it recovers.
LEMMA SystemType ==
    ASSUME TypeOK,
           \/ \E s \in Servers : create_server(s)
           \/ \E c \in Chains : create_proxy_chain(c)
           \/ crash \/ recover_orphaned_jobs
    PROVE  TypeOK'
  <1>1. ASSUME NEW s \in Servers, create_server(s) PROVE TypeOK'
    <2>1. DbTyped'
      BY <1>1 DEF create_server, TypeOK, DbTyped
    <2> QED BY <1>1, <2>1, Frames DEF create_server, TypeOK
  <1>2. ASSUME NEW c \in Chains, create_proxy_chain(c) PROVE TypeOK'
    <2>1. DbTyped'
      BY <1>2 DEF create_proxy_chain, TypeOK, DbTyped
    <2> QED BY <1>2, <2>1, Frames DEF create_proxy_chain, TypeOK
  <1>3. CASE crash
    <2>1. RequestsTyped'
      BY <1>3, IdleRequestType DEF crash, RequestsTyped
    <2>2. WorkersTyped'
      BY <1>3 DEF crash, WorkersTyped, WorkerShape, WorkerPcs
    <2>3. crashes' \in 0..MaxCrashes
      BY <1>3, BoundAssumption DEF crash, TypeOK
    <2>4. up' \in BOOLEAN
      BY <1>3 DEF crash
    <2> QED BY <1>3, <2>1, <2>2, <2>3, <2>4, Frames DEF crash, TypeOK
  <1>4. CASE recover_orphaned_jobs
    <2>1. DbTyped'
      BY <1>4 DEF recover_orphaned_jobs, TypeOK, DbTyped
    <2> QED BY <1>4, <2>1, Frames DEF recover_orphaned_jobs, TypeOK
  <1> QED BY <1>1, <1>2, <1>3, <1>4

LEMMA InitType == Init => TypeOK
  <1> SUFFICES ASSUME Init PROVE TypeOK
    OBVIOUS
  <1>1. DbTyped
    BY DEF Init, DbTyped
  <1>2. RemoteTyped
    BY InstalledAssumption DEF Init, RemoteTyped
  <1>3. WorkersTyped
    BY DEF Init, WorkersTyped, WorkerShape, WorkerPcs
  <1>4. RequestsTyped
    BY IdleRequestType DEF Init, RequestsTyped
  <1>5. up \in BOOLEAN /\ crashes \in 0..MaxCrashes
    BY BoundAssumption DEF Init
  <1> QED BY <1>1, <1>2, <1>3, <1>4, <1>5 DEF TypeOK

LEMMA NextType == TypeOK /\ [Next]_vars => TypeOK'
  <1> SUFFICES ASSUME TypeOK, [Next]_vars PROVE TypeOK'
    OBVIOUS
  <1>1. CASE Next
    BY <1>1, WorkerType, DeleteType, RequestType, SystemType DEF Next
  <1>2. CASE UNCHANGED vars
    BY <1>2, Frames DEF vars, db, remote, workers, TypeOK
  <1> QED BY <1>1, <1>2

\* Every reachable state is well typed: in particular no worker and no cleanup
\* ever addresses a chain node that does not exist.
THEOREM TypeCorrect == Spec => []TypeOK
  BY InitType, NextType, PTL DEF Spec
-----------------------------------------------------------------------------
(* The lock table.                                                         *)

\* A step that touches no lock and starts and ends no worker.
Quiet == UNCHANGED <<lock, target, up>> /\ \A j \in Jobs : Live(j)' <=> Live(j)

LEMMA LockFrame ==
    ASSUME LocksMirrorWorkers, Quiet
    PROVE  LocksMirrorWorkers'
  BY DEF Quiet, LocksMirrorWorkers, Needs, NodeServers, NodeDeps

LEMMA WorkersQuiet == UNCHANGED <<lock, workers, up>> => Quiet
  BY DEF Quiet, workers, Live

\* A worker that goes on keeps what it holds.
LEMMA GotoQuiet ==
    ASSUME TypeOK, NEW j \in Jobs, Live(j), UNCHANGED <<lock, up>>,
           NEW w \in WorkerPcs \ {"idle"}, pc' = [pc EXCEPT ![j] = w], UNCHANGED target
    PROVE  Quiet
  <1>1. pc \in [Jobs -> WorkerPcs]
    BY DEF TypeOK, WorkersTyped
  <1>2. \A k \in Jobs : Live(k)' <=> Live(k)
    BY <1>1 DEF Live
  <1> QED BY <1>2 DEF Quiet

\* A worker that ends, with or without ever having run, leaves no lock behind.
LEMMA CloseLocks ==
    ASSUME TypeOK, LocksMirrorWorkers, up, NEW j \in Jobs, UNCHANGED up,
           ReleaseLocks(j), CloseWorker(j)
    PROVE  LocksMirrorWorkers'
  <1>1. /\ pc' = [pc EXCEPT ![j] = "idle"] /\ target' = [target EXCEPT ![j] = NoTarget]
        /\ pc \in [Jobs -> WorkerPcs] /\ DOMAIN target = Jobs
    BY DEF TypeOK, WorkersTyped, CloseWorker
  <1>2. ASSUME NEW r \in Resources, NEW k \in Jobs
        PROVE  lock'[r] = k <=> (Live(k)' /\ r \in Needs(target'[k]))
    <2>1. lock[r] = k <=> (Live(k) /\ r \in Needs(target[k]))
      BY DEF LocksMirrorWorkers
    <2>2. lock'[r] = IF lock[r] = j THEN NoJob ELSE lock[r]
      BY DEF ReleaseLocks
    <2>3. CASE k = j
      BY <1>1, <2>2, <2>3, IdsDiffer DEF Live
    <2>4. CASE k # j
      <3>1. (Live(k)' <=> Live(k)) /\ target'[k] = target[k]
        BY <1>1, <2>4 DEF Live
      <3> QED BY <2>1, <2>2, <2>4, <3>1, IdsDiffer
    <2> QED BY <2>3, <2>4
  <1> QED BY <1>2 DEF LocksMirrorWorkers, Needs, NodeServers, NodeDeps

\* A job that opens holds exactly what it needs.
LEMMA OpenLocks ==
    ASSUME TypeOK, LocksMirrorWorkers, up, NEW j \in Jobs, NEW t, UNCHANGED up, OpenJob(j, t)
    PROVE  LocksMirrorWorkers'
  <1>1. /\ pc' = [pc EXCEPT ![j] = "spawn"] /\ target' = [target EXCEPT ![j] = t]
        /\ pc \in [Jobs -> WorkerPcs] /\ DOMAIN target = Jobs
        /\ ~Live(j) /\ \A r \in Needs(t) : lock[r] = NoJob
    BY DEF TypeOK, WorkersTyped, OpenJob, Busy
  <1>2. ASSUME NEW r \in Resources, NEW k \in Jobs
        PROVE  lock'[r] = k <=> (Live(k)' /\ r \in Needs(target'[k]))
    <2>1. lock[r] = k <=> (Live(k) /\ r \in Needs(target[k]))
      BY DEF LocksMirrorWorkers
    <2>2. lock'[r] = IF r \in Needs(t) THEN j ELSE lock[r]
      BY DEF OpenJob, AcquireLocks
    <2>3. CASE k = j
      <3>1. Live(k)' /\ target'[k] = t /\ lock[r] # k
        BY <1>1, <2>1, <2>3 DEF Live
      <3> QED BY <2>2, <2>3, <3>1
    <2>4. CASE k # j
      <3>1. (Live(k)' <=> Live(k)) /\ target'[k] = target[k]
        BY <1>1, <2>4 DEF Live
      <3>2. r \in Needs(t) => lock[r] # k
        BY <1>1, IdsDiffer
      <3> QED BY <2>1, <2>2, <2>4, <3>1, <3>2
    <2> QED BY <2>3, <2>4
  <1> QED BY <1>2 DEF LocksMirrorWorkers, Needs, NodeServers, NodeDeps

\* What a step can do to the locks: nothing, open one job, close one, lose all
\* workers, or recover.
LEMMA LockSteps ==
    ASSUME TypeOK, [Next]_vars
    PROVE  \/ Quiet
           \/ up /\ UNCHANGED up /\ \E j \in Jobs, t \in Deps \cup Chains : OpenJob(j, t)
           \/ up /\ UNCHANGED up /\ \E j \in Jobs : ReleaseLocks(j) /\ CloseWorker(j)
           \/ crash \/ recover_orphaned_jobs
  <1> DEFINE Step ==
           \/ Quiet
           \/ up /\ UNCHANGED up /\ \E j \in Jobs, t \in Deps \cup Chains : OpenJob(j, t)
           \/ up /\ UNCHANGED up /\ \E j \in Jobs : ReleaseLocks(j) /\ CloseWorker(j)
           \/ crash \/ recover_orphaned_jobs
  <1>1. ASSUME NEW j \in Jobs, Worker(j) PROVE Step
    <2>1. CASE spawn_failed(j) \/ release_worker(j)
      BY <2>1 DEF spawn_failed, release_worker
    <2>2. CASE ~(spawn_failed(j) \/ release_worker(j))
      <3>1. /\ Live(j) /\ UNCHANGED <<lock, up, target>>
            /\ \E w \in WorkerPcs \ {"idle"} : pc' = [pc EXCEPT ![j] = w]
        <4>1. CASE spawn_worker(j) \/ prepare_deployment(j) \/ deployment_ready(j)
          BY <4>1 DEF spawn_worker, prepare_deployment, deployment_ready, Goto, Live, WorkerPcs, db
        <4>2. CASE install_deployment(j) \/ rollback_deployment(j)
          BY <4>2 DEF install_deployment, rollback_deployment, Goto, GotoAt, Live, WorkerPcs, db
        <4>3. CASE check_chain(j) \/ prepare_chain_nodes(j) \/ publish_chain(j)
          BY <4>3 DEF check_chain, prepare_chain_nodes, publish_chain, Goto, GotoAt, Live, WorkerPcs, db
        <4>4. CASE install_chain_service(j)
          BY <4>4 DEF install_chain_service, Goto, GotoAt, Live, WorkerPcs, db
        <4>5. CASE rollback_chain_service(j)
          BY <4>5 DEF rollback_chain_service, Goto, GotoAt, Live, WorkerPcs, db
        <4>6. CASE finish_success(j) \/ finish_failed(j)
          BY <4>6 DEF finish_success, finish_failed, Goto, Live, WorkerPcs
        <4>7. CASE mark_failed(j)
          BY <4>7 DEF mark_failed, Goto, GotoAt, Live, WorkerPcs
        <4> QED BY <1>1, <2>2, <4>1, <4>2, <4>3, <4>4, <4>5, <4>6, <4>7 DEF Worker
      <3> QED BY <3>1, GotoQuiet
    <2> QED BY <2>1, <2>2
  <1>2. ASSUME NEW r \in Requests, StartTx(r) PROVE Step
    <2>1. CASE start_rejected(r)
      BY <2>1, WorkersQuiet DEF start_rejected, db
    <2>2. ASSUME NEW j \in Jobs, start_deployment_tx(r, j) PROVE Step
      BY <2>2 DEF start_deployment_tx
    <2>3. ASSUME NEW j \in Jobs, start_proxy_chain_deployment_tx(r, j) PROVE Step
      BY <2>3 DEF start_proxy_chain_deployment_tx
    <2> QED BY <1>2, <2>1, <2>2, <2>3 DEF StartTx
  <1>3. ASSUME NEW r \in Requests,
               \/ \E d \in Deps : start_deployment(r, d) \/ delete_deployment(r, d)
               \/ \E c \in Chains : start_proxy_chain_deployment(r, c) \/ delete_proxy_chain(r, c)
               \/ \E s \in Servers : delete_server(r, s)
        PROVE  Step
    BY <1>3, WorkersQuiet DEF start_deployment, delete_deployment, delete_server,
         start_proxy_chain_deployment, delete_proxy_chain, BeginDelete, db
  <1>4. ASSUME NEW r \in Requests, DeleteStep(r) PROVE Step
    BY <1>4, WorkersQuiet DEF DeleteStep, cleanup_next_chain, cleanup_chain_service,
         uninstall_node, purge_rows, db
  <1>5. CASE \/ \E s \in Servers : create_server(s)
             \/ \E c \in Chains : create_proxy_chain(c)
    BY <1>5, WorkersQuiet DEF create_server, create_proxy_chain
  <1>6. CASE UNCHANGED vars
    BY <1>6, WorkersQuiet DEF vars, workers
  <1> QED BY <1>1, <1>2, <1>3, <1>4, <1>5, <1>6 DEF Next

\* Every step keeps the lock table and the workers in agreement.
LEMMA NextLocks == TypeOK /\ LocksMirrorWorkers /\ [Next]_vars => LocksMirrorWorkers'
  <1> SUFFICES ASSUME TypeOK, LocksMirrorWorkers, [Next]_vars PROVE LocksMirrorWorkers'
    OBVIOUS
  <1>1. CASE crash
    BY <1>1 DEF crash, LocksMirrorWorkers, Live
  <1>2. CASE recover_orphaned_jobs
    <2>1. \A j \in Jobs : ~Live(j)'
      BY <1>2 DEF recover_orphaned_jobs, LocksMirrorWorkers, Live, workers
    <2>2. up' /\ \A r \in Resources : lock'[r] = NoJob
      BY <1>2 DEF recover_orphaned_jobs
    <2> QED BY <2>1, <2>2, IdsDiffer DEF LocksMirrorWorkers
  <1> QED BY <1>1, <1>2, LockSteps, LockFrame, OpenLocks, CloseLocks

LEMMA InitLocks == Init => LocksMirrorWorkers
  BY IdsDiffer DEF Init, LocksMirrorWorkers, Live

\* The lock table and the running workers agree in every reachable state: no
\* way out of _run_deployment or _run_proxy_chain_deployment leaks a lock.
THEOREM LocksCorrect == Spec => []LocksMirrorWorkers
  <1>1. Init => TypeOK /\ LocksMirrorWorkers
    BY InitType, InitLocks
  <1>2. (TypeOK /\ LocksMirrorWorkers) /\ [Next]_vars => (TypeOK /\ LocksMirrorWorkers)'
    BY NextType, NextLocks
  <1> QED BY <1>1, <1>2, PTL DEF Spec

LEMMA MirrorExcludes == LocksMirrorWorkers => JobsExclusive
  <1> SUFFICES ASSUME LocksMirrorWorkers, NEW j \in Jobs, NEW k \in Jobs, j # k,
                      Live(j), Live(k),
                      NEW r \in Needs(target[j]) \cap Needs(target[k])
               PROVE  FALSE
    BY DEF JobsExclusive
  <1>1. r \in Resources
    BY NeedsType
  <1> QED BY <1>1 DEF LocksMirrorWorkers

\* No two jobs ever work on the same server or chain.
THEOREM JobsAreExclusive == Spec => []JobsExclusive
  BY LocksCorrect, MirrorExcludes, PTL

-----------------------------------------------------------------------------
(* The locks implement ResourceMutex.                                      *)

LEMMA InitRefines == Init => Mutex!Init
  BY DEF Init, Mutex!Init, Owns, Live

LEMMA StepRefines ==
    ASSUME TypeOK, LocksMirrorWorkers, [Next]_vars
    PROVE  [Mutex!Next]_Owns
  <1>1. CASE Quiet
    BY <1>1 DEF Quiet, Owns, Needs, NodeServers, NodeDeps
  <1>2. ASSUME NEW j \in Jobs, NEW t \in Deps \cup Chains, OpenJob(j, t), up
        PROVE  Mutex!Next
    <2>1. /\ pc' = [pc EXCEPT ![j] = "spawn"] /\ target' = [target EXCEPT ![j] = t]
          /\ pc \in [Jobs -> WorkerPcs] /\ DOMAIN target = Jobs
          /\ ~Live(j) /\ \A r \in Needs(t) : lock[r] = NoJob
      BY <1>2 DEF TypeOK, WorkersTyped, OpenJob, Busy
    <2>2. Needs(t) \subseteq Resources
      BY NeedsType
    <2>3. Owns[j] = {}
      BY <2>1 DEF Owns
    <2>4. Needs(t) \cap Mutex!Owned = {}
      <3>1. ASSUME NEW k \in Jobs, NEW r \in Needs(t), r \in Owns[k] PROVE FALSE
        BY <1>2, <2>1, <2>2, <3>1, IdsDiffer DEF Owns, LocksMirrorWorkers
      <3> QED BY <3>1 DEF Mutex!Owned
    <2>5. Owns' = [Owns EXCEPT ![j] = Needs(t)]
      <3>1. ASSUME NEW k \in Jobs, k # j
            PROVE  (Live(k)' <=> Live(k)) /\ target'[k] = target[k]
        BY <2>1, <3>1 DEF Live
      <3>2. Live(j)' /\ target'[j] = t
        BY <2>1 DEF Live
      <3>3. \A x : Needs(x)' = Needs(x)
        BY DEF Needs, NodeServers, NodeDeps
      <3> QED BY <3>1, <3>2, <3>3 DEF Owns
    <2> QED BY <2>2, <2>3, <2>4, <2>5 DEF Mutex!Next, Mutex!Acquire
  <1>3. ASSUME NEW j \in Jobs, ReleaseLocks(j), CloseWorker(j)
        PROVE  Mutex!Next
    <2>1. /\ pc' = [pc EXCEPT ![j] = "idle"] /\ target' = [target EXCEPT ![j] = NoTarget]
          /\ pc \in [Jobs -> WorkerPcs] /\ DOMAIN target = Jobs
      BY <1>3 DEF TypeOK, WorkersTyped, CloseWorker
    <2>2. Owns' = [Owns EXCEPT ![j] = {}]
      <3>1. ASSUME NEW k \in Jobs, k # j
            PROVE  (Live(k)' <=> Live(k)) /\ target'[k] = target[k]
        BY <2>1, <3>1 DEF Live
      <3>2. ~Live(j)'
        BY <2>1 DEF Live
      <3>3. \A x : Needs(x)' = Needs(x)
        BY DEF Needs, NodeServers, NodeDeps
      <3> QED BY <3>1, <3>2, <3>3 DEF Owns
    <2> QED BY <2>2 DEF Mutex!Next, Mutex!Release
  <1>4. CASE crash
    BY <1>4 DEF crash, Owns, Live, Mutex!Next, Mutex!DropAll
  <1>5. CASE recover_orphaned_jobs
    BY <1>5 DEF recover_orphaned_jobs, workers, Owns, Live, Needs, NodeServers, NodeDeps
  <1> QED BY <1>1, <1>2, <1>3, <1>4, <1>5, LockSteps

\* The jobs, their locks, the crash and the recovery implement ResourceMutex:
\* a job owns its server, or its chain and the chain's servers, in one step,
\* alone, and until it ends or the process dies.
THEOREM MutexImplemented == Spec => ImplementsMutex
  <1>1. Init => TypeOK /\ LocksMirrorWorkers
    BY InitType, InitLocks
  <1>2. (TypeOK /\ LocksMirrorWorkers) /\ [Next]_vars => (TypeOK /\ LocksMirrorWorkers)'
    BY NextType, NextLocks
  <1> QED BY <1>1, <1>2, InitRefines, StepRefines, PTL DEF Spec, ImplementsMutex, Mutex!Spec

-----------------------------------------------------------------------------
(* No status is stuck.                                                     *)

\* What a step of worker j owes: its job is running only while it works, and
\* its target keeps a transient status only while it will change it.
Progress(j) ==
    /\ job'[j] = "running" => job[j] = "running" /\ pc'[j] \notin {"idle", "release"}
    /\ \A d \in Deps : dep'[d] = "provisioning" =>
         /\ dep[d] = "provisioning"
         /\ target[j] = d /\ pc[j] \in DepPcs => target'[j] = d /\ pc'[j] \in DepPcs
    /\ \A c \in Chains : chain'[c] = "deploying" =>
         /\ chain[c] = "deploying"
         /\ target[j] = c /\ pc[j] \in ChainPcs => target'[j] = c /\ pc'[j] \in ChainPcs

LEMMA ProgressKeeps ==
    ASSUME NoStuckStatus, up, NEW j \in Jobs, Progress(j),
           \A k \in Jobs \ {j} : pc'[k] = pc[k] /\ target'[k] = target[k] /\ job'[k] = job[k]
    PROVE  NoStuckStatus'
  <1>1. \A k \in Jobs : job'[k] = "running" => pc'[k] \notin {"idle", "release"}
    BY DEF NoStuckStatus, Progress
  <1>2. ASSUME NEW d \in Deps, dep'[d] = "provisioning"
        PROVE  \E k \in Jobs : target'[k] = d /\ pc'[k] \in DepPcs
    <2>1. PICK k \in Jobs : target[k] = d /\ pc[k] \in DepPcs
      BY <1>2 DEF NoStuckStatus, Progress
    <2> QED BY <1>2, <2>1 DEF Progress
  <1>3. ASSUME NEW c \in Chains, chain'[c] = "deploying"
        PROVE  \E k \in Jobs : target'[k] = c /\ pc'[k] \in ChainPcs
    <2>1. PICK k \in Jobs : target[k] = c /\ pc[k] \in ChainPcs
      BY <1>3 DEF NoStuckStatus, Progress
    <2> QED BY <1>3, <2>1 DEF Progress
  <1> QED BY <1>1, <1>2, <1>3 DEF NoStuckStatus

\* Every step of a worker makes progress in that sense.
LEMMA WorkerProgress ==
    ASSUME TypeOK, NEW j \in Jobs, Worker(j), job[j] = "running" => pc[j] \notin {"idle", "release"}
    PROVE  /\ up /\ up' /\ Progress(j)
           /\ \A k \in Jobs \ {j} : pc'[k] = pc[k] /\ target'[k] = target[k] /\ job'[k] = job[k]
  <1>0. /\ DOMAIN pc = Jobs /\ DOMAIN target = Jobs /\ DOMAIN job = Jobs
        /\ DOMAIN dep = Deps /\ DOMAIN chain = Chains
        /\ pc[j] = "ready" => target[j] \in Deps
        /\ pc[j] \in {"name", "publish"} => target[j] \in Chains
        /\ target[j] \in Deps => target[j] \notin Chains
    BY IdsDiffer DEF TypeOK, DbTyped, WorkersTyped, WorkerShape
  <1>1. CASE spawn_worker(j)
    <2>1. up /\ up' /\ \A k \in Jobs \ {j} : pc'[k] = pc[k] /\ target'[k] = target[k] /\ job'[k] = job[k]
      BY <1>0, <1>1 DEF spawn_worker, Goto, db
    <2>2. job'[j] = "running" => job[j] = "running" /\ pc'[j] \notin {"idle", "release"}
      BY <1>0, <1>1 DEF spawn_worker, Goto, db
    <2>3. ASSUME NEW d \in Deps, dep'[d] = "provisioning"
          PROVE  /\ dep[d] = "provisioning"
                 /\ target[j] = d /\ pc[j] \in DepPcs => target'[j] = d /\ pc'[j] \in DepPcs
      BY <1>0, <1>1, <2>3 DEF spawn_worker, Goto, db, DepPcs, DepRow
    <2>4. ASSUME NEW c \in Chains, chain'[c] = "deploying"
          PROVE  /\ chain[c] = "deploying"
                 /\ target[j] = c /\ pc[j] \in ChainPcs => target'[j] = c /\ pc'[j] \in ChainPcs
      BY <1>0, <1>1, <2>4 DEF spawn_worker, Goto, db, ChainPcs, ChainRow
    <2> QED BY <2>1, <2>2, <2>3, <2>4 DEF Progress
  <1>2. CASE spawn_failed(j)
    <2>1. up /\ up' /\ \A k \in Jobs \ {j} : pc'[k] = pc[k] /\ target'[k] = target[k] /\ job'[k] = job[k]
      BY <1>0, <1>2 DEF spawn_failed, CloseWorker, FinishJob, SetDep, SetChain, db
    <2>2. job'[j] = "running" => job[j] = "running" /\ pc'[j] \notin {"idle", "release"}
      BY <1>0, <1>2 DEF spawn_failed, CloseWorker, FinishJob, SetDep, SetChain, db
    <2>3. ASSUME NEW d \in Deps, dep'[d] = "provisioning"
          PROVE  /\ dep[d] = "provisioning"
                 /\ target[j] = d /\ pc[j] \in DepPcs => target'[j] = d /\ pc'[j] \in DepPcs
      BY <1>0, <1>2, <2>3 DEF spawn_failed, CloseWorker, FinishJob, SetDep, SetChain, db, DepPcs, DepRow
    <2>4. ASSUME NEW c \in Chains, chain'[c] = "deploying"
          PROVE  /\ chain[c] = "deploying"
                 /\ target[j] = c /\ pc[j] \in ChainPcs => target'[j] = c /\ pc'[j] \in ChainPcs
      BY <1>0, <1>2, <2>4 DEF spawn_failed, CloseWorker, FinishJob, SetDep, SetChain, db, ChainPcs, ChainRow
    <2> QED BY <2>1, <2>2, <2>3, <2>4 DEF Progress
  <1>3. CASE prepare_deployment(j)
    <2>1. up /\ up' /\ \A k \in Jobs \ {j} : pc'[k] = pc[k] /\ target'[k] = target[k] /\ job'[k] = job[k]
      BY <1>0, <1>3 DEF prepare_deployment, Goto, db
    <2>2. job'[j] = "running" => job[j] = "running" /\ pc'[j] \notin {"idle", "release"}
      BY <1>0, <1>3 DEF prepare_deployment, Goto, db
    <2>3. ASSUME NEW d \in Deps, dep'[d] = "provisioning"
          PROVE  /\ dep[d] = "provisioning"
                 /\ target[j] = d /\ pc[j] \in DepPcs => target'[j] = d /\ pc'[j] \in DepPcs
      BY <1>0, <1>3, <2>3 DEF prepare_deployment, Goto, db, DepPcs, DepRow
    <2>4. ASSUME NEW c \in Chains, chain'[c] = "deploying"
          PROVE  /\ chain[c] = "deploying"
                 /\ target[j] = c /\ pc[j] \in ChainPcs => target'[j] = c /\ pc'[j] \in ChainPcs
      BY <1>0, <1>3, <2>4 DEF prepare_deployment, Goto, db, ChainPcs, ChainRow
    <2> QED BY <2>1, <2>2, <2>3, <2>4 DEF Progress
  <1>4. CASE install_deployment(j)
    <2>1. up /\ up' /\ \A k \in Jobs \ {j} : pc'[k] = pc[k] /\ target'[k] = target[k] /\ job'[k] = job[k]
      BY <1>0, <1>4 DEF install_deployment, Goto, GotoAt, db
    <2>2. job'[j] = "running" => job[j] = "running" /\ pc'[j] \notin {"idle", "release"}
      BY <1>0, <1>4 DEF install_deployment, Goto, GotoAt, db
    <2>3. ASSUME NEW d \in Deps, dep'[d] = "provisioning"
          PROVE  /\ dep[d] = "provisioning"
                 /\ target[j] = d /\ pc[j] \in DepPcs => target'[j] = d /\ pc'[j] \in DepPcs
      BY <1>0, <1>4, <2>3 DEF install_deployment, Goto, GotoAt, db, DepPcs, DepRow
    <2>4. ASSUME NEW c \in Chains, chain'[c] = "deploying"
          PROVE  /\ chain[c] = "deploying"
                 /\ target[j] = c /\ pc[j] \in ChainPcs => target'[j] = c /\ pc'[j] \in ChainPcs
      BY <1>0, <1>4, <2>4 DEF install_deployment, Goto, GotoAt, db, ChainPcs, ChainRow
    <2> QED BY <2>1, <2>2, <2>3, <2>4 DEF Progress
  <1>5. CASE deployment_ready(j)
    <2>1. up /\ up' /\ \A k \in Jobs \ {j} : pc'[k] = pc[k] /\ target'[k] = target[k] /\ job'[k] = job[k]
      BY <1>0, <1>5 DEF deployment_ready, Goto, SetDep, db
    <2>2. job'[j] = "running" => job[j] = "running" /\ pc'[j] \notin {"idle", "release"}
      BY <1>0, <1>5 DEF deployment_ready, Goto, SetDep, db
    <2>3. ASSUME NEW d \in Deps, dep'[d] = "provisioning"
          PROVE  /\ dep[d] = "provisioning"
                 /\ target[j] = d /\ pc[j] \in DepPcs => target'[j] = d /\ pc'[j] \in DepPcs
      BY <1>0, <1>5, <2>3 DEF deployment_ready, Goto, SetDep, db, DepPcs, DepRow
    <2>4. ASSUME NEW c \in Chains, chain'[c] = "deploying"
          PROVE  /\ chain[c] = "deploying"
                 /\ target[j] = c /\ pc[j] \in ChainPcs => target'[j] = c /\ pc'[j] \in ChainPcs
      BY <1>0, <1>5, <2>4 DEF deployment_ready, Goto, SetDep, db, ChainPcs, ChainRow
    <2> QED BY <2>1, <2>2, <2>3, <2>4 DEF Progress
  <1>6. CASE prepare_chain_nodes(j)
    <2>1. up /\ up' /\ \A k \in Jobs \ {j} : pc'[k] = pc[k] /\ target'[k] = target[k] /\ job'[k] = job[k]
      BY <1>0, <1>6 DEF prepare_chain_nodes, Goto, GotoAt, db
    <2>2. job'[j] = "running" => job[j] = "running" /\ pc'[j] \notin {"idle", "release"}
      BY <1>0, <1>6 DEF prepare_chain_nodes, Goto, GotoAt, db
    <2>3. ASSUME NEW d \in Deps, dep'[d] = "provisioning"
          PROVE  /\ dep[d] = "provisioning"
                 /\ target[j] = d /\ pc[j] \in DepPcs => target'[j] = d /\ pc'[j] \in DepPcs
      BY <1>0, <1>6, <2>3 DEF prepare_chain_nodes, Goto, GotoAt, db, DepPcs, DepRow
    <2>4. ASSUME NEW c \in Chains, chain'[c] = "deploying"
          PROVE  /\ chain[c] = "deploying"
                 /\ target[j] = c /\ pc[j] \in ChainPcs => target'[j] = c /\ pc'[j] \in ChainPcs
      BY <1>0, <1>6, <2>4 DEF prepare_chain_nodes, Goto, GotoAt, db, ChainPcs, ChainRow
    <2> QED BY <2>1, <2>2, <2>3, <2>4 DEF Progress
  <1>15. CASE check_chain(j)
    <2>1. up /\ up' /\ \A k \in Jobs \ {j} : pc'[k] = pc[k] /\ target'[k] = target[k] /\ job'[k] = job[k]
      BY <1>0, <1>15 DEF check_chain, Goto, GotoAt, db
    <2>2. job'[j] = "running" => job[j] = "running" /\ pc'[j] \notin {"idle", "release"}
      BY <1>0, <1>15 DEF check_chain, Goto, GotoAt, db
    <2>3. ASSUME NEW d \in Deps, dep'[d] = "provisioning"
          PROVE  /\ dep[d] = "provisioning"
                 /\ target[j] = d /\ pc[j] \in DepPcs => target'[j] = d /\ pc'[j] \in DepPcs
      BY <1>0, <1>15, <2>3 DEF check_chain, Goto, GotoAt, db, DepPcs, DepRow
    <2>4. ASSUME NEW c \in Chains, chain'[c] = "deploying"
          PROVE  /\ chain[c] = "deploying"
                 /\ target[j] = c /\ pc[j] \in ChainPcs => target'[j] = c /\ pc'[j] \in ChainPcs
      BY <1>0, <1>15, <2>4 DEF check_chain, Goto, GotoAt, db, ChainPcs, ChainRow
    <2> QED BY <2>1, <2>2, <2>3, <2>4 DEF Progress
  <1>7. CASE install_chain_service(j)
    <2>1. up /\ up' /\ \A k \in Jobs \ {j} : pc'[k] = pc[k] /\ target'[k] = target[k] /\ job'[k] = job[k]
      BY <1>0, <1>7 DEF install_chain_service, Goto, GotoAt, db
    <2>2. job'[j] = "running" => job[j] = "running" /\ pc'[j] \notin {"idle", "release"}
      BY <1>0, <1>7 DEF install_chain_service, Goto, GotoAt, db
    <2>3. ASSUME NEW d \in Deps, dep'[d] = "provisioning"
          PROVE  /\ dep[d] = "provisioning"
                 /\ target[j] = d /\ pc[j] \in DepPcs => target'[j] = d /\ pc'[j] \in DepPcs
      BY <1>0, <1>7, <2>3 DEF install_chain_service, Goto, GotoAt, db, DepPcs, DepRow
    <2>4. ASSUME NEW c \in Chains, chain'[c] = "deploying"
          PROVE  /\ chain[c] = "deploying"
                 /\ target[j] = c /\ pc[j] \in ChainPcs => target'[j] = c /\ pc'[j] \in ChainPcs
      BY <1>0, <1>7, <2>4 DEF install_chain_service, Goto, GotoAt, db, ChainPcs, ChainRow
    <2> QED BY <2>1, <2>2, <2>3, <2>4 DEF Progress
  <1>8. CASE publish_chain(j)
    <2>1. up /\ up' /\ \A k \in Jobs \ {j} : pc'[k] = pc[k] /\ target'[k] = target[k] /\ job'[k] = job[k]
      BY <1>0, <1>8 DEF publish_chain, Goto, SetChain, db
    <2>2. job'[j] = "running" => job[j] = "running" /\ pc'[j] \notin {"idle", "release"}
      BY <1>0, <1>8 DEF publish_chain, Goto, SetChain, db
    <2>3. ASSUME NEW d \in Deps, dep'[d] = "provisioning"
          PROVE  /\ dep[d] = "provisioning"
                 /\ target[j] = d /\ pc[j] \in DepPcs => target'[j] = d /\ pc'[j] \in DepPcs
      BY <1>0, <1>8, <2>3 DEF publish_chain, Goto, SetChain, db, DepPcs, DepRow
    <2>4. ASSUME NEW c \in Chains, chain'[c] = "deploying"
          PROVE  /\ chain[c] = "deploying"
                 /\ target[j] = c /\ pc[j] \in ChainPcs => target'[j] = c /\ pc'[j] \in ChainPcs
      BY <1>0, <1>8, <2>4 DEF publish_chain, Goto, SetChain, db, ChainPcs, ChainRow
    <2> QED BY <2>1, <2>2, <2>3, <2>4 DEF Progress
  <1>9. CASE finish_success(j)
    <2>1. up /\ up' /\ \A k \in Jobs \ {j} : pc'[k] = pc[k] /\ target'[k] = target[k] /\ job'[k] = job[k]
      BY <1>0, <1>9 DEF finish_success, Goto, FinishJob, db
    <2>2. job'[j] = "running" => job[j] = "running" /\ pc'[j] \notin {"idle", "release"}
      BY <1>0, <1>9 DEF finish_success, Goto, FinishJob, db
    <2>3. ASSUME NEW d \in Deps, dep'[d] = "provisioning"
          PROVE  /\ dep[d] = "provisioning"
                 /\ target[j] = d /\ pc[j] \in DepPcs => target'[j] = d /\ pc'[j] \in DepPcs
      BY <1>0, <1>9, <2>3 DEF finish_success, Goto, FinishJob, db, DepPcs, DepRow
    <2>4. ASSUME NEW c \in Chains, chain'[c] = "deploying"
          PROVE  /\ chain[c] = "deploying"
                 /\ target[j] = c /\ pc[j] \in ChainPcs => target'[j] = c /\ pc'[j] \in ChainPcs
      BY <1>0, <1>9, <2>4 DEF finish_success, Goto, FinishJob, db, ChainPcs, ChainRow
    <2> QED BY <2>1, <2>2, <2>3, <2>4 DEF Progress
  <1>10. CASE mark_failed(j)
    <2>1. up /\ up' /\ \A k \in Jobs \ {j} : pc'[k] = pc[k] /\ target'[k] = target[k] /\ job'[k] = job[k]
      BY <1>0, <1>10 DEF mark_failed, Goto, GotoAt, SetDep, SetChain, db
    <2>2. job'[j] = "running" => job[j] = "running" /\ pc'[j] \notin {"idle", "release"}
      BY <1>0, <1>10 DEF mark_failed, Goto, GotoAt, SetDep, SetChain, db
    <2>3. ASSUME NEW d \in Deps, dep'[d] = "provisioning"
          PROVE  /\ dep[d] = "provisioning"
                 /\ target[j] = d /\ pc[j] \in DepPcs => target'[j] = d /\ pc'[j] \in DepPcs
      BY <1>0, <1>10, <2>3 DEF mark_failed, Goto, GotoAt, SetDep, SetChain, db, DepPcs, DepRow
    <2>4. ASSUME NEW c \in Chains, chain'[c] = "deploying"
          PROVE  /\ chain[c] = "deploying"
                 /\ target[j] = c /\ pc[j] \in ChainPcs => target'[j] = c /\ pc'[j] \in ChainPcs
      BY <1>0, <1>10, <2>4 DEF mark_failed, Goto, GotoAt, SetDep, SetChain, db, ChainPcs, ChainRow
    <2> QED BY <2>1, <2>2, <2>3, <2>4 DEF Progress
  <1>11. CASE rollback_deployment(j)
    <2>1. up /\ up' /\ \A k \in Jobs \ {j} : pc'[k] = pc[k] /\ target'[k] = target[k] /\ job'[k] = job[k]
      BY <1>0, <1>11 DEF rollback_deployment, Goto, db
    <2>2. job'[j] = "running" => job[j] = "running" /\ pc'[j] \notin {"idle", "release"}
      BY <1>0, <1>11 DEF rollback_deployment, Goto, db
    <2>3. ASSUME NEW d \in Deps, dep'[d] = "provisioning"
          PROVE  /\ dep[d] = "provisioning"
                 /\ target[j] = d /\ pc[j] \in DepPcs => target'[j] = d /\ pc'[j] \in DepPcs
      BY <1>0, <1>11, <2>3 DEF rollback_deployment, Goto, db, DepPcs, DepRow
    <2>4. ASSUME NEW c \in Chains, chain'[c] = "deploying"
          PROVE  /\ chain[c] = "deploying"
                 /\ target[j] = c /\ pc[j] \in ChainPcs => target'[j] = c /\ pc'[j] \in ChainPcs
      BY <1>0, <1>11, <2>4 DEF rollback_deployment, Goto, db, ChainPcs, ChainRow
    <2> QED BY <2>1, <2>2, <2>3, <2>4 DEF Progress
  <1>12. CASE rollback_chain_service(j)
    <2>1. up /\ up' /\ \A k \in Jobs \ {j} : pc'[k] = pc[k] /\ target'[k] = target[k] /\ job'[k] = job[k]
      BY <1>0, <1>12 DEF rollback_chain_service, Goto, GotoAt, db
    <2>2. job'[j] = "running" => job[j] = "running" /\ pc'[j] \notin {"idle", "release"}
      BY <1>0, <1>12 DEF rollback_chain_service, Goto, GotoAt, db
    <2>3. ASSUME NEW d \in Deps, dep'[d] = "provisioning"
          PROVE  /\ dep[d] = "provisioning"
                 /\ target[j] = d /\ pc[j] \in DepPcs => target'[j] = d /\ pc'[j] \in DepPcs
      BY <1>0, <1>12, <2>3 DEF rollback_chain_service, Goto, GotoAt, db, DepPcs, DepRow
    <2>4. ASSUME NEW c \in Chains, chain'[c] = "deploying"
          PROVE  /\ chain[c] = "deploying"
                 /\ target[j] = c /\ pc[j] \in ChainPcs => target'[j] = c /\ pc'[j] \in ChainPcs
      BY <1>0, <1>12, <2>4 DEF rollback_chain_service, Goto, GotoAt, db, ChainPcs, ChainRow
    <2> QED BY <2>1, <2>2, <2>3, <2>4 DEF Progress
  <1>13. CASE finish_failed(j)
    <2>1. up /\ up' /\ \A k \in Jobs \ {j} : pc'[k] = pc[k] /\ target'[k] = target[k] /\ job'[k] = job[k]
      BY <1>0, <1>13 DEF finish_failed, Goto, FinishJob, db
    <2>2. job'[j] = "running" => job[j] = "running" /\ pc'[j] \notin {"idle", "release"}
      BY <1>0, <1>13 DEF finish_failed, Goto, FinishJob, db
    <2>3. ASSUME NEW d \in Deps, dep'[d] = "provisioning"
          PROVE  /\ dep[d] = "provisioning"
                 /\ target[j] = d /\ pc[j] \in DepPcs => target'[j] = d /\ pc'[j] \in DepPcs
      BY <1>0, <1>13, <2>3 DEF finish_failed, Goto, FinishJob, db, DepPcs, DepRow
    <2>4. ASSUME NEW c \in Chains, chain'[c] = "deploying"
          PROVE  /\ chain[c] = "deploying"
                 /\ target[j] = c /\ pc[j] \in ChainPcs => target'[j] = c /\ pc'[j] \in ChainPcs
      BY <1>0, <1>13, <2>4 DEF finish_failed, Goto, FinishJob, db, ChainPcs, ChainRow
    <2> QED BY <2>1, <2>2, <2>3, <2>4 DEF Progress
  <1>14. CASE release_worker(j)
    <2>1. up /\ up' /\ \A k \in Jobs \ {j} : pc'[k] = pc[k] /\ target'[k] = target[k] /\ job'[k] = job[k]
      BY <1>0, <1>14 DEF release_worker, CloseWorker, db
    <2>2. job'[j] = "running" => job[j] = "running" /\ pc'[j] \notin {"idle", "release"}
      BY <1>0, <1>14 DEF release_worker, CloseWorker, db
    <2>3. ASSUME NEW d \in Deps, dep'[d] = "provisioning"
          PROVE  /\ dep[d] = "provisioning"
                 /\ target[j] = d /\ pc[j] \in DepPcs => target'[j] = d /\ pc'[j] \in DepPcs
      BY <1>0, <1>14, <2>3 DEF release_worker, CloseWorker, db, DepPcs, DepRow
    <2>4. ASSUME NEW c \in Chains, chain'[c] = "deploying"
          PROVE  /\ chain[c] = "deploying"
                 /\ target[j] = c /\ pc[j] \in ChainPcs => target'[j] = c /\ pc'[j] \in ChainPcs
      BY <1>0, <1>14, <2>4 DEF release_worker, CloseWorker, db, ChainPcs, ChainRow
    <2> QED BY <2>1, <2>2, <2>3, <2>4 DEF Progress
  <1> QED BY <1>1, <1>2, <1>3, <1>4, <1>5, <1>6, <1>7, <1>8, <1>9, <1>10, <1>11, <1>12, <1>13, <1>14, <1>15 DEF Worker

\* A step in which no worker moves and no status becomes transient.
LEMMA StatusFrame ==
    ASSUME NoStuckStatus, UNCHANGED <<workers, job, up>>,
           \A d \in Deps : dep'[d] = "provisioning" => dep[d] = "provisioning",
           \A c \in Chains : chain'[c] = "deploying" => chain[c] = "deploying"
    PROVE  NoStuckStatus'
  BY DEF NoStuckStatus, workers

\* A job that opens is the one that its target's new status waits for.
LEMMA OpenStatus ==
    ASSUME TypeOK, NoStuckStatus, up, NEW j \in Jobs, NEW t \in Deps \cup Chains, OpenJob(j, t),
           \A d \in Deps : dep'[d] = "provisioning" => dep[d] = "provisioning" \/ d = t,
           \A c \in Chains : chain'[c] = "deploying" => chain[c] = "deploying" \/ c = t
    PROVE  NoStuckStatus'
  <1>1. /\ pc'[j] = "spawn" /\ target'[j] = t /\ pc[j] = "idle"
        /\ \A k \in Jobs \ {j} : pc'[k] = pc[k] /\ target'[k] = target[k] /\ job'[k] = job[k]
    BY DEF TypeOK, DbTyped, WorkersTyped, OpenJob, Live
  <1>2. \A k \in Jobs : job'[k] = "running" => pc'[k] \notin {"idle", "release"}
    BY <1>1 DEF NoStuckStatus
  <1>3. ASSUME NEW d \in Deps, dep'[d] = "provisioning"
        PROVE  \E k \in Jobs : target'[k] = d /\ pc'[k] \in DepPcs
    <2>1. CASE d = t
      BY <1>1, <2>1 DEF DepPcs
    <2>2. CASE d # t
      <3>1. PICK k \in Jobs : target[k] = d /\ pc[k] \in DepPcs
        BY <1>3, <2>2 DEF NoStuckStatus
      <3>2. k # j
        BY <1>1, <3>1 DEF DepPcs
      <3> QED BY <1>1, <3>1, <3>2
    <2> QED BY <2>1, <2>2
  <1>4. ASSUME NEW c \in Chains, chain'[c] = "deploying"
        PROVE  \E k \in Jobs : target'[k] = c /\ pc'[k] \in ChainPcs
    <2>1. CASE c = t
      BY <1>1, <2>1 DEF ChainPcs
    <2>2. CASE c # t
      <3>1. PICK k \in Jobs : target[k] = c /\ pc[k] \in ChainPcs
        BY <1>4, <2>2 DEF NoStuckStatus
      <3>2. k # j
        BY <1>1, <3>1 DEF ChainPcs
      <3> QED BY <1>1, <3>1, <3>2
    <2> QED BY <2>1, <2>2
  <1> QED BY <1>2, <1>3, <1>4 DEF NoStuckStatus

LEMMA NextStatus == TypeOK /\ NoStuckStatus /\ [Next]_vars => NoStuckStatus'
  <1> SUFFICES ASSUME TypeOK, NoStuckStatus, [Next]_vars PROVE NoStuckStatus'
    OBVIOUS
  <1>0. DOMAIN dep = Deps /\ DOMAIN chain = Chains
    BY DEF TypeOK, DbTyped
  <1>1. ASSUME NEW j \in Jobs, Worker(j) PROVE NoStuckStatus'
    <2>1. up
      BY <1>1 DEF Worker, spawn_worker, spawn_failed, prepare_deployment, install_deployment,
           deployment_ready, check_chain, prepare_chain_nodes, install_chain_service, publish_chain, finish_success,
           mark_failed, rollback_deployment, rollback_chain_service, finish_failed, release_worker
    <2>2. job[j] = "running" => pc[j] \notin {"idle", "release"}
      BY <2>1 DEF NoStuckStatus
    <2> QED BY <1>1, <2>2, WorkerProgress, ProgressKeeps
  <1>2. ASSUME NEW r \in Requests, StartTx(r) PROVE NoStuckStatus'
    <2>1. CASE start_rejected(r)
      BY <2>1, StatusFrame DEF start_rejected, db
    <2>2. ASSUME NEW j \in Jobs, start_deployment_tx(r, j) PROVE NoStuckStatus'
      <3>1. /\ up /\ rq[r].target \in Deps /\ OpenJob(j, rq[r].target) /\ UNCHANGED chain
            /\ dep' = [dep EXCEPT ![rq[r].target] = "provisioning"]
        BY <2>2 DEF start_deployment_tx
      <3>2. \A d \in Deps : dep'[d] = "provisioning" => dep[d] = "provisioning" \/ d = rq[r].target
        BY <1>0, <3>1
      <3> QED BY <3>1, <3>2, OpenStatus
    <2>3. ASSUME NEW j \in Jobs, start_proxy_chain_deployment_tx(r, j) PROVE NoStuckStatus'
      <3>1. /\ up /\ rq[r].target \in Chains /\ OpenJob(j, rq[r].target) /\ UNCHANGED dep
            /\ SetChain(rq[r].target, "deploying")
        BY <2>3 DEF start_proxy_chain_deployment_tx
      <3>2. \A c \in Chains : chain'[c] = "deploying" => chain[c] = "deploying" \/ c = rq[r].target
        BY <1>0, <3>1 DEF SetChain
      <3> QED BY <3>1, <3>2, OpenStatus
    <2> QED BY <1>2, <2>1, <2>2, <2>3 DEF StartTx
  <1>3. ASSUME NEW r \in Requests,
               \/ \E d \in Deps : start_deployment(r, d) \/ delete_deployment(r, d)
               \/ \E c \in Chains : start_proxy_chain_deployment(r, c) \/ delete_proxy_chain(r, c)
               \/ \E s \in Servers : delete_server(r, s)
        PROVE  NoStuckStatus'
    BY <1>3, StatusFrame DEF start_deployment, delete_deployment, delete_server,
         start_proxy_chain_deployment, delete_proxy_chain, BeginDelete, db
  <1>4. ASSUME NEW r \in Requests, DeleteStep(r) PROVE NoStuckStatus'
    <2>1. CASE purge_rows(r)
      <3>1. \A d \in Deps : dep'[d] = "provisioning" => dep[d] = "provisioning"
        BY <2>1 DEF purge_rows, PurgeDeps
      <3>2. \A c \in Chains : chain'[c] = "deploying" => chain[c] = "deploying"
        <4>1. PICK C : PurgeChains(C)
          BY <2>1 DEF purge_rows
        <4> QED BY <4>1 DEF PurgeChains
      <3> QED BY <2>1, <3>1, <3>2, StatusFrame DEF purge_rows
    <2>2. CASE ~purge_rows(r)
      BY <1>4, <2>2, StatusFrame DEF DeleteStep, cleanup_next_chain, cleanup_chain_service,
           uninstall_node, db
    <2> QED BY <2>1, <2>2
  <1>5. ASSUME NEW s \in Servers, create_server(s) PROVE NoStuckStatus'
    BY <1>5, StatusFrame DEF create_server
  <1>6. ASSUME NEW c \in Chains, create_proxy_chain(c) PROVE NoStuckStatus'
    BY <1>0, <1>6, StatusFrame DEF create_proxy_chain
  <1>7. CASE crash
    BY <1>7 DEF crash, NoStuckStatus
  <1>8. CASE recover_orphaned_jobs
    BY <1>8 DEF recover_orphaned_jobs, NoStuckStatus
  <1>9. CASE UNCHANGED vars
    BY <1>9, StatusFrame DEF vars, workers
  <1> QED BY <1>1, <1>2, <1>3, <1>4, <1>5, <1>6, <1>7, <1>8, <1>9 DEF Next

LEMMA InitStatus == Init => NoStuckStatus
  BY DEF Init, NoStuckStatus

\* No failure, delete or restart leaves a job running, a deployment
\* provisioning or a chain deploying without a worker that will change it.
THEOREM StatusNeverStuck == Spec => []NoStuckStatus
  <1>1. Init => TypeOK /\ NoStuckStatus
    BY InitType, InitStatus
  <1>2. (TypeOK /\ NoStuckStatus) /\ [Next]_vars => (TypeOK /\ NoStuckStatus)'
    BY NextType, NextStatus
  <1> QED BY <1>1, <1>2, PTL DEF Spec
=============================================================================
