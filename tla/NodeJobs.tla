------------------------------ MODULE NodeJobs ------------------------------
(***************************************************************************)
(* The background jobs of the control plane: node deployments              *)
(* (services/teardown.py), proxy-chain deployments (services/chains.py),   *)
(* the operation locks that keep them apart, the job table and its         *)
(* recovery at start-up (services/base.py), and the delete requests that   *)
(* run beside them.                                                        *)
(*                                                                         *)
(* One action is one database transaction, or one remote script together   *)
(* with the local code up to the next database access; the process may     *)
(* die between any two of them.                                            *)
(***************************************************************************)
EXTENDS Naturals, Sequences, FiniteSets

CONSTANTS
    Servers,      \* ids of server rows
    Deps,         \* ids of deployment rows
    Chains,       \* ids of proxy-chain rows
    Jobs,         \* slots of the jobs table; a finished job's slot is used again
    Requests,     \* request threads of the web server's thread pool
    Home,         \* the server each deployment id is created on
    Path,         \* the nodes of each chain id, entry first
    Installed,    \* deployments that are ready when the process first starts
    SshFails,     \* whether a remote script may fail
    MaxCrashes,   \* how often the process may die
    NoJob, NoTarget

Resources == Servers \cup Chains
Targets == Servers \cup Deps \cup Chains
Size(c) == Len(Path[c])
Hops == {h \in Chains \X Nat : h[2] \in 1..Size(h[1])}

ASSUME HomeAssumption == Home \in [Deps -> Servers]
ASSUME PathAssumption ==
    /\ Path \in [Chains -> Seq(Deps)]
    /\ \A c \in Chains :
         /\ Len(Path[c]) \in 2..6
         /\ \A i, k \in 1..Len(Path[c]) : Path[c][i] = Path[c][k] => i = k
ASSUME InstalledAssumption ==
    /\ Installed \subseteq Deps
    /\ \A d, e \in Installed : Home[d] = Home[e] => d = e
ASSUME BoundAssumption == SshFails \in BOOLEAN /\ MaxCrashes \in Nat
ASSUME IdsDiffer ==
    /\ NoJob \notin Jobs /\ NoTarget \notin Targets
    /\ Servers \cap Deps = {} /\ Servers \cap Chains = {} /\ Deps \cap Chains = {}

VARIABLES
    (* the database *)
    server,       \* servers: is there a row, and was there one before
    dep,          \* deployments.status, or no row
    chain,        \* proxy_chains.status, or no row
    shareLink,    \* chains whose share_link is not empty
    named,        \* chains whose nodes have a remote_service_name
    job,          \* jobs.status
    lock,         \* operation_locks: the job that holds a resource
    (* the remote hosts *)
    nodeUp,       \* deployments whose sing-box service is installed
    chainUp,      \* chain hops whose service is installed
    (* the process; lost when it dies *)
    pc,           \* where each job's worker thread is
    target,       \* the deployment or chain it works on
    hop,          \* the chain node it has reached
    rq,           \* the request threads
    up,           \* whether the process runs
    crashes

db == <<server, dep, chain, shareLink, named, job, lock>>
remote == <<nodeUp, chainUp>>
workers == <<pc, target, hop>>
vars == <<server, dep, chain, shareLink, named, job, lock, nodeUp, chainUp,
          pc, target, hop, rq, up, crashes>>

-----------------------------------------------------------------------------
(* State of the rows, and what a job locks.                                *)

ServerRow(s) == server[s] = "present"
DepRow(d) == dep[d] \in {"provisioning", "ready", "failed"}
ChainRow(c) == chain[c] \in {"planned", "deploying", "ready", "failed"}

NodeDeps(c) == {Path[c][i] : i \in 1..Size(c)}
NodeServers(c) == {Home[d] : d \in NodeDeps(c)}
ChainsOf(D) == {c \in Chains : ChainRow(c) /\ NodeDeps(c) \cap D # {}}

\* The resources a job takes for its target: the server of a deployment; a
\* chain and every server one of its nodes runs on.
Needs(t) == IF t \in Chains THEN {t} \cup NodeServers(t)
            ELSE IF t \in Deps THEN {Home[t]} ELSE {}

Live(j) == pc[j] # "idle"

\* A request thread: what it was asked for, the chains it still has to clean
\* up, the chain node it is at, and the deployments it still has to uninstall.
Request(w, t, C, c, i, D) ==
    [pc |-> w, target |-> t, chains |-> C, cur |-> c, at |-> i, deps |-> D]
IdleRequest == Request("idle", NoTarget, {}, NoTarget, 0, {})

\* The outcomes of a remote script on a server: it works, or it fails before
\* or after it took effect.  Without the server's row there is no trusted host
\* key, and the connection is refused before the script runs.
SshOk(s) == ServerRow(s)
SshFailsClean(s) == SshFails \/ ~ServerRow(s)
SshFailsApplied(s) == SshFails /\ ServerRow(s)

-----------------------------------------------------------------------------
Init ==
    /\ server = [s \in Servers |->
                   IF \E d \in Installed : Home[d] = s THEN "present" ELSE "none"]
    /\ dep = [d \in Deps |-> IF d \in Installed THEN "ready" ELSE "none"]
    /\ chain = [c \in Chains |-> "none"]
    /\ shareLink = {} /\ named = {}
    /\ job = [j \in Jobs |-> "none"]
    /\ lock = [r \in Resources |-> NoJob]
    /\ nodeUp = Installed /\ chainUp = {}
    /\ pc = [j \in Jobs |-> "idle"]
    /\ target = [j \in Jobs |-> NoTarget]
    /\ hop = [j \in Jobs |-> 0]
    /\ rq = [r \in Requests |-> IdleRequest]
    /\ up = TRUE /\ crashes = 0

-----------------------------------------------------------------------------
(* Locks and jobs.                                                         *)

AcquireLocks(j, R) == lock' = [r \in Resources |-> IF r \in R THEN j ELSE lock[r]]
ReleaseLocks(j) == lock' = [r \in Resources |-> IF lock[r] = j THEN NoJob ELSE lock[r]]
Busy(r) == lock[r] # NoJob

FinishJob(j, status) == job' = [job EXCEPT ![j] = status]

\* UPDATE ... SET status WHERE id = ?: nothing happens when the row is gone.
SetDep(d, status) == dep' = [dep EXCEPT ![d] = IF DepRow(d) THEN status ELSE @]
SetChain(c, status) == chain' = [chain EXCEPT ![c] = IF ChainRow(c) THEN status ELSE @]

\* Mutants of OpenJob: the lock table is not looked at; only the chain's own
\* lock is.
OpenJob_unchecked(j, t) ==
    /\ ~Live(j)
    /\ AcquireLocks(j, Needs(t))
    /\ job' = [job EXCEPT ![j] = "running"]
    /\ pc' = [pc EXCEPT ![j] = "spawn"]
    /\ target' = [target EXCEPT ![j] = t]
    /\ hop' = [hop EXCEPT ![j] = 0]
OpenJob_chain_only(j, t) ==
    /\ \A r \in Needs(t) \cap Chains : ~Busy(r)
    /\ OpenJob_unchecked(j, t)

\* The transaction that ends every start request: take the locks, insert the
\* job, and hand it to a new thread.
OpenJob(j, t) ==
    /\ ~Live(j)
    /\ \A r \in Needs(t) : ~Busy(r)
    /\ AcquireLocks(j, Needs(t))
    /\ job' = [job EXCEPT ![j] = "running"]
    /\ pc' = [pc EXCEPT ![j] = "spawn"]
    /\ target' = [target EXCEPT ![j] = t]
    /\ hop' = [hop EXCEPT ![j] = 0]

Goto(j, next) == pc' = [pc EXCEPT ![j] = next] /\ UNCHANGED <<target, hop>>
GotoAt(j, next, i) == /\ pc' = [pc EXCEPT ![j] = next]
                      /\ hop' = [hop EXCEPT ![j] = i]
                      /\ UNCHANGED target
CloseWorker(j) == /\ pc' = [pc EXCEPT ![j] = "idle"]
                  /\ target' = [target EXCEPT ![j] = NoTarget]
                  /\ hop' = [hop EXCEPT ![j] = 0]

-----------------------------------------------------------------------------
(* Request threads: create a server or a chain, start a job.               *)

create_server(s) ==
    /\ up /\ server[s] = "none"
    /\ server' = [server EXCEPT ![s] = "present"]
    /\ UNCHANGED <<dep, chain, shareLink, named, job, lock, remote, workers, rq,
                   up, crashes>>

\* start_deployment up to its transaction: the server exists and has no native
\* deployment.  A fresh id is in no row and in no other request.
start_deployment(r, d) ==
    /\ up /\ rq[r].pc = "idle"
    /\ dep[d] = "none" /\ \A q \in Requests : rq[q].target # d
    /\ ServerRow(Home[d])
    /\ \A e \in Deps : Home[e] = Home[d] => ~DepRow(e)
    /\ rq' = [rq EXCEPT ![r] = Request("start", d, {}, NoTarget, 0, {})]
    /\ UNCHANGED <<db, remote, workers, up, crashes>>

\* Its transaction: the foreign key needs the server's row.
start_deployment_tx(r, j) ==
    /\ up /\ rq[r].pc = "start" /\ rq[r].target \in Deps
    /\ ServerRow(Home[rq[r].target])
    /\ OpenJob(j, rq[r].target)
    /\ dep' = [dep EXCEPT ![rq[r].target] = "provisioning"]
    /\ rq' = [rq EXCEPT ![r] = IdleRequest]
    /\ UNCHANGED <<server, chain, shareLink, named, remote, up, crashes>>

\* create_proxy_chain: every node ready; ports are the concern of another module.
create_proxy_chain(c) ==
    /\ up /\ chain[c] = "none"
    /\ \A d \in NodeDeps(c) : dep[d] = "ready"
    /\ chain' = [chain EXCEPT ![c] = "planned"]
    /\ UNCHANGED <<server, dep, shareLink, named, job, lock, remote, workers, rq,
                   up, crashes>>

start_proxy_chain_deployment(r, c) ==
    /\ up /\ rq[r].pc = "idle"
    /\ ChainRow(c)
    /\ rq' = [rq EXCEPT ![r] = Request("start", c, {}, NoTarget, 0, {})]
    /\ UNCHANGED <<db, remote, workers, up, crashes>>

start_proxy_chain_deployment_tx(r, j) ==
    /\ up /\ rq[r].pc = "start" /\ rq[r].target \in Chains
    /\ OpenJob(j, rq[r].target)
    /\ SetChain(rq[r].target, "deploying")
    /\ rq' = [rq EXCEPT ![r] = IdleRequest]
    /\ UNCHANGED <<server, dep, shareLink, named, remote, up, crashes>>

\* Either transaction rolls back: a resource is busy, or the server is gone.
start_rejected(r) ==
    /\ up /\ rq[r].pc = "start"
    /\ \/ \E x \in Needs(rq[r].target) : Busy(x)
       \/ rq[r].target \in Deps /\ ~ServerRow(Home[rq[r].target])
    /\ rq' = [rq EXCEPT ![r] = IdleRequest]
    /\ UNCHANGED <<db, remote, workers, up, crashes>>

-----------------------------------------------------------------------------
(* The worker threads.                                                     *)

\* thread.start() works.
spawn_worker(j) ==
    /\ up /\ pc[j] = "spawn"
    /\ Goto(j, "prepare")
    /\ UNCHANGED <<db, remote, rq, up, crashes>>

\* Mutant: the locks stay.
spawn_failed_leaks(j) ==
    /\ up /\ pc[j] = "spawn"
    /\ FinishJob(j, "failed") /\ UNCHANGED lock
    /\ IF target[j] \in Deps
         THEN SetDep(target[j], "failed") /\ UNCHANGED chain
         ELSE SetChain(target[j], "failed") /\ UNCHANGED dep
    /\ CloseWorker(j)
    /\ UNCHANGED <<server, shareLink, named, remote, rq, up, crashes>>

\* thread.start() raises: one transaction takes everything back.
spawn_failed(j) ==
    /\ up /\ pc[j] = "spawn"
    /\ ReleaseLocks(j) /\ FinishJob(j, "failed")
    /\ IF target[j] \in Deps
         THEN SetDep(target[j], "failed") /\ UNCHANGED chain
         ELSE SetChain(target[j], "failed") /\ UNCHANGED dep
    /\ CloseWorker(j)
    /\ UNCHANGED <<server, shareLink, named, remote, rq, up, crashes>>

\* _run_deployment: the row, the REALITY probe and the rendered config; an
\* exception here has nothing to roll back.
prepare_deployment(j) ==
    /\ up /\ pc[j] = "prepare" /\ target[j] \in Deps
    /\ \/ DepRow(target[j]) /\ Goto(j, "install")
       \/ (SshFails \/ ~DepRow(target[j])) /\ Goto(j, "fail")
    /\ UNCHANGED <<db, remote, rq, up, crashes>>

\* Mutant: the installer's exit status is not looked at.
install_deployment_unchecked(j) ==
    /\ up /\ pc[j] = "install" /\ target[j] \in Deps
    /\ \/ SshOk(Home[target[j]]) /\ nodeUp' = nodeUp \cup {target[j]}
       \/ SshFailsClean(Home[target[j]]) /\ UNCHANGED nodeUp
    /\ Goto(j, "ready")
    /\ UNCHANGED <<db, chainUp, rq, up, crashes>>

\* The installer.  hop = 1 on the failure path says that it was started.
install_deployment(j) ==
    /\ up /\ pc[j] = "install" /\ target[j] \in Deps
    /\ LET d == target[j] IN
         \/ SshOk(Home[d]) /\ nodeUp' = nodeUp \cup {d} /\ Goto(j, "ready")
         \/ SshFailsClean(Home[d]) /\ UNCHANGED nodeUp /\ GotoAt(j, "fail", 1)
         \/ SshFailsApplied(Home[d]) /\ nodeUp' = nodeUp \cup {d} /\ GotoAt(j, "fail", 1)
    /\ UNCHANGED <<db, chainUp, rq, up, crashes>>

deployment_ready(j) ==
    /\ up /\ pc[j] = "ready"
    /\ SetDep(target[j], "ready")
    /\ Goto(j, "finish")
    /\ UNCHANGED <<server, chain, shareLink, named, job, lock, remote, rq, up, crashes>>

\* _run_proxy_chain_deployment_locked: the chain, and its nodes all ready.
check_chain(j) ==
    /\ up /\ pc[j] = "prepare" /\ target[j] \in Chains
    /\ LET c == target[j] IN
         Goto(j, IF ChainRow(c) /\ \A d \in NodeDeps(c) : dep[d] = "ready" THEN "name" ELSE "fail")
    /\ UNCHANGED <<db, remote, rq, up, crashes>>

\* Mutant: the installation starts at the entry.
prepare_chain_nodes_from_entry(j) ==
    /\ up /\ pc[j] = "name"
    /\ IF ChainRow(target[j])
         THEN named' = named \cup {target[j]} /\ GotoAt(j, "install", 1)
         ELSE UNCHANGED named /\ Goto(j, "fail")
    /\ UNCHANGED <<server, dep, chain, shareLink, job, lock, remote, rq, up, crashes>>

\* Secrets and service names for the nodes, which are read again: the index
\* fails when they are gone.  Then the installation starts at the exit.
prepare_chain_nodes(j) ==
    /\ up /\ pc[j] = "name"
    /\ IF ChainRow(target[j])
         THEN named' = named \cup {target[j]} /\ GotoAt(j, "install", Size(target[j]))
         ELSE UNCHANGED named /\ Goto(j, "fail")
    /\ UNCHANGED <<server, dep, chain, shareLink, job, lock, remote, rq, up, crashes>>

\* One service, from the exit (the last node) to the entry (the first).
install_chain_service(j) ==
    /\ up /\ pc[j] = "install" /\ target[j] \in Chains
    /\ LET h == <<target[j], hop[j]>>
           s == Home[Path[target[j]][hop[j]]]
       IN \/ /\ SshOk(s) /\ chainUp' = chainUp \cup {h}
             /\ IF hop[j] > 1 THEN GotoAt(j, "install", hop[j] - 1) ELSE Goto(j, "publish")
          \/ SshFailsClean(s) /\ UNCHANGED chainUp /\ Goto(j, "fail")
          \/ SshFailsApplied(s) /\ chainUp' = chainUp \cup {h} /\ Goto(j, "fail")
    /\ UNCHANGED <<db, nodeUp, rq, up, crashes>>

\* _finish_proxy_chain_deployment: the nodes are read again, the chain is
\* ready and gets its share link.
publish_chain(j) ==
    /\ up /\ pc[j] = "publish"
    /\ IF ChainRow(target[j])
         THEN /\ SetChain(target[j], "ready")
              /\ shareLink' = shareLink \cup {target[j]}
              /\ Goto(j, "finish")
         ELSE UNCHANGED <<chain, shareLink>> /\ Goto(j, "fail")
    /\ UNCHANGED <<server, dep, named, job, lock, remote, rq, up, crashes>>

\* The success is logged and recorded.  A chain's log line reads its row once
\* more, and fails when it is gone.
finish_success(j) ==
    /\ up /\ pc[j] = "finish"
    /\ IF target[j] \in Chains /\ ~ChainRow(target[j])
         THEN UNCHANGED job /\ Goto(j, "fail")
         ELSE FinishJob(j, "success") /\ Goto(j, "release")
    /\ UNCHANGED <<server, dep, chain, shareLink, named, lock, remote, rq, up, crashes>>

\* Mutant: the chain's row is not marked.
mark_failed_unmarked(j) ==
    /\ up /\ pc[j] = "fail"
    /\ IF target[j] \in Deps
         THEN /\ SetDep(target[j], "failed")
              /\ Goto(j, IF hop[j] = 1 THEN "rollback" ELSE "fail_job")
         ELSE /\ UNCHANGED dep
              /\ IF ChainRow(target[j]) /\ target[j] \in named
                   THEN GotoAt(j, "rollback", 1) ELSE Goto(j, "fail_job")
    /\ UNCHANGED <<server, chain, shareLink, named, job, lock, remote, rq, up, crashes>>

\* The except branch: the row is marked, then what may have been installed is
\* removed.  A chain's cleanup reads its nodes again.
mark_failed(j) ==
    /\ up /\ pc[j] = "fail"
    /\ IF target[j] \in Deps
         THEN /\ SetDep(target[j], "failed") /\ UNCHANGED chain
              /\ Goto(j, IF hop[j] = 1 THEN "rollback" ELSE "fail_job")
         ELSE /\ SetChain(target[j], "failed") /\ UNCHANGED dep
              /\ IF ChainRow(target[j]) /\ target[j] \in named
                   THEN GotoAt(j, "rollback", 1) ELSE Goto(j, "fail_job")
    /\ UNCHANGED <<server, shareLink, named, job, lock, remote, rq, up, crashes>>

\* Best effort: a failing uninstall is logged and the next one is tried.
rollback_deployment(j) ==
    /\ up /\ pc[j] = "rollback" /\ target[j] \in Deps
    /\ LET d == target[j] IN
         \/ SshOk(Home[d]) /\ nodeUp' = nodeUp \ {d}
         \/ SshFailsClean(Home[d]) /\ UNCHANGED nodeUp
    /\ Goto(j, "fail_job")
    /\ UNCHANGED <<db, chainUp, rq, up, crashes>>

\* Mutants: one node too many; every chain service of the host is removed.
rollback_chain_service_past_end(j) ==
    /\ up /\ pc[j] = "rollback" /\ target[j] \in Chains
    /\ chainUp' = chainUp \ {<<target[j], hop[j]>>}
    /\ IF hop[j] <= Size(target[j]) THEN GotoAt(j, "rollback", hop[j] + 1)
                                    ELSE Goto(j, "fail_job")
    /\ UNCHANGED <<db, nodeUp, rq, up, crashes>>
rollback_chain_service_by_host(j) ==
    /\ up /\ pc[j] = "rollback" /\ target[j] \in Chains
    /\ LET c == target[j]
           s == Home[Path[c][hop[j]]]
       IN /\ chainUp' = {h \in chainUp : Home[Path[h[1]][h[2]]] # s}
          /\ IF hop[j] < Size(c) THEN GotoAt(j, "rollback", hop[j] + 1)
                                 ELSE Goto(j, "fail_job")
    /\ UNCHANGED <<db, nodeUp, rq, up, crashes>>

rollback_chain_service(j) ==
    /\ up /\ pc[j] = "rollback" /\ target[j] \in Chains
    /\ LET c == target[j]
           s == Home[Path[c][hop[j]]]
       IN /\ \/ SshOk(s) /\ chainUp' = chainUp \ {<<c, hop[j]>>}
             \/ SshFailsClean(s) /\ UNCHANGED chainUp
          /\ IF hop[j] < Size(c) THEN GotoAt(j, "rollback", hop[j] + 1)
                                      ELSE Goto(j, "fail_job")
    /\ UNCHANGED <<db, nodeUp, rq, up, crashes>>

\* Mutant: the failure of the job is not recorded.
finish_failed_unrecorded(j) ==
    /\ up /\ pc[j] = "fail_job"
    /\ Goto(j, "release")
    /\ UNCHANGED <<db, remote, rq, up, crashes>>

finish_failed(j) ==
    /\ up /\ pc[j] = "fail_job"
    /\ FinishJob(j, "failed") /\ Goto(j, "release")
    /\ UNCHANGED <<server, dep, chain, shareLink, named, lock, remote, rq, up, crashes>>

\* Mutant: the locks are released only after a success.
release_worker_on_success(j) ==
    /\ up /\ pc[j] = "release"
    /\ IF job[j] = "success" THEN ReleaseLocks(j) ELSE UNCHANGED lock
    /\ CloseWorker(j)
    /\ UNCHANGED <<server, dep, chain, shareLink, named, job, remote, rq, up, crashes>>

\* The finally branch.
release_worker(j) ==
    /\ up /\ pc[j] = "release"
    /\ ReleaseLocks(j) /\ CloseWorker(j)
    /\ UNCHANGED <<server, dep, chain, shareLink, named, job, remote, rq, up, crashes>>

Worker(j) ==
    \/ spawn_worker(j) \/ spawn_failed(j)
    \/ prepare_deployment(j) \/ install_deployment(j) \/ deployment_ready(j)
    \/ check_chain(j) \/ prepare_chain_nodes(j) \/ install_chain_service(j) \/ publish_chain(j)
    \/ finish_success(j) \/ mark_failed(j)
    \/ rollback_deployment(j) \/ rollback_chain_service(j)
    \/ finish_failed(j) \/ release_worker(j)

-----------------------------------------------------------------------------
(* Delete requests.  They look at the lock table once, take no lock, clean  *)
(* up over SSH for as long as that takes, and then delete the rows.         *)

BeginDelete(r, t, C, D) ==
    /\ rq' = [rq EXCEPT ![r] = Request("chains", t, C, NoTarget, 0, D)]
    /\ UNCHANGED <<db, remote, workers, up, crashes>>

delete_deployment(r, d) ==
    /\ up /\ rq[r].pc = "idle"
    /\ DepRow(d) /\ ~Busy(Home[d])
    /\ BeginDelete(r, d, ChainsOf({d}), {d})

delete_server(r, s) ==
    /\ up /\ rq[r].pc = "idle"
    /\ ServerRow(s) /\ ~Busy(s)
    /\ LET D == {d \in Deps : DepRow(d) /\ Home[d] = s}
       IN BeginDelete(r, s, ChainsOf(D), D)

delete_proxy_chain(r, c) ==
    /\ up /\ rq[r].pc = "idle"
    /\ ChainRow(c) /\ ~Busy(c)
    /\ BeginDelete(r, c, {c}, {})

\* _cleanup_proxy_chain_services reads the nodes of the next chain; without a
\* row, or before the first deployment, it finds no service to remove.
cleanup_next_chain(r) ==
    /\ up /\ rq[r].pc = "chains"
    /\ LET q == rq[r] IN
         IF q.chains = {}
           THEN rq' = [rq EXCEPT ![r] =
                  Request(IF q.deps = {} THEN "purge" ELSE "uninstall",
                          q.target, {}, NoTarget, 0, q.deps)]
           ELSE \E c \in q.chains :
                  rq' = [rq EXCEPT ![r] =
                    IF ChainRow(c) /\ c \in named
                      THEN Request("hops", q.target, q.chains \ {c}, c, 1, q.deps)
                      ELSE Request("chains", q.target, q.chains \ {c}, NoTarget, 0, q.deps)]
    /\ UNCHANGED <<db, remote, workers, up, crashes>>

cleanup_chain_service(r) ==
    /\ up /\ rq[r].pc = "hops"
    /\ LET q == rq[r]
           s == Home[Path[q.cur][q.at]]
       IN /\ \/ SshOk(s) /\ chainUp' = chainUp \ {<<q.cur, q.at>>}
             \/ SshFailsClean(s) /\ UNCHANGED chainUp
          /\ rq' = [rq EXCEPT ![r] =
               IF q.at < Size(q.cur)
                 THEN Request("hops", q.target, q.chains, q.cur, q.at + 1, q.deps)
                 ELSE Request("chains", q.target, q.chains, NoTarget, 0, q.deps)]
    /\ UNCHANGED <<db, nodeUp, workers, up, crashes>>

\* Mutant: a failing uninstall fails the request.
uninstall_node_raises(r) ==
    /\ up /\ rq[r].pc = "uninstall"
    /\ \E d \in rq[r].deps :
         \/ /\ SshOk(Home[d]) /\ nodeUp' = nodeUp \ {d}
            /\ rq' = [rq EXCEPT ![r] = Request("purge", rq[r].target, {}, NoTarget, 0, {})]
         \/ /\ SshFailsClean(Home[d]) /\ UNCHANGED nodeUp
            /\ rq' = [rq EXCEPT ![r] = IdleRequest]
    /\ UNCHANGED <<db, chainUp, workers, up, crashes>>

\* The node services; the first failure ends the cleanup.
uninstall_node(r) ==
    /\ up /\ rq[r].pc = "uninstall"
    /\ \E d \in rq[r].deps :
         LET q == rq[r]
             left == q.deps \ {d}
         IN \/ /\ SshOk(Home[d]) /\ nodeUp' = nodeUp \ {d}
               /\ rq' = [rq EXCEPT ![r] =
                    Request(IF left = {} THEN "purge" ELSE "uninstall",
                            q.target, {}, NoTarget, 0, left)]
            \/ /\ \/ SshFailsClean(Home[d]) /\ UNCHANGED nodeUp
                  \/ SshFailsApplied(Home[d]) /\ nodeUp' = nodeUp \ {d}
               /\ rq' = [rq EXCEPT ![r] = Request("purge", q.target, {}, NoTarget, 0, {})]
    /\ UNCHANGED <<db, chainUp, workers, up, crashes>>

\* The rows go: a server takes its deployments with it, and a deployment every
\* chain it is a node of (foreign keys and trg_proxy_chain_node_delete).
PurgeDeps(D) ==
    /\ dep' = [d \in Deps |-> IF d \in D /\ DepRow(d) THEN "deleted" ELSE dep[d]]
PurgeChains(C) ==
    /\ chain' = [c \in Chains |-> IF c \in C /\ ChainRow(c) THEN "deleted" ELSE chain[c]]
    /\ shareLink' = shareLink \ C
    /\ named' = named \ C

purge_rows(r) ==
    /\ up /\ rq[r].pc = "purge"
    /\ LET t == rq[r].target
           D == IF t \in Servers THEN {d \in Deps : Home[d] = t} ELSE {t}
       IN \/ /\ t \in Chains
             /\ PurgeChains({t}) /\ UNCHANGED <<server, dep>>
          \/ /\ t \in Deps \cup Servers
             /\ PurgeDeps(D) /\ PurgeChains(ChainsOf(D))
             /\ server' = [s \in Servers |-> IF s = t THEN "deleted" ELSE server[s]]
    /\ rq' = [rq EXCEPT ![r] = IdleRequest]
    /\ UNCHANGED <<job, lock, remote, workers, up, crashes>>

DeleteStep(r) ==
    cleanup_next_chain(r) \/ cleanup_chain_service(r) \/ uninstall_node(r) \/ purge_rows(r)

-----------------------------------------------------------------------------
(* The process dies: threads are daemons, the database and the hosts stay. *)

crash ==
    /\ up /\ crashes < MaxCrashes
    /\ up' = FALSE /\ crashes' = crashes + 1
    /\ pc' = [j \in Jobs |-> "idle"]
    /\ target' = [j \in Jobs |-> NoTarget]
    /\ hop' = [j \in Jobs |-> 0]
    /\ rq' = [r \in Requests |-> IdleRequest]
    /\ UNCHANGED <<db, remote>>

\* Mutants: the locks stay; the deployments stay as they are.
recover_orphaned_jobs_keeps_locks ==
    /\ ~up /\ up' = TRUE
    /\ job' = [j \in Jobs |-> IF job[j] = "running" THEN "failed" ELSE job[j]]
    /\ dep' = [d \in Deps |-> IF dep[d] = "provisioning" THEN "failed" ELSE dep[d]]
    /\ chain' = [c \in Chains |-> IF chain[c] = "deploying" THEN "failed" ELSE chain[c]]
    /\ UNCHANGED <<server, shareLink, named, lock, remote, workers, rq, crashes>>
recover_orphaned_jobs_only ==
    /\ ~up /\ up' = TRUE
    /\ job' = [j \in Jobs |-> IF job[j] = "running" THEN "failed" ELSE job[j]]
    /\ lock' = [r \in Resources |-> NoJob]
    /\ UNCHANGED <<server, dep, chain, shareLink, named, remote, workers, rq, crashes>>

\* It is started again, and recovers before it serves.
recover_orphaned_jobs ==
    /\ ~up /\ up' = TRUE
    /\ job' = [j \in Jobs |-> IF job[j] = "running" THEN "failed" ELSE job[j]]
    /\ dep' = [d \in Deps |-> IF dep[d] = "provisioning" THEN "failed" ELSE dep[d]]
    /\ chain' = [c \in Chains |-> IF chain[c] = "deploying" THEN "failed" ELSE chain[c]]
    /\ lock' = [r \in Resources |-> NoJob]
    /\ UNCHANGED <<server, shareLink, named, remote, workers, rq, crashes>>

-----------------------------------------------------------------------------
StartTx(r) ==
    \/ \E j \in Jobs : start_deployment_tx(r, j) \/ start_proxy_chain_deployment_tx(r, j)
    \/ start_rejected(r)

Next ==
    \/ \E s \in Servers : create_server(s)
    \/ \E c \in Chains : create_proxy_chain(c)
    \/ \E r \in Requests :
         \/ \E d \in Deps : start_deployment(r, d) \/ delete_deployment(r, d)
         \/ \E c \in Chains : start_proxy_chain_deployment(r, c) \/ delete_proxy_chain(r, c)
         \/ \E s \in Servers : delete_server(r, s)
         \/ StartTx(r) \/ DeleteStep(r)
    \/ \E j \in Jobs : Worker(j)
    \/ crash \/ recover_orphaned_jobs

Spec == Init /\ [][Next]_vars

\* A started thread keeps running, every remote script has a timeout, and the
\* container is restarted: so workers, requests and recovery go on.
FairSpec ==
    /\ Spec
    /\ \A j \in Jobs : WF_vars(Worker(j))
    /\ \A r \in Requests : WF_vars(StartTx(r) \/ DeleteStep(r))
    /\ WF_vars(recover_orphaned_jobs)
-----------------------------------------------------------------------------
(* Properties.                                                             *)

WorkerPcs == {"idle", "spawn", "prepare", "name", "install", "ready", "publish", "finish",
              "fail", "rollback", "fail_job", "release"}
RequestPcs == {"idle", "start", "chains", "hops", "uninstall", "purge"}

DbTyped ==
    /\ server \in [Servers -> {"none", "present", "deleted"}]
    /\ dep \in [Deps -> {"none", "provisioning", "ready", "failed", "deleted"}]
    /\ chain \in [Chains -> {"none", "planned", "deploying", "ready", "failed", "deleted"}]
    /\ shareLink \subseteq Chains /\ named \subseteq Chains
    /\ job \in [Jobs -> {"none", "running", "success", "failed"}]
    /\ lock \in [Resources -> Jobs \cup {NoJob}]

RemoteTyped == nodeUp \subseteq Deps /\ chainUp \subseteq Hops

\* A worker at work has a target of the right kind, and the chain node it is
\* at exists.
WorkerShape(w, t, i) ==
    /\ w = "idle" => t = NoTarget
    /\ w # "idle" => t \in Deps \cup Chains
    /\ w = "ready" => t \in Deps
    /\ w \in {"name", "publish"} => t \in Chains
    /\ w \in {"install", "rollback"} /\ t \in Chains => i \in 1..Size(t)
WorkersTyped ==
    /\ pc \in [Jobs -> WorkerPcs]
    /\ target \in [Jobs -> Deps \cup Chains \cup {NoTarget}]
    /\ hop \in [Jobs -> 0..6]
    /\ \A j \in Jobs : WorkerShape(pc[j], target[j], hop[j])

\* The same for a request.
RequestRecords == [pc : RequestPcs, target : Targets \cup {NoTarget},
                   chains : SUBSET Chains, cur : Chains \cup {NoTarget},
                   at : 0..6, deps : SUBSET Deps]
RequestShape(q) ==
    /\ q.pc # "idle" => q.target \in Targets
    /\ q.pc = "start" => q.target \in Deps \cup Chains
    /\ q.pc = "hops" => q.cur \in Chains /\ q.at \in 1..Size(q.cur)
RequestsTyped ==
    /\ rq \in [Requests -> RequestRecords]
    /\ \A r \in Requests : RequestShape(rq[r])

\* The shape of every table row, worker and request.
TypeOK ==
    /\ DbTyped /\ RemoteTyped /\ WorkersTyped /\ RequestsTyped
    /\ up \in BOOLEAN /\ crashes \in 0..MaxCrashes

\* While the process serves, the lock table says exactly which workers are at
\* work: no path out of a job (success, exception, failed rollback, a thread
\* that never started, a crash and its recovery) leaks a lock, and no worker
\* runs without all of its locks.  A process that is down has no worker.
LocksMirrorWorkers ==
    IF up THEN \A r \in Resources, j \in Jobs :
                 lock[r] = j <=> (Live(j) /\ r \in Needs(target[j]))
          ELSE \A j \in Jobs : ~Live(j)

\* Two jobs never work on the same server or chain, whatever their kinds.
JobsExclusive ==
    \A j, k \in Jobs :
      j # k /\ Live(j) /\ Live(k) => Needs(target[j]) \cap Needs(target[k]) = {}

\* A status that promises progress has a worker that will change it: nothing
\* is left running, provisioning or deploying by a failure or by a restart.
DepPcs == {"spawn", "prepare", "install", "ready", "fail"}
ChainPcs == {"spawn", "prepare", "name", "install", "publish", "fail"}
NoStuckStatus ==
    up => /\ \A j \in Jobs : job[j] = "running" => pc[j] \notin {"idle", "release"}
          /\ \A d \in Deps : dep[d] = "provisioning" =>
               \E j \in Jobs : target[j] = d /\ pc[j] \in DepPcs
          /\ \A c \in Chains : chain[c] = "deploying" =>
               \E j \in Jobs : target[j] = c /\ pc[j] \in ChainPcs

\* A delete request that will take the row of d, or of c, with it.
DeletePcs == {"chains", "hops", "uninstall", "purge"}
DepDoomed(d) == \E r \in Requests : rq[r].pc \in DeletePcs
                                    /\ rq[r].target \in {d, Home[d]}
ChainDoomed(c) == \E r \in Requests : rq[r].pc \in DeletePcs
                    /\ rq[r].target \in {c} \cup NodeDeps(c) \cup NodeServers(c)

\* "ready" is true: the services of a ready deployment or chain are installed
\* on the hosts, except under a delete request (one that a crash cut short
\* included).  No rollback of one job removes what another one reported ready.
ReadyIsInstalled ==
    crashes = 0 =>
      /\ \A d \in Deps : dep[d] = "ready" => d \in nodeUp \/ DepDoomed(d)
      /\ \A c \in Chains : chain[c] = "ready" =>
           ChainDoomed(c) \/ \A i \in 1..Size(c) : <<c, i>> \in chainUp

\* The entry of a chain, the only hop users connect to, is never brought up
\* before the hops it forwards to; unless the chain is being deleted, or was,
\* under the worker that deploys it (which does not read the row again).
ExitBeforeEntry ==
    [][\A c \in Chains : ChainRow(c) /\ <<c, 1>> \notin chainUp /\ <<c, 1>> \in chainUp' =>
          ChainDoomed(c) \/ \A i \in 2..Size(c) : <<c, i>> \in chainUp]_vars

\* Every job ends, also the ones a crash interrupted.
JobsFinish == \A j \in Jobs : job[j] = "running" ~> job[j] # "running"

\* Every lock is given back.
LocksReleased == \A r \in Resources : Busy(r) ~> ~Busy(r)

\* A delete request that the process survives ends with the row it was asked to
\* remove gone, of a deployment, a server or a chain, whatever fails on the hosts.
HasRow(t) == \/ t \in Deps /\ DepRow(t)
             \/ t \in Servers /\ ServerRow(t)
             \/ t \in Chains /\ ChainRow(t)
DeleteCompletes ==
    \A t \in Targets :
      (\E r \in Requests : rq[r].target = t /\ rq[r].pc \in DeletePcs) ~> (~HasRow(t) \/ ~up)

\* The abstract promise of the lock table, see ResourceMutex: a live job owns
\* all that it needs, and nothing else is owned.
Owns == [j \in Jobs |-> IF Live(j) THEN Needs(target[j]) ELSE {}]
Mutex == INSTANCE ResourceMutex WITH owns <- Owns
ImplementsMutex == Mutex!Spec

-----------------------------------------------------------------------------
(* What the documentation and the error messages say, and the code does not *)
(* keep; checked by the runs that expect a violation.                       *)

\* "this server already has a native deployment": at most one per server.
OneNativePerServer ==
    \A d, e \in Deps : DepRow(d) /\ DepRow(e) /\ Home[d] = Home[e] => d = e

\* "proxy chain is not ready": once no job and no delete request works on it,
\* a chain whose link is served has its entry service.
ServedChainIsUp ==
    \A c \in shareLink :
      \/ <<c, 1>> \in chainUp \/ ChainDoomed(c)
      \/ \E j \in Jobs : target[j] = c
=============================================================================
