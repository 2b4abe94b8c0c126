# Verification of manage-your-node

TLA+ models of the control plane in `src/app`, the TLC runs that check them on
small instances, and proofs checked by TLAPS. manage-your-node is a web panel
(Starlette, SQLite, one process) that installs sing-box proxy nodes on remote
servers over SSH, keeps their users up to date, and joins nodes into proxy
chains.

## 1. Inventory of the system

| Component | Source | State | Operations | What is hard |
|---|---|---|---|---|
| Jobs and operation locks | `services/base.py` | tables `jobs`, `job_logs`, `operation_locks`; the set of worker threads | acquire and release locks, append to a log, finish a job, recover after a restart | locks must come back on every way out of a job; a crash at any step; a log reader beside the trimming of old lines |
| Deployments and teardown | `services/deployments.py`, `services/teardown.py` | `deployments.status`, `last_config_hash`; the service on the host | start a deployment, its worker, roll back, delete a deployment or a server | checks made before a transaction or before minutes of SSH; a delete beside a job; failures after the effect |
| Proxy chains | `services/chains.py` | `proxy_chains`, `proxy_chain_nodes`; one service per hop | create, deploy, roll back, delete, rotate the token, serve the link | several locks at once; rows that vanish under the worker; two chains on the same hosts |
| Users and configuration sync | `services/clients.py` | `clients`, `last_config_hash`; the configuration on the host | create and update a user, periodic sweep, push | pushes of overlapping threads; a push that fails after it took effect; expiry at midnight |
| Servers, health and host keys | `services/servers.py`, `ssh_runner.py` | `servers.status`, `ssh_host_keys` | create, test, approve and reset the host key, health loop | a slow probe that writes after an approval; the health loop beside a manual test |
| Subscriptions | `services/subscriptions.py`, `services/clients.py` | `subscriptions` and three entry tables | create, replace entries, rotate, delete, render | foreign keys, entries that vanish between two reads |
| Login throttling, sessions | `auth.py` | `login_rate_limits`; signed cookies | check, register a failure, clear, purge | attempts in flight at once; the end of the window and of the lockout |
| HTTP server | `server.py` | token buckets of the subscription endpoint | routes, middleware, start-up and shutdown | start-up recovers before it serves; shutdown waits 25 s only |
| Database | `database.py` | one SQLite connection behind a re-entrant lock | transactions that nest, migrations | a nested failure must roll back everything |
| Web configuration | `web_config.py`, `config.py` | `app_metadata` rows, cached values | read, store | a stale cached value |
| Rendering and remote scripts | `services/singbox.py`, `services/helpers.py`, `provisioning.py` | none of their own: configurations, links and scripts made from rows | build inbounds and outbounds, share links, parse links, install, push, uninstall | what is rendered separately from one row at different times must fit together |
| Front end | `static/app.js` | the page of a job's log; otherwise none | follow a log | polls beside the worker, dropped lines, a restart |
| Maintenance, secret box, installer | `maintenance.py`, `security.py`, `install.sh` | none that other parts depend on | formatting, cryptography, shell | out of scope, see section 8 |

How they interact. HTTP routes run the services in a thread pool, so any two
requests overlap. `start_deployment` and `start_proxy_chain_deployment` commit
locks, a job and a status in one transaction, and start a daemon thread. Delete
requests and updates of users do their SSH work inside the request. Two loops
run beside them: the configuration sweep and the health check. All share one
database connection; a database call is atomic, a sequence of calls outside
`transaction()` is not. After a restart `recover_orphaned_jobs` runs before the
server accepts requests (`server.py:648`).

What makes each part correct:

* locks: exactly the resources of the live workers are locked, always; no two
  jobs share a server or a chain; every job ends and gives its locks back;
* statuses: `running`, `provisioning` and `deploying` have a worker behind them;
  `ready` means installed;
* chains: the entry comes up last; the link of a chain is served while it is up;
* deletes: the row goes even if the host cannot be reached;
* users: the node accepts exactly the active users once things settle, a user it
  accepts has a row, and what the panel remembers is what the node runs;
* links: a link that was handed out gets a user into the service that runs, and
  the hops of a chain get into each other, also half-way through a redeployment;
* catalogue: no two chains share an endpoint, no entry refers to a row that is
  gone, a revoked token resolves to nothing;
* host keys: only a key that an administrator's approval has marked is trusted;
* log: the page shows every kept line once and in order;
* login: enough failures close together lock a client out, and from then on only
  attempts that are already in flight get through.

The complete list of hazards, each at its line and with the properties that
cover it, is in `PROJECT.json`.

## 2. Modules

| Module | Role |
|---|---|
| `ResourceMutex` | Abstract: jobs own sets of resources, and the sets of two jobs are disjoint. |
| `NodeJobs` | Jobs, locks, deployments, chains, deletes, crash and recovery. |
| `MCNodeJobs` | Constants of its finite instances. |
| `NodeJobs_proofs` | Theorems about `NodeJobs`: types, locks, statuses, the refinement of `ResourceMutex`. |
| `NodeReady_proofs` | Theorems about what `NodeJobs` installs. Extends `NodeJobs_proofs`. |
| `ConfigSync` | Users of one node and its configuration. |
| `MCConfigSync` | Constants of its finite instances. |
| `ConfigSync_proofs` | Theorems about `ConfigSync`. |
| `LoginThrottle` | The lockout of clients that fail to log in. |
| `MCLoginThrottle` | Constants of its finite instance. |
| `LoginThrottle_proofs` | Theorems about `LoginThrottle`. |
| `SingBox` | Operators: what the panel renders from a row, and what a client makes of it. |
| `NodeLinks` | One node, from its request to ready, and the links and credentials of its users. Extends `SingBox`. |
| `ChainHops` | A chain over that node, its credentials, services and link. Extends `NodeLinks` and composes with it. |
| `MCLinks` | Constants of the finite instance of the three. |
| `ChainHops_proofs` | Theorems about the three. |
| `Catalog` | Rows that requests create, select and delete: users, chains with their ports, subscriptions, tokens. |
| `MCCatalog` | Constants of its finite instance. |
| `Catalog_proofs` | Theorems about `Catalog`: types, endpoints, tokens. |
| `CatalogRows_proofs` | Theorems about its rows and the entries that refer to them. Extends `Catalog_proofs`. |
| `JobLog` | The log of a job and the page that follows it. |
| `HostKeys` | Servers, host keys, the health monitor and a deployment. Extends `JobLog`, whose lines its worker writes. |
| `MCPanel` | Constants of the finite instance of the two. |
| `HostKeys_proofs` | Theorems about `HostKeys` and `JobLog`. |

Operators whose comment begins with "Mutant" are deliberately wrong variants of
the definition that follows them. They are not part of any specification; with
one of them in place of the original the property it is meant for fails, which
shows that the property depends on that line of the code.

### NodeJobs

State and code correspond like this.

| Variable | Code |
|---|---|
| `server`, `dep`, `chain`, `job`, `lock` | `servers`, `deployments.status`, `proxy_chains.status`, `jobs.status`, `operation_locks` |
| `shareLink`, `named` | `proxy_chains.share_link` is set; `proxy_chain_nodes.remote_service_name` is set |
| `nodeUp`, `chainUp` | the systemd services on the hosts, of nodes and of chain hops |
| `pc`, `target`, `hop` | the worker thread of a job: the program point, the row it works on, the chain node it has reached |
| `rq` | a request thread between its check and its transaction, or in the middle of a delete |
| `up`, `crashes` | whether the process runs |

One action is one database call or transaction, or one remote script, with the
local code up to the next one. `hop = 1` on the failure path of a deployment is
the local `install_started`. `create_server` stands for creating, testing and
approving a server. A job's slot is used again when its worker has ended, which
is sound because no property looks at jobs that have finished. Ids know their
server (`Home`) or their nodes (`Path`); since ids are fresh and these columns
never change, nothing is lost. Two reads in a row of rows of one chain
(`get_proxy_chain`, then `_proxy_chain_full_nodes`) are one read: if the chain
is deleted between the two, the code starts a job that locks only the chain and
fails at its first step, before it touches a host.

Not in this module: ports and tokens (`Catalog`), what is installed (`NodeLinks`,
`ChainHops`), log lines and errors of the database (`JobLog`, `HostKeys`), and the
status column of chain nodes, which nothing reads to decide anything.

### ConfigSync

One node, its users, the sweep, the installer, and any number of requests. A
configuration is the set of (user, name) pairs it accepts. The hash is modelled
as the configuration itself, since SHA-256 does not collide in practice and
everything else in the file is constant for a node. The order of users in the
file is left out; two overlapping creates may render another order, whose only
effect is one more push of an equal set. `update_client` writes the whole row,
with the fields its payload leaves out carried over from what it read; the model
lets it write any row, which covers this. A push has three outcomes: it works,
it fails before the new file is in place, or it fails after (the restart or the
probe fails, or the connection drops: `provisioning.py:235-270`).

The failing installation may leave the service or not; a failed node is not
touched again by the sweep, and its users are nobody's concern here.

`unrecorded` and `lost` are history: whose push the node runs and whether it is
still to be recorded, or never will be. A push is lost when it fails after its
effect, when the process dies before the record, and when a push that it overtook
records after it. `HashTruthful` says that in every other case the recorded hash is
that of the node; it holds without a bound on what overlaps or fails. `strays` is
history too: the users of a push that failed after its effect, and of a request
that died between push and insertion. `NoOrphanUser` is about all others;
`AcceptedUserHasRow`, which makes no exception, is what the comment in
`create_client` says and does not hold (section 6).

### LoginThrottle

`now` is the clock in ticks of half a second, `row` the table
`login_rate_limits`, `attempt` the requests between their check and their
outcome, `clock` the time such a request has read for its failure. `failed` and
`slipped` are history: what the properties count. The variant of `AuthManager`
without a database is left out; the server never uses it (`server.py:651`).

`register_failure` reads the clock (`auth.py:63`) before it waits for the
connection's lock and for SQLite (`auth.py:65`), so this is a step of its own, and
failures may be stored in another order than their dates. `Delay` bounds the wait.
For SQLite that is `busy_timeout`, 5 s (`database.py:20`); the lock is held only for
the calls of other threads, each bounded in the same way, but nothing in the code
bounds how many of them come first. The theorems hold for any `Delay`, and what
they promise shrinks with it: a failure that is stored late sets `updated_at` back,
so the purge may take a row away up to `Delay` too early, and `LockoutEngages`
counts the failures in the window less twice the delay. With the default
window (300 s, `auth.py:22`) and a wait of 5 s that is 290 s.

The check at the start of a request (`lockout_remaining`) is one step: with an older
clock more of the lockout seems to remain, so a wait in between can only turn
away more. A request whose payload cannot be read, or whose transaction cannot
begin, ends with nothing registered (`give_up`).

### SingBox, NodeLinks and ChainHops

`SingBox` has no variables. A text is a string, a secret a number with 0 for a
missing one, a REALITY target a pair, a credential a tuple. An inbound, a link, a
Mihomo proxy and an outbound are records of what the other side compares; JSON,
URLs, base64 and shell text around it are left out. Each builder is an operator
with the name it has in the code, and one that raises has an explicit outcome
(`NoLink`, `NoProxy`, `SecretsPresent`). `Accepts` and `PortsUsed` are not from the
repository: they say what sing-box does, and only the properties use them.

| Variable | Code |
|---|---|
| `dep` | the row of `deployments`, joined with its server's host |
| `user` | `clients`: enabled, secrets, share link |
| `service`, `open` | the service on the host with its certificate; the ports its firewall lets in |
| `th` | requests and the installer: step, what they read, what they rendered |
| `early` | history: users whose link was rendered before the target was chosen |
| `hop`, `chain` | `proxy_chain_nodes` with their secrets; status and link of `proxy_chains` |
| `run` | the worker of the chain: its step and the hop it is at |
| `hopService`, `hopOpen` | as `service` and `open`, for the chain's services |

The installer goes through the choice of the REALITY target, rendering, the
script, the check of the fingerprint and the final update; requests read the row
at any point in between, and write later. A chain has two hops; an inner hop is
rendered like the entry and the exit together. An installation is two steps, as in
the script: the service is started (`provisioning.py:225`), then the ports are
opened (`provisioning.py:229-230`), and it may fail before, between and among them,
with a removal that works or does not. A service that is installed for the first
time may therefore be left running behind closed ports. `PortsOpen` says nothing
of it; it speaks of what users are sent to: the services of a ready node, and those
of a chain whose link was ever handed out. A port counts as open when the script
has asked for it; the script ignores what the firewall commands answer. Hops of a chain on one node and
the node itself never share a service or a port here, so `service` and
`hopService` do not interact; the chain reads the node's row and nothing else.
The environment (`REALITY_DEST`, `REALITY_SNI`, `REALITY_CANDIDATES`) stays the same
over a restart: a changed default would change what `reality_settings` gives for
rows without a stored target.

### Catalog

| Variable | Code |
|---|---|
| `proxy`, `ready` | `deployments.proxy_port` and its row; `status = 'ready'` |
| `client` | `clients` |
| `chain` | `proxy_chains` with `proxy_chain_nodes`: nodes, token, whether `share_link` is set |
| `sub` | `subscriptions` with the users and chains of their entries |
| `nodeSub` | `subscription_nodes` of a deployment and `subscription_configured` |
| `th` | a request between its reads and its transaction |
| `ids`, `minted`, `revoked` | ids given out, tokens made; history: tokens replaced or deleted |

An action that reads ends with what the request keeps in local variables; the
action that writes is the whole transaction with its cascades, and does nothing
when a foreign key fails. Reads that follow each other without a write in between
are one step. Display names and the order of entries are left out.

### JobLog and HostKeys

| Variable | Code |
|---|---|
| `job`, `logs`, `written` | `jobs.status` and `job_logs` of one job; the lines so far |
| `page` | the closure of `pollJob`: `jobLogSeq`, the lines shown, the status read by a poll under way |
| `host` | the key a host presents, or that it is down |
| `status`, `key` | `servers.status`; the row of `ssh_host_keys` |
| `approved` | history: keys an approval has marked |
| `th`, `todo` | requests, monitor and worker; the servers of the monitor's round |
| `open` | sqlite's implicit transaction that a failed statement has left on the connection |

A line of the log is its place in the order of writing, so that order and
completeness can be stated. A poll makes two reads: the row, then the lines. A
host may change at any moment, between the load of its key and the connection
too. `execute` outside `transaction()` commits only if the statement succeeds
(`database.py:507-511`): after `_store_host_key` for a server that was deleted, the
implicit transaction stays, and the next `BEGIN IMMEDIATE` raises. `Log` has this
outcome, and the worker's step `dead` is a thread that ended that way.

`delete_server` checks once that no job is at work on the server; its transaction
comes later and does not look again, so a worker may find its deployment gone
(`announce`) or its server's key and row (`store_host_key`). The SSH sessions of the
delete and of the worker's rollback are left out.

## 3. Runs

All passing runs finish with no error. The check for deadlock is off in every
cfg: ids are used up, days and requests are bounded, and a system with nothing
left to do may stop. Progress is checked by the liveness properties instead.

| Run | Instance | Question |
|---|---|---|
| `deploy` | two servers, three deployment ids, two of them on one server, a chain over both servers, two requests, two jobs, failing scripts | Do locks and statuses survive every interleaving of starting, retrying and deleting; is what is ready installed; is the entry of a chain brought up last? Two ids on one server are the least for a retry and for two racing starts. |
| `chains` | two chains over the same two nodes in opposite directions, two jobs, one request, failing scripts, one crash | The same for chains whose nodes, servers and rows are deleted under their workers; do two chains exclude each other, and does a rollback leave the other one's services alone? Chains have 2 to 6 nodes; two have an entry, an exit and a failure between. |
| `live` | a chain over a ready node and one still to deploy, one request, fair, one crash | Do jobs end, locks return, requests to delete a node, a server or a chain remove its row; do the locks implement `ResourceMutex`? |
| `one_native` | two requests; scripts may fail | Expected violation, see section 6. |
| `served_chain` | failing scripts | Expected violation. |
| `sync_converges` | two users, two requests and the sweep of which two are at work at once, three requests in all, the installer, failures before and after the effect, a midnight, one crash, fair | Is the recorded hash true unless the last push was lost, and does an inactive user leave as long as none is; has every accepted user a row unless his push failed after its effect or his request died; does the panel come to see nothing left to push? |
| `orphan_user` | one user, one request, a push that fails after its effect | Expected violation. |
| `push_reorder` | one user, overlapping threads, no failure | Expected violation. |
| `login` | two clients, two attempts in flight, three failures lock out, a window of 3 ticks, a lockout of 5, a delay of 1, clock up to 5 ticks after the first window | Do enough failures always lock out, does nothing else, and what gets through? The second client is there because his failures purge the first one's row. |
| `links` | a node of each protocol, with and without a domain, automatic and manual targets, two users, one request beside the installer; a second hop of each protocol; two deployments of the chain, failures and one restart | Do the links that are handed out fit what runs, does every set of stored links render under any display names, with proxies of different names, do old and new hops fit, are the ports of what users are sent to open? |
| `catalog` | two deployments on two hosts, three ports of which one is SSH's, two chains, one user, one subscription, two requests at once and three in all, deletes at any time | Is anything left half, shared or alive that should not be? |
| `panel` | one server, two keys, two requests at once and three in all, the monitor, one job whose log keeps two lines, one change of the host, one database error or restart | Is trust ever inherited, does the page miss or repeat a line, does the monitor settle every status? |

Bounds. `MaxCrashes`: one crash visits every step; recovery resets all that a
crash can leave, so a second crash starts from a state the first one could
start from. `deploy` has none, to leave room for a second request; crashes are
in `chains` and `live`. `MaxRequests` (2 to 4 requests): create, change and change back, or
two racing and one before them. `MaxDay = 1`: users expire at a midnight, at
expiry day 0, or never. `MaxInFlight` is a bound on what administrators do and not
a promise of the code; two at work at once are enough for one thread to overtake
another, and the invariants are proved for any number. The two users of
`sync_converges` have one name, which two overlapping creates can give them.
`MaxDeploys = 2`: a
redeployment over what the first one left is the case of interest. In `login` a
lockout outlasts the window, as it does by default (900 s and 300 s), `Delay = 1`
lets two failures change places over the boundary of a second, and
`Horizon = 8` is a whole lockout after the first window.
`MaxJobLogEntries = 2` with up to three lines makes lines drop under the page; the
code keeps 2000. `MaxHostChanges = 1`: between two changes the monitor and the
probes see a host that stays, which is the state they started in. In `links` one
request at a time is enough beside the installer, since two requests for different
users touch only their own rows and the pushed set, which is `ConfigSync`'s
subject. Servers of one host are not in `catalog`'s instance; the property that
depends on it, `ChainEndpointsDisjoint`, is proved for any.

Symmetry is used only where no property of the run is a liveness property.

## 4. Fairness

* `WF(Worker(j))`, `WF` of a request's steps: a started thread runs on. Every
  remote script has a timeout enforced by `ssh_runner._read_channel` (1200 s,
  600 s, 180 s, 120 s), so each remote step ends, in success or in failure.
  Nothing is assumed about which.
* `WF(recover_orphaned_jobs)`: the container has `restart: unless-stopped`
  (`docker-compose.yml:47`), and start-up calls the recovery.
* No fairness for new requests, for the crash, or for success of a script.
* `ConfigSync`: the sweep starts again and again (`SF(refresh_node_configs)`; the
  loop waits on a timer only), and `SF(push_ok)`: a host that is tried for ever is
  reached for ever. Without the second no property about the host's content can
  hold; it is an assumption about the network, not about the code.
* `HostKeys`: `WF` of the monitor's steps only. Its loop waits on a timer
  (`servers.py:177`), its connections time out, and what a check raises is caught
  for one server at a time. Requests and the worker may stop anywhere.

## 5. Theorems

All are proved for every value of the constants that satisfies the named
assumptions of their modules, which TLC evaluates in every run. Every invariant
that a passing run checks is stated by one of them, and so are the two safety
properties that are not invariants, `ExitBeforeEntry` and `ImplementsMutex`.

`NodeJobs_proofs` (any sets of servers, deployments, chains, jobs and requests, any
number of crashes):

* `TypeCorrect`: `Spec => []TypeOK`. `TypeOK` is inductive as it stands. It says
  that a worker or a cleanup at a chain node is at a node that exists.
* `LocksCorrect`: `Spec => []LocksMirrorWorkers`. The lemma behind it sorts the
  steps of the system into kinds: those that leave the lock table and the set of
  live workers alone, those that open a job, those that close one, the crash and
  the recovery; each kind preserves the invariant. `TypeOK` is needed because
  the lock a worker holds depends on its target.
* `JobsAreExclusive`: `Spec => []JobsExclusive`, a consequence of the lock
  table being a function and of `LocksMirrorWorkers`.
* `MutexImplemented`: `Spec => ImplementsMutex`. The refinement mapping makes a
  live job own what it needs; starting a job is an acquisition, its end a
  release, a crash releases everything, every other step is a stutter. That
  acquisition is possible only when the resources are free in the abstract sense
  follows from `LocksMirrorWorkers`.
* `StatusNeverStuck`: `Spec => []NoStuckStatus`, with `TypeOK` and
  `LocksMirrorWorkers`. The point is that a row that says `deploying` belongs to
  the only worker that can hold the chain's lock, so no other worker's end can
  leave it behind.

`NodeReady_proofs` (the same constants, on top of `NodeJobs_proofs`):

* `ReadyIsTrue`: `Spec => []ReadyIsInstalled`, and `EntryComesLast`:
  `Spec => ExitBeforeEntry`. The invariant is `ReadyInv`. To `TypeOK` and
  `LocksMirrorWorkers` it adds that a delete request has in hand only rows of
  what it deletes (`DeleteScope`), that a job's chain has or had a row
  (`ChainsKnown`), that what a job still works on is not ready (`Unready`), and
  that what it has installed so far is there (`InstalledSoFar`: the node, or the
  hops from the exit up to the one it is at). The locks make the last two stable: a
  rollback of one job cannot reach what another one has installed.

`Catalog_proofs` (any rows, hosts, ports, addresses of servers, number of threads
and requests):

* `TypeCorrect`: `Spec => []TypeOK`. The invariant is `TypeInv`, which adds
  `FreshIds`: ids are used once, so a deployment that was deleted does not come
  back under a request that still means to add an entry to its subscription.
  Without it `insert_client` could add a user to a subscription that is not set up.
* `EndpointsApart`: `Spec => []ChainEndpointsDisjoint`, inductive with `TypeInv`.
  Every step but `insert_chain` adds no node to a chain; that one compares with all
  chains in the transaction that inserts.
* `RevokedStaysDead`: `Spec => []RevokedIsDead`. The invariant is `TokenInv`: every
  token in use or revoked is smaller than the number of tokens made, two rows
  never hold the same one, and none in use is revoked. The second part is what
  makes revoking one row's token harmless for the others.

`CatalogRows_proofs` (the same constants):

* `RowsStayWhole`: `Spec => []RowsWhole`, and `EntriesStayLinked`:
  `Spec => []EntriesLinked`. The invariant is `RowInv`. It adds what requests carry
  from their checks to their transactions: a chain about to be inserted has an id
  nobody else knows and at least two deployments (`NewChains`), and a chain that a
  request has selected has its link or is gone (`ChosenChains`). The second holds
  because no step takes a link away and no id comes back.

`ConfigSync_proofs` (any users, names, expiry days, requests, days):

* `TypeCorrect`: `Spec => []TypeOK`, from `TypeInv`, which says what a thread
  carries at each step.
* `UsersHaveRows`: `Spec => []NoOrphanUser`, with any number of requests in
  flight, failing pushes and crashes. The invariant adds that every user in a
  configuration on its way has a row, except the one its thread creates
  (`PushesKnown`): no step removes a row, so what was true when a configuration was
  rendered is true when it arrives, however late.
* `HashIsTruthful`: `Spec => []HashTruthful`, for any overlap, failure and crash.
  The invariant adds that the push the node runs is its thread's configuration
  for as long as it is to be recorded (`Carried`). The premise of the property is history, not a bound:
  `push_reorder`, a failure after the effect and a crash before the record are what
  it excepts.

`LoginThrottle_proofs` (any clients, window, lockout, limit, delay, finite pool of
threads; failures stored in any order):

* `TypeCorrect`: `Spec => []TypeOK`.
* `LockoutsEngage`: `Spec => []LockoutEngages`, and `LockoutsAreDeserved`:
  `Spec => []LockoutDeserved`. The two properties compare the table, which forgets,
  with the history, which does not. Two invariants tie them: seen through the
  window, less `Delay`, the row and the history show the same failures
  (`Accounted`), and seen from any time on, the row never shows more (`Included`).
  The first loses `Delay` because a purge judges a row by `updated_at`, which a
  late failure may have set back by that much (`Dates`); another `Delay` goes
  because the transaction that counts the failures may itself be that late.
* `SlipsAreBounded`: `Spec => []SlipBounded`. During a lockout the failures that
  slipped through and the attempts in flight are together fewer than the threads:
  every slip uses up one attempt in flight, none starts, and the attempt
  that set the lockout is not among them.

`ChainHops_proofs` (`SingBox`, `NodeLinks` and `ChainHops` together: any protocols,
targets, users, requests, redeployments, failures and restarts):

* `InvHolds`: `Spec => []Inv`, on which the others rest. `Inv` has a part for the
  node and one for the chain. For the node: a request's copy of the row is
  still right in all it is used for (`Fresh`: everything but the REALITY target
  while that is open, and the pin while there is none), and what was rendered,
  handed out, pushed or installed fits the row of now (`Fits`, `LinkFits`, `Up`).
  For the chain: a secret that was made stays (`SecretsKept`), so the services that
  run and the link that was handed out are those the rows would give now
  (`HopsFit`, `LinkKept`), and ports that were opened stay open (`PortsKept`).
* `LinksGetIn`, `NeighboursConnect`, `ChainLinkLasts`, `PortsStayOpen`:
  `[]LinksConnect`, `[]HopsConnect`, `[]ChainLinkFits`, `[]PortsOpen`, by comparing,
  for each protocol, what the two sides render from one row.
* `SubscriptionsRender`: `[]SubscriptionRenders`, for any list of stored links under
  any display names. The new part is `unique_proxy_name`: a finite list of names cannot
  use up all suffixes.
* `TypeCorrect`: `Spec => []TypeOK`.

`TypeCorrect` and `SubscriptionsRender` have as hypotheses that the constants that
stand for Python's `None` are no inbound and no proxy (`NoneIsNoInbound`,
`NoneIsNoProxy`). They are not among the assumptions because they compare these
constants with every record, which TLC cannot evaluate.

`HostKeys_proofs` (any servers, keys, requests, lines of the log and bounds):

* `TypeCorrect`: `Spec => []TypeOK`. No key outlives its server.
* `TrustIsApproved`: `Spec => []TrustApproved`. The property is inductive with
  `ServersTypeOK`, because it speaks of the keys that threads carry to a
  comparison too: what a thread loads as trusted was approved, and the set of
  approved keys only grows.
* `LogIsFollowed`: `Spec => []LogFollowed`. The invariant is `LogInv`: the table holds
  the newest lines, each under its number; the page shows, in increasing order,
  lines it has asked for, and of these every one that is still kept; a page that
  is done, or has read a final status, has a job that is final; a worker has a
  running job. The last two say why reading the status before the lines is
  the right order.

Induction. The library's induction rules take an operator as an argument, which the
provers cannot instantiate. What needs induction over numbers or sequences
(`LoginThrottle_proofs`, `unique_proxy_name`) goes through a first-order form of it,
over sets instead of predicates, derived from the least element of a set of
numbers, or by counting. For the same reason operators of the model that
the theorems are about use no library operator with an operator argument: `InOrder`
of `JobLog` chooses the sorted sequence instead of calling `SetToSortSeq`.

Only model-checked: the liveness properties `JobsFinish`, `LocksReleased`,
`DeleteCompletes`, `InactiveUserLeaves`, `EventuallyInSync` and `StatusSettles`. The
provers have no rule for fairness and `ENABLED` here.


## 6. What the code does not keep

Each of these is a run that is expected to find a violation, with the quotation
in `PROJECT.json`.

* `one_native`: the check "this server already has a native deployment" is made
  before the transaction and not repeated in it; the lock only orders the two
  jobs.
* `served_chain`: a failed redeployment removes the services of a chain and
  keeps its link.
* `orphan_user`: the push of a new user fails after its effect; the node accepts
  him and he has no row, which the comment "so a failing node leaves no orphaned
  user" excludes.
* `push_reorder`: an older configuration overtakes a newer one, and the newer
  hash is recorded last. The panel is in sync with itself and not with the node.

Seen while modelling, without a run of their own:

* A delete looks at the lock once and holds none; a job started during the
  delete installs a service whose row then goes (`teardown.py:282`). The worker of
  a chain does not read the chain's row again between two hops, so it brings up
  the services, the entry too, of a chain that was deleted under it. This is why
  `ExitBeforeEntry` speaks of chains whose row is there and that nobody deletes.
* A push that fails after the new file is in place leaves the older hash on record.
  If the opposite change then brings the users back to that configuration, nothing
  is pushed, and a disabled user stays on the node (`clients.py:131`): the state of
  `push_reorder` by another way. `InactiveUserLeaves` excepts it by `lost`.
* Of two failures of one client the earlier may be stored last (`auth.py:63`); its
  date becomes `updated_at`, and another client's failure purges the row while the
  later one is still in the window.
* A service that is installed for the first time is started before its ports are
  opened; if the script ends in between and the removal fails too, it is left
  running behind closed ports (`provisioning.py:225-230`).
* A process that dies between the push of a new user and the insertion of his row
  leaves him on the node as `orphan_user` does.
* Two overlapping creates of one user name both pass the check, since `clients`
  has no unique index.
* A user created while the REALITY target is still being chosen gets a link with
  an empty server name until he is updated (`early` in `NodeLinks` sets these
  users apart).
* A chain selection saved while another update of the subscription is between
  its reads and its transaction is overwritten with what that update had read.
* A deployment may be started on a port that a chain already uses on the host:
  only the other order is checked.
* `approve_server_host_key` marks the key that is stored when it writes. The
  request does not say which fingerprint the operator saw.
* A failed statement outside `transaction()` can make the next transaction of
  another thread raise; a worker in its exception handler then ends with its job
  still `running`, until the next restart. `JobsFinish` of `NodeJobs` assumes that the
  database does not fail.
* Opening a job's log again while a poll of the same job is under way shows the
  lines of that poll twice.

## 7. Plan

Done: `NodeJobs`, `ConfigSync`, `LoginThrottle`, `SingBox` with `NodeLinks` and
`ChainHops`, `Catalog`, `JobLog` with `HostKeys`; the theorems of section 5. Next, in
this order:

1. Abstract specifications in the manner of `ResourceMutex` for the other
   components, with the refinements proved: what a token resolves to (`Catalog`),
   a log that only grows at its end and is read in order (`JobLog`).
2. Safety parts of the liveness properties: a waiting worker or request always has
   its next step enabled, as invariants that can be proved.
3. The token buckets of the subscription endpoint (`server.py`), and the shutdown
   that waits 25 s for workers.
4. Web configuration and the migrations of old databases, if they are to change.


## 8. Not modelled

* Sessions and CSRF tokens, the secret box: cryptography.
* `web_config.py`, `config.py`: values read once at start-up, or stored and read
  back by single statements.
* Migrations in `database.py`: they run once, before anything else.
* Subscriptions named after a deployment (`sub_<id>`, `clients.py:226-243`,
  `subscriptions.py:262-282`): nothing in this version creates one, only databases
  of older versions have them.
* Routes, middleware, parsing and responses of `server.py`; the rate limiter is
  in the plan.
* The text of configurations, links and scripts, and the validation of payload
  fields; of the front end everything but the page of a job's log.
* `maintenance.py` and `install.sh` are one-shot commands outside the running
  process.
* Errors of SQLite itself are modelled in `HostKeys` only, at the statement that
  writes a status and at one whose row has gone.
