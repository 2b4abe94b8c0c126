---------------------------- MODULE ConfigSync ----------------------------
(***************************************************************************)
(* The users of one node and the configuration the node runs               *)
(* (services/clients.py): creating and updating a user, the periodic       *)
(* re-rendering, and the installer that writes the first configuration     *)
(* (services/teardown.py).  The panel remembers the hash of what it        *)
(* pushed last and pushes again only when the rendered configuration has   *)
(* another hash.                                                           *)
(*                                                                         *)
(* Nothing orders two requests, or a request and the sweep: every database *)
(* access and every remote script is a step of its own.                    *)
(***************************************************************************)
EXTENDS Naturals, FiniteSets

CONSTANTS
    Users,        \* ids of client rows
    Names,        \* user names, equal when they differ only in case
    Exps,         \* expiry days a request can set; a day after MaxDay is "never"
    Requests,     \* request threads of the web server's thread pool
    Sweep,        \* the config-sync thread
    Installer,    \* the worker of the deployment's job
    MaxDay,       \* the clock stops on this day
    MaxRequests,  \* requests in a behaviour
    MaxInFlight,  \* requests and sweeps in progress at once (what users do, not the code)
    PushFailures, \* how a push can fail: "clean" or "applied"
    MaxCrashes,   \* how often the process may die
    NoUser, NoRow, NoConfig

Threads == Requests \cup {Sweep, Installer}
Rows == [name : Names, enabled : BOOLEAN, exp : Exps]

\* A configuration, as far as its users go.  Its hash is a faithful image of
\* it, so the model compares configurations themselves.
Configs == SUBSET (Users \X Names)

ASSUME ExpsAssumption == Exps \subseteq Nat /\ MaxDay \in Nat
ASSUME FailuresAssumption == PushFailures \subseteq {"clean", "applied"}
ASSUME LimitsAssumption ==
    MaxRequests \in Nat /\ MaxInFlight \in Nat \ {0} /\ MaxCrashes \in Nat
ASSUME ThreadsDiffer ==
    Sweep \notin Requests /\ Installer \notin Requests /\ Sweep # Installer
ASSUME NullsDiffer ==
    NoUser \notin Users /\ (\A r \in Rows : r # NoRow) /\ (\A c \in Configs : c # NoConfig)

VARIABLES
    row,          \* clients
    status,       \* deployments.status
    hash,         \* deployments.last_config_hash
    remote,       \* the configuration on the host
    th,           \* the threads
    ids,          \* the ids new_id has given out: never one twice
    today,        \* the date, the same for Python and for SQLite (UTC)
    started,      \* requests so far
    crashes,
    strays,       \* history: users left on the host by a failure half-way
    unrecorded,   \* history: the thread whose push the node runs, until it records it
    lost          \* history: what the node runs will not be recorded

vars == <<row, status, hash, remote, th, ids, today, started, crashes, strays,
          unrecorded, lost>>

\* A thread: the user it works on and the row it will write, the hash it read,
\* the configuration it rendered.
Thread(pc, u, new, seen, cfg) ==
    [pc |-> pc, user |-> u, new |-> new, seen |-> seen, cfg |-> cfg]
IdleThread == Thread("idle", NoUser, NoRow, NoConfig, NoConfig)

Idle(t) == th[t].pc = "idle"
Goto(t, next) == th' = [th EXCEPT ![t] = next]
InFlight == {t \in Requests \cup {Sweep} : ~Idle(t)}

\* History of what the node runs: t's push takes effect, the push that takes
\* effect will not be recorded, t records its own.
Taken(t) == unrecorded' = {t} /\ lost' = FALSE
Lost == unrecorded' = {} /\ lost' = TRUE
Recorded(t) == unrecorded' = unrecorded \ {t} /\ lost' = (lost \/ unrecorded = {})

-----------------------------------------------------------------------------
Init ==
    /\ row = [u \in Users |-> NoRow]
    /\ status = "provisioning"
    /\ hash = NoConfig /\ remote = NoConfig
    /\ th = [t \in Threads |->
               IF t = Installer THEN Thread("i_render", NoUser, NoRow, NoConfig, NoConfig)
               ELSE IdleThread]
    /\ ids = {} /\ today = 0 /\ started = 0 /\ crashes = 0 /\ strays = {}
    /\ unrecorded = {} /\ lost = FALSE

-----------------------------------------------------------------------------
(* Rendering.                                                              *)

\* ACTIVE_CLIENT_CONDITION and _client_is_active.
IsActive(r) == r # NoRow /\ r.enabled /\ r.exp >= today

\* Mutant: the expiry is not looked at.
active_client_users_unexpired == {<<u, row[u].name>> : u \in {v \in Users :
                                    row[v] # NoRow /\ row[v].enabled}}

active_client_users == {<<u, row[u].name>> : u \in {v \in Users : IsActive(row[v])}}

NameAvailable(name, u) == \A v \in Users \ {u} : row[v] # NoRow => row[v].name # name

-----------------------------------------------------------------------------
(* create_client: check, render with the new user, push, then insert.      *)

Begin(t) == /\ t \in Requests /\ Idle(t)
            /\ started < MaxRequests /\ Cardinality(InFlight) < MaxInFlight
            /\ started' = started + 1

\* A fresh id; the user is created enabled.  A user who is not active, or a
\* node that is not ready, needs no push.
create_client(t, u, new) ==
    /\ Begin(t)
    /\ u \notin ids /\ ids' = ids \cup {u}
    /\ new.enabled /\ NameAvailable(new.name, u)
    /\ Goto(t, Thread(IF status = "ready" /\ IsActive(new) THEN "render_new" ELSE "insert",
                      u, new, NoConfig, NoConfig))
    /\ UNCHANGED <<row, status, hash, remote, today, crashes, strays, unrecorded, lost>>

render_with_new_user(t) ==
    /\ th[t].pc = "render_new"
    /\ Goto(t, Thread("push_new", th[t].user, th[t].new, NoConfig,
                      active_client_users \cup {<<th[t].user, th[t].new.name>>}))
    /\ UNCHANGED <<row, status, hash, remote, ids, today, started, crashes, strays, unrecorded, lost>>

\* The transaction at the end; the hash is recorded when there was a push.
insert_client(t) ==
    /\ th[t].pc = "insert"
    /\ row' = [row EXCEPT ![th[t].user] = th[t].new]
    /\ hash' = IF th[t].cfg = NoConfig THEN hash ELSE th[t].cfg
    /\ IF th[t].cfg = NoConfig THEN UNCHANGED <<unrecorded, lost>> ELSE Recorded(t)
    /\ Goto(t, IdleThread)
    /\ UNCHANGED <<status, remote, ids, today, started, crashes, strays>>

-----------------------------------------------------------------------------
(* update_client: read and check, write the whole row, apply.              *)

\* The new row is the payload with the fields it leaves out carried over from
\* the row read here.
update_client(t, u, new) ==
    /\ Begin(t)
    /\ row[u] # NoRow /\ NameAvailable(new.name, u)
    /\ Goto(t, Thread("write", u, new, NoConfig, NoConfig))
    /\ UNCHANGED <<row, status, hash, remote, ids, today, crashes, strays, unrecorded, lost>>

write_client(t) ==
    /\ th[t].pc = "write"
    /\ row' = [row EXCEPT ![th[t].user] = th[t].new]
    /\ Goto(t, Thread("apply", NoUser, NoRow, NoConfig, NoConfig))
    /\ UNCHANGED <<status, hash, remote, ids, today, started, crashes, strays, unrecorded, lost>>

\* refresh_node_configs: the sweep picks the deployments that are ready.
refresh_node_configs ==
    /\ Idle(Sweep) /\ Cardinality(InFlight) < MaxInFlight
    /\ status = "ready"
    /\ Goto(Sweep, Thread("apply", NoUser, NoRow, NoConfig, NoConfig))
    /\ UNCHANGED <<row, status, hash, remote, ids, today, started, crashes, strays, unrecorded, lost>>

\* _apply_node_config: read the deployment,
apply_node_config(t) ==
    /\ th[t].pc = "apply"
    /\ Goto(t, IF status = "ready" THEN Thread("render", NoUser, NoRow, hash, NoConfig)
                                   ELSE IdleThread)
    /\ UNCHANGED <<row, status, hash, remote, ids, today, started, crashes, strays, unrecorded, lost>>

\* render its users, compare with the hash read before,
render_node_config(t) ==
    /\ th[t].pc = "render"
    /\ Goto(t, IF active_client_users = th[t].seen THEN IdleThread
               ELSE Thread("push", NoUser, NoRow, NoConfig, active_client_users))
    /\ UNCHANGED <<row, status, hash, remote, ids, today, started, crashes, strays, unrecorded, lost>>

\* Mutants: the configuration is not kept for its hash; the new user's row is
\* forgotten.
push_ok_forgets_config(t) ==
    /\ th[t].pc \in {"push", "push_new"}
    /\ remote' = th[t].cfg /\ Taken(t)
    /\ Goto(t, Thread(IF th[t].pc = "push" THEN "record" ELSE "insert",
                      th[t].user, th[t].new, NoConfig, NoConfig))
    /\ UNCHANGED <<row, status, hash, ids, today, started, crashes, strays>>
push_ok_forgets_row(t) ==
    /\ th[t].pc \in {"push", "push_new"}
    /\ remote' = th[t].cfg /\ Taken(t)
    /\ Goto(t, Thread("record", NoUser, NoRow, NoConfig, th[t].cfg))
    /\ UNCHANGED <<row, status, hash, ids, today, started, crashes, strays>>

\* push (also the push of create_client),
push_ok(t) ==
    /\ th[t].pc \in {"push", "push_new"}
    /\ remote' = th[t].cfg /\ Taken(t)
    /\ Goto(t, Thread(IF th[t].pc = "push" THEN "record" ELSE "insert",
                      th[t].user, th[t].new, NoConfig, th[t].cfg))
    /\ UNCHANGED <<row, status, hash, ids, today, started, crashes, strays>>

\* Mutant: a failing push is not noticed.
push_failed_unnoticed(t) ==
    /\ th[t].pc \in {"push", "push_new"}
    /\ PushFailures # {} /\ UNCHANGED remote /\ Taken(t)
    /\ Goto(t, Thread(IF th[t].pc = "push" THEN "record" ELSE "insert",
                      th[t].user, th[t].new, NoConfig, th[t].cfg))
    /\ UNCHANGED <<row, status, hash, ids, today, started, crashes, strays>>

\* which raises when the script fails: before the new file is in place, or
\* after (the restart fails, or the connection is lost before it ends);
push_failed(t) ==
    /\ th[t].pc \in {"push", "push_new"}
    /\ \/ "clean" \in PushFailures /\ UNCHANGED <<remote, strays, unrecorded, lost>>
       \/ /\ "applied" \in PushFailures /\ remote' = th[t].cfg /\ Lost
          /\ strays' = IF th[t].pc = "push_new" THEN strays \cup {th[t].user} ELSE strays
    /\ Goto(t, IdleThread)
    /\ UNCHANGED <<row, status, hash, ids, today, started, crashes>>

\* Mutant: the hash is not written.
record_config_hash_lost(t) ==
    /\ th[t].pc = "record"
    /\ Recorded(t)
    /\ Goto(t, IdleThread)
    /\ UNCHANGED <<row, status, hash, remote, ids, today, started, crashes, strays>>

\* and record.
record_config_hash(t) ==
    /\ th[t].pc = "record"
    /\ hash' = th[t].cfg /\ Recorded(t)
    /\ Goto(t, IdleThread)
    /\ UNCHANGED <<row, status, remote, ids, today, started, crashes, strays>>

-----------------------------------------------------------------------------
(* The installer: render, install, and make the node ready.                *)

install_render ==
    /\ th[Installer].pc = "i_render"
    /\ Goto(Installer, Thread("i_run", NoUser, NoRow, NoConfig, active_client_users))
    /\ UNCHANGED <<row, status, hash, remote, ids, today, started, crashes, strays, unrecorded, lost>>

install_ok ==
    /\ th[Installer].pc = "i_run"
    /\ remote' = th[Installer].cfg /\ Taken(Installer)
    /\ Goto(Installer, Thread("i_ready", NoUser, NoRow, NoConfig, th[Installer].cfg))
    /\ UNCHANGED <<row, status, hash, ids, today, started, crashes, strays>>

\* The job fails, in its preparation or in the installer; what was installed
\* is removed if the host can be reached.  A failed node is not touched again.
install_failed ==
    /\ th[Installer].pc \in {"i_render", "i_run"} /\ PushFailures # {}
    /\ status' = "failed" /\ Lost
    /\ remote' \in {NoConfig, th[Installer].cfg}
    /\ Goto(Installer, IdleThread)
    /\ UNCHANGED <<row, hash, ids, today, started, crashes, strays>>

install_ready ==
    /\ th[Installer].pc = "i_ready"
    /\ status' = "ready" /\ hash' = th[Installer].cfg /\ Recorded(Installer)
    /\ Goto(Installer, IdleThread)
    /\ UNCHANGED <<row, remote, ids, today, started, crashes, strays>>

-----------------------------------------------------------------------------
next_day == /\ today < MaxDay /\ today' = today + 1
            /\ UNCHANGED <<row, status, hash, remote, th, ids, started, crashes, strays, unrecorded, lost>>

\* The process dies and is started again: an installation it left is failed.
crash == /\ crashes < MaxCrashes /\ crashes' = crashes + 1
         /\ th' = [t \in Threads |-> IdleThread]
         /\ status' = IF status = "provisioning" THEN "failed" ELSE status
         /\ strays' = strays \cup {th[t].user : t \in {r \in Requests : th[r].pc = "insert" /\ th[r].cfg # NoConfig}}
         /\ unrecorded' = {} /\ lost' = (lost \/ unrecorded # {})
         /\ UNCHANGED <<row, hash, remote, ids, today, started>>

Apply(t) == apply_node_config(t) \/ render_node_config(t) \/ push_ok(t) \/ push_failed(t)
            \/ record_config_hash(t)
RequestStep(t) == render_with_new_user(t) \/ insert_client(t) \/ write_client(t) \/ Apply(t)
InstallerStep == install_render \/ install_ok \/ install_failed \/ install_ready

Next ==
    \/ \E t \in Requests :
         \/ \E u \in Users, new \in Rows : create_client(t, u, new) \/ update_client(t, u, new)
         \/ RequestStep(t)
    \/ refresh_node_configs \/ Apply(Sweep)
    \/ InstallerStep
    \/ next_day \/ crash

Spec == Init /\ [][Next]_vars

\* Threads run on, the sweep comes round every CONFIG_SYNC_SECONDS, also when
\* requests keep coming, and a host that is tried for ever is reached for ever.
FairSpec ==
    /\ Spec
    /\ \A t \in Requests : WF_vars(RequestStep(t)) /\ SF_vars(push_ok(t))
    /\ WF_vars(Apply(Sweep)) /\ SF_vars(push_ok(Sweep))
    /\ SF_vars(refresh_node_configs)
    /\ WF_vars(InstallerStep)

-----------------------------------------------------------------------------
(* Properties.                                                             *)

ThreadPcs == {"idle", "render_new", "push_new", "insert", "write", "apply", "render",
              "push", "record", "i_render", "i_run", "i_ready"}
ThreadRecords == [pc : ThreadPcs, user : Users \cup {NoUser}, new : {NoRow} \cup Rows,
                  seen : {NoConfig} \cup Configs, cfg : {NoConfig} \cup Configs]

\* The shape of rows, configurations and threads; a thread at a push has a
\* configuration to push.
TypeOK ==
    /\ row \in [Users -> {NoRow} \cup Rows]
    /\ status \in {"provisioning", "ready", "failed"}
    /\ {hash, remote} \subseteq {NoConfig} \cup Configs
    /\ th \in [Threads -> ThreadRecords]
    /\ \A t \in Threads :
         th[t].pc \in {"push", "push_new", "record", "i_run", "i_ready"} => th[t].cfg # NoConfig
    /\ ids \subseteq Users /\ strays \subseteq ids /\ today \in 0..MaxDay /\ started \in 0..MaxRequests /\ crashes \in 0..MaxCrashes
    /\ unrecorded \subseteq Threads /\ lost \in BOOLEAN

\* What the panel remembers is what the node runs whenever the push that took
\* effect last has been recorded last, whatever else overlaps it, fails or is
\* overtaken: otherwise the next comparison is with a hash that means nothing.
\* It is lost when a push fails after its effect, when the process dies before
\* the record, and when an overtaken push records after the one that overtook it.
HashTruthful == unrecorded = {} /\ ~lost => remote = hash

RemoteUsers == IF remote = NoConfig THEN {} ELSE {p[1] : p \in remote}

\* A user the node accepts has a row, or one is about to be inserted, so that
\* every later rendering can drop him, in whatever order requests, sweep and
\* installer overlap.  It does not cover the users of a push that failed after
\* its effect, nor of a request that died between its push and the insertion:
\* those are left without a row (AcceptedUserHasRow).
NoOrphanUser ==
    \A u \in RemoteUsers \ strays :
      row[u] # NoRow \/ \E t \in Requests : th[t].user = u /\ th[t].pc = "insert"

\* A user who is disabled or has expired leaves the node, without anybody
\* doing anything, unless he is enabled or extended again, or what the node
\* runs will not be recorded: then he may stay (InactiveUserAbsent).
InactiveUserLeaves ==
    \A u \in Users :
      status = "ready" /\ row[u] # NoRow /\ ~IsActive(row[u])
        ~> IsActive(row[u]) \/ u \notin RemoteUsers \/ lost

\* When the requests have ended, the panel comes to see nothing to push.
EventuallyInSync == <>[](status = "ready" => hash = active_client_users)

-----------------------------------------------------------------------------
(* What the documentation says and the code does not keep; checked by the   *)
(* runs that expect a violation.                                            *)

\* "Push before the insert so a failing node leaves no orphaned user": it does
\* when the push fails after the node has taken the new configuration.
AcceptedUserHasRow ==
    \A u \in RemoteUsers :
      row[u] # NoRow \/ \E t \in Requests : th[t].user = u /\ th[t].pc = "insert"

\* "A disabled or expired user is not in the node's configuration": not when
\* nobody is at work and the panel sees nothing left to push, after a push that
\* was lost.
Settled == \A t \in Threads : Idle(t)
InactiveUserAbsent ==
    status = "ready" /\ Settled /\ hash = active_client_users =>
      \A u \in RemoteUsers : row[u] # NoRow => IsActive(row[u])
=============================================================================
