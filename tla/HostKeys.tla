------------------------------ MODULE HostKeys ------------------------------
(***************************************************************************)
(* Servers, their SSH host keys and their health (services/servers.py,     *)
(* ssh_runner.py): probes by requests and by the monitor, the operator's   *)
(* approval and reset, and a deployment that connects in the meantime and  *)
(* writes its log (JobLog).  A host may go down or come back reinstalled,  *)
(* with another key, at any time.                                          *)
(*                                                                         *)
(* All threads use one database connection (database.py): a statement that *)
(* fails outside transaction() leaves an implicit transaction open, and    *)
(* the next transaction() cannot begin until some other statement commits. *)
(***************************************************************************)
EXTENDS JobLog

CONSTANTS
    Servers, Keys,
    Requests,         \* request threads
    Monitor, Worker,  \* the health monitor and the worker of the job
    MaxRequests, MaxHostChanges, MaxFaults,  \* a fault: a database error, a restart
    Down, NoKey, NoRow, NoServer

Threads == Requests \cup {Monitor, Worker}

ASSUME KeyAssumption ==
    /\ Down \notin Keys
    /\ NoKey \notin Keys \cup [key : Keys, trusted : BOOLEAN]
    /\ Worker \notin Requests \cup {Monitor}
    /\ NoRow \notin {"new", "reachable", "auth_failed", "unreachable"}

VARIABLES
    host,     \* the key a host presents, or Down
    status,   \* servers.status, or no row
    key,      \* ssh_host_keys: [key, trusted]
    approved, \* history: the keys that an approval has marked
    th,       \* the threads
    todo,     \* the servers the monitor has yet to check in this round
    open,     \* an implicit transaction is open on the connection
    used      \* requests, host changes and faults so far

dbVars == <<status, key, approved>>
vars == <<host, status, key, approved, th, todo, open, used, logVars>>

Row(s) == status[s] # NoRow
StoredKey(k, trusted) == [key |-> k, trusted |-> trusted]

\* A thread: its step, its server, the key or the result it carries.
Thread(pc, s, arg) == [pc |-> pc, server |-> s, arg |-> arg]
IdleThread == Thread("idle", NoServer, NoKey)
Goto(t, pc, arg) == th' = [th EXCEPT ![t] = Thread(pc, th[t].server, arg)]
Exit(t) == th' = [th EXCEPT ![t] = IdleThread]
Busy(s) == job = "running" /\ th[Worker].server = s

Init ==
    /\ host \in [Servers -> Keys]
    /\ status = [s \in Servers |-> "new"] /\ key = [s \in Servers |-> NoKey]
    /\ approved = [s \in Servers |-> {}]
    /\ th = [t \in Threads |-> IdleThread] /\ todo = {} /\ open = FALSE
    /\ used = [requests |-> 0, changes |-> 0, faults |-> 0]
    /\ InitLog

Count(what, limit) == used[what] < limit /\ used' = [used EXCEPT ![what] = @ + 1]

Begin(t, s, pc, arg) ==
    /\ t \in Requests /\ th[t].pc = "idle" /\ Row(s)
    /\ Count("requests", MaxRequests)
    /\ th' = [th EXCEPT ![t] = Thread(pc, s, arg)]
    /\ UNCHANGED <<host, dbVars, todo, open, logVars>>

-----------------------------------------------------------------------------
(* The host.                                                               *)

host_changes(s) ==
    /\ Count("changes", MaxHostChanges)
    /\ \E h \in Keys \cup {Down} : h # host[s] /\ host' = [host EXCEPT ![s] = h]
    /\ UNCHANGED <<dbVars, th, todo, open, logVars>>

-----------------------------------------------------------------------------
(* _connect, for probes and for the worker.                                *)

\* What comes after a refused and after an accepted connection.
Refused(t) == IF t = Worker THEN Goto(t, "failing", NoKey) ELSE Goto(t, "write", "auth_failed")
Accepted(t) == IF t = Worker THEN Goto(t, "script", NoKey) ELSE Goto(t, "write", "reachable")

\* The stored key is loaded; one that is not approved is refused.
load_host_key(t) ==
    LET row == key[th[t].server]
    IN  /\ th[t].pc = "load"
        /\ IF row = NoKey THEN Goto(t, "connect", NoKey)
           ELSE IF row.trusted THEN Goto(t, "connect", row.key) ELSE Refused(t)
        /\ UNCHANGED <<host, dbVars, todo, open, used, logVars>>

\* The host's key is compared with the one loaded.  Without one it is captured.
connect(t) ==
    LET h == host[th[t].server]
    IN  /\ th[t].pc = "connect"
        /\ IF h = Down THEN Refused(t)
           ELSE IF th[t].arg = NoKey THEN Goto(t, "store", h)
           ELSE IF th[t].arg = h THEN Accepted(t) ELSE Refused(t)
        /\ UNCHANGED <<host, dbVars, todo, open, used, logVars>>

\* Mutant: only the key is replaced, the row's trusted flag stays.
StoredAs_kept(s, k) == StoredKey(k, IF key[s] = NoKey THEN FALSE ELSE key[s].trusted)
\* INSERT OR REPLACE: whatever was stored, the new row is not trusted.
StoredAs(s, k) == StoredKey(k, FALSE)

\* _store_host_key.  For a server that was deleted the statement fails.
store_host_key(t) ==
    LET s == th[t].server
    IN  /\ th[t].pc = "store"
        /\ key' = IF Row(s) THEN [key EXCEPT ![s] = StoredAs(s, th[t].arg)] ELSE key
        /\ open' = ~Row(s)
        /\ Refused(t)
        /\ UNCHANGED <<host, status, approved, todo, used, logVars>>

-----------------------------------------------------------------------------
(* Health.                                                                 *)

\* _check_server_health begins: the TCP connection.
Reach(s) == IF host[s] = Down THEN Thread("write", s, "unreachable") ELSE Thread("load", s, NoKey)

test_server(t, s) == Begin(t, s, Reach(s).pc, Reach(s).arg)

\* The status is written over whatever it is by now; without a row that does
\* nothing.  The commit also ends what was left open.
write_health(t) ==
    LET s == th[t].server
    IN  /\ th[t].pc = "write"
        /\ status' = IF Row(s) THEN [status EXCEPT ![s] = th[t].arg] ELSE status
        /\ open' = FALSE
        /\ Exit(t)
        /\ UNCHANGED <<host, key, approved, todo, used, logVars>>

\* Mutant: the exception ends the monitor.
write_fails_for_good(t) ==
    /\ th[t].pc = "write" /\ Count("faults", MaxFaults)
    /\ Goto(t, "dead", NoKey)
    /\ UNCHANGED <<host, dbVars, todo, open, logVars>>

\* The statement fails, as when a backup holds the database for too long.
write_fails(t) ==
    /\ th[t].pc = "write" /\ Count("faults", MaxFaults)
    /\ Exit(t)
    /\ UNCHANGED <<host, dbVars, todo, open, logVars>>

\* check_all_servers_health reads all rows first, then checks one by one.
check_all_servers_health ==
    /\ th[Monitor].pc = "idle" /\ todo = {}
    /\ todo' = {s \in Servers : Row(s)} /\ todo' # {}
    /\ UNCHANGED <<host, dbVars, th, open, used, logVars>>

check_server_health(s) ==
    /\ th[Monitor].pc = "idle" /\ s \in todo
    /\ todo' = todo \ {s}
    /\ th' = [th EXCEPT ![Monitor] = Reach(s)]
    /\ UNCHANGED <<host, dbVars, open, used, logVars>>

-----------------------------------------------------------------------------
(* The operator.                                                           *)

\* approve_server_host_key: there must be a key when it is read;
approve_server_host_key(t, s) == key[s] # NoKey /\ Begin(t, s, "approve", NoKey)

\* the key that is stored by now is the one that is marked.
write_approval(t) ==
    LET s == th[t].server
    IN  /\ th[t].pc = "approve"
        /\ IF key[s] = NoKey THEN UNCHANGED <<key, approved>>
           ELSE /\ key' = [key EXCEPT ![s].trusted = TRUE]
                /\ approved' = [approved EXCEPT ![s] = @ \cup {key[s].key}]
        /\ open' = FALSE
        /\ Exit(t)
        /\ UNCHANGED <<host, status, todo, used, logVars>>

\* reset_server_host_key: not under a job, which is checked first.
reset_server_host_key(t, s) == ~Busy(s) /\ Begin(t, s, "reset_key", NoKey)

delete_key(t) ==
    /\ th[t].pc = "reset_key"
    /\ key' = [key EXCEPT ![th[t].server] = NoKey]
    /\ open' = FALSE
    /\ Goto(t, "reset_status", NoKey)
    /\ UNCHANGED <<host, status, approved, todo, used, logVars>>

reset_status(t) ==
    LET s == th[t].server
    IN  /\ th[t].pc = "reset_status"
        /\ status' = IF Row(s) THEN [status EXCEPT ![s] = "new"] ELSE status
        /\ open' = FALSE
        /\ Exit(t)
        /\ UNCHANGED <<host, key, approved, todo, used, logVars>>

\* delete_server: not under a job, which is checked first.  Then minutes may
\* pass with the remote cleanup (NodeJobs), whose SSH sessions are left out;
delete_server(t, s) == ~Busy(s) /\ Begin(t, s, "delete", NoKey)

\* Mutant: the key does not go with its server.
delete_rows_keep_key(t) ==
    LET s == th[t].server
    IN  /\ th[t].pc = "delete"
        /\ status' = IF open THEN status ELSE [status EXCEPT ![s] = NoRow]
        /\ Exit(t)
        /\ UNCHANGED <<host, key, approved, todo, open, used, logVars>>

\* the row goes, and the key with it, even if a job has started by now.  When
\* its transaction cannot begin the request fails.
delete_rows(t) ==
    LET s == th[t].server
    IN  /\ th[t].pc = "delete"
        /\ status' = IF open THEN status ELSE [status EXCEPT ![s] = NoRow]
        /\ key' = IF open THEN key ELSE [key EXCEPT ![s] = NoKey]
        /\ Exit(t)
        /\ UNCHANGED <<host, approved, todo, open, used, logVars>>

-----------------------------------------------------------------------------
(* A deployment.                                                           *)

\* start_deployment reads the status, then the key; the transaction that
\* inserts the job comes later.  There is one job in a behaviour.
start_deployment(t, s) == status[s] = "reachable" /\ Begin(t, s, "start_key", NoKey)

read_trusted(t) ==
    LET row == key[th[t].server]
    IN  /\ th[t].pc = "start_key"
        /\ IF row # NoKey /\ row.trusted THEN Goto(t, "start", NoKey) ELSE Exit(t)
        /\ UNCHANGED <<host, dbVars, todo, open, used, logVars>>

insert_job(t) ==
    LET s == th[t].server
    IN  /\ th[t].pc = "start"
        /\ IF Row(s) /\ ~open /\ job = NoStatus
           THEN /\ job' = "running"
                /\ th' = [th EXCEPT ![t] = IdleThread, ![Worker] = Thread("announce", s, NoKey)]
           ELSE Exit(t) /\ UNCHANGED job
        /\ UNCHANGED <<host, dbVars, todo, open, used, logs, written, page>>

\* A line, unless its transaction cannot begin: then an exception.
Log(next, otherwise) ==
    /\ IF open THEN Goto(Worker, otherwise, NoKey) /\ UNCHANGED <<logs, written>>
       ELSE Goto(Worker, next, NoKey) /\ append_job_log
    /\ UNCHANGED <<host, dbVars, todo, open, used, job, page>>

\* _run_deployment; the SSH session of the rollback is left out.  It reads the
\* deployment first, which went with the server if that was deleted.
announce ==
    /\ th[Worker].pc = "announce"
    /\ IF Row(th[Worker].server) THEN Log("load", "failing")
       ELSE Goto(Worker, "failing", NoKey) /\ UNCHANGED <<host, dbVars, todo, open, used, logVars>>
\* The last line of the script, or of success.
script_line == th[Worker].pc = "script" /\ (Log("success", "failing") \/ Log("failing", "failing"))

\* The handler of the exception: a statement of its own first, then lines.
\* An exception in the handler ends the thread, and the job stays running.
mark_failed ==
    /\ th[Worker].pc = "failing"
    /\ open' = FALSE
    /\ Goto(Worker, "report", NoKey)
    /\ UNCHANGED <<host, dbVars, todo, used, logVars>>
report_failure == th[Worker].pc = "report" /\ Log("failed", "dead")

finish_job ==
    /\ th[Worker].pc \in Final
    /\ job' = th[Worker].pc /\ open' = FALSE /\ Exit(Worker)
    /\ UNCHANGED <<host, dbVars, todo, used, logs, written, page>>

WorkerNext == announce \/ script_line \/ mark_failed \/ report_failure \/ finish_job

-----------------------------------------------------------------------------
\* The process restarts; recover_orphaned_jobs fails the job in one transaction.
restart ==
    /\ Count("faults", MaxFaults)
    /\ th' = [t \in Threads |-> IdleThread] /\ todo' = {} /\ open' = FALSE
    /\ IF job = "running" THEN job' = "failed" /\ append_job_log ELSE UNCHANGED <<job, logs, written>>
    /\ page' = [page EXCEPT !.read = NoStatus]
    /\ UNCHANGED <<host, dbVars>>

ProbeNext(t) ==
    load_host_key(t) \/ connect(t) \/ store_host_key(t) \/ write_health(t) \/ write_fails(t)

RequestNext(t) ==
    \/ \E s \in Servers : \/ test_server(t, s) \/ approve_server_host_key(t, s)
                          \/ reset_server_host_key(t, s) \/ delete_server(t, s)
                          \/ start_deployment(t, s)
    \/ write_approval(t) \/ delete_key(t) \/ reset_status(t) \/ delete_rows(t)
    \/ read_trusted(t) \/ insert_job(t)

MonitorNext ==
    \/ check_all_servers_health \/ ProbeNext(Monitor)
    \/ \E s \in Servers : check_server_health(s)

Next ==
    \/ \E s \in Servers : host_changes(s)
    \/ \E t \in Requests : RequestNext(t) \/ ProbeNext(t)
    \/ MonitorNext \/ ProbeNext(Worker) \/ WorkerNext
    \/ PageNext /\ UNCHANGED <<host, dbVars, th, todo, open, used>>
    \/ restart

Spec == Init /\ [][Next]_vars

\* The monitor's thread runs: its connections time out.  Nothing else is fair.
FairSpec == Spec /\ WF_vars(MonitorNext)

-----------------------------------------------------------------------------
(* Properties.                                                             *)

ThreadPcs == {"idle", "load", "connect", "store", "write", "approve", "reset_key", "reset_status",
              "delete", "start_key", "start", "announce", "script", "failing", "report", "dead"} \cup Final
ThreadArgs == Keys \cup {NoKey, "unreachable", "auth_failed", "reachable"}

ServersTypeOK ==
    /\ host \in [Servers -> Keys \cup {Down}]
    /\ status \in [Servers -> {"new", "reachable", "auth_failed", "unreachable", NoRow}]
    /\ key \in [Servers -> [key : Keys, trusted : BOOLEAN] \cup {NoKey}]
    /\ approved \in [Servers -> SUBSET Keys]
    /\ th \in [Threads -> [pc : ThreadPcs, server : Servers \cup {NoServer}, arg : ThreadArgs]]
    /\ \A t \in Threads :
         /\ th[t].pc # "idle" => th[t].server \in Servers
         /\ th[t].pc = "connect" => th[t].arg \in Keys \cup {NoKey}
         /\ th[t].pc = "store" => th[t].arg \in Keys
         /\ th[t].pc = "write" => th[t].arg \in {"unreachable", "auth_failed", "reachable"}
    /\ todo \subseteq Servers /\ open \in BOOLEAN

\* The shape of the rows and the threads; no key outlives its server.
TypeOK == ServersTypeOK /\ LogTypeOK /\ \A s \in Servers : Row(s) \/ key[s] = NoKey

\* A key is trusted, and a session runs over it, only if an approval has marked
\* that very key: captures by slow probes, which replace what is stored, never
\* inherit the trust in another key.
TrustApproved ==
    /\ \A s \in Servers : key[s] # NoKey /\ key[s].trusted => key[s].key \in approved[s]
    /\ \A t \in Threads : th[t].pc = "connect" /\ th[t].arg # NoKey => th[t].arg \in approved[th[t].server]

\* What a probe would find.
Truth(s) == IF host[s] = Down THEN "unreachable"
            ELSE IF key[s] = StoredKey(host[s], TRUE) THEN "reachable" ELSE "auth_failed"

\* Whatever stale results overlapping probes, resets and approvals have left,
\* the monitor brings every server's status back to what holds.
StatusSettles == <>[](\A s \in Servers : Row(s) => status[s] = Truth(s))
=============================================================================
