-------------------------- MODULE HostKeys_proofs --------------------------
(***************************************************************************)
(* Theorems about HostKeys and JobLog, for any servers, keys, requests,    *)
(* lengths of the log and bounds.                                          *)
(***************************************************************************)
EXTENDS HostKeys, SequenceTheorems, FiniteSetTheorems, TLAPS

KeyInv == ServersTypeOK /\ TrustApproved

\* What the initial states satisfy.
LEMMA InitKeys == Init => KeyInv
<1> SUFFICES ASSUME Init PROVE KeyInv
  OBVIOUS
<1>1. th \in [Threads -> [pc : ThreadPcs, server : Servers \cup {NoServer}, arg : ThreadArgs]]
  BY DEF Init, IdleThread, Thread, ThreadPcs, ThreadArgs
<1>2. \A t \in Threads : th[t].pc = "idle"
  BY DEF Init, IdleThread, Thread
<1>3. ServersTypeOK
  BY <1>1, <1>2 DEF Init, ServersTypeOK
<1>4. TrustApproved
  BY <1>2 DEF Init, TrustApproved
<1> QED BY <1>3, <1>4 DEF KeyInv

\* A thread moves on, or leaves, and nothing that is trusted changes; it
\* carries a key to a comparison only if that key was approved.
LEMMA MoveKeepsInv ==
  ASSUME KeyInv, NEW t \in Threads, NEW s \in Servers, NEW pc \in ThreadPcs, NEW arg \in ThreadArgs,
         th' = [th EXCEPT ![t] = Thread(pc, s, arg)],
         pc = "connect" => arg = NoKey \/ arg \in approved[s],
         pc = "store" => arg \in Keys,
         pc = "write" => arg \in {"unreachable", "auth_failed", "reachable"},
         UNCHANGED <<host, dbVars>>, todo' \subseteq Servers, open' \in BOOLEAN
  PROVE  KeyInv'
BY DEF KeyInv, ServersTypeOK, TrustApproved, Thread, dbVars

LEMMA ExitKeepsInv ==
  ASSUME KeyInv, NEW t \in Threads, Exit(t), UNCHANGED <<host, dbVars>>,
         todo' \subseteq Servers, open' \in BOOLEAN
  PROVE  KeyInv'
BY KeyAssumption DEF KeyInv, ServersTypeOK, TrustApproved, Thread, IdleThread, Exit, dbVars, ThreadPcs, ThreadArgs

\* The two ends of a connection.
LEMMA RefusedKeepsInv ==
  ASSUME KeyInv, NEW t \in Threads, th[t].pc # "idle", Refused(t), UNCHANGED <<host, dbVars>>,
         todo' \subseteq Servers, open' \in BOOLEAN
  PROVE  KeyInv'
<1>1. th[t].server \in Servers
  BY DEF KeyInv, ServersTypeOK
<1>2. CASE t = Worker
  <2>1. th' = [th EXCEPT ![t] = Thread("failing", th[t].server, NoKey)]
    BY <1>2 DEF Refused, Goto
  <2>2. "failing" \in ThreadPcs /\ NoKey \in ThreadArgs
    BY DEF ThreadPcs, ThreadArgs
  <2> QED BY <1>1, <2>1, <2>2, MoveKeepsInv
<1>3. CASE t # Worker
  <2>1. th' = [th EXCEPT ![t] = Thread("write", th[t].server, "auth_failed")]
    BY <1>3 DEF Refused, Goto
  <2>2. "write" \in ThreadPcs /\ "auth_failed" \in ThreadArgs
    BY DEF ThreadPcs, ThreadArgs
  <2> QED BY <1>1, <2>1, <2>2, MoveKeepsInv
<1> QED BY <1>2, <1>3

LEMMA AcceptedKeepsInv ==
  ASSUME KeyInv, NEW t \in Threads, th[t].pc # "idle", Accepted(t), UNCHANGED <<host, dbVars>>,
         todo' \subseteq Servers, open' \in BOOLEAN
  PROVE  KeyInv'
<1>1. th[t].server \in Servers
  BY DEF KeyInv, ServersTypeOK
<1>2. CASE t = Worker
  <2>1. th' = [th EXCEPT ![t] = Thread("script", th[t].server, NoKey)]
    BY <1>2 DEF Accepted, Goto
  <2>2. "script" \in ThreadPcs /\ NoKey \in ThreadArgs
    BY DEF ThreadPcs, ThreadArgs
  <2> QED BY <1>1, <2>1, <2>2, MoveKeepsInv
<1>3. CASE t # Worker
  <2>1. th' = [th EXCEPT ![t] = Thread("write", th[t].server, "reachable")]
    BY <1>3 DEF Accepted, Goto
  <2>2. "write" \in ThreadPcs /\ "reachable" \in ThreadArgs
    BY DEF ThreadPcs, ThreadArgs
  <2> QED BY <1>1, <2>1, <2>2, MoveKeepsInv
<1> QED BY <1>2, <1>3

\* A connection, by a probe or by the worker.
LEMMA ProbeKeepsInv ==
  ASSUME KeyInv, NEW t \in Threads, ProbeNext(t)
  PROVE  KeyInv'
<1> DEFINE s == th[t].server
<1>1. todo \subseteq Servers /\ open \in BOOLEAN
  BY DEF KeyInv, ServersTypeOK
<1>2. CASE load_host_key(t)
  <2>1. th[t].pc # "idle" /\ s \in Servers /\ UNCHANGED <<host, dbVars>> /\ UNCHANGED <<todo, open>>
    BY <1>2 DEF load_host_key, KeyInv, ServersTypeOK
  <2>2. CASE key[s] = NoKey
    <3>1. th' = [th EXCEPT ![t] = Thread("connect", s, NoKey)]
      BY <1>2, <2>2 DEF load_host_key, Goto
    <3> QED BY <1>1, <2>1, <3>1, MoveKeepsInv DEF ThreadPcs, ThreadArgs
  <2>3. CASE key[s] # NoKey /\ key[s].trusted
    <3>1. th' = [th EXCEPT ![t] = Thread("connect", s, key[s].key)]
      BY <1>2, <2>3 DEF load_host_key, Goto
    <3>2. key[s].key \in Keys /\ key[s].key \in approved[s]
      BY <2>1, <2>3 DEF KeyInv, ServersTypeOK, TrustApproved
    <3> QED BY <1>1, <2>1, <3>1, <3>2, MoveKeepsInv DEF ThreadPcs, ThreadArgs
  <2>4. CASE key[s] # NoKey /\ ~key[s].trusted
    <3>1. Refused(t)
      BY <1>2, <2>4 DEF load_host_key
    <3> QED BY <1>1, <2>1, <3>1, RefusedKeepsInv
  <2> QED BY <2>2, <2>3, <2>4
<1>3. CASE connect(t)
  <2>1. th[t].pc # "idle" /\ s \in Servers /\ UNCHANGED <<host, dbVars>> /\ UNCHANGED <<todo, open>>
    BY <1>3 DEF connect, KeyInv, ServersTypeOK
  <2>2. CASE Refused(t)
    BY <1>1, <2>1, <2>2, RefusedKeepsInv
  <2>3. CASE Accepted(t)
    BY <1>1, <2>1, <2>3, AcceptedKeepsInv
  <2>4. CASE host[s] # Down /\ Goto(t, "store", host[s])
    <3>1. host[s] \in Keys
      BY <2>1, <2>4 DEF KeyInv, ServersTypeOK
    <3>2. "store" \in ThreadPcs /\ host[s] \in ThreadArgs
      BY <3>1 DEF ThreadPcs, ThreadArgs
    <3>3. th' = [th EXCEPT ![t] = Thread("store", s, host[s])]
      BY <2>4 DEF Goto
    <3> QED BY <1>1, <2>1, <3>1, <3>2, <3>3, MoveKeepsInv
  <2> QED BY <1>3, <2>2, <2>3, <2>4 DEF connect
<1>4. CASE store_host_key(t)
  <2>1. th[t].pc = "store" /\ s \in Servers /\ th[t].arg \in Keys
    BY <1>4 DEF store_host_key, KeyInv, ServersTypeOK
  <2>2. UNCHANGED <<host, status, approved, todo>> /\ open' \in BOOLEAN
    BY <1>4 DEF store_host_key
  <2>3. /\ key' \in [Servers -> [key : Keys, trusted : BOOLEAN] \cup {NoKey}]
        /\ \A r \in Servers : key'[r] = key[r] \/ ~key'[r].trusted
    BY <1>4, <2>1 DEF store_host_key, StoredAs, StoredKey, KeyInv, ServersTypeOK
  <2>4. \E pc \in {"failing", "write"}, arg \in {NoKey, "auth_failed"} :
          /\ pc = "write" => arg = "auth_failed"
          /\ th' = [th EXCEPT ![t] = Thread(pc, s, arg)]
    BY <1>4 DEF store_host_key, Refused, Goto
  <2>5. ServersTypeOK'
    <3>1. PICK pc \in {"failing", "write"}, arg \in {NoKey, "auth_failed"} :
            /\ pc = "write" => arg = "auth_failed"
            /\ th' = [th EXCEPT ![t] = Thread(pc, s, arg)]
      BY <2>4
    <3>2. pc \in ThreadPcs /\ arg \in ThreadArgs
      BY DEF ThreadPcs, ThreadArgs
    <3> QED BY <1>1, <2>1, <2>2, <2>3, <3>1, <3>2 DEF KeyInv, ServersTypeOK, Thread
  <2>6. TrustApproved'
    BY <2>2, <2>3, <2>4 DEF KeyInv, ServersTypeOK, TrustApproved, Thread
  <2> QED BY <2>5, <2>6 DEF KeyInv
<1>5. CASE write_health(t)
  <2>1. th[t].pc = "write" /\ s \in Servers /\ th[t].arg \in {"unreachable", "auth_failed", "reachable"}
    BY <1>5 DEF write_health, KeyInv, ServersTypeOK
  <2>2. UNCHANGED <<host, key, approved, todo>> /\ open' = FALSE
    BY <1>5 DEF write_health
  <2>3. status' \in [Servers -> {"new", "reachable", "auth_failed", "unreachable", NoRow}]
    BY <1>5, <2>1 DEF write_health, KeyInv, ServersTypeOK
  <2>4. th' = [th EXCEPT ![t] = IdleThread]
    BY <1>5 DEF write_health, Exit
  <2>5. ServersTypeOK'
    BY <1>1, <2>2, <2>3, <2>4 DEF KeyInv, ServersTypeOK, Thread, IdleThread, ThreadPcs, ThreadArgs
  <2>6. TrustApproved'
    BY <2>2, <2>4 DEF KeyInv, ServersTypeOK, TrustApproved, Thread, IdleThread
  <2> QED BY <2>5, <2>6 DEF KeyInv
<1>6. CASE write_fails(t)
  BY <1>1, <1>6, ExitKeepsInv DEF write_fails
<1> QED BY <1>2, <1>3, <1>4, <1>5, <1>6 DEF ProbeNext

\* A request: only the approval makes a key trusted, and it records that key.
LEMMA RequestKeepsInv ==
  ASSUME KeyInv, NEW t \in Requests, RequestNext(t)
  PROVE  KeyInv'
<1> DEFINE s == th[t].server
<1>1. t \in Threads /\ todo \subseteq Servers /\ open \in BOOLEAN
  BY DEF KeyInv, ServersTypeOK, Threads
<1>2. ASSUME NEW r \in Servers, NEW pc \in ThreadPcs, NEW arg \in ThreadArgs, Begin(t, r, pc, arg),
             pc \notin {"connect", "store"}, pc = "write" => arg = "unreachable"
      PROVE  KeyInv'
  BY <1>1, <1>2, MoveKeepsInv DEF Begin
<1>3. CASE \E r \in Servers : test_server(t, r)
  <2>1. PICK r \in Servers : test_server(t, r)
    BY <1>3
  <2>2. Reach(r).pc \in {"load", "write"} /\ Reach(r).arg \in ThreadArgs
        /\ (Reach(r).pc = "write" => Reach(r).arg = "unreachable")
    BY DEF Reach, Thread, ThreadArgs
  <2> QED BY <1>2, <2>1, <2>2 DEF test_server, ThreadPcs
<1>4. CASE \E r \in Servers : \/ approve_server_host_key(t, r) \/ reset_server_host_key(t, r)
                               \/ delete_server(t, r) \/ start_deployment(t, r)
  BY <1>2, <1>4 DEF approve_server_host_key, reset_server_host_key, delete_server, start_deployment,
                    ThreadPcs, ThreadArgs
<1>5. CASE write_approval(t)
  <2>1. s \in Servers /\ UNCHANGED <<host, status, todo>> /\ open' = FALSE
        /\ th' = [th EXCEPT ![t] = IdleThread]
    BY <1>1, <1>5 DEF write_approval, Exit, KeyInv, ServersTypeOK
  <2>2. CASE key[s] = NoKey
    <3>1. Exit(t) /\ UNCHANGED <<host, dbVars>>
      BY <1>5, <2>1, <2>2 DEF write_approval, dbVars
    <3> QED BY <1>1, <2>1, <3>1, ExitKeepsInv
  <2>3. CASE key[s] # NoKey
    <3>1. key[s] \in [key : Keys, trusted : BOOLEAN]
      BY <2>1, <2>3 DEF KeyInv, ServersTypeOK
    <3>2. /\ key' = [key EXCEPT ![s].trusted = TRUE]
          /\ approved' = [approved EXCEPT ![s] = @ \cup {key[s].key}]
      BY <1>5, <2>3 DEF write_approval
    <3>3. ServersTypeOK'
      BY <1>1, <2>1, <3>1, <3>2 DEF KeyInv, ServersTypeOK, Thread, IdleThread, ThreadPcs, ThreadArgs
    <3>4. TrustApproved'
      BY <1>1, <2>1, <3>1, <3>2 DEF KeyInv, ServersTypeOK, TrustApproved, Thread, IdleThread
    <3> QED BY <3>3, <3>4 DEF KeyInv
  <2> QED BY <2>2, <2>3
<1>6. CASE delete_key(t)
  <2>1. s \in Servers /\ UNCHANGED <<host, status, approved, todo>> /\ open' = FALSE
        /\ th' = [th EXCEPT ![t] = Thread("reset_status", s, NoKey)]
        /\ key' = [key EXCEPT ![s] = NoKey]
    BY <1>1, <1>6 DEF delete_key, Goto, KeyInv, ServersTypeOK
  <2>2. ServersTypeOK'
    BY <1>1, <2>1 DEF KeyInv, ServersTypeOK, Thread, ThreadPcs, ThreadArgs
  <2>3. TrustApproved'
    BY <1>1, <2>1 DEF KeyInv, ServersTypeOK, TrustApproved, Thread
  <2> QED BY <2>2, <2>3 DEF KeyInv
<1>7. CASE reset_status(t)
  <2>1. s \in Servers /\ UNCHANGED <<host, key, approved, todo>> /\ open' = FALSE
        /\ th' = [th EXCEPT ![t] = IdleThread]
    BY <1>1, <1>7 DEF reset_status, Exit, KeyInv, ServersTypeOK
  <2>2. status' \in [Servers -> {"new", "reachable", "auth_failed", "unreachable", NoRow}]
    BY <1>7 DEF reset_status, KeyInv, ServersTypeOK
  <2>3. ServersTypeOK'
    BY <1>1, <2>1, <2>2 DEF KeyInv, ServersTypeOK, Thread, IdleThread, ThreadPcs, ThreadArgs
  <2>4. TrustApproved'
    BY <1>1, <2>1 DEF KeyInv, ServersTypeOK, TrustApproved, Thread, IdleThread
  <2> QED BY <2>3, <2>4 DEF KeyInv
<1>8. CASE read_trusted(t)
  <2>1. s \in Servers /\ UNCHANGED <<host, dbVars>> /\ UNCHANGED <<todo, open>>
    BY <1>1, <1>8 DEF read_trusted, KeyInv, ServersTypeOK
  <2>2. CASE Exit(t)
    BY <1>1, <2>1, <2>2, ExitKeepsInv
  <2>3. CASE Goto(t, "start", NoKey)
    <3>1. "start" \in ThreadPcs /\ NoKey \in ThreadArgs
      BY DEF ThreadPcs, ThreadArgs
    <3>2. th' = [th EXCEPT ![t] = Thread("start", s, NoKey)]
      BY <2>3 DEF Goto
    <3> QED BY <1>1, <2>1, <3>1, <3>2, MoveKeepsInv
  <2> QED BY <1>8, <2>2, <2>3 DEF read_trusted
<1>9. CASE insert_job(t)
  <2>1. s \in Servers /\ UNCHANGED <<host, dbVars>> /\ UNCHANGED <<todo, open>>
    BY <1>1, <1>9 DEF insert_job, KeyInv, ServersTypeOK
  <2>2. CASE Exit(t)
    BY <1>1, <2>1, <2>2, ExitKeepsInv
  <2>3. CASE th' = [th EXCEPT ![t] = IdleThread, ![Worker] = Thread("announce", s, NoKey)]
    <3>1. th' \in [Threads -> [pc : ThreadPcs, server : Servers \cup {NoServer}, arg : ThreadArgs]]
      <4>1. {IdleThread, Thread("announce", s, NoKey)}
              \subseteq [pc : ThreadPcs, server : Servers \cup {NoServer}, arg : ThreadArgs]
        BY <2>1 DEF IdleThread, Thread, ThreadPcs, ThreadArgs
      <4>2. th \in [Threads -> [pc : ThreadPcs, server : Servers \cup {NoServer}, arg : ThreadArgs]]
        BY DEF KeyInv, ServersTypeOK
      <4> HIDE DEF s
      <4> QED BY <2>3, <4>1, <4>2
    <3>2. \A q \in Threads : \/ th'[q] = th[q]
                             \/ th'[q].pc = "idle"
                             \/ th'[q].pc = "announce" /\ th'[q].server = s
      <4>1. ASSUME NEW q \in Threads
            PROVE  th'[q] \in {th[q], IdleThread, Thread("announce", s, NoKey)}
        BY <2>3 DEF KeyInv, ServersTypeOK
      <4> QED BY <4>1 DEF Thread, IdleThread
    <3>3. ServersTypeOK'
      BY <1>1, <2>1, <3>1, <3>2 DEF KeyInv, ServersTypeOK, dbVars
    <3>4. TrustApproved'
      BY <2>1, <3>2 DEF KeyInv, TrustApproved, dbVars
    <3> QED BY <3>3, <3>4 DEF KeyInv
  <2> QED BY <1>9, <2>2, <2>3 DEF insert_job
<1>10. CASE delete_rows(t)
  <2>1. s \in Servers /\ UNCHANGED <<host, approved, todo, open>>
        /\ th' = [th EXCEPT ![t] = IdleThread]
    BY <1>1, <1>10 DEF delete_rows, Exit, KeyInv, ServersTypeOK
  <2>2. CASE open
    <3>1. UNCHANGED <<status, key>>
      BY <1>10, <2>2 DEF delete_rows
    <3> QED BY <1>1, <2>1, <3>1, ExitKeepsInv DEF Exit, dbVars
  <2>3. CASE ~open
    <3>1. status' = [status EXCEPT ![s] = NoRow] /\ key' = [key EXCEPT ![s] = NoKey]
      BY <1>10, <2>3 DEF delete_rows
    <3>2. ServersTypeOK'
      BY <1>1, <2>1, <3>1 DEF KeyInv, ServersTypeOK, Thread, IdleThread, ThreadPcs, ThreadArgs
    <3>3. TrustApproved'
      BY <1>1, <2>1, <3>1 DEF KeyInv, ServersTypeOK, TrustApproved, Thread, IdleThread
    <3> QED BY <3>2, <3>3 DEF KeyInv
  <2> QED BY <2>2, <2>3
<1> QED BY <1>3, <1>4, <1>5, <1>6, <1>7, <1>8, <1>9, <1>10 DEF RequestNext

\* The worker outside its connection.
LEMMA WorkerKeepsInv ==
  ASSUME KeyInv, WorkerNext
  PROVE  KeyInv'
<1>1. Worker \in Threads /\ todo \subseteq Servers /\ open \in BOOLEAN
  BY DEF KeyInv, ServersTypeOK, Threads
<1>2. ASSUME th[Worker].pc # "idle", NEW pc \in ThreadPcs \ {"connect", "store", "write"},
             Goto(Worker, pc, NoKey), UNCHANGED <<host, dbVars, todo>>, open' \in BOOLEAN
      PROVE  KeyInv'
  <2>1. th[Worker].server \in Servers
    BY <1>1, <1>2 DEF KeyInv, ServersTypeOK
  <2> QED BY <1>1, <1>2, <2>1, MoveKeepsInv DEF Goto, ThreadArgs
<1>3. ASSUME th[Worker].pc # "idle", NEW a \in ThreadPcs \ {"connect", "store", "write"},
             NEW b \in ThreadPcs \ {"connect", "store", "write"}, Log(a, b)
      PROVE  KeyInv'
  BY <1>1, <1>2, <1>3 DEF Log
<1>4. CASE announce
  <2>1. th[Worker].pc # "idle" /\ {"load", "failing"} \subseteq ThreadPcs \ {"connect", "store", "write"}
    BY <1>4 DEF announce, ThreadPcs
  <2>2. CASE Log("load", "failing")
    BY <1>3, <2>1, <2>2
  <2>3. CASE Goto(Worker, "failing", NoKey) /\ UNCHANGED <<host, dbVars, todo, open>>
    BY <1>1, <1>2, <2>1, <2>3
  <2> QED BY <1>4, <2>2, <2>3 DEF announce
<1>5. CASE script_line
  BY <1>3, <1>5 DEF script_line, ThreadPcs, Final
<1>6. CASE mark_failed
  BY <1>2, <1>6 DEF mark_failed, ThreadPcs
<1>7. CASE report_failure
  BY <1>3, <1>7 DEF report_failure, ThreadPcs, Final
<1>8. CASE finish_job
  BY <1>1, <1>8, ExitKeepsInv DEF finish_job
<1> QED BY <1>4, <1>5, <1>6, <1>7, <1>8 DEF WorkerNext

\* Every step.
LEMMA StepKeepsInv == KeyInv /\ [Next]_vars => KeyInv'
<1> SUFFICES ASSUME KeyInv, [Next]_vars PROVE KeyInv'
  OBVIOUS
<1>1. Monitor \in Threads /\ Worker \in Threads /\ Requests \subseteq Threads
  BY DEF Threads
<1>2. CASE UNCHANGED vars
  BY <1>2 DEF vars, dbVars, KeyInv, ServersTypeOK, TrustApproved
<1>3. CASE \E s \in Servers : host_changes(s)
  BY <1>3 DEF host_changes, dbVars, KeyInv, ServersTypeOK, TrustApproved
<1>4. CASE \E t \in Requests : RequestNext(t)
  BY <1>4, RequestKeepsInv
<1>5. CASE \E t \in Threads : ProbeNext(t)
  BY <1>5, ProbeKeepsInv
<1>6. CASE check_all_servers_health
  BY <1>6 DEF check_all_servers_health, dbVars, KeyInv, ServersTypeOK, TrustApproved
<1>7. ASSUME NEW s \in Servers, check_server_health(s) PROVE KeyInv'
  <2>1. PICK pc \in {"load", "write"}, arg \in {NoKey, "unreachable"} :
          /\ pc = "write" => arg = "unreachable"
          /\ th' = [th EXCEPT ![Monitor] = Thread(pc, s, arg)]
    BY <1>7 DEF check_server_health, Reach
  <2>2. pc \in ThreadPcs /\ arg \in ThreadArgs
    BY DEF ThreadPcs, ThreadArgs
  <2>3. todo' \subseteq Servers /\ open' \in BOOLEAN /\ UNCHANGED <<host, dbVars>>
    BY <1>7 DEF check_server_health, KeyInv, ServersTypeOK
  <2> QED BY <1>1, <2>1, <2>2, <2>3, MoveKeepsInv
<1>8. CASE WorkerNext
  BY <1>8, WorkerKeepsInv
<1>9. CASE PageNext /\ UNCHANGED <<host, dbVars, th, todo, open, used>>
  BY <1>9 DEF dbVars, KeyInv, ServersTypeOK, TrustApproved
<1>10. CASE restart
  <2>1. UNCHANGED <<host, dbVars>> /\ todo' = {} /\ open' = FALSE
        /\ th' = [t \in Threads |-> IdleThread]
    BY <1>10 DEF restart
  <2>2. th' \in [Threads -> [pc : ThreadPcs, server : Servers \cup {NoServer}, arg : ThreadArgs]]
    BY <2>1 DEF IdleThread, Thread, ThreadPcs, ThreadArgs
  <2>3. \A t \in Threads : th'[t].pc = "idle"
    BY <2>1 DEF IdleThread, Thread
  <2> QED BY <2>1, <2>2, <2>3 DEF dbVars, KeyInv, ServersTypeOK, TrustApproved
<1> QED
  BY <1>1, <1>2, <1>3, <1>4, <1>5, <1>6, <1>7, <1>8, <1>9, <1>10 DEF Next, MonitorNext

\* A key that is trusted, or that a connection is compared with, is one that an
\* approval has marked: a later capture never inherits trust (ssh_runner.py,
\* servers.py).
THEOREM TrustIsApproved == Spec => []TrustApproved
<1>1. KeyInv => TrustApproved
  BY DEF KeyInv
<1> QED BY InitKeys, StepKeepsInv, <1>1, PTL DEF Spec

-----------------------------------------------------------------------------
(* The log and its page: lines in order, and none that is kept missing.    *)

Line(i) == [seq |-> i, line |-> i]
Increasing(s, n) == \A i, k \in 1..n : i < k => s[i] < s[k]

\* What the page shows increases, so two lines are as far apart as their places
\* at least.
LEMMA Spread ==
  ASSUME NEW n \in Nat, NEW s \in [1..n -> Nat], Increasing(s, n), NEW i \in 1..n, NEW k \in i..n
  PROVE  s[k] - s[i] >= k - i
<1> DEFINE f == [j \in i..k |-> s[j]]
<1>0. PICK lo \in Nat, hi \in Nat : lo = s[i] /\ hi = s[k]
  OBVIOUS
<1>1. f \in Injection(i..k, lo..hi)
  <2>0. \A j \in i..k : j \in 1..n /\ s[j] \in Nat
    OBVIOUS
  <2>1. ASSUME NEW j \in i..k
        PROVE  s[j] \in lo..hi
    <3>1. (i = j \/ s[i] < s[j]) /\ (j = k \/ s[j] < s[k])
      BY <2>0 DEF Increasing
    <3>2. s[j] \in Nat
      BY <2>0
    <3> QED BY <1>0, <3>1, <3>2
  <2>2. ASSUME NEW a \in i..k, NEW b \in i..k, s[a] = s[b]
        PROVE  a = b
    <3>1. (a < b => s[a] < s[b]) /\ (b < a => s[b] < s[a])
      BY <2>0 DEF Increasing
    <3> QED BY <2>0, <2>2, <3>1
  <2> QED BY <2>1, <2>2 DEF Injection, IsInjective
<1>2. lo <= hi
  <2>1. i = k \/ s[i] < s[k]
    BY DEF Increasing
  <2> QED BY <1>0, <2>1
<1> HIDE DEF f
<1>3. Cardinality(i..k) <= Cardinality(lo..hi)
  <2>1. IsFiniteSet(lo..hi)
    BY FS_Interval
  <2> QED BY <1>1, <2>1, FS_Injection
<1>4. Cardinality(i..k) = k - i + 1 /\ Cardinality(lo..hi) = hi - lo + 1
  BY <1>2, FS_Interval
<1> QED BY <1>0, <1>3, <1>4

\* The rows a poll reads follow each other without a gap.
LEMMA InOrderIs ==
  ASSUME NEW a \in Nat, NEW n \in Nat, NEW rows, rows = {Line(i) : i \in (a + 1)..(a + n)}
  PROVE  InOrder(rows) = [i \in 1..n |-> a + i]
<1> DEFINE b == [i \in 1..n |-> Line(a + i)]
           Sorted(s) == \A i, k \in DOMAIN s : i < k => s[i].seq < s[k].seq
<1>1. \A i \in 1..n : b[i] = Line(a + i) /\ b[i] \in rows
  OBVIOUS
<1>2. Cardinality(rows) = n
  <2>1. b \in Injection(1..n, rows)
    BY <1>1 DEF Injection, IsInjective, Line
  <2>2. b \in Surjection(1..n, rows)
    <3>0. b \in [1..n -> rows]
      BY <1>1
    <3>1. ASSUME NEW r \in rows
          PROVE  \E i \in 1..n : b[i] = r
      <4>1. PICK j \in (a + 1)..(a + n) : r = Line(j)
        OBVIOUS
      <4>2. j - a \in 1..n /\ a + (j - a) = j
        OBVIOUS
      <4> QED BY <1>1, <4>1, <4>2
    <3> QED BY <3>0, <3>1 DEF Surjection
  <2>3. IsFiniteSet(1..n) /\ Cardinality(1..n) = n
    BY FS_Interval
  <2>4. ExistsBijection(1..n, rows)
    BY <2>1, <2>2 DEF ExistsBijection, Bijection
  <2> QED BY <2>3, <2>4, FS_Bijection
<1>3. PICK s \in [1..n -> rows] : Sorted(s) /\ InOrder(rows) = [i \in DOMAIN s |-> s[i].line]
  <2>1. b \in [1..n -> rows] /\ Sorted(b)
    <3>1. b \in [1..n -> rows] /\ DOMAIN b = 1..n
      BY <1>1
    <3>2. \A i \in 1..n : b[i].seq = a + i
      BY <1>1 DEF Line
    <3> HIDE DEF b
    <3> QED BY <3>1, <3>2
  <2>2. PICK s : s = CHOOSE t \in [1..n -> rows] : Sorted(t)
    OBVIOUS
  <2>3. s \in [1..n -> rows] /\ Sorted(s)
    <3> HIDE DEF b, Sorted
    <3> QED BY <2>1, <2>2
  <2>4. InOrder(rows) = [i \in DOMAIN s |-> s[i].line]
    <3>1. s = CHOOSE t \in [1..Cardinality(rows) -> rows] : Sorted(t)
      BY <1>2, <2>2
    <3> QED BY <3>1 DEF InOrder
  <2> QED BY <2>3, <2>4
<1>4. \A i \in 1..n : s[i].seq \in (a + 1)..(a + n) /\ s[i].line = s[i].seq
  BY DEF Line
<1>5. ASSUME NEW i \in 1..n
      PROVE  s[i].line = a + i
  <2>0. PICK q \in [1..n -> Nat] : q = [j \in 1..n |-> s[j].seq]
    <3> DEFINE f == [j \in 1..n |-> s[j].seq]
    <3>1. \A j \in 1..n : s[j].seq \in Nat
      BY <1>4
    <3>2. f \in [1..n -> Nat]
      BY <3>1
    <3> QED BY <3>2
  <2>1. Increasing(q, n)
    <3>1. \A j, k \in 1..n : j < k => s[j].seq < s[k].seq
      BY <1>3
    <3> QED BY <2>0, <3>1 DEF Increasing
  <2>2. q[i] - q[1] >= i - 1 /\ q[n] - q[i] >= n - i
    <3>1. 1 \in 1..n /\ i \in 1..n /\ n \in i..n
      OBVIOUS
    <3> QED BY <2>1, <3>1, Spread
  <2>3. q[1] >= a + 1 /\ q[n] <= a + n
    BY <1>4, <2>0
  <2>4. q[i] = a + i
    <3>1. PICK x \in Nat, y \in Nat, z \in Nat : x = q[1] /\ y = q[i] /\ z = q[n]
      OBVIOUS
    <3>2. y - x >= i - 1 /\ z - y >= n - i /\ x >= a + 1 /\ z <= a + n
      BY <2>2, <2>3, <3>1
    <3>3. y = a + i
      BY <3>2
    <3> QED BY <3>1, <3>3
  <2> QED BY <1>4, <2>0, <2>4
<1> QED BY <1>3, <1>5

\* The newest lines of a longer text: the ones that are still kept are in it.
LEMMA NewestKeeps ==
  ASSUME NEW w \in Nat, NEW s \in Seq(1..w), Increasing(s, Len(s)),
         \A l \in 1..w : l > w - MaxJobLogEntries => \E i \in 1..Len(s) : s[i] = l
  PROVE  \E r \in Seq(1..w) :
           /\ r = Newest(s, MaxJobLogEntries) /\ Increasing(r, Len(r))
           /\ \A l \in 1..w : l > w - MaxJobLogEntries => \E i \in 1..Len(r) : r[i] = l
<1>0. PICK n \in Nat, m \in Nat \ {0} : n = Len(s) /\ m = MaxJobLogEntries
  BY LogAssumption
<1>1. CASE n <= m
  <2>1. Newest(s, MaxJobLogEntries) = s
    BY <1>0, <1>1 DEF Newest
  <2> QED BY <2>1
<1>2. CASE n > m
  <2>1. PICK r : r = SubSeq(s, n - m + 1, n) /\ r = Newest(s, MaxJobLogEntries)
    BY <1>0, <1>2 DEF Newest
  <2>2. r \in Seq(1..w) /\ Len(r) = m /\ \A i \in 1..m : r[i] = s[n - m + i]
    <3>1. \A i \in (n - m + 1)..n : s[i] \in 1..w
      BY <1>0, <1>2, ElementOfSeq
    <3>2. /\ SubSeq(s, n - m + 1, n) \in Seq(1..w)
          /\ Len(SubSeq(s, n - m + 1, n)) = IF n - m + 1 <= n THEN n - (n - m + 1) + 1 ELSE 0
          /\ \A i \in 1..(n - (n - m + 1) + 1) : SubSeq(s, n - m + 1, n)[i] = s[n - m + 1 + i - 1]
      BY <3>1, SubSeqProperties
    <3>3. n - (n - m + 1) + 1 = m /\ \A i \in 1..m : n - m + 1 + i - 1 = n - m + i
      BY <1>0
    <3> QED BY <1>2, <2>1, <3>2, <3>3
  <2>3. Increasing(r, m)
    <3>1. ASSUME NEW i \in 1..m, NEW k \in 1..m, i < k
          PROVE  r[i] < r[k]
      <4>1. n - m + i \in 1..n /\ n - m + k \in 1..n /\ n - m + i < n - m + k
        BY <1>2, <3>1
      <4> QED BY <1>0, <2>2, <4>1 DEF Increasing
    <3> QED BY <3>1 DEF Increasing
  <2>4. ASSUME NEW l \in 1..w, l > w - m
        PROVE  \E i \in 1..m : r[i] = l
    <3>1. PICK p \in 1..n : s[p] = l
      BY <1>0, <2>4
    <3>2. s \in [1..n -> Nat] /\ s[n] \in 1..w
      BY <1>0, <1>2, LenProperties
    <3>3. s[n] - s[p] >= n - p
      <4>1. n \in p..n
        BY <1>2
      <4> QED BY <1>0, <3>2, <4>1, Spread
    <3>4. p - (n - m) \in 1..m
      <4>1. PICK last \in 1..w : last = s[n]
        BY <3>2
      <4>2. last - l >= n - p
        BY <3>1, <3>3, <4>1
      <4> QED BY <1>0, <1>2, <2>4, <4>2
    <3>5. r[p - (n - m)] = l
      <4>1. n - m + (p - (n - m)) = p
        BY <1>2
      <4> QED BY <2>2, <3>1, <3>4, <4>1
    <3> QED BY <3>4, <3>5
  <2>5. Increasing(r, Len(r))
    BY <2>2, <2>3
  <2>6. \A l \in 1..w : l > w - MaxJobLogEntries => \E i \in 1..Len(r) : r[i] = l
    BY <1>0, <2>2, <2>4
  <2> QED BY <2>1, <2>2, <2>5, <2>6
<1> QED BY <1>0, <1>1, <1>2

\* What holds of the log and the page: the log holds the newest lines, each at
\* its place; the page shows, in order, lines it has asked for and among them
\* every one that is still kept; a page that is done, or has read a final status,
\* has a job that is final; and only a running job has a worker.
LogInv ==
  /\ job \in {NoStatus, "running"} \cup Final /\ written \in Nat
  /\ logs = {Line(i) : i \in {k \in 1..written : k > written - MaxJobLogEntries}}
  /\ page \in [after : 0..written, shown : Seq(1..written),
               read : {NoStatus, "running"} \cup Final, done : BOOLEAN]
  /\ Increasing(page.shown, Len(page.shown))
  /\ \A i \in 1..Len(page.shown) : page.shown[i] <= page.after
  /\ \A l \in 1..page.after : l > written - MaxJobLogEntries =>
       \E i \in 1..Len(page.shown) : page.shown[i] = l
  /\ page.read \in Final => job \in Final
  /\ page.done => job \in Final /\ page.after = written
  /\ th[Worker].pc # "idle" => job = "running"

\* A line is appended while the job runs; the job may end with it.
LEMMA AppendKeepsInv ==
  ASSUME LogInv, job = "running", append_job_log, job' \in {"running"} \cup Final,
         page' \in {page, [page EXCEPT !.read = NoStatus]},
         th'[Worker].pc # "idle" => job' = "running"
  PROVE  LogInv'
<1>0. PICK w \in Nat, m \in Nat \ {0} : w = written /\ m = MaxJobLogEntries
  BY LogAssumption DEF LogInv
<1>1. NextSeq = w + 1
  <2> DEFINE S == {0} \cup {e.seq : e \in logs}
  <2>1. S \subseteq 0..w /\ w \in S
    <3>1. \A e \in logs : e.seq \in 1..w
      BY <1>0 DEF LogInv, Line
    <3>2. w = 0 \/ \E e \in logs : e.seq = w
      <4>1. logs = {Line(i) : i \in {k \in 1..w : k > w - m}}
        BY <1>0 DEF LogInv
      <4>2. CASE w # 0
        <5>1. w \in {k \in 1..w : k > w - m}
          BY <4>2
        <5>2. Line(w) \in logs
          BY <4>1, <5>1
        <5> QED BY <5>2 DEF Line
      <4> QED BY <4>2
    <3> QED BY <3>1, <3>2
  <2>2. Max(S) = w
    <3> HIDE DEF S
    <3> QED BY <2>1 DEF Max
  <2> QED BY <2>2 DEF NextSeq
<1>2. written' = w + 1
  BY <1>0 DEF append_job_log
<1>3. logs' = {Line(i) : i \in {k \in 1..(w + 1) : k > w + 1 - m}}
  <2>1. logs' = {e \in logs \cup {Line(w + 1)} : e.seq > w + 1 - m}
    BY <1>0, <1>1 DEF append_job_log, Line
  <2>2. logs = {Line(i) : i \in {k \in 1..w : k > w - m}}
    BY <1>0 DEF LogInv
  <2>3. \A i \in Nat : Line(i).seq = i
    BY DEF Line
  <2>4. ASSUME NEW e
        PROVE  e \in logs' <=> e \in {Line(i) : i \in {k \in 1..(w + 1) : k > w + 1 - m}}
    <3>1. ASSUME e \in logs'
          PROVE  \E i \in 1..(w + 1) : i > w + 1 - m /\ e = Line(i)
      <4>1. e.seq > w + 1 - m /\ (e = Line(w + 1) \/ \E i \in 1..w : e = Line(i))
        BY <2>1, <2>2, <3>1
      <4>2. PICK i \in 1..(w + 1) : e = Line(i)
        BY <4>1
      <4> QED BY <2>3, <4>1, <4>2
    <3>2. ASSUME NEW i \in 1..(w + 1), i > w + 1 - m, e = Line(i)
          PROVE  e \in logs'
      <4>1. CASE i = w + 1
        BY <2>1, <2>3, <3>2, <4>1
      <4>2. CASE i # w + 1
        <5>1. i \in {k \in 1..w : k > w - m}
          BY <3>2, <4>2
        <5> QED BY <2>1, <2>2, <2>3, <3>2, <5>1
      <4> QED BY <4>1, <4>2
    <3> QED BY <3>1, <3>2
  <2> HIDE DEF Line
  <2> QED BY <2>4
<1>4. /\ page'.after = page.after /\ page'.shown = page.shown /\ page'.done = page.done
      /\ page'.read \in {page.read, NoStatus}
      /\ page' \in [after : 0..(w + 1), shown : Seq(1..(w + 1)),
                    read : {NoStatus, "running"} \cup Final, done : BOOLEAN]
  <2>1. /\ page.after \in 0..(w + 1) /\ page.read \in {NoStatus, "running"} \cup Final
        /\ page.done \in BOOLEAN /\ page.shown \in Seq(1..w)
    BY <1>0 DEF LogInv
  <2>2. page.shown \in Seq(1..(w + 1))
    <3>1. 1..w \subseteq 1..(w + 1)
      OBVIOUS
    <3> QED BY <2>1, <3>1, SeqMonotonic
  <2> QED BY <2>1, <2>2 DEF LogInv
<1>5. ~page.done /\ page.read \notin Final
  BY DEF LogInv, Final
<1>6. \A l \in 1..page.after : l > w + 1 - m => \E i \in 1..Len(page.shown) : page.shown[i] = l
  BY <1>0 DEF LogInv
<1>7. page'.read \notin Final
  BY <1>4, <1>5, LogAssumption DEF Final
<1> QED BY <1>0, <1>2, <1>3, <1>4, <1>5, <1>6, <1>7 DEF LogInv

\* A poll.
LEMMA PollKeepsInv ==
  ASSUME LogInv, get_job_logs, th' = th
  PROVE  LogInv'
<1>0. PICK w \in Nat, m \in Nat \ {0}, old \in Nat :
        w = written /\ m = MaxJobLogEntries /\ old = page.after /\ old <= w
  <2>1. written \in Nat /\ page.after \in 0..written
    BY DEF LogInv
  <2>2. MaxJobLogEntries \in Nat \ {0}
    BY LogAssumption
  <2>3. page.after \in Nat /\ page.after <= written
    BY <2>1
  <2> QED BY <2>1, <2>2, <2>3
<1>1. PICK a \in Nat, d \in Nat : /\ a + d = w /\ old <= a /\ (a = old \/ a = w - m)
                              /\ \A l \in 1..w : l > old /\ l > w - m <=> l > a
  <2>1. CASE old >= w - m
    <3>1. w - old \in Nat /\ old + (w - old) = w
      BY <1>0
    <3>2. \A l \in 1..w : l > old /\ l > w - m <=> l > old
      BY <2>1
    <3> QED BY <3>1, <3>2
  <2>2. CASE old < w - m
    <3>1. w - m \in Nat /\ (w - m) + m = w /\ old <= w - m
      BY <2>2
    <3>2. \A l \in 1..w : l > old /\ l > w - m <=> l > w - m
      BY <2>2
    <3> QED BY <3>1, <3>2
  <2> QED BY <2>1, <2>2
<1>2. PICK rows : rows = {e \in logs : e.seq > page.after}
  OBVIOUS
<1>3. rows = {Line(i) : i \in (a + 1)..(a + d)}
  <2>1. logs = {Line(i) : i \in {k \in 1..w : k > w - m}}
    BY <1>0 DEF LogInv
  <2>2. \A i \in Nat : Line(i).seq = i
    BY DEF Line
  <2>3. ASSUME NEW i \in Nat
        PROVE  i \in (a + 1)..(a + d) <=> i \in 1..w /\ i > w - m /\ i > old
    BY <1>1
  <2>4. ASSUME NEW e
        PROVE  e \in rows <=> e \in {Line(i) : i \in (a + 1)..(a + d)}
    <3>1. e \in rows <=> \E i \in {k \in 1..w : k > w - m} : e = Line(i) /\ e.seq > old
      BY <1>0, <1>2, <2>1
    <3>2. e \in rows <=> \E i \in Nat : i \in 1..w /\ i > w - m /\ i > old /\ e = Line(i)
      BY <2>2, <3>1
    <3> QED BY <2>3, <3>2
  <2> HIDE DEF Line
  <2> QED BY <2>4
<1>4. InOrder(rows) = [i \in 1..d |-> a + i]
  BY <1>3, InOrderIs
<1>5. page'.after = w
  <2> DEFINE S == {page.after} \cup {e.seq : e \in rows}
  <2>1. page'.after = Max(S)
    BY <1>2 DEF get_job_logs
  <2>2. \A e \in rows : e.seq \in 1..w
    BY <1>1, <1>3 DEF Line
  <2>3. w \in S
    <3>1. CASE a = w
      <4>1. old = w
        BY <1>1, <3>1
      <4> QED BY <1>0, <4>1
    <3>2. CASE a # w
      <4>1. w \in (a + 1)..(a + d)
        BY <1>1, <3>2
      <4>2. Line(w) \in rows /\ Line(w).seq = w
        BY <1>3, <4>1 DEF Line
      <4> QED BY <4>2
    <3> QED BY <3>1, <3>2
  <2>4. S \subseteq 0..w
    BY <1>0, <2>2
  <2>5. \A y \in S : w >= y
    BY <2>4
  <2> HIDE DEF S
  <2>6. PICK x : x = Max(S)
    OBVIOUS
  <2>7. x \in S /\ \A y \in S : x >= y
    BY <2>3, <2>5, <2>6 DEF Max
  <2>8. x = w
    BY <2>3, <2>4, <2>5, <2>7
  <2> QED BY <2>1, <2>6, <2>8
<1>6. PICK before \in Seq(1..w), more \in Seq(1..w) :
        /\ before = page.shown /\ more = InOrder(rows)
        /\ Len(more) = d /\ \A i \in 1..d : more[i] = a + i
  <2>1. page.shown \in Seq(1..w)
    BY <1>0 DEF LogInv
  <2>2. PICK f : f = InOrder(rows)
    OBVIOUS
  <2>3. f = [i \in 1..d |-> a + i]
    BY <1>4, <2>2
  <2>4. \A i \in 1..d : a + i \in 1..w
    BY <1>1
  <2>5. f \in Seq(1..w) /\ Len(f) = d /\ \A i \in 1..d : f[i] = a + i
    BY <2>3, <2>4
  <2> QED BY <2>1, <2>2, <2>5
<1>7. PICK n \in Nat, s \in Seq(1..w) :
        /\ n = Len(before) /\ s = before \o more /\ Len(s) = n + d
        /\ \A i \in 1..(n + d) : s[i] = IF i <= n THEN before[i] ELSE more[i - n]
  <2>1. /\ before \o more \in Seq(1..w)
        /\ Len(before \o more) = Len(before) + Len(more)
        /\ \A i \in 1..(Len(before) + Len(more)) :
             (before \o more)[i] = IF i <= Len(before) THEN before[i] ELSE more[i - Len(before)]
    BY ConcatProperties
  <2>2. Len(before) \in Nat
    BY LenProperties
  <2> QED BY <1>6, <2>1, <2>2
<1>8. \A i \in 1..n : s[i] = before[i] /\ before[i] \in 1..w /\ before[i] <= a
  <2>1. \A i \in 1..n : before[i] <= old /\ before[i] \in 1..w
    BY <1>0, <1>6, <1>7, ElementOfSeq DEF LogInv
  <2>2. \A i \in 1..n : i \in 1..(n + d) /\ i <= n
    OBVIOUS
  <2> QED BY <1>1, <1>7, <2>1, <2>2
<1>9. ASSUME NEW i \in (n + 1)..(n + d)
      PROVE  s[i] = a + (i - n)
  <2>1. i - n \in 1..d /\ i \in 1..(n + d) /\ ~(i <= n)
    OBVIOUS
  <2> QED BY <1>6, <1>7, <2>1
<1>10. Increasing(s, Len(s))
  <2>1. ASSUME NEW i \in 1..(n + d), NEW k \in 1..(n + d), i < k
        PROVE  s[i] < s[k]
    <3>1. CASE k <= n
      <4>1. i \in 1..n /\ k \in 1..n
        BY <2>1, <3>1
      <4>2. before[i] < before[k]
        BY <1>6, <1>7, <2>1, <4>1 DEF LogInv, Increasing
      <4> QED BY <1>8, <4>1, <4>2
    <3>2. CASE i <= n /\ k > n
      <4>1. i \in 1..n /\ k \in (n + 1)..(n + d)
        BY <3>2
      <4>2. PICK x \in 1..w : x = s[i] /\ x <= a
        BY <1>8, <4>1
      <4>3. s[k] = a + (k - n)
        BY <1>9, <4>1
      <4>4. x < a + (k - n)
        BY <4>1, <4>2
      <4> QED BY <4>2, <4>3, <4>4
    <3>3. CASE i > n
      <4>1. i \in (n + 1)..(n + d) /\ k \in (n + 1)..(n + d)
        BY <2>1, <3>3
      <4>2. s[i] = a + (i - n) /\ s[k] = a + (k - n)
        BY <1>9, <4>1
      <4>3. a + (i - n) < a + (k - n)
        BY <2>1
      <4> QED BY <4>2, <4>3
    <3> QED BY <3>1, <3>2, <3>3
  <2> QED BY <1>7, <2>1 DEF Increasing
<1>11. \A l \in 1..w : l > w - MaxJobLogEntries => \E i \in 1..Len(s) : s[i] = l
  <2>1. ASSUME NEW l \in 1..w, l > w - m
        PROVE  \E i \in 1..(n + d) : s[i] = l
    <3>1. CASE l <= old
      <4>1. PICK i \in 1..n : before[i] = l
        <5>1. l \in 1..old
          BY <3>1
        <5> QED BY <1>0, <1>6, <1>7, <2>1, <5>1 DEF LogInv
      <4>2. i \in 1..(n + d)
        OBVIOUS
      <4> QED BY <1>8, <4>1, <4>2
    <3>2. CASE l > old
      <4>1. PICK i \in (n + 1)..(n + d) : i = n + (l - a)
        <5>1. l > a
          BY <1>1, <2>1, <3>2
        <5>2. n + (l - a) \in (n + 1)..(n + d)
          BY <1>1, <5>1
        <5> QED BY <5>2
      <4>2. s[i] = a + (i - n) /\ a + (i - n) = l /\ i \in 1..(n + d)
        BY <1>9, <4>1
      <4> QED BY <4>2
    <3> QED BY <3>1, <3>2
  <2> QED BY <1>0, <1>7, <2>1
<1>12. PICK t \in Seq(1..w) :
         /\ t = Newest(s, MaxJobLogEntries) /\ Increasing(t, Len(t))
         /\ \A l \in 1..w : l > w - MaxJobLogEntries => \E i \in 1..Len(t) : t[i] = l
  BY <1>10, <1>11, NewestKeeps
<1>13. t = page'.shown
  BY <1>2, <1>6, <1>7, <1>12 DEF get_job_logs
<1>14. \A i \in 1..Len(t) : t[i] <= w
  BY <1>12, ElementOfSeq
<1>15. /\ page'.read = NoStatus /\ page'.done = (page.read \in Final)
       /\ page' \in [after : 0..w, shown : Seq(1..w),
                     read : {NoStatus, "running"} \cup Final, done : BOOLEAN]
  BY <1>5, <1>12, <1>13 DEF get_job_logs
<1>16. UNCHANGED <<job, logs, written>>
  BY DEF get_job_logs
<1>17. page.read \in Final => job \in Final
  BY DEF LogInv
<1>18. NoStatus \notin Final
  BY LogAssumption DEF Final
<1> QED BY <1>0, <1>5, <1>12, <1>13, <1>14, <1>15, <1>16, <1>17, <1>18 DEF LogInv

\* The first of the two reads; a poll that fails or is cut off.
LEMMA ReadKeepsInv ==
  ASSUME LogInv, UNCHANGED <<job, logs, written>>,
         page' = [page EXCEPT !.read = job] \/ page' = [page EXCEPT !.read = NoStatus],
         th'[Worker].pc # "idle" => job = "running"
  PROVE  LogInv'
<1>1. /\ page'.after = page.after /\ page'.shown = page.shown /\ page'.done = page.done
      /\ page'.read \in {job, NoStatus}
      /\ page' \in [after : 0..written, shown : Seq(1..written),
                    read : {NoStatus, "running"} \cup Final, done : BOOLEAN]
  BY DEF LogInv
<1>2. page'.read \in Final => job \in Final
  BY <1>1, LogAssumption DEF Final
<1> QED BY <1>1, <1>2 DEF LogInv

\* A step that leaves the log and the page alone, and starts no worker.
LEMMA ElseKeepsInv ==
  ASSUME LogInv, UNCHANGED <<logs, written, page>>,
         job' \in {NoStatus, "running"} \cup Final, job \in Final => job' = job,
         th'[Worker].pc # "idle" => job' = "running"
  PROVE  LogInv'
BY DEF LogInv

\* Every step, with the threads' types.
LEMMA StepKeepsLog == ServersTypeOK /\ LogInv /\ [Next]_vars => LogInv'
<1> SUFFICES ASSUME ServersTypeOK, LogInv, [Next]_vars PROVE LogInv'
  OBVIOUS
<1>0. /\ Worker \in Threads /\ Worker \notin Requests /\ Worker # Monitor
      /\ DOMAIN th = Threads /\ job \in {NoStatus, "running"} \cup Final
      /\ (th[Worker].pc # "idle" => job = "running") /\ "running" \notin Final
  BY KeyAssumption DEF Threads, ServersTypeOK, LogInv, Final
<1>1. ASSUME UNCHANGED logVars, th'[Worker] = th[Worker] \/ th[Worker].pc # "idle"
      PROVE  LogInv'
  BY <1>0, <1>1, ElseKeepsInv DEF logVars
<1>2. CASE UNCHANGED vars
  BY <1>1, <1>2 DEF vars
<1>3. CASE \E s \in Servers : host_changes(s)
  BY <1>1, <1>3 DEF host_changes
<1>4. ASSUME NEW t \in Threads, ProbeNext(t)
      PROVE  LogInv'
  <2>1. UNCHANGED logVars /\ th[t].pc # "idle"
    BY <1>4 DEF ProbeNext, load_host_key, connect, store_host_key, write_health, write_fails
  <2>2. \E r : th' = [th EXCEPT ![t] = r]
    BY <1>4 DEF ProbeNext, load_host_key, connect, store_host_key, write_health, write_fails,
                Refused, Accepted, Goto, Exit
  <2> QED BY <1>0, <1>1, <2>1, <2>2
<1>5. ASSUME NEW t \in Requests, RequestNext(t)
      PROVE  LogInv'
  <2>1. t \in Threads /\ t # Worker
    BY <1>0 DEF Threads
  <2>2. CASE \E s \in Servers : \E pc, arg : Begin(t, s, pc, arg)
    BY <1>0, <1>1, <2>1, <2>2 DEF Begin
  <2>3. CASE write_approval(t) \/ delete_key(t) \/ reset_status(t) \/ delete_rows(t) \/ read_trusted(t)
    <3>1. UNCHANGED logVars
      BY <2>3 DEF write_approval, delete_key, reset_status, delete_rows, read_trusted
    <3>2. \E r : th' = [th EXCEPT ![t] = r]
      BY <2>3 DEF write_approval, delete_key, reset_status, delete_rows, read_trusted, Goto, Exit
    <3> QED BY <1>0, <1>1, <2>1, <3>1, <3>2
  <2>4. CASE insert_job(t)
    <3>1. UNCHANGED <<logs, written, page>>
      BY <2>4 DEF insert_job
    <3>2. CASE job' = job /\ Exit(t)
      BY <1>0, <2>1, <3>1, <3>2, ElseKeepsInv DEF Exit
    <3>3. CASE job = NoStatus /\ job' = "running"
      BY <3>1, <3>3, LogAssumption, ElseKeepsInv DEF Final
    <3> QED BY <2>4, <3>2, <3>3 DEF insert_job
  <2> QED BY <1>5, <2>2, <2>3, <2>4 DEF RequestNext, test_server, approve_server_host_key,
                                        reset_server_host_key, delete_server, start_deployment
<1>6. CASE check_all_servers_health \/ \E s \in Servers : check_server_health(s)
  <2>1. UNCHANGED logVars
    BY <1>6 DEF check_all_servers_health, check_server_health
  <2>2. th' = th \/ \E r : th' = [th EXCEPT ![Monitor] = r]
    BY <1>6 DEF check_all_servers_health, check_server_health
  <2> QED BY <1>0, <1>1, <2>1, <2>2
<1>7. CASE WorkerNext
  <2>0. th[Worker].pc # "idle"
    BY <1>7 DEF WorkerNext, announce, script_line, mark_failed, report_failure, finish_job, Final
  <2>1. ASSUME NEW a, NEW b, Log(a, b)
        PROVE  LogInv'
    <3>1. CASE open
      BY <1>1, <2>0, <2>1, <3>1 DEF Log, logVars
    <3>2. CASE ~open
      BY <1>0, <2>0, <2>1, <3>2, AppendKeepsInv DEF Log
    <3> QED BY <3>1, <3>2
  <2>2. CASE announce \/ script_line \/ report_failure
    BY <1>1, <2>0, <2>1, <2>2 DEF announce, script_line, report_failure
  <2>3. CASE mark_failed
    BY <1>1, <2>0, <2>3 DEF mark_failed
  <2>4. CASE finish_job
    <3>1. UNCHANGED <<logs, written, page>> /\ job' \in Final
      BY <2>4 DEF finish_job
    <3>2. th'[Worker].pc = "idle"
      BY <1>0, <2>4 DEF finish_job, Exit, IdleThread, Thread
    <3>3. job \notin Final
      BY <1>0, <2>0
    <3> QED BY <3>1, <3>2, <3>3, ElseKeepsInv
  <2> QED BY <1>7, <2>2, <2>3, <2>4 DEF WorkerNext
<1>8. CASE PageNext /\ UNCHANGED <<host, dbVars, th, todo, open, used>>
  <2>1. CASE get_job_logs
    BY <1>8, <2>1, PollKeepsInv
  <2>2. CASE get_job_row \/ poll_fails
    BY <1>0, <1>8, <2>2, ReadKeepsInv DEF get_job_row, poll_fails
  <2> QED BY <1>8, <2>1, <2>2 DEF PageNext
<1>9. CASE restart
  <2>1. th'[Worker].pc = "idle" /\ page' = [page EXCEPT !.read = NoStatus]
    BY <1>0, <1>9 DEF restart, IdleThread, Thread
  <2>2. CASE job = "running"
    <3>1. job' = "failed" /\ append_job_log
      BY <1>9, <2>2 DEF restart
    <3> QED BY <2>1, <2>2, <3>1, AppendKeepsInv DEF Final
  <2>3. CASE job # "running"
    <3>1. UNCHANGED <<job, logs, written>>
      BY <1>9, <2>3 DEF restart
    <3> QED BY <2>1, <3>1, ReadKeepsInv
  <2> QED BY <2>2, <2>3
<1> QED
  <2>1. Requests \subseteq Threads /\ Monitor \in Threads
    BY DEF Threads
  <2> QED BY <1>0, <1>2, <1>3, <1>4, <1>5, <1>6, <1>7, <1>8, <1>9, <2>1 DEF Next, MonitorNext

LEMMA InitLogInv == Init => LogInv
<1> SUFFICES ASSUME Init PROVE LogInv
  OBVIOUS
<1>1. page = [after |-> 0, shown |-> <<>>, read |-> NoStatus, done |-> FALSE]
      /\ job = NoStatus /\ logs = {} /\ written = 0
  BY DEF Init, InitLog
<1>2. th[Worker].pc = "idle"
  BY DEF Init, Threads, IdleThread, Thread
<1>3. page.shown \in Seq(1..0) /\ Len(page.shown) = 0
  BY <1>1, EmptySeq
<1>4. page \in [after : 0..written, shown : Seq(1..written),
               read : {NoStatus, "running"} \cup Final, done : BOOLEAN]
  BY <1>1, <1>3
<1>5. logs = {Line(i) : i \in {k \in 1..written : k > written - MaxJobLogEntries}}
  BY <1>1
<1>6. NoStatus \notin Final
  BY LogAssumption DEF Final
<1> QED BY <1>1, <1>2, <1>3, <1>4, <1>5, <1>6 DEF LogInv, Increasing

\* The page of a job's log shows no line twice or out of order, and when it has
\* seen the job's end it shows every line that is kept (services/base.py,
\* static/app.js).
THEOREM LogIsFollowed == Spec => []LogFollowed
<1>1. LogInv => LogFollowed
  <2> SUFFICES ASSUME LogInv PROVE LogFollowed
    OBVIOUS
  <2>1. DOMAIN page.shown = 1..Len(page.shown)
    BY LenProperties DEF LogInv
  <2>2. ASSUME page.done, NEW e \in logs
        PROVE  \E i \in DOMAIN page.shown : page.shown[i] = e.line
    <3>1. PICK l \in 1..written : l > written - MaxJobLogEntries /\ e = Line(l)
      BY <2>2 DEF LogInv
    <3>2. page.after = written /\ e.line = l
      BY <2>2, <3>1 DEF LogInv, Line
    <3> QED BY <2>1, <3>1, <3>2 DEF LogInv
  <2> QED BY <2>1, <2>2 DEF LogInv, LogFollowed, Increasing
<1>2. KeyInv => ServersTypeOK
  BY DEF KeyInv
<1> QED BY InitKeys, StepKeepsInv, InitLogInv, StepKeepsLog, <1>1, <1>2, PTL DEF Spec

\* No key outlives its server.
KeysHaveServers == \A s \in Servers : Row(s) \/ key[s] = NoKey

\* Every reachable state is well typed, and a key that is stored has a server
\* (services/servers.py, ssh_runner.py).
THEOREM TypeCorrect == Spec => []TypeOK
<1>1. Init => KeysHaveServers
  BY DEF Init, KeysHaveServers
<1>2. ASSUME KeyInv, KeysHaveServers, [Next]_vars
      PROVE  KeysHaveServers'
  <2> DEFINE Texts == {"new", "reachable", "auth_failed", "unreachable"}
  <2>0. NoRow \notin Texts /\ ServersTypeOK
    BY <1>2, KeyAssumption DEF KeyInv
  <2>1. CASE UNCHANGED <<status, key>>
    BY <1>2, <2>1 DEF KeysHaveServers, Row
  <2>2. ASSUME NEW t \in Threads, write_health(t) \/ reset_status(t) \/ delete_key(t)
                                    \/ store_host_key(t) \/ write_approval(t)
        PROVE  KeysHaveServers'
    BY <1>2, <2>0, <2>2 DEF write_health, reset_status, delete_key, store_host_key, write_approval,
                            KeysHaveServers, Row, ServersTypeOK
  <2>3. ASSUME NEW t \in Threads, delete_rows(t)
        PROVE  KeysHaveServers'
    <3>1. CASE open
      BY <2>1, <2>3, <3>1 DEF delete_rows
    <3>2. CASE ~open
      BY <1>2, <2>0, <2>3, <3>2 DEF delete_rows, KeysHaveServers, Row, ServersTypeOK
    <3> QED BY <3>1, <3>2
  <2>4. ASSUME NEW t \in Requests, RequestNext(t)
        PROVE  KeysHaveServers'
    <3>1. CASE \E s \in Servers : \E pc, arg : Begin(t, s, pc, arg)
      BY <2>1, <3>1 DEF Begin, dbVars
    <3>2. CASE read_trusted(t) \/ insert_job(t)
      BY <2>1, <3>2 DEF read_trusted, insert_job, dbVars
    <3>3. t \in Threads
      BY DEF Threads
    <3> QED BY <2>2, <2>3, <2>4, <3>1, <3>2, <3>3 DEF RequestNext, test_server, approve_server_host_key,
                                                 reset_server_host_key, delete_server, start_deployment
  <2>5. ASSUME NEW t \in Threads, ProbeNext(t)
        PROVE  KeysHaveServers'
    <3>1. CASE load_host_key(t) \/ connect(t) \/ write_fails(t)
      BY <2>1, <3>1 DEF load_host_key, connect, write_fails, dbVars
    <3> QED BY <2>2, <2>5, <3>1 DEF ProbeNext
  <2>6. CASE \/ \E s \in Servers : host_changes(s) \/ check_server_health(s)
             \/ check_all_servers_health \/ WorkerNext \/ restart
             \/ UNCHANGED <<host, dbVars, th, todo, open, used>> \/ UNCHANGED vars
    <3>1. WorkerNext => UNCHANGED dbVars
      BY DEF WorkerNext, announce, script_line, mark_failed, report_failure, finish_job, Log, dbVars
    <3> QED BY <2>1, <2>6, <3>1 DEF host_changes, check_server_health, check_all_servers_health,
                                    restart, vars, dbVars
  <2>7. Monitor \in Threads /\ Worker \in Threads
    BY DEF Threads
  <2>8. CASE UNCHANGED vars
    BY <2>6, <2>8
  <2>9. CASE Next
    <3>1. Next => \/ \E s \in Servers : host_changes(s) \/ check_server_health(s)
                  \/ \E t \in Requests : RequestNext(t)
                  \/ \E t \in Threads : ProbeNext(t)
                  \/ check_all_servers_health \/ WorkerNext \/ restart
                  \/ UNCHANGED <<host, dbVars, th, todo, open, used>>
      BY <2>7 DEF Next, MonitorNext, Threads
    <3> QED BY <2>4, <2>5, <2>6, <2>9, <3>1
  <2> QED BY <1>2, <2>8, <2>9
<1>3. KeyInv /\ KeysHaveServers /\ LogInv => TypeOK
  <2> SUFFICES ASSUME KeyInv, KeysHaveServers, LogInv PROVE TypeOK
    OBVIOUS
  <2>1. logs \subseteq [seq : 1..written, line : 1..written]
    BY DEF LogInv, Line
  <2>2. LogTypeOK
    BY <2>1 DEF LogInv, LogTypeOK
  <2> QED BY <2>2 DEF KeyInv, KeysHaveServers, TypeOK
<1>4. KeyInv => ServersTypeOK
  BY DEF KeyInv
<1> QED BY InitKeys, StepKeepsInv, InitLogInv, StepKeepsLog, <1>1, <1>2, <1>3, <1>4, PTL DEF Spec
=============================================================================
