-------------------------- MODULE ConfigSync_proofs -------------------------
(***************************************************************************)
(* Theorems about ConfigSync, for any users, names, expiry days and number *)
(* of request threads.                                                     *)
(***************************************************************************)
EXTENDS ConfigSync, TLAPS

\* A thread on its way to a new user's row, and one that will write a row.
Creating(r) == r.pc \in {"render_new", "push_new", "insert"}
Writing(r) == Creating(r) \/ r.pc = "write"

\* What a thread carries at each step.
Carries(t, r) ==
    /\ r.pc \in {"push", "push_new", "record", "i_run", "i_ready"} => r.cfg # NoConfig
    /\ Writing(r) => r.user \in Users /\ r.new \in Rows
    /\ Creating(r) => t \in Requests
    /\ r.pc \in {"i_render", "i_run", "i_ready"} => t = Installer
    /\ r.pc = "i_render" => r.cfg = NoConfig

RowsOK ==
    /\ row \in [Users -> {NoRow} \cup Rows]
    /\ status \in {"provisioning", "ready", "failed"}
    /\ hash \in {NoConfig} \cup Configs /\ remote \in {NoConfig} \cup Configs
ThreadsOK == th \in [Threads -> ThreadRecords] /\ \A t \in Threads : Carries(t, th[t])
IdsOK ==
    /\ ids \subseteq Users /\ strays \subseteq ids
    /\ \A t \in Threads : Creating(th[t]) => th[t].user \in ids
BoundsOK == today \in 0..MaxDay /\ started \in 0..MaxRequests /\ crashes \in 0..MaxCrashes

TypeInv == RowsOK /\ ThreadsOK /\ IdsOK /\ BoundsOK

UsersOf(cfg) == IF cfg = NoConfig THEN {} ELSE {p[1] : p \in cfg}

\* A configuration on its way to the node has users with rows in it, the user
\* that its thread creates apart.
PushesKnown ==
    \A t \in Threads : th[t].pc \in {"push", "push_new", "i_run"} =>
      \A u \in UsersOf(th[t].cfg) : row[u] # NoRow \/ (th[t].pc = "push_new" /\ u = th[t].user)

\* NoOrphanUser, and the thread that is about to insert the row knows that it
\* has pushed: a crash then leaves a stray.
NodeKnown ==
    \A u \in RemoteUsers \ strays :
      row[u] # NoRow \/ \E t \in Requests : /\ th[t].user = u /\ th[t].pc = "insert"
                                            /\ th[t].cfg # NoConfig

OrphanInv == TypeInv /\ PushesKnown /\ NodeKnown

\* A thread that will record what it pushed or installed.
Pushed(r) == r.pc \in {"record", "i_ready"} \/ (r.pc = "insert" /\ r.cfg # NoConfig)
Workers == Requests \cup {Sweep}

\* The history is of threads; the one whose push the node runs still carries
\* what it pushed, and without such a thread the hash is the node's or lost.
HistoryOK == unrecorded \subseteq Threads /\ lost \in BOOLEAN
Carried == \A t \in unrecorded : Pushed(th[t]) /\ remote = th[t].cfg
HashInv == TypeInv /\ HistoryOK /\ Carried /\ HashTruthful
-----------------------------------------------------------------------------
(* Types.                                                                  *)

LEMMA TypeParts == TypeInv /\ HistoryOK => TypeOK
BY DEF TypeInv, HistoryOK, TypeOK, RowsOK, ThreadsOK, IdsOK, BoundsOK, Carries

\* The fields of a thread.
LEMMA ThreadFields ==
  ASSUME NEW pc \in ThreadPcs, NEW u \in Users \cup {NoUser}, NEW new \in {NoRow} \cup Rows,
         NEW seen \in {NoConfig} \cup Configs, NEW cfg \in {NoConfig} \cup Configs
  PROVE  /\ Thread(pc, u, new, seen, cfg) \in ThreadRecords
         /\ Thread(pc, u, new, seen, cfg).pc = pc /\ Thread(pc, u, new, seen, cfg).user = u
         /\ Thread(pc, u, new, seen, cfg).new = new /\ Thread(pc, u, new, seen, cfg).seen = seen
         /\ Thread(pc, u, new, seen, cfg).cfg = cfg
BY DEF Thread, ThreadRecords

LEMMA Absent ==
  /\ NoUser \in Users \cup {NoUser} /\ NoRow \in {NoRow} \cup Rows
  /\ NoConfig \in {NoConfig} \cup Configs
  /\ {"render", "push", "push_new", "record", "insert", "i_run", "i_ready"} \subseteq ThreadPcs
BY DEF ThreadPcs

LEMMA IdleFields ==
  /\ IdleThread \in ThreadRecords /\ IdleThread.pc = "idle" /\ IdleThread.cfg = NoConfig
  /\ ~Writing(IdleThread) /\ ~Creating(IdleThread)
  /\ \A t : Carries(t, IdleThread)
BY DEF IdleThread, Thread, ThreadRecords, ThreadPcs, Writing, Creating, Carries

\* What is rendered is a configuration, with users that have rows.
LEMMA RenderedUsers ==
  ASSUME RowsOK
  PROVE  /\ active_client_users \in Configs /\ active_client_users # NoConfig
         /\ \A u \in UsersOf(active_client_users) : row[u] # NoRow
<1>1. \A u \in Users : IsActive(row[u]) => row[u] \in Rows /\ row[u] # NoRow /\ row[u].name \in Names
  BY DEF RowsOK, IsActive, Rows
<1>2. active_client_users \in Configs
  BY <1>1 DEF active_client_users, Configs
<1>3. \A p \in active_client_users : row[p[1]] # NoRow
  BY <1>1 DEF active_client_users
<1> QED BY <1>2, <1>3, NullsDiffer DEF UsersOf

\* A thread moves on.
LEMMA GotoKeepsType ==
  ASSUME TypeInv, NEW t \in Threads, NEW next \in ThreadRecords, Carries(t, next),
         Creating(next) => next.user \in ids', Goto(t, next),
         RowsOK', BoundsOK', ids \subseteq ids', ids' \subseteq Users, strays' \subseteq ids'
  PROVE  TypeInv'
<1>1. ThreadsOK'
  BY DEF TypeInv, ThreadsOK, Goto, Carries
<1>2. \A q \in Threads : th'[q] = IF q = t THEN next ELSE th[q]
  BY DEF TypeInv, ThreadsOK, Goto
<1>3. IdsOK'
  BY <1>2 DEF TypeInv, IdsOK, Creating
<1> QED BY <1>1, <1>3 DEF TypeInv

\* The beginnings: a request, the sweep.
LEMMA BeginsKeepType ==
  ASSUME TypeInv,
         \/ \E t \in Requests, u \in Users, new \in Rows : create_client(t, u, new) \/ update_client(t, u, new)
         \/ refresh_node_configs
  PROVE  TypeInv'
<1>1. ASSUME NEW t \in Requests, NEW u \in Users, NEW new \in Rows, create_client(t, u, new) PROVE TypeInv'
  <2>1. PICK pc \in {"render_new", "insert"} :
          Goto(t, Thread(pc, u, new, NoConfig, NoConfig))
    BY <1>1 DEF create_client
  <2> DEFINE next == Thread(pc, u, new, NoConfig, NoConfig)
  <2>2. next \in ThreadRecords /\ next.pc = pc /\ next.user = u /\ next.new = new /\ next.cfg = NoConfig
    BY ThreadFields DEF ThreadPcs
  <2> HIDE DEF next
  <2>3. t \in Threads /\ Carries(t, next)
    BY <2>2 DEF Carries, Writing, Creating, Threads
  <2>4. ids' = ids \cup {u} /\ started' \in 0..MaxRequests
        /\ UNCHANGED <<row, status, hash, remote, today, crashes, strays>>
    BY <1>1, LimitsAssumption DEF create_client, Begin, TypeInv, BoundsOK
  <2>5. RowsOK' /\ BoundsOK' /\ ids \subseteq ids' /\ ids' \subseteq Users /\ strays' \subseteq ids'
    BY <2>4 DEF TypeInv, RowsOK, BoundsOK, IdsOK
  <2> QED BY <2>1, <2>2, <2>3, <2>4, <2>5, GotoKeepsType DEF next
<1>2. ASSUME NEW t \in Requests, NEW u \in Users, NEW new \in Rows, update_client(t, u, new) PROVE TypeInv'
  <2> DEFINE next == Thread("write", u, new, NoConfig, NoConfig)
  <2>1. next \in ThreadRecords /\ next.pc = "write" /\ next.user = u /\ next.new = new
    BY ThreadFields DEF ThreadPcs
  <2> HIDE DEF next
  <2>2. t \in Threads /\ Carries(t, next) /\ ~Creating(next)
    BY <2>1 DEF Carries, Writing, Creating, Threads
  <2>3. started' \in 0..MaxRequests /\ UNCHANGED <<row, status, hash, remote, ids, today, crashes, strays>>
    BY <1>2, LimitsAssumption DEF update_client, Begin, TypeInv, BoundsOK
  <2>4. RowsOK' /\ BoundsOK' /\ ids \subseteq ids' /\ ids' \subseteq Users /\ strays' \subseteq ids'
    BY <2>3 DEF TypeInv, RowsOK, BoundsOK, IdsOK
  <2> QED BY <1>2, <2>1, <2>2, <2>4, GotoKeepsType DEF update_client, next
<1>3. CASE refresh_node_configs
  <2> DEFINE next == Thread("apply", NoUser, NoRow, NoConfig, NoConfig)
  <2>1. next \in ThreadRecords /\ next.pc = "apply"
    BY ThreadFields DEF ThreadPcs
  <2> HIDE DEF next
  <2>2. Sweep \in Threads /\ Carries(Sweep, next) /\ ~Creating(next)
    BY <2>1 DEF Carries, Writing, Creating, Threads
  <2>3. UNCHANGED <<row, status, hash, remote, ids, today, started, crashes, strays>>
    BY <1>3 DEF refresh_node_configs
  <2>4. RowsOK' /\ BoundsOK' /\ ids \subseteq ids' /\ ids' \subseteq Users /\ strays' \subseteq ids'
    BY <2>3 DEF TypeInv, RowsOK, BoundsOK, IdsOK
  <2> QED BY <1>3, <2>1, <2>2, <2>4, GotoKeepsType DEF refresh_node_configs, next
<1> QED BY <1>1, <1>2, <1>3

\* What a thread's record says in a well-typed state.
LEMMA ThreadTypes ==
  ASSUME TypeInv, NEW t \in Threads
  PROVE  /\ th[t] \in ThreadRecords /\ Carries(t, th[t])
         /\ th[t].pc \in ThreadPcs /\ th[t].user \in Users \cup {NoUser}
         /\ th[t].new \in {NoRow} \cup Rows
         /\ th[t].seen \in {NoConfig} \cup Configs /\ th[t].cfg \in {NoConfig} \cup Configs
         /\ Creating(th[t]) => th[t].user \in ids /\ t \in Requests
BY DEF TypeInv, ThreadsOK, ThreadRecords, Carries, IdsOK

\* A step that leaves ids, the day and the counters alone.
LEMMA StepOfThread ==
  ASSUME TypeInv, NEW t \in Threads, NEW next \in ThreadRecords, Carries(t, next), Goto(t, next),
         Creating(next) => Creating(th[t]) /\ next.user = th[t].user,
         UNCHANGED <<ids, today, started, crashes>>, RowsOK', strays' \subseteq ids
  PROVE  TypeInv'
<1>1. BoundsOK' /\ ids' \subseteq Users /\ ids \subseteq ids' /\ strays' \subseteq ids'
  BY DEF TypeInv, BoundsOK, IdsOK
<1>2. Creating(next) => next.user \in ids'
  BY ThreadTypes
<1> QED BY <1>1, <1>2, GotoKeepsType

\* The steps of requests and of the sweep.
LEMMA StepsKeepType ==
  ASSUME TypeInv, NEW t \in Requests \cup {Sweep},
         \/ t \in Requests /\ (render_with_new_user(t) \/ insert_client(t) \/ write_client(t))
         \/ Apply(t)
  PROVE  TypeInv'
<1>1. /\ t \in Threads /\ th[t] \in ThreadRecords /\ Carries(t, th[t]) /\ RowsOK /\ strays \subseteq ids
      /\ active_client_users \in Configs /\ active_client_users # NoConfig
  BY ThreadTypes, RenderedUsers DEF TypeInv, Threads, IdsOK
<1>2. UNCHANGED <<ids, today, started, crashes>>
  BY DEF render_with_new_user, insert_client, write_client, Apply, apply_node_config,
     render_node_config, push_ok, push_failed, record_config_hash
<1>3. CASE render_with_new_user(t)
  <2> DEFINE cfg == active_client_users \cup {<<th[t].user, th[t].new.name>>}
             next == Thread("push_new", th[t].user, th[t].new, NoConfig, cfg)
  <2>1. th[t].user \in Users /\ th[t].new \in Rows /\ Creating(th[t]) /\ t \in Requests
    BY <1>1, <1>3 DEF render_with_new_user, Carries, Writing, Creating
  <2>2. cfg \in Configs /\ cfg # NoConfig
    BY <1>1, <2>1, NullsDiffer DEF Configs, Rows
  <2> HIDE DEF cfg
  <2>6. cfg \in {NoConfig} \cup Configs /\ th[t].user \in Users \cup {NoUser} /\ th[t].new \in {NoRow} \cup Rows
    BY <2>1, <2>2
  <2>3. next \in ThreadRecords /\ next.pc = "push_new" /\ next.user = th[t].user /\ next.new = th[t].new
        /\ next.cfg = cfg
    BY <2>6, Absent DEF Thread, ThreadRecords
  <2>4. Goto(t, next) /\ RowsOK' /\ strays' \subseteq ids
    BY <1>1, <1>3 DEF render_with_new_user, RowsOK, cfg
  <2> HIDE DEF next
  <2>5. Carries(t, next)
    BY <2>1, <2>2, <2>3 DEF Carries, Writing, Creating
  <2> QED BY <1>1, <1>2, <2>1, <2>3, <2>4, <2>5, StepOfThread
<1>4. CASE insert_client(t)
  <2>1. th[t].user \in Users /\ th[t].new \in Rows
    BY <1>1, <1>4 DEF insert_client, Carries, Writing, Creating
  <2>2. RowsOK' /\ strays' \subseteq ids /\ Goto(t, IdleThread)
    BY <1>1, <1>4, <2>1, ThreadTypes DEF insert_client, RowsOK
  <2> QED BY <1>1, <1>2, <2>2, IdleFields, StepOfThread
<1>5. CASE write_client(t)
  <2> DEFINE next == Thread("apply", NoUser, NoRow, NoConfig, NoConfig)
  <2>1. th[t].user \in Users /\ th[t].new \in Rows
    BY <1>1, <1>5 DEF write_client, Carries, Writing, Creating
  <2>2. RowsOK' /\ strays' \subseteq ids /\ Goto(t, next)
    BY <1>1, <1>5, <2>1 DEF write_client, RowsOK
  <2>3. next \in ThreadRecords /\ next.pc = "apply"
    BY ThreadFields DEF ThreadPcs
  <2> HIDE DEF next
  <2>4. Carries(t, next) /\ ~Creating(next)
    BY <2>3 DEF Carries, Writing, Creating
  <2> QED BY <1>1, <1>2, <2>2, <2>3, <2>4, StepOfThread
<1>6. CASE apply_node_config(t)
  <2> DEFINE next == IF status = "ready" THEN Thread("render", NoUser, NoRow, hash, NoConfig) ELSE IdleThread
  <2>0. hash \in {NoConfig} \cup Configs
    BY <1>1 DEF RowsOK
  <2>1. next \in ThreadRecords /\ next.pc \in {"render", "idle"}
    <3>1. CASE status = "ready"
      BY <2>0, <3>1, ThreadFields, Absent
    <3>2. CASE status # "ready"
      BY <3>2, IdleFields
    <3> QED BY <3>1, <3>2
  <2>2. RowsOK' /\ strays' \subseteq ids /\ Goto(t, next)
    BY <1>1, <1>6 DEF apply_node_config, RowsOK
  <2> HIDE DEF next
  <2>3. Carries(t, next) /\ ~Creating(next)
    BY <2>1 DEF Carries, Writing, Creating
  <2> QED BY <1>1, <1>2, <2>1, <2>2, <2>3, StepOfThread
<1>7. CASE render_node_config(t)
  <2> DEFINE push == Thread("push", NoUser, NoRow, NoConfig, active_client_users)
             next == IF active_client_users = th[t].seen THEN IdleThread ELSE push
  <2>1. push \in ThreadRecords /\ push.pc = "push" /\ push.cfg = active_client_users
    BY <1>1, ThreadFields DEF ThreadPcs
  <2> HIDE DEF push
  <2>2. Carries(t, push) /\ ~Creating(push)
    BY <1>1, <2>1 DEF Carries, Writing, Creating
  <2>3. next \in ThreadRecords /\ Carries(t, next) /\ ~Creating(next)
    BY <2>1, <2>2, IdleFields
  <2>4. RowsOK' /\ strays' \subseteq ids /\ Goto(t, next)
    BY <1>1, <1>7 DEF render_node_config, RowsOK, push
  <2> QED BY <1>1, <1>2, <2>3, <2>4, StepOfThread
<1>8. CASE push_ok(t)
  <2> DEFINE pc == IF th[t].pc = "push" THEN "record" ELSE "insert"
             next == Thread(pc, th[t].user, th[t].new, NoConfig, th[t].cfg)
  <2>1. /\ th[t].pc \in {"push", "push_new"} /\ th[t].cfg # NoConfig
        /\ th[t].pc = "push_new" => th[t].user \in Users /\ th[t].new \in Rows
                                    /\ Creating(th[t]) /\ t \in Requests
    BY <1>1, <1>8 DEF push_ok, Carries, Writing, Creating
  <2>5. pc \in ThreadPcs
    BY Absent
  <2>6. /\ th[t].user \in Users \cup {NoUser} /\ th[t].new \in {NoRow} \cup Rows
        /\ th[t].cfg \in {NoConfig} \cup Configs
    BY <1>1, ThreadTypes
  <2>2. /\ next \in ThreadRecords /\ next.pc = pc /\ next.user = th[t].user /\ next.new = th[t].new
        /\ next.cfg = th[t].cfg
    <3> HIDE DEF pc
    <3> QED BY <2>5, <2>6, Absent DEF Thread, ThreadRecords
  <2>3. RowsOK' /\ strays' \subseteq ids /\ Goto(t, next)
    BY <1>1, <1>8, ThreadTypes DEF push_ok, RowsOK
  <2> HIDE DEF next
  <2>4. Carries(t, next) /\ (Creating(next) => Creating(th[t]))
    BY <2>1, <2>2 DEF Carries, Writing, Creating
  <2> QED BY <1>1, <1>2, <2>2, <2>3, <2>4, StepOfThread
<1>9. CASE push_failed(t)
  <2>1. th[t].pc = "push_new" => th[t].user \in ids
    BY <1>1, ThreadTypes DEF Creating
  <2>2. RowsOK' /\ strays' \subseteq ids /\ Goto(t, IdleThread)
    BY <1>1, <1>9, <2>1, ThreadTypes DEF push_failed, RowsOK
  <2> QED BY <1>1, <1>2, <2>2, IdleFields, StepOfThread
<1>10. CASE record_config_hash(t)
  <2>1. RowsOK' /\ strays' \subseteq ids /\ Goto(t, IdleThread)
    BY <1>1, <1>10, ThreadTypes DEF record_config_hash, RowsOK
  <2> QED BY <1>1, <1>2, <2>1, IdleFields, StepOfThread
<1> QED BY <1>3, <1>4, <1>5, <1>6, <1>7, <1>8, <1>9, <1>10 DEF Apply

\* The installer's steps.
LEMMA InstallerKeepsType ==
  ASSUME TypeInv, InstallerStep
  PROVE  TypeInv'
<1> DEFINE t == Installer
<1>1. /\ t \in Threads /\ th[t] \in ThreadRecords /\ Carries(t, th[t]) /\ RowsOK /\ strays \subseteq ids
      /\ active_client_users \in Configs /\ active_client_users # NoConfig
  BY ThreadTypes, RenderedUsers DEF TypeInv, Threads, IdsOK
<1>2. UNCHANGED <<ids, today, started, crashes, strays>>
  BY DEF InstallerStep, install_render, install_ok, install_failed, install_ready
<1>3. ASSUME NEW next \in ThreadRecords, next.pc \in {"i_run", "i_ready"}, next.cfg # NoConfig,
             Goto(t, next), RowsOK'
      PROVE  TypeInv'
  <2>1. Carries(t, next) /\ ~Creating(next)
    BY <1>3 DEF Carries, Writing, Creating
  <2> QED BY <1>1, <1>2, <1>3, <2>1, StepOfThread
<1>4. CASE install_render
  <2> DEFINE next == Thread("i_run", NoUser, NoRow, NoConfig, active_client_users)
  <2>0. active_client_users \in {NoConfig} \cup Configs
    BY <1>1
  <2>1. next \in ThreadRecords /\ next.pc = "i_run" /\ next.cfg = active_client_users
    BY <2>0, Absent DEF Thread, ThreadRecords
  <2>2. RowsOK' /\ Goto(t, next)
    BY <1>1, <1>4 DEF install_render, RowsOK
  <2> HIDE DEF next
  <2> QED BY <1>1, <1>3, <2>1, <2>2
<1>5. CASE install_ok
  <2> DEFINE next == Thread("i_ready", NoUser, NoRow, NoConfig, th[t].cfg)
  <2>1. th[t].cfg # NoConfig /\ th[t].cfg \in Configs
    BY <1>1, <1>5, ThreadTypes DEF install_ok, Carries
  <2>2. next \in ThreadRecords /\ next.pc = "i_ready" /\ next.cfg = th[t].cfg
    BY <2>1, ThreadFields DEF ThreadPcs
  <2>3. RowsOK' /\ Goto(t, next)
    BY <1>1, <1>5, <2>1 DEF install_ok, RowsOK
  <2> HIDE DEF next
  <2> QED BY <1>3, <2>1, <2>2, <2>3
<1>6. CASE install_failed
  <2>1. RowsOK' /\ Goto(t, IdleThread)
    BY <1>1, <1>6, ThreadTypes DEF install_failed, RowsOK
  <2> QED BY <1>1, <1>2, <2>1, IdleFields, StepOfThread
<1>7. CASE install_ready
  <2>1. RowsOK' /\ Goto(t, IdleThread)
    BY <1>1, <1>7, ThreadTypes DEF install_ready, RowsOK
  <2> QED BY <1>1, <1>2, <2>1, IdleFields, StepOfThread
<1> QED BY <1>4, <1>5, <1>6, <1>7 DEF InstallerStep

\* A day passes; the process dies.
LEMMA WorldKeepsType ==
  ASSUME TypeInv, next_day \/ crash
  PROVE  TypeInv'
<1>1. CASE next_day
  <2>1. BoundsOK'
    BY <1>1, ExpsAssumption DEF TypeInv, BoundsOK, next_day
  <2> QED BY <1>1, <2>1 DEF next_day, TypeInv, RowsOK, ThreadsOK, IdsOK
<1>2. CASE crash
  <2>1. BoundsOK' /\ RowsOK'
    BY <1>2, LimitsAssumption DEF TypeInv, BoundsOK, RowsOK, crash
  <2>2. th' = [t \in Threads |-> IdleThread] /\ UNCHANGED ids
    BY <1>2 DEF crash
  <2>3. ThreadsOK'
    BY <2>2, IdleFields DEF ThreadsOK
  <2>4. \A t \in Requests : th[t].pc = "insert" => th[t].user \in ids
    BY ThreadTypes DEF Creating, Threads
  <2>5. strays' \subseteq ids
    BY <1>2, <2>4 DEF crash, TypeInv, IdsOK
  <2>6. \A t \in Threads : th'[t] = IdleThread
    BY <2>2
  <2>7. \A t \in Threads : ~Creating(th[t])'
    BY <2>6, IdleFields DEF Creating
  <2>8. IdsOK'
    BY <2>2, <2>5, <2>7 DEF TypeInv, IdsOK
  <2> QED BY <2>1, <2>3, <2>8 DEF TypeInv
<1> QED BY <1>1, <1>2

LEMMA StepKeepsType == TypeInv /\ [Next]_vars => TypeInv'
<1> SUFFICES ASSUME TypeInv, [Next]_vars PROVE TypeInv'
  OBVIOUS
<1>1. CASE UNCHANGED vars
  BY <1>1 DEF vars, TypeInv, RowsOK, ThreadsOK, IdsOK, BoundsOK
<1>2. ASSUME NEW t \in Requests, RequestStep(t) PROVE TypeInv'
  BY <1>2, StepsKeepType DEF RequestStep
<1>3. CASE Apply(Sweep)
  BY <1>3, StepsKeepType
<1> QED BY <1>1, <1>2, <1>3, BeginsKeepType, InstallerKeepsType, WorldKeepsType DEF Next

LEMMA InitKeepsType == Init => TypeInv
<1> SUFFICES ASSUME Init PROVE TypeInv
  OBVIOUS
<1> DEFINE first == Thread("i_render", NoUser, NoRow, NoConfig, NoConfig)
<1>1. first \in ThreadRecords /\ first.pc = "i_render" /\ first.cfg = NoConfig
  BY ThreadFields DEF ThreadPcs
<1>2. th = [t \in Threads |-> IF t = Installer THEN first ELSE IdleThread]
  BY DEF Init
<1> HIDE DEF first
<1>3. Carries(Installer, first) /\ ~Creating(first)
  BY <1>1 DEF Carries, Writing, Creating
<1>4. ThreadsOK
  BY <1>1, <1>2, <1>3, IdleFields DEF ThreadsOK
<1>5. IdsOK
  BY <1>2, <1>3, IdleFields DEF Init, IdsOK
<1>6. RowsOK /\ BoundsOK
  BY ExpsAssumption, LimitsAssumption DEF Init, RowsOK, BoundsOK
<1> QED BY <1>4, <1>5, <1>6 DEF TypeInv

\* What a step does to the history: the thread that pushes, installs or records.
LEMMA StepKeepsHistory == HistoryOK /\ [Next]_vars => HistoryOK'
<1> SUFFICES ASSUME HistoryOK, [Next]_vars PROVE HistoryOK'
  OBVIOUS
<1>1. ASSUME NEW t \in Threads, UNCHANGED <<unrecorded, lost>> \/ Taken(t) \/ Lost \/ Recorded(t)
      PROVE  HistoryOK'
  BY <1>1 DEF HistoryOK, Taken, Lost, Recorded
<1>2. Installer \in Threads /\ Sweep \in Threads /\ Requests \subseteq Threads
  BY DEF Threads
<1>3. CASE UNCHANGED vars \/ next_day \/ refresh_node_configs
  BY <1>1, <1>2, <1>3 DEF vars, next_day, refresh_node_configs
<1>4. CASE crash
  BY <1>4 DEF crash, HistoryOK
<1>5. ASSUME NEW t \in Threads, Apply(t) PROVE HistoryOK'
  BY <1>1, <1>5 DEF Apply, apply_node_config, render_node_config, push_ok, push_failed,
     record_config_hash
<1>6. ASSUME NEW t \in Requests,
             \/ \E u \in Users, new \in Rows : create_client(t, u, new) \/ update_client(t, u, new)
             \/ render_with_new_user(t) \/ insert_client(t) \/ write_client(t)
      PROVE  HistoryOK'
  BY <1>1, <1>2, <1>6 DEF create_client, update_client, render_with_new_user, insert_client, write_client
<1>7. CASE InstallerStep
  BY <1>1, <1>2, <1>7 DEF InstallerStep, install_render, install_ok, install_failed, install_ready
<1> QED BY <1>2, <1>3, <1>4, <1>5, <1>6, <1>7 DEF Next, RequestStep

\* Every reachable state is well typed: a thread at a push has a configuration
\* to push, and one that writes a row has a user and a row to write.
THEOREM TypeCorrect == Spec => []TypeOK
<1>1. Init => HistoryOK
  BY DEF Init, HistoryOK
<1> QED BY <1>1, InitKeepsType, StepKeepsType, StepKeepsHistory, TypeParts, PTL DEF Spec
-----------------------------------------------------------------------------
(* Users on the node.                                                      *)

LEMMA UsersOfConfig ==
  ASSUME NEW cfg \in {NoConfig} \cup Configs
  PROVE  UsersOf(cfg) \subseteq Users
BY DEF UsersOf, Configs

LEMMA RemoteUsersOf == RemoteUsers = UsersOf(remote)
BY DEF RemoteUsers, UsersOf

Inserting(t, u) == th[t].user = u /\ th[t].pc = "insert" /\ th[t].cfg # NoConfig

\* Rows stay, and a thread pushes what it pushed before, or what is known.
LEMMA PushesKept ==
  ASSUME TypeInv, PushesKnown, \A u \in Users : row[u] # NoRow => row'[u] # NoRow,
         \A t \in Threads :
           \/ th'[t] = th[t]
           \/ th'[t].pc \notin {"push", "push_new", "i_run"}
           \/ \A u \in UsersOf(th'[t].cfg) :
                row'[u] # NoRow \/ (th'[t].pc = "push_new" /\ u = th'[t].user)
  PROVE  PushesKnown'
<1> SUFFICES ASSUME NEW t \in Threads, th'[t].pc \in {"push", "push_new", "i_run"},
                    NEW u \in UsersOf(th'[t].cfg)
             PROVE  row'[u] # NoRow \/ (th'[t].pc = "push_new" /\ u = th'[t].user)
  BY DEF PushesKnown, UsersOf
<1>1. CASE th'[t] = th[t]
  <2>1. u \in Users
    BY <1>1, ThreadTypes, UsersOfConfig
  <2> QED BY <1>1, <2>1 DEF PushesKnown
<1> QED BY <1>1

\* The node's configuration is replaced by one whose users are known, or stays.
LEMMA NodeKept ==
  ASSUME TypeInv, NodeKnown, \A u \in Users : row[u] # NoRow => row'[u] # NoRow,
         \A u \in UsersOf(remote') :
           \/ u \in UsersOf(remote) \/ row'[u] # NoRow \/ u \in strays'
           \/ \E t \in Requests : Inserting(t, u)',
         strays \subseteq strays',
         \A t \in Requests, u \in Users : Inserting(t, u) =>
           Inserting(t, u)' \/ row'[u] # NoRow \/ u \in strays'
  PROVE  NodeKnown'
<1> SUFFICES ASSUME NEW u \in UsersOf(remote'), u \notin strays'
             PROVE  row'[u] # NoRow \/ \E t \in Requests : Inserting(t, u)'
  <2>1. RemoteUsers' = UsersOf(remote')
    BY DEF RemoteUsers, UsersOf
  <2> QED BY <2>1 DEF NodeKnown, Inserting
<1>1. CASE u \in UsersOf(remote)
  <2>1. u \in Users
    BY <1>1, UsersOfConfig DEF TypeInv, RowsOK
  <2>2. row[u] # NoRow \/ \E t \in Requests : Inserting(t, u)
    BY <1>1, RemoteUsersOf DEF NodeKnown, Inserting
  <2> QED BY <2>1, <2>2
<1> QED BY <1>1

\* A step that keeps rows and node, and ends no insertion.
LEMMA OrphanKept ==
  ASSUME OrphanInv, NEW t \in Threads, NEW next, Goto(t, next), UNCHANGED <<row, remote, strays>>,
         ~(th[t].pc = "insert"),
         next.pc \in {"push", "push_new", "i_run"} =>
           \A u \in UsersOf(next.cfg) : row[u] # NoRow \/ (next.pc = "push_new" /\ u = next.user)
  PROVE  PushesKnown' /\ NodeKnown'
<1>1. \A q \in Threads : th'[q] = IF q = t THEN next ELSE th[q]
  BY DEF OrphanInv, TypeInv, ThreadsOK, Goto
<1>2. PushesKnown'
  BY <1>1, PushesKept DEF OrphanInv
<1>3. ASSUME NEW q \in Requests, NEW u \in Users, Inserting(q, u) PROVE Inserting(q, u)'
  <2>1. q # t /\ q \in Threads
    BY <1>3 DEF Inserting, Threads
  <2> QED BY <1>1, <1>3, <2>1 DEF Inserting
<1>4. NodeKnown'
  BY <1>3, NodeKept DEF OrphanInv
<1> QED BY <1>2, <1>4

\* The pushes: the node takes over what the thread carries.
LEMMA PushKeepsUsers ==
  ASSUME OrphanInv, NEW t \in Workers, push_ok(t) \/ push_failed(t)
  PROVE  PushesKnown' /\ NodeKnown'
<1>1. t \in Threads /\ th[t].pc \in {"push", "push_new"} /\ Carries(t, th[t]) /\ row' = row
  BY ThreadTypes DEF OrphanInv, Workers, Threads, push_ok, push_failed
<1>2. \A u \in UsersOf(th[t].cfg) : row[u] # NoRow \/ (th[t].pc = "push_new" /\ u = th[t].user)
  BY <1>1 DEF OrphanInv, PushesKnown
<1>3. th[t].pc = "push_new" => t \in Requests
  BY <1>1 DEF Carries, Creating
<1>4. PICK next : /\ Goto(t, next) /\ next.pc \in {"idle", "record", "insert"}
                  /\ push_ok(t) /\ th[t].pc = "push_new" =>
                       next.pc = "insert" /\ next.user = th[t].user /\ next.cfg = th[t].cfg
  <2>1. CASE push_ok(t)
    BY <1>1, <2>1 DEF push_ok, Thread
  <2>2. CASE ~push_ok(t)
    BY <2>2, IdleFields DEF push_failed
  <2> QED BY <2>1, <2>2
<1>5. \A q \in Threads : th'[q] = IF q = t THEN next ELSE th[q]
  BY <1>1, <1>4 DEF OrphanInv, TypeInv, ThreadsOK, Goto
<1>6. PushesKnown'
  BY <1>1, <1>4, <1>5, PushesKept DEF OrphanInv
<1>7. ASSUME NEW q \in Requests, NEW u \in Users, Inserting(q, u) PROVE Inserting(q, u)'
  <2>1. q # t /\ q \in Threads
    BY <1>1, <1>7 DEF Inserting, Threads
  <2> QED BY <1>5, <1>7, <2>1 DEF Inserting
<1>8. strays \subseteq strays'
  BY DEF push_ok, push_failed
<1>9. ASSUME NEW u \in UsersOf(remote')
      PROVE  \/ u \in UsersOf(remote) \/ row'[u] # NoRow \/ u \in strays'
             \/ \E q \in Requests : Inserting(q, u)'
  <2>1. CASE remote' = remote
    BY <1>9, <2>1
  <2>2. CASE remote' = th[t].cfg /\ ~(th[t].pc = "push_new" /\ u = th[t].user)
    BY <1>1, <1>2, <1>9, <2>2
  <2>3. CASE remote' = th[t].cfg /\ th[t].pc = "push_new" /\ u = th[t].user
    <3>1. CASE push_ok(t)
      <4>1. Inserting(t, u)'
        BY <1>1, <1>4, <1>5, <2>3, <3>1 DEF Inserting, Carries
      <4> QED BY <1>3, <2>3, <4>1
    <3>2. CASE push_failed(t)
      <4>1. remote' = remote \/ u \in strays'
        BY <2>3, <3>2 DEF push_failed
      <4> QED BY <1>9, <4>1
    <3> QED BY <3>1, <3>2
  <2> QED BY <2>1, <2>2, <2>3 DEF push_ok, push_failed
<1>10. NodeKnown'
  BY <1>1, <1>7, <1>8, <1>9, NodeKept DEF OrphanInv
<1> QED BY <1>6, <1>10

\* The rows are written: rows stay, and an insertion ends with its row.
LEMMA WriteKeepsUsers ==
  ASSUME OrphanInv, NEW t \in Requests, insert_client(t) \/ write_client(t)
  PROVE  PushesKnown' /\ NodeKnown'
<1>1. t \in Threads /\ th[t].pc \in {"insert", "write"} /\ Carries(t, th[t]) /\ UNCHANGED <<remote, strays>>
      /\ row \in [Users -> {NoRow} \cup Rows] /\ row' = [row EXCEPT ![th[t].user] = th[t].new]
  BY ThreadTypes DEF OrphanInv, TypeInv, RowsOK, Threads, insert_client, write_client
<1>2. th[t].user \in Users /\ th[t].new \in Rows /\ th[t].new # NoRow
  BY <1>1, NullsDiffer DEF Carries, Writing, Creating
<1>3. row'[th[t].user] # NoRow /\ \A u \in Users : row[u] # NoRow => row'[u] # NoRow
  BY <1>1, <1>2
<1>4. PICK next : Goto(t, next) /\ next.pc \in {"idle", "apply"}
  BY IdleFields DEF insert_client, write_client, Thread
<1>5. \A q \in Threads : th'[q] = IF q = t THEN next ELSE th[q]
  BY <1>1, <1>4 DEF OrphanInv, TypeInv, ThreadsOK, Goto
<1>6. PushesKnown'
  BY <1>3, <1>4, <1>5, PushesKept DEF OrphanInv
<1>7. ASSUME NEW q \in Requests, NEW u \in Users, Inserting(q, u) PROVE Inserting(q, u)' \/ row'[u] # NoRow
  <2>1. CASE q = t
    BY <1>3, <1>7, <2>1 DEF Inserting
  <2>2. CASE q # t
    BY <1>5, <1>7, <2>2 DEF Inserting, Threads
  <2> QED BY <2>1, <2>2
<1>8. NodeKnown'
  BY <1>1, <1>3, <1>7, NodeKept DEF OrphanInv
<1> QED BY <1>6, <1>8

\* The beginnings and the renderings.
LEMMA RenderKeepsUsers ==
  ASSUME OrphanInv, NEW t \in Workers,
         \/ \E u \in Users, new \in Rows : create_client(t, u, new) \/ update_client(t, u, new)
         \/ t = Sweep /\ refresh_node_configs
         \/ render_with_new_user(t) \/ apply_node_config(t) \/ render_node_config(t)
  PROVE  PushesKnown' /\ NodeKnown'
<1>1. t \in Threads /\ th[t].pc # "insert" /\ UNCHANGED <<row, remote, strays>>
  BY DEF Workers, Threads, create_client, update_client, Begin, Idle, refresh_node_configs,
     render_with_new_user, apply_node_config, render_node_config
<1>2. /\ active_client_users \in Configs
      /\ \A u \in UsersOf(active_client_users) : row[u] # NoRow
  BY RenderedUsers DEF OrphanInv, TypeInv
<1>3. ASSUME NEW next, Goto(t, next), next.pc \notin {"push", "push_new", "i_run"}
      PROVE  PushesKnown' /\ NodeKnown'
  BY <1>1, <1>3, OrphanKept
<1>4. CASE \/ \E u \in Users, new \in Rows : create_client(t, u, new) \/ update_client(t, u, new)
           \/ t = Sweep /\ refresh_node_configs
           \/ apply_node_config(t)
  <2>1. \E next : Goto(t, next) /\ next.pc \notin {"push", "push_new", "i_run"}
    <3>1. CASE \E u \in Users, new \in Rows : create_client(t, u, new)
      BY <3>1 DEF create_client, Thread
    <3>2. CASE \E u \in Users, new \in Rows : update_client(t, u, new)
      BY <3>2 DEF update_client, Thread
    <3>3. CASE t = Sweep /\ refresh_node_configs
      BY <3>3 DEF refresh_node_configs, Thread
    <3>4. CASE apply_node_config(t)
      BY <3>4, IdleFields DEF apply_node_config, Thread
    <3> QED BY <1>4, <3>1, <3>2, <3>3, <3>4
  <2> QED BY <1>3, <2>1
<1>5. CASE render_with_new_user(t)
  <2> DEFINE cfg == active_client_users \cup {<<th[t].user, th[t].new.name>>}
             next == Thread("push_new", th[t].user, th[t].new, NoConfig, cfg)
  <2>1. next.pc = "push_new" /\ next.user = th[t].user /\ next.cfg = cfg
    BY DEF Thread
  <2>2. \A u \in UsersOf(cfg) : row[u] # NoRow \/ u = th[t].user
    <3>1. \A u \in UsersOf(cfg) : u \in UsersOf(active_client_users) \/ u = th[t].user
      BY <1>2, NullsDiffer DEF UsersOf
    <3> QED BY <1>2, <3>1
  <2>3. Goto(t, next)
    BY <1>5 DEF render_with_new_user
  <2> HIDE DEF next, cfg
  <2> QED BY <1>1, <2>1, <2>2, <2>3, OrphanKept
<1>6. CASE render_node_config(t)
  <2> DEFINE push == Thread("push", NoUser, NoRow, NoConfig, active_client_users)
  <2>1. push.pc = "push" /\ push.cfg = active_client_users
    BY DEF Thread
  <2>2. Goto(t, IdleThread) \/ Goto(t, push)
    BY <1>6 DEF render_node_config
  <2> HIDE DEF push
  <2> QED BY <1>1, <1>2, <1>3, <2>1, <2>2, IdleFields, OrphanKept
<1> QED BY <1>4, <1>5, <1>6

\* The installer brings the users it rendered.
LEMMA InstallerKeepsUsers ==
  ASSUME OrphanInv, InstallerStep
  PROVE  PushesKnown' /\ NodeKnown'
<1> DEFINE t == Installer
<1>1. t \in Threads /\ t \notin Requests /\ Carries(t, th[t]) /\ UNCHANGED <<row, strays>>
  BY ThreadsDiffer, ThreadTypes DEF OrphanInv, Threads, InstallerStep, install_render, install_ok,
     install_failed, install_ready
<1>2. /\ active_client_users \in Configs
      /\ \A u \in UsersOf(active_client_users) : row[u] # NoRow
  BY RenderedUsers DEF OrphanInv, TypeInv
<1>3. CASE install_render
  <2> DEFINE next == Thread("i_run", NoUser, NoRow, NoConfig, active_client_users)
  <2>1. next.cfg = active_client_users
    BY DEF Thread
  <2>2. Goto(t, next) /\ th[t].pc = "i_render" /\ UNCHANGED remote
    BY <1>3 DEF install_render
  <2> HIDE DEF next
  <2> QED BY <1>1, <1>2, <2>1, <2>2, OrphanKept
<1>4. CASE install_ok \/ install_failed \/ install_ready
  <2>1. PICK next : Goto(t, next) /\ next.pc \notin {"push", "push_new", "i_run"}
    BY <1>4, IdleFields DEF install_ok, install_failed, install_ready, Thread
  <2>2. \A q \in Threads : th'[q] = IF q = t THEN next ELSE th[q]
    BY <1>1, <2>1 DEF OrphanInv, TypeInv, ThreadsOK, Goto
  <2>3. PushesKnown'
    BY <1>1, <2>1, <2>2, PushesKept DEF OrphanInv
  <2>4. \A q \in Requests, u \in Users : Inserting(q, u) => Inserting(q, u)'
    BY <1>1, <2>2 DEF Inserting, Threads
  <2>5. ASSUME NEW u \in UsersOf(remote') PROVE u \in UsersOf(remote) \/ row'[u] # NoRow
    <3>1. CASE remote' = remote
      BY <2>5, <3>1
    <3>2. CASE remote' = NoConfig
      BY <2>5, <3>2 DEF UsersOf
    <3>3. CASE remote' = th[t].cfg /\ th[t].pc = "i_run"
      BY <1>1, <2>5, <3>3 DEF OrphanInv, PushesKnown
    <3>4. CASE remote' = th[t].cfg /\ th[t].pc = "i_render"
      BY <1>1, <3>2, <3>4 DEF Carries
    <3> QED BY <1>4, <3>1, <3>2, <3>3, <3>4 DEF install_ok, install_failed, install_ready
  <2>6. NodeKnown'
    BY <1>1, <2>4, <2>5, NodeKept DEF OrphanInv
  <2> QED BY <2>3, <2>6
<1> QED BY <1>3, <1>4 DEF InstallerStep

LEMMA StepKeepsUsers == OrphanInv /\ [Next]_vars => OrphanInv'
<1> SUFFICES ASSUME OrphanInv, [Next]_vars PROVE PushesKnown' /\ NodeKnown'
  BY StepKeepsType DEF OrphanInv
<1>1. ASSUME UNCHANGED <<row, remote, th, strays>> PROVE PushesKnown' /\ NodeKnown'
  <2>1. PushesKnown'
    BY <1>1, PushesKept DEF OrphanInv
  <2>2. \A q \in Requests, u \in Users : Inserting(q, u) => Inserting(q, u)'
    BY <1>1 DEF Inserting
  <2>3. NodeKnown'
    BY <1>1, <2>2, NodeKept DEF OrphanInv
  <2> QED BY <2>1, <2>3
<1>2. CASE UNCHANGED vars \/ next_day
  BY <1>1, <1>2 DEF vars, next_day
<1>3. CASE record_config_hash(Sweep) \/ \E t \in Requests : record_config_hash(t)
  <2>1. PICK t \in Threads : record_config_hash(t)
    BY <1>3 DEF Threads
  <2>2. Goto(t, IdleThread) /\ th[t].pc = "record" /\ UNCHANGED <<row, remote, strays>>
    BY <2>1 DEF record_config_hash
  <2> QED BY <2>2, IdleFields, OrphanKept
<1>4. CASE crash
  <2>1. /\ \A t \in Threads : th'[t] = IdleThread
        /\ UNCHANGED <<row, remote>>
        /\ strays' = strays \cup {th[t].user : t \in {r \in Requests : th[r].pc = "insert" /\ th[r].cfg # NoConfig}}
    BY <1>4 DEF crash
  <2>2. PushesKnown'
    BY <2>1, IdleFields, PushesKept DEF OrphanInv
  <2>3. \A q \in Requests, u \in Users : Inserting(q, u) => u \in strays'
    BY <2>1 DEF Inserting
  <2>4. NodeKnown'
    BY <2>1, <2>3, NodeKept DEF OrphanInv
  <2> QED BY <2>2, <2>4
<1>5. ASSUME NEW t \in Requests,
             \/ \E u \in Users, new \in Rows : create_client(t, u, new) \/ update_client(t, u, new)
             \/ RequestStep(t)
      PROVE  PushesKnown' /\ NodeKnown'
  <2>1. t \in Workers
    BY DEF Workers
  <2> QED BY <1>3, <1>5, <2>1, RenderKeepsUsers, WriteKeepsUsers, PushKeepsUsers DEF RequestStep, Apply
<1>6. CASE refresh_node_configs \/ Apply(Sweep)
  <2>1. Sweep \in Workers
    BY DEF Workers
  <2> QED BY <1>3, <1>6, <2>1, RenderKeepsUsers, PushKeepsUsers DEF Apply
<1> QED BY <1>2, <1>4, <1>5, <1>6, InstallerKeepsUsers DEF Next

\* A user the node accepts has a row, or one is about to be inserted, whatever
\* requests, sweep and installer overlap and whatever fails, unless a push
\* failed after its effect or the process died before the row was inserted.
THEOREM UsersHaveRows == Spec => []NoOrphanUser
<1>1. Init => OrphanInv
  <2> SUFFICES ASSUME Init PROVE PushesKnown /\ NodeKnown
    BY InitKeepsType DEF OrphanInv
  <2>1. \A t \in Threads : th[t].pc \in {"idle", "i_render"}
    BY IdleFields DEF Init, Thread
  <2>2. RemoteUsers = {}
    BY DEF Init, RemoteUsers
  <2> QED BY <2>1, <2>2 DEF PushesKnown, NodeKnown
<1>2. OrphanInv => NoOrphanUser
  BY DEF OrphanInv, NodeKnown, NoOrphanUser
<1> QED BY <1>1, <1>2, StepKeepsUsers, PTL DEF Spec
-----------------------------------------------------------------------------
(* The recorded hash.                                                      *)

\* A thread moves on: it leaves node, hash and history alone and had nothing to
\* record; its push takes effect; the node's configuration is lost; it records.
LEMMA HashKept ==
  ASSUME HashInv, NEW t \in Threads, NEW next, Goto(t, next),
         \/ ~Pushed(th[t]) /\ UNCHANGED <<hash, remote, unrecorded, lost>>
         \/ Taken(t) /\ Pushed(next) /\ remote' = next.cfg
         \/ Lost
         \/ Recorded(t) /\ Pushed(th[t]) /\ hash' = th[t].cfg /\ UNCHANGED remote
  PROVE  Carried' /\ HashTruthful'
<1>1. \A q \in Threads : th'[q] = IF q = t THEN next ELSE th[q]
  BY DEF HashInv, TypeInv, ThreadsOK, Goto
<1>2. CASE ~Pushed(th[t]) /\ UNCHANGED <<hash, remote, unrecorded, lost>>
  <2>1. \A q \in unrecorded : q # t /\ q \in Threads
    BY <1>2 DEF HashInv, HistoryOK, Carried
  <2> QED BY <1>1, <1>2, <2>1 DEF HashInv, Carried, HashTruthful, Pushed
<1>3. CASE Taken(t) /\ Pushed(next) /\ remote' = next.cfg
  BY <1>1, <1>3 DEF Taken, Carried, HashTruthful, Pushed
<1>4. CASE Lost
  BY <1>4 DEF Lost, Carried, HashTruthful
<1>5. CASE Recorded(t) /\ Pushed(th[t]) /\ hash' = th[t].cfg /\ UNCHANGED remote
  <2>1. \A q \in unrecorded' : q # t /\ q \in unrecorded /\ th'[q] = th[q]
    BY <1>1, <1>5 DEF Recorded, HashInv, HistoryOK
  <2>2. Carried'
    BY <1>5, <2>1 DEF HashInv, Carried, Pushed
  <2>3. ASSUME unrecorded' = {}, ~lost' PROVE remote' = hash'
    <3>1. t \in unrecorded
      BY <1>5, <2>3 DEF Recorded
    <3> QED BY <1>5, <3>1 DEF HashInv, Carried
  <2> QED BY <2>2, <2>3 DEF HashTruthful
<1> QED BY <1>2, <1>3, <1>4, <1>5

\* Beginnings and renderings: the thread has pushed nothing yet.
LEMMA RenderKeepsHash ==
  ASSUME HashInv, NEW t \in Workers,
         \/ \E u \in Users, new \in Rows : create_client(t, u, new) \/ update_client(t, u, new)
         \/ t = Sweep /\ refresh_node_configs
         \/ render_with_new_user(t) \/ write_client(t) \/ apply_node_config(t) \/ render_node_config(t)
  PROVE  Carried' /\ HashTruthful'
<1>1. t \in Threads /\ ~Pushed(th[t]) /\ UNCHANGED <<hash, remote, unrecorded, lost>>
  BY DEF Workers, Threads, create_client, update_client, Begin, Idle, refresh_node_configs,
     render_with_new_user, write_client, apply_node_config, render_node_config, Pushed
<1>2. \E next : Goto(t, next)
  BY DEF create_client, update_client, refresh_node_configs, render_with_new_user, write_client,
     apply_node_config, render_node_config
<1> QED BY <1>1, <1>2, HashKept

\* Pushes and records.
LEMMA PushKeepsHash ==
  ASSUME HashInv, NEW t \in Workers,
         push_ok(t) \/ push_failed(t) \/ record_config_hash(t) \/ insert_client(t)
  PROVE  Carried' /\ HashTruthful'
<1>1. t \in Threads /\ Carries(t, th[t])
  BY ThreadTypes DEF HashInv, Workers, Threads
<1>2. CASE push_ok(t)
  <2>1. PICK next : Goto(t, next) /\ Pushed(next) /\ next.cfg = th[t].cfg
    BY <1>1, <1>2 DEF push_ok, Thread, Pushed, Carries
  <2> QED BY <1>1, <1>2, <2>1, HashKept DEF push_ok
<1>3. CASE push_failed(t)
  <2>1. ~Pushed(th[t]) /\ Goto(t, IdleThread)
    BY <1>3 DEF push_failed, Pushed
  <2>2. UNCHANGED <<hash, remote, unrecorded, lost>> \/ Lost
    BY <1>3 DEF push_failed
  <2> QED BY <1>1, <2>1, <2>2, HashKept
<1>4. CASE record_config_hash(t)
  BY <1>1, <1>4, HashKept DEF record_config_hash, Pushed
<1>5. CASE insert_client(t)
  <2>1. Goto(t, IdleThread) /\ UNCHANGED remote
    BY <1>5 DEF insert_client
  <2>2. CASE th[t].cfg = NoConfig
    BY <1>1, <1>5, <2>1, <2>2, HashKept DEF insert_client, Pushed
  <2>3. CASE th[t].cfg # NoConfig
    BY <1>1, <1>5, <2>1, <2>3, HashKept DEF insert_client, Pushed
  <2> QED BY <2>2, <2>3
<1> QED BY <1>2, <1>3, <1>4, <1>5

\* The installer records with the status what it installed.
LEMMA InstallerKeepsHash ==
  ASSUME HashInv, InstallerStep
  PROVE  Carried' /\ HashTruthful'
<1>1. Installer \in Threads
  BY DEF Threads
<1>2. CASE install_render
  BY <1>1, <1>2, HashKept DEF install_render, Pushed
<1>3. CASE install_ok
  <2>1. PICK next : Goto(Installer, next) /\ Pushed(next) /\ next.cfg = th[Installer].cfg
    BY <1>3 DEF install_ok, Thread, Pushed
  <2> QED BY <1>1, <1>3, <2>1, HashKept DEF install_ok
<1>4. CASE install_failed
  BY <1>1, <1>4, HashKept DEF install_failed
<1>5. CASE install_ready
  BY <1>1, <1>5, HashKept DEF install_ready, Pushed
<1> QED BY <1>2, <1>3, <1>4, <1>5 DEF InstallerStep

LEMMA StepKeepsHash == HashInv /\ [Next]_vars => HashInv'
<1> SUFFICES ASSUME HashInv, [Next]_vars PROVE Carried' /\ HashTruthful'
  BY StepKeepsType, StepKeepsHistory DEF HashInv
<1>1. CASE UNCHANGED vars \/ next_day
  BY <1>1 DEF vars, next_day, HashInv, Carried, HashTruthful
<1>2. CASE crash
  BY <1>2 DEF crash, HashInv, Carried, HashTruthful
<1>3. ASSUME NEW t \in Workers, Apply(t) PROVE Carried' /\ HashTruthful'
  BY <1>3, RenderKeepsHash, PushKeepsHash DEF Apply
<1>4. ASSUME NEW t \in Requests,
             \/ \E u \in Users, new \in Rows : create_client(t, u, new) \/ update_client(t, u, new)
             \/ RequestStep(t)
      PROVE  Carried' /\ HashTruthful'
  <2>1. t \in Workers
    BY DEF Workers
  <2> QED BY <1>3, <1>4, <2>1, RenderKeepsHash, PushKeepsHash DEF RequestStep
<1>5. CASE refresh_node_configs \/ Apply(Sweep)
  <2>1. Sweep \in Workers
    BY DEF Workers
  <2> QED BY <1>3, <1>5, <2>1, RenderKeepsHash
<1> QED BY <1>1, <1>2, <1>4, <1>5, InstallerKeepsHash DEF Next

\* The hash the panel remembers is that of the configuration the node runs
\* unless the push that took effect last is still to be recorded, failed after
\* its effect, died before its record, or was recorded before an older push:
\* whatever overlaps, fails and dies, nothing else makes the two differ.
THEOREM HashIsTruthful == Spec => []HashTruthful
<1>1. Init => HashInv
  <2> SUFFICES ASSUME Init PROVE HistoryOK /\ Carried /\ HashTruthful
    BY InitKeepsType DEF HashInv
  <2> QED BY DEF Init, HistoryOK, Carried, HashTruthful
<1>2. HashInv => HashTruthful
  BY DEF HashInv
<1> QED BY <1>1, <1>2, StepKeepsHash, PTL DEF Spec
=============================================================================
