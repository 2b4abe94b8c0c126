--------------------------- MODULE LoginThrottle ---------------------------
(***************************************************************************)
(* The login throttle (auth.py) as the login route uses it (server.py): a  *)
(* request looks at the lockout, checks the password, and only then        *)
(* registers the outcome.  Requests of one client run side by side in the  *)
(* thread pool, and the table outlives the process.  A failure is dated    *)
(* before it has the database to itself, so failures may be stored in      *)
(* another order than their times.                                         *)
(***************************************************************************)
EXTENDS Integers, Sequences, FiniteSets

CONSTANTS
    Clients,      \* client addresses
    Threads,      \* requests that can be in progress at once
    MaxAttempts,  \* failures that cause a lockout,
    Window,       \* when they lie within this many ticks
    Lockout,      \* ticks a lockout lasts
    Second,       \* ticks in a second
    Delay,        \* ticks a dated failure waits for the database at most
    Horizon,      \* the clock stops here
    NoClient, NoRow, NoTime

ASSUME QuotaAssumption == MaxAttempts \in Nat \ {0} /\ Second \in Nat \ {0}
ASSUME TimesAssumption ==
    {Window, Horizon, Delay} \subseteq Nat /\ Window <= Horizon /\ Lockout \in Nat \ {0}
ASSUME PoolAssumption == IsFiniteSet(Threads) /\ Threads # {}

\* The instants of the model, and the rows of the table (database.py).
Times == Window..Horizon
Rows == [failures : Seq(Times), lockedUntil : {0} \cup (Window + Lockout)..(Horizon + Lockout),
         updatedAt : 0..Horizon]

ASSUME NullAssumption == NoClient \notin Clients /\ NoRow \notin Rows /\ NoTime \notin Times

VARIABLES
    now,          \* time.time(), in ticks
    row,          \* login_rate_limits
    attempt,      \* the client whose password a thread is checking
    clock,        \* the time a thread read for the failure it registers
    (* history *)
    failed,       \* failures since the last login, or a lockout that was over
    slipped       \* failures registered while new attempts were turned away

vars == <<now, row, attempt, clock, failed, slipped>>

\* A row without a lockout has locked_until = 0.
Row(failures, until, at) == [failures |-> failures, lockedUntil |-> until, updatedAt |-> at]
LockedUntil(k) == IF row[k] = NoRow THEN 0 ELSE row[k].lockedUntil
Max2(a, b) == IF a > b THEN a ELSE b

\* _remaining: whole seconds, rounded towards 0.
Remaining(k) == Max2(0, (LockedUntil(k) - now) \div Second)

\* The failures of a sequence from some time on, in their order (a recursive
\* function, which can be reasoned about, for SelectSeq).
Since(failures, from) ==
    LET upTo[n \in 0..Len(failures)] ==
          IF n = 0 THEN <<>>
          ELSE IF failures[n] >= from THEN Append(upTo[n - 1], failures[n])
          ELSE upTo[n - 1]
    IN upTo[Len(failures)]

-----------------------------------------------------------------------------
\* The clock starts late enough for a window to lie behind it.
Init ==
    /\ now = Window
    /\ row = [k \in Clients |-> NoRow]
    /\ attempt = [t \in Threads |-> NoClient]
    /\ clock = [t \in Threads |-> NoTime]
    /\ failed = [k \in Clients |-> <<>>]
    /\ slipped = [k \in Clients |-> 0]

\* Mutant: the lockout is not looked at.
lockout_remaining_ignored(t, k) ==
    /\ attempt[t] = NoClient
    /\ attempt' = [attempt EXCEPT ![t] = k]
    /\ UNCHANGED <<now, row, clock, failed, slipped>>

\* The check at the start of login(); a client that is locked out is answered
\* at once and changes nothing.  (A clock read before a wait for the row only
\* turns away more: whoever passes with it passes now.)
lockout_remaining(t, k) ==
    /\ attempt[t] = NoClient
    /\ Remaining(k) = 0
    /\ attempt' = [attempt EXCEPT ![t] = k]
    /\ UNCHANGED <<now, row, clock, failed, slipped>>

\* The password was wrong: register_failure dates the failure, and then waits
\* for its transaction.
read_clock(t) ==
    /\ attempt[t] # NoClient /\ clock[t] = NoTime
    /\ clock' = [clock EXCEPT ![t] = now]
    /\ UNCHANGED <<now, row, attempt, failed, slipped>>

\* Mutant: only the age of the row counts.
Purged_locked(rows, at) ==
    [k \in Clients |-> IF rows[k] # NoRow /\ rows[k].updatedAt < (at - Window) \div Second
                         THEN NoRow ELSE rows[k]]

\* _purge_stale: the lockout is over, and so is the window; updated_at has
\* whole seconds.
Purged(rows, at) ==
    [k \in Clients |->
       IF /\ rows[k] # NoRow
          /\ rows[k].lockedUntil <= at
          /\ rows[k].updatedAt < (at - Window) \div Second
         THEN NoRow ELSE rows[k]]

\* Mutant: old failures are kept.
Kept_for_ever(k, at) == IF row[k] = NoRow \/ LockedUntil(k) \in 1..at THEN <<>> ELSE row[k].failures

\* The failures that count beside a new one: none after a lockout that has
\* been served, otherwise those within the window.
Kept(k, at) ==
    IF row[k] = NoRow \/ LockedUntil(k) \in 1..at THEN <<>>
    ELSE Since(row[k].failures, at - Window)

\* The history of every client after a failure: a lockout that is over by the
\* date of the failure, or whose row is purged, closes it.
FailedAfter(k, at) ==
    [j \in Clients |->
       LET before == IF LockedUntil(j) \in 1..at /\ (j = k \/ row'[j] = NoRow) THEN <<>> ELSE failed[j]
       IN IF j = k THEN Append(before, at) ELSE before]

\* Mutant: the new failure is not in the list.
register_failure_uncounted(t) ==
    /\ clock[t] # NoTime
    /\ LET k == attempt[t]
           at == clock[t]
           before == IF LockedUntil(k) <= at THEN 0 ELSE LockedUntil(k)
           until == IF Len(Kept(k, at)) + 1 >= MaxAttempts THEN Max2(before, at + Lockout) ELSE before
       IN /\ row' = Purged([row EXCEPT ![k] = Row(Kept(k, at), until, at \div Second)], at)
          /\ failed' = FailedAfter(k, at)
          /\ slipped' = [slipped EXCEPT ![k] = IF Remaining(k) > 0 THEN @ + 1 ELSE @]
    /\ attempt' = [attempt EXCEPT ![t] = NoClient]
    /\ clock' = [clock EXCEPT ![t] = NoTime]
    /\ UNCHANGED now

\* The transaction of register_failure; its only time is the one read before.
register_failure(t) ==
    /\ clock[t] # NoTime
    /\ LET k == attempt[t]
           at == clock[t]
           failures == Append(Kept(k, at), at)
           before == IF LockedUntil(k) <= at THEN 0 ELSE LockedUntil(k)
           until == IF Len(failures) >= MaxAttempts THEN Max2(before, at + Lockout) ELSE before
       IN /\ row' = Purged([row EXCEPT ![k] = Row(failures, until, at \div Second)], at)
          /\ failed' = FailedAfter(k, at)
          /\ slipped' = [slipped EXCEPT ![k] = IF Remaining(k) > 0 THEN @ + 1 ELSE @]
    /\ attempt' = [attempt EXCEPT ![t] = NoClient]
    /\ clock' = [clock EXCEPT ![t] = NoTime]
    /\ UNCHANGED now

\* It was right.
register_success(t) ==
    /\ attempt[t] # NoClient /\ clock[t] = NoTime
    /\ row' = [row EXCEPT ![attempt[t]] = NoRow]
    /\ failed' = [failed EXCEPT ![attempt[t]] = <<>>]
    /\ slipped' = [slipped EXCEPT ![attempt[t]] = 0]
    /\ attempt' = [attempt EXCEPT ![t] = NoClient]
    /\ UNCHANGED <<now, clock>>

\* The payload cannot be read, or the database stays busy for too long: the
\* request fails, and registers nothing.
give_up(t) ==
    /\ attempt[t] # NoClient
    /\ attempt' = [attempt EXCEPT ![t] = NoClient]
    /\ clock' = [clock EXCEPT ![t] = NoTime]
    /\ UNCHANGED <<now, row, failed, slipped>>

\* Time passes, but no failure waits longer than Delay for its transaction;
\* what slipped counts for one lockout.
tick ==
    /\ now < Horizon /\ \A t \in Threads : clock[t] # NoTime => now < clock[t] + Delay
    /\ now' = now + 1
    /\ slipped' = [k \in Clients |-> IF LockedUntil(k) - now' < Second THEN 0 ELSE slipped[k]]
    /\ UNCHANGED <<row, attempt, clock, failed>>

\* The process dies and is started again: attempts are lost, rows are not.
restart ==
    /\ attempt' = [t \in Threads |-> NoClient]
    /\ clock' = [t \in Threads |-> NoTime]
    /\ UNCHANGED <<now, row, failed, slipped>>

Next ==
    \/ \E t \in Threads :
         \/ \E k \in Clients : lockout_remaining(t, k)
         \/ read_clock(t) \/ register_failure(t) \/ register_success(t) \/ give_up(t)
    \/ tick \/ restart

Spec == Init /\ [][Next]_vars

-----------------------------------------------------------------------------
\* The shape of the table and of the threads; a row never has an empty list of
\* failures.
TypeOK ==
    /\ now \in Times
    /\ row \in [Clients -> Rows \cup {NoRow}]
    /\ \A k \in Clients : row[k] # NoRow => row[k].failures # <<>>
    /\ attempt \in [Threads -> Clients \cup {NoClient}]
    /\ clock \in [Threads -> Times \cup {NoTime}]
    /\ \A t \in Threads : clock[t] # NoTime =>
         attempt[t] # NoClient /\ clock[t] <= now /\ now <= clock[t] + Delay
    /\ failed \in [Clients -> Seq(Times)] /\ slipped \in [Clients -> Nat]

\* Enough failures close together have locked the client out, for a whole
\* lockout after the last that was stored: neither the purge that another
\* client's failure triggers, nor a restart loses one of them.  "Close" is
\* the window less twice the delay: a failure that is stored late, after
\* younger ones, sets updated_at back by up to Delay, and a purge may then
\* take its row away while the young ones count.
LockoutEngages ==
    \A k \in Clients : failed[k] # <<>> =>
      LET last == failed[k][Len(failed[k])]
      IN /\ Len(Since(failed[k], last - (Window - 2 * Delay))) >= MaxAttempts
         /\ now < last + Lockout
         => LockedUntil(k) >= last + Lockout

\* A client is locked out only for failures none of which lies more than a
\* window before one of them, none before his last login, and none before a
\* lockout that was over by the time of a later failure.
LockoutDeserved ==
    \A k \in Clients : LockedUntil(k) > now =>
      \E i \in 1..Len(failed[k]) :
        /\ LockedUntil(k) = failed[k][i] + Lockout
        /\ Len(Since(SubSeq(failed[k], 1, i), failed[k][i] - Window)) >= MaxAttempts

\* During a lockout nothing gets through but what was already in flight: at
\* most one attempt of every other thread.
SlipBounded == \A k \in Clients : slipped[k] < Cardinality(Threads)
=============================================================================
