------------------------------- MODULE JobLog -------------------------------
(***************************************************************************)
(* The log of a job (services/base.py) and the page that follows it        *)
(* (static/app.js).  A worker appends lines while the page polls: every    *)
(* poll reads the job's row, then the lines after the last one it has.     *)
(* Only the newest MaxJobLogEntries lines are kept.  A line stands for its *)
(* place in the order in which the lines were written.                     *)
(*                                                                         *)
(* The page is opened once.  Opening the same job again while a poll is on *)
(* its way starts a second loop beside the first, which shows lines twice; *)
(* that is left out.                                                       *)
(***************************************************************************)
EXTENDS Naturals, Sequences, FiniteSets, FiniteSetsExt

CONSTANTS MaxJobLogEntries, NoStatus

ASSUME LogAssumption == MaxJobLogEntries \in Nat \ {0} /\ NoStatus \notin {"running", "success", "failed"}

VARIABLES
    job,     \* jobs.status, NoStatus before the job is inserted
    logs,    \* job_logs
    written, \* lines written so far
    page     \* the page: last sequence number, lines shown, status of a poll under way

logVars == <<job, logs, written, page>>

Final == {"success", "failed"}

InitLog ==
    /\ job = NoStatus /\ logs = {} /\ written = 0
    /\ page = [after |-> 0, shown |-> <<>>, read |-> NoStatus, done |-> FALSE]

NextSeq == Max({0} \cup {e.seq : e \in logs}) + 1

\* _append_job_log: one transaction.
append_job_log ==
    LET seq == NextSeq
    IN  /\ logs' = {e \in logs \cup {[seq |-> seq, line |-> written + 1]} : e.seq > seq - MaxJobLogEntries}
        /\ written' = written + 1

\* The row of get_job.
get_job_row ==
    /\ job # NoStatus /\ ~page.done /\ page.read = NoStatus
    /\ page' = [page EXCEPT !.read = job]
    /\ UNCHANGED <<job, logs, written>>

\* The rows in the order of their sequence numbers, as lines.
InOrder(rows) ==
    LET sorted == CHOOSE s \in [1..Cardinality(rows) -> rows] :
                    \A i, k \in DOMAIN s : i < k => s[i].seq < s[k].seq
    IN  [i \in DOMAIN sorted |-> sorted[i].line]
Newest(lines, n) == IF Len(lines) > n THEN SubSeq(lines, Len(lines) - n + 1, Len(lines)) ELSE lines

\* Mutant: the lines received are counted.
get_job_logs_counted ==
    LET rows == {e \in logs : e.seq > page.after}
    IN  /\ page.read # NoStatus
        /\ page' = [after |-> page.after + Cardinality(rows),
                    shown |-> Newest(page.shown \o InOrder(rows), MaxJobLogEntries),
                    read  |-> NoStatus,
                    done  |-> page.read \in Final]
        /\ UNCHANGED <<job, logs, written>>

\* The lines of get_job, and the page's tick: it stops at a final status.
get_job_logs ==
    LET rows == {e \in logs : e.seq > page.after}
    IN  /\ page.read # NoStatus
        /\ page' = [after |-> Max({page.after} \cup {e.seq : e \in rows}),
                    shown |-> Newest(page.shown \o InOrder(rows), MaxJobLogEntries),
                    read  |-> NoStatus,
                    done  |-> page.read \in Final]
        /\ UNCHANGED <<job, logs, written>>

\* The poll fails; the page asks again after the same line.
poll_fails ==
    /\ page.read # NoStatus
    /\ page' = [page EXCEPT !.read = NoStatus]
    /\ UNCHANGED <<job, logs, written>>

PageNext == get_job_row \/ get_job_logs \/ poll_fails

LogTypeOK ==
    /\ job \in {NoStatus, "running"} \cup Final
    /\ written \in Nat
    /\ logs \subseteq [seq : 1..written, line : 1..written]
    /\ page \in [after : 0..written, shown : Seq(1..written),
                 read : {NoStatus, "running"} \cup Final, done : BOOLEAN]

\* The page shows no line twice and none out of order, and when it has seen the
\* end of the job it shows every line that is kept, however lines, the end of
\* the job, a restart and the dropping of old lines fall between its reads.
LogFollowed ==
    /\ \A i, k \in DOMAIN page.shown : i < k => page.shown[i] < page.shown[k]
    /\ page.done => \A e \in logs : \E i \in DOMAIN page.shown : page.shown[i] = e.line
=============================================================================
