----------------------------- MODULE JobsTable -----------------------------
(***************************************************************************)
(* The job queue kept in Postgres: the tables atlantis.jobs and            *)
(* atlantis.jobs_dead, and the SQL statements every claimant runs against  *)
(* them (clients/go/jobs/sql.go, internal/server/admin/jobs.go).  One      *)
(* queue is modelled; queues share no row.                                 *)
(*                                                                         *)
(* A row keeps the columns the statements read or write.  claimed_until    *)
(* is abstracted to where now() stands relative to it: "live" (in the      *)
(* future), "expired" (past), "stale" (past by more than the five minutes  *)
(* of SweepExhaustedToDLQ), "null".  A job with a future scheduled_for is  *)
(* one that has not been submitted yet: no statement touches it before.    *)
(* timeout tells a NULL timeout_ms from a deadline.                        *)
(***************************************************************************)
EXTENDS Naturals, FiniteSets

CONSTANTS
    Jobs,         \* the ids jobs can have
    MaxRetries,   \* max_retries of each job, from its declaration in the IR
    Timed,        \* jobs declared with a timeout
    Holders,      \* values of claimed_by: pods and worker sessions
    NoHolder      \* claimed_by IS NULL

ASSUME JobsTableAssumption ==
    /\ IsFiniteSet(Jobs)
    /\ MaxRetries \in [Jobs -> Nat]
    /\ Timed \subseteq Jobs
    /\ NoHolder \notin Holders

VARIABLES
    jobs,         \* atlantis.jobs by id; status "absent" is "no such row"
    dead          \* the ids in atlantis.jobs_dead

tableVars == <<jobs, dead>>

(* The CHECK on status also admits 'failed', which no statement writes. *)
Row == [status   : {"absent", "pending", "running", "complete"},
        attempts : Nat,
        holder   : Holders \cup {NoHolder},
        lease    : {"null", "live", "expired", "stale"},
        timeout  : {"null", "set"}]

NoRow == [status |-> "absent", attempts |-> 0, holder |-> NoHolder,
          lease |-> "null", timeout |-> "null"]

Present(j) == jobs[j].status # "absent"

(* GREATEST(max_retries, 1): how often a row may be claimed. *)
ClaimBudget(j) == IF MaxRetries[j] > 1 THEN MaxRetries[j] ELSE 1

Exhausted(j) == jobs[j].attempts >= ClaimBudget(j)

(* The row with its claim columns cleared and the given status. *)
Unclaimed(row, status) ==
    [row EXCEPT !.status = status, !.holder = NoHolder, !.lease = "null"]

(* The row as the claim statement writes it. *)
Claimed(row, h) ==
    [row EXCEPT !.status = "running", !.attempts = @ + 1, !.holder = h, !.lease = "live"]

-----------------------------------------------------------------------------

TableInit ==
    /\ jobs = [j \in Jobs |-> NoRow]
    /\ dead = {}

(* INSERT of a fresh id: id comes from a sequence, so it was never used.   *)
(* Declarations with `timeout none` get a NULL timeout_ms.                 *)
SubmitJob(j) ==
    /\ ~Present(j)
    /\ j \notin dead
    /\ jobs' = [jobs EXCEPT ![j] = [NoRow EXCEPT !.status = "pending",
                                                 !.timeout = IF j \in Timed THEN "set" ELSE "null"]]
    /\ UNCHANGED dead

(* Mutant of Claimable: the budget test lets one claim too many through. *)
ClaimableOnceMore(j) ==
    /\ jobs[j].attempts <= ClaimBudget(j)
    /\ \/ jobs[j].status = "pending"
       \/ jobs[j].status = "running" /\ jobs[j].lease \in {"null", "expired", "stale"}

(* The WHERE clause of the claim statement. *)
Claimable(j) ==
    /\ ~Exhausted(j)
    /\ \/ jobs[j].status = "pending"
       \/ jobs[j].status = "running" /\ jobs[j].lease \in {"null", "expired", "stale"}

(* One claim statement takes the rows S.  SKIP LOCKED lets it pass over    *)
(* rows another transaction has locked, so any set of claimable rows can   *)
(* be the one it takes; the caller bounds its size by LIMIT.               *)
ClaimRows(S, h) ==
    /\ \A j \in S : Claimable(j)
    /\ jobs' = [j \in Jobs |-> IF j \in S THEN Claimed(jobs[j], h) ELSE jobs[j]]
    /\ UNCHANGED dead

ExtendLease(S, h) ==
    /\ jobs' = [j \in Jobs |-> IF j \in S /\ jobs[j].holder = h
                               THEN [jobs[j] EXCEPT !.lease = "live"]
                               ELSE jobs[j]]
    /\ UNCHANGED dead

MarkComplete(j) ==
    /\ jobs' = IF Present(j)
               THEN [jobs EXCEPT ![j] = Unclaimed(@, "complete")]
               ELSE jobs
    /\ UNCHANGED dead

(* Mutant of MoveToDLQ: the row is deleted and not copied. *)
MoveToDLQDeletes(j) ==
    /\ jobs' = [jobs EXCEPT ![j] = NoRow]
    /\ UNCHANGED dead

(* INSERT INTO jobs_dead SELECT ... ; DELETE FROM jobs, in one             *)
(* transaction.  An id that jobs_dead already holds violates its primary   *)
(* key and rolls the transaction back.                                     *)
MoveToDLQ(j) ==
    IF Present(j) /\ j \notin dead
    THEN /\ jobs' = [jobs EXCEPT ![j] = NoRow]
         /\ dead' = dead \cup {j}
    ELSE UNCHANGED tableVars

(* Mutant of ReportFailure: a failed row is parked under a status no       *)
(* statement looks for.                                                    *)
ReportFailureParks(j, attempts) ==
    IF attempts >= MaxRetries[j]
    THEN MoveToDLQ(j)
    ELSE /\ jobs' = IF Present(j)
                    THEN [jobs EXCEPT ![j] = Unclaimed(@, "failed")]
                    ELSE jobs
         /\ UNCHANGED dead

(* Mutant of ReportFailure: retries are counted from 1. *)
ReportFailureEarly(j, attempts) ==
    IF attempts + 1 >= MaxRetries[j]
    THEN MoveToDLQ(j)
    ELSE /\ jobs' = IF Present(j)
                    THEN [jobs EXCEPT ![j] = Unclaimed(@, "pending")]
                    ELSE jobs
         /\ UNCHANGED dead

(* attempts is what the caller passes, not what the row holds now. *)
ReportFailure(j, attempts) ==
    IF attempts >= MaxRetries[j]
    THEN MoveToDLQ(j)
    ELSE /\ jobs' = IF Present(j)
                    THEN [jobs EXCEPT ![j] = Unclaimed(@, "pending")]
                    ELSE jobs
         /\ UNCHANGED dead

(* Mutant of Sweepable: the reaper looks at pending rows only. *)
SweepablePending(j) == Exhausted(j) /\ jobs[j].status = "pending"

(* Mutant of Sweepable: max_retries without its floor of one claim. *)
SweepableNoFloor(j) ==
    /\ jobs[j].attempts >= MaxRetries[j]
    /\ \/ jobs[j].status = "pending"
       \/ jobs[j].status = "running" /\ jobs[j].lease = "stale"

(* The WHERE clause of the reaper's statement. *)
Sweepable(j) ==
    /\ Exhausted(j)
    /\ \/ jobs[j].status = "pending"
       \/ jobs[j].status = "running" /\ jobs[j].lease = "stale"

SweepExhaustedToDLQ(S) ==
    /\ \A j \in S : Sweepable(j) /\ j \notin dead
    /\ jobs' = [j \in Jobs |-> IF j \in S THEN NoRow ELSE jobs[j]]
    /\ dead' = dead \cup S

(* Mutant of ReleaseRow: status is left running. *)
ReleaseRowRunning(j, h) ==
    /\ jobs' = IF jobs[j].holder = h
               THEN [jobs EXCEPT ![j] = Unclaimed(@, "running")]
               ELSE jobs
    /\ UNCHANGED dead

(* Mutant of ReleaseRow: the attempt is given back. *)
ReleaseRowRefunds(j, h) ==
    /\ jobs' = IF jobs[j].holder = h /\ jobs[j].attempts > 0
               THEN [jobs EXCEPT ![j] = [Unclaimed(@, "pending") EXCEPT !.attempts = @ - 1]]
               ELSE jobs
    /\ UNCHANGED dead

(* Mutant of ReleaseRow: no predicate on claimed_by. *)
ReleaseRowAnyone(j, h) ==
    /\ jobs' = IF Present(j)
               THEN [jobs EXCEPT ![j] = Unclaimed(@, "pending")]
               ELSE jobs
    /\ UNCHANGED dead

ReleaseRow(j, h) ==
    /\ jobs' = IF jobs[j].holder = h
               THEN [jobs EXCEPT ![j] = Unclaimed(@, "pending")]
               ELSE jobs
    /\ UNCHANGED dead

(* UPDATE ... SET claimed_by WHERE id: no predicate on the current holder. *)
BindClaim(j, h) ==
    /\ jobs' = IF Present(j) THEN [jobs EXCEPT ![j].holder = h] ELSE jobs
    /\ UNCHANGED dead

(* Mutant of RetryDeadJob: the dead row is not deleted. *)
RetryDeadJobKeepsDead(j) ==
    /\ j \in dead
    /\ ~Present(j)
    /\ jobs' = [jobs EXCEPT ![j] = [NoRow EXCEPT !.status = "pending"]]
    /\ UNCHANGED dead

(* Re-insert with attempts 0; jobs_dead has no timeout_ms column, so the   *)
(* new row has none either.                                                *)
RetryDeadJob(j) ==
    /\ j \in dead
    /\ ~Present(j)
    /\ jobs' = [jobs EXCEPT ![j] = [NoRow EXCEPT !.status = "pending"]]
    /\ dead' = dead \ {j}

(* Time passes over claimed_until, and then over the reaper's grace. *)
LeaseLapses(j) ==
    /\ jobs[j].lease \in {"live", "expired"}
    /\ jobs' = [jobs EXCEPT ![j].lease = IF @ = "live" THEN "expired" ELSE "stale"]
    /\ UNCHANGED dead

-----------------------------------------------------------------------------

(* Any caller may run any statement at any time: the table promises what   *)
(* holds of every client, however stale what it knows.                     *)
TableNext ==
    \/ \E j \in Jobs : \/ SubmitJob(j)
                       \/ MarkComplete(j)
                       \/ MoveToDLQ(j)
                       \/ RetryDeadJob(j)
                       \/ LeaseLapses(j)
                       \/ \E a \in 0..ClaimBudget(j) : ReportFailure(j, a)
                       \/ \E h \in Holders : ReleaseRow(j, h) \/ BindClaim(j, h)
    \/ \E S \in SUBSET Jobs : \/ SweepExhaustedToDLQ(S)
                              \/ \E h \in Holders : ClaimRows(S, h) \/ ExtendLease(S, h)

TableSpec == TableInit /\ [][TableNext]_tableVars

-----------------------------------------------------------------------------
(* Properties of the tables, whoever calls *)

TableTypeOK ==
    /\ jobs \in [Jobs -> Row]
    /\ dead \in SUBSET Jobs

(* No id is in both tables: MoveToDLQ and SweepExhaustedToDLQ insert and   *)
(* delete in one transaction, RetryDeadJob too, and each would hit a       *)
(* primary key otherwise.                                                  *)
InOneTable == \A j \in dead : ~Present(j)

(* The claim statement hands a row out at most GREATEST(max_retries, 1)    *)
(* times, whatever callers report in between (buildClaimSQL).              *)
AttemptsWithinBudget == \A j \in Jobs : jobs[j].attempts <= ClaimBudget(j)

(* A running row has a claimed_until: the claim statement's and the        *)
(* reaper's lease predicates between them see every abandoned row.         *)
RunningRowsExpire ==
    \A j \in Jobs : jobs[j].status = "running" => jobs[j].lease # "null"

(* A submitted job is never lost: no statement takes its row out of one    *)
(* table without putting it into the other.                                *)
NoJobLost ==
    [][\A j \in Jobs : Present(j) \/ j \in dead => Present(j)' \/ j \in dead']_tableVars

(* As long as a row stays in atlantis.jobs its attempts never go down, so  *)
(* AttemptsWithinBudget bounds the claims of one life of the job.          *)
AttemptsNeverReset ==
    [][\A j \in Jobs : Present(j) /\ Present(j)'
                        => jobs'[j].attempts >= jobs[j].attempts]_tableVars

(* `timeout 30m` is a "Per-attempt deadline": a job declared with one has  *)
(* it in every attempt, those after the dead-letter queue and back too     *)
(* (RetryDeadJob).                                                         *)
TimeoutKept == \A j \in Timed : Present(j) => jobs[j].timeout = "set"

(* What a submitter sees of the tables. *)
PhaseOf(j) ==
    CASE j \in dead -> "dead"
      [] jobs[j].status = "absent" /\ j \notin dead -> "new"
      [] jobs[j].status = "pending" -> "queued"
      [] jobs[j].status = "running" -> "taken"
      [] jobs[j].status = "complete" -> "done"

Lifecycle == INSTANCE JobLifecycle
    WITH Budget <- [j \in Jobs |-> ClaimBudget(j)],
         phase <- [j \in Jobs |-> PhaseOf(j)],
         tries <- [j \in Jobs |-> jobs[j].attempts]

=============================================================================
