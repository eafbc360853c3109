-------------------------- MODULE JobsTable_proofs --------------------------
(***************************************************************************)
(* The promises of the job tables hold for any number of jobs, claimants   *)
(* and retries, and whatever statements the clients run.  The last two     *)
(* sections say what one statement does to the rows and to the phase of a  *)
(* job when its caller is entitled to it: Ownership_proofs builds on them.  *)
(***************************************************************************)
EXTENDS JobsTable, TLAPS

(* There is no row where there is no row: ReleaseRow and ExtendLease, which *)
(* look at claimed_by only, cannot match an absent one.                    *)
AbsentIsNoRow == \A j \in Jobs : ~Present(j) => jobs[j] = NoRow

(* InOneTable is not inductive alone: a release must not match an absent   *)
(* row, which AbsentIsNoRow excludes because NoHolder is no holder.        *)
TableInv ==
    /\ TableTypeOK
    /\ AbsentIsNoRow
    /\ InOneTable
    /\ AttemptsWithinBudget
    /\ RunningRowsExpire

(* The claim budget is a positive number: GREATEST(max_retries, 1). *)
LEMMA BudgetPositive == \A j \in Jobs : ClaimBudget(j) \in Nat /\ ClaimBudget(j) >= 1
  BY JobsTableAssumption DEF JobsTableAssumption, ClaimBudget

LEMMA NoRowIsRow == NoRow \in Row
  BY DEF NoRow, Row

(* Clearing the claim columns of a row leaves a row with its attempts. *)
LEMMA UnclaimedIsRow ==
    ASSUME NEW r \in Row, NEW st \in {"pending", "complete"}
    PROVE  /\ Unclaimed(r, st) \in Row
           /\ Unclaimed(r, st).status = st
           /\ Unclaimed(r, st).attempts = r.attempts
  BY Zenon DEF Unclaimed, Row

(* A claimed row is a row, with one attempt more. *)
LEMMA ClaimedTypes ==
    ASSUME NEW r \in Row, NEW h \in Holders, NEW n \in Nat
    PROVE  [r EXCEPT !.status = "running", !.attempts = n,
                     !.holder = h, !.lease = "live"] \in Row
  BY Zenon DEF Row

LEMMA ClaimedIsRow ==
    ASSUME NEW r \in Row, NEW h \in Holders
    PROVE  /\ Claimed(r, h) \in Row
           /\ Claimed(r, h).status = "running"
           /\ Claimed(r, h).lease = "live"
           /\ r.attempts \in Nat
           /\ Claimed(r, h).attempts = r.attempts + 1
  <1> r.attempts \in Nat /\ r.attempts + 1 \in Nat
    BY DEF Row
  <1> Claimed(r, h) \in Row
    BY ClaimedTypes, Zenon DEF Claimed
  <1>   Claimed(r, h).status = "running" /\ Claimed(r, h).lease = "live"
        /\ Claimed(r, h).attempts = r.attempts + 1
    BY DEF Claimed, Row
  <1> QED
    OBVIOUS

(* Every statement run by a holder about a job is a step of the tables. *)
LEMMA StatementsAreSteps ==
    ASSUME NEW j \in Jobs
    PROVE  /\ SubmitJob(j) => TableNext
           /\ MarkComplete(j) => TableNext
           /\ MoveToDLQ(j) => TableNext
           /\ RetryDeadJob(j) => TableNext
           /\ LeaseLapses(j) => TableNext
           /\ \A h \in Holders : ReleaseRow(j, h) => TableNext
           /\ \A h \in Holders : BindClaim(j, h) => TableNext
           /\ \A h \in Holders : ExtendLease({j}, h) => TableNext
           /\ \A h \in Holders : ClaimRows({j}, h) => TableNext
           /\ \A a \in 0..ClaimBudget(j) : ReportFailure(j, a) => TableNext
  <1> {j} \in SUBSET Jobs
    OBVIOUS
  <1> QED
    BY DEF TableNext

(* The empty tables satisfy the invariant. *)
LEMMA TableInitInv == TableInit => TableInv
  <1> SUFFICES ASSUME TableInit PROVE TableInv
    OBVIOUS
  <1>1. TableTypeOK
    BY NoRowIsRow DEF TableInit, TableTypeOK
  <1> AbsentIsNoRow /\ InOneTable /\ RunningRowsExpire
    BY DEF TableInit, AbsentIsNoRow, InOneTable, RunningRowsExpire, NoRow
  <1> AttemptsWithinBudget
    BY BudgetPositive DEF TableInit, AttemptsWithinBudget, NoRow
  <1> QED
    BY <1>1 DEF TableInv

(* Every statement preserves the invariant. *)
LEMMA TableStepInv == TableInv /\ [TableNext]_tableVars => TableInv'
  <1> SUFFICES ASSUME TableInv, [TableNext]_tableVars PROVE TableInv'
    OBVIOUS
  <1> USE DEF TableInv, TableTypeOK, AbsentIsNoRow, InOneTable,
              AttemptsWithinBudget, RunningRowsExpire, Present
  <1>1. ASSUME NEW j \in Jobs, SubmitJob(j) PROVE TableInv'
    BY <1>1, BudgetPositive, JobsTableAssumption, Zenon
       DEF SubmitJob, NoRow, Row, JobsTableAssumption
  <1>2. ASSUME NEW j \in Jobs, MarkComplete(j) PROVE TableInv'
    <2> TableTypeOK'
      BY <1>2, UnclaimedIsRow DEF MarkComplete
    <2>   ASSUME NEW k \in Jobs
          PROVE  \/ k = j /\ Present(j) /\ jobs'[k] = Unclaimed(jobs[j], "complete")
                 \/ jobs'[k] = jobs[k]
      BY <1>2 DEF MarkComplete
    <2> QED
      BY <1>2, UnclaimedIsRow DEF MarkComplete
  <1>3. ASSUME NEW j \in Jobs, MoveToDLQ(j) PROVE TableInv'
    BY <1>3, BudgetPositive, NoRowIsRow DEF MoveToDLQ, NoRow, tableVars
  <1>4. ASSUME NEW j \in Jobs, RetryDeadJob(j) PROVE TableInv'
    BY <1>4, BudgetPositive DEF RetryDeadJob, NoRow, Row
  <1>5. ASSUME NEW j \in Jobs, LeaseLapses(j) PROVE TableInv'
    BY <1>5 DEF LeaseLapses, NoRow, Row
  <1>6. ASSUME NEW j \in Jobs, NEW a \in 0..ClaimBudget(j), ReportFailure(j, a)
        PROVE TableInv'
    <2> CASE MoveToDLQ(j)
      BY <1>3
    <2>   CASE /\ jobs' = IF Present(j) THEN [jobs EXCEPT ![j] = Unclaimed(@, "pending")]
                                        ELSE jobs
               /\ UNCHANGED dead
      <3> TableTypeOK'
        BY UnclaimedIsRow
      <3>   ASSUME NEW k \in Jobs
            PROVE  \/ k = j /\ Present(j) /\ jobs'[k] = Unclaimed(jobs[j], "pending")
                   \/ jobs'[k] = jobs[k]
        OBVIOUS
      <3> QED
        BY UnclaimedIsRow
    <2> QED
      BY <1>6 DEF ReportFailure
  <1>7. ASSUME NEW j \in Jobs, NEW h \in Holders, ReleaseRow(j, h) PROVE TableInv'
    <2>1. TableTypeOK'
      BY <1>7, UnclaimedIsRow DEF ReleaseRow
    <2> jobs[j].holder = h => Present(j)
      BY JobsTableAssumption DEF NoRow, JobsTableAssumption
    <2>   ASSUME NEW k \in Jobs
          PROVE  \/ k = j /\ Present(j) /\ jobs'[k] = Unclaimed(jobs[j], "pending")
                 \/ jobs'[k] = jobs[k]
      BY <1>7 DEF ReleaseRow
    <2> QED
      BY <1>7, <2>1, UnclaimedIsRow DEF ReleaseRow
  <1>8. ASSUME NEW j \in Jobs, NEW h \in Holders, BindClaim(j, h) PROVE TableInv'
    BY <1>8 DEF BindClaim, Row
  <1>9. ASSUME NEW S \in SUBSET Jobs, SweepExhaustedToDLQ(S) PROVE TableInv'
    BY <1>9, BudgetPositive, NoRowIsRow DEF SweepExhaustedToDLQ, NoRow
  <1>10. ASSUME NEW S \in SUBSET Jobs, NEW h \in Holders, ClaimRows(S, h)
         PROVE TableInv'
    <2>1. ASSUME NEW k \in Jobs
          PROVE  \/ /\ Present(k) /\ k \notin dead
                    /\ jobs'[k] \in Row
                    /\ jobs'[k].status = "running"
                    /\ jobs'[k].lease = "live"
                    /\ jobs'[k].attempts <= ClaimBudget(k)
                 \/ jobs'[k] = jobs[k]
      <3> CASE k \in S
        <4>0. Claimable(k)
          BY <1>10 DEF ClaimRows
        <4>1. Present(k) /\ k \notin dead
          BY <4>0 DEF Claimable
        <4>4. jobs[k].attempts < ClaimBudget(k)
          <5> ~(jobs[k].attempts >= ClaimBudget(k))
            BY <4>0 DEF Claimable, Exhausted
          <5> jobs[k].attempts \in Nat
            BY DEF Row
          <5> QED
            BY BudgetPositive
        <4>2. jobs'[k] = Claimed(jobs[k], h)
          BY <1>10 DEF ClaimRows
        <4> jobs[k] \in Row
          OBVIOUS
        <4>   jobs'[k] \in Row /\ jobs'[k].attempts = jobs[k].attempts + 1
              /\ jobs'[k].status = "running" /\ jobs'[k].lease = "live"
          BY <4>2, ClaimedIsRow
        <4> jobs[k].attempts + 1 <= ClaimBudget(k)
          BY <4>4, BudgetPositive DEF Row
        <4> QED
          BY <4>1
      <3> CASE k \notin S
        BY <1>10 DEF ClaimRows
      <3> QED
        OBVIOUS
    <2> TableTypeOK'
      BY <1>10, <2>1 DEF ClaimRows
    <2> QED
      BY <1>10, <2>1 DEF ClaimRows
  <1>11. ASSUME NEW S \in SUBSET Jobs, NEW h \in Holders, ExtendLease(S, h)
         PROVE TableInv'
    BY <1>11, JobsTableAssumption DEF ExtendLease, NoRow, Row, JobsTableAssumption
  <1> CASE UNCHANGED tableVars
    BY DEF tableVars
  <1> QED
    BY <1>1, <1>2, <1>3, <1>4, <1>5, <1>6, <1>7, <1>8, <1>9, <1>10, <1>11
       DEF TableNext

(* The invariant, and with it InOneTable, AttemptsWithinBudget and         *)
(* RunningRowsExpire, holds in every state: whatever the callers of        *)
(* clients/go/jobs/sql.go and the admin service run, and in whatever order. *)
THEOREM TableInvariant == TableSpec => []TableInv
  BY TableInitInv, TableStepInv, PTL DEF TableSpec

(* The tables have the shape of migrations/infra/0006_jobs.up.sql. *)
THEOREM TableTypeCorrect == TableSpec => []TableTypeOK
  <1> TableInv => TableTypeOK
    BY DEF TableInv
  <1> QED
    BY TableInvariant, PTL

(* A job is in at most one of atlantis.jobs and atlantis.jobs_dead. *)
THEOREM TableInOne == TableSpec => []InOneTable
  <1> TableInv => InOneTable
    BY DEF TableInv
  <1> QED
    BY TableInvariant, PTL

(* No row is handed out more often than GREATEST(max_retries, 1) times. *)
THEOREM TableAttempts == TableSpec => []AttemptsWithinBudget
  <1> TableInv => AttemptsWithinBudget
    BY DEF TableInv
  <1> QED
    BY TableInvariant, PTL

(* Every running row has a lease that can run out. *)
THEOREM TableLeases == TableSpec => []RunningRowsExpire
  <1> TableInv => RunningRowsExpire
    BY DEF TableInv
  <1> QED
    BY TableInvariant, PTL

-----------------------------------------------------------------------------
(* What a statement may never do *)

(* What NoJobLost and AttemptsNeverReset say of one step. *)
KeepsJobs == \A j \in Jobs : Present(j) \/ j \in dead => Present(j)' \/ j \in dead'

KeepsAttempts ==
    \A j \in Jobs : Present(j) /\ Present(j)' => jobs'[j].attempts >= jobs[j].attempts

LEMMA TableStepKeeps ==
    TableInv /\ [TableNext]_tableVars => KeepsJobs /\ KeepsAttempts
  <1> SUFFICES ASSUME TableInv, [TableNext]_tableVars PROVE KeepsJobs /\ KeepsAttempts
    OBVIOUS
  <1> jobs \in [Jobs -> Row] /\ \A j \in Jobs : jobs[j].attempts \in Nat
    BY DEF TableInv, TableTypeOK, Row
  <1> USE DEF KeepsJobs, KeepsAttempts, Present
  <1>1. ASSUME NEW j \in Jobs, SubmitJob(j) PROVE KeepsJobs /\ KeepsAttempts
    BY <1>1 DEF SubmitJob, NoRow
  <1>2. ASSUME NEW j \in Jobs, MarkComplete(j) PROVE KeepsJobs /\ KeepsAttempts
    BY <1>2, UnclaimedIsRow DEF MarkComplete
  <1>3. ASSUME NEW j \in Jobs, MoveToDLQ(j) PROVE KeepsJobs /\ KeepsAttempts
    BY <1>3 DEF MoveToDLQ, NoRow, tableVars
  <1>4. ASSUME NEW j \in Jobs, RetryDeadJob(j) PROVE KeepsJobs /\ KeepsAttempts
    BY <1>4 DEF RetryDeadJob, NoRow
  <1>5. ASSUME NEW j \in Jobs, LeaseLapses(j) PROVE KeepsJobs /\ KeepsAttempts
    BY <1>5 DEF LeaseLapses, Row
  <1>6. ASSUME NEW j \in Jobs, NEW a \in 0..ClaimBudget(j), ReportFailure(j, a)
        PROVE KeepsJobs /\ KeepsAttempts
    BY <1>3, <1>6, UnclaimedIsRow DEF ReportFailure
  <1>7. ASSUME NEW j \in Jobs, NEW h \in Holders, ReleaseRow(j, h)
        PROVE KeepsJobs /\ KeepsAttempts
    BY <1>7, UnclaimedIsRow DEF ReleaseRow
  <1>8. ASSUME NEW j \in Jobs, NEW h \in Holders, BindClaim(j, h)
        PROVE KeepsJobs /\ KeepsAttempts
    BY <1>8 DEF BindClaim, Row
  <1>9. ASSUME NEW S \in SUBSET Jobs, SweepExhaustedToDLQ(S)
        PROVE KeepsJobs /\ KeepsAttempts
    BY <1>9 DEF SweepExhaustedToDLQ, NoRow
  <1>10. ASSUME NEW S \in SUBSET Jobs, NEW h \in Holders, ClaimRows(S, h)
         PROVE KeepsJobs /\ KeepsAttempts
    <2>   ASSUME NEW k \in Jobs
          PROVE  /\ Present(k) => jobs'[k].status # "absent"
                 /\ jobs'[k].attempts >= jobs[k].attempts
      <3> CASE k \in S
        <4>1. jobs'[k] = Claimed(jobs[k], h)
          BY <1>10 DEF ClaimRows
        <4> jobs[k] \in Row
          OBVIOUS
        <4> jobs'[k].attempts = jobs[k].attempts + 1 /\ jobs'[k].status = "running"
          BY <4>1, ClaimedIsRow
        <4> QED
          OBVIOUS
      <3> CASE k \notin S
        <4> jobs'[k] = jobs[k]
          BY <1>10 DEF ClaimRows
        <4> QED
          OBVIOUS
      <3> QED
        OBVIOUS
    <2> QED
      BY <1>10 DEF ClaimRows
  <1>11. ASSUME NEW S \in SUBSET Jobs, NEW h \in Holders, ExtendLease(S, h)
         PROVE KeepsJobs /\ KeepsAttempts
    BY <1>11 DEF ExtendLease, Row
  <1> CASE UNCHANGED tableVars
    BY DEF tableVars
  <1> QED
    BY <1>1, <1>2, <1>3, <1>4, <1>5, <1>6, <1>7, <1>8, <1>9, <1>10, <1>11
       DEF TableNext

(* No statement loses a submitted job: it stays in one table or the other. *)
THEOREM TableKeepsJobs == TableSpec => NoJobLost
  <1> TableInv /\ [TableNext]_tableVars => [KeepsJobs]_tableVars
    BY TableStepKeeps
  <1> QED
    BY TableInvariant, PTL DEF TableSpec, NoJobLost, KeepsJobs

(* No statement gives attempts back to a row that stays in atlantis.jobs. *)
THEOREM TableKeepsAttempts == TableSpec => AttemptsNeverReset
  <1> TableInv /\ [TableNext]_tableVars => [KeepsAttempts]_tableVars
    BY TableStepKeeps
  <1> QED
    BY TableInvariant, PTL DEF TableSpec, AttemptsNeverReset, KeepsAttempts

-----------------------------------------------------------------------------
(* What the statements do to the rows *)

(* The row is running under a claim of h, which counted as an attempt. *)
HeldBy(j, h) ==
    /\ jobs[j].status = "running"
    /\ jobs[j].holder = h
    /\ jobs[j].attempts > 0

(* Whose the row is, and how often it was claimed, stays as it is. *)
RowKept(k) ==
    /\ jobs'[k].status = jobs[k].status
    /\ jobs'[k].holder = jobs[k].holder
    /\ jobs'[k].attempts = jobs[k].attempts

LEMMA ClaimEffect ==
    ASSUME TableInv, NEW S \in SUBSET Jobs, NEW h \in Holders, ClaimRows(S, h)
    PROVE  /\ \A k \in Jobs \ S : RowKept(k)
           /\ \A k \in S : HeldBy(k, h)'
  <1> jobs \in [Jobs -> Row]
    BY DEF TableInv, TableTypeOK
  <1> \A k \in S : jobs'[k] = Claimed(jobs[k], h) /\ jobs[k] \in Row
    BY DEF ClaimRows
  <1> \A k \in S : jobs'[k].status = "running" /\ jobs'[k].holder = h /\ jobs'[k].attempts > 0
    <2> ASSUME NEW k \in S PROVE Claimed(jobs[k], h).holder = h
      BY Zenon DEF Claimed, Row
    <2> QED
      BY ClaimedIsRow
  <1> QED
    BY DEF ClaimRows, RowKept, HeldBy

(* The claim of h on row j ends without an attempt more or less. *)
Freed(j, h) ==
    /\ jobs[j].holder = h
    /\ jobs'[j].status = "pending" /\ jobs'[j].holder = NoHolder
    /\ jobs'[j].attempts = jobs[j].attempts

LEMMA ReleaseEffect ==
    ASSUME TableInv, NEW j \in Jobs, NEW h, ReleaseRow(j, h)
    PROVE  /\ \A k \in Jobs : k # j => RowKept(k)
           /\ RowKept(j) \/ Freed(j, h)
  <1>1. jobs \in [Jobs -> Row]
    BY DEF TableInv, TableTypeOK
  <1> CASE jobs' = jobs
    BY DEF RowKept
  <1> CASE jobs[j].holder = h /\ jobs' = [jobs EXCEPT ![j] = Unclaimed(jobs[j], "pending")]
    <2> jobs'[j] = Unclaimed(jobs[j], "pending") /\ jobs[j] \in Row
      BY <1>1
    <2> Freed(j, h)
      <3> Unclaimed(jobs[j], "pending").holder = NoHolder
        BY DEF Unclaimed, Row
      <3> QED
        BY UnclaimedIsRow DEF Freed
    <2> QED
      BY <1>1 DEF RowKept
  <1> QED
    BY DEF ReleaseRow

(* A statement about one row leaves the others alone. *)
LEMMA OthersKept ==
    ASSUME TableInv, NEW j \in Jobs, NEW h, NEW a,
           \/ SubmitJob(j) \/ RetryDeadJob(j) \/ MarkComplete(j) \/ MoveToDLQ(j)
           \/ ReportFailure(j, a) \/ BindClaim(j, h) \/ ReleaseRow(j, h)
    PROVE  \A k \in Jobs : k # j => RowKept(k)
  <1> jobs \in [Jobs -> Row]
    BY DEF TableInv, TableTypeOK
  <1> jobs' = jobs \/ \E r : jobs' = [jobs EXCEPT ![j] = r]
    BY DEF SubmitJob, RetryDeadJob, MarkComplete, MoveToDLQ, ReportFailure, BindClaim,
           ReleaseRow, tableVars
  <1> QED
    BY DEF RowKept

LEMMA ExtendEffect ==
    ASSUME TableInv, NEW S, NEW h, ExtendLease(S, h)
    PROVE  \A k \in Jobs : RowKept(k)
  <1>1. jobs \in [Jobs -> Row]
    BY DEF TableInv, TableTypeOK
  <1>2. \A k \in Jobs : jobs'[k] = jobs[k] \/ jobs'[k] = [jobs[k] EXCEPT !.lease = "live"]
    BY DEF ExtendLease
  <1> ASSUME NEW k \in Jobs, jobs'[k] = [jobs[k] EXCEPT !.lease = "live"] PROVE RowKept(k)
    <2> jobs[k] \in Row
      BY <1>1
    <2> QED
      BY DEF RowKept, Row
  <1> QED
    BY <1>2, Zenon DEF RowKept

LEMMA BindEffect ==
    ASSUME TableInv, NEW j \in Jobs, NEW h, BindClaim(j, h), Present(j)
    PROVE  /\ jobs'[j].status = jobs[j].status
           /\ jobs'[j].attempts = jobs[j].attempts
           /\ jobs'[j].lease = jobs[j].lease
           /\ jobs'[j].holder = h
  BY DEF TableInv, TableTypeOK, BindClaim, Row

LEMMA SweepEffect ==
    ASSUME NEW S \in SUBSET Jobs, SweepExhaustedToDLQ(S)
    PROVE  \A k \in Jobs \ S : RowKept(k)
  BY DEF SweepExhaustedToDLQ, RowKept

LEMMA SameTables == UNCHANGED tableVars => \A k \in Jobs : RowKept(k)
  BY DEF tableVars, RowKept

-----------------------------------------------------------------------------
(* The tables while every reporter owns the row it reports on *)

(* Without a lapsed lease or a stale report, the claim columns are those   *)
(* of a running row.                                                       *)
ClaimsClean ==
    \A j \in Jobs : /\ jobs[j].holder # NoHolder => jobs[j].status = "running"
                    /\ jobs[j].status = "running" => jobs[j].lease = "live"

(* A statement of the dispatcher, the peer or an operator, run by someone  *)
(* entitled to it.                                                         *)
CleanStep ==
    \/ UNCHANGED tableVars
    \/ \E j \in Jobs : \/ SubmitJob(j) \/ RetryDeadJob(j)
                       \/ \E h \in Holders : ReleaseRow(j, h)
    \/ \E j \in Jobs : /\ jobs[j].status = "running"
                       /\ \/ MarkComplete(j) \/ MoveToDLQ(j)
                          \/ \E a \in Nat : ReportFailure(j, a)
                          \/ \E h \in Holders : BindClaim(j, h)
    \/ \E j \in Jobs : /\ jobs[j].status = "pending" /\ jobs[j].attempts > 0
                       /\ ReportFailure(j, jobs[j].attempts)
    \/ \E S \in SUBSET Jobs : \/ SweepExhaustedToDLQ(S)
                              \/ \E h \in Holders : ClaimRows(S, h) \/ ExtendLease(S, h)

(* ClaimsClean of one row. *)
CleanRow(r) ==
    /\ r.holder # NoHolder => r.status = "running"
    /\ r.status = "running" => r.lease = "live"

LEMMA CleanRows ==
    ASSUME NEW r \in Row
    PROVE  /\ CleanRow(NoRow)
           /\ CleanRow([NoRow EXCEPT !.status = "pending"])
           /\ \A t \in {"null", "set"} : CleanRow([NoRow EXCEPT !.status = "pending", !.timeout = t])
           /\ CleanRow(Unclaimed(r, "pending")) /\ CleanRow(Unclaimed(r, "complete"))
           /\ CleanRow(r) => CleanRow([r EXCEPT !.lease = "live"])
  <1>1. /\ CleanRow(NoRow)
        /\ CleanRow([NoRow EXCEPT !.status = "pending"])
        /\ \A t \in {"null", "set"} : CleanRow([NoRow EXCEPT !.status = "pending", !.timeout = t])
    BY DEF CleanRow, NoRow
  <1>2. CleanRow(Unclaimed(r, "pending")) /\ CleanRow(Unclaimed(r, "complete"))
    BY DEF CleanRow, Unclaimed, Row
  <1> CleanRow(r) => CleanRow([r EXCEPT !.lease = "live"])
    BY DEF CleanRow, Row
  <1> QED
    BY <1>1, <1>2

LEMMA CleanClaims ==
    ASSUME NEW r \in Row, NEW h \in Holders
    PROVE  /\ CleanRow(Claimed(r, h))
           /\ CleanRow(r) /\ r.status = "running" => CleanRow([r EXCEPT !.holder = h])
  <1> CleanRow(Claimed(r, h))
    BY ClaimedIsRow DEF CleanRow
  <1> CleanRow(r) /\ r.status = "running" => CleanRow([r EXCEPT !.holder = h])
    BY DEF CleanRow, Row
  <1> QED
    OBVIOUS

LEMMA CleanKept == TableInv /\ ClaimsClean /\ CleanStep => ClaimsClean'
  <1> SUFFICES ASSUME TableInv, ClaimsClean, CleanStep, NEW k \in Jobs
               PROVE  CleanRow(jobs'[k])
    BY DEF ClaimsClean, CleanRow
  <1> jobs \in [Jobs -> Row] /\ jobs[k] \in Row /\ CleanRow(jobs[k])
    BY DEF TableInv, TableTypeOK, ClaimsClean, CleanRow
  <1> CASE jobs' = jobs
    OBVIOUS
  <1> ASSUME NEW j \in Jobs, SubmitJob(j) \/ RetryDeadJob(j) PROVE CleanRow(jobs'[k])
    BY CleanRows, Zenon DEF SubmitJob, RetryDeadJob
  <1> ASSUME NEW j \in Jobs, NEW h \in Holders, ReleaseRow(j, h) PROVE CleanRow(jobs'[k])
    BY CleanRows, Zenon DEF ReleaseRow
  <1> ASSUME NEW j \in Jobs, MarkComplete(j) \/ MoveToDLQ(j) PROVE CleanRow(jobs'[k])
    BY CleanRows, Zenon DEF MarkComplete, MoveToDLQ, tableVars
  <1> ASSUME NEW j \in Jobs, NEW a, ReportFailure(j, a) PROVE CleanRow(jobs'[k])
    BY CleanRows, Zenon DEF ReportFailure
  <1>   ASSUME NEW j \in Jobs, NEW h \in Holders, BindClaim(j, h), jobs[j].status = "running"
        PROVE  CleanRow(jobs'[k])
    BY CleanClaims, Zenon DEF BindClaim
  <1> ASSUME NEW S \in SUBSET Jobs, SweepExhaustedToDLQ(S) PROVE CleanRow(jobs'[k])
    BY CleanRows, Zenon DEF SweepExhaustedToDLQ
  <1>   ASSUME NEW S \in SUBSET Jobs, NEW h \in Holders, ClaimRows(S, h) \/ ExtendLease(S, h)
        PROVE  CleanRow(jobs'[k])
    BY CleanRows, CleanClaims, Zenon DEF ClaimRows, ExtendLease
  <1> QED
    BY DEF CleanStep, tableVars

-----------------------------------------------------------------------------
(* The life of a job *)

PhaseFacts ==
    \A j \in Jobs :
        /\ j \in dead => PhaseOf(j) = "dead" /\ jobs[j].attempts = 0
        /\ jobs[j].status = "absent" /\ j \notin dead => PhaseOf(j) = "new" /\ jobs[j].attempts = 0
        /\ jobs[j].status = "pending" => PhaseOf(j) = "queued"
        /\ jobs[j].status = "running" => PhaseOf(j) = "taken"
        /\ jobs[j].status = "complete" => PhaseOf(j) = "done"

LEMMA PhasesAre == TableInv => PhaseFacts
  <1> SUFFICES ASSUME TableInv, NEW j \in Jobs
               PROVE  /\ j \in dead => PhaseOf(j) = "dead" /\ jobs[j].attempts = 0
                      /\ jobs[j].status = "absent" /\ j \notin dead
                           => PhaseOf(j) = "new" /\ jobs[j].attempts = 0
                      /\ jobs[j].status = "pending" => PhaseOf(j) = "queued"
                      /\ jobs[j].status = "running" => PhaseOf(j) = "taken"
                      /\ jobs[j].status = "complete" => PhaseOf(j) = "done"
    BY DEF PhaseFacts
  <1>   /\ jobs[j] \in Row
        /\ j \in dead => jobs[j].status = "absent"
        /\ jobs[j].status = "absent" => jobs[j].attempts = 0
    BY DEF TableInv, TableTypeOK, InOneTable, AbsentIsNoRow, Present, NoRow
  <1>2. j \in dead => PhaseOf(j) = "dead"
    BY DEF PhaseOf
  <1>3. jobs[j].status = "absent" /\ j \notin dead => PhaseOf(j) = "new"
    BY DEF PhaseOf
  <1>4. jobs[j].status = "pending" => PhaseOf(j) = "queued"
    BY DEF PhaseOf
  <1> jobs[j].status = "running" => PhaseOf(j) = "taken"
    BY DEF PhaseOf
  <1> jobs[j].status = "complete" => PhaseOf(j) = "done"
    BY DEF PhaseOf
  <1> QED
    BY <1>2, <1>3, <1>4

(* A submitter sees nothing happen to job k. *)
LifeSame(k) == PhaseOf(k)' = PhaseOf(k) /\ jobs'[k].attempts = jobs[k].attempts

LEMMA KeptIsSame ==
    ASSUME TableInv, PhaseFacts, PhaseFacts', NEW k \in Jobs, RowKept(k), k \in dead' <=> k \in dead
    PROVE  LifeSame(k)
  <1> jobs[k].status \in {"absent", "pending", "running", "complete"}
    BY DEF TableInv, TableTypeOK, Row
  <1> PhaseOf(k)' = PhaseOf(k)
    BY DEF RowKept, PhaseFacts
  <1> QED
    BY DEF LifeSame, RowKept

LEMMA AllSame == (\A k \in Jobs : LifeSame(k)) => UNCHANGED Lifecycle!lifeVars
  BY DEF LifeSame, Lifecycle!lifeVars

(* One job moves on. *)
LEMMA OneMoves ==
    ASSUME NEW j \in Jobs, \A k \in Jobs : k # j => LifeSame(k),
           \/ PhaseOf(j) = "new" /\ PhaseOf(j)' = "queued" /\ jobs'[j].attempts = 0
           \/ PhaseOf(j) = "dead" /\ PhaseOf(j)' = "queued" /\ jobs'[j].attempts = 0
           \/ PhaseOf(j) = "taken" /\ PhaseOf(j)' = "dead" /\ jobs'[j].attempts = 0
           \/ /\ PhaseOf(j) = "taken" /\ PhaseOf(j)' \in {"queued", "done"}
              /\ jobs'[j].attempts = jobs[j].attempts
    PROVE  Lifecycle!LifeNext
  <1> USE DEF LifeSame, Lifecycle!Move
  <1> CASE PhaseOf(j) = "new" /\ PhaseOf(j)' = "queued" /\ jobs'[j].attempts = 0
    <2> Lifecycle!Submit(j)
      BY DEF Lifecycle!Submit
    <2> QED
      BY DEF Lifecycle!LifeNext
  <1> CASE PhaseOf(j) = "dead" /\ PhaseOf(j)' = "queued" /\ jobs'[j].attempts = 0
    <2> Lifecycle!Revive(j)
      BY DEF Lifecycle!Revive
    <2> QED
      BY DEF Lifecycle!LifeNext
  <1> CASE PhaseOf(j) = "taken" /\ PhaseOf(j)' = "dead" /\ jobs'[j].attempts = 0
    <2> Lifecycle!Dismiss(j)
      BY DEF Lifecycle!Dismiss
    <2> QED
      BY DEF Lifecycle!LifeNext
  <1> CASE PhaseOf(j) = "taken" /\ PhaseOf(j)' = "queued" /\ jobs'[j].attempts = jobs[j].attempts
    <2> Lifecycle!GiveBack(j)
      BY DEF Lifecycle!GiveBack
    <2> QED
      BY DEF Lifecycle!LifeNext
  <1> CASE PhaseOf(j) = "taken" /\ PhaseOf(j)' = "done" /\ jobs'[j].attempts = jobs[j].attempts
    <2> Lifecycle!Finish(j)
      BY DEF Lifecycle!Finish
    <2> QED
      BY DEF Lifecycle!LifeNext
  <1> QED
    OBVIOUS

(* Queued jobs are taken, or buried once their claims are spent. *)
LEMMA SomeMove ==
    ASSUME NEW S \in SUBSET Jobs, \A k \in Jobs \ S : LifeSame(k),
           \A k \in S : PhaseOf(k) = "queued",
           \/ \A k \in S : /\ ~Exhausted(k) /\ PhaseOf(k)' = "taken"
                           /\ jobs'[k].attempts = jobs[k].attempts + 1
           \/ \A k \in S : Exhausted(k) /\ PhaseOf(k)' = "dead" /\ jobs'[k].attempts = 0,
           \A k \in Jobs : jobs[k].attempts \in Nat
    PROVE  Lifecycle!LifeNext
  <1>   CASE \A k \in S : /\ ~Exhausted(k) /\ PhaseOf(k)' = "taken"
                          /\ jobs'[k].attempts = jobs[k].attempts + 1
    <2> \A k \in S : jobs[k].attempts < ClaimBudget(k)
      BY BudgetPositive DEF Exhausted
    <2> Lifecycle!Take(S)
      BY DEF Lifecycle!Take, Lifecycle!Move, LifeSame
    <2> QED
      BY DEF Lifecycle!LifeNext
  <1> CASE \A k \in S : Exhausted(k) /\ PhaseOf(k)' = "dead" /\ jobs'[k].attempts = 0
    <2> Lifecycle!Bury(S)
      BY DEF Lifecycle!Bury, Lifecycle!Move, LifeSame, Exhausted
    <2> QED
      BY DEF Lifecycle!LifeNext
  <1> QED
    OBVIOUS

(* A statement whose caller is entitled to it is a step in the life of the *)
(* jobs it is about.                                                       *)
LEMMA CleanLife ==
    ASSUME TableInv, TableInv', ClaimsClean, CleanStep
    PROVE  [Lifecycle!LifeNext]_(Lifecycle!lifeVars)
  <1>1. PhaseFacts /\ PhaseFacts'
    BY PhasesAre, PTL
  <1>2. jobs \in [Jobs -> Row] /\ jobs' \in [Jobs -> Row] /\ \A k \in Jobs : jobs[k].attempts \in Nat
    BY DEF TableInv, TableTypeOK, Row
  <1>3. ASSUME \A k \in Jobs : RowKept(k), UNCHANGED dead PROVE UNCHANGED Lifecycle!lifeVars
    BY <1>1, <1>3, KeptIsSame, AllSame
  <1>4. ASSUME NEW j \in Jobs, \A k \in Jobs : k # j => RowKept(k),
               \A k \in Jobs : k # j => (k \in dead' <=> k \in dead)
        PROVE  \A k \in Jobs : k # j => LifeSame(k)
    BY <1>1, <1>4, KeptIsSame
  <1>5. CASE UNCHANGED tableVars
    BY <1>3, <1>5, SameTables DEF tableVars
  <1>6. ASSUME NEW j \in Jobs, SubmitJob(j) \/ RetryDeadJob(j) PROVE Lifecycle!LifeNext
    <2>1. \A k \in Jobs : k # j => LifeSame(k)
      BY <1>4, <1>6, OthersKept, Zenon DEF SubmitJob, RetryDeadJob
    <2> jobs'[j].status = "pending" /\ jobs'[j].attempts = 0
      BY <1>2, <1>6, Zenon DEF SubmitJob, RetryDeadJob, NoRow
    <2> PhaseOf(j)' = "queued" /\ PhaseOf(j) \in {"new", "dead"}
      BY <1>1, <1>6 DEF PhaseFacts, SubmitJob, RetryDeadJob, Present
    <2> QED
      BY <2>1, OneMoves
  <1>7. ASSUME NEW j \in Jobs, NEW h \in Holders, ReleaseRow(j, h)
        PROVE  [Lifecycle!LifeNext]_(Lifecycle!lifeVars)
    <2> CASE RowKept(j)
      BY <1>3, <1>7, ReleaseEffect, Zenon DEF ReleaseRow
    <2> CASE Freed(j, h)
      <3>1. \A k \in Jobs : k # j => LifeSame(k)
        BY <1>4, <1>7, OthersKept, Zenon DEF ReleaseRow
      <3> jobs[j].status = "running"
        BY JobsTableAssumption DEF JobsTableAssumption, Freed, ClaimsClean
      <3> PhaseOf(j) = "taken" /\ PhaseOf(j)' = "queued" /\ jobs'[j].attempts = jobs[j].attempts
        BY <1>1 DEF Freed, PhaseFacts
      <3> QED
        BY <3>1, OneMoves
    <2> QED
      BY <1>7, ReleaseEffect
  <1>8. ASSUME NEW j \in Jobs, MoveToDLQ(j), jobs[j].status = "running"
               \/ (jobs[j].status = "pending" /\ Exhausted(j))
        PROVE  Lifecycle!LifeNext
    <2>1. Present(j) /\ j \notin dead
      BY <1>8 DEF TableInv, InOneTable, Present
    <2>2. jobs' = [jobs EXCEPT ![j] = NoRow] /\ dead' = dead \cup {j}
      BY <1>8, <2>1 DEF MoveToDLQ
    <2>3. \A k \in Jobs : k # j => LifeSame(k)
      BY <1>4, <1>8, <2>2, OthersKept
    <2> PhaseOf(j)' = "dead" /\ jobs'[j].attempts = 0
      BY <1>1, <2>2 DEF PhaseFacts
    <2> CASE jobs[j].status = "running"
      BY <1>1, <2>3, OneMoves DEF PhaseFacts
    <2> CASE jobs[j].status = "pending" /\ Exhausted(j)
      <3> PhaseOf(j) = "queued"
        BY <1>1 DEF PhaseFacts
      <3>   /\ {j} \in SUBSET Jobs /\ \A k \in Jobs \ {j} : LifeSame(k)
            /\ \A k \in {j} : PhaseOf(k) = "queued"
            /\ \A k \in {j} : Exhausted(k) /\ PhaseOf(k)' = "dead" /\ jobs'[k].attempts = 0
        BY <2>3
      <3> QED
        BY <1>2, SomeMove, Zenon
    <2> QED
      BY <1>8
  <1>9. ASSUME NEW j \in Jobs, jobs[j].status = "running", MarkComplete(j)
        PROVE  Lifecycle!LifeNext
    <2> jobs' = [jobs EXCEPT ![j] = Unclaimed(jobs[j], "complete")] /\ UNCHANGED dead
      BY <1>9 DEF MarkComplete, Present
    <2> jobs'[j].status = "complete" /\ jobs'[j].attempts = jobs[j].attempts
      BY <1>2, UnclaimedIsRow
    <2> \A k \in Jobs : k # j => LifeSame(k)
      BY <1>4, <1>9, OthersKept
    <2> QED
      BY <1>1, <1>9, OneMoves DEF PhaseFacts
  <1>10. ASSUME NEW j \in Jobs, NEW a \in Nat, ReportFailure(j, a),
                \/ jobs[j].status = "running"
                \/ jobs[j].status = "pending" /\ a = jobs[j].attempts /\ a > 0
         PROVE  [Lifecycle!LifeNext]_(Lifecycle!lifeVars)
    <2> CASE a >= MaxRetries[j]
      <3> MoveToDLQ(j)
        BY <1>10 DEF ReportFailure
      <3> jobs[j].status = "pending" => Exhausted(j)
        BY <1>10, JobsTableAssumption DEF Exhausted, ClaimBudget, JobsTableAssumption
      <3> QED
        BY <1>8, <1>10
    <2> CASE ~(a >= MaxRetries[j])
      <3>1. jobs' = [jobs EXCEPT ![j] = Unclaimed(jobs[j], "pending")] /\ UNCHANGED dead
        BY <1>10 DEF ReportFailure, Present
      <3> jobs'[j].status = "pending" /\ jobs'[j].attempts = jobs[j].attempts
        BY <1>2, <3>1, UnclaimedIsRow
      <3> \A k \in Jobs : k # j => LifeSame(k)
        BY <1>4, <1>10, <3>1, OthersKept
      <3> CASE jobs[j].status = "running"
        BY <1>1, OneMoves DEF PhaseFacts
      <3> CASE jobs[j].status = "pending"
        <4> LifeSame(j)
          BY <1>1 DEF PhaseFacts, LifeSame
        <4> QED
          BY AllSame
      <3> QED
        BY <1>10
    <2> QED
      OBVIOUS
  <1>11. ASSUME NEW j \in Jobs, NEW h \in Holders, jobs[j].status = "running", BindClaim(j, h)
         PROVE  UNCHANGED Lifecycle!lifeVars
    <2> Present(j) /\ UNCHANGED dead
      BY <1>11 DEF BindClaim, Present
    <2>2. jobs'[j].status = "running" /\ jobs'[j].attempts = jobs[j].attempts
      BY <1>11, BindEffect
    <2> LifeSame(j)
      BY <1>1, <1>11, <2>2 DEF PhaseFacts, LifeSame
    <2> \A k \in Jobs : k # j => LifeSame(k)
      BY <1>4, <1>11, OthersKept
    <2> QED
      BY AllSame
  <1>12. ASSUME NEW S \in SUBSET Jobs, SweepExhaustedToDLQ(S) PROVE Lifecycle!LifeNext
    <2> \A k \in S : jobs[k].status = "pending" /\ Exhausted(k) /\ jobs'[k] = NoRow
      BY <1>12 DEF SweepExhaustedToDLQ, Sweepable, ClaimsClean
    <2> \A k \in Jobs \ S : LifeSame(k)
      BY <1>1, <1>12, SweepEffect, KeptIsSame DEF SweepExhaustedToDLQ
    <2> \A k \in S : PhaseOf(k) = "queued" /\ PhaseOf(k)' = "dead" /\ jobs'[k].attempts = 0
      BY <1>1, <1>12 DEF PhaseFacts, SweepExhaustedToDLQ
    <2> QED
      BY <1>2, SomeMove
  <1>13. ASSUME NEW S \in SUBSET Jobs, NEW h \in Holders, ClaimRows(S, h) PROVE Lifecycle!LifeNext
    <2> \A k \in S : jobs[k].status = "pending" /\ ~Exhausted(k) /\ jobs'[k] = Claimed(jobs[k], h)
      BY <1>13 DEF ClaimRows, Claimable, ClaimsClean
    <2> \A k \in S : jobs'[k].status = "running" /\ jobs'[k].attempts = jobs[k].attempts + 1
      BY <1>2, ClaimedIsRow
    <2> \A k \in Jobs \ S : LifeSame(k)
      BY <1>1, <1>13, ClaimEffect, KeptIsSame DEF ClaimRows
    <2> \A k \in S : PhaseOf(k) = "queued" /\ PhaseOf(k)' = "taken"
      BY <1>1 DEF PhaseFacts
    <2> QED
      BY <1>2, SomeMove, Zenon
  <1>    ASSUME NEW S \in SUBSET Jobs, NEW h \in Holders, ExtendLease(S, h)
         PROVE  UNCHANGED Lifecycle!lifeVars
    <2> \A k \in Jobs : RowKept(k)
      BY ExtendEffect
    <2> QED
      BY <1>3 DEF ExtendLease
  <1> QED
    BY <1>2, <1>5, <1>6, <1>7, <1>8, <1>9, <1>10, <1>11, <1>12, <1>13 DEF CleanStep

=============================================================================
