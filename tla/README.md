# TLA+ verification of atlantis

atlantis (this repository) turns `.atl` schema files into a typed data plane over
Postgres with a cache, a job queue and schema migrations. This directory models its
concurrent parts in TLA+, checks them with TLC and proves theorems with TLAPS. It starts
with the job plane: the part with the most actors, the most timers and the least test
coverage of their interleavings.

## The system

| Part | Code | Here |
|------|------|------|
| Job tables and their SQL | `clients/go/jobs/sql.go`, `internal/server/admin/jobs.go`, `migrations/infra/0006_jobs.up.sql` | `JobsTable` |
| Dispatcher: sessions, queue loop, sweepers, streams, operators | `internal/server/jobsdispatcher/` | `Dispatcher` |
| What a submitter may rely on | the two above | `JobLifecycle` |
| Direct worker | `clients/go/jobs/runner.go` | the peer of `Dispatcher` |
| Dispatched worker SDK | `clients/go/jobs/dispatched_worker.go` | planned |
| Workflow engine, expiry sweeper | `jobs/` | planned |
| Caches, outbox, invalidation worker, entity handlers | `internal/cache/`, `internal/server/entity/` | planned |
| Schema plan/apply/rollback, hot reload, backfill | `internal/server/admin/`, `internal/backfill/` | planned |
| Diff, migration SQL, lowering, paging | `internal/codegen/`, `internal/dsl/`, `internal/runtime/` | planned, as operators |
| Log ring, interceptors | `internal/obs/`, `internal/server/interceptors/` | planned |
| Sandbox engine | `internal/runtime/sandbox/` | forks and transactions planned |
| Code generators, console, command lines, signer, introspection | `internal/codegen/`, `internal/console/`, `web/`, `cmd/` | not modelled: text processing, CRUD or I/O |

`PROJECT.json` lists every part, and the hazards of each at the line where they bite.

How the job parts interact: a submitter inserts a row into `atlantis.jobs`. Claimants
(each pod's dispatcher, and direct workers) take rows with one `FOR UPDATE SKIP LOCKED`
statement that sets a lease and counts an attempt. The dispatcher binds a claimed row to
a worker session and pushes it down that session's gRPC stream. The worker acks,
heartbeats, and completes or fails it. Sweepers, disconnects, evictions and shutdown give
rows back. Rows whose attempts are spent end in `atlantis.jobs_dead`, from where an
operator may revive them.

## Modules

**`JobsTable`**: the two tables. One action per SQL statement, with its `WHERE` clause as
the guard: `SubmitJob`, `ClaimRows`, `ExtendLease`, `MarkComplete`, `ReportFailure`,
`MoveToDLQ`, `SweepExhaustedToDLQ`, `ReleaseRow`, `BindClaim`, `RetryDeadJob`; plus time
passing over a lease. `TableSpec` lets any caller run any statement at any time. The
abstractions:

- `claimed_until` is where the clock stands relative to it: live, expired, stale (past by
  more than the reaper's five minutes) or null;
- a row whose `scheduled_for` lies in the future counts as not submitted yet, since no
  statement touches it before;
- queues share no row, so one is modelled;
- arguments, progress columns and trace context are left out: no statement branches on them.

**`Dispatcher`**: one pod. Its state is the session objects (registered or not, drained,
closed, sender running, in-flight map and the counter kept beside it, acks, passed
deadlines, pending lease bumps, outbox), the program counters of each receive loop and of
the queue loop, what an eviction has yet to list and to release, drain watchers and where
`Shutdown` is. A step is at most one SQL statement with the memory work around it that no
other goroutine can tell apart. So `drainOnce` is five steps (claim, route and bind, insert
into the in-flight map, count and push, outbox full), `handleFail` and
`sweepExpiredLeases` are split between the read of `attempts` and the report, and
`unregister`, `EvictSession` and `forceReleaseAll` release one row per step. Routing and
binding are one step because `pickSession` reads only the loop's own slots. `DrainRecord`
and `DrainPush` are the two halves of `recordDispatch`, before and after its unlock: the
counter changes, and an entry is undone, in the second half, whatever the receive loop did
to the entry in between. `Dispatcher.inflightOwner` is left out: nothing reads it.

- The worker is arbitrary: it may send any envelope about any job at any time, and may
  disappear.
- In-memory deadlines (`ackBy`, `leaseUntil`, the timeout backstop) are one set per
  session, `lapsed`; a deadline may pass whenever the row is in flight.
- Session ids are fresh uuids, so each session of the model lives once.
- `Faults` names what may go wrong in a run: leases or timers running out, missed acks,
  failing statements (before or after they took effect), schema changes, operators,
  crashes, another claimant, dropped bumps, late answers to an earlier dispatch of a row.
- The peer stands for the direct worker; what other pods' dispatchers do to a row beyond
  that (release, bind, bury without retry) happens through the second session.
- Each of the two sweepers takes its own list of sessions; a pass that finds nothing leaves
  no trace and is left out.
- `Shutdown` runs beside the queue loop, because `cmd/server/main.go` cancels the loop only
  after `Dispatcher.Shutdown` returned. A gRPC server that is stopping admits no new stream.

**`JobLifecycle`**: the abstract life of one job: submitted, taken at most its budget of
times, given back, finished, dismissed, buried, revived. It has no claimants and no
leases: `LifecycleSpec` maps the tables onto it, and `ReleasedByItsHolder` says who may
give a row back.

**`MCJobsTable`, `MCDispatcher`**: constants and symmetry for TLC. **`JobsTable_proofs`**,
**`Dispatcher_proofs`** and **`Burial_proofs`**: theorems. In each module a definition introduced by "Mutant
of" is a plausible bug of the definition that follows; substituting it makes TLC report
the property that guards against it.

## What TLC checks

| Run | Instance | Shows |
|-----|----------|-------|
| `jobs_table` | 2 jobs (0 and 2 retries), 2 holders | a job is in one table, is never lost, is claimed at most its budget, its attempts never go down, a running row has a lease |
| `dispatcher_limit` | 2 jobs (0 and 3 retries), 2 sessions, one of which runs neither; missed acks, late answers | a session that is not closed keeps to `MaxInFlight` although slots are counted before the claim and the counter may be too low; no early burial, without retries either |
| `dispatcher_exclusive` | 1 job, 2 sessions, 2 attempts; missed acks, failing statements, schema changes, crash, revival, peer | a row in flight on a session is that session's and nobody else's; the tables follow `JobLifecycle`; a late release takes no row from its new claimant |
| `dispatcher_recovery` | 1 job with a lease override, 1 session; leases, timers, crash, drain, evict, shutdown, dropped bumps; fair | every step is a statement of `JobsTable`; no early burial; an orphaned row with no claim left is buried in the end |
| `v_complete_undone` | timers and a peer | a complete row is brought back (finding) |
| `v_rejected_stays_claimed` | schema changes | a rejected row is not released (finding) |
| `v_evicted_stays` | evict; fair | an evicted session stays registered (finding) |
| `v_limit_exceeded` | 2 jobs, 1 session; late answers | a closed session exceeds `MaxInFlight` (finding) |
| `v_fewer_attempts` | 1 job with 2 retries, no faults | a job is buried after its first re-attempt (finding) |
| `v_timeout_lost` | as `jobs_table` | a revived job has no timeout (finding) |

Why the bounds are enough. The hazards are about one row and at most two claimants, so one
job and two sessions (or a session and a peer) reach each of them; two jobs are needed only
for the limit, where `MaxInFlight` is 1 and the batch is larger. Two attempts tell a retry
from exhaustion. The outbox has no slack beyond `MaxInFlight` (the code has 4), so that it
does fill up. `MaxSlips` bounds how far below zero the counter is followed. Fault kinds are spread over the runs because they multiply the state space;
each kind occurs in some run. Dispatcher runs do not check for deadlock: sessions are finite, and
when all are gone and all jobs are finished nothing is left to do. `jobs_table` does check
it.

Fairness (`FairSpec`). Go runs every goroutine that can run: the queue loop finishes a
drain or sweep it began, senders, drain watchers and release loops get on. `Reap` has
strong fairness: its ticker is one case of `RunQueue`'s `select`, which chooses at random
among ready cases, and it is ready only between drains. Time passes over a lease nobody
extends. Workers, operators, peers and schema changes owe nothing.

What the properties assume. `SessionOwnsItsRows` is checked without lapsing leases and
evictions, because a lease that runs out under a slow worker does hand the row to another
one: that is the at-least-once contract of the queue. It is also checked without late
answers: a `Fail` for an earlier dispatch that lands between the two halves of
`recordDispatch` gives back a row whose envelope is still pushed. `DeadOnlyWhenExhausted`
is checked and proved without failing statements and revivals. With a failing statement,
`handleFail` takes a failed `lookupAttempts` for numbers that read as exhausted
(`dispatcher.go:733`). With a lapsing lease and a revival, a report from before the
revival buries the fresh row: `handleFail` reads the spent attempts, the row is reaped, an
operator retries it with attempts 0, and `ReportFailure` names it by id alone.

### Findings

Each is a run TLC refutes, with the quoted line in `PROJECT.json`.

1. `sweepExpiredLeases` drops a row from the session, reads its attempts, and then reports
   a failure by id alone. If the row was released, claimed and completed by another
   claimant in between, the complete row goes back to pending or to the dead-letter queue.
2. A row rejected by the authorization re-check is released under the session's
   `claimed_by`, which it does not have yet. The update matches nothing and the row stays
   running until its lease expires.
3. `EvictSession` closes `closeCh` and expects the receive loop to return. Nothing in that
   loop reads the channel, so the session stays registered while the worker keeps the stream.

4. `recordDispatch` counts its entry and undoes it after the unlock. When the outbox is
   full and a late answer has removed the entry meanwhile, it is counted down twice: the
   counter stays one below the map, and since a closed session stays registered (3), it is
   given `MaxInFlight` + 1 rows. `OpenWithinLimit` is what remains true.
5. `retries N` gives N attempts, where the declaration's comment and the docs promise N
   re-attempts after the first.
6. `jobs_dead` has no `timeout_ms`, so a revived job has no deadline.

Not a run, since nothing in the repository says otherwise: a row may be handed to a session
that unregistered after the slots were counted (`dispatcher.go:370`). Nobody sends or
releases it until its lease expires; `ExhaustedOrphansEnd` covers such rows.

## What TLAPS proves

All theorems hold for every finite set of jobs and sessions, all retry counts, limits,
handler declarations and fault sets. They assume only `JobsTableAssumption` and
`DispatcherAssumption`: the constants have their types, `MaxInFlight` and `BatchSize` are
positive, and the claimants are told apart by name.

**`JobsTable_proofs`.** The inductive invariant `TableInv` is the types, `InOneTable`,
`AttemptsWithinBudget` and `RunningRowsExpire`, with one addition: an absent row has the
columns of no row (`AbsentIsNoRow`). Without it a submitted or revived row could start with
attempts left over. One lemma per statement shows that it is kept. From it follow the three
invariants, and the action properties `NoJobLost` and `AttemptsNeverReset`.

**`Dispatcher_proofs`.** `OpenWithinLimit` is not inductive: `drainOnce` counts free
slots, claims, and adds rows later, while other goroutines change the in-flight maps, and
the counter it reads may differ from the size of the map. The invariant `Inv` adds

- `CountHolds`: the counter of a session nobody closed is the size of its map, or one less
  while `recordDispatch` is between its two halves. Only the undo of a full outbox breaks
  this, and `DrainOutboxFull` closes the session before anybody counts slots again;
- `BudgetCovers`: the rows in flight on such a session and the slots the drain still holds
  fit together into `MaxInFlight`. Between the insertion and the decrement of `perSessSlot`
  one slot is already filled (`Reserved`);
- `LoopKnows`, `RecvKnows`, `PeerKnows`: the job, session and attempts a goroutine
  remembers between two statements are real ones, with attempts within the claim budget.

The argument has two halves. `StepTable`: under `Inv` every step runs a statement of
`JobsTable` or leaves the tables alone. This needs the three `Knows` invariants, because
`ReportFailure` is run with attempts read earlier. `StepInv`: every step keeps `Inv`, where
the steps that put no row in flight share the lemma `NothingDispatchedInv`.

**`Burial_proofs`.** `DispatcherBuries` needs to know what a reporter knows. Its invariant
`Informed` says that every row a session, the loop, a receive loop or the peer holds or
reports on has been claimed at least once, and that the attempts remembered are at most
those of the row while it is there (`Knows`): attempts only grow without revivals, so a
report that finds the remembered ones spent finds the row's spent too. `StepInforms` shows
that every step keeps it and buries only such rows. The theorem assumes `Calm`: the fault
set has neither failing statements nor revivals.

| Theorem | States |
|---------|--------|
| `DispatcherTypeCorrect` | `TypeOK`; the slots of a drain never go below zero |
| `DispatcherLimit` | `OpenWithinLimit` |
| `DispatcherImplementsTables` | `Spec => TableSpec`: the refinement of the tables |
| `DispatcherKeepsJobs` | `NoJobLost` and `InOneTable`, carried over by that refinement |
| `DispatcherBuries` | `DeadOnlyWhenExhausted`, under `Calm` |

Only model-checked: `ExhaustedOrphansEnd` (liveness is out of the prover's reach),
`SessionOwnsItsRows`, `LifecycleSpec` and `ReleasedByItsHolder`.

## Plan

The order in which the project grows, with the composition and the theorems in view.

1. The worker: the SDK's `DispatchedWorker` at the other end of the stream, composed
   with `Dispatcher`. Properties: a handler runs under at most one live dispatch of a row,
   a report is never sent for a revoked row and believed, Goodbye ends the worker for good.
2. `Cache`: entity writers, the outbox, invalidation workers, memcached, the two local
   tiers. Properties: pointers never go back, an acknowledged write is eventually visible,
   which reads may be stale and for how long. Abstract specification: a register with
   bounded staleness.
3. `Schema`: plan, apply, rollback, hot reload and the three-phase backfill by two pods.
   Properties: the checkpoint is the latest version, applies do not interleave with a
   backfill, a plan ends complete or failed.
4. `Workflow`: steps, compensation, retried completions, on top of `JobsTable`.
5. `LogRing`, `TokenBucket`: small modules that can be proved completely.
6. Operators checked against reference definitions: change classification and DDL order,
   keyset paging, reference resolution in lowering, sandbox transactions and forks.
7. Proofs: exclusivity for fault sets without lapsing leases, `Dispatcher` implements
   `JobLifecycle` under the same condition, monotonic pointers, the log ring.
