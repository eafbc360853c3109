----------------------------- MODULE Dispatcher -----------------------------
(***************************************************************************)
(* The server-side job dispatcher of one atlantis pod                      *)
(* (internal/server/jobsdispatcher): worker sessions, the queue loop that  *)
(* claims rows and routes them, the sweepers, the receive loop of each     *)
(* stream, the lease processor, and the operator's drain, evict and        *)
(* shutdown.  It shares the tables of JobsTable with other claimants,      *)
(* the "peer", and with operators.                                         *)
(*                                                                         *)
(* Goroutines interleave.  A step is at most one SQL statement together    *)
(* with the in-memory work that no other goroutine can tell apart from it. *)
(* The worker at the other end of a stream is arbitrary: it may send any   *)
(* envelope about any job.                                                 *)
(* Deadlines kept in memory (ackBy, leaseUntil, the timeout backstop) are  *)
(* one set per session, lapsed: the jobs some deadline of which passed.    *)
(* Dispatcher.inflightOwner is left out: it is written and never read.     *)
(***************************************************************************)
EXTENDS JobsTable, Integers, Sequences, Functions

CONSTANTS
    Sessions,     \* session ids: fresh uuids, each used by one stream
    Pod,          \* claimed_by of a row that is claimed but not yet bound
    Peer,         \* claimed_by of a worker that claims its rows itself
    NoSession,
    NoJob,
    Handles,      \* the jobs whose name each session declares in Open
    Overridden,   \* jobs declared with `heartbeat <dur>`
    MaxInFlight,  \* MaxInFlight of every session
    OutboxSlack,  \* outbox capacity beyond MaxInFlight (4 in the code)
    BatchSize,    \* rows claimed per drain
    MaxSlips,     \* bound: how far below 0 inflightCounter is followed
    Faults        \* what may go wrong: see FaultKinds

(* "lease": claimed_until may pass; "ack": a worker may miss the deadline  *)
(* for its Ack; "timer": an acked row's lease or timeout kept in memory    *)
(* may pass, or the ten minutes of a drain; "db": a statement may fail,    *)
(* before or after it took effect;                                         *)
(* "ir": the schema may hide a job from the callers after they opened a    *)
(* session; "drain", "evict", "shutdown": an operator drains a session,    *)
(* evicts one or shuts the pod down; "crash": the pod dies; "peer":        *)
(* another claimant is active; "retry": an operator retries dead jobs;     *)
(* "drop": a lease bump finds its channel full; "late": the answer to an   *)
(* earlier dispatch of a row comes while the row is dispatched again.      *)
FaultKinds == {"lease", "ack", "timer", "db", "ir", "drain", "evict", "shutdown",
               "crash", "peer", "retry", "drop", "late"}

ASSUME DispatcherAssumption ==
    /\ IsFiniteSet(Sessions)
    /\ Holders = Sessions \cup {Pod, Peer}
    /\ Pod \notin Sessions
    /\ Peer \notin Sessions \cup {Pod}
    /\ NoSession \notin Sessions
    /\ NoJob \notin Jobs
    /\ Handles \in [Sessions -> SUBSET Jobs]
    /\ Overridden \subseteq Jobs
    /\ MaxInFlight \in Nat \ {0}
    /\ OutboxSlack \in Nat
    /\ BatchSize \in Nat \ {0}
    /\ MaxSlips \in Nat
    /\ Faults \subseteq FaultKinds

VARIABLES
    sess,           \* the session objects
    recv,           \* where each stream's receive loop is
    loop,           \* where the queue loop (RunQueue) is
    listing,        \* sessions an EvictSession closed, whose rows it has yet to list
    evicting,       \* rows an EvictSession listed and has yet to release
    awaiting,       \* sessions with an awaitDrainAndClose watcher
    stopping,       \* Shutdown: see ShutdownState
    hidden,         \* jobs the current IR hides from the session's caller
    held            \* rows the peer believes it runs: attempts when claimed, or 0

podVars == <<sess, recv, loop, listing, evicting, awaiting, stopping>>
vars == <<jobs, dead, sess, recv, loop, listing, evicting, awaiting, stopping,
          hidden, held>>

Envelope == [kind : {"dispatch", "revoke", "goodbye"}, job : Jobs \cup {NoJob}]

(* st "open": registered; "gone": unregistered.  flags "drained"; "closed":*)
(* closeCh is closed; "sending": runSender is running.  bumps: job ids in  *)
(* leasePendingCh or in the lease processor's batch.  count is             *)
(* inflightCounter, kept beside the map and changed outside its lock.      *)
Session == [st : {"new", "open", "gone"}, flags : SUBSET {"drained", "closed", "sending"},
            inflight : SUBSET Jobs, count : Int, acked : SUBSET Jobs,
            lapsed : SUBSET Jobs, bumps : SUBSET Jobs, outbox : Seq(Envelope)]

NewSession == [st |-> "new", flags |-> {}, inflight |-> {}, count |-> 0, acked |-> {},
               lapsed |-> {}, bumps |-> {}, outbox |-> <<>>]

(* pc "fail": handleFail has read attempts and has yet to report; pc       *)
(* "eof": the worker half-closed the stream, and the loop waits for the    *)
(* sender; pc "release": unregister has yet to release rows.               *)
RecvLoop == [pc : {"idle", "fail", "eof", "release"}, job : Jobs \cup {NoJob},
             attempts : Nat, rows : SUBSET Jobs]

RecvIdle == [pc |-> "idle", job |-> NoJob, attempts |-> 0, rows |-> {}]

(* drainOnce: "route" (todo are the claimed rows left, budget is           *)
(* perSessSlot), "record" (job is bound to sess), "push" (its entry is in  *)
(* the in-flight map, not counted yet), "dup" (the same, and the map had   *)
(* an entry for it before), "full" (the outbox was full); the sweepers:    *)
(* "sweep" (targets are the sessions one of the two has yet to visit),     *)
(* "acks" and "leases" (todo are the expired rows of sess left), "report". *)
QueueLoop == [pc : {"idle", "route", "record", "push", "dup", "full", "sweep", "acks",
                    "leases", "report"},
              todo : SUBSET Jobs, budget : [Sessions -> Nat],
              job : Jobs \cup {NoJob}, sess : Sessions \cup {NoSession},
              attempts : Nat, targets : SUBSET (Sessions \X {"acks", "leases"})]

LoopIdle == [pc |-> "idle", todo |-> {}, budget |-> [s \in Sessions |-> 0],
             job |-> NoJob, sess |-> NoSession, attempts |-> 0, targets |-> {}]

(* st "waiting": sessions are drained and waits are those not seen empty;  *)
(* "forced": the budget is spent, rows are those of session at that        *)
(* forceReleaseAll has yet to release.                                     *)
ShutdownState == [st : {"no", "waiting", "forced"}, waits : SUBSET Sessions,
                  at : Sessions \cup {NoSession}, rows : SUBSET Jobs]

Running == [st |-> "no", waits |-> {}, at |-> NoSession, rows |-> {}]

registered == {s \in Sessions : sess[s].st = "open"}

-----------------------------------------------------------------------------

Init ==
    /\ TableInit
    /\ sess = [s \in Sessions |-> NewSession]
    /\ recv = [s \in Sessions |-> RecvIdle]
    /\ loop = LoopIdle
    /\ listing = {}
    /\ evicting = [s \in Sessions |-> {}]
    /\ awaiting = {}
    /\ stopping = Running
    /\ hidden = {}
    /\ held = [j \in Jobs |-> 0]

(* A statement that may fail and leave the tables alone. *)
Sql(Stmt) == Stmt \/ ("db" \in Faults /\ UNCHANGED tableVars)

OutboxCap == MaxInFlight + OutboxSlack

(* The non-blocking sends on the outbox: best effort. *)
Push(outbox, kind, j) ==
    IF Len(outbox) < OutboxCap
    THEN Append(outbox, [kind |-> kind, job |-> j])
    ELSE outbox

(* An entry leaves the in-flight map. *)
Dropped(ses, j) ==
    [ses EXCEPT !.inflight = @ \ {j}, !.acked = @ \ {j}, !.lapsed = @ \ {j}]

(* removeInflight of a row that is there.  It counts down after its unlock;*)
(* a reader that comes between the two sees one row more than there is,    *)
(* and only offers fewer slots or waits longer for it.                     *)
Removed(ses, j) ==
    [ses EXCEPT !.inflight = @ \ {j}, !.count = @ - 1, !.acked = @ \ {j}, !.lapsed = @ \ {j}]

-----------------------------------------------------------------------------
(* The queue loop: drainOnce *)

AvailableSlots(s) ==
    IF "drained" \in sess[s].flags \/ sess[s].count >= MaxInFlight
    THEN 0
    ELSE MaxInFlight - sess[s].count

Slots == [s \in Sessions |-> IF s \in registered THEN AvailableSlots(s) ELSE 0]

(* Claim rows for the sessions with free slots; LIMIT is the smaller of    *)
(* the free slots and BatchSize.  A claim that commits and still returns   *)
(* an error ends the drain with the rows in the pod's name.                *)
DrainClaim ==
    /\ loop.pc = "idle"
    /\ \E S \in SUBSET UNION {Handles[s] : s \in {x \in Sessions : Slots[x] > 0}} :
         /\ S # {}
         /\ Cardinality(S) <= BatchSize
         /\ Cardinality(S) <= SumFunction(Slots)
         /\ ClaimRows(S, Pod)
         /\ \/ loop' = [LoopIdle EXCEPT !.pc = "route", !.todo = S, !.budget = Slots]
            \/ "db" \in Faults /\ UNCHANGED loop
    /\ UNCHANGED <<sess, recv, listing, evicting, awaiting, stopping, hidden, held>>

(* pickSession: the sessions the round-robin may choose. *)
Eligible(j) == {s \in Sessions : loop.budget[s] > 0 /\ j \in Handles[s]}

(* The loop after row j: the next claimed row, or idle. *)
Advance(j, budget) ==
    IF loop.todo = {j}
    THEN LoopIdle
    ELSE [LoopIdle EXCEPT !.pc = "route", !.todo = loop.todo \ {j}, !.budget = budget]

RouteNoSession(j) ==
    /\ loop.pc = "route" /\ j \in loop.todo
    /\ Eligible(j) = {}
    /\ Sql(ReleaseRow(j, Pod))
    /\ loop' = Advance(j, loop.budget)
    /\ UNCHANGED <<sess, recv, listing, evicting, awaiting, stopping, hidden, held>>

(* The re-check of visible_to at dispatch fails. *)
RouteRejected(j, s) ==
    /\ loop.pc = "route" /\ j \in loop.todo
    /\ s \in Eligible(j)
    /\ j \in hidden
    /\ Sql(ReleaseRow(j, s))
    /\ loop' = Advance(j, loop.budget)
    /\ UNCHANGED <<sess, recv, listing, evicting, awaiting, stopping, hidden, held>>

(* bindClaimToSession.  An IR that cannot be loaded skips the re-check.    *)
(* When the bind took effect and returned an error, the release in the     *)
(* pod's name finds no row.                                                *)
RouteBind(j, s) ==
    /\ loop.pc = "route" /\ j \in loop.todo
    /\ s \in Eligible(j)
    /\ j \notin hidden \/ "db" \in Faults
    /\ \/ /\ BindClaim(j, s)
          /\ loop' = [loop EXCEPT !.pc = "record", !.job = j, !.sess = s]
       \/ /\ "db" \in Faults
          /\ Sql(ReleaseRow(j, Pod)) \/ BindClaim(j, s)
          /\ loop' = Advance(j, loop.budget)
    /\ UNCHANGED <<sess, recv, listing, evicting, awaiting, stopping, hidden, held>>

(* The per-job lease override, and recordDispatch up to its unlock: the    *)
(* in-flight entry is (re)written unacked.                                 *)
DrainRecord ==
    LET j == loop.job
        s == loop.sess
    IN  /\ loop.pc = "record"
        /\ IF j \in Overridden THEN Sql(ExtendLease({j}, s)) ELSE UNCHANGED tableVars
        /\ sess' = [sess EXCEPT ![s].inflight = @ \cup {j}, ![s].acked = @ \ {j},
                                ![s].lapsed = @ \ {j}]
        /\ loop' = [loop EXCEPT !.pc = IF j \in sess[s].inflight THEN "dup" ELSE "push"]
        /\ UNCHANGED <<recv, listing, evicting, awaiting, stopping, hidden, held>>

(* Mutant of DrainPush: the slot is spent twice, as if recordDispatch      *)
(* counted perSessSlot down too.                                           *)
DrainPushTwice ==
    LET j == loop.job
        s == loop.sess
    IN  /\ loop.pc \in {"push", "dup"}
        /\ sess' = [sess EXCEPT ![s].count = @ + 1, ![s].outbox = Push(@, "dispatch", j)]
        /\ loop' = Advance(j, [loop.budget EXCEPT ![s] = @ - 2])
        /\ UNCHANGED <<jobs, dead, recv, listing, evicting, awaiting, stopping, hidden, held>>

(* The rest of recordDispatch: count the entry unless it was there before  *)
(* and try the outbox.  With room the slot is spent (perSessSlot).  When   *)
(* the outbox is full, an entry that was new is deleted and counted down   *)
(* again, also when the receive loop took it out, and counted it down, in  *)
(* the meantime: removals between the two halves happen before this step.  *)
(* The sweepers share this goroutine and cannot come between.              *)
DrainPush ==
    LET j == loop.job
        s == loop.sess
        room == Len(sess[s].outbox) < OutboxCap
        added == IF loop.pc = "push" THEN 1 ELSE 0
    IN  /\ loop.pc \in {"push", "dup"}
        /\ IF room
           THEN /\ sess' = [sess EXCEPT ![s].count = @ + added,
                                        ![s].outbox = Push(@, "dispatch", j)]
                /\ loop' = Advance(j, [loop.budget EXCEPT ![s] = @ - 1])
           ELSE /\ sess' = [sess EXCEPT ![s] = IF loop.pc = "push" THEN Dropped(@, j) ELSE @]
                /\ loop' = [loop EXCEPT !.pc = "full"]
        /\ UNCHANGED <<jobs, dead, recv, listing, evicting, awaiting, stopping, hidden, held>>

(* Mutant of DrainOutboxFull: the attempt that was never sent is refunded. *)
DrainOutboxFullRefunds ==
    /\ loop.pc = "full"
    /\ jobs' = [jobs EXCEPT ![loop.job] = [Unclaimed(@, "pending") EXCEPT !.attempts = 0]]
    /\ UNCHANGED dead
    /\ sess' = [sess EXCEPT ![loop.sess].flags = @ \cup {"closed"}]
    /\ loop' = Advance(loop.job, loop.budget)
    /\ UNCHANGED <<recv, listing, evicting, awaiting, stopping, hidden, held>>

(* Mutant of DrainOutboxFull: the session is kept open. *)
DrainOutboxFullKeepsOpen ==
    /\ loop.pc = "full"
    /\ Sql(ReleaseRow(loop.job, loop.sess))
    /\ loop' = Advance(loop.job, loop.budget)
    /\ UNCHANGED <<sess, recv, listing, evicting, awaiting, stopping, hidden, held>>

(* The outbox was full: release the row and close the session. *)
DrainOutboxFull ==
    /\ loop.pc = "full"
    /\ Sql(ReleaseRow(loop.job, loop.sess))
    /\ sess' = [sess EXCEPT ![loop.sess].flags = @ \cup {"closed"}]
    /\ loop' = Advance(loop.job, loop.budget)
    /\ UNCHANGED <<recv, listing, evicting, awaiting, stopping, hidden, held>>

-----------------------------------------------------------------------------
(* The queue loop: the sweepers and the reaper *)

(* findExpiredAcks and findExpiredLeases: the rows of a session whose      *)
(* deadline passed, unacked and acked ones.                                *)
Expired(s, pc) == IF pc = "acks" THEN sess[s].lapsed \ sess[s].acked
                                 ELSE sess[s].lapsed \cap sess[s].acked

(* A pass of sweepAckTimeouts or of sweepExpiredLeases over the sessions   *)
(* registered when it starts.  Every tick runs a drain, the first and the  *)
(* second, and a pass that finds nothing leaves no trace, so those that    *)
(* find something come in any order.                                       *)
SweepBegin(pc) ==
    /\ loop.pc = "idle"
    /\ \E s \in registered : Expired(s, pc) # {}
    /\ loop' = [LoopIdle EXCEPT !.pc = "sweep", !.targets = registered \X {pc}]
    /\ UNCHANGED <<jobs, dead, sess, recv, listing, evicting, awaiting, stopping, hidden, held>>

SweepEnd ==
    /\ loop.pc = "sweep"
    /\ loop.targets = {}
    /\ loop' = LoopIdle
    /\ UNCHANGED <<jobs, dead, sess, recv, listing, evicting, awaiting, stopping, hidden, held>>

(* The expired rows of one session.  They are handled one by one, so a row *)
(* may be acked, heartbeated or finished before its turn.                  *)
SweepFind(s, pc) ==
    LET found == Expired(s, pc)
        left == loop.targets \ {<<s, pc>>}
    IN  /\ loop.pc = "sweep" /\ <<s, pc>> \in loop.targets
        /\ loop' = IF found = {}
                   THEN [loop EXCEPT !.targets = left]
                   ELSE [loop EXCEPT !.targets = left, !.pc = pc, !.sess = s, !.todo = found]
        /\ UNCHANGED <<jobs, dead, sess, recv, listing, evicting, awaiting, stopping, hidden, held>>

(* The sweep after row j: the session's next expired row, or the next session. *)
SweepAdvance(pc, j) ==
    IF loop.todo \ {j} = {}
    THEN [LoopIdle EXCEPT !.pc = "sweep", !.targets = loop.targets]
    ELSE [loop EXCEPT !.pc = pc, !.todo = @ \ {j}, !.job = NoJob, !.attempts = 0]

(* Both sweepers drop the row from the session and push a Revoke. *)
RevokeExpired(s, j) ==
    sess' = [sess EXCEPT ![s] = [Removed(sess[s], j) EXCEPT !.outbox = Push(@, "revoke", j)]]

(* The row was completed, failed or removed since it was found. *)
SweepGone(j) ==
    /\ loop.pc \in {"acks", "leases"} /\ j \in loop.todo
    /\ j \notin sess[loop.sess].inflight
    /\ loop' = SweepAdvance(loop.pc, j)
    /\ UNCHANGED <<jobs, dead, sess, recv, listing, evicting, awaiting, stopping, hidden, held>>

(* Mutant of SweepAckTimeout: the row is released but stays in flight. *)
SweepAckTimeoutKeeps(j) ==
    /\ loop.pc = "acks" /\ j \in loop.todo
    /\ j \in sess[loop.sess].inflight
    /\ Sql(ReleaseRow(j, loop.sess))
    /\ loop' = SweepAdvance("acks", j)
    /\ UNCHANGED <<sess, recv, listing, evicting, awaiting, stopping, hidden, held>>

(* sweepAckTimeouts: an unacked row goes back to pending. *)
SweepAckTimeout(j) ==
    /\ loop.pc = "acks" /\ j \in loop.todo
    /\ j \in sess[loop.sess].inflight
    /\ RevokeExpired(loop.sess, j)
    /\ Sql(ReleaseRow(j, loop.sess))
    /\ loop' = SweepAdvance("acks", j)
    /\ UNCHANGED <<recv, listing, evicting, awaiting, stopping, hidden, held>>

(* sweepExpiredLeases up to lookupAttempts: an acked row is revoked and    *)
(* its attempts are read.  A failed read (also: no such row) releases.     *)
SweepExpiredLease(j) ==
    /\ loop.pc = "leases" /\ j \in loop.todo
    /\ j \in sess[loop.sess].inflight
    /\ RevokeExpired(loop.sess, j)
    /\ \/ /\ Present(j)
          /\ loop' = [loop EXCEPT !.pc = "report", !.job = j, !.attempts = jobs[j].attempts]
          /\ UNCHANGED tableVars
       \/ /\ ~Present(j) \/ "db" \in Faults
          /\ Sql(ReleaseRow(j, loop.sess))
          /\ loop' = SweepAdvance("leases", j)
    /\ UNCHANGED <<recv, listing, evicting, awaiting, stopping, hidden, held>>

(* ... and its ReportFailure with the attempts read before. *)
SweepReport ==
    /\ loop.pc = "report"
    /\ Sql(ReportFailure(loop.job, loop.attempts))
    /\ loop' = SweepAdvance("leases", loop.job)
    /\ UNCHANGED <<sess, recv, listing, evicting, awaiting, stopping, hidden, held>>

Reap ==
    /\ loop.pc = "idle"
    /\ \E S \in SUBSET {j \in Jobs : Sweepable(j)} :
         S # {} /\ SweepExhaustedToDLQ(S)
    /\ UNCHANGED <<podVars, hidden, held>>

-----------------------------------------------------------------------------
(* The stream of one session: Open, the sender, the receive loop *)

(* Open passes authz for every declared job, and the session registers. *)
Open(s) ==
    /\ stopping.st = "no"
    /\ sess[s].st = "new"
    /\ Handles[s] \cap hidden = {}
    /\ sess' = [sess EXCEPT ![s].st = "open", ![s].flags = @ \cup {"sending"}]
    /\ UNCHANGED <<jobs, dead, recv, loop, listing, evicting, awaiting, stopping, hidden, held>>

(* runSender writes the next envelope to the stream. *)
Send(s) ==
    /\ "sending" \in sess[s].flags
    /\ sess[s].outbox # <<>>
    /\ sess' = [sess EXCEPT ![s].outbox = Tail(@)]
    /\ UNCHANGED <<jobs, dead, recv, loop, listing, evicting, awaiting, stopping, hidden, held>>

(* runSender returns: closeCh was closed (the select may still have taken  *)
(* envelopes before it saw that), or the send failed, which closes it.     *)
SenderStops(s) ==
    /\ "sending" \in sess[s].flags
    /\ "closed" \in sess[s].flags \/ sess[s].outbox # <<>>
    /\ sess' = [sess EXCEPT ![s].flags = (@ \ {"sending"}) \cup {"closed"}]
    /\ UNCHANGED <<jobs, dead, recv, loop, listing, evicting, awaiting, stopping, hidden, held>>

(* The receive loop of a registered session is ready for an envelope. *)
Receiving(s) == sess[s].st = "open" /\ recv[s].pc = "idle"

(* The receive loop may take row j out of the in-flight map.  Taking it    *)
(* out between the halves of its recordDispatch lets the counter slip.     *)
Removable(s, j) ==
    /\ j \in sess[s].inflight
    /\ loop.pc = "push" /\ loop.sess = s /\ loop.job = j =>
           "late" \in Faults /\ sess[s].count > -MaxSlips

(* enqueueLeaseBump for the jobs J: a full channel drops bumps. *)
Bumped(bumps, J) == {bumps \cup J} \cup (IF "drop" \in Faults THEN {bumps} ELSE {})

(* A heartbeat renews leaseUntil and not the timeout backstop, which may   *)
(* lapse again at once.                                                    *)
HandleHeartbeat(s, J) ==
    LET owned == J \cap sess[s].inflight
    IN  /\ Receiving(s)
        /\ owned # {}
        /\ \E b \in Bumped(sess[s].bumps, owned) :
             sess' = [sess EXCEPT ![s].lapsed = @ \ owned, ![s].bumps = b]
        /\ UNCHANGED <<jobs, dead, recv, loop, listing, evicting, awaiting, stopping, hidden, held>>

(* Progress columns are written under the claimed_by guard; nothing reads  *)
(* them back.  The clocks and the lease are bumped as by a heartbeat.      *)
HandleCheckpoint(s, j) ==
    /\ Receiving(s)
    /\ j \in sess[s].inflight
    /\ \E b \in Bumped(sess[s].bumps, {j}) :
         sess' = [sess EXCEPT ![s].lapsed = @ \ {j}, ![s].bumps = b]
    /\ UNCHANGED <<jobs, dead, recv, loop, listing, evicting, awaiting, stopping, hidden, held>>

(* The lease processor's flush: one ExtendLease for the bumped rows that   *)
(* are still in flight.  Its last flush runs on the cancelled stream       *)
(* context, so it never reaches the table.                                 *)
FlushLeases(s) ==
    /\ sess[s].bumps # {}
    /\ IF sess[s].st = "open"
       THEN Sql(ExtendLease(sess[s].bumps \cap sess[s].inflight, s))
       ELSE UNCHANGED tableVars
    /\ sess' = [sess EXCEPT ![s].bumps = {}]
    /\ UNCHANGED <<recv, loop, listing, evicting, awaiting, stopping, hidden, held>>

HandleAck(s, j) ==
    /\ Receiving(s)
    /\ j \in sess[s].inflight
    /\ sess' = [sess EXCEPT ![s].acked = @ \cup {j},
                            ![s].lapsed = IF j \in sess[s].acked THEN @ ELSE @ \ {j}]
    /\ UNCHANGED <<jobs, dead, recv, loop, listing, evicting, awaiting, stopping, hidden, held>>

HandleComplete(s, j) ==
    /\ Receiving(s)
    /\ Removable(s, j)
    /\ sess' = [sess EXCEPT ![s] = Removed(@, j)]
    /\ Sql(MarkComplete(j))
    /\ UNCHANGED <<recv, loop, listing, evicting, awaiting, stopping, hidden, held>>

(* Retry = false: the worker wants the dead-letter queue. *)
HandleFailNoRetry(s, j) ==
    /\ Receiving(s)
    /\ Removable(s, j)
    /\ sess' = [sess EXCEPT ![s] = Removed(@, j)]
    /\ Sql(MoveToDLQ(j))
    /\ UNCHANGED <<recv, loop, listing, evicting, awaiting, stopping, hidden, held>>

(* Retry = true, up to lookupAttempts.  When the lookup fails the handler  *)
(* goes on with attempts 1 and max_retries 0, which reports as exhausted.  *)
HandleFail(s, j) ==
    /\ Receiving(s)
    /\ Removable(s, j)
    /\ sess' = [sess EXCEPT ![s] = Removed(@, j)]
    /\ \E a \in (IF Present(j) THEN {jobs[j].attempts} ELSE {})
              \cup (IF ~Present(j) \/ "db" \in Faults THEN {MaxRetries[j]} ELSE {}) :
         recv' = [recv EXCEPT ![s] = [RecvIdle EXCEPT !.pc = "fail", !.job = j,
                                                      !.attempts = a]]
    /\ UNCHANGED <<jobs, dead, loop, listing, evicting, awaiting, stopping, hidden, held>>

FailReport(s) ==
    /\ recv[s].pc = "fail"
    /\ Sql(ReportFailure(recv[s].job, recv[s].attempts))
    /\ recv' = [recv EXCEPT ![s] = RecvIdle]
    /\ UNCHANGED <<sess, loop, listing, evicting, awaiting, stopping, hidden, held>>

(* The worker closes its half of the stream.  The session stays registered *)
(* until the sender returns.                                               *)
HalfClose(s) ==
    /\ Receiving(s)
    /\ recv' = [recv EXCEPT ![s].pc = "eof"]
    /\ UNCHANGED <<jobs, dead, sess, loop, listing, evicting, awaiting, stopping, hidden, held>>

(* WorkerSession returns: the stream broke, the worker violated the        *)
(* protocol, or it half-closed and the sender returned.  The deferred      *)
(* unregister runs: off the registry, then the rows released one by one,   *)
(* then closed.                                                            *)
StreamEnds(s) ==
    /\ Receiving(s) \/ recv[s].pc = "eof"
    /\ sess' = [sess EXCEPT ![s].st = "gone",
                            ![s].flags = (@ \ {"sending"}) \cup
                                         (IF sess[s].inflight = {} THEN {"closed"} ELSE {})]
    /\ recv' = [recv EXCEPT ![s] = IF sess[s].inflight = {} THEN RecvIdle
                   ELSE [RecvIdle EXCEPT !.pc = "release", !.rows = sess[s].inflight]]
    /\ UNCHANGED <<jobs, dead, loop, listing, evicting, awaiting, stopping, hidden, held>>

UnregisterRelease(s, j) ==
    /\ recv[s].pc = "release" /\ j \in recv[s].rows
    /\ Sql(ReleaseRow(j, s))
    /\ recv' = [recv EXCEPT ![s] = IF recv[s].rows = {j} THEN RecvIdle
                                   ELSE [recv[s] EXCEPT !.rows = @ \ {j}]]
    /\ sess' = [sess EXCEPT ![s].flags = @ \cup (IF recv[s].rows = {j} THEN {"closed"} ELSE {})]
    /\ UNCHANGED <<loop, listing, evicting, awaiting, stopping, hidden, held>>
-----------------------------------------------------------------------------
(* Operators: drain, evict, shutdown *)

DrainSession(s) ==
    /\ "drain" \in Faults
    /\ s \in registered
    /\ sess' = [sess EXCEPT ![s].flags = @ \cup {"drained"}]
    /\ awaiting' = awaiting \cup {s}
    /\ UNCHANGED <<jobs, dead, recv, loop, listing, evicting, stopping, hidden, held>>

(* awaitDrainAndClose: inflightCount is 0, or its ten minutes are over; or *)
(* the session was closed by someone else.                                 *)
AwaitDrainAndClose(s) ==
    /\ s \in awaiting
    /\ \/ /\ sess[s].count = 0 \/ "timer" \in Faults
          /\ sess' = [sess EXCEPT ![s].flags = @ \cup {"closed"},
                                  ![s].outbox = Push(@, "goodbye", NoJob)]
       \/ /\ sess[s].count # 0 /\ "closed" \in sess[s].flags
          /\ UNCHANGED sess
    /\ awaiting' = awaiting \ {s}
    /\ UNCHANGED <<jobs, dead, recv, loop, listing, evicting, stopping, hidden, held>>

(* The orders in which a loop over a Go map can visit S. *)
Orders(S) ==
    {q \in [1..Cardinality(S) -> S] : \A i, k \in DOMAIN q : q[i] = q[k] => i = k}

(* Best-effort sends of several envelopes in a row: what fits gets in. *)
PushAll(outbox, envelopes) ==
    LET all == outbox \o envelopes
    IN  SubSeq(all, 1, IF Len(all) < OutboxCap THEN Len(all) ELSE OutboxCap)

Revokes(q) == [i \in DOMAIN q |-> [kind |-> "revoke", job |-> q[i]]]

(* Drained, Goodbye and a Revoke per row, closed. *)
EvictSession(s) ==
    /\ "evict" \in Faults
    /\ s \in registered
    /\ \E q \in Orders(sess[s].inflight) :
         sess' = [sess EXCEPT ![s].flags = @ \cup {"drained", "closed"},
                              ![s].outbox = PushAll(@, <<[kind |-> "goodbye", job |-> NoJob]>>
                                                       \o Revokes(q))]
    /\ listing' = listing \cup {s}
    /\ UNCHANGED <<jobs, dead, recv, loop, evicting, awaiting, stopping, hidden, held>>

(* EvictSession lists the rows a second time, to release them one by one;  *)
(* they stay in the session's in-flight map.                               *)
EvictList(s) ==
    /\ s \in listing
    /\ listing' = listing \ {s}
    /\ evicting' = [evicting EXCEPT ![s] = @ \cup sess[s].inflight]
    /\ UNCHANGED <<jobs, dead, sess, recv, loop, awaiting, stopping, hidden, held>>

EvictRelease(s, j) ==
    /\ j \in evicting[s]
    /\ Sql(ReleaseRow(j, s))
    /\ evicting' = [evicting EXCEPT ![s] = @ \ {j}]
    /\ UNCHANGED <<sess, recv, loop, listing, awaiting, stopping, hidden, held>>

Shutdown ==
    /\ "shutdown" \in Faults
    /\ stopping.st = "no"
    /\ stopping' = [Running EXCEPT !.st = "waiting", !.waits = registered]
    /\ sess' = [s \in Sessions |->
                  IF s \in registered
                  THEN [sess[s] EXCEPT !.flags = @ \cup {"drained"}, !.outbox = Push(@, "goodbye", NoJob)]
                  ELSE sess[s]]
    /\ UNCHANGED <<jobs, dead, recv, loop, listing, evicting, awaiting, hidden, held>>

(* Shutdown's wait is over: its sessions' counters add up to 0, or the     *)
(* budget is spent.                                                        *)
ShutdownWaited ==
    LET stillInflight == SumFunctionOnSet([s \in Sessions |-> sess[s].count], stopping.waits)
    IN  /\ stopping.waits # {} /\ stopping.st = "waiting"
        /\ stopping' = IF stillInflight = 0 THEN [stopping EXCEPT !.waits = {}]
                                            ELSE [stopping EXCEPT !.st = "forced"]
        /\ UNCHANGED <<jobs, dead, sess, recv, loop, listing, evicting, awaiting, hidden, held>>

(* forceReleaseAll takes its sessions one after the other and lists the    *)
(* rows of each; one without rows is closed at once.                       *)
ForceList(s) ==
    /\ stopping.st = "forced" /\ stopping.at = NoSession /\ s \in stopping.waits
    /\ IF sess[s].inflight = {}
       THEN /\ sess' = [sess EXCEPT ![s].flags = @ \cup {"closed"}]
            /\ stopping' = [stopping EXCEPT !.waits = @ \ {s}]
       ELSE /\ stopping' = [stopping EXCEPT !.waits = @ \ {s}, !.at = s,
                                            !.rows = sess[s].inflight]
            /\ UNCHANGED sess
    /\ UNCHANGED <<jobs, dead, recv, loop, listing, evicting, awaiting, hidden, held>>

(* ... revokes and releases them one by one, and closes the session last. *)
ForceRelease(s, j) ==
    LET left == stopping.rows \ {j}
    IN  /\ stopping.at = s /\ j \in stopping.rows
        /\ Sql(ReleaseRow(j, s))
        /\ sess' = [sess EXCEPT ![s].outbox = Push(@, "revoke", j),
                                ![s].flags = @ \cup (IF left = {} THEN {"closed"} ELSE {})]
        /\ stopping' = [stopping EXCEPT !.at = IF left = {} THEN NoSession ELSE s, !.rows = left]
        /\ UNCHANGED <<recv, loop, listing, evicting, awaiting, hidden, held>>

(* The process ends: what it kept in memory is lost, the rows stay claimed. *)
Crash ==
    /\ "crash" \in Faults
    /\ sess' = [s \in Sessions |->
                  IF sess[s].st = "new" THEN NewSession
                  ELSE [NewSession EXCEPT !.st = "gone", !.flags = {"closed"}]]
    /\ recv' = [s \in Sessions |-> RecvIdle]
    /\ loop' = LoopIdle
    /\ listing' = {}
    /\ evicting' = [s \in Sessions |-> {}]
    /\ awaiting' = {}
    /\ stopping' = Running
    /\ UNCHANGED <<jobs, dead, hidden, held>>

-----------------------------------------------------------------------------
(* The surroundings: time, the schema, submitters, operators, other claimants *)

TimerLapses(s, j) ==
    /\ s \in registered
    /\ j \in sess[s].inflight
    /\ (IF j \in sess[s].acked THEN "timer" ELSE "ack") \in Faults
    /\ sess' = [sess EXCEPT ![s].lapsed = @ \cup {j}]
    /\ UNCHANGED <<jobs, dead, recv, loop, listing, evicting, awaiting, stopping, hidden, held>>

SchemaApplied(j) ==
    /\ "ir" \in Faults
    /\ hidden' = IF j \in hidden THEN hidden \ {j} ELSE hidden \cup {j}
    /\ UNCHANGED <<jobs, dead, podVars, held>>

PeerClaims(j) ==
    /\ "peer" \in Faults
    /\ ClaimRows({j}, Peer)
    /\ held' = [held EXCEPT ![j] = jobs[j].attempts + 1]
    /\ UNCHANGED <<podVars, hidden>>

(* The peer completes or fails a row it claimed, or dies.  The attempts it *)
(* reports are those of its claim (ClaimedRow.Attempts).                   *)
PeerEnds(j) ==
    /\ held[j] > 0
    /\ \/ MarkComplete(j)
       \/ ReportFailure(j, held[j])
       \/ UNCHANGED tableVars
    /\ held' = [held EXCEPT ![j] = 0]
    /\ UNCHANGED <<podVars, hidden>>

TableStep(j) ==
    /\ \/ SubmitJob(j)
       \/ "retry" \in Faults /\ RetryDeadJob(j)
       \/ "lease" \in Faults /\ LeaseLapses(j)
       \/ held[j] > 0 /\ ExtendLease({j}, Peer)
    /\ UNCHANGED <<podVars, hidden, held>>

-----------------------------------------------------------------------------

QueueStep ==
    \/ DrainClaim \/ DrainRecord \/ DrainPush \/ DrainOutboxFull
    \/ SweepEnd \/ SweepReport \/ Reap
    \/ \E j \in Jobs : \/ RouteNoSession(j) \/ SweepGone(j)
                       \/ SweepAckTimeout(j) \/ SweepExpiredLease(j)
                       \/ \E s \in Sessions : RouteRejected(j, s) \/ RouteBind(j, s)
    \/ \E pc \in {"acks", "leases"} : SweepBegin(pc) \/ \E s \in Sessions : SweepFind(s, pc)

(* What the server's goroutines do for one session. *)
SessionStep(s) ==
    \/ SenderStops(s) \/ FlushLeases(s) \/ FailReport(s)
    \/ AwaitDrainAndClose(s) \/ EvictList(s) \/ ForceList(s)
    \/ \E j \in Jobs : UnregisterRelease(s, j) \/ EvictRelease(s, j) \/ ForceRelease(s, j)

(* What the worker of a session makes happen. *)
WorkerStep(s) ==
    \/ Open(s) \/ Send(s) \/ HalfClose(s) \/ StreamEnds(s)
    \/ \E J \in SUBSET Jobs : HandleHeartbeat(s, J)
    \/ \E j \in Jobs : \/ HandleCheckpoint(s, j) \/ HandleAck(s, j)
                       \/ HandleComplete(s, j) \/ HandleFail(s, j)
                       \/ HandleFailNoRetry(s, j)

OperatorStep ==
    \/ Shutdown \/ ShutdownWaited \/ Crash
    \/ \E s \in Sessions : DrainSession(s) \/ EvictSession(s)

EnvironmentStep ==
    \/ \E j \in Jobs : \/ TableStep(j) \/ SchemaApplied(j)
                       \/ PeerClaims(j) \/ PeerEnds(j)
    \/ \E s \in Sessions, j \in Jobs : TimerLapses(s, j)

Next ==
    \/ QueueStep
    \/ \E s \in Sessions : SessionStep(s) \/ WorkerStep(s)
    \/ OperatorStep
    \/ EnvironmentStep

Spec == Init /\ [][Next]_vars

(* A row whose claimant will never report on it: its session is gone, the  *)
(* pod has forgotten it, or the peer has.                                  *)
Orphan(j) ==
    /\ jobs[j].status = "running"
    /\ \/ jobs[j].holder \in Sessions /\ sess[jobs[j].holder].st # "open"
       \/ jobs[j].holder = Pod /\ loop.pc = "idle"
       \/ jobs[j].holder = Peer /\ held[j] = 0

(* Go runs every goroutine that can run.  The queue loop finishes a drain  *)
(* or sweep it began, and its ticker makes it begin the reaper again and   *)
(* again; the goroutines of a session get on; time passes over a lease     *)
(* nobody extends.  Workers, operators and peers owe nothing.              *)
Fairness ==
    /\ WF_vars(loop.pc # "idle" /\ QueueStep)
    /\ SF_vars(Reap)
    /\ \A s \in Sessions : /\ WF_vars(SenderStops(s))
                           /\ WF_vars(FailReport(s))
                           /\ WF_vars(AwaitDrainAndClose(s))
                           /\ WF_vars(EvictList(s))
                           /\ WF_vars(recv[s].pc = "eof" /\ "sending" \notin sess[s].flags /\ StreamEnds(s))
                           /\ \A j \in Jobs : /\ WF_vars(UnregisterRelease(s, j))
                                               /\ WF_vars(EvictRelease(s, j))
    /\ \A j \in Jobs : WF_vars(Orphan(j) /\ LeaseLapses(j) /\ TableStep(j))

FairSpec == Spec /\ Fairness
-----------------------------------------------------------------------------
(* Properties *)

TypeOK ==
    /\ jobs \in [Jobs -> Row]
    /\ dead \in SUBSET Jobs
    /\ sess \in [Sessions -> Session]
    /\ recv \in [Sessions -> RecvLoop]
    /\ loop \in QueueLoop
    /\ listing \in SUBSET Sessions
    /\ evicting \in [Sessions -> SUBSET Jobs]
    /\ awaiting \in SUBSET Sessions
    /\ stopping \in ShutdownState
    /\ hidden \in SUBSET Jobs
    /\ held \in [Jobs -> Nat]

(* A session that nobody has closed never has more rows in flight than the *)
(* MaxInFlight it asked for.  drainOnce dispatches against slots it took   *)
(* from inflightCounter before the claim (availableSlots, perSessSlot),    *)
(* while receive loops, sweepers and operators change the map and, later,  *)
(* the counter; a recordDispatch that miscounts is followed by close.      *)
OpenWithinLimit ==
    \A s \in Sessions : "closed" \notin sess[s].flags => Cardinality(sess[s].inflight) <= MaxInFlight

(* The same of every session: availableSlots "is how many more rows the    *)
(* dispatcher may push into this session before saturating MaxInFlight".   *)
InflightWithinLimit ==
    \A s \in Sessions : Cardinality(sess[s].inflight) <= MaxInFlight

(* The row in flight on a registered session is running and claimed by     *)
(* that session: no other claimant, sweeper or late report has taken it    *)
(* away, whatever order the goroutines run in.  It needs leases that do    *)
(* not run out under a working session, no eviction, and no answer that    *)
(* lands between the halves of the row's recordDispatch: on a full outbox  *)
(* such a Fail reports a row that was released meanwhile.                  *)
SessionOwnsItsRows ==
    \A s \in registered : \A j \in sess[s].inflight :
        jobs[j].status = "running" /\ jobs[j].holder = s

(* The tables, as the dispatcher's goroutines and the other claimants      *)
(* leave them, go through the life of a job that JobLifecycle promises:    *)
(* only a queued row is taken and only a taken one is finished, dismissed  *)
(* or given back, and what is done stays done.                             *)
LifecycleSpec == Lifecycle!LifeSpec

(* A step of the one in whose name row j is claimed. *)
ActsFor(h, j) ==
    \/ h = Pod /\ (RouteNoSession(j) \/ \E s \in Sessions : RouteBind(j, s))
    \/ h = Peer /\ PeerEnds(j)
    \/ /\ h \in Sessions
       /\ \/ UnregisterRelease(h, j) \/ EvictRelease(h, j) \/ ForceRelease(h, j)
          \/ /\ loop.sess = h
             /\ \/ SweepAckTimeout(j) \/ SweepExpiredLease(j)
                \/ loop.job = j /\ DrainOutboxFull

(* A running row goes back to pending by a step of its claimant, or by a   *)
(* failure report: a release that comes late, for a row that another       *)
(* claimant has by now, changes nothing (ReleaseRow's claimed_by           *)
(* predicate; unregister and the ack sweep may both release a row, and a   *)
(* peer claim it in between).  Failure reports name a row by id alone.     *)
ReleasedByItsHolder ==
    [][\A j \in Jobs :
         jobs[j].status = "running" /\ jobs'[j].status = "pending" =>
             \/ ActsFor(jobs[j].holder, j)
             \/ loop.job = j /\ SweepReport
             \/ \E s \in Sessions : recv[s].job = j /\ FailReport(s)]_vars

(* A complete row is terminal (MarkComplete "writes the terminal state"):  *)
(* no release, failure report or sweep brings it back or buries it.        *)
CompleteIsFinal ==
    [][\A j \in Jobs : jobs[j].status = "complete" => jobs'[j].status = "complete"]_vars

(* As long as no statement fails and no operator revives dead jobs, a row  *)
(* reaches the dead-letter queue only with its claim budget spent, unless  *)
(* its worker asked for that: the attempts a reporter read some steps ago  *)
(* (lookupAttempts, ReportFailure) can by then only be too low.  A revival *)
(* resets them, and a report from before it buries the fresh row.          *)
DeadOnlyWhenExhausted ==
    [][\A j \in Jobs : j \in dead' \ dead =>
         \/ Exhausted(j)
         \/ \E s \in Sessions : HandleFailNoRetry(s, j)]_vars

(* `retries N` is "the maximum number of times a failing job is            *)
(* re-attempted before being moved to atlantis.jobs_dead": a job that only *)
(* failures bury had its first attempt and N more.                         *)
DeadAfterReattempts ==
    [][\A j \in Jobs : j \in dead' \ dead =>
         \/ jobs[j].attempts > MaxRetries[j]
         \/ \E s \in Sessions : HandleFailNoRetry(s, j)]_vars

(* An orphaned row that has no claim left does not stay running for ever:  *)
(* the claim statement no longer sees it, and the reaper finds it once its *)
(* lease is stale (SweepExhaustedToDLQ, RunQueue).                         *)
ExhaustedOrphansEnd ==
    \A j \in Jobs : Orphan(j) /\ Exhausted(j) ~> ~Orphan(j)

(* A row the drain rejects at dispatch is released: drainOnce, "If so,     *)
(* release the row and skip".                                              *)
RejectedRowIsReleased ==
    [][\A j \in Jobs, s \in Sessions : RouteRejected(j, s) => jobs'[j].status = "pending"]_vars

(* A session whose stream was closed from the server's side is             *)
(* unregistered: EvictSession, "The recv loop in WorkerSession returns,    *)
(* defer fires unregister, which releases the rows".                       *)
ClosedSessionLeaves ==
    \A s \in Sessions : s \in registered /\ "closed" \in sess[s].flags ~> s \notin registered

=============================================================================
