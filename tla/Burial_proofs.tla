-------------------------- MODULE Burial_proofs --------------------------
(***************************************************************************)
(* Who may bury a row: as long as no statement fails and no dead row is    *)
(* retried, a row is buried only with its claims spent, or because its     *)
(* worker says so.                                                         *)
(***************************************************************************)
EXTENDS Dispatcher_proofs

(* While no statement fails and no dead job is resubmitted. *)
Calm == Faults \cap {"db", "retry"} = {}

(* The row was claimed in this life, or is already in the dead-letter queue. *)
Tried(j) == j \in dead \/ (Present(j) /\ jobs[j].attempts > 0)

(* Reporting a failure of j with attempts a buries no row too early. *)
Knows(j, a) == Tried(j) /\ (Present(j) => a <= jobs[j].attempts)

(* Row j is on its way to a worker or with one. *)
Handled(j) ==
    \/ \E s \in Sessions : j \in sess[s].inflight
    \/ Draining /\ j \in loop.todo

(* Somebody read the attempts a of row j and will report it failed:        *)
(* handleFail, sweepExpiredLeases, or the peer that claimed it.            *)
Reporter(j, a) ==
    \/ \E s \in Sessions : recv[s].pc = "fail" /\ recv[s].job = j /\ recv[s].attempts = a
    \/ loop.pc = "report" /\ loop.job = j /\ loop.attempts = a
    \/ a > 0 /\ held[j] = a

(* The row drainOnce is busy with is one of those it claimed. *)
OnClaimed == loop.pc \in {"record", "push", "dup", "full"} => loop.job \in loop.todo

Informed ==
    /\ \A j \in Jobs : Handled(j) => Tried(j)
    /\ \A j \in Jobs, a \in Nat : Reporter(j, a) => Knows(j, a)
    /\ OnClaimed

(* A step that buries only rows whose claims are spent, or that the worker *)
(* gave up, and brings none back.                                          *)
Buries ==
    /\ dead \subseteq dead'
    /\ \A j \in Jobs : j \in dead' \ dead =>
         Exhausted(j) \/ \E s \in Sessions : HandleFailNoRetry(s, j)

(* Such a step takes no knowledge away. *)
KnowledgeKept ==
    /\ \A j \in Jobs : Tried(j) => Tried(j)'
    /\ \A j \in Jobs, a \in Nat : Knows(j, a) => Knows(j, a)'

(* A step that hands no row on and reads no attempts. *)
NoNews ==
    /\ \A j \in Jobs : Handled(j)' => Handled(j)
    /\ \A j \in Jobs, a \in Nat : Reporter(j, a)' => Reporter(j, a)
    /\ OnClaimed'

InflightShrinks == \A s \in Sessions : sess'[s].inflight \subseteq sess[s].inflight

LEMMA StepInforms == Calm /\ Inv /\ Informed /\ [Next]_vars => Informed' /\ Buries
  <1>BuriesKeeps.
      ASSUME Inv, Inv', Buries, [TableNext]_tableVars
      PROVE  KnowledgeKept
    <2> USE <1>BuriesKeeps
    <2>1. KeepsJobs /\ KeepsAttempts
      BY TableStepKeeps DEF Inv
    <2>2. \A j \in Jobs : jobs[j].attempts \in Nat /\ jobs'[j].attempts \in Nat
      BY DEF Inv, TableInv, TableTypeOK, Row
    <2>3. \A j \in Jobs : j \in dead => j \in dead' /\ ~Present(j) /\ ~Present(j)'
      BY DEF Buries, Inv, TableInv, InOneTable
    <2> ASSUME NEW j \in Jobs, Tried(j) PROVE Tried(j)'
      BY <2>1, <2>2, <2>3 DEF Tried, KeepsJobs, KeepsAttempts
    <2> ASSUME NEW j \in Jobs, NEW a \in Nat, Knows(j, a) PROVE Knows(j, a)'
      <3> Tried(j) /\ Tried(j)'
        BY DEF Knows
      <3> ASSUME Present(j)' PROVE a <= jobs'[j].attempts
        <4> Present(j)
          BY <2>3 DEF Tried
        <4> a <= jobs[j].attempts /\ jobs'[j].attempts >= jobs[j].attempts
          BY <2>1 DEF Knows, KeepsAttempts
        <4> QED
          BY <2>2
      <3> QED
        BY DEF Knows
    <2> QED
      BY DEF KnowledgeKept

  <1>QuietBuries.
                     UNCHANGED dead => Buries
    BY DEF Buries

  (* ReportFailure with what its caller knows. *)
  <1>ReportBuries.
      ASSUME Inv, NEW k \in Jobs, NEW a \in Nat, Knows(k, a), ReportFailure(k, a)
      PROVE  Buries
    <2> USE <1>ReportBuries
    <2> CASE UNCHANGED dead
      BY <1>QuietBuries
    <2> CASE Present(k) /\ k \notin dead /\ a >= MaxRetries[k] /\ dead' = dead \cup {k}
      <3>1. a <= jobs[k].attempts /\ jobs[k].attempts > 0
        BY DEF Knows, Tried
      <3> jobs[k].attempts \in Nat /\ MaxRetries[k] \in Nat
        BY JobsTableAssumption DEF JobsTableAssumption, Inv, TableInv, TableTypeOK, Row
      <3> Exhausted(k)
        BY <3>1 DEF Exhausted, ClaimBudget
      <3> QED
        BY DEF Buries
    <2> QED
      BY Zenon DEF ReportFailure, MoveToDLQ, tableVars

  <1>QueueBuries.
      ASSUME Calm, Inv, Informed, QueueStep
      PROVE  Buries
    <2> USE <1>QueueBuries
    <2> USE DEF Sql, tableVars
    <2>0. "db" \notin Faults
      BY DEF Calm
    <2>1. CASE DrainClaim \/ DrainPush \/ SweepEnd
      BY <2>1, <1>QuietBuries, Zenon DEF DrainClaim, DrainPush, SweepEnd, ClaimRows
    <2>2. CASE DrainRecord
      BY <2>2, <1>QuietBuries DEF DrainRecord, ExtendLease
    <2>3. CASE DrainOutboxFull
      BY <2>3, <1>QuietBuries DEF DrainOutboxFull, ReleaseRow
    <2>4. CASE SweepReport
      <3> loop.job \in Jobs /\ loop.attempts \in Nat
        BY <2>4 DEF SweepReport, Inv, LoopKnows, TypeOK, QueueLoop
      <3> Knows(loop.job, loop.attempts)
        BY <2>4, Zenon DEF SweepReport, Informed, Reporter
      <3> QED
        BY <2>0, <2>4, <1>ReportBuries DEF SweepReport
    <2>5. CASE Reap
      BY <2>5, Zenon DEF Reap, SweepExhaustedToDLQ, Sweepable, Buries
    <2>6. ASSUME NEW j \in Jobs, RouteNoSession(j) \/ SweepGone(j) \/ SweepAckTimeout(j)
          PROVE  Buries
      BY <2>6, <1>QuietBuries, Zenon DEF RouteNoSession, SweepGone, SweepAckTimeout, ReleaseRow
    <2>7. ASSUME NEW j \in Jobs, SweepExpiredLease(j) PROVE Buries
      BY <2>7, <1>QuietBuries DEF SweepExpiredLease, ReleaseRow
    <2>8. ASSUME NEW j \in Jobs, NEW s \in Sessions, RouteRejected(j, s) \/ RouteBind(j, s)
          PROVE  Buries
      BY <2>8, <1>QuietBuries DEF RouteRejected, RouteBind, ReleaseRow, BindClaim
    <2>   ASSUME NEW pc \in {"acks", "leases"}, SweepBegin(pc) PROVE Buries
      BY <1>QuietBuries, Zenon DEF SweepBegin
    <2>   ASSUME NEW s \in Sessions, NEW pc \in {"acks", "leases"}, SweepFind(s, pc)
          PROVE  Buries
      BY <1>QuietBuries DEF SweepFind
    <2> QED
      BY <2>1, <2>2, <2>3, <2>4, <2>5, <2>6, <2>7, <2>8 DEF QueueStep

  <1>SessionBuries.
      ASSUME Calm, Inv, Informed, NEW s \in Sessions, SessionStep(s) \/ WorkerStep(s)
      PROVE  Buries
    <2> USE <1>SessionBuries
    <2> USE DEF Sql, tableVars
    <2>0. "db" \notin Faults
      BY DEF Calm
    <2> CASE SenderStops(s) \/ FlushLeases(s) \/ AwaitDrainAndClose(s) \/ EvictList(s) \/ ForceList(s)
      BY <1>QuietBuries
      DEF SenderStops, FlushLeases, AwaitDrainAndClose, EvictList, ForceList, ExtendLease
    <2> CASE FailReport(s)
      <3> recv[s].job \in Jobs /\ recv[s].attempts \in Nat
        BY DEF FailReport, Inv, RecvKnows, TypeOK, RecvLoop
      <3> Knows(recv[s].job, recv[s].attempts)
        BY Zenon DEF FailReport, Informed, Reporter
      <3> QED
        BY <2>0, <1>ReportBuries DEF FailReport
    <2>   ASSUME NEW j \in Jobs, UnregisterRelease(s, j) \/ EvictRelease(s, j) \/ ForceRelease(s, j)
          PROVE  Buries
      BY <1>QuietBuries, Zenon DEF UnregisterRelease, EvictRelease, ForceRelease, ReleaseRow
    <2> CASE Open(s) \/ Send(s) \/ HalfClose(s) \/ StreamEnds(s)
      BY <1>QuietBuries DEF Open, Send, HalfClose, StreamEnds
    <2> ASSUME NEW J \in SUBSET Jobs, HandleHeartbeat(s, J) PROVE Buries
      BY <1>QuietBuries DEF HandleHeartbeat
    <2>   ASSUME NEW j \in Jobs, HandleCheckpoint(s, j) \/ HandleAck(s, j)
                                 \/ HandleComplete(s, j) \/ HandleFail(s, j)
          PROVE  Buries
      BY <1>QuietBuries, Zenon DEF HandleCheckpoint, HandleAck, HandleComplete, HandleFail, MarkComplete
    <2> ASSUME NEW j \in Jobs, HandleFailNoRetry(s, j) PROVE Buries
      <3> dead \subseteq dead' /\ \A k \in Jobs : k \in dead' \ dead => k = j
        BY <2>0, Zenon DEF HandleFailNoRetry, MoveToDLQ
      <3> QED
        BY DEF Buries
    <2> QED
      BY DEF SessionStep, WorkerStep

  <1>OtherBuries.
      ASSUME Calm, Inv, Informed, OperatorStep \/ EnvironmentStep
      PROVE  Buries
    <2> USE <1>OtherBuries
    <2> CASE OperatorStep
      BY OperatorTable, <1>QuietBuries DEF tableVars
    <2> ASSUME NEW j \in Jobs, TableStep(j) PROVE Buries
      BY <1>QuietBuries DEF Calm, TableStep, SubmitJob, LeaseLapses, ExtendLease
    <2> ASSUME NEW j \in Jobs, SchemaApplied(j) \/ PeerClaims(j) PROVE Buries
      BY <1>QuietBuries DEF SchemaApplied, PeerClaims, ClaimRows
    <2> ASSUME NEW j \in Jobs, PeerEnds(j) PROVE Buries
      <3> held[j] \in Nat /\ held[j] > 0
        BY DEF PeerEnds, Inv, TypeOK
      <3> Knows(j, held[j])
        BY Zenon DEF Informed, Reporter
      <3> QED
        BY <1>ReportBuries, <1>QuietBuries DEF PeerEnds, MarkComplete, tableVars
    <2> ASSUME NEW s \in Sessions, NEW j \in Jobs, TimerLapses(s, j) PROVE Buries
      BY <1>QuietBuries DEF TimerLapses
    <2> QED
      BY DEF EnvironmentStep

  <1>NoNewsInforms.
                       KnowledgeKept /\ Informed /\ NoNews => Informed'
    BY DEF KnowledgeKept, Informed, NoNews

  (* The queue loop rests. *)
  <1>RestingNews.
      ASSUME Informed, InflightShrinks, UNCHANGED loop,
             \A s \in Sessions : recv'[s].pc = "fail" => recv'[s] = recv[s],
             \A j \in Jobs : held'[j] \in {held[j], 0}
      PROVE  NoNews
    <2> USE <1>RestingNews
    <2> \A j \in Jobs : Handled(j)' => Handled(j)
      BY DEF Handled, InflightShrinks, Draining
    <2> \A j \in Jobs, a \in Nat : Reporter(j, a)' => Reporter(j, a)
      BY DEF Reporter
    <2> QED
      BY DEF NoNews, OnClaimed, Informed

  (* The queue loop goes on, and claims and reads nothing. *)
  <1>LoopNews.
      ASSUME InflightShrinks, UNCHANGED <<recv, held>>, OnClaimed',
             Draining' => Draining /\ loop'.todo \subseteq loop.todo,
             loop'.pc # "report"
      PROVE  NoNews
    <2> USE <1>LoopNews
    <2> \A j \in Jobs : Handled(j)' => Handled(j)
      BY Zenon DEF Handled, InflightShrinks
    <2> \A j \in Jobs, a \in Nat : Reporter(j, a)' => Reporter(j, a)
      BY Zenon DEF Reporter
    <2> QED
      BY Zenon DEF NoNews

  (* drainOnce goes on with its next row. *)
  <1>AdvanceNews.
      ASSUME Inv, InflightShrinks, UNCHANGED <<recv, held>>, Draining,
             NEW j \in Jobs, NEW b \in [Sessions -> Nat], loop' = Advance(j, b)
      PROVE  NoNews
    <2> USE <1>AdvanceNews
    <2> loop'.pc \in {"idle", "route"} /\ loop'.todo \subseteq loop.todo
      BY AdvanceFacts, Zenon
    <2> OnClaimed' /\ loop'.pc # "report"
      BY Zenon DEF OnClaimed
    <2> QED
      BY <1>LoopNews, Zenon

  (* A sweep goes on with its next row. *)
  <1>SweepNews.
      ASSUME Inv, InflightShrinks, UNCHANGED <<recv, held>>,
             NEW j \in Jobs, NEW pc \in {"acks", "leases"}, loop' = SweepAdvance(pc, j)
      PROVE  NoNews
    <2> USE <1>SweepNews
    <2> loop'.pc \in {"sweep", "acks", "leases"}
      BY SweepAdvanceFacts
    <2> OnClaimed' /\ loop'.pc # "report" /\ ~Draining'
      BY DEF OnClaimed, Draining
    <2> QED
      BY <1>LoopNews

  (* The claim statement counts an attempt for every row it takes. *)
  <1>ClaimInforms.
      ASSUME Calm, Inv, Informed, KnowledgeKept, DrainClaim
      PROVE  Informed'
    <2> USE <1>ClaimInforms
    <2> "db" \notin Faults
      BY DEF Calm
    <2>1. PICK S \in SUBSET UNION {Handles[s] : s \in {x \in Sessions : Slots[x] > 0}} :
            ClaimRows(S, Pod) /\ loop' = [LoopIdle EXCEPT !.pc = "route", !.todo = S, !.budget = Slots]
      BY Zenon DEF DrainClaim
    <2> S \in SUBSET Jobs
      BY DispatcherAssumption DEF DispatcherAssumption
    <2> ClaimRows(S, Pod) /\ loop'.pc = "route" /\ loop'.todo = S
      BY <2>1 DEF LoopIdle
    <2>2. \A j \in S : Tried(j)'
      <3> \A j \in S : HeldBy(j, Pod)'
        BY ClaimEffect, HoldersAre DEF Inv
      <3> QED
        BY DEF HeldBy, Tried, Present
    <2>3. \A j \in Jobs : Handled(j)' => Handled(j) \/ j \in S
      BY DEF Handled, DrainClaim
    <2> \A j \in Jobs, a \in Nat : Reporter(j, a)' => Reporter(j, a)
      BY DEF Reporter, DrainClaim
    <2> OnClaimed'
      BY DEF OnClaimed
    <2> QED
      BY <2>2, <2>3 DEF Informed, KnowledgeKept

  (* recordDispatch puts in flight a row the drain claimed. *)
  <1>RecordNews.
      ASSUME Inv, Informed, DrainRecord
      PROVE  NoNews
    <2> USE <1>RecordNews
    <2> PICK j \in Jobs, s \in Sessions : j = loop.job /\ s = loop.sess /\ j \in loop.todo
      BY DEF DrainRecord, Inv, LoopKnows, Informed, OnClaimed
    <2>   /\ loop'.pc \in {"push", "dup"} /\ loop'.job = j /\ loop'.todo = loop.todo
          /\ \A t \in Sessions : t # s => sess'[t].inflight = sess[t].inflight
          /\ sess'[s].inflight \subseteq sess[s].inflight \cup {j}
      BY RecordEffect
    <2> Draining /\ UNCHANGED <<recv, held>>
      BY DEF DrainRecord, Draining
    <2>4. \A k \in Jobs : Handled(k)' => Handled(k)
      BY DEF Handled
    <2> \A k \in Jobs, a \in Nat : Reporter(k, a)' => Reporter(k, a)
      BY DEF Reporter
    <2> OnClaimed'
      BY DEF OnClaimed
    <2> QED
      BY <2>4 DEF NoNews

  (* A handler that reads the attempts of a row it was handed. *)
  <1>ReadInforms.
      ASSUME Inv, Informed, KnowledgeKept, NEW k \in Jobs, NEW c \in Nat, Handled(k),
             Present(k) => c = jobs[k].attempts, UNCHANGED tableVars,
             \A j \in Jobs : Handled(j)' => Handled(j),
             \A j \in Jobs, a \in Nat : Reporter(j, a)' => Reporter(j, a) \/ (j = k /\ a = c),
             OnClaimed'
      PROVE  Informed'
    <2> USE <1>ReadInforms
    <2> Knows(k, c)
      BY DEF Informed, Knows, Inv, TableInv, TableTypeOK, Row
    <2> QED
      BY Zenon DEF Informed, KnowledgeKept

  <1>ExpiredInforms.
      ASSUME Calm, Inv, Informed, KnowledgeKept, NEW j \in Jobs, SweepExpiredLease(j)
      PROVE  Informed'
    <2> USE <1>ExpiredInforms
    <2>   /\ loop.sess \in Sessions /\ j \in sess[loop.sess].inflight
          /\ RevokeExpired(loop.sess, j) /\ UNCHANGED <<recv, held>>
      BY DEF SweepExpiredLease, Inv, LoopKnows
    <2>2. InflightShrinks
      BY RevokeEffect, Zenon DEF InflightShrinks
    <2>   CASE /\ Present(j)
               /\ loop' = [loop EXCEPT !.pc = "report", !.job = j, !.attempts = jobs[j].attempts]
               /\ UNCHANGED tableVars
      <3> loop'.pc = "report" /\ loop'.job = j /\ loop'.attempts = jobs[j].attempts
        BY DEF Inv, TypeOK, QueueLoop
      <3>2. jobs[j].attempts \in Nat
        BY DEF Inv, TableInv, TableTypeOK, Row
      <3>3. Handled(j) /\ \A k \in Jobs : Handled(k)' => Handled(k)
        BY <2>2, Zenon DEF Handled, InflightShrinks, Draining
      <3> \A k \in Jobs, a \in Nat : Reporter(k, a)' => Reporter(k, a) \/ (k = j /\ a = jobs[j].attempts)
        BY Zenon DEF Reporter
      <3> OnClaimed'
        BY DEF OnClaimed
      <3> QED
        BY <3>2, <3>3, <1>ReadInforms
    <2> CASE loop' = SweepAdvance("leases", j)
      BY <2>2, <1>SweepNews, <1>NoNewsInforms
    <2> QED
      BY DEF SweepExpiredLease

  <1>QueueInforms.
      ASSUME Calm, Inv, Informed, KnowledgeKept, QueueStep
      PROVE  Informed'
    <2> USE <1>QueueInforms
    <2>0. loop \in QueueLoop /\ loop.budget \in [Sessions -> Nat]
      BY DEF Inv, TypeOK, QueueLoop
    <2>1. ASSUME UNCHANGED sess PROVE InflightShrinks
      BY <2>1 DEF InflightShrinks
    <2> SUFFICES \/ NoNews
                 \/ DrainClaim
                 \/ \E j \in Jobs : SweepExpiredLease(j)
      BY <1>NoNewsInforms, <1>ClaimInforms, <1>ExpiredInforms
    <2>2. CASE DrainRecord
      BY <2>2, <1>RecordNews
    <2>3. CASE DrainOutboxFull
      <3>   /\ loop.job \in Jobs /\ loop' = Advance(loop.job, loop.budget)
            /\ Draining /\ UNCHANGED <<recv, held>>
        BY <2>3 DEF DrainOutboxFull, Inv, LoopKnows, Draining
      <3> InflightShrinks
        BY <2>3 DEF DrainOutboxFull, InflightShrinks, Inv, TypeOK, Session
      <3> QED
        BY <2>0, <1>AdvanceNews
    <2>4. CASE DrainPush
      <3>1. Draining /\ UNCHANGED <<recv, held>> /\ loop.job \in loop.todo
        BY <2>4 DEF DrainPush, Draining, Informed, OnClaimed
      <3>2. InflightShrinks
        BY <2>4, PushEffect, Zenon DEF InflightShrinks
      <3>3. CASE \E b \in [Sessions -> Nat] : loop' = Advance(loop.job, b)
        <4> PICK b \in [Sessions -> Nat] : loop' = Advance(loop.job, b)
          BY <3>3
        <4> loop.job \in Jobs
          BY <2>4, PushEffect, Zenon
        <4> QED
          BY <3>1, <3>2, <1>AdvanceNews
      <3>4. CASE loop'.pc = "full" /\ loop'.job = loop.job /\ loop'.todo = loop.todo
        BY <3>1, <3>2, <3>4, <1>LoopNews DEF OnClaimed
      <3> QED
        BY <2>4, <3>3, <3>4, PushEffect, Zenon
    <2>5. ASSUME NEW pc \in {"acks", "leases"}, SweepBegin(pc) PROVE NoNews
      <3> loop'.pc = "sweep" /\ UNCHANGED <<recv, held, sess>>
        BY <2>5 DEF SweepBegin, LoopIdle
      <3> QED
        BY <2>1, <1>LoopNews DEF OnClaimed, Draining
    <2>6. CASE SweepEnd
      <3> loop'.pc = "idle" /\ UNCHANGED <<recv, held, sess>>
        BY <2>6, Zenon DEF SweepEnd, LoopIdle
      <3> QED
        BY <2>1, <1>LoopNews DEF OnClaimed, Draining
    <2>7. CASE SweepReport
      <3> loop.job \in Jobs /\ loop' = SweepAdvance("leases", loop.job) /\ UNCHANGED <<recv, held, sess>>
        BY <2>7, Zenon DEF SweepReport, Inv, LoopKnows
      <3> QED
        BY <2>1, <1>SweepNews
    <2>8. CASE Reap
      BY <2>1, <2>8, <1>RestingNews DEF Reap, podVars
    <2>9. ASSUME NEW j \in Jobs, RouteNoSession(j) \/ \E s \in Sessions : RouteRejected(j, s)
          PROVE  NoNews
      <3> loop' = Advance(j, loop.budget) /\ Draining /\ UNCHANGED <<recv, held, sess>>
        BY <2>9, Zenon DEF RouteNoSession, RouteRejected, Draining
      <3> QED
        BY <2>0, <2>1, <1>AdvanceNews
    <2>10. ASSUME NEW j \in Jobs, NEW s \in Sessions, RouteBind(j, s) PROVE NoNews
      <3> Draining /\ j \in loop.todo /\ UNCHANGED <<recv, held, sess>>
        BY <2>10 DEF RouteBind, Draining
      <3>2. loop' = [loop EXCEPT !.pc = "record", !.job = j, !.sess = s]
        BY <2>10 DEF RouteBind, Calm
      <3> loop'.pc = "record" /\ loop'.job = j /\ loop'.todo = loop.todo
        BY <2>0, <3>2 DEF QueueLoop
      <3> OnClaimed'
        BY DEF OnClaimed
      <3> QED
        BY <2>1, <1>LoopNews
    <2>11. ASSUME NEW j \in Jobs, SweepGone(j) PROVE NoNews
      BY <2>1, <2>11, <1>SweepNews, Zenon DEF SweepGone
    <2>12. ASSUME NEW j \in Jobs, SweepAckTimeout(j) PROVE NoNews
      <3>   /\ loop.sess \in Sessions /\ RevokeExpired(loop.sess, j)
            /\ loop' = SweepAdvance("acks", j) /\ UNCHANGED <<recv, held>>
        BY <2>12, Zenon DEF SweepAckTimeout, Inv, LoopKnows
      <3> InflightShrinks
        BY RevokeEffect, Zenon DEF InflightShrinks
      <3> QED
        BY <1>SweepNews
    <2>13. ASSUME NEW s \in Sessions, NEW pc \in {"acks", "leases"}, SweepFind(s, pc) PROVE NoNews
      <3> loop'.pc \in {"sweep", "acks", "leases"}
        BY <2>0, <2>13 DEF SweepFind, QueueLoop
      <3> OnClaimed' /\ ~Draining' /\ loop'.pc # "report"
        BY DEF OnClaimed, Draining
      <3> QED
        BY <2>1, <2>13, <1>LoopNews DEF SweepFind
    <2> QED
      BY <2>2, <2>3, <2>4, <2>5, <2>6, <2>7, <2>8, <2>9, <2>10, <2>11, <2>12, <2>13 DEF QueueStep

  <1>FailInforms.
      ASSUME Calm, Inv, Informed, KnowledgeKept, NEW s \in Sessions, NEW j \in Jobs, HandleFail(s, j)
      PROVE  Informed'
    <2> USE <1>FailInforms
    <2>   /\ j \in sess[s].inflight /\ UNCHANGED <<loop, held, jobs, dead>>
          /\ sess' = [sess EXCEPT ![s] = Removed(sess[s], j)]
      BY DEF HandleFail, Removable
    <2>2. PICK c \in Nat : /\ Present(j) => c = jobs[j].attempts
                           /\ recv' = [recv EXCEPT ![s] = [RecvIdle EXCEPT !.pc = "fail", !.job = j,
                                                                           !.attempts = c]]
      <3> jobs[j].attempts \in Nat /\ MaxRetries[j] \in Nat
        BY JobsTableAssumption DEF JobsTableAssumption, Inv, TableInv, TableTypeOK, Row
      <3> QED
        BY Zenon DEF HandleFail, Calm
    <2>3. /\ recv'[s].job = j /\ recv'[s].attempts = c
          /\ \A t \in Sessions : t # s => recv'[t] = recv[t]
      BY <2>2 DEF Inv, TypeOK, RecvIdle
    <2>4. InflightShrinks
      BY RowRemoved, Zenon DEF InflightShrinks
    <2>5. Handled(j) /\ \A k \in Jobs : Handled(k)' => Handled(k)
      BY <2>4 DEF Handled, InflightShrinks, Draining
    <2> \A k \in Jobs, a \in Nat : Reporter(k, a)' => Reporter(k, a) \/ (k = j /\ a = c)
      BY <2>3, Zenon DEF Reporter
    <2> OnClaimed'
      BY Zenon DEF Informed, OnClaimed
    <2> QED
      BY <2>2, <2>5, <1>ReadInforms DEF tableVars

  (* The flags and the outbox of one session change. *)
  <1>FlagsAndOutbox.
      ASSUME Inv, NEW s \in Sessions, NEW f, NEW o, sess' = [sess EXCEPT ![s].flags = f, ![s].outbox = o]
      PROVE  InflightShrinks
    BY <1>FlagsAndOutbox DEF Inv, TypeOK, Session, InflightShrinks

  <1>SessionInforms.
      ASSUME Calm, Inv, Informed, KnowledgeKept, NEW s \in Sessions, SessionStep(s) \/ WorkerStep(s)
      PROVE  Informed'
    <2> USE <1>SessionInforms
    <2>0. sess \in [Sessions -> Session] /\ recv \in [Sessions -> RecvLoop]
      BY DEF Inv, TypeOK
    <2>1. UNCHANGED <<loop, held>>
      <3> CASE SessionStep(s)
        BY Zenon DEF SessionStep, SenderStops, FlushLeases, FailReport, AwaitDrainAndClose, EvictList,
                    ForceList, UnregisterRelease, EvictRelease, ForceRelease
      <3> CASE WorkerStep(s)
        BY Zenon DEF WorkerStep, Open, Send, HalfClose, StreamEnds, HandleHeartbeat, HandleCheckpoint,
                    HandleAck, HandleComplete, HandleFail, HandleFailNoRetry
      <3> QED
        OBVIOUS
    <2> DEFINE Silent == \A t \in Sessions : recv'[t].pc = "fail" => recv'[t] = recv[t]
    <2> SUFFICES (InflightShrinks /\ Silent) \/ \E j \in Jobs : HandleFail(s, j)
      BY <2>1, <1>RestingNews, <1>NoNewsInforms, <1>FailInforms
    <2>2. ASSUME UNCHANGED recv PROVE Silent
      BY <2>2
    <2>3. ASSUME UNCHANGED sess PROVE InflightShrinks
      BY <2>3 DEF InflightShrinks
    <2>4. ASSUME NEW r \in RecvLoop, r.pc # "fail", recv' = [recv EXCEPT ![s] = r] PROVE Silent
      BY <2>0, <2>4
    <2>5. RecvIdle \in RecvLoop /\ RecvIdle.pc # "fail"
      BY DEF RecvIdle, RecvLoop
    <2> HIDE DEF Silent
    <2>6. CASE SenderStops(s)
      BY <2>0, <2>2, <2>6 DEF SenderStops, Session, InflightShrinks
    <2>7. CASE FlushLeases(s)
      BY <2>0, <2>2, <2>7 DEF FlushLeases, Session, InflightShrinks
    <2>8. CASE FailReport(s)
      BY <2>3, <2>4, <2>5, <2>8, Zenon DEF FailReport
    <2>9. CASE AwaitDrainAndClose(s) \/ EvictList(s) \/ ForceList(s)
      <3> ASSUME AwaitDrainAndClose(s) PROVE InflightShrinks
        BY <2>3, <1>FlagsAndOutbox DEF AwaitDrainAndClose
      <3> ASSUME EvictList(s) PROVE InflightShrinks
        BY <2>3 DEF EvictList
      <3> ASSUME ForceList(s) PROVE InflightShrinks
        <4> CASE sess[s].inflight = {}
          <5> sess' = [sess EXCEPT ![s].flags = @ \cup {"closed"}]
            BY DEF ForceList
          <5> QED
            BY <2>0 DEF InflightShrinks, Session
        <4> CASE sess[s].inflight # {}
          BY <2>3 DEF ForceList
        <4> QED
          OBVIOUS
      <3> Silent
        BY <2>2, <2>9 DEF AwaitDrainAndClose, EvictList, ForceList
      <3> QED
        BY <2>9
    <2>10. ASSUME NEW j \in Jobs, UnregisterRelease(s, j) PROVE InflightShrinks /\ Silent
      <3>1. InflightShrinks
        BY <2>0, <2>10 DEF UnregisterRelease, Session, InflightShrinks
      <3>2. recv[s] \in RecvLoop /\ recv[s].pc = "release"
        BY <2>0, <2>10 DEF UnregisterRelease
      <3>   PICK r : /\ r = IF recv[s].rows = {j} THEN RecvIdle ELSE [recv[s] EXCEPT !.rows = @ \ {j}]
                     /\ recv' = [recv EXCEPT ![s] = r]
        BY <2>10, Zenon DEF UnregisterRelease
      <3> r \in RecvLoop /\ r.pc # "fail"
        BY <2>5, <3>2 DEF RecvLoop
      <3> QED
        BY <2>4, <3>1, Zenon
    <2>11. ASSUME NEW j \in Jobs, EvictRelease(s, j) \/ ForceRelease(s, j) PROVE InflightShrinks /\ Silent
      <3> ASSUME EvictRelease(s, j) PROVE InflightShrinks
        BY <2>3 DEF EvictRelease
      <3> ASSUME ForceRelease(s, j) PROVE InflightShrinks
        BY <2>0 DEF ForceRelease, InflightShrinks, Session
      <3> Silent
        BY <2>2, <2>11, Zenon DEF EvictRelease, ForceRelease
      <3> QED
        BY <2>11
    <2>12. CASE Open(s)
      BY <2>0, <2>2, <2>12 DEF Open, Session, InflightShrinks
    <2>13. CASE Send(s)
      BY <2>0, <2>2, <2>13 DEF Send, Session, InflightShrinks
    <2>14. CASE HalfClose(s)
      <3> PICK r : r = [recv[s] EXCEPT !.pc = "eof"] /\ recv' = [recv EXCEPT ![s] = r] /\ UNCHANGED sess
        BY <2>14, Zenon DEF HalfClose
      <3> r \in RecvLoop /\ r.pc # "fail"
        BY <2>0 DEF RecvLoop
      <3> QED
        BY <2>3, <2>4, Zenon
    <2>15. CASE StreamEnds(s)
      <3>1. InflightShrinks
        BY <2>0, <2>15 DEF StreamEnds, Session, InflightShrinks
      <3>   PICK r : /\ r = IF sess[s].inflight = {} THEN RecvIdle
                            ELSE [RecvIdle EXCEPT !.pc = "release", !.rows = sess[s].inflight]
                     /\ recv' = [recv EXCEPT ![s] = r]
        BY <2>15 DEF StreamEnds
      <3> r \in RecvLoop /\ r.pc # "fail"
        BY <2>0, <2>5, Zenon DEF RecvLoop, RecvIdle, Session
      <3> QED
        BY <2>4, <3>1, Zenon
    <2>16. ASSUME NEW J, \E b : sess' = [sess EXCEPT ![s].lapsed = @ \ J, ![s].bumps = b] PROVE InflightShrinks
      <3> PICK b : sess' = [sess EXCEPT ![s].lapsed = @ \ J, ![s].bumps = b]
        BY <2>16, Zenon
      <3> QED
        BY <2>0 DEF Session, InflightShrinks
    <2>17. ASSUME NEW J \in SUBSET Jobs, HandleHeartbeat(s, J) PROVE InflightShrinks /\ Silent
      BY <2>2, <2>16, <2>17, Zenon DEF HandleHeartbeat
    <2>18. ASSUME NEW j \in Jobs, HandleCheckpoint(s, j) PROVE InflightShrinks /\ Silent
      BY <2>2, <2>16, <2>18, Zenon DEF HandleCheckpoint
    <2>19. ASSUME NEW j \in Jobs, HandleAck(s, j) PROVE InflightShrinks /\ Silent
      BY <2>0, <2>2, <2>19 DEF HandleAck, Session, InflightShrinks
    <2>20. ASSUME NEW j \in Jobs, HandleComplete(s, j) \/ HandleFailNoRetry(s, j)
           PROVE  InflightShrinks /\ Silent
      <3> sess' = [sess EXCEPT ![s] = Removed(sess[s], j)] /\ UNCHANGED recv
        BY <2>20, Zenon DEF HandleComplete, HandleFailNoRetry
      <3> QED
        BY <2>2, RowRemoved, Zenon DEF InflightShrinks
    <2> QED
      BY <2>6, <2>7, <2>8, <2>9, <2>10, <2>11, <2>12, <2>13, <2>14, <2>15, <2>17, <2>18, <2>19, <2>20
      DEF SessionStep, WorkerStep

  <1>OtherInforms.
      ASSUME Inv, Informed, KnowledgeKept, OperatorStep \/ EnvironmentStep
      PROVE  Informed'
    <2> USE <1>OtherInforms
    <2>0. sess \in [Sessions -> Session] /\ held \in [Jobs -> Nat]
      BY DEF Inv, TypeOK
    <2>1. ASSUME InflightShrinks, UNCHANGED <<loop, recv, held>> PROVE Informed'
      BY <2>1, <1>RestingNews, <1>NoNewsInforms
    <2>2. CASE Shutdown
      <3> InflightShrinks
        BY <2>0, <2>2, Zenon DEF Shutdown, InflightShrinks, Session
      <3> QED
        BY <2>1, <2>2, Zenon DEF Shutdown
    <2>3. CASE ShutdownWaited
      BY <2>1, <2>3 DEF ShutdownWaited, InflightShrinks
    <2>4. CASE Crash
      <3>   /\ \A s \in Sessions : sess'[s].inflight = {} /\ recv'[s].pc = "idle"
            /\ loop'.pc = "idle" /\ UNCHANGED held
        BY <2>4 DEF Crash, NewSession, RecvIdle, LoopIdle
      <3> NoNews
        BY DEF NoNews, Handled, Reporter, OnClaimed, Draining
      <3> QED
        BY <1>NoNewsInforms
    <2>5. ASSUME NEW s \in Sessions, DrainSession(s) PROVE Informed'
      <3> InflightShrinks
        BY <2>0, <2>5 DEF DrainSession, InflightShrinks, Session
      <3> QED
        BY <2>1, <2>5 DEF DrainSession
    <2>6. ASSUME NEW s \in Sessions, EvictSession(s) PROVE Informed'
      <3> InflightShrinks
        BY <2>6, <1>FlagsAndOutbox, Zenon DEF EvictSession
      <3> QED
        BY <2>1, <2>6 DEF EvictSession
    <2>7. ASSUME NEW j \in Jobs, TableStep(j) \/ SchemaApplied(j) PROVE Informed'
      BY <2>1, <2>7, Zenon DEF TableStep, SchemaApplied, podVars, InflightShrinks
    <2>8. ASSUME NEW j \in Jobs, PeerEnds(j) PROVE Informed'
      <3> UNCHANGED <<sess, recv, loop>> /\ \A k \in Jobs : held'[k] \in {held[k], 0}
        BY <2>0, <2>8 DEF PeerEnds, podVars
      <3> QED
        BY <1>RestingNews, <1>NoNewsInforms DEF InflightShrinks
    <2>9. ASSUME NEW j \in Jobs, PeerClaims(j) PROVE Informed'
      <3>1. PICK c : c = jobs[j].attempts + 1
        OBVIOUS
      <3>   /\ ClaimRows({j}, Peer) /\ UNCHANGED <<sess, recv, loop>>
            /\ held' = [held EXCEPT ![j] = c]
        BY <2>9, <3>1 DEF PeerClaims, podVars
      <3>3. jobs[j] \in Row /\ jobs[j].attempts \in Nat /\ jobs'[j] = Claimed(jobs[j], Peer)
        BY DEF Inv, TableInv, TableTypeOK, Row, ClaimRows
      <3>4. jobs'[j].status = "running" /\ jobs'[j].attempts = c
        BY <3>1, <3>3 DEF Claimed, Row
      <3>5. c \in Nat /\ c > 0
        BY <3>1, <3>3
      <3>6. Knows(j, c)'
        BY <3>4, <3>5 DEF Knows, Tried, Present
      <3>7. \A k \in Jobs : Handled(k)' => Handled(k)
        BY DEF Handled, Draining
      <3> \A k \in Jobs, a \in Nat : Reporter(k, a)' => Reporter(k, a) \/ (k = j /\ a = c)
        BY <2>0, Zenon DEF Reporter
      <3> OnClaimed'
        BY Zenon DEF OnClaimed, Informed
      <3> QED
        BY <3>6, <3>7 DEF Informed, KnowledgeKept
    <2> ASSUME NEW s \in Sessions, NEW j \in Jobs, TimerLapses(s, j) PROVE Informed'
      <3> InflightShrinks
        BY <2>0 DEF TimerLapses, InflightShrinks, Session
      <3> QED
        BY <2>1 DEF TimerLapses
    <2> QED
      BY <2>2, <2>3, <2>4, <2>5, <2>6, <2>7, <2>8, <2>9 DEF OperatorStep, EnvironmentStep

  <1> SUFFICES ASSUME Calm, Inv, Informed, [Next]_vars PROVE Informed' /\ Buries
    OBVIOUS
  <1> CASE UNCHANGED vars
    BY <1>QuietBuries, Zenon DEF vars, Informed, Handled, Reporter, OnClaimed, Draining, Knows, Tried, Present
  <1> CASE Next
    <2> Buries
      BY <1>QueueBuries, <1>SessionBuries, <1>OtherBuries DEF Next
    <2> KnowledgeKept
      BY StepInv, StepTable, <1>BuriesKeeps
    <2> QED
      BY <1>QueueInforms, <1>SessionInforms, <1>OtherInforms DEF Next
  <1> QED
    OBVIOUS

(* Whatever else goes wrong - leases and timers that run out, evictions,   *)
(* crashes, other claimants, rows claimed again behind a stale handler's   *)
(* back - no reporter's ReportFailure and no sweep buries a row before it  *)
(* was claimed GREATEST(max_retries, 1) times.  The two exceptions are in  *)
(* the code: handleFail goes on with max_retries 0 when its lookup fails,  *)
(* and a resubmitted job starts a new life its old reporters know nothing  *)
(* of.                                                                     *)
THEOREM DispatcherBuries == ASSUME Calm PROVE Spec => DeadOnlyWhenExhausted
  <1>1. Init => Informed
    <2> SUFFICES ASSUME Init PROVE Informed
      OBVIOUS
    <2>   /\ \A s \in Sessions : sess[s].inflight = {} /\ recv[s].pc = "idle"
          /\ \A j \in Jobs : held[j] = 0
          /\ loop.pc = "idle"
      BY Zenon DEF Init, NewSession, RecvIdle, LoopIdle
    <2> QED
      BY DEF Informed, Handled, Reporter, OnClaimed, Draining
  <1> Inv /\ Informed /\ [Next]_vars => Informed'
    BY StepInforms
  <1>   Inv /\ Informed /\ [Next]_vars
        => [\A j \in Jobs : j \in dead' \ dead =>
              \/ Exhausted(j)
              \/ \E s \in Sessions : HandleFailNoRetry(s, j)]_vars
    BY StepInforms DEF Buries
  <1> QED
    BY <1>1, DispatcherInvariant, PTL DEF Spec, DeadOnlyWhenExhausted

=============================================================================
