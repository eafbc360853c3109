------------------------- MODULE Dispatcher_proofs -------------------------
(***************************************************************************)
(* Theorems about the dispatcher for any number of jobs and sessions, any  *)
(* limits and any set of faults: it uses the tables only through their     *)
(* statements, so that the theorems of JobsTable_proofs hold here, no open *)
(* session exceeds its MaxInFlight, and nobody buries a row before its     *)
(* claims are spent.  What the steps do to the fields of a session, and    *)
(* what cannot happen without some faults, Ownership_proofs uses too.      *)
(***************************************************************************)
EXTENDS Dispatcher, JobsTable_proofs, FiniteSetTheorems

(* What the queue loop remembers between two of its steps. *)
LoopKnows ==
    /\ loop.pc \in {"record", "push", "dup", "full"} =>
         loop.job \in Jobs /\ loop.sess \in Sessions /\ loop.budget[loop.sess] > 0
    /\ loop.pc \in {"acks", "leases", "report"} => loop.sess \in Sessions
    /\ loop.pc = "report" => loop.job \in Jobs /\ loop.attempts <= ClaimBudget(loop.job)

(* What handleFail remembers between the lookup and the report. *)
RecvKnows ==
    \A s \in Sessions : recv[s].pc = "fail" =>
        recv[s].job \in Jobs /\ recv[s].attempts <= ClaimBudget(recv[s].job)

(* The attempts another claimant will report are those of its claim. *)
PeerKnows == \A j \in Jobs : held[j] <= ClaimBudget(j)

(* The slots of perSessSlot that the drain has not filled yet.  From       *)
(* recordDispatch's insert to the decrement one of them is filled already. *)
Reserved(s) ==
    IF loop.pc \in {"push", "full"} /\ s = loop.sess THEN loop.budget[s] - 1 ELSE loop.budget[s]

NotClosed(s) == "closed" \notin sess[s].flags

(* OpenWithinLimit is not inductive: a drain adds rows later, against the  *)
(* slots it counted.  Those slots stay free for it, because rows enter an  *)
(* in-flight map nowhere else.                                             *)
BudgetCovers ==
    \A s \in Sessions : NotClosed(s) => Cardinality(sess[s].inflight) + Reserved(s) <= MaxInFlight

(* The slots are taken from the counter, which must agree with the map: it *)
(* lags by one inside a recordDispatch, and may have slipped when one ends *)
(* with a full outbox, before the session is closed.                       *)
Counted(s) ==
    \/ sess[s].count = Cardinality(sess[s].inflight) -
                          (IF loop.pc = "push" /\ s = loop.sess THEN 1 ELSE 0)
    \/ loop.pc = "full" /\ s = loop.sess

CountHolds == \A s \in Sessions : NotClosed(s) => Counted(s)

Inv ==
    /\ TableInv
    /\ TypeOK
    /\ LoopKnows
    /\ RecvKnows
    /\ PeerKnows
    /\ BudgetCovers
    /\ CountHolds

-----------------------------------------------------------------------------
(* The dispatcher uses the tables only through their statements *)

LEMMA HoldersAre ==
    /\ Pod \in Holders
    /\ Peer \in Holders
    /\ \A s \in Sessions : s \in Holders
  BY DispatcherAssumption DEF DispatcherAssumption

(* The steps of the queue loop. *)
LEMMA QueueTable == Inv /\ QueueStep => [TableNext]_tableVars
  <1> SUFFICES ASSUME Inv, QueueStep PROVE [TableNext]_tableVars
    OBVIOUS
  <1> USE StatementsAreSteps, HoldersAre DEF Inv, Sql
  <1>1. CASE DrainClaim
    <2> \E S \in SUBSET Jobs : ClaimRows(S, Pod)
      BY <1>1, DispatcherAssumption DEF DrainClaim, DispatcherAssumption
    <2> QED
      BY Zenon DEF TableNext
  <1>2. CASE DrainRecord
    BY <1>2, Zenon DEF DrainRecord, LoopKnows
  <1>3. CASE DrainOutboxFull
    BY <1>3, Zenon DEF DrainOutboxFull, LoopKnows
  <1>4. CASE DrainPush \/ SweepEnd
    BY <1>4 DEF DrainPush, SweepEnd, tableVars
  <1>5. CASE SweepReport
    <2> loop.job \in Jobs /\ loop.attempts \in 0..ClaimBudget(loop.job)
      BY <1>5, BudgetPositive DEF SweepReport, LoopKnows, TypeOK, QueueLoop
    <2> QED
      BY <1>5, Zenon DEF SweepReport
  <1>6. CASE Reap
    <2> \E S \in SUBSET Jobs : SweepExhaustedToDLQ(S)
      BY <1>6 DEF Reap
    <2> QED
      BY DEF TableNext
  <1>7. ASSUME NEW j \in Jobs, RouteNoSession(j) PROVE [TableNext]_tableVars
    BY <1>7, Zenon DEF RouteNoSession
  <1>8. ASSUME NEW j \in Jobs, SweepGone(j) PROVE [TableNext]_tableVars
    BY <1>8 DEF SweepGone, tableVars
  <1>9. ASSUME NEW j \in Jobs, SweepAckTimeout(j) PROVE [TableNext]_tableVars
    BY <1>9, Zenon DEF SweepAckTimeout, LoopKnows
  <1>10. ASSUME NEW j \in Jobs, SweepExpiredLease(j) PROVE [TableNext]_tableVars
    BY <1>10, Zenon DEF SweepExpiredLease, LoopKnows
  <1>11. ASSUME NEW j \in Jobs, NEW s \in Sessions, RouteRejected(j, s) \/ RouteBind(j, s)
         PROVE [TableNext]_tableVars
    BY <1>11, Zenon DEF RouteRejected, RouteBind
  <1>    ASSUME NEW pc \in {"acks", "leases"}, SweepBegin(pc) PROVE [TableNext]_tableVars
    BY DEF SweepBegin, tableVars
  <1>    ASSUME NEW s \in Sessions, NEW pc \in {"acks", "leases"}, SweepFind(s, pc)
         PROVE [TableNext]_tableVars
    BY DEF SweepFind, tableVars
  <1> QED
    BY <1>1, <1>2, <1>3, <1>4, <1>5, <1>6, <1>7, <1>8, <1>9, <1>10, <1>11
    DEF QueueStep

(* The goroutines of a session. *)
LEMMA SessionTable ==
    ASSUME Inv, NEW s \in Sessions, SessionStep(s)
    PROVE  [TableNext]_tableVars
  <1> USE StatementsAreSteps, HoldersAre DEF Inv, Sql
  <1> CASE SenderStops(s) \/ AwaitDrainAndClose(s) \/ EvictList(s) \/ ForceList(s)
    BY DEF SenderStops, AwaitDrainAndClose, EvictList, ForceList, tableVars
  <1> CASE FlushLeases(s)
    <2> sess[s].bumps \cap sess[s].inflight \in SUBSET Jobs
      BY DEF TypeOK, Session
    <2> QED
      BY Zenon DEF FlushLeases, TableNext
  <1> CASE FailReport(s)
    <2> recv[s].job \in Jobs /\ recv[s].attempts \in 0..ClaimBudget(recv[s].job)
      BY BudgetPositive DEF FailReport, RecvKnows, TypeOK, RecvLoop
    <2> QED
      BY Zenon DEF FailReport
  <1>   ASSUME NEW j \in Jobs, UnregisterRelease(s, j) \/ EvictRelease(s, j) \/ ForceRelease(s, j)
        PROVE  [TableNext]_tableVars
    BY Zenon DEF UnregisterRelease, EvictRelease, ForceRelease
  <1> QED
    BY DEF SessionStep

(* What a worker makes happen. *)
LEMMA WorkerTable ==
    ASSUME Inv, NEW s \in Sessions, WorkerStep(s)
    PROVE  [TableNext]_tableVars
  <1> USE StatementsAreSteps DEF Sql
  <1> CASE Open(s) \/ Send(s) \/ HalfClose(s) \/ StreamEnds(s)
    BY DEF Open, Send, HalfClose, StreamEnds, tableVars
  <1> ASSUME NEW J \in SUBSET Jobs, HandleHeartbeat(s, J) PROVE [TableNext]_tableVars
    BY DEF HandleHeartbeat, tableVars
  <1>   ASSUME NEW j \in Jobs, HandleCheckpoint(s, j) \/ HandleAck(s, j) \/ HandleFail(s, j)
        PROVE  [TableNext]_tableVars
    BY Zenon DEF HandleCheckpoint, HandleAck, HandleFail, tableVars
  <1>   ASSUME NEW j \in Jobs, HandleComplete(s, j) \/ HandleFailNoRetry(s, j)
        PROVE  [TableNext]_tableVars
    BY Zenon DEF HandleComplete, HandleFailNoRetry
  <1> QED
    BY DEF WorkerStep

(* Operators do nothing to the tables themselves. *)
LEMMA OperatorTable == OperatorStep => UNCHANGED tableVars
  BY Zenon DEF OperatorStep, Shutdown, ShutdownWaited, Crash, DrainSession, EvictSession, tableVars

(* Submitters, other claimants and time. *)
LEMMA EnvironmentTable == Inv /\ EnvironmentStep => [TableNext]_tableVars
  <1> SUFFICES ASSUME Inv, EnvironmentStep PROVE [TableNext]_tableVars
    OBVIOUS
  <1> USE StatementsAreSteps, HoldersAre DEF Inv
  <1> ASSUME NEW j \in Jobs, TableStep(j) PROVE [TableNext]_tableVars
    BY Zenon DEF TableStep
  <1> ASSUME NEW j \in Jobs, SchemaApplied(j) PROVE [TableNext]_tableVars
    BY DEF SchemaApplied, tableVars
  <1> ASSUME NEW j \in Jobs, PeerClaims(j) PROVE [TableNext]_tableVars
    BY Zenon DEF PeerClaims
  <1> ASSUME NEW j \in Jobs, PeerEnds(j) PROVE [TableNext]_tableVars
    <2> held[j] \in 0..ClaimBudget(j)
      BY BudgetPositive DEF PeerKnows, TypeOK
    <2> QED
      BY Zenon DEF PeerEnds
  <1>   ASSUME NEW s \in Sessions, NEW j \in Jobs, TimerLapses(s, j)
        PROVE  [TableNext]_tableVars
    BY DEF TimerLapses, tableVars
  <1> QED
    BY DEF EnvironmentStep

(* Every step of the dispatcher is a statement of the tables or leaves     *)
(* them alone.                                                             *)
LEMMA StepTable == Inv /\ [Next]_vars => [TableNext]_tableVars
  <1> SUFFICES ASSUME Inv, [Next]_vars PROVE [TableNext]_tableVars
    OBVIOUS
  <1> CASE UNCHANGED vars
    BY DEF vars, tableVars
  <1> QED
    BY QueueTable, SessionTable, WorkerTable, OperatorTable, EnvironmentTable
    DEF Next

-----------------------------------------------------------------------------
(* What the helpers return *)

(* removeInflight takes one row out. *)
LEMMA RemovedTyped ==
    ASSUME NEW x \in Session, NEW j \in Jobs
    PROVE  /\ Dropped(x, j) \in Session
           /\ Dropped(x, j).inflight = x.inflight \ {j}
           /\ Dropped(x, j).flags = x.flags
           /\ Removed(x, j) \in Session
           /\ Removed(x, j).inflight = x.inflight \ {j}
           /\ Removed(x, j).count = x.count - 1
           /\ Removed(x, j).flags = x.flags
           /\ Removed(x, j).outbox = x.outbox
  <1>1. x.count - 1 \in Int
    BY DEF Session
  <1>2. /\ Dropped(x, j) \in Session
        /\ Dropped(x, j).inflight = x.inflight \ {j} /\ Dropped(x, j).flags = x.flags
    BY Zenon DEF Dropped, Session
  <1>3. /\ Removed(x, j) \in Session
        /\ Removed(x, j).inflight = x.inflight \ {j} /\ Removed(x, j).count = x.count - 1
        /\ Removed(x, j).flags = x.flags /\ Removed(x, j).outbox = x.outbox
    BY <1>1, Zenon DEF Removed, Session
  <1> QED
    BY <1>2, <1>3, Zenon

LEMMA LoopIdleTyped == LoopIdle \in QueueLoop
  BY DEF LoopIdle, QueueLoop

LEMMA SweepAdvanceTyped ==
    ASSUME loop \in QueueLoop, NEW j \in Jobs, NEW pc \in {"acks", "leases"}
    PROVE  /\ SweepAdvance(pc, j) \in QueueLoop
           /\ SweepAdvance(pc, j).pc \in {"sweep", pc}
           /\ SweepAdvance(pc, j).pc = pc => SweepAdvance(pc, j).sess = loop.sess
           /\ \A s \in Sessions : SweepAdvance(pc, j).budget[s] <= loop.budget[s]
  <1> DEFINE l == [LoopIdle EXCEPT !.pc = "sweep", !.targets = loop.targets]
             m == [loop EXCEPT !.pc = pc, !.todo = @ \ {j}, !.job = NoJob, !.attempts = 0]
  <1>1. \A s \in Sessions : LoopIdle.budget[s] = 0
    BY DEF LoopIdle
  <1>2. /\ l \in QueueLoop
        /\ l.pc = "sweep"
        /\ l.budget = LoopIdle.budget
    BY LoopIdleTyped, Zenon DEF QueueLoop
  <1>3. /\ m \in QueueLoop
        /\ m.pc = pc
        /\ m.sess = loop.sess
        /\ m.budget = loop.budget
    BY Zenon DEF QueueLoop
  <1>4. SweepAdvance(pc, j) = l \/ SweepAdvance(pc, j) = m
    BY DEF SweepAdvance
  <1> \A s \in Sessions : loop.budget[s] \in Nat
    BY DEF QueueLoop
  <1> pc # "sweep"
    OBVIOUS
  <1> HIDE DEF l, m
  <1> QED
    BY <1>1, <1>2, <1>3, <1>4

-----------------------------------------------------------------------------
(* Every step keeps the invariant *)

(* The types of what the pod keeps besides its sessions and the loop. *)
PodTypes ==
    /\ recv \in [Sessions -> RecvLoop]
    /\ listing \in SUBSET Sessions
    /\ evicting \in [Sessions -> SUBSET Jobs]
    /\ awaiting \in SUBSET Sessions
    /\ stopping \in ShutdownState
    /\ hidden \in SUBSET Jobs
    /\ held \in [Jobs -> Nat]

(* y is session x with its in-flight map and counter untouched. *)
Keeps(x, y) ==
    /\ y \in Session
    /\ "closed" \in x.flags => "closed" \in y.flags
    /\ y.inflight = x.inflight /\ y.count = x.count

(* ... or with one row taken out and counted down. *)
Loses(x, y) ==
    /\ y \in Session
    /\ "closed" \in x.flags => "closed" \in y.flags
    /\ \E j \in x.inflight : y.inflight = x.inflight \ {j} /\ y.count = x.count - 1

(* A step that puts no row in flight. *)
NothingDispatched ==
    /\ sess' \in [Sessions -> Session]
    /\ \A s \in Sessions : Keeps(sess[s], sess'[s]) \/ Loses(sess[s], sess'[s])

LEMMA StepInv == Inv /\ [Next]_vars => Inv'
  (* A best-effort send leaves an outbox. *)
  <1>PushTyped.
      ASSUME NEW outbox \in Seq(Envelope), NEW kind \in {"dispatch", "revoke", "goodbye"},
             NEW j \in Jobs \cup {NoJob}
      PROVE  Push(outbox, kind, j) \in Seq(Envelope)
    <2> USE <1>PushTyped
    <2> DEFINE e == [kind |-> kind, job |-> j]
    <2> e \in Envelope
      BY DEF Envelope
    <2> Append(outbox, e) \in Seq(Envelope)
      <3> HIDE DEF e
      <3> QED
        OBVIOUS
    <2> QED
      BY DEF Push

  (* The loops over an in-flight map send a sequence of revokes. *)
  <1>RevokesTyped.
      ASSUME NEW S \in SUBSET Jobs, NEW q \in Orders(S)
      PROVE  Revokes(q) \in Seq(Envelope)
    <2> USE <1>RevokesTyped
    <2>1. Cardinality(S) \in Nat
      BY FS_Subset, FS_CardinalityType, JobsTableAssumption DEF JobsTableAssumption
    <2> q \in [1..Cardinality(S) -> S]
      BY DEF Orders
    <2> Revokes(q) \in [1..Cardinality(S) -> Envelope]
      BY DEF Revokes, Envelope
    <2> QED
      BY <2>1

  <1>PushAllTyped.
      ASSUME NEW outbox \in Seq(Envelope), NEW envelopes \in Seq(Envelope)
      PROVE  PushAll(outbox, envelopes) \in Seq(Envelope)
    <2> USE <1>PushAllTyped
    <2> DEFINE all == outbox \o envelopes
               n == IF Len(all) < OutboxCap THEN Len(all) ELSE OutboxCap
    <2> all \in Seq(Envelope)
      OBVIOUS
    <2>2. OutboxCap \in Nat
      BY DispatcherAssumption DEF DispatcherAssumption, OutboxCap
    <2> n \in 0..Len(all)
      BY <2>2
    <2> SubSeq(all, 1, n) \in Seq(Envelope)
      <3> HIDE DEF all, n
      <3> QED
        OBVIOUS
    <2> QED
      BY DEF PushAll

  (* The flags of a session change, and its outbox. *)
  <1>FlaggedTyped.
      ASSUME NEW x \in Session, NEW f \in SUBSET {"drained", "closed", "sending"},
             NEW o \in Seq(Envelope), "closed" \in x.flags => "closed" \in f
      PROVE  /\ Keeps(x, [x EXCEPT !.flags = f])
             /\ Keeps(x, [x EXCEPT !.flags = f, !.outbox = o])
    BY <1>FlaggedTyped, Zenon DEF Session, Keeps

  <1>SessionFields.
      ASSUME NEW x \in Session
      PROVE  /\ x.flags \in SUBSET {"drained", "closed", "sending"}
             /\ x.inflight \in SUBSET Jobs
             /\ x.count \in Int
             /\ x.outbox \in Seq(Envelope)
    BY <1>SessionFields DEF Session

  (* The queue loop goes on with its next row or becomes idle. *)
  <1>AdvanceTyped.
      ASSUME loop \in QueueLoop, NEW j \in Jobs, NEW b \in [Sessions -> Nat]
      PROVE  /\ Advance(j, b) \in QueueLoop
             /\ Advance(j, b).pc \in {"idle", "route"}
             /\ \A s \in Sessions : Advance(j, b).budget[s] <= b[s]
    <2> USE <1>AdvanceTyped
    <2> DEFINE l == [LoopIdle EXCEPT !.pc = "route", !.todo = loop.todo \ {j}, !.budget = b]
    <2>1. /\ LoopIdle.pc = "idle"
          /\ \A s \in Sessions : LoopIdle.budget[s] = 0
      BY DEF LoopIdle
    <2>2. /\ l \in QueueLoop
          /\ l.pc = "route"
          /\ l.budget = b
      BY LoopIdleTyped, Zenon DEF QueueLoop
    <2> Advance(j, b) = LoopIdle \/ Advance(j, b) = l
      BY DEF Advance
    <2> \A s \in Sessions : b[s] \in Nat
      OBVIOUS
    <2> HIDE DEF l
    <2> QED
      BY <2>1, <2>2, LoopIdleTyped

  (* Between two drains the slots of a session that is not closed are within *)
  (* the limit.                                                              *)
  <1>SlotsTyped.
      ASSUME TypeOK, CountHolds, loop.pc = "idle"
      PROVE  /\ Slots \in [Sessions -> Nat]
             /\ \A s \in Sessions : NotClosed(s) =>
                  Slots[s] = 0 \/ Cardinality(sess[s].inflight) + Slots[s] <= MaxInFlight
    <2> USE <1>SlotsTyped
    <2>1. \A s \in Sessions : sess[s].count \in Int
      BY DEF TypeOK, Session
    <2>2. \A s \in Sessions : Cardinality(sess[s].inflight) \in Nat
      BY FS_Subset, FS_CardinalityType, JobsTableAssumption
      DEF JobsTableAssumption, TypeOK, Session
    <2>3. MaxInFlight \in Nat
      BY DispatcherAssumption DEF DispatcherAssumption
    <2>4. \A s \in Sessions : NotClosed(s) => sess[s].count = Cardinality(sess[s].inflight)
      BY <2>1, <2>2 DEF CountHolds, Counted
    <2>5. \A s \in Sessions : /\ AvailableSlots(s) \in Nat
                              /\ AvailableSlots(s) = 0 \/ sess[s].count + AvailableSlots(s) <= MaxInFlight
      BY <2>1, <2>3 DEF AvailableSlots
    <2>6. \A s \in Sessions : Slots[s] = 0 \/ Slots[s] = AvailableSlots(s)
      BY DEF Slots
    <2>7. Slots \in [Sessions -> Nat]
      BY <2>5 DEF Slots
    <2> HIDE DEF Slots
    <2> QED
      BY <2>4, <2>5, <2>6, <2>7

  (* Rows leave in-flight maps and slots are given up: the limit stays safe. *)
  <1>CoversShrink.
      ASSUME TypeOK, BudgetCovers, LoopKnows, loop' \in QueueLoop, NothingDispatched,
             \A s \in Sessions : NotClosed(s)' => Reserved(s)' <= Reserved(s)
      PROVE  BudgetCovers'
    <2> USE <1>CoversShrink
    <2> SUFFICES ASSUME NEW s \in Sessions, NotClosed(s)'
                 PROVE  Cardinality(sess'[s].inflight) + Reserved(s)' <= MaxInFlight
      BY DEF BudgetCovers
    <2>1. NotClosed(s) /\ sess'[s].inflight \subseteq sess[s].inflight
      BY DEF NothingDispatched, Keeps, Loses, NotClosed
    <2>2. /\ Cardinality(sess[s].inflight) \in Nat
          /\ Cardinality(sess'[s].inflight) \in Nat
          /\ Cardinality(sess'[s].inflight) <= Cardinality(sess[s].inflight)
      <3> IsFiniteSet(sess[s].inflight)
        BY FS_Subset, JobsTableAssumption DEF JobsTableAssumption, TypeOK, Session
      <3> QED
        BY <2>1, FS_Subset, FS_CardinalityType
    <2>3. MaxInFlight \in Nat
      BY DispatcherAssumption DEF DispatcherAssumption
    <2>4. Reserved(s) \in Int /\ Reserved(s)' \in Int
      BY DEF Reserved, TypeOK, QueueLoop
    <2>5. Cardinality(sess[s].inflight) + Reserved(s) <= MaxInFlight
      BY <2>1 DEF BudgetCovers
    <2>6. Reserved(s)' <= Reserved(s)
      OBVIOUS
    <2> QED
      BY <2>2, <2>3, <2>4, <2>5, <2>6

  (* ... and the counter of an open session keeps agreeing with its map, as  *)
  (* long as the loop stays on the same side of recordDispatch's count.      *)
  <1>CountStays.
      ASSUME TypeOK, CountHolds, NothingDispatched,
             \A s \in Sessions : NotClosed(s)' => (loop'.pc = "push" /\ s = loop'.sess <=> loop.pc = "push" /\ s = loop.sess),
             \A s \in Sessions : NotClosed(s)' /\ loop.pc = "full" /\ s = loop.sess => loop'.pc = "full" /\ s = loop'.sess
      PROVE  CountHolds'
    <2> USE <1>CountStays
    <2> SUFFICES ASSUME NEW s \in Sessions, NotClosed(s)' PROVE Counted(s)'
      BY DEF CountHolds
    <2>1. NotClosed(s)
      BY DEF NothingDispatched, Keeps, Loses, NotClosed
    <2>2. Counted(s)
      BY <2>1 DEF CountHolds
    <2> CASE loop.pc = "full" /\ s = loop.sess
      BY DEF Counted
    <2> CASE ~(loop.pc = "full" /\ s = loop.sess)
      <3> DEFINE d == IF loop.pc = "push" /\ s = loop.sess THEN 1 ELSE 0
      <3>1. sess[s].count = Cardinality(sess[s].inflight) - d
        BY <2>2 DEF Counted
      <3>2. d = (IF loop'.pc = "push" /\ s = loop'.sess THEN 1 ELSE 0) /\ d \in Int
        OBVIOUS
      <3>3. sess[s].count \in Int
        BY DEF TypeOK, Session
      <3>4. IsFiniteSet(sess[s].inflight) /\ Cardinality(sess[s].inflight) \in Nat
        BY FS_Subset, FS_CardinalityType, JobsTableAssumption
        DEF JobsTableAssumption, TypeOK, Session
      <3> HIDE DEF d
      <3>5. sess'[s].count = Cardinality(sess'[s].inflight) - d
        <4> CASE Keeps(sess[s], sess'[s])
          BY <3>1 DEF Keeps
        <4> CASE Loses(sess[s], sess'[s])
          <5> PICK j \in sess[s].inflight : /\ sess'[s].inflight = sess[s].inflight \ {j}
                                            /\ sess'[s].count = sess[s].count - 1
            BY DEF Loses
          <5> Cardinality(sess[s].inflight \ {j}) = Cardinality(sess[s].inflight) - 1
            BY <3>4, FS_RemoveElement, Zenon
          <5> QED
            BY <3>1, <3>2, <3>3, <3>4
        <4> QED
          BY DEF NothingDispatched
      <3> QED
        BY <3>2, <3>5 DEF Counted
    <2> QED
      OBVIOUS

  (* What such a step owes: the loop's slots and memory, and the memory of   *)
  (* the receive loops and of the peer.                                      *)
  <1>NothingDispatchedInv.
      ASSUME Inv, TableInv', NothingDispatched, PodTypes', loop' \in QueueLoop,
             LoopKnows', RecvKnows', PeerKnows', CountHolds',
             \A s \in Sessions : NotClosed(s)' => Reserved(s)' <= Reserved(s)
      PROVE  Inv'
    <2> USE <1>NothingDispatchedInv
    <2> TypeOK'
      BY DEF TypeOK, TableInv, TableTypeOK, NothingDispatched, PodTypes
    <2> BudgetCovers'
      BY <1>CoversShrink DEF Inv, NothingDispatched
    <2> QED
      BY DEF Inv

  (* ... and when the queue loop does not move. *)
  <1>LoopRests.
      ASSUME Inv, TableInv', NothingDispatched, PodTypes', UNCHANGED loop,
             RecvKnows', PeerKnows'
      PROVE  Inv'
    <2> USE <1>LoopRests
    <2>1. loop' \in QueueLoop /\ LoopKnows'
      BY DEF Inv, TypeOK, LoopKnows
    <2> \A s \in Sessions : Reserved(s)' = Reserved(s) /\ Reserved(s) \in Int
      BY DEF Reserved, Inv, TypeOK, QueueLoop
    <2>2. \A s \in Sessions : Reserved(s)' <= Reserved(s)
      OBVIOUS
    <2> CountHolds'
      BY <1>CountStays DEF Inv
    <2> QED
      BY <2>1, <2>2, <1>NothingDispatchedInv

  (* ... and when only the queue loop moves, outside recordDispatch or after *)
  (* the close that follows a full outbox.                                   *)
  <1>LoopMoves.
      ASSUME Inv, TableInv', NothingDispatched, PodTypes', UNCHANGED <<recv, held>>,
             loop.pc # "push", loop.pc = "full" => "closed" \in sess'[loop.sess].flags,
             loop' \in QueueLoop, loop'.pc \notin {"push", "full"}, LoopKnows',
             \A s \in Sessions : loop'.budget[s] <= loop.budget[s]
      PROVE  Inv'
    <2> USE <1>LoopMoves
    <2> RecvKnows' /\ PeerKnows'
      BY DEF Inv, RecvKnows, PeerKnows
    <2>1. \A s \in Sessions : NotClosed(s)' => Reserved(s)' <= Reserved(s)
      BY DEF Reserved, NotClosed
    <2> CountHolds'
      BY <1>CountStays DEF Inv, NotClosed
    <2> QED
      BY <2>1, <1>NothingDispatchedInv

  (* One session changes, and gains no row. *)
  <1>OneSession.
      ASSUME Inv, NEW s \in Sessions, NEW x \in Session,
             Keeps(sess[s], x) \/ Loses(sess[s], x),
             sess' = [sess EXCEPT ![s] = x]
      PROVE  NothingDispatched
    <2> USE <1>OneSession
    <2> sess \in [Sessions -> Session]
      BY DEF Inv, TypeOK
    <2> \A t \in Sessions : t # s => Keeps(sess[t], sess'[t])
      BY DEF Keeps
    <2> QED
      BY DEF NothingDispatched

  <1>NoSessionChanges.
                          Inv /\ UNCHANGED sess => NothingDispatched
    BY DEF Inv, TypeOK, NothingDispatched, Keeps

  (* The row j leaves session s. *)
  <1>RowLeaves.
      ASSUME Inv, NEW s \in Sessions, NEW j \in sess[s].inflight, j \in Jobs,
             sess' = [sess EXCEPT ![s] = Removed(@, j)]
      PROVE  NothingDispatched
    <2> USE <1>RowLeaves
    <2>1. sess[s] \in Session
      BY DEF Inv, TypeOK
    <2> sess' = [sess EXCEPT ![s] = Removed(sess[s], j)]
      OBVIOUS
    <2> Removed(sess[s], j) \in Session /\ Loses(sess[s], Removed(sess[s], j))
      BY <2>1, RemovedTyped DEF Loses
    <2> QED
      BY <1>OneSession, Zenon

  (* The row j leaves session s with a Revoke. *)
  <1>RowRevoked.
      ASSUME Inv, NEW s \in Sessions, NEW j \in sess[s].inflight, j \in Jobs,
             RevokeExpired(s, j)
      PROVE  NothingDispatched
    <2> USE <1>RowRevoked
    <2> DEFINE r == Removed(sess[s], j)
               x == [r EXCEPT !.outbox = Push(@, "revoke", j)]
    <2>1. sess[s] \in Session
      BY DEF Inv, TypeOK
    <2>2. /\ r \in Session /\ r.inflight = sess[s].inflight \ {j}
          /\ r.count = sess[s].count - 1 /\ r.flags = sess[s].flags
      BY <2>1, RemovedTyped
    <2>3. Push(r.outbox, "revoke", j) \in Seq(Envelope)
      BY <2>2, <1>SessionFields, <1>PushTyped
    <2>4. sess' = [sess EXCEPT ![s] = x]
      BY DEF RevokeExpired
    <2> x \in Session /\ Loses(sess[s], x)
      <3> HIDE DEF r
      <3>1. /\ x \in Session /\ x.inflight = r.inflight
            /\ x.count = r.count /\ x.flags = r.flags
        BY <2>2, <2>3, Zenon DEF Session
      <3> HIDE DEF x
      <3> QED
        BY <2>2, <3>1 DEF Loses
    <2> HIDE DEF x
    <2> QED
      BY <2>4, <1>OneSession, Zenon

  (* A drain that goes on with its next row. *)
  <1>DrainAdvances.
      ASSUME Inv, TableInv', NEW j \in Jobs, loop.pc \in {"route", "full"},
             loop.pc = "full" => "closed" \in sess'[loop.sess].flags,
             loop' = Advance(j, loop.budget), NothingDispatched,
             UNCHANGED <<recv, listing, evicting, awaiting, stopping, hidden, held>>
      PROVE  Inv'
    <2> USE <1>DrainAdvances
    <2>1. loop \in QueueLoop /\ loop.budget \in [Sessions -> Nat]
      BY DEF Inv, TypeOK, QueueLoop
    <2>   /\ loop' \in QueueLoop
          /\ loop'.pc \in {"idle", "route"}
          /\ \A s \in Sessions : loop'.budget[s] <= loop.budget[s]
      BY <2>1, <1>AdvanceTyped
    <2> LoopKnows'
      BY DEF LoopKnows
    <2> PodTypes'
      BY DEF Inv, TypeOK, PodTypes
    <2> QED
      BY <1>LoopMoves

  (* A sweep that goes on with its next row. *)
  <1>SweepAdvances.
      ASSUME Inv, TableInv', NEW j \in Jobs, NEW pc \in {"acks", "leases"},
             loop.pc \in {"acks", "leases", "report"},
             loop' = SweepAdvance(pc, j), NothingDispatched,
             UNCHANGED <<recv, listing, evicting, awaiting, stopping, hidden, held>>
      PROVE  Inv'
    <2> USE <1>SweepAdvances
    <2> loop \in QueueLoop /\ loop.sess \in Sessions
      BY DEF Inv, TypeOK, LoopKnows
    <2>   /\ loop' \in QueueLoop
          /\ loop'.pc \in {"sweep", pc}
          /\ loop'.pc = pc => loop'.sess = loop.sess
          /\ \A s \in Sessions : loop'.budget[s] <= loop.budget[s]
      BY SweepAdvanceTyped
    <2> LoopKnows'
      BY DEF LoopKnows
    <2> PodTypes'
      BY DEF Inv, TypeOK, PodTypes
    <2> QED
      BY <1>LoopMoves

  (* The loop goes to l, and nothing else of the pod changes. *)
  <1>OnlyLoopMoves.
      ASSUME Inv, TableInv', loop.pc \notin {"push", "full"},
             loop' \in QueueLoop, loop'.pc \notin {"push", "full"}, LoopKnows',
             \A s \in Sessions : loop'.budget[s] <= loop.budget[s],
             UNCHANGED <<sess, recv, listing, evicting, awaiting, stopping, hidden, held>>
      PROVE  Inv'
    <2> USE <1>OnlyLoopMoves
    <2> PodTypes'
      BY DEF Inv, TypeOK, PodTypes
    <2> QED
      BY <1>LoopMoves, <1>NoSessionChanges

  (* The claim: the slots are counted while no drain holds any. *)
  <1>DrainClaimInv.
                       Inv /\ TableInv' /\ DrainClaim => Inv'
    <2> SUFFICES ASSUME Inv, TableInv', DrainClaim, loop' # loop PROVE Inv'
      BY <1>NoSessionChanges, <1>LoopRests, Zenon
      DEF DrainClaim, Inv, TypeOK, PodTypes, RecvKnows, PeerKnows
    <2> DEFINE handled == UNION {Handles[s] : s \in {x \in Sessions : Slots[x] > 0}}
               l(S) == [LoopIdle EXCEPT !.pc = "route", !.todo = S, !.budget = Slots]
    <2>0. handled \subseteq Jobs
      BY DispatcherAssumption DEF DispatcherAssumption
    <2>1. PICK S \in SUBSET Jobs : loop' = l(S)
      <3> \E S \in SUBSET handled : loop' = l(S)
        BY Zenon DEF DrainClaim
      <3> HIDE DEF handled, l
      <3> QED
        BY <2>0
    <2>2. /\ Slots \in [Sessions -> Nat]
          /\ \A s \in Sessions : NotClosed(s) =>
               Slots[s] = 0 \/ Cardinality(sess[s].inflight) + Slots[s] <= MaxInFlight
      <3> loop.pc = "idle"
        BY Zenon DEF DrainClaim
      <3> QED
        BY <1>SlotsTyped DEF Inv
    <2>3. /\ loop' \in QueueLoop
          /\ loop'.pc = "route"
          /\ loop'.budget = Slots
      <3> HIDE DEF Slots
      <3> QED
        BY <2>1, <2>2, LoopIdleTyped, Zenon DEF QueueLoop
    <2>4. LoopKnows' /\ RecvKnows' /\ PeerKnows'
      BY <2>3 DEF DrainClaim, LoopKnows, RecvKnows, PeerKnows, Inv
    <2>5. TypeOK'
      BY <2>3 DEF DrainClaim, TypeOK, Inv, TableInv, TableTypeOK
    <2>6. \A s \in Sessions : Cardinality(sess[s].inflight) \in Nat
      BY FS_Subset, FS_CardinalityType, JobsTableAssumption
      DEF JobsTableAssumption, Inv, TypeOK, Session
    <2>7. loop.pc = "idle" /\ sess' = sess
      BY Zenon DEF DrainClaim
    <2>8. \A s \in Sessions : NotClosed(s) => Cardinality(sess[s].inflight) <= MaxInFlight
      <3> SUFFICES ASSUME NEW s \in Sessions, NotClosed(s)
                   PROVE  Cardinality(sess[s].inflight) <= MaxInFlight
        OBVIOUS
      <3> Reserved(s) \in Nat
        BY <2>7 DEF Reserved, Inv, TypeOK, QueueLoop
      <3> QED
        BY <2>6, DispatcherAssumption DEF DispatcherAssumption, Inv, BudgetCovers
    <2>9. BudgetCovers'
      <3> SUFFICES ASSUME NEW s \in Sessions, NotClosed(s)
                   PROVE  Cardinality(sess'[s].inflight) + Reserved(s)' <= MaxInFlight
        BY <2>7 DEF BudgetCovers, NotClosed
      <3> Reserved(s)' = Slots[s]
        BY <2>3 DEF Reserved
      <3> HIDE DEF Slots
      <3> QED
        BY <2>2, <2>6, <2>7, <2>8
    <2>10. CountHolds'
      BY <2>3, <2>7 DEF Inv, CountHolds, Counted, NotClosed
    <2> QED
      BY <2>4, <2>5, <2>9, <2>10 DEF Inv

  (* recordDispatch fills one of the slots the drain holds.  The counter     *)
  (* follows later.                                                          *)
  <1>DrainRecordInv.
                        Inv /\ TableInv' /\ DrainRecord => Inv'
    <2> SUFFICES ASSUME Inv, TableInv', DrainRecord PROVE Inv'
      OBVIOUS
    <2> DEFINE j == loop.job
               s == loop.sess
               x == [sess[s] EXCEPT !.inflight = @ \cup {j}, !.acked = @ \ {j}, !.lapsed = @ \ {j}]
               dup == j \in sess[s].inflight
    <2>1. /\ j \in Jobs /\ s \in Sessions /\ loop.budget[s] > 0
          /\ loop.pc = "record"
          /\ loop \in QueueLoop
      BY DEF DrainRecord, LoopKnows, Inv, TypeOK
    <2>2. /\ sess' = [sess EXCEPT ![s] = x]
          /\ loop' = [loop EXCEPT !.pc = IF dup THEN "dup" ELSE "push"]
      BY <2>1, Zenon DEF DrainRecord, Inv, TypeOK, Session
    <2>3. /\ loop' \in QueueLoop
          /\ loop'.pc = (IF dup THEN "dup" ELSE "push")
          /\ loop'.job = j /\ loop'.sess = s /\ loop'.budget = loop.budget
      BY <2>1, <2>2 DEF QueueLoop
    <2>4. sess \in [Sessions -> Session]
      BY DEF Inv, TypeOK
    <2>5. /\ x \in Session
          /\ x.inflight = sess[s].inflight \cup {j}
          /\ x.flags = sess[s].flags /\ x.count = sess[s].count
      <3>1. sess[s] \in Session
        BY <2>1, <2>4
      <3> QED
        BY <2>1, <3>1, Zenon DEF Session
    <2> HIDE DEF x
    <2>6. TypeOK'
      BY <2>1, <2>2, <2>3, <2>5 DEF DrainRecord, TypeOK, Inv, TableInv, TableTypeOK
    <2>7. LoopKnows' /\ RecvKnows' /\ PeerKnows'
      BY <2>1, <2>3 DEF DrainRecord, LoopKnows, RecvKnows, PeerKnows, Inv
    <2>8. ASSUME NEW t \in Sessions, NotClosed(t)'
          PROVE  /\ Counted(t)'
                 /\ Cardinality(sess'[t].inflight) + Reserved(t)' <= MaxInFlight
      <3>0. sess'[t] = IF t = s THEN x ELSE sess[t]
        BY <2>2, <2>4
      <3>1. NotClosed(t) /\ sess'[t].count = sess[t].count
        BY <2>5, <2>8, <3>0 DEF NotClosed
      <3>2. IsFiniteSet(sess[t].inflight) /\ Cardinality(sess[t].inflight) \in Nat
        BY <2>4, FS_Subset, FS_CardinalityType, JobsTableAssumption
        DEF JobsTableAssumption, Session
      <3>3. loop.budget[t] \in Nat /\ Cardinality(sess[t].inflight) + loop.budget[t] <= MaxInFlight
        BY <2>1, <3>1 DEF Reserved, Inv, BudgetCovers, QueueLoop
      <3>4. MaxInFlight \in Nat
        BY DispatcherAssumption DEF DispatcherAssumption
      <3>5. sess[t].count = Cardinality(sess[t].inflight)
        <4> sess[t].count \in Int
          BY <2>4 DEF Session
        <4> QED
          BY <2>1, <3>1, <3>2 DEF Inv, CountHolds, Counted
      <3> CASE t = s /\ ~dup
        <4>1. Reserved(t)' = loop.budget[t] - 1
          BY <2>3 DEF Reserved
        <4>2. sess'[t].inflight = sess[t].inflight \cup {j}
          BY <2>5, <3>0
        <4>3. Cardinality(sess'[t].inflight) = Cardinality(sess[t].inflight) + 1
          BY <3>2, <4>2, FS_AddElement, Zenon
        <4>4. Counted(t)'
          BY <2>3, <3>1, <3>2, <3>5, <4>3 DEF Counted
        <4> QED
          BY <3>2, <3>3, <3>4, <4>1, <4>3, <4>4
      <3> CASE ~(t = s /\ ~dup)
        <4>1. Reserved(t)' = loop.budget[t]
          BY <2>3 DEF Reserved
        <4>2. sess'[t].inflight = sess[t].inflight
          BY <2>5, <3>0
        <4>3. Counted(t)'
          BY <2>3, <3>1, <3>2, <3>5, <4>2 DEF Counted
        <4> QED
          BY <3>3, <4>1, <4>2, <4>3
      <3> QED
        OBVIOUS
    <2> BudgetCovers' /\ CountHolds'
      BY <2>8 DEF BudgetCovers, CountHolds
    <2> QED
      BY <2>6, <2>7 DEF Inv

  (* The entry is counted and its slot taken off perSessSlot; or the outbox  *)
  (* is full, and what the counter is off by waits for the close.            *)
  <1>DrainPushInv.
                      Inv /\ TableInv' /\ DrainPush => Inv'
    <2> SUFFICES ASSUME Inv, TableInv', DrainPush PROVE Inv'
      OBVIOUS
    <2> DEFINE j == loop.job
               s == loop.sess
               room == Len(sess[s].outbox) < OutboxCap
               added == IF loop.pc = "push" THEN 1 ELSE 0
               b == [loop.budget EXCEPT ![s] = @ - 1]
               c == sess[s].count + added
               o == Push(sess[s].outbox, "dispatch", j)
    <2>1. /\ j \in Jobs /\ s \in Sessions /\ loop.budget[s] > 0
          /\ loop.pc \in {"push", "dup"}
          /\ loop \in QueueLoop /\ loop.budget \in [Sessions -> Nat]
      BY DEF DrainPush, LoopKnows, Inv, TypeOK, QueueLoop
    <2>2. sess \in [Sessions -> Session]
      BY DEF Inv, TypeOK
    <2>3. RecvKnows' /\ PeerKnows' /\ PodTypes'
      BY DEF DrainPush, RecvKnows, PeerKnows, PodTypes, Inv, TypeOK
    <2>4. ASSUME NEW t \in Sessions
          PROVE  /\ IsFiniteSet(sess[t].inflight) /\ Cardinality(sess[t].inflight) \in Nat
                 /\ loop.budget[t] \in Nat /\ Reserved(t) \in Int /\ sess[t].count \in Int
                 /\ NotClosed(t) => Cardinality(sess[t].inflight) + Reserved(t) <= MaxInFlight
                 /\ NotClosed(t) => sess[t].count = Cardinality(sess[t].inflight) -
                                      (IF loop.pc = "push" /\ t = s THEN 1 ELSE 0)
      <3>1. IsFiniteSet(sess[t].inflight) /\ Cardinality(sess[t].inflight) \in Nat
        BY <2>2, FS_Subset, FS_CardinalityType, JobsTableAssumption
        DEF JobsTableAssumption, Session
      <3>2. loop.budget[t] \in Nat /\ Reserved(t) \in Int /\ sess[t].count \in Int
        BY <2>1, <2>2 DEF Reserved, Session
      <3>3. NotClosed(t) => Cardinality(sess[t].inflight) + Reserved(t) <= MaxInFlight
        BY DEF Inv, BudgetCovers
      <3>4. NotClosed(t) => Counted(t)
        BY DEF Inv, CountHolds
      <3>5. NotClosed(t) => sess[t].count = Cardinality(sess[t].inflight) -
                                      (IF loop.pc = "push" /\ t = s THEN 1 ELSE 0)
        BY <2>1, <3>4 DEF Counted
      <3> QED
        BY <3>1, <3>2, <3>3, <3>5
    <2>5. CASE room
      <3> DEFINE x == [sess[s] EXCEPT !.count = c, !.outbox = o]
      <3>1. sess' = [sess EXCEPT ![s] = x]
        <4> sess' = [sess EXCEPT ![s].count = @ + added, ![s].outbox = Push(@, "dispatch", j)]
          BY <2>5, Zenon DEF DrainPush
        <4> sess[s] \in Session
          BY <2>1, <2>2
        <4> HIDE DEF added
        <4> QED
          BY <2>1, <2>2 DEF Session
      <3>2. c \in Int /\ o \in Seq(Envelope)
        <4>1. sess[s].count \in Int /\ sess[s].outbox \in Seq(Envelope)
          BY <2>1, <2>2, <1>SessionFields
        <4>2. c \in Int
          BY <4>1
        <4>3. o \in Seq(Envelope)
          BY <2>1, <4>1, <1>PushTyped, Zenon
        <4> QED
          BY <4>2, <4>3
      <3>3. /\ x \in Session /\ x.inflight = sess[s].inflight
            /\ x.flags = sess[s].flags /\ x.count = c
        <4> sess[s] \in Session
          BY <2>1, <2>2
        <4> HIDE DEF c, o
        <4> QED
          BY <3>2, Zenon DEF Session
      <3>4. b \in [Sessions -> Nat] /\ \A t \in Sessions : b[t] <= Reserved(t)
        BY <2>1 DEF Reserved
      <3>5. loop' = Advance(j, b)
        BY <2>5, Zenon DEF DrainPush
      <3> HIDE DEF x, b
      <3>6. /\ loop' \in QueueLoop
            /\ loop'.pc \in {"idle", "route"}
            /\ \A t \in Sessions : loop'.budget[t] <= b[t]
        BY <2>1, <3>4, <3>5, <1>AdvanceTyped
      <3>7. LoopKnows'
        BY <3>6 DEF LoopKnows
      <3>8. sess' \in [Sessions -> Session] /\ \A t \in Sessions : sess'[t] = IF t = s THEN x ELSE sess[t]
        BY <2>2, <3>1, <3>3
      <3>9. TypeOK'
        BY <2>3, <3>6, <3>8 DEF TypeOK, TableInv, TableTypeOK, PodTypes
      <3>10. ASSUME NEW t \in Sessions, NotClosed(t)'
             PROVE  /\ Counted(t)'
                    /\ Cardinality(sess'[t].inflight) + Reserved(t)' <= MaxInFlight
        <4>1. NotClosed(t) /\ sess'[t].inflight = sess[t].inflight
          BY <3>3, <3>8, <3>10 DEF NotClosed
        <4>2. Reserved(t)' = loop'.budget[t] /\ loop'.budget[t] \in Nat /\ b[t] \in Nat
          BY <3>4, <3>6 DEF Reserved, QueueLoop
        <4>3. sess'[t].count = Cardinality(sess'[t].inflight)
          BY <2>4, <3>3, <3>8, <4>1
        <4>4. Counted(t)'
          BY <2>4, <3>6, <4>1, <4>3 DEF Counted
        <4>5. MaxInFlight \in Nat
          BY DispatcherAssumption DEF DispatcherAssumption
        <4>6. b[t] <= Reserved(t) /\ loop'.budget[t] <= b[t]
          BY <3>4, <3>6
        <4>7. /\ Cardinality(sess[t].inflight) \in Nat /\ Reserved(t) \in Int
              /\ Cardinality(sess[t].inflight) + Reserved(t) <= MaxInFlight
          BY <2>4, <4>1
        <4>8. Cardinality(sess[t].inflight) + loop'.budget[t] <= MaxInFlight
          BY <4>2, <4>5, <4>6, <4>7
        <4> QED
          BY <4>1, <4>2, <4>4, <4>8
      <3> BudgetCovers' /\ CountHolds'
        BY <3>10 DEF BudgetCovers, CountHolds
      <3> QED
        BY <2>3, <3>7, <3>9 DEF Inv
    <2>6. CASE ~room
      <3> DEFINE x == IF loop.pc = "push" THEN Dropped(sess[s], j) ELSE sess[s]
      <3>1. sess' = [sess EXCEPT ![s] = x] /\ loop' = [loop EXCEPT !.pc = "full"]
        BY <2>6 DEF DrainPush
      <3>2. /\ Dropped(sess[s], j) \in Session
            /\ Dropped(sess[s], j).inflight = sess[s].inflight \ {j}
            /\ Dropped(sess[s], j).flags = sess[s].flags
        BY <2>1, <2>2, RemovedTyped
      <3>3. x \in Session /\ x.inflight \subseteq sess[s].inflight /\ x.flags = sess[s].flags
        BY <2>1, <2>2, <3>2
      <3>4. /\ loop' \in QueueLoop
            /\ loop'.pc = "full" /\ loop'.job = j /\ loop'.sess = s /\ loop'.budget = loop.budget
        BY <2>1, <3>1 DEF QueueLoop
      <3>5. LoopKnows'
        BY <2>1, <3>4 DEF LoopKnows
      <3> HIDE DEF x
      <3>6. sess' \in [Sessions -> Session] /\ \A t \in Sessions : sess'[t] = IF t = s THEN x ELSE sess[t]
        BY <2>2, <3>1, <3>3
      <3>7. TypeOK'
        BY <2>3, <3>4, <3>6 DEF TypeOK, TableInv, TableTypeOK, PodTypes
      <3>8. ASSUME NEW t \in Sessions, NotClosed(t)'
            PROVE  /\ Counted(t)'
                   /\ Cardinality(sess'[t].inflight) + Reserved(t)' <= MaxInFlight
        <4>1. NotClosed(t) /\ sess'[t].inflight \subseteq sess[t].inflight
          BY <3>3, <3>6, <3>8 DEF NotClosed
        <4>2. Counted(t)'
          BY <2>4, <3>4, <3>6, <4>1 DEF Counted
        <4>3. /\ Cardinality(sess'[t].inflight) \in Nat
              /\ Cardinality(sess'[t].inflight) <= Cardinality(sess[t].inflight)
          BY <2>4, <4>1, FS_Subset, FS_CardinalityType
        <4>4. Reserved(t)' \in Int /\ Reserved(t)' <= Reserved(t)
          BY <2>1, <2>4, <3>4 DEF Reserved
        <4>5. MaxInFlight \in Nat
          BY DispatcherAssumption DEF DispatcherAssumption
        <4>6. /\ Cardinality(sess[t].inflight) \in Nat /\ Reserved(t) \in Int
              /\ Cardinality(sess[t].inflight) + Reserved(t) <= MaxInFlight
          BY <2>4, <4>1
        <4> QED
          BY <4>2, <4>3, <4>4, <4>5, <4>6
      <3> BudgetCovers' /\ CountHolds'
        BY <3>8 DEF BudgetCovers, CountHolds
      <3> QED
        BY <2>3, <3>5, <3>7 DEF Inv
    <2> QED
      BY <2>5, <2>6

  (* The steps of the queue loop. *)
  <1>QueueInv.
                  Inv /\ TableInv' /\ QueueStep => Inv'
    <2> SUFFICES ASSUME Inv, TableInv', QueueStep PROVE Inv'
      OBVIOUS
    <2>1. CASE DrainClaim \/ DrainRecord \/ DrainPush
      BY <2>1, <1>DrainClaimInv, <1>DrainRecordInv, <1>DrainPushInv
    <2>2. CASE DrainOutboxFull
      <3> DEFINE x == [sess[loop.sess] EXCEPT !.flags = @ \cup {"closed"}]
      <3> loop.job \in Jobs /\ loop.sess \in Sessions
        BY <2>2 DEF DrainOutboxFull, LoopKnows, Inv
      <3>2. sess' = [sess EXCEPT ![loop.sess] = x]
        BY <2>2 DEF DrainOutboxFull
      <3>3. x \in Session /\ Keeps(sess[loop.sess], x) /\ "closed" \in x.flags
        <4>1. sess[loop.sess] \in Session
          BY DEF Inv, TypeOK
        <4>2. sess[loop.sess].flags \cup {"closed"} \in SUBSET {"drained", "closed", "sending"}
          BY <4>1, <1>SessionFields
        <4>3. <<>> \in Seq(Envelope)
          OBVIOUS
        <4>4. Keeps(sess[loop.sess], x)
          BY <4>1, <4>2, <4>3, <1>FlaggedTyped, Zenon
        <4> QED
          BY <4>1, <4>4 DEF Keeps, Session
      <3> HIDE DEF x
      <3>4. NothingDispatched
        BY <3>2, <3>3, <1>OneSession, Zenon
      <3>5. "closed" \in sess'[loop.sess].flags
        BY <3>2, <3>3 DEF Inv, TypeOK
      <3> QED
        BY <2>2, <3>4, <3>5, <1>DrainAdvances DEF DrainOutboxFull
    <2>3. ASSUME SweepEnd \/ \E pc \in {"acks", "leases"} : SweepBegin(pc) PROVE Inv'
      <3>1. loop.pc \notin {"push", "full"} /\ \A s \in Sessions : loop.budget[s] \in Nat
        BY <2>3 DEF SweepBegin, SweepEnd, Inv, TypeOK, QueueLoop
      <3>2. \A pc \in {"acks", "leases"} : registered \X {pc} \in SUBSET (Sessions \X {"acks", "leases"})
        <4> registered \subseteq Sessions
          BY DEF registered
        <4> QED
          OBVIOUS
      <3>   /\ loop' \in QueueLoop
            /\ loop'.pc \in {"idle", "sweep"}
            /\ loop'.budget = LoopIdle.budget
        <4> HIDE DEF registered
        <4>1. ASSUME NEW pc \in {"acks", "leases"}, SweepBegin(pc)
              PROVE  loop' \in QueueLoop /\ loop'.pc = "sweep" /\ loop'.budget = LoopIdle.budget
          BY <3>2, <4>1, LoopIdleTyped, Zenon DEF SweepBegin, QueueLoop
        <4> CASE SweepEnd
          BY LoopIdleTyped DEF SweepEnd, LoopIdle
        <4> QED
          BY <2>3, <4>1
      <3> \A s \in Sessions : loop'.budget[s] <= loop.budget[s]
        BY <3>1 DEF LoopIdle
      <3> LoopKnows'
        BY DEF LoopKnows
      <3> UNCHANGED <<sess, recv, listing, evicting, awaiting, stopping, hidden, held>>
        BY <2>3 DEF SweepBegin, SweepEnd
      <3> QED
        BY <3>1, <1>OnlyLoopMoves
    <2>4. CASE SweepReport
      <3> loop.job \in Jobs
        BY <2>4 DEF SweepReport, LoopKnows, Inv
      <3> QED
        BY <2>4, <1>NoSessionChanges, <1>SweepAdvances DEF SweepReport
    <2>5. CASE Reap
      BY <2>5, <1>NoSessionChanges, <1>LoopRests
      DEF Reap, podVars, Inv, TypeOK, PodTypes, RecvKnows, PeerKnows
    <2>6. ASSUME NEW j \in Jobs, RouteNoSession(j) PROVE Inv'
      BY <2>6, <1>NoSessionChanges, <1>DrainAdvances, Zenon DEF RouteNoSession
    <2>7. ASSUME NEW j \in Jobs, SweepGone(j) PROVE Inv'
      BY <2>7, <1>NoSessionChanges, <1>SweepAdvances, Zenon DEF SweepGone
    <2>8. ASSUME NEW j \in Jobs, SweepAckTimeout(j) PROVE Inv'
      <3> loop.sess \in Sessions
        BY <2>8, Zenon DEF SweepAckTimeout, LoopKnows, Inv
      <3> NothingDispatched
        BY <2>8, <1>RowRevoked, Zenon DEF SweepAckTimeout
      <3> QED
        BY <2>8, <1>SweepAdvances, Zenon DEF SweepAckTimeout
    <2>9. ASSUME NEW j \in Jobs, SweepExpiredLease(j) PROVE Inv'
      <3> loop.sess \in Sessions /\ loop.pc = "leases" /\ loop \in QueueLoop
        BY <2>9 DEF SweepExpiredLease, LoopKnows, Inv, TypeOK
      <3> NothingDispatched
        BY <2>9, <1>RowRevoked DEF SweepExpiredLease
      <3> CASE loop' = SweepAdvance("leases", j)
        BY <2>9, <1>SweepAdvances DEF SweepExpiredLease
      <3> CASE loop' = [loop EXCEPT !.pc = "report", !.job = j, !.attempts = jobs[j].attempts]
        <4> jobs[j].attempts \in Nat /\ jobs[j].attempts <= ClaimBudget(j)
          BY DEF Inv, TableInv, TableTypeOK, AttemptsWithinBudget, Row
        <4>   /\ loop' \in QueueLoop
              /\ loop'.pc = "report" /\ loop'.job = j /\ loop'.attempts = jobs[j].attempts
              /\ loop'.sess = loop.sess /\ loop'.budget = loop.budget
          BY Zenon DEF QueueLoop
        <4>3. LoopKnows'
          BY DEF LoopKnows
        <4> \A s \in Sessions : loop'.budget[s] <= loop.budget[s]
          BY DEF QueueLoop
        <4> PodTypes'
          BY <2>9 DEF SweepExpiredLease, PodTypes, Inv, TypeOK
        <4> QED
          BY <2>9, <4>3, <1>LoopMoves DEF SweepExpiredLease
      <3> QED
        BY <2>9 DEF SweepExpiredLease
    <2>10. ASSUME NEW j \in Jobs, NEW s \in Sessions, RouteRejected(j, s) PROVE Inv'
      BY <2>10, <1>NoSessionChanges, <1>DrainAdvances DEF RouteRejected
    <2>11. ASSUME NEW j \in Jobs, NEW s \in Sessions, RouteBind(j, s) PROVE Inv'
      <3> CASE loop' = Advance(j, loop.budget)
        BY <2>11, <1>NoSessionChanges, <1>DrainAdvances DEF RouteBind
      <3> CASE loop' = [loop EXCEPT !.pc = "record", !.job = j, !.sess = s]
        <4> loop \in QueueLoop /\ loop.pc = "route" /\ loop.budget[s] > 0
          BY <2>11 DEF RouteBind, Eligible, Inv, TypeOK
        <4>   /\ loop' \in QueueLoop
              /\ loop'.pc = "record" /\ loop'.job = j /\ loop'.sess = s
              /\ loop'.budget = loop.budget
          BY Zenon DEF QueueLoop
        <4> LoopKnows'
          BY DEF LoopKnows
        <4> \A t \in Sessions : loop'.budget[t] <= loop.budget[t]
          BY DEF QueueLoop
        <4> QED
          BY <2>11, <1>OnlyLoopMoves DEF RouteBind
      <3> QED
        BY <2>11 DEF RouteBind
    <2>12. ASSUME NEW s \in Sessions, NEW pc \in {"acks", "leases"}, SweepFind(s, pc) PROVE Inv'
      <3> DEFINE found == Expired(s, pc)
                 left == loop.targets \ {<<s, pc>>}
      <3> loop \in QueueLoop /\ loop.pc = "sweep"
        BY <2>12 DEF SweepFind, Inv, TypeOK
      <3>2. found \in SUBSET Jobs /\ left \in SUBSET (Sessions \X {"acks", "leases"})
        BY DEF Expired, Inv, TypeOK, Session, QueueLoop
      <3>3. \/ loop' = [loop EXCEPT !.targets = left]
            \/ loop' = [loop EXCEPT !.targets = left, !.pc = pc, !.sess = s, !.todo = found]
        BY <2>12 DEF SweepFind
      <3> HIDE DEF found, left
      <3>   /\ loop' \in QueueLoop
            /\ loop'.pc = "sweep" \/ (loop'.pc = pc /\ loop'.sess = s)
            /\ loop'.budget = loop.budget
        BY <3>2, <3>3, Zenon DEF QueueLoop
      <3> LoopKnows'
        BY DEF LoopKnows
      <3> \A t \in Sessions : loop'.budget[t] <= loop.budget[t]
        BY DEF QueueLoop
      <3> QED
        BY <2>12, <1>OnlyLoopMoves DEF SweepFind
    <2> QED
      BY <2>1, <2>2, <2>3, <2>4, <2>5, <2>6, <2>7, <2>8, <2>9, <2>10, <2>11, <2>12
      DEF QueueStep

  (* Flags, and possibly the outbox, of one session change. *)
  <1>FlagsChange.
      ASSUME Inv, NEW s \in Sessions, NEW f \in SUBSET {"drained", "closed", "sending"},
             "closed" \in sess[s].flags => "closed" \in f
      PROVE  /\ sess' = [sess EXCEPT ![s].flags = f] => NothingDispatched
             /\ \A o \in Seq(Envelope) :
                  sess' = [sess EXCEPT ![s].flags = f, ![s].outbox = o] => NothingDispatched
    <2> USE <1>FlagsChange
    <2> sess[s] \in Session
      BY DEF Inv, TypeOK
    <2>1. ASSUME NEW o \in Seq(Envelope)
          PROVE  /\ Keeps(sess[s], [sess[s] EXCEPT !.flags = f])
                 /\ Keeps(sess[s], [sess[s] EXCEPT !.flags = f, !.outbox = o])
      BY <1>FlaggedTyped, Zenon
    <2>2. ASSUME sess' = [sess EXCEPT ![s].flags = f] PROVE NothingDispatched
      <3> DEFINE x == [sess[s] EXCEPT !.flags = f]
      <3>1. sess' = [sess EXCEPT ![s] = x]
        BY <2>2
      <3> x \in Session /\ Keeps(sess[s], x)
        <4> <<>> \in Seq(Envelope)
          OBVIOUS
        <4> QED
          BY <2>1, Zenon DEF Keeps
      <3> HIDE DEF x
      <3> QED
        BY <3>1, <1>OneSession, Zenon
    <2>3. ASSUME NEW o \in Seq(Envelope), sess' = [sess EXCEPT ![s].flags = f, ![s].outbox = o]
          PROVE  NothingDispatched
      <3> DEFINE x == [sess[s] EXCEPT !.flags = f, !.outbox = o]
      <3> sess' = [sess EXCEPT ![s] = x]
        BY <2>3, Zenon DEF Inv, TypeOK, Session
      <3> x \in Session /\ Keeps(sess[s], x)
        BY <2>1, Zenon DEF Keeps
      <3> HIDE DEF x
      <3> QED
        BY <1>OneSession, Zenon
    <2> QED
      BY <2>2, <2>3, Zenon

  (* The steps of a session's goroutines. *)
  <1>SessionInv.
      ASSUME Inv, TableInv', NEW s \in Sessions, SessionStep(s)
      PROVE  Inv'
    <2> USE <1>SessionInv
    <2> DEFINE Flags == {"drained", "closed", "sending"}
    <2>0. sess[s] \in Session /\ sess[s].flags \in SUBSET Flags /\ sess[s].inflight \in SUBSET Jobs
          /\ sess[s].outbox \in Seq(Envelope)
      BY <1>SessionFields DEF Inv, TypeOK
    <2>1. CASE SenderStops(s)
      <3> (sess[s].flags \ {"sending"}) \cup {"closed"} \in SUBSET Flags
        BY <2>0
      <3> "closed" \in (sess[s].flags \ {"sending"}) \cup {"closed"}
        OBVIOUS
      <3> NothingDispatched
        BY <2>1, <1>FlagsChange, Zenon DEF SenderStops
      <3> QED
        BY <2>1, <1>LoopRests DEF SenderStops, Inv, TypeOK, PodTypes, RecvKnows, PeerKnows
    <2>2. CASE FlushLeases(s)
      <3> NothingDispatched
        <4> DEFINE x == [sess[s] EXCEPT !.bumps = {}]
        <4> sess' = [sess EXCEPT ![s] = x]
          BY <2>2 DEF FlushLeases
        <4> x \in Session /\ Keeps(sess[s], x)
          BY <2>0 DEF Session, Keeps
        <4> HIDE DEF x
        <4> QED
          BY <1>OneSession, Zenon
      <3> QED
        BY <2>2, <1>LoopRests DEF FlushLeases, Inv, TypeOK, PodTypes, RecvKnows, PeerKnows
    <2>3. CASE FailReport(s)
      <3>1. recv' = [recv EXCEPT ![s] = RecvIdle]
        BY <2>3 DEF FailReport
      <3> RecvIdle \in RecvLoop /\ RecvIdle.pc = "idle"
        BY DEF RecvIdle, RecvLoop
      <3> recv' \in [Sessions -> RecvLoop] /\ RecvKnows'
        BY <3>1 DEF Inv, TypeOK, RecvKnows
      <3> QED
        BY <2>3, <1>NoSessionChanges, <1>LoopRests
        DEF FailReport, Inv, TypeOK, PodTypes, PeerKnows
    <2>4. CASE AwaitDrainAndClose(s)
      <3>1. /\ sess[s].flags \cup {"closed"} \in SUBSET Flags
            /\ "closed" \in sess[s].flags \cup {"closed"}
        BY <2>0
      <3> Push(sess[s].outbox, "goodbye", NoJob) \in Seq(Envelope)
        BY <2>0, <1>PushTyped
      <3> NothingDispatched
        BY <2>4, <3>1, <1>FlagsChange, <1>NoSessionChanges, Zenon DEF AwaitDrainAndClose
      <3> QED
        BY <2>4, <1>LoopRests
        DEF AwaitDrainAndClose, Inv, TypeOK, PodTypes, RecvKnows, PeerKnows
    <2>5. CASE ForceList(s)
      <3>1. /\ sess[s].flags \cup {"closed"} \in SUBSET Flags
            /\ "closed" \in sess[s].flags \cup {"closed"}
        BY <2>0
      <3>2. NothingDispatched
        BY <2>5, <3>1, <1>FlagsChange, <1>NoSessionChanges, Zenon DEF ForceList
      <3> stopping' \in ShutdownState
        <4>1. stopping \in ShutdownState
          BY DEF Inv, TypeOK
        <4>2. stopping.waits \ {s} \in SUBSET Sessions
          BY <4>1 DEF ShutdownState
        <4> QED
          BY <2>0, <2>5, <4>1, <4>2, Zenon DEF ForceList, ShutdownState
      <3> QED
        BY <2>5, <3>2, <1>LoopRests DEF ForceList, Inv, TypeOK, PodTypes, RecvKnows, PeerKnows
    <2> CASE EvictList(s)
      <3> evicting' \in [Sessions -> SUBSET Jobs]
        BY <2>0 DEF EvictList, Inv, TypeOK
      <3> QED
        BY <1>NoSessionChanges, <1>LoopRests
        DEF EvictList, Inv, TypeOK, PodTypes, RecvKnows, PeerKnows
    <2> ASSUME NEW j \in Jobs, ForceRelease(s, j) PROVE Inv'
      <3> DEFINE left == stopping.rows \ {j}
                 f == sess[s].flags \cup (IF left = {} THEN {"closed"} ELSE {})
      <3>1. f \in SUBSET Flags /\ ("closed" \in sess[s].flags => "closed" \in f)
        BY <2>0
      <3>2. Push(sess[s].outbox, "revoke", j) \in Seq(Envelope)
        BY <2>0, <1>PushTyped
      <3>3. sess' = [sess EXCEPT ![s].flags = f, ![s].outbox = Push(sess[s].outbox, "revoke", j)]
        <4> sess' = [sess EXCEPT ![s].outbox = Push(@, "revoke", j),
                                 ![s].flags = @ \cup (IF left = {} THEN {"closed"} ELSE {})]
          BY Zenon DEF ForceRelease
        <4> sess[s] \in Session /\ sess \in [Sessions -> Session]
          BY <2>0 DEF Inv, TypeOK
        <4> HIDE DEF left
        <4> QED
          BY Zenon DEF Session
      <3> HIDE DEF f
      <3>4. NothingDispatched
        BY <3>1, <3>2, <3>3, <1>FlagsChange, Zenon
      <3>5. stopping' \in ShutdownState
        BY DEF ForceRelease, ShutdownState, Inv, TypeOK
      <3> QED
        BY <3>4, <3>5, <1>LoopRests DEF ForceRelease, Inv, TypeOK, PodTypes, RecvKnows, PeerKnows
    <2>6. ASSUME NEW j \in Jobs, UnregisterRelease(s, j) PROVE Inv'
      <3> DEFINE f == sess[s].flags \cup (IF recv[s].rows = {j} THEN {"closed"} ELSE {})
      <3>1. f \in SUBSET Flags /\ ("closed" \in sess[s].flags => "closed" \in f)
        BY <2>0
      <3>2. NothingDispatched
        BY <2>6, <3>1, <1>FlagsChange, Zenon DEF UnregisterRelease
      <3>3. recv' = [recv EXCEPT ![s] = IF recv[s].rows = {j} THEN RecvIdle
                                        ELSE [recv[s] EXCEPT !.rows = @ \ {j}]]
        BY <2>6 DEF UnregisterRelease
      <3>4. RecvIdle \in RecvLoop /\ RecvIdle.pc = "idle"
        BY DEF RecvIdle, RecvLoop
      <3>   /\ [recv[s] EXCEPT !.rows = @ \ {j}] \in RecvLoop
            /\ [recv[s] EXCEPT !.rows = @ \ {j}].pc = "release"
        <4> recv[s] \in RecvLoop /\ recv[s].pc = "release"
          BY <2>6 DEF UnregisterRelease, Inv, TypeOK
        <4> QED
          BY DEF RecvLoop
      <3> recv' \in [Sessions -> RecvLoop] /\ RecvKnows'
        BY <3>3, <3>4 DEF Inv, TypeOK, RecvKnows
      <3> QED
        BY <2>6, <3>2, <1>LoopRests DEF UnregisterRelease, Inv, TypeOK, PodTypes, PeerKnows
    <2> ASSUME NEW j \in Jobs, EvictRelease(s, j) PROVE Inv'
      <3> evicting' \in [Sessions -> SUBSET Jobs]
        BY DEF EvictRelease, Inv, TypeOK
      <3> QED
        BY <1>NoSessionChanges, <1>LoopRests, Zenon
        DEF EvictRelease, Inv, TypeOK, PodTypes, RecvKnows, PeerKnows
    <2> QED
      BY <2>1, <2>2, <2>3, <2>4, <2>5, <2>6 DEF SessionStep

  (* What a worker makes happen. *)
  <1>WorkerInv.
      ASSUME Inv, TableInv', NEW s \in Sessions, WorkerStep(s)
      PROVE  Inv'
    <2> USE <1>WorkerInv
    <2>0. /\ sess[s] \in Session /\ sess[s].inflight \in SUBSET Jobs
          /\ sess[s].outbox \in Seq(Envelope)
      BY <1>SessionFields DEF Inv, TypeOK
    <2>1. CASE Open(s)
      <3> DEFINE x == [sess[s] EXCEPT !.st = "open", !.flags = @ \cup {"sending"}]
      <3>1. sess' = [sess EXCEPT ![s] = x]
        BY <2>0, <2>1, Zenon DEF Open, Inv, TypeOK, Session
      <3> x \in Session /\ Keeps(sess[s], x)
        BY <2>0, Zenon DEF Session, Keeps
      <3> NothingDispatched
        <4> HIDE DEF x
        <4> QED
          BY <3>1, <1>OneSession, Zenon
      <3> QED
        BY <2>1, <1>LoopRests DEF Open, Inv, TypeOK, PodTypes, RecvKnows, PeerKnows
    <2>2. CASE Send(s)
      <3> DEFINE x == [sess[s] EXCEPT !.outbox = Tail(@)]
      <3>1. sess' = [sess EXCEPT ![s] = x]
        BY <2>2 DEF Send
      <3>2. Tail(sess[s].outbox) \in Seq(Envelope)
        BY <2>0, <2>2 DEF Send
      <3> x \in Session /\ Keeps(sess[s], x)
        BY <2>0, <3>2, Zenon DEF Session, Keeps
      <3> NothingDispatched
        <4> HIDE DEF x
        <4> QED
          BY <3>1, <1>OneSession, Zenon
      <3> QED
        BY <2>2, <1>LoopRests DEF Send, Inv, TypeOK, PodTypes, RecvKnows, PeerKnows
    <2>3. CASE HalfClose(s)
      <3> recv' \in [Sessions -> RecvLoop] /\ RecvKnows'
        <4> DEFINE r == [recv[s] EXCEPT !.pc = "eof"]
        <4>1. recv' = [recv EXCEPT ![s] = r]
          BY <2>3 DEF HalfClose
        <4> r \in RecvLoop /\ r.pc = "eof"
          <5> recv[s] \in RecvLoop
            BY DEF Inv, TypeOK
          <5> QED
            BY DEF RecvLoop
        <4> HIDE DEF r
        <4> QED
          BY <4>1 DEF Inv, TypeOK, RecvKnows
      <3> QED
        BY <2>3, <1>NoSessionChanges, <1>LoopRests DEF HalfClose, Inv, TypeOK, PodTypes, PeerKnows
    <2>4. CASE StreamEnds(s)
      <3> DEFINE f == (sess[s].flags \ {"sending"}) \cup
                      (IF sess[s].inflight = {} THEN {"closed"} ELSE {})
                 x == [sess[s] EXCEPT !.st = "gone", !.flags = f]
                 r == [RecvIdle EXCEPT !.pc = "release", !.rows = sess[s].inflight]
      <3>1. sess' = [sess EXCEPT ![s] = x]
        BY <2>0, <2>4, Zenon DEF StreamEnds, Inv, TypeOK, Session
      <3>2. f \in SUBSET {"drained", "closed", "sending"}
        BY <2>0, <1>SessionFields
      <3>3. x \in Session /\ Keeps(sess[s], x)
        <4> "closed" \in sess[s].flags => "closed" \in f
          OBVIOUS
        <4> HIDE DEF f
        <4> QED
          BY <2>0, <3>2, Zenon DEF Session, Keeps
      <3>4. NothingDispatched
        <4> HIDE DEF x
        <4> QED
          BY <3>1, <3>3, <1>OneSession, Zenon
      <3>6. RecvIdle \in RecvLoop /\ RecvIdle.pc = "idle" /\ r \in RecvLoop /\ r.pc = "release"
        BY <2>0, Zenon DEF RecvIdle, RecvLoop
      <3> recv' \in [Sessions -> RecvLoop] /\ RecvKnows'
        <4> recv' = [recv EXCEPT ![s] = IF sess[s].inflight = {} THEN RecvIdle ELSE r]
          BY <2>4 DEF StreamEnds
        <4> HIDE DEF r
        <4> QED
          BY <3>6 DEF Inv, TypeOK, RecvKnows
      <3> QED
        BY <2>4, <3>4, <1>LoopRests DEF StreamEnds, Inv, TypeOK, PodTypes, PeerKnows
    <2>5. ASSUME NEW J \in SUBSET Jobs, NEW B \in SUBSET Jobs,
                 sess' = [sess EXCEPT ![s].lapsed = @ \ J, ![s].bumps = B]
          PROVE  NothingDispatched
      <3> DEFINE x == [sess[s] EXCEPT !.lapsed = @ \ J, !.bumps = B]
      <3> sess' = [sess EXCEPT ![s] = x]
        BY <2>0, <2>5, Zenon DEF Inv, TypeOK, Session
      <3> x \in Session /\ Keeps(sess[s], x)
        BY <2>0, Zenon DEF Session, Keeps
      <3> HIDE DEF x
      <3> QED
        BY <1>OneSession, Zenon
    <2>6. ASSUME NEW J \in SUBSET Jobs, NEW B \in Bumped(sess[s].bumps, J)
          PROVE  B \in SUBSET Jobs
      BY <2>0 DEF Bumped, Session
    <2>7. ASSUME NEW J \in SUBSET Jobs, HandleHeartbeat(s, J) PROVE Inv'
      <3> J \cap sess[s].inflight \in SUBSET Jobs
        OBVIOUS
      <3> NothingDispatched
        BY <2>5, <2>6, <2>7, Zenon DEF HandleHeartbeat
      <3> QED
        BY <2>7, <1>LoopRests DEF HandleHeartbeat, Inv, TypeOK, PodTypes, RecvKnows, PeerKnows
    <2>8. ASSUME NEW j \in Jobs, HandleCheckpoint(s, j) PROVE Inv'
      <3> {j} \in SUBSET Jobs
        OBVIOUS
      <3> NothingDispatched
        BY <2>5, <2>6, <2>8, Zenon DEF HandleCheckpoint
      <3> QED
        BY <2>8, <1>LoopRests DEF HandleCheckpoint, Inv, TypeOK, PodTypes, RecvKnows, PeerKnows
    <2>9. ASSUME NEW j \in Jobs, HandleAck(s, j) PROVE Inv'
      <3> DEFINE L == IF j \in sess[s].acked THEN sess[s].lapsed ELSE sess[s].lapsed \ {j}
                 x == [sess[s] EXCEPT !.acked = @ \cup {j}, !.lapsed = L]
      <3>1. sess' = [sess EXCEPT ![s] = x]
        BY <2>0, <2>9, Zenon DEF HandleAck, Inv, TypeOK, Session
      <3>2. L \in SUBSET Jobs
        BY <2>0 DEF Session
      <3> x \in Session /\ Keeps(sess[s], x)
        <4> HIDE DEF L
        <4> QED
          BY <2>0, <3>2, Zenon DEF Session, Keeps
      <3> NothingDispatched
        <4> HIDE DEF x
        <4> QED
          BY <3>1, <1>OneSession, Zenon
      <3> QED
        BY <2>9, <1>LoopRests DEF HandleAck, Inv, TypeOK, PodTypes, RecvKnows, PeerKnows
    <2>10. ASSUME NEW j \in Jobs, HandleComplete(s, j) \/ HandleFailNoRetry(s, j) PROVE Inv'
      <3> NothingDispatched
        BY <2>10, <1>RowLeaves, Zenon DEF HandleComplete, HandleFailNoRetry, Removable
      <3> QED
        BY <2>10, <1>LoopRests, Zenon
        DEF HandleComplete, HandleFailNoRetry, Inv, TypeOK, PodTypes, RecvKnows, PeerKnows
    <2>11. ASSUME NEW j \in Jobs, HandleFail(s, j) PROVE Inv'
      <3>1. NothingDispatched
        BY <2>11, <1>RowLeaves, Zenon DEF HandleFail, Removable
      <3>3. PICK a \in {jobs[j].attempts, MaxRetries[j]} :
              recv' = [recv EXCEPT ![s] = [RecvIdle EXCEPT !.pc = "fail", !.job = j, !.attempts = a]]
        BY <2>11, Zenon DEF HandleFail
      <3>4. a \in Nat /\ a <= ClaimBudget(j)
        <4> jobs[j].attempts \in Nat /\ jobs[j].attempts <= ClaimBudget(j)
          BY DEF Inv, TableInv, TableTypeOK, AttemptsWithinBudget, Row
        <4> MaxRetries[j] \in Nat /\ MaxRetries[j] <= ClaimBudget(j)
          BY JobsTableAssumption DEF JobsTableAssumption, ClaimBudget
        <4> QED
          OBVIOUS
      <3> DEFINE r == [RecvIdle EXCEPT !.pc = "fail", !.job = j, !.attempts = a]
      <3>5. r \in RecvLoop /\ r.job = j /\ r.attempts = a
        BY <3>4, Zenon DEF RecvIdle, RecvLoop
      <3> recv' \in [Sessions -> RecvLoop] /\ RecvKnows'
        <4> recv' = [recv EXCEPT ![s] = r]
          BY <3>3
        <4> recv \in [Sessions -> RecvLoop] /\ RecvKnows
          BY DEF Inv, TypeOK
        <4> HIDE DEF r
        <4>3. recv' \in [Sessions -> RecvLoop]
          BY <3>5
        <4> \A t \in Sessions : recv'[t] = IF t = s THEN r ELSE recv[t]
          OBVIOUS
        <4> RecvKnows'
          BY <3>4, <3>5 DEF RecvKnows
        <4> QED
          BY <4>3
      <3> QED
        BY <2>11, <3>1, <1>LoopRests DEF HandleFail, Inv, TypeOK, PodTypes, PeerKnows
    <2> QED
      BY <2>1, <2>2, <2>3, <2>4, <2>7, <2>8, <2>9, <2>10, <2>11 DEF WorkerStep

  (* What operators do. *)
  <1>OperatorInv.
                     Inv /\ TableInv' /\ OperatorStep => Inv'
    <2> SUFFICES ASSUME Inv, TableInv', OperatorStep PROVE Inv'
      OBVIOUS
    <2> DEFINE Flags == {"drained", "closed", "sending"}
    <2>0. \A s \in Sessions : /\ sess[s] \in Session
                              /\ sess[s].flags \in SUBSET Flags
                              /\ sess[s].inflight \in SUBSET Jobs
                              /\ sess[s].outbox \in Seq(Envelope)
      BY <1>SessionFields DEF Inv, TypeOK
    <2>1. CASE Shutdown
      <3> DEFINE x(s) == [sess[s] EXCEPT !.flags = @ \cup {"drained"}, !.outbox = Push(@, "goodbye", NoJob)]
      <3>   ASSUME NEW s \in Sessions
            PROVE  Keeps(sess[s], x(s)) /\ Keeps(sess[s], sess[s])
        <4>1. sess[s].flags \cup {"drained"} \in SUBSET Flags
          BY <2>0
        <4> Push(sess[s].outbox, "goodbye", NoJob) \in Seq(Envelope)
          BY <2>0, <1>PushTyped
        <4> sess[s] \in Session
          BY <2>0
        <4> QED
          BY <4>1, Zenon DEF Session, Keeps
      <3>2. sess' = [s \in Sessions |-> IF s \in registered THEN x(s) ELSE sess[s]]
        BY <2>1, Zenon DEF Shutdown
      <3> NothingDispatched
        <4> HIDE DEF x
        <4> QED
          BY <2>0, <3>2 DEF NothingDispatched, Keeps
      <3> stopping' \in ShutdownState
        BY <2>1 DEF Shutdown, Running, ShutdownState, registered
      <3> QED
        BY <2>1, <1>LoopRests, Zenon DEF Shutdown, Inv, TypeOK, PodTypes, RecvKnows, PeerKnows
    <2>2. CASE ShutdownWaited
      <3> stopping' \in ShutdownState
        BY <2>2 DEF ShutdownWaited, ShutdownState, Inv, TypeOK
      <3> QED
        BY <2>2, <1>NoSessionChanges, <1>LoopRests
        DEF ShutdownWaited, Inv, TypeOK, PodTypes, RecvKnows, PeerKnows
    <2>3. CASE Crash
      <3> DEFINE x == [NewSession EXCEPT !.st = "gone", !.flags = {"closed"}]
      <3>1. /\ NewSession \in Session /\ NewSession.inflight = {} /\ NewSession.count = 0
            /\ x \in Session /\ x.inflight = {} /\ x.count = 0
        <4> <<>> \in Seq(Envelope) /\ 0 \in Int
          OBVIOUS
        <4> NewSession \in Session /\ NewSession.inflight = {} /\ NewSession.count = 0
          BY DEF NewSession, Session
        <4> QED
          BY Zenon DEF Session
      <3>2. sess' = [s \in Sessions |-> IF sess[s].st = "new" THEN NewSession ELSE x]
        BY <2>3 DEF Crash
      <3> HIDE DEF x
      <3>3. /\ sess' \in [Sessions -> Session]
            /\ \A s \in Sessions : sess'[s].inflight = {} /\ sess'[s].count = 0
        BY <3>1, <3>2
      <3>4. /\ loop' = LoopIdle /\ LoopIdle.pc = "idle"
            /\ \A s \in Sessions : LoopIdle.budget[s] = 0
        BY <2>3 DEF Crash, LoopIdle
      <3>5. loop' \in QueueLoop /\ LoopKnows'
        BY <3>4, LoopIdleTyped DEF LoopKnows
      <3>6. BudgetCovers' /\ CountHolds'
        <4>1. Cardinality({}) = 0 /\ MaxInFlight >= 0
          BY FS_EmptySet, DispatcherAssumption DEF DispatcherAssumption
        <4>2. \A s \in Sessions : Reserved(s)' = 0 /\ Cardinality(sess'[s].inflight) = 0
          BY <3>3, <3>4, <4>1 DEF Reserved
        <4>3. \A s \in Sessions : Counted(s)'
          BY <3>3, <3>4, <4>2 DEF Counted
        <4> QED
          BY <4>1, <4>2, <4>3 DEF BudgetCovers, CountHolds
      <3>7. RecvIdle \in RecvLoop /\ RecvIdle.pc = "idle"
        BY DEF RecvIdle, RecvLoop
      <3>8. RecvKnows' /\ PeerKnows'
        BY <2>3, <3>7 DEF Crash, RecvKnows, PeerKnows, Inv
      <3>9. Running \in ShutdownState
        BY DEF Running, ShutdownState
      <3>10. TypeOK'
        BY <2>3, <3>3, <3>5, <3>7, <3>9 DEF Crash, Inv, TypeOK, TableInv, TableTypeOK
      <3> QED
        BY <3>5, <3>6, <3>8, <3>10 DEF Inv
    <2>4. ASSUME NEW s \in Sessions, DrainSession(s) PROVE Inv'
      <3>1. /\ sess[s].flags \cup {"drained"} \in SUBSET Flags
            /\ "closed" \in sess[s].flags => "closed" \in sess[s].flags \cup {"drained"}
        BY <2>0
      <3> NothingDispatched
        BY <2>4, <3>1, <1>FlagsChange, Zenon DEF DrainSession
      <3> QED
        BY <2>4, <1>LoopRests DEF DrainSession, Inv, TypeOK, PodTypes, RecvKnows, PeerKnows
    <2>5. ASSUME NEW s \in Sessions, EvictSession(s) PROVE Inv'
      <3> DEFINE g == <<[kind |-> "goodbye", job |-> NoJob]>>
      <3>1. /\ sess[s].flags \cup {"drained", "closed"} \in SUBSET Flags
            /\ "closed" \in sess[s].flags \cup {"drained", "closed"}
        BY <2>0
      <3>2. PICK q \in Orders(sess[s].inflight) :
              sess' = [sess EXCEPT ![s].flags = @ \cup {"drained", "closed"},
                                   ![s].outbox = PushAll(@, g \o Revokes(q))]
        BY <2>5, Zenon DEF EvictSession
      <3>3. g \in Seq(Envelope)
        BY DEF Envelope
      <3>4. g \o Revokes(q) \in Seq(Envelope)
        <4> Revokes(q) \in Seq(Envelope)
          BY <2>0, <1>RevokesTyped
        <4> HIDE DEF g
        <4> QED
          BY <3>3
      <3> HIDE DEF g
      <3>5. PushAll(sess[s].outbox, g \o Revokes(q)) \in Seq(Envelope)
        BY <2>0, <3>4, <1>PushAllTyped, Zenon
      <3> NothingDispatched
        BY <3>1, <3>2, <3>5, <1>FlagsChange, Zenon
      <3> QED
        BY <2>5, <1>LoopRests
        DEF EvictSession, Inv, TypeOK, PodTypes, RecvKnows, PeerKnows
    <2> QED
      BY <2>1, <2>2, <2>3, <2>4, <2>5 DEF OperatorStep

  (* Submitters, other claimants, the schema and time. *)
  <1>EnvironmentInv.
                        Inv /\ TableInv' /\ EnvironmentStep => Inv'
    <2> SUFFICES ASSUME Inv, TableInv', EnvironmentStep PROVE Inv'
      OBVIOUS
    <2>1. ASSUME NEW j \in Jobs, TableStep(j) PROVE Inv'
      BY <2>1, <1>NoSessionChanges, <1>LoopRests, Zenon
      DEF TableStep, podVars, Inv, TypeOK, PodTypes, RecvKnows, PeerKnows
    <2>2. ASSUME NEW j \in Jobs, SchemaApplied(j) PROVE Inv'
      BY <2>2, <1>NoSessionChanges, <1>LoopRests, Zenon
      DEF SchemaApplied, podVars, Inv, TypeOK, PodTypes, RecvKnows, PeerKnows
    <2>3. ASSUME NEW j \in Jobs, NEW a \in Nat, a <= ClaimBudget(j),
                 held' = [held EXCEPT ![j] = a], UNCHANGED <<podVars, hidden>>
          PROVE  Inv'
      <3> held' \in [Jobs -> Nat] /\ PeerKnows'
        BY <2>3 DEF Inv, TypeOK, PeerKnows
      <3> QED
        BY <2>3, <1>NoSessionChanges, <1>LoopRests, Zenon
        DEF podVars, Inv, TypeOK, PodTypes, RecvKnows
    <2>4. ASSUME NEW j \in Jobs, PeerClaims(j) PROVE Inv'
      <3>1. Claimable(j)
        BY <2>4 DEF PeerClaims, ClaimRows
      <3> jobs[j].attempts \in Nat /\ ClaimBudget(j) \in Nat
        BY BudgetPositive DEF Inv, TableInv, TableTypeOK, Row
      <3> jobs[j].attempts + 1 \in Nat /\ jobs[j].attempts + 1 <= ClaimBudget(j)
        BY <3>1 DEF Claimable, Exhausted
      <3> QED
        BY <2>3, <2>4, Zenon DEF PeerClaims
    <2>5. ASSUME NEW j \in Jobs, PeerEnds(j) PROVE Inv'
      <3> 0 \in Nat /\ 0 <= ClaimBudget(j)
        BY BudgetPositive
      <3> held' = [held EXCEPT ![j] = 0] /\ UNCHANGED <<podVars, hidden>>
        BY <2>5 DEF PeerEnds
      <3> QED
        BY <2>3, Zenon
    <2>6. ASSUME NEW s \in Sessions, NEW j \in Jobs, TimerLapses(s, j) PROVE Inv'
      <3> DEFINE x == [sess[s] EXCEPT !.lapsed = @ \cup {j}]
      <3>1. sess' = [sess EXCEPT ![s] = x]
        BY <2>6 DEF TimerLapses
      <3> x \in Session /\ Keeps(sess[s], x)
        <4> sess[s] \in Session
          BY DEF Inv, TypeOK
        <4> QED
          BY DEF Session, Keeps
      <3> NothingDispatched
        <4> HIDE DEF x
        <4> QED
          BY <3>1, <1>OneSession, Zenon
      <3> QED
        BY <2>6, <1>LoopRests DEF TimerLapses, Inv, TypeOK, PodTypes, RecvKnows, PeerKnows
    <2> QED
      BY <2>1, <2>2, <2>4, <2>5, <2>6 DEF EnvironmentStep

  <1> SUFFICES ASSUME Inv, [Next]_vars PROVE Inv'
    OBVIOUS
  <1> TableInv'
    BY StepTable, TableStepInv DEF Inv
  <1> CASE UNCHANGED vars
    BY <1>NoSessionChanges, <1>LoopRests, Zenon
    DEF vars, Inv, TypeOK, PodTypes, RecvKnows, PeerKnows
  <1> CASE Next
    BY <1>QueueInv, <1>SessionInv, <1>WorkerInv, <1>OperatorInv, <1>EnvironmentInv DEF Next
  <1> QED
    OBVIOUS

LEMMA InitInv == Init => Inv
  <1> SUFFICES ASSUME Init PROVE Inv
    OBVIOUS
  <1>1. TableInv
    BY TableInitInv DEF Init
  <1>2. NewSession \in Session /\ NewSession.inflight = {} /\ NewSession.count = 0
    <2> <<>> \in Seq(Envelope) /\ 0 \in Int
      OBVIOUS
    <2> QED
      BY DEF NewSession, Session
  <1>3. RecvIdle \in RecvLoop /\ RecvIdle.pc = "idle"
    BY DEF RecvIdle, RecvLoop
  <1>4. LoopIdle.pc = "idle" /\ \A s \in Sessions : LoopIdle.budget[s] = 0
    BY DEF LoopIdle
  <1> Running \in ShutdownState
    BY DEF Running, ShutdownState
  <1>5. TypeOK
    BY <1>1, <1>2, <1>3, LoopIdleTyped DEF Init, TypeOK, TableInv, TableTypeOK
  <1>6. LoopKnows /\ RecvKnows
    BY <1>3, <1>4 DEF Init, LoopKnows, RecvKnows
  <1>7. PeerKnows
    BY BudgetPositive DEF Init, PeerKnows
  <1>8. BudgetCovers /\ CountHolds
    <2>1. \A s \in Sessions : sess[s].inflight = {} /\ sess[s].count = 0 /\ Reserved(s) = 0
      BY <1>2, <1>4 DEF Init, Reserved
    <2>2. Cardinality({}) = 0
      BY FS_EmptySet
    <2>3. MaxInFlight >= 0 /\ loop.pc = "idle"
      BY <1>4, DispatcherAssumption DEF DispatcherAssumption, Init
    <2>4. \A s \in Sessions : Cardinality(sess[s].inflight) = 0 /\ Counted(s)
      BY <2>1, <2>2, <2>3 DEF Counted
    <2> QED
      BY <2>1, <2>3, <2>4 DEF BudgetCovers, CountHolds
  <1> QED
    BY <1>1, <1>5, <1>6, <1>7, <1>8 DEF Inv

-----------------------------------------------------------------------------
(* The theorems *)

(* The invariant holds in every reachable state of the dispatcher. *)
THEOREM DispatcherInvariant == Spec => []Inv
  BY InitInv, StepInv, PTL DEF Spec

(* Every value the pod keeps has its type; in particular the drain never   *)
(* takes perSessSlot below zero.                                           *)
THEOREM DispatcherTypeCorrect == Spec => []TypeOK
  <1> Inv => TypeOK
    BY DEF Inv
  <1> QED
    BY DispatcherInvariant, PTL

(* A session that nobody has closed never has more rows in flight than it  *)
(* asked for, whatever the receive loops, the sweepers, operators and      *)
(* crashes do between the count of the slots and the dispatches            *)
(* (drainOnce): a counter that a full outbox made to slip belongs to a     *)
(* session that is being closed.                                           *)
THEOREM DispatcherLimit == Spec => []OpenWithinLimit
  <1> Inv => OpenWithinLimit
    <2> SUFFICES ASSUME Inv, NEW s \in Sessions, NotClosed(s)
                 PROVE  Cardinality(sess[s].inflight) <= MaxInFlight
      BY DEF OpenWithinLimit, NotClosed
    <2>1. Cardinality(sess[s].inflight) \in Nat
      BY FS_Subset, FS_CardinalityType, JobsTableAssumption
      DEF JobsTableAssumption, Inv, TypeOK, Session
    <2> Reserved(s) \in Nat
      BY DEF Inv, TypeOK, QueueLoop, LoopKnows, Reserved
    <2> Cardinality(sess[s].inflight) + Reserved(s) <= MaxInFlight /\ MaxInFlight \in Nat
      BY DispatcherAssumption DEF DispatcherAssumption, Inv, BudgetCovers
    <2> QED
      BY <2>1
  <1> QED
    BY DispatcherInvariant, PTL

(* The dispatcher, its workers, its peers and its operators change the     *)
(* tables only by the statements of clients/go/jobs/sql.go, with attempts  *)
(* that never exceed the claim budget: the dispatcher implements the       *)
(* tables' specification.                                                  *)
THEOREM DispatcherImplementsTables == Spec => TableSpec
  <1> Init => TableInit
    BY DEF Init
  <1> QED
    BY StepTable, DispatcherInvariant, PTL DEF Spec, TableSpec

(* What the tables promise therefore holds under the dispatcher: no job is *)
(* lost from both tables, and none is in both.                             *)
THEOREM DispatcherKeepsJobs == Spec => NoJobLost /\ []InOneTable
  BY DispatcherImplementsTables, TableKeepsJobs, TableInOne, PTL

-----------------------------------------------------------------------------
(* What the steps do to a session and to the queue loop *)

(* drainOnce has claimed rows and not placed all of them yet. *)
Draining == loop.pc \in {"route", "record", "push", "dup", "full"}

(* The sessions of the sweep under way. *)
Swept(s) == loop.sess = s \/ \E pc \in {"acks", "leases"} : <<s, pc>> \in loop.targets

LEMMA HoldersApart ==
    /\ Holders = Sessions \cup {Pod, Peer}
    /\ Pod \notin Sessions /\ Peer \notin Sessions /\ Pod # Peer
    /\ NoHolder \notin Holders /\ NoSession \notin Sessions /\ NoJob \notin Jobs
  BY DispatcherAssumption, JobsTableAssumption DEF DispatcherAssumption, JobsTableAssumption

LEMMA RemovedFields ==
    ASSUME Inv, NEW s \in Sessions, NEW j \in Jobs
    PROVE  /\ Removed(sess[s], j).st = sess[s].st
           /\ Removed(sess[s], j).inflight = sess[s].inflight \ {j}
           /\ Removed(sess[s], j).acked = sess[s].acked \ {j}
           /\ Removed(sess[s], j).lapsed = sess[s].lapsed \ {j}
  <1> DEFINE x == sess[s]
  <1>1. x \in Session
    BY DEF Inv, TypeOK
  <1> HIDE DEF x
  <1> /\ Removed(x, j).st = x.st /\ Removed(x, j).inflight = x.inflight \ {j}
      /\ Removed(x, j).acked = x.acked \ {j} /\ Removed(x, j).lapsed = x.lapsed \ {j}
    BY <1>1 DEF Removed, Session
  <1> QED
    BY DEF x

(* Row j leaves the in-flight map of session s. *)
LEMMA RowRemoved ==
    ASSUME Inv, NEW s \in Sessions, NEW j \in Jobs, sess' = [sess EXCEPT ![s] = Removed(sess[s], j)]
    PROVE  /\ \A t \in Sessions : sess'[t].st = sess[t].st /\ sess'[t].inflight \subseteq sess[t].inflight
           /\ j \notin sess'[s].inflight
           /\ registered' = registered
  <1> sess'[s] = Removed(sess[s], j) /\ \A t \in Sessions : t # s => sess'[t] = sess[t]
    BY DEF Inv, TypeOK
  <1> \A t \in Sessions : sess'[t].st = sess[t].st /\ sess'[t].inflight \subseteq sess[t].inflight
    BY RemovedFields
  <1> j \notin sess'[s].inflight
    BY RemovedFields
  <1> QED
    BY DEF registered

LEMMA AdvanceFacts ==
    ASSUME Inv, NEW j \in Jobs, NEW b \in [Sessions -> Nat]
    PROVE  /\ Advance(j, b).pc \in {"idle", "route"}
           /\ Advance(j, b).todo \subseteq loop.todo \ {j}
           /\ Advance(j, b).budget = b \/ Advance(j, b).budget = [s \in Sessions |-> 0]
  BY DEF Advance, LoopIdle, Inv, TypeOK, QueueLoop

(* What recordDispatch does to the in-flight maps and to the loop. *)
LEMMA RecordEffect ==
    ASSUME Inv, DrainRecord, NEW j \in Jobs, NEW s \in Sessions, j = loop.job, s = loop.sess
    PROVE  /\ loop'.pc \in {"push", "dup"} /\ loop'.job = j /\ loop'.sess = s
           /\ loop'.todo = loop.todo /\ loop'.budget = loop.budget
           /\ \A t \in Sessions : sess'[t].st = sess[t].st
           /\ \A t \in Sessions : t # s => sess'[t].inflight = sess[t].inflight
           /\ sess'[s].inflight = sess[s].inflight \cup {j}
  <1> sess[s] \in Session /\ sess \in [Sessions -> Session] /\ loop \in QueueLoop
    BY DEF Inv, TypeOK
  <1>1. /\ loop'.pc \in {"push", "dup"} /\ loop'.job = j /\ loop'.sess = s
        /\ loop'.todo = loop.todo /\ loop'.budget = loop.budget
    BY DEF DrainRecord, QueueLoop
  <1>2. /\ \A t \in Sessions : t # s => sess'[t] = sess[t]
        /\ sess'[s].st = sess[s].st /\ sess'[s].inflight = sess[s].inflight \cup {j}
    BY DEF DrainRecord, Session
  <1> QED
    BY <1>1, <1>2

LEMMA PushEffect ==
    ASSUME Inv, DrainPush
    PROVE  /\ \A t \in Sessions : sess'[t].st = sess[t].st /\ sess'[t].inflight \subseteq sess[t].inflight
           /\ loop.job \in Jobs /\ loop.sess \in Sessions
           /\ \/ \E b \in [Sessions -> Nat] :
                   /\ loop' = Advance(loop.job, b) /\ \A t \in Sessions : b[t] <= loop.budget[t]
                   /\ \A t \in Sessions : sess'[t].inflight = sess[t].inflight
              \/ /\ loop'.pc = "full" /\ loop'.job = loop.job /\ loop'.sess = loop.sess
                 /\ loop'.todo = loop.todo /\ loop'.budget = loop.budget
                 /\ loop.pc = "push" => loop.job \notin sess'[loop.sess].inflight
  <1> DEFINE j == loop.job
             s == loop.sess
             room == Len(sess[s].outbox) < OutboxCap
             added == IF loop.pc = "push" THEN 1 ELSE 0
             b == [loop.budget EXCEPT ![s] = @ - 1]
  <1>1. /\ j \in Jobs /\ s \in Sessions /\ loop.budget[s] > 0
        /\ loop \in QueueLoop /\ loop.budget \in [Sessions -> Nat]
        /\ sess \in [Sessions -> Session] /\ sess[s] \in Session
    BY DEF DrainPush, Inv, LoopKnows, TypeOK, QueueLoop
  <1>2. CASE room
    <2>1. sess' = [sess EXCEPT ![s].count = @ + added, ![s].outbox = Push(@, "dispatch", j)]
      BY <1>2, Zenon DEF DrainPush
    <2>2. \A t \in Sessions : sess'[t].st = sess[t].st /\ sess'[t].inflight = sess[t].inflight
      <3> HIDE DEF added, j
      <3> QED
        BY <1>1, <2>1 DEF Session
    <2>3. loop' = Advance(j, b)
      BY <1>2, Zenon DEF DrainPush
    <2>4. b \in [Sessions -> Nat] /\ \A t \in Sessions : b[t] <= loop.budget[t]
      BY <1>1
    <2> HIDE DEF b
    <2> QED
      BY <1>1, <2>2, <2>3, <2>4
  <1>3. CASE ~room
    <2>1. /\ sess' = [sess EXCEPT ![s] = IF loop.pc = "push" THEN Dropped(sess[s], j) ELSE sess[s]]
          /\ loop' = [loop EXCEPT !.pc = "full"]
      BY <1>3, Zenon DEF DrainPush
    <2>2. /\ Dropped(sess[s], j).st = sess[s].st
          /\ Dropped(sess[s], j).inflight = sess[s].inflight \ {j}
      <3> DEFINE x == sess[s]
      <3> x \in Session
        BY <1>1
      <3> HIDE DEF x
      <3> Dropped(x, j).st = x.st /\ Dropped(x, j).inflight = x.inflight \ {j}
        BY DEF Dropped, Session
      <3> QED
        BY DEF x
    <2>3. /\ loop'.pc = "full" /\ loop'.job = j /\ loop'.sess = s
          /\ loop'.todo = loop.todo /\ loop'.budget = loop.budget
      BY <1>1, <2>1 DEF QueueLoop
    <2>4. /\ \A t \in Sessions : sess'[t].st = sess[t].st /\ sess'[t].inflight \subseteq sess[t].inflight
          /\ loop.pc = "push" => j \notin sess'[s].inflight
      BY <1>1, <2>1, <2>2
    <2> QED
      BY <1>1, <2>3, <2>4
  <1> QED
    BY <1>2, <1>3

LEMMA SweepAdvanceFacts ==
    ASSUME Inv, NEW j \in Jobs, NEW pc \in {"acks", "leases"}, loop' = SweepAdvance(pc, j)
    PROVE  /\ loop'.pc \in {"sweep", "acks", "leases"}
           /\ \A s \in Sessions : loop'.budget[s] <= loop.budget[s]
           /\ \A s \in Sessions : Swept(s)' => Swept(s)
  <1> loop \in QueueLoop
    BY DEF Inv, TypeOK
  <1> loop'.pc \in {"sweep", pc} /\ \A s \in Sessions : loop'.budget[s] <= loop.budget[s]
    BY SweepAdvanceTyped
  <1> loop'.targets = loop.targets /\ loop'.sess \in {loop.sess, NoSession}
    BY DEF SweepAdvance, LoopIdle, QueueLoop
  <1> QED
    BY HoldersApart DEF Swept

LEMMA RevokeEffect ==
    ASSUME Inv, NEW s \in Sessions, NEW j \in Jobs, RevokeExpired(s, j)
    PROVE  /\ \A t \in Sessions : sess'[t].st = sess[t].st /\ sess'[t].inflight \subseteq sess[t].inflight
           /\ j \notin sess'[s].inflight
  <1> DEFINE r == Removed(sess[s], j)
             x == [r EXCEPT !.outbox = Push(@, "revoke", j)]
  <1>1. sess[s] \in Session /\ r \in Session
    BY RemovedTyped DEF Inv, TypeOK
  <1>2. r.st = sess[s].st /\ r.inflight = sess[s].inflight \ {j}
    BY RemovedFields
  <1> sess' = [sess EXCEPT ![s] = x]
    BY DEF RevokeExpired
  <1> HIDE DEF r
  <1> x.st = r.st /\ x.inflight = r.inflight
    BY <1>1 DEF Session
  <1> HIDE DEF x
  <1> QED
    BY <1>2 DEF Inv, TypeOK

=============================================================================
