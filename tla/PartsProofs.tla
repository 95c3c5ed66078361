---------------------------- MODULE PartsProofs ----------------------------
(***************************************************************************)
(* What is proved of a part holds of the parts side by side.                *)
(*                                                                          *)
(* The proofs of a part are about its own specification.  Here that module  *)
(* is instantiated with the variables of Parts: the initial states of Parts *)
(* are initial states of the part, each step of Parts is a step of the part *)
(* or leaves it as it is, and so Parts implements it.  The part's invariants*)
(* follow.                                                                  *)
(***************************************************************************)
EXTENDS Parts, TLAPS

SyncProofs == INSTANCE RemoteSyncProofs
ProcessProofs == INSTANCE SupervisorProofs
RestartProofs == INSTANCE RestartsProofs
GateProofs == INSTANCE QualityGateProofs WITH service <- watcher

-----------------------------------------------------------------------------
(* The synchronisation of a remote machine *)

\* The initial states of Parts are initial states of RemoteSync.
LEMMA SyncInit == Init => SyncProofs!Init
  BY DEF Init, Sync!Init, SyncProofs!Init, Sync!Calls, SyncProofs!Calls,
     Sync!Untouched, SyncProofs!Untouched, Sync!NoSegment, SyncProofs!NoSegment

\* The conditions its threads ask are the same ones.
LEMMA SyncGuards ==
  /\ Sync!Authorized = SyncProofs!Authorized
  /\ Sync!PreviousTail = SyncProofs!PreviousTail
  /\ \A seg : Sync!Bound(seg) = SyncProofs!Bound(seg)
  /\ \A seg : Sync!Follows(seg) = SyncProofs!Follows(seg)
  /\ Sync!AtWork = SyncProofs!AtWork /\ Sync!AfterSave = SyncProofs!AfterSave
<1>1. Sync!NoTail = SyncProofs!NoTail /\ \A r : Sync!PrevHash(r) = SyncProofs!PrevHash(r)
  BY DEF Sync!NoTail, SyncProofs!NoTail, Sync!PrevHash, SyncProofs!PrevHash
<1>2. Sync!PreviousTail = SyncProofs!PreviousTail
  BY <1>1 DEF Sync!PreviousTail, SyncProofs!PreviousTail
<1>3. QED
  BY <1>1, <1>2 DEF Sync!Authorized, SyncProofs!Authorized, Sync!Bound, SyncProofs!Bound,
     Sync!Follows, SyncProofs!Follows, Sync!AtWork, SyncProofs!AtWork,
     Sync!AfterSave, SyncProofs!AfterSave

\* The steps of one thread are the same.
LEMMA SyncThread ==
  ASSUME NEW c \in Sync!Calls
  PROVE  /\ Sync!Arrive(c) => SyncProofs!Arrive(c)
         /\ Sync!Admit(c) => SyncProofs!Admit(c)
         /\ Sync!Lookup(c) => SyncProofs!Lookup(c)
         /\ Sync!Verify(c) => SyncProofs!Verify(c)
         /\ Sync!Store(c) => SyncProofs!Store(c)
         /\ Sync!AppendEnvelope(c) => SyncProofs!AppendEnvelope(c)
         /\ Sync!AppendFails(c) => SyncProofs!AppendFails(c)
         /\ Sync!WriteManifest(c) => SyncProofs!WriteManifest(c)
         /\ Sync!LoadRegistry(c) => SyncProofs!LoadRegistry(c)
         /\ Sync!SaveRegistry(c) => SyncProofs!SaveRegistry(c)
<1>1. Sync!chainVars = SyncProofs!chainVars /\ (UNCHANGED Sync!chainVars => UNCHANGED SyncProofs!chainVars)
  BY DEF Sync!chainVars, SyncProofs!chainVars
<1>2. \A from, to : Sync!Goes(c, from, to) => SyncProofs!Goes(c, from, to)
  BY DEF Sync!Goes, SyncProofs!Goes
<1>3. /\ Sync!Arrive(c) => SyncProofs!Arrive(c)
      /\ Sync!Admit(c) => SyncProofs!Admit(c)
  BY <1>1, SyncGuards DEF Sync!Arrive, SyncProofs!Arrive, Sync!Admit, SyncProofs!Admit, Sync!Goes, SyncProofs!Goes
<1>4. /\ Sync!Lookup(c) => SyncProofs!Lookup(c)
      /\ Sync!Verify(c) => SyncProofs!Verify(c)
  BY <1>1, SyncGuards DEF Sync!Lookup, SyncProofs!Lookup, Sync!Verify, SyncProofs!Verify, Sync!Goes, SyncProofs!Goes
<1>5. /\ Sync!Store(c) => SyncProofs!Store(c)
      /\ Sync!AppendFails(c) => SyncProofs!AppendFails(c)
      /\ Sync!WriteManifest(c) => SyncProofs!WriteManifest(c)
  BY <1>1 DEF Sync!Store, SyncProofs!Store, Sync!AppendFails, SyncProofs!AppendFails,
     Sync!WriteManifest, SyncProofs!WriteManifest, Sync!Goes, SyncProofs!Goes
<1>6. Sync!AppendEnvelope(c) => SyncProofs!AppendEnvelope(c)
  BY DEF Sync!AppendEnvelope, SyncProofs!AppendEnvelope
<1>7. /\ Sync!LoadRegistry(c) => SyncProofs!LoadRegistry(c)
      /\ Sync!SaveRegistry(c) => SyncProofs!SaveRegistry(c)
  BY <1>1, SyncGuards DEF Sync!LoadRegistry, SyncProofs!LoadRegistry,
     Sync!SaveRegistry, SyncProofs!SaveRegistry
<1>8. QED
  BY <1>3, <1>4, <1>5, <1>6, <1>7

\* Each step of Parts is a step of RemoteSync or leaves it as it is.
LEMMA SyncNext == [Next]_vars => [SyncProofs!Next]_(SyncProofs!vars)
<1>1. Sync!Calls = SyncProofs!Calls /\ Sync!primaryVars = SyncProofs!primaryVars
  BY DEF Sync!Calls, SyncProofs!Calls, Sync!primaryVars, SyncProofs!primaryVars
<1>0. Sync!Cardinality(remote.starts) = SyncProofs!Cardinality(remote.starts)
  BY DEF Sync!Cardinality, SyncProofs!Cardinality
<1>2. /\ Sync!RemoteAppends => SyncProofs!RemoteAppends
      /\ Sync!RemoteRolls => SyncProofs!RemoteRolls
  BY <1>0 DEF Sync!RemoteAppends, SyncProofs!RemoteAppends, Sync!RemoteRolls, SyncProofs!RemoteRolls,
     Sync!primaryVars, SyncProofs!primaryVars
<1>3. Sync!Lines = SyncProofs!Lines /\ Sync!FirstPending = SyncProofs!FirstPending
  BY DEF Sync!Lines, SyncProofs!Lines, Sync!FirstPending, SyncProofs!FirstPending
<1>4. Sync!SyncBegins => SyncProofs!SyncBegins
  BY <1>3 DEF Sync!SyncBegins, SyncProofs!SyncBegins
<1>5. /\ Sync!Receive => SyncProofs!Receive
      /\ Sync!MovesCursor => SyncProofs!MovesCursor
      /\ Sync!GiveUp => SyncProofs!GiveUp
  BY <1>3 DEF Sync!Receive, SyncProofs!Receive, Sync!MovesCursor, SyncProofs!MovesCursor,
     Sync!GiveUp, SyncProofs!GiveUp, Sync!primaryVars, SyncProofs!primaryVars
<1>6. Sync!ServiceDies => SyncProofs!ServiceDies
  BY <1>1, SyncGuards DEF Sync!ServiceDies, SyncProofs!ServiceDies
<1>7. /\ Sync!RemoveRow => SyncProofs!RemoveRow
      /\ Sync!RemoveEvent => SyncProofs!RemoveEvent
      /\ Sync!PrimaryCut => SyncProofs!PrimaryCut
  BY <1>1 DEF Sync!RemoveRow, SyncProofs!RemoveRow, Sync!RemoveEvent, SyncProofs!RemoveEvent,
     Sync!PrimaryCut, SyncProofs!PrimaryCut
<1>8. Sync!Next => SyncProofs!Next
  BY <1>1, <1>2, <1>4, <1>5, <1>6, <1>7, SyncThread DEF Sync!Next, SyncProofs!Next
<1>9. UNCHANGED syncVars => UNCHANGED SyncProofs!vars
  BY DEF syncVars, SyncProofs!vars
<1>10. Next => Sync!Next \/ UNCHANGED syncVars
  BY DEF Next
<1>11. UNCHANGED vars => UNCHANGED syncVars
  BY DEF vars
<1>12. QED
  BY <1>8, <1>9, <1>10, <1>11

\* Parts implements RemoteSync.
LEMMA SyncImplemented == FairSpec => SyncProofs!Spec
  BY SyncInit, SyncNext, PTL DEF FairSpec, SyncProofs!Spec

LEMMA SyncAssumptions == SyncProofs!SyncConstants
  BY PartConstants DEF Sync!SyncConstants, SyncProofs!SyncConstants

\* Each imported segment begins where the one before it ended, whatever answers
\* are lost, retried or cut short by a crash (remote_import.py).
THEOREM PartsLinkImports == FairSpec => []LinkedImports
<1>1. SyncProofs!Spec => []SyncProofs!LinkedImports
  BY SyncAssumptions, SyncProofs!ImportsLinked
<1>2. SyncProofs!LinkedImports => LinkedImports
  BY DEF LinkedImports, Sync!LinkedImports, SyncProofs!LinkedImports,
     Sync!PrevHash, SyncProofs!PrevHash, Sync!NoTail, SyncProofs!NoTail
<1>3. QED
  BY <1>1, <1>2, SyncImplemented, PTL

\* What the remote was told is received lies in an imported segment that is
\* stored (remote_import.py).
THEOREM PartsConfirmImported == FairSpec => []ConfirmedIsImported
<1>1. SyncProofs!Spec => []SyncProofs!ConfirmedIsImported
  BY SyncAssumptions, SyncProofs!ReceiptsTrue
<1>2. SyncProofs!ConfirmedIsImported => ConfirmedIsImported
  BY DEF ConfirmedIsImported, Sync!ConfirmedIsImported, SyncProofs!ConfirmedIsImported
<1>3. QED
  BY <1>1, <1>2, SyncImplemented, PTL

\* A machine whose removal is recorded imports nothing that was not verified
\* before (sync_service.py, machine_identity.py).
THEOREM PartsRemovalFinal == FairSpec => []RemovedStaysOut
<1>1. SyncProofs!Spec => []SyncProofs!RemovedStaysOut
  BY SyncAssumptions, SyncProofs!RemovalFinal
<1>2. SyncProofs!RemovedStaysOut => RemovedStaysOut
  BY DEF RemovedStaysOut, Sync!RemovedStaysOut, SyncProofs!RemovedStaysOut,
     Sync!Calls, SyncProofs!Calls
<1>3. QED
  BY <1>1, <1>2, SyncImplemented, PTL

-----------------------------------------------------------------------------
(* The supervisor and its processes *)

\* The initial states of Parts are initial states of Supervisor.
LEMMA ProcessInit == Init => ProcessProofs!Init
  BY DEF Init, Processes!Init, ProcessProofs!Init, Processes!Ended, ProcessProofs!Ended

\* Each step of Parts is a step of Supervisor or leaves it as it is.
LEMMA ProcessNext == [Next]_vars => [ProcessProofs!Next]_(ProcessProofs!vars)
<1>1. /\ Processes!Ended = ProcessProofs!Ended /\ Processes!Running = ProcessProofs!Running
      /\ Processes!Abandons = ProcessProofs!Abandons
      /\ \A S : Processes!Started(S) = ProcessProofs!Started(S)
      /\ \A s : Processes!OrphansOnPort(s) = ProcessProofs!OrphansOnPort(s)
      /\ Processes!Collected = ProcessProofs!Collected
  BY DEF Processes!Ended, ProcessProofs!Ended, Processes!Running, ProcessProofs!Running,
     Processes!Abandons, ProcessProofs!Abandons, Processes!Started, ProcessProofs!Started,
     Processes!OrphansOnPort, ProcessProofs!OrphansOnPort, Processes!Of, ProcessProofs!Of,
     Processes!Collected, ProcessProofs!Collected
<1>2. /\ Processes!Cleanup => ProcessProofs!Cleanup
      /\ Processes!StartNext => ProcessProofs!StartNext
      /\ Processes!Ready => ProcessProofs!Ready
      /\ Processes!StartupFails => ProcessProofs!StartupFails
  BY <1>1 DEF Processes!Cleanup, ProcessProofs!Cleanup, Processes!StartNext, ProcessProofs!StartNext,
     Processes!Ready, ProcessProofs!Ready, Processes!StartupFails, ProcessProofs!StartupFails
<1>3. /\ Processes!Poll => ProcessProofs!Poll
      /\ Processes!WriteStatus => ProcessProofs!WriteStatus
      /\ Processes!WriteManagedPids => ProcessProofs!WriteManagedPids
  BY <1>1 DEF Processes!Poll, ProcessProofs!Poll, Processes!WriteStatus, ProcessProofs!WriteStatus,
     Processes!WriteManagedPids, ProcessProofs!WriteManagedPids
<1>4. /\ Processes!EndChild => ProcessProofs!EndChild
      /\ Processes!EndFiles => ProcessProofs!EndFiles
      /\ Processes!SupervisorDies => ProcessProofs!SupervisorDies
      /\ Processes!ServiceExits => ProcessProofs!ServiceExits
  BY <1>1 DEF Processes!EndChild, ProcessProofs!EndChild, Processes!EndFiles, ProcessProofs!EndFiles,
     Processes!SupervisorDies, ProcessProofs!SupervisorDies, Processes!ServiceExits,
     ProcessProofs!ServiceExits
<1>5. /\ Processes!Start => ProcessProofs!Start
      /\ Processes!StartRecords => ProcessProofs!StartRecords
      /\ Processes!Signal => ProcessProofs!Signal
      /\ Processes!GoneOrKilled => ProcessProofs!GoneOrKilled
  BY <1>1 DEF Processes!Start, ProcessProofs!Start, Processes!StartRecords, ProcessProofs!StartRecords,
     Processes!Signal, ProcessProofs!Signal, Processes!GoneOrKilled,
     ProcessProofs!GoneOrKilled
<1>6. /\ Processes!NotRunning => ProcessProofs!NotRunning
      /\ Processes!StopRecorded => ProcessProofs!StopRecorded
      /\ Processes!SweepPorts => ProcessProofs!SweepPorts
      /\ Processes!EndPortless => ProcessProofs!EndPortless
      /\ Processes!Done => ProcessProofs!Done
  BY <1>1 DEF Processes!NotRunning, ProcessProofs!NotRunning, Processes!StopRecorded,
     ProcessProofs!StopRecorded, Processes!SweepPorts, ProcessProofs!SweepPorts,
     Processes!EndPortless, ProcessProofs!EndPortless, Processes!Done, ProcessProofs!Done
<1>7. \A op : Processes!Collect(op) => ProcessProofs!Collect(op)
  BY <1>1 DEF Processes!Collect, ProcessProofs!Collect
<1>8. Processes!Next => ProcessProofs!Next
  BY <1>2, <1>3, <1>4, <1>5, <1>6, <1>7 DEF Processes!Next, ProcessProofs!Next
<1>9. UNCHANGED processVars => UNCHANGED ProcessProofs!vars
  BY DEF processVars, ProcessProofs!vars
<1>10. Next => Processes!Next \/ UNCHANGED processVars
  BY DEF Next
<1>11. UNCHANGED vars => UNCHANGED processVars
  BY DEF vars
<1>12. QED
  BY <1>8, <1>9, <1>10, <1>11

\* Parts implements Supervisor.
LEMMA ProcessesImplemented == FairSpec => ProcessProofs!Spec
  BY ProcessInit, ProcessNext, PTL DEF FairSpec, ProcessProofs!Spec

LEMMA ProcessAssumptions == ProcessProofs!SupervisorConstants
  BY PartConstants DEF Processes!SupervisorConstants, ProcessProofs!SupervisorConstants

\* After a stop no supervisor runs, and no service but one without a port that a
\* supervisor left behind; before an archive none runs (atested_cli.py).
THEOREM PartsStopComplete == FairSpec => []StopLeavesNothing
<1>1. ProcessProofs!Spec => []ProcessProofs!StopLeavesNothing
  BY ProcessAssumptions, ProcessProofs!StopComplete
<1>2. ProcessProofs!StopLeavesNothing => StopLeavesNothing
  BY DEF StopLeavesNothing, Processes!StopLeavesNothing, ProcessProofs!StopLeavesNothing,
     Processes!Running, ProcessProofs!Running
<1>3. QED
  BY <1>1, <1>2, ProcessesImplemented, PTL

\* While a supervisor serves no service runs twice, except one without a port
\* that died unnamed with an earlier supervisor (process_supervisor.py).
THEOREM PartsNoneTwice == FairSpec => []NoSecondService
<1>1. ProcessProofs!Spec => []ProcessProofs!NoSecondService
  BY ProcessAssumptions, ProcessProofs!NoneTwice
<1>2. ProcessProofs!NoSecondService => NoSecondService
  BY DEF NoSecondService, Processes!NoSecondService, ProcessProofs!NoSecondService
<1>3. QED
  BY <1>1, <1>2, ProcessesImplemented, PTL

-----------------------------------------------------------------------------
(* The restarts of one service *)

\* The initial states of Parts are initial states of Restarts.
LEMMA RestartInit == Init => RestartProofs!Init
  BY DEF Init, OneService!Init, RestartProofs!Init

\* Each step of Parts is a step of Restarts or leaves it as it is.
LEMMA RestartNext == [Next]_vars => [RestartProofs!Next]_(RestartProofs!vars)
<1>1. /\ \A A : OneService!Older(A) = RestartProofs!Older(A)
      /\ \A A : OneService!Exits(A) = RestartProofs!Exits(A)
      /\ \A a, b : OneService!Smaller(a, b) = RestartProofs!Smaller(a, b)
      /\ OneService!Starts = RestartProofs!Starts
      /\ OneService!Cardinality(times') = RestartProofs!Cardinality(times')
  BY DEF OneService!Older, RestartProofs!Older, OneService!Exits, RestartProofs!Exits,
     OneService!Smaller, RestartProofs!Smaller, OneService!Starts, RestartProofs!Starts,
     OneService!Cardinality, RestartProofs!Cardinality
<1>2. /\ OneService!Tick => RestartProofs!Tick
      /\ OneService!Exit => RestartProofs!Exit
  BY <1>1 DEF OneService!Tick, RestartProofs!Tick, OneService!Exit, RestartProofs!Exit
<1>3. /\ OneService!Runs => RestartProofs!Runs
      /\ OneService!Restart => RestartProofs!Restart
      /\ OneService!Disable => RestartProofs!Disable
      /\ OneService!StaysDown => RestartProofs!StaysDown
      /\ OneService!ReEnable => RestartProofs!ReEnable
  BY <1>1 DEF OneService!Runs, RestartProofs!Runs, OneService!Restart, RestartProofs!Restart,
     OneService!Disable, RestartProofs!Disable, OneService!StaysDown, RestartProofs!StaysDown,
     OneService!ReEnable, RestartProofs!ReEnable
<1>4. OneService!Next => RestartProofs!Next
  BY <1>2, <1>3 DEF OneService!Next, RestartProofs!Next, OneService!Poll, RestartProofs!Poll
<1>5. UNCHANGED serviceVars => UNCHANGED RestartProofs!vars
  BY DEF serviceVars, RestartProofs!vars
<1>6. Next => OneService!Next \/ UNCHANGED serviceVars
  BY DEF Next
<1>7. UNCHANGED vars => UNCHANGED serviceVars
  BY DEF vars
<1>8. QED
  BY <1>4, <1>5, <1>6, <1>7

\* Parts implements Restarts.
LEMMA RestartsImplemented == FairSpec => RestartProofs!Spec
  BY RestartInit, RestartNext, PTL DEF FairSpec, RestartProofs!Spec

LEMMA RestartAssumptions == RestartProofs!RestartConstants
  BY PartConstants DEF OneService!RestartConstants, RestartProofs!RestartConstants

\* No service is started more than MaxRestarts + 1 times in a window, also
\* across a disable that resets the counter (process_supervisor.py).
THEOREM PartsThrottled == FairSpec => []Throttled
<1>1. RestartProofs!Spec => []RestartProofs!Throttled
  BY RestartAssumptions, RestartProofs!StartsThrottled
<1>2. RestartProofs!Throttled => Throttled
  BY DEF Throttled, OneService!Throttled, RestartProofs!Throttled,
     OneService!Cardinality, RestartProofs!Cardinality
<1>3. QED
  BY <1>1, <1>2, RestartsImplemented, PTL

\* No service is down longer than its disables since the last clean run allow
\* (process_supervisor.py).
THEOREM PartsDownBounded == FairSpec => []DownBounded
<1>1. RestartProofs!Spec => []RestartProofs!DownBounded
  BY RestartAssumptions, RestartProofs!DownNoLonger
<1>2. OneService!Doubled = RestartProofs!Doubled
  BY DEF OneService!Doubled, RestartProofs!Doubled,
     OneService!Smaller, RestartProofs!Smaller
<1>3. RestartProofs!DownBounded => DownBounded
  BY <1>2 DEF DownBounded, OneService!DownBounded, RestartProofs!DownBounded,
     OneService!Allowed, RestartProofs!Allowed
<1>4. QED
  BY <1>1, <1>3, RestartsImplemented, PTL

-----------------------------------------------------------------------------
(* The quality service and the gate *)

\* The initial states of Parts are initial states of QualityGate.
LEMMA GateInit == Init => GateProofs!Init
  BY DEF Init, Quality!Init, GateProofs!Init, Quality!NotRunning, GateProofs!NotRunning

\* The rules, records and checks are the same ones.
LEMMA GateOperators ==
  /\ \A v, l : Quality!HashOf(v, l) = GateProofs!HashOf(v, l)
  /\ \A k, h, v, o : Quality!Record(k, h, v, o) = GateProofs!Record(k, h, v, o)
  /\ \A i : Quality!IsDecision(i) = GateProofs!IsDecision(i)
  /\ Quality!LastHash = GateProofs!LastHash
  /\ Quality!Raise = GateProofs!Raise
  /\ \A r : Quality!Keeps(r) => GateProofs!Keeps(r)
<1>1. Quality!LastHash = GateProofs!LastHash
  BY DEF Quality!LastHash, GateProofs!LastHash
<1>2. \A r : Quality!Repeats(r) = GateProofs!Repeats(r)
  BY <1>1 DEF Quality!Repeats, GateProofs!Repeats
<1>3. Quality!Raise = GateProofs!Raise
  BY DEF Quality!Raise, GateProofs!Raise
<1>4. \A r : Quality!Keeps(r) => GateProofs!Keeps(r)
  BY <1>2, <1>3 DEF Quality!Keeps, GateProofs!Keeps
<1>5. QED
  BY <1>1, <1>3, <1>4 DEF Quality!HashOf, GateProofs!HashOf, Quality!Record, GateProofs!Record,
     Quality!IsDecision, GateProofs!IsDecision

\* So is what a verification finds and what it adds to the quality chain.
LEMMA GateVerification ==
  /\ \A rs, i : Quality!Findings(rs, i) = GateProofs!Findings(rs, i)
  /\ \A B : Quality!Decisions(B) = GateProofs!Decisions(B)
  /\ \A B : Quality!Queued(B) = GateProofs!Queued(B)
  /\ \A s, B : Quality!Verified(s, B) = GateProofs!Verified(s, B)
  /\ \A rs, B : Quality!QaRecords(rs, B) = GateProofs!QaRecords(rs, B)
<1>0. \A S : Quality!Cardinality(S) = GateProofs!Cardinality(S)
  BY DEF Quality!Cardinality, GateProofs!Cardinality
<1>1. \A rs, i : Quality!LinkHolds(rs, i) = GateProofs!LinkHolds(rs, i)
  BY DEF Quality!LinkHolds, GateProofs!LinkHolds
<1>2. \A rs, i : Quality!Findings(rs, i) = GateProofs!Findings(rs, i)
  BY <1>1 DEF Quality!Findings, GateProofs!Findings
<1>3. \A B : Quality!Decisions(B) = GateProofs!Decisions(B)
  BY GateOperators DEF Quality!Decisions, GateProofs!Decisions
<1>4. \A B : Quality!Queued(B) = GateProofs!Queued(B)
  BY <1>0, <1>3 DEF Quality!Queued, GateProofs!Queued
<1>5. \A s, B : Quality!Verified(s, B) = GateProofs!Verified(s, B)
  BY <1>2, <1>3, <1>4 DEF Quality!Verified, GateProofs!Verified
<1>6. \A rs, B : Quality!QaRecords(rs, B) = GateProofs!QaRecords(rs, B)
  BY <1>0, <1>2, <1>3, <1>4 DEF Quality!QaRecords, GateProofs!QaRecords
<1>7. QED
  BY <1>2, <1>3, <1>4, <1>5, <1>6

\* And so are the snapshots.
LEMMA GateSnapshots ==
  /\ Quality!Failing = GateProofs!Failing
  /\ \A c, j : Quality!Snapshot(c, j) = GateProofs!Snapshot(c, j)
  /\ \A s : Quality!Fingerprint(s) = GateProofs!Fingerprint(s)
  /\ \A q, n : Quality!Appended(q, n) = GateProofs!Appended(q, n)
  /\ \A q, s : Quality!Writes(q, s) => GateProofs!Writes(q, s)
  /\ Quality!Advances = GateProofs!Advances /\ Quality!Verdict = GateProofs!Verdict
<1>1. Quality!Failing = GateProofs!Failing
  BY GateOperators DEF Quality!Failing, GateProofs!Failing
<1>2. \A c, j : Quality!Snapshot(c, j) = GateProofs!Snapshot(c, j)
  BY <1>1 DEF Quality!Snapshot, GateProofs!Snapshot
<1>3. \A s : Quality!Fingerprint(s) = GateProofs!Fingerprint(s)
  BY DEF Quality!Fingerprint, GateProofs!Fingerprint
<1>4. \A q, n : Quality!Appended(q, n) = GateProofs!Appended(q, n)
  BY DEF Quality!Appended, GateProofs!Appended, Quality!Less, GateProofs!Less
<1>5. \A q, s : Quality!Writes(q, s) => GateProofs!Writes(q, s)
  BY <1>4 DEF Quality!Writes, GateProofs!Writes
<1>6. Quality!Advances = GateProofs!Advances
  BY DEF Quality!Advances, GateProofs!Advances
<1>7. Quality!Verdict = GateProofs!Verdict
  BY <1>6 DEF Quality!Verdict, GateProofs!Verdict, Quality!Healthy, GateProofs!Healthy
<1>8. QED
  BY <1>1, <1>2, <1>3, <1>4, <1>5, <1>6, <1>7

\* Each step of Parts is a step of QualityGate or leaves it as it is.
LEMMA GateNext == [Next]_vars => [GateProofs!Next]_(GateProofs!vars)
<1>1. /\ Quality!StartLoaded => GateProofs!StartLoaded
      /\ Quality!StartPolicy => GateProofs!StartPolicy
      /\ Quality!StartGate => GateProofs!StartGate
      /\ Quality!ProxyDies => GateProofs!ProxyDies
  BY GateOperators DEF Quality!StartLoaded, GateProofs!StartLoaded, Quality!StartPolicy,
     GateProofs!StartPolicy, Quality!StartGate, GateProofs!StartGate, Quality!ProxyDies,
     GateProofs!ProxyDies
<1>2. \A approved : Quality!Call(approved) => GateProofs!Call(approved)
  BY GateOperators, GateSnapshots DEF Quality!Call, GateProofs!Call
<1>3. /\ Quality!StartService => GateProofs!StartService
      /\ Quality!Snap => GateProofs!Snap
  BY GateOperators, GateSnapshots DEF Quality!StartService, GateProofs!StartService,
     Quality!Snap, GateProofs!Snap
<1>4. Quality!FinishStart => GateProofs!FinishStart
  BY GateVerification, GateSnapshots DEF Quality!FinishStart, GateProofs!FinishStart
<1>5. Quality!Read => GateProofs!Read
  <2>1. \A S : Quality!Cardinality(S) = GateProofs!Cardinality(S)
    BY DEF Quality!Cardinality, GateProofs!Cardinality
  <2>2. QED
    BY <2>1, GateVerification, GateSnapshots DEF Quality!Read, GateProofs!Read
<1>6. /\ \A mode : Quality!Wake(mode) => GateProofs!Wake(mode)
      /\ Quality!ServiceDies => GateProofs!ServiceDies
  BY DEF Quality!Wake, GateProofs!Wake, Quality!ServiceDies, GateProofs!ServiceDies,
     Quality!NotRunning, GateProofs!NotRunning
<1>7. /\ Quality!Tick => GateProofs!Tick
      /\ Quality!EditRules => GateProofs!EditRules
      /\ Quality!Approve => GateProofs!Approve
      /\ Quality!ApprovalAges => GateProofs!ApprovalAges
      /\ \A whole : Quality!ArchiveQuality(whole) => GateProofs!ArchiveQuality(whole)
  BY GateOperators DEF Quality!Tick, GateProofs!Tick, Quality!EditRules, GateProofs!EditRules,
     Quality!Approve, GateProofs!Approve, Quality!ApprovalAges, GateProofs!ApprovalAges,
     Quality!ArchiveQuality, GateProofs!ArchiveQuality
<1>8. Quality!Next => GateProofs!Next
  BY <1>1, <1>2, <1>3, <1>4, <1>5, <1>6, <1>7 DEF Quality!Next, GateProofs!Next,
     Quality!ServiceSteps, GateProofs!ServiceSteps
<1>9. UNCHANGED gateVars => UNCHANGED GateProofs!vars
  BY DEF gateVars, GateProofs!vars
<1>10. Next => Quality!Next \/ UNCHANGED gateVars
  BY DEF Next
<1>11. UNCHANGED vars => UNCHANGED gateVars
  BY DEF vars
<1>12. QED
  BY <1>8, <1>9, <1>10, <1>11

\* Parts implements QualityGate.
LEMMA GateImplemented == FairSpec => GateProofs!Spec
  BY GateInit, GateNext, PTL DEF FairSpec, GateProofs!Spec

LEMMA GateAssumptions == GateProofs!GateConstants
  BY PartConstants DEF Quality!GateConstants, GateProofs!GateConstants

\* No call is let through on a snapshot that the gate has known for StaleCycles
\* heartbeats, also across an archive of the quality chain (qa_gate.py).
THEOREM PartsStaleShuts == FairSpec => NoCallOnStaleSnapshot
<1>1. GateProofs!Spec => GateProofs!NoCallOnStaleSnapshot
  BY GateAssumptions, GateProofs!StaleShuts
<1>2. Quality!LetThrough => GateProofs!LetThrough
  <2>1. \A approved : Quality!Call(approved) => GateProofs!Call(approved)
    BY GateOperators, GateSnapshots DEF Quality!Call, GateProofs!Call
  <2>2. QED
    BY <2>1, GateSnapshots DEF Quality!LetThrough, GateProofs!LetThrough
<1>3. UNCHANGED Quality!vars => UNCHANGED GateProofs!vars
  BY DEF Quality!vars, GateProofs!vars
<1>4. [GateProofs!LetThrough => seen < StaleCycles]_(GateProofs!vars)
      => [Quality!LetThrough => seen < StaleCycles]_(Quality!vars)
  BY <1>2 DEF Quality!vars, GateProofs!vars
<1>5. QED
  BY <1>1, <1>4, GateImplemented, PTL
     DEF NoCallOnStaleSnapshot, Quality!NoCallOnStaleSnapshot, GateProofs!NoCallOnStaleSnapshot

-----------------------------------------------------------------------------
(* The verification in the background, and the types of all parts *)

\* The initial states of Parts have the verifier's variables in their ranges.
LEMMA VerifierInit == Init => Verifier!TypeOK
BY PartConstants DEF Init, Verifier!Init, Verifier!TypeOK, Verifier!VerifierConstants

\* Each step of the verifier leaves them there.
LEMMA VerifierNext ==
  ASSUME Verifier!TypeOK, Verifier!Next
  PROVE  Verifier!TypeOK'
<1>c. /\ Every \in Nat \ {0} /\ Deep \in Nat /\ MaxCuttings \in Nat /\ MaxHalts \in Nat
  BY PartConstants DEF Verifier!VerifierConstants
<1> DEFINE Steps == {"idle", "triggered", "checking", "reported", "failed"}
<1>t. /\ lag \in -Deep..Every /\ counted \in -Deep..Every
      /\ thread \in [Verifier!Runners -> Steps] /\ lock \in {"free", "held", "left"}
      /\ archives \in 0..MaxCuttings /\ halts \in 0..MaxHalts
  BY DEF Verifier!TypeOK
<1>u. \A n \in -Deep..Every : Verifier!Up(n) \in -Deep..Every
  BY <1>c DEF Verifier!Up
<1>1. CASE Verifier!ProxyAppends \/ Verifier!OtherAppends
  <2>1. lag' \in -Deep..Every /\ counted' \in -Deep..Every
    BY <1>1, <1>t, <1>u DEF Verifier!ProxyAppends, Verifier!OtherAppends
  <2>2. thread' \in [Verifier!Runners -> Steps] /\ UNCHANGED <<lock, archives, halts>>
    BY <1>1, <1>t DEF Verifier!ProxyAppends, Verifier!OtherAppends
  <2>3. QED
    BY <1>t, <2>1, <2>2 DEF Verifier!TypeOK
<1>2. CASE Verifier!Exports
  BY <1>2, <1>t DEF Verifier!Exports, Verifier!TypeOK
<1>3. ASSUME NEW t \in Verifier!Runners, Verifier!Steps(t) PROVE Verifier!TypeOK'
  <2>1. CASE Verifier!Lock(t)
    BY <2>1, <1>c, <1>t DEF Verifier!Lock, Verifier!TypeOK
  <2>2. ASSUME NEW failed \in BOOLEAN, Verifier!Report(t, failed) PROVE Verifier!TypeOK'
    <3>1. lag' \in -Deep..Every
      BY <2>2, <1>c, <1>t DEF Verifier!Report
    <3>2. QED
      BY <2>2, <3>1, <1>t DEF Verifier!Report, Verifier!TypeOK
  <2>3. CASE Verifier!Unlock(t)
    BY <2>3, <1>t DEF Verifier!Unlock, Verifier!TypeOK
  <2>4. QED
    BY <1>3, <2>1, <2>2, <2>3 DEF Verifier!Steps
<1>4. ASSUME NEW owned, Verifier!Dies(owned) PROVE Verifier!TypeOK'
  BY <1>4, <1>c, <1>t DEF Verifier!Dies, Verifier!TypeOK
<1>5. CASE Verifier!Archive
  BY <1>5, <1>c, <1>t DEF Verifier!Archive, Verifier!TypeOK
<1>6. QED
  BY <1>1, <1>2, <1>3, <1>4, <1>5 DEF Verifier!Next

\* The verifier's variables stay in their ranges.
LEMMA VerifierTypes == FairSpec => []Verifier!TypeOK
<1>1. Verifier!TypeOK /\ [Next]_vars => Verifier!TypeOK'
  <2> SUFFICES ASSUME Verifier!TypeOK, [Next]_vars PROVE Verifier!TypeOK'
    OBVIOUS
  <2>1. CASE Verifier!Next
    BY <2>1, VerifierNext
  <2>2. CASE UNCHANGED verifierVars
    BY <2>2 DEF verifierVars, Verifier!TypeOK
  <2>3. QED
    BY <2>1, <2>2 DEF Next, vars
<1>2. QED
  BY <1>1, VerifierInit, PTL DEF FairSpec

\* Every variable of the five parts keeps the values its comment says.
THEOREM PartsTypeCorrect == FairSpec => []TypeOK
<1>1. SyncProofs!Spec => []SyncProofs!TypeOK
  BY SyncAssumptions, SyncProofs!TypeCorrect
<1>2. ProcessProofs!Spec => []ProcessProofs!TypeOK
  BY ProcessAssumptions, ProcessProofs!TypeCorrect
<1>3. RestartProofs!Spec => []RestartProofs!TypeOK
  BY RestartAssumptions, RestartProofs!TypeCorrect
<1>4. GateProofs!Spec => []GateProofs!TypeOK
  BY GateAssumptions, GateProofs!TypeCorrect
<1>5. SyncProofs!TypeOK => Sync!TypeOK
  BY DEF Sync!TypeOK, SyncProofs!TypeOK, Sync!Calls, SyncProofs!Calls,
     Sync!Segments, SyncProofs!Segments, Sync!AtWork, SyncProofs!AtWork
<1>6. ProcessProofs!TypeOK => Processes!TypeOK
  BY DEF Processes!TypeOK, ProcessProofs!TypeOK
<1>7. RestartProofs!TypeOK => OneService!TypeOK
  BY DEF OneService!TypeOK, RestartProofs!TypeOK
<1>8. GateProofs!TypeOK => Quality!TypeOK
  BY DEF Quality!TypeOK, GateProofs!TypeOK, Quality!Places, GateProofs!Places,
     Quality!Conditions, GateProofs!Conditions, Quality!Snapshots, GateProofs!Snapshots
<1>9. QED
  BY <1>1, <1>2, <1>3, <1>4, <1>5, <1>6, <1>7, <1>8, SyncImplemented, ProcessesImplemented,
     RestartsImplemented, GateImplemented, VerifierTypes, PTL DEF TypeOK

====
