---------------------------- MODULE QualityGate ----------------------------
(***************************************************************************)
(* The quality service (quality-service/src), the chain of snapshots it     *)
(* writes, and the proxy's gate that reads them before every decision       *)
(* (proxy/qa_gate.py).                                                      *)
(*                                                                          *)
(* The service follows the decision chain, verifies every decision once it *)
(* is written, and appends environmental snapshots: after a heartbeat       *)
(* without file events always, after an event if something changed.  The    *)
(* gate lets a call be decided only on a fresh and healthy snapshot made    *)
(* under the rules the proxy was started with.                              *)
(*                                                                          *)
(* Abstractions.  One unit of time is one heartbeat.  Rules are versions;   *)
(* their hash is the version and whether the placeholders of base_dirs were *)
(* replaced.  Only the checks ENV-001 (rules), ENV-005 (links of the        *)
(* quality chain) and ENV-009 (proxy running) can fail; the supervisor's    *)
(* report of the proxy is never late; the gate treats the                    *)
(* capability registry as it treats the rules.  Of a decision, verification *)
(* tells apart its link and the age of its approval.  Revocations are left  *)
(* out: the record that atested_cli.py:1952 writes names no approval, so    *)
(* the check at governance.rs:473 matches none of them.  Fewer than 200     *)
(* records without a policy hash follow one another (checks.rs:446), and an *)
(* archived quality chain does not regrow to its old size between two       *)
(* checks.  Statistics (spc, behavioral, element) raise no condition.       *)
(***************************************************************************)
EXTENDS Integers, Sequences, FiniteSets

CONSTANTS
  Rules,         \* versions of policy-rules.json
  Placeholders,  \* do its base_dirs hold placeholders, as the shipped file's do
  QueueDepth,    \* verification_queue_depth
  TailRecords,   \* records whose links ENV-005 looks at
  StaleCycles,   \* heartbeats after which a snapshot is stale
  MaxChain,      \* bound: records of the decision chain that are kept
  MaxEdits,      \* bound: edits of the rules
  MaxArchives,   \* bound: size archives of the quality chain
  None           \* no value

\* Assumed by the modules that extend or instantiate this one.
GateConstants ==
  /\ Rules # {} /\ None \notin Rules
  /\ Placeholders \in BOOLEAN
  /\ QueueDepth \in Nat \ {0} /\ TailRecords \in Nat \ {0, 1}
  /\ StaleCycles \in Nat \ {0}
  /\ MaxChain \in Nat /\ MaxEdits \in Nat /\ MaxArchives \in Nat

VARIABLES
  chain,    \* the decision chain
  disk,     \* version of the rules in the file
  edits,    \* number of edits so far
  approval, \* the approval of the one artifact: its record and whether it is old
  proxy,    \* the proxy: step of its start, rules in memory, rules its gate expects
  event,    \* the service's file watcher has an event
  service,  \* the quality service: its step and its memory
  qa,       \* the quality chain: latest snapshot, broken link, numbering
  gate,     \* the gate's memory: a sequence was seen, heartbeats since it rose
  seen,     \* history: heartbeats since this gate first read the latest snapshot
  looked    \* history: the service looked at the rules since they were edited

vars == <<chain, disk, edits, approval, proxy, event, service, qa,
          gate, seen, looked>>

-----------------------------------------------------------------------------
(* Rules, their hashes, and the records that carry them *)

\* compute_policy_rules_hash, of the file or of the policy in memory, whose
\* base_dirs _load_default_policy has replaced.
HashOf(version, loaded) == <<version, loaded /\ Placeholders>>

Record(kind, hash, via, old) ==
  [kind |-> kind, hash |-> hash, via |-> via, old |-> old]

IsDecision(i) == chain[i].kind = "decision"

\* last_governance_chain_hash
LastHash ==
  LET carrying == {i \in DOMAIN chain : chain[i].hash # None}
  IN  IF carrying = {} THEN None
      ELSE chain[CHOOSE i \in carrying : \A j \in carrying : j <= i].hash

\* The file watcher notices a change, once it is set up.
Raise == event' = (service.pc \notin {"down", "starting"})

\* A record that changes no check: past MaxChain only these are written, and
\* the model does not keep them.
Repeats(r) == r.kind # "approval" /\ ~r.old /\ r.hash \in {None, LastHash}

Keeps(r) ==
  /\ Len(chain) < MaxChain \/ Repeats(r)
  /\ chain' = IF Len(chain) < MaxChain THEN Append(chain, r) ELSE chain
  /\ Raise

-----------------------------------------------------------------------------
(* Verification of decisions after the fact *)

\* structural_integrity: the record is looked for from the start of what was
\* read, and must name the record before that place.
LinkHolds(records, i) ==
  LET at == CHOOSE k \in DOMAIN records :
              records[k] = i /\ \A j \in DOMAIN records : records[j] = i => k <= j
  IN  IF at = 1 THEN i = 1 ELSE records[at - 1] = i - 1

\* verify_decision: the critical findings about decision i.
Findings(records, i) ==
  (IF LinkHolds(records, i) THEN {} ELSE {"CR-CRIT-005"})
  \cup (IF chain[i].via = 0 \/ \E k \in DOMAIN records : records[k] = chain[i].via
        THEN {} ELSE {"CR-CRIT-003"})
  \cup (IF chain[i].old THEN {"CR-CRIT-007"} ELSE {})

-----------------------------------------------------------------------------
(* The environment checks and the quality chain *)

\* run_all_checks: those that fail.
Failing ==
  (IF LastHash \in {None, HashOf(disk, FALSE)} THEN {} ELSE {"ENV-001"})
  \cup (IF qa.gap > 0 THEN {"ENV-005"} ELSE {})
  \cup (IF proxy.pc # "down" THEN {} ELSE {"ENV-009"})

\* An EnvironmentSnapshot with extra conditions, and how far verification had
\* read the decision chain when it was made (history).
Snapshot(conditions, judged) ==
  [rules |-> disk, failing |-> Failing, conditions |-> conditions,
   judged |-> judged]

Healthy(snapshot) == snapshot.failing = {} /\ snapshot.conditions = {}

Fingerprint(snapshot) ==
  [rules |-> snapshot.rules, failing |-> snapshot.failing,
   conditions |-> snapshot.conditions]

\* Mutant: counting goes on below zero.
LessUnbounded(a, b) == a - b

Less(a, b) == IF a > b THEN a - b ELSE 0

\* QaChainWriter.append_record, n times: predecessor and sequence come from
\* memory.  After an archive under the service the first record names a
\* predecessor that is gone, and ENV-005 finds it until it is TailRecords back.
Appended(q, n) ==
  IF n = 0 THEN q
  ELSE [q EXCEPT !.gap = IF q.stale THEN Less(TailRecords - 1, n - 1) ELSE Less(q.gap, n),
                 !.stale = FALSE, !.empty = FALSE]

\* append_environmental_snapshot.  pos compares the sequence with the highest
\* the gate saw; a numbering that began anew takes some time to reach it.
Writes(q, snapshot) ==
  \E pos \in IF ~q.low THEN {1} ELSE IF q.latest # None /\ q.pos = 0 THEN {1} ELSE -1..1 :
    /\ qa' = [Appended(q, 1) EXCEPT !.latest = snapshot, !.pos = pos, !.low = q.low /\ pos # 1]
    /\ seen' = -1

\* No memory of the service outlives it; what it verified or skipped is in
\* the quality chain and its archives.
NotRunning(verified, skipped) ==
  [pc |-> "down", mode |-> "event", stat |-> 0, offset |-> 0, records |-> <<>>,
   conditions |-> {}, fingerprint |-> None, idle |-> 0,
   verified |-> verified, skipped |-> skipped]

-----------------------------------------------------------------------------
Init ==
  /\ chain = <<>>
  /\ disk \in Rules
  /\ edits = 0
  /\ approval = [record |-> 0, old |-> FALSE]
  /\ proxy = [pc |-> "down", mem |-> None, expected |-> None]
  /\ event = FALSE
  /\ service = NotRunning({}, {})
  /\ qa = [latest |-> None, pos |-> 0, gap |-> 0, stale |-> FALSE, empty |-> TRUE, low |-> FALSE,
           archives |-> 0]
  /\ gate = [last |-> FALSE, since |-> 0]
  /\ seen = -1
  /\ looked = FALSE

-----------------------------------------------------------------------------
(* The proxy *)

\* record_startup_integrity_events: policy_rules_loaded with the file's hash.
StartLoaded ==
  /\ proxy.pc = "down"
  /\ Keeps(Record("loaded", HashOf(disk, FALSE), 0, FALSE))
  /\ proxy' = [proxy EXCEPT !.pc = "recorded"]
  /\ UNCHANGED <<disk, edits, approval, service, qa, gate, seen, looked>>

\* _load_default_policy: the rules the proxy decides by, read again.
StartPolicy ==
  /\ proxy.pc = "recorded"
  /\ proxy' = [proxy EXCEPT !.pc = "loaded", !.mem = disk]
  /\ UNCHANGED <<chain, disk, edits, approval, event, service, qa, gate, seen, looked>>

\* ProxyQualityGate: the hash it expects is read a third time.
StartGate ==
  /\ proxy.pc = "loaded"
  /\ proxy' = [proxy EXCEPT !.pc = "up", !.expected = disk]
  /\ UNCHANGED <<chain, disk, edits, approval, event, service, qa, gate, seen, looked>>

\* The memory of the gate goes with it.
ProxyDies ==
  /\ proxy.pc # "down"
  /\ proxy' = [pc |-> "down", mem |-> None, expected |-> None]
  /\ gate' = [last |-> FALSE, since |-> 0]
  /\ seen' = -1
  /\ UNCHANGED <<chain, disk, edits, approval, event, service, qa, looked>>

\* Mutant: a sequence that did not fall counts as an advance.
AdvancesOnEqual == qa.latest # None /\ (~gate.last \/ qa.pos >= 0)

\* ProxyQualityGate.check: the latest sequence is higher than any before.
Advances == qa.latest # None /\ (~gate.last \/ qa.pos = 1)

\* ProxyQualityGate.check: its answer, in the order of its returns.
Verdict ==
  CASE qa.latest = None -> "absent"
    [] gate.last /\ qa.pos = -1 -> "backwards"
    [] ~Advances /\ gate.since >= StaleCycles -> "stale"
    [] ~Healthy(qa.latest) -> "condition"
    [] qa.latest.rules # proxy.expected -> "mismatch"
    [] OTHER -> "ok"

\* mediate_decision: the gate, then a decision by the rules in memory or by the
\* approval of the artifact.  The record of an integrity error, which is no
\* decision and carries no hash, is not kept.
Call(approved) ==
  /\ proxy.pc = "up"
  /\ approved => approval.record > 0
  /\ IF Verdict = "ok"
       THEN Keeps(Record("decision", HashOf(proxy.mem, TRUE),
                         IF approved THEN approval.record ELSE 0, approved /\ approval.old))
       ELSE Raise /\ UNCHANGED chain
  /\ gate' = IF Advances THEN [last |-> TRUE, since |-> 0] ELSE gate
  /\ qa' = IF Advances THEN [qa EXCEPT !.pos = 0, !.low = FALSE] ELSE qa
  /\ seen' = IF qa.latest = None \/ seen >= 0 THEN seen ELSE 0
  /\ UNCHANGED <<disk, edits, approval, proxy, service, looked>>

-----------------------------------------------------------------------------
(* The quality service *)

\* run_loop up to the first snapshot: the writer reads the tail, the watcher
\* the whole decision chain; a critical failure ends the start with nothing
\* written.
StartService ==
  /\ service.pc = "down"
  /\ Failing = {}
  /\ service' = [service EXCEPT !.pc = "starting", !.stat = Len(chain), !.offset = Len(chain),
                   !.records = [i \in 1..Len(chain) |-> i],
                   !.fingerprint = Fingerprint(Snapshot({}, 0))]
  /\ Writes([qa EXCEPT !.stale = FALSE, !.low = qa.low \/ (qa.empty /\ gate.last)],
            Snapshot({}, 0))
  /\ looked' = TRUE
  /\ UNCHANGED <<chain, disk, edits, approval, proxy, event, gate>>

Decisions(batch) == {i \in batch : IsDecision(i)}

\* enqueue_records: the first QueueDepth decisions of a batch.
Queued(batch) ==
  {i \in Decisions(batch) : Cardinality({j \in Decisions(batch) : j < i}) < QueueDepth}

\* Mutant: each drain begins with no conditions.
VerifiedAnew(s, batch) ==
  [s EXCEPT !.verified = @ \cup Queued(batch),
            !.skipped = @ \cup (Decisions(batch) \ Queued(batch)),
            !.conditions = UNION {Findings(s.records, i) : i \in Queued(batch)}]

\* enqueue_records and drain_queue: what is queued is verified, the rest is
\* recorded as skipped; findings become conditions, once and for all.
Verified(s, batch) ==
  [s EXCEPT !.verified = @ \cup Queued(batch),
            !.skipped = @ \cup (Decisions(batch) \ Queued(batch)),
            !.conditions = @ \cup UNION {Findings(s.records, i) : i \in Queued(batch)}]

\* The records this adds to the quality chain: one for each verification and
\* each finding, a warning and a record for each decision skipped.
QaRecords(records, batch) ==
  Cardinality(Queued(batch)) + 2 * Cardinality(Decisions(batch) \ Queued(batch))
  + Cardinality(UNION {{i} \X Findings(records, i) : i \in Queued(batch)})

\* run_loop from the first snapshot to the file watcher: all decisions are
\* verified; a second snapshot if conditions were found.  What changes before
\* the watcher is set up raises no event.
FinishStart ==
  /\ service.pc = "starting"
  /\ LET batch == 1..service.offset
         s     == Verified(service, batch)
         q     == Appended(qa, QaRecords(service.records, batch))
         snap  == Snapshot(s.conditions, s.offset)
     IN  /\ service' = [s EXCEPT !.pc = "idle", !.idle = 0,
                          !.fingerprint = IF s.conditions = {} THEN @ ELSE Fingerprint(snap)]
         /\ IF s.conditions = {} THEN qa' = q /\ UNCHANGED seen ELSE Writes(q, snap)
  /\ event' = FALSE
  /\ looked' = (looked \/ service'.conditions # {})
  /\ UNCHANGED <<chain, disk, edits, approval, proxy, gate>>

\* recv_timeout returns an event, or times out; poll_new_records stats the chain.
Wake(mode) ==
  /\ service.pc = "idle"
  /\ IF event THEN mode = "event" ELSE mode = "timeout" /\ service.idle = 1
  /\ service' = [service EXCEPT !.pc = "stat", !.mode = mode, !.stat = Len(chain)]
  /\ event' = FALSE
  /\ UNCHANGED <<chain, disk, edits, approval, proxy, qa, gate, seen, looked>>

\* Mutant: the offset is where the file ends after the read.
ReadThenStat ==
  /\ service.pc = "stat"
  /\ LET batch == service.offset + 1..service.stat
         read  == [service EXCEPT !.pc = "drained", !.offset = Len(chain),
                     !.records = @ \o [k \in 1..service.stat - service.offset |-> service.offset + k]]
     IN  /\ service' = Verified(read, batch)
         /\ qa' = Appended(qa, QaRecords(read.records, batch))
         /\ event' = (event \/ Decisions(batch) # {})
  /\ UNCHANGED <<chain, disk, edits, approval, proxy, gate, seen, looked>>

\* poll_new_records reads from the cached offset to the end, which may lie
\* behind what was statted, and caches the size that was statted; then
\* enqueue_records and drain_queue.
Read ==
  /\ service.pc = "stat"
  /\ LET batch == IF service.stat = service.offset THEN {} ELSE service.offset + 1..Len(chain)
         read  == [service EXCEPT !.pc = "drained", !.offset = service.stat,
                     !.records = @ \o [k \in 1..Cardinality(batch) |-> service.offset + k]]
     IN  /\ service' = Verified(read, batch)
         /\ qa' = Appended(qa, QaRecords(read.records, batch))
         /\ event' = (event \/ Decisions(batch) # {})
  /\ UNCHANGED <<chain, disk, edits, approval, proxy, gate, seen, looked>>

\* Mutant: a heartbeat writes only what changed, as an event does.
SnapOnChange ==
  /\ service.pc = "drained"
  /\ LET snap == Snapshot(service.conditions, service.offset)
     IN  /\ service' = [service EXCEPT !.pc = "idle", !.idle = 0,
                          !.fingerprint = Fingerprint(snap)]
         /\ IF Fingerprint(snap) # service.fingerprint
              THEN Writes(qa, snap) /\ Raise ELSE UNCHANGED <<qa, event, seen>>
  /\ looked' = TRUE
  /\ UNCHANGED <<chain, disk, edits, approval, proxy, gate>>

\* Mutant: only a heartbeat writes.
SnapOnTimeout ==
  /\ service.pc = "drained"
  /\ LET snap == Snapshot(service.conditions, service.offset)
     IN  /\ service' = [service EXCEPT !.pc = "idle", !.idle = 0,
                          !.fingerprint = Fingerprint(snap)]
         /\ IF service.mode = "timeout" THEN Writes(qa, snap) /\ Raise ELSE UNCHANGED <<qa, event, seen>>
  /\ looked' = TRUE
  /\ UNCHANGED <<chain, disk, edits, approval, proxy, gate>>

\* The end of a pass: run_all_checks, and a snapshot after a heartbeat or if
\* its fingerprint changed.
Snap ==
  /\ service.pc = "drained"
  /\ LET snap == Snapshot(service.conditions, service.offset)
     IN  /\ service' = [service EXCEPT !.pc = "idle", !.idle = 0,
                          !.fingerprint = Fingerprint(snap)]
         /\ IF service.mode = "timeout" \/ Fingerprint(snap) # service.fingerprint
              THEN Writes(qa, snap) /\ Raise ELSE UNCHANGED <<qa, event, seen>>
  /\ looked' = TRUE
  /\ UNCHANGED <<chain, disk, edits, approval, proxy, gate>>

ServiceDies ==
  /\ service.pc # "down"
  /\ service' = NotRunning(service.verified, service.skipped)
  /\ event' = FALSE
  /\ qa' = [qa EXCEPT !.stale = FALSE]
  /\ UNCHANGED <<chain, disk, edits, approval, proxy, gate, seen, looked>>

-----------------------------------------------------------------------------
(* Around them *)

\* A heartbeat of time.
Tick ==
  /\ service' = [service EXCEPT !.idle = IF service.pc = "idle" THEN 1 ELSE @]
  /\ gate' = [gate EXCEPT !.since = IF proxy.pc = "up" /\ @ < StaleCycles THEN @ + 1 ELSE @]
  /\ seen' = IF seen \in 0..StaleCycles - 1 THEN seen + 1 ELSE seen
  /\ UNCHANGED <<chain, disk, edits, approval, proxy, event, qa, looked>>

EditRules ==
  /\ edits < MaxEdits
  /\ disk' \in Rules \ {disk}
  /\ edits' = edits + 1
  /\ looked' = FALSE
  /\ Raise
  /\ UNCHANGED <<chain, approval, proxy, service, qa, gate, seen>>

\* cmd_approve, once.
Approve ==
  /\ approval.record = 0 /\ Len(chain) < MaxChain
  /\ Keeps(Record("approval", None, 0, FALSE))
  /\ approval' = [record |-> Len(chain'), old |-> FALSE]
  /\ UNCHANGED <<disk, edits, proxy, service, qa, gate, seen, looked>>

\* approval_max_age_seconds pass.
ApprovalAges ==
  /\ approval.record > 0 /\ ~approval.old
  /\ approval' = [approval EXCEPT !.old = TRUE]
  /\ UNCHANGED <<chain, disk, edits, proxy, event, service, qa, gate, seen, looked>>

\* A size archive of the quality chain: with its genesis, or cut off before it.
ArchiveQuality(whole) ==
  /\ ~qa.empty /\ qa.archives < MaxArchives
  /\ qa' = [qa EXCEPT !.archives = @ + 1, !.latest = None, !.pos = 0, !.gap = 0, !.empty = ~whole,
                      !.stale = whole /\ service.pc # "down"]
  /\ seen' = -1
  /\ Raise
  /\ UNCHANGED <<chain, disk, edits, approval, proxy, service, gate, looked>>

ServiceSteps ==
  \/ FinishStart
  \/ \E mode \in {"event", "timeout"} : Wake(mode)
  \/ Read
  \/ Snap

Next ==
  \/ StartLoaded \/ StartPolicy \/ StartGate \/ ProxyDies
  \/ \E approved \in BOOLEAN : Call(approved)
  \/ StartService \/ ServiceSteps \/ ServiceDies
  \/ Tick \/ EditRules \/ Approve \/ ApprovalAges
  \/ \E whole \in BOOLEAN : ArchiveQuality(whole)

Spec == Init /\ [][Next]_vars

\* Time passes and a live service goes on; nothing else must happen.
FairSpec == Spec /\ WF_vars(Tick) /\ WF_vars(ServiceSteps)

-----------------------------------------------------------------------------
(* Properties *)

Places == {<<v, b>> : v \in Rules, b \in BOOLEAN}
Conditions == {"CR-CRIT-003", "CR-CRIT-005", "CR-CRIT-007"}
Snapshots ==
  [rules : Rules, failing : SUBSET {"ENV-001", "ENV-005", "ENV-009"},
   conditions : SUBSET Conditions, judged : 0..MaxChain]

\* Every variable has the values its comment says.
TypeOK ==
  /\ Len(chain) <= MaxChain
  /\ \A i \in DOMAIN chain :
       /\ chain[i].kind \in {"loaded", "approval", "decision"}
       /\ chain[i].hash \in Places \cup {None}
       /\ chain[i].via \in 0..i - 1 /\ chain[i].old \in BOOLEAN
  /\ disk \in Rules /\ edits \in 0..MaxEdits
  /\ approval.record \in 0..Len(chain) /\ approval.old \in BOOLEAN
  /\ proxy.pc \in {"down", "recorded", "loaded", "up"}
  /\ proxy.mem \in Rules \cup {None} /\ proxy.expected \in Rules \cup {None}
  /\ event \in BOOLEAN /\ looked \in BOOLEAN
  /\ service.pc \in {"down", "starting", "idle", "stat", "drained"}
  /\ service.offset \in 0..Len(chain) /\ service.stat \in 0..Len(chain)
  /\ service.conditions \subseteq Conditions
  /\ service.verified \cup service.skipped \subseteq 1..Len(chain)
  /\ qa.latest \in Snapshots \cup {None}
  /\ qa.pos \in -1..1 /\ qa.gap \in 0..TailRecords
  /\ gate.since \in 0..StaleCycles /\ seen \in -1..StaleCycles

\* A call is let through the gate.
LetThrough == Verdict = "ok" /\ \E approved \in BOOLEAN : Call(approved)

\* Whatever is appended between the watcher's stat and its read, no decision is
\* passed over and none raises a false alarm, though some are read twice: when
\* the service rests, each one before its offset was verified or is recorded as
\* skipped, and the only condition is an approval that was old when it was used.
DecisionsJudged ==
  /\ service.pc = "idle" =>
       \A i \in 1..service.offset : IsDecision(i) => i \in service.verified \cup service.skipped
  /\ \A c \in service.conditions : c = "CR-CRIT-007" /\ \E i \in DOMAIN chain : chain[i].old

\* A finding stays: no call is let through on a snapshot made after a decision
\* with an old approval was verified.
FindingShutsGate ==
  [][LetThrough =>
       \A i \in 1..qa.latest.judged : chain[i].old => i \in service.skipped]_vars

\* A gate that has read a snapshot lets no call through on it when StaleCycles
\* heartbeats have passed since, also when the numbering began anew.
NoCallOnStaleSnapshot == [][LetThrough => seen < StaleCycles]_vars

\* Once a pass of the service looked at edited rules, no call is let through
\* under others: an event is as good as a heartbeat, also when it races the
\* pass before, a restart or the start of the watcher.
EditSeenShutsGate == [][LetThrough /\ looked => disk = proxy.expected]_vars

GateOpen == proxy.pc = "up" /\ Verdict = "ok"

\* Nothing is wrong with rules, records, links, numbering or processes.
Well ==
  /\ proxy.pc = "up" /\ service.pc # "down"
  /\ disk = proxy.expected /\ LastHash = HashOf(disk, FALSE)
  /\ service.conditions = {} /\ qa.gap = 0 /\ ~qa.stale /\ ~qa.low

\* In a system in which nothing is wrong, the gate is open again and again,
\* provided that heartbeats pass without file events: every event starts the
\* heartbeat anew, and an event alone writes nothing.
QuietHeartbeatsOpenGate ==
  <>[]Well /\ []<>(service.pc = "drained" /\ service.mode = "timeout") => []<>GateOpen

=============================================================================
