# TLA+ models of Atested

Atested puts a governing proxy between an agent and its model provider. Every
tool call a provider proposes is classified, evaluated against policy, written
to a hash-linked *decision chain*, and only then released to the agent or
replaced by a denial. Around the proxy stand a dashboard, a command line, a
supervisor, a Rust *quality service* that keeps a second chain about the health
of the first, and tools that archive, import, sync and read chains.

The modules here model the parts whose correctness depends on the order in
which several processes act. Paths below are relative to the repository.

## 1. Inventory

For each part: the state it keeps, what it does, whom it meets, what is hard,
and what makes it correct. "Modelled in" names the module.

| part | state | operations | meets | what is hard | what makes it correct | modelled in |
|---|---|---|---|---|---|---|
| decision chain writers (`proxy/server.py` ChainRecorder, `dashboard/server.py`, `scripts/atested_cli.py`, `scripts/remote_import.py`, `scripts/append-record-runtime.sh`) | the chain file, the lock directory and its owner file | append | each other, through the lock | interleavings, crashes inside the lock, stale locks, short writes | one line of records, each naming its predecessor | `DecisionChain` |
| integrity monitor, chain half (`scripts/integrity_monitor.py`) | the sidecar checkpoint | verify before a write, refresh after it, archive and reset on tampering, startup check | the writers that do not refresh; the unlocked start | stale checkpoint, crash between write and refresh | the tamper response fires only for tampering | `DecisionChain` |
| integrity monitor, code half | hashes of proxy code and policy rules | startup comparison, per-request check, acknowledgement | dashboard (acknowledges) | two processes share one metadata file | no request is judged by rules nobody acknowledged | `QualityGate` (the rules; see section 8) |
| archive lifecycle (`cmd_archive`, `scripts/chain_archive.py`, `scripts/chain_archiver_trigger.py`, `dashboard/server.py` auto archive) | archives and manifests, the genesis record | operator archive, size-triggered archive | live writers, the sidecar, the quality service's cached tail | no lock is taken; the sidecar is not told | no record is lost, service resumes | `ChainArchive` |
| mediation (`mediate_decision`, `proxy/boundary.py`, the request handlers) | one request's calls and decisions | gate, classify, evaluate, approve, append, release or replace | chain, approvals, quality gate, provider | append may raise, streams are buffered, approvals are read early and used late | nothing is released without its record | `Mediation` |
| approval store (`scripts/approval_store.py`) | approvals derived from the chain and sidecar files | ingest, revoke, look up | dashboard and CLI append the events, the proxy caches | order of chain and sidecar, cache keyed on the chain's mtime | a revoked approval allows nothing | `Mediation` |
| quality service (`quality-service/src`) | its chain, cached tail hash and sequence, a queue of decisions to verify | poll, enqueue, drain, snapshot | decision chain (reads), proxy gate (is read), archive | cached tail, bounded queue, event-driven loop with a heartbeat timeout | a healthy service keeps its chain linked and fresh | `QualityGate`, `ChainArchive` |
| quality gate (`proxy/qa_gate.py`) | cached offset, last sequence, time of last advance | check per call | quality service | staleness measured by the reader's clock, file replaced under the reader | it closes when the service stops and opens when it is well | `QualityGate` |
| supervisor (`scripts/process_supervisor.py`) | one managed service each: running, backoff, disabled | start in order, poll, back off, re-enable | all services | crash loops, counters, orphans | a service is not respawned in a tight loop and comes back | `Supervisor`, `Restarts` |
| admission boundary (`scripts/production_safety.py`) | active leases, dependency states, counters | admit, release, refuse, health | request threads | double release, limits | never more leases than capacity, none lost | not modelled (section 8) |
| session store (`scripts/governance_foundation.py`) | one JSON file | configure, observe | proxy and dashboard | read-modify-replace by two processes | updates survive | not modelled (section 8) |
| background verifier (`scripts/background_verifier.py`) | a lock directory, a status file | trigger, verify | every append | crash with the lock held | the chain is eventually verified | `BackgroundVerifier` |
| remote import and sync (`scripts/remote_import.py`, `scripts/sync_*.py`) | segments, manifests, import sequence, sessions | send, verify, import, duplicate detection, retry | decision chain, machine registry | lost answers, retries, crash between envelope and manifest | each segment is imported once and in order | `RemoteSync` |
| machine registry (`scripts/machine_identity.py`) | registry.json, records of machines added and removed | add, remove, authorize | sync threads save it too | loaded and saved whole under no lock | a removed machine sends nothing more | `RemoteSync` |
| commands start, stop, archive (`scripts/atested_cli.py`) | the pid file | start, find and end the supervisor and its services | supervisor | what a dead process leaves behind | nothing runs after a stop, nothing twice after a start | `Supervisor` |
| policy evaluator, classifier, descriptions | none | pure functions of a call | mediation | string matching | data, not control | verdict is an input |
| readers and reports (`chain_walker`, `chain_health`, `readout`, `verify-*`, dashboard reports) | none | read | chains | none that changes state | - | not modelled |
| canonical form, signing, event model | none | hash, sign | writers | cryptography | a hash is taken as injective | not modelled |
| user interfaces, reach lite, attestation and release tools, archived MCP server | own files | - | - | separate programs or batch tools | - | not modelled |

## 2. DecisionChain: the writers of decision-chain.jsonl

`DecisionChain.tla` models every process that appends to the chain. A writer is
of one of four kinds, because the code has four variants of one protocol:

| kind | code | before the write | after the write | lock |
|---|---|---|---|---|
| `Proxies` | `ChainRecorder.append_atomic` | `verify_chain_writable`, refuses an unreadable tail | refresh must succeed, otherwise the append fails | with `lock_owner.json` |
| `Dashboards` | `_append_chain_record_atomic` of the dashboard | nothing | refresh, failures ignored | with `lock_owner.json` |
| `Clis` | `atested_cli.py`, `remote_import.py` | nothing | nothing | with `lock_owner.json` |
| `Shells` | `append-record-runtime.sh`; the recorders of `governance_chain.py` and `decision_evidence.py` lock in the same way | nothing | nothing | without owner file, never breaks a lock |

Each writer walks through the labels of `pc`; one label is one system call or
one unbroken run of code between two of them:

    idle -> trying -> waiting -> (unlink -> rmdir -> retry) -> meta
         -> verify -> (archive -> reset) -> head -> write -> sum -> save
         -> unlock -> unlockdir -> idle
    down -> start -> startsave -> idle        (the proxy, outside the lock)
                  -> startarchive -> startsum -> startsave

State: `chain`, `archives` (files), `ckpt` (the two fields of the sidecar that
are compared), `dir` and `owner` (lock directory and the pid in the owner
file), per writer the locals that outlive a step (`head`, `mine`, `seen`), and
`released`, the proxy records whose append was reported as done. `robbed` and
`clipped` are history: a writer removed the lock directory of a live one; a
record lost exactly its newline. The four Python copies of the lock have the
same text; the map names one copy for each action.

Environment: a process may die between any two steps (`Crash`; the directory it
left is `Orphan`, the pid it left is `DeadPid`), `os.write` may write all of a
line, all but its newline, or a piece of it (`form`), and file operations whose
failure the code handles may fail (owner file, line, sidecar, archive before or
after the move).

`HashLog.tla` is what a reader of the chain may rely on: while it is trusted,
the log only grows, by records that name the tail. `ImplementsHashLog` is the
refinement, with `trusted` mapped to `Undisturbed`: no live writer was robbed
of its lock and no write was cut short.

### Runs

| run | instance | question | distinct states |
|---|---|---|---|
| `chain_writers` | a proxy, a dashboard, a shell; 2 records, 1 crash, 1 short write | is the chain one line, is the checkpoint on it, is the tamper response silent, does the file implement `HashLog`, whatever the interleaving? Yes while undisturbed. Does every record the proxy reported stay in an intact prefix of the chain or of an archive, also when locks are robbed? Yes, unless exactly its newline was lost | 4.7 million |
| `chain_live` | a proxy, a command, a shell; 1 record, 1 crash, fairness | does every append end, is a dead writer's lock removed? Yes | 0.11 million |

Bounds: `MaxRecords`, `MaxCrashes`, `MaxShorts`. Two records are the least that
can fork or be glued together; one crash at every point of every writer gives
every stale lock and every stale checkpoint; a second crash only repeats them.
Three writers give a holder, a waiter that breaks the lock, and a third that
enters in between. The properties of `chain_writers` are also proved without
any of these bounds (section 7).

Fairness: `FairSpec` asks weak fairness of each writer's own steps. The code
has no wait without a limit: a writer polls fifty times and then gives up or
breaks the lock. Beginning an append, crashing and restarting are not fair.

### Where the promises end

The lock directory is made before the owner file is written. A waiter whose last
attempt falls into that gap finds no owner file, takes the holder for dead,
removes the directory and enters; both writers have read the same head, although
the docstring of `append_atomic` (`proxy/server.py:308`) says that no two can.
The chain forks, and the proxy's next check archives it as tampered. In
`chain_writers` these are the behaviours in which `robbed` becomes true.

The shell writer leaves no owner file at all, so a Python writer that has waited
five seconds takes its lock while the shell is still alive, although
`specs/chain-integrity-spec-v1.yaml` speaks of an owner that no longer exists.
The same holds for the two recorders that lock like the shell.

Both need a writer to hold the lock for about five seconds. `Undisturbed` in
the other properties says exactly how far those promises go.

## 3. ChainArchive: moving a chain away

`ChainArchive.tla` models what happens to the two chain files and to those who
use them when a chain is archived. There are three ways:

| way | code | services | lock | genesis | checkpoint |
|---|---|---|---|---|---|
| operator (`OperatorBegins`) | `cmd_archive` | stopped and killed first | none | written | left as it was |
| size (`SizeBegins`) | a thread of the dashboard, `_do_archive_background` | go on | none | written | left as it was |
| tamper response (`TamperResponse`) | `_block_chain`, and the proxy's start | the proxy itself | chain lock, none at start | none | cleared |

An archive of one file is `Measure` (last hash and sequence), `Move`, `Genesis`;
the decision chain comes first, then the quality chain. `SkipFile` and
`MoveFails` are the ways a file is passed over. Either archiver can be cut off
between any two steps, by `OperatorAborts` or by the death of the dashboard.

The decision writers are those of `DecisionChain` reduced to three steps under
a lock that works (`turn`): `BeginAppend` reads the tail, `WriteRecord` opens
the file by name and appends, `Refresh` saves the checkpoint. The proxy verifies
the chain before it appends (`RefuseAppend` if it does not like it) and when it
starts. The quality service reads the tail of its chain once (`StartQuality`,
which also needs the startup gate to pass), and then appends from memory
(`AppendQa`, variables `tail.prev` and `tail.seq`). `acked`, `alarms`, `cut` and
`qaTop` are history. Short writes, lock breaking and failing file operations
are in `DecisionChain` and left out here.

### Runs

| run | instance | question | distinct states |
|---|---|---|---|
| `archive_operator` | proxy, dashboard, quality service; 2 operator archives, 5 records | does an operator archive keep every reported record, leave chains the quality service can start on, continue its sequence, and spare a serving proxy an alarm? Yes | 0.77 million |
| `archive_heals` | proxy, command, quality service; 2 size archives, 2 records; fairness | does the proxy get out of the state in which it finds its chain unsound? Yes | 0.32 million |
| `archive_loses` | expected violation of `AcknowledgedKept` | the export documentation says auto-archiving preserves the full record | - |

Bounds: `MaxHash` records are written besides the geneses, `MaxArchives`
archives begin. Two archives let the second meet what the first left; five
records put one before, between and after them on both chains. The operator run
has no command among its writers, because `cmd_archive` does not stop one: with
it `AcknowledgedKept` fails like in `archive_loses`.

Fairness (`FairSpec`): a writer at work goes on, a running proxy keeps being
asked to append, and from some point on no service dies. Without the last, a
dashboard that dies again and again with the lock held keeps the proxy out.

### What the violation says, and what else is seen

`archive_loses`: between `Move` and `Genesis` a writer that holds the chain lock
creates the file again with its record; the genesis is written with mode `w`
over it. The record was reported as appended and is nowhere.

`cmd_archive` says that the restarted writer resumes cleanly from the genesis. But
the archive replaces the chain and leaves the sidecar with the count and hash of
the old one: when the operator starts the services again, the proxy finds a
truncated or different chain, reports a startup integrity violation and archives
the genesis too. `NeverRefusedWhileServing` counts from there on.

The size archive also moves the quality chain under the running quality service.
Its next record names the tail of the moved file, so it does not follow the
genesis, and `ENV-005` fails at its next start: with `SizeArchives` the property
`QualityCanStart` of `archive_operator` does not hold. This is the crash loop
the operator's archive avoids by stopping the service.

## 4. Mediation: from a provider's answer to the agent

`Mediation.tla` models the release boundary of `proxy/server.py`. One asyncio
loop runs all handlers; `loop` is the request whose handler runs now, and `pc`
says where every handler stands. A handler gives the loop up (`Yield`) only
where the code awaits the provider; everything between an event that completes
calls and the release of that event is synchronous in the code and keeps the
loop in the model, but is still split into its steps, because other *processes*
(operators, the file's modification time) move in between.

| kind of request | code | asks for the approval store | collector's buffer | answer leaves |
|---|---|---|---|---|
| `Plain` | `_handle_non_streaming_provider`, `govern_provider_response` | after the answer | none | as a whole, denied calls cut out |
| `Blocks` | buffered stream, Anthropic collector | before the answer | one per content block | as a whole, event by event put together |
| `Chats` | buffered stream, OpenAI chat collector | before | one list | same; one finish event completes all calls |
| `Items` | buffered stream, Responses collector | before | one list | same; a call completes twice (`arguments.done`, `output_item.done`) |
| `Chunks` | buffered stream, Gemini collector | before | index 0 for every event | same |
| `Sockets` | `handle_websocket` | once, after the handshake | one list for the session | message by message |

| action | code |
|---|---|
| `Send`, `Open`, `HandshakeFails` | the request leaves for the provider, or the session opens or fails |
| `StatStore`, `LoadStore` | `_get_approval_store`: read the time, then load; the cache keeps the time that was read first |
| `Complete` | `process_event` completes the calls `S`; the event goes to the buffer first |
| `Decide` | `mediate_decision`: gate, policy, approval override, append; an append that raises aborts the request (`Abort`) |
| `ReleaseEvent`, `ReleaseBody` | after the last decision: release the buffer and the event, or put denials in its place |
| `AnswerWithoutCalls`, `Garbled` | nothing to decide, or nothing that can be examined: record, then hand over or refuse |
| `EndStream`, `Hangup`, `CloseSession`, `ProviderFails` | the ends |
| `Operator` | `atested approve` and `atested revoke` and the dashboard's buttons append from another process |
| `Crash` | the proxy dies; buffers and the cache are gone, the chain stays |

State of an answer: `held` counts completing events in the buffer per
operation, `out` those put in the answer, `sent` the HTTP answers the agent
has. `proposed` and `fetchedAt` (how long the chain was when the request asked
for the store) exist only for the properties.

An append is one step here, returned or raised; that its record is then linked
and stays is the subject of `DecisionChain`. It can raise with the record not
written (lock, unreadable tail, failed verification) or written (the refresh of
the checkpoint fails after `os.write`): `Faults` names which.

### Runs

| run | instance | shows |
|---|---|---|
| `mediation_http` | one JSON answer, one Anthropic and one chat stream, two operations of which policy allows one, one failed append of either sort, one crash (2.0 million states) | `WholeAnswerDecided`, `DeniedCallWithheld`, `AllowedCallDelivered`, `EveryExchangeRecorded`, `TypeOK` |
| `mediation_shared` | one Gemini stream and one Responses session of three messages, a gate that may refuse, one failed append (1.1 million) | `DeliveredCallWasDecided`, `SessionSummaryTrue` |
| `mediation_live` | a JSON answer and a Responses stream, two approvals or revocations, developer mode, a relaxable gate, one failed append, one crash, fairness (46 thousand) | `StoreIsCurrent`, `HttpRequestEnds`, `LoopIsGivenBack` |
| `mediation_denied` | one Gemini stream | violates `DeniedCallWithheld` |

Bounds: two operations give an allowed call next to a denied one in one event
and in two consecutive ones; two calls in one group let an append fail between
two decisions; three messages let a session deny, hold and release; two
operator events let an approval be cached and a revocation fall anywhere around
the next reading of the time and the load. One crash is enough because nothing of a
request survives it.

`StoreIsCurrent` runs, and is proved, with `CoarseClock = FALSE`: it needs a file system on
which two appends leave different modification times. With a coarse clock an
append within the tick of the cached time stays unseen until the next append.
`SessionSummaryTrue` runs, and is proved, with `Faults = {"lost"}`: when an append raises after
its write, the counter of the session is not raised, and the closing record can
say "contained no tool calls" of a session that has a decision in the chain.

Fairness: `Proceed`, because asyncio continues a coroutine that is ready and
none of its steps waits for ever, and `Answer` for HTTP, because httpx is given
a timeout for every read (`provider_timeout_seconds`). Nothing forces a session
to end, and none is assumed to.

### What the violation says, and what else is seen

`mediation_denied`: only `get_buffered_events` takes events out of a collector,
and it is called only when a group passes. A denied group leaves its events
behind. The Anthropic collector looks at one content block, so they stay there;
the Gemini and OpenAI collectors have one buffer, so they go out in front of the
next allowed call, after the text that replaced them. `DeniedCallWithheld` holds
for the kinds in `mediation_http`; for these it is also proved (section 7).

A session's store is the one it got after the handshake. An operation revoked
during the session, and proposed after that, is still allowed by the approval,
although `docs/APPROVALS.md:26-27` subjects it to normal policy again. Streams have
the same gap, for as long as the provider takes. `StoreIsCurrent` therefore
counts from the request for the store.

### Seen on the way

The model keeps these as the code has them; no property forbids them. The
event that completes a call is put in the buffer and sent once more after the
buffer was flushed, so a Gemini chunk with a call arrives twice under one
decision. A Responses call is decided, and recorded, twice. When one of several
calls of a chat or Gemini event is denied its allowed siblings are dropped
although their records say ALLOW; hence `AllowedCallDelivered` speaks of `Plain`
and `Blocks` only. Events that a collector does not treat as part of a call pass
as they are, and what they carry is not modelled.

## 5. QualityGate: the quality service and the proxy's gate

`QualityGate.tla` models three processes: the proxy, which writes decisions and
asks the gate before each; the quality service, which follows the decision
chain and writes snapshots to its own; and whoever edits the rules, approves,
archives. One unit of time (`Tick`) is a heartbeat of the service.

| action | code |
|---|---|
| `StartLoaded`, `StartPolicy`, `StartGate` | the proxy's start reads the rules three times: for its record, for its decisions, for its gate |
| `Call` | `ProxyQualityGate.check` (`Verdict`, `Advances`), then the decision's record |
| `StartService`, `FinishStart` | `run_loop` up to the first snapshot, and from there to the file watcher |
| `Wake`, `Read`, `Snap` | one pass: event or timeout with the `stat`, read with verification, checks with a snapshot or none |
| `EditRules`, `Approve`, `ApprovalAges`, `ArchiveQuality` | the operator, time, and a size archive, whole or cut off before the genesis |
| `ProxyDies`, `ServiceDies` | deaths at any step |

`Verdict` has the code's returns in its order. `qa.pos` compares the latest
sequence with the highest the gate saw (-1, 0, 1); after an archive that was cut
off the numbering begins anew (`qa.low`) and passes through all three.

Records past `MaxChain` are not kept if they change no check (`Repeats`), so
that the proxy can be called without end: liveness would otherwise hold because
the chain is full.

| run | instance | shows | distinct states |
|---|---|---|---|
| `gate` | two versions of the rules, one edit, three records, one archive, any deaths | `DecisionsJudged`, `FindingShutsGate`, `EditSeenShutsGate`, `TypeOK` | 1.4 million |
| `parts` (with section 6) | one kept record, one edit, one archive, fairness | `NoCallOnStaleSnapshot`, `QuietHeartbeatsOpenGate` | see there |

Three records are the startup record, an approval and a decision that rests on
it, or two decisions of which the second is read twice. Fairness (`FairSpec`):
time passes and a live service goes on. Nobody has to call, start or edit.
`QuietHeartbeatsOpenGate` has the premise that passes after a timeout happen
again and again, because each file event starts the timeout anew and an event
alone writes no snapshot: a chain that is appended to in every heartbeat keeps
the gate shut for ever.

Seen on the way, and allowed by the properties:

* A decision carries the hash of the policy in memory
  (`scripts/policy_eval_v2.py:373`), whose `base_dirs` have had their placeholders
  replaced (`proxy/server.py:1173`); the service compares it with the hash of the
  file. With rules that hold placeholders, as the shipped
  `capabilities/policy-rules.json:185` does, `ENV-001` fails after the first
  decision although nobody edited anything, against the comment at
  `proxy/server.py:2585`. `Placeholders = TRUE` shows it; the runs use `FALSE`.
* An approval older than its limit, once used, shuts the gate until the service
  restarts, and again after it, because the decision is verified anew;
  `docs/APPROVALS.md:32-36` calls staleness a matter of display.
* The revocation check (`governance.rs:473`) looks for a name that the command's
  record (`atested_cli.py:1952`) does not have.
* After 200 records without a policy hash `ENV-001` passes whatever the rules are.
* A proxy that has just started takes any snapshot for fresh, however old, for
  one threshold of time.

## 6. Parts: sync, processes, restarts, verification

Four modules of moderate size are checked together with the liveness of the
gate. They share no lock and no record; what one does to another (a service is
stopped, a chain archived) is in the other's module as a step that may come at
any time. `Parts.tla` therefore lets a behaviour be one of one part
(`part`), with the fairness that part states; it is no claim about their
interleaving. Run `parts`: 0.7 million distinct states.

### RemoteSync

One remote and its primary. The remote's file is its first and last record and
the records that start a file; the cursor counts lines of the present file. A
call is a segment and the thread that handles it, which walks

    none -> opening -> opened -> admitted -> looked -> verified -> stored
         -> appended -> marking -> reporting -> answered

with `failed` from any check, `Lookup` and `Verify` jumping to `marking` for a
duplicate, and `opening`, `marking` and `reporting` each a load and a save of the
registry under no lock. The client may give up at any time that `Patient` allows:
`TRUE` means that its timeout (10 s by default) is longer than the primary takes.

| property | says |
|---|---|
| `LinkedImports` | no record is imported twice or left out between two imports, whatever is lost, retried, killed or archived (for a patient client) |
| `ConfirmedIsImported` | what the remote was told is received is imported and stored, also by a duplicate |
| `RemovedStaysOut` | after `machine_removed` is in the chain no call is imported that was not verified before |

Bounds: three records and three calls give a lost answer, a retry with more
records, and a call after it; one archive on each side, one death of the
service. The same holds with four records (542 thousand states of this part
alone), and the three properties are also proved without these bounds (section 7).

`sync_marks` (expected violation of `MarkedAfterReceipt`): the cursor is set to
the number of lines the chain has *after* the answer. A record appended during
the sync is counted as sent and never is; the next segment starts behind it, and
the primary refuses it and all later ones (`PREV_RECORD_HASH_MISMATCH`).

Seen on the way: a lost answer followed by growth of the chain, or a crash
between envelope and manifest, makes the retry another segment that does not
follow the imported tail, and sync stops for good (nothing is imported twice).
So does an archive of the remote's chain, whose genesis names no predecessor. An
archive of the primary's chain takes `machine_added` out of the live chain, and
every remote is refused, though its row is there and keeps it from being added
again. Refusals are not signed, so that the client raises
`PRIMARY_SIGNATURE_INVALID` and the degraded mode of `cmd_sync` is not entered. With
an impatient client two threads may verify against the same tail and import a
record twice.

### Supervisor

`sup` is the supervisor: starting services one after the other, waiting for
each, then its loop of poll, `status.json`, `managed-pids.json`; its stop flag is
read only there. `cli` is the command, one at a time and to its end. `stray` is
history: services a dead supervisor left, and whether `managed-pids.json` named
them.

| property | says |
|---|---|
| `StopLeavesNothing` | after a stop no supervisor and no service runs, but a service without a port that a supervisor left behind; before an archive none |
| `NoSecondService` | while a supervisor serves nothing runs twice, but a service without a port that was in no file |

Both exceptions are real. A supervisor that dies, or raises because a service is
not ready, before it first wrote `managed-pids.json`, leaves a quality service
that nothing finds, and the next start adds a second writer to the quality
chain. A supervisor that does not end in ten seconds is killed before it ended
its services, and `stop` finds the quality service only if `status.json` named it;
`archive` ends it by name, and the property shows that this is enough. Not
modelled: two starts at once, of which the second overwrites the pid file of the
first (`atested_cli.py:839`).

Both properties are also proved for any number of services of either sort and any
number of runs, deaths and exits.

Bounds: a service with a port and one without, two runs of the supervisor, one
death of a supervisor at any step, two exits of services.

### Restarts

One service under `ManagedService.poll`, in units of the loop's interval.
`Throttled`: at most `MaxRestarts + 1` starts in a window, also across a disable,
which clears the counter; this needs `InitialBackoff > Window`, as the constants
of the code have it (120 s against 60 s), named in `RestartConstants`.
`DownBounded`: a service is down no longer than its disables since the last run
of a window's length allow. The code keeps restart times as a list of clock
values; the model keeps the set of their ages, which is all that is compared
(no two polls fall into one unit of time).

### BackgroundVerifier

Trigger, lock directory, count, status file. `VerifiedAgain`: as long as the proxy
appends, the chain is verified again and again, after checks that raise, exports
and archives. The premise excludes a lock directory left by a dead process,
because nothing removes one (`background_verifier.py:123`): after that no
verification runs. After an archive the status file keeps the old count, so that
none is due until the new chain has outgrown it; the property holds because it
does so in the end.

Fairness: a thread that was started runs to its end.

## 7. Proofs

TLAPS checks what follows for every value of the constants. Eight modules hold
proofs; each starts from the named assumptions of its model and from nothing else.
Every invariant and every safety action property of the passing runs is the
subject of one of these theorems.

| theorem | for | says |
|---|---|---|
| `DecisionChainProofs!TypeCorrect` | any writers of each kind, any bounds | the variables stay in their ranges |
| `LockExcludes` | | at most one writer is inside the lock until a live one is robbed |
| `ChainStaysLinear`, `CheckpointStaysOnChain`, `NeverFalseAlarm` | | one line, the sidecar a point of it, no honest chain archived, while undisturbed |
| `ReleasedStays` | and at most one proxy | a record the proxy reported stays in an intact prefix of the chain or of an archive, also when locks are robbed and lines are cut |
| `ChainImplementsHashLog` | | `DecisionChain` implements `HashLog` |
| `ChainArchiveProofs!TypeCorrect` | any bounds | types |
| `SequencesGrow` | operator archives only | the quality chain never numbers backwards while its archives are whole |
| `AcknowledgedStays`, `QualityRestarts`, `NeverRefused` | operator archives only, no command among the writers | no reported record is lost, the quality service can start again, a serving proxy refuses nothing |
| `MediationProofs!TypeCorrect` | any requests, operations, policy and bounds | types |
| `DecidedBeforeDelivered`, `WholeBeforeSent` | | no call at the agent without a decision in the chain, no HTTP answer before each of its calls is decided |
| `ExchangesRecorded`, `AllowedDelivered` | | an answer goes out with its record; what was recorded as allowed arrives |
| `DeniedWithheld`, `DeniedWithheldApart` | `Plain`, `Blocks`, `Chats` | a call at the agent was allowed by a decision |
| `SummaryTrue` | failures that lose the record | what a session's last record says of its calls is so |
| `StoreCurrent` | a clock that separates appends | a decision rests on the approvals of the time the store was asked for, or later |
| `QualityGateProofs!TypeCorrect`, `JudgesDecisions` | any rules, thresholds and bounds | types; no decision is passed over and none accused falsely |
| `FindingShuts`, `EditShuts`, `StaleShuts` | | action properties: no call gets past a finding, seen edits, or a stale snapshot |
| `RemoteSyncProofs!TypeCorrect` | any number of records, calls, archives, deaths | types |
| `ImportsLinked` | and a patient client | each imported segment begins where the one before it ended |
| `ReceiptsTrue` | | what the remote was told is received is imported and stored |
| `RemovalFinal` | | after a recorded removal no segment gets past its check |
| `SupervisorProofs!TypeCorrect`, `StopComplete`, `NoneTwice` | any services with and without ports | types; nothing runs after a stop; nothing runs twice |
| `RestartsProofs!TypeCorrect`, `StartsThrottled`, `DownNoLonger` | any limits with a backoff longer than the window | types; starts in a window, time down |
| `PartsProofs!Parts...` | | the same properties of the composition that the run `parts` checks, for each part |

**DecisionChain** (`DisjointKinds`, `MarkersAreNotWriters`, `BoundsAreNat`).
`MutualExclusion` looks at writers only; `HolderInv` adds that the directory a
writer inside the lock sees is its own. `LinearChain` says nothing of what a
writer has read: `ChainInv` adds that a writer about to write holds the hash of
the tail, that each summary, saved or about to be, is a point of the chain, and
that no writer is on its way to an archive. Both history variables are never
reset (`TrustIsLostForGood`), so that the step may assume them. The refinement
then maps `WriteLine` to `Grow`, the loss of trust to `LoseTrust`, and every other
step to a stutter.

`ReleasedOnIntactPrefix` makes no such assumption: the lock may be robbed, the
chain forked, the line of another writer cut short. Its invariant (`ReleaseInv`)
follows a record from the file to the report: the proxy that has written
its line finds it in the chain or the chain unsound; once the sum has found the
chain sound the line is in an intact prefix of a file (`OnDisk`), or it is the one
that lost its newline and nothing else (`BareIsClipped`). Files only grow or move, so that a line once on disk stays there
(`DiskStays`, `ClippedStays`), and what is invalid stays so (`InvalidStays`). The
hypothesis of one proxy is needed. With two, TLC finds this: *p* writes part of a
line; *q* crashes, starts again, finds the chain unsound and archives it, outside
the lock (`verify_startup_chain`, `proxy/server.py:2379`); *p* sums up the empty file
that is left, finds nothing wrong, and reports the record. Nothing in the code
keeps a second proxy from the same chain but the port it binds later.

**ChainArchive**. `QaKept`: what the quality service has in memory is the end of its
file, what the operator's archive has measured is the sequence of a file nobody
writes, and a file that is moved is empty until its genesis. `DecisionKept` says the
like of the decision chain for each writer at work (`WriterKept`), and that the
checkpoint is never ahead of a chain the running proxy serves (`Counted`). Both rest
on `Stops`: while the operator archives no service is up. Who else archives or
writes is a hypothesis of the theorems (`OnlyServicesWrite`), as it is the
configuration of the run `archive_operator`; with size archives, or with a command
among the writers, TLC finds the properties false (section 3).

**Mediation** (`RequestKinds`, `FiniteOps`, `GateValues`, `FaultValues`, `Flags`,
`MediationBounds`). What the agent holds is decided because it was released from
the group, and the group because of its loop: the invariant follows a call from
the provider (`ProposedDecided`) through the buffer (`HeldDecided`), the group
(`GroupDecided`) and the answer (`OutDecided`, `SentDecided`); each may lack a
decision only while the handler holds the loop with the call still to do
(`InHand`), and `LoopHolder` says which handler that is. The second invariant
(`AllGood`) says for each request what its label implies: what was withheld, what
was traced in the chain, and which store it has; the steps of one request leave
it true of all others, because they share the chain, which only grows, and the
cache. For `StoreIsCurrent` the cache is behind the file or holds what the file
holds (`Coherent`), and a handler past its request has the store of some prefix of
the chain at least as long as the chain was then (`StoreFrom`).

**QualityGate** (`GateConstants`). `DecisionsJudged` holds because the offset is
taken from the `stat` before the read: the invariant bounds the offset by the stat,
the stat by the chain, and says that what lies before the offset is verified,
skipped or among the records at hand. The gate's memory is tied to the snapshot
it came from: what the latest snapshot counts as judged was judged, and once the
service looked at edited rules every snapshot that the gate may take for a new one
has them. `NoCallOnStaleSnapshot` needs that `seen`, the true age, is never more
than what the gate believes, also when the numbering begins anew below the highest
sequence the gate remembers.

**RemoteSync** (`SyncConstants`, the hypothesis of each theorem). `Sent`: segments
lie in what the remote wrote, and calls that were not begun have no thread.
`Kept`: what a thread's label and a manifest rely on is stored and in the chain;
with it `ConfirmedIsImported` is inductive, because `Receive` reads a label that
was only reached by an own envelope or by one a manifest names. `Late`: a removal
is final, so that `Verify` fails whatever row a thread has saved. `Links`: while
the machine is authorized no envelope is archived, so that the tail that a
segment was compared with is the last envelope; with a patient client no second
thread is at work (`Alone`), so that it still is when the envelope is appended
(`Verified`). TLC checked each part on the instances of `parts` first, with a
patient and with an impatient client.

**Supervisor** (`SupervisorConstants`). A process has a parent or was left behind by
one (`Owned`); one that was left behind and named in the file is ended before the
next supervisor serves (`Cleaned`), one with a port waits there until its service is
started again (`Ports`), and a stop that went past the supervisor's end has none
running (`Labels`), so that what its sweep found is all there was (`Swept`).

**Restarts** (`RestartConstants`). `Throttled` is about starts, the code counts
restarts, and a disable empties the count: `Counts` says that all starts in the
window but one are counted restarts, and that while the service is disabled its
starts will have left the window before the wait is over, because the backoff is
longer than the window. `Bounded` ties backoff and wait to the number of disables,
of which `Doubled` is the length. `Doubled` is a recursive function: that it exists
and what its values are takes induction, which the proofs do by the least number
that would be an exception (`LeastNumber`, from the library's theorem on well-founded
relations). `QualityGateProofs` and `RestartsProofs` use no other induction over data.

**Parts**. A behaviour of `Parts` is one of one part while the others stand still, so
that each part's `Spec` is implied (`SyncImplemented`, `ProcessesImplemented`,
`RestartsImplemented`, `GateImplemented`); the proof modules of the parts are
instantiated and their theorems cited. Their assumptions about constants are
operators (`SyncConstants`, `GateConstants`, ...) for that reason, and follow from
`PartConstants`.

Only model-checked is what the prover cannot do, liveness under fairness:
`AppendTerminates`, `StaleLockBroken`, `TamperResponseHeals`, `HttpRequestEnds`,
`LoopIsGivenBack`, `VerifiedAgain`, `QuietHeartbeatsOpenGate`; and the three
properties that the violation runs refute.

## 8. Not modelled

Parts without state of their own, presentation, cryptography and string
matching, as the inventory says. Inside `DecisionChain`: the sidecar's self-hash
and the sentinel file (only a foreign edit changes them), the threads of one
process (they share a lock and act as one writer), and the content of records.
Inside `Mediation`: classification and policy rules (a constant set of allowed
operations), the scopes, patterns, signatures and sidecar files of approvals, the
requests that are refused before they reach a provider, the handlers without a
provider (`_handle_client` no longer calls them), text and fragments of calls,
and a `stat` of the chain that fails and makes the proxy use the store it has.

Inside `QualityGate`: the environment checks that cannot change while the system
runs, statistics, and the report of the supervisor, which is taken to be true.
Inside `RemoteSync`: telemetry, the state bundle, versions, keys, the number of an
import (nothing depends on it), the import of archived segments, and other
remotes, which share nothing with this one but the registry.

Parts with state that are left out:

* The admission boundary: a counter under a lock. One event loop takes a lease
  without an await between test and count and gives it back in one `finally`
  (`proxy/server.py:2277`); the dependency states have no writer outside tests.
* The session store: two processes replace one file. A lost update is possible,
  and nothing in the code or its documents promises that there is none.
* Code hashes and their acknowledgement: read, compared and recorded; nothing
  else depends on the answer.

What keeps most of the code outside: the classifier and the policy evaluator are
string matching over command lines, `readout`, `unified_readout`, the dashboard
and most of the command line read chains and print, reach lite and the
attestation validators are sequential programs over their own files, and the
archived MCP server is no longer started.

## 9. Plan

1. `HashLog`, `DecisionChain`, `DecisionChainProofs` (done).
2. `ChainArchive`, `ChainArchiveProofs` (done).
3. `Mediation`, `MediationProofs`, with the approval store (done).
4. `QualityGate`, `QualityGateProofs` (done).
5. `RemoteSync`, `Supervisor`, `Restarts`, `BackgroundVerifier`, `Parts` and their
   proofs (done).
6. Open: that the three steps of a writer in `ChainArchive` and the one append of
   `Mediation` are what `DecisionChain` promises, as refinements. `Mediation` takes the
   gate as a choice from `Gates` where the code has the `Verdict` of `QualityGate`.
