------------------------------- MODULE Parts -------------------------------
(***************************************************************************)
(* Five parts of the system checked side by side: the synchronisation of a  *)
(* remote machine, the supervisor and its processes, the restarts of one    *)
(* service, the verification in the background, and the quality service     *)
(* with the gate.                                                           *)
(*                                                                          *)
(* They share no lock and no record.  What one does to another (a service   *)
(* is stopped, a chain archived) is in the other's module as a step that    *)
(* may come at any time, so that interleaving them would show nothing: a    *)
(* behaviour is one of one part, and the others stay as they are.           *)
(***************************************************************************)
EXTENDS Integers, Sequences, FiniteSets

CONSTANTS
  Patient, MaxRecords, MaxCalls, MaxRolls, MaxCuts, MaxCrashes,  \* RemoteSync
  Services, WithPort, MaxRuns, MaxDeaths, MaxExits,              \* Supervisor
  MaxRestarts, Window, InitialBackoff, MaxBackoff,               \* Restarts
  Threads, Every, Deep, MaxCuttings, MaxHalts,                   \* BackgroundVerifier
  Rules, Placeholders, QueueDepth, TailRecords, StaleCycles,
  MaxChain, MaxEdits, MaxArchives, None                          \* QualityGate

VARIABLES
  part,  \* the part that moves
  remote, client, confirmed, handler, imports, cut, stored, manifest,
  registry, events, crashes,
  run, sup, procs, status, listed, named, cli, stray, started, deaths, exits,
  polled, service, upFor, times, disabled, wait, backoff, starts, downFor, trips,
  lag, counted, thread, lock, archives, halts,
  chain, disk, edits, approval, proxy, event, watcher, qa, gate, seen, looked

Sync == INSTANCE RemoteSync
Processes == INSTANCE Supervisor
OneService == INSTANCE Restarts
Verifier == INSTANCE BackgroundVerifier WITH
  MaxDeaths <- MaxHalts, MaxArchives <- MaxCuttings, deaths <- halts
Quality == INSTANCE QualityGate WITH service <- watcher

\* What each part asks of its constants.
ASSUME PartConstants ==
  /\ Sync!SyncConstants /\ Processes!SupervisorConstants
  /\ OneService!RestartConstants /\ Verifier!VerifierConstants
  /\ Quality!GateConstants

syncVars == <<remote, client, confirmed, handler, imports, cut, stored, manifest,
              registry, events, crashes>>
processVars == <<run, sup, procs, status, listed, named, cli, stray, started, deaths, exits>>
serviceVars == <<polled, service, upFor, times, disabled, wait, backoff, starts, downFor, trips>>
verifierVars == <<lag, counted, thread, lock, archives, halts>>
gateVars == <<chain, disk, edits, approval, proxy, event, watcher, qa, gate, seen, looked>>

vars == <<part, syncVars, processVars, serviceVars, verifierVars, gateVars>>

-----------------------------------------------------------------------------
Init ==
  /\ part \in {"sync", "processes", "service", "verifier", "gate"}
  /\ Sync!Init /\ Processes!Init /\ OneService!Init /\ Verifier!Init /\ Quality!Init
  /\ part # "gate" => disk = CHOOSE r \in Rules : TRUE

Next ==
  /\ UNCHANGED part
  /\ \/ /\ part = "sync" /\ Sync!Next
        /\ UNCHANGED <<processVars, serviceVars, verifierVars, gateVars>>
     \/ /\ part = "processes" /\ Processes!Next
        /\ UNCHANGED <<syncVars, serviceVars, verifierVars, gateVars>>
     \/ /\ part = "service" /\ OneService!Next
        /\ UNCHANGED <<syncVars, processVars, verifierVars, gateVars>>
     \/ /\ part = "verifier" /\ Verifier!Next
        /\ UNCHANGED <<syncVars, processVars, serviceVars, gateVars>>
     \/ /\ part = "gate" /\ Quality!Next
        /\ UNCHANGED <<syncVars, processVars, serviceVars, verifierVars>>

\* Steps of one part, and no step of another.
VerifierSteps(t) ==
  /\ part = "verifier" /\ Verifier!Steps(t)
  /\ UNCHANGED <<part, syncVars, processVars, serviceVars, gateVars>>

GateSteps(A) ==
  /\ part = "gate" /\ A
  /\ UNCHANGED <<part, syncVars, processVars, serviceVars, verifierVars>>

\* The fairness of BackgroundVerifier and QualityGate, the parts that state any.
FairSpec ==
  /\ Init /\ [][Next]_vars
  /\ \A t \in Verifier!Runners : WF_vars(VerifierSteps(t))
  /\ WF_vars(GateSteps(Quality!Tick)) /\ WF_vars(GateSteps(Quality!ServiceSteps))

-----------------------------------------------------------------------------
(* Properties: those of the parts, where their formulas are.               *)

\* Every variable has the values its comment says.
TypeOK == Sync!TypeOK /\ Processes!TypeOK /\ OneService!TypeOK /\ Verifier!TypeOK
          /\ Quality!TypeOK

\* Each imported segment begins where the one before it ended, whatever answers
\* are lost, retried or cut short by a crash (remote_import.py).
LinkedImports == Sync!LinkedImports

\* What the remote was told is received lies in an imported segment that is
\* stored, also when it was told so by a duplicate (remote_import.py).
ConfirmedIsImported == Sync!ConfirmedIsImported

\* A machine whose removal is recorded imports nothing that was not verified
\* before, although threads save the registry they loaded earlier
\* (sync_service.py, machine_identity.py).
RemovedStaysOut == Sync!RemovedStaysOut

\* After a stop no supervisor runs, and no service but one without a port that a
\* supervisor left behind; before an archive none runs (atested_cli.py).
StopLeavesNothing == Processes!StopLeavesNothing

\* While a supervisor serves no service runs twice, except one without a port
\* that died unnamed with an earlier supervisor (process_supervisor.py).
NoSecondService == Processes!NoSecondService

\* No service is started more than MaxRestarts + 1 times in a window, also
\* across a disable that resets the counter (process_supervisor.py).
Throttled == OneService!Throttled

\* No service is down longer than its disables since the last clean run allow
\* (process_supervisor.py).
DownBounded == OneService!DownBounded

\* While the proxy appends, the chain is verified again and again, unless a
\* process died holding the verifier's lock (background_verifier.py).
VerifiedAgain == part = "verifier" => Verifier!VerifiedAgain

\* No call is let through on a snapshot that the gate has known for StaleCycles
\* heartbeats, also across an archive of the quality chain (qa_gate.py).
NoCallOnStaleSnapshot == Quality!NoCallOnStaleSnapshot

\* Where nothing is wrong and heartbeats pass without file events, the gate is
\* open again and again (service.rs, qa_gate.py).
QuietHeartbeatsOpenGate == part = "gate" => Quality!QuietHeartbeatsOpenGate

=============================================================================
