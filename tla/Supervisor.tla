----------------------------- MODULE Supervisor -----------------------------
(***************************************************************************)
(* The processes of one installation: the supervisor                        *)
(* (scripts/process_supervisor.py) that starts the services, restarts them  *)
(* and ends them, and the commands start, stop and archive                  *)
(* (scripts/atested_cli.py) that start and end the supervisor.              *)
(*                                                                          *)
(* What a process leaves when it dies is found again only through files:    *)
(* status.json and services.json, which a stop collects its victims from,   *)
(* and managed-pids.json, which the next supervisor does; and through the   *)
(* ports that are taken.  A service without a port has only the files.      *)
(*                                                                          *)
(* Abstractions.  One command runs at a time and to its end, so that the    *)
(* pid file names the one supervisor there is; process numbers are not      *)
(* reused; SIGKILL succeeds; a service whose port is taken by another       *)
(* process exits like any other.  All services wait for a ready file, as    *)
(* the proxy and the quality service do.  How often a service is restarted  *)
(* is in Restarts.                                                          *)
(***************************************************************************)
EXTENDS Integers, Sequences, FiniteSets

CONSTANTS
  Services,   \* the services, in the order in which they are started
  WithPort,   \* those that bind a port
  MaxRuns,    \* bound: runs of the supervisor
  MaxDeaths,  \* bound: deaths of a supervisor
  MaxExits    \* bound: exits of service processes

\* Assumed where the module is instantiated (Parts).
SupervisorConstants ==
  /\ Services \in Seq({Services[i] : i \in DOMAIN Services}) /\ Len(Services) > 0
  /\ \A i, j \in DOMAIN Services : Services[i] = Services[j] => i = j
  /\ WithPort \subseteq {Services[i] : i \in DOMAIN Services}
  /\ MaxRuns \in Nat /\ MaxDeaths \in Nat /\ MaxExits \in Nat

VARIABLES
  run,     \* number of the latest supervisor
  sup,     \* its step, the service it starts, its stop flag, its children
  procs,   \* the service processes that run
  status,  \* the processes status.json names
  listed,  \* the processes services.json names
  named,   \* the processes managed-pids.json names
  cli,     \* the command: its step, stop or archive, the processes it collected
  stray,   \* history: children a supervisor left behind, and were they named
  started, \* number of processes started
  deaths,  \* deaths of a supervisor so far
  exits    \* exits of service processes so far

vars == <<run, sup, procs, status, listed, named, cli, stray, started, deaths, exits>>

-----------------------------------------------------------------------------
Ended == [pc |-> "none", k |-> 0, stop |-> FALSE, children |-> {}]

Running == sup.pc # "none"

Of(service) == {p \in procs : p.service = service}

\* A supervisor that does not come to its finally clause ends.
Abandons ==
  /\ sup' = Ended
  /\ stray' = stray \cup {<<p, p \in named>> : p \in sup.children \cap procs}

Init ==
  /\ run = 0 /\ sup = Ended
  /\ procs = {} /\ status = {} /\ listed = {} /\ named = {}
  /\ cli = [pc |-> "idle", op |-> "none", collected |-> {}]
  /\ stray = {} /\ started = 0 /\ deaths = 0 /\ exits = 0

-----------------------------------------------------------------------------
(* The supervisor *)

\* Mutant: what an earlier supervisor left behind is not looked for.
CleanupNothing ==
  /\ sup.pc = "launched"
  /\ sup' = [sup EXCEPT !.pc = "starting", !.k = 1]
  /\ UNCHANGED <<run, procs, status, listed, named, cli, stray, started, deaths, exits>>

\* cleanup_prior_run_orphans
Cleanup ==
  /\ sup.pc = "launched"
  /\ sup' = [sup EXCEPT !.pc = "starting", !.k = 1]
  /\ procs' = procs \ named
  /\ UNCHANGED <<run, status, listed, named, cli, stray, started, deaths, exits>>

\* clear_orphan_on_port: none of the processes on the port is its own.
OrphansOnPort(service) == IF service \in WithPort THEN Of(service) ELSE {}

\* ManagedService.start, of the services in S.
Started(S) == {[service |-> s, by |-> run, number |-> started + 1] : s \in S}

StartNext ==
  /\ sup.pc = "starting"
  /\ LET service == Services[sup.k]
     IN  /\ procs' = (procs \ OrphansOnPort(service)) \cup Started({service})
         /\ sup' = [sup EXCEPT !.pc = "waiting", !.children = @ \cup Started({service})]
  /\ started' = started + 1
  /\ UNCHANGED <<run, status, listed, named, cli, stray, deaths, exits>>

\* The service has signalled that it is ready, whatever became of it then;
\* write_status.
Ready ==
  /\ sup.pc = "waiting"
  /\ status' = sup.children /\ listed' = sup.children
  /\ sup' = [sup EXCEPT !.pc = IF sup.k = Len(Services) THEN "loop" ELSE "starting",
                        !.k = IF sup.k = Len(Services) THEN 0 ELSE @ + 1]
  /\ UNCHANGED <<run, procs, named, cli, stray, started, deaths, exits>>

\* It exits before, or is not ready in time: RuntimeError, before the try.
StartupFails ==
  /\ sup.pc = "waiting"
  /\ Abandons
  /\ UNCHANGED <<run, procs, status, listed, named, cli, started, deaths, exits>>

\* service.poll() of every service: one that exited is started again, unless it
\* has done so too often.
Poll ==
  /\ sup.pc = "loop" /\ ~sup.stop
  /\ LET gone == {c.service : c \in sup.children \ procs}
         down == {Services[i] : i \in DOMAIN Services} \ {c.service : c \in sup.children}
     IN  \E again \in SUBSET (gone \cup down) :
           /\ procs' = procs \cup Started(again)
           /\ sup' = [sup EXCEPT !.pc = "polled",
                                 !.children = (@ \cap procs) \cup Started(again)]
           /\ started' = started + (IF again = {} THEN 0 ELSE 1)
  /\ UNCHANGED <<run, status, listed, named, cli, stray, deaths, exits>>

\* write_status in the loop
WriteStatus ==
  /\ sup.pc = "polled"
  /\ status' = sup.children /\ listed' = sup.children
  /\ sup' = [sup EXCEPT !.pc = "reported"]
  /\ UNCHANGED <<run, procs, named, cli, stray, started, deaths, exits>>

WriteManagedPids ==
  /\ sup.pc = "reported"
  /\ named' = sup.children \cap procs
  /\ sup' = [sup EXCEPT !.pc = "loop"]
  /\ UNCHANGED <<run, procs, status, listed, cli, stray, started, deaths, exits>>

\* The finally clause, one child after the other.
EndChild ==
  /\ sup.pc = "loop" /\ sup.stop
  /\ \E c \in sup.children \cap procs : procs' = procs \ {c}
  /\ UNCHANGED <<run, sup, status, listed, named, cli, stray, started, deaths, exits>>

\* When none is left, the files; the processes write_status names have exited.
EndFiles ==
  /\ sup.pc = "loop" /\ sup.stop /\ sup.children \cap procs = {}
  /\ sup' = Ended
  /\ status' = {} /\ listed' = {} /\ named' = {}
  /\ UNCHANGED <<run, procs, cli, stray, started, deaths, exits>>

SupervisorDies ==
  /\ Running /\ deaths < MaxDeaths
  /\ deaths' = deaths + 1
  /\ Abandons
  /\ UNCHANGED <<run, procs, status, listed, named, cli, started, exits>>

ServiceExits ==
  /\ exits < MaxExits
  /\ \E p \in procs : procs' = procs \ {p}
  /\ exits' = exits + 1
  /\ UNCHANGED <<run, sup, status, listed, named, cli, stray, started, deaths>>

-----------------------------------------------------------------------------
(* The commands *)

\* _start_supervisor, unless one is running: services.json, then the process.
Start ==
  /\ cli.pc = "idle" /\ ~Running /\ run < MaxRuns
  /\ run' = run + 1
  /\ sup' = [Ended EXCEPT !.pc = "launched"]
  /\ cli' = [cli EXCEPT !.pc = "launched"]
  /\ listed' = {}
  /\ UNCHANGED <<procs, status, named, stray, started, deaths, exits>>

\* status.json without services, written while the supervisor starts.
StartRecords ==
  /\ cli.pc = "launched"
  /\ status' = {}
  /\ cli' = [cli EXCEPT !.pc = "idle"]
  /\ UNCHANGED <<run, sup, procs, listed, named, stray, started, deaths, exits>>

\* _collect_recorded_services: for each service what status.json says, else what
\* services.json does.
Collected == status \cup {p \in listed : \A q \in status : q.service # p.service}

\* cmd_stop and cmd_archive begin with it.
Collect(op) ==
  /\ cli.pc = "idle"
  /\ cli' = [pc |-> "stopping", op |-> op, collected |-> Collected]
  /\ UNCHANGED <<run, sup, procs, status, listed, named, stray, started, deaths, exits>>

\* _stop_supervisor: SIGTERM.  It ends one that has no handler yet, which comes
\* after Cleanup; to others it is a flag, which only the loop reads.
Signal ==
  /\ cli.pc = "stopping" /\ Running
  /\ cli' = [cli EXCEPT !.pc = "waiting"]
  /\ \/ sup.children = {} /\ Abandons
     \/ sup.pc # "launched" /\ sup' = [sup EXCEPT !.stop = TRUE] /\ UNCHANGED stray
  /\ UNCHANGED <<run, procs, status, listed, named, started, deaths, exits>>

\* Mutant: SIGTERM is enough.
GoneInTimeOrNot ==
  /\ cli.pc = "waiting"
  /\ cli' = [cli EXCEPT !.pc = "victims"]
  /\ status' = {} /\ listed' = {}
  /\ UNCHANGED <<run, sup, procs, named, stray, started, deaths, exits>>

\* It ends in ten seconds, or SIGKILL.
GoneOrKilled ==
  /\ cli.pc = "waiting"
  /\ cli' = [cli EXCEPT !.pc = "victims"]
  /\ status' = {} /\ listed' = {}
  /\ IF Running THEN Abandons ELSE UNCHANGED <<sup, stray>>
  /\ UNCHANGED <<run, procs, named, started, deaths, exits>>

NotRunning ==
  /\ cli.pc = "stopping" /\ ~Running
  /\ cli' = [cli EXCEPT !.pc = "victims"]
  /\ status' = {} /\ listed' = {}
  /\ UNCHANGED <<run, sup, procs, named, stray, started, deaths, exits>>

\* _stop_recorded_services
StopRecorded ==
  /\ cli.pc = "victims"
  /\ procs' = procs \ cli.collected
  /\ cli' = [cli EXCEPT !.pc = "ports", !.collected = {}]
  /\ listed' = {}
  /\ UNCHANGED <<run, sup, status, named, stray, started, deaths, exits>>

\* _sweep_orphan_ports; then, for an archive only, _terminate_quality_service,
\* which ends the services that have no port.
SweepPorts ==
  /\ cli.pc = "ports"
  /\ procs' = procs \ UNION {OrphansOnPort(s) : s \in WithPort}
  /\ cli' = [cli EXCEPT !.pc = IF cli.op = "archive" THEN "portless" ELSE "done"]
  /\ UNCHANGED <<run, sup, status, listed, named, stray, started, deaths, exits>>

EndPortless ==
  /\ cli.pc = "portless"
  /\ procs' = {p \in procs : p.service \in WithPort}
  /\ cli' = [cli EXCEPT !.pc = "done"]
  /\ UNCHANGED <<run, sup, status, listed, named, stray, started, deaths, exits>>

\* The chains are archived, if that was the command, and it returns.
Done ==
  /\ cli.pc = "done"
  /\ cli' = [cli EXCEPT !.pc = "idle", !.op = "none"]
  /\ UNCHANGED <<run, sup, procs, status, listed, named, stray, started, deaths, exits>>

-----------------------------------------------------------------------------
Next ==
  \/ Cleanup \/ StartNext \/ Ready \/ StartupFails
  \/ Poll \/ WriteStatus \/ WriteManagedPids \/ EndChild \/ EndFiles
  \/ SupervisorDies \/ ServiceExits
  \/ Start \/ StartRecords
  \/ \E op \in {"stop", "archive"} : Collect(op)
  \/ Signal \/ GoneOrKilled \/ NotRunning \/ StopRecorded \/ SweepPorts \/ EndPortless \/ Done

Spec == Init /\ [][Next]_vars

-----------------------------------------------------------------------------
(* Properties *)

\* Every variable has the values its comment says.
TypeOK ==
  /\ run \in 0..MaxRuns
  /\ sup.pc \in {"none", "launched", "starting", "waiting", "loop", "polled", "reported"}
  /\ sup.k \in 0..Len(Services) /\ sup.stop \in BOOLEAN
  /\ \A p \in procs \cup status \cup listed \cup named \cup sup.children \cup cli.collected
          \cup {entry[1] : entry \in stray} :
       /\ p.service \in {Services[i] : i \in DOMAIN Services}
       /\ p.by \in 1..run /\ p.number \in 1..started
  /\ cli.pc \in {"idle", "launched", "stopping", "waiting", "victims", "ports", "portless", "done"}
  /\ cli.op \in {"none", "stop", "archive"}
  /\ deaths \in 0..MaxDeaths /\ exits \in 0..MaxExits

\* When a stop is done there is no supervisor, whatever step it was at, and no
\* service runs but one without a port that a supervisor left behind; before
\* chains are archived none runs at all.
StopLeavesNothing ==
  cli.pc = "done" =>
    /\ ~Running
    /\ \A p \in procs :
         p.service \notin WithPort /\ cli.op = "stop" /\ \E inFile \in BOOLEAN : <<p, inFile>> \in stray

\* While a supervisor serves, no service runs twice: what earlier supervisors
\* left behind was ended, by the file or by the port, but for a service without
\* a port that was in no file.
NoSecondService ==
  sup.pc \in {"loop", "polled", "reported"} =>
    \A p \in procs : p \in sup.children \/ (p.service \notin WithPort /\ <<p, FALSE>> \in stray)

=============================================================================
