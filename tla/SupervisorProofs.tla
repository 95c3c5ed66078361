-------------------------- MODULE SupervisorProofs --------------------------
(* Proofs about Supervisor, for any list of services, any of them with a      *)
(* port, and any number of runs, deaths and exits.                            *)
EXTENDS Supervisor, TLAPS

Serving == {"starting", "waiting", "loop", "polled", "reported"}
\* The steps of a command that has made sure of the supervisor's end.
After == {"victims", "ports", "portless", "done"}
Names == {Services[i] : i \in DOMAIN Services}

\* The fields of the two records.
Shapes ==
  /\ sup = [pc |-> sup.pc, k |-> sup.k, stop |-> sup.stop, children |-> sup.children]
  /\ cli = [pc |-> cli.pc, op |-> cli.op, collected |-> cli.collected]

\* A supervisor that does not serve has no children, and none runs once a stop
\* has seen it end.
Labels ==
  /\ sup.pc \in Serving \cup {"none", "launched"}
  /\ sup.pc \notin Serving => sup.children = {}
  /\ cli.pc \in After \cup {"idle", "launched", "stopping", "waiting"}
  /\ cli.op \in {"none", "stop", "archive"}
  /\ cli.pc \in After \cup {"stopping", "waiting"} => cli.op \in {"stop", "archive"}
  /\ cli.pc \in After => ~Running

\* The place in the list of services.
Places ==
  /\ sup.k \in 0..Len(Services)
  /\ sup.pc \in {"starting", "waiting"} => sup.k \in 1..Len(Services)
Flag == sup.stop \in BOOLEAN

Counters ==
  /\ run \in 0..MaxRuns /\ started \in Nat
  /\ Running => run \in 1..MaxRuns
  /\ deaths \in 0..MaxDeaths /\ exits \in 0..MaxExits

\* Every process anything names was started for a service by some supervisor.
Known(p) == p.service \in Names /\ p.by \in 1..run /\ p.number \in 1..started
AllKnown ==
  /\ \A p \in procs \cup sup.children : Known(p)
  /\ \A p \in status \cup listed \cup named \cup cli.collected : Known(p)
  /\ \A entry \in stray : Known(entry[1])

\* Every process has a parent, or was left behind by one.
Owned == \A p \in procs : p \in sup.children \/ \E f \in BOOLEAN : <<p, f>> \in stray

\* What was left behind and was in the file is ended before the next supervisor
\* serves.
Cleaned ==
  \A p \in procs : \/ <<p, FALSE>> \in stray
                   \/ IF sup.pc \in Serving THEN p \in sup.children ELSE p \in named

\* What was left behind on a port waits for its service to be started again.
Ports ==
  sup.pc \in Serving => \A p \in procs \ sup.children : p.service \in WithPort =>
    \E i \in DOMAIN Services :
      /\ Services[i] = p.service
      /\ IF sup.pc = "starting" THEN i >= sup.k ELSE sup.pc = "waiting" /\ i > sup.k

\* The ports are free after the sweep, and nothing runs before an archive.
Swept ==
  /\ cli.pc \in {"portless", "done"} => \A p \in procs : p.service \notin WithPort
  /\ cli.pc = "done" /\ cli.op = "archive" => procs = {}

IInv ==
  /\ Shapes /\ Labels /\ Places /\ Flag /\ Counters /\ AllKnown
  /\ Owned /\ Cleaned /\ Ports /\ Swept

-----------------------------------------------------------------------------
(* One lemma for each part, one step for each kind of action.                *)

\* The records keep their fields.
LEMMA ShapesStep == ASSUME Shapes, [Next]_vars PROVE Shapes'
<1>1. CASE Cleanup \/ StartNext \/ Ready \/ Poll \/ WriteStatus \/ WriteManagedPids
  BY <1>1 DEF Cleanup, StartNext, Ready, Poll, WriteStatus, WriteManagedPids, Shapes
<1>2. CASE EndChild \/ EndFiles \/ ServiceExits \/ UNCHANGED vars
  BY <1>2 DEF EndChild, EndFiles, Ended, ServiceExits, vars, Shapes
<1>3. CASE StartupFails \/ SupervisorDies \/ Signal \/ GoneOrKilled
  BY <1>3 DEF StartupFails, SupervisorDies, Signal, GoneOrKilled, Abandons, Ended, Shapes
<1>4. CASE Start \/ StartRecords \/ (\E op \in {"stop", "archive"} : Collect(op)) \/ NotRunning
  BY <1>4 DEF Start, Ended, StartRecords, Collect, NotRunning, Shapes
<1>5. CASE StopRecorded \/ SweepPorts \/ EndPortless \/ Done
  BY <1>5 DEF StopRecorded, SweepPorts, EndPortless, Done, Shapes
<1>6. QED
  BY <1>1, <1>2, <1>3, <1>4, <1>5 DEF Next

\* A command goes on only without a supervisor.
LEMMA LabelsStep == ASSUME Shapes, Labels, [Next]_vars PROVE Labels'
<1>1. CASE Cleanup \/ StartNext \/ Ready \/ Poll \/ WriteStatus \/ WriteManagedPids
  BY <1>1 DEF Cleanup, StartNext, Ready, Poll, WriteStatus, WriteManagedPids, Shapes, Labels,
     Serving, Running
<1>2. CASE EndChild \/ EndFiles \/ ServiceExits \/ UNCHANGED vars
  BY <1>2 DEF EndChild, EndFiles, Ended, ServiceExits, vars, Shapes, Labels, Serving, Running
<1>3. CASE StartupFails \/ SupervisorDies
  BY <1>3 DEF StartupFails, SupervisorDies, Abandons, Ended, Shapes, Labels, Serving, Running
<1>4. CASE Signal \/ GoneOrKilled
  BY <1>4 DEF Signal, GoneOrKilled, Abandons, Ended, Shapes, Labels, Serving, After, Running
<1>5. CASE Start \/ StartRecords \/ (\E op \in {"stop", "archive"} : Collect(op)) \/ NotRunning
  BY <1>5 DEF Start, Ended, StartRecords, Collect, NotRunning, Shapes, Labels, Serving, After,
     Running
<1>6. CASE StopRecorded \/ SweepPorts \/ EndPortless \/ Done
  BY <1>6 DEF StopRecorded, SweepPorts, EndPortless, Done, Shapes, Labels, Serving, After, Running
<1>7. QED
  BY <1>1, <1>2, <1>3, <1>4, <1>5, <1>6 DEF Next

\* The supervisor walks through the list of services once.
LEMMA PlacesStep ==
  ASSUME SupervisorConstants, Shapes, Places, [Next]_vars
  PROVE  Places'
<1>c. Len(Services) \in Nat \ {0}
  BY DEF SupervisorConstants
<1>1. CASE Cleanup
  BY <1>c, <1>1 DEF Cleanup, Shapes, Places
<1>2. CASE StartNext \/ Poll \/ WriteStatus \/ WriteManagedPids
  <2>1. /\ sup'.k = sup.k /\ sup'.pc \in {"waiting", "polled", "reported", "loop"}
        /\ sup'.pc = "waiting" => sup.pc = "starting"
    BY <1>2 DEF StartNext, Poll, WriteStatus, WriteManagedPids, Shapes
  <2>2. QED
    BY <2>1 DEF Places
<1>3. CASE Ready
  <2>1. /\ sup.pc = "waiting"
        /\ IF sup.k = Len(Services) THEN sup'.k = 0 /\ sup'.pc = "loop"
                                    ELSE sup'.k = sup.k + 1 /\ sup'.pc = "starting"
    BY <1>3 DEF Ready, Shapes
  <2>2. QED
    BY <1>c, <2>1 DEF Places
<1>4. CASE \/ EndChild \/ ServiceExits \/ UNCHANGED vars \/ StartRecords \/ NotRunning
           \/ (\E op \in {"stop", "archive"} : Collect(op))
           \/ StopRecorded \/ SweepPorts \/ EndPortless \/ Done
  <2>1. UNCHANGED sup
    BY <1>4 DEF EndChild, ServiceExits, vars, StartRecords, NotRunning, Collect, StopRecorded,
       SweepPorts, EndPortless, Done
  <2>2. QED
    BY <2>1 DEF Places
<1>5. CASE EndFiles \/ StartupFails \/ SupervisorDies \/ Start \/ Signal \/ GoneOrKilled
  <2>1. \/ sup'.pc \in {"none", "launched"} /\ sup'.k = 0
        \/ sup'.pc = sup.pc /\ sup'.k = sup.k
    BY <1>5 DEF EndFiles, StartupFails, SupervisorDies, Start, Signal, GoneOrKilled, Abandons,
       Ended, Shapes
  <2>2. QED
    BY <1>c, <2>1 DEF Places
<1>6. QED
  BY <1>1, <1>2, <1>3, <1>4, <1>5 DEF Next

\* The stop flag is a flag.
LEMMA FlagStep == ASSUME Shapes, Flag, [Next]_vars PROVE Flag'
<1>1. \/ UNCHANGED sup \/ sup' = Ended \/ sup' = [Ended EXCEPT !.pc = "launched"]
      \/ sup' = [sup EXCEPT !.stop = TRUE]
      \/ \E pc, k : sup' = [sup EXCEPT !.pc = pc, !.k = k]
      \/ \E pc, c : sup' = [sup EXCEPT !.pc = pc, !.children = c]
      \/ \E pc : sup' = [sup EXCEPT !.pc = pc]
  <2>1. CASE \/ EndChild \/ ServiceExits \/ UNCHANGED vars \/ StartRecords \/ NotRunning
             \/ (\E op \in {"stop", "archive"} : Collect(op))
             \/ StopRecorded \/ SweepPorts \/ EndPortless \/ Done
    BY <2>1 DEF EndChild, ServiceExits, vars, StartRecords, NotRunning, Collect, StopRecorded,
       SweepPorts, EndPortless, Done
  <2>2. CASE EndFiles \/ StartupFails \/ SupervisorDies \/ Start \/ Signal \/ GoneOrKilled
    BY <2>2, Zenon DEF EndFiles, StartupFails, SupervisorDies, Start, Signal, GoneOrKilled, Abandons
  <2>3. CASE Cleanup \/ Ready
    BY <2>3, Zenon DEF Cleanup, Ready
  <2>4. CASE StartNext \/ Poll \/ WriteStatus \/ WriteManagedPids
    BY <2>4, Zenon DEF StartNext, Poll, WriteStatus, WriteManagedPids
  <2>5. QED
    BY <2>1, <2>2, <2>3, <2>4 DEF Next
<1>2. ASSUME \/ UNCHANGED sup
             \/ \E pc, k : sup' = [sup EXCEPT !.pc = pc, !.k = k]
             \/ \E pc, c : sup' = [sup EXCEPT !.pc = pc, !.children = c]
             \/ \E pc : sup' = [sup EXCEPT !.pc = pc]
      PROVE  sup'.stop = sup.stop
  BY <1>2 DEF Shapes
<1>3. ASSUME sup' = Ended \/ sup' = [Ended EXCEPT !.pc = "launched"] PROVE sup'.stop = FALSE
  BY <1>3 DEF Ended
<1>4. ASSUME sup' = [sup EXCEPT !.stop = TRUE] PROVE sup'.stop = TRUE
  BY <1>4 DEF Shapes
<1>5. sup'.stop = sup.stop \/ sup'.stop = FALSE \/ sup'.stop = TRUE
  BY <1>1, <1>2, <1>3, <1>4, Zenon
<1>6. (sup.stop)' = sup.stop \/ (sup.stop)' = FALSE \/ (sup.stop)' = TRUE
  BY <1>5, Zenon
<1>7. QED
  BY <1>6, Zenon DEF Flag

\* A supervisor that runs has a number.
LEMMA CountersStep ==
  ASSUME SupervisorConstants, Shapes, Labels, Counters, [Next]_vars
  PROVE  Counters'
<1>c. MaxRuns \in Nat /\ MaxDeaths \in Nat /\ MaxExits \in Nat
  BY DEF SupervisorConstants
<1>1. CASE Start
  BY <1>c, <1>1 DEF Start, Counters
<1>2. CASE Poll \/ StartNext
  <2>0. started' \in {started, started + 1, started + 0}
    BY <1>2 DEF Poll, StartNext
  <2>1. started' \in Nat
    BY <2>0 DEF Counters
  <2>2. QED
    BY <1>2, <2>1 DEF Poll, StartNext, Counters, Shapes, Running
<1>3. CASE SupervisorDies \/ ServiceExits
  BY <1>c, <1>3 DEF SupervisorDies, ServiceExits, Abandons, Ended, Counters, Running
<1>4. CASE \/ Cleanup \/ Ready \/ StartupFails \/ WriteStatus \/ WriteManagedPids \/ EndChild
           \/ EndFiles \/ Signal \/ GoneOrKilled \/ StartRecords \/ NotRunning \/ StopRecorded
           \/ SweepPorts \/ EndPortless \/ Done \/ UNCHANGED vars
           \/ \E op \in {"stop", "archive"} : Collect(op)
  <2>1. UNCHANGED <<run, started, deaths, exits>>
    BY <1>4 DEF Cleanup, Ready, StartupFails, WriteStatus, WriteManagedPids, EndChild, EndFiles,
       Signal, GoneOrKilled, StartRecords, NotRunning, StopRecorded, SweepPorts, EndPortless, Done,
       vars, Collect
  <2>2. sup'.pc # "none" => Running
    BY <1>4 DEF Cleanup, Ready, StartupFails, WriteStatus, WriteManagedPids, EndChild, EndFiles,
       Signal, GoneOrKilled, StartRecords, NotRunning, StopRecorded, SweepPorts, EndPortless, Done,
       vars, Collect, Abandons, Ended, Running, Shapes
  <2>3. QED
    BY <2>1, <2>2 DEF Counters, Running
<1>5. QED
  BY <1>1, <1>2, <1>3, <1>4 DEF Next

-----------------------------------------------------------------------------
(* What the processes are, and who answers for them.                         *)

\* An action that starts processes starts them under the supervisor that runs.
LEMMA StartedKnown ==
  ASSUME SupervisorConstants, Labels, Counters, Running, NEW S \in SUBSET Names,
         NEW p \in Started(S)
  PROVE  p.service \in Names /\ p.by \in 1..run /\ p.number = started + 1 /\ p.number \in Nat \ {0}
<1>1. PICK s \in S : p = [service |-> s, by |-> run, number |-> started + 1]
  BY DEF Started
<1>2. run \in 1..MaxRuns /\ MaxRuns \in Nat /\ started \in Nat
  BY DEF SupervisorConstants, Counters
<1>3. p.service = s /\ p.by = run /\ p.number = started + 1
  BY <1>1
<1>4. QED
  BY <1>2, <1>3

\* What is known stays known as the counters grow.
LEMMA KnownStays ==
  ASSUME Counters, run' \in {run, run + 1}, started' \in {started, started + 1}, Counters',
         NEW p, Known(p)
  PROVE  p.service \in Names /\ p.by \in 1..run' /\ p.number \in 1..started'
<1>1. run \in Int /\ started \in Int /\ run' \in Int /\ started' \in Int
  BY DEF Counters
<1>2. run <= run' /\ started <= started'
  BY <1>1
<1>3. QED
  BY <1>1, <1>2 DEF Known

\* Nothing is named that was not started.
LEMMA AllKnownStep ==
  ASSUME SupervisorConstants, Shapes, Labels, Places, Counters, Counters', AllKnown, [Next]_vars
  PROVE  AllKnown'
<1> DEFINE K(p) == p.service \in Names /\ p.by \in 1..run' /\ p.number \in 1..started'
           All == procs \cup sup.children \cup status \cup listed \cup named \cup cli.collected
                  \cup {entry[1] : entry \in stray}
<1>1. \A p \in All : Known(p)
  BY DEF AllKnown
<1>g. run' \in {run, run + 1} /\ started' \in {started, started + 1}
  <2>1. CASE Start
    BY <2>1 DEF Start
  <2>2. CASE Poll \/ StartNext
    <3>1. started' \in {started, started + 1, started + 0} /\ run' = run
      BY <2>2 DEF Poll, StartNext
    <3>2. QED
      BY <3>1 DEF Counters
  <2>3. CASE ~(Start \/ Poll \/ StartNext)
    <3>1. UNCHANGED <<run, started>>
      BY <2>3 DEF Next, Cleanup, Ready, StartupFails, WriteStatus, WriteManagedPids, EndChild,
         EndFiles, SupervisorDies, ServiceExits, Signal, GoneOrKilled, StartRecords, NotRunning,
         StopRecorded, SweepPorts, EndPortless, Done, vars, Collect
    <3>2. QED
      BY <3>1
  <2>4. QED
    BY <2>1, <2>2, <2>3
<1>2. \A p \in All : K(p)
  BY <1>1, <1>g, KnownStays
<1>3. /\ \A p \in procs' \cup sup'.children : p \in All \/ K(p)
      /\ status' \cup listed' \cup named' \cup cli'.collected \subseteq All
      /\ \A entry \in stray' : entry[1] \in All
  <2>1. CASE Cleanup \/ Ready \/ WriteStatus \/ WriteManagedPids \/ EndChild
    BY <2>1 DEF Cleanup, Ready, WriteStatus, WriteManagedPids, EndChild, Shapes
  <2>2. CASE StartNext \/ Poll
    <3>1. PICK S \in SUBSET Names :
            /\ procs' \subseteq procs \cup Started(S)
            /\ sup'.children \subseteq sup.children \cup Started(S)
            /\ S # {} => started' = started + 1
      <4>1. CASE StartNext
        <5>1. Services[sup.k] \in Names
          BY <4>1 DEF StartNext, Places, SupervisorConstants, Names
        <5>2. /\ procs' \subseteq procs \cup Started({Services[sup.k]})
              /\ sup'.children \subseteq sup.children \cup Started({Services[sup.k]})
              /\ started' = started + 1
          BY <4>1 DEF StartNext, Shapes
        <5>3. QED
          BY <5>1, <5>2
      <4>2. CASE Poll
        <5>1. PICK again \in SUBSET ({c.service : c \in sup.children \ procs}
                    \cup ({Services[i] : i \in DOMAIN Services} \ {c.service : c \in sup.children})) :
                /\ procs' = procs \cup Started(again)
                /\ sup'.children = (sup.children \cap procs) \cup Started(again)
                /\ started' = started + (IF again = {} THEN 0 ELSE 1)
          BY <4>2 DEF Poll, Shapes
        <5>2. again \in SUBSET Names
          BY DEF AllKnown, Known, Names
        <5>3. QED
          BY <5>1, <5>2
      <4>3. QED
        BY <2>2, <4>1, <4>2
    <3>2. UNCHANGED <<run, status, listed, named, cli, stray>> /\ Running
      BY <2>2 DEF StartNext, Poll, Running
    <3>3. \A p \in Started(S) : K(p)
      <4>1. TAKE p \in Started(S)
      <4>2. S # {}
        BY <4>1 DEF Started
      <4>3. p.service \in Names /\ p.by \in 1..run /\ p.number = started + 1 /\ p.number \in Nat \ {0}
        BY <3>2, StartedKnown
      <4>4. started \in Nat
        BY DEF Counters
      <4>5. QED
        BY <3>1, <3>2, <4>2, <4>3, <4>4
    <3>4. QED
      BY <3>1, <3>2, <3>3
  <2>3. CASE StartupFails \/ SupervisorDies \/ EndFiles
    BY <2>3 DEF StartupFails, SupervisorDies, EndFiles, Abandons, Ended
  <2>4. CASE Signal \/ GoneOrKilled
    BY <2>4 DEF Signal, GoneOrKilled, Abandons, Ended, Shapes
  <2>5. CASE \/ ServiceExits \/ Start \/ StartRecords \/ NotRunning \/ StopRecorded \/ SweepPorts
             \/ EndPortless \/ Done \/ UNCHANGED vars
    BY <2>5 DEF ServiceExits, Start, Ended, StartRecords, NotRunning, StopRecorded, SweepPorts,
       EndPortless, Done, vars, Shapes
  <2>6. CASE \E op \in {"stop", "archive"} : Collect(op)
    BY <2>6 DEF Collect, Collected
  <2>7. QED
    BY <2>1, <2>2, <2>3, <2>4, <2>5, <2>6 DEF Next
<1>4. /\ \A p \in procs' \cup sup'.children : K(p)
      /\ \A p \in status' \cup listed' \cup named' \cup cli'.collected : K(p)
      /\ \A entry \in stray' : K(entry[1])
  BY <1>2, <1>3
<1>5. QED
  BY <1>4 DEF AllKnown, Known, Names

\* Whoever did not have to answer for a process before need not now.
LEMMA OwnedKept ==
  ASSUME Owned, procs' \subseteq procs \cup sup'.children, stray \subseteq stray',
         sup.children \cap procs' \subseteq sup'.children
  PROVE  Owned'
BY DEF Owned

\* A supervisor that ends without its finally clause leaves its children behind.
LEMMA AbandonsRecords ==
  ASSUME Abandons, NEW p \in sup.children \cap procs
  PROVE  /\ \E f \in BOOLEAN : <<p, f>> \in stray'
         /\ p \notin named => <<p, FALSE>> \in stray'
<1>1. <<p, p \in named>> \in stray'
  BY DEF Abandons
<1>2. CASE p \in named
  <2>1. (p \in named) = TRUE
    BY <1>2, Zenon
  <2>2. <<p, TRUE>> \in stray'
    BY <1>1, <2>1, Zenon
  <2>3. QED
    BY <1>2, <2>2, Zenon
<1>3. CASE p \notin named
  <2>1. (p \in named) = FALSE
    BY <1>3
  <2>2. <<p, FALSE>> \in stray'
    BY <1>1, <2>1, Zenon
  <2>3. QED
    BY <2>2, Zenon
<1>4. QED
  BY <1>2, <1>3

\* So each process still has a parent or is known to be left behind.
LEMMA OwnedStep == ASSUME Shapes, Labels, Owned, [Next]_vars PROVE Owned'
<1>1. CASE Cleanup \/ StartNext \/ Ready \/ Poll \/ WriteStatus \/ WriteManagedPids
  <2>1. /\ procs' \subseteq procs \cup sup'.children /\ stray \subseteq stray'
        /\ sup.children \cap procs' \subseteq sup'.children
    <3>1. CASE Cleanup \/ Ready \/ WriteStatus \/ WriteManagedPids
      BY <3>1 DEF Cleanup, Ready, WriteStatus, WriteManagedPids, Shapes
    <3>2. CASE StartNext
      BY <3>2 DEF StartNext, Shapes
    <3>3. CASE Poll
      <4>1. PICK again : /\ procs' = procs \cup Started(again)
                        /\ sup'.children = (sup.children \cap procs) \cup Started(again)
        BY <3>3 DEF Poll, Shapes
      <4>2. stray' = stray /\ procs' \subseteq procs \cup sup'.children
        BY <3>3, <4>1 DEF Poll
      <4>3. QED
        BY <4>1, <4>2
    <3>4. QED
      BY <1>1, <3>1, <3>2, <3>3
  <2>2. QED
    BY <2>1, OwnedKept
<1>2. CASE StartupFails \/ SupervisorDies
  BY <1>2, AbandonsRecords DEF StartupFails, SupervisorDies, Abandons, Owned
<1>3. CASE Signal \/ GoneOrKilled
  <2>1. CASE Abandons
    BY <1>3, <2>1, AbandonsRecords DEF Signal, GoneOrKilled, Abandons, Owned
  <2>2. CASE ~Abandons
    BY <1>3, <2>2 DEF Signal, GoneOrKilled, Owned, Shapes
  <2>3. QED
    BY <2>1, <2>2
<1>4. CASE EndFiles \/ Start
  <2>1. /\ procs' = procs /\ stray' = stray /\ sup.children \cap procs = {}
    BY <1>4 DEF EndFiles, Start, Running, Labels, Serving
  <2>2. QED
    BY <2>1 DEF Owned
<1>5. CASE \/ EndChild \/ ServiceExits \/ StartRecords \/ NotRunning \/ StopRecorded \/ SweepPorts
           \/ EndPortless \/ Done \/ UNCHANGED vars
           \/ \E op \in {"stop", "archive"} : Collect(op)
  <2>1. procs' \subseteq procs /\ UNCHANGED <<sup, stray>>
    BY <1>5 DEF EndChild, ServiceExits, StartRecords, NotRunning, StopRecorded, SweepPorts,
       EndPortless, Done, vars, Collect
  <2>2. QED
    BY <2>1, OwnedKept
<1>6. QED
  BY <1>1, <1>2, <1>3, <1>4, <1>5 DEF Next

-----------------------------------------------------------------------------
(* What an earlier supervisor left behind.                                   *)

\* managed-pids.json outlives a supervisor: what it names is ended by the next,
\* what it does not is in the history as unnamed.
LEMMA CleanedStep == ASSUME Shapes, Labels, Cleaned, [Next]_vars PROVE Cleaned'
<1>1. CASE Cleanup
  BY <1>1 DEF Cleanup, Shapes, Cleaned, Serving
<1>2. CASE StartNext \/ Ready \/ WriteStatus
  BY <1>2 DEF StartNext, Ready, WriteStatus, Shapes, Cleaned, Serving
<1>3. CASE Poll
  <2>1. PICK again : /\ procs' = procs \cup Started(again)
                    /\ sup'.children = (sup.children \cap procs) \cup Started(again)
    BY <1>3 DEF Poll, Shapes
  <2>2. sup.pc \in Serving /\ sup'.pc \in Serving /\ stray' = stray
    BY <1>3 DEF Poll, Shapes, Serving
  <2>3. QED
    BY <2>1, <2>2 DEF Cleaned
<1>4. CASE WriteManagedPids \/ EndChild \/ ServiceExits
  BY <1>4 DEF WriteManagedPids, EndChild, ServiceExits, Shapes, Cleaned, Serving
<1>5. CASE EndFiles
  BY <1>5 DEF EndFiles, Ended, Cleaned, Serving
<1>6. CASE StartupFails \/ SupervisorDies \/ Signal \/ GoneOrKilled
  <2>1. procs' = procs /\ named' = named
    BY <1>6 DEF StartupFails, SupervisorDies, Signal, GoneOrKilled
  <2>2. CASE Abandons
    <3>1. sup'.pc \notin Serving /\ stray \subseteq stray'
      BY <2>2 DEF Abandons, Ended, Serving
    <3>2. QED
      BY <2>1, <2>2, <3>1, AbandonsRecords DEF Cleaned
  <2>3. CASE ~Abandons
    <3>1. sup'.pc = sup.pc /\ sup'.children = sup.children /\ stray' = stray
      BY <1>6, <2>3 DEF StartupFails, SupervisorDies, Signal, GoneOrKilled, Shapes
    <3>2. QED
      BY <2>1, <3>1 DEF Cleaned
  <2>4. QED
    BY <2>2, <2>3
<1>7. CASE Start
  BY <1>7 DEF Start, Ended, Running, Cleaned, Serving
<1>8. CASE \/ StartRecords \/ NotRunning \/ StopRecorded \/ SweepPorts \/ EndPortless \/ Done
           \/ UNCHANGED vars \/ \E op \in {"stop", "archive"} : Collect(op)
  <2>1. procs' \subseteq procs /\ UNCHANGED <<sup, named, stray>>
    BY <1>8 DEF StartRecords, NotRunning, StopRecorded, SweepPorts, EndPortless, Done, vars, Collect
  <2>2. QED
    BY <2>1 DEF Cleaned
<1>9. QED
  BY <1>1, <1>2, <1>3, <1>4, <1>5, <1>6, <1>7, <1>8 DEF Next

\* The processes on ports of services that are still to be started: one that is
\* started ends those on its port first, so that none is left in the loop.
LEMMA PortsStep ==
  ASSUME SupervisorConstants, Shapes, Labels, Places, AllKnown, Ports, [Next]_vars
  PROVE  Ports'
<1> DEFINE Waits(p) == \E i \in DOMAIN Services :
             /\ Services[i] = p.service
             /\ IF sup.pc = "starting" THEN i >= sup.k ELSE sup.pc = "waiting" /\ i > sup.k
           WaitsAfter(p) == \E i \in DOMAIN Services :
             /\ Services[i] = p.service
             /\ IF sup'.pc = "starting" THEN i >= sup'.k ELSE sup'.pc = "waiting" /\ i > sup'.k
<1>c. Len(Services) \in Nat /\ DOMAIN Services = 1..Len(Services)
  BY DEF SupervisorConstants
<1>w. sup.pc \in Serving => \A p \in procs \ sup.children : p.service \in WithPort => Waits(p)
  BY DEF Ports
<1>s. SUFFICES ASSUME sup'.pc \in Serving, NEW p \in procs', p \notin sup'.children,
                      p.service \in WithPort
               PROVE  WaitsAfter(p)
  BY DEF Ports
<1>1. CASE Cleanup
  <2>1. p \in procs /\ sup'.pc = "starting" /\ sup'.k = 1
    BY <1>s, <1>1 DEF Cleanup, Shapes
  <2>2. PICK i \in DOMAIN Services : Services[i] = p.service
    BY <2>1 DEF AllKnown, Known, Names
  <2>3. i >= 1
    BY <1>c
  <2>4. QED
    BY <2>1, <2>2, <2>3
<1>2. CASE StartNext
  <2>1. /\ sup.pc = "starting" /\ sup'.pc = "waiting" /\ sup'.k = sup.k
        /\ p \in procs /\ p \notin sup.children /\ p \notin OrphansOnPort(Services[sup.k])
    BY <1>s, <1>2 DEF StartNext, Shapes
  <2>2. p.service # Services[sup.k]
    BY <1>s, <1>2, <2>1 DEF OrphansOnPort, Of
  <2>3. PICK i \in DOMAIN Services : Services[i] = p.service /\ i >= sup.k
    BY <1>s, <1>w, <2>1 DEF Serving
  <2>4. i # sup.k /\ i \in Int /\ sup.k \in Int
    BY <1>c, <2>2, <2>3 DEF Places
  <2>5. i > sup.k
    BY <2>3, <2>4
  <2>6. QED
    BY <2>1, <2>3, <2>5
<1>3. CASE Ready
  <2>1. /\ sup.pc = "waiting" /\ p \in procs /\ p \notin sup.children
        /\ IF sup.k = Len(Services) THEN sup'.k = 0 /\ sup'.pc = "loop"
                                    ELSE sup'.k = sup.k + 1 /\ sup'.pc = "starting"
    BY <1>s, <1>3 DEF Ready, Shapes
  <2>2. PICK i \in DOMAIN Services : Services[i] = p.service /\ i > sup.k
    BY <1>s, <1>w, <2>1 DEF Serving
  <2>3. sup.k # Len(Services) /\ i >= sup.k + 1
    BY <1>c, <2>2 DEF Places
  <2>4. QED
    BY <2>1, <2>2, <2>3
<1>4. CASE Poll
  <2>1. PICK again : /\ procs' = procs \cup Started(again)
                    /\ sup'.children = (sup.children \cap procs) \cup Started(again)
    BY <1>4 DEF Poll, Shapes
  <2>2. sup.pc = "loop" /\ p \in procs \ sup.children
    BY <1>s, <1>4, <2>1 DEF Poll
  <2>3. QED
    BY <1>w, <1>s, <2>2 DEF Serving
<1>5. CASE WriteStatus \/ WriteManagedPids
  <2>1. /\ sup.pc \in {"polled", "reported"} /\ p \in procs \ sup.children
    BY <1>s, <1>5 DEF WriteStatus, WriteManagedPids, Shapes
  <2>2. QED
    BY <1>w, <1>s, <2>1 DEF Serving
<1>6. CASE \/ StartupFails \/ SupervisorDies \/ Signal \/ GoneOrKilled \/ EndFiles \/ Start
           \/ EndChild \/ ServiceExits \/ StartRecords \/ NotRunning \/ StopRecorded \/ SweepPorts
           \/ EndPortless \/ Done \/ UNCHANGED vars
           \/ \E op \in {"stop", "archive"} : Collect(op)
  <2>1. \/ sup'.pc \in {"none", "launched"}
        \/ /\ sup'.pc = sup.pc /\ sup'.k = sup.k /\ sup'.children = sup.children
           /\ procs' \subseteq procs
    <3>1. CASE \/ StartupFails \/ SupervisorDies \/ Signal \/ GoneOrKilled \/ EndFiles \/ Start
      BY <3>1 DEF StartupFails, SupervisorDies, Signal, GoneOrKilled, EndFiles, Start, Abandons,
         Ended, Shapes
    <3>2. CASE ~(\/ StartupFails \/ SupervisorDies \/ Signal \/ GoneOrKilled \/ EndFiles \/ Start)
      BY <1>6, <3>2 DEF EndChild, ServiceExits, StartRecords, NotRunning, StopRecorded, SweepPorts,
         EndPortless, Done, vars, Collect
    <3>3. QED
      BY <3>1, <3>2
  <2>2. sup'.pc = sup.pc /\ sup'.k = sup.k /\ sup'.children = sup.children /\ procs' \subseteq procs
    BY <1>s, <2>1 DEF Serving
  <2>3. QED
    BY <1>w, <1>s, <2>2
<1>7. QED
  BY <1>1, <1>2, <1>3, <1>4, <1>5, <1>6 DEF Next

\* Once it has made sure of the supervisor's end, a command has the processes to
\* itself: only those that exit change.
LEMMA SweptStep == ASSUME Shapes, Labels, Swept, [Next]_vars PROVE Swept'
<1>1. CASE SweepPorts
  BY <1>1 DEF SweepPorts, OrphansOnPort, Of, Shapes, Swept
<1>2. CASE EndPortless
  BY <1>2 DEF EndPortless, Shapes, Swept
<1>3. CASE Cleanup \/ StartNext \/ Ready \/ Poll \/ WriteStatus \/ WriteManagedPids \/ StartupFails
  <2>1. Running /\ cli' = cli
    BY <1>3 DEF Cleanup, StartNext, Ready, Poll, WriteStatus, WriteManagedPids, StartupFails, Running
  <2>2. QED
    BY <2>1 DEF Labels, Swept, After
<1>4. CASE EndChild \/ EndFiles \/ SupervisorDies \/ ServiceExits \/ UNCHANGED vars
  BY <1>4 DEF EndChild, EndFiles, SupervisorDies, ServiceExits, vars, Swept
<1>5. CASE Start \/ StartRecords \/ (\E op \in {"stop", "archive"} : Collect(op)) \/ NotRunning
  BY <1>5 DEF Start, StartRecords, Collect, NotRunning, Shapes, Swept
<1>6. CASE Signal \/ GoneOrKilled \/ StopRecorded \/ Done
  BY <1>6 DEF Signal, GoneOrKilled, StopRecorded, Done, Shapes, Swept
<1>7. QED
  BY <1>1, <1>2, <1>3, <1>4, <1>5, <1>6 DEF Next

-----------------------------------------------------------------------------
(* The invariant, and the theorems.                                          *)

LEMMA Initially == ASSUME SupervisorConstants, Init PROVE IInv
<1>1. Shapes /\ Flag
  BY DEF Init, Ended, Shapes, Flag
<1>2. Labels /\ Places /\ Counters
  BY DEF SupervisorConstants, Init, Ended, Labels, Places, Counters, Serving, After, Running
<1>3. AllKnown /\ Owned /\ Cleaned /\ Ports /\ Swept
  BY DEF Init, Ended, AllKnown, Owned, Cleaned, Ports, Swept, Serving
<1>4. QED
  BY <1>1, <1>2, <1>3 DEF IInv

LEMMA Inductive == ASSUME SupervisorConstants, IInv, [Next]_vars PROVE IInv'
<1>1. Shapes /\ Labels /\ Places /\ Flag /\ Counters /\ AllKnown /\ Owned /\ Cleaned /\ Ports /\ Swept
  BY DEF IInv
<1>2. Shapes' /\ Labels' /\ Places' /\ Flag' /\ Counters'
  BY <1>1, ShapesStep, LabelsStep, PlacesStep, FlagStep, CountersStep
<1>3. AllKnown' /\ Owned' /\ Cleaned' /\ Ports' /\ Swept'
  BY <1>1, <1>2, AllKnownStep, OwnedStep, CleanedStep, PortsStep, SweptStep
<1>4. QED
  BY <1>2, <1>3 DEF IInv

LEMMA Induction == ASSUME SupervisorConstants PROVE Spec => []IInv
<1>1. Init => IInv
  BY Initially
<1>2. IInv /\ [Next]_vars => IInv'
  BY Inductive
<1>3. QED
  BY <1>1, <1>2, PTL DEF Spec

\* Every variable has the values its comment says.
THEOREM TypeCorrect == ASSUME SupervisorConstants PROVE Spec => []TypeOK
<1>1. IInv => TypeOK
  <2> SUFFICES ASSUME IInv PROVE TypeOK
    OBVIOUS
  <2>1. Labels /\ Places /\ Flag /\ Counters /\ AllKnown
    BY DEF IInv
  <2>2. \A p \in procs \cup status \cup listed \cup named \cup sup.children \cup cli.collected
              \cup {entry[1] : entry \in stray} :
          /\ p.service \in {Services[i] : i \in DOMAIN Services}
          /\ p.by \in 1..run /\ p.number \in 1..started
    BY <2>1 DEF AllKnown, Known, Names
  <2>3. /\ run \in 0..MaxRuns /\ deaths \in 0..MaxDeaths /\ exits \in 0..MaxExits
        /\ sup.k \in 0..Len(Services)
    BY <2>1 DEF Counters, Places
  <2>4. /\ sup.pc \in {"none", "launched", "starting", "waiting", "loop", "polled", "reported"}
        /\ cli.pc \in {"idle", "launched", "stopping", "waiting", "victims", "ports", "portless", "done"}
        /\ cli.op \in {"none", "stop", "archive"}
    BY <2>1 DEF Labels, Serving, After
  <2>5. sup.stop \in BOOLEAN
    BY <2>1, Zenon DEF Flag
  <2>6. QED
    BY <2>2, <2>3, <2>4, <2>5, Zenon DEF TypeOK
<1>2. QED
  BY <1>1, Induction, PTL

\* When a stop is done there is no supervisor, whatever step it was at, and no
\* service runs but one without a port that a supervisor left behind; before
\* chains are archived none runs (_stop_supervisor, _stop_recorded_services,
\* _sweep_orphan_ports and _terminate_quality_service of atested_cli.py).
THEOREM StopComplete == ASSUME SupervisorConstants PROVE Spec => []StopLeavesNothing
<1>1. IInv => StopLeavesNothing
  BY DEF IInv, StopLeavesNothing, Labels, Owned, Swept, After, Serving, Running
<1>2. QED
  BY <1>1, Induction, PTL

\* While a supervisor serves, no service runs twice but one without a port that
\* died unnamed with an earlier supervisor (cleanup_prior_run_orphans and
\* clear_orphan_on_port of process_supervisor.py).
THEOREM NoneTwice == ASSUME SupervisorConstants PROVE Spec => []NoSecondService
<1>1. IInv => NoSecondService
  BY DEF IInv, NoSecondService, Cleaned, Ports, Serving
<1>2. QED
  BY <1>1, Induction, PTL

=============================================================================
