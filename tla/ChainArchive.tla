---------------------------- MODULE ChainArchive ----------------------------
(***************************************************************************)
(* Archives of the two chains.  An archive moves a chain file away and      *)
(* replaces it by a single record, the genesis.  It is taken by the         *)
(* operator (atested archive), who stops the services first, or by a        *)
(* thread of the dashboard when a chain has grown too large.  Neither takes *)
(* the chain lock, and neither tells the integrity sidecar or the quality   *)
(* service, which keeps the tail of its chain in memory.                    *)
(*                                                                         *)
(* The lock of the decision chain is taken as what DecisionChain shows of   *)
(* it: at most one writer at a time (turn).  A record is its hash, the hash *)
(* of its predecessor and its sequence; decision records have sequence 0.   *)
(***************************************************************************)
EXTENDS Integers, Sequences, FiniteSets

CONSTANTS
  Writers,      \* which of proxy, dashboard and command append decisions
  OperatorArchives, \* whether the operator runs atested archive
  SizeArchives, \* whether a chain may grow beyond the size threshold
  MaxHash,      \* bound: records that are ever written, geneses not counted
  MaxArchives   \* bound: archives that are begun

Files == {"decision", "qa"}
Services == {"proxy", "dashboard", "quality"}
Archivers == {"operator", "size"}

ASSUME WriterKinds == Writers \subseteq {"proxy", "dashboard", "command"}
ASSUME ArchiveBounds ==
  /\ MaxHash \in Nat /\ MaxArchives \in Nat
  /\ OperatorArchives \in BOOLEAN /\ SizeArchives \in BOOLEAN

VARIABLES
  file,      \* the two chain files; a missing file is an empty one
  kept,      \* hashes of the records in archive/
  ckpt,      \* checkpoint of the decision chain in the sidecar
  up,        \* services that run
  turn,      \* holder of the chain lock, or "free"
  pc,        \* per writer: idle, write, refresh
  head,      \* per writer: predecessor it has read
  mine,      \* per writer: hash of the record it has written
  tail,      \* prev_record_hash and next_sequence of the quality service
  todo,      \* per archiver: files still to be archived
  at,        \* per archiver: idle, measured, moved
  measured,  \* per archiver: last sequence of the file it is archiving
  nextHash, begun,
  acked,     \* decision records whose append was reported as done
  alarms,    \* history: where the tamper response fired, "start" or "append"
  cut,       \* history: an archive was interrupted between move and genesis
  qaTop      \* history: highest sequence the quality chain has had

vars == <<file, kept, ckpt, up, turn, pc, head, mine, tail, todo, at, measured,
          nextHash, begun, acked, alarms, cut, qaTop>>
writerVars  == <<turn, pc, head, mine>>
archiveVars == <<todo, at, measured, begun, cut>>

-----------------------------------------------------------------------------
(* Chain files.                                                            *)

NoHash == 0
Record == [hash : Nat, prev : Nat, seq : Nat]
Summary == [count : Nat, last : Nat]
Empty == [count |-> 0, last |-> NoHash]

Hashes(c) == {c[i].hash : i \in 1..Len(c)}
Linked(c) == \A i \in 2..Len(c) : c[i].prev = c[i-1].hash
TailHash(c) == IF c = <<>> THEN NoHash ELSE c[Len(c)].hash

\* Mutant: the sequence is counted from zero.
LastSequenceFromZero(c) == IF c = <<>> THEN 0 ELSE c[Len(c)].seq - 1

LastSequence(c) == IF c = <<>> THEN 0 ELSE c[Len(c)].seq
Summarize(c) == [count |-> Len(c), last |-> TailHash(c)]

\* What verify_startup_chain and verify_chain_writable accept.
Sound ==
  /\ Linked(file["decision"])
  /\ \/ Len(file["decision"]) > ckpt.count
     \/ Summarize(file["decision"]) = ckpt

Top(n) == IF n > qaTop THEN n ELSE qaTop

-----------------------------------------------------------------------------
(* Writers of the decision chain.                                          *)

Running(w) == w = "command" \/ w \in up

\* Mutant: the checkpoint is left as it was.
TamperResponseKeepsCheckpoint(where) ==
  /\ kept' = kept \cup Hashes(file["decision"])
  /\ file' = [file EXCEPT !["decision"] = <<>>]
  /\ alarms' = alarms \cup {where}
  /\ UNCHANGED ckpt

\* The tamper response: archive without a genesis, clear the checkpoint.
TamperResponse(where) ==
  /\ kept' = kept \cup Hashes(file["decision"])
  /\ file' = [file EXCEPT !["decision"] = <<>>]
  /\ ckpt' = Empty
  /\ alarms' = alarms \cup {where}

\* The proxy looks at the whole chain before it writes and may refuse.
RefuseAppend ==
  /\ "proxy" \in Writers /\ Running("proxy") /\ turn = "free"
  /\ ~Sound
  /\ TamperResponse("append")
  /\ UNCHANGED <<up, writerVars, tail, archiveVars, nextHash, acked, qaTop>>

BeginAppend(w) ==
  /\ Running(w) /\ turn = "free"
  /\ nextHash <= MaxHash
  /\ w = "proxy" => Sound
  /\ ckpt' = IF w = "proxy" THEN Summarize(file["decision"]) ELSE ckpt
  /\ turn' = w
  /\ head' = [head EXCEPT ![w] = TailHash(file["decision"])]
  /\ pc' = [pc EXCEPT ![w] = "write"]
  /\ UNCHANGED <<file, kept, up, mine, tail, archiveVars, nextHash, acked, alarms, qaTop>>

\* The file is opened by name, to append, and created if it is missing.
WriteRecord(w) ==
  /\ pc[w] = "write"
  /\ file' = [file EXCEPT !["decision"] =
                Append(@, [hash |-> nextHash, prev |-> head[w], seq |-> 0])]
  /\ nextHash' = nextHash + 1
  /\ IF w = "command"
     THEN /\ acked' = acked \cup {nextHash}
          /\ pc' = [pc EXCEPT ![w] = "idle"] /\ turn' = "free"
          /\ UNCHANGED mine
     ELSE /\ pc' = [pc EXCEPT ![w] = "refresh"]
          /\ mine' = [mine EXCEPT ![w] = nextHash]
          /\ UNCHANGED <<acked, turn>>
  /\ head' = [head EXCEPT ![w] = NoHash]
  /\ UNCHANGED <<kept, ckpt, up, tail, archiveVars, alarms, qaTop>>

\* The proxy's append fails when the chain does not verify afterwards.
Refresh(w) ==
  /\ pc[w] = "refresh"
  /\ ckpt' = IF Linked(file["decision"]) THEN Summarize(file["decision"]) ELSE ckpt
  /\ acked' = IF Linked(file["decision"]) \/ w # "proxy" THEN acked \cup {mine[w]} ELSE acked
  /\ mine' = [mine EXCEPT ![w] = NoHash]
  /\ pc' = [pc EXCEPT ![w] = "idle"] /\ turn' = "free"
  /\ UNCHANGED <<file, kept, up, head, tail, archiveVars, nextHash, alarms, qaTop>>

-----------------------------------------------------------------------------
(* Services.                                                               *)

OperatorBusy == todo["operator"] # <<>>

\* The proxy checks the chain when it starts; a chain that fails is archived
\* and the proxy goes on with an empty one.
StartProxy ==
  /\ "proxy" \notin up /\ ~OperatorBusy
  /\ up' = up \cup {"proxy"}
  /\ \/ /\ Sound
        /\ ckpt' = Summarize(file["decision"])
        /\ UNCHANGED <<file, kept, alarms>>
     \/ ~Sound /\ TamperResponse("start")
  /\ UNCHANGED <<writerVars, tail, archiveVars, nextHash, acked, qaTop>>

StartDashboard ==
  /\ "dashboard" \notin up /\ ~OperatorBusy
  /\ up' = up \cup {"dashboard"}
  /\ UNCHANGED <<file, kept, ckpt, writerVars, tail, archiveVars, nextHash, acked, alarms, qaTop>>

\* The startup gate of the quality service (ENV-004 and ENV-005).  It reads the
\* last records of each chain; the chains here are shorter than that window.
GatePasses == Linked(file["decision"]) /\ Linked(file["qa"])

\* inspect_tail, then the gate; a service that fails it exits.
StartQuality ==
  /\ "quality" \notin up /\ ~OperatorBusy
  /\ GatePasses
  /\ up' = up \cup {"quality"}
  /\ tail' = [prev |-> TailHash(file["qa"]), seq |-> LastSequence(file["qa"]) + 1]
  /\ UNCHANGED <<file, kept, ckpt, writerVars, archiveVars, nextHash, acked, alarms, qaTop>>

\* QaChainWriter.append_record: predecessor and sequence come from memory.
AppendQa ==
  /\ "quality" \in up
  /\ nextHash <= MaxHash
  /\ file' = [file EXCEPT !["qa"] =
                Append(@, [hash |-> nextHash, prev |-> tail.prev, seq |-> tail.seq])]
  /\ tail' = [prev |-> nextHash, seq |-> tail.seq + 1]
  /\ nextHash' = nextHash + 1
  /\ qaTop' = Top(tail.seq)
  /\ UNCHANGED <<kept, ckpt, up, writerVars, archiveVars, acked, alarms>>

Aborted(a) ==
  /\ todo' = [todo EXCEPT ![a] = <<>>]
  /\ at' = [at EXCEPT ![a] = "idle"]
  /\ cut' = (cut \/ at[a] = "moved")

Stopped(services) ==
  /\ up' = up \ services
  /\ pc' = [w \in Writers |-> IF w \in services THEN "idle" ELSE pc[w]]
  /\ head' = [w \in Writers |-> IF w \in services THEN NoHash ELSE head[w]]
  /\ mine' = [w \in Writers |-> IF w \in services THEN NoHash ELSE mine[w]]
  /\ turn' = IF turn \in services THEN "free" ELSE turn

\* A service dies; its lock is broken later; the size archive is a thread of
\* the dashboard and dies with it.
Die(s) ==
  /\ s \in up
  /\ Stopped({s})
  /\ IF s = "dashboard" THEN Aborted("size") ELSE UNCHANGED <<todo, at, cut>>
  /\ UNCHANGED <<file, kept, ckpt, tail, measured, begun, nextHash, acked, alarms, qaTop>>

-----------------------------------------------------------------------------
(* Archives.                                                               *)

\* Mutant: the services are not stopped.
OperatorBeginsAmongWriters ==
  /\ OperatorArchives /\ ~OperatorBusy
  /\ begun < MaxArchives
  /\ begun' = begun + 1
  /\ todo' = [operator |-> <<"decision", "qa">>, size |-> <<>>]
  /\ UNCHANGED <<up, writerVars, at, cut, file, kept, ckpt, tail, measured, nextHash,
                 acked, alarms, qaTop>>

\* Mutant: as before QS-055, the quality service, which has no port, survives.
OperatorBeginsMissingQuality ==
  /\ OperatorArchives /\ ~OperatorBusy
  /\ begun < MaxArchives
  /\ begun' = begun + 1
  /\ Stopped(Services \ {"quality"})
  /\ todo' = [operator |-> <<"decision", "qa">>, size |-> <<>>]
  /\ UNCHANGED <<at, cut, file, kept, ckpt, tail, measured, nextHash, acked, alarms, qaTop>>

\* cmd_archive stops and kills every service, but no other writer.
OperatorBegins ==
  /\ OperatorArchives /\ ~OperatorBusy
  /\ begun < MaxArchives
  /\ begun' = begun + 1
  /\ Stopped(Services)
  /\ todo' = [operator |-> <<"decision", "qa">>, size |-> <<>>]
  /\ at' = [at EXCEPT !["size"] = "idle"]
  /\ cut' = (cut \/ at["size"] = "moved")
  /\ UNCHANGED <<file, kept, ckpt, tail, measured, nextHash, acked, alarms, qaTop>>

\* _maybe_trigger_archive: one background thread at a time, for both chains.
SizeBegins ==
  /\ SizeArchives /\ "dashboard" \in up /\ todo["size"] = <<>>
  /\ begun < MaxArchives
  /\ begun' = begun + 1
  /\ todo' = [todo EXCEPT !["size"] = <<"decision", "qa">>]
  /\ UNCHANGED <<file, kept, ckpt, up, writerVars, tail, at, measured, cut, nextHash,
                 acked, alarms, qaTop>>

Busy(a) == todo[a] # <<>>
Target(a) == Head(todo[a])
Done(a) == todo' = [todo EXCEPT ![a] = Tail(@)]

\* An empty chain is skipped; the thread also skips one below the threshold.
SkipFile(a) ==
  /\ Busy(a) /\ at[a] = "idle"
  /\ file[Target(a)] = <<>> \/ a = "size"
  /\ Done(a)
  /\ UNCHANGED <<file, kept, ckpt, up, writerVars, tail, at, measured, begun, cut,
                 nextHash, acked, alarms, qaTop>>

\* archive_chain: last hash and sequence, then the move, then the genesis.
Measure(a) ==
  /\ Busy(a) /\ at[a] = "idle"
  /\ file[Target(a)] # <<>>
  /\ measured' = [measured EXCEPT ![a] = LastSequence(file[Target(a)])]
  /\ at' = [at EXCEPT ![a] = "measured"]
  /\ UNCHANGED <<file, kept, ckpt, up, writerVars, tail, todo, begun, cut, nextHash,
                 acked, alarms, qaTop>>

Move(a) ==
  /\ at[a] = "measured"
  /\ file[Target(a)] # <<>>
  /\ kept' = kept \cup Hashes(file[Target(a)])
  /\ file' = [file EXCEPT ![Target(a)] = <<>>]
  /\ at' = [at EXCEPT ![a] = "moved"]
  /\ UNCHANGED <<ckpt, up, writerVars, tail, todo, measured, begun, cut, nextHash,
                 acked, alarms, qaTop>>

\* The file has gone in between: an exception, which ends the thread's pass
\* and the command's work on this file.
MoveFails(a) ==
  /\ at[a] = "measured"
  /\ file[Target(a)] = <<>>
  /\ IF a = "size" THEN todo' = [todo EXCEPT ![a] = <<>>] ELSE Done(a)
  /\ at' = [at EXCEPT ![a] = "idle"]
  /\ UNCHANGED <<file, kept, ckpt, up, writerVars, tail, measured, begun, cut, nextHash,
                 acked, alarms, qaTop>>

\* Mutant: the genesis starts a new count.
GenesisRestartsSequence(a) ==
  /\ at[a] = "moved"
  /\ file' = [file EXCEPT ![Target(a)] =
                <<[hash |-> nextHash, prev |-> NoHash, seq |-> 1]>>]
  /\ nextHash' = nextHash + 1
  /\ at' = [at EXCEPT ![a] = "idle"]
  /\ Done(a)
  /\ UNCHANGED <<kept, ckpt, up, writerVars, tail, measured, begun, cut, acked, alarms, qaTop>>

\* write_chain_genesis opens the file for writing: what is there is gone.
Genesis(a) ==
  /\ at[a] = "moved"
  /\ file' = [file EXCEPT ![Target(a)] =
                <<[hash |-> nextHash, prev |-> NoHash, seq |-> measured[a] + 1]>>]
  /\ nextHash' = nextHash + 1
  /\ qaTop' = IF Target(a) = "qa" THEN Top(measured[a] + 1) ELSE qaTop
  /\ at' = [at EXCEPT ![a] = "idle"]
  /\ Done(a)
  /\ UNCHANGED <<kept, ckpt, up, writerVars, tail, measured, begun, cut, acked, alarms>>

\* The operator interrupts the command.
OperatorAborts ==
  /\ OperatorBusy
  /\ Aborted("operator")
  /\ UNCHANGED <<file, kept, ckpt, up, writerVars, tail, measured, begun, nextHash,
                 acked, alarms, qaTop>>

-----------------------------------------------------------------------------
Init ==
  /\ file = [f \in Files |-> <<>>] /\ kept = {} /\ ckpt = Empty
  /\ up = {} /\ turn = "free"
  /\ pc = [w \in Writers |-> "idle"]
  /\ head = [w \in Writers |-> NoHash] /\ mine = [w \in Writers |-> NoHash]
  /\ tail = [prev |-> NoHash, seq |-> 1]
  /\ todo = [a \in Archivers |-> <<>>] /\ at = [a \in Archivers |-> "idle"]
  /\ measured = [a \in Archivers |-> 0]
  /\ nextHash = 1 /\ begun = 0
  /\ acked = {} /\ alarms = {} /\ cut = FALSE /\ qaTop = 0

Archiving(a) == SkipFile(a) \/ Measure(a) \/ Move(a) \/ MoveFails(a) \/ Genesis(a)

Next ==
  \/ RefuseAppend \/ (\E w \in Writers : BeginAppend(w) \/ WriteRecord(w) \/ Refresh(w))
  \/ StartProxy \/ StartDashboard \/ StartQuality \/ AppendQa
  \/ \E s \in Services : Die(s)
  \/ OperatorBegins \/ SizeBegins \/ OperatorAborts
  \/ \E a \in Archivers : Archiving(a)

Spec == Init /\ [][Next]_vars

\* A writer that is at work goes on, and a proxy that runs asks for an append
\* now and then, so it looks at the chain.  From some point on no service dies:
\* one that dies over and over with the lock would keep the proxy from it.
FairSpec ==
  /\ Spec
  /\ WF_vars(RefuseAppend)
  /\ \A w \in Writers : WF_vars(WriteRecord(w) \/ Refresh(w))
  /\ <>[][~\E s \in Services : Die(s)]_vars

-----------------------------------------------------------------------------
(* What an archive must not break.                                         *)

\* The variables stay in their ranges.
TypeOK ==
  /\ file \in [Files -> Seq(Record)]
  /\ kept \subseteq Nat /\ ckpt \in Summary
  /\ up \subseteq Services /\ turn \in Writers \cup {"free"}
  /\ pc \in [Writers -> {"idle", "write", "refresh"}]
  /\ head \in [Writers -> Nat] /\ mine \in [Writers -> Nat]
  /\ tail \in [prev : Nat, seq : Nat]
  /\ \A a \in Archivers : todo[a] \in {<<>>, <<"qa">>, <<"decision", "qa">>}
  /\ at \in [Archivers -> {"idle", "measured", "moved"}]
  /\ measured \in [Archivers -> Nat]
  /\ nextHash \in Nat /\ begun \in Nat /\ qaTop \in Nat
  /\ acked \subseteq Nat /\ alarms \subseteq {"start", "append"} /\ cut \in BOOLEAN

\* A decision that was reported as recorded is in the chain or in an archive:
\* "auto-archiving preserves the full hash-linked record"
\* (docs/EXPORT_WORKFLOW.md:65).
AcknowledgedKept == acked \subseteq kept \cup Hashes(file["decision"])

\* The quality service, when it is down, can be started again: an archive
\* does not leave a chain that its startup gate rejects for ever.
QualityCanStart == "quality" \notin up => GatePasses

\* The quality chain's sequence never moves backwards across an archive, as
\* write_chain_genesis says, unless the archive is interrupted.
SequenceNeverBackwards ==
  ~cut => file["qa"] = <<>> \/ LastSequence(file["qa"]) >= qaTop

\* A proxy that has been started is never refused an append.
NeverRefusedWhileServing == "append" \notin alarms

\* When a running proxy finds its chain unsound it comes out of that state, by
\* its own response or because another writer refreshed the checkpoint.
TamperResponseHeals ==
  ("proxy" \in up /\ ~Sound) ~> (Sound \/ "proxy" \notin up)

=============================================================================
