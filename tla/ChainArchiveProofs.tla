------------------------- MODULE ChainArchiveProofs -------------------------
(***************************************************************************)
(* Proofs about ChainArchive.                                               *)
(*                                                                          *)
(* Types hold whoever archives and writes.  The other results say when an   *)
(* archive is safe.  Where only the operator archives, who stops every      *)
(* service first, the quality chain is never touched behind the back of the *)
(* service that has its tail in memory (OperatorInv).  Where besides no     *)
(* command writes decisions, which the operator does not stop, no writer is *)
(* at work while a chain is moved (DecisionInv).  Without the first         *)
(* condition a decision can be lost: the run archive_loses shows it.        *)
(***************************************************************************)
EXTENDS ChainArchive, TLAPS

Todos == {<<>>, <<"qa">>, <<"decision", "qa">>}
Places == {"idle", "measured", "moved"}

FilesTyped ==
  /\ file \in [Files -> Seq(Record)]
  /\ kept \subseteq Nat /\ ckpt \in Summary /\ acked \subseteq Nat
  /\ tail \in [prev : Nat, seq : Nat]
  /\ nextHash \in Nat /\ qaTop \in Nat
  /\ alarms \subseteq {"start", "append"}

WritersTyped ==
  /\ up \subseteq Services /\ turn \in Writers \cup {"free"}
  /\ pc \in [Writers -> {"idle", "write", "refresh"}]
  /\ head \in [Writers -> Nat] /\ mine \in [Writers -> Nat]

\* An archiver that has measured or moved a file has one to do.
ArchiversTyped ==
  /\ todo \in [Archivers -> Todos]
  /\ at \in [Archivers -> Places]
  /\ \A a \in Archivers : at[a] # "idle" => todo[a] # <<>>
  /\ measured \in [Archivers -> Nat]
  /\ begun \in Nat /\ cut \in BOOLEAN

Shapes == FilesTyped /\ WritersTyped /\ ArchiversTyped

-----------------------------------------------------------------------------
(* Chain files *)

\* What appending a record does to the operators on chain files.
LEMMA AppendFacts ==
  ASSUME NEW c \in Seq(Record), NEW r \in Record
  PROVE  /\ Append(c, r) \in Seq(Record)
         /\ Len(Append(c, r)) = Len(c) + 1
         /\ TailHash(Append(c, r)) = r.hash
         /\ LastSequence(Append(c, r)) = r.seq
         /\ Append(c, r) # <<>>
         /\ Hashes(Append(c, r)) = Hashes(c) \cup {r.hash}
<1>1. /\ Append(c, r) \in Seq(Record) /\ Len(Append(c, r)) = Len(c) + 1 /\ Len(c) \in Nat
      /\ Append(c, r)[Len(c) + 1] = r
      /\ \A i \in 1..Len(c) : Append(c, r)[i] = c[i]
      /\ Append(c, r) # <<>>
  OBVIOUS
<1>2. Hashes(Append(c, r)) = Hashes(c) \cup {r.hash}
  BY <1>1 DEF Hashes
<1>3. QED
  BY <1>1, <1>2 DEF TailHash, LastSequence

\* A record that names the last one, or is the first, keeps a chain linked.
LEMMA AppendLinked ==
  ASSUME NEW c \in Seq(Record), NEW r \in Record, Linked(c), c = <<>> \/ r.prev = TailHash(c)
  PROVE  Linked(Append(c, r))
<1>1. /\ Len(Append(c, r)) = Len(c) + 1 /\ Len(c) \in Nat
      /\ Append(c, r)[Len(c) + 1] = r
      /\ \A i \in 1..Len(c) : Append(c, r)[i] = c[i]
      /\ c # <<>> => Len(c) >= 1
  OBVIOUS
<1>2. ASSUME NEW i \in 2..Len(c) + 1
      PROVE  Append(c, r)[i].prev = Append(c, r)[i - 1].hash
  <2>1. CASE i = Len(c) + 1
    <3>1. c # <<>>
      BY <2>1
    <3>2. QED
      BY <1>1, <2>1, <3>1 DEF TailHash
  <2>2. CASE i \in 2..Len(c)
    <3>1. i - 1 \in 1..Len(c) /\ i \in 1..Len(c)
      BY <1>1, <2>2
    <3>2. QED
      BY <1>1, <2>2, <3>1 DEF Linked
  <2>3. QED
    BY <1>1, <2>1, <2>2
<1>3. QED
  BY <1>1, <1>2 DEF Linked

\* A chain file that holds a genesis only.
LEMMA GenesisFacts ==
  ASSUME NEW r \in Record
  PROVE  /\ <<r>> \in Seq(Record) /\ Len(<<r>>) = 1 /\ Linked(<<r>>)
         /\ LastSequence(<<r>>) = r.seq /\ <<r>> # <<>>
         /\ Hashes(<<r>>) = {r.hash}
  BY DEF LastSequence, Linked, Hashes

\* An empty or missing chain file.
LEMMA EmptyFacts ==
  /\ <<>> \in Seq(Record) /\ Linked(<<>>) /\ LastSequence(<<>>) = 0 /\ Hashes(<<>>) = {}
  /\ Summarize(<<>>) = Empty
  BY DEF Linked, LastSequence, Hashes, Summarize, TailHash, Empty

\* The operators on chain files return numbers and summaries.
LEMMA ChainTypes ==
  ASSUME NEW c \in Seq(Record)
  PROVE  /\ Hashes(c) \subseteq Nat /\ TailHash(c) \in Nat /\ LastSequence(c) \in Nat
         /\ Summarize(c) \in Summary /\ Summarize(c).count = Len(c)
<1>1. Len(c) \in Nat /\ (c # <<>> => Len(c) \in 1..Len(c)) /\ \A i \in 1..Len(c) : c[i] \in Record
  OBVIOUS
<1>2. TailHash(c) \in Nat /\ LastSequence(c) \in Nat
  BY <1>1 DEF TailHash, LastSequence, NoHash, Record
<1>3. QED
  BY <1>1, <1>2 DEF Hashes, Summarize, Summary, Record

\* What is left to do when one file is done.
LEMMA TodoTails ==
  ASSUME NEW t \in Todos, t # <<>>
  PROVE  /\ Tail(t) \in Todos
         /\ Head(t) \in Files
         /\ Head(t) = "qa" => Tail(t) = <<>>
         /\ Head(t) = "decision" => Tail(t) = <<"qa">>
<1>1. CASE t = <<"qa">>
  <2>1. Head(t) = "qa" /\ Tail(t) = <<>>
    BY <1>1
  <2>2. QED
    BY <2>1 DEF Todos, Files
<1>2. CASE t = <<"decision", "qa">>
  <2>1. Head(t) = "decision" /\ Tail(t) = <<"qa">>
    BY <1>2
  <2>2. QED
    BY <2>1 DEF Todos, Files
<1>3. QED
  BY <1>1, <1>2 DEF Todos

-----------------------------------------------------------------------------
(* Types *)

\* The initial state is typed.
LEMMA InitShapes == Init => Shapes
<1>1. Init => FilesTyped
  <2>1. Init => file \in [Files -> Seq(Record)]
    BY EmptyFacts DEF Init, Files
  <2>2. Init => ckpt \in Summary /\ tail \in [prev : Nat, seq : Nat]
    BY DEF Init, Empty, Summary, NoHash
  <2>3. QED
    BY <2>1, <2>2 DEF Init, FilesTyped
<1>2. Init => WritersTyped
  BY DEF Init, WritersTyped, NoHash
<1>3. Init => ArchiversTyped
  <2>1. Init => todo \in [Archivers -> Todos] /\ at \in [Archivers -> Places]
    BY DEF Init, Todos, Places
  <2>2. Init => \A a \in Archivers : at[a] = "idle"
    BY DEF Init
  <2>3. Init => measured \in [Archivers -> Nat]
    BY DEF Init
  <2>4. Init => begun \in Nat
    BY DEF Init
  <2>5. Init => cut \in BOOLEAN
    BY DEF Init
  <2>6. QED
    BY <2>1, <2>2, <2>3, <2>4, <2>5 DEF ArchiversTyped
<1>4. QED
  BY <1>1, <1>2, <1>3 DEF Shapes

\* Writers of the decision chain.
LEMMA WriterShapes ==
  ASSUME Shapes, NEW w \in Writers, BeginAppend(w) \/ WriteRecord(w) \/ Refresh(w)
  PROVE  Shapes'
<1>0. /\ file["decision"] \in Seq(Record) /\ head[w] \in Nat /\ mine[w] \in Nat
      /\ TailHash(file["decision"]) \in Nat /\ Summarize(file["decision"]) \in Summary
  BY ChainTypes DEF Shapes, FilesTyped, WritersTyped, Files
<1>1. FilesTyped'
  <2>1. CASE BeginAppend(w)
    BY <1>0, <2>1 DEF BeginAppend, Shapes, FilesTyped
  <2>2. CASE WriteRecord(w)
    <3>1. [hash |-> nextHash, prev |-> head[w], seq |-> 0] \in Record
      BY <1>0 DEF Shapes, FilesTyped, Record
    <3>2. file' \in [Files -> Seq(Record)]
      BY <1>0, <2>2, <3>1, AppendFacts DEF WriteRecord, Shapes, FilesTyped
    <3>3. acked' \subseteq Nat
      BY <2>2 DEF WriteRecord, Shapes, FilesTyped
    <3>4. QED
      BY <2>2, <3>2, <3>3 DEF WriteRecord, Shapes, FilesTyped
  <2>3. CASE Refresh(w)
    BY <1>0, <2>3 DEF Refresh, Shapes, FilesTyped
  <2>4. QED
    BY <2>1, <2>2, <2>3
<1>2. WritersTyped'
  <2>1. CASE BeginAppend(w)
    BY <1>0, <2>1 DEF BeginAppend, Shapes, WritersTyped
  <2>2. CASE WriteRecord(w)
    <3>1. nextHash \in Nat
      BY DEF Shapes, FilesTyped
    <3>2. turn' \in Writers \cup {"free"} /\ head' \in [Writers -> Nat] /\ up' = up
      BY <2>2 DEF WriteRecord, Shapes, WritersTyped, NoHash
    <3>3. pc' \in [Writers -> {"idle", "write", "refresh"}] /\ mine' \in [Writers -> Nat]
      <4>1. CASE w = "command"
        BY <2>2, <4>1 DEF WriteRecord, Shapes, WritersTyped
      <4>2. CASE w # "command"
        BY <2>2, <3>1, <4>2 DEF WriteRecord, Shapes, WritersTyped
      <4>3. QED
        BY <4>1, <4>2
    <3>4. QED
      BY <3>2, <3>3 DEF Shapes, WritersTyped
  <2>3. CASE Refresh(w)
    BY <2>3 DEF Refresh, Shapes, WritersTyped, NoHash
  <2>4. QED
    BY <2>1, <2>2, <2>3
<1>3. ArchiversTyped'
  BY DEF BeginAppend, WriteRecord, Refresh, archiveVars, Shapes, ArchiversTyped
<1>4. QED
  BY <1>1, <1>2, <1>3 DEF Shapes

\* The tamper response, whoever fires it.
LEMMA ResponseShapes ==
  ASSUME FilesTyped, NEW where \in {"start", "append"}, TamperResponse(where)
  PROVE  /\ file' \in [Files -> Seq(Record)] /\ kept' \subseteq Nat /\ ckpt' \in Summary
         /\ alarms' \subseteq {"start", "append"}
<1>1. Hashes(file["decision"]) \subseteq Nat
  BY ChainTypes DEF FilesTyped, Files
<1>2. QED
  BY <1>1, EmptyFacts DEF TamperResponse, FilesTyped, Empty, Summary, NoHash

\* A proxy that refuses an append, and services that start.
LEMMA StartShapes ==
  ASSUME Shapes, RefuseAppend \/ StartProxy \/ StartDashboard \/ StartQuality
  PROVE  Shapes'
<1>0. /\ Summarize(file["decision"]) \in Summary
      /\ TailHash(file["qa"]) \in Nat /\ LastSequence(file["qa"]) \in Nat
  BY ChainTypes DEF Shapes, FilesTyped, Files
<1>1. FilesTyped'
  <2>1. CASE RefuseAppend
    BY <2>1, ResponseShapes DEF RefuseAppend, Shapes, FilesTyped
  <2>2. CASE StartProxy /\ TamperResponse("start")
    BY <2>2, ResponseShapes DEF StartProxy, Shapes, FilesTyped
  <2>3. CASE StartProxy /\ ~TamperResponse("start")
    BY <1>0, <2>3 DEF StartProxy, Shapes, FilesTyped
  <2>4. CASE StartDashboard
    BY <2>4 DEF StartDashboard, Shapes, FilesTyped
  <2>5. CASE StartQuality
    BY <1>0, <2>5 DEF StartQuality, Shapes, FilesTyped
  <2>6. QED
    BY <2>1, <2>2, <2>3, <2>4, <2>5
<1>2. WritersTyped'
  BY DEF RefuseAppend, StartProxy, StartDashboard, StartQuality, writerVars, Services,
     Shapes, WritersTyped
<1>3. ArchiversTyped'
  BY DEF RefuseAppend, StartProxy, StartDashboard, StartQuality, archiveVars,
     Shapes, ArchiversTyped
<1>4. QED
  BY <1>1, <1>2, <1>3 DEF Shapes

\* The append of the quality service.
LEMMA AppendQaShapes ==
  ASSUME Shapes, AppendQa
  PROVE  Shapes'
<1>1. FilesTyped'
  <2>1. [hash |-> nextHash, prev |-> tail.prev, seq |-> tail.seq] \in Record
    BY DEF Shapes, FilesTyped, Record
  <2>2. file' \in [Files -> Seq(Record)]
    BY <2>1, AppendFacts DEF AppendQa, Shapes, FilesTyped, Files
  <2>3. QED
    BY <2>2 DEF AppendQa, Shapes, FilesTyped, Top
<1>2. WritersTyped' /\ ArchiversTyped'
  BY DEF AppendQa, writerVars, archiveVars, Shapes, WritersTyped, ArchiversTyped
<1>3. QED
  BY <1>1, <1>2 DEF Shapes

\* Services that are stopped leave the writers typed.
LEMMA StoppedWriters ==
  ASSUME WritersTyped, NEW S \in SUBSET Services, Stopped(S)
  PROVE  WritersTyped'
BY DEF Stopped, WritersTyped, NoHash

\* An archive that is broken off leaves the archivers typed.
LEMMA AbortedArchivers ==
  ASSUME ArchiversTyped, NEW a \in Archivers, Aborted(a), UNCHANGED <<measured, begun>>
  PROVE  ArchiversTyped'
<1>1. todo' \in [Archivers -> Todos] /\ at' \in [Archivers -> Places] /\ cut' \in BOOLEAN
  BY DEF Aborted, ArchiversTyped, Todos, Places
<1>2. \A b \in Archivers : at'[b] # "idle" => todo'[b] # <<>>
  BY DEF Aborted, ArchiversTyped
<1>3. QED
  BY <1>1, <1>2 DEF ArchiversTyped

\* A service that dies, and the archives that begin and are interrupted.
LEMMA InterruptShapes ==
  ASSUME Shapes,
         (\E s \in Services : Die(s)) \/ OperatorBegins \/ SizeBegins \/ OperatorAborts
  PROVE  Shapes'
<1>1. FilesTyped'
  BY DEF Die, OperatorBegins, SizeBegins, OperatorAborts, Shapes, FilesTyped
<1>2. WritersTyped'
  <2>1. CASE OperatorBegins
    BY <2>1, StoppedWriters DEF OperatorBegins, Shapes
  <2>2. CASE SizeBegins \/ OperatorAborts
    BY <2>2 DEF SizeBegins, OperatorAborts, writerVars, Shapes, WritersTyped
  <2>3. CASE \E s \in Services : Die(s)
    BY <2>3, StoppedWriters DEF Die, Shapes
  <2>4. QED
    BY <2>1, <2>2, <2>3
<1>3. ArchiversTyped'
  <2>1. CASE OperatorBegins
    <3>1. todo' \in [Archivers -> Todos] /\ at' \in [Archivers -> Places]
      BY <2>1 DEF OperatorBegins, Shapes, ArchiversTyped, Archivers, Todos, Places
    <3>2. \A a \in Archivers : at'[a] # "idle" => todo'[a] # <<>>
      BY <2>1 DEF OperatorBegins, OperatorBusy, Shapes, ArchiversTyped, Archivers
    <3>3. begun' \in Nat /\ cut' \in BOOLEAN /\ measured' = measured
      BY <2>1 DEF OperatorBegins, Shapes, ArchiversTyped
    <3>4. QED
      BY <3>1, <3>2, <3>3 DEF Shapes, ArchiversTyped
  <2>2. CASE SizeBegins
    <3>1. todo' \in [Archivers -> Todos]
      BY <2>2 DEF SizeBegins, Shapes, ArchiversTyped, Todos
    <3>2. \A a \in Archivers : at'[a] # "idle" => todo'[a] # <<>>
      BY <2>2 DEF SizeBegins, Shapes, ArchiversTyped
    <3>3. QED
      BY <2>2, <3>1, <3>2 DEF SizeBegins, Shapes, ArchiversTyped
  <2>3. CASE OperatorAborts
    BY <2>3, AbortedArchivers DEF OperatorAborts, Shapes, Archivers
  <2>4. ASSUME NEW s \in Services, Die(s) PROVE ArchiversTyped'
    <3>1. CASE s = "dashboard"
      BY <2>4, <3>1, AbortedArchivers DEF Die, Shapes, Archivers
    <3>2. CASE s # "dashboard"
      BY <2>4, <3>2 DEF Die, Shapes, ArchiversTyped
    <3>3. QED
      BY <3>1, <3>2
  <2>5. QED
    BY <2>1, <2>2, <2>3, <2>4
<1>4. QED
  BY <1>1, <1>2, <1>3 DEF Shapes

\* One archiver at work.
LEMMA ArchivingShapes ==
  ASSUME Shapes, NEW a \in Archivers, Archiving(a)
  PROVE  Shapes'
<1>0. /\ todo[a] \in Todos /\ Tail(todo[a]) \in Todos /\ Target(a) \in Files
      /\ file[Target(a)] \in Seq(Record)
  <2>1. todo[a] # <<>>
    BY DEF Archiving, SkipFile, Measure, Move, MoveFails, Genesis, Busy, Shapes, ArchiversTyped, Archivers
  <2>2. QED
    BY <2>1, TodoTails DEF Shapes, ArchiversTyped, FilesTyped, Target
<1>1. FilesTyped'
  <2>1. CASE SkipFile(a) \/ Measure(a) \/ MoveFails(a)
    BY <2>1 DEF SkipFile, Measure, MoveFails, Shapes, FilesTyped
  <2>2. CASE Move(a)
    <3>1. file' \in [Files -> Seq(Record)] /\ kept' \subseteq Nat
      BY <1>0, <2>2, EmptyFacts, ChainTypes DEF Move, Shapes, FilesTyped
    <3>2. QED
      BY <2>2, <3>1 DEF Move, Shapes, FilesTyped
  <2>3. CASE Genesis(a)
    <3>1. measured[a] + 1 \in Nat /\ nextHash \in Nat
      BY DEF Shapes, FilesTyped, ArchiversTyped
    <3>2. [hash |-> nextHash, prev |-> NoHash, seq |-> measured[a] + 1] \in Record
      BY <3>1 DEF Record, NoHash
    <3>3. file' \in [Files -> Seq(Record)]
      BY <2>3, <3>2, GenesisFacts DEF Genesis, Shapes, FilesTyped
    <3>4. qaTop' \in Nat
      BY <2>3, <3>1 DEF Genesis, Top, Shapes, FilesTyped
    <3>5. QED
      BY <2>3, <3>3, <3>4 DEF Genesis, Shapes, FilesTyped
  <2>4. QED
    BY <2>1, <2>2, <2>3 DEF Archiving
<1>2. WritersTyped'
  BY DEF Archiving, SkipFile, Measure, Move, MoveFails, Genesis, writerVars, Shapes, WritersTyped
<1>3. ArchiversTyped'
  <2>1. /\ todo' \in [Archivers -> Todos]
        /\ \A b \in Archivers \ {a} : todo'[b] = todo[b]
    <3>1. todo' = todo \/ todo' = [todo EXCEPT ![a] = <<>>] \/ todo' = [todo EXCEPT ![a] = Tail(todo[a])]
      BY DEF Archiving, SkipFile, Measure, Move, MoveFails, Genesis, Done, Shapes, ArchiversTyped
    <3>2. <<>> \in Todos
      BY DEF Todos
    <3>3. QED
      BY <1>0, <3>1, <3>2 DEF Shapes, ArchiversTyped
  <2>2. /\ at' \in [Archivers -> Places]
        /\ \A b \in Archivers \ {a} : at'[b] = at[b]
        /\ at'[a] # "idle" => todo' = todo /\ todo[a] # <<>>
    <3>1. CASE SkipFile(a)
      BY <3>1 DEF SkipFile, Shapes, ArchiversTyped
    <3>2. CASE Measure(a) \/ Move(a)
      BY <3>2 DEF Measure, Move, Busy, Shapes, ArchiversTyped, Places
    <3>3. CASE MoveFails(a) \/ Genesis(a)
      BY <3>3 DEF MoveFails, Genesis, Shapes, ArchiversTyped, Places
    <3>4. QED
      BY <3>1, <3>2, <3>3 DEF Archiving
  <2>3. \A b \in Archivers : at'[b] # "idle" => todo'[b] # <<>>
    BY <2>1, <2>2 DEF Shapes, ArchiversTyped
  <2>4. measured' \in [Archivers -> Nat]
    <3>1. CASE Measure(a)
      BY <1>0, <3>1, ChainTypes DEF Measure, Shapes, ArchiversTyped
    <3>2. CASE ~Measure(a)
      BY <3>2 DEF Archiving, SkipFile, Move, MoveFails, Genesis, Shapes, ArchiversTyped
    <3>3. QED
      BY <3>1, <3>2
  <2>5. begun' \in Nat /\ cut' \in BOOLEAN
    BY DEF Archiving, SkipFile, Measure, Move, MoveFails, Genesis, Shapes, ArchiversTyped
  <2>6. QED
    BY <2>1, <2>2, <2>3, <2>4, <2>5 DEF ArchiversTyped
<1>4. QED
  BY <1>1, <1>2, <1>3 DEF Shapes

\* Every step keeps the types.
LEMMA NextShapes == Shapes /\ [Next]_vars => Shapes'
<1>1. Shapes /\ Next => Shapes'
  BY WriterShapes, StartShapes, AppendQaShapes, InterruptShapes, ArchivingShapes DEF Next
<1>2. Shapes /\ UNCHANGED vars => Shapes'
  BY DEF Shapes, FilesTyped, WritersTyped, ArchiversTyped, vars
<1>3. QED
  BY <1>1, <1>2

\* The variables stay in their ranges, whoever archives and writes.
THEOREM TypeCorrect == Spec => []TypeOK
<1>1. Shapes => TypeOK
  BY DEF Shapes, FilesTyped, WritersTyped, ArchiversTyped, Todos, Places, TypeOK
<1>2. QED
  BY <1>1, InitShapes, NextShapes, PTL DEF Spec

-----------------------------------------------------------------------------
(* Where only the operator archives *)

Moved(f) == at["operator"] = "moved" /\ Target("operator") = f

\* The dashboard archives nothing; while the operator does, no service runs.
Stops ==
  /\ todo["size"] = <<>>
  /\ OperatorBusy => up = {}

\* The quality chain is linked and is all there is of it; the service that runs
\* has its tail in memory; what the operator measured is the last sequence.
QaKept ==
  /\ Linked(file["qa"])
  /\ Moved("qa") => file["qa"] = <<>>
  /\ at["operator"] = "measured" /\ Target("operator") = "qa" =>
       measured["operator"] = LastSequence(file["qa"])
  /\ "quality" \in up => tail.prev = TailHash(file["qa"]) /\ tail.seq = LastSequence(file["qa"]) + 1
  /\ ~cut => LastSequence(file["qa"]) >= qaTop \/ (Moved("qa") /\ measured["operator"] >= qaTop)

OperatorInv == Shapes /\ Stops /\ QaKept

\* OperatorInv holds initially.
LEMMA InitOperator == Init => OperatorInv
<1>1. Init => Stops
  BY DEF Init, Stops, OperatorBusy, Archivers
<1>2. Init => file["qa"] = <<>> /\ at["operator"] = "idle" /\ up = {} /\ qaTop = 0
  BY DEF Init, Files, Archivers
<1>3. Init => QaKept
  BY <1>2, EmptyFacts DEF QaKept, Moved
<1>4. QED
  BY <1>1, <1>3, InitShapes DEF OperatorInv

\* An archiver that has something to do is the operator.
LEMMA OnlyOperatorArchives ==
  ASSUME OperatorInv, NEW a \in Archivers, Archiving(a)
  PROVE  /\ a = "operator" /\ OperatorBusy /\ up = {}
         /\ todo["operator"] \in Todos /\ todo["operator"] # <<>>
         /\ Target("operator") \in Files
<1>1. todo[a] # <<>>
  BY DEF Archiving, SkipFile, Measure, Move, MoveFails, Genesis, Busy, OperatorInv,
     Shapes, ArchiversTyped
<1>2. a = "operator"
  BY <1>1 DEF OperatorInv, Stops, Archivers
<1>3. OperatorBusy /\ up = {} /\ todo["operator"] \in Todos
  BY <1>1, <1>2 DEF OperatorInv, Stops, OperatorBusy, Shapes, ArchiversTyped
<1>4. QED
  BY <1>1, <1>2, <1>3, TodoTails DEF Target

\* No step of the system starts a service during an archive by the operator.
LEMMA NextStops ==
  ASSUME ~SizeArchives, OperatorInv, Next
  PROVE  Stops'
<1>1. CASE \/ RefuseAppend
           \/ \E w \in Writers : BeginAppend(w) \/ WriteRecord(w) \/ Refresh(w)
           \/ AppendQa
  BY <1>1 DEF RefuseAppend, BeginAppend, WriteRecord, Refresh, AppendQa, archiveVars,
     OperatorInv, Stops, OperatorBusy
<1>2. CASE StartProxy \/ StartDashboard \/ StartQuality
  BY <1>2 DEF StartProxy, StartDashboard, StartQuality, archiveVars, OperatorInv, Stops, OperatorBusy
<1>3. CASE \E s \in Services : Die(s)
  BY <1>3 DEF Die, Stopped, Aborted, OperatorInv, Stops, OperatorBusy, Shapes, ArchiversTyped, Archivers
<1>4. CASE OperatorBegins
  BY <1>4 DEF OperatorBegins, Stopped, OperatorInv, Stops, OperatorBusy, Shapes, WritersTyped
<1>5. CASE SizeBegins
  BY <1>5 DEF SizeBegins
<1>6. CASE OperatorAborts
  BY <1>6 DEF OperatorAborts, Aborted, OperatorInv, Stops, OperatorBusy, Shapes, ArchiversTyped, Archivers
<1>7. ASSUME NEW a \in Archivers, Archiving(a) PROVE Stops'
  <2>1. a = "operator" /\ up = {}
    BY <1>7, OnlyOperatorArchives
  <2>2. up' = {} /\ todo'["size"] = todo["size"]
    BY <1>7, <2>1 DEF Archiving, SkipFile, Measure, Move, MoveFails, Genesis, Done, OperatorInv,
       Shapes, ArchiversTyped, Archivers
  <2>3. QED
    BY <2>2 DEF OperatorInv, Stops
<1>8. QED
  BY <1>1, <1>2, <1>3, <1>4, <1>5, <1>6, <1>7 DEF Next

\* What leaves the quality chain and the archives alone keeps QaKept.
LEMMA QaFrame ==
  ASSUME QaKept, file'["qa"] = file["qa"], at'["operator"] = at["operator"],
         todo'["operator"] = todo["operator"], measured' = measured, cut => cut', qaTop' = qaTop,
         "quality" \in up' => "quality" \in up /\ tail' = tail
  PROVE  QaKept'
BY DEF QaKept, Moved, Target

\* Writers of decisions leave the quality chain alone.
LEMMA WriterQa ==
  ASSUME OperatorInv,
         RefuseAppend \/ \E w \in Writers : BeginAppend(w) \/ WriteRecord(w) \/ Refresh(w)
  PROVE  QaKept'
<1>1. file'["qa"] = file["qa"]
  BY DEF RefuseAppend, TamperResponse, BeginAppend, WriteRecord, Refresh, OperatorInv, Shapes,
     FilesTyped, Files
<1>2. UNCHANGED <<at, todo, measured, cut, qaTop, up, tail>>
  BY DEF RefuseAppend, BeginAppend, WriteRecord, Refresh, archiveVars
<1>3. QED
  BY <1>1, <1>2, QaFrame DEF OperatorInv

\* A quality service that starts reads its tail from the file.
LEMMA StartQa ==
  ASSUME OperatorInv, StartProxy \/ StartDashboard \/ StartQuality
  PROVE  QaKept'
<1>1. CASE StartProxy \/ StartDashboard
  <2>1. file'["qa"] = file["qa"]
    BY <1>1 DEF StartProxy, StartDashboard, TamperResponse, OperatorInv, Shapes, FilesTyped, Files
  <2>2. UNCHANGED <<at, todo, measured, cut, qaTop, tail>> /\ ("quality" \in up' => "quality" \in up)
    BY <1>1 DEF StartProxy, StartDashboard, archiveVars
  <2>3. QED
    BY <2>1, <2>2, QaFrame DEF OperatorInv
<1>2. CASE StartQuality
  BY <1>2 DEF StartQuality, archiveVars, OperatorInv, QaKept, Moved, Target
<1>3. QED
  BY <1>1, <1>2

\* The quality service appends behind the tail it has in memory.
LEMMA AppendQaQa ==
  ASSUME OperatorInv, AppendQa
  PROVE  QaKept'
<1> DEFINE r == [hash |-> nextHash, prev |-> tail.prev, seq |-> tail.seq]
<1>1. /\ r \in Record /\ r.prev = tail.prev /\ r.seq = tail.seq /\ r.hash = nextHash
      /\ file["qa"] \in Seq(Record)
  BY DEF OperatorInv, Shapes, FilesTyped, Record, Files
<1>2. file'["qa"] = Append(file["qa"], r)
  BY DEF AppendQa, OperatorInv, Shapes, FilesTyped, Files
<1> HIDE DEF r
<1>3. "quality" \in up /\ tail.prev = TailHash(file["qa"]) /\ tail.seq = LastSequence(file["qa"]) + 1
  BY DEF AppendQa, OperatorInv, QaKept
<1>4. at["operator"] = "idle" /\ at' = at
  BY <1>3 DEF AppendQa, archiveVars, OperatorInv, Stops, OperatorBusy, Shapes, ArchiversTyped, Archivers
<1>5. Linked(file["qa"])'
  BY <1>1, <1>2, <1>3, AppendLinked DEF OperatorInv, QaKept
<1>6. /\ TailHash(file["qa"])' = nextHash /\ LastSequence(file["qa"])' = tail.seq
  BY <1>1, <1>2, AppendFacts
<1>7. tail'.prev = nextHash /\ tail'.seq = tail.seq + 1
  BY DEF AppendQa
<1>8. ~cut' => LastSequence(file["qa"])' >= qaTop'
  <2>1. ~cut' => LastSequence(file["qa"]) >= qaTop
    BY <1>4 DEF AppendQa, archiveVars, OperatorInv, QaKept, Moved
  <2>2. tail.seq \in Nat /\ qaTop \in Nat /\ LastSequence(file["qa"]) \in Nat
    BY <1>1, ChainTypes DEF OperatorInv, Shapes, FilesTyped
  <2>3. QED
    BY <1>3, <1>6, <2>1, <2>2 DEF AppendQa, Top
<1>9. QED
  BY <1>4, <1>5, <1>6, <1>7, <1>8 DEF QaKept, Moved

\* Deaths, and archives that begin or are broken off: the record of an
\* interruption is what excuses a sequence that is lost.
LEMMA InterruptQa ==
  ASSUME OperatorInv,
         (\E s \in Services : Die(s)) \/ OperatorBegins \/ OperatorAborts
  PROVE  QaKept'
<1>1. CASE OperatorBegins
  <2>1. at["operator"] = "idle" /\ at'["operator"] = "idle"
    BY <1>1 DEF OperatorBegins, OperatorBusy, OperatorInv, Shapes, ArchiversTyped, Archivers
  <2>2. /\ file' = file /\ qaTop' = qaTop /\ tail' = tail /\ (cut => cut')
        /\ ("quality" \in up' => "quality" \in up)
    BY <1>1 DEF OperatorBegins, Stopped
  <2>3. QED
    BY <2>1, <2>2 DEF OperatorInv, QaKept, Moved
<1>2. CASE OperatorAborts
  <2>1. at'["operator"] = "idle" /\ cut' = (cut \/ at["operator"] = "moved")
    BY <1>2 DEF OperatorAborts, Aborted, OperatorInv, Shapes, ArchiversTyped, Archivers
  <2>2. file' = file /\ qaTop' = qaTop /\ tail' = tail /\ up' = up
    BY <1>2 DEF OperatorAborts
  <2>3. QED
    BY <2>1, <2>2 DEF OperatorInv, QaKept, Moved
<1>3. ASSUME NEW s \in Services, Die(s) PROVE QaKept'
  <2>1. /\ at'["operator"] = at["operator"] /\ todo'["operator"] = todo["operator"]
        /\ measured' = measured /\ (cut => cut')
    BY <1>3 DEF Die, Aborted, OperatorInv, Shapes, ArchiversTyped, Archivers
  <2>2. file' = file /\ qaTop' = qaTop /\ tail' = tail /\ ("quality" \in up' => "quality" \in up)
    BY <1>3 DEF Die, Stopped
  <2>3. QED
    BY <2>1, <2>2, QaFrame DEF OperatorInv
<1>4. QED
  BY <1>1, <1>2, <1>3

\* What one step of the operator does to the file it is at and to the other one.
LEMMA ArchivingQa ==
  ASSUME OperatorInv, NEW a \in Archivers, Archiving(a)
  PROVE  QaKept'
<1>0. /\ a = "operator" /\ up = {} /\ Target("operator") \in Files
      /\ file["qa"] \in Seq(Record) /\ LastSequence(file["qa"]) \in Nat
      /\ qaTop \in Nat /\ measured["operator"] \in Nat
  BY OnlyOperatorArchives, ChainTypes DEF OperatorInv, Shapes, FilesTyped, ArchiversTyped, Files, Archivers
<1>1. up' = {} /\ cut' = cut
  BY <1>0 DEF Archiving, SkipFile, Measure, Move, MoveFails, Genesis
<1>2. CASE SkipFile(a) \/ MoveFails(a)
  <2>1. at'["operator"] = "idle" /\ at["operator"] # "moved" /\ file' = file /\ qaTop' = qaTop
    BY <1>0, <1>2 DEF SkipFile, MoveFails, OperatorInv, Shapes, ArchiversTyped, Archivers
  <2>2. QED
    BY <1>1, <2>1 DEF OperatorInv, QaKept, Moved
<1>3. CASE Measure(a)
  <2>1. /\ at'["operator"] = "measured" /\ at["operator"] = "idle" /\ file' = file /\ qaTop' = qaTop
        /\ todo' = todo /\ measured'["operator"] = LastSequence(file[Target("operator")])
    BY <1>0, <1>3 DEF Measure, OperatorInv, Shapes, ArchiversTyped, Archivers
  <2>2. QED
    BY <1>1, <2>1 DEF OperatorInv, QaKept, Moved, Target
<1>4. CASE Move(a)
  <2>1. /\ at'["operator"] = "moved" /\ at["operator"] = "measured" /\ qaTop' = qaTop
        /\ todo' = todo /\ measured' = measured
        /\ file' = [file EXCEPT ![Target("operator")] = <<>>]
    BY <1>0, <1>4 DEF Move, OperatorInv, Shapes, ArchiversTyped, Archivers
  <2>2. CASE Target("operator") = "qa"
    <3>1. file'["qa"] = <<>> /\ Target("operator")' = "qa"
      BY <2>1, <2>2 DEF OperatorInv, Shapes, FilesTyped, Files, Target
    <3>2. QED
      BY <1>1, <2>1, <2>2, <3>1, EmptyFacts DEF OperatorInv, QaKept, Moved
  <2>3. CASE Target("operator") # "qa"
    <3>1. file'["qa"] = file["qa"] /\ Target("operator")' # "qa"
      BY <2>1, <2>3 DEF OperatorInv, Shapes, FilesTyped, Files, Target
    <3>2. QED
      BY <1>1, <2>1, <3>1 DEF OperatorInv, QaKept, Moved
  <2>4. QED
    BY <2>2, <2>3
<1>5. CASE Genesis(a)
  <2> DEFINE r == [hash |-> nextHash, prev |-> NoHash, seq |-> measured["operator"] + 1]
  <2>1. /\ at'["operator"] = "idle" /\ at["operator"] = "moved"
        /\ file' = [file EXCEPT ![Target("operator")] = <<r>>]
        /\ qaTop' = IF Target("operator") = "qa" THEN Top(measured["operator"] + 1) ELSE qaTop
    BY <1>0, <1>5 DEF Genesis, OperatorInv, Shapes, ArchiversTyped, Archivers
  <2>2. r \in Record /\ r.seq = measured["operator"] + 1
    BY <1>0 DEF Record, NoHash, OperatorInv, Shapes, FilesTyped
  <2> HIDE DEF r
  <2>3. CASE Target("operator") = "qa"
    <3>1. file'["qa"] = <<r>>
      BY <2>1, <2>3 DEF OperatorInv, Shapes, FilesTyped, Files
    <3>2. Linked(file["qa"])' /\ LastSequence(file["qa"])' = measured["operator"] + 1
      BY <2>2, <3>1, GenesisFacts
    <3>3. ~cut => measured["operator"] + 1 >= Top(measured["operator"] + 1)
      BY <1>0, <2>1, <2>3, EmptyFacts DEF OperatorInv, QaKept, Moved, Top
    <3>4. QED
      BY <1>1, <2>1, <2>3, <3>2, <3>3 DEF QaKept, Moved
  <2>4. CASE Target("operator") # "qa"
    <3>1. file'["qa"] = file["qa"] /\ qaTop' = qaTop
      BY <2>1, <2>4 DEF OperatorInv, Shapes, FilesTyped, Files
    <3>2. QED
      BY <1>1, <2>1, <2>4, <3>1 DEF OperatorInv, QaKept, Moved
  <2>5. QED
    BY <2>3, <2>4
<1>6. QED
  BY <1>2, <1>3, <1>4, <1>5 DEF Archiving

\* OperatorInv is an invariant where only the operator archives.
LEMMA OperatorInduction ==
  ASSUME ~SizeArchives
  PROVE  Spec => []OperatorInv
<1>1. OperatorInv /\ Next => OperatorInv'
  <2>1. OperatorInv /\ Next => Shapes' /\ Stops'
    BY NextShapes, NextStops DEF OperatorInv
  <2>2. ~SizeBegins
    BY DEF SizeBegins
  <2>3. OperatorInv /\ Next => QaKept'
    BY <2>2, WriterQa, StartQa, AppendQaQa, InterruptQa, ArchivingQa DEF Next
  <2>4. QED
    BY <2>1, <2>3 DEF OperatorInv
<1>2. OperatorInv /\ UNCHANGED vars => OperatorInv'
  <2>1. OperatorInv /\ UNCHANGED vars => Shapes'
    BY NextShapes DEF OperatorInv
  <2>2. QED
    BY <2>1 DEF OperatorInv, Stops, QaKept, OperatorBusy, Moved, Target, vars
<1>3. QED
  BY <1>1, <1>2, InitOperator, PTL DEF Spec

\* Where only the operator archives, and is not interrupted, the sequence of the
\* quality chain never moves backwards (chain_archive.py, write_chain_genesis).
THEOREM SequencesGrow == ASSUME ~SizeArchives PROVE Spec => []SequenceNeverBackwards
<1>1. OperatorInv => SequenceNeverBackwards
  <2>1. SUFFICES ASSUME OperatorInv, ~cut, file["qa"] # <<>>
                 PROVE  LastSequence(file["qa"]) >= qaTop
    BY DEF SequenceNeverBackwards
  <2>2. QED
    BY <2>1 DEF OperatorInv, QaKept
<1>2. QED
  BY <1>1, OperatorInduction, PTL

-----------------------------------------------------------------------------
(* Where, besides, only services write decisions *)

OnlyServicesWrite == ~SizeArchives /\ "command" \notin Writers

\* A writer at work holds the lock, and a service that holds it runs.  What it
\* has read is the end of the chain, unless the chain was archived as tampered
\* with since; what it has written is still somewhere.
WriterKept(w) ==
  /\ pc[w] # "idle" => turn = w
  /\ pc[w] = "write" => head[w] = TailHash(file["decision"]) \/ file["decision"] = <<>>
  /\ pc[w] = "refresh" => mine[w] \in kept \cup Hashes(file["decision"])

\* The chain has grown since the checkpoint, or is as it was then.
Counted ==
  Len(file["decision"]) > ckpt.count \/ Summarize(file["decision"]) = ckpt

DecisionKept ==
  /\ turn # "free" => turn \in up
  /\ \A w \in Writers : WriterKept(w)
  /\ Linked(file["decision"])
  /\ Moved("decision") => file["decision"] = <<>>
  /\ "proxy" \in up => Counted
  /\ NeverRefusedWhileServing
  /\ AcknowledgedKept

DecisionInv == OperatorInv /\ DecisionKept

\* Types of what the decision chain is compared by.
LEMMA DecisionTyped ==
  ASSUME OperatorInv
  PROVE  /\ file["decision"] \in Seq(Record) /\ Len(file["decision"]) \in Nat
         /\ ckpt.count \in Nat /\ nextHash \in Nat
         /\ Summarize(file["decision"]).count = Len(file["decision"])
<1>1. file["decision"] \in Seq(Record) /\ ckpt.count \in Nat /\ nextHash \in Nat
  BY DEF OperatorInv, Shapes, FilesTyped, Files, Summary
<1>2. QED
  BY <1>1, ChainTypes

\* DecisionKept holds initially.
LEMMA InitDecision == Init => DecisionKept
<1>1. Init => /\ file["decision"] = <<>> /\ at["operator"] = "idle" /\ up = {} /\ turn = "free"
              /\ \A w \in Writers : pc[w] = "idle"
  BY DEF Init, Files, Archivers
<1>2. Init => acked = {} /\ alarms = {}
  BY DEF Init
<1>3. QED
  BY <1>1, <1>2, EmptyFacts DEF DecisionKept, WriterKept, Moved, NeverRefusedWhileServing,
     AcknowledgedKept

\* While a service runs no file is between its move and its genesis.
LEMMA RunsNotMoved ==
  ASSUME OperatorInv, up # {}
  PROVE  ~OperatorBusy /\ at["operator"] = "idle"
BY DEF OperatorInv, Stops, OperatorBusy, Shapes, ArchiversTyped, Archivers

\* A writer takes the lock and reads the end of the chain.
LEMMA BeginKeeps ==
  ASSUME OnlyServicesWrite, DecisionInv, NEW w \in Writers, BeginAppend(w)
  PROVE  DecisionKept'
<1>1. /\ w \in up /\ turn = "free" /\ turn' = w /\ up' = up /\ file' = file /\ kept' = kept
      /\ at' = at /\ todo' = todo /\ alarms' = alarms /\ acked' = acked /\ mine' = mine
  BY DEF BeginAppend, Running, OnlyServicesWrite, archiveVars
<1>2. ~Moved("decision")'
  BY <1>1, RunsNotMoved DEF DecisionInv, Moved
<1>3. ASSUME NEW v \in Writers PROVE WriterKept(v)'
  <2>1. v # w => pc'[v] = "idle"
    BY <1>1, WriterKinds DEF BeginAppend, DecisionInv, DecisionKept, WriterKept, OperatorInv, Shapes, WritersTyped
  <2>2. v = w => pc'[v] = "write" /\ head'[v] = TailHash(file["decision"])
    BY DEF BeginAppend, DecisionInv, OperatorInv, Shapes, WritersTyped
  <2>3. QED
    BY <1>1, <2>1, <2>2 DEF WriterKept
<1>4. "proxy" \in up' => Counted'
  BY <1>1 DEF BeginAppend, DecisionInv, DecisionKept, Counted, Sound, Summarize, TailHash
<1>5. QED
  BY <1>1, <1>2, <1>3, <1>4 DEF DecisionInv, DecisionKept, NeverRefusedWhileServing, AcknowledgedKept

\* It writes the record it has prepared.
LEMMA WriteKeeps ==
  ASSUME OnlyServicesWrite, DecisionInv, NEW w \in Writers, WriteRecord(w)
  PROVE  DecisionKept'
<1> DEFINE r == [hash |-> nextHash, prev |-> head[w], seq |-> 0]
<1>1. /\ pc[w] = "write" /\ w # "command" /\ turn = w /\ turn \in up
  BY WriterKinds DEF WriteRecord, OnlyServicesWrite, DecisionInv, DecisionKept, WriterKept
<1>2. /\ turn' = turn /\ up' = up /\ kept' = kept /\ ckpt' = ckpt
      /\ at' = at /\ todo' = todo /\ alarms' = alarms /\ acked' = acked
  BY <1>1 DEF WriteRecord, archiveVars
<1>3. /\ r \in Record /\ r.prev = head[w] /\ r.hash = nextHash
      /\ file'["decision"] = Append(file["decision"], r)
  BY DEF WriteRecord, DecisionInv, OperatorInv, Shapes, FilesTyped, WritersTyped, Files, Record
<1> HIDE DEF r
<1>4. /\ Linked(file["decision"])'
      /\ Hashes(file["decision"])' = Hashes(file["decision"]) \cup {nextHash}
      /\ Len(file["decision"])' = Len(file["decision"]) + 1
  <2>1. head[w] = TailHash(file["decision"]) \/ file["decision"] = <<>>
    BY <1>1 DEF DecisionInv, DecisionKept, WriterKept
  <2>2. Linked(file["decision"])
    BY DEF DecisionInv, DecisionKept
  <2>3. QED
    BY <1>3, <2>1, <2>2, DecisionTyped, AppendFacts, AppendLinked DEF DecisionInv
<1>5. ~Moved("decision")'
  BY <1>1, <1>2, RunsNotMoved DEF DecisionInv, Moved
<1>6. ASSUME NEW v \in Writers PROVE WriterKept(v)'
  <2>1. v # w => pc'[v] = "idle"
    BY <1>1, WriterKinds DEF WriteRecord, DecisionInv, DecisionKept, WriterKept, OperatorInv, Shapes, WritersTyped
  <2>2. v = w => pc'[v] = "refresh" /\ mine'[v] = nextHash
    BY <1>1 DEF WriteRecord, DecisionInv, OperatorInv, Shapes, WritersTyped
  <2>3. QED
    BY <1>1, <1>2, <1>4, <2>1, <2>2 DEF WriterKept
<1>7. "proxy" \in up' => Counted'
  <2>1. "proxy" \in up => Len(file["decision"]) >= ckpt.count
    BY DecisionTyped DEF DecisionInv, DecisionKept, Counted
  <2>2. QED
    BY <1>2, <1>4, <2>1, DecisionTyped DEF DecisionInv, Counted
<1>8. QED
  BY <1>1, <1>2, <1>4, <1>5, <1>6, <1>7
     DEF DecisionInv, DecisionKept, NeverRefusedWhileServing, AcknowledgedKept

\* It refreshes the checkpoint and reports the append as done.
LEMMA RefreshKeeps ==
  ASSUME OnlyServicesWrite, DecisionInv, NEW w \in Writers, Refresh(w)
  PROVE  DecisionKept'
<1>1. /\ pc[w] = "refresh" /\ turn = w /\ turn' = "free" /\ up' = up /\ file' = file /\ kept' = kept
      /\ at' = at /\ todo' = todo /\ alarms' = alarms /\ head' = head
  BY DEF Refresh, DecisionInv, DecisionKept, WriterKept, archiveVars
<1>2. ASSUME NEW v \in Writers PROVE pc'[v] = "idle"
  BY <1>1 DEF Refresh, DecisionInv, DecisionKept, WriterKept, OperatorInv, Shapes, WritersTyped
<1>3. ckpt' = Summarize(file["decision"])
  BY DEF Refresh, DecisionInv, DecisionKept
<1>4. Counted'
  BY <1>1, <1>3 DEF Counted, Summarize, TailHash
<1>5. mine[w] \in kept \cup Hashes(file["decision"])
  BY <1>1 DEF DecisionInv, DecisionKept, WriterKept
<1>6. AcknowledgedKept'
  BY <1>1, <1>5 DEF Refresh, DecisionInv, DecisionKept, AcknowledgedKept
<1>7. Moved("decision")' <=> Moved("decision")
  BY <1>1 DEF Moved, Target
<1>8. QED
  BY <1>1, <1>2, <1>4, <1>6, <1>7 DEF DecisionInv, DecisionKept, WriterKept, NeverRefusedWhileServing

\* The proxy that runs has nothing to refuse.
LEMMA NothingRefused ==
  ASSUME DecisionInv PROVE ~RefuseAppend
BY DEF RefuseAppend, Running, Sound, DecisionInv, DecisionKept, Counted

\* Services start; the proxy may archive the chain as tampered with, under the
\* feet of a writer.
LEMMA StartKeeps ==
  ASSUME DecisionInv, StartProxy \/ StartDashboard \/ StartQuality \/ AppendQa
  PROVE  DecisionKept'
<1>1. UNCHANGED <<turn, pc, head, mine, at, todo, acked>> /\ up \subseteq up'
  BY DEF StartProxy, StartDashboard, StartQuality, AppendQa, writerVars, archiveVars
<1>2. CASE StartProxy /\ TamperResponse("start")
  <2>1. /\ file'["decision"] = <<>> /\ kept' = kept \cup Hashes(file["decision"]) /\ ckpt' = Empty
        /\ alarms' = alarms \cup {"start"}
    BY <1>2 DEF TamperResponse, DecisionInv, OperatorInv, Shapes, FilesTyped, Files
  <2>2. Linked(file["decision"])' /\ Counted'
    BY <2>1, EmptyFacts DEF Counted, Summarize, TailHash
  <2>3. AcknowledgedKept' /\ NeverRefusedWhileServing'
    BY <1>1, <2>1 DEF DecisionInv, DecisionKept, AcknowledgedKept, NeverRefusedWhileServing
  <2>4. ASSUME NEW w \in Writers PROVE WriterKept(w)'
    BY <1>1, <2>1 DEF DecisionInv, DecisionKept, WriterKept
  <2>5. QED
    BY <1>1, <2>1, <2>2, <2>3, <2>4 DEF DecisionInv, DecisionKept
<1>3. CASE ~(StartProxy /\ TamperResponse("start"))
  <2>1. /\ file'["decision"] = file["decision"] /\ kept' = kept /\ alarms' = alarms
    BY <1>3 DEF StartProxy, StartDashboard, StartQuality, AppendQa, DecisionInv, OperatorInv,
       Shapes, FilesTyped, Files
  <2>2. "proxy" \in up' => Counted'
    BY <1>3, <2>1 DEF StartProxy, StartDashboard, StartQuality, AppendQa, DecisionInv,
       DecisionKept, Counted, Summarize, TailHash
  <2>3. Moved("decision")' <=> Moved("decision")
    BY <1>1 DEF Moved, Target
  <2>4. QED
    BY <1>1, <2>1, <2>2, <2>3 DEF DecisionInv, DecisionKept, WriterKept, AcknowledgedKept,
       NeverRefusedWhileServing
<1>4. QED
  BY <1>2, <1>3

\* Deaths, and archives that begin or are broken off, end writers only.
LEMMA InterruptKeeps ==
  ASSUME OnlyServicesWrite, DecisionInv,
         (\E s \in Services : Die(s)) \/ OperatorBegins \/ OperatorAborts
  PROVE  DecisionKept'
<1>1. UNCHANGED <<file, kept, ckpt, acked, alarms>>
  BY DEF Die, OperatorBegins, OperatorAborts
<1>2. ASSUME Moved("decision")' PROVE Moved("decision")
  BY <1>2 DEF Die, OperatorBegins, OperatorAborts, Aborted, Moved, Target, OperatorBusy, DecisionInv,
     OperatorInv, Shapes, ArchiversTyped, Archivers
<1> DEFINE NoneBegins ==
      /\ up' \subseteq up /\ (turn' # "free" => turn' \in up')
      /\ \A w \in Writers : pc'[w] # "idle" =>
           pc'[w] = pc[w] /\ head'[w] = head[w] /\ mine'[w] = mine[w] /\ turn' = turn
<1>3. NoneBegins
  <2>1. ASSUME NEW S \in SUBSET Services, Stopped(S)
        PROVE  NoneBegins
    BY <2>1 DEF Stopped, DecisionInv, DecisionKept, WriterKept
  <2>2. CASE OperatorAborts
    BY <2>2 DEF OperatorAborts, writerVars, DecisionInv, DecisionKept
  <2>3. QED
    BY <2>1, <2>2 DEF Die, OperatorBegins
<1>4. QED
  BY <1>1, <1>2, <1>3 DEF DecisionInv, DecisionKept, WriterKept, Counted, AcknowledgedKept,
     NeverRefusedWhileServing

\* No writer is at work when a file is moved or a genesis is written.
LEMMA ArchivingKeeps ==
  ASSUME OnlyServicesWrite, DecisionInv, NEW a \in Archivers, Archiving(a)
  PROVE  DecisionKept'
<1>0. /\ a = "operator" /\ up = {} /\ Target("operator") \in Files
      /\ turn = "free" /\ (\A w \in Writers : pc[w] = "idle")
  BY OnlyOperatorArchives, WriterKinds DEF DecisionInv, DecisionKept, WriterKept
<1>1. UNCHANGED <<up, turn, pc, alarms, acked, ckpt>>
  BY DEF Archiving, SkipFile, Measure, Move, MoveFails, Genesis, writerVars
<1>2. SUFFICES /\ Linked(file["decision"])' /\ (Moved("decision")' => file'["decision"] = <<>>)
               /\ kept \cup Hashes(file["decision"]) \subseteq kept' \cup Hashes(file["decision"])'
  BY <1>0, <1>1 DEF DecisionInv, DecisionKept, WriterKept, NeverRefusedWhileServing, AcknowledgedKept
<1>3. CASE SkipFile(a) \/ MoveFails(a) \/ Measure(a)
  <2>1. at'["operator"] # "moved" /\ file' = file /\ kept' = kept
    BY <1>0, <1>3 DEF SkipFile, MoveFails, Measure, DecisionInv, OperatorInv, Shapes,
       ArchiversTyped, Archivers
  <2>2. QED
    BY <2>1 DEF DecisionInv, DecisionKept, Moved
<1>4. CASE Move(a)
  <2>1. /\ todo' = todo /\ file' = [file EXCEPT ![Target("operator")] = <<>>]
        /\ kept' = kept \cup Hashes(file[Target("operator")])
    BY <1>0, <1>4 DEF Move
  <2>2. CASE Target("operator") = "decision"
    <3>1. file'["decision"] = <<>>
      BY <2>1, <2>2 DEF DecisionInv, OperatorInv, Shapes, FilesTyped, Files
    <3>2. QED
      BY <2>1, <2>2, <3>1, EmptyFacts
  <2>3. CASE Target("operator") # "decision"
    <3>1. file'["decision"] = file["decision"] /\ Target("operator")' # "decision"
      BY <2>1, <2>3 DEF DecisionInv, OperatorInv, Shapes, FilesTyped, Files, Target
    <3>2. QED
      BY <2>1, <3>1 DEF DecisionInv, DecisionKept, Moved
  <2>4. QED
    BY <2>2, <2>3
<1>5. CASE Genesis(a)
  <2> DEFINE r == [hash |-> nextHash, prev |-> NoHash, seq |-> measured["operator"] + 1]
  <2>1. /\ at'["operator"] = "idle" /\ at["operator"] = "moved" /\ kept' = kept
        /\ file' = [file EXCEPT ![Target("operator")] = <<r>>]
    BY <1>0, <1>5 DEF Genesis, DecisionInv, OperatorInv, Shapes, ArchiversTyped, Archivers
  <2>2. r \in Record
    BY DEF Record, NoHash, DecisionInv, OperatorInv, Shapes, FilesTyped, ArchiversTyped, Archivers
  <2> HIDE DEF r
  <2>3. CASE Target("operator") = "decision"
    <3>1. file'["decision"] = <<r>> /\ file["decision"] = <<>>
      BY <2>1, <2>3 DEF DecisionInv, DecisionKept, Moved, OperatorInv, Shapes, FilesTyped, Files
    <3>2. QED
      BY <2>1, <2>2, <3>1, GenesisFacts, EmptyFacts DEF Moved
  <2>4. CASE Target("operator") # "decision"
    <3>1. file'["decision"] = file["decision"]
      BY <2>1, <2>4 DEF DecisionInv, OperatorInv, Shapes, FilesTyped, Files
    <3>2. QED
      BY <2>1, <3>1 DEF DecisionInv, DecisionKept, Moved
  <2>5. QED
    BY <2>3, <2>4
<1>6. QED
  BY <1>3, <1>4, <1>5 DEF Archiving

\* DecisionInv is an invariant where besides only services write.
LEMMA DecisionInduction ==
  ASSUME OnlyServicesWrite
  PROVE  Spec => []DecisionInv
<1>1. OperatorInv /\ OperatorInv' /\ DecisionKept /\ [Next]_vars => DecisionKept'
  <2>1. SUFFICES ASSUME DecisionInv, [Next]_vars PROVE DecisionKept'
    BY DEF DecisionInv
  <2>2. CASE Next
    <3>1. ~SizeBegins
      BY DEF SizeBegins, OnlyServicesWrite
    <3>2. QED
      BY <2>1, <2>2, <3>1, BeginKeeps, WriteKeeps, RefreshKeeps, NothingRefused, StartKeeps,
         InterruptKeeps, ArchivingKeeps DEF Next
  <2>3. CASE UNCHANGED vars
    BY <2>1, <2>3 DEF DecisionInv, DecisionKept, WriterKept, Moved, Target, Counted,
       NeverRefusedWhileServing, AcknowledgedKept, vars
  <2>4. QED
    BY <2>1, <2>2, <2>3
<1>2. Spec => []OperatorInv
  BY OperatorInduction DEF OnlyServicesWrite
<1>3. QED
  BY <1>1, <1>2, InitDecision, PTL DEF Spec, DecisionInv

\* Where only services write decisions and only the operator archives, a decision
\* reported as recorded stays in the chain or in an archive (chain_archive.py).
THEOREM AcknowledgedStays == ASSUME OnlyServicesWrite PROVE Spec => []AcknowledgedKept
<1>1. DecisionInv => AcknowledgedKept
  BY DEF DecisionInv, DecisionKept
<1>2. QED
  BY <1>1, DecisionInduction, PTL

\* Under the same conditions the startup gate of the quality service accepts the
\* chains whenever it is down (service.rs).
THEOREM QualityRestarts == ASSUME OnlyServicesWrite PROVE Spec => []QualityCanStart
<1>1. DecisionInv => QualityCanStart
  BY DEF DecisionInv, DecisionKept, OperatorInv, QaKept, QualityCanStart, GatePasses
<1>2. QED
  BY <1>1, DecisionInduction, PTL

\* Under the same conditions a proxy that serves never finds its chain tampered
\* with (verify_chain_writable of integrity_monitor.py).
THEOREM NeverRefused == ASSUME OnlyServicesWrite PROVE Spec => []NeverRefusedWhileServing
<1>1. DecisionInv => NeverRefusedWhileServing
  BY DEF DecisionInv, DecisionKept
<1>2. QED
  BY <1>1, DecisionInduction, PTL

=============================================================================
