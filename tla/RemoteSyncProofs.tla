-------------------------- MODULE RemoteSyncProofs --------------------------
(* Proofs about RemoteSync, for any number of records, calls, archives and   *)
(* deaths of the sync service.                                               *)
EXTENDS RemoteSync, TLAPS

Steps == {"none", "failed", "answered"} \cup AtWork
Rows == {"none", "active", "removed"}
Pairs == Nat \X Nat
Threads == [pc : Steps, seg : Pairs, envelope : Nat, row : Rows, late : BOOLEAN]

\* The shapes of the variables.  They do not name the bounds.
Shapes ==
  /\ remote \in [base : Nat, top : Nat, cursor : Nat, starts : SUBSET Nat]
  /\ client \in [pc : {"idle", "waiting", "received"}, call : Nat, seg : Pairs]
  /\ confirmed \subseteq Nat
  /\ handler \in [Calls -> Threads]
  /\ imports \in Seq(Pairs) /\ cut \in 0..Len(imports)
  /\ stored \subseteq Pairs
  /\ DOMAIN manifest \subseteq stored /\ manifest = [s \in DOMAIN manifest |-> manifest[s]]
  /\ registry \in {"active", "removed"}
  /\ events \in {"added", "removing", "removed", "archived"}

\* A segment of records the remote has written.
Written(seg) == 1 <= seg[1] /\ seg[1] <= seg[2] /\ seg[2] <= remote.top

\* The remote's file, and the segments that were read from it.
Sent ==
  /\ 1 <= remote.base /\ remote.base <= remote.top
  /\ client.pc = "waiting" =>
       client.call \in Calls /\ client.seg = handler[client.call].seg
  /\ \A c \in Calls : IF c <= client.call THEN Written(handler[c].seg)
                      ELSE handler[c].pc = "none"
  /\ \A i \in DOMAIN imports : Written(imports[i])

Imported(seg) == \E i \in DOMAIN imports : imports[i] = seg

\* What a thread, and a manifest, relies on is stored and imported.
ThreadKeeps(c) ==
  /\ handler[c].pc \in {"stored", "appended", "marking", "reporting", "answered"}
       => handler[c].seg \in stored
  /\ handler[c].pc = "appended" =>
       handler[c].envelope \in DOMAIN imports /\ imports[handler[c].envelope] = handler[c].seg
  /\ handler[c].pc \in {"marking", "reporting", "answered"} => Imported(handler[c].seg)

Kept ==
  /\ \A c \in Calls : ThreadKeeps(c)
  /\ \A s \in DOMAIN manifest : manifest[s] \in DOMAIN imports /\ imports[manifest[s]] = s

\* A removal in the chain is final, and no late segment is past its check.
Late ==
  \A c \in Calls : handler[c].late =>
    events = "removed" /\ handler[c].pc \notin {"verified", "stored", "appended"}

\* With a patient client one thread is at work, that of the call the client
\* waits for; while the machine is authorized no envelope is archived; a segment
\* that is verified follows the last one of the chain.
Alone ==
  \A c \in Calls : handler[c].pc \in AtWork => client.pc = "waiting" /\ client.call = c

Fits(seg) == imports # <<>> => PrevHash(seg[1]) = imports[Len(imports)][2]

Verified ==
  \A c \in Calls : handler[c].pc \in {"verified", "stored"} => Fits(handler[c].seg)

CutEndsIt == events \in {"added", "removing"} => cut = 0

Links == CutEndsIt /\ (Patient => Alone /\ Verified) /\ LinkedImports

\* What the bounds of the model and the remote's file leave of the shapes.
Bounds ==
  /\ remote.top <= MaxRecords /\ remote.cursor <= MaxRecords
  /\ remote.starts \subseteq 1..remote.top /\ confirmed \subseteq 1..remote.top
  /\ client.call <= MaxCalls /\ client.seg \in Segments
  /\ \A c \in Calls : handler[c].seg \in Segments /\ handler[c].envelope <= Len(imports)
  /\ stored \subseteq Segments
  /\ crashes \in 0..MaxCrashes

IInv == Shapes /\ Sent /\ Bounds /\ Kept /\ ConfirmedIsImported /\ Late /\ Links

-----------------------------------------------------------------------------
\* The steps of the thread of one call.
Thread(c) ==
  \/ Arrive(c) \/ Admit(c) \/ Lookup(c) \/ Verify(c) \/ Store(c)
  \/ AppendEnvelope(c) \/ AppendFails(c) \/ WriteManifest(c)
  \/ LoadRegistry(c) \/ SaveRegistry(c)

\* The steps of the remote and the operator, and the death of the service.
OtherStep ==
  \/ RemoteAppends \/ RemoteRolls
  \/ SyncBegins \/ Receive \/ MovesCursor \/ GiveUp
  \/ ServiceDies
  \/ RemoveRow \/ RemoveEvent \/ PrimaryCut

Others(c) == \A d \in Calls \ {c} : handler'[d] = handler[d]

\* A step of a thread writes its label, its envelope and its row.
Moves(c, to) ==
  /\ handler' \in [Calls -> Threads] /\ Others(c)
  /\ handler'[c].pc = to
  /\ handler'[c].seg = handler[c].seg /\ handler'[c].late = handler[c].late

LEMMA GoesTo ==
  ASSUME Shapes, NEW c \in Calls, NEW from, NEW to \in Steps, Goes(c, from, to)
  PROVE  /\ handler[c].pc = from /\ Moves(c, to)
         /\ handler'[c].envelope = handler[c].envelope
BY DEF Shapes, Goes, Moves, Others, Threads

LEMMA AppendMoves ==
  ASSUME Shapes, NEW c \in Calls, AppendEnvelope(c)
  PROVE  /\ Moves(c, "appended")
         /\ imports' = Append(imports, handler[c].seg) /\ imports' \in Seq(Pairs)
         /\ Len(imports') = Len(imports) + 1
         /\ handler'[c].envelope = Len(imports) + 1
<1>1. /\ imports' = Append(imports, handler[c].seg) /\ imports' \in Seq(Pairs)
      /\ Len(imports') = Len(imports) + 1
  BY DEF Shapes, AppendEnvelope, Threads
<1>2. Len(imports) + 1 \in Nat /\ "appended" \in Steps
  BY DEF Shapes, Steps, AtWork
<1>3. DEFINE n == Len(imports) + 1
<1>4. handler' = [handler EXCEPT ![c].pc = "appended", ![c].envelope = n]
  BY <1>1 DEF AppendEnvelope
<1>5. n \in Nat
  BY <1>2
<1> HIDE DEF n
<1>6. Moves(c, "appended") /\ handler'[c].envelope = n
  BY <1>2, <1>4, <1>5 DEF Shapes, Moves, Others, Threads
<1>7. QED
  BY <1>1, <1>6 DEF n

LEMMA LoadMoves ==
  ASSUME Shapes, NEW c \in Calls, LoadRegistry(c)
  PROVE  /\ handler[c].pc \in {"opening", "marking", "reporting"}
         /\ Moves(c, handler[c].pc) /\ registry' \in {"active", "removed"}
<1>1. handler[c].pc \in {"opening", "marking", "reporting"}
  BY DEF LoadRegistry, AfterSave
<1>2. /\ handler' = [handler EXCEPT ![c].row = registry]
      /\ registry \in Rows /\ registry' \in {"active", "removed"}
  BY DEF Shapes, LoadRegistry, Rows
<1>3. Moves(c, handler[c].pc)
  BY <1>2 DEF Shapes, Moves, Others, Threads
<1>4. QED
  BY <1>1, <1>2, <1>3

LEMMA SaveMoves ==
  ASSUME Shapes, NEW c \in Calls, SaveRegistry(c)
  PROVE  /\ handler[c].pc \in {"opening", "marking", "reporting"}
         /\ Moves(c, AfterSave[handler[c].pc]) /\ registry' \in {"active", "removed"}
<1>1. /\ handler[c].pc \in {"opening", "marking", "reporting"}
      /\ AfterSave[handler[c].pc] \in Steps
  BY DEF SaveRegistry, AfterSave, Steps, AtWork
<1>2. DEFINE to == AfterSave[handler[c].pc]
<1>3. /\ handler' = [handler EXCEPT ![c].pc = to, ![c].row = "none"]
      /\ to \in Steps /\ "none" \in Rows
  BY <1>1 DEF SaveRegistry, Rows
<1> HIDE DEF to
<1>4. Moves(c, to)
  BY <1>3 DEF Shapes, Moves, Others, Threads
<1>5. registry' \in {"active", "removed"}
  BY DEF Shapes, SaveRegistry, Threads, Rows
<1>6. QED
  BY <1>1, <1>4, <1>5 DEF to

\* Where the thread that moves comes from and goes to.
Path(c) ==
  \/ Arrive(c) /\ handler[c].pc = "none" /\ \E to \in {"opening", "failed"} : Moves(c, to)
  \/ Admit(c) /\ handler[c].pc = "opened" /\ \E to \in {"admitted", "failed"} : Moves(c, to)
  \/ Lookup(c) /\ handler[c].pc = "admitted" /\ \E to \in {"marking", "looked"} : Moves(c, to)
  \/ Verify(c) /\ handler[c].pc = "looked" /\ \E to \in {"failed", "marking", "verified"} : Moves(c, to)
  \/ Store(c) /\ handler[c].pc = "verified" /\ Moves(c, "stored")
  \/ AppendEnvelope(c) /\ handler[c].pc = "stored" /\ Moves(c, "appended")
  \/ AppendFails(c) /\ handler[c].pc = "stored" /\ Moves(c, "failed")
  \/ WriteManifest(c) /\ handler[c].pc = "appended" /\ Moves(c, "marking")
  \/ LoadRegistry(c) /\ handler[c].pc \in {"opening", "marking", "reporting"} /\ Moves(c, handler[c].pc)
  \/ SaveRegistry(c) /\ handler[c].pc = "opening" /\ Moves(c, "opened")
  \/ SaveRegistry(c) /\ handler[c].pc = "marking" /\ Moves(c, "reporting")
  \/ SaveRegistry(c) /\ handler[c].pc = "reporting" /\ Moves(c, "answered")

LEMMA ThreadPath ==
  ASSUME Shapes, NEW c \in Calls, Thread(c)
  PROVE  Path(c)
<1>0. /\ {"opening", "admitted", "looked", "marking", "verified", "stored", "failed"} \subseteq Steps
      /\ DOMAIN AfterSave = {"opening", "marking", "reporting"}
      /\ AfterSave["opening"] = "opened" /\ AfterSave["marking"] = "reporting"
      /\ AfterSave["reporting"] = "answered"
  BY DEF Steps, AtWork, AfterSave
<1>1. CASE Arrive(c)
  <2>1. \E to \in {"opening", "failed"} : Goes(c, "none", to)
    BY <1>1 DEF Arrive
  <2>2. QED
    BY <1>0, <1>1, <2>1, GoesTo DEF Path
<1>2. CASE Admit(c)
  <2>1. \E to \in {"admitted", "failed"} : Goes(c, "opened", to)
    BY <1>2 DEF Admit
  <2>2. QED
    BY <1>0, <1>2, <2>1, GoesTo DEF Path
<1>3. CASE Lookup(c)
  <2>1. \E to \in {"marking", "looked"} : Goes(c, "admitted", to)
    BY <1>3 DEF Lookup
  <2>2. QED
    BY <1>0, <1>3, <2>1, GoesTo DEF Path
<1>4. CASE Verify(c)
  <2>1. \E to \in {"failed", "marking", "verified"} : Goes(c, "looked", to)
    BY <1>4 DEF Verify
  <2>2. QED
    BY <1>0, <1>4, <2>1, GoesTo DEF Path
<1>5. CASE Store(c)
  BY <1>0, <1>5, GoesTo DEF Store, Path
<1>6. CASE AppendEnvelope(c)
  <2>1. handler[c].pc = "stored"
    BY <1>6 DEF AppendEnvelope
  <2>2. QED
    BY <1>6, <2>1, AppendMoves DEF Path
<1>7. CASE AppendFails(c)
  BY <1>0, <1>7, GoesTo DEF AppendFails, Path
<1>8. CASE WriteManifest(c)
  BY <1>0, <1>8, GoesTo DEF WriteManifest, Path
<1>9. CASE LoadRegistry(c)
  BY <1>9, LoadMoves DEF Path
<1>10. CASE SaveRegistry(c)
  BY <1>0, <1>10, SaveMoves DEF Path
<1>11. QED
  BY <1>1, <1>2, <1>3, <1>4, <1>5, <1>6, <1>7, <1>8, <1>9, <1>10 DEF Thread

-----------------------------------------------------------------------------
(* Every step keeps the shapes                                               *)

LEMMA ThreadShapes ==
  ASSUME Shapes, Kept, NEW c \in Calls, Thread(c)
  PROVE  Shapes'
<1>0. handler' \in [Calls -> Threads]
  BY ThreadPath DEF Path, Moves
<1>1. CASE Arrive(c) \/ Admit(c) \/ Lookup(c) \/ Verify(c) \/ AppendFails(c)
  BY <1>0, <1>1 DEF Shapes, Arrive, Admit, Lookup, Verify, AppendFails, chainVars
<1>2. CASE Store(c)
  <2>1. handler[c].seg \in Pairs
    BY DEF Shapes, Threads
  <2>2. QED
    BY <1>0, <1>2, <2>1 DEF Shapes, Store, chainVars
<1>3. CASE AppendEnvelope(c)
  <2>1. cut \in 0..Len(imports')
    BY <1>3, AppendMoves DEF Shapes
  <2>2. imports' \in Seq(Pairs)
    BY <1>3, AppendMoves
  <2>3. UNCHANGED <<remote, client, confirmed, cut, stored, manifest, registry, events>>
    BY <1>3 DEF AppendEnvelope
  <2>4. QED
    BY <1>0, <2>1, <2>2, <2>3 DEF Shapes
<1>4. CASE WriteManifest(c)
  <2>1. handler[c].seg \in stored
    BY <1>4 DEF Kept, ThreadKeeps, WriteManifest, Goes
  <2>2. DOMAIN manifest' \subseteq stored /\ manifest' = [s \in DOMAIN manifest' |-> manifest'[s]]
    BY <1>4, <2>1 DEF Shapes, WriteManifest
  <2>3. QED
    BY <1>0, <1>4, <2>2 DEF Shapes, WriteManifest, chainVars
<1>5. CASE LoadRegistry(c) \/ SaveRegistry(c)
  <2>1. registry' \in {"active", "removed"}
    BY <1>5, LoadMoves, SaveMoves
  <2>2. QED
    BY <1>0, <1>5, <2>1 DEF Shapes, LoadRegistry, SaveRegistry, chainVars
<1>6. QED
  BY <1>1, <1>2, <1>3, <1>4, <1>5 DEF Thread

LEMMA Fields ==
  ASSUME NEW h \in Threads
  PROVE  /\ [h EXCEPT !.pc = "failed", !.row = "none"] \in Threads
         /\ [h EXCEPT !.pc = "failed", !.row = "none"].pc = "failed"
         /\ [h EXCEPT !.pc = "failed", !.row = "none"].seg = h.seg
         /\ [h EXCEPT !.pc = "failed", !.row = "none"].late = h.late
BY DEF Threads, Steps, Rows

LEMMA DeathMoves ==
  ASSUME Shapes, ServiceDies
  PROVE  /\ handler' \in [Calls -> Threads]
         /\ \A c \in Calls :
              /\ handler'[c].seg = handler[c].seg /\ handler'[c].late = handler[c].late
              /\ handler'[c].pc = IF handler[c].pc \in AtWork THEN "failed" ELSE handler[c].pc
<1> DEFINE Dead(h) == [h EXCEPT !.pc = "failed", !.row = "none"]
<1>1. \A c \in Calls :
        handler'[c] = IF handler[c].pc \in AtWork THEN Dead(handler[c]) ELSE handler[c]
  BY DEF ServiceDies
<1>2. \A h \in Threads : /\ Dead(h) \in Threads /\ Dead(h).pc = "failed"
                         /\ Dead(h).seg = h.seg /\ Dead(h).late = h.late
  BY Fields
<1>3. handler' = [c \in Calls |-> IF handler[c].pc \in AtWork THEN Dead(handler[c]) ELSE handler[c]]
  BY DEF ServiceDies
<1> HIDE DEF Dead
<1>4. \A c \in Calls : handler[c] \in Threads
  BY DEF Shapes
<1>5. QED
  BY <1>1, <1>2, <1>3, <1>4

LEMMA RemovalMoves ==
  ASSUME Shapes, RemoveEvent
  PROVE  /\ handler' \in [Calls -> Threads]
         /\ \A c \in Calls :
              /\ handler'[c].seg = handler[c].seg /\ handler'[c].pc = handler[c].pc
              /\ handler'[c].envelope = handler[c].envelope
              /\ handler'[c].late = (handler[c].late \/
                   handler[c].pc \in {"none", "opening", "opened", "admitted", "looked"})
<1> DEFINE IsLate(c) == handler[c].late \/
                        handler[c].pc \in {"none", "opening", "opened", "admitted", "looked"}
           Marked(h, late) == [h EXCEPT !.late = late]
<1>1. \A c \in Calls : handler[c] \in Threads /\ IsLate(c) \in BOOLEAN
  BY DEF Shapes, Threads
<1>2. \A h \in Threads, late \in BOOLEAN :
        /\ Marked(h, late) \in Threads /\ Marked(h, late).pc = h.pc
        /\ Marked(h, late).seg = h.seg /\ Marked(h, late).envelope = h.envelope
        /\ Marked(h, late).late = late
  <2>1. SUFFICES ASSUME NEW h \in Threads, NEW late \in BOOLEAN
                 PROVE  /\ Marked(h, late) \in Threads /\ Marked(h, late).pc = h.pc
                        /\ Marked(h, late).seg = h.seg /\ Marked(h, late).envelope = h.envelope
                        /\ Marked(h, late).late = late
    OBVIOUS
  <2>2. QED
    BY DEF Threads
<1>3. handler' = [c \in Calls |-> Marked(handler[c], IsLate(c))]
  BY DEF RemoveEvent
<1> HIDE DEF IsLate, Marked
<1>4. /\ handler' \in [Calls -> Threads]
      /\ \A c \in Calls :
           /\ handler'[c].seg = handler[c].seg /\ handler'[c].pc = handler[c].pc
           /\ handler'[c].envelope = handler[c].envelope
           /\ handler'[c].late = IsLate(c)
  BY <1>1, <1>2, <1>3
<1>5. QED
  BY <1>4 DEF IsLate

LEMMA OtherShapes ==
  ASSUME SyncConstants, Shapes, Sent, OtherStep
  PROVE  Shapes'
<1>1. CASE RemoteAppends \/ RemoteRolls
  <2>1. remote.top + 1 \in Nat /\ remote.starts \cup {remote.top + 1} \in SUBSET Nat
    BY DEF Shapes
  <2>2. remote' \in [base : Nat, top : Nat, cursor : Nat, starts : SUBSET Nat]
    BY <1>1, <2>1 DEF Shapes, RemoteAppends, RemoteRolls
  <2>3. QED
    BY <1>1, <2>2 DEF Shapes, RemoteAppends, RemoteRolls, primaryVars
<1>2. CASE SyncBegins
  <2>1. FirstPending \in Nat
    BY DEF Shapes, FirstPending, Lines
  <2>2. <<FirstPending, remote.top>> \in Pairs /\ client.call + 1 \in Nat
    BY <2>1 DEF Shapes, Pairs
  <2>3. DEFINE segment == <<FirstPending, remote.top>>
  <2>4. /\ client' = [pc |-> "waiting", call |-> client.call + 1, seg |-> segment]
        /\ handler' = [handler EXCEPT ![client.call + 1].seg = segment]
        /\ segment \in Pairs
    BY <1>2, <2>2 DEF SyncBegins
  <2> HIDE DEF segment
  <2>5. handler' \in [Calls -> Threads]
    BY <2>4 DEF Shapes, Threads
  <2>6. client' \in [pc : {"idle", "waiting", "received"}, call : Nat, seg : Pairs]
    BY <2>2, <2>4
  <2>7. QED
    BY <1>2, <2>5, <2>6 DEF Shapes, SyncBegins
<1>3. CASE Receive
  <2>1. client.seg[1]..client.seg[2] \subseteq Nat
    BY DEF Shapes, Pairs
  <2>2. client' \in [pc : {"idle", "waiting", "received"}, call : Nat, seg : Pairs]
    BY <1>3 DEF Shapes, Receive
  <2>3. QED
    BY <1>3, <2>1, <2>2 DEF Shapes, Receive, primaryVars
<1>4. CASE MovesCursor
  <2>1. Lines \in Nat
    BY DEF Shapes, Sent, Lines
  <2>2. QED
    BY <1>4, <2>1 DEF Shapes, MovesCursor, primaryVars
<1>5. CASE GiveUp
  BY <1>5 DEF Shapes, GiveUp, primaryVars
<1>6. CASE ServiceDies
  <2>2. handler' \in [Calls -> Threads]
    BY <1>6, DeathMoves
  <2>3. QED
    BY <1>6, <2>2 DEF Shapes, ServiceDies
<1>7. CASE RemoveRow
  BY <1>7 DEF Shapes, RemoveRow
<1>8. CASE RemoveEvent
  <2>1. handler' \in [Calls -> Threads]
    BY <1>8, RemovalMoves
  <2>2. QED
    BY <1>8, <2>1 DEF Shapes, RemoveEvent
<1>9. CASE PrimaryCut
  BY <1>9 DEF Shapes, PrimaryCut
<1>10. QED
  BY <1>1, <1>2, <1>3, <1>4, <1>5, <1>6, <1>7, <1>8, <1>9 DEF OtherStep

-----------------------------------------------------------------------------
(* What was sent: the segments lie in what the remote wrote                  *)

LEMMA ThreadFrame ==
  ASSUME Shapes, NEW c \in Calls, Thread(c)
  PROVE  /\ UNCHANGED <<remote, client, confirmed, cut, events>>
         /\ \A d \in Calls : handler'[d].seg = handler[d].seg /\ handler'[d].late = handler[d].late
         /\ \A d \in Calls \ {c} : handler'[d] = handler[d]
         /\ AppendEnvelope(c) \/ UNCHANGED imports
<1>1. UNCHANGED <<remote, client, confirmed, cut, events>> /\ (AppendEnvelope(c) \/ UNCHANGED imports)
  BY DEF Thread, Arrive, Admit, Lookup, Verify, Store, AppendEnvelope, AppendFails,
     WriteManifest, LoadRegistry, SaveRegistry, chainVars
<1>2. \E to : Moves(c, to)
  BY ThreadPath DEF Path
<1>3. QED
  BY <1>1, <1>2 DEF Moves, Others

LEMMA Appending ==
  ASSUME Shapes, NEW c \in Calls, AppendEnvelope(c)
  PROVE  /\ DOMAIN imports' = 1..Len(imports) + 1
         /\ \A i \in DOMAIN imports : i \in DOMAIN imports' /\ imports'[i] = imports[i]
         /\ imports'[Len(imports) + 1] = handler[c].seg
<1>1. handler[c].seg \in Pairs /\ imports \in Seq(Pairs)
  BY DEF Shapes, Threads
<1>2. imports' = Append(imports, handler[c].seg)
  BY AppendMoves
<1>3. QED
  BY <1>1, <1>2

LEMMA ThreadSent ==
  ASSUME Shapes, Sent, NEW c \in Calls, Thread(c)
  PROVE  Sent'
<1>1. c <= client.call
  BY ThreadPath DEF Path, Sent, Arrive, Shapes, Calls
<1>0. \A seg : Written(seg)' <=> Written(seg)
  BY ThreadFrame DEF Written
<1>2. \A d \in Calls : IF d <= client.call THEN Written(handler'[d].seg) ELSE handler'[d].pc = "none"
  BY <1>1, ThreadFrame DEF Sent
<1>3. \A i \in DOMAIN imports' : Written(imports'[i])
  <2>1. CASE AppendEnvelope(c)
    <3>1. Written(handler[c].seg)
      BY <1>1 DEF Sent
    <3>2. \A i \in DOMAIN imports' : i = Len(imports) + 1 \/ i \in DOMAIN imports
      BY <2>1, Appending DEF Shapes
    <3>3. QED
      BY <2>1, <3>1, <3>2, Appending DEF Sent
  <2>2. CASE imports' = imports
    BY <2>2 DEF Sent
  <2>3. QED
    BY <2>1, <2>2, ThreadFrame
<1>4. \A d \in Calls : handler'[d].seg = handler[d].seg
  BY ThreadFrame
<1>5. remote' = remote /\ client' = client
  BY ThreadFrame
<1>6. QED
  BY <1>0, <1>2, <1>3, <1>4, <1>5 DEF Sent

\* The remote's top only grows.
LEMMA WrittenStays ==
  ASSUME Shapes, Shapes', remote'.top >= remote.top, NEW seg \in Pairs, Written(seg)
  PROVE  Written(seg)'
BY DEF Shapes, Written, Pairs

LEMMA OtherSent ==
  ASSUME SyncConstants, Shapes, Shapes', Sent, OtherStep
  PROVE  Sent'
<1>0. \A c \in Calls : handler[c].seg \in Pairs
  BY DEF Shapes, Threads
<1>a. \A i \in DOMAIN imports : imports[i] \in Pairs
  BY DEF Shapes
<1>1. CASE RemoteAppends \/ RemoteRolls
  <2>1. /\ remote'.top = remote.top + 1 /\ remote'.base \in {remote.base, remote.top + 1}
        /\ UNCHANGED <<client, handler, imports>>
    BY <1>1 DEF Shapes, RemoteAppends, RemoteRolls, primaryVars
  <2>2. remote'.top >= remote.top /\ 1 <= remote'.base /\ remote'.base <= remote'.top
    BY <2>1 DEF Shapes, Sent
  <2>3. QED
    BY <1>0, <1>a, <2>1, <2>2, WrittenStays DEF Sent
<1>2. CASE SyncBegins
  <2>1. DEFINE segment == <<FirstPending, remote.top>>
               n == client.call + 1
  <2>2. n \in Calls /\ client.call \in Nat
    BY <1>2 DEF Shapes, SyncBegins, SyncConstants, Calls
  <2>3. FirstPending >= 1 /\ FirstPending \in Nat
    BY DEF Shapes, Sent, FirstPending, Lines
  <2>4. Written(segment) /\ segment \in Pairs
    BY <1>2, <2>3 DEF Shapes, SyncBegins, Written, Pairs
  <2>5. /\ client'.pc = "waiting" /\ client'.call = n /\ client'.seg = segment
        /\ handler' = [handler EXCEPT ![n].seg = segment]
        /\ UNCHANGED <<remote, imports>>
    BY <1>2 DEF SyncBegins
  <2> HIDE DEF segment, n
  <2>6. /\ handler'[n].seg = segment
        /\ \A c \in Calls : /\ handler'[c].pc = handler[c].pc
                            /\ c # n => handler'[c].seg = handler[c].seg
    BY <2>2, <2>4, <2>5 DEF Shapes, Threads
  <2>7. \A c \in Calls : c <= n => c = n \/ c <= client.call
    BY <2>2 DEF n, Calls
  <2>8. \A c \in Calls : ~(c <= n) => ~(c <= client.call)
    BY <2>2 DEF n, Calls
  <2>9. \A c \in Calls : IF c <= n THEN Written(handler'[c].seg) ELSE handler'[c].pc = "none"
    BY <2>4, <2>6, <2>7, <2>8 DEF Sent
  <2>10. \A seg : Written(seg)' <=> Written(seg)
    BY <2>5 DEF Written
  <2>11. QED
    BY <2>2, <2>5, <2>6, <2>9, <2>10 DEF Sent, Written
<1>3. CASE Receive \/ GiveUp \/ MovesCursor
  <2>1. /\ client'.pc # "waiting" /\ client'.call = client.call
        /\ remote'.top = remote.top /\ remote'.base = remote.base
        /\ UNCHANGED <<handler, imports>>
    BY <1>3 DEF Shapes, Receive, GiveUp, MovesCursor, primaryVars
  <2>2. QED
    BY <2>1 DEF Sent, Written
<1>4. CASE ServiceDies
  <2>1. UNCHANGED <<remote, client, imports>>
    BY <1>4 DEF ServiceDies
  <2>2. QED
    BY <1>4, <2>1, DeathMoves DEF Sent, Written, AtWork
<1>5. CASE RemoveEvent
  <2>1. UNCHANGED <<remote, client, imports>>
    BY <1>5 DEF RemoveEvent
  <2>2. QED
    BY <1>5, <2>1, RemovalMoves DEF Sent, Written
<1>6. CASE RemoveRow \/ PrimaryCut
  BY <1>6 DEF Sent, Written, RemoveRow, PrimaryCut
<1>7. QED
  BY <1>1, <1>2, <1>3, <1>4, <1>5, <1>6 DEF OtherStep

-----------------------------------------------------------------------------
(* What is kept: envelopes and stored segments                               *)

\* No step takes an envelope or a stored segment away.
LEMMA NothingLost ==
  ASSUME Shapes, Next
  PROVE  /\ stored \subseteq stored'
         /\ \A i \in DOMAIN imports : i \in DOMAIN imports' /\ imports'[i] = imports[i]
<1>1. CASE \E c \in Calls : AppendEnvelope(c)
  <2>1. PICK c \in Calls : AppendEnvelope(c)
    BY <1>1
  <2>2. UNCHANGED stored
    BY <2>1 DEF AppendEnvelope
  <2>3. QED
    BY <2>1, <2>2, Appending
<1>2. CASE UNCHANGED imports /\ stored \subseteq stored'
  BY <1>2
<1>3. CASE OtherStep
  BY <1>2, <1>3 DEF OtherStep, RemoteAppends, RemoteRolls, SyncBegins, Receive, MovesCursor, GiveUp,
     ServiceDies, RemoveRow, RemoveEvent, PrimaryCut, primaryVars
<1>4. ASSUME NEW c \in Calls, Thread(c) PROVE AppendEnvelope(c) \/ (UNCHANGED imports /\ stored \subseteq stored')
  BY <1>4 DEF Thread, Arrive, Admit, Lookup, Verify, Store, AppendFails,
     WriteManifest, LoadRegistry, SaveRegistry, chainVars
<1>5. QED
  BY <1>1, <1>2, <1>3, <1>4 DEF Next, OtherStep, Thread

LEMMA ThreadKept ==
  ASSUME Shapes, Kept, NEW c \in Calls, Thread(c)
  PROVE  Kept'
<1>1. Next
  BY DEF Next, Thread
<1>2. \A seg : Imported(seg) => Imported(seg)'
  BY <1>1, NothingLost DEF Imported
<1>3. \A d \in Calls \ {c} : ThreadKeeps(d)'
  BY <1>1, <1>2, NothingLost, ThreadFrame DEF Kept, ThreadKeeps
<1>4. CASE AppendEnvelope(c)
  <2>1. handler'[c].pc = "appended" /\ handler'[c].seg = handler[c].seg
    BY <1>4, AppendMoves DEF Moves
  <2>2. handler[c].seg \in stored'
    BY <1>1, <1>4, NothingLost DEF AppendEnvelope, Kept, ThreadKeeps
  <2>3. handler'[c].envelope \in DOMAIN imports' /\ imports'[handler'[c].envelope] = handler[c].seg
    BY <1>4, Appending, AppendMoves DEF Shapes
  <2>4. ThreadKeeps(c)'
    BY <2>1, <2>2, <2>3 DEF ThreadKeeps
  <2>5. manifest' = manifest
    BY <1>4 DEF AppendEnvelope
  <2>6. QED
    BY <1>1, <1>3, <2>4, <2>5, NothingLost DEF Kept
<1>5. CASE Store(c)
  <2>1. handler'[c].pc = "stored" /\ handler'[c].seg = handler[c].seg /\ handler[c].seg \in stored'
    BY <1>5, GoesTo DEF Store, Moves, Steps, AtWork
  <2>2. ThreadKeeps(c)'
    BY <2>1 DEF ThreadKeeps
  <2>3. manifest' = manifest /\ imports' = imports
    BY <1>5 DEF Store, chainVars
  <2>4. QED
    BY <1>3, <2>2, <2>3 DEF Kept
<1>6. CASE WriteManifest(c)
  <2>1. /\ handler[c].pc = "appended" /\ handler'[c].pc = "marking"
        /\ handler'[c].seg = handler[c].seg
    BY <1>6, GoesTo DEF WriteManifest, Moves, Steps, AtWork
  <2>2. imports' = imports /\ stored' = stored
    BY <1>6 DEF WriteManifest, chainVars
  <2>3. /\ handler[c].seg \in stored /\ handler[c].envelope \in DOMAIN imports
        /\ imports[handler[c].envelope] = handler[c].seg
    BY <2>1 DEF Kept, ThreadKeeps
  <2>4. ThreadKeeps(c)'
    BY <2>1, <2>2, <2>3 DEF ThreadKeeps, Imported
  <2>5. \A s \in DOMAIN manifest' : \/ s = handler[c].seg /\ manifest'[s] = handler[c].envelope
                                    \/ s \in DOMAIN manifest /\ manifest'[s] = manifest[s]
    BY <1>6 DEF WriteManifest
  <2>6. QED
    BY <1>3, <2>2, <2>3, <2>4, <2>5 DEF Kept
<1>7. CASE Lookup(c) \/ Verify(c)
  <2>1. imports' = imports /\ stored' = stored /\ manifest' = manifest
    BY <1>7 DEF Lookup, Verify, chainVars
  <2>2. handler'[c].pc = "marking" => Bound(handler[c].seg)
    BY <1>7, GoesTo DEF Lookup, Verify, Moves, Steps, AtWork
  <2>3. handler'[c].pc \in {"marking", "looked", "failed", "verified"} /\ handler'[c].seg = handler[c].seg
    BY <1>7, ThreadPath DEF Path, Moves, Lookup, Verify, Goes
  <2>4. Bound(handler[c].seg) => handler[c].seg \in stored /\ Imported(handler[c].seg)
    BY DEF Bound, Kept, Imported
  <2>5. ThreadKeeps(c)'
    BY <2>1, <2>2, <2>3, <2>4 DEF ThreadKeeps, Imported
  <2>6. QED
    BY <1>3, <2>1, <2>5 DEF Kept
<1>8. CASE ~(AppendEnvelope(c) \/ Store(c) \/ WriteManifest(c) \/ Lookup(c) \/ Verify(c))
  <2>1. imports' = imports /\ stored' = stored /\ manifest' = manifest
    BY <1>8 DEF Thread, Arrive, Admit, AppendFails, LoadRegistry, SaveRegistry, chainVars
  <2>2. handler'[c].seg = handler[c].seg
    BY ThreadFrame
  <2>3. handler'[c].pc # "appended"
    BY <1>8, ThreadPath DEF Path, Moves
  <2>4. handler'[c].pc = "stored" => FALSE
    BY <1>8, ThreadPath DEF Path, Moves
  <2>5. handler'[c].pc \in {"marking", "reporting", "answered"} => handler[c].pc \in {"marking", "reporting"}
    BY <1>8, ThreadPath DEF Path, Moves
  <2>6. ThreadKeeps(c)'
    BY <2>1, <2>2, <2>3, <2>4, <2>5 DEF Kept, ThreadKeeps, Imported
  <2>7. QED
    BY <1>3, <2>1, <2>6 DEF Kept
<1>9. QED
  BY <1>4, <1>5, <1>6, <1>7, <1>8 DEF Thread

LEMMA OtherKept ==
  ASSUME SyncConstants, Shapes, Sent, Kept, OtherStep
  PROVE  Kept'
<1>1. imports' = imports /\ stored' = stored /\ manifest' = manifest
  BY DEF OtherStep, RemoteAppends, RemoteRolls, SyncBegins, Receive, MovesCursor, GiveUp,
     ServiceDies, RemoveRow, RemoveEvent, PrimaryCut, primaryVars
<1>2. ASSUME NEW c \in Calls PROVE ThreadKeeps(c)'
  <2>0. ThreadKeeps(c)
    BY DEF Kept
  <2>1. CASE SyncBegins
    <3>1. DEFINE n == client.call + 1
    <3>2. n \in Calls /\ handler[n].pc = "none"
      BY <2>1 DEF Shapes, Sent, SyncBegins, SyncConstants, Calls
    <3>3. /\ \A d \in Calls : d # n => handler'[d] = handler[d]
          /\ handler'[n].pc = handler[n].pc
      BY <2>1, <3>2 DEF SyncBegins, Shapes, Threads
    <3> HIDE DEF n
    <3>4. QED
      BY <1>1, <2>0, <3>2, <3>3 DEF ThreadKeeps, Imported
  <2>2. CASE ServiceDies
    <3>1. handler[c].pc \in AtWork => handler'[c].pc = "failed"
      BY <2>2, DeathMoves
    <3>2. handler[c].pc \notin AtWork => handler'[c].pc = handler[c].pc /\ handler[c].pc # "appended"
      BY <2>2, DeathMoves DEF AtWork
    <3>3. handler'[c].seg = handler[c].seg
      BY <2>2, DeathMoves
    <3>4. QED
      BY <1>1, <2>0, <3>1, <3>2, <3>3 DEF ThreadKeeps, Imported
  <2>3. CASE RemoveEvent
    BY <1>1, <2>0, <2>3, RemovalMoves DEF ThreadKeeps, Imported
  <2>4. CASE handler' = handler
    BY <1>1, <2>0, <2>4 DEF ThreadKeeps, Imported
  <2>5. QED
    BY <2>1, <2>2, <2>3, <2>4 DEF OtherStep, RemoteAppends, RemoteRolls, Receive, MovesCursor, GiveUp,
       RemoveRow, PrimaryCut, primaryVars
<1>3. QED
  BY <1>1, <1>2 DEF Kept

-----------------------------------------------------------------------------
(* The three promises                                                        *)

LEMMA ConfirmedStep ==
  ASSUME Shapes, Sent, Kept, ConfirmedIsImported, Next
  PROVE  ConfirmedIsImported'
<1> DEFINE In(r) == \E i \in DOMAIN imports : imports[i] \in stored /\ r \in imports[i][1]..imports[i][2]
<1>1. \A r : In(r) => In(r)'
  BY NothingLost
<1>2. CASE Receive
  <2>1. /\ client.call \in Calls /\ client.seg = handler[client.call].seg
        /\ handler[client.call].pc = "answered"
    BY <1>2 DEF Receive, Sent
  <2>2. client.seg \in stored /\ \E i \in DOMAIN imports : imports[i] = client.seg
    BY <2>1 DEF Kept, ThreadKeeps, Imported
  <2>3. \A r \in client.seg[1]..client.seg[2] : In(r)
    BY <2>2
  <2>4. confirmed' = confirmed \cup (client.seg[1]..client.seg[2])
    BY <1>2 DEF Receive
  <2> HIDE DEF In
  <2>5. \A r \in confirmed' : In(r)'
    <3>1. \A r \in confirmed : In(r)
      BY DEF ConfirmedIsImported, In
    <3>2. QED
      BY <1>1, <2>3, <2>4, <3>1
  <2>6. QED
    BY <2>5 DEF ConfirmedIsImported, In
<1>3. CASE confirmed' = confirmed
  BY <1>1, <1>3 DEF ConfirmedIsImported
<1>4. ASSUME NEW c \in Calls, Thread(c) PROVE confirmed' = confirmed
  BY <1>4, ThreadFrame
<1>5. CASE OtherStep /\ ~Receive
  BY <1>3, <1>5 DEF OtherStep, RemoteAppends, RemoteRolls, SyncBegins, MovesCursor, GiveUp,
     ServiceDies, RemoveRow, RemoveEvent, PrimaryCut
<1>6. QED
  BY <1>2, <1>3, <1>4, <1>5 DEF Next, OtherStep, Thread

LEMMA LateStep ==
  ASSUME SyncConstants, Shapes, Late, Next
  PROVE  Late'
<1>1. ASSUME NEW c \in Calls, Thread(c) PROVE Late'
  <2>1. \A d \in Calls \ {c} : handler'[d] = handler[d]
    BY <1>1, ThreadFrame
  <2>2. events' = events /\ handler'[c].late = handler[c].late
    BY <1>1, ThreadFrame
  <2>3. ASSUME handler[c].late
        PROVE  events = "removed" /\ handler'[c].pc \notin {"verified", "stored", "appended"}
    <3>1. events = "removed" /\ handler[c].pc \notin {"verified", "stored", "appended"}
      BY <2>3 DEF Late
    <3>2. CASE Verify(c)
      <4>1. ~Authorized
        BY <3>1 DEF Authorized
      <4>2. handler'[c].pc = "failed"
        BY <3>2, <4>1, GoesTo DEF Verify, Moves, Steps
      <4>3. QED
        BY <3>1, <4>2
    <3>3. CASE ~Verify(c)
      BY <1>1, <3>1, <3>3, ThreadPath DEF Path, Moves
    <3>4. QED
      BY <3>2, <3>3
  <2>4. QED
    BY <2>1, <2>2, <2>3 DEF Late
<1>2. CASE SyncBegins
  <2>1. \A d \in Calls : handler'[d].pc = handler[d].pc /\ handler'[d].late = handler[d].late
    BY <1>2 DEF SyncBegins, Shapes, Threads
  <2>2. QED
    BY <1>2, <2>1 DEF SyncBegins, Late
<1>3. CASE ServiceDies
  <2>1. events' = events
    BY <1>3 DEF ServiceDies
  <2>2. QED
    BY <1>3, <2>1, DeathMoves DEF Late
<1>4. CASE RemoveEvent
  <2>1. \A c \in Calls : handler[c].late => FALSE
    BY <1>4 DEF RemoveEvent, Late
  <2>2. events' = "removed"
    BY <1>4 DEF RemoveEvent
  <2>3. \A c \in Calls : handler'[c].late =>
          handler'[c].pc \in {"none", "opening", "opened", "admitted", "looked"}
    BY <1>4, <2>1, RemovalMoves
  <2>4. QED
    BY <2>2, <2>3 DEF Late
<1>5. CASE handler' = handler /\ (events' = events \/ events # "removed")
  BY <1>5 DEF Late
<1>6. QED
  BY <1>1, <1>2, <1>3, <1>4, <1>5 DEF Next, Thread, RemoteAppends, RemoteRolls, Receive,
     MovesCursor, GiveUp, RemoveRow, PrimaryCut, primaryVars

-----------------------------------------------------------------------------
(* Imported segments follow one another                                      *)

LEMMA CutStep ==
  ASSUME Shapes, CutEndsIt, Next
  PROVE  CutEndsIt'
<1>1. ASSUME NEW c \in Calls, Thread(c) PROVE CutEndsIt'
  BY <1>1, ThreadFrame DEF CutEndsIt
<1>2. CASE OtherStep
  BY <1>2 DEF CutEndsIt, OtherStep, RemoteAppends, RemoteRolls, SyncBegins, Receive, MovesCursor,
     GiveUp, ServiceDies, RemoveRow, RemoveEvent, PrimaryCut, primaryVars
<1>3. QED
  BY <1>1, <1>2 DEF Next, OtherStep, Thread

LEMMA AloneStep ==
  ASSUME SyncConstants, Patient, Shapes, Sent, Alone, Next
  PROVE  Alone'
<1>1. ASSUME NEW c \in Calls, Thread(c) PROVE Alone'
  <2>1. client' = client /\ \A d \in Calls \ {c} : handler'[d] = handler[d]
    BY <1>1, ThreadFrame
  <2>2. client.pc = "waiting" /\ client.call = c
    <3>1. CASE Arrive(c)
      BY <3>1 DEF Arrive
    <3>2. CASE ~Arrive(c)
      <4>1. handler[c].pc \in AtWork
        BY <1>1, <3>2, ThreadPath DEF Path, AtWork
      <4>2. QED
        BY <4>1 DEF Alone
    <3>3. QED
      BY <3>1, <3>2
  <2>3. QED
    BY <2>1, <2>2 DEF Alone
<1>2. ASSUME SyncBegins \/ Receive \/ MovesCursor \/ GiveUp PROVE Alone'
  <2>1. \A c \in Calls : handler[c].pc \notin AtWork
    <3>1. CASE SyncBegins \/ MovesCursor \/ client.pc # "waiting"
      BY <3>1 DEF Alone, SyncBegins, MovesCursor
    <3>2. CASE client.pc = "waiting" /\ (Receive \/ GiveUp)
      <4>1. handler[client.call].pc \in {"none", "failed", "answered"}
        BY <3>2 DEF Receive, GiveUp
      <4>2. QED
        BY <4>1 DEF Alone, AtWork
    <3>3. QED
      BY <1>2, <3>1, <3>2
  <2>2. \A c \in Calls : handler'[c].pc = handler[c].pc
    <3>1. CASE SyncBegins
      BY <3>1 DEF SyncBegins, Shapes, Threads
    <3>2. CASE handler' = handler
      BY <3>2
    <3>3. QED
      BY <1>2, <3>1, <3>2 DEF Receive, MovesCursor, GiveUp, primaryVars
  <2>3. QED
    BY <2>1, <2>2 DEF Alone
<1>3. CASE ServiceDies
  <2>1. \A c \in Calls : handler'[c].pc \notin AtWork
    BY <1>3, DeathMoves DEF AtWork
  <2>2. QED
    BY <2>1 DEF Alone
<1>4. CASE RemoveEvent
  <2>1. client' = client
    BY <1>4 DEF RemoveEvent
  <2>2. QED
    BY <1>4, <2>1, RemovalMoves DEF Alone
<1>5. CASE handler' = handler /\ client' = client
  BY <1>5 DEF Alone
<1>6. QED
  BY <1>1, <1>2, <1>3, <1>4, <1>5 DEF Next, Thread, RemoteAppends, RemoteRolls,
     RemoveRow, PrimaryCut, primaryVars

\* What a record the remote has written names as its predecessor stays.
PrevAfter(r) == IF r \in remote'.starts THEN NoTail ELSE r - 1

LEMMA PrevStays ==
  ASSUME Shapes, Next, NEW seg \in Pairs, Written(seg)
  PROVE  PrevAfter(seg[1]) = PrevHash(seg[1])
<1>1. \A r \in Nat : r <= remote.top => (r \in remote'.starts <=> r \in remote.starts)
  <2>1. CASE RemoteRolls
    BY <2>1 DEF RemoteRolls, Shapes
  <2>2. CASE RemoteAppends \/ MovesCursor
    BY <2>2 DEF RemoteAppends, MovesCursor, Shapes
  <2>3. ASSUME NEW c \in Calls, Thread(c) PROVE remote' = remote
    BY <2>3, ThreadFrame
  <2>4. CASE remote' = remote
    BY <2>4
  <2>5. QED
    BY <2>1, <2>2, <2>3, <2>4 DEF Next, Thread, SyncBegins, Receive, GiveUp, ServiceDies,
       RemoveRow, RemoveEvent, PrimaryCut
<1>2. seg[1] \in Nat /\ seg[1] <= remote.top
  BY DEF Written, Pairs, Shapes
<1>3. QED
  BY <1>1, <1>2 DEF PrevHash, PrevAfter

\* Verification against the tail is verification against the last envelope.
LEMMA FollowsFits ==
  ASSUME Shapes, Sent, CutEndsIt, Authorized, NEW seg, Follows(seg)
  PROVE  Fits(seg)
<1>1. CASE imports = <<>>
  BY <1>1 DEF Fits
<1>2. CASE imports # <<>>
  <2>1. cut = 0 /\ Len(imports) \in DOMAIN imports /\ Len(imports) > 0
    BY <1>2 DEF Shapes, Authorized, CutEndsIt
  <2>2. PreviousTail = imports[Len(imports)][2]
    BY <2>1 DEF PreviousTail
  <2>3. Written(imports[Len(imports)]) /\ imports[Len(imports)] \in Pairs
    BY <2>1 DEF Sent, Shapes
  <2>4. imports[Len(imports)][2] # NoTail
    BY <2>3 DEF Written, Pairs, NoTail
  <2>5. QED
    BY <2>2, <2>4 DEF Follows, Fits
<1>3. QED
  BY <1>1, <1>2

LEMMA VerifiedStep ==
  ASSUME SyncConstants, Patient, Shapes, Sent, Alone, CutEndsIt, Verified, Next
  PROVE  Verified'
<1> DEFINE FitsAfter(seg) == imports' # <<>> => PrevAfter(seg[1]) = imports'[Len(imports')][2]
<1>1. \A c \in Calls : handler[c].pc # "none" =>
        PrevAfter(handler[c].seg[1]) = PrevHash(handler[c].seg[1])
  <2>1. \A c \in Calls : handler[c].seg \in Pairs /\ (handler[c].pc # "none" => Written(handler[c].seg))
    BY DEF Shapes, Threads, Sent
  <2>2. QED
    BY <2>1, PrevStays
<1>2. SUFFICES ASSUME NEW c \in Calls, handler'[c].pc \in {"verified", "stored"}
               PROVE  FitsAfter(handler'[c].seg)
  BY DEF Verified, Fits, PrevHash, PrevAfter
<1>3. CASE /\ handler[c].pc \in {"verified", "stored"}
           /\ handler'[c].seg = handler[c].seg /\ imports' = imports
  <2>1. Fits(handler[c].seg)
    BY <1>3 DEF Verified
  <2>2. PrevAfter(handler[c].seg[1]) = PrevHash(handler[c].seg[1])
    BY <1>1, <1>3
  <2>3. QED
    BY <1>3, <2>1, <2>2 DEF Fits
<1>4. ASSUME NEW d \in Calls, Thread(d) PROVE FitsAfter(handler'[c].seg)
  <2>1. handler'[c].seg = handler[c].seg
    BY <1>4, ThreadFrame
  <2>2. CASE AppendEnvelope(d)
    <3>1. handler'[d].pc = "appended" /\ handler[d].pc = "stored"
      BY <2>2, AppendMoves DEF Moves, AppendEnvelope
    <3>2. c # d /\ handler[c].pc \in AtWork /\ handler[d].pc \in AtWork
      BY <1>2, <1>4, <3>1, ThreadFrame DEF AtWork
    <3>3. QED
      BY <3>2 DEF Alone
  <2>3. CASE ~AppendEnvelope(d)
    <3>0. imports' = imports
      BY <1>4, <2>3, ThreadFrame
    <3>1. CASE handler[c].pc \in {"verified", "stored"}
      BY <1>3, <2>1, <3>0, <3>1
    <3>2. CASE handler[c].pc \notin {"verified", "stored"}
      <4>1. c = d
        BY <1>2, <1>4, <3>2, ThreadFrame
      <4>2. Verify(c)
        BY <1>2, <1>4, <3>2, <4>1, ThreadPath DEF Path, Moves
      <4>3. handler'[c].pc = "verified" => Authorized /\ Follows(handler[c].seg)
        BY <4>2, GoesTo DEF Verify, Moves, Steps, AtWork
      <4>4. handler[c].pc = "looked" /\ handler'[c].pc # "stored"
        BY <4>2, GoesTo DEF Verify, Moves, Steps, AtWork
      <4>5. Fits(handler[c].seg)
        BY <1>2, <4>3, <4>4, FollowsFits
      <4>6. QED
        BY <1>1, <2>1, <3>0, <4>4, <4>5 DEF Fits
    <3>3. QED
      BY <3>1, <3>2
  <2>4. QED
    BY <2>2, <2>3
<1>5. CASE OtherStep
  <2>1. imports' = imports
    BY <1>5 DEF OtherStep, RemoteAppends, RemoteRolls, SyncBegins, Receive, MovesCursor, GiveUp,
       ServiceDies, RemoveRow, RemoveEvent, PrimaryCut, primaryVars
  <2>2. handler[c].pc = handler'[c].pc /\ (handler'[c].seg = handler[c].seg \/ SyncBegins)
    <3>1. CASE SyncBegins
      BY <3>1 DEF SyncBegins, Shapes, Threads
    <3>2. CASE ServiceDies
      BY <1>2, <3>2, DeathMoves DEF AtWork
    <3>3. CASE RemoveEvent
      BY <3>3, RemovalMoves
    <3>4. CASE handler' = handler
      BY <3>4
    <3>5. QED
      BY <1>5, <3>1, <3>2, <3>3, <3>4 DEF OtherStep, RemoteAppends, RemoteRolls, Receive,
         MovesCursor, GiveUp, RemoveRow, PrimaryCut, primaryVars
  <2>3. ~SyncBegins
    BY <1>2, <2>2 DEF SyncBegins, Alone, AtWork
  <2>4. QED
    BY <1>2, <1>3, <2>1, <2>2, <2>3
<1>6. QED
  BY <1>4, <1>5 DEF Next, OtherStep, Thread

LEMMA LinkedStep ==
  ASSUME Patient, Shapes, Sent, Verified, LinkedImports, Next
  PROVE  LinkedImports'
<1> DEFINE Linked(i) == PrevHash(imports[i][1]) = imports[i - 1][2]
           LinkedAfter(i) == PrevAfter(imports'[i][1]) = imports'[i - 1][2]
<1>1. SUFFICES ASSUME NEW i \in 2..Len(imports') PROVE LinkedAfter(i)
  BY DEF LinkedImports, PrevHash, PrevAfter
<1>2. CASE i \in 2..Len(imports)
  <2>1. i \in DOMAIN imports /\ i - 1 \in DOMAIN imports /\ Linked(i)
    BY <1>2 DEF Shapes, LinkedImports
  <2>2. imports'[i] = imports[i] /\ imports'[i - 1] = imports[i - 1]
    BY <2>1, NothingLost
  <2>3. PrevAfter(imports[i][1]) = PrevHash(imports[i][1])
    <3>1. imports[i] \in Pairs /\ Written(imports[i])
      BY <2>1 DEF Shapes, Sent
    <3>2. QED
      BY <3>1, PrevStays
  <2>4. QED
    BY <2>1, <2>2, <2>3
<1>3. ASSUME NEW c \in Calls, AppendEnvelope(c), i \notin 2..Len(imports) PROVE LinkedAfter(i)
  <2>1. /\ i = Len(imports) + 1 /\ imports'[i] = handler[c].seg
        /\ imports # <<>> /\ imports'[i - 1] = imports[Len(imports)]
    BY <1>3, AppendMoves, Appending DEF Shapes
  <2>2. /\ handler[c].pc = "stored" /\ handler[c].seg \in Pairs /\ Written(handler[c].seg)
    BY <1>3 DEF AppendEnvelope, Shapes, Threads, Sent
  <2>3. Fits(handler[c].seg)
    BY <2>2 DEF Verified
  <2>4. PrevAfter(handler[c].seg[1]) = PrevHash(handler[c].seg[1])
    BY <2>2, PrevStays
  <2>5. QED
    BY <2>1, <2>3, <2>4 DEF Fits
<1>4. imports' = imports \/ \E c \in Calls : AppendEnvelope(c)
  <2>1. CASE OtherStep
    BY <2>1 DEF OtherStep, RemoteAppends, RemoteRolls, SyncBegins, Receive, MovesCursor, GiveUp,
       ServiceDies, RemoveRow, RemoveEvent, PrimaryCut, primaryVars
  <2>2. ASSUME NEW c \in Calls, Thread(c) PROVE imports' = imports \/ AppendEnvelope(c)
    BY <2>2, ThreadFrame
  <2>3. QED
    BY <2>1, <2>2 DEF Next, OtherStep, Thread
<1>5. QED
  BY <1>1, <1>2, <1>3, <1>4

-----------------------------------------------------------------------------
(* Bounds                                                                    *)

LEMMA WrittenIsSegment ==
  ASSUME SyncConstants, Shapes, Sent, remote.top <= MaxRecords, NEW seg \in Pairs, Written(seg)
  PROVE  seg \in Segments
<1>1. seg = <<seg[1], seg[2]>> /\ seg[1] \in 0..MaxRecords /\ seg[2] \in 0..MaxRecords
  BY DEF Pairs, Written, SyncConstants, Shapes
<1>2. QED
  BY <1>1 DEF Segments

LEMMA ThreadBounds ==
  ASSUME SyncConstants, Shapes, Shapes', Bounds, NEW c \in Calls, Thread(c)
  PROVE  Bounds'
<1>1. remote' = remote /\ client' = client /\ confirmed' = confirmed /\ crashes' = crashes
  BY ThreadFrame DEF Thread, Arrive, Admit, Lookup, Verify, Store, AppendEnvelope, AppendFails,
     WriteManifest, LoadRegistry, SaveRegistry, chainVars
<1>2. \A d \in Calls : handler'[d].seg = handler[d].seg
  BY ThreadFrame
<1>3. Len(imports') \in Nat /\ Len(imports') >= Len(imports) /\ Len(imports) \in Nat
  BY ThreadFrame, AppendMoves DEF Shapes
<1>4. handler'[c].envelope <= Len(imports')
  <2>1. CASE AppendEnvelope(c)
    BY <2>1, AppendMoves DEF Shapes
  <2>2. CASE LoadRegistry(c) \/ SaveRegistry(c)
    <3>1. handler'[c].envelope = handler[c].envelope
      BY <2>2 DEF LoadRegistry, SaveRegistry, Shapes, Threads
    <3>2. QED
      BY <1>3, <3>1 DEF Bounds, Shapes, Threads
  <2>3. CASE ~(AppendEnvelope(c) \/ LoadRegistry(c) \/ SaveRegistry(c))
    <3>1. \E from, to : Goes(c, from, to) /\ to \in Steps
      BY <2>3 DEF Thread, Arrive, Admit, Lookup, Verify, Store, AppendFails, WriteManifest, Steps, AtWork
    <3>2. handler'[c].envelope = handler[c].envelope
      BY <3>1, GoesTo
    <3>3. QED
      BY <1>3, <3>2 DEF Bounds, Shapes, Threads
  <2>4. QED
    BY <2>1, <2>2, <2>3
<1>5. \A d \in Calls : handler'[d].envelope <= Len(imports')
  <2>1. \A d \in Calls \ {c} : handler'[d] = handler[d]
    BY ThreadFrame
  <2>2. \A d \in Calls : handler[d].envelope \in Nat /\ handler[d].envelope <= Len(imports)
    BY DEF Bounds, Shapes, Threads
  <2>3. QED
    BY <1>3, <1>4, <2>1, <2>2
<1>6. stored' \subseteq stored \cup {handler[c].seg}
  BY DEF Thread, Arrive, Admit, Lookup, Verify, Store, AppendEnvelope, AppendFails,
     WriteManifest, LoadRegistry, SaveRegistry, chainVars
<1>7. QED
  BY <1>1, <1>2, <1>5, <1>6 DEF Bounds

LEMMA OtherBounds ==
  ASSUME SyncConstants, Shapes, Shapes', Sent, Bounds, OtherStep
  PROVE  Bounds'
<1>1. imports' = imports /\ stored' = stored
  BY DEF OtherStep, RemoteAppends, RemoteRolls, SyncBegins, Receive, MovesCursor, GiveUp,
     ServiceDies, RemoveRow, RemoveEvent, PrimaryCut, primaryVars
<1>2. CASE RemoteAppends \/ RemoteRolls
  <2>1. /\ remote'.top = remote.top + 1 /\ remote'.cursor = remote.cursor
        /\ remote'.starts \subseteq remote.starts \cup {remote.top + 1}
        /\ remote.top < MaxRecords /\ remote.top \in Nat
        /\ UNCHANGED <<client, confirmed, handler, crashes>>
    BY <1>2 DEF RemoteAppends, RemoteRolls, Shapes, primaryVars
  <2>2. QED
    BY <1>1, <2>1 DEF Bounds, SyncConstants
<1>3. CASE SyncBegins
  <2>1. DEFINE segment == <<FirstPending, remote.top>>
               n == client.call + 1
  <2>2. FirstPending \in 0..MaxRecords /\ remote.top \in 0..MaxRecords /\ n <= MaxCalls /\ n \in Calls
    BY <1>3 DEF SyncBegins, FirstPending, Lines, Shapes, Sent, Bounds, SyncConstants, Calls
  <2>3. segment \in Segments /\ segment \in Pairs
    BY <2>2 DEF Segments, Pairs, SyncConstants
  <2>4. /\ client'.call = n /\ client'.seg = segment
        /\ handler' = [handler EXCEPT ![n].seg = segment]
        /\ UNCHANGED <<remote, confirmed, crashes>>
    BY <1>3 DEF SyncBegins
  <2> HIDE DEF segment, n
  <2>5. \A c \in Calls : /\ handler'[c].seg \in {handler[c].seg, segment}
                         /\ handler'[c].envelope = handler[c].envelope
    BY <2>2, <2>3, <2>4 DEF Shapes, Threads
  <2>6. QED
    BY <1>1, <2>2, <2>3, <2>4, <2>5 DEF Bounds
<1>4. CASE Receive
  <2>1. Written(client.seg)
    BY <1>4 DEF Receive, Sent, Shapes, Calls
  <2>2. client.seg[1]..client.seg[2] \subseteq 1..remote.top
    BY <2>1 DEF Written, Shapes, Pairs
  <2>3. /\ confirmed' = confirmed \cup (client.seg[1]..client.seg[2])
        /\ client'.call = client.call /\ client'.seg = client.seg
        /\ UNCHANGED <<remote, handler, crashes>>
    BY <1>4 DEF Receive, Shapes, primaryVars
  <2>4. QED
    BY <1>1, <2>2, <2>3 DEF Bounds
<1>5. CASE MovesCursor \/ GiveUp
  <2>1. /\ client'.call = client.call /\ client'.seg = client.seg
        /\ remote'.top = remote.top /\ remote'.starts = remote.starts
        /\ remote'.cursor \in {remote.cursor, Lines}
        /\ UNCHANGED <<confirmed, handler, crashes>>
    BY <1>5 DEF MovesCursor, GiveUp, Shapes, primaryVars
  <2>2. Lines <= MaxRecords
    BY DEF Lines, Shapes, Sent, Bounds, SyncConstants
  <2>3. QED
    BY <1>1, <2>1, <2>2 DEF Bounds
<1>6. CASE ServiceDies
  <2>1. \A c \in Calls : /\ handler'[c].seg = handler[c].seg
                         /\ handler'[c].envelope = handler[c].envelope
    BY <1>6 DEF ServiceDies, Shapes, Threads
  <2>2. crashes' \in 0..MaxCrashes
    <3>1. crashes' = crashes + 1 /\ crashes < MaxCrashes
      BY <1>6 DEF ServiceDies
    <3>2. QED
      BY <3>1 DEF Bounds, SyncConstants
  <2>3. QED
    BY <1>1, <1>6, <2>1, <2>2 DEF Bounds, ServiceDies
<1>7. CASE RemoveEvent
  BY <1>1, <1>7, RemovalMoves DEF Bounds, RemoveEvent
<1>8. CASE RemoveRow \/ PrimaryCut
  BY <1>1, <1>8 DEF Bounds, RemoveRow, PrimaryCut
<1>9. QED
  BY <1>2, <1>3, <1>4, <1>5, <1>6, <1>7, <1>8 DEF OtherStep

-----------------------------------------------------------------------------
(* The theorems                                                              *)

LEMMA InitInv ==
  ASSUME SyncConstants, Init
  PROVE  IInv
<1>1. handler \in [Calls -> Threads] /\ \A c \in Calls : handler[c] = Untouched
  BY DEF Init, Threads, Untouched, NoSegment, Pairs, Steps, Rows
<1>2. Shapes
  BY <1>1 DEF Init, Shapes, NoSegment, Pairs
<1>3. \A c \in Calls : handler[c].pc = "none" /\ handler[c].late = FALSE
  BY <1>1 DEF Untouched
<1>4. Sent
  BY <1>3 DEF Init, Sent, Calls, SyncConstants
<1>5. Kept /\ Late /\ Alone /\ Verified
  BY <1>3 DEF Init, Kept, ThreadKeeps, Late, Alone, Verified, AtWork
<1>6. ConfirmedIsImported /\ CutEndsIt /\ LinkedImports
  BY DEF Init, ConfirmedIsImported, CutEndsIt, LinkedImports
<1>7. Bounds
  <2>1. NoSegment \in Segments
    BY DEF NoSegment, Segments, SyncConstants
  <2>2. \A c \in Calls : handler[c].seg = NoSegment /\ handler[c].envelope = 0
    BY <1>1 DEF Untouched
  <2>3. QED
    BY <2>1, <2>2 DEF Init, Bounds, SyncConstants
<1>8. QED
  BY <1>2, <1>4, <1>5, <1>6, <1>7 DEF IInv, Links

LEMMA NextInv ==
  ASSUME SyncConstants, IInv, Next
  PROVE  IInv'
<1>0. OtherStep \/ \E c \in Calls : Thread(c)
  BY DEF Next, OtherStep, Thread
<1>1. Shapes'
  BY <1>0, ThreadShapes, OtherShapes DEF IInv
<1>2. Sent'
  BY <1>0, <1>1, ThreadSent, OtherSent DEF IInv
<1>3. Kept'
  BY <1>0, ThreadKept, OtherKept DEF IInv
<1>4. ConfirmedIsImported' /\ Late'
  BY ConfirmedStep, LateStep DEF IInv
<1>5. CutEndsIt'
  BY CutStep DEF IInv, Links
<1>6. Patient => Alone' /\ Verified'
  BY AloneStep, VerifiedStep DEF IInv, Links
<1>7. LinkedImports'
  <2>1. CASE Patient
    BY <2>1, LinkedStep DEF IInv, Links
  <2>2. CASE ~Patient
    BY <2>2 DEF LinkedImports
  <2>3. QED
    BY <2>1, <2>2
<1>8. Bounds'
  BY <1>0, <1>1, ThreadBounds, OtherBounds DEF IInv
<1>9. QED
  BY <1>1, <1>2, <1>3, <1>4, <1>5, <1>6, <1>7, <1>8 DEF IInv, Links

LEMMA StutterInv ==
  ASSUME IInv, UNCHANGED vars
  PROVE  IInv'
BY DEF IInv, Shapes, Sent, Bounds, Written, Kept, ThreadKeeps, Imported, ConfirmedIsImported, Late,
   Links, CutEndsIt, Alone, Verified, Fits, LinkedImports, PrevHash, vars

LEMMA Induction == ASSUME SyncConstants PROVE Spec => []IInv
<1>1. Init => IInv
  BY InitInv
<1>2. IInv /\ [Next]_vars => IInv'
  BY NextInv, StutterInv
<1>3. QED
  BY <1>1, <1>2, PTL DEF Spec

\* The type invariant, for every bound.
THEOREM TypeCorrect == ASSUME SyncConstants PROVE Spec => []TypeOK
<1>1. IInv => TypeOK
  <2>1. SUFFICES ASSUME IInv PROVE TypeOK
    OBVIOUS
  <2>0. Shapes /\ Sent /\ Bounds
    BY <2>1 DEF IInv
  <2>2. \A i \in DOMAIN imports : imports[i] \in Segments
    <3>1. \A i \in DOMAIN imports : imports[i] \in Pairs /\ Written(imports[i])
      BY <2>0 DEF Shapes, Sent
    <3>2. remote.top <= MaxRecords
      BY <2>0 DEF Bounds
    <3>3. QED
      BY <2>0, <3>1, <3>2, WrittenIsSegment
  <2>3. /\ remote.base \in 1..remote.top /\ remote.top \in 1..MaxRecords
        /\ remote.cursor \in 0..MaxRecords /\ client.call \in 0..MaxCalls
    BY <2>0 DEF Shapes, Sent, Bounds, SyncConstants
  <2>4. \A c \in Calls :
          /\ handler[c].pc \in Steps /\ handler[c].envelope \in 0..Len(imports)
          /\ handler[c].row \in Rows /\ handler[c].late \in BOOLEAN
    BY <2>0 DEF Shapes, Bounds, Threads
  <2>5. QED
    BY <2>0, <2>2, <2>3, <2>4 DEF Shapes, Bounds, TypeOK, Steps, Rows
<1>2. QED
  BY <1>1, Induction, PTL

\* With a patient client, however many records, calls, lost answers, deaths and
\* archives there are: each imported segment begins where the one before it
\* ended.
THEOREM ImportsLinked == ASSUME SyncConstants PROVE Spec => []LinkedImports
<1>1. IInv => LinkedImports
  BY DEF IInv, Links
<1>2. QED
  BY <1>1, Induction, PTL

\* Whatever the remote was told is received lies in an imported and stored
\* segment, patient or not.
THEOREM ReceiptsTrue == ASSUME SyncConstants PROVE Spec => []ConfirmedIsImported
<1>1. IInv => ConfirmedIsImported
  BY DEF IInv
<1>2. QED
  BY <1>1, Induction, PTL

\* No thread brings a segment past its check after the removal of the machine
\* is in the chain, whatever row it saves in registry.json.
THEOREM RemovalFinal == ASSUME SyncConstants PROVE Spec => []RemovedStaysOut
<1>1. IInv => RemovedStaysOut
  BY DEF IInv, Late, RemovedStaysOut
<1>2. QED
  BY <1>1, Induction, PTL

=============================================================================
