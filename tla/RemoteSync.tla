----------------------------- MODULE RemoteSync -----------------------------
(***************************************************************************)
(* Synchronisation of one remote machine with the primary: atested sync on  *)
(* the remote (atested_cli.py, sync_client.py), the sync service on the     *)
(* primary (sync_service.py), the import of a segment into the primary's    *)
(* chain (remote_import.py), and the removal of the machine                 *)
(* (machine_identity.py).                                                   *)
(*                                                                          *)
(* The remote sends the records its cursor does not count yet as one        *)
(* segment.  The primary verifies it against the tail of the last import,   *)
(* stores it, appends an envelope to its chain, writes a manifest, and      *)
(* answers; the remote then moves its cursor.                               *)
(*                                                                          *)
(* Abstractions.  A record is its number, which is its hash; it names the   *)
(* record before it unless it starts a file.  A segment is the pair of its  *)
(* ends, from which segment_id is computed.  Signatures, versions and       *)
(* request numbers are right; an answer that is no success is unsigned and  *)
(* ends the call like a lost one.  The session starts together with the     *)
(* one call it is used for.  The import sequence, telemetry and the state   *)
(* bundle are left out, and so is everything that other machines do.        *)
(***************************************************************************)
EXTENDS Integers, Sequences, FiniteSets

CONSTANTS
  Patient,      \* does the client wait for as long as the primary is at work
  MaxRecords,   \* bound: records the remote writes
  MaxCalls,     \* bound: runs of atested sync that send something
  MaxRolls,     \* bound: archives of the remote's chain
  MaxCuts,      \* bound: archives of the primary's chain, 0 or 1
  MaxCrashes    \* bound: deaths of the sync service

\* Assumed where the module is instantiated (Parts).
SyncConstants ==
  /\ Patient \in BOOLEAN
  /\ MaxRecords \in Nat \ {0} /\ MaxCalls \in Nat \ {0}
  /\ MaxRolls \in Nat /\ MaxCuts \in Nat /\ MaxCrashes \in Nat

VARIABLES
  remote,    \* the remote's chain file, and the cursor: lines counted as synced
  client,    \* the run of atested sync
  confirmed, \* history: records whose receipt the client was told of
  handler,   \* for each call, its segment and the thread that handles it
  imports,   \* the envelopes in the primary's chain and its archives
  cut,       \* how many of them are in archives
  stored,    \* segments stored beside the chain
  manifest,  \* the envelope each manifest names
  registry,  \* the machine's row in registry.json
  events,    \* what the primary's chain says of the machine
  crashes    \* deaths of the sync service so far

vars == <<remote, client, confirmed, handler, imports, cut, stored, manifest,
          registry, events, crashes>>

primaryVars == <<handler, imports, cut, stored, manifest, registry, events, crashes>>

-----------------------------------------------------------------------------
Calls == 1..MaxCalls
NoTail == 0
NoSegment == <<0, 0>>

\* A call that has not reached the primary.
Untouched == [pc |-> "none", seg |-> NoSegment, envelope |-> 0, row |-> "none", late |-> FALSE]

\* prev_record_hash; the first record of a file names none.
PrevHash(r) == IF r \in remote.starts THEN NoTail ELSE r - 1

\* _read_chain_records: what the remote's file holds now.
Lines == remote.top - remote.base + 1

\* _pending_records: behind the cursor, or the whole file when it is too large.
FirstPending ==
  IF remote.cursor > Lines THEN remote.base ELSE remote.base + remote.cursor

\* previous_imported_tail_hash, of the live chain.
PreviousTail == IF Len(imports) > cut THEN imports[Len(imports)][2] ELSE NoTail

\* Mutant: the row in registry.json is enough.
AuthorizedByRow == registry = "active"

\* authorized_machine_lookup: the row and, by _chain_authorizes_machine_key,
\* what the live chain says last.
Authorized == registry = "active" /\ events \in {"added", "removing"}

\* Mutant: a segment that is stored counts as imported.
BoundIfStored(seg) == seg \in stored

\* _duplicate_import_is_bound: the segment is stored, and the envelope its
\* manifest names is in the live chain.
Bound(seg) == seg \in stored /\ seg \in DOMAIN manifest /\ manifest[seg] > cut

\* Mutant: only the links inside the segment are checked.
FollowsAnything(seg) == TRUE

\* verify_remote_segment, of a segment cut out of one file.
Follows(seg) == PreviousTail = NoTail \/ PrevHash(seg[1]) = PreviousTail

-----------------------------------------------------------------------------
Init ==
  /\ remote = [base |-> 1, top |-> 1, cursor |-> 0, starts |-> {1}]
  /\ client = [pc |-> "idle", call |-> 0, seg |-> NoSegment]
  /\ confirmed = {}
  /\ handler = [c \in Calls |-> Untouched]
  /\ imports = <<>> /\ cut = 0
  /\ stored = {} /\ manifest = << >>
  /\ registry = "active" /\ events = "added"
  /\ crashes = 0

-----------------------------------------------------------------------------
(* The remote *)

RemoteAppends ==
  /\ remote.top < MaxRecords
  /\ remote' = [remote EXCEPT !.top = @ + 1]
  /\ UNCHANGED <<client, confirmed, primaryVars>>

\* An archive of the remote's chain: a genesis in a new file, the old cursor.
RemoteRolls ==
  /\ remote.top < MaxRecords /\ Cardinality(remote.starts) <= MaxRolls
  /\ remote' = [remote EXCEPT !.base = remote.top + 1, !.top = remote.top + 1,
                              !.starts = @ \cup {remote.top + 1}]
  /\ UNCHANGED <<client, confirmed, primaryVars>>

\* cmd_sync up to the request: what is pending is read once.
SyncBegins ==
  /\ client.pc = "idle" /\ client.call < MaxCalls
  /\ FirstPending <= remote.top
  /\ client' = [pc |-> "waiting", call |-> client.call + 1, seg |-> <<FirstPending, remote.top>>]
  /\ handler' = [handler EXCEPT ![client.call + 1].seg = <<FirstPending, remote.top>>]
  /\ UNCHANGED <<remote, confirmed, imports, cut, stored, manifest, registry, events, crashes>>

\* sync_current_segment returns a signed and accepted answer.
Receive ==
  /\ client.pc = "waiting" /\ handler[client.call].pc = "answered"
  /\ client' = [client EXCEPT !.pc = "received"]
  /\ confirmed' = confirmed \cup (client.seg[1]..client.seg[2])
  /\ UNCHANGED <<remote, primaryVars>>

\* finish_session, then _update_sync_cursor: all the lines the file has by now.
MovesCursor ==
  /\ client.pc = "received"
  /\ remote' = [remote EXCEPT !.cursor = Lines]
  /\ client' = [client EXCEPT !.pc = "idle"]
  /\ UNCHANGED <<confirmed, primaryVars>>

\* Any exception in cmd_sync, or its death: a lost message, a timeout, an answer
\* that is no success, a failing finish_session.  The cursor stays.
GiveUp ==
  /\ client.pc \in {"waiting", "received"}
  /\ Patient /\ client.pc = "waiting" => handler[client.call].pc \in {"none", "failed", "answered"}
  /\ client' = [client EXCEPT !.pc = "idle"]
  /\ UNCHANGED <<remote, confirmed, primaryVars>>

-----------------------------------------------------------------------------
(* A thread of the sync service *)

AtWork == {"opening", "opened", "admitted", "looked", "verified", "stored", "appended",
           "marking", "reporting"}

\* The thread of call c goes from one step to another.
Goes(c, from, to) == handler[c].pc = from /\ handler' = [handler EXCEPT ![c].pc = to]

chainVars == <<remote, client, confirmed, imports, cut, events, crashes>>

\* start_session; a request may arrive after the client gave it up.
Arrive(c) ==
  /\ c <= client.call
  /\ Patient => client.pc = "waiting" /\ client.call = c
  /\ Goes(c, "none", IF Authorized THEN "opening" ELSE "failed")
  /\ UNCHANGED <<chainVars, stored, manifest, registry>>

\* receive_segment up to import_remote_segment.
Admit(c) ==
  /\ Goes(c, "opened", IF Authorized THEN "admitted" ELSE "failed")
  /\ UNCHANGED <<chainVars, stored, manifest, registry>>

\* import_remote_segment asks twice whether the segment is imported, before and
\* after it is verified.
Lookup(c) ==
  /\ Goes(c, "admitted", IF Bound(handler[c].seg) THEN "marking" ELSE "looked")
  /\ UNCHANGED <<chainVars, stored, manifest, registry>>

Verify(c) ==
  /\ Goes(c, "looked", IF ~(Authorized /\ Follows(handler[c].seg)) THEN "failed"
                       ELSE IF Bound(handler[c].seg) THEN "marking" ELSE "verified")
  /\ UNCHANGED <<chainVars, stored, manifest, registry>>

Store(c) ==
  /\ Goes(c, "verified", "stored")
  /\ stored' = stored \cup {handler[c].seg}
  /\ UNCHANGED <<chainVars, manifest, registry>>

\* append_import_envelope
AppendEnvelope(c) ==
  /\ handler[c].pc = "stored"
  /\ imports' = Append(imports, handler[c].seg)
  /\ handler' = [handler EXCEPT ![c].pc = "appended", ![c].envelope = Len(imports')]
  /\ UNCHANGED <<remote, client, confirmed, cut, stored, manifest, registry, events, crashes>>

\* The lock of the chain or the disk cannot be had.
AppendFails(c) ==
  /\ Goes(c, "stored", "failed")
  /\ UNCHANGED <<chainVars, stored, manifest, registry>>

WriteManifest(c) ==
  /\ Goes(c, "appended", "marking")
  /\ manifest' = [seg \in DOMAIN manifest \cup {handler[c].seg} |->
                    IF seg = handler[c].seg THEN handler[c].envelope ELSE manifest[seg]]
  /\ UNCHANGED <<chainVars, stored, registry>>

\* update_machine_version_report (opening, reporting) and _mark_machine_synced
\* (marking) load the registry and save it again, under no lock.
AfterSave == [opening |-> "opened", marking |-> "reporting", reporting |-> "answered"]

LoadRegistry(c) ==
  /\ handler[c].pc \in DOMAIN AfterSave /\ handler[c].row = "none"
  /\ handler' = [handler EXCEPT ![c].row = registry]
  /\ UNCHANGED <<chainVars, stored, manifest, registry>>

SaveRegistry(c) ==
  /\ handler[c].pc \in DOMAIN AfterSave /\ handler[c].row # "none"
  /\ registry' = handler[c].row
  /\ handler' = [handler EXCEPT ![c].pc = AfterSave[@], ![c].row = "none"]
  /\ UNCHANGED <<chainVars, stored, manifest>>

\* What the threads were at is left as it is.
ServiceDies ==
  /\ crashes < MaxCrashes /\ \E c \in Calls : handler[c].pc \in AtWork
  /\ crashes' = crashes + 1
  /\ handler' = [c \in Calls |-> IF handler[c].pc \in AtWork
                                 THEN [handler[c] EXCEPT !.pc = "failed", !.row = "none"] ELSE handler[c]]
  /\ UNCHANGED <<remote, client, confirmed, imports, cut, stored, manifest, registry, events>>

-----------------------------------------------------------------------------
(* The operator of the primary *)

\* remove_machine_from_registry: the row in the file, then the record.
RemoveRow ==
  /\ events = "added"
  /\ registry' = "removed" /\ events' = "removing"
  /\ UNCHANGED <<remote, client, confirmed, handler, imports, cut, stored, manifest, crashes>>

\* late is history: the calls whose segment is not yet verified.
RemoveEvent ==
  /\ events = "removing"
  /\ events' = "removed"
  /\ handler' = [c \in Calls |->
       [handler[c] EXCEPT !.late = @ \/ handler[c].pc \in {"none", "opening", "opened", "admitted", "looked"}]]
  /\ UNCHANGED <<remote, client, confirmed, imports, cut, stored, manifest, registry, crashes>>

\* An archive of the primary's chain: envelopes and machine_added are gone from
\* the live chain.
PrimaryCut ==
  /\ cut < Len(imports) /\ events = "added" /\ MaxCuts > 0
  /\ cut' = Len(imports) /\ events' = "archived"
  /\ UNCHANGED <<remote, client, confirmed, handler, imports, stored, manifest, registry, crashes>>

-----------------------------------------------------------------------------
Next ==
  \/ RemoteAppends \/ RemoteRolls
  \/ SyncBegins \/ Receive \/ MovesCursor \/ GiveUp
  \/ \E c \in Calls :
       \/ Arrive(c) \/ Admit(c) \/ Lookup(c) \/ Verify(c) \/ Store(c)
       \/ AppendEnvelope(c) \/ AppendFails(c) \/ WriteManifest(c)
       \/ LoadRegistry(c) \/ SaveRegistry(c)
  \/ ServiceDies
  \/ RemoveRow \/ RemoveEvent \/ PrimaryCut

Spec == Init /\ [][Next]_vars

-----------------------------------------------------------------------------
(* Properties *)

Segments == {<<a, b>> : a, b \in 0..MaxRecords}

\* Every variable has the values its comment says.
TypeOK ==
  /\ remote.base \in 1..remote.top /\ remote.top \in 1..MaxRecords
  /\ remote.cursor \in 0..MaxRecords /\ remote.starts \subseteq 1..remote.top
  /\ client.pc \in {"idle", "waiting", "received"} /\ client.call \in 0..MaxCalls
  /\ client.seg \in Segments
  /\ confirmed \subseteq 1..remote.top
  /\ \A c \in Calls :
       /\ handler[c].pc \in {"none", "failed", "answered"} \cup AtWork
       /\ handler[c].seg \in Segments /\ handler[c].envelope \in 0..Len(imports)
       /\ handler[c].row \in {"none", "active", "removed"} /\ handler[c].late \in BOOLEAN
  /\ \A i \in DOMAIN imports : imports[i] \in Segments
  /\ cut \in 0..Len(imports)
  /\ stored \subseteq Segments /\ DOMAIN manifest \subseteq stored
  /\ registry \in {"active", "removed"}
  /\ events \in {"added", "removing", "removed", "archived"}
  /\ crashes \in 0..MaxCrashes

\* Lost answers, retries, deaths of the service and archives on either side
\* never import a record twice or leave one out between two imports: each
\* segment begins where the one before it ended.  The client must be patient:
\* two threads may otherwise verify against the same tail.
LinkedImports ==
  Patient => \A i \in 2..Len(imports) : PrevHash(imports[i][1]) = imports[i - 1][2]

\* A record whose receipt the remote was told of is in an imported segment that
\* is stored, also when it was told by a duplicate of an import that was cut
\* short.
ConfirmedIsImported ==
  \A r \in confirmed :
    \E i \in DOMAIN imports : imports[i] \in stored /\ r \in imports[i][1]..imports[i][2]

\* Once the removal of the machine is in the chain, a call whose segment was not
\* verified before is not imported, even if a thread has saved the row it
\* loaded before the removal.
RemovedStaysOut ==
  \A c \in Calls : handler[c].late => handler[c].pc \notin {"verified", "stored", "appended"}

\* "Remote marks a segment synced only after receipt confirmation": while its
\* chain was not archived, each record the cursor counts was confirmed.
MarkedAfterReceipt ==
  remote.base = 1 => 1..remote.cursor \subseteq confirmed

=============================================================================
