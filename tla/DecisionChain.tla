--------------------------- MODULE DecisionChain ---------------------------
(***************************************************************************)
(* The writers of decision-chain.jsonl.  Several processes append to the   *)
(* hash-linked file under one protocol: take the mkdir lock               *)
(* <chain>.lock.d, read the hash of the tail, append one line, give the    *)
(* lock back.  The proxy also compares the chain with the checkpoint in    *)
(* the integrity sidecar before it writes, and moves a chain that fails    *)
(* the comparison into the archive.                                        *)
(*                                                                         *)
(* Abstractions.  A record is its hash, the hash it names as predecessor,  *)
(* and the form its line has on disk; hashes are drawn from a counter      *)
(* because every record carries fresh content.  A missing chain file and   *)
(* an empty one are the same empty sequence: every reader treats them      *)
(* alike.  The sidecar is reduced to the two fields that are compared; its *)
(* self-hash, which only a foreign write could break, is left out.         *)
(***************************************************************************)
EXTENDS Integers, Sequences, FiniteSets

CONSTANTS
  Proxies,      \* proxy processes: ChainRecorder with an IntegrityMonitor
  Dashboards,   \* dashboard processes: no check before, refresh after
  Clis,         \* CLI and sync importers: neither check nor refresh
  Shells,       \* append-record-runtime.sh: a lock with no owner file
  OwnerFileErrors, \* whether writing lock_owner.json may fail
  MaxRecords,   \* bound: records that are ever written
  MaxCrashes,   \* bound: crashes
  MaxShorts     \* bound: appends cut short by the file system

Writers == Proxies \cup Dashboards \cup Clis \cup Shells

CONSTANTS NoDir, Orphan, NoOwner, DeadPid

ASSUME DisjointKinds ==
  /\ Proxies \cap (Dashboards \cup Clis \cup Shells) = {}
  /\ Dashboards \cap (Clis \cup Shells) = {}
  /\ Clis \cap Shells = {}
ASSUME MarkersAreNotWriters ==
  /\ {NoDir, Orphan, NoOwner, DeadPid} \cap Writers = {}
  /\ NoDir # Orphan
  /\ NoOwner # DeadPid
ASSUME BoundsAreNat == MaxRecords \in Nat /\ MaxCrashes \in Nat /\ MaxShorts \in Nat
ASSUME ErrorsAreBoolean == OwnerFileErrors \in BOOLEAN

VARIABLES
  chain,     \* the lines of decision-chain.jsonl
  archives,  \* chains moved to archive/
  ckpt,      \* expected_record_count and expected_last_record_hash
  dir,       \* lock directory: NoDir, its creator, or Orphan (creator died)
  owner,     \* lock_owner.json: NoOwner, the pid in it, or DeadPid
  pc,        \* where each writer is in its append
  head,      \* prev_record_hash a writer has read
  mine,      \* hash of the record a writer has last written
  seen,      \* chain summary a writer is about to save in the sidecar
  released,  \* hashes of proxy records whose append was reported as done
  nextHash,      \* next fresh hash
  crashes, shorts,
  clipped,   \* history: records written without their final newline
  robbed     \* history: some writer removed the lock directory of a live one

vars == <<chain, archives, ckpt, dir, owner, pc, head, mine, seen, released,
          nextHash, crashes, shorts, clipped, robbed>>
lockVars == <<dir, owner, robbed>>
dataVars == <<chain, archives, ckpt>>
readVars == <<head, mine, seen>>
envVars  == <<crashes, shorts, clipped>>

-----------------------------------------------------------------------------
(* The chain file and its checkpoint.                                      *)

NoHash == 0
Forms == {"whole", "bare", "partial", "garbage"}
Record == [hash : Nat, prev : Nat, form : Forms]
Summary == [count : Nat, last : Nat]
Empty == [count |-> 0, last |-> NoHash]

Readable(r) == r.form \in {"whole", "bare"}
Unterminated(r) == r.form \in {"bare", "partial"}
LastLine(c) == c[Len(c)]

\* summarize_chain raises unless every line parses and names its predecessor.
Linked(c) == \A i \in 2..Len(c) : c[i].prev = c[i-1].hash
Valid(c) == /\ \A i \in 1..Len(c) : Readable(c[i])
            /\ Linked(c)

HashAt(c, n) == IF n = 0 THEN NoHash ELSE c[n].hash
\* Mutant: the count is the index of the last record.
SummarizeByIndex(c) == [count |-> Len(c) - 1, last |-> HashAt(c, Len(c))]

Summarize(c) == [count |-> Len(c), last |-> HashAt(c, Len(c))]

\* Mutant: the chain must be exactly what the checkpoint says.
CheckpointIsExact(c) == Len(c) # ckpt.count \/ HashAt(c, Len(c)) # ckpt.last

\* A chain shorter than the checkpoint, or as long with another tail.
CheckpointViolation(c) ==
  \/ Len(c) < ckpt.count
  \/ Len(c) = ckpt.count /\ HashAt(c, Len(c)) # ckpt.last

\* Mutant: the file is opened for writing, not for appending.
OverwriteLine(c, r) == <<r>>

\* A line appended to an unterminated tail runs into it and spoils both.
AppendLine(c, r) ==
  IF c # <<>> /\ Unterminated(LastLine(c))
  THEN [c EXCEPT ![Len(c)].form = IF Unterminated(r) THEN "partial" ELSE "garbage"]
  ELSE Append(c, r)

\* Mutant: the tail is not read.
NoTailHash(c) == NoHash

\* Readers without the fail-closed check take an unreadable tail for no tail.
TailHash(c) == IF c # <<>> /\ Readable(LastLine(c)) THEN LastLine(c).hash ELSE NoHash
TailUnreadable(c) == c # <<>> /\ ~Readable(LastLine(c))

Goto(w, l) == pc' = [pc EXCEPT ![w] = l]

-----------------------------------------------------------------------------
(* The lock.                                                               *)

Begin(w) ==
  /\ pc[w] = "idle"
  /\ nextHash <= MaxRecords
  /\ Goto(w, "trying")
  /\ UNCHANGED <<lockVars, dataVars, readVars, envVars, released, nextHash>>

\* Mutant: mkdir with exist_ok.
AcquireAnyway(w) ==
  /\ pc[w] \in {"trying", "waiting"}
  /\ dir' = w
  /\ Goto(w, IF w \in Shells THEN "head" ELSE "meta")
  /\ UNCHANGED <<owner, robbed, dataVars, readVars, envVars, released, nextHash>>

\* mkdir succeeds for one writer; shells write no owner file.
TryAcquire(w) ==
  /\ pc[w] \in {"trying", "waiting"}
  /\ dir = NoDir
  /\ dir' = w
  /\ Goto(w, IF w \in Shells THEN "head" ELSE "meta")
  /\ UNCHANGED <<owner, robbed, dataVars, readVars, envVars, released, nextHash>>

MissLock(w) ==
  /\ pc[w] = "trying"
  /\ dir # NoDir
  /\ Goto(w, "waiting")
  /\ UNCHANGED <<lockVars, dataVars, readVars, envVars, released, nextHash>>

\* Mutant: a shell keeps trying.
NoShellTimeout(w) == w \notin Writers /\ UNCHANGED vars

\* After fifty attempts a shell gives up ...
ShellTimeout(w) ==
  /\ w \in Shells
  /\ pc[w] = "waiting"
  /\ Goto(w, "idle")
  /\ UNCHANGED <<lockVars, dataVars, readVars, envVars, released, nextHash>>

\* ... and a Python writer looks at the owner file: a live pid is a
\* TimeoutError; no file, or a dead pid, and it sets out to break the lock.
HolderIsNotDead == owner # DeadPid  \* mutant: no owner file, no verdict
HolderIsAlive == owner \notin {NoOwner, DeadPid}
JudgeHolder(w) ==
  /\ w \notin Shells
  /\ pc[w] = "waiting"
  /\ Goto(w, IF HolderIsAlive THEN "idle" ELSE "unlink")
  /\ UNCHANGED <<lockVars, dataVars, readVars, envVars, released, nextHash>>

BreakMeta(w) ==
  /\ pc[w] = "unlink"
  /\ owner' = NoOwner
  /\ Goto(w, "rmdir")
  /\ UNCHANGED <<dir, robbed, dataVars, readVars, envVars, released, nextHash>>

\* rmdir removes whatever directory is there, if it is empty.
Rmdir(w) ==
  IF dir # NoDir /\ owner = NoOwner
  THEN /\ dir' = NoDir
       /\ robbed' = (robbed \/ dir \in Writers \ {w})
  ELSE UNCHANGED <<dir, robbed>>

BreakDir(w) ==
  /\ pc[w] = "rmdir"
  /\ Rmdir(w)
  /\ Goto(w, "retry")
  /\ UNCHANGED <<owner, dataVars, readVars, envVars, released, nextHash>>

RetryAcquire(w) ==
  /\ pc[w] = "retry"
  /\ \/ /\ dir = NoDir
        /\ dir' = w
        /\ Goto(w, "meta")
     \/ /\ dir # NoDir
        /\ Goto(w, "idle")
        /\ UNCHANGED dir
  /\ UNCHANGED <<owner, robbed, dataVars, readVars, envVars, released, nextHash>>

\* The owner file lands in whatever directory is there; an OSError is ignored.
WriteMeta(w) ==
  /\ pc[w] = "meta"
  /\ \/ owner' = IF dir # NoDir THEN w ELSE owner
     \/ OwnerFileErrors /\ owner' = owner
  /\ Goto(w, IF w \in Proxies THEN "verify" ELSE "head")
  /\ UNCHANGED <<dir, robbed, dataVars, readVars, envVars, released, nextHash>>

UnlinkMeta(w) ==
  /\ pc[w] = "unlock"
  /\ owner' = IF w \in Shells THEN owner ELSE NoOwner
  /\ Goto(w, "unlockdir")
  /\ UNCHANGED <<dir, robbed, dataVars, readVars, envVars, released, nextHash>>

ReleaseDir(w) ==
  /\ pc[w] = "unlockdir"
  /\ Rmdir(w)
  /\ Goto(w, "idle")
  /\ UNCHANGED <<owner, dataVars, readVars, envVars, released, nextHash>>

-----------------------------------------------------------------------------
(* The append.                                                             *)

\* verify_chain_writable: forward growth by another writer is adopted,
\* anything else blocks the chain.  Here and below a step that replaces the
\* sidecar may fail and leave it as it was; the caller sees an exception.
VerifyChainWritable(w) ==
  /\ pc[w] = "verify"
  /\ \/ /\ Valid(chain) /\ ~CheckpointViolation(chain)
        /\ \/ /\ ckpt' = IF Len(chain) > ckpt.count THEN Summarize(chain) ELSE ckpt
              /\ Goto(w, "head")
           \/ /\ Len(chain) > ckpt.count
              /\ Goto(w, "unlock")
              /\ UNCHANGED ckpt
     \/ /\ ~Valid(chain) \/ CheckpointViolation(chain)
        /\ Goto(w, "archive")
        /\ UNCHANGED ckpt
  /\ UNCHANGED <<lockVars, chain, archives, readVars, envVars, released, nextHash>>

MoveToArchive ==
  /\ chain' = <<>>
  /\ archives' = IF chain = <<>> THEN archives ELSE archives \cup {chain}

\* _block_chain: archive, then zero the checkpoint.  The archive may fail
\* before the move, or after it (the manifest), and then the checkpoint stays.
\* Either way the append raises.
BlockArchive(w) ==
  /\ pc[w] = "archive"
  /\ \/ MoveToArchive /\ Goto(w, "reset")
     \/ MoveToArchive /\ Goto(w, "unlock")
     \/ UNCHANGED <<chain, archives>> /\ Goto(w, "unlock")
  /\ UNCHANGED <<lockVars, ckpt, readVars, envVars, released, nextHash>>

BlockReset(w) ==
  /\ pc[w] = "reset"
  /\ ckpt' \in {Empty, ckpt}
  /\ Goto(w, "unlock")
  /\ UNCHANGED <<lockVars, chain, archives, readVars, envVars, released, nextHash>>

\* Mutant: the lock covers the read alone.
ReadHeadAndRelease(w) ==
  /\ pc[w] = "head"
  /\ head' = [head EXCEPT ![w] = TailHash(chain)]
  /\ dir' = NoDir /\ owner' = NoOwner
  /\ Goto(w, "write")
  /\ UNCHANGED <<robbed, dataVars, mine, seen, envVars, released, nextHash>>

\* The proxy refuses to extend an unreadable tail; the others start afresh.
ReadHead(w) ==
  /\ pc[w] = "head"
  /\ \/ /\ w \in Proxies /\ TailUnreadable(chain)
        /\ Goto(w, "unlock")
        /\ UNCHANGED head
     \/ /\ w \notin Proxies \/ ~TailUnreadable(chain)
        /\ head' = [head EXCEPT ![w] = TailHash(chain)]
        /\ Goto(w, "write")
  /\ UNCHANGED <<lockVars, dataVars, mine, seen, envVars, released, nextHash>>

AfterWrite(w) == Goto(w, IF w \in Proxies \cup Dashboards THEN "sum" ELSE "unlock")

\* One os.write whose result is not looked at: all of the line, all but its
\* newline, a piece of it, or an OSError.
WriteLine(w, form) ==
  /\ pc[w] = "write"
  /\ form # "whole" => shorts < MaxShorts
  /\ chain' = AppendLine(chain, [hash |-> nextHash, prev |-> head[w], form |-> form])
  /\ head' = [head EXCEPT ![w] = NoHash]
  /\ mine' = [mine EXCEPT ![w] = IF w \in Proxies THEN nextHash ELSE NoHash]
  /\ nextHash' = nextHash + 1
  /\ shorts' = IF form = "whole" THEN shorts ELSE shorts + 1
  /\ clipped' = IF form = "bare" THEN clipped \cup {nextHash} ELSE clipped
  /\ AfterWrite(w)
  /\ UNCHANGED <<lockVars, archives, ckpt, seen, crashes, released>>

WriteError(w) ==
  /\ pc[w] = "write"
  /\ Goto(w, "unlock")
  /\ head' = [head EXCEPT ![w] = NoHash]
  /\ UNCHANGED <<lockVars, dataVars, mine, seen, envVars, released, nextHash>>

\* Mutant: the proxy ignores a failed verification, as the dashboard does.
RefreshUnverified(w) ==
  /\ pc[w] = "sum"
  /\ seen' = [seen EXCEPT ![w] = Summarize(chain)]
  /\ Goto(w, "save")
  /\ UNCHANGED <<lockVars, dataVars, mine, head, envVars, released, nextHash>>

\* refresh_after_chain_write, first half.  The proxy's append fails when the
\* chain does not verify; the dashboard ignores that.
RefreshSummarize(w) ==
  /\ pc[w] = "sum"
  /\ \/ /\ Valid(chain)
        /\ seen' = [seen EXCEPT ![w] = Summarize(chain)]
        /\ Goto(w, "save")
        /\ UNCHANGED mine
     \/ /\ ~Valid(chain)
        /\ mine' = [mine EXCEPT ![w] = NoHash]
        /\ Goto(w, "unlock")
        /\ UNCHANGED seen
  /\ UNCHANGED <<lockVars, dataVars, head, envVars, released, nextHash>>

\* Second half: the sidecar is replaced and the append can no longer fail; if
\* that fails, the proxy's record stays on the chain but is not released.
RefreshSave(w) ==
  /\ pc[w] = "save"
  /\ \/ /\ ckpt' = seen[w]
        /\ released' = IF w \in Proxies THEN released \cup {mine[w]} ELSE released
     \/ UNCHANGED <<ckpt, released>>
  /\ mine' = [mine EXCEPT ![w] = NoHash]
  /\ seen' = [seen EXCEPT ![w] = Empty]
  /\ Goto(w, "unlock")
  /\ UNCHANGED <<lockVars, chain, archives, head, envVars, nextHash>>

-----------------------------------------------------------------------------
(* Crashes, and the start of the proxy, which runs outside the lock.       *)

\* The locals of the append are lost with the process.  A crash between two
\* appends matters only to the proxy, which checks the chain when it starts;
\* the other writers are commands and request handlers that just run again.
Crash(w) ==
  /\ pc[w] # "down"
  /\ pc[w] = "idle" => w \in Proxies
  /\ crashes < MaxCrashes
  /\ crashes' = crashes + 1
  /\ Goto(w, IF w \in Proxies THEN "down" ELSE "idle")
  /\ dir' = IF dir = w THEN Orphan ELSE dir
  /\ owner' = IF owner = w THEN DeadPid ELSE owner
  /\ head' = [head EXCEPT ![w] = NoHash]
  /\ mine' = [mine EXCEPT ![w] = NoHash]
  /\ seen' = [seen EXCEPT ![w] = Empty]
  /\ UNCHANGED <<robbed, dataVars, shorts, clipped, released, nextHash>>

Restart(w) ==
  /\ pc[w] = "down"
  /\ Goto(w, "start")
  /\ UNCHANGED <<lockVars, dataVars, readVars, envVars, released, nextHash>>

VerifyStartupChain(w) ==
  /\ pc[w] = "start"
  /\ \/ /\ Valid(chain) /\ ~CheckpointViolation(chain)
        /\ seen' = [seen EXCEPT ![w] = Summarize(chain)]
        /\ Goto(w, "startsave")
     \/ /\ ~Valid(chain) \/ CheckpointViolation(chain)
        /\ Goto(w, "startarchive")
        /\ UNCHANGED seen
  /\ UNCHANGED <<lockVars, dataVars, head, mine, envVars, released, nextHash>>

StartupArchive(w) ==
  /\ pc[w] = "startarchive"
  /\ \/ MoveToArchive /\ Goto(w, "startsum")
     \/ MoveToArchive /\ Goto(w, "down")
     \/ UNCHANGED <<chain, archives>> /\ Goto(w, "down")
  /\ UNCHANGED <<lockVars, ckpt, readVars, envVars, released, nextHash>>

StartupSummarize(w) ==
  /\ pc[w] = "startsum"
  /\ \/ /\ Valid(chain)
        /\ seen' = [seen EXCEPT ![w] = Summarize(chain)]
        /\ Goto(w, "startsave")
     \/ ~Valid(chain) /\ Goto(w, "down") /\ UNCHANGED seen
  /\ UNCHANGED <<lockVars, dataVars, head, mine, envVars, released, nextHash>>

StartupSave(w) ==
  /\ pc[w] = "startsave"
  /\ \/ ckpt' = seen[w] /\ Goto(w, "idle")
     \/ ckpt' = ckpt /\ Goto(w, "down")
  /\ seen' = [seen EXCEPT ![w] = Empty]
  /\ UNCHANGED <<lockVars, chain, archives, head, mine, envVars, released, nextHash>>

-----------------------------------------------------------------------------
Init ==
  /\ chain = <<>> /\ archives = {} /\ ckpt = Empty
  /\ dir = NoDir /\ owner = NoOwner
  /\ pc = [w \in Writers |-> "idle"]
  /\ head = [w \in Writers |-> NoHash]
  /\ mine = [w \in Writers |-> NoHash]
  /\ seen = [w \in Writers |-> Empty]
  /\ released = {} /\ nextHash = 1
  /\ crashes = 0 /\ shorts = 0 /\ clipped = {} /\ robbed = FALSE

Locking(w) ==
  \/ TryAcquire(w) \/ MissLock(w) \/ ShellTimeout(w) \/ JudgeHolder(w)
  \/ BreakMeta(w) \/ BreakDir(w) \/ RetryAcquire(w) \/ WriteMeta(w)
  \/ UnlinkMeta(w) \/ ReleaseDir(w)

Appending(w) ==
  \/ VerifyChainWritable(w) \/ BlockArchive(w) \/ BlockReset(w) \/ ReadHead(w)
  \/ \E form \in {"whole", "bare", "partial"} : WriteLine(w, form)
  \/ WriteError(w)
  \/ RefreshSummarize(w) \/ RefreshSave(w)

Starting(w) ==
  \/ VerifyStartupChain(w) \/ StartupArchive(w)
  \/ StartupSummarize(w) \/ StartupSave(w)

Step(w) == Locking(w) \/ Appending(w) \/ Starting(w)

Next == \E w \in Writers : Begin(w) \/ Step(w) \/ Crash(w) \/ Restart(w)

Spec == Init /\ [][Next]_vars

\* A process that runs keeps running: the code has no wait without a limit.
FairSpec == Spec /\ \A w \in Writers : WF_vars(Step(w))

-----------------------------------------------------------------------------
(* What the writers promise.                                               *)

Labels ==
  {"idle", "trying", "waiting", "unlink", "rmdir", "retry", "meta", "verify",
   "archive", "reset", "head", "write", "sum", "save", "unlock", "unlockdir",
   "down", "start", "startsave", "startarchive", "startsum"}

\* The variables stay in their ranges.
TypeOK ==
  /\ chain \in Seq(Record)
  /\ archives \subseteq Seq(Record)
  /\ ckpt \in Summary
  /\ dir \in Writers \cup {NoDir, Orphan}
  /\ owner \in Writers \cup {NoOwner, DeadPid}
  /\ pc \in [Writers -> Labels]
  /\ head \in [Writers -> Nat]
  /\ mine \in [Writers -> Nat]
  /\ seen \in [Writers -> Summary]
  /\ released \subseteq Nat
  /\ nextHash \in Nat
  /\ crashes \in Nat /\ shorts \in Nat
  /\ clipped \subseteq Nat
  /\ robbed \in BOOLEAN

InLock(w) ==
  pc[w] \in {"meta", "verify", "archive", "reset", "head", "write", "sum",
             "save", "unlock", "unlockdir"}
Blocking(w) == pc[w] \in {"archive", "reset", "startarchive", "startsum"}

\* No lock was taken from a live writer and no write was cut short.
Undisturbed == ~robbed /\ shorts = 0

\* Only one writer at a time is between mkdir and rmdir, whatever crashes and
\* whoever breaks a dead writer's lock, as long as no live writer lost its own.
MutualExclusion ==
  ~robbed => \A w1, w2 \in Writers : InLock(w1) /\ InLock(w2) => w1 = w2

\* Every line parses and names the line before it as its predecessor, although
\* head and write are separate steps of writers that check different things.
LinearChain == Undisturbed => Valid(chain)

\* The sidecar checkpoint is a point of the chain that exists: the proxy's
\* unlocked start and writers that never refresh cannot put it ahead or astray.
CheckpointOnChain ==
  Undisturbed => /\ ckpt.count <= Len(chain)
                 /\ HashAt(chain, ckpt.count) = ckpt.last

\* The tamper response never fires by itself: crashes between write, refresh
\* and release, and starts that race with appends, never archive a chain.
NoFalseAlarm ==
  Undisturbed => archives = {} /\ \A w \in Writers : ~Blocking(w)

\* A decision the proxy released is on disk for good, in a file that is intact
\* up to and including it, even when locks are robbed and writes cut short; the
\* one exception is a record that lost exactly its newline.
ReleasedOnIntactPrefix ==
  \A h \in released \ clipped :
    \E c \in archives \cup {chain} : \E i \in 1..Len(c) :
      c[i].hash = h /\ Valid(SubSeq(c, 1, i))

\* Every append ends, by a record, a refusal or a timeout: a lock left behind
\* by a crash never hangs a writer.
AppendTerminates ==
  \A w \in Writers : (pc[w] \notin {"idle", "down"}) ~> (pc[w] \in {"idle", "down"})

\* Once crashes have ended, a Python writer that waits for a dead writer's lock
\* gets rid of it, unless the protocol has already gone wrong.
StaleLockBroken ==
  \A w \in Writers \ Shells :
    (pc[w] = "waiting" /\ dir = Orphan /\ crashes = MaxCrashes)
      ~> (dir # Orphan \/ robbed)

\* The chain file is an append-only hash-linked log for as long as nothing
\* disturbs the protocol (INV-004 and INV-010 of docs/INVARIANTS.md).
Log == INSTANCE HashLog WITH log <- chain, trusted <- Undisturbed
ImplementsHashLog == Log!Spec

=============================================================================
