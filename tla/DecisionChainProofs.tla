------------------------- MODULE DecisionChainProofs -------------------------
(* Proofs about DecisionChain, for any number of writers of each kind and    *)
(* any bounds.                                                               *)
EXTENDS DecisionChain, TLAPS

\* The variables stay in their ranges.
THEOREM TypeCorrect == Spec => []TypeOK
<1> USE DisjointKinds, MarkersAreNotWriters, BoundsAreNat
<1>e. Empty \in Summary /\ NoHash \in Nat
  BY DEF Empty, Summary, NoHash
<1>1. Init => TypeOK
  <2> SUFFICES ASSUME Init PROVE TypeOK
    OBVIOUS
  <2>1. chain \in Seq(Record) /\ archives \subseteq Seq(Record) /\ ckpt \in Summary
    BY <1>e DEF Init
  <2>2. pc \in [Writers -> Labels]
    BY DEF Init, Labels
  <2>3. head \in [Writers -> Nat] /\ mine \in [Writers -> Nat] /\ seen \in [Writers -> Summary]
    BY <1>e DEF Init
  <2>4. QED
    BY <2>1, <2>2, <2>3 DEF Init, TypeOK
<1>2. TypeOK /\ [Next]_vars => TypeOK'
  <2> SUFFICES ASSUME TypeOK, [Next]_vars PROVE TypeOK'
    OBVIOUS
  <2>c. Len(chain) \in Nat /\ \A i \in 1..Len(chain) : chain[i] \in Record
    BY DEF TypeOK
  <2>l. chain # <<>> => Len(chain) \in 1..Len(chain)
    BY <2>c DEF TypeOK
  <2>r. \A r \in Record : r.hash \in Nat
    BY DEF Record
  <2>t. Summarize(chain) \in Summary /\ Empty \in Summary
    <3>1. HashAt(chain, Len(chain)) \in Nat
      BY <1>e, <2>c, <2>l, <2>r DEF HashAt
    <3>2. QED
      BY <1>e, <2>c, <3>1 DEF Summarize, Summary
  <2>h. TailHash(chain) \in Nat
    BY <1>e, <2>c, <2>l, <2>r DEF TailHash, LastLine
  <2>a. ASSUME NEW r \in Record PROVE AppendLine(chain, r) \in Seq(Record)
    <3>1. CASE chain # <<>> /\ Unterminated(LastLine(chain))
      <4> DEFINE n == Len(chain)
                 f == IF Unterminated(r) THEN "partial" ELSE "garbage"
      <4>1. n \in 1..Len(chain) /\ chain[n] \in Record
        BY <2>c, <2>l, <3>1
      <4>2. [chain[n] EXCEPT !.form = f] \in Record
        BY <4>1 DEF Record, Forms
      <4>3. [chain EXCEPT ![n] = [chain[n] EXCEPT !.form = f]] \in Seq(Record)
        BY <4>1, <4>2 DEF TypeOK
      <4>4. QED
        BY <3>1, <4>3 DEF AppendLine
    <3>2. CASE ~(chain # <<>> /\ Unterminated(LastLine(chain)))
      BY <3>2 DEF TypeOK, AppendLine
    <3>3. QED
      BY <3>1, <3>2
  <2>m. MoveToArchive => chain' \in Seq(Record) /\ archives' \subseteq Seq(Record)
    BY DEF TypeOK, MoveToArchive
  <2>1. ASSUME NEW w \in Writers, Begin(w) PROVE TypeOK'
    BY <2>1 DEF TypeOK, Begin, Goto, Labels, lockVars, dataVars, readVars, envVars
  <2>2. ASSUME NEW w \in Writers, Locking(w) PROVE TypeOK'
    BY <2>2 DEF TypeOK, Locking, TryAcquire, MissLock, ShellTimeout, JudgeHolder,
       BreakMeta, BreakDir, RetryAcquire, WriteMeta, UnlinkMeta, ReleaseDir, Rmdir,
       Goto, Labels, lockVars, dataVars, readVars, envVars
  <2>3. ASSUME NEW w \in Writers, Appending(w) PROVE TypeOK'
    <3>1. CASE VerifyChainWritable(w)
      BY <3>1, <2>t DEF TypeOK, VerifyChainWritable, Goto, Labels, lockVars, readVars, envVars
    <3>2. CASE BlockArchive(w)
      BY <3>2, <2>m DEF TypeOK, BlockArchive, Goto, Labels, lockVars, readVars, envVars
    <3>3. CASE BlockReset(w)
      BY <3>3, <2>t DEF TypeOK, BlockReset, Goto, Labels, lockVars, readVars, envVars
    <3>4. CASE ReadHead(w)
      BY <3>4, <2>h DEF TypeOK, ReadHead, Goto, Labels, lockVars, dataVars, envVars
    <3>5. ASSUME NEW form \in {"whole", "bare", "partial"}, WriteLine(w, form) PROVE TypeOK'
      <4>1. [hash |-> nextHash, prev |-> head[w], form |-> form] \in Record
        BY DEF TypeOK, Record, Forms
      <4>2. chain' \in Seq(Record)
        BY <3>5, <4>1, <2>a DEF WriteLine
      <4>3. QED
        BY <3>5, <4>2 DEF TypeOK, WriteLine, AfterWrite, Goto, Labels, lockVars, NoHash
    <3>6. CASE WriteError(w)
      BY <3>6 DEF TypeOK, WriteError, Goto, Labels, lockVars, dataVars, envVars, NoHash
    <3>7. CASE RefreshSummarize(w)
      <4>1. pc' \in [Writers -> Labels]
        BY <3>7 DEF TypeOK, RefreshSummarize, Goto, Labels
      <4>2. seen' \in [Writers -> Summary] /\ mine' \in [Writers -> Nat]
        BY <3>7, <1>e, <2>t DEF TypeOK, RefreshSummarize
      <4>3. QED
        BY <3>7, <4>1, <4>2 DEF TypeOK, RefreshSummarize, lockVars, dataVars, envVars
    <3>8. CASE RefreshSave(w)
      <4>1. ckpt' \in Summary /\ released' \subseteq Nat
        <5>1. seen[w] \in Summary /\ mine[w] \in Nat
          BY DEF TypeOK
        <5>2. CASE UNCHANGED <<ckpt, released>>
          BY <5>2 DEF TypeOK
        <5>3. CASE ~UNCHANGED <<ckpt, released>>
          BY <5>1, <5>3, <3>8 DEF TypeOK, RefreshSave
        <5>4. QED
          BY <5>2, <5>3
      <4>2. pc' \in [Writers -> Labels] /\ mine' \in [Writers -> Nat] /\ seen' \in [Writers -> Summary]
        BY <3>8, <1>e, <2>t DEF TypeOK, RefreshSave, Goto, Labels
      <4>3. QED
        BY <3>8, <4>1, <4>2 DEF TypeOK, RefreshSave, lockVars, envVars
    <3>9. QED
      BY <2>3, <3>1, <3>2, <3>3, <3>4, <3>5, <3>6, <3>7, <3>8 DEF Appending
  <2>4. ASSUME NEW w \in Writers, Starting(w) PROVE TypeOK'
    <3>1. CASE VerifyStartupChain(w)
      BY <3>1, <2>t DEF TypeOK, VerifyStartupChain, Goto, Labels, lockVars, dataVars, envVars
    <3>2. CASE StartupArchive(w)
      BY <3>2, <2>m DEF TypeOK, StartupArchive, Goto, Labels, lockVars, readVars, envVars
    <3>3. CASE StartupSummarize(w)
      BY <3>3, <2>t DEF TypeOK, StartupSummarize, Goto, Labels, lockVars, dataVars, envVars
    <3>4. CASE StartupSave(w)
      <4>1. ckpt' \in Summary
        <5>1. seen[w] \in Summary
          BY DEF TypeOK
        <5>2. QED
          BY <5>1, <3>4 DEF TypeOK, StartupSave
      <4>2. pc' \in [Writers -> Labels]
        BY <3>4 DEF TypeOK, StartupSave, Goto, Labels
      <4>3. seen' \in [Writers -> Summary]
        BY <3>4, <2>t DEF TypeOK, StartupSave
      <4>4. QED
        BY <3>4, <4>1, <4>2, <4>3 DEF TypeOK, StartupSave, lockVars, envVars
    <3>5. QED
      BY <2>4, <3>1, <3>2, <3>3, <3>4 DEF Starting
  <2>5. ASSUME NEW w \in Writers, Crash(w) PROVE TypeOK'
    BY <2>5, <2>t DEF TypeOK, Crash, Goto, Labels, dataVars, NoHash
  <2>6. ASSUME NEW w \in Writers, Restart(w) PROVE TypeOK'
    BY <2>6 DEF TypeOK, Restart, Goto, Labels, lockVars, dataVars, readVars, envVars
  <2>7. CASE UNCHANGED vars
    BY <2>7 DEF TypeOK, vars
  <2>8. QED
    BY <2>1, <2>2, <2>3, <2>4, <2>5, <2>6, <2>7 DEF Next, Step
<1>3. QED
  BY <1>1, <1>2, PTL DEF Spec

-----------------------------------------------------------------------------
(* The lock: a writer inside it created the directory that is there, unless  *)
(* some live writer has been robbed.                                         *)

HolderInv == ~robbed => \A w \in Writers : InLock(w) => dir = w

LEMMA HolderInvariant == Spec => []HolderInv
<1> USE MarkersAreNotWriters DEF HolderInv, InLock
<1>1. Init => HolderInv
  BY DEF Init
<1>2. TypeOK /\ HolderInv /\ [Next]_vars => HolderInv'
  <2> SUFFICES ASSUME TypeOK, HolderInv, [Next]_vars PROVE HolderInv'
    OBVIOUS
  <2>p. pc \in [Writers -> Labels] /\ robbed \in BOOLEAN
    BY DEF TypeOK
  <2>1. ASSUME NEW w \in Writers, Begin(w) PROVE HolderInv'
    BY <2>1, <2>p DEF Begin, Goto, lockVars
  <2>2. ASSUME NEW w \in Writers, Locking(w) PROVE HolderInv'
    <3>1. CASE TryAcquire(w) \/ RetryAcquire(w)
      BY <3>1, <2>p DEF TryAcquire, RetryAcquire, Goto
    <3>2. CASE MissLock(w) \/ ShellTimeout(w) \/ JudgeHolder(w) \/ BreakMeta(w) \/ UnlinkMeta(w)
      BY <3>2, <2>p DEF MissLock, ShellTimeout, JudgeHolder, BreakMeta, UnlinkMeta, Goto, lockVars
    <3>3. CASE BreakDir(w)
      BY <3>3, <2>p DEF BreakDir, Rmdir, Goto
    <3>4. CASE WriteMeta(w)
      BY <3>4, <2>p DEF WriteMeta, Goto
    <3>5. CASE ReleaseDir(w)
      BY <3>5, <2>p DEF ReleaseDir, Rmdir, Goto
    <3>6. QED
      BY <2>2, <3>1, <3>2, <3>3, <3>4, <3>5 DEF Locking
  <2>3. ASSUME NEW w \in Writers, Appending(w) PROVE HolderInv'
    BY <2>3, <2>p DEF Appending, VerifyChainWritable, BlockArchive, BlockReset, ReadHead,
       WriteLine, AfterWrite, WriteError, RefreshSummarize, RefreshSave, Goto, lockVars
  <2>4. ASSUME NEW w \in Writers, Starting(w) PROVE HolderInv'
    BY <2>4, <2>p DEF Starting, VerifyStartupChain, StartupArchive, StartupSummarize,
       StartupSave, Goto, lockVars
  <2>5. ASSUME NEW w \in Writers, Crash(w) PROVE HolderInv'
    BY <2>5, <2>p DEF Crash, Goto
  <2>6. ASSUME NEW w \in Writers, Restart(w) PROVE HolderInv'
    BY <2>6, <2>p DEF Restart, Goto, lockVars
  <2>7. CASE UNCHANGED vars
    BY <2>7 DEF vars
  <2>8. QED
    BY <2>1, <2>2, <2>3, <2>4, <2>5, <2>6, <2>7 DEF Next, Step
<1>3. QED
  BY <1>1, <1>2, TypeCorrect, PTL DEF Spec

\* Only one writer at a time is inside the lock, for every population of
\* writers and whatever crashes, as long as no live writer lost its own lock.
THEOREM LockExcludes == Spec => []MutualExclusion
<1>1. HolderInv => MutualExclusion
  BY DEF HolderInv, MutualExclusion
<1>2. QED
  BY <1>1, HolderInvariant, PTL

-----------------------------------------------------------------------------
(* The chain.  The strengthening says where each writer's reading stands in  *)
(* relation to the file: a writer about to write holds the hash of the tail, *)
(* and every summary, saved or about to be, is a point of the chain.         *)

OnChain(s) == s.count <= Len(chain) /\ HashAt(chain, s.count) = s.last

ChainInv ==
  /\ \A i \in 1..Len(chain) : chain[i].form = "whole" /\ chain[i].hash < nextHash
  /\ Linked(chain)
  /\ nextHash > 0
  /\ \A w \in Writers : pc[w] = "write" => head[w] = HashAt(chain, Len(chain))
  /\ OnChain(ckpt)
  /\ \A w \in Writers : pc[w] \in {"save", "startsave"} => OnChain(seen[w])
  /\ archives = {}
  /\ \A w \in Writers : ~Blocking(w)

\* What an append of a linked record does to the parts of ChainInv.
LEMMA AppendKeepsLinks ==
  ASSUME NEW c \in Seq(Record), NEW r \in Record, Linked(c), r.prev = HashAt(c, Len(c))
  PROVE  /\ Linked(Append(c, r))
         /\ \A n \in 0..Len(c) : HashAt(Append(c, r), n) = HashAt(c, n)
<1> DEFINE d == Append(c, r)
<1>1. Len(d) = Len(c) + 1 /\ d[Len(c) + 1] = r /\ \A i \in 1..Len(c) : d[i] = c[i]
  OBVIOUS
<1>2. ASSUME NEW i \in 2..Len(d) PROVE d[i].prev = d[i-1].hash
  <2>1. CASE i <= Len(c)
    BY <1>1, <2>1 DEF Linked
  <2>2. CASE i = Len(c) + 1
    BY <1>1, <2>2 DEF HashAt
  <2>3. QED
    BY <1>1, <2>1, <2>2
<1>3. \A n \in 0..Len(c) : HashAt(d, n) = HashAt(c, n)
  BY <1>1 DEF HashAt
<1>4. QED
  BY <1>2, <1>3 DEF Linked

\* Neither history variable is ever reset.
LEMMA TrustIsLostForGood ==
  ASSUME TypeOK, [Next]_vars, Undisturbed'
  PROVE  Undisturbed
<1> USE DEF Undisturbed
<1>t. shorts \in Nat /\ robbed \in BOOLEAN
  BY DEF TypeOK
<1>1. ASSUME NEW w \in Writers, Locking(w) PROVE Undisturbed
  BY <1>1, <1>t DEF Locking, TryAcquire, MissLock, ShellTimeout, JudgeHolder, BreakMeta,
     BreakDir, RetryAcquire, WriteMeta, UnlinkMeta, ReleaseDir, Rmdir, lockVars, envVars
<1>2. ASSUME NEW w \in Writers, Appending(w) PROVE Undisturbed
  <2>1. ASSUME NEW form \in {"whole", "bare", "partial"}, WriteLine(w, form) PROVE Undisturbed
    BY <2>1, <1>t DEF WriteLine, lockVars
  <2>2. CASE ~\E form \in {"whole", "bare", "partial"} : WriteLine(w, form)
    BY <1>2, <2>2, <1>t DEF Appending, VerifyChainWritable, BlockArchive, BlockReset, ReadHead,
       WriteError, RefreshSummarize, RefreshSave, lockVars, envVars
  <2>3. QED
    BY <2>1, <2>2
<1>3. ASSUME NEW w \in Writers, Starting(w) PROVE Undisturbed
  BY <1>3, <1>t DEF Starting, VerifyStartupChain, StartupArchive, StartupSummarize,
     StartupSave, lockVars, envVars
<1>4. ASSUME NEW w \in Writers, Begin(w) \/ Crash(w) \/ Restart(w) PROVE Undisturbed
  BY <1>4, <1>t DEF Begin, Crash, Restart, lockVars, envVars
<1>5. CASE UNCHANGED vars
  BY <1>5 DEF vars
<1>6. QED
  BY <1>1, <1>2, <1>3, <1>4, <1>5 DEF Next, Step

LEMMA ChainInvariant == Spec => [](Undisturbed => ChainInv)
<1> USE MarkersAreNotWriters
<1>1. Init => (Undisturbed => ChainInv)
  BY DEF Init, ChainInv, Linked, OnChain, HashAt, Empty, NoHash, Blocking
<1>2. /\ TypeOK /\ HolderInv /\ (Undisturbed => ChainInv) /\ [Next]_vars
      => (Undisturbed => ChainInv)'
  <2> SUFFICES ASSUME TypeOK, HolderInv, Undisturbed => ChainInv, [Next]_vars, Undisturbed'
               PROVE  ChainInv'
    OBVIOUS
  <2>u. Undisturbed
    BY TrustIsLostForGood
  <2>i. ChainInv
    BY <2>u
  <2>t. /\ pc \in [Writers -> Labels] /\ head \in [Writers -> Nat]
        /\ seen \in [Writers -> Summary] /\ chain \in Seq(Record) /\ ckpt \in Summary
    BY DEF TypeOK
  <2>v. Valid(chain)
    BY <2>i DEF ChainInv, Valid, Readable
  <2>c. ~CheckpointViolation(chain)
    BY <2>i, <2>t DEF ChainInv, OnChain, CheckpointViolation, Summary
  <2>s. OnChain(Summarize(chain))
    BY <2>t DEF OnChain, Summarize
  <2>1. ASSUME NEW w \in Writers, Begin(w) PROVE ChainInv'
    BY <2>1, <2>i, <2>t DEF ChainInv, Begin, Goto, Blocking, OnChain,
       dataVars, readVars
  <2>2. ASSUME NEW w \in Writers, Locking(w) PROVE ChainInv'
    <3>1. UNCHANGED <<dataVars, readVars, nextHash>>
      BY <2>2 DEF Locking, TryAcquire, MissLock, ShellTimeout, JudgeHolder, BreakMeta,
         BreakDir, RetryAcquire, WriteMeta, UnlinkMeta, ReleaseDir
    <3>2. \E l \in {"idle", "waiting", "unlink", "rmdir", "retry", "meta", "verify", "head",
                    "unlockdir"} : Goto(w, l)
      BY <2>2 DEF Locking, TryAcquire, MissLock, ShellTimeout, JudgeHolder, BreakMeta,
         BreakDir, RetryAcquire, WriteMeta, UnlinkMeta, ReleaseDir
    <3>3. QED
      BY <3>1, <3>2, <2>i, <2>t DEF ChainInv, Goto, Blocking, OnChain, dataVars, readVars
  <2>3. ASSUME NEW w \in Writers, Appending(w) PROVE ChainInv'
    <3>1. CASE VerifyChainWritable(w)
      <4>1. OnChain(ckpt)' /\ UNCHANGED <<chain, archives, readVars, nextHash>>
        BY <3>1, <2>i, <2>v, <2>c, <2>s DEF VerifyChainWritable, ChainInv, OnChain
      <4>2. Goto(w, "head") \/ Goto(w, "unlock")
        BY <3>1, <2>v, <2>c DEF VerifyChainWritable
      <4>3. QED
        BY <4>1, <4>2, <2>i, <2>t DEF ChainInv, Goto, Blocking, OnChain, readVars
    <3>2. CASE BlockArchive(w) \/ BlockReset(w)
      BY <3>2, <2>i DEF BlockArchive, BlockReset, ChainInv, Blocking
    <3>3. CASE ReadHead(w)
      <4>1. TailHash(chain) = HashAt(chain, Len(chain)) /\ ~TailUnreadable(chain)
        <5>1. CASE chain = <<>>
          BY <5>1 DEF TailHash, TailUnreadable, HashAt
        <5>2. CASE chain # <<>>
          <6>1. Len(chain) \in 1..Len(chain)
            BY <5>2, <2>t
          <6>2. QED
            BY <6>1, <5>2, <2>v DEF TailHash, TailUnreadable, HashAt, LastLine, Valid
        <5>3. QED
          BY <5>1, <5>2
      <4>2. QED
        BY <3>3, <4>1, <2>i, <2>t DEF ReadHead, ChainInv, Goto, Blocking, OnChain, dataVars
    <3>4. ASSUME NEW form \in {"whole", "bare", "partial"}, WriteLine(w, form) PROVE ChainInv'
      <4> DEFINE r == [hash |-> nextHash, prev |-> head[w], form |-> form]
      <4>1. form = "whole"
        BY <3>4, <2>u DEF WriteLine, Undisturbed, TypeOK
      <4>2. r \in Record /\ r.prev = HashAt(chain, Len(chain))
        BY <4>1, <3>4, <2>i DEF TypeOK, Record, Forms, WriteLine, ChainInv
      <4>3. chain' = Append(chain, r)
        <5>1. chain # <<>> => ~Unterminated(LastLine(chain))
          <6>1. chain # <<>> => Len(chain) \in 1..Len(chain)
            BY <2>t
          <6>2. QED
            BY <6>1, <2>i DEF ChainInv, Unterminated, LastLine
        <5>2. QED
          BY <5>1, <3>4 DEF WriteLine, AppendLine
      <4>4. /\ Linked(chain')
            /\ \A n \in 0..Len(chain) : HashAt(chain', n) = HashAt(chain, n)
        BY <4>2, <4>3, <2>i, <2>t, AppendKeepsLinks DEF ChainInv
      <4>5. /\ Len(chain') = Len(chain) + 1
            /\ \A i \in 1..Len(chain') : chain'[i].form = "whole" /\ chain'[i].hash < nextHash'
        <5>1. /\ Len(chain') = Len(chain) + 1 /\ chain'[Len(chain) + 1] = r
              /\ \A i \in 1..Len(chain) : chain'[i] = chain[i]
          BY <4>3, <2>t
        <5>2. nextHash' = nextHash + 1 /\ nextHash \in Nat
          BY <3>4 DEF WriteLine, TypeOK
        <5>3. \A i \in 1..Len(chain) : chain[i].hash \in Nat
          <6>1. \A i \in 1..Len(chain) : chain[i] \in Record
            BY <2>t
          <6>2. QED
            BY <6>1 DEF Record
        <5>4. QED
          BY <5>1, <5>2, <5>3, <4>1, <2>i, <2>t DEF ChainInv
      <4>6. \A s \in Summary : OnChain(s) => OnChain(s)'
        BY <4>4, <4>5, <2>t DEF OnChain, Summary
      <4>7. \A v \in Writers : pc'[v] # "write"
        <5>1. \A v \in Writers : pc[v] = "write" => v = w
          BY <3>4, <2>u DEF WriteLine, HolderInv, InLock, Undisturbed
        <5>2. QED
          BY <5>1, <3>4, <2>t DEF WriteLine, AfterWrite, Goto
      <4>8. UNCHANGED <<ckpt, seen, archives>> /\ \E l \in {"sum", "unlock"} : Goto(w, l)
        BY <3>4 DEF WriteLine, AfterWrite
      <4>9. OnChain(ckpt)' /\ \A v \in Writers : pc'[v] \in {"save", "startsave"} => OnChain(seen[v])'
        BY <4>6, <4>8, <2>i, <2>t DEF ChainInv, Goto, OnChain
      <4>10. \A v \in Writers : ~Blocking(v)'
        BY <4>8, <2>i, <2>t DEF ChainInv, Goto, Blocking
      <4>11. nextHash' > 0
        BY <3>4 DEF WriteLine, TypeOK
      <4>12. QED
        BY <4>4, <4>5, <4>7, <4>8, <4>9, <4>10, <4>11, <2>i DEF ChainInv, OnChain
    <3>5. CASE WriteError(w)
      BY <3>5, <2>i, <2>t DEF WriteError, ChainInv, Goto, Blocking, OnChain, dataVars
    <3>6. CASE RefreshSummarize(w)
      <4>1. seen' = [seen EXCEPT ![w] = Summarize(chain)] /\ Goto(w, "save")
            /\ UNCHANGED <<dataVars, head, nextHash>>
        BY <3>6, <2>v DEF RefreshSummarize
      <4>2. QED
        BY <4>1, <2>s, <2>i, <2>t DEF ChainInv, Goto, Blocking, OnChain, dataVars
    <3>7. CASE RefreshSave(w)
      <4>1. OnChain(seen[w])
        BY <3>7, <2>i DEF RefreshSave, ChainInv
      <4>2. QED
        BY <3>7, <4>1, <2>i, <2>t DEF RefreshSave, ChainInv, Goto, Blocking, OnChain
    <3>8. QED
      BY <2>3, <3>1, <3>2, <3>3, <3>4, <3>5, <3>6, <3>7 DEF Appending
  <2>4. ASSUME NEW w \in Writers, Starting(w) PROVE ChainInv'
    <3>1. CASE VerifyStartupChain(w)
      <4>1. seen' = [seen EXCEPT ![w] = Summarize(chain)] /\ Goto(w, "startsave")
            /\ UNCHANGED <<dataVars, head, nextHash>>
        BY <3>1, <2>v, <2>c DEF VerifyStartupChain
      <4>2. QED
        BY <4>1, <2>s, <2>i, <2>t DEF ChainInv, Goto, Blocking, OnChain, dataVars
    <3>2. CASE StartupArchive(w) \/ StartupSummarize(w)
      BY <3>2, <2>i DEF StartupArchive, StartupSummarize, ChainInv, Blocking
    <3>3. CASE StartupSave(w)
      <4>1. OnChain(seen[w])
        BY <3>3, <2>i DEF StartupSave, ChainInv
      <4>2. QED
        BY <3>3, <4>1, <2>i, <2>t DEF StartupSave, ChainInv, Goto, Blocking, OnChain
    <3>4. QED
      BY <2>4, <3>1, <3>2, <3>3 DEF Starting
  <2>5. ASSUME NEW w \in Writers, Crash(w) PROVE ChainInv'
    BY <2>5, <2>i, <2>t DEF Crash, ChainInv, Goto, Blocking, OnChain, dataVars
  <2>6. ASSUME NEW w \in Writers, Restart(w) PROVE ChainInv'
    BY <2>6, <2>i, <2>t DEF Restart, ChainInv, Goto, Blocking, OnChain, dataVars, readVars
  <2>7. CASE UNCHANGED vars
    BY <2>7, <2>i DEF vars, ChainInv, Blocking, OnChain
  <2>8. QED
    BY <2>1, <2>2, <2>3, <2>4, <2>5, <2>6, <2>7 DEF Next, Step
<1>3. QED
  BY <1>1, <1>2, TypeCorrect, HolderInvariant, PTL DEF Spec

\* Every line parses and names the line before it, while nothing disturbs the
\* lock or cuts a write.
THEOREM ChainStaysLinear == Spec => []LinearChain
<1>1. (Undisturbed => ChainInv) => LinearChain
  BY DEF ChainInv, LinearChain, Valid, Readable
<1>2. QED
  BY <1>1, ChainInvariant, PTL

\* The sidecar checkpoint is always a point of the chain.
THEOREM CheckpointStaysOnChain == Spec => []CheckpointOnChain
<1>1. (Undisturbed => ChainInv) => CheckpointOnChain
  BY DEF ChainInv, CheckpointOnChain, OnChain
<1>2. QED
  BY <1>1, ChainInvariant, PTL

\* No crash and no race of a start with an append makes the proxy archive a
\* chain that nothing disturbed.
THEOREM NeverFalseAlarm == Spec => []NoFalseAlarm
<1>1. (Undisturbed => ChainInv) => NoFalseAlarm
  BY DEF ChainInv, NoFalseAlarm
<1>2. QED
  BY <1>1, ChainInvariant, PTL

-----------------------------------------------------------------------------
(* The writers implement the abstract log.                                   *)

LEMMA StepIsLogStep ==
  ASSUME TypeOK, HolderInv, Undisturbed => ChainInv, [Next]_vars
  PROVE  [Log!Next]_<<chain, Undisturbed>>
<1>1. CASE ~Undisturbed'
  BY <1>1 DEF Log!Next, Log!LoseTrust
<1>2. CASE Undisturbed'
  <2>1. Undisturbed /\ ChainInv
    BY <1>2, TrustIsLostForGood
  <2>t. chain \in Seq(Record) /\ nextHash \in Nat
    BY DEF TypeOK
  <2>2. ASSUME NEW w \in Writers, NEW form \in {"whole", "bare", "partial"}, WriteLine(w, form)
        PROVE  Log!Grow
    <3> DEFINE r == [hash |-> nextHash, prev |-> head[w], form |-> form]
    <3>1. chain' = Append(chain, r)
      <4>1. chain # <<>> => Len(chain) \in 1..Len(chain)
        BY <2>t
      <4>2. chain # <<>> => ~Unterminated(LastLine(chain))
        BY <2>1, <4>1 DEF ChainInv, Unterminated, LastLine
      <4>3. QED
        BY <4>2, <2>2 DEF WriteLine, AppendLine
    <3>2. r.prev = Log!HeadOf(chain)
      BY <2>1, <2>2, <2>t DEF ChainInv, WriteLine, HashAt, NoHash, Log!HeadOf, Log!NoPredecessor
    <3>3. \A i \in 1..Len(chain) : chain[i].hash # r.hash
      <4>1. \A i \in 1..Len(chain) : chain[i] \in Record
        BY <2>t
      <4>2. QED
        BY <2>1, <2>t, <4>1 DEF ChainInv, Record
    <3>4. Log!Extends(chain, chain')
      BY <3>1, <3>2, <3>3, <2>t DEF Log!Extends
    <3>5. QED
      BY <3>4, <2>1, <1>2 DEF Log!Grow
  <2>3. CASE ~\E w \in Writers, form \in {"whole", "bare", "partial"} : WriteLine(w, form)
    <3>1. UNCHANGED chain
      <4>1. ASSUME NEW w \in Writers, Locking(w) PROVE UNCHANGED chain
        BY <4>1 DEF Locking, TryAcquire, MissLock, ShellTimeout, JudgeHolder, BreakMeta,
           BreakDir, RetryAcquire, WriteMeta, UnlinkMeta, ReleaseDir, dataVars
      <4>2. ASSUME NEW w \in Writers, Appending(w) PROVE UNCHANGED chain
        BY <4>2, <2>1, <2>3 DEF Appending, VerifyChainWritable, BlockArchive, BlockReset,
           ReadHead, WriteError, RefreshSummarize, RefreshSave, dataVars, ChainInv, Blocking
      <4>3. ASSUME NEW w \in Writers, Starting(w) PROVE UNCHANGED chain
        BY <4>3, <2>1 DEF Starting, VerifyStartupChain, StartupArchive, StartupSummarize,
           StartupSave, dataVars, ChainInv, Blocking
      <4>4. ASSUME NEW w \in Writers, Begin(w) \/ Crash(w) \/ Restart(w) PROVE UNCHANGED chain
        BY <4>4 DEF Begin, Crash, Restart, dataVars
      <4>5. CASE UNCHANGED vars
        BY <4>5 DEF vars
      <4>6. QED
        BY <4>1, <4>2, <4>3, <4>4, <4>5 DEF Next, Step
    <3>2. Undisturbed' = Undisturbed
      BY <1>2, <2>1 DEF Undisturbed
    <3>3. QED
      BY <3>1, <3>2
  <2>4. QED
    BY <2>2, <2>3 DEF Log!Next
<1>3. QED
  BY <1>1, <1>2

\* For any writers, while nothing disturbs them, the chain file behaves as the
\* abstract hash-linked append-only log: no line is lost, rewritten or forked.
THEOREM ChainImplementsHashLog == Spec => ImplementsHashLog
<1>1. Init => Log!Init
  BY DEF Init, Log!Init, Undisturbed
<1>2. QED
  BY <1>1, StepIsLogStep, TypeCorrect, HolderInvariant, ChainInvariant, PTL
     DEF Spec, Log!Spec, ImplementsHashLog
-----------------------------------------------------------------------------
(* What is released is on disk.  This holds whatever is robbed or cut short, *)
(* but for one proxy only: a second one that starts may archive the chain    *)
(* between the write of the first and its look at what it wrote.             *)

\* A file is intact up to the record with hash h.
Intact(c, h) == \E i \in 1..Len(c) : c[i].hash = h /\ Valid(SubSeq(c, 1, i))
OnDisk(h) == h \in clipped \/ \E c \in archives \cup {chain} : Intact(c, h)

OfProxies == {"verify", "archive", "down", "start", "startarchive", "startsum", "startsave"}
BareIsClipped == \A i \in 1..Len(chain) : chain[i].form = "bare" => chain[i].hash \in clipped
ReleaseInv ==
  /\ \A w \in Writers : pc[w] \in OfProxies => w \in Proxies
  /\ BareIsClipped
  /\ \A w \in Proxies : pc[w] = "sum" =>
       ~Valid(chain) \/ \E i \in 1..Len(chain) : chain[i].hash = mine[w]
  /\ \A w \in Proxies : pc[w] = "save" => OnDisk(mine[w])
  /\ \A h \in released : OnDisk(h)

\* The first lines of a file are valid when they parse and are linked.
LEMMA PrefixValid ==
  ASSUME NEW c \in Seq(Record), NEW n \in 1..Len(c)
  PROVE  Valid(SubSeq(c, 1, n)) <=> /\ \A j \in 1..n : Readable(c[j])
                                    /\ \A j \in 2..n : c[j].prev = c[j-1].hash
<1> DEFINE d == SubSeq(c, 1, n)
<1>1. Len(d) = n /\ \A j \in 1..n : d[j] = c[j]
  OBVIOUS
<1> HIDE DEF d
<1>2. \A j \in 2..n : j - 1 \in 1..n /\ j \in 1..n
  OBVIOUS
<1>3. Linked(d) <=> \A j \in 2..n : c[j].prev = c[j-1].hash
  BY <1>1, <1>2 DEF Linked
<1>4. Valid(d) <=> (\A j \in 1..n : Readable(c[j])) /\ (\A j \in 2..n : c[j].prev = c[j-1].hash)
  BY <1>1, <1>3 DEF Valid
<1>5. QED
  BY <1>4 DEF d

\* A file with a line appended is a file.
LEMMA AppendLineType ==
  ASSUME NEW c \in Seq(Record), NEW r \in Record
  PROVE  AppendLine(c, r) \in Seq(Record)
<1>1. CASE c # <<>> /\ Unterminated(LastLine(c))
  <2>1. PICK f \in {"partial", "garbage"} : AppendLine(c, r) = [c EXCEPT ![Len(c)].form = f]
    BY <1>1 DEF AppendLine
  <2>2. Len(c) \in 1..Len(c) /\ c[Len(c)] \in Record
    BY <1>1
  <2>3. [c[Len(c)] EXCEPT !.form = f] \in Record
    BY <2>2 DEF Record, Forms
  <2>4. [c EXCEPT ![Len(c)] = [c[Len(c)] EXCEPT !.form = f]] \in Seq(Record)
    BY <2>2, <2>3
  <2>5. QED
    BY <2>1, <2>4
<1>2. CASE ~(c # <<>> /\ Unterminated(LastLine(c)))
  BY <1>2 DEF AppendLine
<1>3. QED
  BY <1>1, <1>2

\* An append adds a line, or it spoils the last one and nothing else.
LEMMA AppendLineFacts ==
  ASSUME NEW c \in Seq(Record), NEW r \in Record
  PROVE  LET d == AppendLine(c, r)
         IN  /\ Len(c) <= Len(d) /\ Len(d) \in Nat
             /\ \A i \in 1..Len(c) : d[i].hash = c[i].hash /\ d[i].prev = c[i].prev
             /\ \A i \in 1..Len(c) :
                  (d[i] = c[i] \/ (i = Len(c) /\ Unterminated(c[i]) /\ ~Readable(d[i])))
             /\ \/ Len(d) = Len(c) + 1 /\ d[Len(d)] = r
                \/ Len(d) = Len(c) /\ Len(d) \in 1..Len(d) /\ ~Readable(d[Len(d)])
<1>1. CASE c # <<>> /\ Unterminated(LastLine(c))
  <2>1. PICK f \in {"partial", "garbage"} : AppendLine(c, r) = [c EXCEPT ![Len(c)].form = f]
    BY <1>1 DEF AppendLine
  <2>2. PICK d : d = [c EXCEPT ![Len(c)].form = f]
    OBVIOUS
  <2>3. Len(c) \in 1..Len(c) /\ Len(d) = Len(c) /\ c[Len(c)] \in Record
    BY <1>1, <2>2
  <2>4. /\ d[Len(c)] = [c[Len(c)] EXCEPT !.form = f]
        /\ \A i \in 1..Len(c) : i # Len(c) => d[i] = c[i]
    BY <2>2, <2>3
  <2>5. /\ d[Len(c)].hash = c[Len(c)].hash /\ d[Len(c)].prev = c[Len(c)].prev
        /\ d[Len(c)].form = f
    BY <2>3, <2>4 DEF Record
  <2>6. ~Readable(d[Len(c)]) /\ Unterminated(c[Len(c)])
    BY <1>1, <2>5 DEF Readable, LastLine
  <2>7. AppendLine(c, r) = d
    BY <2>1, <2>2
  <2>8. \A i \in 1..Len(c) : d[i].hash = c[i].hash /\ d[i].prev = c[i].prev
    BY <2>4, <2>5
  <2>9. \A i \in 1..Len(c) :
          (d[i] = c[i] \/ (i = Len(c) /\ Unterminated(c[i]) /\ ~Readable(d[i])))
    BY <2>4, <2>6
  <2>10. QED
    BY <2>3, <2>6, <2>7, <2>8, <2>9
<1>2. CASE ~(c # <<>> /\ Unterminated(LastLine(c)))
  <2>1. AppendLine(c, r) = Append(c, r)
    BY <1>2 DEF AppendLine
  <2>2. PICK d : d = Append(c, r)
    OBVIOUS
  <2>3. Len(d) = Len(c) + 1 /\ d[Len(c) + 1] = r /\ \A i \in 1..Len(c) : d[i] = c[i]
    BY <2>2
  <2>4. QED
    BY <2>1, <2>2, <2>3
<1>3. QED
  BY <1>1, <1>2

\* A file that does not verify does not verify with another line.
LEMMA InvalidStays ==
  ASSUME NEW c \in Seq(Record), NEW r \in Record, Valid(AppendLine(c, r))
  PROVE  Valid(c)
<1>1. PICK d : d = AppendLine(c, r)
  OBVIOUS
<1>2. /\ Len(c) <= Len(d) /\ Len(d) \in Nat /\ Len(c) \in Nat
      /\ \A i \in 1..Len(c) : d[i].hash = c[i].hash /\ d[i].prev = c[i].prev
      /\ \A i \in 1..Len(c) : (d[i] = c[i] \/ ~Readable(d[i]))
  BY <1>1, AppendLineFacts
<1>3. /\ \A i \in 1..Len(d) : Readable(d[i])
      /\ \A i \in 2..Len(d) : d[i].prev = d[i-1].hash
  BY <1>1 DEF Valid, Linked
<1>4. \A i \in 1..Len(c) : Readable(c[i])
  BY <1>2, <1>3
<1>5. ASSUME NEW i \in 2..Len(c) PROVE c[i].prev = c[i-1].hash
  <2>1. i \in 1..Len(c) /\ i - 1 \in 1..Len(c) /\ i \in 2..Len(d)
    BY <1>2
  <2>2. QED
    BY <1>2, <1>3, <2>1
<1>6. QED
  BY <1>4, <1>5 DEF Valid, Linked

\* An append takes no record out of the intact part of a file but one that had
\* lost its newline.
LEMMA IntactStays ==
  ASSUME NEW c \in Seq(Record), NEW r \in Record, NEW h, Intact(c, h)
  PROVE  \/ Intact(AppendLine(c, r), h)
         \/ \E i \in 1..Len(c) : c[i].form = "bare" /\ c[i].hash = h
<1>1. PICK d : d = AppendLine(c, r)
  OBVIOUS
<1>2. /\ Len(c) <= Len(d) /\ Len(d) \in Nat /\ Len(c) \in Nat
      /\ \A i \in 1..Len(c) : d[i].hash = c[i].hash /\ d[i].prev = c[i].prev
      /\ \A i \in 1..Len(c) : (d[i] = c[i] \/ (i = Len(c) /\ Unterminated(c[i])))
  BY <1>1, AppendLineFacts
<1>3. PICK i \in 1..Len(c) : c[i].hash = h /\ Valid(SubSeq(c, 1, i))
  BY DEF Intact
<1>4. (\A j \in 1..i : Readable(c[j])) /\ (\A j \in 2..i : c[j].prev = c[j-1].hash)
  BY <1>3, PrefixValid
<1>5. CASE \A j \in 1..i : d[j] = c[j]
  <2>1. d \in Seq(Record)
    BY <1>1, AppendLineType
  <2>2. i \in 1..Len(d) /\ \A j \in 2..i : j \in 1..i /\ j - 1 \in 1..i
    BY <1>2
  <2>3. (\A j \in 1..i : Readable(d[j])) /\ (\A j \in 2..i : d[j].prev = d[j-1].hash)
    BY <1>4, <1>5, <2>2
  <2>4. Valid(SubSeq(d, 1, i))
    BY <2>1, <2>2, <2>3, PrefixValid
  <2>5. d[i].hash = h
    BY <1>2, <1>3
  <2>6. QED
    BY <1>1, <2>2, <2>4, <2>5 DEF Intact
<1>6. CASE \E j \in 1..i : d[j] # c[j]
  <2>1. PICK j \in 1..i : d[j] # c[j]
    BY <1>6
  <2>2. j \in 1..Len(c)
    BY <1>2
  <2>3. j = Len(c) /\ Unterminated(c[j]) /\ j = i
    BY <1>2, <2>1, <2>2
  <2>4. c[i].form = "bare"
    BY <1>4, <2>3 DEF Readable, Unterminated
  <2>5. QED
    BY <1>3, <2>4
<1>7. QED
  BY <1>5, <1>6

-----------------------------------------------------------------------------
(* How the files change in a step: not, by a line, or by a move.             *)

Written(w) ==
  \E form \in {"whole", "bare", "partial"} :
    /\ chain' = AppendLine(chain, [hash |-> nextHash, prev |-> head[w], form |-> form])
    /\ clipped' = IF form = "bare" THEN clipped \cup {nextHash} ELSE clipped
    /\ UNCHANGED archives
Moved(w) == pc[w] \in {"archive", "startarchive"} /\ MoveToArchive /\ UNCHANGED clipped

\* A step of a writer writes a line when it is about to, archives a chain that
\* it found at fault, or leaves the files alone.
LEMMA FilesChange ==
  ASSUME NEW w \in Writers, Begin(w) \/ Step(w) \/ Crash(w) \/ Restart(w)
  PROVE  \/ UNCHANGED <<chain, archives, clipped>>
         \/ Moved(w)
         \/ pc[w] = "write" /\ Written(w)
<1>1. CASE Begin(w) \/ Crash(w) \/ Restart(w)
  BY <1>1 DEF Begin, Crash, Restart, dataVars, envVars
<1>2. CASE Locking(w)
  BY <1>2 DEF Locking, TryAcquire, MissLock, ShellTimeout, JudgeHolder, BreakMeta, BreakDir,
     RetryAcquire, WriteMeta, UnlinkMeta, ReleaseDir, dataVars, envVars
<1>3. CASE Appending(w)
  <2>1. CASE BlockArchive(w)
    BY <2>1 DEF BlockArchive, Moved, envVars
  <2>2. ASSUME NEW form \in {"whole", "bare", "partial"}, WriteLine(w, form)
        PROVE  pc[w] = "write" /\ Written(w)
    BY <2>2 DEF WriteLine, Written
  <2>3. CASE \/ VerifyChainWritable(w) \/ BlockReset(w) \/ ReadHead(w) \/ WriteError(w)
             \/ RefreshSummarize(w) \/ RefreshSave(w)
    BY <2>3 DEF VerifyChainWritable, BlockReset, ReadHead, WriteError, RefreshSummarize,
       RefreshSave, dataVars, envVars
  <2>4. QED
    BY <1>3, <2>1, <2>2, <2>3 DEF Appending
<1>4. CASE Starting(w)
  BY <1>4 DEF Starting, VerifyStartupChain, StartupArchive, StartupSummarize, StartupSave,
     Moved, dataVars, envVars
<1>5. QED
  BY <1>1, <1>2, <1>3, <1>4 DEF Step

\* The record that a write appends is a record.
LEMMA WrittenLine ==
  ASSUME TypeOK, NEW w \in Writers, Written(w)
  PROVE  \E r \in Record :
           /\ chain' = AppendLine(chain, r) /\ r.hash = nextHash
           /\ clipped \subseteq clipped' /\ (r.form = "bare" => nextHash \in clipped')
           /\ UNCHANGED archives
<1>1. PICK form \in {"whole", "bare", "partial"} :
        /\ chain' = AppendLine(chain, [hash |-> nextHash, prev |-> head[w], form |-> form])
        /\ clipped' = IF form = "bare" THEN clipped \cup {nextHash} ELSE clipped
        /\ UNCHANGED archives
  BY DEF Written
<1>2. PICK r : r = [hash |-> nextHash, prev |-> head[w], form |-> form]
  OBVIOUS
<1>3. r \in Record /\ r.hash = nextHash /\ r.form = form
  BY <1>2 DEF TypeOK, Record, Forms
<1>4. QED
  BY <1>1, <1>2, <1>3

\* What is on disk stays there, in whichever file.
LEMMA DiskStays ==
  ASSUME TypeOK, BareIsClipped, NEW w \in Writers,
         Begin(w) \/ Step(w) \/ Crash(w) \/ Restart(w), NEW h, OnDisk(h)
  PROVE  OnDisk(h)'
<1>1. CASE UNCHANGED <<chain, archives, clipped>>
  BY <1>1 DEF OnDisk
<1>2. CASE Moved(w)
  <2>1. ~Intact(<<>>, h)
    BY DEF Intact
  <2>2. QED
    BY <1>2, <2>1 DEF Moved, MoveToArchive, OnDisk
<1>3. CASE Written(w)
  <2>1. PICK r \in Record : /\ chain' = AppendLine(chain, r) /\ clipped \subseteq clipped'
                            /\ UNCHANGED archives
    BY <1>3, WrittenLine
  <2>2. CASE h \in clipped
    BY <2>1, <2>2 DEF OnDisk
  <2>3. CASE \E c \in archives : Intact(c, h)
    BY <2>1, <2>3 DEF OnDisk
  <2>4. CASE Intact(chain, h)
    <3>1. chain \in Seq(Record)
      BY DEF TypeOK
    <3>2. Intact(chain', h) \/ h \in clipped
      BY <2>1, <2>4, <3>1, IntactStays DEF BareIsClipped
    <3>3. QED
      BY <2>1, <3>2 DEF OnDisk
  <2>5. QED
    BY <2>2, <2>3, <2>4 DEF OnDisk
<1>4. QED
  BY <1>1, <1>2, <1>3, FilesChange

\* Only the lines that were cut at the newline look so.
LEMMA ClippedStays ==
  ASSUME TypeOK, BareIsClipped, NEW w \in Writers,
         Begin(w) \/ Step(w) \/ Crash(w) \/ Restart(w)
  PROVE  BareIsClipped'
<1>1. CASE UNCHANGED <<chain, archives, clipped>>
  BY <1>1 DEF BareIsClipped
<1>2. CASE Moved(w)
  BY <1>2 DEF Moved, MoveToArchive, BareIsClipped
<1>3. CASE Written(w)
  <2>1. PICK r \in Record :
          /\ chain' = AppendLine(chain, r) /\ r.hash = nextHash
          /\ clipped \subseteq clipped' /\ (r.form = "bare" => nextHash \in clipped')
    BY <1>3, WrittenLine
  <2>2. PICK d : d = chain'
    OBVIOUS
  <2>3. /\ Len(chain) <= Len(d) /\ Len(d) \in Nat /\ Len(chain) \in Nat
        /\ \A i \in 1..Len(chain) : (d[i] = chain[i] \/ ~Readable(d[i]))
        /\ \/ Len(d) = Len(chain) + 1 /\ d[Len(d)] = r
           \/ Len(d) = Len(chain)
    BY <2>1, <2>2, AppendLineFacts DEF TypeOK
  <2>4. ASSUME NEW i \in 1..Len(d), d[i].form = "bare" PROVE d[i].hash \in clipped'
    <3>1. CASE i \in 1..Len(chain)
      <4>1. d[i] = chain[i]
        BY <2>3, <2>4, <3>1 DEF Readable
      <4>2. QED
        BY <2>1, <2>4, <3>1, <4>1 DEF BareIsClipped
    <3>2. CASE i \notin 1..Len(chain)
      <4>1. i = Len(d) /\ d[i] = r
        BY <2>3, <3>2
      <4>2. QED
        BY <2>1, <2>4, <4>1
    <3>3. QED
      BY <3>1, <3>2
  <2>5. QED
    BY <2>2, <2>4 DEF BareIsClipped
<1>4. QED
  BY <1>1, <1>2, <1>3, FilesChange

\* A line that is there, or a file that does not verify, lasts until the file is
\* moved.
LEMMA LineStays ==
  ASSUME TypeOK, NEW w \in Writers, Begin(w) \/ Step(w) \/ Crash(w) \/ Restart(w), ~Moved(w),
         NEW h, ~Valid(chain) \/ \E i \in 1..Len(chain) : chain[i].hash = h
  PROVE  ~Valid(chain') \/ \E i \in 1..Len(chain') : chain'[i].hash = h
<1>1. CASE UNCHANGED chain
  BY <1>1
<1>2. CASE Written(w)
  <2>1. PICK r \in Record : chain' = AppendLine(chain, r)
    BY <1>2, WrittenLine
  <2>2. chain \in Seq(Record) /\ Len(chain) \in Nat
    BY DEF TypeOK
  <2>3. /\ Len(chain) <= Len(chain') /\ Len(chain') \in Nat
        /\ \A i \in 1..Len(chain) : chain'[i].hash = chain[i].hash
    BY <2>1, <2>2, AppendLineFacts
  <2>4. CASE ~Valid(chain)
    BY <2>1, <2>2, <2>4, InvalidStays
  <2>5. CASE \E i \in 1..Len(chain) : chain[i].hash = h
    BY <2>2, <2>3, <2>5
  <2>6. QED
    BY <2>4, <2>5
<1>3. QED
  BY <1>1, <1>2, FilesChange

\* The line of a write is there afterwards, or the file does not verify.
LEMMA LineWritten ==
  ASSUME TypeOK, NEW w \in Writers, Written(w)
  PROVE  ~Valid(chain') \/ \E i \in 1..Len(chain') : chain'[i].hash = nextHash
<1>1. PICK r \in Record : chain' = AppendLine(chain, r) /\ r.hash = nextHash
  BY WrittenLine
<1>2. PICK d : d = chain'
  OBVIOUS
<1>3. /\ Len(d) \in Nat /\ Len(chain) \in Nat
      /\ \/ Len(d) = Len(chain) + 1 /\ d[Len(d)] = r
         \/ Len(d) = Len(chain) /\ Len(d) \in 1..Len(d) /\ ~Readable(d[Len(d)])
  BY <1>1, <1>2, AppendLineFacts DEF TypeOK
<1>4. CASE Len(d) = Len(chain) + 1 /\ d[Len(d)] = r
  <2>1. Len(d) \in 1..Len(d)
    BY <1>3, <1>4
  <2>2. QED
    BY <1>1, <1>2, <1>4, <2>1
<1>5. CASE Len(d) \in 1..Len(d) /\ ~Readable(d[Len(d)])
  BY <1>2, <1>5 DEF Valid
<1>6. QED
  BY <1>3, <1>4, <1>5

\* In a file that verifies each record is on disk.
LEMMA ValidIsIntact ==
  ASSUME TypeOK, Valid(chain), NEW i \in 1..Len(chain)
  PROVE  OnDisk(chain[i].hash)
<1>1. chain \in Seq(Record) /\ Len(chain) \in Nat
  BY DEF TypeOK
<1>2. \A j \in 2..i : j \in 2..Len(chain)
  BY <1>1
<1>3. (\A j \in 1..i : Readable(chain[j])) /\ (\A j \in 2..i : chain[j].prev = chain[j-1].hash)
  BY <1>1, <1>2 DEF Valid, Linked
<1>4. Valid(SubSeq(chain, 1, i))
  BY <1>1, <1>3, PrefixValid
<1>5. Intact(chain, chain[i].hash)
  BY <1>4 DEF Intact
<1>6. QED
  BY <1>5 DEF OnDisk

\* The steps by which a proxy comes to write, to look at what it wrote and to
\* save it; no other step reaches these places.
LEMMA PlacesReached ==
  ASSUME TypeOK, NEW w \in Writers, Begin(w) \/ Step(w) \/ Crash(w) \/ Restart(w)
  PROVE  /\ \A v \in Writers \ {w} : pc'[v] = pc[v] /\ mine'[v] = mine[v]
         /\ pc'[w] \in OfProxies => w \in Proxies \/ pc[w] \in OfProxies
         /\ pc'[w] = "sum" => pc[w] = "write" /\ \E form \in {"whole", "bare", "partial"} : WriteLine(w, form)
         /\ pc'[w] = "save" => pc[w] = "sum" /\ Valid(chain) /\ UNCHANGED <<mine, chain, archives, clipped>>
         /\ UNCHANGED released \/ (pc[w] = "save" /\ w \in Proxies /\ released' = released \cup {mine[w]})
<1>t. pc \in [Writers -> Labels] /\ mine \in [Writers -> Nat]
  BY DEF TypeOK
<1> USE DEF OfProxies
<1>1. CASE Begin(w) \/ Restart(w) \/ Crash(w)
  BY <1>1, <1>t DEF Begin, Crash, Restart, Goto, dataVars, readVars, envVars, lockVars
<1>2. CASE Locking(w)
  BY <1>2, <1>t DEF Locking, TryAcquire, MissLock, ShellTimeout, JudgeHolder, BreakMeta, BreakDir,
     RetryAcquire, WriteMeta, UnlinkMeta, ReleaseDir, Goto, dataVars, readVars, envVars
<1>3. CASE Appending(w)
  <2>1. ASSUME NEW form \in {"whole", "bare", "partial"}, WriteLine(w, form)
        PROVE  /\ \A v \in Writers \ {w} : pc'[v] = pc[v] /\ mine'[v] = mine[v]
               /\ pc[w] = "write" /\ pc'[w] \in {"sum", "unlock"} /\ UNCHANGED released
    BY <2>1, <1>t DEF WriteLine, AfterWrite, Goto
  <2>2. CASE RefreshSummarize(w)
    BY <2>2, <1>t DEF RefreshSummarize, Goto, dataVars, envVars
  <2>3. CASE RefreshSave(w)
    BY <2>3, <1>t DEF RefreshSave, Goto
  <2>4. CASE VerifyChainWritable(w) \/ BlockArchive(w) \/ BlockReset(w) \/ ReadHead(w) \/ WriteError(w)
    BY <2>4, <1>t DEF VerifyChainWritable, BlockArchive, BlockReset, ReadHead, WriteError, Goto,
       readVars
  <2>5. QED
    BY <1>3, <2>1, <2>2, <2>3, <2>4 DEF Appending
<1>4. CASE Starting(w)
  BY <1>4, <1>t DEF Starting, VerifyStartupChain, StartupArchive, StartupSummarize, StartupSave,
     Goto, readVars
<1>5. QED
  BY <1>1, <1>2, <1>3, <1>4 DEF Step

\* A step preserves what holds of the writes of the one proxy.
LEMMA ReleaseInductive ==
  ASSUME TypeOK, ReleaseInv, NEW w \in Writers, Begin(w) \/ Step(w) \/ Crash(w) \/ Restart(w),
         \A p, q \in Proxies : p = q
  PROVE  ReleaseInv'
<1>1. /\ \A v \in Writers \ {w} : pc'[v] = pc[v] /\ mine'[v] = mine[v]
      /\ pc'[w] \in OfProxies => w \in Proxies \/ pc[w] \in OfProxies
      /\ pc'[w] = "sum" => pc[w] = "write" /\ \E form \in {"whole", "bare", "partial"} : WriteLine(w, form)
      /\ pc'[w] = "save" => pc[w] = "sum" /\ Valid(chain) /\ UNCHANGED <<mine, chain, archives, clipped>>
      /\ UNCHANGED released \/ (pc[w] = "save" /\ w \in Proxies /\ released' = released \cup {mine[w]})
  BY PlacesReached
<1>2. BareIsClipped'
  BY ClippedStays DEF ReleaseInv
<1>3. \A h : OnDisk(h) => OnDisk(h)'
  BY DiskStays DEF ReleaseInv
<1>4. \A v \in Writers : pc'[v] \in OfProxies => v \in Proxies
  BY <1>1 DEF ReleaseInv
<1>5. \A h \in released' : OnDisk(h)'
  BY <1>1, <1>3 DEF ReleaseInv
<1>6. ASSUME NEW v \in Proxies, pc'[v] = "sum"
      PROVE  ~Valid(chain') \/ \E i \in 1..Len(chain') : chain'[i].hash = mine'[v]
  <2>0. v \in Writers
    BY DEF Writers
  <2>1. CASE v = w
    <3>1. PICK form \in {"whole", "bare", "partial"} : WriteLine(w, form)
      BY <1>1, <1>6, <2>1
    <3>2. Written(w) /\ mine'[w] = nextHash
      BY <2>1, <3>1 DEF WriteLine, Written, TypeOK
    <3>3. QED
      BY <2>1, <3>2, LineWritten
  <2>2. CASE v # w
    <3>1. pc[v] = "sum" /\ mine'[v] = mine[v]
      BY <1>1, <1>6, <2>0, <2>2
    <3>2. w \notin Proxies
      BY <2>2
    <3>3. ~Moved(w)
      BY <3>2 DEF ReleaseInv, Moved, OfProxies
    <3>4. ~Valid(chain) \/ \E i \in 1..Len(chain) : chain[i].hash = mine[v]
      BY <3>1 DEF ReleaseInv
    <3>5. QED
      BY <3>1, <3>3, <3>4, LineStays
  <2>3. QED
    BY <2>1, <2>2
<1>7. ASSUME NEW v \in Proxies, pc'[v] = "save" PROVE OnDisk(mine[v])'
  <2>0. v \in Writers
    BY DEF Writers
  <2>1. CASE v = w
    <3>1. pc[w] = "sum" /\ Valid(chain) /\ mine' = mine
      BY <1>1, <1>7, <2>1
    <3>2. PICK i \in 1..Len(chain) : chain[i].hash = mine[w]
      BY <2>1, <3>1 DEF ReleaseInv
    <3>3. OnDisk(mine[w])
      BY <3>1, <3>2, ValidIsIntact
    <3>4. PICK h : h = mine[w]
      OBVIOUS
    <3>5. OnDisk(h)'
      BY <1>3, <3>3, <3>4
    <3>6. mine'[v] = h
      BY <2>1, <3>1, <3>4
    <3>7. QED
      BY <3>5, <3>6 DEF OnDisk
  <2>2. CASE v # w
    <3>1. pc[v] = "save" /\ mine'[v] = mine[v]
      BY <1>1, <1>7, <2>0, <2>2
    <3>2. OnDisk(mine[v])
      BY <3>1 DEF ReleaseInv
    <3>3. PICK h : h = mine[v]
      OBVIOUS
    <3>4. OnDisk(h)' /\ mine'[v] = h
      BY <1>3, <3>1, <3>2, <3>3
    <3>5. QED
      BY <3>4 DEF OnDisk
  <2>3. QED
    BY <2>1, <2>2
<1>8. QED
  BY <1>2, <1>4, <1>5, <1>6, <1>7 DEF ReleaseInv

\* A decision that the one proxy released is on disk for good, in a file that
\* is intact up to it, whoever robs a lock and whatever write is cut short.
THEOREM ReleasedStays ==
  ASSUME \A p, q \in Proxies : p = q
  PROVE  Spec => []ReleasedOnIntactPrefix
<1>1. Init => ReleaseInv
  BY DEF Init, ReleaseInv, BareIsClipped, OfProxies, Writers
<1>2. TypeOK /\ ReleaseInv /\ [Next]_vars => ReleaseInv'
  <2> SUFFICES ASSUME TypeOK, ReleaseInv, [Next]_vars PROVE ReleaseInv'
    OBVIOUS
  <2>1. CASE UNCHANGED vars
    BY <2>1 DEF vars, ReleaseInv, BareIsClipped, OnDisk
  <2>2. CASE Next
    BY <2>2, ReleaseInductive DEF Next
  <2>3. QED
    BY <2>1, <2>2
<1>3. ReleaseInv => ReleasedOnIntactPrefix
  BY DEF ReleaseInv, OnDisk, Intact, ReleasedOnIntactPrefix
<1>4. QED
  BY <1>1, <1>2, <1>3, TypeCorrect, PTL DEF Spec

====
