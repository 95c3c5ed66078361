--------------------------- MODULE MediationProofs ---------------------------
(* Proofs about Mediation, for any set of requests of each kind, any          *)
(* operations, any policy, and any bounds.                                    *)
EXTENDS Mediation, FiniteSetTheorems, TLAPS

Labels == {"new", "waiting", "stat", "load", "streaming", "deciding", "closing",
           "done", "failed"}

\* The records the handlers write are records of the chain.
LEMMA RecordTypes ==
  /\ \A r \in Requests : Observed(r) \in Records /\ Unexaminable(r) \in Records
  /\ \A op \in Ops : Approval(op) \in Records /\ Revocation(op) \in Records
BY DEF Observed, Unexaminable, Approval, Revocation, Records

\* An append, done or not, leaves a chain that is no shorter.
Grown == chain' = chain \/ \E rec \in Records : chain' = Append(chain, rec)

LEMMA AppendType ==
  ASSUME TypeOK, NEW rec \in Records, Appended(rec) \/ AppendRaised(rec)
  PROVE  chain' \in Seq(Records) /\ mtime' \in Nat /\ faults' \in Nat /\ Grown
<1>1. Append(chain, rec) \in Seq(Records)
  BY DEF TypeOK
<1>2. Ticks \subseteq Nat
  BY DEF TypeOK, Ticks
<1>3. chain' \in {chain, Append(chain, rec)} /\ mtime' \in {mtime} \cup Ticks
  BY DEF Appended, AppendRaised
<1>4. Grown
  BY <1>3 DEF Grown
<1>5. faults' \in Nat
  BY DEF TypeOK, Appended, AppendRaised
<1>6. QED
  BY <1>1, <1>2, <1>3, <1>4, <1>5 DEF TypeOK

\* A handler that aborts leaves no group behind, whatever it was doing.
LEMMA AbortType ==
  ASSUME TypeOK, NEW r \in Requests, Abort(r)
  PROVE  /\ todo' = {} /\ group' = {} /\ blocked' = {}
         /\ loop' \in Requests \cup {Free}
         /\ pc' \in [Requests -> Labels]
         /\ held' \in [Requests -> [Ops -> Nat]]
<1>1. Nothing \in [Ops -> Nat]
  BY DEF Nothing
<1>2. QED
  BY <1>1 DEF TypeOK, Abort, NoGroup, Yield, Goto, Labels

\* The handlers up to the moment their calls are decided.
LEMMA EarlyTypes ==
  ASSUME TypeOK, NEW r \in Requests,
         StatStore(r) \/ LoadStore(r) \/ Send(r) \/ Open(r) \/ HandshakeFails(r)
  PROVE  TypeOK'
<1>a. \A c : Active(c) \subseteq Ops
  BY DEF Active
<1>1. CASE StatStore(r)
  <2>1. /\ fetchedAt' \in [Requests -> Nat] /\ statTime' \in Nat
        /\ store' \in [Requests -> SUBSET Ops]
    <3>1. \/ statTime' = mtime /\ UNCHANGED store
          \/ UNCHANGED statTime /\ store' = [store EXCEPT ![r] = cache]
      BY <1>1, Zenon DEF StatStore
    <3>2. fetchedAt' = [fetchedAt EXCEPT ![r] = Len(chain)]
      BY <1>1 DEF StatStore
    <3>3. Len(chain) \in Nat
      BY DEF TypeOK
    <3>4. QED
      BY <3>1, <3>2, <3>3 DEF TypeOK
  <2>2. loop' \in Requests \cup {Free} /\ pc' \in [Requests -> Labels]
    BY <1>1 DEF TypeOK, StatStore, AfterFetch, Yield, Goto, Labels
  <2>3. QED
    BY <1>1, <2>1, <2>2 DEF TypeOK, StatStore, Labels, fileVars, groupVars, answerVars
<1>2. CASE LoadStore(r)
  BY <1>2, <1>a DEF TypeOK, LoadStore, AfterFetch, Yield, Goto, fileVars, groupVars, answerVars
<1>3. CASE Send(r) \/ Open(r)
  BY <1>3 DEF TypeOK, Send, Open, Goto, fileVars, cacheVars, groupVars, answerVars, storeVars
<1>4. CASE HandshakeFails(r)
  <2>1. chain' \in Seq(Records) /\ mtime' \in Nat /\ faults' \in Nat
    BY <1>4, RecordTypes, AppendType DEF HandshakeFails
  <2>2. QED
    BY <1>4, <2>1 DEF TypeOK, HandshakeFails, Goto, cacheVars, groupVars, answerVars, storeVars
<1>5. QED
  BY <1>1, <1>2, <1>3, <1>4

LEMMA AnswerTypes ==
  ASSUME TypeOK, NEW r \in Requests,
         AnswerWithoutCalls(r) \/ Garbled(r) \/ (\E S \in SUBSET Ops : Complete(r, S))
  PROVE  TypeOK'
<1>n. Nothing \in [Ops -> Nat]
  BY DEF Nothing
<1>s. ASSUME NEW rec \in Records, r \in Http, RecordAndSend(r, rec)
      PROVE  /\ chain' \in Seq(Records) /\ mtime' \in Nat /\ faults' \in Nat
             /\ loop' \in Requests \cup {Free} /\ pc' \in [Requests -> Labels]
             /\ todo' = {} /\ group' = {} /\ blocked' = {}
             /\ held' \in [Requests -> [Ops -> Nat]] /\ sent' \subseteq Http
  <2>1. CASE Appended(rec) /\ sent' = sent \cup {r} /\ Yield(r, "done") /\ NoGroup /\ UNCHANGED held
    BY <2>1, <1>s, AppendType DEF TypeOK, Yield, Goto, NoGroup, Labels
  <2>2. CASE AppendRaised(rec) /\ Abort(r) /\ UNCHANGED sent
    BY <2>2, <1>s, AppendType, AbortType DEF TypeOK
  <2>3. QED
    BY <1>s, <2>1, <2>2 DEF RecordAndSend
<1>1. CASE AnswerWithoutCalls(r)
  BY <1>1, <1>s, RecordTypes DEF AnswerWithoutCalls, TypeOK, cacheVars, storeVars, Labels
<1>2. CASE Garbled(r) /\ r \in Sockets
  <2>1. Appended(Unexaminable(r)) \/ AppendRaised(Unexaminable(r))
    BY <1>2 DEF Garbled
  <2>2. chain' \in Seq(Records) /\ mtime' \in Nat /\ faults' \in Nat
    BY <2>1, RecordTypes, AppendType
  <2>3. \/ UNCHANGED <<groupVars, held, loop, pc>>
        \/ Abort(r)
    BY <1>2 DEF Garbled
  <2>4. /\ loop' \in Requests \cup {Free} /\ pc' \in [Requests -> Labels]
        /\ group' \subseteq Ops /\ todo' \subseteq group' /\ blocked' \subseteq group'
        /\ held' \in [Requests -> [Ops -> Nat]]
    BY <2>3, AbortType DEF TypeOK, groupVars, Labels
  <2>5. counted' \in [Requests -> Nat] /\ out' = out /\ sent' = sent
    <3>1. counted' = [counted EXCEPT ![r] = @ + 1] \/ counted' = counted
      BY <1>2 DEF Garbled
    <3>2. out' = out /\ sent' = sent
      BY <1>2 DEF Garbled
    <3>3. counted \in [Requests -> Nat] /\ counted[r] \in Nat
      BY DEF TypeOK
    <3>4. QED
      BY <3>1, <3>2, <3>3
  <2>6. QED
    BY <1>2, <2>2, <2>4, <2>5 DEF Garbled, TypeOK, cacheVars, storeVars, Labels
<1>3. CASE Garbled(r) /\ r \notin Sockets
  <2>1. r \in Http
    BY <1>3 DEF Requests
  <2>2. RecordAndSend(r, IF DeveloperMode THEN Observed(r) ELSE Unexaminable(r))
    BY <1>3 DEF Garbled
  <2>3. out' \in [Requests -> [Ops -> Nat]] /\ counted' = counted
    BY <1>3, <1>n DEF Garbled, TypeOK
  <2>4. (IF DeveloperMode THEN Observed(r) ELSE Unexaminable(r)) \in Records
    BY RecordTypes
  <2>5. QED
    BY <1>3, <1>s, <2>1, <2>2, <2>3, <2>4 DEF Garbled, TypeOK, cacheVars, storeVars, Labels
<1>4. ASSUME NEW S \in SUBSET Ops, Complete(r, S) PROVE TypeOK'
  <2>1. Cardinality(S) \in Nat
    BY FiniteOps, FS_Subset, FS_CardinalityType
  <2>2. /\ proposed' \in [Requests -> [Ops -> Nat]] /\ held' \in [Requests -> [Ops -> Nat]]
    BY <1>4 DEF Complete, TypeOK
  <2>3. counted' \in [Requests -> Nat]
    BY <1>4, <2>1 DEF Complete, TypeOK
  <2>4. QED
    BY <1>4, <2>2, <2>3 DEF Complete, TypeOK, Goto, fileVars, cacheVars, storeVars
<1>5. QED
  BY <1>1, <1>2, <1>3, <1>4

LEMMA DecisionType ==
  ASSUME TypeOK, NEW r \in Requests, NEW op \in Ops, NEW gate
  PROVE  Decision(r, op, Verdict(r, op, gate),
                  Verdict(r, op, gate) = "ALLOW" /\ op \notin PolicyAllows) \in Records
<1>1. Verdict(r, op, gate) \in Verdicts
  BY DEF Verdict, Verdicts
<1>2. fetchedAt[r] \in Nat
  BY DEF TypeOK
<1>3. QED
  BY <1>1, <1>2 DEF Decision, Records

\* Deciding, releasing and ending.
LEMMA LateTypes ==
  ASSUME TypeOK, NEW r \in Requests,
         \/ Mediate(r) \/ ReleaseEvent(r) \/ ReleaseBody(r) \/ CloseSession(r)
         \/ EndStream(r) \/ ProviderFails(r) \/ Hangup(r)
  PROVE  TypeOK'
<1>1. CASE Mediate(r)
  <2>1. PICK op \in Ops, gate \in Gates : Decide(r, op, gate)
    BY <1>1 DEF Mediate
  <2> DEFINE rec == Decision(r, op, Verdict(r, op, gate),
                       Verdict(r, op, gate) = "ALLOW" /\ op \notin PolicyAllows)
  <2>2. rec \in Records
    BY DecisionType
  <2>3. Appended(rec) \/ AppendRaised(rec)
    BY <2>1 DEF Decide
  <2>4. chain' \in Seq(Records) /\ mtime' \in Nat /\ faults' \in Nat
    BY <2>2, <2>3, AppendType
  <2>5. \/ /\ todo' = todo \ {op} /\ op \in todo
           /\ blocked' \subseteq blocked \cup {op}
           /\ UNCHANGED <<group, held, loop, pc>>
        \/ Abort(r)
    BY <2>1 DEF Decide
  <2>6. /\ loop' \in Requests \cup {Free} /\ pc' \in [Requests -> Labels]
        /\ group' \subseteq Ops /\ todo' \subseteq group' /\ blocked' \subseteq group'
        /\ held' \in [Requests -> [Ops -> Nat]]
    BY <2>5, AbortType DEF TypeOK, Labels
  <2>7. QED
    BY <2>1, <2>4, <2>6 DEF Decide, TypeOK, cacheVars, storeVars, Labels
<1>2. CASE ReleaseEvent(r)
  <2>1. Cardinality(group) \in Nat
    BY FiniteOps, FS_Subset, FS_CardinalityType DEF TypeOK
  <2>2. \A op \in Ops : Buffered(r, op) \in {0, held[r][op]} /\ held[r][op] \in Nat /\ out[r][op] \in Nat
    BY DEF Buffered, TypeOK
  <2> DEFINE delivered == [op \in Ops |-> out[r][op] + Buffered(r, op) + (IF op \in group THEN 1 ELSE 0)]
             left      == [op \in Ops |-> held[r][op] - Buffered(r, op)]
  <2>3. delivered \in [Ops -> Nat] /\ left \in [Ops -> Nat]
    BY <2>2
  <2>4. /\ out' = out \/ out' = [out EXCEPT ![r] = delivered]
        /\ held' = held \/ held' = [held EXCEPT ![r] = left]
    BY <1>2 DEF ReleaseEvent
  <2>5. out' \in [Requests -> [Ops -> Nat]] /\ held' \in [Requests -> [Ops -> Nat]]
    <3> HIDE DEF delivered, left
    <3>1. /\ out \in [Requests -> [Ops -> Nat]] /\ held \in [Requests -> [Ops -> Nat]]
      BY DEF TypeOK
    <3>2. QED
      BY <2>3, <2>4, <3>1
  <2>6. counted' \in [Requests -> Nat]
    BY <1>2, <2>1 DEF ReleaseEvent, TypeOK
  <2>7. QED
    BY <1>2, <2>5, <2>6 DEF ReleaseEvent, TypeOK, NoGroup, Yield, Goto, fileVars, cacheVars, storeVars
<1>3. CASE ReleaseBody(r)
  <2>1. held' \in [Requests -> [Ops -> Nat]] /\ out' \in [Requests -> [Ops -> Nat]]
    BY <1>3 DEF ReleaseBody, TypeOK, Nothing
  <2>2. sent' \subseteq Http
    BY <1>3 DEF ReleaseBody, TypeOK, Http
  <2>3. QED
    BY <1>3, <2>1, <2>2 DEF ReleaseBody, TypeOK, NoGroup, Yield, Goto, fileVars, cacheVars, storeVars
<1>4. CASE CloseSession(r)
  <2>1. chain' \in Seq(Records) /\ mtime' \in Nat /\ faults' \in Nat
    <3>1. CASE counted[r] = 0
      BY <1>4, <3>1, RecordTypes, AppendType DEF CloseSession
    <3>2. CASE counted[r] # 0
      BY <1>4, <3>2 DEF CloseSession, TypeOK, fileVars
    <3>3. QED
      BY <3>1, <3>2
  <2>2. QED
    BY <1>4, <2>1 DEF CloseSession, TypeOK, Yield, Goto, cacheVars, groupVars, answerVars, storeVars
<1>5. CASE EndStream(r)
  BY <1>5 DEF EndStream, TypeOK, Goto, Http, fileVars, cacheVars, groupVars, storeVars
<1>6. CASE ProviderFails(r) \/ Hangup(r)
  BY <1>6, AbortType DEF ProviderFails, Hangup, TypeOK, fileVars, cacheVars, storeVars, Labels
<1>7. QED
  BY <1>1, <1>2, <1>3, <1>4, <1>5, <1>6

LEMMA OutsideTypes == ASSUME TypeOK, Operator \/ Crash PROVE TypeOK'
<1>1. CASE Operator
  <2>1. chain' \in Seq(Records) /\ mtime' \in Nat /\ faults' \in Nat
    BY <1>1, RecordTypes, AppendType DEF Operator
  <2>2. QED
    BY <1>1, <2>1 DEF Operator, TypeOK, cacheVars, groupVars, answerVars, storeVars
<1>2. CASE Crash
  <2>1. held' \in [Requests -> [Ops -> Nat]]
    <3>1. Nothing \in [Ops -> Nat]
      BY DEF Nothing
    <3>2. QED
      BY <1>2, <3>1 DEF Crash
  <2>2. pc' \in [Requests -> Labels]
    BY <1>2 DEF Crash, TypeOK, Labels
  <2>3. cached' \in BOOLEAN /\ cacheTime' \in Nat /\ statTime' \in Nat /\ crashes' \in Nat
    <3>1. cached' \in BOOLEAN
      BY <1>2, Zenon DEF Crash
    <3>2. cacheTime' = 0 /\ statTime' = 0 /\ crashes' = crashes + 1
      BY <1>2 DEF Crash
    <3>3. QED
      BY <3>1, <3>2 DEF TypeOK
  <2>4. /\ loop' \in Requests \cup {Free} /\ cache' \subseteq Ops
        /\ group' \subseteq Ops /\ todo' \subseteq group' /\ blocked' \subseteq group'
    BY <1>2 DEF Crash, NoGroup
  <2>5. UNCHANGED <<chain, mtime, faults, out, sent, counted, proposed,
                    store, fetchedAt, operator>>
    BY <1>2 DEF Crash, fileVars, storeVars
  <2>6. QED
    BY <2>1, <2>2, <2>3, <2>4, <2>5 DEF TypeOK, Labels
<1>3. QED
  BY <1>1, <1>2

LEMMA InitTypes == Init => TypeOK
<1> SUFFICES ASSUME Init PROVE TypeOK
  OBVIOUS
<1>1. Nothing \in [Ops -> Nat]
  BY DEF Nothing
<1>2. /\ held \in [Requests -> [Ops -> Nat]] /\ out \in [Requests -> [Ops -> Nat]]
      /\ proposed \in [Requests -> [Ops -> Nat]]
  BY <1>1 DEF Init
<1>3. chain \in Seq(Records) /\ pc \in [Requests -> Labels]
  BY DEF Init, Labels
<1>4. QED
  BY <1>2, <1>3 DEF Init, TypeOK, Labels

LEMMA NextTypes == TypeOK /\ [Next]_vars => TypeOK'
<1> SUFFICES ASSUME TypeOK, [Next]_vars PROVE TypeOK'
  OBVIOUS
<1>1. CASE UNCHANGED vars
  BY <1>1 DEF TypeOK, vars, fileVars, cacheVars, groupVars, answerVars, storeVars
<1>2. ASSUME NEW r \in Requests, Begin(r) \/ Proceed(r) \/ Answer(r) \/ Hangup(r)
      PROVE  TypeOK'
  BY <1>2, EarlyTypes, AnswerTypes, LateTypes DEF Begin, Proceed, Answer
<1>3. CASE Operator \/ Crash
  BY <1>3, OutsideTypes
<1>4. QED
  BY <1>1, <1>2, <1>3 DEF Next

\* Every variable keeps its type.
THEOREM TypeCorrect == Spec => []TypeOK
BY InitTypes, NextTypes, PTL DEF Spec

-----------------------------------------------------------------------------
(* Decided before delivered.  A call whose completing event was received is   *)
(* either decided or in the group of the handler that has the loop; only the  *)
(* decisions, and an abort that throws the answer away, empty that group.     *)

InHand(r, op) == loop = r /\ op \in todo
Live == {"new", "waiting", "stat", "load", "streaming", "deciding"}

HeldDecided == \A r \in Requests, op \in Ops : held[r][op] > 0 => Decided(r, op) \/ InHand(r, op)
OutDecided == \A r \in Requests, op \in Ops : out[r][op] > 0 => Decided(r, op)
ProposedDecided ==
  \A r \in Requests, op \in Ops :
    pc[r] \in Live /\ proposed[r][op] > 0 => Decided(r, op) \/ InHand(r, op)
SentDecided ==
  \A r \in sent : pc[r] = "done" /\ \A op \in Ops : proposed[r][op] > 0 => Decided(r, op)
GroupDecided ==
  \A r \in Requests, op \in Ops : loop = r /\ op \in group \ todo => Decided(r, op)
\* Where the handler of r has no calls to decide.
Empty(r) == pc[r] = "closing" \/ (r \notin Plain /\ pc[r] \in {"stat", "load"})
LoopHolder ==
  /\ loop = Free => group = {}
  /\ \A r \in Requests : loop = r => pc[r] \in {"stat", "load", "deciding", "closing"}
  /\ \A r \in Requests : loop = r /\ Empty(r) => group = {}

IInv ==
  /\ TypeOK /\ HeldDecided /\ OutDecided /\ ProposedDecided /\ SentDecided
  /\ GroupDecided /\ LoopHolder

\* The chain only grows, so what is decided stays decided.
LEMMA DecidedStays ==
  ASSUME chain \in Seq(Records), Grown, NEW r, NEW op, Decided(r, op)
  PROVE  Decided(r, op)'
<1>1. PICK i \in 1..Len(chain) : IsDecision(chain[i], r, op)
  BY DEF Decided
<1>2. CASE chain' = chain
  BY <1>1, <1>2 DEF Decided, IsDecision
<1>3. ASSUME NEW rec \in Records, chain' = Append(chain, rec) PROVE Decided(r, op)'
  <2>1. i \in 1..Len(chain') /\ chain'[i] = chain[i]
    BY <1>1, <1>3
  <2>2. QED
    BY <1>1, <2>1 DEF Decided, IsDecision
<1>4. QED
  BY <1>2, <1>3 DEF Grown

\* An append of a decision decides the call.
LEMMA AppendDecides ==
  ASSUME chain \in Seq(Records), NEW r, NEW op, NEW rec \in Records,
         IsDecision(rec, r, op), chain' = Append(chain, rec)
  PROVE  Decided(r, op)'
<1>1. Len(chain') \in 1..Len(chain') /\ chain'[Len(chain')] = rec
  OBVIOUS
<1>2. QED
  BY <1>1 DEF Decided, IsDecision

\* Steps that touch neither the answers nor the group: the handler moves on
\* while it has the loop, or takes it with an empty group.
LEMMA QuietStep ==
  ASSUME IInv, Grown, NEW r \in Requests, NEW l \in Labels,
         loop \in {Free, r}, loop' \in {Free, r},
         loop' = r => l \in {"stat", "load", "deciding"},
         loop' = Free => group = {},
         l \in {"stat", "load"} /\ r \notin Plain => group = {},
         l \in Live => pc[r] \in Live, pc[r] # "done",
         pc' = [pc EXCEPT ![r] = l],
         UNCHANGED <<held, out, sent, proposed, todo, group>>
  PROVE  HeldDecided' /\ OutDecided' /\ ProposedDecided' /\ SentDecided'
         /\ GroupDecided' /\ LoopHolder'
<1>d. \A q \in Requests, op \in Ops : Decided(q, op) => Decided(q, op)'
  BY DecidedStays DEF IInv, TypeOK
<1>f. Free \notin Requests
  BY RequestKinds
<1>t. todo \subseteq group
  BY DEF IInv, TypeOK
<1>p. /\ pc'[r] = l
      /\ \A q \in Requests \ {r} : pc'[q] = pc[q]
  BY DEF IInv, TypeOK
<1>h. \A q \in Requests, op \in Ops : InHand(q, op) => InHand(q, op)'
  BY <1>f, <1>t DEF InHand, IInv, LoopHolder
<1>1. HeldDecided' /\ OutDecided'
  BY <1>d, <1>h DEF IInv, HeldDecided, OutDecided
<1>2. ProposedDecided'
  BY <1>d, <1>h, <1>p DEF IInv, ProposedDecided
<1>3. SentDecided'
  <2>1. r \notin sent /\ sent \subseteq Requests
    BY DEF IInv, SentDecided, TypeOK, Requests
  <2>2. QED
    BY <1>d, <1>p, <2>1 DEF IInv, SentDecided
<1>4. GroupDecided'
  BY <1>d, <1>f DEF IInv, GroupDecided, LoopHolder
<1>5. LoopHolder'
  BY <1>f, <1>p DEF IInv, LoopHolder, Empty
<1>6. QED
  BY <1>1, <1>2, <1>3, <1>4, <1>5

\* An exception throws the buffer and the group away.
LEMMA AbortStep ==
  ASSUME IInv, Grown, NEW r \in Requests, loop \in {Free, r}, Abort(r), pc[r] # "done",
         \A q \in Requests, op \in Ops : out'[q][op] > 0 => out[q][op] > 0,
         UNCHANGED <<sent, proposed>>
  PROVE  HeldDecided' /\ OutDecided' /\ ProposedDecided' /\ SentDecided'
         /\ GroupDecided' /\ LoopHolder'
<1>d. \A q \in Requests, op \in Ops : Decided(q, op) => Decided(q, op)'
  BY DecidedStays DEF IInv, TypeOK
<1>f. Free \notin Requests
  BY RequestKinds
<1>g. todo' = {} /\ group' = {}
  BY DEF Abort, NoGroup
<1>p. /\ pc'[r] \in {"closing", "failed"}
      /\ \A q \in Requests \ {r} : pc'[q] = pc[q]
      /\ loop' \in {Free, r} /\ (loop' = r => pc'[r] = "closing")
  <2>1. \/ loop' = r /\ pc' = [pc EXCEPT ![r] = "closing"]
        \/ loop' = Free /\ pc' = [pc EXCEPT ![r] = "failed"]
    BY DEF Abort, Yield, Goto
  <2>2. QED
    BY <1>f, <2>1 DEF IInv, TypeOK
<1>h. \A q \in Requests \ {r}, op \in Ops : ~InHand(q, op)
  BY <1>f DEF InHand
<1>1. HeldDecided'
  <2>1. \A op \in Ops : ~(held'[r][op] > 0)
    BY DEF Abort, Nothing, IInv, TypeOK
  <2>2. \A q \in Requests \ {r} : held'[q] = held[q]
    BY DEF Abort, IInv, TypeOK
  <2>3. QED
    BY <1>d, <1>h, <2>1, <2>2 DEF IInv, HeldDecided
<1>2. OutDecided'
  BY <1>d DEF IInv, OutDecided
<1>3. ProposedDecided'
  BY <1>d, <1>h, <1>p DEF IInv, ProposedDecided, Live
<1>4. SentDecided'
  <2>1. r \notin sent /\ sent \subseteq Requests
    BY DEF IInv, SentDecided, TypeOK, Requests
  <2>2. QED
    BY <1>d, <1>p, <2>1 DEF IInv, SentDecided
<1>5. GroupDecided' /\ LoopHolder'
  BY <1>f, <1>g, <1>p DEF GroupDecided, LoopHolder, Empty
<1>6. QED
  BY <1>1, <1>2, <1>3, <1>4, <1>5

\* Handing over an answer whose calls are all decided.
LEMMA SendStep ==
  ASSUME IInv, Grown, NEW r \in Requests, loop \in {Free, r}, loop' = Free,
         pc[r] \in Live, pc' = [pc EXCEPT ![r] = "done"], sent' = sent \cup {r},
         \A op \in Ops : proposed[r][op] > 0 => Decided(r, op),
         \A q \in Requests, op \in Ops :
           out'[q][op] > 0 => out[q][op] > 0 \/ (q = r /\ Decided(r, op)),
         \A q \in Requests, op \in Ops : held'[q][op] > 0 => held[q][op] > 0,
         loop = r => \A op \in Ops : ~(held'[r][op] > 0),
         todo' = {}, group' = {}, UNCHANGED proposed
  PROVE  HeldDecided' /\ OutDecided' /\ ProposedDecided' /\ SentDecided'
         /\ GroupDecided' /\ LoopHolder'
<1>d. \A q \in Requests, op \in Ops : Decided(q, op) => Decided(q, op)'
  BY DecidedStays DEF IInv, TypeOK
<1>f. Free \notin Requests
  BY RequestKinds
<1>p. /\ pc'[r] = "done"
      /\ \A q \in Requests \ {r} : pc'[q] = pc[q]
  BY DEF IInv, TypeOK
<1>h. \A q \in Requests, op \in Ops : InHand(q, op) => q = r /\ loop = r
  BY <1>f DEF InHand
<1>1. HeldDecided'
  BY <1>d, <1>h DEF IInv, HeldDecided
<1>2. OutDecided'
  BY <1>d DEF IInv, OutDecided
<1>3. ProposedDecided'
  BY <1>d, <1>h, <1>p DEF IInv, ProposedDecided, Live
<1>4. SentDecided'
  BY <1>d, <1>p DEF IInv, SentDecided, TypeOK, Requests
<1>5. GroupDecided' /\ LoopHolder'
  BY <1>f DEF GroupDecided, LoopHolder
<1>6. QED
  BY <1>1, <1>2, <1>3, <1>4, <1>5

\* The six facts a step has to keep, TypeOK apart.
Kept == HeldDecided /\ OutDecided /\ ProposedDecided /\ SentDecided /\ GroupDecided /\ LoopHolder

LEMMA EarlySteps ==
  ASSUME IInv, NEW r \in Requests,
         StatStore(r) \/ LoadStore(r) \/ Send(r) \/ Open(r) \/ HandshakeFails(r)
  PROVE  Kept'
<1>p. pc[r] \in Labels /\ (loop = Free => group = {})
  BY DEF IInv, TypeOK, Labels, LoopHolder
<1>f. loop = r => loop # Free
  BY RequestKinds
<1>e. loop = r /\ r \notin Plain /\ pc[r] \in {"stat", "load"} => group = {}
  BY DEF IInv, LoopHolder, Empty
<1>1. CASE StatStore(r) \/ LoadStore(r)
  <2>1. /\ loop = r /\ pc[r] \in {"stat", "load"} /\ Grown
        /\ UNCHANGED <<held, out, sent, proposed, todo, group>>
    BY <1>1 DEF StatStore, LoadStore, Grown, fileVars, groupVars, answerVars
  <2>2. \/ pc' = [pc EXCEPT ![r] = "load"] /\ loop' = loop
        \/ AfterFetch(r)
    BY <1>1 DEF StatStore, LoadStore, Goto
  <2>3. CASE pc' = [pc EXCEPT ![r] = "load"] /\ loop' = loop
    BY <1>e, <1>f, <2>1, <2>3, QuietStep DEF Labels, Live, Kept
  <2>4. CASE AfterFetch(r) /\ r \in Plain
    BY <1>f, <2>1, <2>4, QuietStep DEF AfterFetch, Goto, Labels, Live, Kept
  <2>5. CASE AfterFetch(r) /\ r \notin Plain
    BY <1>e, <1>f, <2>1, <2>5, QuietStep DEF AfterFetch, Yield, Goto, Labels, Live, Kept
  <2>6. QED
    BY <2>2, <2>3, <2>4, <2>5
<1>2. CASE Send(r)
  <2>1. Grown /\ UNCHANGED <<held, out, sent, proposed, todo, group>>
    BY <1>2 DEF Send, Grown, fileVars, groupVars, answerVars
  <2>2. QED
    BY <1>2, <1>p, <1>f, <2>1, QuietStep DEF Send, Goto, Labels, Live, Kept
<1>3. CASE Open(r)
  <2>1. Grown /\ UNCHANGED <<held, out, sent, proposed, todo, group>>
    BY <1>3 DEF Open, Grown, fileVars, groupVars, answerVars
  <2>2. QED
    BY <1>3, <1>p, <1>f, <2>1, QuietStep DEF Open, Goto, Labels, Live, Kept
<1>4. CASE HandshakeFails(r)
  <2>1. Grown
    BY <1>4, RecordTypes, AppendType DEF HandshakeFails, IInv
  <2>2. UNCHANGED <<held, out, sent, proposed, todo, group>>
    BY <1>4 DEF HandshakeFails, groupVars, answerVars
  <2>3. QED
    BY <1>4, <1>p, <1>f, <2>1, <2>2, QuietStep DEF HandshakeFails, Goto, Labels, Live, Kept
<1>5. QED
  BY <1>1, <1>2, <1>3, <1>4

LEMMA AnswerSteps ==
  ASSUME IInv, NEW r \in Requests,
         AnswerWithoutCalls(r) \/ Garbled(r) \/ (\E S \in SUBSET Ops : Complete(r, S))
  PROVE  Kept'
<1>a. Awaiting(r)
  BY DEF AnswerWithoutCalls, Garbled, Complete
<1>f. loop = Free /\ pc[r] \in {"waiting", "streaming"} /\ Free \notin Requests
  BY <1>a, RequestKinds DEF Awaiting
<1>g. group = {} /\ todo = {}
  BY <1>f DEF IInv, TypeOK, LoopHolder
<1>p. \A op \in Ops : proposed[r][op] > 0 => Decided(r, op)
  BY <1>f DEF IInv, ProposedDecided, InHand, Live
<1>s. ASSUME NEW rec \in Records, RecordAndSend(r, rec), UNCHANGED proposed,
             \A q \in Requests, op \in Ops : out'[q][op] > 0 => out[q][op] > 0
      PROVE  Kept'
  <2>1. Grown
    BY <1>s, AppendType DEF RecordAndSend, IInv
  <2>2. CASE sent' = sent \cup {r} /\ Yield(r, "done") /\ NoGroup /\ UNCHANGED held
    BY <1>f, <1>p, <1>s, <2>1, <2>2, SendStep DEF Yield, Goto, NoGroup, Live, Kept
  <2>3. CASE Abort(r) /\ UNCHANGED sent
    BY <1>f, <1>s, <2>1, <2>3, AbortStep DEF Kept
  <2>4. QED
    BY <1>s, <2>2, <2>3 DEF RecordAndSend
<1>1. CASE AnswerWithoutCalls(r)
  BY <1>1, <1>s, RecordTypes DEF AnswerWithoutCalls
<1>2. CASE Garbled(r) /\ r \notin Sockets
  <2>1. RecordAndSend(r, IF DeveloperMode THEN Observed(r) ELSE Unexaminable(r))
    BY <1>2 DEF Garbled
  <2>2. (IF DeveloperMode THEN Observed(r) ELSE Unexaminable(r)) \in Records
    BY RecordTypes
  <2>3. out' = [out EXCEPT ![r] = Nothing] /\ UNCHANGED proposed
    BY <1>2 DEF Garbled
  <2>4. \A q \in Requests, op \in Ops : out'[q][op] > 0 => out[q][op] > 0
    BY <2>3 DEF Nothing, IInv, TypeOK
  <2>5. QED
    BY <1>s, <2>1, <2>2, <2>3, <2>4
<1>3. CASE Garbled(r) /\ r \in Sockets
  <2>1. Grown
    <3>1. Appended(Unexaminable(r)) \/ AppendRaised(Unexaminable(r))
      BY <1>3 DEF Garbled
    <3>2. QED
      BY <3>1, RecordTypes, AppendType DEF IInv
  <2>2. UNCHANGED <<out, sent, proposed>>
    BY <1>3 DEF Garbled
  <2>3. UNCHANGED <<groupVars, held, loop, pc>> \/ Abort(r)
    BY <1>3 DEF Garbled
  <2>4. CASE Abort(r)
    BY <1>f, <2>1, <2>2, <2>4, AbortStep DEF Kept
  <2>5. CASE UNCHANGED <<groupVars, held, loop, pc>>
    <3>1. pc' = [pc EXCEPT ![r] = pc[r]] /\ pc[r] \in Labels
      BY <2>5, <1>f DEF IInv, TypeOK, Labels
    <3>2. QED
      BY <1>f, <1>g, <2>1, <2>2, <2>5, <3>1, QuietStep DEF groupVars, Kept, Live
  <2>6. QED
    BY <2>3, <2>4, <2>5
<1>4. ASSUME NEW S \in SUBSET Ops, Complete(r, S) PROVE Kept'
  <2>1. \A q \in Requests, op \in Ops : Decided(q, op) => Decided(q, op)'
    BY <1>4, DecidedStays DEF Complete, Grown, IInv, TypeOK, fileVars
  <2>2. loop' = r /\ todo' = S /\ group' = S
    BY <1>4 DEF Complete
  <2>3. /\ pc'[r] \in {"stat", "deciding"} /\ (pc'[r] = "stat" => r \in Plain)
        /\ \A q \in Requests \ {r} : pc'[q] = pc[q]
    BY <1>4 DEF Complete, Goto, IInv, TypeOK
  <2>4. \A q \in Requests, op \in Ops :
          /\ held'[q][op] > 0 => held[q][op] > 0 \/ (q = r /\ op \in S)
          /\ proposed'[q][op] > 0 => proposed[q][op] > 0 \/ (q = r /\ op \in S)
    BY <1>4 DEF Complete, IInv, TypeOK
  <2>5. UNCHANGED <<out, sent>>
    BY <1>4 DEF Complete
  <2>6. \A q \in Requests, op \in Ops : ~InHand(q, op)
    BY <1>f DEF InHand
  <2>7. HeldDecided' /\ OutDecided'
    BY <2>1, <2>2, <2>4, <2>5, <2>6 DEF IInv, HeldDecided, OutDecided, InHand
  <2>8. ProposedDecided'
    BY <1>f, <2>1, <2>2, <2>3, <2>4, <2>6 DEF IInv, ProposedDecided, InHand, Live
  <2>9. SentDecided'
    <3>1. r \notin sent /\ sent \subseteq Requests
      BY <1>f DEF IInv, SentDecided, TypeOK, Requests
    <3>2. QED
      BY <2>1, <2>3, <2>4, <2>5, <3>1 DEF IInv, SentDecided
  <2>10. GroupDecided' /\ LoopHolder'
    BY <1>f, <2>2, <2>3 DEF GroupDecided, LoopHolder, Empty
  <2>11. QED
    BY <2>7, <2>8, <2>9, <2>10 DEF Kept
<1>5. QED
  BY <1>1, <1>2, <1>3, <1>4

\* A decision takes its call out of the group and puts it in the chain.
LEMMA DecideStep ==
  ASSUME IInv, NEW r \in Requests, NEW op \in Ops, NEW gate, Decide(r, op, gate)
  PROVE  Kept'
<1> DEFINE rec == Decision(r, op, Verdict(r, op, gate),
                     Verdict(r, op, gate) = "ALLOW" /\ op \notin PolicyAllows)
<1>1. rec \in Records /\ IsDecision(rec, r, op)
  BY DecisionType DEF IInv, IsDecision, Decision
<1>2. Grown
  <2>1. Appended(rec) \/ AppendRaised(rec)
    BY DEF Decide
  <2>2. QED
    BY <1>1, <2>1, AppendType DEF IInv
<1>3. loop = r /\ pc[r] = "deciding" /\ op \in todo /\ UNCHANGED <<out, sent, proposed>>
  BY DEF Decide
<1>4. \/ /\ Appended(rec) /\ todo' = todo \ {op}
         /\ UNCHANGED <<group, held, loop, pc>>
      \/ Abort(r)
  BY DEF Decide
<1>5. CASE Abort(r)
  BY <1>2, <1>3, <1>5, AbortStep DEF Kept
<1>6. CASE Appended(rec) /\ todo' = todo \ {op} /\ UNCHANGED <<group, held, loop, pc>>
  <2>1. \A q \in Requests, o \in Ops : Decided(q, o) => Decided(q, o)'
    BY <1>2, DecidedStays DEF IInv, TypeOK
  <2>2. Decided(r, op)'
    BY <1>1, <1>6, AppendDecides DEF Appended, IInv, TypeOK
  <2>3. \A q \in Requests, o \in Ops : InHand(q, o) => InHand(q, o)' \/ Decided(q, o)'
    BY <1>3, <1>6, <2>2 DEF InHand
  <2>4. HeldDecided' /\ OutDecided' /\ ProposedDecided'
    BY <1>3, <1>6, <2>1, <2>3 DEF IInv, HeldDecided, OutDecided, ProposedDecided
  <2>5. SentDecided'
    BY <1>3, <1>6, <2>1 DEF IInv, SentDecided, TypeOK, Requests
  <2>6. GroupDecided'
    BY <1>3, <1>6, <2>1, <2>2 DEF IInv, GroupDecided
  <2>7. LoopHolder'
    BY <1>6 DEF IInv, LoopHolder, Empty
  <2>8. QED
    BY <2>4, <2>5, <2>6, <2>7 DEF Kept
<1>7. QED
  BY <1>4, <1>5, <1>6

\* What goes out is in the buffer or in the group, and the group is decided.
LEMMA ReleaseSteps ==
  ASSUME IInv, NEW r \in Requests, ReleaseEvent(r) \/ ReleaseBody(r)
  PROVE  Kept'
<1>1. /\ loop = r /\ pc[r] = "deciding" /\ todo = {} /\ Grown
      /\ todo' = {} /\ group' = {} /\ loop' = Free /\ UNCHANGED <<chain, proposed>>
  BY DEF ReleaseEvent, ReleaseBody, NoGroup, Yield, Grown, fileVars
<1>d. \A q \in Requests, op \in Ops : Decided(q, op) => Decided(q, op)'
  BY <1>1, DecidedStays DEF IInv, TypeOK
<1>f. Free \notin Requests
  BY RequestKinds
<1>h. \A q \in Requests, op \in Ops : ~InHand(q, op)
  BY <1>1 DEF InHand
<1>g. \A op \in group : Decided(r, op)
  BY <1>1 DEF IInv, GroupDecided, TypeOK
<1>2. CASE ReleaseBody(r)
  <2>1. \A op \in Ops : proposed[r][op] > 0 => Decided(r, op)
    BY <1>1, <1>h DEF IInv, ProposedDecided, Live
  <2>2. \A q \in Requests, op \in Ops :
          out'[q][op] > 0 => out[q][op] > 0 \/ (q = r /\ Decided(r, op))
    BY <1>2, <1>g DEF ReleaseBody, IInv, TypeOK
  <2>3. /\ \A q \in Requests, op \in Ops : held'[q][op] > 0 => held[q][op] > 0
        /\ \A op \in Ops : ~(held'[r][op] > 0)
    BY <1>2 DEF ReleaseBody, Nothing, IInv, TypeOK
  <2>4. pc' = [pc EXCEPT ![r] = "done"] /\ sent' = sent \cup {r}
    BY <1>2 DEF ReleaseBody, Yield, Goto
  <2>5. QED
    BY <1>1, <2>1, <2>2, <2>3, <2>4, SendStep DEF Kept, Live
<1>3. CASE ReleaseEvent(r)
  <2>1. \A op \in Ops : Buffered(r, op) \in {0, held[r][op]} /\ held[r][op] \in Nat /\ out[r][op] \in Nat
    BY DEF Buffered, IInv, TypeOK
  <2>t. out \in [Requests -> [Ops -> Nat]] /\ held \in [Requests -> [Ops -> Nat]]
    BY DEF IInv, TypeOK
  <2>a. UNCHANGED <<out, held>> \/ blocked = {}
    BY <1>3 DEF ReleaseEvent
  <2>b. ASSUME blocked = {}
        PROVE  /\ \A q \in Requests \ {r} : out'[q] = out[q] /\ held'[q] = held[q]
               /\ \A op \in Ops :
                    /\ held'[r][op] = held[r][op] - Buffered(r, op)
                    /\ out'[r][op] = out[r][op] + Buffered(r, op)
                                      + (IF op \in group THEN 1 ELSE 0)
    BY <1>3, <2>b, <2>t DEF ReleaseEvent
  <2>2. \A q \in Requests, op \in Ops : held'[q][op] > 0 => held[q][op] > 0
    BY <2>1, <2>a, <2>b
  <2>3. \A q \in Requests, op \in Ops :
          out'[q][op] > 0 => out[q][op] > 0 \/ (q = r /\ (held[r][op] > 0 \/ op \in group))
    BY <2>1, <2>a, <2>b
  <2>4. HeldDecided'
    BY <1>d, <1>h, <2>2 DEF IInv, HeldDecided
  <2>5. OutDecided'
    BY <1>d, <1>g, <1>h, <2>3 DEF IInv, HeldDecided, OutDecided
  <2>6. pc'[r] = "streaming" /\ (\A q \in Requests \ {r} : pc'[q] = pc[q]) /\ sent' = sent
    BY <1>3 DEF ReleaseEvent, Yield, Goto, IInv, TypeOK
  <2>7. ProposedDecided'
    BY <1>1, <1>d, <1>h, <2>6 DEF IInv, ProposedDecided, Live
  <2>8. SentDecided'
    <3>1. r \notin sent /\ sent \subseteq Requests
      BY <1>1 DEF IInv, SentDecided, TypeOK, Requests
    <3>2. QED
      BY <1>1, <1>d, <2>6, <3>1 DEF IInv, SentDecided
  <2>9. GroupDecided' /\ LoopHolder'
    BY <1>1, <1>f DEF GroupDecided, LoopHolder
  <2>10. QED
    BY <2>4, <2>5, <2>7, <2>8, <2>9 DEF Kept
<1>4. QED
  BY <1>2, <1>3

LEMMA EndSteps ==
  ASSUME IInv, NEW r \in Requests,
         CloseSession(r) \/ EndStream(r) \/ ProviderFails(r) \/ Hangup(r)
  PROVE  Kept'
<1>f. loop = r => loop # Free
  BY RequestKinds
<1>1. CASE CloseSession(r)
  <2>1. Grown
    <3>1. CASE counted[r] = 0
      BY <1>1, <3>1, RecordTypes, AppendType DEF CloseSession, IInv
    <3>2. CASE counted[r] # 0
      BY <1>1, <3>2 DEF CloseSession, Grown, fileVars
    <3>3. QED
      BY <3>1, <3>2
  <2>2. /\ loop = r /\ pc[r] = "closing" /\ loop' = Free /\ pc' = [pc EXCEPT ![r] = "done"]
        /\ UNCHANGED <<held, out, sent, proposed, todo, group>>
    BY <1>1 DEF CloseSession, Yield, Goto, groupVars, answerVars
  <2>3. group = {}
    BY <2>2 DEF IInv, LoopHolder, Empty
  <2>4. QED
    BY <1>f, <2>1, <2>2, <2>3, QuietStep DEF Labels, Live, Kept
<1>2. CASE EndStream(r)
  <2>1. /\ loop = Free /\ pc[r] = "streaming" /\ pc' = [pc EXCEPT ![r] = "done"]
        /\ sent' = sent \cup {r} /\ Grown
        /\ UNCHANGED <<held, out, proposed, todo, group, loop>>
    BY <1>2 DEF EndStream, Goto, Grown, fileVars, groupVars
  <2>2. \A op \in Ops : proposed[r][op] > 0 => Decided(r, op)
    BY <1>f, <2>1 DEF IInv, ProposedDecided, InHand, Live
  <2>3. group = {} /\ todo = {}
    BY <2>1 DEF IInv, LoopHolder, TypeOK
  <2>4. QED
    BY <1>f, <2>1, <2>2, <2>3, SendStep DEF Live, Kept
<1>3. CASE ProviderFails(r) \/ Hangup(r)
  <2>1. /\ loop = Free /\ pc[r] # "done" /\ Abort(r) /\ Grown
        /\ UNCHANGED <<out, sent, proposed>>
    BY <1>3 DEF ProviderFails, Hangup, Awaiting, Grown, fileVars
  <2>2. QED
    BY <2>1, AbortStep DEF Kept
<1>4. QED
  BY <1>1, <1>2, <1>3

LEMMA OutsideSteps == ASSUME IInv, Operator \/ Crash PROVE Kept'
<1>f. Free \notin Requests
  BY RequestKinds
<1>1. CASE Operator
  <2>1. Grown
    BY <1>1, RecordTypes, AppendType DEF Operator, IInv
  <2>2. \A q \in Requests, op \in Ops : Decided(q, op) => Decided(q, op)'
    BY <2>1, DecidedStays DEF IInv, TypeOK
  <2>3. UNCHANGED <<groupVars, answerVars, loop, pc>>
    BY <1>1 DEF Operator
  <2>4. HeldDecided' /\ OutDecided' /\ ProposedDecided' /\ GroupDecided'
    BY <2>2, <2>3 DEF IInv, HeldDecided, OutDecided, ProposedDecided, GroupDecided,
       InHand, groupVars, answerVars
  <2>5. SentDecided' /\ LoopHolder'
    BY <2>2, <2>3 DEF IInv, SentDecided, LoopHolder, Empty, TypeOK, Requests,
       groupVars, answerVars
  <2>6. QED
    BY <2>4, <2>5 DEF Kept
<1>2. CASE Crash
  <2>1. \A q \in Requests, op \in Ops : Decided(q, op) => Decided(q, op)'
    BY <1>2, DecidedStays DEF Crash, Grown, IInv, TypeOK, fileVars
  <2>2. /\ loop' = Free /\ todo' = {} /\ group' = {}
        /\ UNCHANGED <<out, sent, proposed>>
    BY <1>2 DEF Crash, NoGroup
  <2>3. \A q \in Requests, op \in Ops : ~(held'[q][op] > 0)
    BY <1>2 DEF Crash, Nothing
  <2>4. /\ \A q \in Requests : pc'[q] \in Live => pc[q] = "new"
        /\ \A q \in Requests : pc[q] = "done" => pc'[q] = "done"
    BY <1>2 DEF Crash, Live
  <2>5. HeldDecided' /\ OutDecided'
    BY <2>1, <2>2, <2>3 DEF IInv, HeldDecided, OutDecided
  <2>6. ProposedDecided'
    <3>1. \A q \in Requests, op \in Ops : pc[q] = "new" => ~InHand(q, op)
      BY DEF InHand, IInv, LoopHolder
    <3>2. QED
      BY <2>1, <2>2, <2>4, <3>1 DEF IInv, ProposedDecided, Live
  <2>7. SentDecided'
    BY <2>1, <2>2, <2>4 DEF IInv, SentDecided, TypeOK, Requests
  <2>8. GroupDecided' /\ LoopHolder'
    BY <1>f, <2>2 DEF GroupDecided, LoopHolder
  <2>9. QED
    BY <2>5, <2>6, <2>7, <2>8 DEF Kept
<1>3. QED
  BY <1>1, <1>2

\* The invariant is inductive.
LEMMA Induction == Spec => []IInv
<1>1. Init => IInv
  <2> SUFFICES ASSUME Init PROVE IInv
    OBVIOUS
  <2>1. TypeOK
    BY InitTypes
  <2>2. \A r \in Requests, op \in Ops :
          ~(held[r][op] > 0) /\ ~(out[r][op] > 0) /\ ~(proposed[r][op] > 0)
    BY DEF Init, Nothing
  <2>3. HeldDecided /\ OutDecided /\ ProposedDecided
    BY <2>2 DEF HeldDecided, OutDecided, ProposedDecided
  <2>4. SentDecided /\ GroupDecided /\ LoopHolder
    BY RequestKinds DEF Init, SentDecided, GroupDecided, LoopHolder
  <2>5. QED
    BY <2>1, <2>3, <2>4 DEF IInv
<1>2. IInv /\ [Next]_vars => IInv'
  <2> SUFFICES ASSUME IInv, [Next]_vars PROVE IInv'
    OBVIOUS
  <2>1. TypeOK'
    BY NextTypes DEF IInv
  <2>2. CASE UNCHANGED vars
    BY <2>1, <2>2 DEF IInv, HeldDecided, OutDecided, ProposedDecided, SentDecided,
       GroupDecided, LoopHolder, Empty, InHand, Decided, vars, fileVars, groupVars, answerVars
  <2>3. ASSUME NEW r \in Requests, Begin(r) \/ Proceed(r) \/ Answer(r) \/ Hangup(r)
        PROVE  Kept'
    <3>1. CASE Mediate(r)
      BY <3>1, DecideStep DEF Mediate
    <3>2. QED
      BY <2>3, <3>1, EarlySteps, AnswerSteps, ReleaseSteps, EndSteps DEF Begin, Proceed, Answer
  <2>4. CASE Operator \/ Crash
    BY <2>1, <2>4, OutsideSteps DEF IInv, Kept
  <2>5. QED
    BY <2>1, <2>2, <2>3, <2>4 DEF Next, IInv, Kept
<1>3. QED
  BY <1>1, <1>2, PTL DEF Spec

\* INV-001 for every number of requests, providers and failures: no complete
\* call reaches the agent before the chain holds a decision on it.
THEOREM DecidedBeforeDelivered == Spec => []DeliveredCallWasDecided
<1>1. IInv => DeliveredCallWasDecided
  BY DEF IInv, OutDecided, DeliveredCallWasDecided, Delivered
<1>2. QED
  BY <1>1, Induction, PTL

\* An HTTP answer is withheld until every call the provider completed in it is
\* decided, whatever the order of the events and the failures.
THEOREM WholeBeforeSent == Spec => []WholeAnswerDecided
<1>1. IInv => WholeAnswerDecided
  BY DEF IInv, SentDecided, WholeAnswerDecided
<1>2. QED
  BY <1>1, Induction, PTL

-----------------------------------------------------------------------------
(* What the chain knows of one request, and what becomes of its answer.  The  *)
(* remaining invariants speak of one request at a time: a step of another     *)
(* handler leaves everything they mention alone.                              *)

Apart == Plain \cup Blocks \cup Chats
Single == Blocks \cup Sockets

\* A content block and a session's event complete one call.
OneCall(q) ==
  q \in Single /\ loop = q /\ pc[q] = "deciding" => \E op \in Ops : group = {op}

\* What was counted was proposed, and what ends or goes out has a record.
Traced(q) ==
  /\ q \in sent => Recorded(q)
  /\ q \in Plain /\ loop = q => group # {}
  /\ q \in Http /\ counted[q] > 0 => \E op \in Ops : proposed[q][op] > 0
  /\ q \in Sockets /\ counted[q] > 0 => Recorded(q)
  /\ q \in Sockets /\ pc[q] = "done" /\ faults = 0 => Recorded(q)

\* A call of the group that is neither open nor blocked was allowed, and the
\* buffer of a chat holds nothing but its group.
Withheld(q) ==
  /\ \A op \in Ops : loop = q /\ op \in group \ (todo \cup blocked) => Allowed(q, op)
  /\ \A op \in Ops : held[q][op] > 0 => proposed[q][op] > 0
  /\ q \in Chats /\ loop = q /\ pc[q] = "deciding" =>
       \A op \in Ops : held[q][op] > 0 => op \in group
  /\ q \in Apart => \A op \in Ops : out[q][op] > 0 => Allowed(q, op)

\* An allowed call is out, or about to go out, or its answer was refused.
Released(q) ==
  /\ q \in Plain /\ pc[q] \in Live => \A op \in Ops : ~(out[q][op] > 0)
  /\ loop = q => todo \cap blocked = {}
  /\ q \in Plain \cup Blocks => \A op \in Ops : Allowed(q, op) =>
       \/ out[q][op] > 0 \/ Has(Unexaminable(q)) \/ pc[q] = "failed"
       \/ loop = q /\ op \in group \ (todo \cup blocked)

\* A session that has counted nothing has decided nothing, but for the call it
\* is about to count.
Summed(q) ==
  "written" \notin Faults /\ q \in Sockets =>
    /\ Has(Observed(q)) => pc[q] = "done" /\ \A op \in Ops : ~Decided(q, op)
    /\ pc[q] = "new" => counted[q] = 0
    /\ \A op \in Ops : counted[q] = 0 /\ Decided(q, op) /\ pc[q] # "failed" =>
         pc[q] = "deciding" /\ loop = q /\ todo = {}

Good(q) == OneCall(q) /\ Traced(q) /\ Withheld(q) /\ Released(q) /\ Summed(q)

\* What the chain says of q is what it said before, plus what rec says.
Learns(q, rec) ==
  /\ \A op \in Ops :
       /\ Decided(q, op)' <=> Decided(q, op) \/ IsDecision(rec, q, op)
       /\ Allowed(q, op)' <=> Allowed(q, op) \/ (IsDecision(rec, q, op) /\ rec.verdict = "ALLOW")
  /\ Has(Observed(q))' <=> Has(Observed(q)) \/ rec = Observed(q)
  /\ Has(Unexaminable(q))' <=> Has(Unexaminable(q)) \/ rec = Unexaminable(q)
LearnsNothing(q) ==
  /\ \A op \in Ops : (Decided(q, op)' <=> Decided(q, op)) /\ (Allowed(q, op)' <=> Allowed(q, op))
  /\ Has(Observed(q))' <=> Has(Observed(q))
  /\ Has(Unexaminable(q))' <=> Has(Unexaminable(q))

\* An append adds the facts of its record and no others.
LEMMA AppendLearns ==
  ASSUME chain \in Seq(Records), NEW rec \in Records, chain' = Append(chain, rec), NEW q \in Requests
  PROVE  Learns(q, rec)
<1>1. /\ Len(chain') = Len(chain) + 1 /\ chain'[Len(chain) + 1] = rec
      /\ \A i \in 1..Len(chain) : chain'[i] = chain[i]
  OBVIOUS
<1>2. 1..Len(chain') = 1..Len(chain) \cup {Len(chain) + 1}
  BY <1>1
<1>3. \A op \in Ops : Decided(q, op)' <=> Decided(q, op) \/ IsDecision(rec, q, op)
  BY <1>1, <1>2, Zenon DEF Decided, IsDecision
<1>4. \A op \in Ops :
        Allowed(q, op)' <=> Allowed(q, op) \/ (IsDecision(rec, q, op) /\ rec.verdict = "ALLOW")
  BY <1>1, <1>2, Zenon DEF Allowed, IsDecision
<1>5. \A x : (\E i \in 1..Len(chain') : chain'[i] = x)
             <=> (\E i \in 1..Len(chain) : chain[i] = x) \/ rec = x
  BY <1>1, <1>2, Zenon
<1>6. /\ Has(Observed(q))' <=> Has(Observed(q)) \/ rec = Observed(q)
      /\ Has(Unexaminable(q))' <=> Has(Unexaminable(q)) \/ rec = Unexaminable(q)
  BY <1>5 DEF Has, Observed, Unexaminable
<1>7. QED
  BY <1>3, <1>4, <1>6 DEF Learns

\* A chain that does not change says nothing new.
LEMMA SameLearnsNothing ==
  ASSUME chain' = chain, NEW q \in Requests
  PROVE  LearnsNothing(q)
BY DEF LearnsNothing, Decided, Allowed, IsDecision, Has, Observed, Unexaminable

\* A record of another request, or of an operator, says nothing of q.
LEMMA OtherRecord ==
  ASSUME NEW q \in Requests, NEW rec \in Records, Learns(q, rec),
         rec.kind \in {"approval", "revocation"} \/ rec.req # q
  PROVE  LearnsNothing(q)
BY DEF Learns, LearnsNothing, IsDecision, Observed, Unexaminable

\* What is known stays known.
LEMMA KnownStays ==
  ASSUME chain \in Seq(Records), Grown, NEW q \in Requests
  PROVE  /\ \A op \in Ops : (Decided(q, op) => Decided(q, op)') /\ (Allowed(q, op) => Allowed(q, op)')
         /\ Has(Observed(q)) => Has(Observed(q))'
         /\ Has(Unexaminable(q)) => Has(Unexaminable(q))'
         /\ Recorded(q) => Recorded(q)'
<1>1. LearnsNothing(q) \/ \E rec \in Records : Learns(q, rec)
  BY AppendLearns, SameLearnsNothing DEF Grown
<1>2. /\ \A op \in Ops : (Decided(q, op) => Decided(q, op)') /\ (Allowed(q, op) => Allowed(q, op)')
      /\ Has(Observed(q)) => Has(Observed(q))'
      /\ Has(Unexaminable(q)) => Has(Unexaminable(q))'
  BY <1>1 DEF Learns, LearnsNothing
<1>3. QED
  BY <1>2 DEF Recorded

\* Nothing that the invariants say of q was touched.
Untouched(q) ==
  /\ loop # q /\ loop' # q /\ LearnsNothing(q)
  /\ pc'[q] = pc[q] /\ held'[q] = held[q] /\ out'[q] = out[q]
  /\ counted'[q] = counted[q] /\ proposed'[q] = proposed[q]
  /\ q \in sent' => q \in sent
  /\ faults' = 0 => faults = 0

LEMMA UntouchedGood ==
  ASSUME NEW q \in Requests, Good(q), Untouched(q)
  PROVE  Good(q)'
<1>1. Recorded(q)' <=> Recorded(q)
  BY DEF Untouched, LearnsNothing, Recorded
<1>2. OneCall(q)' /\ Traced(q)'
  BY <1>1 DEF Good, Traced, OneCall, Untouched
<1>3. Withheld(q)'
  BY DEF Good, Withheld, Untouched, LearnsNothing
<1>4. Released(q)'
  BY DEF Good, Released, Untouched, LearnsNothing
<1>5. Summed(q)'
  BY DEF Good, Summed, Untouched, LearnsNothing
<1>6. QED
  BY <1>2, <1>3, <1>4, <1>5 DEF Good

\* A record of r, written or not, says nothing of another request.
LEMMA OwnRecord ==
  ASSUME TypeOK, NEW r \in Requests, NEW rec \in Records, rec.req = r,
         Appended(rec) \/ AppendRaised(rec), NEW q \in Requests \ {r}
  PROVE  LearnsNothing(q) /\ (faults' = 0 => faults = 0)
<1>1. chain' = chain \/ chain' = Append(chain, rec)
  BY DEF Appended, AppendRaised
<1>2. faults' = faults \/ faults' = faults + 1
  BY DEF Appended, AppendRaised
<1>3. LearnsNothing(q)
  <2>1. CASE chain' = chain
    BY <2>1, SameLearnsNothing
  <2>2. CASE chain' = Append(chain, rec)
    <3>1. Learns(q, rec)
      BY <2>2, AppendLearns DEF TypeOK
    <3>2. QED
      BY <3>1, OtherRecord
  <2>3. QED
    BY <1>1, <2>1, <2>2
<1>4. faults \in Nat
  BY DEF TypeOK
<1>5. QED
  BY <1>2, <1>3, <1>4

\* The fields of the answers and the labels of the other requests stay.
Elsewhere(r) ==
  /\ loop \in {Free, r} /\ loop' \in {Free, r}
  /\ \A q \in Requests \ {r} :
       /\ pc'[q] = pc[q] /\ held'[q] = held[q] /\ out'[q] = out[q]
       /\ counted'[q] = counted[q] /\ proposed'[q] = proposed[q]
       /\ q \in sent' => q \in sent
  /\ \/ chain' = chain /\ faults' = faults
     \/ \E rec \in Records : rec.req = r /\ (Appended(rec) \/ AppendRaised(rec))

LEMMA ElsewhereUntouched ==
  ASSUME TypeOK, NEW r \in Requests, Elsewhere(r), NEW q \in Requests \ {r}
  PROVE  Untouched(q)
<1>1. loop # q /\ loop' # q
  BY RequestKinds DEF Elsewhere
<1>2. LearnsNothing(q) /\ (faults' = 0 => faults = 0)
  BY OwnRecord, SameLearnsNothing DEF Elsewhere
<1>3. QED
  BY <1>1, <1>2 DEF Elsewhere, Untouched

\* The records of the handlers name their request.
LEMMA RecordsName ==
  ASSUME NEW r
  PROVE  /\ Observed(r).req = r /\ Unexaminable(r).req = r
         /\ \A op, verdict, byApproval : Decision(r, op, verdict, byApproval).req = r
BY DEF Observed, Unexaminable, Decision

\* An abort touches its own request only.
LEMMA AbortElsewhere ==
  ASSUME TypeOK, NEW r \in Requests, Abort(r)
  PROVE  /\ loop' \in {Free, r}
         /\ \A q \in Requests \ {r} : pc'[q] = pc[q] /\ held'[q] = held[q]
BY DEF Abort, Yield, Goto, TypeOK

LEMMA RecordAndSendElsewhere ==
  ASSUME TypeOK, NEW r \in Requests, NEW rec \in Records, rec.req = r, RecordAndSend(r, rec)
  PROVE  /\ loop' \in {Free, r}
         /\ \A q \in Requests \ {r} :
              pc'[q] = pc[q] /\ held'[q] = held[q] /\ (q \in sent' => q \in sent)
         /\ Appended(rec) \/ AppendRaised(rec)
<1>1. CASE Abort(r) /\ UNCHANGED sent
  BY <1>1, AbortElsewhere DEF RecordAndSend
<1>2. CASE sent' = sent \cup {r} /\ Yield(r, "done") /\ UNCHANGED held
  BY <1>2 DEF RecordAndSend, Yield, Goto, TypeOK
<1>3. QED
  BY <1>1, <1>2 DEF RecordAndSend

\* A handler changes nothing of the other requests.
LEMMA EarlyElsewhere ==
  ASSUME TypeOK, NEW r \in Requests,
         StatStore(r) \/ LoadStore(r) \/ Send(r) \/ Open(r) \/ HandshakeFails(r)
  PROVE  Elsewhere(r)
<1>1. UNCHANGED answerVars
  BY DEF StatStore, LoadStore, Send, Open, HandshakeFails
<1>2. \A q \in Requests \ {r} : pc'[q] = pc[q]
  BY DEF TypeOK, StatStore, LoadStore, Send, Open, HandshakeFails, AfterFetch, Yield, Goto
<1>3. loop \in {Free, r} /\ loop' \in {Free, r}
  BY DEF StatStore, LoadStore, Send, Open, HandshakeFails, AfterFetch, Yield
<1>4. \/ chain' = chain /\ faults' = faults
      \/ Appended(Observed(r)) \/ AppendRaised(Observed(r))
  BY DEF StatStore, LoadStore, Send, Open, HandshakeFails, fileVars
<1>5. QED
  BY <1>1, <1>2, <1>3, <1>4, RecordsName, RecordTypes DEF Elsewhere, answerVars

LEMMA AnswerElsewhere ==
  ASSUME TypeOK, NEW r \in Requests,
         AnswerWithoutCalls(r) \/ Garbled(r) \/ (\E S \in SUBSET Ops : Complete(r, S))
  PROVE  Elsewhere(r)
<1>1. CASE AnswerWithoutCalls(r)
  BY <1>1, RecordAndSendElsewhere, RecordTypes, RecordsName
     DEF AnswerWithoutCalls, Awaiting, Elsewhere
<1>2. CASE Garbled(r) /\ r \notin Sockets
  <2> DEFINE rec == IF DeveloperMode THEN Observed(r) ELSE Unexaminable(r)
  <2>1. rec \in Records /\ rec.req = r
    BY RecordTypes, RecordsName
  <2>2. RecordAndSend(r, rec) /\ loop = Free
    BY <1>2 DEF Garbled, Awaiting
  <2>3. UNCHANGED <<counted, proposed>> /\ out' = [out EXCEPT ![r] = Nothing]
    BY <1>2 DEF Garbled
  <2>4. \A q \in Requests \ {r} : out'[q] = out[q]
    BY <2>3 DEF TypeOK
  <2> HIDE DEF rec
  <2>5. QED
    BY <2>1, <2>2, <2>3, <2>4, RecordAndSendElsewhere DEF Elsewhere
<1>3. CASE Garbled(r) /\ r \in Sockets
  <2>1. Appended(Unexaminable(r)) \/ AppendRaised(Unexaminable(r))
    BY <1>3 DEF Garbled
  <2>2. UNCHANGED <<out, sent, proposed>> /\ loop = Free
    BY <1>3 DEF Garbled, Awaiting
  <2>3. UNCHANGED <<held, loop, pc>> \/ Abort(r)
    BY <1>3 DEF Garbled
  <2>4. \A q \in Requests \ {r} : counted'[q] = counted[q]
    BY <1>3 DEF Garbled, TypeOK
  <2>5. loop' \in {Free, r} /\ \A q \in Requests \ {r} : pc'[q] = pc[q] /\ held'[q] = held[q]
    BY <2>2, <2>3, AbortElsewhere
  <2>6. QED
    BY <2>1, <2>2, <2>4, <2>5, RecordTypes, RecordsName DEF Elsewhere
<1>4. ASSUME NEW S \in SUBSET Ops, Complete(r, S) PROVE Elsewhere(r)
  BY <1>4 DEF Complete, Awaiting, Goto, Elsewhere, TypeOK, fileVars
<1>5. QED
  BY <1>1, <1>2, <1>3, <1>4

LEMMA LateElsewhere ==
  ASSUME TypeOK, NEW r \in Requests,
         \/ Mediate(r) \/ ReleaseEvent(r) \/ ReleaseBody(r) \/ CloseSession(r)
         \/ EndStream(r) \/ ProviderFails(r) \/ Hangup(r)
  PROVE  Elsewhere(r)
<1>1. CASE Mediate(r)
  <2>1. PICK op \in Ops, gate \in Gates : Decide(r, op, gate)
    BY <1>1 DEF Mediate
  <2> DEFINE rec == Decision(r, op, Verdict(r, op, gate),
                       Verdict(r, op, gate) = "ALLOW" /\ op \notin PolicyAllows)
  <2>2. rec \in Records /\ rec.req = r
    BY DecisionType DEF Decision
  <2>3. Appended(rec) \/ AppendRaised(rec)
    BY <2>1 DEF Decide
  <2>4. (UNCHANGED <<held, loop, pc>> \/ Abort(r)) /\ loop = r
    BY <2>1 DEF Decide
  <2>5. UNCHANGED <<out, sent, counted, proposed>>
    BY <2>1 DEF Decide
  <2> HIDE DEF rec
  <2>6. QED
    BY <2>2, <2>3, <2>4, <2>5, AbortElsewhere DEF Elsewhere
<1>2. CASE ReleaseEvent(r) \/ ReleaseBody(r)
  <2>1. /\ loop = r /\ loop' = Free /\ UNCHANGED <<chain, faults, proposed>>
        /\ sent' \subseteq sent \cup {r}
    BY <1>2 DEF ReleaseEvent, ReleaseBody, Yield, fileVars
  <2>2. \A q \in Requests \ {r} : pc'[q] = pc[q] /\ counted'[q] = counted[q]
    BY <1>2 DEF ReleaseEvent, ReleaseBody, Yield, Goto, TypeOK
  <2>3. \A q \in Requests \ {r} : held'[q] = held[q] /\ out'[q] = out[q]
    BY <1>2 DEF ReleaseEvent, ReleaseBody, TypeOK
  <2>4. QED
    BY <2>1, <2>2, <2>3 DEF Elsewhere
<1>3. CASE CloseSession(r)
  <2>1. /\ loop = r /\ loop' = Free /\ UNCHANGED answerVars
        /\ \A q \in Requests \ {r} : pc'[q] = pc[q]
    BY <1>3 DEF CloseSession, Yield, Goto, TypeOK
  <2>2. \/ chain' = chain /\ faults' = faults
        \/ Appended(Observed(r)) \/ AppendRaised(Observed(r))
    BY <1>3 DEF CloseSession, fileVars
  <2>3. QED
    BY <2>1, <2>2, RecordTypes, RecordsName DEF Elsewhere, answerVars
<1>4. CASE EndStream(r)
  BY <1>4 DEF EndStream, Goto, Elsewhere, TypeOK, fileVars
<1>5. CASE ProviderFails(r) \/ Hangup(r)
  BY <1>5, AbortElsewhere DEF ProviderFails, Hangup, Awaiting, Elsewhere, fileVars
<1>6. QED
  BY <1>1, <1>2, <1>3, <1>4, <1>5

\* An abort leaves its request in order: it throws its buffer and its group
\* away and releases nothing.
LEMMA AbortGood ==
  ASSUME IInv, NEW r \in Requests, Good(r), Abort(r), Grown,
         pc[r] \notin {"done", "failed"}, pc[r] # "deciding" \/ todo # {},
         "written" \notin Faults => chain' = chain,
         UNCHANGED <<sent, counted, proposed>>,
         \A op \in Ops : out'[r][op] > 0 => out[r][op] > 0
  PROVE  Good(r)'
<1>t. TypeOK /\ chain \in Seq(Records) /\ Free \notin Requests
  BY RequestKinds DEF IInv, TypeOK
<1>1. /\ todo' = {} /\ group' = {} /\ blocked' = {}
      /\ \A op \in Ops : ~(held'[r][op] > 0)
  BY <1>t DEF Abort, NoGroup, Nothing, TypeOK
<1>2. /\ r \in Sockets => pc'[r] = "closing"
      /\ r \notin Sockets => pc'[r] = "failed" /\ loop' = Free
  BY <1>t DEF Abort, Yield, Goto, TypeOK
<1>3. OneCall(r)'
  BY <1>2 DEF OneCall
<1>4. Traced(r)'
  BY <1>t, <1>2, KnownStays, RequestKinds DEF Good, Traced
<1>5. Withheld(r)'
  BY <1>t, <1>1, <1>2, KnownStays DEF Good, Withheld
<1>6. Released(r)'
  BY <1>1, <1>2, RequestKinds DEF Released, Live, Streams
<1>7. Summed(r)'
  <2> SUFFICES ASSUME "written" \notin Faults, r \in Sockets PROVE Summed(r)'
    BY DEF Summed
  <2>1. LearnsNothing(r)
    BY SameLearnsNothing
  <2>2. pc'[r] = "closing"
    BY <1>2
  <2>3. ~Has(Observed(r)) /\ \A op \in Ops : counted[r] = 0 => ~Decided(r, op)
    BY DEF Good, Summed
  <2>4. QED
    BY <2>1, <2>2, <2>3 DEF Summed, LearnsNothing
<1>8. QED
  BY <1>3, <1>4, <1>5, <1>6, <1>7 DEF Good

\* Until its calls are decided a handler only moves on.
LEMMA EarlyGood ==
  ASSUME IInv, NEW r \in Requests, Good(r), StatStore(r) \/ LoadStore(r) \/ Send(r) \/ Open(r)
  PROVE  Good(r)'
<1>1. UNCHANGED <<chain, faults>> /\ UNCHANGED groupVars /\ UNCHANGED answerVars
  BY DEF StatStore, LoadStore, Send, Open, fileVars
<1>2. LearnsNothing(r) /\ (Recorded(r)' <=> Recorded(r))
  <2>1. LearnsNothing(r)
    BY <1>1, SameLearnsNothing
  <2>2. QED
    BY <2>1 DEF LearnsNothing, Recorded
<1>3. /\ pc'[r] \in {"waiting", "stat", "load", "deciding", "streaming"}
      /\ pc'[r] = "deciding" => r \in Plain
      /\ pc[r] \in Live /\ pc[r] # "deciding"
  BY DEF StatStore, LoadStore, Send, Open, AfterFetch, Yield, Goto, IInv, TypeOK, Live
<1>4. r \in Plain /\ loop' = r => loop = r
  BY RequestKinds DEF StatStore, LoadStore, Send, Open, AfterFetch, Yield
<1>5. group = {} \/ (loop = r /\ loop' = r)
  BY DEF StatStore, LoadStore, Send, Open, AfterFetch, Yield, IInv, LoopHolder, Empty
<1>6. todo \subseteq group /\ Free \notin Requests
  BY RequestKinds DEF IInv, TypeOK
<1>7. OneCall(r)' /\ Traced(r)'
  BY <1>1, <1>2, <1>3, <1>4, RequestKinds DEF OneCall, Single, Streams, Traced, Good,
     groupVars, answerVars
<1>8. Withheld(r)'
  BY <1>1, <1>2, <1>3, <1>5, RequestKinds DEF Withheld, Good, Streams, LearnsNothing,
     groupVars, answerVars
<1>9. Released(r)'
  BY <1>1, <1>2, <1>3, <1>5, <1>6 DEF Released, Good, Live, LearnsNothing,
     groupVars, answerVars
<1>10. Summed(r)'
  BY <1>1, <1>2, <1>3 DEF Summed, Good, Live, LearnsNothing,
     groupVars, answerVars
<1>11. QED
  BY <1>7, <1>8, <1>9, <1>10 DEF Good

\* The record of an observation that was written, or not.
LEMMA ObservationLearnt ==
  ASSUME TypeOK, NEW r \in Requests, NEW rec \in {Observed(r), Unexaminable(r)},
         Appended(rec) \/ AppendRaised(rec)
  PROVE  /\ \A op \in Ops : (Decided(r, op)' <=> Decided(r, op)) /\ (Allowed(r, op)' <=> Allowed(r, op))
         /\ Has(Unexaminable(r)) => Has(Unexaminable(r))'
         /\ Has(Observed(r))' => Has(Observed(r)) \/ rec = Observed(r)
         /\ Appended(rec) => Recorded(r)' /\ (rec = Unexaminable(r) => Has(Unexaminable(r))')
         /\ Recorded(r) => Recorded(r)'
         /\ AppendRaised(rec) => faults' > 0 /\ ("written" \notin Faults => chain' = chain)
         /\ Grown
<1>1. rec \in Records /\ chain \in Seq(Records) /\ faults \in Nat
  BY RecordTypes DEF TypeOK
<1>2. Grown /\ (Appended(rec) => chain' = Append(chain, rec))
  BY <1>1, AppendType DEF Appended
<1>3. LearnsNothing(r) \/ Learns(r, rec)
  BY <1>1, AppendLearns, SameLearnsNothing DEF Appended, AppendRaised
<1>4. \A op \in Ops : ~IsDecision(rec, r, op)
  BY DEF IsDecision, Observed, Unexaminable
<1>5. Appended(rec) => Learns(r, rec)
  BY <1>1, <1>2, AppendLearns
<1>6. Recorded(r) => Recorded(r)'
  BY <1>1, <1>2, KnownStays
<1>7. Appended(rec) => Recorded(r)'
  BY <1>5 DEF Learns, Recorded
<1>8. AppendRaised(rec) => faults' > 0 /\ ("written" \notin Faults => chain' = chain)
  BY <1>1 DEF AppendRaised
<1>9. Appended(rec) /\ rec = Unexaminable(r) => Has(Unexaminable(r))'
  BY <1>5 DEF Learns
<1>10. QED
  BY <1>2, <1>3, <1>4, <1>6, <1>7, <1>8, <1>9 DEF Learns, LearnsNothing

\* An answer that is not examined goes out with its record or not at all.
LEMMA RecordAndSendGood ==
  ASSUME IInv, NEW r \in Http, Good(r), Awaiting(r), NEW rec \in {Observed(r), Unexaminable(r)},
         RecordAndSend(r, rec), UNCHANGED <<counted, proposed>>,
         \/ out' = out
         \/ /\ \A op \in Ops : ~(out'[r][op] > 0)
            /\ r \in Plain \/ rec = Unexaminable(r)
  PROVE  Good(r)'
<1>t. TypeOK /\ r \in Requests /\ r \notin Sockets /\ Free \notin Requests
  BY RequestKinds DEF IInv, Requests, Http, Streams
<1>1. CASE AppendRaised(rec) /\ Abort(r) /\ UNCHANGED sent
  BY <1>t, <1>1, ObservationLearnt, AbortGood DEF Awaiting
<1>2. CASE /\ Appended(rec) /\ sent' = sent \cup {r} /\ Yield(r, "done")
           /\ UNCHANGED held
  <2>1. loop' = Free /\ pc'[r] = "done" /\ loop = Free /\ pc[r] \in {"waiting", "streaming"}
    BY <1>t, <1>2 DEF Yield, Goto, TypeOK, Awaiting
  <2>2. OneCall(r)' /\ Traced(r)'
    BY <1>t, <1>2, <2>1, ObservationLearnt DEF OneCall, Traced, Good
  <2>3. Withheld(r)'
    BY <1>t, <1>2, <2>1, ObservationLearnt DEF Withheld, Good
  <2>4. Released(r)'
    <3>1. \A op \in Ops : Allowed(r, op)' => Allowed(r, op)
      BY <1>t, <1>2, ObservationLearnt
    <3>2. Has(Unexaminable(r)) => Has(Unexaminable(r))'
      BY <1>t, <1>2, ObservationLearnt
    <3>3. rec = Unexaminable(r) => Has(Unexaminable(r))'
      BY <1>t, <1>2, ObservationLearnt
    <3>4. QED
      BY <1>t, <2>1, <3>1, <3>2, <3>3 DEF Released, Good, Live
  <2>5. Summed(r)'
    BY <1>t DEF Summed
  <2>6. QED
    BY <2>2, <2>3, <2>4, <2>5 DEF Good
<1>3. QED
  BY <1>1, <1>2 DEF RecordAndSend

\* A session whose handshake fails leaves a record and has no call.
LEMMA HandshakeGood ==
  ASSUME IInv, NEW r \in Requests, Good(r), HandshakeFails(r)
  PROVE  Good(r)'
<1>t. TypeOK /\ r \notin Http /\ Free \notin Requests
  BY RequestKinds DEF IInv, HandshakeFails, Http, Streams
<1>1. /\ r \in Sockets /\ loop = Free /\ loop' = Free /\ pc[r] = "new" /\ pc'[r] = "done"
      /\ UNCHANGED answerVars
  BY <1>t DEF HandshakeFails, Goto, TypeOK
<1>2. Appended(Observed(r)) \/ AppendRaised(Observed(r))
  BY DEF HandshakeFails
<1>3. OneCall(r)' /\ Traced(r)'
  BY <1>t, <1>1, <1>2, ObservationLearnt DEF OneCall, Traced, Good, Http, answerVars
<1>4. Withheld(r)'
  BY <1>t, <1>1, <1>2, ObservationLearnt DEF Withheld, Good, answerVars
<1>5. Released(r)'
  BY <1>t, <1>1 DEF Released, Http, Streams
<1>6. Summed(r)'
  <2>1. \A op \in Ops : Decided(r, op)' <=> Decided(r, op)
    BY <1>t, <1>2, ObservationLearnt
  <2>2. QED
    BY <1>1, <2>1 DEF Summed, Good
<1>7. QED
  BY <1>3, <1>4, <1>5, <1>6 DEF Good

\* Answers without calls, and answers that cannot be parsed.
LEMMA UnexaminedGood ==
  ASSUME IInv, NEW r \in Requests, Good(r), AnswerWithoutCalls(r) \/ Garbled(r)
  PROVE  Good(r)'
<1>t. TypeOK /\ Free \notin Requests
  BY RequestKinds DEF IInv
<1>1. CASE AnswerWithoutCalls(r)
  BY <1>1, RecordAndSendGood DEF AnswerWithoutCalls
<1>2. CASE Garbled(r) /\ r \notin Sockets
  <2> DEFINE rec == IF DeveloperMode THEN Observed(r) ELSE Unexaminable(r)
  <2>1. /\ r \in Http /\ rec \in {Observed(r), Unexaminable(r)}
        /\ r \in Plain \/ rec = Unexaminable(r)
    BY <1>2 DEF Garbled, Requests
  <2>2. RecordAndSend(r, rec) /\ Awaiting(r) /\ UNCHANGED <<counted, proposed>>
    BY <1>2 DEF Garbled
  <2>3. \A op \in Ops : ~(out'[r][op] > 0)
    BY <1>2, <1>t DEF Garbled, Nothing, TypeOK
  <2> HIDE DEF rec
  <2>4. QED
    BY <2>1, <2>2, <2>3, RecordAndSendGood
<1>3. CASE Garbled(r) /\ r \in Sockets
  <2>1. CASE AppendRaised(Unexaminable(r)) /\ Abort(r) /\ UNCHANGED counted
    <3>1. /\ UNCHANGED <<out, sent, proposed>> /\ pc[r] \notin {"done", "failed", "deciding"}
      BY <1>3 DEF Garbled, Awaiting
    <3>2. QED
      BY <1>t, <2>1, <3>1, ObservationLearnt, AbortGood
  <2>2. CASE /\ Appended(Unexaminable(r)) /\ counted' = [counted EXCEPT ![r] = @ + 1]
             /\ UNCHANGED <<groupVars, held, loop, pc>>
    <3>1. /\ counted'[r] = counted[r] + 1 /\ counted[r] \in Nat
          /\ UNCHANGED <<out, sent, proposed>> /\ loop = Free
          /\ pc[r] \in {"waiting", "streaming"}
      BY <1>3, <1>t, <2>2 DEF Garbled, Awaiting, TypeOK
    <3>2. r \notin Http
      BY <1>3, RequestKinds DEF Http, Streams
    <3>3. OneCall(r)' /\ Traced(r)'
      BY <1>t, <2>2, <3>1, <3>2, ObservationLearnt DEF OneCall, Traced, Good, Http
    <3>4. Withheld(r)'
      BY <1>t, <2>2, <3>1, ObservationLearnt DEF Withheld, Good
    <3>5. Released(r)'
      BY <1>t, <2>2, <3>1, <3>2 DEF Released, Http, Streams
    <3>6. Summed(r)'
      <4>1. /\ \A op \in Ops : Decided(r, op)' <=> Decided(r, op)
            /\ Has(Observed(r))' => Has(Observed(r))
        BY <1>t, <2>2, ObservationLearnt DEF Observed, Unexaminable
      <4>2. QED
        BY <2>2, <3>1, <4>1 DEF Summed, Good
    <3>7. QED
      BY <3>3, <3>4, <3>5, <3>6 DEF Good
  <2>3. QED
    BY <1>3, <2>1, <2>2 DEF Garbled
<1>4. QED
  BY <1>1, <1>2, <1>3

\* What one event of the provider completes.
LEMMA CompletableSets ==
  ASSUME TypeOK, NEW r \in Requests, NEW S \in Completable(r)
  PROVE  /\ S # {} /\ S \subseteq Ops
         /\ r \in Single => \E op \in Ops : S = {op}
         /\ r \in Chats => \A op \in Ops : proposed[r][op] = 0
<1>1. CASE r \in Plain \cup Chats
  <2>0. Completable(r) = WholeAnswer(r)
    BY <1>1, RequestKinds DEF Completable, Streams
  <2>1. S # {} /\ S \subseteq Ops /\ Fresh(r) = Ops
    BY <2>0 DEF WholeAnswer
  <2>2. r \notin Single
    BY <1>1, RequestKinds DEF Single, Streams
  <2>3. QED
    BY <2>1, <2>2 DEF Fresh
<1>2. CASE r \in Chunks
  <2>1. Completable(r) = ChunkCalls(r)
    BY <1>2, RequestKinds DEF Completable, Streams
  <2>2. r \notin Single /\ r \notin Chats
    BY <1>2, RequestKinds DEF Single
  <2>3. QED
    BY <2>1, <2>2 DEF ChunkCalls, Fresh
<1>3. CASE r \in Blocks
  BY <1>3, RequestKinds DEF Completable, OneBlock, Fresh, Streams
<1>4. CASE r \in Items
  BY <1>4, RequestKinds DEF Completable, ItemCalls, Streams
<1>5. CASE r \in Sockets
  BY <1>5, RequestKinds DEF Completable, SessionCalls, Streams
<1>6. QED
  BY <1>1, <1>2, <1>3, <1>4, <1>5 DEF Requests, Http, Streams

LEMMA CompleteGood ==
  ASSUME IInv, NEW r \in Requests, Good(r), NEW S \in SUBSET Ops, Complete(r, S)
  PROVE  Good(r)'
<1>t. TypeOK /\ Free \notin Requests
  BY RequestKinds DEF IInv
<1>1. /\ S # {}
      /\ r \in Single => \E op \in Ops : S = {op}
      /\ r \in Chats => \A op \in Ops : proposed[r][op] = 0
  BY <1>t, CompletableSets DEF Complete
<1>2. /\ UNCHANGED <<chain, faults, out, sent>> /\ todo' = S /\ group' = S /\ blocked' = {}
      /\ loop = Free /\ loop' = r /\ pc[r] \in {"waiting", "streaming"}
      /\ pc'[r] \in {"stat", "deciding"}
  BY <1>t DEF Complete, Awaiting, Goto, fileVars, TypeOK
<1>3. \A op \in Ops :
        /\ held'[r][op] = IF op \in S THEN held[r][op] + 1 ELSE held[r][op]
        /\ proposed'[r][op] = IF op \in S THEN proposed[r][op] + 1 ELSE proposed[r][op]
        /\ held[r][op] \in Nat /\ proposed[r][op] \in Nat
  BY <1>t DEF Complete, TypeOK
<1>4. r \in Sockets => counted'[r] = counted[r]
  <2>1. r \in Sockets => r \notin Http
    BY RequestKinds DEF Http, Streams
  <2>2. QED
    BY <1>t, <2>1 DEF Complete, TypeOK
<1>5. LearnsNothing(r) /\ (Recorded(r)' <=> Recorded(r))
  <2>1. LearnsNothing(r)
    BY <1>2, SameLearnsNothing
  <2>2. QED
    BY <2>1 DEF LearnsNothing, Recorded
<1>6. OneCall(r)'
  BY <1>1, <1>2 DEF OneCall
<1>7. Traced(r)'
  <2>1. \E op \in Ops : proposed'[r][op] > 0
    <3>1. PICK op \in S : TRUE
      BY <1>1
    <3>2. QED
      BY <1>3, <3>1
  <2>2. QED
    BY <1>1, <1>2, <1>4, <1>5, <2>1 DEF Traced, Good
<1>8. Withheld(r)'
  <2>1. \A op \in Ops : held'[r][op] > 0 => proposed'[r][op] > 0
    BY <1>3 DEF Good, Withheld
  <2>2. r \in Chats => \A op \in Ops : held'[r][op] > 0 => op \in S
    BY <1>1, <1>3 DEF Good, Withheld
  <2>3. r \in Apart => \A op \in Ops : out'[r][op] > 0 => Allowed(r, op)'
    BY <1>2, <1>5 DEF Good, Withheld, LearnsNothing
  <2>4. QED
    BY <1>2, <2>1, <2>2, <2>3 DEF Withheld
<1>9. Released(r)'
  BY <1>t, <1>2, <1>5 DEF Released, Good, LearnsNothing, Live
<1>10. Summed(r)'
  BY <1>t, <1>2, <1>4, <1>5 DEF Summed, Good, LearnsNothing
<1>11. QED
  BY <1>6, <1>7, <1>8, <1>9, <1>10 DEF Good

\* A decision moves its call out of what is open; the answer stays.
LEMMA DecideGood ==
  ASSUME IInv, NEW r \in Requests, Good(r), NEW op \in Ops, NEW gate, Decide(r, op, gate)
  PROVE  Good(r)'
<1> DEFINE verdict == Verdict(r, op, gate)
           rec == Decision(r, op, verdict, verdict = "ALLOW" /\ op \notin PolicyAllows)
<1>t. TypeOK /\ Free \notin Requests /\ todo \subseteq group
  BY RequestKinds DEF IInv, TypeOK
<1>1. /\ rec \in Records /\ rec.verdict = verdict
      /\ \A o \in Ops : IsDecision(rec, r, o) <=> o = op
      /\ rec # Observed(r) /\ rec # Unexaminable(r)
  BY <1>t, DecisionType DEF IsDecision, Decision, Observed, Unexaminable
<1>2. loop = r /\ pc[r] = "deciding" /\ op \in todo /\ UNCHANGED <<out, sent, counted, proposed>>
  BY DEF Decide
<1>3. verdict = "ALLOW" \/ Blocking(verdict)
  BY DEF Verdict, Blocking
<1>b. ~(verdict = "ALLOW" /\ Blocking(verdict))
  BY DEF Blocking
<1>4. \/ /\ Appended(rec) /\ todo' = todo \ {op}
         /\ blocked' = IF Blocking(verdict) THEN blocked \cup {op} ELSE blocked
         /\ UNCHANGED <<group, held, loop, pc>>
      \/ AppendRaised(rec) /\ Abort(r)
  BY DEF Decide
<1> HIDE DEF rec, verdict
<1>5. CASE AppendRaised(rec) /\ Abort(r)
  <2>1. Grown /\ ("written" \notin Faults => chain' = chain)
    BY <1>t, <1>1, <1>5, AppendType DEF AppendRaised
  <2>2. QED
    BY <1>2, <1>5, <2>1, AbortGood
<1>6. CASE /\ Appended(rec) /\ todo' = todo \ {op}
           /\ blocked' = IF Blocking(verdict) THEN blocked \cup {op} ELSE blocked
           /\ UNCHANGED <<group, held, loop, pc>>
  <2>1. Learns(r, rec) /\ faults' = faults
    BY <1>t, <1>1, <1>6, AppendLearns DEF Appended, TypeOK
  <2>2. /\ \A o \in Ops : Decided(r, o)' <=> Decided(r, o) \/ o = op
        /\ \A o \in Ops : Allowed(r, o)' <=> Allowed(r, o) \/ (o = op /\ verdict = "ALLOW")
        /\ Has(Observed(r))' <=> Has(Observed(r))
        /\ Has(Unexaminable(r))' <=> Has(Unexaminable(r))
    BY <1>1, <2>1 DEF Learns
  <2>3. OneCall(r)'
    BY <1>6 DEF OneCall, Good
  <2>4. Traced(r)'
    <3>1. Recorded(r)'
      BY <2>2 DEF Recorded
    <3>2. QED
      BY <1>2, <1>6, <3>1 DEF Traced, Good
  <2>5. Withheld(r)'
    BY <1>2, <1>3, <1>6, <2>2 DEF Withheld, Good
  <2>6. Released(r)'
    BY <1>t, <1>2, <1>3, <1>b, <1>6, <2>2 DEF Released, Good
  <2>7. Summed(r)'
    <3>1. r \in Sockets => todo = {op}
      BY <1>t, <1>2 DEF Good, OneCall, Single
    <3>2. QED
      BY <1>2, <1>6, <2>2, <3>1 DEF Summed, Good
  <2>8. QED
    BY <2>3, <2>4, <2>5, <2>6, <2>7 DEF Good
<1>7. QED
  BY <1>4, <1>5, <1>6

\* What goes out with an event was allowed, and nothing that was allowed stays
\* behind in an answer that is released block by block.
LEMMA ReleaseEventGood ==
  ASSUME IInv, NEW r \in Requests, Good(r), ReleaseEvent(r)
  PROVE  Good(r)'
<1>t. TypeOK /\ Free \notin Requests /\ r \notin Plain /\ blocked \subseteq group /\ group \subseteq Ops
  BY RequestKinds DEF IInv, TypeOK, ReleaseEvent
<1>1. /\ loop = r /\ loop' = Free /\ todo = {} /\ pc[r] = "deciding" /\ pc'[r] = "streaming"
      /\ UNCHANGED <<chain, faults, sent, proposed>>
  BY <1>t DEF ReleaseEvent, Yield, Goto, TypeOK, fileVars
<1>2. LearnsNothing(r) /\ (Recorded(r)' <=> Recorded(r))
  <2>1. LearnsNothing(r)
    BY <1>1, SameLearnsNothing
  <2>2. QED
    BY <2>1 DEF LearnsNothing, Recorded
<1>3. \A op \in Ops :
        /\ held[r][op] \in Nat /\ out[r][op] \in Nat
        /\ Buffered(r, op) = IF r \in Blocks /\ op \notin group THEN 0 ELSE held[r][op]
  BY <1>t DEF Buffered, TypeOK
<1>4. \/ /\ blocked = {}
         /\ \A op \in Ops :
              /\ out'[r][op] = out[r][op] + Buffered(r, op) + (IF op \in group THEN 1 ELSE 0)
              /\ held'[r][op] = held[r][op] - Buffered(r, op)
      \/ blocked # {} /\ out' = out /\ held' = held
  <2>1. CASE blocked = {}
    <3>1. out \in [Requests -> [Ops -> Nat]] /\ held \in [Requests -> [Ops -> Nat]]
      BY <1>t DEF TypeOK
    <3>2. /\ out'[r] = [op \in Ops |-> out[r][op] + Buffered(r, op) + (IF op \in group THEN 1 ELSE 0)]
          /\ held'[r] = [op \in Ops |-> held[r][op] - Buffered(r, op)]
      BY <2>1, <3>1 DEF ReleaseEvent
    <3>3. QED
      BY <2>1, <3>2
  <2>2. CASE blocked # {}
    BY <2>2 DEF ReleaseEvent
  <2>3. QED
    BY <2>1, <2>2
<1>5. /\ \A op \in Ops : held'[r][op] > 0 => held[r][op] > 0
      /\ \A op \in Ops : out'[r][op] > 0 =>
           out[r][op] > 0 \/ (blocked = {} /\ (op \in group \/ (r \notin Blocks /\ held[r][op] > 0)))
      /\ \A op \in Ops : out[r][op] > 0 => out'[r][op] > 0
      /\ blocked = {} => \A op \in group : out'[r][op] > 0
  BY <1>t, <1>3, <1>4
<1>6. OneCall(r)'
  BY <1>1 DEF OneCall
<1>7. r \in Sockets => counted'[r] = counted[r] + Cardinality(group) /\ counted[r] \in Nat
  BY <1>t DEF ReleaseEvent, TypeOK
<1>8. r \notin Sockets => counted'[r] = counted[r]
  BY <1>t DEF ReleaseEvent, TypeOK
<1>9. r \in Sockets => Cardinality(group) = 1 /\ Recorded(r)
  <2> SUFFICES ASSUME r \in Sockets PROVE Cardinality(group) = 1 /\ Recorded(r)
    OBVIOUS
  <2>1. PICK op \in Ops : group = {op}
    BY <1>1 DEF Good, OneCall, Single
  <2>2. Decided(r, op)
    BY <1>1, <2>1 DEF IInv, GroupDecided
  <2>3. QED
    BY <2>1, <2>2, FS_Singleton DEF Recorded
<1>10. Traced(r)'
  <2>1. r \in Sockets => r \notin Http
    BY RequestKinds DEF Http, Streams
  <2>2. QED
    BY <1>t, <1>1, <1>2, <1>8, <1>9, <2>1 DEF Traced, Good
<1>11. Withheld(r)'
  <2>1. \A op \in Ops : held'[r][op] > 0 => proposed'[r][op] > 0
    BY <1>1, <1>5 DEF Withheld, Good
  <2>2. blocked = {} => \A op \in group : Allowed(r, op)
    BY <1>t, <1>1 DEF Withheld, Good
  <2>3. r \in Apart /\ r \notin Blocks => \A op \in Ops : held[r][op] > 0 => op \in group
    BY <1>t, <1>1 DEF Withheld, Good, Apart
  <2>4. r \in Apart => \A op \in Ops : out'[r][op] > 0 => Allowed(r, op)
    BY <1>5, <2>2, <2>3 DEF Withheld, Good
  <2>5. QED
    BY <1>1, <1>2, <1>t, <2>1, <2>4 DEF Withheld, LearnsNothing
<1>12. Released(r)'
  <2>1. ASSUME r \in Blocks, NEW op \in Ops, Allowed(r, op)'
        PROVE  out'[r][op] > 0 \/ Has(Unexaminable(r))'
    <3>1. \/ out[r][op] > 0 \/ Has(Unexaminable(r)) \/ op \in group \ blocked
      BY <1>1, <1>2, <2>1 DEF Released, Good, LearnsNothing
    <3>2. PICK o \in Ops : group = {o}
      BY <1>1, <2>1 DEF Good, OneCall, Single
    <3>3. op \in group \ blocked => blocked = {}
      BY <1>t, <3>2
    <3>4. QED
      BY <1>2, <1>5, <3>1, <3>3 DEF LearnsNothing
  <2>2. QED
    BY <1>t, <1>1, <2>1 DEF Released
<1>13. Summed(r)'
  BY <1>1, <1>2, <1>7, <1>9 DEF Summed, Good, LearnsNothing
<1>14. QED
  BY <1>6, <1>10, <1>11, <1>12, <1>13 DEF Good

\* A body goes out without its denied calls, and with all the others.
LEMMA ReleaseBodyGood ==
  ASSUME IInv, NEW r \in Requests, Good(r), ReleaseBody(r)
  PROVE  Good(r)'
<1>t. /\ TypeOK /\ Free \notin Requests /\ group \subseteq Ops
      /\ r \in Plain /\ r \notin Sockets /\ r \notin Single
  BY RequestKinds DEF IInv, TypeOK, ReleaseBody, Single, Streams
<1>1. /\ loop = r /\ loop' = Free /\ todo = {} /\ pc[r] = "deciding" /\ pc'[r] = "done"
      /\ UNCHANGED <<chain, faults, counted, proposed>>
  BY <1>t DEF ReleaseBody, Yield, Goto, TypeOK, fileVars
<1>2. LearnsNothing(r) /\ (Recorded(r)' <=> Recorded(r))
  <2>1. LearnsNothing(r)
    BY <1>1, SameLearnsNothing
  <2>2. QED
    BY <2>1 DEF LearnsNothing, Recorded
<1>3. \A op \in Ops :
        out'[r][op] = (IF op \in group \ blocked THEN 1 ELSE 0) /\ ~(held'[r][op] > 0)
  BY <1>t DEF ReleaseBody, Nothing, TypeOK
<1>4. Recorded(r)
  <2>1. PICK op \in group : TRUE
    BY <1>t, <1>1 DEF Good, Traced
  <2>2. Decided(r, op)
    BY <1>t, <1>1, <2>1 DEF IInv, GroupDecided
  <2>3. QED
    BY <1>t, <2>1, <2>2 DEF Recorded
<1>5. OneCall(r)' /\ Traced(r)'
  BY <1>t, <1>1, <1>2, <1>4 DEF OneCall, Traced, Good
<1>6. Withheld(r)'
  <2>1. \A op \in Ops : out'[r][op] > 0 => Allowed(r, op)
    BY <1>1, <1>3 DEF Withheld, Good
  <2>2. QED
    BY <1>t, <1>1, <1>2, <1>3, <2>1 DEF Withheld, LearnsNothing
<1>7. Released(r)'
  <2>1. \A op \in Ops : Allowed(r, op) => Has(Unexaminable(r)) \/ op \in group \ blocked
    BY <1>t, <1>1 DEF Released, Good, Live
  <2>2. QED
    BY <1>t, <1>1, <1>2, <1>3, <2>1 DEF Released, LearnsNothing, Live
<1>8. Summed(r)'
  BY <1>t DEF Summed
<1>9. QED
  BY <1>5, <1>6, <1>7, <1>8 DEF Good

\* The ends of a request.
LEMMA EndGood ==
  ASSUME IInv, NEW r \in Requests, Good(r),
         CloseSession(r) \/ EndStream(r) \/ ProviderFails(r) \/ Hangup(r)
  PROVE  Good(r)'
<1>t. TypeOK /\ Free \notin Requests
  BY RequestKinds DEF IInv
<1>1. CASE ProviderFails(r) \/ Hangup(r)
  <2>1. /\ Abort(r) /\ pc[r] \in {"waiting", "streaming"}
        /\ UNCHANGED <<chain, out, sent, counted, proposed>>
    BY <1>1 DEF ProviderFails, Hangup, Awaiting, fileVars
  <2>2. Grown
    BY <2>1 DEF Grown
  <2>3. QED
    BY <2>1, <2>2, AbortGood
<1>2. CASE EndStream(r)
  <2>1. /\ UNCHANGED <<chain, faults, groupVars, held, out, counted, proposed, loop>>
        /\ r \in Streams /\ loop = Free /\ pc[r] = "streaming" /\ pc'[r] = "done"
        /\ counted[r] > 0
    BY <1>2, <1>t DEF EndStream, Goto, TypeOK, fileVars
  <2>2. /\ r \in Http /\ r \notin Sockets /\ r \notin Plain
    BY <2>1, RequestKinds DEF Http, Streams
  <2>3. LearnsNothing(r) /\ (Recorded(r)' <=> Recorded(r))
    <3>1. LearnsNothing(r)
      BY <2>1, SameLearnsNothing
    <3>2. QED
      BY <3>1 DEF LearnsNothing, Recorded
  <2>4. Recorded(r)
    <3>1. PICK op \in Ops : proposed[r][op] > 0
      BY <2>1, <2>2 DEF Good, Traced
    <3>2. Decided(r, op)
      BY <1>t, <2>1, <3>1 DEF IInv, ProposedDecided, InHand, Live
    <3>3. QED
      BY <3>2 DEF Recorded
  <2>5. OneCall(r)' /\ Traced(r)'
    BY <1>t, <2>1, <2>2, <2>3, <2>4 DEF OneCall, Traced, Good
  <2>6. Withheld(r)'
    BY <1>t, <2>1, <2>3 DEF Withheld, Good, LearnsNothing
  <2>7. Released(r)'
    BY <1>t, <2>1, <2>2, <2>3 DEF Released, Good, LearnsNothing, Live
  <2>8. Summed(r)'
    BY <2>2 DEF Summed
  <2>9. QED
    BY <2>5, <2>6, <2>7, <2>8 DEF Good
<1>3. CASE CloseSession(r)
  <2>1. /\ r \in Sockets /\ loop = r /\ loop' = Free /\ pc[r] = "closing" /\ pc'[r] = "done"
        /\ UNCHANGED answerVars
    BY <1>3, <1>t DEF CloseSession, Yield, Goto, TypeOK
  <2>2. r \notin Http /\ r \notin Apart
    BY <2>1, RequestKinds DEF Http, Streams, Apart
  <2>3. OneCall(r)' /\ Released(r)'
    BY <1>t, <2>1, <2>2 DEF OneCall, Released, Http, Streams
  <2>4. Withheld(r)'
    BY <1>t, <2>1, <2>2 DEF Withheld, Good, answerVars
  <2>5. CASE counted[r] = 0
    <3>1. Appended(Observed(r)) \/ AppendRaised(Observed(r))
      BY <1>3, <2>5 DEF CloseSession
    <3>2. Traced(r)'
      BY <1>t, <2>1, <2>2, <2>5, <3>1, ObservationLearnt DEF Traced, Good, Http, answerVars
    <3>3. Summed(r)'
      <4>1. \A op \in Ops : Decided(r, op)' <=> Decided(r, op)
        BY <1>t, <3>1, ObservationLearnt
      <4>2. QED
        BY <2>1, <2>5, <4>1 DEF Summed, Good, answerVars
    <3>4. QED
      BY <2>3, <2>4, <3>2, <3>3 DEF Good
  <2>6. CASE counted[r] # 0
    <3>1. UNCHANGED <<chain, faults>>
      BY <1>3, <2>6 DEF CloseSession, fileVars
    <3>2. LearnsNothing(r) /\ (Recorded(r)' <=> Recorded(r))
      <4>1. LearnsNothing(r)
        BY <3>1, SameLearnsNothing
      <4>2. QED
        BY <4>1 DEF LearnsNothing, Recorded
    <3>3. counted[r] > 0
      BY <1>t, <2>6 DEF TypeOK
    <3>4. Traced(r)'
      BY <2>1, <2>2, <3>1, <3>2, <3>3 DEF Traced, Good, Http, answerVars
    <3>5. Summed(r)'
      BY <2>1, <2>6, <3>2 DEF Summed, Good, LearnsNothing, answerVars
    <3>6. QED
      BY <2>3, <2>4, <3>4, <3>5 DEF Good
  <2>7. QED
    BY <2>5, <2>6
<1>4. QED
  BY <1>1, <1>2, <1>3

\* An operator's record says nothing of a request; a crash ends them all.
LEMMA OutsideGood ==
  ASSUME IInv, Operator \/ Crash, NEW q \in Requests, Good(q)
  PROVE  Good(q)'
<1>t. TypeOK /\ Free \notin Requests
  BY RequestKinds DEF IInv
<1>1. CASE Operator
  <2>1. PICK op \in Ops : Appended(Approval(op)) \/ Appended(Revocation(op))
    BY <1>1 DEF Operator
  <2>2. PICK rec \in Records : rec.kind \in {"approval", "revocation"} /\ Appended(rec)
    BY <2>1, RecordTypes DEF Approval, Revocation
  <2>3. Learns(q, rec)
    BY <1>t, <2>2, AppendLearns DEF Appended, TypeOK
  <2>4. LearnsNothing(q) /\ faults' = faults
    BY <2>2, <2>3, OtherRecord DEF Appended
  <2>5. Recorded(q)' <=> Recorded(q)
    BY <2>4 DEF LearnsNothing, Recorded
  <2>6. UNCHANGED <<groupVars, answerVars, loop, pc>>
    BY <1>1 DEF Operator
  <2>7. OneCall(q)' /\ Traced(q)'
    BY <2>4, <2>5, <2>6 DEF OneCall, Traced, Good, groupVars, answerVars
  <2>8. Withheld(q)' /\ Released(q)'
    BY <2>4, <2>6 DEF Withheld, Released, Good, LearnsNothing, groupVars, answerVars
  <2>9. Summed(q)'
    BY <2>4, <2>6 DEF Summed, Good, LearnsNothing, groupVars, answerVars
  <2>10. QED
    BY <2>7, <2>8, <2>9 DEF Good
<1>2. CASE Crash
  <2>1. UNCHANGED <<chain, faults, out, sent, counted, proposed>> /\ loop' = Free
    BY <1>2 DEF Crash, fileVars
  <2>2. LearnsNothing(q) /\ (Recorded(q)' <=> Recorded(q))
    <3>1. LearnsNothing(q)
      BY <2>1, SameLearnsNothing
    <3>2. QED
      BY <3>1 DEF LearnsNothing, Recorded
  <2>3. \/ pc[q] \in {"new", "done"} /\ pc'[q] = pc[q] /\ loop # q
        \/ pc[q] \notin {"new", "done"} /\ pc'[q] = "failed"
    BY <1>2, <1>t DEF Crash, IInv, LoopHolder
  <2>4. \A op \in Ops : ~(held'[q][op] > 0)
    BY <1>2 DEF Crash, Nothing
  <2>5. OneCall(q)' /\ Traced(q)'
    BY <1>t, <2>1, <2>2, <2>3 DEF OneCall, Traced, Good
  <2>6. Withheld(q)'
    BY <1>t, <2>1, <2>2, <2>4 DEF Withheld, Good, LearnsNothing
  <2>7. Released(q)'
    BY <1>t, <2>1, <2>2, <2>3 DEF Released, Good, LearnsNothing, Live
  <2>8. Summed(q)'
    BY <1>t, <2>1, <2>2, <2>3 DEF Summed, Good, LearnsNothing
  <2>9. QED
    BY <2>5, <2>6, <2>7, <2>8 DEF Good
<1>3. QED
  BY <1>1, <1>2

\* Every request is in order, in every state.
AllGood == \A q \in Requests : Good(q)

LEMMA GoodInit == Init => AllGood
<1> SUFFICES ASSUME Init, NEW q \in Requests PROVE Good(q)
  BY DEF AllGood
<1>1. /\ loop = Free /\ Free \notin Requests /\ chain = <<>> /\ Len(chain) = 0
      /\ sent = {} /\ counted[q] = 0 /\ pc[q] = "new"
  BY RequestKinds DEF Init
<1>2. \A op \in Ops : out[q][op] = 0 /\ held[q][op] = 0
  BY DEF Init, Nothing
<1>3. \A op \in Ops : ~Decided(q, op) /\ ~Allowed(q, op)
  BY <1>1 DEF Decided, Allowed
<1>4. ~Has(Observed(q))
  BY <1>1 DEF Has
<1>5. QED
  BY <1>1, <1>2, <1>3, <1>4 DEF Good, OneCall, Traced, Withheld, Released, Summed

LEMMA GoodNext == IInv /\ AllGood /\ [Next]_vars => AllGood'
<1> SUFFICES ASSUME IInv, AllGood, [Next]_vars, NEW q \in Requests PROVE Good(q)'
  BY DEF AllGood
<1>g. Good(q) /\ TypeOK
  BY DEF AllGood, IInv
<1>1. CASE UNCHANGED vars
  <2>1. LearnsNothing(q) /\ UNCHANGED <<loop, pc, faults, groupVars, answerVars>>
    BY <1>1, SameLearnsNothing DEF vars, fileVars
  <2>2. Recorded(q)' <=> Recorded(q)
    BY <2>1 DEF LearnsNothing, Recorded
  <2>3. OneCall(q)' /\ Traced(q)' /\ Withheld(q)'
    BY <1>g, <2>1, <2>2 DEF Good, OneCall, Traced, Withheld, LearnsNothing, groupVars, answerVars
  <2>4. Released(q)' /\ Summed(q)'
    BY <1>g, <2>1 DEF Good, Released, Summed, LearnsNothing, groupVars, answerVars
  <2>5. QED
    BY <2>3, <2>4 DEF Good
<1>2. CASE Operator \/ Crash
  BY <1>g, <1>2, OutsideGood
<1>3. ASSUME NEW r \in Requests, Begin(r) \/ Proceed(r) \/ Answer(r) \/ Hangup(r)
      PROVE  Good(q)'
  <2>1. CASE q # r
    <3>1. Elsewhere(r)
      BY <1>g, <1>3, EarlyElsewhere, AnswerElsewhere, LateElsewhere DEF Begin, Proceed, Answer
    <3>2. QED
      BY <1>g, <2>1, <3>1, ElsewhereUntouched, UntouchedGood
  <2>2. CASE q = r /\ Mediate(r)
    BY <1>g, <2>2, DecideGood DEF Mediate
  <2>3. CASE q = r /\ \E S \in SUBSET Ops : Complete(r, S)
    BY <1>g, <2>3, CompleteGood
  <2>4. CASE q = r /\ (StatStore(r) \/ LoadStore(r) \/ Send(r) \/ Open(r) \/ HandshakeFails(r))
    BY <1>g, <2>4, EarlyGood, HandshakeGood
  <2>5. CASE q = r /\ (AnswerWithoutCalls(r) \/ Garbled(r))
    BY <1>g, <2>5, UnexaminedGood
  <2>6. CASE q = r /\ (ReleaseEvent(r) \/ ReleaseBody(r))
    BY <1>g, <2>6, ReleaseEventGood, ReleaseBodyGood
  <2>7. CASE q = r /\ (CloseSession(r) \/ EndStream(r) \/ ProviderFails(r) \/ Hangup(r))
    BY <1>g, <2>7, EndGood
  <2>8. QED
    BY <1>3, <2>1, <2>2, <2>3, <2>4, <2>5, <2>6, <2>7 DEF Begin, Proceed, Answer
<1>4. QED
  BY <1>1, <1>2, <1>3 DEF Next

LEMMA GoodAlways == Spec => [](IInv /\ AllGood)
<1>1. Spec => []IInv
  BY Induction
<1>2. QED
  BY <1>1, GoodInit, GoodNext, PTL DEF Spec

\* QS-053 for every number of requests and failures: no HTTP answer goes out
\* without a record, and a session ends with one unless an append failed.
THEOREM ExchangesRecorded == Spec => []EveryExchangeRecorded
<1>1. IInv /\ AllGood => EveryExchangeRecorded
  BY DEF AllGood, Good, Traced, EveryExchangeRecorded, IInv, TypeOK, Requests
<1>2. QED
  BY <1>1, GoodAlways, PTL

\* Where each event goes out with its own calls only (a body, Anthropic's
\* blocks, a chat's single finish event), a call the agent receives was allowed
\* by some decision.  The other streams and the sessions are left out because
\* their shared buffer breaks this: run mediation_denied.
THEOREM DeniedWithheld ==
  Spec => [](\A r \in Apart, op \in Ops : Delivered(r, op) => Allowed(r, op))
<1>1. IInv /\ AllGood => \A r \in Apart, op \in Ops : Delivered(r, op) => Allowed(r, op)
  BY DEF AllGood, Good, Withheld, Delivered, Apart, Requests, Http, Streams
<1>2. QED
  BY <1>1, GoodAlways, PTL

\* The same, as the property that the run of these three kinds checks.
THEOREM DeniedWithheldApart ==
  ASSUME Items \cup Chunks \cup Sockets = {}
  PROVE  Spec => []DeniedCallWithheld
<1>1. IInv /\ AllGood => DeniedCallWithheld
  BY DEF AllGood, Good, Withheld, Delivered, DeniedCallWithheld, Apart, Requests, Http, Streams
<1>2. QED
  BY <1>1, GoodAlways, PTL

\* What the chain says was allowed reached the agent, in bodies and block by
\* block, unless the answer was refused as a whole.
THEOREM AllowedDelivered == Spec => []AllowedCallDelivered
<1>1. IInv /\ AllGood => AllowedCallDelivered
  <2> SUFFICES ASSUME IInv, AllGood, NEW r \in sent \cap (Plain \cup Blocks), NEW op \in Ops,
                      Allowed(r, op), ~Has(Unexaminable(r))
               PROVE  out[r][op] > 0
    BY DEF AllowedCallDelivered, Delivered
  <2>1. r \in Requests /\ pc[r] = "done"
    BY DEF IInv, SentDecided, Requests, Http, Streams
  <2>2. loop # r
    BY <2>1 DEF IInv, LoopHolder
  <2>3. QED
    BY <2>1, <2>2 DEF AllGood, Good, Released
<1>2. QED
  BY <1>1, GoodAlways, PTL

\* Where an append that raises has not written, a session whose record says it
\* had no calls decided none.  That an append can raise after its write is what
\* makes the hypothesis necessary.
THEOREM SummaryTrue ==
  ASSUME "written" \notin Faults
  PROVE  Spec => []SessionSummaryTrue
<1>1. IInv /\ AllGood => SessionSummaryTrue
  BY DEF AllGood, Good, Summed, SessionSummaryTrue, Requests
<1>2. QED
  BY <1>1, GoodAlways, PTL

-----------------------------------------------------------------------------
(* The approval store.  Every append moves the modification time, so a cache  *)
(* whose time is the file's holds what the chain holds; the store a handler    *)
(* took from it stays the one of some later prefix of the chain.               *)

\* The store of a prefix, and a record that a handler's store justifies.
ByHandler(rec) ==
  \E r \in Requests : /\ pc[r] = "deciding" /\ rec.fetchedAt = fetchedAt[r]
                      /\ rec.op \in store[r] <=> rec.byApproval

\* What a step does to the file when its clock tells two appends apart.
FileKept == UNCHANGED <<chain, mtime>>
FileTicked ==
  \E rec \in Records : /\ chain' = Append(chain, rec) /\ mtime' = mtime + 1
                       /\ ByStore(rec) => ByHandler(rec)

\* An append of a record that rests on no store.
LEMMA PlainAppend ==
  ASSUME ~CoarseClock, NEW rec \in Records, Appended(rec) \/ AppendRaised(rec),
         ByStore(rec) => ByHandler(rec)
  PROVE  FileKept \/ FileTicked
BY Zenon DEF Appended, AppendRaised, Ticks, FileKept, FileTicked

\* The records of observations and operators rest on no store.
LEMMA OthersByNoStore ==
  ASSUME NEW x
  PROVE  /\ ~ByStore(Observed(x)) /\ ~ByStore(Unexaminable(x))
         /\ ~ByStore(Approval(x)) /\ ~ByStore(Revocation(x))
BY DEF ByStore, Observed, Unexaminable, Approval, Revocation

\* Every step of a handler, of an operator, and a crash.
LEMMA FileSteps ==
  ASSUME ~CoarseClock, TypeOK, [Next]_vars
  PROVE  FileKept \/ FileTicked
<1>1. ASSUME NEW r \in Requests,
             \/ StatStore(r) \/ LoadStore(r) \/ Send(r) \/ Open(r)
             \/ (\E S \in SUBSET Ops : Complete(r, S)) \/ ReleaseEvent(r) \/ ReleaseBody(r)
             \/ EndStream(r) \/ ProviderFails(r) \/ Hangup(r)
      PROVE  FileKept
  BY <1>1 DEF StatStore, LoadStore, Send, Open, Complete, ReleaseEvent, ReleaseBody,
     EndStream, ProviderFails, Hangup, FileKept, fileVars
<1>2. ASSUME NEW r \in Requests,
             HandshakeFails(r) \/ CloseSession(r) \/ AnswerWithoutCalls(r) \/ Garbled(r)
      PROVE  FileKept \/ FileTicked
  <2>1. \/ FileKept
        \/ Appended(Observed(r)) \/ AppendRaised(Observed(r))
        \/ Appended(Unexaminable(r)) \/ AppendRaised(Unexaminable(r))
    BY <1>2 DEF HandshakeFails, CloseSession, AnswerWithoutCalls, Garbled, RecordAndSend,
       FileKept, fileVars
  <2>2. QED
    BY <2>1, PlainAppend, OthersByNoStore, RecordTypes
<1>3. ASSUME NEW r \in Requests, NEW op \in Ops, NEW gate, Decide(r, op, gate)
      PROVE  FileKept \/ FileTicked
  <2> DEFINE verdict == Verdict(r, op, gate)
             rec == Decision(r, op, verdict, verdict = "ALLOW" /\ op \notin PolicyAllows)
  <2>1. rec \in Records /\ pc[r] = "deciding" /\ (Appended(rec) \/ AppendRaised(rec))
    BY <1>3, DecisionType DEF Decide
  <2>2. ASSUME ByStore(rec) PROVE ByHandler(rec)
    <3>1. /\ rec.fetchedAt = fetchedAt[r] /\ rec.op = op /\ op \notin PolicyAllows
          /\ verdict # "INTEGRITY_ERROR"
          /\ rec.byApproval <=> verdict = "ALLOW" /\ op \notin PolicyAllows
      BY <2>2 DEF ByStore, Decision
    <3>2. verdict = "ALLOW" <=> op \in store[r]
      BY <3>1 DEF Verdict
    <3>3. QED
      BY <2>1, <3>1, <3>2 DEF ByHandler
  <2>3. QED
    <3> HIDE DEF rec
    <3>1. QED
      BY <2>1, <2>2, PlainAppend
<1>4. CASE Operator
  BY <1>4, PlainAppend, OthersByNoStore, RecordTypes DEF Operator
<1>5. CASE Crash \/ UNCHANGED vars
  BY <1>5 DEF Crash, vars, fileVars, FileKept
<1>6. QED
  BY <1>1, <1>2, <1>3, <1>4, <1>5 DEF Next, Begin, Proceed, Answer, Mediate

\* The cache is behind the file or holds what the file holds.
Coherent ==
  /\ cacheTime <= mtime /\ statTime <= mtime
  /\ cached /\ cacheTime = mtime => cache = Active(chain)

\* A handler past its request for the store holds that of a prefix of the chain
\* that was complete when it asked, or was written since.
StoreFrom(r) ==
  /\ pc[r] = "waiting" => r \in Plain
  /\ pc[r] = "load" => fetchedAt[r] <= Len(chain)
  /\ pc[r] \in {"streaming", "deciding"} =>
       \E n \in fetchedAt[r]..Len(chain) : store[r] = ActiveAfter(n)

StoreInv == Coherent /\ (\A r \in Requests : StoreFrom(r)) /\ StoreIsCurrent

\* The prefixes of the chain stay what they are.
LEMMA PrefixStays ==
  ASSUME chain \in Seq(Records), FileKept \/ FileTicked
  PROVE  /\ Len(chain) <= Len(chain')
         /\ \A n \in 0..Len(chain) : ActiveAfter(n)' = ActiveAfter(n)
         /\ \A i \in 1..Len(chain) : chain'[i] = chain[i]
<1>1. CASE FileKept
  BY <1>1 DEF FileKept, ActiveAfter, Active, Approval, Revocation
<1>2. ASSUME NEW rec \in Records, chain' = Append(chain, rec)
      PROVE  /\ Len(chain) <= Len(chain')
             /\ \A n \in 0..Len(chain) : ActiveAfter(n)' = ActiveAfter(n)
             /\ \A i \in 1..Len(chain) : chain'[i] = chain[i]
  <2>1. \A n \in 0..Len(chain) : SubSeq(Append(chain, rec), 1, n) = SubSeq(chain, 1, n)
    OBVIOUS
  <2>2. \A n \in 0..Len(chain) : ActiveAfter(n)' = ActiveAfter(n)
    BY <1>2, <2>1 DEF ActiveAfter, Active, Approval, Revocation
  <2>3. QED
    BY <1>2, <2>2
<1>3. QED
  BY <1>1, <1>2 DEF FileTicked

\* The whole chain is one of its prefixes.
LEMMA WholePrefix ==
  ASSUME chain \in Seq(Records)
  PROVE  ActiveAfter(Len(chain)) = Active(chain)
<1>1. SubSeq(chain, 1, Len(chain)) = chain
  OBVIOUS
<1>2. QED
  BY <1>1 DEF ActiveAfter

\* The cache changes only when it is loaded or lost.
LEMMA CacheSteps ==
  ASSUME TypeOK, [Next]_vars
  PROVE  \/ UNCHANGED cacheVars
         \/ \E r \in Requests : StatStore(r) \/ LoadStore(r)
         \/ cached' = FALSE /\ cacheTime' = 0 /\ statTime' = 0
<1>1. ASSUME NEW r \in Requests,
             \/ Begin(r) \/ Mediate(r) \/ ReleaseEvent(r) \/ ReleaseBody(r) \/ CloseSession(r)
             \/ Answer(r) \/ Hangup(r)
      PROVE  UNCHANGED cacheVars
  BY <1>1 DEF Begin, Send, Open, HandshakeFails, Mediate, Decide, ReleaseEvent, ReleaseBody,
     CloseSession, Answer, AnswerWithoutCalls, Garbled, EndStream, ProviderFails, Complete, Hangup
<1>2. CASE Operator \/ UNCHANGED vars
  BY <1>2 DEF Operator, vars
<1>3. CASE Crash
  BY <1>3, Zenon DEF Crash
<1>4. QED
  BY <1>1, <1>2, <1>3 DEF Next, Proceed

LEMMA CoherentNext ==
  ASSUME ~CoarseClock, TypeOK, Coherent, [Next]_vars
  PROVE  Coherent'
<1>t. mtime \in Nat /\ cacheTime \in Nat /\ statTime \in Nat
  BY DEF TypeOK
<1>f. FileKept \/ FileTicked
  BY FileSteps
<1>1. CASE UNCHANGED cacheVars
  <2>1. CASE FileKept
    BY <1>1, <2>1 DEF Coherent, FileKept, cacheVars, Active, Approval, Revocation
  <2>2. CASE FileTicked
    <3>1. mtime' = mtime + 1
      BY <2>2 DEF FileTicked
    <3>2. QED
      BY <1>t, <1>1, <3>1 DEF Coherent, cacheVars
  <2>3. QED
    BY <1>f, <2>1, <2>2
<1>2. ASSUME NEW r \in Requests, StatStore(r) PROVE Coherent'
  <2>1. /\ UNCHANGED <<chain, mtime, cache, cached, cacheTime>>
        /\ statTime' = mtime \/ statTime' = statTime
    BY <1>2, Zenon DEF StatStore, fileVars
  <2>2. QED
    BY <1>t, <2>1 DEF Coherent, Active, Approval, Revocation
<1>3. ASSUME NEW r \in Requests, LoadStore(r) PROVE Coherent'
  <2>1. /\ UNCHANGED <<chain, mtime>> /\ cache' = Active(chain)
        /\ cacheTime' = statTime /\ statTime' = 0
    BY <1>3 DEF LoadStore, fileVars
  <2>2. QED
    BY <1>t, <2>1 DEF Coherent, Active, Approval, Revocation
<1>4. CASE cached' = FALSE /\ cacheTime' = 0 /\ statTime' = 0
  <2>1. mtime' \in Nat
    BY <1>t, <1>f DEF FileKept, FileTicked
  <2>2. ~cached'
    BY <1>4, Zenon
  <2>3. cacheTime' <= mtime' /\ statTime' <= mtime'
    BY <1>4, <2>1
  <2>4. QED
    BY <2>2, <2>3 DEF Coherent
<1>5. QED
  BY <1>1, <1>2, <1>3, <1>4, CacheSteps

\* What a step leaves of the store a request holds.
StoreKept(q) ==
  /\ store'[q] = store[q] /\ fetchedAt'[q] = fetchedAt[q]
  /\ pc'[q] = "waiting" => pc[q] = "waiting" \/ q \in Plain
  /\ pc'[q] = "load" => pc[q] = "load"
  /\ pc'[q] \in {"streaming", "deciding"} => pc[q] \in {"streaming", "deciding"}

LEMMA StoreSteps ==
  ASSUME IInv, [Next]_vars, NEW q \in Requests, StoreFrom(q)
  PROVE  StoreKept(q) \/ StatStore(q) \/ LoadStore(q)
<1>t. TypeOK
  BY DEF IInv
<1>1. ASSUME NEW r \in Requests, Begin(r) \/ Proceed(r) \/ Answer(r) \/ Hangup(r),
             ~StatStore(r), ~LoadStore(r)
      PROVE  UNCHANGED storeVars
  BY <1>1 DEF Begin, Send, Open, HandshakeFails, Proceed, Mediate, Decide, ReleaseEvent,
     ReleaseBody, CloseSession, Answer, AnswerWithoutCalls, Garbled, EndStream, ProviderFails,
     Complete, Hangup
<1>2. ASSUME NEW r \in Requests \ {q}, Begin(r) \/ Proceed(r) \/ Answer(r) \/ Hangup(r)
      PROVE  StoreKept(q)
  <2>1. pc'[q] = pc[q]
    <3>1. Elsewhere(r)
      BY <1>t, <1>2, EarlyElsewhere, AnswerElsewhere, LateElsewhere DEF Begin, Proceed, Answer
    <3>2. QED
      BY <3>1 DEF Elsewhere
  <2>2. store'[q] = store[q] /\ fetchedAt'[q] = fetchedAt[q]
    <3>1. CASE StatStore(r) \/ LoadStore(r)
      <4>1. /\ store' = store \/ \E x : store' = [store EXCEPT ![r] = x]
            /\ fetchedAt' = fetchedAt \/ \E x : fetchedAt' = [fetchedAt EXCEPT ![r] = x]
        BY <3>1, Zenon DEF StatStore, LoadStore
      <4>2. QED
        BY <4>1, <1>t DEF TypeOK
    <3>2. CASE ~StatStore(r) /\ ~LoadStore(r)
      BY <1>1, <1>2, <3>2 DEF storeVars
    <3>3. QED
      BY <3>1, <3>2
  <2>3. QED
    BY <2>1, <2>2 DEF StoreKept
<1>3. ASSUME Begin(q) \/ Proceed(q) \/ Answer(q) \/ Hangup(q), ~StatStore(q), ~LoadStore(q)
      PROVE  StoreKept(q)
  <2>a. ASSUME Abort(q) PROVE pc'[q] \in {"closing", "failed"}
    BY <2>a, <1>t DEF Abort, Yield, Goto, TypeOK
  <2>b. ASSUME NEW rec, RecordAndSend(q, rec) PROVE pc'[q] \in {"closing", "failed", "done"}
    BY <2>a, <2>b, <1>t DEF RecordAndSend, Yield, Goto, TypeOK
  <2>1. CASE Begin(q)
    <3>1. (pc'[q] = "waiting" /\ q \in Plain) \/ pc'[q] \in {"stat", "done"}
      BY <2>1, <1>t DEF Begin, Send, Open, HandshakeFails, Goto, TypeOK
    <3>2. QED
      BY <1>1, <1>3, <3>1 DEF StoreKept, storeVars
  <2>2. CASE Proceed(q)
    <3>1. \/ pc'[q] = "done"
          \/ pc'[q] \in {"streaming", "deciding"} /\ pc[q] = "deciding"
          \/ pc'[q] \in {"closing", "failed"}
      BY <1>3, <2>a, <2>2, <1>t DEF Proceed, Mediate, Decide, ReleaseEvent, ReleaseBody,
         CloseSession, Yield, Goto, TypeOK
    <3>2. QED
      BY <1>1, <1>3, <3>1 DEF StoreKept, storeVars
  <2>3. CASE Answer(q) \/ Hangup(q)
    <3>1. CASE \E S \in SUBSET Ops : Complete(q, S)
      <4>1. pc[q] \in {"waiting", "streaming"} /\ pc'[q] = IF q \in Plain THEN "stat" ELSE "deciding"
        BY <3>1, <1>t DEF Complete, Awaiting, Goto, TypeOK
      <4>2. QED
        BY <1>1, <1>3, <4>1 DEF StoreKept, StoreFrom, storeVars
    <3>2. CASE ~\E S \in SUBSET Ops : Complete(q, S)
      <4>1. pc'[q] = pc[q] \/ pc'[q] \in {"closing", "failed", "done"}
        BY <2>3, <3>2, <2>a, <2>b, <1>t DEF Answer, Hangup, AnswerWithoutCalls, Garbled, EndStream,
           ProviderFails, Goto, TypeOK
      <4>2. QED
        BY <1>1, <1>3, <4>1 DEF StoreKept, storeVars
    <3>3. QED
      BY <3>1, <3>2
  <2>4. QED
    BY <1>3, <2>1, <2>2, <2>3
<1>4. CASE Operator \/ UNCHANGED vars
  BY <1>4 DEF Operator, vars, storeVars, StoreKept
<1>5. CASE Crash
  BY <1>5 DEF Crash, storeVars, StoreKept
<1>6. QED
  BY <1>2, <1>3, <1>4, <1>5 DEF Next

LEMMA StoreFromNext ==
  ASSUME ~CoarseClock, IInv, Coherent, [Next]_vars, NEW q \in Requests, StoreFrom(q)
  PROVE  StoreFrom(q)'
<1>t. /\ TypeOK /\ chain \in Seq(Records) /\ Len(chain) \in Nat /\ fetchedAt[q] \in Nat
  BY DEF IInv, TypeOK
<1>f. FileKept \/ FileTicked
  BY <1>t, FileSteps
<1>p. /\ Len(chain) <= Len(chain') /\ Len(chain') \in Nat
      /\ \A n \in 0..Len(chain) : ActiveAfter(n)' = ActiveAfter(n)
  <2>1. Len(chain') \in Nat
    BY <1>t, <1>f DEF FileKept, FileTicked
  <2>2. QED
    BY <1>t, <1>f, <2>1, PrefixStays
<1>1. CASE StoreKept(q)
  <2>1. pc'[q] = "load" => fetchedAt'[q] <= Len(chain')
    BY <1>t, <1>p, <1>1 DEF StoreKept, StoreFrom
  <2>2. ASSUME pc'[q] \in {"streaming", "deciding"}
        PROVE  \E n \in fetchedAt'[q]..Len(chain') : store'[q] = ActiveAfter(n)'
    <3>1. PICK n \in fetchedAt[q]..Len(chain) : store[q] = ActiveAfter(n)
      BY <1>1, <2>2 DEF StoreKept, StoreFrom
    <3>2. n \in fetchedAt[q]..Len(chain') /\ n \in 0..Len(chain)
      BY <1>t, <1>p
    <3>3. store'[q] = ActiveAfter(n)'
      BY <1>1, <1>p, <3>1, <3>2 DEF StoreKept
    <3>4. QED
      BY <1>1, <3>2, <3>3 DEF StoreKept
  <2>3. pc'[q] = "waiting" => q \in Plain
    BY <1>1 DEF StoreKept, StoreFrom
  <2>4. QED
    BY <2>1, <2>2, <2>3 DEF StoreFrom
<1>2. CASE StatStore(q) \/ LoadStore(q)
  <2>1. chain' = chain /\ pc'[q] \notin {"waiting"}
    BY <1>2, <1>t DEF StatStore, LoadStore, AfterFetch, Yield, Goto, fileVars, TypeOK
  <2>2. fetchedAt'[q] <= Len(chain) /\ fetchedAt'[q] \in Nat
    <3>1. fetchedAt'[q] = Len(chain) \/ (fetchedAt'[q] = fetchedAt[q] /\ pc[q] = "load")
      BY <1>2, <1>t DEF StatStore, LoadStore, TypeOK
    <3>2. QED
      BY <1>t, <3>1 DEF StoreFrom
  <2>3. pc'[q] \in {"streaming", "deciding"} => store'[q] = Active(chain)
    <3>1. CASE LoadStore(q)
      BY <1>t, <3>1 DEF LoadStore, TypeOK
    <3>2. CASE StatStore(q)
      <4>1. CASE mtime # cacheTime \/ ~cached
        BY <1>t, <3>2, <4>1 DEF StatStore, Goto, TypeOK
      <4>2. CASE ~(mtime # cacheTime \/ ~cached)
        BY <1>t, <3>2, <4>2 DEF StatStore, Coherent, TypeOK
      <4>3. QED
        BY <4>1, <4>2
    <3>3. QED
      BY <1>2, <3>1, <3>2
  <2>4. Active(chain) = ActiveAfter(Len(chain))'
    BY <1>t, <2>1, WholePrefix DEF ActiveAfter
  <2>5. pc'[q] \in {"streaming", "deciding"} =>
          \E n \in fetchedAt'[q]..Len(chain') : store'[q] = ActiveAfter(n)'
    BY <1>t, <2>1, <2>2, <2>3, <2>4
  <2>6. QED
    BY <2>1, <2>2, <2>5 DEF StoreFrom
<1>3. QED
  BY <1>1, <1>2, StoreSteps

\* A record keeps the prefix that justifies it, and a new one has the prefix of
\* the handler that writes it.
LEMMA CurrentNext ==
  ASSUME ~CoarseClock, TypeOK, \A r \in Requests : StoreFrom(r), StoreIsCurrent, [Next]_vars
  PROVE  StoreIsCurrent'
<1>t. chain \in Seq(Records) /\ Len(chain) \in Nat
  BY DEF TypeOK
<1>f. FileKept \/ FileTicked
  BY FileSteps
<1>p. /\ \A n \in 0..Len(chain) : ActiveAfter(n)' = ActiveAfter(n)
      /\ \A i \in 1..Len(chain) : chain'[i] = chain[i]
  BY <1>t, <1>f, PrefixStays
<1>1. ASSUME NEW i \in 1..Len(chain), ByStore(chain[i])
      PROVE  \E n \in chain[i].fetchedAt..(i-1) :
               (chain[i].op \in ActiveAfter(n)') <=> chain[i].byApproval
  <2>1. PICK n \in chain[i].fetchedAt..(i-1) :
          (chain[i].op \in ActiveAfter(n)) <=> chain[i].byApproval
    BY <1>1 DEF StoreIsCurrent
  <2>2. chain[i].fetchedAt \in Nat
    BY <1>t, <1>1 DEF ByStore, Records
  <2>3. n \in 0..Len(chain)
    BY <1>t, <2>1, <2>2
  <2>4. QED
    BY <1>p, <2>1, <2>3
<1>2. CASE FileKept
  BY <1>p, <1>1, <1>2 DEF FileKept, StoreIsCurrent, ByStore
<1>3. ASSUME NEW rec \in Records, chain' = Append(chain, rec), ByStore(rec) => ByHandler(rec)
      PROVE  StoreIsCurrent'
  <2>1. Len(chain') = Len(chain) + 1 /\ chain'[Len(chain) + 1] = rec
    BY <1>t, <1>3
  <2>2. ASSUME ByStore(rec)
        PROVE  \E n \in rec.fetchedAt..Len(chain) : (rec.op \in ActiveAfter(n)') <=> rec.byApproval
    <3>1. PICK r \in Requests : /\ pc[r] = "deciding" /\ rec.fetchedAt = fetchedAt[r]
                                /\ rec.op \in store[r] <=> rec.byApproval
      BY <1>3, <2>2 DEF ByHandler
    <3>2. PICK n \in fetchedAt[r]..Len(chain) : store[r] = ActiveAfter(n)
      BY <3>1 DEF StoreFrom
    <3>3. fetchedAt[r] \in Nat
      BY DEF TypeOK
    <3>4. n \in 0..Len(chain)
      BY <1>t, <3>2, <3>3
    <3>5. QED
      BY <1>p, <3>1, <3>2, <3>4
  <2>3. ASSUME NEW i \in 1..Len(chain'), ByStore(chain'[i])
        PROVE  \E n \in chain'[i].fetchedAt..(i-1) :
                 (chain'[i].op \in ActiveAfter(n)') <=> chain'[i].byApproval
    <3>1. CASE i \in 1..Len(chain)
      BY <1>p, <1>1, <2>3, <3>1
    <3>2. CASE i = Len(chain) + 1
      <4>1. chain'[i] = rec /\ i - 1 = Len(chain)
        BY <1>t, <2>1, <3>2
      <4>2. QED
        BY <2>2, <2>3, <4>1
    <3>3. QED
      BY <1>t, <2>1, <3>1, <3>2
  <2>4. QED
    BY <2>3 DEF StoreIsCurrent, ByStore
<1>4. QED
  BY <1>f, <1>2, <1>3 DEF FileTicked

LEMMA StoreInit == Init => StoreInv
<1> SUFFICES ASSUME Init PROVE StoreInv
  OBVIOUS
<1>1. ~cached
  BY Zenon DEF Init
<1>2. Coherent
  BY <1>1 DEF Init, Coherent
<1>3. \A r \in Requests : StoreFrom(r)
  BY DEF Init, StoreFrom
<1>4. StoreIsCurrent
  BY DEF Init, StoreIsCurrent
<1>5. QED
  BY <1>2, <1>3, <1>4 DEF StoreInv

\* On a file system whose clock tells two appends apart, a decision that rests
\* on the approvals is one that the chain justified at some moment between the
\* request for the store and the decision.
THEOREM StoreCurrent ==
  ASSUME ~CoarseClock
  PROVE  Spec => []StoreIsCurrent
<1>1. IInv /\ StoreInv /\ [Next]_vars => StoreInv'
  <2> SUFFICES ASSUME IInv, StoreInv, [Next]_vars PROVE StoreInv'
    OBVIOUS
  <2>1. TypeOK
    BY DEF IInv
  <2>2. Coherent'
    BY <2>1, CoherentNext DEF StoreInv
  <2>3. \A r \in Requests : StoreFrom(r)'
    BY StoreFromNext DEF StoreInv
  <2>4. StoreIsCurrent'
    BY <2>1, CurrentNext DEF StoreInv
  <2>5. QED
    BY <2>2, <2>3, <2>4 DEF StoreInv
<1>2. StoreInv => StoreIsCurrent
  BY DEF StoreInv
<1>3. QED
  BY <1>1, <1>2, StoreInit, Induction, PTL DEF Spec

=============================================================================
