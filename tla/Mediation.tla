------------------------------ MODULE Mediation ------------------------------
(***************************************************************************)
(* The proxy's release boundary: it forwards a request to a provider,      *)
(* decides every call the answer proposes, records each decision in the    *)
(* chain, and only then lets the agent have the answer.  One asyncio loop   *)
(* serves all requests; a handler gives the loop up only while it waits for *)
(* the provider.  Operators approve and revoke operations from other        *)
(* processes by appending to the same chain.                                *)
(*                                                                         *)
(* Abstractions.  A call is the request it belongs to and the operation it *)
(* proposes (the operation identity an approval names).  Of an answer only *)
(* the events that complete calls are kept: text and the fragments of a     *)
(* call that is still being assembled change nothing that is checked here. *)
(* What the agent has received is, per operation, how often it received the *)
(* event that completes the call; the text put in place of a denied call is *)
(* left out.  The chain's lock and hashes are the subject of DecisionChain; *)
(* here an append is one step that may fail.                               *)
(***************************************************************************)
EXTENDS Integers, Sequences, FiniteSets

CONSTANTS
  Plain,    \* requests answered by one JSON body, any provider
  Blocks,   \* Anthropic event streams: a buffer for every content block
  Chats,    \* OpenAI chat streams: one finish event completes every call
  Items,    \* OpenAI Responses streams: calls complete item by item
  Chunks,   \* Gemini streams: a chunk carries whole calls
  Sockets   \* OpenAI Responses sessions over a WebSocket

Streams == Blocks \cup Chats \cup Items \cup Chunks
Http == Plain \cup Streams
Requests == Http \cup Sockets

CONSTANTS
  Ops,            \* operation identities
  PolicyAllows,   \* operations the policy rules allow
  Gates,          \* what the quality gate may say
  DeveloperMode,  \* developer_mode_active()
  CoarseClock,    \* whether two appends may leave the same modification time
  Faults,         \* how an append may fail: before or after its write
  MaxFaults,      \* bound: failed appends
  MaxOperator,    \* bound: approvals and revocations
  MaxMessages,    \* bound: messages of a session that leave a record
  MaxCrashes,     \* bound: crashes of the proxy
  Free

ASSUME RequestKinds ==
  /\ Plain \cap (Streams \cup Sockets) = {}
  /\ Blocks \cap (Chats \cup Items \cup Chunks \cup Sockets) = {}
  /\ Chats \cap (Items \cup Chunks \cup Sockets) = {}
  /\ Items \cap (Chunks \cup Sockets) = {}
  /\ Chunks \cap Sockets = {}
  /\ Free \notin Requests
ASSUME FiniteOps == IsFiniteSet(Ops) /\ PolicyAllows \subseteq Ops
ASSUME GateValues == Gates \subseteq {"ok", "relaxable", "hard"}
ASSUME FaultValues == Faults \subseteq {"lost", "written"}
ASSUME Flags == DeveloperMode \in BOOLEAN /\ CoarseClock \in BOOLEAN
ASSUME MediationBounds ==
  {MaxFaults, MaxOperator, MaxMessages, MaxCrashes} \subseteq Nat

VARIABLES
  chain,      \* records of decision-chain.jsonl, in order
  mtime,      \* modification time of the file
  cache,      \* _approval_store: the approved operations
  cached,     \* _approval_store is not None
  cacheTime,  \* _approval_store_mtime
  loop,       \* the request whose handler runs, or Free
  statTime,   \* modification time a handler has read that is about to load
  todo,       \* calls of the current group still to be decided
  group,      \* calls that the current event or body completed
  blocked,    \* calls of the group whose record is blocking
  pc,         \* where each handler is
  store,      \* the approval store a handler holds
  held,       \* completing events in the collector's buffer, per operation
  out,        \* completing events put in the answer, per operation
  sent,       \* HTTP requests whose answer reached the agent
  counted,    \* tool_call_count, governed_record_count
  proposed,   \* how often the provider completed each operation
  fetchedAt,  \* history: length of the chain when the store was asked for
  faults, operator, crashes

fileVars == <<chain, mtime, faults>>
cacheVars == <<cache, cached, cacheTime, statTime>>
groupVars == <<todo, group, blocked>>
answerVars == <<held, out, sent, counted, proposed>>
storeVars == <<store, fetchedAt>>
vars == <<fileVars, cacheVars, groupVars, answerVars, storeVars, loop, pc,
          operator, crashes>>

-----------------------------------------------------------------------------
(* Records.                                                                *)

Approval(op) == [kind |-> "approval", op |-> op]
Revocation(op) == [kind |-> "revocation", op |-> op]
\* fetchedAt is history.
Decision(r, op, verdict, byApproval) ==
  [kind |-> "decision", req |-> r, op |-> op, verdict |-> verdict, byApproval |-> byApproval,
   fetchedAt |-> fetchedAt[r]]
Observed(r) == [kind |-> "observed", req |-> r]
Unexaminable(r) == [kind |-> "unexaminable", req |-> r]

Verdicts == {"ALLOW", "DENY", "INTEGRITY_ERROR"}
Records ==
  [kind : {"approval", "revocation"}, op : Ops]
  \cup [kind : {"decision"}, req : Requests, op : Ops, verdict : Verdicts,
        byApproval : BOOLEAN, fetchedAt : Nat]
  \cup [kind : {"observed", "unexaminable"}, req : Requests]

\* Events are processed in order; a later revocation overrides an approval.
Active(c) ==
  {op \in Ops : \E i \in 1..Len(c) :
                  /\ c[i] = Approval(op)
                  /\ \A j \in (i+1)..Len(c) : c[j] # Revocation(op)}

Ticks == IF CoarseClock THEN {mtime, mtime + 1} ELSE {mtime + 1}

\* Mutant: an exception of the append is swallowed.
AppendedOrNot(rec) ==
  /\ chain' \in {chain, Append(chain, rec)}
  /\ mtime' \in Ticks
  /\ UNCHANGED faults

\* append_atomic returned: the record is in the file.
Appended(rec) ==
  /\ chain' = Append(chain, rec)
  /\ mtime' \in Ticks
  /\ UNCHANGED faults

\* append_atomic raised, before the write or while it refreshed the checkpoint.
AppendRaised(rec) ==
  /\ faults < MaxFaults
  /\ faults' = faults + 1
  /\ \/ "lost" \in Faults /\ UNCHANGED <<chain, mtime>>
     \/ "written" \in Faults /\ chain' = Append(chain, rec) /\ mtime' \in Ticks

Goto(r, l) == pc' = [pc EXCEPT ![r] = l]
Yield(r, l) == loop' = Free /\ Goto(r, l)
Nothing == [op \in Ops |-> 0]
\* Mutant: the list of blocked calls outlives its event.
KeepBlocked == todo' = {} /\ group' = {} /\ UNCHANGED blocked

NoGroup == todo' = {} /\ group' = {} /\ blocked' = {}

\* Mutant: the handler of a failed request never returns.
AbortBusy(r) ==
  /\ NoGroup
  /\ held' = [held EXCEPT ![r] = Nothing]
  /\ loop' = r
  /\ Goto(r, IF r \in Sockets THEN "closing" ELSE "failed")

\* An exception ends an HTTP request with a 502 and a session with its finally.
Abort(r) ==
  /\ NoGroup
  /\ held' = [held EXCEPT ![r] = Nothing]
  /\ IF r \in Sockets THEN loop' = r /\ Goto(r, "closing") ELSE Yield(r, "failed")

-----------------------------------------------------------------------------
(* Asking for the approval store.                                          *)

\* Mutant: a stream waits for the provider without yielding.
FetchAndBlock(r) == loop' = r /\ Goto(r, IF r \in Plain THEN "deciding" ELSE "streaming")

AfterFetch(r) ==
  IF r \in Plain THEN loop' = r /\ Goto(r, "deciding") ELSE Yield(r, "streaming")

\* Mutant: the store is loaded once and kept.
KeepStore(r) ==
  /\ loop = r /\ pc[r] = "stat"
  /\ fetchedAt' = [fetchedAt EXCEPT ![r] = Len(chain)]
  /\ IF ~cached
     THEN statTime' = mtime /\ Goto(r, "load") /\ UNCHANGED <<loop, store>>
     ELSE UNCHANGED statTime /\ store' = [store EXCEPT ![r] = cache] /\ AfterFetch(r)
  /\ UNCHANGED <<fileVars, cache, cached, cacheTime, groupVars, answerVars, operator, crashes>>

StatStore(r) ==
  /\ loop = r /\ pc[r] = "stat"
  /\ fetchedAt' = [fetchedAt EXCEPT ![r] = Len(chain)]
  /\ IF mtime # cacheTime \/ ~cached
     THEN statTime' = mtime /\ Goto(r, "load") /\ UNCHANGED <<loop, store>>
     ELSE UNCHANGED statTime /\ store' = [store EXCEPT ![r] = cache] /\ AfterFetch(r)
  /\ UNCHANGED <<fileVars, cache, cached, cacheTime, groupVars, answerVars, operator, crashes>>

LoadStore(r) ==
  /\ loop = r /\ pc[r] = "load"
  /\ cache' = Active(chain) /\ cached' = TRUE
  /\ cacheTime' = statTime /\ statTime' = 0
  /\ store' = [store EXCEPT ![r] = Active(chain)]
  /\ AfterFetch(r)
  /\ UNCHANGED <<fileVars, groupVars, answerVars, fetchedAt, operator, crashes>>

-----------------------------------------------------------------------------
(* The beginning of a request.                                             *)

Send(r) ==
  /\ r \in Plain /\ loop = Free /\ pc[r] = "new"
  /\ Goto(r, "waiting")
  /\ UNCHANGED <<fileVars, cacheVars, groupVars, answerVars, storeVars, loop,
                 operator, crashes>>

\* Streams ask for the store before the provider answers, sessions after the
\* handshake.
Open(r) ==
  /\ r \in Streams \cup Sockets /\ loop = Free /\ pc[r] = "new"
  /\ loop' = r
  /\ Goto(r, "stat")
  /\ UNCHANGED <<fileVars, cacheVars, groupVars, answerVars, storeVars,
                 operator, crashes>>

\* A handshake that fails is recorded and answered with a 502.
HandshakeFails(r) ==
  /\ r \in Sockets /\ loop = Free /\ pc[r] = "new"
  /\ Appended(Observed(r)) \/ AppendRaised(Observed(r))
  /\ Goto(r, "done")
  /\ UNCHANGED <<cacheVars, groupVars, answerVars, storeVars, loop, operator, crashes>>

-----------------------------------------------------------------------------
(* What the provider answers.                                              *)

Awaiting(r) == loop = Free /\ pc[r] \in {"waiting", "streaming"}

\* Record first, then hand over what is not examined.
RecordAndSend(r, rec) ==
  \/ /\ Appended(rec)
     /\ sent' = sent \cup {r}
     /\ Yield(r, "done")
     /\ NoGroup
     /\ UNCHANGED held
  \/ /\ AppendRaised(rec)
     /\ Abort(r)
     /\ UNCHANGED sent

\* A non-200 answer, another endpoint, or an answer that proposes no call.
AnswerWithoutCalls(r) ==
  /\ r \in Http /\ Awaiting(r)
  /\ counted[r] = 0
  /\ RecordAndSend(r, Observed(r))
  /\ UNCHANGED <<cacheVars, out, counted, proposed, storeVars,
                 operator, crashes>>

\* An answer or event that cannot be parsed: refused, or in developer mode
\* passed on (a body with an observation, an event as it is).
Garbled(r) ==
  /\ Awaiting(r)
  /\ ~DeveloperMode \/ r \in Plain
  /\ IF r \in Sockets
     THEN /\ counted[r] < MaxMessages
          /\ \/ /\ Appended(Unexaminable(r))
                /\ counted' = [counted EXCEPT ![r] = @ + 1]
                /\ UNCHANGED <<groupVars, held, loop, pc>>
             \/ /\ AppendRaised(Unexaminable(r))
                /\ Abort(r)
                /\ UNCHANGED counted
          /\ UNCHANGED <<out, sent>>
     ELSE /\ RecordAndSend(r, IF DeveloperMode THEN Observed(r) ELSE Unexaminable(r))
          /\ out' = [out EXCEPT ![r] = Nothing]
          /\ UNCHANGED counted
  /\ UNCHANGED <<cacheVars, proposed, storeVars, operator, crashes>>

Fresh(r) == {op \in Ops : proposed[r][op] = 0}

\* A JSON body has all calls at once; a chat's finish event closes all of them.
WholeAnswer(r) == {S \in SUBSET Ops : S # {} /\ Fresh(r) = Ops}
\* A content block is one call.
OneBlock(r) == {{op} : op \in Fresh(r)}
\* A chunk carries any number of calls.
ChunkCalls(r) == (SUBSET Fresh(r)) \ {{}}
\* arguments.done and output_item.done both complete the call.
ItemCalls(r) == {{op} : op \in {o \in Ops : proposed[r][o] < 2}}
SessionCalls(r) == {{op} : op \in {o \in Ops : counted[r] < MaxMessages}}

\* The sets of calls one event of the provider can complete.
Completable(r) ==
  CASE r \in Plain \cup Chats -> WholeAnswer(r)
    [] r \in Blocks -> OneBlock(r)
    [] r \in Chunks -> ChunkCalls(r)
    [] r \in Items -> ItemCalls(r)
    [] r \in Sockets -> SessionCalls(r)

\* The event goes to the buffer and its calls have to be decided.
Complete(r, S) ==
  /\ Awaiting(r) /\ S \in Completable(r)
  /\ proposed' = [proposed EXCEPT ![r] = [op \in Ops |-> IF op \in S THEN @[op] + 1 ELSE @[op]]]
  /\ held' = [held EXCEPT ![r] = [op \in Ops |-> IF op \in S THEN @[op] + 1 ELSE @[op]]]
  /\ counted' = [counted EXCEPT ![r] = IF r \in Http THEN @ + Cardinality(S) ELSE @]
  /\ todo' = S /\ group' = S /\ blocked' = {}
  /\ loop' = r
  /\ Goto(r, IF r \in Plain THEN "stat" ELSE "deciding")
  /\ UNCHANGED <<fileVars, cacheVars, out, sent, storeVars, operator, crashes>>

-----------------------------------------------------------------------------
(* mediate_decision, and what becomes of the calls that were decided.      *)

Relaxed(gate) == gate = "relaxable" /\ DeveloperMode

Verdict(r, op, gate) ==
  IF gate # "ok" /\ ~Relaxed(gate) THEN "INTEGRITY_ERROR"
  ELSE IF op \in PolicyAllows \cup store[r] THEN "ALLOW" ELSE "DENY"

Blocking(verdict) == verdict \in {"DENY", "INTEGRITY_ERROR"}

Decide(r, op, gate) ==
  LET verdict == Verdict(r, op, gate)
      rec == Decision(r, op, verdict, verdict = "ALLOW" /\ op \notin PolicyAllows)
  IN  /\ loop = r /\ pc[r] = "deciding" /\ op \in todo
      /\ \/ /\ Appended(rec)
            /\ todo' = todo \ {op}
            /\ blocked' = IF Blocking(verdict) THEN blocked \cup {op} ELSE blocked
            /\ UNCHANGED <<group, held, loop, pc>>
         \/ AppendRaised(rec) /\ Abort(r)
      /\ UNCHANGED <<cacheVars, out, sent, counted, proposed, storeVars,
                     operator, crashes>>

\* Mutant: the Anthropic collector has one buffer too.
OneBuffer(r, op) == held[r][op]

\* get_buffered_events: the Anthropic collector keeps a buffer for each block,
\* the others one for the whole stream.
Buffered(r, op) == IF r \in Blocks /\ op \notin group THEN 0 ELSE held[r][op]

\* Mutant: only the first completed call of an event is classified.
ReleaseAfterFirst(r) ==
  /\ r \in Streams \cup Sockets /\ loop = r /\ pc[r] = "deciding" /\ todo # group
  /\ out' = IF blocked = {}
            THEN [out EXCEPT ![r] = [op \in Ops |-> @[op] + Buffered(r, op)]] ELSE out
  /\ NoGroup
  /\ Yield(r, "streaming")
  /\ UNCHANGED <<fileVars, cacheVars, held, sent, counted, proposed,
                 storeVars, operator, crashes>>

\* An event whose calls all passed goes out after everything in the buffer,
\* which already holds it; otherwise only denials go out and the buffer stays.
ReleaseEvent(r) ==
  /\ r \in Streams \cup Sockets /\ loop = r /\ pc[r] = "deciding" /\ todo = {}
  /\ IF blocked = {}
     THEN /\ out' = [out EXCEPT ![r] =
                       [op \in Ops |-> @[op] + Buffered(r, op) + (IF op \in group THEN 1 ELSE 0)]]
          /\ held' = [held EXCEPT ![r] = [op \in Ops |-> @[op] - Buffered(r, op)]]
     ELSE UNCHANGED <<out, held>>
  /\ counted' = [counted EXCEPT ![r] = IF r \in Sockets THEN @ + Cardinality(group) ELSE @]
  /\ NoGroup
  /\ Yield(r, "streaming")
  /\ UNCHANGED <<fileVars, cacheVars, sent, proposed, storeVars,
                 operator, crashes>>

\* Mutant: one denial replaces the whole body.
ReplaceBody(r) ==
  /\ r \in Plain /\ loop = r /\ pc[r] = "deciding" /\ todo = {}
  /\ out' = [out EXCEPT ![r] =
               [op \in Ops |-> IF op \in group /\ blocked = {} THEN 1 ELSE 0]]
  /\ held' = [held EXCEPT ![r] = Nothing]
  /\ sent' = sent \cup {r}
  /\ NoGroup
  /\ Yield(r, "done")
  /\ UNCHANGED <<fileVars, cacheVars, counted, proposed, storeVars,
                 operator, crashes>>

\* govern_provider_response: the denied calls are cut out of the body.
ReleaseBody(r) ==
  /\ r \in Plain /\ loop = r /\ pc[r] = "deciding" /\ todo = {}
  /\ out' = [out EXCEPT ![r] = [op \in Ops |-> IF op \in group \ blocked THEN 1 ELSE 0]]
  /\ held' = [held EXCEPT ![r] = Nothing]
  /\ sent' = sent \cup {r}
  /\ NoGroup
  /\ Yield(r, "done")
  /\ UNCHANGED <<fileVars, cacheVars, counted, proposed, storeVars,
                 operator, crashes>>

-----------------------------------------------------------------------------
(* The end of a request.                                                   *)

\* Mutant: the stream goes out while its first calls are being decided.
SendEarly(r) ==
  /\ r \in Streams /\ loop \in {Free, r} /\ pc[r] \in {"streaming", "deciding"}
  /\ counted[r] > 0
  /\ sent' = sent \cup {r}
  /\ UNCHANGED <<fileVars, cacheVars, groupVars, held, out, counted, proposed,
                 storeVars, loop, pc, operator, crashes>>

\* The stream has ended and the agent receives all of it.
EndStream(r) ==
  /\ r \in Streams /\ loop = Free /\ pc[r] = "streaming"
  /\ counted[r] > 0
  /\ sent' = sent \cup {r}
  /\ Goto(r, "done")
  /\ UNCHANGED <<fileVars, cacheVars, groupVars, held, out, counted, proposed,
                 storeVars, loop, operator, crashes>>

\* The connection to the provider times out or breaks.
ProviderFails(r) ==
  /\ r \in Http /\ Awaiting(r)
  /\ Abort(r)
  /\ UNCHANGED <<fileVars, cacheVars, out, sent, counted, proposed,
                 storeVars, operator, crashes>>

\* Either side closes the session, or its connection breaks.
Hangup(r) ==
  /\ r \in Sockets /\ loop = Free /\ pc[r] = "streaming"
  /\ Abort(r)
  /\ UNCHANGED <<fileVars, cacheVars, out, sent, counted, proposed,
                 storeVars, operator, crashes>>

\* Mutant: the finally does not look at governed_record_count.
AlwaysObserve(r) ==
  /\ r \in Sockets /\ loop = r /\ pc[r] = "closing"
  /\ Appended(Observed(r))
  /\ Yield(r, "done")
  /\ UNCHANGED <<cacheVars, groupVars, answerVars, storeVars, operator, crashes>>

\* The finally of a session: one record, if no call of it was recorded.
CloseSession(r) ==
  /\ r \in Sockets /\ loop = r /\ pc[r] = "closing"
  /\ IF counted[r] = 0
     THEN Appended(Observed(r)) \/ AppendRaised(Observed(r))
     ELSE UNCHANGED fileVars
  /\ Yield(r, "done")
  /\ UNCHANGED <<cacheVars, groupVars, answerVars, storeVars, operator, crashes>>

-----------------------------------------------------------------------------
(* Operators and crashes.                                                  *)

\* atested approve, atested revoke, and the dashboard's two handlers.
Operator ==
  /\ operator < MaxOperator
  /\ operator' = operator + 1
  /\ \E op \in Ops : Appended(Approval(op)) \/ Appended(Revocation(op))
  /\ UNCHANGED <<cacheVars, groupVars, answerVars, storeVars, loop, pc, crashes>>

\* The proxy dies and is started again: every connection is gone.
Crash ==
  /\ crashes < MaxCrashes
  /\ crashes' = crashes + 1
  /\ loop' = Free /\ cache' = {} /\ cached' = FALSE /\ cacheTime' = 0 /\ statTime' = 0
  /\ pc' = [r \in Requests |-> IF pc[r] \in {"new", "done"} THEN pc[r] ELSE "failed"]
  /\ held' = [r \in Requests |-> Nothing]
  /\ NoGroup
  /\ UNCHANGED <<fileVars, out, sent, counted, proposed,
                 storeVars, operator>>

-----------------------------------------------------------------------------

Init ==
  /\ chain = <<>> /\ mtime = 0
  /\ cache = {} /\ cached = FALSE /\ cacheTime = 0 /\ statTime = 0
  /\ loop = Free
  /\ todo = {} /\ group = {} /\ blocked = {}
  /\ pc = [r \in Requests |-> "new"]
  /\ store = [r \in Requests |-> {}]
  /\ held = [r \in Requests |-> Nothing]
  /\ out = [r \in Requests |-> Nothing]
  /\ sent = {}
  /\ counted = [r \in Requests |-> 0]
  /\ proposed = [r \in Requests |-> Nothing]
  /\ fetchedAt = [r \in Requests |-> 0]
  /\ faults = 0 /\ operator = 0 /\ crashes = 0

Mediate(r) == \E op \in Ops, gate \in Gates : Decide(r, op, gate)
Proceed(r) ==
  \/ StatStore(r) \/ LoadStore(r) \/ Mediate(r)
  \/ ReleaseEvent(r) \/ ReleaseBody(r) \/ CloseSession(r)
Begin(r) == Send(r) \/ Open(r) \/ HandshakeFails(r)
\* The provider's timeout makes one of these happen.
Answer(r) ==
  \/ AnswerWithoutCalls(r) \/ Garbled(r) \/ EndStream(r) \/ ProviderFails(r)
  \/ \E S \in SUBSET Ops : Complete(r, S)

Next ==
  \/ \E r \in Requests : Begin(r) \/ Proceed(r) \/ Answer(r) \/ Hangup(r)
  \/ Operator \/ Crash

Spec == Init /\ [][Next]_vars

\* The handler that has the loop runs on, and the provider answers or times
\* out: httpx is given a timeout.  No session is forced to end.
Fairness ==
  \A r \in Requests : WF_vars(Proceed(r)) /\ (r \in Http => WF_vars(Answer(r)))
FairSpec == Spec /\ Fairness

-----------------------------------------------------------------------------
(* Properties.                                                             *)

\* Every variable keeps its type.
TypeOK ==
  /\ chain \in Seq(Records) /\ mtime \in Nat
  /\ cache \subseteq Ops /\ cached \in BOOLEAN
  /\ cacheTime \in Nat /\ statTime \in Nat
  /\ loop \in Requests \cup {Free}
  /\ group \subseteq Ops /\ todo \subseteq group /\ blocked \subseteq group
  /\ pc \in [Requests -> {"new", "waiting", "stat", "load", "streaming",
                          "deciding", "closing", "done", "failed"}]
  /\ store \in [Requests -> SUBSET Ops]
  /\ held \in [Requests -> [Ops -> Nat]] /\ out \in [Requests -> [Ops -> Nat]]
  /\ proposed \in [Requests -> [Ops -> Nat]]
  /\ counted \in [Requests -> Nat] /\ fetchedAt \in [Requests -> Nat]
  /\ sent \subseteq Http
  /\ faults \in Nat /\ operator \in Nat /\ crashes \in Nat

IsDecision(rec, r, op) == rec.kind = "decision" /\ rec.req = r /\ rec.op = op
Decided(r, op) == \E i \in 1..Len(chain) : IsDecision(chain[i], r, op)
Allowed(r, op) ==
  \E i \in 1..Len(chain) : IsDecision(chain[i], r, op) /\ chain[i].verdict = "ALLOW"
Has(rec) == \E i \in 1..Len(chain) : chain[i] = rec
Recorded(r) ==
  Has(Observed(r)) \/ Has(Unexaminable(r)) \/ \E op \in Ops : Decided(r, op)

\* A session's messages reach the agent one by one, an HTTP answer as a whole.
Delivered(r, op) == out[r][op] > 0 /\ (r \in Sockets \/ r \in sent)

\* INV-001: the agent never holds a complete call of which the chain has no
\* decision, whatever the provider sent, an append did, or the proxy survived.
DeliveredCallWasDecided ==
  \A r \in Requests, op \in Ops : Delivered(r, op) => Decided(r, op)

\* No part of an HTTP answer reaches the agent while a call that the provider
\* completed in it is undecided (_handle_client on fully buffered streams).
WholeAnswerDecided ==
  \A r \in sent, op \in Ops : proposed[r][op] > 0 => Decided(r, op)

\* A call reaches the agent only if some decision on it was ALLOW: a denied
\* call is replaced, not delivered (build_denial_events, apply_denials).
DeniedCallWithheld ==
  \A r \in Requests, op \in Ops : Delivered(r, op) => Allowed(r, op)

\* What the chain says was allowed did reach the agent, in the answers that
\* are released call by call and were not refused as a whole.
AllowedCallDelivered ==
  \A r \in sent \cap (Plain \cup Blocks), op \in Ops :
    Allowed(r, op) /\ ~Has(Unexaminable(r)) => Delivered(r, op)

\* Every exchange leaves a record: an HTTP answer before the agent has it, a
\* session by its end, unless an append failed (QS-053).
EveryExchangeRecorded ==
  /\ \A r \in sent : Recorded(r)
  /\ \A r \in Sockets : pc[r] = "done" /\ faults = 0 => Recorded(r)

\* A session whose record says it contained no tool calls has no decision.
SessionSummaryTrue ==
  \A r \in Sockets, op \in Ops : Has(Observed(r)) => ~Decided(r, op)

ActiveAfter(n) == Active(SubSeq(chain, 1, n))
ByStore(rec) == rec.kind = "decision" /\ rec.op \notin PolicyAllows /\ rec.verdict # "INTEGRITY_ERROR"

\* A decision that rests on the approval store is one that some state of the
\* chain between the request for the store and the decision justifies: the
\* cache is never older than the request, approvals and revocations alike.
StoreIsCurrent ==
  \A i \in 1..Len(chain) : ByStore(chain[i]) =>
    \E n \in chain[i].fetchedAt..(i-1) :
      (chain[i].op \in ActiveAfter(n)) <=> chain[i].byApproval

\* An HTTP request that was taken up ends, with an answer or with an error.
HttpRequestEnds ==
  \A r \in Http : pc[r] # "new" ~> pc[r] \in {"done", "failed"}

\* A handler that runs gives the loop back, so that one request cannot keep
\* the others waiting for ever.
LoopIsGivenBack == loop # Free ~> loop = Free

=============================================================================
