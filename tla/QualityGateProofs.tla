------------------------- MODULE QualityGateProofs -------------------------
(***************************************************************************)
(* Proofs about QualityGate, for any rules, queue, tail and bounds.         *)
(*                                                                          *)
(* The memory of the service and the snapshot the gate reads are about      *)
(* records of the decision chain, which only grows: Kept, Reading, Judged   *)
(* and Shown say what the service read, verified and showed of it.  Looks   *)
(* is about the rules, Ages about the gate's count of heartbeats.           *)
(***************************************************************************)
EXTENDS QualityGate, FiniteSetTheorems, WellFoundedInduction, TLAPS

-----------------------------------------------------------------------------
(* The invariant *)

Resting == {"idle", "stat", "drained"}

\* The fields of the records.
QaShape(q) ==
  q = [latest |-> q.latest, pos |-> q.pos, gap |-> q.gap, stale |-> q.stale,
       empty |-> q.empty, low |-> q.low, archives |-> q.archives]
ServiceShape(s) ==
  s = [pc |-> s.pc, mode |-> s.mode, stat |-> s.stat, offset |-> s.offset,
       records |-> s.records, conditions |-> s.conditions,
       fingerprint |-> s.fingerprint, idle |-> s.idle,
       verified |-> s.verified, skipped |-> s.skipped]
Shapes ==
  /\ approval = [record |-> approval.record, old |-> approval.old]
  /\ proxy = [pc |-> proxy.pc, mem |-> proxy.mem, expected |-> proxy.expected]
  /\ ServiceShape(service) /\ QaShape(qa)
  /\ gate = [last |-> gate.last, since |-> gate.since]

\* The chain: an approval is recorded before it is used, and only decisions are
\* by an old one.
Entries ==
  [kind : {"loaded", "approval", "decision"}, hash : Places \cup {None}, via : Nat, old : BOOLEAN]
Kept ==
  /\ chain \in Seq(Entries) /\ Len(chain) <= MaxChain
  /\ \A i \in DOMAIN chain : /\ chain[i].via \in 0..(i - 1)
                             /\ chain[i].old => chain[i].kind = "decision"

Proxies ==
  /\ disk \in Rules /\ edits \in 0..MaxEdits
  /\ approval.record \in 0..Len(chain)
  /\ proxy.pc \in {"down", "recorded", "loaded", "up"}
  /\ proxy.mem \in Rules \cup {None} /\ proxy.expected \in Rules \cup {None}
  /\ proxy.pc \in {"loaded", "up"} => proxy.mem \in Rules
Flags == approval.old \in BOOLEAN /\ event \in BOOLEAN /\ looked \in BOOLEAN

\* The records the service read, some of them twice: a record that comes for the
\* first time comes after its predecessor.
Last(records) == IF Len(records) = 0 THEN 0 ELSE records[Len(records)]
InOrder(records) ==
  /\ records \in Seq(Nat)
  /\ Len(records) > 0 => records[1] = 1
  /\ \A k \in 2..Len(records) :
       records[k] = records[k - 1] + 1 \/ \E j \in 1..(k - 1) : records[j] = records[k]
  /\ \A i \in 1..Last(records) : \E k \in DOMAIN records : records[k] = i
Reading ==
  /\ service.pc \in {"down", "starting"} \cup Resting
  /\ service.offset \in 0..Len(chain) /\ service.stat \in 0..Len(chain)
  /\ service.pc = "stat" => service.offset <= service.stat
  /\ service.pc # "down" => /\ InOrder(service.records)
                           /\ Last(service.records) \in service.offset..Len(chain)

\* What it made of them.
Judged ==
  /\ service.verified \cup service.skipped \subseteq 1..Len(chain)
  /\ service.pc \in Resting => \A i \in 1..service.offset :
       /\ IsDecision(i) => i \in service.verified \cup service.skipped
       /\ chain[i].old => i \in service.skipped \/ "CR-CRIT-007" \in service.conditions
  /\ \A c \in service.conditions : c = "CR-CRIT-007" /\ \E i \in DOMAIN chain : chain[i].old

\* What it showed of them.
Chained == qa.latest \in Snapshots \cup {None} /\ qa.pos \in -1..1 /\ qa.gap \in 0..TailRecords
Shown == qa.latest # None =>
  /\ qa.latest.judged <= Len(chain)
  /\ qa.latest.conditions = {} => \A i \in 1..qa.latest.judged : chain[i].old => i \in service.skipped

\* The latest snapshot has the rules of the last look at them.
Looks == qa.latest # None =>
  /\ looked => qa.latest.rules = disk
  /\ service.pc # "down" => qa.latest.rules = service.fingerprint.rules

\* The gate's count is not behind the time since it first read the snapshot.
Ages ==
  /\ gate.since \in 0..StaleCycles /\ seen \in -1..StaleCycles
  /\ seen >= 0 => gate.last /\ qa.pos # 1 /\ proxy.pc = "up" /\ seen <= gate.since

IInv ==
  /\ GateConstants
  /\ Shapes /\ Kept /\ Proxies /\ Flags /\ Reading /\ Judged /\ Chained /\ Shown /\ Looks /\ Ages

-----------------------------------------------------------------------------
(* Numbers and links *)

\* A set of natural numbers that is not empty has a least element.
LEMMA LeastNumber ==
  ASSUME NEW T \in SUBSET Nat, T # {}
  PROVE  \E x \in T : \A y \in T : x <= y
<1> DEFINE Below == OpToRel(<, Nat)
<1>1. IsWellFoundedOn(Below, Nat)
  BY NatLessThanWellFounded
<1>2. \A x, y \in Nat : x < y => <<x, y>> \in Below
  BY DEF OpToRel
<1> HIDE DEF Below
<1>3. \E x \in T : \A y \in T : ~(<<y, x>> \in Below)
  BY <1>1, WFMin
<1>4. PICK x \in T : \A y \in T : ~(<<y, x>> \in Below)
  BY <1>3
<1>5. ASSUME NEW y \in T PROVE x <= y
  <2>1. x \in Nat /\ y \in Nat /\ ~(y < x)
    BY <1>2, <1>4
  <2>2. QED
    BY <2>1
<1>6. QED
  BY <1>5

\* Of records in order, structural_integrity finds each one's link.
LEMMA LinksHold ==
  ASSUME NEW records, InOrder(records), NEW i \in 1..Last(records)
  PROVE  LinkHolds(records, i)
<1>0. records \in Seq(Nat) /\ Len(records) \in Nat /\ DOMAIN records = 1..Len(records)
  BY DEF InOrder
<1> DEFINE T == {k \in DOMAIN records : records[k] = i}
           First(k) == records[k] = i /\ \A j \in DOMAIN records : records[j] = i => k <= j
           at == CHOOSE k \in DOMAIN records : First(k)
<1>1. T \in SUBSET Nat /\ T # {}
  BY <1>0 DEF InOrder
<1>2. \E k \in DOMAIN records : First(k)
  <2>1. PICK k \in T : \A j \in T : k <= j
    <3> HIDE DEF T
    <3>1. QED
      BY <1>1, LeastNumber
  <2>2. QED
    BY <2>1
<1>3. at \in DOMAIN records /\ First(at)
  <2> HIDE DEF First
  <2>1. QED
    BY <1>2
<1> HIDE DEF at
<1>4. at = 1 => i = 1
  BY <1>0, <1>3 DEF InOrder
<1>5. ASSUME at # 1 PROVE records[at - 1] = i - 1
  <2>1. at \in 2..Len(records) /\ at \in Nat
    BY <1>0, <1>3, <1>5
  <2>2. ~ \E j \in 1..(at - 1) : records[j] = records[at]
    BY <1>0, <1>3, <2>1
  <2>3. records[at] = records[at - 1] + 1
    BY <2>1, <2>2 DEF InOrder
  <2>4. records[at - 1] \in Nat /\ records[at] = i
    BY <1>0, <1>3, <2>1
  <2>5. QED
    BY <2>3, <2>4
<1>6. IF at = 1 THEN i = 1 ELSE records[at - 1] = i - 1
  BY <1>4, <1>5
<1>7. QED
  BY <1>6 DEF LinkHolds, at

\* One sequence after the other.
LEMMA Joined ==
  ASSUME NEW r \in Seq(Nat), NEW b \in Seq(Nat)
  PROVE  /\ r \o b \in Seq(Nat) /\ Len(r \o b) = Len(r) + Len(b)
         /\ \A k \in 1..Len(r) : (r \o b)[k] = r[k]
         /\ \A k \in (Len(r) + 1)..(Len(r) + Len(b)) : (r \o b)[k] = b[k - Len(r)]
<1>1. r \o b \in Seq(Nat) /\ Len(r \o b) = Len(r) + Len(b)
  OBVIOUS
<1>2. \A k \in 1..Len(r) : (r \o b)[k] = r[k]
  OBVIOUS
<1>3. \A k \in (Len(r) + 1)..(Len(r) + Len(b)) : (r \o b)[k] = b[k - Len(r)]
  OBVIOUS
<1>4. QED
  BY <1>1, <1>2, <1>3

\* The second sequence is the first, and then the d numbers after m.
Continues(records, more, m, d) ==
  /\ more \in Seq(Nat) /\ Len(more) = Len(records) + d
  /\ \A k \in 1..Len(records) : more[k] = records[k]
  /\ \A e \in 1..d : more[Len(records) + e] = m + e

\* A block of records that begins where the service is, or before, keeps order.
LEMMA BlockKeepsOrder ==
  ASSUME NEW records, NEW more, NEW m \in Nat, NEW d \in Nat \ {0}, InOrder(records),
         m <= Last(records), Last(records) <= m + d, Continues(records, more, m, d)
  PROVE  InOrder(more) /\ Last(more) = m + d
<1>a. PICK len \in Nat : len = Len(records)
  BY DEF InOrder
<1>b. PICK n \in Nat : n = m + d
  OBVIOUS
<1>c. /\ more \in Seq(Nat) /\ Len(more) = len + d
      /\ \A k \in 1..len : more[k] = records[k]
      /\ \A e \in 1..d : more[len + e] = m + e
  BY <1>a DEF Continues
<1> USE <1>a, <1>b, <1>c
<1>0. records \in Seq(Nat) /\ DOMAIN records = 1..len
  BY DEF InOrder
<1>2. DOMAIN more = 1..(len + d)
  OBVIOUS
<1>3. Last(more) = n
  BY <1>0, <1>2 DEF Last
<1>4. \A i \in 1..n : \E k \in DOMAIN more : more[k] = i
  <2>1. TAKE i \in 1..n
  <2>2. CASE i <= m
    <3>1. i \in 1..Last(records)
      <4>1. Last(records) \in Nat
        BY <1>0 DEF Last
      <4>2. QED
        BY <2>2, <4>1
    <3>2. PICK k \in DOMAIN records : records[k] = i
      BY <3>1 DEF InOrder
    <3>3. QED
      BY <1>0, <1>2, <3>2
  <2>3. CASE i > m
    <3>1. PICK e \in 1..d : i = m + e
      <4>1. i - m \in 1..d /\ i = m + (i - m)
        BY <2>3
      <4>2. QED
        BY <4>1
    <3>2. more[len + e] = i /\ len + e \in 1..Len(more)
      BY <3>1
    <3>3. QED
      BY <1>2, <3>2
  <2>4. QED
    BY <2>2, <2>3
<1>5. more[1] = 1
  <2>1. CASE len = 0
    <3>1. m = 0 /\ 1 \in 1..d
      BY <2>1 DEF Last
    <3>2. more[len + 1] = m + 1
      BY <3>1
    <3>3. QED
      BY <2>1, <3>1, <3>2
  <2>2. CASE len # 0
    <3>1. 1 \in 1..len
      BY <2>2
    <3>2. QED
      BY <3>1 DEF InOrder
  <2>3. QED
    BY <2>1, <2>2
<1>6. \A k \in 2..Len(more) :
        more[k] = more[k - 1] + 1 \/ \E j \in 1..(k - 1) : more[j] = more[k]
  <2>1. TAKE k \in 2..Len(more)
  <2>0. k \in Nat /\ k >= 2 /\ k <= len + d
    OBVIOUS
  <2>2. CASE k <= len
    <3>1. k \in 1..len /\ k - 1 \in 1..len /\ k \in 2..Len(records)
      BY <1>0, <2>2
    <3>2. records[k] = records[k - 1] + 1 \/ \E j \in 1..(k - 1) : records[j] = records[k]
      BY <3>1 DEF InOrder
    <3>3. \A j \in 1..(k - 1) : more[j] = records[j]
      BY <1>0, <1>2, <2>2
    <3>4. more[k] = records[k] /\ more[k - 1] = records[k - 1]
      BY <1>2, <3>1
    <3>5. QED
      BY <3>2, <3>3, <3>4
  <2>3. CASE k = len + 1
    <3>0. 1 \in 1..d /\ len > 0 /\ k - 1 = len /\ k = len + 1 /\ len \in 1..len
      BY <2>0, <2>3
    <3>1. len > 0 /\ more[k] = m + 1 /\ more[k - 1] = Last(records) /\ Last(records) \in Nat
      BY <1>0, <3>0 DEF Last
    <3>2. CASE m = Last(records)
      BY <3>1, <3>2
    <3>3. CASE m < Last(records)
      <4>1. m + 1 \in 1..Last(records)
        BY <3>1, <3>3
      <4>2. PICK j \in DOMAIN records : records[j] = m + 1
        BY <4>1 DEF InOrder
      <4>3. j \in 1..(k - 1) /\ more[j] = m + 1
        BY <1>0, <1>2, <2>3, <4>2
      <4>4. QED
        BY <3>1, <4>3
    <3>4. QED
      BY <3>1, <3>2, <3>3
  <2>4. CASE k > len + 1
    <3>1. PICK e \in 1..d : k = len + e /\ e > 1
      <4>1. k - len \in 1..d /\ k = len + (k - len) /\ k - len > 1
        BY <2>0, <2>4
      <4>2. QED
        BY <4>1
    <3>2. e - 1 \in 1..d /\ k - 1 = len + (e - 1)
      BY <3>1
    <3>3. more[k] = m + e /\ more[k - 1] = m + (e - 1)
      BY <3>1, <3>2
    <3>4. QED
      BY <3>1, <3>3
  <2>5. QED
    BY <2>0, <2>2, <2>3, <2>4
<1>7. QED
  BY <1>2, <1>3, <1>4, <1>5, <1>6 DEF InOrder

LEMMA BlockInOrder ==
  ASSUME NEW records, InOrder(records), NEW m \in Nat, NEW n \in Nat,
         m <= Last(records), Last(records) <= n, m < n
  PROVE  /\ InOrder(records \o [k \in 1..(n - m) |-> m + k])
         /\ Last(records \o [k \in 1..(n - m) |-> m + k]) = n
<1> DEFINE block == [k \in 1..(n - m) |-> m + k]
           more == records \o block
<1>0. records \in Seq(Nat) /\ Len(records) \in Nat
  BY DEF InOrder
<1>1. block \in Seq(Nat) /\ Len(block) = n - m
  <2>1. n - m \in Nat
    OBVIOUS
  <2>2. block \in [1..(n - m) -> Nat]
    BY <2>1
  <2>3. \A f : f \in [1..(n - m) -> Nat] => f \in Seq(Nat) /\ Len(f) = n - m
    BY <2>1
  <2> HIDE DEF block
  <2>4. QED
    BY <2>2, <2>3
<1>2. /\ more \in Seq(Nat) /\ Len(more) = Len(records) + Len(block)
      /\ \A k \in 1..Len(records) : more[k] = records[k]
      /\ \A k \in (Len(records) + 1)..(Len(records) + Len(block)) : more[k] = block[k - Len(records)]
  <2> HIDE DEF block
  <2>1. QED
    BY <1>0, <1>1, Joined
<1>3. \A k \in 1..(n - m) : block[k] = m + k
  OBVIOUS
<1> HIDE DEF more, block
<1>4. /\ n - m \in Nat \ {0} /\ n = m + (n - m) /\ Len(more) = Len(records) + (n - m)
      /\ \A e \in 1..(n - m) : more[Len(records) + e] = m + e
  <2>1. n - m \in Nat \ {0} /\ n = m + (n - m) /\ Len(more) = Len(records) + (n - m)
    BY <1>1, <1>2
  <2>2. ASSUME NEW e \in 1..(n - m) PROVE more[Len(records) + e] = m + e
    <3>1. /\ Len(records) + e \in (Len(records) + 1)..(Len(records) + Len(block))
          /\ (Len(records) + e) - Len(records) = e
      BY <1>0, <1>1, <2>1
    <3>2. more[Len(records) + e] = block[(Len(records) + e) - Len(records)]
      BY <1>2, <3>1
    <3>3. QED
      BY <1>3, <3>1, <3>2
  <2>3. QED
    BY <2>1, <2>2
<1>5. InOrder(more) /\ Last(more) = n
  <2> DEFINE d == n - m
  <2>1. /\ d \in Nat \ {0} /\ n = m + d /\ Len(more) = Len(records) + d
        /\ \A e \in 1..d : more[Len(records) + e] = m + e
    BY <1>4
  <2> HIDE DEF d
  <2>2. Continues(records, more, m, d)
    BY <1>2, <2>1 DEF Continues
  <2>3. Last(records) <= m + d
    BY <2>1
  <2>4. QED
    BY <2>1, <2>2, <2>3, BlockKeepsOrder
<1>6. QED
  BY <1>5 DEF more, block

\* Nothing read, nothing changes.
LEMMA NoBlock ==
  ASSUME NEW records, InOrder(records), NEW block, block \in Seq(Nat), Len(block) = 0
  PROVE  records \o block = records
<1>1. records \in Seq(Nat) /\ Len(records) \in Nat
  BY DEF InOrder
<1>2. /\ records \o block \in Seq(Nat) /\ Len(records \o block) = Len(records)
      /\ \A k \in 1..Len(records) : (records \o block)[k] = records[k]
  BY <1>1, Joined
<1>3. \A r, t \in Seq(Nat) : Len(r) = Len(t) /\ (\A k \in 1..Len(t) : r[k] = t[k]) => r = t
  OBVIOUS
<1>4. QED
  BY <1>1, <1>2, <1>3

\* What is read from the start is in order.
LEMMA FirstBlock ==
  ASSUME NEW n \in Nat
  PROVE  InOrder([i \in 1..n |-> i]) /\ Last([i \in 1..n |-> i]) = n
<1> DEFINE all == [i \in 1..n |-> i]
<1>1. all \in [1..n -> Nat]
  OBVIOUS
<1>2. \A f : f \in [1..n -> Nat] => f \in Seq(Nat) /\ Len(f) = n
  OBVIOUS
<1>3. \A i \in 1..n : all[i] = i
  OBVIOUS
<1> HIDE DEF all
<1>4. all \in Seq(Nat) /\ Len(all) = n /\ DOMAIN all = 1..n
  BY <1>1, <1>2
<1>5. Last(all) = n
  BY <1>3, <1>4 DEF Last
<1>6. \A k \in 2..n : all[k] = all[k - 1] + 1
  BY <1>3
<1>7. Len(all) > 0 => all[1] = 1
  BY <1>3, <1>4
<1>9. \A i \in 1..Last(all) : \E k \in DOMAIN all : all[k] = i
  BY <1>3, <1>4, <1>5
<1>10. InOrder(all)
  BY <1>4, <1>6, <1>7, <1>9 DEF InOrder
<1>11. QED
  BY <1>5, <1>10 DEF all

-----------------------------------------------------------------------------
(* What the operators do *)

\* The chain as it was, with one more record at most.
Grown ==
  /\ chain' \in Seq(Entries) /\ Len(chain) <= Len(chain') /\ Len(chain') <= MaxChain
  /\ \A i \in DOMAIN chain : chain'[i] = chain[i]

\* Records that are appended are of the kind the others are.
LEMMA KeepsFacts ==
  ASSUME GateConstants, Kept, NEW r \in Entries, r.via \in 0..Len(chain), r.old => r.kind = "decision", Keeps(r)
  PROVE  Kept' /\ Grown /\ (Len(chain) < MaxChain => Len(chain') = Len(chain) + 1)
<1>0. chain \in Seq(Entries) /\ Len(chain) \in Nat /\ DOMAIN chain = 1..Len(chain) /\ MaxChain \in Nat
  BY DEF Kept, GateConstants
<1>1. CASE Len(chain) < MaxChain
  <2>1. chain' = Append(chain, r)
    BY <1>1 DEF Keeps
  <2>2. /\ chain' \in Seq(Entries) /\ Len(chain') = Len(chain) + 1 /\ DOMAIN chain' = 1..(Len(chain) + 1)
        /\ \A i \in 1..Len(chain) : chain'[i] = chain[i]
        /\ chain'[Len(chain) + 1] = r
    BY <1>0, <2>1
  <2>3. ASSUME NEW i \in DOMAIN chain'
        PROVE  chain'[i].via \in 0..(i - 1) /\ (chain'[i].old => chain'[i].kind = "decision")
    <3>1. CASE i \in 1..Len(chain)
      BY <1>0, <2>2, <3>1 DEF Kept
    <3>2. CASE i = Len(chain) + 1
      BY <1>0, <2>2, <3>2
    <3>3. QED
      BY <1>0, <2>2, <2>3, <3>1, <3>2
  <2>4. Kept'
    BY <1>0, <1>1, <2>2, <2>3 DEF Kept
  <2>5. QED
    BY <1>0, <1>1, <2>2, <2>4 DEF Grown
<1>2. CASE ~(Len(chain) < MaxChain)
  <2>1. chain' = chain
    BY <1>2 DEF Keeps
  <2>2. Kept' /\ Grown
    BY <1>0, <2>1 DEF Kept, Grown
  <2>3. QED
    BY <1>2, <2>2
<1>3. QED
  BY <1>1, <1>2

\* A chain that stays as it is.
LEMMA NotGrown == ASSUME GateConstants, Kept, UNCHANGED chain PROVE Kept' /\ Grown
<1>1. Len(chain) \in Nat /\ MaxChain \in Nat
  BY DEF Kept, GateConstants
<1>2. QED
  BY <1>1 DEF Kept, Grown

\* Records of the quality chain leave the latest snapshot the latest.
LEMMA AppendedFacts ==
  ASSUME GateConstants, NEW q, QaShape(q), q.gap \in 0..TailRecords, NEW n \in Nat
  PROVE  LET a == Appended(q, n)
         IN  /\ QaShape(a) /\ a.gap \in 0..TailRecords
             /\ a.latest = q.latest /\ a.pos = q.pos /\ a.low = q.low
<1>0. TailRecords \in Nat \ {0, 1}
  BY DEF GateConstants
<1>1. CASE n = 0
  BY <1>1 DEF Appended
<1>2. CASE n # 0
  <2>1. /\ Less(TailRecords - 1, n - 1) \in 0..TailRecords
        /\ Less(q.gap, n) \in 0..TailRecords
    BY <1>0, <1>2 DEF Less
  <2>2. PICK g \in 0..TailRecords :
          Appended(q, n) = [q EXCEPT !.gap = g, !.stale = FALSE, !.empty = FALSE]
    BY <1>2, <2>1 DEF Appended
  <2>3. QED
    BY <2>2 DEF QaShape
<1>3. QED
  BY <1>1, <1>2

\* A snapshot that is written is the latest, and not read yet.
LEMMA WritesFacts ==
  ASSUME GateConstants, NEW q, QaShape(q), q.gap \in 0..TailRecords, NEW snapshot, Writes(q, snapshot)
  PROVE  /\ QaShape(qa') /\ (qa.gap)' \in 0..TailRecords /\ (qa.pos)' \in -1..1
         /\ (qa.latest)' = snapshot /\ seen' = -1
<1>1. PICK pos \in -1..1 :
        qa' = [Appended(q, 1) EXCEPT !.latest = snapshot, !.pos = pos, !.low = q.low /\ pos # 1]
  <2> DEFINE P == IF ~q.low THEN {1} ELSE IF q.latest # None /\ q.pos = 0 THEN {1} ELSE -1..1
  <2>1. P \subseteq -1..1
    OBVIOUS
  <2>2. \E pos \in P : 
          qa' = [Appended(q, 1) EXCEPT !.latest = snapshot, !.pos = pos, !.low = q.low /\ pos # 1]
    BY Zenon DEF Writes
  <2>3. QED
    BY <2>1, <2>2
<1>2. QaShape(Appended(q, 1)) /\ Appended(q, 1).gap \in 0..TailRecords
  BY AppendedFacts
<1>3. QED
  BY <1>1, <1>2 DEF QaShape, Writes

\* Verification changes what is judged and nothing else.
LEMMA VerifiedFacts ==
  ASSUME NEW s, ServiceShape(s), NEW batch
  PROVE  LET v == Verified(s, batch)
         IN  /\ ServiceShape(v)
             /\ v.pc = s.pc /\ v.stat = s.stat /\ v.offset = s.offset /\ v.records = s.records
             /\ v.fingerprint = s.fingerprint
             /\ v.verified = s.verified \cup Queued(batch)
             /\ v.skipped = s.skipped \cup (Decisions(batch) \ Queued(batch))
             /\ v.conditions = s.conditions \cup UNION {Findings(s.records, i) : i \in Queued(batch)}
<1>1. PICK a, b, c :
        /\ a = s.verified \cup Queued(batch)
        /\ b = s.skipped \cup (Decisions(batch) \ Queued(batch))
        /\ c = s.conditions \cup UNION {Findings(s.records, i) : i \in Queued(batch)}
  OBVIOUS
<1>2. Verified(s, batch) = [s EXCEPT !.verified = a, !.skipped = b, !.conditions = c]
  BY <1>1, Zenon DEF Verified
<1>3. /\ ServiceShape(Verified(s, batch))
      /\ LET v == Verified(s, batch)
         IN  /\ v.pc = s.pc /\ v.stat = s.stat /\ v.offset = s.offset /\ v.records = s.records
             /\ v.fingerprint = s.fingerprint /\ v.verified = a /\ v.skipped = b /\ v.conditions = c
  BY <1>2 DEF ServiceShape
<1>4. QED
  BY <1>1, <1>3

\* Of records in order verify_decision finds fault only with the age of an
\* approval.
LEMMA FindingsFacts ==
  ASSUME Kept, NEW records, InOrder(records), Last(records) <= Len(chain), NEW i \in 1..Last(records)
  PROVE  /\ \A c \in Findings(records, i) : (c = "CR-CRIT-007" /\ chain[i].old)
         /\ chain[i].old => "CR-CRIT-007" \in Findings(records, i)
         /\ i \in DOMAIN chain
<1>0. Last(records) \in Nat /\ Len(chain) \in Nat /\ DOMAIN chain = 1..Len(chain)
  BY DEF InOrder, Last, Kept
<1>1. LinkHolds(records, i)
  BY LinksHold
<1>2. i \in DOMAIN chain
  BY <1>0
<1>3. chain[i].via = 0 \/ \E k \in DOMAIN records : records[k] = chain[i].via
  <2>1. chain[i].via \in 0..(i - 1)
    BY <1>2 DEF Kept
  <2>2. CASE chain[i].via # 0
    <3>1. chain[i].via \in 1..Last(records)
      BY <1>0, <2>1, <2>2
    <3>2. QED
      BY <3>1 DEF InOrder
  <2>3. QED
    BY <2>2
<1>4. QED
  BY <1>1, <1>2, <1>3 DEF Findings

\* What the service made of its records, s, is in v what it was and what it made
\* of a batch.
Judges(s, v, batch) ==
  /\ s.verified \subseteq v.verified /\ s.skipped \subseteq v.skipped
  /\ s.conditions \subseteq v.conditions
  /\ v.verified \cup v.skipped \subseteq 1..Len(chain)
  /\ \A c \in v.conditions : (c = "CR-CRIT-007" /\ \E i \in DOMAIN chain : chain[i].old)
  /\ \A i \in batch : (IsDecision(i) => i \in v.verified \cup v.skipped)
  /\ \A i \in batch : (chain[i].old => i \in v.skipped \/ "CR-CRIT-007" \in v.conditions)

\* What is verified or skipped is judged, and stays judged.
LEMMA VerifiedJudges ==
  ASSUME Kept, NEW s, ServiceShape(s), InOrder(s.records), Last(s.records) <= Len(chain),
         NEW batch \in SUBSET (1..Last(s.records)),
         s.verified \cup s.skipped \subseteq 1..Len(chain),
         \A c \in s.conditions : c = "CR-CRIT-007" /\ \E i \in DOMAIN chain : chain[i].old
  PROVE  Judges(s, Verified(s, batch), batch)
<1> DEFINE v == Verified(s, batch)
<1>1. /\ v.verified = s.verified \cup Queued(batch)
      /\ v.skipped = s.skipped \cup (Decisions(batch) \ Queued(batch))
      /\ v.conditions = s.conditions \cup UNION {Findings(s.records, i) : i \in Queued(batch)}
  BY VerifiedFacts
<1> HIDE DEF v
<1>2. Queued(batch) \subseteq Decisions(batch) /\ Decisions(batch) = {i \in batch : IsDecision(i)}
  BY DEF Queued, Decisions
<1>3. Last(s.records) \in Nat /\ Len(chain) \in Nat /\ batch \subseteq 1..Len(chain)
  BY DEF InOrder, Last, Kept
<1>4. /\ \A i \in batch : (\A c \in Findings(s.records, i) : (c = "CR-CRIT-007" /\ chain[i].old))
      /\ \A i \in batch : (chain[i].old => "CR-CRIT-007" \in Findings(s.records, i))
      /\ \A i \in batch : i \in DOMAIN chain
  BY FindingsFacts
<1>5. \A i \in batch : chain[i].old => IsDecision(i)
  BY <1>4 DEF Kept, IsDecision
<1>6. \A i \in batch : IsDecision(i) => i \in v.verified \cup v.skipped
  BY <1>1, <1>2
<1>7. \A i \in batch : chain[i].old => i \in v.skipped \/ "CR-CRIT-007" \in v.conditions
  BY <1>1, <1>2, <1>4, <1>5
<1>8. \A c \in v.conditions : c = "CR-CRIT-007" /\ \E i \in DOMAIN chain : chain[i].old
  <2>1. TAKE c \in v.conditions
  <2>2. CASE c \in s.conditions
    BY <2>2
  <2>3. CASE c \notin s.conditions
    <3>1. PICK i \in batch : c \in Findings(s.records, i)
      BY <1>1, <1>2, <2>3
    <3>2. QED
      BY <1>4, <3>1
  <2>4. QED
    BY <2>2, <2>3
<1>9. v.verified \cup v.skipped \subseteq 1..Len(chain)
  BY <1>1, <1>2, <1>3
<1>10. QED
  BY <1>1, <1>6, <1>7, <1>8, <1>9 DEF Judges, v

\* The number of records that verification appends is a number.
LEMMA QaRecordsCount ==
  ASSUME NEW records, NEW n \in Nat, NEW batch \in SUBSET (1..n)
  PROVE  QaRecords(records, batch) \in Nat
<1>1. IsFiniteSet(1..n)
  BY FS_Interval
<1>2. IsFiniteSet(Conditions)
  <2>1. IsFiniteSet({}) /\ \A S, x : IsFiniteSet(S) => IsFiniteSet(S \cup {x})
    BY FS_EmptySet, FS_AddElement
  <2>2. IsFiniteSet((({} \cup {"CR-CRIT-003"}) \cup {"CR-CRIT-005"}) \cup {"CR-CRIT-007"})
    BY <2>1
  <2>3. Conditions = (({} \cup {"CR-CRIT-003"}) \cup {"CR-CRIT-005"}) \cup {"CR-CRIT-007"}
    BY DEF Conditions
  <2>4. QED
    BY <2>2, <2>3
<1>3. IsFiniteSet((1..n) \X Conditions)
  BY <1>1, <1>2, FS_Product
<1> DEFINE found == UNION {{i} \X Findings(records, i) : i \in Queued(batch)}
<1>4. Queued(batch) \subseteq 1..n /\ Decisions(batch) \ Queued(batch) \subseteq 1..n
  BY DEF Queued, Decisions
<1>5. found \subseteq (1..n) \X Conditions
  BY <1>4 DEF Findings, Conditions
<1> HIDE DEF found
<1>6. IsFiniteSet(Queued(batch)) /\ IsFiniteSet(Decisions(batch) \ Queued(batch)) /\ IsFiniteSet(found)
  BY <1>1, <1>3, <1>4, <1>5, FS_Subset
<1>7. /\ Cardinality(Queued(batch)) \in Nat /\ Cardinality(Decisions(batch) \ Queued(batch)) \in Nat
      /\ Cardinality(found) \in Nat
  BY <1>6, FS_CardinalityType
<1>8. QED
  BY <1>7 DEF QaRecords, found

-----------------------------------------------------------------------------
(* What the steps of the service do *)

\* What poll_new_records reads, and all that is read then.
BatchRead == IF service.stat = service.offset THEN {} ELSE service.offset + 1..Len(chain)
RecordsRead ==
  service.records \o [k \in 1..Cardinality(BatchRead) |-> service.offset + k]

\* It is a block that begins where the service is and ends at the end of the
\* chain, or nothing.
LEMMA BlockRead ==
  ASSUME Kept, Reading, service.pc = "stat"
  PROVE  /\ InOrder(RecordsRead) /\ Last(RecordsRead) \in service.stat..Len(chain)
         /\ BatchRead \in SUBSET (1..Last(RecordsRead))
         /\ \A i \in 1..service.stat : i \in 1..service.offset \/ i \in BatchRead
<1>a. PICK m \in Nat : m = service.offset
  BY DEF Reading
<1>b. PICK n \in Nat : n = Len(chain)
  BY DEF Kept
<1>0. /\ service.stat \in Nat /\ m <= service.stat /\ service.stat <= n
      /\ InOrder(service.records) /\ Last(service.records) \in m..n
  BY <1>a, <1>b DEF Kept, Reading
<1> USE <1>a, <1>b
<1>1. CASE service.stat = m
  <2>1. BatchRead = {} /\ Cardinality(BatchRead) = 0
    BY <1>1, FS_EmptySet DEF BatchRead
  <2> DEFINE block == [k \in 1..Cardinality(BatchRead) |-> service.offset + k]
  <2>2. block \in Seq(Nat) /\ Len(block) = 0
    BY <2>1
  <2>3. RecordsRead = service.records \o block
    BY DEF RecordsRead
  <2> HIDE DEF block
  <2>4. RecordsRead = service.records
    BY <1>0, <2>2, <2>3, NoBlock
  <2>5. QED
    BY <1>0, <1>1, <2>1, <2>4
<1>2. CASE service.stat # m
  <2>0. m < n
    BY <1>0, <1>2
  <2>1. BatchRead = (m + 1)..n
    BY <1>2 DEF BatchRead
  <2>2. Cardinality(BatchRead) = n - m
    <3>1. \A x, y \in Int : ~(x > y) => Cardinality(x..y) = y - x + 1
      BY FS_Interval
    <3>2. PICK x \in Int : x = m + 1
      OBVIOUS
    <3>3. n \in Int /\ ~(x > n)
      BY <2>0, <3>2
    <3>4. Cardinality(x..n) = n - x + 1
      BY <3>1, <3>3, Zenon
    <3>5. QED
      BY <2>1, <3>2, <3>4
  <2>3. RecordsRead = service.records \o [k \in 1..(n - m) |-> m + k]
    BY <2>2 DEF RecordsRead
  <2>4. m <= Last(service.records) /\ Last(service.records) <= n
    BY <1>0
  <2>5. InOrder(RecordsRead) /\ Last(RecordsRead) = n
    BY <1>0, <2>0, <2>3, <2>4, BlockInOrder
  <2>6. BatchRead \in SUBSET (1..n)
    BY <2>1
  <2>7. QED
    BY <1>0, <2>1, <2>5, <2>6
<1>3. QED
  BY <1>1, <1>2

\* run_loop reads the whole chain, looks at the rules and writes.
LEMMA StartServiceDoes ==
  ASSUME IInv, StartService
  PROVE  /\ ServiceShape(service') /\ (service.pc)' = "starting"
         /\ (service.stat)' = Len(chain) /\ (service.offset)' = Len(chain)
         /\ (service.records)' = [i \in 1..Len(chain) |-> i]
         /\ UNCHANGED <<service.verified, service.skipped, service.conditions>>
         /\ (service.fingerprint.rules)' = disk
         /\ Writes([qa EXCEPT !.stale = FALSE, !.low = qa.low \/ (qa.empty /\ gate.last)],
                   Snapshot({}, 0))
<1>1. ServiceShape(service)
  BY DEF IInv, Shapes
<1>2. PICK f : f = Fingerprint(Snapshot({}, 0))
  OBVIOUS
<1>3. PICK r : r = [i \in 1..Len(chain) |-> i]
  OBVIOUS
<1>4. service' = [service EXCEPT !.pc = "starting", !.stat = Len(chain), !.offset = Len(chain),
                    !.records = r, !.fingerprint = f]
  BY <1>2, <1>3, Zenon DEF StartService
<1>5. f.rules = disk
  BY <1>2 DEF Fingerprint, Snapshot
<1>6. QED
  BY <1>1, <1>3, <1>4, <1>5 DEF StartService, ServiceShape

\* All decisions read are verified, and a second snapshot is written if there
\* are findings.
LEMMA FinishStartDoes ==
  ASSUME IInv, FinishStart
  PROVE  /\ ServiceShape(service') /\ (service.pc)' = "idle" /\ Judges(service, service', 1..service.offset)
         /\ UNCHANGED <<service.stat, service.offset, service.records>>
         /\ \E n \in Nat :
              \/ /\ (service.conditions)' = {} /\ qa' = Appended(qa, n)
                 /\ UNCHANGED <<seen, service.fingerprint>> /\ looked' = looked
              \/ /\ (service.conditions)' # {} /\ looked'
                 /\ Writes(Appended(qa, n), Snapshot((service.conditions)', service.offset))
                 /\ (service.fingerprint.rules)' = disk
<1>0. /\ Kept /\ ServiceShape(service) /\ service.pc = "starting" /\ service.offset \in Nat
      /\ InOrder(service.records) /\ Last(service.records) <= Len(chain)
      /\ service.offset <= Last(service.records) /\ Last(service.records) \in Nat
      /\ service.verified \cup service.skipped \subseteq 1..Len(chain)
      /\ \A c \in service.conditions : c = "CR-CRIT-007" /\ \E i \in DOMAIN chain : chain[i].old
  BY DEF IInv, Shapes, Reading, Judged, FinishStart, Kept
<1> DEFINE batch == 1..service.offset
           s == Verified(service, batch)
           n == QaRecords(service.records, batch)
           snap == Snapshot(s.conditions, s.offset)
<1>1. batch \in SUBSET (1..Last(service.records)) /\ batch \in SUBSET (1..service.offset)
  BY <1>0
<1>2. n \in Nat
  BY <1>0, <1>1, QaRecordsCount
<1>3. /\ ServiceShape(s) /\ s.stat = service.stat /\ s.offset = service.offset
      /\ s.records = service.records /\ s.fingerprint = service.fingerprint
  BY <1>0, VerifiedFacts
<1>4. Judges(service, s, batch)
  <2> HIDE DEF batch
  <2>1. QED
    BY <1>0, <1>1, VerifiedJudges
<1>5. /\ service' = [s EXCEPT !.pc = "idle", !.idle = 0,
                       !.fingerprint = IF s.conditions = {} THEN @ ELSE Fingerprint(snap)]
      /\ IF s.conditions = {} THEN qa' = Appended(qa, n) /\ UNCHANGED seen
                              ELSE Writes(Appended(qa, n), snap)
  BY DEF FinishStart
<1>6. looked' = (looked \/ (service.conditions)' # {})
  BY DEF FinishStart
<1>7. Fingerprint(snap).rules = disk
  BY DEF Fingerprint, Snapshot
<1> HIDE DEF s, n, batch
<1>8. /\ ServiceShape(service') /\ (service.pc)' = "idle"
      /\ (service.stat)' = s.stat /\ (service.offset)' = s.offset /\ (service.records)' = s.records
      /\ (service.verified)' = s.verified /\ (service.skipped)' = s.skipped
      /\ (service.conditions)' = s.conditions
      /\ s.conditions = {} => (service.fingerprint)' = s.fingerprint
      /\ s.conditions # {} => (service.fingerprint)' = Fingerprint(snap)
  <2> HIDE DEF snap
  <2>1. PICK f : /\ f = IF s.conditions = {} THEN s.fingerprint ELSE Fingerprint(snap)
                 /\ service' = [s EXCEPT !.pc = "idle", !.idle = 0, !.fingerprint = f]
    BY <1>5
  <2>2. QED
    BY <1>3, <2>1 DEF ServiceShape
<1>9. Judges(service, service', batch)
  BY <1>4, <1>8 DEF Judges
<1>10. CASE s.conditions = {}
  <2>1. looked' = looked
    BY <1>6, <1>8, <1>10 DEF IInv, Flags
  <2>2. QED
    BY <1>2, <1>3, <1>5, <1>8, <1>9, <1>10, <2>1 DEF batch
<1>11. CASE s.conditions # {}
  <2>1. looked'
    BY <1>6, <1>8, <1>11
  <2>2. snap = Snapshot((service.conditions)', service.offset)
    BY <1>3, <1>8
  <2>3. QED
    BY <1>2, <1>3, <1>5, <1>7, <1>8, <1>9, <1>11, <2>1, <2>2 DEF batch
<1>12. QED
  BY <1>10, <1>11

\* A block is read and verified; the cached offset is what was statted.
LEMMA ReadDoes ==
  ASSUME IInv, Read
  PROVE  /\ ServiceShape(service') /\ (service.pc)' = "drained"
         /\ (service.offset)' = service.stat
         /\ UNCHANGED <<service.stat, service.fingerprint>>
         /\ InOrder((service.records)') /\ Last((service.records)') \in service.stat..Len(chain)
         /\ \E batch : /\ Judges(service, service', batch)
                       /\ \A i \in 1..service.stat : i \in 1..service.offset \/ i \in batch
         /\ \E n \in Nat : qa' = Appended(qa, n)
<1>0. /\ Kept /\ Reading /\ ServiceShape(service) /\ service.pc = "stat" /\ service.stat \in Nat
      /\ service.verified \cup service.skipped \subseteq 1..Len(chain)
      /\ \A c \in service.conditions : c = "CR-CRIT-007" /\ \E i \in DOMAIN chain : chain[i].old
  BY DEF IInv, Shapes, Reading, Judged, Read
<1> DEFINE batch == BatchRead
           records == RecordsRead
           read == [service EXCEPT !.pc = "drained", !.offset = service.stat, !.records = records]
           s == Verified(read, batch)
           n == QaRecords(read.records, batch)
<1>1. service' = s /\ qa' = Appended(qa, n)
  BY <1>0 DEF Read, ServiceShape, BatchRead, RecordsRead
<1>2. /\ InOrder(records) /\ Last(records) \in service.stat..Len(chain)
      /\ batch \in SUBSET (1..Last(records))
      /\ \A i \in 1..service.stat : i \in 1..service.offset \/ i \in batch
  BY <1>0, BlockRead
<1> HIDE DEF batch, records, s
<1>3. /\ ServiceShape(read) /\ read.pc = "drained" /\ read.offset = service.stat
      /\ read.records = records /\ read.stat = service.stat /\ read.fingerprint = service.fingerprint
      /\ read.verified = service.verified /\ read.skipped = service.skipped
      /\ read.conditions = service.conditions
  <2>1. PICK r, t : /\ r = records /\ t = service.stat
                    /\ read = [service EXCEPT !.pc = "drained", !.offset = t, !.records = r]
    OBVIOUS
  <2> HIDE DEF read
  <2>2. ServiceShape(service)
    BY <1>0
  <2>3. QED
    BY <2>1, <2>2 DEF ServiceShape
<1> HIDE DEF read
<1>4. Last(records) \in Nat /\ Last(records) <= Len(chain)
  BY <1>0, <1>2 DEF Kept
<1>5. n \in Nat
  BY <1>2, <1>4, QaRecordsCount
<1>6. /\ ServiceShape(s) /\ s.pc = "drained" /\ s.stat = service.stat /\ s.offset = service.stat
      /\ s.records = records /\ s.fingerprint = service.fingerprint
  BY <1>3, VerifiedFacts DEF s
<1>7. Judges(read, s, batch)
  BY <1>0, <1>2, <1>3, <1>4, VerifiedJudges DEF s
<1>9. Judges(service, s, batch)
  BY <1>3, <1>7 DEF Judges
<1> HIDE DEF n
<1>8. QED
  BY <1>1, <1>2, <1>5, <1>6, <1>9

\* A snapshot is written, or it would be like the one before.
LEMMA SnapDoes ==
  ASSUME IInv, Snap
  PROVE  /\ ServiceShape(service') /\ (service.pc)' = "idle" /\ looked'
         /\ UNCHANGED <<service.stat, service.offset, service.records,
                        service.verified, service.skipped, service.conditions>>
         /\ (service.fingerprint.rules)' = disk
         /\ \/ Writes(qa, Snapshot(service.conditions, service.offset))
            \/ UNCHANGED <<qa, seen>> /\ service.fingerprint.rules = disk
<1>1. ServiceShape(service)
  BY DEF IInv, Shapes
<1> DEFINE snap == Snapshot(service.conditions, service.offset)
<1>2. PICK f : f = Fingerprint(snap)
  OBVIOUS
<1>3. service' = [service EXCEPT !.pc = "idle", !.idle = 0, !.fingerprint = f]
  BY <1>2, Zenon DEF Snap
<1>4. f.rules = disk
  BY <1>2 DEF Fingerprint, Snapshot
<1>5. Writes(qa, snap) \/ (UNCHANGED <<qa, seen>> /\ service.fingerprint = f)
  BY <1>2 DEF Snap
<1>6. looked'
  BY DEF Snap
<1>7. QED
  BY <1>1, <1>3, <1>4, <1>5, <1>6 DEF ServiceShape

\* What was verified or skipped stays; what was read is forgotten.
LEMMA ServiceDiesDoes ==
  ASSUME IInv, ServiceDies
  PROVE  /\ ServiceShape(service') /\ QaShape(qa')
         /\ (service.pc)' = "down" /\ (service.stat)' = 0 /\ (service.offset)' = 0
         /\ (service.conditions)' = {} /\ UNCHANGED <<service.verified, service.skipped>>
         /\ UNCHANGED <<qa.latest, qa.pos, qa.gap>>
BY DEF IInv, Shapes, ServiceDies, NotRunning, ServiceShape, QaShape

-----------------------------------------------------------------------------
(* What leaves the invariant alone *)

\* The memory of the service, but for the heartbeat it counts.
MemoryStays ==
  /\ ServiceShape(service')
  /\ UNCHANGED <<service.pc, service.stat, service.offset, service.records, service.verified,
                 service.skipped, service.conditions, service.fingerprint>>

\* A longer chain takes nothing from what was read and judged.
LEMMA ReadingStays ==
  ASSUME IInv, Grown, MemoryStays
  PROVE  Reading' /\ Judged'
<1>0. /\ Len(chain) \in Nat /\ Len(chain') \in Nat /\ Len(chain) <= Len(chain')
      /\ DOMAIN chain = 1..Len(chain) /\ DOMAIN chain' = 1..Len(chain')
      /\ \A i \in 1..Len(chain) : chain'[i] = chain[i]
  BY DEF IInv, Kept, Grown
<1>1. Reading'
  BY <1>0 DEF IInv, Reading, MemoryStays
<1>2. \A i \in 1..service.offset : i \in 1..Len(chain)
  BY <1>0 DEF IInv, Reading
<1>3. (service.verified \cup service.skipped \subseteq 1..Len(chain))'
  BY <1>0 DEF IInv, Judged, MemoryStays
<1>4. (service.pc \in Resting => \A i \in 1..service.offset :
       /\ IsDecision(i) => i \in service.verified \cup service.skipped
       /\ chain[i].old => i \in service.skipped \/ "CR-CRIT-007" \in service.conditions)'
  BY <1>0, <1>2 DEF IInv, Judged, MemoryStays, IsDecision
<1>5. (\A c \in service.conditions : c = "CR-CRIT-007" /\ \E i \in DOMAIN chain : chain[i].old)'
  BY <1>0 DEF IInv, Judged, MemoryStays
<1>6. QED
  BY <1>1, <1>3, <1>4, <1>5 DEF Judged

\* So it does from what was shown.
LEMMA ShownStays ==
  ASSUME IInv, Grown, UNCHANGED qa.latest, service.skipped \subseteq (service.skipped)'
  PROVE  Shown' /\ ((qa.latest)' \in Snapshots \cup {None})
<1>0. /\ Len(chain) \in Nat /\ Len(chain') \in Nat /\ Len(chain) <= Len(chain')
      /\ DOMAIN chain = 1..Len(chain) /\ \A i \in 1..Len(chain) : chain'[i] = chain[i]
  BY DEF IInv, Kept, Grown
<1>1. (qa.latest)' \in Snapshots \cup {None}
  BY DEF IInv, Chained
<1>2. CASE qa.latest = None
  BY <1>1, <1>2 DEF Shown
<1>3. CASE qa.latest # None
  <2>1. /\ qa.latest.judged \in Nat /\ qa.latest.judged <= Len(chain)
        /\ qa.latest.conditions = {} =>
             \A i \in 1..qa.latest.judged : chain[i].old => i \in service.skipped
    BY <1>3 DEF IInv, Shown, Chained, Snapshots, GateConstants
  <2>2. QED
    BY <1>0, <1>1, <2>1 DEF Shown
<1>4. QED
  BY <1>2, <1>3

\* The rules, the snapshot and the service's memory of it.
LEMMA LooksStay ==
  ASSUME IInv, UNCHANGED <<qa.latest, disk>>, looked' => looked,
         \/ UNCHANGED <<service.pc, service.fingerprint>>
         \/ (service.pc)' = "down"
         \/ UNCHANGED service.fingerprint /\ service.pc # "down"
  PROVE  Looks'
BY DEF IInv, Looks

\* What a snapshot says and what is there when it was made.
LEMMA SnapshotFacts ==
  ASSUME IInv, NEW c \in SUBSET Conditions, NEW j \in 0..Len(chain)
  PROVE  Snapshot(c, j) \in Snapshots
<1>0. Len(chain) \in Nat /\ MaxChain \in Nat /\ Len(chain) <= MaxChain /\ disk \in Rules
  BY DEF IInv, Kept, Proxies, GateConstants
<1>1. Failing \in SUBSET {"ENV-001", "ENV-005", "ENV-009"}
  BY DEF Failing
<1>2. j \in 0..MaxChain
  BY <1>0
<1>3. QED
  BY <1>0, <1>1, <1>2 DEF Snapshot, Snapshots

\* The service has no condition but the one about approvals.
LEMMA ConditionsKnown == ASSUME IInv PROVE service.conditions \in SUBSET Conditions
BY DEF IInv, Judged, Conditions

\* A snapshot that is written is a good one when what it says was judged.
LEMMA SnapshotWritten ==
  ASSUME IInv, NEW q, QaShape(q), q.gap \in 0..TailRecords,
         NEW c \in SUBSET Conditions, NEW j \in 0..Len(chain), Writes(q, Snapshot(c, j)),
         UNCHANGED <<chain, disk, proxy, gate>>,
         c = {} => \A i \in 1..j : chain[i].old => i \in (service.skipped)',
         (service.pc)' # "down" => (service.fingerprint.rules)' = disk
  PROVE  QaShape(qa') /\ Chained' /\ Shown' /\ Looks' /\ Ages'
<1>1. /\ QaShape(qa') /\ (qa.gap)' \in 0..TailRecords /\ (qa.pos)' \in -1..1
      /\ (qa.latest)' = Snapshot(c, j) /\ seen' = -1
  BY WritesFacts DEF IInv
<1>2. Snapshot(c, j) \in Snapshots
  BY SnapshotFacts
<1>3. Chained'
  BY <1>1, <1>2 DEF Chained, Snapshots
<1>4. /\ Snapshot(c, j).judged = j /\ Snapshot(c, j).conditions = c /\ Snapshot(c, j).rules = disk
  BY DEF Snapshot
<1>5. Len(chain) \in Nat
  BY DEF IInv, Kept
<1>6. Shown'
  BY <1>1, <1>4, <1>5 DEF Shown
<1>7. Looks'
  BY <1>1, <1>4 DEF Looks
<1>8. Ages'
  BY <1>1 DEF IInv, Ages, GateConstants
<1>9. QED
  BY <1>1, <1>3, <1>6, <1>7, <1>8

-----------------------------------------------------------------------------
(* The steps of the proxy *)

\* A record that a proxy or a command appends, the memory of the service and the
\* latest snapshot unchanged.
LEMMA RecordSteps ==
  ASSUME IInv, Kept', Grown, UNCHANGED <<disk, edits, service, qa, gate, seen, looked>>,
         Raise, Proxies', Shapes', (approval.old)' \in BOOLEAN, UNCHANGED proxy \/ seen = -1
  PROVE  IInv'
<1>1. MemoryStays
  BY DEF IInv, Shapes, MemoryStays, ServiceShape
<1>2. Reading' /\ Judged'
  BY <1>1, ReadingStays
<1>3. Shown'
  BY ShownStays
<1>4. Looks'
  BY LooksStay
<1>5. event' \in BOOLEAN
  BY DEF Raise
<1>6. Flags'
  BY <1>5 DEF IInv, Flags
<1>7. Chained' /\ Ages'
  BY DEF IInv, Chained, Ages, GateConstants
<1>8. QED
  BY <1>2, <1>3, <1>4, <1>6, <1>7 DEF IInv

\* The hash of rules, as they are or as they were loaded.
LEMMA HashPlaces == ASSUME GateConstants, NEW v \in Rules, NEW loaded \in BOOLEAN PROVE HashOf(v, loaded) \in Places
<1>1. PICK b \in BOOLEAN : b = (loaded /\ Placeholders)
  BY DEF GateConstants
<1>2. HashOf(v, loaded) = <<v, b>>
  BY <1>1 DEF HashOf
<1>3. QED
  BY <1>2 DEF Places

LEMMA StartLoadedStep == ASSUME IInv, StartLoaded PROVE IInv'
<1>1. GateConstants /\ disk \in Rules /\ Kept /\ Len(chain) \in Nat
  BY DEF IInv, Proxies, Kept
<1>2. HashOf(disk, FALSE) \in Places
  BY <1>1, HashPlaces
<1>3. Record("loaded", HashOf(disk, FALSE), 0, FALSE) \in Entries
  BY <1>2 DEF Record, Entries
<1>4. PICK r \in Entries : r = Record("loaded", HashOf(disk, FALSE), 0, FALSE)
  BY <1>3
<1>5. r.via = 0 /\ r.old = FALSE /\ Keeps(r)
  BY <1>4 DEF Record, StartLoaded
<1>6. Kept' /\ Grown
  BY <1>1, <1>5, KeepsFacts
<1>7. proxy' = [proxy EXCEPT !.pc = "recorded"] /\ proxy.pc = "down"
  BY DEF StartLoaded
<1>8. UNCHANGED <<disk, edits, approval, service, qa, gate, seen, looked>> /\ Raise
  BY <1>5 DEF StartLoaded, Keeps
<1>9. Shapes'
  BY <1>7, <1>8 DEF IInv, Shapes, ServiceShape, QaShape
<1>10. Proxies'
  BY <1>1, <1>6, <1>7, <1>8, <1>9 DEF IInv, Shapes, Proxies, Grown
<1>11. seen = -1 /\ (approval.old)' \in BOOLEAN
  BY <1>7, <1>8 DEF IInv, Ages, Flags, GateConstants
<1>12. QED
  BY <1>6, <1>8, <1>9, <1>10, <1>11, RecordSteps

LEMMA ApproveStep == ASSUME IInv, Approve PROVE IInv'
<1>1. GateConstants /\ Kept /\ Len(chain) \in Nat /\ MaxChain \in Nat
  BY DEF IInv, Kept, GateConstants
<1>2. PICK r \in Entries : r = Record("approval", None, 0, FALSE)
  BY DEF Record, Entries
<1>3. r.via = 0 /\ r.old = FALSE /\ Keeps(r) /\ Len(chain) < MaxChain
  BY <1>2 DEF Record, Approve
<1>4. Kept' /\ Grown /\ Len(chain') = Len(chain) + 1
  BY <1>1, <1>3, KeepsFacts
<1>5. approval' = [record |-> Len(chain'), old |-> FALSE]
  BY DEF Approve
<1>6. UNCHANGED <<disk, edits, proxy, service, qa, gate, seen, looked>> /\ Raise
  BY <1>3 DEF Approve, Keeps
<1>7. Shapes'
  BY <1>5, <1>6 DEF IInv, Shapes, ServiceShape, QaShape
<1>8. Proxies'
  BY <1>1, <1>4, <1>5, <1>6 DEF IInv, Proxies
<1>9. (approval.old)' \in BOOLEAN
  BY <1>5
<1>10. QED
  BY <1>4, <1>6, <1>7, <1>8, <1>9, RecordSteps

\* A step that changes no more than the proxy, an approval's age, the rules or
\* the event leaves what the service and its quality chain hold.
LEMMA OutsideSteps ==
  ASSUME IInv, UNCHANGED <<chain, service, qa>>, Proxies', Flags', Shapes', Ages',
         looked' => looked /\ disk' = disk
  PROVE  IInv'
<1>1. Kept' /\ Grown
  BY NotGrown DEF IInv
<1>2. MemoryStays
  BY DEF IInv, Shapes, MemoryStays, ServiceShape
<1>3. Reading' /\ Judged'
  BY <1>1, <1>2, ReadingStays
<1>4. Shown'
  BY <1>1, ShownStays
<1>5. Looks'
  BY DEF IInv, Looks
<1>6. Chained'
  BY DEF IInv, Chained
<1>7. QED
  BY <1>1, <1>3, <1>4, <1>5, <1>6 DEF IInv

LEMMA StartPolicyStep == ASSUME IInv, StartPolicy PROVE IInv'
<1>1. /\ proxy.pc = "recorded" /\ proxy' = [proxy EXCEPT !.pc = "loaded", !.mem = disk]
      /\ UNCHANGED <<chain, disk, edits, approval, event, service, qa, gate, seen, looked>>
  BY DEF StartPolicy
<1>2. Shapes'
  BY <1>1 DEF IInv, Shapes, ServiceShape, QaShape
<1>3. Proxies' /\ Flags'
  BY <1>1 DEF IInv, Shapes, Proxies, Flags
<1>4. Ages'
  BY <1>1 DEF IInv, Ages, GateConstants
<1>5. QED
  BY <1>1, <1>2, <1>3, <1>4, OutsideSteps

LEMMA StartGateStep == ASSUME IInv, StartGate PROVE IInv'
<1>1. /\ proxy.pc = "loaded" /\ proxy' = [proxy EXCEPT !.pc = "up", !.expected = disk]
      /\ UNCHANGED <<chain, disk, edits, approval, event, service, qa, gate, seen, looked>>
  BY DEF StartGate
<1>2. Shapes'
  BY <1>1 DEF IInv, Shapes, ServiceShape, QaShape
<1>3. Proxies' /\ Flags'
  BY <1>1 DEF IInv, Shapes, Proxies, Flags
<1>4. Ages'
  BY <1>1 DEF IInv, Ages, GateConstants
<1>5. QED
  BY <1>1, <1>2, <1>3, <1>4, OutsideSteps

LEMMA ProxyDiesStep == ASSUME IInv, ProxyDies PROVE IInv'
<1>1. /\ proxy' = [pc |-> "down", mem |-> None, expected |-> None]
      /\ gate' = [last |-> FALSE, since |-> 0] /\ seen' = -1
      /\ UNCHANGED <<chain, disk, edits, approval, event, service, qa, looked>>
  BY DEF ProxyDies
<1>2. Shapes'
  BY <1>1 DEF IInv, Shapes, ServiceShape, QaShape
<1>3. Proxies' /\ Flags'
  BY <1>1 DEF IInv, Shapes, Proxies, Flags
<1>4. Ages'
  BY <1>1 DEF IInv, Ages, GateConstants
<1>5. QED
  BY <1>1, <1>2, <1>3, <1>4, OutsideSteps

LEMMA ApprovalAgesStep == ASSUME IInv, ApprovalAges PROVE IInv'
<1>1. /\ approval' = [approval EXCEPT !.old = TRUE]
      /\ UNCHANGED <<chain, disk, edits, proxy, event, service, qa, gate, seen, looked>>
  BY DEF ApprovalAges
<1>2. Shapes'
  BY <1>1 DEF IInv, Shapes, ServiceShape, QaShape
<1>3. Proxies' /\ Flags'
  BY <1>1 DEF IInv, Shapes, Proxies, Flags
<1>4. Ages'
  BY <1>1 DEF IInv, Ages, GateConstants
<1>5. QED
  BY <1>1, <1>2, <1>3, <1>4, OutsideSteps

LEMMA EditRulesStep == ASSUME IInv, EditRules PROVE IInv'
<1>1. /\ edits < MaxEdits /\ disk' \in Rules /\ edits' = edits + 1 /\ looked' = FALSE /\ Raise
      /\ UNCHANGED <<chain, approval, proxy, service, qa, gate, seen>>
  BY DEF EditRules
<1>2. Shapes'
  BY <1>1 DEF IInv, Shapes, ServiceShape, QaShape
<1>3. Proxies'
  BY <1>1 DEF IInv, Shapes, Proxies, GateConstants
<1>4. event' \in BOOLEAN
  BY <1>1 DEF Raise
<1>5. Flags'
  BY <1>1, <1>4 DEF IInv, Flags
<1>6. Ages'
  BY <1>1 DEF IInv, Ages, GateConstants
<1>7. QED
  BY <1>1, <1>2, <1>3, <1>5, <1>6, OutsideSteps

\* Time passes for the gate's count and the count of the snapshot alike.
LEMMA TickStep == ASSUME IInv, Tick PROVE IInv'
<1>1. /\ service' = [service EXCEPT !.idle = IF service.pc = "idle" THEN 1 ELSE @]
      /\ gate' = [gate EXCEPT !.since = IF proxy.pc = "up" /\ @ < StaleCycles THEN @ + 1 ELSE @]
      /\ seen' = IF seen \in 0..StaleCycles - 1 THEN seen + 1 ELSE seen
      /\ UNCHANGED <<chain, disk, edits, approval, proxy, event, qa, looked>>
  BY DEF Tick
<1>2. MemoryStays
  BY <1>1 DEF IInv, Shapes, MemoryStays, ServiceShape
<1>3. gate' = [last |-> gate'.last, since |-> gate'.since]
  BY <1>1 DEF IInv, Shapes
<1>4. Shapes'
  BY <1>1, <1>2, <1>3 DEF IInv, Shapes, QaShape, MemoryStays
<1>5. Kept' /\ Grown
  BY <1>1, NotGrown DEF IInv
<1>6. Reading' /\ Judged'
  BY <1>2, <1>5, ReadingStays
<1>7. Shown'
  BY <1>1, <1>2, <1>5, ShownStays DEF MemoryStays
<1>8. Looks'
  BY <1>1, <1>2, LooksStay DEF MemoryStays
<1>9. Proxies' /\ Flags' /\ Chained'
  BY <1>1 DEF IInv, Proxies, Flags, Chained
<1>10. Ages'
  <2>1. /\ StaleCycles \in Nat /\ gate.since \in 0..StaleCycles /\ seen \in -1..StaleCycles
        /\ seen >= 0 => gate.last /\ qa.pos # 1 /\ proxy.pc = "up" /\ seen <= gate.since
        /\ gate = [last |-> gate.last, since |-> gate.since]
    BY DEF IInv, Ages, Shapes, GateConstants
  <2>2. /\ (gate.last)' = gate.last
        /\ (gate.since)' = IF proxy.pc = "up" /\ gate.since < StaleCycles
                             THEN gate.since + 1 ELSE gate.since
    BY <1>1, <2>1
  <2>3. (qa.pos)' = qa.pos /\ (proxy.pc)' = proxy.pc
    BY <1>1
  <2>4. (gate.since)' \in 0..StaleCycles
    BY <2>1, <2>2
  <2>5. seen' \in -1..StaleCycles /\ (seen' >= 0 => seen >= 0)
    BY <1>1, <2>1
  <2>6. ASSUME seen >= 0 PROVE seen' <= (gate.since)'
    BY <1>1, <2>1, <2>2, <2>6
  <2>7. QED
    BY <2>1, <2>2, <2>3, <2>4, <2>5, <2>6 DEF Ages
<1>11. QED
  BY <1>4, <1>5, <1>6, <1>7, <1>8, <1>9, <1>10 DEF IInv

\* A call that reads a new sequence begins the count anew.
LEMMA CallStep == ASSUME IInv, NEW approved \in BOOLEAN, Call(approved) PROVE IInv'
<1>1. /\ proxy.pc = "up" /\ (approved => approval.record > 0)
      /\ gate' = IF Advances THEN [last |-> TRUE, since |-> 0] ELSE gate
      /\ qa' = IF Advances THEN [qa EXCEPT !.pos = 0, !.low = FALSE] ELSE qa
      /\ seen' = IF qa.latest = None \/ seen >= 0 THEN seen ELSE 0
      /\ UNCHANGED <<disk, edits, approval, proxy, service, looked>>
  BY DEF Call
<1>2. Kept' /\ Grown /\ Raise
  <2>1. CASE Verdict = "ok"
    <3> DEFINE via == IF approved THEN approval.record ELSE 0
    <3>1. /\ proxy.mem \in Rules /\ approval.record \in 0..Len(chain) /\ Kept /\ Len(chain) \in Nat
          /\ approval.old \in BOOLEAN /\ GateConstants
      BY <1>1 DEF IInv, Proxies, Kept, Flags
    <3>2. HashOf(proxy.mem, TRUE) \in Places
      BY <3>1, HashPlaces
    <3>3. via \in 0..Len(chain) /\ (approved /\ approval.old) \in BOOLEAN
      BY <3>1
    <3>4. Keeps(Record("decision", HashOf(proxy.mem, TRUE), via, approved /\ approval.old))
      BY <2>1 DEF Call
    <3> HIDE DEF via
    <3>9. PICK old \in BOOLEAN : old = (approved /\ approval.old)
      BY <3>3
    <3>5. PICK r : r = Record("decision", HashOf(proxy.mem, TRUE), via, old)
      OBVIOUS
    <3>10. via \in Nat
      BY <3>1, <3>3
    <3>6. r \in Entries /\ r.via = via /\ r.kind = "decision"
      BY <3>2, <3>5, <3>10 DEF Record, Entries
    <3>7. Keeps(r)
      BY <3>4, <3>5, <3>9
    <3>8. QED
      BY <3>1, <3>3, <3>6, <3>7, KeepsFacts DEF Keeps
  <2>2. CASE Verdict # "ok"
    <3>1. Raise /\ UNCHANGED chain
      BY <2>2 DEF Call
    <3>2. QED
      BY <3>1, NotGrown DEF IInv
  <2>3. QED
    BY <2>1, <2>2
<1>3. MemoryStays
  BY <1>1 DEF IInv, Shapes, MemoryStays, ServiceShape
<1>4. /\ QaShape(qa') /\ UNCHANGED <<qa.latest, qa.gap>> /\ (qa.pos)' \in -1..1
      /\ Advances => (qa.pos)' = 0
      /\ ~Advances => (qa.pos)' = qa.pos
  <2>1. QaShape(qa) /\ qa.pos \in -1..1
    BY DEF IInv, Shapes, Chained
  <2>2. CASE Advances
    <3>1. qa' = [qa EXCEPT !.pos = 0, !.low = FALSE]
      BY <1>1, <2>2
    <3>2. QaShape(qa') /\ (qa.latest)' = qa.latest /\ (qa.gap)' = qa.gap /\ (qa.pos)' = 0
      BY <2>1, <3>1 DEF QaShape
    <3>3. QED
      BY <2>2, <3>2
  <2>3. CASE ~Advances
    BY <1>1, <2>1, <2>3
  <2>4. QED
    BY <2>2, <2>3
<1>5. /\ gate' = [last |-> gate'.last, since |-> gate'.since]
      /\ Advances => (gate.last)' /\ (gate.since)' = 0
      /\ ~Advances => gate' = gate
  BY <1>1 DEF IInv, Shapes
<1>6. Shapes'
  BY <1>1, <1>3, <1>4, <1>5 DEF IInv, Shapes, MemoryStays
<1>7. Reading' /\ Judged'
  BY <1>2, <1>3, ReadingStays
<1>8. Shown'
  BY <1>1, <1>2, <1>4, ShownStays
<1>9. Looks'
  BY <1>1, <1>4, LooksStay
<1>10. Chained'
  BY <1>4 DEF IInv, Chained
<1>11. event' \in BOOLEAN
  BY <1>2 DEF Raise
<1>12. Flags'
  BY <1>1, <1>11 DEF IInv, Flags
<1>13. Proxies'
  BY <1>1, <1>2 DEF IInv, Proxies, Grown, Kept
<1>14. Ages'
  <2>1. /\ StaleCycles \in Nat /\ gate.since \in 0..StaleCycles /\ seen \in -1..StaleCycles
        /\ seen >= 0 => gate.last /\ qa.pos # 1 /\ seen <= gate.since
    BY DEF IInv, Ages, GateConstants
  <2>2. CASE Advances
    <3>1. seen' = 0
      BY <1>1, <2>1, <2>2 DEF Advances
    <3>2. QED
      BY <1>1, <1>4, <1>5, <2>1, <2>2, <3>1 DEF Ages
  <2>3. CASE ~Advances
    <3>1. qa.latest # None => gate.last /\ qa.pos # 1
      BY <2>3 DEF Advances
    <3>2. QED
      BY <1>1, <1>4, <1>5, <2>1, <2>3, <3>1 DEF Ages
  <2>4. QED
    BY <2>2, <2>3
<1>15. QED
  BY <1>2, <1>6, <1>7, <1>8, <1>9, <1>10, <1>12, <1>13, <1>14 DEF IInv

-----------------------------------------------------------------------------
(* The steps of the service *)

\* Steps of the service leave the proxy and the decision chain alone.
LEMMA ServiceLeaves ==
  ASSUME IInv, UNCHANGED <<chain, disk, edits, approval, proxy, gate>>,
         event' \in BOOLEAN, looked' \in BOOLEAN,
         ServiceShape(service'), QaShape(qa')
  PROVE  Shapes' /\ Kept' /\ Grown /\ Proxies' /\ Flags'
<1>1. Kept' /\ Grown
  BY NotGrown DEF IInv
<1>2. Shapes'
  BY DEF IInv, Shapes
<1>3. Proxies' /\ Flags'
  BY DEF IInv, Proxies, Flags
<1>4. QED
  BY <1>1, <1>2, <1>3

\* Records of verification leave the latest snapshot and the gate's count alone.
LEMMA AppendedSteps ==
  ASSUME IInv, NEW n \in Nat, qa' = Appended(qa, n), UNCHANGED <<proxy, gate, seen>>
  PROVE  /\ QaShape(qa') /\ (qa.latest)' = qa.latest /\ (qa.pos)' = qa.pos
         /\ (qa.gap)' \in 0..TailRecords /\ Chained' /\ Ages'
<1>1. /\ QaShape(qa') /\ (qa.latest)' = qa.latest /\ (qa.pos)' = qa.pos
      /\ (qa.gap)' \in 0..TailRecords
  BY AppendedFacts DEF IInv, Shapes, Chained
<1>2. Chained'
  BY <1>1 DEF IInv, Chained
<1>3. Ages'
  BY <1>1 DEF IInv, Ages, GateConstants
<1>4. QED
  BY <1>1, <1>2, <1>3

LEMMA StartServiceStep == ASSUME IInv, StartService PROVE IInv'
<1> DEFINE q == [qa EXCEPT !.stale = FALSE, !.low = qa.low \/ (qa.empty /\ gate.last)]
<1>1. /\ ServiceShape(service') /\ (service.pc)' = "starting"
      /\ (service.stat)' = Len(chain) /\ (service.offset)' = Len(chain)
      /\ (service.records)' = [i \in 1..Len(chain) |-> i]
      /\ UNCHANGED <<service.verified, service.skipped, service.conditions>>
      /\ (service.fingerprint.rules)' = disk /\ Writes(q, Snapshot({}, 0))
  BY StartServiceDoes
<1>2. looked' = TRUE /\ UNCHANGED <<chain, disk, edits, approval, proxy, event, gate>>
  BY DEF StartService
<1>3. QaShape(q) /\ q.gap \in 0..TailRecords
  <2>1. PICK low : low = (qa.low \/ (qa.empty /\ gate.last))
    OBVIOUS
  <2>2. q = [qa EXCEPT !.stale = FALSE, !.low = low]
    BY <2>1
  <2> HIDE DEF q
  <2>3. QED
    BY <2>2 DEF IInv, Shapes, QaShape, Chained
<1> HIDE DEF q
<1>4. Len(chain) \in Nat /\ 0 \in 0..Len(chain) /\ {} \in SUBSET Conditions
  BY DEF IInv, Kept
<1>5. QaShape(qa') /\ Chained' /\ Shown' /\ Looks' /\ Ages'
  <2>1. \A i \in 1..0 : chain[i].old => i \in (service.skipped)'
    OBVIOUS
  <2>2. QED
    BY <1>1, <1>2, <1>3, <1>4, <2>1, SnapshotWritten
<1>6. Shapes' /\ Kept' /\ Proxies' /\ Flags'
  <2>1. event' \in BOOLEAN /\ looked' \in BOOLEAN
    BY <1>2 DEF IInv, Flags
  <2>2. QED
    BY <1>1, <1>2, <1>5, <2>1, ServiceLeaves
<1>7. InOrder((service.records)') /\ Last((service.records)') = Len(chain)
  BY <1>1, <1>4, FirstBlock
<1>8. Reading'
  BY <1>1, <1>2, <1>4, <1>7 DEF Reading
<1>9. Judged'
  BY <1>1, <1>2 DEF IInv, Judged, Resting
<1>10. QED
  BY <1>5, <1>6, <1>8, <1>9 DEF IInv

LEMMA FinishStartStep == ASSUME IInv, FinishStart PROVE IInv'
<1>1. /\ ServiceShape(service') /\ (service.pc)' = "idle"
      /\ Judges(service, service', 1..service.offset)
      /\ UNCHANGED <<service.stat, service.offset, service.records>>
  BY FinishStartDoes
<1>2. PICK n \in Nat :
        \/ /\ (service.conditions)' = {} /\ qa' = Appended(qa, n)
           /\ UNCHANGED <<seen, service.fingerprint>> /\ looked' = looked
        \/ /\ (service.conditions)' # {} /\ looked'
           /\ Writes(Appended(qa, n), Snapshot((service.conditions)', service.offset))
           /\ (service.fingerprint.rules)' = disk
  BY FinishStartDoes
<1>3. /\ service.pc = "starting" /\ event' = FALSE /\ looked' = (looked \/ (service.conditions)' # {})
      /\ UNCHANGED <<chain, disk, edits, approval, proxy, gate>>
  BY DEF FinishStart
<1>4. Len(chain) \in Nat /\ service.offset \in 0..Len(chain) /\ Kept' /\ Grown
  BY <1>3, NotGrown DEF IInv, Kept, Reading
<1>5. Reading'
  BY <1>1, <1>3, <1>4 DEF IInv, Reading, Resting
<1>6. Judged'
  BY <1>1, <1>3 DEF Judged, Judges, IsDecision
<1>7. QaShape(qa') /\ Chained' /\ Shown' /\ Looks' /\ Ages'
  <2>1. CASE (service.conditions)' = {}
    <3>1. /\ qa' = Appended(qa, n) /\ UNCHANGED <<seen, service.fingerprint>> /\ looked' = looked
      BY <1>2, <2>1
    <3>2. QaShape(qa') /\ Chained' /\ Ages' /\ (qa.latest)' = qa.latest
      BY <1>3, <3>1, AppendedSteps
    <3>3. Shown'
      BY <1>1, <1>4, <3>2, ShownStays DEF Judges
    <3>4. Looks'
      BY <1>3, <3>1, <3>2, LooksStay
    <3>5. QED
      BY <3>2, <3>3, <3>4
  <2>2. CASE (service.conditions)' # {}
    <3>1. /\ Writes(Appended(qa, n), Snapshot((service.conditions)', service.offset))
          /\ (service.fingerprint.rules)' = disk
      BY <1>2, <2>2
    <3>2. QaShape(Appended(qa, n)) /\ Appended(qa, n).gap \in 0..TailRecords
      BY AppendedFacts DEF IInv, Shapes, Chained
    <3>3. (service.conditions)' \in SUBSET Conditions
      BY <1>1 DEF Judges, Conditions
    <3>4. QED
      BY <1>3, <1>4, <2>2, <3>1, <3>2, <3>3, SnapshotWritten
  <2>3. QED
    BY <2>1, <2>2
<1>8. Shapes' /\ Proxies' /\ Flags'
  <2>1. event' \in BOOLEAN /\ looked' \in BOOLEAN
    BY <1>3
  <2>2. QED
    BY <1>1, <1>3, <1>7, <2>1, ServiceLeaves
<1>9. QED
  BY <1>4, <1>5, <1>6, <1>7, <1>8 DEF IInv

LEMMA WakeStep == ASSUME IInv, NEW mode, Wake(mode) PROVE IInv'
<1>1. /\ service.pc = "idle" /\ event' = FALSE
      /\ service' = [service EXCEPT !.pc = "stat", !.mode = mode, !.stat = Len(chain)]
      /\ UNCHANGED <<chain, disk, edits, approval, proxy, qa, gate, seen, looked>>
  BY DEF Wake
<1>2. /\ ServiceShape(service') /\ (service.pc)' = "stat" /\ (service.stat)' = Len(chain)
      /\ UNCHANGED <<service.offset, service.records, service.verified, service.skipped,
                     service.conditions, service.fingerprint>>
  BY <1>1 DEF IInv, Shapes, ServiceShape
<1>3. Shapes' /\ Kept' /\ Grown /\ Proxies' /\ Flags'
  <2>1. event' \in BOOLEAN /\ looked' \in BOOLEAN /\ QaShape(qa')
    BY <1>1 DEF IInv, Flags, Shapes, QaShape
  <2>2. QED
    BY <1>1, <1>2, <2>1, ServiceLeaves
<1>4. Reading'
  BY <1>1, <1>2 DEF IInv, Kept, Reading, Resting
<1>5. Judged'
  BY <1>1, <1>2 DEF IInv, Judged, Resting, IsDecision
<1>6. Shown'
  BY <1>1, <1>2, <1>3, ShownStays
<1>7. Looks'
  BY <1>1, <1>2, LooksStay
<1>8. Chained' /\ Ages'
  BY <1>1 DEF IInv, Chained, Ages, GateConstants
<1>9. QED
  BY <1>3, <1>4, <1>5, <1>6, <1>7, <1>8 DEF IInv

LEMMA ReadStep == ASSUME IInv, Read PROVE IInv'
<1>1. /\ ServiceShape(service') /\ (service.pc)' = "drained" /\ (service.offset)' = service.stat
      /\ UNCHANGED <<service.stat, service.fingerprint>>
      /\ InOrder((service.records)') /\ Last((service.records)') \in service.stat..Len(chain)
  BY ReadDoes
<1>2. PICK batch : /\ Judges(service, service', batch)
                   /\ \A i \in 1..service.stat : i \in 1..service.offset \/ i \in batch
  BY ReadDoes
<1>3. PICK n \in Nat : qa' = Appended(qa, n)
  BY ReadDoes
<1>4. service.pc = "stat" /\ UNCHANGED <<chain, disk, edits, approval, proxy, gate, seen, looked>>
  BY DEF Read
<1>5. event' \in BOOLEAN
  BY DEF Read
<1>6. QaShape(qa') /\ Chained' /\ Ages' /\ (qa.latest)' = qa.latest
  BY <1>3, <1>4, AppendedSteps
<1>7. Shapes' /\ Kept' /\ Grown /\ Proxies' /\ Flags'
  <2>1. looked' \in BOOLEAN
    BY <1>4 DEF IInv, Flags
  <2>2. QED
    BY <1>1, <1>4, <1>5, <1>6, <2>1, ServiceLeaves
<1>8. Reading'
  BY <1>1, <1>4 DEF IInv, Reading, Resting
<1>9. Judged'
  <2>1. (service.verified \cup service.skipped \subseteq 1..Len(chain))'
    BY <1>2, <1>4 DEF Judges
  <2>2. (\A c \in service.conditions : c = "CR-CRIT-007" /\ \E i \in DOMAIN chain : chain[i].old)'
    BY <1>2, <1>4 DEF Judges
  <2>3. ASSUME NEW i \in 1..service.stat
        PROVE  /\ IsDecision(i) => i \in (service.verified)' \cup (service.skipped)'
               /\ chain[i].old => i \in (service.skipped)' \/ "CR-CRIT-007" \in (service.conditions)'
    <3>1. CASE i \in batch
      BY <1>2, <3>1 DEF Judges
    <3>2. CASE i \in 1..service.offset
      BY <1>2, <1>4, <3>2 DEF IInv, Judged, Judges, Resting
    <3>3. QED
      BY <1>2, <3>1, <3>2
  <2>4. QED
    BY <1>1, <1>4, <2>1, <2>2, <2>3 DEF Judged, IsDecision
<1>10. Shown'
  BY <1>2, <1>6, <1>7, ShownStays DEF Judges
<1>11. Looks'
  BY <1>1, <1>4, <1>6, LooksStay
<1>12. QED
  BY <1>6, <1>7, <1>8, <1>9, <1>10, <1>11 DEF IInv

LEMMA SnapStep == ASSUME IInv, Snap PROVE IInv'
<1>1. /\ ServiceShape(service') /\ (service.pc)' = "idle"
      /\ UNCHANGED <<service.stat, service.offset, service.records,
                     service.verified, service.skipped, service.conditions>>
      /\ (service.fingerprint.rules)' = disk
      /\ \/ Writes(qa, Snapshot(service.conditions, service.offset))
         \/ UNCHANGED <<qa, seen>> /\ service.fingerprint.rules = disk
  BY SnapDoes
<1>2. /\ service.pc = "drained" /\ looked' = TRUE
      /\ UNCHANGED <<chain, disk, edits, approval, proxy, gate>>
  BY DEF Snap
<1>3. event' \in BOOLEAN
  BY DEF Snap, Raise, IInv, Flags
<1>4. Len(chain) \in Nat /\ service.offset \in 0..Len(chain) /\ QaShape(qa) /\ qa.gap \in 0..TailRecords
  BY DEF IInv, Kept, Reading, Shapes, Chained
<1>5. QaShape(qa') /\ Chained' /\ Shown' /\ Looks' /\ Ages'
  <2>1. CASE Writes(qa, Snapshot(service.conditions, service.offset))
    <3>1. service.conditions \in SUBSET Conditions
      BY ConditionsKnown
    <3>2. service.conditions = {} =>
            \A i \in 1..service.offset : chain[i].old => i \in (service.skipped)'
      BY <1>1, <1>2 DEF IInv, Judged, Resting
    <3>3. QED
      BY <1>1, <1>2, <1>4, <2>1, <3>1, <3>2, SnapshotWritten
  <2>2. CASE UNCHANGED <<qa, seen>> /\ service.fingerprint.rules = disk
    <3>1. Kept' /\ Grown
      BY <1>2, NotGrown DEF IInv
    <3>2. Shown'
      BY <1>1, <2>2, <3>1, ShownStays
    <3>3. Looks'
      BY <1>1, <1>2, <2>2 DEF IInv, Looks
    <3>4. Chained' /\ Ages'
      BY <1>2, <2>2 DEF IInv, Chained, Ages, GateConstants
    <3>5. QED
      BY <1>4, <2>2, <3>2, <3>3, <3>4
  <2>3. QED
    BY <1>1, <2>1, <2>2
<1>6. Shapes' /\ Kept' /\ Grown /\ Proxies' /\ Flags'
  <2>1. looked' \in BOOLEAN
    BY <1>2
  <2>2. QED
    BY <1>1, <1>2, <1>3, <1>5, <2>1, ServiceLeaves
<1>7. Reading'
  BY <1>1, <1>2 DEF IInv, Reading, Resting
<1>8. Judged'
  BY <1>1, <1>2 DEF IInv, Judged, Resting, IsDecision
<1>9. QED
  BY <1>5, <1>6, <1>7, <1>8 DEF IInv

LEMMA ServiceDiesStep == ASSUME IInv, ServiceDies PROVE IInv'
<1>1. /\ ServiceShape(service') /\ QaShape(qa')
      /\ (service.pc)' = "down" /\ (service.stat)' = 0 /\ (service.offset)' = 0
      /\ (service.conditions)' = {} /\ UNCHANGED <<service.verified, service.skipped>>
      /\ UNCHANGED <<qa.latest, qa.pos, qa.gap>>
  BY ServiceDiesDoes
<1>2. event' = FALSE /\ UNCHANGED <<chain, disk, edits, approval, proxy, gate, seen, looked>>
  BY DEF ServiceDies
<1>3. Shapes' /\ Kept' /\ Grown /\ Proxies' /\ Flags'
  <2>1. event' \in BOOLEAN /\ looked' \in BOOLEAN
    BY <1>2 DEF IInv, Flags
  <2>2. QED
    BY <1>1, <1>2, <2>1, ServiceLeaves
<1>4. Reading'
  BY <1>1, <1>2 DEF IInv, Kept, Reading, Resting
<1>5. Judged'
  BY <1>1, <1>2 DEF IInv, Judged, Resting
<1>6. Shown'
  BY <1>1, <1>3, ShownStays
<1>7. Looks'
  BY <1>1, <1>2, LooksStay
<1>8. Chained' /\ Ages'
  BY <1>1, <1>2 DEF IInv, Chained, Ages, GateConstants
<1>9. QED
  BY <1>3, <1>4, <1>5, <1>6, <1>7, <1>8 DEF IInv

\* The latest snapshot goes into the archive.
LEMMA ArchiveStep == ASSUME IInv, NEW whole \in BOOLEAN, ArchiveQuality(whole) PROVE IInv'
<1>1. /\ qa' = [qa EXCEPT !.archives = @ + 1, !.latest = None, !.pos = 0, !.gap = 0, !.empty = ~whole,
                  !.stale = whole /\ service.pc # "down"]
      /\ seen' = -1 /\ Raise
      /\ UNCHANGED <<chain, disk, edits, approval, proxy, service, gate, looked>>
  BY DEF ArchiveQuality
<1>2. QaShape(qa') /\ (qa.latest)' = None /\ (qa.pos)' = 0 /\ (qa.gap)' = 0
  BY <1>1 DEF IInv, Shapes, QaShape
<1>3. event' \in BOOLEAN
  BY <1>1 DEF Raise
<1>4. MemoryStays
  BY <1>1 DEF IInv, Shapes, MemoryStays, ServiceShape
<1>5. Shapes' /\ Kept' /\ Grown /\ Proxies' /\ Flags'
  <2>1. looked' \in BOOLEAN
    BY <1>1 DEF IInv, Flags
  <2>2. QED
    BY <1>1, <1>2, <1>3, <1>4, <2>1, ServiceLeaves DEF MemoryStays
<1>6. Reading' /\ Judged'
  BY <1>4, <1>5, ReadingStays
<1>7. Shown' /\ Looks'
  BY <1>2 DEF Shown, Looks
<1>8. Chained' /\ Ages'
  BY <1>1, <1>2 DEF IInv, Chained, Ages, GateConstants
<1>9. QED
  BY <1>5, <1>6, <1>7, <1>8 DEF IInv

-----------------------------------------------------------------------------
(* The theorems *)

LEMMA Initially == ASSUME GateConstants PROVE Init => IInv
<1> SUFFICES ASSUME Init PROVE IInv
  OBVIOUS
<1>1. Len(chain) = 0 /\ DOMAIN chain = {} /\ chain \in Seq(Entries)
  BY DEF Init
<1>2. Shapes
  BY DEF Init, NotRunning, Shapes, ServiceShape, QaShape
<1>6. Kept /\ Flags
  <2>1. Kept
    BY <1>1 DEF Kept, GateConstants
  <2>2. approval.old = FALSE /\ event = FALSE /\ looked = FALSE
    BY DEF Init
  <2>3. QED
    BY <2>1, <2>2 DEF Flags
<1>7. Proxies
  BY <1>1 DEF Init, Proxies, GateConstants
<1>3. Reading /\ Judged
  BY <1>1 DEF Init, NotRunning, Reading, Judged, Resting
<1>4. Chained /\ Shown /\ Looks /\ Ages
  BY DEF Init, Chained, Shown, Looks, Ages, GateConstants
<1>5. QED
  BY <1>2, <1>3, <1>4, <1>6, <1>7 DEF IInv

LEMMA Inductive == IInv /\ [Next]_vars => IInv'
<1> SUFFICES ASSUME IInv, [Next]_vars PROVE IInv'
  OBVIOUS
<1>1. CASE UNCHANGED vars
  <2>1. UNCHANGED <<chain, service, qa, looked, disk>> /\ Proxies' /\ Flags' /\ Shapes' /\ Ages'
    BY <1>1 DEF vars, IInv, Proxies, Flags, Shapes, ServiceShape, QaShape, Ages
  <2>2. QED
    BY <2>1, OutsideSteps
<1>2. CASE StartLoaded \/ StartPolicy \/ StartGate \/ ProxyDies
  BY <1>2, StartLoadedStep, StartPolicyStep, StartGateStep, ProxyDiesStep
<1>3. CASE \E approved \in BOOLEAN : Call(approved)
  BY <1>3, CallStep
<1>4. CASE StartService \/ ServiceSteps \/ ServiceDies
  BY <1>4, StartServiceStep, FinishStartStep, WakeStep, ReadStep, SnapStep, ServiceDiesStep
     DEF ServiceSteps
<1>5. CASE Tick \/ EditRules \/ Approve \/ ApprovalAges
  BY <1>5, TickStep, EditRulesStep, ApproveStep, ApprovalAgesStep
<1>6. CASE \E whole \in BOOLEAN : ArchiveQuality(whole)
  BY <1>6, ArchiveStep
<1>7. QED
  BY <1>1, <1>2, <1>3, <1>4, <1>5, <1>6 DEF Next

LEMMA Induction == ASSUME GateConstants PROVE Spec => []IInv
BY Initially, Inductive, PTL DEF Spec

\* Every variable keeps the values its comment says.
THEOREM TypeCorrect == ASSUME GateConstants PROVE Spec => []TypeOK
<1>1. ASSUME IInv PROVE TypeOK
  <2>1. /\ Len(chain) <= MaxChain
        /\ \A i \in DOMAIN chain :
             /\ chain[i].kind \in {"loaded", "approval", "decision"}
             /\ chain[i].hash \in Places \cup {None}
             /\ chain[i].via \in 0..i - 1 /\ chain[i].old \in BOOLEAN
    <3>1. Kept
      BY <1>1 DEF IInv
    <3>2. ASSUME NEW i \in DOMAIN chain
          PROVE  /\ chain[i].kind \in {"loaded", "approval", "decision"}
                 /\ chain[i].hash \in Places \cup {None}
                 /\ chain[i].via \in 0..i - 1 /\ chain[i].old \in BOOLEAN
      <4>1. chain[i] \in Entries /\ chain[i].via \in 0..(i - 1)
        BY <3>1 DEF Kept
      <4>2. QED
        BY <4>1 DEF Entries
    <3>3. QED
      BY <3>1, <3>2 DEF Kept
  <2>2. service.conditions \subseteq Conditions
    BY <1>1, ConditionsKnown
  <2>3. QED
    BY <1>1, <2>1, <2>2 DEF IInv, TypeOK, Proxies, Flags, Reading, Judged, Chained, Ages, Resting
<1>2. QED
  BY <1>1, Induction, PTL

\* Whatever is appended between the stat and the read of the service's watcher,
\* no decision before its offset is passed over when it rests, and a decision
\* that was not made by an old approval raises no condition.
THEOREM JudgesDecisions == ASSUME GateConstants PROVE Spec => []DecisionsJudged
<1>1. ASSUME IInv PROVE DecisionsJudged
  BY <1>1 DEF IInv, Judged, Resting, DecisionsJudged
<1>2. QED
  BY <1>1, Induction, PTL

\* ProxyQualityGate lets no call through on a snapshot made after a decision by
\* an old approval was verified.
THEOREM FindingShuts == ASSUME GateConstants PROVE Spec => FindingShutsGate
<1>1. ASSUME IInv, LetThrough
      PROVE  \A i \in 1..qa.latest.judged : chain[i].old => i \in service.skipped
  BY <1>1 DEF IInv, Shown, LetThrough, Verdict, Healthy
<1>2. IInv => [LetThrough =>
        \A i \in 1..qa.latest.judged : chain[i].old => i \in service.skipped]_vars
  BY <1>1
<1>3. QED
  BY <1>2, Induction, PTL DEF FindingShutsGate

\* Once the service looked at edited rules, ProxyQualityGate lets no call
\* through that the proxy would decide by others.
THEOREM EditShuts == ASSUME GateConstants PROVE Spec => EditSeenShutsGate
<1>1. ASSUME IInv, LetThrough, looked PROVE disk = proxy.expected
  BY <1>1 DEF IInv, Looks, LetThrough, Verdict
<1>2. IInv => [LetThrough /\ looked => disk = proxy.expected]_vars
  BY <1>1
<1>3. QED
  BY <1>2, Induction, PTL DEF EditSeenShutsGate

\* ProxyQualityGate lets no call through on a snapshot it first read StaleCycles
\* heartbeats ago, whatever the numbering of the quality chain did meanwhile.
THEOREM StaleShuts == ASSUME GateConstants PROVE Spec => NoCallOnStaleSnapshot
<1>1. ASSUME IInv, LetThrough PROVE seen < StaleCycles
  <2>1. qa.latest # None /\ ~(~Advances /\ gate.since >= StaleCycles)
    BY <1>1 DEF LetThrough, Verdict
  <2>2. StaleCycles \in Nat \ {0} /\ Ages
    BY <1>1 DEF IInv, GateConstants
  <2>3. CASE Advances
    BY <2>2, <2>3 DEF Advances, Ages
  <2>4. CASE ~Advances
    BY <2>1, <2>2, <2>4 DEF Ages
  <2>5. QED
    BY <2>3, <2>4
<1>2. IInv => [LetThrough => seen < StaleCycles]_vars
  BY <1>1
<1>3. QED
  BY <1>2, Induction, PTL DEF NoCallOnStaleSnapshot

====
