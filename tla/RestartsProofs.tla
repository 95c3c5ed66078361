--------------------------- MODULE RestartsProofs ---------------------------
(***************************************************************************)
(* Proofs about Restarts, for any limit, window and backoff times.          *)
(*                                                                          *)
(* How long a service may be left down is a recursive function.  That there *)
(* is such a function, and what its values are, is by induction, for which  *)
(* LeastNumber serves: a set of naturals that is not empty has a least one. *)
(***************************************************************************)
EXTENDS Restarts, FiniteSetTheorems, WellFoundedInduction, TLAPS

Lengths == InitialBackoff..MaxBackoff

-----------------------------------------------------------------------------
(* Induction *)

\* A set of natural numbers that is not empty has a least element.
LEMMA LeastNumber ==
  ASSUME NEW T \in SUBSET Nat, T # {}
  PROVE  \E x \in T : \A y \in T : x <= y
<1> DEFINE Less == OpToRel(<, Nat)
<1>1. IsWellFoundedOn(Less, Nat)
  BY NatLessThanWellFounded
<1>2. \A x, y \in Nat : x < y => <<x, y>> \in Less
  BY DEF OpToRel
<1> HIDE DEF Less
<1>3. \E x \in T : \A y \in T : ~(<<y, x>> \in Less)
  BY <1>1, WFMin
<1>4. PICK x \in T : \A y \in T : ~(<<y, x>> \in Less)
  BY <1>3
<1>5. ASSUME NEW y \in T PROVE x <= y
  <2>1. x \in Nat /\ y \in Nat /\ ~(y < x)
    BY <1>2, <1>4
  <2>2. QED
    BY <2>1
<1>6. QED
  BY <1>5

\* A set that holds 0, and with each number the next, holds all.
LEMMA Reaches ==
  ASSUME NEW S, 0 \in S, \A n \in Nat : n \in S => n + 1 \in S
  PROVE  \A n \in Nat : n \in S
<1> SUFFICES ASSUME NEW n \in Nat, n \notin S PROVE FALSE
  OBVIOUS
<1>1. PICK m \in Nat \ S : \A y \in Nat \ S : m <= y
  <2> DEFINE T == Nat \ S
  <2>1. T \in SUBSET Nat /\ T # {}
    OBVIOUS
  <2> HIDE DEF T
  <2>2. \E x \in T : \A y \in T : x <= y
    BY <2>1, LeastNumber
  <2>3. QED
    BY <2>2 DEF T
<1>2. m # 0 /\ m - 1 \in Nat
  BY <1>1
<1>3. m - 1 \in S
  BY <1>1, <1>2
<1>4. (m - 1) + 1 \in S
  BY <1>2, <1>3
<1>5. QED
  BY <1>1, <1>4

-----------------------------------------------------------------------------
(* The lengths of the backoff *)

Next1(x) == Smaller(2 * x, MaxBackoff)

\* The first lengths, up to the one with number n.
Begins(f, n) ==
  f \in [0..n -> Lengths] /\ f[0] = InitialBackoff /\ \A i \in 1..n : f[i] = Next1(f[i - 1])

LEMMA NextLength == ASSUME RestartConstants, NEW x \in Lengths PROVE Next1(x) \in Lengths /\ x <= Next1(x)
  BY DEF RestartConstants, Lengths, Next1, Smaller

\* There are first lengths up to each number.
LEMMA BeginsExist == ASSUME RestartConstants PROVE \A n \in Nat : \E f : Begins(f, n)
<1> DEFINE S == {n \in Nat : \E f : Begins(f, n)}
<1>1. 0 \in S
  <2> DEFINE f == [i \in 0..0 |-> InitialBackoff]
  <2>1. Begins(f, 0)
    BY DEF RestartConstants, Begins, Lengths
  <2>2. QED
    BY <2>1
<1>2. ASSUME NEW n \in Nat, n \in S PROVE n + 1 \in S
  <2>1. PICK f : Begins(f, n)
    BY <1>2
  <2> DEFINE g == [i \in 0..(n + 1) |-> IF i = n + 1 THEN Next1(f[n]) ELSE f[i]]
  <2>2. f[n] \in Lengths /\ Next1(f[n]) \in Lengths
    BY <2>1, NextLength DEF Begins
  <2>3. g \in [0..(n + 1) -> Lengths] /\ g[0] = InitialBackoff
    BY <2>1, <2>2 DEF Begins
  <2>4. \A i \in 1..(n + 1) : g[i] = Next1(g[i - 1])
    BY <2>1 DEF Begins
  <2>5. Begins(g, n + 1)
    BY <2>3, <2>4 DEF Begins
  <2>6. QED
    BY <2>5
<1> HIDE DEF S
<1>3. \A n \in Nat : n \in S
  BY <1>1, <1>2, Reaches
<1>4. QED
  BY <1>3 DEF S

\* They agree with each other.
LEMMA BeginsAgree ==
  ASSUME NEW n \in Nat, NEW f, Begins(f, n), NEW m \in Nat, NEW g, Begins(g, m)
  PROVE  \A i \in Nat : i <= n /\ i <= m => f[i] = g[i]
<1> DEFINE S == {i \in Nat : i <= n /\ i <= m => f[i] = g[i]}
<1>1. 0 \in S
  BY DEF Begins
<1>2. ASSUME NEW i \in Nat, i \in S PROVE i + 1 \in S
  <2> SUFFICES ASSUME i + 1 <= n, i + 1 <= m PROVE f[i + 1] = g[i + 1]
    OBVIOUS
  <2>1. f[i] = g[i]
    BY <1>2
  <2>2. i + 1 \in 1..n /\ i + 1 \in 1..m /\ (i + 1) - 1 = i
    OBVIOUS
  <2>3. f[i + 1] = Next1(f[i]) /\ g[i + 1] = Next1(g[i])
    BY <2>2 DEF Begins
  <2>4. QED
    BY <2>1, <2>3
<1> HIDE DEF S
<1>3. \A i \in Nat : i \in S
  BY <1>1, <1>2, Reaches
<1>4. QED
  BY <1>3 DEF S

\* So the recursion defines a function.
LEMMA DoubledDefined ==
  ASSUME RestartConstants
  PROVE  Doubled = [n \in Nat |-> IF n = 0 THEN InitialBackoff
                                  ELSE Smaller(2 * Doubled[n - 1], MaxBackoff)]
<1> DEFINE F(n) == CHOOSE f : Begins(f, n)
           h == [n \in Nat |-> F(n)[n]]
<1>1. \A n \in Nat : Begins(F(n), n)
  BY BeginsExist
<1> HIDE DEF F
<1>2. h[0] = InitialBackoff
  BY <1>1 DEF Begins
<1>3. ASSUME NEW n \in Nat, n # 0 PROVE h[n] = Smaller(2 * h[n - 1], MaxBackoff)
  <2>1. n - 1 \in Nat /\ n \in 1..n /\ n - 1 <= n
    BY <1>3
  <2>2. Begins(F(n), n) /\ Begins(F(n - 1), n - 1)
    BY <1>1, <2>1
  <2>3. F(n)[n] = Next1(F(n)[n - 1])
    BY <2>1, <2>2 DEF Begins
  <2>4. F(n)[n - 1] = F(n - 1)[n - 1]
    BY <2>1, <2>2, BeginsAgree
  <2>5. QED
    BY <2>1, <2>3, <2>4 DEF Next1
<1>4. h = [n \in Nat |-> IF n = 0 THEN InitialBackoff ELSE Smaller(2 * h[n - 1], MaxBackoff)]
  BY <1>2, <1>3
<1> HIDE DEF h
<1>5. QED
  BY <1>4 DEF Doubled

\* Its values: each twice the one before it, as far as MaxBackoff, which is
\* reached after at most MaxBackoff steps.
LEMMA DoubledValues ==
  ASSUME RestartConstants
  PROVE  /\ Doubled[0] = InitialBackoff
         /\ \A n \in Nat : /\ Doubled[n] \in Lengths
                           /\ Doubled[n + 1] = Next1(Doubled[n])
                           /\ Doubled[n] <= Doubled[n + 1]
                           /\ n + 1 >= MaxBackoff => Doubled[n] = MaxBackoff
<1>0. \A n \in Nat : Doubled[n] = IF n = 0 THEN InitialBackoff ELSE Next1(Doubled[n - 1])
  <2> DEFINE h == [n \in Nat |-> IF n = 0 THEN InitialBackoff
                                ELSE Smaller(2 * Doubled[n - 1], MaxBackoff)]
  <2>1. Doubled = h
    BY DoubledDefined
  <2>2. \A n \in Nat : h[n] = IF n = 0 THEN InitialBackoff ELSE Next1(Doubled[n - 1])
    BY DEF Next1
  <2> HIDE DEF h
  <2>3. QED
    BY <2>1, <2>2
<1>1. Doubled[0] = InitialBackoff
  BY <1>0
<1>2. ASSUME NEW n \in Nat PROVE Doubled[n + 1] = Next1(Doubled[n])
  <2>1. n + 1 \in Nat /\ n + 1 # 0 /\ (n + 1) - 1 = n
    OBVIOUS
  <2>2. Doubled[n + 1] = Next1(Doubled[(n + 1) - 1])
    BY <1>0, <2>1
  <2>3. QED
    BY <2>1, <2>2
<1> DEFINE S == {n \in Nat : Doubled[n] \in Lengths /\ (Doubled[n] >= n + 1 \/ Doubled[n] = MaxBackoff)}
<1>3. 0 \in S
  BY <1>1 DEF RestartConstants, Lengths
<1>4. ASSUME NEW n \in Nat, n \in S PROVE n + 1 \in S
  <2>1. Doubled[n] \in Lengths /\ (Doubled[n] >= n + 1 \/ Doubled[n] = MaxBackoff)
    BY <1>4
  <2>2. Doubled[n + 1] = Smaller(2 * Doubled[n], MaxBackoff)
    BY <1>2 DEF Next1
  <2>3. Doubled[n + 1] \in Lengths
    BY <1>2, <2>1, NextLength
  <2>4. Doubled[n + 1] >= n + 2 \/ Doubled[n + 1] = MaxBackoff
    BY <2>1, <2>2 DEF RestartConstants, Lengths, Smaller
  <2>5. QED
    BY <2>3, <2>4
<1> HIDE DEF S
<1>5. \A n \in Nat : n \in S
  BY <1>3, <1>4, Reaches
<1>6. \A n \in Nat : Doubled[n] \in Lengths /\ (Doubled[n] >= n + 1 \/ Doubled[n] = MaxBackoff)
  BY <1>5 DEF S
<1>7. ASSUME NEW n \in Nat
      PROVE  /\ Doubled[n] <= Doubled[n + 1]
             /\ n + 1 >= MaxBackoff => Doubled[n] = MaxBackoff
  BY <1>2, <1>6, NextLength DEF RestartConstants, Lengths
<1>8. QED
  BY <1>1, <1>2, <1>6, <1>7

-----------------------------------------------------------------------------
(* The invariant *)

Values ==
  /\ service \in {"none", "up", "exited"}
  /\ upFor \in 0..Window + 2 /\ wait \in 0..MaxBackoff
  /\ times \subseteq 0..Window /\ starts \subseteq 0..Window
  /\ backoff \in Lengths /\ trips \in 0..MaxBackoff /\ downFor \in Nat
Flags == polled \in BOOLEAN /\ disabled \in BOOLEAN

\* A disabled service has no process; it waits, until the poll in which the wait
\* is over starts it.
Disabled ==
  /\ disabled <=> service = "none"
  /\ polled /\ disabled => wait > 0

\* A service that ran longer than a window has its first backoff again, before
\* its disables are forgotten.
Reset == polled /\ upFor > Window /\ service = "up" => backoff = InitialBackoff

\* The backoff and the wait are no longer than the disables allow.
Bounded ==
  /\ backoff <= Doubled[trips]
  /\ disabled => trips >= 1 /\ downFor + wait <= Doubled[trips - 1] + 1
  /\ service = "up" => downFor = 0
  /\ service = "exited" => downFor <= 1 /\ (polled => downFor = 0)

\* All starts in the window but one are restarts, and those are counted; while
\* the service is disabled its starts leave the window before the wait is over.
Counts ==
  /\ ~disabled => Cardinality(times) <= MaxRestarts
  /\ ~disabled => \E first \in Int : starts \subseteq times \cup {first}
  /\ disabled => /\ Cardinality(starts) <= MaxRestarts + 1
                 /\ \A age \in starts : age + wait >= InitialBackoff

IInv == Values /\ Flags /\ Disabled /\ Reset /\ Bounded /\ Counts

-----------------------------------------------------------------------------
(* Ages *)

\* As time passes no age is added.
LEMMA OlderAges ==
  ASSUME RestartConstants, NEW A \in SUBSET (0..Window)
  PROVE  /\ Older(A) \subseteq 0..Window
         /\ \A b \in Older(A) : b - 1 \in A
         /\ IsFiniteSet(A) /\ IsFiniteSet(Older(A))
         /\ Cardinality(A) \in Nat /\ Cardinality(Older(A)) \in Nat
         /\ Cardinality(Older(A)) <= Cardinality(A)
<1>1. Older(A) \subseteq 0..Window /\ \A b \in Older(A) : b - 1 \in A
  BY DEF Older
<1>2. IsFiniteSet(0..Window)
  BY FS_Interval DEF RestartConstants
<1>3. IsFiniteSet(A) /\ IsFiniteSet(Older(A))
  BY <1>1, <1>2, FS_Subset
<1> DEFINE younger == [b \in Older(A) |-> b - 1]
<1>4. younger \in Injection(Older(A), A)
  <2>1. younger \in [Older(A) -> A]
    BY <1>1
  <2>2. \A b, c \in Older(A) : younger[b] = younger[c] => b = c
    BY <1>1 DEF RestartConstants
  <2>3. QED
    BY <2>1, <2>2 DEF Injection, IsInjective
<1> HIDE DEF younger
<1>5. Cardinality(Older(A)) <= Cardinality(A)
  BY <1>3, <1>4, FS_Injection
<1>6. Cardinality(A) \in Nat /\ Cardinality(Older(A)) \in Nat
  BY <1>3, FS_CardinalityType
<1>7. QED
  BY <1>1, <1>3, <1>5, <1>6

\* A set of ages with one more.
LEMMA OneMore ==
  ASSUME RestartConstants, NEW A \in SUBSET (0..Window), NEW B \in SUBSET (0..Window), NEW first,
         A \subseteq B \cup {first}
  PROVE  Cardinality(A) \in Nat /\ Cardinality(B) \in Nat /\ Cardinality(A) <= Cardinality(B) + 1
<1>1. IsFiniteSet(A) /\ IsFiniteSet(B) /\ Cardinality(A) \in Nat /\ Cardinality(B) \in Nat
  BY OlderAges
<1>2. /\ IsFiniteSet(B \cup {first}) /\ Cardinality(B \cup {first}) <= Cardinality(B) + 1
      /\ Cardinality(B \cup {first}) \in Nat
  <2>1. /\ IsFiniteSet(B \cup {first})
        /\ Cardinality(B \cup {first}) = IF first \in B THEN Cardinality(B) ELSE Cardinality(B) + 1
    BY <1>1, FS_AddElement, Zenon
  <2>2. QED
    BY <1>1, <2>1
<1>3. Cardinality(A) <= Cardinality(B \cup {first})
  BY <1>2, FS_Subset
<1>4. QED
  BY <1>1, <1>2, <1>3

-----------------------------------------------------------------------------
(* One lemma for each kind of step.                                          *)

LEMMA Initially == ASSUME RestartConstants, Init PROVE IInv
<1>1. Values /\ Disabled /\ Reset
  BY DEF RestartConstants, Init, Values, Disabled, Reset, Lengths
<1>2. Flags
  BY Zenon DEF Init, Flags
<1>3. Bounded
  BY DoubledValues DEF RestartConstants, Init, Bounded
<1>4. Counts
  <2>1. Cardinality(times) = 0 /\ starts \subseteq times \cup {0}
    BY FS_EmptySet DEF Init
  <2>2. QED
    BY <2>1 DEF RestartConstants, Init, Counts
<1>5. QED
  BY <1>1, <1>2, <1>3, <1>4 DEF IInv

LEMMA FlagsStep == ASSUME Flags, [Next]_vars PROVE Flags'
BY Zenon DEF Flags, Next, Tick, Exit, Poll, Runs, Restart, Disable, StaysDown, ReEnable, vars

\* Time passes.
LEMMA TickStep == ASSUME RestartConstants, IInv, Tick PROVE Values' /\ Disabled' /\ Reset' /\ Bounded' /\ Counts'
<1>0. Values /\ Flags /\ Disabled /\ Reset /\ Bounded /\ Counts
  BY DEF IInv
<1>1. /\ polled /\ ~polled' /\ UNCHANGED <<service, disabled, backoff>>
      /\ times' = Older(times) /\ starts' = Older(starts)
  BY DEF Tick
<1>2. /\ upFor' \in {upFor + 1, Window + 2} /\ upFor' <= Window + 2 /\ upFor' \in Int
      /\ wait' = IF wait > 0 THEN wait - 1 ELSE 0
      /\ downFor' = IF service = "up" THEN 0 ELSE downFor + 1
      /\ trips' = IF service = "up" /\ upFor > Window THEN 0 ELSE trips
  BY <1>0 DEF Tick, Smaller, Values, RestartConstants
<1>3. Values'
  BY <1>0, <1>1, <1>2, OlderAges DEF Values, RestartConstants
<1>4. Disabled' /\ Reset'
  BY <1>0, <1>1 DEF Disabled, Reset
<1>5. Bounded'
  <2>1. backoff' <= Doubled[trips']
    BY <1>0, <1>1, <1>2, DoubledValues DEF Reset, Bounded, Lengths, RestartConstants
  <2>2. disabled' => trips' >= 1 /\ downFor' + wait' <= Doubled[trips' - 1] + 1
    BY <1>0, <1>1, <1>2, DoubledValues DEF Disabled, Bounded, Values, Lengths, RestartConstants
  <2>3. /\ service' = "up" => downFor' = 0
        /\ service' = "exited" => downFor' <= 1 /\ (polled' => downFor' = 0)
    BY <1>0, <1>1, <1>2 DEF Bounded
  <2>4. QED
    BY <2>1, <2>2, <2>3 DEF Bounded
<1>6. Counts'
  <2>1. /\ Cardinality(Older(times)) <= Cardinality(times)
        /\ Cardinality(Older(starts)) <= Cardinality(starts)
        /\ Cardinality(Older(times)) \in Nat /\ Cardinality(times) \in Nat
        /\ Cardinality(Older(starts)) \in Nat /\ Cardinality(starts) \in Nat
    BY <1>0, OlderAges DEF Values
  <2>2. ~disabled' => Cardinality(times') <= MaxRestarts
    BY <1>0, <1>1, <2>1 DEF Counts, RestartConstants
  <2>3. ASSUME ~disabled' PROVE \E first \in Int : starts' \subseteq times' \cup {first}
    <3>1. PICK first \in Int : starts \subseteq times \cup {first}
      BY <1>0, <1>1, <2>3 DEF Counts
    <3>2. starts' \subseteq times' \cup {first + 1}
      BY <1>0, <1>1, <3>1 DEF Older, Values
    <3>3. QED
      BY <3>2
  <2>4. ASSUME disabled'
        PROVE  /\ Cardinality(starts') <= MaxRestarts + 1
               /\ \A age \in starts' : age + wait' >= InitialBackoff
    <3>1. Cardinality(starts') <= MaxRestarts + 1
      BY <1>0, <1>1, <2>1, <2>4 DEF Counts, RestartConstants
    <3>2. ASSUME NEW age \in starts' PROVE age + wait' >= InitialBackoff
      <4>1. age - 1 \in starts /\ age \in 0..Window
        BY <1>0, <1>1, OlderAges DEF Values
      <4>2. (age - 1) + wait >= InitialBackoff
        BY <1>0, <1>1, <2>4, <4>1 DEF Counts
      <4>3. QED
        BY <1>0, <1>2, <4>1, <4>2 DEF Values, RestartConstants
    <3>3. QED
      BY <3>1, <3>2
  <2>5. QED
    BY <2>2, <2>3, <2>4 DEF Counts
<1>7. QED
  BY <1>3, <1>4, <1>5, <1>6

\* The process exits.
LEMMA ExitStep == ASSUME RestartConstants, IInv, Exit PROVE Values' /\ Disabled' /\ Reset' /\ Bounded' /\ Counts'
<1>1. Values' /\ Disabled' /\ Reset' /\ Bounded'
  BY DEF IInv, Exit, Values, Disabled, Reset, Bounded
<1>2. Counts'
  BY DEF IInv, Exit, Counts
<1>3. QED
  BY <1>1, <1>2

\* A start puts one more start in the window.
LEMMA RestartStep ==
  ASSUME RestartConstants, IInv, ~polled, polled', Restart
  PROVE  Values' /\ Disabled' /\ Reset' /\ Bounded' /\ Counts'
<1>0. Values /\ Disabled /\ Bounded /\ Counts
  BY DEF IInv
<1>1. /\ ~disabled /\ ~disabled' /\ service' = "up" /\ upFor' = 0 /\ downFor' = 0
      /\ times' = times \cup {0} /\ starts' = starts \cup {0}
      /\ Cardinality(times') <= MaxRestarts
      /\ UNCHANGED <<wait, backoff, trips>>
  BY DEF Restart, Starts, Exits
<1>2. Values'
  BY <1>0, <1>1 DEF Values, RestartConstants
<1>3. Disabled' /\ Reset' /\ Bounded'
  BY <1>0, <1>1 DEF Disabled, Reset, Bounded, RestartConstants
<1>4. Counts'
  BY <1>0, <1>1 DEF Counts
<1>5. QED
  BY <1>2, <1>3, <1>4

\* The backoff that is used up is doubled, and one more disable remembered.
LEMMA DisableStep ==
  ASSUME RestartConstants, IInv, ~polled, polled', Disable
  PROVE  Values' /\ Disabled' /\ Reset' /\ Bounded' /\ Counts'
<1>0. Values /\ Disabled /\ Bounded /\ Counts
  BY DEF IInv
<1>1. /\ ~disabled /\ disabled' /\ service = "exited" /\ service' = "none"
      /\ times' = times \cup {0} /\ wait' = backoff
      /\ backoff' = Next1(backoff) /\ trips' = Smaller(trips + 1, MaxBackoff)
      /\ UNCHANGED <<upFor, starts, downFor>>
  BY DEF Disable, Exits, Next1
<1>2. /\ backoff \in Lengths /\ backoff' \in Lengths
      /\ trips' \in 1..MaxBackoff
      /\ trips' = trips + 1 \/ (trips' = MaxBackoff /\ trips = MaxBackoff)
  BY <1>0, <1>1, NextLength DEF Values, Smaller, Lengths, RestartConstants
<1>3. Values'
  BY <1>0, <1>1, <1>2 DEF Values, Lengths, RestartConstants
<1>4. Disabled' /\ Reset'
  BY <1>1, <1>2 DEF Disabled, Reset, Lengths, RestartConstants
<1>5. backoff <= Doubled[trips' - 1] /\ backoff' <= Doubled[trips']
  <2>1. trips \in Nat /\ Doubled[trips] \in Lengths /\ backoff <= Doubled[trips]
    BY <1>0, DoubledValues DEF Values, Bounded
  <2>2. CASE trips' = trips + 1
    <3>1. trips' - 1 = trips /\ Doubled[trips'] = Next1(Doubled[trips])
      BY <2>1, <2>2, DoubledValues
    <3>2. Next1(backoff) <= Next1(Doubled[trips])
      BY <1>2, <2>1 DEF Next1, Smaller, Lengths, RestartConstants
    <3>3. QED
      BY <1>1, <2>1, <3>1, <3>2
  <2>3. CASE trips' = MaxBackoff
    <3>1. MaxBackoff \in Nat /\ MaxBackoff - 1 \in Nat /\ MaxBackoff + 1 >= MaxBackoff
      BY DEF RestartConstants
    <3>2. Doubled[MaxBackoff - 1] = MaxBackoff /\ Doubled[MaxBackoff] = MaxBackoff
      BY <3>1, DoubledValues
    <3>3. QED
      BY <1>2, <2>3, <3>2 DEF Lengths, RestartConstants
  <2>4. QED
    BY <1>2, <2>2, <2>3
<1>6. Bounded'
  <2>1. downFor' <= 1 /\ downFor' \in Nat
    BY <1>0, <1>1 DEF Bounded, Values
  <2>2. Doubled[trips' - 1] \in Lengths
    BY <1>2, DoubledValues
  <2>3. downFor' + wait' <= Doubled[trips' - 1] + 1
    BY <1>1, <1>2, <1>5, <2>1, <2>2 DEF Lengths, RestartConstants
  <2>4. QED
    BY <1>1, <1>2, <1>5, <2>3 DEF Bounded
<1>7. Counts'
  <2>1. PICK first \in Int : starts \subseteq times \cup {first}
    BY <1>0, <1>1 DEF Counts
  <2>2. /\ Cardinality(starts) \in Nat /\ Cardinality(times) \in Nat
        /\ Cardinality(starts) <= Cardinality(times) + 1
    BY <1>0, <2>1, OneMore DEF Values
  <2>3. Cardinality(starts') <= MaxRestarts + 1
    BY <1>0, <1>1, <2>2 DEF Counts, RestartConstants
  <2>4. \A age \in starts' : age + wait' >= InitialBackoff
    BY <1>0, <1>1, <1>2 DEF Values, Lengths, RestartConstants
  <2>5. QED
    BY <1>1, <2>3, <2>4 DEF Counts
<1>8. QED
  BY <1>3, <1>4, <1>6, <1>7

\* When the wait is over every start of before has left the window.
LEMMA ReEnableStep ==
  ASSUME RestartConstants, IInv, ~polled, polled', ReEnable
  PROVE  Values' /\ Disabled' /\ Reset' /\ Bounded' /\ Counts'
<1>0. Values /\ Disabled /\ Bounded /\ Counts
  BY DEF IInv
<1>1. /\ disabled /\ ~disabled' /\ wait = 0 /\ service' = "up" /\ upFor' = 0 /\ downFor' = 0
      /\ times' = {} /\ starts' = starts \cup {0}
      /\ UNCHANGED <<wait, backoff, trips>>
  BY DEF ReEnable, Starts
<1>2. Values'
  BY <1>0, <1>1 DEF Values, RestartConstants
<1>3. Disabled' /\ Reset' /\ Bounded'
  BY <1>0, <1>1 DEF Disabled, Reset, Bounded, RestartConstants
<1>4. starts = {}
  BY <1>0, <1>1 DEF Counts, Values, RestartConstants
<1>5. Counts'
  <2>1. Cardinality(times') = 0 /\ starts' \subseteq times' \cup {0}
    BY <1>1, <1>4, FS_EmptySet
  <2>2. QED
    BY <1>1, <2>1 DEF Counts, RestartConstants
<1>6. QED
  BY <1>2, <1>3, <1>5

\* A service that ran a whole window has its first backoff again.
LEMMA StaysStep ==
  ASSUME RestartConstants, IInv, ~polled, polled', Runs \/ StaysDown
  PROVE  Values' /\ Disabled' /\ Reset' /\ Bounded' /\ Counts'
<1>0. Values /\ Disabled /\ Bounded /\ Counts
  BY DEF IInv
<1>1. CASE Runs
  <2>1. /\ ~disabled /\ service = "up"
        /\ backoff' = IF upFor >= Window THEN InitialBackoff ELSE backoff
        /\ UNCHANGED <<service, upFor, times, disabled, wait, starts, downFor, trips>>
    BY <1>1 DEF Runs
  <2>2. Values' /\ Disabled' /\ Reset'
    BY <1>0, <2>1 DEF Values, Disabled, Reset, Lengths, RestartConstants
  <2>3. backoff' <= Doubled[trips']
    BY <1>0, <2>1, DoubledValues DEF Bounded, Values, Lengths, RestartConstants
  <2>4. Bounded'
    BY <1>0, <2>1, <2>3 DEF Bounded
  <2>5. Counts'
    BY <1>0, <2>1 DEF Counts
  <2>6. QED
    BY <2>2, <2>4, <2>5
<1>2. CASE StaysDown
  BY <1>0, <1>2 DEF StaysDown, Values, Disabled, Reset, Bounded, Counts
<1>3. QED
  BY <1>1, <1>2

LEMMA Inductive == ASSUME RestartConstants, IInv, [Next]_vars PROVE IInv'
<1>1. Flags'
  BY FlagsStep DEF IInv
<1>2. Values' /\ Disabled' /\ Reset' /\ Bounded' /\ Counts'
  <2>1. CASE Tick
    BY <2>1, TickStep
  <2>2. CASE Exit
    BY <2>2, ExitStep
  <2>3. CASE Poll
    BY <2>3, RestartStep, DisableStep, ReEnableStep, StaysStep DEF Poll
  <2>4. CASE UNCHANGED vars
    BY <2>4 DEF vars, IInv, Values, Disabled, Reset, Bounded, Counts
  <2>5. QED
    BY <2>1, <2>2, <2>3, <2>4 DEF Next
<1>3. QED
  BY <1>1, <1>2 DEF IInv

LEMMA Induction == ASSUME RestartConstants PROVE Spec => []IInv
<1>1. Init => IInv
  BY Initially
<1>2. IInv /\ [Next]_vars => IInv'
  BY Inductive
<1>3. QED
  BY <1>1, <1>2, PTL DEF Spec

-----------------------------------------------------------------------------
(* The theorems *)

\* Every variable has the values its comment says.
THEOREM TypeCorrect == ASSUME RestartConstants PROVE Spec => []TypeOK
<1>1. IInv => TypeOK
  BY DEF IInv, Values, Flags, Lengths, TypeOK
<1>2. QED
  BY <1>1, Induction, PTL

\* A service is started at most MaxRestarts + 1 times in any window, also across
\* a disable and the list of restarts that _re_enable empties (ManagedService.poll
\* and _enter_backoff of process_supervisor.py).
THEOREM StartsThrottled == ASSUME RestartConstants PROVE Spec => []Throttled
<1>1. IInv => Throttled
  <2> SUFFICES ASSUME IInv PROVE Throttled
    OBVIOUS
  <2>1. Values /\ Counts
    BY DEF IInv
  <2>2. CASE disabled
    BY <2>1, <2>2 DEF Counts, Throttled
  <2>3. CASE ~disabled
    <3>1. PICK first \in Int : starts \subseteq times \cup {first}
      BY <2>1, <2>3 DEF Counts
    <3>2. /\ Cardinality(starts) \in Nat /\ Cardinality(times) \in Nat
          /\ Cardinality(starts) <= Cardinality(times) + 1
      BY <2>1, <3>1, OneMore DEF Values
    <3>3. QED
      BY <2>1, <2>3, <3>2 DEF Counts, Throttled, RestartConstants
  <2>4. QED
    BY <2>2, <2>3
<1>2. QED
  BY <1>1, Induction, PTL

\* A service is not left down longer than the disables since it last ran for a
\* whole window allow (_enter_backoff, _re_enable and _maybe_reset_backoff of
\* process_supervisor.py).
THEOREM DownNoLonger == ASSUME RestartConstants PROVE Spec => []DownBounded
<1>1. IInv => DownBounded
  <2> SUFFICES ASSUME IInv PROVE DownBounded
    OBVIOUS
  <2>1. Values /\ Disabled /\ Bounded
    BY DEF IInv
  <2>2. CASE disabled
    BY <2>1, <2>2, DoubledValues DEF Values, Bounded, DownBounded, Allowed, Lengths, RestartConstants
  <2>3. CASE ~disabled
    <3>1. downFor <= 1 /\ downFor \in Nat
      BY <2>1, <2>3 DEF Values, Disabled, Bounded
    <3>2. trips # 0 => Doubled[trips - 1] >= 0 /\ Doubled[trips - 1] \in Nat
      BY <2>1, DoubledValues DEF Values, Lengths, RestartConstants
    <3>3. QED
      BY <3>1, <3>2 DEF DownBounded, Allowed
  <2>4. QED
    BY <2>2, <2>3
<1>2. QED
  BY <1>1, Induction, PTL

=============================================================================
