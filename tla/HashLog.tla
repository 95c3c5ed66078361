------------------------------- MODULE HashLog -------------------------------
(***************************************************************************)
(* What the decision chain promises to whoever reads it: while it can be   *)
(* trusted, a log that only ever grows at its end, one record at a time,   *)
(* each new and naming the record before it.  Nothing is promised after    *)
(* trust is lost, and trust never comes back.                              *)
(***************************************************************************)
EXTENDS Integers, Sequences

VARIABLES log, trusted

NoPredecessor == 0
HeadOf(l) == IF l = <<>> THEN NoPredecessor ELSE l[Len(l)].hash

Init == log = <<>> /\ trusted = TRUE

Extends(l, m) ==
  LET n == Len(l) + 1 IN
  /\ Len(m) = n
  /\ \A i \in 1..Len(l) : m[i] = l[i]
  /\ m[n].prev = HeadOf(l)
  /\ \A i \in 1..Len(l) : l[i].hash # m[n].hash

Grow == trusted /\ Extends(log, log') /\ UNCHANGED trusted
LoseTrust == trusted' = FALSE

Next == Grow \/ LoseTrust

Spec == Init /\ [][Next]_<<log, trusted>>
=============================================================================
