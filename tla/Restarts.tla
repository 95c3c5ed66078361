------------------------------ MODULE Restarts ------------------------------
(***************************************************************************)
(* One service under the supervisor's loop (ManagedService of               *)
(* scripts/process_supervisor.py): how often it is started again when it    *)
(* exits, how long it is left down, and when that time becomes short again. *)
(*                                                                          *)
(* One unit of time is the loop's interval, one poll each.  Lengths of time *)
(* and ages are kept instead of a clock; a poll notices one exit and starts *)
(* the service once, so that the ages of exits and of starts are sets.      *)
(***************************************************************************)
EXTENDS Integers, FiniteSets

CONSTANTS
  MaxRestarts,     \* MAX_RESTARTS
  Window,          \* RESTART_WINDOW_SECONDS
  InitialBackoff,  \* INITIAL_BACKOFF_SECONDS
  MaxBackoff       \* MAX_BACKOFF_SECONDS

\* Assumed where the module is instantiated (Parts).
RestartConstants ==
  /\ MaxRestarts \in Nat /\ Window \in Nat \ {0}
  /\ InitialBackoff \in Nat /\ InitialBackoff > Window
  /\ MaxBackoff \in Nat /\ MaxBackoff >= InitialBackoff

VARIABLES
  polled,   \* the poll of this unit of time is over
  service,  \* its process: none, up, or exited and not yet noticed
  upFor,    \* time since its start, no more than Window + 2 counted
  times,    \* restart_times, as ages
  disabled, \* the crash limit disabled it
  wait,     \* time until disabled_until
  backoff,  \* backoff_seconds
  starts,   \* history: ages of its starts
  downFor,  \* history: time since it was last up
  trips     \* history: disables since it last ran longer than Window

vars == <<polled, service, upFor, times, disabled, wait, backoff, starts, downFor, trips>>

-----------------------------------------------------------------------------
Older(ages) == {age + 1 : age \in ages} \cap 0..Window

Smaller(a, b) == IF a < b THEN a ELSE b

\* ManagedService.start
Starts ==
  /\ service' = "up" /\ upFor' = 0
  /\ starts' = starts \cup {0} /\ downFor' = 0

Init ==
  /\ polled = TRUE
  /\ service = "up" /\ upFor = 0
  /\ times = {} /\ disabled = FALSE /\ wait = 0 /\ backoff = InitialBackoff
  /\ starts = {0} /\ downFor = 0 /\ trips = 0

Tick ==
  /\ polled
  /\ polled' = FALSE
  /\ upFor' = Smaller(upFor + 1, Window + 2)
  /\ times' = Older(times) /\ starts' = Older(starts)
  /\ wait' = IF wait > 0 THEN wait - 1 ELSE 0
  /\ downFor' = IF service = "up" THEN 0 ELSE downFor + 1
  /\ trips' = IF service = "up" /\ upFor > Window THEN 0 ELSE trips
  /\ UNCHANGED <<service, disabled, backoff>>

Exit ==
  /\ service = "up"
  /\ service' = "exited"
  /\ UNCHANGED <<polled, upFor, times, disabled, wait, backoff, starts, downFor, trips>>

-----------------------------------------------------------------------------
(* ManagedService.poll *)

\* Mutant: a backoff once raised stays.
RunsOn ==
  /\ ~disabled /\ service = "up"
  /\ UNCHANGED <<service, upFor, times, disabled, wait, backoff, starts, downFor, trips>>

\* _maybe_reset_backoff
Runs ==
  /\ ~disabled /\ service = "up"
  /\ backoff' = IF upFor >= Window THEN InitialBackoff ELSE backoff
  /\ UNCHANGED <<service, upFor, times, disabled, wait, starts, downFor, trips>>

\* Mutant: only the exit that is noticed counts.
Counted(ages) == {0}

\* The exits in the window, and this one.
Exits(ages) == ages \cup {0}

\* An exit is noticed, and the service started again.
Restart ==
  /\ ~disabled /\ service = "exited"
  /\ times' = Exits(times)
  /\ Cardinality(times') <= MaxRestarts
  /\ Starts
  /\ UNCHANGED <<disabled, wait, backoff, trips>>

\* _enter_backoff
Disable ==
  /\ ~disabled /\ service = "exited"
  /\ times' = Exits(times)
  /\ Cardinality(times') > MaxRestarts
  /\ service' = "none"
  /\ disabled' = TRUE /\ wait' = backoff
  /\ backoff' = Smaller(2 * backoff, MaxBackoff)
  /\ trips' = Smaller(trips + 1, MaxBackoff)
  /\ UNCHANGED <<upFor, starts, downFor>>

StaysDown ==
  /\ disabled /\ wait > 0
  /\ UNCHANGED <<service, upFor, times, disabled, wait, backoff, starts, downFor, trips>>

\* _re_enable, and start in the same poll.
ReEnable ==
  /\ disabled /\ wait = 0
  /\ disabled' = FALSE /\ times' = {}
  /\ Starts
  /\ UNCHANGED <<wait, backoff, trips>>

Poll ==
  /\ ~polled
  /\ polled' = TRUE
  /\ Runs \/ Restart \/ Disable \/ StaysDown \/ ReEnable

Next == Tick \/ Exit \/ Poll

Spec == Init /\ [][Next]_vars

-----------------------------------------------------------------------------
(* Properties *)

\* Every variable has the values its comment says.
TypeOK ==
  /\ polled \in BOOLEAN /\ disabled \in BOOLEAN
  /\ service \in {"none", "up", "exited"}
  /\ upFor \in 0..Window + 2 /\ wait \in 0..MaxBackoff
  /\ times \subseteq 0..Window /\ starts \subseteq 0..Window
  /\ backoff \in InitialBackoff..MaxBackoff
  /\ trips \in 0..MaxBackoff

\* However it exits, a service is started at most MaxRestarts + 1 times in any
\* window, also across a disable and the counter it resets.
Throttled == Cardinality(starts) <= MaxRestarts + 1

Doubled[n \in Nat] ==
  IF n = 0 THEN InitialBackoff ELSE Smaller(2 * Doubled[n - 1], MaxBackoff)

\* The time a service may be left down: it doubles with each disable, no further
\* than MaxBackoff, and is short again after it ran longer than a window.
Allowed == IF trips = 0 THEN 1 ELSE Doubled[trips - 1] + 1

\* A service is not left down longer than it deserves.
DownBounded == downFor <= Allowed

=============================================================================
