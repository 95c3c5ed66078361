------------------------- MODULE BackgroundVerifier -------------------------
(***************************************************************************)
(* The verification of the decision chain in the background                 *)
(* (scripts/background_verifier.py): the proxy triggers it after its        *)
(* appends, the dashboard runs it before an export, a lock directory keeps  *)
(* them apart, and a status file says how far the chain was verified.       *)
(*                                                                          *)
(* Abstractions.  Of the counts only their difference is kept: how many     *)
(* records more than last_verified_count the chain has, at most Every; the  *)
(* chain after an archive is Deep records behind the count before.  The     *)
(* trigger reads the counts together with the append before it.             *)
(* Verification reads nothing that another part depends on.                 *)
(***************************************************************************)
EXTENDS Integers

CONSTANTS
  Threads,      \* threads of the proxy that verify
  Every,        \* verify_every_records
  Deep,         \* how far an archive takes the chain below the old count
  MaxArchives,  \* bound: archives of the decision chain
  MaxDeaths     \* bound: deaths of the proxy and the dashboard

\* Assumed where the module is instantiated (Parts).
VerifierConstants ==
  /\ Every \in Nat \ {0} /\ Deep \in Nat /\ MaxArchives \in Nat /\ MaxDeaths \in Nat

VARIABLES
  lag,      \* records beyond last_verified_count of the status file
  counted,  \* records beyond the count of the verification that is running
  thread,   \* the step of each thread; Export is the dashboard's
  lock,     \* the lock directory: free, held, or left by a dead process
  archives, \* archives so far
  deaths    \* deaths so far

vars == <<lag, counted, thread, lock, archives, deaths>>

-----------------------------------------------------------------------------
Export == "export"

Runners == Threads \cup {Export}

Up(n) == IF n < Every THEN n + 1 ELSE Every

Init ==
  /\ lag = 0 /\ counted = 0
  /\ thread = [t \in Runners |-> "idle"]
  /\ lock = "free" /\ archives = 0 /\ deaths = 0

\* append_atomic of the proxy; trigger_after_append starts a thread when a
\* verification is due.
ProxyAppends ==
  /\ lag' = Up(lag) /\ counted' = Up(counted)
  /\ IF lag' < Every THEN UNCHANGED thread
     ELSE \E t \in Threads : thread' = [thread EXCEPT ![t] = IF @ = "idle" THEN "triggered" ELSE @]
  /\ UNCHANGED <<lock, archives, deaths>>

\* Other writers trigger nothing.
OtherAppends ==
  /\ lag' = Up(lag) /\ counted' = Up(counted)
  /\ UNCHANGED <<thread, lock, archives, deaths>>

\* The dashboard verifies before an export.
Exports ==
  /\ thread[Export] = "idle"
  /\ thread' = [thread EXCEPT ![Export] = "triggered"]
  /\ UNCHANGED <<lag, counted, lock, archives, deaths>>

\* run_verification: the lock, or somebody else verifies; then the count.
Lock(t) ==
  /\ thread[t] = "triggered"
  /\ IF lock = "free"
       THEN /\ lock' = "held" /\ counted' = 0
            /\ thread' = [thread EXCEPT ![t] = "checking"]
       ELSE /\ thread' = [thread EXCEPT ![t] = "idle"]
            /\ UNCHANGED <<lock, counted>>
  /\ UNCHANGED <<lag, archives, deaths>>

\* check_chain_integrity is through, or raised: then the count is 0 and all of
\* the chain is due.
Report(t, failed) ==
  /\ thread[t] = "checking"
  /\ lag' \in IF failed THEN 0..Every ELSE {counted}
  /\ thread' = [thread EXCEPT ![t] = IF failed THEN "failed" ELSE "reported"]
  /\ UNCHANGED <<counted, lock, archives, deaths>>

\* Mutant: the lock is only given back after a check that did not raise.
UnlockAfterSuccess(t) ==
  /\ thread[t] \in {"reported", "failed"}
  /\ lock' = IF thread[t] = "reported" THEN "free" ELSE lock
  /\ thread' = [thread EXCEPT ![t] = "idle"]
  /\ UNCHANGED <<lag, counted, archives, deaths>>

Unlock(t) ==
  /\ thread[t] \in {"reported", "failed"}
  /\ lock' = "free"
  /\ thread' = [thread EXCEPT ![t] = "idle"]
  /\ UNCHANGED <<lag, counted, archives, deaths>>

\* The proxy or the dashboard dies, and its threads with it; the lock directory
\* stays.
Dies(owned) ==
  /\ deaths < MaxDeaths
  /\ deaths' = deaths + 1
  /\ lock' = IF \E t \in owned : thread[t] \in {"checking", "reported", "failed"} THEN "left" ELSE lock
  /\ thread' = [t \in Runners |-> IF t \in owned THEN "idle" ELSE thread[t]]
  /\ UNCHANGED <<lag, counted, archives>>

\* The status file keeps the count of the chain that was there before.
Archive ==
  /\ archives < MaxArchives
  /\ archives' = archives + 1
  /\ lag' = -Deep /\ counted' = -Deep
  /\ UNCHANGED <<thread, lock, deaths>>

Steps(t) == Lock(t) \/ (\E failed \in BOOLEAN : Report(t, failed)) \/ Unlock(t)

Next ==
  \/ ProxyAppends \/ OtherAppends \/ Exports
  \/ \E t \in Runners : Steps(t)
  \/ Dies(Threads) \/ Dies({Export})
  \/ Archive

Spec == Init /\ [][Next]_vars

\* A thread that was started runs to its end; nobody has to append.
FairSpec == Spec /\ \A t \in Runners : WF_vars(Steps(t))

-----------------------------------------------------------------------------
(* Properties *)

\* Every variable has the values its comment says.
TypeOK ==
  /\ lag \in -Deep..Every /\ counted \in -Deep..Every
  /\ thread \in [Runners -> {"idle", "triggered", "checking", "reported", "failed"}]
  /\ lock \in {"free", "held", "left"}
  /\ archives \in 0..MaxArchives /\ deaths \in 0..MaxDeaths

Reports == \E t \in Runners, failed \in BOOLEAN : Report(t, failed)

\* As long as the proxy goes on appending, the chain is verified again and
\* again, also after checks that raised and after archives, unless a process
\* died during a verification: its lock directory ends them all.
VerifiedAgain ==
  []<><<ProxyAppends>>_vars /\ [](lock # "left") => []<><<Reports>>_vars

=============================================================================
