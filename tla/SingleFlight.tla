---------------------------- MODULE SingleFlight ----------------------------
(***************************************************************************)
(* What the scheduled job promises (the job state machine of the           *)
(* Scheduler component).  The job is registered, then alternates between   *)
(* Idle and Running, where each Running period is one execution with an id *)
(* never used before.  Removed is terminal and is reached only from Idle:  *)
(* shutdown never removes the job under a running execution.  Every id is  *)
(* a member of Execs; None stands for "no execution".                      *)
(***************************************************************************)
CONSTANTS
    Execs,     \* the possible execution identities
    None       \* no execution in flight (not a member of Execs)

VARIABLES
    phase,     \* "unregistered", "idle", "running" or "removed"
    current,   \* the execution in flight, or None
    started    \* the executions begun so far

avars == <<phase, current, started>>

Init ==
    /\ phase = "unregistered"
    /\ current = None
    /\ started = {}

\* The job is registered and its trigger armed.
Register ==
    /\ phase = "unregistered"
    /\ phase' = "idle"
    /\ UNCHANGED <<current, started>>

\* A trigger starts execution e; only from Idle, and e is fresh.
Begin(e) ==
    /\ phase = "idle"
    /\ e \notin started
    /\ phase' = "running"
    /\ current' = e
    /\ started' = started \cup {e}

\* The execution in flight ends.
End ==
    /\ phase = "running"
    /\ phase' = "idle"
    /\ current' = None
    /\ UNCHANGED started

\* Shutdown removes the idle job.
Remove ==
    /\ phase = "idle"
    /\ phase' = "removed"
    /\ UNCHANGED <<current, started>>

Next == Register \/ (\E e \in Execs : Begin(e)) \/ End \/ Remove

Spec == Init /\ [][Next]_avars

=============================================================================
