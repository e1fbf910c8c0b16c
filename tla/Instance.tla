------------------------------ MODULE Instance ------------------------------
(***************************************************************************)
(* One self-hosted server process: the promise keepers of ScheduledWork,   *)
(* the HTTP requests its users make, and the auto-updater, which applies a *)
(* downloaded module by ending the process once it looks idle.  The        *)
(* supervisor starts it again.  Idle means: the request middleware counts  *)
(* nothing in flight, and nothing ended in the last IDLE_SECONDS.          *)
(***************************************************************************)
EXTENDS ScheduledWork

CONSTANTS Self,         \* the process that updates itself
          MaxRequests   \* bound: requests in flight

VARIABLES inflight,  \* _inflight
          quiet,     \* time.time() - _last_request > IDLE_SECONDS
          updater    \* "downloading", "waiting" in apply_when_idle, or "exiting"

instanceVars == <<inflight, quiet, updater>>

InstanceInit == Init /\ inflight = 0 /\ quiet = TRUE /\ updater = "downloading"

\* note_request(1).
RequestBegins ==
    /\ inflight < MaxRequests
    /\ inflight' = inflight + 1
    /\ UNCHANGED <<quiet, updater, vars>>

\* note_request(-1) takes the time.
RequestEnds ==
    /\ inflight > 0
    /\ inflight' = inflight - 1
    /\ quiet' = FALSE
    /\ UNCHANGED <<updater, vars>>

QuietElapses ==
    /\ ~quiet
    /\ quiet' = TRUE
    /\ UNCHANGED <<inflight, updater, vars>>

\* run_once installed something.
UpdateTaken ==
    /\ updater = "downloading"
    /\ updater' = "waiting"
    /\ UNCHANGED <<inflight, quiet, vars>>

\* The while loop of apply_when_idle ends: _idle() says so.
SeesIdle ==
    /\ updater = "waiting"
    /\ inflight = 0 /\ quiet
    /\ updater' = "exiting"
    /\ UNCHANGED <<inflight, quiet, vars>>

\* An hour of waiting, or the stop event: left for the next tick.
GivesUp ==
    /\ updater = "waiting"
    /\ updater' = "downloading"
    /\ UNCHANGED <<inflight, quiet, vars>>

\* os._exit(0).  The module's counters start afresh, and _last_request = 0.0
\* makes the new process look long quiet.
Exit ==
    /\ updater = "exiting"
    /\ Restart(Self)
    /\ updater' = "downloading"
    /\ inflight' = 0
    /\ quiet' = TRUE

InstanceNext ==
    \/ Next /\ UNCHANGED instanceVars
    \/ RequestBegins \/ RequestEnds \/ QuietElapses
    \/ UpdateTaken \/ SeesIdle \/ GivesUp \/ Exit

InstanceSpec == InstanceInit /\ [][InstanceNext]_<<vars, instanceVars>>

\* "It waits for the instance to be idle first": the updater never ends the
\* process while one of its threads has begun a user's promise and not settled
\* it, since the row would say "executing" for ever.
RestartCutsNothing ==
    [][Exit => \A p \in Pollers : p[1] = Self => job[p] = NoRow]_<<vars, instanceVars>>
=============================================================================
