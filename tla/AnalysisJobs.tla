---------------------------- MODULE AnalysisJobs ----------------------------
(***************************************************************************)
(* An analysis asked for (backend/analysis_api.py, main.py's test run):    *)
(* /analysis answers its caller; /analysis/start puts a record in the      *)
(* process-wide _JOBS and starts a thread that makes the same call;        *)
(* /analysis/result reads the record; the canvas streams a run of its own. *)
(* The only clean-up is the sweep every start makes.                       *)
(*                                                                         *)
(* All jobs ask one question.  Of AnalysisCache is kept who leads a user's *)
(* run; what a run finds out is FlowRuns', what a credit is Billing's.     *)
(***************************************************************************)
EXTENDS Naturals

CONSTANTS
    Users, Jobs,
    TTL,          \* _JOB_TTL_S
    LastTime,     \* bound
    MaxRestarts   \* bound

VARIABLES
    time,
    jobs,         \* _JOBS: id -> Absent or [status, user, at]
    thread,       \* id -> its thread: "none", "gate", "waits", "runs", "has" an answer, "ended"
                  \* or, with a process gone, "lost"
    answer,       \* id -> what the thread came to: "none", "done", "error"
    lead,         \* the cache's entry: user -> the job that leads its run, or Nobody
    from,         \* id -> the job whose run it waits for or shares, or Nobody
    paid,         \* id -> what it was charged: "nothing", "share", "full"
    owner, via,   \* history: id -> who asked, and how: "poll", "call", "stream"
    began, ended, \* history: id -> when its thread began and ended
    ran,          \* id -> when its own run finished
    restarts

jvars == <<time, jobs, thread, answer, lead, from, paid, owner, via, began, ran, ended, restarts>>

Nobody == "nobody"
Absent == [status |-> "absent", user |-> Nobody, at |-> 0]

------------------------------------------------------------------------------
(* The requests. *)

\* Mutant of Swept: what was started long ago, whenever it finished.
SweptByStart(j) == jobs[j] # Absent /\ began[j] + TTL < time

\* _job_sweep: at < now - TTL.  A running job's `at' is its start.
Swept(j) == jobs[j] # Absent /\ jobs[j].at + TTL < time

Asked(u, j, how) ==
    /\ thread[j] = "none"
    /\ thread' = [thread EXCEPT ![j] = IF how = "stream" THEN "runs" ELSE "gate"]
    /\ owner' = [owner EXCEPT ![j] = u] /\ via' = [via EXCEPT ![j] = how]
    /\ began' = [began EXCEPT ![j] = time]
    /\ UNCHANGED <<time, answer, lead, from, paid, ran, ended, restarts>>

\* analysis_start, past _elite and the missing-parameter refusals: sweep, record, thread.
Start(u, j) ==
    /\ Asked(u, j, "poll")
    /\ jobs' = [k \in Jobs |-> IF k = j THEN [status |-> "running", user |-> u, at |-> time]
                               ELSE IF Swept(k) THEN Absent ELSE jobs[k]]

\* analysis, called over the network: the same, and the caller waits.
Calls(u, j) == Asked(u, j, "call") /\ UNCHANGED jobs

\* test-run/stream: a thread that runs the flow for its page alone.
Streams(u, j) == Asked(u, j, "stream") /\ UNCHANGED jobs

------------------------------------------------------------------------------
(* analysis, and the test run. *)

Has(j, how, l) ==
    /\ thread' = [thread EXCEPT ![j] = "has"]
    /\ answer' = [answer EXCEPT ![j] = how]
    /\ from' = [from EXCEPT ![j] = l]
    /\ ran' = [ran EXCEPT ![j] = IF how = "done" /\ l = Nobody THEN time ELSE @]

\* The thread passes the gates again: the plan, the credits or the agent may be gone.
Refused(j) ==
    /\ thread[j] = "gate" /\ via[j] = "poll"
    /\ Has(j, "error", Nobody)
    /\ UNCHANGED <<time, jobs, lead, paid, owner, via, began, ended, restarts>>

\* The window is shorter than a tick, as is the time after which a leader is given up.
InFlight(l) == l # Nobody /\ answer[l] = "none" /\ thread[l] = "runs"
Fresh(l) == l # Nobody /\ answer[l] = "done" /\ ran[l] = time

\* acquire.
Acquires(j) ==
    /\ thread[j] = "gate"
    /\ \E u \in {owner[j]}, l \in {lead[owner[j]]} :
        \/ Fresh(l) /\ Has(j, "done", l) /\ UNCHANGED lead
        \/ /\ InFlight(l)
           /\ thread' = [thread EXCEPT ![j] = "waits"] /\ from' = [from EXCEPT ![j] = l]
           /\ UNCHANGED <<answer, lead, ran>>
        \/ /\ ~Fresh(l) /\ (InFlight(l) => began[l] < time)
           /\ lead' = [lead EXCEPT ![u] = j] /\ thread' = [thread EXCEPT ![j] = "runs"]
           /\ UNCHANGED <<answer, from, ran>>
    /\ UNCHANGED <<time, jobs, paid, owner, via, began, ended, restarts>>

\* Mutant of Waited: whatever the leader came to.
WaitedAnyhow(j) ==
    /\ thread[j] = "waits" /\ answer[from[j]] # "none"
    /\ Has(j, "done", from[j])
    /\ UNCHANGED <<time, jobs, lead, paid, owner, via, began, ended, restarts>>

\* wait: the leader's answer, or, when it failed or takes too long, a run of its own.
Waited(j) ==
    /\ thread[j] = "waits"
    /\ \/ answer[from[j]] = "done" /\ Has(j, "done", from[j])
       \/ /\ answer[from[j]] # "done"
          /\ thread' = [thread EXCEPT ![j] = "runs"] /\ from' = [from EXCEPT ![j] = Nobody]
          /\ UNCHANGED <<answer, ran>>
    /\ UNCHANGED <<time, jobs, lead, paid, owner, via, began, ended, restarts>>

\* run_and_price, and finish or fail of its entry.
Runs(j, how) ==
    /\ thread[j] = "runs"
    /\ Has(j, how, Nobody)
    /\ lead' = [u \in Users |-> IF lead[u] = j /\ how = "error" THEN Nobody ELSE lead[u]]
    /\ UNCHANGED <<time, jobs, paid, owner, via, began, ended, restarts>>

Bill(j) == IF from[j] = Nobody THEN "full" ELSE "share"

\* charge_cost, whose failure is ignored and left out, and the end.
Ends(j, how) ==
    /\ thread[j] = "has" /\ via[j] = how
    /\ paid' = [paid EXCEPT ![j] = IF answer[j] = "done" THEN Bill(j) ELSE @]
    /\ thread' = [thread EXCEPT ![j] = "ended"]
    /\ ended' = [ended EXCEPT ![j] = time]
    /\ UNCHANGED <<time, answer, lead, from, owner, via, began, ran, restarts>>

\* The caller's answer, or the last event of the stream.
Replies(j) == Ends(j, "call") /\ UNCHANGED jobs
Told(j) == Ends(j, "stream") /\ UNCHANGED jobs

\* The thread's last block: the owner is copied from the record there, if any.
Work(j) ==
    /\ Ends(j, "poll")
    /\ jobs' = [jobs EXCEPT ![j] = [status |-> answer[j], user |-> @.user, at |-> time]]

\* What analysis_result answers u about j.
Result(u, j) == IF jobs[j].user # u THEN "not found" ELSE jobs[j].status

\* The process ends: _JOBS, the entries and the daemon threads with it.
Restart ==
    /\ restarts < MaxRestarts /\ restarts' = restarts + 1
    /\ jobs' = [j \in Jobs |-> Absent] /\ lead' = [u \in Users |-> Nobody]
    /\ thread' = [j \in Jobs |-> IF thread[j] = "none" THEN "none" ELSE "lost"]
    /\ UNCHANGED <<time, answer, from, paid, owner, via, began, ran, ended>>

Tick == /\ time < LastTime /\ time' = time + 1
        /\ UNCHANGED <<jobs, thread, answer, lead, from, paid, owner, via, began, ran, ended, restarts>>

Init ==
    /\ time = 0 /\ restarts = 0
    /\ jobs = [j \in Jobs |-> Absent] /\ lead = [u \in Users |-> Nobody]
    /\ thread = [j \in Jobs |-> "none"] /\ answer = [j \in Jobs |-> "none"]
    /\ from = [j \in Jobs |-> Nobody] /\ paid = [j \in Jobs |-> "nothing"]
    /\ owner = [j \in Jobs |-> Nobody] /\ via = [j \in Jobs |-> "none"]
    /\ began = [j \in Jobs |-> 0] /\ ran = [j \in Jobs |-> 0] /\ ended = [j \in Jobs |-> 0]

Next ==
    \/ \E u \in Users, j \in Jobs : Start(u, j) \/ Calls(u, j) \/ Streams(u, j)
    \/ \E j \in Jobs :
        \/ Refused(j) \/ Acquires(j) \/ Waited(j)
        \/ \E how \in {"done", "error"} : Runs(j, how)
        \/ Replies(j) \/ Told(j) \/ Work(j)
    \/ Restart \/ Tick

Spec == Init /\ [][Next]_jvars

-----------------------------------------------------------------------------
(* Properties. *)

AtWork(j) == thread[j] \in {"gate", "waits", "runs", "has"}

\* The thread was at work for longer than a record is kept.
TooLong(j) == (IF AtWork(j) THEN time ELSE ended[j]) > began[j] + TTL

\* "A finished result stays collectable for 30 minutes", and "someone else's
\* run is not yours to read" (analysis_api.py:322-340): while its thread runs
\* and for TTL after it ended, the owner's poll says how the thread stands,
\* whatever other starts sweep, and nobody else's finds it.  A thread at work
\* for longer than TTL is excepted: any start sweeps its record, and the one it
\* writes at the end has no owner.
CollectedByItsOwner ==
    \A j \in Jobs :
        /\ via[j] = "poll" /\ AtWork(j) /\ ~TooLong(j) => Result(owner[j], j) = "running"
        /\ via[j] = "poll" /\ thread[j] = "ended" /\ ~TooLong(j) /\ time <= ended[j] + TTL
               => Result(owner[j], j) = answer[j]
        /\ \A u \in Users \ {owner[j]} : Result(u, j) = "not found"

\* "The first caller runs it; everyone else waits on that run or takes its stored
\* result, and pays the admin-set fraction" (analysis_api.py:188-207): whoever pays
\* a share has the answer of a run that ended well, made for the same user and not
\* for a page; an error is charged to nobody, and a run in full at most once.
PaidAsServed ==
    \A j \in Jobs :
        /\ paid[j] # "nothing" => answer[j] = "done"
        /\ answer[j] = "done" /\ from[j] # Nobody =>
              /\ answer[from[j]] = "done" /\ from[from[j]] = Nobody
              /\ owner[from[j]] = owner[j] /\ via[from[j]] # "stream"
              /\ paid[j] # "full"

OwnerIsAnswered == CollectedByItsOwner /\ PaidAsServed

------------------------------------------------------------------------------
(* Why it holds: the inductive invariant. *)

Record == [status : {"absent", "running", "done", "error"}, user : Users \cup {Nobody}, at : Nat]
Stages == {"none", "gate", "waits", "runs", "has", "ended", "lost"}

JobsTypeOK ==
    /\ time \in Nat /\ jobs \in [Jobs -> Record]
    /\ thread \in [Jobs -> Stages] /\ answer \in [Jobs -> {"none", "done", "error"}]
    /\ lead \in [Users -> Jobs \cup {Nobody}] /\ from \in [Jobs -> Jobs \cup {Nobody}]
    /\ paid \in [Jobs -> {"nothing", "share", "full"}]
    /\ owner \in [Jobs -> Users \cup {Nobody}] /\ via \in [Jobs -> {"none", "poll", "call", "stream"}]
    /\ began \in [Jobs -> Nat] /\ ended \in [Jobs -> Nat]

\* Each stage has what came before it and nothing of what comes after.
StagesAreInOrder ==
    \A j \in Jobs :
        /\ thread[j] = "none" => via[j] = "none" /\ jobs[j].user = Nobody
        /\ thread[j] # "none" => owner[j] \in Users
        /\ thread[j] = "gate" => via[j] # "stream"
        /\ thread[j] \in {"none", "gate", "runs"} => from[j] = Nobody
        /\ thread[j] = "waits" => from[j] # Nobody
        /\ thread[j] \in {"none", "gate", "waits", "runs"} => answer[j] = "none"
        /\ thread[j] \in {"has", "ended"} => answer[j] # "none"
        /\ thread[j] \notin {"ended", "lost"} => paid[j] = "nothing"

\* A run that others may share was begun for its user, not for a page, and shares none.
Leads(l, u) ==
    /\ thread[l] \in {"runs", "has", "ended", "lost"}
    /\ owner[l] = u /\ via[l] # "stream" /\ from[l] = Nobody
LeadersRun ==
    /\ \A u \in Users : lead[u] # Nobody => Leads(lead[u], u)
    /\ \A j \in Jobs : from[j] # Nobody => Leads(from[j], owner[j])

\* A record's owner is the job's or forgotten; until a sweep may have passed it, it is
\* the one its start or its end wrote.
RecordsAreTheirs ==
    \A j \in Jobs :
        /\ jobs[j].user \in {owner[j], Nobody}
        /\ via[j] = "poll" /\ AtWork(j) /\ ~TooLong(j) =>
               jobs[j] = [status |-> "running", user |-> owner[j], at |-> began[j]]
        /\ via[j] = "poll" /\ thread[j] = "ended" /\ ~TooLong(j) /\ time <= ended[j] + TTL =>
               jobs[j] = [status |-> answer[j], user |-> owner[j], at |-> ended[j]]

IInv == JobsTypeOK /\ StagesAreInOrder /\ LeadersRun /\ RecordsAreTheirs /\ PaidAsServed
=============================================================================
