---------------------------- MODULE ScheduledWork ----------------------------
(***************************************************************************)
(* The promises a user makes to the server: "place this order at 21:30",   *)
(* "close gold in thirty seconds".  A promise is a row of                   *)
(* scheduled_orders or of scheduled_actions.  Every server process runs    *)
(* one background thread per table (_scheduler_loop, _actions_loop); a     *)
(* thread selects the rows that are due, and for each of them claims the    *)
(* row, calls the broker, and writes down how it went, in three separate   *)
(* database transactions.  Users cancel rows meanwhile, and a process may   *)
(* die between any two steps.                                              *)
(*                                                                         *)
(* The broker is external: `sent` counts the requests it took.  A call is  *)
(* up to Attempts requests: TLSession.request repeats one whose answer is  *)
(* lost or a server error, orders too.  Of an action that writes several   *)
(* things (close them all) one of its writes is followed.                  *)
(***************************************************************************)
EXTENDS Naturals, FiniteSets, TLC, TLAPS

CONSTANTS Processes,   \* server processes sharing the database
          Tables,      \* the two tables of promises, one poller thread each
          Rows,        \* row ids
          TableOf,     \* [Rows -> Tables], the table a row lives in
          NoRow,       \* a poller between two jobs
          Limit,       \* LIMIT of the select of due rows (10 in the code)
          Attempts,    \* requests a broker call may make (5 in TLSession.request)
          MaxTime,     \* bound: the clock stops here
          MaxFaults    \* bound: process deaths and database errors

ASSUME ScheduledWorkAssumption ==
    /\ TableOf \in [Rows -> Tables]
    /\ NoRow \notin Rows
    /\ Limit \in Nat \ {0}
    /\ Attempts \in Nat \ {0}
    /\ MaxTime \in Nat
    /\ MaxFaults \in Nat

VARIABLES status,   \* the status column; "absent" before the INSERT
          runAt,    \* the run_at column
          now,      \* the database's clock
          pc,       \* where each poller thread is
          batch,    \* the rows its last select returned and it has not handled
          job,      \* the row it has claimed, NoRow between jobs
          outcome,  \* what it will write: "executed" or "failed"
          tries,    \* requests its broker call has made so far
          sent,     \* requests for a row that the broker took
          unheard,  \* history: the answer to one of those was lost
          faults    \* deaths and database errors so far

broker == <<sent, unheard>>
vars == <<status, runAt, now, pc, batch, job, outcome, tries, broker, faults>>

Pollers == Processes \X Tables
Time == 0 .. MaxTime

\* A row of scheduled_orders is one order; an action may be anything, also one
\* that only reads or finds nothing to do.
Orders == {r \in Rows : TableOf[r] = "orders"}

Terminal == {"executed", "failed", "cancelled"}
Statuses == {"absent", "scheduled", "executing"} \cup Terminal

\* Mutant of DueRows: the select forgets run_at <= now().
DueRowsAnyTime(p) == {r \in Rows : TableOf[r] = p[2] /\ status[r] = "scheduled"}

\* Mutant of DueRows: run_at = now() instead of run_at <= now().
DueRowsOnTheDot(p) == {r \in DueRowsAnyTime(p) : runAt[r] = now}

DueRows(p) == {r \in Rows : /\ TableOf[r] = p[2]
                            /\ status[r] = "scheduled"
                            /\ runAt[r] <= now}

\* The rows a poller handles next: the loop walks its batch in run_at order.
Earliest(S) == {r \in S : \A q \in S : runAt[r] <= runAt[q]}

Init ==
    /\ status = [r \in Rows |-> "absent"]
    /\ runAt = [r \in Rows |-> 0]
    /\ now = 0
    /\ pc = [p \in Pollers |-> "idle"]
    /\ batch = [p \in Pollers |-> {}]
    /\ job = [p \in Pollers |-> NoRow]
    /\ outcome = [p \in Pollers |-> "failed"]
    /\ tries = [p \in Pollers |-> 0]
    /\ sent = [r \in Rows |-> 0]
    /\ unheard = [r \in Rows |-> FALSE]
    /\ faults = 0

-----------------------------------------------------------------------------
(* The users' side: HTTP handlers, each one transaction.                   *)

\* schedule_order, schedule_action, the agent's schedule_action tool.  An
\* absolute run_at is not compared with the clock: it may lie in the past.
Schedule(r, t) ==
    /\ status[r] = "absent"
    /\ status' = [status EXCEPT ![r] = "scheduled"]
    /\ runAt' = [runAt EXCEPT ![r] = t]
    /\ UNCHANGED <<now, pc, batch, job, outcome, tries, broker, faults>>

\* Mutant of Cancel: the UPDATE has no status in its WHERE.
CancelUnguarded(r) ==
    /\ status[r] \in {"scheduled", "executing"}
    /\ status' = [status EXCEPT ![r] = "cancelled"]
    /\ UNCHANGED <<runAt, now, pc, batch, job, outcome, tries, broker, faults>>

\* UPDATE ... SET status = 'cancelled' WHERE status = 'scheduled' RETURNING id.
Cancel(r) ==
    /\ status[r] = "scheduled"
    /\ status' = [status EXCEPT ![r] = "cancelled"]
    /\ UNCHANGED <<runAt, now, pc, batch, job, outcome, tries, broker, faults>>

Tick ==
    /\ now < MaxTime
    /\ now' = now + 1
    /\ UNCHANGED <<status, runAt, pc, batch, job, outcome, tries, broker, faults>>

-----------------------------------------------------------------------------
(* A poller thread.                                                        *)

\* The first Limit due rows by run_at; ties are broken by the database.
SelectDue(p) ==
    /\ pc[p] = "idle"
    /\ \E B \in SUBSET DueRows(p) :
          /\ B # {}
          /\ \/ B = DueRows(p) /\ Cardinality(B) <= Limit
             \/ Cardinality(B) = Limit
          /\ \A r \in B, q \in DueRows(p) \ B : runAt[r] <= runAt[q]
          /\ batch' = [batch EXCEPT ![p] = B]
    /\ pc' = [pc EXCEPT ![p] = "claim"]
    /\ UNCHANGED <<status, runAt, now, job, outcome, tries, broker, faults>>

\* Where the thread goes when it is done with row r of its batch.
NextOfBatch(p, r) ==
    /\ batch' = [batch EXCEPT ![p] = @ \ {r}]
    /\ pc' = [pc EXCEPT ![p] = IF batch[p] = {r} THEN "idle" ELSE "claim"]

\* Mutant of Claim: the claim trusts the select and does not look again.
ClaimBlindly(p, r) ==
    /\ pc[p] = "claim"
    /\ r \in Earliest(batch[p])
    /\ status' = [status EXCEPT ![r] = "executing"]
    /\ job' = [job EXCEPT ![p] = r]
    /\ pc' = [pc EXCEPT ![p] = "run"]
    /\ UNCHANGED <<runAt, now, batch, outcome, tries, broker, faults>>

\* UPDATE ... SET status = 'executing' WHERE status = 'scheduled' RETURNING id,
\* committed before anything is sent.
Claim(p, r) ==
    /\ pc[p] = "claim"
    /\ r \in Earliest(batch[p])
    /\ status[r] = "scheduled"
    /\ status' = [status EXCEPT ![r] = "executing"]
    /\ job' = [job EXCEPT ![p] = r]
    /\ pc' = [pc EXCEPT ![p] = "run"]
    /\ UNCHANGED <<runAt, now, batch, outcome, tries, broker, faults>>

\* The claim returned no row: cancelled, or another process has it.
ClaimLost(p, r) ==
    /\ pc[p] = "claim"
    /\ r \in Earliest(batch[p])
    /\ status[r] # "scheduled"
    /\ NextOfBatch(p, r)
    /\ UNCHANGED <<status, runAt, now, job, outcome, tries, broker, faults>>

\* A thread that gives up its batch: the outer `except Exception: pass`.
Abandon(p) ==
    /\ pc' = [pc EXCEPT ![p] = "idle"]
    /\ batch' = [batch EXCEPT ![p] = {}]
    /\ job' = [job EXCEPT ![p] = NoRow]
    /\ tries' = [tries EXCEPT ![p] = 0]

\* Where a call leaves its thread.
Ends(p, how) ==
    /\ outcome' = [outcome EXCEPT ![p] = how]
    /\ pc' = [pc EXCEPT ![p] = "settle"]
    /\ tries' = [tries EXCEPT ![p] = 0]

Took(r) == sent' = [sent EXCEPT ![r] = @ + 1]

\* The request is answered, with a 2xx: it was taken (the adapter reads no more
\* out of the answer than an id).
Answered(p) == Took(job[p]) /\ Ends(p, "executed") /\ UNCHANGED unheard

\* It is refused, or is not made: no margin, no such symbol, no account.
Refused(p) == Ends(p, "failed") /\ UNCHANGED broker

\* No answer, a server error, a rate limit or an expired token: whether the broker
\* took it or not, it is made again; the last error is raised.
Unanswered(p) ==
    /\ \/ Took(job[p]) /\ unheard' = [unheard EXCEPT ![job[p]] = TRUE]
       \/ UNCHANGED broker
    /\ IF tries[p] + 1 < Attempts
       THEN tries' = [tries EXCEPT ![p] = @ + 1] /\ UNCHANGED <<pc, outcome>>
       ELSE Ends(p, "failed")

\* An action that wrote nothing, or does not say of what it wrote how it went.
Reported(p) ==
    /\ job[p] \notin Orders
    /\ \E how \in {"executed", "failed"} : Ends(p, how)
    /\ UNCHANGED broker

\* Mutant of Execute: no try around the broker call, so that its exception
\* reaches the outer handler and the row is never settled.
ExecuteUncaught(p) ==
    /\ pc[p] = "run"
    /\ \/ Answered(p) /\ UNCHANGED <<batch, job>>
       \/ Abandon(p) /\ UNCHANGED <<broker, outcome>>
    /\ UNCHANGED <<status, runAt, now, faults>>

\* The broker call, request by request.
Execute(p) ==
    /\ pc[p] = "run"
    /\ Answered(p) \/ Refused(p) \/ Unanswered(p) \/ Reported(p)
    /\ UNCHANGED <<status, runAt, now, batch, job, faults>>

\* The closing UPDATE names the row by id only: it does not look at the status.
Settle(p) ==
    /\ pc[p] = "settle"
    /\ status' = [status EXCEPT ![job[p]] = outcome[p]]
    /\ job' = [job EXCEPT ![p] = NoRow]
    /\ NextOfBatch(p, job[p])
    /\ UNCHANGED <<runAt, now, outcome, tries, broker, faults>>

-----------------------------------------------------------------------------
(* Faults.                                                                 *)

\* A database error at the claim or at the closing UPDATE (or, there, a result
\* that JSON cannot hold).  Whether the transaction had committed when the
\* connection broke is not known.
DatabaseError(p) ==
    /\ faults < MaxFaults
    /\ faults' = faults + 1
    /\ \/ /\ pc[p] = "claim"
          /\ \/ UNCHANGED status
             \/ \E r \in Earliest(batch[p]) :
                   /\ status[r] = "scheduled"
                   /\ status' = [status EXCEPT ![r] = "executing"]
       \/ /\ pc[p] = "settle"
          /\ \/ UNCHANGED status
             \/ status' = [status EXCEPT ![job[p]] = outcome[p]]
    /\ Abandon(p)
    /\ UNCHANGED <<runAt, now, outcome, broker>>

\* A process dies or is restarted: its threads are daemon threads and start
\* again with nothing in hand.
Restart(proc) ==
    /\ faults < MaxFaults
    /\ faults' = faults + 1
    /\ pc' = [p \in Pollers |-> IF p[1] = proc THEN "idle" ELSE pc[p]]
    /\ batch' = [p \in Pollers |-> IF p[1] = proc THEN {} ELSE batch[p]]
    /\ job' = [p \in Pollers |-> IF p[1] = proc THEN NoRow ELSE job[p]]
    /\ tries' = [p \in Pollers |-> IF p[1] = proc THEN 0 ELSE tries[p]]
    /\ UNCHANGED <<status, runAt, now, outcome, broker>>

-----------------------------------------------------------------------------
PollerStep(p) ==
    \/ SelectDue(p)
    \/ \E r \in Rows : Claim(p, r) \/ ClaimLost(p, r)
    \/ Execute(p)
    \/ Settle(p)

Next ==
    \/ \E r \in Rows, t \in Time : Schedule(r, t)
    \/ \E r \in Rows : Cancel(r)
    \/ Tick
    \/ \E p \in Pollers : PollerStep(p) \/ DatabaseError(p)
    \/ \E proc \in Processes : Restart(proc)

Spec == Init /\ [][Next]_vars

\* Both loops are `while True` threads whose broker calls time out, so each of
\* them keeps going; users and faults are under no obligation.
FairSpec ==
    /\ Spec
    /\ WF_vars(Tick)
    /\ \A p \in Pollers : WF_vars(PollerStep(p))

-----------------------------------------------------------------------------
(* Properties.                                                             *)

TypeOK ==
    /\ status \in [Rows -> Statuses]
    /\ runAt \in [Rows -> Time]
    /\ now \in Time
    /\ pc \in [Pollers -> {"idle", "claim", "run", "settle"}]
    /\ batch \in [Pollers -> SUBSET Rows]
    /\ job \in [Pollers -> Rows \cup {NoRow}]
    /\ outcome \in [Pollers -> {"executed", "failed"}]
    /\ tries \in [Pollers -> 0 .. Attempts]
    /\ sent \in [Rows -> Nat]
    /\ unheard \in [Rows -> BOOLEAN]
    /\ faults \in 0 .. MaxFaults

\* "claim it so it can't run twice": whatever the interleaving of processes,
\* cancellations, database errors and restarts, one thread asks the broker, in one
\* call.  The broker takes a promise twice only if it is asked again after an answer
\* was lost, and then no more often than that call may ask (TLSession.request).
AtMostOnce == \A r \in Rows : sent[r] <= IF unheard[r] THEN Attempts ELSE 1

\* A user who was told "cancelled" is never traded for.  "executed" is only ever
\* said of an order the broker took, once if every answer came; and "failed" of one
\* it did not take, if every answer came.
StatusTellsTheTruth ==
    /\ \A r \in Rows : status[r] = "cancelled" => sent[r] = 0
    /\ \A r \in Orders :
          /\ status[r] = "executed" => sent[r] > 0 /\ (sent[r] = 1 \/ unheard[r])
          /\ status[r] = "failed" => sent[r] = 0 \/ unheard[r]

\* No promise is kept before its time, although the row may be handled long
\* after the select that found it.
NeverEarly == \A r \in Rows : sent[r] > 0 => runAt[r] <= now

\* A row that says "executing" is in some thread's hands unless a fault took
\* it away: nothing else strands a promise.
OnlyFaultsStrand ==
    faults = 0 => \A r \in Rows :
        status[r] = "executing" => \E p \in Pollers : job[p] = r

\* A due promise is picked up, however many processes die before that.
DueIsTakenUp ==
    \A r \in Rows : (status[r] = "scheduled" /\ runAt[r] <= now)
                        ~> status[r] # "scheduled"

\* Without faults every due promise reaches a last word.
DueIsSettled ==
    \A r \in Rows : (status[r] = "scheduled" /\ runAt[r] <= now)
                        ~> (status[r] \in Terminal \/ faults > 0)

\* Together the threads keep each promise as one careful keeper would: begun at
\* most once, the broker asked only while it is, and again only for want of an
\* answer; and the last word never taken back - in particular the closing UPDATE,
\* which has no guard, does not overwrite a cancellation.
Promise == INSTANCE OneShot WITH phase <- status, fired <- sent
KeepsPromises == Promise!Spec

-----------------------------------------------------------------------------
(* Small instances: orders alone, or orders and one action.                *)

OrdersOnly == [r \in Rows |-> "orders"]
OneAction == LET action == CHOOSE r \in Rows : TRUE
             IN  [r \in Rows |-> IF r = action THEN "actions" ELSE "orders"]

Symmetry == Permutations(Processes) \cup Permutations(Rows)

-----------------------------------------------------------------------------
(* The proofs, for every set of processes, tables and rows, every batch    *)
(* limit and every number of faults.                                       *)

\* Every handler, poller step and fault keeps the columns and the threads'
\* local variables within their types.
LEMMA TypeStep == TypeOK /\ [Next]_vars => TypeOK'
<1> SUFFICES ASSUME TypeOK, [Next]_vars PROVE TypeOK'
  OBVIOUS
<1> USE ScheduledWorkAssumption DEF TypeOK, Time, Statuses, Terminal, broker
<1>1. ASSUME NEW r \in Rows, NEW t \in Time, Schedule(r, t) PROVE TypeOK'
  BY <1>1 DEF Schedule
<1>2. ASSUME NEW r \in Rows, Cancel(r) PROVE TypeOK'
  BY <1>2 DEF Cancel
<1>3. CASE Tick
  BY <1>3 DEF Tick
<1>4. ASSUME NEW p \in Pollers, SelectDue(p) PROVE TypeOK'
  BY <1>4 DEF SelectDue, DueRows
<1>5. ASSUME NEW p \in Pollers, NEW r \in Rows, Claim(p, r) PROVE TypeOK'
  BY <1>5 DEF Claim
<1>6. ASSUME NEW p \in Pollers, NEW r \in Rows, ClaimLost(p, r) PROVE TypeOK'
  BY <1>6 DEF ClaimLost, NextOfBatch
<1>7. ASSUME NEW p \in Pollers, Execute(p) PROVE TypeOK'
  <2>1. pc' \in [Pollers -> {"idle", "claim", "run", "settle"}]
    BY <1>7 DEF Execute, Answered, Refused, Unanswered, Reported, Ends
  <2>2. outcome' \in [Pollers -> {"executed", "failed"}]
    BY <1>7 DEF Execute, Answered, Refused, Unanswered, Reported, Ends
  <2>3. tries' \in [Pollers -> 0 .. Attempts]
    BY <1>7 DEF Execute, Answered, Refused, Unanswered, Reported, Ends
  <2>4. sent' \in [Rows -> Nat] /\ unheard' \in [Rows -> BOOLEAN]
    <3>1. CASE Took(job[p]) /\ (UNCHANGED unheard \/ unheard' = [unheard EXCEPT ![job[p]] = TRUE])
      <4>1. \A r \in Rows : [sent EXCEPT ![job[p]] = @ + 1][r] \in Nat
        OBVIOUS
      <4>3. sent' \in [Rows -> Nat]
        BY <3>1, <4>1 DEF Took
      <4>2. unheard' \in [Rows -> BOOLEAN]
        BY <3>1
      <4> QED
        BY <4>2, <4>3
    <3>2. CASE UNCHANGED broker
      BY <3>2
    <3> QED
      BY <1>7, <3>1, <3>2 DEF Execute, Answered, Refused, Unanswered, Reported
  <2> QED
    BY <1>7, <2>1, <2>2, <2>3, <2>4 DEF Execute
<1>8. ASSUME NEW p \in Pollers, Settle(p) PROVE TypeOK'
  <2>1. status' \in [Rows -> Statuses]
    BY <1>8 DEF Settle
  <2> QED
    BY <1>8, <2>1 DEF Settle, NextOfBatch
<1>9. ASSUME NEW p \in Pollers, DatabaseError(p) PROVE TypeOK'
  <2>1. status' \in [Rows -> Statuses]
    BY <1>9 DEF DatabaseError, Earliest
  <2> QED
    BY <1>9, <2>1 DEF DatabaseError, Abandon
<1>10. ASSUME NEW proc \in Processes, Restart(proc) PROVE TypeOK'
  BY <1>10 DEF Restart
<1>11. CASE UNCHANGED vars
  BY <1>11 DEF vars
<1> QED
  BY <1>1, <1>2, <1>3, <1>4, <1>5, <1>6, <1>7, <1>8, <1>9, <1>10, <1>11
     DEF Next, PollerStep

LEMMA TypeInit == Init => TypeOK
  BY ScheduledWorkAssumption DEF Init, TypeOK, Time, Statuses, Pollers

\* TypeOK is an invariant.
THEOREM Typing == Spec => []TypeOK
  BY TypeInit, TypeStep, PTL DEF Spec

-----------------------------------------------------------------------------
(* The inductive invariant.                                                *)

\* A thread past the claim holds a row; the row says so; nobody else holds it.
Custody ==
    /\ \A p \in Pollers : pc[p] \in {"run", "settle"} <=> job[p] # NoRow
    /\ \A p \in Pollers : job[p] # NoRow => status[job[p]] = "executing"
    /\ \A p, q \in Pollers : job[p] # NoRow /\ job[p] = job[q] => p = q

\* What the broker took of a row, read off the row and its holder.
Heard ==
    /\ \A r \in Rows : sent[r] > 0 => sent[r] = 1 \/ unheard[r]
    /\ \A r \in Rows : sent[r] <= Attempts /\ (unheard[r] => sent[r] > 0)
    /\ \A r \in Rows : status[r] \in {"absent", "scheduled", "cancelled"} => sent[r] = 0
    /\ \A r \in Orders : status[r] = "executed" => sent[r] > 0
    /\ \A r \in Orders : status[r] = "failed" => sent[r] = 0 \/ unheard[r]

\* What the holder of a row knows of that.
Holding ==
    \A p \in Pollers :
        /\ pc[p] = "run" => /\ tries[p] < Attempts /\ sent[job[p]] <= tries[p]
                            /\ sent[job[p]] > 0 => unheard[job[p]]
        /\ pc[p] = "settle" /\ job[p] \in Orders =>
              IF outcome[p] = "executed" THEN sent[job[p]] > 0
              ELSE sent[job[p]] = 0 \/ unheard[job[p]]
        /\ pc[p] # "run" => tries[p] = 0

\* What a select returned stays due: run_at is never written again.
DueStays ==
    /\ \A p \in Pollers : \A r \in batch[p] : runAt[r] <= now /\ status[r] # "absent"
    /\ \A r \in Rows : status[r] = "executing" => runAt[r] <= now
    /\ \A r \in Rows : sent[r] > 0 => runAt[r] <= now /\ status[r] # "absent"

IInv == TypeOK /\ Custody /\ Heard /\ Holding /\ DueStays /\ OnlyFaultsStrand

\* Every step keeps the invariant.  The database error at the claim is why the
\* rows of a batch must be known to be due, and the closing UPDATE, guarded by
\* nothing, is why custody must be exclusive.
LEMMA Inductive == IInv /\ [Next]_vars => IInv'
<1> SUFFICES ASSUME IInv, [Next]_vars
             PROVE Custody' /\ Heard' /\ Holding' /\ DueStays' /\ OnlyFaultsStrand'
  BY TypeStep DEF IInv
<1>0. TypeOK'
  BY TypeStep DEF IInv
<1> DEFINE Goal == Custody' /\ Heard' /\ Holding' /\ DueStays' /\ OnlyFaultsStrand'
<1> USE ScheduledWorkAssumption DEF IInv, TypeOK, broker
<1>1. ASSUME NEW r \in Rows, NEW t \in Time, Schedule(r, t) PROVE Goal
  <2>1. Custody'
    BY <1>1 DEF Schedule, Time, Custody
  <2>2. Heard'
    BY <1>1 DEF Schedule, Time, Heard, Holding, Custody
  <2>3. Holding'
    BY <1>1 DEF Schedule, Time, Heard, Holding, Custody
  <2>4. DueStays'
    BY <1>1 DEF Schedule, Time, DueStays
  <2>5. OnlyFaultsStrand'
    BY <1>1 DEF Schedule, Time, OnlyFaultsStrand, Custody
  <2> QED
    BY <2>1, <2>2, <2>3, <2>4, <2>5
<1>2. ASSUME NEW r \in Rows, Cancel(r) PROVE Goal
  <2>1. Custody'
    BY <1>2 DEF Cancel, Custody
  <2>2. Heard'
    BY <1>2 DEF Cancel, Heard, Holding, Custody
  <2>3. Holding'
    BY <1>2 DEF Cancel, Heard, Holding, Custody
  <2>4. DueStays'
    BY <1>2 DEF Cancel, DueStays
  <2>5. OnlyFaultsStrand'
    BY <1>2 DEF Cancel, OnlyFaultsStrand, Custody
  <2> QED
    BY <2>1, <2>2, <2>3, <2>4, <2>5
<1>3. CASE Tick
  <2>1. Custody'
    BY <1>3 DEF Tick, Time, Custody
  <2>2. Heard'
    BY <1>3 DEF Tick, Time, Heard, Holding, Custody
  <2>3. Holding'
    BY <1>3 DEF Tick, Time, Heard, Holding, Custody
  <2>4. DueStays'
    BY <1>3 DEF Tick, Time, DueStays
  <2>5. OnlyFaultsStrand'
    BY <1>3 DEF Tick, Time, OnlyFaultsStrand, Custody
  <2> QED
    BY <2>1, <2>2, <2>3, <2>4, <2>5
<1>4. ASSUME NEW p \in Pollers, SelectDue(p) PROVE Goal
  <2>1. Custody'
    BY <1>4 DEF SelectDue, DueRows, Custody
  <2>2. Heard'
    BY <1>4 DEF SelectDue, DueRows, Heard, Holding, Custody
  <2>3. Holding'
    BY <1>4 DEF SelectDue, DueRows, Heard, Holding, Custody
  <2>4. DueStays'
    BY <1>4 DEF SelectDue, DueRows, DueStays
  <2>5. OnlyFaultsStrand'
    BY <1>4 DEF SelectDue, DueRows, OnlyFaultsStrand, Custody
  <2> QED
    BY <2>1, <2>2, <2>3, <2>4, <2>5
<1>5. ASSUME NEW p \in Pollers, NEW r \in Rows, Claim(p, r) PROVE Goal
  <2>1. Custody'
    BY <1>5 DEF Claim, Earliest, Custody
  <2>2. Heard'
    BY <1>5 DEF Claim, Earliest, Heard, Holding, Custody
  <2>3. Holding'
    BY <1>5 DEF Claim, Earliest, Heard, Holding, Custody
  <2>4. DueStays'
    BY <1>5 DEF Claim, Earliest, DueStays
  <2>5. OnlyFaultsStrand'
    BY <1>5 DEF Claim, Earliest, OnlyFaultsStrand, Custody
  <2> QED
    BY <2>1, <2>2, <2>3, <2>4, <2>5
<1>6. ASSUME NEW p \in Pollers, NEW r \in Rows, ClaimLost(p, r) PROVE Goal
  <2>1. Custody'
    BY <1>6 DEF ClaimLost, NextOfBatch, Custody
  <2>2. Heard'
    BY <1>6 DEF ClaimLost, NextOfBatch, Heard, Holding, Custody
  <2>3. Holding'
    BY <1>6 DEF ClaimLost, NextOfBatch, Heard, Holding, Custody
  <2>4. DueStays'
    BY <1>6 DEF ClaimLost, NextOfBatch, DueStays
  <2>5. OnlyFaultsStrand'
    BY <1>6 DEF ClaimLost, NextOfBatch, OnlyFaultsStrand, Custody
  <2> QED
    BY <2>1, <2>2, <2>3, <2>4, <2>5
<1>7. ASSUME NEW p \in Pollers, Execute(p) PROVE Goal
  <2> DEFINE mine == job[p]
  <2>1. /\ mine \in Rows /\ mine # NoRow /\ pc[p] = "run"
        /\ status[mine] = "executing"
        /\ tries[p] \in Nat /\ tries[p] < Attempts /\ sent[mine] <= tries[p]
        /\ sent[mine] > 0 => unheard[mine]
    BY <1>7 DEF Execute, Custody, Holding
  <2>2. /\ UNCHANGED <<status, runAt, now, batch, job, faults>>
        /\ pc' = pc \/ pc' = [pc EXCEPT ![p] = "settle"]
        /\ \A q \in Pollers \ {p} : outcome'[q] = outcome[q] /\ tries'[q] = tries[q]
    BY <1>7 DEF Execute, Answered, Refused, Unanswered, Reported, Ends
  <2>3. \A r \in Rows \ {mine} : sent'[r] = sent[r] /\ unheard'[r] = unheard[r]
    BY <1>7 DEF Execute, Answered, Refused, Unanswered, Reported, Took
  <2>4. /\ sent'[mine] \in {sent[mine], sent[mine] + 1}
        /\ sent'[mine] > 0 => sent'[mine] = 1 \/ unheard'[mine]
        /\ unheard'[mine] => sent'[mine] > 0
    <3>1. CASE Took(mine) /\ UNCHANGED unheard
      <4>1. sent'[mine] = sent[mine] + 1 /\ sent[mine] \in Nat
        BY <2>1, <3>1 DEF Took
      <4>2. unheard' = unheard
        BY <3>1
      <4>3. sent[mine] = 0 \/ unheard[mine]
        BY <2>1, <4>1
      <4>4. sent'[mine] = 1 \/ unheard'[mine]
        BY <4>1, <4>2, <4>3
      <4>5. sent'[mine] > 0
        BY <4>1
      <4> QED
        BY <4>1, <4>4, <4>5
    <3>2. CASE Took(mine) /\ unheard' = [unheard EXCEPT ![mine] = TRUE]
      BY <2>1, <3>2 DEF Took
    <3>3. CASE UNCHANGED broker
      BY <2>1, <3>3 DEF Heard
    <3> QED
      BY <1>7, <3>1, <3>2, <3>3 DEF Execute, Answered, Refused, Unanswered, Reported
  <2>5. /\ pc'[p] = "run" => /\ tries'[p] < Attempts /\ sent'[mine] <= tries'[p]
                             /\ sent'[mine] > 0 => unheard'[mine]
        /\ pc'[p] # "run" => tries'[p] = 0
        /\ pc'[p] = "settle" /\ mine \in Orders =>
              IF outcome'[p] = "executed" THEN sent'[mine] > 0
              ELSE sent'[mine] = 0 \/ unheard'[mine]
    <3>1. CASE Answered(p)
      BY <2>1, <3>1 DEF Answered, Took, Ends
    <3>2. CASE Refused(p)
      BY <2>1, <3>2 DEF Refused, Ends
    <3>3. CASE Unanswered(p)
      <4>1. /\ sent'[mine] <= tries[p] + 1
            /\ sent'[mine] > 0 => unheard'[mine]
        BY <2>1, <3>3 DEF Unanswered, Took
      <4>2. CASE tries[p] + 1 < Attempts
        BY <2>1, <3>3, <4>1, <4>2 DEF Unanswered
      <4>3. CASE ~(tries[p] + 1 < Attempts)
        BY <2>1, <3>3, <4>1, <4>3 DEF Unanswered, Ends
      <4> QED
        BY <4>2, <4>3
    <3>4. CASE Reported(p)
      BY <2>1, <3>4 DEF Reported, Ends
    <3> QED
      BY <1>7, <3>1, <3>2, <3>3, <3>4 DEF Execute
  <2>6. Custody'
    BY <2>1, <2>2 DEF Custody
  <2>7. Heard'
    <3>1. sent'[mine] <= Attempts
      BY <2>1, <2>4
    <3>2. \A r \in Rows : sent'[r] > 0 => sent'[r] = 1 \/ unheard'[r]
      BY <2>3, <2>4 DEF Heard
    <3>3. \A r \in Rows : sent'[r] <= Attempts /\ (unheard'[r] => sent'[r] > 0)
      BY <2>3, <2>4, <3>1 DEF Heard
    <3>4. \A r \in Rows : status'[r] # "executing" => /\ sent'[r] = sent[r]
                                                      /\ unheard'[r] = unheard[r]
      BY <2>1, <2>2, <2>3
    <3>5. UNCHANGED status
      BY <2>2
    <3> HIDE DEF TypeOK, IInv, broker, mine
    <3>6. Heard
      BY DEF IInv
    <3>7. \A r \in Orders : r \in Rows
      BY DEF Orders
    <3> QED
      BY <3>2, <3>3, <3>4, <3>5, <3>6, <3>7 DEF Heard
  <2>8. Holding'
    <3>1. ASSUME NEW q \in Pollers \ {p}
          PROVE /\ pc'[q] = pc[q] /\ job'[q] = job[q]
                /\ outcome'[q] = outcome[q] /\ tries'[q] = tries[q]
                /\ pc[q] \in {"run", "settle"} =>
                      /\ job[q] \in Rows \ {mine}
                      /\ sent'[job[q]] = sent[job[q]] /\ unheard'[job[q]] = unheard[job[q]]
      BY <2>1, <2>2, <2>3 DEF Custody
    <3> QED
      BY <2>2, <2>5, <3>1 DEF Holding
  <2>9. DueStays'
    BY <2>1, <2>2, <2>3 DEF DueStays
  <2>10. OnlyFaultsStrand'
    BY <2>2 DEF OnlyFaultsStrand
  <2> QED
    BY <2>6, <2>7, <2>8, <2>9, <2>10
<1>8. ASSUME NEW p \in Pollers, Settle(p) PROVE Goal
  <2>1. Custody'
    BY <1>8 DEF Settle, NextOfBatch, Custody
  <2>2. Heard'
    BY <1>8 DEF Settle, NextOfBatch, Heard, Holding, Custody
  <2>3. Holding'
    BY <1>8 DEF Settle, NextOfBatch, Heard, Holding, Custody
  <2>4. DueStays'
    BY <1>8 DEF Settle, NextOfBatch, DueStays
  <2>5. OnlyFaultsStrand'
    BY <1>8 DEF Settle, NextOfBatch, OnlyFaultsStrand, Custody
  <2> QED
    BY <2>1, <2>2, <2>3, <2>4, <2>5
<1>9. ASSUME NEW p \in Pollers, DatabaseError(p) PROVE Goal
  <2>1. Custody'
    BY <1>9 DEF DatabaseError, Abandon, Earliest, Custody
  <2>2. Heard'
    <3>1. CASE UNCHANGED status
      BY <1>9, <3>1 DEF DatabaseError, Heard
    <3>2. ASSUME NEW r \in Rows, status[r] = "scheduled",
                 status' = [status EXCEPT ![r] = "executing"]
          PROVE Heard'
      BY <1>9, <3>2 DEF DatabaseError, Heard
    <3>3. CASE pc[p] = "settle" /\ status' = [status EXCEPT ![job[p]] = outcome[p]]
      BY <1>9, <3>3 DEF DatabaseError, Heard, Holding, Custody
    <3> QED
      BY <1>9, <3>1, <3>2, <3>3 DEF DatabaseError, Earliest
  <2>3. Holding'
    BY <1>9 DEF DatabaseError, Abandon, Earliest, Heard, Holding, Custody
  <2>4. DueStays'
    BY <1>9 DEF DatabaseError, Abandon, Earliest, DueStays
  <2>5. OnlyFaultsStrand'
    BY <1>9 DEF DatabaseError, Abandon, Earliest, OnlyFaultsStrand, Custody
  <2> QED
    BY <2>1, <2>2, <2>3, <2>4, <2>5
<1>10. ASSUME NEW proc \in Processes, Restart(proc) PROVE Goal
  <2>1. Custody'
    BY <1>10 DEF Restart, Pollers, Custody
  <2>2. Heard'
    BY <1>10 DEF Restart, Pollers, Heard, Holding, Custody
  <2>3. Holding'
    BY <1>10 DEF Restart, Pollers, Heard, Holding, Custody
  <2>4. DueStays'
    BY <1>10 DEF Restart, Pollers, DueStays
  <2>5. OnlyFaultsStrand'
    BY <1>10 DEF Restart, Pollers, OnlyFaultsStrand, Custody
  <2> QED
    BY <2>1, <2>2, <2>3, <2>4, <2>5
<1>11. CASE UNCHANGED vars
  <2>1. Custody'
    BY <1>11 DEF vars, Custody
  <2>2. Heard'
    BY <1>11 DEF vars, Heard, Holding, Custody
  <2>3. Holding'
    BY <1>11 DEF vars, Heard, Holding, Custody
  <2>4. DueStays'
    BY <1>11 DEF vars, DueStays
  <2>5. OnlyFaultsStrand'
    BY <1>11 DEF vars, OnlyFaultsStrand, Custody
  <2> QED
    BY <2>1, <2>2, <2>3, <2>4, <2>5
<1> QED
  BY <1>1, <1>2, <1>3, <1>4, <1>5, <1>6, <1>7, <1>8, <1>9, <1>10, <1>11
     DEF Next, PollerStep

-----------------------------------------------------------------------------
(* What follows from it.                                                   *)

LEMMA Initially == Init => IInv
<1> SUFFICES ASSUME Init PROVE IInv
  OBVIOUS
<1> USE ScheduledWorkAssumption DEF Init
<1>1. Custody /\ Holding
  BY DEF Custody, Holding
<1>2. Heard
  BY DEF Heard, Orders
<1>3. DueStays /\ OnlyFaultsStrand
  BY DEF DueStays, OnlyFaultsStrand
<1> QED
  BY <1>1, <1>2, <1>3, TypeInit DEF IInv

THEOREM Invariance == Spec => []IInv
  BY Initially, Inductive, PTL DEF Spec

\* "claim it so it can't run twice": the broker takes a promise at most once, or, an
\* answer lost, no more often than the one call made for it may ask.
THEOREM NoPromiseIsKeptTwice == Spec => []AtMostOnce
<1>1. IInv => AtMostOnce
  BY DEF IInv, TypeOK, Heard, AtMostOnce
<1> QED
  BY <1>1, Invariance, PTL

\* What the list of promises says of one is what the broker did, the lost answers
\* excepted.
THEOREM TheListIsHonest == Spec => []StatusTellsTheTruth
<1>1. IInv => StatusTellsTheTruth
  BY DEF IInv, TypeOK, Heard, Orders, StatusTellsTheTruth
<1> QED
  BY <1>1, Invariance, PTL

\* Nothing is sent before its run_at.
THEOREM NothingIsEarly == Spec => []NeverEarly
<1>1. IInv => NeverEarly
  BY DEF IInv, DueStays, NeverEarly
<1> QED
  BY <1>1, Invariance, PTL

\* A row that says "executing" is in a thread's hands until a fault happens.
THEOREM OnlyAFaultStrands == Spec => []OnlyFaultsStrand
<1>1. IInv => OnlyFaultsStrand
  BY DEF IInv
<1> QED
  BY <1>1, Invariance, PTL

-----------------------------------------------------------------------------
(* Refinement: the threads implement one careful keeper.                   *)

\* Each step moves at most one promise, along an edge of OneShot, or none.
LEMMA StepSimulation ==
    IInv /\ [Next]_vars => [Promise!Next]_<<status, sent, unheard>>
<1> SUFFICES ASSUME IInv, [Next]_vars
             PROVE [Promise!Next]_<<status, sent, unheard>>
  OBVIOUS
<1> USE DEF IInv, TypeOK, broker
<1> USE DEF Promise!Next, Promise!Move
<1>1. ASSUME NEW r \in Rows, NEW t \in Time, Schedule(r, t) PROVE Promise!Make(r)
  BY <1>1 DEF Schedule, Promise!Make
<1>2. ASSUME NEW r \in Rows, Cancel(r) PROVE Promise!Withdraw(r)
  BY <1>2 DEF Cancel, Promise!Withdraw
<1>3. ASSUME NEW p \in Pollers, NEW r \in Rows, Claim(p, r) PROVE Promise!Begin(r)
  BY <1>3 DEF Claim, Promise!Begin
<1>4. ASSUME NEW p \in Pollers, Execute(p)
      PROVE Promise!Fire(job[p]) \/ UNCHANGED <<status, sent, unheard>>
  <2>1. /\ job[p] \in Rows /\ status[job[p]] = "executing" /\ UNCHANGED status
        /\ unheard[job[p]] => sent[job[p]] < Attempts
        /\ ~unheard[job[p]] => sent[job[p]] = 0
    BY <1>4, ScheduledWorkAssumption DEF Execute, Custody, Heard, Holding
  <2>2. CASE Took(job[p]) /\ (UNCHANGED unheard \/ unheard' = [unheard EXCEPT ![job[p]] = TRUE])
    <3>1. PICK lost \in {unheard[job[p]], TRUE} : unheard' = [unheard EXCEPT ![job[p]] = lost]
      BY <2>2
    <3> QED
      BY <2>1, <2>2, <3>1 DEF Took, Promise!Fire
  <2> QED
    BY <1>4, <2>1, <2>2 DEF Execute, Answered, Refused, Unanswered, Reported
<1>5. ASSUME NEW p \in Pollers, pc[p] = "settle",
             status' = [status EXCEPT ![job[p]] = outcome[p]], UNCHANGED broker
      PROVE Promise!Keep(job[p]) \/ Promise!Break(job[p])
  <2>1. job[p] \in Rows /\ status[job[p]] = "executing"
    BY <1>5 DEF Custody
  <2>2. CASE outcome[p] = "executed"
    <3>1. job[p] \in Orders => sent[job[p]] > 0
      BY <1>5, <2>2 DEF Holding
    <3> QED
      BY <1>5, <2>1, <2>2, <3>1 DEF Promise!Keep
  <2>3. CASE outcome[p] = "failed"
    <3>1. job[p] \in Orders /\ sent[job[p]] > 0 => unheard[job[p]]
      BY <1>5, <2>3 DEF Holding
    <3> QED
      BY <1>5, <2>1, <2>3, <3>1 DEF Promise!Break
  <2> QED
    BY <2>2, <2>3
<1>6. ASSUME NEW p \in Pollers, pc[p] \in {"run", "settle"} PROVE job[p] \in Rows
  BY <1>6 DEF Custody
<1>7. ASSUME NEW p \in Pollers, Settle(p) PROVE Promise!Next
  BY <1>5, <1>6, <1>7 DEF Settle
<1>8. ASSUME NEW p \in Pollers, DatabaseError(p)
      PROVE Promise!Next \/ UNCHANGED <<status, sent, unheard>>
  <2>1. ASSUME NEW r \in Earliest(batch[p]), status[r] = "scheduled",
               status' = [status EXCEPT ![r] = "executing"], UNCHANGED broker
        PROVE Promise!Next
    BY <2>1 DEF Earliest, Promise!Begin
  <2> QED
    BY <1>5, <1>6, <1>8, <2>1 DEF DatabaseError
<1>9. ASSUME Tick \/ UNCHANGED vars \/ (\E proc \in Processes : Restart(proc))
             \/ (\E p \in Pollers : SelectDue(p) \/ \E r \in Rows : ClaimLost(p, r))
      PROVE UNCHANGED <<status, sent, unheard>>
  BY <1>9 DEF Tick, vars, Restart, SelectDue, ClaimLost
<1>10. ASSUME NEW p \in Pollers, pc[p] = "run" PROVE job[p] \in Rows
  BY <1>10 DEF Custody
<1>11. CASE \E p \in Pollers : Execute(p)
  BY <1>4, <1>10, <1>11 DEF Execute
<1> HIDE DEF IInv, TypeOK, Promise!Next, Promise!Move
<1>12. ASSUME NEW r \in Rows, Promise!Make(r) \/ Promise!Withdraw(r) \/ Promise!Begin(r)
       PROVE Promise!Next
  BY <1>12 DEF Promise!Next
<1> QED
  BY <1>1, <1>2, <1>3, <1>7, <1>8, <1>9, <1>11, <1>12 DEF Next, PollerStep

\* Whatever the processes, cancellations, errors and restarts, each promise lives
\* the life OneShot describes.
THEOREM PromisesAreKeptOnce == Spec => KeepsPromises
<1>1. Init => Promise!Init
  BY DEF Init, Promise!Init
<1> QED
  BY <1>1, Invariance, StepSimulation, PTL DEF Spec, KeepsPromises, Promise!Spec
=============================================================================
