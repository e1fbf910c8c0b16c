--------------------------- MODULE AgentSchedule ---------------------------
(***************************************************************************)
(* Analysis agents that run themselves (backend/agent_schedule.py).  The   *)
(* schedule lives in the agent's flow, which its owner may edit at any     *)
(* time; a row of analysis_schedules remembers when the agent last ran and  *)
(* when it is next due.  One thread looks every TICK_S seconds, takes at   *)
(* most MAX_PER_TICK of the due agents and runs them one after another; a   *)
(* run takes as long as it takes, the process may die at any moment, and   *)
(* the database may fail the transaction that writes down how it went.     *)
(*                                                                         *)
(* A cron expression is the set of minutes it names.                        *)
(***************************************************************************)
EXTENDS Integers, FiniteSets

CONSTANTS Agents,
          Intervals,   \* lengths an "every" schedule may have
          Crons,       \* sets of minutes a cron schedule may name
          Nobody,
          MinuteLen,   \* a minute, in units of the clock
          TickLen,     \* TICK_S
          BootDelay,   \* BOOT_DELAY_S
          MaxPerTick,  \* MAX_PER_TICK
          MaxTime,     \* bound: the clock stops here
          MaxEdits,    \* bound: edits of the flows
          MaxFaults    \* bound: process deaths and database errors

ASSUME AgentScheduleAssumption ==
    /\ Nobody \notin Agents
    /\ Intervals \subseteq Nat \ {0}
    /\ \A M \in Crons : M \subseteq Nat
    /\ MinuteLen \in Nat \ {0} /\ TickLen \in Nat \ {0}
    /\ BootDelay \in Nat /\ BootDelay >= MinuteLen
    /\ MaxPerTick \in Nat \ {0}
    /\ MaxTime \in Nat /\ MaxEdits \in Nat /\ MaxFaults \in Nat

NoSpec == [mode |-> "none"]
Every(n) == [mode |-> "every", len |-> n]
Cron(M) == [mode |-> "cron", minutes |-> M]
Specs == {Every(n) : n \in Intervals} \cup {Cron(M) : M \in Crons}

Never == -1                     \* a NULL timestamp
Time == 0 .. MaxTime
MinuteOf(t) == t \div MinuteLen

VARIABLES now,
          flow,      \* the schedule each flow states, NoSpec without a trigger
          spec,      \* analysis_schedules.spec
          lastRun,   \* analysis_schedules.last_run_at
          nextRun,   \* analysis_schedules.next_run_at
          wake,      \* when the thread's sleep ends
          awake,     \* it is inside tick()
          lookedAt,  \* the `now` of this tick
          queue,     \* [Agents -> the schedule as the tick read it, or NoSpec]
          running,   \* the agent whose flow is being run
          edits, faults,
          seen,      \* history: the thread has read this version of the flow
          begun,     \* history: the tick of the last run begun since the edit
          tried,     \* history: the tick of the last attempt ended since then
          lost       \* history: and that attempt was not written down

row == <<spec, lastRun, nextRun>>
thread == <<wake, awake, lookedAt, queue, running>>
history == <<seen, begun, tried, lost>>
vars == <<now, flow, row, thread, edits, faults, history>>

Init ==
    /\ now = 0
    /\ flow \in [Agents -> Specs]
    /\ spec = [a \in Agents |-> NoSpec]
    /\ lastRun = [a \in Agents |-> Never]
    /\ nextRun = [a \in Agents |-> Never]
    /\ wake = BootDelay
    /\ awake = FALSE
    /\ lookedAt = 0
    /\ queue = [a \in Agents |-> NoSpec]
    /\ running = Nobody
    /\ edits = 0 /\ faults = 0
    /\ seen = [a \in Agents |-> FALSE]
    /\ begun = [a \in Agents |-> Never]
    /\ tried = [a \in Agents |-> Never]
    /\ lost = [a \in Agents |-> FALSE]

-----------------------------------------------------------------------------
(* next_run_for.                                                           *)

\* Mutant of NextCron: the minute of `after` itself counts.
NextCronInclusive(M, after) ==
    LET later == {m \in M : m >= MinuteOf(after)}
    IN  IF later = {} THEN Never ELSE MinuteLen * (CHOOSE m \in later : \A n \in later : m <= n)

\* The first minute strictly after `after` that the expression names.
NextCron(M, after) ==
    LET later == {m \in M : m > MinuteOf(after)}
    IN  IF later = {} THEN Never ELSE MinuteLen * (CHOOSE m \in later : \A n \in later : m <= n)

\* From when it last ran, or, when that is past already, from now.
NextEvery(n, last) ==
    LET nxt == (IF last = Never THEN now ELSE last) + n
    IN  IF nxt > now THEN nxt ELSE now + n

NextRunFor(s, last) ==
    IF s.mode = "cron"
    THEN NextCron(s.minutes, IF last = Never THEN now - MinuteLen ELSE last)
    ELSE NextEvery(s.len, last)

-----------------------------------------------------------------------------
(* The owner and the clock.                                                *)

Edit(a, s) ==
    /\ edits < MaxEdits
    /\ s # flow[a]
    /\ edits' = edits + 1
    /\ flow' = [flow EXCEPT ![a] = s]
    /\ seen' = [seen EXCEPT ![a] = FALSE]
    /\ begun' = [begun EXCEPT ![a] = Never]
    /\ tried' = [tried EXCEPT ![a] = Never]
    /\ lost' = [lost EXCEPT ![a] = FALSE]
    /\ UNCHANGED <<now, row, thread, faults>>

Tick ==
    /\ now < MaxTime
    /\ now' = now + 1
    /\ UNCHANGED <<flow, row, thread, edits, faults, history>>

-----------------------------------------------------------------------------
(* The thread.                                                             *)

\* Mutant of Unanchored: an edited interval keeps the anchor it had.
UnanchoredOnce(a) == flow[a].mode = "every" /\ nextRun[a] = Never

\* An interval seen for the first time, or under another label.
Unanchored(a) ==
    /\ flow[a].mode = "every"
    /\ nextRun[a] = Never \/ spec[a] # flow[a]

Due(a) ==
    /\ flow[a] # NoSpec
    /\ ~Unanchored(a)
    /\ LET nxt == IF nextRun[a] # Never THEN nextRun[a] ELSE NextRunFor(flow[a], lastRun[a])
       IN  nxt # Never /\ nxt <= now

\* The rows of the intervals that have no anchor, in a transaction of their own.
Arm ==
    /\ spec' = [a \in Agents |-> IF Unanchored(a) THEN flow[a] ELSE spec[a]]
    /\ nextRun' = [a \in Agents |->
                     IF Unanchored(a) THEN NextEvery(flow[a].len, Never) ELSE nextRun[a]]

\* _due_agents, cut to MAX_PER_TICK in whatever order the database answers.
Look ==
    /\ ~awake
    /\ now >= wake
    /\ awake' = TRUE
    /\ lookedAt' = now
    /\ \E Q \in SUBSET {a \in Agents : Due(a)} :
          /\ \/ Q = {a \in Agents : Due(a)} /\ Cardinality(Q) <= MaxPerTick
             \/ Cardinality(Q) = MaxPerTick
          /\ queue' = [a \in Agents |-> IF a \in Q THEN flow[a] ELSE NoSpec]
    /\ Arm
    /\ seen' = [a \in Agents |-> TRUE]
    /\ UNCHANGED <<now, flow, lastRun, wake, running, edits, faults, begun, tried, lost>>

\* The database fails its select, or the transaction that arms: the tick is over.
LookFails ==
    /\ ~awake
    /\ now >= wake
    /\ faults < MaxFaults
    /\ faults' = faults + 1
    /\ Arm \/ UNCHANGED <<spec, nextRun>>
    /\ wake' = now + TickLen
    /\ UNCHANGED <<now, flow, lastRun, awake, lookedAt, queue, running, edits, history>>

\* What _finish writes: the schedule as the tick read it, the time the tick began.
Write(a) ==
    /\ spec' = [spec EXCEPT ![a] = queue[a]]
    /\ lastRun' = [lastRun EXCEPT ![a] = lookedAt]
    /\ nextRun' = [nextRun EXCEPT ![a] = NextRunFor(queue[a], lookedAt)]

\* _finish: written, or not, when the database fails; tick then goes on to the next
\* agent, and the row is what it was before the attempt.
Finish(a) ==
    \/ /\ Write(a)
       /\ lost' = [lost EXCEPT ![a] = FALSE]
       /\ UNCHANGED faults
    \/ /\ faults < MaxFaults
       /\ faults' = faults + 1
       /\ lost' = [lost EXCEPT ![a] = queue[a] = flow[a]]
       /\ UNCHANGED row

Dequeue(a) == queue' = [queue EXCEPT ![a] = NoSpec]

\* What an attempt is remembered as: only one made for the flow as it is.
Remember(h, a) == IF queue[a] = flow[a] THEN [h EXCEPT ![a] = lookedAt] ELSE h

InHand(a) == awake /\ running = Nobody /\ queue[a] # NoSpec

\* Mutant of Skip: returns before _finish.
SkipSilently(a) ==
    /\ InHand(a)
    /\ Dequeue(a)
    /\ tried' = Remember(tried, a)
    /\ UNCHANGED <<now, flow, row, wake, awake, lookedAt, running, edits, faults,
                   seen, begun, lost>>

\* No subscription or no credits.
Skip(a) ==
    /\ InHand(a)
    /\ Finish(a)
    /\ Dequeue(a)
    /\ tried' = Remember(tried, a)
    /\ UNCHANGED <<now, flow, wake, awake, lookedAt, running, edits, seen, begun>>

\* An exception before the run (no key for the model, a database error) leaves
\* run_agent_now without _finish, and tick goes on to the next agent.
Raise(a) ==
    /\ InHand(a)
    /\ Dequeue(a)
    /\ UNCHANGED <<now, flow, row, wake, awake, lookedAt, running, edits, faults, history>>

BeginRun(a) ==
    /\ InHand(a)
    /\ running' = a
    /\ begun' = Remember(begun, a)
    /\ UNCHANGED <<now, flow, row, wake, awake, lookedAt, queue, edits, faults,
                   seen, tried, lost>>

\* Well or badly: both ends of the run go through _finish.
EndRun(a) ==
    /\ running = a
    /\ running' = Nobody
    /\ Finish(a)
    /\ Dequeue(a)
    /\ tried' = Remember(tried, a)
    /\ UNCHANGED <<now, flow, wake, awake, lookedAt, edits, seen, begun>>

Sleep ==
    /\ awake
    /\ \A a \in Agents : queue[a] = NoSpec
    /\ awake' = FALSE
    /\ wake' = now + TickLen
    /\ UNCHANGED <<now, flow, row, lookedAt, queue, running, edits, faults, history>>

\* Mutant of Crash: the thread looks as soon as the process is up.
CrashNoDelay ==
    /\ faults < MaxFaults
    /\ faults' = faults + 1
    /\ awake' = FALSE
    /\ wake' = now
    /\ running' = Nobody
    /\ queue' = [a \in Agents |-> NoSpec]
    /\ UNCHANGED <<now, flow, row, lookedAt, edits, history>>

\* The process dies and comes back; the run it was in is lost.
Crash ==
    /\ faults < MaxFaults
    /\ faults' = faults + 1
    /\ awake' = FALSE
    /\ wake' = now + BootDelay
    /\ running' = Nobody
    /\ queue' = [a \in Agents |-> NoSpec]
    /\ UNCHANGED <<now, flow, row, lookedAt, edits, history>>

Next ==
    \/ Tick \/ Look \/ LookFails \/ Sleep \/ Crash
    \/ \E a \in Agents :
         \/ \E s \in Specs \cup {NoSpec} : Edit(a, s)
         \/ Skip(a) \/ Raise(a) \/ BeginRun(a) \/ EndRun(a)

Spec == Init /\ [][Next]_vars

-----------------------------------------------------------------------------
(* Properties.                                                             *)

TypeOK ==
    /\ now \in Time
    /\ flow \in [Agents -> Specs \cup {NoSpec}]
    /\ spec \in [Agents -> Specs \cup {NoSpec}]
    /\ lastRun \in [Agents -> Time \cup {Never}]
    /\ nextRun \in [Agents -> Nat \cup {Never}]
    /\ wake \in Nat
    /\ awake \in BOOLEAN
    /\ lookedAt \in Time
    /\ queue \in [Agents -> Specs \cup {NoSpec}]
    /\ running \in Agents \cup {Nobody}
    /\ edits \in 0 .. MaxEdits /\ faults \in 0 .. MaxFaults
    /\ seen \in [Agents -> BOOLEAN]
    /\ begun \in [Agents -> Time \cup {Never}]
    /\ tried \in [Agents -> Time \cup {Never}]
    /\ lost \in [Agents -> BOOLEAN]

\* Agent a's run, or its being skipped, begins in this step.
Attempts(a) == queue[a] # NoSpec /\ (BeginRun(a) \/ Skip(a))

\* "Cron is matched to the minute, so an expression fires at most once per
\* minute": also when the process dies in the middle of a run, because the new one
\* does not look until the minute is over.  Only a run whose end the database did not
\* take may be begun again within its minute, and then at a later tick.
CronOncePerMinute ==
    [][\A a \in Agents :
         BeginRun(a) /\ queue[a] = flow[a] /\ flow[a].mode = "cron" /\ begun[a] # Never
            => IF lost[a] THEN lookedAt > begun[a]
               ELSE MinuteOf(lookedAt) > MinuteOf(begun[a])]_vars

\* Every run of an unedited expression answers to a minute the expression names,
\* one that no earlier attempt has answered to, however late it is: the attempts of
\* which nothing was written excepted.
CronRunsHaveTheirMinute ==
    [][\A a \in Agents :
         Attempts(a) /\ queue[a] = flow[a] /\ flow[a].mode = "cron" /\ tried[a] # Never
            => lost[a] \/ \E m \in flow[a].minutes :
                  MinuteOf(tried[a]) < m /\ m <= MinuteOf(lookedAt)]_vars

\* Attempts at an interval are an interval apart, skipped ones too ("it must
\* still move the clock forward, or it retries every 20 seconds for ever").  An
\* attempt that could not be written down is repeated, but never in the same tick.
IntervalsAreKept ==
    [][\A a \in Agents :
         Attempts(a) /\ queue[a] = flow[a] /\ flow[a].mode = "every" /\ tried[a] # Never
            => lookedAt >= tried[a] + (IF lost[a] THEN 1 ELSE flow[a].len)]_vars

\* "An edited interval re-anchors from now, so a change takes effect at once":
\* once the thread has read it, the next run is no further than one interval.
EditsTakeEffect ==
    \A a \in Agents :
        seen[a] /\ flow[a].mode = "every"
            => nextRun[a] # Never /\ nextRun[a] <= now + flow[a].len
=============================================================================
