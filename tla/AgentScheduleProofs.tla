------------------------- MODULE AgentScheduleProofs -------------------------
(***************************************************************************)
(* AgentSchedule for every set of agents, intervals and cron expressions,  *)
(* every length of a minute, a tick and a boot, and every number of edits  *)
(* and faults: its type, EditsTakeEffect, and the three facts about when   *)
(* a run may begin.                                                        *)
(***************************************************************************)
EXTENDS AgentSchedule, WellFoundedInduction, TLAPS

-----------------------------------------------------------------------------
(* Minutes and the operators of next_run_for.                              *)

\* A minute is a natural number, and its first instant is not after the instant.
LEMMA MinuteIs ==
    ASSUME NEW t \in Nat
    PROVE  /\ MinuteOf(t) \in Nat
           /\ MinuteLen * MinuteOf(t) <= t
           /\ t < MinuteLen * MinuteOf(t) + MinuteLen
  BY AgentScheduleAssumption DEF MinuteOf

\* From the first instant of minute m on, it is minute m or later.
LEMMA MinuteStarts ==
    ASSUME NEW t \in Nat, NEW m \in Nat, t >= MinuteLen * m
    PROVE  MinuteOf(t) >= m
<1>1. MinuteOf(t) \in Nat /\ t < MinuteLen * MinuteOf(t) + MinuteLen
  BY MinuteIs
<1>2. ASSUME MinuteOf(t) < m PROVE FALSE
  <2>1. m - (MinuteOf(t) + 1) \in Nat
    BY <1>1, <1>2
  <2>2. MinuteLen * (m - (MinuteOf(t) + 1)) >= 0
    BY <2>1, AgentScheduleAssumption
  <2>3. MinuteLen * m >= MinuteLen * MinuteOf(t) + MinuteLen
    BY <2>2, <1>1, AgentScheduleAssumption
  <2> QED
    BY <2>3, <1>1, AgentScheduleAssumption
<1> QED
  BY <1>1, <1>2

\* Minutes pass in order, and a minute later is another minute.
LEMMA MinutesPass ==
    ASSUME NEW t \in Nat, NEW u \in Nat
    PROVE  /\ t <= u => MinuteOf(t) <= MinuteOf(u)
           /\ t + MinuteLen <= u => MinuteOf(t) < MinuteOf(u)
<1>1. MinuteOf(t) \in Nat /\ MinuteOf(u) \in Nat /\ MinuteLen * MinuteOf(t) <= t
  BY MinuteIs
<1>2. ASSUME t <= u PROVE MinuteOf(t) <= MinuteOf(u)
  <2>1. u >= MinuteLen * MinuteOf(t)
    BY <1>1, <1>2, AgentScheduleAssumption
  <2> QED
    BY <1>1, <2>1, MinuteStarts
<1>3. ASSUME t + MinuteLen <= u PROVE MinuteOf(t) < MinuteOf(u)
  <2>1. u >= MinuteLen * (MinuteOf(t) + 1)
    BY <1>1, <1>3, AgentScheduleAssumption
  <2>2. MinuteOf(u) >= MinuteOf(t) + 1
    BY <1>1, <2>1, MinuteStarts
  <2> QED
    BY <1>1, <2>2
<1> QED
  BY <1>2, <1>3

\* A set of naturals that is not empty has a least element.
LEMMA LeastExists ==
    ASSUME NEW S \in SUBSET Nat, S # {}
    PROVE  \E m \in S : \A n \in S : m <= n
<1> DEFINE Less == {p \in Nat \X Nat : p[1] < p[2]}
<1>1. IsWellFoundedOn(Less, Nat)
  BY NatLessThanWellFounded DEF OpToRel
<1>2. PICK m \in S : \A n \in S : ~(<<n, m>> \in Less)
  BY <1>1, WFMin
<1>3. \A n \in S : n < m => <<n, m>> \in Less
  OBVIOUS
<1>4. \A n \in S : ~(n < m)
  BY <1>2, <1>3, Zenon
<1> QED
  BY <1>4

\* next_run_for of a cron expression: the first instant of a minute that it names
\* and that comes after, or nothing when there is none.
LEMMA NextCronIs ==
    ASSUME NEW M \in SUBSET Nat, NEW t
    PROVE  \/ NextCron(M, t) = Never /\ \A m \in M : ~(m > MinuteOf(t))
           \/ \E m \in M : m > MinuteOf(t) /\ NextCron(M, t) = MinuteLen * m
<1> DEFINE later == {m \in M : m > MinuteOf(t)}
           first == CHOOSE m \in later : \A n \in later : m <= n
<1>1. CASE later = {}
  BY <1>1 DEF NextCron
<1>2. CASE later # {}
  <2>1. later \in SUBSET Nat
    OBVIOUS
  <2>2. \E m \in later : \A n \in later : m <= n
    BY <1>2, <2>1, LeastExists
  <2>3. first \in later
    BY <2>2
  <2>4. NextCron(M, t) = MinuteLen * first
    BY <1>2 DEF NextCron
  <2> QED
    BY <2>3, <2>4
<1> QED
  BY <1>1, <1>2

\* next_run_for of an interval: one length on from the last run, or from now when
\* that is over, and so ahead of both and within a length of now.
LEMMA NextEveryIs ==
    ASSUME NEW n \in Nat \ {0}, NEW last \in Nat \cup {Never}, now \in Nat, last <= now
    PROVE  /\ NextEvery(n, last) \in Nat
           /\ NextEvery(n, last) <= now + n
           /\ last # Never => NextEvery(n, last) >= last + n
           /\ NextEvery(n, Never) = now + n
  BY DEF NextEvery, Never

-----------------------------------------------------------------------------
(* Types.                                                                  *)

\* The three kinds of schedule a flow may state.
LEMMA SpecIs ==
    ASSUME NEW s \in Specs \cup {NoSpec}
    PROVE  \/ s = NoSpec /\ s.mode = "none"
           \/ s.mode = "every" /\ s.len \in Nat \ {0}
           \/ s.mode = "cron" /\ s.minutes \in SUBSET Nat
  BY AgentScheduleAssumption DEF Specs, Every, Cron, NoSpec

\* next_run_for answers with a time or with nothing.
LEMMA NextRunForType ==
    ASSUME NEW s \in Specs, NEW last \in Nat \cup {Never}, now \in Nat, last <= now
    PROVE  NextRunFor(s, last) \in Nat \cup {Never}
<1>1. CASE s.mode = "cron"
  <2>1. s.minutes \in SUBSET Nat
    BY <1>1, SpecIs DEF NoSpec
  <2> DEFINE after == IF last = Never THEN now - MinuteLen ELSE last
  <2>2. NextCron(s.minutes, after) = Never
        \/ \E m \in s.minutes : NextCron(s.minutes, after) = MinuteLen * m
    BY <2>1, NextCronIs
  <2>3. \A m \in Nat : MinuteLen * m \in Nat
    BY AgentScheduleAssumption
  <2> QED
    BY <1>1, <2>1, <2>2, <2>3 DEF NextRunFor
<1>2. CASE s.mode # "cron"
  <2>1. s.len \in Nat \ {0}
    BY <1>2, SpecIs, s # NoSpec DEF NoSpec, Specs, Every, Cron
  <2> QED
    BY <1>2, <2>1, NextEveryIs DEF NextRunFor
<1> QED
  BY <1>1, <1>2

-----------------------------------------------------------------------------
(* The inductive invariant.                                                *)

\* What the thread holds of its tick: nothing while it sleeps; the schedule of an
\* agent that was due when it looked, and that is the flow's unless the flow was
\* edited since.
TickIsRead ==
    /\ lookedAt <= now
    /\ ~awake => running = Nobody /\ \A a \in Agents : queue[a] = NoSpec
    /\ running # Nobody => queue[running] # NoSpec
    /\ \A a \in Agents : seen[a] /\ queue[a] # NoSpec => queue[a] = flow[a]
    /\ \A a \in Agents : queue[a].mode = "every" => nextRun[a] # Never /\ nextRun[a] <= lookedAt

\* What the row holds: the next run of the interval it remembers, no further than
\* one length ahead; and the interval is the flow's once the thread has read it.
RowIsAnchored ==
    /\ \A a \in Agents :
          spec[a].mode = "every" => nextRun[a] # Never /\ nextRun[a] <= now + spec[a].len
    /\ \A a \in Agents : seen[a] /\ flow[a].mode = "every" => spec[a] = flow[a]
    /\ \A a \in Agents : lastRun[a] <= now

\* A tick comes after the one before; the schedule of an agent that is in hand
\* again since the last edit is the flow's.
TicksMoveOn ==
    /\ ~awake => lookedAt < wake
    /\ \A a \in Agents : begun[a] # Never =>
          /\ begun[a] <= lookedAt
          /\ queue[a] # NoSpec => queue[a] = flow[a] /\ (running = a \/ begun[a] < lookedAt)
    /\ \A a \in Agents : tried[a] # Never =>
          /\ tried[a] <= lookedAt
          /\ queue[a] # NoSpec => queue[a] = flow[a] /\ tried[a] < lookedAt

\* After an attempt for the flow as it is that was written down: the row holds that
\* flow and that attempt, and what is queued since was due by it.
AttemptIsKept ==
    \A a \in Agents : tried[a] # Never /\ ~lost[a] =>
        /\ tried[a] = lastRun[a]
        /\ flow[a].mode = "every" => spec[a] = flow[a] /\ nextRun[a] >= tried[a] + flow[a].len
        /\ flow[a].mode = "cron" =>
             /\ nextRun[a] = NextCron(flow[a].minutes, tried[a])
             /\ queue[a] # NoSpec => nextRun[a] # Never /\ nextRun[a] <= lookedAt

\* The four places a run of an unedited expression may be in, none of them lost, after it began: still
\* running; over, with a next run in a later minute or none to come; behind a
\* tick of a later minute; or lost in a crash, with the thread asleep until a later
\* minute.
IsRunning(a) == running = a /\ lookedAt = begun[a] /\ queue[a] = flow[a]
IsServed(a) ==
    /\ queue[a] = NoSpec
    /\ lastRun[a] # Never
    /\ nextRun[a] = Never => \A m \in flow[a].minutes : ~(m > MinuteOf(lastRun[a]))
    /\ nextRun[a] # Never => MinuteOf(nextRun[a]) > MinuteOf(begun[a])
IsPast(a) == MinuteOf(lookedAt) > MinuteOf(begun[a])
IsLost(a) == ~awake /\ MinuteOf(wake) > MinuteOf(begun[a])

MinuteIsSpent ==
    \A a \in Agents : begun[a] # Never =>
        /\ begun[a] <= now
        /\ flow[a].mode = "cron" => lost[a] \/ IsRunning(a) \/ IsServed(a) \/ IsPast(a) \/ IsLost(a)

IInv == TypeOK /\ TickIsRead /\ TicksMoveOn /\ RowIsAnchored /\ AttemptIsKept /\ MinuteIsSpent

\* Every step of the owner, the clock, the thread and the process keeps the types.
LEMMA TypeStep == TypeOK /\ TickIsRead /\ [Next]_vars => TypeOK'
<1> SUFFICES ASSUME TypeOK, TickIsRead, [Next]_vars PROVE TypeOK'
  OBVIOUS
<1> USE AgentScheduleAssumption DEF TypeOK, Time, row, thread, history
<1>0. now \in Nat /\ lookedAt \in Nat /\ lookedAt # Never /\ lookedAt <= now
  BY DEF Never, TickIsRead
<1>1. ASSUME NEW a \in Agents, NEW s \in Specs \cup {NoSpec}, Edit(a, s) PROVE TypeOK'
  BY <1>1 DEF Edit
<1>2. CASE Tick
  BY <1>2 DEF Tick
<1>31. ASSUME Arm \/ UNCHANGED <<spec, nextRun>>
       PROVE  spec' \in [Agents -> Specs \cup {NoSpec}] /\ nextRun' \in [Agents -> Nat \cup {Never}]
  <2>1. \A a \in Agents : Unanchored(a) => NextEvery(flow[a].len, Never) \in Nat
    <3> SUFFICES ASSUME NEW a \in Agents, Unanchored(a)
                 PROVE  NextEvery(flow[a].len, Never) \in Nat
      OBVIOUS
    <3>1. flow[a].len \in Nat \ {0}
      BY SpecIs DEF Unanchored, NoSpec
    <3> QED
      BY <1>0, <3>1, NextEveryIs DEF Never
  <2> QED
    BY <1>31, <2>1 DEF Arm
<1>3. CASE Look
  <2>1. queue' \in [Agents -> Specs \cup {NoSpec}]
    BY <1>3 DEF Look
  <2> QED
    BY <1>0, <1>3, <1>31, <2>1 DEF Look
<1>32. CASE LookFails
  <2>1. wake' \in Nat /\ faults' \in 0 .. MaxFaults
    BY <1>0, <1>32 DEF LookFails
  <2> QED
    BY <1>31, <1>32, <2>1 DEF LookFails
<1>4. ASSUME NEW a \in Agents, queue[a] # NoSpec, Finish(a)
      PROVE  /\ row' \in [Agents -> Specs \cup {NoSpec}] \X [Agents -> Time \cup {Never}]
                           \X [Agents -> Nat \cup {Never}]
             /\ faults' \in 0 .. MaxFaults /\ lost' \in [Agents -> BOOLEAN]
  <2>1. NextRunFor(queue[a], lookedAt) \in Nat \cup {Never}
    BY <1>0, <1>4, NextRunForType
  <2>2. faults' \in 0 .. MaxFaults /\ lost' \in [Agents -> BOOLEAN]
    <3>1. faults' \in 0 .. MaxFaults
      BY <1>4 DEF Finish
    <3>2. lost' = [lost EXCEPT ![a] = FALSE] \/ lost' = [lost EXCEPT ![a] = (queue[a] = flow[a])]
      BY <1>4 DEF Finish
    <3>3. (queue[a] = flow[a]) \in BOOLEAN
      OBVIOUS
    <3> HIDE DEF row
    <3> QED
      BY <3>1, <3>2, <3>3
  <2>3. CASE Write(a)
    <3>1. spec' \in [Agents -> Specs \cup {NoSpec}] /\ lastRun' \in [Agents -> Time \cup {Never}]
      BY <1>4, <2>3 DEF Write
    <3>2. nextRun' \in [Agents -> Nat \cup {Never}]
      BY <2>1, <2>3 DEF Write
    <3> QED
      BY <2>2, <3>1, <3>2
  <2>4. CASE UNCHANGED row
    BY <2>2, <2>4
  <2> QED
    BY <1>4, <2>3, <2>4 DEF Finish
<1>5. ASSUME NEW a \in Agents, Dequeue(a)
      PROVE  queue' \in [Agents -> Specs \cup {NoSpec}]
  BY <1>5 DEF Dequeue
<1>6. ASSUME NEW a \in Agents, NEW h \in [Agents -> Time \cup {Never}]
      PROVE  Remember(h, a) \in [Agents -> Time \cup {Never}]
  BY DEF Remember
<1>7. ASSUME NEW a \in Agents, Skip(a) PROVE TypeOK'
  BY <1>4, <1>5, <1>6, <1>7 DEF Skip, InHand
<1>8. ASSUME NEW a \in Agents, Raise(a) PROVE TypeOK'
  BY <1>5, <1>8 DEF Raise
<1>9. ASSUME NEW a \in Agents, BeginRun(a) PROVE TypeOK'
  BY <1>6, <1>9 DEF BeginRun
<1>10. ASSUME NEW a \in Agents, EndRun(a) PROVE TypeOK'
  <2>1. queue[a] # NoSpec
    BY <1>10 DEF EndRun, TickIsRead
  <2> QED
    BY <1>4, <1>5, <1>6, <1>10, <2>1 DEF EndRun
<1>11. CASE Sleep
  <2>1. wake' \in Nat
    BY <1>0, <1>11 DEF Sleep
  <2> QED
    BY <1>11, <2>1 DEF Sleep
<1>12. CASE Crash
  <2>1. wake' \in Nat /\ faults' \in 0 .. MaxFaults
    BY <1>0, <1>12 DEF Crash
  <2>2. queue' \in [Agents -> Specs \cup {NoSpec}]
    BY <1>12 DEF Crash
  <2> QED
    BY <1>12, <2>1, <2>2 DEF Crash
<1>13. CASE UNCHANGED vars
  BY <1>13 DEF vars
<1> QED
  BY <1>1, <1>2, <1>3, <1>32, <1>7, <1>8, <1>9, <1>10, <1>11, <1>12, <1>13 DEF Next

-----------------------------------------------------------------------------
(* The steps keep the invariant.                                           *)

\* What a look finds due: an interval by its row's next run, an expression by the
\* row's next run or, when it has none, by the minutes after its last one.
LEMMA DueIs ==
    ASSUME TypeOK, RowIsAnchored, NEW a \in Agents, Due(a)
    PROVE  /\ flow[a] # NoSpec
           /\ ~Unanchored(a)
           /\ flow[a].mode = "every" => nextRun[a] # Never /\ nextRun[a] <= now
           /\ nextRun[a] # Never => nextRun[a] <= now
           /\ nextRun[a] = Never => flow[a].mode # "every" /\ NextRunFor(flow[a], lastRun[a]) # Never
  BY DEF Due, Unanchored

\* What a tick holds stays what it read: edits are seen by the next look only.
LEMMA TickIsReadStep == IInv /\ [Next]_vars => TickIsRead'
<1> SUFFICES ASSUME IInv, [Next]_vars PROVE TickIsRead'
  OBVIOUS
<1> USE AgentScheduleAssumption DEF IInv, TypeOK, TickIsRead, row, thread, history
<1>0. now \in Int /\ lookedAt \in Int /\ NoSpec.mode # "every"
  BY DEF Time, NoSpec
<1>1. ASSUME NEW a \in Agents, NEW s \in Specs \cup {NoSpec}, Edit(a, s) PROVE TickIsRead'
  BY <1>1 DEF Edit
<1>2. CASE Tick
  BY <1>0, <1>2 DEF Tick
<1>3. CASE Look
  <2>1. lookedAt' <= now' /\ running' = Nobody /\ awake'
    BY <1>0, <1>3 DEF Look
  <2>2. PICK Q \in SUBSET {a \in Agents : Due(a)} :
           queue' = [a \in Agents |-> IF a \in Q THEN flow[a] ELSE NoSpec]
    BY <1>3 DEF Look
  <2>3. \A a \in Agents : queue'[a] # NoSpec => queue'[a] = flow'[a]
    BY <1>3, <2>2 DEF Look
  <2>4. ASSUME NEW a \in Agents, queue'[a].mode = "every"
        PROVE  nextRun'[a] # Never /\ nextRun'[a] <= lookedAt'
    <3>1. a \in Q /\ flow[a].mode = "every" /\ Due(a)
      BY <1>0, <2>2, <2>4
    <3>2. nextRun[a] # Never /\ nextRun[a] <= now /\ ~Unanchored(a)
      BY <3>1, DueIs
    <3> QED
      BY <1>3, <3>2 DEF Look, Arm
  <2> QED
    BY <2>1, <2>3, <2>4
<1>4. ASSUME NEW a \in Agents, Finish(a), Dequeue(a), UNCHANGED <<now, flow, awake, lookedAt, seen>>,
             awake, running' = Nobody
      PROVE  TickIsRead'
  <2>1. \A b \in Agents : b # a => nextRun'[b] = nextRun[b] /\ queue'[b] = queue[b]
    BY <1>4 DEF Finish, Write, Dequeue
  <2>2. queue'[a] = NoSpec
    BY <1>4 DEF Dequeue
  <2> QED
    BY <1>0, <1>4, <2>1, <2>2
<1>5. ASSUME NEW a \in Agents, Skip(a) PROVE TickIsRead'
  BY <1>4, <1>5 DEF Skip, InHand
<1>6. ASSUME NEW a \in Agents, Raise(a) PROVE TickIsRead'
  <2>1. queue'[a] = NoSpec /\ \A b \in Agents : b # a => queue'[b] = queue[b]
    BY <1>6 DEF Raise, Dequeue
  <2> QED
    BY <1>0, <1>6, <2>1 DEF Raise, InHand
<1>7. ASSUME NEW a \in Agents, BeginRun(a) PROVE TickIsRead'
  BY <1>7 DEF BeginRun, InHand
<1>8. ASSUME NEW a \in Agents, EndRun(a) PROVE TickIsRead'
  BY <1>4, <1>8 DEF EndRun
<1>9. CASE Sleep
  BY <1>0, <1>9 DEF Sleep
<1>10. CASE Crash
  BY <1>0, <1>10 DEF Crash
<1>12. CASE LookFails
  BY <1>0, <1>12 DEF LookFails
<1>11. CASE UNCHANGED vars
  BY <1>11 DEF vars
<1> QED
  BY <1>1, <1>2, <1>3, <1>5, <1>6, <1>7, <1>8, <1>9, <1>10, <1>11, <1>12 DEF Next

\* Ticks and attempts come one after another.
LEMMA TicksMoveOnStep == IInv /\ [Next]_vars => TicksMoveOn'
<1> SUFFICES ASSUME IInv, [Next]_vars PROVE TicksMoveOn'
  OBVIOUS
<1> USE AgentScheduleAssumption DEF IInv, TypeOK, TicksMoveOn, row, thread, history
<1>0. /\ now \in Nat /\ lookedAt \in Nat /\ lookedAt # Never /\ lookedAt <= now /\ wake \in Nat
      /\ \A a \in Agents : begun[a] \in Int /\ tried[a] \in Int
  BY DEF Time, TickIsRead, Never
<1>1. ASSUME NEW a \in Agents, NEW s \in Specs \cup {NoSpec}, Edit(a, s) PROVE TicksMoveOn'
  BY <1>1 DEF Edit
<1>2. CASE Tick
  BY <1>2 DEF Tick
<1>3. CASE Look
  <2>1. /\ UNCHANGED <<flow, begun, tried, wake>> /\ awake' /\ lookedAt' = now /\ lookedAt < now
    BY <1>0, <1>3 DEF Look
  <2>2. \A a \in Agents : queue'[a] # NoSpec => queue'[a] = flow'[a]
    BY <1>3 DEF Look
  <2> QED
    BY <1>0, <2>1, <2>2
<1>4. CASE LookFails
  BY <1>0, <1>4 DEF LookFails, TickIsRead
<1>5. ASSUME NEW a \in Agents, queue[a] # NoSpec, Dequeue(a), tried' = Remember(tried, a), awake,
             UNCHANGED <<flow, awake, lookedAt, begun>>, running \in {a, Nobody}
      PROVE  TicksMoveOn'
  <2>1. queue'[a] = NoSpec /\ \A b \in Agents \ {a} : queue'[b] = queue[b] /\ tried'[b] = tried[b]
    BY <1>5 DEF Dequeue, Remember
  <2>2. tried'[a] \in {tried[a], lookedAt}
    BY <1>5 DEF Remember
  <2> QED
    BY <1>0, <1>5, <2>1, <2>2
<1>6. ASSUME NEW a \in Agents, Skip(a) PROVE TicksMoveOn'
  BY <1>5, <1>6 DEF Skip, InHand
<1>7. ASSUME NEW a \in Agents, Raise(a) PROVE TicksMoveOn'
  <2>1. queue'[a] = NoSpec /\ \A b \in Agents \ {a} : queue'[b] = queue[b]
    BY <1>7 DEF Raise, Dequeue
  <2> QED
    BY <1>0, <1>7, <2>1 DEF Raise
<1>8. ASSUME NEW a \in Agents, BeginRun(a) PROVE TicksMoveOn'
  <2>1. /\ UNCHANGED <<flow, awake, wake, lookedAt, queue, tried>> /\ running' = a /\ running = Nobody
        /\ \A b \in Agents \ {a} : begun'[b] = begun[b]
        /\ begun'[a] = IF queue[a] = flow[a] THEN lookedAt ELSE begun[a]
    BY <1>8 DEF BeginRun, InHand, Remember
  <2>2. \A b \in Agents : running # b
    BY <2>1
  <2> QED
    BY <1>0, <2>1, <2>2
<1>9. ASSUME NEW a \in Agents, EndRun(a) PROVE TicksMoveOn'
  <2>1. queue[a] # NoSpec /\ awake
    BY <1>9 DEF EndRun, TickIsRead
  <2> QED
    BY <1>5, <1>9, <2>1 DEF EndRun
<1>10. CASE Sleep
  BY <1>0, <1>10 DEF Sleep
<1>11. CASE Crash
  <2>1. ~awake' /\ lookedAt' < wake' /\ UNCHANGED <<lookedAt, begun, tried>>
    BY <1>0, <1>11 DEF Crash
  <2>2. \A a \in Agents : queue'[a] = NoSpec
    BY <1>11 DEF Crash
  <2> QED
    BY <1>0, <2>1, <2>2
<1>12. CASE UNCHANGED vars
  BY <1>12 DEF vars
<1> QED
  BY <1>1, <1>2, <1>3, <1>4, <1>6, <1>7, <1>8, <1>9, <1>10, <1>11, <1>12 DEF Next

\* The row's interval stays anchored: a look re-anchors an edited one, and what a
\* run writes back for a schedule it read earlier is re-anchored when read again.
LEMMA RowIsAnchoredStep == IInv /\ [Next]_vars => RowIsAnchored'
<1> SUFFICES ASSUME IInv, [Next]_vars PROVE RowIsAnchored'
  OBVIOUS
<1> USE AgentScheduleAssumption DEF IInv, TypeOK, RowIsAnchored, row, thread, history
<1>0. now \in Nat /\ lookedAt \in Nat /\ lookedAt # Never /\ lookedAt <= now
  BY DEF Time, TickIsRead, Never
<1>01. /\ \A a \in Agents : spec[a].mode = "every" => spec[a].len \in Int
       /\ \A a \in Agents : nextRun[a] \in Int /\ lastRun[a] \in Int
  BY SpecIs DEF NoSpec, Never, Time
<1>1. ASSUME NEW a \in Agents, NEW s \in Specs \cup {NoSpec}, Edit(a, s) PROVE RowIsAnchored'
  BY <1>1 DEF Edit
<1>2. CASE Tick
  BY <1>0, <1>01, <1>2 DEF Tick
<1>3. ASSUME Arm \/ UNCHANGED <<spec, nextRun>>, UNCHANGED <<now, flow, lastRun>>,
             \A a \in Agents : seen'[a] => seen[a] \/ Arm
      PROVE  RowIsAnchored'
  <2>1. ASSUME Arm, NEW a \in Agents, Unanchored(a)
        PROVE  /\ spec'[a] = flow'[a]
               /\ nextRun'[a] # Never /\ nextRun'[a] <= now' + spec'[a].len
    <3>1. flow[a].len \in Nat \ {0}
      BY <2>1, SpecIs DEF Unanchored, NoSpec
    <3>2. NextEvery(flow[a].len, Never) = now + flow[a].len
      BY <1>0, <3>1, NextEveryIs DEF Never
    <3>3. spec'[a] = flow[a] /\ nextRun'[a] = NextEvery(flow[a].len, Never)
          /\ now' = now /\ flow' = flow
      BY <1>3, <2>1 DEF Arm
    <3> QED
      BY <1>0, <3>1, <3>2, <3>3 DEF Never
  <2>2. ASSUME Arm, NEW a \in Agents, ~Unanchored(a)
        PROVE  /\ spec'[a] = spec[a] /\ nextRun'[a] = nextRun[a]
               /\ flow'[a].mode = "every" => spec'[a] = flow'[a]
    BY <1>3, <2>2 DEF Arm, Unanchored
  <2>3. CASE Arm
    BY <1>3, <2>1, <2>2, <2>3
  <2>4. CASE ~Arm
    BY <1>3, <2>4
  <2> QED
    BY <2>3, <2>4
<1>31. CASE Look
  BY <1>3, <1>31 DEF Look
<1>32. CASE LookFails
  BY <1>3, <1>32 DEF LookFails
<1>4. ASSUME NEW a \in Agents, queue[a] # NoSpec, Write(a), UNCHANGED <<now, flow, seen>>
      PROVE  RowIsAnchored'
  <2>1. ASSUME NEW b \in Agents, b # a
        PROVE  spec'[b] = spec[b] /\ lastRun'[b] = lastRun[b] /\ nextRun'[b] = nextRun[b]
    BY <1>4, <2>1 DEF Write
  <2>2. /\ spec'[a] = queue[a] /\ lastRun'[a] = lookedAt
        /\ nextRun'[a] = NextRunFor(queue[a], lookedAt)
    BY <1>4 DEF Write
  <2>3. ASSUME queue[a].mode = "every"
        PROVE  nextRun'[a] # Never /\ nextRun'[a] <= now' + spec'[a].len
    <3>1. queue[a].len \in Nat \ {0}
      BY <2>3, SpecIs DEF NoSpec
    <3>2. NextRunFor(queue[a], lookedAt) = NextEvery(queue[a].len, lookedAt)
      BY <2>3 DEF NextRunFor
    <3>3. /\ NextEvery(queue[a].len, lookedAt) \in Nat
          /\ NextEvery(queue[a].len, lookedAt) <= now + queue[a].len
      BY <1>0, <3>1, NextEveryIs
    <3> QED
      BY <1>4, <2>2, <3>2, <3>3 DEF Never
  <2>4. seen[a] => queue[a] = flow[a]
    BY <1>4 DEF TickIsRead
  <2> QED
    BY <1>0, <1>4, <2>1, <2>2, <2>3, <2>4
<1>5. ASSUME NEW a \in Agents, Skip(a) PROVE RowIsAnchored'
  BY <1>4, <1>5 DEF Skip, InHand, Finish
<1>6. ASSUME NEW a \in Agents, Raise(a) PROVE RowIsAnchored'
  BY <1>6 DEF Raise
<1>7. ASSUME NEW a \in Agents, BeginRun(a) PROVE RowIsAnchored'
  BY <1>7 DEF BeginRun
<1>8. ASSUME NEW a \in Agents, EndRun(a) PROVE RowIsAnchored'
  <2>1. queue[a] # NoSpec
    BY <1>8 DEF EndRun, TickIsRead
  <2> QED
    BY <1>4, <1>8, <2>1 DEF EndRun, Finish
<1>9. CASE Sleep
  BY <1>9 DEF Sleep
<1>10. CASE Crash
  BY <1>10 DEF Crash
<1>11. CASE UNCHANGED vars
  BY <1>11 DEF vars
<1> QED
  BY <1>1, <1>2, <1>31, <1>32, <1>5, <1>6, <1>7, <1>8, <1>9, <1>10, <1>11 DEF Next

\* What an attempt leaves is kept until the flow is edited: the row says when it
\* was, and nothing of the flow is queued again before the next run it names.
LEMMA AttemptIsKeptStep == IInv /\ [Next]_vars => AttemptIsKept'
<1> SUFFICES ASSUME IInv, [Next]_vars PROVE AttemptIsKept'
  OBVIOUS
<1> USE AgentScheduleAssumption DEF IInv, TypeOK, AttemptIsKept, TicksMoveOn, row, thread, history
<1>0. now \in Nat /\ lookedAt \in Nat /\ lookedAt # Never /\ lookedAt <= now
  BY DEF Time, TickIsRead, Never
<1>1. ASSUME NEW a \in Agents, NEW s \in Specs \cup {NoSpec}, Edit(a, s) PROVE AttemptIsKept'
  BY <1>1 DEF Edit
<1>2. CASE Tick
  BY <1>2 DEF Tick
<1>3. CASE Look
  <2>1. PICK Q \in SUBSET {a \in Agents : Due(a)} :
           queue' = [a \in Agents |-> IF a \in Q THEN flow[a] ELSE NoSpec]
    BY <1>3 DEF Look
  <2>2. /\ UNCHANGED <<flow, lastRun, tried, lost>>
        /\ lookedAt' = now
    BY <1>3 DEF Look
  <2>3. ASSUME NEW a \in Agents, tried[a] # Never, ~lost[a]
        PROVE  spec'[a] = spec[a] /\ nextRun'[a] = nextRun[a]
    <3>1. flow[a].mode = "every" => spec[a] = flow[a] /\ nextRun[a] # Never
      BY <2>3 DEF RowIsAnchored
    <3>2. ~Unanchored(a)
      BY <3>1 DEF Unanchored
    <3> QED
      BY <1>3, <3>2 DEF Look, Arm
  <2>4. ASSUME NEW a \in Agents, tried[a] # Never, ~lost[a], queue'[a] # NoSpec, flow[a].mode = "cron"
        PROVE  nextRun[a] # Never /\ nextRun[a] <= now
    <3>1. Due(a)
      BY <2>1, <2>4
    <3>2. lastRun[a] = tried[a] /\ nextRun[a] = NextCron(flow[a].minutes, tried[a])
      BY <2>4
    <3>3. NextRunFor(flow[a], lastRun[a]) = nextRun[a]
      BY <2>4, <3>2 DEF NextRunFor
    <3> QED
      BY <3>1, <3>3, DueIs
  <2> QED
    BY <2>2, <2>3, <2>4
<1>12. CASE LookFails
  <2>1. UNCHANGED <<flow, lastRun, tried, lost, queue, lookedAt>>
    BY <1>12 DEF LookFails
  <2>2. ASSUME NEW a \in Agents, tried[a] # Never, ~lost[a]
        PROVE  spec'[a] = spec[a] /\ nextRun'[a] = nextRun[a]
    <3>1. flow[a].mode = "every" => spec[a] = flow[a] /\ nextRun[a] # Never
      BY <2>2 DEF RowIsAnchored
    <3>2. ~Unanchored(a)
      BY <3>1 DEF Unanchored
    <3> QED
      BY <1>12, <3>2 DEF LookFails, Arm
  <2> QED
    BY <2>1, <2>2
<1>4. ASSUME NEW a \in Agents, queue[a] # NoSpec, Write(a), Dequeue(a), UNCHANGED <<flow, lookedAt>>,
             tried' = Remember(tried, a), lost' = [lost EXCEPT ![a] = FALSE]
      PROVE  AttemptIsKept'
  <2>1. ASSUME NEW b \in Agents, b # a
        PROVE  /\ spec'[b] = spec[b] /\ lastRun'[b] = lastRun[b] /\ nextRun'[b] = nextRun[b]
               /\ queue'[b] = queue[b] /\ tried'[b] = tried[b] /\ lost'[b] = lost[b]
    BY <1>4, <2>1 DEF Write, Dequeue, Remember
  <2>2. /\ spec'[a] = queue[a] /\ lastRun'[a] = lookedAt /\ queue'[a] = NoSpec
        /\ nextRun'[a] = NextRunFor(queue[a], lookedAt)
    BY <1>4 DEF Write, Dequeue
  <2>3. tried'[a] # Never => queue[a] = flow[a] /\ tried'[a] = lookedAt
    BY <1>4 DEF Remember
  <2>4. ASSUME flow[a].mode = "every", queue[a] = flow[a]
        PROVE  nextRun'[a] >= lookedAt + flow[a].len
    <3>1. flow[a].len \in Nat \ {0}
      BY <2>4, SpecIs DEF NoSpec
    <3>2. NextRunFor(queue[a], lookedAt) = NextEvery(flow[a].len, lookedAt)
      BY <2>4 DEF NextRunFor
    <3> QED
      BY <1>0, <2>2, <3>1, <3>2, NextEveryIs
  <2>5. ASSUME flow[a].mode = "cron", queue[a] = flow[a]
        PROVE  nextRun'[a] = NextCron(flow[a].minutes, lookedAt)
    BY <1>0, <2>2, <2>5 DEF NextRunFor
  <2> QED
    BY <1>4, <2>1, <2>2, <2>3, <2>4, <2>5
<1>41. ASSUME NEW a \in Agents, queue[a] # NoSpec, UNCHANGED row, Dequeue(a), UNCHANGED <<flow, lookedAt>>,
              tried' = Remember(tried, a), lost' = [lost EXCEPT ![a] = queue[a] = flow[a]]
       PROVE  AttemptIsKept'
  <2>1. ASSUME NEW b \in Agents, b # a
        PROVE  queue'[b] = queue[b] /\ tried'[b] = tried[b] /\ lost'[b] = lost[b]
    BY <1>41, <2>1 DEF Dequeue, Remember
  <2>2. tried'[a] # Never => lost'[a]
    BY <1>41 DEF Remember
  <2> QED
    BY <1>41, <2>1, <2>2
<1>5. ASSUME NEW a \in Agents, Skip(a) PROVE AttemptIsKept'
  BY <1>4, <1>41, <1>5 DEF Skip, InHand, Finish
<1>6. ASSUME NEW a \in Agents, Raise(a) PROVE AttemptIsKept'
  <2>1. queue'[a] = NoSpec /\ \A b \in Agents : b # a => queue'[b] = queue[b]
    BY <1>6 DEF Raise, Dequeue
  <2> QED
    BY <1>6, <2>1 DEF Raise
<1>7. ASSUME NEW a \in Agents, BeginRun(a) PROVE AttemptIsKept'
  BY <1>7 DEF BeginRun
<1>8. ASSUME NEW a \in Agents, EndRun(a) PROVE AttemptIsKept'
  <2>1. queue[a] # NoSpec
    BY <1>8 DEF EndRun, TickIsRead
  <2> QED
    BY <1>4, <1>41, <1>8, <2>1 DEF EndRun, Finish
<1>9. CASE Sleep
  BY <1>9 DEF Sleep
<1>10. CASE Crash
  BY <1>10 DEF Crash
<1>11. CASE UNCHANGED vars
  BY <1>11 DEF vars
<1> QED
  BY <1>1, <1>2, <1>3, <1>5, <1>6, <1>7, <1>8, <1>9, <1>10, <1>11, <1>12 DEF Next

\* A minute is spent once: whatever ends a run of it, the next one begins behind a
\* later tick.  A crash loses the run, and BOOT_DELAY_S outlasts the minute.
LEMMA MinuteIsSpentStep == IInv /\ [Next]_vars => MinuteIsSpent'
<1> SUFFICES ASSUME IInv, [Next]_vars PROVE MinuteIsSpent'
  OBVIOUS
<1> USE AgentScheduleAssumption DEF IInv, TypeOK, row, thread, history
<1>0. /\ now \in Nat /\ lookedAt \in Nat /\ lookedAt # Never /\ lookedAt <= now /\ wake \in Nat
      /\ \A a \in Agents : begun[a] # Never => begun[a] \in Nat
      /\ \A t \in Nat : MinuteOf(t) \in Nat
  BY MinuteIs DEF Time, TickIsRead, Never
<1> USE DEF MinuteIsSpent, TicksMoveOn
<1>1. ASSUME NEW a \in Agents, NEW s \in Specs \cup {NoSpec}, Edit(a, s) PROVE MinuteIsSpent'
  BY <1>1 DEF Edit, IsRunning, IsServed, IsPast, IsLost
<1>2. CASE Tick
  BY <1>0, <1>2 DEF Tick, IsRunning, IsServed, IsPast, IsLost
<1>3. CASE Look
  <2>1. PICK Q \in SUBSET {a \in Agents : Due(a)} :
           queue' = [a \in Agents |-> IF a \in Q THEN flow[a] ELSE NoSpec]
    BY <1>3 DEF Look
  <2>2. /\ UNCHANGED <<now, flow, lastRun, running, begun, lost>>
        /\ lookedAt' = now /\ ~awake /\ wake <= now /\ running = Nobody
    BY <1>0, <1>3 DEF Look, TickIsRead
  <2>3. ASSUME NEW a \in Agents, begun[a] # Never, flow[a].mode = "cron", ~lost[a]
        PROVE  IsServed(a)' \/ IsPast(a)'
    <3>1. ~IsRunning(a)
      BY <2>2 DEF IsRunning
    <3>2. CASE IsPast(a)
      <4>1. MinuteOf(lookedAt) <= MinuteOf(now)
        BY <1>0, MinutesPass
      <4> QED
        BY <1>0, <2>2, <2>3, <3>2, <4>1 DEF IsPast
    <3>3. CASE IsLost(a)
      <4>1. MinuteOf(wake) <= MinuteOf(now)
        BY <1>0, <2>2, MinutesPass
      <4> QED
        BY <1>0, <2>2, <2>3, <3>3, <4>1 DEF IsPast, IsLost
    <3>4. CASE IsServed(a) /\ a \in Q
      <4>1. Due(a)
        BY <3>4
      <4>2. nextRun[a] # Never
        <5>1. SUFFICES ASSUME nextRun[a] = Never PROVE FALSE
          OBVIOUS
        <5>2. NextCron(flow[a].minutes, lastRun[a]) # Never
          BY <2>3, <3>4, <4>1, <5>1, DueIs DEF IsServed, NextRunFor
        <5>3. flow[a].minutes \in SUBSET Nat
          BY <2>3, SpecIs DEF NoSpec
        <5> QED
          BY <3>4, <5>1, <5>2, <5>3, NextCronIs DEF IsServed
      <4>3. nextRun[a] \in Nat /\ nextRun[a] <= now
        BY <4>1, <4>2, DueIs
      <4>4. MinuteOf(nextRun[a]) <= MinuteOf(now)
        BY <1>0, <4>3, MinutesPass
      <4> QED
        BY <1>0, <2>2, <2>3, <3>4, <4>2, <4>3, <4>4 DEF IsPast, IsServed
    <3>5. CASE IsServed(a) /\ a \notin Q
      <4>1. ~Unanchored(a)
        BY <2>3 DEF Unanchored
      <4>2. nextRun'[a] = nextRun[a] /\ queue'[a] = NoSpec
        BY <1>3, <2>1, <3>5, <4>1 DEF Look, Arm
      <4> QED
        BY <2>2, <3>5, <4>2 DEF IsServed
    <3> QED
      BY <2>3, <3>1, <3>2, <3>3, <3>4, <3>5
  <2> QED
    BY <2>2, <2>3
<1>12. CASE LookFails
  <2>1. /\ UNCHANGED <<now, flow, lastRun, running, begun, lost, queue, awake, lookedAt>>
        /\ ~awake /\ wake <= now /\ running = Nobody /\ wake' \in Nat /\ wake <= wake'
    BY <1>0, <1>12 DEF LookFails, TickIsRead
  <2>2. ASSUME NEW a \in Agents, begun[a] # Never, flow[a].mode = "cron", ~lost[a]
        PROVE  IsServed(a)' \/ IsPast(a)' \/ IsLost(a)'
    <3>1. ~Unanchored(a)
      BY <2>2 DEF Unanchored
    <3>2. nextRun'[a] = nextRun[a]
      BY <1>12, <3>1 DEF LookFails, Arm
    <3>3. MinuteOf(wake) <= MinuteOf(wake')
      BY <1>0, <2>1, MinutesPass
    <3>4. MinuteOf(wake) \in Nat /\ MinuteOf(wake') \in Nat /\ MinuteOf(begun[a]) \in Nat
      BY <1>0, <2>1, <2>2
    <3>5. IsServed(a) \/ IsPast(a) \/ IsLost(a)
      BY <2>1, <2>2 DEF IsRunning
    <3> QED
      BY <2>1, <3>2, <3>3, <3>4, <3>5 DEF IsServed, IsPast, IsLost
  <2> QED
    BY <2>1, <2>2
<1>4. ASSUME NEW a \in Agents, queue[a] # NoSpec, awake, Write(a), Dequeue(a),
             UNCHANGED <<now, flow, lookedAt, wake, awake, begun>>, running \in {a, Nobody}, running' = Nobody,
             lost' = [lost EXCEPT ![a] = FALSE]
      PROVE  MinuteIsSpent'
  <2>1. ASSUME NEW b \in Agents, b # a, begun[b] # Never, flow[b].mode = "cron", ~lost[b]
        PROVE  IsServed(b)' \/ IsPast(b)'
    <3>1. lastRun'[b] = lastRun[b] /\ nextRun'[b] = nextRun[b] /\ queue'[b] = queue[b]
      BY <1>4, <2>1 DEF Write, Dequeue
    <3>2. IsServed(b) \/ IsPast(b)
      BY <1>4, <2>1 DEF IsRunning, IsLost
    <3> QED
      BY <1>4, <3>1, <3>2 DEF IsServed, IsPast
  <2>2. ASSUME begun[a] # Never, flow[a].mode = "cron"
        PROVE  IsServed(a)'
    <3>1. queue[a] = flow[a] /\ begun[a] \in Nat /\ begun[a] <= lookedAt
      BY <1>0, <1>4, <2>2
    <3>2. MinuteOf(begun[a]) <= MinuteOf(lookedAt)
      BY <1>0, <3>1, MinutesPass
    <3>3. /\ queue'[a] = NoSpec /\ lastRun'[a] = lookedAt
          /\ nextRun'[a] = NextCron(flow[a].minutes, lookedAt)
      BY <1>0, <1>4, <2>2, <3>1 DEF Write, Dequeue, NextRunFor
    <3>4. flow[a].minutes \in SUBSET Nat
      BY <2>2, SpecIs DEF NoSpec
    <3>5. CASE nextRun'[a] = Never
      <4>1. \A m \in flow[a].minutes : ~(m > MinuteOf(lookedAt))
        <5>1. ASSUME NEW m \in Nat PROVE MinuteLen * m # Never
          <6>1. MinuteLen * m \in Nat
            OBVIOUS
          <6> QED
            BY <6>1 DEF Never
        <5>2. \/ NextCron(flow[a].minutes, lookedAt) = Never
                 /\ \A m \in flow[a].minutes : ~(m > MinuteOf(lookedAt))
              \/ \E m \in flow[a].minutes : NextCron(flow[a].minutes, lookedAt) = MinuteLen * m
          BY <3>4, NextCronIs
        <5> QED
          BY <3>3, <3>4, <3>5, <5>1, <5>2
      <4> QED
        BY <1>0, <1>4, <3>3, <3>5, <4>1 DEF IsServed
    <3>6. CASE nextRun'[a] # Never
      <4>1. PICK m \in flow[a].minutes : m > MinuteOf(lookedAt) /\ nextRun'[a] = MinuteLen * m
        BY <3>3, <3>4, <3>6, NextCronIs
      <4>2. m \in Nat /\ nextRun'[a] \in Nat
        BY <3>4, <4>1
      <4>3. MinuteOf(nextRun'[a]) >= m
        BY <4>1, <4>2, MinuteStarts
      <4>4. MinuteOf(nextRun'[a]) > MinuteOf(begun[a])
        BY <1>0, <3>1, <3>2, <4>1, <4>2, <4>3
      <4> QED
        BY <1>0, <1>4, <3>3, <3>6, <4>4 DEF IsServed
    <3> QED
      BY <3>5, <3>6
  <2>3. \A b \in Agents : b # a => lost'[b] = lost[b]
    BY <1>4
  <2> QED
    BY <1>4, <2>1, <2>2, <2>3
<1>41. ASSUME NEW a \in Agents, queue[a] # NoSpec, awake, UNCHANGED row, Dequeue(a),
              UNCHANGED <<now, flow, lookedAt, wake, awake, begun>>, running \in {a, Nobody}, running' = Nobody,
              lost' = [lost EXCEPT ![a] = queue[a] = flow[a]]
       PROVE  MinuteIsSpent'
  <2>1. ASSUME NEW b \in Agents, b # a, begun[b] # Never, flow[b].mode = "cron", ~lost[b]
        PROVE  IsServed(b)' \/ IsPast(b)'
    <3>1. queue'[b] = queue[b]
      BY <1>41, <2>1 DEF Dequeue
    <3>2. IsServed(b) \/ IsPast(b)
      BY <1>41, <2>1 DEF IsRunning, IsLost
    <3> QED
      BY <1>41, <3>1, <3>2 DEF IsServed, IsPast
  <2>2. begun[a] # Never => lost'[a]
    BY <1>41
  <2>3. \A b \in Agents : b # a => lost'[b] = lost[b]
    BY <1>41
  <2> QED
    BY <1>41, <2>1, <2>2, <2>3
<1>5. ASSUME NEW a \in Agents, Skip(a) PROVE MinuteIsSpent'
  BY <1>4, <1>41, <1>5 DEF Skip, InHand, Finish
<1>6. ASSUME NEW a \in Agents, Raise(a) PROVE MinuteIsSpent'
  <2>1. queue'[a] = NoSpec /\ \A b \in Agents : b # a => queue'[b] = queue[b]
    BY <1>6 DEF Raise, Dequeue
  <2> QED
    BY <1>6, <2>1 DEF Raise, InHand, IsRunning, IsServed, IsPast, IsLost
<1>7. ASSUME NEW a \in Agents, BeginRun(a) PROVE MinuteIsSpent'
  <2>1. /\ queue[a] # NoSpec /\ awake /\ running = Nobody /\ running' = a
        /\ UNCHANGED <<now, flow, lookedAt, wake, awake, queue, lastRun, nextRun, lost>>
        /\ \A b \in Agents : b # a => begun'[b] = begun[b]
        /\ begun'[a] = IF queue[a] = flow[a] THEN lookedAt ELSE begun[a]
    BY <1>7 DEF BeginRun, InHand, Remember
  <2>2. ASSUME NEW b \in Agents, begun[b] # Never, flow[b].mode = "cron", ~lost[b]
        PROVE  IsServed(b) \/ IsPast(b)
    BY <2>1, <2>2 DEF IsRunning, IsLost
  <2>3. ASSUME NEW b \in Agents, b # a, begun'[b] # Never, flow[b].mode = "cron", ~lost[b]
        PROVE  IsServed(b)' \/ IsPast(b)'
    BY <2>1, <2>2, <2>3 DEF IsServed, IsPast
  <2>4. ASSUME begun'[a] # Never, flow[a].mode = "cron", ~lost[a]
        PROVE  IsRunning(a)' \/ IsPast(a)'
    <3>1. CASE queue[a] = flow[a]
      BY <2>1, <3>1 DEF IsRunning
    <3>2. CASE queue[a] # flow[a]
      BY <2>1, <2>2, <2>4, <3>2 DEF IsServed, IsPast
    <3> QED
      BY <3>1, <3>2
  <2>5. \A b \in Agents : begun'[b] # Never => begun'[b] <= now'
    BY <1>0, <2>1
  <2> QED
    BY <2>1, <2>3, <2>4, <2>5
<1>8. ASSUME NEW a \in Agents, EndRun(a) PROVE MinuteIsSpent'
  <2>1. queue[a] # NoSpec /\ awake
    BY <1>8 DEF EndRun, TickIsRead
  <2> QED
    BY <1>4, <1>41, <1>8, <2>1 DEF EndRun, Finish
<1>9. CASE Sleep
  <2>1. ASSUME NEW a \in Agents, begun[a] # Never, flow[a].mode = "cron", ~lost[a]
        PROVE  IsServed(a) \/ IsPast(a)
    BY <1>9, <2>1 DEF Sleep, IsRunning, IsLost, TickIsRead
  <2> QED
    BY <1>9, <2>1 DEF Sleep, IsServed, IsPast
<1>10. CASE Crash
  <2>1. ASSUME NEW a \in Agents, begun[a] # Never, flow[a].mode = "cron"
        PROVE  IsLost(a)'
    <3>1. begun[a] \in Nat /\ begun[a] <= now
      BY <1>0, <2>1
    <3>2. wake' \in Nat /\ begun[a] + MinuteLen <= wake'
      BY <1>0, <1>10, <3>1 DEF Crash
    <3>3. MinuteOf(begun[a]) < MinuteOf(wake')
      BY <3>1, <3>2, MinutesPass
    <3>4. ~awake' /\ begun' = begun
      BY <1>10 DEF Crash
    <3> QED
      BY <1>0, <3>1, <3>2, <3>3, <3>4 DEF IsLost
  <2>2. UNCHANGED <<now, flow, begun>>
    BY <1>10 DEF Crash
  <2> QED
    BY <2>1, <2>2
<1>11. CASE UNCHANGED vars
  BY <1>11 DEF vars, IsRunning, IsServed, IsPast, IsLost
<1> QED
  BY <1>1, <1>2, <1>3, <1>5, <1>6, <1>7, <1>8, <1>9, <1>10, <1>11, <1>12 DEF Next

LEMMA Initially == Init => IInv
<1> SUFFICES ASSUME Init PROVE IInv
  OBVIOUS
<1> USE AgentScheduleAssumption DEF Init
<1>1. TypeOK
  <2>1. now \in Time /\ lookedAt \in Time /\ wake \in Nat /\ edits \in 0 .. MaxEdits
        /\ faults \in 0 .. MaxFaults
    BY DEF Time
  <2> QED
    BY <2>1 DEF TypeOK
<1>2. TickIsRead
  BY DEF TickIsRead, NoSpec
<1>3. RowIsAnchored
  BY DEF RowIsAnchored, NoSpec, Never
<1>4. AttemptIsKept /\ MinuteIsSpent
  BY DEF AttemptIsKept, MinuteIsSpent
<1>5. TicksMoveOn
  BY DEF TicksMoveOn
<1> QED
  BY <1>1, <1>2, <1>3, <1>4, <1>5 DEF IInv

LEMMA Inductive == IInv /\ [Next]_vars => IInv'
  BY TypeStep, TickIsReadStep, TicksMoveOnStep, RowIsAnchoredStep, AttemptIsKeptStep, MinuteIsSpentStep DEF IInv

LEMMA Invariant == Spec => []IInv
  BY Initially, Inductive, PTL DEF Spec

-----------------------------------------------------------------------------
(* The theorems.                                                           *)

\* The schedule's variables keep their types.
THEOREM Typing == Spec => []TypeOK
<1>1. IInv => TypeOK
  BY DEF IInv
<1> QED
  BY <1>1, Invariant, PTL

\* An edited interval takes effect at the thread's next look, whatever a run of
\* the old one, begun before the edit and ending after it, writes to the row
\* (agent_schedule.py _due_agents and _finish).
THEOREM EditedIntervalsReanchor == Spec => []EditsTakeEffect
<1>1. IInv => EditsTakeEffect
  BY SpecIs DEF IInv, RowIsAnchored, EditsTakeEffect
<1> QED
  BY <1>1, Invariant, PTL

\* A cron expression begins a run at most once a minute, crashes included; a run
\* whose end was not written down is begun again at a later tick only.
THEOREM CronFiresOncePerMinute == Spec => CronOncePerMinute
<1>1. ASSUME IInv, NEW a \in Agents, BeginRun(a), flow[a].mode = "cron", begun[a] # Never
      PROVE  IF lost[a] THEN lookedAt > begun[a] ELSE MinuteOf(lookedAt) > MinuteOf(begun[a])
  <2>1. /\ queue[a] # NoSpec /\ awake /\ running = Nobody /\ running # a
        /\ lookedAt \in Int /\ begun[a] \in Int
    BY <1>1, AgentScheduleAssumption DEF BeginRun, InHand, IInv, TypeOK, Time, Never
  <2>2. CASE lost[a]
    BY <1>1, <2>1, <2>2 DEF IInv, TicksMoveOn
  <2>3. CASE ~lost[a]
    BY <1>1, <2>1, <2>3 DEF IInv, MinuteIsSpent, IsRunning, IsServed, IsPast, IsLost
  <2> QED
    BY <2>2, <2>3
<1>2. IInv /\ [Next]_vars =>
        [\A a \in Agents :
           BeginRun(a) /\ queue[a] = flow[a] /\ flow[a].mode = "cron" /\ begun[a] # Never
              => IF lost[a] THEN lookedAt > begun[a]
                 ELSE MinuteOf(lookedAt) > MinuteOf(begun[a])]_vars
  BY <1>1
<1> QED
  BY <1>2, Invariant, PTL DEF Spec, CronOncePerMinute

\* Every attempt at an unedited expression answers to a minute it names, after the
\* minute of the attempt before, if that one was written down.
THEOREM CronAnswersAMinute == Spec => CronRunsHaveTheirMinute
<1>1. ASSUME IInv, NEW a \in Agents, Attempts(a), queue[a] = flow[a], flow[a].mode = "cron",
             tried[a] # Never, ~lost[a]
      PROVE  \E m \in flow[a].minutes : MinuteOf(tried[a]) < m /\ m <= MinuteOf(lookedAt)
  <2>1. /\ nextRun[a] = NextCron(flow[a].minutes, tried[a])
        /\ nextRun[a] # Never /\ nextRun[a] <= lookedAt
    BY <1>1 DEF IInv, AttemptIsKept, Attempts
  <2>2. flow[a].minutes \in SUBSET Nat
    BY <1>1, SpecIs DEF IInv, TypeOK, NoSpec
  <2>3. PICK m \in flow[a].minutes : m > MinuteOf(tried[a]) /\ nextRun[a] = MinuteLen * m
    BY <2>1, <2>2, NextCronIs
  <2>4. lookedAt \in Nat /\ m \in Nat /\ tried[a] \in Nat
    BY <1>1, <2>2 DEF IInv, TypeOK, Time
  <2>5. MinuteOf(lookedAt) >= m
    BY <2>1, <2>3, <2>4, MinuteStarts, AgentScheduleAssumption
  <2>6. MinuteOf(lookedAt) \in Nat /\ MinuteOf(tried[a]) \in Nat
    BY <2>4, MinuteIs
  <2> QED
    BY <2>3, <2>4, <2>5, <2>6
<1>2. IInv /\ [Next]_vars =>
        [\A a \in Agents :
           Attempts(a) /\ queue[a] = flow[a] /\ flow[a].mode = "cron" /\ tried[a] # Never
              => lost[a] \/ \E m \in flow[a].minutes :
                    MinuteOf(tried[a]) < m /\ m <= MinuteOf(lookedAt)]_vars
  BY <1>1
<1> QED
  BY <1>2, Invariant, PTL DEF Spec, CronRunsHaveTheirMinute

\* Two attempts at an unedited interval are its length apart, skipped ones too; after
\* one that was not written down, a tick apart.
THEOREM IntervalsKeepTheirLength == Spec => IntervalsAreKept
<1>1. ASSUME IInv, NEW a \in Agents, Attempts(a), queue[a] = flow[a], flow[a].mode = "every",
             tried[a] # Never
      PROVE  lookedAt >= tried[a] + (IF lost[a] THEN 1 ELSE flow[a].len)
  <2>1. ~lost[a] => nextRun[a] <= lookedAt /\ nextRun[a] >= tried[a] + flow[a].len
    BY <1>1 DEF IInv, AttemptIsKept, TickIsRead
  <2>3. tried[a] < lookedAt
    BY <1>1 DEF IInv, TicksMoveOn, Attempts
  <2>2. flow[a].len \in Int /\ tried[a] \in Int /\ nextRun[a] \in Int /\ lookedAt \in Int
    BY <1>1, SpecIs DEF IInv, TypeOK, NoSpec, Time, Never
  <2> QED
    BY <2>1, <2>2, <2>3
<1>2. IInv /\ [Next]_vars =>
        [\A a \in Agents :
           Attempts(a) /\ queue[a] = flow[a] /\ flow[a].mode = "every" /\ tried[a] # Never
              => lookedAt >= tried[a] + (IF lost[a] THEN 1 ELSE flow[a].len)]_vars
  BY <1>1
<1> QED
  BY <1>2, Invariant, PTL DEF Spec, IntervalsAreKept
=============================================================================
