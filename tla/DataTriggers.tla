---------------------------- MODULE DataTriggers ----------------------------
(***************************************************************************)
(* Agents that run when something happens (backend/data_triggers.py).  One *)
(* thread per server process looks every TICK seconds.  It evaluates the   *)
(* conditions of each agent's trigger, enters what it found in             *)
(* agent_trigger_seen, a transaction per item, and runs the agent on the   *)
(* first item that was not there yet; only after a run that ended well it  *)
(* notes when.                                                             *)
(*                                                                         *)
(* A mark is the key a condition gives to an item.  What is entered, and   *)
(* what a run is about, is a set of marks: one mark under "or", one of each *)
(* condition under "and".                                                  *)
(***************************************************************************)
EXTENDS Integers

CONSTANTS Workers,     \* the server processes, each with its thread
          Agents,
          Stories,     \* posts and news
          Releases,    \* entries of the calendar
          ReleaseAt,   \* [Releases -> the time an entry is due]
          Combine,     \* [Agents -> {"and", "or"}]
          Conditions,  \* [Agents -> the set of their conditions]
          Nobody,
          TickLen,     \* TICK
          Cooldown,    \* COOLDOWN
          Lookback,    \* LOOKBACK_MIN
          Window,      \* max(TICK * 2, 120), how long a release stays news
          BootDelay,   \* the wait at the top of _loop
          MaxTime,     \* bound: the clock stops here
          MaxLag,      \* bound: how late a story enters its table
          MaxFaults    \* bound: process deaths, failed runs and statements

\* kind and wait are the condition's, `of` the items its filters let through;
\* "named" is a story about certain instruments.
Kinds == {"story", "named", "before", "after"}
Condition == [kind : Kinds, of : SUBSET (Stories \cup Releases), wait : Nat]
Marks == [kind : Kinds, item : Stories \cup Releases, wait : Nat]
Groups == SUBSET Marks

ASSUME DataTriggersAssumption ==
    /\ ReleaseAt \in [Releases -> Nat]
    /\ Combine \in [Agents -> {"and", "or"}]
    /\ \A a \in Agents : Conditions[a] \subseteq Condition
    /\ Nobody \notin Agents
    /\ TickLen \in Nat \ {0} /\ Cooldown \in Nat \ {0} /\ Lookback \in Nat
    /\ Window \in Nat /\ BootDelay \in Nat
    /\ MaxTime \in Nat /\ MaxLag \in Nat /\ MaxFaults \in Nat

Never == -1
Time == 0 .. MaxTime

VARIABLES now,
          stamp,      \* [Stories -> the time a story bears, Never before it is there]
          printed,    \* the releases whose actual is in
          seen,       \* agent_trigger_seen
          lastFire,   \* analysis_agents.last_data_fire
          pc, wake,
          lookedAt,   \* the `now` of the pass
          todo,       \* agents the pass has not come to
          last,       \* lastFire as the pass read it
          agent,      \* the one the pass is at
          pending,    \* what it met and has still to enter
          got,        \* {groups[0]}, the first that was not there, or {}
          faults,
          answered,   \* history: what an agent has begun a run on
          owed        \* history: what the thread entered and has come to nothing yet

world == <<now, stamp, printed>>
tables == <<seen, lastFire>>
position == <<pc, wake, lookedAt, todo, last, agent, pending, got>>
history == <<answered, owed>>
vars == <<world, tables, position, faults, history>>

Init ==
    /\ now = 0
    /\ stamp = [i \in Stories |-> Never]
    /\ printed = {}
    /\ seen = {}
    /\ lastFire = [a \in Agents |-> Never]
    /\ pc = [w \in Workers |-> "sleep"]
    /\ wake = [w \in Workers |-> BootDelay]
    /\ lookedAt = [w \in Workers |-> 0]
    /\ todo = [w \in Workers |-> {}]
    /\ last = [w \in Workers |-> [a \in Agents |-> Never]]
    /\ agent = [w \in Workers |-> Nobody]
    /\ pending = [w \in Workers |-> {}]
    /\ got = [w \in Workers |-> {}]
    /\ faults = 0
    /\ answered = {}
    /\ owed = [w \in Workers |-> {}]

-----------------------------------------------------------------------------
(* What happens in the world.                                              *)

Tick ==
    /\ now < MaxTime
    /\ now' = now + 1
    /\ UNCHANGED <<stamp, printed, tables, position, faults, history>>

\* A story bears the time it was published, not the time it was fetched.
Publish(i) ==
    /\ stamp[i] = Never
    /\ \E t \in Time : t <= now /\ now - t <= MaxLag /\ stamp' = [stamp EXCEPT ![i] = t]
    /\ UNCHANGED <<now, printed, tables, position, faults, history>>

PrintActual(r) ==
    /\ r \notin printed
    /\ now >= ReleaseAt[r]
    /\ printed' = printed \cup {r}
    /\ UNCHANGED <<now, stamp, tables, position, faults, history>>

-----------------------------------------------------------------------------
(* The conditions.                                                         *)

\* Where a look begins: at the last run, or a little way back.
Since(w, a) == IF last[w][a] = Never THEN lookedAt[w] - Lookback ELSE last[w][a]

Meets(c, i, since, at) ==
    \/ /\ c.kind \in {"story", "named"} /\ i \in Stories
       /\ stamp[i] # Never /\ stamp[i] >= since
    \/ /\ c.kind = "before" /\ i \in Releases
       /\ c.wait # 0
       /\ at <= ReleaseAt[i] /\ ReleaseAt[i] - at <= c.wait
    \/ /\ c.kind = "after" /\ i \in printed
       /\ at >= ReleaseAt[i] + c.wait
       /\ at - (ReleaseAt[i] + c.wait) <= Window

MarkOf(c, i) == [kind |-> c.kind, item |-> i, wait |-> c.wait]

Hits(w, a, c) ==
    {MarkOf(c, i) : i \in {j \in c.of : Meets(c, j, Since(w, a), lookedAt[w])}}

\* One of each condition; which one is the provider's order.
Together(w, a) ==
    {{f[c] : c \in Conditions[a]} :
        f \in {g \in [Conditions[a] -> UNION {Hits(w, a, c) : c \in Conditions[a]}] :
                 \A c \in Conditions[a] : g[c] \in Hits(w, a, c)}}

Apart(w, a) == {{m} : m \in UNION {Hits(w, a, c) : c \in Conditions[a]}}

\* Mutant of Resting: compares with zero seconds.
NotResting(w, a) == last[w][a] # Never /\ lookedAt[w] - last[w][a] < 0

Resting(w, a) == last[w][a] # Never /\ lookedAt[w] - last[w][a] < Cooldown

-----------------------------------------------------------------------------
(* The thread: run_once.                                                   *)

\* Back from agent a, to the next one of the pass.
Onward(w) ==
    /\ pc' = [pc EXCEPT ![w] = "pass"]
    /\ todo' = [todo EXCEPT ![w] = @ \ {agent[w]}]
    /\ agent' = [agent EXCEPT ![w] = Nobody]
    /\ pending' = [pending EXCEPT ![w] = {}]
    /\ got' = [got EXCEPT ![w] = {}]

\* The pass is over for all its agents; the thread wakes at t.
ToSleep(w, t) ==
    /\ pc' = [pc EXCEPT ![w] = "sleep"]
    /\ wake' = [wake EXCEPT ![w] = t]
    /\ lookedAt' = [lookedAt EXCEPT ![w] = 0]
    /\ last' = [last EXCEPT ![w] = [a \in Agents |-> Never]]
    /\ todo' = [todo EXCEPT ![w] = {}]
    /\ agent' = [agent EXCEPT ![w] = Nobody]
    /\ pending' = [pending EXCEPT ![w] = {}]
    /\ got' = [got EXCEPT ![w] = {}]

\* What w entered has come to a run, or is lost for a reason.
Settled(w) == owed' = [owed EXCEPT ![w] = {}]

Look(w) ==
    /\ pc[w] = "sleep" /\ now >= wake[w]
    /\ pc' = [pc EXCEPT ![w] = "pass"]
    /\ lookedAt' = [lookedAt EXCEPT ![w] = now]
    /\ todo' = [todo EXCEPT ![w] = Agents]
    /\ last' = [last EXCEPT ![w] = lastFire]
    /\ UNCHANGED <<world, tables, wake, agent, pending, got, faults, history>>

\* No condition, the cooldown, nothing met, or a provider that raises.
PassOver(w, a) ==
    /\ pc[w] = "pass" /\ a \in todo[w]
    /\ todo' = [todo EXCEPT ![w] = @ \ {a}]
    /\ UNCHANGED <<world, tables, pc, wake, lookedAt, last, agent, pending, got, faults, history>>

Evaluate(w, a) ==
    /\ pc[w] = "pass" /\ a \in todo[w]
    /\ Conditions[a] # {}
    /\ ~Resting(w, a)
    /\ \/ /\ Combine[a] = "and"
          /\ \E G \in Together(w, a) : pending' = [pending EXCEPT ![w] = {G}]
       \/ /\ Combine[a] = "or" /\ Apart(w, a) # {}
          /\ pending' = [pending EXCEPT ![w] = Apart(w, a)]
    /\ pc' = [pc EXCEPT ![w] = "mark"]
    /\ agent' = [agent EXCEPT ![w] = a]
    /\ UNCHANGED <<world, tables, wake, lookedAt, todo, last, got, faults, history>>

\* Mutant of IsSeen: ON CONFLICT DO UPDATE, which returns a row every time.
IsSeenNever(a, G) == FALSE

IsSeen(a, G) == <<a, G>> \in seen

\* Mutant of Keep: an item that is there already ends the list.
KeepNone(w, G) == IF IsSeen(agent[w], G) THEN {} ELSE IF got[w] = {} THEN {G} ELSE got[w]

\* groups[:1] once G has been tried.
Keep(w, G) == IF got[w] = {} /\ ~IsSeen(agent[w], G) THEN {G} ELSE got[w]

\* _seen: one INSERT, its own transaction.
Mark(w, G) ==
    /\ pc[w] = "mark" /\ G \in pending[w]
    /\ seen' = seen \cup {<<agent[w], G>>}
    /\ LET kept == Keep(w, G)
           left == pending[w] \ {G}
           entered == {<<agent[w], G>>} \ seen
       IN  /\ owed' = [owed EXCEPT ![w] = @ \cup entered]
           /\ \/ /\ left # {} \/ kept # {}
                 /\ pc' = [pc EXCEPT ![w] = IF left # {} THEN "mark" ELSE "fire"]
                 /\ pending' = [pending EXCEPT ![w] = left]
                 /\ got' = [got EXCEPT ![w] = kept]
                 /\ UNCHANGED <<todo, agent>>
              \/ /\ left = {} /\ kept = {}
                 /\ Onward(w)
    /\ UNCHANGED <<world, lastFire, wake, lookedAt, last, faults, answered>>

\* _fire without a subscription or credits returns None.
Decline(w) ==
    /\ pc[w] = "fire"
    /\ Settled(w)
    /\ Onward(w)
    /\ UNCHANGED <<world, tables, wake, lookedAt, last, faults, answered>>

BeginRun(w) ==
    /\ pc[w] = "fire"
    /\ pc' = [pc EXCEPT ![w] = "run"]
    /\ answered' = answered \cup {<<agent[w], G>> : G \in got[w]}
    /\ Settled(w)
    /\ UNCHANGED <<world, tables, wake, lookedAt, todo, last, agent, pending, got, faults>>

EndRun(w) ==
    /\ pc[w] = "run"
    /\ pc' = [pc EXCEPT ![w] = "note"]
    /\ UNCHANGED <<world, tables, wake, lookedAt, todo, last, agent, pending, got, faults, history>>

FireTime == now

\* SET last_data_fire = now().
Note(w) ==
    /\ pc[w] = "note"
    /\ lastFire' = [lastFire EXCEPT ![agent[w]] = FireTime]
    /\ Onward(w)
    /\ UNCHANGED <<world, seen, wake, lookedAt, last, faults, history>>

\* _fire raises before the run or in it, or the UPDATE fails: the except goes on
\* to the next agent.
Fail(w) ==
    /\ pc[w] \in {"fire", "run", "note"}
    /\ faults < MaxFaults /\ faults' = faults + 1
    /\ Settled(w)
    /\ Onward(w)
    /\ UNCHANGED <<world, tables, wake, lookedAt, last, answered>>

\* An INSERT fails, committed or not, outside every try but the loop's: the pass
\* is over.
Abandon(w) ==
    /\ pc[w] = "mark"
    /\ faults < MaxFaults /\ faults' = faults + 1
    /\ Settled(w)
    /\ ToSleep(w, now + TickLen)
    /\ \E P \in {{}} \cup {{G} : G \in pending[w]} :
          seen' = seen \cup {<<agent[w], G>> : G \in P}
    /\ UNCHANGED <<world, lastFire, answered>>

Sleep(w) ==
    /\ pc[w] = "pass" /\ todo[w] = {}
    /\ ToSleep(w, now + TickLen)
    /\ UNCHANGED <<world, tables, faults, history>>

\* The process dies and comes back.
Crash(w) ==
    /\ pc[w] # "sleep"
    /\ faults < MaxFaults /\ faults' = faults + 1
    /\ Settled(w)
    /\ ToSleep(w, now + BootDelay)
    /\ UNCHANGED <<world, tables, answered>>

Next ==
    \/ Tick
    \/ \E i \in Stories : Publish(i)
    \/ \E r \in Releases : PrintActual(r)
    \/ \E w \in Workers :
         \/ Look(w) \/ Decline(w) \/ BeginRun(w) \/ EndRun(w) \/ Note(w)
         \/ Fail(w) \/ Abandon(w) \/ Sleep(w) \/ Crash(w)
         \/ \E a \in Agents : PassOver(w, a) \/ Evaluate(w, a)
         \/ \E G \in pending[w] : Mark(w, G)

Spec == Init /\ [][Next]_vars

-----------------------------------------------------------------------------
(* Properties.                                                             *)

TypeOK ==
    /\ now \in Time
    /\ stamp \in [Stories -> Time \cup {Never}]
    /\ printed \subseteq Releases
    /\ seen \subseteq Agents \X Groups
    /\ lastFire \in [Agents -> Time \cup {Never}]
    /\ pc \in [Workers -> {"sleep", "pass", "mark", "fire", "run", "note"}]
    /\ wake \in [Workers -> Nat]
    /\ lookedAt \in [Workers -> Time]
    /\ todo \in [Workers -> SUBSET Agents]
    /\ last \in [Workers -> [Agents -> Time \cup {Never}]]
    /\ agent \in [Workers -> Agents \cup {Nobody}]
    /\ pending \in [Workers -> SUBSET Groups]
    /\ got \in [Workers -> SUBSET Groups]
    /\ faults \in 0 .. MaxFaults
    /\ answered \subseteq Agents \X Groups
    /\ owed \in [Workers -> SUBSET (Agents \X Groups)]

\* "Two workers, a restart mid-tick or a clock that steps backwards cannot produce
\* a second run for one post".  Of an agent whose conditions are alternatives no two
\* runs are about one item, as one condition met it.  Where all of them must be met,
\* no two are about one combination: a release may be run on with each of several
\* stories, and an item again if conditions of two kinds let it through.
NoSecondRun ==
    [][\A w \in Workers : BeginRun(w) =>
         \A G \in got[w], ran \in answered : ran[1] = agent[w] =>
            IF Combine[agent[w]] = "or" THEN G \cap ran[2] = {} ELSE G # ran[2]]_vars

\* COOLDOWN is kept after every run that was noted: a pass that began after it
\* begins no other run of the agent within COOLDOWN.  (A run that failed is not
\* noted, and a pass that had begun before it does not know.)
DistanceIsKept ==
    [][\A w \in Workers :
         BeginRun(w) => LET l == lastFire[agent[w]]
                        IN  l = Never \/ lookedAt[w] <= l \/ lookedAt[w] >= l + Cooldown]_vars

\* "A burst of news is not a burst of runs", but it is one: as long as nothing a
\* thread has entered has been run on or lost (to a failure, or for want of
\* credits), the thread is about to run its agent on one of the items.
BurstsAreAnswered ==
    \A w \in Workers : owed[w] # {} => \E G \in got[w] : <<agent[w], G>> \in owed[w]
=============================================================================
