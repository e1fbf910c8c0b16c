------------------------- MODULE DataTriggersProofs -------------------------
(***************************************************************************)
(* DataTriggers for any number of server processes, agents and items.       *)
(***************************************************************************)
EXTENDS DataTriggers, TLAPS

-----------------------------------------------------------------------------
(* What the conditions return is made of marks.                            *)

LEMMA HitsAreMarks ==
    ASSUME NEW w \in Workers, NEW a \in Agents, NEW c \in Conditions[a]
    PROVE  Hits(w, a, c) \subseteq Marks
<1>1. c \in Condition
  BY DataTriggersAssumption
<1> QED
  BY <1>1 DEF Hits, MarkOf, Marks, Condition

LEMMA TogetherAreGroups ==
    ASSUME NEW w \in Workers, NEW a \in Agents
    PROVE  Together(w, a) \subseteq Groups
<1> SUFFICES ASSUME NEW g \in [Conditions[a] -> UNION {Hits(w, a, c) : c \in Conditions[a]}],
                    \A c \in Conditions[a] : g[c] \in Hits(w, a, c)
             PROVE  {g[c] : c \in Conditions[a]} \subseteq Marks
  BY DEF Together, Groups
<1> QED
  BY HitsAreMarks

LEMMA ApartAreGroups ==
    ASSUME NEW w \in Workers, NEW a \in Agents
    PROVE  Apart(w, a) \subseteq Groups
  BY HitsAreMarks DEF Apart, Groups

-----------------------------------------------------------------------------
(* Types.                                                                  *)

\* Where each step of the thread leaves its locals.
Positions ==
    \A w \in Workers :
        /\ pc[w] \in {"sleep", "pass"} => got[w] = {} /\ owed[w] = {}
        /\ pc[w] \in {"mark", "fire", "run", "note"} => agent[w] \in Agents
        /\ pc[w] \in {"run", "note"} => owed[w] = {}

LEMMA TypeStep == TypeOK /\ Positions /\ [Next]_vars => TypeOK'
<1> SUFFICES ASSUME TypeOK, Positions, [Next]_vars PROVE TypeOK'
  OBVIOUS
<1> USE DataTriggersAssumption
    DEF TypeOK, Time, Never, world, tables, position, history, Settled
<1>1. CASE Tick
  BY <1>1 DEF Tick
<1>2. ASSUME NEW i \in Stories, Publish(i) PROVE TypeOK'
  BY <1>2 DEF Publish
<1>3. ASSUME NEW r \in Releases, PrintActual(r) PROVE TypeOK'
  BY <1>3 DEF PrintActual
<1>4. ASSUME NEW w \in Workers, Look(w) PROVE TypeOK'
  BY <1>4 DEF Look
<1>5. ASSUME NEW w \in Workers, Decline(w) PROVE TypeOK'
  BY <1>5 DEF Decline, Onward
<1>6. ASSUME NEW w \in Workers, BeginRun(w) PROVE TypeOK'
  BY <1>6 DEF BeginRun, Positions
<1>7. ASSUME NEW w \in Workers, EndRun(w) PROVE TypeOK'
  BY <1>7 DEF EndRun
<1>8. ASSUME NEW w \in Workers, Note(w) PROVE TypeOK'
  BY <1>8 DEF Note, Onward, FireTime
<1>9. ASSUME NEW w \in Workers, Fail(w) PROVE TypeOK'
  BY <1>9 DEF Fail, Onward
<1>10. ASSUME NEW w \in Workers, Abandon(w) PROVE TypeOK'
  BY <1>10 DEF Abandon, ToSleep, Positions
<1>11. ASSUME NEW w \in Workers, Sleep(w) PROVE TypeOK'
  BY <1>11 DEF Sleep, ToSleep
<1>12. ASSUME NEW w \in Workers, Crash(w) PROVE TypeOK'
  BY <1>12 DEF Crash, ToSleep
<1>13. ASSUME NEW w \in Workers, NEW a \in Agents, PassOver(w, a) PROVE TypeOK'
  BY <1>13 DEF PassOver
<1>14. ASSUME NEW w \in Workers, NEW a \in Agents, Evaluate(w, a) PROVE TypeOK'
  <2>1. \E P \in SUBSET Groups : pending' = [pending EXCEPT ![w] = P]
    <3>1. CASE \E G \in Together(w, a) : pending' = [pending EXCEPT ![w] = {G}]
      BY <3>1, TogetherAreGroups
    <3>2. CASE pending' = [pending EXCEPT ![w] = Apart(w, a)]
      BY <3>2, ApartAreGroups
    <3> QED
      BY <1>14, <3>1, <3>2 DEF Evaluate
  <2> QED
    BY <1>14, <2>1 DEF Evaluate
<1>15. ASSUME NEW w \in Workers, NEW G \in pending[w], Mark(w, G) PROVE TypeOK'
  <2>1. agent[w] \in Agents /\ G \in Groups /\ Keep(w, G) \in SUBSET Groups
    BY <1>15 DEF Mark, Keep, Positions
  <2>2. seen' \subseteq Agents \X Groups /\ owed' \in [Workers -> SUBSET (Agents \X Groups)]
    BY <1>15, <2>1 DEF Mark
  <2>5. UNCHANGED <<now, stamp, printed, lastFire, wake, lookedAt, last, faults, answered>>
    BY <1>15 DEF Mark
  <2>3. CASE pending[w] \ {G} # {} \/ Keep(w, G) # {}
    <3>1. /\ \E l \in {"mark", "fire"} : pc' = [pc EXCEPT ![w] = l]
          /\ pending' = [pending EXCEPT ![w] = @ \ {G}]
          /\ got' = [got EXCEPT ![w] = Keep(w, G)]
          /\ todo' = todo /\ agent' = agent
      BY <1>15, <2>3 DEF Mark
    <3> QED
      BY <2>1, <2>2, <2>5, <3>1
  <2>4. CASE pending[w] \ {G} = {} /\ Keep(w, G) = {}
    <3>1. Onward(w)
      BY <1>15, <2>4 DEF Mark
    <3> QED
      BY <2>2, <2>5, <3>1 DEF Onward
  <2> QED
    BY <2>3, <2>4
<1>16. CASE UNCHANGED vars
  BY <1>16 DEF vars
<1> QED
  BY <1>1, <1>2, <1>3, <1>4, <1>5, <1>6, <1>7, <1>8, <1>9, <1>10, <1>11, <1>12, <1>13, <1>14,
     <1>15, <1>16 DEF Next

-----------------------------------------------------------------------------
(* The inductive invariant.                                                *)

\* What a thread is going to run on is in the table, and new to the agent.
Entered ==
    /\ answered \subseteq seen
    /\ \A w \in Workers : \A G \in got[w] :
          /\ <<agent[w], G>> \in seen
          /\ pc[w] \in {"mark", "fire"} =>
               <<agent[w], G>> \in owed[w] /\ <<agent[w], G>> \notin answered

\* Only one INSERT lands: no two threads got the same item for one agent.
Exclusive ==
    \A v, w \in Workers : \A G \in got[v] \cap got[w] : agent[v] = agent[w] => v = w

\* What a pass read of lastFire is what is there, unless it was noted since.
UpToDate ==
    \A w \in Workers :
        /\ lookedAt[w] <= now
        /\ pc[w] # "sleep" =>
             \A a \in Agents : last[w][a] = lastFire[a] \/ lookedAt[w] <= lastFire[a]
        /\ pc[w] \in {"mark", "fire"} => ~Resting(w, agent[w])

IInv == TypeOK /\ Positions /\ Entered /\ Exclusive /\ UpToDate /\ BurstsAreAnswered

LEMMA Initially == Init => IInv
  BY DataTriggersAssumption
  DEF Init, IInv, TypeOK, Time, Never, Positions, Entered, Exclusive, UpToDate, BurstsAreAnswered

\* What Mark does, whether or not it ends the list.
LEMMA MarkEffect ==
    ASSUME TypeOK, Positions, NEW w \in Workers, NEW G \in pending[w], Mark(w, G)
    PROVE  /\ pc[w] = "mark" /\ agent[w] \in Agents
           /\ seen' = seen \cup {<<agent[w], G>>}
           /\ got' = [got EXCEPT ![w] = Keep(w, G)]
           /\ owed' = [owed EXCEPT ![w] = @ \cup ({<<agent[w], G>>} \ seen)]
           /\ \A v \in Workers \ {w} : pc'[v] = pc[v] /\ agent'[v] = agent[v]
           /\ \/ pc'[w] \in {"mark", "fire"} /\ agent'[w] = agent[w]
              \/ pc'[w] = "pass" /\ Keep(w, G) = {}
           /\ UNCHANGED <<now, lastFire, lookedAt, last, answered>>
<1>1. pc[w] = "mark" /\ agent[w] \in Agents
  BY DEF Mark, Positions
<1>2. CASE pending[w] \ {G} # {} \/ Keep(w, G) # {}
  BY <1>1, <1>2 DEF Mark, TypeOK, world
<1>3. CASE pending[w] \ {G} = {} /\ Keep(w, G) = {}
  BY <1>1, <1>3 DEF Mark, Onward, TypeOK, world
<1> QED
  BY <1>2, <1>3

\* Onward and ToSleep empty a thread's hands; everybody else's stay as they are.
LEMMA Inductive == IInv /\ [Next]_vars => IInv'
<1> SUFFICES ASSUME IInv, [Next]_vars
             PROVE  Positions' /\ Entered' /\ Exclusive' /\ UpToDate' /\ BurstsAreAnswered'
  BY TypeStep DEF IInv
<1> DEFINE Goal == Positions' /\ Entered' /\ Exclusive' /\ UpToDate' /\ BurstsAreAnswered'
<1> USE DataTriggersAssumption
    DEF IInv, TypeOK, Time, Never, world, tables, position, history, Settled
<1>1. CASE Tick
  <2>1. Positions'
    BY <1>1 DEF Tick, Positions
  <2>2. Entered'
    BY <1>1 DEF Tick, Entered, Positions
  <2>3. Exclusive'
    BY <1>1 DEF Tick, Exclusive, Positions
  <2>4. UpToDate'
    BY <1>1 DEF Tick, UpToDate, Positions, Resting
  <2>5. BurstsAreAnswered'
    BY <1>1 DEF Tick, BurstsAreAnswered, Positions
  <2> QED
    BY <2>1, <2>2, <2>3, <2>4, <2>5
<1>2. ASSUME NEW i \in Stories, Publish(i) PROVE Goal
  <2>1. Positions'
    BY <1>2 DEF Publish, Positions
  <2>2. Entered'
    BY <1>2 DEF Publish, Entered, Positions
  <2>3. Exclusive'
    BY <1>2 DEF Publish, Exclusive, Positions
  <2>4. UpToDate'
    BY <1>2 DEF Publish, UpToDate, Positions, Resting
  <2>5. BurstsAreAnswered'
    BY <1>2 DEF Publish, BurstsAreAnswered, Positions
  <2> QED
    BY <2>1, <2>2, <2>3, <2>4, <2>5
<1>3. ASSUME NEW r \in Releases, PrintActual(r) PROVE Goal
  <2>1. Positions'
    BY <1>3 DEF PrintActual, Positions
  <2>2. Entered'
    BY <1>3 DEF PrintActual, Entered, Positions
  <2>3. Exclusive'
    BY <1>3 DEF PrintActual, Exclusive, Positions
  <2>4. UpToDate'
    BY <1>3 DEF PrintActual, UpToDate, Positions, Resting
  <2>5. BurstsAreAnswered'
    BY <1>3 DEF PrintActual, BurstsAreAnswered, Positions
  <2> QED
    BY <2>1, <2>2, <2>3, <2>4, <2>5
<1>4. ASSUME NEW w \in Workers, Look(w) PROVE Goal
  <2>1. Positions'
    BY <1>4 DEF Look, Positions
  <2>2. Entered'
    BY <1>4 DEF Look, Entered, Positions
  <2>3. Exclusive'
    BY <1>4 DEF Look, Exclusive, Positions
  <2>4. UpToDate'
    BY <1>4 DEF Look, UpToDate, Positions, Resting
  <2>5. BurstsAreAnswered'
    BY <1>4 DEF Look, BurstsAreAnswered, Positions
  <2> QED
    BY <2>1, <2>2, <2>3, <2>4, <2>5
<1>5. ASSUME NEW w \in Workers, Decline(w) PROVE Goal
  <2>1. Positions'
    BY <1>5 DEF Decline, Onward, Positions
  <2>2. Entered'
    BY <1>5 DEF Decline, Onward, Entered, Positions
  <2>3. Exclusive'
    BY <1>5 DEF Decline, Onward, Exclusive, Positions
  <2>4. UpToDate'
    BY <1>5 DEF Decline, Onward, UpToDate, Positions, Resting
  <2>5. BurstsAreAnswered'
    BY <1>5 DEF Decline, Onward, BurstsAreAnswered, Positions
  <2> QED
    BY <2>1, <2>2, <2>3, <2>4, <2>5
<1>6. ASSUME NEW w \in Workers, BeginRun(w) PROVE Goal
  <2>1. Positions'
    BY <1>6 DEF BeginRun, Positions
  <2>2. Entered'
    <3>1. \A v \in Workers : \A G \in got[v] : pc'[v] \in {"mark", "fire"} =>
            <<agent[v], G>> \notin {<<agent[w], H>> : H \in got[w]}
      BY <1>6 DEF BeginRun, Exclusive
    <3>2. {<<agent[w], H>> : H \in got[w]} \subseteq seen
      BY DEF Entered
    <3>3. \A v \in Workers : pc'[v] \in {"mark", "fire"} => pc[v] \in {"mark", "fire"}
      BY <1>6 DEF BeginRun
    <3> QED
      BY <1>6, <3>1, <3>2, <3>3 DEF BeginRun, Entered
  <2>3. Exclusive'
    BY <1>6 DEF BeginRun, Exclusive, Positions
  <2>4. UpToDate'
    BY <1>6 DEF BeginRun, UpToDate, Positions, Resting
  <2>5. BurstsAreAnswered'
    BY <1>6 DEF BeginRun, BurstsAreAnswered, Positions
  <2> QED
    BY <2>1, <2>2, <2>3, <2>4, <2>5
<1>7. ASSUME NEW w \in Workers, EndRun(w) PROVE Goal
  <2>1. Positions'
    BY <1>7 DEF EndRun, Positions
  <2>2. Entered'
    BY <1>7 DEF EndRun, Entered, Positions
  <2>3. Exclusive'
    BY <1>7 DEF EndRun, Exclusive, Positions
  <2>4. UpToDate'
    BY <1>7 DEF EndRun, UpToDate, Positions, Resting
  <2>5. BurstsAreAnswered'
    BY <1>7 DEF EndRun, BurstsAreAnswered, Positions
  <2> QED
    BY <2>1, <2>2, <2>3, <2>4, <2>5
<1>8. ASSUME NEW w \in Workers, Note(w) PROVE Goal
  <2>1. Positions'
    BY <1>8 DEF Note, Onward, FireTime, Positions
  <2>2. Entered'
    BY <1>8 DEF Note, Onward, FireTime, Entered, Positions
  <2>3. Exclusive'
    BY <1>8 DEF Note, Onward, FireTime, Exclusive, Positions
  <2>4. UpToDate'
    BY <1>8 DEF Note, Onward, FireTime, UpToDate, Positions, Resting
  <2>5. BurstsAreAnswered'
    BY <1>8 DEF Note, Onward, FireTime, BurstsAreAnswered, Positions
  <2> QED
    BY <2>1, <2>2, <2>3, <2>4, <2>5
<1>9. ASSUME NEW w \in Workers, Fail(w) PROVE Goal
  <2>1. Positions'
    BY <1>9 DEF Fail, Onward, Positions
  <2>2. Entered'
    BY <1>9 DEF Fail, Onward, Entered, Positions
  <2>3. Exclusive'
    BY <1>9 DEF Fail, Onward, Exclusive, Positions
  <2>4. UpToDate'
    BY <1>9 DEF Fail, Onward, UpToDate, Positions, Resting
  <2>5. BurstsAreAnswered'
    BY <1>9 DEF Fail, Onward, BurstsAreAnswered, Positions
  <2> QED
    BY <2>1, <2>2, <2>3, <2>4, <2>5
<1>10. ASSUME NEW w \in Workers, Abandon(w) PROVE Goal
  <2>1. Positions'
    BY <1>10 DEF Abandon, ToSleep, Positions
  <2>2. Entered'
    BY <1>10 DEF Abandon, ToSleep, Entered, Positions
  <2>3. Exclusive'
    BY <1>10 DEF Abandon, ToSleep, Exclusive, Positions
  <2>4. UpToDate'
    BY <1>10 DEF Abandon, ToSleep, UpToDate, Positions, Resting
  <2>5. BurstsAreAnswered'
    BY <1>10 DEF Abandon, ToSleep, BurstsAreAnswered, Positions
  <2> QED
    BY <2>1, <2>2, <2>3, <2>4, <2>5
<1>11. ASSUME NEW w \in Workers, Sleep(w) PROVE Goal
  <2>1. Positions'
    BY <1>11 DEF Sleep, ToSleep, Positions
  <2>2. Entered'
    BY <1>11 DEF Sleep, ToSleep, Entered, Positions
  <2>3. Exclusive'
    BY <1>11 DEF Sleep, ToSleep, Exclusive, Positions
  <2>4. UpToDate'
    BY <1>11 DEF Sleep, ToSleep, UpToDate, Positions, Resting
  <2>5. BurstsAreAnswered'
    BY <1>11 DEF Sleep, ToSleep, BurstsAreAnswered, Positions
  <2> QED
    BY <2>1, <2>2, <2>3, <2>4, <2>5
<1>12. ASSUME NEW w \in Workers, Crash(w) PROVE Goal
  <2>1. Positions'
    BY <1>12 DEF Crash, ToSleep, Positions
  <2>2. Entered'
    BY <1>12 DEF Crash, ToSleep, Entered, Positions
  <2>3. Exclusive'
    BY <1>12 DEF Crash, ToSleep, Exclusive, Positions
  <2>4. UpToDate'
    BY <1>12 DEF Crash, ToSleep, UpToDate, Positions, Resting
  <2>5. BurstsAreAnswered'
    BY <1>12 DEF Crash, ToSleep, BurstsAreAnswered, Positions
  <2> QED
    BY <2>1, <2>2, <2>3, <2>4, <2>5
<1>13. ASSUME NEW w \in Workers, NEW a \in Agents, PassOver(w, a) PROVE Goal
  <2>1. Positions'
    BY <1>13 DEF PassOver, Positions
  <2>2. Entered'
    BY <1>13 DEF PassOver, Entered, Positions
  <2>3. Exclusive'
    BY <1>13 DEF PassOver, Exclusive, Positions
  <2>4. UpToDate'
    BY <1>13 DEF PassOver, UpToDate, Positions, Resting
  <2>5. BurstsAreAnswered'
    BY <1>13 DEF PassOver, BurstsAreAnswered, Positions
  <2> QED
    BY <2>1, <2>2, <2>3, <2>4, <2>5
<1>14. ASSUME NEW w \in Workers, NEW a \in Agents, Evaluate(w, a) PROVE Goal
  <2>1. Positions'
    BY <1>14 DEF Evaluate, Positions
  <2>2. Entered'
    BY <1>14 DEF Evaluate, Entered, Positions
  <2>3. Exclusive'
    BY <1>14 DEF Evaluate, Exclusive, Positions
  <2>4. UpToDate'
    BY <1>14 DEF Evaluate, UpToDate, Positions, Resting
  <2>5. BurstsAreAnswered'
    BY <1>14 DEF Evaluate, BurstsAreAnswered, Positions
  <2> QED
    BY <2>1, <2>2, <2>3, <2>4, <2>5
<1>15. ASSUME NEW w \in Workers, NEW G \in pending[w], Mark(w, G) PROVE Goal
  <2>0. /\ pc[w] = "mark" /\ agent[w] \in Agents
        /\ seen' = seen \cup {<<agent[w], G>>}
        /\ got' = [got EXCEPT ![w] = Keep(w, G)]
        /\ owed' = [owed EXCEPT ![w] = @ \cup ({<<agent[w], G>>} \ seen)]
        /\ \A v \in Workers \ {w} : pc'[v] = pc[v] /\ agent'[v] = agent[v]
        /\ \/ pc'[w] \in {"mark", "fire"} /\ agent'[w] = agent[w]
           \/ pc'[w] = "pass" /\ Keep(w, G) = {}
        /\ UNCHANGED <<now, lastFire, lookedAt, last, answered>>
    BY <1>15, MarkEffect
  <2>1. Positions'
    <3>0. got[w] = {} => owed[w] = {}
      BY DEF BurstsAreAnswered
    <3>1. owed'[w] = {} \/ Keep(w, G) # {}
      BY <2>0, <3>0 DEF Keep, IsSeen
    <3>2. pc'[w] = "pass" => got'[w] = {} /\ owed'[w] = {}
      BY <2>0, <3>1
    <3> QED
      BY <2>0, <3>2 DEF Positions
  <2>2. Entered'
    BY <2>0 DEF Keep, IsSeen, Entered
  <2>3. Exclusive'
    <3> SUFFICES ASSUME NEW u \in Workers, NEW v \in Workers, NEW H \in got'[u] \cap got'[v],
                        agent'[u] = agent'[v]
                 PROVE  u = v
      BY DEF Exclusive
    <3>1. \A x \in Workers : H \in got'[x] => agent'[x] = agent[x]
      BY <2>0
    <3>2. \A x \in Workers : H \in got'[x] =>
             H \in got[x] \/ (x = w /\ H = G /\ <<agent[w], G>> \notin seen)
      BY <2>0 DEF Keep, IsSeen
    <3>3. \A x \in Workers : H \in got[x] => <<agent[x], H>> \in seen
      BY DEF Entered
    <3> QED
      BY <3>1, <3>2, <3>3 DEF Exclusive
  <2>4. UpToDate'
    BY <2>0 DEF UpToDate, Resting
  <2>5. BurstsAreAnswered'
    <3> SUFFICES ASSUME NEW v \in Workers, owed'[v] # {}
                 PROVE  \E H \in got'[v] : <<agent'[v], H>> \in owed'[v]
      BY DEF BurstsAreAnswered
    <3>1. CASE v # w
      BY <2>0, <3>1 DEF BurstsAreAnswered
    <3>2. CASE v = w /\ got[w] = {}
      <4>1. owed[w] = {}
        BY <3>2 DEF BurstsAreAnswered
      <4>2. <<agent[w], G>> \notin seen
        BY <2>0, <3>2, <4>1
      <4> QED
        BY <2>0, <3>2, <4>2 DEF Keep, IsSeen
    <3>3. CASE v = w /\ got[w] # {}
      <4>1. PICK H \in got[w] : <<agent[w], H>> \in owed[w]
        BY <2>0, <3>3 DEF Entered
      <4>2. got'[w] = got[w] /\ agent'[w] = agent[w] /\ H \in got'[w]
        BY <2>0, <3>3 DEF Keep
      <4>3. owed[w] \subseteq owed'[w]
        BY <2>0
      <4> QED
        BY <3>3, <4>1, <4>2, <4>3
    <3> QED
      BY <3>1, <3>2, <3>3
  <2> QED
    BY <2>1, <2>2, <2>3, <2>4, <2>5
<1>16. CASE UNCHANGED vars
  <2>1. Positions'
    BY <1>16 DEF vars, Positions
  <2>2. Entered'
    BY <1>16 DEF vars, Entered, Positions
  <2>3. Exclusive'
    BY <1>16 DEF vars, Exclusive, Positions
  <2>4. UpToDate'
    BY <1>16 DEF vars, UpToDate, Positions, Resting
  <2>5. BurstsAreAnswered'
    BY <1>16 DEF vars, BurstsAreAnswered, Positions
  <2> QED
    BY <2>1, <2>2, <2>3, <2>4, <2>5
<1> QED
  BY <1>1, <1>2, <1>3, <1>4, <1>5, <1>6, <1>7, <1>8, <1>9, <1>10, <1>11, <1>12, <1>13, <1>14, <1>15, <1>16 DEF Next

THEOREM Invariance == Spec => []IInv
<1>1. IInv /\ [Next]_vars => IInv'
  BY Inductive
<1> QED
  BY <1>1, Initially, PTL DEF Spec

-----------------------------------------------------------------------------
(* The properties.                                                         *)

\* The two invariants the runs check, for every instance: types, and that what is
\* entered in agent_trigger_seen is about to be run on until it is settled.
THEOREM StaysWellFormed == Spec => [](TypeOK /\ BurstsAreAnswered)
  BY Invariance, PTL DEF IInv

\* What an agent with alternative conditions is run on is one mark at a time.
Alone(a, G) == Combine[a] = "or" => \E m : G = {m}

Singles ==
    /\ \A w \in Workers : \A G \in pending[w] \cup got[w] : Alone(agent[w], G)
    /\ \A ran \in answered : Alone(ran[1], ran[2])

LEMMA SinglesStep == IInv /\ Singles /\ [Next]_vars => Singles'
<1> SUFFICES ASSUME IInv, Singles, [Next]_vars PROVE Singles'
  OBVIOUS
<1> USE DEF IInv, TypeOK, world, tables, position, history
<1>1. ASSUME NEW w \in Workers, UNCHANGED answered,
             \/ Onward(w)
             \/ \E t \in Nat : ToSleep(w, t)
      PROVE  Singles'
  <2>1. /\ pending'[w] = {} /\ got'[w] = {}
        /\ \A v \in Workers \ {w} : /\ pending'[v] = pending[v] /\ got'[v] = got[v]
                                  /\ agent'[v] = agent[v]
    BY <1>1 DEF Onward, ToSleep
  <2> QED
    BY <1>1, <2>1 DEF Singles
<1>2. ASSUME NEW w \in Workers, Decline(w) \/ Note(w) \/ Fail(w) PROVE Singles'
  BY <1>1, <1>2 DEF Decline, Note, Fail
<1>3. ASSUME NEW w \in Workers, Abandon(w) \/ Sleep(w) \/ Crash(w) PROVE Singles'
  <2>1. now + TickLen \in Nat /\ now + BootDelay \in Nat
    BY DataTriggersAssumption DEF Time
  <2>2. UNCHANGED answered /\ \E t \in {now + TickLen, now + BootDelay} : ToSleep(w, t)
    BY <1>3 DEF Abandon, Sleep, Crash
  <2> QED
    BY <1>1, <2>1, <2>2
<1>4. ASSUME NEW w \in Workers, BeginRun(w) PROVE Singles'
  <2>1. /\ UNCHANGED <<agent, pending, got>>
        /\ answered' = answered \cup {<<agent[w], G>> : G \in got[w]}
    BY <1>4 DEF BeginRun
  <2>2. \A G \in got[w] : Alone(agent[w], G)
    BY DEF Singles
  <2> QED
    BY <2>1, <2>2 DEF Singles
<1>5. ASSUME NEW w \in Workers, NEW a \in Agents, Evaluate(w, a) PROVE Singles'
  <2>1. got[w] = {}
    BY <1>5 DEF Evaluate, Positions
  <2>2. /\ UNCHANGED <<got, answered>> /\ agent'[w] = a
        /\ \A v \in Workers \ {w} : pending'[v] = pending[v] /\ agent'[v] = agent[v]
    BY <1>5 DEF Evaluate
  <2>3. \A G \in pending'[w] : Alone(a, G)
    <3>1. CASE Combine[a] = "and"
      BY <3>1 DEF Alone
    <3>2. CASE Combine[a] # "and"
      <4>1. pending'[w] = Apart(w, a)
        BY <1>5, <3>2 DEF Evaluate
      <4> QED
        BY <4>1 DEF Apart, Alone
    <3> QED
      BY <3>1, <3>2
  <2> QED
    BY <2>1, <2>2, <2>3 DEF Singles
<1>6. ASSUME NEW w \in Workers, NEW G \in pending[w], Mark(w, G) PROVE Singles'
  <2>1. CASE Onward(w)
    BY <1>1, <1>6, <2>1 DEF Mark
  <2>2. CASE ~Onward(w)
    <3>1. /\ UNCHANGED <<agent, answered>>
          /\ pending' = [pending EXCEPT ![w] = @ \ {G}]
          /\ got' = [got EXCEPT ![w] = Keep(w, G)]
      BY <1>6, <2>2 DEF Mark
    <3>2. Keep(w, G) \subseteq got[w] \cup {G}
      BY DEF Keep
    <3> QED
      BY <3>1, <3>2 DEF Singles
  <2> QED
    BY <2>1, <2>2
<1>7. ASSUME UNCHANGED <<agent, pending, got, answered>> PROVE Singles'
  BY <1>7 DEF Singles
<1>8. ASSUME NEW w \in Workers,
             Look(w) \/ EndRun(w) \/ \E a \in Agents : PassOver(w, a)
      PROVE  Singles'
  BY <1>7, <1>8 DEF Look, EndRun, PassOver
<1>9. CASE Tick \/ (\E i \in Stories : Publish(i)) \/ (\E r \in Releases : PrintActual(r))
  BY <1>7, <1>9 DEF Tick, Publish, PrintActual
<1>10. CASE UNCHANGED vars
  BY <1>7, <1>10 DEF vars
<1> QED
  BY <1>2, <1>3, <1>4, <1>5, <1>6, <1>8, <1>9, <1>10 DEF Next

\* The primary key of agent_trigger_seen lets one INSERT land, whatever other
\* processes, restarts and failures do: with alternatives no item, as a condition met
\* it, is run on twice; otherwise no combination is.
THEOREM NoMarkIsAnsweredTwice == Spec => NoSecondRun
<1> DEFINE A == \A w \in Workers : BeginRun(w) =>
                   \A G \in got[w], ran \in answered : ran[1] = agent[w] =>
                      IF Combine[agent[w]] = "or" THEN G \cap ran[2] = {} ELSE G # ran[2]
<1>1. IInv /\ Singles => A
  <2> SUFFICES ASSUME IInv, Singles, NEW w \in Workers, BeginRun(w), NEW G \in got[w],
                      NEW ran \in answered, ran[1] = agent[w]
               PROVE  IF Combine[agent[w]] = "or" THEN G \cap ran[2] = {} ELSE G # ran[2]
    OBVIOUS
  <2>1. <<agent[w], G>> \notin answered
    BY DEF IInv, Entered, BeginRun
  <2>2. ran = <<agent[w], ran[2]>>
    BY DEF IInv, TypeOK
  <2>3. G # ran[2]
    BY <2>1, <2>2
  <2>4. ASSUME Combine[agent[w]] = "or" PROVE G \cap ran[2] = {}
    <3>1. PICK m : G = {m}
      BY <2>4 DEF Singles, Alone
    <3>2. PICK n : ran[2] = {n}
      BY <2>4 DEF Singles, Alone
    <3> QED
      BY <2>3, <3>1, <3>2
  <2> QED
    BY <2>3, <2>4
<1>2. Init => Singles
  BY DEF Init, Singles
<1>3. [](IInv /\ Singles) => [][A]_vars
  BY <1>1, PTL
<1> QED
  BY <1>2, <1>3, SinglesStep, Invariance, PTL DEF Spec, NoSecondRun

\* A pass that began after a run was noted leaves its agent alone for COOLDOWN.
THEOREM CooldownHolds == Spec => DistanceIsKept
<1> DEFINE A == \A w \in Workers :
                  BeginRun(w) => LET l == lastFire[agent[w]]
                                 IN  l = Never \/ lookedAt[w] <= l \/ lookedAt[w] >= l + Cooldown
<1>1. IInv => A
  <2> SUFFICES ASSUME IInv, NEW w \in Workers, BeginRun(w)
               PROVE  \/ lastFire[agent[w]] = Never
                      \/ lookedAt[w] <= lastFire[agent[w]]
                      \/ lookedAt[w] >= lastFire[agent[w]] + Cooldown
    OBVIOUS
  <2>1. pc[w] = "fire" /\ agent[w] \in Agents
    BY DEF BeginRun, IInv, Positions
  <2>2. \/ last[w][agent[w]] = lastFire[agent[w]]
        \/ lookedAt[w] <= lastFire[agent[w]]
    BY <2>1 DEF IInv, UpToDate
  <2>3. last[w][agent[w]] = Never \/ ~(lookedAt[w] - last[w][agent[w]] < Cooldown)
    BY <2>1 DEF IInv, UpToDate, Resting
  <2>4. lookedAt[w] \in Int /\ last[w][agent[w]] \in Int /\ Cooldown \in Int
    BY <2>1, DataTriggersAssumption DEF IInv, TypeOK, Time, Never
  <2> QED
    BY <2>2, <2>3, <2>4
<1>2. IInv /\ [Next]_vars => [A]_vars
  BY <1>1
<1> QED
  BY <1>2, Invariance, PTL DEF Spec, DistanceIsKept
=============================================================================
