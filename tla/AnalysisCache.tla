--------------------------- MODULE AnalysisCache ---------------------------
(***************************************************************************)
(* One analysis for everybody who asks the same question at the same time  *)
(* (analysis_cache.py, and the part of analysis_api.analysis that uses it). *)
(* The first caller leads: it registers an entry and runs the analysis.    *)
(* Callers that come while it runs wait for the entry's event; callers      *)
(* that come within the window after it are given the stored answer.       *)
(*                                                                         *)
(* The registry is only touched under _lock, so acquire and the last step  *)
(* of fail are atomic; finish and the rest of fail hold no lock and are    *)
(* taken assignment by assignment.  An entry is named by its leader: each  *)
(* caller asks once and creates at most one.                               *)
(***************************************************************************)
EXTENDS Naturals, TLAPS

CONSTANTS Callers,   \* requests
          Keys,      \* questions, as key_for tells them apart
          KeyOf,     \* [Callers -> Keys]
          NoEntry,
          Windows,   \* what settings() may answer, 0 when sharing is off
          MaxWait,   \* MAX_WAIT_SECONDS
          MaxTime    \* bound: the clock stops here

ASSUME AnalysisCacheAssumption ==
    /\ KeyOf \in [Callers -> Keys]
    /\ NoEntry \notin Callers
    /\ Windows \subseteq Nat
    /\ MaxWait \in Nat
    /\ MaxTime \in Nat

VARIABLES now,
          entries,    \* _entries: the entry registered for a key
          createdAt,  \* the fields of each caller's entry
          payload, cost, failed,
          finishedAt, \* 0 while it runs, otherwise 1 + the time it ended
          event,
          pc,         \* where each caller is
          from        \* the entry a caller waits for, or was served from

fields == <<createdAt, payload, cost, failed, finishedAt, event>>
vars == <<now, entries, fields, pc, from>>

Init ==
    /\ now = 0
    /\ entries = [k \in Keys |-> NoEntry]
    /\ createdAt = [c \in Callers |-> 0]
    /\ payload = [c \in Callers |-> FALSE]
    /\ cost = [c \in Callers |-> FALSE]
    /\ failed = [c \in Callers |-> FALSE]
    /\ finishedAt = [c \in Callers |-> 0]
    /\ event = [c \in Callers |-> FALSE]
    /\ pc = [c \in Callers |-> "idle"]
    /\ from = [c \in Callers |-> NoEntry]

Goto(c, step) == pc' = [pc EXCEPT ![c] = step]

Finished(e) == finishedAt[e] > 0
Age(e) == now - (finishedAt[e] - 1)   \* since it finished

\* Time stops early enough for the last waiter to time out.
Tick ==
    /\ now < MaxTime
    /\ now' = now + 1
    /\ UNCHANGED <<entries, fields, pc, from>>

-----------------------------------------------------------------------------
(* acquire.                                                                *)

\* The second branch of _prune, "a leader that died".
Dead(e, w) ==
    /\ ~Finished(e)
    /\ now - createdAt[e] > MaxWait

\* The first branch.
Expired(e, w) == Finished(e) /\ Age(e) > w

\* The registry as _prune leaves it.
Pruned(w) == [k \in Keys |->
    IF entries[k] # NoEntry /\ (Expired(entries[k], w) \/ Dead(entries[k], w))
    THEN NoEntry ELSE entries[k]]

\* Running, or fresh and not failed.
Usable(e) == e # NoEntry /\ ~(Finished(e) /\ failed[e])

\* Sharing is switched off: run without an entry.
AcquireUnshared(c) ==
    /\ pc[c] = "idle" /\ now + MaxWait <= MaxTime
    /\ 0 \in Windows
    /\ Goto(c, "alone")
    /\ UNCHANGED <<now, entries, fields, from>>

\* Somebody runs it, or ran it inside the window.
AcquireShared(c, w) ==
    /\ pc[c] = "idle" /\ now + MaxWait <= MaxTime
    /\ w > 0
    /\ entries' = Pruned(w)
    /\ LET e == Pruned(w)[KeyOf[c]] IN
       /\ Usable(e)
       /\ Goto(c, IF Finished(e) THEN "cached" ELSE "waiting")
       /\ from' = [from EXCEPT ![c] = e]
    /\ UNCHANGED <<now, fields>>

\* Nothing usable: the caller leads, in the place of a failed entry if need be.
AcquireLead(c, w) ==
    /\ pc[c] = "idle" /\ now + MaxWait <= MaxTime
    /\ w > 0
    /\ ~Usable(Pruned(w)[KeyOf[c]])
    /\ entries' = [Pruned(w) EXCEPT ![KeyOf[c]] = c]
    /\ createdAt' = [createdAt EXCEPT ![c] = now]
    /\ Goto(c, "leading")
    /\ UNCHANGED <<now, payload, cost, failed, finishedAt, event, from>>

-----------------------------------------------------------------------------
(* wait.                                                                   *)

WaitReturns(c) ==
    /\ pc[c] = "waiting"
    /\ event[from[c]]
    /\ IF failed[from[c]] \/ ~payload[from[c]] THEN Goto(c, "alone") ELSE Goto(c, "cached")
    /\ UNCHANGED <<now, entries, fields, from>>

\* Mutant of WaitTimesOut: event.wait() without its timeout.
WaitForEver(c) == FALSE /\ UNCHANGED vars

\* Counted from the leader's start; a waiter that comes in at the limit does
\* not look at the event at all.
WaitTimesOut(c) ==
    /\ pc[c] = "waiting"
    /\ now - createdAt[from[c]] >= MaxWait
    /\ Goto(c, "alone")
    /\ UNCHANGED <<now, entries, fields, from>>

\* The caller's own run, shared with nobody: finish(None) and fail(None).
RunAlone(c) ==
    /\ pc[c] = "alone"
    /\ Goto(c, "served") \/ Goto(c, "refused")
    /\ UNCHANGED <<now, entries, fields, from>>

-----------------------------------------------------------------------------
(* finish, in the order of its assignments.                                *)

\* Mutant of StorePayload: finished_at is assigned first.
StampFirst(c) ==
    /\ pc[c] = "leading"
    /\ payload' = [payload EXCEPT ![c] = TRUE]
    /\ finishedAt' = [finishedAt EXCEPT ![c] = now + 1]
    /\ Goto(c, "payload")
    /\ UNCHANGED <<now, entries, createdAt, cost, failed, event, from>>

StorePayload(c) ==
    /\ pc[c] = "leading"
    /\ payload' = [payload EXCEPT ![c] = TRUE]
    /\ Goto(c, "payload")
    /\ UNCHANGED <<now, entries, createdAt, cost, failed, finishedAt, event, from>>

StoreCost(c) ==
    /\ pc[c] = "payload"
    /\ cost' = [cost EXCEPT ![c] = TRUE]
    /\ Goto(c, "cost")
    /\ UNCHANGED <<now, entries, createdAt, payload, failed, finishedAt, event, from>>

\* Mutant of StampFinished: the time is stored at which the answer expires.
StampExpiry(c) ==
    /\ pc[c] \in {"cost", "failing"}
    /\ finishedAt' = [finishedAt EXCEPT ![c] = now + 1 + MaxTime]
    /\ Goto(c, IF pc[c] = "cost" THEN "finished" ELSE "failed")
    /\ UNCHANGED <<now, entries, createdAt, payload, cost, failed, event, from>>

StampFinished(c) ==
    /\ pc[c] \in {"cost", "failing"}
    /\ finishedAt' = [finishedAt EXCEPT ![c] = now + 1]
    /\ Goto(c, IF pc[c] = "cost" THEN "finished" ELSE "failed")
    /\ UNCHANGED <<now, entries, createdAt, payload, cost, failed, event, from>>

Release(c) ==
    /\ pc[c] \in {"finished", "failed"}
    /\ event' = [event EXCEPT ![c] = TRUE]
    /\ Goto(c, IF pc[c] = "finished" THEN "served" ELSE "forgetting")
    /\ UNCHANGED <<now, entries, createdAt, payload, cost, failed, finishedAt, from>>

\* fail shares the stamp and the event with finish; this is its first step.
MarkFailed(c) ==
    /\ pc[c] = "leading"
    /\ failed' = [failed EXCEPT ![c] = TRUE]
    /\ Goto(c, "failing")
    /\ UNCHANGED <<now, entries, createdAt, payload, cost, finishedAt, event, from>>

\* Mutant of Forget: the registry is emptied by key instead of by identity.
ForgetByKey(c) ==
    /\ pc[c] = "forgetting"
    /\ entries' = [entries EXCEPT ![KeyOf[c]] = NoEntry]
    /\ Goto(c, "refused")
    /\ UNCHANGED <<now, fields, from>>

\* And its last, under the lock: only its own entry is taken out.
Forget(c) ==
    /\ pc[c] = "forgetting"
    /\ entries' = [k \in Keys |-> IF entries[k] = c THEN NoEntry ELSE entries[k]]
    /\ Goto(c, "refused")
    /\ UNCHANGED <<now, fields, from>>

-----------------------------------------------------------------------------
Waiting(c) == WaitReturns(c) \/ WaitTimesOut(c)

Running(c) ==
    \/ RunAlone(c) \/ StorePayload(c) \/ StoreCost(c)
    \/ StampFinished(c) \/ Release(c) \/ MarkFailed(c) \/ Forget(c)

Next ==
    \/ Tick
    \/ \E c \in Callers :
         \/ AcquireUnshared(c)
         \/ \E w \in Windows : AcquireShared(c, w) \/ AcquireLead(c, w)
         \/ Waiting(c) \/ Running(c)

Spec == Init /\ [][Next]_vars

\* Time passes and a woken or timed-out thread goes on; a run may take for ever.
FairSpec == Spec /\ WF_vars(Tick) /\ \A c \in Callers : WF_vars(Waiting(c))

-----------------------------------------------------------------------------
(* Properties.                                                             *)

TypeOK ==
    /\ now \in 0 .. MaxTime
    /\ entries \in [Keys -> Callers \cup {NoEntry}]
    /\ createdAt \in [Callers -> 0 .. MaxTime]
    /\ payload \in [Callers -> BOOLEAN]
    /\ cost \in [Callers -> BOOLEAN]
    /\ failed \in [Callers -> BOOLEAN]
    /\ finishedAt \in [Callers -> 0 .. MaxTime + 1]
    /\ event \in [Callers -> BOOLEAN]
    /\ pc \in [Callers -> {"idle", "alone", "waiting", "cached", "leading", "payload",
                           "cost", "finished", "failing", "failed", "forgetting",
                           "served", "refused"}]
    /\ from \in [Callers -> Callers \cup {NoEntry}]

\* Whoever is given somebody else's answer is given a whole one, with its price:
\* not a failed run, not an empty payload, not an answer whose cost still reads
\* 0.0 - although finish and fail write their fields without the lock.
SharedIsComplete ==
    \A c \in Callers : pc[c] = "cached" =>
        LET e == from[c] IN payload[e] /\ cost[e] /\ ~failed[e]

\* Leaders whose analysis is under way for a question.
Leaders(k) == {c \in Callers : KeyOf[c] = k /\ pc[c] \in {"leading", "payload", "cost"}}

\* While sharing is on a question is run twice at once only for a reason.  A second
\* leader: a run outlived MAX_WAIT_SECONDS (one that fails does not take its
\* successor's entry with it).  A waiter on its own: the run it waited for failed, as
\* all its waiters then do, or is that old.
RunsOverlapForAReason ==
    /\ \A k \in Keys : \A c, d \in Leaders(k) :
          c = d \/ now - createdAt[c] > MaxWait \/ now - createdAt[d] > MaxWait
    /\ \A c \in Callers : pc[c] = "alone" /\ from[c] # NoEntry =>
          failed[from[c]] \/ now - createdAt[from[c]] >= MaxWait

\* Nobody waits for ever, even for a leader that never comes back.
WaitersGetAway == \A c \in Callers : pc[c] = "waiting" ~> pc[c] # "waiting"

-----------------------------------------------------------------------------
(* A small instance: everybody asks the same question.                     *)

OneQuestion == [c \in Callers |-> CHOOSE k \in Keys : TRUE]

-----------------------------------------------------------------------------
(* The proofs, for every number of requests and questions, and every       *)
(* window and limit the settings may hold.                                 *)

-----------------------------------------------------------------------------
(* The inductive invariant.                                                *)

\* What an entry holds at each step of its leader, however unlocked.
Lifecycle ==
    \A c \in Callers :
        /\ pc[c] \in {"idle", "alone", "waiting", "cached", "leading", "payload", "cost"}
             => ~failed[c] /\ finishedAt[c] = 0 /\ ~event[c]
        /\ pc[c] \in {"payload", "cost"} => payload[c]
        /\ pc[c] = "cost" => cost[c]
        /\ pc[c] \in {"failing", "failed", "forgetting"} => failed[c]
        /\ finishedAt[c] > 0 => failed[c] \/ (payload[c] /\ cost[c])
        /\ pc[c] \in {"finished", "failed", "forgetting"} => finishedAt[c] > 0
        /\ event[c] => finishedAt[c] > 0

Registered ==
    \A k \in Keys : entries[k] # NoEntry =>
        KeyOf[entries[k]] = k /\ pc[entries[k]] # "idle"

\* A leader at work is the registered one unless it has become too old.
LeadersKept ==
    \A c \in Callers : pc[c] \in {"leading", "payload", "cost"}
        => entries[KeyOf[c]] = c \/ now - createdAt[c] > MaxWait

\* Where a rider looks.
Riders ==
    \A c \in Callers :
        /\ pc[c] \in {"waiting", "cached"} => from[c] \in Callers
        /\ pc[c] = "cached" => finishedAt[from[c]] > 0 /\ ~failed[from[c]]
        /\ pc[c] = "idle" => from[c] = NoEntry

\* Why a caller with an entry to wait for runs alone.
AloneForAReason ==
    \A c \in Callers : from[c] # NoEntry =>
        /\ pc[from[c]] # "idle"
        /\ pc[c] = "alone" => failed[from[c]] \/ now - createdAt[from[c]] >= MaxWait

IInv == TypeOK /\ Lifecycle /\ Registered /\ LeadersKept /\ Riders /\ AloneForAReason

\* Every step keeps the types; which entry a rider looks at is Riders' matter.
LEMMA TypeStep == TypeOK /\ [Next]_vars => TypeOK'
<1> SUFFICES ASSUME TypeOK, [Next]_vars PROVE TypeOK'
  OBVIOUS
<1> USE AnalysisCacheAssumption DEF TypeOK
<1>1. CASE Tick
  BY <1>1 DEF Tick, fields
<1>2. ASSUME NEW c \in Callers, AcquireUnshared(c) PROVE TypeOK'
  BY <1>2 DEF AcquireUnshared, Goto, fields
<1>3. ASSUME NEW c \in Callers, NEW w \in Windows, AcquireShared(c, w) PROVE TypeOK'
  BY <1>3 DEF AcquireShared, Pruned, Usable, Finished, Expired, Dead, Goto, fields
<1>4. ASSUME NEW c \in Callers, NEW w \in Windows, AcquireLead(c, w) PROVE TypeOK'
  BY <1>4 DEF AcquireLead, Pruned, Usable, Finished, Expired, Dead, Goto, fields
<1>5. ASSUME NEW c \in Callers, WaitReturns(c) PROVE TypeOK'
  BY <1>5 DEF WaitReturns, Goto, fields
<1>6. ASSUME NEW c \in Callers, WaitTimesOut(c) PROVE TypeOK'
  BY <1>6 DEF WaitTimesOut, Goto, fields
<1>7. ASSUME NEW c \in Callers, RunAlone(c) PROVE TypeOK'
  BY <1>7 DEF RunAlone, Goto, fields
<1>8. ASSUME NEW c \in Callers, StorePayload(c) PROVE TypeOK'
  BY <1>8 DEF StorePayload, Goto, fields
<1>9. ASSUME NEW c \in Callers, StoreCost(c) PROVE TypeOK'
  BY <1>9 DEF StoreCost, Goto, fields
<1>10. ASSUME NEW c \in Callers, StampFinished(c) PROVE TypeOK'
  BY <1>10 DEF StampFinished, Goto, fields
<1>11. ASSUME NEW c \in Callers, Release(c) PROVE TypeOK'
  BY <1>11 DEF Release, Goto, fields
<1>12. ASSUME NEW c \in Callers, MarkFailed(c) PROVE TypeOK'
  BY <1>12 DEF MarkFailed, Goto, fields
<1>13. ASSUME NEW c \in Callers, Forget(c) PROVE TypeOK'
  BY <1>13 DEF Forget, Goto, fields
<1>14. CASE UNCHANGED vars
  BY <1>14 DEF vars, fields
<1> QED
  BY <1>1, <1>2, <1>3, <1>4, <1>5, <1>6, <1>7, <1>8, <1>9, <1>10, <1>11, <1>12, <1>13, <1>14 DEF Next, Waiting, Running

\* _prune leaves a leader at work alone until its run is too old.
LEMMA PruneSparesTheYoung ==
    ASSUME IInv, NEW c \in Callers, NEW w \in Windows,
           pc[c] \in {"leading", "payload", "cost"}, ~(now - createdAt[c] > MaxWait)
    PROVE  Pruned(w)[KeyOf[c]] = c /\ Usable(c)
<1>1. entries[KeyOf[c]] = c /\ finishedAt[c] = 0 /\ KeyOf[c] \in Keys /\ c # NoEntry
  BY AnalysisCacheAssumption DEF IInv, LeadersKept, Lifecycle
<1>2. ~Expired(c, w) /\ ~Dead(c, w)
  BY <1>1 DEF Expired, Dead, Finished
<1> QED
  BY <1>1, <1>2 DEF Pruned, Usable, Finished

\* What _prune leaves is an entry of its key, or nothing.
LEMMA PruneType ==
    ASSUME IInv, NEW w \in Windows, NEW k \in Keys
    PROVE  Pruned(w)[k] \in {entries[k], NoEntry} /\ Pruned(w)[k] \in Callers \cup {NoEntry}
  BY DEF Pruned, IInv, TypeOK

\* Every step keeps the invariant.
LEMMA Inductive == IInv /\ [Next]_vars => IInv'
<1> SUFFICES ASSUME IInv, [Next]_vars
             PROVE Lifecycle' /\ Registered' /\ LeadersKept' /\ Riders' /\ AloneForAReason'
  BY TypeStep DEF IInv
<1>0. TypeOK'
  BY TypeStep DEF IInv
<1> DEFINE Goal == Lifecycle' /\ Registered' /\ LeadersKept' /\ Riders' /\ AloneForAReason'
<1> USE <1>0, AnalysisCacheAssumption DEF IInv, TypeOK
<1>1. CASE Tick
  <2>1. Lifecycle'
    BY <1>1 DEF Tick, fields, Lifecycle
  <2>2. Registered'
    BY <1>1 DEF Tick, fields, Registered
  <2>3. LeadersKept'
    BY <1>1 DEF Tick, fields, LeadersKept
  <2>4. Riders'
    BY <1>1 DEF Tick, fields, Riders
  <2>5. AloneForAReason'
    BY <1>1 DEF Tick, fields, Lifecycle, Registered, Riders, AloneForAReason
  <2> QED
    BY <2>1, <2>2, <2>3, <2>4, <2>5
<1>2. ASSUME NEW c \in Callers, AcquireUnshared(c) PROVE Goal
  <2>1. Lifecycle'
    BY <1>2 DEF AcquireUnshared, Goto, fields, Lifecycle
  <2>2. Registered'
    BY <1>2 DEF AcquireUnshared, Goto, fields, Registered
  <2>3. LeadersKept'
    BY <1>2 DEF AcquireUnshared, Goto, fields, LeadersKept
  <2>4. Riders'
    BY <1>2 DEF AcquireUnshared, Goto, fields, Riders
  <2>5. AloneForAReason'
    BY <1>2 DEF AcquireUnshared, Goto, fields, Lifecycle, Registered, Riders, AloneForAReason
  <2> QED
    BY <2>1, <2>2, <2>3, <2>4, <2>5
<1>3. ASSUME NEW c \in Callers, NEW w \in Windows, AcquireShared(c, w) PROVE Goal
  <2>1. Lifecycle'
    BY <1>3 DEF AcquireShared, Goto, fields, Lifecycle
  <2>2. Registered'
    <3>1. entries' = Pruned(w) /\ (\A d \in Callers : pc'[d] = "idle" => pc[d] = "idle")
      BY <1>3 DEF AcquireShared, Goto
    <3> QED
      BY <3>1, PruneType DEF Registered
  <2>3. LeadersKept'
    <3> SUFFICES ASSUME NEW d \in Callers, pc'[d] \in {"leading", "payload", "cost"},
                        ~(now' - createdAt'[d] > MaxWait)
                 PROVE entries'[KeyOf[d]] = d
      BY DEF LeadersKept
    <3>1. /\ pc'[d] = pc[d] /\ entries' = Pruned(w) /\ now' = now /\ createdAt' = createdAt
      BY <1>3 DEF AcquireShared, Goto, fields
    <3> QED
      BY <3>1, PruneSparesTheYoung
  <2>4. Riders'
    <3> DEFINE e == Pruned(w)[KeyOf[c]]
    <3>1. e \in Callers /\ (Finished(e) => ~failed[e])
      BY <1>3, PruneType DEF AcquireShared, Usable
    <3>2. /\ from' = [from EXCEPT ![c] = e]
          /\ pc' = [pc EXCEPT ![c] = IF Finished(e) THEN "cached" ELSE "waiting"]
          /\ UNCHANGED <<finishedAt, failed>>
      BY <1>3 DEF AcquireShared, Goto, fields
    <3> HIDE DEF e
    <3>3. \A d \in Callers : d # c => from'[d] = from[d] /\ pc'[d] = pc[d]
      BY <3>2
    <3>4. from'[c] = e /\ (pc'[c] = "cached" => Finished(e)) /\ pc'[c] # "idle"
      BY <3>2
    <3> QED
      BY <3>1, <3>2, <3>3, <3>4 DEF Riders, Finished
  <2>5. AloneForAReason'
    <3> DEFINE e == Pruned(w)[KeyOf[c]]
    <3>1. e \in Callers /\ pc[e] # "idle"
      BY <1>3, PruneType DEF AcquireShared, Usable, Registered
    <3>2. /\ from' = [from EXCEPT ![c] = e] /\ UNCHANGED <<now, createdAt, failed>>
          /\ \A d \in Callers : pc'[d] = "idle" => pc[d] = "idle"
          /\ \A d \in Callers : pc'[d] = "alone" => d # c /\ pc[d] = "alone"
      BY <1>3 DEF AcquireShared, Goto, fields
    <3> HIDE DEF e
    <3> QED
      BY <3>1, <3>2 DEF AloneForAReason
  <2> QED
    BY <2>1, <2>2, <2>3, <2>4, <2>5
<1>4. ASSUME NEW c \in Callers, NEW w \in Windows, AcquireLead(c, w) PROVE Goal
  <2>1. Lifecycle'
    BY <1>4 DEF AcquireLead, Goto, Lifecycle
  <2>2. Registered'
    <3>1. /\ entries' = [Pruned(w) EXCEPT ![KeyOf[c]] = c]
          /\ pc' = [pc EXCEPT ![c] = "leading"]
      BY <1>4 DEF AcquireLead, Goto
    <3>2. ASSUME NEW k \in Keys PROVE entries'[k] \in {c, Pruned(w)[k]} /\ (entries'[k] = c \/ entries'[k] = Pruned(w)[k])
                   /\ (entries'[k] # Pruned(w)[k] => k = KeyOf[c])
      BY <3>1 DEF Pruned
    <3> QED
      BY <3>1, <3>2, PruneType DEF Registered
  <2>3. LeadersKept'
    <3> SUFFICES ASSUME NEW d \in Callers, pc'[d] \in {"leading", "payload", "cost"},
                        ~(now' - createdAt'[d] > MaxWait)
                 PROVE entries'[KeyOf[d]] = d
      BY DEF LeadersKept
    <3>1. /\ entries' = [Pruned(w) EXCEPT ![KeyOf[c]] = c]
          /\ now' = now /\ ~Usable(Pruned(w)[KeyOf[c]])
          /\ KeyOf[c] \in DOMAIN Pruned(w)
      BY <1>4 DEF AcquireLead, Pruned
    <3>2. CASE d = c
      BY <3>1, <3>2
    <3>3. CASE d # c
      <4>1. pc'[d] = pc[d] /\ createdAt'[d] = createdAt[d]
        BY <1>4, <3>3 DEF AcquireLead, Goto
      <4>2. Pruned(w)[KeyOf[d]] = d /\ Usable(d)
        BY <3>1, <4>1, PruneSparesTheYoung
      <4>3. KeyOf[d] # KeyOf[c]
        BY <3>1, <4>2
      <4> QED
        BY <3>1, <4>2, <4>3
    <3> QED
      BY <3>2, <3>3
  <2>4. Riders'
    BY <1>4 DEF AcquireLead, Goto, Riders
  <2>5. AloneForAReason'
    <3>1. /\ createdAt' = [createdAt EXCEPT ![c] = now] /\ UNCHANGED <<now, from, failed>>
          /\ pc[c] = "idle" /\ pc' = [pc EXCEPT ![c] = "leading"]
      BY <1>4 DEF AcquireLead, Goto
    <3> QED
      BY <3>1 DEF AloneForAReason
  <2> QED
    BY <2>1, <2>2, <2>3, <2>4, <2>5
<1>5. ASSUME NEW c \in Callers, WaitReturns(c) PROVE Goal
  <2>1. Lifecycle'
    BY <1>5 DEF WaitReturns, Goto, fields, Lifecycle
  <2>2. Registered'
    BY <1>5 DEF WaitReturns, Goto, fields, Registered
  <2>3. LeadersKept'
    BY <1>5 DEF WaitReturns, Goto, fields, LeadersKept
  <2>4. Riders'
    <3>1. /\ from[c] \in Callers /\ event[from[c]]
          /\ pc'[c] = "cached" => ~failed[from[c]]
      BY <1>5 DEF WaitReturns, Goto, Riders
    <3>2. finishedAt[from[c]] > 0
      BY <3>1 DEF Lifecycle
    <3>3. \A d \in Callers : d # c => pc'[d] = pc[d]
      BY <1>5 DEF WaitReturns, Goto
    <3>4. pc'[c] # "idle" /\ UNCHANGED <<from, finishedAt, failed>>
      BY <1>5 DEF WaitReturns, Goto, fields
    <3> QED
      BY <3>1, <3>2, <3>3, <3>4 DEF Riders
  <2>5. AloneForAReason'
    BY <1>5 DEF WaitReturns, Goto, fields, Lifecycle, Registered, Riders, AloneForAReason
  <2> QED
    BY <2>1, <2>2, <2>3, <2>4, <2>5
<1>6. ASSUME NEW c \in Callers, WaitTimesOut(c) PROVE Goal
  <2>1. Lifecycle'
    BY <1>6 DEF WaitTimesOut, Goto, fields, Lifecycle
  <2>2. Registered'
    BY <1>6 DEF WaitTimesOut, Goto, fields, Registered
  <2>3. LeadersKept'
    BY <1>6 DEF WaitTimesOut, Goto, fields, LeadersKept
  <2>4. Riders'
    BY <1>6 DEF WaitTimesOut, Goto, fields, Riders
  <2>5. AloneForAReason'
    BY <1>6 DEF WaitTimesOut, Goto, fields, Lifecycle, Registered, Riders, AloneForAReason
  <2> QED
    BY <2>1, <2>2, <2>3, <2>4, <2>5
<1>7. ASSUME NEW c \in Callers, RunAlone(c) PROVE Goal
  <2>1. Lifecycle'
    BY <1>7 DEF RunAlone, Goto, fields, Lifecycle
  <2>2. Registered'
    BY <1>7 DEF RunAlone, Goto, fields, Registered
  <2>3. LeadersKept'
    BY <1>7 DEF RunAlone, Goto, fields, LeadersKept
  <2>4. Riders'
    BY <1>7 DEF RunAlone, Goto, fields, Riders
  <2>5. AloneForAReason'
    BY <1>7 DEF RunAlone, Goto, fields, Lifecycle, Registered, Riders, AloneForAReason
  <2> QED
    BY <2>1, <2>2, <2>3, <2>4, <2>5
<1>8. ASSUME NEW c \in Callers, StorePayload(c) PROVE Goal
  <2>1. Lifecycle'
    BY <1>8 DEF StorePayload, Goto, fields, Lifecycle
  <2>2. Registered'
    BY <1>8 DEF StorePayload, Goto, fields, Registered
  <2>3. LeadersKept'
    BY <1>8 DEF StorePayload, Goto, fields, LeadersKept
  <2>4. Riders'
    BY <1>8 DEF StorePayload, Goto, fields, Riders
  <2>5. AloneForAReason'
    BY <1>8 DEF StorePayload, Goto, fields, Lifecycle, Registered, Riders, AloneForAReason
  <2> QED
    BY <2>1, <2>2, <2>3, <2>4, <2>5
<1>9. ASSUME NEW c \in Callers, StoreCost(c) PROVE Goal
  <2>1. Lifecycle'
    BY <1>9 DEF StoreCost, Goto, fields, Lifecycle
  <2>2. Registered'
    BY <1>9 DEF StoreCost, Goto, fields, Registered
  <2>3. LeadersKept'
    BY <1>9 DEF StoreCost, Goto, fields, LeadersKept
  <2>4. Riders'
    BY <1>9 DEF StoreCost, Goto, fields, Riders
  <2>5. AloneForAReason'
    BY <1>9 DEF StoreCost, Goto, fields, Lifecycle, Registered, Riders, AloneForAReason
  <2> QED
    BY <2>1, <2>2, <2>3, <2>4, <2>5
<1>10. ASSUME NEW c \in Callers, StampFinished(c) PROVE Goal
  <2>1. Lifecycle'
    BY <1>10 DEF StampFinished, Goto, fields, Lifecycle
  <2>2. Registered'
    BY <1>10 DEF StampFinished, Goto, fields, Registered
  <2>3. LeadersKept'
    BY <1>10 DEF StampFinished, Goto, fields, LeadersKept
  <2>4. Riders'
    BY <1>10 DEF StampFinished, Goto, fields, Riders
  <2>5. AloneForAReason'
    BY <1>10 DEF StampFinished, Goto, fields, Lifecycle, Registered, Riders, AloneForAReason
  <2> QED
    BY <2>1, <2>2, <2>3, <2>4, <2>5
<1>11. ASSUME NEW c \in Callers, Release(c) PROVE Goal
  <2>1. Lifecycle'
    BY <1>11 DEF Release, Goto, fields, Lifecycle
  <2>2. Registered'
    BY <1>11 DEF Release, Goto, fields, Registered
  <2>3. LeadersKept'
    BY <1>11 DEF Release, Goto, fields, LeadersKept
  <2>4. Riders'
    BY <1>11 DEF Release, Goto, fields, Riders
  <2>5. AloneForAReason'
    BY <1>11 DEF Release, Goto, fields, Lifecycle, Registered, Riders, AloneForAReason
  <2> QED
    BY <2>1, <2>2, <2>3, <2>4, <2>5
<1>12. ASSUME NEW c \in Callers, MarkFailed(c) PROVE Goal
  <2>1. Lifecycle'
    BY <1>12 DEF MarkFailed, Goto, fields, Lifecycle
  <2>2. Registered'
    BY <1>12 DEF MarkFailed, Goto, fields, Registered
  <2>3. LeadersKept'
    BY <1>12 DEF MarkFailed, Goto, fields, LeadersKept
  <2>4. Riders'
    BY <1>12 DEF MarkFailed, Goto, Lifecycle, Riders
  <2>5. AloneForAReason'
    BY <1>12 DEF MarkFailed, Goto, fields, Lifecycle, Registered, Riders, AloneForAReason
  <2> QED
    BY <2>1, <2>2, <2>3, <2>4, <2>5
<1>13. ASSUME NEW c \in Callers, Forget(c) PROVE Goal
  <2>1. Lifecycle'
    BY <1>13 DEF Forget, Goto, fields, Lifecycle
  <2>2. Registered'
    BY <1>13 DEF Forget, Goto, fields, Registered
  <2>3. LeadersKept'
    BY <1>13 DEF Forget, Goto, fields, LeadersKept
  <2>4. Riders'
    BY <1>13 DEF Forget, Goto, fields, Riders
  <2>5. AloneForAReason'
    BY <1>13 DEF Forget, Goto, fields, Lifecycle, Registered, Riders, AloneForAReason
  <2> QED
    BY <2>1, <2>2, <2>3, <2>4, <2>5
<1>14. CASE UNCHANGED vars
  BY <1>14 DEF vars, fields, Lifecycle, Registered, LeadersKept, Riders, AloneForAReason
<1> QED
  BY <1>1, <1>2, <1>3, <1>4, <1>5, <1>6, <1>7, <1>8, <1>9, <1>10, <1>11, <1>12, <1>13, <1>14 DEF Next, Waiting, Running

LEMMA Initially == Init => IInv
  BY AnalysisCacheAssumption
     DEF Init, IInv, TypeOK, Lifecycle, Registered, LeadersKept, Riders, AloneForAReason

THEOREM Invariance == Spec => []IInv
  BY Initially, Inductive, PTL DEF Spec

-----------------------------------------------------------------------------
(* What follows from it.                                                   *)

\* The registry, its entries and the callers keep their types.
THEOREM Typing == Spec => []TypeOK
<1>1. IInv => TypeOK
  BY DEF IInv
<1> QED
  BY <1>1, Invariance, PTL

\* A shared answer is a whole one: the order of finish's assignments suffices.
THEOREM SharedAnswersAreComplete == Spec => []SharedIsComplete
<1>1. IInv => SharedIsComplete
  BY DEF IInv, Lifecycle, Riders, SharedIsComplete
<1> QED
  BY <1>1, Invariance, PTL

\* With sharing on, a run beside another is one nobody could wait for any longer, or
\* one whose answer failed.
THEOREM OverlapsHaveAReason == Spec => []RunsOverlapForAReason
<1>1. IInv => RunsOverlapForAReason
  BY DEF IInv, LeadersKept, Leaders, AloneForAReason, RunsOverlapForAReason
<1> QED
  BY <1>1, Invariance, PTL
=============================================================================
