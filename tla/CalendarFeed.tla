----------------------------- MODULE CalendarFeed -----------------------------
(***************************************************************************)
(* The worker of the economic calendar (modules/economic-calendar/backend/ *)
(* econ.py): list the calendar, sleep until shortly before the next        *)
(* release, poll fast around it until its number prints, and keep every    *)
(* number seen.                                                            *)
(*                                                                         *)
(* Time passes only while nobody has anything to do, but for a slow        *)
(* request, which is a fault.  The source is external: it prints an actual *)
(* some time after its release is due, may revise it, and may fail.        *)
(***************************************************************************)
EXTENDS Integers, FiniteSets, FiniteSetsExt

CONSTANTS
    Loops,        \* worker threads there may be at once
    Calendars,    \* the calendars to consider: event -> when it is due
    Interval,     \* LISTING_INTERVAL_S, in ticks
    BurstLead,    \* BURST_LEAD_S
    BurstTail,    \* BURST_TAIL_S; the polls of a burst, and the listing after it,
                  \* are a tick apart
    Horizon,      \* bound: the last tick
    Bounds        \* bounds, as records of: faults (failures, lagging listings, slow
                  \* requests), switches (times the module is switched off)
                  \* and versions (of an actual that are shown)

VARIABLES
    due,          \* event -> tick, one of Calendars
    now,
    source,       \* event -> the version of its actual the source shows, 0 is none
    printed,      \* event -> the tick it was first shown, or Never
    rows,         \* event -> [actual, released]: calendar_events, or NoRow
    started,      \* _started
    stop,         \* _stop
    loop,         \* thread -> where it is
    since,        \* history: when the worker was last switched on
    bound,
    faults,
    switches

feedVars == <<due, now, source, printed, rows, started, stop, loop, since, bound, faults, switches>>

Events == DOMAIN due
Never == -1
NoRow == [actual |-> 0, released |-> Never, there |-> FALSE]
Nothing == [e \in Events |-> 0]
Worker(at, wake, burst, got) == [at |-> at, wake |-> wake, burst |-> burst, got |-> got]
Idle(t, burst) == Worker("idle", t, burst, Nothing)
Gone == Worker("off", 0, Never, Nothing)

At(l, s) == loop[l].at = s
Become(l, rec) == loop' = [loop EXCEPT ![l] = rec]
Goes(l) == At(l, "idle") /\ (stop \/ loop[l].wake <= now)
Bursting(l) == loop[l].burst # Never
Fault == faults < bound.faults /\ faults' = faults + 1

-------------------------------------------------------------------------------
(* The loop. *)

\* The loop, or the burst in it, finds the stop; a burst that is over returns to
\* the listing, and the next one is a moment later.
Ends(l) ==
    /\ Goes(l)
    /\ \/ stop /\ Become(l, Gone)
       \/ ~stop /\ Bursting(l) /\ now >= loop[l].burst + BurstTail /\ Become(l, Idle(now + 1, Never))
    /\ UNCHANGED <<due, bound, now, source, printed, rows, started, stop, since, faults, switches>>

Polls(l) == Goes(l) /\ ~stop /\ (Bursting(l) => now < loop[l].burst + BurstTail)

\* fetch_events_tv, right or behind the numbers already shown.
Fetches(l) ==
    /\ Polls(l)
    /\ \/ Become(l, Worker("save", 0, loop[l].burst, source)) /\ UNCHANGED faults
       \/ Fault /\ Become(l, Worker("save", 0, loop[l].burst, Nothing))
    /\ UNCHANGED <<due, bound, now, source, printed, rows, started, stop, since, switches>>

\* Nothing came: a listing gives up until the next interval, a burst polls on.
FetchFails(l) ==
    /\ Polls(l) /\ Fault
    /\ Become(l, IF Bursting(l) THEN Idle(now + 1, loop[l].burst) ELSE Idle(now + Interval, Never))
    /\ UNCHANGED <<due, bound, now, source, printed, rows, started, stop, since, switches>>

\* Mutant of Merged: the listing is the truth, also when it shows no number.
MergedAsListed(row, got) ==
    [there |-> TRUE, actual |-> got,
     released |-> IF row.released = Never /\ got > 0 THEN now ELSE row.released]

\* save_events' upsert of one row.
Merged(row, got) ==
    [there |-> TRUE, actual |-> IF got > 0 THEN got ELSE row.actual,
     released |-> IF row.released = Never /\ got > 0 THEN now ELSE row.released]

\* The release to burst on: the earliest that is due about now without a number.
Imminent(got) == {e \in Events : due[e] - now \in (-BurstTail)..BurstLead /\ got[e] = 0}

\* Mutant of Wake: it sleeps the interval through.
WakeByInterval(got) == now + Interval

\* How long a listing sleeps: until Lead before the next release, or the interval.
Wake(got) ==
    LET ahead == {due[e] - now : e \in {e \in Events : due[e] > now}}
    IN  now + (IF ahead = {} THEN Interval ELSE Min({Interval, Max({1, Min(ahead) - BurstLead})}))

Saves(l) ==
    LET got == loop[l].got
        soon == Imminent(got)
    IN  /\ At(l, "save")
        /\ rows' = [e \in Events |-> Merged(rows[e], got[e])]
        /\ Become(l, IF Bursting(l)
                     THEN IF \A e \in Events : due[e] = loop[l].burst => got[e] > 0
                          THEN Idle(now + 1, Never)
                          ELSE Idle(now + 1, loop[l].burst)
                     ELSE IF soon # {} THEN Idle(now, Min({due[e] : e \in soon}))
                     ELSE Idle(Wake(got), Never))
        /\ UNCHANGED <<due, bound, now, source, printed, started, stop, since, faults, switches>>

\* The table could not be written: whatever it was in, it waits an interval.
SaveFails(l) ==
    /\ At(l, "save") /\ Fault
    /\ Become(l, Idle(now + Interval, Never))
    /\ UNCHANGED <<due, bound, now, source, printed, rows, started, stop, since, switches>>

-------------------------------------------------------------------------------
(* The module's switch, the source, the clock. *)

\* stop_fetcher.
Stops ==
    /\ started /\ switches < bound.switches
    /\ stop' = TRUE /\ started' = FALSE /\ switches' = switches + 1
    /\ UNCHANGED <<due, bound, now, source, printed, rows, loop, since, faults>>

\* start_worker, which does not wait for the old thread: one that waits is woken
\* by the stop and finds it gone.
Starts ==
    /\ ~started
    /\ \E l \in Loops :
        /\ At(l, "off")
        /\ loop' = [k \in Loops |-> IF k = l THEN Idle(now, Never)
                                   ELSE IF At(k, "idle") THEN Idle(now, loop[k].burst) ELSE loop[k]]
    /\ started' = TRUE /\ stop' = FALSE /\ since' = now
    /\ UNCHANGED <<due, bound, now, source, printed, rows, faults, switches>>

\* External: an actual is shown, or revised.
Prints(e) ==
    /\ now >= due[e] /\ source[e] < bound.versions
    /\ source' = [source EXCEPT ![e] = source[e] + 1]
    /\ printed' = [printed EXCEPT ![e] = IF printed[e] = Never THEN now ELSE printed[e]]
    /\ UNCHANGED <<due, bound, now, rows, started, stop, loop, since, faults, switches>>

Tick ==
    /\ now < Horizon
    /\ \A l \in Loops : ~Goes(l)
    /\ IF \A l \in Loops : ~At(l, "save") THEN UNCHANGED faults ELSE Fault
    /\ now' = now + 1
    /\ UNCHANGED <<due, bound, source, printed, rows, started, stop, loop, since, switches>>

-------------------------------------------------------------------------------
Init ==
    /\ due \in Calendars
    /\ now = 0
    /\ source = [e \in Events |-> 0]
    /\ printed = [e \in Events |-> Never]
    /\ rows = [e \in Events |-> NoRow]
    /\ started = TRUE /\ stop = FALSE
    /\ loop \in {[k \in Loops |-> IF k = l THEN Idle(0, Never) ELSE Gone] : l \in Loops}
    /\ since = 0 /\ bound \in Bounds /\ faults = 0 /\ switches = 0

Next ==
    \/ \E l \in Loops : Ends(l) \/ Fetches(l) \/ FetchFails(l) \/ Saves(l) \/ SaveFails(l)
    \/ Stops \/ Starts \/ (\E e \in Events : Prints(e)) \/ Tick

Spec == Init /\ [][Next]_feedVars

-------------------------------------------------------------------------------
(* Properties. *)

\* A number shown within the burst's window is kept two ticks later ("so the actual
\* is captured within seconds", econ.py:456-459), a later one by the next listing;
\* each failure costs an interval.  Claimed of a worker that is switched on, from
\* then.
CaughtInTime ==
    \A e \in Events : started /\ printed[e] # Never /\ rows[e].actual = 0 =>
        now <= Max({printed[e], since})
               + (IF faults = 0 /\ switches = 0 /\ printed[e] < due[e] + BurstTail THEN 2
                  ELSE (faults + 1) * Interval)

\* A number once kept is never lost to a listing that lags, whoever saves it, and
\* the release is dated when the first was kept: not before it was shown.
NeverForgotten ==
    \A e \in Events :
        /\ rows[e].released # Never => rows[e].actual > 0 /\ rows[e].released >= printed[e]
        /\ rows[e].actual > 0 => rows[e].released # Never /\ printed[e] # Never

\* Both.
CalendarIsKept == CaughtInTime /\ NeverForgotten

-------------------------------------------------------------------------------
(* Why it holds: the inductive invariant. *)

Versions == [Events -> Nat]
Workers == [at : {"off", "idle", "save"}, wake : Nat, burst : Int, got : Versions]
Times == Nat \cup {Never}

FeedTyped ==
    /\ now \in Nat /\ since \in 0..now /\ faults \in Nat /\ switches \in Nat /\ stop \in BOOLEAN
    /\ \A e \in Events : due[e] \in Nat
    /\ source \in Versions /\ printed \in [Events -> Times]
    /\ rows \in [Events -> [there : BOOLEAN, actual : Nat, released : Times]]
    /\ loop \in [Loops -> Workers]

\* The worker is there while it is switched on, and it was not switched off but by a switch.
OnIsThere ==
    /\ started <=> ~stop
    /\ started => \E l \in Loops : ~At(l, "off")
    /\ stop => switches > 0

\* What is shown was printed, when it was due or later; what is in hand was shown.
PrintedIsShown ==
    /\ \A e \in Events : /\ source[e] > 0 <=> printed[e] # Never
                         /\ printed[e] # Never => due[e] <= printed[e] /\ printed[e] <= now
    /\ \A l \in Loops, e \in Events : At(l, "save") /\ loop[l].got[e] > 0 => printed[e] # Never

\* Nobody oversleeps: until the interval at most, and in a burst until the next poll.
NobodyOversleeps ==
    \A l \in Loops : At(l, "idle") =>
        now <= loop[l].wake /\ loop[l].wake <= now + (IF Bursting(l) THEN 1 ELSE Interval)

\* A listing follows the last poll of a burst by a tick.
Relists(l) == loop[l].wake + (IF Bursting(l) THEN 1 ELSE 0)

\* How late a number may be, with each failure.
Allowed(f) == (f + 1) * Interval
Missing(e) == started /\ printed[e] # Never /\ rows[e].actual = 0

LateByFailures ==
    \A l \in Loops, e \in Events : Missing(e) =>
        /\ At(l, "idle") => Relists(l) <= Max({printed[e], since}) + Allowed(faults)
        /\ At(l, "save") =>
              now + (IF loop[l].got[e] = 0 THEN Interval ELSE 0) <= Max({printed[e], since}) + Allowed(faults)

\* Without failures: the next poll is there when a number is printed, or in two ticks.
SwiftWithout ==
    faults = 0 /\ switches = 0 => \A l \in Loops, e \in Events : rows[e].actual = 0 =>
        /\ At(l, "idle") =>
              IF printed[e] = Never THEN loop[l].wake <= now + 1 \/ loop[l].wake <= due[e] \/ now >= due[e] + BurstTail
              ELSE printed[e] < due[e] + BurstTail => Relists(l) <= printed[e] + 2
        /\ At(l, "save") /\ printed[e] # Never =>
              IF loop[l].got[e] = 0 THEN printed[e] = now
              ELSE printed[e] < due[e] + BurstTail => now <= printed[e] + 2

IInv ==
    /\ CalendarIsKept /\ FeedTyped /\ OnIsThere /\ PrintedIsShown /\ NobodyOversleeps
    /\ LateByFailures /\ SwiftWithout
===============================================================================
