----------------------------- MODULE DailyBuilds -----------------------------
(***************************************************************************)
(* The two lists the server builds on its own: the watch list, once in     *)
(* each configured hour (backend/watchlist.py), and the daily market scan  *)
(* (backend/daily_scan.py).  What a build computes is left out: it ends    *)
(* "ok" or "error".                                                        *)
(*                                                                         *)
(* Time is counted in hours, so `now' also names the watch list's slot.    *)
(* The loop looks every minute, so an hour ends only when it has looked    *)
(* and is idle: a scheduled build is taken to fit in its hour.  An         *)
(* administrator's build may straddle two.                                 *)
(***************************************************************************)
EXTENDS Naturals

CONSTANTS
    Hours,        \* hours in a day
    LastHour,     \* bound: the last hour
    Schedules,    \* the sets of hours an administrator may configure
    ScanHours,    \* the hours the scan may be configured for
    MaxFaults     \* bound: restarts and changes of the settings

VARIABLES
    now, up,
    started,      \* the loop this behaviour starts: they share only the clock
    hours,        \* admin_settings.watchlist_hours_utc
    lists,        \* slot -> "none", "ok", "error": daily_watch_lists
    lock,         \* _running: "free" or its holder
    at,           \* builder -> "idle", "due", "building", or "ok"/"error": built, not saved
    slot,         \* builder -> the slot it builds
    looked,       \* the loop has looked at this hour
    scanHour, enabled,
    scans,        \* day -> "none", "ok", "error": daily_market_scans
    scan,         \* the scan loop: "booting", "asleep", "scanning"
    wake,         \* the hour its sleep ends
    faults,
    badSlots, badDays   \* history: the process or the settings were not steady

bvars == <<now, up, started, hours, lists, lock, at, slot, looked, scanHour, enabled, scans,
           scan, wake, faults, badSlots, badDays>>
watchVars == <<hours, lists, lock, at, slot, looked>>
scanVars == <<scanHour, enabled, scans, scan, wake>>

Slots == 0..LastHour
DayOf(n) == n \div Hours
Builders == {"loop", "admin"}
Results == {"ok", "error"}
Up(which) == up /\ started = which

-----------------------------------------------------------------------------
(* The watch list. *)

\* Mutant of Unbuilt: any list of the day counts.
UnbuiltToday(n) == \A m \in Slots : DayOf(m) = DayOf(n) => lists[m] = "none"

\* get(run_date, slot): a failed build has a row too.
Unbuilt(n) == lists[n] = "none"

\* _loop's pass: now.hour in hours() and not get(...).
LoopLooks ==
    /\ Up("list") /\ at["loop"] = "idle" /\ ~looked
    /\ IF now % Hours \in hours /\ Unbuilt(now)
       THEN /\ at' = [at EXCEPT !["loop"] = "due"]
            /\ slot' = [slot EXCEPT !["loop"] = now]
            /\ UNCHANGED looked
       ELSE looked' = TRUE /\ UNCHANGED <<at, slot>>
    /\ UNCHANGED <<now, up, started, hours, lists, lock, faults, badSlots, badDays, scanVars>>

\* The administrator asks: refused while the lock is held, else a thread runs
\* run_once(force=True), whose slot is the hour it starts in.
AdminAsks ==
    /\ Up("list") /\ at["admin"] = "idle" /\ lock = "free"
    /\ at' = [at EXCEPT !["admin"] = "due"]
    /\ slot' = [slot EXCEPT !["admin"] = now]
    /\ UNCHANGED <<now, up, started, hours, lists, lock, looked, faults, badSlots, badDays, scanVars>>

\* run_once up to the work: already built, the lock refused (RuntimeError,
\* which the loop logs and tries again in a minute), or building.
Starts(b) ==
    /\ Up("list") /\ at[b] = "due"
    /\ LET built == b = "loop" /\ ~Unbuilt(slot[b])
           mine == ~built /\ lock = "free"
       IN  /\ at' = [at EXCEPT ![b] = IF mine THEN "building" ELSE "idle"]
           /\ lock' = IF mine THEN b ELSE lock
    /\ UNCHANGED <<now, up, started, hours, lists, slot, looked, faults, badSlots, badDays, scanVars>>

\* The funnel, or the exception that makes the payload an error; then the
\* finally clause releases the lock, and only after that the row is saved.
Builds(b) ==
    /\ Up("list") /\ at[b] = "building"
    /\ \E r \in Results : at' = [at EXCEPT ![b] = r]
    /\ lock' = "free"
    /\ UNCHANGED <<now, up, started, hours, lists, slot, looked, faults, badSlots, badDays, scanVars>>

Saves(b) ==
    /\ Up("list") /\ at[b] \in Results
    /\ lists' = [lists EXCEPT ![slot[b]] = at[b]]
    /\ at' = [at EXCEPT ![b] = "idle"]
    /\ UNCHANGED <<now, up, started, hours, lock, slot, looked, faults, badSlots, badDays, scanVars>>

\* Nothing trades: the empty list is saved inside the try, before the release.
NothingTrades(b) ==
    /\ Up("list") /\ at[b] = "building"
    /\ lists' = [lists EXCEPT ![slot[b]] = "ok"]
    /\ at' = [at EXCEPT ![b] = "idle"]
    /\ lock' = "free"
    /\ UNCHANGED <<now, up, started, hours, slot, looked, faults, badSlots, badDays, scanVars>>

\* set_hours.
Reschedules(h) ==
    /\ Up("list") /\ faults < MaxFaults /\ faults' = faults + 1
    /\ hours' = h /\ h # hours
    /\ badSlots' = 0..now
    /\ UNCHANGED <<now, up, started, lists, lock, at, slot, looked, badDays, scanVars>>

-----------------------------------------------------------------------------
(* The scan. *)

\* next_run_at: this day's scan hour if it is still ahead, else tomorrow's.
NextRun(n) == LET t == DayOf(n) * Hours + scanHour IN IF t <= n THEN t + Hours ELSE t

\* On boot: catch up, whether or not scanning is switched on.
CatchesUp ==
    /\ Up("scan") /\ scan = "booting"
    /\ IF scans[DayOf(now)] = "none" THEN scan' = "scanning" /\ UNCHANGED wake
       ELSE scan' = "asleep" /\ wake' = NextRun(now)
    /\ UNCHANGED <<now, up, started, scanHour, enabled, scans, faults, badSlots, badDays, watchVars>>

\* The sleep is over: disabled sleeps on, otherwise a forced scan.
Wakes ==
    /\ Up("scan") /\ scan = "asleep" /\ now >= wake
    /\ IF enabled THEN scan' = "scanning" /\ UNCHANGED wake
       ELSE scan' = "asleep" /\ wake' = NextRun(now)
    /\ UNCHANGED <<now, up, started, scanHour, enabled, scans, faults, badSlots, badDays, watchVars>>

\* run_once: the outcome replaces the day's row, a good one included.
Scans ==
    /\ Up("scan") /\ scan = "scanning"
    /\ \E r \in Results : scans' = [scans EXCEPT ![DayOf(now)] = r]
    /\ scan' = "asleep" /\ wake' = NextRun(now)
    /\ UNCHANGED <<now, up, started, scanHour, enabled, faults, badSlots, badDays, watchVars>>

\* The settings row: a sleep that has begun is not cut short.
Resets(h, e) ==
    /\ Up("scan") /\ faults < MaxFaults /\ faults' = faults + 1
    /\ scanHour' = h /\ enabled' = e /\ <<h, e>> # <<scanHour, enabled>>
    /\ badDays' = 0..(DayOf(now) + 1)
    /\ UNCHANGED <<now, up, started, scans, scan, wake, badSlots, watchVars>>

-----------------------------------------------------------------------------
Stops ==
    /\ up /\ faults < MaxFaults /\ faults' = faults + 1
    /\ up' = FALSE
    /\ badSlots' = badSlots \cup {now} /\ badDays' = badDays \cup {DayOf(now)}
    /\ UNCHANGED <<now, started, watchVars, scanVars>>

\* A new process: the lock is new and nobody is building.
Boots ==
    /\ ~up /\ up' = TRUE
    /\ lock' = "free"
    /\ at' = [b \in Builders |-> "idle"]
    /\ looked' = FALSE
    /\ scan' = "booting"
    /\ UNCHANGED <<now, started, hours, lists, slot, scanHour, enabled, scans, wake, faults, badSlots, badDays>>

HourPasses ==
    /\ now < LastHour
    /\ Up("list") => looked /\ at["loop"] = "idle"
    /\ Up("scan") => scan = "asleep" /\ now < wake
    /\ now' = now + 1
    /\ looked' = FALSE
    /\ badSlots' = IF up THEN badSlots ELSE badSlots \cup {now + 1}
    /\ badDays' = IF up THEN badDays ELSE badDays \cup {DayOf(now + 1)}
    /\ UNCHANGED <<up, started, hours, lists, lock, at, slot, faults, scanVars>>

Init ==
    /\ now = 0 /\ up = FALSE /\ started \in {"list", "scan"} /\ faults = 0 /\ badSlots = {0} /\ badDays = {0}
    /\ hours \in Schedules /\ lists = [n \in Slots |-> "none"]
    /\ lock = "free" /\ looked = FALSE
    /\ at = [b \in Builders |-> "idle"] /\ slot = [b \in Builders |-> 0]
    /\ scanHour \in ScanHours /\ enabled = TRUE
    /\ scans = [d \in 0..DayOf(LastHour) |-> "none"]
    /\ scan = "booting" /\ wake = 0

Next ==
    \/ LoopLooks \/ AdminAsks
    \/ \E b \in Builders : Starts(b) \/ Builds(b) \/ Saves(b) \/ NothingTrades(b)
    \/ \E h \in Schedules : Reschedules(h)
    \/ CatchesUp \/ Wakes \/ Scans
    \/ \E h \in ScanHours, e \in BOOLEAN : Resets(h, e)
    \/ Stops \/ Boots \/ HourPasses

Spec == Init /\ [][Next]_bvars

-----------------------------------------------------------------------------
(* Properties. *)

\* Every scheduled hour the server was up for has its list once the hour is
\* over, a failed one for want of a better, whatever an administrator's builds do
\* to the lock (watchlist.py:828-841, 487-490).
SlotsAreBuilt ==
    \A n \in Slots : n < now /\ n % Hours \in hours /\ n \notin badSlots /\ started = "list"
        => lists[n] # "none"

\* Every day the server was up for and scanning was on has its scan once the
\* hour of the scan is over, the catch-up at boot and the sleep computed from
\* the clock included (daily_scan.py:549-566).
DaysAreScanned ==
    \A d \in DOMAIN scans : enabled /\ d \notin badDays /\ started = "scan" /\ d * Hours + scanHour < now
        => scans[d] # "none"

NothingIsSkipped == SlotsAreBuilt /\ DaysAreScanned

-----------------------------------------------------------------------------
(* Why it holds: the inductive invariant. *)

BuildTypeOK ==
    /\ now \in Slots /\ up \in BOOLEAN
    /\ lists \in [Slots -> {"none"} \cup Results]
    /\ at \in [Builders -> {"idle", "due", "building"} \cup Results]
    /\ slot \in [Builders -> Slots] /\ looked \in BOOLEAN
    /\ scanHour \in ScanHours /\ enabled \in BOOLEAN
    /\ scans \in [0..DayOf(LastHour) -> {"none"} \cup Results]
    /\ scan \in {"booting", "asleep", "scanning"} /\ wake \in Nat

\* What is not steady is known to be so.
FaultsAreNoted ==
    /\ badSlots \subseteq 0..now /\ badDays \subseteq 0..(DayOf(now) + 1)
    /\ ~up => now \in badSlots /\ DayOf(now) \in badDays

\* The hour the loop has looked at needs no list, or has one.
LookedAtIsBuilt ==
    Up("list") /\ looked /\ now % Hours \in hours /\ now \notin badSlots => lists[now] # "none"

\* The sleep ends within a day, at a scan hour none has been missed before.
SleepIsSound ==
    Up("scan") /\ scan = "asleep" =>
        /\ now <= wake /\ wake <= now + Hours
        /\ \A d \in DOMAIN scans :
              enabled /\ d \notin badDays /\ d * Hours + scanHour < wake => scans[d] # "none"

IInv == NothingIsSkipped /\ BuildTypeOK /\ FaultsAreNoted /\ LookedAtIsBuilt /\ SleepIsSound
=============================================================================
