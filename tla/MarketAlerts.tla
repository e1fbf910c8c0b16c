---------------------------- MODULE MarketAlerts ----------------------------
(***************************************************************************)
(* Alerts about the market (backend/market_alerts.py): passes over the     *)
(* sources record one row per happening, browsers ask for what appeared    *)
(* since the last answer, and a bell lists what a user has not cleared.    *)
(*                                                                         *)
(* Time is a logical clock that every statement reading now() advances.    *)
(* created_at is the insert's transaction's now(), so a row becomes        *)
(* visible later than the time it carries.                                 *)
(***************************************************************************)
EXTENDS Integers, FiniteSets

CONSTANTS
    Keys,         \* natural ids of happenings
    Emitters,     \* passes that may overlap: two workers of one database
    Limit,        \* rows an answer holds
    LastTime      \* bound

VARIABLES
    clock,
    created,      \* key -> created_at, 0 without a row: market_alerts
    hollow,       \* keys whose row has an empty body
    emit,         \* emitter -> the insert in progress: [key, at, body], at 0 for none
    asked,        \* the browser's poll: the now() of its transaction, 0 when idle
    read,         \* the poll has read its rows
    mark,         \* the watermark the browser sends, 0 before its first answer
    given,        \* keys the browser has received
    shown,        \* keys the bell has listed
    seen,         \* market_alert_seen
    cleared,      \* market_alert_reads
    late,         \* history: committed after a poll or a look that began after the insert did
    crowded       \* history: left out of an answer that was full

avars == <<clock, created, hollow, emit, asked, read, mark, given, shown, seen,
           cleared, late, crowded>>
pollVars == <<asked, read, mark, given>>
bellVars == <<shown, seen, cleared>>

NoEmit == [key |-> "none", at |-> 0, body |-> FALSE]
Stored == {k \in Keys : created[k] # 0}

\* One reading of now().
Now == clock + 1
Advance == clock < LastTime /\ clock' = Now

\* ORDER BY created_at DESC LIMIT.
Newest(s) == {k \in s : Cardinality({l \in s : created[l] > created[k]}) < Limit}

-----------------------------------------------------------------------------
(* The passes.  A source lists a happening for hours, so any pass may emit any
   key again; the news source once carried its text under another name, so a
   body may be missing. *)

EmitBegins(e, k, body) ==
    /\ emit[e].at = 0
    /\ Advance
    /\ emit' = [emit EXCEPT ![e] = [key |-> k, at |-> Now, body |-> body]]
    /\ UNCHANGED <<created, hollow, late, crowded, pollVars, bellVars>>

\* INSERT ... ON CONFLICT (key) DO UPDATE SET body WHERE the stored one is empty.
EmitCommits(e) == LET k == emit[e].key IN
    /\ emit[e].at # 0
    /\ IF created[k] = 0
       THEN /\ created' = [created EXCEPT ![k] = emit[e].at]
            /\ hollow' = IF emit[e].body THEN hollow ELSE hollow \cup {k}
            /\ late' = IF emit[e].at < mark \/ emit[e].at < seen
                          \/ (read /\ emit[e].at < asked)
                       THEN late \cup {k} ELSE late
       ELSE /\ hollow' = IF emit[e].body THEN hollow \ {k} ELSE hollow
            /\ UNCHANGED <<created, late>>
    /\ emit' = [emit EXCEPT ![e] = NoEmit]
    /\ UNCHANGED <<clock, crowded, pollVars, bellVars>>

\* The source failed or the process ended: the other sources go on.
EmitFails(e) ==
    /\ emit[e].at # 0
    /\ emit' = [emit EXCEPT ![e] = NoEmit]
    /\ UNCHANGED <<clock, created, hollow, late, crowded, pollVars, bellVars>>

\* The end of a pass: rows older than KEEP_DAYS go, and by ON DELETE CASCADE
\* what the users recorded of them.
Prune(k) ==
    /\ k \in Stored /\ \A l \in Stored : created[k] <= created[l]
    /\ created' = [created EXCEPT ![k] = 0]
    /\ hollow' = hollow \ {k} /\ cleared' = cleared \ {k}
    /\ late' = late \ {k} /\ crowded' = crowded \ {k}
    /\ given' = given \ {k} /\ shown' = shown \ {k}
    /\ UNCHANGED <<clock, emit, asked, read, mark, seen>>

-----------------------------------------------------------------------------
(* since: one transaction, so its now() is from before its rows are read. *)

PollBegins ==
    /\ asked = 0
    /\ Advance
    /\ asked' = Now
    /\ UNCHANGED <<created, hollow, emit, read, mark, given, late, crowded, bellVars>>

PollReads ==
    /\ asked # 0 /\ ~read
    /\ read' = TRUE
    /\ LET fresh == {k \in Stored : created[k] > mark} IN
       /\ given' = given \cup Newest(fresh)
       /\ crowded' = crowded \cup (fresh \ Newest(fresh))
    /\ UNCHANGED <<clock, created, hollow, emit, asked, mark, late, bellVars>>

\* Mutant of Watermark: the time the answer is made up.
WatermarkAtEnd == clock

Watermark == asked

PollAnswers ==
    /\ read
    /\ mark' = Watermark
    /\ asked' = 0 /\ read' = FALSE
    /\ UNCHANGED <<clock, created, hollow, emit, given, late, crowded, bellVars>>

-----------------------------------------------------------------------------
(* The bell. *)

Feed == Newest(Stored \ cleared)

\* feed.
Look ==
    /\ shown' = shown \cup Feed
    /\ crowded' = crowded \cup (Stored \ (cleared \cup Feed))
    /\ UNCHANGED <<clock, created, hollow, emit, late, seen, cleared, pollVars>>

\* mark_seen takes the time, not what was listed.
MarkSeen ==
    /\ Advance
    /\ seen' = Now
    /\ late' = late \cup (Stored \ shown)
    /\ UNCHANGED <<created, hollow, emit, crowded, shown, cleared, pollVars>>

\* dismiss, with a key or without.
Dismiss(ks) ==
    /\ ks # {} /\ (ks = Stored \/ (Cardinality(ks) = 1 /\ ks \subseteq shown \cap Stored))
    /\ cleared' = cleared \cup ks
    /\ UNCHANGED <<clock, created, hollow, emit, late, crowded, shown, seen, pollVars>>

-----------------------------------------------------------------------------
Init ==
    /\ clock = 0 /\ created = [k \in Keys |-> 0] /\ hollow = {}
    /\ emit = [e \in Emitters |-> NoEmit]
    /\ asked = 0 /\ read = FALSE /\ mark = 0 /\ given = {}
    /\ shown = {} /\ seen = 0 /\ cleared = {} /\ late = {} /\ crowded = {}

Next ==
    \/ \E e \in Emitters :
        \/ \E k \in Keys, b \in BOOLEAN : EmitBegins(e, k, b)
        \/ EmitCommits(e) \/ EmitFails(e)
    \/ \E k \in Keys : Prune(k)
    \/ PollBegins \/ PollReads \/ PollAnswers
    \/ Look \/ MarkSeen \/ \E ks \in SUBSET Keys : Dismiss(ks)

Spec == Init /\ [][Next]_avars

-----------------------------------------------------------------------------
(* Properties. *)

\* "A browser opened an hour later still sees what it missed"
\* (market_alerts.py:17-22, 200-210): an alert no newer than the browser's
\* watermark has been given to it, however passes, workers and polls overlap,
\* unless the answer that should have held it was full, or its insert was still
\* uncommitted when a later poll read; that alert is lost to the browser.  And
\* the badge, once empty, hides nothing the bell never listed, with the same
\* exceptions and that of an alert which arrives between the look and the mark.
NothingIsMissed ==
    \A k \in Stored \ (late \cup crowded) :
        /\ created[k] <= mark => k \in given
        /\ created[k] <= seen => k \in shown \cup cleared

-----------------------------------------------------------------------------
(* Why it holds: the inductive invariant. *)

AlertsTypeOK ==
    /\ clock \in Nat /\ created \in [Keys -> Nat]
    /\ emit \in [Emitters -> [key : Keys \cup {"none"}, at : Nat, body : BOOLEAN]]
    /\ asked \in Nat /\ read \in BOOLEAN /\ mark \in Nat /\ seen \in Nat

\* Every time is one reading of the clock, and no two readings agree.
TimesAreRead ==
    /\ asked <= clock /\ mark <= clock /\ seen <= clock /\ (read => asked # 0)
    /\ \A e \in Emitters : LET at == emit[e].at IN
          /\ at <= clock /\ (at # 0 => emit[e].key \in Keys /\ at \notin {asked, mark, seen})
    /\ \A k \in Stored : created[k] <= clock /\ created[k] \notin {asked, mark, seen}

\* What a poll that has read its rows will answer for.
ReadIsGiven == \A k \in Stored \ (late \cup crowded) : read /\ created[k] <= asked => k \in given

IInv == AlertsTypeOK /\ TimesAreRead /\ ReadIsGiven /\ NothingIsMissed
=============================================================================
