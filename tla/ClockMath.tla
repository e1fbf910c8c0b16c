------------------------------ MODULE ClockMath ------------------------------
(***************************************************************************)
(* Calendars: cron expressions (agent_schedule.py:59-160), the FX week     *)
(* (market_hours.py) and answers as of a past moment (pretend_time.py and  *)
(* its middleware in main.py).  `sum' is the question at hand.             *)
(*                                                                         *)
(* Cron runs on a calendar of its own size here: Minutes an hour, Hours a  *)
(* day, Days a month, one month for ever, weeks of seven days.             *)
(***************************************************************************)
EXTENDS Integers, SequencesExt

CONSTANTS
    Minutes, Hours, Days,
    Horizon,      \* minutes a search looks ahead, 370 days in the code
    Deep,         \* levels an answer is nested
    Sums          \* the questions asked

VARIABLE sum

-----------------------------------------------------------------------------
(* Cron.  A field is a list of parts [a, b, step]; a part `*' is [lo, hi, 1] *)
(* with all |-> TRUE if the whole field is written as one star.              *)

\* _field_values, of a valid field: in the weekday's, 7 is Sunday like 0.
FieldValues(field, weekday) ==
    LET values == UNION {{v \in p.a .. p.b : (v - p.a) % p.step = 0} : p \in field.parts}
    IN  IF weekday THEN {v % 7 : v \in values} ELSE values

\* A field that parse_cron refuses.
Invalid(field, lo, hi) ==
    field.parts = {} \/ \E p \in field.parts : p.a > p.b \/ p.a < lo \/ p.b > hi \/ p.step < 1

ParseFails(e) ==
    \/ Invalid(e.minute, 0, Minutes - 1) \/ Invalid(e.hour, 0, Hours - 1)
    \/ Invalid(e.day, 1, Days) \/ Invalid(e.weekday, 0, 7)

Minute(t) == t % Minutes
Hour(t) == (t \div Minutes) % Hours
DayCount(t) == t \div (Minutes * Hours)
Day(t) == (DayCount(t) % Days) + 1
Weekday(t) == DayCount(t) % 7

\* cron_matches: restricted both, the day of the month and of the week are
\* alternatives.
CronMatches(e, t) ==
    /\ ~ParseFails(e)
    /\ Minute(t) \in FieldValues(e.minute, FALSE)
    /\ Hour(t) \in FieldValues(e.hour, FALSE)
    /\ LET dom == Day(t) \in FieldValues(e.day, FALSE)
           dow == Weekday(t) \in FieldValues(e.weekday, TRUE)
       IN  IF ~e.day.all /\ ~e.weekday.all THEN dom \/ dow ELSE dom /\ dow

\* Mutant of NextCronAfter: the search begins at the minute itself.
NextCronAtOrAfter(e, t) ==
    LET Search[n \in 0..Horizon] ==
            IF CronMatches(e, t + n) THEN t + n ELSE IF n = Horizon THEN -1 ELSE Search[n + 1]
    IN  Search[0]

\* next_cron_after: minute by minute, from the one after t.
NextCronAfter(e, t) ==
    LET Search[n \in 1..Horizon] ==
            IF CronMatches(e, t + n) THEN t + n ELSE IF n = Horizon THEN -1 ELSE Search[n + 1]
    IN  Search[1]

-----------------------------------------------------------------------------
(* The FX week, in hours UTC; Monday is 0. *)

\* rollover_hour_utc: New York's 17:00.
Rollover(summer) == IF summer THEN 21 ELSE 22

\* fx_open; closed for the hour of the rollover.
FxOpen(weekday, hour, summer) ==
    LET close == Rollover(summer)
    IN  /\ weekday # 5
        /\ weekday = 4 => hour < close
        /\ weekday = 6 => hour >= (close + 1) % 24
        /\ weekday \notin {4, 6} => ~(close <= hour /\ hour < close + 1)

IsOpen(crypto, weekday, hour, summer) == crypto \/ FxOpen(weekday, hour, summer)

-----------------------------------------------------------------------------
(* Replay.  A node of a response is a list of nodes or a row; a row has the *)
(* timestamps found in it in the order of TIME_FIELDS (0 for one that       *)
(* cannot be read), whether it is a scheduled thing, whether it shows an    *)
(* outcome, and the nodes nested in it.                                     *)

List(items) == [list |-> TRUE, items |-> items, times |-> <<>>, scheduled |-> FALSE,
                outcome |-> FALSE, kids |-> <<>>]

\* _row_time: the first that can be read.
RowTime(row) ==
    LET i == SelectInSeq(row.times, LAMBDA t : t > 0) IN IF i = 0 THEN 0 ELSE row.times[i]

\* _blank_outcome.
Blanked(row) == [row EXCEPT !.outcome = FALSE]

Unborn(row, cutoff) == ~row.list /\ RowTime(row) > cutoff

Inside(node) == Range(IF node.list THEN node.items ELSE node.kids)

\* A node and all that is nested in it.
Within(node) ==
    LET level[d \in 0..Deep] ==
            IF d = 0 THEN {node}
            ELSE level[d - 1] \cup UNION {Inside(n) : n \in level[d - 1]}
    IN  level[Deep]

\* prune: of what a list holds, the rows that had not happened go, unless they
\* were on the calendar: then their outcome goes.  A row is only judged as an
\* item of a list.
Prune(node, cutoff) ==
    LET inside == Within(node)
        pruned[n \in inside \cup {Blanked(x) : x \in inside}] ==
            IF n.list
            THEN LET kept == SelectSeq(n.items, LAMBDA x : Unborn(x, cutoff) => x.scheduled)
                 IN  List([i \in DOMAIN kept |->
                             pruned[IF Unborn(kept[i], cutoff) THEN Blanked(kept[i]) ELSE kept[i]]])
            ELSE [n EXCEPT !.kids = [i \in DOMAIN n.kids |-> pruned[n.kids[i]]]]
    IN  pruned[node]

\* The middleware: every JSON answer to a request that pretends is pruned.
Answer(node, pretends, cutoff) == IF pretends THEN Prune(node, cutoff) ELSE node

-----------------------------------------------------------------------------
(* Properties. *)

Is(kind) == sum.kind = kind

\* What runs on a cron expression runs at the first minute it names strictly
\* after the last run, never twice in one minute and skipping none; a weekday
\* written 7 is Sunday; and days restricted both ways are alternatives, so a
\* restricted weekday counts - where the day of the month is written as a star:
\* a range over all days makes every day match (agent_schedule.py:82-160).
CronNextIsFirst == Is("cron") =>
    LET e == sum.expr
        next == NextCronAfter(e, sum.at)
        named == {t \in sum.at + 1 .. sum.at + Horizon : CronMatches(e, t)}
        sundays == [e EXCEPT !.weekday.parts = {[p EXCEPT !.a = 7, !.b = 7] : p \in @}]
    IN  /\ next = -1 <=> named = {}
        /\ next # -1 => next \in named /\ \A t \in named : next <= t
        /\ e.weekday.parts = {[a |-> 0, b |-> 0, step |-> 1]} => NextCronAfter(sundays, sum.at) = next
        /\ next # -1 /\ e.day.all => Weekday(next) \in FieldValues(e.weekday, TRUE)

\* The market as New York keeps it: open from Sunday 18:00 to Friday 17:00 there
\* but for the hour from 17:00 of every day (market_hours.py:1-14, 46-60).
FxWeekIsNewYorks == Is("week") =>
    LET utc == 24 * sum.weekday + sum.hour
        local == (utc - (IF sum.summer THEN 4 ELSE 5)) % 168
        sunday == 24 * 6 + 18
        friday == 24 * 4 + 17
    IN  FxOpen(sum.weekday, sum.hour, sum.summer)
            <=> (local >= sunday \/ local < friday) /\ local % 24 # 17

\* Every row held by a list anywhere in an answer.
Listed(node) == UNION {{x \in Inside(n) : ~x.list} : n \in {m \in Within(node) : m.list}}

Bare(row) == [row EXCEPT !.kids = <<>>, !.outcome = FALSE]

\* "hide the scheduled event and you pretend nobody knew a release was coming;
\* keep its actual and you leak the future into the past" (pretend_time.py:
\* 22-25): in a replayed answer no list holds a row that had not happened
\* unless it was scheduled, and then without its outcome; and what had happened
\* or was on the calendar is still there, wherever the rows that hold it are.
\* A row that no list holds is not looked at (pretend_time.py:177-181).
ReplayHidesTheFuture == Is("replay") =>
    LET after == Answer(sum.node, TRUE, sum.cutoff)
        known(row) == RowTime(row) <= sum.cutoff \/ row.scheduled
    IN  /\ \A row \in Listed(after) :
              RowTime(row) > sum.cutoff => row.scheduled /\ ~row.outcome
        /\ (\A row \in Listed(sum.node) : known(row)) =>
              {Bare(row) : row \in Listed(after)} = {Bare(row) : row \in Listed(sum.node)}
        /\ \A row \in Listed(after) : RowTime(row) <= sum.cutoff /\ row.outcome =>
              \E was \in Listed(sum.node) : Bare(was) = Bare(row) /\ was.outcome

ClocksAgree == CronNextIsFirst /\ FxWeekIsNewYorks /\ ReplayHidesTheFuture
=============================================================================
