------------------------------ MODULE WatchPicks ------------------------------
(***************************************************************************)
(* What a build of the watch list picks (watchlist.py): the funnel from    *)
(* the day's calendar to the final list, what an instrument's candles say, *)
(* its clock points and its levels.                                        *)
(*                                                                         *)
(* A sum is one question.  Times are ticks from the start of the run's     *)
(* day, prices whole numbers; an average is compared by its sum.           *)
(***************************************************************************)
EXTENDS Integers, FiniteSets, SequencesExt, FiniteSetsExt

CONSTANTS Sums,
          Legs,       \* instrument -> its currencies
          Indirect,   \* currency -> the instruments it moves besides
          Always,     \* instruments that trade at the weekend
          Plain,      \* instruments this broker spells in capitals
          Even, Extreme,  \* half of the crowd, and SENTIMENT_EXTREME
          Enough,     \* D1 bars below which there is no verdict
          Slow, Fast, \* bars of the two average true ranges
          Short, Long,    \* bars of the moving averages
          Least,      \* VOL_MIN_EXPANSION, a fraction
          Day,        \* ticks in a day
          After,      \* NEWS_AFTER_MIN and SESSION_AFTER_MIN, in ticks
          Grain       \* what a price is rounded to
VARIABLE sum

------------------------------------------------------------------------------
(* The funnel. *)

Universe == DOMAIN Legs
Abs(x) == IF x < 0 THEN -x ELSE x

Tradable(q) == IF q.fxOpen THEN Universe ELSE Always

\* An event touches what it names, its currency's instruments and what that moves besides.
Touches(ev, s) == s \in ev.named \/ ev.currency \in Legs[s] \/ s \in Indirect[ev.currency]

\* stage_calendar.
Hit(q) == {s \in Tradable(q) : \E ev \in q.events : Touches(ev, s)}

\* stage_sentiment, from the share that is long: no row, no verdict.
Missing == -1
Crowd(q, s) ==
    IF q.long[s] = Missing THEN "uncovered"
    ELSE IF Abs(q.long[s] - Even) >= Extreme THEN "lopsided" ELSE "balanced"

\* Mutant of Gated: an instrument without data counts as a dull crowd.
GatedIfLopsided(q, s) == Crowd(q, s) = "lopsided"

\* stage 3 gates only what the sentiment covers.
Gated(q, s) == Crowd(q, s) # "balanced"

\* stage_news_agent: of what the model names, what is on offer - spelt in capitals.
Named(q) == q.news \cap Tradable(q) \cap Plain

\* run_once, from the events of the day ahead to the final list.
Picked(q) ==
    LET stage1 == IF q.fxOpen THEN Hit(q) ELSE Tradable(q)
    IN  {s \in stage1 : s \in q.volatile /\ Gated(q, s)} \cup Named(q)

------------------------------------------------------------------------------
(* instrument_times. *)

\* "HH:MM" of an instant.
Clock(t) == t % Day

\* The instants the rules anchor on: events, news and session opens with their
\* delay, as far as they are still ahead.  The opens are those of the run's day.
Anchors(q) ==
    {t \in q.events \cup {a + After : a \in q.articles} \cup {o + After : o \in q.opens} : t >= q.now}

\* Mutant of Times: what is past is dropped only after the labels are made.
TimesLabelled(q) ==
    SetToSortSeq({Clock(t) : t \in q.events \cup {a + After : a \in q.articles} \cup {o + After : o \in q.opens}},
                 LAMBDA a, b : a < b)

Times(q) == SetToSortSeq({Clock(t) : t \in Anchors(q)}, LAMBDA a, b : a < b)

------------------------------------------------------------------------------
(* _levels. *)

Highs(bars) == [i \in DOMAIN bars |-> bars[i].h]
Lows(bars) == [i \in DOMAIN bars |-> bars[i].l]

\* _swings, with one bar to each side.
Fractals(xs, Beats(_, _)) ==
    {xs[i] : i \in {i \in 2..(Len(xs) - 1) : Beats(xs[i], xs[i - 1]) /\ Beats(xs[i], xs[i + 1])}}

\* Swings, the last finished day, the range, and the floor pivot with its two levels.
Candidates(bars) ==
    LET prev == bars[Len(bars) - 1]
        p == (prev.h + prev.l + prev.c) \div 3
    IN  Fractals(Highs(bars), >=) \cup Fractals(Lows(bars), <=)
        \cup {prev.h, prev.l, prev.c, Max(ToSet(Highs(bars))), Min(ToSet(Lows(bars)))}
        \cup {p, 2 * p - prev.l, 2 * p - prev.h}

Rounded(v) == ((2 * v + Grain) \div (2 * Grain)) * Grain

Above(vs, last) == {Rounded(v) : v \in {v \in vs : v > last}}
Below(vs, last) == {Rounded(v) : v \in {v \in vs : v < last}}

Nearest(vs, Closer(_, _)) == LET s == SetToSortSeq(vs, Closer) IN SubSeq(s, 1, IF Len(s) < 3 THEN Len(s) ELSE 3)

Levels(bars) ==
    LET last == bars[Len(bars)].c
    IN  [resistance |-> Nearest(Above(Candidates(bars), last), <),
         support |-> Nearest(Below(Candidates(bars), last), >)]

------------------------------------------------------------------------------
(* measure. *)

Latest(bars, n) == SubSeq(bars, Len(bars) - n + 1, Len(bars))

\* _sma and _atr, times n.
Closes(bars, n) == FoldSeq(LAMBDA bar, x : bar.c + x, 0, Latest(bars, n))
TrueRange(prev, bar) == Max({bar.h - bar.l, Abs(bar.h - prev.c), Abs(bar.l - prev.c)})
Ranges(bars, n) ==
    FoldSeq(LAMBDA i, x : TrueRange(bars[i - 1], bars[i]) + x, 0, [i \in 1..n |-> Len(bars) - n + i])

\* Mutant of Up: a close on its average is above it.
UpOrOn(bars) ==
    /\ bars[Len(bars)].c * Short >= Closes(bars, Short)
    /\ Len(bars) < Long \/ Closes(bars, Short) * Long > Closes(bars, Long) * Short

\* The close is above the short average, and that above the long one if there is one.
Up(bars) ==
    /\ bars[Len(bars)].c * Short > Closes(bars, Short)
    /\ Len(bars) < Long \/ Closes(bars, Short) * Long > Closes(bars, Long) * Short
Down(bars) ==
    /\ bars[Len(bars)].c * Short < Closes(bars, Short)
    /\ Len(bars) < Long \/ Closes(bars, Short) * Long < Closes(bars, Long) * Short

\* The week's range against the month's, as the list is gated on it.
Volatile(bars) == Ranges(bars, Fast) * Slow * Least.den >= Ranges(bars, Slow) * Fast * Least.num

Measure(bars) ==
    IF Len(bars) < Enough \/ Ranges(bars, Slow) = 0 THEN {}
    ELSE {[trend |-> IF Up(bars) THEN "up" ELSE IF Down(bars) THEN "down" ELSE "flat",
           volatile |-> Volatile(bars), levels |-> Levels(bars)]}

------------------------------------------------------------------------------
Init == sum \in Sums
Next == UNCHANGED sum
Spec == Init /\ [][Next]_sum

------------------------------------------------------------------------------
(* Properties. *)

\* "Missing data is not a boring crowd": a source that does not answer, the
\* crowd's or the news, takes nothing off the list that others put on it, and
\* only what trades in the list's day is on it (lines 508-585).
MissingIsNoVerdict == sum.kind = "funnel" =>
    /\ Picked(sum) \subseteq Tradable(sum)
    /\ Picked(sum) \subseteq Picked([sum EXCEPT !.long = [s \in Universe |-> Missing]])
    /\ Picked([sum EXCEPT !.news = {}]) \subseteq Picked(sum)
    /\ Picked(sum) \ sum.news \subseteq sum.volatile

\* A client that waits for a listed clock point to come round is there when
\* something it was listed for happens, and nothing still ahead goes unlisted -
\* but for an event a whole day away, whose label is that of now (lines 393-440).
TimesComeTrue == sum.kind = "times" =>
    \A times \in {Times(sum)} :
        /\ \A i \in DOMAIN times : \E t \in Anchors(sum) :
              t = sum.now + ((times[i] - Clock(sum.now) + Day) % Day) \/ t = sum.now + Day
        /\ \A t \in Anchors(sum) : \E i \in DOMAIN times : times[i] = Clock(t)

\* No resistance lies below a support, and the nearest levels are the ones shown
\* (lines 269-288).
LevelsAreApart == sum.kind = "levels" =>
    \A lv \in {Levels(sum.bars)}, last \in {sum.bars[Len(sum.bars)].c} :
        /\ \A i \in DOMAIN lv.resistance : \A j \in DOMAIN lv.support : lv.support[j] <= lv.resistance[i]
        /\ \A v \in Candidates(sum.bars) : v > last => lv.resistance[1] <= Rounded(v)
        /\ \A v \in Candidates(sum.bars) : v < last => lv.support[1] >= Rounded(v)

\* What the candles say of a rise they say of a fall of the same shape
\* (lines 223-253).
Mirrored(bars) ==
    LET top == Max(ToSet(Highs(bars))) + 1
    IN  [i \in DOMAIN bars |-> [h |-> top - bars[i].l, l |-> top - bars[i].h, c |-> top - bars[i].c]]
Opposite == [up |-> "down", down |-> "up", flat |-> "flat"]
MeasureMirrors == sum.kind = "measure" =>
    {<<m.trend, m.volatile>> : m \in Measure(sum.bars)}
        = {<<Opposite[m.trend], m.volatile>> : m \in Measure(Mirrored(sum.bars))}
==============================================================================
