------------------------------ MODULE Footprint ------------------------------
(***************************************************************************)
(* Who controls a market, reconstructed from its candles                   *)
(* (artificial_sentiment.py): the swings, what each did to the structure   *)
(* before it, the energy it moved, and the positions still open.           *)
(*                                                                         *)
(* A sum is a chart: the opening close and the candles after it.  Prices   *)
(* are whole numbers up to Top; how hard a leg was won is an input.        *)
(***************************************************************************)
EXTENDS Integers, SequencesExt

CONSTANTS Sums, Top, Thresh     \* Thresh: the retracement that ends a leg
VARIABLE sum

Up == 1
Down == -1
Other(d) == -d

------------------------------------------------------------------------------
(* _swings: the zigzag. *)

Far(d, bar) == IF d = Up THEN bar.h ELSE bar.l
Pivot(i, p) == [at |-> i, price |-> p]
Travels(d, a, b) == d * (b - a) > Thresh

Leg(z, last) == [dir |-> z.dir, from |-> z.piv, to |-> z.ext, last |-> last]

\* Mutant of Turned: the leg after a turn starts where the turn was seen.
TurnedLate(z, i, bar) ==
    [dir |-> Other(z.dir), piv |-> Pivot(i, z.ext.price), ext |-> Pivot(i, Far(Other(z.dir), bar)),
     legs |-> Append(z.legs, Leg(z, FALSE))]

\* The price came back by the threshold: the extreme was a pivot.
Turned(z, i, bar) ==
    [dir |-> Other(z.dir), piv |-> z.ext, ext |-> Pivot(i, Far(Other(z.dir), bar)),
     legs |-> Append(z.legs, Leg(z, FALSE))]

Zag(z, i, bar) ==
    IF z.dir = 0
    THEN LET ways == {d \in {Up, Down} : Travels(d, z.piv.price, Far(d, bar))}
             d == IF Up \in ways THEN Up ELSE Down
         IN  IF ways = {} THEN z ELSE [z EXCEPT !.dir = d, !.ext = Pivot(i, Far(d, bar))]
    ELSE IF z.dir * (Far(z.dir, bar) - z.ext.price) > 0
    THEN [z EXCEPT !.ext = Pivot(i, Far(z.dir, bar))]
    ELSE IF Travels(Other(z.dir), z.ext.price, Far(Other(z.dir), bar)) THEN Turned(z, i, bar)
    ELSE z

\* The legs, the one in progress last.
Swings(start, bars) ==
    LET z == FoldLeft(LAMBDA acc, i : Zag(acc, i, bars[i]),
                      [dir |-> 0, piv |-> Pivot(0, start), ext |-> Pivot(0, start), legs |-> <<>>],
                      [i \in DOMAIN bars |-> i])
    IN  IF z.dir = 0 THEN <<>> ELSE Append(z.legs, Leg(z, TRUE))

------------------------------------------------------------------------------
(* _classify and _battle. *)

\* Mutant of Broken: the level is the highest low, not the lowest.
BrokenNearest(d, ends) == CHOOSE p \in ends : \A q \in ends : p <= q

\* The level the leg is measured against: the outermost of its side's last three.
Broken(d, ends) == CHOOSE p \in ends : \A q \in ends : d * (p - q) >= 0

\* Swept and came straight back, broke and held, was absorbed, or just ran.
Event(legs, n, absorbed) ==
    LET leg == legs[n]
        ends == {legs[k].to.price : k \in {k \in 1..(n - 1) : legs[k].dir = leg.dir /\ k >= n - 6}}
        ref == Broken(leg.dir, ends)
    IN  IF ends # {} /\ leg.dir * (leg.to.price - ref) > 0
        THEN IF n < Len(legs) /\ leg.dir * (ref - legs[n + 1].to.price) > 0 THEN "sweep" ELSE "break"
        ELSE IF absorbed THEN "absorption" ELSE "impulse"

\* A sweep and an absorption credit the side that was not flushed or met.
Credited(d, event) == IF event \in {"sweep", "absorption"} THEN Other(d) ELSE d

Energy == [impulse |-> 18, sweep |-> 22, break |-> 14, absorption |-> 10]

\* The bulls' share of the 100 after every leg: moved, never made, never below none.
Battle(legs, power, absorbed) ==
    FoldLeft(LAMBDA bull, n :
                LET event == Event(legs, n, absorbed)
                    amount == Energy[event] * power
                IN  IF Credited(legs[n].dir, event) = Up
                    THEN IF amount > 100 - bull THEN 100 ELSE bull + amount
                    ELSE IF amount > bull THEN 0 ELSE bull - amount,
             50, [n \in DOMAIN legs |-> n])

------------------------------------------------------------------------------
(* _positions: both sides of every candle, aged forward to now. *)

Larger(a, b) == IF a > b THEN a ELSE b
Smaller(a, b) == IF a < b THEN a ELSE b

\* A candle's new longs: its rise, and the selling its lower wick absorbed; the
\* shorts are the same of the candle upside down.
Opened(d, bar) ==
    Larger(d * (bar.c - bar.o), 0)
    + (IF d = Up THEN Smaller(bar.o, bar.c) - bar.l ELSE bar.h - Larger(bar.o, bar.c))

\* _excursion: how far the price went for (w = d) or against (w = -d) an entry.
Excursion(bars, born, entry, w) ==
    LET reached == {w * (Far(w, bars[k]) - entry) : k \in born..Len(bars)} \cup {0}
    IN  CHOOSE x \in reached : \A y \in reached : y <= x

\* _interp, of a curve of points <<x, y>> in percent, flat beyond its ends.
Interp(curve, x) ==
    IF x <= curve[1][1] THEN curve[1][2]
    ELSE IF x >= Last(curve)[1] THEN Last(curve)[2]
    ELSE LET k == CHOOSE k \in 2..Len(curve) : x <= curve[k][1] /\ x > curve[k - 1][1]
             a == curve[k - 1]
             b == curve[k]
         IN  a[2] - ((x - a[1]) * (a[2] - b[2])) \div (b[1] - a[1])

TP == <<<<0, 100>>, <<50, 92>>, <<75, 68>>, <<100, 20>>, <<160, 6>>>>
SL == <<<<0, 100>>, <<20, 95>>, <<50, 75>>, <<90, 45>>, <<100, 8>>, <<150, 2>>>>

\* _survival, of targets and stops in units of the stop's distance of 2.
Survival(mfe, mae) == Interp(TP, 50 * mfe) * Interp(SL, 50 * mae)

\* What is open on side d: units, and those under water at the last close.
Book(bars, d) ==
    LET Open(k) == Opened(d, bars[k])
                   * Survival(Excursion(bars, k, bars[k].c, d), Excursion(bars, k, bars[k].c, Other(d)))
        last == bars[Len(bars)].c
        Sum(P(_)) == FoldLeft(LAMBDA n, k : IF P(k) THEN n + Open(k) ELSE n, 0, [k \in DOMAIN bars |-> k])
    IN  [open |-> Sum(LAMBDA k : TRUE),
         trapped |-> Sum(LAMBDA k : d * (bars[k].c - last) > 0)]

------------------------------------------------------------------------------
Init == sum \in Sums
Next == UNCHANGED sum
Spec == Init /\ [][Next]_sum

------------------------------------------------------------------------------
(* Properties. *)

\* The chart upside down.
Turn(bar) == [bar EXCEPT !.h = Top - bar.l, !.l = Top - bar.h]
TurnBody(bar) == [Turn(bar) EXCEPT !.o = Top - bar.o, !.c = Top - bar.c]

\* Each leg starts where the last one ended, runs the other way by more than the
\* threshold and ends at the farthest price since its pivot (lines 135-184).
LegsAreSwings == sum.kind = "chart" =>
    \A legs \in {Swings(sum.start, sum.bars)} : \A n \in DOMAIN legs :
        LET leg == legs[n] IN
        /\ Travels(leg.dir, leg.from.price, leg.to.price)
        /\ n > 1 => leg.from = legs[n - 1].to /\ leg.dir = Other(legs[n - 1].dir)
        /\ \A k \in (leg.from.at + 1)..leg.to.at :
                leg.dir * (Far(leg.dir, sum.bars[k]) - leg.to.price) <= 0

\* No side is favoured: upside down, the chart's bulls are its bears ("the sign
\* is the easiest thing here to get backwards and the hardest to notice", lines
\* 486-488).  Only the first candle to leave the opening close, if it leaves it on
\* both sides, is read as a rise either way up.
NoSideIsFavoured == sum.kind = "chart" =>
    \A legs \in {Swings(sum.start, sum.bars)} :
    \A turned \in {Swings(Top - sum.start, [k \in DOMAIN sum.bars |-> Turn(sum.bars[k])])} :
        \/ legs # <<>> /\ turned[1].dir = legs[1].dir
        \/ Battle(legs, sum.power, sum.absorbed) = 100 - Battle(turned, sum.power, sum.absorbed)

\* The positions neither: the longs of a chart are the shorts of the other.
BooksMirror == sum.kind = "book" =>
    \A turned \in {[k \in DOMAIN sum.bars |-> TurnBody(sum.bars[k])]} :
        /\ Book(sum.bars, Up) = Book(turned, Down)
        /\ \A d \in {Up, Down} : Book(sum.bars, d).trapped <= Book(sum.bars, d).open
==============================================================================
