------------------------------ MODULE ScanPicks ------------------------------
(***************************************************************************)
(* What the daily scan saves (daily_scan.py): how an instrument's candles  *)
(* make it interesting, and which of the picks the model returns are kept. *)
(*                                                                         *)
(* A sum is one question.  Prices are whole numbers above 0, and a level   *)
(* the model leaves out is Missing.  An average is compared by its sum,    *)
(* a score is a fraction.                                                  *)
(***************************************************************************)
EXTENDS Integers, FiniteSets, SequencesExt, FiniteSetsExt

CONSTANTS Sums,
          Enough,        \* D1 bars below which there is no verdict
          Slow, Fast,    \* bars of the two average true ranges
          Window, Week,  \* bars of the range, and of the move
          Short, Long,   \* bars of the moving averages
          Band,          \* how far from the price an entry is the market
          MaxPicks       \* MAX_PICKS
VARIABLE sum

Missing == -1
Abs(x) == IF x < 0 THEN -x ELSE x

------------------------------------------------------------------------------
(* _features. *)

Total(xs) == FoldSeq(LAMBDA x, y : x + y, 0, xs)
Latest(bars, n) == SubSeq(bars, Len(bars) - n + 1, Len(bars))
Closes(bars) == [i \in DOMAIN bars |-> bars[i].c]
High(bars) == Max({bars[i].h : i \in DOMAIN bars})
Low(bars) == Min({bars[i].l : i \in DOMAIN bars})

\* _atr, times n.
TrueRange(prev, cur) == Max({cur.h - cur.l, Abs(cur.h - prev.c), Abs(cur.l - prev.c)})
Ranges(bars, n) == Total([i \in 1..n |-> TrueRange(Latest(bars, n + 1)[i], Latest(bars, n + 1)[i + 1])])

Travel(bars) == bars[Len(bars)].c - bars[Len(bars) - Week].c

\* Mutant of Edge: a break upwards is the one to look for.
EdgeAbove(bars) == High(Latest(bars, Window)) - bars[Len(bars)].c

\* How far the close is from the nearer edge of the range.
Edge(bars) ==
    Min({High(Latest(bars, Window)) - bars[Len(bars)].c, bars[Len(bars)].c - Low(Latest(bars, Window))})

\* Volatility against its own baseline, travel and nearness of an edge in ATRs, each
\* within its limit.
Score(bars) ==
    LET slow == Ranges(bars, Slow)
    IN  IF slow = 0 THEN [num |-> 0, den |-> 1]
        ELSE [num |-> Min({2 * Ranges(bars, Fast) * Slow, 5 * slow * Fast})
                      + Fast * Min({Abs(Travel(bars)) * Slow, 4 * slow})
                      + Fast * Max({0, 2 * slow - Edge(bars) * Slow}),
              den |-> slow * Fast]

Trend(bars) ==
    LET last == bars[Len(bars)].c
        short == Total(Closes(Latest(bars, Short)))
        long == Total(Closes(Latest(bars, Long)))
    IN  IF Len(bars) < Long THEN "flat"
        ELSE IF last * Short > short THEN IF short * Long > long * Short THEN "up" ELSE "up-weak"
        ELSE IF last * Short < short THEN IF short * Long < long * Short THEN "down" ELSE "down-weak"
        ELSE "flat"

\* What the shortlist ranks on, or nothing.
Features(bars) ==
    IF Len(bars) < Enough THEN {} ELSE {[trend |-> Trend(bars), score |-> Score(bars)]}

------------------------------------------------------------------------------
(* _clean_picks and run_once. *)

\* _pending_type, once entry and price are there.
PendingType(dir, entry, price) ==
    IF Abs(entry - price) < Band THEN "MARKET"
    ELSE IF entry > price THEN IF dir = "BUY" THEN "BUY_STOP" ELSE "SELL_LIMIT"
    ELSE IF dir = "BUY" THEN "BUY_LIMIT" ELSE "SELL_STOP"

Pendings == {"BUY_STOP", "SELL_STOP", "BUY_LIMIT", "SELL_LIMIT"}

\* Mutant of Retyped: the model's word for it.
RetypedAsSaid(raw, price) == raw.type

\* An unknown type is MARKET; a pending one is derived from the levels.
Retyped(raw, price) ==
    IF raw.type \notin Pendings THEN "MARKET"
    ELSE IF raw.entry > 0 THEN PendingType(raw.dir, raw.entry, price)
    ELSE raw.type

\* At market is where the price is now.
Entered(raw, price) == IF raw.type \notin Pendings /\ raw.entry = Missing THEN price ELSE raw.entry

Cleaned(raw, price) ==
    [sym |-> raw.sym, dir |-> raw.dir, type |-> Retyped(raw, price), entry |-> Entered(raw, price),
     sl |-> raw.sl, tp |-> raw.tp, windows |-> raw.windows]

\* Mutant of Ordered: the side is forgotten.
OrderedAsBuy(p) == p.sl < p.entry /\ p.entry < p.tp

\* The stop and the target are on their sides of the entry.
Ordered(p) == IF p.dir = "BUY" THEN p.sl < p.entry /\ p.entry < p.tp ELSE p.tp < p.entry /\ p.entry < p.sl

Keeps(p) == p.entry > 0 /\ p.sl > 0 /\ p.tp > 0 /\ p.windows > 0 /\ Ordered(p)

\* The picks of a reply the app can stand behind, in the model's order.
CleanPicks(q, reply) ==
    LET looked == SubSeq(reply, 1, Min({MaxPicks, Len(reply)}))
        known == SelectSeq(looked, LAMBDA raw : raw.sym \in DOMAIN q.price /\ raw.dir \in {"BUY", "SELL"})
    IN  SelectSeq([i \in DOMAIN known |-> Cleaned(known[i], q.price[known[i].sym])], Keeps)

\* A reply without a usable pick is asked for once more.
Scanned(q) ==
    LET asked == IF ~q.user \/ DOMAIN q.price = {} \/ ~q.keyed THEN 0
                 ELSE IF CleanPicks(q, q.replies[1]) # <<>> THEN 1 ELSE 2
        picks == IF asked = 0 THEN <<>> ELSE CleanPicks(q, q.replies[asked])
    IN  [asked |-> asked, picks |-> picks, status |-> IF picks = <<>> THEN "error" ELSE "ok"]

------------------------------------------------------------------------------
(* Properties. *)

Mirror(bars) == LET top == High(bars) + Low(bars)
                IN  [i \in DOMAIN bars |-> [h |-> top - bars[i].l, l |-> top - bars[i].h, c |-> top - bars[i].c]]
Turned(trend) == CASE trend = "up" -> "down" [] trend = "down" -> "up" [] trend = "up-weak" -> "down-weak"
                   [] trend = "down-weak" -> "up-weak" [] trend = "flat" -> "flat"

\* What makes an instrument interesting does not know up from down
\* (daily_scan.py:102-120): the mirrored chart has the same score and the opposite
\* trend, and the score stays between 0 and 11.
ScoreMirrors ==
    sum.kind = "candles" =>
        \A f \in Features(sum.bars), g \in Features(Mirror(sum.bars)) :
            /\ g.score = f.score /\ g.trend = Turned(f.trend)
            /\ 0 <= f.score.num /\ f.score.num <= 11 * f.score.den

\* "Keep only picks the app can stand behind" (daily_scan.py:302-309): what is saved
\* loses at its stop and gains at its target, its order type triggers where the
\* levels say, and nothing the rules allow is dropped for another pick's fault.
Gain(p, level) == IF p.dir = "BUY" THEN level - p.entry ELSE p.entry - level
Allowed(q, raw) ==
    /\ raw.sym \in DOMAIN q.price /\ raw.dir \in {"BUY", "SELL"} /\ raw.windows > 0
    /\ LET p == Cleaned(raw, q.price[raw.sym])
       IN  p.entry > 0 /\ p.sl > 0 /\ p.tp > 0 /\ Gain(p, p.tp) > 0 /\ Gain(p, p.sl) < 0
PicksStand ==
    sum.kind = "scan" =>
        \A r \in {Scanned(sum)} :
            /\ \A i \in DOMAIN r.picks : \A p \in {r.picks[i]} : \A price \in {sum.price[p.sym]} :
                /\ Gain(p, p.tp) > 0 /\ Gain(p, p.sl) < 0
                /\ p.type \in {"BUY_STOP", "BUY_LIMIT"} => p.dir = "BUY"
                /\ p.type \in {"SELL_STOP", "SELL_LIMIT"} => p.dir = "SELL"
                /\ p.type \in {"BUY_STOP", "SELL_STOP"} => Gain(p, price) < 0
                /\ p.type \in {"BUY_LIMIT", "SELL_LIMIT"} => Gain(p, price) > 0
            /\ r.asked > 0 =>
                Len(r.picks) = Cardinality({i \in DOMAIN sum.replies[r.asked] :
                                              i <= MaxPicks /\ Allowed(sum, sum.replies[r.asked][i])})
            /\ r.asked = 2 => \A i \in 1..MaxPicks :
                i \in DOMAIN sum.replies[1] => ~Allowed(sum, sum.replies[1][i])
==============================================================================
