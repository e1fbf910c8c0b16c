----------------------------- MODULE TradeMath -----------------------------
(***************************************************************************)
(* The arithmetic of an order and of the trader's own rules                *)
(* (backend/broker_base.py, the risk part of trading_api.py, risk_gate.py).*)
(*                                                                         *)
(* Prices are whole points, volumes whole volume steps, money whole units, *)
(* and mpu is what one point is worth for one step.  `sum' is the          *)
(* calculation at hand; a request carries all it needs.                    *)
(***************************************************************************)
EXTENDS Integers, Sequences, FiniteSets, Functions

CONSTANT Sums     \* the calculations asked for

VARIABLE sum

Abs(x) == IF x < 0 THEN -x ELSE x
Given(x) == x # -1      \* a parameter left out is -1

\* What a question of each kind carries.
Opt == Nat \cup {-1}
Leg == [isBuy : BOOLEAN, entry : Nat, cur : Nat, mpu : Nat]
Minute == {m \in Nat : m < 1440}     \* a time of the day, which is all main._clean_hours lets be saved
Rules == [risk : Int, hours : SUBSET (Minute \X Minute), style : STRING]
WellPut(s) ==
    \/ s \in [kind : {"level"}, value : Nat, isSl : BOOLEAN, isBuy : BOOLEAN, entry : Nat]
    \/ s \in [kind : {"plan"}, isBuy : BOOLEAN, entry : Nat, mpu : Nat \ {0}, basis : Int,
             lim : [min : Nat, max : Nat], riskMoney : Opt, riskPct : Opt, sl : Opt, slPoints : Opt, volume : Opt]
    \/ s \in [kind : {"move"}, isBuy : BOOLEAN, entry : Nat, cur : Nat, percent : Nat, offset : Nat]
    \/ s \in [kind : {"rules"}, base : Rules, over : Rules]
    \/ s \in [kind : {"hours"}, hours : SUBSET (Minute \X Minute), half : Nat]
    \/ s \in [kind : {"calc"}, target : Nat, levels : SUBSET Nat, legs : Seq(Leg)]
    \/ /\ s.kind = "fx" /\ {s.from, s.to, "USD"} \subseteq DOMAIN s.worth
       /\ s.worth \in [DOMAIN s.worth -> Nat \ {0}] /\ DOMAIN s.price \subseteq (DOMAIN s.worth) \X (DOMAIN s.worth)
       /\ s.price = [q \in DOMAIN s.price |-> <<s.worth[q[1]], s.worth[q[2]]>>]
    \/ s.kind = "gate"

-----------------------------------------------------------------------------
(* Volume and levels. *)

\* Python's round(n / d): to the nearest, a tie to the even one.
Rounded(n, d) == LET q == n \div d  r == n % d IN
    IF 2 * r > d \/ (2 * r = d /\ q % 2 = 1) THEN q + 1 ELSE q

\* _normalize_volume, of n / d steps.
NormalizeVolume(n, d, lim) == LET v == Rounded(n, d) IN
    IF v < lim.min THEN lim.min ELSE IF lim.max # 0 /\ v > lim.max THEN lim.max ELSE v

\* Within three tenths of the entry a number may be a price.
InBand(v, entry) == 7 * entry <= 10 * v /\ 10 * v <= 13 * entry

\* Below the entry is where a buy's stop and a sell's target are.
Below(isSl, isBuy) == isSl = isBuy

\* Mutant of ResolveLevel: in the band it is a price, whichever side it is on.
ResolveAnyPrice(v, isSl, isBuy, entry) ==
    IF v = 0 THEN 0 ELSE IF InBand(v, entry) THEN v
    ELSE IF Below(isSl, isBuy) THEN entry - v ELSE entry + v

\* _resolve_level: a price on its own side stays, anything else is a distance.
ResolveLevel(v, isSl, isBuy, entry) ==
    IF v = 0 THEN 0
    ELSE IF (IF Below(isSl, isBuy) THEN v < entry ELSE v > entry) /\ InBand(v, entry) THEN v
    ELSE IF Below(isSl, isBuy) THEN entry - v ELSE entry + v

-----------------------------------------------------------------------------
(* risk_plan: of risk, stop and volume, two give the third. *)

\* What is asked and what the stop's distance is.
Asked(s) == IF Given(s.riskMoney) THEN s.riskMoney
            ELSE IF Given(s.riskPct) THEN (s.basis * s.riskPct) \div 100 ELSE -1
Distance(s) == IF Given(s.sl) THEN Abs(s.entry - s.sl) ELSE s.slPoints

RiskPlan(s) ==
    LET hasVol == Given(s.volume)
        hasStop == Given(s.sl) \/ Given(s.slPoints)
        hasRisk == Asked(s) # -1
        dist == Distance(s)
        vol == IF hasVol THEN NormalizeVolume(s.volume, 1, s.lim)
               ELSE IF dist = 0 THEN NormalizeVolume(0, 1, s.lim)
               ELSE NormalizeVolume(Asked(s), dist * s.mpu, s.lim)
    IN  IF ~Given(s.riskMoney) /\ Given(s.riskPct) /\ s.basis <= 0 THEN [solved |-> "refused"]
        ELSE IF hasVol /\ hasStop
             THEN [solved |-> "validate", vol |-> vol, risk |-> dist * s.mpu * vol, dist |-> dist]
        ELSE IF hasVol /\ hasRisk
             THEN [solved |-> "stop", vol |-> vol, risk |-> Asked(s),
                   dist |-> IF vol = 0 THEN 0 ELSE Asked(s) \div (s.mpu * vol)]
        ELSE IF hasRisk /\ hasStop
             THEN [solved |-> "size", vol |-> vol, risk |-> dist * s.mpu * vol, dist |-> dist]
        ELSE [solved |-> "refused"]

\* The prices: the stop as given, else at its distance; the target at a
\* multiple of the distance when a reward:risk is asked for.
PlanStop(s) == IF Given(s.sl) THEN s.sl
               ELSE IF s.isBuy THEN s.entry - RiskPlan(s).dist ELSE s.entry + RiskPlan(s).dist
PlanTarget(s, rr) == IF s.isBuy THEN s.entry + rr * RiskPlan(s).dist ELSE s.entry - rr * RiskPlan(s).dist

\* _effective_risk: the user's own risk, else two per cent.
EffectiveRisk(pct, money, own) ==
    IF Given(pct) \/ Given(money) THEN pct ELSE IF Given(own) THEN own ELSE 2

\* calc_risk: a stop without a volume is sized by the user's risk when none is stated.
CalcRisk(s, own) ==
    RiskPlan([s EXCEPT !.riskPct =
        IF Given(s.volume) \/ ~(Given(s.sl) \/ Given(s.slPoints)) THEN @
        ELSE EffectiveRisk(@, s.riskMoney, own)])

-----------------------------------------------------------------------------
(* Stops moved on an open position, on a quote read once for the pass. *)

InProfit(s) == IF s.isBuy THEN s.cur > s.entry ELSE s.cur < s.entry
Ahead(s, n) == IF s.isBuy THEN s.entry + n ELSE s.entry - n

\* break_even.
BreakEven(s) == IF InProfit(s) THEN Ahead(s, s.offset) ELSE -1

\* lock_profit: above 1 a percentage, at most 1 the share itself.
LockProfit(s) ==
    LET d == Abs(s.cur - s.entry)
    IN  IF ~InProfit(s) THEN -1
        ELSE Ahead(s, IF s.percent > 1 THEN (d * s.percent) \div 100 ELSE d * s.percent)

-----------------------------------------------------------------------------
(* The calculators.  A level is kept times what one point is worth, so that  *)
(* money divided over points stays whole; rounding to digits is left out.    *)

Signed(isBuy, n) == IF isBuy THEN n ELSE -n

\* sltp_calc: exactly one of level, points and money gives the other two.
SltpCalc(s, q, mode) ==
    LET dist == IF Given(q.points) THEN q.points * s.mpu ELSE q.money
        won == IF Given(q.level) THEN Signed(s.isBuy, q.level - s.entry) * s.mpu
               ELSE IF mode = "sl" THEN -dist ELSE dist
    IN  IF Cardinality({f \in {"level", "points", "money"} : Given(q[f])}) # 1 THEN [mode |-> "refused"]
        ELSE [mode |-> IF ~Given(q.level) THEN mode ELSE IF won >= 0 THEN "tp" ELSE "sl",
              level |-> s.entry * s.mpu + Signed(s.isBuy, won), money |-> won]

\* profit_target.
ProfitTarget(s, target, mode) == s.entry * s.mpu + (IF s.isBuy = (mode = "sl") THEN -target ELSE target)

Weight(legs) == FoldFunction(LAMBDA leg, n : leg.mpu + n, 0, legs)

\* Mutant of Share: by weight over the count.
ShareOfCount(legs, i, total, split) ==
    [num |-> IF split = "equal" THEN total ELSE total * legs[i].mpu, den |-> Len(legs)]

\* What one leg of a basket brings of a total: the same money, or the same distance.
Share(legs, i, total, split) ==
    IF split = "equal" THEN [num |-> total, den |-> Len(legs)]
    ELSE [num |-> total * legs[i].mpu, den |-> Weight(legs)]

\* basket_target, a level times its share's denominator too.
BasketTarget(legs, target, mode, split) ==
    [i \in DOMAIN legs |-> LET sh == Share(legs, i, target, split)
                           IN  ProfitTarget([legs[i] EXCEPT !.entry = @ * sh.den], sh.num, mode)]

\* Mutant of BracketLevel: the sign is the level's, not the money's.
BracketLevelOfBuys(leg, sh) == leg.entry * leg.mpu * sh.den + sh.num

\* basket_bracket: signed money, a profit above 0 whichever level it is for.
BracketLevel(leg, sh) == leg.entry * leg.mpu * sh.den + Signed(leg.isBuy, sh.num)

Bracket(legs, sl, tp, split) ==
    [i \in DOMAIN legs |->
        LET leg == legs[i]  s == Share(legs, i, sl, split)  t == Share(legs, i, tp, split)
            at == leg.cur * leg.mpu * s.den
        IN  [sl |-> BracketLevel(leg, s), tp |-> BracketLevel(leg, t),
             slValid |-> IF leg.isBuy THEN BracketLevel(leg, s) < at ELSE BracketLevel(leg, s) > at,
             tpValid |-> IF leg.isBuy THEN BracketLevel(leg, t) > at ELSE BracketLevel(leg, t) < at]]

\* _pair_price, of the pairs whose price can be read.
PairPrice(s, base, other) == IF <<base, other>> \in DOMAIN s.price THEN s.price[<<base, other>>] ELSE <<0, 1>>

Hop(s, from, to) ==
    IF from = to THEN <<1, 1>>
    ELSE IF PairPrice(s, from, to)[1] # 0 THEN PairPrice(s, from, to)
    ELSE <<PairPrice(s, to, from)[2], PairPrice(s, to, from)[1]>>

\* fx_rate: the pair, the pair the other way, or both by way of the dollar; a rate
\* with a 0 below is none.
FxRate(s, from, to) ==
    IF Hop(s, from, to)[2] # 0 \/ "USD" \in {from, to} THEN Hop(s, from, to)
    ELSE <<Hop(s, from, "USD")[1] * Hop(s, "USD", to)[1], Hop(s, from, "USD")[2] * Hop(s, "USD", to)[2]>>

\* point_value: without a rate money counts one to one, and says so.
MoneyRate(s) == LET r == FxRate(s, s.from, s.to)
                IN  IF r[2] = 0 THEN [rate |-> <<1, 1>>, exact |-> FALSE] ELSE [rate |-> r, exact |-> TRUE]

-----------------------------------------------------------------------------
(* The trader's own rules, which two parts of the code each resolve. *)

NoRow == [risk |-> -1, hours |-> {}, style |-> "null"]

\* risk_gate.settings_for: the override where it says something, the profile elsewhere.
GateSettings(base, over) ==
    [risk |-> IF over.risk # -1 THEN over.risk ELSE base.risk,
     hours |-> IF over.hours # {} THEN over.hours ELSE base.hours,
     style |-> IF over.style \notin {"null", ""} THEN over.style ELSE base.style]

\* trading_api._risk_settings: merged, field by field; an empty style counts as said.
ApiSettings(base, over) ==
    [risk |-> IF over.risk # -1 THEN over.risk ELSE base.risk,
     hours |-> IF over.hours # {} THEN over.hours ELSE base.hours,
     style |-> IF over.style # "null" THEN over.style ELSE base.style]

\* _in_hours, in half minutes: both ends are inside; a window may wrap midnight.
InHours(hours, half) ==
    hours = {} \/ \E w \in hours :
        LET s == 2 * w[1]  e == 2 * w[2] IN
        IF s <= e THEN s <= half /\ half <= e ELSE half >= s \/ half <= e

\* Mutant of HoursOpen: a window that wraps is never open.
HoursOpenUnwrapped(hours, half) ==
    hours = {} \/ \E w \in hours : w[1] <= half \div 2 /\ half \div 2 < w[2]

\* _trading_hours_status, on whole minutes, the end outside.
HoursOpen(hours, half) ==
    hours = {} \/ \E w \in hours :
        LET s == w[1]  e == w[2]  m == half \div 2 IN
        IF s <= e THEN s <= m /\ m < e ELSE m >= s \/ m < e

\* What _realised makes of the day's closed trades: it calls closed_trades with
\* a parameter that has no such name, and the exception counts as nothing lost.
Realised(lost) == 0

\* check: past a loss limit, or above 1.15 times the size the engine comes to,
\* if it comes to one.  The hours only warn.
Blocks(s) ==
    \/ s.basis > 0 /\ s.limit > 0 /\ Realised(s.lost) > 0
       /\ 100 * Realised(s.lost) >= s.limit * s.basis
    \/ s.want > 0 /\ 100 * s.volume > 115 * s.want

\* trade_execute: the check, unless the trader saw the warning and goes on.
Goes(s) == s.override \/ ~Blocks(s)

\* risk_status's leg: realised and floating together, against the balance.
Breached(s) ==
    LET dd == s.lost + s.floatingLoss
    IN  s.limit > 0 /\ s.basis > 0 /\ dd > 0 /\ 100 * dd >= s.limit * s.basis

-----------------------------------------------------------------------------
(* Properties. *)

Is(kind) == sum.kind = kind
Within(s, p) == s.lim.min < p.vol /\ (s.lim.max = 0 \/ p.vol < s.lim.max)

\* A level is on its own side of the entry whatever positive number asks for
\* it, a price or a distance: a stop never sits where it would close in profit,
\* nor a target in loss (broker_base.py:455-475).
LevelsOnTheirSide == Is("level") /\ sum.value > 0 =>
    LET r == ResolveLevel(sum.value, sum.isSl, sum.isBuy, sum.entry)
    IN  IF Below(sum.isSl, sum.isBuy) THEN r < sum.entry ELSE r > sum.entry

\* "Give any TWO of {risk, stop, volume} and it solves the third"
\* (broker_base.py:315-320): unless the symbol's least or greatest volume cuts
\* in, the risk of the size it gives is the one asked for to within half a
\* volume step, and asking again with that size and that risk gives back the
\* stop; a stop given as points is across the entry from its target.  The API's own
\* risk setting changes no answer that needs none, and leaves no stop unsized.
PlansAgree == Is("plan") =>
    LET p == RiskPlan(sum) IN
    /\ p.solved = "size" /\ Within(sum, p) =>
         LET again == [sum EXCEPT !.volume = p.vol, !.riskMoney = p.risk, !.sl = -1, !.slPoints = -1]
         IN  /\ 2 * Abs(p.risk - Asked(sum)) <= p.dist * sum.mpu
             /\ RiskPlan(again).dist = p.dist
    /\ p.solved # "refused" /\ ~Given(sum.sl) =>
         (PlanStop(sum) - sum.entry) * (PlanTarget(sum, 2) - sum.entry) <= 0
    /\ p.solved # "refused" => CalcRisk(sum, 7) = p
    /\ (Given(sum.sl) \/ Given(sum.slPoints)) /\ sum.basis > 0 => CalcRisk(sum, -1).solved # "refused"

\* A stop that break_even or lock_profit moves lies between the entry and the
\* quote, and a larger percentage, to a hundred, locks no less - of percentages above
\* 1, for 1 is the whole profit (broker_base.py:780-810, 932-960).
MovedStopsLock == Is("move") =>
    LET n == LockProfit(sum)  m == LockProfit([sum EXCEPT !.percent = @ + 1])
        toward(a, b) == IF sum.isBuy THEN a <= b ELSE a >= b
    IN  InProfit(sum) =>
          /\ toward(sum.entry, n) /\ (sum.percent <= 100 => toward(n, sum.cur))
          /\ sum.percent \in 2..99 => toward(n, m)
          /\ sum.offset <= Abs(sum.cur - sum.entry) =>
                toward(sum.entry, BreakEven(sum)) /\ toward(BreakEven(sum), sum.cur)

\* The calculators are four pieces of code for one question (broker_base.py:165-307):
\* a level's money gives the level back, a target is what sltp_calc makes of the same
\* money, a bracket is the targets of its two totals.  The legs of a basket add up to
\* its total, by weight at one distance; a bracket's level is legal exactly when the
\* position is on the right side of it, a stop that locks a profit included.
CalculatorsAgree == Is("calc") =>
    LET one == [level |-> -1, points |-> -1, money |-> -1]
        legs == sum.legs
        worth(i) == Signed(legs[i].isBuy, legs[i].cur - legs[i].entry) * legs[i].mpu
        total(split) == FoldFunction(+, 0, [i \in DOMAIN legs |-> Share(legs, i, sum.target, split).num])
    IN
    /\ \A i \in DOMAIN legs, l \in sum.levels : \A r \in {SltpCalc(legs[i], [one EXCEPT !.level = l], "tp")} :
        /\ SltpCalc(legs[i], [one EXCEPT !.money = Abs(r.money)], r.mode) = r
        /\ SltpCalc(legs[i], [one EXCEPT !.points = Abs(l - legs[i].entry)], r.mode) = r
        /\ ProfitTarget(legs[i], Abs(r.money), r.mode) = l * legs[i].mpu
    /\ \A split \in {"equal", "weighted"} :
        \A b \in {Bracket(legs, -sum.target, sum.target, split)}, lock \in {Bracket(legs, sum.target, 0, split)} :
            /\ total(split) = sum.target * Share(legs, 1, sum.target, split).den
            /\ \A i \in DOMAIN legs :
                LET sh == Share(legs, i, sum.target, split) IN
                /\ split = "weighted" => sh.num * legs[1].mpu = Share(legs, 1, sum.target, split).num * legs[i].mpu
                /\ b[i].sl = BasketTarget(legs, sum.target, "sl", split)[i]
                /\ b[i].tp = BasketTarget(legs, sum.target, "tp", split)[i]
                /\ lock[i].slValid = (worth(i) * sh.den > sh.num) /\ b[i].tpValid = (worth(i) * sh.den < sh.num)

\* Money is converted at the rate the currencies have, by whichever pairs the broker
\* quotes, and what could not be converted is not called exact (broker_base.py:91-163).
MoneyIsConverted == Is("fx") =>
    LET m == MoneyRate(sum)
        pairs == DOMAIN sum.price
        joined(a, b) == a = b \/ <<a, b>> \in pairs \/ <<b, a>> \in pairs
    IN  /\ m.exact = (joined(sum.from, sum.to) \/ (joined(sum.from, "USD") /\ joined("USD", sum.to)))
        /\ m.exact => m.rate[1] * sum.worth[sum.to] = m.rate[2] * sum.worth[sum.from]

SizesAreSafe == LevelsOnTheirSide /\ PlansAgree /\ MovedStopsLock /\ CalculatorsAgree /\ MoneyIsConverted

\* The gate and the API read the same rows and mean the same by them
\* (risk_gate.py:28-44 and 76-101, trading_api.py:320-395), for every override
\* and every window that can be saved (main.py:2005-2019: both ends before 24:00,
\* which the gate could not read), one past midnight included.  They differ on an override's
\* empty style, and at the very end of a window, which only the gate counts in.
RulesAgree ==
    /\ Is("rules") => \/ GateSettings(sum.base, sum.over) = ApiSettings(sum.base, sum.over)
                      \/ sum.over.style = ""
    /\ Is("hours") => \/ InHours(sum.hours, sum.half) = HoursOpen(sum.hours, sum.half)
                      \/ \E w \in sum.hours : sum.half = 2 * w[2]

\* "This trade would be taken past a line you set yourself" (risk_gate.py:140):
\* once the day has lost the share of the account that its limit allows, a
\* trade is not placed unless the trader overrode the check.
LossLimitBlocks ==
    Is("gate") /\ sum.limit > 0 /\ sum.basis > 0 /\ 100 * sum.lost >= sum.limit * sum.basis
        => sum.override \/ ~Goes(sum)
=============================================================================
