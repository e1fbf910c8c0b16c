----------------------------- MODULE SignalMath -----------------------------
(***************************************************************************)
(* The signal a finished analysis is distilled into                        *)
(* (analysis_agent.extract_signal and its helpers): from the trace of the  *)
(* run, what a model read out of the text, and the market.                 *)
(*                                                                         *)
(* Prices are whole numbers, None stands for a value nobody gave.  `sum'   *)
(* is the distillation at hand: [trace, out, conf, live, later], with the   *)
(* market's price as the two calls of _live_price find it.                 *)
(***************************************************************************)
EXTENDS Integers, Sequences

CONSTANT Sums     \* the distillations asked for

VARIABLE sum

None == -1
Given(x) == x # None
Or(x, y) == IF Given(x) THEN x ELSE y
Apart(a, b) == IF a > b THEN a - b ELSE b - a

\* What a distillation is made from: a price is positive or not given, and a plan
\* the engine made has an entry.
Priced == Nat \ {0}
Opt == Priced \cup {None}
Sides == {"BUY", "SELL", "NONE"}
PendingTypes == {"BUY_STOP", "SELL_STOP", "BUY_LIMIT", "SELL_LIMIT"}
Steps == [kind : {"risk"}, good : BOOLEAN, plan : [dir : Sides, entry : Priced, sl : Opt, tp : Opt]]
         \cup [kind : {"market"}, good : BOOLEAN, price : Priced]
WellPut(s) ==
    s \in [kind : {"signal"}, trace : Seq(Steps), conf : Nat \cup {None}, live : Opt, later : Opt,
           out : [dir : Sides, entryType : {"MARKET", "PENDING", "NONE"}, entry : Opt, sl : Opt, tp : Opt,
                  hint : {"NONE", "MARKET"} \cup PendingTypes, quality : Nat \cup {None}]]

-----------------------------------------------------------------------------
(* What the run gathered. *)

NoPlan == [dir |-> "NONE", entry |-> None, sl |-> None, tp |-> None]

LastGood(kind, trace) ==
    LET good == {i \in DOMAIN trace : trace[i].kind = kind /\ trace[i].good}
    IN  IF good = {} THEN 0 ELSE CHOOSE i \in good : \A j \in good : j <= i

\* _plan_from_trace: the last risk node that did not fail.
PlanFromTrace(trace) ==
    LET i == LastGood("risk", trace) IN IF i = 0 THEN NoPlan ELSE trace[i].plan

\* _market_price: the last market node that shows a price of now; a list of
\* candles that was cut short is no such node.
MarketPrice(trace) ==
    LET i == LastGood("market", trace) IN IF i = 0 THEN None ELSE trace[i].price

-----------------------------------------------------------------------------
(* What kind of order an entry is. *)

\* Within 0.05% of the price the trigger is the market.
AtMarket(entry, price) == 2000 * Apart(entry, price) < price

\* _pending_type.
PendingType(dir, entry, price) ==
    IF ~(Given(entry) /\ Given(price)) THEN "unknown"
    ELSE IF AtMarket(entry, price) THEN "MARKET"
    ELSE IF dir = "BUY" THEN IF entry > price THEN "BUY_STOP" ELSE "BUY_LIMIT"
    ELSE IF entry > price THEN "SELL_LIMIT" ELSE "SELL_STOP"

\* _same_trade: within 0.2% of each other.
SameTrade(a, b) == Given(a) /\ Given(b) /\ 500 * Apart(a, b) <= b

\* _implausible, in three parts.  Off: a level out of its band around the price.
Off(level, price, pct) == Given(level) /\ 100 * Apart(level, price) > pct * price

WrongScale(sig, price) ==
    Off(sig.entry, price, 10) \/ Off(sig.sl, price, 30) \/ Off(sig.tp, price, 50)

WrongSide(sig, at) ==
    \/ Given(sig.sl) /\ IF sig.dir = "BUY" THEN sig.sl >= at ELSE sig.sl <= at
    \/ Given(sig.tp) /\ IF sig.dir = "BUY" THEN sig.tp <= at ELSE sig.tp >= at

TooTight(sig, at) == Given(sig.sl) /\ 5000 * Apart(at, sig.sl) < at

Implausible(sig, price) ==
    /\ Given(price)
    /\ LET at == Or(sig.entry, price)
       IN  WrongScale(sig, price) \/ WrongSide(sig, at) \/ TooTight(sig, at)

-----------------------------------------------------------------------------
(* extract_signal. *)

SaidNone(out) == out.dir = "NONE" \/ out.entryType = "NONE"
Pending(s) == s.out.entryType = "PENDING"

\* The text decides whether to trade, the engine's plan which way.
Direction(s) == LET plan == PlanFromTrace(s.trace) IN
    IF SaidNone(s.out) THEN "NONE" ELSE IF plan.dir # "NONE" THEN plan.dir ELSE s.out.dir

\* A pending trade enters at its trigger, another at the plan's entry.
Entry(s) == LET plan == PlanFromTrace(s.trace) IN
    IF Pending(s) THEN Or(s.out.entry, plan.entry) ELSE Or(plan.entry, s.out.entry)

\* Where the flow read no price the plan's entry stands for one, and a pending
\* trade asks the market.
Price(s) ==
    LET seen == Or(MarketPrice(s.trace), PlanFromTrace(s.trace).entry)
    IN  IF Pending(s) /\ Direction(s) # "NONE" THEN Or(seen, s.live) ELSE seen

\* The geometry decides; without it the model's own word, if it names a resting order.
OrderType(s) ==
    LET type == PendingType(Direction(s), Entry(s), Price(s))
    IN  IF Direction(s) = "NONE" THEN "NONE"
        ELSE IF ~Pending(s) THEN "MARKET"
        ELSE IF type # "unknown" THEN type
        ELSE IF s.out.hint \in PendingTypes THEN s.out.hint
        ELSE IF Given(Entry(s)) THEN "PENDING" ELSE "MARKET"

\* Mutant of Coherent: the plan's levels are kept whatever is traded.
CoherentAlways(s) == TRUE

\* The plan's stop and target belong to the plan's entry.
Coherent(s) == Pending(s) => SameTrade(PlanFromTrace(s.trace).entry, Entry(s))

\* What comes out before the last gate.
Drafted(s) ==
    LET plan == PlanFromTrace(s.trace)
        own(level) == IF Coherent(s) THEN level ELSE None
    IN  [dir |-> Direction(s), type |-> OrderType(s), price |-> Price(s),
         entry |-> IF OrderType(s) = "MARKET" THEN Or(plan.entry, Entry(s)) ELSE Entry(s),
         sl |-> Or(own(plan.sl), s.out.sl), tp |-> Or(own(plan.tp), s.out.tp),
         quality |-> Or(s.conf, s.out.quality)]

\* A trade that does not fit the market, asked for a second time where the first time
\* gave no price, is voided, and what is no trade has no
\* levels; its quality stays what the text said, unless it was voided.
Signal(s) ==
    LET sig == Drafted(s)
        void == sig.dir # "NONE" /\ Implausible(sig, Or(sig.price, s.later))
    IN  IF ~void /\ sig.dir # "NONE" THEN sig
        ELSE [sig EXCEPT !.dir = "NONE", !.type = "NONE", !.entry = None, !.sl = None, !.tp = None,
                         !.quality = IF void THEN 0 ELSE Or(@, 0)]

-----------------------------------------------------------------------------
(* Properties. *)

\* "There are exactly THREE answers a caller can act on" (analysis_agent.py:
\* 1441-1447): no trade, with no levels; a trade now; an order resting on the
\* side of the market its name says, for the direction it is in.  A word of the
\* model that names a resting order is taken as it is, for a direction it does
\* not fit and without an entry to rest at, where the price or the entry is not
\* known; where there is no such word either, an order rests with an entry.
OneOfThree(s, sig) ==
    /\ (sig.dir = "NONE") = (sig.type = "NONE")
    /\ sig.type \in {"NONE", "MARKET", "PENDING"} \cup PendingTypes
    /\ sig.type = "PENDING" => Given(sig.entry)
    /\ sig.type = "NONE" => {sig.entry, sig.sl, sig.tp} = {None}
    /\ Given(sig.price) /\ Given(sig.entry) =>
          /\ sig.type \in {"BUY_STOP", "SELL_LIMIT"} => sig.entry > sig.price
          /\ sig.type \in {"SELL_STOP", "BUY_LIMIT"} => sig.entry < sig.price
          /\ sig.type \in {"BUY_STOP", "BUY_LIMIT"} => sig.dir = "BUY"
          /\ sig.type \in {"SELL_STOP", "SELL_LIMIT"} => sig.dir = "SELL"

\* A trade somebody could place against a known market loses no more than it
\* says: its stop lies on the losing side of its entry, its target on the other,
\* and both belong to that entry - a level of the engine's plan goes with an
\* entry within 0.2% of the plan's, or the text gives the same level.
LevelsFit(s, sig) ==
    LET plan == PlanFromTrace(s.trace)
        ahead(a, b) == IF sig.dir = "BUY" THEN a < b ELSE a > b
    IN  sig.dir # "NONE" /\ Given(Or(sig.price, s.later)) =>
          LET at == Or(sig.entry, Or(sig.price, s.later)) IN
          /\ Given(sig.sl) => ahead(sig.sl, at)
          /\ Given(sig.tp) => ahead(at, sig.tp)
          /\ Given(sig.sl) /\ sig.sl # s.out.sl => 500 * Apart(plan.entry, sig.entry) <= sig.entry

\* Both, for every run's trace, reading of its text and state of the market
\* (analysis_agent.py:1555-1607 and 1634-1752).
SignalsFit == sum.kind = "signal" =>
    \A sig \in {Signal(sum)} : OneOfThree(sum, sig) /\ LevelsFit(sum, sig)
=============================================================================
