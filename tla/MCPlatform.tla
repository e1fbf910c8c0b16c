----------------------------- MODULE MCPlatform -----------------------------
(***************************************************************************)
(* The parts of Platform for small constants: a behaviour is one of Parts, *)
(* one of ModuleParts, or asks one of more sums, questions the pure parts  *)
(* are asked and which no step changes: these parts are instances of their *)
(* modules for the constants given here only.                              *)
(***************************************************************************)
EXTENDS Parts, ModuleParts, SequencesExt

Symmetry == Permutations(Actors) \cup Permutations(Things)

------------------------------------------------------------------------------
(* The sums: questions the pure parts are asked, the conversions behind a   *)
(* trade's size, a signal and a clock.                                      *)

Opt(S) == S \cup {-1}

Worth == "USD" :> 6 @@ "EUR" :> 12 @@ "JPY" :> 2
SmallTrades ==
    [kind : {"level"}, value : 0..30, isSl : BOOLEAN, isBuy : BOOLEAN, entry : {9, 10, 20}]
    \cup [kind : {"plan"}, isBuy : BOOLEAN, entry : {50}, mpu : {1, 3}, basis : {0, 500},
          lim : {[min |-> 1, max |-> 0], [min |-> 2, max |-> 6]},
          riskMoney : Opt({7, 10}), riskPct : Opt({2}), sl : Opt({47, 53}), slPoints : Opt({0, 2, 5}),
          volume : Opt({0, 3, 9})]
    \cup [kind : {"move"}, isBuy : BOOLEAN, entry : {50}, cur : {45, 50, 51, 60},
          percent : {1, 2, 50, 99, 100}, offset : 0..3]
    \cup LET rows == [risk : {-1, 0, 1}, hours : {{}, {<<1, 3>>}}, style : {"null", "", "swing"}]
         IN  [kind : {"rules"}, base : rows, over : rows]
    \cup [kind : {"hours"}, hours : {{}} \cup {{<<a, b>>, <<c, d>>} : a, b, c, d \in 0..3}, half : 0..7]
    \cup [kind : {"gate"}, basis : {0, 100}, limit : {0, 5}, lost : {0, 4, 5, 9}, floatingLoss : {0, 3},
          volume : {1, 2}, want : {0, 1, 2}, override : BOOLEAN]
    \cup [kind : {"calc"}, target : {6, 7}, levels : {{7, 10, 12}},
          legs : UNION {[1..n -> [isBuy : BOOLEAN, entry : {10}, cur : {8, 11, 13}, mpu : {1, 3}]] : n \in 1..2}]
    \cup [kind : {"fx"}, worth : {Worth}, from : DOMAIN Worth, to : DOMAIN Worth,
          price : {[q \in quoted |-> <<Worth[q[1]], Worth[q[2]]>>] :
                     quoted \in SUBSET {<<"EUR", "USD">>, <<"USD", "JPY">>, <<"EUR", "JPY">>, <<"JPY", "EUR">>}}]

RiskStep(good, dir_, e, sl, tp) ==
    [kind |-> "risk", good |-> good, plan |-> [dir |-> dir_, entry |-> e, sl |-> sl, tp |-> tp]]
MarketStep(good, p) == [kind |-> "market", good |-> good, price |-> p]
Traces ==
    {<<>>, <<MarketStep(TRUE, 10000)>>, <<RiskStep(TRUE, "BUY", 10000, 9900, 10200)>>,
     <<RiskStep(TRUE, "SELL", 10000, 10100, 9800), MarketStep(TRUE, 10003)>>,
     <<RiskStep(TRUE, "BUY", 10000, 9900, 10200), MarketStep(FALSE, 9000)>>,
     <<MarketStep(TRUE, 10003), RiskStep(FALSE, "BUY", 10000, 9000, 9000)>>}
SmallSignals ==
    [kind : {"signal"}, trace : Traces,
     out : [dir : {"BUY", "SELL", "NONE"}, entryType : {"MARKET", "PENDING", "NONE"},
            entry : {-1, 63, 9900, 10015, 10100}, sl : {-1, 9890, 10050}, tp : {-1, 9999, 10300},
            hint : {"NONE", "MARKET", "BUY_STOP"}, quality : {-1}],
     conf : {-1, 4}, live : {-1, 10000}, later : {-1, 10060}]

Part(a, b, step) == [a |-> a, b |-> b, step |-> step]
Field(all, parts) == [all |-> all, parts |-> parts]
Star(lo, hi) == Field(TRUE, {Part(lo, hi, 1)})
Row(times, sch, out, kids) ==
    [list |-> FALSE, items |-> <<>>, times |-> times, scheduled |-> sch, outcome |-> out, kids |-> kids]
List(items) ==
    [list |-> TRUE, items |-> items, times |-> <<>>, scheduled |-> FALSE, outcome |-> FALSE, kids |-> <<>>]
Leaves == {Row(t, s, o, <<>>) : t \in {<<>>, <<0, 3>>, <<1, 3>>, <<3>>}, s \in BOOLEAN, o \in BOOLEAN}
Nested == Leaves \cup {Row(t, s, TRUE, <<List(<<x>>)>>) : t \in {<<1>>, <<3>>}, s \in BOOLEAN, x \in Leaves}
ClockSums ==
    [kind : {"cron"}, at : {0, 3, 12, 27},
     expr : [minute : {Star(0, 1), Field(FALSE, {Part(1, 1, 1)})},
             hour : {Star(0, 1), Field(FALSE, {Part(0, 0, 1), Part(1, 1, 1)}), Field(FALSE, {Part(0, 2, 1)})},
             day : {Star(1, 3), Field(FALSE, {Part(2, 2, 1)}), Field(FALSE, {Part(1, 3, 2)}),
                    Field(FALSE, {Part(1, 3, 1)})},
             weekday : {Star(0, 7), Field(FALSE, {Part(0, 0, 1)}), Field(FALSE, {Part(1, 7, 3)}),
                        Field(FALSE, {Part(5, 2, 1)})}]]
    \cup [kind : {"week"}, weekday : 0..6, hour : 0..23, summer : BOOLEAN]
    \cup [kind : {"replay"}, cutoff : {2},
          node : {List(<<x, y>>) : x \in Nested, y \in Leaves} \cup {Row(<<>>, FALSE, FALSE, <<List(<<x>>)>>) : x \in Nested}]

Paras == UNION {[1..n -> {1, 3, 8}] : n \in 1..3}
DeliverySums ==
    [kind : {"text"}, text : UNION {[1..n -> Paras] : n \in 1..2}]
    \cup [kind : {"reply"}, words : {0, 2, 5}, images : UNION {[1..n -> {"drawn", "missing"}] : n \in 0..3}]
    \cup [kind : {"send"}, given : SUBSET {"c1", "c2", "trader"}, home : {{}, {"h"}},
          down : SUBSET {"c1", "c2", "h"}]

Ranges == {b \in [h : 0..3, l : 0..3] : b.l <= b.h}
Candle(o, h, l, c) == [o |-> o, h |-> h, l |-> l, c |-> c]
Candles == {Candle(0, 3, 0, 3), Candle(3, 3, 0, 1), Candle(1, 2, 0, 1), Candle(2, 3, 2, 2), Candle(2, 2, 1, 1),
            Candle(0, 1, 0, 1)}
ChartSums ==
    [kind : {"chart"}, start : {1}, bars : UNION {[1..n -> Ranges] : n \in 1..4}, power : {2}, absorbed : {FALSE}]
    \cup [kind : {"chart"}, start : {1}, bars : [1..3 -> Ranges], power : {1}, absorbed : {TRUE}]
    \cup [kind : {"chart"}, start : {1}, bars : [1..6 -> {b \in Ranges : b.h = b.l}], power : {1}, absorbed : {FALSE}]
    \cup [kind : {"book"}, bars : UNION {[1..n -> Candles] : n \in 1..3}]

Exposure == "eu" :> {"EUR", "USD"} @@ "us30" :> {"USD"} @@ "btc" :> {"USD"}
Besides == "USD" :> {"us30", "btc"} @@ "EUR" :> {} @@ "CNY" :> {"eu"}
Release(cur, named) == [currency |-> cur, named |-> named]
Bar(h, l, c) == [h |-> h, l |-> l, c |-> c]
Bars == {Bar(2, 1, 1), Bar(3, 1, 3), Bar(3, 2, 2), Bar(5, 3, 4), Bar(2, 2, 2)}
WatchSums ==
    [kind : {"funnel"}, fxOpen : BOOLEAN, volatile : SUBSET DOMAIN Exposure,
     events : {{}, {Release("EUR", {})}, {Release("CNY", {}), Release("EUR", {"btc"})}},
     long : [DOMAIN Exposure -> {-1, 2, 5}], news : {{}, {"us30"}, {"btc", "eu"}}]
    \cup UNION {[kind : {"times"}, now : {n}, events : {{t, u} : t, u \in n..(n + 8)} \cup {{}},
                articles : SUBSET {n - 3, n}, opens : {{}, {1, 5}}] : n \in 0..7}
    \cup [kind : {"levels"},
          bars : [1..4 -> {[h |-> 31, l |-> 20, c |-> 22], [h |-> 27, l |-> 24, c |-> 26],
                           [h |-> 40, l |-> 26, c |-> 33], [h |-> 29, l |-> 21, c |-> 29],
                           [h |-> 23, l |-> 21, c |-> 21]}]]
    \cup [kind : {"measure"}, bars : UNION {[1..n -> Bars] : n \in {2, 4, 5}}]

Raw(sym, dir_, type, entry, sl, tp, windows) ==
    [sym |-> sym, dir |-> dir_, type |-> type, entry |-> entry, sl |-> sl, tp |-> tp, windows |-> windows]
RawPicks == {Raw("s", "BUY", "SELL_LIMIT", 12, 9, 15, 1), Raw("s", "SELL", "MARKET", -1, 12, 8, 1),
             Raw("u", "BUY", "MARKET", -1, 9, 12, 1), Raw("s", "SELL", "SELL_STOP", 9, 8, 12, 2)}
Replies == UNION {[1..n -> RawPicks] : n \in 0..3}
Raws == [sym : {"s", "u"}, dir : {"BUY", "SELL", "HOLD"}, type : {"MARKET", "BUY_STOP", "SELL_LIMIT", "odd"},
         entry : {-1, 0, 8, 10, 13}, sl : {-1, 7, 11}, tp : {-1, 9, 15}, windows : {0, 1}]
ScanSums ==
    [kind : {"candles"}, bars : UNION {[1..n -> Bars] : n \in {2, 4, 5}}]
    \cup [kind : {"scan"}, user : {TRUE}, keyed : {TRUE}, price : {"s" :> 10}, replies : {<<x, y>> : x, y \in Replies}]
    \cup [kind : {"scan"}, user : BOOLEAN, keyed : BOOLEAN, price : {<< >>, "s" :> 10 @@ "u" :> 10},
          replies : {<<<<x>>, <<y>>>> : x \in RawPicks, y \in RawPicks}]
    \cup [kind : {"scan"}, user : {TRUE}, keyed : {TRUE}, price : {"s" :> 10}, replies : {<<<<x>>, <<>>>> : x \in Raws}]

------------------------------------------------------------------------------
(* The constants of the machines.                                           *)

SmallRequires == "a" :> {} @@ "b" :> {"a"}
SmallLifecycles == {[reqs |-> 2, faults |-> 0, total |-> 4], [reqs |-> 1, faults |-> 2, total |-> 5]}

SmallBrokers == [q \in Things |-> "x"] @@ "b1" :> "y"

SmallTurns == {[turns |-> 2, rounds |-> 1, calls |-> 2], [turns |-> 1, rounds |-> 2, calls |-> 1]}

Edge(a, h, b) == [from |-> a, handle |-> h, to |-> b]
Flow(kind, calls, edges) == [kind |-> kind, calls |-> calls, edges |-> edges]
Loop == Flow("t" :> "trigger" @@ "d" :> "data" @@ "c" :> "if" @@ "r" :> "respond", << >>,
             <<Edge("t", "none", "d"), Edge("d", "none", "c"), Edge("c", "true", "d"), Edge("c", "none", "r")>>)
Octo == Flow("t" :> "trigger" @@ "o" :> "octo" @@ "d" :> "data" @@ "k" :> "call" @@ "v" :> "versatile", "k" :> "sub",
             <<Edge("t", "none", "o"), Edge("o", "tools", "d"), Edge("o", "tools", "k"), Edge("o", "none", "v"),
               Edge("v", "none", "d")>>)
Diamond == Flow("t" :> "trigger" @@ "d" :> "data" @@ "c" :> "if" @@ "v" :> "versatile" @@ "o" :> "octo", << >>,
                <<Edge("t", "none", "d"), Edge("t", "none", "c"), Edge("d", "none", "v"), Edge("c", "true", "v"),
                  Edge("c", "false", "o"), Edge("o", "tools", "o"), Edge("o", "tools", "d")>>)
Back == Flow("t" :> "trigger" @@ "k" :> "call" @@ "r" :> "respond", "k" :> "main",
             <<Edge("t", "none", "k"), Edge("k", "none", "r")>>)
Self == Flow("t" :> "trigger" @@ "k" :> "call", "k" :> "sub", <<Edge("t", "none", "k"), Edge("t", "none", "gone")>>)
SmallWirings == "main" :> {Loop, Octo, Diamond} @@ "sub" :> {Back, Self}

SmallKeys == {[edits |-> 2, runs |-> 1, listings |-> 0], [edits |-> 2, runs |-> 0, listings |-> 2]}
Listed == "ds" :> {"d1", "d2"} @@ "gm" :> {"g1"}
DeepSeek == <<"ds", "d1">>
Tiers == {DeepSeek, <<"gm", "g1">>}
SmallSelections == {<< >>, <<"ds", "d2">> :> 1 @@ DeepSeek :> 2 @@ <<"gm", "g1">> :> 3}

Messages == <<"ask", "mute", "ask", "reset">>
SmallBots == {[crashes |-> 1, restarts |-> 0, failures |-> 1, switches |-> 1],
              [crashes |-> 0, restarts |-> 0, failures |-> 2, switches |-> 0],
              [crashes |-> 0, restarts |-> 1, failures |-> 1, switches |-> 0]}

SmallCalendars == {"e" :> 2 @@ "f" :> 3, "e" :> 1 @@ "f" :> 4}
SmallFeeds == {[faults |-> 1, switches |-> 0, versions |-> 2], [faults |-> 0, switches |-> 1, versions |-> 1]}

SmallSources == "s" :> "tradingview" @@ "t" :> "fxstreet"
SmallNews == {[versions |-> 2, faults |-> 1, switches |-> 0], [versions |-> 2, faults |-> 0, switches |-> 1]}

Shelf(free, paid) == "f" :> free @@ "g" :> free @@ "q" :> paid
StoreBound(shelf, crash, removal, build, visit, collect, update, sale) ==
    [dir |-> shelf,
     left |-> [crash |-> crash, removal |-> removal, build |-> build, visit |-> visit,
               collect |-> collect, update |-> update, sale |-> sale]]
SmallStores ==
    {StoreBound(Shelf(0, 0), 2, 1, 0, 0, 0, 0, 0), StoreBound(Shelf(0, 0), 1, 1, 0, 1, 0, 0, 0),
     StoreBound(Shelf(1, 0), 0, 0, 0, 1, 1, 0, 1), StoreBound(Shelf(1, 0), 0, 0, 0, 0, 1, 1, 1),
     StoreBound(Shelf(1, 0), 0, 0, 1, 0, 0, 2, 0), StoreBound(Shelf(1, 2), 0, 1, 1, 0, 0, 1, 2)}

SmallSessions ==
    {[order |-> 2, expiry |-> 1, login |-> 1, fault |-> 0],
     [order |-> 1, expiry |-> 2, login |-> 2, fault |-> 1], [order |-> 1, expiry |-> 1, login |-> 1, fault |-> 2]}

OneAccount == <<"a">>
TwoAccounts == <<"a", "b">>
SmallReads == {[read |-> 2, turn |-> 3, tick |-> 1], [read |-> 3, turn |-> 1, tick |-> 0]}

SmallStreams == {[open |-> 3, tick |-> 1], [open |-> 1, tick |-> 6]}

Offer(kind, key, stops) == [kind |-> kind, key |-> key, stops |-> stops]
Offered ==
    "a" :> <<Offer("note", "a", TRUE), Offer("named", "t", TRUE), Offer("router", "/a", TRUE),
             Offer("conn", "chat", TRUE), Offer("worker", "poll", TRUE)>> @@
    "b" :> <<Offer("worker", "poll", TRUE), Offer("named", "n", TRUE), Offer("conn", "chat", TRUE),
             Offer("note", "b", TRUE), Offer("router", "/b", TRUE)>> @@
    "c" :> <<Offer("named", "t", TRUE), Offer("note", "c", TRUE), Offer("router", "/b", TRUE),
             Offer("worker", "feed", FALSE)>>

------------------------------------------------------------------------------
(* The machines.                                                            *)

Clocks == INSTANCE ClockMath WITH Minutes <- 2, Hours <- 2, Days <- 3, Horizon <- 90, Deep <- 4,
    Sums <- ClockSums, sum <- v1
Telegrams == INSTANCE Delivery WITH LIMIT <- 6, CAPTION <- 3, Sums <- DeliverySums, sum <- v1
Charts == INSTANCE Footprint WITH Top <- 3, Thresh <- 1, Sums <- ChartSums, sum <- v1
Watch == INSTANCE WatchPicks WITH Legs <- Exposure, Indirect <- Besides, Always <- {"btc"}, Plain <- {"eu", "btc"},
    Even <- 5, Extreme <- 2, Enough <- 4, Slow <- 3, Fast <- 2, Short <- 2, Long <- 5, Least <- [num |-> 9, den |-> 10],
    Day <- 8, After <- 1, Grain <- 5, Sums <- WatchSums, sum <- v1
Scans == INSTANCE ScanPicks WITH Enough <- 4, Slow <- 3, Fast <- 2, Window <- 3, Week <- 2, Short <- 2, Long <- 4,
    Band <- 1, MaxPicks <- 2, Sums <- ScanSums, sum <- v1

------------------------------------------------------------------------------
MoreSums == ClockSums \cup DeliverySums \cup ChartSums \cup WatchSums
    \cup ScanSums

MCInit ==
    \/ PartsInit
    \/ ModulesInit
    \/ machine = "sums" /\ "sums" \in Machines /\ v1 \in MoreSums /\ Unused(1)

MCNext == PartsNext \/ ModulesNext

MCSpec == MCInit /\ [][MCNext]_vars

------------------------------------------------------------------------------
(* Properties of the added parts. *)

\* A cron expression, the market's week and a replayed answer mean what they
\* say (agent_schedule.py:72-161, market_hours.py:27-66, pretend_time.py:110-182).
ClocksAgree == machine = "sums" => Clocks!ClocksAgree

\* The watch list's picks, the footprint's sides and a Telegram answer's pieces
\* are what they are said to be (watchlist.py:131-585, artificial_sentiment.py,
\* modules/telegram/backend/telegram.py:98-247).
PicksAreSound ==
    machine = "sums" =>
        /\ Watch!MissingIsNoVerdict /\ Watch!TimesComeTrue /\ Watch!LevelsAreApart /\ Watch!MeasureMirrors
        /\ Scans!ScoreMirrors /\ Scans!PicksStand
        /\ Charts!LegsAreSwings /\ Charts!NoSideIsFavoured /\ Charts!BooksMirror
        /\ Telegrams!TextArrives /\ Telegrams!ReplyArrives /\ Telegrams!SendIsReported

\* "This trade would be taken past a line you set yourself" (risk_gate.py:140):
\* a trade is not placed once the day has lost what its limit allows, unless
\* the trader overrode the check.
LossLimitBlocks == machine = "sums" => Trade!LossLimitBlocks
=============================================================================
