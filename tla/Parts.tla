-------------------------------- MODULE Parts ---------------------------------
(***************************************************************************)
(* What the users' requests reach: sign-ups, the submitted analyses, the   *)
(* market alerts, the profit monitors, the live pages, the orders, the     *)
(* accounts of the desk, the readings of the market, the turns of the      *)
(* chat, the keys of the models, the runs of the analysis flows, each the  *)
(* instance of its own module; and two of the pure parts, the sums, which  *)
(* are questions that no step changes.                                     *)
(***************************************************************************)
EXTENDS Platform

CONSTANTS TradeSums, SignalSums,          \* what TradeMath and SignalMath are asked
          MaxCodes, MaxKeys, MaxEdits,    \* Signup's bounds
          JobTTL, JobTime, JobRestarts,   \* AnalysisJobs': _JOB_TTL_S, and bounds
          Percents, Profits, MaxMoves,    \* ProfitMonitor's
          Refresh, Pause, Patience, StreamBounds,   \* LiveStreams'
          AlertLimit, AlertTime,          \* MarketAlerts': rows of an answer, and a bound
          Quotes, Spread, Margin, MaxBulk, MaxPasses,  \* OrderBook's
          BrokerOf,                       \* TradingDesk's: account -> its broker
          Shortlist, OwnAccounts, ReadTTL, ReadBounds,    \* MarketReads'
          MemoryCap, Funds, TurnBounds,          \* ChatTurns'
          Providers, Columned, ModelsOf, Connections, TierModels, DefaultTier, Markups,
          Selections, KeyBounds,                 \* ModelKeys'
          FlowAgents, Wirings, MaxSteps, MaxVisits, OctoRounds, OctoCalls, MaxDepth,
          MaxBodies, MaxRuns, FlowEdits                              \* FlowRuns'

ASSUME PartsAssumption ==
    /\ MaxCodes \in Nat /\ JobTTL \in Nat
    /\ Percents \subseteq Nat /\ Profits \subseteq Int
    /\ Refresh \in Nat /\ Pause \in Nat /\ Patience \in Nat

ASSUME OrderAssumption == Quotes \subseteq Nat \ {0} /\ Spread \in Nat

ASSUME DeskAssumption ==
    {"none", "unasked"} \cap DOMAIN BrokerOf = {} /\ \A a \in DOMAIN BrokerOf : BrokerOf[a] # "none"

ASSUME ReadAssumption ==
    Shortlist \in Seq(STRING \ {"none"}) /\ OwnAccounts \in Seq(STRING \ {"none"}) /\ ReadTTL \in Nat

ASSUME TurnAssumption == IsFiniteSet(Actors) /\ MemoryCap \in Nat \ {0} /\ Funds \in Int

ASSUME KeyAssumption ==
    /\ "tier" \notin Providers
    /\ Connections \subseteq Nat \ {0}
    /\ \A list \in Selections : \A pair \in DOMAIN list :
          \E p \in Providers : \E m \in ModelsOf[p] : pair = <<p, m>>

------------------------------------------------------------------------------
Trade == INSTANCE TradeMath WITH Sums <- TradeSums, sum <- v1
Signals == INSTANCE SignalMath WITH Sums <- SignalSums, sum <- v1

ASSUME SumAssumption ==
    /\ \A s \in TradeSums : Trade!WellPut(s)
    /\ \A s \in SignalSums : Signals!WellPut(s)

SignUps == INSTANCE Signup WITH Emails <- Things, Requests <- Actors,
    Editions <- {"single", "multi"}, edition <- v1, open <- v2, invite <- v3, signup <- v4,
    doing <- v5, who <- v6, users <- v7, suspended <- v8, keys <- v9, looking <- v10,
    edits <- v11, proved <- v12, raced <- v13, beside <- v14

Analyses == INSTANCE AnalysisJobs WITH Users <- Actors, Jobs <- Things, TTL <- JobTTL,
    LastTime <- JobTime, MaxRestarts <- JobRestarts, time <- v1, jobs <- v2, thread <- v3,
    answer <- v4, lead <- v5, from <- v6, paid <- v7, owner <- v8, via <- v9, began <- v10,
    ran <- v11, ended <- v12, restarts <- v13

Alerts == INSTANCE MarketAlerts WITH Keys <- Things, Emitters <- Actors, Limit <- AlertLimit,
    LastTime <- AlertTime, clock <- v1, created <- v2, hollow <- v3, emit <- v4, asked <- v5,
    read <- v6, mark <- v7, given <- v8, shown <- v9, seen <- v10, cleared <- v11, late <- v12,
    crowded <- v13

Monitor == INSTANCE ProfitMonitor WITH Threads <- Actors, Starters <- Things,
    Refs <- {"peak", "start"}, running <- v1, stopEvt <- v2, starter <- v3, watch <- v4,
    profit <- v5, closing <- v6, moves <- v7, overlap <- v8

Streams == INSTANCE LiveStreams WITH Conns <- Actors, Bounds <- StreamBounds, sock <- v1,
    feed <- v2, live <- v3, stop <- v4, poll <- v5, page <- v6, now <- v7, row <- v8, left <- v9

Orders == INSTANCE OrderBook WITH Ids <- Things, Clients <- Actors, book <- v1, rests <- v2,
    quote <- v3, pass <- v4, told <- v5, passes <- v6, aimed <- v7, crossed <- v8

Desk == INSTANCE TradingDesk WITH Handlers <- Actors, owned <- v1, picks <- v2, active <- v3,
    desk <- v4, stale <- v5, raced <- v6, used <- v7

Prices == INSTANCE MarketReads WITH Readers <- Actors, TTL <- ReadTTL, Bounds <- ReadBounds,
    answers <- v1, marks <- v2, clock <- v3, read <- v4, steady <- v5, left <- v6

Chat == INSTANCE ChatTurns WITH Turns <- Actors, Calls <- Things, Notes <- Things,
    Bounds <- TurnBounds, credits <- v1, memory <- v2, turn <- v3, job <- v4, told <- v5,
    trimmed <- v6, overwritten <- v7, bound <- v8

Keys == INSTANCE ModelKeys WITH Bounds <- KeyBounds, edition <- v1, conns <- v2, columns <- v3,
    tier <- v4, policy <- v5, cache <- v6, picks <- v7, listing <- v8, run <- v9, wanted <- v10,
    gone <- v11, left <- v12

Flows == INSTANCE FlowRuns WITH Agents <- FlowAgents, MaxEdits <- FlowEdits, flow <- v1,
    stack <- v2, fresh <- v3, runs <- v4, edits <- v5, ended <- v6

ASSUME FlowAssumption ==
    /\ MaxSteps \in Nat /\ MaxVisits \in Nat \ {0} /\ OctoCalls \in Nat /\ MaxDepth \in Nat /\ MaxBodies \in Nat
    /\ \A a \in FlowAgents : \A w \in Wirings[a] : Flows!WellDrawn(w)

------------------------------------------------------------------------------
PartsInit ==
    /\ machine \in Machines
    /\ \/ machine = "sums" /\ v1 \in TradeSums \cup SignalSums /\ Unused(1)
       \/ machine = "analyses" /\ Analyses!Init /\ Unused(13)
       \/ machine = "alerts" /\ Alerts!Init /\ Unused(13)
       \/ machine = "signups" /\ SignUps!Init /\ Unused(14)
       \/ machine = "desk" /\ Desk!Init /\ Unused(7)
       \/ machine = "monitor" /\ Monitor!Init /\ Unused(8)
       \/ machine = "orders" /\ Orders!Init /\ Unused(8)
       \/ machine = "chat" /\ Chat!Init /\ Unused(8)
       \/ machine = "keys" /\ Keys!Init /\ Unused(12)
       \/ machine = "reads" /\ Prices!Init /\ Unused(6)
       \/ machine = "streams" /\ Streams!Init /\ Unused(9)
       \/ machine = "flows" /\ Flows!Init /\ Unused(6)

PartsNext ==
    \/ machine = "analyses" /\ Analyses!Next /\ Rest(13)
    \/ machine = "alerts" /\ Alerts!Next /\ Rest(13)
    \/ machine = "signups" /\ SignUps!Next /\ Rest(14)
    \/ machine = "desk" /\ Desk!Next /\ Rest(7)
    \/ machine = "monitor" /\ Monitor!Next /\ Rest(8)
    \/ machine = "orders" /\ Orders!Next /\ Rest(8)
    \/ machine = "chat" /\ Chat!Next /\ Rest(8)
    \/ machine = "keys" /\ Keys!Next /\ Rest(12)
    \/ machine = "reads" /\ Prices!Next /\ Rest(6)
    \/ machine = "streams" /\ Streams!Next /\ Rest(9)
    \/ machine = "flows" /\ Flows!Next /\ Rest(6)

PartsSpec == PartsInit /\ [][PartsNext]_vars

------------------------------------------------------------------------------
(* Properties: each is its module's, of the behaviours that exercise it.    *)

\* A finished analysis stays collectable for its half hour, by its owner only
\* (analysis_api.py:247-352).
OwnerIsAnswered == machine = "analyses" => Analyses!OwnerIsAnswered

\* An alert no newer than the browser's watermark has been given to it, and
\* one the user never saw or dismissed stays unread (market_alerts.py:64-83,
\* 200-350).
NothingIsMissed == machine = "alerts" => Alerts!NothingIsMissed

\* Nobody becomes a user but by a code sent to the address, the last one unless
\* it overtook a write, and by the door that is open (main.py:393-434, 792-908).
EveryoneWasLetIn == machine = "signups" => SignUps!EveryoneWasLetIn

\* The account the app acts on is one the user made available, of the broker in
\* use, unless a handler was overtaken or the move is still to be written
\* (brokers.py:137-250, user_session.py:31-57), and the market is read through any
\* account that serves it (market.py:94-230).
ActiveInReach ==
    /\ machine = "desk" => Desk!ActiveInReach
    /\ machine = "reads" => Prices!ReadsHold

\* "Running" is said of a profit monitor exactly while its thread is alive,
\* and what it closes was below the line its settings draw
\* (trading_api.py:769-828, broker_base.py:845-930); a live page has its one poller
\* (main.py:2664-2790).
MonitorIsSeen ==
    /\ machine = "monitor" => Monitor!MonitorIsSeen
    /\ machine = "streams" => Streams!StreamsHold

\* What a bulk operation reports of a position is what became of it, but for levels
\* it reports as deleted, which stay (broker_base.py:586-834).
ReportsAreTrue == machine = "orders" => Orders!ReportsAreTrue

\* A turn pays for what it burned, and a note somebody was told is stored is
\* there (main.py:1447-1508, agent.py:152-247 and 1000-1011).
TurnsAreSettled == machine = "chat" => Chat!TurnsAreSettled

\* A run is priced as it was run, what is offered can run, and what was picked
\* stays picked (ai_keys.py:166-426, connections.py:276-417, billing.py:320-338).
KeysAreTrue == machine = "keys" => Keys!KeysAreTrue

\* A run walks the flow as it was drawn and within its limits, and answers
\* once (analysis_agent.py:1278-1429).
RunsAsWired == machine = "flows" => Flows!RunsAsWired

\* The size, the levels and the signal of a trade are coherent with what was
\* asked, and the gate and the API read its rules alike (broker_base.py:309-492,
\* trading_api.py:320-395, risk_gate.py:31-99, analysis_agent.py:1475-1752).
TradesAreSafe == machine = "sums" => Trade!SizesAreSafe /\ Trade!RulesAgree /\ Signals!SignalsFit
==============================================================================
