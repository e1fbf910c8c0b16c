----------------------------- MODULE ModuleParts ------------------------------
(***************************************************************************)
(* The installable modules and what installs them: the news, the broker    *)
(* sessions, the calendar, the bot, the modules' lifecycle, the store they *)
(* come from and what they contribute; and the daily builds, which run by  *)
(* the clock alone; each the instance of its own module.                   *)
(***************************************************************************)
EXTENDS Platform

CONSTANTS Hours, LastHour, Schedules, ScanHours, MaxFaults, \* DailyBuilds': a day's hours, ...
          SourceOf, NewsBounds,           \* NewsFeed's
          Attempts, SessionBounds,        \* BrokerSession's
          Calendars, Interval, BurstLead, BurstTail, Horizon, FeedBounds,  \* CalendarFeed's
          KindOf, HistoryTurns, BotBounds,       \* TelegramBot's
          Mods, Requires, LifecycleBounds,       \* ModuleLifecycle's
          FreeModules, PaidModules, StoreStarts,  \* ModuleStore's
          Offers, MaxLoads                       \* Registry's

ASSUME BuildAssumption ==
    Hours \in Nat \ {0} /\ LastHour \in Nat /\ ScanHours \subseteq 0..(Hours - 1)

ASSUME SessionAssumption == Attempts \in Nat

ASSUME CalendarAssumption ==
    /\ \A c \in Calendars : c \in [DOMAIN c -> Nat]
    /\ Interval \in Nat /\ Interval >= 2 /\ BurstLead \in Nat /\ BurstTail \in Nat

ASSUME BotAssumption == DOMAIN KindOf \subseteq Nat

ASSUME LifecycleAssumption == IsFiniteSet(Mods) /\ "none" \notin Mods

ASSUME StoreAssumption == \A s \in StoreStarts : s.dir \in [FreeModules \cup PaidModules -> Nat]

ASSUME RegistryAssumption ==
    /\ "gone" \notin DOMAIN Offers /\ MaxLoads \in Nat
    /\ \A m \in DOMAIN Offers :
        Offers[m] \in Seq([kind : {"named", "note", "conn", "worker", "router"}, key : STRING, stops : BOOLEAN])

------------------------------------------------------------------------------
Builds == INSTANCE DailyBuilds WITH now <- v1, up <- v2, started <- v3, hours <- v4, lists <- v5,
    lock <- v6, at <- v7, slot <- v8, looked <- v9, scanHour <- v10, enabled <- v11, scans <- v12,
    scan <- v13, wake <- v14, faults <- v15, badSlots <- v16, badDays <- v17

News == INSTANCE NewsFeed WITH Loops <- Actors, Bounds <- NewsBounds, shown <- v1, rows <- v2,
    started <- v3, stop <- v4, loop <- v5, unread <- v6, left <- v7

Session == INSTANCE BrokerSession WITH Traders <- Things, Threads <- Actors, Bounds <- SessionBounds,
    row <- v1, valid <- v2, minted <- v3, dead <- v4, mem <- v5, call <- v6, login <- v7, past <- v8,
    left <- v9

Calendar == INSTANCE CalendarFeed WITH Loops <- Actors, Bounds <- FeedBounds, due <- v1, now <- v2,
    source <- v3, printed <- v4, rows <- v5, started <- v6, stop <- v7, loop <- v8, since <- v9,
    bound <- v10, faults <- v11, switches <- v12

Bot == INSTANCE TelegramBot WITH Threads <- Actors, Bounds <- BotBounds, arrived <- v1,
    dropped <- v2, connected <- v3, cursor <- v4, history <- v5, stop <- v6, sups <- v7,
    listed <- v8, thread <- v9, answered <- v10, over <- v11, lost <- v12, unpaid <- v13,
    doubled <- v14, left <- v15, again <- v16

Modules == INSTANCE ModuleLifecycle WITH Procs <- Actors, Bounds <- LifecycleBounds, dir <- v1,
    backup <- v2, row <- v3, loaded <- v4, serving <- v5, req <- v6, up <- v7, faults <- v8,
    asked <- v9, kept <- v10, clash <- v11, bound <- v12

Store == INSTANCE ModuleStore WITH Procs <- Actors, Starts <- StoreStarts, dir <- v1, seeded <- v2,
    key <- v3, cache <- v4, challenge <- v5, boot <- v6, seller <- v7, proc <- v8, past <- v9,
    left <- v10

Contributions == INSTANCE Registry WITH named <- v1, notes <- v2, conns <- v3, workers <- v4,
    routers <- v5, served <- v6, by <- v7, bound <- v8, started <- v9, running <- v10, pos <- v11,
    loads <- v12, copy <- v13

------------------------------------------------------------------------------
ModulesInit ==
    /\ machine \in Machines
    /\ \/ machine = "modules" /\ Modules!Init /\ Unused(12)
       \/ machine = "builds" /\ Builds!Init /\ Unused(17)
       \/ machine = "bot" /\ Bot!Init /\ Unused(16)
       \/ machine = "calendar" /\ Calendar!Init /\ Unused(12)
       \/ machine = "news" /\ News!Init /\ Unused(7)
       \/ machine = "store" /\ Store!Init /\ Unused(10)
       \/ machine = "registry" /\ Contributions!Init /\ Unused(13)
       \/ machine = "session" /\ Session!Init /\ Unused(9)

ModulesNext ==
    \/ machine = "modules" /\ Modules!Next /\ Rest(12)
    \/ machine = "builds" /\ Builds!Next /\ Rest(17)
    \/ machine = "bot" /\ Bot!Next /\ Rest(16)
    \/ machine = "calendar" /\ Calendar!Next /\ Rest(12)
    \/ machine = "news" /\ News!Next /\ Rest(7)
    \/ machine = "store" /\ Store!Next /\ Rest(10)
    \/ machine = "registry" /\ Contributions!Next /\ Rest(13)
    \/ machine = "session" /\ Session!Next /\ Rest(9)

ModulesSpec == ModulesInit /\ [][ModulesNext]_vars

------------------------------------------------------------------------------
(* Properties: each is its module's, of the behaviours that exercise it.    *)

\* A module whose row says it is off does not serve once the requests at it are
\* over, and one that is installed stays whole on disk until a second fault, whatever
\* installs, removals, switches, starts of dependents, failed copies and crashes
\* overlap (module_installer.py:141-259, modules.py:155-252).  What the store gives,
\* claims, shows and updates is what the owner is due (catalog.py:72-346,
\* auto_update.py:82-206).  What a module contributed, by loads over one another too,
\* is taken away again exactly (registry.py:46-154 and 259-335 and 454-509).
ModulesHold ==
    /\ machine = "modules" => Modules!OffMeansOff /\ Modules!NoHole
    /\ machine = "store" => Store!StoreIsHonest
    /\ machine = "registry" => Contributions!RegistryHolds

\* No scheduled hour goes by without its watch list and no day without its
\* scan, while the server is up and its settings are left alone
\* (watchlist.py:828-841 and 487-490, daily_scan.py:526-566).
NothingIsSkipped == machine = "builds" => Builds!NothingIsSkipped

\* The installed modules keep up with what comes in from outside: a message to
\* the bot is answered once, and once more for each poll that could not read the
\* cursor, its answers are paid for, and none is lost behind another; what a feed's
\* source shows is kept, soon and for good; a login at TradeLocker outlives its
\* tokens, and an order is placed once unless its answer was lost
\* (modules/telegram/backend/module.py:419-620,
\* modules/economic-calendar/backend/econ.py:82-118 and 370-504,
\* modules/news/backend/news.py:105-266 and 460-492,
\* modules/tradelocker/backend/tradelocker/api.py:152-231).
InstalledKeepUp ==
    /\ machine = "bot" => Bot!BotIsSteady
    /\ machine = "calendar" => Calendar!CalendarIsKept
    /\ machine = "news" => News!NewsIsKept
    /\ machine = "session" => Session!SessionHolds
==============================================================================
