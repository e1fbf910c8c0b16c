SPECIFICATION MCSpec
CONSTANTS
    Actors = {p1, p2}
    Things = {q1, q2}
    TradeSums <- SmallTrades
    SignalSums <- SmallSignals
    Machines = {"sums", "modules", "builds", "analyses", "alerts", "signups", "desk", "monitor", "orders", "chat", "flows", "keys", "bot", "calendar", "news", "store", "session", "registry", "reads", "streams"}
    MaxCodes = 2
    MaxKeys = 1
    MaxEdits = 1
    JobTTL = 1
    JobTime = 3
    JobRestarts = 1
    Percents = {1, 50}
    Profits = {0, 2, 4}
    MaxMoves = 2
    Refresh = 1
    Pause = 2
    Patience = 3
    StreamBounds <- SmallStreams
    AlertLimit = 1
    AlertTime = 4
    Quotes = {3, 5}
    Spread = 3
    Margin = 2
    MaxBulk = 2
    MaxPasses = 2
    BrokerOf <- SmallBrokers
    Shortlist <- OneAccount
    OwnAccounts <- TwoAccounts
    ReadTTL = 2
    ReadBounds <- SmallReads
    SourceOf <- SmallSources
    NewsBounds <- SmallNews
    Attempts = 2
    SessionBounds <- SmallSessions
    Calendars <- SmallCalendars
    Interval = 5
    BurstLead = 1
    BurstTail = 2
    Horizon = 6
    FeedBounds <- SmallFeeds
    KindOf <- Messages
    HistoryTurns = 2
    BotBounds <- SmallBots
    MemoryCap = 1
    Funds = 2
    TurnBounds <- SmallTurns
    FlowAgents = {"main", "sub"}
    Wirings <- SmallWirings
    MaxSteps = 6
    MaxVisits = 2
    OctoRounds = 2
    OctoCalls = 2
    MaxDepth = 2
    MaxBodies = 2
    MaxRuns = 2
    FlowEdits = 1
    Providers = {"ds", "gm"}
    Columned = {"ds"}
    ModelsOf <- Listed
    Connections = {1, 2}
    TierModels <- Tiers
    DefaultTier <- DeepSeek
    Markups = {0}
    Selections <- SmallSelections
    KeyBounds <- SmallKeys
    Mods = {"a", "b"}
    Requires <- SmallRequires
    LifecycleBounds <- SmallLifecycles
    FreeModules = {"f", "g"}
    PaidModules = {"q"}
    StoreStarts <- SmallStores
    Offers <- Offered
    MaxLoads = 3
    Hours = 2
    LastHour = 3
    Schedules = {{0, 1}, {1}}
    ScanHours = {0, 1}
    MaxFaults = 1
SYMMETRY Symmetry
INVARIANTS
    ModulesHold
    NothingIsSkipped
    OwnerIsAnswered
    NothingIsMissed
    EveryoneWasLetIn
    ActiveInReach
    MonitorIsSeen
    ReportsAreTrue
    TurnsAreSettled
    RunsAsWired
    TradesAreSafe
    ClocksAgree
    PicksAreSound
    KeysAreTrue
    InstalledKeepUp
CHECK_DEADLOCK FALSE
