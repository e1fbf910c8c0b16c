SPECIFICATION MCSpec
CONSTANTS
    Actors = {p1, p2}
    Things = {q1, q2}
    TradeSums <- SmallTrades
    SignalSums <- SmallSignals
    Machines = {"sums"}
    MaxCodes = 0
    MaxKeys = 0
    MaxEdits = 0
    JobTTL = 0
    JobTime = 0
    JobRestarts = 0
    Percents = {}
    Profits = {}
    MaxMoves = 0
    Refresh = 0
    Pause = 0
    Patience = 0
    StreamBounds = {}
    AlertLimit = 0
    AlertTime = 0
    Quotes = {}
    Spread = 0
    Margin = 0
    MaxBulk = 0
    MaxPasses = 0
    BrokerOf <- SmallBrokers
    Shortlist <- OneAccount
    OwnAccounts <- TwoAccounts
    ReadTTL = 0
    ReadBounds = {}
    SourceOf <- SmallSources
    NewsBounds = {}
    Attempts = 0
    SessionBounds = {}
    Calendars = {}
    Interval = 2
    BurstLead = 0
    BurstTail = 0
    Horizon = 0
    FeedBounds = {}
    KindOf <- Messages
    HistoryTurns = 0
    BotBounds = {}
    MemoryCap = 1
    Funds = 0
    TurnBounds = {}
    FlowAgents = {"main", "sub"}
    Wirings <- SmallWirings
    MaxSteps = 6
    MaxVisits = 2
    OctoRounds = 2
    OctoCalls = 2
    MaxDepth = 2
    MaxBodies = 2
    MaxRuns = 2
    FlowEdits = 1
    Providers = {}
    Columned = {}
    ModelsOf <- Listed
    Connections = {}
    TierModels = {}
    DefaultTier <- DeepSeek
    Markups = {}
    Selections = {}
    KeyBounds = {}
    Mods = {}
    Requires <- SmallRequires
    LifecycleBounds = {}
    FreeModules = {}
    PaidModules = {}
    StoreStarts = {}
    Offers <- Offered
    MaxLoads = 0
    Hours = 1
    LastHour = 0
    Schedules = {}
    ScanHours = {}
    MaxFaults = 0
INVARIANTS
    LossLimitBlocks
CHECK_DEADLOCK FALSE
