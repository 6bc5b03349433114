SPECIFICATION CutSpec

CONSTANTS
    Absent = Absent
    Corrupt = Corrupt
    MaxDecimalExponent = 1
    MaxDecimalCoefficient = 40
    AggregationFaultTolerance = 1
    Precision = 1
    LegacyDivisionPrecision = 0
    MaxPowExponent = 3
    NanosPerSecond = 2
    TwapMaxWindowSeconds = 3
    MaxRecordsPerPair = 3
    MaxRecordsPerExpression = 6
    MaxTWAPCallsPerExpression = 1
    MaxExpressionsPerChannel = 3
    Plugins = {"v30", "v31"}
    MaxAnalysisCacheEntries = 2
    MaxEvaluationWorkers = 2
    MinParallelEvaluationWeight = 4
    MaxCalculationRounds = 2
    SnapshotReuseRounds = 1
    DeltaRound = 1
    BlobFetchMarginRounds = 1
    BlobLifetimeRounds = 2
    BlobBroadcastAttempts = 2
    StallTime = 5
    N = 4
    F = 1
    MaxObservationRemoveChannelIDsLength = 2
    MaxObservationUpdateChannelDefinitionsLength = 2
    MaxUpdateBytes = 10
    MaxPredecessorSigners = 4
    MaxSupportedProtocolVersion = 2
    MaxClock = 2
    Formats = {"a"}
    Codecs = {"json", "expr", "backfill"}
    MaxOutcomeChannelDefinitionsLength = 4
    MaxStreamsPerChannel = 2
    MaxChannelOptsBytes = 3
    MaxTotalStreamEntries = 4
    MaxTotalOptsBytes = 6
    MaxPersistedAggregates = 4
    MaxTotalCalculatedStreams = 2
    MaxTotalTWAPCalls = 2
    MaxObservationStreamValuesLength = 4
    Files <- CutFiles
    Reports <- MCReports
    PredecessorConfigs <- MCConfigs
    MaxHistoryChunkRecords = 2
    MaxHistoryChunkSlots = 3
    MaxHistoryRecordsPerPair = 2
    MaxHistoryPairs = 1
    HistoryPairs = {{1}, {1, 2}}
    Depths = {1, 2}
    MaxTimestampedFutureSkew = 1
    MaxHistoryTime = 5
    MaxContendedTime = 1
    ReportCtx <- MCReportCtx
    MercuryQueueMaxSize = 2
    MaxMercuryRestarts = 1
    Consumers = {u1, u2}
    MaxConsecutiveRequestFailures = 2
    MaxClients = 2
    CacheCallers = {u1, u2}
    LatestReportTTL = 2
    MaxStaleAge = 0
    MaxCacheTime = 2
    MaxEntries = 2
    FeedF = 1
    MaxHead = 2
    MaxUint32 = 4
    MaxInt192 = 9
    ExpirationWindow = 1
    BaseUSDFee = 2
    PriceMin = 0
    PriceMax = 8
    MaxAllowedBlocks = 2

INVARIANT
    HonestReachQuorum

CHECK_DEADLOCK FALSE
