CONSTANTS
    Servers = {s1}
    Reports = {"r1", "r2", "r3"}
    SeqNr <- MCSeqNr
    Format <- MCFormat
    TransmitConcurrency = 1
    TransmitQueueMaxSize = 1
    DefaultMaxTransmitQueueSize = 2
    CommitChSize = 2
    BatchSize = 2
    DeleteQueueMaxSize = 1
    DeleteBatchSize = 1
    MaxStops = 1
    None = None
SPECIFICATION Spec
INVARIANTS RowsAccountedFor 
PROPERTIES CloseReturns StoredIsDelivered DeliversAtLeastOnce
CHECK_DEADLOCK FALSE
