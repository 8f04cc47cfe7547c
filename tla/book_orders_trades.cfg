CONSTANTS
    OrderIds <- MCOrderIds
    Prices <- MCPrices
    Quantities <- MCQuantities
    MaxBufferedEvents = 4
    MaxQueuedSnapshots = 1
    MaxPendingQty = 2
    MaxSnapshotLevels = 0
SPECIFICATION SpecOrdersTrades
CONSTRAINT StateBounds
VIEW BookView
INVARIANTS
    TypeOK
    LevelAggregatesConsistent
    BookWellFormed
    Uncrossed
