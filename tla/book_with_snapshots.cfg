CONSTANTS
    OrderIds <- MCOrderIds
    Prices <- MCPrices
    Quantities <- MCQuantities
    Snapshots <- MCSnapshots
    MaxBufferedEvents = 4
    MaxQueuedSnapshots = 1
    MaxPendingQty = 1
    MaxSnapshotLevels = 1
SPECIFICATION Spec
CONSTRAINT StateBounds
VIEW BookView
INVARIANTS
    LevelAggregatesConsistent
    BookWellFormed
