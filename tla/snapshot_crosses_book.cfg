CONSTANTS
    OrderIds <- MCOrderIds
    Prices <- MCPrices
    Quantities <- MCQuantities
    Snapshots <- MCSnapshots
    MaxBufferedEvents = 6
    MaxQueuedSnapshots = 4
    MaxPendingQty = 3
    MaxSnapshotLevels = 2
SPECIFICATION Spec
CONSTRAINT StateBounds
INVARIANT
    Uncrossed
