CONSTANTS
    OrderIds <- MCOrderIds
    Prices <- MCPrices
    Quantities <- MCQuantities
    Snapshots <- MCSnapshots
    MaxBufferedEvents = 6
    MaxQueuedSnapshots = 4
    MaxPendingQty = 3
    MaxSnapshotLevels = 1
SPECIFICATION Spec
CONSTRAINT StateBounds
PROPERTY
    SnapshotOfLastProjectionConfirms
