CONSTANTS
    OrderIds <- MCOrderIds
    Prices <- MCPrices
    Quantities <- MCQuantities
    MaxVenueSteps = 3
    MaxVenueSnapshots = 1
    Aggressors = TRUE
SPECIFICATION Spec
CHECK_DEADLOCK FALSE
PROPERTY EngineDrainsFeeds
