CONSTANTS
    OrderIds <- MCOrderIds
    Prices <- MCPrices
    Quantities <- MCQuantities
    MaxVenueSteps = 3
    MaxVenueSnapshots = 0
    Aggressors = TRUE
SPECIFICATION Spec
CHECK_DEADLOCK FALSE
INVARIANT OrderTradeFeedsConverge
