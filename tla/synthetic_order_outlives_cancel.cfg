CONSTANTS
    OrderIds <- MCOrderIds
    Prices <- MCOnePrice
    Quantities <- MCQuantities
    MaxVenueSteps = 4
    MaxVenueSnapshots = 1
    Aggressors = FALSE
SPECIFICATION Spec
CHECK_DEADLOCK FALSE
INVARIANT ConvergedWhenDrained
