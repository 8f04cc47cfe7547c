CONSTANTS
    OrderIds <- MCOrderIds
    Prices <- MCOnePrice
    Quantities <- MCQuantities
    MaxVenueSteps = 5
    MaxVenueSnapshots = 1
    Aggressors = TRUE
SPECIFICATION Spec
CHECK_DEADLOCK FALSE
INVARIANT SequentialDeliveryConverges
PROPERTY EngineDrainsFeeds
