CONSTANTS
    Prices <- MCPrices
    Quantities <- MCQuantities
SPECIFICATION Spec
INVARIANT TypeOK
