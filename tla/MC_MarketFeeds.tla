---------------------------- MODULE MC_MarketFeeds ----------------------------
EXTENDS MarketFeeds

MCOrderIds == {1, 2, 3}
MCPrices == 1..2
MCOnePrice == {1}
MCQuantities == {1, 2}
=============================================================================
