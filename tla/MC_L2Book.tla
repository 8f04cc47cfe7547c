------------------------------ MODULE MC_L2Book ------------------------------
EXTENDS L2Book

MCPrices == 1..3
MCQuantities == {1, 2}
=============================================================================
