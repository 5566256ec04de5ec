----------------------------- MODULE MCLiveCharts -----------------------------
EXTENDS LiveCharts

CONSTANTS btc, eth, minute, hour, l1, l2

MCOwners == {"trading", "dashboard"}
MCSymbols == {btc, eth}
MCIntervals == {minute, hour}
MCFirstMarkets == {<<btc, minute>>}
MCLoaders == {l1, l2}
=============================================================================
