----------------------------- MODULE MCTraderStore -----------------------------
EXTENDS TraderStore
CONSTANTS buy1, buy2, sell1, j1, j2
=============================================================================
