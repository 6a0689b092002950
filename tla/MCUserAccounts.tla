--------------------------- MODULE MCUserAccounts ---------------------------
EXTENDS UserAccounts
=============================================================================
