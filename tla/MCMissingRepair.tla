--------------------------- MODULE MCMissingRepair --------------------------
\* Every pattern of valid positions in channels of up to eight samples.
EXTENDS MissingRepair
=============================================================================
