--------------------------- MODULE MCLocalFileLock ---------------------------
EXTENDS LocalFileLock, TLC

\* Values of HazardSets.
CalmOrDisturbed == {{}, {"crash", "slow"}}
=============================================================================
