--------------------------- MODULE MCObservatory ---------------------------
\* Instances of Observatory for TLC.
EXTENDS Observatory
=============================================================================
