---------------------------- MODULE MCEngineArray -----------------------------
EXTENDS ArrayClaims, TLC

CONSTANTS here, far1, far2

OneOrTwo == {<<here>>, <<here, far1>>}
=============================================================================
