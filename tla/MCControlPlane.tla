---------------------------- MODULE MCControlPlane ----------------------------
EXTENDS Claims, TLC

(* <<NodeID, replicas, dashboard requests, failures>> *)
Disturbed == {<<1, 2, 1, 1>>, <<2, 1, 1, 1>>, <<2, 2, 0, 1>>, <<0, 1, 0, 0>>}
RequestOrFault == {<<3, 1, 1, 0>>, <<3, 2, 0, 1>>, <<1, 2, 0, 1>>}
ScaledAndFails == {<<4, 1, 1, 1>>}
LeftAlone == {<<1, 1, 0, 0>>}
=============================================================================
