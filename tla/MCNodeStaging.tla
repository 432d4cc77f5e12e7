---------------------------- MODULE MCNodeStaging -----------------------------
EXTENDS NodeStaging, TLC

CONSTANTS p1, p2, p3

(* <<access, pods that come, failures>> *)
PodsAndFaults ==
    {<<"rw", {p1, p2, p3}, 0>>, <<"rw", {p1, p2}, 1>>, <<"rw", {p3}, 1>>,
     <<"ro", {p1, p2}, 0>>, <<"ro", {p1}, 1>>, <<"nfs", {p1, p3}, 1>>}
TwoPods == {<<"rw", {p1, p2}, 0>>}
=============================================================================
