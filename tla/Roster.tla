-------------------------------- MODULE Roster --------------------------------
(***************************************************************************)
(* What the attachment list of an engine promises to those who read it,    *)
(* whoever edits it from whichever copy: every edit is one of a few, and   *)
(* applies to the list as it is.  Nothing that somebody else has done to   *)
(* the list is undone by it: what was removed stays removed, what was      *)
(* added stays, and how to reach a replica, once known, is not forgotten.  *)
(***************************************************************************)
EXTENDS Integers, Sequences

VARIABLES
    posted,   \* there is a list
    roster    \* its entries: [idx, node, known]

rvars == <<posted, roster>>

RInit == ~posted /\ roster = <<>>

(* No two entries for the same replica.                                    *)
OneEach(l) == \A p, q \in DOMAIN l : p # q => l[p].idx # l[q].idx

(* Entries p onwards say nothing yet on how to reach the replica.          *)
BlankFrom(l, p) == \A q \in DOMAIN l : q >= p => ~l[q].known

Post ==
    /\ ~posted /\ posted'
    /\ OneEach(roster') /\ BlankFrom(roster', 1)

(* New entries come last.                                                  *)
Extend ==
    /\ posted /\ posted'
    /\ Len(roster') > Len(roster)
    /\ SubSeq(roster', 1, Len(roster)) = roster
    /\ OneEach(roster') /\ BlankFrom(roster', Len(roster) + 1)

Strike(p) ==
    /\ posted /\ posted'
    /\ roster' = SubSeq(roster, 1, p - 1) \o SubSeq(roster, p + 1, Len(roster))

Cut(n) ==
    /\ posted /\ posted'
    /\ roster' = SubSeq(roster, 1, n)

(* Some more entries say how to reach the replica.                         *)
FillIn ==
    /\ posted /\ posted'
    /\ DOMAIN roster' = DOMAIN roster
    /\ \A p \in DOMAIN roster :
          /\ roster'[p].idx = roster[p].idx /\ roster'[p].node = roster[p].node
          /\ roster[p].known => roster'[p].known

Withdraw == ~posted' /\ roster' = <<>>

RNext ==
    \/ Post \/ Extend \/ FillIn \/ Withdraw
    \/ \E p \in DOMAIN roster : Strike(p)
    \/ \E n \in 0 .. Len(roster) : Cut(n)

RSpec == RInit /\ [][RNext]_rvars
=============================================================================
