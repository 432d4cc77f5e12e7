-------------------------------- MODULE Mirror --------------------------------
(***************************************************************************)
(* What a mirrored volume promises, whoever serves it: a write goes to     *)
(* every leg that stays, a leg that joins while the volume is served has   *)
(* been brought up to date, and a mirror is only put together anew when    *)
(* nothing is served.  Nothing is promised about the data of the legs that *)
(* a mirror is put together from, or about a copy that somebody else       *)
(* overwrites.                                                             *)
(***************************************************************************)
CONSTANTS
    Holders,   \* those that hold a copy of the volume's data
    Keeper     \* the one every mirror is put together around

VARIABLES
    legs,      \* the copies that are read and written; none: not served
    behind     \* the copies that lack a write the client was told is done, or
               \* that somebody else has overwritten

mvars == <<legs, behind>>

MInit == legs = {} /\ behind = {}

Build ==
    /\ legs = {}
    /\ legs' \in SUBSET Holders /\ Keeper \in legs'
    /\ UNCHANGED behind

ClientWrites ==
    /\ legs' \in SUBSET legs /\ legs' # {}
    /\ behind' = behind \cup (Holders \ legs')

Join(h) ==
    /\ legs # {}
    /\ legs' = legs \cup {h} /\ behind' = behind \ {h}

Leave(h) == legs' = legs \ {h} /\ UNCHANGED behind

Overwritten(h) == behind' = behind \cup {h} /\ UNCHANGED legs

Stop == legs' = {} /\ UNCHANGED behind

MNext ==
    \/ Build \/ ClientWrites \/ Stop
    \/ \E h \in Holders : Join(h) \/ Leave(h) \/ Overwritten(h)

MSpec == MInit /\ [][MNext]_mvars

(* Whichever leg a read is served from, it returns what was last written.  *)
InSync == legs \cap behind = {}
=============================================================================
