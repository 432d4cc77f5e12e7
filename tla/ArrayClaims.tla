----------------------------- MODULE ArrayClaims ------------------------------
(***************************************************************************)
(* What comments and messages of the repository say of the engine and the  *)
(* code does not do.  Each claim is refuted by a run.                      *)
(***************************************************************************)
EXTENDS EngineArray

(* "RAID-1 bdev is configured over ...": the legs of the array hold the    *)
(* same data.  The code puts the array together from whatever replicas can *)
(* be reached, also those that have missed writes, without a rebuild.      *)
LegsHoldTheData == Volume!InSync

(* "Add new replicas that are not in the current RAID": a reconfigure      *)
(* leaves alone the legs that its list asks for.  The code does not find   *)
(* them, by the controller's name, and detaches them to attach them again. *)
ReconfigureKeepsLegs ==
    [][\A h \in Handlers :
          posts[h].pc = "attach" /\ posts'[h] # posts[h] /\ side' = side /\ aio' =>
              Receiving \cap NamesOf(posts[h].list) \subseteq Receiving']_vars
=============================================================================
