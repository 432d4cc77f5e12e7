SPECIFICATION FairSpec
CONSTANTS
  Slots = {s1, s2}
  MaxRequests = 5
  MaxFaults = 3
INVARIANTS TypeOK FinalizerGuardsFile ReadyIsCompleteUnlessCut
PROPERTIES VerdictIsFinal DeletionCompletes RequestDecided
CHECK_DEADLOCK FALSE
