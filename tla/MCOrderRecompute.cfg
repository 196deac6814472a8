SPECIFICATION FairSpec
CONSTANTS
  o1 = o1
  o2 = o2
  e1 = e1
  e2 = e2
  e3 = e3
  Orders = {o1}
  Events = {e1, e2}
  Analyses <- MCAnalyses
  None = None
  MaxFaults = 1
  MaxExpiries = 1
INVARIANTS
  TypeOK
  ToldOnlyCommitted
  SettledReflectsActive
  EmailsBounded
PROPERTIES
  DeletedStaysDeleted
  EverybodyFinishes
CHECK_DEADLOCK FALSE
