SPECIFICATION Spec
CONSTANTS
  o1 = o1
  o2 = o2
  e1 = e1
  e2 = e2
  e3 = e3
  Orders = {o1}
  Events = {e1, e2, e3}
  Analyses <- MCAnalyses
  None = None
  MaxFaults = 0
  MaxExpiries = 0
INVARIANTS
  CriticalIsMailed
CHECK_DEADLOCK FALSE
