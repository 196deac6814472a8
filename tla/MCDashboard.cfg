SPECIFICATION Spec
CONSTANTS
  s1 = s1
  s2 = s2
  Sockets = {s1, s2}
  Users = {me, you}
  Me = me
  Anon = anon
  Global = global
  NoSocket = none
  MaxPublished = 2
  MaxVersions = 5
  MaxOthers = 1
  MaxFaults = 1
SYMMETRY Symmetric
CONSTRAINT Followed
INVARIANTS
  TypeOK
  OnlyOwnMessages
  DeliveredOnceInOrder
  RegistryExplained
  CardCurrent
CHECK_DEADLOCK FALSE
