SPECIFICATION Spec
CONSTANTS
  Pod = {p1, p2}
  NoPod = NoPod
  MaxEffects = 3
INVARIANTS
  TypeOK
  LeftByLateTickets
  KeysReachShownPod
  KeysSentOnce
  TerminalInv
PROPERTIES
  LeftSessionsEnd
  UserIsTold
CHECK_DEADLOCK FALSE
