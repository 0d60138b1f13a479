SPECIFICATION Spec
CONSTANTS
  r = r
  s = s
  Units = {r, s}
  WindowTokens = 3
  WindowCalls = 2
  Lifetime = 4
  Tactic = "wait"
  MaxIndex = 1
  Used = {2, 3}
  MaxLives = 2
  Kinds <- KindsDef
  Est <- EstDef
INVARIANT TypeOK
INVARIANT ResultKept
INVARIANT DeathSeenOnce
INVARIANT FoldedOnce
INVARIANT TurnReservationReturned
INVARIANT WindowNotOversold
PROPERTY ParkedNotFailed
CHECK_DEADLOCK FALSE
