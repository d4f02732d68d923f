SPECIFICATION AtemschutzSpec
CONSTANTS
  None = None
  Workers = {}
  Drittel = 1
  Geplant = TRUE
  Startdruck = TRUE
INVARIANTS DrittelErneut
