SPECIFICATION AutocloseSpec
CONSTANTS
  None = None
  Workers = {w1, w2}
  AcWorker = {w1, w2}
  Einsaetze = {i1}
  Nach = 1
  Gnade = 1
CHECK_DEADLOCK FALSE
PROPERTIES
  KeepopenHaelt
