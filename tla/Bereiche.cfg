SPECIFICATION BereicheSpec
CONSTANTS
  w1 = w1
  w2 = w2
  i1 = i1
  i2 = i2
  None = None
  Workers = {w1, w2}
  Drittel = 1
  Geplant = TRUE
  Startdruck = TRUE
  AcWorker = {w1, w2}
  Einsaetze = {i1, i2}
  Nach = 1
  Gnade = 1
CHECK_DEADLOCK FALSE
PROPERTIES
  AtemschutzVersprechen
  AutocloseVersprechen
