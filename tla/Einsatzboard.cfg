SPECIFICATION BoardSpec
CONSTANTS
  v1 = v1
  t1 = t1
  None = None
  Workers = {}
  Fahrzeuge = {v1}
  Auftraege = {t1}
  Meldungen = {}
  Personen = {}
  Folge <- EineFolge
  Umfaenge <- EinAusschnitt
  MaxListe = 3
CHECK_DEADLOCK FALSE
INVARIANTS AuftragBleibtSichtbar
