SPECIFICATION FristenSpec
CONSTANTS
  w1 = w1
  w2 = w2
  i1 = i1
  i2 = i2
  c1 = c1
  c2 = c2
  j1 = j1
  g1 = g1
  a1 = a1
  a2 = a2
  v1 = v1
  t1 = t1
  t2 = t2
  m1 = m1
  p1 = p1
  d1 = d1
  d2 = d2
  d3 = d3
  None = None
  Workers = {w1, w2}
  Eintraege = {i1, i2}
  MaxEingriffe = 2
  MaxAbbruch = 1
  Verbindungen = {c1, c2}
  SmsAuftraege = {j1}
  Ausleihen = {a1, a2}
  Positionen <- DreiPositionen
  Artikel = {g1}
  SmsGeht = {a1}
  MaxStoerung = 1
  VerleihUmfaenge <- MCVerleihUmfaenge
  Fahrten = {1}
  Staende = {0, 1}
  WarnSchwelle = 1
  FahrtUmfaenge <- MCFahrtUmfaenge
  MaxHandgriffe = 1
  MaxNeustart = 1
  Fahrzeuge <- MCFahrzeuge
  Auftraege <- MCAuftraege
  Meldungen <- MCMeldungen
  Personen <- MCPersonen
  Folge <- MCFolge
  Umfaenge <- MCUmfaenge
  MaxListe = 3
  Dateien = {d1, d2, d3}
  Anfragen = {1, 2}
  Groesse <- MCGroesse
  Quota = 2
  MedienUmfaenge <- MCMedienUmfaenge
CHECK_DEADLOCK FALSE
PROPERTIES
  ErinnerungVersprechen
  DispatchEndet
  VerleihVersprechen
  SchadenWirdVermerkt
  BoardVersprechen
  MedienVersprechen
