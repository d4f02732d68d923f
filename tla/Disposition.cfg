SPECIFICATION Spec
CONSTANTS
  e1 = e1
  e2 = e2
  s1 = s1
  s2 = s2
  k1 = k1
  None = None
  Einheiten <- MCEinheiten
  Fahrzeuge <- MCFahrzeuge
  Stellen <- MCStellen
  Sektoren <- MCSektoren
SYMMETRY StellenSymmetrie
INVARIANTS TypeOK VorOrtEindeutig StandortBelegt KeineVerwaistenVerweise
PROPERTIES NurOrtungTrenntSektor
