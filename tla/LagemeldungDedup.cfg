SPECIFICATION ZWSpec
CONSTANTS
  e1 = e1
  s1 = s1
  s2 = s2
  w1 = w1
  w2 = w2
  None = None
  Einheiten <- Fahrzeug
  Fahrzeuge <- Fahrzeug
  Stellen <- EineStelle
  Sektoren <- KeinSektor
  Freitexte <- KeinFreitext
  Phasen <- PhasenKurz
  Worker <- ZweiWorker
  MaxOffen = 2
PROPERTIES Dedup
