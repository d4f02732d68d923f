SPECIFICATION LMSpec
CONSTANTS
  e1 = e1
  s1 = s1
  None = None
  Funkgeraete = Funkgeraete
  Freitexte <- EinFreitext
  Einheiten <- Fahrzeug
  Fahrzeuge <- Fahrzeug
  Stellen <- EineStelle
  Sektoren <- KeinSektor
  Phasen <- PhasenKlein
  MaxOffen = 2
INVARIANTS LMTypeOK
PROPERTIES RegelkreisSchritte RegelkreisVersprechen UhrWirdNachgezogen
