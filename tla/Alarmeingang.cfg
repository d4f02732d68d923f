SPECIFICATION Spec
CONSTANTS
  w1 = w1
  w2 = w2
  a1 = a1
  a2 = a2
  l1 = l1
  l2 = l2
  z1 = z1
  z2 = z2
  z3 = z3
  None = None
  Worker <- ZweiWorker
  Schluessel <- MCSchluessel
  Ausloeser <- MCAusloeser
  Lagen <- MCLagen
  Zeilen <- MCZeilen
SYMMETRY Symmetrie
INVARIANTS AlarmTypeOK EinmalGespiegelt LageAlarmJeWorker
