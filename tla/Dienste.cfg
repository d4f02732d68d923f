SPECIFICATION DiensteSpec
CONSTANTS
  w1 = w1
  w2 = w2
  x1 = x1
  x2 = x2
  s1 = s1
  s2 = s2
  o1 = o1
  o2 = o2
  n1 = n1
  n2 = n2
  r1 = r1
  r2 = r2
  m3 = m3
  m4 = m4
  q1 = q1
  q2 = q2
  q3 = q3
  f1 = f1
  f2 = f2
  f3 = f3
  m1 = m1
  c1 = c1
  c2 = c2
  j1 = j1
  j2 = j2
  u1 = u1
  u2 = u2
  k1 = k1
  k2 = k2
  h1 = h1
  None = None
  Workers = {w1, w2}
  ParWorker = {x1, x2}
  Stellen = {s1, s2}
  MaxZeilen = 3
  Orgs = {o1, o2}
  EinlWorker <- EinOderZweiWorker
  Leute = {n1, n2}
  Rollen = {r1, r2}
  Mehrfach = {r2}
  Pflicht = {r1}
  StabUmfaenge <- MCStabUmfaenge
  Mitglieder = {m3, m4}
  MaxAenderungen = 2
  TerminUmfaenge <- MCTerminUmfaenge
  Kameraden = {q1, q2, q3}
  Schreibweisen = {"a", "a-", "b"}
  Norm <- MCNorm
  Sendungen = {1, 2}
  MaxAbbrueche = 1
  VersandUmfaenge <- MCVersandUmfaenge
  Wehren = {o1, o2}
  Ziel = o1
  Codes = {"B3"}
  Einheiten = {f1, f2, f3}
  OrgVon <- MCOrgVon
  Kennungen = {k1, k2}
  KennungVon <- MCKennungVon
  Texte = {"a", "b"}
  SdPersonen = {m1}
  Qualis = {"GK", "ZK"}
  SdUmfaenge <- MCSdUmfaenge
  MaxVorlagen = 2
  Sockets <- DreiSockets
  Rufe = {1}
  Verbindungen = {c1, c2}
  SmsAuftraege = {j1, j2}
  Aussteller = {u1, u2}
  Gaeste = {1}
  GastUmfaenge <- MCGastUmfaenge
  MaxWechsel = 2
  Eingaben = {k1, k2}
  PortalUmfaenge <- MCPortalUmfaenge
  Piloten = {1}
  Drohnen = {1}
  Fluege = {f1, f2}
  ListenEintraege = {1, 2}
  CURRENCY_DAYS = 1
  CURRENCY_MINCOUNT = 2
  ABLAUF_WARNUNG_TAGE = 0
  MaxHandeintraege = 2
  DrohnenUmfaenge <- MCDrohnenUmfaenge
  Tabs = {1}
  MaxFehl = 2
  MaxLinks = 2
  MaxTippen = 3
  KontoUmfaenge <- MCKontoUmfaenge
  Warnungen = {h1}
  MaxAbsturz = 1
  WetterUmfaenge <- MCWetterUmfaenge
  Fahrten <- DreiFahrten
  Staende <- DreiStaende
  WarnSchwelle = 1
  FahrtUmfaenge <- MCFahrtUmfaenge
  MaxHandgriffe = 1
  MaxNeustart = 1
  PruefGeraete = {"g"}
  Tage = {1, 2}
  Messungen <- MCMessungen
  MaxProtokolle = 2
  MaxVerwaltung = 1
  MaxPruefAbbruch = 1
  FLASCHENDRUCK_MIN_BAR = 270
  HOCHDRUCK_DICHTPRUEFUNG_MAX_BAR_MIN = 10
  WARNSIGNAL_MIN_BAR = 50
  WARNSIGNAL_MAX_BAR = 60
  Orte = {1, 2}
  Prioritaeten = {"hoch", "mittel"}
  Adressen = {"a"}
  AbschnittVon <- MCAbschnittVon
  Vorgaenge = {"alarm", "v1", "v2"}
  AnUmfaenge <- MCAnUmfaenge
  MaxVorschlaege = 5
  MaxSicherungen = 5
  MaxVersionen = 2
SYMMETRY SymmetrieParallel
CHECK_DEADLOCK FALSE
INVARIANTS
  VersandVersprechen
  RundrufVersprechen
  GatewayVersprechen
  GastVersprechen
  PortalVersprechen
  KontenVersprechen
  WetterVersprechen
  FahrtenVersprechen
  PruefVersprechen
PROPERTIES
  ParVersprechen
  EinladungVersprechen
  StabVersprechen
  TerminVersprechen
  SdVersprechen
  VerteilteCodesBleiben
  DrohnenVersprechen
  AnVersprechen
