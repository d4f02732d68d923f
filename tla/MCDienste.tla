----------------------------- MODULE MCDienste ------------------------------
(***************************************************************************)
(* The services whose properties are invariants and properties of a step,  *)
(* each on an instance of its own: "teil" is the service a behaviour is    *)
(* of, the others rest in an initial state, as they share no state with    *)
(* it.                                                                     *)
(***************************************************************************)
EXTENDS DispositionParallel, Einladung, Stab, Termine, Massenversand, Stammdaten,
        Rundruf, SmsGateway, Gastzugang, Buergerportal, Drohnen, Konten, Wetterwarnung,
        Fahrtenbuch, Geraetepruefung, Anreicherung, TLC

CONSTANTS w1, w2, x1, x2, s1, s2, o1, o2, n1, n2, r1, r2, m3, m4, q1, q2, q3, f1, f2,
          f3, m1, c1, c2, j1, j2, u1, u2, k1, k2, h1

VARIABLE teil

Teile == {"parallel", "einladung", "stab", "termine", "versand", "stammdaten",
          "rundruf", "sms", "gast", "portal", "drohnen", "konten", "wetter", "fahrten",
          "pruefung", "anreicherung"}

diensteVars == <<teil, parVars, einlVars, stabVars, terminVars, versandVars, sdVars,
                 rundrufVars, smsVars, gastVars, portalVars, drohnenVars, kontoVars,
                 wetterVars, fahrtenVars, pruefVars, anVars>>

-----------------------------------------------------------------------------
(* Values of the constants *)

SymmetrieParallel == Permutations({x1, x2}) \cup Permutations({s1, s2})

EinOderZweiWorker == {{w1}, {w1, w2}}

\* The staff: reliefs of one worker, without lead, corrected; two workers; a unit.
StabUmfang(w, t, n, r, l, k) ==
  [worker |-> w, teil |-> t, zeilen |-> n, rollen |-> r, leiter |-> l, korrektur |-> k]

MCStabUmfaenge ==
  {StabUmfang({w1}, "stab", 3, {r1, r2}, {TRUE}, FALSE),
   StabUmfang({w1}, "stab", 2, {r1}, BOOLEAN, FALSE),
   StabUmfang({w1}, "stab", 1, {r1}, {TRUE}, TRUE),
   StabUmfang({w1, w2}, "stab", 2, {r1}, {TRUE}, FALSE),
   StabUmfang({w1}, "einheit", 3, {}, {}, FALSE),
   StabUmfang({w1, w2}, "einheit", 3, {}, {}, FALSE)}

\* The lists: the fields of an entry, and two workers that enter two members.
TerminUmfang(w, m, f, e) == [worker |-> w, mitglieder |-> m, funktionen |-> f, felder |-> e]

MCTerminUmfaenge ==
  {TerminUmfang({w1}, {m3}, TRUE, TRUE), TerminUmfang({w1, w2}, {m3, m4}, FALSE, FALSE)}

\* Two members who share a number, one without; a change of the lists, two messages at once.
VersandUmfang(s, a, n, x, y, z) ==
  [sendungen |-> s, arten |-> a, aenderungen |-> n,
   nummern |-> [m \in Kameraden |-> IF m = q1 THEN x ELSE IF m = q2 THEN y ELSE z]]

MCNorm == [s \in {"a-", "a", "b"} |-> IF s = "b" THEN "b" ELSE "a"]

MCVersandUmfaenge ==
  {VersandUmfang({1}, {"alarm"}, 1, "a", "a-", "b"),
   VersandUmfang({1, 2}, {"manuell", "alarm"}, 0, "a", None, "b")}

\* Alarm types of one organisation and of two; members with one worker and with two.
SdUmfang(t, O, b, v, w, n) ==
  [teil |-> t, orgs |-> O, bestand |-> b, arten |-> v, worker |-> w, aenderungen |-> n]
MCOrgVon == [e \in Einheiten |-> IF e = f2 THEN o2 ELSE o1]
MCKennungVon == [e \in Einheiten |-> IF e = f3 THEN k2 ELSE k1]
MCSdUmfaenge ==
  {SdUmfang("alarme", {o1}, {f1}, {"auftrag"}, {w1}, 4),
   SdUmfang("alarme", {o1, o2}, {f1, f2}, {"hinweis"}, {w1}, 3),
   SdUmfang("alarme", {o1}, {}, {"auftrag", "meldung", "hinweis", "default"}, {w1}, 2),
   SdUmfang("fuhrpark", {o1}, {}, {}, {w1}, 4),
   SdUmfang("leute", {o1}, {}, {}, {w1}, 3), SdUmfang("leute", {o1}, {}, {}, {w1, w2}, 4)}

DreiSockets == 1..3

\* Guests: one worker and three codes, two workers, a large-scale incident.
GastUmfang(w, a, z, e) == [worker |-> w, art |-> a, zeilen |-> z, eindeutig |-> e]

MCGastUmfaenge ==
  {GastUmfang({w1}, "einsatz", 3, FALSE), GastUmfang({w1, w2}, "einsatz", 2, FALSE),
   GastUmfang({w1, w2}, "einsatz", 2, TRUE), GastUmfang({w1}, "lage", 2, TRUE)}

\* The portal: one report and everything that can happen to it, two workers, two reports.
PortalUmfang(w, k, a, s) == [worker |-> w, eingaben |-> k, annahmen |-> a, stoerungen |-> s]

MCPortalUmfaenge ==
  {PortalUmfang({w1}, {k1}, 2, 2), PortalUmfang({w1, w2}, {k1}, 1, 2),
   PortalUmfang({w1}, {k1, k2}, 0, 1)}

\* The drones: the register, a pilot's clearance, flights of one and of two workers.
DrohnenUmfang(w, v, f, t) == [worker |-> w, vorgaenge |-> v, fluege |-> f, tage |-> t]

MCDrohnenUmfaenge ==
  {DrohnenUmfang({w1}, {"register"}, {}, 1),
   DrohnenUmfang({w1}, {"zulassung", "besatzung"}, {}, 1),
   DrohnenUmfang({w1}, {"flug", "absturz"}, {f1, f2}, 2),
   DrohnenUmfang({w1, w2}, {"flug", "absturz"}, {f1, f2}, 0),
   DrohnenUmfang({w1}, {"flug", "liste"}, {f1}, 0),
   DrohnenUmfang({w1, w2}, {"flug", "liste"}, {f1}, 0),
   DrohnenUmfang({w1}, {"flug", "ereignis", "medien"}, {f1}, 0)}

\* The accounts: one person, with a password, with single sign-on or with both.
KontoUmfang(w, l, s, v, e) ==
  [worker |-> w, lokal |-> l, sso |-> s, verknuepfen |-> v, erzwingen |-> e]

MCKontoUmfaenge ==
  {KontoUmfang({w1}, TRUE, TRUE, TRUE, TRUE), KontoUmfang({w1, w2}, TRUE, FALSE, FALSE, FALSE),
   KontoUmfang({w1}, FALSE, TRUE, FALSE, FALSE),
   KontoUmfang({w1, w2}, FALSE, TRUE, TRUE, FALSE)}

\* The weather: a rule without and with hashes, the official warnings.
WetterUmfang(w, r, h) == [worker |-> w, regel |-> r, warnungen |-> h]

MCWetterUmfaenge ==
  {WetterUmfang({w1}, "sturm", {}), WetterUmfang({w1}, "gewitter", {h1}),
   WetterUmfang({w1}, "amtlich", {h1}), WetterUmfang({w1, w2}, "amtlich", {h1})}

\* The trips of a vehicle: corrections, trips without a reading, damages, two requests at once.
FahrtUmfang(w, n, z, s) == [worker |-> w, fahrten |-> n, staende |-> z, schaden |-> s]

MCFahrtUmfaenge ==
  {FahrtUmfang({w1}, 3, {0, 1, 2}, FALSE), FahrtUmfang({w1}, 2, {0, 2, None}, FALSE),
   FahrtUmfang({w1}, 2, {1}, TRUE), FahrtUmfang({w1, w2}, 2, {0, 1}, FALSE)}

DreiFahrten == 1..3
DreiStaende == 0..2

\* A protocol in order at the limits of every reading, and one with a leak.
Messung(f, a, s, x, b) == [flasche |-> f, abfall |-> a, signal |-> s, sicht |-> x, bereit |-> b]
MCMessungen == {Messung(270, 10, 60, TRUE, TRUE), Messung(270, 11, 50, TRUE, TRUE)}

\* A site of an alarm; suggestions and prompts with one worker and with two.
AnUmfang(t, w, n) == [teil |-> t, worker |-> w, aenderungen |-> n]
MCAbschnittVon == [p \in {1, 2} |-> IF p = 1 THEN "as" ELSE None]
MCAnUmfaenge ==
  {AnUmfang("stelle", {w1}, 2), AnUmfang("vorschlag", {w1}, 2),
   AnUmfang("vorschlag", {w1, w2}, 2), AnUmfang("prompt", {w1}, 0),
   AnUmfang("prompt", {w1, w2}, 0)}

-----------------------------------------------------------------------------

\* A service that is not the behaviour's has one initial state.
DiensteInit ==
  /\ teil \in Teile
  /\ ParInit
  /\ teil = "einladung" \/ einlWorker = {w1}
  /\ EinlInit
  /\ teil = "stab" \/ stUmfang = CHOOSE u \in StabUmfaenge : TRUE
  /\ StabInit
  /\ \/ teil = "termine"
     \/ teUmfang = (CHOOSE u \in TerminUmfaenge : TRUE) /\ termin = "uebung"
  /\ TerminInit
  /\ teil = "versand" \/ mvUmfang = CHOOSE u \in VersandUmfaenge : TRUE
  /\ VersandInit
  /\ teil = "stammdaten" \/ sdUmfang = CHOOSE u \in SdUmfaenge : TRUE
  /\ SdInit
  /\ RundrufInit
  /\ SmsInit
  /\ teil = "gast" \/ gUmfang = CHOOSE u \in GastUmfaenge : TRUE
  /\ GastInit
  /\ \/ teil = "portal"
     \/ pUmfang = (CHOOSE u \in PortalUmfaenge : TRUE) /\ gateway = {}
  /\ PortalInit
  /\ teil = "drohnen" \/ dUmfang = CHOOSE u \in DrohnenUmfaenge : TRUE
  /\ DrohnenInit
  /\ teil = "konten" \/ kUmfang = CHOOSE u \in KontoUmfaenge : TRUE
  /\ KontenInit
  /\ teil = "wetter" \/ wxUmfang = CHOOSE u \in WetterUmfaenge : TRUE
  /\ WetterInit
  /\ teil = "fahrten" \/ fUmfang = CHOOSE u \in FahrtUmfaenge : TRUE
  /\ FahrtenInit
  /\ PruefInit
  /\ teil = "anreicherung" \/ anUmfang = CHOOSE u \in AnUmfaenge : TRUE
  /\ AnInit

DiensteNext ==
  \/ /\ teil = "parallel" /\ ParNext
     /\ UNCHANGED <<teil, einlVars, stabVars, terminVars, versandVars, sdVars,
                    rundrufVars, smsVars, gastVars, portalVars, drohnenVars,
                    kontoVars, wetterVars, fahrtenVars, pruefVars, anVars>>
  \/ /\ teil = "einladung" /\ EinlNext
     /\ UNCHANGED <<teil, parVars, stabVars, terminVars, versandVars, sdVars,
                    rundrufVars, smsVars, gastVars, portalVars, drohnenVars,
                    kontoVars, wetterVars, fahrtenVars, pruefVars, anVars>>
  \/ /\ teil = "stab" /\ StabNext
     /\ UNCHANGED <<teil, parVars, einlVars, terminVars, versandVars, sdVars,
                    rundrufVars, smsVars, gastVars, portalVars, drohnenVars,
                    kontoVars, wetterVars, fahrtenVars, pruefVars, anVars>>
  \/ /\ teil = "termine" /\ TerminNext
     /\ UNCHANGED <<teil, parVars, einlVars, stabVars, versandVars, sdVars,
                    rundrufVars, smsVars, gastVars, portalVars, drohnenVars,
                    kontoVars, wetterVars, fahrtenVars, pruefVars, anVars>>
  \/ /\ teil = "versand" /\ VersandNext
     /\ UNCHANGED <<teil, parVars, einlVars, stabVars, terminVars, sdVars,
                    rundrufVars, smsVars, gastVars, portalVars, drohnenVars,
                    kontoVars, wetterVars, fahrtenVars, pruefVars, anVars>>
  \/ /\ teil = "stammdaten" /\ SdNext
     /\ UNCHANGED <<teil, parVars, einlVars, stabVars, terminVars, versandVars,
                    rundrufVars, smsVars, gastVars, portalVars, drohnenVars,
                    kontoVars, wetterVars, fahrtenVars, pruefVars, anVars>>
  \/ /\ teil = "rundruf" /\ RundrufNext
     /\ UNCHANGED <<teil, parVars, einlVars, stabVars, terminVars, versandVars,
                    sdVars, smsVars, gastVars, portalVars, drohnenVars, kontoVars,
                    wetterVars, fahrtenVars, pruefVars, anVars>>
  \/ /\ teil = "sms" /\ SmsNext
     /\ UNCHANGED <<teil, parVars, einlVars, stabVars, terminVars, versandVars,
                    sdVars, rundrufVars, gastVars, portalVars, drohnenVars, kontoVars,
                    wetterVars, fahrtenVars, pruefVars, anVars>>
  \/ /\ teil = "gast" /\ GastNext
     /\ UNCHANGED <<teil, parVars, einlVars, stabVars, terminVars, versandVars,
                    sdVars, rundrufVars, smsVars, portalVars, drohnenVars, kontoVars,
                    wetterVars, fahrtenVars, pruefVars, anVars>>
  \/ /\ teil = "portal" /\ PortalNext
     /\ UNCHANGED <<teil, parVars, einlVars, stabVars, terminVars, versandVars,
                    sdVars, rundrufVars, smsVars, gastVars, drohnenVars, kontoVars,
                    wetterVars, fahrtenVars, pruefVars, anVars>>
  \/ /\ teil = "drohnen" /\ DrohnenNext
     /\ UNCHANGED <<teil, parVars, einlVars, stabVars, terminVars, versandVars,
                    sdVars, rundrufVars, smsVars, gastVars, portalVars, kontoVars,
                    wetterVars, fahrtenVars, pruefVars, anVars>>
  \/ /\ teil = "konten" /\ KontenNext
     /\ UNCHANGED <<teil, parVars, einlVars, stabVars, terminVars, versandVars,
                    sdVars, rundrufVars, smsVars, gastVars, portalVars, drohnenVars,
                    wetterVars, fahrtenVars, pruefVars, anVars>>
  \/ /\ teil = "wetter" /\ WetterNext
     /\ UNCHANGED <<teil, parVars, einlVars, stabVars, terminVars, versandVars,
                    sdVars, rundrufVars, smsVars, gastVars, portalVars, drohnenVars,
                    kontoVars, fahrtenVars, pruefVars, anVars>>
  \/ /\ teil = "fahrten" /\ FahrtenNext
     /\ UNCHANGED <<teil, parVars, einlVars, stabVars, terminVars, versandVars,
                    sdVars, rundrufVars, smsVars, gastVars, portalVars, drohnenVars,
                    kontoVars, wetterVars, pruefVars, anVars>>
  \/ /\ teil = "pruefung" /\ PruefNext
     /\ UNCHANGED <<teil, parVars, einlVars, stabVars, terminVars, versandVars,
                    sdVars, rundrufVars, smsVars, gastVars, portalVars, drohnenVars,
                    kontoVars, wetterVars, fahrtenVars, anVars>>
  \/ /\ teil = "anreicherung" /\ AnNext
     /\ UNCHANGED <<teil, parVars, einlVars, stabVars, terminVars, versandVars,
                    sdVars, rundrufVars, smsVars, gastVars, portalVars, drohnenVars,
                    kontoVars, wetterVars, fahrtenVars, pruefVars>>

DiensteSpec == DiensteInit /\ [][DiensteNext]_diensteVars
=============================================================================
