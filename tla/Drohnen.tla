------------------------------ MODULE Drohnen ------------------------------
(***************************************************************************)
(* The drone (UAS) log: pilots and their clearance, devices and their      *)
(* maintenance, the drone operation of an incident with its crew, the      *)
(* flights with their checklists, the accidents with their reporting chain *)
(* and the recordings.                                                     *)
(*                                                                         *)
(* Source: app/routers/ui_uas.py, app/services/uas_compliance.py,          *)
(* uas_flugbuch.py, app/models/uas.py.                                     *)
(*                                                                         *)
(* The handlers await nothing between their read and their commit: with    *)
(* one worker nothing comes in between, with two another may commit.       *)
(* Dates are days; the certificates of a pilot are one BOOLEAN and the     *)
(* first day on which one of them has expired.                             *)
(***************************************************************************)
EXTENDS Basis, Naturals, Integers, FiniteSets

CONSTANTS
  Piloten, Drohnen, Fluege,
  ListenEintraege,           \* rows of uas_einsatz_rolle
  CURRENCY_DAYS,       \* window of the flights that count
  CURRENCY_MINCOUNT,   \* flights needed in it
  ABLAUF_WARNUNG_TAGE,
  DrohnenUmfaenge,     \* bounds: workers, operations offered, flights, days
  MaxHandeintraege     \* bound: movements entered by hand

EinsatzStatus == {"alarmiert", "angemeldet", "im_einsatz", "abgemeldet", "abgeschlossen"}

\* A row of uas_flug with its checklists; "vorflug" is the one before take-off, of
\* "nachflug" their number.
FlugZeilen ==
  [lfd : Nat, tag : Nat, pilot : Piloten \cup {None}, geraet : Drohnen, dauer : {None, 1},
   status : {"offen", "abgeschlossen"},
   inhalt_hash : {None} \cup (Nat \X (Piloten \cup {None}) \X Drohnen \X {None, 1}),
   unfall : BOOLEAN, vorflug : [alle : BOOLEAN, abgeschlossen : BOOLEAN], nachflug : Nat]

ASSUME DrohnenAssumption ==
  /\ IsFiniteSet(Fluege) /\ CURRENCY_MINCOUNT \in Nat
  /\ DrohnenUmfaenge \subseteq [worker : SUBSET Workers, vorgaenge : SUBSET STRING,
                                fluege : SUBSET Fluege, tage : Nat]
  /\ None \notin Fluege /\ None \notin FlugZeilen /\ None \notin [status : EinsatzStatus]
  /\ None \notin [art : {"bewegung"}, flug : Fluege]

VARIABLES
  dUmfang, dWorker,
  tag,        \* today
  pilot,      \* uas_pilot
  drohne,     \* uas_device with its maintenance log
  einsatzU,   \* uas_einsatz of the incident: None or status
  besatzung,  \* uas_einsatz_rolle
  flug,       \* uas_flug with its checklists
  bewegung,   \* uas_flugbewegung: set of rows
  ereignis,   \* uas_ereignis: None, or the flight and the stages reported to
  aufnahme,   \* uas_medien of a flight: None, or DSGVO status and file
  hand,       \* per worker: the handler between its read and its last commit
  absturz     \* history: flights at whose closing the worker died

drohnenVars == <<dUmfang, dWorker, tag, pilot, drohne, einsatzU, besatzung, flug, bewegung,
                 ereignis, aufnahme, hand, absturz>>

Vorgang(art) == art \in dUmfang.vorgaenge

Wartet(w) == w \in dWorker /\ hand[w] = None

-----------------------------------------------------------------------------
(* uas_compliance *)

Aktuelle(p) == {b \in bewegung : b.pilot = p /\ b.tag >= tag - CURRENCY_DAYS}

\* pilot_freigabe_status
Freigabe(p) ==
  LET z == pilot[p] IN
  IF ~z.papiere \/ z.ablauf < tag \/ Cardinality(Aktuelle(p)) < CURRENCY_MINCOUNT THEN "rot"
  ELSE IF z.ablauf - tag <= ABLAUF_WARNUNG_TAGE THEN "gelb" ELSE "gruen"

\* Mutant: the last entry of the log decides.
LetzterEintragIo(log) ==
  \A e \in log : (\A f \in log : f.nr <= e.nr) => e.ergebnis = "io"

OhneMangel(log) == \A e \in log : e.ergebnis = "io"

\* device_einsatzbereit: also when an inspection is overdue (wartung_faelligkeit).
Einsatzbereit(g) ==
  drohne[g].status = "aktiv" /\ drohne[g].papiere /\ OhneMangel(drohne[g].wartungen)

-----------------------------------------------------------------------------
(* Register *)

PilotBearbeiten(w, p, papiere, ablauf, aktiv) ==
  /\ Wartet(w) /\ Vorgang("register")
  /\ pilot' = [pilot EXCEPT ![p] = [papiere |-> papiere, ablauf |-> ablauf, aktiv |-> aktiv]]
  /\ UNCHANGED <<dUmfang, dWorker, tag, drohne, einsatzU, besatzung, flug, bewegung, ereignis,
                 aufnahme, hand, absturz>>

GeraetBearbeiten(w, g, papiere, status) ==
  /\ Wartet(w) /\ Vorgang("register")
  /\ drohne' = [drohne EXCEPT ![g].papiere = papiere, ![g].status = status]
  /\ UNCHANGED <<dUmfang, dWorker, tag, pilot, einsatzU, besatzung, flug, bewegung, ereignis,
                 aufnahme, hand, absturz>>

\* wartung_neu_save: entries are only added.
WartungNeu(w, g, ergebnis) ==
  /\ Wartet(w) /\ Vorgang("register") /\ Cardinality(drohne[g].wartungen) < 2
  /\ drohne' = [drohne EXCEPT ![g].wartungen =
       @ \cup {[nr |-> Cardinality(@), ergebnis |-> ergebnis]}]
  /\ UNCHANGED <<dUmfang, dWorker, tag, pilot, einsatzU, besatzung, flug, bewegung, ereignis,
                 aufnahme, hand, absturz>>

\* flugbewegung_eintragen: flights before the system was introduced.
FlugbewegungEintragen(w, p) ==
  LET nr == Cardinality({b \in bewegung : b.flug = None}) IN
  /\ Wartet(w) /\ Vorgang("zulassung") /\ nr < MaxHandeintraege
  /\ bewegung' = bewegung \cup {[pilot |-> p, tag |-> tag, flug |-> None, von |-> nr]}
  /\ UNCHANGED <<dUmfang, dWorker, tag, pilot, drohne, einsatzU, besatzung, flug, ereignis,
                 aufnahme, hand, absturz>>

-----------------------------------------------------------------------------
(* Operation and crew *)

Besetzt(stand) == {stand[n].rolle : n \in {n \in ListenEintraege : stand[n] # None}}

\* _validate_mindestbesetzung (the two persons follow from the two roles)
Mindestbesetzung(stand) == {"pilot", "luftraumbeobachter"} \subseteq Besetzt(stand)

\* einsatz_starten_save: the incident has one drone operation (unique).
EinsatzStarten(w) ==
  /\ Wartet(w) /\ einsatzU = None
  /\ einsatzU' = [status |-> "alarmiert"]
  /\ UNCHANGED <<dUmfang, dWorker, tag, pilot, drohne, besatzung, flug, bewegung, ereignis,
                 aufnahme, hand, absturz>>

PilotZugelassen(p, begruendung) == begruendung \/ \A q \in {p} \ {None} : Freigabe(q) # "rot"

RolleHinzufuegen(w, n, rolle, p, begruendung) ==
  /\ Wartet(w) /\ Vorgang("besatzung") /\ einsatzU # None /\ besatzung[n] = None
  /\ PilotZugelassen(p, begruendung)
  /\ besatzung' = [besatzung EXCEPT ![n] =
       [rolle |-> rolle, pilot |-> p, begruendet |-> begruendung, seit |-> tag]]
  /\ UNCHANGED <<dUmfang, dWorker, tag, pilot, drohne, einsatzU, flug, bewegung, ereignis,
                 aufnahme, hand, absturz>>

RolleLoeschen(w, n) ==
  /\ Wartet(w) /\ besatzung[n] # None
  /\ besatzung' = [besatzung EXCEPT ![n] = None]
  /\ UNCHANGED <<dUmfang, dWorker, tag, pilot, drohne, einsatzU, flug, bewegung, ereignis,
                 aufnahme, hand, absturz>>

\* einsatz_status_aendern: any status may follow any other; "im_einsatz" needs the crew.
EinsatzStatusAendern(w, neuer_status) ==
  /\ Wartet(w) /\ Vorgang("besatzung") /\ einsatzU # None
  /\ neuer_status = "im_einsatz" => Mindestbesetzung(besatzung)
  /\ einsatzU' = [einsatzU EXCEPT !.status = neuer_status]
  /\ UNCHANGED <<dUmfang, dWorker, tag, pilot, drohne, besatzung, flug, bewegung, ereignis,
                 aufnahme, hand, absturz>>

-----------------------------------------------------------------------------
(* Flights *)

DrohneAngelegt == {f \in Fluege : flug[f] # None}

LaufendeNummer == Cardinality(DrohneAngelegt) + 1

\* flug_neu_save: neither the clearance of the pilot nor the readiness of the
\* device is asked for; the number is the count plus one, read before the insert.
FlugNeuLesen(w, p, g) ==
  /\ Wartet(w) /\ Vorgang("flug") /\ einsatzU # None /\ DrohneAngelegt # dUmfang.fluege
  /\ hand' = [hand EXCEPT ![w] =
       [art |-> "neu", lfd |-> LaufendeNummer, pilot |-> p, geraet |-> g]]
  /\ UNCHANGED <<dUmfang, dWorker, tag, pilot, drohne, einsatzU, besatzung, flug, bewegung,
                 ereignis, aufnahme, absturz>>

FlugNeuSchreiben(w, f) ==
  /\ hand[w] # None /\ hand[w].art = "neu" /\ flug[f] = None
  /\ flug' = [flug EXCEPT ![f] =
       [lfd |-> hand[w].lfd, tag |-> tag, pilot |-> hand[w].pilot, geraet |-> hand[w].geraet,
        dauer |-> None, status |-> "offen", inhalt_hash |-> None, unfall |-> FALSE,
        vorflug |-> [alle |-> FALSE, abgeschlossen |-> FALSE], nachflug |-> 0]]
  /\ hand' = [hand EXCEPT ![w] = None]
  /\ UNCHANGED <<dUmfang, dWorker, tag, pilot, drohne, einsatzU, besatzung, bewegung, ereignis,
                 aufnahme, absturz>>

NochOffener(f) == flug[f].status = "offen"

AbschlussLesen(w, f, dauer) ==
  /\ Wartet(w) /\ flug[f] # None /\ NochOffener(f)
  /\ hand' = [hand EXCEPT ![w] =
       [art |-> "abschluss", flug |-> f, dauer |-> dauer, alt |-> flug[f].dauer]]
  /\ UNCHANGED <<dUmfang, dWorker, tag, pilot, drohne, einsatzU, besatzung, flug, bewegung,
                 ereignis, aufnahme, absturz>>

InhaltHash(z, dauer) == <<z.tag, z.pilot, z.geraet, dauer>>

DannBewegung(h) ==
  IF flug[h.flug].pilot = None THEN None ELSE [art |-> "bewegung", flug |-> h.flug]

\* flug_abschliessen, first commit: the duration is written if it differs from
\* what was read, status and hash.
AbschlussSchreiben(w) ==
  LET h == hand[w] IN
  /\ h # None /\ h.art = "abschluss"
  /\ flug' = [flug EXCEPT ![h.flug] =
       [flug[h.flug] EXCEPT !.dauer = IF h.dauer = h.alt THEN @ ELSE h.dauer,
                            !.status = "abgeschlossen",
                            !.inhalt_hash = InhaltHash(flug[h.flug], h.dauer)]]
  /\ hand' = [hand EXCEPT ![w] = DannBewegung(h)]
  /\ UNCHANGED <<dUmfang, dWorker, tag, pilot, drohne, einsatzU, besatzung, bewegung, ereignis,
                 aufnahme, absturz>>

\* Second commit: the movement that counts for the clearance of the pilot.
BewegungSchreiben(w) ==
  LET h == hand[w] IN
  /\ h # None /\ h.art = "bewegung"
  /\ bewegung' = bewegung \cup
       {[pilot |-> flug[h.flug].pilot, tag |-> flug[h.flug].tag, flug |-> h.flug,
         von |-> Cardinality({b \in bewegung : b.flug = h.flug})]}
  /\ hand' = [hand EXCEPT ![w] = None]
  /\ UNCHANGED <<dUmfang, dWorker, tag, pilot, drohne, einsatzU, besatzung, flug, ereignis,
                 aufnahme, absturz>>

DrohnenWorkerStirbt(w) ==
  /\ hand[w] # None /\ Vorgang("absturz")
  /\ absturz' = absturz \cup (IF hand[w].art = "bewegung" THEN {hand[w].flug} ELSE {})
  /\ hand' = [hand EXCEPT ![w] = None]
  /\ UNCHANGED <<dUmfang, dWorker, tag, pilot, drohne, einsatzU, besatzung, flug, bewegung,
                 ereignis, aufnahme>>

\* checkliste_speichern: complete once, complete for good, also when points are
\* unticked afterwards.
ChecklisteSpeichern(w, f, alle) ==
  /\ Wartet(w) /\ Vorgang("liste") /\ flug[f] # None
  /\ flug' = [flug EXCEPT ![f].vorflug =
       [alle |-> alle, abgeschlossen |-> @.abgeschlossen \/ alle]]
  /\ UNCHANGED <<dUmfang, dWorker, tag, pilot, drohne, einsatzU, besatzung, bewegung, ereignis,
                 aufnahme, hand, absturz>>

\* nachflug_checkliste_anlegen: if none is there.
NachflugLesen(w, f) ==
  /\ Wartet(w) /\ Vorgang("liste") /\ flug[f] # None /\ flug[f].nachflug = 0
  /\ hand' = [hand EXCEPT ![w] = [art |-> "nachflug", flug |-> f]]
  /\ UNCHANGED <<dUmfang, dWorker, tag, pilot, drohne, einsatzU, besatzung, flug, bewegung,
                 ereignis, aufnahme, absturz>>

NachflugSchreiben(w) ==
  /\ hand[w] # None /\ hand[w].art = "nachflug"
  /\ flug' = [flug EXCEPT ![hand[w].flug].nachflug = @ + 1]
  /\ hand' = [hand EXCEPT ![w] = None]
  /\ UNCHANGED <<dUmfang, dWorker, tag, pilot, drohne, einsatzU, besatzung, bewegung, ereignis,
                 aufnahme, absturz>>

-----------------------------------------------------------------------------
(* Accidents and recordings *)

Stufen == {"stuetzpunktleiter", "behoerde_acg"}

\* ereignis_neu_save: an accident marks its flight, also a closed one.
EreignisNeu(w, f, typ) ==
  /\ Wartet(w) /\ Vorgang("ereignis") /\ flug[f] # None /\ ereignis = None
  /\ ereignis' = [flug |-> f, typ |-> typ, gemeldet |-> {}]
  /\ flug' = [flug EXCEPT ![f].unfall = @ \/ typ = "unfall"]
  /\ UNCHANGED <<dUmfang, dWorker, tag, pilot, drohne, einsatzU, besatzung, bewegung, aufnahme,
                 hand, absturz>>

\* meldekette_update: the whole chain is read and written back.
MeldeketteLesen(w, stufe) ==
  /\ Wartet(w) /\ ereignis # None
  /\ hand' = [hand EXCEPT ![w] =
       [art |-> "melden", gemeldet |-> ereignis.gemeldet, stufe |-> stufe]]
  /\ UNCHANGED <<dUmfang, dWorker, tag, pilot, drohne, einsatzU, besatzung, flug, bewegung,
                 ereignis, aufnahme, absturz>>

MeldeketteSchreiben(w) ==
  /\ hand[w] # None /\ hand[w].art = "melden"
  /\ ereignis' = [ereignis EXCEPT !.gemeldet = hand[w].gemeldet \cup {hand[w].stufe}]
  /\ hand' = [hand EXCEPT ![w] = None]
  /\ UNCHANGED <<dUmfang, dWorker, tag, pilot, drohne, einsatzU, besatzung, flug, bewegung,
                 aufnahme, absturz>>

\* flug_medien_hinzufuegen, uas_medien_loeschen (row and file),
\* medien_status_aendern (the row only: "geloescht" leaves the file)
MedienHinzufuegen(w, f) ==
  /\ Wartet(w) /\ Vorgang("medien") /\ flug[f] # None /\ aufnahme[f] = None
  /\ aufnahme' = [aufnahme EXCEPT ![f] = "erfasst"]
  /\ UNCHANGED <<dUmfang, dWorker, tag, pilot, drohne, einsatzU, besatzung, flug, bewegung,
                 ereignis, hand, absturz>>

MedienLoeschen(w, f) ==
  /\ Wartet(w) /\ aufnahme[f] # None
  /\ aufnahme' = [aufnahme EXCEPT ![f] = None]
  /\ UNCHANGED <<dUmfang, dWorker, tag, pilot, drohne, einsatzU, besatzung, flug, bewegung,
                 ereignis, hand, absturz>>

MedienStatusAendern(w, f, dsgvo_status) ==
  /\ Wartet(w) /\ aufnahme[f] # None
  /\ aufnahme' = [aufnahme EXCEPT ![f] = dsgvo_status]
  /\ UNCHANGED <<dUmfang, dWorker, tag, pilot, drohne, einsatzU, besatzung, flug, bewegung,
                 ereignis, hand, absturz>>

DrohnenTagVergeht ==
  /\ tag < dUmfang.tage
  /\ tag' = tag + 1
  /\ UNCHANGED <<dUmfang, dWorker, pilot, drohne, einsatzU, besatzung, flug, bewegung, ereignis,
                 aufnahme, hand, absturz>>

-----------------------------------------------------------------------------

DrohnenInit ==
  /\ dUmfang \in DrohnenUmfaenge /\ dWorker = dUmfang.worker
  /\ tag = 0
  /\ pilot = [p \in Piloten |-> [papiere |-> TRUE, ablauf |-> 2, aktiv |-> TRUE]]
  /\ drohne = [g \in Drohnen |-> [papiere |-> TRUE, status |-> "aktiv", wartungen |-> {}]]
  /\ einsatzU = None
  /\ besatzung = [n \in ListenEintraege |-> None]
  /\ flug = [f \in Fluege |-> None]
  /\ bewegung = {} /\ ereignis = None
  /\ aufnahme = [f \in Fluege |-> None]
  /\ hand = [w \in Workers |-> None]
  /\ absturz = {}

Register(w) ==
  \/ \E p \in Piloten :
       \/ \E papiere, aktiv \in BOOLEAN, ablauf \in {tag + 1, tag + 2} :
            PilotBearbeiten(w, p, papiere, ablauf, aktiv)
       \/ pilot[p].aktiv /\ FlugbewegungEintragen(w, p)
  \/ \E g \in Drohnen :
       \/ \E papiere \in BOOLEAN, status \in {"aktiv", "wartung", "ausgemustert"} :
            GeraetBearbeiten(w, g, papiere, status)
       \/ \E ergebnis \in {"io", "nio"} : WartungNeu(w, g, ergebnis)

UasEinsatz(w) ==
  \/ EinsatzStarten(w)
  \/ \E n \in ListenEintraege :
       \/ RolleLoeschen(w, n)
       \/ \E rolle \in {"pilot", "luftraumbeobachter"}, p \in Piloten \cup {None},
             begruendung \in BOOLEAN : RolleHinzufuegen(w, n, rolle, p, begruendung)
  \/ \E neu \in EinsatzStatus : EinsatzStatusAendern(w, neu)

Flugbuch(w) ==
  \/ \E p \in {p \in Piloten : pilot[p].aktiv} \cup {None},
        g \in {g \in Drohnen : drohne[g].status = "aktiv"} : FlugNeuLesen(w, p, g)
  \/ \E f \in dUmfang.fluege :
       \/ \E dauer \in {None, 1} : AbschlussLesen(w, f, dauer)
       \/ \E alle \in BOOLEAN : ChecklisteSpeichern(w, f, alle)
       \/ NachflugLesen(w, f)
       \/ \E typ \in {"unfall", "stoerung"} : EreignisNeu(w, f, typ)
       \/ MedienHinzufuegen(w, f) \/ MedienLoeschen(w, f)
       \/ \E s \in {"erfasst", "begruendet", "zur_loeschung", "geloescht"} :
            MedienStatusAendern(w, f, s)
  \/ \E stufe \in Stufen : MeldeketteLesen(w, stufe)

DrohnenSchreiben(w) ==
  \/ \E f \in dUmfang.fluege : FlugNeuSchreiben(w, f)
  \/ AbschlussSchreiben(w) \/ BewegungSchreiben(w) \/ NachflugSchreiben(w)
  \/ MeldeketteSchreiben(w)

DrohnenNext ==
  \/ \E w \in Workers : Register(w) \/ UasEinsatz(w) \/ Flugbuch(w) \/ DrohnenSchreiben(w)
                        \/ DrohnenWorkerStirbt(w)
  \/ DrohnenTagVergeht

DrohnenSpec == DrohnenInit /\ [][DrohnenNext]_drohnenVars

-----------------------------------------------------------------------------
(* Properties *)

DrohnenTypeOK ==
  /\ \A f \in DrohneAngelegt : flug[f].lfd \in 1..Cardinality(Fluege) /\ einsatzU # None
  /\ \A b \in bewegung : b.pilot \in Piloten /\ (b.flug # None => flug[b.flug] # None)
  /\ \A w \in Workers : hand[w] # None => w \in dWorker

EinDrohnenWorker == \E w \in Workers : dWorker = {w}

\* flug_neu_save: while no transactions overlap the flights of an operation are numbered 1, 2, ...
FluegeDurchnummeriert ==
  EinDrohnenWorker => {flug[f].lfd : f \in DrohneAngelegt} = 1..Cardinality(DrohneAngelegt)

\* flug_abschliessen, inhalt_hash: while no transactions overlap the hash of a closed
\* flight is that of the row as it stands, whatever is entered about it later. (Of two
\* that close it at once, the one without a duration leaves the duration of the other.)
AuditHashStimmt ==
  EinDrohnenWorker =>
    \A f \in DrohneAngelegt : flug[f].status = "abgeschlossen" =>
      flug[f].inhalt_hash = <<flug[f].tag, flug[f].pilot, flug[f].geraet, flug[f].dauer>>

\* A pilot who is cleared flew the flights the rule asks for: closed flights or
\* movements entered by hand, none counted twice.
GezaehltesIstGeflogen ==
  EinDrohnenWorker =>
    \A p \in Piloten : Freigabe(p) # "rot" =>
      Cardinality({f \in DrohneAngelegt : /\ flug[f].pilot = p /\ flug[f].status = "abgeschlossen"
                                    /\ flug[f].tag >= tag - CURRENCY_DAYS})
        + Cardinality({b \in Aktuelle(p) : b.flug = None}) >= CURRENCY_MINCOUNT

\* Every closed flight counts for its pilot, unless the worker died between the
\* two commits or is still at it.
GeflogenesZaehlt ==
  \A f \in DrohneAngelegt :
    (flug[f].status = "abgeschlossen" /\ flug[f].pilot # None) =>
      \/ f \in absturz
      \/ \E w \in Workers : hand[w] = [art |-> "bewegung", flug |-> f]
      \/ \E b \in bewegung : b.flug = f /\ b.pilot = flug[f].pilot

\* wartung_neu_save, device_einsatzbereit: a device found defective once is never
\* ready again, whatever is entered afterwards; no entry closes a defect.
MangelSperrt ==
  [][\A g \in Drohnen :
       (\E e \in drohne[g].wartungen : e.ergebnis = "nio") => ~Einsatzbereit(g)']_drohnenVars

\* What the drone log promises: flights numbered, unaltered and counted once, and no
\* defective device that is ready.
DrohnenVersprechen ==
  /\ []DrohnenTypeOK
  /\ []FluegeDurchnummeriert
  /\ []AuditHashStimmt
  /\ []GezaehltesIstGeflogen
  /\ []GeflogenesZaehlt
  /\ MangelSperrt
=============================================================================
