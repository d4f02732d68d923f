--------------------------- MODULE Geraetepruefung ---------------------------
(***************************************************************************)
(* Inspection of breathing apparatus after use: a page behind a link that  *)
(* hangs in the store room, a protocol per apparatus, and the message to   *)
(* the warden about what is not in order.                                  *)
(*                                                                         *)
(* Source: app/routers/ui_atemschutz_pruefung.py,                          *)
(* app/routers/ui_atemschutz_pruefung_admin.py,                            *)
(* app/services/atemschutz_pruefung_service.py,                            *)
(* app/models/atemschutz_pruefung.py.                                      *)
(*                                                                         *)
(* One organisation. A protocol's bearer, place and texts are left out;    *)
(* its readings are those of Messungen. Sheets and PDFs only read.         *)
(***************************************************************************)
EXTENDS Basis, Naturals, FiniteSets

CONSTANTS
  PruefGeraete,      \* the apparatus of the organisation
  Tage,              \* days of use
  Messungen,         \* what a page may send
  MaxProtokolle, MaxVerwaltung, MaxPruefAbbruch,  \* bounds
  FLASCHENDRUCK_MIN_BAR, HOCHDRUCK_DICHTPRUEFUNG_MAX_BAR_MIN,
  WARNSIGNAL_MIN_BAR, WARNSIGNAL_MAX_BAR

ASSUME PruefAssumption == Tage \subseteq Nat /\ MaxProtokolle \in Nat

VARIABLES
  pruefLink,     \* number of the current token, 0: none
  pruefModul,    \* atemschutz_pruefung_modul_aktiv
  wart,          \* channels that are configured
  pruefSeite,    \* token of the page a browser holds, or None
  protokolle,    \* rows of atemschutz_pruefung
  benachrichtigt,  \* rows of atemschutz_pruef_benachrichtigung
  defektTask,    \* per protocol: its background task, the channels it began with
  einsatzDa,     \* the incident the protocols may name exists
  verwaltung, pruefAbbrueche   \* bounds

pruefVars == <<pruefLink, pruefModul, wart, pruefSeite, protokolle, benachrichtigt,
               defektTask, einsatzDa, verwaltung, pruefAbbrueche>>
pruefEinstellungen == <<pruefLink, pruefModul, wart>>

PruefKanaele == {"mail", "teams"}

\* geraet_speichern: the box "in service" is sent only when it is ticked and counts as
\* ticked when it is missing: no apparatus is ever put out of service.
AktiveGeraete == PruefGeraete
KeinTask == [stand |-> "keiner", beginn |-> {}, kanaele |-> {}, ergebnis |-> {}]

-----------------------------------------------------------------------------
(* A protocol *)

\* flaschendruck_ok, hochdruckpruefung_ok, warnsignal_ok; a page's values are cut to
\* whole numbers before.
FlaschendruckOk(m) == m.flasche >= FLASCHENDRUCK_MIN_BAR
HochdruckOk(m) == m.abfall <= HOCHDRUCK_DICHTPRUEFUNG_MAX_BAR_MIN
WarnsignalOk(m) == m.signal \in WARNSIGNAL_MIN_BAR..WARNSIGNAL_MAX_BAR

\* alles_ok
AllesOk(m) == FlaschendruckOk(m) /\ m.sicht /\ HochdruckOk(m) /\ WarnsignalOk(m) /\ m.bereit

Von(g) == {p \in protokolle : p.geraet = g}

\* Mutant: the last protocol that was entered.
LetzteEingetragene(g) ==
  IF Von(g) = {} THEN None
  ELSE CHOOSE p \in Von(g) : \A q \in Von(g) : q.id <= p.id

\* pruefung_geraete_uebersicht: the newest by day of use, then by number.
LetztePruefung(g) ==
  IF Von(g) = {} THEN None
  ELSE CHOOSE p \in Von(g) :
         \A q \in Von(g) : q.tag < p.tag \/ (q.tag = p.tag /\ q.id <= p.id)

\* What the overview shows for an apparatus.
Anzeige(g) ==
  LET p == LetztePruefung(g)
  IN  IF p = None THEN "ungeprueft" ELSE IF AllesOk(p.messung) THEN "ok" ELSE "defekt"

-----------------------------------------------------------------------------
(* Pages *)

\* pruefung_formular; the list of apparatus is that of the organisation.
FormularOeffnen ==
  /\ pruefLink # 0 /\ pruefModul
  /\ pruefSeite' = pruefLink
  /\ UNCHANGED <<protokolle, benachrichtigt, defektTask, einsatzDa, verwaltung,
                 pruefAbbrueche, pruefEinstellungen>>

\* pruefung_speichern, from the page or by a user: what is out of order needs a text,
\* which is not checked further; the module's switch and the state of the apparatus
\* are not looked at. The page may be sent again.
ProtokollSpeichern(g, t, m, info) ==
  /\ Cardinality(protokolle) < MaxProtokolle
  /\ pruefSeite # None /\ pruefSeite = pruefLink
  /\ AllesOk(m) \/ info
  /\ LET n == Cardinality(protokolle) + 1
     IN  /\ protokolle' = protokolle \cup
              {[id |-> n, geraet |-> g, tag |-> t, messung |-> m,
                einsatz |-> einsatzDa]}
         /\ defektTask' = IF AllesOk(m) THEN defektTask
                          ELSE [defektTask EXCEPT ![n].stand = "offen"]
  /\ UNCHANGED <<pruefSeite, benachrichtigt, einsatzDa, verwaltung, pruefAbbrueche, pruefEinstellungen>>

-----------------------------------------------------------------------------
(* The message to the warden: melde_defekt_background *)

\* The settings are read when the task begins; without a channel it ends at once.
MeldungBeginnen(n) ==
  /\ defektTask[n].stand = "offen"
  /\ defektTask' = [defektTask EXCEPT ![n] =
       [stand |-> IF wart = {} THEN "fertig" ELSE "laeuft", beginn |-> wart,
        kanaele |-> wart, ergebnis |-> {}]]
  /\ UNCHANGED <<protokolle, benachrichtigt, pruefSeite, einsatzDa, verwaltung, pruefAbbrueche,
                 pruefEinstellungen>>

NachKanal(t, k, ok) ==
  [t EXCEPT !.ergebnis = @ \cup {[kanal |-> k, ok |-> ok]}, !.kanaele = @ \ {k}]

\* First the mail, then Teams; a failure is one of the results.
KanalMelden(n, ok) ==
  /\ defektTask[n].stand = "laeuft" /\ defektTask[n].kanaele # {}
  /\ LET k == IF "mail" \in defektTask[n].kanaele THEN "mail" ELSE "teams"
     IN  defektTask' = [defektTask EXCEPT ![n] = NachKanal(@, k, ok)]
  /\ UNCHANGED <<protokolle, benachrichtigt, pruefSeite, einsatzDa, verwaltung, pruefAbbrueche,
                 pruefEinstellungen>>

\* The one commit at the end.
MeldungFestschreiben(n) ==
  /\ defektTask[n].stand = "laeuft" /\ defektTask[n].kanaele = {}
  /\ benachrichtigt' = benachrichtigt \cup
       {[protokoll |-> n, kanal |-> e.kanal, ok |-> e.ok] : e \in defektTask[n].ergebnis}
  /\ defektTask' = [defektTask EXCEPT ![n].stand = "fertig"]
  /\ UNCHANGED <<protokolle, pruefSeite, einsatzDa, verwaltung, pruefAbbrueche, pruefEinstellungen>>

\* The worker ends: a task that waits or runs is lost, with what it would have noted.
MeldungAbbrechen(n) ==
  /\ pruefAbbrueche < MaxPruefAbbruch /\ pruefAbbrueche' = pruefAbbrueche + 1
  /\ defektTask[n].stand \in {"offen", "laeuft"}
  /\ defektTask' = [defektTask EXCEPT ![n].stand = "verloren"]
  /\ UNCHANGED <<protokolle, benachrichtigt, pruefSeite, einsatzDa, verwaltung, pruefEinstellungen>>

-----------------------------------------------------------------------------
(* Administration *)

Verwalten == verwaltung < MaxVerwaltung /\ verwaltung' = verwaltung + 1

\* token_generieren: the pages of the old link no longer work.
TokenGenerieren ==
  /\ Verwalten /\ pruefLink' = pruefLink + 1
  /\ UNCHANGED <<pruefModul, wart, pruefSeite, protokolle, benachrichtigt, defektTask,
                 einsatzDa, pruefAbbrueche>>

\* einstellungen_speichern
PruefEinstellungSpeichern(k) ==
  /\ Verwalten /\ wart' = k
  /\ UNCHANGED <<pruefLink, pruefModul, pruefSeite, protokolle, benachrichtigt, defektTask,
                 einsatzDa, pruefAbbrueche>>

\* The module's switch on the page of the settings.
PruefModulSchalten ==
  /\ Verwalten /\ pruefModul' = ~pruefModul
  /\ UNCHANGED <<pruefLink, wart, pruefSeite, protokolle, benachrichtigt, defektTask,
                 einsatzDa, pruefAbbrueche>>

\* The incident is deleted: its protocols stay and name none.
EinsatzGeloescht ==
  /\ Verwalten /\ einsatzDa
  /\ einsatzDa' = FALSE
  /\ protokolle' = {[p EXCEPT !.einsatz = FALSE] : p \in protokolle}
  /\ UNCHANGED <<pruefSeite, benachrichtigt, defektTask, pruefAbbrueche, pruefEinstellungen>>

-----------------------------------------------------------------------------

PruefInit ==
  /\ pruefLink = 1 /\ pruefModul = TRUE /\ wart = PruefKanaele
  /\ pruefSeite = None
  /\ protokolle = {} /\ benachrichtigt = {}
  /\ defektTask = [n \in 1..MaxProtokolle |-> KeinTask]
  /\ einsatzDa = TRUE
  /\ verwaltung = 0 /\ pruefAbbrueche = 0

DefektMelden(n) ==
  \/ MeldungBeginnen(n)
  \/ \E ok \in BOOLEAN : KanalMelden(n, ok)
  \/ MeldungFestschreiben(n)

PruefNext ==
  \/ FormularOeffnen \/ TokenGenerieren \/ EinsatzGeloescht
  \/ \E g \in AktiveGeraete, t \in Tage, m \in Messungen, i \in BOOLEAN :
       ProtokollSpeichern(g, t, m, i)
  \/ \E n \in 1..MaxProtokolle : DefektMelden(n) \/ MeldungAbbrechen(n)
  \/ PruefModulSchalten \/ \E k \in SUBSET PruefKanaele : PruefEinstellungSpeichern(k)

PruefSpec == PruefInit /\ [][PruefNext]_pruefVars

-----------------------------------------------------------------------------
(* Properties *)

PruefTypeOK ==
  /\ pruefLink \in Nat /\ wart \subseteq PruefKanaele
  /\ {p.id : p \in protokolle} = 1..Cardinality(protokolle)
  /\ \A n \in DOMAIN defektTask :
       defektTask[n].stand \in {"keiner", "offen", "laeuft", "fertig", "verloren"}

\* pruefung_geraete_uebersicht: an apparatus whose last use left something out of order
\* is shown as such, also when the protocol of an earlier day is entered afterwards;
\* only a good protocol of that day or a later one takes it away.
MangelBleibtSichtbar ==
  \A p \in protokolle :
    (~AllesOk(p.messung) /\ Anzeige(p.geraet) = "ok") =>
      \E q \in Von(p.geraet) :
        AllesOk(q.messung) /\ (q.tag > p.tag \/ (q.tag = p.tag /\ q.id > p.id))

\* melde_defekt: a message that ended has noted every channel that was configured, the
\* ones that failed too; what is in order is never reported.
JederKanalVermerkt ==
  \A p \in protokolle :
    LET t == defektTask[p.id]
        vermerkt == {b \in benachrichtigt : b.protokoll = p.id}
    IN  /\ AllesOk(p.messung) => vermerkt = {} /\ t.stand = "keiner"
        /\ t.stand = "fertig" => {[kanal |-> b.kanal, ok |-> b.ok] : b \in vermerkt} = t.ergebnis
        /\ t.stand # "fertig" => vermerkt = {}
        /\ Cardinality(vermerkt) = Cardinality({b.kanal : b \in vermerkt})

\* Mail and Teams are independent: whichever was configured when the message began was
\* tried, whatever the other one did.
BeideVersucht ==
  \A n \in DOMAIN defektTask :
    defektTask[n].stand = "fertig" =>
      {e.kanal : e \in defektTask[n].ergebnis} = defektTask[n].beginn

\* What the inspection promises.
PruefVersprechen ==
  /\ PruefTypeOK
  /\ MangelBleibtSichtbar
  /\ JederKanalVermerkt
  /\ BeideVersucht
=============================================================================
