------------------------------- MODULE Termine -------------------------------
(***************************************************************************)
(* Appointments (exercises, events) and the list of those who took part.   *)
(* A list belongs to a kind and a number, without a foreign key: what kind *)
(* an appointment has when its page is drawn decides which list the page   *)
(* works on.                                                               *)
(*                                                                         *)
(* Source: app/routers/ui_termin.py, app/models/teilnahme.py.              *)
(*                                                                         *)
(* One appointment. Free-text entries, which nothing makes unique, and     *)
(* vehicle and note of an entry are left out.                              *)
(***************************************************************************)
EXTENDS Basis, Naturals, FiniteSets

CONSTANTS
  Mitglieder,
  TerminUmfaenge,   \* bounds: workers, members, whether functions exist and
                    \* whether the fields of an entry are used
  MaxAenderungen    \* bound: changes of the appointment and of entries

ASSUME TerminAssumption ==
  TerminUmfaenge \subseteq [worker : SUBSET Workers, mitglieder : SUBSET Mitglieder,
                            funktionen : BOOLEAN, felder : BOOLEAN]

VARIABLES
  teUmfang,
  termin,        \* Termin.typ, or "weg"
  teilnahmen,    \* rows of teilnahme
  terminSeite,   \* the kind on the page a browser holds, or None
  angebot,       \* the functions that page offers
  teTx,          \* per worker: what it has read and not committed yet
  typwechsel,    \* history: the kind was changed
  aenderungen    \* bound

terminVars == <<teUmfang, termin, teilnahmen, terminSeite, angebot, teTx, typwechsel, aenderungen>>
terminZeilen == <<teUmfang, termin, terminSeite, angebot, typwechsel>>

Typen == {"uebung", "veranstaltung"}

Liste(typ) == {t \in teilnahmen : t.typ = typ}
Eingetragene(typ) == {t.mitglied : t \in Liste(typ)}
NochEineAenderung == aenderungen < MaxAenderungen /\ aenderungen' = aenderungen + 1

\* teilnahme_hinzufuegen: "teilgenommen", "entschuldigt" or neither.
Eintrag(typ, m, status) ==
  [typ |-> typ, mitglied |-> m, ausgerueckt |-> status = "teilgenommen",
   entschuldigt |-> status = "entschuldigt", funktion |-> None]

-----------------------------------------------------------------------------
(* The appointment *)

\* _load_funktionen: functions made by the request itself are rolled back at its end;
\* only those the migration made for the organisation exist afterwards.
Angeboten == IF teUmfang.funktionen THEN "bestehende" ELSE "verworfene"

\* termin_detail
TerminDetail ==
  /\ termin # "weg"
  /\ terminSeite' = termin /\ angebot' = Angeboten
  /\ UNCHANGED <<teUmfang, termin, teilnahmen, teTx, typwechsel, aenderungen>>

\* termin_speichern: the list stays with the old kind.
TerminSpeichern(typ) ==
  /\ NochEineAenderung /\ termin \in Typen \ {typ}
  /\ termin' = typ /\ typwechsel' = TRUE
  /\ UNCHANGED <<teUmfang, teilnahmen, terminSeite, angebot, teTx>>

RestNachLoeschen(typ) == teilnahmen \ Liste(typ)

\* termin_loeschen
TerminEntfernen ==
  /\ NochEineAenderung /\ termin # "weg"
  /\ teilnahmen' = RestNachLoeschen(termin)
  /\ termin' = "weg"
  /\ UNCHANGED <<teUmfang, terminSeite, angebot, teTx, typwechsel>>

-----------------------------------------------------------------------------
(* The list *)

\* teilnahme_auswahl, teilnahme_hinzufuegen: a page posts members to the list of the
\* kind it was drawn for; the appointment itself is not looked at.
HinzufuegenLesen(w, M, status) ==
  /\ w \in teUmfang.worker /\ teTx[w] = None /\ terminSeite # None
  /\ teUmfang.felder \/ status = ""
  /\ M # {} /\ M \subseteq teUmfang.mitglieder
  /\ teTx' = [teTx EXCEPT ![w] =
                [neu |-> {Eintrag(terminSeite, m, status) : m \in M \ Eingetragene(terminSeite)}]]
  /\ UNCHANGED <<teilnahmen, aenderungen, terminZeilen>>

\* uq_teilnahme_mitglied: somebody else entered one of them meanwhile.
Verletzt(neu) == \E n \in neu, t \in teilnahmen : n.typ = t.typ /\ n.mitglied = t.mitglied

\* Mutant: those are entered that can be.
NurWerGeht(neu) == {n \in neu : ~Verletzt({n})}

\* One transaction: all of them or, with an error, none.
Aufgenommen(neu) == IF Verletzt(neu) THEN {} ELSE neu

HinzufuegenSchreiben(w) ==
  /\ teTx[w] # None
  /\ teilnahmen' = teilnahmen \cup Aufgenommen(teTx[w].neu)
  /\ teTx' = [teTx EXCEPT ![w] = None]
  /\ UNCHANGED <<aenderungen, terminZeilen>>

\* teilnahme_bearbeiten: one field of an entry.
Bearbeiten(t, neu) ==
  /\ teUmfang.felder /\ NochEineAenderung
  /\ neu \in {[t EXCEPT !.ausgerueckt = ~@], [t EXCEPT !.entschuldigt = ~@]}
  /\ teilnahmen' = (teilnahmen \ {t}) \cup {neu}
  /\ UNCHANGED <<teTx, terminZeilen>>

\* The same with a function the page offers; the foreign key refuses one that was
\* rolled back.
FunktionWaehlen(t) ==
  /\ NochEineAenderung /\ angebot = "bestehende" /\ t.funktion = None
  /\ teilnahmen' = (teilnahmen \ {t}) \cup {[t EXCEPT !.funktion = angebot]}
  /\ UNCHANGED <<teTx, terminZeilen>>

\* teilnahme_entfernen; deleting the member does the same.
Entfernen(t) ==
  /\ NochEineAenderung /\ teilnahmen' = teilnahmen \ {t}
  /\ UNCHANGED <<teTx, terminZeilen>>

-----------------------------------------------------------------------------

TerminInit ==
  /\ teUmfang \in TerminUmfaenge
  /\ termin \in Typen
  /\ teilnahmen = {}
  /\ terminSeite = None /\ angebot = None
  /\ teTx = [w \in Workers |-> None]
  /\ typwechsel = FALSE /\ aenderungen = 0

TerminNext ==
  \/ TerminDetail \/ TerminEntfernen \/ \E typ \in Typen : TerminSpeichern(typ)
  \/ \E w \in Workers :
       \/ HinzufuegenSchreiben(w)
       \/ \E M \in SUBSET Mitglieder, s \in {"teilgenommen", "entschuldigt", ""} :
            HinzufuegenLesen(w, M, s)
  \/ \E t \in teilnahmen :
       \/ FunktionWaehlen(t) \/ Entfernen(t)
       \/ \E a, e \in BOOLEAN : Bearbeiten(t, [t EXCEPT !.ausgerueckt = a, !.entschuldigt = e])

TerminSpec == TerminInit /\ [][TerminNext]_terminVars

-----------------------------------------------------------------------------
(* Properties *)

TerminTypeOK ==
  /\ termin \in Typen \cup {"weg"}
  /\ terminSeite \in Typen \cup {None}
  /\ \A t \in teilnahmen :
       t.typ \in Typen /\ t.mitglied \in Mitglieder /\ t.funktion \in {None, "bestehende"}

\* Whoever is on a list is on it once, whatever two workers enter at once.
EinmalAufDerListe ==
  \A s, t \in teilnahmen : s.typ = t.typ /\ s.mitglied = t.mitglied => s = t

\* An entry the page of the appointment does not show, or one of an appointment that
\* is gone, was left by a change of the kind; without one every entry is shown or
\* deleted, except what an old page enters after the deletion.
VersteckteNurNachWechsel ==
  (termin # "weg" /\ ~typwechsel) => teilnahmen = Liste(termin)

\* A list can be entered in one go: when somebody else was faster with one member, the
\* whole request fails and none of the others is entered silently.
GanzOderGarNicht ==
  [][\A w \in Workers :
       (teTx[w] # None /\ teTx'[w] = None /\ teilnahmen' # teilnahmen) =>
         teilnahmen' \ teilnahmen = teTx[w].neu]_terminVars

\* What a deletion leaves: nothing, unless the kind was changed before.
LoeschenRaeumtAuf ==
  [][(termin # "weg" /\ termin' = "weg" /\ ~typwechsel) => teilnahmen' = {}]_terminVars

\* What the list of those who took part promises.
TerminVersprechen ==
  /\ []TerminTypeOK
  /\ []EinmalAufDerListe
  /\ []VersteckteNurNachWechsel
  /\ GanzOderGarNicht
  /\ LoeschenRaeumtAuf
=============================================================================
