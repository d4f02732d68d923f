---------------------------- MODULE Einsatzboard ----------------------------
(***************************************************************************)
(* The board of one incident: its columns, the cards in them (vehicles,    *)
(* tasks, messages, rescued persons), the order in which a column shows    *)
(* them, and the status of units, tasks and messages.                      *)
(*                                                                         *)
(* Source: app/services/incident_service.py, app/routers/ui_incident.py,   *)
(* app/models/incident.py, ordered_col_items in app/core/templating.py and *)
(* the drag and drop of app/static/js/sortable-glue.js.                    *)
(*                                                                         *)
(* A column stores the order of its cards as a list (card_order). A drag   *)
(* replaces it by the whole list the browser shows, which may be old and   *)
(* holds the cards inside a vehicle's card as well. Every handler is one   *)
(* transaction of an event loop. display_order, which orders cards of one  *)
(* kind while a column has no card_order, is the order of the constants.   *)
(* Left out: the column of the neighbouring brigades, which treats units   *)
(* as a section does.                                                      *)
(***************************************************************************)
EXTENDS Basis, Naturals, Sequences, FiniteSets, SequencesExt

CONSTANTS
  Fahrzeuge, Auftraege, Meldungen, Personen,  \* ids of the cards
  Folge,       \* all of them: vehicles, tasks, messages, persons
  Umfaenge,    \* bounds: the cards of one incident, the columns they are put
               \* into, and those an old page shows
  MaxListe     \* bound: the length of a list a page sends

ASSUME KartenAssumption ==
  /\ Fahrzeuge \cap Auftraege = {} /\ Fahrzeuge \cap Meldungen = {}
  /\ Auftraege \cap Meldungen = {} /\ Personen \cap Fahrzeuge = {}
  /\ Personen \cap (Auftraege \cup Meldungen) = {}

FesteSpalten == {"dispatched", "active", "tasks", "messages", "rescued"}

Spalten == FesteSpalten \cup {"section"}

FahrzeugSpalten == {"dispatched", "active", "section"}

FahrzeugZeilen == [spalte : FahrzeugSpalten, status : {"uebernommen", "vorort", "bereit"}]

AuftragZeilen ==
  [spalte : Spalten \cup {None}, fzg : Fahrzeuge \cup {None},
   status : {"open", "in_progress", "done", "cancelled"}, done : BOOLEAN, storniert : BOOLEAN]

MeldungZeilen ==
  [spalte : Spalten, fzg : Fahrzeuge \cup {None}, done : BOOLEAN, storniert : BOOLEAN]

PersonZeilen == [fzg : Fahrzeuge \cup {None}]

ASSUME BoardNoneAssumption ==
  /\ None \notin Fahrzeuge /\ None \notin Spalten /\ None \notin FahrzeugZeilen
  /\ None \notin AuftragZeilen /\ None \notin MeldungZeilen /\ None \notin PersonZeilen

VARIABLES
  umfang,      \* the bounds of this incident
  abschnitt,   \* does the section column exist
  fzg,         \* incident_vehicle: column and unit status
  auftrag,     \* task: column, vehicle, status and its two flags
  meldung,     \* message: column, vehicle and its two flags
  person,      \* rescued_person: vehicle, None: not entered
  reihung,     \* card_order of each column, None: not stored yet
  ansicht      \* a browser that missed the last events: one column of its page

boardVars == <<umfang, abschnitt, fzg, auftrag, meldung, person, reihung, ansicht>>

Karten == Fahrzeuge \cup Auftraege \cup Meldungen \cup Personen

Existiert(c) == c \in FesteSpalten \/ abschnitt

-----------------------------------------------------------------------------
(* What a column holds and shows *)

\* The cards a template finds in a column; persons are all in one.
InSpalte(c) ==
  {v \in Fahrzeuge : fzg[v] # None /\ fzg[v].spalte = c}
    \cup {t \in Auftraege : auftrag[t] # None /\ auftrag[t].spalte = c}
    \cup {m \in Meldungen : meldung[m] # None /\ meldung[m].spalte = c}
    \cup (IF c = "rescued" THEN {p \in Personen : person[p] # None} ELSE {})

Standard(S) == SelectSeq(Folge, LAMBDA k : k \in S)

\* _ordered_col_items: stored cards that are still here, new ones on top.
Angezeigt(c) ==
  LET hier == InSpalte(c)
  IN  IF reihung[c] = None THEN Standard(hier)
      ELSE Reverse(Standard(hier \ ToSet(reihung[c])))
             \o SelectSeq(reihung[c], LAMBDA k : k \in hier)

\* The small cards inside the card of a vehicle; cancelled ones are hidden.
AmFahrzeug(v) ==
  {t \in Auftraege : auftrag[t] # None /\ auftrag[t].fzg = v /\ ~auftrag[t].storniert}
    \cup {m \in Meldungen : meldung[m] # None /\ meldung[m].fzg = v /\ ~meldung[m].storniert}
    \cup {p \in Personen : person[p] # None /\ person[p].fzg = v}

\* A column of the page: each card with the cards inside it.
Bloecke(c) ==
  LET liste == Angezeigt(c)
  IN  [i \in DOMAIN liste |->
         <<liste[i]>> \o (IF liste[i] \in Fahrzeuge THEN Standard(AmFahrzeug(liste[i]))
                          ELSE <<>>)]

\* onEnd: the list the page sends after card k was dropped into the column:
\* its element leaves the place it was taken from and enters another one.
Zonen(bloecke, k) ==
  LET hier  == {i \in DOMAIN bloecke : bloecke[i][1] = k}
      karte == IF hier # {} THEN bloecke[CHOOSE i \in hier : TRUE]
               ELSE <<k>> \o (IF k \in Fahrzeuge THEN Standard(AmFahrzeug(k)) ELSE <<>>)
      herausgenommen == {RemoveAt(bloecke, i) : i \in hier}
      vomFahrzeug == [i \in DOMAIN bloecke |->
                        <<bloecke[i][1]>> \o Remove(Tail(bloecke[i]), k)]
      ohne  == herausgenommen
                 \cup (IF vomFahrzeug # bloecke \/ hier = {} THEN {vomFahrzeug} ELSE {})
                 \cup (IF hier = {} THEN {bloecke} ELSE {})
      alle  == UNION {{FlattenSeq(InsertAt(s, i, karte)) : i \in 1..(Len(s) + 1)} : s \in ohne}
  IN  {liste \in alle : Len(liste) <= MaxListe}

-----------------------------------------------------------------------------
(* The stored order *)

\* prepend_card; hier: what a query finds in the column, with the new card and
\* without tasks that belong to a vehicle.
Voranstellen(c, k, hier) ==
  [reihung EXCEPT ![c] =
     <<k>> \o Remove(IF @ = None THEN Standard(hier) ELSE @, k)]

\* Tasks of vehicles are counted neither by prepend_card nor by the deletion.
Abfrage(c) ==
  {k \in InSpalte(c) : k \in Auftraege => auftrag[k].fzg = None}

\* Mutant: the finished cards come first.
AbsenkenVerkehrt(c, fertig) ==
  LET liste == IF reihung[c] \in {None, <<>>} THEN Standard(Abfrage(c) \ Personen)
               ELSE reihung[c]
  IN  [reihung EXCEPT ![c] = SelectSeq(liste, LAMBDA k : k \in fertig)
                               \o SelectSeq(liste, LAMBDA k : k \notin fertig)]

\* sink_done_cards; fertig: the finished tasks without a vehicle and messages.
Absenken(c, fertig) ==
  LET liste == IF reihung[c] \in {None, <<>>} THEN Standard(Abfrage(c) \ Personen)
               ELSE reihung[c]
  IN  [reihung EXCEPT ![c] = SelectSeq(liste, LAMBDA k : k \notin fertig)
                               \o SelectSeq(liste, LAMBDA k : k \in fertig)]

\* Read after the change of a card has been flushed.
FertigeNachher(c) ==
  {t \in Auftraege : /\ auftrag'[t] # None /\ auftrag'[t].spalte = c
                     /\ auftrag'[t].fzg = None
                     /\ auftrag'[t].done \/ auftrag'[t].storniert}
    \cup {m \in Meldungen : /\ meldung'[m] # None /\ meldung'[m].spalte = c
                            /\ meldung'[m].done \/ meldung'[m].storniert}

AbsenkenFalls(bedingung, c) ==
  reihung' = IF bedingung /\ c # None THEN Absenken(c, FertigeNachher(c)) ELSE reihung

-----------------------------------------------------------------------------
(* Vehicles *)

\* attach_vehicle_to_incident: the column of the button, or "Disponiert"; a
\* vehicle that is there already is not entered again.
FahrzeugHinzufuegen(v, c) ==
  /\ v \in umfang.karten /\ fzg[v] = None
  /\ c \in FahrzeugSpalten /\ Existiert(c)
  /\ fzg' = [fzg EXCEPT ![v] = [spalte |-> c, status |-> "uebernommen"]]
  /\ reihung' = Voranstellen(c, v, Abfrage(c) \cup {v})
  /\ UNCHANGED <<umfang, abschnitt, auftrag, meldung, person, ansicht>>

\* alarm_dispatch_vehicles: those of the alarm type that are missing; the order
\* of the cards is not touched.
AlarmFahrzeuge(V) ==
  /\ V # {} /\ V \subseteq umfang.karten /\ \A v \in V : fzg[v] = None
  /\ fzg' = [v \in Fahrzeuge |->
       IF v \in V THEN [spalte |-> "dispatched", status |-> "uebernommen"] ELSE fzg[v]]
  /\ UNCHANGED <<umfang, abschnitt, auftrag, meldung, person, reihung, ansicht>>

\* move_vehicle: the selection on the card; the status stays.
FahrzeugVerschieben(v, c) ==
  /\ fzg[v] # None /\ fzg[v].spalte # c /\ Existiert(c)
  /\ fzg' = [fzg EXCEPT ![v].spalte = c]
  /\ UNCHANGED <<umfang, abschnitt, auftrag, meldung, person, reihung, ansicht>>

\* set_unit_status: on site takes a unit out of "Disponiert", not of a section.
NachStatus(v, s) ==
  IF s = "vorort" /\ fzg[v].spalte = "dispatched"
    THEN [spalte |-> "active", status |-> s]
    ELSE [fzg[v] EXCEPT !.status = s]

SetVehicleUnitStatus(v, s) ==
  /\ fzg[v] # None
  /\ fzg' = [fzg EXCEPT ![v] = NachStatus(v, s)]
  /\ UNCHANGED <<umfang, abschnitt, auftrag, meldung, person, reihung, ansicht>>

\* move_card for a vehicle: column and status follow each other.
NachSpalte(v, c) ==
  [spalte |-> c,
   status |-> IF c = "active" THEN "vorort"
              ELSE IF c = "dispatched" /\ fzg[v].status = "vorort" THEN "uebernommen"
              ELSE fzg[v].status]

-----------------------------------------------------------------------------
(* Tasks, messages, persons *)

\* create_task, add_task: in the column of the button or "tasks", and at once
\* on a vehicle when the button was on its card.
CreateTask(t, c, v) ==
  /\ t \in umfang.karten /\ auftrag[t] = None /\ Existiert(c)
  /\ (v # None => fzg[v] # None)
  /\ auftrag' = [auftrag EXCEPT ![t] =
       [spalte |-> c, fzg |-> v, status |-> "open", done |-> FALSE, storniert |-> FALSE]]
  /\ reihung' = Voranstellen(c, t, Abfrage(c) \cup (IF v = None THEN {t} ELSE {}))
  /\ UNCHANGED <<umfang, abschnitt, fzg, meldung, person, ansicht>>

\* set_task_status
MitStatus(a, s) ==
  [a EXCEPT !.status = s, !.done = (s = "done"), !.storniert = (s = "cancelled")]

\* toggle_task_done
ToggleTaskDone(t) ==
  LET neu == IF auftrag[t].done THEN "open" ELSE "done"
  IN  /\ auftrag[t] # None
      /\ auftrag' = [auftrag EXCEPT ![t] = MitStatus(@, neu)]
      /\ UNCHANGED <<umfang, abschnitt, fzg, meldung, person, ansicht>>
      /\ AbsenkenFalls(neu = "done", auftrag[t].spalte)

\* set_task_ampel
SetTaskAmpel(t, s) ==
  /\ auftrag[t] # None
  /\ auftrag' = [auftrag EXCEPT ![t] = MitStatus(@, s)]
  /\ UNCHANGED <<umfang, abschnitt, fzg, meldung, person, ansicht>>
  /\ AbsenkenFalls(s \in {"done", "cancelled"}, auftrag[t].spalte)

\* cancel_task: the flag alone, and the card stays where it is.
CancelTask(t) ==
  /\ auftrag[t] # None
  /\ auftrag' = [auftrag EXCEPT ![t].storniert = ~@]
  /\ UNCHANGED <<umfang, abschnitt, fzg, meldung, person, reihung, ansicht>>

\* assign_task, assign_task_to_vehicle: the column stays.
AssignTask(t, v) ==
  /\ auftrag[t] # None /\ (v # None => fzg[v] # None)
  /\ auftrag' = [auftrag EXCEPT ![t].fzg = v]
  /\ UNCHANGED <<umfang, abschnitt, fzg, meldung, person, reihung, ansicht>>

\* create_message; always in "messages".
CreateMessage(m, v) ==
  /\ m \in umfang.karten /\ meldung[m] = None /\ (v # None => fzg[v] # None)
  /\ meldung' = [meldung EXCEPT ![m] =
       [spalte |-> "messages", fzg |-> v, done |-> FALSE, storniert |-> FALSE]]
  /\ reihung' = Voranstellen("messages", m, Abfrage("messages") \cup {m})
  /\ UNCHANGED <<umfang, abschnitt, fzg, auftrag, person, ansicht>>

\* toggle_message
ToggleMessage(m) ==
  /\ meldung[m] # None
  /\ meldung' = [meldung EXCEPT ![m].done = ~@]
  /\ UNCHANGED <<umfang, abschnitt, fzg, auftrag, person, ansicht>>
  /\ AbsenkenFalls(~meldung[m].done, meldung[m].spalte)

\* set_message_ampel, set_message_status
SetMessageAmpel(m, s) ==
  /\ meldung[m] # None
  /\ meldung' = [meldung EXCEPT ![m].done = (s = "erledigt"),
                                ![m].storniert = (s = "storniert")]
  /\ UNCHANGED <<umfang, abschnitt, fzg, auftrag, person, ansicht>>
  /\ AbsenkenFalls(s \in {"erledigt", "storniert"}, meldung[m].spalte)

\* assign_message
AssignMessage(m, v) ==
  /\ meldung[m] # None /\ (v # None => fzg[v] # None)
  /\ meldung' = [meldung EXCEPT ![m].fzg = v]
  /\ UNCHANGED <<umfang, abschnitt, fzg, auftrag, person, reihung, ansicht>>

\* create_person
CreatePerson(p, v) ==
  /\ p \in umfang.karten /\ person[p] = None /\ (v # None => fzg[v] # None)
  /\ person' = [person EXCEPT ![p] = [fzg |-> v]]
  /\ reihung' = Voranstellen("rescued", p, Abfrage("rescued") \cup {p})
  /\ UNCHANGED <<umfang, abschnitt, fzg, auftrag, meldung, ansicht>>

\* update_person_endpoint
UpdatePerson(p, v) ==
  /\ person[p] # None /\ (v # None => fzg[v] # None)
  /\ person' = [person EXCEPT ![p].fzg = v]
  /\ UNCHANGED <<umfang, abschnitt, fzg, auftrag, meldung, reihung, ansicht>>

\* delete_person_endpoint; the stored order keeps the card. A person entered
\* again is another row: the model gives each id once.
DeletePerson(p) ==
  /\ person[p] # None
  /\ person' = [person EXCEPT ![p] = None]
  /\ umfang' = [umfang EXCEPT !.karten = @ \ {p}]
  /\ UNCHANGED <<abschnitt, fzg, auftrag, meldung, reihung, ansicht>>

\* reject_ai_suggestion: a suggested task is deleted.
RejectAiSuggestion(t) ==
  /\ auftrag[t] # None
  /\ auftrag' = [auftrag EXCEPT ![t] = None]
  /\ umfang' = [umfang EXCEPT !.karten = @ \ {t}]
  /\ UNCHANGED <<abschnitt, fzg, meldung, person, reihung, ansicht>>

-----------------------------------------------------------------------------
(* Columns, drag and drop *)

\* create_section, add_section_column
CreateSection ==
  /\ ~abschnitt
  /\ abschnitt' = TRUE
  /\ UNCHANGED <<umfang, fzg, auftrag, meldung, person, reihung, ansicht>>

\* What the deletion counts, and what the foreign key of a task's column adds:
\* with a task of a vehicle in it the deletion fails, and nothing is changed.
Leer(c) == InSpalte(c) = {}

\* delete_column_endpoint, delete_section_column
DeleteSection ==
  /\ abschnitt /\ Leer("section")
  /\ abschnitt' = FALSE
  /\ reihung' = [reihung EXCEPT !["section"] = None]
  /\ ansicht' = IF ansicht # None /\ ansicht.spalte = "section" THEN None ELSE ansicht
  /\ UNCHANGED <<umfang, fzg, auftrag, meldung, person>>

\* A page is loaded, and then misses the events of the others.
SeiteLaden(c) ==
  /\ Existiert(c)
  /\ ansicht' = [spalte |-> c, bloecke |-> Bloecke(c)]
  /\ UNCHANGED <<umfang, abschnitt, fzg, auftrag, meldung, person, reihung>>

\* move_card_endpoint, move_card: into a column, from a page as it is now or from
\* the old one; the list the page sends is stored.
KarteInSpalte(k, c, zone) ==
  /\ Existiert(c)
  /\ CASE k \in Fahrzeuge -> /\ fzg[k] # None
                             /\ fzg' = [fzg EXCEPT ![k] = NachSpalte(k, c)]
                             /\ UNCHANGED <<auftrag, meldung, person>>
       [] k \in Auftraege -> /\ auftrag[k] # None
                             /\ auftrag' = [auftrag EXCEPT ![k].spalte = c, ![k].fzg = None]
                             /\ UNCHANGED <<fzg, meldung, person>>
       [] k \in Meldungen -> /\ meldung[k] # None
                             /\ meldung' = [meldung EXCEPT ![k].spalte = c, ![k].fzg = None]
                             /\ UNCHANGED <<fzg, auftrag, person>>
       [] k \in Personen  -> /\ person[k] # None
                             /\ person' = [person EXCEPT ![k].fzg = None]
                             /\ UNCHANGED <<fzg, auftrag, meldung>>
  /\ reihung' = [reihung EXCEPT ![c] = zone]
  /\ UNCHANGED <<umfang, abschnitt>>

Ziehen(k, c) ==
  \/ /\ \E zone \in Zonen(Bloecke(c), k) : KarteInSpalte(k, c, zone)
     /\ UNCHANGED ansicht
  \/ /\ ansicht # None /\ ansicht.spalte = c
     /\ \E zone \in Zonen(ansicht.bloecke, k) : KarteInSpalte(k, c, zone)
     /\ ansicht' = None

\* move_card onto a vehicle: a task leaves its column, a message does not.
KarteAufFahrzeug(k, v) ==
  /\ fzg[v] # None
  /\ CASE k \in Auftraege -> /\ auftrag[k] # None
                             /\ auftrag' = [auftrag EXCEPT ![k].spalte = None, ![k].fzg = v]
                             /\ UNCHANGED <<meldung, person>>
       [] k \in Meldungen -> /\ meldung[k] # None
                             /\ meldung' = [meldung EXCEPT ![k].fzg = v]
                             /\ UNCHANGED <<auftrag, person>>
       [] k \in Personen  -> /\ person[k] # None
                             /\ person' = [person EXCEPT ![k].fzg = v]
                             /\ UNCHANGED <<auftrag, meldung>>
  /\ UNCHANGED <<umfang, abschnitt, fzg, reihung, ansicht>>

-----------------------------------------------------------------------------

\* _populate_vehicles: those of the alarm type, in "Disponiert".
MitFahrzeugen ==
  {f \in [Fahrzeuge -> {None, [spalte |-> "dispatched", status |-> "uebernommen"]}] :
     \A v \in Fahrzeuge \ umfang.karten : f[v] = None}

\* _create_default_messages: those of the alarm type.
MitMeldungen ==
  {f \in [Meldungen -> {None, [spalte |-> "messages", fzg |-> None,
                               done |-> FALSE, storniert |-> FALSE]}] :
     \A m \in Meldungen \ umfang.karten : f[m] = None}

\* create_incident: no order stored.
BoardInit ==
  /\ umfang \in Umfaenge
  /\ abschnitt = FALSE
  /\ fzg \in MitFahrzeugen
  /\ auftrag = [t \in Auftraege |-> None]
  /\ meldung \in MitMeldungen
  /\ person = [p \in Personen |-> None]
  /\ reihung = [c \in Spalten |-> None]
  /\ ansicht = None

\* Bound: the columns a card is put into.
Ziele(k) ==
  umfang.spalten \cap
    (IF k \in Fahrzeuge THEN FahrzeugSpalten
     ELSE IF k \in Personen THEN {"rescued"} ELSE Spalten)

FahrzeugSchritt ==
  \/ \E V \in SUBSET Fahrzeuge : AlarmFahrzeuge(V)
  \/ \E v \in Fahrzeuge :
       \/ \E c \in Ziele(v) : FahrzeugHinzufuegen(v, c)
       \/ \E c \in Ziele(v) : FahrzeugVerschieben(v, c)
       \/ \E s \in {"uebernommen", "vorort", "bereit"} : SetVehicleUnitStatus(v, s)

AuftragSchritt ==
  \E t \in Auftraege :
    \/ \E c \in Ziele(t) \cap {"tasks", "section"} : CreateTask(t, c, None)
    \/ \E v \in Fahrzeuge : fzg[v] # None /\ CreateTask(t, fzg[v].spalte, v)
    \/ ToggleTaskDone(t) \/ CancelTask(t) \/ RejectAiSuggestion(t)
    \/ \E s \in {"open", "in_progress", "done", "cancelled"} : SetTaskAmpel(t, s)
    \/ \E v \in Fahrzeuge \cup {None} : AssignTask(t, v)

MeldungSchritt ==
  \E m \in Meldungen :
    \/ \E v \in Fahrzeuge \cup {None} : CreateMessage(m, v) \/ AssignMessage(m, v)
    \/ \E s \in {"meldung", "erledigt", "storniert"} : SetMessageAmpel(m, s)
    \/ ToggleMessage(m)

PersonSchritt ==
  \E p \in Personen :
    \/ \E v \in Fahrzeuge \cup {None} : CreatePerson(p, v) \/ UpdatePerson(p, v)
    \/ DeletePerson(p)

SpaltenSchritt ==
  \/ CreateSection \/ DeleteSection
  \/ \E c \in umfang.alt : SeiteLaden(c)
  \/ \E k \in Karten : \E c \in Ziele(k) : Ziehen(k, c)
  \/ \E k \in Karten \ Fahrzeuge, v \in Fahrzeuge : KarteAufFahrzeug(k, v)

BoardNext ==
  FahrzeugSchritt \/ AuftragSchritt \/ MeldungSchritt \/ PersonSchritt \/ SpaltenSchritt

BoardSpec == BoardInit /\ [][BoardNext]_boardVars

-----------------------------------------------------------------------------
(* Properties *)

\* The cards a stored order has more than once; the page shows them that often.
Doppelt(c) ==
  IF reihung[c] = None THEN {}
  ELSE {k \in Karten : Cardinality({i \in DOMAIN reihung[c] : reihung[c][i] = k}) > 1}

\* Every card refers to a column and a vehicle that exist.
KartenGueltig ==
  /\ \A v \in Fahrzeuge : fzg[v] # None =>
       fzg[v].spalte \in FahrzeugSpalten /\ fzg[v].status \in {"uebernommen", "vorort", "bereit"}
  /\ \A v \in Fahrzeuge : fzg[v] # None => Existiert(fzg[v].spalte)
  /\ \A t \in Auftraege : auftrag[t] # None =>
       /\ auftrag[t].spalte # None =>
            auftrag[t].spalte \in Spalten /\ Existiert(auftrag[t].spalte)
       /\ auftrag[t].fzg # None => fzg[auftrag[t].fzg] # None
       /\ auftrag[t].status \in {"open", "in_progress", "done", "cancelled"}
  /\ \A m \in Meldungen : meldung[m] # None =>
       /\ meldung[m].spalte \in Spalten /\ Existiert(meldung[m].spalte)
       /\ meldung[m].fzg # None => fzg[meldung[m].fzg] # None

\* Types, with the stored orders.
BoardTypeOK ==
  /\ KartenGueltig
  /\ \A c \in Spalten : reihung[c] # None => ToSet(reihung[c]) \subseteq Karten

\* toggle_task_done: is_done and the status of a task agree on every path, also
\* when it was cancelled in between.
StatusUndHaken ==
  \A t \in Auftraege : auftrag[t] # None =>
    (auftrag[t].done <=> auftrag[t].status = "done")

\* The page recovers from every stored order but one that has a card twice, and
\* only a drag stores such an order (the page sends the cards inside a vehicle's
\* card as well): no new card, no finished card and no deletion does.
NurZiehenVerdoppelt ==
  [][\A c \in Spalten :
       Doppelt(c)' \subseteq Doppelt(c) \/ \E k \in Karten : Ziehen(k, c)]_boardVars

\* sink_done_cards: a task that becomes finished in its column stands below every
\* card that is not, if the stored order has it at all.
ErledigtesSinkt ==
  [][\A t \in Auftraege :
       LET c == auftrag[t].spalte
       IN  (/\ auftrag[t] # None /\ auftrag'[t] # None
            /\ ~auftrag[t].done /\ auftrag'[t].done
            /\ auftrag[t].fzg = None /\ c # None
            /\ reihung[c] # None /\ t \in ToSet(reihung[c]))
             => \A i, j \in DOMAIN reihung'[c] :
                  (reihung'[c][i] = t /\ i < j) => reihung'[c][j] \in FertigeNachher(c)]_boardVars

\* The status of a unit and its column follow each other: only the selection on
\* the card puts a unit on site into "Disponiert" or takes one out of a section.
StatusFolgtSpalte ==
  [][\A v \in Fahrzeuge :
       (fzg[v] # None /\ ~\E c \in Spalten : FahrzeugVerschieben(v, c)) =>
         /\ fzg'[v] = [spalte |-> "dispatched", status |-> "vorort"] => fzg'[v] = fzg[v]
         /\ (fzg[v].spalte = "section" /\ fzg'[v].spalte # "section")
              => \E c \in Spalten : Ziehen(v, c)]_boardVars

\* assign_task_to_vehicle keeps the column "so task remains visible on the board
\* AND on the vehicle": no task is in neither place. (Does not hold.)
AuftragBleibtSichtbar ==
  \A t \in Auftraege : auftrag[t] # None =>
    auftrag[t].spalte # None \/ auftrag[t].fzg # None

\* What the board promises: flags and status agree, a stored order shows each card
\* once and the finished ones last, and units stand where their status says.
BoardVersprechen ==
  /\ []BoardTypeOK
  /\ []StatusUndHaken
  /\ NurZiehenVerdoppelt
  /\ ErledigtesSinkt
  /\ StatusFolgtSpalte
=============================================================================
