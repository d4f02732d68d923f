------------------------------ MODULE Autoclose ------------------------------
(***************************************************************************)
(* The automatic closing of forgotten incidents: an active incident that   *)
(* has been open for Nach time units gets a warning ("Offen halten?"), and *)
(* Gnade units later it is closed unless somebody kept it open.            *)
(*                                                                         *)
(* Source: app/services/autoclose.py, incident_service.close_incident and  *)
(* reopen_incident, and their routes in app/routers/ui_incident.py.        *)
(*                                                                         *)
(* The loop runs in every worker process. A pass commits after every       *)
(* incident it changes and warns the browsers connected to its own worker  *)
(* when it is through. Times are kept as ages, cut off where the code      *)
(* stops telling them apart.                                               *)
(*                                                                         *)
(* A request has read its incident when its transaction began, before the  *)
(* handler runs, and writes only the columns that differ from what it read *)
(* (at most one request of a worker is open here). The handler and the     *)
(* pass of one worker exclude each other, but not what they have read.     *)
(***************************************************************************)
EXTENDS Basis, Naturals, FiniteSets

CONSTANTS
  AcWorker,    \* the worker processes of this deployment
  Einsaetze,   \* incidents of one organisation
  Nach,        \* autoclose_after_hours
  Gnade        \* autoclose_grace_minutes

ASSUME FristenAssumption == Nach \in Nat \ {0} /\ Gnade \in Nat \ {0}

MaxAlter == Nach + Gnade

\* What a pass has found of an incident: "fertig" when it is through with it or never had it,
\* "bestaetigen" when it would close one that is closed.
Stufen == {"fertig", "nichts", "warnen", "schliessen", "bestaetigen"}

PassZeilen == [liste : [Einsaetze -> Stufen], warnen : SUBSET Einsaetze]

\* A request: its incident, its route, and whether the row it has read has a warning.
Anfragen == [einsatz : Einsaetze, art : {"keepopen", "abschliessen", "wiedereroeffnen"},
             gewarnt : BOOLEAN]

ASSUME AutocloseNoneAssumption ==
  None \notin 0..Gnade /\ None \notin PassZeilen /\ None \notin Anfragen

VARIABLES
  status,      \* incident.status
  alter,       \* the age of incident.started_at
  warnung,     \* the age of incident.autoclose_warn_sent_at, None: NULL
  enabled,     \* org_settings.autoclose_enabled, with its fallbacks
  pruefLauf,   \* the pass of a worker
  anfrage,     \* the open request of a worker
  gewarnt,     \* history: was the warning shown, "nein", "ja" or "verloren"
  ueberholt    \* history: incidents a user kept open or reopened and a pass or the
               \* request itself did not know what the other had committed

autocloseVars == <<status, alter, warnung, enabled, pruefLauf, anfrage, gewarnt, ueberholt>>

FristAelter(n, max) == IF n < max THEN n + 1 ELSE max

\* Mutant: an incident that was warned once is warned again.
WarnenFaelligImmer(i) == alter[i] >= Nach

WarnenFaellig(i) == warnung[i] = None /\ alter[i] >= Nach

SchliessenFaellig(i) == warnung[i] # None /\ warnung[i] >= Gnade

\* What the row asks for, as a session reads it.
Faellig(i) ==
  IF WarnenFaellig(i) THEN "warnen"
  ELSE IF ~SchliessenFaellig(i) THEN "nichts"
  ELSE IF status[i] = "active" THEN "schliessen" ELSE "bestaetigen"

Rest(w) == {i \in Einsaetze : pruefLauf[w].liste[i] # "fertig"}

\* The loop awaits nothing while it works through the incidents.
Frei(w) == pruefLauf[w] # None => Rest(w) = {}

-----------------------------------------------------------------------------
(* autoclose_loop, _check_incidents_sync *)

\* The query of the active incidents, and the settings.
PassBeginnen(w) ==
  /\ pruefLauf[w] = None
  /\ enabled
  /\ pruefLauf' = [pruefLauf EXCEPT ![w] =
       [liste |-> [i \in Einsaetze |-> IF status[i] = "active" THEN Faellig(i) ELSE "fertig"],
        warnen |-> {}]]
  /\ UNCHANGED <<status, alter, warnung, enabled, anfrage, gewarnt, ueberholt>>

\* A commit makes the session read the rows again.
Erledigt(w, i, warnen) ==
  pruefLauf' = [pruefLauf EXCEPT ![w] =
    [liste |-> [j \in Einsaetze |->
                  IF j = i \/ @.liste[j] = "fertig" THEN "fertig" ELSE Faellig(j)'],
     warnen |-> @.warnen \cup warnen]]

\* A second pass that has read the incident before the first warned writes the time anew.
Warnen(w, i) ==
  /\ pruefLauf[w].liste[i] = "warnen"
  /\ warnung' = [warnung EXCEPT ![i] = 0]
  /\ gewarnt' = [gewarnt EXCEPT ![i] = IF warnung[i] = None THEN "nein" ELSE @]
  /\ UNCHANGED <<status, alter, enabled, anfrage, ueberholt>>
  /\ Erledigt(w, i, {i})

\* close_incident: only the first query asked for the status.
Schliessen(w, i) ==
  /\ pruefLauf[w].liste[i] = "schliessen"
  /\ status' = [status EXCEPT ![i] = "closed"]
  /\ UNCHANGED <<alter, warnung, enabled, anfrage, gewarnt, ueberholt>>
  /\ Erledigt(w, i, {})

\* Closing fails, and the session rolls back; or it writes no status, as it has read the
\* incident closed. The session reads again, and the pass goes on.
OhneSchliessen(w, i) ==
  /\ pruefLauf[w].liste[i] \in {"schliessen", "bestaetigen"}
  /\ UNCHANGED <<status, alter, warnung, enabled, anfrage, gewarnt, ueberholt>>
  /\ Erledigt(w, i, {})

\* Not due: no commit, and the session keeps what it has read.
Uebergehen(w, i) ==
  /\ pruefLauf[w].liste[i] = "nichts"
  /\ pruefLauf' = [pruefLauf EXCEPT ![w].liste[i] = "fertig"]
  /\ UNCHANGED <<status, alter, warnung, enabled, anfrage, gewarnt, ueberholt>>

Verarbeiten(w, i) == pruefLauf[w] # None /\ (Warnen(w, i) \/ Schliessen(w, i))

Pruefen(w) ==
  \E i \in Einsaetze :
    pruefLauf[w] # None
    /\ (Warnen(w, i) \/ Schliessen(w, i) \/ OhneSchliessen(w, i) \/ Uebergehen(w, i))

\* The broadcasts follow the last commit, one await each.
WarnungSenden(w) ==
  /\ pruefLauf[w] # None /\ Rest(w) = {}
  /\ \E i \in pruefLauf[w].warnen :
       /\ gewarnt' = [gewarnt EXCEPT ![i] = "ja"]
       /\ pruefLauf' = [pruefLauf EXCEPT ![w].warnen = @ \ {i}]
  /\ UNCHANGED <<status, alter, warnung, enabled, anfrage, ueberholt>>

PassBeenden(w) ==
  /\ pruefLauf[w] # None /\ Rest(w) = {} /\ pruefLauf[w].warnen = {}
  /\ pruefLauf' = [pruefLauf EXCEPT ![w] = None]
  /\ UNCHANGED <<status, alter, warnung, enabled, anfrage, gewarnt, ueberholt>>

\* The worker dies, or an exception ends the pass: the warnings it collected
\* are not sent.
PassAbbrechen(w) ==
  /\ pruefLauf[w] # None
  /\ pruefLauf' = [pruefLauf EXCEPT ![w] = None]
  /\ gewarnt' = [i \in Einsaetze |->
                   IF i \in pruefLauf[w].warnen THEN "verloren" ELSE gewarnt[i]]
  /\ anfrage' \in {anfrage, [anfrage EXCEPT ![w] = None]}
  /\ UNCHANGED <<status, alter, warnung, enabled, ueberholt>>

-----------------------------------------------------------------------------
(* The user's routes, and time *)

\* The transaction of a request begins: what it reads of the incident from now on is this.
\* One that has read the incident closed does not close it, one that has read it active
\* does not reopen it.
AnfrageBeginnen(w) ==
  /\ anfrage[w] = None
  /\ \E a \in Anfragen :
       /\ a.gewarnt = (warnung[a.einsatz] # None)
       /\ a.art = "abschliessen" => status[a.einsatz] = "active"
       /\ a.art = "wiedereroeffnen" => status[a.einsatz] = "closed"
       /\ anfrage' = [anfrage EXCEPT ![w] = a]
  /\ UNCHANGED <<status, alter, warnung, enabled, pruefLauf, gewarnt, ueberholt>>

InEinemPass(i) == \E v \in AcWorker : pruefLauf[v] # None /\ i \in Rest(v)

\* The column was read NULL and stays as it is, or it was not and becomes it.
WarnungLoeschen(a) ==
  /\ warnung' = [warnung EXCEPT ![a.einsatz] = IF a.gewarnt THEN None ELSE @]
  /\ gewarnt' = [gewarnt EXCEPT ![a.einsatz] = IF a.gewarnt THEN "nein" ELSE @]

\* autoclose_keepopen
Keepopen(a) ==
  /\ a.art = "keepopen"
  /\ WarnungLoeschen(a)
  /\ alter' = [alter EXCEPT ![a.einsatz] = 0]
  /\ ueberholt' = IF InEinemPass(a.einsatz) \/ warnung'[a.einsatz] # None
                  THEN ueberholt \cup {a.einsatz} ELSE ueberholt
  /\ UNCHANGED status

\* close_incident_view
VonHandSchliessen(a) ==
  /\ a.art = "abschliessen"
  /\ status' = [status EXCEPT ![a.einsatz] = "closed"]
  /\ UNCHANGED <<alter, warnung, gewarnt, ueberholt>>

\* reopen_incident_view
VonHandWiederoeffnen(a) ==
  /\ a.art = "wiedereroeffnen"
  /\ status' = [status EXCEPT ![a.einsatz] = "active"]
  /\ WarnungLoeschen(a)
  /\ ueberholt' = IF InEinemPass(a.einsatz) THEN ueberholt \cup {a.einsatz} ELSE ueberholt
  /\ UNCHANGED alter

AnfrageAusfuehren(w) ==
  /\ Frei(w) /\ anfrage[w] # None
  /\ LET a == anfrage[w] IN
       Keepopen(a) \/ VonHandSchliessen(a) \/ VonHandWiederoeffnen(a)
  /\ anfrage' = [anfrage EXCEPT ![w] = None]
  /\ UNCHANGED <<enabled, pruefLauf>>

EinstellungSpeichern ==
  /\ enabled' = ~enabled
  /\ UNCHANGED <<status, alter, warnung, pruefLauf, anfrage, gewarnt, ueberholt>>

FristVergeht ==
  /\ alter' = [i \in Einsaetze |-> FristAelter(alter[i], MaxAlter)]
  /\ warnung' = [i \in Einsaetze |->
                   IF warnung[i] = None THEN None ELSE FristAelter(warnung[i], Gnade)]
  /\ UNCHANGED <<status, enabled, pruefLauf, anfrage, gewarnt, ueberholt>>

-----------------------------------------------------------------------------

AutocloseInit ==
  /\ status \in [Einsaetze -> {"active", "closed"}]
  /\ alter = [i \in Einsaetze |-> 0]
  /\ warnung = [i \in Einsaetze |-> None]
  /\ enabled \in BOOLEAN
  /\ pruefLauf = [w \in AcWorker |-> None]
  /\ anfrage = [w \in AcWorker |-> None]
  /\ gewarnt = [i \in Einsaetze |-> "nein"]
  /\ ueberholt = {}

Pass(w) == PassBeginnen(w) \/ Pruefen(w) \/ WarnungSenden(w) \/ PassBeenden(w)

AutocloseBedienung(w) ==
  AnfrageBeginnen(w) \/ AnfrageAusfuehren(w) \/ (Frei(w) /\ EinstellungSpeichern)

AutocloseNext ==
  \/ \E w \in AcWorker :
       Pass(w) \/ AutocloseBedienung(w) \/ PassAbbrechen(w)
  \/ FristVergeht

\* The loops run once a minute and time goes on; a worker may die in any pass and a closing
\* may fail, but not each time in front of the same commit.
AutocloseSpec ==
  /\ AutocloseInit /\ [][AutocloseNext]_autocloseVars
  /\ WF_autocloseVars(FristVergeht)
  /\ \A w \in AcWorker :
       /\ WF_autocloseVars(Pass(w))
       /\ \A i \in Einsaetze : SF_autocloseVars(Verarbeiten(w, i))

-----------------------------------------------------------------------------
(* Properties *)

\* The columns, the passes and the requests keep their types.
AutocloseTypeOK ==
  /\ status \in [Einsaetze -> {"active", "closed"}]
  /\ alter \in [Einsaetze -> 0..MaxAlter]
  /\ warnung \in [Einsaetze -> 0..Gnade \cup {None}]
  /\ enabled \in BOOLEAN
  /\ anfrage \in [AcWorker -> Anfragen \cup {None}]
  /\ gewarnt \in [Einsaetze -> {"nein", "ja", "verloren"}]
  /\ ueberholt \subseteq Einsaetze
  /\ pruefLauf \in [AcWorker -> PassZeilen \cup {None}]

\* The loop closes an incident that is active.
Schliesst(w, i) ==
  pruefLauf[w] # None /\ Schliessen(w, i) /\ status[i] = "active"

\* autoclose_keepopen: the clock starts anew. The loops close an incident only
\* when the whole time and the grace period have passed since it was opened or
\* last kept open, unless a user kept it open or reopened it while a pass had read it,
\* or kept it open without having read its warning.
VolleFrist ==
  [][\A w \in AcWorker, i \in Einsaetze :
       (Schliesst(w, i) /\ i \notin ueberholt) => alter[i] >= Nach + Gnade]_autocloseVars

\* autoclose_keepopen says that it takes the warning back and restarts the count of the
\* hours. The loops break it: a pass of the other worker that has read the incident before
\* closes one whose warning was taken back.
KeepopenHaelt ==
  [][\A w \in AcWorker, i \in Einsaetze :
       Schliesst(w, i) => warnung[i] # None]_autocloseVars

\* autoclose.py: the loops close an incident only after a warning: it was shown, died with
\* its worker, or waits for the pass that gave it to be through with the others.
NurNachWarnung ==
  [][\A w \in AcWorker, i \in Einsaetze :
       (Schliesst(w, i) /\ i \notin ueberholt)
         => \/ gewarnt[i] # "nein"
            \/ \E v \in AcWorker : pruefLauf[v] # None /\ i \in pruefLauf[v].warnen]_autocloseVars

\* The purpose: an incident everybody has forgotten is closed.
VergesseneWerdenGeschlossen ==
  \A i \in Einsaetze :
    (status[i] = "active" /\ enabled)
      ~> (status[i] = "closed" \/ alter[i] = 0 \/ ~enabled)

\* What the loop promises: a forgotten incident is closed, after a warning, and none
\* before its whole time is over.
AutocloseVersprechen ==
  /\ []AutocloseTypeOK
  /\ VolleFrist
  /\ NurNachWarnung
  /\ VergesseneWerdenGeschlossen
=============================================================================
