----------------------------- MODULE Lagemeldung -----------------------------
(***************************************************************************)
(* The situation-report control loop ("SKKM-Regelkreis") of a large-scale  *)
(* incident on top of Disposition: every site in progress with forces on   *)
(* it has a timer; when it runs out the reminder loop writes an order into *)
(* the radio journal; a report restarts the timer and closes the order.    *)
(*                                                                         *)
(* Source: app/services/lagemeldung_service.py,                            *)
(* app/services/gsl_lagemeldung_reminder.py and the handlers of            *)
(* app/routers/ui_major_incident.py, app/routers/ui_settings.py that call  *)
(* them. A handler, and a scan of the reminder, is one step: neither       *)
(* awaits between its first read and its commit.                           *)
(*                                                                         *)
(* The due time of a timer is abstracted to what the code compares it      *)
(* with: not set, not reached yet, reached. The length of the interval     *)
(* (priority "Sofort" has a shorter one) then does not show; whether there *)
(* is one does.                                                            *)
(***************************************************************************)
EXTENDS Disposition

CONSTANTS
  Phasen,      \* the site phases considered, among SitePhase
  Freitexte,   \* resources assigned by a label only, no vehicle
  MaxOffen     \* bound: open automatic orders of a site, by reopening

SitePhase == {"eingegangen", "erkundung", "bewertet", "disponiert",
              "in_arbeit", "erledigt", "abgebrochen"}

ASSUME PhasenAssumption == Phasen \subseteq SitePhase /\ "eingegangen" \in Phasen
ASSUME FreitexteAssumption == Freitexte \cap Einheiten = {}
ASSUME MaxOffenAssumption == MaxOffen \in Nat \ {0}

VARIABLES
  lage,        \* major_incident.status
  phase,       \* incident_site.phase
  uhr,         \* incident_site.naechste_lagemeldung_at
  offen,       \* automatic orders of a site with handled = False
  erledigt,    \* automatic orders of a site with handled = True: are there any
  zuweisung,   \* site_resource_assignment: is there an unreleased row of a
               \* resource (at most one is modelled), is there a released one
  intervall,   \* gsl_lagemeldung_interval_minutes IS NOT NULL
  autoAuftrag  \* gsl_lagemeldung_auto_auftrag

kreisVars == <<lage, phase, uhr, offen, erledigt, intervall, autoAuftrag>>
lmVars == <<dispVars, kreisVars, zuweisung>>

Ressourcen == Fahrzeuge \cup Freitexte
Abgeschlossen == {"erledigt", "abgebrochen"}
Zuweisung == [aktiv : BOOLEAN, freigegeben : BOOLEAN]

-----------------------------------------------------------------------------
(* lagemeldung_service *)

HasActiveResource(s) ==
  \/ \E r \in Ressourcen : zuweisung[s][r].aktiv
  \/ \E e \in vorhanden :
       einheit[e].stelle = s /\ einheit[e].status # "abgerueckt"
  \/ \E e \in Einheiten : dispatch[e][s] = "vor_ort"

\* recompute_due: now plus the interval, or no timer without an interval.
NeueFrist == IF intervall THEN "laeuft" ELSE "aus"

\* ensure_timer may start the timer of s.
UhrFehlt(s) ==
  uhr[s] = "aus" /\ phase[s] = "in_arbeit" /\ intervall /\ HasActiveResource(s)

\* ensure_timer as the last act of a handler, on what the handler wrote.
EnsureTimer(s) ==
  /\ uhr' = [uhr EXCEPT ![s] =
       IF @ = "aus" /\ phase'[s] = "in_arbeit" /\ intervall
                    /\ HasActiveResource(s)' THEN "laeuft" ELSE @]
  /\ UNCHANGED <<offen, erledigt>>

\* close_open_auto_auftraege
AuftraegeSchliessen(s) ==
  /\ offen' = [offen EXCEPT ![s] = 0]
  /\ erledigt' = [erledigt EXCEPT ![s] = @ \/ offen[s] > 0]

ClearTimer(s) ==
  /\ uhr' = [uhr EXCEPT ![s] = "aus"]
  /\ AuftraegeSchliessen(s)

\* Handlers that take a resource away stop the timer with the last one.
StopOhneRessource(s) ==
  IF HasActiveResource(s)' THEN UNCHANGED <<uhr, offen, erledigt>>
                           ELSE ClearTimer(s)

RegisterLagemeldung(s) ==
  /\ uhr' = [uhr EXCEPT ![s] = NeueFrist]
  /\ AuftraegeSchliessen(s)

-----------------------------------------------------------------------------
(* Handlers of a site *)

SitePhaseChange(s, p) ==
  /\ p # phase[s]
  /\ phase' = [phase EXCEPT ![s] = p]
  /\ UNCHANGED <<dispVars, zuweisung>>
  /\ CASE p = "in_arbeit" -> EnsureTimer(s)
       [] p \in Abgeschlossen -> ClearTimer(s)
       [] OTHER -> UNCHANGED <<uhr, offen, erledigt>>
  /\ UNCHANGED <<lage, intervall, autoAuftrag>>

\* Setting a priority recomputes a running timer, also to the same priority.
SitePrioChange(s) ==
  /\ uhr[s] # "aus"
  /\ uhr' = [uhr EXCEPT ![s] = NeueFrist]
  /\ UNCHANGED <<dispVars, lage, phase, offen, erledigt, zuweisung, intervall,
                 autoAuftrag>>

SiteEinheitDisponieren(e, s) ==
  /\ DispatchToSite(e, s)
  /\ UNCHANGED <<kreisVars, zuweisung>>

\* Without confirmation a conflict is only shown; with it the unit moves.
SiteEinheitVorOrt(e, s, confirmed) ==
  /\ IF confirmed THEN ResolveVorOrtConflict(e, s) ELSE SetVorOrt(e, s)
  /\ UNCHANGED <<lage, phase, zuweisung, intervall, autoAuftrag>>
  /\ EnsureTimer(s)

SiteEinheitAbziehen(e, s) ==
  /\ Withdraw(e, s)
  /\ UNCHANGED <<lage, phase, zuweisung, intervall, autoAuftrag>>
  /\ StopOhneRessource(s)

\* The older release button falls back to the pool without a dispatch.
SiteEinheitFreigeben(e, s) ==
  /\ IF Aktiv(e, s) THEN Withdraw(e, s) ELSE MoveToPool(e)
  /\ UNCHANGED <<lage, phase, zuweisung, intervall, autoAuftrag>>
  /\ StopOhneRessource(s)

\* A vehicle assigned on the board takes its unit along; when the unit is
\* dispatched there already the ValueError of dispatch_to_site is swallowed.
SiteResourceAssign(s, r) ==
  /\ ~zuweisung[s][r].aktiv
  /\ zuweisung' = [zuweisung EXCEPT ![s][r].aktiv = TRUE]
  /\ IF r \in vorhanden /\ ~Aktiv(r, s) THEN AssignToSite(r, s)
                                       ELSE UNCHANGED dispVars
  /\ UNCHANGED <<lage, phase, intervall, autoAuftrag>>
  /\ EnsureTimer(s)

\* The route does not ask whether the row was released before: releasing it a
\* second time sends the vehicle's unit to the pool a second time.
SiteResourceRelease(s, r) ==
  /\ \/ /\ zuweisung[s][r].aktiv
        /\ zuweisung' = [zuweisung EXCEPT
                           ![s][r] = [aktiv |-> FALSE, freigegeben |-> TRUE]]
     \/ /\ zuweisung[s][r].freigegeben
        /\ zuweisung' = zuweisung
  /\ IF r \in vorhanden THEN MoveToPool(r) ELSE UNCHANGED dispVars
  /\ UNCHANGED <<lage, phase, intervall, autoAuftrag>>
  /\ StopOhneRessource(s)

\* A report may be filed whatever the phase of the site.
SiteLogAdd(s) ==
  /\ RegisterLagemeldung(s)
  /\ UNCHANGED <<dispVars, lage, phase, zuweisung, intervall, autoAuftrag>>

-----------------------------------------------------------------------------
(* Handlers of the resource overview, the sections and the incident *)

\* The routes of the resource overview leave the control loop alone.
LageEinheitRoute(e) ==
  /\ EinheitSchritt(e)
  /\ UNCHANGED <<kreisVars, zuweisung>>

LageSektorRoute ==
  /\ SektorSchritt
  /\ UNCHANGED <<kreisVars, zuweisung>>

LageBeenden ==
  /\ lage = "active"
  /\ lage' = "closed"
  /\ UNCHANGED <<dispVars, phase, uhr, offen, erledigt, zuweisung, intervall,
                 autoAuftrag>>

LageWiederoeffnen ==
  /\ lage = "closed"
  /\ lage' = "active"
  /\ UNCHANGED <<dispVars, phase, uhr, offen, erledigt, zuweisung, intervall,
                 autoAuftrag>>

\* Mutant: a check mark for an order a report has closed already.
HandledOhnePruefung(s) ==
  /\ offen' = [offen EXCEPT ![s] = @ - 1]
  /\ erledigt' = [erledigt EXCEPT ![s] = TRUE]
  /\ UNCHANGED <<dispVars, lage, phase, uhr, zuweisung, intervall, autoAuftrag>>

\* The check mark of the journal toggles handled, in both directions; the
\* timer is not touched.
FunkjournalHandled(s) ==
  /\ \/ /\ offen[s] > 0
        /\ offen' = [offen EXCEPT ![s] = @ - 1]
        /\ erledigt' = [erledigt EXCEPT ![s] = TRUE]
     \/ /\ erledigt[s] /\ offen[s] < MaxOffen
        /\ offen' = [offen EXCEPT ![s] = @ + 1]
        /\ \E rest \in BOOLEAN : erledigt' = [erledigt EXCEPT ![s] = rest]
  /\ UNCHANGED <<dispVars, lage, phase, uhr, zuweisung, intervall, autoAuftrag>>

\* Saving the settings, on the page of the organisation (nachziehen) or on that
\* of the large-scale incidents. The former starts the missing timers when it
\* switches the interval on; both leave running ones when they switch it off.
EinstellungenSpeichern(i, a, nachziehen) ==
  /\ intervall' = i
  /\ autoAuftrag' = a
  /\ uhr' = [s \in Stellen |->
       IF nachziehen /\ ~intervall /\ i /\ lage = "active" /\ uhr[s] = "aus"
          /\ phase[s] = "in_arbeit" /\ HasActiveResource(s)
       THEN "laeuft" ELSE uhr[s]]
  /\ UNCHANGED <<dispVars, lage, phase, offen, erledigt, zuweisung>>

-----------------------------------------------------------------------------
(* The reminder loop, and time *)

\* The sites _scan_and_create writes an order for.
Ueberfaellig(s) ==
  /\ uhr[s] = "faellig"
  /\ phase[s] = "in_arbeit"
  /\ lage = "active"
  /\ HasActiveResource(s)
  /\ autoAuftrag

\* Mutant: an order that was checked off counts as an existing one.
DedupUeberAlle ==
  {s \in Stellen : Ueberfaellig(s) /\ offen[s] = 0 /\ ~erledigt[s]}

\* Mutant: the open order is not looked for.
OhneDedup == {s \in Stellen : Ueberfaellig(s) /\ offen[s] < MaxOffen}

NeuerAuftrag == {s \in Stellen : Ueberfaellig(s) /\ offen[s] = 0}

\* Mutant: the loop leaves missing timers to the handlers.
KeineNeueUhr == {}

\* The sites whose missing timer it starts.
NeueUhr == {s \in Stellen : lage = "active" /\ UhrFehlt(s)}

ScanAndCreate ==
  /\ NeuerAuftrag \cup NeueUhr # {}
  /\ offen' = [s \in Stellen |->
                 IF s \in NeuerAuftrag THEN offen[s] + 1 ELSE offen[s]]
  /\ uhr' = [s \in Stellen |-> IF s \in NeueUhr THEN "laeuft" ELSE uhr[s]]
  /\ UNCHANGED <<dispVars, lage, phase, erledigt, zuweisung, intervall,
                 autoAuftrag>>

FristLaeuftAb(s) ==
  /\ uhr[s] = "laeuft"
  /\ uhr' = [uhr EXCEPT ![s] = "faellig"]
  /\ UNCHANGED <<dispVars, lage, phase, offen, erledigt, zuweisung, intervall,
                 autoAuftrag>>

-----------------------------------------------------------------------------

\* The sites were entered by hand: enriching an alarm concerns sections only.
LMInit ==
  /\ Init
  /\ anreicherung = {}
  /\ lage = "active"
  /\ phase = [s \in Stellen |-> "eingegangen"]
  /\ uhr = [s \in Stellen |-> "aus"]
  /\ offen = [s \in Stellen |-> 0]
  /\ erledigt = [s \in Stellen |-> FALSE]
  /\ zuweisung = [s \in Stellen |->
                    [r \in Ressourcen |-> [aktiv |-> FALSE, freigegeben |-> FALSE]]]
  /\ intervall \in BOOLEAN
  /\ autoAuftrag \in BOOLEAN

StelleSchritt(s) ==
  \/ \E p \in Phasen : SitePhaseChange(s, p)
  \/ SitePrioChange(s)
  \/ SiteLogAdd(s)
  \/ FunkjournalHandled(s)
  \/ FristLaeuftAb(s)
  \/ \E r \in Ressourcen : SiteResourceAssign(s, r) \/ SiteResourceRelease(s, r)

EinheitAnStelle(e, s) ==
  \/ SiteEinheitDisponieren(e, s)
  \/ \E confirmed \in BOOLEAN : SiteEinheitVorOrt(e, s, confirmed)
  \/ SiteEinheitAbziehen(e, s)
  \/ SiteEinheitFreigeben(e, s)

LageSchritt ==
  \/ LageSektorRoute
  \/ LageBeenden
  \/ LageWiederoeffnen
  \/ \E i, a, nachziehen \in BOOLEAN : EinstellungenSpeichern(i, a, nachziehen)

LMNext ==
  \/ \E s \in Stellen : StelleSchritt(s)
  \/ \E e \in Einheiten, s \in Stellen : EinheitAnStelle(e, s)
  \/ \E e \in Einheiten : LageEinheitRoute(e)
  \/ LageSchritt
  \/ ScanAndCreate

LMSafetySpec == LMInit /\ [][LMNext]_lmVars

\* Only the reminder loop runs by itself, every 45 s; an exception of one
\* iteration is logged and the loop goes on.
LMSpec == LMSafetySpec /\ WF_lmVars(ScanAndCreate)

-----------------------------------------------------------------------------
(* Properties *)

\* The columns of sites, journal and settings keep their types.
LMTypeOK ==
  /\ TypeOK
  /\ lage \in {"active", "closed"}
  /\ phase \in [Stellen -> Phasen]
  /\ uhr \in [Stellen -> {"aus", "laeuft", "faellig"}]
  /\ offen \in [Stellen -> 0..MaxOffen]
  /\ erledigt \in [Stellen -> BOOLEAN]
  /\ zuweisung \in [Stellen -> [Ressourcen -> Zuweisung]]
  /\ intervall \in BOOLEAN
  /\ autoAuftrag \in BOOLEAN

\* The duty the loop exists for: a site in progress, forces on it, the
\* organisation wants orders, and the incident is running.
Pflicht(s) ==
  /\ phase[s] = "in_arbeit"
  /\ lage = "active"
  /\ autoAuftrag
  /\ HasActiveResource(s)

\* The control loop each site is promised, see Regelkreis.
Kreis == INSTANCE Regelkreis WITH pflicht <- {s \in Stellen : Pflicht(s)}
RegelkreisSchritte == Kreis!Schritte
RegelkreisVersprechen == Kreis!Versprechen

\* The handlers of the control loop act on units, dispatches and sections through
\* the resource service only.
DispositionSpec == Spec

\* A site in progress with forces but no timer gets one, also when no handler
\* started it (the second loop of _scan_and_create).
UhrWirdNachgezogen ==
  \A s \in Stellen :
    (lage = "active" /\ UhrFehlt(s)) ~> ~(lage = "active" /\ UhrFehlt(s))

\* lagemeldung_service.py: without an interval the logic is off altogether.
OhneIntervallKeinAuftrag ==
  [][\A s \in Stellen : ScanAndCreate /\ ~intervall => offen'[s] = offen[s]]_lmVars

=============================================================================
