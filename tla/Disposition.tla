---------------------------- MODULE Disposition ----------------------------
(***************************************************************************)
(* Units of a large-scale incident ("Grossschadenslage") and where they    *)
(* are: the resource pool, the dispatches of a unit to sites, the "vor     *)
(* Ort" mark, and the section ("Abschnitt") a unit is listed under.        *)
(*                                                                         *)
(* Source: app/services/resource_service.py, app/services/geo_service.py   *)
(* and the handlers of app/routers/ui_major_incident.py that call them.    *)
(* An operation is one step here: a transaction no other one overtakes. A  *)
(* handler awaits nothing between its first read and its commit;           *)
(* DispositionParallel models transactions that do overlap.                *)
(*                                                                         *)
(* Time stamps, journal texts, labels and leaders are left out.            *)
(***************************************************************************)
EXTENDS Naturals, FiniteSets

CONSTANTS
  Einheiten,   \* units that may be entered into the pool (lage_einheit)
  Fahrzeuge,   \* those of them that are a vehicle of the own organisation
  Stellen,     \* sites of the incident (incident_site)
  Sektoren,    \* sections of the incident (site_sector)
  None         \* the database NULL

ASSUME FahrzeugeAssumption == Fahrzeuge \subseteq Einheiten
ASSUME NoneAssumption == None \notin Stellen \cup Sektoren

VARIABLES
  vorhanden,   \* units with a row in lage_einheit
  einheit,     \* their columns status, sector_id and incident_site_id
  dispatch,    \* rows of einheit_site_dispatch, per unit and site
  sektoren,    \* sections with a row in site_sector
  sektor,      \* incident_site.sector_id
  modus,       \* incident_site.section_assigned_mode
  anreicherung \* sites whose alarm is still being enriched in the background

siteVars == <<sektoren, sektor, modus, anreicherung>>
dispVars == <<vorhanden, einheit, dispatch, siteVars>>

EinheitStatus == {"angefordert", "bereitgestellt", "im_einsatz", "abgerueckt"}

\* The newest dispatch row of a unit for a site: no row, alarmed
\* (vor_ort_at NULL), on site (vor_ort_at set), withdrawn (withdrawn_at set).
DispatchStatus == {"keine", "disponiert", "vor_ort", "abgezogen"}

Einheit == [status : EinheitStatus,
            sektor : Sektoren \cup {None},
            stelle : Stellen \cup {None}]

\* A unit as lage_neu_create and add_resource enter it.
NeueEinheit == [status |-> "bereitgestellt", sektor |-> None, stelle |-> None]
OhneDispatch == [s \in Stellen |-> "keine"]

-----------------------------------------------------------------------------
(* What the queries of the service see. *)

\* withdrawn_at IS NULL: the unit is alarmed for the site or on site.
Aktiv(e, s) == dispatch[e][s] \in {"disponiert", "vor_ort"}

\* The dispatch set_vor_ort_at_site reports as a conflict.
Konflikt(e, s) == \E t \in Stellen \ {s} : dispatch[e][t] = "vor_ort"

\* Mutant: the unit takes over the status of its dispatch.
GebundenWieDispatch(status) ==
  IF status = "bereitgestellt" THEN "disponiert" ELSE status

\* A unit of the pool that is sent somewhere counts as committed.
Gebunden(status) == IF status = "bereitgestellt" THEN "im_einsatz" ELSE status

\* The units whose section sync_units_sector_to_site makes follow site s.
Betroffen(s) == {e \in vorhanden : Aktiv(e, s) \/ einheit[e].stelle = s}

-----------------------------------------------------------------------------
(* The unit columns and the dispatch rows the operations leave behind. *)

\* Mutant: the rows of the other sites are left alone.
DispatchOhneAbzug(e, s) == [dispatch[e] EXCEPT ![s] = "vor_ort"]

\* set_vor_ort_at_site after resolve_vor_ort_conflict: every other active
\* "vor Ort" row is withdrawn, the row of s is the only one left.
DispatchVorOrt(e, s) ==
  [t \in Stellen |-> CASE t = s -> "vor_ort"
                       [] t # s /\ dispatch[e][t] = "vor_ort" -> "abgezogen"
                       [] OTHER -> dispatch[e][t]]

\* Mutant: the unit keeps the section it was listed under.
EinheitBehaeltSektor(e, s) ==
  [status |-> Gebunden(einheit[e].status), sektor |-> einheit[e].sektor, stelle |-> s]

EinheitVorOrt(e, s) ==
  [status |-> Gebunden(einheit[e].status), sektor |-> sektor[s], stelle |-> s]

EinheitImPool(e) ==
  [status |-> IF einheit[e].status = "im_einsatz"
              THEN "bereitgestellt" ELSE einheit[e].status,
   sektor |-> None,
   stelle |-> None]

-----------------------------------------------------------------------------
(* Operations of the resource service *)

AddResource(e) ==
  /\ e \notin vorhanden
  /\ vorhanden' = vorhanden \cup {e}
  /\ einheit' = [einheit EXCEPT ![e] = NeueEinheit]
  /\ UNCHANGED <<dispatch, siteVars>>

\* The ORM clears einheit_id of the unit's dispatch rows before it deletes the
\* unit; the column is NOT NULL, so a unit that was ever dispatched stays.
DeleteResource(e) ==
  /\ e \in vorhanden
  /\ dispatch[e] = OhneDispatch
  /\ vorhanden' = vorhanden \ {e}
  /\ einheit' = [einheit EXCEPT ![e] = NeueEinheit]
  /\ UNCHANGED <<dispatch, siteVars>>

DispatchToSite(e, s) ==
  /\ e \in vorhanden
  /\ ~Aktiv(e, s)
  /\ dispatch' = [dispatch EXCEPT ![e][s] = "disponiert"]
  /\ einheit' = [einheit EXCEPT ![e].status = Gebunden(@)]
  /\ UNCHANGED <<vorhanden, siteVars>>

SetVorOrt(e, s) ==
  /\ e \in vorhanden
  /\ ~Konflikt(e, s)
  /\ dispatch' = [dispatch EXCEPT ![e][s] = "vor_ort"]
  /\ einheit' = [einheit EXCEPT ![e] = EinheitVorOrt(e, s)]
  /\ UNCHANGED <<vorhanden, siteVars>>

ResolveVorOrtConflict(e, s) ==
  /\ e \in vorhanden
  /\ dispatch' = [dispatch EXCEPT ![e] = DispatchVorOrt(e, s)]
  /\ einheit' = [einheit EXCEPT ![e] = EinheitVorOrt(e, s)]
  /\ UNCHANGED <<vorhanden, siteVars>>

\* dispatch_to_site, set_vor_ort_at_site and, on a conflict,
\* resolve_vor_ort_conflict, in one transaction.
AssignToSite(e, s) ==
  /\ ~Aktiv(e, s)
  /\ ResolveVorOrtConflict(e, s)

\* Mutant: the unit's own row still points to the site.
WithdrawOhneStandort(e, s) ==
  /\ e \in vorhanden
  /\ Aktiv(e, s)
  /\ dispatch' = [dispatch EXCEPT ![e][s] = "abgezogen"]
  /\ UNCHANGED <<vorhanden, einheit, siteVars>>

Withdraw(e, s) ==
  /\ e \in vorhanden
  /\ Aktiv(e, s)
  /\ dispatch' = [dispatch EXCEPT ![e][s] = "abgezogen"]
  /\ einheit' = [einheit EXCEPT ![e].stelle = IF @ = s THEN None ELSE @]
  /\ UNCHANGED <<vorhanden, siteVars>>

MoveToPool(e) ==
  /\ e \in vorhanden
  /\ einheit' = [einheit EXCEPT ![e] = EinheitImPool(e)]
  /\ UNCHANGED <<vorhanden, dispatch, siteVars>>

AssignToSector(e, k) ==
  /\ e \in vorhanden
  /\ k \in sektoren
  /\ einheit' = [einheit EXCEPT ![e] = [status |-> Gebunden(@.status),
                                        sektor |-> k,
                                        stelle |-> None]]
  /\ UNCHANGED <<vorhanden, dispatch, siteVars>>

\* A unit set "im Einsatz" without a section takes over its site's section.
SektorNachStatus(e, st) ==
  IF st = "im_einsatz" /\ einheit[e].sektor = None /\ einheit[e].stelle # None
  THEN sektor[einheit[e].stelle]
  ELSE einheit[e].sektor

SetStatus(e, st) ==
  /\ e \in vorhanden
  /\ einheit' = [einheit EXCEPT ![e] = [status |-> st,
                                        sektor |-> SektorNachStatus(e, st),
                                        stelle |-> @.stelle]]
  /\ UNCHANGED <<vorhanden, dispatch, siteVars>>

\* The status route sends a unit without a vehicle back to the pool instead of
\* marking it as departed.
StatusRoute(e, st) ==
  IF st = "abgerueckt" /\ e \notin Fahrzeuge THEN MoveToPool(e)
                                             ELSE SetStatus(e, st)

-----------------------------------------------------------------------------
(* Sections of sites *)

SektorAnlegen(k) ==
  /\ k \notin sektoren
  /\ sektoren' = sektoren \cup {k}
  /\ UNCHANGED <<vorhanden, einheit, dispatch, sektor, modus, anreicherung>>

\* Mutant: only the sites lose the deleted section.
SektorLoeschenNurStellen(k) ==
  /\ k \in sektoren
  /\ sektoren' = sektoren \ {k}
  /\ sektor' = [s \in Stellen |-> IF sektor[s] = k THEN None ELSE sektor[s]]
  /\ UNCHANGED <<vorhanden, einheit, dispatch, modus, anreicherung>>

\* Deleting a section: the foreign keys of units and sites are SET NULL.
SektorLoeschen(k) ==
  /\ k \in sektoren
  /\ sektoren' = sektoren \ {k}
  /\ sektor' = [s \in Stellen |-> IF sektor[s] = k THEN None ELSE sektor[s]]
  /\ einheit' = [e \in Einheiten |->
                   IF einheit[e].sektor = k
                   THEN [einheit[e] EXCEPT !.sektor = None] ELSE einheit[e]]
  /\ UNCHANGED <<vorhanden, dispatch, modus, anreicherung>>

\* Manual assignment of a site, sticky, followed by sync_units_sector_to_site.
SiteSektorAssign(s, k) ==
  /\ k \in sektoren \cup {None}
  /\ sektor' = [sektor EXCEPT ![s] = k]
  /\ modus' = [modus EXCEPT ![s] = "manual"]
  /\ einheit' = [e \in Einheiten |->
                   IF e \in Betroffen(s)
                   THEN [einheit[e] EXCEPT !.sektor = k] ELSE einheit[e]]
  /\ UNCHANGED <<vorhanden, dispatch, sektoren, anreicherung>>

\* A pin moves the site; auto_assign_section looks up the polygon around it.
\* The units of the site are not synchronised.
SitePinSave(s, k) ==
  /\ k \in sektoren \cup {None}
  /\ modus[s] # "manual"
  /\ sektor' = [sektor EXCEPT ![s] = k]
  /\ UNCHANGED <<vorhanden, einheit, dispatch, sektoren, modus, anreicherung>>

\* Background task of an alarm for a new site (api_v1.py): it reads the site,
\* awaits the geocoder, looks up the polygon and commits. The mode it tests is
\* the one it read when it began, so a section set by hand meanwhile is
\* replaced; the units of the site are not synchronised. Without coordinates,
\* and when something fails, the site is left alone.
AlarmAnreichern(s, k) ==
  /\ s \in anreicherung
  /\ k \in sektoren \cup {None, sektor[s]}
  /\ sektor' = [sektor EXCEPT ![s] = k]
  /\ anreicherung' = anreicherung \ {s}
  /\ UNCHANGED <<vorhanden, einheit, dispatch, sektoren, modus>>

\* Where a site lies is set or found out after it was created.
SiteGeortet(s) ==
  \E k \in Sektoren \cup {None} : SitePinSave(s, k) \/ AlarmAnreichern(s, k)

\* The sites a changed polygon moves to another section, and the moved sites a
\* unit belongs to.
Umgehaengt(neu) == {s \in Stellen : neu[s] # sektor[s]}
Folgt(e, neu) == {s \in Umgehaengt(neu) : e \in Betroffen(s)}

\* bulk_reassign_section after a polygon changed: every site may fall into
\* another section, the manual ones too if erzwungen. A unit ends up in the
\* section of the last moved site it belongs to; the query that lists the
\* sites has no order.
GeometrieGeaendert(neu, letzte, erzwungen) ==
  /\ neu \in [Stellen -> sektoren \cup {None}]
  /\ \A s \in Umgehaengt(neu) : erzwungen \/ modus[s] # "manual"
  /\ \A e \in Einheiten : Folgt(e, neu) # {} => letzte[e] \in Folgt(e, neu)
  /\ sektor' = neu
  /\ einheit' = [e \in Einheiten |->
       IF Folgt(e, neu) # {}
       THEN [einheit[e] EXCEPT !.sektor = neu[letzte[e]]] ELSE einheit[e]]
  /\ UNCHANGED <<vorhanden, dispatch, sektoren, modus, anreicherung>>

-----------------------------------------------------------------------------

\* A new incident holds the organisation's vehicles.
Init ==
  /\ vorhanden = Fahrzeuge
  /\ einheit = [e \in Einheiten |-> NeueEinheit]
  /\ dispatch = [e \in Einheiten |-> OhneDispatch]
  /\ sektoren = {}
  /\ sektor = [s \in Stellen |-> None]
  /\ modus = [s \in Stellen |-> "auto"]
  /\ anreicherung \in SUBSET Stellen

EinheitSchritt(e) ==
  \/ AddResource(e)
  \/ DeleteResource(e)
  \/ MoveToPool(e)
  \/ \E st \in EinheitStatus : StatusRoute(e, st)
  \/ \E k \in Sektoren : AssignToSector(e, k)

DispatchSchritt(e, s) ==
  \/ DispatchToSite(e, s)
  \/ SetVorOrt(e, s)
  \/ ResolveVorOrtConflict(e, s)
  \/ AssignToSite(e, s)
  \/ Withdraw(e, s)

SektorSchritt ==
  \/ \E k \in Sektoren : SektorAnlegen(k) \/ SektorLoeschen(k)
  \/ \E s \in Stellen, k \in Sektoren \cup {None} :
       SiteSektorAssign(s, k)
  \/ \E s \in Stellen : SiteGeortet(s)
  \/ \E neu \in [Stellen -> Sektoren \cup {None}], erzwungen \in BOOLEAN :
       \E letzte \in [Einheiten -> Umgehaengt(neu)] :
         GeometrieGeaendert(neu, letzte, erzwungen)

Next ==
  \/ \E e \in Einheiten : EinheitSchritt(e)
  \/ \E e \in Einheiten, s \in Stellen : DispatchSchritt(e, s)
  \/ SektorSchritt

Spec == Init /\ [][Next]_dispVars

-----------------------------------------------------------------------------
(* Properties *)

\* The columns keep their types.
TypeOK ==
  /\ vorhanden \subseteq Einheiten
  /\ einheit \in [Einheiten -> Einheit]
  /\ dispatch \in [Einheiten -> [Stellen -> DispatchStatus]]
  /\ sektoren \subseteq Sektoren
  /\ sektor \in [Stellen -> Sektoren \cup {None}]
  /\ modus \in [Stellen -> {"auto", "manual"}]
  /\ anreicherung \subseteq Stellen

\* A unit is on site at one site at most: the promise of the conflict check
\* in set_vor_ort_at_site and of the confirmed relocation.
VorOrtEindeutig ==
  \A e \in Einheiten : \A s, t \in Stellen :
    dispatch[e][s] = "vor_ort" /\ dispatch[e][t] = "vor_ort" => s = t

\* The site a unit's row points to is a site where its dispatch says it is:
\* the resource overview and the site board agree on where a unit stands.
StandortBelegt ==
  \A e \in Einheiten : \A s \in Stellen :
    einheit[e].stelle = s => dispatch[e][s] = "vor_ort"

\* No unit and no site refers to a section that was deleted, and only units
\* of the pool are dispatched.
KeineVerwaistenVerweise ==
  /\ \A e \in Einheiten : einheit[e].sektor \in sektoren \cup {None}
  /\ \A s \in Stellen : sektor[s] \in sektoren \cup {None}
  /\ \A e \in Einheiten \ vorhanden : dispatch[e] = OhneDispatch

\* A unit is listed under the section of the site it is at.
Einig(e) == einheit[e].stelle # None => einheit[e].sektor = sektor[einheit[e].stelle]

\* The unit is dispatched to no other site, whose changes it would follow too.
NurHier(e) == \A s \in Stellen : Aktiv(e, s) => einheit[e].stelle = s

\* sync_units_sector_to_site: a unit follows its site from section to section. Only
\* the location of a site separates the two, a pin or the coordinates found for its
\* alarm, although the docstring (resource_service.py:142) promises it of every
\* assignment "manuell oder automatisch via Polygon". By hand, by changed polygons,
\* by relocation, withdrawal or status they stay together.
NurOrtungTrenntSektor ==
  [][\A e \in vorhanden :
       Einig(e) /\ ~Einig(e)' /\ NurHier(e)' => \E s \in Stellen : SiteGeortet(s)]_dispVars
=============================================================================
