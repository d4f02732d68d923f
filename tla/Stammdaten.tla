----------------------------- MODULE Stammdaten -----------------------------
(***************************************************************************)
(* Master data: alarm types with what hangs on them (templates, default    *)
(* messages, order of turning out), vehicles, members and qualifications,  *)
(* and the file they are saved to and restored from.                       *)
(*                                                                         *)
(* Source: app/routers/ui_admin.py, app/models/master.py,                  *)
(* app/services/incident_service.py.                                       *)
(*                                                                         *)
(* Templates are tasks, messages, hints and default messages; their order  *)
(* and what a vehicle is called besides its code are left out. The file is *)
(* one of this installation. A request is one step, but for the deletion   *)
(* of a qualification: with two workers another may commit in between.     *)
(***************************************************************************)
EXTENDS Basis, Naturals, FiniteSets

CONSTANTS
  Wehren, Ziel,         \* organisations; the one of the administrator who restores
  Codes,              \* codes of alarm types
  Einheiten, OrgVon,  \* vehicles and their organisation
  Kennungen, KennungVon,  \* codes of vehicles, and the one each is entered with
  Texte, SdPersonen, Qualis,
  SdUmfaenge,         \* bounds: what is looked at, by whom, how often
  MaxVorlagen         \* bound

EinheitZeilen == [code : Kennungen, active : BOOLEAN, deleted : BOOLEAN, rang : Nat]

\* The administrator is of an organisation that is looked at, and no two vehicles that
\* are there at the start share a place.
ASSUME SdAssumption ==
  /\ IsFiniteSet(Einheiten) /\ IsFiniteSet(Wehren) /\ MaxVorlagen \in Nat
  /\ None \notin EinheitZeilen \cup Einheiten /\ KennungVon \in [Einheiten -> Kennungen]
  /\ \A u \in SdUmfaenge :
       /\ u.orgs \subseteq Wehren /\ Ziel \in u.orgs
       /\ \A e, x \in u.bestand : OrgVon[e] = OrgVon[x] => e = x

VARIABLES
  sdUmfang,
  typen,       \* rows of alarm_type
  vorlagen,    \* templates and their alarm types
  ausruecke,   \* rows of alarm_dispatch_vehicle
  einheiten,   \* rows of vehicle_master
  benutzt,     \* organisation and code of the incidents
  qualis,      \* rows of qualification
  personen,    \* rows of member with their qualifications, or None
  geprueft,    \* per worker: the qualification it found unused
  sicherung,       \* the saved file, or None
  ordnungGanz,   \* history: no vehicle was deleted, every order sent was complete,
                 \* every file that was restored had the vehicles that are there
  sdAenderungen  \* bound

sdVars == <<sdUmfang, typen, vorlagen, ausruecke, einheiten, benutzt, qualis, personen,
            geprueft, sicherung, ordnungGanz, sdAenderungen>>
leute == <<qualis, personen, geprueft>>
fuhrpark == <<einheiten, ordnungGanz>>
alarme == <<typen, vorlagen, ausruecke, benutzt, fuhrpark>>

SdSchritt(t) ==
  /\ sdUmfang.teil = t
  /\ Cardinality(sdUmfang.worker) = 1 => \A w \in Workers : geprueft[w] = None
  /\ sdAenderungen < sdUmfang.aenderungen /\ sdAenderungen' = sdAenderungen + 1
  /\ UNCHANGED sdUmfang

Aktive == {o \in Wehren : o \in sdUmfang.orgs}
CodesVon(o) == {t.code : t \in {x \in typen : x.org = o}}

-----------------------------------------------------------------------------
(* Alarm types *)

\* create_alarm_type
AlarmtypNeu(o, c) ==
  /\ SdSchritt("alarme") /\ o \in Aktive /\ c \notin CodesVon(o)
  /\ typen' = typen \cup {[org |-> o, code |-> c, name |-> "neu", gross |-> FALSE]}
  /\ UNCHANGED <<vorlagen, ausruecke, benutzt, fuhrpark, leute, sicherung>>

\* edit_alarm_type
AlarmtypAendern(t) ==
  /\ SdSchritt("alarme") /\ t.name # "anders"
  /\ typen' = (typen \ {t}) \cup {[t EXCEPT !.name = "anders", !.gross = TRUE]}
  /\ UNCHANGED <<vorlagen, ausruecke, benutzt, fuhrpark, leute, sicherung>>

\* Foreign keys with ON DELETE CASCADE.
OhneTyp(V, o, c) == {[v EXCEPT !.codes = IF v.org = o THEN @ \ {c} ELSE @] : v \in V}

\* delete_alarm_type: refused while an incident has the code.
AlarmtypLoeschen(t) ==
  /\ SdSchritt("alarme") /\ <<t.org, t.code>> \notin benutzt
  /\ typen' = typen \ {t}
  /\ vorlagen' = OhneTyp(vorlagen, t.org, t.code)
  /\ ausruecke' = {a \in ausruecke : a.org # t.org \/ a.code # t.code}
  /\ UNCHANGED <<benutzt, fuhrpark, leute, sicherung>>

\* create_incident: a code nobody knows becomes T1.
EinsatzMitTyp(o, c) ==
  /\ SdSchritt("alarme") /\ o \in Aktive
  /\ benutzt' = benutzt \cup {<<o, IF c \in CodesVon(o) THEN c ELSE "T1">>}
  /\ UNCHANGED <<typen, vorlagen, ausruecke, fuhrpark, leute, sicherung>>

-----------------------------------------------------------------------------
(* Templates *)

FreieId(o) == CHOOSE i \in 1..MaxVorlagen : \A v \in vorlagen : v.org = o => v.id # i

\* Only hints may be there twice.
TextFrei(art, o, t) ==
  art = "hinweis" \/ \A v \in vorlagen : v.org = o /\ v.art = art => v.text # t

VorlageNeu(art, o, t) ==
  /\ o \in Aktive /\ Cardinality(vorlagen) < MaxVorlagen /\ TextFrei(art, o, t)
  /\ vorlagen' = vorlagen \cup
       {[id |-> FreieId(o), art |-> art, org |-> o, text |-> t, codes |-> {}]}

VorlageErsetzen(v, neu) == vorlagen' = (vorlagen \ {v}) \cup neu

\* A new one, its text, its alarm types (all are replaced), its deletion.
VorlageBearbeiten(art) ==
  /\ SdSchritt("alarme") /\ art \in sdUmfang.arten
  /\ \/ \E o \in Wehren, t \in Texte : VorlageNeu(art, o, t)
     \/ \E v \in {x \in vorlagen : x.art = art} :
          \/ \E t \in Texte : TextFrei(art, v.org, t) /\ VorlageErsetzen(v, {[v EXCEPT !.text = t]})
          \/ \E C \in SUBSET CodesVon(v.org) : VorlageErsetzen(v, {[v EXCEPT !.codes = C]})
          \/ VorlageErsetzen(v, {})
  /\ UNCHANGED <<typen, ausruecke, benutzt, fuhrpark, leute, sicherung>>

Auftragsvorlage == VorlageBearbeiten("auftrag")
Meldungsvorlage == VorlageBearbeiten("meldung")
LageHinweis == VorlageBearbeiten("hinweis")
DefaultMeldung == VorlageBearbeiten("default")

-----------------------------------------------------------------------------
(* Order of turning out, vehicles *)

\* save_dispatch_order, reset_dispatch_order
AusrueckordnungSpeichern(t, E) ==
  /\ SdSchritt("alarme")
  /\ \A e \in E : einheiten[e] # None /\ OrgVon[e] = t.org /\ einheiten[e].active
  /\ ausruecke' = {a \in ausruecke : a.org # t.org \/ a.code # t.code} \cup
                  {[org |-> t.org, code |-> t.code, einheit |-> e] : e \in E}
  /\ UNCHANGED <<typen, vorlagen, benutzt, fuhrpark, leute, sicherung>>

Vorhandene(o) == {e \in Einheiten : einheiten[e] # None /\ OrgVon[e] = o}
Sichtbare(o) == {e \in Vorhandene(o) : ~einheiten[e].deleted}

FuhrparkSchritt(neu, ganz) ==
  /\ sdUmfang.teil # "leute" /\ SdSchritt(sdUmfang.teil)
  /\ einheiten' = neu
  /\ ordnungGanz' = (ordnungGanz /\ ganz)
  /\ UNCHANGED <<typen, vorlagen, ausruecke, benutzt, leute, sicherung>>

NeuesFahrzeug(k, r) == [code |-> k, active |-> TRUE, deleted |-> FALSE, rang |-> r]

\* create_vehicle, create_external_resource: behind those that are there. No rule keeps
\* two vehicles from having one code.
EinheitNeu(e) ==
  /\ einheiten[e] = None /\ OrgVon[e] \in Aktive
  /\ FuhrparkSchritt([einheiten EXCEPT ![e] =
       NeuesFahrzeug(KennungVon[e], Cardinality(Vorhandene(OrgVon[e])))], TRUE)

\* edit_vehicle, edit_external_resource
EinheitUmbenennen(e, k) ==
  /\ einheiten[e] # None /\ OrgVon[e] \in Aktive /\ sdUmfang.teil = "fuhrpark"
  /\ FuhrparkSchritt([einheiten EXCEPT ![e].code = k], TRUE)

\* toggle_vehicle, also from a page that still shows a deleted one.
EinheitSchalten(e) ==
  /\ einheiten[e] # None /\ OrgVon[e] \in Aktive
  /\ FuhrparkSchritt([einheiten EXCEPT ![e].active = ~@], TRUE)

\* delete_vehicle: the row stays.
EinheitLoeschen(e) ==
  /\ einheiten[e] # None /\ OrgVon[e] \in Aktive
  /\ FuhrparkSchritt([einheiten EXCEPT ![e].active = FALSE, ![e].deleted = TRUE], FALSE)

\* x may stand right before e when the rows are sorted by display_order.
Davor(x, e) ==
  /\ einheiten[x].rang <= einheiten[e].rang
  /\ \A y \in Vorhandene(OrgVon[e]) :
       ~(einheiten[x].rang < einheiten[y].rang /\ einheiten[y].rang < einheiten[e].rang)

\* reorder_vehicle: the two exchange their places, also with a deleted one.
EinheitVerschieben(e, x) ==
  /\ {e, x} \subseteq Vorhandene(OrgVon[e]) /\ e # x
  /\ ~einheiten[e].deleted
  /\ Davor(x, e) \/ Davor(e, x)
  /\ FuhrparkSchritt([einheiten EXCEPT ![e].rang = einheiten[x].rang,
                                       ![x].rang = einheiten[e].rang], TRUE)

\* reorder_vehicles_bulk, with the vehicles the page shows: some filters show a part.
EinheitenOrdnen(o, folge) ==
  /\ DOMAIN folge \subseteq Sichtbare(o)
  /\ FuhrparkSchritt([e \in Einheiten |->
       IF e \in DOMAIN folge THEN [einheiten[e] EXCEPT !.rang = folge[e]] ELSE einheiten[e]],
       DOMAIN folge = Sichtbare(o))

-----------------------------------------------------------------------------
(* Members and qualifications *)

QualiCodes == {q.code : q \in qualis}

PersonSetzen(p, neu) ==
  /\ SdSchritt("leute")
  /\ personen' = [personen EXCEPT ![p] = neu]
  /\ UNCHANGED <<alarme, qualis, geprueft, sicherung>>

\* create_member
PersonNeu(p, Q) ==
  personen[p] = None /\ PersonSetzen(p, [active |-> TRUE, qualis |-> Q \cap QualiCodes])

\* import_members_excel: a known name is back on duty; the first entry of _ROLE_TO_QUALI
\* that fits and is a qualification is added. A commander of a group fits "kommandant" too.
RolleZuQuali(rolle) ==
  IF rolle = "gruppenkommandant" /\ "GK" \in QualiCodes THEN {"GK"}
  ELSE IF rolle # "" /\ "ZK" \in QualiCodes THEN {"ZK"} ELSE {}

PersonImportieren(p, rolle) ==
  LET bisher == IF personen[p] = None THEN {} ELSE personen[p].qualis
  IN  PersonSetzen(p, [active |-> TRUE, qualis |-> bisher \cup RolleZuQuali(rolle)])

\* toggle_member
PersonSchalten(p) ==
  personen[p] # None /\ PersonSetzen(p, [personen[p] EXCEPT !.active = ~@])

\* update_member_quali: all are replaced.
PersonQualis(p, Q) ==
  personen[p] # None /\ PersonSetzen(p, [personen[p] EXCEPT !.qualis = Q \cap QualiCodes])

\* bulk_delete_members: one that a row without ON DELETE names stays.
PersonLoeschen(p) == personen[p] # None /\ PersonSetzen(p, None)

\* create_qualification, edit_qualification
QualiSpeichern(c, l) ==
  /\ SdSchritt("leute")
  /\ qualis' = {q \in qualis : q.code # c} \cup {[code |-> c, leiter |-> l]}
  /\ UNCHANGED <<alarme, personen, geprueft, sicherung>>

Traeger(c) == {p \in SdPersonen : personen[p] # None /\ c \in personen[p].qualis}

NichtVergeben(c) == Traeger(c) = {}

\* delete_qualification: counted first, deleted with what hangs on it.
QualiPruefen(w, c) ==
  /\ SdSchritt("leute") /\ w \in sdUmfang.worker /\ geprueft[w] = None
  /\ c \in QualiCodes /\ NichtVergeben(c)
  /\ geprueft' = [geprueft EXCEPT ![w] = c]
  /\ UNCHANGED <<alarme, qualis, personen, sicherung>>

QualiLoeschen(w) ==
  /\ geprueft[w] # None
  /\ qualis' = {q \in qualis : q.code # geprueft[w]}
  /\ personen' = [p \in SdPersonen |->
       IF personen[p] = None THEN None ELSE [personen[p] EXCEPT !.qualis = @ \ {geprueft[w]}]]
  /\ geprueft' = [geprueft EXCEPT ![w] = None]
  /\ UNCHANGED <<sdUmfang, alarme, sicherung, sdAenderungen>>

-----------------------------------------------------------------------------
(* The file *)

\* backup_json: every organisation; not whether an alarm type starts a large-scale
\* incident, what a qualification qualifies for; that a vehicle is out of service or
\* deleted is not read from it.
Sichern ==
  /\ sicherung = None
  /\ sicherung' = [typen |-> typen, vorlagen |-> vorlagen, ausruecke |-> ausruecke,
               qualis |-> QualiCodes, einheiten |-> einheiten]
  /\ UNCHANGED <<sdUmfang, alarme, leute, sdAenderungen>>

\* The alarm types of all organisations become those of Ziel; of several with one code
\* the last in the file wins.
DateiCodes == {t.code : t \in sicherung.typen}
Namen(c) == {t.name : t \in {x \in sicherung.typen : x.code = c}}
NeuerTyp(c, name) ==
  [org |-> Ziel, code |-> c, name |-> name,
   gross |-> \E t \in typen : t.org = Ziel /\ t.code = c /\ t.gross]

\* Mutant: the map is built before the alarm types are there.
CodesVorher == CodesVon(Ziel)

\* _at_code_map
CodesNachher == CodesVon(Ziel) \cup DateiCodes

\* The templates of all organisations, numbered anew, replace those of Ziel.
NeueIds(V) ==
  CHOOSE f \in [V -> 1..Cardinality(V)] : \A v, x \in V : f[v] = f[x] => v = x
NeueVorlagen ==
  LET nummer == NeueIds(sicherung.vorlagen)
  IN  {v \in vorlagen : v.org # Ziel} \cup
      {[v EXCEPT !.id = nummer[v], !.org = Ziel, !.codes = @ \cap CodesNachher] :
         v \in sicherung.vorlagen}

\* The order of turning out is replaced as a whole, that of the others is not built again.
NeueAusruecke ==
  {[org |-> Ziel, code |-> a.code, einheit |-> a.einheit] :
     a \in {b \in sicherung.ausruecke : b.code \in CodesNachher}}

\* A saved vehicle is written to one with its code, of whatever organisation, the last
\* in the file over the others; a code that is unknown becomes a new vehicle each time.
Gesicherte == {s \in Einheiten : sicherung.einheiten[s] # None}
MitKennung(k) == {e \in Einheiten : einheiten[e] # None /\ einheiten[e].code = k}

\* Per row the saved vehicle it has its place from, or None.
Quelle(q) ==
  /\ \A e \in Einheiten : q[e] # None =>
       LET k == sicherung.einheiten[q[e]].code
       IN  IF MitKennung(k) = {} THEN einheiten[e] = None /\ OrgVon[e] = OrgVon[q[e]]
           ELSE e \in MitKennung(k)
  /\ \A s \in Gesicherte :
       LET k == sicherung.einheiten[s].code
       IN  IF MitKennung(k) = {} THEN \E e \in Einheiten : q[e] = s
           ELSE \E e \in MitKennung(k) : q[e] # None
  /\ \A e, x \in Einheiten : q[e] # None /\ q[x] # None
       /\ sicherung.einheiten[q[e]].code = sicherung.einheiten[q[x]].code => 
            e = x \/ (q[e] # q[x] /\ MitKennung(sicherung.einheiten[q[e]].code) = {})

\* A known vehicle stays in or out of service.
NeueEinheiten(q) == [e \in Einheiten |->
  IF q[e] = None THEN einheiten[e]
  ELSE IF einheiten[e] = None
       THEN NeuesFahrzeug(sicherung.einheiten[q[e]].code, sicherung.einheiten[q[e]].rang)
  ELSE [einheiten[e] EXCEPT !.rang = sicherung.einheiten[q[e]].rang]]

\* The vehicles that are there are those of the file, each with a code of its own.
WieInDerDatei ==
  /\ \A e \in Einheiten :
       /\ einheiten[e] = None <=> sicherung.einheiten[e] = None
       /\ einheiten[e] # None => einheiten[e].code = sicherung.einheiten[e].code
  /\ \A e, x \in Einheiten :
       einheiten[e] # None /\ einheiten[x] # None /\ einheiten[e].code = einheiten[x].code => e = x

\* backup_restore: members are not looked at.
Einspielen ==
  /\ sicherung # None
  /\ SdSchritt(sdUmfang.teil)
  /\ \E N \in [DateiCodes -> UNION {Namen(c) : c \in DateiCodes}] :
       /\ \A c \in DateiCodes : N[c] \in Namen(c)
       /\ typen' = {t \in typen : t.org # Ziel \/ t.code \notin DateiCodes} \cup
                    {NeuerTyp(c, N[c]) : c \in DateiCodes}
  /\ vorlagen' = NeueVorlagen /\ ausruecke' = NeueAusruecke
  /\ qualis' = qualis \cup {[code |-> c, leiter |-> FALSE] :
                              c \in sicherung.qualis \ QualiCodes}
  /\ \E q \in [Einheiten -> Gesicherte \cup {None}] :
       Quelle(q) /\ einheiten' = NeueEinheiten(q)
  /\ ordnungGanz' = (ordnungGanz /\ WieInDerDatei)
  /\ UNCHANGED <<benutzt, personen, geprueft, sicherung>>

-----------------------------------------------------------------------------

SdInit ==
  /\ sdUmfang \in SdUmfaenge
  /\ typen = {[org |-> o, code |-> c, name |-> "neu", gross |-> FALSE] : o \in Aktive, c \in Codes}
  /\ vorlagen = {} /\ ausruecke = {}
  /\ einheiten = [e \in Einheiten |->
       IF e \in sdUmfang.bestand THEN NeuesFahrzeug(KennungVon[e], 0) ELSE None]
  /\ benutzt = {}
  /\ qualis = {[code |-> c, leiter |-> TRUE] : c \in Qualis}
  /\ personen = [p \in SdPersonen |-> None]
  /\ geprueft = [w \in Workers |-> None]
  /\ sicherung = None /\ ordnungGanz = TRUE /\ sdAenderungen = 0

\* The orders a page may send.
Folgen(T) == {f \in [T -> 0..(Cardinality(T) - 1)] : \A x, y \in T : f[x] = f[y] => x = y}

SdNext ==
  \/ \E o \in Wehren, c \in Codes \cup {"T1"} : AlarmtypNeu(o, c) \/ EinsatzMitTyp(o, c)
  \/ \E t \in typen : \/ AlarmtypAendern(t) \/ AlarmtypLoeschen(t)
                      \/ \E E \in SUBSET Einheiten : AusrueckordnungSpeichern(t, E)
  \/ Auftragsvorlage \/ Meldungsvorlage \/ LageHinweis \/ DefaultMeldung
  \/ \E e \in Einheiten : \/ EinheitNeu(e) \/ EinheitSchalten(e) \/ EinheitLoeschen(e)
                          \/ \E x \in Einheiten : EinheitVerschieben(e, x)
                          \/ \E k \in Kennungen : EinheitUmbenennen(e, k)
  \/ \E o \in Aktive : \E T \in SUBSET Sichtbare(o) : \E f \in Folgen(T) : EinheitenOrdnen(o, f)
  \/ \E p \in SdPersonen :
       \/ PersonSchalten(p) \/ PersonLoeschen(p)
       \/ \E Q \in SUBSET Qualis : PersonNeu(p, Q) \/ PersonQualis(p, Q)
       \/ \E rolle \in {"", "kommandant", "gruppenkommandant"} : PersonImportieren(p, rolle)
  \/ \E c \in Qualis : QualiSpeichern(c, TRUE) \/ \E w \in Workers : QualiPruefen(w, c)
  \/ \E w \in Workers : QualiLoeschen(w)
  \/ Sichern \/ Einspielen

SdSpec == SdInit /\ [][SdNext]_sdVars

-----------------------------------------------------------------------------
(* Properties *)

EineOrg == Cardinality(sdUmfang.orgs) = 1

\* Foreign keys; numbers of templates are unique within an organisation.
SdTypeOK ==
  /\ \A v \in vorlagen : v.codes \subseteq CodesVon(v.org)
  /\ \A v, x \in vorlagen : v.org = x.org /\ v.id = x.id => v = x
  /\ \A a \in ausruecke : a.code \in CodesVon(a.org)
  /\ \A p \in SdPersonen : personen[p] # None => personen[p].qualis \subseteq QualiCodes

\* create_task_suggestion and its siblings refuse a text that exists: with one
\* organisation it stays unique within its kind, also after restoring.
TexteEindeutig ==
  EineOrg => \A v, x \in vorlagen :
    v.text = x.text /\ v.art = x.art /\ v.art # "hinweis" => v = x

\* reorder_vehicle, reorder_vehicles_bulk, create_vehicle, backup_restore: as long as no
\* vehicle was deleted, every order sent was complete and no file was restored that does
\* not have the vehicles that are there, each has a place of its own and the places are
\* those from 0 on: a vehicle that is moved changes its place in the list.
PlaetzeEindeutig ==
  ordnungGanz => \A o \in Wehren :
    {einheiten[e].rang : e \in Vorhandene(o)} = 0..(Cardinality(Vorhandene(o)) - 1)

\* delete_alarm_type: whatever is deleted and restored, the type of an incident stays.
VerwendeteTypenBleiben ==
  \A t \in typen :
    <<t.org, t.code>> \in benutzt => \E x \in typen' : x.org = t.org /\ x.code = t.code

\* backup_restore: with one organisation the templates, the alarm types they belong to
\* and the order of turning out are those that were saved, whatever was changed or
\* deleted since; what the file does not know stays. The vehicles of the file get back
\* their places when they are still there and no code was changed or is there twice.
WieGesichert ==
  /\ WieInDerDatei => \A e \in Gesicherte : einheiten'[e].rang = sicherung.einheiten[e].rang
  /\ EineOrg =>
    /\ {[art |-> v.art, text |-> v.text, codes |-> v.codes] : v \in vorlagen'} =
       {[art |-> v.art, text |-> v.text, codes |-> v.codes] : v \in sicherung.vorlagen}
    /\ Cardinality(vorlagen') = Cardinality(sicherung.vorlagen)
    /\ ausruecke' = sicherung.ausruecke
    /\ \A t \in sicherung.typen : \E x \in typen' : x.code = t.code /\ x.name = t.name
    /\ CodesVon(Ziel) \subseteq {t.code : t \in typen'}

\* backup_restore: the templates and alarm types of other organisations are not touched,
\* no vehicle disappears or comes back into service. But their order of turning out is
\* deleted with that of Ziel and not built again, and a vehicle of theirs takes the place
\* a saved one with the same code had.
FremdeBleiben ==
  /\ \A a \in ausruecke' : a.org = Ziel
  /\ \A e \in Einheiten : einheiten[e] # None =>
       einheiten'[e] # None /\ einheiten'[e] = [einheiten[e] EXCEPT !.rang = einheiten'[e].rang]
  /\ {v \in vorlagen' : v.org # Ziel} = {v \in vorlagen : v.org # Ziel}
  /\ {t \in typen' : t.org # Ziel} = {t \in typen : t.org # Ziel}

\* delete_qualification: while no requests overlap a member loses a qualification only when its
\* list is saved without it.
QualiBleibt ==
  Cardinality(sdUmfang.worker) = 1 =>
    \A p \in SdPersonen :
      (personen[p] # None /\ personen'[p] # None /\ ~(personen[p].qualis \subseteq personen'[p].qualis))
        => \E Q \in SUBSET Qualis : PersonQualis(p, Q)

\* What the master data promise.
SdVersprechen ==
  /\ [](SdTypeOK /\ TexteEindeutig /\ PlaetzeEindeutig)
  /\ [][VerwendeteTypenBleiben /\ QualiBleibt /\ (Einspielen => WieGesichert /\ FremdeBleiben)]_sdVars
=============================================================================
