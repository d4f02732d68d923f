---------------------------- MODULE Anreicherung ----------------------------
(***************************************************************************)
(* What the program adds to an alarm by itself, after answers of the       *)
(* geocoder and the language model: position, section and priority of a    *)
(* site, suggested tasks of an incident, and the versions of the prompts.  *)
(*                                                                         *)
(* Source: app/routers/api_v1.py, app/routers/ui_incident.py,              *)
(* app/routers/ui_major_incident.py, app/routers/ui_ai_prompts.py,         *)
(* app/services/ai_service.py, app/services/geocoding.py.                  *)
(*                                                                         *)
(* An answer is a value or None: switched off, no key, timed out, refused  *)
(* or unreadable. The monthly quota is one more reason for None that no    *)
(* page sets. What users and tasks write between two awaits is one step;   *)
(* with two workers a task's reading and its commit are two.               *)
(***************************************************************************)
EXTENDS Basis, Naturals, FiniteSets

CONSTANTS
  Orte, Prioritaeten, Adressen,
  AbschnittVon,       \* section_for_point: position -> section or None
  Vorgaenge,          \* requests and background tasks that wait for an answer
  AnUmfaenge,         \* bounds: what is looked at, workers, users' changes
  MaxVorschlaege, MaxSicherungen,  \* bounds
  MaxVersionen        \* _MAX_VERSIONS

\* The row of a site, and the columns of it that users and the program both set.
StelleZeilen ==
  [adresse : Adressen \cup {None}, position : Orte \cup {None},
   prio : Prioritaeten \cup {None}, abschnitt : {AbschnittVon[p] : p \in Orte} \cup {None},
   modus : {"auto", "manual"}]

Felder == {"position", "prio", "abschnitt"}

\* A row of ai_prompt_version, and what a request that saves one has read.
PromptZeilen == [version : Nat, nr : Nat]
PromptTxZeilen == [version : Nat, weg : SUBSET PromptZeilen, nr : Nat]

ASSUME AnreicherungAssumption ==
  /\ None \notin StelleZeilen /\ None \notin PromptTxZeilen
  /\ "alarm" \in Vorgaenge /\ MaxVersionen \in Nat
  /\ AnUmfaenge \subseteq [teil : {"stelle", "vorschlag", "prompt"}, worker : Betriebe,
                           aenderungen : Nat]
  /\ \A u \in AnUmfaenge : IsFiniteSet(u.worker)

VARIABLES
  anUmfang,
  stelle,        \* the row of the site, or None
  anHand,        \* history: the fields a user set last
  vorgang,       \* per request or task: how far it is and what it holds
  vorschlaege,   \* Task rows that came from the model
  vorschlagNr,   \* the last id
  prompts,       \* rows of ai_prompt_version of one key
  promptTx,      \* per worker: the number it has read
  letzterPrompt, sicherungen,  \* history and bound
  anAenderungen

anVars == <<anUmfang, stelle, anHand, vorgang, vorschlaege, vorschlagNr, prompts,
            promptTx, letzterPrompt, sicherungen, anAenderungen>>
stelleVars == <<stelle, anHand>>
vorschlagVars == <<vorschlaege, vorschlagNr>>
promptVars == <<prompts, promptTx, letzterPrompt, sicherungen>>

AnRuhend == [stand |-> "ruht", gelesen |-> None, zeile |-> None, danach |-> {}]
AnInArbeit(v) == vorgang[v].stand \in {"geo", "ki"}
Setze(v, s, g, z) == [vorgang EXCEPT ![v] = [stand |-> s, gelesen |-> g, zeile |-> z, danach |-> {}]]

NochEine == anAenderungen < anUmfang.aenderungen /\ anAenderungen' = anAenderungen + 1

-----------------------------------------------------------------------------
(* A site *)

\* auto_assign_section: not after a manual choice, not without a position.
MitAbschnitt(z) ==
  IF z.modus = "manual" \/ z.position = None THEN z
  ELSE [z EXCEPT !.abschnitt = AbschnittVon[z.position]]

\* A row as it is filled in, with the section of its position.
Stellenzeile(a, p, q) ==
  MitAbschnitt([adresse |-> a, position |-> p, prio |-> q, abschnitt |-> None, modus |-> "auto"])

\* site_create asks the model for a priority, the map and an alarm do not.
PrioBeginn(art) == IF art = "seite" THEN Prioritaeten \cup {None} ELSE {None}

\* site_create: position and priority come before the commit, nobody sees them wait;
\* site_create_via_karte; an alarm, whose enrichment follows the commit.
Zeilen(art) ==
  {Stellenzeile(a, p, q) :
     a \in Adressen \cup {None}, p \in Orte \cup {None}, q \in PrioBeginn(art)}

StelleAnlegen(art, z) ==
  /\ anUmfang.teil = "stelle" /\ stelle = None
  /\ stelle' = z
  /\ anHand' = IF art = "karte" THEN {"position"} ELSE {}
  /\ vorgang' = IF art = "alarm" THEN [vorgang EXCEPT !["alarm"].stand = "bereit"] ELSE vorgang
  /\ UNCHANGED <<anUmfang, vorschlagVars, promptVars, anAenderungen>>

\* What a user sets is noted for those who began before.
VonHand(z, felder) ==
  /\ NochEine /\ stelle' = z
  /\ anHand' = (anHand \ felder) \cup {f \in felder : z[f] # None}
  /\ vorgang' = [v \in Vorgaenge |->
                   IF AnInArbeit(v) THEN [vorgang[v] EXCEPT !.danach = @ \cup felder] ELSE vorgang[v]]
  /\ UNCHANGED <<anUmfang, vorschlagVars, promptVars>>

\* site_prio_change, also back to none.
PrioSetzen(q) == stelle # None /\ VonHand([stelle EXCEPT !.prio = q], {"prio"})

\* site_pin_save
PinSetzen(p) ==
  stelle # None /\ VonHand(MitAbschnitt([stelle EXCEPT !.position = p]), {"position"})

\* site_sektor_assign
SektorSetzen(s) ==
  stelle # None /\ VonHand([stelle EXCEPT !.abschnitt = s, !.modus = "manual"], {"abschnitt"})

\* Only the columns that differ from what was loaded are written.
InDatenbank(v, z) ==
  LET g == vorgang[v].gelesen
  IN  [f \in DOMAIN stelle |-> IF z[f] # g[f] THEN z[f] ELSE stelle[f]]

VorgangFestschreiben(v, z) ==
  /\ stelle' = InDatenbank(v, z)
  /\ anHand' = {f \in anHand : z[f] = vorgang[v].gelesen[f]}
  /\ vorgang' = [vorgang EXCEPT ![v].stand = "fertig"]

\* _geocode_site, _enrich_site_from_alarm: only without a position and with an address.
BrauchtPosition(z) == z.position = None /\ z.adresse # None

BrauchtPrio(z) == z.prio = None

\* The alarm's task after the position: the section, then the model if no priority was
\* read; the caller's note is left out.
AlarmWeiter(v, g, z) ==
  LET m == MitAbschnitt(z)
  IN  IF BrauchtPrio(m)
      THEN /\ vorgang' = [vorgang EXCEPT ![v] =
                 [stand |-> "ki", gelesen |-> g, zeile |-> m, danach |-> @.danach]]
           /\ UNCHANGED stelleVars
      ELSE VorgangFestschreiben(v, m)

\* _enrich_site_from_alarm loads the row once.
AlarmBeginnen ==
  /\ vorgang["alarm"].stand = "bereit" /\ stelle # None
  /\ IF BrauchtPosition(stelle)
     THEN vorgang' = Setze("alarm", "geo", stelle, stelle) /\ UNCHANGED stelleVars
     ELSE IF BrauchtPrio(stelle)
     THEN /\ vorgang' = Setze("alarm", "ki", stelle, MitAbschnitt(stelle))
          /\ UNCHANGED stelleVars
     ELSE /\ stelle' = MitAbschnitt(stelle)
          /\ vorgang' = [vorgang EXCEPT !["alarm"].stand = "fertig"]
          /\ UNCHANGED anHand
  /\ UNCHANGED <<anUmfang, vorschlagVars, promptVars, anAenderungen>>

\* site_edit: the new address stays in the request until the geocoder has answered.
BearbeitenBeginnen(v, a) ==
  /\ stelle # None /\ v # "alarm" /\ vorgang[v].stand = "ruht" /\ NochEine
  /\ LET z == [stelle EXCEPT !.adresse = a]
     IN  IF BrauchtPosition(z)
         THEN vorgang' = Setze(v, "geo", stelle, z) /\ UNCHANGED stelle
         ELSE /\ stelle' = z
              /\ vorgang' = [vorgang EXCEPT ![v].stand = "fertig"]
  /\ UNCHANGED <<anUmfang, anHand, vorschlagVars, promptVars>>

\* geocode_address
GeoAntwort(v, p) ==
  /\ vorgang[v].stand = "geo"
  /\ LET z == [vorgang[v].zeile EXCEPT !.position = p]
     IN  IF v = "alarm" THEN AlarmWeiter(v, vorgang[v].gelesen, z) ELSE VorgangFestschreiben(v, z)
  /\ UNCHANGED <<anUmfang, vorschlagVars, promptVars, anAenderungen>>

\* complete: every failure is no answer.
KiAntworten == Prioritaeten \cup {None}

\* analyze_site_reconnaissance
PrioAntwort(v, q) ==
  /\ anUmfang.teil = "stelle" /\ vorgang[v].stand = "ki"
  /\ VorgangFestschreiben(v, IF q = None THEN vorgang[v].zeile ELSE [vorgang[v].zeile EXCEPT !.prio = q])
  /\ UNCHANGED <<anUmfang, vorschlagVars, promptVars, anAenderungen>>

-----------------------------------------------------------------------------
(* Suggested tasks of an incident *)

OffeneVorschlaege(t) == t.source = "ai_suggestion" /\ ~t.erledigt

\* new_incident, alarm_regenerate_ki, request_ai_task_suggestions and, from an alarm,
\* create_incident_from_alarm: the model is asked in the background.
VorschlaegeAnfordern(v) ==
  /\ anUmfang.teil = "vorschlag" /\ vorgang[v].stand = "ruht"
  /\ vorgang' = Setze(v, "ki", None, None)
  /\ UNCHANGED <<anUmfang, stelleVars, vorschlagVars, promptVars, anAenderungen>>

NeueVorschlaege(v, n) ==
  {[id |-> vorschlagNr + i, von |-> v, source |-> "ai_suggestion", erledigt |-> FALSE] : i \in 1..n}

\* Mutant: every task that is not done makes room.
AlleOffenen(v) == {t \in vorschlaege : ~t.erledigt}

\* _trigger_ai_task_suggestions removes the open ones; _enrich_with_ai_suggestions, the
\* task of an alarm, only adds.
Abgeloeste(v) == IF v = "alarm" THEN {} ELSE {t \in vorschlaege : OffeneVorschlaege(t)}

Ersetzen(v, alte, n) ==
  /\ vorschlagNr + n <= MaxVorschlaege
  /\ vorschlaege' = {t \in vorschlaege : t.id \notin alte} \cup NeueVorschlaege(v, n)
  /\ vorschlagNr' = vorschlagNr + n
  /\ vorgang' = [vorgang EXCEPT ![v].stand = "fertig"]

\* suggest_tasks: without an answer everything stays. With one worker the rest is one step.
VorschlagAntwort(v, n) ==
  /\ anUmfang.teil = "vorschlag" /\ vorgang[v].stand = "ki"
  /\ IF n = 0
     THEN vorgang' = [vorgang EXCEPT ![v].stand = "fertig"] /\ UNCHANGED vorschlagVars
     ELSE IF Cardinality(anUmfang.worker) = 1
     THEN Ersetzen(v, {t.id : t \in Abgeloeste(v)}, n)
     ELSE /\ vorgang' = [vorgang EXCEPT ![v].stand = "tx", ![v].zeile = {t.id : t \in Abgeloeste(v)}]
          /\ UNCHANGED vorschlagVars
  /\ UNCHANGED <<anUmfang, stelleVars, promptVars, anAenderungen>>

VorschlagSchreiben(v, n) ==
  /\ anUmfang.teil = "vorschlag" /\ vorgang[v].stand = "tx"
  /\ Ersetzen(v, vorgang[v].zeile, n)
  /\ UNCHANGED <<anUmfang, stelleVars, promptVars, anAenderungen>>

VorschlagAendern(t, neu) ==
  /\ NochEine
  /\ vorschlaege' = (vorschlaege \ {t}) \cup neu
  /\ UNCHANGED <<anUmfang, stelleVars, vorgang, vorschlagNr, promptVars>>

\* accept_ai_suggestion, reject_ai_suggestion
KiAnnehmen(t) == t.source = "ai_suggestion" /\ VorschlagAendern(t, {[t EXCEPT !.source = "manual"]})
KiVerwerfen(t) == t.source = "ai_suggestion" /\ VorschlagAendern(t, {})

\* It is ticked off or hidden like any task.
Erledigen(t) == VorschlagAendern(t, {[t EXCEPT !.erledigt = TRUE]})

-----------------------------------------------------------------------------
(* Versions of a prompt *)

Juengste(P) == {p \in P : \A q \in P : q.version <= p.version}
NaechsteVersion == IF prompts = {} THEN 1 ELSE (CHOOSE p \in Juengste(prompts) : TRUE).version + 1

Neuer(q, p) == q.version > p.version \/ (q.version = p.version /\ q.nr > p.nr)

\* _prune_old_versions does not see the new row, which is not flushed yet.
Behalten(P) == {p \in P : Cardinality({q \in P : Neuer(q, p)}) < MaxVersionen}

\* save_prompt_version, and restore_prompt_version with the text of an older one.
PromptLesen(w) ==
  /\ anUmfang.teil = "prompt" /\ w \in anUmfang.worker /\ promptTx[w] = None
  /\ sicherungen < MaxSicherungen /\ sicherungen' = sicherungen + 1
  /\ promptTx' = [promptTx EXCEPT ![w] =
       [version |-> NaechsteVersion, weg |-> prompts \ Behalten(prompts), nr |-> sicherungen']]
  /\ UNCHANGED <<anUmfang, stelleVars, vorgang, vorschlagVars, prompts, letzterPrompt, anAenderungen>>

\* The version is unique for an organisation and a key (uq_ai_prompt_org_version), and
\* rows are inserted before others are deleted.
VersionBelegt(w) == \E p \in prompts : p.version = promptTx[w].version

PromptSpeichern(w) ==
  /\ promptTx[w] # None /\ ~VersionBelegt(w)
  /\ LET tx == promptTx[w]
     IN  /\ prompts' = (prompts \ tx.weg) \cup {[version |-> tx.version, nr |-> tx.nr]}
         /\ letzterPrompt' = tx.nr
  /\ promptTx' = [promptTx EXCEPT ![w] = None]
  /\ UNCHANGED <<anUmfang, stelleVars, vorgang, vorschlagVars, sicherungen, anAenderungen>>

\* Somebody else has saved the same version meanwhile: the request fails.
PromptVerweigert(w) ==
  /\ promptTx[w] # None /\ VersionBelegt(w)
  /\ promptTx' = [promptTx EXCEPT ![w] = None]
  /\ UNCHANGED <<anUmfang, stelleVars, vorgang, vorschlagVars, prompts, letzterPrompt,
                 sicherungen, anAenderungen>>

-----------------------------------------------------------------------------

AnInit ==
  /\ anUmfang \in AnUmfaenge
  /\ stelle = None /\ anHand = {}
  /\ vorgang = [v \in Vorgaenge |-> AnRuhend]
  /\ vorschlaege = {} /\ vorschlagNr = 0
  /\ prompts = {} /\ promptTx = [w \in Workers |-> None]
  /\ letzterPrompt = 0 /\ sicherungen = 0 /\ anAenderungen = 0

AnNext ==
  \/ \E art \in {"seite", "alarm", "karte"} : \E z \in Zeilen(art) :
       (art = "karte" => z.position # None) /\ StelleAnlegen(art, z)
  \/ AlarmBeginnen
  \/ \E q \in Prioritaeten \cup {None} : PrioSetzen(q)
  \/ \E p \in Orte : PinSetzen(p)
  \/ \E s \in {AbschnittVon[p] : p \in Orte} : SektorSetzen(s)
  \/ \E v \in Vorgaenge :
       \/ \E a \in Adressen \cup {None} : BearbeitenBeginnen(v, a)
       \/ \E p \in Orte \cup {None} : GeoAntwort(v, p)
       \/ \E q \in KiAntworten : PrioAntwort(v, q)
       \/ VorschlaegeAnfordern(v)
       \/ \E n \in 0..2 : VorschlagAntwort(v, n) \/ (n > 0 /\ VorschlagSchreiben(v, n))
  \/ \E t \in vorschlaege : KiAnnehmen(t) \/ KiVerwerfen(t) \/ Erledigen(t)
  \/ \E w \in Workers : PromptLesen(w) \/ PromptSpeichern(w) \/ PromptVerweigert(w)

AnSpec == AnInit /\ [][AnNext]_anVars

-----------------------------------------------------------------------------
(* Properties *)

AnTypeOK ==
  /\ stelle \in StelleZeilen \cup {None} /\ anHand \subseteq Felder
  /\ \A t \in vorschlaege : t.id \in 1..vorschlagNr
  /\ \A v \in Vorgaenge : vorgang[v].stand \in {"ruht", "bereit", "geo", "ki", "tx", "fertig"}
  /\ Cardinality(prompts) <= MaxVersionen + Cardinality(anUmfang.worker)

\* No two transactions overlap.
EinWorker == Cardinality(anUmfang.worker) = 1

\* api_v1.py:809 and :829 "only if not already set": a position, priority or section a
\* user chose is replaced without a user only by a request or task that began before,
\* and such a one does replace it.
VonHandBleibt ==
  \A f \in anHand : (f \notin anHand' \/ stelle'[f] # stelle[f]) =>
    \/ anAenderungen' # anAenderungen
    \/ \E v \in Vorgaenge :
         vorgang[v].stand # "fertig" /\ vorgang'[v].stand = "fertig" /\ f \in vorgang[v].danach

\* A task a user accepted never goes, one that is done only when a user rejects it, but
\* for those that a task of the other worker had read open.
AngenommeneBleiben ==
  \A t \in vorschlaege : (\A u \in vorschlaege' : u.id # t.id) =>
    \/ OffeneVorschlaege(t)
    \/ t.source = "ai_suggestion" /\ anAenderungen' # anAenderungen
    \/ \E v \in Vorgaenge : /\ vorgang[v].stand = "tx" /\ t.id \in vorgang[v].zeile
                            /\ vorgang'[v].stand = "fertig"

\* ui_incident.py:114: however often suggestions are asked for, where no two transactions
\* overlap those open come from one answer, beside those of the alarm.
KeineDoppelten ==
  EinWorker => Cardinality({t.von : t \in {u \in vorschlaege : OffeneVorschlaege(u)}} \ {"alarm"}) <= 1

\* _get_active_variable, _next_version: where no two transactions overlap the text saved last is the one in
\* force, also after old versions were removed.
ZuletztGilt ==
  (EinWorker /\ prompts # {}) => {p.nr : p \in Juengste(prompts)} = {letzterPrompt}

\* What is added by the program promises.
AnVersprechen ==
  /\ [](AnTypeOK /\ KeineDoppelten /\ ZuletztGilt)
  /\ [][VonHandBleibt /\ AngenommeneBleiben]_anVars
=============================================================================
