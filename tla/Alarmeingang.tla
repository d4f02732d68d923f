---------------------------- MODULE Alarmeingang ----------------------------
(***************************************************************************)
(* Incoming alarms of one organisation: the alarm API creates an incident  *)
(* per key, and, as a side effect after its commit, mirrors it as a site   *)
(* of the running large-scale incident ("Lage") or opens one; a second     *)
(* route enters sites directly; users open, end and reopen both.           *)
(*                                                                         *)
(* Source: create_incident_api, _handle_major_incident_trigger and         *)
(* lage_alarm of app/routers/api_v1.py, app/services/                      *)
(* major_incident_service.py, and the routes of app/routers/               *)
(* ui_major_incident.py and ui_incident.py. An incident created in the UI  *)
(* takes the path of the API with a key of its own ("ui_<id>").            *)
(*                                                                         *)
(* A worker process works off one request at a time, for none of them      *)
(* awaits before its last commit; between the reads of a transaction and   *)
(* its commit other workers commit. Addresses, tokens, positions and       *)
(* notifications are left out.                                             *)
(***************************************************************************)
EXTENDS Naturals, FiniteSets

CONSTANTS
  Worker,       \* the worker processes
  Schluessel,   \* keys of alarms, external_key
  Ausloeser,    \* those whose alarm type has triggers_major_incident
  Lagen,        \* bound: large-scale incidents that can be created
  Zeilen,       \* bound: rows of incident_site
  None          \* the database NULL, no transaction

ASSUME AusloeserAssumption == Ausloeser \subseteq Schluessel
ASSUME AlarmNoneAssumption == None \notin Lagen \cup Schluessel
ASSUME EndlichAssumption == IsFiniteSet(Worker) /\ IsFiniteSet(Zeilen)

VARIABLES
  lage,         \* major_incident.status, "frei" before the row exists
  einsatz,      \* incident.status per key, "keiner" before the row exists
  stelle,       \* rows of incident_site, None where there is none
  autoAdopt,    \* org_settings.mi_auto_adopt
  vorgang       \* what the worker's open transaction has read

vars == <<lage, einsatz, stelle, autoAdopt, vorgang>>

\* A site of the alarm route knows its incident, one of /lage/alarm only the key.
Stelle == [lage : Lagen, key : Schluessel, gespiegelt : BOOLEAN]

\* An open transaction: what it is going to do, and with what it read.
Vorgang ==
  [op : {"anlegen", "trigger", "eroeffnen"}, key : Schluessel]
    \cup [op : {"spiegeln", "lage_alarm"}, key : Schluessel, lage : Lagen]
    \cup [op : {"beenden"}, lage : Lagen, einsaetze : SUBSET Schluessel]

Aktive == {l \in Lagen : lage[l] = "active"}
Belegt == {z \in Zeilen : stelle[z] # None}

\* The sites of l with key k.
MitKey(l, k) == {z \in Belegt : stelle[z].lage = l /\ stelle[z].key = k}
Gespiegelt(l, k) == {z \in MitKey(l, k) : stelle[z].gespiegelt}

Frei(w) == vorgang[w] = None
Beginnen(w, v) == vorgang' = [vorgang EXCEPT ![w] = v]
Beenden(w) == vorgang' = [vorgang EXCEPT ![w] = None]

-----------------------------------------------------------------------------
(* POST /einsatz: the incident *)

\* Mutant: an alarm that is known is processed again.
AnfrageOhneSuche(w, k) ==
  /\ Frei(w)
  /\ Beginnen(w, [op |-> IF einsatz[k] = "keiner" THEN "anlegen" ELSE "trigger",
                  key |-> k])
  /\ UNCHANGED <<lage, einsatz, stelle, autoAdopt>>

\* An alarm whose key is known is answered without any change to the database.
EinsatzAnfrage(w, k) ==
  /\ Frei(w)
  /\ einsatz[k] = "keiner"
  /\ Beginnen(w, [op |-> "anlegen", key |-> k])
  /\ UNCHANGED <<lage, einsatz, stelle, autoAdopt>>

\* The unique constraint lets one of two equal alarms through; the request of
\* the other one fails (see Abbruch).
EinsatzAnlegen(w) ==
  /\ ~Frei(w) /\ vorgang[w].op = "anlegen"
  /\ einsatz[vorgang[w].key] = "keiner"
  /\ einsatz' = [einsatz EXCEPT ![vorgang[w].key] = "active"]
  /\ Beginnen(w, [op |-> "trigger", key |-> vorgang[w].key])
  /\ UNCHANGED <<lage, stelle, autoAdopt>>

-----------------------------------------------------------------------------
(* The side effect "gsl_trigger" *)

\* What the trigger has to write for k in l: a new site, unless there is one.
NeueStelle(l, k) ==
  IF k \in Ausloeser THEN MitKey(l, k) = {}
                     ELSE autoAdopt /\ Gespiegelt(l, k) = {}

\* The reads of _handle_major_incident_trigger. get_active_lage takes any of
\* several active ones.
TriggerLesen(w) ==
  /\ ~Frei(w) /\ vorgang[w].op = "trigger"
  /\ LET k == vorgang[w].key IN
       \/ \E l \in Aktive :
            IF NeueStelle(l, k)
            THEN Beginnen(w, [op |-> "spiegeln", key |-> k, lage |-> l])
            ELSE Beenden(w)
       \/ /\ Aktive = {} /\ k \in Ausloeser
          /\ Beginnen(w, [op |-> "eroeffnen", key |-> k])
       \/ Aktive = {} /\ k \notin Ausloeser /\ Beenden(w)
  /\ UNCHANGED <<lage, einsatz, stelle, autoAdopt>>

StelleEinfuegen(l, k, gespiegelt) ==
  \E z \in Zeilen \ Belegt :
    stelle' = [stelle EXCEPT ![z] = [lage |-> l, key |-> k,
                                     gespiegelt |-> gespiegelt]]

\* adopt_incident_as_site, or handle_alarm_trigger in a running incident.
Spiegeln(w) ==
  /\ ~Frei(w) /\ vorgang[w].op = "spiegeln"
  /\ StelleEinfuegen(vorgang[w].lage, vorgang[w].key, TRUE)
  /\ Beenden(w)
  /\ UNCHANGED <<lage, einsatz, autoAdopt>>

\* Mutant: the new incident is forgotten before the commit.
EroeffnenOhneLage(w) ==
  /\ ~Frei(w) /\ vorgang[w].op = "eroeffnen"
  /\ \E l \in Lagen : lage[l] = "frei" /\ StelleEinfuegen(l, vorgang[w].key, TRUE)
  /\ Beenden(w)
  /\ UNCHANGED <<lage, einsatz, autoAdopt>>

\* handle_alarm_trigger without a running incident: create_lage, create_site.
Eroeffnen(w) ==
  /\ ~Frei(w) /\ vorgang[w].op = "eroeffnen"
  /\ \E l \in Lagen :
       /\ lage[l] = "frei"
       /\ lage' = [lage EXCEPT ![l] = "active"]
       /\ StelleEinfuegen(l, vorgang[w].key, TRUE)
  /\ Beenden(w)
  /\ UNCHANGED <<einsatz, autoAdopt>>

-----------------------------------------------------------------------------
(* POST /lage/alarm *)

\* Mutant: the key is not looked up.
LageAlarmOhneSuche(w, k) ==
  /\ Frei(w)
  /\ \E l \in Aktive : Beginnen(w, [op |-> "lage_alarm", key |-> k, lage |-> l])
  /\ UNCHANGED <<lage, einsatz, stelle, autoAdopt>>

\* 404 without an active incident, the known site if there is one.
LageAlarmLesen(w, k) ==
  /\ Frei(w)
  /\ \E l \in Aktive :
       /\ MitKey(l, k) = {}
       /\ Beginnen(w, [op |-> "lage_alarm", key |-> k, lage |-> l])
  /\ UNCHANGED <<lage, einsatz, stelle, autoAdopt>>

\* The workers that found no site for the key and are about to enter one.
Eintragend(l, k) ==
  {w \in Worker : ~Frei(w) /\ vorgang[w] = [op |-> "lage_alarm", key |-> k, lage |-> l]}

LageAlarmSchreiben(w) ==
  /\ ~Frei(w) /\ vorgang[w].op = "lage_alarm"
  /\ StelleEinfuegen(vorgang[w].lage, vorgang[w].key, FALSE)
  /\ Beenden(w)
  /\ UNCHANGED <<lage, einsatz, autoAdopt>>

-----------------------------------------------------------------------------
(* The user's routes *)

LageNeu(l) ==
  /\ lage[l] = "frei"
  /\ lage' = [lage EXCEPT ![l] = "active"]
  /\ UNCHANGED <<einsatz, stelle, autoAdopt, vorgang>>

\* lage_beenden closes the incidents its sites mirror, as it reads them.
LageBeendenLesen(w, l) ==
  /\ Frei(w)
  /\ lage[l] = "active"
  /\ Beginnen(w, [op |-> "beenden", lage |-> l,
                  einsaetze |-> {k \in Schluessel : Gespiegelt(l, k) # {}
                                                    /\ einsatz[k] = "active"}])
  /\ UNCHANGED <<lage, einsatz, stelle, autoAdopt>>

LageBeendenSchreiben(w) ==
  /\ ~Frei(w) /\ vorgang[w].op = "beenden"
  /\ lage' = [lage EXCEPT ![vorgang[w].lage] = "closed"]
  /\ einsatz' = [k \in Schluessel |->
                   IF k \in vorgang[w].einsaetze THEN "closed" ELSE einsatz[k]]
  /\ Beenden(w)
  /\ UNCHANGED <<stelle, autoAdopt>>

LageWiederoeffnen(l) ==
  /\ lage[l] = "closed"
  /\ lage' = [lage EXCEPT ![l] = "active"]
  /\ UNCHANGED <<einsatz, stelle, autoAdopt, vorgang>>

EinsatzSchliessen(k) ==
  /\ einsatz[k] = "active"
  /\ einsatz' = [einsatz EXCEPT ![k] = "closed"]
  /\ UNCHANGED <<lage, stelle, autoAdopt, vorgang>>

EinsatzWiederoeffnen(k) ==
  /\ einsatz[k] = "closed"
  /\ einsatz' = [einsatz EXCEPT ![k] = "active"]
  /\ UNCHANGED <<lage, stelle, autoAdopt, vorgang>>

EinstellungSpeichern ==
  /\ autoAdopt' = ~autoAdopt
  /\ UNCHANGED <<lage, einsatz, stelle, vorgang>>

\* A transaction is lost: the unique constraint rejects it, the side effect
\* fails and is logged by run_side_effect, or the worker dies.
Abbruch(w) ==
  /\ ~Frei(w)
  /\ Beenden(w)
  /\ UNCHANGED <<lage, einsatz, stelle, autoAdopt>>

-----------------------------------------------------------------------------

Init ==
  /\ lage = [l \in Lagen |-> "frei"]
  /\ einsatz = [k \in Schluessel |-> "keiner"]
  /\ stelle = [z \in Zeilen |-> None]
  /\ autoAdopt \in BOOLEAN
  /\ vorgang = [w \in Worker |-> None]

Alarmschritt(w) ==
  \/ \E k \in Schluessel : EinsatzAnfrage(w, k) \/ LageAlarmLesen(w, k)
  \/ EinsatzAnlegen(w) \/ TriggerLesen(w) \/ Spiegeln(w) \/ Eroeffnen(w)
  \/ LageAlarmSchreiben(w)
  \/ Abbruch(w)

Endeschritt(w) ==
  \/ \E l \in Lagen : LageBeendenLesen(w, l)
  \/ LageBeendenSchreiben(w)
  \/ Frei(w) /\ \E k \in Schluessel : EinsatzSchliessen(k)
  \/ Frei(w) /\ EinstellungSpeichern

\* A user opens incidents; a worker in the middle of a request does not serve
\* another one.
Oeffnen(w) ==
  /\ Frei(w)
  /\ \/ \E l \in Lagen : LageNeu(l) \/ LageWiederoeffnen(l)
     \/ \E k \in Schluessel : EinsatzWiederoeffnen(k)

Next == \E w \in Worker : Alarmschritt(w) \/ Endeschritt(w) \/ Oeffnen(w)

Spec == Init /\ [][Next]_vars

-----------------------------------------------------------------------------
(* Properties *)

\* The columns keep their types, and every site's incident exists.
AlarmTypeOK ==
  /\ lage \in [Lagen -> {"frei", "active", "closed"}]
  /\ einsatz \in [Schluessel -> {"keiner", "active", "closed"}]
  /\ stelle \in [Zeilen -> Stelle \cup {None}]
  /\ autoAdopt \in BOOLEAN
  /\ vorgang \in [Worker -> Vorgang \cup {None}]
  /\ \A z \in Belegt : /\ lage[stelle[z].lage] # "frei"
                       /\ stelle[z].gespiegelt => einsatz[stelle[z].key] # "keiner"

\* However often an alarm is sent, to whichever worker, and whatever incidents
\* were running at the time: its incident is mirrored by one site at most.
EinmalGespiegelt ==
  \A y, z \in Belegt :
    (stelle[y].gespiegelt /\ stelle[z].gespiegelt /\ stelle[y].key = stelle[z].key)
      => y = z

\* POST /lage/alarm looks for the key before it enters a site, with no constraint
\* behind it: however its calls overlap, a large-scale incident has at most as many
\* sites for one key as there are workers, those about to be entered included.
LageAlarmJeWorker ==
  \A l \in Lagen, k \in Schluessel :
    Cardinality(MitKey(l, k) \ Gespiegelt(l, k)) + Cardinality(Eintragend(l, k))
      <= Cardinality(Worker)
=============================================================================
