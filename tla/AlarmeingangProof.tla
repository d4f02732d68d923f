-------------------------- MODULE AlarmeingangProof --------------------------
(***************************************************************************)
(* Alarms are mirrored once, for any number of workers, alarms, incidents  *)
(* and sites. What protects the site is that the trigger runs at most once *)
(* per incident: a worker that has the trigger of a key still to do is the *)
(* only one, and no site mirrors the incident yet. At the end, a bound on  *)
(* what nothing protects: the sites entered by /lage/alarm.                *)
(***************************************************************************)
EXTENDS Alarmeingang, FiniteSetTheorems, TLAPS

\* Worker w has created the incident of k and not finished its side effect.
Traegt(w, k) ==
  /\ vorgang[w] # None
  /\ vorgang[w].op \in {"trigger", "spiegeln", "eroeffnen"}
  /\ vorgang[w].key = k

\* The trigger of an incident has one bearer, and nothing is mirrored before.
EinTraeger ==
  \A w \in Worker, k \in Schluessel : Traegt(w, k) =>
    /\ einsatz[k] # "keiner"
    /\ \A v \in Worker : Traegt(v, k) => v = w
    /\ \A z \in Zeilen : stelle[z] # None /\ stelle[z].gespiegelt => stelle[z].key # k

\* The large-scale incident a transaction is going to write to exists.
LageVorhanden ==
  \A w \in Worker :
    vorgang[w] # None /\ vorgang[w].op \in {"spiegeln", "lage_alarm", "beenden"}
      => lage[vorgang[w].lage] # "frei"

\* AlarmTypeOK, EinmalGespiegelt and what their induction needs.
AlarmInv == AlarmTypeOK /\ EinmalGespiegelt /\ EinTraeger /\ LageVorhanden

\* No incident, no site, no transaction at the start.
LEMMA AlarmInit == Init => AlarmInv
BY AlarmNoneAssumption
   DEF Init, AlarmInv, AlarmTypeOK, EinmalGespiegelt, EinTraeger, LageVorhanden,
       Traegt, Belegt

\* A step that leaves sites, incidents and the other workers' transactions
\* alone, and gives w a transaction that does not carry a trigger w did not
\* carry before.
LEMMA NurVorgang ==
  ASSUME AlarmInv, NEW w \in Worker,
         NEW v \in Vorgang \cup {None},
         vorgang' = [vorgang EXCEPT ![w] = v],
         UNCHANGED <<lage, einsatz, stelle>>,
         autoAdopt' \in BOOLEAN,
         \A k \in Schluessel : Traegt(w, k)' => Traegt(w, k),
         v # None /\ v.op \in {"spiegeln", "lage_alarm", "beenden"}
           => lage[v.lage] # "frei"
  PROVE  AlarmInv'
<1>1. AlarmTypeOK'
  BY DEF AlarmInv, AlarmTypeOK, Belegt
<1>2. EinmalGespiegelt'
  BY DEF AlarmInv, EinmalGespiegelt, Belegt
<1>3. \A u \in Worker, k \in Schluessel : Traegt(u, k)' => Traegt(u, k)
  BY DEF AlarmInv, AlarmTypeOK, Traegt
<1>4. EinTraeger'
  BY <1>3 DEF AlarmInv, EinTraeger
<1>5. LageVorhanden'
  BY DEF AlarmInv, AlarmTypeOK, LageVorhanden
<1> QED
  BY <1>1, <1>2, <1>4, <1>5 DEF AlarmInv

\* A site is inserted and its transaction ends: for a mirrored incident the
\* worker carried its trigger.
LEMMA NurStelle ==
  ASSUME AlarmInv, NEW w \in Worker, NEW z \in Zeilen \ Belegt,
         NEW l \in Lagen, NEW k \in Schluessel, NEW g \in BOOLEAN,
         stelle' = [stelle EXCEPT ![z] = [lage |-> l, key |-> k, gespiegelt |-> g]],
         Beenden(w),
         UNCHANGED <<einsatz, autoAdopt>>,
         lage' \in [Lagen -> {"frei", "active", "closed"}],
         \A m \in Lagen : lage[m] # "frei" => lage'[m] # "frei",
         lage'[l] # "frei",
         g => Traegt(w, k)
  PROVE  AlarmInv'
<1> DEFINE neu == [lage |-> l, key |-> k, gespiegelt |-> g]
<1>1. /\ stelle'[z] = neu
      /\ \A y \in Zeilen \ {z} : stelle'[y] = stelle[y]
      /\ stelle' \in [Zeilen -> Stelle \cup {None}]
  BY DEF AlarmInv, AlarmTypeOK, Stelle
<1>2. \A y \in Belegt' : y = z \/ (y \in Belegt /\ stelle'[y] = stelle[y])
  BY <1>1 DEF Belegt
<1>3. g => einsatz[k] # "keiner" /\ \A y \in Belegt : stelle[y].gespiegelt => stelle[y].key # k
  BY DEF AlarmInv, EinTraeger, Belegt
<1>4. AlarmTypeOK'
  <2>1. \A y \in Belegt' : lage'[stelle'[y].lage] # "frei"
    BY <1>1, <1>2 DEF AlarmInv, AlarmTypeOK, Stelle, Belegt
  <2>2. \A y \in Belegt' : stelle'[y].gespiegelt => einsatz'[stelle'[y].key] # "keiner"
    BY <1>1, <1>2, <1>3 DEF AlarmInv, AlarmTypeOK
  <2>3. vorgang' \in [Worker -> Vorgang \cup {None}]
    BY DEF AlarmInv, AlarmTypeOK, Beenden
  <2> QED
    BY <1>1, <2>1, <2>2, <2>3 DEF AlarmInv, AlarmTypeOK
<1>5. EinmalGespiegelt'
  BY <1>1, <1>2, <1>3 DEF AlarmInv, EinmalGespiegelt
<1>6. /\ \A v \in Worker, j \in Schluessel : Traegt(v, j)' => Traegt(v, j) /\ v # w
      /\ \A v \in Worker : vorgang'[v] # None => vorgang'[v] = vorgang[v] /\ v # w
  BY DEF AlarmInv, AlarmTypeOK, Traegt, Beenden
<1>7. EinTraeger'
  <2> SUFFICES ASSUME NEW v \in Worker, NEW j \in Schluessel, Traegt(v, j)'
               PROVE  /\ einsatz[j] # "keiner"
                      /\ \A u \in Worker : Traegt(u, j)' => u = v
                      /\ \A y \in Zeilen : stelle'[y] # None /\ stelle'[y].gespiegelt
                                           => stelle'[y].key # j
    BY DEF EinTraeger
  <2>1. Traegt(v, j) /\ v # w
    BY <1>6
  <2>2. g => k # j
    BY <2>1 DEF AlarmInv, EinTraeger
  <2>3. /\ einsatz[j] # "keiner"
        /\ \A u \in Worker : Traegt(u, j) => u = v
        /\ \A y \in Zeilen : stelle[y] # None /\ stelle[y].gespiegelt => stelle[y].key # j
    BY <2>1 DEF AlarmInv, EinTraeger
  <2> QED
    BY <1>1, <1>6, <2>2, <2>3
<1>8. LageVorhanden'
  <2> SUFFICES ASSUME NEW v \in Worker, vorgang'[v] # None,
                      vorgang'[v].op \in {"spiegeln", "lage_alarm", "beenden"}
               PROVE  lage'[vorgang'[v].lage] # "frei"
    BY DEF LageVorhanden
  <2>1. vorgang'[v] = vorgang[v]
    BY <1>6
  <2>2. vorgang[v].lage \in Lagen /\ lage[vorgang[v].lage] # "frei"
    BY <2>1 DEF AlarmInv, AlarmTypeOK, LageVorhanden, Vorgang
  <2> QED
    BY <2>1, <2>2
<1> QED
  BY <1>4, <1>5, <1>7, <1>8 DEF AlarmInv

\* The states of incidents change, none of them disappears.
LEMMA NurStatus ==
  ASSUME AlarmInv,
         UNCHANGED <<stelle, vorgang>>,
         autoAdopt' \in BOOLEAN,
         lage' \in [Lagen -> {"frei", "active", "closed"}],
         \A m \in Lagen : lage[m] # "frei" => lage'[m] # "frei",
         einsatz' \in [Schluessel -> {"keiner", "active", "closed"}],
         \A k \in Schluessel : einsatz[k] # "keiner" => einsatz'[k] # "keiner"
  PROVE  AlarmInv'
<1>1. AlarmTypeOK'
  BY DEF AlarmInv, AlarmTypeOK, Belegt, Stelle
<1>2. EinmalGespiegelt'
  BY DEF AlarmInv, EinmalGespiegelt, Belegt
<1>3. EinTraeger'
  BY DEF AlarmInv, EinTraeger, Traegt
<1>4. LageVorhanden'
  BY DEF AlarmInv, AlarmTypeOK, LageVorhanden, Vorgang
<1> QED
  BY <1>1, <1>2, <1>3, <1>4 DEF AlarmInv

\* The incident is created: w alone becomes the bearer of its trigger.
LEMMA AlarmAnlegen ==
  ASSUME AlarmInv, NEW w \in Worker, EinsatzAnlegen(w)
  PROVE  AlarmInv'
<1> DEFINE k == vorgang[w].key
<1>1. /\ k \in Schluessel /\ einsatz[k] = "keiner"
      /\ einsatz' \in [Schluessel -> {"keiner", "active", "closed"}]
      /\ einsatz'[k] = "active" /\ \A j \in Schluessel \ {k} : einsatz'[j] = einsatz[j]
      /\ vorgang' = [vorgang EXCEPT ![w] = [op |-> "trigger", key |-> k]]
      /\ vorgang'[w] = [op |-> "trigger", key |-> k]
      /\ \A v \in Worker \ {w} : vorgang'[v] = vorgang[v]
      /\ UNCHANGED <<lage, stelle, autoAdopt>>
  BY DEF EinsatzAnlegen, Frei, Beginnen, AlarmInv, AlarmTypeOK, Vorgang
<1>2. /\ \A v \in Worker : ~Traegt(v, k)
      /\ \A z \in Belegt : stelle[z].gespiegelt => stelle[z].key # k
  BY <1>1 DEF AlarmInv, EinTraeger, AlarmTypeOK
<1>3. AlarmTypeOK'
  <2>1. vorgang' \in [Worker -> Vorgang \cup {None}]
    BY <1>1 DEF AlarmInv, AlarmTypeOK, Vorgang
  <2>2. \A z \in Belegt' : /\ lage'[stelle'[z].lage] # "frei"
                           /\ stelle'[z].gespiegelt => einsatz'[stelle'[z].key] # "keiner"
    BY <1>1, <1>2 DEF AlarmInv, AlarmTypeOK, Belegt, Stelle
  <2> QED
    BY <1>1, <2>1, <2>2 DEF AlarmInv, AlarmTypeOK
<1>4. EinmalGespiegelt'
  BY <1>1 DEF AlarmInv, EinmalGespiegelt, Belegt
<1>5. \A v \in Worker, j \in Schluessel :
        Traegt(v, j)' => (v = w /\ j = k) \/ (v # w /\ j # k /\ Traegt(v, j))
  BY <1>1, <1>2 DEF Traegt
<1>6. EinTraeger'
  <2> SUFFICES ASSUME NEW v \in Worker, NEW j \in Schluessel, Traegt(v, j)'
               PROVE  /\ einsatz'[j] # "keiner"
                      /\ \A u \in Worker : Traegt(u, j)' => u = v
                      /\ \A z \in Zeilen : stelle[z] # None /\ stelle[z].gespiegelt
                                           => stelle[z].key # j
    BY <1>1 DEF EinTraeger
  <2>1. CASE v = w /\ j = k
    BY <2>1, <1>1, <1>2, <1>5 DEF Belegt
  <2>2. CASE v # w /\ j # k /\ Traegt(v, j)
    <3>1. /\ einsatz[j] # "keiner"
          /\ \A u \in Worker : Traegt(u, j) => u = v
          /\ \A z \in Zeilen : stelle[z] # None /\ stelle[z].gespiegelt => stelle[z].key # j
      BY <2>2 DEF AlarmInv, EinTraeger
    <3> QED
      BY <2>2, <3>1, <1>1, <1>5
  <2> QED
    BY <1>5, <2>1, <2>2
<1>7. LageVorhanden'
  BY <1>1 DEF AlarmInv, LageVorhanden
<1> QED
  BY <1>3, <1>4, <1>6, <1>7 DEF AlarmInv

\* The steps of the alarm routes.
LEMMA AlarmInvAlarm ==
  ASSUME AlarmInv, NEW w \in Worker, Alarmschritt(w)
  PROVE  AlarmInv'
<1>0. autoAdopt \in BOOLEAN /\ vorgang[w] \in Vorgang \cup {None}
  BY DEF AlarmInv, AlarmTypeOK
<1>1. CASE \E k \in Schluessel : EinsatzAnfrage(w, k)
  <2> PICK k \in Schluessel : EinsatzAnfrage(w, k)
    BY <1>1
  <2> DEFINE v == [op |-> "anlegen", key |-> k]
  <2>1. v \in Vorgang /\ vorgang' = [vorgang EXCEPT ![w] = v]
    BY DEF EinsatzAnfrage, Beginnen, Vorgang
  <2>2. \A j \in Schluessel : Traegt(w, j)' => Traegt(w, j)
    BY <2>1 DEF Traegt, AlarmInv, AlarmTypeOK
  <2> QED
    BY <1>0, <2>1, <2>2, NurVorgang DEF EinsatzAnfrage
<1>2. CASE \E k \in Schluessel : LageAlarmLesen(w, k)
  <2> PICK k \in Schluessel, l \in Lagen :
        /\ lage[l] = "active"
        /\ Beginnen(w, [op |-> "lage_alarm", key |-> k, lage |-> l])
        /\ UNCHANGED <<lage, einsatz, stelle, autoAdopt>>
    BY <1>2 DEF LageAlarmLesen, Aktive
  <2> DEFINE v == [op |-> "lage_alarm", key |-> k, lage |-> l]
  <2>1. v \in Vorgang /\ vorgang' = [vorgang EXCEPT ![w] = v]
    BY DEF Beginnen, Vorgang
  <2>2. \A j \in Schluessel : Traegt(w, j)' => Traegt(w, j)
    BY <2>1 DEF Traegt, AlarmInv, AlarmTypeOK
  <2> QED
    BY <1>0, <2>1, <2>2, NurVorgang
<1>3. CASE EinsatzAnlegen(w)
  BY <1>3, AlarmAnlegen
<1>4. CASE TriggerLesen(w)
  <2> DEFINE k == vorgang[w].key
  <2>1. k \in Schluessel /\ Traegt(w, k) /\ UNCHANGED <<lage, einsatz, stelle, autoAdopt>>
    BY <1>0, <1>4 DEF TriggerLesen, Traegt, Frei, Vorgang
  <2>2. CASE \E l \in Aktive : Beginnen(w, [op |-> "spiegeln", key |-> k, lage |-> l])
    <3> PICK l \in Aktive : Beginnen(w, [op |-> "spiegeln", key |-> k, lage |-> l])
      BY <2>2
    <3> DEFINE v == [op |-> "spiegeln", key |-> k, lage |-> l]
    <3>1. v \in Vorgang /\ vorgang' = [vorgang EXCEPT ![w] = v] /\ lage[l] # "frei"
      BY <2>1 DEF Beginnen, Vorgang, Aktive
    <3>2. \A j \in Schluessel : Traegt(w, j)' => Traegt(w, j)
      BY <2>1, <3>1 DEF Traegt, AlarmInv, AlarmTypeOK
    <3> QED
      BY <1>0, <2>1, <3>1, <3>2, NurVorgang
  <2>3. CASE Beginnen(w, [op |-> "eroeffnen", key |-> k])
    <3> DEFINE v == [op |-> "eroeffnen", key |-> k]
    <3>1. v \in Vorgang /\ vorgang' = [vorgang EXCEPT ![w] = v]
      BY <2>1, <2>3 DEF Beginnen, Vorgang
    <3>2. \A j \in Schluessel : Traegt(w, j)' => Traegt(w, j)
      BY <2>1, <3>1 DEF Traegt, AlarmInv, AlarmTypeOK
    <3> QED
      BY <1>0, <2>1, <3>1, <3>2, NurVorgang
  <2>4. CASE Beenden(w)
    <3>1. \A j \in Schluessel : ~Traegt(w, j)'
      BY <2>4 DEF Traegt, Beenden, AlarmInv, AlarmTypeOK
    <3> QED
      BY <1>0, <2>1, <2>4, <3>1, NurVorgang DEF Beenden
  <2> QED
    BY <1>4, <2>2, <2>3, <2>4 DEF TriggerLesen
<1>5. CASE Spiegeln(w)
  <2> DEFINE v == vorgang[w]
  <2>1. v \in Vorgang /\ v.op = "spiegeln" /\ v # None
    BY <1>0, <1>5 DEF Spiegeln, Frei
  <2>2. v.key \in Schluessel /\ v.lage \in Lagen /\ Traegt(w, v.key) /\ lage[v.lage] # "frei"
    BY <2>1 DEF Vorgang, Traegt, AlarmInv, LageVorhanden
  <2> PICK z \in Zeilen \ Belegt :
        stelle' = [stelle EXCEPT ![z] = [lage |-> v.lage, key |-> v.key, gespiegelt |-> TRUE]]
    BY <1>5 DEF Spiegeln, StelleEinfuegen
  <2> QED
    BY <1>5, <2>2, NurStelle DEF Spiegeln, AlarmInv, AlarmTypeOK
<1>6. CASE Eroeffnen(w)
  <2> DEFINE k == vorgang[w].key
  <2>1. k \in Schluessel /\ Traegt(w, k)
    BY <1>0, <1>6 DEF Eroeffnen, Traegt, Frei, Vorgang
  <2> PICK l \in Lagen, z \in Zeilen \ Belegt :
        /\ lage' = [lage EXCEPT ![l] = "active"]
        /\ stelle' = [stelle EXCEPT ![z] = [lage |-> l, key |-> k, gespiegelt |-> TRUE]]
    BY <1>6 DEF Eroeffnen, StelleEinfuegen
  <2>2. /\ lage' \in [Lagen -> {"frei", "active", "closed"}]
        /\ \A m \in Lagen : lage[m] # "frei" => lage'[m] # "frei"
        /\ lage'[l] # "frei"
    BY DEF AlarmInv, AlarmTypeOK
  <2> QED
    BY <1>6, <2>1, <2>2, NurStelle DEF Eroeffnen
<1>7. CASE LageAlarmSchreiben(w)
  <2> DEFINE v == vorgang[w]
  <2>1. v \in Vorgang /\ v.op = "lage_alarm" /\ v # None
    BY <1>0, <1>7 DEF LageAlarmSchreiben, Frei
  <2>2. v.key \in Schluessel /\ v.lage \in Lagen /\ lage[v.lage] # "frei"
    BY <2>1 DEF Vorgang, AlarmInv, LageVorhanden
  <2> PICK z \in Zeilen \ Belegt :
        stelle' = [stelle EXCEPT ![z] = [lage |-> v.lage, key |-> v.key, gespiegelt |-> FALSE]]
    BY <1>7 DEF LageAlarmSchreiben, StelleEinfuegen
  <2> QED
    BY <1>7, <2>2, NurStelle DEF LageAlarmSchreiben, AlarmInv, AlarmTypeOK
<1>8. CASE Abbruch(w)
  <2>1. \A j \in Schluessel : ~Traegt(w, j)'
    BY <1>8 DEF Abbruch, Traegt, Beenden, AlarmInv, AlarmTypeOK
  <2> QED
    BY <1>0, <1>8, <2>1, NurVorgang DEF Abbruch, Beenden
<1> QED
  BY <1>1, <1>2, <1>3, <1>4, <1>5, <1>6, <1>7, <1>8 DEF Alarmschritt

\* The steps of the users' routes.
LEMMA AlarmInvBedienung ==
  ASSUME AlarmInv, NEW w \in Worker, Endeschritt(w) \/ Oeffnen(w)
  PROVE  AlarmInv'
<1>0. /\ autoAdopt \in BOOLEAN /\ vorgang[w] \in Vorgang \cup {None}
      /\ lage \in [Lagen -> {"frei", "active", "closed"}]
      /\ einsatz \in [Schluessel -> {"keiner", "active", "closed"}]
  BY DEF AlarmInv, AlarmTypeOK
<1>1. CASE \E l \in Lagen : LageBeendenLesen(w, l)
  <2> PICK l \in Lagen : LageBeendenLesen(w, l)
    BY <1>1
  <2> PICK e \in SUBSET Schluessel :
        vorgang' = [vorgang EXCEPT ![w] = [op |-> "beenden", lage |-> l, einsaetze |-> e]]
    BY DEF LageBeendenLesen, Beginnen
  <2> DEFINE v == [op |-> "beenden", lage |-> l, einsaetze |-> e]
  <2>1. v \in Vorgang /\ lage[l] # "frei"
    BY DEF LageBeendenLesen, Vorgang
  <2>2. \A j \in Schluessel : Traegt(w, j)' => Traegt(w, j)
    BY DEF Traegt, AlarmInv, AlarmTypeOK
  <2> QED
    BY <1>0, <2>1, <2>2, NurVorgang DEF LageBeendenLesen
<1>2. CASE LageBeendenSchreiben(w)
  <2> DEFINE v == vorgang[w]
  <2>1. v \in Vorgang /\ v.op = "beenden" /\ v # None
    BY <1>0, <1>2 DEF LageBeendenSchreiben, Frei
  <2>2. v.lage \in Lagen /\ v.einsaetze \subseteq Schluessel
    BY <2>1 DEF Vorgang
  <2>3. /\ lage' \in [Lagen -> {"frei", "active", "closed"}]
        /\ \A m \in Lagen : lage[m] # "frei" => lage'[m] # "frei"
        /\ einsatz' \in [Schluessel -> {"keiner", "active", "closed"}]
        /\ \A k \in Schluessel : einsatz[k] # "keiner" => einsatz'[k] # "keiner"
        /\ UNCHANGED <<stelle, autoAdopt>>
        /\ vorgang' = [vorgang EXCEPT ![w] = None]
    BY <1>0, <1>2, <2>2 DEF LageBeendenSchreiben, Beenden
  <2>4. /\ vorgang' \in [Worker -> Vorgang \cup {None}]
        /\ \A u \in Worker : vorgang'[u] # None => vorgang'[u] = vorgang[u]
    BY <2>3 DEF AlarmInv, AlarmTypeOK
  <2>5. AlarmTypeOK'
    BY <1>0, <2>3, <2>4 DEF AlarmInv, AlarmTypeOK, Belegt, Stelle
  <2>6. EinmalGespiegelt'
    BY <2>3 DEF AlarmInv, EinmalGespiegelt, Belegt
  <2>7. EinTraeger'
    BY <2>3, <2>4 DEF AlarmInv, EinTraeger, Traegt
  <2>8. LageVorhanden'
    BY <2>3, <2>4 DEF AlarmInv, AlarmTypeOK, LageVorhanden, Vorgang
  <2> QED
    BY <2>5, <2>6, <2>7, <2>8 DEF AlarmInv
<1>3. CASE \E k \in Schluessel : EinsatzSchliessen(k) \/ EinsatzWiederoeffnen(k)
  BY <1>0, <1>3, NurStatus DEF EinsatzSchliessen, EinsatzWiederoeffnen
<1>4. CASE EinstellungSpeichern
  BY <1>0, <1>4, NurStatus DEF EinstellungSpeichern
<1>5. CASE \E l \in Lagen : LageNeu(l) \/ LageWiederoeffnen(l)
  BY <1>0, <1>5, NurStatus DEF LageNeu, LageWiederoeffnen
<1> QED
  BY <1>1, <1>2, <1>3, <1>4, <1>5 DEF Endeschritt, Oeffnen

LEMMA AlarmSchritt == AlarmInv /\ [Next]_vars => AlarmInv'
<1> SUFFICES ASSUME AlarmInv, [Next]_vars PROVE AlarmInv'
  OBVIOUS
<1>1. CASE UNCHANGED vars
  BY <1>1 DEF vars, AlarmInv, AlarmTypeOK, EinmalGespiegelt, EinTraeger,
              LageVorhanden, Traegt, Belegt
<1>2. CASE Next
  BY <1>2, AlarmInvAlarm, AlarmInvBedienung DEF Next
<1> QED
  BY <1>1, <1>2

\* The tables keep their types, and every site of an alarm refers to an incident
\* and a large-scale incident that exist.
THEOREM AlarmTyp == Spec => []AlarmTypeOK
<1>1. AlarmInv => AlarmTypeOK
  BY DEF AlarmInv
<1> QED
  BY <1>1, AlarmInit, AlarmSchritt, PTL DEF Spec

\* However often an alarm is sent and by however many workers it is handled,
\* one site at most mirrors its incident (create_incident_api and
\* handle_alarm_trigger, adopt_incident_as_site).
THEOREM AlarmEinmalGespiegelt == Spec => []EinmalGespiegelt
<1>1. AlarmInv => EinmalGespiegelt
  BY DEF AlarmInv
<1> QED
  BY <1>1, AlarmInit, AlarmSchritt, PTL DEF Spec

-----------------------------------------------------------------------------
(* The bound on the duplicates of /lage/alarm. A worker takes a key into its *)
(* transaction only while no site has the key, so then the open calls count  *)
(* alone; its insert moves one from the second summand to the first.         *)

\* The sites of l that calls of /lage/alarm entered for k.
Eingetragen(l, k) == MitKey(l, k) \ Gespiegelt(l, k)

\* Both summands are numbers, and a part of either is no larger.
LEMMA Endlich ==
  ASSUME NEW l, NEW k
  PROVE  /\ IsFiniteSet(Eingetragen(l, k)) /\ IsFiniteSet(Eintragend(l, k))
         /\ Cardinality(Eingetragen(l, k)) \in Nat
         /\ Cardinality(Eintragend(l, k)) \in Nat
         /\ Cardinality(Eintragend(l, k)) <= Cardinality(Worker)
         /\ Cardinality(Worker) \in Nat
<1>1. Eingetragen(l, k) \subseteq Zeilen /\ Eintragend(l, k) \subseteq Worker
  BY DEF Eingetragen, MitKey, Belegt, Eintragend
<1> QED
  BY <1>1, EndlichAssumption, FS_Subset, FS_CardinalityType

\* The state after the step, where sites and calls of l and k became no more.
LEMMA NichtMehr ==
  ASSUME NEW l \in Lagen, NEW k \in Schluessel, LageAlarmJeWorker,
         Eingetragen(l, k)' \subseteq Eingetragen(l, k),
         Eintragend(l, k)' \subseteq Eintragend(l, k)
  PROVE  Cardinality(Eingetragen(l, k)') + Cardinality(Eintragend(l, k)')
           <= Cardinality(Worker)
<1>1. /\ Cardinality(Eingetragen(l, k)') \in Nat
      /\ Cardinality(Eingetragen(l, k)') <= Cardinality(Eingetragen(l, k))
      /\ Cardinality(Eintragend(l, k)') \in Nat
      /\ Cardinality(Eintragend(l, k)') <= Cardinality(Eintragend(l, k))
  BY Endlich, FS_Subset, FS_CardinalityType
<1>2. Cardinality(Eingetragen(l, k)) + Cardinality(Eintragend(l, k)) <= Cardinality(Worker)
  BY DEF LageAlarmJeWorker, Eingetragen
<1> QED
  BY <1>1, <1>2, Endlich

\* A step that enters no site of /lage/alarm and begins no call of it.
LEMMA KeinEintrag ==
  ASSUME LageAlarmJeWorker,
         \A l \in Lagen, k \in Schluessel :
           /\ Eingetragen(l, k)' \subseteq Eingetragen(l, k)
           /\ Eintragend(l, k)' \subseteq Eintragend(l, k)
  PROVE  LageAlarmJeWorker'
BY NichtMehr DEF LageAlarmJeWorker, Eingetragen

\* A transaction that ends, or that is not one of /lage/alarm.
LEMMA AndererVorgang ==
  ASSUME AlarmTypeOK, NEW w \in Worker, NEW v,
         vorgang' = [vorgang EXCEPT ![w] = v],
         v = None \/ v.op # "lage_alarm",
         NEW l \in Lagen, NEW k \in Schluessel
  PROVE  Eintragend(l, k)' \subseteq Eintragend(l, k) \ {w}
<1>1. ASSUME NEW u \in Eintragend(l, k)'
      PROVE  u \in Eintragend(l, k) \ {w}
  <2>1. u \in Worker /\ vorgang'[u] # None
        /\ vorgang'[u] = [op |-> "lage_alarm", key |-> k, lage |-> l]
    BY DEF Eintragend, Frei
  <2>2. vorgang'[u].op = "lage_alarm"
    BY <2>1
  <2>3. u # w
    BY <2>1, <2>2 DEF AlarmTypeOK
  <2>4. vorgang'[u] = vorgang[u]
    BY <2>1, <2>3 DEF AlarmTypeOK
  <2> QED
    BY <2>1, <2>3, <2>4 DEF Eintragend, Frei
<1> QED
  BY <1>1

\* A mirrored site is none of /lage/alarm.
LEMMA SpiegelZaehltNicht ==
  ASSUME AlarmTypeOK, NEW z \in Zeilen \ Belegt, NEW m, NEW j,
         stelle' = [stelle EXCEPT ![z] = [lage |-> m, key |-> j, gespiegelt |-> TRUE]],
         NEW l \in Lagen, NEW k \in Schluessel
  PROVE  Eingetragen(l, k)' \subseteq Eingetragen(l, k)
BY DEF AlarmTypeOK, Eingetragen, MitKey, Gespiegelt, Belegt

\* A call of /lage/alarm begins: no site has its key.
LEMMA LesenBegrenzt ==
  ASSUME AlarmTypeOK, LageAlarmJeWorker,
         NEW w \in Worker, NEW j \in Schluessel, LageAlarmLesen(w, j)
  PROVE  LageAlarmJeWorker'
<1> PICK m \in Aktive : /\ MitKey(m, j) = {}
                        /\ Beginnen(w, [op |-> "lage_alarm", key |-> j, lage |-> m])
  BY DEF LageAlarmLesen
<1>1. ASSUME NEW l \in Lagen, NEW k \in Schluessel
      PROVE  Cardinality(Eingetragen(l, k)') + Cardinality(Eintragend(l, k)')
               <= Cardinality(Worker)
  <2>1. Eingetragen(l, k)' = Eingetragen(l, k)
    BY DEF LageAlarmLesen, Eingetragen, MitKey, Gespiegelt, Belegt
  <2>2. CASE l = m /\ k = j
    <3>1. Cardinality(Eingetragen(l, k)') = 0
      BY <2>1, <2>2, FS_EmptySet DEF Eingetragen
    <3>2. Eintragend(l, k)' \subseteq Worker
      BY DEF Eintragend
    <3>3. /\ Cardinality(Eintragend(l, k)') \in Nat
          /\ Cardinality(Eintragend(l, k)') <= Cardinality(Worker)
      BY <3>2, EndlichAssumption, FS_Subset, FS_CardinalityType
    <3> QED
      BY <3>1, <3>3
  <2>3. CASE ~(l = m /\ k = j)
    <3>1. ASSUME NEW u \in Eintragend(l, k)'
          PROVE  u \in Eintragend(l, k)
      <4>1. u \in Worker /\ vorgang'[u] # None
            /\ vorgang'[u] = [op |-> "lage_alarm", key |-> k, lage |-> l]
        BY <3>1 DEF Eintragend, Frei
      <4>2. vorgang'[u].key = k /\ vorgang'[u].lage = l
        BY <4>1
      <4>3. u # w
        BY <2>3, <4>2 DEF Beginnen, AlarmTypeOK
      <4>4. vorgang'[u] = vorgang[u]
        BY <4>1, <4>3 DEF Beginnen, AlarmTypeOK
      <4> QED
        BY <4>1, <4>4 DEF Eintragend, Frei
    <3> QED
      BY <2>1, <3>1, NichtMehr
  <2> QED
    BY <2>2, <2>3
<1> QED
  BY <1>1 DEF LageAlarmJeWorker, Eingetragen

\* It commits: its site is one more, it is one call less.
LEMMA SchreibenBegrenzt ==
  ASSUME AlarmTypeOK, LageAlarmJeWorker, NEW w \in Worker, LageAlarmSchreiben(w)
  PROVE  LageAlarmJeWorker'
<1> DEFINE m == vorgang[w].lage
           j == vorgang[w].key
<1>1. ~Frei(w) /\ vorgang[w] = [op |-> "lage_alarm", key |-> j, lage |-> m]
  BY DEF LageAlarmSchreiben, AlarmTypeOK, Frei, Vorgang
<1> PICK z \in Zeilen \ Belegt :
      stelle' = [stelle EXCEPT ![z] = [lage |-> m, key |-> j, gespiegelt |-> FALSE]]
  BY DEF LageAlarmSchreiben, StelleEinfuegen
<1>2. ASSUME NEW l \in Lagen, NEW k \in Schluessel
      PROVE  Cardinality(Eingetragen(l, k)') + Cardinality(Eintragend(l, k)')
               <= Cardinality(Worker)
  <2>1. Eintragend(l, k)' \subseteq Eintragend(l, k) \ {w}
    BY AndererVorgang DEF LageAlarmSchreiben, Beenden
  <2>2. CASE l = m /\ k = j
    <3>1. Eingetragen(l, k)' \subseteq Eingetragen(l, k) \cup {z}
      BY DEF AlarmTypeOK, Eingetragen, MitKey, Gespiegelt, Belegt
    <3>2. w \in Eintragend(l, k)
      BY <1>1, <2>2 DEF Eintragend
    <3>3. /\ IsFiniteSet(Eingetragen(l, k) \cup {z})
          /\ Cardinality(Eingetragen(l, k) \cup {z}) <= Cardinality(Eingetragen(l, k)) + 1
          /\ Cardinality(Eingetragen(l, k) \cup {z}) \in Nat
      <4>1. z \notin Eingetragen(l, k)
        BY DEF Eingetragen, MitKey
      <4>2. IsFiniteSet(Eingetragen(l, k)) /\ Cardinality(Eingetragen(l, k)) \in Nat
        BY Endlich
      <4>3. /\ IsFiniteSet(Eingetragen(l, k) \cup {z})
            /\ Cardinality(Eingetragen(l, k) \cup {z}) = Cardinality(Eingetragen(l, k)) + 1
        BY <4>1, <4>2, FS_AddElement
      <4> QED
        BY <4>2, <4>3
    <3>4. /\ Cardinality(Eingetragen(l, k)') \in Nat
          /\ Cardinality(Eingetragen(l, k)') <= Cardinality(Eingetragen(l, k) \cup {z})
      BY <3>1, <3>3, FS_Subset, FS_CardinalityType
    <3>5. /\ IsFiniteSet(Eintragend(l, k) \ {w})
          /\ Cardinality(Eintragend(l, k) \ {w}) = Cardinality(Eintragend(l, k)) - 1
      BY <3>2, Endlich, FS_RemoveElement
    <3>6. /\ Cardinality(Eintragend(l, k)') \in Nat
          /\ Cardinality(Eintragend(l, k)') <= Cardinality(Eintragend(l, k) \ {w})
      BY <2>1, <3>5, FS_Subset, FS_CardinalityType
    <3>7. Cardinality(Eingetragen(l, k)) + Cardinality(Eintragend(l, k)) <= Cardinality(Worker)
      BY DEF LageAlarmJeWorker, Eingetragen
    <3> HIDE DEF m, j
    <3> QED
      BY <3>3, <3>4, <3>5, <3>6, <3>7, Endlich
  <2>3. CASE ~(l = m /\ k = j)
    <3>1. Eingetragen(l, k)' \subseteq Eingetragen(l, k)
      BY <2>3 DEF AlarmTypeOK, Eingetragen, MitKey, Gespiegelt, Belegt
    <3> QED
      BY <2>1, <3>1, NichtMehr
  <2> QED
    BY <2>2, <2>3
<1> QED
  BY <1>2 DEF LageAlarmJeWorker, Eingetragen

\* Every other step of a worker: neither summand grows.
LEMMA UebrigeBegrenzt ==
  ASSUME AlarmTypeOK, LageAlarmJeWorker, NEW w \in Worker,
         Alarmschritt(w) \/ Endeschritt(w) \/ Oeffnen(w),
         ~LageAlarmSchreiben(w), \A k \in Schluessel : ~LageAlarmLesen(w, k)
  PROVE  LageAlarmJeWorker'
<1>1. ASSUME NEW v, vorgang' = [vorgang EXCEPT ![w] = v],
             v = None \/ v.op # "lage_alarm",
             NEW l \in Lagen, NEW k \in Schluessel
      PROVE  Eintragend(l, k)' \subseteq Eintragend(l, k)
  BY <1>1, AndererVorgang
<1>2. ASSUME UNCHANGED stelle, NEW l \in Lagen, NEW k \in Schluessel
      PROVE  Eingetragen(l, k)' \subseteq Eingetragen(l, k)
  BY <1>2 DEF Eingetragen, MitKey, Gespiegelt, Belegt
<1>3. ASSUME UNCHANGED vorgang, NEW l \in Lagen, NEW k \in Schluessel
      PROVE  Eintragend(l, k)' \subseteq Eintragend(l, k)
  BY <1>3 DEF Eintragend, Frei
<1>4. CASE UNCHANGED <<stelle, vorgang>>
  BY <1>2, <1>3, <1>4, KeinEintrag
<1>5. ASSUME UNCHANGED stelle,
             NEW v, Beginnen(w, v), v = None \/ v.op # "lage_alarm"
      PROVE  LageAlarmJeWorker'
  BY <1>1, <1>2, <1>5, KeinEintrag DEF Beginnen
<1>10. ASSUME UNCHANGED stelle, Beenden(w)
      PROVE  LageAlarmJeWorker'
  BY <1>5, <1>10 DEF Beenden, Beginnen
<1>6. CASE Spiegeln(w) \/ Eroeffnen(w)
  <2>1. vorgang' = [vorgang EXCEPT ![w] = None]
    BY <1>6 DEF Spiegeln, Eroeffnen, Beenden
  <2>2. PICK l \in Lagen \cup {vorgang[w].lage}, k \in {vorgang[w].key} :
          StelleEinfuegen(l, k, TRUE)
    BY <1>6 DEF Spiegeln, Eroeffnen
  <2>3. \A n \in Lagen, i \in Schluessel : Eingetragen(n, i)' \subseteq Eingetragen(n, i)
    BY <2>2, SpiegelZaehltNicht DEF StelleEinfuegen
  <2> QED
    BY <1>1, <2>1, <2>3, KeinEintrag
<1>7. CASE \/ \E k \in Schluessel : EinsatzAnfrage(w, k)
           \/ EinsatzAnlegen(w) \/ TriggerLesen(w) \/ Abbruch(w)
  <2>1. ASSUME NEW k \in Schluessel, EinsatzAnfrage(w, k)
        PROVE  LageAlarmJeWorker'
    <3> DEFINE v == [op |-> "anlegen", key |-> k]
    <3>1. UNCHANGED stelle /\ Beginnen(w, v) /\ v.op # "lage_alarm"
      BY <2>1 DEF EinsatzAnfrage
    <3> QED
      BY <1>5, <3>1
  <2>2. CASE EinsatzAnlegen(w)
    <3> DEFINE v == [op |-> "trigger", key |-> vorgang[w].key]
    <3>1. UNCHANGED stelle /\ Beginnen(w, v) /\ v.op # "lage_alarm"
      BY <2>2 DEF EinsatzAnlegen
    <3> QED
      BY <1>5, <3>1
  <2>3. CASE TriggerLesen(w)
    <3>1. UNCHANGED stelle
      BY <2>3 DEF TriggerLesen
    <3>2. \/ \E v : Beginnen(w, v) /\ v.op # "lage_alarm"
          \/ Beenden(w)
      <4>1. ASSUME NEW l \in Aktive
            PROVE  [op |-> "spiegeln", key |-> vorgang[w].key, lage |-> l].op # "lage_alarm"
        OBVIOUS
      <4>2. [op |-> "eroeffnen", key |-> vorgang[w].key].op # "lage_alarm"
        OBVIOUS
      <4> QED
        BY <2>3, <4>1, <4>2 DEF TriggerLesen
    <3> QED
      BY <1>5, <1>10, <3>1, <3>2
  <2>4. CASE Abbruch(w)
    BY <1>10, <2>4 DEF Abbruch
  <2> QED
    BY <1>7, <2>1, <2>2, <2>3, <2>4
<1>8. CASE \/ \E l \in Lagen : LageBeendenLesen(w, l)
           \/ LageBeendenSchreiben(w)
  <2>1. ASSUME NEW l \in Lagen, LageBeendenLesen(w, l)
        PROVE  LageAlarmJeWorker'
    <3> PICK e : Beginnen(w, [op |-> "beenden", lage |-> l, einsaetze |-> e])
      BY <2>1 DEF LageBeendenLesen
    <3> DEFINE v == [op |-> "beenden", lage |-> l, einsaetze |-> e]
    <3>1. UNCHANGED stelle /\ Beginnen(w, v) /\ v.op # "lage_alarm"
      BY <2>1 DEF LageBeendenLesen
    <3> QED
      BY <1>5, <3>1
  <2>2. CASE LageBeendenSchreiben(w)
    BY <1>10, <2>2 DEF LageBeendenSchreiben
  <2> QED
    BY <1>8, <2>1, <2>2
<1>9. CASE \/ \E k \in Schluessel : EinsatzSchliessen(k) \/ EinsatzWiederoeffnen(k)
           \/ EinstellungSpeichern
           \/ \E l \in Lagen : LageNeu(l) \/ LageWiederoeffnen(l)
  BY <1>4, <1>9 DEF EinsatzSchliessen, EinsatzWiederoeffnen, EinstellungSpeichern,
                    LageNeu, LageWiederoeffnen
<1> QED
  BY <1>6, <1>7, <1>8, <1>9 DEF Alarmschritt, Endeschritt, Oeffnen

\* However many calls of /lage/alarm overlap, and however many incidents are
\* opened and ended meanwhile, a large-scale incident has at most as many of
\* their sites for one key as there are workers (lage_alarm).
THEOREM LageAlarmBegrenzt == Spec => []LageAlarmJeWorker
<1>1. Init => LageAlarmJeWorker
  <2> SUFFICES ASSUME Init, NEW l \in Lagen, NEW k \in Schluessel
               PROVE  Cardinality(Eingetragen(l, k)) + Cardinality(Eintragend(l, k))
                        <= Cardinality(Worker)
    BY DEF LageAlarmJeWorker, Eingetragen
  <2>1. Eingetragen(l, k) = {} /\ Eintragend(l, k) = {}
    BY DEF Init, Eingetragen, MitKey, Belegt, Eintragend, Frei
  <2> QED
    BY <2>1, FS_EmptySet, Endlich
<1>2. AlarmInv /\ LageAlarmJeWorker /\ [Next]_vars => LageAlarmJeWorker'
  <2> SUFFICES ASSUME AlarmInv, LageAlarmJeWorker, [Next]_vars
               PROVE  LageAlarmJeWorker'
    OBVIOUS
  <2>1. CASE UNCHANGED vars
    BY <2>1 DEF vars, LageAlarmJeWorker, MitKey, Gespiegelt, Belegt, Eintragend, Frei
  <2>2. CASE Next
    BY <2>2, LesenBegrenzt, SchreibenBegrenzt, UebrigeBegrenzt DEF Next, AlarmInv
  <2> QED
    BY <2>1, <2>2
<1> QED
  BY <1>1, <1>2, AlarmInit, AlarmSchritt, PTL DEF Spec
=============================================================================
