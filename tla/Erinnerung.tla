----------------------------- MODULE Erinnerung -----------------------------
(***************************************************************************)
(* Reminders of due tasks and messages: every worker looks for them twice  *)
(* a minute, marks them as shown, commits, and tells the browsers of its   *)
(* own registry and the leader's phone one item after another.             *)
(*                                                                         *)
(* Source: app/services/task_reminder.py, update_task_endpoint and         *)
(* create_message in app/routers/ui_incident.py, close_incident and        *)
(* reopen_incident in app/services/incident_service.py.                    *)
(*                                                                         *)
(* The look and the commit of a worker are one step of its event loop, but *)
(* the other worker's requests run between them: the commit writes         *)
(* popup_shown alone, whatever the row has become. The worker set is chosen*)
(* at the start: one, or the two of the deployment. A due date is "spaeter"*)
(* or "jetzt" (reached). Every item is of an incident of its own.          *)
(***************************************************************************)
EXTENDS Basis, Naturals, FiniteSets

CONSTANTS
  Eintraege,   \* tasks and messages with a due date
  MaxEingriffe,  \* bound: changes by the users
  MaxAbbruch     \* bound: restarts of workers

ASSUME ErinAssumption == IsFiniteSet(Workers)

VARIABLES
  laufend,     \* the workers of this deployment
  faellig,     \* due_at: None, "spaeter" or "jetzt"
  gezeigt,     \* popup_shown
  fertig,      \* is_done or is_cancelled
  aktiv,       \* is the incident of an item active
  pass,        \* per worker: what its loop is at
  gemeldet,    \* history: how often an item was told for its due date
  verloren,    \* history: items marked but told to nobody, since their incident
               \* was closed or the worker was restarted
  termine,     \* history: due dates an item had
  eingriffe, abbruch   \* bounds

erinVars == <<laufend, faellig, gezeigt, fertig, aktiv, pass, gemeldet, verloren,
              termine, eingriffe, abbruch>>

Schlafend == [stand |-> "schlaeft", markiert |-> {}, rest |-> {}]

-----------------------------------------------------------------------------
(* Operation of the board *)

\* A request is served by a worker that is not between the look and the commit.
Bedienbar ==
  /\ \E w \in laufend : pass[w].stand # "markiert"
  /\ eingriffe < MaxEingriffe /\ eingriffe' = eingriffe + 1

\* A new due date is told again.
NeuZuMelden(i) == [gezeigt EXCEPT ![i] = FALSE]

\* update_task_endpoint with minutes
TerminSetzen(i) ==
  /\ Bedienbar
  /\ faellig' = [faellig EXCEPT ![i] = "spaeter"]
  /\ gezeigt' = NeuZuMelden(i)
  /\ termine' = [termine EXCEPT ![i] = @ + 1]
  /\ gemeldet' = [gemeldet EXCEPT ![i] = 0]
  /\ verloren' = verloren \ {i}
  /\ UNCHANGED <<laufend, fertig, aktiv, pass, abbruch>>

\* update_task_endpoint without: the form always offers 0, so that saving a
\* text also takes the due date away.
TerminLoeschen(i) ==
  /\ Bedienbar /\ faellig[i] # None
  /\ faellig' = [faellig EXCEPT ![i] = None]
  /\ UNCHANGED <<laufend, gezeigt, fertig, aktiv, pass, gemeldet, verloren,
                 termine, abbruch>>

\* set_task_status, toggle_message and the like: finished, or open again.
FertigSetzen(i) ==
  /\ Bedienbar
  /\ fertig' = [fertig EXCEPT ![i] = ~@]
  /\ UNCHANGED <<laufend, faellig, gezeigt, aktiv, pass, gemeldet, verloren,
                 termine, abbruch>>

\* close_incident, reopen_incident
StatusWechseln(i) ==
  /\ Bedienbar
  /\ aktiv' = [aktiv EXCEPT ![i] = ~@]
  /\ UNCHANGED <<laufend, faellig, gezeigt, fertig, pass, gemeldet, verloren,
                 termine, abbruch>>

ZeitVergeht(i) ==
  /\ faellig[i] = "spaeter"
  /\ faellig' = [faellig EXCEPT ![i] = "jetzt"]
  /\ UNCHANGED <<laufend, gezeigt, fertig, aktiv, pass, gemeldet, verloren,
                 termine, eingriffe, abbruch>>

-----------------------------------------------------------------------------
(* The loop of a worker *)

\* Mutant: an item is told the first time only.
FaelligeErstmals ==
  {i \in Eintraege : faellig[i] = "jetzt" /\ ~gezeigt[i] /\ ~fertig[i] /\ termine[i] = 0}

Faellige ==
  {i \in Eintraege : faellig[i] = "jetzt" /\ ~gezeigt[i] /\ ~fertig[i]}

\* _check_due_messages_sync: all due items are marked in the session, those of
\* closed incidents too; it is committed only if there is somebody to tell.
FaelligLesen(w) ==
  LET due == {i \in Faellige : aktiv[i]}
  IN  /\ w \in laufend /\ pass[w].stand = "schlaeft" /\ due # {}
      /\ pass' = [pass EXCEPT ![w] = [stand |-> "markiert", markiert |-> Faellige,
                                      rest |-> {<<i, termine[i]>> : i \in due}]]
      /\ UNCHANGED <<laufend, faellig, gezeigt, fertig, aktiv, gemeldet, verloren,
                     termine, eingriffe, abbruch>>

\* commit: popup_shown of the rows that were read, as they are now.
MarkenSchreiben(w) ==
  /\ pass[w].stand = "markiert"
  /\ gezeigt' = [i \in Eintraege |-> gezeigt[i] \/ i \in pass[w].markiert]
  /\ verloren' = verloren \cup (pass[w].markiert \ {r[1] : r \in pass[w].rest})
  /\ pass' = [pass EXCEPT ![w].stand = "meldet"]
  /\ UNCHANGED <<laufend, faellig, fertig, aktiv, gemeldet, termine, eingriffe, abbruch>>

RestNach(rest, r) == rest \ {r}

\* _notify_due: the next item; a broadcast or a push that fails is logged.
Melden(w) ==
  /\ pass[w].stand = "meldet"
  /\ \/ /\ pass[w].rest = {}
        /\ pass' = [pass EXCEPT ![w] = Schlafend]
        /\ UNCHANGED gemeldet
     \/ \E r \in pass[w].rest :
          /\ pass' = [pass EXCEPT ![w].rest = RestNach(@, r)]
          /\ gemeldet' = IF r[2] = termine[r[1]]
                           THEN [gemeldet EXCEPT ![r[1]] = @ + 1] ELSE gemeldet
  /\ UNCHANGED <<laufend, faellig, gezeigt, fertig, aktiv, verloren, termine, eingriffe, abbruch>>

\* A worker is restarted; an open session is rolled back.
Abbruch(w) ==
  /\ w \in laufend /\ pass[w].stand # "schlaeft" /\ abbruch < MaxAbbruch
  /\ verloren' = IF pass[w].stand = "meldet"
                   THEN verloren \cup {i \in Eintraege : <<i, termine[i]>> \in pass[w].rest}
                   ELSE verloren
  /\ pass' = [pass EXCEPT ![w] = Schlafend]
  /\ abbruch' = abbruch + 1
  /\ UNCHANGED <<laufend, faellig, gezeigt, fertig, aktiv, gemeldet, termine, eingriffe>>

-----------------------------------------------------------------------------

\* create_message: minutes counted from the start of the incident, which may be
\* over already; create_incident: the default messages of the alarm type.
ErinInit ==
  /\ laufend \in Betriebe
  /\ faellig \in [Eintraege -> {None, "spaeter", "jetzt"}]
  /\ gezeigt = [i \in Eintraege |-> FALSE]
  /\ fertig = [i \in Eintraege |-> FALSE]
  /\ aktiv = [i \in Eintraege |-> TRUE]
  /\ pass = [w \in Workers |-> Schlafend]
  /\ gemeldet = [i \in Eintraege |-> 0]
  /\ verloren = {}
  /\ termine = [i \in Eintraege |-> 0]
  /\ eingriffe = 0 /\ abbruch = 0

Durchgang(w) == FaelligLesen(w) \/ MarkenSchreiben(w) \/ Melden(w)

ErinNext ==
  \/ \E i \in Eintraege : TerminSetzen(i) \/ TerminLoeschen(i) \/ FertigSetzen(i)
                           \/ StatusWechseln(i) \/ ZeitVergeht(i)
  \/ \E w \in Workers : Durchgang(w) \/ Abbruch(w)

ErinSpec == ErinInit /\ [][ErinNext]_erinVars /\ \A w \in Workers : WF_erinVars(Durchgang(w))

-----------------------------------------------------------------------------
(* Properties *)

ErinTypeOK ==
  /\ faellig \in [Eintraege -> {None, "spaeter", "jetzt"}]
  /\ gezeigt \in [Eintraege -> BOOLEAN]
  /\ \A w \in Workers :
       /\ pass[w].stand \in {"schlaeft", "markiert", "meldet"}
       /\ {r[1] : r \in pass[w].rest} \subseteq pass[w].markiert
       /\ pass[w].markiert \subseteq Eintraege
  /\ verloren \subseteq Eintraege

InArbeit(i) == {w \in Workers : <<i, termine[i]>> \in pass[w].rest}

\* popup_shown is written before anybody is told: with one worker an item that is
\* marked was told, is about to be told or was lost on the way.
GezeigtHeisstGemeldet ==
  \A i \in Eintraege :
    (Cardinality(laufend) = 1 /\ gezeigt[i]) =>
      gemeldet[i] > 0 \/ InArbeit(i) # {} \/ i \in verloren

\* Two workers that look at once both tell an item, but for one due date nobody
\* tells it more often than there are workers, whatever is changed in between.
HoechstensEinmalJeWorker ==
  \A i \in Eintraege : gemeldet[i] + Cardinality(InArbeit(i)) <= Cardinality(laufend)

\* With one worker an item that is due while its incident is active is told
\* sooner or later, or lost with the worker, unless it is changed before. (With
\* two, the mark of the one may hit the new due date a request to the other set.)
FaelligesWirdGemeldet ==
  \A i \in Eintraege :
    (/\ Cardinality(laufend) = 1
     /\ faellig[i] = "jetzt" /\ ~gezeigt[i] /\ ~fertig[i] /\ aktiv[i]) ~>
      (gemeldet[i] > 0 \/ i \in verloren \/ fertig[i] \/ ~aktiv[i] \/ faellig[i] # "jetzt")

\* What the reminders promise: what is marked was told, for one due date at most once
\* by each worker, and what is due is told.
ErinnerungVersprechen ==
  /\ []ErinTypeOK
  /\ []GezeigtHeisstGemeldet
  /\ []HoechstensEinmalJeWorker
  /\ FaelligesWirdGemeldet
=============================================================================
