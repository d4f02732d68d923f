----------------------------- MODULE Atemschutz -----------------------------
(***************************************************************************)
(* One breathing-apparatus troop, the warnings about it, and the watchdog  *)
(* of a worker process that tells the browsers connected to that worker.   *)
(*                                                                         *)
(* Source: app/services/breathing_service.py, the routes of                *)
(* app/routers/ui_breathing.py, app/models/breathing.py. Troops share      *)
(* nothing, and every worker runs a watchdog of its own.                   *)
(*                                                                         *)
(* Time is counted in steps; ages are cut off at the planned duration,     *)
(* where the code stops telling them apart. Between the reading of a troop *)
(* and the end of its broadcasts the event loop serves requests.           *)
(***************************************************************************)
EXTENDS Basis, Naturals

CONSTANTS
  Drittel,     \* a third of planned_duration_min
  Geplant,     \* planned_duration_min is set
  Startdruck   \* some member has a start_press

ASSUME DrittelAssumption == Drittel \in Nat \ {0}
ASSUME PlanAssumption == Geplant \in BOOLEAN /\ Startdruck \in BOOLEAN

Maximal == 3 * Drittel
Arten == {"one_third", "max_time", "withdraw"}
LaufZeilen == [aktiv : SUBSET Arten, rest : SUBSET Arten]

ASSUME AtemschutzNoneAssumption == None \notin 0..Maximal /\ None \notin LaufZeilen

VARIABLES
  laeuft,      \* incident.status is active
  imEinsatz,   \* troop.status is im_einsatz or rueckzug
  seit,        \* the age of entry_at, None before the first entry
  truppMeldung,  \* the age of last_meldung_at, None if it is not after entry_at
  tief,        \* a logged pressure is at or below the withdraw pressure
  quittung,    \* warn_*_acked_at: None, or set "vorher" or "seither" of entry_at
  gesendet,    \* the troop's entry in _sent
  lauf,        \* the watchdog's pass: what it found, what it has still to tell
  gehoert      \* history: the warnings told since the watchdog found them new

atemschutzVars == <<laeuft, imEinsatz, seit, truppMeldung, tief, quittung, gesendet, lauf, gehoert>>
trupp == <<imEinsatz, seit, truppMeldung, tief, quittung>>
waechter == <<gesendet, lauf, gehoert>>

-----------------------------------------------------------------------------
(* get_warning_level, get_time_warning, check_troop_warnings *)

\* start_troop fixes the average pressure the levels are derived from.
WithdrawDue ==
  Startdruck /\ seit # None /\ tief /\ quittung["withdraw"] = None

MaxErreicht == Geplant /\ imEinsatz /\ seit # None /\ seit >= Maximal

MaxExceeded == MaxErreicht /\ quittung["max_time"] = None

OneThirdDue ==
  /\ Geplant /\ imEinsatz /\ seit # None /\ seit >= Drittel
  /\ ~MaxErreicht
  /\ truppMeldung = None
  /\ quittung["one_third"] = None

Warnungen ==
  {k \in Arten : \/ k = "withdraw" /\ imEinsatz /\ WithdrawDue
                 \/ k = "max_time" /\ MaxExceeded
                 \/ k = "one_third" /\ OneThirdDue}

-----------------------------------------------------------------------------
(* The routes; none of them asks for the troop's status *)

\* start_troop
Starten ==
  /\ imEinsatz' = TRUE
  /\ seit' = 0
  /\ truppMeldung' = None
  /\ quittung' = [k \in Arten |-> IF quittung[k] = None THEN None ELSE "vorher"]
  /\ UNCHANGED <<laeuft, tief, waechter>>

\* update_troop_status
StatusSetzen(einsatz) ==
  /\ imEinsatz' = einsatz
  /\ UNCHANGED <<laeuft, seit, truppMeldung, tief, quittung, waechter>>

\* Both kinds of report reset the acknowledgement of the first warning.
Gemeldet ==
  /\ truppMeldung' = IF seit = None THEN None ELSE 0
  /\ quittung' = [quittung EXCEPT !["one_third"] = None]

\* log_pressure; lowest_current_pressure is the minimum of all that was logged.
LogPressure(niedrig) ==
  /\ tief' = (tief \/ niedrig)
  /\ Gemeldet
  /\ UNCHANGED <<laeuft, imEinsatz, seit, waechter>>

\* update_meldung
UpdateMeldung ==
  /\ Gemeldet
  /\ UNCHANGED <<laeuft, imEinsatz, seit, tief, waechter>>

\* ack_warning, whether or not the warning is due.
AckWarning(k) ==
  /\ quittung' = [quittung EXCEPT ![k] = IF seit = None THEN "vorher" ELSE "seither"]
  /\ UNCHANGED <<laeuft, imEinsatz, seit, truppMeldung, tief, waechter>>

\* close_incident, reopen_incident
EinsatzSchliessen ==
  laeuft /\ laeuft' = FALSE /\ UNCHANGED <<trupp, waechter>>

EinsatzWiederoeffnen ==
  ~laeuft /\ laeuft' = TRUE /\ UNCHANGED <<trupp, waechter>>

Aelter(n) == IF n = None \/ n = Maximal THEN n ELSE n + 1

TruppZeitVergeht ==
  /\ seit' = Aelter(seit)
  /\ truppMeldung' = Aelter(truppMeldung)
  /\ UNCHANGED <<laeuft, imEinsatz, tief, quittung, waechter>>

-----------------------------------------------------------------------------
(* _breathing_watchdog_loop *)

\* Mutant: only what was new is remembered.
SichMerkenNeue(aktiv) == gesendet' = aktiv \ gesendet

SichMerken(aktiv) == gesendet' = aktiv

NeueWarnungen(aktiv) == aktiv \ gesendet

\* The watchdog comes to a troop of an active incident.
TruppLesen ==
  /\ lauf = None /\ laeuft
  /\ gehoert' = gehoert \cap Warnungen
  /\ IF imEinsatz
     THEN /\ lauf' = [aktiv |-> Warnungen, rest |-> NeueWarnungen(Warnungen)]
          /\ UNCHANGED gesendet
     ELSE gesendet' = {} /\ UNCHANGED lauf
  /\ UNCHANGED <<laeuft, trupp>>

Senden(k) ==
  /\ lauf # None /\ k \in lauf.rest
  /\ lauf' = [lauf EXCEPT !.rest = @ \ {k}]
  /\ gehoert' = gehoert \cup {k}
  /\ UNCHANGED <<laeuft, trupp, gesendet>>

Merken ==
  /\ lauf # None /\ lauf.rest = {}
  /\ SichMerken(lauf.aktiv)
  /\ lauf' = None
  /\ UNCHANGED <<laeuft, trupp, gehoert>>

\* The worker process dies and starts again; its browsers reconnect.
Neustart ==
  /\ lauf' = None /\ gesendet' = {} /\ gehoert' = {}
  /\ UNCHANGED <<laeuft, trupp>>

-----------------------------------------------------------------------------

AtemschutzInit ==
  /\ laeuft = TRUE
  /\ imEinsatz = FALSE
  /\ seit = None
  /\ truppMeldung = None
  /\ tief = FALSE
  /\ quittung = [k \in Arten |-> None]
  /\ gesendet = {} /\ lauf = None /\ gehoert = {}

TruppBedienung ==
  \/ Starten
  \/ \E b \in BOOLEAN : StatusSetzen(b) \/ LogPressure(b)
  \/ UpdateMeldung
  \/ \E k \in Arten : AckWarning(k)
  \/ EinsatzSchliessen
  \/ EinsatzWiederoeffnen

Watchdog == TruppLesen \/ (\E k \in Arten : Senden(k)) \/ Merken

AtemschutzNext == TruppBedienung \/ TruppZeitVergeht \/ Watchdog \/ Neustart

\* The loop runs every five seconds, a broadcast returns, and the process does not
\* die each time in front of the same one.
AtemschutzSpec ==
  /\ AtemschutzInit /\ [][AtemschutzNext]_atemschutzVars
  /\ WF_atemschutzVars(Watchdog) /\ \A k \in Arten : SF_atemschutzVars(Senden(k))

-----------------------------------------------------------------------------
(* Properties *)

\* The columns keep their types; a report counted as one since the entry is not
\* older than the entry.
AtemschutzTypeOK ==
  /\ laeuft \in BOOLEAN /\ imEinsatz \in BOOLEAN /\ tief \in BOOLEAN
  /\ seit \in 0..Maximal \cup {None}
  /\ truppMeldung # None => seit # None /\ truppMeldung \in 0..seit
  /\ quittung \in [Arten -> {None, "vorher", "seither"}]
  /\ gesendet \subseteq Arten /\ gehoert \subseteq Arten
  /\ lauf # None => lauf.aktiv \subseteq Arten /\ lauf.rest \subseteq lauf.aktiv

\* The watchdog's purpose: a warning that is due is told, or it is no longer due,
\* even if it was told before, went away and came back.
WarnungKommtAn ==
  \A k \in Arten :
    (k \in Warnungen /\ laeuft) ~> (k \in gehoert \/ k \notin Warnungen \/ ~laeuft)

\* _breathing_watchdog_loop: no warning is sent again as long as nothing changes,
\* that is, while every pass finds it due.
NichtDoppelt == [][\A k \in Arten : Senden(k) => k \notin gehoert]_atemschutzVars

\* The user guide: the alarms last until somebody acknowledges them. The pressure
\* alarm and the one for the maximum time never end by themselves, nor by a
\* report, only by their own acknowledgement, when the troop leaves or is started
\* anew.
AlarmBleibt ==
  [][\A k \in {"withdraw", "max_time"} :
       (k \in Warnungen /\ k \notin Warnungen') =>
         \/ quittung'[k] # quittung[k]
         \/ ~imEinsatz'
         \/ seit' = 0 /\ seit # 0]_atemschutzVars

\* log_pressure: a report resets the acknowledgement so that the warning is
\* raised again if need be: when a third of the time passes without another one.
\* Checked for a troop with a planned duration whose warning nobody acknowledged.
DrittelErneut ==
  (/\ Geplant /\ imEinsatz /\ ~MaxErreicht
   /\ truppMeldung # None /\ truppMeldung >= Drittel
   /\ quittung["one_third"] = None) => "one_third" \in Warnungen

\* What the watchdog promises: a due warning is told, once, and lasts.
AtemschutzVersprechen ==
  /\ []AtemschutzTypeOK
  /\ WarnungKommtAn
  /\ NichtDoppelt
  /\ AlarmBleibt
=============================================================================
