-------------------------------- MODULE Stab --------------------------------
(***************************************************************************)
(* Who leads: the staff functions of a large-scale incident, each with its *)
(* chain of reliefs, the traffic light over the required ones, and the     *)
(* commander of a unit.                                                    *)
(*                                                                         *)
(* Source: app/services/gsl_staff_service.py, app/routers/ui_gsl_staff.py, *)
(* rotate_einheit_leadership in app/services/resource_service.py and its   *)
(* routes in app/routers/ui_major_incident.py.                             *)
(*                                                                         *)
(* One large-scale incident and one unit. Times are left out, except that  *)
(* somebody may be on duty for more than eight hours. stab_zuweisen and    *)
(* rotate_gsl_leadership, which no page and no code calls, are left out.   *)
(***************************************************************************)
EXTENDS Basis, Naturals, Sequences

CONSTANTS
  Leute,
  Rollen,        \* functions of the staff
  Mehrfach,      \* those with allows_multiple
  Pflicht,       \* those that are required
  StabUmfaenge   \* bounds: workers, what is used, rows, functions, whether there are
                 \* assignments without lead, whether rows are corrected and hours pass

ASSUME StabAnnahme == Mehrfach \subseteq Rollen /\ Pflicht \subseteq Rollen

VARIABLES
  stUmfang,     \* the bounds of this run
  stAktiv,      \* is the large-scale incident active
  besetzung,    \* gsl_staff_assignment, in the order of the ids
  fuehrer,      \* lage_einheit_leader, in the order of the ids
  zeiger,       \* LageEinheit.leader_assignment_id, 0 for NULL
  kommandant,   \* LageEinheit.commander_label
  stTx          \* per worker: what it has read and not committed yet

stabVars == <<stUmfang, stAktiv, besetzung, fuehrer, zeiger, kommandant, stTx>>
stabZeilen == <<stUmfang, stAktiv, fuehrer, zeiger, kommandant>>

StabFrei(w) == w \in stUmfang.worker /\ stTx[w] = None
Stabsarbeit == stUmfang.teil = "stab"
PlatzFuerZeile(zeilen) == Len(zeilen) < stUmfang.zeilen

Besetzung(r, p, leiter, vor) ==
  [rolle |-> r, person |-> p, leiter |-> leiter, offen |-> TRUE, vor |-> vor, lang |-> FALSE]

-----------------------------------------------------------------------------
(* Functions of the staff *)

OffeneLeiter(r) ==
  {i \in DOMAIN besetzung : /\ besetzung[i].rolle = r /\ besetzung[i].leiter
                            /\ besetzung[i].offen}

\* assign: a second lead is refused.
LeiterZulaessig(r) == r \in Mehrfach \/ OffeneLeiter(r) = {}

\* stab_besetzen
BesetzenLesen(w, r, p, leiter) ==
  /\ StabFrei(w) /\ Stabsarbeit /\ stAktiv
  /\ r \in stUmfang.rollen /\ leiter \in stUmfang.leiter
  /\ leiter => LeiterZulaessig(r)
  /\ stTx' = [stTx EXCEPT ![w] = [art |-> "besetzen", zeile |-> 0, neu |-> Besetzung(r, p, leiter, 0)]]
  /\ UNCHANGED <<besetzung, stabZeilen>>

\* Mutant: the successor does not take over the lead.
NachfolgeOhneLeitung(i, p) == Besetzung(besetzung[i].rolle, p, FALSE, i)

\* replace_assignment: the successor takes over function and lead.
Nachfolge(i, p) == Besetzung(besetzung[i].rolle, p, besetzung[i].leiter, i)

\* stab_abloesen: also when the large-scale incident is over.
AbloesenLesen(w, i, p) ==
  /\ StabFrei(w) /\ besetzung[i].offen
  /\ stTx' = [stTx EXCEPT ![w] = [art |-> "abloesen", zeile |-> i, neu |-> Nachfolge(i, p)]]
  /\ UNCHANGED <<besetzung, stabZeilen>>

\* stab_beenden
BeendenLesen(w, i) ==
  /\ StabFrei(w) /\ besetzung[i].offen
  /\ stTx' = [stTx EXCEPT ![w] = [art |-> "beenden", zeile |-> i, neu |-> None]]
  /\ UNCHANGED <<besetzung, stabZeilen>>

Beendet(i) == IF i = 0 THEN besetzung ELSE [besetzung EXCEPT ![i].offen = FALSE]

StabFestschreiben(w) ==
  /\ stTx[w] # None /\ stTx[w].art # "fuehrer"
  /\ LET nach == Beendet(stTx[w].zeile) IN
     IF stTx[w].neu = None THEN besetzung' = nach
     ELSE PlatzFuerZeile(besetzung) /\ besetzung' = Append(nach, stTx[w].neu)
  /\ stTx' = [stTx EXCEPT ![w] = None]
  /\ UNCHANGED stabZeilen

\* stab_patch: end_at may be set and taken back, without a look at the function.
BesetzungKorrigieren(i) ==
  /\ stUmfang.korrektur
  /\ besetzung' = [besetzung EXCEPT ![i].offen = ~@]
  /\ UNCHANGED <<stTx, stabZeilen>>

\* Eight hours pass since start_at.
LangeImDienst(i) ==
  /\ stUmfang.korrektur /\ ~besetzung[i].lang /\ besetzung' = [besetzung EXCEPT ![i].lang = TRUE]
  /\ UNCHANGED <<stTx, stabZeilen>>

LageBeenden ==
  /\ Stabsarbeit /\ stAktiv /\ stAktiv' = FALSE
  /\ UNCHANGED <<stUmfang, besetzung, fuehrer, zeiger, kommandant, stTx>>

-----------------------------------------------------------------------------
(* The traffic light *)

Mehrfachbesetzt(p) ==
  \E i, j \in DOMAIN besetzung :
    /\ i # j /\ besetzung[i].offen /\ besetzung[j].offen
    /\ besetzung[i].person = p /\ besetzung[j].person = p

\* soll_check, for one function
Ampel(r) ==
  LET leiter == OffeneLeiter(r) IN
  IF r \in Pflicht /\ leiter = {} THEN "red"
  ELSE IF \E i \in leiter : (r \in Pflicht /\ besetzung[i].lang) \/ Mehrfachbesetzt(besetzung[i].person)
    THEN "yellow" ELSE "green"

\* soll_check, overall
Gesamtampel ==
  IF \E r \in Rollen : Ampel(r) = "red" THEN "red"
  ELSE IF \E r \in Rollen : Ampel(r) = "yellow" THEN "yellow" ELSE "green"

-----------------------------------------------------------------------------
(* The commander of a unit *)

\* rotate_einheit_leadership reads the row the unit points to.
RotierenLesen(w, p) ==
  /\ StabFrei(w) /\ ~Stabsarbeit /\ PlatzFuerZeile(fuehrer)
  /\ stTx' = [stTx EXCEPT ![w] = [art |-> "fuehrer", zeile |-> zeiger,
                                  neu |-> [person |-> p, offen |-> TRUE, vor |-> zeiger],
                                  alt |-> kommandant]]
  /\ UNCHANGED <<besetzung, stabZeilen>>

Abgeloest(i) == IF i = 0 THEN fuehrer ELSE [fuehrer EXCEPT ![i].offen = FALSE]

\* lage_einheit_fuehrer and lage_einheit_kommandant with a name. The session writes
\* the label only when it differs from the one it has read.
RotierenSchreiben(w) ==
  /\ stTx[w] # None /\ stTx[w].art = "fuehrer" /\ PlatzFuerZeile(fuehrer)
  /\ LET neu == stTx[w].neu IN
     /\ fuehrer' = Append(Abgeloest(stTx[w].zeile), neu)
     /\ zeiger' = Len(fuehrer) + 1
     /\ kommandant' = IF neu.person = stTx[w].alt THEN kommandant ELSE neu.person
  /\ stTx' = [stTx EXCEPT ![w] = None]
  /\ UNCHANGED <<stUmfang, stAktiv, besetzung>>

\* lage_einheit_kommandant without a name: the label only, the row stays open.
KommandantLeeren ==
  /\ ~Stabsarbeit /\ kommandant # None /\ kommandant' = None
  /\ UNCHANGED <<stUmfang, stAktiv, besetzung, fuehrer, zeiger, stTx>>

-----------------------------------------------------------------------------

StabInit ==
  /\ stUmfang \in StabUmfaenge
  /\ stAktiv = TRUE
  /\ besetzung = <<>> /\ fuehrer = <<>>
  /\ zeiger = 0 /\ kommandant = None
  /\ stTx = [w \in Workers |-> None]

StabNext ==
  \/ \E w \in Workers :
       \/ \E p \in Leute :
            \/ \E r \in Rollen, leiter \in BOOLEAN : BesetzenLesen(w, r, p, leiter)
            \/ \E i \in DOMAIN besetzung : AbloesenLesen(w, i, p)
            \/ RotierenLesen(w, p)
       \/ \E i \in DOMAIN besetzung : BeendenLesen(w, i)
       \/ StabFestschreiben(w) \/ RotierenSchreiben(w)
  \/ \E i \in DOMAIN besetzung : BesetzungKorrigieren(i) \/ LangeImDienst(i)
  \/ LageBeenden \/ KommandantLeeren

StabSpec == StabInit /\ [][StabNext]_stabVars

-----------------------------------------------------------------------------
(* Properties *)

EinStabWorker == \A v, w \in stUmfang.worker : v = w

StabTypeOK ==
  /\ \A i \in DOMAIN besetzung :
       /\ besetzung[i].rolle \in Rollen /\ besetzung[i].person \in Leute
       /\ besetzung[i].vor \in 0..(i - 1)
  /\ \A i \in DOMAIN fuehrer : fuehrer[i].person \in Leute /\ fuehrer[i].vor \in 0..(i - 1)
  /\ zeiger \in 0..Len(fuehrer) /\ kommandant \in Leute \cup {None}

\* gsl_staff_service.py, assign: "max. eine is_lead=True pro Rolle (außer
\* allows_multiple)". One person leads a function, through reliefs, endings and new
\* assignments (no two requests overlap, and no end was taken back by a correction).
EinLeiter ==
  (EinStabWorker /\ ~stUmfang.korrektur) =>
    \A r \in Rollen \ Mehrfach, i, j \in DOMAIN besetzung :
      {i, j} \subseteq OffeneLeiter(r) => i = j

\* stab_journal shows one successor for each assignment: nobody is relieved twice, and
\* who was relieved is not on duty.
EineNachfolge ==
  (EinStabWorker /\ ~stUmfang.korrektur) =>
    \A i, j \in DOMAIN besetzung :
      besetzung[j].vor # 0 =>
        /\ besetzung[i].vor = besetzung[j].vor => i = j
        /\ ~besetzung[besetzung[j].vor].offen
        /\ besetzung[besetzung[j].vor].rolle = besetzung[j].rolle

\* A relief leaves no gap: a required function turns red only when somebody was ended
\* without a successor (or corrected).
AbloeseOhneLuecke ==
  [][(~stUmfang.korrektur /\ Gesamtampel # "red" /\ Gesamtampel' = "red") =>
       \E i \in DOMAIN besetzung :
         /\ besetzung[i].offen /\ ~besetzung'[i].offen
         /\ \A j \in DOMAIN besetzung' : besetzung'[j].vor # i]_stabVars

\* The unit points at a commander who has not been relieved, also when two workers
\* relieve him at once; if none overlap nobody else is open.
ZeigerIstOffen ==
  /\ zeiger # 0 => fuehrer[zeiger].offen
  /\ EinStabWorker => \A i \in DOMAIN fuehrer : fuehrer[i].offen => i = zeiger

\* The commander shown on the board is the one of the history, or none (no two
\* requests overlap).
AnzeigeStimmt ==
  (EinStabWorker /\ kommandant # None) => (zeiger # 0 /\ fuehrer[zeiger].person = kommandant)

\* What the staff page promises: one lead, one chain, no gap, and a unit whose
\* commander is the one of its history.
StabVersprechen ==
  /\ []StabTypeOK
  /\ []EinLeiter
  /\ []EineNachfolge
  /\ AbloeseOhneLuecke
  /\ []ZeigerIstOffen
  /\ []AnzeigeStimmt
=============================================================================
