----------------------------- MODULE Einladung -----------------------------
(***************************************************************************)
(* Other organisations at an incident: who is invited, who takes part, and *)
(* the partners who are invited by the alarm itself.                       *)
(*                                                                         *)
(* Source: app/routers/ui_invitation.py, app/models/invitation.py,         *)
(* _create_neighbor_invitations in app/routers/ui_incident.py (the same in *)
(* app/routers/api_v1.py), and the queries that decide who sees the        *)
(* incident: app/core/tenant.py, app/core/permissions.py,                  *)
(* app/core/queries.py, app/routers/ui_archive.py.                         *)
(*                                                                         *)
(* One incident of one organisation, which leads it. A request reads the   *)
(* invitation and commits; nothing is awaited in between, so that only     *)
(* another worker can come in. A broadcast follows the commit and changes  *)
(* nothing. Nobody leaves an incident because it is closed.                *)
(***************************************************************************)
EXTENDS Basis

CONSTANTS
  Orgs,           \* the other organisations
  EinlWorker      \* bounds: the sets of workers that serve the incident

\* NULL is no status.
ASSUME EinlAssumption == None \notin {"accepted", "declined", "revoked", "pending"}

VARIABLES
  einlWorker,
  erfasst,     \* the incident exists
  partner,     \* org_partner with notify_on_incident
  einladung,   \* status of org_invitation, None: no row
  beteiligt,   \* incident_org: those who take part
  einlTx       \* per worker: the request between its read and its commit

einlVars == <<einlWorker, erfasst, partner, einladung, beteiligt, einlTx>>

EinlAntworten == {"accepted", "declined", "revoked"}

\* The tenant filter of every query, can_access_incident, the lists of
\* incidents, the archive and the API: who takes part sees the incident.
Sieht(o) == erfasst /\ o \in beteiligt

EinlFrei(w) == w \in einlWorker /\ einlTx[w] = None

-----------------------------------------------------------------------------
(* Partners and the alarm *)

PartnerAendern(P) ==
  /\ partner' = P
  /\ UNCHANGED <<einlWorker, erfasst, einladung, beteiligt, einlTx>>

\* The side effect of an alarm whose type notifies the neighbours.
MitPartnern(e) == [o \in Orgs |-> IF o \in partner /\ e[o] = None THEN "pending" ELSE e[o]]

EinsatzErfassen(nachbarn) ==
  /\ ~erfasst
  /\ erfasst' = TRUE
  /\ einladung' = IF nachbarn THEN MitPartnern(einladung) ELSE einladung
  /\ UNCHANGED <<einlWorker, partner, beteiligt, einlTx>>

-----------------------------------------------------------------------------
(* Requests *)

\* Refused while one is open or accepted; the table's unique key refuses the
\* organisations that have ever been invited.
Einladen(w, o) ==
  /\ EinlFrei(w) /\ erfasst /\ einladung[o] = None
  /\ einladung' = [einladung EXCEPT ![o] = "pending"]
  /\ UNCHANGED <<einlWorker, erfasst, partner, beteiligt, einlTx>>

\* Mutant: a declined invitation can still be accepted.
BeantwortbarNachAbsage(o, antwort) ==
  IF antwort = "revoked" THEN einladung[o] \in {"pending", "accepted", "declined"}
  ELSE einladung[o] \in {"pending", "declined"}

\* What each handler asks of the status it has read.
Beantwortbar(o, antwort) ==
  IF antwort = "revoked" THEN einladung[o] \in {"pending", "accepted", "declined"}
  ELSE einladung[o] = "pending"

\* accept_invitation, decline_invitation, revoke_invitation up to the commit.
AntwortLesen(w, o, antwort) ==
  /\ EinlFrei(w) /\ Beantwortbar(o, antwort)
  /\ einlTx' = [einlTx EXCEPT ![w] =
       [org |-> o, antwort |-> antwort, gelesen |-> einladung[o], dabei |-> o \in beteiligt]]
  /\ UNCHANGED <<einlWorker, erfasst, partner, einladung, beteiligt>>

\* Accepting enters the organisation, withdrawing an accepted one removes it.
BeteiligtNach(t) ==
  CASE t.antwort = "accepted" /\ ~t.dabei                  -> beteiligt \cup {t.org}
    [] t.antwort = "revoked" /\ t.gelesen = "accepted"     -> beteiligt \ {t.org}
    [] OTHER                                               -> beteiligt

StatusNach(t) == t.antwort

AntwortSchreiben(w) ==
  /\ einlTx[w] # None
  /\ LET t == einlTx[w]
     IN /\ einladung' = [einladung EXCEPT ![t.org] = StatusNach(t)]
        /\ beteiligt' = BeteiligtNach(t)
  /\ einlTx' = [einlTx EXCEPT ![w] = None]
  /\ UNCHANGED <<einlWorker, erfasst, partner>>

\* The worker dies: the transaction is rolled back.
EinlAbbruch(w) ==
  /\ einlTx[w] # None
  /\ einlTx' = [einlTx EXCEPT ![w] = None]
  /\ UNCHANGED <<einlWorker, erfasst, partner, einladung, beteiligt>>

-----------------------------------------------------------------------------
EinlInit ==
  /\ einlWorker \in EinlWorker
  /\ erfasst = FALSE /\ partner = {}
  /\ einladung = [o \in Orgs |-> None]
  /\ beteiligt = {}
  /\ einlTx = [w \in Workers |-> None]

EinlNext ==
  \/ \E P \in SUBSET Orgs : PartnerAendern(P)
  \/ \E n \in BOOLEAN : EinsatzErfassen(n)
  \/ \E w \in Workers :
       \/ \E o \in Orgs : Einladen(w, o)
       \/ \E o \in Orgs, a \in EinlAntworten : AntwortLesen(w, o, a)
       \/ AntwortSchreiben(w)
       \/ EinlAbbruch(w)

EinlSpec == EinlInit /\ [][EinlNext]_einlVars

-----------------------------------------------------------------------------
(* Properties *)

EinlTypeOK ==
  /\ einlWorker \in EinlWorker /\ erfasst \in BOOLEAN
  /\ partner \subseteq Orgs /\ beteiligt \subseteq Orgs
  /\ einladung \in [Orgs -> EinlAntworten \cup {"pending", None}]
  /\ \A w \in Workers : einlTx[w] = None \/
       einlTx[w] \in [org : Orgs, antwort : EinlAntworten, dabei : BOOLEAN,
                      gelesen : EinlAntworten \cup {"pending"}]

\* Who has accepted sees the incident, whatever the workers do at once.
AngenommenHatZugang == \A o \in Orgs : einladung[o] = "accepted" => Sieht(o)

EinEinladungWorker == \E w \in Workers : einlWorker = {w}

\* While no two answers overlap (one worker), nobody sees it whose invitation is
\* not, or no longer, accepted. (Two answers at once can leave a participant
\* whose invitation is withdrawn and can no more be withdrawn.)
ZugangNurMitZusage ==
  EinEinladungWorker => \A o \in Orgs : Sieht(o) => einladung[o] = "accepted"

\* An answer stands: only the leading organisation changes it, by withdrawing
\* it for good.
WiderrufIstEndgueltig ==
  [][EinEinladungWorker => \A o \in Orgs :
       /\ einladung[o] = "revoked" => einladung'[o] = "revoked"
       /\ einladung[o] \in {"accepted", "declined"} =>
            einladung'[o] \in {einladung[o], "revoked"}]_einlVars

\* What an invitation promises: those who accepted take part, nobody else does, and a
\* withdrawal is final.
EinladungVersprechen ==
  /\ []EinlTypeOK
  /\ []AngenommenHatZugang
  /\ []ZugangNurMitZusage
  /\ WiderrufIstEndgueltig
=============================================================================
