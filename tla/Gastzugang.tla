----------------------------- MODULE Gastzugang -----------------------------
(***************************************************************************)
(* Guests without an account: a user shows a QR code of an incident, and   *)
(* whoever scans it works on its board in the user's name until the        *)
(* incident is closed.                                                     *)
(*                                                                         *)
(* Source: get_qr_code, qr_print and the dashboard in                      *)
(* app/routers/ui_incident.py, qr_login in app/routers/auth.py, the QR     *)
(* routes of app/routers/ui_major_incident.py, session_middleware in       *)
(* app/main.py, close_incident and reopen_incident in                      *)
(* app/services/incident_service.py, _hard_delete_user in                  *)
(* app/routers/ui_admin.py.                                                *)
(*                                                                         *)
(* One incident, or one large-scale incident, which keeps its tokens when  *)
(* it is closed. A code is computed from incident and user, so that it is  *)
(* always the same; a guest's cookie holds the two. incident_token is      *)
(* modelled as the migrations make it (0001_initial.py: the hash of a code *)
(* may occur again) and as the class declares it (models/incident.py:448,  *)
(* unique=True: a code that was withdrawn cannot be shown again). The PIN, *)
(* the name of the guest and the age of cookies are left out.              *)
(***************************************************************************)
EXTENDS Basis, Naturals, FiniteSets

CONSTANTS
  Aussteller,     \* users that show codes
  Gaeste,         \* guests
  GastUmfaenge,   \* bounds: workers, kind of incident, rows; is token_hash unique
  MaxWechsel      \* bound: closings, and changes of the users

VARIABLES
  gUmfang,     \* the bounds of this run
  gOffen,      \* is the incident active
  konto,       \* per user: "aktiv", "inaktiv" or "weg"
  codes,       \* the users whose code was shown
  qrZeilen,      \* incident_token or lage_token: number, user, revoked
  cookie,      \* per guest: the user of its cookie, or None
  gTx,         \* per worker: the transaction between its read and its commit
  frisch,      \* history: users that showed a code after the last closing
  wechsel      \* bound

gastVars == <<gUmfang, gOffen, konto, codes, qrZeilen, cookie, gTx, frisch, wechsel>>

Einsatz == gUmfang.art = "einsatz"

Ruht(w) == w \in gUmfang.worker /\ gTx[w] = None

Gueltige(u) == {z \in qrZeilen : z.von = u /\ ~z.widerrufen}

Neue(u) == [nr |-> Cardinality(qrZeilen) + 1, von |-> u, widerrufen |-> FALSE]

NurWechsel == wechsel < MaxWechsel /\ wechsel' = wechsel + 1

-----------------------------------------------------------------------------
(* Codes *)

VorhandenerCode(u) == Gueltige(u)

\* get_qr_code, qr_print, dashboard: also for a closed incident.
QrLesen(w, u) ==
  /\ Ruht(w) /\ Einsatz /\ konto[u] = "aktiv"
  /\ gTx' = [gTx EXCEPT ![w] = [art |-> "qr", von |-> u, zeilen |-> VorhandenerCode(u)]]
  /\ UNCHANGED <<gUmfang, gOffen, konto, codes, qrZeilen, cookie, frisch, wechsel>>

\* Mutant: one code for an incident at a time.
AndereWiderrufen(u) == {[z EXCEPT !.widerrufen = TRUE] : z \in qrZeilen}

\* Codes that were handed out stay valid.
BisherigeZeilen(u) == qrZeilen

\* Where the hash is unique, the row of a code that was withdrawn, or that somebody
\* else has shown at the same moment, refuses a second one.
Verweigert(u) == gUmfang.eindeutig /\ \E z \in qrZeilen : z.von = u

QrSchreiben(w) ==
  /\ gTx[w] # None /\ gTx[w].art = "qr"
  /\ LET u == gTx[w].von IN
     \/ /\ gTx[w].zeilen # {}
        /\ codes' = codes \cup {u} /\ frisch' = frisch \cup {u}
        /\ UNCHANGED qrZeilen
     \/ /\ gTx[w].zeilen = {} /\ ~Verweigert(u) /\ Cardinality(qrZeilen) < gUmfang.zeilen
        /\ codes' = codes \cup {u} /\ frisch' = frisch \cup {u}
        /\ qrZeilen' = BisherigeZeilen(u) \cup {Neue(u)}
     \/ /\ gTx[w].zeilen = {} /\ Verweigert(u)
        /\ UNCHANGED <<codes, frisch, qrZeilen>>
  /\ gTx' = [gTx EXCEPT ![w] = None]
  /\ UNCHANGED <<gUmfang, gOffen, konto, cookie, wechsel>>

\* lage_qr_page: the code alone.
LageQr(u) ==
  /\ ~Einsatz /\ konto[u] = "aktiv"
  /\ codes' = codes \cup {u} /\ frisch' = frisch \cup {u}
  /\ UNCHANGED <<gUmfang, gOffen, konto, qrZeilen, cookie, gTx, wechsel>>

-----------------------------------------------------------------------------
(* Guests *)

\* qr_login
QrLogin(g, u) ==
  /\ Einsatz /\ u \in codes /\ gOffen /\ konto[u] = "aktiv" /\ Gueltige(u) # {}
  /\ cookie' = [cookie EXCEPT ![g] = u]
  /\ UNCHANGED <<gUmfang, gOffen, konto, codes, qrZeilen, gTx, frisch, wechsel>>

\* lage_qr_login: the first scan makes the row (token_hash is unique; a second one
\* at the same moment fails).
LageQrLogin(u) ==
  /\ ~Einsatz /\ u \in codes /\ gOffen /\ konto[u] = "aktiv"
  /\ Gueltige(u) = {} /\ Cardinality(qrZeilen) < gUmfang.zeilen
  /\ qrZeilen' = qrZeilen \cup {Neue(u)}
  /\ UNCHANGED <<gUmfang, gOffen, konto, codes, cookie, gTx, frisch, wechsel>>

\* lage_qr_login_post, from the page the scan opened
LageQrLoginPost(g, u) ==
  /\ ~Einsatz /\ gOffen /\ Gueltige(u) # {}
  /\ cookie' = [cookie EXCEPT ![g] = u]
  /\ UNCHANGED <<gUmfang, gOffen, konto, codes, qrZeilen, gTx, frisch, wechsel>>

\* session_middleware: what the cookie of a guest is worth.
Angemeldet(g) ==
  /\ gOffen
  /\ \E u \in Aussteller : cookie[g] = u /\ konto[u] = "aktiv" /\ Gueltige(u) # {}

-----------------------------------------------------------------------------
(* The incident and the users *)

\* close_incident goes through the tokens of the incident it has read.
SchliessenLesen(w) ==
  /\ Ruht(w) /\ gOffen /\ NurWechsel
  /\ gTx' = [gTx EXCEPT ![w] = [art |-> "schliessen", von |-> None,
                                zeilen |-> {z \in qrZeilen : ~z.widerrufen}]]
  /\ UNCHANGED <<gUmfang, gOffen, konto, codes, qrZeilen, cookie, frisch>>

\* Mutant: the tokens stay.
OhneWiderruf(Z) == qrZeilen

Widerrufen(Z) == (qrZeilen \ Z) \cup {[z EXCEPT !.widerrufen = TRUE] : z \in Z \cap qrZeilen}

\* close_lage leaves the tokens of a large-scale incident.
SchliessenSchreiben(w) ==
  /\ gTx[w] # None /\ gTx[w].art = "schliessen"
  /\ gOffen' = FALSE
  /\ qrZeilen' = IF Einsatz THEN Widerrufen(gTx[w].zeilen) ELSE qrZeilen
  /\ frisch' = {}
  /\ gTx' = [gTx EXCEPT ![w] = None]
  /\ UNCHANGED <<gUmfang, konto, codes, cookie, wechsel>>

\* reopen_incident, lage_wiederoeffnen: no token comes back.
Wiedereroeffnen ==
  /\ ~gOffen
  /\ gOffen' = TRUE
  /\ UNCHANGED <<gUmfang, konto, codes, qrZeilen, cookie, gTx, frisch, wechsel>>

KontoSetzen(u, neu) ==
  /\ NurWechsel /\ konto' = [konto EXCEPT ![u] = neu]
  /\ UNCHANGED <<gUmfang, gOffen, codes, qrZeilen, cookie, gTx, frisch>>

\* delete_user, revoke_device_token
KontoDeaktivieren(u) == konto[u] = "aktiv" /\ KontoSetzen(u, "inaktiv")

\* reactivate_device_token: only the account of a device is activated again.
GeraetReaktivieren(u) == konto[u] = "inaktiv" /\ KontoSetzen(u, "aktiv")

\* _hard_delete_user deletes the tokens of incidents; those of a large-scale one are
\* forgotten, and their foreign key refuses to delete the user.
KontoLoeschen(u) ==
  /\ NurWechsel /\ konto[u] # "weg"
  /\ Einsatz \/ {z \in qrZeilen : z.von = u} = {}
  /\ konto' = [konto EXCEPT ![u] = "weg"]
  /\ qrZeilen' = {z \in qrZeilen : z.von # u}
  /\ UNCHANGED <<gUmfang, gOffen, codes, cookie, gTx, frisch>>

-----------------------------------------------------------------------------

GastInit ==
  /\ gUmfang \in GastUmfaenge
  /\ gOffen = TRUE
  /\ konto = [u \in Aussteller |-> "aktiv"]
  /\ codes = {} /\ qrZeilen = {} /\ frisch = {}
  /\ cookie = [g \in Gaeste |-> None]
  /\ gTx = [w \in Workers |-> None]
  /\ wechsel = 0

GastNext ==
  \/ \E w \in Workers :
       \/ \E u \in Aussteller : QrLesen(w, u)
       \/ QrSchreiben(w) \/ SchliessenLesen(w) \/ SchliessenSchreiben(w)
  \/ \E u \in Aussteller :
       \/ LageQr(u) \/ LageQrLogin(u) \/ KontoDeaktivieren(u)
       \/ GeraetReaktivieren(u) \/ KontoLoeschen(u)
       \/ \E g \in Gaeste : QrLogin(g, u) \/ LageQrLoginPost(g, u)
  \/ Wiedereroeffnen

GastSpec == GastInit /\ [][GastNext]_gastVars

-----------------------------------------------------------------------------
(* Properties *)

EinGastWorker == \E w \in Workers : gUmfang.worker = {w}

GastTypeOK ==
  /\ konto \in [Aussteller -> {"aktiv", "inaktiv", "weg"}]
  /\ \A z \in qrZeilen : z.von \in Aussteller /\ z.widerrufen \in BOOLEAN
  /\ cookie \in [Gaeste -> Aussteller \cup {None}]
  /\ codes \subseteq Aussteller /\ frisch \subseteq codes

\* Reopening an incident lets no guest in: who is on its board scanned the code of
\* a user that has shown it since the last closing (no two transactions overlap; else a code
\* that is shown while the incident is being closed keeps its token).
GastNurMitFrischemCode ==
  (Einsatz /\ EinGastWorker) => \A g \in Gaeste : Angemeldet(g) => cookie[g] \in frisch

\* A code on the screen works: whoever has shown it since the last closing has a
\* valid token, as long as the account exists; where the hash is unique, a code that was
\* withdrawn is not shown, and the page fails.
GezeigterCodeGilt ==
  (Einsatz /\ EinGastWorker) => \A u \in frisch : konto[u] # "weg" => Gueltige(u) # {}

\* ui_incident.py: "never overwrite so distributed QR codes remain valid". A guest
\* stays on the board, whatever codes are shown and scanned, until the incident is
\* closed or the user deactivated.
VerteilteCodesBleiben ==
  [][\A g \in Gaeste :
       (Angemeldet(g) /\ gOffen' /\ cookie'[g] = cookie[g] /\ konto'[cookie[g]] = "aktiv") =>
         Angemeldet(g)']_gastVars

\* What a code promises: it works from when it is shown until the incident is closed,
\* and no longer.
GastVersprechen ==
  /\ GastTypeOK
  /\ GastNurMitFrischemCode
  /\ GezeigterCodeGilt
=============================================================================
