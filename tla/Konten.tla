------------------------------- MODULE Konten -------------------------------
(***************************************************************************)
(* The account of a person: signing in with a password and the lock after  *)
(* wrong ones, links that set a new password, signing in with Microsoft    *)
(* 365, which links a local account or makes one, and the administration.  *)
(*                                                                         *)
(* Source: login in app/routers/auth.py, app/routers/ui_password_reset.py, *)
(* app/routers/sso.py, app/services/sso_service.py, app/routers/ui_sso.py, *)
(* the users' pages of app/routers/ui_admin.py.                            *)
(*                                                                         *)
(* The person has one e-mail address, unique among the accounts. A request *)
(* reads a snapshot, compares or hashes a password meanwhile (its worker   *)
(* does nothing else) and writes the columns it has changed. The callback  *)
(* of Microsoft awaits between its first read, which fixes its snapshot,   *)
(* and the rest. The account is not deleted (see Gastzugang).              *)
(***************************************************************************)
EXTENDS Basis, Naturals, Sequences

CONSTANTS
  KontoUmfaenge,  \* bounds: workers, SSO settings, what the account is at first
  Tabs,           \* browser windows in which the person signs in with Microsoft
  MaxFehl,        \* LOGIN_MAX_FAILED
  MaxLinks,       \* bound: links
  MaxTippen       \* bound: passwords typed, and acts of the administration

\* The columns of user; "aktiv" stands for active, "fehl" for failed_login_count,
\* "sperre" for locked_until, "rollen" for who has given its roles.
Konto == [aktiv : BOOLEAN, anbieter : {"local", "entra"}, oid : BOOLEAN, passwort : BOOLEAN,
          fehl : Nat, sperre : {"keine", "laeuft", "vorbei"}, rollen : {"amt", "gruppe"}]

ASSUME KontenAssumption == MaxFehl \in Nat \ {0} /\ None \notin Konto

VARIABLES
  kUmfang,
  benutzer,    \* the row of user, or None
  linkStand,   \* password_reset_token: "offen", "genutzt" or "abgelaufen"
  kTx,         \* per worker: the request between its read and its commit
  sso,         \* per window: the snapshot of its callback, or None
  getippt,     \* bound
  versuche,    \* history: wrong passwords compared since the count was reset
  nutzungen    \* history, per link: how often it has set the password

kontoVars == <<kUmfang, benutzer, linkStand, kTx, sso, getippt, versuche, nutzungen>>

KontoBereit(w) == w \in kUmfang.worker /\ kTx[w] = None

Tippen == getippt < MaxTippen /\ getippt' = getippt + 1

\* The columns a request has changed are written, the others keep what is there.
Geaendert(alt, neu) == [s \in DOMAIN alt |-> IF alt[s] = neu[s] THEN benutzer[s] ELSE neu[s]]

-----------------------------------------------------------------------------
(* Signing in with the password *)

\* enforce_sso asks for the provider of the account, not for its password.
NurSso(k) == k.anbieter = "entra" /\ kUmfang.sso /\ kUmfang.erzwingen

Zugelassen(k) == k.aktiv /\ ~NurSso(k) /\ k.sperre # "laeuft"

LoginLesen(w, richtig) ==
  /\ KontoBereit(w) /\ benutzer # None /\ Zugelassen(benutzer) /\ Tippen
  /\ richtig => benutzer.passwort
  /\ kTx' = [kTx EXCEPT ![w] = [art |-> "login", alt |-> benutzer, richtig |-> richtig, link |-> 0]]
  /\ UNCHANGED <<kUmfang, benutzer, linkStand, sso, versuche, nutzungen>>

\* A lock that is over is forgotten with its count.
OhneAltlast(k) == IF k.sperre = "vorbei" THEN [k EXCEPT !.sperre = "keine", !.fehl = 0] ELSE k

NachFehlversuch(k) ==
  [k EXCEPT !.fehl = @ + 1, !.sperre = IF k.fehl + 1 >= MaxFehl THEN "laeuft" ELSE @]

NachErfolg(k) == [k EXCEPT !.fehl = 0, !.sperre = "keine"]

LoginSchreiben(w) ==
  /\ kTx[w] # None /\ kTx[w].art = "login"
  /\ LET alt == kTx[w].alt
         k   == OhneAltlast(alt)
     IN /\ benutzer' = Geaendert(alt, IF kTx[w].richtig THEN NachErfolg(k)
                                ELSE NachFehlversuch(k))
        /\ versuche' = IF kTx[w].richtig THEN 0
                       ELSE (IF alt.sperre = "vorbei" THEN 0 ELSE versuche) + 1
  /\ kTx' = [kTx EXCEPT ![w] = None]
  /\ UNCHANGED <<kUmfang, linkStand, sso, getippt, nutzungen>>

SperreEndet ==
  /\ benutzer # None /\ benutzer.sperre = "laeuft"
  /\ benutzer' = [benutzer EXCEPT !.sperre = "vorbei"]
  /\ UNCHANGED <<kUmfang, linkStand, kTx, sso, getippt, versuche, nutzungen>>

-----------------------------------------------------------------------------
(* Links that set a password *)

\* The UPDATE sees what is committed; a link that has run out is marked as well.
AlteEntwertet == [l \in DOMAIN linkStand |-> "genutzt"]

\* forgot_submit asks for an active account, send_user_reset_mail of the
\* administration does not. The mail goes out after the commit and may be lost.
LinkAnfordern(w) ==
  /\ KontoBereit(w) /\ benutzer # None /\ Len(linkStand) < MaxLinks
  /\ linkStand' = Append(AlteEntwertet, "offen")
  /\ nutzungen' = Append(nutzungen, 0)
  /\ UNCHANGED <<kUmfang, benutzer, kTx, sso, getippt, versuche>>

LinkVerfaellt(l) ==
  /\ l \in DOMAIN linkStand /\ linkStand[l] = "offen"
  /\ linkStand' = [linkStand EXCEPT ![l] = "abgelaufen"]
  /\ UNCHANGED <<kUmfang, benutzer, kTx, sso, getippt, versuche, nutzungen>>

ResetLesen(w, l) ==
  /\ KontoBereit(w) /\ l \in DOMAIN linkStand /\ linkStand[l] = "offen" /\ benutzer # None /\ benutzer.aktiv
  /\ kTx' = [kTx EXCEPT ![w] = [art |-> "reset", alt |-> benutzer, richtig |-> FALSE, link |-> l]]
  /\ UNCHANGED <<kUmfang, benutzer, linkStand, sso, getippt, versuche, nutzungen>>

\* Mutant: the link stays open.
LinkBleibt(l) == linkStand

LinkGenutzt(l) == [linkStand EXCEPT ![l] = "genutzt"]

ResetSchreiben(w) ==
  /\ kTx[w] # None /\ kTx[w].art = "reset"
  /\ LET alt == kTx[w].alt
         l   == kTx[w].link
     IN /\ benutzer' = [Geaendert(alt, NachErfolg(alt)) EXCEPT !.passwort = TRUE]
        /\ linkStand' = LinkGenutzt(l)
        /\ nutzungen' = [nutzungen EXCEPT ![l] = @ + 1]
  /\ versuche' = 0
  /\ kTx' = [kTx EXCEPT ![w] = None]
  /\ UNCHANGED <<kUmfang, sso, getippt>>

-----------------------------------------------------------------------------
(* Signing in with Microsoft 365 *)

\* sso_callback reads the organisation and its settings, then awaits the token,
\* its keys and the groups.
SsoBeginnt(t) ==
  /\ kUmfang.sso /\ sso[t] = None /\ Tippen
  /\ sso' = [sso EXCEPT ![t] = [konto |-> benutzer]]
  /\ UNCHANGED <<kUmfang, benutzer, linkStand, kTx, versuche, nutzungen>>

\* SsoError, domain_not_allowed, no_group_denied, a browser that does not come back
SsoScheitert(t) ==
  /\ sso[t] # None
  /\ sso' = [sso EXCEPT ![t] = None]
  /\ UNCHANGED <<kUmfang, benutzer, linkStand, kTx, getippt, versuche, nutzungen>>

\* sso.py: "Rollen nur für neu angelegte JIT-Benutzer setzen – bestehende Benutzer
\* behalten ihre Rechte". The wiki says otherwise: "Bei jedem weiteren Login wird die
\* Rolle erneut abgeglichen" (Administration-Single-Sign-On.md:119). No property here
\* takes sides.
BestehendeRollen(k) == k.rollen

Verknuepft(k) == [k EXCEPT !.anbieter = "entra", !.oid = TRUE]

Angelegt == [aktiv |-> TRUE, anbieter |-> "entra", oid |-> TRUE, passwort |-> FALSE,
             fehl |-> 0, sperre |-> "keine", rollen |-> "gruppe"]

\* Nothing awaits any more. A known account signs in unless it is inactive, a local
\* one is linked first if the settings allow it (and stays linked if it is inactive).
\* Otherwise an account is inserted, which fails if the address is taken by now.
SsoEndet(w, t) ==
  /\ KontoBereit(w) /\ sso[t] # None
  /\ LET alt     == sso[t].konto
         bekannt == alt # None /\ (alt.oid \/ kUmfang.verknuepfen)
     IN \/ /\ bekannt
           /\ benutzer' = [Geaendert(alt, Verknuepft(alt)) EXCEPT !.rollen = BestehendeRollen(benutzer)]
        \/ /\ ~bekannt /\ benutzer = None
           /\ benutzer' = Angelegt
        \/ /\ ~bekannt /\ benutzer # None
           /\ UNCHANGED benutzer
  /\ sso' = [sso EXCEPT ![t] = None]
  /\ UNCHANGED <<kUmfang, linkStand, kTx, getippt, versuche, nutzungen>>

-----------------------------------------------------------------------------
(* The administration *)

Amtlich(k) ==
  /\ benutzer # None /\ Tippen
  /\ benutzer' = k
  /\ UNCHANGED <<kUmfang, linkStand, kTx, sso, versuche, nutzungen>>

\* create_user: refused if the address is taken.
KontoAnlegen ==
  /\ benutzer = None /\ Tippen
  /\ benutzer' = [Angelegt EXCEPT !.anbieter = "local", !.oid = FALSE, !.passwort = TRUE,
                                !.rollen = "amt"]
  /\ UNCHANGED <<kUmfang, linkStand, kTx, sso, versuche, nutzungen>>

\* delete_user
KontoStilllegen == benutzer # None /\ benutzer.aktiv /\ Amtlich([benutzer EXCEPT !.aktiv = FALSE])

\* update_user_roles, edit_user
RollenVergeben == benutzer # None /\ Amtlich([benutzer EXCEPT !.rollen = "amt"])

\* reset_user_password: a lock stays.
PasswortVergeben == benutzer # None /\ Amtlich([benutzer EXCEPT !.passwort = TRUE])

-----------------------------------------------------------------------------

KontenInit ==
  /\ kUmfang \in KontoUmfaenge
  /\ benutzer = IF kUmfang.lokal
                THEN [Angelegt EXCEPT !.anbieter = "local", !.oid = FALSE, !.passwort = TRUE,
                                      !.rollen = "amt"]
                ELSE None
  /\ linkStand = <<>> /\ nutzungen = <<>>
  /\ kTx = [w \in Workers |-> None]
  /\ sso = [t \in Tabs |-> None]
  /\ getippt = 0 /\ versuche = 0

KontenNext ==
  \/ \E w \in Workers :
       \/ \E richtig \in BOOLEAN : LoginLesen(w, richtig)
       \/ LoginSchreiben(w) \/ LinkAnfordern(w) \/ ResetSchreiben(w)
       \/ \E l \in 1..MaxLinks : ResetLesen(w, l)
       \/ \E t \in Tabs : SsoEndet(w, t)
  \/ \E l \in 1..MaxLinks : LinkVerfaellt(l)
  \/ \E t \in Tabs : SsoBeginnt(t) \/ SsoScheitert(t)
  \/ SperreEndet \/ KontoAnlegen \/ KontoStilllegen \/ RollenVergeben \/ PasswortVergeben

KontenSpec == KontenInit /\ [][KontenNext]_kontoVars

-----------------------------------------------------------------------------
(* Properties *)

EinKontoWorker == \E w \in Workers : kUmfang.worker = {w}

KontenTypeOK ==
  /\ benutzer \in Konto \cup {None}
  /\ Len(linkStand) = Len(nutzungen)
  /\ \A l \in DOMAIN linkStand : linkStand[l] \in {"offen", "genutzt", "abgelaufen"}

\* login: no more than LOGIN_MAX_FAILED wrong passwords are compared in a row, and
\* nobody is locked out before (no two sign-ins overlap; two may count as one).
FehlversucheBegrenzt ==
  EinKontoWorker =>
    /\ versuche <= MaxFehl
    /\ benutzer # None /\ benutzer.sperre = "laeuft" => versuche = MaxFehl

\* ui_password_reset.py: "Tokens sind einmalig", and "alle alten offenen Tokens des
\* Users" are invalid: only the newest link is open, none sets two passwords
\* (no two requests overlap; a link used twice at once sets two).
NurDerNeuesteLinkEinmal ==
  /\ \A l \in DOMAIN linkStand : linkStand[l] = "offen" => l = Len(linkStand)
  /\ EinKontoWorker => \A l \in DOMAIN linkStand : nutzungen[l] <= 1

\* What an account promises: the lock after wrong passwords, and links that work once.
KontenVersprechen ==
  /\ KontenTypeOK
  /\ FehlversucheBegrenzt
  /\ NurDerNeuesteLinkEinmal
=============================================================================
