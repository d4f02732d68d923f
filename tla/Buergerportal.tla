--------------------------- MODULE Buergerportal ---------------------------
(***************************************************************************)
(* The public page on which citizens report damages of a large-scale       *)
(* incident, the confirmation of their phone by SMS, and what the staff    *)
(* makes of the reports.                                                   *)
(*                                                                         *)
(* Source: the routes /melden/{token} and /lage/{id}/meldungen of          *)
(* app/routers/ui_major_incident.py, close_lage and create_site in         *)
(* app/services/major_incident_service.py.                                 *)
(*                                                                         *)
(* What waits for its code is in the memory of one worker; a request that  *)
(* awaits the SMS gateway, the geocoder or the AI lets others run. A       *)
(* submission that becomes a report keeps its name. Texts, photos and      *)
(* positions are left out.                                                 *)
(***************************************************************************)
EXTENDS Basis, Naturals, FiniteSets

CONSTANTS
  Eingaben,     \* submissions of the form
  PortalUmfaenge   \* bounds: workers, submissions, clicks on "annehmen", and changes of
                   \* the link, the incident, the gateway and the workers

ASSUME PortalAssumption == None \notin {"sms", "code", "fehler", "fertig", "verloren"}

VARIABLES
  pUmfang,      \* the bounds of this run
  lageAktiv,    \* is the incident active
  portal,       \* public_token: None or the number of the link that is valid
  links,        \* links that were made
  gateway,      \* the workers an SMS gateway of the organisation is connected to
  eingabe,      \* per submission: None (not sent), "sms" (its SMS is awaited),
                \* "code" (the citizen has the page for the code), "fehler", "fertig",
                \* "verloren" (with the memory of its worker)
  wartend,      \* _pending_verifications, per worker: the submissions
  abgelaufen,   \* the submissions whose ten minutes are over
  bericht,      \* citizen_report: None, or status, verified, site and marker
  annahmen,     \* meldung_annehmen at work
  stellen,      \* incident_site rows made from reports
  mehrfach,     \* history: submissions that became a second report
  portalZaehler, annahmeZaehler   \* bounds

portalVars == <<pUmfang, lageAktiv, portal, links, gateway, eingabe, wartend, abgelaufen, bericht,
                annahmen, stellen, mehrfach, portalZaehler, annahmeZaehler>>

Betrieb == portalZaehler < pUmfang.stoerungen /\ portalZaehler' = portalZaehler + 1

-----------------------------------------------------------------------------
(* The incident and its link *)

\* meldungen_token_gen: a new link, valid at once; the old one is dead.
TokenErzeugen ==
  /\ Betrieb
  /\ links' = links + 1 /\ portal' = links + 1
  /\ UNCHANGED <<pUmfang, lageAktiv, gateway, eingabe, wartend, abgelaufen, bericht, annahmen,
                 stellen, mehrfach, annahmeZaehler>>

\* close_lage takes the link away; lage_wiederoeffnen brings none back.
LageWechseln ==
  /\ Betrieb
  /\ lageAktiv' = ~lageAktiv
  /\ portal' = IF lageAktiv THEN None ELSE portal
  /\ UNCHANGED <<pUmfang, links, gateway, eingabe, wartend, abgelaufen, bericht, annahmen,
                 stellen, mehrfach, annahmeZaehler>>

\* The gateway connects to one worker, or to none.
GatewayWechselt ==
  /\ Betrieb
  /\ \E G \in {{}} \cup {{w} : w \in pUmfang.worker} : G # gateway /\ gateway' = G
  /\ UNCHANGED <<pUmfang, lageAktiv, portal, links, eingabe, wartend, abgelaufen, bericht, annahmen,
                 stellen, mehrfach, annahmeZaehler>>

-----------------------------------------------------------------------------
(* Citizens *)

NeuerBericht(geprueft) ==
  [status |-> "new", geprueft |-> geprueft, stelle |-> None, marker |-> FALSE]

\* _cleanup_pending_verifications
OhneAbgelaufene(w) == wartend[w] \ abgelaufen

\* buerger_submit: the link must be valid when the form arrives.
BuergerSubmit(w, k) ==
  /\ w \in pUmfang.worker /\ k \in pUmfang.eingaben /\ eingabe[k] = None
  /\ lageAktiv /\ portal # None
  /\ \/ /\ w \in gateway
        /\ wartend' = [wartend EXCEPT ![w] = OhneAbgelaufene(w) \cup {k}]
        /\ eingabe' = [eingabe EXCEPT ![k] = "sms"]
        /\ UNCHANGED <<bericht, mehrfach>>
     \/ /\ w \notin gateway
        /\ bericht' = [bericht EXCEPT ![k] = NeuerBericht(FALSE)]
        /\ mehrfach' = IF bericht[k] = None THEN mehrfach ELSE mehrfach \cup {k}
        /\ eingabe' = [eingabe EXCEPT ![k] = "fertig"]
        /\ UNCHANGED wartend
  /\ UNCHANGED <<pUmfang, lageAktiv, portal, links, gateway, abgelaufen, annahmen, stellen,
                 portalZaehler, annahmeZaehler>>

\* The gateway has answered, or the time for it is over: without the SMS the
\* submission is dropped.
SmsErgebnis(k) ==
  /\ eingabe[k] = "sms"
  /\ \/ eingabe' = [eingabe EXCEPT ![k] = "code"] /\ UNCHANGED wartend
     \/ /\ eingabe' = [eingabe EXCEPT ![k] = "fehler"]
        /\ wartend' = [w \in Workers |-> wartend[w] \ {k}]
  /\ UNCHANGED <<pUmfang, lageAktiv, portal, links, gateway, abgelaufen, bericht, annahmen,
                 stellen, mehrfach, portalZaehler, annahmeZaehler>>

ZehnMinuten(k) ==
  /\ k \in UNION {wartend[w] : w \in Workers} \ abgelaufen
  /\ abgelaufen' = abgelaufen \cup {k}
  /\ UNCHANGED <<pUmfang, lageAktiv, portal, links, gateway, eingabe, wartend, bericht, annahmen,
                 stellen, mehrfach, portalZaehler, annahmeZaehler>>

Ausgetragen(w, k) == wartend[w] \ {k}

\* buerger_verify_post with the right code, at the worker that knows it; whether
\* the incident is active still is not asked. A wrong code, an expired entry and
\* a request to the other worker change nothing.
BuergerVerify(w, k) ==
  /\ w \in pUmfang.worker /\ k \in wartend[w] \ abgelaufen
  /\ eingabe[k] \in {"code", "fertig"}
  /\ wartend' = [wartend EXCEPT ![w] = Ausgetragen(w, k)]
  /\ bericht' = [bericht EXCEPT ![k] = NeuerBericht(TRUE)]
  /\ mehrfach' = IF bericht[k] = None THEN mehrfach ELSE mehrfach \cup {k}
  /\ eingabe' = [eingabe EXCEPT ![k] = "fertig"]
  /\ UNCHANGED <<pUmfang, lageAktiv, portal, links, gateway, abgelaufen, annahmen, stellen,
                 portalZaehler, annahmeZaehler>>

\* A worker is restarted: what it kept in memory and its open requests are gone.
PortalNeustart(w) ==
  /\ Betrieb /\ w \in pUmfang.worker
  /\ wartend' = [wartend EXCEPT ![w] = {}]
  /\ eingabe' = [k \in Eingaben |-> IF k \in wartend[w] /\ eingabe[k] \in {"sms", "code"}
                                      THEN "verloren" ELSE eingabe[k]]
  /\ annahmen' = {t \in annahmen : t.worker # w}
  /\ gateway' = gateway \ {w}
  /\ UNCHANGED <<pUmfang, lageAktiv, portal, links, abgelaufen, bericht, stellen, mehrfach,
                 annahmeZaehler>>

-----------------------------------------------------------------------------
(* The staff *)

\* meldung_annehmen: the report is read whatever its status, the AI is asked for a
\* name, the site is made, the geocoder and the AI are asked again.
AnnehmenBeginnen(w, k) ==
  /\ w \in pUmfang.worker /\ bericht[k] # None /\ annahmeZaehler < pUmfang.annahmen
  /\ annahmeZaehler' = annahmeZaehler + 1
  /\ annahmen' = annahmen \cup
       {[nr |-> annahmeZaehler, worker |-> w, bericht |-> k, status |-> bericht[k].status]}
  /\ UNCHANGED <<pUmfang, lageAktiv, portal, links, gateway, eingabe, wartend, abgelaufen, bericht,
                 stellen, mehrfach, portalZaehler>>

\* Mutant: the report is marked before the site is certain.
StatusBleibt(t) == [bericht EXCEPT ![t.bericht].status = "accepted"]

\* rollback
Zurueckgerollt(t) == bericht

\* Everything is committed at once, or an exception rolls everything back. The
\* status is written if it is not the one that was read.
AnnehmenEndet(t) ==
  /\ t \in annahmen
  /\ annahmen' = annahmen \ {t}
  /\ \/ /\ stellen' = stellen \cup {[nr |-> t.nr, bericht |-> t.bericht]}
        /\ bericht' = [bericht EXCEPT
             ![t.bericht].stelle = t.nr,
             ![t.bericht].status = IF t.status = "accepted" THEN @ ELSE "accepted"]
     \/ bericht' = Zurueckgerollt(t) /\ UNCHANGED stellen
  /\ UNCHANGED <<pUmfang, lageAktiv, portal, links, gateway, eingabe, wartend, abgelaufen, mehrfach,
                 portalZaehler, annahmeZaehler>>

\* meldung_ablehnen: of any report; its site stays.
MeldungAblehnen(k) ==
  /\ bericht[k] # None
  /\ bericht' = [bericht EXCEPT ![k].status = "rejected"]
  /\ UNCHANGED <<pUmfang, lageAktiv, portal, links, gateway, eingabe, wartend, abgelaufen, annahmen,
                 stellen, mehrfach, portalZaehler, annahmeZaehler>>

\* meldung_als_lageinfo
MeldungAlsLageinfo(k) ==
  /\ bericht[k] # None
  /\ bericht' = [bericht EXCEPT ![k].status = "accepted", ![k].marker = TRUE]
  /\ UNCHANGED <<pUmfang, lageAktiv, portal, links, gateway, eingabe, wartend, abgelaufen, annahmen,
                 stellen, mehrfach, portalZaehler, annahmeZaehler>>

-----------------------------------------------------------------------------

PortalInit ==
  /\ pUmfang \in PortalUmfaenge
  /\ lageAktiv = TRUE /\ portal = 1 /\ links = 1
  /\ gateway \in {{}} \cup {{w} : w \in pUmfang.worker}
  /\ eingabe = [k \in Eingaben |-> None]
  /\ wartend = [w \in Workers |-> {}]
  /\ abgelaufen = {}
  /\ bericht = [k \in Eingaben |-> None]
  /\ annahmen = {} /\ stellen = {}
  /\ mehrfach = {}
  /\ portalZaehler = 0 /\ annahmeZaehler = 0

PortalNext ==
  \/ TokenErzeugen \/ LageWechseln \/ GatewayWechselt
  \/ \E k \in Eingaben :
       \/ SmsErgebnis(k) \/ ZehnMinuten(k) \/ MeldungAblehnen(k) \/ MeldungAlsLageinfo(k)
       \/ \E w \in Workers : BuergerSubmit(w, k) \/ BuergerVerify(w, k) \/ AnnehmenBeginnen(w, k)
  \/ \E w \in Workers : PortalNeustart(w)
  \/ \E t \in annahmen : AnnehmenEndet(t)

PortalSpec == PortalInit /\ [][PortalNext]_portalVars

-----------------------------------------------------------------------------
(* Properties *)

PortalTypeOK ==
  /\ eingabe \in [Eingaben -> {None, "sms", "code", "fehler", "fertig", "verloren"}]
  /\ wartend \in [Workers -> SUBSET Eingaben]
  /\ \A k \in Eingaben : bericht[k] # None =>
       bericht[k].status \in {"new", "accepted", "rejected"} /\ bericht[k].geprueft \in BOOLEAN
  /\ portal = None \/ portal \in 1..links

\* A submission becomes one report at most: the code counts once, however often
\* and at whichever worker it is sent.
EinBerichtJeEingabe == mehrfach = {}

\* A report that is marked as accepted has led somewhere: to a site that exists or
\* to a marker, whoever refused or accepted it in between and whatever failed.
AngenommenesFuehrtWeiter ==
  \A k \in Eingaben : (bericht[k] # None /\ bericht[k].status = "accepted") =>
    bericht[k].marker \/ \E s \in stellen : s.nr = bericht[k].stelle /\ s.bericht = k

\* Within the ten minutes a submission whose SMS was sent is not thrown away by
\* those of others: it waits until its code arrives or its worker is restarted.
FristWirdGewaehrt ==
  \A k \in Eingaben :
    (eingabe[k] = "code" /\ k \notin abgelaufen) =>
      \E w \in Workers : k \in wartend[w]

\* What the portal promises its citizens and its staff.
PortalVersprechen ==
  /\ PortalTypeOK
  /\ EinBerichtJeEingabe
  /\ AngenommenesFuehrtWeiter
  /\ FristWirdGewaehrt
=============================================================================
