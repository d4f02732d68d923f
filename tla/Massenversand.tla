---------------------------- MODULE Massenversand ----------------------------
(***************************************************************************)
(* One text to many: the SMS an alarm sends to its distribution list, and  *)
(* the one an administrator sends to groups, members or a number. The      *)
(* sending of a single SMS is SmsGateway; here it arrives or fails.        *)
(*                                                                         *)
(* Source: app/services/sms_dispatch_service.py, app/routers/ui_sms.py,    *)
(* app/models/sms.py, and the call in app/routers/api_v1.py.               *)
(*                                                                         *)
(* One organisation with one group and one alarm word. A number stands for *)
(* what is left when blanks, hyphens and brackets are stripped (Norm);     *)
(* +43 and 0 stay different numbers. Templates and texts are left out.     *)
(***************************************************************************)
EXTENDS Basis, Naturals, FiniteSets

CONSTANTS
  Kameraden,
  Schreibweisen,    \* phone numbers as they were typed
  Norm,             \* _normalize_phone of each
  Sendungen,        \* bulk messages
  VersandUmfaenge,  \* bounds: messages and their kinds, changes of the
                    \* lists; and the numbers of the members
  MaxAbbrueche      \* bound: workers that end while they send

VARIABLES
  mvUmfang,
  kameraden,        \* per member: active, and the number or None
  gruppe,       \* members of the group (sms_group_member)
  verteiler,    \* sms_einsatzinfo_recipient: word or "alle", group or member
  schalter,     \* OrgSettings: the service, and the service for exercises
  sendung,      \* per message: not begun, being sent, done or broken off
  mvLog,        \* sms_log: message, recipients and successes
  zugestellt,     \* history: per message, how often a number was sent it
  gemeint,      \* history: per message, the numbers its members had when it began
  mvAenderungen, mvAbbrueche   \* bounds

versandVars == <<mvUmfang, kameraden, gruppe, verteiler, schalter, sendung, mvLog, zugestellt,
                 gemeint, mvAenderungen, mvAbbrueche>>
mvListen == <<kameraden, gruppe, verteiler, schalter>>

Nummern == {Norm[s] : s \in Schreibweisen}
ASSUME VersandAssumption == IsFiniteSet(Nummern)

NichtBegonnen == [stand |-> "neu", offen |-> {}, gesamt |-> 0, erfolg |-> 0]

Erreichbar(m) == kameraden[m].aktiv /\ kameraden[m].nummer # None
NummerVon(m) == Norm[kameraden[m].nummer]

-----------------------------------------------------------------------------
(* Lists *)

EineListenAenderung ==
  mvAenderungen < mvUmfang.aenderungen /\ mvAenderungen' = mvAenderungen + 1

\* sms_group_set_members replaces the members; import_gruppen_excel adds one.
GruppeSetzen(M) ==
  /\ EineListenAenderung /\ gruppe' = M
  /\ UNCHANGED <<mvUmfang, kameraden, verteiler, schalter, sendung, mvLog, zugestellt, gemeint, mvAbbrueche>>

\* import_gruppen_excel: who is in the file is a member of the group and active again;
\* a number in the file replaces the stored one. The import of members, import_excel,
\* leaves the group alone.
ExcelZeile(m, nummer, inGruppe) ==
  /\ EineListenAenderung
  /\ gruppe' = IF inGruppe THEN gruppe \cup {m} ELSE gruppe
  /\ kameraden' = [kameraden EXCEPT
       ![m] = [aktiv |-> TRUE, nummer |-> IF nummer = None THEN @.nummer ELSE nummer]]
  /\ UNCHANGED <<mvUmfang, verteiler, schalter, sendung, mvLog, zugestellt, gemeint, mvAbbrueche>>

\* einsatzinfo_sms_save_basis, einsatzinfo_sms_save_stichwort: the list of a word is
\* replaced in one transaction.
VerteilerSpeichern(wort, wer) ==
  /\ EineListenAenderung
  /\ verteiler' = {e \in verteiler : e.wort # wort} \cup {[wort |-> wort, wer |-> w] : w \in wer}
  /\ UNCHANGED <<mvUmfang, kameraden, gruppe, schalter, sendung, mvLog, zugestellt, gemeint, mvAbbrueche>>

\* sms_group_delete: the entries of the group go with it.
GruppeLoeschen ==
  /\ EineListenAenderung
  /\ gruppe' = {} /\ verteiler' = {e \in verteiler : e.wer # "gruppe"}
  /\ UNCHANGED <<mvUmfang, kameraden, schalter, sendung, mvLog, zugestellt, gemeint, mvAbbrueche>>

\* einsatzinfo_sms_save_settings
SchalterSetzen(s) ==
  /\ EineListenAenderung /\ schalter' = s
  /\ UNCHANGED <<mvUmfang, kameraden, gruppe, verteiler, sendung, mvLog, zugestellt, gemeint, mvAbbrueche>>

\* edit_member: the number is replaced, an empty one deletes it.
MitgliedBearbeiten(m, nummer) ==
  /\ EineListenAenderung
  /\ kameraden' = [kameraden EXCEPT ![m].nummer = nummer]
  /\ UNCHANGED <<mvUmfang, gruppe, verteiler, schalter, sendung, mvLog, zugestellt, gemeint, mvAbbrueche>>

\* toggle_member: a member leaves the service, or comes back.
MitgliedUmschalten(m) ==
  /\ EineListenAenderung
  /\ kameraden' = [kameraden EXCEPT ![m].aktiv = ~@]
  /\ UNCHANGED <<mvUmfang, gruppe, verteiler, schalter, sendung, mvLog, zugestellt, gemeint, mvAbbrueche>>

-----------------------------------------------------------------------------
(* Recipients *)

\* Whom an entry of the list means.
Hinter(e) == IF e.wer = "gruppe" THEN gruppe ELSE {e.wer}

\* collect_einsatzinfo_recipients: the members behind the basic list and the one of the
\* word, one number each.
Empfaenger(wort) ==
  {m \in UNION {Hinter(e) : e \in {f \in verteiler : f.wort \in {"alle", wort}}} : Erreichbar(m)}

\* sms_send_execute: a group, or members.
Handverlesen(M) == {m \in M : Erreichbar(m)}

VersandBeginnen(s, wer) ==
  /\ s \in mvUmfang.sendungen /\ sendung[s].stand = "neu"
  /\ sendung' = [sendung EXCEPT ![s] = [stand |-> "laeuft", offen |-> {NummerVon(m) : m \in wer},
                                        gesamt |-> Cardinality({NummerVon(m) : m \in wer}),
                                        erfolg |-> 0]]
  /\ gemeint' = [gemeint EXCEPT ![s] = {NummerVon(m) : m \in wer}]
  /\ UNCHANGED <<mvUmfang, mvLog, zugestellt, mvAenderungen, mvAbbrueche, mvListen>>

\* dispatch_einsatzinfo, the background task of an alarm: nothing is sent when the
\* service is off, when the alarm is an exercise, or when nobody is on the list.
EinsatzinfoBeginnen(s, wort, uebung) ==
  /\ "alarm" \in mvUmfang.arten
  /\ schalter.an /\ (uebung => schalter.uebung)
  /\ Empfaenger(wort) # {}
  /\ VersandBeginnen(s, Empfaenger(wort))

ManuellBeginnen(s, M) ==
  /\ "manuell" \in mvUmfang.arten
  /\ Handverlesen(M) # {} /\ VersandBeginnen(s, Handverlesen(M))

-----------------------------------------------------------------------------
(* Sending *)

\* Mutant: a number stays on the list until it was reached.
OffenNachErfolg(s, n, ok) == IF ok THEN sendung[s].offen \ {n} ELSE sendung[s].offen

OffenNach(s, n, ok) == sendung[s].offen \ {n}

\* send_bulk: one number after the other; a failure is counted and passed over. Other
\* messages and changes of the lists happen while it waits.
EineSms(s, n, ok) ==
  /\ sendung[s].stand = "laeuft" /\ n \in sendung[s].offen
  /\ sendung' = [sendung EXCEPT ![s].offen = OffenNach(s, n, ok),
                                ![s].erfolg = @ + IF ok THEN 1 ELSE 0]
  /\ zugestellt' = [zugestellt EXCEPT ![s][n] = @ + 1]
  /\ UNCHANGED <<mvUmfang, mvLog, gemeint, mvAenderungen, mvAbbrueche, mvListen>>

\* One row of sms_log for the message.
Protokollieren(s) ==
  /\ sendung[s].stand = "laeuft" /\ sendung[s].offen = {}
  /\ mvLog' = mvLog \cup {[sendung |-> s, gesamt |-> sendung[s].gesamt, erfolg |-> sendung[s].erfolg]}
  /\ sendung' = [sendung EXCEPT ![s].stand = "fertig"]
  /\ UNCHANGED <<mvUmfang, zugestellt, gemeint, mvAenderungen, mvAbbrueche, mvListen>>

\* The worker ends: what is left is not sent and what was sent is not logged.
VersandAbbruch(s) ==
  /\ mvAbbrueche < MaxAbbrueche /\ mvAbbrueche' = mvAbbrueche + 1
  /\ sendung[s].stand = "laeuft"
  /\ sendung' = [sendung EXCEPT ![s].stand = "abgebrochen"]
  /\ UNCHANGED <<mvUmfang, mvLog, zugestellt, gemeint, mvAenderungen, mvListen>>

-----------------------------------------------------------------------------

VersandInit ==
  /\ mvUmfang \in VersandUmfaenge
  /\ kameraden \in [Kameraden -> [aktiv : {TRUE}, nummer : Schreibweisen \cup {None}]]
  /\ \A m \in Kameraden : kameraden[m].nummer = mvUmfang.nummern[m]
  /\ gruppe = Kameraden
  /\ verteiler = {[wort |-> "alle", wer |-> "gruppe"]} \cup {[wort |-> "b2", wer |-> m] : m \in Kameraden}
  /\ schalter = [an |-> TRUE, uebung |-> FALSE]
  /\ sendung = [s \in Sendungen |-> NichtBegonnen]
  /\ mvLog = {}
  /\ zugestellt = [s \in Sendungen |-> [n \in Nummern |-> 0]]
  /\ gemeint = [s \in Sendungen |-> {}]
  /\ mvAenderungen = 0 /\ mvAbbrueche = 0

ListenSchritt ==
  \/ \E M \in SUBSET Kameraden : GruppeSetzen(M)
  \/ \E m \in Kameraden, nummer \in Schreibweisen \cup {None} :
       \/ \E inGruppe \in BOOLEAN : ExcelZeile(m, nummer, inGruppe)
       \/ MitgliedBearbeiten(m, nummer)
  \/ \E m \in Kameraden : MitgliedUmschalten(m)
  \/ \E wort \in {"alle", "b2"}, M \in SUBSET (Kameraden \cup {"gruppe"}) : VerteilerSpeichern(wort, M)
  \/ \E s \in [an : BOOLEAN, uebung : BOOLEAN] : SchalterSetzen(s)
  \/ GruppeLoeschen

VersandNext ==
  \/ ListenSchritt
  \/ \E s \in Sendungen :
       \/ \E wort \in {"b2", "t1"}, u \in BOOLEAN : EinsatzinfoBeginnen(s, wort, u)
       \/ \E M \in SUBSET Kameraden : ManuellBeginnen(s, M)
       \/ \E n \in Nummern, ok \in BOOLEAN : EineSms(s, n, ok)
       \/ Protokollieren(s) \/ VersandAbbruch(s)

VersandSpec == VersandInit /\ [][VersandNext]_versandVars

-----------------------------------------------------------------------------
(* Properties *)

VersandTypeOK ==
  /\ \A s \in Sendungen : /\ sendung[s].stand \in {"neu", "laeuft", "fertig", "abgebrochen"}
                          /\ sendung[s].offen \subseteq Nummern
  /\ gruppe \subseteq Kameraden
  /\ \A e \in verteiler : e.wer \in Kameraden \cup {"gruppe"}

\* collect_einsatzinfo_recipients: "Dedupliziert ueber die Telefonnummer". Whoever is on
\* several lists, and two members who share a number, get a message once; a failure is
\* not tried again.
EinmalJeNummer == \A s \in Sendungen, n \in Nummern : zugestellt[s][n] <= 1

\* A message goes to the numbers its recipients had when it began and to nobody else,
\* whatever happens to the lists and the numbers meanwhile; when it is done, each of
\* them was tried. Who gets another number meanwhile is sent it at the old one.
AlleGemeintenVersucht ==
  \A s \in Sendungen :
    LET versucht == {n \in Nummern : zugestellt[s][n] > 0}
    IN  /\ versucht \subseteq gemeint[s]
        /\ sendung[s].stand = "fertig" => versucht = gemeint[s]

\* A finished message has one row in the log, whose count is the number of SMS that
\* were tried; a broken one has none.
ProtokollStimmt ==
  \A s \in Sendungen :
    LET eintraege == {e \in mvLog : e.sendung = s}
    IN  IF sendung[s].stand = "fertig"
        THEN /\ Cardinality(eintraege) = 1
             /\ \A e \in eintraege :
                  /\ e.gesamt = Cardinality({n \in Nummern : zugestellt[s][n] > 0})
                  /\ e.erfolg <= e.gesamt
        ELSE eintraege = {}

\* What a message to many promises.
VersandVersprechen ==
  /\ VersandTypeOK
  /\ EinmalJeNummer
  /\ AlleGemeintenVersucht
  /\ ProtokollStimmt
=============================================================================
