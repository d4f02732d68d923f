------------------------------ MODULE Verleih ------------------------------
(***************************************************************************)
(* Lending of equipment during a large-scale incident: loans with their    *)
(* positions, the availability of single articles, and the reminder by SMS *)
(* every worker's loop sends to borrowers that are late.                   *)
(*                                                                         *)
(* Source: app/services/verleih_service.py, verleih_erinnerung.py,         *)
(* app/routers/ui_verleih.py, app/models/verleih.py.                       *)
(*                                                                         *)
(* A request is a transaction that reads a snapshot and writes what it     *)
(* changed of it. Of one worker or of two, several are open at once: a     *)
(* form is awaited after the loan was read. The loop keeps the loans it    *)
(* has read over the awaits of the SMS. Names, photos and the journal are  *)
(* left out.                                                               *)
(***************************************************************************)
EXTENDS Basis, Naturals, FiniteSets

CONSTANTS
  Ausleihen,     \* loans
  Positionen,    \* their positions, numbered in the order they are entered
  Artikel,       \* articles of the inventory
  SmsGeht,       \* the loans whose number a SMS reaches
  VerleihUmfaenge,  \* bounds: workers, requests open at once, loans, number of
                    \* positions, articles lent, and whether borrowers are reminded
  MaxStoerung    \* bound: restarts of workers and changes of the inventory

AusleiheZeilen == [offen : BOOLEAN, telefon : BOOLEAN, gesendet : BOOLEAN,
                   geplant : {None, "spaeter", "jetzt"}]
PositionZeilen == [ausleihe : Ausleihen, artikel : Artikel \cup {None}, offen : BOOLEAN]

\* What a request is about, a loan (or None: a new one) and positions of it, and what
\* it has read.
LeihAnfragen ==
  [art : {"neu", "position", "alle", "nachtrag"}, ausleihe : Ausleihen \cup {None},
   P : SUBSET Positionen, pos : [Positionen -> PositionZeilen \cup {None}],
   frei : [Artikel -> BOOLEAN], menge : [Artikel -> BOOLEAN], offen : BOOLEAN]

ASSUME VerleihAssumption ==
  /\ IsFiniteSet(Workers) /\ IsFiniteSet(Positionen)
  /\ None \notin Ausleihen \cup AusleiheZeilen \cup PositionZeilen \cup LeihAnfragen
  /\ \A u \in VerleihUmfaenge :
       /\ u.worker \subseteq Workers /\ u.zugleich \subseteq Workers
       /\ u.ausleihen \subseteq Ausleihen
       /\ u.artikel \subseteq Artikel \cup {None} /\ u.sms \subseteq BOOLEAN
       /\ 1..u.positionen \subseteq Positionen

VARIABLES
  vUmfang,     \* the bounds of this run
  vWorker,     \* the workers of this deployment
  ausleihe,    \* verleih_ausleihe: None, or status, phone and reminder
  position,    \* verleih_position: None, or loan, article and status
  frei,        \* verfuegbarkeit of an article: is it "verfuegbar"
  menge,       \* ist_mengenartikel: an article that exists in numbers
  anfrage,     \* the transactions between their read and their commit
  vPass,       \* per worker: the loans its loop still works on, and the SMS on the way
  ursachen,    \* history: articles whose availability was overruled
  vUeberholt,  \* history: loans a commit closed or opened from what was read too early
  gesendet,    \* history: reminders the loops sent for a loan
  stoerungen   \* bound

verleihVars == <<vUmfang, vWorker, ausleihe, position, frei, menge, anfrage, vPass, ursachen,
                 vUeberholt, gesendet, stoerungen>>

Ruhend == [rest |-> {}, sms |-> None]

Offen(p) == position[p] # None /\ position[p].offen

VonAusleihe(pos, a) == {p \in Positionen : pos[p] # None /\ pos[p].ausleihe = a}

-----------------------------------------------------------------------------
(* Loans *)

ArtikelNeu(f) == {f[p] : p \in DOMAIN f} \ {None}

ArtikelVon(pos, P) == {pos[p].artikel : p \in P} \ {None}

\* _mark_artikel_ausgeliehen, _mark_artikel_verfuegbar: single articles only, and
\* what differs from the snapshot is written.
Markiert(t, G, wert) ==
  [g \in Artikel |-> IF g \in G /\ ~t.menge[g] /\ t.frei[g] # wert THEN wert ELSE frei[g]]

\* The positions P are entered for loan a with the articles f; the page warns
\* of an article that is out, and nothing refuses it.
Eingetragen(P, f, a) ==
  [p \in Positionen |->
     IF p \in P THEN [ausleihe |-> a, artikel |-> f[p], offen |-> TRUE] ELSE position[p]]

Unbenutzt == {p \in 1..vUmfang.positionen : position[p] = None}

Doppelte(pos) ==
  {g \in Artikel : Cardinality({p \in Positionen :
                      pos[p] # None /\ pos[p].offen /\ pos[p].artikel = g}) > 1}

\* What a request reads, before its form is awaited: the status of its loan, the
\* positions and the articles.
Beginnen(w, art, a, P) ==
  /\ w \in vUmfang.zugleich /\ anfrage[w] = None
  /\ art # "neu" => ausleihe[a] # None
  /\ anfrage' = [anfrage EXCEPT ![w] =
       [art |-> art, ausleihe |-> a, P |-> P, pos |-> position, frei |-> frei, menge |-> menge,
        offen |-> art # "neu" /\ ausleihe[a].offen]]
  /\ UNCHANGED <<vUmfang, vWorker, ausleihe, position, frei, menge, vPass, ursachen,
                 vUeberholt, gesendet, stoerungen>>

\* A form without a position is refused.
Verworfen(w) ==
  /\ anfrage[w] # None /\ anfrage[w].art \in {"neu", "nachtrag"}
  /\ anfrage' = [anfrage EXCEPT ![w] = None]
  /\ UNCHANGED <<vUmfang, vWorker, ausleihe, position, frei, menge, vPass, ursachen,
                 vUeberholt, gesendet, stoerungen>>

\* The loan, if its status or a position of it is not what the request has read.
Ueberholte(t) ==
  {a \in Ausleihen \cap {t.ausleihe} :
     \/ ausleihe[a].offen # t.offen
     \/ \E p \in VonAusleihe(position, a) : position[p] # t.pos[p]}

\* Articles that are lent twice, or whose availability is not what the request has read.
Uebergangen(t, f) ==
  Doppelte(position') \cup {g \in ArtikelNeu(f) : frei[g] # t.frei[g]}

\* verleih_neu, create_ausleihe: with a due reminder if the organisation has set
\* hours for it.
CreateAusleihe(w, a, P, f, telefon, erinnern) ==
  LET t == anfrage[w] IN
  /\ t # None /\ t.art = "neu"
  /\ ausleihe[a] = None /\ P # {} /\ P \subseteq Unbenutzt
  /\ ausleihe' = [ausleihe EXCEPT ![a] =
       [offen |-> TRUE, telefon |-> telefon, gesendet |-> FALSE,
        geplant |-> IF erinnern THEN "spaeter" ELSE None]]
  /\ position' = Eingetragen(P, f, a)
  /\ frei' = Markiert(t, ArtikelNeu(f), FALSE)
  /\ ursachen' = ursachen \cup Uebergangen(t, f)
  /\ anfrage' = [anfrage EXCEPT ![w] = None]
  /\ UNCHANGED <<vUmfang, vWorker, menge, vPass, vUeberholt, gesendet, stoerungen>>

Zurueck(P) == [p \in Positionen |-> IF p \in P THEN [position[p] EXCEPT !.offen = FALSE]
                                    ELSE position[p]]

\* Articles that are given back a second time, from an old page.
Nochmals(P) == ArtikelVon(position, {p \in P : ~position[p].offen})

\* all positions of the loan are back
Fertig(pos, a, P) == \A p \in VonAusleihe(pos, a) \ P : ~pos[p].offen

\* return_position: also of one that is back already.
ReturnPosition(w) ==
  LET t == anfrage[w] IN
  /\ t # None /\ t.art = "position"
  /\ position' = Zurueck(t.P)
  /\ frei' = Markiert(t, ArtikelVon(t.pos, t.P), TRUE)
  /\ ursachen' = ursachen \cup Nochmals(t.P)
  /\ ausleihe' = IF t.offen /\ Fertig(t.pos, t.ausleihe, t.P)
                   THEN [ausleihe EXCEPT ![t.ausleihe].offen = FALSE] ELSE ausleihe
  /\ vUeberholt' = vUeberholt \cup Ueberholte(t)
  /\ anfrage' = [anfrage EXCEPT ![w] = None]
  /\ UNCHANGED <<vUmfang, vWorker, menge, vPass, gesendet, stoerungen>>

NochOffene(t) == {p \in VonAusleihe(t.pos, t.ausleihe) : t.pos[p].offen}

\* return_all
ReturnAll(w) ==
  LET t == anfrage[w] IN
  /\ t # None /\ t.art = "alle"
  /\ position' = Zurueck(NochOffene(t))
  /\ frei' = Markiert(t, ArtikelVon(t.pos, NochOffene(t)), TRUE)
  /\ ursachen' = ursachen \cup Nochmals(NochOffene(t))
  /\ ausleihe' = [ausleihe EXCEPT ![t.ausleihe].offen = IF t.offen THEN FALSE ELSE @]
  /\ vUeberholt' = vUeberholt \cup Ueberholte(t)
  /\ anfrage' = [anfrage EXCEPT ![w] = None]
  /\ UNCHANGED <<vUmfang, vWorker, menge, vPass, gesendet, stoerungen>>

\* positionen_hinzufuegen, add_positionen: a loan that was returned is open again.
AddPositionen(w, P, f) ==
  LET t == anfrage[w] IN
  /\ t # None /\ t.art = "nachtrag" /\ P # {} /\ P \subseteq Unbenutzt
  /\ position' = Eingetragen(P, f, t.ausleihe)
  /\ frei' = Markiert(t, ArtikelNeu(f), FALSE)
  /\ ursachen' = ursachen \cup Uebergangen(t, f)
  /\ ausleihe' = [ausleihe EXCEPT ![t.ausleihe].offen = IF t.offen THEN @ ELSE TRUE]
  /\ vUeberholt' = vUeberholt \cup Ueberholte(t)
  /\ anfrage' = [anfrage EXCEPT ![w] = None]
  /\ UNCHANGED <<vUmfang, vWorker, menge, vPass, gesendet, stoerungen>>

\* erinnerung_manuell: sent by hand, marked when it went out.
ErinnerungManuell(a) ==
  /\ ausleihe[a] # None /\ ausleihe[a].telefon /\ a \in SmsGeht
  /\ ausleihe' = [ausleihe EXCEPT ![a].gesendet = TRUE]
  /\ UNCHANGED <<vUmfang, vWorker, position, frei, menge, anfrage, vPass, ursachen,
                 vUeberholt, gesendet, stoerungen>>

-----------------------------------------------------------------------------
(* Inventory *)

\* toggle_artikel_verfuegbarkeit: an article is locked or released by hand.
ArtikelStatusToggle(g) ==
  /\ ~menge[g] /\ stoerungen < MaxStoerung
  /\ frei' = [frei EXCEPT ![g] = ~@]
  /\ ursachen' = ursachen \cup {g}
  /\ stoerungen' = stoerungen + 1
  /\ UNCHANGED <<vUmfang, vWorker, ausleihe, position, menge, anfrage, vPass, vUeberholt,
                 gesendet>>

\* verleih_artikel_bearbeiten: single or in numbers; the availability stays.
ArtikelBearbeiten(g) ==
  /\ stoerungen < MaxStoerung
  /\ menge' = [menge EXCEPT ![g] = ~@]
  /\ ursachen' = ursachen \cup {g}
  /\ stoerungen' = stoerungen + 1
  /\ UNCHANGED <<vUmfang, vWorker, ausleihe, position, frei, anfrage, vPass, vUeberholt,
                 gesendet>>

-----------------------------------------------------------------------------
(* _check_faellige_erinnerungen *)

ZeitRueckt(a) ==
  /\ ausleihe[a] # None /\ ausleihe[a].geplant = "spaeter"
  /\ ausleihe' = [ausleihe EXCEPT ![a].geplant = "jetzt"]
  /\ UNCHANGED <<vUmfang, vWorker, position, frei, menge, anfrage, vPass, ursachen,
                 vUeberholt, gesendet, stoerungen>>

Saeumige ==
  {a \in Ausleihen : /\ ausleihe[a] # None /\ ausleihe[a].offen
                     /\ ausleihe[a].geplant = "jetzt" /\ ausleihe[a].telefon
                     /\ ~ausleihe[a].gesendet}

PassLesen(w) ==
  /\ w \in vWorker
  /\ vPass[w] = Ruhend /\ Saeumige # {}
  /\ vPass' = [vPass EXCEPT ![w].rest = Saeumige]
  /\ UNCHANGED <<vUmfang, vWorker, ausleihe, position, frei, menge, anfrage, ursachen,
                 vUeberholt, gesendet, stoerungen>>

\* The SMS to the next one is awaited; the loan is not looked at again.
SmsSchicken(w) ==
  /\ vPass[w].sms = None
  /\ \E a \in vPass[w].rest :
       /\ vPass' = [vPass EXCEPT ![w] = [rest |-> @.rest \ {a}, sms |-> a]]
       /\ gesendet' = [gesendet EXCEPT ![a] = IF a \in SmsGeht THEN @ + 1 ELSE @]
  /\ UNCHANGED <<vUmfang, vWorker, ausleihe, position, frei, menge, anfrage, ursachen,
                 vUeberholt, stoerungen>>

\* Mutant: one that is not reached ends the pass.
WeiterNurNachErfolg(p) ==
  [rest |-> IF p.sms \in SmsGeht THEN p.rest ELSE {}, sms |-> None]

Weiter(p) == [p EXCEPT !.sms = None]

\* The answer of the gateway: marked and committed, or tried again next time.
SmsErledigt(w) ==
  /\ vPass[w].sms # None
  /\ ausleihe' = IF vPass[w].sms \in SmsGeht
                   THEN [ausleihe EXCEPT ![vPass[w].sms].gesendet = TRUE] ELSE ausleihe
  /\ vPass' = [vPass EXCEPT ![w] = Weiter(@)]
  /\ UNCHANGED <<vUmfang, vWorker, position, frei, menge, anfrage, ursachen, vUeberholt,
                 gesendet, stoerungen>>

\* A worker is restarted: its pass is lost, and the requests W it was working on.
WorkerNeustart(w, W) ==
  /\ w \in vWorker /\ stoerungen < MaxStoerung
  /\ vPass' = [vPass EXCEPT ![w] = Ruhend]
  /\ anfrage' = [x \in Workers |-> IF x \in W THEN None ELSE anfrage[x]]
  /\ stoerungen' = stoerungen + 1
  /\ UNCHANGED <<vUmfang, vWorker, ausleihe, position, frei, menge, ursachen, vUeberholt,
                 gesendet>>

-----------------------------------------------------------------------------

VerleihInit ==
  /\ vUmfang \in VerleihUmfaenge
  /\ vWorker = vUmfang.worker
  /\ ausleihe = [a \in Ausleihen |-> None]
  /\ position = [p \in Positionen |-> None]
  /\ frei = [g \in Artikel |-> TRUE]
  /\ menge = [g \in Artikel |-> FALSE]
  /\ anfrage = [w \in Workers |-> None]
  /\ vPass = [w \in Workers |-> Ruhend]
  /\ ursachen = {}
  /\ vUeberholt = {}
  /\ gesendet = [a \in Ausleihen |-> 0]
  /\ stoerungen = 0

\* The next k ids.
Naechste(k) == {p \in Unbenutzt : Cardinality({q \in Unbenutzt : q <= p}) <= k}

Anfangen(w) ==
  \/ Beginnen(w, "neu", None, {})
  \/ \E a \in vUmfang.ausleihen :
       \/ \E p \in VonAusleihe(position, a) : Beginnen(w, "position", a, {p})
       \/ Beginnen(w, "alle", a, {})
       \/ Beginnen(w, "nachtrag", a, {})

Festschreiben(w) ==
  \/ ReturnPosition(w)
  \/ ReturnAll(w)
  \/ Verworfen(w)
  \/ \E f \in [Naechste(1) -> vUmfang.artikel] : AddPositionen(w, Naechste(1), f)
  \/ \E a \in vUmfang.ausleihen, k \in 1..2, telefon, erinnern \in vUmfang.sms :
       \E f \in [Naechste(k) -> vUmfang.artikel] :
         CreateAusleihe(w, a, Naechste(k), f, telefon, erinnern)

Stammdaten == \E g \in vUmfang.artikel \ {None} : ArtikelStatusToggle(g) \/ ArtikelBearbeiten(g)

Durchlauf(w) == PassLesen(w) \/ SmsSchicken(w) \/ SmsErledigt(w)

VerleihNext ==
  \/ \E w \in Workers :
       \/ Anfangen(w) \/ Festschreiben(w) \/ Durchlauf(w)
       \/ \E W \in SUBSET Workers : WorkerNeustart(w, W)
  \/ Stammdaten
  \/ \E a \in Ausleihen : ErinnerungManuell(a) \/ ZeitRueckt(a)

VerleihSpec ==
  VerleihInit /\ [][VerleihNext]_verleihVars /\ \A w \in Workers : WF_verleihVars(Durchlauf(w))

-----------------------------------------------------------------------------
(* Properties *)

VerleihTypeOK ==
  /\ \A a \in Ausleihen : ausleihe[a] # None =>
       /\ ausleihe[a].geplant \in {None, "spaeter", "jetzt"}
       /\ VonAusleihe(position, a) # {}
  /\ \A p \in Positionen : position[p] # None =>
       ausleihe[position[p].ausleihe] # None /\ position[p].artikel \in Artikel \cup {None}
  /\ \A w \in Workers : vPass[w].sms \notin vPass[w].rest

\* return_position, add_positionen: a loan is closed exactly when all its positions are
\* back, however the requests about it and about others alternate with the awaits of
\* their forms; but for a loan that a request closed or opened although it, or one of
\* its positions, was changed since the request had read it.
OffenSolangeEtwasFehlt ==
  \A a \in Ausleihen \ vUeberholt : ausleihe[a] # None =>
    (ausleihe[a].offen <=> \E p \in VonAusleihe(position, a) : position[p].offen)

\* An article that is shown as available is with nobody, unless it was lent twice, was
\* returned a second time from an old page, was taken by a request that had read its
\* availability before it changed, or was overruled by hand.
VerfuegbaresIstDa ==
  \A p \in Positionen :
    (Offen(p) /\ position[p].artikel \notin ursachen \cup {None})
      => ~frei[position[p].artikel]

\* A borrower gets at most one reminder from each worker's loop, and one more only
\* when a worker is restarted between the SMS and its mark.
EineErinnerungJeWorker ==
  \A a \in Ausleihen : gesendet[a] <= Cardinality(vWorker) + stoerungen

\* A late borrower that can be reached is reminded, however many before him cannot.
SaeumigeWerdenErinnert ==
  \A a \in SmsGeht :
    (a \in Saeumige) ~> (gesendet[a] > 0 \/ a \notin Saeumige)

\* What the loans promise: open until everything is back, nothing free that is with a
\* borrower, and one reminder for whoever is late.
VerleihVersprechen ==
  /\ []VerleihTypeOK
  /\ []OffenSolangeEtwasFehlt
  /\ []VerfuegbaresIstDa
  /\ []EineErinnerungJeWorker
  /\ SaeumigeWerdenErinnert
=============================================================================
