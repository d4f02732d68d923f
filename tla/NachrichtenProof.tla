-------------------------- MODULE NachrichtenProof --------------------------
(* What is sent: to browsers, to many members, through the gateways, and the *)
(* warnings of the weather service. For any number of browsers, members,     *)
(* gateways, jobs, warnings and workers.                                     *)
EXTENDS Rundruf, Massenversand, SmsGateway, Wetterwarnung,
        SequenceTheorems, FiniteSetTheorems, TLAPS

-----------------------------------------------------------------------------
(* Broadcasts to the browsers *)

RundrufTypen ==
  /\ endpunkt \in [Sockets -> {"neu", "liest", "beendet"}]
  /\ leitung \subseteq Sockets
  /\ registry \subseteq {s \in Sockets : endpunkt[s] \in {"liest", "beendet"}}
  /\ ruf \in [Rufe -> [stand : {"offen", "sendet", "fertig"}, alle : SUBSET Sockets,
                       rest : SUBSET Sockets, tot : SUBSET Sockets]]
  /\ erhalten \in [Rufe -> SUBSET Sockets]

\* What is found dead stays dead, and was in the copy.
ToteBleibenTot ==
  \A b \in Rufe : /\ ruf[b].tot \cap leitung = {}
                  /\ ruf[b].rest \cup ruf[b].tot \subseteq ruf[b].alle

\* Under way, whoever is connected has been reached or is still to come.
NochUnterwegs ==
  \A b \in Rufe :
    ruf[b].stand = "sendet" => ruf[b].alle \cap leitung \subseteq erhalten[b] \cup ruf[b].rest

RundrufIInv ==
  /\ RundrufTypen /\ ToteBleibenTot /\ NochUnterwegs
  /\ VerbundeneBleiben /\ AlleVerbundenenErreicht

LEMMA AmAnfang == RundrufInit => RundrufIInv
BY DEF RundrufInit, RundrufIInv, RundrufTypen, ToteBleibenTot, NochUnterwegs,
       VerbundeneBleiben, AlleVerbundenenErreicht, Ungerufen

\* Browsers come and go: lines only break, so every part shrinks with the lines.
LEMMA BrowserHalten ==
  ASSUME RundrufIInv, NEW s \in Sockets, Eintragen(s) \/ LeitungBricht(s) \/ EndpunktEndet(s)
  PROVE  RundrufIInv'
<1> USE DEF RundrufIInv, RundrufTypen, ToteBleibenTot, NochUnterwegs, VerbundeneBleiben,
            AlleVerbundenenErreicht
<1>1. CASE Eintragen(s)
  BY <1>1 DEF Eintragen
<1>2. CASE LeitungBricht(s)
  BY <1>2 DEF LeitungBricht
<1>3. CASE EndpunktEndet(s)
  BY <1>3 DEF EndpunktEndet
<1> QED
  BY <1>1, <1>2, <1>3

LEMMA RufenHaelt ==
  ASSUME RundrufIInv, NEW b \in Rufe, Rufen(b)
  PROVE  RundrufIInv'
<1> USE DEF RundrufIInv, Rufen
<1>1. /\ ruf' = [ruf EXCEPT ![b] = [stand |-> "sendet", alle |-> registry,
                                    rest |-> registry, tot |-> {}]]
      /\ registry \subseteq Sockets
  BY DEF RundrufTypen
<1>2. RundrufTypen'
  BY <1>1 DEF RundrufTypen
<1>3. ToteBleibenTot'
  BY <1>1 DEF RundrufTypen, ToteBleibenTot
<1>4. NochUnterwegs'
  BY <1>1 DEF RundrufTypen, NochUnterwegs
<1>5. VerbundeneBleiben'
  BY DEF VerbundeneBleiben
<1>6. AlleVerbundenenErreicht'
  BY <1>1 DEF RundrufTypen, AlleVerbundenenErreicht
<1> QED
  BY <1>2, <1>3, <1>4, <1>5, <1>6

LEMMA SendenHaelt ==
  ASSUME RundrufIInv, NEW b \in Rufe, NEW s \in Sockets, RufSenden(b, s)
  PROVE  RundrufIInv'
<1> DEFINE Satz == [stand : {"offen", "sendet", "fertig"}, alle : SUBSET Sockets,
                    rest : SUBSET Sockets, tot : SUBSET Sockets]
<1> USE DEF RundrufIInv
<1>1. /\ ruf \in [Rufe -> Satz] /\ erhalten \in [Rufe -> SUBSET Sockets]
      /\ ruf[b] \in Satz
      /\ s \in ruf[b].rest /\ UNCHANGED <<endpunkt, leitung, registry>>
  BY DEF RundrufTypen, RufSenden
\* Whoever is not connected may be found dead, whoever is has been reached.
<1>2. PICK r \in Satz :
        /\ ruf' = [ruf EXCEPT ![b] = r]
        /\ r.stand = ruf[b].stand /\ r.alle = ruf[b].alle /\ r.rest = ruf[b].rest \ {s}
        /\ r.tot = ruf[b].tot \/ (r.tot = ruf[b].tot \cup {s} /\ s \notin leitung)
  <2>1. CASE ruf' = [ruf EXCEPT ![b].rest = @ \ {s}]
    <3>1. [ruf[b] EXCEPT !.rest = @ \ {s}] \in Satz
      BY <1>1
    <3> QED
      BY <1>1, <2>1, <3>1
  <2>2. CASE ruf' = [ruf EXCEPT ![b] = NachFehler(@, s)] /\ s \notin leitung
    <3>1. NachFehler(ruf[b], s) \in Satz
      BY <1>1 DEF NachFehler
    <3> QED
      BY <1>1, <2>2, <3>1 DEF NachFehler
  <2> QED
    BY <2>1, <2>2 DEF RufSenden
<1>3. /\ erhalten' \in [Rufe -> SUBSET Sockets]
      /\ \A c \in Rufe : erhalten[c] \subseteq erhalten'[c]
      /\ s \in leitung => s \in erhalten'[b]
  BY <1>1 DEF RufSenden
<1>4. /\ ruf' \in [Rufe -> Satz] /\ ruf'[b] = r
      /\ \A c \in Rufe \ {b} : ruf'[c] = ruf[c]
  BY <1>1, <1>2
<1>5. RundrufTypen'
  BY <1>1, <1>3, <1>4 DEF RundrufTypen
<1>6. ToteBleibenTot'
  BY <1>1, <1>2, <1>4 DEF ToteBleibenTot
<1>7. NochUnterwegs'
  BY <1>1, <1>2, <1>3, <1>4 DEF NochUnterwegs
<1>8. VerbundeneBleiben'
  BY <1>1 DEF VerbundeneBleiben
<1>9. AlleVerbundenenErreicht'
  BY <1>1, <1>2, <1>3, <1>4 DEF AlleVerbundenenErreicht
<1> QED
  BY <1>5, <1>6, <1>7, <1>8, <1>9

\* The dead ones are taken out of the registry of this moment: nobody who came in
\* meanwhile is.
LEMMA AufraeumenHaelt ==
  ASSUME RundrufIInv, NEW b \in Rufe, Aufraeumen(b)
  PROVE  RundrufIInv'
<1> USE DEF RundrufIInv, Aufraeumen, OhneTote
<1>1. RundrufTypen'
  BY DEF RundrufTypen
<1>2. ToteBleibenTot'
  BY DEF RundrufTypen, ToteBleibenTot
<1>3. NochUnterwegs'
  BY DEF RundrufTypen, NochUnterwegs
<1>4. VerbundeneBleiben'
  BY DEF VerbundeneBleiben, ToteBleibenTot
<1>5. AlleVerbundenenErreicht'
  BY DEF RundrufTypen, AlleVerbundenenErreicht, NochUnterwegs
<1> QED
  BY <1>1, <1>2, <1>3, <1>4, <1>5

LEMMA RundrufSchritt == RundrufIInv /\ [RundrufNext]_rundrufVars => RundrufIInv'
<1> SUFFICES ASSUME RundrufIInv, [RundrufNext]_rundrufVars
             PROVE  RundrufIInv'
  OBVIOUS
<1>1. CASE RundrufNext
  BY <1>1, BrowserHalten, RufenHaelt, SendenHaelt, AufraeumenHaelt
     DEF RundrufNext, Zustellung
<1>2. CASE UNCHANGED rundrufVars
  BY <1>2 DEF rundrufVars, RundrufIInv, RundrufTypen, ToteBleibenTot, NochUnterwegs,
              VerbundeneBleiben, AlleVerbundenenErreicht
<1> QED
  BY <1>1, <1>2

\* ConnectionManager.broadcast: it reaches every browser that stays connected and takes
\* none of them out of the registry, however many others come, go and call at once.
THEOREM RundrufHaelt == RundrufSpec => []RundrufVersprechen
<1>1. RundrufIInv => RundrufVersprechen
  BY DEF RundrufIInv, RundrufTypen, ToteBleibenTot, RundrufVersprechen, RundrufTypeOK
<1> QED
  BY AmAnfang, RundrufSchritt, <1>1, PTL DEF RundrufSpec

-----------------------------------------------------------------------------
(* Messages to many members *)

Saetze ==
  [stand : {"neu", "laeuft", "fertig", "abgebrochen"}, offen : SUBSET Nummern,
   gesamt : Nat, erfolg : Nat]

Kameradenwerte == [aktiv : BOOLEAN, nummer : Schreibweisen \cup {None}]

VersandTypen ==
  /\ kameraden \in [Kameraden -> Kameradenwerte]
  /\ gruppe \subseteq Kameraden
  /\ verteiler \subseteq [wort : {"alle", "b2"}, wer : Kameraden \cup {"gruppe"}]
  /\ sendung \in [Sendungen -> Saetze]
  /\ zugestellt \in [Sendungen -> [Nummern -> Nat]]
  /\ gemeint \in [Sendungen -> SUBSET Nummern]

Versucht(s) == {n \in Nummern : zugestellt[s][n] > 0}
ZielVon(s) == gemeint[s]

\* How far a message is: what is open has not been tried, open and tried numbers are
\* those it is for, and no more arrived than were tried.
Stand(s) ==
  /\ \A n \in Nummern : zugestellt[s][n] <= 1
  /\ sendung[s].stand = "neu" => Versucht(s) = {}
  /\ sendung[s].stand = "laeuft" =>
       /\ sendung[s].offen \cap Versucht(s) = {}
       /\ sendung[s].offen \cup Versucht(s) = ZielVon(s)
       /\ sendung[s].gesamt = Cardinality(ZielVon(s))
       /\ sendung[s].erfolg <= Cardinality(Versucht(s))
  /\ sendung[s].stand = "fertig" =>
       /\ Versucht(s) = ZielVon(s)
       /\ sendung[s].gesamt = Cardinality(ZielVon(s))
       /\ sendung[s].erfolg <= sendung[s].gesamt
  /\ Versucht(s) \subseteq ZielVon(s)

Fortschritt == \A s \in Sendungen : Stand(s)

\* The log has the row of every finished message and no other.
Protokollzeile(s) ==
  [sendung |-> s, gesamt |-> sendung[s].gesamt, erfolg |-> sendung[s].erfolg]

LogPasst ==
  \A s \in Sendungen :
    {e \in mvLog : e.sendung = s} =
      IF sendung[s].stand = "fertig" THEN {Protokollzeile(s)} ELSE {}

VersandIInv == VersandTypen /\ Fortschritt /\ LogPasst

LEMMA VersandAmAnfang == VersandInit => VersandIInv
<1> SUFFICES ASSUME VersandInit PROVE VersandIInv
  OBVIOUS
<1> USE DEF VersandInit
<1>1. VersandTypen
  <2>1. kameraden \in [Kameraden -> Kameradenwerte]
    BY DEF Kameradenwerte
  <2>2. NichtBegonnen \in Saetze
    BY DEF NichtBegonnen, Saetze
  <2> QED
    BY <2>1, <2>2 DEF VersandTypen
<1>2. Fortschritt
  BY DEF Fortschritt, Stand, Versucht, ZielVon, NichtBegonnen
<1>3. LogPasst
  BY DEF LogPasst, NichtBegonnen
<1> QED
  BY <1>1, <1>2, <1>3 DEF VersandIInv

\* Changes of the lists, and of the numbers, touch no message.
LEMMA ListenHalten ==
  ASSUME VersandIInv, ListenSchritt
  PROVE  VersandIInv'
<1> USE DEF VersandIInv
<1>1. UNCHANGED <<sendung, mvLog, zugestellt, gemeint>>
  BY DEF ListenSchritt, GruppeSetzen, ExcelZeile, VerteilerSpeichern, GruppeLoeschen,
         SchalterSetzen, MitgliedUmschalten, MitgliedBearbeiten
<1>2. kameraden' \in [Kameraden -> Kameradenwerte]
  <2>1. CASE UNCHANGED kameraden
    BY <2>1 DEF VersandTypen
  <2>2. ASSUME NEW m \in Kameraden, NEW r \in Kameradenwerte,
               kameraden' = [kameraden EXCEPT ![m] = r]
        PROVE  kameraden' \in [Kameraden -> Kameradenwerte]
    BY <2>2 DEF VersandTypen
  <2>3. \A m \in Kameraden : kameraden[m] \in Kameradenwerte
    BY DEF VersandTypen
  <2>4. ASSUME NEW m \in Kameraden, NEW x \in Schreibweisen \cup {None}, NEW g \in BOOLEAN,
               ExcelZeile(m, x, g)
        PROVE  kameraden' \in [Kameraden -> Kameradenwerte]
    <3> DEFINE q == [aktiv |-> TRUE, nummer |-> IF x = None THEN kameraden[m].nummer ELSE x]
    <3>1. q \in Kameradenwerte
      BY <2>3 DEF Kameradenwerte
    <3>2. kameraden' = [kameraden EXCEPT ![m] = q]
      BY <2>4 DEF ExcelZeile
    <3> HIDE DEF q
    <3> QED
      BY <2>2, <3>1, <3>2
  <2>5. ASSUME NEW m \in Kameraden, NEW x \in Schreibweisen \cup {None},
               MitgliedBearbeiten(m, x)
        PROVE  kameraden' \in [Kameraden -> Kameradenwerte]
    <3> DEFINE q == [kameraden[m] EXCEPT !.nummer = x]
    <3>1. q \in Kameradenwerte
      BY <2>3 DEF Kameradenwerte
    <3>2. kameraden' = [kameraden EXCEPT ![m] = q]
      BY <2>5 DEF MitgliedBearbeiten
    <3> HIDE DEF q
    <3> QED
      BY <2>2, <3>1, <3>2
  <2>6. ASSUME NEW m \in Kameraden, MitgliedUmschalten(m)
        PROVE  kameraden' \in [Kameraden -> Kameradenwerte]
    <3> DEFINE q == [kameraden[m] EXCEPT !.aktiv = ~kameraden[m].aktiv]
    <3>1. q \in Kameradenwerte
      BY <2>3 DEF Kameradenwerte
    <3>2. kameraden' = [kameraden EXCEPT ![m] = q]
      BY <2>6 DEF MitgliedUmschalten
    <3> HIDE DEF q
    <3> QED
      BY <2>2, <3>1, <3>2
  <2>7. \/ UNCHANGED kameraden
        \/ \E m \in Kameraden, x \in Schreibweisen \cup {None} :
             (\E g \in BOOLEAN : ExcelZeile(m, x, g)) \/ MitgliedBearbeiten(m, x)
        \/ \E m \in Kameraden : MitgliedUmschalten(m)
    BY DEF ListenSchritt, GruppeSetzen, VerteilerSpeichern, GruppeLoeschen, SchalterSetzen
  <2> QED
    BY <2>1, <2>4, <2>5, <2>6, <2>7
<1>3. gruppe' \subseteq Kameraden
  BY DEF ListenSchritt, GruppeSetzen, ExcelZeile, VerteilerSpeichern, GruppeLoeschen,
         SchalterSetzen, MitgliedUmschalten, MitgliedBearbeiten, VersandTypen
<1>4. verteiler' \subseteq [wort : {"alle", "b2"}, wer : Kameraden \cup {"gruppe"}]
  BY DEF ListenSchritt, GruppeSetzen, ExcelZeile, VerteilerSpeichern, GruppeLoeschen,
         SchalterSetzen, MitgliedUmschalten, MitgliedBearbeiten, VersandTypen
<1>5. VersandTypen'
  BY <1>1, <1>2, <1>3, <1>4 DEF VersandTypen
<1>6. \A s \in Sendungen : ZielVon(s)' = ZielVon(s) /\ Versucht(s)' = Versucht(s)
  BY <1>1 DEF ZielVon, Versucht
<1>7. Fortschritt'
  BY <1>1, <1>6 DEF Fortschritt, Stand
<1>8. LogPasst'
  BY <1>1 DEF LogPasst, Protokollzeile
<1> QED
  BY <1>5, <1>7, <1>8

\* Whoever is chosen can be reached.
LEMMA GewaehlteErreichbar ==
  ASSUME VersandTypen
  PROVE  /\ \A wort \in {"b2", "t1"} : Empfaenger(wort) \subseteq {m \in Kameraden : Erreichbar(m)}
         /\ \A M \in SUBSET Kameraden : Handverlesen(M) \subseteq {m \in Kameraden : Erreichbar(m)}
BY DEF VersandTypen, Empfaenger, Handverlesen, Hinter

LEMMA BeginnenHaelt ==
  ASSUME VersandIInv, NEW s \in Sendungen,
         NEW wer \in SUBSET {m \in Kameraden : Erreichbar(m)}, VersandBeginnen(s, wer)
  PROVE  VersandIInv'
<1> DEFINE Z == {NummerVon(m) : m \in wer}
<1> USE DEF VersandIInv
<1>1. Z \subseteq Nummern
  BY DEF Erreichbar, VersandTypen, Kameradenwerte, NummerVon, Nummern
<1>2. IsFiniteSet(Z) /\ Cardinality(Z) \in Nat
  BY <1>1, VersandAssumption, FS_Subset, FS_CardinalityType
<1>3. /\ sendung' = [sendung EXCEPT ![s] = [stand |-> "laeuft", offen |-> Z,
                                            gesamt |-> Cardinality(Z), erfolg |-> 0]]
      /\ gemeint' = [gemeint EXCEPT ![s] = Z]
      /\ UNCHANGED <<mvLog, zugestellt, kameraden, gruppe, verteiler>>
      /\ sendung[s].stand = "neu"
  BY DEF VersandBeginnen, mvListen
<1> HIDE DEF Z
<1>4. VersandTypen'
  BY <1>1, <1>2, <1>3 DEF VersandTypen, Saetze
<1>5. /\ \A t \in Sendungen : Versucht(t)' = Versucht(t)
      /\ \A t \in Sendungen \ {s} : ZielVon(t)' = ZielVon(t)
      /\ ZielVon(s)' = Z /\ Versucht(s) = {}
  <2>1. \A t \in Sendungen : Versucht(t)' = Versucht(t)
    BY <1>3 DEF Versucht
  <2>2. \A t \in Sendungen \ {s} : gemeint'[t] = gemeint[t]
    BY <1>3 DEF VersandTypen
  <2>3. gemeint'[s] = Z
    BY <1>3, <1>1 DEF VersandTypen
  <2>5. \A t \in Sendungen \ {s} : ZielVon(t)' = ZielVon(t)
    BY <2>2 DEF ZielVon
  <2>6. ZielVon(s)' = Z
    BY <2>3 DEF ZielVon
  <2> QED
    BY <1>3, <2>1, <2>5, <2>6 DEF Fortschritt, Stand
<1>6. /\ sendung'[s] = [stand |-> "laeuft", offen |-> Z, gesamt |-> Cardinality(Z), erfolg |-> 0]
      /\ gemeint'[s] = Z
      /\ \A t \in Sendungen \ {s} : sendung'[t] = sendung[t] /\ gemeint'[t] = gemeint[t]
  BY <1>3 DEF VersandTypen
<1>7. Fortschritt'
  <2>1. Cardinality({}) = 0
    BY FS_EmptySet
  <2> QED
    <3>1. ASSUME NEW t \in Sendungen \ {s}
          PROVE  Stand(t)'
      BY <1>3, <1>5, <1>6 DEF Fortschritt, Stand
    <3>2. Stand(s)'
      <4>2. \A n \in Nummern : zugestellt'[s][n] <= 1
        BY <1>3 DEF Fortschritt, Stand
      <4>3. /\ Versucht(s)' = {} /\ ZielVon(s)' = Z
            /\ sendung'[s].stand = "laeuft" /\ sendung'[s].offen = Z
            /\ sendung'[s].gesamt = Cardinality(Z) /\ sendung'[s].erfolg = 0
        BY <1>5, <1>6
      <4> QED
        BY <2>1, <4>2, <4>3 DEF Stand
    <3> QED
      BY <3>1, <3>2 DEF Fortschritt
<1>8. LogPasst'
  BY <1>3, <1>6 DEF LogPasst, Protokollzeile
<1> QED
  BY <1>4, <1>7, <1>8

\* One number: it was open and not tried, now it is tried and not open.
LEMMA EineSmsHaelt ==
  ASSUME VersandIInv, NEW s \in Sendungen, NEW n \in Nummern, NEW ok \in BOOLEAN,
         EineSms(s, n, ok)
  PROVE  VersandIInv'
<1> USE DEF VersandIInv
<1>1. /\ sendung[s] \in Saetze /\ sendung[s].stand = "laeuft" /\ n \in sendung[s].offen
      /\ UNCHANGED <<mvLog, gemeint, kameraden, gruppe, verteiler>>
      /\ zugestellt[s] \in [Nummern -> Nat] /\ zugestellt[s][n] \in Nat
  BY DEF EineSms, mvListen, VersandTypen
<1> DEFINE z == [zugestellt[s] EXCEPT ![n] = zugestellt[s][n] + 1]
<1>z. zugestellt' = [zugestellt EXCEPT ![s] = z] /\ z \in [Nummern -> Nat]
  <2>1. zugestellt' = [zugestellt EXCEPT ![s] = z]
    BY DEF EineSms
  <2> QED
    BY <1>1, <2>1
<1>2. PICK r \in Saetze :
        /\ sendung' = [sendung EXCEPT ![s] = r]
        /\ r.stand = "laeuft" /\ r.offen = sendung[s].offen \ {n}
        /\ r.gesamt = sendung[s].gesamt
        /\ r.erfolg <= sendung[s].erfolg + 1
  <2> DEFINE e == sendung[s].erfolg + IF ok THEN 1 ELSE 0
             r == [sendung[s] EXCEPT !.offen = sendung[s].offen \ {n}, !.erfolg = e]
  <2>1. sendung' = [sendung EXCEPT ![s] = r]
    BY <1>1 DEF EineSms, OffenNach, VersandTypen
  <2>2. /\ sendung[s].erfolg \in Nat /\ sendung[s].gesamt \in Nat
        /\ sendung[s].offen \subseteq Nummern
    BY <1>1 DEF Saetze
  <2>4. e \in Nat /\ e <= sendung[s].erfolg + 1
    BY <2>2
  <2> HIDE DEF e
  <2>3. /\ r \in Saetze /\ r.stand = "laeuft" /\ r.offen = sendung[s].offen \ {n}
        /\ r.gesamt = sendung[s].gesamt /\ r.erfolg <= sendung[s].erfolg + 1
    <3> DEFINE q == [sendung[s] EXCEPT !.offen = sendung[s].offen \ {n}]
    <3>1. /\ q \in Saetze /\ q.stand = "laeuft" /\ q.offen = sendung[s].offen \ {n}
          /\ q.gesamt = sendung[s].gesamt
      BY <1>1, <2>2 DEF Saetze
    <3>2. r = [q EXCEPT !.erfolg = e]
      OBVIOUS
    <3> HIDE DEF r, q
    <3> QED
      BY <2>4, <3>1, <3>2 DEF Saetze
  <2> HIDE DEF r
  <2> QED
    BY <2>1, <2>3
<1> HIDE DEF z
<1>3. /\ sendung'[s] = r
      /\ \A t \in Sendungen \ {s} : sendung'[t] = sendung[t] /\ zugestellt'[t] = zugestellt[t]
      /\ zugestellt'[s] = z
  BY <1>2, <1>z DEF VersandTypen
<1>4. VersandTypen'
  BY <1>1, <1>2, <1>z DEF VersandTypen
<1>5. n \notin Versucht(s) /\ zugestellt[s][n] = 0
  <2>1. n \in ZielVon(s) /\ n \notin Versucht(s)
    BY <1>1 DEF Fortschritt, Stand
  <2> QED
    BY <1>1, <2>1 DEF Versucht
<1>6. /\ Versucht(s)' = Versucht(s) \cup {n}
      /\ \A t \in Sendungen \ {s} : Versucht(t)' = Versucht(t)
      /\ \A t \in Sendungen : ZielVon(t)' = ZielVon(t)
  <2>1. \A k \in Nummern : z[k] = IF k = n THEN 1 ELSE zugestellt[s][k]
    BY <1>1, <1>5 DEF z
  <2>2. Versucht(s)' = Versucht(s) \cup {n}
    BY <1>3, <2>1 DEF Versucht
  <2>3. \A t \in Sendungen \ {s} : Versucht(t)' = Versucht(t)
    BY <1>3 DEF Versucht
  <2>4. \A t \in Sendungen : ZielVon(t)' = ZielVon(t)
    BY <1>1 DEF ZielVon
  <2> QED
    BY <2>2, <2>3, <2>4
<1>7. Cardinality(Versucht(s)') = Cardinality(Versucht(s)) + 1 /\ Cardinality(Versucht(s)) \in Nat
  <2>1. IsFiniteSet(Versucht(s))
    BY VersandAssumption, FS_Subset DEF Versucht
  <2> QED
    BY <1>5, <1>6, <2>1, FS_AddElement, FS_CardinalityType
<1>8. Fortschritt'
  <2>1. ASSUME NEW t \in Sendungen \ {s}
        PROVE  Stand(t)'
    BY <1>1, <1>3, <1>6 DEF Fortschritt, Stand
  <2>2. \A k \in Nummern : zugestellt'[s][k] <= 1
    BY <1>1, <1>3, <1>5 DEF Fortschritt, Stand, z
  <2>3. r.erfolg <= Cardinality(Versucht(s)')
    BY <1>1, <1>2, <1>7 DEF Fortschritt, Stand, Saetze
  <2>4. /\ sendung[s].offen \cap Versucht(s) = {}
        /\ sendung[s].offen \cup Versucht(s) = ZielVon(s)
        /\ sendung[s].gesamt = Cardinality(ZielVon(s))
    BY <1>1 DEF Fortschritt, Stand
  <2>5. Stand(s)'
    BY <1>1, <1>2, <1>3, <1>5, <1>6, <2>2, <2>3, <2>4 DEF Stand
  <2> QED
    BY <2>1, <2>5 DEF Fortschritt
<1>9. LogPasst'
  BY <1>1, <1>2, <1>3 DEF LogPasst, Protokollzeile
<1> QED
  BY <1>4, <1>8, <1>9

\* The end of a message changes its state and, if it was sent to all, the log.
LEMMA EndeHaelt ==
  ASSUME VersandIInv, NEW s \in Sendungen, Protokollieren(s) \/ VersandAbbruch(s)
  PROVE  VersandIInv'
<1> USE DEF VersandIInv
<1>1. /\ sendung[s] \in Saetze /\ sendung[s].stand = "laeuft"
      /\ UNCHANGED <<zugestellt, gemeint, kameraden, gruppe, verteiler>>
  BY DEF Protokollieren, VersandAbbruch, mvListen, VersandTypen
<1>2. PICK x \in {"fertig", "abgebrochen"} :
        /\ sendung' = [sendung EXCEPT ![s] = [@ EXCEPT !.stand = x]]
        /\ x = "fertig" => sendung[s].offen = {} /\ mvLog' = mvLog \cup {Protokollzeile(s)}
        /\ x = "abgebrochen" => mvLog' = mvLog
  BY DEF Protokollieren, VersandAbbruch, Protokollzeile
<1>3. /\ sendung'[s] = [sendung[s] EXCEPT !.stand = x]
      /\ sendung'[s] \in Saetze
      /\ \A t \in Sendungen \ {s} : sendung'[t] = sendung[t]
  BY <1>1, <1>2 DEF VersandTypen, Saetze
<1>4. /\ sendung'[s].stand = x /\ sendung'[s].gesamt = sendung[s].gesamt
      /\ sendung'[s].erfolg = sendung[s].erfolg /\ sendung'[s].offen = sendung[s].offen
  BY <1>1, <1>3 DEF Saetze
<1>5. VersandTypen'
  BY <1>1, <1>2, <1>3 DEF VersandTypen
<1>6. \A t \in Sendungen : ZielVon(t)' = ZielVon(t) /\ Versucht(t)' = Versucht(t)
  BY <1>1 DEF ZielVon, Versucht
<1>7. Fortschritt'
  <2>1. ASSUME NEW t \in Sendungen \ {s}
        PROVE  Stand(t)'
    BY <1>1, <1>3, <1>6 DEF Fortschritt, Stand
  <2>2. Stand(s)'
    <3>1. Stand(s)
      BY DEF Fortschritt
    <3>2. CASE x = "abgebrochen"
      BY <1>1, <1>4, <1>6, <3>1, <3>2 DEF Stand
    <3>3. CASE x = "fertig"
      <4>1. sendung[s].offen = {}
        BY <1>2, <3>3
      <4>2. /\ Versucht(s) = ZielVon(s) /\ sendung[s].gesamt = Cardinality(ZielVon(s))
            /\ sendung[s].erfolg <= sendung[s].gesamt
        BY <1>1, <3>1, <4>1 DEF Stand
      <4> QED
        BY <1>1, <1>4, <1>6, <3>1, <3>3, <4>2 DEF Stand
    <3> QED
      BY <3>2, <3>3
  <2> QED
    BY <2>1, <2>2 DEF Fortschritt
<1>8. LogPasst'
  <2>0. LogPasst
    OBVIOUS
  <2>1. \A t \in Sendungen : Protokollzeile(t)' = Protokollzeile(t)
    BY <1>3, <1>4 DEF Protokollzeile
  <2>6. \A e \in mvLog' : e \in mvLog \/ (x = "fertig" /\ e = Protokollzeile(s))
    BY <1>2
  <2>7. mvLog \subseteq mvLog'
    BY <1>2
  <2>2. Protokollzeile(s).sendung = s
    BY DEF Protokollzeile
  <2>3. {e \in mvLog : e.sendung = s} = {}
    BY <1>1 DEF LogPasst
  <2> HIDE DEF VersandIInv
  <2>4. ASSUME NEW t \in Sendungen, t # s
        PROVE  {e \in mvLog' : e.sendung = t} = {e \in mvLog : e.sendung = t}
    BY <2>2, <2>4, <2>6, <2>7
  <2>5. {e \in mvLog' : e.sendung = s} = IF x = "fertig" THEN {Protokollzeile(s)} ELSE {}
    <3>1. CASE x = "fertig"
      BY <1>2, <2>2, <2>3, <3>1
    <3>2. CASE x = "abgebrochen"
      BY <1>2, <2>3, <3>2
    <3> QED
      BY <3>1, <3>2
  <2>8. ASSUME NEW t \in Sendungen
        PROVE  {e \in mvLog' : e.sendung = t} =
                 IF sendung'[t].stand = "fertig" THEN {Protokollzeile(t)'} ELSE {}
    <3>1. CASE t = s
      BY <1>4, <2>1, <2>5, <3>1
    <3>2. CASE t # s
      BY <1>3, <2>0, <2>1, <2>4, <3>2 DEF LogPasst
    <3> QED
      BY <3>1, <3>2
  <2> QED
    BY <2>8 DEF LogPasst
<1> QED
  BY <1>5, <1>7, <1>8 DEF VersandIInv

LEMMA VersandSchritt == VersandIInv /\ [VersandNext]_versandVars => VersandIInv'
<1> SUFFICES ASSUME VersandIInv, [VersandNext]_versandVars
             PROVE  VersandIInv'
  OBVIOUS
<1>1. CASE UNCHANGED versandVars
  <2>1. /\ UNCHANGED <<kameraden, gruppe, verteiler, sendung, mvLog, zugestellt, gemeint>>
        /\ \A s : ZielVon(s)' = ZielVon(s) /\ Versucht(s)' = Versucht(s)
    BY <1>1 DEF versandVars, ZielVon, Versucht
  <2>2. VersandTypen'
    BY <2>1 DEF VersandIInv, VersandTypen
  <2>3. Fortschritt'
    BY <2>1 DEF VersandIInv, Fortschritt, Stand
  <2>4. LogPasst'
    BY <2>1 DEF VersandIInv, LogPasst, Protokollzeile
  <2> QED
    BY <2>2, <2>3, <2>4 DEF VersandIInv
<1>2. ASSUME NEW s \in Sendungen, NEW wort \in {"b2", "t1"}, NEW u \in BOOLEAN,
             EinsatzinfoBeginnen(s, wort, u)
      PROVE  VersandIInv'
  BY <1>2, GewaehlteErreichbar, BeginnenHaelt DEF EinsatzinfoBeginnen, VersandIInv
<1>3. ASSUME NEW s \in Sendungen, NEW M \in SUBSET Kameraden, ManuellBeginnen(s, M)
      PROVE  VersandIInv'
  BY <1>3, GewaehlteErreichbar, BeginnenHaelt DEF ManuellBeginnen, VersandIInv
<1> QED
  BY <1>1, <1>2, <1>3, ListenHalten, EineSmsHaelt, EndeHaelt DEF VersandNext

LEMMA VersandFolgt == VersandIInv => VersandVersprechen
<1> SUFFICES ASSUME VersandIInv PROVE VersandVersprechen
  OBVIOUS
<1> USE DEF VersandIInv
<1>1. VersandTypeOK
  BY DEF VersandTypen, VersandTypeOK, Saetze
<1>2. EinmalJeNummer
  BY DEF EinmalJeNummer, Fortschritt, Stand
<1>3. AlleGemeintenVersucht
  BY DEF AlleGemeintenVersucht, Fortschritt, Stand, Versucht, ZielVon, VersandTypen
<1>4. ProtokollStimmt
  <2>1. SUFFICES ASSUME NEW s \in Sendungen
        PROVE  IF sendung[s].stand = "fertig"
               THEN /\ Cardinality({e \in mvLog : e.sendung = s}) = 1
                    /\ \A e \in {f \in mvLog : f.sendung = s} :
                         /\ e.gesamt = Cardinality(Versucht(s))
                         /\ e.erfolg <= e.gesamt
               ELSE {e \in mvLog : e.sendung = s} = {}
    BY DEF ProtokollStimmt, Versucht
  <2>2. CASE sendung[s].stand = "fertig"
    <3>1. {e \in mvLog : e.sendung = s} = {Protokollzeile(s)}
      BY <2>2 DEF LogPasst
    <3>2. /\ Protokollzeile(s).gesamt = Cardinality(Versucht(s))
          /\ Protokollzeile(s).erfolg <= Protokollzeile(s).gesamt
      BY <2>2 DEF Protokollzeile, Fortschritt, Stand
    <3> QED
      BY <2>2, <3>1, <3>2, FS_Singleton
  <2> QED
    BY <2>2 DEF LogPasst
<1> QED
  BY <1>1, <1>2, <1>3, <1>4 DEF VersandVersprechen

\* sms_dispatch_service.py, send_bulk: however the lists change, whatever fails and
\* wherever a worker ends, each number behind the members meant gets the message once at
\* most, nobody else does, and the log counts what was sent.
THEOREM VersandHaelt == VersandSpec => []VersandVersprechen
BY VersandAmAnfang, VersandSchritt, VersandFolgt, PTL DEF VersandSpec

-----------------------------------------------------------------------------
(* The SMS gateways *)

SmsTypen ==
  /\ smsLeitung \in [Verbindungen -> {"neu", "offen", "tot", "zu"}]
  /\ smsRegistry \in Seq(Verbindungen)
  /\ smsAuftrag \in [SmsAuftraege -> {"neu", "sendet", "wartet", "ok", "fehler"}]
  /\ rest \in [SmsAuftraege -> Seq(Verbindungen)]
  /\ antwort \in [SmsAuftraege -> {"keine", "ok", "fehler"}]
  /\ smsErhalten \in [SmsAuftraege -> SUBSET Verbindungen]
  /\ unterwegs \subseteq SmsAuftraege \X {"ok", "fehler"}

\* The registry by position: connected gateways, no two places alike.
RegistryPlaetze ==
  /\ \A i \in 1..Len(smsRegistry) : smsLeitung[smsRegistry[i]] \in {"offen", "tot"}
  /\ \A i, k \in 1..Len(smsRegistry) : smsRegistry[i] = smsRegistry[k] => i = k

\* A job that is under way has a line, one that is not has reached nobody.
AuftragHatLeitung ==
  \A j \in SmsAuftraege :
    /\ smsAuftrag[j] \in {"sendet", "wartet"} => rest[j] # <<>>
    /\ smsAuftrag[j] = "neu" => smsErhalten[j] = {} /\ antwort[j] = "keine"
    /\ \A c \in smsErhalten[j] : smsLeitung[c] # "neu"

SmsIInv ==
  /\ SmsTypen /\ RegistryPlaetze /\ AuftragHatLeitung
  /\ FutureWirdGebraucht /\ ZweiterNurNachBruch

\* list.remove on a list without repetitions takes out the one and nothing else.
LEMMA OhneEinen ==
  ASSUME NEW S, NEW r \in Seq(S), NEW c,
         \A i, k \in 1..Len(r) : r[i] = r[k] => i = k
  PROVE  /\ Ohne(r, c) \in Seq(S)
         /\ \A i \in 1..Len(Ohne(r, c)) :
              /\ Ohne(r, c)[i] # c
              /\ \E k \in 1..Len(r) : Ohne(r, c)[i] = r[k]
         /\ \A i, k \in 1..Len(Ohne(r, c)) : Ohne(r, c)[i] = Ohne(r, c)[k] => i = k
<1>1. CASE \A i \in 1..Len(r) : r[i] # c
  BY <1>1 DEF Ohne, RemoveFirst
<1>2. CASE \E i \in 1..Len(r) : r[i] = c
  <2>1. PICK n \in 1..Len(r) : r[n] = c
    BY <1>2
  <2> DEFINE I == {i \in 1..Len(r) : r[i] = c}
             v == SubSeq(r, 1, n - 1)
             h == SubSeq(r, n + 1, Len(r))
  <2>2. /\ Len(r) \in Nat /\ n \in Nat /\ n >= 1 /\ n <= Len(r)
        /\ \A i \in 1..Len(r) : r[i] \in S
    BY LenProperties, ElementOfSeq
  <2>3. I = {n}
    BY <2>1
  <2>4. Min(I) = n
    BY <2>2, <2>3 DEF Min
  <2>5. Ohne(r, c) = v \o h
    BY <1>2, <2>3, <2>4 DEF Ohne, RemoveFirst, RemoveAt, SelectInSeq
  <2>6. /\ v \in Seq(S) /\ Len(v) = n - 1
        /\ \A i \in 1..n - 1 : v[i] = r[i]
    BY <2>2, SubSeqProperties
  <2>7. /\ h \in Seq(S) /\ Len(h) = Len(r) - n
        /\ \A i \in 1..Len(r) - n : h[i] = r[n + i]
    BY <2>2, SubSeqProperties
  <2> HIDE DEF v, h, I
  <2>8. /\ Ohne(r, c) \in Seq(S) /\ Len(Ohne(r, c)) = Len(r) - 1
        /\ \A i \in 1..Len(r) - 1 :
             Ohne(r, c)[i] = r[IF i <= n - 1 THEN i ELSE i + 1]
    <3>1. /\ Ohne(r, c) \in Seq(S) /\ Len(Ohne(r, c)) = Len(v) + Len(h)
          /\ \A i \in 1..Len(v) + Len(h) :
               Ohne(r, c)[i] = IF i <= Len(v) THEN v[i] ELSE h[i - Len(v)]
      <4>1. /\ v \o h \in Seq(S) /\ Len(v \o h) = Len(v) + Len(h)
            /\ \A i \in 1..Len(v) + Len(h) :
                 (v \o h)[i] = IF i <= Len(v) THEN v[i] ELSE h[i - Len(v)]
        <5> SUFFICES ASSUME NEW a \in Seq(S), NEW b \in Seq(S)
                     PROVE  /\ a \o b \in Seq(S) /\ Len(a \o b) = Len(a) + Len(b)
                            /\ \A i \in 1..Len(a) + Len(b) :
                                 (a \o b)[i] = IF i <= Len(a) THEN a[i] ELSE b[i - Len(a)]
          BY <2>6, <2>7
        <5> QED
          BY ConcatProperties
      <4> QED
        BY <2>5, <4>1
    <3>2. Len(v) + Len(h) = Len(r) - 1
      BY <2>2, <2>6, <2>7
    <3>3. ASSUME NEW i \in 1..Len(r) - 1, i <= n - 1
          PROVE  Ohne(r, c)[i] = r[i]
      <4>1. i \in 1..n - 1 /\ i \in 1..Len(v) + Len(h) /\ i <= Len(v)
        BY <2>2, <2>6, <3>2, <3>3
      <4> QED
        BY <2>6, <3>1, <4>1
    <3>4. ASSUME NEW i \in 1..Len(r) - 1, ~(i <= n - 1)
          PROVE  Ohne(r, c)[i] = r[i + 1]
      <4>1. i - (n - 1) \in 1..Len(r) - n /\ n + (i - (n - 1)) = i + 1
        BY <2>2, <3>4
      <4> QED
        BY <2>6, <2>7, <3>1, <3>2, <3>4, <4>1
    <3> QED
      BY <3>1, <3>2, <3>3, <3>4
  <2>9. \A i \in 1..Len(r) - 1 :
          /\ (IF i <= n - 1 THEN i ELSE i + 1) \in 1..Len(r)
          /\ (IF i <= n - 1 THEN i ELSE i + 1) # n
    BY <2>2
  <2>10. \A i \in 1..Len(r) - 1 : Ohne(r, c)[i] # c
    BY <2>1, <2>8, <2>9
  <2>11. \A i, k \in 1..Len(r) - 1 : Ohne(r, c)[i] = Ohne(r, c)[k] => i = k
    BY <2>2, <2>8, <2>9
  <2> QED
    BY <2>8, <2>9, <2>10, <2>11
<1> QED
  BY <1>1, <1>2

\* Without its last element a list keeps the others.
LEMMA OhneLetztes ==
  ASSUME NEW S, NEW r \in Seq(S), r # <<>>
  PROVE  Front(r) \in Seq(S) /\ Last(r) \in S
<1>1. Len(r) \in Nat /\ Len(r) >= 1 /\ \A i \in 1..Len(r) : r[i] \in S
  BY LenProperties, ElementOfSeq, EmptySeq
<1> QED
  BY <1>1, SubSeqProperties DEF Front, Last

LEMMA SmsAmAnfang == SmsInit => SmsIInv
BY EmptySeq DEF SmsInit, SmsIInv, SmsTypen, RegistryPlaetze, AuftragHatLeitung,
                FutureWirdGebraucht, ZweiterNurNachBruch

LEMMA VerbindenHaelt ==
  ASSUME SmsIInv, NEW c \in Verbindungen, Verbinden(c)
  PROVE  SmsIInv'
<1> USE DEF SmsIInv, Verbinden
<1>1. /\ smsRegistry \in Seq(Verbindungen) /\ Len(smsRegistry) \in Nat
      /\ smsRegistry' \in Seq(Verbindungen) /\ Len(smsRegistry') = Len(smsRegistry) + 1
      /\ \A i \in 1..Len(smsRegistry) : smsRegistry'[i] = smsRegistry[i]
      /\ smsRegistry'[Len(smsRegistry) + 1] = c
  BY AppendProperties, LenProperties DEF SmsTypen
<1>2. SmsTypen'
  BY <1>1 DEF SmsTypen
<1>3. \A i \in 1..Len(smsRegistry) :
        smsRegistry[i] # c /\ smsLeitung'[smsRegistry[i]] = smsLeitung[smsRegistry[i]]
  BY <1>1 DEF SmsTypen, RegistryPlaetze
<1>4. RegistryPlaetze'
  <2>1. smsLeitung'[c] = "offen"
    BY DEF SmsTypen
  <2>2. \A i \in 1..Len(smsRegistry) + 1 : i \in 1..Len(smsRegistry) \/ i = Len(smsRegistry) + 1
    BY <1>1
  <2> QED
    BY <1>1, <1>3, <2>1, <2>2 DEF RegistryPlaetze
<1>5. AuftragHatLeitung'
  BY DEF SmsTypen, AuftragHatLeitung
<1>6. FutureWirdGebraucht'
  BY DEF FutureWirdGebraucht
<1>7. ZweiterNurNachBruch'
  BY DEF SmsTypen, AuftragHatLeitung, ZweiterNurNachBruch, AktuelleLeitung
<1> QED
  BY <1>2, <1>4, <1>5, <1>6, <1>7

\* A line ends or breaks: the registry loses at most the line that ended.
LEMMA LeitungenHalten ==
  ASSUME SmsIInv, NEW c \in Verbindungen, Trennen(c) \/ SmsLeitungBricht(c)
  PROVE  SmsIInv'
<1> USE DEF SmsIInv
<1>1. /\ smsRegistry \in Seq(Verbindungen)
      /\ \A i, k \in 1..Len(smsRegistry) : smsRegistry[i] = smsRegistry[k] => i = k
  BY DEF SmsTypen, RegistryPlaetze
<1>2. /\ UNCHANGED <<smsAuftrag, rest, pending, antwort, smsErhalten, unterwegs>>
      /\ smsLeitung' \in [Verbindungen -> {"neu", "offen", "tot", "zu"}]
      /\ smsLeitung[c] # "neu" /\ smsLeitung'[c] \in {"tot", "zu"}
      /\ \A d \in Verbindungen \ {c} : smsLeitung'[d] = smsLeitung[d]
  BY DEF SmsTypen, Trennen, SmsLeitungBricht
<1>3. smsRegistry' \in Seq(Verbindungen) /\ RegistryPlaetze'
  <2>1. CASE Trennen(c)
    <3>1. smsRegistry' = Ohne(smsRegistry, c)
      BY <2>1 DEF Trennen
    <3>2. /\ smsRegistry' \in Seq(Verbindungen)
          /\ \A i \in 1..Len(smsRegistry') :
               /\ smsRegistry'[i] # c
               /\ \E k \in 1..Len(smsRegistry) : smsRegistry'[i] = smsRegistry[k]
          /\ \A i, k \in 1..Len(smsRegistry') : smsRegistry'[i] = smsRegistry'[k] => i = k
      BY <1>1, <3>1, OhneEinen
    <3>3. ASSUME NEW i \in 1..Len(smsRegistry')
          PROVE  smsLeitung'[smsRegistry'[i]] \in {"offen", "tot"}
      <4>1. PICK k \in 1..Len(smsRegistry) : smsRegistry'[i] = smsRegistry[k]
        BY <3>2
      <4>2. smsRegistry[k] \in Verbindungen \ {c}
        BY <1>1, <3>2, <4>1, ElementOfSeq
      <4> QED
        BY <1>2, <4>1, <4>2 DEF RegistryPlaetze
    <3> QED
      BY <3>2, <3>3 DEF RegistryPlaetze
  <2>2. CASE SmsLeitungBricht(c)
    <3>1. smsRegistry' = smsRegistry /\ smsLeitung' = [smsLeitung EXCEPT ![c] = "tot"]
      BY <2>2 DEF SmsLeitungBricht
    <3> QED
      BY <1>1, <3>1, ElementOfSeq DEF RegistryPlaetze, SmsTypen
  <2> QED
    BY <2>1, <2>2
<1>4. SmsTypen'
  BY <1>2, <1>3 DEF SmsTypen
<1>5. AuftragHatLeitung'
  BY <1>2 DEF SmsTypen, AuftragHatLeitung
<1>6. FutureWirdGebraucht'
  BY <1>2 DEF FutureWirdGebraucht
<1>7. ZweiterNurNachBruch'
  BY <1>2 DEF SmsTypen, ZweiterNurNachBruch, AktuelleLeitung
<1> QED
  BY <1>3, <1>4, <1>5, <1>6, <1>7

\* Answers are on their way, arrive once or are lost.
LEMMA AntwortenHalten ==
  ASSUME SmsIInv, NEW j \in SmsAuftraege, NEW ergebnis \in {"ok", "fehler"},
         \/ GatewayAntwortet(j, ergebnis) \/ AntwortVerloren(j, ergebnis)
         \/ AntwortEmpfangen(j, ergebnis)
  PROVE  SmsIInv'
<1> USE DEF SmsIInv
<1>1. /\ UNCHANGED <<smsLeitung, smsRegistry, smsAuftrag, rest, smsErhalten>>
      /\ unterwegs' \subseteq SmsAuftraege \X {"ok", "fehler"}
  BY DEF SmsTypen, GatewayAntwortet, AntwortVerloren, AntwortEmpfangen
<1>2. RegistryPlaetze' /\ ZweiterNurNachBruch'
  BY <1>1 DEF RegistryPlaetze, ZweiterNurNachBruch, AktuelleLeitung
<1>3. CASE UNCHANGED <<pending, antwort>>
  BY <1>1, <1>2, <1>3 DEF SmsTypen, AuftragHatLeitung, FutureWirdGebraucht
<1>4. CASE AntwortEmpfangen(j, ergebnis)
  BY <1>1, <1>2, <1>4
     DEF SmsTypen, AuftragHatLeitung, FutureWirdGebraucht, AntwortEmpfangen
<1> QED
  BY <1>3, <1>4 DEF GatewayAntwortet, AntwortVerloren

LEMMA DispatchHaelt ==
  ASSUME SmsIInv, NEW j \in SmsAuftraege, DispatchBeginnen(j)
  PROVE  SmsIInv'
<1> USE DEF SmsIInv, DispatchBeginnen
<1>1. smsRegistry # <<>> => Last(smsRegistry) \in Verbindungen
  BY OhneLetztes DEF SmsTypen
<1>2. SmsTypen'
  <2>1. /\ smsAuftrag' \in [SmsAuftraege -> {"neu", "sendet", "wartet", "ok", "fehler"}]
        /\ rest' \in [SmsAuftraege -> Seq(Verbindungen)]
    BY DEF SmsTypen
  <2>2. smsErhalten' \in [SmsAuftraege -> SUBSET Verbindungen]
    BY <1>1 DEF SmsTypen
  <2> QED
    BY <2>1, <2>2 DEF SmsTypen
<1>3. RegistryPlaetze'
  BY DEF RegistryPlaetze
<1>4. AuftragHatLeitung'
  BY <1>1 DEF SmsTypen, AuftragHatLeitung
<1>5. FutureWirdGebraucht'
  BY DEF SmsTypen, AuftragHatLeitung, FutureWirdGebraucht
<1>6. ZweiterNurNachBruch'
  BY <1>1 DEF SmsTypen, AuftragHatLeitung, ZweiterNurNachBruch, AktuelleLeitung
<1> QED
  BY <1>2, <1>3, <1>4, <1>5, <1>6

\* A job sends, waits and ends on the line it has.
LEMMA WartenHaelt ==
  ASSUME SmsIInv, NEW j \in SmsAuftraege,
         SendenGelungen(j) \/ Ergebnis(j) \/ Zeitablauf(j)
  PROVE  SmsIInv'
<1> USE DEF SmsIInv, SendenGelungen, Ergebnis, Zeitablauf
<1>1. UNCHANGED <<smsLeitung, smsRegistry, rest, antwort, smsErhalten, unterwegs>>
  OBVIOUS
<1>2. RegistryPlaetze'
  BY <1>1 DEF RegistryPlaetze
<1>3. SmsTypen' /\ FutureWirdGebraucht'
  BY <1>1 DEF SmsTypen, FutureWirdGebraucht
<1>4. AuftragHatLeitung'
  BY <1>1 DEF SmsTypen, AuftragHatLeitung
<1>5. ZweiterNurNachBruch'
  BY <1>1 DEF SmsTypen, ZweiterNurNachBruch, AktuelleLeitung
<1> QED
  BY <1>2, <1>3, <1>4, <1>5

\* The line a job failed on is not open, so whoever received the job on an open line
\* is the next one.
LEMMA ScheiternHaelt ==
  ASSUME SmsIInv, NEW j \in SmsAuftraege, SendenGescheitert(j)
  PROVE  SmsIInv'
<1> USE DEF SmsIInv
<1> DEFINE l == AktuelleLeitung(j)
<1>1. /\ smsRegistry \in Seq(Verbindungen)
      /\ \A i, k \in 1..Len(smsRegistry) : smsRegistry[i] = smsRegistry[k] => i = k
      /\ rest[j] \in Seq(Verbindungen) /\ rest[j] # <<>>
  BY DEF SmsTypen, RegistryPlaetze, AuftragHatLeitung, SendenGescheitert
<1>2. /\ smsRegistry' \in Seq(Verbindungen)
      /\ \A i \in 1..Len(smsRegistry') :
           \E k \in 1..Len(smsRegistry) : smsRegistry'[i] = smsRegistry[k]
      /\ \A i, k \in 1..Len(smsRegistry') : smsRegistry'[i] = smsRegistry'[k] => i = k
  <2>1. smsRegistry' = Ohne(smsRegistry, l)
    BY DEF SendenGescheitert
  <2> HIDE DEF l, SmsIInv
  <2> QED
    BY <1>1, <2>1, OhneEinen
<1>3. l \in Verbindungen /\ Front(rest[j]) \in Seq(Verbindungen)
  BY <1>1, OhneLetztes DEF AktuelleLeitung
<1>4. /\ smsAuftrag[j] = "sendet" /\ smsLeitung[l] \in {"tot", "zu"}
      /\ UNCHANGED <<smsLeitung, unterwegs>>
      /\ rest' = [rest EXCEPT ![j] = Front(rest[j])]
      /\ antwort' = [antwort EXCEPT ![j] = "keine"]
  BY DEF SendenGescheitert
<1>5. /\ rest' \in [SmsAuftraege -> Seq(Verbindungen)] /\ rest'[j] = Front(rest[j])
      /\ \A i \in SmsAuftraege \ {j} : rest'[i] = rest[i]
  BY <1>3, <1>4 DEF SmsTypen
<1>6. \A c \in smsErhalten[j] : smsLeitung[c] # "offen"
  BY <1>4 DEF ZweiterNurNachBruch
<1>7. \/ /\ rest'[j] = <<>> /\ smsAuftrag' = [smsAuftrag EXCEPT ![j] = "fehler"]
         /\ pending' = pending \ {j} /\ smsErhalten' = smsErhalten
      \/ /\ rest'[j] # <<>> /\ smsAuftrag' = smsAuftrag /\ pending' = pending \cup {j}
         /\ smsErhalten' = [smsErhalten EXCEPT ![j] =
              @ \cup {c \in {Last(rest'[j])} : smsLeitung[c] = "offen"}]
  BY DEF SendenGescheitert
<1>8. rest'[j] # <<>> => Last(rest'[j]) \in Verbindungen
  BY <1>3, <1>5, OhneLetztes
<1>9. SmsTypen'
  <2>1. /\ smsAuftrag' \in [SmsAuftraege -> {"neu", "sendet", "wartet", "ok", "fehler"}]
        /\ antwort' \in [SmsAuftraege -> {"keine", "ok", "fehler"}]
    BY <1>4, <1>7 DEF SmsTypen
  <2>2. smsErhalten' \in [SmsAuftraege -> SUBSET Verbindungen]
    <3>1. CASE smsErhalten' = smsErhalten
      BY <3>1 DEF SmsTypen
    <3>2. CASE smsErhalten' # smsErhalten
      <4> DEFINE N == {c \in {Last(rest'[j])} : smsLeitung[c] = "offen"}
      <4>1. smsErhalten' = [smsErhalten EXCEPT ![j] = @ \cup N] /\ N \subseteq Verbindungen
        BY <1>7, <1>8, <3>2
      <4> HIDE DEF N
      <4> QED
        BY <4>1 DEF SmsTypen
    <3> QED
      BY <3>1, <3>2
  <2> QED
    BY <1>2, <1>4, <1>5, <2>1, <2>2 DEF SmsTypen
<1>10. RegistryPlaetze'
  BY <1>2, <1>4 DEF RegistryPlaetze
<1>11. AuftragHatLeitung'
  BY <1>4, <1>5, <1>7, <1>8 DEF SmsTypen, AuftragHatLeitung
<1>12. FutureWirdGebraucht'
  BY <1>4, <1>7 DEF SmsTypen, FutureWirdGebraucht
<1>13. ZweiterNurNachBruch'
  BY <1>4, <1>5, <1>6, <1>7 DEF SmsTypen, ZweiterNurNachBruch, AktuelleLeitung
<1> QED
  BY <1>9, <1>10, <1>11, <1>12, <1>13

LEMMA SmsSchritt == SmsIInv /\ [SmsNext]_smsVars => SmsIInv'
<1> SUFFICES ASSUME SmsIInv, [SmsNext]_smsVars
             PROVE  SmsIInv'
  OBVIOUS
<1>1. CASE SmsNext
  BY <1>1, VerbindenHaelt, LeitungenHalten, AntwortenHalten, DispatchHaelt, WartenHaelt,
     ScheiternHaelt DEF SmsNext, Fortgang
<1>2. CASE UNCHANGED smsVars
  BY <1>2 DEF smsVars, SmsIInv, SmsTypen, RegistryPlaetze, AuftragHatLeitung,
              FutureWirdGebraucht, ZweiterNurNachBruch, AktuelleLeitung
<1> QED
  BY <1>1, <1>2

\* The registry of gateways and dispatch_sms, for any number of connections and jobs: the
\* registry holds no closed connection, a future is in the table exactly while its job
\* can use an answer, and a second gateway gets a job only after the line to the first
\* one broke or was closed.
THEOREM GatewayHaelt == SmsSpec => []GatewayVersprechen
<1>1. SmsIInv => GatewayVersprechen
  <2> SUFFICES ASSUME SmsIInv PROVE GatewayVersprechen
    OBVIOUS
  <2>1. /\ smsRegistry \in Seq(Verbindungen) /\ DOMAIN smsRegistry = 1..Len(smsRegistry)
        /\ \A i \in 1..Len(smsRegistry) : smsRegistry[i] \in Verbindungen
    BY LenProperties, ElementOfSeq DEF SmsIInv, SmsTypen
  <2>2. \A j \in SmsAuftraege : ToSet(rest[j]) \subseteq Verbindungen
    BY LenProperties, ElementOfSeq DEF SmsIInv, SmsTypen, ToSet
  <2>3. SmsTypeOK
    BY <2>1, <2>2 DEF SmsIInv, SmsTypen, AuftragHatLeitung, SmsTypeOK, ToSet
  <2>4. RegistryOhneGetrennte
    BY <2>1 DEF SmsIInv, RegistryPlaetze, RegistryOhneGetrennte, ToSet, IsInjective
  <2> QED
    BY <2>3, <2>4 DEF SmsIInv, GatewayVersprechen
<1> QED
  BY SmsAmAnfang, SmsSchritt, <1>1, PTL DEF SmsSpec

-----------------------------------------------------------------------------
(* Weather alerts *)

WetterTypen ==
  /\ wxUmfang \in WetterUmfaenge /\ abgestuerzt \in Nat
  /\ runde \in [Workers -> Runden \cup {None}]
  /\ bild = [w \in Workers |-> bild[w]]
  /\ \A w \in Workers : bild[w] = None \/ bild[w] \in Antworten
  /\ \A w \in Workers : runde[w] # None => w \in wxUmfang.worker

\* With one worker the state a round has read is the state there is, and what it will
\* send is the level that has been entered.
RundeKenntZustand ==
  \A w \in Workers : runde[w] # None =>
    /\ runde[w].phase = "wetter" => runde[w].zustand = zustand
    /\ runde[w].phase = "senden" =>
         zustand # None /\ runde[w].ergebnis.stufe = zustand.stufe

\* The count of the hysteresis is the count of the rounds.
HystereseZaehlt ==
  /\ seitAkut < HystereseZyklen => zustand # None /\ zustand.stufe = "akut"
  /\ seitAkut = 0 => zustand.zyklen = 0

\* A level of the station's rule has been sent, or is about to be.
GemeldetOderUnterwegs ==
  (wxUmfang.regel = "sturm" /\ abgestuerzt = 0) =>
    \/ zustand = None \/ zustand.stufe \in {"none", protokoll}
    \/ \E w \in Workers : runde[w] # None /\ runde[w].phase = "senden"

\* The one warning that is out is sent no more once its hash is in the row, unless the
\* round that wrote it has not sent it yet.
HashSperrt ==
  \A h \in Warnungen : (wxUmfang.regel = "amtlich" /\ wxUmfang.warnungen = {h}) =>
    /\ \A g \in Warnungen \ {h} : weitergeleitet[g] = 0
    /\ weitergeleitet[h] <= 1
    /\ zustand = None \/ zustand.hash # h => weitergeleitet[h] = 0
    /\ \A w \in Workers : (runde[w] # None /\ runde[w].phase = "senden") =>
         /\ weitergeleitet[h] = 0 /\ runde[w].ergebnis.warnung = h
         /\ zustand # None /\ zustand.hash = h

WetterIInv ==
  /\ WetterTypeOK /\ WetterTypen
  /\ EinWetterWorker =>
       RundeKenntZustand /\ HystereseZaehlt /\ GemeldetOderUnterwegs /\ HashSperrt

-----------------------------------------------------------------------------

LEMMA AntwortenSind ==
  ASSUME wxUmfang \in WetterUmfaenge
  PROVE  /\ Ruhig \in Antworten
         /\ \A a \in Antworten :
              /\ a \in Ergebnisse
              /\ wxUmfang.regel = "sturm" => a.warnung = None
              /\ wxUmfang.regel = "amtlich" =>
                   a = Ruhig \/ (a.stufe = "akut" /\ a.warnung \in wxUmfang.warnungen)
<1>1. /\ wxUmfang.warnungen \subseteq Warnungen
      /\ wxUmfang.regel \in {"sturm", "gewitter", "amtlich"}
  BY WetterAssumption
<1>2. Ruhig \in Ergebnisse /\ Ruhig.warnung = None
  BY DEF Ruhig, Ergebnisse, Warnstufen
<1>3. CASE wxUmfang.regel = "sturm"
  <2>1. Antworten = {Ruhig, [stufe |-> "vorwarnung", warnung |-> None]}
    BY <1>3 DEF Antworten
  <2>2. [stufe |-> "vorwarnung", warnung |-> None] \in Ergebnisse
    BY DEF Ergebnisse, Warnstufen
  <2> QED
    BY <1>2, <1>3, <2>1, <2>2
<1>4. CASE wxUmfang.regel = "gewitter"
  <2>1. Antworten = {Ruhig} \cup [stufe : {"vorwarnung", "akut"}, warnung : wxUmfang.warnungen]
    BY <1>4 DEF Antworten
  <2>2. [stufe : {"vorwarnung", "akut"}, warnung : wxUmfang.warnungen] \subseteq Ergebnisse
    BY <1>1 DEF Ergebnisse, Warnstufen
  <2> QED
    BY <1>2, <1>4, <2>1, <2>2
<1>5. CASE wxUmfang.regel = "amtlich"
  <2>1. Antworten = {Ruhig} \cup [stufe : {"akut"}, warnung : wxUmfang.warnungen]
    BY <1>5 DEF Antworten
  <2>2. [stufe : {"akut"}, warnung : wxUmfang.warnungen] \subseteq Ergebnisse
    BY <1>1 DEF Ergebnisse, Warnstufen
  <2>3. \A a \in [stufe : {"akut"}, warnung : wxUmfang.warnungen] :
          a.stufe = "akut" /\ a.warnung \in wxUmfang.warnungen
    OBVIOUS
  <2> QED
    BY <1>2, <1>5, <2>1, <2>2, <2>3
<1> QED
  BY <1>1, <1>3, <1>4, <1>5

\* The state machine, one round.
LEMMA Zustandsmaschine ==
  ASSUME NEW z \in Zustaende, NEW e \in Ergebnisse
  PROVE  /\ ZustandNach(z, e) \in Zustaende
         /\ e.stufe = "akut" => ZustandNach(z, e).stufe = "akut" /\ ZustandNach(z, e).zyklen = 0
         /\ (z.stufe = "akut" /\ z.zyklen = 0) => ZustandNach(z, e).stufe = "akut"
         /\ ZustandNach(z, e).stufe \in {z.stufe, e.stufe}
         /\ WarnungMelden(z, e) =>
              /\ ZustandNach(z, e).stufe = e.stufe /\ e.stufe # "none"
              /\ e.warnung = None \/ e.warnung # z.hash
         /\ (~WarnungMelden(z, e) /\ e.warnung = None) =>
              ZustandNach(z, e).stufe \in {"none", z.stufe}
         /\ ZustandNach(z, e).hash = IF e.warnung # None THEN e.warnung ELSE z.hash
<1> DEFINE s == IF Gehalten(z, e) THEN "akut" ELSE e.stufe
           y == ZyklenNach(z, e)
           h == IF e.warnung # None THEN e.warnung ELSE z.hash
<1>1. /\ z.stufe \in Warnstufen /\ z.zyklen \in 0..2 /\ z.hash \in Warnungen \cup {None}
      /\ e.stufe \in Warnstufen /\ e.warnung \in Warnungen \cup {None}
  BY DEF Zustaende, Ergebnisse, HystereseZyklen
<1>2. Gehalten(z, e) <=> z.stufe = "akut" /\ e.stufe # "akut" /\ z.zyklen = 0
  BY <1>1 DEF Gehalten, HystereseZyklen
<1>3. y = IF Gehalten(z, e) THEN 1 ELSE IF e.stufe = "akut" THEN 0 ELSE z.zyklen
  BY <1>1, <1>2 DEF ZyklenNach
<1>4. s \in Warnstufen /\ y \in 0..2 /\ h \in Warnungen \cup {None}
  BY <1>1, <1>3 DEF Warnstufen
<1>5. ZustandNach(z, e) = [stufe |-> s, zyklen |-> y, hash |-> h]
  BY DEF ZustandNach
<1> HIDE DEF s, y, h
<1>6. /\ ZustandNach(z, e) \in Zustaende
      /\ ZustandNach(z, e).stufe = s /\ ZustandNach(z, e).zyklen = y /\ ZustandNach(z, e).hash = h
  BY <1>4, <1>5 DEF Zustaende, HystereseZyklen
<1>7. WarnungMelden(z, e) <=> /\ ~Gehalten(z, e) /\ e.stufe # "none" /\ e.stufe # z.stufe
                              /\ e.warnung = None \/ e.warnung # z.hash
  BY DEF WarnungMelden, Bekannt, NeueStufe
<1> QED
  BY <1>2, <1>3, <1>6, <1>7 DEF s, h

LEMMA WetterAmAnfang == WetterInit => WetterIInv
<1> SUFFICES ASSUME WetterInit PROVE WetterIInv
  OBVIOUS
<1>1. wxUmfang \in WetterUmfaenge /\ Ruhig \in Antworten
  BY AntwortenSind DEF WetterInit
<1>2. WetterTypeOK /\ WetterTypen
  <2>1. WetterTypeOK
    <3>1. wetter \in Antworten /\ zustand \in Zustaende \cup {None}
      BY <1>1 DEF WetterInit
    <3>2. boe \in BOOLEAN
      BY DEF WetterInit
    <3>3. seitAkut \in 0..2 /\ weitergeleitet \in [Warnungen -> 0..2]
      BY DEF WetterInit
    <3> QED
      BY <3>1, <3>2, <3>3 DEF WetterTypeOK
  <2>2. \A w \in Workers : bild[w] = None /\ runde[w] = None
    BY DEF WetterInit
  <2>3. bild = [w \in Workers |-> bild[w]]
    BY DEF WetterInit
  <2>4. runde \in [Workers -> Runden \cup {None}] /\ abgestuerzt \in Nat
    BY DEF WetterInit
  <2> QED
    BY <1>1, <2>1, <2>2, <2>3, <2>4 DEF WetterTypen
<1>3. RundeKenntZustand /\ HystereseZaehlt /\ GemeldetOderUnterwegs /\ HashSperrt
  <2>1. RundeKenntZustand
    BY DEF WetterInit, RundeKenntZustand
  <2>2. HystereseZaehlt
    BY DEF WetterInit, HystereseZaehlt, HystereseZyklen
  <2>3. GemeldetOderUnterwegs
    BY DEF WetterInit, GemeldetOderUnterwegs
  <2>4. HashSperrt
    BY DEF WetterInit, HashSperrt
  <2> QED
    BY <2>1, <2>2, <2>3, <2>4
<1> QED
  BY <1>2, <1>3 DEF WetterIInv

\* The weather, the station and the cache touch no state of a rule.
LEMMA UmgebungHaelt ==
  ASSUME WetterIInv,
         WetterWechselt \/ StationSendet \/ \E w \in Workers : BildVerfaellt(w)
  PROVE  WetterIInv'
<1> USE DEF WetterIInv
<1>1. /\ UNCHANGED <<wxUmfang, zustand, runde, abgestuerzt, seitAkut, protokoll, gesehen,
                     weitergeleitet>>
      /\ wetter' \in Antworten /\ boe' \in BOOLEAN
      /\ bild' = [w \in Workers |-> bild'[w]]
      /\ \A w \in Workers : bild'[w] = None \/ bild'[w] \in Antworten
  <2>1. CASE WetterWechselt
    BY <2>1 DEF WetterWechselt, WetterTypeOK, WetterTypen
  <2>2. CASE StationSendet
    BY <2>2 DEF StationSendet, WetterTypeOK, WetterTypen
  <2>3. CASE \E w \in Workers : BildVerfaellt(w)
    BY <2>3 DEF BildVerfaellt, WetterTypeOK, WetterTypen
  <2> QED
    BY <2>1, <2>2, <2>3
<1>2. Antworten' = Antworten
  BY <1>1 DEF Antworten
<1>3. WetterTypeOK'
  BY <1>1, <1>2 DEF WetterTypeOK
<1>4. WetterTypen'
  BY <1>1, <1>2 DEF WetterTypen
<1>5. EinWetterWorker' => EinWetterWorker
  BY <1>1 DEF EinWetterWorker
<1>6. /\ RundeKenntZustand => RundeKenntZustand'
      /\ HystereseZaehlt => HystereseZaehlt'
      /\ GemeldetOderUnterwegs => GemeldetOderUnterwegs'
      /\ HashSperrt => HashSperrt'
  BY <1>1 DEF RundeKenntZustand, HystereseZaehlt, GemeldetOderUnterwegs, HashSperrt
<1> QED
  BY <1>3, <1>4, <1>5, <1>6

\* One worker has one round.
LEMMA EineRunde ==
  ASSUME WetterTypen, EinWetterWorker, NEW v \in Workers, NEW w \in Workers,
         runde[v] # None, w \in wxUmfang.worker
  PROVE  v = w
BY DEF WetterTypen, EinWetterWorker

LEMMA RundeBeginntHaelt ==
  ASSUME WetterIInv, NEW w \in Workers, RundeBeginnt(w)
  PROVE  WetterIInv'
<1> USE DEF WetterIInv
<1> DEFINE r == [phase |-> "wetter", zustand |-> zustand, boe |-> boe, ergebnis |-> Ruhig]
<1>1. /\ UNCHANGED <<wxUmfang, wetter, boe, bild, zustand, abgestuerzt, seitAkut, protokoll,
                     gesehen, weitergeleitet>>
      /\ runde' = [runde EXCEPT ![w] = r] /\ w \in wxUmfang.worker /\ runde[w] = None
  BY DEF RundeBeginnt
<1>2. Antworten' = Antworten
  BY <1>1 DEF Antworten
<1>3. r \in Runden /\ r.phase = "wetter" /\ r.zustand = zustand
  <2>1. Ruhig \in Ergebnisse
    BY DEF Ruhig, Ergebnisse, Warnstufen
  <2> QED
    BY <2>1 DEF Runden, WetterTypeOK
<1> HIDE DEF r
<1>4. /\ runde' \in [Workers -> Runden \cup {None}] /\ runde'[w] = r
      /\ \A v \in Workers \ {w} : runde'[v] = runde[v]
  BY <1>1, <1>3 DEF WetterTypen
<1>5. WetterTypeOK'
  BY <1>1, <1>2 DEF WetterTypeOK
<1>6. WetterTypen'
  BY <1>1, <1>2, <1>4 DEF WetterTypen
<1>7. EinWetterWorker' => EinWetterWorker
  BY <1>1 DEF EinWetterWorker
<1>8. /\ RundeKenntZustand => RundeKenntZustand'
      /\ HystereseZaehlt => HystereseZaehlt'
      /\ HashSperrt => HashSperrt'
  BY <1>1, <1>3, <1>4 DEF RundeKenntZustand, HystereseZaehlt, HashSperrt
<1>9. GemeldetOderUnterwegs => GemeldetOderUnterwegs'
  BY <1>1, <1>4 DEF GemeldetOderUnterwegs
<1> QED
  BY <1>5, <1>6, <1>7, <1>8, <1>9

\* A round ends, by sending or by a crash.
LEMMA RundeEndetHaelt ==
  ASSUME WetterIInv, NEW w \in Workers, RundeSendet(w) \/ WarnungAbsturz(w)
  PROVE  WetterIInv'
<1> USE DEF WetterIInv
<1>1. /\ UNCHANGED <<wxUmfang, wetter, boe, zustand, seitAkut, gesehen>>
      /\ runde[w] # None /\ runde' = [runde EXCEPT ![w] = None]
      /\ bild' = bild \/ bild' = [bild EXCEPT ![w] = None]
      /\ w \in wxUmfang.worker
  BY DEF RundeSendet, WarnungAbsturz, WetterTypen
<1>2. Antworten' = Antworten
  BY <1>1 DEF Antworten
<1>3. /\ runde' \in [Workers -> Runden \cup {None}] /\ runde'[w] = None
      /\ \A v \in Workers \ {w} : runde'[v] = runde[v]
  BY <1>1 DEF WetterTypen
<1>4. /\ weitergeleitet \in [Warnungen -> 0..2]
      /\ \/ weitergeleitet' = weitergeleitet
         \/ weitergeleitet' = [h \in Warnungen |->
              IF h = runde[w].ergebnis.warnung /\ weitergeleitet[h] < 2
              THEN weitergeleitet[h] + 1 ELSE weitergeleitet[h]]
  BY DEF RundeSendet, WarnungAbsturz, WetterTypeOK
<1>5. weitergeleitet' \in [Warnungen -> 0..2]
  BY <1>4
<1>6. WetterTypeOK'
  BY <1>1, <1>2, <1>5 DEF WetterTypeOK
<1>7. WetterTypen'
  <2>1. abgestuerzt' \in Nat
    BY DEF WetterTypen, RundeSendet, WarnungAbsturz
  <2> QED
    BY <1>1, <1>2, <1>3, <2>1 DEF WetterTypen
<1>8. EinWetterWorker' => EinWetterWorker
  BY <1>1 DEF EinWetterWorker
<1>9. RundeKenntZustand => RundeKenntZustand'
  BY <1>1, <1>3 DEF RundeKenntZustand
<1>10. HystereseZaehlt => HystereseZaehlt'
  BY <1>1 DEF HystereseZaehlt
<1>11. ASSUME EinWetterWorker
       PROVE  GemeldetOderUnterwegs'
  <2>1. CASE WarnungAbsturz(w)
    BY <2>1 DEF WarnungAbsturz, WetterTypen, GemeldetOderUnterwegs
  <2>2. CASE RundeSendet(w)
    BY <1>1, <1>11, <2>2 DEF RundeSendet, RundeKenntZustand, GemeldetOderUnterwegs
  <2> QED
    BY <2>1, <2>2
<1>12. ASSUME EinWetterWorker
       PROVE  HashSperrt'
  <2>1. \A v \in Workers : runde'[v] = None
    BY <1>1, <1>3, <1>12, EineRunde
  <2> SUFFICES ASSUME NEW h \in Warnungen, wxUmfang.regel = "amtlich", wxUmfang.warnungen = {h}
               PROVE  /\ \A g \in Warnungen \ {h} : weitergeleitet'[g] = 0
                      /\ weitergeleitet'[h] <= 1
                      /\ zustand = None \/ zustand.hash # h => weitergeleitet'[h] = 0
    BY <1>1, <2>1 DEF HashSperrt
  <2>2. CASE weitergeleitet' = weitergeleitet
    BY <1>12, <2>2 DEF HashSperrt
  <2>3. CASE RundeSendet(w)
    <3>1. /\ weitergeleitet[h] = 0 /\ runde[w].ergebnis.warnung = h
          /\ zustand # None /\ zustand.hash = h
          /\ \A g \in Warnungen \ {h} : weitergeleitet[g] = 0
      BY <1>1, <1>12, <2>3 DEF RundeSendet, HashSperrt
    <3> QED
      BY <2>3, <3>1 DEF RundeSendet
  <2> QED
    BY <2>2, <2>3 DEF WarnungAbsturz
<1> QED
  BY <1>6, <1>7, <1>8, <1>9, <1>10, <1>11, <1>12

\* A round evaluates its rule: the state machine and the transaction of the row.
LEMMA AuswertungHaelt ==
  ASSUME WetterIInv, NEW w \in Workers, RundeWertetAus(w)
  PROVE  WetterIInv'
<1> USE DEF WetterIInv
<1>1. PICK a \in Antworten :
        /\ runde[w] # None /\ runde[w].phase = "wetter" /\ w \in wxUmfang.worker
        /\ Auswertung(w, a)
        /\ UNCHANGED <<wxUmfang, wetter, boe, abgestuerzt, protokoll, weitergeleitet>>
  BY AntwortenSind DEF RundeWertetAus, WetterTypeOK, WetterTypen
<1> DEFINE b == runde[w].boe
           e == RegelErgebnis(b, a)
           z == IF runde[w].zustand = None THEN Unbekannt ELSE runde[w].zustand
           n == ZustandNach(z, e)
           m == [s \in DOMAIN n |-> IF n[s] = z[s] THEN zustand[s] ELSE n[s]]
           r == [runde[w] EXCEPT !.phase = "senden", !.ergebnis = e]
<1>2. /\ Antworten' = Antworten
      /\ runde[w] \in Runden /\ zustand \in Zustaende \cup {None}
      /\ wxUmfang \in WetterUmfaenge
  BY <1>1 DEF Antworten, WetterTypen, WetterTypeOK
<1>3. /\ e \in Ergebnisse
      /\ wxUmfang.regel = "sturm" => e.warnung = None
      /\ wxUmfang.regel = "amtlich" =>
           e = Ruhig \/ (e.stufe = "akut" /\ e.warnung \in wxUmfang.warnungen)
  <2>1. [stufe |-> "akut", warnung |-> None] \in Ergebnisse
    BY DEF Ergebnisse, Warnstufen
  <2> QED
    BY <1>2, <2>1, AntwortenSind DEF RegelErgebnis
<1>4. z \in Zustaende
  BY <1>2 DEF Runden, Zustaende, Unbekannt, Warnstufen, HystereseZyklen
<1>5. n \in Zustaende
  BY <1>3, <1>4, Zustandsmaschine
<1>6. zustand # None => m \in Zustaende
  BY <1>2, <1>5 DEF Zustaende
<1>7. r \in Runden /\ r.phase = "senden" /\ r.ergebnis = e
  <2> HIDE DEF e
  <2> QED
    BY <1>2, <1>3 DEF Runden
<1>8. /\ bild' = [bild EXCEPT ![w] = a]
      /\ \/ /\ runde[w].zustand = None /\ zustand # None
            /\ runde' = [runde EXCEPT ![w] = None]
            /\ UNCHANGED <<zustand, seitAkut, gesehen>>
         \/ /\ ~(runde[w].zustand = None /\ zustand # None)
            /\ zustand' = IF zustand = None THEN n ELSE m
            /\ runde' = [runde EXCEPT ![w] = IF WarnungMelden(z, e) THEN r ELSE None]
            /\ seitAkut' = IF e.stufe = "akut" THEN 0 ELSE IF seitAkut = 2 THEN 2 ELSE seitAkut + 1
  BY <1>1 DEF Auswertung
<1> HIDE DEF b, e, z, n, m, r
<1>9. /\ runde' \in [Workers -> Runden \cup {None}]
      /\ \A v \in Workers \ {w} : runde'[v] = runde[v]
      /\ runde'[w] \in {None, r}
  BY <1>7, <1>8 DEF WetterTypen
<1>10. WetterTypeOK'
  <2>1. zustand' \in Zustaende \cup {None}
    BY <1>2, <1>5, <1>6, <1>8
  <2>2. seitAkut' \in 0..2
    BY <1>8 DEF WetterTypeOK
  <2> QED
    BY <1>1, <1>2, <2>1, <2>2 DEF WetterTypeOK
<1>11. WetterTypen'
  <2>1. bild' = [v \in Workers |-> bild'[v]]
    BY <1>8 DEF WetterTypen
  <2>2. \A v \in Workers : bild'[v] = None \/ bild'[v] \in Antworten'
    BY <1>2, <1>8 DEF WetterTypen
  <2> QED
    BY <1>1, <1>9, <2>1, <2>2 DEF WetterTypen
<1>12. EinWetterWorker' => EinWetterWorker
  BY <1>1 DEF EinWetterWorker
<1>13. ASSUME EinWetterWorker
       PROVE  RundeKenntZustand' /\ HystereseZaehlt' /\ GemeldetOderUnterwegs' /\ HashSperrt'
  <2>1. /\ runde[w].zustand = zustand
        /\ \A v \in Workers \ {w} : runde[v] = None
    BY <1>1, <1>13, EineRunde DEF RundeKenntZustand
  \* Nobody has written meanwhile: the row becomes what the state machine says.
  <2>2. zustand' = n
    <3>1. CASE zustand = None
      BY <1>8, <2>1, <3>1
    <3>2. CASE zustand # None
      <4>1. z = zustand
        BY <2>1, <3>2 DEF z
      <4>2. m = n
        <5>1. m = [s \in DOMAIN n |-> n[s]]
          BY <4>1 DEF m
        <5> QED
          BY <1>5, <5>1 DEF Zustaende
      <4> QED
        BY <1>8, <2>1, <3>2, <4>2
    <3> QED
      BY <3>1, <3>2
  <2>3. /\ zustand' # None /\ r # None
        /\ runde'[w] = IF WarnungMelden(z, e) THEN r ELSE None
        /\ seitAkut' = IF e.stufe = "akut" THEN 0 ELSE IF seitAkut = 2 THEN 2 ELSE seitAkut + 1
    BY <1>5, <1>7, <1>8, <2>1, <2>2, WetterAssumption DEF WetterTypen
  <2>4. /\ e.stufe = "akut" => n.stufe = "akut" /\ n.zyklen = 0
        /\ (z.stufe = "akut" /\ z.zyklen = 0) => n.stufe = "akut"
        /\ WarnungMelden(z, e) =>
             /\ n.stufe = e.stufe /\ e.stufe # "none"
             /\ e.warnung = None \/ e.warnung # z.hash
        /\ (~WarnungMelden(z, e) /\ e.warnung = None) => n.stufe \in {"none", z.stufe}
        /\ n.hash = IF e.warnung # None THEN e.warnung ELSE z.hash
    BY <1>3, <1>4, Zustandsmaschine DEF n
  <2>5. /\ zustand # None => z = zustand
        /\ zustand = None => z.stufe = "none" /\ z.hash = None
    BY <2>1 DEF z, Unbekannt
  <2>6. RundeKenntZustand'
    BY <1>7, <1>9, <2>1, <2>2, <2>3, <2>4 DEF RundeKenntZustand
  <2>7. HystereseZaehlt'
    <3>1. seitAkut \in 0..2
      BY DEF WetterTypeOK
    <3>2. CASE e.stufe = "akut"
      BY <2>2, <2>3, <2>4, <3>2 DEF HystereseZaehlt
    <3>3. CASE e.stufe # "akut" /\ seitAkut = 0
      BY <1>13, <2>2, <2>3, <2>4, <2>5, <3>3 DEF HystereseZaehlt, HystereseZyklen
    <3>4. CASE e.stufe # "akut" /\ seitAkut # 0
      BY <2>3, <3>1, <3>4 DEF HystereseZaehlt, HystereseZyklen
    <3> QED
      BY <3>2, <3>3, <3>4
  <2>8. GemeldetOderUnterwegs'
    <3> SUFFICES ASSUME wxUmfang.regel = "sturm", abgestuerzt = 0
                 PROVE  \/ zustand'.stufe \in {"none", protokoll}
                        \/ runde'[w] # None /\ runde'[w].phase = "senden"
      BY <1>1 DEF GemeldetOderUnterwegs
    <3>1. CASE WarnungMelden(z, e)
      BY <1>7, <2>3, <3>1
    <3>2. CASE ~WarnungMelden(z, e)
      <4>1. n.stufe \in {"none", z.stufe}
        BY <1>3, <2>4, <3>2
      <4>2. z.stufe \in {"none", protokoll}
        BY <1>1, <1>13, <2>1, <2>5 DEF GemeldetOderUnterwegs
      <4> QED
        BY <2>2, <4>1, <4>2
    <3> QED
      BY <3>1, <3>2
  <2>9. HashSperrt'
    <3> SUFFICES ASSUME NEW h \in Warnungen, wxUmfang.regel = "amtlich", wxUmfang.warnungen = {h}
                 PROVE  /\ \A g \in Warnungen \ {h} : weitergeleitet[g] = 0
                        /\ weitergeleitet[h] <= 1
                        /\ n.hash # h => weitergeleitet[h] = 0
                        /\ WarnungMelden(z, e) =>
                             weitergeleitet[h] = 0 /\ e.warnung = h /\ n.hash = h
      BY <1>1, <1>7, <1>9, <2>1, <2>2, <2>3 DEF HashSperrt
    <3>1. /\ \A g \in Warnungen \ {h} : weitergeleitet[g] = 0
          /\ weitergeleitet[h] <= 1
          /\ zustand = None \/ zustand.hash # h => weitergeleitet[h] = 0
      BY <1>13 DEF HashSperrt
    <3>2. z.hash # h => weitergeleitet[h] = 0
      BY <2>5, <3>1, WetterAssumption
    <3>3. h # None
      BY WetterAssumption
    <3>4. CASE e = Ruhig
      <4>1. e.stufe = "none" /\ e.warnung = None
        BY <3>4 DEF Ruhig
      <4> QED
        BY <2>4, <3>1, <3>2, <4>1
    <3>5. CASE e.stufe = "akut" /\ e.warnung = h
      BY <2>4, <3>1, <3>2, <3>3, <3>5
    <3> QED
      BY <1>3, <3>4, <3>5
  <2> QED
    BY <2>6, <2>7, <2>8, <2>9
<1> QED
  BY <1>10, <1>11, <1>12, <1>13

LEMMA WetterSchritt == WetterIInv /\ [WetterNext]_wetterVars => WetterIInv'
<1> SUFFICES ASSUME WetterIInv, [WetterNext]_wetterVars
             PROVE  WetterIInv'
  OBVIOUS
<1>1. CASE WetterNext
  BY <1>1, UmgebungHaelt, RundeBeginntHaelt, RundeEndetHaelt, AuswertungHaelt DEF WetterNext
<1>2. CASE UNCHANGED wetterVars
  <2> USE <1>2 DEF wetterVars, WetterIInv
  <2>1. Antworten' = Antworten
    BY DEF Antworten
  <2>2. WetterTypeOK' /\ WetterTypen'
    BY <2>1 DEF WetterTypeOK, WetterTypen
  <2>3. EinWetterWorker' => EinWetterWorker
    BY DEF EinWetterWorker
  <2>4. /\ RundeKenntZustand => RundeKenntZustand'
        /\ HystereseZaehlt => HystereseZaehlt'
        /\ GemeldetOderUnterwegs => GemeldetOderUnterwegs'
        /\ HashSperrt => HashSperrt'
    BY DEF RundeKenntZustand, HystereseZaehlt, GemeldetOderUnterwegs, HashSperrt
  <2> QED
    BY <2>2, <2>3, <2>4
<1> QED
  BY <1>1, <1>2

\* The state machine of a weather rule: an alarm outlasts one calm round, a level that is
\* entered is sent, and one official warning is sent once, for any number of rounds,
\* warnings and crashes.
THEOREM WetterHaelt == WetterSpec => []WetterVersprechen
<1>1. WetterIInv => WetterVersprechen
  <2> SUFFICES ASSUME WetterIInv PROVE WetterVersprechen
    OBVIOUS
  <2>1. AkutHaeltZweiRunden
    BY DEF WetterIInv, HystereseZaehlt, AkutHaeltZweiRunden
  <2>2. StufeWirdGemeldet
    BY DEF WetterIInv, GemeldetOderUnterwegs, StufeWirdGemeldet, Ruhen
  <2>3. GleicheWarnungEinmal
    <3> SUFFICES ASSUME EinWetterWorker, wxUmfang.regel = "amtlich", NEW h \in Warnungen,
                        wxUmfang.warnungen = {h}, NEW g \in Warnungen
                 PROVE  weitergeleitet[g] <= 1
      BY DEF GleicheWarnungEinmal
    <3> QED
      BY DEF WetterIInv, HashSperrt
  <2> QED
    BY <2>1, <2>2, <2>3 DEF WetterIInv, WetterVersprechen
<1> QED
  BY WetterAmAnfang, WetterSchritt, <1>1, PTL DEF WetterSpec
=============================================================================
