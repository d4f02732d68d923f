---------------------------- MODULE BestandProof ----------------------------
(* What is kept: devices, trips, drones, the files within the quota, and the *)
(* master data with the file they are restored from. For any number of them, *)
(* of days, records and workers.                                             *)
EXTENDS Geraetepruefung, Fahrtenbuch, Drohnen, Medien, Stammdaten,
        FunctionTheorems, FiniteSetTheorems, WellFoundedInduction, TLAPS

-----------------------------------------------------------------------------
(* Inspection of the apparatus *)

Protokolle == [id : Nat, geraet : PruefGeraete, tag : Tage, messung : Messungen,
               einsatz : BOOLEAN]
Kanalergebnisse == [kanal : PruefKanaele, ok : BOOLEAN]
Aufgaben == [stand : {"keiner", "offen", "laeuft", "fertig", "verloren"},
             beginn : SUBSET PruefKanaele, kanaele : SUBSET PruefKanaele,
             ergebnis : SUBSET Kanalergebnisse]
Vermerke == [protokoll : 1..MaxProtokolle, kanal : PruefKanaele, ok : BOOLEAN]

PruefTypen ==
  /\ pruefLink \in Nat /\ wart \subseteq PruefKanaele /\ einsatzDa \in BOOLEAN
  /\ protokolle \subseteq Protokolle
  /\ benachrichtigt \subseteq Vermerke
  /\ defektTask \in [1..MaxProtokolle -> Aufgaben]

\* The rows are numbered without a gap, and a number names one row.
Nummeriert(P) ==
  /\ IsFiniteSet(P)
  /\ {p.id : p \in P} = 1..Cardinality(P)
  /\ \A p, q \in P : p.id = q.id => p = q

\* The newest protocol of a set: by day, then by number.
Neueste(P, p) ==
  p \in P /\ \A q \in P : q.tag < p.tag \/ (q.tag = p.tag /\ q.id <= p.id)

\* An apparatus with a protocol has a newest one.
NeuesteDa == \A g \in PruefGeraete : Von(g) # {} => \E p \in Von(g) : Neueste(Von(g), p)

\* A task belongs to a protocol that is out of order.
NurMaengel ==
  \A n \in 1..MaxProtokolle :
    defektTask[n].stand # "keiner" => \E p \in protokolle : p.id = n /\ ~AllesOk(p.messung)

\* A task has tried the channels it began with, each of them once, except those it
\* still has to try.
Versucht(t) ==
  t.stand \in {"laeuft", "fertig"} =>
    /\ t.beginn = t.kanaele \cup {e.kanal : e \in t.ergebnis}
    /\ \A e \in t.ergebnis : e.kanal \notin t.kanaele
    /\ \A e, f \in t.ergebnis : e.kanal = f.kanal => e = f
    /\ t.stand = "fertig" => t.kanaele = {}

\* What is noted is what the tasks that ended have found.
VermerktIst ==
  \A n \in 1..MaxProtokolle : \A k \in PruefKanaele, ok \in BOOLEAN :
    [protokoll |-> n, kanal |-> k, ok |-> ok] \in benachrichtigt <=>
      defektTask[n].stand = "fertig" /\ [kanal |-> k, ok |-> ok] \in defektTask[n].ergebnis

PruefIInv ==
  /\ PruefTypen /\ Nummeriert(protokolle) /\ Cardinality(protokolle) <= MaxProtokolle
  /\ NeuesteDa /\ NurMaengel /\ VermerktIst
  /\ \A n \in 1..MaxProtokolle : Versucht(defektTask[n])

-----------------------------------------------------------------------------

\* As many values as rows, when each row has one of its own.
LEMMA GleichViele ==
  ASSUME NEW S, NEW T, NEW f \in [S -> T], IsFiniteSet(S),
         \A a, b \in S : f[a] = f[b] => a = b, \A t \in T : \E a \in S : f[a] = t
  PROVE  IsFiniteSet(T) /\ Cardinality(T) = Cardinality(S)
<1>1. f \in Bijection(S, T)
  BY Fun_IsBij
<1>2. ExistsBijection(S, T)
  BY <1>1 DEF ExistsBijection
<1> QED
  BY <1>2, FS_Bijection

LEMMA PruefAmAnfang == PruefInit => PruefIInv
<1> SUFFICES ASSUME PruefInit PROVE PruefIInv
  OBVIOUS
<1>1. KeinTask \in Aufgaben /\ KeinTask.stand = "keiner"
  BY DEF KeinTask, Aufgaben
<1>2. defektTask = [n \in 1..MaxProtokolle |-> KeinTask] /\ protokolle = {} /\ benachrichtigt = {}
  BY DEF PruefInit
<1>3. PruefTypen
  BY <1>1, <1>2 DEF PruefInit, PruefTypen
<1>4. Nummeriert(protokolle) /\ Cardinality(protokolle) <= MaxProtokolle
  BY <1>2, FS_EmptySet, PruefAssumption DEF Nummeriert
<1>5. NeuesteDa
  BY <1>2 DEF NeuesteDa, Von
<1>6. NurMaengel /\ VermerktIst /\ \A n \in 1..MaxProtokolle : Versucht(defektTask[n])
  BY <1>1, <1>2 DEF NurMaengel, VermerktIst, Versucht
<1> QED
  BY <1>3, <1>4, <1>5, <1>6 DEF PruefIInv

\* The invariant is about the rows, the tasks and the notes.
LEMMA PruefBleibt ==
  ASSUME PruefIInv, UNCHANGED <<protokolle, benachrichtigt, defektTask>>,
         pruefLink' \in Nat, wart' \subseteq PruefKanaele, einsatzDa' \in BOOLEAN
  PROVE  PruefIInv'
<1>1. PruefTypen'
  BY DEF PruefIInv, PruefTypen
<1>2. NeuesteDa'
  BY DEF PruefIInv, NeuesteDa, Von
<1>3. Nummeriert(protokolle)' /\ NurMaengel' /\ VermerktIst'
  BY DEF PruefIInv, Nummeriert, NurMaengel, VermerktIst
<1>4. \A n \in 1..MaxProtokolle : Versucht(defektTask[n])'
  BY DEF PruefIInv, Versucht
<1> QED
  BY <1>1, <1>2, <1>3, <1>4 DEF PruefIInv

\* A protocol is entered, of any day.
LEMMA SpeichernHaelt ==
  ASSUME PruefIInv, NEW g \in PruefGeraete, NEW t \in Tage, NEW m \in Messungen,
         NEW i \in BOOLEAN, ProtokollSpeichern(g, t, m, i)
  PROVE  PruefIInv'
<1> USE DEF PruefIInv
<1> DEFINE n == Cardinality(protokolle) + 1
           r == [id |-> n, geraet |-> g, tag |-> t, messung |-> m, einsatz |-> einsatzDa]
<1>1. /\ IsFiniteSet(protokolle) /\ Cardinality(protokolle) \in Nat
      /\ {p.id : p \in protokolle} = 1..Cardinality(protokolle)
  BY FS_CardinalityType DEF Nummeriert
<1>2. n \in 1..MaxProtokolle /\ n \in Nat
  BY <1>1, PruefAssumption DEF ProtokollSpeichern
<1>3. /\ protokolle' = protokolle \cup {r} /\ benachrichtigt' = benachrichtigt
      /\ defektTask' = IF AllesOk(m) THEN defektTask ELSE [defektTask EXCEPT ![n].stand = "offen"]
      /\ UNCHANGED <<pruefLink, wart, einsatzDa>>
  BY DEF ProtokollSpeichern, pruefEinstellungen
<1>4. /\ r \in Protokolle /\ r.id = n /\ r.geraet = g /\ r.tag = t /\ r.messung = m
  BY <1>2 DEF Protokolle, PruefTypen
<1> HIDE DEF r
<1>5. \A p \in protokolle : p.id \in 1..Cardinality(protokolle)
  BY <1>1
<1>6. r \notin protokolle
  BY <1>1, <1>2, <1>4, <1>5
<1>7. Cardinality(protokolle') = n /\ IsFiniteSet(protokolle')
  BY <1>1, <1>3, <1>6, FS_AddElement
<1>8. Nummeriert(protokolle)'
  <2>1. {p.id : p \in protokolle'} = 1..n
    <3>1. {p.id : p \in protokolle'} = {p.id : p \in protokolle} \cup {n}
      BY <1>3, <1>4
    <3>2. 1..n = 1..Cardinality(protokolle) \cup {n}
      BY <1>1
    <3> QED
      BY <1>1, <3>1, <3>2
  <2>2. \A p, q \in protokolle' : p.id = q.id => p = q
    BY <1>1, <1>3, <1>4, <1>5 DEF Nummeriert
  <2> QED
    BY <1>7, <2>1, <2>2 DEF Nummeriert
<1>9. defektTask[n].stand = "keiner"
  BY <1>1, <1>2, <1>5 DEF NurMaengel
<1>10. /\ defektTask' \in [1..MaxProtokolle -> Aufgaben]
       /\ defektTask'[n].stand = IF AllesOk(m) THEN "keiner" ELSE "offen"
       /\ \A k \in 1..MaxProtokolle \ {n} : defektTask'[k] = defektTask[k]
  <2> DEFINE a == [defektTask[n] EXCEPT !.stand = "offen"]
  <2>1. a \in Aufgaben /\ a.stand = "offen"
    BY <1>2 DEF PruefTypen, Aufgaben
  <2>2. defektTask' = IF AllesOk(m) THEN defektTask ELSE [defektTask EXCEPT ![n] = a]
    BY <1>3
  <2> HIDE DEF a, n
  <2>3. CASE AllesOk(m)
    BY <1>9, <2>2, <2>3 DEF PruefTypen
  <2>4. CASE ~AllesOk(m)
    BY <1>2, <2>1, <2>2, <2>4 DEF PruefTypen
  <2> QED
    BY <2>3, <2>4
<1>11. PruefTypen'
  BY <1>3, <1>4, <1>10 DEF PruefTypen
<1>12. NeuesteDa'
  <2> SUFFICES ASSUME NEW h \in PruefGeraete, Von(h)' # {}
               PROVE  \E p \in Von(h)' : Neueste(Von(h)', p)
    BY DEF NeuesteDa
  <2>1. CASE h # g
    <3>1. Von(h)' = Von(h)
      BY <1>3, <1>4, <2>1 DEF Von
    <3> QED
      BY <3>1 DEF NeuesteDa
  <2>2. CASE h = g
    <3>1. Von(g)' = Von(g) \cup {r}
      BY <1>3, <1>4 DEF Von
    <3>2. \A p \in Von(g) : p.id \in Nat /\ p.id < n /\ p.tag \in Nat
      <4> SUFFICES ASSUME NEW p \in Von(g) PROVE p.id \in Nat /\ p.id < n /\ p.tag \in Nat
        OBVIOUS
      <4>1. p \in protokolle /\ p \in Protokolle
        BY DEF Von, PruefTypen
      <4>2. p.id \in 1..Cardinality(protokolle) /\ p.tag \in Nat
        BY <1>5, <4>1, PruefAssumption DEF Protokolle
      <4> QED
        BY <1>1, <4>2
    <3>3. r.tag \in Nat /\ r.id = n
      BY <1>4, PruefAssumption
    <3>4. CASE Von(g) = {}
      BY <1>2, <2>2, <3>1, <3>3, <3>4 DEF Neueste
    <3>5. CASE Von(g) # {}
      <4>1. PICK p \in Von(g) : Neueste(Von(g), p)
        BY <3>5 DEF NeuesteDa
      <4>2. CASE r.tag < p.tag
        BY <2>2, <3>1, <3>2, <3>3, <4>1, <4>2 DEF Neueste
      <4>3. CASE p.tag <= r.tag
        <5>1. Neueste(Von(g)', r)
          BY <1>2, <3>1, <3>2, <3>3, <4>1, <4>3 DEF Neueste
        <5> QED
          BY <2>2, <3>1, <5>1
      <4> QED
        BY <3>2, <3>3, <4>2, <4>3
    <3> QED
      BY <3>4, <3>5
  <2> QED
    BY <2>1, <2>2
<1>13. NurMaengel'
  BY <1>2, <1>3, <1>4, <1>10 DEF NurMaengel
<1>14. VermerktIst'
  <2> SUFFICES ASSUME NEW k \in 1..MaxProtokolle
               PROVE  \A c \in PruefKanaele, ok \in BOOLEAN :
                        [protokoll |-> k, kanal |-> c, ok |-> ok] \in benachrichtigt <=>
                          /\ defektTask'[k].stand = "fertig"
                          /\ [kanal |-> c, ok |-> ok] \in defektTask'[k].ergebnis
    BY <1>3 DEF VermerktIst
  <2>1. CASE k = n
    <3>1. defektTask'[k].stand # "fertig" /\ defektTask[k].stand # "fertig"
      BY <1>9, <1>10, <2>1
    <3> QED
      BY <3>1 DEF VermerktIst
  <2>2. CASE k # n
    BY <1>10, <2>2 DEF VermerktIst
  <2> QED
    BY <2>1, <2>2
<1>15. \A k \in 1..MaxProtokolle : Versucht(defektTask[k])'
  BY <1>10 DEF Versucht
<1> QED
  BY <1>2, <1>7, <1>8, <1>11, <1>12, <1>13, <1>14, <1>15

\* A task that does not end leaves the notes as they are.
LEMMA AufgabeHaelt ==
  ASSUME PruefIInv, NEW n \in 1..MaxProtokolle, NEW a \in Aufgaben,
         defektTask' = [defektTask EXCEPT ![n] = a],
         defektTask[n].stand \in {"offen", "laeuft"}, Versucht(a),
         a.stand = "fertig" => a.ergebnis = {},
         UNCHANGED <<protokolle, benachrichtigt, einsatzDa, pruefEinstellungen>>
  PROVE  PruefIInv'
<1> USE DEF PruefIInv
<1>1. /\ defektTask' \in [1..MaxProtokolle -> Aufgaben] /\ defektTask'[n] = a
      /\ \A k \in 1..MaxProtokolle \ {n} : defektTask'[k] = defektTask[k]
  BY DEF PruefTypen
<1>2. PruefTypen'
  BY <1>1 DEF PruefTypen, pruefEinstellungen
<1>3. NeuesteDa' /\ Nummeriert(protokolle)'
  BY DEF NeuesteDa, Von, Nummeriert
<1>4. NurMaengel'
  BY <1>1 DEF NurMaengel
<1>5. VermerktIst'
  BY <1>1 DEF VermerktIst
<1>6. \A k \in 1..MaxProtokolle : Versucht(defektTask[k])'
  BY <1>1 DEF Versucht
<1> QED
  BY <1>2, <1>3, <1>4, <1>5, <1>6

LEMMA MeldenHaelt ==
  ASSUME PruefIInv, NEW n \in 1..MaxProtokolle,
         MeldungBeginnen(n) \/ (\E ok \in BOOLEAN : KanalMelden(n, ok)) \/ MeldungAbbrechen(n)
  PROVE  PruefIInv'
<1> USE DEF PruefIInv
<1>1. defektTask[n] \in Aufgaben /\ Versucht(defektTask[n])
  BY DEF PruefTypen
<1>2. CASE MeldungBeginnen(n)
  <2> DEFINE a == [stand |-> IF wart = {} THEN "fertig" ELSE "laeuft", beginn |-> wart,
                   kanaele |-> wart, ergebnis |-> {}]
  <2>1. /\ a \in Aufgaben /\ a.ergebnis = {} /\ a.beginn = wart /\ a.kanaele = wart
        /\ a.stand = IF wart = {} THEN "fertig" ELSE "laeuft"
    BY DEF Aufgaben, PruefTypen
  <2>2. /\ defektTask[n].stand = "offen" /\ defektTask' = [defektTask EXCEPT ![n] = a]
        /\ UNCHANGED <<protokolle, benachrichtigt, einsatzDa, pruefEinstellungen>>
    BY <1>2 DEF MeldungBeginnen
  <2> HIDE DEF a
  <2>3. Versucht(a)
    BY <2>1 DEF Versucht
  <2> QED
    BY <2>1, <2>2, <2>3, AufgabeHaelt
<1>3. CASE \E ok \in BOOLEAN : KanalMelden(n, ok)
  <2>1. PICK ok \in BOOLEAN : KanalMelden(n, ok)
    BY <1>3
  <2> DEFINE k == IF "mail" \in defektTask[n].kanaele THEN "mail" ELSE "teams"
             x == [kanal |-> k, ok |-> ok]
             a == NachKanal(defektTask[n], k, ok)
  <2>2. /\ defektTask[n].stand = "laeuft" /\ defektTask[n].kanaele # {}
        /\ defektTask' = [defektTask EXCEPT ![n] = a]
        /\ UNCHANGED <<protokolle, benachrichtigt, einsatzDa, pruefEinstellungen>>
    BY <2>1 DEF KanalMelden
  <2>3. k \in defektTask[n].kanaele /\ k \in PruefKanaele
    BY <1>1, <2>2 DEF Aufgaben, PruefKanaele
  <2>4. x \in Kanalergebnisse /\ x.kanal = k
    BY <2>3 DEF Kanalergebnisse
  <2> HIDE DEF k
  <2>5. /\ a \in Aufgaben /\ a.stand = "laeuft" /\ a.beginn = defektTask[n].beginn
        /\ a.ergebnis = defektTask[n].ergebnis \cup {x}
        /\ a.kanaele = defektTask[n].kanaele \ {k}
    <3> DEFINE e == defektTask[n].ergebnis \cup {x}
               o == defektTask[n].kanaele \ {k}
    <3>1. a = [defektTask[n] EXCEPT !.ergebnis = e, !.kanaele = o]
      BY DEF NachKanal
    <3>2. e \in SUBSET Kanalergebnisse /\ o \in SUBSET PruefKanaele
      BY <1>1, <2>4 DEF Aufgaben
    <3> HIDE DEF e, o, a
    <3>3. /\ a \in Aufgaben /\ a.stand = "laeuft" /\ a.beginn = defektTask[n].beginn
          /\ a.ergebnis = e /\ a.kanaele = o
      BY <1>1, <2>2, <3>1, <3>2 DEF Aufgaben
    <3> QED
      BY <3>3 DEF e, o
  <2> HIDE DEF x, a
  <2>6. Versucht(a)
    <3>1. {e.kanal : e \in a.ergebnis} = {e.kanal : e \in defektTask[n].ergebnis} \cup {k}
      BY <2>4, <2>5
    <3>2. a.beginn = a.kanaele \cup {e.kanal : e \in a.ergebnis}
      BY <1>1, <2>2, <2>3, <2>5, <3>1 DEF Versucht
    <3>3. \A e \in a.ergebnis : e.kanal \notin a.kanaele
      BY <1>1, <2>2, <2>4, <2>5 DEF Versucht
    <3>4. \A e, f \in a.ergebnis : e.kanal = f.kanal => e = f
      BY <1>1, <2>2, <2>3, <2>4, <2>5 DEF Versucht
    <3> QED
      BY <2>5, <3>2, <3>3, <3>4 DEF Versucht
  <2> QED
    BY <2>2, <2>5, <2>6, AufgabeHaelt
<1>4. CASE MeldungAbbrechen(n)
  <2> DEFINE a == [defektTask[n] EXCEPT !.stand = "verloren"]
  <2>1. /\ defektTask[n].stand \in {"offen", "laeuft"}
        /\ defektTask' = [defektTask EXCEPT ![n] = a]
        /\ UNCHANGED <<protokolle, benachrichtigt, einsatzDa, pruefEinstellungen>>
    BY <1>4 DEF MeldungAbbrechen
  <2>2. a \in Aufgaben /\ a.stand = "verloren"
    BY <1>1 DEF Aufgaben
  <2> HIDE DEF a
  <2>3. Versucht(a)
    BY <2>2 DEF Versucht
  <2> QED
    BY <2>1, <2>2, <2>3, AufgabeHaelt
<1> QED
  BY <1>2, <1>3, <1>4

\* The task ends and notes what it has found.
LEMMA FestschreibenHaelt ==
  ASSUME PruefIInv, NEW n \in 1..MaxProtokolle, MeldungFestschreiben(n)
  PROVE  PruefIInv'
<1> USE DEF PruefIInv
<1> DEFINE a == [defektTask[n] EXCEPT !.stand = "fertig"]
           neu == {[protokoll |-> n, kanal |-> e.kanal, ok |-> e.ok] : e \in defektTask[n].ergebnis}
<1>1. /\ defektTask[n] \in Aufgaben /\ Versucht(defektTask[n])
      /\ defektTask[n].stand = "laeuft" /\ defektTask[n].kanaele = {}
      /\ defektTask' = [defektTask EXCEPT ![n] = a]
      /\ benachrichtigt' = benachrichtigt \cup neu
      /\ UNCHANGED <<protokolle, einsatzDa, pruefEinstellungen>>
  BY DEF MeldungFestschreiben, PruefTypen
<1>2. /\ a \in Aufgaben /\ a.stand = "fertig" /\ a.kanaele = {}
      /\ a.beginn = defektTask[n].beginn /\ a.ergebnis = defektTask[n].ergebnis
  BY <1>1 DEF Aufgaben
<1>3. defektTask[n].ergebnis \subseteq Kanalergebnisse
  BY <1>1 DEF Aufgaben
<1>4. /\ neu \subseteq Vermerke
      /\ \A k \in 1..MaxProtokolle, c \in PruefKanaele, ok \in BOOLEAN :
           [protokoll |-> k, kanal |-> c, ok |-> ok] \in neu <=>
             k = n /\ [kanal |-> c, ok |-> ok] \in defektTask[n].ergebnis
  <2>1. neu \subseteq Vermerke
    BY <1>3 DEF Vermerke, Kanalergebnisse
  <2>2. ASSUME NEW k \in 1..MaxProtokolle, NEW c \in PruefKanaele, NEW ok \in BOOLEAN
        PROVE  [protokoll |-> k, kanal |-> c, ok |-> ok] \in neu <=>
                 k = n /\ [kanal |-> c, ok |-> ok] \in defektTask[n].ergebnis
    <3> DEFINE z == [protokoll |-> k, kanal |-> c, ok |-> ok]
               y == [kanal |-> c, ok |-> ok]
    <3>1. z.protokoll = k /\ z.kanal = c /\ z.ok = ok /\ y.kanal = c /\ y.ok = ok
      OBVIOUS
    <3>2. ASSUME z \in neu PROVE k = n /\ y \in defektTask[n].ergebnis
      <4>1. PICK e \in defektTask[n].ergebnis :
              z = [protokoll |-> n, kanal |-> e.kanal, ok |-> e.ok]
        BY <3>2
      <4>2. k = n /\ e.kanal = c /\ e.ok = ok
        BY <4>1
      <4>3. e = y
        BY <1>3, <4>2 DEF Kanalergebnisse
      <4> QED
        BY <4>2, <4>3
    <3>3. ASSUME k = n, y \in defektTask[n].ergebnis PROVE z \in neu
      BY <3>1, <3>3
    <3> QED
      BY <3>2, <3>3
  <2> QED
    BY <2>1, <2>2
<1> HIDE DEF a, neu
<1>5. /\ defektTask' \in [1..MaxProtokolle -> Aufgaben] /\ defektTask'[n] = a
      /\ \A k \in 1..MaxProtokolle \ {n} : defektTask'[k] = defektTask[k]
  BY <1>1, <1>2 DEF PruefTypen
<1>6. PruefTypen'
  BY <1>1, <1>4, <1>5 DEF PruefTypen, pruefEinstellungen
<1>7. NeuesteDa' /\ Nummeriert(protokolle)'
  BY <1>1 DEF NeuesteDa, Von, Nummeriert
<1>8. NurMaengel'
  BY <1>1, <1>5 DEF NurMaengel
<1>9. VermerktIst'
  <2> SUFFICES ASSUME NEW k \in 1..MaxProtokolle, NEW c \in PruefKanaele, NEW ok \in BOOLEAN
               PROVE  [protokoll |-> k, kanal |-> c, ok |-> ok] \in benachrichtigt' <=>
                        /\ defektTask'[k].stand = "fertig"
                        /\ [kanal |-> c, ok |-> ok] \in defektTask'[k].ergebnis
    BY DEF VermerktIst
  <2>1. [protokoll |-> k, kanal |-> c, ok |-> ok] \in benachrichtigt <=>
          defektTask[k].stand = "fertig" /\ [kanal |-> c, ok |-> ok] \in defektTask[k].ergebnis
    BY DEF VermerktIst
  <2>2. CASE k = n
    BY <1>1, <1>2, <1>4, <1>5, <2>1, <2>2
  <2>3. CASE k # n
    BY <1>1, <1>4, <1>5, <2>1, <2>3
  <2> QED
    BY <2>2, <2>3
<1>10. Versucht(a)
  BY <1>1, <1>2 DEF Versucht
<1>11. \A k \in 1..MaxProtokolle : Versucht(defektTask[k])'
  BY <1>5, <1>10 DEF Versucht
<1>12. Cardinality(protokolle') <= MaxProtokolle
  BY <1>1
<1> QED
  BY <1>6, <1>7, <1>8, <1>9, <1>11, <1>12

\* The incident goes, the protocols stay what they are otherwise.
LEMMA GeloeschtHaelt ==
  ASSUME PruefIInv, EinsatzGeloescht
  PROVE  PruefIInv'
<1> USE DEF PruefIInv
<1> DEFINE f == [p \in protokolle |-> [p EXCEPT !.einsatz = FALSE]]
<1>1. /\ protokolle' = {[p EXCEPT !.einsatz = FALSE] : p \in protokolle}
      /\ UNCHANGED <<benachrichtigt, defektTask, pruefEinstellungen>> /\ einsatzDa' = FALSE
  BY DEF EinsatzGeloescht
<1>2. \A p \in protokolle :
        /\ f[p] \in Protokolle /\ f[p].id = p.id /\ f[p].geraet = p.geraet
        /\ f[p].tag = p.tag /\ f[p].messung = p.messung
  BY DEF PruefTypen, Protokolle
<1>3. /\ f \in [protokolle -> protokolle'] /\ \A q \in protokolle' : \E p \in protokolle : f[p] = q
      /\ \A p \in protokolle : f[p] \in protokolle'
  BY <1>1
<1> HIDE DEF f
<1>4. \A p, q \in protokolle : f[p] = f[q] => p = q
  BY <1>2 DEF Nummeriert
<1>5. IsFiniteSet(protokolle') /\ Cardinality(protokolle') = Cardinality(protokolle)
  BY <1>3, <1>4, GleichViele DEF Nummeriert
<1>6. PruefTypen'
  BY <1>1, <1>2, <1>3 DEF PruefTypen, pruefEinstellungen
<1>7. Nummeriert(protokolle)'
  <2>1. {p.id : p \in protokolle'} = {p.id : p \in protokolle}
    BY <1>2, <1>3
  <2>2. \A p, q \in protokolle' : p.id = q.id => p = q
    BY <1>2, <1>3 DEF Nummeriert
  <2> QED
    BY <1>5, <2>1, <2>2 DEF Nummeriert
<1>8. NeuesteDa'
  <2> SUFFICES ASSUME NEW g \in PruefGeraete, Von(g)' # {}
               PROVE  \E p \in Von(g)' : Neueste(Von(g)', p)
    BY DEF NeuesteDa
  <2>1. \A q \in Von(g)' : \E p \in Von(g) : f[p] = q /\ q.tag = p.tag /\ q.id = p.id
    BY <1>2, <1>3 DEF Von
  <2>2. PICK p \in Von(g) : Neueste(Von(g), p)
    BY <2>1 DEF NeuesteDa
  <2>3. f[p] \in Von(g)' /\ f[p].tag = p.tag /\ f[p].id = p.id
    BY <1>2, <1>3 DEF Von
  <2>4. Neueste(Von(g)', f[p])
    BY <2>1, <2>2, <2>3 DEF Neueste
  <2> QED
    BY <2>3, <2>4
<1>9. NurMaengel'
  <2> SUFFICES ASSUME NEW n \in 1..MaxProtokolle, defektTask[n].stand # "keiner"
               PROVE  \E q \in protokolle' : q.id = n /\ ~AllesOk(q.messung)
    BY <1>1 DEF NurMaengel
  <2>1. PICK p \in protokolle : p.id = n /\ ~AllesOk(p.messung)
    BY DEF NurMaengel
  <2>2. f[p] \in protokolle' /\ f[p].id = n /\ f[p].messung = p.messung
    BY <1>2, <1>3, <2>1
  <2> QED
    BY <2>1, <2>2
<1>10. VermerktIst' /\ \A n \in 1..MaxProtokolle : Versucht(defektTask[n])'
  BY <1>1 DEF VermerktIst, Versucht
<1> QED
  BY <1>5, <1>6, <1>7, <1>8, <1>9, <1>10

LEMMA PruefSchritt == PruefIInv /\ [PruefNext]_pruefVars => PruefIInv'
<1> SUFFICES ASSUME PruefIInv, [PruefNext]_pruefVars
             PROVE  PruefIInv'
  OBVIOUS
<1> USE DEF PruefIInv
<1>1. CASE EinsatzGeloescht
  BY <1>1, GeloeschtHaelt
<1>2. CASE \E g \in AktiveGeraete, t \in Tage, m \in Messungen, i \in BOOLEAN :
             ProtokollSpeichern(g, t, m, i)
  BY <1>2, SpeichernHaelt DEF AktiveGeraete
<1>3. CASE \E n \in 1..MaxProtokolle : DefektMelden(n) \/ MeldungAbbrechen(n)
  BY <1>3, MeldenHaelt, FestschreibenHaelt DEF DefektMelden
<1>4. CASE FormularOeffnen \/ TokenGenerieren \/ PruefModulSchalten
  BY <1>4, PruefBleibt DEF FormularOeffnen, TokenGenerieren, PruefModulSchalten,
     pruefEinstellungen, PruefTypen
<1>5. CASE \E k \in SUBSET PruefKanaele : PruefEinstellungSpeichern(k)
  BY <1>5, PruefBleibt DEF PruefEinstellungSpeichern, PruefTypen
<1>6. CASE UNCHANGED pruefVars
  BY <1>6, PruefBleibt DEF pruefVars, PruefTypen
<1> QED
  BY <1>1, <1>2, <1>3, <1>4, <1>5, <1>6 DEF PruefNext

-----------------------------------------------------------------------------

\* The overview shows the newest protocol, so a leak stays until a later good one.
LEMMA MangelFolgt == PruefIInv => MangelBleibtSichtbar
<1> SUFFICES ASSUME PruefIInv, NEW p \in protokolle, ~AllesOk(p.messung),
                    Anzeige(p.geraet) = "ok"
             PROVE  \E q \in Von(p.geraet) :
                      AllesOk(q.messung) /\ (q.tag > p.tag \/ (q.tag = p.tag /\ q.id > p.id))
  BY DEF MangelBleibtSichtbar
<1> DEFINE g == p.geraet
           q == LetztePruefung(g)
<1>1. p \in Von(g) /\ g \in PruefGeraete
  BY DEF Von, PruefIInv, PruefTypen, Protokolle
<1>2. q \in Von(g) /\ \A s \in Von(g) : s.tag < q.tag \/ (s.tag = q.tag /\ s.id <= q.id)
  BY <1>1 DEF LetztePruefung, PruefIInv, NeuesteDa, Neueste
<1>3. AllesOk(q.messung)
  BY DEF Anzeige
<1> HIDE DEF q
<1>4. q \in protokolle /\ p.id # q.id
  <2>1. q \in protokolle
    BY <1>2 DEF Von
  <2>2. p # q
    BY <1>3
  <2> QED
    BY <2>1, <2>2 DEF PruefIInv, Nummeriert
<1>5. p.id \in Nat /\ q.id \in Nat /\ p.tag \in Nat /\ q.tag \in Nat
  BY <1>4, PruefAssumption DEF PruefIInv, PruefTypen, Protokolle
<1> QED
  BY <1>1, <1>2, <1>3, <1>4, <1>5

LEMMA VermerktFolgt == PruefIInv => JederKanalVermerkt
<1> SUFFICES ASSUME PruefIInv, NEW p \in protokolle
             PROVE  LET t == defektTask[p.id]
                        vermerkt == {b \in benachrichtigt : b.protokoll = p.id}
                    IN  /\ AllesOk(p.messung) => vermerkt = {} /\ t.stand = "keiner"
                        /\ t.stand = "fertig" =>
                             {[kanal |-> b.kanal, ok |-> b.ok] : b \in vermerkt} = t.ergebnis
                        /\ t.stand # "fertig" => vermerkt = {}
                        /\ Cardinality(vermerkt) = Cardinality({b.kanal : b \in vermerkt})
  BY DEF JederKanalVermerkt
<1> DEFINE n == p.id
           t == defektTask[n]
           vermerkt == {b \in benachrichtigt : b.protokoll = n}
<1>1. n \in 1..MaxProtokolle
  <2>1. n \in 1..Cardinality(protokolle) /\ Cardinality(protokolle) \in Nat
    BY FS_CardinalityType DEF PruefIInv, Nummeriert
  <2> QED
    BY <2>1, PruefAssumption DEF PruefIInv
<1> HIDE DEF n
<1>2. t \in Aufgaben /\ Versucht(t)
  BY <1>1 DEF PruefIInv, PruefTypen
<1>3. /\ t.stand # "fertig" => vermerkt = {}
      /\ t.stand = "fertig" =>
           {[kanal |-> b.kanal, ok |-> b.ok] : b \in vermerkt} = t.ergebnis
      /\ \A b \in vermerkt : [kanal |-> b.kanal, ok |-> b.ok] \in t.ergebnis
      /\ \A b \in vermerkt : b \in Vermerke /\ b.protokoll = n
  <2>1. \A b \in vermerkt :
          b \in Vermerke /\ b = [protokoll |-> n, kanal |-> b.kanal, ok |-> b.ok]
    BY DEF PruefIInv, PruefTypen, Vermerke
  <2>2. \A b \in vermerkt : t.stand = "fertig" /\ [kanal |-> b.kanal, ok |-> b.ok] \in t.ergebnis
    BY <1>1, <2>1 DEF PruefIInv, VermerktIst, Vermerke
  <2>3. ASSUME t.stand = "fertig", NEW e \in t.ergebnis
        PROVE  \E b \in vermerkt : [kanal |-> b.kanal, ok |-> b.ok] = e
    <3> DEFINE b == [protokoll |-> n, kanal |-> e.kanal, ok |-> e.ok]
    <3>1. e = [kanal |-> e.kanal, ok |-> e.ok] /\ e.kanal \in PruefKanaele /\ e.ok \in BOOLEAN
      BY <1>2 DEF Aufgaben, Kanalergebnisse
    <3>2. b \in vermerkt
      BY <1>1, <2>3, <3>1 DEF PruefIInv, VermerktIst
    <3>3. [kanal |-> b.kanal, ok |-> b.ok] = e
      BY <3>1
    <3> QED
      BY <3>2, <3>3
  <2> QED
    BY <2>1, <2>2, <2>3
<1>4. AllesOk(p.messung) => vermerkt = {} /\ t.stand = "keiner"
  <2> SUFFICES ASSUME t.stand # "keiner" PROVE ~AllesOk(p.messung)
    BY <1>3
  <2>1. PICK q \in protokolle : q.id = n /\ ~AllesOk(q.messung)
    BY <1>1 DEF PruefIInv, NurMaengel
  <2>2. q = p
    BY <2>1 DEF PruefIInv, Nummeriert, n
  <2> QED
    BY <2>1, <2>2
\* One note per channel.
<1>5. Cardinality(vermerkt) = Cardinality({b.kanal : b \in vermerkt})
  <2> DEFINE f == [b \in vermerkt |-> b.kanal]
             K == {b.kanal : b \in vermerkt}
  <2>1. \A b, c \in vermerkt : b.kanal = c.kanal => b = c
    <3> SUFFICES ASSUME NEW b \in vermerkt, NEW c \in vermerkt, b.kanal = c.kanal
                 PROVE  b = c
      OBVIOUS
    <3>1. t.stand = "fertig"
      BY <1>3
    <3> DEFINE x == [kanal |-> b.kanal, ok |-> b.ok]
               y == [kanal |-> c.kanal, ok |-> c.ok]
    <3>2. x \in t.ergebnis /\ y \in t.ergebnis /\ x.kanal = y.kanal
      BY <1>3
    <3>3. x = y
      BY <1>2, <3>1, <3>2 DEF Versucht
    <3>4. x.ok = b.ok /\ y.ok = c.ok
      OBVIOUS
    <3>5. b.ok = c.ok
      BY <3>3, <3>4
    <3> QED
      BY <1>3, <3>5 DEF Vermerke
  <2>2. K \subseteq PruefKanaele /\ IsFiniteSet(PruefKanaele)
    <3>1. IsFiniteSet(PruefKanaele)
      <4>1. IsFiniteSet({} \cup {"mail"})
        BY FS_EmptySet, FS_AddElement
      <4>2. IsFiniteSet(({} \cup {"mail"}) \cup {"teams"})
        BY <4>1, FS_AddElement
      <4>3. PruefKanaele = ({} \cup {"mail"}) \cup {"teams"}
        BY DEF PruefKanaele
      <4> QED
        BY <4>2, <4>3
    <3> QED
      BY <1>3, <3>1 DEF Vermerke
  <2>3. IsFiniteSet(K)
    BY <2>2, FS_Subset
  <2>4. /\ f \in [vermerkt -> K] /\ \A b, c \in vermerkt : f[b] = f[c] => b = c
        /\ \A k \in K : \E b \in vermerkt : f[b] = k
    BY <2>1
  <2> HIDE DEF f, K, vermerkt
  <2>5. f \in Injection(vermerkt, K)
    BY <2>4, Fun_IsInj
  <2>6. IsFiniteSet(vermerkt)
    BY <2>3, <2>5, FS_Injection
  <2>7. Cardinality(K) = Cardinality(vermerkt)
    BY <2>4, <2>6, GleichViele
  <2> QED
    BY <2>7 DEF K
<1> QED
  BY <1>3, <1>4, <1>5 DEF n

\* The inspection of the apparatus: a leak stays visible until a later good protocol, also
\* when protocols are entered out of order; every channel that was configured is tried
\* and noted, for any number of protocols, changes of the settings and lost tasks.
THEOREM PruefHaelt == PruefSpec => []PruefVersprechen
<1>1. PruefIInv => PruefVersprechen
  <2> SUFFICES ASSUME PruefIInv PROVE PruefVersprechen
    OBVIOUS
  <2>1. PruefTypeOK
    BY DEF PruefIInv, PruefTypen, PruefTypeOK, Nummeriert, Aufgaben
  <2>2. BeideVersucht
    BY DEF PruefIInv, PruefTypen, BeideVersucht, Versucht
  <2> QED
    BY <2>1, <2>2, MangelFolgt, VermerktFolgt DEF PruefVersprechen
<1> QED
  BY PruefAmAnfang, PruefSchritt, <1>1, PTL DEF PruefSpec

-----------------------------------------------------------------------------
(* Trips *)

-----------------------------------------------------------------------------
(* Least and greatest numbers *)

LEMMA KleinsteZahl ==
  ASSUME NEW T \in SUBSET Nat, T # {}
  PROVE  \E x \in T : \A y \in T : x <= y
<1> DEFINE R == OpToRel(<, Nat)
<1>1. IsWellFoundedOn(R, Nat)
  BY NatLessThanWellFounded
<1>2. \A x, y \in Nat : x < y => <<x, y>> \in R
  BY DEF OpToRel
<1> HIDE DEF R
<1>3. \E x \in T : \A y \in T : ~ (<<y, x>> \in R)
  BY <1>1, WFMin
<1>4. PICK x \in T : \A y \in T : ~ (<<y, x>> \in R)
  BY <1>3
<1>5. \A y \in T : ~(y < x)
  BY <1>2, <1>4
<1>6. \A y \in T : y \in Nat /\ x \in Nat
  BY <1>4
<1>7. \A y \in T : x <= y
  BY <1>5, <1>6
<1> QED
  BY <1>4, <1>7

LEMMA GroessteZahl ==
  ASSUME NEW S \in SUBSET Nat, S # {}, NEW n \in Nat, \A s \in S : s <= n
  PROVE  Max(S) \in S /\ \A s \in S : s <= Max(S)
<1> DEFINE T == {n - s : s \in S}
<1>1. \A s \in S : n - s \in Nat
  OBVIOUS
<1>2. T \in SUBSET Nat /\ T # {}
  BY <1>1
<1>3. PICK x \in T : \A y \in T : x <= y
  BY <1>2, KleinsteZahl
<1>4. PICK m \in S : x = n - m
  BY <1>3
<1>5. \A s \in S : m >= s
  BY <1>1, <1>3, <1>4
<1> QED
  BY <1>4, <1>5 DEF Max

-----------------------------------------------------------------------------
(* Trips *)

FahrtenTypen ==
  /\ fUmfang \in FahrtUmfaenge
  /\ fahrt \in [Fahrten -> FahrtZeilen \cup {None}] /\ zaehler \in Staende
  /\ fTx \in [Workers -> FahrtTransaktionen \cup {None}]
  /\ \A w \in Workers : fTx[w] # None => w \in fUmfang.worker

MeldungenTypen ==
  /\ vermerk \in [Fahrten -> SUBSET (Kanaele \X {"gesendet", "fehler"})]
  /\ fTask \subseteq SchadenMeldungen

\* There is a highest reading among those a cancellation may have read.
Bis(b, n) == \A f \in Fahrten : b[f] # None /\ b[f].stand # None => b[f].stand <= n
Beschraenkt ==
  \E n \in Nat : Bis(fahrt, n) /\ \A w \in Workers : fTx[w] # None => Bis(fTx[w].bestand, n)

\* A transaction has a number of its own for its trip, and the trip it is about exists.
TxGueltig ==
  \A w \in Workers : fTx[w] # None =>
    /\ fTx[w].art # "storno" => fTx[w].neu \in Fahrten /\ fahrt[fTx[w].neu] = None
    /\ fTx[w].art # "neu" => fTx[w].fahrt \in Fahrten /\ fahrt[fTx[w].fahrt] # None
    /\ \A v \in Workers \ {w} :
         fTx[v] # None /\ fTx[w].neu # None => fTx[v].neu # fTx[w].neu

\* A transaction has checked its reading against the counter it has read.
TxGeprueft ==
  \A w \in Workers : (fTx[w] # None /\ fTx[w].stand # None) => fTx[w].stand >= fTx[w].zaehler

FahrtenKern ==
  /\ FahrtenTypen /\ Beschraenkt /\ TxGueltig /\ ErsetzteHabenNachfolger
  /\ TxGeprueft
  /\ AktiveBisZumZaehler /\ JederKilometerEinmal

FahrtenIInv == FahrtenKern /\ MeldungenTypen

-----------------------------------------------------------------------------

LEMMA FahrtenAmAnfang == FahrtenInit => FahrtenIInv
<1> SUFFICES ASSUME FahrtenInit PROVE FahrtenIInv
  OBVIOUS
<1> USE DEF FahrtenInit
<1>1. FahrtenTypen /\ MeldungenTypen
  BY FahrtenAssumption DEF FahrtenTypen, MeldungenTypen
<1>2. Beschraenkt
  <2>1. Bis(fahrt, 0) /\ \A w \in Workers : fTx[w] # None => Bis(fTx[w].bestand, 0)
    BY DEF Bis
  <2> QED
    BY <2>1 DEF Beschraenkt
<1>3. TxGueltig /\ ErsetzteHabenNachfolger /\ TxGeprueft
  BY DEF TxGueltig, ErsetzteHabenNachfolger, TxGeprueft
<1>4. AktiveBisZumZaehler
  BY DEF AktiveBisZumZaehler, AktiveStaende
<1>5. JederKilometerEinmal
  <2>1. \A f \in Fahrten : Strecke(f) = {}
    BY DEF Strecke
  <2>2. 1..zaehler = {}
    OBVIOUS
  <2> QED
    BY <2>1, <2>2 DEF JederKilometerEinmal
<1> QED
  BY <1>1, <1>2, <1>3, <1>4, <1>5 DEF FahrtenIInv, FahrtenKern

\* A transaction begins: it has read the trips and the counter.
LEMMA GelesenHaelt ==
  ASSUME FahrtenKern, NEW w \in fUmfang.worker, w \in Workers, fTx[w] = None,
         NEW t \in FahrtTransaktionen, fTx' = [fTx EXCEPT ![w] = t],
         t.bestand = fahrt, t.zaehler = zaehler, t.stand # None => t.stand >= zaehler,
         t.art = "storno" => t.neu = None,
         t.art # "storno" => t.neu \in Fahrten /\ t.neu \notin Vergeben,
         t.art # "neu" => t.fahrt \in Fahrten /\ fahrt[t.fahrt] # None,
         UNCHANGED <<fUmfang, fahrt, zaehler, handgesetzt, storniertWurde, fUeberholt>>
  PROVE  FahrtenKern'
<1> USE DEF FahrtenKern
<1>1. /\ fTx' \in [Workers -> FahrtTransaktionen \cup {None}] /\ fTx'[w] = t /\ t # None
      /\ \A v \in Workers \ {w} : fTx'[v] = fTx[v]
  BY FahrtenAssumption DEF FahrtenTypen
<1>2. FahrtenTypen'
  BY <1>1 DEF FahrtenTypen
<1>3. Beschraenkt'
  <2>1. PICK n \in Nat : Bis(fahrt, n) /\ \A v \in Workers : fTx[v] # None => Bis(fTx[v].bestand, n)
    BY DEF Beschraenkt
  <2>2. \A v \in Workers : fTx'[v] # None => Bis(fTx'[v].bestand, n)
    BY <1>1, <2>1
  <2> QED
    BY <2>1, <2>2 DEF Beschraenkt, Bis
<1>4. TxGueltig'
  <2>1. t.art # "storno" => fahrt[t.neu] = None
    BY DEF Vergeben
  <2>2. \A v \in Workers : fTx[v] # None /\ t.neu # None => fTx[v].neu # t.neu
    <3> SUFFICES ASSUME NEW v \in Workers, fTx[v] # None, t.neu # None
                 PROVE  fTx[v].neu # t.neu
      OBVIOUS
    <3>1. fTx[v].neu \in Vergeben
      BY DEF Vergeben
    <3> QED
      BY <3>1
  <2> SUFFICES ASSUME NEW u \in Workers, fTx'[u] # None
               PROVE  /\ fTx'[u].art # "storno" =>
                           fTx'[u].neu \in Fahrten /\ fahrt[fTx'[u].neu] = None
                      /\ fTx'[u].art # "neu" =>
                           fTx'[u].fahrt \in Fahrten /\ fahrt[fTx'[u].fahrt] # None
                      /\ \A v \in Workers \ {u} :
                           fTx'[v] # None /\ fTx'[u].neu # None => fTx'[v].neu # fTx'[u].neu
    BY DEF TxGueltig
  <2>3. CASE u = w
    BY <1>1, <2>1, <2>2, <2>3
  <2>4. CASE u # w
    BY <1>1, <2>2, <2>4 DEF TxGueltig
  <2> QED
    BY <2>3, <2>4
<1>5. ErsetzteHabenNachfolger' /\ AktiveBisZumZaehler'
  BY DEF ErsetzteHabenNachfolger, AktiveBisZumZaehler, AktiveStaende
<1>6. JederKilometerEinmal'
  BY DEF JederKilometerEinmal, Strecke
<1>7. TxGeprueft'
  BY <1>1 DEF TxGeprueft
<1> QED
  BY <1>2, <1>3, <1>4, <1>5, <1>6, <1>7

\* A transaction ends without a word, or nothing is open: what is left stays as it was.
LEMMA VerworfenHaelt ==
  ASSUME FahrtenKern, NEW W, fTx' = [w \in Workers |-> IF w \in W THEN None ELSE fTx[w]],
         UNCHANGED <<fUmfang, fahrt, zaehler, handgesetzt, storniertWurde, fUeberholt>>
  PROVE  FahrtenKern'
<1> USE DEF FahrtenKern
<1>1. /\ fTx' \in [Workers -> FahrtTransaktionen \cup {None}]
      /\ \A v \in Workers : fTx'[v] # None => fTx'[v] = fTx[v]
  BY DEF FahrtenTypen
<1>2. FahrtenTypen' /\ Beschraenkt'
  BY <1>1 DEF FahrtenTypen, Beschraenkt, Bis
<1>3. TxGueltig'
  BY <1>1 DEF TxGueltig
<1>4. ErsetzteHabenNachfolger' /\ AktiveBisZumZaehler'
  BY DEF ErsetzteHabenNachfolger, AktiveBisZumZaehler, AktiveStaende
<1>5. JederKilometerEinmal'
  BY DEF JederKilometerEinmal, Strecke
<1>6. TxGeprueft'
  BY <1>1 DEF TxGeprueft
<1> QED
  BY <1>2, <1>3, <1>4, <1>5, <1>6

\* The counter is set by hand while no transaction of this worker is open.
LEMMA VonHandHaelt ==
  ASSUME FahrtenKern, NEW w \in Workers, NEW wert \in fUmfang.staende \ {None},
         ZaehlerVonHand(w, wert)
  PROVE  FahrtenKern'
<1> USE DEF FahrtenKern
<1>1. /\ UNCHANGED <<fUmfang, fahrt, fTx>> /\ zaehler' = wert /\ handgesetzt' = TRUE
      /\ w \in fUmfang.worker /\ fTx[w] = None
  BY DEF ZaehlerVonHand, FahrtFrei
<1>2. FahrtenTypen'
  BY <1>1, FahrtenAssumption DEF FahrtenTypen
<1>3. Beschraenkt' /\ TxGueltig' /\ ErsetzteHabenNachfolger'
  BY <1>1 DEF Beschraenkt, Bis, TxGueltig, ErsetzteHabenNachfolger
<1>4. AktiveBisZumZaehler' /\ JederKilometerEinmal'
  BY <1>1 DEF AktiveBisZumZaehler, JederKilometerEinmal
<1>5. TxGeprueft'
  BY <1>1 DEF TxGeprueft
<1> QED
  BY <1>2, <1>3, <1>4, <1>5

LEMMA NeuIstZeile ==
  ASSUME NEW t \in FahrtTransaktionen
  PROVE  Neu(t) \in FahrtZeilen
<1>1. /\ t.stand \in Staende \cup {None} /\ t.zaehler \in Staende
      /\ t.schaden \in BOOLEAN /\ t.fahrt \in Fahrten \cup {None}
  BY DEF FahrtTransaktionen
<1> DEFINE d == IF t.stand = None THEN 0 ELSE t.stand - t.zaehler
<1>2. d \in Int
  <2>1. CASE t.stand = None
    BY <2>1
  <2>2. CASE t.stand # None
    <3>1. t.stand \in Nat /\ t.zaehler \in Nat
      BY <1>1, <2>2, FahrtenAssumption
    <3> QED
      BY <2>2, <3>1
  <2> QED
    BY <2>1, <2>2
<1> HIDE DEF d
<1>3. Neu(t) = [status |-> "aktiv", stand |-> t.stand, schaden |-> t.schaden, delta |-> d,
                original |-> t.fahrt, ersatz |-> None]
  BY DEF Neu, d
<1> QED
  BY <1>1, <1>2, <1>3 DEF FahrtZeilen

\* A trip is entered: f is the trip it corrects, or None.
LEMMA EintragHaelt ==
  ASSUME FahrtenKern, NEW w \in Workers, NEW t, t = fTx[w], t # None, t.art # "storno",
         fahrt' \in [Fahrten -> FahrtZeilen \cup {None}], fahrt'[t.neu] = Neu(t),
         \A f \in Fahrten \ {t.neu} :
           /\ fahrt[f] = None => fahrt'[f] = None
           /\ fahrt[f] # None =>
                /\ fahrt'[f] # None /\ fahrt'[f].stand = fahrt[f].stand
                /\ fahrt'[f].delta = fahrt[f].delta /\ fahrt'[f].original = fahrt[f].original
                /\ fahrt'[f].status = "aktiv" => fahrt[f].status = "aktiv"
                /\ fahrt'[f].status = "ersetzt" =>
                     fahrt'[f] = fahrt[f] \/ (f = t.fahrt /\ fahrt'[f].ersatz = t.neu),
         zaehler' = IF t.stand = None THEN zaehler ELSE ZaehlerNach(t, t.stand),
         fTx' = [fTx EXCEPT ![w] = None], fUeberholt' = (fUeberholt \/ ~FahrtAktuell(t)),
         UNCHANGED <<fUmfang, handgesetzt, storniertWurde>>
  PROVE  FahrtenKern'
<1> USE DEF FahrtenKern
<1> DEFINE r == Neu(t)
<1>1. /\ t \in FahrtTransaktionen /\ t.neu \in Fahrten /\ fahrt[t.neu] = None
      /\ t.stand \in Staende \cup {None} /\ t.zaehler \in Staende
  BY DEF FahrtenTypen, TxGueltig, FahrtTransaktionen
<1>2. /\ r.status = "aktiv" /\ r.stand = t.stand /\ r.original = t.fahrt
      /\ t.stand # None => r.delta = t.stand - t.zaehler
      /\ fahrt'[t.neu] = r
  BY DEF Neu
<1>3. r \in FahrtZeilen /\ r # None
  BY <1>1, NeuIstZeile, FahrtenAssumption
<1> HIDE DEF r
<1>4. /\ fTx' \in [Workers -> FahrtTransaktionen \cup {None}] /\ fTx'[w] = None
      /\ \A v \in Workers \ {w} : fTx'[v] = fTx[v]
  BY DEF FahrtenTypen
<1>5. FahrtenTypen'
  <2>1. zaehler' \in Staende
    BY <1>1 DEF FahrtenTypen, ZaehlerNach
  <2> QED
    BY <1>4, <2>1 DEF FahrtenTypen
<1>6. Beschraenkt'
  <2>1. PICK n \in Nat : Bis(fahrt, n) /\ \A v \in Workers : fTx[v] # None => Bis(fTx[v].bestand, n)
    BY DEF Beschraenkt
  <2>2. \A f \in Fahrten : fahrt[f] # None /\ fahrt[f].stand # None => fahrt[f].stand \in Nat
    BY FahrtenAssumption DEF FahrtenTypen, FahrtZeilen
  <2>3. \A v \in Workers, f \in Fahrten :
          (fTx[v] # None /\ fTx[v].bestand[f] # None /\ fTx[v].bestand[f].stand # None) =>
            fTx[v].bestand[f].stand \in Nat
    <3> SUFFICES ASSUME NEW v \in Workers, NEW f \in Fahrten, fTx[v] # None,
                        fTx[v].bestand[f] # None, fTx[v].bestand[f].stand # None
                 PROVE  fTx[v].bestand[f].stand \in Nat
      OBVIOUS
    <3>1. fTx[v].bestand \in [Fahrten -> FahrtZeilen \cup {None}]
      BY DEF FahrtenTypen, FahrtTransaktionen
    <3>2. fTx[v].bestand[f] \in FahrtZeilen
      BY <3>1
    <3> QED
      BY <3>2, FahrtenAssumption DEF FahrtZeilen
  <2> DEFINE m == IF t.stand = None THEN n ELSE n + t.stand
  <2>4. t.stand # None => t.stand \in Nat
    BY <1>1, FahrtenAssumption
  <2>5. /\ m \in Nat /\ n <= m
        /\ t.stand # None => t.stand <= m
    BY <2>4
  <2> HIDE DEF m
  <2>6. Bis(fahrt', m)
    BY <1>2, <2>1, <2>2, <2>4, <2>5 DEF Bis
  <2>7. \A v \in Workers : fTx'[v] # None => Bis(fTx'[v].bestand, m)
    BY <1>4, <2>1, <2>3, <2>5 DEF Bis
  <2> QED
    BY <2>5, <2>6, <2>7 DEF Beschraenkt
<1>7. TxGueltig'
  <2> SUFFICES ASSUME NEW u \in Workers, fTx'[u] # None
               PROVE  /\ fTx'[u].art # "storno" =>
                           fTx'[u].neu \in Fahrten /\ fahrt'[fTx'[u].neu] = None
                      /\ fTx'[u].art # "neu" =>
                           fTx'[u].fahrt \in Fahrten /\ fahrt'[fTx'[u].fahrt] # None
                      /\ \A v \in Workers \ {u} :
                           fTx'[v] # None /\ fTx'[u].neu # None => fTx'[v].neu # fTx'[u].neu
    BY DEF TxGueltig
  <2>1. u # w /\ fTx'[u] = fTx[u] /\ fTx[u] # None
    BY <1>4
  <2>2. ASSUME fTx[u].art # "storno"
        PROVE  fTx[u].neu \in Fahrten /\ fahrt'[fTx[u].neu] = None
    <3>1. fTx[u].neu \in Fahrten /\ fahrt[fTx[u].neu] = None
      BY <2>1, <2>2 DEF TxGueltig
    <3>2. fTx[u].neu # t.neu
      BY <1>1, <2>1, FahrtenAssumption DEF TxGueltig
    <3> QED
      BY <3>1, <3>2
  <2>3. ASSUME fTx[u].art # "neu"
        PROVE  fTx[u].fahrt \in Fahrten /\ fahrt'[fTx[u].fahrt] # None
    <3>1. fTx[u].fahrt \in Fahrten /\ fahrt[fTx[u].fahrt] # None
      BY <2>1, <2>3 DEF TxGueltig
    <3> QED
      BY <1>1, <3>1
  <2>4. \A v \in Workers \ {u} :
          fTx'[v] # None /\ fTx[u].neu # None => fTx'[v].neu # fTx[u].neu
    BY <1>4, <2>1 DEF TxGueltig
  <2> QED
    BY <2>1, <2>2, <2>3, <2>4
<1>8. ErsetzteHabenNachfolger'
  <2> SUFFICES ASSUME NEW f \in Fahrten, fahrt'[f] # None, fahrt'[f].status = "ersetzt"
               PROVE  /\ fahrt'[f].ersatz # None /\ fahrt'[fahrt'[f].ersatz] # None
                      /\ fahrt'[fahrt'[f].ersatz].original = f
    BY DEF ErsetzteHabenNachfolger
  <2>1. f # t.neu /\ fahrt[f] # None
    BY <1>2
  <2>2. CASE fahrt'[f] = fahrt[f]
    <3> DEFINE e == fahrt[f].ersatz
    <3>1. e # None /\ fahrt[e] # None /\ fahrt[e].original = f
      BY <2>1, <2>2 DEF ErsetzteHabenNachfolger
    <3>2. e \in Fahrten
      BY <2>1, <3>1 DEF FahrtenTypen, FahrtZeilen
    <3>3. e # t.neu
      BY <1>1, <3>1
    <3> QED
      BY <2>2, <3>1, <3>2, <3>3
  <2>3. CASE f = t.fahrt /\ fahrt'[f].ersatz = t.neu
    BY <1>1, <1>2, <1>3, <2>3, FahrtenAssumption
  <2> QED
    BY <2>1, <2>2, <2>3
<1>9. ~fUeberholt' => ~fUeberholt /\ FahrtAktuell(t)
  OBVIOUS
<1>10. TxGeprueft'
  BY <1>4 DEF TxGeprueft
<1>11. ASSUME ~fUeberholt'
       PROVE  /\ t.zaehler = zaehler /\ zaehler \in Nat
              /\ t.stand = None => zaehler' = zaehler
              /\ t.stand # None => t.stand \in Nat /\ t.stand >= zaehler /\ zaehler' = t.stand
  BY <1>1, <1>9, <1>11, FahrtenAssumption DEF TxGeprueft, FahrtAktuell, ZaehlerNach, FahrtenTypen
<1>12. AktiveBisZumZaehler'
  <2> SUFFICES ASSUME ~fUeberholt', ~handgesetzt, NEW s \in AktiveStaende(fahrt')
               PROVE  s <= zaehler'
    BY DEF AktiveBisZumZaehler
  <2>1. PICK f \in Fahrten : /\ fahrt'[f] # None /\ fahrt'[f].status = "aktiv"
                             /\ s = fahrt'[f].stand /\ s # None
    BY DEF AktiveStaende
  <2>2. CASE f = t.neu
    BY <1>2, <1>11, <2>1, <2>2
  <2>3. CASE f # t.neu
    <3>1. s \in AktiveStaende(fahrt)
      BY <2>1, <2>3 DEF AktiveStaende
    <3>2. s <= zaehler /\ s \in Nat
      BY <2>1, <2>3, <3>1, <1>9, FahrtenAssumption DEF AktiveBisZumZaehler, FahrtenTypen, FahrtZeilen
    <3> QED
      BY <1>11, <3>2
  <2> QED
    BY <2>2, <2>3
<1>13. JederKilometerEinmal'
  <2> SUFFICES ASSUME ~fUeberholt', ~handgesetzt, ~storniertWurde
               PROVE  /\ 1..zaehler' = UNION {Strecke(f)' : f \in Fahrten}
                      /\ \A f, g \in Fahrten : f # g => Strecke(f)' \cap Strecke(g)' = {}
    BY DEF JederKilometerEinmal
  <2>1. /\ 1..zaehler = UNION {Strecke(f) : f \in Fahrten}
        /\ \A f, g \in Fahrten : f # g => Strecke(f) \cap Strecke(g) = {}
    BY <1>9 DEF JederKilometerEinmal
  <2>2. \A f \in Fahrten \ {t.neu} : Strecke(f)' = Strecke(f)
    BY DEF Strecke
  <2>3. Strecke(t.neu) = {}
    BY <1>1 DEF Strecke
  <2>4. /\ Strecke(t.neu)' = (zaehler + 1)..zaehler'
        /\ zaehler \in Nat /\ zaehler' \in Nat /\ zaehler <= zaehler'
    <3>1. CASE t.stand = None
      BY <1>2, <1>11, <3>1 DEF Strecke
    <3>2. CASE t.stand # None
      BY <1>2, <1>3, <1>11, <3>2 DEF Strecke
    <3> QED
      BY <3>1, <3>2
  <2>5. 1..zaehler' = (1..zaehler) \cup Strecke(t.neu)'
    BY <2>4
  <2>6. (1..zaehler) \cap Strecke(t.neu)' = {}
    BY <2>4
  <2>7. \A f \in Fahrten : Strecke(f) \subseteq 1..zaehler
    BY <2>1
  <2>8. UNION {Strecke(f)' : f \in Fahrten} = (UNION {Strecke(f) : f \in Fahrten}) \cup Strecke(t.neu)'
    BY <1>1, <2>2, <2>3
  <2> QED
    BY <2>1, <2>2, <2>3, <2>5, <2>6, <2>7, <2>8
<1> QED
  BY <1>5, <1>6, <1>7, <1>8, <1>10, <1>12, <1>13

LEMMA NeuOderKorrekturHaelt ==
  ASSUME FahrtenKern, NEW w \in Workers,
         FahrtFestgeschrieben(w) \/ KorrekturFestgeschrieben(w)
  PROVE  FahrtenKern'
<1> USE DEF FahrtenKern
<1> DEFINE t == fTx[w]
<1>1. /\ t # None /\ t.art # "storno" /\ t.neu \in Fahrten /\ fahrt[t.neu] = None
      /\ t \in FahrtTransaktionen
      /\ fTx' = [fTx EXCEPT ![w] = None] /\ UNCHANGED <<fUmfang, handgesetzt, storniertWurde>>
      /\ zaehler' = IF t.stand = None THEN zaehler ELSE ZaehlerNach(t, t.stand)
      /\ fUeberholt' = (fUeberholt \/ ~FahrtAktuell(t))
  BY DEF UeberholungVermerkt, FahrtFestgeschrieben, KorrekturFestgeschrieben, TxGueltig, FahrtenTypen
<1>2. Neu(t) \in FahrtZeilen
  BY <1>1, NeuIstZeile
<1>3. CASE FahrtFestgeschrieben(w)
  <2>1. fahrt' = [fahrt EXCEPT ![t.neu] = Neu(t)]
    BY <1>3 DEF FahrtFestgeschrieben
  <2>2. /\ fahrt' \in [Fahrten -> FahrtZeilen \cup {None}] /\ fahrt'[t.neu] = Neu(t)
        /\ \A f \in Fahrten \ {t.neu} : fahrt'[f] = fahrt[f]
    BY <1>1, <1>2, <2>1 DEF FahrtenTypen
  <2> QED
    BY <1>1, <2>2, EintragHaelt
<1>4. CASE KorrekturFestgeschrieben(w)
  <2> DEFINE f == t.fahrt
             u == IF t.bestand[f].status = "ersetzt" THEN fahrt[f].status ELSE "ersetzt"
             z == [[fahrt[f] EXCEPT !.status = u] EXCEPT !.ersatz = t.neu]
  <2>1. f \in Fahrten /\ fahrt[f] # None /\ f # t.neu /\ fahrt[f] \in FahrtZeilen
    BY <1>1, <1>4 DEF KorrekturFestgeschrieben, TxGueltig, FahrtenTypen
  <2>2. u \in {"aktiv", "storniert", "ersetzt"} /\ u \in {fahrt[f].status, "ersetzt"}
    BY <2>1 DEF FahrtZeilen
  <2>3. fahrt' = [fahrt EXCEPT ![t.neu] = Neu(t), ![f] = z]
    BY <1>1, <1>4, <2>1 DEF KorrekturFestgeschrieben, NeuZuOriginal, FahrtenTypen
  <2> HIDE DEF u
  <2>4. /\ z \in FahrtZeilen /\ z.status = u /\ z.ersatz = t.neu /\ z.stand = fahrt[f].stand
        /\ z.delta = fahrt[f].delta /\ z.original = fahrt[f].original
    BY <1>1, <2>1, <2>2 DEF FahrtZeilen
  <2> HIDE DEF z, f
  <2>5. /\ fahrt' \in [Fahrten -> FahrtZeilen \cup {None}]
        /\ fahrt'[t.neu] = Neu(t) /\ fahrt'[f] = z
        /\ \A g \in Fahrten \ {t.neu, f} : fahrt'[g] = fahrt[g]
    BY <1>1, <1>2, <2>1, <2>3, <2>4 DEF FahrtenTypen
  <2>6. z # None /\ (u = "aktiv" => fahrt[f].status = "aktiv")
    BY <2>2, <2>4, FahrtenAssumption
  <2>7. \A g \in Fahrten \ {t.neu} :
           /\ fahrt[g] = None => fahrt'[g] = None
           /\ fahrt[g] # None =>
                /\ fahrt'[g] # None /\ fahrt'[g].stand = fahrt[g].stand
                /\ fahrt'[g].delta = fahrt[g].delta /\ fahrt'[g].original = fahrt[g].original
                /\ fahrt'[g].status = "aktiv" => fahrt[g].status = "aktiv"
                /\ fahrt'[g].status = "ersetzt" =>
                     fahrt'[g] = fahrt[g] \/ (g = t.fahrt /\ fahrt'[g].ersatz = t.neu)
    <3> SUFFICES ASSUME NEW g \in Fahrten \ {t.neu}
             PROVE  /\ fahrt[g] = None => fahrt'[g] = None
                    /\ fahrt[g] # None =>
                         /\ fahrt'[g] # None /\ fahrt'[g].stand = fahrt[g].stand
                         /\ fahrt'[g].delta = fahrt[g].delta
                         /\ fahrt'[g].original = fahrt[g].original
                         /\ fahrt'[g].status = "aktiv" => fahrt[g].status = "aktiv"
                         /\ fahrt'[g].status = "ersetzt" =>
                              fahrt'[g] = fahrt[g] \/ (g = t.fahrt /\ fahrt'[g].ersatz = t.neu)
      OBVIOUS
    <3>1. CASE g = f
      BY <2>1, <2>4, <2>5, <2>6, <3>1 DEF f
    <3>2. CASE g # f
      BY <2>5, <3>2
    <3> QED
      BY <3>1, <3>2
  <2> QED
    BY <1>1, <2>5, <2>7, EintragHaelt
<1> QED
  BY <1>3, <1>4

\* What a cancellation resets the counter to is a reading, and no active trip lies above.
LEMMA HoechsterIst ==
  ASSUME NEW t \in FahrtTransaktionen, NEW n \in Nat, Bis(t.bestand, n)
  PROVE  /\ HoechsterAktiver(t) \in Staende
         /\ \A s \in AktiveStaende(t.bestand) : s <= HoechsterAktiver(t)
<1> DEFINE S == AktiveStaende(t.bestand)
<1>1. \A f \in Fahrten : t.bestand[f] # None => t.bestand[f] \in FahrtZeilen
  BY DEF FahrtTransaktionen
<1>2. \A s \in S : \E f \in Fahrten : t.bestand[f] # None /\ s = t.bestand[f].stand /\ s # None
  BY DEF AktiveStaende
<1>3. \A s \in S : s \in Staende /\ s <= n
  BY <1>1, <1>2 DEF Bis, FahrtZeilen
<1>4. S \in SUBSET Nat
  BY <1>3, FahrtenAssumption
<1>5. t.zaehler \in Staende
  BY DEF FahrtTransaktionen
<1>6. HoechsterAktiver(t) = IF S = {} THEN t.zaehler ELSE Max(S)
  BY DEF HoechsterAktiver
<1> HIDE DEF S
<1>7. CASE S = {}
  BY <1>5, <1>6, <1>7 DEF S
<1>8. CASE S # {}
  <2>1. Max(S) \in S /\ \A s \in S : s <= Max(S)
    BY <1>3, <1>4, <1>8, GroessteZahl
  <2> QED
    BY <1>3, <1>6, <1>8, <2>1 DEF S
<1> QED
  BY <1>7, <1>8

LEMMA StornoHaelt ==
  ASSUME FahrtenKern, NEW w \in Workers, StornoFestgeschrieben(w)
  PROVE  FahrtenKern'
<1> USE DEF FahrtenKern
<1> DEFINE t == fTx[w]
           f == t.fahrt
           z == [fahrt[f] EXCEPT !.status = "storniert"]
<1>1. /\ t # None /\ t.art = "storno" /\ fahrt' = [fahrt EXCEPT ![f] = z]
      /\ zaehler' = ZaehlerNach(t, HoechsterAktiver(t)) /\ storniertWurde' = TRUE
      /\ fTx' = [fTx EXCEPT ![w] = None] /\ UNCHANGED <<fUmfang, handgesetzt>>
  BY DEF StornoFestgeschrieben
<1>2. t \in FahrtTransaktionen /\ f \in Fahrten /\ fahrt[f] # None /\ fahrt[f] \in FahrtZeilen
  BY <1>1 DEF FahrtenTypen, TxGueltig
<1>3. /\ z \in FahrtZeilen /\ z # None /\ z.status = "storniert" /\ z.stand = fahrt[f].stand
      /\ z.original = fahrt[f].original
  BY <1>2, FahrtenAssumption DEF FahrtZeilen
<1> HIDE DEF z
<1>4. /\ fahrt' \in [Fahrten -> FahrtZeilen \cup {None}] /\ fahrt'[f] = z
      /\ \A g \in Fahrten \ {f} : fahrt'[g] = fahrt[g]
  BY <1>1, <1>2, <1>3 DEF FahrtenTypen
<1>5. /\ fTx' \in [Workers -> FahrtTransaktionen \cup {None}] /\ fTx'[w] = None
      /\ \A v \in Workers \ {w} : fTx'[v] = fTx[v]
  BY <1>1 DEF FahrtenTypen
<1>6. PICK n \in Nat : Bis(fahrt, n) /\ \A v \in Workers : fTx[v] # None => Bis(fTx[v].bestand, n)
  BY DEF Beschraenkt
<1>7. /\ HoechsterAktiver(t) \in Staende
      /\ \A s \in AktiveStaende(t.bestand) : s <= HoechsterAktiver(t)
  BY <1>1, <1>2, <1>6, HoechsterIst
<1> HIDE DEF f
<1>8. FahrtenTypen'
  <2>1. zaehler' \in Staende
    BY <1>1, <1>7 DEF FahrtenTypen, ZaehlerNach
  <2> QED
    BY <1>1, <1>4, <1>5, <2>1 DEF FahrtenTypen
<1>9. Beschraenkt'
  <2>1. Bis(fahrt', n)
    BY <1>2, <1>3, <1>4, <1>6 DEF Bis
  <2>2. \A v \in Workers : fTx'[v] # None => Bis(fTx'[v].bestand, n)
    BY <1>5, <1>6
  <2> QED
    BY <2>1, <2>2 DEF Beschraenkt
<1>10. TxGueltig'
  <2>1. \A g \in Fahrten : fahrt'[g] = None <=> fahrt[g] = None
    BY <1>2, <1>3, <1>4
  <2>2. \A v \in Workers : fTx'[v] # None => fTx'[v] = fTx[v]
    BY <1>5
  <2> QED
    BY <2>1, <2>2 DEF TxGueltig
<1>11. ErsetzteHabenNachfolger'
  <2> SUFFICES ASSUME NEW g \in Fahrten, fahrt'[g] # None, fahrt'[g].status = "ersetzt"
               PROVE  /\ fahrt'[g].ersatz # None /\ fahrt'[fahrt'[g].ersatz] # None
                      /\ fahrt'[fahrt'[g].ersatz].original = g
    BY DEF ErsetzteHabenNachfolger
  <2> DEFINE e == fahrt[g].ersatz
  <2>1. g # f /\ fahrt'[g] = fahrt[g]
    BY <1>3, <1>4
  <2>2. e # None /\ fahrt[e] # None /\ fahrt[e].original = g
    BY <2>1 DEF ErsetzteHabenNachfolger
  <2>3. e \in Fahrten
    BY <2>1, <2>2 DEF FahrtenTypen, FahrtZeilen
  <2>4. fahrt'[e] # None /\ fahrt'[e].original = fahrt[e].original
    BY <1>3, <1>4, <2>2, <2>3
  <2> QED
    BY <2>1, <2>2, <2>4
<1>12. ~fUeberholt' => ~fUeberholt /\ FahrtAktuell(t)
  BY DEF StornoFestgeschrieben, UeberholungVermerkt
<1>13. TxGeprueft'
  BY <1>5 DEF TxGeprueft
<1>14. AktiveBisZumZaehler'
  <2> SUFFICES ASSUME ~fUeberholt', NEW s \in AktiveStaende(fahrt') PROVE s <= zaehler'
    BY DEF AktiveBisZumZaehler
  <2>1. t.bestand = fahrt /\ t.zaehler = zaehler
    BY <1>12 DEF FahrtAktuell
  <2>2. s \in AktiveStaende(fahrt)
    BY <1>3, <1>4 DEF AktiveStaende
  <2>3. zaehler' = HoechsterAktiver(t)
    BY <1>1, <2>1 DEF ZaehlerNach
  <2> QED
    BY <1>7, <2>1, <2>2, <2>3
<1>15. JederKilometerEinmal'
  BY <1>1 DEF JederKilometerEinmal
<1> QED
  BY <1>8, <1>9, <1>10, <1>11, <1>13, <1>14, <1>15

\* The reports and the marks of the damages.
LEMMA MeldungenHalten ==
  ASSUME FahrtenKern, MeldungenTypen, FahrtenNext
  PROVE  MeldungenTypen'
<1> USE DEF MeldungenTypen
<1>1. ASSUME NEW w \in Workers, NEW f \in Fahrten
      PROVE  [worker |-> w, fahrt |-> f, rest |-> Kanaele, fertig |-> {}] \in SchadenMeldungen
  BY DEF SchadenMeldungen
<1>2. ASSUME NEW w \in Workers, FahrtFestgeschrieben(w)
      PROVE  MeldungenTypen'
  <2>1. fTx[w].neu \in Fahrten
    BY <1>2 DEF FahrtFestgeschrieben, FahrtenKern, TxGueltig
  <2> QED
    BY <1>1, <1>2, <2>1 DEF FahrtFestgeschrieben
<1>3. ASSUME NEW w \in Workers, NEW f \in Fahrten, SchadenRetry(w, f)
      PROVE  MeldungenTypen'
  BY <1>1, <1>3 DEF SchadenRetry
<1>4. ASSUME NEW f \in Fahrten, SchadenMelden(f)
      PROVE  MeldungenTypen'
  <2>1. PICK t \in fTask : t.fahrt = f /\ (MailGesendet(t) \/ TeamsUndFestschreiben(t))
    BY <1>4 DEF SchadenMelden
  <2>2. t \in SchadenMeldungen
    OBVIOUS
  <2>3. CASE MailGesendet(t)
    <3>1. \A ok \in {"gesendet", "fehler"} :
            [t EXCEPT !.rest = @ \ {"mail"}, !.fertig = @ \cup {<<"mail", ok>>}]
              \in SchadenMeldungen
      <4> SUFFICES ASSUME NEW ok \in {"gesendet", "fehler"}
                   PROVE  [t EXCEPT !.rest = @ \ {"mail"}, !.fertig = @ \cup {<<"mail", ok>>}]
                            \in SchadenMeldungen
        OBVIOUS
      <4> DEFINE p == <<"mail", ok>>
      <4>1. p \in Kanaele \X {"gesendet", "fehler"}
        BY DEF Kanaele
      <4> HIDE DEF p
      <4> DEFINE a == t.fertig \cup {p}
                 b == t.rest \ {"mail"}
      <4>2. a \in SUBSET (Kanaele \X {"gesendet", "fehler"}) /\ b \in SUBSET Kanaele
        BY <2>2, <4>1 DEF SchadenMeldungen
      <4> HIDE DEF a, b
      <4>3. [t EXCEPT !.rest = b, !.fertig = a] \in SchadenMeldungen
        BY <2>2, <4>2 DEF SchadenMeldungen
      <4> QED
        BY <4>3 DEF a, b, p
    <3> QED
      BY <2>3, <3>1 DEF MailGesendet, FehlerVermerkt
  <2>4. CASE TeamsUndFestschreiben(t)
    <3>1. PICK ok \in {"gesendet", "fehler"} :
            vermerk' = [vermerk EXCEPT ![t.fahrt] = @ \cup t.fertig \cup {<<"teams", ok>>}]
      BY <2>4 DEF TeamsUndFestschreiben
    <3> DEFINE p == <<"teams", ok>>
    <3>2. p \in Kanaele \X {"gesendet", "fehler"}
      BY DEF Kanaele
    <3>3. t.fertig \subseteq Kanaele \X {"gesendet", "fehler"}
      BY <2>2 DEF SchadenMeldungen
    <3> HIDE DEF p
    <3>4. vermerk' \in [Fahrten -> SUBSET (Kanaele \X {"gesendet", "fehler"})]
      <4>1. vermerk' = [vermerk EXCEPT ![f] = vermerk[f] \cup t.fertig \cup {p}]
        BY <2>1, <3>1 DEF p
      <4> QED
        BY <3>2, <3>3, <4>1
    <3> QED
      BY <2>4, <3>4 DEF TeamsUndFestschreiben
  <2> QED
    BY <2>1, <2>3, <2>4
<1>5. ASSUME NEW W \in SUBSET Workers, FahrtNeustart(W)
      PROVE  MeldungenTypen'
  BY <1>5 DEF FahrtNeustart
<1>6. ASSUME UNCHANGED <<vermerk, fTask>>
      PROVE  MeldungenTypen'
  BY <1>6
<1>7. ASSUME NEW w \in Workers, NEW neu \in Fahrten, NEW stand \in fUmfang.staende,
             NEW b \in BOOLEAN, NEW s \in BOOLEAN,
             \/ Erfassen(w, neu, stand, b, s)
             \/ \E f \in Fahrten : Korrigieren(w, f, neu, stand, b, s)
      PROVE  MeldungenTypen'
  BY <1>6, <1>7 DEF Erfassen, Korrigieren, NurGelesen
<1>8. ASSUME NEW w \in Workers, NEW f \in Fahrten, Stornieren(w, f)
      PROVE  MeldungenTypen'
  BY <1>6, <1>8 DEF Stornieren, NurGelesen
<1>9. ASSUME NEW w \in Workers, KorrekturFestgeschrieben(w) \/ StornoFestgeschrieben(w)
      PROVE  MeldungenTypen'
  BY <1>6, <1>9 DEF KorrekturFestgeschrieben, StornoFestgeschrieben
<1>10. ASSUME NEW w \in Workers, NEW wert \in fUmfang.staende \ {None}, ZaehlerVonHand(w, wert)
       PROVE  MeldungenTypen'
  BY <1>6, <1>10 DEF ZaehlerVonHand
<1> QED
  BY <1>2, <1>3, <1>4, <1>5, <1>7, <1>8, <1>9, <1>10 DEF FahrtenNext, FahrtFestschreiben

\* A request reads the trips and checks the reading.
LEMMA AnfrageHaelt ==
  ASSUME FahrtenKern, NEW w \in Workers,
         NEW art \in {"neu", "korrektur", "storno"}, NEW f \in Fahrten \cup {None},
         NEW neu \in Fahrten \cup {None}, NEW stand \in Staende \cup {None},
         NEW schaden \in BOOLEAN, FahrtFrei(w), Gelesen(w, art, f, neu, stand, schaden),
         stand # None => stand >= zaehler, art = "storno" => neu = None,
         art # "storno" => NeueFahrt(neu) /\ neu # None,
         art # "neu" => f # None /\ fahrt[f] # None, NurGelesen
  PROVE  FahrtenKern'
<1> DEFINE t == [art |-> art, fahrt |-> f, neu |-> neu, stand |-> stand, schaden |-> schaden,
                 bestand |-> fahrt, zaehler |-> zaehler]
<1>1. /\ t \in FahrtTransaktionen /\ t.bestand = fahrt /\ t.zaehler = zaehler
      /\ t.art = art /\ t.fahrt = f /\ t.neu = neu /\ t.stand = stand
  BY DEF FahrtTransaktionen, FahrtenKern, FahrtenTypen
<1>2. /\ fTx' = [fTx EXCEPT ![w] = t] /\ w \in fUmfang.worker /\ fTx[w] = None
      /\ UNCHANGED <<fUmfang, fahrt, zaehler, handgesetzt, storniertWurde, fUeberholt>>
      /\ art # "storno" => neu \notin Vergeben
  BY DEF Gelesen, FahrtFrei, NurGelesen, NeueFahrt
<1> HIDE DEF t
<1> QED
  BY <1>1, <1>2, GelesenHaelt

LEMMA FahrtenSchritt == FahrtenIInv /\ [FahrtenNext]_fahrtenVars => FahrtenIInv'
<1> SUFFICES ASSUME FahrtenIInv, [FahrtenNext]_fahrtenVars
             PROVE  FahrtenIInv'
  OBVIOUS
<1> USE DEF FahrtenIInv
<1>1. \A s \in fUmfang.staende : s \in Staende \cup {None}
  BY FahrtenAssumption DEF FahrtenKern, FahrtenTypen
<1>2. ASSUME NEW w \in Workers, NEW neu \in Fahrten, NEW stand \in fUmfang.staende,
             NEW b \in BOOLEAN, NEW s \in BOOLEAN, Erfassen(w, neu, stand, b, s)
      PROVE  FahrtenKern'
  <2>1. stand # None => stand >= zaehler
    BY <1>2 DEF Erfassen, PruefeZaehler
  <2>2. /\ FahrtFrei(w) /\ NeueFahrt(neu) /\ neu # None /\ stand \in Staende \cup {None}
        /\ Gelesen(w, "neu", None, neu, stand, s) /\ NurGelesen
    BY <1>1, <1>2, FahrtenAssumption DEF Erfassen
  <2> QED
    BY <2>1, <2>2, AnfrageHaelt
<1>3. ASSUME NEW w \in Workers, NEW neu \in Fahrten, NEW stand \in fUmfang.staende,
             NEW b \in BOOLEAN, NEW s \in BOOLEAN, NEW f \in Fahrten,
             Korrigieren(w, f, neu, stand, b, s)
      PROVE  FahrtenKern'
  <2>1. stand # None => stand >= zaehler
    BY <1>3 DEF Korrigieren, PruefeZaehler
  <2>2. /\ FahrtFrei(w) /\ NeueFahrt(neu) /\ neu # None /\ stand \in Staende \cup {None}
        /\ Gelesen(w, "korrektur", f, neu, stand, s) /\ NurGelesen
        /\ f # None /\ fahrt[f] # None
    BY <1>1, <1>3, FahrtenAssumption DEF Korrigieren
  <2> QED
    BY <2>1, <2>2, AnfrageHaelt
<1>4. ASSUME NEW w \in Workers, NEW f \in Fahrten, Stornieren(w, f)
      PROVE  FahrtenKern'
  BY <1>4, AnfrageHaelt, FahrtenAssumption DEF Stornieren
<1>5. ASSUME NEW w \in Workers, FahrtFestschreiben(w)
      PROVE  FahrtenKern'
  BY <1>5, NeuOderKorrekturHaelt, StornoHaelt DEF FahrtFestschreiben
<1>6. ASSUME NEW w \in Workers, NEW wert \in fUmfang.staende \ {None}, ZaehlerVonHand(w, wert)
      PROVE  FahrtenKern'
  BY <1>6, VonHandHaelt
<1>7. ASSUME NEW W \in SUBSET Workers, FahrtNeustart(W)
      PROVE  FahrtenKern'
  BY <1>7, VerworfenHaelt DEF FahrtNeustart
<1>8. ASSUME UNCHANGED <<fUmfang, fahrt, zaehler, fTx, handgesetzt, storniertWurde, fUeberholt>>
      PROVE  FahrtenKern'
  <2> USE <1>8 DEF FahrtenKern
  <2>1. FahrtenTypen' /\ Beschraenkt' /\ TxGueltig'
    BY DEF FahrtenTypen, Beschraenkt, Bis, TxGueltig
  <2>2. ErsetzteHabenNachfolger' /\ AktiveBisZumZaehler'
    BY DEF ErsetzteHabenNachfolger, AktiveBisZumZaehler, AktiveStaende
  <2>3. JederKilometerEinmal'
    BY DEF JederKilometerEinmal, Strecke
  <2>4. TxGeprueft'
    BY DEF TxGeprueft
  <2> QED
    BY <2>1, <2>2, <2>3, <2>4
<1>9. ASSUME NEW w \in Workers, NEW f \in Fahrten, SchadenRetry(w, f)
      PROVE  FahrtenKern'
  BY <1>8, <1>9 DEF SchadenRetry
<1>10. ASSUME NEW f \in Fahrten, SchadenMelden(f)
       PROVE  FahrtenKern'
  BY <1>8, <1>10 DEF SchadenMelden, MailGesendet, TeamsUndFestschreiben
<1>11. CASE FahrtenNext
  <2>1. FahrtenKern'
    BY <1>2, <1>3, <1>4, <1>5, <1>6, <1>7, <1>9, <1>10, <1>11 DEF FahrtenNext
  <2> QED
    BY <1>11, <2>1, MeldungenHalten
<1>12. CASE UNCHANGED fahrtenVars
  <2>1. FahrtenKern'
    BY <1>8, <1>12 DEF fahrtenVars
  <2> QED
    BY <1>12, <2>1 DEF fahrtenVars, MeldungenTypen
<1> QED
  BY <1>11, <1>12

\* The trip book, for any number of requests in any number of workers: as long as none
\* writes after what it had read was changed, the distances add up to the counter and no
\* active trip lies above it; a trip that was corrected leads to its successor always,
\* whatever is entered, corrected, cancelled and cut off.
THEOREM FahrtenHalten == FahrtenSpec => []FahrtenVersprechen
<1>1. FahrtenIInv => FahrtenVersprechen
  BY DEF FahrtenIInv, FahrtenKern, FahrtenTypen, MeldungenTypen, FahrtenTypeOK,
         FahrtenVersprechen
<1> QED
  BY FahrtenAmAnfang, FahrtenSchritt, <1>1, PTL DEF FahrtenSpec

-----------------------------------------------------------------------------
(* Drones *)

\* The rows keep their columns; flights are those of this run.
DrohnenFormen ==
  /\ dUmfang \in DrohnenUmfaenge
  /\ tag \in Nat
  /\ drohne = [g \in Drohnen |-> drohne[g]]
  /\ \A g \in Drohnen : DOMAIN drohne[g] = {"papiere", "status", "wartungen"}
  /\ flug \in [Fluege -> FlugZeilen \cup {None}]
  /\ DrohneAngelegt \subseteq dUmfang.fluege
  /\ \A f \in DrohneAngelegt : flug[f].lfd \in 1..Cardinality(Fluege) /\ einsatzU # None
  /\ einsatzU \in [status : EinsatzStatus] \cup {None}
  /\ hand = [w \in Workers |-> hand[w]]

\* What a worker has in hand is about a flight that is there.
HandPasst(w) ==
  LET h == hand[w] IN
  /\ w \in dWorker
  /\ h.art = "neu" =>
       /\ h.lfd \in 1..Cardinality(Fluege) /\ h.pilot \in Piloten \cup {None}
       /\ h.geraet \in Drohnen /\ einsatzU # None
  /\ h.art = "abschluss" =>
       h.flug \in DrohneAngelegt /\ h.dauer \in {None, 1} /\ h.alt \in {None, 1}
  /\ h.art = "bewegung" =>
       /\ h.flug \in DrohneAngelegt /\ h = [art |-> "bewegung", flug |-> h.flug]
       /\ flug[h.flug].status = "abgeschlossen" /\ flug[h.flug].pilot \in Piloten
  /\ h.art = "nachflug" => h.flug \in DrohneAngelegt
HaendePassen == \A w \in Workers : hand[w] # None => HandPasst(w)

\* A movement was entered by hand or is that of a closed flight.
BewegungenPassen ==
  /\ IsFiniteSet(bewegung)
  /\ \A b \in bewegung :
       /\ b.pilot \in Piloten
       /\ b.flug # None =>
            /\ b.flug \in DrohneAngelegt /\ flug[b.flug].status = "abgeschlossen"
            /\ b.pilot = flug[b.flug].pilot /\ b.tag = flug[b.flug].tag

\* One worker: what it read is still so, and a flight has one movement.
HandAktuell(w) ==
  LET h == hand[w] IN
  /\ h.art = "neu" => h.lfd = LaufendeNummer
  /\ h.art = "abschluss" => h.alt = flug[h.flug].dauer /\ NochOffener(h.flug)
  /\ h.art = "bewegung" => \A b \in bewegung : b.flug # h.flug
EinzelnStimmt ==
  /\ \A w \in Workers : hand[w] # None => HandAktuell(w)
  /\ \A b, c \in bewegung : b.flug = c.flug /\ b.flug # None => b = c

DrohnenIInv ==
  /\ DrohnenFormen /\ HaendePassen /\ BewegungenPassen /\ GeflogenesZaehlt
  /\ FluegeDurchnummeriert /\ AuditHashStimmt
  /\ EinDrohnenWorker => EinzelnStimmt

LEMMA DrohnenAmAnfang == DrohnenInit => DrohnenIInv
<1> SUFFICES ASSUME DrohnenInit PROVE DrohnenIInv
  OBVIOUS
<1> USE DEF DrohnenInit
<1>1. DrohneAngelegt = {} /\ flug \in [Fluege -> FlugZeilen \cup {None}]
  BY DEF DrohneAngelegt
<1>2. \A g \in Drohnen : DOMAIN drohne[g] = {"papiere", "status", "wartungen"}
  OBVIOUS
<1>3. DrohnenFormen
  BY <1>1, <1>2 DEF DrohnenFormen
<1>4. HaendePassen /\ BewegungenPassen /\ GeflogenesZaehlt /\ EinzelnStimmt /\ AuditHashStimmt
  BY <1>1, FS_EmptySet DEF HaendePassen, BewegungenPassen, GeflogenesZaehlt, EinzelnStimmt,
     AuditHashStimmt
<1>5. FluegeDurchnummeriert
  <2>1. Cardinality(DrohneAngelegt) = 0 /\ {flug[f].lfd : f \in DrohneAngelegt} = {}
    BY <1>1, FS_EmptySet
  <2>2. 1..0 = {}
    OBVIOUS
  <2> QED
    BY <2>1, <2>2 DEF FluegeDurchnummeriert
<1> QED
  BY <1>3, <1>4, <1>5 DEF DrohnenIInv

\* The flights of an operation are finitely many.
LEMMA AngelegteEndlich ==
  ASSUME DrohnenIInv
  PROVE  /\ IsFiniteSet(DrohneAngelegt) /\ Cardinality(DrohneAngelegt) \in Nat
         /\ IsFiniteSet(dUmfang.fluege) /\ Cardinality(Fluege) \in Nat
         /\ dUmfang.fluege \subseteq Fluege
         /\ Cardinality(dUmfang.fluege) \in Nat
         /\ Cardinality(dUmfang.fluege) <= Cardinality(Fluege)
<1>1. dUmfang.fluege \in SUBSET Fluege
  BY DrohnenAssumption DEF DrohnenIInv, DrohnenFormen
<1>2. DrohneAngelegt \in SUBSET Fluege
  BY DEF DrohneAngelegt
<1> QED
  BY <1>1, <1>2, DrohnenAssumption, FS_Subset, FS_CardinalityType

\* With one worker the others have nothing in hand.
LEMMA AllesInEinerHand ==
  ASSUME DrohnenIInv, EinDrohnenWorker, NEW w \in Workers, w \in dWorker
  PROVE  \A v \in Workers \ {w} : hand[v] = None
<1>1. dWorker = {w}
  BY DEF EinDrohnenWorker
<1>2. \A v \in Workers : hand[v] # None => v \in dWorker
  BY DEF DrohnenIInv, HaendePassen, HandPasst
<1> QED
  BY <1>1, <1>2

\* Steps that leave number, day, pilot, device, duration, state and hash of the flights and
\* the movements alone: a worker keeps what it has in hand, lets it go, or takes up
\* something that fits.
LEMMA NebenbeiHaelt ==
  ASSUME DrohnenIInv, UNCHANGED <<dUmfang, dWorker, bewegung>>,
         DrohnenFormen', DrohneAngelegt' = DrohneAngelegt, absturz \subseteq absturz',
         einsatzU # None => einsatzU' # None,
         \A f \in DrohneAngelegt :
           /\ flug'[f].lfd = flug[f].lfd /\ flug'[f].tag = flug[f].tag
           /\ flug'[f].pilot = flug[f].pilot /\ flug'[f].geraet = flug[f].geraet
           /\ flug'[f].dauer = flug[f].dauer /\ flug'[f].status = flug[f].status
           /\ flug'[f].inhalt_hash = flug[f].inhalt_hash,
         \A v \in Workers :
           \/ hand'[v] = hand[v]
           \/ /\ hand'[v] = None
              /\ hand[v].art = "bewegung" => hand[v].flug \in absturz'
           \/ hand[v] = None /\ HandPasst(v)' /\ (EinDrohnenWorker => HandAktuell(v)')
  PROVE  DrohnenIInv'
<1> USE DEF DrohnenIInv
<1>1. HaendePassen'
  <2> SUFFICES ASSUME NEW v \in Workers, hand'[v] # None, hand'[v] = hand[v]
               PROVE  HandPasst(v)'
    BY DEF HaendePassen
  <2>1. hand[v] # None /\ HandPasst(v)
    BY DEF HaendePassen
  <2> QED
    BY <2>1 DEF HandPasst
<1>2. BewegungenPassen'
  BY DEF BewegungenPassen
<1>3. GeflogenesZaehlt'
  <2> SUFFICES ASSUME NEW f \in DrohneAngelegt, flug[f].status = "abgeschlossen",
                      flug[f].pilot # None, f \notin absturz',
                      ~ \E b \in bewegung : b.flug = f /\ b.pilot = flug[f].pilot
               PROVE  \E w \in Workers : hand'[w] = [art |-> "bewegung", flug |-> f]
    BY DEF GeflogenesZaehlt
  <2>1. PICK w \in Workers : hand[w] = [art |-> "bewegung", flug |-> f]
    BY DEF GeflogenesZaehlt
  <2>2. [art |-> "bewegung", flug |-> f] # None
    BY DrohnenAssumption DEF DrohneAngelegt
  <2>3. hand[w].art = "bewegung" /\ hand[w].flug = f
    BY <2>1
  <2> QED
    BY <2>1, <2>2, <2>3
<1>4. FluegeDurchnummeriert' /\ AuditHashStimmt'
  <2>1. {flug'[f].lfd : f \in DrohneAngelegt} = {flug[f].lfd : f \in DrohneAngelegt}
    OBVIOUS
  <2> QED
    BY <2>1 DEF FluegeDurchnummeriert, AuditHashStimmt, EinDrohnenWorker
<1>5. EinDrohnenWorker' => EinzelnStimmt'
  <2> SUFFICES ASSUME EinDrohnenWorker PROVE EinzelnStimmt'
    BY DEF EinDrohnenWorker
  <2>1. ASSUME NEW v \in Workers, hand'[v] # None, hand'[v] = hand[v]
        PROVE  HandAktuell(v)'
    <3>1. hand[v] # None /\ HandPasst(v) /\ HandAktuell(v)
      BY <2>1 DEF HaendePassen, EinzelnStimmt
    <3> QED
      BY <2>1, <3>1 DEF HandAktuell, HandPasst, LaufendeNummer, NochOffener
  <2> QED
    BY <2>1 DEF EinzelnStimmt
<1> QED
  BY <1>1, <1>2, <1>3, <1>4, <1>5

\* Steps at the register and at the operation: flights, movements and hands rest.
LEMMA RuhtHaelt ==
  ASSUME DrohnenIInv, UNCHANGED <<dUmfang, dWorker, flug, bewegung, hand, absturz>>,
         tag' \in Nat, drohne' = [g \in Drohnen |-> drohne'[g]],
         \A g \in Drohnen : DOMAIN drohne'[g] = {"papiere", "status", "wartungen"},
         einsatzU' \in [status : EinsatzStatus] \cup {None},
         einsatzU # None => einsatzU' # None
  PROVE  DrohnenIInv'
<1>1. DrohneAngelegt' = DrohneAngelegt
  BY DEF DrohneAngelegt
<1>2. DrohnenFormen'
  BY <1>1 DEF DrohnenIInv, DrohnenFormen
<1> QED
  BY <1>1, <1>2, NebenbeiHaelt

\* The records of a device keep their columns, and its log its entries.
LEMMA GeraetSchritt ==
  ASSUME DrohnenIInv, NEW w \in Workers, NEW g \in Drohnen,
         \/ \E papiere \in BOOLEAN, status \in {"aktiv", "wartung", "ausgemustert"} :
              GeraetBearbeiten(w, g, papiere, status)
         \/ \E ergebnis \in {"io", "nio"} : WartungNeu(w, g, ergebnis)
  PROVE  /\ drohne' = [h \in Drohnen |-> drohne'[h]]
         /\ \A h \in Drohnen :
              /\ DOMAIN drohne'[h] = {"papiere", "status", "wartungen"}
              /\ drohne[h].wartungen \subseteq drohne'[h].wartungen
<1>1. /\ drohne = [h \in Drohnen |-> drohne[h]]
      /\ \A h \in Drohnen : DOMAIN drohne[h] = {"papiere", "status", "wartungen"}
  BY DEF DrohnenIInv, DrohnenFormen
<1>2. PICK z : /\ drohne' = [drohne EXCEPT ![g] = z]
               /\ DOMAIN z = {"papiere", "status", "wartungen"}
               /\ drohne[g].wartungen \subseteq z.wartungen
  <2>1. ASSUME NEW papiere \in BOOLEAN, NEW status \in {"aktiv", "wartung", "ausgemustert"},
               GeraetBearbeiten(w, g, papiere, status)
        PROVE  \E z : /\ drohne' = [drohne EXCEPT ![g] = z]
                      /\ DOMAIN z = {"papiere", "status", "wartungen"}
                      /\ drohne[g].wartungen \subseteq z.wartungen
    <3> DEFINE y == [drohne[g] EXCEPT !.papiere = papiere]
               z == [y EXCEPT !.status = status]
               D1 == [drohne EXCEPT ![g] = y]
    <3>1. /\ DOMAIN y = {"papiere", "status", "wartungen"}
          /\ y.wartungen = drohne[g].wartungen
      BY <1>1
    <3>2. D1[g] = y
      BY <1>1
    <3>3. drohne' = [D1 EXCEPT ![g] = [D1[g] EXCEPT !.status = status]]
      BY <2>1 DEF GeraetBearbeiten
    <3>4. drohne' = [D1 EXCEPT ![g] = z]
      BY <3>2, <3>3
    <3> HIDE DEF y
    <3>5. DOMAIN z = {"papiere", "status", "wartungen"} /\ z.wartungen = y.wartungen
      BY <3>1
    <3> HIDE DEF z
    <3>6. drohne' = [drohne EXCEPT ![g] = z]
      BY <1>1, <3>4
    <3> QED
      BY <3>1, <3>5, <3>6
  <2>2. ASSUME NEW ergebnis \in {"io", "nio"}, WartungNeu(w, g, ergebnis)
        PROVE  \E z : /\ drohne' = [drohne EXCEPT ![g] = z]
                      /\ DOMAIN z = {"papiere", "status", "wartungen"}
                      /\ drohne[g].wartungen \subseteq z.wartungen
    <3> DEFINE neu == drohne[g].wartungen \cup
                        {[nr |-> Cardinality(drohne[g].wartungen), ergebnis |-> ergebnis]}
               z == [drohne[g] EXCEPT !.wartungen = neu]
    <3>1. drohne' = [drohne EXCEPT ![g] = z]
      BY <2>2 DEF WartungNeu
    <3>2. drohne[g].wartungen \subseteq neu
      OBVIOUS
    <3> HIDE DEF neu
    <3>3. DOMAIN z = {"papiere", "status", "wartungen"} /\ z.wartungen = neu
      BY <1>1
    <3> HIDE DEF z
    <3> QED
      BY <3>1, <3>2, <3>3
  <2> QED
    BY <2>1, <2>2
<1> QED
  BY <1>1, <1>2

LEMMA RegisterHaelt ==
  ASSUME DrohnenIInv, NEW w \in Workers, NEW p \in Piloten,
         \E papiere, aktiv \in BOOLEAN, ablauf \in {tag + 1, tag + 2} :
           PilotBearbeiten(w, p, papiere, ablauf, aktiv)
  PROVE  DrohnenIInv'
<1>1. UNCHANGED <<dUmfang, dWorker, tag, drohne, einsatzU, flug, bewegung, hand, absturz>>
  BY DEF PilotBearbeiten
<1> QED
  BY <1>1, RuhtHaelt DEF DrohnenIInv, DrohnenFormen

LEMMA GeraetHaelt ==
  ASSUME DrohnenIInv, NEW w \in Workers, NEW g \in Drohnen,
         \/ \E papiere \in BOOLEAN, status \in {"aktiv", "wartung", "ausgemustert"} :
              GeraetBearbeiten(w, g, papiere, status)
         \/ \E ergebnis \in {"io", "nio"} : WartungNeu(w, g, ergebnis)
  PROVE  DrohnenIInv'
<1>1. UNCHANGED <<dUmfang, dWorker, tag, einsatzU, flug, bewegung, hand, absturz>>
  BY DEF GeraetBearbeiten, WartungNeu
<1>2. tag \in Nat /\ einsatzU \in [status : EinsatzStatus] \cup {None}
  BY DEF DrohnenIInv, DrohnenFormen
<1>3. /\ drohne' = [h \in Drohnen |-> drohne'[h]]
      /\ \A h \in Drohnen : DOMAIN drohne'[h] = {"papiere", "status", "wartungen"}
  BY GeraetSchritt
<1> QED
  BY <1>1, <1>2, <1>3, RuhtHaelt

LEMMA UasEinsatzHaelt ==
  ASSUME DrohnenIInv, NEW w \in Workers, UasEinsatz(w)
  PROVE  DrohnenIInv'
<1>1. UNCHANGED <<dUmfang, dWorker, tag, drohne, flug, bewegung, hand, absturz>>
  BY DEF UasEinsatz, EinsatzStarten, RolleLoeschen, RolleHinzufuegen, EinsatzStatusAendern
<1>2. einsatzU \in [status : EinsatzStatus] \cup {None}
  BY DEF DrohnenIInv, DrohnenFormen
<1>3. /\ einsatzU' \in [status : EinsatzStatus] \cup {None}
      /\ einsatzU # None => einsatzU' # None
  <2>1. CASE EinsatzStarten(w)
    BY <2>1 DEF EinsatzStarten, EinsatzStatus
  <2>2. ASSUME NEW neu \in EinsatzStatus, EinsatzStatusAendern(w, neu)
        PROVE  einsatzU' \in [status : EinsatzStatus]
    <3>1. einsatzU \in [status : EinsatzStatus]
      BY <1>2, <2>2 DEF EinsatzStatusAendern
    <3> QED
      BY <2>2, <3>1 DEF EinsatzStatusAendern
  <2>3. einsatzU' = einsatzU \/ EinsatzStarten(w)
          \/ \E neu \in EinsatzStatus : EinsatzStatusAendern(w, neu)
    BY DEF UasEinsatz, RolleLoeschen, RolleHinzufuegen
  <2> QED
    BY <1>2, <2>1, <2>2, <2>3, DrohnenAssumption DEF EinsatzStarten
<1> QED
  BY <1>1, <1>3, RuhtHaelt DEF DrohnenIInv, DrohnenFormen

LEMMA MedienUndTagHalten ==
  ASSUME DrohnenIInv,
         \/ \E w \in Workers : \E f \in dUmfang.fluege :
              \/ MedienHinzufuegen(w, f) \/ MedienLoeschen(w, f)
              \/ \E s \in {"erfasst", "begruendet", "zur_loeschung", "geloescht"} :
                   MedienStatusAendern(w, f, s)
         \/ DrohnenTagVergeht
  PROVE  DrohnenIInv'
<1>1. UNCHANGED <<dUmfang, dWorker, drohne, einsatzU, flug, bewegung, hand, absturz>>
  BY DEF MedienHinzufuegen, MedienLoeschen, MedienStatusAendern, DrohnenTagVergeht
<1>2. tag' = tag \/ tag' = tag + 1
  BY DEF MedienHinzufuegen, MedienLoeschen, MedienStatusAendern, DrohnenTagVergeht
<1>3. tag' \in Nat
  BY <1>2 DEF DrohnenIInv, DrohnenFormen
<1> QED
  BY <1>1, <1>3, RuhtHaelt DEF DrohnenIInv, DrohnenFormen

-----------------------------------------------------------------------------

\* A worker that had nothing in hand takes up something that fits.
LEMMA GreifenHaelt ==
  ASSUME DrohnenIInv, NEW w \in Workers, NEW a, Wartet(w), hand' = [hand EXCEPT ![w] = a],
         UNCHANGED <<dUmfang, dWorker, tag, drohne, einsatzU, flug, bewegung, absturz>>,
         HandPasst(w)', EinDrohnenWorker => HandAktuell(w)'
  PROVE  DrohnenIInv'
<1>1. hand = [v \in Workers |-> hand[v]] /\ hand[w] = None
  BY DEF DrohnenIInv, DrohnenFormen, Wartet
<1>2. /\ hand' = [v \in Workers |-> hand'[v]]
      /\ \A v \in Workers \ {w} : hand'[v] = hand[v]
  BY <1>1
<1>3. DrohneAngelegt' = DrohneAngelegt
  BY DEF DrohneAngelegt
<1>4. DrohnenFormen'
  BY <1>2, <1>3 DEF DrohnenIInv, DrohnenFormen
<1> QED
  BY <1>1, <1>2, <1>3, <1>4, NebenbeiHaelt

LEMMA FlugNeuLesenHaelt ==
  ASSUME DrohnenIInv, NEW w \in Workers, NEW p \in Piloten \cup {None}, NEW g \in Drohnen,
         FlugNeuLesen(w, p, g)
  PROVE  DrohnenIInv'
<1> DEFINE a == [art |-> "neu", lfd |-> LaufendeNummer, pilot |-> p, geraet |-> g]
<1>1. /\ Wartet(w) /\ hand' = [hand EXCEPT ![w] = a] /\ einsatzU # None
      /\ DrohneAngelegt # dUmfang.fluege
      /\ UNCHANGED <<dUmfang, dWorker, tag, drohne, einsatzU, flug, bewegung, absturz>>
  BY DEF FlugNeuLesen
<1>2. a.art = "neu" /\ a.lfd = LaufendeNummer /\ a.pilot = p /\ a.geraet = g
  OBVIOUS
<1> HIDE DEF a
<1>3. hand'[w] = a
  BY <1>1 DEF DrohnenIInv, DrohnenFormen
<1>4. LaufendeNummer \in 1..Cardinality(Fluege) /\ LaufendeNummer' = LaufendeNummer
  <2>1. DrohneAngelegt \in SUBSET dUmfang.fluege
    BY DEF DrohnenIInv, DrohnenFormen
  <2>2. /\ Cardinality(DrohneAngelegt) <= Cardinality(dUmfang.fluege)
        /\ Cardinality(DrohneAngelegt) # Cardinality(dUmfang.fluege)
    BY <1>1, <2>1, AngelegteEndlich, FS_Subset
  <2> QED
    BY <1>1, <2>2, AngelegteEndlich DEF LaufendeNummer, DrohneAngelegt
<1>5. HandPasst(w)' /\ HandAktuell(w)'
  BY <1>1, <1>2, <1>3, <1>4 DEF HandPasst, HandAktuell, Wartet
<1> QED
  BY <1>1, <1>5, GreifenHaelt

LEMMA AbschlussLesenHaelt ==
  ASSUME DrohnenIInv, NEW w \in Workers, NEW f \in dUmfang.fluege, NEW dauer \in {None, 1},
         AbschlussLesen(w, f, dauer)
  PROVE  DrohnenIInv'
<1> DEFINE a == [art |-> "abschluss", flug |-> f, dauer |-> dauer, alt |-> flug[f].dauer]
<1>1. /\ Wartet(w) /\ hand' = [hand EXCEPT ![w] = a] /\ NochOffener(f)
      /\ UNCHANGED <<dUmfang, dWorker, tag, drohne, einsatzU, flug, bewegung, absturz>>
  BY DEF AbschlussLesen
<1>2. f \in DrohneAngelegt /\ flug[f] \in FlugZeilen /\ DrohneAngelegt' = DrohneAngelegt
  BY <1>1, AngelegteEndlich DEF AbschlussLesen, DrohneAngelegt, DrohnenIInv, DrohnenFormen
<1>3. a.art = "abschluss" /\ a.flug = f /\ a.dauer = dauer /\ a.alt = flug[f].dauer
  OBVIOUS
<1>4. a.alt \in {None, 1}
  BY <1>2 DEF FlugZeilen
<1> HIDE DEF a
<1>5. hand'[w] = a
  BY <1>1 DEF DrohnenIInv, DrohnenFormen
<1>6. HandPasst(w)' /\ HandAktuell(w)'
  BY <1>1, <1>2, <1>3, <1>4, <1>5 DEF HandPasst, HandAktuell, Wartet, NochOffener
<1> QED
  BY <1>1, <1>6, GreifenHaelt

LEMMA NachflugUndMeldungLesenHalten ==
  ASSUME DrohnenIInv, NEW w \in Workers,
         \/ \E f \in dUmfang.fluege : NachflugLesen(w, f)
         \/ \E stufe \in Stufen : MeldeketteLesen(w, stufe)
  PROVE  DrohnenIInv'
<1>1. PICK a : /\ hand' = [hand EXCEPT ![w] = a]
               /\ \/ a.art = "nachflug" /\ a.flug \in DrohneAngelegt
                  \/ a.art = "melden"
  <2>1. ASSUME NEW f \in dUmfang.fluege, NachflugLesen(w, f)
        PROVE  \E a : /\ hand' = [hand EXCEPT ![w] = a]
                      /\ a.art = "nachflug" /\ a.flug \in DrohneAngelegt
    <3> DEFINE a == [art |-> "nachflug", flug |-> f]
    <3>1. f \in DrohneAngelegt
      BY <2>1, AngelegteEndlich DEF NachflugLesen, DrohneAngelegt
    <3>2. a.art = "nachflug" /\ a.flug = f
      OBVIOUS
    <3>3. hand' = [hand EXCEPT ![w] = a]
      BY <2>1 DEF NachflugLesen
    <3> HIDE DEF a
    <3> QED
      BY <3>1, <3>2, <3>3
  <2>2. ASSUME NEW stufe \in Stufen, MeldeketteLesen(w, stufe)
        PROVE  \E a : hand' = [hand EXCEPT ![w] = a] /\ a.art = "melden"
    <3> DEFINE a == [art |-> "melden", gemeldet |-> ereignis.gemeldet, stufe |-> stufe]
    <3>1. hand' = [hand EXCEPT ![w] = a] /\ a.art = "melden"
      BY <2>2 DEF MeldeketteLesen
    <3> HIDE DEF a
    <3> QED
      BY <3>1
  <2> QED
    BY <2>1, <2>2
<1>2. /\ Wartet(w)
      /\ UNCHANGED <<dUmfang, dWorker, tag, drohne, einsatzU, flug, bewegung, absturz>>
  BY DEF NachflugLesen, MeldeketteLesen
<1>3. hand'[w] = a /\ DrohneAngelegt' = DrohneAngelegt
  BY <1>1, <1>2 DEF DrohnenIInv, DrohnenFormen, DrohneAngelegt
<1>4. HandPasst(w)' /\ HandAktuell(w)'
  BY <1>1, <1>2, <1>3 DEF HandPasst, HandAktuell, Wartet
<1> QED
  BY <1>1, <1>2, <1>4, GreifenHaelt

\* A step that changes a flight's lists or its mark of an accident, and what is in hand
\* of it.
LEMMA ListenHalten ==
  ASSUME DrohnenIInv, NEW f \in DrohneAngelegt, NEW z \in FlugZeilen,
         flug' = [flug EXCEPT ![f] = z],
         z.lfd = flug[f].lfd, z.tag = flug[f].tag, z.pilot = flug[f].pilot,
         z.geraet = flug[f].geraet, z.dauer = flug[f].dauer, z.status = flug[f].status,
         z.inhalt_hash = flug[f].inhalt_hash,
         UNCHANGED <<dUmfang, dWorker, tag, drohne, einsatzU, bewegung, absturz>>,
         \/ hand' = hand
         \/ \E w \in Workers : hand[w].art # "bewegung" /\ hand' = [hand EXCEPT ![w] = None]
  PROVE  DrohnenIInv'
<1>1. f \in Fluege /\ flug \in [Fluege -> FlugZeilen \cup {None}]
  BY DEF DrohneAngelegt, DrohnenIInv, DrohnenFormen
<1>2. /\ flug' \in [Fluege -> FlugZeilen \cup {None}] /\ flug'[f] = z
      /\ \A g \in Fluege \ {f} : flug'[g] = flug[g]
  BY <1>1
<1>3. DrohneAngelegt' = DrohneAngelegt
  BY <1>1, <1>2, DrohnenAssumption DEF DrohneAngelegt
<1>4. \A g \in DrohneAngelegt :
        /\ flug'[g].lfd = flug[g].lfd /\ flug'[g].tag = flug[g].tag
        /\ flug'[g].pilot = flug[g].pilot /\ flug'[g].geraet = flug[g].geraet
        /\ flug'[g].dauer = flug[g].dauer /\ flug'[g].status = flug[g].status
        /\ flug'[g].inhalt_hash = flug[g].inhalt_hash
  BY <1>2 DEF DrohneAngelegt
<1>5. /\ hand' = [v \in Workers |-> hand'[v]]
      /\ \A v \in Workers :
           \/ hand'[v] = hand[v]
           \/ hand'[v] = None /\ hand[v].art # "bewegung"
  BY DEF DrohnenIInv, DrohnenFormen
<1>6. DrohnenFormen'
  BY <1>2, <1>3, <1>4, <1>5 DEF DrohnenIInv, DrohnenFormen
<1> QED
  BY <1>3, <1>4, <1>5, <1>6, NebenbeiHaelt

LEMMA ChecklisteHaelt ==
  ASSUME DrohnenIInv, NEW w \in Workers, NEW f \in dUmfang.fluege, NEW alle \in BOOLEAN,
         ChecklisteSpeichern(w, f, alle)
  PROVE  DrohnenIInv'
<1>1. f \in DrohneAngelegt /\ flug[f] \in FlugZeilen
  BY AngelegteEndlich DEF ChecklisteSpeichern, DrohneAngelegt, DrohnenIInv, DrohnenFormen
<1> DEFINE liste == [alle |-> alle, abgeschlossen |-> flug[f].vorflug.abgeschlossen \/ alle]
           z == [flug[f] EXCEPT !.vorflug = liste]
<1>2. flug' = [flug EXCEPT ![f] = z]
  BY DEF ChecklisteSpeichern
<1>3. liste \in [alle : BOOLEAN, abgeschlossen : BOOLEAN]
  <2>1. (flug[f].vorflug.abgeschlossen \/ alle) \in BOOLEAN
    OBVIOUS
  <2> QED
    BY <2>1
<1> HIDE DEF liste
<1>4. /\ z \in FlugZeilen /\ z.lfd = flug[f].lfd /\ z.tag = flug[f].tag
      /\ z.pilot = flug[f].pilot /\ z.geraet = flug[f].geraet /\ z.dauer = flug[f].dauer
      /\ z.status = flug[f].status /\ z.inhalt_hash = flug[f].inhalt_hash
  BY <1>1, <1>3 DEF FlugZeilen
<1> HIDE DEF z
<1> QED
  BY <1>1, <1>2, <1>4, ListenHalten DEF ChecklisteSpeichern

LEMMA EreignisHaelt ==
  ASSUME DrohnenIInv, NEW w \in Workers, NEW f \in dUmfang.fluege, NEW typ \in {"unfall", "stoerung"},
         EreignisNeu(w, f, typ)
  PROVE  DrohnenIInv'
<1>1. f \in DrohneAngelegt /\ flug[f] \in FlugZeilen
  BY AngelegteEndlich DEF EreignisNeu, DrohneAngelegt, DrohnenIInv, DrohnenFormen
<1> DEFINE unfall == flug[f].unfall \/ typ = "unfall"
           z == [flug[f] EXCEPT !.unfall = unfall]
<1>2. flug' = [flug EXCEPT ![f] = z]
  BY DEF EreignisNeu
<1>3. unfall \in BOOLEAN
  OBVIOUS
<1> HIDE DEF unfall
<1>4. /\ z \in FlugZeilen /\ z.lfd = flug[f].lfd /\ z.tag = flug[f].tag
      /\ z.pilot = flug[f].pilot /\ z.geraet = flug[f].geraet /\ z.dauer = flug[f].dauer
      /\ z.status = flug[f].status /\ z.inhalt_hash = flug[f].inhalt_hash
  BY <1>1, <1>3 DEF FlugZeilen
<1> HIDE DEF z
<1> QED
  BY <1>1, <1>2, <1>4, ListenHalten DEF EreignisNeu

LEMMA NachflugSchreibenHaelt ==
  ASSUME DrohnenIInv, NEW w \in Workers, NachflugSchreiben(w)
  PROVE  DrohnenIInv'
<1> DEFINE f == hand[w].flug
           z == [flug[f] EXCEPT !.nachflug = flug[f].nachflug + 1]
<1>1. f \in DrohneAngelegt /\ flug[f] \in FlugZeilen
  BY DEF NachflugSchreiben, DrohnenIInv, DrohnenFormen, HaendePassen, HandPasst, DrohneAngelegt
<1>2. flug' = [flug EXCEPT ![f] = z]
  BY DEF NachflugSchreiben
<1>3. /\ hand' = [hand EXCEPT ![w] = None] /\ hand[w].art # "bewegung"
      /\ UNCHANGED <<dUmfang, dWorker, tag, drohne, einsatzU, bewegung, absturz>>
  BY DEF NachflugSchreiben
<1> HIDE DEF f
<1>4. /\ z \in FlugZeilen /\ z.lfd = flug[f].lfd /\ z.tag = flug[f].tag
      /\ z.pilot = flug[f].pilot /\ z.geraet = flug[f].geraet /\ z.dauer = flug[f].dauer
      /\ z.status = flug[f].status /\ z.inhalt_hash = flug[f].inhalt_hash
  BY <1>1 DEF FlugZeilen
<1> HIDE DEF z
<1> QED
  BY <1>1, <1>2, <1>3, <1>4, ListenHalten

\* The chain of reports is none of the flights' business; a worker that dies leaves its
\* movement to the history of crashes.
LEMMA LoslassenHaelt ==
  ASSUME DrohnenIInv, NEW w \in Workers, MeldeketteSchreiben(w) \/ DrohnenWorkerStirbt(w)
  PROVE  DrohnenIInv'
<1>1. /\ hand' = [hand EXCEPT ![w] = None] /\ absturz \subseteq absturz'
      /\ hand[w].art = "bewegung" => hand[w].flug \in absturz'
      /\ UNCHANGED <<dUmfang, dWorker, tag, drohne, einsatzU, flug, bewegung>>
  BY DEF MeldeketteSchreiben, DrohnenWorkerStirbt
<1>2. DrohneAngelegt' = DrohneAngelegt
  BY <1>1 DEF DrohneAngelegt
<1>3. /\ hand' = [v \in Workers |-> hand'[v]]
      /\ \A v \in Workers :
           \/ hand'[v] = hand[v]
           \/ hand'[v] = None /\ (hand[v].art = "bewegung" => hand[v].flug \in absturz')
  BY <1>1 DEF DrohnenIInv, DrohnenFormen
<1>4. DrohnenFormen'
  BY <1>1, <1>2, <1>3 DEF DrohnenIInv, DrohnenFormen
<1> QED
  BY <1>1, <1>2, <1>3, <1>4, NebenbeiHaelt

-----------------------------------------------------------------------------

\* A new flight: with one worker it gets the next number.
LEMMA FlugNeuSchreibenHaelt ==
  ASSUME DrohnenIInv, NEW w \in Workers, NEW f \in dUmfang.fluege, FlugNeuSchreiben(w, f)
  PROVE  DrohnenIInv'
<1> DEFINE h == hand[w]
           z == [lfd |-> h.lfd, tag |-> tag, pilot |-> h.pilot, geraet |-> h.geraet,
                 dauer |-> None, status |-> "offen", inhalt_hash |-> None, unfall |-> FALSE,
                 vorflug |-> [alle |-> FALSE, abgeschlossen |-> FALSE], nachflug |-> 0]
<1> USE DEF DrohnenIInv
<1>1. /\ h # None /\ h.art = "neu" /\ flug[f] = None /\ hand' = [hand EXCEPT ![w] = None]
      /\ flug' = [flug EXCEPT ![f] = z]
      /\ UNCHANGED <<dUmfang, dWorker, tag, drohne, einsatzU, bewegung, absturz>>
  BY DEF FlugNeuSchreiben
<1>2. /\ w \in dWorker /\ h.lfd \in 1..Cardinality(Fluege) /\ h.pilot \in Piloten \cup {None}
      /\ h.geraet \in Drohnen /\ einsatzU # None
  BY <1>1 DEF HaendePassen, HandPasst
<1>3. h.lfd \in Nat /\ tag \in Nat
  BY <1>2, AngelegteEndlich DEF DrohnenFormen
<1>4. z \in FlugZeilen /\ z # None /\ z.lfd = h.lfd /\ z.status = "offen"
  <2>1. [alle |-> FALSE, abgeschlossen |-> FALSE] \in [alle : BOOLEAN, abgeschlossen : BOOLEAN]
    OBVIOUS
  <2>2. z \in FlugZeilen
    BY <1>2, <1>3, <2>1 DEF FlugZeilen
  <2> QED
    BY <2>2, DrohnenAssumption
<1> HIDE DEF z
<1>5. f \in Fluege /\ flug \in [Fluege -> FlugZeilen \cup {None}] /\ f \notin DrohneAngelegt
  BY <1>1, AngelegteEndlich DEF DrohnenFormen, DrohneAngelegt
<1>6. /\ flug' \in [Fluege -> FlugZeilen \cup {None}] /\ flug'[f] = z
      /\ \A g \in Fluege \ {f} : flug'[g] = flug[g]
  BY <1>1, <1>4, <1>5
<1>7. DrohneAngelegt' = DrohneAngelegt \cup {f}
  BY <1>4, <1>5, <1>6 DEF DrohneAngelegt
<1>8. \A g \in DrohneAngelegt : flug'[g] = flug[g]
  BY <1>5, <1>6 DEF DrohneAngelegt
<1>9. /\ hand' = [v \in Workers |-> hand'[v]] /\ hand'[w] = None
      /\ \A v \in Workers \ {w} : hand'[v] = hand[v]
  BY <1>1 DEF DrohnenFormen
<1>10. DrohnenFormen'
  BY <1>1, <1>2, <1>4, <1>6, <1>7, <1>8, <1>9 DEF DrohnenFormen
<1>11. HaendePassen'
  <2> SUFFICES ASSUME NEW v \in Workers, hand'[v] # None
               PROVE  HandPasst(v)'
    BY DEF HaendePassen
  <2>1. v # w /\ hand'[v] = hand[v] /\ HandPasst(v)
    BY <1>9 DEF HaendePassen
  <2> QED
    BY <1>1, <1>7, <1>8, <2>1 DEF HandPasst
<1>12. BewegungenPassen'
  BY <1>1, <1>7, <1>8 DEF BewegungenPassen
<1>13. GeflogenesZaehlt'
  <2> SUFFICES ASSUME NEW g \in DrohneAngelegt, flug[g].status = "abgeschlossen",
                      flug[g].pilot # None, g \notin absturz,
                      ~ \E b \in bewegung : b.flug = g /\ b.pilot = flug[g].pilot
               PROVE  \E v \in Workers : hand'[v] = [art |-> "bewegung", flug |-> g]
    BY <1>1, <1>4, <1>6, <1>7, <1>8 DEF GeflogenesZaehlt
  <2>1. PICK v \in Workers : hand[v] = [art |-> "bewegung", flug |-> g]
    BY DEF GeflogenesZaehlt
  <2>2. hand[v].art = "bewegung"
    BY <2>1
  <2> QED
    BY <1>1, <1>9, <2>1, <2>2
<1>14. FluegeDurchnummeriert'
  <2> SUFFICES ASSUME EinDrohnenWorker
               PROVE  {flug'[g].lfd : g \in DrohneAngelegt'} = 1..Cardinality(DrohneAngelegt')
    BY <1>1 DEF FluegeDurchnummeriert, EinDrohnenWorker
  <2> DEFINE n == Cardinality(DrohneAngelegt)
  <2>1. n \in Nat /\ Cardinality(DrohneAngelegt') = n + 1
    BY <1>5, <1>7, AngelegteEndlich, FS_AddElement
  <2>2. h.lfd = n + 1
    BY <1>1 DEF EinzelnStimmt, HandAktuell, LaufendeNummer
  <2>3. {flug[g].lfd : g \in DrohneAngelegt} = 1..n
    BY DEF FluegeDurchnummeriert
  <2>4. {flug'[g].lfd : g \in DrohneAngelegt'} = {flug[g].lfd : g \in DrohneAngelegt} \cup {n + 1}
    BY <1>4, <1>6, <1>7, <1>8, <2>2
  <2> HIDE DEF n
  <2>5. 1..n \cup {n + 1} = 1..(n + 1)
    BY <2>1
  <2> QED
    BY <2>1, <2>3, <2>4, <2>5
<1>15. AuditHashStimmt'
  BY <1>1, <1>4, <1>6, <1>7, <1>8 DEF AuditHashStimmt, EinDrohnenWorker
<1>16. EinDrohnenWorker' => EinzelnStimmt'
  <2>1. EinDrohnenWorker => \A v \in Workers : hand'[v] = None
    BY <1>2, <1>9, AllesInEinerHand
  <2> QED
    BY <1>1, <2>1 DEF EinzelnStimmt, EinDrohnenWorker
<1> QED
  BY <1>10, <1>11, <1>12, <1>13, <1>14, <1>15, <1>16

\* A flight is closed: its hash is that of the row, and its movement is due.
LEMMA AbschlussSchreibenHaelt ==
  ASSUME DrohnenIInv, NEW w \in Workers, AbschlussSchreiben(w)
  PROVE  DrohnenIInv'
<1> DEFINE h == hand[w]
           f == h.flug
           y == flug[f]
           dauer == IF h.dauer = h.alt THEN y.dauer ELSE h.dauer
           inhalt == InhaltHash(y, h.dauer)
           z == [y EXCEPT !.dauer = dauer, !.status = "abgeschlossen", !.inhalt_hash = inhalt]
<1> USE DEF DrohnenIInv
<1>1. /\ h # None /\ h.art = "abschluss" /\ hand' = [hand EXCEPT ![w] = DannBewegung(h)]
      /\ flug' = [flug EXCEPT ![f] = z]
      /\ UNCHANGED <<dUmfang, dWorker, tag, drohne, einsatzU, bewegung, absturz>>
  BY DEF AbschlussSchreiben
<1>2. /\ w \in dWorker /\ f \in DrohneAngelegt /\ h.dauer \in {None, 1} /\ h.alt \in {None, 1}
  BY <1>1 DEF HaendePassen, HandPasst
<1>3. f \in Fluege /\ y \in FlugZeilen /\ flug \in [Fluege -> FlugZeilen \cup {None}]
  BY <1>2 DEF DrohneAngelegt, DrohnenFormen
<1>4. /\ y.tag \in Nat /\ y.pilot \in Piloten \cup {None} /\ y.geraet \in Drohnen
      /\ y.dauer \in {None, 1}
  BY <1>3 DEF FlugZeilen
<1>5. dauer \in {None, 1} /\ inhalt = <<y.tag, y.pilot, y.geraet, h.dauer>>
  BY <1>2, <1>4 DEF InhaltHash
<1>6. inhalt \in Nat \X (Piloten \cup {None}) \X Drohnen \X {None, 1}
  BY <1>2, <1>4, <1>5
<1>7. EinDrohnenWorker => dauer = h.dauer /\ y.status = "offen"
  BY <1>1 DEF EinzelnStimmt, HandAktuell, NochOffener
<1>8. DannBewegung(h) = IF y.pilot = None THEN None ELSE [art |-> "bewegung", flug |-> f]
  BY DEF DannBewegung
<1> HIDE DEF dauer, inhalt, y
<1>9. /\ z \in FlugZeilen /\ z.lfd = y.lfd /\ z.tag = y.tag /\ z.pilot = y.pilot
      /\ z.geraet = y.geraet /\ z.dauer = dauer /\ z.status = "abgeschlossen"
      /\ z.inhalt_hash = inhalt
  BY <1>3, <1>5, <1>6 DEF FlugZeilen
<1>10. z # None
  BY <1>9, DrohnenAssumption
<1> HIDE DEF z
<1>11. /\ flug' \in [Fluege -> FlugZeilen \cup {None}] /\ flug'[f] = z
       /\ \A g \in Fluege \ {f} : flug'[g] = flug[g]
  BY <1>1, <1>3, <1>9
<1>12. DrohneAngelegt' = DrohneAngelegt
  BY <1>2, <1>3, <1>10, <1>11 DEF DrohneAngelegt
<1>13. \A g \in DrohneAngelegt :
         /\ flug'[g].lfd = flug[g].lfd /\ flug'[g].tag = flug[g].tag
         /\ flug'[g].pilot = flug[g].pilot
         /\ flug[g].status = "abgeschlossen" => flug'[g].status = "abgeschlossen"
         /\ g # f => flug'[g] = flug[g]
  BY <1>9, <1>11 DEF DrohneAngelegt, y
<1>14. /\ hand' = [v \in Workers |-> hand'[v]] /\ hand'[w] = DannBewegung(h)
       /\ \A v \in Workers \ {w} : hand'[v] = hand[v]
  BY <1>1 DEF DrohnenFormen
<1>15. DrohnenFormen'
  BY <1>1, <1>11, <1>12, <1>13, <1>14 DEF DrohnenFormen
<1>16. hand'[w] # None => HandPasst(w)'
  <2> SUFFICES ASSUME hand'[w] # None PROVE HandPasst(w)'
    OBVIOUS
  <2>1. hand'[w] = [art |-> "bewegung", flug |-> f] /\ y.pilot # None
    BY <1>8, <1>14
  <2>2. hand'[w].art = "bewegung" /\ hand'[w].flug = f
    BY <2>1
  <2>3. flug'[f].status = "abgeschlossen" /\ flug'[f].pilot \in Piloten
    BY <1>4, <1>9, <1>11, <2>1
  <2> QED
    BY <1>1, <1>2, <1>12, <2>1, <2>2, <2>3 DEF HandPasst
<1>17. HaendePassen'
  <2> SUFFICES ASSUME NEW v \in Workers, v # w, hand'[v] # None
               PROVE  HandPasst(v)'
    BY <1>16 DEF HaendePassen
  <2>1. hand'[v] = hand[v] /\ HandPasst(v)
    BY <1>14 DEF HaendePassen
  <2> QED
    BY <1>1, <1>12, <1>13, <2>1 DEF HandPasst
<1>18. BewegungenPassen'
  BY <1>1, <1>12, <1>13 DEF BewegungenPassen
<1>19. GeflogenesZaehlt'
  <2> SUFFICES ASSUME NEW g \in DrohneAngelegt, flug'[g].status = "abgeschlossen",
                      flug[g].pilot # None, g \notin absturz,
                      ~ \E b \in bewegung : b.flug = g /\ b.pilot = flug[g].pilot
               PROVE  \E v \in Workers : hand'[v] = [art |-> "bewegung", flug |-> g]
    BY <1>1, <1>12, <1>13 DEF GeflogenesZaehlt
  <2>1. CASE g = f
    BY <1>8, <1>14, <2>1 DEF y
  <2>2. CASE g # f
    <3>1. PICK v \in Workers : hand[v] = [art |-> "bewegung", flug |-> g]
      BY <1>13, <2>2 DEF GeflogenesZaehlt
    <3>2. hand[v].art = "bewegung"
      BY <3>1
    <3> QED
      BY <1>1, <1>14, <3>1, <3>2
  <2> QED
    BY <2>1, <2>2
<1>20. FluegeDurchnummeriert'
  <2>1. {flug'[g].lfd : g \in DrohneAngelegt'} = {flug[g].lfd : g \in DrohneAngelegt}
    BY <1>12, <1>13
  <2> QED
    BY <1>1, <1>12, <2>1 DEF FluegeDurchnummeriert, EinDrohnenWorker
<1>21. AuditHashStimmt'
  <2> SUFFICES ASSUME EinDrohnenWorker, NEW g \in DrohneAngelegt,
                      flug'[g].status = "abgeschlossen"
               PROVE  flug'[g].inhalt_hash =
                        <<flug'[g].tag, flug'[g].pilot, flug'[g].geraet, flug'[g].dauer>>
    BY <1>1, <1>12 DEF AuditHashStimmt, EinDrohnenWorker
  <2>1. CASE g = f
    BY <1>5, <1>7, <1>9, <1>11, <2>1
  <2>2. CASE g # f
    BY <1>13, <2>2 DEF AuditHashStimmt
  <2> QED
    BY <2>1, <2>2
<1>22. EinDrohnenWorker' => EinzelnStimmt'
  <2> SUFFICES ASSUME EinDrohnenWorker PROVE EinzelnStimmt'
    BY <1>1 DEF EinDrohnenWorker
  <2>1. \A v \in Workers \ {w} : hand'[v] = None
    BY <1>2, <1>14, AllesInEinerHand
  <2>2. \A b \in bewegung : b.flug # f
    BY <1>7, DrohnenAssumption, <1>3 DEF BewegungenPassen, y
  <2>3. ASSUME hand'[w] # None
        PROVE  HandAktuell(w)'
    <3>1. hand'[w] = [art |-> "bewegung", flug |-> f]
      BY <1>8, <1>14, <2>3
    <3>2. hand'[w].art = "bewegung" /\ hand'[w].flug = f
      BY <3>1
    <3> QED
      BY <1>1, <2>2, <3>2 DEF HandAktuell
  <2> QED
    BY <1>1, <2>1, <2>3 DEF EinzelnStimmt
<1> QED
  BY <1>15, <1>17, <1>18, <1>19, <1>20, <1>21, <1>22

\* A movement is written: what fits already stays so.
LEMMA BewegungDazu ==
  ASSUME DrohnenIInv, NEW w \in Workers, NEW b,
         bewegung' = bewegung \cup {b}, b.pilot \in Piloten,
         b.flug # None => /\ b.flug \in DrohneAngelegt /\ flug[b.flug].status = "abgeschlossen"
                          /\ b.pilot = flug[b.flug].pilot /\ b.tag = flug[b.flug].tag
                          /\ EinDrohnenWorker => \A c \in bewegung : c.flug # b.flug,
         EinDrohnenWorker => \A v \in Workers : hand'[v] = None,
         hand' = [hand EXCEPT ![w] = None],
         hand[w].art = "bewegung" /\ hand[w] # None =>
           b.flug = hand[w].flug /\ b.pilot = flug[b.flug].pilot,
         UNCHANGED <<dUmfang, dWorker, tag, drohne, einsatzU, flug, absturz>>
  PROVE  DrohnenIInv'
<1> USE DEF DrohnenIInv
<1>1. DrohneAngelegt' = DrohneAngelegt
  BY DEF DrohneAngelegt
<1>2. /\ hand' = [v \in Workers |-> hand'[v]] /\ hand'[w] = None
      /\ \A v \in Workers \ {w} : hand'[v] = hand[v]
  BY DEF DrohnenFormen
<1>3. DrohnenFormen'
  BY <1>1, <1>2 DEF DrohnenFormen
<1>4. HaendePassen'
  <2> SUFFICES ASSUME NEW v \in Workers, hand'[v] # None
               PROVE  HandPasst(v)'
    BY DEF HaendePassen
  <2>1. hand'[v] = hand[v] /\ HandPasst(v)
    BY <1>2 DEF HaendePassen
  <2> QED
    BY <1>1, <2>1 DEF HandPasst
<1>5. BewegungenPassen'
  <2>1. IsFiniteSet(bewegung')
    BY FS_AddElement DEF BewegungenPassen
  <2> QED
    BY <1>1, <2>1 DEF BewegungenPassen
<1>6. GeflogenesZaehlt'
  <2> SUFFICES ASSUME NEW g \in DrohneAngelegt, flug[g].status = "abgeschlossen",
                      flug[g].pilot # None, g \notin absturz,
                      ~ \E c \in bewegung' : c.flug = g /\ c.pilot = flug[g].pilot
               PROVE  \E v \in Workers : hand'[v] = [art |-> "bewegung", flug |-> g]
    BY <1>1 DEF GeflogenesZaehlt
  <2>1. PICK v \in Workers : hand[v] = [art |-> "bewegung", flug |-> g]
    BY DEF GeflogenesZaehlt
  <2>2. hand[v].art = "bewegung" /\ hand[v].flug = g
    BY <2>1
  <2>3. hand[v] # None
    BY <2>1, DrohnenAssumption DEF DrohneAngelegt
  <2>4. v # w
    BY <2>2, <2>3
  <2> QED
    BY <1>2, <2>1, <2>4
<1>7. FluegeDurchnummeriert' /\ AuditHashStimmt'
  BY <1>1 DEF FluegeDurchnummeriert, AuditHashStimmt, EinDrohnenWorker
<1>8. EinDrohnenWorker' => EinzelnStimmt'
  BY DEF EinzelnStimmt, EinDrohnenWorker
<1> QED
  BY <1>3, <1>4, <1>5, <1>6, <1>7, <1>8

LEMMA BewegungSchreibenHaelt ==
  ASSUME DrohnenIInv, NEW w \in Workers, BewegungSchreiben(w)
  PROVE  DrohnenIInv'
<1> DEFINE h == hand[w]
           f == h.flug
           b == [pilot |-> flug[f].pilot, tag |-> flug[f].tag, flug |-> f,
                 von |-> Cardinality({c \in bewegung : c.flug = f})]
<1>1. /\ h # None /\ h.art = "bewegung" /\ hand' = [hand EXCEPT ![w] = None]
      /\ bewegung' = bewegung \cup {b}
      /\ UNCHANGED <<dUmfang, dWorker, tag, drohne, einsatzU, flug, absturz>>
  BY DEF BewegungSchreiben
<1>2. /\ w \in dWorker /\ f \in DrohneAngelegt /\ flug[f].status = "abgeschlossen"
      /\ flug[f].pilot \in Piloten
  BY <1>1 DEF DrohnenIInv, HaendePassen, HandPasst
<1>3. b.pilot = flug[f].pilot /\ b.tag = flug[f].tag /\ b.flug = f
  OBVIOUS
<1> HIDE DEF b
<1>4. EinDrohnenWorker => \A c \in bewegung : c.flug # f
  BY <1>1 DEF DrohnenIInv, EinzelnStimmt, HandAktuell
<1>5. EinDrohnenWorker => \A v \in Workers : hand'[v] = None
  BY <1>1, <1>2, AllesInEinerHand DEF DrohnenIInv, DrohnenFormen
<1> HIDE DEF h, f
<1>6. /\ b.pilot \in Piloten
      /\ b.flug # None => /\ b.flug \in DrohneAngelegt /\ flug[b.flug].status = "abgeschlossen"
                          /\ b.pilot = flug[b.flug].pilot /\ b.tag = flug[b.flug].tag
                          /\ EinDrohnenWorker => \A c \in bewegung : c.flug # b.flug
  BY <1>2, <1>3, <1>4
<1>7. hand[w].art = "bewegung" /\ hand[w] # None =>
        b.flug = hand[w].flug /\ b.pilot = flug[b.flug].pilot
  BY <1>3 DEF h, f
<1> QED
  BY <1>1, <1>5, <1>6, <1>7, BewegungDazu

LEMMA FlugbewegungEintragenHaelt ==
  ASSUME DrohnenIInv, NEW w \in Workers, NEW p \in Piloten, FlugbewegungEintragen(w, p)
  PROVE  DrohnenIInv'
<1> DEFINE b == [pilot |-> p, tag |-> tag, flug |-> None,
                 von |-> Cardinality({c \in bewegung : c.flug = None})]
<1>1. /\ w \in dWorker /\ hand[w] = None /\ bewegung' = bewegung \cup {b}
      /\ UNCHANGED <<dUmfang, dWorker, tag, drohne, einsatzU, flug, hand, absturz>>
  BY DEF FlugbewegungEintragen, Wartet
<1>2. b.pilot = p /\ b.flug = None
  OBVIOUS
<1> HIDE DEF b
<1>3. hand' = [hand EXCEPT ![w] = None]
  BY <1>1 DEF DrohnenIInv, DrohnenFormen
<1>4. EinDrohnenWorker => \A v \in Workers : hand'[v] = None
  BY <1>1, AllesInEinerHand
<1> QED
  BY <1>1, <1>2, <1>3, <1>4, BewegungDazu

-----------------------------------------------------------------------------

\* Every step keeps it, and no step takes an entry out of a maintenance log.
LEMMA DrohnenSchritt ==
  ASSUME DrohnenIInv, [DrohnenNext]_drohnenVars
  PROVE  /\ DrohnenIInv'
         /\ \A g \in Drohnen : drohne[g].wartungen \subseteq drohne'[g].wartungen
<1>1. ASSUME NEW w \in Workers, Register(w)
      PROVE  /\ DrohnenIInv'
             /\ \A g \in Drohnen : drohne[g].wartungen \subseteq drohne'[g].wartungen
  <2>1. ASSUME NEW p \in Piloten,
               \/ \E papiere, aktiv \in BOOLEAN, ablauf \in {tag + 1, tag + 2} :
                    PilotBearbeiten(w, p, papiere, ablauf, aktiv)
               \/ FlugbewegungEintragen(w, p)
        PROVE  DrohnenIInv' /\ UNCHANGED drohne
    <3>1. UNCHANGED drohne
      BY <2>1 DEF PilotBearbeiten, FlugbewegungEintragen
    <3> QED
      BY <2>1, <3>1, RegisterHaelt, FlugbewegungEintragenHaelt
  <2>2. ASSUME NEW g \in Drohnen,
               \/ \E papiere \in BOOLEAN, status \in {"aktiv", "wartung", "ausgemustert"} :
                    GeraetBearbeiten(w, g, papiere, status)
               \/ \E ergebnis \in {"io", "nio"} : WartungNeu(w, g, ergebnis)
        PROVE  /\ DrohnenIInv'
               /\ \A h \in Drohnen : drohne[h].wartungen \subseteq drohne'[h].wartungen
    BY <2>2, GeraetHaelt, GeraetSchritt
  <2> QED
    BY <1>1, <2>1, <2>2 DEF Register
<1>2. ASSUME NEW w \in Workers, UasEinsatz(w)
      PROVE  DrohnenIInv' /\ UNCHANGED drohne
  BY <1>2, UasEinsatzHaelt DEF UasEinsatz, EinsatzStarten, RolleLoeschen, RolleHinzufuegen,
     EinsatzStatusAendern
<1>3. ASSUME NEW w \in Workers, Flugbuch(w)
      PROVE  DrohnenIInv' /\ UNCHANGED drohne
  <2>1. UNCHANGED drohne
    BY <1>3 DEF Flugbuch, FlugNeuLesen, AbschlussLesen, ChecklisteSpeichern, NachflugLesen,
       EreignisNeu, MedienHinzufuegen, MedienLoeschen, MedienStatusAendern, MeldeketteLesen
  <2> QED
    BY <1>3, <2>1, FlugNeuLesenHaelt, AbschlussLesenHaelt, ChecklisteHaelt, EreignisHaelt,
       NachflugUndMeldungLesenHalten, MedienUndTagHalten DEF Flugbuch
<1>4. ASSUME NEW w \in Workers, DrohnenSchreiben(w)
      PROVE  DrohnenIInv' /\ UNCHANGED drohne
  <2>1. UNCHANGED drohne
    BY <1>4 DEF DrohnenSchreiben, FlugNeuSchreiben, AbschlussSchreiben, BewegungSchreiben,
       NachflugSchreiben, MeldeketteSchreiben
  <2> QED
    BY <1>4, <2>1, FlugNeuSchreibenHaelt, AbschlussSchreibenHaelt, BewegungSchreibenHaelt,
       NachflugSchreibenHaelt, LoslassenHaelt DEF DrohnenSchreiben
<1>5. ASSUME NEW w \in Workers, DrohnenWorkerStirbt(w)
      PROVE  DrohnenIInv' /\ UNCHANGED drohne
  BY <1>5, LoslassenHaelt DEF DrohnenWorkerStirbt
<1>6. ASSUME DrohnenTagVergeht
      PROVE  DrohnenIInv' /\ UNCHANGED drohne
  BY <1>6, MedienUndTagHalten DEF DrohnenTagVergeht
<1>7. ASSUME UNCHANGED drohnenVars
      PROVE  DrohnenIInv' /\ UNCHANGED drohne
  <2>1. UNCHANGED <<dUmfang, dWorker, tag, drohne, einsatzU, flug, bewegung, hand, absturz>>
    BY <1>7 DEF drohnenVars
  <2>2. /\ tag \in Nat /\ drohne = [g \in Drohnen |-> drohne[g]]
        /\ \A g \in Drohnen : DOMAIN drohne[g] = {"papiere", "status", "wartungen"}
        /\ einsatzU \in [status : EinsatzStatus] \cup {None}
    BY DEF DrohnenIInv, DrohnenFormen
  <2> QED
    BY <2>1, <2>2, RuhtHaelt
<1> QED
  BY <1>1, <1>2, <1>3, <1>4, <1>5, <1>6, <1>7 DEF DrohnenNext

LEMMA DrohnenTypen == DrohnenIInv => DrohnenTypeOK
BY DEF DrohnenTypeOK, DrohnenIInv, DrohnenFormen, HaendePassen, HandPasst, BewegungenPassen,
   DrohneAngelegt

\* With one worker every counted movement of a flight stands for another flight.
LEMMA GezaehlteSindGeflogen == DrohnenIInv => GezaehltesIstGeflogen
<1> SUFFICES ASSUME DrohnenIInv, EinDrohnenWorker, NEW p \in Piloten, Freigabe(p) # "rot"
             PROVE  Cardinality({f \in DrohneAngelegt :
                                   /\ flug[f].pilot = p /\ flug[f].status = "abgeschlossen"
                                   /\ flug[f].tag >= tag - CURRENCY_DAYS})
                      + Cardinality({b \in Aktuelle(p) : b.flug = None}) >= CURRENCY_MINCOUNT
  BY DEF GezaehltesIstGeflogen
<1> DEFINE F == {f \in DrohneAngelegt : /\ flug[f].pilot = p /\ flug[f].status = "abgeschlossen"
                                        /\ flug[f].tag >= tag - CURRENCY_DAYS}
           H == {b \in Aktuelle(p) : b.flug = None}
           G == {b \in Aktuelle(p) : b.flug # None}
           i == [b \in G |-> b.flug]
<1>1. F \in SUBSET DrohneAngelegt /\ H \in SUBSET bewegung /\ G \in SUBSET bewegung
  BY DEF Aktuelle
<1>2. IsFiniteSet(bewegung) /\ IsFiniteSet(DrohneAngelegt)
  BY AngelegteEndlich DEF DrohnenIInv, BewegungenPassen
<1>3. IsFiniteSet(F) /\ IsFiniteSet(H) /\ IsFiniteSet(G)
  BY <1>1, <1>2, FS_Subset
<1>4. Cardinality(G) <= Cardinality(F)
  <2>1. \A b \in G : b.flug \in F
    BY DEF Aktuelle, DrohnenIInv, BewegungenPassen
  <2>2. \A b, c \in G : b.flug = c.flug => b = c
    BY DEF Aktuelle, DrohnenIInv, EinzelnStimmt
  <2>3. i \in Injection(G, F)
    BY <2>1, <2>2 DEF Injection, IsInjective
  <2> QED
    BY <1>3, <2>3, FS_Injection
<1>5. Aktuelle(p) = H \cup G /\ H \cap G = {}
  OBVIOUS
<1>6. ~(Cardinality(Aktuelle(p)) < CURRENCY_MINCOUNT)
  BY DEF Freigabe
<1> HIDE DEF F, H, G, i
<1>7. Cardinality(Aktuelle(p)) = Cardinality(H) + Cardinality(G)
  <2>1. Cardinality(H \cup G) = Cardinality(H) + Cardinality(G) - Cardinality(H \cap G)
    BY <1>3, FS_Union
  <2>2. Cardinality(H \cap G) = 0
    BY <1>5, FS_EmptySet
  <2>3. Cardinality(H) \in Nat /\ Cardinality(G) \in Nat
    BY <1>3, FS_CardinalityType
  <2> QED
    BY <1>5, <2>1, <2>2, <2>3
<1>8. Cardinality(F) + Cardinality(H) >= CURRENCY_MINCOUNT
  <2>1. Cardinality(F) \in Nat /\ Cardinality(H) \in Nat /\ Cardinality(G) \in Nat
    BY <1>3, FS_CardinalityType
  <2> QED
    BY <1>4, <1>6, <1>7, <2>1, DrohnenAssumption
<1> QED
  BY <1>8 DEF F, H

\* A defect that is entered stays in the log, and the device grounded.
LEMMA MangelBleibt ==
  ASSUME DrohnenIInv, [DrohnenNext]_drohnenVars, NEW g \in Drohnen,
         \E e \in drohne[g].wartungen : e.ergebnis = "nio"
  PROVE  ~Einsatzbereit(g)'
BY DrohnenSchritt DEF Einsatzbereit, OhneMangel

\* What the drone log promises, for every number of workers, flights, pilots and devices:
\* flights numbered, unaltered and counted once, no movement lost but to a crash, no
\* defective device that is ready.
THEOREM DrohnenHaelt == DrohnenSpec => DrohnenVersprechen
<1>1. DrohnenIInv /\ [DrohnenNext]_drohnenVars => DrohnenIInv'
  BY DrohnenSchritt
<1>2. DrohnenIInv /\ [DrohnenNext]_drohnenVars =>
        \A g \in Drohnen : (\E e \in drohne[g].wartungen : e.ergebnis = "nio")
                             => ~Einsatzbereit(g)'
  BY MangelBleibt
<1>3. DrohnenIInv => FluegeDurchnummeriert /\ AuditHashStimmt /\ GeflogenesZaehlt
  BY DEF DrohnenIInv
<1> QED
  BY <1>1, <1>2, <1>3, DrohnenAmAnfang, DrohnenTypen, GezaehlteSindGeflogen, PTL
  DEF DrohnenSpec, DrohnenVersprechen, MangelSperrt

-----------------------------------------------------------------------------
(* Files and the quota *)

\* A request is of a user and a worker of the instance, a deletion about one file.
AnfragenPassen ==
  \A u \in Laufend :
    LET a == medAnfrage[u] IN
    /\ a.worker \in mdUmfang.worker
    /\ ~a.loeschen => a.wer \in mdUmfang.wer
    /\ a.loeschen => \E f \in Dateien : a.rest = {f} /\ a.wartet \in {f, None}

\* The counter of the leading organisation is charged with what the request uploads.
Belastet(u) ==
  ~medAnfrage[u].loeschen /\ Zaehlt(medAnfrage[u].weg, medAnfrage[u].wer)

\* The lock is that of such an upload.
SperrePasst == sperre # None => sperre \in Laufend /\ Belastet(sperre)

\* The files a deletion is about to release.
InLoeschung ==
  {f \in Dateien : \E u \in Laufend : medAnfrage[u].loeschen /\ medAnfrage[u].rest = {f}}

\* What an upload has reserved it holds the lock for, and the quota has room for it.
ReserviertPasst ==
  /\ belegt <= Quota
  /\ \A u \in Laufend : Belastet(u) =>
       /\ medAnfrage[u].drin # {} => sperre = u
       /\ sperre = u => belegt + Bytes(medAnfrage[u].drin) <= Quota

\* The counter covers the rows and what is about to be released.
ZaehlerDeckt == Bytes(MitZeile \cup InLoeschung) <= belegt

MedienIInv ==
  /\ MedienTypeOK /\ AnfragenPassen /\ SperrePasst /\ ReserviertPasst
  /\ NurEigene /\ ~doppelt => ZaehlerDeckt

-----------------------------------------------------------------------------
(* Bytes *)

BytesVon(D) == UNION {{f} \X (1..Groesse[f]) : f \in D}

\* The bytes of one file.
LEMMA DateiBytes ==
  ASSUME NEW f \in Dateien
  PROVE  /\ IsFiniteSet({f} \X (1..Groesse[f]))
         /\ Cardinality({f} \X (1..Groesse[f])) = Groesse[f] /\ Groesse[f] \in Nat
<1> DEFINE n == Groesse[f]
<1>1. n \in Nat \ {0}
  BY MedienAssumption
<1> HIDE DEF n
<1>2. IsFiniteSet(1..n) /\ Cardinality(1..n) = n
  BY <1>1, FS_Interval
<1>3. IsFiniteSet({f}) /\ Cardinality({f}) = 1
  BY FS_Singleton
<1>4. IsFiniteSet({f} \X (1..n)) /\ Cardinality({f} \X (1..n)) = 1 * n
  BY <1>2, <1>3, FS_Product
<1> QED
  BY <1>1, <1>4 DEF n

LEMMA BytesEndlich ==
  ASSUME NEW D \in SUBSET Dateien
  PROVE  IsFiniteSet(BytesVon(D)) /\ Bytes(D) = Cardinality(BytesVon(D)) /\ Bytes(D) \in Nat
<1> DEFINE S == {{f} \X (1..Groesse[f]) : f \in D}
           z == [f \in D |-> {f} \X (1..Groesse[f])]
<1>1. IsFiniteSet(D)
  BY MedienAssumption, FS_Subset
<1>2. z \in Surjection(D, S)
  BY DEF Surjection
<1>3. IsFiniteSet(S)
  BY <1>1, <1>2, FS_Surjection
<1>4. \A T \in S : IsFiniteSet(T)
  BY DateiBytes
<1>5. IsFiniteSet(BytesVon(D))
  BY <1>3, <1>4, FS_UNION DEF BytesVon
<1> QED
  BY <1>5, FS_CardinalityType DEF Bytes, BytesVon

LEMMA BytesMonoton ==
  ASSUME NEW D \in SUBSET Dateien, NEW E \in SUBSET D
  PROVE  Bytes(E) <= Bytes(D)
<1>1. BytesVon(E) \in SUBSET BytesVon(D)
  BY DEF BytesVon
<1>2. IsFiniteSet(BytesVon(D)) /\ Bytes(D) = Cardinality(BytesVon(D))
      /\ Bytes(E) = Cardinality(BytesVon(E))
  BY BytesEndlich
<1> QED
  BY <1>1, <1>2, FS_Subset

LEMMA BytesSubadditiv ==
  ASSUME NEW D \in SUBSET Dateien, NEW E \in SUBSET Dateien
  PROVE  Bytes(D \cup E) <= Bytes(D) + Bytes(E)
<1> DEFINE A == BytesVon(D)
           B == BytesVon(E)
<1>1. BytesVon(D \cup E) = A \cup B
  BY DEF BytesVon
<1>2. /\ IsFiniteSet(A) /\ IsFiniteSet(B) /\ Bytes(D) = Cardinality(A)
      /\ Bytes(E) = Cardinality(B)
  BY BytesEndlich
<1>3. Bytes(D \cup E) = Cardinality(A \cup B)
  BY <1>1, BytesEndlich
<1> HIDE DEF A, B
<1>4. Cardinality(A \cup B) = Cardinality(A) + Cardinality(B) - Cardinality(A \cap B)
  BY <1>2, FS_Union
<1>5. (A \cap B) \in SUBSET A
  OBVIOUS
<1>6. Cardinality(A) \in Nat /\ Cardinality(B) \in Nat /\ Cardinality(A \cap B) \in Nat
  BY <1>2, <1>5, FS_Subset, FS_CardinalityType
<1> QED
  BY <1>2, <1>3, <1>4, <1>6

LEMMA BytesOhne ==
  ASSUME NEW D \in SUBSET Dateien, NEW f \in D
  PROVE  Bytes(D) = Bytes(D \ {f}) + Groesse[f]
<1> DEFINE A == BytesVon(D \ {f})
           B == {f} \X (1..Groesse[f])
<1>1. BytesVon(D) = A \cup B /\ A \cap B = {}
  BY DEF BytesVon
<1>2. IsFiniteSet(A) /\ Bytes(D \ {f}) = Cardinality(A)
  BY BytesEndlich
<1>3. IsFiniteSet(B) /\ Cardinality(B) = Groesse[f] /\ Groesse[f] \in Nat
  BY DateiBytes
<1>4. Bytes(D) = Cardinality(A \cup B)
  BY <1>1, BytesEndlich
<1> HIDE DEF A, B
<1>5. Cardinality(A \cup B) = Cardinality(A) + Cardinality(B) - Cardinality(A \cap B)
  BY <1>2, <1>3, FS_Union
<1>6. Cardinality(A \cap B) = 0
  BY <1>1, FS_EmptySet
<1>7. Cardinality(A) \in Nat
  BY <1>2, FS_CardinalityType
<1> QED
  BY <1>2, <1>3, <1>4, <1>5, <1>6, <1>7

LEMMA KeineBytes == Bytes({}) = 0
<1>1. UNION {{f} \X (1..Groesse[f]) : f \in {}} = {}
  OBVIOUS
<1> QED
  BY <1>1, FS_EmptySet DEF Bytes

-----------------------------------------------------------------------------
(* Requests *)

LEMMA LaufendeForm ==
  ASSUME MedienTypeOK, NEW u \in Laufend
  PROVE  /\ u \in Anfragen /\ u # None /\ medAnfrage[u] \in AnfrageZeilen
         /\ medAnfrage[u].worker \in Workers /\ medAnfrage[u].weg \in Wege
         /\ medAnfrage[u].wer \in Hochladende /\ medAnfrage[u].loeschen \in BOOLEAN
         /\ medAnfrage[u].rest \in SUBSET Dateien /\ medAnfrage[u].drin \in SUBSET Dateien
         /\ medAnfrage[u].wartet \in Dateien \cup {None}
<1>1. u \in Anfragen /\ u # None /\ medAnfrage[u] \in AnfrageZeilen
  BY MedienAssumption DEF MedienTypeOK, Laufend
<1> QED
  BY <1>1 DEF AnfrageZeilen

\* A request begins or goes on.
LEMMA AnfrageWird ==
  ASSUME MedienTypeOK, NEW u \in Anfragen, NEW z \in AnfrageZeilen,
         medAnfrage' = [medAnfrage EXCEPT ![u] = z]
  PROVE  /\ medAnfrage' \in [Anfragen -> AnfrageZeilen \cup {None}]
         /\ Laufend' = Laufend \cup {u} /\ medAnfrage'[u] = z
         /\ \A v \in Laufend \ {u} : medAnfrage'[v] = medAnfrage[v]
BY MedienAssumption DEF MedienTypeOK, Laufend

\* Some requests end; what they held is let go.
LEMMA AnfragenEnden ==
  ASSUME MedienTypeOK, NEW F \in SUBSET Anfragen,
         medAnfrage' = [u \in Anfragen |-> IF u \in F THEN None ELSE medAnfrage[u]]
  PROVE  /\ medAnfrage' \in [Anfragen -> AnfrageZeilen \cup {None}]
         /\ Laufend' = Laufend \ F
         /\ \A v \in Laufend \ F : medAnfrage'[v] = medAnfrage[v]
BY DEF MedienTypeOK, Laufend

LEMMA EineEndet ==
  ASSUME MedienTypeOK, NEW u \in Anfragen, medAnfrage' = [medAnfrage EXCEPT ![u] = None]
  PROVE  medAnfrage' = [v \in Anfragen |-> IF v \in {u} THEN None ELSE medAnfrage[v]]
BY DEF MedienTypeOK

LEMMA LoeschungenSindDateien ==
  InLoeschung \subseteq Dateien /\ MitZeile \subseteq Dateien
BY DEF InLoeschung, MitZeile

\* The counter covers fewer rows and deletions as well.
LEMMA ZaehlerDecktWeniger ==
  ASSUME MedienTypeOK, AnfragenPassen, ZaehlerDeckt, UNCHANGED belegt,
         (MitZeile \cup InLoeschung)' \subseteq MitZeile \cup InLoeschung
  PROVE  ZaehlerDeckt'
<1> DEFINE D == MitZeile \cup InLoeschung
           E == (MitZeile \cup InLoeschung)'
<1>1. D \in SUBSET Dateien /\ E \in SUBSET D
  BY LoeschungenSindDateien
<1>2. Bytes(E) <= Bytes(D) /\ Bytes(D) \in Nat /\ Bytes(E) \in Nat
  BY <1>1, BytesMonoton, BytesEndlich
<1>3. Bytes(D) <= belegt /\ belegt \in Nat
  BY DEF ZaehlerDeckt, MedienTypeOK
<1>4. Bytes(E) <= belegt
  BY <1>2, <1>3
<1>5. ZaehlerDeckt' <=> Bytes(E) <= belegt'
  BY DEF ZaehlerDeckt, Bytes
<1> QED
  BY <1>4, <1>5

-----------------------------------------------------------------------------

LEMMA MedienAmAnfang == MedienInit => MedienIInv
<1> SUFFICES ASSUME MedienInit PROVE MedienIInv
  OBVIOUS
<1>1. Laufend = {} /\ InLoeschung = {} /\ MitZeile = {}
  BY DEF MedienInit, Laufend, InLoeschung, MitZeile
<1>2. ReserviertPasst /\ ZaehlerDeckt
  BY <1>1, KeineBytes, MedienAssumption DEF MedienInit, ReserviertPasst, ZaehlerDeckt
<1>3. MedienTypeOK
  BY DEF MedienInit, MedienTypeOK
<1> QED
  BY <1>1, <1>2, <1>3
  DEF MedienInit, MedienIInv, AnfragenPassen, SperrePasst

\* Requests that end without a commit.
LEMMA AbbruchHaelt ==
  ASSUME MedienIInv, NEW F \in SUBSET Anfragen,
         medAnfrage' = [u \in Anfragen |-> IF u \in F THEN None ELSE medAnfrage[u]],
         sperre' = IF sperre \in F THEN None ELSE sperre,
         UNCHANGED <<mdUmfang, doppelt, datei, zeile, belegt>>
  PROVE  MedienIInv'
<1>1. /\ medAnfrage' \in [Anfragen -> AnfrageZeilen \cup {None}] /\ Laufend' = Laufend \ F
      /\ \A v \in Laufend \ F : medAnfrage'[v] = medAnfrage[v]
  BY AnfragenEnden DEF MedienIInv
<1>2. MedienTypeOK'
  BY <1>1 DEF MedienIInv, MedienTypeOK
<1>3. AnfragenPassen' /\ SperrePasst'
  BY <1>1 DEF MedienIInv, AnfragenPassen, SperrePasst, Belastet
<1>4. ReserviertPasst'
  <2>1. ReserviertPasst
    BY DEF MedienIInv
  <2> SUFFICES ASSUME NEW v \in Laufend \ F, Belastet(v)
               PROVE  /\ medAnfrage[v].drin # {} => sperre' = v
                      /\ sperre' = v => belegt + Bytes(medAnfrage[v].drin) <= Quota
    BY <1>1, <2>1 DEF ReserviertPasst, Bytes, Belastet
  <2>2. v # None
    BY LaufendeForm DEF MedienIInv
  <2> QED
    BY <2>1, <2>2 DEF ReserviertPasst
<1>5. ASSUME NurEigene', ~doppelt'
      PROVE  ZaehlerDeckt'
  <2>1. ZaehlerDeckt
    BY <1>5 DEF MedienIInv, NurEigene
  <2>2. (MitZeile \cup InLoeschung)' \subseteq MitZeile \cup InLoeschung
    BY <1>1 DEF MitZeile, InLoeschung
  <2> QED
    BY <2>1, <2>2, ZaehlerDecktWeniger DEF MedienIInv
<1> QED
  BY <1>2, <1>3, <1>4, <1>5 DEF MedienIInv

\* A request begins; it has reserved nothing yet.
LEMMA BeginnHaelt ==
  ASSUME MedienIInv, NEW u \in Anfragen \ Laufend, NEW z \in AnfrageZeilen,
         medAnfrage' = [medAnfrage EXCEPT ![u] = z],
         ~z.loeschen => z.wer \in mdUmfang.wer, z.worker \in mdUmfang.worker, z.drin = {},
         z.wartet = None, z.loeschen => \E f \in MitZeile : z.rest = {f},
         UNCHANGED <<mdUmfang, doppelt, datei, zeile, belegt, sperre>>
  PROVE  MedienIInv'
<1>1. /\ medAnfrage' \in [Anfragen -> AnfrageZeilen \cup {None}]
      /\ Laufend' = Laufend \cup {u} /\ medAnfrage'[u] = z
      /\ \A v \in Laufend : medAnfrage'[v] = medAnfrage[v]
  BY AnfrageWird DEF MedienIInv
<1>2. MedienTypeOK'
  BY <1>1 DEF MedienIInv, MedienTypeOK
<1>3. AnfragenPassen'
  BY <1>1, MedienAssumption DEF MedienIInv, AnfragenPassen, MitZeile
<1>5. SperrePasst'
  BY <1>1 DEF MedienIInv, SperrePasst, Belastet
<1>6. ReserviertPasst'
  <2>1. ReserviertPasst
    BY DEF MedienIInv
  <2>2. sperre # u
    BY MedienAssumption DEF MedienIInv, SperrePasst
  <2> SUFFICES ASSUME NEW v \in Laufend \cup {u}, Belastet(v)'
               PROVE  /\ medAnfrage'[v].drin # {} => sperre = v
                      /\ sperre = v => belegt + Bytes(medAnfrage'[v].drin) <= Quota
    BY <1>1, <2>1 DEF ReserviertPasst, Bytes, Belastet
  <2> QED
    BY <1>1, <2>1, <2>2 DEF ReserviertPasst, Belastet
<1>7. ASSUME NurEigene', ~doppelt'
      PROVE  ZaehlerDeckt'
  <2>1. ZaehlerDeckt
    BY <1>7 DEF MedienIInv, NurEigene
  <2>2. (MitZeile \cup InLoeschung)' \subseteq MitZeile \cup InLoeschung
    BY <1>1 DEF MitZeile, InLoeschung
  <2> QED
    BY <2>1, <2>2, ZaehlerDecktWeniger DEF MedienIInv
<1> QED
  BY <1>2, <1>3, <1>5, <1>6, <1>7 DEF MedienIInv

LEMMA HochladenHaelt ==
  ASSUME MedienIInv, NEW u \in Anfragen, NEW w \in Workers, NEW weg \in Wege,
         NEW wer \in Hochladende, NEW D \in SUBSET Dateien, Hochladen(u, w, weg, wer, D)
  PROVE  MedienIInv'
<1> DEFINE z == [worker |-> w, weg |-> weg, wer |-> wer, rest |-> D, drin |-> {},
                 wartet |-> None, loeschen |-> FALSE]
<1>1. /\ u \notin Laufend /\ w \in mdUmfang.worker /\ wer \in mdUmfang.wer
      /\ medAnfrage' = [medAnfrage EXCEPT ![u] = z]
      /\ UNCHANGED <<mdUmfang, doppelt, datei, zeile, belegt, sperre>>
  BY DEF Hochladen
<1>2. /\ z \in AnfrageZeilen /\ z.worker = w /\ z.wer = wer /\ z.drin = {} /\ z.wartet = None
      /\ z.loeschen = FALSE
  BY DEF AnfrageZeilen
<1> HIDE DEF z
<1> QED
  BY <1>1, <1>2, BeginnHaelt

LEMMA LoeschenHaelt ==
  ASSUME MedienIInv, NEW u \in Anfragen, NEW w \in Workers, NEW f \in Dateien, Loeschen(u, w, f)
  PROVE  MedienIInv'
<1> DEFINE z == [worker |-> w, weg |-> zeile[f].weg, wer |-> zeile[f].wer, rest |-> {f},
                 drin |-> {}, wartet |-> None, loeschen |-> TRUE]
<1>1. /\ u \notin Laufend /\ w \in mdUmfang.worker
      /\ zeile[f] # None /\ medAnfrage' = [medAnfrage EXCEPT ![u] = z]
      /\ UNCHANGED <<mdUmfang, doppelt, datei, zeile, belegt, sperre>>
  BY DEF Loeschen
<1>2. zeile[f].weg \in Wege /\ zeile[f].wer \in Hochladende
  BY <1>1 DEF MedienIInv, MedienTypeOK, DateiZeilen
<1>3. /\ z \in AnfrageZeilen /\ z.worker = w /\ z.wer = zeile[f].wer /\ z.drin = {}
      /\ z.wartet = None /\ z.rest = {f} /\ z.loeschen = TRUE
  BY <1>2 DEF AnfrageZeilen
<1> HIDE DEF z
<1>4. f \in MitZeile
  BY <1>1 DEF MitZeile
<1> QED
  BY <1>1, <1>3, <1>4, BeginnHaelt

-----------------------------------------------------------------------------

\* The file is on the disk and waits for its reservation, or off it and for its release.
LEMMA WartenHaelt ==
  ASSUME MedienIInv, NEW u \in Anfragen, NEW f \in Dateien, Ablegen(u, f) \/ Entfernen(u, f)
  PROVE  MedienIInv'
<1> DEFINE a == medAnfrage[u]
           z == [a EXCEPT !.wartet = f]
<1>1. /\ u \in Laufend /\ f \in a.rest /\ datei' \in {datei \cup {f}, datei \ {f}}
      /\ medAnfrage' = [medAnfrage EXCEPT ![u] = z]
      /\ UNCHANGED <<mdUmfang, doppelt, zeile, belegt, sperre>>
  BY DEF Ablegen, Entfernen
<1>2. a \in AnfrageZeilen
  BY <1>1, LaufendeForm DEF MedienIInv
<1>3. /\ a.worker \in mdUmfang.worker /\ (~a.loeschen => a.wer \in mdUmfang.wer)
      /\ a.loeschen => a.rest = {f}
  BY <1>1 DEF MedienIInv, AnfragenPassen
<1> HIDE DEF a
<1>4. /\ z \in AnfrageZeilen /\ z.worker = a.worker /\ z.wer = a.wer /\ z.drin = a.drin
      /\ z.weg = a.weg /\ z.wartet = f /\ z.loeschen = a.loeschen /\ z.rest = a.rest
  BY <1>2 DEF AnfrageZeilen
<1> HIDE DEF z
<1>5. /\ medAnfrage' \in [Anfragen -> AnfrageZeilen \cup {None}]
      /\ Laufend' = Laufend /\ medAnfrage'[u] = z
      /\ \A v \in Laufend \ {u} : medAnfrage'[v] = medAnfrage[v]
  <2>1. MedienTypeOK /\ Laufend \cup {u} = Laufend /\ u \in Anfragen
    BY <1>1 DEF MedienIInv
  <2> QED
    BY <1>1, <1>4, <2>1, AnfrageWird
<1>6. MedienTypeOK'
  BY <1>1, <1>5 DEF MedienIInv, MedienTypeOK
<1>7. AnfragenPassen'
  BY <1>1, <1>3, <1>4, <1>5 DEF MedienIInv, AnfragenPassen
<1>9. \A v \in Laufend :
        /\ medAnfrage'[v].drin = medAnfrage[v].drin /\ medAnfrage'[v].loeschen = medAnfrage[v].loeschen
        /\ medAnfrage'[v].rest = medAnfrage[v].rest
        /\ Belastet(v)' <=> Belastet(v)
  BY <1>4, <1>5 DEF a, Belastet
<1>10. SperrePasst'
  BY <1>1, <1>5, <1>9 DEF MedienIInv, SperrePasst
<1>11. ReserviertPasst'
  <2>1. ReserviertPasst
    BY DEF MedienIInv
  <2> SUFFICES ASSUME NEW v \in Laufend, Belastet(v)
               PROVE  /\ medAnfrage[v].drin # {} => sperre = v
                      /\ sperre = v => belegt + Bytes(medAnfrage[v].drin) <= Quota
    BY <1>1, <1>5, <1>9, <2>1 DEF ReserviertPasst, Bytes
  <2> QED
    BY <2>1 DEF ReserviertPasst
<1>12. ASSUME NurEigene', ~doppelt'
       PROVE  ZaehlerDeckt'
  <2>1. ZaehlerDeckt
    BY <1>1, <1>12 DEF MedienIInv, NurEigene
  <2>2. (MitZeile \cup InLoeschung)' \subseteq MitZeile \cup InLoeschung
    BY <1>1, <1>3, <1>4, <1>5, <1>9 DEF MitZeile, InLoeschung
  <2> QED
    BY <1>1, <2>1, <2>2, ZaehlerDecktWeniger DEF MedienIInv
<1> QED
  BY <1>1, <1>6, <1>7, <1>10, <1>11, <1>12 DEF MedienIInv

\* After a file: what the upload has entered fits into the quota while it holds the lock,
\* and is nothing if another one holds it.
LEMMA WeiterHaelt ==
  ASSUME MedienIInv, NEW u \in Laufend, NEW drin \in SUBSET Dateien, NEW haelt \in BOOLEAN,
         ~medAnfrage[u].loeschen, WeiterMit(u, drin, haelt),
         UNCHANGED <<mdUmfang, doppelt, datei>>,
         haelt => Belastet(u),
         Belastet(u) =>
           \/ haelt /\ ~Gesperrt(u) /\ belegt + Bytes(drin) <= Quota
           \/ ~haelt /\ Gesperrt(u) /\ drin = {}
  PROVE  MedienIInv'
<1> DEFINE a == medAnfrage[u]
           R == a.rest \ {a.wartet}
           z == [a EXCEPT !.rest = R, !.drin = drin, !.wartet = None]
<1>1. /\ a \in AnfrageZeilen /\ u \in Anfragen /\ u # None /\ a.loeschen = FALSE
      /\ a.worker \in mdUmfang.worker /\ a.wer \in mdUmfang.wer
      /\ a.weg \in Wege /\ a.wer \in Hochladende /\ a.worker \in Workers
      /\ R \in SUBSET Dateien
  BY LaufendeForm DEF MedienIInv, AnfragenPassen
<1>2. CASE R # {}
  <2>1. /\ medAnfrage' = [medAnfrage EXCEPT ![u] = z] /\ sperre' = IF haelt THEN u ELSE sperre
        /\ UNCHANGED <<zeile, belegt>>
    BY <1>2 DEF WeiterMit
  <2> HIDE DEF a, R
  <2>2. /\ z \in AnfrageZeilen /\ z.worker = a.worker /\ z.wer = a.wer /\ z.drin = drin
        /\ z.weg = a.weg /\ z.wartet = None /\ z.loeschen = FALSE
    BY <1>1 DEF AnfrageZeilen
  <2> HIDE DEF z
  <2>3. /\ medAnfrage' \in [Anfragen -> AnfrageZeilen \cup {None}]
        /\ Laufend' = Laufend /\ medAnfrage'[u] = z
        /\ \A v \in Laufend \ {u} : medAnfrage'[v] = medAnfrage[v]
    <3>1. MedienTypeOK /\ Laufend \cup {u} = Laufend
      BY DEF MedienIInv
    <3> QED
      BY <1>1, <2>1, <2>2, <3>1, AnfrageWird
  <2>4. MedienTypeOK'
    BY <1>1, <2>1, <2>3 DEF MedienIInv, MedienTypeOK
  <2>5. AnfragenPassen'
    BY <1>1, <2>2, <2>3 DEF MedienIInv, AnfragenPassen
  <2>6. \A v \in Laufend : Belastet(v)' <=> Belastet(v)
    BY <1>1, <2>2, <2>3 DEF Belastet, a
  <2>7. SperrePasst'
    BY <1>1, <2>1, <2>3, <2>6 DEF MedienIInv, SperrePasst
  <2>8. ReserviertPasst'
    <3>1. ReserviertPasst
      BY DEF MedienIInv
    <3> SUFFICES ASSUME NEW v \in Laufend, Belastet(v)
                 PROVE  /\ medAnfrage'[v].drin # {} => sperre' = v
                        /\ sperre' = v => belegt + Bytes(medAnfrage'[v].drin) <= Quota
      BY <2>1, <2>3, <2>6, <3>1 DEF ReserviertPasst, Bytes
    <3>2. CASE v = u
      BY <1>1, <2>1, <2>2, <2>3, <3>1, <3>2 DEF Gesperrt
    <3>3. CASE v # u
      <4>1. /\ v # None /\ medAnfrage'[v] = medAnfrage[v]
            /\ medAnfrage[v].drin # {} => sperre = v
            /\ sperre = v => belegt + Bytes(medAnfrage[v].drin) <= Quota
        BY <2>3, <3>1, <3>3, LaufendeForm DEF ReserviertPasst, MedienIInv
      <4> QED
        BY <1>1, <2>1, <3>3, <4>1 DEF Gesperrt
    <3> QED
      BY <3>2, <3>3
  <2>9. ASSUME NurEigene', ~doppelt'
        PROVE  ZaehlerDeckt'
    <3>1. ZaehlerDeckt
      BY <2>9 DEF MedienIInv, NurEigene
    <3>2. (MitZeile \cup InLoeschung)' \subseteq MitZeile \cup InLoeschung
      BY <1>1, <2>1, <2>2, <2>3 DEF MitZeile, InLoeschung, a
    <3> QED
      BY <2>1, <3>1, <3>2, ZaehlerDecktWeniger DEF MedienIInv
  <2> QED
    BY <2>4, <2>5, <2>7, <2>8, <2>9 DEF MedienIInv
<1>3. CASE R = {}
  <2> DEFINE neu == [weg |-> a.weg, wer |-> a.wer]
             plus == IF Zaehlt(a.weg, a.wer) THEN Bytes(drin) ELSE 0
  <2>1. /\ zeile' = [f \in Dateien |-> IF f \in drin THEN neu ELSE zeile[f]]
        /\ belegt' = belegt + plus
        /\ medAnfrage' = [medAnfrage EXCEPT ![u] = None]
        /\ sperre' = IF sperre = u THEN None ELSE sperre
    BY <1>3 DEF WeiterMit
  <2>2. neu \in DateiZeilen
    BY <1>1 DEF DateiZeilen
  <2>3. plus \in Nat /\ Bytes(drin) \in Nat /\ belegt \in Nat
    BY BytesEndlich DEF MedienIInv, MedienTypeOK
  <2> HIDE DEF a, neu, plus
  <2>4. /\ medAnfrage' \in [Anfragen -> AnfrageZeilen \cup {None}] /\ Laufend' = Laufend \ {u}
        /\ \A v \in Laufend \ {u} : medAnfrage'[v] = medAnfrage[v]
    <3>1. medAnfrage' = [v \in Anfragen |-> IF v \in {u} THEN None ELSE medAnfrage[v]]
      BY <1>1, <2>1, EineEndet DEF MedienIInv
    <3>2. {u} \in SUBSET Anfragen /\ MedienTypeOK
      BY <1>1 DEF MedienIInv
    <3> QED
      BY <3>1, <3>2, AnfragenEnden
  <2>5. zeile' \in [Dateien -> DateiZeilen \cup {None}] /\ MitZeile' \subseteq MitZeile \cup drin
    BY <2>1, <2>2 DEF MedienIInv, MedienTypeOK, MitZeile
  <2>6. MedienTypeOK'
    BY <2>1, <2>3, <2>4, <2>5 DEF MedienIInv, MedienTypeOK
  <2>7. AnfragenPassen' /\ SperrePasst'
    BY <2>1, <2>4 DEF MedienIInv, AnfragenPassen, SperrePasst, Belastet
  <2>8. ReserviertPasst /\ belegt <= Quota /\ Quota \in Nat
    BY MedienAssumption DEF MedienIInv, ReserviertPasst
  <2>9. /\ Belastet(u) => belegt' = belegt + Bytes(drin)
        /\ ~Belastet(u) => belegt' = belegt
    BY <1>1, <2>1, <2>3 DEF Belastet, plus, a
  <2>10. belegt' <= Quota /\ (Gesperrt(u) => belegt' = belegt)
    BY <2>3, <2>8, <2>9, KeineBytes
  <2>11. ReserviertPasst'
    <3> SUFFICES ASSUME NEW v \in Laufend \ {u}, Belastet(v)
                 PROVE  /\ medAnfrage[v].drin # {} => sperre' = v
                        /\ sperre' = v => belegt' + Bytes(medAnfrage[v].drin) <= Quota
      BY <2>4, <2>10 DEF ReserviertPasst, Bytes, Belastet
    <3>1. /\ v # None
          /\ medAnfrage[v].drin # {} => sperre = v
          /\ sperre = v => belegt + Bytes(medAnfrage[v].drin) <= Quota
      BY <2>8, LaufendeForm DEF MedienIInv, ReserviertPasst
    <3>2. CASE ~Gesperrt(u)
      BY <2>1, <3>1, <3>2 DEF Gesperrt
    <3>3. CASE Gesperrt(u)
      BY <2>1, <2>10, <3>1, <3>3 DEF Gesperrt
    <3> QED
      BY <3>2, <3>3
  <2>12. ASSUME NurEigene', ~doppelt'
         PROVE  ZaehlerDeckt'
    <3> DEFINE D == MitZeile \cup InLoeschung
               E == (MitZeile \cup InLoeschung)'
    <3>1. Belastet(u)
      BY <1>1, <2>12 DEF Zaehlt, NurEigene, Belastet, a
    <3>2. InLoeschung' \subseteq InLoeschung
      BY <2>4 DEF InLoeschung
    <3>3. E \in SUBSET (D \cup drin)
      BY <2>5, <3>2
    <3>4. D \in SUBSET Dateien
      BY LoeschungenSindDateien
    <3>5. Bytes(D) <= belegt
      BY <2>12 DEF MedienIInv, NurEigene, ZaehlerDeckt
    <3> HIDE DEF D, E
    <3>6. /\ Bytes(E) <= Bytes(D \cup drin) /\ Bytes(D \cup drin) <= Bytes(D) + Bytes(drin)
          /\ Bytes(E) \in Nat /\ Bytes(D) \in Nat /\ Bytes(D \cup drin) \in Nat
      BY <3>3, <3>4, BytesMonoton, BytesSubadditiv, BytesEndlich
    <3>7. Bytes(E) <= belegt'
      BY <2>3, <2>9, <3>1, <3>5, <3>6
    <3> QED
      BY <3>7 DEF ZaehlerDeckt, Bytes, E
  <2> QED
    BY <2>6, <2>7, <2>11, <2>12 DEF MedienIInv
<1> QED
  BY <1>2, <1>3

LEMMA ZurueckrollenHaelt ==
  ASSUME MedienIInv, NEW u \in Laufend, Zurueckrollen(u), UNCHANGED <<mdUmfang, doppelt, datei>>
  PROVE  MedienIInv'
<1>1. u \in Anfragen /\ u # None
  BY LaufendeForm DEF MedienIInv
<1>2. medAnfrage' = [v \in Anfragen |-> IF v \in {u} THEN None ELSE medAnfrage[v]]
  BY <1>1, EineEndet DEF Zurueckrollen, MedienIInv
<1>3. /\ {u} \in SUBSET Anfragen /\ sperre' = IF sperre \in {u} THEN None ELSE sperre
      /\ UNCHANGED <<mdUmfang, doppelt, datei, zeile, belegt>>
  BY <1>1 DEF Zurueckrollen
<1> QED
  BY <1>2, <1>3, AbbruchHaelt

LEMMA ReservierenHaelt ==
  ASSUME MedienIInv, NEW u \in Anfragen, Reservieren(u)
  PROVE  MedienIInv'
<1> DEFINE a == medAnfrage[u]
           zaehlt == Zaehlt(a.weg, a.wer)
           dazu == a.drin \cup {a.wartet}
<1>1. /\ u \in Laufend /\ a.wartet # None /\ ~a.loeschen
      /\ UNCHANGED <<mdUmfang, doppelt, datei>>
      /\ zaehlt => ~Gesperrt(u)
      /\ \/ (zaehlt => Passt(u)) /\ WeiterMit(u, dazu, zaehlt)
         \/ zaehlt /\ ~Passt(u) /\ WeiterMit(u, a.drin, TRUE)
         \/ Zurueckrollen(u)
  BY DEF Reservieren
<1>2. a.drin \in SUBSET Dateien /\ dazu \in SUBSET Dateien /\ zaehlt \in BOOLEAN
  BY <1>1, LaufendeForm DEF MedienIInv, Zaehlt
<1>3. zaehlt <=> Belastet(u)
  BY <1>1 DEF Belastet
<1>4. Passt(u) <=> belegt + Bytes(dazu) <= Quota
  BY DEF Passt
<1>5. CASE (zaehlt => Passt(u)) /\ WeiterMit(u, dazu, zaehlt)
  BY <1>1, <1>2, <1>3, <1>4, <1>5, WeiterHaelt
<1>6. CASE zaehlt /\ ~Passt(u) /\ WeiterMit(u, a.drin, TRUE)
  <2>1. /\ belegt <= Quota /\ belegt \in Nat /\ Quota \in Nat
        /\ a.drin # {} => sperre = u
        /\ sperre = u => belegt + Bytes(a.drin) <= Quota
    BY <1>1, <1>3, <1>6, MedienAssumption DEF MedienIInv, ReserviertPasst, MedienTypeOK
  <2>2. belegt + Bytes(a.drin) <= Quota
    BY <2>1, KeineBytes
  <2> QED
    BY <1>1, <1>2, <1>3, <1>6, <2>2, WeiterHaelt
<1> QED
  BY <1>1, <1>5, <1>6, ZurueckrollenHaelt

\* Who waits in vain had nothing reserved, as another one holds the lock.
LEMMA FristablaufHaelt ==
  ASSUME MedienIInv, NEW u \in Anfragen, Fristablauf(u)
  PROVE  MedienIInv'
<1> DEFINE a == medAnfrage[u]
<1>1. u \in Laufend /\ Gesperrt(u) /\ UNCHANGED <<mdUmfang, doppelt, datei>>
  BY DEF Fristablauf
<1>2. \/ ~a.loeschen /\ WeiterMit(u, a.drin, FALSE)
      \/ Zurueckrollen(u)
  BY DEF Fristablauf, NachFrist
<1>3. CASE ~a.loeschen /\ WeiterMit(u, a.drin, FALSE)
  <2>1. Belastet(u) => a.drin = {}
    BY <1>1, <1>3 DEF MedienIInv, ReserviertPasst, Gesperrt
  <2>2. a.drin \in SUBSET Dateien
    BY <1>1, LaufendeForm DEF MedienIInv
  <2> QED
    BY <1>1, <1>3, <2>1, <2>2, WeiterHaelt
<1> QED
  BY <1>1, <1>2, <1>3, ZurueckrollenHaelt

\* A file that no other request is deleting is released once.
LEMMA FreigebenHaelt ==
  ASSUME MedienIInv, NEW u \in Anfragen, Freigeben(u)
  PROVE  MedienIInv'
<1> DEFINE f == medAnfrage[u].wartet
<1>1. /\ u \in Laufend /\ medAnfrage[u].loeschen /\ ~Gesperrt(u) /\ belegt' = NachFreigabe(f)
      /\ zeile' = [zeile EXCEPT ![f] = None] /\ medAnfrage' = [medAnfrage EXCEPT ![u] = None]
      /\ UNCHANGED <<mdUmfang, datei, sperre>>
      /\ doppelt' = (doppelt \/ \E v \in Laufend \ {u} :
                       medAnfrage[v].loeschen /\ medAnfrage[v].rest = medAnfrage[u].rest)
      /\ f # None
  BY DEF Freigeben
<1>2. /\ f \in Dateien /\ Groesse[f] \in Nat /\ belegt \in Nat /\ f # None
      /\ medAnfrage[u].rest = {f}
  BY <1>1, LaufendeForm, MedienAssumption DEF MedienIInv, AnfragenPassen, MedienTypeOK
<1>3. belegt' \in Nat /\ belegt' <= belegt
  BY <1>1, <1>2 DEF NachFreigabe
<1>4. sperre = None
  BY <1>1 DEF Gesperrt, MedienIInv, SperrePasst, Belastet
<1>5. /\ medAnfrage' \in [Anfragen -> AnfrageZeilen \cup {None}] /\ Laufend' = Laufend \ {u}
      /\ \A v \in Laufend \ {u} : medAnfrage'[v] = medAnfrage[v]
  <2>1. medAnfrage' = [v \in Anfragen |-> IF v \in {u} THEN None ELSE medAnfrage[v]]
    BY <1>1, EineEndet DEF MedienIInv
  <2> QED
    BY <2>1, AnfragenEnden DEF MedienIInv
<1>6. zeile' \in [Dateien -> DateiZeilen \cup {None}] /\ MitZeile' = MitZeile \ {f}
  BY <1>1, <1>2 DEF MedienIInv, MedienTypeOK, MitZeile
<1>7. MedienTypeOK'
  BY <1>1, <1>3, <1>5, <1>6 DEF MedienIInv, MedienTypeOK
<1>8. AnfragenPassen' /\ SperrePasst'
  BY <1>1, <1>4, <1>5 DEF MedienIInv, AnfragenPassen, SperrePasst
<1>9. ReserviertPasst'
  <2>1. ReserviertPasst
    BY DEF MedienIInv
  <2>2. belegt' <= Quota
    BY <1>2, <1>3, <2>1, MedienAssumption DEF ReserviertPasst
  <2> SUFFICES ASSUME NEW v \in Laufend \ {u}, Belastet(v)
               PROVE  /\ medAnfrage[v].drin # {} => sperre = v
                      /\ sperre = v => belegt' + Bytes(medAnfrage[v].drin) <= Quota
    BY <1>1, <1>5, <2>2 DEF ReserviertPasst, Bytes, Belastet
  <2>3. v # None
    BY LaufendeForm DEF MedienIInv
  <2> QED
    BY <1>4, <2>1, <2>3 DEF ReserviertPasst
<1>11. ASSUME NurEigene', ~doppelt'
       PROVE  ZaehlerDeckt'
  <2> DEFINE D == MitZeile \cup InLoeschung
             E == (MitZeile \cup InLoeschung)'
  <2>1. D \in SUBSET Dateien /\ f \in D
    BY <1>1, <1>2, LoeschungenSindDateien DEF InLoeschung
  <2>2. f \notin InLoeschung' /\ InLoeschung' \subseteq InLoeschung
    BY <1>1, <1>2, <1>5, <1>11 DEF InLoeschung
  <2>3. E \in SUBSET (D \ {f})
    BY <1>6, <2>2
  <2>4. Bytes(D) <= belegt
    BY <1>1, <1>11 DEF MedienIInv, NurEigene, ZaehlerDeckt
  <2> HIDE DEF D, E, f
  <2>5. (D \ {f}) \in SUBSET Dateien
    BY <2>1
  <2>6. /\ Bytes(D) = Bytes(D \ {f}) + Groesse[f] /\ Bytes(E) <= Bytes(D \ {f})
        /\ Bytes(D) \in Nat /\ Bytes(D \ {f}) \in Nat
    BY <2>1, <2>3, <2>5, BytesOhne, BytesMonoton, BytesEndlich
  <2>7. Bytes(E) \in Nat
    BY <2>3, <2>5, BytesEndlich
  <2>8. belegt' = belegt - Groesse[f]
    BY <1>1, <1>2, <2>4, <2>6 DEF NachFreigabe
  <2>9. Bytes(E) <= belegt'
    BY <1>2, <2>4, <2>6, <2>7, <2>8
  <2> QED
    BY <2>9 DEF ZaehlerDeckt, Bytes, E
<1> QED
  BY <1>7, <1>8, <1>9, <1>11 DEF MedienIInv

\* Rows go along with what they belong to; nothing is released.
LEMMA ZeilenWegHaelt ==
  ASSUME MedienIInv, NEW D \in SUBSET Dateien,
         zeile' = [f \in Dateien |-> IF f \in D THEN None ELSE zeile[f]],
         datei' \subseteq Dateien, UNCHANGED <<mdUmfang, doppelt, belegt, sperre, medAnfrage>>
  PROVE  MedienIInv'
<1>1. /\ Laufend' = Laufend /\ InLoeschung' = InLoeschung /\ MitZeile' \subseteq MitZeile
      /\ zeile' \in [Dateien -> DateiZeilen \cup {None}]
  BY DEF Laufend, InLoeschung, MitZeile, MedienIInv, MedienTypeOK
<1>2. MedienTypeOK'
  BY <1>1 DEF MedienIInv, MedienTypeOK
<1>3. AnfragenPassen' /\ SperrePasst'
  BY <1>1 DEF MedienIInv, AnfragenPassen, SperrePasst, Belastet
<1>4. ReserviertPasst'
  BY <1>1 DEF MedienIInv, ReserviertPasst, Bytes, Belastet
<1>5. ASSUME NurEigene', ~doppelt'
      PROVE  ZaehlerDeckt'
  <2>1. ZaehlerDeckt
    BY <1>5 DEF MedienIInv, NurEigene
  <2>2. (MitZeile \cup InLoeschung)' \subseteq MitZeile \cup InLoeschung
    BY <1>1
  <2> QED
    BY <2>1, <2>2, ZaehlerDecktWeniger DEF MedienIInv
<1> QED
  BY <1>2, <1>3, <1>4, <1>5 DEF MedienIInv

-----------------------------------------------------------------------------

LEMMA MedienSchritt ==
  ASSUME MedienIInv, [MedienNext]_medienVars
  PROVE  MedienIInv'
<1>1. ASSUME NEW u \in Anfragen, Gang(u)
      PROVE  MedienIInv'
  BY <1>1, ReservierenHaelt, FristablaufHaelt, FreigebenHaelt, WartenHaelt DEF Gang
<1>2. ASSUME NEW f \in Dateien, BildLoeschen(f)
      PROVE  MedienIInv'
  <2>1. zeile' = [g \in Dateien |-> IF g \in {f} THEN None ELSE zeile[g]]
    BY <1>2 DEF BildLoeschen, MedienIInv, MedienTypeOK
  <2>2. datei' \subseteq Dateien /\ UNCHANGED <<mdUmfang, doppelt, belegt, sperre, medAnfrage>>
    BY <1>2 DEF BildLoeschen, MedienIInv, MedienTypeOK
  <2> QED
    BY <2>1, <2>2, ZeilenWegHaelt
<1>3. ASSUME NEW D \in SUBSET Dateien, Mitgeloescht(D)
      PROVE  MedienIInv'
  <2>1. datei' \subseteq Dateien
    BY <1>3 DEF Mitgeloescht, MedienIInv, MedienTypeOK
  <2> QED
    BY <1>3, <2>1, ZeilenWegHaelt DEF Mitgeloescht
<1>4. ASSUME NEW w \in Workers, MedienAbsturz(w)
      PROVE  MedienIInv'
  <2> DEFINE F == {u \in Laufend : medAnfrage[u].worker = w}
  <2>1. /\ medAnfrage' = [u \in Anfragen |-> IF u \in F THEN None ELSE medAnfrage[u]]
        /\ sperre' = IF sperre \in F THEN None ELSE sperre
        /\ UNCHANGED <<mdUmfang, doppelt, datei, zeile, belegt>>
    BY <1>4 DEF MedienAbsturz
  <2>2. F \in SUBSET Anfragen
    BY DEF Laufend
  <2> HIDE DEF F
  <2> QED
    BY <2>1, <2>2, AbbruchHaelt
<1>5. ASSUME UNCHANGED medienVars
      PROVE  MedienIInv'
  <2> DEFINE D == {f \in Dateien : FALSE}
  <2>1. /\ zeile' = [f \in Dateien |-> IF f \in D THEN None ELSE zeile[f]]
        /\ datei' \subseteq Dateien /\ UNCHANGED <<mdUmfang, doppelt, belegt, sperre, medAnfrage>>
    BY <1>5 DEF medienVars, MedienIInv, MedienTypeOK
  <2>2. D \in SUBSET Dateien
    OBVIOUS
  <2> HIDE DEF D
  <2> QED
    BY <2>1, <2>2, ZeilenWegHaelt
<1> QED
  BY <1>1, <1>2, <1>3, <1>4, <1>5, HochladenHaelt, LoeschenHaelt DEF MedienNext

LEMMA QuotaAusIInv == MedienIInv => QuotaHaelt
<1> SUFFICES ASSUME MedienIInv PROVE QuotaHaelt
  OBVIOUS
<1>1. /\ NurEigene /\ ~doppelt => Bytes(MitZeile \cup InLoeschung) <= belegt
      /\ belegt <= Quota /\ belegt \in Nat
  BY DEF MedienIInv, ZaehlerDeckt, ReserviertPasst, MedienTypeOK
<1>2. (MitZeile \cup InLoeschung) \in SUBSET Dateien
  BY LoeschungenSindDateien
<1>3. /\ Bytes(MitZeile) <= Bytes(MitZeile \cup InLoeschung)
      /\ Bytes(MitZeile) \in Nat /\ Bytes(MitZeile \cup InLoeschung) \in Nat
  BY <1>2, BytesMonoton, BytesEndlich
<1> QED
  BY <1>1, <1>3 DEF QuotaHaelt

\* storage_service.py, for any files, sizes, quota, requests and workers: the counter
\* never exceeds the quota; it covers the files while only the organisation's own users
\* upload and no two requests release one file.
THEOREM MedienHalten == MedienSpec => []MedienTypeOK /\ []QuotaHaelt
<1>1. MedienIInv /\ [MedienNext]_medienVars => MedienIInv'
  BY MedienSchritt
<1>2. MedienIInv => MedienTypeOK
  BY DEF MedienIInv
<1> QED
  BY <1>1, <1>2, MedienAmAnfang, QuotaAusIInv, PTL DEF MedienSpec

-----------------------------------------------------------------------------
(* Master data *)

SdCodes == Codes \cup {"T1"}
Arten == {"auftrag", "meldung", "hinweis", "default"}
TypZeilen == [org : Wehren, code : SdCodes, name : {"neu", "anders"}, gross : BOOLEAN]
VorlageZeilen == [id : Nat, art : Arten, org : Wehren, text : Texte, codes : SUBSET SdCodes]
AusrueckZeilen == [org : Wehren, code : SdCodes, einheit : Einheiten]
PersonZeilen == [active : BOOLEAN, qualis : SUBSET Qualis]

\* Alarm types, templates and orders of turning out, of the database or of the file.
DatenForm(T, V, A) ==
  /\ T \in SUBSET TypZeilen /\ V \in SUBSET VorlageZeilen /\ A \in SUBSET AusrueckZeilen
  /\ IsFiniteSet(V)
  /\ \A t \in T : t.org \in Aktive
  /\ \A v \in V : v.org \in Aktive

DatenEinig(T, V, A) ==
  /\ \A t, u \in T : t.org = u.org /\ t.code = u.code => t = u
  /\ \A v \in V : \A c \in v.codes : \E t \in T : t.org = v.org /\ t.code = c
  /\ \A v, x \in V : v.org = x.org /\ v.id = x.id => v = x
  /\ \A a \in A : \E t \in T : t.org = a.org /\ t.code = a.code
  /\ EineOrg => \A v, x \in V : v.text = x.text /\ v.art = x.art /\ v.art # "hinweis" => v = x

Daten(T, V, A) == DatenForm(T, V, A) /\ DatenEinig(T, V, A)

\* While no vehicle was deleted and every order sent was complete.
FuhrparkGanz ==
  /\ einheiten \in [Einheiten -> EinheitZeilen \cup {None}]
  /\ ordnungGanz \in BOOLEAN
  /\ ordnungGanz => \A e \in Einheiten : einheiten[e] # None => ~einheiten[e].deleted
  /\ PlaetzeEindeutig

\* The vehicles of the file have their places as those that are there.
Gespeicherte(o) == {e \in Einheiten : sicherung.einheiten[e] # None /\ OrgVon[e] = o}
DateiGanz ==
  sicherung # None =>
    /\ sicherung.einheiten \in [Einheiten -> EinheitZeilen \cup {None}]
    /\ ordnungGanz => \A o \in Wehren :
         {sicherung.einheiten[e].rang : e \in Gespeicherte(o)} =
           0..(Cardinality(Gespeicherte(o)) - 1)

LeuteEinig ==
  /\ personen \in [SdPersonen -> PersonZeilen \cup {None}]
  /\ geprueft \in [Workers -> Qualis \cup {None}]
  /\ qualis \in SUBSET [code : Qualis, leiter : BOOLEAN]
  /\ \A p \in SdPersonen : personen[p] # None => personen[p].qualis \subseteq QualiCodes
  /\ Cardinality(sdUmfang.worker) = 1 =>
       \A w \in Workers : geprueft[w] # None => NichtVergeben(geprueft[w])

\* The inductive invariant.
SdIInv ==
  /\ sdUmfang \in SdUmfaenge
  /\ Daten(typen, vorlagen, ausruecke)
  /\ sicherung # None => /\ Daten(sicherung.typen, sicherung.vorlagen, sicherung.ausruecke)
                         /\ sicherung.qualis \subseteq Qualis
  /\ FuhrparkGanz
  /\ DateiGanz
  /\ LeuteEinig

LEMMA DatenDanach ==
  ASSUME sdUmfang' = sdUmfang, Daten(typen', vorlagen', ausruecke')
  PROVE  Daten(typen, vorlagen, ausruecke)'
BY DEF Daten, DatenForm, DatenEinig, Aktive, EineOrg

LEMMA SdBildEndlich ==
  ASSUME NEW S, IsFiniteSet(S), NEW f
  PROVE  IsFiniteSet({f[x] : x \in S})
<1> DEFINE g == [x \in S |-> f[x]]
           B == {f[x] : x \in S}
<1>1. g \in Surjection(S, B) BY DEF Surjection
<1> QED BY <1>1, FS_Surjection

\* The organisation that is looked at, if it is one, is that of the administrator.
LEMMA EineOrgIstZiel ==
  ASSUME sdUmfang \in SdUmfaenge
  PROVE  Ziel \in Aktive /\ Ziel \in Wehren /\ (EineOrg => Aktive = {Ziel})
<1>1. sdUmfang.orgs \subseteq Wehren /\ Ziel \in sdUmfang.orgs BY SdAssumption
<1>2. IsFiniteSet(sdUmfang.orgs) BY <1>1, SdAssumption, FS_Subset
<1>3. ASSUME EineOrg, NEW o \in sdUmfang.orgs, o # Ziel PROVE FALSE
  <2>1. {Ziel, o} \subseteq sdUmfang.orgs BY <1>1
  <2>2. IsFiniteSet({Ziel}) /\ Cardinality({Ziel}) = 1 BY FS_Singleton
  <2>3. Cardinality({Ziel} \cup {o}) = 2 BY <1>3, <2>2, FS_AddElement
  <2>4. {Ziel} \cup {o} = {Ziel, o} OBVIOUS
  <2>5. Cardinality({Ziel, o}) <= Cardinality(sdUmfang.orgs) BY <1>2, <2>1, FS_Subset
  <2> QED BY <1>3, <2>3, <2>4, <2>5 DEF EineOrg
<1> QED BY <1>1, <1>3 DEF Aktive

-----------------------------------------------------------------------------
(* Alarm types and templates *)

LEMMA AlarmtypNeuErhaelt ==
  ASSUME SdIInv, NEW o \in Wehren, NEW c \in SdCodes, AlarmtypNeu(o, c)
  PROVE  Daten(typen', vorlagen', ausruecke')
<1> DEFINE neu == [org |-> o, code |-> c, name |-> "neu", gross |-> FALSE]
<1>1. /\ typen' = typen \cup {neu} /\ vorlagen' = vorlagen /\ ausruecke' = ausruecke
      /\ o \in Aktive /\ c \notin CodesVon(o)
  BY DEF AlarmtypNeu
<1>2. neu \in TypZeilen /\ neu.org = o /\ neu.code = c BY DEF TypZeilen
<1>3. \A t \in typen : ~(t.org = o /\ t.code = c) BY <1>1 DEF CodesVon
<1>4. Daten(typen, vorlagen, ausruecke) BY DEF SdIInv
<1> HIDE DEF neu
<1>5. DatenForm(typen', vorlagen', ausruecke') BY <1>1, <1>2, <1>4 DEF Daten, DatenForm
<1>6. DatenEinig(typen', vorlagen', ausruecke')
  BY <1>1, <1>2, <1>3, <1>4 DEF Daten, DatenEinig
<1> QED BY <1>5, <1>6 DEF Daten

LEMMA AlarmtypAendernErhaelt ==
  ASSUME SdIInv, NEW t \in typen, AlarmtypAendern(t)
  PROVE  Daten(typen', vorlagen', ausruecke')
<1> DEFINE neu == [t EXCEPT !.name = "anders", !.gross = TRUE]
<1>1. /\ typen' = (typen \ {t}) \cup {neu} /\ vorlagen' = vorlagen /\ ausruecke' = ausruecke
  BY DEF AlarmtypAendern
<1>2. Daten(typen, vorlagen, ausruecke) BY DEF SdIInv
<1>3. t \in TypZeilen /\ t.org \in Aktive BY <1>2 DEF Daten, DatenForm
<1>4. neu \in TypZeilen /\ neu.org = t.org /\ neu.code = t.code BY <1>3 DEF TypZeilen
<1> HIDE DEF neu
<1>5. DatenForm(typen', vorlagen', ausruecke')
  BY <1>1, <1>2, <1>3, <1>4 DEF Daten, DatenForm
<1>6. \A x, y \in typen' : x.org = y.org /\ x.code = y.code => x = y
  BY <1>1, <1>2, <1>4 DEF Daten, DatenEinig
<1>7. \A x \in typen : \E y \in typen' : y.org = x.org /\ y.code = x.code
  BY <1>1, <1>4
<1>8. \A v \in vorlagen : \A c \in v.codes : \E y \in typen' : y.org = v.org /\ y.code = c
  <2> SUFFICES ASSUME NEW v \in vorlagen, NEW c \in v.codes
               PROVE  \E y \in typen' : y.org = v.org /\ y.code = c
    OBVIOUS
  <2>1. PICK x \in typen : x.org = v.org /\ x.code = c BY <1>2 DEF Daten, DatenEinig
  <2> QED BY <1>7, <2>1
<1>9. \A a \in ausruecke : \E y \in typen' : y.org = a.org /\ y.code = a.code
  <2> SUFFICES ASSUME NEW a \in ausruecke
               PROVE  \E y \in typen' : y.org = a.org /\ y.code = a.code
    OBVIOUS
  <2>1. PICK x \in typen : x.org = a.org /\ x.code = a.code BY <1>2 DEF Daten, DatenEinig
  <2> QED BY <1>7, <2>1
<1>10. DatenEinig(typen', vorlagen', ausruecke')
  BY <1>1, <1>2, <1>6, <1>8, <1>9 DEF Daten, DatenEinig
<1> QED BY <1>5, <1>10 DEF Daten

LEMMA AlarmtypLoeschenErhaelt ==
  ASSUME SdIInv, NEW t \in typen, AlarmtypLoeschen(t)
  PROVE  Daten(typen', vorlagen', ausruecke')
<1> DEFINE ohne(v) == [v EXCEPT !.codes = IF v.org = t.org THEN @ \ {t.code} ELSE @]
           f == [v \in vorlagen |-> ohne(v)]
<1>1. /\ typen' = typen \ {t} /\ vorlagen' = {ohne(v) : v \in vorlagen}
      /\ ausruecke' = {a \in ausruecke : a.org # t.org \/ a.code # t.code}
  BY DEF AlarmtypLoeschen, OhneTyp
<1>2. Daten(typen, vorlagen, ausruecke) BY DEF SdIInv
<1>3. IsFiniteSet(vorlagen') 
  <2>1. vorlagen' = {f[v] : v \in vorlagen} BY <1>1
  <2> HIDE DEF f
  <2> QED BY <1>2, <2>1, SdBildEndlich DEF Daten, DatenForm
<1>4. \A v \in vorlagen : /\ ohne(v) \in VorlageZeilen
                          /\ ohne(v).org = v.org /\ ohne(v).id = v.id
                          /\ ohne(v).text = v.text /\ ohne(v).art = v.art
                          /\ ohne(v).codes =
                               IF v.org = t.org THEN v.codes \ {t.code} ELSE v.codes
  BY <1>2 DEF Daten, DatenForm, VorlageZeilen
<1> HIDE DEF ohne
<1>5. DatenForm(typen', vorlagen', ausruecke')
  BY <1>1, <1>2, <1>3, <1>4 DEF Daten, DatenForm
<1>6. \A v \in vorlagen' : \A c \in v.codes : \E y \in typen' : y.org = v.org /\ y.code = c
  <2>1. SUFFICES ASSUME NEW u \in vorlagen', NEW c \in u.codes
                 PROVE  \E y \in typen' : y.org = u.org /\ y.code = c
    OBVIOUS
  <2>2. PICK v \in vorlagen : u = ohne(v) BY <1>1
  <2>3. u.org = v.org /\ c \in v.codes /\ ~(v.org = t.org /\ c = t.code)
    BY <1>4, <2>1, <2>2
  <2>4. PICK x \in typen : x.org = v.org /\ x.code = c BY <1>2, <2>3 DEF Daten, DatenEinig
  <2> QED BY <1>1, <2>3, <2>4
<1>7. \A a \in ausruecke' : \E y \in typen' : y.org = a.org /\ y.code = a.code
  BY <1>1, <1>2 DEF Daten, DatenEinig
<1>8. \A x, y \in typen' : x.org = y.org /\ x.code = y.code => x = y
  BY <1>1, <1>2 DEF Daten, DatenEinig
<1>9. ASSUME NEW v \in vorlagen', NEW x \in vorlagen'
      PROVE  /\ v.org = x.org /\ v.id = x.id => v = x
             /\ EineOrg /\ v.text = x.text /\ v.art = x.art /\ v.art # "hinweis" => v = x
  <2>1. PICK v0 \in vorlagen : v = ohne(v0) BY <1>1
  <2>2. PICK x0 \in vorlagen : x = ohne(x0) BY <1>1
  <2>3. /\ v0.org = x0.org /\ v0.id = x0.id => v0 = x0
        /\ EineOrg /\ v0.text = x0.text /\ v0.art = x0.art /\ v0.art # "hinweis" => v0 = x0
    BY <1>2 DEF Daten, DatenEinig
  <2> QED BY <1>4, <2>1, <2>2, <2>3
<1> QED BY <1>5, <1>6, <1>7, <1>8, <1>9 DEF Daten, DatenEinig

\* A number below the bound is free for a new template.
LEMMA FreieIdIstFrei ==
  ASSUME SdIInv, NEW o, Cardinality(vorlagen) < MaxVorlagen
  PROVE  FreieId(o) \in Nat /\ \A v \in vorlagen : v.org = o => v.id # FreieId(o)
<1>1. \E i \in 1..MaxVorlagen : \A v \in vorlagen : v.org = o => v.id # i
  <2>1. SUFFICES ASSUME \A i \in 1..MaxVorlagen : \E v \in vorlagen : v.id = i
                 PROVE  FALSE
    OBVIOUS
  <2> DEFINE f == [i \in 1..MaxVorlagen |-> CHOOSE v \in vorlagen : v.id = i]
  <2>2. \A i \in 1..MaxVorlagen : f[i] \in vorlagen /\ f[i].id = i BY <2>1
  <2>3. f \in [1..MaxVorlagen -> vorlagen] BY <2>2
  <2>4. IsFiniteSet(vorlagen) BY DEF SdIInv, Daten, DatenForm
  <2>5. IsFiniteSet(1..MaxVorlagen) /\ Cardinality(1..MaxVorlagen) = MaxVorlagen
    <3>1. MaxVorlagen \in Nat BY SdAssumption
    <3> HIDE DEF f
    <3> QED BY <3>1, FS_Interval
  <2> HIDE DEF f
  <2>6. \E i, j \in 1..MaxVorlagen : i # j /\ f[i] = f[j]
    BY <2>3, <2>4, <2>5, FS_PigeonHole
  <2> QED BY <2>2, <2>6
<1>2. /\ FreieId(o) \in 1..MaxVorlagen
      /\ \A v \in vorlagen : v.org = o => v.id # FreieId(o)
  BY <1>1, Zenon DEF FreieId
<1> QED BY <1>2, SdAssumption

LEMMA VorlageDazu ==
  ASSUME Daten(typen, vorlagen, ausruecke), NEW R \in SUBSET vorlagen, NEW neu \in VorlageZeilen,
         neu.org \in Aktive, neu.codes \subseteq CodesVon(neu.org),
         \A v \in R : ~(v.org = neu.org /\ v.id = neu.id),
         EineOrg /\ neu.art # "hinweis" =>
           \A v \in R : ~(v.text = neu.text /\ v.art = neu.art)
  PROVE  Daten(typen, R \cup {neu}, ausruecke) /\ Daten(typen, R, ausruecke)
<1>1. IsFiniteSet(R) /\ IsFiniteSet(R \cup {neu})
  BY FS_Subset, FS_AddElement DEF Daten, DatenForm
<1>2. DatenForm(typen, R \cup {neu}, ausruecke) /\ DatenForm(typen, R, ausruecke)
  BY <1>1 DEF Daten, DatenForm
<1>3. \A v \in R \cup {neu} : \A c \in v.codes : \E t \in typen : t.org = v.org /\ t.code = c
  BY DEF Daten, DatenEinig, CodesVon
<1>4. \A v, x \in R \cup {neu} :
        /\ v.org = x.org /\ v.id = x.id => v = x
        /\ EineOrg /\ v.text = x.text /\ v.art = x.art /\ v.art # "hinweis" => v = x
  BY DEF Daten, DatenEinig
<1>5. DatenEinig(typen, R \cup {neu}, ausruecke) /\ DatenEinig(typen, R, ausruecke)
  BY <1>3, <1>4 DEF Daten, DatenEinig
<1> QED BY <1>2, <1>5 DEF Daten

LEMMA VorlageErhaelt ==
  ASSUME SdIInv, NEW art \in Arten, VorlageBearbeiten(art)
  PROVE  Daten(typen', vorlagen', ausruecke')
<1>1. Daten(typen, vorlagen, ausruecke) /\ typen' = typen /\ ausruecke' = ausruecke
  BY DEF SdIInv, VorlageBearbeiten
<1>2. \A v \in vorlagen : v \in VorlageZeilen /\ v.org \in Aktive BY <1>1 DEF Daten, DatenForm
<1>3. EineOrg => \A v \in vorlagen : \A o \in Aktive : v.org = o
  BY <1>2, EineOrgIstZiel DEF SdIInv
<1>4. ASSUME NEW o \in Wehren, NEW t \in Texte, VorlageNeu(art, o, t)
      PROVE  Daten(typen', vorlagen', ausruecke')
  <2> DEFINE n == FreieId(o)
             neu == [id |-> n, art |-> art, org |-> o, text |-> t, codes |-> {}]
  <2>1. /\ n \in Nat /\ \A v \in vorlagen : v.org = o => v.id # n
        /\ o \in Aktive /\ TextFrei(art, o, t) /\ vorlagen' = vorlagen \cup {neu}
    BY <1>4, FreieIdIstFrei DEF VorlageNeu
  <2> HIDE DEF n
  <2>2. /\ neu \in VorlageZeilen /\ neu.org = o /\ neu.id = n /\ neu.art = art
        /\ neu.text = t /\ neu.codes = {}
    BY <2>1 DEF VorlageZeilen
  <2> HIDE DEF neu
  <2>3. EineOrg /\ art # "hinweis" => \A v \in vorlagen : ~(v.text = t /\ v.art = art)
    BY <1>3, <2>1 DEF TextFrei
  <2>4. Daten(typen, vorlagen \cup {neu}, ausruecke)
    BY <1>1, <2>1, <2>2, <2>3, VorlageDazu
  <2> QED BY <1>1, <2>1, <2>4
<1>5. ASSUME NEW v \in vorlagen, v.art = art, NEW t \in Texte, TextFrei(art, v.org, t),
             VorlageErsetzen(v, {[v EXCEPT !.text = t]})
      PROVE  Daten(typen', vorlagen', ausruecke')
  <2> DEFINE neu == [v EXCEPT !.text = t]
             R == vorlagen \ {v}
  <2>1. vorlagen' = R \cup {neu} BY <1>5 DEF VorlageErsetzen
  <2>2. /\ neu \in VorlageZeilen /\ neu.org = v.org /\ neu.id = v.id /\ neu.art = art
        /\ neu.text = t /\ neu.codes = v.codes
    BY <1>2, <1>5 DEF VorlageZeilen
  <2>3. R \in SUBSET vorlagen /\ v \notin R OBVIOUS
  <2>4. v.codes \subseteq CodesVon(v.org) BY <1>1 DEF Daten, DatenEinig, CodesVon
  <2>5. \A x \in R : ~(x.org = v.org /\ x.id = v.id) BY <1>1 DEF Daten, DatenEinig
  <2>6. EineOrg /\ art # "hinweis" => \A x \in R : ~(x.text = t /\ x.art = art)
    BY <1>2, <1>3, <1>5 DEF TextFrei
  <2> HIDE DEF neu, R
  <2>7. Daten(typen, R \cup {neu}, ausruecke)
    BY <1>1, <1>2, <2>2, <2>3, <2>4, <2>5, <2>6, VorlageDazu
  <2> QED BY <1>1, <2>1, <2>7
<1>6. ASSUME NEW v \in vorlagen, NEW C \in SUBSET CodesVon(v.org),
             VorlageErsetzen(v, {[v EXCEPT !.codes = C]})
      PROVE  Daten(typen', vorlagen', ausruecke')
  <2> DEFINE neu == [v EXCEPT !.codes = C]
             R == vorlagen \ {v}
  <2>1. vorlagen' = R \cup {neu} BY <1>6 DEF VorlageErsetzen
  <2>2. CodesVon(v.org) \subseteq SdCodes
    BY <1>1 DEF CodesVon, Daten, DatenForm, TypZeilen
  <2>3. /\ neu \in VorlageZeilen /\ neu.org = v.org /\ neu.id = v.id /\ neu.art = v.art
        /\ neu.text = v.text /\ neu.codes = C
    BY <1>2, <2>2 DEF VorlageZeilen
  <2>4. R \in SUBSET vorlagen OBVIOUS
  <2>5. \A x \in R : /\ ~(x.org = v.org /\ x.id = v.id)
                     /\ EineOrg /\ v.art # "hinweis" => ~(x.text = v.text /\ x.art = v.art)
    BY <1>1 DEF Daten, DatenEinig
  <2> HIDE DEF neu, R
  <2>6. Daten(typen, R \cup {neu}, ausruecke)
    BY <1>1, <1>2, <2>3, <2>4, <2>5, VorlageDazu
  <2> QED BY <1>1, <2>1, <2>6
<1>7. ASSUME NEW v \in vorlagen, VorlageErsetzen(v, {})
      PROVE  Daten(typen', vorlagen', ausruecke')
  <2> DEFINE R == vorlagen \ {v}
  <2>1. vorlagen' = R /\ R \in SUBSET vorlagen BY <1>7 DEF VorlageErsetzen
  <2>2. v.codes \subseteq CodesVon(v.org) BY <1>1 DEF Daten, DatenEinig, CodesVon
  <2>3. \A x \in R : /\ ~(x.org = v.org /\ x.id = v.id)
                     /\ EineOrg /\ v.art # "hinweis" => ~(x.text = v.text /\ x.art = v.art)
    BY <1>1 DEF Daten, DatenEinig
  <2> HIDE DEF R
  <2>4. Daten(typen, R, ausruecke) BY <1>1, <1>2, <2>1, <2>2, <2>3, VorlageDazu
  <2> QED BY <1>1, <2>1, <2>4
<1> QED BY <1>4, <1>5, <1>6, <1>7 DEF VorlageBearbeiten

LEMMA AusrueckErhaelt ==
  ASSUME SdIInv, NEW t \in typen, NEW E \in SUBSET Einheiten, AusrueckordnungSpeichern(t, E)
  PROVE  Daten(typen', vorlagen', ausruecke')
<1>1. /\ Daten(typen, vorlagen, ausruecke) /\ typen' = typen /\ vorlagen' = vorlagen
      /\ ausruecke' = {a \in ausruecke : a.org # t.org \/ a.code # t.code} \cup
                      {[org |-> t.org, code |-> t.code, einheit |-> e] : e \in E}
  BY DEF SdIInv, AusrueckordnungSpeichern
<1>2. t \in TypZeilen BY <1>1 DEF Daten, DatenForm
<1>3. \A e \in E : [org |-> t.org, code |-> t.code, einheit |-> e] \in AusrueckZeilen
  BY <1>2 DEF TypZeilen, AusrueckZeilen
<1>4. \A a \in ausruecke' : a \in ausruecke \/ (a \in AusrueckZeilen /\ a.org = t.org
                                                /\ a.code = t.code)
  BY <1>1, <1>3
<1>5. DatenForm(typen', vorlagen', ausruecke') BY <1>1, <1>4 DEF Daten, DatenForm
<1>6. DatenEinig(typen', vorlagen', ausruecke') BY <1>1, <1>4 DEF Daten, DatenEinig
<1> QED BY <1>5, <1>6 DEF Daten

-----------------------------------------------------------------------------
(* The file *)

\* Templates that are numbered anew keep different numbers.
LEMMA NummernGut ==
  ASSUME NEW V, IsFiniteSet(V)
  PROVE  /\ NeueIds(V) \in [V -> Nat]
         /\ \A v, x \in V : NeueIds(V)[v] = NeueIds(V)[x] => v = x
<1> DEFINE n == Cardinality(V)
<1>1. n \in Nat BY FS_CardinalityType
<1>2. IsFiniteSet(1..n) /\ Cardinality(1..n) = n BY <1>1, FS_Interval
<1>3. ExistsBijection(V, 1..n) BY <1>2, FS_SameCardinalityBij
<1>4. \E f \in [V -> 1..n] : \A v, x \in V : f[v] = f[x] => v = x
  BY <1>3 DEF ExistsBijection, Bijection, Injection, IsInjective
<1>5. /\ NeueIds(V) \in [V -> 1..n]
      /\ \A v, x \in V : NeueIds(V)[v] = NeueIds(V)[x] => v = x
  BY <1>4, Zenon DEF NeueIds
<1> QED BY <1>1, <1>5

\* What restoring writes.
LEMMA EinspielenSchreibt ==
  ASSUME SdIInv, Einspielen
  PROVE  /\ Daten(typen, vorlagen, ausruecke)
         /\ Daten(sicherung.typen, sicherung.vorlagen, sicherung.ausruecke)
         /\ sdUmfang' = sdUmfang /\ sicherung' = sicherung
         /\ vorlagen' = NeueVorlagen /\ ausruecke' = NeueAusruecke
         /\ Ziel \in Wehren /\ Ziel \in Aktive
         /\ EineOrg => Aktive = {Ziel}
BY EineOrgIstZiel DEF SdIInv, Einspielen, SdSchritt

LEMMA EingespielteTypen ==
  ASSUME SdIInv, Einspielen
  PROVE  /\ typen' \in SUBSET TypZeilen
         /\ \A t \in typen' : t.org \in Aktive
         /\ \A t, u \in typen' : t.org = u.org /\ t.code = u.code => t = u
         /\ \A c \in CodesNachher : \E t \in typen' : t.org = Ziel /\ t.code = c
         /\ {t \in typen' : t.org # Ziel} = {t \in typen : t.org # Ziel}
         /\ \A c \in DateiCodes : \E t \in typen', u \in sicherung.typen :
              t.org = Ziel /\ t.code = c /\ u.code = c /\ t.name = u.name
<1>1. PICK N \in [DateiCodes -> UNION {Namen(c) : c \in DateiCodes}] :
        /\ \A c \in DateiCodes : N[c] \in Namen(c)
        /\ typen' = {t \in typen : t.org # Ziel \/ t.code \notin DateiCodes} \cup
                     {NeuerTyp(c, N[c]) : c \in DateiCodes}
  BY DEF Einspielen
<1>2. /\ Daten(typen, vorlagen, ausruecke)
      /\ Daten(sicherung.typen, sicherung.vorlagen, sicherung.ausruecke)
      /\ Ziel \in Wehren /\ Ziel \in Aktive
  BY EinspielenSchreibt
<1>3. typen \in SUBSET TypZeilen /\ sicherung.typen \in SUBSET TypZeilen
  BY <1>2 DEF Daten, DatenForm
<1> DEFINE neu(c) == NeuerTyp(c, N[c])
<1>4. ASSUME NEW c \in DateiCodes
      PROVE  /\ neu(c) \in TypZeilen /\ neu(c).org = Ziel /\ neu(c).code = c
             /\ \E u \in sicherung.typen : u.code = c /\ neu(c).name = u.name
  <2>1. PICK u \in sicherung.typen : u.code = c /\ u.name = N[c]
    BY <1>1 DEF Namen
  <2>2. u \in TypZeilen BY <1>3
  <2>3. c \in SdCodes /\ N[c] \in {"neu", "anders"} BY <2>1, <2>2 DEF TypZeilen
  <2>4. (\E t \in typen : t.org = Ziel /\ t.code = c /\ t.gross) \in BOOLEAN OBVIOUS
  <2>5. /\ neu(c) \in TypZeilen /\ neu(c).org = Ziel /\ neu(c).code = c
        /\ neu(c).name = N[c]
    BY <1>2, <2>3, <2>4 DEF NeuerTyp, TypZeilen
  <2> QED BY <2>1, <2>5
<1>5. typen' = {t \in typen : t.org # Ziel \/ t.code \notin DateiCodes} \cup
               {neu(c) : c \in DateiCodes}
  BY <1>1
<1> HIDE DEF neu
<1>6. \A t \in typen' : \/ t \in typen /\ (t.org # Ziel \/ t.code \notin DateiCodes)
                        \/ \E c \in DateiCodes : t = neu(c)
  BY <1>5
<1>7. typen' \in SUBSET TypZeilen BY <1>3, <1>4, <1>5
<1>8. \A t \in typen' : t.org \in Aktive BY <1>2, <1>4, <1>6 DEF Daten, DatenForm
<1>9. ASSUME NEW t \in typen', NEW u \in typen', t.org = u.org, t.code = u.code
      PROVE  t = u
  <2>1. CASE t.org = Ziel /\ t.code \in DateiCodes BY <1>4, <1>6, <1>9, <2>1
  <2>2. CASE ~(t.org = Ziel /\ t.code \in DateiCodes)
    <3>1. t \in typen /\ u \in typen BY <1>4, <1>6, <1>9, <2>2
    <3> QED BY <1>2, <1>9, <3>1 DEF Daten, DatenEinig
  <2> QED BY <2>1, <2>2
<1>10. ASSUME NEW c \in CodesNachher PROVE \E t \in typen' : t.org = Ziel /\ t.code = c
  <2>1. CASE c \in DateiCodes BY <1>4, <1>5, <2>1
  <2>2. CASE c \notin DateiCodes BY <1>5, <2>2 DEF CodesNachher, CodesVon
  <2> QED BY <2>1, <2>2
<1>11. {t \in typen' : t.org # Ziel} = {t \in typen : t.org # Ziel} BY <1>4, <1>5, <1>6
<1>12. \A c \in DateiCodes : \E t \in typen', u \in sicherung.typen :
         t.org = Ziel /\ t.code = c /\ u.code = c /\ t.name = u.name
  BY <1>4, <1>5
<1> QED BY <1>7, <1>8, <1>9, <1>10, <1>11, <1>12

\* A template as it is restored.
Eingespielt(v) ==
  [v EXCEPT !.id = NeueIds(sicherung.vorlagen)[v], !.org = Ziel, !.codes = @ \cap CodesNachher]

LEMMA EingespielteVorlagen ==
  ASSUME SdIInv, Einspielen
  PROVE  /\ vorlagen' = {v \in vorlagen : v.org # Ziel} \cup
                        {Eingespielt(v) : v \in sicherung.vorlagen}
         /\ \A v \in sicherung.vorlagen :
              /\ Eingespielt(v) \in VorlageZeilen /\ Eingespielt(v).org = Ziel
              /\ Eingespielt(v).art = v.art /\ Eingespielt(v).text = v.text
              /\ Eingespielt(v).codes = v.codes \cap CodesNachher
         /\ \A v, x \in sicherung.vorlagen : Eingespielt(v).id = Eingespielt(x).id => v = x
         /\ IsFiniteSet({Eingespielt(v) : v \in sicherung.vorlagen})
         /\ Cardinality({Eingespielt(v) : v \in sicherung.vorlagen}) =
              Cardinality(sicherung.vorlagen)
<1> DEFINE V == sicherung.vorlagen
           m == NeueIds(V)
<1>1. /\ vorlagen' = NeueVorlagen /\ Ziel \in Wehren
      /\ Daten(sicherung.typen, V, sicherung.ausruecke)
  BY EinspielenSchreibt
<1>2. IsFiniteSet(V) /\ V \in SUBSET VorlageZeilen BY <1>1 DEF Daten, DatenForm
<1>3. m \in [V -> Nat] /\ \A v, x \in V : m[v] = m[x] => v = x BY <1>2, NummernGut
<1>4. vorlagen' = {v \in vorlagen : v.org # Ziel} \cup {Eingespielt(v) : v \in V}
  BY <1>1 DEF NeueVorlagen, Eingespielt
<1>5. \A v \in V : Eingespielt(v) =
        [v EXCEPT !.id = m[v], !.org = Ziel, !.codes = v.codes \cap CodesNachher]
  BY DEF Eingespielt
<1> HIDE DEF V, m
<1>6. ASSUME NEW v \in V
      PROVE  /\ Eingespielt(v) \in VorlageZeilen /\ Eingespielt(v).org = Ziel
             /\ Eingespielt(v).art = v.art /\ Eingespielt(v).text = v.text
             /\ Eingespielt(v).codes = v.codes \cap CodesNachher
             /\ Eingespielt(v).id = m[v]
  <2> DEFINE k == m[v]
             C == v.codes \cap CodesNachher
  <2>1. v \in VorlageZeilen BY <1>2
  <2>2. k \in Nat BY <1>3
  <2>3. C \in SUBSET SdCodes BY <2>1 DEF VorlageZeilen
  <2>4. Eingespielt(v) = [v EXCEPT !.id = k, !.org = Ziel, !.codes = C] BY <1>5
  <2> HIDE DEF k, C
  <2>5. /\ Eingespielt(v) \in VorlageZeilen /\ Eingespielt(v).org = Ziel
        /\ Eingespielt(v).art = v.art /\ Eingespielt(v).text = v.text
        /\ Eingespielt(v).codes = C /\ Eingespielt(v).id = k
    BY <1>1, <2>1, <2>2, <2>3, <2>4 DEF VorlageZeilen
  <2> QED BY <2>5 DEF k, C
<1> DEFINE f == [v \in V |-> Eingespielt(v)]
           B == {Eingespielt(v) : v \in V}
<1>7. f \in Bijection(V, B)
  <2>1. f \in [V -> B] OBVIOUS
  <2>2. \A v, x \in V : f[v] = f[x] => v = x BY <1>3, <1>6
  <2>3. \A b \in B : \E v \in V : f[v] = b OBVIOUS
  <2> HIDE DEF f, B
  <2> QED BY <2>1, <2>2, <2>3 DEF Bijection, Injection, IsInjective, Surjection
<1>8. IsFiniteSet(B) /\ Cardinality(B) = Cardinality(V)
  <2> HIDE DEF f, B
  <2>1. ExistsBijection(V, B) BY <1>7 DEF ExistsBijection
  <2> QED BY <1>2, <2>1, FS_Bijection
<1> QED BY <1>3, <1>4, <1>6, <1>8 DEF V

LEMMA EinspielenErhaelt ==
  ASSUME SdIInv, Einspielen
  PROVE  Daten(typen', vorlagen', ausruecke')
<1> DEFINE V == sicherung.vorlagen
           B == {Eingespielt(v) : v \in V}
           F == {v \in vorlagen : v.org # Ziel}
<1>1. /\ Daten(typen, vorlagen, ausruecke) /\ Daten(sicherung.typen, V, sicherung.ausruecke)
      /\ ausruecke' = NeueAusruecke
      /\ Ziel \in Wehren /\ Ziel \in Aktive
      /\ EineOrg => Aktive = {Ziel}
  BY EinspielenSchreibt
<1>2. /\ vorlagen' = F \cup B
      /\ \A v \in V : /\ Eingespielt(v) \in VorlageZeilen /\ Eingespielt(v).org = Ziel
                      /\ Eingespielt(v).art = v.art /\ Eingespielt(v).text = v.text
                      /\ Eingespielt(v).codes = v.codes \cap CodesNachher
      /\ \A v, x \in V : Eingespielt(v).id = Eingespielt(x).id => v = x
      /\ IsFiniteSet(B)
  BY EingespielteVorlagen
<1>3. /\ typen' \in SUBSET TypZeilen
      /\ \A t \in typen' : t.org \in Aktive
      /\ \A t, u \in typen' : t.org = u.org /\ t.code = u.code => t = u
      /\ \A c \in CodesNachher : \E t \in typen' : t.org = Ziel /\ t.code = c
      /\ {t \in typen' : t.org # Ziel} = {t \in typen : t.org # Ziel}
  BY EingespielteTypen
<1>4. \A a \in ausruecke' : a \in AusrueckZeilen /\ a.org = Ziel /\ a.code \in CodesNachher
  <2>1. SUFFICES ASSUME NEW a \in ausruecke'
                 PROVE  a \in AusrueckZeilen /\ a.org = Ziel /\ a.code \in CodesNachher
    OBVIOUS
  <2>2. PICK b \in sicherung.ausruecke :
          b.code \in CodesNachher /\ a = [org |-> Ziel, code |-> b.code, einheit |-> b.einheit]
    BY <1>1, <2>1 DEF NeueAusruecke
  <2>3. b \in AusrueckZeilen BY <1>1 DEF Daten, DatenForm
  <2> QED BY <1>1, <2>2, <2>3 DEF AusrueckZeilen
<1> HIDE DEF V, B, F
<1>5. /\ F \in SUBSET vorlagen /\ \A v \in F : v.org # Ziel BY DEF F
<1>6. \A v \in B : \E v0 \in V : v = Eingespielt(v0) BY DEF B
<1>7. IsFiniteSet(vorlagen')
  <2>1. IsFiniteSet(F) BY <1>1, <1>5, FS_Subset DEF Daten, DatenForm
  <2> QED BY <1>2, <2>1, FS_Union
<1>8. DatenForm(typen', vorlagen', ausruecke')
  <2>1. \A v \in vorlagen' : v \in VorlageZeilen /\ v.org \in Aktive
    BY <1>1, <1>2, <1>5, <1>6 DEF Daten, DatenForm
  <2>2. ausruecke' \in SUBSET AusrueckZeilen BY <1>4
  <2> QED BY <1>3, <1>7, <2>1, <2>2 DEF DatenForm
<1>9. ASSUME NEW v \in vorlagen', NEW c \in v.codes
      PROVE  \E t \in typen' : t.org = v.org /\ t.code = c
  <2>1. CASE v \in F
    <3>1. PICK t \in typen : t.org = v.org /\ t.code = c
      BY <1>1, <1>5, <1>9, <2>1 DEF Daten, DatenEinig
    <3> QED BY <1>3, <1>5, <2>1, <3>1
  <2>2. CASE v \in B
    <3>1. v.org = Ziel /\ c \in CodesNachher BY <1>2, <1>6, <1>9, <2>2
    <3> QED BY <1>3, <3>1
  <2> QED BY <1>2, <2>1, <2>2
<1>10. ASSUME NEW v \in vorlagen', NEW x \in vorlagen', v.org = x.org, v.id = x.id
       PROVE  v = x
  <2>1. CASE v \in F /\ x \in F BY <1>1, <1>5, <1>10, <2>1 DEF Daten, DatenEinig
  <2>2. CASE v \in B /\ x \in B
    <3>1. PICK v0 \in V : v = Eingespielt(v0) BY <1>6, <2>2
    <3>2. PICK x0 \in V : x = Eingespielt(x0) BY <1>6, <2>2
    <3> QED BY <1>2, <1>10, <3>1, <3>2
  <2>3. \A y \in B : y.org = Ziel BY <1>2, <1>6
  <2> QED BY <1>2, <1>5, <1>10, <2>1, <2>2, <2>3
<1>11. \A a \in ausruecke' : \E t \in typen' : t.org = a.org /\ t.code = a.code
  BY <1>3, <1>4
<1>12. ASSUME EineOrg, NEW v \in vorlagen', NEW x \in vorlagen',
              v.text = x.text, v.art = x.art, v.art # "hinweis"
       PROVE  v = x
  <2>1. F = {} BY <1>1, <1>5, <1>12 DEF Daten, DatenForm
  <2>2. PICK v0 \in V : v = Eingespielt(v0) BY <1>2, <1>6, <2>1
  <2>3. PICK x0 \in V : x = Eingespielt(x0) BY <1>2, <1>6, <2>1
  <2>4. v0.text = x0.text /\ v0.art = x0.art /\ v0.art # "hinweis"
    BY <1>2, <1>12, <2>2, <2>3
  <2>5. v0 = x0 BY <1>1, <1>12, <2>4 DEF Daten, DatenEinig
  <2> QED BY <2>2, <2>3, <2>5
<1>13. DatenEinig(typen', vorlagen', ausruecke')
  BY <1>3, <1>9, <1>10, <1>11, <1>12 DEF DatenEinig
<1> QED BY <1>8, <1>13 DEF Daten

-----------------------------------------------------------------------------
(* Vehicles *)

Plaetze(o) == {einheiten[e].rang : e \in Vorhandene(o)}

LEMMA VorhandeneEndlich ==
  \A o : IsFiniteSet(Vorhandene(o)) /\ Cardinality(Vorhandene(o)) \in Nat
<1> SUFFICES ASSUME NEW o
             PROVE  IsFiniteSet(Vorhandene(o)) /\ Cardinality(Vorhandene(o)) \in Nat
  OBVIOUS
<1>1. Vorhandene(o) \subseteq Einheiten BY DEF Vorhandene
<1>2. IsFiniteSet(Vorhandene(o)) BY <1>1, SdAssumption, FS_Subset
<1> QED BY <1>2, FS_CardinalityType

\* The same vehicles with the same set of places.
LEMMA PlaetzeBleiben ==
  ASSUME FuhrparkGanz, ordnungGanz' => ordnungGanz,
         \A o \in Wehren : Vorhandene(o)' = Vorhandene(o) /\ Plaetze(o)' = Plaetze(o)
  PROVE  PlaetzeEindeutig'
BY DEF PlaetzeEindeutig, FuhrparkGanz, Plaetze

LEMMA EinheitNeuErhaelt ==
  ASSUME FuhrparkGanz, NEW e \in Einheiten, EinheitNeu(e)
  PROVE  FuhrparkGanz'
<1> DEFINE o == OrgVon[e]
           n == Cardinality(Vorhandene(o))
           neu == NeuesFahrzeug(KennungVon[e], n)
<1>1. /\ einheiten[e] = None /\ einheiten' = [einheiten EXCEPT ![e] = neu]
      /\ ordnungGanz' = (ordnungGanz /\ TRUE)
  BY DEF EinheitNeu, FuhrparkSchritt
<1>2. n \in Nat /\ IsFiniteSet(Vorhandene(o)) BY VorhandeneEndlich
<1>3. /\ neu \in EinheitZeilen /\ neu # None /\ neu.rang = n /\ neu.deleted = FALSE
  <2> HIDE DEF n
  <2>1. neu \in EinheitZeilen /\ neu.rang = n /\ neu.deleted = FALSE
    BY <1>2, SdAssumption DEF EinheitZeilen, NeuesFahrzeug
  <2> HIDE DEF neu
  <2>2. None \notin EinheitZeilen BY SdAssumption
  <2> QED BY <2>1, <2>2
<1>4. einheiten \in [Einheiten -> EinheitZeilen \cup {None}] /\ ordnungGanz \in BOOLEAN
  BY DEF FuhrparkGanz
<1> HIDE DEF n, neu
<1>5. /\ einheiten' \in [Einheiten -> EinheitZeilen \cup {None}]
      /\ einheiten'[e] = neu /\ \A x \in Einheiten \ {e} : einheiten'[x] = einheiten[x]
      /\ ordnungGanz' = ordnungGanz
  BY <1>1, <1>3, <1>4
<1>6. ASSUME ordnungGanz', NEW p \in Wehren
      PROVE  {einheiten[x].rang : x \in Vorhandene(p)}' = 0..(Cardinality(Vorhandene(p)') - 1)
  <2>1. Plaetze(p) = 0..(Cardinality(Vorhandene(p)) - 1)
    BY <1>5, <1>6 DEF FuhrparkGanz, PlaetzeEindeutig, Plaetze
  <2>2. CASE p = o
    <3>1. Vorhandene(p)' = Vorhandene(p) \cup {e} /\ e \notin Vorhandene(p)
      BY <1>1, <1>3, <1>5, <2>2 DEF Vorhandene
    <3>2. Cardinality(Vorhandene(p)') = n + 1
      BY <1>2, <2>2, <3>1, FS_AddElement DEF n
    <3>3. \A x \in Vorhandene(p) : einheiten'[x] = einheiten[x]
      BY <1>5, <3>1 DEF Vorhandene
    <3>4. {einheiten[x].rang : x \in Vorhandene(p)}' = Plaetze(p) \cup {n}
      BY <1>3, <1>5, <3>1, <3>3 DEF Plaetze
    <3>5. 0..(n - 1) \cup {n} = 0..((n + 1) - 1) BY <1>2
    <3> QED BY <2>1, <2>2, <3>2, <3>4, <3>5 DEF n
  <2>3. CASE p # o
    <3>1. Vorhandene(p)' = Vorhandene(p) BY <1>5, <2>3 DEF Vorhandene
    <3>2. \A x \in Vorhandene(p) : einheiten'[x] = einheiten[x]
      BY <1>5, <2>3 DEF Vorhandene
    <3> QED BY <2>1, <3>1, <3>2 DEF Plaetze
  <2> QED BY <2>2, <2>3
<1>7. PlaetzeEindeutig' BY <1>6 DEF PlaetzeEindeutig
<1>8. ordnungGanz' => \A x \in Einheiten : einheiten'[x] # None => ~einheiten'[x].deleted
  BY <1>3, <1>5 DEF FuhrparkGanz
<1> QED BY <1>4, <1>5, <1>7, <1>8 DEF FuhrparkGanz

LEMMA EinheitSchaltenErhaelt ==
  ASSUME FuhrparkGanz, NEW e \in Einheiten, EinheitSchalten(e)
  PROVE  FuhrparkGanz'
<1> DEFINE neu == [einheiten[e] EXCEPT !.active = ~einheiten[e].active]
<1>1. /\ einheiten[e] # None /\ einheiten' = [einheiten EXCEPT ![e] = neu]
      /\ ordnungGanz' = (ordnungGanz /\ TRUE)
  BY DEF EinheitSchalten, FuhrparkSchritt
<1>2. einheiten \in [Einheiten -> EinheitZeilen \cup {None}] /\ ordnungGanz \in BOOLEAN
  BY DEF FuhrparkGanz
<1>3. einheiten[e] \in EinheitZeilen BY <1>1, <1>2
<1>4. /\ neu \in EinheitZeilen /\ neu # None /\ neu.rang = einheiten[e].rang
      /\ neu.deleted = einheiten[e].deleted
  BY <1>3, SdAssumption DEF EinheitZeilen
<1> HIDE DEF neu
<1>5. /\ einheiten' \in [Einheiten -> EinheitZeilen \cup {None}]
      /\ einheiten'[e] = neu /\ \A x \in Einheiten \ {e} : einheiten'[x] = einheiten[x]
      /\ ordnungGanz' = ordnungGanz
  BY <1>1, <1>2, <1>4
<1>6. ASSUME NEW o \in Wehren PROVE Vorhandene(o)' = Vorhandene(o) /\ Plaetze(o)' = Plaetze(o)
  <2>1. Vorhandene(o)' = Vorhandene(o) BY <1>1, <1>4, <1>5 DEF Vorhandene
  <2>2. \A x \in Vorhandene(o) : einheiten'[x].rang = einheiten[x].rang
    BY <1>4, <1>5 DEF Vorhandene
  <2> QED BY <2>1, <2>2 DEF Plaetze
<1>7. PlaetzeEindeutig' BY <1>5, <1>6, PlaetzeBleiben
<1>8. ordnungGanz' => \A x \in Einheiten : einheiten'[x] # None => ~einheiten'[x].deleted
  BY <1>1, <1>4, <1>5 DEF FuhrparkGanz
<1> QED BY <1>2, <1>5, <1>7, <1>8 DEF FuhrparkGanz

LEMMA EinheitUmbenennenErhaelt ==
  ASSUME FuhrparkGanz, NEW e \in Einheiten, NEW k \in Kennungen, EinheitUmbenennen(e, k)
  PROVE  FuhrparkGanz'
<1> DEFINE neu == [einheiten[e] EXCEPT !.code = k]
<1>1. /\ einheiten[e] # None /\ einheiten' = [einheiten EXCEPT ![e] = neu]
      /\ ordnungGanz' = (ordnungGanz /\ TRUE)
  BY DEF EinheitUmbenennen, FuhrparkSchritt
<1>2. einheiten \in [Einheiten -> EinheitZeilen \cup {None}] /\ ordnungGanz \in BOOLEAN
  BY DEF FuhrparkGanz
<1>3. einheiten[e] \in EinheitZeilen BY <1>1, <1>2
<1>4. /\ neu \in EinheitZeilen /\ neu # None /\ neu.rang = einheiten[e].rang
      /\ neu.deleted = einheiten[e].deleted
  BY <1>3, SdAssumption DEF EinheitZeilen
<1> HIDE DEF neu
<1>5. /\ einheiten' \in [Einheiten -> EinheitZeilen \cup {None}]
      /\ einheiten'[e] = neu /\ \A x \in Einheiten \ {e} : einheiten'[x] = einheiten[x]
      /\ ordnungGanz' = ordnungGanz
  BY <1>1, <1>2, <1>4
<1>6. ASSUME NEW o \in Wehren PROVE Vorhandene(o)' = Vorhandene(o) /\ Plaetze(o)' = Plaetze(o)
  <2>1. Vorhandene(o)' = Vorhandene(o) BY <1>1, <1>4, <1>5 DEF Vorhandene
  <2>2. \A x \in Vorhandene(o) : einheiten'[x].rang = einheiten[x].rang
    BY <1>4, <1>5 DEF Vorhandene
  <2> QED BY <2>1, <2>2 DEF Plaetze
<1>7. PlaetzeEindeutig' BY <1>5, <1>6, PlaetzeBleiben
<1>8. ordnungGanz' => \A x \in Einheiten : einheiten'[x] # None => ~einheiten'[x].deleted
  BY <1>1, <1>4, <1>5 DEF FuhrparkGanz
<1> QED BY <1>2, <1>5, <1>7, <1>8 DEF FuhrparkGanz

LEMMA EinheitLoeschenErhaelt ==
  ASSUME FuhrparkGanz, NEW e \in Einheiten, EinheitLoeschen(e)
  PROVE  FuhrparkGanz'
<1> DEFINE neu == [einheiten[e] EXCEPT !.active = FALSE, !.deleted = TRUE]
<1>1. /\ einheiten[e] # None
      /\ einheiten' = [einheiten EXCEPT ![e].active = FALSE, ![e].deleted = TRUE]
      /\ ordnungGanz' = (ordnungGanz /\ FALSE)
  BY DEF EinheitLoeschen, FuhrparkSchritt
<1>2. einheiten \in [Einheiten -> EinheitZeilen \cup {None}] BY DEF FuhrparkGanz
<1>3. einheiten' = [einheiten EXCEPT ![e] = neu] BY <1>1, <1>2
<1>4. neu \in EinheitZeilen BY <1>1, <1>2 DEF EinheitZeilen
<1> HIDE DEF neu
<1>5. einheiten' \in [Einheiten -> EinheitZeilen \cup {None}] BY <1>2, <1>3, <1>4
<1> QED BY <1>1, <1>5 DEF FuhrparkGanz, PlaetzeEindeutig

LEMMA EinheitVerschiebenErhaelt ==
  ASSUME FuhrparkGanz, NEW e \in Einheiten, NEW x \in Einheiten, EinheitVerschieben(e, x)
  PROVE  FuhrparkGanz'
<1> DEFINE neuE == [einheiten[e] EXCEPT !.rang = einheiten[x].rang]
           neuX == [einheiten[x] EXCEPT !.rang = einheiten[e].rang]
<1>1. /\ {e, x} \subseteq Vorhandene(OrgVon[e]) /\ e # x
      /\ einheiten' = [einheiten EXCEPT ![e].rang = einheiten[x].rang,
                                        ![x].rang = einheiten[e].rang]
      /\ ordnungGanz' = (ordnungGanz /\ TRUE)
  BY DEF EinheitVerschieben, FuhrparkSchritt
<1>2. einheiten \in [Einheiten -> EinheitZeilen \cup {None}] /\ ordnungGanz \in BOOLEAN
  BY DEF FuhrparkGanz
<1>3. /\ einheiten[e] \in EinheitZeilen /\ einheiten[x] \in EinheitZeilen
      /\ einheiten[e] # None /\ einheiten[x] # None /\ OrgVon[x] = OrgVon[e]
  BY <1>1, <1>2 DEF Vorhandene
<1>4. einheiten' = [einheiten EXCEPT ![e] = neuE, ![x] = neuX] BY <1>1, <1>2
<1>5. /\ neuE \in EinheitZeilen /\ neuE # None /\ neuE.rang = einheiten[x].rang
      /\ neuE.deleted = einheiten[e].deleted
      /\ neuX \in EinheitZeilen /\ neuX # None /\ neuX.rang = einheiten[e].rang
      /\ neuX.deleted = einheiten[x].deleted
  BY <1>3, SdAssumption DEF EinheitZeilen
<1> HIDE DEF neuE, neuX
<1>6. /\ einheiten' \in [Einheiten -> EinheitZeilen \cup {None}]
      /\ einheiten'[e] = neuE /\ einheiten'[x] = neuX
      /\ \A y \in Einheiten \ {e, x} : einheiten'[y] = einheiten[y]
      /\ ordnungGanz' = ordnungGanz
  BY <1>1, <1>2, <1>4, <1>5
<1>7. ASSUME NEW o \in Wehren PROVE Vorhandene(o)' = Vorhandene(o) /\ Plaetze(o)' = Plaetze(o)
  <2>1. Vorhandene(o)' = Vorhandene(o) BY <1>3, <1>5, <1>6 DEF Vorhandene
  <2>2. Plaetze(o)' = {einheiten'[y].rang : y \in Vorhandene(o)} BY <2>1 DEF Plaetze
  <2>3. e \in Vorhandene(o) <=> x \in Vorhandene(o) BY <1>3 DEF Vorhandene
  <2>4. \A y \in Vorhandene(o) : y \in Einheiten BY DEF Vorhandene
  <2>5. \A y \in Vorhandene(o) : einheiten'[y].rang \in Plaetze(o)
    BY <1>5, <1>6, <2>3, <2>4 DEF Plaetze
  <2>6. \A y \in Vorhandene(o) : \E z \in Vorhandene(o) : einheiten'[z].rang = einheiten[y].rang
    BY <1>5, <1>6, <2>3, <2>4
  <2>7. Plaetze(o) = {einheiten[y].rang : y \in Vorhandene(o)} BY DEF Plaetze
  <2> QED BY <2>1, <2>2, <2>5, <2>6, <2>7
<1>8. PlaetzeEindeutig' BY <1>6, <1>7, PlaetzeBleiben
<1>9. ordnungGanz' => \A y \in Einheiten : einheiten'[y] # None => ~einheiten'[y].deleted
  BY <1>3, <1>5, <1>6 DEF FuhrparkGanz
<1> QED BY <1>2, <1>6, <1>8, <1>9 DEF FuhrparkGanz

LEMMA EinheitenOrdnenErhaelt ==
  ASSUME FuhrparkGanz, NEW o \in Wehren, NEW T \in SUBSET Sichtbare(o), NEW f \in Folgen(T),
         EinheitenOrdnen(o, f)
  PROVE  FuhrparkGanz'
<1> DEFINE n == Cardinality(T)
           neu(e) == [einheiten[e] EXCEPT !.rang = f[e]]
<1>1. /\ f \in [T -> 0..(n - 1)] /\ \A x, y \in T : f[x] = f[y] => x = y
  BY DEF Folgen
<1>2. /\ einheiten' = [e \in Einheiten |-> IF e \in T THEN neu(e) ELSE einheiten[e]]
      /\ ordnungGanz' = (ordnungGanz /\ T = Sichtbare(o))
  BY <1>1 DEF EinheitenOrdnen, FuhrparkSchritt
<1>3. /\ einheiten \in [Einheiten -> EinheitZeilen \cup {None}] /\ ordnungGanz \in BOOLEAN
      /\ ordnungGanz => \A e \in Einheiten : einheiten[e] # None => ~einheiten[e].deleted
  BY DEF FuhrparkGanz
<1>4. T \subseteq Vorhandene(o) BY DEF Sichtbare
<1>5. \A e \in T : e \in Einheiten /\ OrgVon[e] = o /\ einheiten[e] \in EinheitZeilen
                   /\ einheiten[e] # None
  BY <1>3, <1>4 DEF Vorhandene
<1>6. IsFiniteSet(T) /\ n \in Nat
  BY <1>4, VorhandeneEndlich, FS_Subset, FS_CardinalityType
<1> HIDE DEF n
<1>7. \A e \in T : f[e] \in Nat BY <1>1, <1>6
<1>8. \A e \in T : /\ neu(e) \in EinheitZeilen /\ neu(e) # None /\ neu(e).rang = f[e]
                   /\ neu(e).deleted = einheiten[e].deleted
  BY <1>5, <1>7, SdAssumption DEF EinheitZeilen
<1> HIDE DEF neu
<1>9. /\ einheiten' \in [Einheiten -> EinheitZeilen \cup {None}]
      /\ \A e \in T : einheiten'[e] = neu(e)
      /\ \A e \in Einheiten \ T : einheiten'[e] = einheiten[e]
  BY <1>2, <1>3, <1>5, <1>8
<1>10. ASSUME ordnungGanz', NEW p \in Wehren
       PROVE  {einheiten[x].rang : x \in Vorhandene(p)}' = 0..(Cardinality(Vorhandene(p)') - 1)
  <2>1. Vorhandene(p)' = Vorhandene(p) BY <1>5, <1>8, <1>9 DEF Vorhandene
  <2>2. CASE p = o
    <3>1. T = Vorhandene(o) BY <1>2, <1>3, <1>10 DEF Sichtbare, Vorhandene
    <3>2. f \in Injection(T, 0..(n - 1)) BY <1>1 DEF Injection, IsInjective
    <3>3. IsFiniteSet(0..(n - 1)) /\ Cardinality(0..(n - 1)) = n
      BY <1>6, FS_Interval
    <3>4. f \in Surjection(T, 0..(n - 1)) BY <3>2, <3>3, FS_Injection DEF n
    <3>5. \A i \in 0..(n - 1) : \E x \in T : f[x] = i BY <3>4 DEF Surjection
    <3>6. {einheiten[x].rang : x \in Vorhandene(p)}' = {f[x] : x \in T}
      BY <1>8, <1>9, <2>1, <2>2, <3>1
    <3>7. {f[x] : x \in T} = 0..(n - 1) BY <1>1, <3>5
    <3> QED BY <2>1, <2>2, <3>1, <3>6, <3>7 DEF n
  <2>3. CASE p # o
    <3>1. \A x \in Vorhandene(p) : einheiten'[x] = einheiten[x]
      BY <1>5, <1>9, <2>3 DEF Vorhandene
    <3>2. {einheiten[x].rang : x \in Vorhandene(p)} = 0..(Cardinality(Vorhandene(p)) - 1)
      BY <1>2, <1>10 DEF FuhrparkGanz, PlaetzeEindeutig
    <3> QED BY <2>1, <3>1, <3>2
  <2> QED BY <2>2, <2>3
<1>11. PlaetzeEindeutig' BY <1>10 DEF PlaetzeEindeutig
<1>12. ordnungGanz' => \A x \in Einheiten : einheiten'[x] # None => ~einheiten'[x].deleted
  BY <1>2, <1>3, <1>5, <1>8, <1>9
<1>13. ordnungGanz' \in BOOLEAN BY <1>2
<1> QED BY <1>9, <1>11, <1>12, <1>13 DEF FuhrparkGanz

\* What is restored when the vehicles that are there are those of the file.
LEMMA QuelleIstSieSelbst ==
  ASSUME DateiGanz, sicherung # None, WieInDerDatei,
         NEW q \in [Einheiten -> Gesicherte \cup {None}], Quelle(q), NEW e \in Einheiten
  PROVE  q[e] = (IF einheiten[e] = None THEN None ELSE e)
<1> DEFINE kennung(s) == sicherung.einheiten[s].code
<1>1. \A s \in Gesicherte :
        s \in Einheiten /\ einheiten[s] # None /\ einheiten[s].code = kennung(s)
        /\ s \in MitKennung(kennung(s))
  BY DEF WieInDerDatei, Gesicherte, MitKennung
<1>2. ASSUME NEW x \in Einheiten, q[x] # None PROVE q[x] = x /\ einheiten[x] # None
  <2>1. q[x] \in Gesicherte BY <1>2
  <2>2. MitKennung(kennung(q[x])) # {} BY <1>1, <2>1
  <2>3. x \in MitKennung(kennung(q[x])) BY <1>2, <2>2 DEF Quelle
  <2> QED BY <1>1, <2>1, <2>3 DEF WieInDerDatei, MitKennung
<1>3. CASE einheiten[e] = None BY <1>2, <1>3
<1>4. CASE einheiten[e] # None
  <2>1. e \in Gesicherte BY <1>4 DEF WieInDerDatei, Gesicherte
  <2>2. MitKennung(kennung(e)) # {} BY <1>1, <2>1
  <2>3. PICK x \in MitKennung(kennung(e)) : q[x] # None BY <2>1, <2>2 DEF Quelle
  <2>4. x \in Einheiten /\ einheiten[x] # None /\ einheiten[x].code = kennung(e)
    BY <2>3 DEF MitKennung
  <2>5. x = e BY <1>1, <1>4, <2>1, <2>4 DEF WieInDerDatei
  <2>6. einheiten[e] # None => q[e] = e BY <1>2, <2>3, <2>5
  <2> QED BY <1>4, <2>6
<1> QED BY <1>3, <1>4

\* Nothing of a vehicle but its place.
LEMMA EingespielteEinheiten ==
  ASSUME FuhrparkGanz, DateiGanz, Einspielen
  PROVE  /\ einheiten' \in [Einheiten -> EinheitZeilen \cup {None}]
         /\ \A e \in Einheiten : einheiten[e] # None =>
              /\ einheiten'[e] # None
              /\ einheiten'[e] = [einheiten[e] EXCEPT !.rang = einheiten'[e].rang]
         /\ WieInDerDatei => \A e \in Einheiten :
              IF einheiten[e] = None THEN einheiten'[e] = None
              ELSE /\ einheiten'[e].rang = sicherung.einheiten[e].rang
                   /\ einheiten'[e].deleted = einheiten[e].deleted
<1>1. PICK q \in [Einheiten -> Gesicherte \cup {None}] :
        Quelle(q) /\ einheiten' = NeueEinheiten(q)
  BY DEF Einspielen
<1>2. /\ sicherung # None /\ einheiten \in [Einheiten -> EinheitZeilen \cup {None}]
      /\ sicherung.einheiten \in [Einheiten -> EinheitZeilen \cup {None}]
      /\ None \notin EinheitZeilen
  BY SdAssumption DEF Einspielen, FuhrparkGanz, DateiGanz
<1>3. \A s \in Gesicherte : s \in Einheiten /\ sicherung.einheiten[s] \in EinheitZeilen
  BY <1>2 DEF Gesicherte
<1>4. None \notin Gesicherte BY SdAssumption DEF Gesicherte
<1> DEFINE g(s) == sicherung.einheiten[s]
<1>5. \A e \in Einheiten : einheiten'[e] =
        IF q[e] = None THEN einheiten[e]
        ELSE IF einheiten[e] = None THEN NeuesFahrzeug(g(q[e]).code, g(q[e]).rang)
        ELSE [einheiten[e] EXCEPT !.rang = g(q[e]).rang]
  BY <1>1 DEF NeueEinheiten
<1>6. \A s \in Gesicherte : /\ g(s) \in EinheitZeilen
                             /\ g(s).rang \in Nat /\ g(s).code \in Kennungen
  BY <1>3 DEF EinheitZeilen
<1> HIDE DEF g
<1>7. ASSUME NEW e \in Einheiten
      PROVE  /\ einheiten'[e] \in EinheitZeilen \cup {None}
             /\ einheiten[e] # None =>
                  /\ einheiten'[e] # None
                  /\ einheiten'[e] = [einheiten[e] EXCEPT !.rang = einheiten'[e].rang]
                  /\ q[e] # None => einheiten'[e].rang = g(q[e]).rang
                  /\ einheiten'[e].deleted = einheiten[e].deleted
  <2>1. CASE q[e] = None
    <3>1. einheiten'[e] = einheiten[e] BY <1>5, <2>1
    <3>2. einheiten[e] # None => einheiten[e] = [einheiten[e] EXCEPT !.rang = einheiten[e].rang]
      BY <1>2 DEF EinheitZeilen
    <3> QED BY <1>2, <2>1, <3>1, <3>2
  <2>2. CASE q[e] # None /\ einheiten[e] = None
    <3>1. q[e] \in Gesicherte BY <2>2
    <3>2. einheiten'[e] = NeuesFahrzeug(g(q[e]).code, g(q[e]).rang) BY <1>5, <2>2
    <3> QED BY <1>6, <2>2, <3>1, <3>2 DEF NeuesFahrzeug, EinheitZeilen
  <2>3. CASE q[e] # None /\ einheiten[e] # None
    <3>1. q[e] \in Gesicherte BY <2>3
    <3>2. einheiten'[e] = [einheiten[e] EXCEPT !.rang = g(q[e]).rang] BY <1>5, <2>3
    <3>3. einheiten[e] \in EinheitZeilen /\ g(q[e]).rang \in Nat BY <1>2, <1>6, <2>3, <3>1
    <3> DEFINE r == g(q[e]).rang
    <3> HIDE DEF r
    <3>4. einheiten'[e] = [einheiten[e] EXCEPT !.rang = r] /\ r \in Nat
      BY <3>2, <3>3 DEF r
    <3>5. /\ einheiten'[e] \in EinheitZeilen /\ einheiten'[e].rang = r
          /\ einheiten'[e].deleted = einheiten[e].deleted
      BY <3>3, <3>4 DEF EinheitZeilen
    <3> QED BY <1>2, <3>4, <3>5 DEF r
  <2> QED BY <2>1, <2>2, <2>3
<1>8. einheiten' \in [Einheiten -> EinheitZeilen \cup {None}]
  <2>1. einheiten' = [e \in Einheiten |-> einheiten'[e]] BY <1>1 DEF NeueEinheiten
  <2> QED BY <1>7, <2>1
<1>9. ASSUME WieInDerDatei, NEW e \in Einheiten
      PROVE  IF einheiten[e] = None THEN einheiten'[e] = None
             ELSE /\ einheiten'[e].rang = sicherung.einheiten[e].rang
                  /\ einheiten'[e].deleted = einheiten[e].deleted
  <2>1. q[e] = (IF einheiten[e] = None THEN None ELSE e)
    BY <1>1, <1>2, <1>9, QuelleIstSieSelbst
  <2>2. CASE einheiten[e] = None BY <1>5, <2>1, <2>2
  <2>3. CASE einheiten[e] # None
    <3>1. q[e] = e /\ e # None BY <2>1, <2>3, SdAssumption
    <3> QED BY <1>7, <2>3, <3>1 DEF g
  <2> QED BY <2>2, <2>3
<1> QED BY <1>7, <1>8, <1>9

LEMMA EinspielenErhaeltFuhrpark ==
  ASSUME SdIInv, Einspielen
  PROVE  FuhrparkGanz' /\ (ordnungGanz' => ordnungGanz)
<1>1. FuhrparkGanz /\ DateiGanz /\ sicherung # None BY DEF SdIInv, Einspielen
<1>2. /\ einheiten' \in [Einheiten -> EinheitZeilen \cup {None}]
      /\ \A e \in Einheiten : einheiten[e] # None => einheiten'[e] # None
      /\ WieInDerDatei => \A e \in Einheiten :
           IF einheiten[e] = None THEN einheiten'[e] = None
           ELSE /\ einheiten'[e].rang = sicherung.einheiten[e].rang
                /\ einheiten'[e].deleted = einheiten[e].deleted
  BY <1>1, EingespielteEinheiten
<1>3. ordnungGanz' = (ordnungGanz /\ WieInDerDatei) BY DEF Einspielen
<1>4. ordnungGanz \in BOOLEAN BY <1>1 DEF FuhrparkGanz
<1>5. ordnungGanz' \in BOOLEAN /\ (ordnungGanz' => ordnungGanz /\ WieInDerDatei)
  BY <1>3, <1>4
<1>6. ordnungGanz' => \A e \in Einheiten : einheiten'[e] # None => ~einheiten'[e].deleted
  BY <1>1, <1>2, <1>5 DEF FuhrparkGanz
<1>7. ASSUME ordnungGanz', NEW o \in Wehren
      PROVE  {einheiten[e].rang : e \in Vorhandene(o)}' = 0..(Cardinality(Vorhandene(o)') - 1)
  <2>1. Vorhandene(o)' = Gespeicherte(o)
    BY <1>2, <1>5, <1>7 DEF Vorhandene, Gespeicherte, WieInDerDatei
  <2>2. \A e \in Gespeicherte(o) : einheiten'[e].rang = sicherung.einheiten[e].rang
    BY <1>2, <1>5, <1>7 DEF Gespeicherte, WieInDerDatei
  <2>3. {sicherung.einheiten[e].rang : e \in Gespeicherte(o)} =
          0..(Cardinality(Gespeicherte(o)) - 1)
    BY <1>1, <1>5, <1>7 DEF DateiGanz
  <2>4. {einheiten[e].rang : e \in Vorhandene(o)}' =
          {sicherung.einheiten[e].rang : e \in Gespeicherte(o)}
    BY <2>1, <2>2
  <2> QED BY <2>1, <2>3, <2>4
<1>8. PlaetzeEindeutig' BY <1>7 DEF PlaetzeEindeutig
<1> QED BY <1>2, <1>5, <1>6, <1>8 DEF FuhrparkGanz

\* With one organisation the templates and the order of turning out are those that were
\* saved; those of another one stay.
LEMMA EinspielenStellt ==
  ASSUME SdIInv, Einspielen
  PROVE  WieGesichert /\ FremdeBleiben
<1> DEFINE V == sicherung.vorlagen
           B == {Eingespielt(v) : v \in V}
           F == {v \in vorlagen : v.org # Ziel}
<1>1. /\ Daten(typen, vorlagen, ausruecke) /\ Daten(sicherung.typen, V, sicherung.ausruecke)
      /\ ausruecke' = NeueAusruecke
      /\ EineOrg => Aktive = {Ziel}
  BY EinspielenSchreibt
<1>2. /\ vorlagen' = F \cup B
      /\ \A v \in V : /\ Eingespielt(v).org = Ziel
                      /\ Eingespielt(v).art = v.art /\ Eingespielt(v).text = v.text
                      /\ Eingespielt(v).codes = v.codes \cap CodesNachher
      /\ Cardinality(B) = Cardinality(V)
  BY EingespielteVorlagen
<1>3. /\ \A c \in CodesNachher : \E t \in typen' : t.org = Ziel /\ t.code = c
      /\ {t \in typen' : t.org # Ziel} = {t \in typen : t.org # Ziel}
      /\ \A c \in DateiCodes : \E t \in typen', u \in sicherung.typen :
           t.org = Ziel /\ t.code = c /\ u.code = c /\ t.name = u.name
  BY EingespielteTypen
<1>4. {v \in vorlagen' : v.org # Ziel} = {v \in vorlagen : v.org # Ziel} BY <1>2
<1>9. \A a \in ausruecke' : a.org = Ziel BY <1>1 DEF NeueAusruecke
<1>8. /\ \A e \in Einheiten : einheiten[e] # None =>
           einheiten'[e] # None /\ einheiten'[e] = [einheiten[e] EXCEPT !.rang = einheiten'[e].rang]
      /\ WieInDerDatei => \A e \in Gesicherte : einheiten'[e].rang = sicherung.einheiten[e].rang
  BY EingespielteEinheiten DEF SdIInv, WieInDerDatei, Gesicherte
<1>5. FremdeBleiben BY <1>3, <1>4, <1>8, <1>9 DEF FremdeBleiben
<1>6. ASSUME EineOrg
      PROVE  /\ {[art |-> v.art, text |-> v.text, codes |-> v.codes] : v \in vorlagen'} =
                {[art |-> v.art, text |-> v.text, codes |-> v.codes] : v \in V}
             /\ Cardinality(vorlagen') = Cardinality(V)
             /\ ausruecke' = sicherung.ausruecke
             /\ \A t \in sicherung.typen : \E x \in typen' : x.code = t.code /\ x.name = t.name
             /\ CodesVon(Ziel) \subseteq {t.code : t \in typen'}
  <2>1. F = {} BY <1>1, <1>6 DEF Daten, DatenForm
  <2>2. vorlagen' = B BY <1>2, <2>1
  <2>3. \A v \in V : v.codes \subseteq DateiCodes
    BY <1>1 DEF Daten, DatenEinig, DateiCodes
  <2>4. DateiCodes \subseteq CodesNachher /\ CodesVon(Ziel) \subseteq CodesNachher
    BY DEF CodesNachher
  <2>5. \A v \in V : Eingespielt(v).codes = v.codes BY <1>2, <2>3, <2>4
  <2>6. {[art |-> v.art, text |-> v.text, codes |-> v.codes] : v \in B} =
        {[art |-> v.art, text |-> v.text, codes |-> v.codes] : v \in V}
    <3> DEFINE k(v) == [art |-> v.art, text |-> v.text, codes |-> v.codes]
    <3>1. \A v \in V : k(Eingespielt(v)) = k(v) BY <1>2, <2>5
    <3> HIDE DEF k
    <3>2. {k(v) : v \in B} = {k(v) : v \in V} BY <3>1
    <3> QED BY <3>2 DEF k
  <2>7. ausruecke' = sicherung.ausruecke
    <3>1. \A b \in sicherung.ausruecke :
            /\ b.code \in CodesNachher
            /\ b = [org |-> Ziel, code |-> b.code, einheit |-> b.einheit]
      <4>1. SUFFICES ASSUME NEW b \in sicherung.ausruecke
                     PROVE  /\ b.code \in CodesNachher
                            /\ b = [org |-> Ziel, code |-> b.code, einheit |-> b.einheit]
        OBVIOUS
      <4>2. PICK t \in sicherung.typen : t.org = b.org /\ t.code = b.code
        BY <1>1 DEF Daten, DatenEinig
      <4>3. b.org = Ziel BY <1>1, <1>6, <4>2 DEF Daten, DatenForm
      <4>4. b.code \in DateiCodes BY <4>2 DEF DateiCodes
      <4>5. b \in AusrueckZeilen BY <1>1 DEF Daten, DatenForm
      <4> QED BY <2>4, <4>3, <4>4, <4>5 DEF AusrueckZeilen
    <3>2. ausruecke' = {[org |-> Ziel, code |-> a.code, einheit |-> a.einheit] :
                          a \in {b \in sicherung.ausruecke : b.code \in CodesNachher}}
      BY <1>1 DEF NeueAusruecke
    <3> QED BY <3>1, <3>2
  <2>8. ASSUME NEW t \in sicherung.typen
        PROVE  \E x \in typen' : x.code = t.code /\ x.name = t.name
    <3>1. t.code \in DateiCodes BY DEF DateiCodes
    <3>2. PICK x \in typen', u \in sicherung.typen :
            x.org = Ziel /\ x.code = t.code /\ u.code = t.code /\ x.name = u.name
      BY <1>3, <3>1
    <3>3. u.org = Ziel /\ t.org = Ziel BY <1>1, <1>6 DEF Daten, DatenForm
    <3>4. u = t BY <1>1, <3>2, <3>3 DEF Daten, DatenEinig
    <3> QED BY <3>2, <3>4
  <2>9. CodesVon(Ziel) \subseteq {t.code : t \in typen'} BY <1>3, <2>4
  <2> QED BY <1>2, <2>2, <2>6, <2>7, <2>8, <2>9
<1>7. WieGesichert BY <1>6, <1>8 DEF WieGesichert
<1> QED BY <1>5, <1>7

-----------------------------------------------------------------------------
(* Members and qualifications *)

LEMMA PersonSetzenErhaelt ==
  ASSUME SdIInv, NEW p \in SdPersonen, NEW neu, PersonSetzen(p, neu),
         neu = None \/ (neu \in PersonZeilen /\ neu.qualis \subseteq QualiCodes)
  PROVE  LeuteEinig'
<1>1. /\ personen' = [personen EXCEPT ![p] = neu] /\ qualis' = qualis /\ geprueft' = geprueft
      /\ sdUmfang' = sdUmfang
      /\ Cardinality(sdUmfang.worker) = 1 => \A w \in Workers : geprueft[w] = None
  BY DEF PersonSetzen, SdSchritt
<1>2. LeuteEinig BY DEF SdIInv
<1>3. QualiCodes' = QualiCodes BY <1>1 DEF QualiCodes
<1>4. personen' \in [SdPersonen -> PersonZeilen \cup {None}] BY <1>1, <1>2 DEF LeuteEinig
<1>5. \A x \in SdPersonen : personen'[x] # None => personen'[x].qualis \subseteq QualiCodes
  BY <1>1, <1>2 DEF LeuteEinig
<1> QED BY <1>1, <1>2, <1>3, <1>4, <1>5 DEF LeuteEinig

LEMMA QualiCodesForm == ASSUME SdIInv PROVE QualiCodes \subseteq Qualis
BY DEF SdIInv, LeuteEinig, QualiCodes

\* create_member, import_members_excel, toggle_member, update_member_quali, bulk_delete.
LEMMA PersonErhaelt ==
  ASSUME SdIInv, NEW p \in SdPersonen
  PROVE  /\ PersonSchalten(p) => LeuteEinig'
         /\ PersonLoeschen(p) => LeuteEinig'
         /\ \A Q \in SUBSET Qualis : /\ PersonNeu(p, Q) => LeuteEinig'
                                     /\ PersonQualis(p, Q) => LeuteEinig'
         /\ \A r : PersonImportieren(p, r) => LeuteEinig'
<1>1. /\ QualiCodes \subseteq Qualis
      /\ personen[p] # None => /\ personen[p] \in PersonZeilen
                               /\ personen[p].qualis \subseteq QualiCodes
  BY QualiCodesForm DEF SdIInv, LeuteEinig
<1>2. ASSUME PersonSchalten(p) PROVE LeuteEinig'
  <2> DEFINE neu == [personen[p] EXCEPT !.active = ~personen[p].active]
  <2>1. PersonSetzen(p, neu) /\ personen[p] # None BY <1>2 DEF PersonSchalten
  <2>2. neu \in PersonZeilen /\ neu.qualis = personen[p].qualis
    BY <1>1, <2>1 DEF PersonZeilen
  <2> HIDE DEF neu
  <2> QED BY <1>1, <2>1, <2>2, PersonSetzenErhaelt
<1>3. ASSUME PersonLoeschen(p) PROVE LeuteEinig'
  BY <1>3, PersonSetzenErhaelt DEF PersonLoeschen
<1>4. ASSUME NEW Q \in SUBSET Qualis, PersonNeu(p, Q) PROVE LeuteEinig'
  <2> DEFINE neu == [active |-> TRUE, qualis |-> Q \cap QualiCodes]
  <2>1. PersonSetzen(p, neu) BY <1>4 DEF PersonNeu
  <2>2. neu \in PersonZeilen /\ neu.qualis \subseteq QualiCodes BY DEF PersonZeilen
  <2> HIDE DEF neu
  <2> QED BY <2>1, <2>2, PersonSetzenErhaelt
<1>5. ASSUME NEW Q \in SUBSET Qualis, PersonQualis(p, Q) PROVE LeuteEinig'
  <2> DEFINE neu == [personen[p] EXCEPT !.qualis = Q \cap QualiCodes]
  <2>1. PersonSetzen(p, neu) /\ personen[p] # None BY <1>5 DEF PersonQualis
  <2>2. neu \in PersonZeilen /\ neu.qualis \subseteq QualiCodes
    BY <1>1, <2>1 DEF PersonZeilen
  <2> HIDE DEF neu
  <2> QED BY <2>1, <2>2, PersonSetzenErhaelt
<1>6. ASSUME NEW r, PersonImportieren(p, r) PROVE LeuteEinig'
  <2> DEFINE bisher == IF personen[p] = None THEN {} ELSE personen[p].qualis
             neu == [active |-> TRUE, qualis |-> bisher \cup RolleZuQuali(r)]
  <2>1. PersonSetzen(p, neu) BY <1>6 DEF PersonImportieren
  <2>2. RolleZuQuali(r) \subseteq QualiCodes BY DEF RolleZuQuali
  <2>3. bisher \subseteq QualiCodes BY <1>1
  <2> HIDE DEF bisher
  <2>4. neu \in PersonZeilen /\ neu.qualis \subseteq QualiCodes
    BY <1>1, <2>2, <2>3 DEF PersonZeilen
  <2> HIDE DEF neu
  <2> QED BY <2>1, <2>4, PersonSetzenErhaelt
<1> QED BY <1>2, <1>3, <1>4, <1>5, <1>6

LEMMA QualiSpeichernErhaelt ==
  ASSUME SdIInv, NEW c \in Qualis, QualiSpeichern(c, TRUE)
  PROVE  LeuteEinig'
<1> DEFINE neu == [code |-> c, leiter |-> TRUE]
<1>1. /\ qualis' = {q \in qualis : q.code # c} \cup {neu}
      /\ personen' = personen /\ geprueft' = geprueft /\ sdUmfang' = sdUmfang
  BY DEF QualiSpeichern, SdSchritt
<1>2. LeuteEinig BY DEF SdIInv
<1>3. qualis' \in SUBSET [code : Qualis, leiter : BOOLEAN]
  <2>1. neu \in [code : Qualis, leiter : BOOLEAN] OBVIOUS
  <2> HIDE DEF neu
  <2> QED BY <1>1, <1>2, <2>1 DEF LeuteEinig
<1>4. QualiCodes \subseteq QualiCodes'
  <2>1. neu.code = c OBVIOUS
  <2> HIDE DEF neu
  <2> QED BY <1>1, <2>1 DEF QualiCodes
<1>5. \A x \in SdPersonen : personen'[x] # None => personen'[x].qualis \subseteq QualiCodes'
  BY <1>1, <1>2, <1>4 DEF LeuteEinig
<1>6. \A d : NichtVergeben(d)' <=> NichtVergeben(d) BY <1>1 DEF NichtVergeben, Traeger
<1> QED BY <1>1, <1>2, <1>3, <1>5, <1>6 DEF LeuteEinig

LEMMA QualiPruefenErhaelt ==
  ASSUME SdIInv, NEW w \in Workers, NEW c \in Qualis, QualiPruefen(w, c)
  PROVE  LeuteEinig'
<1>1. /\ geprueft' = [geprueft EXCEPT ![w] = c] /\ NichtVergeben(c)
      /\ personen' = personen /\ qualis' = qualis /\ sdUmfang' = sdUmfang
  BY DEF QualiPruefen, SdSchritt
<1>2. LeuteEinig BY DEF SdIInv
<1>3. geprueft' \in [Workers -> Qualis \cup {None}] BY <1>1, <1>2 DEF LeuteEinig
<1>4. \A d : NichtVergeben(d)' <=> NichtVergeben(d) BY <1>1 DEF NichtVergeben, Traeger
<1>5. QualiCodes' = QualiCodes BY <1>1 DEF QualiCodes
<1>6. Cardinality(sdUmfang.worker) = 1 =>
        \A x \in Workers : geprueft'[x] # None => NichtVergeben(geprueft'[x])
  BY <1>1, <1>2 DEF LeuteEinig
<1> QED BY <1>1, <1>2, <1>3, <1>4, <1>5, <1>6 DEF LeuteEinig

LEMMA QualiLoeschenErhaelt ==
  ASSUME SdIInv, NEW w \in Workers, QualiLoeschen(w)
  PROVE  LeuteEinig'
<1> DEFINE c == geprueft[w]
           neu(p) == [personen[p] EXCEPT !.qualis = personen[p].qualis \ {c}]
<1>1. /\ qualis' = {q \in qualis : q.code # c}
      /\ personen' = [p \in SdPersonen |-> IF personen[p] = None THEN None ELSE neu(p)]
      /\ geprueft' = [geprueft EXCEPT ![w] = None] /\ sdUmfang' = sdUmfang
  BY DEF QualiLoeschen
<1>2. LeuteEinig BY DEF SdIInv
<1>3. \A p \in SdPersonen : personen[p] # None =>
        neu(p) \in PersonZeilen /\ neu(p).qualis = personen[p].qualis \ {c}
  BY <1>2 DEF LeuteEinig, PersonZeilen
<1> HIDE DEF c, neu
<1>4. personen' \in [SdPersonen -> PersonZeilen \cup {None}] BY <1>1, <1>3
<1>5. qualis' \in SUBSET [code : Qualis, leiter : BOOLEAN] BY <1>1, <1>2 DEF LeuteEinig
<1>6. QualiCodes' = QualiCodes \ {c} BY <1>1 DEF QualiCodes
<1>7. \A p \in SdPersonen : personen'[p] # None => personen'[p].qualis \subseteq QualiCodes'
  BY <1>1, <1>2, <1>3, <1>6 DEF LeuteEinig
<1>8. geprueft' \in [Workers -> Qualis \cup {None}] BY <1>1, <1>2 DEF LeuteEinig
<1>9. \A d : NichtVergeben(d) => NichtVergeben(d)'
  BY <1>1, <1>3 DEF NichtVergeben, Traeger
<1>10. \A x \in Workers : geprueft'[x] # None => geprueft'[x] = geprueft[x]
  BY <1>1, <1>2 DEF LeuteEinig
<1>11. (Cardinality(sdUmfang.worker) = 1 =>
          \A x \in Workers : geprueft[x] # None => NichtVergeben(geprueft[x]))'
  <2> SUFFICES ASSUME Cardinality(sdUmfang.worker) = 1, NEW x \in Workers,
                      geprueft'[x] # None
               PROVE  NichtVergeben(geprueft[x])'
    BY <1>1
  <2>1. \A p \in SdPersonen :
          personen'[p] # None => ~(geprueft[x] \in personen'[p].qualis)
    <3>1. NichtVergeben(geprueft[x]) BY <1>2, <1>10 DEF LeuteEinig
    <3> QED BY <1>1, <1>3, <3>1 DEF NichtVergeben, Traeger
  <2> QED BY <1>10, <2>1 DEF NichtVergeben, Traeger
<1> QED BY <1>1, <1>4, <1>5, <1>7, <1>8, <1>11 DEF LeuteEinig

-----------------------------------------------------------------------------
(* The inductive invariant *)

\* A step is about alarm types and templates, about vehicles, about members or saves.
LEMMA SdIInvDanach ==
  ASSUME SdIInv, sdUmfang' = sdUmfang,
         Daten(typen', vorlagen', ausruecke') \/ UNCHANGED <<typen, vorlagen, ausruecke>>,
         (FuhrparkGanz' /\ (ordnungGanz' => ordnungGanz)) \/ UNCHANGED fuhrpark,
         LeuteEinig' \/ UNCHANGED leute,
         sicherung' = sicherung \/ Sichern
  PROVE  SdIInv'
<1>1. Daten(typen', vorlagen', ausruecke') BY DEF SdIInv
<1>2. Daten(typen, vorlagen, ausruecke)' BY <1>1, DatenDanach
<1>3. FuhrparkGanz'
  <2>1. CASE UNCHANGED fuhrpark
    <3>1. einheiten' = einheiten /\ ordnungGanz' = ordnungGanz BY <2>1 DEF fuhrpark
    <3>2. \A o : Vorhandene(o)' = Vorhandene(o) BY <3>1 DEF Vorhandene
    <3>3. \A o : Plaetze(o)' = Plaetze(o) BY <3>1, <3>2 DEF Plaetze
    <3>4. FuhrparkGanz BY DEF SdIInv
    <3>5. PlaetzeEindeutig' BY <3>1, <3>2, <3>3, <3>4, PlaetzeBleiben
    <3> QED BY <3>1, <3>4, <3>5 DEF FuhrparkGanz
  <2> QED BY <2>1
<1>4. LeuteEinig'
  <2>1. CASE UNCHANGED leute
    <3>1. qualis' = qualis /\ personen' = personen /\ geprueft' = geprueft BY <2>1 DEF leute
    <3>2. QualiCodes' = QualiCodes BY <3>1 DEF QualiCodes
    <3>3. \A d : NichtVergeben(d)' <=> NichtVergeben(d) BY <3>1 DEF NichtVergeben, Traeger
    <3> QED BY <3>1, <3>2, <3>3 DEF SdIInv, LeuteEinig
  <2> QED BY <2>1
<1>5. sicherung' # None => /\ Daten(sicherung'.typen, sicherung'.vorlagen, sicherung'.ausruecke)
                           /\ sicherung'.qualis \subseteq Qualis
  <2>1. CASE sicherung' = sicherung BY <2>1 DEF SdIInv
  <2>2. CASE Sichern
    <3>1. /\ sicherung'.typen = typen /\ sicherung'.vorlagen = vorlagen
          /\ sicherung'.ausruecke = ausruecke /\ sicherung'.qualis = QualiCodes
      BY <2>2 DEF Sichern
    <3>2. Daten(typen, vorlagen, ausruecke) BY DEF SdIInv
    <3> QED BY <3>1, <3>2, QualiCodesForm
  <2> QED BY <2>1, <2>2
<1>6. (sicherung # None => /\ Daten(sicherung.typen, sicherung.vorlagen, sicherung.ausruecke)
                           /\ sicherung.qualis \subseteq Qualis)'
  BY <1>5 DEF Daten, DatenForm, DatenEinig, Aktive, EineOrg
<1>7. sdUmfang' \in SdUmfaenge BY DEF SdIInv
<1>8. DateiGanz'
  <2>1. CASE sicherung' = sicherung
    <3>1. ordnungGanz' => ordnungGanz BY DEF fuhrpark
    <3>2. \A o : Gespeicherte(o)' = Gespeicherte(o) BY <2>1 DEF Gespeicherte
    <3>3. DateiGanz BY DEF SdIInv
    <3> QED BY <2>1, <3>1, <3>2, <3>3 DEF DateiGanz
  <2>2. CASE Sichern
    <3>1. sicherung'.einheiten = einheiten /\ ordnungGanz' = ordnungGanz
      BY <2>2 DEF Sichern, alarme, fuhrpark
    <3>2. \A o : Gespeicherte(o)' = Vorhandene(o) BY <3>1 DEF Gespeicherte, Vorhandene
    <3>3. FuhrparkGanz BY DEF SdIInv
    <3> QED BY <3>1, <3>2, <3>3 DEF DateiGanz, FuhrparkGanz, PlaetzeEindeutig
  <2> QED BY <2>1, <2>2
<1> QED BY <1>2, <1>3, <1>4, <1>6, <1>7, <1>8 DEF SdIInv

LEMMA EinspielenErhaeltLeute ==
  ASSUME SdIInv, Einspielen
  PROVE  LeuteEinig'
<1>1. /\ qualis' = qualis \cup {[code |-> c, leiter |-> FALSE] :
                                  c \in sicherung.qualis \ QualiCodes}
      /\ personen' = personen /\ geprueft' = geprueft /\ sdUmfang' = sdUmfang
      /\ sicherung.qualis \subseteq Qualis
  BY DEF Einspielen, SdSchritt, SdIInv
<1>2. LeuteEinig BY DEF SdIInv
<1>3. \A c \in Qualis : [code |-> c, leiter |-> FALSE] \in [code : Qualis, leiter : BOOLEAN]
  OBVIOUS
<1>4. qualis' \in SUBSET [code : Qualis, leiter : BOOLEAN] BY <1>1, <1>2, <1>3 DEF LeuteEinig
<1>5. QualiCodes \subseteq QualiCodes' BY <1>1 DEF QualiCodes
<1>6. \A x \in SdPersonen : personen'[x] # None => personen'[x].qualis \subseteq QualiCodes'
  BY <1>1, <1>2, <1>5 DEF LeuteEinig
<1>7. \A d : NichtVergeben(d)' <=> NichtVergeben(d) BY <1>1 DEF NichtVergeben, Traeger
<1> QED BY <1>1, <1>2, <1>4, <1>6, <1>7 DEF LeuteEinig

LEMMA SdInitIInv == SdInit => SdIInv
<1> SUFFICES ASSUME SdInit PROVE SdIInv OBVIOUS
<1>1. sdUmfang \in SdUmfaenge BY DEF SdInit
<1>2. Daten(typen, vorlagen, ausruecke)
  <2> DEFINE reihe(o, c) == [org |-> o, code |-> c, name |-> "neu", gross |-> FALSE]
  <2>1. /\ typen = {reihe(o, c) : o \in Aktive, c \in Codes}
        /\ vorlagen = {} /\ ausruecke = {}
    BY DEF SdInit
  <2>2. \A o \in Aktive, c \in Codes : /\ reihe(o, c) \in TypZeilen
                                       /\ reihe(o, c).org = o /\ reihe(o, c).code = c
    BY DEF TypZeilen, Aktive, SdCodes
  <2> HIDE DEF reihe
  <2>3. \A t \in typen : \E o \in Aktive, c \in Codes :
          /\ t = reihe(o, c) /\ t \in TypZeilen /\ t.org = o /\ t.code = c
    BY <2>1, <2>2
  <2>4. typen \in SUBSET TypZeilen /\ \A t \in typen : t.org \in Aktive BY <2>3
  <2>5. \A t, u \in typen : t.org = u.org /\ t.code = u.code => t = u BY <2>3
  <2>6. IsFiniteSet(vorlagen) BY <2>1, FS_EmptySet
  <2>7. DatenForm(typen, vorlagen, ausruecke) BY <2>1, <2>4, <2>6 DEF DatenForm
  <2>8. DatenEinig(typen, vorlagen, ausruecke) BY <2>1, <2>5 DEF DatenEinig
  <2> QED BY <2>7, <2>8 DEF Daten
<1>3. sicherung = None /\ DateiGanz BY DEF SdInit, DateiGanz
<1>4. FuhrparkGanz
  <2> DEFINE reihe(e) == NeuesFahrzeug(KennungVon[e], 0)
  <2>1. /\ einheiten = [e \in Einheiten |-> IF e \in sdUmfang.bestand THEN reihe(e) ELSE None]
        /\ ordnungGanz = TRUE
    BY DEF SdInit
  <2>2. \A e \in Einheiten : /\ reihe(e) \in EinheitZeilen
                              /\ reihe(e).rang = 0 /\ reihe(e).deleted = FALSE
    BY SdAssumption DEF EinheitZeilen, NeuesFahrzeug
  <2> HIDE DEF reihe
  <2>3. \A e \in Einheiten : reihe(e) # None BY <2>2, SdAssumption
  <2>4. ASSUME NEW o \in Wehren
        PROVE  {einheiten[e].rang : e \in Vorhandene(o)} = 0..(Cardinality(Vorhandene(o)) - 1)
    <3>1. \A e, x \in Vorhandene(o) : e = x
      BY <1>1, <2>1, SdAssumption DEF Vorhandene
    <3>2. CASE Vorhandene(o) = {}
      <4>1. Cardinality(Vorhandene(o)) = 0 BY <3>2, FS_EmptySet
      <4> QED BY <3>2, <4>1
    <3>3. CASE Vorhandene(o) # {}
      <4>1. PICK e \in Vorhandene(o) : Vorhandene(o) = {e} BY <3>1, <3>3
      <4>2. Cardinality(Vorhandene(o)) = 1 BY <4>1, FS_Singleton
      <4>3. einheiten[e].rang = 0 BY <2>1, <2>2, <4>1 DEF Vorhandene
      <4>4. {einheiten[x].rang : x \in Vorhandene(o)} = {0} BY <4>1, <4>3
      <4> QED BY <4>2, <4>4
    <3> QED BY <3>2, <3>3
  <2>5. PlaetzeEindeutig BY <2>4 DEF PlaetzeEindeutig
  <2> QED BY <2>1, <2>2, <2>3, <2>5 DEF FuhrparkGanz
<1>5. LeuteEinig
  <2>1. /\ qualis = {[code |-> c, leiter |-> TRUE] : c \in Qualis}
        /\ personen = [p \in SdPersonen |-> None] /\ geprueft = [w \in Workers |-> None]
    BY DEF SdInit
  <2>2. \A c \in Qualis : [code |-> c, leiter |-> TRUE] \in [code : Qualis, leiter : BOOLEAN]
    OBVIOUS
  <2>3. qualis \in SUBSET [code : Qualis, leiter : BOOLEAN] BY <2>1, <2>2
  <2> QED BY <2>1, <2>3 DEF LeuteEinig
<1> QED BY <1>1, <1>2, <1>3, <1>4, <1>5 DEF SdIInv

LEMMA SdNextIInv ==
  ASSUME SdIInv, SdNext
  PROVE  SdIInv'
<1> DEFINE AlarmRest == UNCHANGED <<sdUmfang, fuhrpark, leute, sicherung>>
           FuhrRest == /\ UNCHANGED <<sdUmfang, typen, vorlagen, ausruecke, leute, sicherung>>
                       /\ ordnungGanz' => ordnungGanz
           LeuteRest == UNCHANGED <<sdUmfang, typen, vorlagen, ausruecke, fuhrpark, sicherung>>
<1>1. ASSUME Daten(typen', vorlagen', ausruecke'), AlarmRest PROVE SdIInv'
  BY <1>1, SdIInvDanach
<1>2. ASSUME FuhrparkGanz', FuhrRest PROVE SdIInv' BY <1>2, SdIInvDanach
<1>3. ASSUME LeuteEinig', LeuteRest PROVE SdIInv' BY <1>3, SdIInvDanach
<1> HIDE DEF AlarmRest, FuhrRest, LeuteRest
<1>4. ASSUME NEW o \in Wehren, NEW c \in SdCodes, AlarmtypNeu(o, c) PROVE SdIInv'
  <2>1. AlarmRest BY <1>4 DEF AlarmtypNeu, SdSchritt, AlarmRest
  <2> QED BY <1>1, <1>4, <2>1, AlarmtypNeuErhaelt
<1>5. ASSUME NEW o \in Wehren, NEW c \in SdCodes, EinsatzMitTyp(o, c) PROVE SdIInv'
  <2>1. /\ UNCHANGED <<typen, vorlagen, ausruecke, fuhrpark, leute>>
        /\ sdUmfang' = sdUmfang /\ sicherung' = sicherung
    BY <1>5 DEF EinsatzMitTyp, SdSchritt
  <2> QED BY <2>1, SdIInvDanach
<1>6. ASSUME NEW t \in typen, AlarmtypAendern(t) PROVE SdIInv'
  <2>1. AlarmRest BY <1>6 DEF AlarmtypAendern, SdSchritt, AlarmRest
  <2> QED BY <1>1, <1>6, <2>1, AlarmtypAendernErhaelt
<1>7. ASSUME NEW t \in typen, AlarmtypLoeschen(t) PROVE SdIInv'
  <2>1. AlarmRest BY <1>7 DEF AlarmtypLoeschen, SdSchritt, AlarmRest
  <2> QED BY <1>1, <1>7, <2>1, AlarmtypLoeschenErhaelt
<1>8. ASSUME NEW t \in typen, NEW E \in SUBSET Einheiten, AusrueckordnungSpeichern(t, E)
      PROVE  SdIInv'
  <2>1. AlarmRest BY <1>8 DEF AusrueckordnungSpeichern, SdSchritt, AlarmRest
  <2> QED BY <1>1, <1>8, <2>1, AusrueckErhaelt
<1>9. ASSUME NEW art \in Arten, VorlageBearbeiten(art) PROVE SdIInv'
  <2>1. AlarmRest BY <1>9 DEF VorlageBearbeiten, SdSchritt, AlarmRest
  <2> QED BY <1>1, <1>9, <2>1, VorlageErhaelt
<1>10. ASSUME NEW neu, NEW ganz, FuhrparkSchritt(neu, ganz) PROVE FuhrRest
  BY <1>10 DEF FuhrparkSchritt, SdSchritt, FuhrRest
<1>11. FuhrparkGanz BY DEF SdIInv
<1>12. ASSUME NEW e \in Einheiten, EinheitNeu(e) PROVE SdIInv'
  <2>1. FuhrRest BY <1>10, <1>12 DEF EinheitNeu
  <2> QED BY <1>2, <1>11, <1>12, <2>1, EinheitNeuErhaelt
<1>13. ASSUME NEW e \in Einheiten, EinheitSchalten(e) PROVE SdIInv'
  <2>1. FuhrRest BY <1>10, <1>13 DEF EinheitSchalten
  <2> QED BY <1>2, <1>11, <1>13, <2>1, EinheitSchaltenErhaelt
<1>26. ASSUME NEW e \in Einheiten, NEW k \in Kennungen, EinheitUmbenennen(e, k)
       PROVE  SdIInv'
  <2>1. FuhrRest BY <1>10, <1>26 DEF EinheitUmbenennen
  <2> QED BY <1>2, <1>11, <1>26, <2>1, EinheitUmbenennenErhaelt
<1>14. ASSUME NEW e \in Einheiten, EinheitLoeschen(e) PROVE SdIInv'
  <2>1. FuhrRest BY <1>10, <1>14 DEF EinheitLoeschen
  <2> QED BY <1>2, <1>11, <1>14, <2>1, EinheitLoeschenErhaelt
<1>15. ASSUME NEW e \in Einheiten, NEW x \in Einheiten, EinheitVerschieben(e, x)
       PROVE  SdIInv'
  <2>1. FuhrRest BY <1>10, <1>15 DEF EinheitVerschieben
  <2> QED BY <1>2, <1>11, <1>15, <2>1, EinheitVerschiebenErhaelt
<1>16. ASSUME NEW o \in Aktive, NEW T \in SUBSET Sichtbare(o), NEW f \in Folgen(T),
              EinheitenOrdnen(o, f)
       PROVE  SdIInv'
  <2>1. FuhrRest BY <1>10, <1>16 DEF EinheitenOrdnen
  <2> QED BY <1>2, <1>11, <1>16, <2>1, EinheitenOrdnenErhaelt DEF Aktive
<1>17. ASSUME NEW p, NEW neu, PersonSetzen(p, neu) PROVE LeuteRest
  BY <1>17 DEF PersonSetzen, SdSchritt, alarme, LeuteRest
<1>18. ASSUME NEW p \in SdPersonen,
              \/ PersonSchalten(p) \/ PersonLoeschen(p)
              \/ \E Q \in SUBSET Qualis : PersonNeu(p, Q) \/ PersonQualis(p, Q)
              \/ \E rolle \in {"", "kommandant", "gruppenkommandant"} : PersonImportieren(p, rolle)
       PROVE  SdIInv'
  <2>1. LeuteEinig' BY <1>18, PersonErhaelt
  <2>2. LeuteRest
    BY <1>17, <1>18 DEF PersonSchalten, PersonLoeschen, PersonNeu, PersonQualis, PersonImportieren
  <2> QED BY <1>3, <2>1, <2>2
<1>19. ASSUME NEW c \in Qualis, QualiSpeichern(c, TRUE) PROVE SdIInv'
  <2>1. LeuteRest BY <1>19 DEF QualiSpeichern, SdSchritt, alarme, LeuteRest
  <2> QED BY <1>3, <1>19, <2>1, QualiSpeichernErhaelt
<1>20. ASSUME NEW c \in Qualis, NEW w \in Workers, QualiPruefen(w, c) PROVE SdIInv'
  <2>1. LeuteRest BY <1>20 DEF QualiPruefen, SdSchritt, alarme, LeuteRest
  <2> QED BY <1>3, <1>20, <2>1, QualiPruefenErhaelt
<1>21. ASSUME NEW w \in Workers, QualiLoeschen(w) PROVE SdIInv'
  <2>1. LeuteRest BY <1>21 DEF QualiLoeschen, alarme, LeuteRest
  <2> QED BY <1>3, <1>21, <2>1, QualiLoeschenErhaelt
<1>22. ASSUME Sichern PROVE SdIInv'
  <2>1. UNCHANGED <<sdUmfang, typen, vorlagen, ausruecke, fuhrpark, leute>>
    BY <1>22 DEF Sichern, alarme
  <2> QED BY <1>22, <2>1, SdIInvDanach
<1>23. ASSUME Einspielen PROVE SdIInv'
  <2>1. sdUmfang' = sdUmfang /\ sicherung' = sicherung BY <1>23 DEF Einspielen, SdSchritt
  <2> QED
    BY <1>23, <2>1, EinspielenErhaelt, EinspielenErhaeltFuhrpark, EinspielenErhaeltLeute,
       SdIInvDanach
<1>24. CASE Auftragsvorlage \/ Meldungsvorlage \/ LageHinweis \/ DefaultMeldung
  BY <1>9, <1>24 DEF Auftragsvorlage, Meldungsvorlage, LageHinweis, DefaultMeldung, Arten
<1>25. CASE \E p \in SdPersonen :
       \/ PersonSchalten(p) \/ PersonLoeschen(p)
       \/ \E Q \in SUBSET Qualis : PersonNeu(p, Q) \/ PersonQualis(p, Q)
       \/ \E rolle \in {"", "kommandant", "gruppenkommandant"} : PersonImportieren(p, rolle)
  BY <1>18, <1>25
<1> QED
  BY <1>4, <1>5, <1>6, <1>7, <1>8, <1>12, <1>13, <1>14, <1>15, <1>16, <1>19, <1>20, <1>21,
     <1>22, <1>23, <1>24, <1>25, <1>26
  DEF SdNext, SdCodes

-----------------------------------------------------------------------------
(* What the master data promise *)

LEMMA SdIInvGenuegt == SdIInv => SdTypeOK /\ TexteEindeutig /\ PlaetzeEindeutig
<1> SUFFICES ASSUME SdIInv PROVE SdTypeOK /\ TexteEindeutig /\ PlaetzeEindeutig OBVIOUS
<1>1. DatenEinig(typen, vorlagen, ausruecke) BY DEF SdIInv, Daten
<1>2. \A v \in vorlagen : v.codes \subseteq CodesVon(v.org) BY <1>1 DEF DatenEinig, CodesVon
<1>3. \A a \in ausruecke : a.code \in CodesVon(a.org) BY <1>1 DEF DatenEinig, CodesVon
<1>4. \A v, x \in vorlagen : v.org = x.org /\ v.id = x.id => v = x BY <1>1 DEF DatenEinig
<1>5. SdTypeOK BY <1>2, <1>3, <1>4 DEF SdTypeOK, SdIInv, LeuteEinig
<1>6. TexteEindeutig BY <1>1 DEF TexteEindeutig, DatenEinig
<1>7. PlaetzeEindeutig BY DEF SdIInv, FuhrparkGanz
<1> QED BY <1>5, <1>6, <1>7

LEMMA TypenBleiben ==
  ASSUME SdIInv, SdNext
  PROVE  VerwendeteTypenBleiben
<1> DEFINE Bleibt(t) == \E x \in typen' : x.org = t.org /\ x.code = t.code
<1>1. ASSUME typen \subseteq typen' PROVE VerwendeteTypenBleiben
  BY <1>1 DEF VerwendeteTypenBleiben
<1>2. typen \subseteq TypZeilen BY DEF SdIInv, Daten, DatenForm
<1>3. ASSUME NEW t \in typen, AlarmtypAendern(t) PROVE VerwendeteTypenBleiben
  <2> DEFINE neu == [t EXCEPT !.name = "anders", !.gross = TRUE]
  <2>1. typen' = (typen \ {t}) \cup {neu} BY <1>3 DEF AlarmtypAendern
  <2>2. neu.org = t.org /\ neu.code = t.code BY <1>2, <1>3 DEF TypZeilen
  <2> HIDE DEF neu
  <2> QED BY <2>1, <2>2 DEF VerwendeteTypenBleiben
<1>4. ASSUME NEW t \in typen, AlarmtypLoeschen(t) PROVE VerwendeteTypenBleiben
  <2>1. typen' = typen \ {t} /\ <<t.org, t.code>> \notin benutzt BY <1>4 DEF AlarmtypLoeschen
  <2> QED BY <2>1 DEF VerwendeteTypenBleiben
<1>5. ASSUME Einspielen PROVE VerwendeteTypenBleiben
  <2>1. SUFFICES ASSUME NEW t \in typen PROVE \E x \in typen' : x.org = t.org /\ x.code = t.code
    BY DEF VerwendeteTypenBleiben
  <2>2. /\ \A c \in CodesNachher : \E x \in typen' : x.org = Ziel /\ x.code = c
        /\ {x \in typen' : x.org # Ziel} = {x \in typen : x.org # Ziel}
    BY <1>5, EingespielteTypen
  <2>3. CASE t.org = Ziel
    <3>1. t.code \in CodesNachher BY <2>3 DEF CodesNachher, CodesVon
    <3> QED BY <2>2, <2>3, <3>1
  <2>4. CASE t.org # Ziel
    <3>1. t \in {x \in typen' : x.org # Ziel} BY <2>2, <2>4
    <3> QED BY <3>1
  <2> QED BY <2>3, <2>4
<1>6. ASSUME NEW o \in Wehren, NEW c \in SdCodes, AlarmtypNeu(o, c) \/ EinsatzMitTyp(o, c)
      PROVE  VerwendeteTypenBleiben
  BY <1>1, <1>6 DEF AlarmtypNeu, EinsatzMitTyp
<1>7. ASSUME NEW neu, NEW ganz, FuhrparkSchritt(neu, ganz) PROVE VerwendeteTypenBleiben
  BY <1>1, <1>7 DEF FuhrparkSchritt
<1>8. ASSUME NEW p, NEW neu, PersonSetzen(p, neu) PROVE VerwendeteTypenBleiben
  BY <1>1, <1>8 DEF PersonSetzen, alarme
<1>9. ASSUME \/ \E t \in typen : \E E \in SUBSET Einheiten : AusrueckordnungSpeichern(t, E)
             \/ Auftragsvorlage \/ Meldungsvorlage \/ LageHinweis \/ DefaultMeldung
      PROVE  VerwendeteTypenBleiben
  BY <1>1, <1>9 DEF AusrueckordnungSpeichern, Auftragsvorlage, Meldungsvorlage, LageHinweis,
                    DefaultMeldung, VorlageBearbeiten
<1>10. ASSUME \E e \in Einheiten :
                 \/ EinheitNeu(e) \/ EinheitSchalten(e) \/ EinheitLoeschen(e)
                 \/ \E x \in Einheiten : EinheitVerschieben(e, x)
                 \/ \E k \in Kennungen : EinheitUmbenennen(e, k)
       PROVE  VerwendeteTypenBleiben
  BY <1>7, <1>10 DEF EinheitNeu, EinheitSchalten, EinheitLoeschen, EinheitVerschieben,
       EinheitUmbenennen
<1>11. ASSUME NEW o, NEW f, EinheitenOrdnen(o, f) PROVE VerwendeteTypenBleiben
  BY <1>7, <1>11 DEF EinheitenOrdnen
<1>12. ASSUME \E p \in SdPersonen :
                \/ PersonSchalten(p) \/ PersonLoeschen(p)
                \/ \E Q \in SUBSET Qualis : PersonNeu(p, Q) \/ PersonQualis(p, Q)
                \/ \E rolle \in {"", "kommandant", "gruppenkommandant"} :
                     PersonImportieren(p, rolle)
       PROVE  VerwendeteTypenBleiben
  BY <1>8, <1>12 DEF PersonSchalten, PersonLoeschen, PersonNeu, PersonQualis, PersonImportieren
<1>13. ASSUME \/ \E c \in Qualis : QualiSpeichern(c, TRUE) \/ \E w \in Workers : QualiPruefen(w, c)
              \/ \E w \in Workers : QualiLoeschen(w)
              \/ Sichern
       PROVE  VerwendeteTypenBleiben
  BY <1>1, <1>13 DEF QualiSpeichern, QualiPruefen, QualiLoeschen, Sichern, alarme
<1> QED
  BY <1>3, <1>4, <1>5, <1>6, <1>9, <1>10, <1>11, <1>12, <1>13 DEF SdNext, SdCodes

\* Only a list that is saved, or the deletion of a qualification, takes one from a member.
LEMMA QualiBleibtWahr ==
  ASSUME SdIInv, SdNext
  PROVE  QualiBleibt
<1> DEFINE Verliert(p) == /\ personen[p] # None /\ personen'[p] # None
                          /\ ~(personen[p].qualis \subseteq personen'[p].qualis)
<1>1. SUFFICES ASSUME Cardinality(sdUmfang.worker) = 1, NEW p \in SdPersonen, Verliert(p)
               PROVE  \E Q \in SUBSET Qualis : PersonQualis(p, Q)
  BY DEF QualiBleibt
<1>2. personen \in [SdPersonen -> PersonZeilen \cup {None}] BY DEF SdIInv, LeuteEinig
<1>3. personen[p] \in PersonZeilen BY <1>1, <1>2
<1>4. ~UNCHANGED personen BY <1>1
<1>5. ASSUME NEW x \in SdPersonen, NEW neu, PersonSetzen(x, neu)
      PROVE  x = p /\ personen'[p] = neu
  <2>1. personen' = [personen EXCEPT ![x] = neu] BY <1>5 DEF PersonSetzen
  <2> QED BY <1>1, <1>2, <2>1
<1>6. ASSUME NEW x \in SdPersonen, PersonSchalten(x) PROVE FALSE
  <2> DEFINE neu == [personen[x] EXCEPT !.active = ~personen[x].active]
  <2>1. PersonSetzen(x, neu) BY <1>6 DEF PersonSchalten
  <2>2. x = p => neu.qualis = personen[p].qualis BY <1>3 DEF PersonZeilen
  <2> HIDE DEF neu
  <2> QED BY <1>1, <1>5, <2>1, <2>2
<1>7. ASSUME NEW x \in SdPersonen, PersonLoeschen(x) PROVE FALSE
  BY <1>1, <1>5, <1>7 DEF PersonLoeschen
<1>8. ASSUME NEW x \in SdPersonen, NEW Q, PersonNeu(x, Q) PROVE FALSE
  BY <1>1, <1>5, <1>8 DEF PersonNeu
<1>9. ASSUME NEW x \in SdPersonen, NEW r, PersonImportieren(x, r) PROVE FALSE
  <2> DEFINE neu == [active |-> TRUE,
                     qualis |-> (IF personen[x] = None THEN {} ELSE personen[x].qualis)
                                  \cup RolleZuQuali(r)]
  <2>1. PersonSetzen(x, neu) BY <1>9 DEF PersonImportieren
  <2>2. x = p => personen[p].qualis \subseteq neu.qualis BY <1>1
  <2> HIDE DEF neu
  <2> QED BY <1>1, <1>5, <2>1, <2>2
<1>10. ASSUME NEW x \in SdPersonen, NEW Q \in SUBSET Qualis, PersonQualis(x, Q)
       PROVE  \E R \in SUBSET Qualis : PersonQualis(p, R)
  <2>1. x = p BY <1>5, <1>10 DEF PersonQualis
  <2> QED BY <1>10, <2>1
<1>11. ASSUME NEW w \in Workers, QualiLoeschen(w) PROVE FALSE
  <2> DEFINE c == geprueft[w]
             neu(x) == [personen[x] EXCEPT !.qualis = personen[x].qualis \ {c}]
  <2>1. /\ c # None
        /\ personen' = [x \in SdPersonen |-> IF personen[x] = None THEN None ELSE neu(x)]
    BY <1>11 DEF QualiLoeschen
  <2>2. neu(p).qualis = personen[p].qualis \ {c} BY <1>3 DEF PersonZeilen
  <2>3. NichtVergeben(c) BY <1>1, <2>1 DEF SdIInv, LeuteEinig
  <2>4. c \notin personen[p].qualis BY <1>1, <2>3 DEF NichtVergeben, Traeger
  <2> HIDE DEF c, neu
  <2>5. personen'[p] = neu(p) BY <1>1, <2>1
  <2> QED BY <1>1, <2>2, <2>4, <2>5
<1>12. ASSUME \/ \E o \in Wehren, c \in Codes \cup {"T1"} : AlarmtypNeu(o, c) \/ EinsatzMitTyp(o, c)
              \/ \E t \in typen : \/ AlarmtypAendern(t) \/ AlarmtypLoeschen(t)
                                  \/ \E E \in SUBSET Einheiten : AusrueckordnungSpeichern(t, E)
              \/ Auftragsvorlage \/ Meldungsvorlage \/ LageHinweis \/ DefaultMeldung
       PROVE  FALSE
  BY <1>4, <1>12 DEF AlarmtypNeu, EinsatzMitTyp, AlarmtypAendern, AlarmtypLoeschen,
       AusrueckordnungSpeichern, Auftragsvorlage, Meldungsvorlage, LageHinweis,
       DefaultMeldung, VorlageBearbeiten, leute
<1>13. ASSUME NEW neu, NEW ganz, FuhrparkSchritt(neu, ganz) PROVE FALSE
  BY <1>4, <1>13 DEF FuhrparkSchritt, leute
<1>14. ASSUME \E e \in Einheiten :
                 \/ EinheitNeu(e) \/ EinheitSchalten(e) \/ EinheitLoeschen(e)
                 \/ \E x \in Einheiten : EinheitVerschieben(e, x)
                 \/ \E k \in Kennungen : EinheitUmbenennen(e, k)
       PROVE  FALSE
  BY <1>13, <1>14 DEF EinheitNeu, EinheitSchalten, EinheitLoeschen, EinheitVerschieben,
       EinheitUmbenennen
<1>15. ASSUME NEW o, NEW f, EinheitenOrdnen(o, f) PROVE FALSE
  BY <1>13, <1>15 DEF EinheitenOrdnen
<1>16. ASSUME \/ \E c \in Qualis : QualiSpeichern(c, TRUE) \/ \E w \in Workers : QualiPruefen(w, c)
              \/ Sichern \/ Einspielen
       PROVE  FALSE
  BY <1>4, <1>16 DEF QualiSpeichern, QualiPruefen, Sichern, Einspielen, leute
<1> QED
  BY <1>6, <1>7, <1>8, <1>9, <1>10, <1>11, <1>12, <1>14, <1>15, <1>16 DEF SdNext

\* Master data of any size, with any number of workers: what hangs on an alarm type or a
\* qualification has one, numbers and texts stay unique, vehicles keep places of their own,
\* the type of an incident stays, and restoring brings back what was saved; of another
\* organisation it takes the order of turning out and may change the places of vehicles.
THEOREM StammdatenHalten == SdSpec => SdVersprechen
<1>1. SdInit => SdIInv BY SdInitIInv
<1>2. SdIInv /\ [SdNext]_sdVars => SdIInv'
  <2> SUFFICES ASSUME SdIInv, [SdNext]_sdVars PROVE SdIInv' OBVIOUS
  <2>1. CASE SdNext BY <2>1, SdNextIInv
  <2>2. CASE UNCHANGED sdVars
    <3>1. /\ UNCHANGED <<typen, vorlagen, ausruecke, fuhrpark, leute>>
          /\ sdUmfang' = sdUmfang /\ sicherung' = sicherung
      BY <2>2 DEF sdVars, fuhrpark, leute
    <3> QED BY <3>1, SdIInvDanach
  <2> QED BY <2>1, <2>2
<1>3. SdIInv => SdTypeOK /\ TexteEindeutig /\ PlaetzeEindeutig BY SdIInvGenuegt
<1>4. SdIInv /\ [SdNext]_sdVars =>
        [VerwendeteTypenBleiben /\ QualiBleibt /\ (Einspielen => WieGesichert /\ FremdeBleiben)]_sdVars
  <2> SUFFICES ASSUME SdIInv, SdNext
               PROVE  /\ VerwendeteTypenBleiben /\ QualiBleibt
                      /\ Einspielen => WieGesichert /\ FremdeBleiben
    OBVIOUS
  <2> QED BY TypenBleiben, QualiBleibtWahr, EinspielenStellt
<1> QED BY <1>1, <1>2, <1>3, <1>4, PTL DEF SdSpec, SdVersprechen
=============================================================================
